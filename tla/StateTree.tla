----------------------------- MODULE StateTree -----------------------------
(***************************************************************************)
(* The key-value state of a node, a radix tree with hashes kept in RocksDB *)
(* (globalState.h, and serialMerkleTree.h and parallelMerkleTree.h of the  *)
(* experiments), and the ways a block's results are written into it:       *)
(*   parallel      flushMapToState of the multi-core node: threads insert  *)
(*   serial        the same code with one thread, on a copy of the state   *)
(*   leader        saveData of the leader: a thread per follower, then     *)
(*                 updateTree                                              *)
(*   parallelTree  parallelInsertFromMap (as "parallel")                   *)
(*   serialTree    insert of serialMerkleTree, which updates the hashes    *)
(*   library       one thread that calls any operation of the class        *)
(*                                                                         *)
(* A string is a sequence of symbols, each a tuple that starts with a TLA+ *)
(* string.  A digest is the one-symbol string Sha(s); the digest of a key  *)
(* is spelled out as its path, PathLen symbols instead of 64.              *)
(***************************************************************************)
EXTENDS Integers, Sequences, FiniteSets, SequencesExt

CONSTANTS Chars,      \* the characters of keys, digests and values
          Keys,       \* the addresses the contracts write
          NameOf,     \* [Keys -> strings]: a key as it is passed to insert
          PathOf,     \* [Keys -> strings]: its digest
          Order,      \* the keys as the hash map iterates over them
          Values,     \* strings a contract can store
          Modes,
          MaxThreads,
          MaxOps,     \* bound: blocks written
          MaxCalls    \* bound: calls in mode "library"

PathLen == 3
ModeNames == {"parallel", "serial", "leader", "parallelTree", "serialTree", "library"}

\* The digest of a string and the name of the root are one-symbol strings whose
\* symbol is no character.
ASSUME CharsAssumption == \A c \in Chars : Len(c) = 1 /\ c # <<"rootNode">>
ASSUME KeysAssumption ==
  /\ IsFiniteSet(Keys)
  /\ PathOf \in [Keys -> Seq(Chars)] /\ \A k \in Keys : Len(PathOf[k]) = PathLen
  /\ NameOf \in [Keys -> Seq(Chars)] /\ \A k \in Keys : Len(NameOf[k]) > 0
  /\ Values \subseteq Seq(Chars)
  /\ Order \in Seq(Keys) /\ Range(Order) = Keys /\ IsInjective(Order)
  /\ \A j, k \in Keys : j # k => PathOf[j] # PathOf[k]
\* No contract stores the digest of a key as a value.
ASSUME DigestsAssumption == \A k \in Keys : PathOf[k] \notin Values
ASSUME BoundsAssumption ==
  Modes \subseteq ModeNames /\ MaxThreads \in Nat \ {0} /\ MaxOps \in Nat /\ MaxCalls \in Nat

VARIABLES mode, db, phase, pending, order, th, ops, stack, visited,
          written, linked, lost, raced, overlaid, clean, torn
\* db[s]: the stores "globalState" and "globalState_tmp"; pending: the values to
\* write, by key; order: the keys whose parents' hashes are still to be updated;
\* stack and visited: the calls of dfs under way and the nodes they have entered.
\* History: written[s] the last value written of each key, linked[s] the keys
\* whose insert returned, lost[s] the <<node, child>> pairs a write removed,
\* raced: a node was written back over a newer one, overlaid: duplicateState
\* replaced a node of its target by a different one, clean: the hashes were
\* updated after the last insert, torn: a crash cut a flush off.
treeVars == <<mode, db, phase, pending, order, th, ops, stack, visited,
              written, linked, lost, raced, overlaid, clean, torn>>
walk     == <<stack, visited>>

Threads == 0 .. MaxThreads - 1
Stores  == {"globalState", "globalState_tmp"}
Store   == IF mode = "serial" THEN "globalState_tmp" ELSE "globalState"

Sha(s) == << <<"sha", s>> >>
Root   == << <<"rootNode">> >>
Empty  == <<>>

-----------------------------------------------------------------------------
(***************************************************************************)
(* Nodes and their text form.                                              *)
(***************************************************************************)
Node(h, v, c) == [hash |-> h, value |-> v, children |-> c]
NoNode        == Node(Empty, Empty, <<>>)

\* Mutant: a value that ends the text is lost.
deserializeNodeNoValue(n) ==
  IF n.children # <<>> THEN n ELSE [n EXCEPT !.children = <<n.hash, n.value>>, !.value = Empty]

\* The text of a node without children has no second comma: the scan for the
\* children starts over at the hash and takes the hash and the value for children.
deserializeNode(n) ==
  IF n.children # <<>> THEN n
  ELSE [n EXCEPT !.children = <<n.hash>> \o (IF n.value = Empty THEN <<>> ELSE <<n.value>>)]

getNode(d, key) == IF key \in DOMAIN d THEN deserializeNode(d[key]) ELSE NoNode
getValue(d, k)  == getNode(d, PathOf[k]).value
Put(d, key, n)  == [x \in DOMAIN d \cup {key} |-> IF x = key THEN n ELSE d[x]]
Over(d, e)      == [x \in DOMAIN d \cup DOMAIN e |-> IF x \in DOMAIN d THEN d[x] ELSE e[x]]

\* The constructor: a database without a root node gets one.
GlobalState(d) == IF Root \in DOMAIN d THEN d ELSE Put(d, Root, Node(Sha(Empty), Empty, <<>>))
EmptyStore     == [x \in {} |-> NoNode]

\* The node whose child list gets the next prefix of a key, and that prefix.
ParentAt(k, level) == IF level = 0 THEN Root ELSE SubSeq(PathOf[k], 1, level)
ChildAt(k, level)  == SubSeq(PathOf[k], 1, level + 1)

\* The hashes of a node's children, one after the other.
Hashes(d, n)       == [i \in DOMAIN n.children |-> getNode(d, n.children[i]).hash]
ConcatHashes(d, n) == FlattenSeq(Hashes(d, n))

-----------------------------------------------------------------------------
(***************************************************************************)
(* Hash updates.                                                           *)
(***************************************************************************)
Rehash(d, key) ==
  LET n == getNode(d, key)
  IN  Put(d, key, [n EXCEPT !.hash = Sha(ConcatHashes(d, n) \o n.value)])

\* The argument is a digest in serialMerkleTree and the key itself elsewhere: its
\* proper prefixes, longest first, then the root.
updateParentHashes(d, s) ==
  LET run[i \in 0 .. Len(s)] ==
        IF i = 0 THEN d
        ELSE Rehash(run[i - 1], IF i = Len(s) THEN Root ELSE SubSeq(s, 1, Len(s) - i))
  IN  run[Len(s)]

\* Mutant: the parents of the leaves are skipped.
UpdateTreeNodesFar(d, keys) ==
  LET onPath  == {SubSeq(PathOf[k], 1, i) : k \in keys, i \in 1 .. PathLen - 2}
      G(x)    == getNode(d, x)
      new(x)  == [G(x) EXCEPT !.hash = Sha(ConcatHashes(d, G(x)) \o G(x).value)]
      put     == {x \in onPath : new(x) # G(x)}
  IN  [x \in DOMAIN d \cup put |-> IF x \in put THEN new(x) ELSE d[x]]

UpdateTreeNodes(d, keys) ==
  LET onPath  == {SubSeq(PathOf[k], 1, i) : k \in keys, i \in 1 .. PathLen}
      G(x)    == getNode(d, x)
      new(x)  == [G(x) EXCEPT !.hash = Sha(ConcatHashes(d, G(x)) \o G(x).value)]
      put     == {x \in onPath : new(x) # G(x)}
  IN  [x \in DOMAIN d \cup put |-> IF x \in put THEN new(x) ELSE d[x]]

\* Every node on the paths, read through nodeCache: a node is cached when it is
\* first read, before it is written, and the cache is not told of the new hash.
\* So a parent never sees the hash its child got in the same call.  The callers
\* make one call per object: the cache is empty when it starts.
updateTree(d, keys) == Rehash(UpdateTreeNodes(d, keys), Root)

-----------------------------------------------------------------------------
(***************************************************************************)
(* Writing a block.                                                        *)
(***************************************************************************)
Idle == [pc |-> "idle", keys |-> <<>>, level |-> 0, snap |-> NoNode]

TreeInit ==
  /\ mode \in Modes
  /\ db = [s \in Stores |-> IF s = "globalState" THEN GlobalState(EmptyStore) ELSE EmptyStore]
  /\ phase = IF mode = "serial" THEN "start" ELSE "idle"
  /\ pending = [k \in {} |-> Empty] /\ order = <<>>
  /\ th = [t \in Threads |-> Idle]
  /\ ops = 0 /\ stack = <<>> /\ visited = {}
  /\ written = [s \in Stores |-> [k \in {} |-> Empty]]
  /\ linked = [s \in Stores |-> {}] /\ lost = [s \in Stores |-> {}]
  /\ raced = FALSE /\ overlaid = FALSE /\ clean = TRUE /\ torn = FALSE

\* The links the keys need, and those of them a store has.
Links    == {<<ParentAt(k, i), ChildAt(k, i)>> : k \in Keys, i \in 0 .. PathLen - 1}
Pairs(d) == {p \in Links : p[2] \in Range(getNode(d, p[1]).children)}

\* The store's new content; lost keeps the pairs that are gone.
Write(s, d) ==
  /\ db' = [db EXCEPT ![s] = d]
  /\ lost' = [lost EXCEPT ![s] = (@ \cup Pairs(db[s])) \ Pairs(d)]

Least(a, b) == IF a < b THEN a ELSE b
Chunk(seq, n, t) ==
  LET size == (Len(seq) + n - 1) \div n IN SubSeq(seq, t * size + 1, Least((t + 1) * size, Len(seq)))

Work(keys) == IF keys = <<>> THEN Idle
              ELSE [pc |-> "leaf", keys |-> keys, level |-> 0, snap |-> NoNode]

\* The entries of ks in the order the hash map iterates over them.
Place(k) == CHOOSE i \in DOMAIN Order : Order[i] = k
InMapOrder(ks) ==
  LET n == Cardinality(ks) IN
  {q \in [1 .. n -> ks] : \A i, j \in 1 .. n : i < j => Place(q[i]) < Place(q[j])}

\* The chunks flushMapToState and parallelInsertFromMap give their threads.
flushMapToStateP(seq) == \E n \in 1 .. MaxThreads :
  th' = [t \in Threads |-> IF t < n THEN Work(Chunk(seq, n, t)) ELSE Idle]
flushMapToStateS(seq) == th' = [th EXCEPT ![0] = Work(seq)]
parallelInsertFromMap(seq) == flushMapToStateP(seq)

\* One thread per follower, with the keys of that follower's components.
saveData(ks) == \E part \in [Threads -> UNION {InMapOrder(x) : x \in SUBSET ks}] :
  /\ \A k \in ks : \E t \in Threads : k \in Range(part[t])
  /\ \A t, u \in Threads : t # u => Range(part[t]) \cap Range(part[u]) = {}
  /\ th' = [t \in Threads |-> Work(part[t])]

Flush(ks, seq) ==
  CASE mode = "parallel"      -> flushMapToStateP(seq)
    [] mode = "parallelTree"  -> parallelInsertFromMap(seq)
    [] mode = "leader"        -> saveData(ks)
    [] OTHER                  -> flushMapToStateS(seq)

\* The experiment writes its map once and deletes the tree.
Bound == CASE mode = "library" -> MaxCalls [] mode = "parallelTree" -> 1 [] OTHER -> MaxOps

\* A block was executed; its results are written.
StartFlush ==
  /\ phase = "idle" /\ ops < Bound
  /\ \E ks \in SUBSET Keys : \E vs \in [ks -> Values], seq \in InMapOrder(ks) :
       /\ mode = "library" => Cardinality(ks) = 1
       /\ mode # "leader" => ks # {}
       /\ pending' = vs /\ order' = seq /\ Flush(ks, seq)
  /\ phase' = "insert" /\ ops' = ops + 1 /\ clean' = FALSE
  /\ UNCHANGED <<mode, db, walk, written, linked, lost, raced, overlaid, torn>>

\* insert: the leaf.
PutLeaf(t) ==
  LET k == Head(th[t].keys) v == pending[k] IN
  /\ th[t].pc = "leaf"
  /\ Write(Store, Put(db[Store], PathOf[k], Node(Sha(v), v, <<>>)))
  /\ written' = [written EXCEPT ![Store] = Put(@, k, v)]
  /\ th' = [th EXCEPT ![t].pc = "get", ![t].level = 0]
  /\ UNCHANGED <<mode, phase, pending, order, ops, walk, linked, raced, overlaid, clean, torn>>

GetParent(t) ==
  LET k == Head(th[t].keys) IN
  /\ th[t].pc = "get"
  /\ th' = [th EXCEPT ![t].pc = "put", ![t].snap = getNode(db[Store], ParentAt(k, th[t].level))]
  /\ UNCHANGED <<mode, db, phase, pending, order, ops, walk,
                 written, linked, lost, raced, overlaid, clean, torn>>

\* Mutant: a child replaces the ones before it.
AddChildOnly(n, c) == [n EXCEPT !.children = <<c>>]
AddChild(n, c) == [n EXCEPT !.children = Append(@, c)]

\* The child list is written back without a look at what it has become since.
PutParent(t) ==
  LET k == Head(th[t].keys) i == th[t].level n == th[t].snap
      p == ParentAt(k, i) c == ChildAt(k, i)
      d == IF c \in Range(n.children) THEN db[Store] ELSE Put(db[Store], p, AddChild(n, c))
      last == i + 1 = PathLen
  IN
  /\ th[t].pc = "put"
  /\ Write(Store, IF last /\ mode = "serialTree" THEN updateParentHashes(d, PathOf[k]) ELSE d)
  /\ raced' = (raced \/ (c \notin Range(n.children) /\ n # getNode(db[Store], p)))
  /\ linked' = IF last THEN [linked EXCEPT ![Store] = @ \cup {k}] ELSE linked
  /\ th' = [th EXCEPT ![t] = IF last THEN Work(Tail(@.keys))
                             ELSE [@ EXCEPT !.pc = "get", !.level = i + 1, !.snap = NoNode]]
  /\ UNCHANGED <<mode, phase, pending, order, ops, walk, written, overlaid, clean, torn>>

EndFlush == /\ phase' = "idle" /\ order' = <<>> /\ pending' = [k \in {} |-> Empty]
            /\ clean' = (mode # "library")

\* The threads are joined.
Join ==
  /\ phase = "insert" /\ \A t \in Threads : th[t] = Idle
  /\ IF mode \in {"serialTree", "library"} THEN EndFlush
     ELSE phase' = "hash" /\ UNCHANGED <<pending, order, clean>>
  /\ UNCHANGED <<mode, db, th, ops, walk, written, linked, lost, raced, overlaid, torn>>

\* The hashes: key by key, and all at once with a new cache in saveData, whose
\* GlobalState is a local object.
UpdateHashes ==
  /\ phase = "hash"
  /\ IF mode = "leader"
     THEN Write(Store, updateTree(db[Store], Range(order))) /\ EndFlush
     ELSE /\ Write(Store, updateParentHashes(db[Store], NameOf[Head(order)]))
          /\ IF Len(order) = 1 THEN EndFlush
             ELSE order' = Tail(order) /\ UNCHANGED <<phase, pending, clean>>
  /\ UNCHANGED <<mode, th, ops, walk, written, linked, raced, overlaid, torn>>

-----------------------------------------------------------------------------
(***************************************************************************)
(* Whole-database operations.                                              *)
(***************************************************************************)
\* duplicateState copies every pair into the target and removes none from it; the
\* serial node runs it when it starts, then opens the copy.
duplicateState ==
  LET src == db["globalState"] dst == db["globalState_tmp"] new == Over(src, dst) IN
  /\ db' = [db EXCEPT !["globalState_tmp"] = new]
  /\ written' = [written EXCEPT !["globalState_tmp"] = Over(written["globalState"], @)]
  /\ linked' = [linked EXCEPT !["globalState_tmp"] = @ \cup linked["globalState"]]
  /\ lost' = [lost EXCEPT !["globalState_tmp"] =
                (@ \cup Pairs(dst) \cup lost["globalState"]) \ Pairs(new)]
  /\ overlaid' = (overlaid \/ \E x \in DOMAIN src \cap DOMAIN dst : src[x] # dst[x])

Start ==
  /\ phase = "start" /\ duplicateState /\ phase' = "idle"
  /\ UNCHANGED <<mode, pending, order, th, ops, walk, raced, clean, torn>>

\* The leader empties the state after every second block of its term.
resetTree ==
  /\ phase = "idle" /\ mode \in {"leader", "library"} /\ ops < Bound
  /\ db' = [db EXCEPT !["globalState"] = GlobalState(EmptyStore)]
  /\ written' = [written EXCEPT !["globalState"] = [k \in {} |-> Empty]]
  /\ linked' = [linked EXCEPT !["globalState"] = {}]
  /\ lost' = [lost EXCEPT !["globalState"] = {}]
  /\ ops' = ops + 1 /\ clean' = TRUE /\ torn' = FALSE
  /\ UNCHANGED <<mode, phase, pending, order, th, walk, raced, overlaid>>

\* replaceWith: the directory of the copy is renamed.
replaceWith ==
  LET tmp == "globalState_tmp" IN
  /\ DOMAIN db[tmp] # {}
  /\ db' = [db EXCEPT !["globalState"] = GlobalState(db[tmp]), ![tmp] = EmptyStore]
  /\ written' = [written EXCEPT !["globalState"] = written[tmp], ![tmp] = [k \in {} |-> Empty]]
  /\ linked' = [linked EXCEPT !["globalState"] = linked[tmp], ![tmp] = {}]
  /\ lost' = [lost EXCEPT !["globalState"] = lost[tmp], ![tmp] = {}]

\* A call of dfs on a node: the node as it is read, its next child, and the hashes
\* of the children before it.
Frame(d, key) == [key |-> key, node |-> getNode(d, key), next |-> 1, hashes |-> <<>>]
Returned(f, h) == [f EXCEPT !.next = @ + 1, !.hashes = Append(@, h)]

\* updateAllNonLeafHashes searches depth first from the root.
updateAllNonLeafHashes ==
  phase' = "dfs" /\ stack' = <<Frame(db["globalState"], Root)>> /\ visited' = {Root}

\* The calls of the class no other mode makes.
LibraryCall ==
  /\ mode = "library" /\ phase = "idle" /\ ops < Bound
  /\ ops' = ops + 1
  /\ \/ updateAllNonLeafHashes /\ UNCHANGED <<db, written, linked, lost, overlaid, clean>>
     \/ duplicateState /\ UNCHANGED <<phase, walk, clean>>
     \/ replaceWith /\ clean' = FALSE /\ UNCHANGED <<phase, walk, overlaid>>
  /\ UNCHANGED <<mode, pending, order, th, raced, torn>>

\* dfs follows the child lists as deserializeNode gives them; for a node it has
\* entered before it returns the hash that is stored.
DfsCall ==
  LET d == db["globalState"] n == Len(stack) f == stack[n] c == f.node.children[f.next] IN
  /\ phase = "dfs" /\ f.next <= Len(f.node.children)
  /\ \/ /\ c \in visited /\ UNCHANGED visited
        /\ stack' = [stack EXCEPT ![n] = Returned(f, getNode(d, c).hash)]
     \/ /\ c \notin visited /\ visited' = visited \cup {c}
        /\ stack' = Append(stack, Frame(d, c))
  /\ UNCHANGED <<mode, db, phase, pending, order, th, ops,
                 written, linked, lost, raced, overlaid, clean, torn>>

\* The node is written, also when it was not there.
DfsReturn ==
  LET n == Len(stack) f == stack[n] h == Sha(FlattenSeq(f.hashes) \o f.node.value) IN
  /\ phase = "dfs" /\ f.next > Len(f.node.children)
  /\ Write("globalState", Put(db["globalState"], f.key, [f.node EXCEPT !.hash = h]))
  /\ \/ /\ n = 1 /\ stack' = <<>> /\ visited' = {}
        /\ phase' = "idle" /\ clean' = TRUE
     \/ /\ n > 1 /\ UNCHANGED <<visited, phase, clean>>
        /\ stack' = [i \in 1 .. n - 1 |-> IF i < n - 1 THEN stack[i] ELSE Returned(stack[i], h)]
  /\ UNCHANGED <<mode, pending, order, th, ops, written, linked, raced, overlaid, torn>>

\* The process dies; every Put that returned is in the database.
Crash ==
  /\ phase # "start" /\ mode # "library"
  /\ torn' = (torn \/ phase # "idle")
  /\ phase' = IF mode = "serial" THEN "start" ELSE "idle"
  /\ pending' = [k \in {} |-> Empty] /\ order' = <<>>
  /\ th' = [t \in Threads |-> Idle]
  /\ UNCHANGED <<mode, db, ops, walk, written, linked, lost, raced, overlaid, clean>>

Finished == phase = "idle" /\ ops = Bound /\ UNCHANGED treeVars

TreeNext ==
  \/ Start \/ StartFlush \/ Join \/ UpdateHashes \/ resetTree \/ LibraryCall
  \/ DfsCall \/ DfsReturn \/ Crash \/ Finished
  \/ \E t \in Threads : PutLeaf(t) \/ GetParent(t) \/ PutParent(t)

TreeSpec == TreeInit /\ [][TreeNext]_treeVars

-----------------------------------------------------------------------------
(***************************************************************************)
(* Properties.                                                             *)
(***************************************************************************)
\* Every stored thing is a node, the threads hold keys that are being written and
\* walk down at most PathLen levels.
TreeTypeOK ==
  /\ mode \in Modes /\ ops \in 0 .. Bound
  /\ phase \in {"start", "idle", "insert", "hash", "dfs"}
  /\ \A s \in Stores : \A x \in DOMAIN db[s] :
       DOMAIN db[s][x] = {"hash", "value", "children"}
  /\ DOMAIN pending \subseteq Keys
  /\ \A t \in Threads : /\ Range(th[t].keys) \subseteq DOMAIN pending
                        /\ th[t].level \in 0 .. PathLen - 1
  /\ \A t \in Threads : phase # "insert" => th[t] = Idle
  /\ \A i \in DOMAIN stack : /\ stack[i].key \in visited
                             /\ stack[i].next \in 1 .. Len(stack[i].node.children) + 1

\* Whatever threads, crashes, copies and hash updates did, getValue returns the
\* value last written: the text form loses nothing a reader asks for and no
\* update of a hash overwrites a leaf.
ValuesKept ==
  \A s \in Stores : \A k \in DOMAIN written[s] : getValue(db[s], k) = written[s][k]

\* insert links a key all the way from the root, or a later write removed the
\* link (updateAllNonLeafHashes and every other walk start at the root).
InsertLinks ==
  \A s \in Stores : \A k \in linked[s] : \A i \in 0 .. PathLen - 1 :
     <<ParentAt(k, i), ChildAt(k, i)>> \in Pairs(db[s]) \cup lost[s]

\* A child list loses a child only when two threads had the same node in hand, or
\* when duplicateState copied over an older copy: one thread that inserts keeps
\* the tree connected, and so does every update of the hashes.
OneThread == {"serial", "serialTree", "library"}
LostOnlyByRace ==
  /\ lost["globalState"] # {} => raced \/ (mode = "library" /\ overlaid)
  /\ raced => mode \notin OneThread

Exact(d, key) == d[key].hash = Rehash(d, key)[key].hash

\* The hash of the root is the digest of its children's hashes whenever a flush
\* or a hash update has ended, in every variant.
RootExact == clean /\ phase = "idle" => Exact(db["globalState"], Root)

Inner(d) == {x \in DOMAIN d : x = Root \/ \E k \in Keys, i \in 1 .. PathLen - 1 : x = SubSeq(PathOf[k], 1, i)}

\* The one tree whose root hash stands for its content: serialMerkleTree hands
\* updateParentHashes the digest, and after every insert each inner node's hash
\* is the digest of its children's.
SerialTreeExact ==
  mode = "serialTree" /\ phase = "idle" /\ ~torn =>
    \A x \in Inner(db["globalState"]) : Exact(db["globalState"], x)

\* After saveData the parents of the leaves have the digest of the leaves, unless a
\* value is also the name of a node (nodes further up lag a call behind, see
\* updateTree).
LeafParentsExact ==
  LET d == db["globalState"] IN
  mode = "leader" /\ phase = "idle" /\ clean /\ ~torn =>
    \A k \in linked["globalState"] :
       LET p == ParentAt(k, PathLen - 1) IN
       (\A c \in Range(getNode(d, p).children) : getNode(d, c).value \notin DOMAIN d) => Exact(d, p)

\* Types, and the links of the tree: a key that was inserted is reachable from the
\* root unless two threads raced for a node on its path or a copy was overlaid.
LinksInv == TreeTypeOK /\ InsertLinks /\ LostOnlyByRace

\* The hashes, as far as each way of writing them gets.
HashesExact == RootExact /\ SerialTreeExact /\ LeafParentsExact

=============================================================================
