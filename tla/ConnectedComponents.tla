------------------------ MODULE ConnectedComponents ------------------------
(***************************************************************************)
(* How the leader splits a block among the followers:                      *)
(* DAGmodule::connectedComponents groups the transactions with a           *)
(* disjoint-set forest (union by rank, path compression), writes the       *)
(* groups to a componentsTable in hash-map order, and assignFollowers of   *)
(* leader.h deals the table out to the healthy members, round robin.       *)
(*                                                                         *)
(* It is one thread: a step is one iteration of one of its loops.          *)
(***************************************************************************)
EXTENDS Integers, FiniteSets, Sequences, SequencesExt

CONSTANTS NTxns,      \* adjacencyMatrix.size()
          MemberIds   \* numbers of the cluster's members other than the leader

ASSUME NTxnsAssumption == NTxns \in Nat
ASSUME MemberIdsAssumption == IsFiniteSet(MemberIds) /\ MemberIds \subseteq Nat

Txns == 0 .. NTxns - 1

VARIABLES
  adjacencyMatrix,   \* pairs <<i, j>> whose entry is 1
  healthyMemberIds,  \* the members getActiveFollowers found healthy, in order
  parent, rank,      \* the disjoint-set forest
  i, j,              \* loop variables
  componentsMap,     \* root -> transactions, in the order they were pushed
  table,             \* componentslist, each component its transactionlist
  assigned,          \* assignedfollower of each component
  phase

vars == <<adjacencyMatrix, healthyMemberIds, parent, rank, i, j, componentsMap,
          table, assigned, phase>>

input == <<adjacencyMatrix, healthyMemberIds>>

TypeOK ==
  /\ adjacencyMatrix \in SUBSET (Txns \X Txns)
  /\ healthyMemberIds \in Seq(MemberIds)
  /\ parent \in [Txns -> Txns]
  /\ rank \in [Txns -> Nat]
  /\ i \in 0 .. NTxns /\ j \in 1 .. NTxns + 1
  /\ DOMAIN componentsMap \subseteq Txns
  /\ \A r \in DOMAIN componentsMap : componentsMap[r] \in Seq(Txns)
  /\ table \in Seq(Seq(Txns))
  /\ assigned \in Seq(MemberIds)
  /\ phase \in {"unite", "group", "populate", "assign", "done", "noFollower"}

-----------------------------------------------------------------------------
\* The forest p walked from x to its root.
Path(p, x) ==
  LET path[y \in Txns] == IF p[y] = y THEN {y} ELSE {y} \cup path[p[y]]
  IN  path[x]

Root(p, x) == CHOOSE y \in Path(p, x) : p[y] = y

\* find(x) hangs every node it passes under the root.
Compress(p, x) ==
  [y \in Txns |-> IF y \in Path(p, x) THEN Root(p, x) ELSE p[y]]

\* Mutant: y itself is hung under x's root instead of y's root.
UniteNode(x, y) ==
  LET p == Compress(Compress(parent, x), y)
      rootX == Root(p, x)
  IN
  /\ parent' = [p EXCEPT ![y] = rootX]
  /\ rank' = IF p[y] = rootX THEN rank ELSE [rank EXCEPT ![rootX] = @ + 1]

\* Mutant: the rank grows with every union.
UniteRankAlways(x, y) ==
  LET p == Compress(Compress(parent, x), y)
      rootX == Root(p, x)
      rootY == Root(p, y)
  IN
  /\ parent' = CASE rootX = rootY -> p
                 [] rank[rootX] < rank[rootY] -> [p EXCEPT ![rootX] = rootY]
                 [] OTHER -> [p EXCEPT ![rootY] = rootX]
  /\ rank' = IF rootX # rootY /\ rank[rootX] >= rank[rootY]
               THEN [rank EXCEPT ![rootX] = @ + 1] ELSE rank

\* unite(x, y): the root of lower rank goes under the other one; of two equal
\* ranks rootX's grows.
Unite(x, y) ==
  LET p == Compress(Compress(parent, x), y)
      rootX == Root(p, x)
      rootY == Root(p, y)
  IN
  /\ parent' = CASE rootX = rootY -> p
                 [] rank[rootX] < rank[rootY] -> [p EXCEPT ![rootX] = rootY]
                 [] OTHER -> [p EXCEPT ![rootY] = rootX]
  /\ rank' = IF rootX # rootY /\ rank[rootX] = rank[rootY]
               THEN [rank EXCEPT ![rootX] = @ + 1] ELSE rank

-----------------------------------------------------------------------------
\* Any matrix dependencyMatrix can produce, any set of healthy members.
Init ==
  /\ adjacencyMatrix \in SUBSET {e \in Txns \X Txns : e[1] < e[2]}
  /\ healthyMemberIds \in UNION {SetToSeqs(S) : S \in SUBSET MemberIds}
  /\ parent = [x \in Txns |-> x]
  /\ rank = [x \in Txns |-> 0]
  /\ i = 0 /\ j = 1
  /\ componentsMap = <<>>
  /\ table = <<>>
  /\ assigned = <<>>
  /\ phase = "unite"

\* One iteration of the inner loop over the pairs.
UnitePair ==
  /\ phase = "unite"
  /\ i < NTxns /\ j < NTxns
  /\ IF <<i, j>> \in adjacencyMatrix \/ <<j, i>> \in adjacencyMatrix
       THEN Unite(i, j) ELSE UNCHANGED <<parent, rank>>
  /\ j' = j + 1
  /\ UNCHANGED <<input, i, componentsMap, table, assigned, phase>>

\* The outer loop goes on to the next row.
NextRow ==
  /\ phase = "unite"
  /\ i < NTxns /\ j >= NTxns
  /\ i' = i + 1
  /\ j' = IF i + 2 < NTxns THEN i + 2 ELSE NTxns
  /\ UNCHANGED <<input, parent, rank, componentsMap, table, assigned, phase>>

StartGrouping ==
  /\ phase = "unite"
  /\ i >= NTxns
  /\ i' = 0
  /\ phase' = "group"
  /\ UNCHANGED <<input, parent, rank, j, componentsMap, table, assigned>>

\* Mutant: grouping by the immediate parent, without find.
GroupByParent ==
  /\ phase = "group"
  /\ i < NTxns
  /\ LET root == parent[i]
         list == IF root \in DOMAIN componentsMap THEN componentsMap[root] ELSE <<>>
     IN  componentsMap' = [r \in DOMAIN componentsMap \cup {root} |->
                             IF r = root THEN Append(list, i) ELSE componentsMap[r]]
  /\ i' = i + 1
  /\ UNCHANGED <<input, parent, rank, j, table, assigned, phase>>

\* componentsMap[find(i)].push_back(i)
Group ==
  /\ phase = "group"
  /\ i < NTxns
  /\ LET root == Root(parent, i)
         list == IF root \in DOMAIN componentsMap THEN componentsMap[root] ELSE <<>>
     IN  componentsMap' = [r \in DOMAIN componentsMap \cup {root} |->
                             IF r = root THEN Append(list, i) ELSE componentsMap[r]]
  /\ parent' = Compress(parent, i)
  /\ i' = i + 1
  /\ UNCHANGED <<input, rank, j, table, assigned, phase>>

StartPopulating ==
  /\ phase = "group"
  /\ i >= NTxns
  /\ phase' = "populate"
  /\ UNCHANGED <<input, parent, rank, i, j, componentsMap, table, assigned>>

\* One component of the unordered map is added to the table: any that is left.
Populate ==
  /\ phase = "populate"
  /\ \E r \in DOMAIN componentsMap :
       /\ table' = Append(table, componentsMap[r])
       /\ componentsMap' = [s \in DOMAIN componentsMap \ {r} |-> componentsMap[s]]
  /\ UNCHANGED <<input, parent, rank, i, j, assigned, phase>>

StartAssigning ==
  /\ phase = "populate"
  /\ DOMAIN componentsMap = {}
  /\ phase' = "assign"
  /\ UNCHANGED <<input, parent, rank, i, j, componentsMap, table, assigned>>

\* assignFollowers: healthyMemberIds[i % activeFollowers] for component i.
Assign ==
  /\ phase = "assign"
  /\ Len(assigned) < Len(table)
  /\ Len(healthyMemberIds) > 0
  /\ LET index == Len(assigned) % Len(healthyMemberIds)
     IN  assigned' = Append(assigned, healthyMemberIds[index + 1])
  /\ UNCHANGED <<input, parent, rank, i, j, componentsMap, table, phase>>

\* assignFollowers returns: true with the table stored, false without a member.
AssignReturn ==
  /\ phase = "assign"
  /\ \/ Len(assigned) = Len(table) /\ phase' = "done"
     \/ Len(assigned) < Len(table) /\ healthyMemberIds = <<>> /\ phase' = "noFollower"
  /\ UNCHANGED <<input, parent, rank, i, j, componentsMap, table, assigned>>

Next ==
  \/ UnitePair \/ NextRow \/ StartGrouping
  \/ Group \/ StartPopulating
  \/ Populate \/ StartAssigning
  \/ Assign \/ AssignReturn

Spec == Init /\ [][Next]_vars

-----------------------------------------------------------------------------
\* The pairs the first loop nest has looked at.
Processed ==
  IF phase # "unite" THEN adjacencyMatrix
  ELSE {e \in adjacencyMatrix : e[1] < i \/ (e[1] = i /\ e[2] < j)}

\* Reference: what can be reached from x along edges of E in either direction,
\* the least set that holds x and is closed under them.
Reachable(E, x) ==
  {y \in Txns : \A S \in SUBSET Txns :
                   x \in S /\ (\A e \in E : e[1] \in S <=> e[2] \in S) => y \in S}

\* Ranks grow strictly towards the root: the forest has no cycle, so find, a
\* recursion without a bound, returns.
RankOrder == \A x \in Txns : parent[x] # x => rank[x] < rank[parent[x]]

\* A tree of rank k holds at least 2^k transactions: find recurses at most
\* log2(n) deep, however the block's conflicts lie.
RankBound ==
  \A x \in Txns :
    parent[x] = x => 2^rank[x] <= Cardinality({y \in Txns : Root(parent, y) = x})

\* After every pair two transactions have the same root exactly when the pairs
\* looked at so far connect them.
RootsMatch ==
  \A x \in Txns :
    {y \in Txns : Root(parent, y) = Root(parent, x)} = Reachable(Processed, x)

\* The stored table is the partition of the block into connected components:
\* every transaction is in one component, once, and no conflict crosses two.
TableExact ==
  phase \in {"assign", "done"} =>
    /\ {Range(table[c]) : c \in DOMAIN table} = {Reachable(adjacencyMatrix, x) : x \in Txns}
    /\ \A c, d \in DOMAIN table : Range(table[c]) = Range(table[d]) => c = d
    /\ \A c \in DOMAIN table : \A p, q \in DOMAIN table[c] :
         p < q => table[c][p] < table[c][q]

\* The deal is even: no healthy follower is given two components more than
\* another, and none goes to a member that was not healthy.
DealEven ==
  phase = "done" =>
    LET Share(m) == Cardinality({c \in DOMAIN assigned : assigned[c] = m})
    IN  /\ Range(assigned) \subseteq Range(healthyMemberIds)
        /\ \A m, n \in Range(healthyMemberIds) : Share(m) <= Share(n) + 1

\* Types, and the shape of the forest that bounds find's recursion.
ForestInv == TypeOK /\ RankOrder /\ RankBound

\* The table is exact and dealt out evenly.
TableInv == TableExact /\ DealEven

-----------------------------------------------------------------------------
(***************************************************************************)
(* The inductive invariant of ConnectedComponentsProofs.                   *)
(***************************************************************************)
\* The matrix is an upper triangle, the inner loop stays right of it, and no
\* member is listed twice.
InputsSound ==
  /\ \A e \in adjacencyMatrix : e[1] < e[2]
  /\ \A k, l \in DOMAIN healthyMemberIds : k # l => healthyMemberIds[k] # healthyMemberIds[l]
  /\ phase = "unite" /\ i < NTxns => i < j

Tree(p, r) == {x \in Txns : Root(p, x) = r}

Ascending(list) == \A a, b \in DOMAIN list : a < b => list[a] < list[b]

\* The map holds the transactions before i, each under its root, in order.
Grouped ==
  /\ phase \in {"unite", "group"} => table = <<>>
  /\ phase = "unite" => DOMAIN componentsMap = {}
  /\ phase = "group" =>
       /\ DOMAIN componentsMap = {Root(parent, x) : x \in 0 .. i - 1}
       /\ \A r \in DOMAIN componentsMap :
            /\ Range(componentsMap[r]) = {x \in Tree(parent, r) : x < i}
            /\ Ascending(componentsMap[r])

\* Every tree is either still in the map or, once, in the table.
Populated ==
  phase = "populate" =>
    /\ \A r \in DOMAIN componentsMap :
         /\ parent[r] = r
         /\ Range(componentsMap[r]) = Tree(parent, r)
         /\ Ascending(componentsMap[r])
    /\ \A c \in DOMAIN table :
         /\ \E r \in Txns \ DOMAIN componentsMap :
              parent[r] = r /\ Range(table[c]) = Tree(parent, r)
         /\ Ascending(table[c])
         /\ \A d \in DOMAIN table : Range(table[c]) = Range(table[d]) => c = d
    /\ \A r \in Txns \ DOMAIN componentsMap :
         parent[r] = r => \E c \in DOMAIN table : Range(table[c]) = Tree(parent, r)

\* The deal so far went round the members in order.
Dealt ==
  /\ phase \in {"unite", "group", "populate"} => assigned = <<>>
  /\ \A c \in DOMAIN assigned :
       /\ Len(healthyMemberIds) > 0
       /\ assigned[c] = healthyMemberIds[((c - 1) % Len(healthyMemberIds)) + 1]

IInv ==
  /\ TypeOK /\ RankOrder /\ RankBound
  /\ InputsSound /\ RootsMatch
  /\ Grouped /\ Populated /\ TableExact /\ Dealt

=============================================================================
