--------------------- MODULE ConnectedComponentsProofs ---------------------
(***************************************************************************)
(* Proofs about ConnectedComponents, for every number of transactions,     *)
(* every conflict matrix and every list of healthy members.                *)
(***************************************************************************)
EXTENDS ConnectedComponents, FiniteSetTheorems, SequenceTheorems, WellFoundedInduction, TLAPS

(***************************************************************************)
(* Powers of two, from the number of subsets of a finite set.              *)
(***************************************************************************)
\* Each exponent doubles the power.
LEMMA PowerOfTwo ==
  ASSUME NEW k \in Nat
  PROVE  2^k \in Nat /\ 2^(k + 1) = 2^k + 2^k
  <1> DEFINE A == SUBSET (1 .. k)
             B == {s \cup {k + 1} : s \in A}
             C == SUBSET (1 .. k + 1)
  <1>1. /\ IsFiniteSet(1 .. k) /\ Cardinality(1 .. k) = k
        /\ IsFiniteSet(1 .. k + 1) /\ Cardinality(1 .. k + 1) = k + 1
    BY FS_Interval
  <1>2. IsFiniteSet(A) /\ Cardinality(A) = 2^k
    BY <1>1, FS_SUBSET
  <1>3. Cardinality(C) = 2^(k + 1)
    BY <1>1, FS_SUBSET
  <1>4. C = A \cup B
    <2>1. 1 .. k + 1 = (1 .. k) \cup {k + 1}
      OBVIOUS
    <2>2. ASSUME NEW s \in C PROVE s \in A \cup B
      <3>1. CASE k + 1 \in s
        <4>1. s = (s \ {k + 1}) \cup {k + 1} /\ s \ {k + 1} \in A
          BY <2>1, <3>1
        <4>2. QED
          BY <4>1
      <3>2. QED
        BY <2>1, <3>1
    <2>3. ASSUME NEW u \in A \cup B PROVE u \in C
      <3>1. CASE u \in A
        BY <2>1, <3>1
      <3>2. CASE u \in B
        <4>1. PICK s \in A : u = s \cup {k + 1}
          BY <3>2
        <4>2. QED
          BY <2>1, <4>1
      <3>3. QED
        BY <3>1, <3>2
    <2>4. A \cup B \subseteq C
      <3> HIDE DEF A, B, C
      <3>1. QED
        BY <2>3
    <2>5. C \subseteq A \cup B
      BY <2>2
    <2>6. QED
      BY <2>4, <2>5
  <1>5. A \cap B = {}
    <2>1. k + 1 \notin 1 .. k
      OBVIOUS
    <2>2. QED
      BY <2>1
  <1>6. IsFiniteSet(B) /\ Cardinality(B) = Cardinality(A)
    <2> DEFINE f == [s \in A |-> s \cup {k + 1}]
    <2>1. k + 1 \notin 1 .. k
      OBVIOUS
    <2>2. ASSUME NEW s \in A, NEW t \in A, f[s] = f[t] PROVE s = t
      <3>1. s \cup {k + 1} = t \cup {k + 1} /\ k + 1 \notin s /\ k + 1 \notin t
        BY <2>1, <2>2
      <3>2. QED
        BY <3>1
    <2>3. \A u \in B : \E s \in A : f[s] = u
      OBVIOUS
    <2>4. f \in [A -> B]
      OBVIOUS
    <2> HIDE DEF f, A, B
    <2>5. f \in Bijection(A, B)
      BY <2>2, <2>3, <2>4 DEF Bijection, Injection, Surjection, IsInjective
    <2>6. QED
      BY <1>2, <2>5, FS_Bijection DEF ExistsBijection
  <1>7. Cardinality(A) \in Nat
    BY <1>2, FS_CardinalityType
  <1>8. Cardinality(A \cup B) = Cardinality(A) + Cardinality(B) - Cardinality(A \cap B)
    BY <1>2, <1>6, FS_Union
  <1>9. Cardinality(A \cap B) = 0
    BY <1>5, FS_EmptySet
  <1> HIDE DEF A, B, C
  <1>10. QED
    BY <1>2, <1>3, <1>4, <1>6, <1>7, <1>8, <1>9

\* A tree of one node has rank 0.
LEMMA PowerZero == 2^0 = 1
  <1>1. IsFiniteSet({}) /\ Cardinality({}) = 0
    BY FS_EmptySet
  <1>2. Cardinality(SUBSET {}) = 2^0
    BY <1>1, FS_SUBSET
  <1>3. SUBSET {} = {{}}
    OBVIOUS
  <1>4. Cardinality({{}}) = 1
    BY FS_Singleton
  <1>5. QED
    BY <1>2, <1>3, <1>4

(***************************************************************************)
(* The forest.                                                             *)
(***************************************************************************)
\* p is a parent array whose ranks r grow towards the roots.
Forest(p, r) ==
  /\ p \in [Txns -> Txns] /\ r \in [Txns -> Nat]
  /\ \A x \in Txns : p[x] # x => r[x] < r[p[x]]

\* The recursive definition of a path has a solution, the orbit of each node,
\* so Path unfolds as it is written.
LEMMA PathDef ==
  ASSUME NEW p \in [Txns -> Txns], NEW x \in Txns
  PROVE  Path(p, x) = IF p[x] = x THEN {x} ELSE {x} \cup Path(p, p[x])
  <1> DEFINE Eq(f) == f = [y \in Txns |-> IF p[y] = y THEN {y} ELSE {y} \cup f[p[y]]]
             path[y \in Txns] == IF p[y] = y THEN {y} ELSE {y} \cup path[p[y]]
             Closed(S) == \A z \in S : p[z] \in S
             Orbit(y) == {z \in Txns : \A S \in SUBSET Txns : y \in S /\ Closed(S) => z \in S}
             g == [y \in Txns |-> Orbit(y)]
  <1>1. path = CHOOSE f : Eq(f)
    BY DEF path
  <1>2. \A y : Path(p, y) = path[y]
    BY DEF Path, path
  <1>3. ASSUME NEW y \in Txns
        PROVE  Orbit(y) = IF p[y] = y THEN {y} ELSE {y} \cup Orbit(p[y])
    <2>1. y \in Orbit(y) /\ p[y] \in Txns
      OBVIOUS
    <2>2. CASE p[y] = y
      <3>1. {y} \in SUBSET Txns /\ Closed({y})
        BY <2>2
      <3>2. QED
        BY <2>1, <2>2, <3>1
    <2>3. CASE p[y] # y
      <3> DEFINE T == {y} \cup Orbit(p[y])
      <3>1. p[y] \in Orbit(p[y])
        BY <2>1
      <3>2. ASSUME NEW z \in Orbit(p[y]) PROVE p[z] \in Orbit(p[y])
        OBVIOUS
      <3>3. T \in SUBSET Txns /\ Closed(T)
        BY <2>1, <3>1, <3>2
      <3>4. Orbit(y) \subseteq T
        BY <3>3
      <3>5. T \subseteq Orbit(y)
        BY <2>1
      <3>6. QED
        BY <2>3, <3>4, <3>5
    <2>4. QED
      BY <2>2, <2>3
  <1>4. Eq(g)
    <2> HIDE DEF Orbit
    <2>1. \A y \in Txns : p[y] \in Txns
      OBVIOUS
    <2>2. QED
      BY <1>3, <2>1
  <1>5. Eq(path)
    <2> HIDE DEF Eq, g, path
    <2>1. QED
      BY <1>1, <1>4
  <1>6. path[x] = IF p[x] = x THEN {x} ELSE {x} \cup path[p[x]]
    <2> HIDE DEF path
    <2>1. QED
      BY <1>5
  <1>7. QED
    <2> HIDE DEF path
    <2>1. QED
      BY <1>2, <1>6

\* A set that holds the roots and every node whose parent it holds is the
\* whole forest.
LEMMA TreeInduction ==
  ASSUME NEW p, NEW r, Forest(p, r), NEW S \in SUBSET Txns,
         \A y \in Txns : (p[y] = y \/ p[y] \in S) => y \in S
  PROVE  S = Txns
  <1> DEFINE T == Txns \ S
             U(x) == {y \in T : r[y] > r[x]}
             W == {U(x) : x \in T}
  <1>1. SUFFICES ASSUME T # {} PROVE FALSE
    OBVIOUS
  <1>2. IsFiniteSet(Txns)
    BY NTxnsAssumption, FS_Interval DEF Txns
  <1>3. \A x \in T : U(x) \in SUBSET Txns /\ IsFiniteSet(U(x))
    BY <1>2, FS_Subset
  <1>4. W \subseteq FiniteSubsetsOf(Txns) /\ W # {}
    BY <1>1, <1>3 DEF FiniteSubsetsOf
  <1>5. IsWellFoundedOn(StrictSubsetOrdering(Txns), FiniteSubsetsOf(Txns))
    BY FS_StrictSubsetOrderingWellFounded
  <1>6. PICK s \in W : \A t \in W : <<t, s>> \notin StrictSubsetOrdering(Txns)
    <2> HIDE DEF W
    <2>1. QED
      BY <1>4, <1>5, WFMin
  <1>7. PICK x \in T : s = U(x)
    OBVIOUS
  <1>8. p[x] \in T /\ r[x] < r[p[x]] /\ r \in [Txns -> Nat]
    BY DEF Forest
  <1>9. U(p[x]) \subseteq U(x) /\ p[x] \in U(x) /\ p[x] \notin U(p[x])
    BY <1>8
  <1>10. U(p[x]) \in W
    BY <1>8
  <1>11. <<U(p[x]), U(x)>> \in StrictSubsetOrdering(Txns)
    BY <1>3, <1>7, <1>8, <1>9 DEF StrictSubsetOrdering
  <1>12. QED
    BY <1>6, <1>7, <1>10, <1>11

\* Every node has one root, the one its parent has; the nodes on its path have
\* the same one, and a rank below the root's.
RootOf(p, r, x) ==
  /\ Path(p, x) \subseteq Txns /\ x \in Path(p, x)
  /\ Root(p, x) \in Path(p, x) /\ p[Root(p, x)] = Root(p, x)
  /\ \A z \in Path(p, x) : p[z] = z => z = Root(p, x)
  /\ \A z \in Path(p, x) : z # Root(p, x) => r[z] < r[Root(p, x)]

\* Following the parents from any node ends in its one root.
LEMMA RootFacts ==
  ASSUME NEW p, NEW r, Forest(p, r)
  PROVE  /\ \A x \in Txns : RootOf(p, r, x)
         /\ \A x \in Txns : Root(p, x) = IF p[x] = x THEN x ELSE Root(p, p[x])
  <1> DEFINE S == {x \in Txns : RootOf(p, r, x)}
  <1>1. \A x \in Txns : Path(p, x) = IF p[x] = x THEN {x} ELSE {x} \cup Path(p, p[x])
    BY PathDef DEF Forest
  <1>2. \A x : Root(p, x) = CHOOSE y \in Path(p, x) : p[y] = y
    BY DEF Root
  <1>3. ASSUME NEW y \in Txns, p[y] = y PROVE y \in S /\ Root(p, y) = y
    <2>1. Path(p, y) = {y}
      BY <1>1, <1>3
    <2>2. Root(p, y) = y
      BY <1>2, <1>3, <2>1
    <2>3. QED
      BY <1>3, <2>1, <2>2 DEF RootOf
  <1>4. ASSUME NEW y \in Txns, p[y] # y, p[y] \in S
        PROVE  y \in S /\ Root(p, y) = Root(p, p[y])
    <2>1. Path(p, y) = {y} \cup Path(p, p[y])
      BY <1>1, <1>4
    <2>2. RootOf(p, r, p[y])
      BY <1>4
    <2>3. \A z \in Path(p, y) : p[z] = z <=> z = Root(p, p[y])
      BY <1>4, <2>1, <2>2 DEF RootOf
    <2>4. Root(p, p[y]) \in Path(p, y)
      BY <2>1, <2>2 DEF RootOf
    <2>5. Root(p, y) = Root(p, p[y])
      <3>1. Root(p, y) \in Path(p, y) /\ p[Root(p, y)] = Root(p, y)
        BY <1>2, <2>3, <2>4
      <3>2. QED
        BY <2>3, <3>1
    <2>6. r[y] < r[p[y]] /\ r \in [Txns -> Nat] /\ p[y] \in Txns
      BY <1>4 DEF Forest
    <2>7. r[y] < r[Root(p, p[y])]
      BY <2>2, <2>6 DEF RootOf
    <2>8. QED
      BY <1>4, <2>1, <2>2, <2>3, <2>5, <2>7 DEF RootOf
  <1>5. S = Txns
    <2>1. S \in SUBSET Txns
      OBVIOUS
    <2>2. \A y \in Txns : (p[y] = y \/ p[y] \in S) => y \in S
      <3> HIDE DEF S
      <3>1. QED
        BY <1>3, <1>4
    <2> HIDE DEF S
    <2>3. QED
      BY <2>1, <2>2, TreeInduction
  <1>6. \A y \in Txns : p[y] \in Txns
    BY DEF Forest
  <1>7. \A x \in Txns : Root(p, x) = IF p[x] = x THEN x ELSE Root(p, p[x])
    <2> HIDE DEF S
    <2>1. QED
      BY <1>3, <1>4, <1>5, <1>6
  <1>8. QED
    BY <1>5, <1>7

\* Root is the only map that fixes the roots and agrees along edges.
LEMMA RootUnique ==
  ASSUME NEW p, NEW r, Forest(p, r), NEW g,
         \A x \in Txns : g[x] = IF p[x] = x THEN x ELSE g[p[x]]
  PROVE  \A x \in Txns : Root(p, x) = g[x]
  <1> DEFINE S == {x \in Txns : Root(p, x) = g[x]}
  <1>1. \A x \in Txns : Root(p, x) = IF p[x] = x THEN x ELSE Root(p, p[x])
    BY RootFacts
  <1>2. S \in SUBSET Txns /\ (\A y \in Txns : (p[y] = y \/ p[y] \in S) => y \in S)
    BY <1>1
  <1>3. S = Txns
    <2> HIDE DEF S
    <2>1. QED
      BY <1>2, TreeInduction
  <1>4. QED
    BY <1>3

\* The facts about roots in the form later proofs use.
LEMMA Roots ==
  ASSUME NEW p, NEW r, Forest(p, r)
  PROVE  \A x \in Txns :
           /\ Root(p, x) \in Txns /\ p[Root(p, x)] = Root(p, x)
           /\ p[x] = x => Root(p, x) = x
           /\ p[x] # x => Root(p, x) = Root(p, p[x])
           /\ Root(p, Root(p, x)) = Root(p, x)
           /\ p[x] \in Txns /\ Root(p, p[x]) = Root(p, x)
  <1>1. TAKE x \in Txns
  <1>2. RootOf(p, r, x)
    BY RootFacts
  <1>3. \A y \in Txns : Root(p, y) = IF p[y] = y THEN y ELSE Root(p, p[y])
    BY RootFacts
  <1>4. Root(p, x) \in Txns /\ p[Root(p, x)] = Root(p, x)
    BY <1>2 DEF RootOf
  <1>5. QED
    BY <1>3, <1>4 DEF Forest

\* Every node on a path has the root of the path.
LEMMA PathRoot ==
  ASSUME NEW p, NEW r, Forest(p, r), NEW x \in Txns, NEW y \in Path(p, x)
  PROVE  Root(p, y) = Root(p, x)
  <1> DEFINE S == {u \in Txns : \A z \in Path(p, u) : Root(p, z) = Root(p, u)}
  <1>1. \A u \in Txns : Path(p, u) = IF p[u] = u THEN {u} ELSE {u} \cup Path(p, p[u])
    BY PathDef DEF Forest
  <1>2. \A u \in Txns : p[u] # u => Root(p, u) = Root(p, p[u])
    BY Roots
  <1>3. S \in SUBSET Txns /\ (\A u \in Txns : (p[u] = u \/ p[u] \in S) => u \in S)
    BY <1>1, <1>2
  <1>4. S = Txns
    <2> HIDE DEF S
    <2>1. QED
      BY <1>3, TreeInduction
  <1>5. QED
    BY <1>4

\* find keeps every root and the order of the ranks.
LEMMA CompressKeeps ==
  ASSUME NEW p, NEW r, Forest(p, r), NEW x \in Txns
  PROVE  /\ Forest(Compress(p, x), r)
         /\ \A y \in Txns : Root(Compress(p, x), y) = Root(p, y)
         /\ \A y \in Txns : Compress(p, x)[y] = y <=> p[y] = y
  <1> DEFINE q == Compress(p, x)
             g == [y \in Txns |-> Root(p, y)]
  <1>1. RootOf(p, r, x)
    BY RootFacts
  <1>2. Root(p, x) \in Txns /\ p[Root(p, x)] = Root(p, x) /\ Root(p, Root(p, x)) = Root(p, x)
    BY Roots
  <1>3. \A y \in Txns : q[y] = IF y \in Path(p, x) THEN Root(p, x) ELSE p[y]
    BY DEF Compress
  <1>4. q \in [Txns -> Txns]
    BY <1>2 DEF Compress, Forest
  <1> HIDE DEF q
  <1>5. \A y \in Txns : q[y] = y <=> p[y] = y
    BY <1>1, <1>2, <1>3 DEF RootOf
  <1>6. Forest(q, r)
    BY <1>1, <1>3, <1>4 DEF RootOf, Forest
  <1>7. \A y \in Txns : g[y] = IF q[y] = y THEN y ELSE g[q[y]]
    <2>1. TAKE y \in Txns
    <2>2. CASE q[y] = y
      BY <1>5, <2>2, Roots
    <2>3. CASE q[y] # y /\ y \in Path(p, x)
      BY <1>2, <1>3, <2>3, PathRoot
    <2>4. CASE q[y] # y /\ y \notin Path(p, x)
      <3>1. q[y] = p[y] /\ p[y] # y
        BY <1>3, <2>4
      <3>2. Root(p, y) = Root(p, p[y]) /\ p[y] \in Txns
        BY <3>1, Roots
      <3>3. QED
        BY <3>1, <3>2
    <2>5. QED
      BY <2>2, <2>3, <2>4
  <1>8. \A y \in Txns : Root(q, y) = g[y]
    <2> HIDE DEF g
    <2>1. QED
      BY <1>6, <1>7, RootUnique
  <1>9. QED
    BY <1>5, <1>6, <1>8 DEF q

\* Hanging root a under root b gives a's tree to b.
LEMMA Link ==
  ASSUME NEW p, NEW r, NEW s, Forest(p, r), s \in [Txns -> Nat],
         NEW a \in Txns, NEW b \in Txns, a # b, p[a] = a, p[b] = b,
         r[a] < s[b], r[b] <= s[b], \A y \in Txns \ {b} : s[y] = r[y],
         NEW q \in [Txns -> Txns], q[a] = b, \A y \in Txns \ {a} : q[y] = p[y]
  PROVE  /\ Forest(q, s)
         /\ \A y \in Txns : Root(q, y) = IF Root(p, y) = a THEN b ELSE Root(p, y)
         /\ \A y \in Txns : q[y] = y <=> p[y] = y /\ y # a
  <1> DEFINE g == [y \in Txns |-> IF Root(p, y) = a THEN b ELSE Root(p, y)]
  <1>1. q \in [Txns -> Txns] /\ q[a] = b /\ (\A y \in Txns \ {a} : q[y] = p[y])
    OBVIOUS
  <1>2. \A y \in Txns : r[y] <= s[y] /\ r[y] \in Nat /\ s[y] \in Nat
    BY DEF Forest
  <1>3. \A y \in Txns : q[y] # y => s[y] < s[q[y]]
    <2>1. TAKE y \in Txns
    <2>2. CASE y = a
      BY <1>1, <1>2, <2>2
    <2>3. CASE y # a /\ p[y] # y
      <3>1. q[y] = p[y] /\ y # b /\ p[y] \in Txns /\ r[y] < r[p[y]]
        BY <1>1, <2>3 DEF Forest
      <3>2. s[y] = r[y] /\ r[p[y]] <= s[p[y]]
        BY <1>2, <3>1
      <3>3. QED
        BY <1>2, <3>1, <3>2
    <2>4. QED
      BY <1>1, <2>2, <2>3
  <1>4. Forest(q, s)
    BY <1>1, <1>3 DEF Forest
  <1>5. \A y \in Txns : g[y] = IF q[y] = y THEN y ELSE g[q[y]]
    <2>1. TAKE y \in Txns
    <2>2. Root(p, a) = a /\ Root(p, b) = b
      BY Roots
    <2>3. p[y] \in Txns /\ Root(p, p[y]) = Root(p, y) /\ (p[y] = y => Root(p, y) = y)
      BY Roots
    <2>4. QED
      BY <1>1, <2>2, <2>3
  <1>6. \A y \in Txns : Root(q, y) = g[y]
    <2> HIDE DEF g
    <2>1. QED
      BY <1>4, <1>5, RootUnique
  <1>7. QED
    BY <1>1, <1>4, <1>6

\* unite(x, y) leaves the roots alone when they are equal, and otherwise hangs
\* one of them, a, under the other, b; b's rank grows when the two were equal.
LEMMA UniteFacts ==
  ASSUME Forest(parent, rank), NEW x \in Txns, NEW y \in Txns, Unite(x, y)
  PROVE  /\ Forest(parent', rank')
         /\ \/ /\ Root(parent, x) = Root(parent, y)
               /\ rank' = rank
               /\ \A z \in Txns : parent'[z] = z <=> parent[z] = z
               /\ \A z \in Txns : Root(parent', z) = Root(parent, z)
            \/ \E a, b \in Txns :
                 /\ a # b
                 /\ \/ a = Root(parent, x) /\ b = Root(parent, y)
                    \/ a = Root(parent, y) /\ b = Root(parent, x)
                 /\ parent[a] = a /\ parent[b] = b
                 /\ \A z \in Txns : parent'[z] = z <=> parent[z] = z /\ z # a
                 /\ \A z \in Txns :
                      Root(parent', z) = IF Root(parent, z) = a THEN b ELSE Root(parent, z)
                 /\ \A z \in Txns \ {b} : rank'[z] = rank[z]
                 /\ \/ rank'[b] = rank[b]
                    \/ rank'[b] = rank[b] + 1 /\ rank[a] = rank[b]
  <1> DEFINE p1 == Compress(parent, x)
             p2 == Compress(p1, y)
  <1>1. /\ Forest(p1, rank)
        /\ \A z \in Txns : Root(p1, z) = Root(parent, z)
        /\ \A z \in Txns : p1[z] = z <=> parent[z] = z
    BY CompressKeeps
  <1>2. PICK p : p = p2
    OBVIOUS
  <1>3. /\ Forest(p, rank)
        /\ \A z \in Txns : Root(p, z) = Root(parent, z)
        /\ \A z \in Txns : p[z] = z <=> parent[z] = z
    <2> HIDE DEF p1
    <2>1. /\ Forest(p2, rank)
          /\ \A z \in Txns : Root(p2, z) = Root(p1, z)
          /\ \A z \in Txns : p2[z] = z <=> p1[z] = z
      BY <1>1, CompressKeeps
    <2> HIDE DEF p2
    <2>2. QED
      BY <1>1, <1>2, <2>1
  <1>4. PICK a0, b0 : a0 = Root(p, x) /\ b0 = Root(p, y)
    OBVIOUS
  <1>5. /\ parent' = CASE a0 = b0 -> p
                       [] rank[a0] < rank[b0] -> [p EXCEPT ![a0] = b0]
                       [] OTHER -> [p EXCEPT ![b0] = a0]
        /\ rank' = IF a0 # b0 /\ rank[a0] = rank[b0]
                     THEN [rank EXCEPT ![a0] = @ + 1] ELSE rank
    <2> HIDE DEF Root, Compress
    <2>1. QED
      BY <1>2, <1>4 DEF Unite
  <1>6. /\ a0 \in Txns /\ b0 \in Txns /\ p[a0] = a0 /\ p[b0] = b0
        /\ a0 = Root(parent, x) /\ b0 = Root(parent, y)
    BY <1>3, <1>4, Roots
  <1>7. p \in [Txns -> Txns] /\ rank \in [Txns -> Nat] /\ rank[a0] \in Nat /\ rank[b0] \in Nat
    BY <1>3, <1>6 DEF Forest
  <1>8. CASE a0 = b0
    <2>1. parent' = p /\ rank' = rank
      BY <1>5, <1>7, <1>8
    <2>2. QED
      BY <1>3, <1>6, <1>8, <2>1
  <1>9. ASSUME NEW a \in Txns, NEW b \in Txns, a # b, a \in {a0, b0}, b \in {a0, b0},
               parent' = [p EXCEPT ![a] = b], rank' \in [Txns -> Nat],
               \A z \in Txns \ {b} : rank'[z] = rank[z],
               \/ rank'[b] = rank[b] /\ rank[a] < rank[b]
               \/ rank'[b] = rank[b] + 1 /\ rank[a] = rank[b]
        PROVE  /\ Forest(parent', rank')
               /\ parent[a] = a /\ parent[b] = b
               /\ \A z \in Txns : parent'[z] = z <=> parent[z] = z /\ z # a
               /\ \A z \in Txns :
                    Root(parent', z) = IF Root(parent, z) = a THEN b ELSE Root(parent, z)
    <2>1. p[a] = a /\ p[b] = b
      BY <1>6, <1>9
    <2>2. rank[a] \in Nat /\ rank[b] \in Nat
      BY <1>7
    <2>3. rank[a] < rank'[b] /\ rank[b] <= rank'[b]
      BY <1>9, <2>2
    <2>4. /\ parent' \in [Txns -> Txns] /\ parent'[a] = b
          /\ \A z \in Txns \ {a} : parent'[z] = p[z]
      BY <1>7, <1>9
    <2>5. PICK q, s : q = parent' /\ s = rank'
      OBVIOUS
    <2>6. /\ Forest(q, s)
          /\ \A z \in Txns : Root(q, z) = IF Root(p, z) = a THEN b ELSE Root(p, z)
          /\ \A z \in Txns : q[z] = z <=> p[z] = z /\ z # a
      <3>1. /\ s \in [Txns -> Nat] /\ rank[a] < s[b] /\ rank[b] <= s[b]
            /\ \A z \in Txns \ {b} : s[z] = rank[z]
        BY <1>9, <2>3, <2>5
      <3>2. q \in [Txns -> Txns] /\ q[a] = b /\ (\A z \in Txns \ {a} : q[z] = p[z])
        BY <2>4, <2>5
      <3>3. Forest(p, rank)
        BY <1>3
      <3>4. a # b
        BY <1>9
      <3>5. QED
        BY <2>1, <3>1, <3>2, <3>3, <3>4, Link
    <2>7. QED
      BY <1>3, <2>1, <2>5, <2>6
  <1>10. CASE a0 # b0 /\ rank[a0] < rank[b0]
    <2>1. parent' = [p EXCEPT ![a0] = b0] /\ rank' = rank
      BY <1>5, <1>7, <1>10
    <2>2. /\ Forest(parent', rank')
          /\ parent[a0] = a0 /\ parent[b0] = b0
          /\ \A z \in Txns : parent'[z] = z <=> parent[z] = z /\ z # a0
          /\ \A z \in Txns :
               Root(parent', z) = IF Root(parent, z) = a0 THEN b0 ELSE Root(parent, z)
      <3>1. a0 # b0 /\ b0 \in {a0, b0} /\ a0 \in {a0, b0} /\ b0 \in Txns /\ a0 \in Txns
        BY <1>6, <1>10
      <3>2. /\ rank' \in [Txns -> Nat] /\ \A z \in Txns \ {b0} : rank'[z] = rank[z]
            /\ rank'[b0] = rank[b0] /\ rank[a0] < rank[b0]
        BY <1>7, <1>10, <2>1
      <3>3. parent' = [p EXCEPT ![a0] = b0]
        BY <2>1
      <3>4. QED
        BY <1>9, <3>1, <3>2, <3>3
    <2>3. QED
      BY <1>6, <1>10, <2>1, <2>2
  <1>11. CASE a0 # b0 /\ ~(rank[a0] < rank[b0])
    <2>1. parent' = [p EXCEPT ![b0] = a0]
      BY <1>5, <1>11
    <2>2. /\ rank' \in [Txns -> Nat] /\ \A z \in Txns \ {a0} : rank'[z] = rank[z]
          /\ \/ rank'[a0] = rank[a0] /\ rank[b0] < rank[a0]
             \/ rank'[a0] = rank[a0] + 1 /\ rank[b0] = rank[a0]
      BY <1>5, <1>6, <1>7, <1>11
    <2>3. {b0, a0} = {a0, b0}
      OBVIOUS
    <2>4. /\ Forest(parent', rank')
          /\ parent[b0] = b0 /\ parent[a0] = a0
          /\ \A z \in Txns : parent'[z] = z <=> parent[z] = z /\ z # b0
          /\ \A z \in Txns :
               Root(parent', z) = IF Root(parent, z) = b0 THEN a0 ELSE Root(parent, z)
      <3>1. b0 # a0 /\ b0 \in {a0, b0} /\ a0 \in {a0, b0} /\ b0 \in Txns /\ a0 \in Txns
        BY <1>6, <1>11
      <3>2. QED
        BY <1>9, <2>1, <2>2, <3>1
    <2>5. QED
      BY <1>6, <1>11, <2>2, <2>3, <2>4
  <1>12. QED
    BY <1>8, <1>10, <1>11

\* Two trees of equal rank k make one of rank k + 1 and twice the size.
LEMMA UniteBalanced ==
  ASSUME Forest(parent, rank), NEW x \in Txns, NEW y \in Txns, Unite(x, y), RankBound
  PROVE  RankBound'
  <1> DEFINE T(z) == {u \in Txns : Root(parent, u) = z}
             N(z) == {u \in Txns : Root(parent', u) = z}
  <1>1. IsFiniteSet(Txns)
    BY NTxnsAssumption, FS_Interval DEF Txns
  <1>2. \A z : T(z) \in SUBSET Txns /\ IsFiniteSet(T(z)) /\ Cardinality(T(z)) \in Nat
    BY <1>1, FS_Subset, FS_CardinalityType
  <1>3. \A z \in Txns : parent[z] = z => 2^rank[z] <= Cardinality(T(z))
    BY DEF RankBound
  <1>4. rank \in [Txns -> Nat]
    BY DEF Forest
  <1>5. \A z \in Txns : 2^rank[z] \in Nat /\ 2^(rank[z] + 1) = 2^rank[z] + 2^rank[z]
    BY <1>4, PowerOfTwo
  <1>6. SUFFICES ASSUME NEW z \in Txns, parent'[z] = z
                 PROVE  2^rank'[z] <= Cardinality(N(z))
    BY DEF RankBound
  <1>7. CASE /\ rank' = rank
             /\ \A u \in Txns : parent'[u] = u <=> parent[u] = u
             /\ \A u \in Txns : Root(parent', u) = Root(parent, u)
    <2>1. N(z) = T(z) /\ parent[z] = z
      BY <1>6, <1>7
    <2>2. QED
      BY <1>3, <1>7, <2>1
  <1>8. ASSUME NEW a \in Txns, NEW b \in Txns, a # b, parent[a] = a, parent[b] = b,
               \A u \in Txns : parent'[u] = u <=> parent[u] = u /\ u # a,
               \A u \in Txns :
                 Root(parent', u) = IF Root(parent, u) = a THEN b ELSE Root(parent, u),
               \A u \in Txns \ {b} : rank'[u] = rank[u],
               \/ rank'[b] = rank[b]
               \/ rank'[b] = rank[b] + 1 /\ rank[a] = rank[b]
        PROVE  2^rank'[z] <= Cardinality(N(z))
    <2>1. z # a /\ parent[z] = z
      BY <1>6, <1>8
    <2>2. CASE z # b
      <3>1. N(z) = T(z) /\ rank'[z] = rank[z]
        BY <1>8, <2>1, <2>2
      <3>2. QED
        BY <1>3, <2>1, <3>1
    <2>3. CASE z = b
      <3>1. N(z) = T(a) \cup T(b) /\ T(a) \cap T(b) = {}
        BY <1>8, <2>3
      <3>2. Cardinality(T(a) \cap T(b)) = 0
        <4> HIDE DEF T
        <4>1. QED
          BY <3>1, FS_EmptySet
      <3>3. Cardinality(T(a) \cup T(b)) = Cardinality(T(a)) + Cardinality(T(b)) - Cardinality(T(a) \cap T(b))
        <4>1. IsFiniteSet(T(a)) /\ IsFiniteSet(T(b))
          BY <1>2
        <4> HIDE DEF T
        <4>2. QED
          BY <4>1, FS_Union
      <3>4. 2^rank[a] <= Cardinality(T(a)) /\ 2^rank[b] <= Cardinality(T(b))
        BY <1>3, <1>8
      <3>5. Cardinality(T(a)) \in Nat /\ Cardinality(T(b)) \in Nat
        BY <1>2
      <3>6. 2^rank[a] \in Nat /\ 2^rank[b] \in Nat /\ 2^(rank[b] + 1) = 2^rank[b] + 2^rank[b]
        BY <1>5
      <3>7. Cardinality(N(z)) = Cardinality(T(a)) + Cardinality(T(b))
        <4> HIDE DEF N, T
        <4>1. QED
          BY <3>1, <3>2, <3>3, <3>5
      <3> HIDE DEF N, T
      <3>8. CASE rank'[b] = rank[b]
        BY <2>3, <3>4, <3>5, <3>6, <3>7, <3>8
      <3>9. CASE rank'[b] = rank[b] + 1 /\ rank[a] = rank[b]
        <4>1. 2^rank'[z] = 2^rank[b] + 2^rank[b] /\ 2^rank[a] = 2^rank[b]
          BY <2>3, <3>6, <3>9
        <4>2. QED
          BY <3>4, <3>5, <3>6, <3>7, <4>1
      <3>10. QED
        BY <1>8, <3>8, <3>9
    <2>4. QED
      BY <2>2, <2>3
  <1> HIDE DEF N, T
  <1>9. QED
    BY <1>7, <1>8, UniteFacts

(***************************************************************************)
(* Trees and reachability.                                                 *)
(***************************************************************************)
\* The trees of p are the components of the graph E.
Match(p, E) ==
  \A x \in Txns : {y \in Txns : Root(p, y) = Root(p, x)} = Reachable(E, x)

\* Trees that no edge leaves and whose nodes are reachable from each other are
\* the components.
LEMMA MatchIntro ==
  ASSUME NEW p, NEW E \in SUBSET (Txns \X Txns),
         \A e \in E : Root(p, e[1]) = Root(p, e[2]),
         \A x, y \in Txns : Root(p, x) = Root(p, y) => y \in Reachable(E, x)
  PROVE  Match(p, E)
  <1>1. SUFFICES ASSUME NEW x \in Txns
                 PROVE  {y \in Txns : Root(p, y) = Root(p, x)} = Reachable(E, x)
    BY DEF Match
  <1> DEFINE S == {y \in Txns : Root(p, y) = Root(p, x)}
  <1>2. S \subseteq Reachable(E, x)
    OBVIOUS
  <1>3. \A e \in E : e[1] \in Txns /\ e[2] \in Txns
    OBVIOUS
  <1>4. S \in SUBSET Txns /\ x \in S /\ (\A e \in E : e[1] \in S <=> e[2] \in S)
    BY <1>3
  <1>5. Reachable(E, x) \subseteq S
    BY <1>4 DEF Reachable
  <1>6. QED
    BY <1>2, <1>5

\* What Match says of single nodes and edges.
LEMMA MatchElim ==
  ASSUME NEW p, NEW E \in SUBSET (Txns \X Txns), Match(p, E)
  PROVE  /\ \A e \in E : Root(p, e[1]) = Root(p, e[2])
         /\ \A x, y \in Txns : Root(p, x) = Root(p, y) => y \in Reachable(E, x)
  <1>1. \A e \in E : e[1] \in Txns /\ e[2] \in Txns
    OBVIOUS
  <1>2. \A e \in E : e[2] \in Reachable(E, e[1])
    BY <1>1 DEF Reachable
  <1>3. \A x \in Txns : Reachable(E, x) = {y \in Txns : Root(p, y) = Root(p, x)}
    BY DEF Match
  <1>4. \A e \in E : Root(p, e[1]) = Root(p, e[2])
    BY <1>1, <1>2, <1>3
  <1>5. QED
    BY <1>3, <1>4

\* unite(x, y) takes the components of E to those of E with the edge <<x, y>>.
LEMMA UniteMatches ==
  ASSUME Forest(parent, rank), NEW x \in Txns, NEW y \in Txns, Unite(x, y),
         NEW E \in SUBSET (Txns \X Txns), Match(parent, E)
  PROVE  Match(parent', E \cup {<<x, y>>})
  <1> DEFINE F == E \cup {<<x, y>>}
  <1>1. F \in SUBSET (Txns \X Txns)
    OBVIOUS
  <1>2. /\ \A e \in E : Root(parent, e[1]) = Root(parent, e[2])
        /\ \A u, v \in Txns : Root(parent, u) = Root(parent, v) => v \in Reachable(E, u)
    BY MatchElim
  <1>3. \A u \in Txns : Reachable(E, u) \subseteq Reachable(F, u)
    BY DEF Reachable
  <1>4. /\ \A u, v \in Txns :
             x \in Reachable(E, u) /\ v \in Reachable(E, y) => v \in Reachable(F, u)
        /\ \A u, v \in Txns :
             y \in Reachable(E, u) /\ v \in Reachable(E, x) => v \in Reachable(F, u)
    <2>1. \A S \in SUBSET Txns : (\A e \in F : e[1] \in S <=> e[2] \in S) =>
            /\ \A e \in E : e[1] \in S <=> e[2] \in S
            /\ x \in S <=> y \in S
      <3>1. <<x, y>> \in F /\ <<x, y>>[1] = x /\ <<x, y>>[2] = y
        OBVIOUS
      <3>2. QED
        BY <3>1
    <2> HIDE DEF F
    <2>2. QED
      BY <2>1 DEF Reachable
  <1>5. CASE /\ Root(parent, x) = Root(parent, y)
             /\ \A z \in Txns : Root(parent', z) = Root(parent, z)
    <2>1. \A e \in F : Root(parent', e[1]) = Root(parent', e[2])
      <3>1. \A e \in F : e[1] \in Txns /\ e[2] \in Txns
        OBVIOUS
      <3>2. \A e \in F : Root(parent, e[1]) = Root(parent, e[2])
        BY <1>2, <1>5
      <3>3. QED
        BY <1>5, <3>1, <3>2
    <2>2. \A u, v \in Txns : Root(parent', u) = Root(parent', v) => v \in Reachable(F, u)
      BY <1>2, <1>3, <1>5
    <2> HIDE DEF F
    <2>3. QED
      BY <1>1, <2>1, <2>2, MatchIntro DEF F
  <1>6. ASSUME NEW a \in Txns, NEW b \in Txns,
               a # b,
               \/ a = Root(parent, x) /\ b = Root(parent, y)
               \/ a = Root(parent, y) /\ b = Root(parent, x),
               \A z \in Txns :
                 Root(parent', z) = IF Root(parent, z) = a THEN b ELSE Root(parent, z)
        PROVE  Match(parent', F)
    <2>1. \/ Root(parent, x) = a /\ Root(parent, y) = b
          \/ Root(parent, x) = b /\ Root(parent, y) = a
      BY <1>6
    <2>2. \A e \in F : Root(parent', e[1]) = Root(parent', e[2])
      <3>1. \A e \in F : e[1] \in Txns /\ e[2] \in Txns
        OBVIOUS
      <3>2. \A e \in E : Root(parent', e[1]) = Root(parent', e[2])
        BY <1>2, <1>6, <3>1
      <3>3. Root(parent', x) = Root(parent', y)
        BY <1>6, <2>1
      <3>4. QED
        BY <3>2, <3>3
    <2>3. ASSUME NEW u \in Txns, NEW v \in Txns, Root(parent', u) = Root(parent', v)
          PROVE  v \in Reachable(F, u)
      <3>1. \/ Root(parent, u) = Root(parent, v)
            \/ Root(parent, u) = Root(parent, x) /\ Root(parent, y) = Root(parent, v)
            \/ Root(parent, u) = Root(parent, y) /\ Root(parent, x) = Root(parent, v)
        BY <1>6, <2>1, <2>3
      <3>2. QED
        BY <1>2, <1>3, <1>4, <3>1
    <2> HIDE DEF F
    <2>4. QED
      BY <1>1, <2>2, <2>3, MatchIntro
  <1>7. \/ /\ Root(parent, x) = Root(parent, y)
           /\ \A z \in Txns : Root(parent', z) = Root(parent, z)
        \/ \E a, b \in Txns :
             /\ a # b
             /\ \/ a = Root(parent, x) /\ b = Root(parent, y)
                \/ a = Root(parent, y) /\ b = Root(parent, x)
             /\ \A z \in Txns :
                  Root(parent', z) = IF Root(parent, z) = a THEN b ELSE Root(parent, z)
    BY UniteFacts
  <1>8. QED
    <2> HIDE DEF F
    <2>1. QED
      BY <1>5, <1>6, <1>7 DEF F

\* The pairs the loops have looked at.
LEMMA ProcessedType ==
  ASSUME TypeOK
  PROVE  Processed \in SUBSET (Txns \X Txns)
  BY DEF TypeOK, Processed

\* The invariant makes the arrays a forest.
LEMMA IsForest ==
  ASSUME TypeOK, RankOrder
  PROVE  Forest(parent, rank)
  BY DEF TypeOK, RankOrder, Forest

(***************************************************************************)
(* The inductive invariant, one lemma per action.                          *)
(***************************************************************************)
\* connectedComponents starts with one tree per transaction.
LEMMA InitInv ==
  ASSUME Init
  PROVE  IInv
  <1> USE NTxnsAssumption
  <1>1. TypeOK /\ RankOrder
    <2>1. healthyMemberIds \in Seq(MemberIds)
      <3>1. PICK S \in SUBSET MemberIds : healthyMemberIds \in SetToSeqs(S)
        BY DEF Init
      <3>2. healthyMemberIds \in [1 .. Cardinality(S) -> S] /\ Cardinality(S) \in Nat
        BY <3>1, MemberIdsAssumption, FS_Subset, FS_CardinalityType DEF SetToSeqs
      <3>3. QED
        BY <3>2
    <2>2. adjacencyMatrix \in SUBSET (Txns \X Txns)
      BY DEF Init
    <2>3. QED
      BY <2>1, <2>2 DEF Init, TypeOK, RankOrder
  <1>2. Forest(parent, rank)
    BY <1>1, IsForest
  <1>3. \A x \in Txns : parent[x] = x /\ rank[x] = 0 /\ Root(parent, x) = x
    BY <1>2, Roots DEF Init
  <1>4. RankBound
    <2>1. SUFFICES ASSUME NEW x \in Txns
                   PROVE  2^rank[x] <= Cardinality({y \in Txns : Root(parent, y) = x})
      BY DEF RankBound
    <2>2. {y \in Txns : Root(parent, y) = x} = {x}
      BY <1>3
    <2>3. Cardinality({x}) = 1
      BY FS_Singleton
    <2>4. 2^rank[x] = 1
      BY <1>3, PowerZero
    <2>5. QED
      BY <2>2, <2>3, <2>4
  <1>5. InputsSound
    <2>1. PICK S \in SUBSET MemberIds : healthyMemberIds \in SetToSeqs(S)
      BY DEF Init
    <2>2. \A k, l \in DOMAIN healthyMemberIds : k # l => healthyMemberIds[k] # healthyMemberIds[l]
      BY <2>1 DEF SetToSeqs
    <2>3. QED
      BY <2>2 DEF Init, InputsSound
  <1>6. RootsMatch
    <2>1. Processed = {}
      BY <1>5 DEF Init, Processed, InputsSound, Txns
    <2>2. \A x \in Txns : x \in Reachable({}, x)
      BY DEF Reachable
    <2>3. Match(parent, {})
      BY <1>3, <2>2, MatchIntro
    <2>4. QED
      BY <2>1, <2>3 DEF Match, RootsMatch
  <1>7. Grouped /\ Populated /\ TableExact /\ Dealt
    BY DEF Init, Grouped, Populated, TableExact, Dealt
  <1>8. QED
    BY <1>1, <1>4, <1>5, <1>6, <1>7 DEF IInv

\* Steps that leave the forest alone keep its shape.
LEMMA ForestFrame ==
  ASSUME RankOrder, RankBound, UNCHANGED <<parent, rank>>
  PROVE  RankOrder' /\ RankBound'
  BY DEF RankOrder, RankBound

\* unite of a conflicting pair, or its skip.
LEMMA UnitePairInv ==
  ASSUME IInv, UnitePair
  PROVE  IInv'
  <1> USE NTxnsAssumption
  <1>1. TypeOK /\ RankOrder /\ RankBound /\ InputsSound /\ RootsMatch /\ Grouped /\ Dealt
    BY DEF IInv
  <1>2. Forest(parent, rank)
    BY <1>1, IsForest
  <1>3. phase = "unite" /\ phase' = "unite" /\ i' = i /\ j' = j + 1 /\ i < j
    BY <1>1 DEF UnitePair, InputsSound
  <1>4. i \in Txns /\ j \in Txns /\ UNCHANGED <<input, componentsMap, table, assigned>>
    BY <1>1 DEF UnitePair, TypeOK, Txns
  <1>5. <<j, i>> \notin adjacencyMatrix
    BY <1>1, <1>3, <1>4 DEF InputsSound, Txns
  <1>6. Processed' = Processed \cup ({<<i, j>>} \cap adjacencyMatrix)
    <2>1. Processed' = {e \in adjacencyMatrix : e[1] < i \/ (e[1] = i /\ e[2] < j + 1)}
      BY <1>3, <1>4 DEF Processed, input
    <2>2. Processed = {e \in adjacencyMatrix : e[1] < i \/ (e[1] = i /\ e[2] < j)}
      BY <1>3 DEF Processed
    <2>3. \A e \in adjacencyMatrix : /\ e[1] \in Int /\ e[2] \in Int /\ e = <<e[1], e[2]>>
      BY <1>1 DEF TypeOK, Txns
    <2>4. \A e \in adjacencyMatrix : e \in Processed' <=> e \in Processed \/ e = <<i, j>>
      BY <1>4, <2>1, <2>2, <2>3 DEF Txns
    <2>5. QED
      BY <2>1, <2>2, <2>4
  <1>7. Processed \in SUBSET (Txns \X Txns) /\ Match(parent, Processed)
    BY <1>1, ProcessedType DEF RootsMatch, Match
  <1>8. Forest(parent', rank') /\ RankBound' /\ Match(parent', Processed')
    <2>1. CASE <<i, j>> \in adjacencyMatrix
      <3>1. Unite(i, j)
        BY <2>1 DEF UnitePair
      <3>2. Processed' = Processed \cup {<<i, j>>}
        BY <1>6, <2>1
      <3>3. Forest(parent', rank')
        BY <1>2, <1>4, <3>1, UniteFacts
      <3>4. RankBound'
        BY <1>1, <1>2, <1>4, <3>1, UniteBalanced
      <3>5. Match(parent', Processed \cup {<<i, j>>})
        BY <1>2, <1>4, <1>7, <3>1, UniteMatches
      <3>6. QED
        BY <3>2, <3>3, <3>4, <3>5
    <2>2. CASE <<i, j>> \notin adjacencyMatrix
      <3>1. UNCHANGED <<parent, rank>>
        BY <1>5, <2>2 DEF UnitePair
      <3>2. Processed' = Processed
        BY <1>6, <2>2
      <3>3. RankBound'
        BY <1>1, <3>1, ForestFrame
      <3>4. QED
        BY <1>2, <1>7, <3>1, <3>2, <3>3
    <2>3. QED
      BY <2>1, <2>2
  <1>9. TypeOK' /\ RankOrder' /\ RootsMatch'
    <2>1. RankOrder' /\ RootsMatch' /\ parent' \in [Txns -> Txns] /\ rank' \in [Txns -> Nat]
      BY <1>8 DEF Forest, RankOrder, RootsMatch, Match
    <2>2. i' \in 0 .. NTxns /\ j' \in 1 .. NTxns + 1
      BY <1>3, <1>4 DEF Txns
    <2>3. QED
      BY <1>1, <1>3, <1>4, <2>1, <2>2 DEF TypeOK, input
  <1>10. InputsSound'
    <2>1. i' < j'
      BY <1>3, <1>4 DEF Txns
    <2>2. QED
      BY <1>1, <1>4, <2>1 DEF InputsSound, input
  <1>11. Grouped' /\ Populated' /\ TableExact' /\ Dealt'
    BY <1>1, <1>3, <1>4 DEF Grouped, Populated, TableExact, Dealt, input
  <1>12. QED
    BY <1>8, <1>9, <1>10, <1>11 DEF IInv

\* The next row of the matrix.
LEMMA NextRowInv ==
  ASSUME IInv, NextRow
  PROVE  IInv'
  <1> USE NTxnsAssumption
  <1>1. TypeOK /\ RankOrder /\ RankBound /\ InputsSound /\ RootsMatch /\ Grouped /\ Dealt
    BY DEF IInv
  <1>2. /\ phase = "unite" /\ phase' = "unite" /\ i' = i + 1
        /\ j' = IF i + 2 < NTxns THEN i + 2 ELSE NTxns
        /\ i \in Nat /\ i < NTxns /\ j \in Nat /\ j >= NTxns
        /\ UNCHANGED <<input, parent, rank, componentsMap, table, assigned>>
    BY <1>1 DEF NextRow, TypeOK
  <1>3. i' \in 0 .. NTxns /\ j' \in 1 .. NTxns + 1 /\ (i' < NTxns => i' < j')
    BY <1>2
  <1>4. TypeOK' /\ InputsSound'
    BY <1>1, <1>2, <1>3 DEF TypeOK, InputsSound, input
  <1>5. Processed' = Processed
    <2>1. Processed' = {e \in adjacencyMatrix : e[1] < i' \/ (e[1] = i' /\ e[2] < j')}
      BY <1>2 DEF Processed, input
    <2>2. Processed = {e \in adjacencyMatrix : e[1] < i \/ (e[1] = i /\ e[2] < j)}
      BY <1>2 DEF Processed
    <2>3. \A e \in adjacencyMatrix : /\ e[1] \in Nat /\ e[2] \in Nat
                                     /\ e[2] < NTxns /\ e[1] < e[2]
      BY <1>1 DEF TypeOK, InputsSound, Txns
    <2>4. \A e \in adjacencyMatrix : e \in Processed' <=> e \in Processed
      BY <1>2, <2>1, <2>2, <2>3
    <2>5. QED
      BY <2>1, <2>2, <2>4
  <1>6. RankOrder' /\ RankBound'
    BY <1>1, <1>2, ForestFrame
  <1>7. RootsMatch'
    BY <1>1, <1>2, <1>5 DEF RootsMatch
  <1>8. Grouped' /\ Populated' /\ TableExact' /\ Dealt'
    BY <1>1, <1>2 DEF Grouped, Populated, TableExact, Dealt, input
  <1>9. QED
    BY <1>4, <1>6, <1>7, <1>8 DEF IInv

\* The end of the first loop nest: every pair has been looked at.
LEMMA StartGroupingInv ==
  ASSUME IInv, StartGrouping
  PROVE  IInv'
  <1> USE NTxnsAssumption
  <1>1. TypeOK /\ RankOrder /\ RankBound /\ InputsSound /\ RootsMatch /\ Grouped /\ Dealt
    BY DEF IInv
  <1>2. /\ phase = "unite" /\ phase' = "group" /\ i' = 0
        /\ i \in Nat /\ i >= NTxns
        /\ UNCHANGED <<input, parent, rank, j, componentsMap, table, assigned>>
    BY <1>1 DEF StartGrouping, TypeOK
  <1>3. TypeOK' /\ InputsSound'
    BY <1>1, <1>2 DEF TypeOK, InputsSound, input
  <1>4. Processed' = Processed
    <2>1. Processed' = adjacencyMatrix
      BY <1>2 DEF Processed, input
    <2>2. Processed = {e \in adjacencyMatrix : e[1] < i \/ (e[1] = i /\ e[2] < j)}
      BY <1>2 DEF Processed
    <2>3. \A e \in adjacencyMatrix : e[1] \in Nat /\ e[1] < NTxns
      BY <1>1 DEF TypeOK, Txns
    <2>4. \A e \in adjacencyMatrix : e[1] < i
      BY <1>2, <2>3
    <2>5. QED
      BY <2>1, <2>2, <2>4
  <1>5. RankOrder' /\ RankBound'
    BY <1>1, <1>2, ForestFrame
  <1>6. RootsMatch'
    BY <1>1, <1>2, <1>4 DEF RootsMatch
  <1>7. Grouped'
    <2>1. componentsMap' = componentsMap /\ DOMAIN componentsMap = {} /\ table' = <<>>
      BY <1>1, <1>2 DEF Grouped
    <2>2. 0 .. i' - 1 = {}
      BY <1>2
    <2>3. QED
      BY <1>2, <2>1, <2>2 DEF Grouped
  <1>8. Populated' /\ TableExact' /\ Dealt'
    BY <1>1, <1>2 DEF Populated, TableExact, Dealt, input
  <1>9. QED
    BY <1>3, <1>5, <1>6, <1>7, <1>8 DEF IInv

\* push_back of a value above all of an ascending list.
LEMMA PushBack ==
  ASSUME NEW list \in Seq(Txns), NEW x \in Txns, Ascending(list),
         \A y \in Range(list) : y < x
  PROVE  /\ Append(list, x) \in Seq(Txns)
         /\ Range(Append(list, x)) = Range(list) \cup {x}
         /\ Ascending(Append(list, x))
  <1> DEFINE new == Append(list, x)
  <1>1. /\ new \in Seq(Txns) /\ DOMAIN list = 1 .. Len(list) /\ Len(list) \in Nat
        /\ DOMAIN new = 1 .. Len(list) + 1
        /\ new[Len(list) + 1] = x /\ (\A k \in 1 .. Len(list) : new[k] = list[k])
    OBVIOUS
  <1> HIDE DEF new
  <1>2. Range(new) = Range(list) \cup {x}
    <2>1. 1 .. Len(list) + 1 = (1 .. Len(list)) \cup {Len(list) + 1}
      BY <1>1
    <2>2. QED
      BY <1>1, <2>1 DEF Range
  <1>3. Ascending(new)
    <2>1. SUFFICES ASSUME NEW a \in DOMAIN new, NEW b \in DOMAIN new, a < b
                   PROVE  new[a] < new[b]
      BY DEF Ascending
    <2>2. a \in 1 .. Len(list) /\ new[a] = list[a] /\ list[a] \in Range(list)
      BY <1>1, <2>1 DEF Range
    <2>3. CASE b \in 1 .. Len(list)
      BY <1>1, <2>1, <2>2, <2>3 DEF Ascending
    <2>4. CASE b = Len(list) + 1
      BY <1>1, <2>2, <2>4
    <2>5. QED
      BY <1>1, <2>3, <2>4
  <1>4. QED
    BY <1>1, <1>2, <1>3 DEF new

\* componentsMap[find(i)].push_back(i), find compressing i's path.
LEMMA GroupInv ==
  ASSUME IInv, Group
  PROVE  IInv'
  <1> USE NTxnsAssumption
  <1>1. TypeOK /\ RankOrder /\ RankBound /\ InputsSound /\ RootsMatch /\ Grouped /\ Dealt
    BY DEF IInv
  <1>2. Forest(parent, rank)
    BY <1>1, IsForest
  <1>3. /\ phase = "group" /\ phase' = "group" /\ i' = i + 1 /\ i \in Txns /\ i \in Nat
        /\ parent' = Compress(parent, i)
        /\ UNCHANGED <<input, rank, j, table, assigned>>
    BY <1>1 DEF Group, TypeOK, Txns
  <1>4. /\ Forest(parent', rank)
        /\ \A y \in Txns : Root(parent', y) = Root(parent, y)
        /\ \A y \in Txns : parent'[y] = y <=> parent[y] = y
    BY <1>2, <1>3, CompressKeeps
  <1>5. RankOrder' /\ parent' \in [Txns -> Txns]
    BY <1>3, <1>4 DEF Forest, RankOrder
  <1>6. RankBound'
    <2>1. SUFFICES ASSUME NEW x \in Txns, parent'[x] = x
                   PROVE  2^rank'[x] <= Cardinality({y \in Txns : Root(parent', y) = x})
      BY DEF RankBound
    <2>2. {y \in Txns : Root(parent', y) = x} = {y \in Txns : Root(parent, y) = x}
      BY <1>4
    <2>3. parent[x] = x /\ rank'[x] = rank[x]
      BY <1>3, <1>4, <2>1
    <2>4. 2^rank[x] <= Cardinality({y \in Txns : Root(parent, y) = x})
      BY <1>1, <2>3 DEF RankBound
    <2>5. QED
      BY <2>2, <2>3, <2>4
  <1>7. RootsMatch'
    <2>1. Processed' = Processed
      BY <1>3 DEF Processed, input
    <2>2. \A x \in Txns : {y \in Txns : Root(parent', y) = Root(parent', x)}
                            = {y \in Txns : Root(parent, y) = Root(parent, x)}
      BY <1>4
    <2>3. QED
      BY <1>1, <2>1, <2>2 DEF RootsMatch
  <1>8. PICK root : root = Root(parent, i)
    OBVIOUS
  <1>9. root \in Txns
    BY <1>2, <1>3, <1>8, Roots
  <1>10. PICK list : list = IF root \in DOMAIN componentsMap THEN componentsMap[root] ELSE <<>>
    OBVIOUS
  <1>11. componentsMap' = [r \in DOMAIN componentsMap \cup {root} |->
                            IF r = root THEN Append(list, i) ELSE componentsMap[r]]
    BY <1>8, <1>10 DEF Group
  <1>12. /\ DOMAIN componentsMap = {Root(parent, x) : x \in 0 .. i - 1}
         /\ \A r \in DOMAIN componentsMap :
              /\ Range(componentsMap[r]) = {x \in Tree(parent, r) : x < i}
              /\ Ascending(componentsMap[r])
    BY <1>1, <1>3 DEF Grouped
  <1>13. /\ list \in Seq(Txns) /\ Ascending(list)
         /\ Range(list) = {x \in Tree(parent, root) : x < i}
    <2>1. CASE root \in DOMAIN componentsMap
      <3>1. list = componentsMap[root]
        BY <1>10, <2>1
      <3>2. QED
        BY <1>1, <1>12, <2>1, <3>1 DEF TypeOK
    <2>2. CASE root \notin DOMAIN componentsMap
      <3>1. list = <<>>
        BY <1>10, <2>2
      <3>2. list \in Seq(Txns) /\ DOMAIN list = {}
        BY <3>1
      <3>3. \A x \in Txns : x < i => x \in 0 .. i - 1
        BY <1>3 DEF Txns
      <3>4. {x \in Tree(parent, root) : x < i} = {}
        BY <1>12, <2>2, <3>3 DEF Tree
      <3>5. QED
        BY <3>2, <3>4 DEF Range, Ascending
    <2>3. QED
      BY <2>1, <2>2
  <1>14. /\ Append(list, i) \in Seq(Txns) /\ Ascending(Append(list, i))
         /\ Range(Append(list, i)) = Range(list) \cup {i}
    BY <1>3, <1>13, PushBack
  <1>15. PICK new : new = Append(list, i)
    OBVIOUS
  <1>16. /\ DOMAIN componentsMap' = DOMAIN componentsMap \cup {root}
         /\ componentsMap'[root] = new
         /\ \A r \in DOMAIN componentsMap \ {root} : componentsMap'[r] = componentsMap[r]
    BY <1>11, <1>15
  <1>17. TypeOK' /\ InputsSound'
    <2>1. DOMAIN componentsMap' \subseteq Txns
      BY <1>1, <1>9, <1>16 DEF TypeOK
    <2>2. \A r \in DOMAIN componentsMap' : componentsMap'[r] \in Seq(Txns)
      BY <1>1, <1>14, <1>15, <1>16 DEF TypeOK
    <2>3. i' \in 0 .. NTxns
      BY <1>3 DEF Txns
    <2>4. QED
      BY <1>1, <1>3, <1>5, <2>1, <2>2, <2>3 DEF TypeOK, InputsSound, input
  <1>18. Grouped'
    <2>1. \A r : Tree(parent', r) = Tree(parent, r)
      BY <1>4 DEF Tree
    <2>2. 0 .. i' - 1 = (0 .. i - 1) \cup {i} /\ 0 .. i - 1 \subseteq Txns
      BY <1>3 DEF Txns
    <2>3. DOMAIN componentsMap' = {Root(parent', x) : x \in 0 .. i' - 1}
      <3>1. {Root(parent', x) : x \in 0 .. i' - 1} = {Root(parent, x) : x \in 0 .. i' - 1}
        BY <1>3, <1>4, <2>2
      <3>2. {Root(parent, x) : x \in 0 .. i' - 1} = {Root(parent, x) : x \in 0 .. i - 1} \cup {root}
        BY <1>8, <2>2
      <3>3. QED
        BY <1>12, <1>16, <3>1, <3>2
    <2>4. ASSUME NEW r \in DOMAIN componentsMap'
          PROVE  /\ Range(componentsMap'[r]) = {x \in Tree(parent', r) : x < i'}
                 /\ Ascending(componentsMap'[r])
      <3>1. \A x \in Txns : x < i' <=> x < i \/ x = i
        BY <1>3 DEF Txns
      <3>2. i \in Tree(parent, root) /\ (r # root => i \notin Tree(parent, r))
        BY <1>3, <1>8 DEF Tree
      <3>3. {x \in Tree(parent, r) : x < i'}
              = {x \in Tree(parent, r) : x < i} \cup (IF r = root THEN {i} ELSE {})
        BY <3>1, <3>2 DEF Tree
      <3>4. CASE r = root
        BY <1>13, <1>14, <1>15, <1>16, <2>1, <3>3, <3>4
      <3>5. CASE r # root
        BY <1>12, <1>16, <2>1, <3>3, <3>5
      <3>6. QED
        BY <3>4, <3>5
    <2>5. table' = <<>> /\ phase' = "group"
      BY <1>1, <1>3 DEF Grouped
    <2>6. QED
      BY <2>3, <2>4, <2>5 DEF Grouped
  <1>19. Populated' /\ TableExact' /\ Dealt'
    BY <1>1, <1>3 DEF Populated, TableExact, Dealt, input
  <1>20. QED
    BY <1>5, <1>6, <1>7, <1>17, <1>18, <1>19 DEF IInv

\* The end of the grouping loop: every tree is in the map.
LEMMA StartPopulatingInv ==
  ASSUME IInv, StartPopulating
  PROVE  IInv'
  <1> USE NTxnsAssumption
  <1>1. TypeOK /\ RankOrder /\ RankBound /\ InputsSound /\ RootsMatch /\ Grouped /\ Dealt
    BY DEF IInv
  <1>2. Forest(parent, rank)
    BY <1>1, IsForest
  <1>3. /\ phase = "group" /\ phase' = "populate" /\ i = NTxns
        /\ UNCHANGED <<input, parent, rank, i, j, componentsMap, table, assigned>>
    BY <1>1 DEF StartPopulating, TypeOK
  <1>4. TypeOK' /\ InputsSound'
    BY <1>1, <1>3 DEF TypeOK, InputsSound, input
  <1>5. RankOrder' /\ RankBound'
    BY <1>1, <1>3, ForestFrame
  <1>6. RootsMatch'
    <2>1. Processed' = Processed
      BY <1>3 DEF Processed, input
    <2>2. QED
      BY <1>1, <1>3, <2>1 DEF RootsMatch
  <1>7. Populated'
    <2>1. 0 .. i - 1 = Txns /\ (\A x \in Txns : x < i)
      BY <1>3 DEF Txns
    <2>2. /\ DOMAIN componentsMap = {Root(parent, x) : x \in Txns}
          /\ \A r \in DOMAIN componentsMap :
               /\ Range(componentsMap[r]) = {x \in Tree(parent, r) : x < i}
               /\ Ascending(componentsMap[r])
          /\ table = <<>>
      BY <1>1, <1>3, <2>1 DEF Grouped
    <2>3. \A r : {x \in Tree(parent, r) : x < i} = Tree(parent, r)
      BY <2>1 DEF Tree
    <2>4. \A x \in Txns : /\ Root(parent, x) \in Txns
                          /\ parent[Root(parent, x)] = Root(parent, x)
                          /\ parent[x] = x => Root(parent, x) = x
      BY <1>2, Roots
    <2>5. \A r \in DOMAIN componentsMap : parent[r] = r
      BY <2>2, <2>4
    <2>6. \A r \in Txns \ DOMAIN componentsMap : parent[r] # r
      BY <2>2, <2>4
    <2>7. DOMAIN table = {}
      BY <2>2
    <2>8. QED
      BY <1>3, <2>2, <2>3, <2>5, <2>6, <2>7 DEF Populated
  <1>8. Grouped' /\ TableExact' /\ Dealt'
    BY <1>1, <1>3 DEF Grouped, TableExact, Dealt, input
  <1>9. QED
    BY <1>4, <1>5, <1>6, <1>7, <1>8 DEF IInv

\* One tree moves from the map to the table.
LEMMA PopulateInv ==
  ASSUME IInv, Populate
  PROVE  IInv'
  <1>1. /\ TypeOK /\ RankOrder /\ RankBound /\ InputsSound /\ RootsMatch
        /\ Grouped /\ Populated /\ Dealt
    BY DEF IInv
  <1>2. Forest(parent, rank)
    BY <1>1, IsForest
  <1>3. /\ phase = "populate" /\ phase' = "populate"
        /\ UNCHANGED <<input, parent, rank, i, j, assigned>>
    BY DEF Populate
  <1>4. PICK r \in DOMAIN componentsMap :
          /\ table' = Append(table, componentsMap[r])
          /\ componentsMap' = [s \in DOMAIN componentsMap \ {r} |-> componentsMap[s]]
    BY DEF Populate
  <1>5. PICK n : n = Len(table)
    OBVIOUS
  <1>6. r \in Txns /\ componentsMap[r] \in Seq(Txns) /\ table \in Seq(Seq(Txns))
    BY <1>1 DEF TypeOK
  <1>7. /\ n \in Nat /\ DOMAIN table = 1 .. n /\ table' \in Seq(Seq(Txns))
        /\ DOMAIN table' = (1 .. n) \cup {n + 1} /\ n + 1 \notin 1 .. n
        /\ table'[n + 1] = componentsMap[r] /\ (\A c \in 1 .. n : table'[c] = table[c])
    BY <1>4, <1>5, <1>6
  <1>8. /\ DOMAIN componentsMap' = DOMAIN componentsMap \ {r}
        /\ \A s \in DOMAIN componentsMap \ {r} : componentsMap'[s] = componentsMap[s]
    BY <1>4
  <1>9. TypeOK' /\ InputsSound'
    <2>1. DOMAIN componentsMap' \subseteq Txns
      BY <1>1, <1>8 DEF TypeOK
    <2>2. \A s \in DOMAIN componentsMap' : componentsMap'[s] \in Seq(Txns)
      BY <1>1, <1>8 DEF TypeOK
    <2>3. QED
      BY <1>1, <1>3, <1>7, <2>1, <2>2 DEF TypeOK, InputsSound, input
  <1>10. RankOrder' /\ RankBound'
    BY <1>1, <1>3, ForestFrame
  <1>11. RootsMatch'
    <2>1. Processed' = Processed
      BY <1>3 DEF Processed, input
    <2>2. QED
      BY <1>1, <1>3, <2>1 DEF RootsMatch
  <1>12. /\ \A s \in DOMAIN componentsMap :
              /\ parent[s] = s
              /\ Range(componentsMap[s]) = Tree(parent, s)
              /\ Ascending(componentsMap[s])
         /\ \A c \in 1 .. n :
              /\ \E s \in Txns \ DOMAIN componentsMap :
                   parent[s] = s /\ Range(table[c]) = Tree(parent, s)
              /\ Ascending(table[c])
              /\ \A d \in 1 .. n : Range(table[c]) = Range(table[d]) => c = d
         /\ \A s \in Txns \ DOMAIN componentsMap :
              parent[s] = s => \E c \in 1 .. n : Range(table[c]) = Tree(parent, s)
    BY <1>1, <1>3, <1>7 DEF Populated
  <1>13. \A s, t \in Txns : parent[s] = s /\ parent[t] = t /\ Tree(parent, s) = Tree(parent, t) => s = t
    <2>1. \A s \in Txns : parent[s] = s => Root(parent, s) = s
      BY <1>2, Roots
    <2>2. QED
      BY <2>1 DEF Tree
  <1>14. \A c \in 1 .. n : Range(table[c]) # Range(componentsMap[r])
    BY <1>6, <1>12, <1>13
  <1>15. \A s \in DOMAIN componentsMap' :
           /\ parent'[s] = s
           /\ Range(componentsMap'[s]) = Tree(parent', s)
           /\ Ascending(componentsMap'[s])
    BY <1>3, <1>8, <1>12
  <1>16. ASSUME NEW c \in DOMAIN table'
         PROVE  /\ \E s \in Txns \ DOMAIN componentsMap' :
                     parent'[s] = s /\ Range(table'[c]) = Tree(parent', s)
                /\ Ascending(table'[c])
                /\ \A d \in DOMAIN table' : Range(table'[c]) = Range(table'[d]) => c = d
    <2>1. CASE c \in 1 .. n
      <3>1. PICK s \in Txns \ DOMAIN componentsMap :
              parent[s] = s /\ Range(table[c]) = Tree(parent, s)
        BY <1>12, <2>1
      <3>2. s \in Txns \ DOMAIN componentsMap'
        BY <1>8
      <3>3. table'[c] = table[c] /\ parent' = parent
        BY <1>3, <1>7, <2>1
      <3>4. \A d \in DOMAIN table' : Range(table'[c]) = Range(table'[d]) => c = d
        BY <1>7, <1>12, <1>14, <2>1, <3>3
      <3>5. QED
        BY <1>12, <2>1, <3>1, <3>2, <3>3, <3>4
    <2>2. CASE c = n + 1
      <3>1. table'[c] = componentsMap[r] /\ parent' = parent
        BY <1>3, <1>7, <2>2
      <3>2. r \in Txns \ DOMAIN componentsMap'
        BY <1>6, <1>8
      <3>3. \A d \in DOMAIN table' : Range(table'[c]) = Range(table'[d]) => c = d
        BY <1>7, <1>14, <2>2, <3>1
      <3>4. QED
        BY <1>12, <3>1, <3>2, <3>3
    <2>3. QED
      BY <1>7, <2>1, <2>2
  <1>17. ASSUME NEW s \in Txns \ DOMAIN componentsMap', parent'[s] = s
         PROVE  \E c \in DOMAIN table' : Range(table'[c]) = Tree(parent', s)
    <2>1. CASE s = r
      BY <1>3, <1>7, <1>12, <2>1
    <2>2. CASE s # r
      <3>1. PICK c \in 1 .. n : Range(table[c]) = Tree(parent, s)
        BY <1>3, <1>8, <1>12, <1>17, <2>2
      <3>2. QED
        BY <1>3, <1>7, <3>1
    <2>3. QED
      BY <2>1, <2>2
  <1>18. Populated'
    BY <1>15, <1>16, <1>17 DEF Populated
  <1>19. Grouped' /\ TableExact' /\ Dealt'
    BY <1>1, <1>3 DEF Grouped, TableExact, Dealt, input
  <1>20. QED
    BY <1>9, <1>10, <1>11, <1>18, <1>19 DEF IInv

\* The map is empty: the table is the partition into components.
LEMMA StartAssigningInv ==
  ASSUME IInv, StartAssigning
  PROVE  IInv'
  <1>1. /\ TypeOK /\ RankOrder /\ RankBound /\ InputsSound /\ RootsMatch
        /\ Grouped /\ Populated /\ Dealt
    BY DEF IInv
  <1>2. Forest(parent, rank)
    BY <1>1, IsForest
  <1>3. /\ phase = "populate" /\ phase' = "assign" /\ DOMAIN componentsMap = {}
        /\ UNCHANGED <<input, parent, rank, i, j, componentsMap, table, assigned>>
    BY DEF StartAssigning
  <1>4. TypeOK' /\ InputsSound'
    BY <1>1, <1>3 DEF TypeOK, InputsSound, input
  <1>5. RankOrder' /\ RankBound'
    BY <1>1, <1>3, ForestFrame
  <1>6. Processed = adjacencyMatrix /\ Processed' = Processed
    BY <1>3 DEF Processed, input
  <1>7. RootsMatch'
    BY <1>1, <1>3, <1>6 DEF RootsMatch
  <1>8. TableExact'
    <2>1. \A x \in Txns : Reachable(adjacencyMatrix, x) = Tree(parent, Root(parent, x))
      BY <1>1, <1>6 DEF RootsMatch, Tree
    <2>2. \A x \in Txns : /\ Root(parent, x) \in Txns
                          /\ parent[Root(parent, x)] = Root(parent, x)
                          /\ parent[x] = x => Root(parent, x) = x
      BY <1>2, Roots
    <2>3. /\ \A c \in DOMAIN table :
               /\ \E r \in Txns : parent[r] = r /\ Range(table[c]) = Tree(parent, r)
               /\ Ascending(table[c])
               /\ \A d \in DOMAIN table : Range(table[c]) = Range(table[d]) => c = d
          /\ \A r \in Txns :
               parent[r] = r => \E c \in DOMAIN table : Range(table[c]) = Tree(parent, r)
      BY <1>1, <1>3 DEF Populated
    <2>4. \A c \in DOMAIN table : \E x \in Txns : Range(table[c]) = Reachable(adjacencyMatrix, x)
      BY <2>1, <2>2, <2>3
    <2>5. \A x \in Txns : \E c \in DOMAIN table : Range(table[c]) = Reachable(adjacencyMatrix, x)
      BY <2>1, <2>2, <2>3
    <2>6. {Range(table[c]) : c \in DOMAIN table} = {Reachable(adjacencyMatrix, x) : x \in Txns}
      BY <2>4, <2>5
    <2>7. TableExact' <=>
            /\ {Range(table[c]) : c \in DOMAIN table} = {Reachable(adjacencyMatrix, x) : x \in Txns}
            /\ \A c, d \in DOMAIN table : Range(table[c]) = Range(table[d]) => c = d
            /\ \A c \in DOMAIN table : Ascending(table[c])
      BY <1>3 DEF TableExact, Ascending, input
    <2>8. QED
      BY <2>3, <2>6, <2>7
  <1>9. Grouped' /\ Populated' /\ Dealt'
    BY <1>1, <1>3 DEF Grouped, Populated, Dealt, input
  <1>10. QED
    BY <1>4, <1>5, <1>7, <1>8, <1>9 DEF IInv

\* The next component goes to the next member.
LEMMA AssignInv ==
  ASSUME IInv, Assign
  PROVE  IInv'
  <1>1. /\ TypeOK /\ RankOrder /\ RankBound /\ InputsSound /\ RootsMatch
        /\ TableExact /\ Dealt
    BY DEF IInv
  <1>2. PICK n, a : n = Len(healthyMemberIds) /\ a = Len(assigned)
    OBVIOUS
  <1>3. /\ phase = "assign" /\ phase' = "assign" /\ n > 0
        /\ assigned' = Append(assigned, healthyMemberIds[(a % n) + 1])
        /\ UNCHANGED <<input, parent, rank, i, j, componentsMap, table>>
    BY <1>2 DEF Assign
  <1>4. /\ n \in Nat /\ a \in Nat /\ assigned \in Seq(MemberIds)
        /\ healthyMemberIds \in [1 .. n -> MemberIds] /\ DOMAIN assigned = 1 .. a
    BY <1>1, <1>2 DEF TypeOK
  <1>5. (a % n) + 1 \in 1 .. n
    BY <1>3, <1>4
  <1>6. PICK m \in MemberIds : m = healthyMemberIds[(a % n) + 1]
    BY <1>4, <1>5
  <1>7. /\ assigned' \in Seq(MemberIds) /\ DOMAIN assigned' = (1 .. a) \cup {a + 1}
        /\ assigned'[a + 1] = m /\ (\A c \in 1 .. a : assigned'[c] = assigned[c])
    BY <1>2, <1>3, <1>4, <1>6
  <1>8. TypeOK' /\ InputsSound'
    BY <1>1, <1>3, <1>7 DEF TypeOK, InputsSound, input
  <1>9. RankOrder' /\ RankBound'
    BY <1>1, <1>3, ForestFrame
  <1>10. RootsMatch' /\ TableExact'
    <2>1. Processed' = Processed
      BY <1>3 DEF Processed, input
    <2>2. QED
      BY <1>1, <1>3, <2>1 DEF RootsMatch, TableExact, input
  <1>11. Dealt'
    <2>1. \A c \in 1 .. a : assigned[c] = healthyMemberIds[((c - 1) % n) + 1]
      BY <1>1, <1>2, <1>4 DEF Dealt
    <2>2. (a + 1) - 1 = a
      BY <1>4
    <2>3. assigned'[a + 1] = healthyMemberIds[(((a + 1) - 1) % n) + 1]
      BY <1>6, <1>7, <2>2
    <2>4. \A c \in DOMAIN assigned' : assigned'[c] = healthyMemberIds[((c - 1) % n) + 1]
      BY <1>7, <2>1, <2>3
    <2>5. healthyMemberIds' = healthyMemberIds /\ Len(healthyMemberIds) = n
      BY <1>2, <1>3 DEF input
    <2>6. QED
      BY <1>3, <2>4, <2>5 DEF Dealt
  <1>12. Grouped' /\ Populated'
    BY <1>3 DEF Grouped, Populated
  <1>13. QED
    BY <1>8, <1>9, <1>10, <1>11, <1>12 DEF IInv

\* assignFollowers returns.
LEMMA AssignReturnInv ==
  ASSUME IInv, AssignReturn
  PROVE  IInv'
  <1>1. /\ TypeOK /\ RankOrder /\ RankBound /\ InputsSound /\ RootsMatch
        /\ TableExact /\ Dealt
    BY DEF IInv
  <1>2. /\ phase = "assign" /\ phase' \in {"done", "noFollower"}
        /\ UNCHANGED <<input, parent, rank, i, j, componentsMap, table, assigned>>
    BY DEF AssignReturn
  <1>3. TypeOK' /\ InputsSound'
    BY <1>1, <1>2 DEF TypeOK, InputsSound, input
  <1>4. RankOrder' /\ RankBound'
    BY <1>1, <1>2, ForestFrame
  <1>5. RootsMatch' /\ TableExact'
    <2>1. Processed' = Processed
      BY <1>2 DEF Processed, input
    <2>2. QED
      BY <1>1, <1>2, <2>1 DEF RootsMatch, TableExact, input
  <1>6. Grouped' /\ Populated' /\ Dealt'
    BY <1>1, <1>2 DEF Grouped, Populated, Dealt, input
  <1>7. QED
    BY <1>3, <1>4, <1>5, <1>6 DEF IInv

\* The invariant is inductive.
LEMMA Step ==
  ASSUME IInv, [Next]_vars
  PROVE  IInv'
  <1>1. CASE UNCHANGED vars
    <2>1. /\ UNCHANGED <<adjacencyMatrix, healthyMemberIds, parent, rank, i, j>>
          /\ UNCHANGED <<componentsMap, table, assigned, phase>>
      BY <1>1 DEF vars
    <2>2. Processed' = Processed
      BY <2>1 DEF Processed
    <2>3. TypeOK' /\ RankOrder' /\ RankBound' /\ InputsSound' /\ RootsMatch'
      BY <2>1, <2>2 DEF IInv, TypeOK, RankOrder, RankBound, InputsSound, RootsMatch
    <2>4. Grouped' /\ Dealt'
      BY <2>1 DEF IInv, Grouped, Dealt
    <2>5. Populated'
      BY <2>1 DEF IInv, Populated
    <2>6. TableExact'
      BY <2>1 DEF IInv, TableExact
    <2>7. QED
      BY <2>3, <2>4, <2>5, <2>6 DEF IInv
  <1>2. QED
    BY <1>1, UnitePairInv, NextRowInv, StartGroupingInv, GroupInv, StartPopulatingInv,
       PopulateInv, StartAssigningInv, AssignInv, AssignReturnInv DEF Next

\* The arrays, the map and the table agree in every state of a run.
THEOREM Invariance == Spec => []IInv
  <1>1. Init => IInv
    BY InitInv
  <1>2. IInv /\ [Next]_vars => IInv'
    BY Step
  <1>3. QED
    BY <1>1, <1>2, PTL DEF Spec

\* Whatever the conflicts, the forest has no cycle and a tree of rank k at least
\* 2^k transactions, so find's recursion returns and is logarithmic.
THEOREM ForestIsBalanced == Spec => []ForestInv
  <1>1. IInv => ForestInv
    BY DEF IInv, ForestInv
  <1>2. QED
    BY <1>1, Invariance, PTL

\* After every pair the trees are the components of the conflicts looked at.
THEOREM TreesAreComponents == Spec => []RootsMatch
  <1>1. IInv => RootsMatch
    BY DEF IInv
  <1>2. QED
    BY <1>1, Invariance, PTL

\* A component given to the k-th member after the first round has a component of
\* the previous round given to the l-th.
LEMMA RoundBefore ==
  ASSUME NEW n \in Nat \ {0}, NEW c \in Nat \ {0}, NEW k \in 1 .. n, NEW l \in 1 .. n,
         (c - 1) % n = k - 1, c # k
  PROVE  /\ (c - n) + (l - k) \in 1 .. c
         /\ (((c - n) + (l - k)) - 1) % n = l - 1
  <1> DEFINE q == (c - 1) \div n
             d == (c - n) + (l - k)
  <1>1. c - 1 \in Nat
    OBVIOUS
  <1>2. q \in Nat /\ c - 1 = q * n + ((c - 1) % n)
    BY <1>1
  <1> HIDE DEF q
  <1>3. c - 1 = q * n + (k - 1)
    BY <1>2
  <1>4. q # 0
    BY <1>3
  <1>5. (q - 1) * n = q * n - n /\ (q - 1) * n \in Nat /\ q - 1 \in Nat
    BY <1>2, <1>4
  <1>6. d - 1 = (q - 1) * n + (l - 1)
    BY <1>2, <1>3, <1>5
  <1>7. d - 1 \in Nat /\ l - 1 \in 0 .. n - 1 /\ d <= c /\ d \in Int
    BY <1>5, <1>6
  <1> HIDE DEF d
  <1>8. (d - 1) % n = l - 1
    <2>1. PICK L \in Nat, Q \in Nat, R \in 0 .. n - 1 : L = d - 1 /\ Q = q - 1 /\ R = l - 1
      BY <1>5, <1>7
    <2>2. L = Q * n + R
      BY <1>6, <2>1
    <2>3. L % n = R
      BY <2>2
    <2>4. QED
      BY <2>1, <2>3
  <1>9. QED
    BY <1>7, <1>8 DEF d

\* The deal is even once it is done.
LEMMA DealIsEven ==
  ASSUME IInv
  PROVE  DealEven
  <1> DEFINE Share(m) == {c \in DOMAIN assigned : assigned[c] = m}
  <1>1. TypeOK /\ InputsSound /\ Dealt
    BY DEF IInv
  <1>2. PICK n, a : n = Len(healthyMemberIds) /\ a = Len(assigned)
    OBVIOUS
  <1>3. /\ n \in Nat /\ a \in Nat
        /\ DOMAIN healthyMemberIds = 1 .. n /\ DOMAIN assigned = 1 .. a
    BY <1>1, <1>2 DEF TypeOK
  <1>4. \A c \in 1 .. a :
          /\ n > 0 /\ (c - 1) % n \in 0 .. n - 1
          /\ assigned[c] = healthyMemberIds[((c - 1) % n) + 1]
    <2>1. TAKE c \in 1 .. a
    <2>2. n > 0 /\ assigned[c] = healthyMemberIds[((c - 1) % n) + 1]
      BY <1>1, <1>2, <1>3 DEF Dealt
    <2>3. QED
      BY <1>3, <2>2
  <1>5. Range(assigned) \subseteq Range(healthyMemberIds)
    <2>1. \A c \in 1 .. a : ((c - 1) % n) + 1 \in 1 .. n
      BY <1>3, <1>4
    <2>2. QED
      BY <1>3, <1>4, <2>1 DEF Range
  <1>6. \A m : IsFiniteSet(Share(m)) /\ Cardinality(Share(m)) \in Nat
    <2>1. TAKE m
    <2>2. IsFiniteSet(1 .. a) /\ Share(m) \in SUBSET (1 .. a)
      BY <1>3, FS_Interval
    <2> HIDE DEF Share
    <2>3. IsFiniteSet(Share(m))
      BY <2>2, FS_Subset
    <2>4. QED
      BY <2>3, FS_CardinalityType
  <1>7. ASSUME NEW k \in 1 .. n, NEW l \in 1 .. n
        PROVE  Cardinality(Share(healthyMemberIds[k])) <= Cardinality(Share(healthyMemberIds[l])) + 1
    <2> DEFINE A == Share(healthyMemberIds[k])
               B == Share(healthyMemberIds[l])
               D == A \ {k}
               f == [c \in D |-> (c - n) + (l - k)]
    <2>1. \A b \in 1 .. n : \A c \in 1 .. a :
            assigned[c] = healthyMemberIds[b] <=> (c - 1) % n = b - 1
      <3>1. TAKE b \in 1 .. n
      <3>2. TAKE c \in 1 .. a
      <3>3. ((c - 1) % n) + 1 \in 1 .. n /\ assigned[c] = healthyMemberIds[((c - 1) % n) + 1]
        BY <1>3, <1>4
      <3>4. assigned[c] = healthyMemberIds[b] <=> ((c - 1) % n) + 1 = b
        BY <1>1, <1>3, <3>3 DEF InputsSound
      <3>5. (c - 1) % n \in 0 .. n - 1
        BY <1>4
      <3>6. QED
        BY <3>4, <3>5
    <2>2. ASSUME NEW c \in D PROVE (c - n) + (l - k) \in B
      <3>1. c \in 1 .. a /\ c # k /\ (c - 1) % n = k - 1
        BY <1>3, <2>1
      <3>2. n \in Nat \ {0} /\ c \in Nat \ {0}
        BY <1>3, <3>1
      <3>3. PICK d : d = (c - n) + (l - k)
        OBVIOUS
      <3>4. d \in 1 .. c /\ (d - 1) % n = l - 1
        BY <3>1, <3>2, <3>3, RoundBefore
      <3>5. d \in 1 .. a
        BY <1>3, <3>1, <3>4
      <3>6. assigned[d] = healthyMemberIds[l]
        BY <2>1, <3>4, <3>5
      <3>7. QED
        BY <1>3, <3>3, <3>5, <3>6
    <2>3. D \subseteq Nat
      BY <1>3
    <2>4. f \in [D -> B]
      BY <2>2
    <2>5. \A c, d \in D : f[c] = f[d] => c = d
      BY <1>3, <2>3
    <2>6. IsFiniteSet(A) /\ IsFiniteSet(B) /\ Cardinality(A) \in Nat /\ Cardinality(B) \in Nat
      BY <1>6
    <2> HIDE DEF f, A, B
    <2>7. f \in Injection(D, B)
      BY <2>4, <2>5 DEF Injection, IsInjective
    <2>8. Cardinality(D) <= Cardinality(B)
      BY <2>6, <2>7, FS_Injection
    <2>9. Cardinality(D) = IF k \in A THEN Cardinality(A) - 1 ELSE Cardinality(A)
      BY <2>6, FS_RemoveElement
    <2>10. Cardinality(A) <= Cardinality(B) + 1
      BY <2>6, <2>8, <2>9
    <2>11. QED
      BY <2>10 DEF A, B
  <1>8. \A m, l \in Range(healthyMemberIds) : Cardinality(Share(m)) <= Cardinality(Share(l)) + 1
    <2> HIDE DEF Share
    <2>1. QED
      BY <1>3, <1>7 DEF Range
  <1>9. QED
    BY <1>5, <1>8 DEF DealEven

\* The stored table is the partition of the block into the components of its
\* conflict graph, each component once and in block order, and the components
\* are dealt out evenly to healthy members.
THEOREM TableIsExact == Spec => []TableInv
  <1>1. IInv => TableInv
    BY DealIsEven DEF IInv, TableInv
  <1>2. QED
    BY <1>1, Invariance, PTL

=============================================================================
