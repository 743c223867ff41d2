------------------------ MODULE BlockProtocolProofs ------------------------
(***************************************************************************)
(* For any cluster, any blocks and any number of crashes: what a follower  *)
(* decides about a block (DecisionInv), that no component has two writers  *)
(* (OneWriter) and that what checkComponents calls done is done            *)
(* (DoneUnlessReassigned).                                                 *)
(***************************************************************************)
EXTENDS BlockProtocol, FiniteSetTheorems, TLAPS

-----------------------------------------------------------------------------
(***************************************************************************)
(* Counting transactions.                                                  *)
(***************************************************************************)
\* The transactions of some components are finitely many.
LEMMA TxnsFinite ==
  ASSUME NEW B \in Blocks, NEW S
  PROVE  /\ IsFiniteSet({x \in DOMAIN B.comp : B.comp[x] \in S})
         /\ Size(B, S) \in Nat
  <1>1. B.comp \in Seq(Nat \ {0})
    BY BlocksAssumption
  <1>2. PICK n \in Nat : DOMAIN B.comp = 1 .. n
    BY <1>1
  <1>3. IsFiniteSet(1 .. n)
    BY FS_Interval
  <1>4. IsFiniteSet({x \in DOMAIN B.comp : B.comp[x] \in S})
    BY <1>2, <1>3, FS_Subset
  <1>5. QED
    BY <1>4, FS_CardinalityType DEF Size

\* No components hold no transaction; disjoint ones add up; and those that hold as
\* many as the whole block are all of them.
LEMMA SizeFacts ==
  ASSUME NEW B \in Blocks
  PROVE  /\ Size(B, {}) = 0
         /\ \A S, T : S \cap T = {} => Size(B, S \cup T) = Size(B, S) + Size(B, T)
         /\ \A S : Size(B, S) = Size(B, Comps(B)) => Comps(B) \subseteq S
  <1> DEFINE In(S) == {x \in DOMAIN B.comp : B.comp[x] \in S}
  <1>1. \A S : IsFiniteSet(In(S)) /\ Size(B, S) = Cardinality(In(S)) /\ Size(B, S) \in Nat
    BY TxnsFinite DEF Size
  <1>2. Size(B, {}) = 0
    <2>1. In({}) = {}
      OBVIOUS
    <2>2. QED
      BY <1>1, <2>1, FS_EmptySet
  <1>3. ASSUME NEW S, NEW T, S \cap T = {} PROVE Size(B, S \cup T) = Size(B, S) + Size(B, T)
    <2>1. In(S \cup T) = In(S) \cup In(T) /\ In(S) \cap In(T) = {}
      BY <1>3
    <2>2. Cardinality(In(S) \cup In(T)) =
            Cardinality(In(S)) + Cardinality(In(T)) - Cardinality(In(S) \cap In(T))
      BY <1>1, FS_Union
    <2>3. Cardinality(In(S) \cap In(T)) = 0
      BY <2>1, FS_EmptySet
    <2>4. Size(B, S \cup T) = Cardinality(In(S) \cup In(T))
      BY <1>1, <2>1
    <2>5. /\ Size(B, S) = Cardinality(In(S)) /\ Size(B, S) \in Nat
          /\ Size(B, T) = Cardinality(In(T)) /\ Size(B, T) \in Nat
      BY <1>1
    <2> HIDE DEF In
    <2>6. QED
      BY <2>2, <2>3, <2>4, <2>5
  <1>4. ASSUME NEW S, Size(B, S) = Size(B, Comps(B)) PROVE Comps(B) \subseteq S
    <2>1. In(Comps(B)) = DOMAIN B.comp
      BY DEF Comps, Range
    <2>2. In(S) \in SUBSET In(Comps(B))
      BY <2>1
    <2>3. Cardinality(In(S)) = Cardinality(In(Comps(B)))
      BY <1>1, <1>4
    <2>4. In(Comps(B)) = In(S)
      BY <1>1, <2>2, <2>3, FS_Subset
    <2>5. QED
      BY <2>1, <2>4 DEF Comps, Range
  <1>5. QED
    BY <1>2, <1>3, <1>4

\* Some block number is the largest.
LEMMA LargestExists ==
  ASSUME NEW n \in Nat, NEW T \in SUBSET (1 .. n), T # {}
  PROVE  \E b \in T : \A d \in T : d <= b
  <1> DEFINE U == {b .. n : b \in T}
  <1>1. \A b \in T : b \in Int /\ b <= n /\ b .. n \in SUBSET (1 .. n) /\ IsFiniteSet(b .. n)
    BY FS_Interval
  <1>2. U \subseteq FiniteSubsetsOf(1 .. n) /\ U # {}
    BY <1>1 DEF FiniteSubsetsOf
  <1>3. IsWellFoundedOn(StrictSubsetOrdering(1 .. n), FiniteSubsetsOf(1 .. n))
    BY FS_StrictSubsetOrderingWellFounded
  <1>4. PICK s \in U : \A r \in U : <<r, s>> \notin StrictSubsetOrdering(1 .. n)
    <2> HIDE DEF U
    <2> QED
      BY <1>2, <1>3, WFMin
  <1>5. PICK b \in T : s = b .. n
    OBVIOUS
  <1>6. ASSUME NEW d \in T PROVE d <= b
    <2>1. SUFFICES ASSUME b < d PROVE FALSE
      BY <1>1
    <2>2. d .. n \in U
      OBVIOUS
    <2>3. d .. n \subseteq s /\ b \in s /\ b \notin d .. n
      BY <1>1, <1>5, <2>1
    <2>4. <<d .. n, s>> \in StrictSubsetOrdering(1 .. n)
      BY <1>1, <1>5, <2>3 DEF StrictSubsetOrdering
    <2>5. QED
      BY <1>4, <2>2, <2>4
  <1>7. QED
    BY <1>6

\* A finite set of at most one table holds no two.
LEMMA OneTable ==
  ASSUME NEW T, IsFiniteSet(T), Cardinality(T) <= 1, NEW s \in T, NEW t \in T
  PROVE  s = t
  <1>1. Cardinality(T) \in Nat
    BY FS_CardinalityType
  <1>2. Cardinality(T) # 0
    BY FS_EmptySet
  <1>3. Cardinality(T) = 1
    BY <1>1, <1>2
  <1>4. PICK x : T = {x}
    BY <1>3, FS_Singleton
  <1>5. QED
    BY <1>4

\* A larger finite set of tables does not get fewer.
LEMMA TablesGrow ==
  ASSUME NEW T, IsFiniteSet(T), NEW t
  PROVE  /\ IsFiniteSet(T \cup {t})
         /\ Cardinality(T \cup {t}) <= 1 => Cardinality(T) <= 1
  <1>1. IsFiniteSet(T \cup {t})
    BY FS_AddElement
  <1>2. Cardinality(T) <= Cardinality(T \cup {t})
    BY <1>1, FS_Subset
  <1>3. Cardinality(T) \in Nat /\ Cardinality(T \cup {t}) \in Nat
    BY <1>1, FS_CardinalityType
  <1>4. QED
    BY <1>1, <1>2, <1>3

\* A table for the components of a block is a table.
LEMMA FullTable ==
  ASSUME NEW B \in Blocks
  PROVE  [Comps(B) -> Members] \subseteq Tables /\ Comps(B) \subseteq CompIds
  BY DEF Tables, CompIds

\* The members: LeaderId is one of them and s0 is another or the same.
LEMMA MemberFacts ==
  /\ 0 \in Members /\ Members \subseteq Nat /\ Followers \subseteq Members
  /\ NMembers \in Nat /\ NBlocks \in Nat /\ MaxCrashes \in Nat
  /\ IsFiniteSet(Members) /\ Cardinality(Members) = NMembers
  /\ IsFiniteSet(Followers)
  <1>1. NMembers \in Nat /\ NMembers >= 2 /\ NBlocks \in Nat /\ MaxCrashes \in Nat
    BY MembersAssumption, BoundsAssumption
  <1>2. 0 \in Members /\ Members \subseteq Nat /\ Followers \subseteq Members
    BY <1>1 DEF Members, Followers
  <1>3. IsFiniteSet(0 .. NMembers - 1) /\ Cardinality(0 .. NMembers - 1) = NMembers
    <2>1. PICK m \in Int : m = NMembers - 1
      BY <1>1
    <2>2. IsFiniteSet(0 .. m) /\ Cardinality(0 .. m) = IF 0 > m THEN 0 ELSE m - 0 + 1
      BY FS_Interval
    <2>3. QED
      BY <1>1, <2>1, <2>2
  <1>4. IsFiniteSet(Followers)
    BY <1>2, <1>3, FS_Subset DEF Members
  <1>5. QED
    BY <1>1, <1>2, <1>3, <1>4 DEF Members

-----------------------------------------------------------------------------
(***************************************************************************)
(* What a step that leaves a part of the state alone preserves.            *)
(***************************************************************************)
\* The leader's part, by a step of a follower.
LEMMA KeepLeader ==
  ASSUME LeaderAt, Up' # {},
         UNCHANGED <<content, lpc, num, attempt, healthy, table, serialized, poll, completed,
                     LatestBlock, mon, monTable, restarts>>
  PROVE  LeaderAt'
  BY DEF LeaderAt, Producing, Unstored, Stopped

\* A follower stays up unless it goes down.
LEMMA KeepUp ==
  ASSUME Up # {}, fpc \in [Followers -> STRING],
         \A f \in Followers : fpc'[f] = "down" => fpc[f] = "down"
  PROVE  Up' # {}
  BY DEF Up, Alive

\* The followers' part, by a step of the leader.
LEMMA KeepFollowers ==
  ASSUME FollowerAt, UNCHANGED <<block, content, fpc, fnum, fattempt, fcomps>>
  PROVE  FollowerAt'
  BY DEF FollowerAt

\* What followers were given, by a step of the leader that puts no table.
LEMMA KeepGiven ==
  ASSUME Given, UNCHANGED <<components, data, tables, fpc, fnum, fcomps>>
  PROVE  Given'
  BY DEF Given, GivenTo

\* What the counts are of, by a step of the leader that puts nothing.
LEMMA KeepCounted ==
  ASSUME Counted, restarts' = 0 => restarts = 0,
         lpc' \in {"start", "poll"} \/ Stopped' => lpc \in {"start", "poll"} \/ Stopped,
         UNCHANGED <<block, run, components, status, data, tables, content, attempt, num,
                     fpc, fnum, fattempt, fcomps>>
  PROVE  Counted'
  <1>1. CASE restarts' # 0
    BY <1>1 DEF Counted
  <1>2. CASE restarts' = 0
    BY <1>2 DEF Counted
  <1>3. QED
    BY <1>1, <1>2

\* What followers may decide, by a step that leaves the keys and the followers alone.
LEMMA KeepDecided ==
  ASSUME Decided, DecisionSound, restarts' = 0 => restarts = 0,
         UNCHANGED <<run, commit, mode, decision, fpc, fnum>>,
         restarts' = 0 => \A b \in Nums : run[b] = "finish" =>
           b <= LatestBlock' \/ (b = num' /\ lpc' \in {"commit1", "store"}),
         Producing' /\ lpc' \notin {"block", "wait", "commit0"} => commit[num'] # ""
  PROVE  Decided' /\ DecisionSound'
  <1>1. Decided'
    BY DEF Decided
  <1>2. DecisionSound'
    BY DEF DecisionSound
  <1>3. QED
    BY <1>1, <1>2

\* The sum of checkComponents, by a step that neither polls nor stores a table.
LEMMA KeepPolled ==
  ASSUME Polled, restarts' = 0 => restarts = 0, UNCHANGED <<num, content, tables, poll, completed>>,
         lpc' = "poll" => lpc = "poll", Stopped' => Stopped,
         num # 0 => \A g \in Followers : status[num][g] # None => status'[num][g] # None
  PROVE  Polled'
  BY DEF Polled

-----------------------------------------------------------------------------
\* main starts with no block and every follower idle.
LEMMA InitIInv == Init => IInv
  <1> SUFFICES ASSUME Init PROVE IInv
    OBVIOUS
  <1>0. NMembers \in Nat /\ NMembers >= 2 /\ NBlocks \in Nat /\ MaxCrashes \in Nat
    BY MembersAssumption, BoundsAssumption
  <1>a. /\ content = <<>> /\ attempt = 0 /\ num = 0 /\ LatestBlock = 0 /\ poll = 0
        /\ completed = 0 /\ active = 0 /\ crashes = 0 /\ restarts = 0
        /\ lpc = "idle" /\ mon = "off" /\ healthy = {} /\ ids = <<>>
        /\ memberOrder \in Orders /\ mode \in Modes
    BY DEF Init
  <1>b. /\ block = [b \in Nums |-> 0]
        /\ run = [b \in Nums |-> ""] /\ commit = [b \in Nums |-> ""]
        /\ components = [b \in Nums |-> NoTable]
        /\ status = [b \in Nums |-> [f \in Followers |-> None]]
        /\ table = NoTable /\ serialized = NoTable /\ monTable = NoTable
    BY DEF Init
  <1>c. data = [b \in Nums |-> [f \in Followers |-> [attempt |-> 0, done |-> {}]]]
    BY DEF Init
  <1>d. /\ fpc = [f \in Followers |-> "idle"] /\ fnum = [f \in Followers |-> 0]
        /\ fattempt = [f \in Followers |-> 0] /\ fcomps = [f \in Followers |-> {}]
        /\ fstored = [f \in Followers |-> {}]
        /\ decision = [b \in Nums |-> [f \in Followers |-> ""]]
        /\ tables = [b \in Nums |-> {}]
    BY DEF Init
  <1>1. TypeOK
    <2>0. 0 \in 0 .. attempt /\ 0 \in 0 .. NBlocks
      BY <1>0, <1>a
    <2>1. /\ block \in [Nums -> 0 .. attempt]
          /\ run \in [Nums -> {"", "wait", "start", "finish"}]
          /\ commit \in [Nums -> {"", "0", "1"}]
          /\ components \in [Nums -> Tables]
          /\ status \in [Nums -> [Followers -> Nat \cup {None}]]
      BY <1>b, <2>0 DEF Tables
    <2>2. data \in [Nums -> [Followers -> [attempt : 0 .. attempt, done : SUBSET CompIds]]]
      BY <1>a, <1>c
    <2>3. \A b \in Nums, f \in Followers : data[b][f].attempt = 0
      BY <1>c
    <2>4. /\ content \in Seq(Blocks) /\ Len(content) = attempt
          /\ attempt \in 0 .. NBlocks + MaxCrashes
      BY <1>0, <1>a
    <2>5. /\ num \in 0 .. NBlocks /\ LatestBlock \in 0 .. NBlocks
          /\ healthy \subseteq Members /\ ids \in Seq(Members) /\ active \in 0 .. NMembers
          /\ poll \in 0 .. NMembers /\ completed \in Nat
      BY <1>0, <1>a
    <2>6. table \in Tables /\ serialized \in Tables /\ monTable \in Tables
      BY <1>b DEF Tables
    <2>7. /\ fpc \in [Followers -> {"idle", "run", "block", "components", "execute", "data",
                                    "status", "finish", "commit", "store", "down"}]
          /\ fnum \in [Followers -> 0 .. NBlocks]
          /\ fattempt \in [Followers -> 0 .. attempt]
      BY <1>d, <2>0
    <2>8. fcomps \in [Followers -> SUBSET CompIds] /\ fstored \in [Followers -> SUBSET Nums]
      BY <1>d
    <2>9. /\ decision \in [Nums -> [Followers -> {"", "save", "reset"}]]
          /\ tables \in [Nums -> SUBSET Tables]
      BY <1>d
    <2>10. crashes \in Nat /\ restarts \in Nat /\ crashes + restarts <= MaxCrashes
      BY <1>0, <1>a
    <2>11. QED
      BY <1>a, <2>1, <2>2, <2>3, <2>4, <2>5, <2>6, <2>7, <2>8, <2>9, <2>10 DEF TypeOK
  <1>2. LeaderAt
    <2>1. Followers # {}
      BY <1>0, MembersAssumption DEF Followers, Members
    <2>2. Up # {}
      BY <1>d, <2>1 DEF Up, Alive
    <2>3. QED
      BY <1>a, <2>2 DEF LeaderAt, Producing, Unstored, Stopped
  <1>3. FollowerAt
    BY DEF Init, FollowerAt
  <1>4. Given
    BY FS_EmptySet DEF Init, Given
  <1>5. Decided /\ DecisionSound
    BY DEF Init, Decided, DecisionSound, Producing
  <1>6. Counted
    BY DEF Init, Counted, Stopped
  <1>7. Polled
    BY DEF Init, Polled
  <1>8. QED
    BY <1>1, <1>2, <1>3, <1>4, <1>5, <1>6, <1>7 DEF IInv

-----------------------------------------------------------------------------
(***************************************************************************)
(* The leader's own steps.                                                 *)
(***************************************************************************)
\* The counters are numbers, and every attempt has a block.
LEMMA Numbers ==
  ASSUME TypeOK
  PROVE  /\ attempt \in Nat /\ num \in Nat /\ LatestBlock \in Nat /\ restarts \in Nat
         /\ crashes \in Nat /\ crashes + restarts <= MaxCrashes
         /\ NBlocks \in Nat /\ MaxCrashes \in Nat
         /\ num <= NBlocks /\ LatestBlock <= NBlocks
         /\ content \in Seq(Blocks) /\ Len(content) = attempt
         /\ \A a \in 1 .. attempt : content[a] \in Blocks
  <1>1. /\ attempt \in 0 .. NBlocks + MaxCrashes
        /\ num \in 0 .. NBlocks /\ LatestBlock \in 0 .. NBlocks
        /\ crashes \in Nat /\ restarts \in Nat /\ crashes + restarts <= MaxCrashes
    BY DEF TypeOK
  <1>2. content \in Seq(Blocks) /\ Len(content) = attempt
    BY DEF TypeOK
  <1>3. NBlocks \in Nat /\ MaxCrashes \in Nat
    BY BoundsAssumption
  <1>4. attempt \in Nat /\ num \in Nat /\ LatestBlock \in Nat /\ num <= NBlocks /\ LatestBlock <= NBlocks
    BY <1>1, <1>3
  <1>5. QED
    BY <1>1, <1>2, <1>3, <1>4

\* The blocks of earlier attempts stay.
LEMMA ContentGrows ==
  ASSUME TypeOK, NEW B \in Blocks, content' = Append(content, B)
  PROVE  /\ content' \in Seq(Blocks) /\ Len(content') = attempt + 1
         /\ content'[attempt + 1] = B
         /\ \A a \in 1 .. attempt : content'[a] = content[a]
  <1>1. content \in Seq(Blocks) /\ Len(content) = attempt /\ attempt \in Nat
    BY Numbers
  <1>2. QED
    BY <1>1

\* A new attempt at the next block.
LEMMA ProduceStep ==
  ASSUME IInv, Produce
  PROVE  IInv'
  <1>0. TypeOK /\ LeaderAt /\ FollowerAt /\ Given /\ Decided /\ DecisionSound /\ Counted
    BY DEF IInv
  <1>1. /\ lpc = "idle" /\ lpc' = "block" /\ LatestBlock < NBlocks
        /\ num' = LatestBlock + 1 /\ attempt' = attempt + 1
        /\ healthy' \in HealthReports
    BY DEF Produce
  <1>2. PICK B \in Blocks : content' = Append(content, B) /\ table' = [c \in Comps(B) |-> 0]
    BY DEF Produce
  <1>3. /\ UNCHANGED <<memberOrder, mode, crashes, restarts>>
        /\ UNCHANGED <<block, run, commit, components, status, data>>
        /\ UNCHANGED <<ids, active, serialized, poll, completed, LatestBlock, mon, monTable>>
        /\ UNCHANGED <<fpc, fnum, fattempt, fcomps, fstored, decision, tables>>
    BY DEF Produce, envVars, etcd, monitorVars, followerVars
  <1>4. /\ content' \in Seq(Blocks) /\ Len(content') = attempt + 1
        /\ content'[attempt + 1] = B
        /\ \A a \in 1 .. attempt : content'[a] = content[a]
    BY <1>0, <1>2, ContentGrows
  <1>5. /\ attempt \in Nat /\ num \in Nat /\ LatestBlock \in Nat /\ restarts \in Nat
        /\ crashes \in Nat /\ crashes + restarts <= MaxCrashes
        /\ NBlocks \in Nat /\ MaxCrashes \in Nat
    BY <1>0, Numbers
  <1>6. ~Producing /\ ~Stopped
    BY <1>1 DEF Producing, Stopped
  <1>7. healthy' \subseteq Members /\ healthy' # {}
    BY <1>0, <1>1, MemberFacts DEF HealthReports, Up, LeaderAt
  <1>8. table' \in [Comps(B) -> Members]
    BY <1>2, MemberFacts
  <1>9. \A k \in 0 .. attempt : k \in 0 .. attempt' /\ (k # 0 => k \in 1 .. attempt)
    BY <1>1, <1>5
  <1>10. TypeOK'
    <2>1. attempt' \in 0 .. NBlocks + MaxCrashes
      BY <1>0, <1>1, <1>5, <1>6 DEF LeaderAt, Unstored
    <2>2. block' \in [Nums -> 0 .. attempt'] /\ fattempt' \in [Followers -> 0 .. attempt']
      <3>1. block \in [Nums -> 0 .. attempt] /\ fattempt \in [Followers -> 0 .. attempt]
        BY <1>0 DEF TypeOK
      <3>2. QED
        BY <1>3, <1>9, <3>1
    <2>3. data' \in [Nums -> [Followers -> [attempt : 0 .. attempt', done : SUBSET CompIds]]]
      <3>1. data \in [Nums -> [Followers -> [attempt : 0 .. attempt, done : SUBSET CompIds]]]
        BY <1>0 DEF TypeOK
      <3>2. [attempt : 0 .. attempt, done : SUBSET CompIds]
              \subseteq [attempt : 0 .. attempt', done : SUBSET CompIds]
        BY <1>9
      <3>3. QED
        BY <1>3, <3>1, <3>2
    <2>4. \A b \in Nums, f \in Followers : data'[b][f].attempt # 0 =>
            data'[b][f].done \subseteq Comps(content'[data'[b][f].attempt])
      <3>1. \A b \in Nums, f \in Followers : data[b][f].attempt \in 0 .. attempt
        BY <1>0 DEF TypeOK
      <3>2. QED
        BY <1>0, <1>3, <1>4, <1>9, <3>1 DEF TypeOK
    <2>5. num' \in 0 .. NBlocks
      BY <1>1, <1>5
    <2>6. table' \in Tables
      BY <1>8, FullTable
    <2>7. content' \in Seq(Blocks) /\ Len(content') = attempt'
      BY <1>1, <1>4
    <2>8. QED
      BY <1>0, <1>1, <1>3, <1>7, <2>1, <2>2, <2>3, <2>4, <2>5, <2>6, <2>7 DEF TypeOK
  <1>11. LeaderAt'
    <2>1. Up' # {}
      BY <1>0, <1>3 DEF LeaderAt, Up, Alive
    <2>2. Producing' /\ Unstored' = 1
      BY <1>1 DEF Producing, Unstored
    <2>3. mon' = "off" /\ poll' = 0 /\ completed' = 0
      BY <1>0, <1>1, <1>3, <1>6 DEF LeaderAt, TypeOK
    <2>4. attempt' <= LatestBlock' + restarts' + Unstored'
      BY <1>0, <1>1, <1>3, <1>5, <1>6, <2>2 DEF LeaderAt, Unstored
    <2>5. restarts' = 0 => attempt' = LatestBlock' + Unstored'
      BY <1>0, <1>1, <1>3, <1>5, <1>6, <2>2 DEF LeaderAt, Unstored
    <2>6. attempt' # 0 /\ table' \in [Comps(content'[attempt']) -> Members]
      BY <1>1, <1>4, <1>5, <1>8
    <2>7. QED
      BY <1>1, <1>3, <1>7, <2>1, <2>3, <2>4, <2>5, <2>6 DEF LeaderAt
  <1>12. FollowerAt'
    <2>1. \A f \in Followers : fattempt[f] \in 0 .. attempt
      BY <1>0 DEF TypeOK
    <2>2. QED
      BY <1>0, <1>3, <1>4, <1>9, <2>1 DEF FollowerAt
  <1>13. Given'
    BY <1>0, <1>3, KeepGiven
  <1>14. Decided' /\ DecisionSound'
    BY <1>0, <1>1, <1>3, KeepDecided DEF Decided
  <1>15. Counted'
    <2>1. SUFFICES ASSUME restarts = 0 PROVE Counted'
      BY <1>3 DEF Counted
    <2>2. \A b \in Nums : \A t \in tables[b] : b \in 1 .. attempt /\ DOMAIN t = Comps(content[b])
      BY <1>0, <1>5, <2>1 DEF Counted, Nums
    <2>3. \A b \in Nums : \A t \in tables[b] :
            b <= attempt' /\ DOMAIN t = Comps(content'[b]) /\ content'[b] = content[b]
      BY <1>1, <1>4, <1>5, <2>2
    <2>4. ~Stopped' /\ lpc' \notin {"start", "poll"}
      BY <1>1 DEF Stopped
    <2>5. QED
      BY <1>0, <1>3, <2>1, <2>3, <2>4 DEF Counted
  <1>16. Polled'
    BY <1>1 DEF Polled, Stopped
  <1>17. QED
    BY <1>10, <1>11, <1>12, <1>13, <1>14, <1>15, <1>16 DEF IInv

\* Where the leader can be.
LeaderPlaces == {"idle", "block", "wait", "commit0", "assign", "components", "start",
                 "poll", "finish", "commit1", "store", "join", "down"}

\* A step of the leader that puts nothing keeps the invariant when it keeps the
\* leader's part of it and passes no point where a key must have been put.
LEMMA LocalFrame ==
  ASSUME IInv,
         UNCHANGED <<memberOrder, mode, block, run, commit, components, status, data, content,
                     attempt, num, fpc, fnum, fattempt, fcomps, fstored, decision, tables>>,
         lpc' \in LeaderPlaces, mon' \in {"off", "loop", "put"},
         LatestBlock' \in 0 .. NBlocks, poll' \in 0 .. NMembers, completed' \in Nat,
         healthy' \subseteq Members, ids' \in Seq(Members), active' \in 0 .. NMembers,
         table' \in Tables, serialized' \in Tables, monTable' \in Tables,
         crashes' \in Nat, restarts' \in Nat, crashes' + restarts' <= MaxCrashes,
         restarts' = 0 => restarts = 0,
         lpc' \in {"start", "poll"} \/ Stopped' => lpc \in {"start", "poll"} \/ Stopped,
         restarts' = 0 => \A b \in Nums : run[b] = "finish" =>
           b <= LatestBlock' \/ (b = num /\ lpc' \in {"commit1", "store"}),
         Producing' /\ lpc' \notin {"block", "wait", "commit0"} => commit[num] # "",
         LeaderAt', Polled'
  PROVE  IInv'
  <1>0. TypeOK /\ FollowerAt /\ Given /\ Decided /\ DecisionSound /\ Counted
    BY DEF IInv
  <1>1. TypeOK'
    BY <1>0 DEF TypeOK, LeaderPlaces
  <1>2. FollowerAt' /\ Given'
    BY <1>0, KeepFollowers, KeepGiven
  <1>3. Decided' /\ DecisionSound'
    BY <1>0, KeepDecided
  <1>4. Counted'
    BY <1>0, KeepCounted
  <1>5. QED
    BY <1>1, <1>2, <1>3, <1>4 DEF IInv

\* assignFollowers deals every component to a healthy member.
LEMMA AssignStep ==
  ASSUME IInv, AssignFollowers
  PROVE  IInv'
  <1>0. TypeOK /\ LeaderAt /\ Decided /\ Polled
    BY DEF IInv
  <1>1. PICK hm \in [1 .. Cardinality(healthy) -> healthy] :
          /\ ids' = hm /\ active' = Len(hm)
          /\ table' = [c \in DOMAIN table |-> hm[((c - 1) % Len(hm)) + 1]]
    BY DEF AssignFollowers
  <1>2. lpc = "assign" /\ lpc' = "components" /\ serialized' = table'
    BY DEF AssignFollowers
  <1>3. /\ UNCHANGED <<memberOrder, mode, crashes, restarts>>
        /\ UNCHANGED <<block, run, commit, components, status, data>>
        /\ UNCHANGED <<content, num, attempt, healthy, poll, completed, LatestBlock>>
        /\ UNCHANGED <<mon, monTable, fpc, fnum, fattempt, fcomps, fstored, decision, tables>>
    BY DEF AssignFollowers, envVars, etcd, monitorVars, followerVars
  <1>4. Producing /\ Producing' /\ ~Stopped'
    BY <1>2 DEF Producing, Stopped
  <1>5. healthy # {} /\ healthy \subseteq Members
    BY <1>0, <1>4 DEF LeaderAt, TypeOK
  <1>6. PICK n \in Nat \ {0} : n = Cardinality(healthy) /\ n <= NMembers
    <2>1. IsFiniteSet(healthy) /\ Cardinality(healthy) <= NMembers
      BY <1>5, MemberFacts, FS_Subset
    <2>2. QED
      BY <1>5, <2>1, FS_EmptySet, FS_CardinalityType
  <1>7. hm \in Seq(Members) /\ Len(hm) = n /\ \A k \in 1 .. n : hm[k] \in Members
    BY <1>5, <1>6
  <1>8. attempt \in 1 .. attempt /\ content[attempt] \in Blocks
    BY <1>0, <1>4, Numbers DEF LeaderAt
  <1>9. Comps(content[attempt]) \subseteq Nat \ {0}
    BY <1>8, BlocksAssumption DEF Comps, Range
  <1>10. \A c \in Nat \ {0} : ((c - 1) % n) + 1 \in 1 .. n
    OBVIOUS
  <1>11. table \in [Comps(content[attempt]) -> Members]
    BY <1>0, <1>4 DEF LeaderAt
  <1>12. table' \in [Comps(content[attempt]) -> Members]
    BY <1>1, <1>7, <1>9, <1>10, <1>11
  <1>13. table' \in Tables
    BY <1>8, <1>12, FullTable
  <1>14. LeaderAt'
    <2>1. Up' # {}
      BY <1>0, <1>3 DEF LeaderAt, Up, Alive
    <2>2. QED
      BY <1>0, <1>2, <1>3, <1>4, <1>12, <2>1 DEF LeaderAt, Unstored
  <1>15. Polled'
    BY <1>2, <1>4 DEF Polled
  <1>16. active' \in 0 .. NMembers
    BY <1>1, <1>6, <1>7, MemberFacts
  <1>17. /\ monTable' \in Tables /\ poll' \in 0 .. NMembers /\ completed' \in Nat
         /\ LatestBlock' \in 0 .. NBlocks /\ mon' \in {"off", "loop", "put"}
         /\ crashes' \in Nat /\ restarts' \in Nat /\ crashes' + restarts' <= MaxCrashes
    BY <1>0, <1>3 DEF TypeOK
  <1>18. /\ commit[num] # ""
         /\ (restarts' = 0 => \A b \in Nums : run[b] = "finish" => b <= LatestBlock')
    BY <1>0, <1>2, <1>3, <1>4 DEF Decided
  <1>19. lpc' \in LeaderPlaces
    BY <1>2 DEF LeaderPlaces
  <1>20. QED
    BY <1>1, <1>2, <1>3, <1>4, <1>5, <1>7, <1>13, <1>14, <1>15, <1>16, <1>17, <1>18, <1>19,
       LocalFrame

\* While the leader's process lives, the attempt is the block's number.
LEMMA OneAttempt ==
  ASSUME IInv, restarts = 0, Producing \/ lpc = "join"
  PROVE  /\ num = attempt /\ num \in Nums /\ num # 0 /\ num \in 1 .. attempt
         /\ content[num] \in Blocks
  <1>0. TypeOK /\ LeaderAt
    BY DEF IInv
  <1>1. /\ attempt \in Nat /\ num \in Nat /\ LatestBlock \in Nat /\ NBlocks \in Nat
        /\ num <= NBlocks /\ \A a \in 1 .. attempt : content[a] \in Blocks
    BY <1>0, Numbers
  <1>2. ~(Producing /\ lpc = "join")
    BY DEF Producing
  <1>3. num = attempt /\ num # 0
    BY <1>0, <1>1, <1>2 DEF LeaderAt, Unstored
  <1>4. QED
    BY <1>1, <1>3 DEF Nums

\* A step that leaves the leader's types alone, up to its poll.
LEMMA LeaderTypes ==
  ASSUME TypeOK
  PROVE  /\ healthy \subseteq Members /\ ids \in Seq(Members) /\ active \in 0 .. NMembers
         /\ table \in Tables /\ serialized \in Tables /\ monTable \in Tables
         /\ LatestBlock \in 0 .. NBlocks /\ mon \in {"off", "loop", "put"}
         /\ crashes \in Nat /\ restarts \in Nat /\ crashes + restarts <= MaxCrashes
         /\ poll \in 0 .. NMembers /\ completed \in Nat /\ lpc \in LeaderPlaces
  BY DEF TypeOK, LeaderPlaces

\* checkComponents adds one follower's count: the components the one table gives it,
\* which no follower read before was given.
LEMMA PollMemberStep ==
  ASSUME IInv, PollMember
  PROVE  IInv'
  <1>0. TypeOK /\ LeaderAt /\ Decided /\ Counted /\ Polled /\ Given
    BY DEF IInv
  <1>1. /\ lpc = "poll" /\ poll < NMembers /\ poll' = poll + 1
        /\ completed' = IF poll \in Followers /\ status[num][poll] # None
                          THEN completed + status[num][poll] ELSE completed
    BY DEF PollMember
  <1>2. /\ UNCHANGED <<memberOrder, mode, crashes, restarts>>
        /\ UNCHANGED <<block, run, commit, components, status, data>>
        /\ UNCHANGED <<content, lpc, num, attempt, healthy, ids, active, table, serialized,
                       LatestBlock>>
        /\ UNCHANGED <<mon, monTable, fpc, fnum, fattempt, fcomps, fstored, decision, tables>>
    BY DEF PollMember, envVars, etcd, monitorVars, followerVars
  <1>3. Producing /\ ~Stopped
    BY <1>1 DEF Producing, Stopped
  <1>4. poll' \in 0 .. NMembers /\ poll \in Nat
    BY <1>0, <1>1, LeaderTypes, MemberFacts
  <1>5. num \in Nums
    <2>1. num \in Nat /\ LatestBlock \in Nat /\ num <= NBlocks /\ NBlocks \in Nat
      BY <1>0, Numbers
    <2>2. QED
      BY <1>0, <1>3, <2>1 DEF LeaderAt, Nums
  <1>6. completed \in Nat /\ completed' \in Nat
    <2>1. status[num] \in [Followers -> Nat \cup {None}]
      BY <1>0, <1>5 DEF TypeOK
    <2>2. completed \in Nat
      BY <1>0, LeaderTypes
    <2>3. QED
      BY <1>1, <2>1, <2>2
  <1>7. LeaderAt'
    <2>1. Up' # {}
      BY <1>0, <1>2 DEF LeaderAt, Up, Alive
    <2>2. QED
      BY <1>0, <1>1, <1>2, <2>1 DEF LeaderAt, Producing, Unstored, Stopped
  <1>8. Polled'
    <2>1. SUFFICES ASSUME restarts = 0, Cardinality(tables[num]) <= 1, NEW t \in tables[num]
                   PROVE  \E Q \in SUBSET Followers :
                            /\ \A g \in Q : g < poll' /\ status[num][g] # None
                            /\ completed' = Size(content[num], {c \in DOMAIN t : t[c] \in Q})
      BY <1>2, <1>3 DEF Polled, Stopped
    <2>2. /\ num = attempt /\ num # 0 /\ content[num] \in Blocks
      BY <1>3, <2>1, OneAttempt
    <2>3. PICK Q \in SUBSET Followers :
            /\ \A g \in Q : g < poll /\ status[num][g] # None
            /\ completed = Size(content[num], {c \in DOMAIN t : t[c] \in Q})
      BY <1>0, <1>1, <2>1, <2>2 DEF Polled
    <2>4. \A g \in Q : g < poll'
      <3>1. \A g \in Q : g \in Nat
        BY MemberFacts
      <3>2. QED
        BY <1>1, <1>4, <2>3, <3>1
    <2>5. CASE ~(poll \in Followers /\ status[num][poll] # None)
      BY <1>1, <2>3, <2>4, <2>5
    <2>6. CASE poll \in Followers /\ status[num][poll] # None
      <3>1. PICK s \in tables[num] : status[num][poll] = Size(content[num], Assigned(s, poll))
        BY <1>0, <1>5, <2>1, <2>6 DEF Counted
      <3>2. s = t
        <4>1. IsFiniteSet(tables[num])
          BY <1>0, <1>5 DEF Given
        <4>2. QED
          BY <2>1, <4>1, OneTable
      <3>3. completed' = completed + Size(content[num], Assigned(t, poll))
        BY <1>1, <2>6, <3>1, <3>2
      <3>4. poll \notin Q
        BY <1>4, <2>3
      <3>5. {c \in DOMAIN t : t[c] \in Q} \cap Assigned(t, poll) = {}
        BY <3>4 DEF Assigned
      <3>6. {c \in DOMAIN t : t[c] \in Q \cup {poll}} =
              {c \in DOMAIN t : t[c] \in Q} \cup Assigned(t, poll)
        BY DEF Assigned
      <3>7. completed' = Size(content[num], {c \in DOMAIN t : t[c] \in Q \cup {poll}})
        BY <2>2, <2>3, <3>3, <3>5, <3>6, SizeFacts
      <3>8. Q \cup {poll} \in SUBSET Followers /\ poll < poll'
        BY <1>1, <1>4, <2>6
      <3>9. QED
        BY <2>3, <2>4, <2>6, <3>7, <3>8
    <2>7. QED
      BY <2>5, <2>6
  <1>9. /\ (Producing => commit[num] # "")
        /\ (restarts = 0 => \A b \in Nums : run[b] = "finish" => b <= LatestBlock)
    BY <1>0, <1>1, <1>3 DEF Decided
  <1>10. /\ healthy' \subseteq Members /\ ids' \in Seq(Members) /\ active' \in 0 .. NMembers
         /\ table' \in Tables /\ serialized' \in Tables /\ monTable' \in Tables
         /\ LatestBlock' \in 0 .. NBlocks /\ mon' \in {"off", "loop", "put"}
         /\ crashes' \in Nat /\ restarts' \in Nat /\ crashes' + restarts' <= MaxCrashes
         /\ lpc' \in LeaderPlaces
    BY <1>0, <1>2, LeaderTypes
  <1>11. QED
    BY <1>1, <1>2, <1>3, <1>4, <1>6, <1>7, <1>8, <1>9, <1>10, LocalFrame

\* checkComponents returns when the sum is the block's size: every component is then
\* among those counted.  Otherwise it starts again from zero.
LEMMA PollEndStep ==
  ASSUME IInv, PollEnd
  PROVE  IInv'
  <1>0. TypeOK /\ LeaderAt /\ Decided /\ Counted /\ Polled
    BY DEF IInv
  <1>1. /\ lpc = "poll" /\ poll' = 0 /\ completed' = 0
        /\ lpc' = IF completed = Size(content[attempt], Comps(content[attempt]))
                    THEN "finish" ELSE "poll"
    BY DEF PollEnd
  <1>2. /\ UNCHANGED <<memberOrder, mode, crashes, restarts>>
        /\ UNCHANGED <<block, run, commit, components, status, data>>
        /\ UNCHANGED <<content, num, attempt, healthy, ids, active, table, serialized,
                       LatestBlock>>
        /\ UNCHANGED <<mon, monTable, fpc, fnum, fattempt, fcomps, fstored, decision, tables>>
    BY DEF PollEnd, envVars, etcd, monitorVars, followerVars
  <1>3. Producing /\ Producing' /\ lpc' \in {"finish", "poll"}
    BY <1>1 DEF Producing
  <1>4. LeaderAt'
    <2>1. Up' # {}
      BY <1>0, <1>2 DEF LeaderAt, Up, Alive
    <2>2. mon' # "off" => lpc' \in {"assign", "components", "start", "poll"} \/ Stopped'
      BY <1>3 DEF Stopped
    <2>3. QED
      BY <1>0, <1>1, <1>2, <1>3, <2>1, <2>2 DEF LeaderAt, Unstored
  <1>5. Polled'
    <2>1. SUFFICES ASSUME restarts = 0, Cardinality(tables[num]) <= 1, NEW t \in tables[num]
                   PROVE  /\ lpc' = "poll" => \E Q \in SUBSET Followers :
                               /\ \A g \in Q : g < poll' /\ status[num][g] # None
                               /\ completed' = Size(content[num], {c \in DOMAIN t : t[c] \in Q})
                          /\ lpc' = "finish" => \A c \in DOMAIN t :
                               t[c] \in Followers /\ status[num][t[c]] # None
      BY <1>2, <1>3 DEF Polled, Stopped
    <2>2. num = attempt /\ num # 0 /\ num \in Nums /\ content[num] \in Blocks
      BY <1>3, <2>1, OneAttempt
    <2>3. lpc' = "poll" => \E Q \in SUBSET Followers :
            /\ \A g \in Q : g < poll' /\ status[num][g] # None
            /\ completed' = Size(content[num], {c \in DOMAIN t : t[c] \in Q})
      <3>1. {c \in DOMAIN t : t[c] \in {}} = {}
        OBVIOUS
      <3>2. completed' = Size(content[num], {c \in DOMAIN t : t[c] \in {}})
        BY <1>1, <2>2, <3>1, SizeFacts
      <3>3. QED
        BY <3>2
    <2>4. ASSUME lpc' = "finish"
          PROVE  \A c \in DOMAIN t : t[c] \in Followers /\ status[num][t[c]] # None
      <3>1. PICK Q \in SUBSET Followers :
              /\ \A g \in Q : status[num][g] # None
              /\ completed = Size(content[num], {c \in DOMAIN t : t[c] \in Q})
        BY <1>0, <1>1, <2>1, <2>2 DEF Polled
      <3>2. Size(content[num], {c \in DOMAIN t : t[c] \in Q})
              = Size(content[num], Comps(content[num]))
        BY <1>1, <2>2, <2>4, <3>1
      <3>3. Comps(content[num]) \subseteq {c \in DOMAIN t : t[c] \in Q}
        BY <2>2, <3>2, SizeFacts
      <3>4. DOMAIN t = Comps(content[num])
        BY <1>0, <2>1, <2>2 DEF Counted
      <3>5. QED
        BY <3>1, <3>3, <3>4
    <2>5. QED
      BY <2>3, <2>4
  <1>6. /\ commit[num] # ""
        /\ (restarts = 0 => \A b \in Nums : run[b] = "finish" => b <= LatestBlock)
    BY <1>0, <1>1, <1>3 DEF Decided
  <1>7. /\ healthy' \subseteq Members /\ ids' \in Seq(Members) /\ active' \in 0 .. NMembers
        /\ table' \in Tables /\ serialized' \in Tables /\ monTable' \in Tables
        /\ LatestBlock' \in 0 .. NBlocks /\ mon' \in {"off", "loop", "put"}
        /\ crashes' \in Nat /\ restarts' \in Nat /\ crashes' + restarts' <= MaxCrashes
    BY <1>0, <1>2, LeaderTypes
  <1>8. lpc' \in LeaderPlaces /\ poll' \in 0 .. NMembers /\ completed' \in Nat
    BY <1>1, <1>3, MemberFacts DEF LeaderPlaces
  <1>9. QED
    BY <1>1, <1>2, <1>3, <1>4, <1>5, <1>6, <1>7, <1>8, LocalFrame

\* The block is stored, or the monitor joined: the leader's number is the latest.
LEMMA StoreStep ==
  ASSUME IInv, StoreBlock \/ JoinMonitor
  PROVE  IInv'
  <1>0. TypeOK /\ LeaderAt /\ Decided /\ Counted /\ Polled
    BY DEF IInv
  <1>1. /\ UNCHANGED <<memberOrder, mode, crashes, restarts>>
        /\ UNCHANGED <<block, run, commit, components, status, data>>
        /\ UNCHANGED <<content, num, attempt, active, serialized, poll, completed>>
        /\ UNCHANGED <<mon, monTable, fpc, fnum, fattempt, fcomps, fstored, decision, tables>>
    BY DEF StoreBlock, JoinMonitor, envVars, etcd, monitorVars, followerVars
  <1>2. /\ attempt \in Nat /\ num \in Nat /\ LatestBlock \in Nat /\ restarts \in Nat
        /\ NBlocks \in Nat /\ num <= NBlocks
    BY <1>0, Numbers
  <1>3. Up' # {}
    BY <1>0, <1>1 DEF LeaderAt, Up, Alive
  <1>4. /\ active' \in 0 .. NMembers /\ serialized' \in Tables /\ monTable' \in Tables
        /\ mon' \in {"off", "loop", "put"} /\ poll' \in 0 .. NMembers /\ completed' \in Nat
        /\ crashes' \in Nat /\ restarts' \in Nat /\ crashes' + restarts' <= MaxCrashes
    BY <1>0, <1>1, LeaderTypes
  <1>5. CASE StoreBlock
    <2>1. lpc = "store" /\ lpc' = "join" /\ LatestBlock' = num /\ UNCHANGED <<healthy, ids, table>>
      BY <1>5 DEF StoreBlock
    <2>2. Producing /\ ~Producing' /\ Stopped /\ Stopped'
      BY <2>1 DEF Producing, Stopped
    <2>3. num = LatestBlock + 1
      BY <1>0, <2>2 DEF LeaderAt
    <2>4. LeaderAt'
      <3>1. Unstored = 1 /\ Unstored' = 0
        BY <2>2 DEF Unstored
      <3>2. attempt' <= LatestBlock' + restarts' + Unstored'
            /\ (restarts' = 0 => attempt' = LatestBlock' + Unstored')
        BY <1>0, <1>1, <1>2, <2>1, <2>3, <3>1 DEF LeaderAt
      <3>3. QED
        BY <1>0, <1>1, <1>2, <1>3, <2>1, <2>2, <2>3, <3>2 DEF LeaderAt
    <2>5. Polled'
      BY <1>0, <1>1, <2>1, <2>2, KeepPolled
    <2>6. restarts = 0 => \A b \in Nums : run[b] = "finish" => b <= LatestBlock'
      <3>1. \A b \in Nums : b \in Nat
        BY DEF Nums
      <3>2. restarts = 0 => \A b \in Nums : run[b] = "finish" => b <= LatestBlock \/ b = num
        BY <1>0 DEF Decided
      <3>3. QED
        BY <1>2, <2>1, <2>3, <3>1, <3>2
    <2>7. healthy' \subseteq Members /\ ids' \in Seq(Members) /\ table' \in Tables
      BY <1>0, <2>1, LeaderTypes
    <2>8. lpc' \in LeaderPlaces /\ LatestBlock' \in 0 .. NBlocks
      BY <1>2, <2>1 DEF LeaderPlaces
    <2>9. QED
      BY <1>1, <1>4, <2>1, <2>2, <2>4, <2>5, <2>6, <2>7, <2>8, LocalFrame
  <1>6. CASE JoinMonitor
    <2>1. /\ lpc = "join" /\ lpc' = "idle" /\ mon = "off" /\ UNCHANGED LatestBlock
          /\ healthy' = {} /\ ids' = <<>> /\ table' = NoTable
      BY <1>6 DEF JoinMonitor
    <2>2. ~Producing /\ ~Producing' /\ ~Stopped' /\ lpc # "poll"
      BY <2>1 DEF Producing, Stopped
    <2>3. LeaderAt'
      <3>1. Unstored = Unstored'
        BY <2>2 DEF Unstored
      <3>2. QED
        BY <1>0, <1>1, <1>3, <2>1, <2>2, <3>1 DEF LeaderAt
    <2>4. Polled'
      BY <2>1, <2>2 DEF Polled
    <2>5. restarts = 0 => \A b \in Nums : run[b] = "finish" => b <= LatestBlock'
      BY <1>0, <2>1 DEF Decided
    <2>6. healthy' \subseteq Members /\ ids' \in Seq(Members) /\ table' \in Tables
      BY <2>1 DEF Tables
    <2>7. lpc' \in LeaderPlaces /\ LatestBlock' \in 0 .. NBlocks
      BY <1>0, <2>1, LeaderTypes DEF LeaderPlaces
    <2>8. QED
      BY <1>1, <1>4, <2>1, <2>2, <2>3, <2>4, <2>5, <2>6, <2>7, LocalFrame
  <1>7. QED
    BY <1>5, <1>6

-----------------------------------------------------------------------------
(***************************************************************************)
(* The monitor, and crashes of the leader's process.                       *)
(***************************************************************************)
\* A pass of the monitor's loop deals out the same components again, or nothing.
LEMMA MonitorScanStep ==
  ASSUME IInv, MonitorScan \/ MonitorIdle
  PROVE  IInv'
  <1>0. TypeOK /\ LeaderAt /\ Decided /\ Counted /\ Polled
    BY DEF IInv
  <1>1. /\ UNCHANGED <<memberOrder, mode, crashes, restarts>>
        /\ UNCHANGED <<block, run, commit, components, status, data>>
        /\ UNCHANGED <<content, lpc, num, attempt, ids, serialized, poll, completed, LatestBlock>>
        /\ UNCHANGED <<fpc, fnum, fattempt, fcomps, fstored, decision, tables>>
    BY DEF MonitorScan, MonitorIdle, envVars, etcd, followerVars
  <1>2. mon = "loop" /\ ~Stopped
    BY DEF MonitorScan, MonitorIdle
  <1>3. lpc \in {"assign", "components", "start", "poll"}
    BY <1>0, <1>2 DEF LeaderAt
  <1>4. Producing
    BY <1>3 DEF Producing
  <1>5. PICK report \in HealthReports :
          /\ healthy' = healthy \cup report
          /\ \/ Cardinality(report) < active /\ Cardinality(report) > 0 /\ active' = Cardinality(report)
             \/ UNCHANGED active
    BY DEF MonitorScan, MonitorIdle
  <1>6. report \subseteq Followers
    BY <1>5 DEF HealthReports, Up
  <1>7. /\ ids \in Seq(Members) /\ serialized \in Tables /\ poll \in 0 .. NMembers
        /\ completed \in Nat /\ LatestBlock \in 0 .. NBlocks /\ lpc \in LeaderPlaces
        /\ crashes \in Nat /\ restarts \in Nat /\ crashes + restarts <= MaxCrashes
        /\ healthy \subseteq Members /\ active \in 0 .. NMembers
        /\ monTable \in Tables /\ mon \in {"off", "loop", "put"}
    BY <1>0, LeaderTypes
  <1>8. healthy' \subseteq Members
    BY <1>5, <1>6, <1>7, MemberFacts
  <1>9. active' \in 0 .. NMembers
    <2>1. IsFiniteSet(report)
      BY <1>6, MemberFacts, FS_Subset
    <2>2. Cardinality(report) \in Nat
      BY <2>1, FS_CardinalityType
    <2>3. QED
      BY <1>5, <1>7, <2>2, MemberFacts
  <1>10. attempt \in 1 .. attempt /\ content[attempt] \in Blocks
    BY <1>0, <1>4, Numbers DEF LeaderAt
  <1>11. /\ table' \in [Comps(content[attempt]) -> Members]
         /\ \/ mon' = "put" /\ monTable' = table'
            \/ UNCHANGED <<mon, monTable>>
    <2>1. table \in [Comps(content[attempt]) -> Members]
      BY <1>0, <1>4 DEF LeaderAt
    <2>2. CASE MonitorScan
      <3>1. PICK t \in [DOMAIN table -> Members] :
              /\ table' = t
              /\ (mon' = "put" /\ monTable' = t) \/ UNCHANGED <<mon, monTable>>
        BY <2>2 DEF MonitorScan
      <3>2. QED
        BY <2>1, <3>1
    <2>3. CASE MonitorIdle
      BY <2>1, <2>3 DEF MonitorIdle, monitorVars
    <2>4. QED
      BY <2>2, <2>3
  <1>12. table' \in Tables /\ monTable' \in Tables /\ mon' \in {"off", "loop", "put"}
    <2>1. table' \in Tables
      BY <1>10, <1>11, FullTable
    <2>2. QED
      BY <1>7, <1>11, <2>1
  <1>13. LeaderAt'
    <2>1. Up' # {}
      BY <1>0, <1>1 DEF LeaderAt, Up, Alive
    <2>2. healthy' # {}
      BY <1>0, <1>4, <1>5 DEF LeaderAt
    <2>3. mon' = "put" => monTable' \in [Comps(content[attempt]) -> Members]
      BY <1>0, <1>2, <1>11
    <2>4. QED
      BY <1>0, <1>1, <1>3, <1>11, <2>1, <2>2, <2>3 DEF LeaderAt, Producing, Unstored
  <1>14. Polled'
    BY <1>0, <1>1, KeepPolled DEF Stopped
  <1>15. /\ commit[num] # ""
         /\ (restarts = 0 => \A b \in Nums : run[b] = "finish" => b <= LatestBlock)
    BY <1>0, <1>3, <1>4 DEF Decided
  <1>16. lpc' \in {"start", "poll"} \/ Stopped' => lpc \in {"start", "poll"} \/ Stopped
    BY <1>1 DEF Stopped
  <1>17. QED
    BY <1>1, <1>7, <1>8, <1>9, <1>12, <1>13, <1>14, <1>15, <1>16, LocalFrame

\* The monitor leaves its loop.
LEMMA MonitorStopStep ==
  ASSUME IInv, MonitorStop
  PROVE  IInv'
  <1>0. TypeOK /\ LeaderAt /\ Decided /\ Counted /\ Polled
    BY DEF IInv
  <1>1. /\ UNCHANGED <<memberOrder, mode, crashes, restarts>>
        /\ UNCHANGED <<block, run, commit, components, status, data>>
        /\ UNCHANGED <<content, lpc, num, attempt, healthy, ids, active, table, serialized,
                       poll, completed, LatestBlock>>
        /\ UNCHANGED <<monTable, fpc, fnum, fattempt, fcomps, fstored, decision, tables>>
        /\ mon' = "off"
    BY DEF MonitorStop, envVars, etcd, leaderVars, followerVars
  <1>2. Up' # {}
    BY <1>0, <1>1 DEF LeaderAt, Up, Alive
  <1>3. LeaderAt'
    BY <1>0, <1>1, <1>2 DEF LeaderAt, Producing, Unstored
  <1>4. Polled'
    BY <1>0, <1>1, KeepPolled DEF Stopped
  <1>5. Stopped' <=> Stopped
    BY <1>1 DEF Stopped
  <1>6. Producing' <=> Producing
    BY <1>1 DEF Producing
  <1>7. /\ (Producing /\ lpc \notin {"block", "wait", "commit0"} => commit[num] # "")
        /\ (restarts = 0 => \A b \in Nums : run[b] = "finish" =>
             b <= LatestBlock \/ (b = num /\ lpc \in {"commit1", "store"}))
    BY <1>0 DEF Decided
  <1>8. /\ healthy' \subseteq Members /\ ids' \in Seq(Members) /\ active' \in 0 .. NMembers
        /\ table' \in Tables /\ serialized' \in Tables /\ monTable' \in Tables
        /\ LatestBlock' \in 0 .. NBlocks /\ mon' \in {"off", "loop", "put"}
        /\ crashes' \in Nat /\ restarts' \in Nat /\ crashes' + restarts' <= MaxCrashes
        /\ poll' \in 0 .. NMembers /\ completed' \in Nat /\ lpc' \in LeaderPlaces
    BY <1>0, <1>1, LeaderTypes
  <1>9. QED
    BY <1>1, <1>3, <1>4, <1>5, <1>6, <1>7, <1>8, LocalFrame

\* The leader's process dies and is started again, with nothing but LatestBlock.
LEMMA LeaderCrashStep ==
  ASSUME IInv, LeaderCrash \/ LeaderRestart
  PROVE  IInv'
  <1>0. TypeOK /\ LeaderAt /\ Decided /\ Counted /\ Polled
    BY DEF IInv
  <1>1. /\ UNCHANGED <<memberOrder, mode, crashes>>
        /\ UNCHANGED <<block, run, commit, components, status, data>>
        /\ UNCHANGED <<content, num, attempt, LatestBlock>>
        /\ UNCHANGED <<monTable, fpc, fnum, fattempt, fcomps, fstored, decision, tables>>
    BY DEF LeaderCrash, LeaderRestart, envVars, etcd, followerVars, monitorVars
  <1>2. /\ attempt \in Nat /\ LatestBlock \in Nat /\ restarts \in Nat /\ crashes \in Nat
        /\ MaxCrashes \in Nat /\ crashes + restarts <= MaxCrashes
    BY <1>0, Numbers
  <1>3. Up' # {}
    BY <1>0, <1>1 DEF LeaderAt, Up, Alive
  <1>4. /\ healthy \subseteq Members /\ ids \in Seq(Members) /\ active \in 0 .. NMembers
        /\ table \in Tables /\ serialized \in Tables /\ monTable \in Tables
        /\ LatestBlock \in 0 .. NBlocks /\ poll \in 0 .. NMembers /\ completed \in Nat
    BY <1>0, LeaderTypes
  <1>5. CASE LeaderCrash
    <2>1. /\ lpc' = "down" /\ mon' = "off" /\ restarts' = restarts + 1
          /\ crashes + restarts < MaxCrashes
          /\ UNCHANGED <<healthy, ids, active, table, serialized, poll, completed>>
      BY <1>5 DEF LeaderCrash
    <2>2. ~Producing' /\ ~Stopped' /\ restarts' # 0
      BY <1>2, <2>1 DEF Producing, Stopped
    <2>3. attempt' <= LatestBlock' + restarts' + Unstored'
      BY <1>0, <1>1, <1>2, <2>1, <2>2 DEF LeaderAt, Unstored
    <2>4. LeaderAt'
      BY <1>3, <2>1, <2>2, <2>3 DEF LeaderAt
    <2>5. Polled'
      BY <2>2 DEF Polled
    <2>6. restarts' \in Nat /\ crashes' + restarts' <= MaxCrashes /\ lpc' \in LeaderPlaces
      BY <1>1, <1>2, <2>1 DEF LeaderPlaces
    <2>7. QED
      BY <1>1, <1>2, <1>4, <2>1, <2>2, <2>4, <2>5, <2>6, LocalFrame
  <1>6. CASE LeaderRestart
    <2>1. /\ lpc = "down" /\ lpc' = "idle" /\ UNCHANGED <<mon, restarts>>
          /\ healthy' = {} /\ ids' = <<>> /\ active' = 0 /\ table' = NoTable
          /\ serialized' = NoTable /\ poll' = 0 /\ completed' = 0
      BY <1>6 DEF LeaderRestart, envVars, monitorVars
    <2>2. ~Producing /\ ~Producing' /\ ~Stopped /\ ~Stopped'
      BY <2>1 DEF Producing, Stopped
    <2>3. mon = "off" /\ restarts # 0
      BY <1>0, <2>1, <2>2 DEF LeaderAt
    <2>4. LeaderAt'
      BY <1>0, <1>1, <1>3, <2>1, <2>2, <2>3 DEF LeaderAt, Unstored
    <2>5. Polled'
      BY <2>1, <2>3 DEF Polled
    <2>6. /\ healthy' \subseteq Members /\ ids' \in Seq(Members) /\ active' \in 0 .. NMembers
          /\ table' \in Tables /\ serialized' \in Tables /\ lpc' \in LeaderPlaces
          /\ poll' \in 0 .. NMembers /\ completed' \in Nat /\ mon' \in {"off", "loop", "put"}
      BY <2>1, <2>3, MemberFacts DEF Tables, LeaderPlaces
    <2>7. QED
      BY <1>1, <1>2, <1>4, <2>1, <2>2, <2>3, <2>4, <2>5, <2>6, LocalFrame
  <1>7. QED
    BY <1>5, <1>6

-----------------------------------------------------------------------------
(***************************************************************************)
(* The leader's puts.                                                      *)
(***************************************************************************)
\* What every put of the leader leaves alone.
unput == <<memberOrder, mode, crashes, restarts, status, data, content, num, attempt, healthy,
           ids, active, table, serialized, poll, completed, LatestBlock, monTable, fpc, fnum,
           fattempt, fcomps, fstored, decision>>

\* The leader goes from one put to the next.
LEMMA PutLeaderAt ==
  ASSUME IInv, UNCHANGED unput,
         Producing /\ lpc # "poll",
         lpc' \in {"wait", "commit0", "assign", "start", "poll", "commit1", "store"},
         mon' # "off" => /\ lpc' \in {"assign", "start", "poll", "commit1", "store"}
                         /\ mon' = mon \/ mon' = "loop"
  PROVE  LeaderAt'
  <1>0. LeaderAt
    BY DEF IInv
  <1>1. /\ UNCHANGED <<restarts, content, num, attempt, healthy, table, serialized>>
        /\ UNCHANGED <<poll, completed, LatestBlock, monTable, fpc>>
    BY DEF unput
  <1>2. Producing' /\ lpc # "down"
    BY DEF Producing
  <1>3. Up' # {}
    BY <1>0, <1>1 DEF LeaderAt, Up, Alive
  <1>4. poll' = 0 /\ completed' = 0
    BY <1>0, <1>1, <1>2 DEF LeaderAt
  <1>5. mon' # "off" => lpc' \in {"assign", "components", "start", "poll"} \/ Stopped'
    BY DEF Stopped
  <1>6. mon' = "put" => monTable' \in [Comps(content'[attempt']) -> Members]
    BY <1>0, <1>1 DEF LeaderAt
  <1>7. /\ num' = LatestBlock' + 1 /\ healthy' # {} /\ attempt' # 0
        /\ table' \in [Comps(content'[attempt']) -> Members]
        /\ attempt' <= LatestBlock' + restarts' + Unstored'
        /\ restarts' = 0 => attempt' = LatestBlock' + Unstored'
    BY <1>0, <1>1, <1>2 DEF LeaderAt, Unstored
  <1>8. QED
    BY <1>2, <1>3, <1>4, <1>5, <1>6, <1>7 DEF LeaderAt

\* The types after a put.
LEMMA PutTypes ==
  ASSUME TypeOK, UNCHANGED unput, lpc' \in LeaderPlaces, mon' \in {"off", "loop", "put"},
         block' \in [Nums -> 0 .. attempt], run' \in [Nums -> {"", "wait", "start", "finish"}],
         commit' \in [Nums -> {"", "0", "1"}], components' \in [Nums -> Tables],
         tables' \in [Nums -> SUBSET Tables]
  PROVE  TypeOK'
  BY DEF TypeOK, unput, LeaderPlaces

\* The block key.
LEMMA PutBlockStep ==
  ASSUME IInv, PutBlock
  PROVE  IInv'
  <1>0. TypeOK /\ LeaderAt /\ FollowerAt /\ Given /\ Decided /\ DecisionSound /\ Counted
    BY DEF IInv
  <1>1. /\ lpc = "block" /\ lpc' = "wait" /\ block' = [block EXCEPT ![num] = attempt]
        /\ UNCHANGED <<run, commit, components, tables, mon>> /\ UNCHANGED unput
    BY DEF PutBlock, LeaderPut, envVars, monitorVars, followerVars, unput
  <1>2. /\ UNCHANGED <<restarts, content, num, attempt, LatestBlock, mode, status, data>>
        /\ UNCHANGED <<fpc, fnum, fattempt, fcomps, decision>>
    BY <1>1 DEF unput
  <1>3. Producing /\ ~Stopped'
    BY <1>1 DEF Producing, Stopped
  <1>4. mon = "off"
    BY <1>0, <1>1 DEF LeaderAt, Stopped
  <1>5. block \in [Nums -> 0 .. attempt] /\ attempt \in Nat /\ attempt # 0
    <2>1. block \in [Nums -> 0 .. attempt]
      BY <1>0 DEF TypeOK
    <2>2. QED
      BY <1>0, <1>3, <2>1, Numbers DEF LeaderAt
  <1>6. block' \in [Nums -> 0 .. attempt]
        /\ \A b \in Nums : block'[b] = IF b = num THEN attempt ELSE block[b]
    <2>1. attempt \in 0 .. attempt
      BY <1>5
    <2>2. block' \in [Nums -> 0 .. attempt]
      BY <1>1, <1>5, <2>1
    <2>3. \A b \in Nums : block'[b] = IF b = num THEN attempt ELSE block[b]
      BY <1>1, <1>5
    <2>4. QED
      BY <2>2, <2>3
  <1>7. LeaderAt'
    BY <1>1, <1>3, <1>4, PutLeaderAt
  <1>8. TypeOK'
    <2>1. /\ run' \in [Nums -> {"", "wait", "start", "finish"}]
          /\ commit' \in [Nums -> {"", "0", "1"}] /\ components' \in [Nums -> Tables]
          /\ tables' \in [Nums -> SUBSET Tables]
      BY <1>0, <1>1 DEF TypeOK
    <2>2. QED
      BY <1>0, <1>1, <1>4, <1>6, <2>1, PutTypes DEF LeaderPlaces
  <1>9. FollowerAt'
    BY <1>0, <1>2, <1>5, <1>6 DEF FollowerAt
  <1>10. Given'
    BY <1>0, <1>1, <1>2, KeepGiven
  <1>11. Decided' /\ DecisionSound'
    BY <1>0, <1>1, <1>2, KeepDecided DEF Decided
  <1>12. Counted'
    <2>1. SUFFICES ASSUME restarts = 0 PROVE Counted'
      BY <1>2 DEF Counted
    <2>2. num = attempt
      BY <1>3, <2>1, OneAttempt
    <2>3. \A b \in Nums : block'[b] \in {0, b}
      BY <1>0, <1>6, <2>1, <2>2 DEF Counted
    <2>4. QED
      BY <1>0, <1>1, <1>2, <1>3, <2>1, <2>3 DEF Counted
  <1>13. Polled'
    BY <1>1, <1>3 DEF Polled
  <1>14. QED
    BY <1>7, <1>8, <1>9, <1>10, <1>11, <1>12, <1>13 DEF IInv

\* The run key.  No follower has acted on a finish of this block before.
LEMMA PutRunStep ==
  ASSUME IInv, PutRunWait \/ PutRunStart \/ PutRunFinish
  PROVE  IInv'
  <1>0. TypeOK /\ LeaderAt /\ FollowerAt /\ Given /\ Decided /\ DecisionSound /\ Counted /\ Polled
    BY DEF IInv
  <1>1. PICK v \in {"wait", "start", "finish"} :
          /\ run' = [run EXCEPT ![num] = v]
          /\ \/ v = "wait" /\ lpc = "wait" /\ lpc' = "commit0"
             \/ v = "start" /\ lpc = "start" /\ lpc' = "poll"
             \/ v = "finish" /\ lpc = "finish" /\ lpc' = "commit1"
    BY DEF PutRunWait, PutRunStart, PutRunFinish, LeaderPut
  <1>2. UNCHANGED <<block, commit, components, tables, mon>> /\ UNCHANGED unput
    BY DEF PutRunWait, PutRunStart, PutRunFinish, LeaderPut, envVars, monitorVars, followerVars,
           unput
  <1>3. /\ UNCHANGED <<restarts, content, num, attempt, LatestBlock, mode, status, data>>
        /\ UNCHANGED <<fpc, fnum, fattempt, fcomps, decision, poll, completed>>
    BY <1>2 DEF unput
  <1>4. Producing /\ (Stopped <=> v = "finish") /\ (Stopped' <=> v = "finish")
    BY <1>1 DEF Producing, Stopped
  <1>5. run \in [Nums -> {"", "wait", "start", "finish"}]
    BY <1>0 DEF TypeOK
  <1>6. \A b \in Nums : run'[b] = IF b = num THEN v ELSE run[b]
    BY <1>1, <1>5
  <1>7. LeaderAt'
    <2>1. v = "wait" => mon = "off"
      BY <1>0, <1>1 DEF LeaderAt, Stopped
    <2>2. QED
      BY <1>1, <1>2, <1>4, <2>1, PutLeaderAt
  <1>8. TypeOK'
    <2>1. /\ block' \in [Nums -> 0 .. attempt] /\ mon' \in {"off", "loop", "put"}
          /\ commit' \in [Nums -> {"", "0", "1"}] /\ components' \in [Nums -> Tables]
          /\ tables' \in [Nums -> SUBSET Tables]
      BY <1>0, <1>2 DEF TypeOK
    <2>2. run' \in [Nums -> {"", "wait", "start", "finish"}]
      BY <1>1, <1>5
    <2>3. QED
      BY <1>0, <1>1, <1>2, <2>1, <2>2, PutTypes DEF LeaderPlaces
  <1>9. FollowerAt' /\ Given'
    BY <1>0, <1>2, <1>3, KeepFollowers, KeepGiven
  <1>10. restarts = 0 => \A b \in Nums : run[b] = "finish" => b <= LatestBlock /\ b # num
    <2>1. restarts = 0 => \A b \in Nums : run[b] = "finish" => b <= LatestBlock
      BY <1>0, <1>1 DEF Decided
    <2>2. num = LatestBlock + 1 /\ LatestBlock \in Nat
      BY <1>0, <1>4, Numbers DEF LeaderAt
    <2>3. QED
      BY <2>1, <2>2
  <1>11. restarts = 0 => \A b \in Nums : run[b] = "finish" => run'[b] = "finish"
    BY <1>6, <1>10
  <1>12. Decided'
    <2>1. \A b \in Nums : run'[b] = "finish" =>
            /\ commit'[b] # ""
            /\ restarts' = 0 => b <= LatestBlock' \/ (b = num' /\ lpc' \in {"commit1", "store"})
      <3>1. v = "finish" => commit[num] # "" /\ lpc' = "commit1"
        BY <1>0, <1>1, <1>4 DEF Decided
      <3>2. QED
        BY <1>0, <1>2, <1>3, <1>6, <1>10, <3>1 DEF Decided
    <2>2. Producing' /\ lpc' \notin {"block", "wait", "commit0"} => commit'[num'] # ""
      BY <1>0, <1>1, <1>2, <1>3, <1>4 DEF Decided
    <2>3. \A f \in Followers : fpc'[f] = "commit" =>
            /\ commit'[fnum'[f]] # ""
            /\ restarts' = 0 => run'[fnum'[f]] = "finish"
      <3>1. \A f \in Followers : fpc[f] = "commit" => fnum[f] \in Nums
        BY <1>0 DEF FollowerAt
      <3>2. QED
        BY <1>0, <1>2, <1>3, <1>11, <3>1 DEF Decided
    <2>4. QED
      BY <1>0, <1>2, <1>3, <2>1, <2>2, <2>3 DEF Decided
  <1>13. DecisionSound'
    BY <1>0, <1>3, <1>11 DEF DecisionSound
  <1>14. Counted'
    <2>1. SUFFICES ASSUME restarts = 0 PROVE Counted'
      BY <1>3 DEF Counted
    <2>2. v # "wait" => components[num] \in tables[num]
      BY <1>0, <1>1, <1>4, <2>1 DEF Counted
    <2>3. \A b \in Nums : run'[b] \in {"start", "finish"} => components[b] \in tables[b]
      BY <1>0, <1>6, <2>1, <2>2 DEF Counted
    <2>4. lpc' \in {"start", "poll"} \/ Stopped' => components[num] \in tables[num]
      BY <1>1, <1>4, <2>2
    <2>5. QED
      BY <1>0, <1>2, <1>3, <2>1, <2>3, <2>4 DEF Counted
  <1>15. Polled'
    <2>1. SUFFICES ASSUME restarts = 0, num # 0, Cardinality(tables[num]) <= 1, NEW t \in tables[num]
                   PROVE  /\ lpc' = "poll" => \E Q \in SUBSET Followers :
                               /\ \A g \in Q : g < poll /\ status[num][g] # None
                               /\ completed = Size(content[num], {c \in DOMAIN t : t[c] \in Q})
                          /\ Stopped' => \A c \in DOMAIN t :
                               t[c] \in Followers /\ status[num][t[c]] # None
      BY <1>2, <1>3 DEF Polled
    <2>2. Stopped' => \A c \in DOMAIN t : t[c] \in Followers /\ status[num][t[c]] # None
      BY <1>0, <1>4, <2>1 DEF Polled
    <2>3. completed = 0
      BY <1>0, <1>1 DEF LeaderAt
    <2>4. content[num] \in Blocks
      BY <1>4, <2>1, OneAttempt
    <2>5. {c \in DOMAIN t : t[c] \in {}} = {}
      OBVIOUS
    <2>6. completed = Size(content[num], {c \in DOMAIN t : t[c] \in {}})
      BY <2>3, <2>4, <2>5, SizeFacts
    <2>7. QED
      BY <2>2, <2>6
  <1>16. QED
    BY <1>7, <1>8, <1>9, <1>12, <1>13, <1>14, <1>15 DEF IInv

\* The commit key: in validation mode it says 1 from the start.
LEMMA PutCommitStep ==
  ASSUME IInv, PutCommitInitial \/ PutCommit
  PROVE  IInv'
  <1>0. TypeOK /\ LeaderAt /\ FollowerAt /\ Given /\ Decided /\ DecisionSound /\ Counted /\ Polled
    BY DEF IInv
  <1>1. PICK v \in {"0", "1"} :
          /\ commit' = [commit EXCEPT ![num] = v] /\ (mode = "validation" => v = "1")
          /\ \/ lpc = "commit0" /\ lpc' = "assign" /\ mon' = "loop"
             \/ lpc = "commit1" /\ lpc' = "store" /\ mon' = mon
    BY DEF PutCommitInitial, PutCommit, LeaderPut, monitorVars
  <1>2. UNCHANGED <<block, run, components, tables>> /\ UNCHANGED unput
    BY DEF PutCommitInitial, PutCommit, LeaderPut, envVars, monitorVars, followerVars, unput
  <1>3. /\ UNCHANGED <<restarts, content, num, attempt, LatestBlock, mode, status, data>>
        /\ UNCHANGED <<fpc, fnum, fattempt, fcomps, decision, poll, completed>>
    BY <1>2 DEF unput
  <1>4. Producing /\ (Stopped <=> lpc = "commit1") /\ (Stopped' <=> lpc = "commit1")
    BY <1>1 DEF Producing, Stopped
  <1>5. commit \in [Nums -> {"", "0", "1"}]
    BY <1>0 DEF TypeOK
  <1>6. \A b \in Nums : commit'[b] = IF b = num THEN v ELSE commit[b]
    BY <1>1, <1>5
  <1>7. LeaderAt'
    BY <1>1, <1>2, <1>4, PutLeaderAt
  <1>8. TypeOK'
    <2>1. /\ block' \in [Nums -> 0 .. attempt] /\ mon \in {"off", "loop", "put"}
          /\ run' \in [Nums -> {"", "wait", "start", "finish"}]
          /\ components' \in [Nums -> Tables] /\ tables' \in [Nums -> SUBSET Tables]
      BY <1>0, <1>2 DEF TypeOK
    <2>2. commit' \in [Nums -> {"", "0", "1"}]
      BY <1>1, <1>5
    <2>3. QED
      BY <1>0, <1>1, <1>2, <2>1, <2>2, PutTypes DEF LeaderPlaces
  <1>9. FollowerAt' /\ Given'
    BY <1>0, <1>2, <1>3, KeepFollowers, KeepGiven
  <1>10. num \in Nums
    <2>1. num \in Nat /\ LatestBlock \in Nat /\ num <= NBlocks /\ NBlocks \in Nat
      BY <1>0, Numbers
    <2>2. QED
      BY <1>0, <1>4, <2>1 DEF LeaderAt, Nums
  <1>11. \A b \in Nums : commit[b] # "" => commit'[b] # ""
    BY <1>6
  <1>12. Decided'
    <2>1. \A b \in Nums : run'[b] = "finish" =>
            /\ commit'[b] # ""
            /\ restarts' = 0 => b <= LatestBlock' \/ (b = num' /\ lpc' \in {"commit1", "store"})
      BY <1>0, <1>1, <1>2, <1>3, <1>11 DEF Decided
    <2>2. commit'[num'] # ""
      BY <1>3, <1>6, <1>10
    <2>3. mode' = "validation" => \A b \in Nums : commit'[b] # "0"
      BY <1>0, <1>1, <1>3, <1>6 DEF Decided
    <2>4. \A f \in Followers : fpc'[f] = "commit" =>
            /\ commit'[fnum'[f]] # ""
            /\ restarts' = 0 => run'[fnum'[f]] = "finish"
      <3>1. \A f \in Followers : fpc[f] = "commit" => fnum[f] \in Nums
        BY <1>0 DEF FollowerAt
      <3>2. QED
        BY <1>0, <1>2, <1>3, <1>11, <3>1 DEF Decided
    <2>5. QED
      BY <2>1, <2>2, <2>3, <2>4 DEF Decided
  <1>13. DecisionSound'
    BY <1>0, <1>2, <1>3 DEF DecisionSound
  <1>14. Counted'
    BY <1>0, <1>1, <1>2, <1>3, <1>4, KeepCounted
  <1>15. Polled'
    BY <1>0, <1>1, <1>2, <1>3, <1>4, KeepPolled
  <1>16. QED
    BY <1>7, <1>8, <1>9, <1>12, <1>13, <1>14, <1>15 DEF IInv

\* The components key, by the leader or by its monitor: the table stored is whole.
LEMMA PutTableStep ==
  ASSUME IInv, PutComponents \/ MonitorPut
  PROVE  IInv'
  <1>0. TypeOK /\ LeaderAt /\ FollowerAt /\ Given /\ Decided /\ DecisionSound /\ Counted /\ Polled
    BY DEF IInv
  <1>1. PICK t \in {serialized, monTable} :
          /\ components' = [components EXCEPT ![num] = t]
          /\ tables' = [tables EXCEPT ![num] = @ \cup {t}]
          /\ \/ lpc = "components" /\ lpc' = "start" /\ mon' = mon /\ t = serialized
             \/ mon = "put" /\ lpc' = lpc /\ mon' = "loop" /\ t = monTable
    BY DEF PutComponents, MonitorPut, LeaderPut, monitorVars, leaderVars
  <1>2. UNCHANGED <<block, run, commit>> /\ UNCHANGED unput
    BY DEF PutComponents, MonitorPut, LeaderPut, envVars, monitorVars, followerVars, leaderVars,
           unput
  <1>3. /\ UNCHANGED <<restarts, content, num, attempt, LatestBlock, mode, status, data>>
        /\ UNCHANGED <<fpc, fnum, fattempt, fcomps, decision, poll, completed>>
        /\ UNCHANGED <<healthy, table, serialized, monTable>>
    BY <1>2 DEF unput
  <1>4. lpc \in {"assign", "components", "start", "poll"} \/ Stopped
    BY <1>0, <1>1 DEF LeaderAt
  <1>5. Producing \/ lpc = "join"
    BY <1>4 DEF Producing, Stopped
  <1>6. /\ attempt \in Nat /\ num \in Nat /\ LatestBlock \in Nat /\ num <= NBlocks
        /\ NBlocks \in Nat /\ \A a \in 1 .. attempt : content[a] \in Blocks
    BY <1>0, Numbers
  <1>7. num \in Nums /\ attempt # 0 /\ content[attempt] \in Blocks
    BY <1>0, <1>5, <1>6 DEF LeaderAt, Nums
  <1>8. t \in [Comps(content[attempt]) -> Members]
    BY <1>0, <1>1 DEF LeaderAt
  <1>9. t \in Tables
    BY <1>7, <1>8, FullTable
  <1>10. components \in [Nums -> Tables] /\ tables \in [Nums -> SUBSET Tables]
    BY <1>0 DEF TypeOK
  <1>11. /\ components' \in [Nums -> Tables] /\ tables' \in [Nums -> SUBSET Tables]
         /\ \A b \in Nums : /\ components'[b] = IF b = num THEN t ELSE components[b]
                            /\ tables'[b] = IF b = num THEN tables[b] \cup {t} ELSE tables[b]
    BY <1>1, <1>9, <1>10
  <1>12. \A b \in Nums : tables[b] \subseteq tables'[b]
    BY <1>11
  <1>13. TypeOK'
    <2>1. /\ block' \in [Nums -> 0 .. attempt] /\ mon \in {"off", "loop", "put"}
          /\ run' \in [Nums -> {"", "wait", "start", "finish"}]
          /\ commit' \in [Nums -> {"", "0", "1"}]
      BY <1>0, <1>2 DEF TypeOK
    <2>2. lpc' \in LeaderPlaces
      BY <1>0, <1>1, LeaderTypes DEF LeaderPlaces
    <2>3. QED
      BY <1>0, <1>1, <1>2, <1>11, <2>1, <2>2, PutTypes
  <1>14. LeaderAt'
    <2>1. Up' # {}
      BY <1>0, <1>3 DEF LeaderAt, Up, Alive
    <2>2. CASE lpc' = lpc /\ mon' = "loop"
      BY <1>0, <1>3, <1>4, <2>1, <2>2 DEF LeaderAt, Producing, Unstored, Stopped
    <2>3. CASE lpc = "components" /\ lpc' = "start" /\ mon' = mon
      <3>1. Producing
        BY <2>3 DEF Producing
      <3>2. QED
        BY <1>2, <2>3, <3>1, PutLeaderAt DEF LeaderAt
    <2>4. QED
      BY <1>1, <2>2, <2>3
  <1>15. FollowerAt'
    BY <1>0, <1>2, <1>3, KeepFollowers
  <1>16. Given'
    <2>1. \A b \in Nums : IsFiniteSet(tables'[b])
      <3>1. \A b \in Nums : IsFiniteSet(tables[b]) /\ IsFiniteSet(tables[b] \cup {t})
        BY <1>0, TablesGrow DEF Given
      <3>2. QED
        BY <1>11, <3>1
    <2>2. \A b \in Nums : components'[b] # NoTable => components'[b] \in tables'[b]
      BY <1>0, <1>11 DEF Given
    <2>3. \A b \in Nums : \A c, f : GivenTo(b, c, f) => GivenTo(b, c, f)'
      BY <1>12 DEF GivenTo
    <2>4. \A f \in Followers : fpc[f] \in {"execute", "data"} => fnum[f] \in Nums
      BY <1>0 DEF FollowerAt
    <2>5. \A f \in Followers : fpc'[f] \in {"execute", "data"} =>
            \A c \in fcomps'[f] : \E s \in tables'[fnum'[f]] : c \in DOMAIN s /\ s[c] = f
      <3>1. \A f \in Followers : fpc[f] \in {"execute", "data"} =>
              \A c \in fcomps[f] : \E s \in tables[fnum[f]] : c \in DOMAIN s /\ s[c] = f
        BY <1>0 DEF Given, GivenTo
      <3>2. QED
        BY <1>3, <1>12, <2>4, <3>1
    <2>6. \A b \in Nums, f \in Followers : \A c \in data'[b][f].done : GivenTo(b, c, f)'
      BY <1>0, <1>3, <2>3 DEF Given
    <2>7. QED
      BY <2>1, <2>2, <2>5, <2>6 DEF Given, GivenTo
  <1>17. Decided' /\ DecisionSound'
    <2>1. restarts = 0 => \A b \in Nums : run[b] = "finish" =>
            b <= LatestBlock \/ (b = num /\ lpc' \in {"commit1", "store"})
      BY <1>0, <1>1 DEF Decided
    <2>2. Producing' /\ lpc' \notin {"block", "wait", "commit0"} => commit[num] # ""
      <3>1. lpc = "components" => Producing
        BY DEF Producing
      <3>2. lpc' = lpc => (Producing' <=> Producing)
        BY DEF Producing
      <3>3. QED
        BY <1>0, <1>1, <3>1, <3>2 DEF Decided
    <2>3. QED
      BY <1>0, <1>2, <1>3, <2>1, <2>2, KeepDecided
  <1>18. Counted'
    <2>1. SUFFICES ASSUME restarts = 0 PROVE Counted'
      BY <1>3 DEF Counted
    <2>2. num = attempt /\ DOMAIN t = Comps(content[num])
      BY <1>5, <1>8, <2>1, OneAttempt
    <2>3. \A b \in Nums : \A s \in tables'[b] : b <= attempt /\ DOMAIN s = Comps(content[b])
      BY <1>0, <1>6, <1>11, <2>1, <2>2 DEF Counted
    <2>4. \A b \in Nums : components[b] \in tables[b] => components'[b] \in tables'[b]
      BY <1>11
    <2>5. components'[num] \in tables'[num]
      BY <1>7, <1>11
    <2>6. \A f \in Followers : fpc[f] \in {"block", "components", "execute", "data", "status"}
                                 => fnum[f] \in Nums
      BY <1>0 DEF FollowerAt
    <2>7. \A f \in Followers :
            /\ fpc[f] \in {"block", "components"} => components'[fnum[f]] \in tables'[fnum[f]]
            /\ fpc[f] \in {"execute", "data", "status"} =>
                 \E s \in tables'[fnum[f]] : fcomps[f] = Assigned(s, f)
      BY <1>0, <1>12, <2>1, <2>4, <2>6 DEF Counted
    <2>8. \A b \in Nums, f \in Followers :
            /\ data[b][f].attempt # 0 =>
                 data[b][f].attempt = b /\ \E s \in tables'[b] : data[b][f].done = Assigned(s, f)
            /\ status[b][f] # None =>
                 /\ data[b][f].attempt = b
                 /\ \E s \in tables'[b] : status[b][f] = Size(content[b], Assigned(s, f))
      BY <1>0, <1>12, <2>1 DEF Counted
    <2>9. QED
      BY <1>0, <1>2, <1>3, <2>1, <2>3, <2>4, <2>5, <2>7, <2>8 DEF Counted
  <1>19. Polled'
    <2>1. SUFFICES ASSUME restarts = 0, num # 0, Cardinality(tables'[num]) <= 1,
                          NEW s \in tables'[num]
                   PROVE  /\ lpc' = "poll" => \E Q \in SUBSET Followers :
                               /\ \A g \in Q : g < poll /\ status[num][g] # None
                               /\ completed = Size(content[num], {c \in DOMAIN s : s[c] \in Q})
                          /\ Stopped' => \A c \in DOMAIN s :
                               s[c] \in Followers /\ status[num][s[c]] # None
      BY <1>3 DEF Polled
    <2>2. IsFiniteSet(tables[num]) /\ tables'[num] = tables[num] \cup {t}
      BY <1>0, <1>7, <1>11 DEF Given
    <2>3. Cardinality(tables[num]) <= 1 /\ IsFiniteSet(tables'[num])
      BY <2>1, <2>2, TablesGrow
    <2>4. CASE lpc' = "start"
      BY <2>4 DEF Stopped
    <2>5. CASE lpc' = lpc /\ ~(lpc = "poll" \/ Stopped)
      BY <2>5 DEF Stopped
    <2>6. CASE lpc' = lpc /\ (lpc = "poll" \/ Stopped)
      <3>1. components[num] \in tables[num]
        BY <1>0, <2>1, <2>6 DEF Counted
      <3>2. s \in tables[num]
        BY <2>1, <2>2, <2>3, <3>1, OneTable
      <3>3. Stopped' <=> Stopped
        BY <2>6 DEF Stopped
      <3>4. QED
        BY <1>0, <2>1, <2>3, <2>6, <3>2, <3>3 DEF Polled
    <2>7. QED
      BY <1>1, <2>4, <2>5, <2>6
  <1>20. QED
    BY <1>13, <1>14, <1>15, <1>16, <1>17, <1>18, <1>19 DEF IInv

-----------------------------------------------------------------------------
(***************************************************************************)
(* The followers.                                                          *)
(***************************************************************************)
\* What every step of a follower leaves alone.
unfollowed == <<memberOrder, mode, restarts, block, run, commit, components, content, lpc, num,
                attempt, healthy, ids, active, table, serialized, poll, completed, LatestBlock,
                mon, monTable, tables>>

\* Where a follower can be.
Places == {"idle", "run", "block", "components", "execute", "data", "status", "finish",
           "commit", "store", "down"}

\* The types after a step of a follower.
LEMMA FollowerTypes ==
  ASSUME TypeOK, UNCHANGED unfollowed,
         status' \in [Nums -> [Followers -> Nat \cup {None}]],
         data' \in [Nums -> [Followers -> [attempt : 0 .. attempt, done : SUBSET CompIds]]],
         \A b \in Nums, f \in Followers : data'[b][f].attempt # 0 =>
           data'[b][f].done \subseteq Comps(content[data'[b][f].attempt]),
         fpc' \in [Followers -> Places], fnum' \in [Followers -> 0 .. NBlocks],
         fattempt' \in [Followers -> 0 .. attempt], fcomps' \in [Followers -> SUBSET CompIds],
         fstored' \in [Followers -> SUBSET Nums],
         decision' \in [Nums -> [Followers -> {"", "save", "reset"}]],
         crashes' \in Nat, crashes' + restarts <= MaxCrashes
  PROVE  TypeOK'
  BY DEF TypeOK, unfollowed, Places

\* A follower's types.
LEMMA FollowerTypesNow ==
  ASSUME TypeOK
  PROVE  /\ status \in [Nums -> [Followers -> Nat \cup {None}]]
         /\ data \in [Nums -> [Followers -> [attempt : 0 .. attempt, done : SUBSET CompIds]]]
         /\ \A b \in Nums, f \in Followers : data[b][f].attempt # 0 =>
              data[b][f].done \subseteq Comps(content[data[b][f].attempt])
         /\ fpc \in [Followers -> Places] /\ fnum \in [Followers -> 0 .. NBlocks]
         /\ fattempt \in [Followers -> 0 .. attempt] /\ fcomps \in [Followers -> SUBSET CompIds]
         /\ fstored \in [Followers -> SUBSET Nums]
         /\ decision \in [Nums -> [Followers -> {"", "save", "reset"}]]
         /\ crashes \in Nat /\ crashes + restarts <= MaxCrashes
  BY DEF TypeOK, Places

\* What one follower executes, writes and has counted are the components of a table.
CountedFor(f) ==
  /\ fpc[f] \in {"block", "components"} => components[fnum[f]] \in tables[fnum[f]]
  /\ fpc[f] \in {"components", "execute", "data", "status"} => fattempt[f] = fnum[f]
  /\ fpc[f] \in {"execute", "data", "status"} =>
       \E t \in tables[fnum[f]] : fcomps[f] = Assigned(t, f)
  /\ fpc[f] = "status" => data[fnum[f]][f].attempt = fnum[f]
  /\ \A b \in Nums :
       /\ data[b][f].attempt # 0 =>
            data[b][f].attempt = b /\ \E t \in tables[b] : data[b][f].done = Assigned(t, f)
       /\ status[b][f] # None =>
            /\ data[b][f].attempt = b
            /\ \E t \in tables[b] : status[b][f] = Size(content[b], Assigned(t, f))

\* A part of the invariant.
LEMMA CountedBy ==
  ASSUME Counted, restarts = 0, NEW f \in Followers
  PROVE  CountedFor(f)
  BY DEF Counted, CountedFor

\* That is all a step of the followers has to keep.
LEMMA CountedStill ==
  ASSUME Counted, UNCHANGED <<restarts, block, run, components, content, lpc, num, attempt, tables>>,
         restarts = 0 => \A f \in Followers : CountedFor(f)'
  PROVE  Counted'
  <1>1. CASE restarts # 0
    BY <1>1 DEF Counted
  <1>2. CASE restarts = 0
    <2>1. /\ \A b \in Nums :
               /\ block[b] \in {0, b}
               /\ \A t \in tables[b] : b <= attempt /\ DOMAIN t = Comps(content[b])
               /\ run[b] \in {"start", "finish"} => components[b] \in tables[b]
          /\ lpc \in {"start", "poll"} \/ Stopped => components[num] \in tables[num]
      BY <1>2 DEF Counted
    <2>2. Stopped' <=> Stopped
      BY DEF Stopped
    <2>3. QED
      BY <1>2, <2>1, <2>2 DEF Counted, CountedFor
  <1>3. QED
    BY <1>1, <1>2

\* What one follower was given.
GivenFor(f) ==
  /\ fpc[f] \in {"execute", "data"} => \A c \in fcomps[f] : GivenTo(fnum[f], c, f)
  /\ \A b \in Nums : \A c \in data[b][f].done : GivenTo(b, c, f)

\* A part of the invariant, and all a step of the followers has to keep.
LEMMA GivenStill ==
  ASSUME Given
  PROVE  /\ \A f \in Followers : GivenFor(f)
         /\ UNCHANGED <<components, tables>> /\ (\A f \in Followers : GivenFor(f)') => Given'
  <1>1. \A b \in Nums : /\ IsFiniteSet(tables[b])
                       /\ components[b] # NoTable => components[b] \in tables[b]
    BY DEF Given
  <1>2. \A f \in Followers : GivenFor(f)
    BY DEF Given, GivenFor
  <1>3. ASSUME UNCHANGED <<components, tables>>, \A f \in Followers : GivenFor(f)'
        PROVE  Given'
    BY <1>1, <1>3 DEF Given, GivenFor
  <1>4. QED
    BY <1>2, <1>3

\* A follower's step moves it on; it enters no place without what it needs there.
LEMMA MoveFrame ==
  ASSUME IInv, NEW f \in Followers, NEW l \in {"idle", "block", "data", "store", "commit", "down"},
         UNCHANGED unfollowed, UNCHANGED <<status, data, fnum, fattempt, fcomps>>,
         fpc' = [fpc EXCEPT ![f] = l],
         fstored' \in [Followers -> SUBSET Nums],
         decision' \in [Nums -> [Followers -> {"", "save", "reset"}]],
         crashes' \in Nat, crashes' + restarts <= MaxCrashes,
         l = "block" => fpc[f] = "run" /\ run[fnum[f]] = "start",
         l = "data" => fpc[f] = "execute",
         l \in {"store", "commit"} => fpc[f] \notin {"idle", "down"},
         l = "commit" => run[fnum[f]] = "finish",
         Up' # {}, DecisionSound'
  PROVE  IInv'
  <1>0. TypeOK /\ LeaderAt /\ FollowerAt /\ Given /\ Decided /\ Counted /\ Polled
    BY DEF IInv
  <1>1. /\ UNCHANGED <<restarts, block, run, commit, components, content, lpc, num, attempt>>
        /\ UNCHANGED <<healthy, table, serialized, poll, completed, LatestBlock, mon, monTable>>
        /\ UNCHANGED <<tables, mode>>
    BY DEF unfollowed
  <1>2. /\ fpc \in [Followers -> Places] /\ fnum \in [Followers -> 0 .. NBlocks]
        /\ fattempt \in [Followers -> 0 .. attempt] /\ fcomps \in [Followers -> SUBSET CompIds]
    BY <1>0, FollowerTypesNow
  <1>3. /\ fpc' \in [Followers -> Places]
        /\ \A g \in Followers : fpc'[g] = IF g = f THEN l ELSE fpc[g]
    BY <1>2 DEF Places
  <1>4. TypeOK'
    <2>1. /\ status' \in [Nums -> [Followers -> Nat \cup {None}]]
          /\ data' \in [Nums -> [Followers -> [attempt : 0 .. attempt, done : SUBSET CompIds]]]
          /\ \A b \in Nums, g \in Followers : data'[b][g].attempt # 0 =>
               data'[b][g].done \subseteq Comps(content[data'[b][g].attempt])
      BY <1>0, FollowerTypesNow
    <2>2. QED
      BY <1>0, <1>2, <1>3, <2>1, FollowerTypes
  <1>5. LeaderAt'
    BY <1>0, <1>1, KeepLeader
  <1>6. FollowerAt'
    BY <1>0, <1>1, <1>3 DEF FollowerAt
  <1>7. Given'
    <2>1. ASSUME NEW g \in Followers PROVE GivenFor(g)'
      <3>1. GivenFor(g)
        BY <1>0, GivenStill
      <3>2. fpc'[g] \in {"execute", "data"} => fpc[g] \in {"execute", "data"}
        BY <1>3
      <3>3. QED
        BY <1>1, <3>1, <3>2 DEF GivenFor, GivenTo
    <2>2. QED
      BY <1>0, <1>1, <2>1, GivenStill
  <1>8. l \in {"block", "commit"} => fnum[f] \in Nums
    BY <1>0 DEF FollowerAt
  <1>9. Decided'
    <2>1. \A g \in Followers : fpc'[g] = "commit" =>
            commit[fnum[g]] # "" /\ (restarts = 0 => run[fnum[g]] = "finish")
      BY <1>0, <1>3, <1>8 DEF Decided
    <2>2. QED
      BY <1>0, <1>1, <2>1 DEF Decided, Producing
  <1>10. Counted'
    <2>1. ASSUME restarts = 0, NEW g \in Followers PROVE CountedFor(g)'
      <3>1. l = "block" => components[fnum[f]] \in tables[fnum[f]]
        BY <1>0, <1>8, <2>1 DEF Counted
      <3>2. \/ fpc'[g] = fpc[g] \/ (g = f /\ l = "block" /\ fpc'[g] = l)
            \/ (fpc'[g] = "data" /\ fpc[g] = "execute")
            \/ fpc'[g] \in {"idle", "store", "commit", "down"}
        BY <1>3
      <3>3. CountedFor(g)
        BY <1>0, <2>1, CountedBy
      <3>4. QED
        BY <1>1, <3>1, <3>2, <3>3 DEF CountedFor
    <2>2. QED
      BY <1>0, <1>1, <2>1, CountedStill
  <1>11. Polled'
    BY <1>0, <1>1, KeepPolled DEF Stopped
  <1>12. QED
    BY <1>4, <1>5, <1>6, <1>7, <1>9, <1>10, <1>11 DEF IInv

\* The steps that only move a follower on.
LEMMA MoveStep ==
  ASSUME IInv, NEW f \in Followers,
         \/ ReadRun(f) \/ Execute(f) \/ ExecuteFail(f) \/ SeeFinish(f) \/ FollowerStop(f)
         \/ Recover(f)
  PROVE  IInv'
  <1>0. TypeOK /\ LeaderAt /\ DecisionSound
    BY DEF IInv
  <1>1. PICK l \in {"idle", "block", "data", "store", "commit"} :
          /\ fpc' = [fpc EXCEPT ![f] = l]
          /\ l = "block" => fpc[f] = "run" /\ run[fnum[f]] = "start"
          /\ l = "data" => fpc[f] = "execute"
          /\ l \in {"store", "commit"} => fpc[f] \notin {"idle", "down"}
          /\ l = "commit" => run[fnum[f]] = "finish"
    <2>1. CASE ReadRun(f)
      BY <2>1 DEF ReadRun, Move
    <2>2. CASE Execute(f) \/ ExecuteFail(f) \/ SeeFinish(f)
      BY <2>2 DEF Execute, ExecuteFail, SeeFinish, Move
    <2>3. CASE FollowerStop(f) \/ Recover(f)
      BY <2>3 DEF FollowerStop, Recover, Move
    <2>4. QED
      BY <2>1, <2>2, <2>3
  <1>2. /\ UNCHANGED unfollowed /\ UNCHANGED <<status, data, fnum, fattempt, fcomps>>
        /\ UNCHANGED <<fstored, decision, crashes>>
    BY DEF ReadRun, Execute, ExecuteFail, SeeFinish, FollowerStop, Recover, Move, envVars, etcd,
           leaderVars, monitorVars, unfollowed
  <1>3. UNCHANGED <<restarts, run, mode>>
    BY <1>2 DEF unfollowed
  <1>4. /\ fstored' \in [Followers -> SUBSET Nums] /\ fpc \in [Followers -> Places]
        /\ decision' \in [Nums -> [Followers -> {"", "save", "reset"}]]
        /\ crashes' \in Nat /\ crashes' + restarts <= MaxCrashes
    BY <1>0, <1>2, FollowerTypesNow
  <1>5. Up' # {}
    <2>1. \A g \in Followers : fpc'[g] = "down" => fpc[g] = "down"
      BY <1>1, <1>4
    <2>2. QED
      BY <1>0, <2>1 DEF LeaderAt, Up, Alive
  <1>6. DecisionSound'
    BY <1>0, <1>2, <1>3 DEF DecisionSound
  <1>7. QED
    BY <1>1, <1>2, <1>4, <1>5, <1>6, MoveFrame

\* A machine goes down only while a majority is left.
LEMMA CrashStep ==
  ASSUME IInv, NEW f \in Followers, Crash(f)
  PROVE  IInv'
  <1>0. TypeOK /\ LeaderAt /\ DecisionSound
    BY DEF IInv
  <1>1. /\ fpc' = [fpc EXCEPT ![f] = "down"] /\ crashes' = crashes + 1
        /\ crashes + restarts < MaxCrashes /\ 2 * Cardinality(Up) > NMembers
    BY DEF Crash
  <1>2. /\ UNCHANGED unfollowed /\ UNCHANGED <<status, data, fnum, fattempt, fcomps>>
        /\ UNCHANGED <<fstored, decision>>
    BY DEF Crash, etcd, leaderVars, monitorVars, unfollowed
  <1>3. UNCHANGED <<restarts, run, mode>>
    BY <1>2 DEF unfollowed
  <1>4. /\ fstored' \in [Followers -> SUBSET Nums] /\ fpc \in [Followers -> Places]
        /\ decision' \in [Nums -> [Followers -> {"", "save", "reset"}]]
    BY <1>0, <1>2, FollowerTypesNow
  <1>5. crashes' \in Nat /\ crashes' + restarts <= MaxCrashes
    BY <1>0, <1>1, Numbers
  <1>6. Up' # {}
    <2>1. IsFiniteSet(Up) /\ IsFiniteSet(Up \ {f}) /\ Cardinality(Up) \in Nat
      BY MemberFacts, FS_Subset, FS_CardinalityType DEF Up
    <2>2. Cardinality(Up) >= 2
      BY <1>1, <2>1, MembersAssumption
    <2>3. Cardinality(Up \ {f}) >= 1
      BY <2>1, <2>2, FS_RemoveElement
    <2>4. Up \ {f} # {}
      BY <2>1, <2>3, FS_EmptySet
    <2>5. Up \ {f} \subseteq Up'
      BY <1>1, <1>4 DEF Up, Alive
    <2>6. QED
      BY <2>4, <2>5
  <1>7. DecisionSound'
    BY <1>0, <1>2, <1>3 DEF DecisionSound
  <1>8. QED
    BY <1>1, <1>2, <1>4, <1>5, <1>6, <1>7, MoveFrame

\* The commit key decides; and main may store the block.
LEMMA CommitStep ==
  ASSUME IInv, NEW f \in Followers, ReadCommit(f) \/ FollowerStore(f)
  PROVE  IInv'
  <1>0. TypeOK /\ LeaderAt /\ FollowerAt /\ Decided /\ DecisionSound
    BY DEF IInv
  <1>1. PICK l \in {"idle", "store"} :
          /\ fpc' = [fpc EXCEPT ![f] = l]
          /\ l = "store" => fpc[f] \notin {"idle", "down"}
    BY DEF ReadCommit, FollowerStore
  <1>2. UNCHANGED unfollowed /\ UNCHANGED <<status, data, fnum, fattempt, fcomps, crashes>>
    BY DEF ReadCommit, FollowerStore, envVars, etcd, leaderVars, monitorVars, unfollowed
  <1>3. UNCHANGED <<restarts, run, mode>>
    BY <1>2 DEF unfollowed
  <1>4. /\ fstored \in [Followers -> SUBSET Nums] /\ fpc \in [Followers -> Places]
        /\ decision \in [Nums -> [Followers -> {"", "save", "reset"}]]
        /\ crashes' \in Nat /\ crashes' + restarts <= MaxCrashes
    BY <1>0, <1>2, FollowerTypesNow
  <1>5. Up' # {}
    <2>1. \A g \in Followers : fpc'[g] = "down" => fpc[g] = "down"
      BY <1>1, <1>4
    <2>2. QED
      BY <1>0, <2>1 DEF LeaderAt, Up, Alive
  <1>6. CASE ReadCommit(f)
    <2>1. PICK b \in Nums : b = fnum[f]
      BY <1>0, <1>6 DEF ReadCommit, FollowerAt
    <2>2. PICK d \in {"save", "reset"} :
            /\ decision' = [decision EXCEPT ![b][f] = d]
            /\ d = IF commit[b] = "1" THEN "save" ELSE "reset"
      BY <1>6, <2>1 DEF ReadCommit
    <2>3. UNCHANGED fstored
      BY <1>6 DEF ReadCommit
    <2>4. decision' \in [Nums -> [Followers -> {"", "save", "reset"}]]
      BY <1>4, <2>2
    <2>5. \A e \in Nums, g \in Followers :
            decision'[e][g] = IF e = b /\ g = f THEN d ELSE decision[e][g]
      BY <1>4, <2>2
    <2>6. fpc[f] = "commit"
      BY <1>6 DEF ReadCommit
    <2>7. commit[b] # "" /\ (restarts = 0 => run[b] = "finish")
      BY <1>0, <2>1, <2>6 DEF Decided
    <2>8. d = "reset" => mode = "production"
      <3>1. commit[b] \in {"", "0", "1"} /\ mode \in {"production", "validation"}
        BY <1>0, ModesAssumption DEF TypeOK
      <3>2. mode = "validation" => commit[b] # "0"
        BY <1>0 DEF Decided
      <3>3. QED
        BY <2>2, <2>7, <3>1, <3>2
    <2>9. DecisionSound'
      BY <1>0, <1>3, <2>5, <2>7, <2>8 DEF DecisionSound
    <2>10. QED
      BY <1>1, <1>2, <1>4, <1>5, <2>3, <2>4, <2>9, MoveFrame
  <1>7. CASE FollowerStore(f)
    <2>1. UNCHANGED decision
      BY <1>7 DEF FollowerStore
    <2>2. fstored' \in [Followers -> SUBSET Nums]
      <3>1. fnum[f] \in Nums
        BY <1>0, <1>7 DEF FollowerStore, FollowerAt
      <3>2. QED
        BY <1>4, <1>7, <3>1 DEF FollowerStore
    <2>3. DecisionSound'
      BY <1>0, <1>3, <2>1 DEF DecisionSound
    <2>4. QED
      BY <1>1, <1>2, <1>4, <1>5, <2>1, <2>2, <2>3, MoveFrame
  <1>8. QED
    BY <1>6, <1>7

\* Where one follower is.
PlacedFor(f) ==
  /\ fpc[f] \notin {"idle", "down"} => fnum[f] \in Nums /\ block[fnum[f]] # 0
  /\ fpc[f] \in {"components", "execute", "data", "status"} => fattempt[f] # 0
  /\ fpc[f] \in {"execute", "data", "status"} => fcomps[f] \subseteq Comps(content[fattempt[f]])

\* A step inside startBlock or the search for a block is about one follower's state and keys.
LEMMA WorkFrame ==
  ASSUME IInv, NEW f \in Followers, NEW l \in Places \ {"down", "commit"},
         UNCHANGED unfollowed, UNCHANGED <<fstored, decision, crashes>>,
         fpc' = [fpc EXCEPT ![f] = l],
         fnum' \in [Followers -> 0 .. NBlocks], fattempt' \in [Followers -> 0 .. attempt],
         fcomps' \in [Followers -> SUBSET CompIds],
         status' \in [Nums -> [Followers -> Nat \cup {None}]],
         data' \in [Nums -> [Followers -> [attempt : 0 .. attempt, done : SUBSET CompIds]]],
         \A g \in Followers \ {f} :
           fnum'[g] = fnum[g] /\ fattempt'[g] = fattempt[g] /\ fcomps'[g] = fcomps[g],
         \A b \in Nums : \A g \in Followers \ {f} :
           data'[b][g] = data[b][g] /\ status'[b][g] = status[b][g],
         \A b \in Nums : status[b][f] # None => status'[b][f] # None,
         \A b \in Nums : data'[b][f].attempt # 0 =>
           data'[b][f].done \subseteq Comps(content[data'[b][f].attempt]),
         PlacedFor(f)', GivenFor(f)', restarts = 0 => CountedFor(f)'
  PROVE  IInv'
  <1>0. /\ TypeOK /\ LeaderAt /\ FollowerAt /\ Given /\ Decided /\ DecisionSound /\ Counted
        /\ Polled
    BY DEF IInv
  <1>1. /\ UNCHANGED <<restarts, block, run, commit, components, content, lpc, num, attempt>>
        /\ UNCHANGED <<healthy, table, serialized, poll, completed, LatestBlock, mon, monTable>>
        /\ UNCHANGED <<tables, mode>>
    BY DEF unfollowed
  <1>2. fpc \in [Followers -> Places]
    BY <1>0, FollowerTypesNow
  <1>3. /\ fpc' \in [Followers -> Places]
        /\ \A g \in Followers : fpc'[g] = IF g = f THEN l ELSE fpc[g]
    BY <1>2
  <1>4. TypeOK'
    <2>1. /\ fstored' \in [Followers -> SUBSET Nums]
          /\ decision' \in [Nums -> [Followers -> {"", "save", "reset"}]]
          /\ crashes' \in Nat /\ crashes' + restarts <= MaxCrashes
      BY <1>0, FollowerTypesNow
    <2>2. \A b \in Nums, g \in Followers : data[b][g].attempt # 0 =>
            data[b][g].done \subseteq Comps(content[data[b][g].attempt])
      BY <1>0, FollowerTypesNow
    <2>3. \A b \in Nums, g \in Followers : data'[b][g].attempt # 0 =>
            data'[b][g].done \subseteq Comps(content[data'[b][g].attempt])
      <3>1. SUFFICES ASSUME NEW b \in Nums, NEW g \in Followers, data'[b][g].attempt # 0
                     PROVE  data'[b][g].done \subseteq Comps(content[data'[b][g].attempt])
        OBVIOUS
      <3>2. CASE g = f
        BY <3>1, <3>2
      <3>3. CASE g # f
        <4>1. data'[b][g] = data[b][g]
          BY <3>3
        <4>2. QED
          BY <2>2, <3>1, <4>1
      <3>4. QED
        BY <3>2, <3>3
    <2>4. QED
      BY <1>0, <1>3, <2>1, <2>3, FollowerTypes
  <1>5. LeaderAt'
    <2>1. \A g \in Followers : fpc'[g] = "down" => fpc[g] = "down"
      BY <1>3
    <2>2. Up' # {}
      BY <1>0, <2>1 DEF LeaderAt, Up, Alive
    <2>3. QED
      BY <1>0, <1>1, <2>2, KeepLeader
  <1>6. FollowerAt'
    <2>1. ASSUME NEW g \in Followers PROVE PlacedFor(g)'
      <3>1. CASE g = f
        BY <3>1
      <3>2. CASE g # f
        <4>1. PlacedFor(g)
          BY <1>0 DEF FollowerAt, PlacedFor
        <4>2. UNCHANGED <<fpc[g], fnum[g], fattempt[g], fcomps[g]>>
          BY <1>3, <3>2
        <4>3. QED
          BY <1>1, <4>1, <4>2 DEF PlacedFor
      <3>3. QED
        BY <3>1, <3>2
    <2>2. QED
      BY <2>1 DEF FollowerAt, PlacedFor
  <1>7. Given'
    <2>1. ASSUME NEW g \in Followers PROVE GivenFor(g)'
      <3>1. CASE g = f
        BY <3>1
      <3>2. CASE g # f
        <4>1. GivenFor(g)
          BY <1>0, GivenStill
        <4>2. UNCHANGED <<fpc[g], fnum[g], fcomps[g]>> /\ \A b \in Nums : UNCHANGED data[b][g]
          BY <1>3, <3>2
        <4>3. QED
          BY <1>1, <4>1, <4>2 DEF GivenFor, GivenTo
      <3>3. QED
        BY <3>1, <3>2
    <2>2. QED
      BY <1>0, <1>1, <2>1, GivenStill
  <1>8. Decided'
    <2>1. \A g \in Followers : fpc'[g] = "commit" =>
            commit[fnum'[g]] # "" /\ (restarts = 0 => run[fnum'[g]] = "finish")
      BY <1>0, <1>3 DEF Decided
    <2>2. QED
      BY <1>0, <1>1, <2>1 DEF Decided, Producing
  <1>9. DecisionSound'
    BY <1>0, <1>1 DEF DecisionSound
  <1>10. Counted'
    <2>1. ASSUME restarts = 0, NEW g \in Followers PROVE CountedFor(g)'
      <3>1. CASE g = f
        BY <2>1, <3>1
      <3>2. CASE g # f
        <4>1. CountedFor(g)
          BY <1>0, <2>1, CountedBy
        <4>2. /\ UNCHANGED <<fpc[g], fnum[g], fattempt[g], fcomps[g]>>
              /\ \A b \in Nums : UNCHANGED <<data[b][g], status[b][g]>>
          BY <1>3, <3>2
        <4>3. fpc[g] = "status" => fnum[g] \in Nums
          BY <1>0 DEF FollowerAt
        <4>4. ASSUME NEW b \in Nums
              PROVE  /\ data'[b][g].attempt # 0 =>
                          /\ data'[b][g].attempt = b
                          /\ \E t \in tables'[b] : data'[b][g].done = Assigned(t, g)
                     /\ status'[b][g] # None =>
                          /\ data'[b][g].attempt = b
                          /\ \E t \in tables'[b] : status'[b][g] = Size(content'[b], Assigned(t, g))
          <5>1. data'[b][g] = data[b][g] /\ status'[b][g] = status[b][g]
            BY <4>2
          <5>2. /\ data[b][g].attempt # 0 =>
                     /\ data[b][g].attempt = b
                     /\ \E t \in tables[b] : data[b][g].done = Assigned(t, g)
                /\ status[b][g] # None =>
                     /\ data[b][g].attempt = b
                     /\ \E t \in tables[b] : status[b][g] = Size(content[b], Assigned(t, g))
            BY <4>1 DEF CountedFor
          <5>3. QED
            BY <1>1, <5>1, <5>2
        <4>5. fpc'[g] = "status" => data'[fnum'[g]][g].attempt = fnum'[g]
          BY <1>1, <4>1, <4>2, <4>3 DEF CountedFor
        <4>6. /\ fpc'[g] \in {"block", "components"} => components'[fnum'[g]] \in tables'[fnum'[g]]
              /\ fpc'[g] \in {"components", "execute", "data", "status"} => fattempt'[g] = fnum'[g]
              /\ fpc'[g] \in {"execute", "data", "status"} =>
                   \E t \in tables'[fnum'[g]] : fcomps'[g] = Assigned(t, g)
          BY <1>1, <4>1, <4>2 DEF CountedFor
        <4>7. QED
          BY <4>4, <4>5, <4>6 DEF CountedFor
      <3>3. QED
        BY <3>1, <3>2
    <2>2. QED
      BY <1>0, <1>1, <2>1, CountedStill
  <1>11. Polled'
    <2>1. num # 0 => num \in Nums
      BY <1>0, Numbers DEF Nums
    <2>2. num # 0 => \A g \in Followers : status[num][g] # None => status'[num][g] # None
      BY <2>1
    <2>3. QED
      BY <1>0, <1>1, <2>2, KeepPolled DEF Stopped
  <1>12. QED
    BY <1>4, <1>5, <1>6, <1>7, <1>8, <1>9, <1>10, <1>11 DEF IInv

\* What a follower has under its keys, as the invariant has it.
LEMMA KeysNow ==
  ASSUME IInv, NEW f \in Followers, NEW b \in Nums
  PROVE  /\ data[b][f].attempt # 0 => data[b][f].done \subseteq Comps(content[data[b][f].attempt])
         /\ \A c \in data[b][f].done : GivenTo(b, c, f)
         /\ restarts = 0 =>
              /\ data[b][f].attempt # 0 =>
                   data[b][f].attempt = b /\ \E t \in tables[b] : data[b][f].done = Assigned(t, f)
              /\ status[b][f] # None =>
                   /\ data[b][f].attempt = b
                   /\ \E t \in tables[b] : status[b][f] = Size(content[b], Assigned(t, f))
  <1>0. TypeOK /\ Given /\ Counted
    BY DEF IInv
  <1>1. data[b][f].attempt # 0 => data[b][f].done \subseteq Comps(content[data[b][f].attempt])
    BY <1>0, FollowerTypesNow
  <1>2. \A c \in data[b][f].done : GivenTo(b, c, f)
    BY <1>0 DEF Given
  <1>3. QED
    BY <1>0, <1>1, <1>2, CountedBy DEF CountedFor

\* A step of a follower that puts no key: what it needs where it goes is all there is to show.
LEMMA ReadFrame ==
  ASSUME IInv, NEW f \in Followers, NEW l \in {"run", "components", "execute"},
         UNCHANGED unfollowed, UNCHANGED <<status, data, fstored, decision, crashes>>,
         fpc' = [fpc EXCEPT ![f] = l],
         fnum' \in [Followers -> 0 .. NBlocks], fattempt' \in [Followers -> 0 .. attempt],
         fcomps' \in [Followers -> SUBSET CompIds],
         \A g \in Followers \ {f} :
           fnum'[g] = fnum[g] /\ fattempt'[g] = fattempt[g] /\ fcomps'[g] = fcomps[g],
         fnum'[f] \in Nums, block[fnum'[f]] # 0,
         l # "run" => fattempt'[f] # 0,
         l = "execute" => fcomps'[f] \subseteq Comps(content[fattempt'[f]]),
         l = "execute" => \A c \in fcomps'[f] : GivenTo(fnum'[f], c, f),
         restarts = 0 =>
           /\ l = "components" => components[fnum'[f]] \in tables[fnum'[f]]
           /\ l # "run" => fattempt'[f] = fnum'[f]
           /\ l = "execute" => \E t \in tables[fnum'[f]] : fcomps'[f] = Assigned(t, f)
  PROVE  IInv'
  <1>0. TypeOK
    BY DEF IInv
  <1>1. UNCHANGED <<restarts, block, components, content, tables, attempt>>
    BY DEF unfollowed
  <1>2. /\ fpc \in [Followers -> Places]
        /\ status' \in [Nums -> [Followers -> Nat \cup {None}]]
        /\ data' \in [Nums -> [Followers -> [attempt : 0 .. attempt, done : SUBSET CompIds]]]
    BY <1>0, FollowerTypesNow
  <1>3. fpc'[f] = l /\ l \in Places \ {"down", "commit"}
    BY <1>2 DEF Places
  <1>4. \A b \in Nums : data'[b][f].attempt # 0 =>
          data'[b][f].done \subseteq Comps(content[data'[b][f].attempt])
    BY KeysNow
  <1>5. PlacedFor(f)'
    BY <1>1, <1>3 DEF PlacedFor
  <1>6. GivenFor(f)'
    <2>1. \A b \in Nums : \A c \in data[b][f].done : GivenTo(b, c, f)
      BY KeysNow
    <2>2. QED
      BY <1>1, <1>3, <2>1 DEF GivenFor, GivenTo
  <1>7. ASSUME restarts = 0 PROVE CountedFor(f)'
    <2>1. ASSUME NEW b \in Nums
          PROVE  /\ data'[b][f].attempt # 0 =>
                      /\ data'[b][f].attempt = b
                      /\ \E t \in tables'[b] : data'[b][f].done = Assigned(t, f)
                 /\ status'[b][f] # None =>
                      /\ data'[b][f].attempt = b
                      /\ \E t \in tables'[b] : status'[b][f] = Size(content'[b], Assigned(t, f))
      BY <1>1, <1>7, KeysNow
    <2>2. QED
      BY <1>1, <1>3, <1>7, <2>1 DEF CountedFor
  <1>8. QED
    BY <1>2, <1>3, <1>4, <1>5, <1>6, <1>7, WorkFrame

\* getLargestBlockNumber finds a block that is there.
LEMMA FindBlockStep ==
  ASSUME IInv, NEW f \in Followers, FindBlock(f)
  PROVE  IInv'
  <1>0. TypeOK
    BY DEF IInv
  <1>1. PICK b \in Present : b = CHOOSE e \in Present : \A d \in Present : d <= e
    <2>1. Present \in SUBSET (1 .. NBlocks) /\ Present # {}
      BY DEF FindBlock, Present, Nums
    <2>2. \E e \in Present : \A d \in Present : d <= e
      BY <2>1, BoundsAssumption, LargestExists
    <2>3. QED
      BY <2>2
  <1>2. /\ UNCHANGED unfollowed
        /\ UNCHANGED <<status, data, fstored, decision, crashes, fattempt, fcomps>>
        /\ fpc' = [fpc EXCEPT ![f] = "run"] /\ fnum' = [fnum EXCEPT ![f] = b]
    BY <1>1 DEF FindBlock, Move, envVars, etcd, leaderVars, monitorVars, unfollowed
  <1>3. /\ fnum \in [Followers -> 0 .. NBlocks] /\ fattempt \in [Followers -> 0 .. attempt]
        /\ fcomps \in [Followers -> SUBSET CompIds]
    BY <1>0, FollowerTypesNow
  <1>4. b \in Nums /\ block[b] # 0 /\ b \in 0 .. NBlocks
    BY BoundsAssumption DEF Present, Nums
  <1>5. /\ fnum' \in [Followers -> 0 .. NBlocks] /\ fnum'[f] = b
        /\ \A g \in Followers \ {f} : fnum'[g] = fnum[g]
    BY <1>2, <1>3, <1>4
  <1>6. QED
    BY <1>2, <1>3, <1>4, <1>5, ReadFrame

\* The block read is one the leader put.
LEMMA ReadBlockStep ==
  ASSUME IInv, NEW f \in Followers, ReadBlock(f)
  PROVE  IInv'
  <1>0. TypeOK /\ FollowerAt /\ Counted
    BY DEF IInv
  <1>1. /\ UNCHANGED unfollowed
        /\ UNCHANGED <<status, data, fstored, decision, crashes, fnum, fcomps>>
        /\ fpc' = [fpc EXCEPT ![f] = "components"]
        /\ fattempt' = [fattempt EXCEPT ![f] = block[fnum[f]]] /\ fpc[f] = "block"
    BY DEF ReadBlock, envVars, etcd, leaderVars, monitorVars, unfollowed
  <1>2. /\ fnum \in [Followers -> 0 .. NBlocks] /\ fattempt \in [Followers -> 0 .. attempt]
        /\ fcomps \in [Followers -> SUBSET CompIds]
    BY <1>0, FollowerTypesNow
  <1>3. fnum[f] \in Nums /\ block[fnum[f]] # 0
    BY <1>0, <1>1 DEF FollowerAt
  <1>4. block[fnum[f]] \in 0 .. attempt
    BY <1>0, <1>3 DEF TypeOK
  <1>5. /\ fattempt' \in [Followers -> 0 .. attempt] /\ fattempt'[f] = block[fnum[f]]
        /\ \A g \in Followers \ {f} : fattempt'[g] = fattempt[g]
    BY <1>1, <1>2, <1>4
  <1>6. restarts = 0 => /\ components[fnum[f]] \in tables[fnum[f]]
                        /\ block[fnum[f]] = fnum[f]
    BY <1>0, <1>1, <1>3 DEF Counted
  <1>7. QED
    BY <1>1, <1>2, <1>3, <1>5, <1>6, ReadFrame

\* ExtractComponents takes what the stored table gives to this node.
LEMMA GetComponentsStep ==
  ASSUME IInv, NEW f \in Followers, GetComponents(f)
  PROVE  IInv'
  <1>0. TypeOK /\ FollowerAt /\ Given /\ Counted
    BY DEF IInv
  <1>1. PICK n, a, t, S :
          /\ n = fnum[f] /\ a = fattempt[f] /\ t = components[n]
          /\ S = {c \in Comps(content[a]) \cap DOMAIN t : t[c] = f}
    OBVIOUS
  <1>2. /\ UNCHANGED unfollowed
        /\ UNCHANGED <<status, data, fstored, decision, crashes, fnum, fattempt>>
        /\ fpc' = [fpc EXCEPT ![f] = "execute"]
        /\ fcomps' = [fcomps EXCEPT ![f] = S] /\ fpc[f] = "components"
    BY <1>1 DEF GetComponents, envVars, etcd, leaderVars, monitorVars, unfollowed
  <1>3. /\ fnum \in [Followers -> 0 .. NBlocks] /\ fattempt \in [Followers -> 0 .. attempt]
        /\ fcomps \in [Followers -> SUBSET CompIds]
    BY <1>0, FollowerTypesNow
  <1>4. n \in Nums /\ block[n] # 0 /\ a # 0
    BY <1>0, <1>1, <1>2 DEF FollowerAt
  <1>5. content[a] \in Blocks
    <2>1. a \in 1 .. attempt
      BY <1>0, <1>1, <1>3, <1>4, Numbers
    <2>2. QED
      BY <1>0, <2>1, Numbers
  <1>6. S \in SUBSET CompIds
    BY <1>1, <1>5 DEF CompIds
  <1>7. /\ fcomps' \in [Followers -> SUBSET CompIds] /\ fcomps'[f] = S
        /\ \A g \in Followers \ {f} : fcomps'[g] = fcomps[g]
    BY <1>2, <1>3, <1>6
  <1>8. S \subseteq Comps(content[a])
    BY <1>1
  <1>9. \A c \in S : GivenTo(n, c, f)
    <2>1. t # NoTable => t \in tables[n]
      BY <1>0, <1>1, <1>4 DEF Given
    <2>2. S # {} => t # NoTable
      BY <1>1 DEF NoTable
    <2>3. QED
      BY <1>1, <2>1, <2>2 DEF GivenTo
  <1>10. ASSUME restarts = 0
         PROVE  a = n /\ t \in tables[n] /\ S = Assigned(t, f)
    <2>1. a = n /\ t \in tables[n]
      BY <1>0, <1>1, <1>2, <1>10 DEF Counted
    <2>2. DOMAIN t = Comps(content[n])
      BY <1>0, <1>4, <1>10, <2>1 DEF Counted
    <2>3. QED
      BY <1>1, <2>1, <2>2 DEF Assigned
  <1>11. QED
    BY <1>1, <1>2, <1>3, <1>4, <1>7, <1>8, <1>9, <1>10, ReadFrame

\* The data key gets what the follower executed ...
LEMMA PutDataStep ==
  ASSUME IInv, NEW f \in Followers, PutData(f)
  PROVE  IInv'
  <1>0. TypeOK /\ FollowerAt /\ Given /\ Counted
    BY DEF IInv
  <1>1. PICK n, a, S : n = fnum[f] /\ a = fattempt[f] /\ S = fcomps[f]
    OBVIOUS
  <1>2. /\ UNCHANGED unfollowed
        /\ UNCHANGED <<status, fstored, decision, crashes, fnum, fattempt, fcomps>>
        /\ fpc' = [fpc EXCEPT ![f] = "status"]
        /\ data' = [data EXCEPT ![n][f] = [attempt |-> a, done |-> S]] /\ fpc[f] = "data"
    BY <1>1 DEF PutData, envVars, etcd, leaderVars, monitorVars, unfollowed
  <1>3. UNCHANGED <<restarts, block, components, content, tables, attempt>>
    BY <1>2 DEF unfollowed
  <1>4. /\ fpc \in [Followers -> Places]
        /\ fnum \in [Followers -> 0 .. NBlocks] /\ fattempt \in [Followers -> 0 .. attempt]
        /\ fcomps \in [Followers -> SUBSET CompIds]
        /\ status \in [Nums -> [Followers -> Nat \cup {None}]]
        /\ data \in [Nums -> [Followers -> [attempt : 0 .. attempt, done : SUBSET CompIds]]]
    BY <1>0, FollowerTypesNow
  <1>5. n \in Nums /\ block[n] # 0 /\ a # 0 /\ S \subseteq Comps(content[a])
    BY <1>0, <1>1, <1>2 DEF FollowerAt
  <1>6. PICK r \in [attempt : 0 .. attempt, done : SUBSET CompIds] :
          r = [attempt |-> a, done |-> S] /\ r.attempt = a /\ r.done = S
    <2>1. a \in 0 .. attempt /\ S \in SUBSET CompIds
      BY <1>1, <1>4
    <2>2. [attempt |-> a, done |-> S] \in [attempt : 0 .. attempt, done : SUBSET CompIds]
      BY <2>1
    <2>3. QED
      BY <2>2
  <1>7. /\ data' \in [Nums -> [Followers -> [attempt : 0 .. attempt, done : SUBSET CompIds]]]
        /\ \A b \in Nums, g \in Followers :
             data'[b][g] = IF b = n /\ g = f THEN r ELSE data[b][g]
    BY <1>2, <1>4, <1>6
  <1>8. fpc'[f] = "status" /\ "status" \in Places \ {"down", "commit"}
    BY <1>2, <1>4 DEF Places
  <1>9. \A b \in Nums : data'[b][f].attempt # 0 =>
          data'[b][f].done \subseteq Comps(content[data'[b][f].attempt])
    <2>1. SUFFICES ASSUME NEW b \in Nums, data'[b][f].attempt # 0
                   PROVE  data'[b][f].done \subseteq Comps(content[data'[b][f].attempt])
      OBVIOUS
    <2>2. CASE b = n
      BY <1>5, <1>6, <1>7, <2>2
    <2>3. CASE b # n
      <3>1. data'[b][f] = data[b][f]
        BY <1>7, <2>3
      <3>2. QED
        BY <2>1, <3>1, KeysNow
    <2>4. QED
      BY <2>2, <2>3
  <1>10. PlacedFor(f)'
    BY <1>1, <1>2, <1>3, <1>5, <1>8 DEF PlacedFor
  <1>11. GivenFor(f)'
    <2>1. \A c \in S : GivenTo(n, c, f)
      BY <1>0, <1>1, <1>2 DEF Given
    <2>2. ASSUME NEW b \in Nums, NEW c \in data'[b][f].done
          PROVE  GivenTo(b, c, f)
      <3>1. CASE b = n
        BY <1>6, <1>7, <2>1, <2>2, <3>1
      <3>2. CASE b # n
        BY <1>7, <2>2, <3>2, KeysNow
      <3>3. QED
        BY <3>1, <3>2
    <2>3. QED
      BY <1>3, <1>8, <2>2 DEF GivenFor, GivenTo
  <1>12. ASSUME restarts = 0 PROVE CountedFor(f)'
    <2>1. a = n /\ \E t \in tables[n] : S = Assigned(t, f)
      BY <1>0, <1>1, <1>2, <1>12 DEF Counted
    <2>2. ASSUME NEW b \in Nums
          PROVE  /\ data'[b][f].attempt # 0 =>
                      /\ data'[b][f].attempt = b
                      /\ \E t \in tables'[b] : data'[b][f].done = Assigned(t, f)
                 /\ status'[b][f] # None =>
                      /\ data'[b][f].attempt = b
                      /\ \E t \in tables'[b] : status'[b][f] = Size(content'[b], Assigned(t, f))
      <3>1. /\ data[b][f].attempt # 0 =>
                 data[b][f].attempt = b /\ \E t \in tables[b] : data[b][f].done = Assigned(t, f)
            /\ status[b][f] # None =>
                 /\ data[b][f].attempt = b
                 /\ \E t \in tables[b] : status[b][f] = Size(content[b], Assigned(t, f))
        BY <1>12, KeysNow
      <3>2. CASE b = n
        BY <1>2, <1>3, <1>6, <1>7, <2>1, <3>1, <3>2
      <3>3. CASE b # n
        BY <1>2, <1>3, <1>7, <3>1, <3>3
      <3>4. QED
        BY <3>2, <3>3
    <2>3. data'[fnum'[f]][f].attempt = fnum'[f]
      BY <1>1, <1>2, <1>5, <1>6, <1>7, <2>1
    <2>4. QED
      BY <1>1, <1>2, <1>3, <1>8, <2>1, <2>2, <2>3 DEF CountedFor
  <1>13. \A b \in Nums : \A g \in Followers \ {f} :
           data'[b][g] = data[b][g] /\ status'[b][g] = status[b][g]
    BY <1>2, <1>7
  <1>14. QED
    BY <1>2, <1>4, <1>7, <1>8, <1>9, <1>10, <1>11, <1>12, <1>13, WorkFrame

\* ... and the status key its count, once the data is there.
LEMMA PutStatusStep ==
  ASSUME IInv, NEW f \in Followers, PutStatus(f)
  PROVE  IInv'
  <1>0. TypeOK /\ FollowerAt /\ Given /\ Counted
    BY DEF IInv
  <1>1. PICK n, a, S, k : n = fnum[f] /\ a = fattempt[f] /\ S = fcomps[f] /\ k = Size(content[a], S)
    OBVIOUS
  <1>2. /\ UNCHANGED unfollowed
        /\ UNCHANGED <<data, fstored, decision, crashes, fnum, fattempt, fcomps>>
        /\ fpc' = [fpc EXCEPT ![f] = "finish"]
        /\ status' = [status EXCEPT ![n][f] = k] /\ fpc[f] = "status"
    BY <1>1 DEF PutStatus, envVars, etcd, leaderVars, monitorVars, unfollowed
  <1>3. UNCHANGED <<restarts, block, components, content, tables, attempt>>
    BY <1>2 DEF unfollowed
  <1>4. /\ fpc \in [Followers -> Places]
        /\ fnum \in [Followers -> 0 .. NBlocks] /\ fattempt \in [Followers -> 0 .. attempt]
        /\ fcomps \in [Followers -> SUBSET CompIds]
        /\ status \in [Nums -> [Followers -> Nat \cup {None}]]
        /\ data \in [Nums -> [Followers -> [attempt : 0 .. attempt, done : SUBSET CompIds]]]
    BY <1>0, FollowerTypesNow
  <1>5. n \in Nums /\ block[n] # 0 /\ a # 0
    BY <1>0, <1>1, <1>2 DEF FollowerAt
  <1>6. k \in Nat /\ k # None
    <2>1. a \in 1 .. attempt
      BY <1>0, <1>1, <1>4, <1>5, Numbers
    <2>2. content[a] \in Blocks
      BY <1>0, <2>1, Numbers
    <2>3. k \in Nat
      BY <1>1, <2>2, TxnsFinite
    <2>4. QED
      BY <2>3 DEF None
  <1>7. /\ status' \in [Nums -> [Followers -> Nat \cup {None}]]
        /\ \A b \in Nums, g \in Followers :
             status'[b][g] = IF b = n /\ g = f THEN k ELSE status[b][g]
    BY <1>2, <1>4, <1>6
  <1>8. fpc'[f] = "finish" /\ "finish" \in Places \ {"down", "commit"}
    BY <1>2, <1>4 DEF Places
  <1>9. \A b \in Nums : data'[b][f].attempt # 0 =>
          data'[b][f].done \subseteq Comps(content[data'[b][f].attempt])
    BY <1>2, KeysNow
  <1>10. PlacedFor(f)'
    BY <1>1, <1>2, <1>3, <1>5, <1>8 DEF PlacedFor
  <1>11. GivenFor(f)'
    <2>1. \A b \in Nums : \A c \in data[b][f].done : GivenTo(b, c, f)
      BY KeysNow
    <2>2. QED
      BY <1>2, <1>3, <1>8, <2>1 DEF GivenFor, GivenTo
  <1>12. ASSUME restarts = 0 PROVE CountedFor(f)'
    <2>1. a = n /\ data[n][f].attempt = n /\ \E t \in tables[n] : S = Assigned(t, f)
      BY <1>0, <1>1, <1>2, <1>12 DEF Counted
    <2>2. ASSUME NEW b \in Nums
          PROVE  /\ data'[b][f].attempt # 0 =>
                      /\ data'[b][f].attempt = b
                      /\ \E t \in tables'[b] : data'[b][f].done = Assigned(t, f)
                 /\ status'[b][f] # None =>
                      /\ data'[b][f].attempt = b
                      /\ \E t \in tables'[b] : status'[b][f] = Size(content'[b], Assigned(t, f))
      <3>1. /\ data[b][f].attempt # 0 =>
                 data[b][f].attempt = b /\ \E t \in tables[b] : data[b][f].done = Assigned(t, f)
            /\ status[b][f] # None =>
                 /\ data[b][f].attempt = b
                 /\ \E t \in tables[b] : status[b][f] = Size(content[b], Assigned(t, f))
        BY <1>12, KeysNow
      <3>2. CASE b = n
        BY <1>1, <1>2, <1>3, <1>7, <2>1, <3>1, <3>2
      <3>3. CASE b # n
        BY <1>2, <1>3, <1>7, <3>1, <3>3
      <3>4. QED
        BY <3>2, <3>3
    <2>3. QED
      BY <1>8, <2>2 DEF CountedFor
  <1>13. \A b \in Nums : \A g \in Followers \ {f} :
           data'[b][g] = data[b][g] /\ status'[b][g] = status[b][g]
    BY <1>2, <1>7
  <1>14. \A b \in Nums : status[b][f] # None => status'[b][f] # None
    BY <1>6, <1>7
  <1>15. QED
    BY <1>2, <1>4, <1>7, <1>8, <1>9, <1>10, <1>11, <1>12, <1>13, <1>14, WorkFrame

\* A step that changes nothing.
LEMMA StutterStep ==
  ASSUME IInv, UNCHANGED vars
  PROVE  IInv'
  <1>0. /\ TypeOK /\ LeaderAt /\ FollowerAt /\ Given /\ Decided /\ DecisionSound /\ Counted
        /\ Polled
    BY DEF IInv
  <1>1. /\ UNCHANGED <<memberOrder, mode, crashes, restarts, block, run, commit, components, status>>
        /\ UNCHANGED <<data, content, lpc, num, attempt, healthy, ids, active, table, serialized>>
        /\ UNCHANGED <<poll, completed, LatestBlock, mon, monTable, fpc, fnum, fattempt, fcomps>>
        /\ UNCHANGED <<fstored, decision, tables>>
    BY DEF vars, envVars, etcd, leaderVars, monitorVars, followerVars
  <1>2. TypeOK'
    BY <1>0, <1>1 DEF TypeOK
  <1>3. LeaderAt'
    <2>1. Up' # {}
      BY <1>0, <1>1 DEF LeaderAt, Up, Alive
    <2>2. QED
      BY <1>0, <1>1, <2>1, KeepLeader
  <1>4. FollowerAt' /\ Given'
    BY <1>0, <1>1, KeepFollowers, KeepGiven
  <1>5. Decided'
    BY <1>0, <1>1 DEF Decided, Producing
  <1>6. DecisionSound'
    BY <1>0, <1>1 DEF DecisionSound
  <1>7. Counted'
    BY <1>0, <1>1, KeepCounted DEF Stopped
  <1>8. Polled'
    BY <1>0, <1>1, KeepPolled DEF Stopped
  <1>9. QED
    BY <1>2, <1>3, <1>4, <1>5, <1>6, <1>7, <1>8 DEF IInv

\* Every step keeps the invariant.
LEMMA NextStep ==
  ASSUME IInv, [Next]_vars
  PROVE  IInv'
  <1>1. CASE Leader
    BY <1>1, ProduceStep, PutBlockStep, PutRunStep, PutCommitStep, AssignStep, PutTableStep,
       PollMemberStep, PollEndStep, StoreStep DEF Leader
  <1>2. CASE Monitor
    BY <1>2, MonitorScanStep, MonitorStopStep, PutTableStep DEF Monitor
  <1>3. CASE LeaderCrash \/ LeaderRestart
    BY <1>3, LeaderCrashStep
  <1>4. ASSUME NEW f \in Followers, Follower(f) \/ FollowerStop(f) \/ Crash(f) \/ Recover(f)
        PROVE  IInv'
    <2>1. CASE Follower(f)
      BY <2>1, FindBlockStep, MoveStep, ReadBlockStep, GetComponentsStep, PutDataStep,
         PutStatusStep, CommitStep DEF Follower
    <2>2. CASE FollowerStop(f) \/ Recover(f)
      BY <2>2, MoveStep
    <2>3. CASE Crash(f)
      BY <2>3, CrashStep
    <2>4. QED
      BY <1>4, <2>1, <2>2, <2>3
  <1>5. CASE UNCHANGED vars
    BY <1>5, StutterStep
  <1>6. QED
    BY <1>1, <1>2, <1>3, <1>4, <1>5 DEF Next

-----------------------------------------------------------------------------
\* The inductive invariant holds in every state of the protocol (leaderProtocol, monitorComponents,
\* startBlock and main), whatever the cluster, its blocks and the number of crashes.
THEOREM Invariance == Spec => []IInv
  <1>1. QED
    BY InitIInv, NextStep, PTL DEF Spec

\* A follower saves or resets its global state (startBlock's commit branch) only for a block the
\* leader has called finished, while the leader's process lives; in validation mode it never
\* resets, whichever crashes and restarts there were.
THEOREM DecisionIsSound == Spec => []DecisionInv
  <1>1. IInv => DecisionInv
    BY DEF IInv, DecisionInv
  <1>2. QED
    BY <1>1, Invariance, PTL

\* As long as one table is stored under a block's components key, no component of an attempt is
\* written (startBlock's data key) by two followers.
THEOREM SingleWriter == Spec => []OneWriter
  <1>1. ASSUME IInv PROVE OneWriter
    <2>1. Given
      BY <1>1 DEF IInv
    <2>2. SUFFICES ASSUME NEW b \in Nums, Cardinality(tables[b]) <= 1,
                          NEW f \in Followers, NEW g \in Followers,
                          data[b][f].done \cap data[b][g].done # {}
                   PROVE  f = g
      BY DEF OneWriter
    <2>3. PICK c : c \in data[b][f].done /\ c \in data[b][g].done
      BY <2>2
    <2>4. GivenTo(b, c, f) /\ GivenTo(b, c, g)
      BY <2>1, <2>3 DEF Given
    <2>5. PICK s, t \in tables[b] : s[c] = f /\ t[c] = g
      BY <2>4 DEF GivenTo
    <2>6. IsFiniteSet(tables[b])
      BY <2>1 DEF Given
    <2>7. s = t
      BY <2>2, <2>5, <2>6, OneTable
    <2>8. QED
      BY <2>5, <2>7
  <1>2. QED
    BY <1>1, Invariance, PTL

\* When checkComponents returns, every component of the leader's block has been executed and its
\* writes are under a data key, provided the leader's process has not restarted and the monitor
\* stored no second table for the block.
THEOREM DoneIsDone == Spec => []DoneUnlessReassigned
  <1>1. ASSUME IInv PROVE DoneUnlessReassigned
    <2>1. SUFFICES ASSUME restarts = 0, num # 0, Cardinality(tables[num]) <= 1, Stopped,
                          NEW c \in Comps(content[attempt])
                   PROVE  \E f \in Followers :
                            data[num][f].attempt = attempt /\ c \in data[num][f].done
      BY DEF DoneUnlessReassigned, AllComponentsDone
    <2>2. Given /\ Counted /\ Polled
      BY <1>1 DEF IInv
    <2>3. num = attempt /\ num \in Nums
      BY <1>1, <2>1, OneAttempt DEF Stopped, Producing
    <2>4. PICK t \in tables[num] : t = components[num]
      BY <2>1, <2>2 DEF Counted
    <2>5. DOMAIN t = Comps(content[num])
      BY <2>1, <2>2, <2>3, <2>4 DEF Counted
    <2>6. \A d \in DOMAIN t : t[d] \in Followers /\ status[num][t[d]] # None
      BY <2>1, <2>2, <2>4 DEF Polled
    <2>7. PICK f \in Followers : f = t[c] /\ status[num][f] # None /\ c \in DOMAIN t
      BY <2>1, <2>3, <2>5, <2>6
    <2>8. num # 0 /\ data[num][f].attempt = num
      BY <1>1, <2>1, <2>3, <2>7, KeysNow
    <2>9. PICK s \in tables[num] : data[num][f].done = Assigned(s, f)
      BY <1>1, <2>1, <2>3, <2>8, KeysNow
    <2>10. IsFiniteSet(tables[num])
      BY <2>2, <2>3 DEF Given
    <2>11. s = t
      BY <2>1, <2>4, <2>9, <2>10, OneTable
    <2>12. c \in data[num][f].done
      BY <2>7, <2>9, <2>11 DEF Assigned
    <2>13. QED
      BY <2>3, <2>8, <2>12
  <1>2. QED
    BY <1>1, Invariance, PTL

=============================================================================
