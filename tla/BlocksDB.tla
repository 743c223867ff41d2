------------------------------ MODULE BlocksDB ------------------------------
(***************************************************************************)
(* The block database (blocksDB.h): a RocksDB with a key per block and the *)
(* key "LatestBlock".  A database is [latest, blocks, pending]: the number *)
(* LatestBlock names, -1 if the key is missing, the blocks stored under    *)
(* "B<n>" and the numbers stored under "PB<n>".  A block is [num, txns,    *)
(* hash].                                                                  *)
(***************************************************************************)
EXTENDS Integers, Sequences, FiniteSets

EmptyDB == [latest |-> -1, blocks |-> [n \in {} |-> 0], pending |-> {}]

\* storeBlock makes two writes; a crash can come between them.
PutLatest(db, n) == [db EXCEPT !.latest = n]
PutBlock(db, n, b) ==
  [db EXCEPT !.blocks = [m \in DOMAIN db.blocks \cup {n} |-> IF m = n THEN b ELSE db.blocks[m]]]

storePendingBlock(db, n) == [db EXCEPT !.pending = @ \cup {n}]

\* The text getBlock returns for a missing block is not empty.
NotFound == [num |-> -1, txns |-> <<>>, hash |-> <<"error getting block">>]
getBlock(db, n) == IF n \in DOMAIN db.blocks THEN db.blocks[n] ELSE NotFound

\* The callers of getLatestBlockNum take anything but "B<n>" for 0.
LatestBlockNum(db) == IF db.latest = -1 THEN 0 ELSE db.latest
=============================================================================
