------------------------- MODULE MCTransactionQueue -------------------------
(***************************************************************************)
(* Instance of TransactionQueue for TLC.                                   *)
(***************************************************************************)
EXTENDS TransactionQueue
=============================================================================
