---------------------------- MODULE MCStoreQuery ----------------------------
(***************************************************************************)
(* Instances of StoreQuery for TLC.                                         *)
(***************************************************************************)
EXTENDS StoreQuery

CONSTANTS t1, t2, t3

MCThreads == {t1, t2, t3}
=============================================================================
