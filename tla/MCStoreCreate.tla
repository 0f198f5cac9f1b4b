--------------------------- MODULE MCStoreCreate ----------------------------
(***************************************************************************)
(* Instances of StoreCreate for TLC: three processes, one of which keeps its *)
(* Store though statements fail, and three tables.                          *)
(***************************************************************************)
EXTENDS StoreCreate

CONSTANTS p1, p2, p3

MCProcs == {p1, p2, p3}
MCKeepers == {p1}
TwoProcs == {p1, p2}
=============================================================================
