-------------------------- MODULE MCDatabaseManager --------------------------
(***************************************************************************)
(* Instances of DatabaseManager for TLC: two databases, one of yesterday.   *)
(***************************************************************************)
EXTENDS DatabaseManager

CONSTANTS old, new

MCDbs == {old, new}
MCYesterday == {old}
=============================================================================
