--------------------------- MODULE MCConsensusRate ---------------------------
(***************************************************************************)
(* Instance of ConsensusRate for TLC: two nodes, which report the counters     *)
(* up to three times, and count at most one event that no sample shows       *)
(* before they restart.                                                    *)
(***************************************************************************)
EXTENDS ConsensusRate, TLC

CONSTANTS ip1, ip2

MCNodes == {ip1, ip2}
MCSymmetry == Permutations(MCNodes)
=============================================================================
