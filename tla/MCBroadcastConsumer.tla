----------------------- MODULE MCBroadcastConsumer -----------------------
(***************************************************************************)
(* Instances of BroadcastConsumer for TLC: two messages and two nodes, and a     *)
(* third message that is received over and over.                            *)
(***************************************************************************)
EXTENDS BroadcastConsumer

CONSTANTS m1, m2, m3, n1, n2

Packet(m, t, n) == [hash |-> m, type |-> t, node |-> n]

MCNodes == {n1, n2}
Good == {Packet(m1, "send", n1), Packet(m1, "recv", n1), Packet(m1, "recv", n2),
         Packet(m2, "send", n1), Packet(m2, "recv", n2)}

MCTraffic == {Packet(m3, "recv", n1)}
MCPackets == Good \cup {Packet(m1, "partial", n2), Packet(m2, "untimed", n1)} \cup MCTraffic
=============================================================================
