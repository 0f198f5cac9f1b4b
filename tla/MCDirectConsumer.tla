-------------------------- MODULE MCDirectConsumer ---------------------------
(***************************************************************************)
(* Instances of DirectConsumer for TLC: two databases, alarms of every kind. *)
(***************************************************************************)
EXTENDS DirectConsumer

CONSTANTS db1, db2, t1, t2, ip1

MCDbs == {db1, db2}

Alarm(d, t, k) == [db |-> d, tag |-> t, ip |-> ip1, kind |-> k]

MCAlarms == {Alarm(db1, t1, "good"), Alarm(db2, t1, "good"), Alarm(db1, t2, "untagged"),
             Alarm(db2, t1, "refused"), Alarm(db1, t1, "alien")}

MCModes == [consumer : {MetricsFlowConsumer, MetricsAlarmConsumer, P2pKadinfoConsumer},
            catches : BOOLEAN]
=============================================================================
