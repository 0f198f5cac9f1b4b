-------------------------- MODULE MCMetricsConsumer --------------------------
(***************************************************************************)
(* Instances of MetricsConsumer for TLC: two databases, one of them a relay *)
(* database, and alarms of every kind.                                     *)
(***************************************************************************)
EXTENDS MetricsConsumer

CONSTANTS main, relay, t1, t2, ip1, ip2

MCDbs == {main, relay}
MCRelay == {relay}

Alarm(d, t, p, k) == [db |-> d, tag |-> t, ip |-> p, kind |-> k]

MCAlarms == {Alarm(main, t1, ip1, "good"), Alarm(relay, t1, ip1, "good"),
             Alarm(main, t2, ip1, "untagged"), Alarm(main, t1, ip2, "refused"),
             Alarm(relay, t1, ip2, "alien")}
\* With exceptions caught, metrics_array_counter never ends a batch with a flush and
\* is metrics_counter without relay databases.
MCModes == [consumer : {MetricsCounterConsumer}, catches : BOOLEAN]
             \cup [consumer : {MetricsArrayCounterConsumer, P2PTestSendRecordConsumer},
                   catches : {FALSE}]
CounterMode == [consumer : {MetricsCounterConsumer}, catches : {FALSE}]
MCFewAlarms == {Alarm(main, t1, ip1, "good"), Alarm(main, t2, ip1, "untagged")}
=============================================================================
