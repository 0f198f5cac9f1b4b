---------------------------- MODULE MCAlarmQueue ----------------------------
(***************************************************************************)
(* Instances of AlarmQueue for TLC: one list with a consumer, one without  *)
(* (an alarm_type main_consumer.py knows nothing of), a request that raises *)
(* half-way and an empty one.                                              *)
(***************************************************************************)
EXTENDS AlarmQueue

CONSTANTS w1, w2, timer, unknown, bad

MCWorkers == {w1, w2}
MCKeys == {timer, unknown}
MCConsumed == {timer}
MCBatches == {<<>>, <<timer, bad, timer>>, <<timer, timer>>, <<unknown, unknown>>}
=============================================================================
