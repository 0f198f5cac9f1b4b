---------------------------- MODULE MCSupervisor -----------------------------
(***************************************************************************)
(* Two of the 16 types, one of them the end of the other, as metrics_counter   *)
(* and metrics_array_counter are; one gunicorn worker; a dashboard restarted    *)
(* every other round; one death or one stranger, at any moment.                 *)
(***************************************************************************)
EXTENDS Supervisor

MCTypes == {<<"metrics", "counter">>, <<"metrics", "array", "counter">>}
=============================================================================
