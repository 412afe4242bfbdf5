-------------------------- MODULE MCServiceHealth ---------------------------
(* One service and one key: distinct objects share nothing but the clock.   *)
EXTENDS ServiceHealth
=============================================================================
