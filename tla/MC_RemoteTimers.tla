-------------------------- MODULE MC_RemoteTimers --------------------------
(* A 2-second timeout, so the idle deadline of 120 seconds after an       *)
(* upstream read is far from the 2 seconds before it, and two calls of   *)
(* remote_recv_cb, so the timer is restarted after a back-pressure stall. *)
EXTENDS RemoteTimers

MC_T == 2
MC_MaxRecvCalls == 2
=============================================================================
