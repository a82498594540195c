----------------------------- MODULE MCHeartbeat -----------------------------
(***************************************************************************)
(* Small instances of Heartbeat for TLC.                                   *)
(***************************************************************************)
EXTENDS Heartbeat

(* Windows too short for the divisor, windows around it, one that 3 does not *)
(* divide, and the fallback.                                                 *)
Windows == {1, 2, 3, 4, 6, Unset}
=============================================================================
