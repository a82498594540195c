---------------------------- MODULE MCKeyRotation ----------------------------
(***************************************************************************)
(* Small instances of KeyRotation for TLC.                                 *)
(***************************************************************************)
EXTENDS KeyRotation

CONSTANTS k1, k2, k3, mistyped

NoKeys == {}

(* Around the expiry of a file that lives 100 s: the last second of the      *)
(* tolerance, the first after it, and the least time of the clock.           *)
Least == -1000
Around == {Least, 160, 161}
TwoTimes == {0, 161}
=============================================================================
