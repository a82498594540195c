------------------------------- MODULE MCRetry -------------------------------
(***************************************************************************)
(* Small instances of Retry for TLC.                                       *)
(***************************************************************************)
EXTENDS Retry

\* At once, an ordinary wait, the cap, and a wait beyond it.
SampleSeconds == {0, 2, 60, 3600}
==============================================================================
