------------------------------- MODULE MCCalls -------------------------------
(***************************************************************************)
(* A small instance of Calls for TLC.                                      *)
(***************************************************************************)
EXTENDS Calls

\* At once, and a wait beyond the cap; the other delays are the back-off's.
SampleSeconds == {0, 3600}

\* Nowhere, first, around the server's default page, around its ceiling.
SamplePositions == {0, 1, 25, 26, 100, 101}

\* None, and a caller's small page.
SampleLimits == {0, 10}
==============================================================================
