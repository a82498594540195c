-------------------------- MODULE MCProcessRelease --------------------------
(***************************************************************************)
(* Small instances of ProcessRelease for TLC.                              *)
(***************************************************************************)
EXTENDS ProcessRelease, TLC

CONSTANTS r1, r2

Sym == Permutations(Releasers)
=============================================================================
