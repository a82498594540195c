----------------------------- MODULE MCDownload -----------------------------
(***************************************************************************)
(* A small instance of Download for TLC: artifacts below, at and above the *)
(* ceiling.                                                                *)
(***************************************************************************)
EXTENDS Download

Around == {0, 1, MaxBytes - 1, MaxBytes, MaxBytes + 1, 2 * MaxBytes}
=============================================================================
