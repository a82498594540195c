---------------------------- MODULE MCActivation ----------------------------
(***************************************************************************)
(* Small instances of Activation for TLC.                                  *)
(***************************************************************************)
EXTENDS Activation, TLC

CONSTANTS c1, c2, c3, l1, l2, f1, f2

Sym == Permutations(Calls)

(* Racing calls: both methods and two machines for the seat of l1, and one   *)
(* call that wants no rollback, for l1 or of f1 on l2.                       *)
Arg(i, l, f, d) == [idempotent |-> i, license |-> l, fingerprint |-> f, autoDelete |-> d]
BothMethods   == {Arg(TRUE, l1, f1, TRUE), Arg(FALSE, l1, f2, TRUE)}
OneSeatArgs   == BothMethods \cup {Arg(TRUE, l1, f2, FALSE)}
TwoPolicyArgs == BothMethods \cup {Arg(TRUE, l2, f1, FALSE)}

(* Activations of the machine f1 only.                                       *)
ReactivationArgs == {Arg(TRUE, l1, f1, TRUE)}

Left(i, l, f) == [id |-> i, license |-> l, fingerprint |-> f, by |-> Earlier]
NothingInstalled == {}
L2Taken          == {Left(1, l2, f2)}
BothInstalled    == {Left(1, l1, f2), Left(2, l1, f1)}

OneEach == [l \in Licenses |-> 1]
Ample   == [l \in Licenses |-> Cardinality(Calls \cup Installed)]

(* The policy of l1 lets creates pass and keeps fingerprints unique on l1;   *)
(* that of l2 refuses creates over the limit and looks at both licences.     *)
L2Strict    == [l \in Licenses |-> IF l = l1 THEN Cardinality(Calls \cup Installed) ELSE 1]
L2SeesBoth  == [l \in Licenses |-> IF l = l1 THEN {l1} ELSE Licenses]
OwnLicense  == [l \in Licenses |-> {l}]

F2ResemblesF1 == {<<f1, f2>>}
NoResemblance == {}
=============================================================================
