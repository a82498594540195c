----------------------------- MODULE Fingerprint -----------------------------
(***************************************************************************)
(* fingerprint::canonical and compute: how labelled components become the  *)
(* one string that stands for a machine.  Text is a sequence of code       *)
(* points; UTF-8 orders them as it orders its bytes.                       *)
(***************************************************************************)
EXTENDS Integers, Sequences, FiniteSetsExt

CONSTANT Sha256(_)  \* the digest, in hex

UNIT_SEPARATOR   == 31
ASCII_WHITESPACE == {32, 9, 13, 10, 11, 12}
EqualsSign       == 61
DOMAIN_PREFIX    == <<"tamga-fingerprint-v1">>

IsAsciiControl(c) == c < 32 \/ c = 127
IsAsciiGraphic(c) == c \in 33..126

\* trim_matches with ASCII_WHITESPACE.
Trimmed(text) ==
    LET kept == {i \in DOMAIN text : text[i] \notin ASCII_WHITESPACE}
    IN  IF kept = {} THEN <<>> ELSE SubSeq(text, Min(kept), Max(kept))

ValidLabel(label) == \A c \in Range(label) : IsAsciiGraphic(c) /\ c # EqualsSign

\* Ord for str: s ends where t goes on, or is less at the first difference.
Precedes(s, t) ==
    \E i \in DOMAIN t : /\ i <= Len(s) + 1
                        /\ \A j \in 1..(i - 1) : s[j] = t[j]
                        /\ i <= Len(s) => s[i] < t[i]

\* A labelled value; the labels and values are whatever the caller passes.
Component == [label : Seq(Int), value : Seq(Int)]

Part(component) == component.label \o <<EqualsSign>> \o Trimmed(component.value)
Parts(components) == [i \in DOMAIN components |-> Part(components[i])]

-----------------------------------------------------------------------------
(* What canonical refuses, component by component.                         *)

Accepted == "none"

\* Mutant of Flaw: values are not looked at.
FlawOfLabel(components, i) ==
    LET label == components[i].label
    IN  IF label = <<>> THEN "EmptyLabel"
        ELSE IF ~ValidLabel(label) THEN "InvalidLabel"
        ELSE IF \E j \in 1..(i - 1) : components[j].label = label THEN "DuplicateLabel"
        ELSE Accepted

\* The error of the loop's i-th turn.
Flaw(components, i) ==
    LET label == components[i].label
    IN  IF label = <<>> THEN "EmptyLabel"
        ELSE IF ~ValidLabel(label) THEN "InvalidLabel"
        ELSE IF \E j \in 1..(i - 1) : components[j].label = label THEN "DuplicateLabel"
        ELSE IF \E c \in Range(Trimmed(components[i].value)) : IsAsciiControl(c)
             THEN "ControlCharacterInValue"
        ELSE Accepted

FingerprintError(components) ==
    LET flawed == {i \in DOMAIN components : Flaw(components, i) # Accepted}
    IN  IF flawed # {} THEN Flaw(components, Min(flawed))
        ELSE IF components = <<>> THEN "NoComponents" ELSE Accepted

-----------------------------------------------------------------------------
(* The canonical string and its digest.                                    *)

\* parts.sort_unstable(): no two parts are equal, so the i-th is the one
\* that i - 1 others precede.
Sorted(parts) ==
    [i \in 1..Len(parts) |-> CHOOSE p \in Range(parts) :
        Cardinality({q \in Range(parts) : Precedes(q, p)}) = i - 1]

\* The string after the n-th turn of the loop over the parts.
Joined(parts) ==
    LET out[n \in 0..Len(parts)] ==
            IF n = 0 THEN DOMAIN_PREFIX
            ELSE out[n - 1] \o <<UNIT_SEPARATOR>> \o parts[n]
    IN  out[Len(parts)]

\* Mutant of Canonical: the caller's order is part of the identity.
CanonicalUnsorted(components) == Joined(Parts(components))

Canonical(components) == Joined(Sorted(Parts(components)))

Compute(components) == Sha256(Canonical(components))
==============================================================================
