------------------------------ MODULE MCIdentity ------------------------------
(***************************************************************************)
(* A small instance of Identity for TLC: two hosts, the second of which    *)
(* reads like the first to any canonicalisation that forgets a rule.       *)
(***************************************************************************)
EXTENDS Identity, TLC

CONSTANTS c1, c2, l1, h1, h2

Tab == 9
Space == 32
a == 97
b == 98
One == 49
Two == 50
Read(label, value) == [label |-> label, value |-> value]

Plain == <<Read(<<a>>, <<One>>), Read(<<b>>, <<Two>>)>>

Similar == <<Read(<<a>>, <<One, Space, b, EqualsSign, Two>>)>>

ReadingsOf ==
    (h1 :> {Plain,
            <<Read(<<b>>, <<Space, Two>>), Read(<<a>>, <<One, Tab>>)>>})
    @@ (h2 :> {\* no separator but 0x1F keeps this one apart
               Similar,
               \* flawed: a separator in a value, and in a label
               <<Read(<<a>>, <<One, UNIT_SEPARATOR, b, EqualsSign, Two>>)>>,
               <<Read(<<a, EqualsSign, One, UNIT_SEPARATOR, b>>, <<Two>>)>>,
               \* flawed: which of the two values?
               <<Read(<<a>>, <<One>>), Read(<<b>>, <<Two>>), Read(<<b>>, <<Two>>)>>,
               \* flawed: nothing was read
               <<>>})

Texts   == {Canonical(r) : r \in UNION {Identifying(h) : h \in Hosts}}
Digests == CHOOSE d \in [Texts -> Fingerprints] :
              \A s, t \in Texts : d[s] = d[t] => s = t
Digest(text) == Digests[text]

Activates(i, h, f) == [idempotent |-> i, license |-> l1, fingerprint |-> f,
                       autoDelete |-> i, host |-> h]
HostArgs == UNION {{Activates(i, h, f) : i \in BOOLEAN, f \in Identities[h]} : h \in Hosts}

Left(i, r) == [id |-> i, license |-> l1, fingerprint |-> Digest(Canonical(r)), by |-> Earlier]
BothInstalled == {Left(1, Similar), Left(2, Plain)}
OneSeat       == [l \in Licenses |-> 1]
TwoRows       == [l \in Licenses |-> 2]
OwnLicense    == [l \in Licenses |-> {l}]
AllAlike      == Fingerprints \X Fingerprints
=============================================================================
