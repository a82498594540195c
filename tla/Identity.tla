------------------------------- MODULE Identity -------------------------------
(***************************************************************************)
(* Activation by hosts: every call takes its fingerprint from a reading of *)
(* the hardware it runs on, and no two readings of a host need look alike. *)
(***************************************************************************)
EXTENDS Activation, Fingerprint

CONSTANTS
    Hosts,          \* the machines the application is installed on
    Readings        \* [Hosts -> sets of component lists]: what may be read

\* A flawed reading stops the application before the call.
Identifying(h) == {r \in Readings[h] : FingerprintError(r) = Accepted}

\* The fingerprints a host may come up with.
Identities == [h \in Hosts |-> {Compute(r) : r \in Identifying(h)}]

\* Every call names, as its host, the machine its fingerprint was read on.
ASSUME IdentityAssumption ==
    /\ DOMAIN Readings = Hosts
    /\ \A h \in Hosts : Readings[h] \subseteq Seq(Component)
    /\ \A a \in Args : a.host \in Hosts /\ a.fingerprint \in Identities[a.host]

host(c) == args[c].host

-----------------------------------------------------------------------------
(* Properties.                                                             *)

\* "re-ordering the components or picking up stray whitespace cannot change
\* the identity", and no two machines share one: calls that hold live rows of
\* a licence hold the same row exactly if they run on the same host, whatever
\* was read there and whoever created the row.
RowPerHost ==
    \A c, d \in Calls :
        /\ machine[c] \in machines /\ machine[d] \in machines
        /\ args[c].license = args[d].license
        => (machine[c] = machine[d] <=> host(c) = host(d))
=============================================================================
