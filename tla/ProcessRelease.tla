--------------------------- MODULE ProcessRelease ---------------------------
(***************************************************************************)
(* Client::delete_machine_processes: shutdown callers release every        *)
(* process row of one machine while other callers release the same rows,   *)
(* single processes are deleted, and new ones register.                    *)
(*                                                                         *)
(* Each listing and each DELETE is one step, served and answered; between  *)
(* any two of them the rows may change.  The page a caller walks is what   *)
(* the listing showed, not what the server still holds.                    *)
(***************************************************************************)
EXTENDS Naturals, FiniteSets

CONSTANTS
    Releasers,      \* calls of delete_machine_processes
    Registered,     \* the processes registered at the start have ids 1..Registered
    MaxId,          \* bound: the last id create_process hands out
    PageLimit       \* MAX_ENTITLEMENTS_PAGE_SIZE, the limit the listing asks for

ASSUME ReleaseAssumption ==
    /\ Registered \in Nat
    /\ MaxId \in Nat /\ Registered <= MaxId
    /\ PageLimit \in Nat \ {0}

VARIABLES
    rows,       \* ids of the process rows; ids grow (UUIDv7) and order the listing
    nextId,
    pc,
    batch,      \* listed processes still to be deleted by a call
    deleted,    \* the counter a call returns
    removed,    \* the rows a call removed (history)
    before      \* nextId when the call started (history)

callVars == <<pc, batch, deleted, removed, before>>
vars == <<rows, nextId, callVars>>

Ids == 1..MaxId
Finished == {"ok", "error", "cancelled"}

-----------------------------------------------------------------------------
(* The server: list_machine_processes without a cursor, create_process and *)
(* the deletes of other callers.                                           *)

\* The first PageLimit rows in id order.
FirstPage == {p \in rows : Cardinality({q \in rows : q <= p}) <= PageLimit}

\* Another client registers a process.
CreateProcess ==
    /\ nextId <= MaxId
    /\ rows' = rows \cup {nextId}
    /\ nextId' = nextId + 1
    /\ UNCHANGED callVars

\* delete_process by somebody else, or a DELETE this crate sent, gave up on,
\* and the server served late.
DeletedElsewhere(p) ==
    /\ rows' = rows \ {p}
    /\ UNCHANGED <<nextId, callVars>>

-----------------------------------------------------------------------------
(* The loop of delete_machine_processes.                                   *)

Start(r) ==
    /\ pc[r] = "idle"
    /\ pc' = [pc EXCEPT ![r] = "listing"]
    /\ before' = [before EXCEPT ![r] = nextId]
    /\ UNCHANGED <<rows, nextId, batch, deleted, removed>>

ListRows(r) ==
    /\ pc[r] = "listing"
    /\ FirstPage # {}
    /\ pc' = [pc EXCEPT ![r] = "deleting"]
    /\ batch' = [batch EXCEPT ![r] = FirstPage]
    /\ UNCHANGED <<rows, nextId, deleted, removed, before>>

\* Mutant of ListEmpty: the end is a page that is not full.
ListShort(r) ==
    /\ pc[r] = "listing"
    /\ Cardinality(FirstPage) < PageLimit
    /\ pc' = [pc EXCEPT ![r] = "ok"]
    /\ UNCHANGED <<rows, nextId, batch, deleted, removed, before>>

ListEmpty(r) ==
    /\ pc[r] = "listing"
    /\ FirstPage = {}
    /\ pc' = [pc EXCEPT ![r] = "ok"]
    /\ UNCHANGED <<rows, nextId, batch, deleted, removed, before>>

\* The next process of the page, in listing order.
IsNext(r, p) == p \in batch[r] /\ \A q \in batch[r] : p <= q

\* Mutant of AfterDelete: one page is all there is.
AfterDeleteStops(r, p) == IF batch[r] = {p} THEN "ok" ELSE "deleting"

\* After the last process of a page the listing is read again from the start.
AfterDelete(r, p) == IF batch[r] = {p} THEN "listing" ELSE "deleting"

DeleteSucceeds(r) ==
    /\ pc[r] = "deleting"
    /\ \E p \in batch[r] :
          /\ IsNext(r, p) /\ p \in rows
          /\ rows' = rows \ {p}
          /\ batch' = [batch EXCEPT ![r] = @ \ {p}]
          /\ removed' = [removed EXCEPT ![r] = @ \cup {p}]
          /\ pc' = [pc EXCEPT ![r] = AfterDelete(r, p)]
    /\ deleted' = [deleted EXCEPT ![r] = @ + 1]
    /\ UNCHANGED <<nextId, before>>

\* Mutants of DeleteNotFound: a 404 counts as a row removed; it takes one
\* back; it is tried again.
DeleteNotFoundCounts(r) ==
    /\ pc[r] = "deleting"
    /\ \E p \in batch[r] :
          /\ IsNext(r, p) /\ p \notin rows
          /\ batch' = [batch EXCEPT ![r] = @ \ {p}]
          /\ pc' = [pc EXCEPT ![r] = AfterDelete(r, p)]
    /\ deleted' = [deleted EXCEPT ![r] = @ + 1]
    /\ UNCHANGED <<rows, nextId, removed, before>>
DeleteNotFoundUncounts(r) ==
    /\ pc[r] = "deleting"
    /\ \E p \in batch[r] :
          /\ IsNext(r, p) /\ p \notin rows
          /\ batch' = [batch EXCEPT ![r] = @ \ {p}]
          /\ pc' = [pc EXCEPT ![r] = AfterDelete(r, p)]
    /\ deleted' = [deleted EXCEPT ![r] = @ - 1]
    /\ UNCHANGED <<rows, nextId, removed, before>>
DeleteNotFoundRetries(r) ==
    /\ pc[r] = "deleting"
    /\ \E p \in batch[r] : IsNext(r, p) /\ p \notin rows
    /\ UNCHANGED vars

\* "Already gone is the outcome we wanted."
DeleteNotFound(r) ==
    /\ pc[r] = "deleting"
    /\ \E p \in batch[r] :
          /\ IsNext(r, p) /\ p \notin rows
          /\ batch' = [batch EXCEPT ![r] = @ \ {p}]
          /\ pc' = [pc EXCEPT ![r] = AfterDelete(r, p)]
    /\ UNCHANGED <<rows, nextId, deleted, removed, before>>

\* Any other error, of the listing or of a DELETE, aborts the call.  A DELETE
\* the server served before its answer was lost is DeletedElsewhere.
Abort(r) ==
    /\ pc[r] \in {"listing", "deleting"}
    /\ pc' = [pc EXCEPT ![r] = "error"]
    /\ UNCHANGED <<rows, nextId, batch, deleted, removed, before>>

\* The caller drops the future.
Cancel(r) ==
    /\ pc[r] \in {"listing", "deleting"}
    /\ pc' = [pc EXCEPT ![r] = "cancelled"]
    /\ UNCHANGED <<rows, nextId, batch, deleted, removed, before>>

Advance(r) == \/ ListRows(r) \/ ListEmpty(r)
              \/ DeleteSucceeds(r) \/ DeleteNotFound(r)

-----------------------------------------------------------------------------
Init ==
    /\ rows = 1..Registered
    /\ nextId = Registered + 1
    /\ pc = [r \in Releasers |-> "idle"]
    /\ batch = [r \in Releasers |-> {}]
    /\ deleted = [r \in Releasers |-> 0]
    /\ removed = [r \in Releasers |-> {}]
    /\ before = [r \in Releasers |-> 0]

Next ==
    \/ \E r \in Releasers : Start(r) \/ Advance(r) \/ Abort(r) \/ Cancel(r)
    \/ CreateProcess
    \/ \E p \in rows : DeletedElsewhere(p)

Spec == Init /\ [][Next]_vars

\* Every request of a running call is answered, unless the call aborts: the
\* client's timeout ends the ones that are not.
FairSpec == Spec /\ \A r \in Releasers : WF_vars(Advance(r))

-----------------------------------------------------------------------------
(* Properties.                                                             *)

\* Every variable stays in its range.
TypeOK ==
    /\ rows \subseteq Ids
    /\ nextId \in 1..(MaxId + 1)
    /\ pc \in [Releasers -> {"idle", "listing", "deleting"} \cup Finished]
    /\ batch \in [Releasers -> SUBSET Ids]
    /\ deleted \in [Releasers -> Nat]
    /\ removed \in [Releasers -> SUBSET Ids]
    /\ before \in [Releasers -> Nat]

\* "Returning how many rows were removed": the counter is the number of rows
\* this call itself removed, although others delete from the same pages, and
\* no row is counted by two calls.
CountsOwnRemovals ==
    /\ \A r \in Releasers : deleted[r] = Cardinality(removed[r])
    /\ \A r, s \in Releasers : r # s => removed[r] \cap removed[s] = {}

\* Ok means released: when a call returns Ok, every process registered before
\* it started is gone, however many pages they filled and whoever else was
\* deleting; what is left registered later.
OkMeansReleased ==
    \A r \in Releasers : pc[r] = "ok" => \A p \in rows : p >= before[r]

\* A call returns Ok out of nothing but a listing that showed the machine
\* empty: at that instant no process, early or late, is registered.
OkOnlyWhenEmpty ==
    [][\A r \in Releasers : pc[r] # "ok" /\ pc'[r] = "ok" => rows = {}]_vars

\* A call that starts returns once registrations stop: re-reading the first
\* page always makes progress.
EveryReleaseReturns ==
    \A r \in Releasers : pc[r] = "listing" ~> pc[r] \in Finished
=============================================================================
