------------------------ MODULE ProcessReleaseProofs ------------------------
(***************************************************************************)
(* What ProcessRelease guarantees for any number of shutdown calls, rows   *)
(* and page sizes.                                                         *)
(***************************************************************************)
EXTENDS ProcessRelease, FiniteSetTheorems, WellFoundedInduction, TLAPS

-----------------------------------------------------------------------------
(* The strengthening.                                                      *)

\* Ids are never reused, so a row a call removed cannot come back.
IdsGrow ==
    /\ \A p \in rows : p < nextId
    /\ \A r \in Releasers : /\ before[r] <= nextId
                            /\ \A p \in batch[r] \cup removed[r] : p < nextId
                            /\ removed[r] \cap rows = {}

IInv == TypeOK /\ IdsGrow /\ CountsOwnRemovals /\ OkMeansReleased

-----------------------------------------------------------------------------
(* Lemmas.                                                                 *)

\* A set of ids that is not empty has a least member.
LEMMA LeastId ==
    ASSUME NEW S \in SUBSET Nat, S # {}
    PROVE  \E x \in S : \A y \in S : x <= y
<1> DEFINE R == OpToRel(<, Nat)
<1>1. PICK x \in S : \A y \in S : ~(<<y, x>> \in R)
  <2>1. IsWellFoundedOn(R, Nat)
    BY NatLessThanWellFounded
  <2> HIDE DEF R
  <2> QED BY <2>1, WFMin
<1>2. \A y \in S : ~(y < x)
  BY <1>1 DEF OpToRel
<1> QED BY <1>2

\* Sets of ids are finite.
LEMMA IdsFinite ==
    ASSUME NEW S \in SUBSET Ids
    PROVE  IsFiniteSet(S)
<1>1. IsFiniteSet(Ids)
  BY ReleaseAssumption, FS_Interval DEF Ids
<1> QED BY <1>1, FS_Subset

\* The first page is empty only when the machine has no process: a page has
\* room for at least the oldest one.
LEMMA EmptyPage ==
    ASSUME rows \subseteq Ids
    PROVE  FirstPage = {} <=> rows = {}
<1>1. ASSUME rows # {} PROVE FirstPage # {}
  <2>1. rows \in SUBSET Nat
    BY ReleaseAssumption DEF Ids
  <2>2. PICK p \in rows : \A q \in rows : p <= q
    BY <1>1, <2>1, LeastId
  <2>3. {q \in rows : q <= p} = {p}
    <3>1. \A q \in rows : q <= p => q = p
      BY <2>1, <2>2
    <3>2. p <= p
      BY <2>1
    <3> QED BY <3>1, <3>2, Zenon
  <2>4. Cardinality({q \in rows : q <= p}) = 1
    BY <2>3, FS_Singleton
  <2>5. 1 <= PageLimit
    BY ReleaseAssumption
  <2> QED BY <2>4, <2>5 DEF FirstPage
<1> QED BY <1>1 DEF FirstPage

-----------------------------------------------------------------------------
(* The invariant.                                                          *)

\* A delete that finds its row removes exactly that row, and counts it.
LEMMA DeletePreserves ==
    ASSUME IInv, NEW r \in Releasers, DeleteSucceeds(r)
    PROVE  IInv'
<1> USE ReleaseAssumption
<1>1. PICK p \in batch[r] : /\ IsNext(r, p) /\ p \in rows
                            /\ rows' = rows \ {p}
                            /\ batch' = [batch EXCEPT ![r] = @ \ {p}]
                            /\ removed' = [removed EXCEPT ![r] = @ \cup {p}]
                            /\ pc' = [pc EXCEPT ![r] = AfterDelete(r, p)]
  BY DEF DeleteSucceeds
<1>2. /\ pc[r] = "deleting" /\ deleted' = [deleted EXCEPT ![r] = @ + 1]
      /\ UNCHANGED <<nextId, before>>
  BY DEF DeleteSucceeds
<1>3. AfterDelete(r, p) \in {"listing", "deleting"}
  BY DEF AfterDelete
<1>4. TypeOK'
  BY <1>1, <1>2, <1>3 DEF IInv, TypeOK
<1>5. IdsGrow'
  BY <1>1, <1>2 DEF IInv, TypeOK, IdsGrow
<1>6. CountsOwnRemovals'
  <2>1. \A s \in Releasers : p \notin removed[s]
    BY <1>1 DEF IInv, IdsGrow
  <2>2. IsFiniteSet(removed[r])
    BY IdsFinite DEF IInv, TypeOK
  <2>3. Cardinality(removed'[r]) = Cardinality(removed[r]) + 1
    BY <1>1, <2>1, <2>2, FS_AddElement DEF IInv, TypeOK
  <2>4. \A s \in Releasers : deleted'[s] = Cardinality(removed'[s])
    BY <1>1, <1>2, <2>3 DEF IInv, TypeOK, CountsOwnRemovals
  <2>5. \A s, t \in Releasers : s # t => removed'[s] \cap removed'[t] = {}
    BY <1>1, <2>1 DEF IInv, TypeOK, CountsOwnRemovals
  <2> QED BY <2>4, <2>5 DEF CountsOwnRemovals
<1>7. OkMeansReleased'
  BY <1>1, <1>2, <1>3 DEF IInv, TypeOK, OkMeansReleased
<1> QED BY <1>4, <1>5, <1>6, <1>7 DEF IInv

\* The other steps of a call remove nothing; Ok follows an empty listing.
LEMMA CallPreserves ==
    ASSUME IInv, NEW r \in Releasers,
           Start(r) \/ ListRows(r) \/ ListEmpty(r) \/ DeleteNotFound(r)
           \/ Abort(r) \/ Cancel(r)
    PROVE  IInv'
<1> USE ReleaseAssumption
<1>1. /\ UNCHANGED <<rows, nextId, deleted, removed>>
      /\ before' \in [Releasers -> Nat]
      /\ \A s \in Releasers : before'[s] \in {before[s], nextId}
  BY DEF Start, ListRows, ListEmpty, DeleteNotFound, Abort, Cancel, IInv, TypeOK
<1>2. /\ batch' \in [Releasers -> SUBSET Ids]
      /\ \A s \in Releasers : \A p \in batch'[s] : p \in batch[s] \cup rows
  BY DEF Start, ListRows, ListEmpty, DeleteNotFound, Abort, Cancel, IInv, TypeOK, FirstPage
<1>3. /\ pc' \in [Releasers -> {"idle", "listing", "deleting"} \cup Finished]
      /\ \A s \in Releasers : pc'[s] = "ok" => /\ before'[s] = before[s]
                                               /\ pc[s] = "ok" \/ FirstPage = {}
  <2>1. CASE DeleteNotFound(r)
    <3>1. PICK p \in batch[r] : pc' = [pc EXCEPT ![r] = AfterDelete(r, p)]
      BY <2>1 DEF DeleteNotFound
    <3>2. AfterDelete(r, p) \in {"listing", "deleting"}
      BY DEF AfterDelete
    <3> QED BY <2>1, <3>1, <3>2 DEF DeleteNotFound, IInv, TypeOK
  <2>2. CASE Start(r) \/ ListRows(r) \/ ListEmpty(r) \/ Abort(r) \/ Cancel(r)
    BY <2>2 DEF Start, ListRows, ListEmpty, Abort, Cancel, IInv, TypeOK, Finished
  <2> QED BY <2>1, <2>2
<1>4. TypeOK'
  BY <1>1, <1>2, <1>3 DEF IInv, TypeOK
<1>5. IdsGrow'
  BY <1>1, <1>2 DEF IInv, TypeOK, IdsGrow
<1>6. CountsOwnRemovals'
  BY <1>1 DEF IInv, CountsOwnRemovals
<1>7. OkMeansReleased'
  <2>1. FirstPage = {} => rows = {}
    BY EmptyPage DEF IInv, TypeOK
  <2> QED BY <1>1, <1>3, <2>1 DEF IInv, OkMeansReleased
<1> QED BY <1>4, <1>5, <1>6, <1>7 DEF IInv

\* Registrations take new ids, and rows that others delete are gone.
LEMMA OthersPreserve ==
    ASSUME IInv, CreateProcess \/ \E p \in rows : DeletedElsewhere(p)
    PROVE  IInv'
<1> USE ReleaseAssumption
<1>1. UNCHANGED <<pc, batch, deleted, removed, before>>
  BY DEF CreateProcess, DeletedElsewhere, callVars
<1>2. /\ rows' \subseteq Ids /\ nextId' \in 1..(MaxId + 1) /\ nextId <= nextId'
      /\ \A p \in rows' : p \in rows \/ p = nextId
      /\ \A p \in rows' : p < nextId'
  <2>1. \A p \in rows : p \in Nat /\ p < nextId
    BY DEF IInv, TypeOK, IdsGrow, Ids
  <2>2. CASE CreateProcess
    BY <2>1, <2>2 DEF CreateProcess, IInv, TypeOK, Ids
  <2>3. CASE \E p \in rows : DeletedElsewhere(p)
    <3>1. rows' \subseteq rows /\ nextId' = nextId
      BY <2>3 DEF DeletedElsewhere
    <3> QED BY <2>1, <3>1 DEF IInv, TypeOK
  <2> QED BY <2>2, <2>3
<1>3. TypeOK'
  BY <1>1, <1>2 DEF IInv, TypeOK
<1>4. IdsGrow'
  BY <1>1, <1>2 DEF IInv, TypeOK, IdsGrow, Ids
<1>5. CountsOwnRemovals' /\ OkMeansReleased'
  BY <1>1, <1>2 DEF IInv, TypeOK, IdsGrow, CountsOwnRemovals, OkMeansReleased
<1> QED BY <1>3, <1>4, <1>5 DEF IInv

\* The invariant holds in every reachable state of delete_machine_processes.
THEOREM InvariantHolds == Spec => []IInv
<1>1. Init => IInv
  BY ReleaseAssumption, FS_EmptySet
  DEF Init, IInv, TypeOK, IdsGrow, CountsOwnRemovals, OkMeansReleased, Ids
<1>2. IInv /\ [Next]_vars => IInv'
  <2> SUFFICES ASSUME IInv, [Next]_vars PROVE IInv'
    OBVIOUS
  <2>1. CASE Next
    BY <2>1, DeletePreserves, CallPreserves, OthersPreserve DEF Next, Advance
  <2>2. CASE UNCHANGED vars
    BY <2>2 DEF vars, callVars, IInv, TypeOK, IdsGrow, CountsOwnRemovals, OkMeansReleased
  <2> QED BY <2>1, <2>2
<1> QED BY <1>1, <1>2, PTL DEF Spec

-----------------------------------------------------------------------------
(* What the invariant gives.                                               *)

\* Pages, counters and call states stay in their ranges.
THEOREM TypeCorrect == Spec => []TypeOK
BY InvariantHolds, PTL DEF IInv

\* The count a call returns is the number of rows it removed itself, and no
\* two calls count the same row.
THEOREM CountIsOwn == Spec => []CountsOwnRemovals
BY InvariantHolds, PTL DEF IInv

\* After Ok no process that was registered before the call is left, however
\* many pages there were and whoever else was deleting.
THEOREM OkIsReleased == Spec => []OkMeansReleased
BY InvariantHolds, PTL DEF IInv

\* Ok is only returned out of a state in which the machine has no process.
THEOREM OkIsSeenEmpty == Spec => OkOnlyWhenEmpty
<1>1. ASSUME IInv, [Next]_vars, NEW r \in Releasers, pc[r] # "ok", pc'[r] = "ok"
      PROVE  rows = {}
  <2>1. FirstPage = {} => rows = {}
    BY <1>1, EmptyPage DEF IInv, TypeOK
  <2>2. CASE \E s \in Releasers : DeleteSucceeds(s) \/ DeleteNotFound(s)
    <3>1. PICK s \in Releasers : \E p \in batch[s] : pc' = [pc EXCEPT ![s] = AfterDelete(s, p)]
      BY <2>2 DEF DeleteSucceeds, DeleteNotFound
    <3>2. \A p : AfterDelete(s, p) # "ok"
      BY DEF AfterDelete
    <3> QED BY <1>1, <3>1, <3>2 DEF IInv, TypeOK
  <2>3. CASE \E s \in Releasers : \/ Start(s) \/ ListRows(s) \/ ListEmpty(s)
                                  \/ Abort(s) \/ Cancel(s)
    BY <1>1, <2>1, <2>3
    DEF Start, ListRows, ListEmpty, Abort, Cancel, IInv, TypeOK
  <2>4. CASE UNCHANGED pc
    BY <1>1, <2>4
  <2> QED BY <1>1, <2>2, <2>3, <2>4
          DEF Next, Advance, CreateProcess, DeletedElsewhere, callVars, vars
<1>2. IInv /\ [Next]_vars
      => [\A r \in Releasers : pc[r] # "ok" /\ pc'[r] = "ok" => rows = {}]_vars
  BY <1>1
<1> QED BY <1>2, InvariantHolds, PTL DEF Spec, OkOnlyWhenEmpty
=============================================================================
