--------------------------- MODULE ActivationProofs ---------------------------
(***************************************************************************)
(* What Activation guarantees for any number of calls, licences, machines, *)
(* seats and page sizes, whatever the server's policy.                     *)
(***************************************************************************)
EXTENDS Activation, FiniteSetTheorems, WellFoundedInduction, TLAPS

-----------------------------------------------------------------------------
(* The strengthening.  Each part but the last two speaks of one call.      *)

NoRowOf(c) == \A m \in machines : m.by # c

\* What may be on the wire while a call stands where it stands.
WireMatchesCall(c) ==
    /\ pc[c] = "idle" => request[c] = NoMsg /\ reply[c] = NoMsg
    /\ pc[c] = "creating" => /\ request[c].op \in {"none", "create"}
                             /\ reply[c].op \in {"none", "created", "taken", "limit"}
    /\ pc[c] = "searching" => /\ request[c].op \in {"none", "list"}
                              /\ reply[c].op \in {"none", "page"}
    /\ pc[c] \in {"probing", "validating"} => /\ request[c].op \in {"none", "validate"}
                                              /\ reply[c].op \in {"none", "verdict"}
    /\ pc[c] = "rollingBack" => /\ request[c].op \in {"none", "delete"}
                                /\ reply[c].op \in {"none", "deleted"}
    /\ pc[c] \notin Waiting => reply[c] = NoMsg
    /\ reply[c] # NoMsg => request[c] = NoMsg
    /\ pc[c] = "done" <=> outcome[c] # "pending"

\* Before it validates, a call has no row, or one it has yet to hear of;
\* from then on it has no row but the one it remembers.
RowsMatchCall(c) ==
    /\ pc[c] \in {"idle", "creating", "searching", "probing"} =>
          ~reused[c] /\ machine[c] = NoRow
    /\ pc[c] \in {"idle", "searching", "probing"} => NoRowOf(c)
    /\ request[c].op = "create" => NoRowOf(c)
    /\ reply[c].op \in {"taken", "limit", "deleted"} => NoRowOf(c)
    /\ reply[c].op = "created" =>
          /\ reply[c].row.by = c
          /\ \A m \in machines : m.by = c => m = reply[c].row
    /\ ~reused[c] /\ (\/ pc[c] \in {"validating", "rollingBack"}
                      \/ outcome[c] \in {"valid", "over", "invalid"}) =>
          /\ machine[c] # NoRow /\ machine[c].by = c
          /\ \A m \in machines : m.by = c => m = machine[c]
          /\ request[c].op # "create"
    /\ outcome[c] \in {"refused", "limitError", "taken", "rolledBack"} =>
          NoRowOf(c) /\ request[c].op # "create"
    /\ reused[c] => NoRowOf(c) /\ request[c].op # "create"

\* A DELETE names the row its call created, and only such a call, asked to
\* roll back, sends one.
DeletesOwnRow(c) ==
    /\ pc[c] = "rollingBack" => ~reused[c] /\ args[c].autoDelete
    /\ request[c].op = "delete" =>
          /\ pc[c] \in {"rollingBack", "done", "cancelled"}
          /\ outcome[c] \in {"pending", "rollbackUnconfirmed"}
          /\ ~reused[c] /\ args[c].autoDelete
          /\ request[c].row = machine[c] /\ machine[c].by = c
    /\ outcome[c] = "over" => reused[c] \/ ~args[c].autoDelete

\* What a call remembers or is shown is on its licence; what it adopts is
\* of its fingerprint and somebody else's.
AdoptsShownRow(c) ==
    /\ machine[c] # NoRow => machine[c].license = args[c].license
    /\ reply[c].op = "created" => reply[c].row.license = args[c].license
    /\ reused[c] => /\ machine[c] # NoRow
                    /\ machine[c].fingerprint = args[c].fingerprint
                    /\ machine[c].by # c
    /\ reply[c].op = "page" => \A m \in reply[c].items :
                                  m.license = args[c].license /\ m.by # c

\* Until it validates for itself, a call writes no last_validated_at.
TouchesLate(c) ==
    /\ pc[c] \in {"idle", "creating", "searching", "probing"} => c \notin touched
    /\ pc[c] = "probing" /\ request[c].op = "validate" => request[c].skipTouch
    /\ outcome[c] \in {"refused", "limitError"} =>
          /\ c \notin touched
          /\ request[c].op = "validate" => request[c].skipTouch
          /\ request[c].op # "delete"

\* A row in anybody's hands has an id that will not be given out again.
IdsAreOld(c) ==
    /\ machine[c] # NoRow => machine[c].id < nextId
    /\ reply[c].op = "created" => reply[c].row.id < nextId
    /\ reply[c].op = "page" => \A m \in reply[c].items : m.id < nextId

CallInv(c) == /\ WireMatchesCall(c)
              /\ RowsMatchCall(c)
              /\ DeletesOwnRow(c)
              /\ AdoptsShownRow(c)
              /\ TouchesLate(c)
              /\ IdsAreOld(c)

TableInv == /\ IsFiniteSet(machines)
            /\ \A m \in machines : m.id < nextId

\* VALID has been said to the call, or is on its way to it.
ToldValid(c) ==
    outcome[c] = "valid" \/ (reply[c].op = "verdict" /\ reply[c].code = "VALID")

Counted(l) == {m \in OnLicense(l) : \E c \in Calls : machine[c] = m /\ ToldValid(c)}

SeatInv == \A l \in Licenses : Cardinality(Counted(l)) <= Seats[l]

IInv == TypeOK /\ (\A c \in Calls : CallInv(c)) /\ TableInv /\ SeatInv

-----------------------------------------------------------------------------
(* The messages.                                                           *)

\* What each kind of answer carries.
LEMMA ReplyShapes ==
    ASSUME NEW r \in Reply
    PROVE  /\ r.op = "none" <=> r = NoMsg
           /\ r.op \in {"none", "created", "taken", "limit", "deleted", "page", "verdict"}
           /\ r.op = "created" => r.row \in Row
           /\ r.op = "page" => r.items \in SUBSET Row /\ r.more \in BOOLEAN
           /\ r.op = "verdict" => r.code \in Codes
BY DEF Reply, NoMsg

\* What each kind of request carries.
LEMMA RequestShapes ==
    ASSUME NEW r \in Request
    PROVE  /\ r.op = "none" <=> r = NoMsg
           /\ r.op \in {"none", "create", "list", "validate", "delete"}
           /\ r.op = "list" => r.number \in Nat
           /\ r.op = "validate" => r.skipTouch \in BOOLEAN
           /\ r.op = "delete" => r.row \in Row
BY DEF Request, NoMsg

\* The client's requests are requests.
LEMMA RequestsTyped ==
    /\ Create \in Request /\ Create.op = "create"
    /\ \A n \in Nat : List(n) \in Request /\ List(n).op = "list"
    /\ \A b \in BOOLEAN : /\ Validate(b) \in Request /\ Validate(b).op = "validate"
                          /\ Validate(b).skipTouch = b
    /\ \A m \in Row : Delete(m) \in Request /\ Delete(m).op = "delete" /\ Delete(m).row = m
    /\ NoMsg \in Request /\ NoMsg.op = "none"
BY DEF Request, Create, List, Validate, Delete, NoMsg

\* The absent row is not a row.
LEMMA NoRowIsNoRow == NoRow \notin Row
BY DEF NoRow, Row

-----------------------------------------------------------------------------
(* What a step of one call leaves alone.                                   *)

Local(d) == <<pc[d], args[d], machine[d], reused[d], outcome[d], request[d], reply[d]>>

\* Nothing that CallInv(d) speaks of gets worse: the call d stands still, no
\* row of its own appears, ids are not reused and it is not touched.
StandsStill(d) ==
    /\ UNCHANGED Local(d)
    /\ \A m \in machines' : m.by = d => m \in machines
    /\ nextId <= nextId'
    /\ d \in touched' => d \in touched

\* A call that stands still keeps its part of the invariant.
LEMMA OthersKeep ==
    ASSUME TypeOK, NEW d \in Calls, CallInv(d), StandsStill(d), nextId' \in Nat
    PROVE  CallInv(d)'
<1> USE DEF StandsStill, Local
<1>1. WireMatchesCall(d)'
  BY DEF CallInv, WireMatchesCall
<1>2. RowsMatchCall(d)'
  BY DEF CallInv, RowsMatchCall, NoRowOf
<1>3. DeletesOwnRow(d)'
  BY DEF CallInv, DeletesOwnRow
<1>4. AdoptsShownRow(d)'
  BY DEF CallInv, AdoptsShownRow
<1>5. TouchesLate(d)'
  BY DEF CallInv, TouchesLate
<1>6. IdsAreOld(d)'
  <2>1. machine[d] \in Row \cup {NoRow} /\ reply[d] \in Reply
    BY DEF TypeOK
  <2>2. \A m \in Row : m.id \in Nat
    BY DEF Row
  <2>3. machine[d] # NoRow => machine[d].id < nextId'
    BY <2>1, <2>2 DEF CallInv, IdsAreOld, TypeOK
  <2>4. reply[d].op = "created" => reply[d].row.id < nextId'
    BY <2>1, <2>2, ReplyShapes DEF CallInv, IdsAreOld, TypeOK
  <2>5. reply[d].op = "page" => \A m \in reply[d].items : m.id < nextId'
    BY <2>1, <2>2, ReplyShapes DEF CallInv, IdsAreOld, TypeOK
  <2> QED BY <2>3, <2>4, <2>5 DEF IdsAreOld
<1> QED BY <1>1, <1>2, <1>3, <1>4, <1>5, <1>6 DEF CallInv

\* Returning is local: the call is done and told "result".
LEMMA ReturnFacts ==
    ASSUME TypeOK, NEW c \in Calls, NEW result \in Outcomes, Return(c, result)
    PROVE  /\ pc'[c] = "done" /\ outcome'[c] = result /\ reply'[c] = NoMsg
           /\ UNCHANGED <<machines, nextId, touched, args, machine, reused, request>>
           /\ TypeOK'
           /\ \A d \in Calls \ {c} : StandsStill(d)
<1>1. /\ pc'[c] = "done" /\ outcome'[c] = result /\ reply'[c] = NoMsg
      /\ UNCHANGED <<machines, nextId, touched, args, machine, reused, number, horizon, request>>
  BY DEF Return, TypeOK, serverVars, callVars
<1>2. TypeOK'
  BY <1>1 DEF Return, TypeOK, Reply
<1>3. ASSUME NEW d \in Calls \ {c} PROVE StandsStill(d)
  BY <1>1, <1>3 DEF Return, StandsStill, Local, TypeOK
<1> QED BY <1>1, <1>2, <1>3

\* Continuing sends the next request and changes no other call.
LEMMA ContinueFacts ==
    ASSUME TypeOK, NEW c \in Calls, NEW where \in Waiting, NEW r \in Request,
           Continue(c, where, r), machine' \in [Calls -> Row \cup {NoRow}],
           reused' \in [Calls -> BOOLEAN], number' \in [Calls -> Nat],
           horizon' \in [Calls -> Nat], UNCHANGED outcome,
           \A d \in Calls \ {c} : machine'[d] = machine[d] /\ reused'[d] = reused[d]
    PROVE  /\ pc'[c] = where /\ request'[c] = r /\ reply'[c] = NoMsg
           /\ UNCHANGED <<machines, nextId, touched, args>>
           /\ TypeOK'
           /\ \A d \in Calls \ {c} : StandsStill(d)
<1>1. /\ pc'[c] = where /\ request'[c] = r /\ reply'[c] = NoMsg
      /\ UNCHANGED <<machines, nextId, touched, args>>
  BY DEF Continue, TypeOK, serverVars
<1>2. TypeOK'
  BY <1>1 DEF Continue, TypeOK, Reply
<1>3. ASSUME NEW d \in Calls \ {c} PROVE StandsStill(d)
  BY <1>1, <1>3 DEF Continue, StandsStill, Local, TypeOK
<1> QED BY <1>1, <1>2, <1>3

\* An answer takes the request off the wire and changes no call's variables.
LEMMA AnswerFacts ==
    ASSUME TypeOK, NEW c \in Calls, NEW r \in Reply, Answer(c, r)
    PROVE  /\ request'[c] = NoMsg
           /\ reply'[c] = IF pc[c] \in Waiting THEN r ELSE NoMsg
           /\ UNCHANGED <<pc, args, machine, reused, number, horizon, outcome>>
           /\ request' \in [Calls -> Request] /\ reply' \in [Calls -> Reply]
           /\ \A d \in Calls \ {c} : UNCHANGED Local(d)
<1>1. /\ request'[c] = NoMsg
      /\ reply'[c] = IF pc[c] \in Waiting THEN r ELSE NoMsg
      /\ UNCHANGED <<pc, args, machine, reused, number, horizon, outcome>>
  BY DEF Answer, TypeOK, callVars
<1>2. request' \in [Calls -> Request] /\ reply' \in [Calls -> Reply]
  BY DEF Answer, TypeOK, Reply, Request
<1>3. ASSUME NEW d \in Calls \ {c} PROVE UNCHANGED Local(d)
  BY <1>1, <1>3 DEF Answer, Local, TypeOK
<1> QED BY <1>1, <1>2, <1>3

-----------------------------------------------------------------------------
(* The steps that end a call.                                              *)

\* A call that returns on an answer keeps its part of the invariant, if what
\* it is told fits the answer.
LEMMA ReturnKeeps ==
    ASSUME IInv, NEW c \in Calls, NEW result \in Outcomes \ {"pending"},
           Return(c, result), pc[c] \in Waiting,
           result = "over" => reused[c] \/ ~args[c].autoDelete,
           result \in {"valid", "over", "invalid"} => pc[c] = "validating" /\ reply[c] # NoMsg,
           result = "refused" => pc[c] = "probing" /\ reply[c] # NoMsg,
           result = "limitError" => pc[c] = "probing",
           result = "taken" => \/ pc[c] = "creating" /\ reply[c].op = "taken"
                               \/ pc[c] = "searching" /\ reply[c] # NoMsg,
           result = "rolledBack" => reply[c].op = "deleted",
           result = "error" => pc[c] \in {"creating", "searching", "validating"},
           result = "rollbackUnconfirmed" => pc[c] = "rollingBack"
    PROVE  TypeOK' /\ \A d \in Calls : CallInv(d)'
<1>1. TypeOK /\ CallInv(c)
  BY DEF IInv
<1>2. /\ pc'[c] = "done" /\ outcome'[c] = result /\ reply'[c] = NoMsg
      /\ UNCHANGED <<machines, nextId, touched, args, machine, reused, request>>
      /\ TypeOK'
      /\ \A d \in Calls \ {c} : StandsStill(d)
  BY <1>1, ReturnFacts
<1>3. request[c] \in Request /\ reply[c] \in Reply /\ NoMsg.op = "none"
      /\ (reply[c].op = "none" <=> reply[c] = NoMsg)
      /\ (request[c].op = "none" <=> request[c] = NoMsg)
  BY <1>1, ReplyShapes, RequestShapes DEF TypeOK, NoMsg
<1>4. WireMatchesCall(c)'
  BY <1>2 DEF WireMatchesCall, Waiting
<1>5. RowsMatchCall(c)'
  BY <1>1, <1>2, <1>3 DEF CallInv, RowsMatchCall, WireMatchesCall, NoRowOf
<1>6. DeletesOwnRow(c)'
  <2>1. request[c].op = "delete" => pc[c] = "rollingBack" /\ reply[c] = NoMsg
    BY <1>1, <1>3 DEF CallInv, DeletesOwnRow, WireMatchesCall, Waiting
  <2>2. request[c].op = "delete" => result = "rollbackUnconfirmed"
    BY <2>1, <1>3 DEF Outcomes
  <2> QED BY <1>1, <1>2, <2>2 DEF CallInv, DeletesOwnRow
<1>7. AdoptsShownRow(c)'
  BY <1>1, <1>2, <1>3 DEF CallInv, AdoptsShownRow
<1>8. TouchesLate(c)'
  BY <1>1, <1>2, <1>3 DEF CallInv, TouchesLate, WireMatchesCall
<1>9. IdsAreOld(c)'
  BY <1>1, <1>2, <1>3 DEF CallInv, IdsAreOld
<1>10. CallInv(c)'
  BY <1>4, <1>5, <1>6, <1>7, <1>8, <1>9 DEF CallInv
<1>11. ASSUME NEW d \in Calls \ {c} PROVE CallInv(d)'
  BY <1>1, <1>2, OthersKeep DEF IInv, TypeOK
<1> QED BY <1>2, <1>10, <1>11

\* The six returns of the flows, and a failed request.
LEMMA ReturnsKeep ==
    ASSUME IInv, NEW c \in Calls,
           \/ TakenPropagates(c) \/ SearchMiss(c) \/ Probed(c)
           \/ ValidatedKeeps(c) \/ RolledBack(c) \/ RequestFails(c)
    PROVE  TypeOK' /\ \A d \in Calls : CallInv(d)'
<1>1. reply[c] \in Reply /\ NoMsg.op = "none"
  BY DEF IInv, TypeOK, NoMsg
<1>2. CASE TakenPropagates(c)
  <2>1. Return(c, "taken") /\ pc[c] = "creating" /\ reply[c].op = "taken"
    BY <1>2 DEF TakenPropagates
  <2> QED BY <2>1, ReturnKeeps DEF Waiting, Outcomes
<1>3. CASE SearchMiss(c)
  <2>1. Return(c, "taken") /\ pc[c] = "searching" /\ reply[c] # NoMsg
    BY <1>1, <1>3 DEF SearchMiss
  <2> QED BY <2>1, ReturnKeeps DEF Waiting, Outcomes
<1>4. CASE Probed(c)
  <2>1. Return(c, "refused") /\ pc[c] = "probing" /\ reply[c] # NoMsg
    BY <1>1, <1>4 DEF Probed
  <2> QED BY <2>1, ReturnKeeps DEF Waiting, Outcomes
<1>5. CASE ValidatedKeeps(c)
  <2> DEFINE v == Verdict(reply[c].code)
  <2>1. Return(c, v) /\ pc[c] = "validating" /\ reply[c] # NoMsg
    BY <1>1, <1>5 DEF ValidatedKeeps
  <2>2. v \in {"valid", "over", "invalid"}
    BY DEF Verdict
  <2>3. v = "over" => reused[c] \/ ~args[c].autoDelete
    BY <1>5 DEF ValidatedKeeps, RollsBack, Verdict
  <2> HIDE DEF v
  <2> QED BY <2>1, <2>2, <2>3, ReturnKeeps DEF Waiting, Outcomes
<1>6. CASE RolledBack(c)
  <2>1. Return(c, "rolledBack") /\ pc[c] \in Waiting /\ reply[c].op = "deleted"
    BY <1>6 DEF RolledBack, Waiting
  <2> QED BY <2>1, ReturnKeeps DEF Outcomes
<1>7. CASE RequestFails(c)
  <2> DEFINE f == FailureOutcome(c)
  <2>1. Return(c, f) /\ pc[c] \in Waiting
    BY <1>7 DEF RequestFails
  <2>2. \/ f = "limitError" /\ pc[c] = "probing"
        \/ f = "rollbackUnconfirmed" /\ pc[c] = "rollingBack"
        \/ f = "error" /\ pc[c] \in {"creating", "searching", "validating"}
    BY <2>1, Zenon DEF FailureOutcome, Waiting
  <2> HIDE DEF f
  <2> QED BY <2>1, <2>2, ReturnKeeps DEF Outcomes
<1> QED BY <1>2, <1>3, <1>4, <1>5, <1>6, <1>7

\* A dropped future leaves its request on the wire and its rows behind.
LEMMA CancelKeeps ==
    ASSUME IInv, NEW c \in Calls, Cancel(c)
    PROVE  TypeOK' /\ \A d \in Calls : CallInv(d)'
<1>1. TypeOK /\ CallInv(c) /\ pc[c] \in Waiting
  BY DEF IInv, Cancel
<1>2. /\ pc'[c] = "cancelled" /\ reply'[c] = NoMsg /\ NoMsg.op = "none"
      /\ UNCHANGED <<machines, nextId, touched, args, machine, reused, number,
                     horizon, outcome, request>>
  BY <1>1 DEF Cancel, TypeOK, serverVars, callVars, NoMsg
<1>3. TypeOK'
  BY <1>1, <1>2 DEF Cancel, TypeOK, Reply
<1>4. WireMatchesCall(c)'
  BY <1>1, <1>2 DEF CallInv, WireMatchesCall, Waiting
<1>5. RowsMatchCall(c)'
  BY <1>1, <1>2 DEF CallInv, RowsMatchCall, NoRowOf
<1>6. DeletesOwnRow(c)'
  BY <1>1, <1>2 DEF CallInv, DeletesOwnRow
<1>7. AdoptsShownRow(c)' /\ TouchesLate(c)' /\ IdsAreOld(c)'
  BY <1>1, <1>2 DEF CallInv, AdoptsShownRow, TouchesLate, IdsAreOld
<1>8. ASSUME NEW d \in Calls \ {c} PROVE CallInv(d)'
  <2>1. StandsStill(d)
    BY <1>1, <1>2, <1>8 DEF Cancel, StandsStill, Local, TypeOK
  <2> QED BY <1>1, <1>2, <2>1, OthersKeep DEF IInv, TypeOK
<1> QED BY <1>3, <1>4, <1>5, <1>6, <1>7, <1>8 DEF CallInv

-----------------------------------------------------------------------------
(* The steps that send the next request.                                   *)

\* Start sends the create; nothing was on the wire before.
LEMMA StartKeeps ==
    ASSUME IInv, NEW c \in Calls, Start(c)
    PROVE  TypeOK' /\ \A d \in Calls : CallInv(d)'
<1>1. TypeOK /\ CallInv(c) /\ pc[c] = "idle"
  BY DEF IInv, Start
<1>2. PICK a \in Args : args' = [args EXCEPT ![c] = a]
  BY DEF Start
<1>3. /\ pc'[c] = "creating" /\ request'[c] = Create
      /\ UNCHANGED <<machines, nextId, touched, machine, reused, number,
                     horizon, outcome, reply>>
  BY <1>1 DEF Start, TypeOK, serverVars
<1>4. TypeOK'
  BY <1>1, <1>2, <1>3, RequestsTyped DEF Start, TypeOK, Waiting
<1>5. reply[c] = NoMsg /\ NoMsg.op = "none" /\ Create.op = "create" /\ outcome[c] = "pending"
  BY <1>1, RequestsTyped DEF CallInv, WireMatchesCall, TypeOK
<1>6. WireMatchesCall(c)'
  BY <1>1, <1>3, <1>5 DEF WireMatchesCall, Waiting
<1>7. RowsMatchCall(c)'
  BY <1>1, <1>3, <1>5 DEF CallInv, RowsMatchCall, NoRowOf
<1>8. DeletesOwnRow(c)'
  BY <1>1, <1>3, <1>5 DEF DeletesOwnRow
<1>9. AdoptsShownRow(c)' /\ TouchesLate(c)' /\ IdsAreOld(c)'
  BY <1>1, <1>3, <1>5 DEF CallInv, RowsMatchCall, AdoptsShownRow, TouchesLate, IdsAreOld
<1>10. ASSUME NEW d \in Calls \ {c} PROVE CallInv(d)'
  <2>1. StandsStill(d)
    BY <1>1, <1>2, <1>3, <1>10 DEF Start, StandsStill, Local, TypeOK
  <2> QED BY <1>1, <1>3, <2>1, OthersKeep DEF IInv, TypeOK
<1> QED BY <1>4, <1>6, <1>7, <1>8, <1>9, <1>10 DEF CallInv

\* A call that continues on an answer keeps its part of the invariant, if
\* the row it now remembers and the request it sends fit the answer.
LEMMA ContinueKeeps ==
    ASSUME IInv, NEW c \in Calls, NEW where \in Waiting, NEW r \in Request,
           Continue(c, where, r), machine' \in [Calls -> Row \cup {NoRow}],
           reused' \in [Calls -> BOOLEAN], number' \in [Calls -> Nat],
           horizon' \in [Calls -> Nat], UNCHANGED outcome,
           \A d \in Calls \ {c} : machine'[d] = machine[d] /\ reused'[d] = reused[d],
           pc[c] \in Waiting, reply[c] # NoMsg,
           \/ /\ where = "searching" /\ r.op = "list"
              /\ NoRowOf(c) /\ UNCHANGED <<machine, reused>>
              /\ c \notin touched /\ ~reused[c] /\ machine[c] = NoRow
           \/ /\ where = "probing" /\ r.op = "validate" /\ r.skipTouch
              /\ NoRowOf(c) /\ UNCHANGED <<machine, reused>>
              /\ c \notin touched /\ ~reused[c] /\ machine[c] = NoRow
           \/ /\ where = "validating" /\ r.op = "validate"
              /\ machine'[c] \in Row /\ machine'[c].id < nextId
              /\ machine'[c].license = args[c].license
              /\ \/ /\ ~reused'[c] /\ machine'[c].by = c
                    /\ \A m \in machines : m.by = c => m = machine'[c]
                 \/ /\ reused'[c] /\ NoRowOf(c) /\ machine'[c].by # c
                    /\ machine'[c].fingerprint = args[c].fingerprint
           \/ /\ where = "rollingBack" /\ r.op = "delete" /\ r.row = machine[c]
              /\ pc[c] = "validating" /\ ~reused[c] /\ args[c].autoDelete
              /\ UNCHANGED <<machine, reused>>
    PROVE  TypeOK' /\ \A d \in Calls : CallInv(d)'
<1>1. TypeOK /\ CallInv(c) /\ NoMsg.op = "none" /\ outcome[c] = "pending"
  BY DEF IInv, CallInv, WireMatchesCall, NoMsg, Waiting, TypeOK
<1>2. /\ pc'[c] = where /\ request'[c] = r /\ reply'[c] = NoMsg
      /\ UNCHANGED <<machines, nextId, touched, args>>
      /\ TypeOK'
      /\ \A d \in Calls \ {c} : StandsStill(d)
  BY <1>1, ContinueFacts
<1>3. WireMatchesCall(c)'
  BY <1>1, <1>2 DEF WireMatchesCall, Waiting
<1>4. RowsMatchCall(c)'
  BY <1>1, <1>2, NoRowIsNoRow DEF CallInv, RowsMatchCall, NoRowOf
<1>5. DeletesOwnRow(c)'
  <2>1. where = "rollingBack" => machine[c].by = c
    BY <1>1 DEF CallInv, RowsMatchCall
  <2> QED BY <1>1, <1>2, <2>1 DEF DeletesOwnRow
<1>6. AdoptsShownRow(c)'
  BY <1>1, <1>2, NoRowIsNoRow DEF CallInv, AdoptsShownRow
<1>7. TouchesLate(c)'
  BY <1>1, <1>2 DEF TouchesLate
<1>8. IdsAreOld(c)'
  BY <1>1, <1>2 DEF CallInv, IdsAreOld
<1>9. ASSUME NEW d \in Calls \ {c} PROVE CallInv(d)'
  BY <1>1, <1>2, OthersKeep DEF IInv, TypeOK
<1> QED BY <1>2, <1>3, <1>4, <1>5, <1>6, <1>7, <1>8, <1>9 DEF CallInv

\* The answers that keep a call going.
LEMMA ContinuesKeep ==
    ASSUME IInv, NEW c \in Calls,
           \/ CreateSucceeded(c) \/ TakenSearches(c) \/ CreateRefused(c)
           \/ SearchHit(c) \/ SearchNextPage(c) \/ ValidatedRollsBack(c)
    PROVE  TypeOK' /\ \A d \in Calls : CallInv(d)'
<1>1. /\ TypeOK /\ CallInv(c)
      /\ reply[c] \in Reply /\ NoMsg.op = "none"
      /\ args[c] \in Args /\ machine[c] \in Row \cup {NoRow}
  BY DEF IInv, TypeOK, NoMsg
<1>2. CASE CreateSucceeded(c)
  <2>1. /\ Continue(c, "validating", Validate(FALSE))
        /\ pc[c] = "creating" /\ reply[c].op = "created" /\ reply[c] # NoMsg
        /\ machine' = [machine EXCEPT ![c] = reply[c].row]
        /\ UNCHANGED <<reused, number, horizon, outcome>>
    BY <1>1, <1>2 DEF CreateSucceeded
  <2>2. reply[c].row \in Row /\ machine'[c] = reply[c].row
    BY <1>1, <2>1, ReplyShapes DEF TypeOK
  <2>3. machine' \in [Calls -> Row \cup {NoRow}] /\ number' \in [Calls -> Nat]
        /\ reused' \in [Calls -> BOOLEAN] /\ horizon' \in [Calls -> Nat]
        /\ \A d \in Calls \ {c} : machine'[d] = machine[d] /\ reused'[d] = reused[d]
    BY <1>1, <2>1, <2>2 DEF TypeOK
  <2>4. /\ reply[c].row.id < nextId /\ reply[c].row.by = c /\ ~reused'[c]
        /\ reply[c].row.license = args[c].license
        /\ \A m \in machines : m.by = c => m = reply[c].row
    BY <1>1, <2>1 DEF CallInv, IdsAreOld, RowsMatchCall, AdoptsShownRow
  <2>5. Validate(FALSE) \in Request /\ Validate(FALSE).op = "validate"
    BY RequestsTyped
  <2> QED BY <2>1, <2>2, <2>3, <2>4, <2>5, ContinueKeeps DEF Waiting
<1>3. CASE TakenSearches(c)
  <2>1. /\ Continue(c, "searching", List(1))
        /\ pc[c] = "creating" /\ reply[c].op = "taken" /\ reply[c] # NoMsg
        /\ number' = [number EXCEPT ![c] = 1]
        /\ horizon' = [horizon EXCEPT ![c] = nextId]
        /\ UNCHANGED <<machine, reused, outcome>>
    BY <1>1, <1>3 DEF TakenSearches
  <2>2. number' \in [Calls -> Nat] /\ horizon' \in [Calls -> Nat]
    BY <1>1, <2>1 DEF TypeOK
  <2>3. NoRowOf(c) /\ ~reused[c] /\ machine[c] = NoRow /\ c \notin touched
    BY <1>1, <2>1 DEF CallInv, RowsMatchCall, TouchesLate
  <2>4. List(1) \in Request /\ List(1).op = "list"
    BY RequestsTyped
  <2> QED BY <1>1, <2>1, <2>2, <2>3, <2>4, ContinueKeeps DEF Waiting, TypeOK
<1>4. CASE CreateRefused(c)
  <2>1. /\ Continue(c, "probing", Validate(TRUE))
        /\ pc[c] = "creating" /\ reply[c].op = "limit" /\ reply[c] # NoMsg
        /\ UNCHANGED <<machine, reused, number, horizon, outcome>>
    BY <1>1, <1>4 DEF CreateRefused
  <2>2. NoRowOf(c) /\ ~reused[c] /\ machine[c] = NoRow /\ c \notin touched
    BY <1>1, <2>1 DEF CallInv, RowsMatchCall, TouchesLate
  <2>3. /\ Validate(TRUE) \in Request /\ Validate(TRUE).op = "validate"
        /\ Validate(TRUE).skipTouch
    BY RequestsTyped
  <2> QED BY <1>1, <2>1, <2>2, <2>3, ContinueKeeps DEF Waiting, TypeOK
<1>5. CASE SearchHit(c)
  <2>1. PICK m \in Matches(c) : machine' = [machine EXCEPT ![c] = m]
    BY <1>5 DEF SearchHit
  <2>2. /\ Continue(c, "validating", Validate(FALSE))
        /\ pc[c] = "searching" /\ reply[c].op = "page" /\ reply[c] # NoMsg
        /\ reused' = [reused EXCEPT ![c] = TRUE]
        /\ UNCHANGED <<number, horizon, outcome>>
    BY <1>1, <1>5 DEF SearchHit
  <2>3. /\ m \in Row /\ m.license = args[c].license /\ m.by # c
        /\ m.fingerprint = args[c].fingerprint /\ m.id < nextId
    BY <1>1, <2>2, ReplyShapes DEF Matches, CallInv, AdoptsShownRow, IdsAreOld
  <2>4. machine' \in [Calls -> Row \cup {NoRow}] /\ number' \in [Calls -> Nat]
        /\ reused' \in [Calls -> BOOLEAN] /\ horizon' \in [Calls -> Nat]
        /\ \A d \in Calls \ {c} : machine'[d] = machine[d] /\ reused'[d] = reused[d]
    BY <1>1, <2>1, <2>2, <2>3 DEF TypeOK
  <2>5. machine'[c] = m /\ reused'[c] /\ NoRowOf(c)
    BY <1>1, <2>1, <2>2 DEF TypeOK, CallInv, RowsMatchCall
  <2>6. Validate(FALSE) \in Request /\ Validate(FALSE).op = "validate"
    BY RequestsTyped
  <2> QED BY <2>2, <2>3, <2>4, <2>5, <2>6, ContinueKeeps DEF Waiting
<1>6. CASE SearchNextPage(c)
  <2>1. /\ Continue(c, "searching", List(number[c] + 1))
        /\ pc[c] = "searching" /\ reply[c].op = "page" /\ reply[c] # NoMsg
        /\ number' = [number EXCEPT ![c] = @ + 1]
        /\ UNCHANGED <<machine, reused, horizon, outcome>>
    BY <1>1, <1>6 DEF SearchNextPage
  <2>2. number' \in [Calls -> Nat] /\ number[c] + 1 \in Nat
    BY <1>1, <2>1 DEF TypeOK
  <2>3. NoRowOf(c) /\ ~reused[c] /\ machine[c] = NoRow /\ c \notin touched
    BY <1>1, <2>1 DEF CallInv, RowsMatchCall, TouchesLate
  <2>4. List(number[c] + 1) \in Request /\ List(number[c] + 1).op = "list"
    BY <2>2, RequestsTyped
  <2> QED BY <1>1, <2>1, <2>2, <2>3, <2>4, ContinueKeeps DEF Waiting, TypeOK
<1>7. CASE ValidatedRollsBack(c)
  <2>1. /\ Continue(c, "rollingBack", Delete(machine[c]))
        /\ pc[c] = "validating" /\ reply[c].op = "verdict" /\ reply[c] # NoMsg
        /\ ~reused[c] /\ args[c].autoDelete
        /\ UNCHANGED <<machine, reused, number, horizon, outcome>>
    BY <1>1, <1>7 DEF ValidatedRollsBack, RollsBack
  <2>2. machine[c] \in Row
    BY <1>1, <2>1 DEF CallInv, RowsMatchCall
  <2>3. /\ Delete(machine[c]) \in Request /\ Delete(machine[c]).op = "delete"
        /\ Delete(machine[c]).row = machine[c]
    BY <2>2, RequestsTyped
  <2> QED BY <1>1, <2>1, <2>2, <2>3, ContinueKeeps DEF Waiting, TypeOK
<1> QED BY <1>2, <1>3, <1>4, <1>5, <1>6, <1>7

-----------------------------------------------------------------------------
(* The server's steps.                                                     *)

\* A create that finds no conflict and room adds the one row the call is
\* told about; any other create changes no row.
LEMMA ServeCreateKeeps ==
    ASSUME IInv, NEW c \in Calls, ServeCreate(c)
    PROVE  TypeOK' /\ (\A d \in Calls : CallInv(d)') /\ TableInv'
<1>1. /\ TypeOK /\ CallInv(c) /\ TableInv /\ NoMsg.op = "none"
      /\ request[c].op = "create" /\ reply[c] = NoMsg /\ NoRowOf(c)
      /\ pc[c] \notin {"idle", "searching", "probing", "validating", "rollingBack"}
      /\ ~reused[c] /\ nextId \in Nat
  BY DEF IInv, ServeCreate, CallInv, WireMatchesCall, RowsMatchCall, NoMsg, TypeOK
<1>2. CASE machines' = machines
  <2>1. PICK r \in {[op |-> "taken"], [op |-> "limit"]} : Answer(c, r) /\ UNCHANGED serverVars
    BY <1>2, <1>1 DEF ServeCreate, serverVars, NewRow, TableInv, TypeOK
  <2>2. r \in Reply /\ r.op \in {"taken", "limit"}
    BY DEF Reply
  <2>3. /\ request'[c] = NoMsg
        /\ reply'[c] = IF pc[c] \in Waiting THEN r ELSE NoMsg
        /\ UNCHANGED <<pc, args, machine, reused, number, horizon, outcome,
                       machines, nextId, touched>>
        /\ request' \in [Calls -> Request] /\ reply' \in [Calls -> Reply]
        /\ \A d \in Calls \ {c} : UNCHANGED Local(d)
    BY <1>1, <2>1, <2>2, AnswerFacts DEF serverVars
  <2>4. TypeOK' /\ TableInv'
    BY <1>1, <2>3 DEF TypeOK, TableInv
  <2>5. WireMatchesCall(c)'
    BY <1>1, <2>2, <2>3 DEF CallInv, WireMatchesCall, Waiting
  <2>6. RowsMatchCall(c)'
    BY <1>1, <2>2, <2>3 DEF CallInv, RowsMatchCall, NoRowOf
  <2>7. DeletesOwnRow(c)' /\ AdoptsShownRow(c)' /\ TouchesLate(c)' /\ IdsAreOld(c)'
    BY <1>1, <2>2, <2>3
    DEF CallInv, DeletesOwnRow, AdoptsShownRow, TouchesLate, IdsAreOld
  <2>8. ASSUME NEW d \in Calls \ {c} PROVE CallInv(d)'
    <3>1. StandsStill(d)
      BY <1>1, <2>3 DEF StandsStill
    <3> QED BY <1>1, <2>3, <3>1, OthersKeep DEF IInv
  <2> QED BY <2>4, <2>5, <2>6, <2>7, <2>8 DEF CallInv
<1>3. CASE machines' # machines
  <2> DEFINE n == NewRow(c)
             r == [op |-> "created", row |-> n]
  <2>1. /\ Answer(c, r) /\ machines' = machines \cup {n}
        /\ nextId' = nextId + 1 /\ UNCHANGED touched
    BY <1>3 DEF ServeCreate, serverVars
  <2>2. n \in Row /\ n.by = c /\ n.id = nextId /\ n.license = args[c].license
    BY <1>1, ConstantsAssumption DEF NewRow, Row, TypeOK, IsArg
  <2>3. r \in Reply /\ r.op = "created" /\ r.row = n
    BY <2>2 DEF Reply
  <2> HIDE DEF n, r
  <2>4. /\ request'[c] = NoMsg
        /\ reply'[c] = IF pc[c] \in Waiting THEN r ELSE NoMsg
        /\ UNCHANGED <<pc, args, machine, reused, number, horizon, outcome>>
        /\ request' \in [Calls -> Request] /\ reply' \in [Calls -> Reply]
        /\ \A d \in Calls \ {c} : UNCHANGED Local(d)
    BY <1>1, <2>1, <2>3, AnswerFacts
  <2>5. TypeOK'
    BY <1>1, <2>1, <2>2, <2>4 DEF TypeOK
  <2>6. TableInv'
    <3>1. IsFiniteSet(machines')
      BY <1>1, <2>1, FS_AddElement DEF TableInv
    <3>2. \A m \in machines : m.id \in Nat
      BY <1>1 DEF TypeOK, Row
    <3> QED BY <1>1, <2>1, <2>2, <3>1, <3>2 DEF TableInv
  <2>7. WireMatchesCall(c)'
    BY <1>1, <2>3, <2>4 DEF CallInv, WireMatchesCall, Waiting
  <2>8. RowsMatchCall(c)'
    BY <1>1, <2>1, <2>2, <2>3, <2>4 DEF CallInv, RowsMatchCall, NoRowOf, WireMatchesCall
  <2>9. DeletesOwnRow(c)' /\ AdoptsShownRow(c)' /\ TouchesLate(c)'
    BY <1>1, <2>1, <2>2, <2>3, <2>4
    DEF CallInv, DeletesOwnRow, AdoptsShownRow, TouchesLate
  <2>10. IdsAreOld(c)'
    <3>1. machine[c] # NoRow => machine[c].id \in Nat
      BY <1>1 DEF TypeOK, Row
    <3> QED BY <1>1, <2>1, <2>2, <2>3, <2>4, <3>1 DEF CallInv, IdsAreOld
  <2>11. ASSUME NEW d \in Calls \ {c} PROVE CallInv(d)'
    <3>1. StandsStill(d)
      BY <1>1, <2>1, <2>2, <2>4 DEF StandsStill
    <3> QED BY <1>1, <2>1, <3>1, OthersKeep DEF IInv
  <2> QED BY <2>5, <2>6, <2>7, <2>8, <2>9, <2>10, <2>11 DEF CallInv
<1> QED BY <1>2, <1>3

\* A listing shows rows of the asked licence that stand, none of them the
\* caller's.
LEMMA ServeListKeeps ==
    ASSUME IInv, NEW c \in Calls, ServeList(c)
    PROVE  TypeOK' /\ (\A d \in Calls : CallInv(d)') /\ TableInv'
<1> DEFINE S == Hits(args[c].license, args[c].fingerprint)
           r == [op |-> "page", items |-> PageOf(S, request[c].number),
                 more |-> MorePages(S, request[c].number)]
<1>1. /\ TypeOK /\ CallInv(c) /\ TableInv /\ NoMsg.op = "none"
      /\ request[c].op = "list" /\ reply[c] = NoMsg
      /\ pc[c] \notin {"idle", "creating", "probing", "validating", "rollingBack"}
  BY DEF IInv, ServeList, CallInv, WireMatchesCall, NoMsg
<1>2. Answer(c, r) /\ UNCHANGED <<machines, nextId, touched>>
  BY DEF ServeList, serverVars
<1>3. PageOf(S, request[c].number) \subseteq S /\ S \subseteq OnLicense(args[c].license)
  BY DEF PageOf, Hits
<1>4. r.op = "page" /\ r.items \in SUBSET Row /\ r.items \subseteq OnLicense(args[c].license)
  BY <1>1, <1>3 DEF OnLicense, TypeOK
<1>5. r \in Reply
  <2>1. MorePages(S, request[c].number) \in BOOLEAN
    BY DEF MorePages
  <2> QED BY <1>4, <2>1 DEF Reply
<1> HIDE DEF r, S
<1>6. /\ request'[c] = NoMsg
      /\ reply'[c] = IF pc[c] \in Waiting THEN r ELSE NoMsg
      /\ UNCHANGED <<pc, args, machine, reused, number, horizon, outcome>>
      /\ request' \in [Calls -> Request] /\ reply' \in [Calls -> Reply]
      /\ \A d \in Calls \ {c} : UNCHANGED Local(d)
  BY <1>1, <1>2, <1>5, AnswerFacts
<1>7. TypeOK' /\ TableInv'
  BY <1>1, <1>2, <1>6 DEF TypeOK, TableInv
<1>8. WireMatchesCall(c)'
  BY <1>1, <1>4, <1>6 DEF CallInv, WireMatchesCall, Waiting
<1>9. RowsMatchCall(c)'
  BY <1>1, <1>2, <1>4, <1>6 DEF CallInv, RowsMatchCall, NoRowOf
<1>10. AdoptsShownRow(c)' /\ IdsAreOld(c)'
  <2>1. pc[c] \in Waiting => NoRowOf(c)
    BY <1>1 DEF CallInv, RowsMatchCall, Waiting
  <2> QED BY <1>1, <1>2, <1>4, <1>6, <2>1
          DEF CallInv, AdoptsShownRow, IdsAreOld, OnLicense, TableInv, NoRowOf
<1>11. DeletesOwnRow(c)' /\ TouchesLate(c)'
  BY <1>1, <1>2, <1>4, <1>6 DEF CallInv, DeletesOwnRow, TouchesLate
<1>12. ASSUME NEW d \in Calls \ {c} PROVE CallInv(d)'
  <2>1. StandsStill(d)
    BY <1>1, <1>2, <1>6 DEF StandsStill, TypeOK
  <2> QED BY <1>1, <1>2, <2>1, OthersKeep DEF IInv, TypeOK
<1> QED BY <1>7, <1>8, <1>9, <1>10, <1>11, <1>12 DEF CallInv

\* A validate touches the licence for a call that asked for it.
LEMMA ServeValidateKeeps ==
    ASSUME IInv, NEW c \in Calls, ServeValidate(c)
    PROVE  TypeOK' /\ (\A d \in Calls : CallInv(d)') /\ TableInv'
<1>1. /\ TypeOK /\ CallInv(c) /\ TableInv /\ NoMsg.op = "none"
      /\ request[c].op = "validate" /\ reply[c] = NoMsg
      /\ pc[c] \notin {"idle", "creating", "searching", "rollingBack"}
  BY DEF IInv, ServeValidate, CallInv, WireMatchesCall, NoMsg
<1>2. PICK code \in Verdicts(args[c].license) :
              Answer(c, [op |-> "verdict", code |-> code])
  BY DEF ServeValidate
<1>3. /\ touched' = IF request[c].skipTouch THEN touched ELSE touched \cup {c}
      /\ UNCHANGED <<machines, nextId>>
  BY DEF ServeValidate
<1> DEFINE r == [op |-> "verdict", code |-> code]
<1>4. code \in Codes
  BY ConstantsAssumption DEF Verdicts, Codes, OverageCodes
<1>5. r \in Reply /\ r.op = "verdict"
  BY <1>4 DEF Reply
<1>6. Answer(c, r)
  BY <1>2
<1> HIDE DEF r
<1>7. /\ request'[c] = NoMsg
      /\ reply'[c] = IF pc[c] \in Waiting THEN r ELSE NoMsg
      /\ UNCHANGED <<pc, args, machine, reused, number, horizon, outcome>>
      /\ request' \in [Calls -> Request] /\ reply' \in [Calls -> Reply]
      /\ \A d \in Calls \ {c} : UNCHANGED Local(d)
  BY <1>1, <1>5, <1>6, AnswerFacts
<1>8. TypeOK' /\ TableInv'
  BY <1>1, <1>3, <1>7 DEF TypeOK, TableInv
<1>9. WireMatchesCall(c)'
  BY <1>1, <1>5, <1>7 DEF CallInv, WireMatchesCall, Waiting
<1>10. RowsMatchCall(c)'
  BY <1>1, <1>3, <1>5, <1>7 DEF CallInv, RowsMatchCall, NoRowOf
<1>11. DeletesOwnRow(c)' /\ AdoptsShownRow(c)' /\ IdsAreOld(c)'
  BY <1>1, <1>3, <1>5, <1>7 DEF CallInv, DeletesOwnRow, AdoptsShownRow, IdsAreOld
<1>12. TouchesLate(c)'
  BY <1>1, <1>3, <1>7 DEF CallInv, TouchesLate
<1>13. ASSUME NEW d \in Calls \ {c} PROVE CallInv(d)'
  <2>1. StandsStill(d)
    BY <1>1, <1>3, <1>7 DEF StandsStill, TypeOK
  <2> QED BY <1>1, <1>3, <2>1, OthersKeep DEF IInv, TypeOK
<1> QED BY <1>8, <1>9, <1>10, <1>11, <1>12, <1>13 DEF CallInv

\* A delete takes away the only row its call has.
LEMMA ServeDeleteKeeps ==
    ASSUME IInv, NEW c \in Calls, ServeDelete(c)
    PROVE  TypeOK' /\ (\A d \in Calls : CallInv(d)') /\ TableInv'
<1>1. /\ TypeOK /\ CallInv(c) /\ TableInv /\ NoMsg.op = "none"
      /\ request[c].op = "delete" /\ reply[c] = NoMsg
      /\ pc[c] \in {"rollingBack", "done", "cancelled"}
      /\ request[c].row = machine[c] /\ ~reused[c]
  BY DEF IInv, ServeDelete, CallInv, WireMatchesCall, DeletesOwnRow, NoMsg
<1> DEFINE r == [op |-> "deleted"]
<1>2. /\ Answer(c, r) /\ machines' = machines \ {machine[c]}
      /\ UNCHANGED <<nextId, touched>>
  BY <1>1 DEF ServeDelete
<1>3. r \in Reply /\ r.op = "deleted"
  BY DEF Reply
<1> HIDE DEF r
<1>4. /\ request'[c] = NoMsg
      /\ reply'[c] = IF pc[c] \in Waiting THEN r ELSE NoMsg
      /\ UNCHANGED <<pc, args, machine, reused, number, horizon, outcome>>
      /\ request' \in [Calls -> Request] /\ reply' \in [Calls -> Reply]
      /\ \A d \in Calls \ {c} : UNCHANGED Local(d)
  BY <1>1, <1>2, <1>3, AnswerFacts
<1>5. TypeOK'
  BY <1>1, <1>2, <1>4 DEF TypeOK
<1>6. TableInv'
  BY <1>1, <1>2, FS_Subset DEF TableInv
<1>7. WireMatchesCall(c)'
  BY <1>1, <1>3, <1>4 DEF CallInv, WireMatchesCall, Waiting
<1>8. RowsMatchCall(c)'
  <2>1. pc[c] = "rollingBack" => \A m \in machines : m.by = c => m = machine[c]
    BY <1>1 DEF CallInv, RowsMatchCall
  <2> QED BY <1>1, <1>2, <1>3, <1>4, <2>1
          DEF CallInv, RowsMatchCall, NoRowOf, Waiting
<1>9. DeletesOwnRow(c)' /\ AdoptsShownRow(c)' /\ IdsAreOld(c)' /\ TouchesLate(c)'
  BY <1>1, <1>2, <1>3, <1>4
  DEF CallInv, DeletesOwnRow, AdoptsShownRow, IdsAreOld, TouchesLate
<1>10. ASSUME NEW d \in Calls \ {c} PROVE CallInv(d)'
  <2>1. StandsStill(d)
    BY <1>1, <1>2, <1>4 DEF StandsStill, TypeOK
  <2> QED BY <1>1, <1>2, <2>1, OthersKeep DEF IInv, TypeOK
<1> QED BY <1>5, <1>6, <1>7, <1>8, <1>9, <1>10 DEF CallInv

\* An eviction only takes rows away.
LEMMA EvictKeeps ==
    ASSUME IInv, NEW m \in machines, Evict(m)
    PROVE  TypeOK' /\ (\A d \in Calls : CallInv(d)') /\ TableInv'
<1>1. TypeOK /\ TableInv
  BY DEF IInv
<1>2. /\ machines' \subseteq machines
      /\ UNCHANGED <<nextId, touched, pc, args, machine, reused, number,
                     horizon, outcome, request, reply>>
  BY DEF Evict, callVars
<1>3. TypeOK'
  BY <1>1, <1>2 DEF TypeOK
<1>4. TableInv'
  BY <1>1, <1>2, FS_Subset DEF TableInv
<1>5. ASSUME NEW d \in Calls PROVE CallInv(d)'
  <2>1. StandsStill(d)
    BY <1>1, <1>2 DEF StandsStill, Local, TypeOK
  <2> QED BY <1>1, <1>2, <2>1, OthersKeep DEF IInv, TypeOK
<1> QED BY <1>3, <1>4, <1>5

-----------------------------------------------------------------------------
(* The seats.                                                              *)

\* Nobody newly hears VALID, and a call that has heard it keeps its machine.
TellsNobody == \A d \in Calls : ToldValid(d)' => ToldValid(d) /\ machine'[d] = machine[d]

\* Unless somebody newly hears VALID, no machine comes to count: rows that
\* appear have ids nobody holds.
LEMMA CountedShrinks ==
    ASSUME IInv, TellsNobody,
           \A m \in machines' : m \in machines \/ m.id = nextId
    PROVE  SeatInv'
<1> SUFFICES ASSUME NEW l \in Licenses
             PROVE  Cardinality(Counted(l)') <= Seats[l]
  BY DEF SeatInv
<1>1. Counted(l)' \subseteq Counted(l)
  <2> SUFFICES ASSUME NEW m \in Counted(l)' PROVE m \in Counted(l)
    OBVIOUS
  <2>1. PICK c \in Calls : machine'[c] = m /\ ToldValid(c)'
    BY DEF Counted
  <2>2. m \in machines' /\ m.license = l /\ ToldValid(c) /\ machine[c] = m
    BY <2>1 DEF Counted, OnLicense, TellsNobody
  <2>3. m \in machines
    <3>1. machine[c] = NoRow \/ machine[c].id < nextId
      BY DEF IInv, CallInv, IdsAreOld
    <3>2. m # NoRow => ~(m.id = nextId)
      BY <2>2, <3>1 DEF IInv, TypeOK, Row
    <3>3. m = NoRow => ~(m.id = nextId)
      BY DEF NoRow, IInv, TypeOK
    <3> QED BY <2>2, <3>2, <3>3
  <2> QED BY <2>2, <2>3 DEF Counted, OnLicense
<1>2. IsFiniteSet(Counted(l))
  BY FS_Subset DEF Counted, OnLicense, IInv, TableInv
<1>3. /\ Cardinality(Counted(l)') <= Cardinality(Counted(l))
      /\ Cardinality(Counted(l)') \in Nat /\ Cardinality(Counted(l)) \in Nat
  BY <1>1, <1>2, FS_Subset, FS_CardinalityType
<1>4. Cardinality(Counted(l)) <= Seats[l] /\ Seats[l] \in Nat
  BY ConstantsAssumption DEF IInv, SeatInv
<1> QED BY <1>3, <1>4

\* VALID is only said while the licence is within its seats, every row on it
\* included.
LEMMA ValidateWithinSeats ==
    ASSUME IInv, TypeOK', NEW c \in Calls, ServeValidate(c)
    PROVE  SeatInv'
<1>1. /\ UNCHANGED <<machines, machine, outcome, pc>>
      /\ \A d \in Calls \ {c} : reply'[d] = reply[d]
  BY DEF ServeValidate, Answer, callVars, IInv, TypeOK
<1>2. PICK code \in Verdicts(args[c].license) :
              Answer(c, [op |-> "verdict", code |-> code])
  BY DEF ServeValidate
<1>3. CASE ~ToldValid(c)' \/ ToldValid(c)
  <2>1. TellsNobody
    BY <1>1, <1>3 DEF TellsNobody, ToldValid
  <2> QED BY <1>1, <2>1, CountedShrinks
<1>4. CASE ToldValid(c)' /\ ~ToldValid(c)
  <2> DEFINE k == args[c].license
  <2>1. reply'[c].op = "verdict" /\ reply'[c].code = "VALID"
    BY <1>1, <1>4 DEF ToldValid
  <2>2. code = "VALID"
    BY <1>2, <2>1 DEF Answer, NoMsg, IInv, TypeOK
  <2>3. k \in Licenses
    BY ConstantsAssumption DEF IInv, TypeOK, IsArg
  <2>4. ~(Cardinality(OnLicense(k)) > Seats[k])
    BY <2>2, ConstantsAssumption DEF Verdicts
  <2> SUFFICES ASSUME NEW l \in Licenses
               PROVE  Cardinality(Counted(l)') <= Seats[l]
    BY DEF SeatInv
  <2>5. IsFiniteSet(OnLicense(l)) /\ IsFiniteSet(Counted(l)) /\ Seats[l] \in Nat
    BY FS_Subset, ConstantsAssumption DEF Counted, OnLicense, IInv, TableInv
  <2>6. CASE l = k
    <3>1. Counted(l)' \subseteq OnLicense(l)
      BY <1>1 DEF Counted, OnLicense
    <3>2. /\ Cardinality(Counted(l)') <= Cardinality(OnLicense(l))
          /\ Cardinality(Counted(l)') \in Nat /\ Cardinality(OnLicense(l)) \in Nat
      BY <2>5, <3>1, FS_Subset, FS_CardinalityType
    <3> QED BY <2>4, <2>5, <2>6, <3>2
  <2>7. CASE l # k
    <3>1. machine[c] \notin OnLicense(l)
      <4>1. NoRow \notin machines
        BY NoRowIsNoRow DEF IInv, TypeOK
      <4> QED BY <2>7, <4>1 DEF OnLicense, IInv, CallInv, AdoptsShownRow
    <3>2. Counted(l)' \subseteq Counted(l)
      BY <1>1, <3>1 DEF Counted, OnLicense, ToldValid
    <3>3. /\ Cardinality(Counted(l)') <= Cardinality(Counted(l))
          /\ Cardinality(Counted(l)') \in Nat /\ Cardinality(Counted(l)) \in Nat
      BY <2>5, <3>2, FS_Subset, FS_CardinalityType
    <3>4. Cardinality(Counted(l)) <= Seats[l]
      BY DEF IInv, SeatInv
    <3> QED BY <2>5, <3>3, <3>4
  <2> QED BY <2>6, <2>7
<1> QED BY <1>3, <1>4

\* No step of a call makes VALID of anything but a VALID verdict.
LEMMA ClientTellsNobody ==
    ASSUME IInv, NEW c \in Calls,
           Start(c) \/ HandleReply(c) \/ RequestFails(c) \/ Cancel(c)
    PROVE  TellsNobody /\ UNCHANGED machines
<1> USE DEF TellsNobody, ToldValid
<1>1. /\ TypeOK /\ NoMsg.op = "none" /\ (pc[c] \in Waiting => outcome[c] = "pending")
  BY DEF IInv, CallInv, WireMatchesCall, NoMsg, Waiting
<1>2. CASE Start(c)
  BY <1>2 DEF Start, serverVars
<1>3. CASE Cancel(c)
  BY <1>1, <1>3 DEF Cancel, serverVars, callVars, TypeOK
<1>4. ASSUME NEW result \in Outcomes, Return(c, result),
             result = "valid" => reply[c].op = "verdict" /\ reply[c].code = "VALID"
      PROVE  TellsNobody /\ UNCHANGED machines
  BY <1>1, <1>4 DEF Return, serverVars, callVars, TypeOK
<1>5. ASSUME NEW where \in Waiting, NEW r, Continue(c, where, r), pc[c] \in Waiting,
             UNCHANGED outcome, \A d \in Calls \ {c} : machine'[d] = machine[d]
      PROVE  TellsNobody /\ UNCHANGED machines
  BY <1>1, <1>5 DEF Continue, serverVars, TypeOK
<1>6. CASE TakenPropagates(c) \/ SearchMiss(c)
  <2>1. Return(c, "taken")
    BY <1>6 DEF TakenPropagates, SearchMiss
  <2> QED BY <1>4, <2>1 DEF Outcomes
<1>7. CASE Probed(c)
  BY <1>4, <1>7 DEF Probed, Outcomes
<1>8. CASE ValidatedKeeps(c)
  <2>1. Return(c, Verdict(reply[c].code)) /\ reply[c].op = "verdict"
    BY <1>8 DEF ValidatedKeeps
  <2>2. Verdict(reply[c].code) \in Outcomes
    BY DEF Verdict, Outcomes
  <2>3. Verdict(reply[c].code) = "valid" => reply[c].code = "VALID"
    BY DEF Verdict
  <2> QED BY <1>4, <2>1, <2>2, <2>3
<1>9. CASE RolledBack(c)
  BY <1>4, <1>9 DEF RolledBack, Outcomes
<1>10. CASE RequestFails(c)
  <2>1. FailureOutcome(c) \in Outcomes \ {"valid"}
    BY Zenon DEF FailureOutcome, Outcomes
  <2> QED BY <1>4, <1>10, <2>1 DEF RequestFails
<1>11. CASE CreateSucceeded(c)
  <2>1. Continue(c, "validating", Validate(FALSE)) /\ pc[c] \in Waiting
        /\ UNCHANGED outcome /\ \A d \in Calls \ {c} : machine'[d] = machine[d]
    BY <1>1, <1>11 DEF CreateSucceeded, Waiting, TypeOK
  <2> QED BY <1>5, <2>1 DEF Waiting
<1>12. CASE SearchHit(c)
  <2>1. PICK m \in Matches(c) : machine' = [machine EXCEPT ![c] = m]
    BY <1>12 DEF SearchHit
  <2>2. Continue(c, "validating", Validate(FALSE)) /\ pc[c] \in Waiting
        /\ UNCHANGED outcome /\ \A d \in Calls \ {c} : machine'[d] = machine[d]
    BY <1>1, <1>12, <2>1 DEF SearchHit, Waiting, TypeOK
  <2> QED BY <1>5, <2>2 DEF Waiting
<1>13. CASE TakenSearches(c) \/ SearchNextPage(c)
  <2>1. PICK n : Continue(c, "searching", List(n))
    BY <1>13 DEF TakenSearches, SearchNextPage
  <2>2. pc[c] \in Waiting /\ UNCHANGED <<outcome, machine>>
    BY <1>13 DEF TakenSearches, SearchNextPage, Waiting
  <2> QED BY <1>5, <2>1, <2>2 DEF Waiting
<1>14. CASE CreateRefused(c)
  <2>1. Continue(c, "probing", Validate(TRUE)) /\ pc[c] \in Waiting
        /\ UNCHANGED <<outcome, machine>>
    BY <1>14 DEF CreateRefused, Waiting
  <2> QED BY <1>5, <2>1 DEF Waiting
<1>15. CASE ValidatedRollsBack(c)
  <2>1. Continue(c, "rollingBack", Delete(machine[c])) /\ pc[c] \in Waiting
        /\ UNCHANGED <<outcome, machine>>
    BY <1>15 DEF ValidatedRollsBack, Waiting
  <2> QED BY <1>5, <2>1 DEF Waiting
<1> QED BY <1>2, <1>3, <1>6, <1>7, <1>8, <1>9, <1>10, <1>11, <1>12, <1>13, <1>14, <1>15
        DEF HandleReply

\* Nor does any step of the server but a validate.
LEMMA ServerTellsNobody ==
    ASSUME IInv, NEW c \in Calls, ServeCreate(c) \/ ServeList(c) \/ ServeDelete(c)
    PROVE  /\ TellsNobody
           /\ \A m \in machines' : m \in machines \/ m.id = nextId
<1>1. PICK r : Answer(c, r) /\ r.op # "verdict"
  BY DEF ServeCreate, ServeList, ServeDelete
<1>2. TellsNobody
  BY <1>1 DEF TellsNobody, ToldValid, Answer, callVars, NoMsg, IInv, TypeOK
<1>3. \A m \in machines' : m \in machines \/ m.id = nextId
  BY DEF ServeCreate, ServeList, ServeDelete, NewRow, serverVars
<1> QED BY <1>2, <1>3

-----------------------------------------------------------------------------
(* The invariant.                                                          *)

\* At the start no call has anything, and the installed rows are nobody's.
LEMMA InitEstablishes == Init => IInv
<1> SUFFICES ASSUME Init PROVE IInv
  OBVIOUS
<1> USE ConstantsAssumption
<1>1. /\ Cardinality(Installed) \in Nat /\ IsFiniteSet(machines)
      /\ \A m \in machines : m \in Row /\ m.id < nextId /\ m.by = Earlier
  <2>1. Cardinality(Installed) \in Nat
    BY FS_CardinalityType
  <2>2. ASSUME NEW m \in Installed
        PROVE  m \in Row /\ m.id < Cardinality(Installed) + 1 /\ m.by = Earlier
    <3>1. m \in [id : 1..Cardinality(Installed), license : Licenses,
                 fingerprint : Fingerprints, by : {Earlier}]
      BY <2>2
    <3>2. m.id \in 1..Cardinality(Installed)
      BY <3>1
    <3>3. m.id \in Nat \ {0} /\ m.id < Cardinality(Installed) + 1
      BY <2>1, <3>2
    <3> QED BY <3>1, <3>3 DEF Row
  <2> QED BY <2>1, <2>2 DEF Init
<1>2. TypeOK
  <2>1. (CHOOSE a \in Args : TRUE) \in Args
    OBVIOUS
  <2> QED BY <1>1, <2>1 DEF Init, TypeOK, Outcomes, Request, Reply
<1>3. \A c \in Calls : CallInv(c)
  BY <1>1 DEF Init, CallInv, WireMatchesCall, RowsMatchCall, DeletesOwnRow,
              AdoptsShownRow, TouchesLate, IdsAreOld, NoRowOf, NoMsg, Waiting
<1>4. TableInv
  BY <1>1 DEF TableInv
<1>5. SeatInv
  <2> SUFFICES ASSUME NEW l \in Licenses
               PROVE  Cardinality(Counted(l)) <= Seats[l]
    BY DEF SeatInv
  <2>1. Counted(l) = {}
    BY DEF Init, Counted, ToldValid, NoMsg
  <2> QED BY <2>1, FS_EmptySet
<1> QED BY <1>2, <1>3, <1>4, <1>5 DEF IInv

\* Every step of every call, of the server and of an operator keeps the
\* invariant.
THEOREM InvariantHolds == Spec => []IInv
<1>1. IInv /\ [Next]_vars => IInv'
  <2> SUFFICES ASSUME IInv, [Next]_vars PROVE IInv'
    OBVIOUS
  <2>1. ASSUME NEW c \in Calls, Start(c) \/ HandleReply(c) \/ RequestFails(c) \/ Cancel(c)
        PROVE  IInv'
    <3>1. TypeOK' /\ \A d \in Calls : CallInv(d)'
      BY <2>1, StartKeeps, CancelKeeps, ReturnsKeep, ContinuesKeep DEF HandleReply
    <3>2. TellsNobody /\ UNCHANGED machines
      BY <2>1, ClientTellsNobody
    <3>3. SeatInv'
      BY <3>2, CountedShrinks
    <3>4. TableInv'
      <4>1. UNCHANGED nextId
        BY <2>1 DEF Start, HandleReply, RequestFails, Cancel, Return, Continue,
             CreateSucceeded, TakenPropagates, TakenSearches, CreateRefused,
             SearchHit, SearchNextPage, SearchMiss, Probed, ValidatedKeeps,
             ValidatedRollsBack, RolledBack, serverVars
      <4> QED BY <3>2, <4>1 DEF IInv, TableInv
    <3> QED BY <3>1, <3>3, <3>4 DEF IInv
  <2>2. ASSUME NEW c \in Calls, Serve(c)
        PROVE  IInv'
    <3>1. TypeOK' /\ (\A d \in Calls : CallInv(d)') /\ TableInv'
      BY <2>2, ServeCreateKeeps, ServeListKeeps, ServeValidateKeeps, ServeDeleteKeeps
      DEF Serve
    <3>2. SeatInv'
      BY <2>2, <3>1, ServerTellsNobody, CountedShrinks, ValidateWithinSeats DEF Serve
    <3> QED BY <3>1, <3>2 DEF IInv
  <2>3. ASSUME NEW m \in machines, Evict(m)
        PROVE  IInv'
    <3>1. TypeOK' /\ (\A d \in Calls : CallInv(d)') /\ TableInv'
      BY <2>3, EvictKeeps
    <3>2. TellsNobody /\ \A x \in machines' : x \in machines
      BY <2>3 DEF Evict, TellsNobody, ToldValid, callVars
    <3>3. SeatInv'
      BY <3>2, CountedShrinks
    <3> QED BY <3>1, <3>3 DEF IInv
  <2>4. CASE UNCHANGED vars
    <3>1. TypeOK' /\ TableInv'
      BY <2>4 DEF vars, IInv, TypeOK, TableInv
    <3>2. ASSUME NEW d \in Calls PROVE CallInv(d)'
      BY <2>4, OthersKeep DEF vars, IInv, TypeOK, StandsStill, Local
    <3>3. TellsNobody /\ UNCHANGED machines
      BY <2>4 DEF vars, TellsNobody, ToldValid
    <3>4. SeatInv'
      BY <3>3, CountedShrinks
    <3> QED BY <3>1, <3>2, <3>4 DEF IInv
  <2> QED BY <2>1, <2>2, <2>3, <2>4 DEF Next
<1> QED BY <1>1, InitEstablishes, PTL DEF Spec

-----------------------------------------------------------------------------
(* What the invariant gives.                                               *)

\* Messages, rows and call states stay the ones the flows can produce.
THEOREM TypeCorrect == Spec => []TypeOK
BY InvariantHolds, PTL DEF IInv

\* However calls, evictions and late answers interleave, a rollback on the
\* wire names a row its own call created and asked to be rid of.
THEOREM RollbackIsOwn == Spec => []RollsBackOnlyItsOwn
<1>1. IInv => RollsBackOnlyItsOwn
  BY DEF IInv, CallInv, DeletesOwnRow, RollsBackOnlyItsOwn
<1> QED BY <1>1, InvariantHolds, PTL

\* An adopted machine is on the caller's licence, of its fingerprint and
\* somebody else's, under any uniqueness strategy.
THEOREM AdoptionIsScoped == Spec => []AdoptsOwnLicenceOnly
<1>1. IInv => AdoptsOwnLicenceOnly
  BY DEF IInv, CallInv, AdoptsShownRow, AdoptsOwnLicenceOnly
<1> QED BY <1>1, InvariantHolds, PTL

\* A refused create leaves no row, no touch and no DELETE behind.
THEOREM RefusalIsClean == Spec => []RefusalLeavesNoTrace
<1>1. IInv => RefusalLeavesNoTrace
  BY DEF IInv, CallInv, RowsMatchCall, NoRowOf, TouchesLate, RefusalLeavesNoTrace
<1> QED BY <1>1, InvariantHolds, PTL

\* After a refusal or an answered rollback the server has no row of the call.
THEOREM NoneIsTrue == Spec => []NoneMeansNoMachine
<1>1. IInv => NoneMeansNoMachine
  BY DEF IInv, CallInv, RowsMatchCall, NoRowOf, NoneMeansNoMachine
<1> QED BY <1>1, InvariantHolds, PTL

\* However many calls race for the last seats, no more machines than seats
\* are standing with a VALID verdict.
THEOREM SeatsAreConfirmedOnce == Spec => []ConfirmedWithinSeats
<1>1. ASSUME IInv, NEW l \in Licenses
      PROVE  Cardinality(Confirmed(l)) <= Seats[l]
  <2>1. IsFiniteSet(Counted(l)) /\ Seats[l] \in Nat
    BY <1>1, FS_Subset, ConstantsAssumption DEF Counted, OnLicense, IInv, TableInv
  <2>2. Confirmed(l) \subseteq Counted(l)
    BY DEF Confirmed, Counted, ToldValid
  <2>3. /\ Cardinality(Confirmed(l)) <= Cardinality(Counted(l))
        /\ Cardinality(Confirmed(l)) \in Nat /\ Cardinality(Counted(l)) \in Nat
    BY <2>1, <2>2, FS_Subset, FS_CardinalityType
  <2>4. Cardinality(Counted(l)) <= Seats[l]
    BY <1>1 DEF IInv, SeatInv
  <2> QED BY <2>1, <2>3, <2>4
<1>2. IInv => ConfirmedWithinSeats
  BY <1>1 DEF ConfirmedWithinSeats
<1> QED BY <1>2, InvariantHolds, PTL

\* A licence over its seats has a row whose call is unfinished, failed, was
\* told something else or wanted no rollback: were every row accounted for,
\* every one of them would hold a VALID verdict.
THEOREM OverrunHasExcuse == Spec => []OverrunIsExcused
<1>1. ASSUME IInv, NEW l \in Licenses, Cardinality(OnLicense(l)) > Seats[l],
             \A m \in OnLicense(l) : ~Excused(m)
      PROVE  FALSE
  <2>1. ASSUME NEW m \in OnLicense(l) PROVE m \in Counted(l)
    <3> DEFINE c == m.by
    <3>1. m \in machines /\ c \in Calls
      BY <1>1 DEF OnLicense, Excused, IInv, TypeOK, Row
    <3>2. /\ pc[c] = "done" /\ args[c].autoDelete
          /\ outcome[c] \notin {"error", "invalid", "rollbackUnconfirmed"}
      BY <1>1 DEF Excused
    <3>3. outcome[c] \in Outcomes \ {"pending"}
      BY <1>1, <3>1, <3>2 DEF IInv, TypeOK, CallInv, WireMatchesCall
    <3>4. /\ ~reused[c]
          /\ outcome[c] \notin {"refused", "limitError", "taken", "rolledBack", "over"}
      BY <1>1, <3>1, <3>2 DEF IInv, CallInv, RowsMatchCall, NoRowOf, DeletesOwnRow
    <3>5. outcome[c] = "valid"
      BY <3>2, <3>3, <3>4 DEF Outcomes
    <3>6. machine[c] = m
      BY <1>1, <3>1, <3>4, <3>5 DEF IInv, CallInv, RowsMatchCall
    <3> QED BY <3>1, <3>5, <3>6 DEF Counted, ToldValid
  <2>2. IsFiniteSet(Counted(l)) /\ Seats[l] \in Nat
    BY <1>1, FS_Subset, ConstantsAssumption DEF Counted, OnLicense, IInv, TableInv
  <2>3. /\ Cardinality(OnLicense(l)) <= Cardinality(Counted(l))
        /\ Cardinality(OnLicense(l)) \in Nat /\ Cardinality(Counted(l)) \in Nat
    <3>1. OnLicense(l) \subseteq Counted(l)
      BY <2>1
    <3> QED BY <2>2, <3>1, FS_Subset, FS_CardinalityType
  <2>4. Cardinality(Counted(l)) <= Seats[l]
    BY <1>1 DEF IInv, SeatInv
  <2> QED BY <1>1, <2>2, <2>3, <2>4
<1>2. IInv => OverrunIsExcused
  BY <1>1 DEF OverrunIsExcused
<1> QED BY <1>2, InvariantHolds, PTL

-----------------------------------------------------------------------------
(* The search.  A page is read whole, so only rows that leave between two  *)
(* pages can hide another: they move it to a page already read.            *)

Found(c) == Hits(args[c].license, args[c].fingerprint)

\* The rows the search of c is looking for that stand since before it began.
Sought(c) == {m \in machines : /\ m.id < horizon[c]
                               /\ m.license = args[c].license
                               /\ m.fingerprint = args[c].fingerprint}

\* m is on none of the first n pages.
Beyond(c, m, n) == n * PageSize < Rank(m, Found(c))

\* What the pages read so far say of the sought rows: if no row ever leaves
\* ("calm"), or if this is the first page.
WalkInv(calm, c) ==
    /\ horizon[c] <= nextId
    /\ pc[c] = "searching" =>
          /\ number[c] \in Nat \ {0}
          /\ request[c].op = "list" => request[c].number = number[c]
          /\ calm => \A m \in Sought(c) : Beyond(c, m, number[c] - 1)
    /\ pc[c] = "searching" /\ reply[c].op = "page" /\ (calm \/ number[c] = 1) =>
          \A m \in Sought(c) : \/ m \in reply[c].items
                               \/ /\ reply[c].more
                                  /\ calm => Beyond(c, m, number[c])
    /\ outcome[c] = "taken" /\ args[c].idempotent /\ (calm \/ number[c] = 1) =>
          Sought(c) = {}

\* A rank counts the row itself, and no more than all of them.
LEMMA RankFacts ==
    ASSUME NEW S, IsFiniteSet(S), NEW m \in S, m.id \in Nat
    PROVE  /\ Rank(m, S) \in Nat \ {0}
           /\ Cardinality(S) \in Nat
           /\ Rank(m, S) <= Cardinality(S)
<1> DEFINE upTo == {x \in S : x.id <= m.id}
<1>1. /\ IsFiniteSet(upTo) /\ Cardinality(upTo) \in Nat
      /\ Cardinality(S) \in Nat /\ Cardinality(upTo) <= Cardinality(S)
  BY FS_Subset, FS_CardinalityType
<1>2. upTo # {}
  OBVIOUS
<1>3. Cardinality(upTo) # 0
  BY <1>1, <1>2, FS_EmptySet
<1> QED BY <1>1, <1>3 DEF Rank

\* The hits are finitely many, and what is sought is among them.
LEMMA SoughtIsFound ==
    ASSUME IInv, NEW c \in Calls, NEW m \in Sought(c)
    PROVE  m \in Found(c) /\ m.id \in Nat /\ IsFiniteSet(Found(c))
<1>1. Found(c) \subseteq machines
  BY DEF Found, Hits, OnLicense
<1> QED BY <1>1, FS_Subset DEF Sought, Found, Hits, OnLicense, IInv, TableInv, TypeOK, Row

\* As long as rows only come, and come with new ids, a row keeps its rank.
LEMMA RankStands ==
    ASSUME IInv, NEW c \in Calls, NEW m \in Sought(c), args'[c] = args[c],
           \A x \in machines : x \in machines',
           \A x \in machines' : x \in machines \/ x.id = nextId
    PROVE  Rank(m, Found(c))' = Rank(m, Found(c))
<1>1. m.id < nextId /\ m.id \in Nat /\ nextId \in Nat
  BY DEF Sought, IInv, TableInv, TypeOK, Row
<1>2. {x \in Found(c)' : x.id <= m.id} = {x \in Found(c) : x.id <= m.id}
  <2>1. ASSUME NEW x, x \in Found(c)', x.id <= m.id PROVE x \in Found(c)
    <3>1. x.id # nextId
      BY <1>1, <2>1
    <3> QED BY <2>1, <3>1 DEF Found, Hits, OnLicense
  <2>2. ASSUME NEW x, x \in Found(c) PROVE x \in Found(c)'
    BY <2>2 DEF Found, Hits, OnLicense
  <2> QED BY <2>1, <2>2
<1> QED BY <1>2 DEF Rank

\* Rows come with new ids, and only leave when the server is not calm.
RowsCome(calm) ==
    /\ nextId <= nextId'
    /\ \A m \in machines' : m \in machines \/ m.id = nextId
    /\ calm => \A m \in machines : m \in machines'

\* What a search looks for is nothing new, and stays where it was.
LEMMA SoughtStands ==
    ASSUME IInv, NEW calm \in BOOLEAN, NEW c \in Calls, RowsCome(calm),
           args'[c] = args[c], horizon'[c] = horizon[c], horizon[c] <= nextId
    PROVE  /\ Sought(c)' \subseteq Sought(c)
           /\ calm => \A m \in Sought(c) : \A n : Beyond(c, m, n)' <=> Beyond(c, m, n)
<1>1. Sought(c)' \subseteq Sought(c)
  BY DEF Sought, RowsCome, IInv, TypeOK
<1>2. ASSUME calm, NEW m \in Sought(c), NEW n PROVE Beyond(c, m, n)' <=> Beyond(c, m, n)
  BY <1>2, RankStands DEF RowsCome, Beyond
<1> QED BY <1>1, <1>2

\* The search of a call that neither reads nor is answered.
LEMMA WalkStands ==
    ASSUME IInv, IInv', NEW calm \in BOOLEAN, NEW c \in Calls, WalkInv(calm, c),
           RowsCome(calm), UNCHANGED <<args[c], horizon[c], number[c], pc[c], outcome[c]>>,
           request'[c] \in {request[c], NoMsg},
           \/ reply'[c] = reply[c]
           \/ reply'[c].op # "page"
           \/ pc[c] # "searching"
    PROVE  WalkInv(calm, c)'
<1>1. horizon'[c] <= nextId' /\ horizon[c] <= nextId
  BY DEF WalkInv, RowsCome, IInv, TypeOK
<1>2. /\ Sought(c)' \subseteq Sought(c)
      /\ calm => \A m \in Sought(c) : \A n : Beyond(c, m, n)' <=> Beyond(c, m, n)
  BY <1>1, SoughtStands
<1>3. NoMsg.op # "list"
  BY DEF NoMsg
<1>4. ASSUME pc[c] = "searching"
      PROVE  /\ number'[c] \in Nat \ {0}
             /\ request'[c].op = "list" => request'[c].number = number'[c]
             /\ calm => \A m \in Sought(c)' : Beyond(c, m, number[c] - 1)'
  BY <1>2, <1>3, <1>4 DEF WalkInv
<1>5. ASSUME pc[c] = "searching", reply'[c].op = "page", calm \/ number[c] = 1,
             NEW m \in Sought(c)'
      PROVE  \/ m \in reply'[c].items
             \/ /\ reply'[c].more
                /\ calm => Beyond(c, m, number[c])'
  BY <1>2, <1>5 DEF WalkInv
<1>6. ASSUME outcome[c] = "taken", args[c].idempotent, calm \/ number[c] = 1
      PROVE  Sought(c)' = {}
  BY <1>2, <1>6 DEF WalkInv
<1> QED BY <1>1, <1>4, <1>5, <1>6 DEF WalkInv, Beyond

\* Nothing is sought on behalf of a call that does not search and did not
\* return from a search.
LEMMA WalkIdle ==
    ASSUME IInv, IInv', NEW calm \in BOOLEAN, NEW c \in Calls, WalkInv(calm, c),
           UNCHANGED <<nextId, horizon[c]>>, pc'[c] # "searching",
           outcome'[c] # "taken" \/ ~args'[c].idempotent
    PROVE  WalkInv(calm, c)'
BY DEF WalkInv

\* The page the server hands out has the sought rows, or they come later.
LEMMA WalkServed ==
    ASSUME IInv, IInv', NEW calm \in BOOLEAN, NEW c \in Calls, WalkInv(calm, c),
           ServeList(c), pc[c] = "searching"
    PROVE  WalkInv(calm, c)'
<1> DEFINE n == number[c]
<1>1. /\ request[c].op = "list" /\ request[c].number = n /\ n \in Nat \ {0}
      /\ calm => \A m \in Sought(c) : Beyond(c, m, n - 1)
      /\ horizon[c] <= nextId
  BY DEF ServeList, WalkInv
<1>2. /\ UNCHANGED <<machines, nextId, pc, args, number, horizon, outcome>>
      /\ request'[c] = NoMsg
      /\ reply'[c] = [op |-> "page", items |-> PageOf(Found(c), n),
                      more |-> MorePages(Found(c), n)]
  BY <1>1 DEF ServeList, Answer, callVars, serverVars, IInv, TypeOK, Waiting, Found
<1>3. outcome[c] = "pending"
  BY DEF IInv, CallInv, WireMatchesCall
<1>4. Sought(c)' = Sought(c) /\ \A m, k : Beyond(c, m, k)' <=> Beyond(c, m, k)
  BY <1>2 DEF Sought, Beyond, Found, Hits, OnLicense, Rank
<1>5. ASSUME NEW m \in Sought(c), calm \/ n = 1
      PROVE  \/ m \in PageOf(Found(c), n)
             \/ MorePages(Found(c), n) /\ Beyond(c, m, n)
  <2> DEFINE r == Rank(m, Found(c))
             size == Cardinality(Found(c))
             before == (n - 1) * PageSize
             after == n * PageSize
  <2>1. m \in Found(c) /\ r \in Nat \ {0} /\ size \in Nat /\ r <= size
    BY RankFacts, SoughtIsFound
  <2>2. PageSize \in Nat \ {0}
    BY ConstantsAssumption
  <2>3. before < r
    BY <1>1, <1>5, <2>1, <2>2 DEF Beyond
  <2>4. after \in Nat
    BY <1>1, <2>2
  <2>5. CASE r <= after
    BY <2>1, <2>3, <2>5 DEF PageOf
  <2>6. CASE after < r
    <3>1. after < size
      <4> HIDE DEF after, size, r
      <4> QED BY <2>1, <2>4, <2>6
    <3> QED BY <2>6, <3>1 DEF MorePages, Beyond
  <2> HIDE DEF after, r
  <2> QED BY <2>1, <2>4, <2>5, <2>6
<1>6. reply'[c].items = PageOf(Found(c), n) /\ reply'[c].more = MorePages(Found(c), n)
  BY <1>2
<1>7. NoMsg.op # "list"
  BY DEF NoMsg
<1> QED BY <1>1, <1>2, <1>3, <1>4, <1>5, <1>6, <1>7 DEF WalkInv

\* The pages of the search: the first starts before every row, the next
\* where the last one ended, and behind the last page there is nothing.
LEMMA WalkGoesOn ==
    ASSUME IInv, IInv', NEW calm \in BOOLEAN, NEW c \in Calls, WalkInv(calm, c),
           TakenSearches(c) \/ SearchNextPage(c) \/ SearchMiss(c)
    PROVE  WalkInv(calm, c)'
<1>1. /\ PageSize \in Nat \ {0} /\ nextId \in Nat /\ NoMsg.op # "page"
      /\ number[c] \in Nat
  BY ConstantsAssumption DEF IInv, TypeOK, NoMsg
<1>2. CASE TakenSearches(c)
  <2>1. /\ pc'[c] = "searching" /\ request'[c] = List(1) /\ reply'[c] = NoMsg
        /\ number'[c] = 1 /\ horizon'[c] = nextId
        /\ UNCHANGED <<machines, nextId, args, outcome>>
    BY <1>2 DEF TakenSearches, Continue, serverVars, IInv, TypeOK
  <2>2. outcome[c] = "pending"
    BY <1>2 DEF TakenSearches, Waiting, IInv, CallInv, WireMatchesCall
  <2>3. ASSUME NEW m \in Sought(c)' PROVE Beyond(c, m, 0)'
    <3>1. /\ m \in Found(c)' /\ m.id \in Nat
          /\ Found(c)' \subseteq machines /\ IsFiniteSet(machines)
      BY <2>1, <2>3 DEF Sought, Found, Hits, OnLicense, IInv, TableInv, TypeOK, Row
    <3>2. Rank(m, Found(c)') \in Nat \ {0}
      BY <3>1, RankFacts, FS_Subset
    <3>3. Rank(m, Found(c))' = Rank(m, Found(c)')
      BY DEF Rank
    <3> QED BY <1>1, <3>2, <3>3 DEF Beyond
  <2>4. List(1).number = 1
    BY DEF List
  <2> QED BY <1>1, <2>1, <2>2, <2>3, <2>4 DEF WalkInv
<1>3. CASE SearchNextPage(c)
  <2>1. /\ pc[c] = "searching" /\ reply[c].op = "page" /\ Matches(c) = {}
        /\ pc'[c] = "searching" /\ request'[c] = List(number[c] + 1) /\ reply'[c] = NoMsg
        /\ number'[c] = number[c] + 1
        /\ UNCHANGED <<machines, nextId, args, horizon, outcome>>
    BY <1>3 DEF SearchNextPage, Continue, serverVars, IInv, TypeOK
  <2>2. outcome[c] = "pending" /\ number[c] \in Nat \ {0}
    BY <2>1 DEF Waiting, IInv, CallInv, WireMatchesCall, WalkInv
  <2>3. ASSUME calm, NEW m \in Sought(c) PROVE Beyond(c, m, number[c])
    <3>1. m \notin reply[c].items
      BY <2>1 DEF Matches, Sought
    <3> QED BY <2>1, <2>3, <3>1 DEF WalkInv
  <2>4. Sought(c)' = Sought(c) /\ \A m, k : Beyond(c, m, k)' <=> Beyond(c, m, k)
    BY <2>1 DEF Sought, Beyond, Found, Hits, OnLicense, Rank
  <2>5. List(number[c] + 1).number = number[c] + 1 /\ number'[c] - 1 = number[c]
        /\ number'[c] \in Nat \ {0} /\ number'[c] # 1
    BY <2>1, <2>2 DEF List
  <2> QED BY <1>1, <2>1, <2>2, <2>3, <2>4, <2>5 DEF WalkInv
<1>4. CASE SearchMiss(c)
  <2>1. /\ pc[c] = "searching" /\ reply[c].op = "page" /\ Matches(c) = {} /\ ~reply[c].more
        /\ pc'[c] = "done"
        /\ UNCHANGED <<machines, nextId, args, number, horizon>>
    BY <1>4 DEF SearchMiss, Return, callVars, serverVars, IInv, TypeOK
  <2>2. ASSUME calm \/ number[c] = 1, NEW m \in Sought(c) PROVE FALSE
    <3>1. m \notin reply[c].items
      BY <2>1 DEF Matches, Sought
    <3> QED BY <2>1, <2>2, <3>1 DEF WalkInv
  <2>3. Sought(c)' = Sought(c)
    BY <2>1 DEF Sought
  <2> QED BY <2>1, <2>2, <2>3 DEF WalkInv
<1> QED BY <1>2, <1>3, <1>4

\* A client step moves the search of its own call only, and no rows.
LEMMA WalksOfOthers ==
    ASSUME IInv, NEW c \in Calls,
           Start(c) \/ HandleReply(c) \/ RequestFails(c) \/ Cancel(c)
    PROVE  /\ UNCHANGED <<machines, nextId>>
           /\ \A d \in Calls \ {c} : UNCHANGED <<args[d], horizon[d], number[d], pc[d],
                                                 outcome[d], request[d], reply[d]>>
           /\ args'[c] = args[c] \/ pc'[c] = "creating"
<1> USE DEF IInv, TypeOK
<1>1. ASSUME NEW result, Return(c, result)
      PROVE  /\ UNCHANGED <<machines, nextId, args>>
             /\ \A d \in Calls \ {c} : UNCHANGED <<horizon[d], number[d], pc[d],
                                                   outcome[d], request[d], reply[d]>>
  BY <1>1 DEF Return, serverVars, callVars
<1>2. ASSUME NEW where, NEW r, Continue(c, where, r), UNCHANGED outcome,
             \A d \in Calls \ {c} : UNCHANGED <<horizon[d], number[d]>>
      PROVE  /\ UNCHANGED <<machines, nextId, args>>
             /\ \A d \in Calls \ {c} : UNCHANGED <<horizon[d], number[d], pc[d],
                                                   outcome[d], request[d], reply[d]>>
  BY <1>2 DEF Continue, serverVars
<1>3. CASE RequestFails(c) \/ TakenPropagates(c) \/ SearchMiss(c) \/ Probed(c)
           \/ ValidatedKeeps(c) \/ RolledBack(c)
  BY <1>1, <1>3 DEF RequestFails, TakenPropagates, SearchMiss, Probed, ValidatedKeeps,
                    RolledBack
<1>4. CASE CreateSucceeded(c) \/ CreateRefused(c) \/ SearchHit(c) \/ ValidatedRollsBack(c)
  <2>1. UNCHANGED <<horizon, number, outcome>>
    BY <1>4 DEF CreateSucceeded, CreateRefused, SearchHit, ValidatedRollsBack
  <2>2. \E where, r : Continue(c, where, r)
    BY <1>4 DEF CreateSucceeded, CreateRefused, SearchHit, ValidatedRollsBack
  <2> QED BY <1>2, <2>1, <2>2
<1>5. CASE TakenSearches(c) \/ SearchNextPage(c)
  BY <1>2, <1>5 DEF TakenSearches, SearchNextPage
<1>6. CASE Start(c)
  BY <1>6 DEF Start, serverVars
<1>7. CASE Cancel(c)
  BY <1>7 DEF Cancel, serverVars, callVars
<1> QED BY <1>3, <1>4, <1>5, <1>6, <1>7 DEF HandleReply

\* Each step of a call keeps what its search knows.
LEMMA WalkOfCaller ==
    ASSUME IInv, IInv', NEW calm \in BOOLEAN, NEW c \in Calls, WalkInv(calm, c),
           Start(c) \/ HandleReply(c) \/ RequestFails(c) \/ Cancel(c)
    PROVE  WalkInv(calm, c)'
<1>1. UNCHANGED nextId
  BY WalksOfOthers
<1>2. CASE TakenSearches(c) \/ SearchNextPage(c) \/ SearchMiss(c)
  BY <1>2, WalkGoesOn
<1>3. CASE Start(c) \/ Cancel(c)
  <2>1. outcome[c] # "taken" /\ UNCHANGED <<horizon, outcome>>
    BY <1>3 DEF Start, Cancel, callVars, IInv, CallInv, WireMatchesCall, Waiting
  <2>2. pc'[c] # "searching"
    BY <1>3 DEF Start, Cancel, IInv, TypeOK
  <2> QED BY <1>1, <2>1, <2>2, WalkIdle
<1>4. ASSUME NEW result, Return(c, result), result # "taken" \/ ~args[c].idempotent
      PROVE  WalkInv(calm, c)'
  <2>1. pc'[c] = "done" /\ outcome'[c] = result /\ UNCHANGED <<args, horizon>>
    BY <1>4 DEF Return, callVars, IInv, TypeOK
  <2> QED BY <1>1, <1>4, <2>1, WalkIdle
<1>5. CASE TakenPropagates(c) \/ Probed(c) \/ ValidatedKeeps(c) \/ RolledBack(c)
  <2>1. \A code : Verdict(code) # "taken"
    BY DEF Verdict
  <2> QED BY <1>4, <1>5, <2>1 DEF TakenPropagates, Probed, ValidatedKeeps, RolledBack
<1>6. CASE RequestFails(c)
  <2>1. FailureOutcome(c) # "taken"
    BY Zenon DEF FailureOutcome
  <2> QED BY <1>4, <1>6, <2>1 DEF RequestFails
<1>7. CASE CreateSucceeded(c) \/ CreateRefused(c) \/ SearchHit(c) \/ ValidatedRollsBack(c)
  <2>1. UNCHANGED <<horizon, outcome>> /\ pc[c] \in Waiting
    BY <1>7 DEF CreateSucceeded, CreateRefused, SearchHit, ValidatedRollsBack, Waiting
  <2>2. PICK where \in {"validating", "probing", "rollingBack"} : \E r : Continue(c, where, r)
    BY <1>7 DEF CreateSucceeded, CreateRefused, SearchHit, ValidatedRollsBack
  <2>3. pc'[c] # "searching" /\ outcome[c] # "taken"
    BY <2>1, <2>2 DEF Continue, IInv, TypeOK, CallInv, WireMatchesCall, Waiting
  <2> QED BY <1>1, <2>1, <2>3, WalkIdle
<1> QED BY <1>2, <1>3, <1>5, <1>6, <1>7 DEF HandleReply

\* What the searches know stays true from step to step.
LEMMA WalksKeep ==
    ASSUME IInv, IInv', NEW calm \in BOOLEAN, \A c \in Calls : WalkInv(calm, c),
           [Next]_vars, calm => machines \subseteq machines'
    PROVE  \A c \in Calls : WalkInv(calm, c)'
<1>1. ASSUME NEW c \in Calls, Start(c) \/ HandleReply(c) \/ RequestFails(c) \/ Cancel(c),
             NEW d \in Calls
      PROVE  WalkInv(calm, d)'
  <2>1. CASE d = c
    BY <1>1, <2>1, WalkOfCaller
  <2>2. CASE d # c
    <3>1. UNCHANGED <<machines, nextId>> /\ nextId \in Nat
      BY <1>1, WalksOfOthers DEF IInv, TypeOK
    <3>2. UNCHANGED <<args[d], horizon[d], number[d], pc[d], outcome[d], request[d], reply[d]>>
      BY <1>1, <2>2, WalksOfOthers
    <3>3. RowsCome(calm)
      BY <3>1 DEF RowsCome
    <3> QED BY <3>2, <3>3, WalkStands
  <2> QED BY <2>1, <2>2
<1>2. ASSUME NEW c \in Calls, Serve(c), NEW d \in Calls
      PROVE  WalkInv(calm, d)'
  <2>1. /\ UNCHANGED <<pc, args, number, horizon, outcome>>
        /\ request'[d] \in {request[d], NoMsg}
        /\ d # c => reply'[d] = reply[d]
    BY <1>2 DEF Serve, ServeCreate, ServeList, ServeValidate, ServeDelete, Answer,
                callVars, IInv, TypeOK
  <2>2. RowsCome(calm)
    <3>1. nextId <= nextId'
      BY <1>2 DEF Serve, ServeCreate, ServeList, ServeValidate, ServeDelete, serverVars,
                  IInv, TypeOK
    <3>2. \A m \in machines' : m \in machines \/ m.id = nextId
      BY <1>2, ServerTellsNobody DEF Serve, ServeValidate
    <3> QED BY <3>1, <3>2 DEF RowsCome
  <2>3. CASE d = c /\ ServeList(c) /\ pc[c] = "searching"
    BY <2>3, WalkServed
  <2>4. CASE ~(d = c /\ ServeList(c) /\ pc[c] = "searching")
    <3>1. reply'[d] = reply[d] \/ reply'[d].op # "page" \/ pc[d] # "searching"
      <4>1. CASE d # c \/ pc[d] # "searching"
        BY <2>1, <4>1
      <4>2. CASE d = c /\ ~ServeList(c)
        <5>1. ASSUME NEW r, Answer(c, r), r.op # "page" PROVE reply'[d].op # "page"
          BY <4>2, <5>1 DEF Answer, NoMsg, IInv, TypeOK
        <5>2. CASE ServeCreate(c)
          BY <5>1, <5>2 DEF ServeCreate
        <5>3. CASE ServeValidate(c)
          BY <5>1, <5>3 DEF ServeValidate
        <5>4. CASE ServeDelete(c)
          BY <5>1, <5>4 DEF ServeDelete
        <5> QED BY <1>2, <4>2, <5>2, <5>3, <5>4 DEF Serve
      <4> QED BY <2>4, <4>1, <4>2
    <3> QED BY <2>1, <2>2, <3>1, WalkStands
  <2> QED BY <2>3, <2>4
<1>3. ASSUME NEW m \in machines, Evict(m), NEW d \in Calls
      PROVE  WalkInv(calm, d)'
  <2>1. RowsCome(calm)
    BY <1>3 DEF Evict, RowsCome, IInv, TypeOK
  <2> QED BY <1>3, <2>1, WalkStands DEF Evict, callVars
<1>4. ASSUME UNCHANGED vars, NEW d \in Calls
      PROVE  WalkInv(calm, d)'
  <2>1. RowsCome(calm)
    BY <1>4 DEF vars, RowsCome, IInv, TypeOK
  <2> QED BY <1>4, <2>1, WalkStands DEF vars
<1> QED BY <1>1, <1>2, <1>3, <1>4 DEF Next

\* Before it starts, a call searches for nothing.
LEMMA WalksBegin ==
    ASSUME Init, NEW calm \in BOOLEAN
    PROVE  \A c \in Calls : WalkInv(calm, c)
<1>1. Cardinality(Installed) \in Nat
  BY ConstantsAssumption, FS_CardinalityType
<1> QED BY <1>1 DEF Init, WalkInv

Walks(calm) == \A c \in Calls : WalkInv(calm, c)

\* What a search knows of its first page is true in every state.
THEOREM WalksHold == Spec => []Walks(FALSE)
<1>1. IInv /\ IInv' /\ [Next]_vars /\ Walks(FALSE) => Walks(FALSE)'
  BY WalksKeep DEF Walks
<1>2. Init => Walks(FALSE)
  BY WalksBegin DEF Walks
<1> QED BY <1>1, <1>2, InvariantHolds, PTL DEF Spec

\* A search that needed one page missed nothing, whatever came and went
\* meanwhile: no row it was after has stood since before it began.
FirstPageNeverMisses ==
    \A c \in Calls : outcome[c] = "taken" /\ args[c].idempotent /\ number[c] = 1 =>
        Sought(c) = {}

\* Whatever the filter returns and however small the page, a search whose
\* first page is its last misses no re-activation.
THEOREM OnePageSuffices == Spec => []FirstPageNeverMisses
<1>1. Walks(FALSE) => FirstPageNeverMisses
  BY DEF Walks, WalkInv, FirstPageNeverMisses
<1> QED BY <1>1, WalksHold, PTL

\* No row leaves: nobody evicts, no rollback is served.
NothingLeaves == [][machines \subseteq machines']_vars

\* Only a row that leaves can make the page walk miss another: while rows
\* merely come, every search finds what it is after, for any filter, page
\* size and number of pages.
THEOREM OnlyLossesMislead == Spec /\ NothingLeaves => []SearchNeverMisses
<1>1. /\ IInv /\ IInv' /\ [Next]_vars /\ [machines \subseteq machines']_vars
      /\ Walks(TRUE)
      => Walks(TRUE)'
  <2> SUFFICES ASSUME IInv, IInv', [Next]_vars, [machines \subseteq machines']_vars,
                      Walks(TRUE)
               PROVE  Walks(TRUE)'
    OBVIOUS
  <2>1. machines \subseteq machines'
    BY DEF vars
  <2> QED BY <2>1, WalksKeep DEF Walks
<1>2. Init => Walks(TRUE)
  BY WalksBegin DEF Walks
<1>3. Walks(TRUE) => SearchNeverMisses
  BY DEF Walks, WalkInv, SearchNeverMisses, Sought
<1> QED BY <1>1, <1>2, <1>3, InvariantHolds, PTL DEF Spec, NothingLeaves

-----------------------------------------------------------------------------
(* Rows that are told apart by licence and fingerprint.                    *)

RowsAreApart ==
    \A m, n \in machines : m.license = n.license /\ m.fingerprint = n.fingerprint => m = n

InstalledApart ==
    \A m, n \in Installed : m.license = n.license /\ m.fingerprint = n.fingerprint => m = n

\* A create is served only where no row of its fingerprint stands on the
\* licence, so rows that stand apart keep standing apart.
LEMMA RowsStayApart ==
    ASSUME IInv, RowsAreApart, [Next]_vars
    PROVE  RowsAreApart'
<1>1. CASE \A m \in machines' : m \in machines
  BY <1>1 DEF RowsAreApart
<1>2. ASSUME NEW c \in Calls, Conflicts(args[c]) = {}, machines' = machines \cup {NewRow(c)}
      PROVE  RowsAreApart'
  <2>1. /\ NewRow(c).license = args[c].license
        /\ NewRow(c).fingerprint = args[c].fingerprint
    BY DEF NewRow
  <2>2. args[c].license \in ConflictScope[args[c].license]
    BY ConstantsAssumption DEF IInv, TypeOK, IsArg
  <2>3. ASSUME NEW m \in machines, m.license = args[c].license
        PROVE  m.fingerprint # args[c].fingerprint
    BY <1>2, <2>2, <2>3 DEF Conflicts
  <2> QED BY <1>2, <2>1, <2>3 DEF RowsAreApart
<1>3. ASSUME NEW c \in Calls, Serve(c) PROVE RowsAreApart'
  BY <1>1, <1>2, <1>3 DEF Serve, ServeCreate, ServeList, ServeValidate, ServeDelete,
                          serverVars
<1>4. ASSUME NEW c \in Calls, Start(c) \/ HandleReply(c) \/ RequestFails(c) \/ Cancel(c)
      PROVE  RowsAreApart'
  BY <1>1, <1>4, WalksOfOthers
<1>5. CASE (\E m \in machines : Evict(m)) \/ UNCHANGED vars
  BY <1>1, <1>5 DEF Evict, vars
<1> QED BY <1>3, <1>4, <1>5 DEF Next

\* A licence that holds a fingerprint once never comes to hold it twice,
\* however many activations of the machine race.
THEOREM RowsStandApart ==
    ASSUME InstalledApart
    PROVE  Spec => []RowsAreApart
<1>1. Init => RowsAreApart
  BY DEF Init, RowsAreApart, InstalledApart
<1>2. IInv /\ RowsAreApart /\ [Next]_vars => RowsAreApart'
  BY RowsStayApart
<1> QED BY <1>1, <1>2, InvariantHolds, PTL DEF Spec

-----------------------------------------------------------------------------
(* The search ends on its first page, if a page holds a row of every       *)
(* fingerprint the filter can take for another.                            *)

Lookalikes(f) == {g \in Fingerprints : f = g \/ <<f, g>> \in Resembles}

FewLookAlike ==
    \A f \in Fingerprints : /\ IsFiniteSet(Lookalikes(f))
                            /\ Cardinality(Lookalikes(f)) <= PageSize

EndsOnFirstPage(c) ==
    /\ pc[c] = "searching" => /\ number[c] = 1
                              /\ reply[c].op = "page" => ~reply[c].more
    /\ outcome[c] = "taken" /\ args[c].idempotent => number[c] = 1

SearchesAreShort == \A c \in Calls : EndsOnFirstPage(c)

\* Rows that stand apart are no more than the fingerprints they may have.
LEMMA HitsFitOnePage ==
    ASSUME IInv, RowsAreApart, FewLookAlike, NEW c \in Calls
    PROVE  ~MorePages(Found(c), 1)
<1> DEFINE f == args[c].fingerprint
           G == Lookalikes(f)
           S == Found(c)
           asked == [m \in S |-> m.fingerprint]
<1>1. f \in Fingerprints
  BY ConstantsAssumption DEF IInv, TypeOK, IsArg
<1>2. IsFiniteSet(G) /\ Cardinality(G) <= PageSize /\ PageSize \in Nat
  BY <1>1, ConstantsAssumption DEF FewLookAlike
<1>3. \A m \in S : m \in machines /\ m.license = args[c].license /\ m.fingerprint \in G
  BY DEF Found, Hits, OnLicense, Lookalikes, IInv, TypeOK, Row
<1>4. asked \in Injection(S, G)
  BY <1>3 DEF RowsAreApart, Injection, IsInjective
<1>5. IsFiniteSet(S) /\ Cardinality(S) <= Cardinality(G)
  <2> HIDE DEF asked, S, G
  <2> QED BY <1>2, <1>4, FS_Injection
<1>6. Cardinality(S) \in Nat /\ Cardinality(G) \in Nat
  BY <1>2, <1>5, FS_CardinalityType
<1>7. ~(1 * PageSize < Cardinality(S))
  <2> HIDE DEF S, G
  <2> QED BY <1>2, <1>5, <1>6
<1> QED BY <1>7 DEF MorePages

\* A call that is not searching, and did not return from a search, or that
\* stands still, keeps to one page.
LEMMA ShortStands ==
    ASSUME NEW c \in Calls, EndsOnFirstPage(c), number'[c] = number[c],
           \/ UNCHANGED <<pc[c], args[c], outcome[c], reply[c]>>
           \/ /\ pc'[c] # "searching"
              /\ outcome'[c] # "taken" \/ ~args'[c].idempotent \/ number[c] = 1
    PROVE  EndsOnFirstPage(c)'
BY DEF EndsOnFirstPage

\* The first page of a search is its last.
LEMMA SearchesStayShort ==
    ASSUME FewLookAlike, IInv, RowsAreApart, Walks(FALSE), SearchesAreShort, [Next]_vars
    PROVE  SearchesAreShort'
<1> USE DEF SearchesAreShort
<1>1. ASSUME NEW c \in Calls, Start(c) \/ HandleReply(c) \/ RequestFails(c) \/ Cancel(c),
             NEW d \in Calls \ {c}
      PROVE  EndsOnFirstPage(d)'
  BY <1>1, WalksOfOthers, ShortStands
<1>2. ASSUME NEW c \in Calls, Start(c) \/ HandleReply(c) \/ RequestFails(c) \/ Cancel(c)
      PROVE  EndsOnFirstPage(c)'
  <2> USE DEF IInv, TypeOK
  <2>1. CASE TakenSearches(c)
    <3>1. pc'[c] = "searching" /\ number'[c] = 1 /\ reply'[c] = NoMsg /\ UNCHANGED outcome
      BY <2>1 DEF TakenSearches, Continue
    <3>2. outcome[c] = "pending" /\ NoMsg.op # "page"
      BY <2>1 DEF TakenSearches, CallInv, WireMatchesCall, Waiting, NoMsg
    <3> QED BY <3>1, <3>2 DEF EndsOnFirstPage
  <2>2. CASE SearchNextPage(c)
    BY <2>2 DEF SearchNextPage, EndsOnFirstPage
  <2>3. CASE SearchMiss(c)
    <3>1. pc[c] = "searching" /\ pc'[c] = "done" /\ UNCHANGED number
      BY <2>3 DEF SearchMiss, Return, callVars
    <3>2. number[c] = 1
      BY <3>1 DEF EndsOnFirstPage
    <3> QED BY <3>1, <3>2, ShortStands
  <2>4. ASSUME NEW result, Return(c, result), result # "taken" \/ ~args[c].idempotent
        PROVE  EndsOnFirstPage(c)'
    BY <2>4, ShortStands DEF Return, callVars
  <2>5. CASE TakenPropagates(c) \/ Probed(c) \/ ValidatedKeeps(c) \/ RolledBack(c)
    <3>1. \A code : Verdict(code) # "taken"
      BY DEF Verdict
    <3> QED BY <2>4, <2>5, <3>1 DEF TakenPropagates, Probed, ValidatedKeeps, RolledBack
  <2>6. CASE RequestFails(c)
    <3>1. FailureOutcome(c) # "taken"
      BY Zenon DEF FailureOutcome
    <3> QED BY <2>4, <2>6, <3>1 DEF RequestFails
  <2>7. CASE Start(c) \/ Cancel(c)
    <3>1. outcome[c] # "taken" /\ UNCHANGED <<number, outcome>>
      BY <2>7 DEF Start, Cancel, callVars, CallInv, WireMatchesCall, Waiting
    <3>2. pc'[c] # "searching"
      BY <2>7 DEF Start, Cancel
    <3> QED BY <3>1, <3>2, ShortStands
  <2>8. CASE CreateSucceeded(c) \/ CreateRefused(c) \/ SearchHit(c) \/ ValidatedRollsBack(c)
    <3>1. UNCHANGED <<number, outcome>> /\ pc[c] \in Waiting
      BY <2>8 DEF CreateSucceeded, CreateRefused, SearchHit, ValidatedRollsBack, Waiting
    <3>2. PICK where \in {"validating", "probing", "rollingBack"} : \E r : Continue(c, where, r)
      BY <2>8 DEF CreateSucceeded, CreateRefused, SearchHit, ValidatedRollsBack
    <3>3. pc'[c] # "searching" /\ outcome[c] # "taken"
      BY <3>1, <3>2 DEF Continue, CallInv, WireMatchesCall, Waiting
    <3> QED BY <3>1, <3>3, ShortStands
  <2> QED BY <1>2, <2>1, <2>2, <2>3, <2>5, <2>6, <2>7, <2>8 DEF HandleReply
<1>3. ASSUME NEW c \in Calls, Serve(c), NEW d \in Calls
      PROVE  EndsOnFirstPage(d)'
  <2>1. UNCHANGED <<pc, args, number, outcome>> /\ (d # c => reply'[d] = reply[d])
    BY <1>3 DEF Serve, ServeCreate, ServeList, ServeValidate, ServeDelete, Answer,
                callVars, IInv, TypeOK
  <2>2. CASE d # c \/ pc[d] # "searching"
    BY <2>1, <2>2, ShortStands DEF EndsOnFirstPage
  <2>3. CASE d = c /\ pc[c] = "searching"
    <3>1. number[c] = 1
      BY <2>3 DEF EndsOnFirstPage
    <3>2. request[c].op \in {"none", "list"}
      BY <2>3 DEF IInv, CallInv, WireMatchesCall
    <3>3. ServeList(c)
      BY <1>3, <3>2 DEF Serve, ServeCreate, ServeValidate, ServeDelete
    <3>4. request[c].number = 1
      BY <2>3, <3>1, <3>3 DEF ServeList, Walks, WalkInv
    <3>5. ~MorePages(Hits(args[c].license, args[c].fingerprint), 1)
      BY HitsFitOnePage DEF Found
    <3>6. ~reply'[c].more
      BY <2>3, <3>3, <3>4, <3>5 DEF ServeList, Answer, Waiting, IInv, TypeOK
    <3> QED BY <2>1, <2>3, <3>1, <3>6 DEF EndsOnFirstPage, IInv, CallInv, WireMatchesCall
  <2> QED BY <2>2, <2>3
<1>4. ASSUME (\E m \in machines : Evict(m)) \/ UNCHANGED vars, NEW d \in Calls
      PROVE  EndsOnFirstPage(d)'
  BY <1>4, ShortStands DEF Evict, callVars, vars
<1> QED BY <1>1, <1>2, <1>3, <1>4 DEF Next

\* Where a licence keeps a fingerprint once and no fingerprint has more
\* look-alikes than a page has rows, no re-activation is ever missed.
THEOREM ReactivationIsFound ==
    ASSUME InstalledApart, FewLookAlike
    PROVE  Spec => []SearchNeverMisses
<1>1. Init => SearchesAreShort
  BY DEF Init, SearchesAreShort, EndsOnFirstPage
<1>2. IInv /\ RowsAreApart /\ Walks(FALSE) /\ SearchesAreShort /\ [Next]_vars
      => SearchesAreShort'
  BY SearchesStayShort
<1>3. SearchesAreShort /\ FirstPageNeverMisses => SearchNeverMisses
  BY DEF SearchesAreShort, EndsOnFirstPage, FirstPageNeverMisses, SearchNeverMisses, Sought
<1> QED BY <1>1, <1>2, <1>3, InvariantHolds, RowsStandApart, WalksHold,
        OnePageSuffices, PTL DEF Spec

-----------------------------------------------------------------------------
(* An activation is a claim.  Each action of Activation is one step of     *)
(* SeatClaims or none, under the mapping at the end of Activation.  Beyond *)
(* IInv that takes three facts of each call: the rows a page shows differ  *)
(* in their ids, so the first match is one row; a DELETE on the wire takes *)
(* all the call has added; and only an idempotent call searches.           *)

IdsDiffer(S) == \A m, n \in S : m.id = n.id => m = n

ClaimInv(c) ==
    /\ reply[c].op = "page" => IdsDiffer(reply[c].items)
    /\ request[c].op = "delete" => \A m \in machines : m.by = c => m = machine[c]
    /\ pc[c] = "searching" => args[c].idempotent

ClaimsInv == IdsDiffer(machines) /\ \A c \in Calls : ClaimInv(c)

\* No call but c takes a step.
StepOf(c) ==
    \A d \in Calls \ {c} :
        /\ pc'[d] = pc[d] /\ machine'[d] = machine[d] /\ outcome'[d] = outcome[d]
        /\ args'[d] = args[d] /\ request'[d] = request[d] /\ reply'[d] = reply[d]

\* What a call's claim looks like does not depend on the other calls.
LEMMA ClaimStands ==
    ASSUME NEW d \in Calls,
           pc'[d] = pc[d], machine'[d] = machine[d], outcome'[d] = outcome[d],
           args'[d] = args[d], request'[d] = request[d], reply'[d] = reply[d]
    PROVE  /\ stage'[d] = stage[d] /\ due'[d] = due[d]
           /\ ruling'[d] = ruling[d] /\ seat'[d] = seat[d]
<1>1. Shown(d)' <=> Shown(d)
  BY DEF Shown, Matches
<1>2. ToAdopt(d)' = ToAdopt(d)
  BY DEF ToAdopt, Matches
<1> QED BY <1>1, <1>2 DEF stage, due, ruling, seat

\* A step of one call is a step of its claim.
LEMMA ClaimMoves ==
    ASSUME NEW c \in Calls, StepOf(c)
    PROVE  /\ stage' = [stage EXCEPT ![c] = stage'[c]]
           /\ due' = [due EXCEPT ![c] = due'[c]]
           /\ ruling' = [ruling EXCEPT ![c] = ruling'[c]]
           /\ seat' = [seat EXCEPT ![c] = seat'[c]]
           /\ stage'[c] = stage[c] => stage' = stage
           /\ due'[c] = due[c] => due' = due
           /\ ruling'[c] = ruling[c] => ruling' = ruling
           /\ seat'[c] = seat[c] => seat' = seat
<1>1. \A d \in Calls \ {c} : /\ stage'[d] = stage[d] /\ due'[d] = due[d]
                             /\ ruling'[d] = ruling[d] /\ seat'[d] = seat[d]
  BY ClaimStands DEF StepOf
<1>2. /\ stage = [d \in Calls |-> stage[d]] /\ stage' = [d \in Calls |-> stage'[d]]
      /\ due = [d \in Calls |-> due[d]] /\ due' = [d \in Calls |-> due'[d]]
      /\ ruling = [d \in Calls |-> ruling[d]] /\ ruling' = [d \in Calls |-> ruling'[d]]
      /\ seat = [d \in Calls |-> seat[d]] /\ seat' = [d \in Calls |-> seat'[d]]
  BY DEF stage, due, ruling, seat
<1>3. /\ stage' = [stage EXCEPT ![c] = stage'[c]] /\ due' = [due EXCEPT ![c] = due'[c]]
      /\ ruling' = [ruling EXCEPT ![c] = ruling'[c]] /\ seat' = [seat EXCEPT ![c] = seat'[c]]
  BY <1>1, <1>2
<1>4. /\ stage'[c] = stage[c] => stage' = stage
      /\ due'[c] = due[c] => due' = due
      /\ ruling'[c] = ruling[c] => ruling' = ruling
      /\ seat'[c] = seat[c] => seat' = seat
  BY <1>2, <1>3
<1> QED BY <1>3, <1>4

\* A step that changes nothing of a claim is not one of its steps.
LEMMA ClaimStutters ==
    ASSUME NEW c \in Calls, StepOf(c),
           stage'[c] = stage[c], due'[c] = due[c], ruling'[c] = ruling[c], seat'[c] = seat[c],
           UNCHANGED <<machines, nextId, args>>
    PROVE  UNCHANGED Claims!vars
BY ClaimMoves DEF Claims!vars

\* Both look at the same rows.
LEMMA SameTable ==
    /\ \A a : Claims!Conflicts(a) = Conflicts(a)
    /\ \A l : Claims!OnLicense(l) = OnLicense(l) /\ (Claims!Full(l) <=> Full(l))
<1>1. \A l : Claims!OnLicense(l) = OnLicense(l)
  BY DEF Claims!OnLicense, OnLicense
<1>2. \A l : Claims!Full(l) <=> Full(l)
  <2>1. \A S : Claims!Cardinality(S) = Cardinality(S)
    BY DEF Claims!Cardinality, Cardinality
  <2> QED BY <1>1, <2>1 DEF Claims!Full, Full
<1>3. \A a : Claims!Conflicts(a) = Conflicts(a)
  BY DEF Claims!Conflicts, Conflicts
<1> QED BY <1>1, <1>2, <1>3

\* Start is Ask.
LEMMA StartAsks ==
    ASSUME IInv, NEW c \in Calls, Start(c)
    PROVE  Claims!Ask(c)
<1>1. /\ pc[c] = "idle" /\ pc'[c] = "creating"
      /\ request[c] = NoMsg /\ reply[c] = NoMsg /\ reply'[c] = NoMsg
      /\ request'[c] = Create /\ machine[c] = NoRow /\ machine'[c] = NoRow
      /\ outcome[c] = "pending" /\ outcome'[c] = "pending"
  BY DEF Start, IInv, CallInv, WireMatchesCall, RowsMatchCall, TypeOK
<1>2. StepOf(c)
  BY DEF StepOf, Start, IInv, TypeOK
<1>3. stage[c] = "idle" /\ due[c] = "nothing" /\ ruling[c] = "none" /\ seat[c] = NoRow
  BY <1>1 DEF stage, due, ruling, seat, Shown, NoMsg, Waiting
<1>4. stage'[c] = "open" /\ due'[c] = "take" /\ ruling'[c] = "none" /\ seat'[c] = NoRow
  BY <1>1 DEF stage, due, ruling, seat, Shown, NoMsg, Create, Waiting
<1>5. (\E a \in Args : args' = [args EXCEPT ![c] = a]) /\ UNCHANGED <<machines, nextId>>
  BY DEF Start, serverVars
<1> QED BY <1>2, <1>3, <1>4, <1>5, ClaimMoves DEF Claims!Ask

\* A create that is served is Take or Decline.
LEMMA CreateTakes ==
    ASSUME IInv, NEW c \in Calls, ServeCreate(c)
    PROVE  Claims!Take(c) \/ Claims!Decline(c)
<1>1. /\ request[c].op = "create" /\ request'[c] = NoMsg /\ reply[c] = NoMsg
      /\ pc'[c] = pc[c] /\ machine'[c] = machine[c] /\ outcome'[c] = outcome[c]
      /\ pc[c] \in Waiting => pc[c] = "creating" /\ machine[c] = NoRow /\ outcome[c] = "pending"
      /\ pc[c] \notin Waiting => outcome[c] \notin {"valid", "invalid", "over"} \/ reused[c]
      /\ ~reused[c]
      /\ UNCHANGED args
  BY DEF ServeCreate, Answer, callVars, IInv, CallInv, WireMatchesCall, RowsMatchCall, TypeOK,
         Waiting, NoMsg
<1>2. StepOf(c)
  BY DEF StepOf, ServeCreate, Answer, callVars, IInv, TypeOK
<1>3. /\ stage'[c] = stage[c] /\ ruling'[c] = "none" /\ ruling[c] = "none"
      /\ stage[c] = "open" <=> pc[c] \in Waiting
      /\ due[c] = "take" /\ seat[c] = NoRow
  <2>1. pc[c] \notin Waiting => pc[c] \in {"idle", "done", "cancelled"}
    BY DEF IInv, TypeOK
  <2>2. outcome[c] \in Outcomes /\ "open" \notin Outcomes
    BY DEF IInv, TypeOK, Outcomes
  <2> QED BY <1>1, <2>1, <2>2 DEF stage, due, ruling, seat, Shown, NoMsg, Waiting
<1>4. CASE Conflicts(args[c]) = {} /\ ~Full(args[c].license) /\ machines' = machines \cup {NewRow(c)}
          /\ nextId' = nextId + 1 /\ Answer(c, [op |-> "created", row |-> NewRow(c)])
  <2>1. reply'[c] = IF pc[c] \in Waiting THEN [op |-> "created", row |-> NewRow(c)] ELSE NoMsg
    BY <1>4 DEF Answer, IInv, TypeOK
  <2>2. due'[c] = "nothing"
    BY <1>1, <2>1 DEF due, Shown, NoMsg, Waiting
  <2>3. seat'[c] = IF stage[c] = "open" THEN NewRow(c) ELSE seat[c]
    BY <1>1, <1>3, <2>1 DEF seat, Shown, NoMsg, Waiting
  <2>4. seat' = IF stage[c] = "open" THEN [seat EXCEPT ![c] = NewRow(c)] ELSE seat
    BY <1>2, <2>3, ClaimMoves
  <2>5. Claims!Conflicts(args[c]) = {} /\ ~Claims!Full(args[c].license)
    BY <1>4, SameTable
  <2> QED BY <1>1, <1>2, <1>3, <1>4, <2>2, <2>4, <2>5, ClaimMoves DEF Claims!Take, NewRow
<1>5. ASSUME NEW op \in {"taken", "limit"}, Answer(c, [op |-> op]), UNCHANGED serverVars,
             op = "taken" => Conflicts(args[c]) # {}, op = "limit" => Full(args[c].license)
      PROVE  Claims!Decline(c)
  <2> DEFINE why == IF op = "taken" THEN "conflict" ELSE "full"
  <2>1. reply'[c] = IF pc[c] \in Waiting THEN [op |-> op] ELSE NoMsg
    BY <1>5 DEF Answer, IInv, TypeOK
  <2>2. due'[c] = IF stage[c] = "open" THEN why ELSE "nothing"
    BY <1>1, <1>3, <1>5, <2>1 DEF due, Shown, NoMsg, Waiting
  <2>3. seat'[c] = seat[c]
    BY <1>1, <1>3, <2>1 DEF seat, Shown, NoMsg, Waiting
  <2>4. why \in {"conflict", "full"}
        /\ (why = "conflict" => Claims!Conflicts(args[c]) # {})
        /\ (why = "full" => Claims!Full(args[c].license))
    BY <1>5, SameTable
  <2>5. UNCHANGED <<machines, nextId, args>>
    BY <1>1, <1>5 DEF serverVars
  <2> HIDE DEF why
  <2> QED BY <1>2, <1>3, <2>2, <2>3, <2>4, <2>5, ClaimMoves DEF Claims!Decline
<1> QED BY <1>4, <1>5 DEF ServeCreate

\* A call that returns, or is dropped, closes its claim.
LEMMA Closes ==
    ASSUME NEW c \in Calls, NEW told, StepOf(c), pc[c] \in Waiting, reply'[c] = NoMsg,
           UNCHANGED <<machines, nextId, args, machine, request>>,
           \/ pc'[c] = "done" /\ outcome'[c] = told
           \/ pc'[c] = "cancelled" /\ told = "cancelled" /\ outcome'[c] = "pending",
           told \in {"valid", "invalid", "over"} => pc[c] = "validating"
    PROVE  Claims!Close(c, told)
<1>1. stage[c] = "open" /\ stage'[c] = told
  BY DEF stage, Waiting
<1>2. due'[c] = IF due[c] \in Claims!Owed THEN due[c] ELSE "nothing"
  <2>1. request'[c] = request[c]
    OBVIOUS
  <2>2. pc'[c] \notin {"creating", "searching", "probing"}
    OBVIOUS
  <2>3. due'[c] = IF request[c].op = "create" THEN "take"
                  ELSE IF request[c].op = "delete" THEN "giveBack" ELSE "nothing"
    BY <2>1, <2>2 DEF due
  <2>4. due[c] \in Claims!Owed <=> request[c].op \in {"create", "delete"}
    BY DEF due, Claims!Owed
  <2> QED BY <2>3, <2>4 DEF due
<1>3. ruling'[c] = "none"
  BY DEF ruling
<1>4. seat'[c] = IF told \in Claims!Granted THEN seat[c] ELSE NoRow
  BY DEF seat, Shown, Claims!Granted, Waiting, NoMsg
<1> QED BY <1>1, <1>2, <1>3, <1>4, ClaimMoves DEF Claims!Close, Claims!NoRow, NoRow

\* So does Return.
LEMMA ReturnCloses ==
    ASSUME IInv, NEW c \in Calls, NEW told, Return(c, told), pc[c] \in Waiting,
           told \in {"valid", "invalid", "over"} => pc[c] = "validating"
    PROVE  Claims!Close(c, told)
<1>1. /\ pc'[c] = "done" /\ outcome'[c] = told /\ reply'[c] = NoMsg
      /\ UNCHANGED <<machines, nextId, args, machine, request>>
      /\ StepOf(c)
  BY DEF Return, serverVars, callVars, IInv, TypeOK, StepOf
<1> QED BY <1>1, Closes

\* Cancel is GiveUp.
LEMMA CancelGivesUp ==
    ASSUME IInv, NEW c \in Calls, Cancel(c)
    PROVE  Claims!GiveUp(c)
<1>1. /\ pc'[c] = "cancelled" /\ outcome'[c] = "pending" /\ reply'[c] = NoMsg
      /\ UNCHANGED <<machines, nextId, args, machine, request>>
      /\ StepOf(c) /\ pc[c] \in Waiting
  BY DEF Cancel, serverVars, callVars, IInv, CallInv, WireMatchesCall, TypeOK, StepOf, Waiting
<1>2. Claims!Close(c, "cancelled")
  BY <1>1, Closes
<1> QED BY <1>2 DEF Claims!GiveUp

\* What a claim is owed, by where its call stands.
LEMMA DueOf ==
    ASSUME IInv, NEW c \in Calls, reply[c] # NoMsg
    PROVE  /\ request[c].op = "none"
           /\ reply[c].op \in {"taken", "limit"} =>
                 due[c] = (IF reply[c].op = "taken" THEN "conflict" ELSE "full")
           /\ pc[c] = "probing" => due[c] = "full"
           /\ pc[c] = "searching" => due[c] = (IF Shown(c) THEN "nothing" ELSE "conflict")
           /\ pc[c] \in {"validating", "rollingBack"} => due[c] = "nothing"
<1>1. request[c] = NoMsg /\ WireMatchesCall(c)
  BY DEF IInv, CallInv, WireMatchesCall
<1>2. reply[c].op \in {"taken", "limit"} => pc[c] = "creating"
  BY <1>1 DEF WireMatchesCall, IInv, TypeOK, Waiting, NoMsg
<1> QED BY <1>1, <1>2 DEF due, Shown, NoMsg

\* The calls that end without a machine are refused claims.
LEMMA RefusalsRefuse ==
    ASSUME IInv, NEW c \in Calls,
           \/ TakenPropagates(c) \/ SearchMiss(c) \/ Probed(c)
           \/ RequestFails(c) /\ pc[c] = "probing"
    PROVE  Claims!Refuse(c)
<1>1. RowsMatchCall(c) /\ WireMatchesCall(c)
  BY DEF IInv, CallInv
<1>2. NoRowOf(c) => Claims!Own(c) = {}
  BY DEF NoRowOf, Claims!Own
<1>3. CASE TakenPropagates(c)
  <2>1. pc[c] = "creating" /\ reply[c].op = "taken" /\ Return(c, "taken")
    BY <1>3 DEF TakenPropagates
  <2>2. Claims!Close(c, "taken")
    BY <2>1, ReturnCloses DEF Waiting
  <2>3. NoRowOf(c) /\ seat[c] = NoRow
    BY <1>1, <2>1 DEF RowsMatchCall, seat, Shown
  <2>4. due[c] = "conflict"
    BY <2>1, DueOf DEF NoMsg
  <2> QED BY <1>2, <2>2, <2>3, <2>4 DEF Claims!Refuse, Claims!NoRow, NoRow
<1>4. CASE SearchMiss(c)
  <2>1. pc[c] = "searching" /\ reply[c].op = "page" /\ ~Shown(c) /\ Return(c, "taken")
    BY <1>4 DEF SearchMiss, Shown
  <2>2. Claims!Close(c, "taken")
    BY <2>1, ReturnCloses DEF Waiting
  <2>3. NoRowOf(c) /\ seat[c] = NoRow
    BY <1>1, <2>1 DEF RowsMatchCall, seat, Waiting
  <2>4. due[c] = "conflict"
    BY <2>1, DueOf DEF NoMsg
  <2> QED BY <1>2, <2>2, <2>3, <2>4 DEF Claims!Refuse, Claims!NoRow, NoRow
<1>5. ASSUME pc[c] = "probing", NEW told \in {"refused", "limitError"}, Return(c, told),
             told = "refused" => reply[c] # NoMsg
      PROVE  Claims!Refuse(c)
  <2>1. Claims!Close(c, told)
    BY <1>5, ReturnCloses DEF Waiting
  <2>2. NoRowOf(c) /\ seat[c] = NoRow
    BY <1>1, <1>5 DEF RowsMatchCall, seat, Shown, Waiting
  <2>3. due[c] = "full"
    BY <1>1, <1>5 DEF WireMatchesCall, due
  <2> QED BY <1>2, <1>5, <2>1, <2>2, <2>3 DEF Claims!Refuse, Claims!NoRow, NoRow
<1>6. CASE Probed(c)
  BY <1>5, <1>6 DEF Probed, NoMsg
<1>7. CASE RequestFails(c) /\ pc[c] = "probing"
  BY <1>5, <1>7, Zenon DEF RequestFails, FailureOutcome
<1> QED BY <1>3, <1>4, <1>6, <1>7

\* A call that has a verdict, or has acted on one, holds the machine it is on.
LEMMA HeldWhileRuled ==
    ASSUME IInv, NEW c \in Calls, pc[c] \in {"validating", "rollingBack"}
    PROVE  /\ stage[c] = "open" /\ seat[c] = machine[c] /\ machine[c] # NoRow
           /\ machine[c].by = c <=> ~reused[c]
           /\ due[c] = (IF request[c].op = "delete" THEN "giveBack" ELSE "nothing")
           /\ request[c].op = "delete" => pc[c] = "rollingBack"
           /\ pc[c] = "rollingBack" => ruling[c] = "undone"
<1>1. RowsMatchCall(c) /\ WireMatchesCall(c) /\ DeletesOwnRow(c) /\ AdoptsShownRow(c)
  BY DEF IInv, CallInv
<1>2. seat[c] = machine[c] /\ stage[c] = "open"
  BY DEF seat, stage, Shown, Waiting
<1>3. machine[c] # NoRow /\ (machine[c].by = c <=> ~reused[c])
  BY <1>1 DEF RowsMatchCall, AdoptsShownRow
<1>4. due[c] = (IF request[c].op = "delete" THEN "giveBack" ELSE "nothing")
  BY <1>1 DEF WireMatchesCall, due
<1>5. pc[c] = "rollingBack" => ruling[c] = "undone"
  BY DEF ruling
<1> QED BY <1>1, <1>2, <1>3, <1>4, <1>5 DEF DeletesOwnRow, Waiting, WireMatchesCall

\* A verdict is over the limit exactly where the codes say so.
LEMMA OverIsOverage ==
    ASSUME NEW code
    PROVE  /\ Verdict(code) \in {"valid", "invalid", "over"}
           /\ Verdict(code) = "over" <=> IsOverage(code)
BY DEF Verdict, IsOverage, OverageCodes

\* A verdict that is passed on is a grant.
LEMMA KeptIsGranted ==
    ASSUME IInv, NEW c \in Calls, ValidatedKeeps(c)
    PROVE  Claims!Grant(c)
<1> DEFINE v == Verdict(reply[c].code)
<1>1. /\ pc[c] = "validating" /\ reply[c].op = "verdict" /\ Return(c, v)
      /\ ~RollsBack(c, reply[c].code)
  BY DEF ValidatedKeeps
<1>2. ruling[c] = v
  BY <1>1 DEF ruling
<1>3. v \in {"valid", "invalid", "over"} /\ (v = "over" <=> IsOverage(reply[c].code))
  BY OverIsOverage
<1> HIDE DEF v
<1>4. Claims!Close(c, v)
  BY <1>1, ReturnCloses DEF Waiting
<1>5. ~Claims!ToUndo(c)
  BY <1>1, <1>2, <1>3, HeldWhileRuled DEF RollsBack, Claims!ToUndo
<1>6. due[c] = "nothing" /\ seat[c] # NoRow
  BY <1>1, HeldWhileRuled
<1> QED BY <1>2, <1>3, <1>4, <1>5, <1>6 DEF Claims!Grant, Claims!Granted, Claims!NoRow, NoRow

\* One that is not is undone: the delete goes out.
LEMMA RollbackUndoes ==
    ASSUME IInv, NEW c \in Calls, ValidatedRollsBack(c)
    PROVE  Claims!Undo(c)
<1>1. /\ pc[c] = "validating" /\ reply[c].op = "verdict" /\ RollsBack(c, reply[c].code)
      /\ pc'[c] = "rollingBack" /\ request'[c] = Delete(machine[c]) /\ reply'[c] = NoMsg
      /\ UNCHANGED <<machines, nextId, args, machine, reused, outcome>>
      /\ StepOf(c)
  BY DEF ValidatedRollsBack, Continue, serverVars, IInv, TypeOK, StepOf
<1>2. ruling[c] = "over"
  BY <1>1, OverIsOverage DEF ruling, RollsBack
<1>3. Claims!ToUndo(c) /\ due[c] = "nothing" /\ stage[c] = "open" /\ seat[c] = machine[c]
  BY <1>1, <1>2, HeldWhileRuled DEF Claims!ToUndo, RollsBack
<1>4. /\ stage'[c] = "open" /\ due'[c] = "giveBack" /\ ruling'[c] = "undone"
      /\ seat'[c] = machine[c]
  BY <1>1 DEF stage, due, ruling, seat, Shown, Delete, Waiting
<1> QED BY <1>1, <1>2, <1>3, <1>4, ClaimMoves DEF Claims!Undo

\* A rollback that was answered is confirmed: no row of the claim is left.
LEMMA AnswerConfirms ==
    ASSUME IInv, NEW c \in Calls, RolledBack(c)
    PROVE  Claims!Undone(c)
<1>1. pc[c] = "rollingBack" /\ reply[c].op = "deleted" /\ Return(c, "rolledBack")
  BY DEF RolledBack
<1>2. Claims!Close(c, "rolledBack")
  BY <1>1, ReturnCloses DEF Waiting
<1>3. Claims!Own(c) = {}
  BY <1>1 DEF Claims!Own, IInv, CallInv, RowsMatchCall, NoRowOf
<1>4. request[c].op = "none"
  BY <1>1, DueOf DEF NoMsg
<1> QED BY <1>1, <1>2, <1>3, <1>4, HeldWhileRuled DEF Claims!Undone

\* A request that fails ends the claim as the call says it does.
LEMMA FailureCloses ==
    ASSUME IInv, NEW c \in Calls, RequestFails(c)
    PROVE  Claims!Refuse(c) \/ Claims!Unconfirmed(c) \/ Claims!GiveUp(c)
<1>1. CASE pc[c] = "probing"
  BY <1>1, RefusalsRefuse
<1>2. CASE pc[c] = "rollingBack"
  <2>1. Return(c, "rollbackUnconfirmed")
    BY <1>2, Zenon DEF RequestFails, FailureOutcome
  <2>2. Claims!Close(c, "rollbackUnconfirmed")
    BY <1>2, <2>1, ReturnCloses DEF Waiting
  <2> QED BY <1>2, <2>2, HeldWhileRuled DEF Claims!Unconfirmed
<1>3. CASE pc[c] \notin {"probing", "rollingBack"}
  <2>1. Return(c, "error") /\ pc[c] \in Waiting
    BY <1>3, Zenon DEF RequestFails, FailureOutcome
  <2>2. Claims!Close(c, "error")
    BY <2>1, ReturnCloses
  <2>3. request[c].op # "delete"
    BY <1>3, <2>1 DEF IInv, CallInv, DeletesOwnRow, Waiting
  <2>4. due[c] # "giveBack"
    BY <2>3 DEF due
  <2> QED BY <2>2, <2>4 DEF Claims!GiveUp
<1> QED BY <1>1, <1>2, <1>3

\* Every non-empty set of naturals has a least member.
LEMMA LeastNat ==
    ASSUME NEW S \in SUBSET Nat, S # {}
    PROVE  \E m \in S : \A k \in S : m <= k
<1> DEFINE R == OpToRel(<, Nat)
<1>1. PICK m \in S : \A k \in S : ~(<<k, m>> \in R)
  <2>1. IsWellFoundedOn(R, Nat)
    BY NatLessThanWellFounded
  <2> HIDE DEF R
  <2> QED BY <2>1, WFMin
<1>2. \A k \in S : ~(k < m)
  BY <1>1 DEF OpToRel
<1> QED BY <1>2

\* Of any rows that match, one comes first.
LEMMA FirstMatch ==
    ASSUME NEW M \in SUBSET Row, M # {}
    PROVE  LET first == CHOOSE m \in M : \A x \in M : m.id <= x.id
           IN  first \in M /\ \A x \in M : first.id <= x.id
<1>1. \A m \in M : m.id \in Nat
  BY DEF Row
<1>2. PICK n \in {m.id : m \in M} : \A k \in {m.id : m \in M} : n <= k
  BY <1>1, LeastNat
<1>3. PICK m \in M : m.id = n
  OBVIOUS
<1>4. \A x \in M : m.id <= x.id
  BY <1>2, <1>3
<1> QED BY <1>4

\* A page that shows the machine is Adopt; any other changes nothing.
LEMMA PageAdopts ==
    ASSUME IInv, IInv', NEW c \in Calls, ClaimInv(c), ServeList(c)
    PROVE  Claims!Adopt(c) \/ UNCHANGED Claims!vars
<1> DEFINE l == args[c].license
           S == Hits(l, args[c].fingerprint)
           n == request[c].number
           r == [op |-> "page", items |-> PageOf(S, n), more |-> MorePages(S, n)]
<1>1. /\ request[c].op = "list" /\ Answer(c, r) /\ UNCHANGED serverVars
      /\ reply'[c] = IF pc[c] \in Waiting THEN r ELSE NoMsg
      /\ request'[c] = NoMsg /\ reply[c] = NoMsg
      /\ UNCHANGED <<pc, args, machine, outcome, machines, nextId>>
      /\ StepOf(c)
  BY DEF ServeList, Answer, callVars, serverVars, IInv, CallInv, WireMatchesCall, TypeOK, StepOf, NoMsg
<1>2. WireMatchesCall(c) /\ RowsMatchCall(c)
  BY DEF IInv, CallInv
<1>3. pc[c] \in Waiting => pc[c] = "searching"
  BY <1>1, <1>2 DEF WireMatchesCall, Waiting
<1>4. stage'[c] = stage[c] /\ ruling'[c] = ruling[c]
  BY <1>1, <1>3 DEF stage, ruling, Waiting
<1>5. CASE Shown(c)'
  <2>1. pc[c] = "searching" /\ reply'[c] = r /\ ~Shown(c)
    BY <1>1, <1>5 DEF Shown, Waiting, NoMsg
  <2>2. stage[c] = "open" /\ due[c] = "conflict" /\ args[c].idempotent
    BY <1>1, <2>1 DEF stage, due, ClaimInv, Waiting
  <2>3. due'[c] = "nothing"
    BY <1>1, <1>5, <2>1 DEF due, NoMsg
  <2>4. ToAdopt(c)' \in Matches(c)'
    <3>1. Matches(c)' \in SUBSET Row /\ Matches(c)' # {}
      BY <1>1, <1>5, <2>1, ReplyShapes DEF IInv, TypeOK, Shown, Matches
    <3> QED BY <3>1, FirstMatch DEF ToAdopt
  <2>5. Matches(c)' \subseteq S
    BY <1>1, <2>1 DEF Matches, PageOf
  <2>6. ToAdopt(c)' \in OnLicense(l) /\ ToAdopt(c)'.fingerprint = args[c].fingerprint
    BY <1>1, <2>4, <2>5 DEF Hits, Matches
  <2>7. ToAdopt(c)'.by # c
    BY <1>2, <2>1, <2>6 DEF RowsMatchCall, NoRowOf, OnLicense
  <2>8. seat'[c] = ToAdopt(c)'
    BY <1>5, <2>1, <1>1 DEF seat
  <2>9. ToAdopt(c)' \in Claims!OnLicense(args[c].license)
    BY <2>6, SameTable
  <2>10. seat' = [seat EXCEPT ![c] = ToAdopt(c)']
    BY <1>1, <2>8, ClaimMoves
  <2> HIDE DEF l, S, n, r
  <2> DEFINE m == ToAdopt(c)'
  <2>11. m \in Claims!OnLicense(args[c].license) /\ m.fingerprint = args[c].fingerprint /\ m.by # c
         /\ seat' = [seat EXCEPT ![c] = m]
    BY <2>6, <2>7, <2>9, <2>10
  <2> HIDE DEF m
  <2> QED BY <1>1, <1>4, <2>2, <2>3, <2>11, ClaimMoves DEF Claims!Adopt
<1>6. CASE ~Shown(c)'
  <2>1. ~Shown(c) /\ request[c].op = "list" /\ NoMsg.op = "none"
        /\ request'[c] = NoMsg /\ pc'[c] = pc[c] /\ outcome'[c] = outcome[c]
        /\ machine'[c] = machine[c] /\ reply[c] = NoMsg
    BY <1>1 DEF Shown, NoMsg
  <2>2. pc[c] # "creating"
    BY <1>1, <1>3 DEF Waiting
  <2> HIDE DEF r
  <2>3. due'[c] = due[c]
    BY <1>6, <2>1, <2>2 DEF due
  <2>4. seat'[c] = seat[c]
    BY <1>6, <2>1, <2>2 DEF seat
  <2> QED BY <1>1, <1>4, <2>3, <2>4, ClaimStutters
<1> QED BY <1>5, <1>6

\* A call's validate is Rule; a probe, or a validate nobody waits for, rules
\* on no claim.
LEMMA ValidateRules ==
    ASSUME IInv, NEW c \in Calls, ServeValidate(c)
    PROVE  Claims!Rule(c) \/ UNCHANGED Claims!vars
<1>1. PICK code \in Verdicts(args[c].license) : Answer(c, [op |-> "verdict", code |-> code])
  BY DEF ServeValidate
<1> DEFINE r == [op |-> "verdict", code |-> code]
<1>2. /\ request[c].op = "validate" /\ reply[c] = NoMsg /\ request'[c] = NoMsg
      /\ reply'[c] = IF pc[c] \in Waiting THEN r ELSE NoMsg
      /\ UNCHANGED <<pc, args, machine, outcome, machines, nextId>>
      /\ StepOf(c)
  BY <1>1 DEF ServeValidate, Answer, callVars, IInv, CallInv, WireMatchesCall, TypeOK, StepOf, NoMsg
<1>3. pc[c] \in Waiting => pc[c] \in {"probing", "validating"}
  BY <1>2 DEF IInv, CallInv, WireMatchesCall, Waiting
<1>4. pc[c] \notin {"creating", "searching"} /\ NoMsg.op = "none"
  BY <1>3 DEF Waiting, NoMsg
<1>5. stage'[c] = stage[c] /\ due'[c] = due[c] /\ seat'[c] = seat[c]
  BY <1>2, <1>4 DEF stage, due, seat, Shown
<1>6. CASE pc[c] = "validating"
  <2>1. stage[c] = "open" /\ due[c] = "nothing" /\ seat[c] # NoRow
    BY <1>2, <1>6, HeldWhileRuled
  <2>2. ruling[c] = "none" /\ ruling'[c] = Verdict(code)
    BY <1>2, <1>6 DEF ruling, NoMsg, Waiting
  <2>3. Verdict("VALID") = "valid" /\ Verdict("TOO_MANY_MACHINES") = "over"
    BY DEF Verdict, IsOverage, OverageCodes
  <2>4. \A S : Claims!Cardinality(S) = Cardinality(S)
    BY DEF Claims!Cardinality, Cardinality
  <2>5. Claims!OnLicense(args[c].license) = OnLicense(args[c].license)
    BY SameTable
  <2>6. Verdict(code) \in {Verdict(k) : k \in SideCodes}
                  \cup (IF Claims!Cardinality(Claims!OnLicense(args[c].license)) > Seats[args[c].license]
                        THEN {"over"} ELSE {"valid"})
    BY <2>3, <2>4, <2>5 DEF Verdicts
  <2>7. ruling' = [ruling EXCEPT ![c] = Verdict(code)]
    BY <1>2, <2>2, ClaimMoves
  <2> QED BY <1>2, <1>5, <2>1, <2>2, <2>6, <2>7, ClaimMoves DEF Claims!Rule, Claims!NoRow, NoRow
<1>7. CASE pc[c] # "validating"
  <2>1. ruling'[c] = ruling[c]
    BY <1>2, <1>7 DEF ruling
  <2> QED BY <1>2, <1>5, <2>1, ClaimStutters
<1> QED BY <1>6, <1>7

\* A delete that is served is GiveBack: it takes all the claim has added.
LEMMA DeleteGivesBack ==
    ASSUME IInv, NEW c \in Calls, ClaimInv(c), ServeDelete(c)
    PROVE  Claims!GiveBack(c)
<1>1. /\ request[c].op = "delete" /\ reply[c] = NoMsg /\ request'[c] = NoMsg
      /\ machines' = machines \ {request[c].row}
      /\ reply'[c] = IF pc[c] \in Waiting THEN [op |-> "deleted"] ELSE NoMsg
      /\ UNCHANGED <<pc, args, machine, outcome, nextId>>
      /\ StepOf(c)
  BY DEF ServeDelete, Answer, callVars, IInv, CallInv, WireMatchesCall, TypeOK, StepOf, NoMsg
<1>2. /\ pc[c] \in {"rollingBack", "done", "cancelled"}
      /\ request[c].row = machine[c] /\ machine[c].by = c
  BY <1>1 DEF IInv, CallInv, DeletesOwnRow
<1>3. machines' = machines \ Claims!Own(c)
  BY <1>1, <1>2 DEF ClaimInv, Claims!Own
<1>4. due[c] = "giveBack" /\ due'[c] = "nothing"
  BY <1>1, <1>2 DEF due, NoMsg
<1>5. stage'[c] = stage[c] /\ ruling'[c] = ruling[c] /\ seat'[c] = seat[c]
  BY <1>1, <1>2 DEF stage, ruling, seat, Shown
<1> QED BY <1>1, <1>3, <1>4, <1>5, ClaimMoves DEF Claims!GiveBack

\* What a call learns from these answers, its claim had already.
LEMMA LearningStutters ==
    ASSUME IInv, NEW c \in Calls, ClaimInv(c),
           \/ CreateSucceeded(c) \/ TakenSearches(c) \/ CreateRefused(c)
           \/ SearchHit(c) \/ SearchNextPage(c)
    PROVE  UNCHANGED Claims!vars
<1>1. /\ StepOf(c) /\ UNCHANGED <<machines, nextId, args, outcome>>
      /\ reply'[c] = NoMsg /\ reply[c] # NoMsg /\ request[c].op = "none" /\ NoMsg.op = "none"
      /\ pc[c] \in Waiting /\ pc'[c] \in Waiting
  <2>1. PICK where \in {"validating", "searching", "probing"}, r \in Request \cup {List(number[c] + 1)} :
           Continue(c, where, r)
    <3>1. CASE CreateSucceeded(c)
      BY <3>1, RequestsTyped DEF CreateSucceeded
    <3>2. CASE TakenSearches(c)
      BY <3>2, RequestsTyped DEF TakenSearches
    <3>3. CASE CreateRefused(c)
      BY <3>3, RequestsTyped DEF CreateRefused
    <3>4. CASE SearchHit(c)
      BY <3>4, RequestsTyped DEF SearchHit
    <3>5. CASE SearchNextPage(c)
      BY <3>5 DEF SearchNextPage
    <3> QED BY <3>1, <3>2, <3>3, <3>4, <3>5
  <2>2. /\ pc[c] \in {"creating", "searching"} /\ UNCHANGED outcome
        /\ reply[c].op \in {"created", "taken", "limit", "page"}
        /\ machine' = machine \/ \E m : machine' = [machine EXCEPT ![c] = m]
    BY DEF CreateSucceeded, TakenSearches, CreateRefused, SearchHit, SearchNextPage
  <2>3. reply[c] # NoMsg /\ \A d \in Calls \ {c} : machine'[d] = machine[d]
    BY <2>2 DEF IInv, TypeOK, NoMsg
  <2>4. /\ UNCHANGED <<machines, nextId, args>> /\ reply'[c] = NoMsg /\ pc'[c] \in Waiting
        /\ StepOf(c)
    BY <2>1, <2>2, <2>3 DEF Continue, serverVars, StepOf, IInv, TypeOK, Waiting
  <2> QED BY <2>2, <2>3, <2>4, DueOf DEF Waiting, NoMsg
<1>2. stage'[c] = stage[c]
  BY <1>1 DEF stage
<1>3. pc[c] \in {"creating", "searching"} => ~reused[c] /\ machine[c] = NoRow
  BY DEF IInv, CallInv, RowsMatchCall
<1>4. CASE CreateSucceeded(c)
  <2>1. /\ pc[c] = "creating" /\ reply[c].op = "created" /\ pc'[c] = "validating"
        /\ machine'[c] = reply[c].row /\ request'[c] = Validate(FALSE)
    BY <1>4 DEF CreateSucceeded, Continue, IInv, TypeOK
  <2>2. due'[c] = due[c] /\ ruling'[c] = ruling[c] /\ seat'[c] = seat[c]
    BY <1>1, <2>1 DEF due, ruling, seat, Shown, Validate, Waiting
  <2> QED BY <1>1, <1>2, <2>2, ClaimStutters
<1>5. CASE TakenSearches(c)
  <2>1. /\ pc[c] = "creating" /\ reply[c].op = "taken" /\ pc'[c] = "searching"
        /\ machine'[c] = machine[c] /\ request'[c] = List(1)
    BY <1>5 DEF TakenSearches, Continue, IInv, TypeOK
  <2>2. due'[c] = due[c] /\ ruling'[c] = ruling[c] /\ seat'[c] = seat[c]
    BY <1>1, <1>3, <2>1 DEF due, ruling, seat, Shown, List, Waiting
  <2> QED BY <1>1, <1>2, <2>2, ClaimStutters
<1>6. CASE CreateRefused(c)
  <2>1. /\ pc[c] = "creating" /\ reply[c].op = "limit" /\ pc'[c] = "probing"
        /\ machine'[c] = machine[c] /\ request'[c] = Validate(TRUE)
    BY <1>6 DEF CreateRefused, Continue, IInv, TypeOK
  <2>2. due'[c] = due[c] /\ ruling'[c] = ruling[c] /\ seat'[c] = seat[c]
    BY <1>1, <1>3, <2>1 DEF due, ruling, seat, Shown, Validate, Waiting
  <2> QED BY <1>1, <1>2, <2>2, ClaimStutters
<1>7. CASE SearchHit(c)
  <2>1. PICK m \in Matches(c) : /\ \A x \in Matches(c) : m.id <= x.id
                                /\ machine' = [machine EXCEPT ![c] = m]
    BY <1>7 DEF SearchHit
  <2>2. /\ pc[c] = "searching" /\ reply[c].op = "page" /\ pc'[c] = "validating"
        /\ machine'[c] = m /\ request'[c] = Validate(FALSE)
    BY <1>7, <2>1 DEF SearchHit, Continue, IInv, TypeOK
  <2>3. Matches(c) \in SUBSET Row /\ Matches(c) # {} /\ IdsDiffer(Matches(c))
    BY <2>1, <2>2, ReplyShapes DEF IInv, TypeOK, Matches, ClaimInv, IdsDiffer
  <2>4. ToAdopt(c) = m
    <3>1. ToAdopt(c) \in Matches(c) /\ \A x \in Matches(c) : ToAdopt(c).id <= x.id
      BY <2>3, FirstMatch DEF ToAdopt
    <3>2. ToAdopt(c).id = m.id
      BY <2>1, <2>3, <3>1 DEF Row
    <3> QED BY <2>3, <3>1, <3>2 DEF IdsDiffer
  <2>5. Shown(c)
    BY <2>2, <2>3 DEF Shown
  <2>6. due'[c] = due[c] /\ ruling'[c] = ruling[c] /\ seat'[c] = seat[c]
    BY <1>1, <2>2, <2>4, <2>5 DEF due, ruling, seat, Shown, Validate, Waiting
  <2> QED BY <1>1, <1>2, <2>6, ClaimStutters
<1>8. CASE SearchNextPage(c)
  <2>1. /\ pc[c] = "searching" /\ ~Shown(c) /\ pc'[c] = "searching"
        /\ machine'[c] = machine[c] /\ request'[c] = List(number[c] + 1)
    BY <1>8 DEF SearchNextPage, Continue, Shown, IInv, TypeOK
  <2>2. due'[c] = due[c] /\ ruling'[c] = ruling[c] /\ seat'[c] = seat[c]
    BY <1>1, <1>3, <2>1 DEF due, ruling, seat, Shown, List, Waiting
  <2> QED BY <1>1, <1>2, <2>2, ClaimStutters
<1> QED BY <1>4, <1>5, <1>6, <1>7, <1>8

\* An eviction is Remove.
LEMMA EvictRemoves ==
    ASSUME NEW m \in machines, Evict(m)
    PROVE  Claims!Remove(m)
<1>1. UNCHANGED <<stage, due, ruling, seat>>
  <2>1. \A c \in Calls : /\ stage'[c] = stage[c] /\ due'[c] = due[c]
                         /\ ruling'[c] = ruling[c] /\ seat'[c] = seat[c]
    BY ClaimStands DEF Evict, callVars
  <2> QED BY <2>1 DEF stage, due, ruling, seat
<1> QED BY <1>1 DEF Evict, callVars, Claims!Remove

-----------------------------------------------------------------------------
(* What the refinement needs beyond IInv.                                  *)

\* Another call's step leaves a call's part of it alone.
LEMMA ClaimInvStands ==
    ASSUME NEW d \in Calls, ClaimInv(d),
           pc'[d] = pc[d], machine'[d] = machine[d], args'[d] = args[d],
           request'[d] = request[d], reply'[d] = reply[d],
           \A m \in machines' : m.by = d => m \in machines
    PROVE  ClaimInv(d)'
BY DEF ClaimInv

\* A step of one call, with no row of anybody else's added.
LEMMA ClaimInvsOfOthers ==
    ASSUME NEW c \in Calls, StepOf(c), \A d \in Calls : ClaimInv(d),
           \A m \in machines' : m \in machines \/ m.by = c, ClaimInv(c)'
    PROVE  \A d \in Calls : ClaimInv(d)'
<1>1. ASSUME NEW d \in Calls \ {c} PROVE ClaimInv(d)'
  BY ClaimInvStands DEF StepOf
<1> QED BY <1>1

\* The server's steps.
LEMMA ServeKeepsClaims ==
    ASSUME IInv, ClaimsInv, NEW c \in Calls, Serve(c)
    PROVE  ClaimsInv'
<1>1. ClaimInv(c) /\ IdsDiffer(machines)
  BY DEF ClaimsInv
<1>2. StepOf(c) /\ UNCHANGED <<pc, args, machine>> /\ request'[c] = NoMsg /\ NoMsg.op = "none"
  <2>1. \E r : Answer(c, r)
    <3>1. CASE ServeCreate(c)
      BY <3>1 DEF ServeCreate
    <3>2. CASE ServeList(c)
      BY <3>2 DEF ServeList
    <3>3. CASE ServeValidate(c)
      BY <3>3 DEF ServeValidate
    <3>4. CASE ServeDelete(c)
      BY <3>4 DEF ServeDelete
    <3> QED BY <3>1, <3>2, <3>3, <3>4 DEF Serve
  <2> QED BY <2>1 DEF Answer, callVars, StepOf, IInv, TypeOK, NoMsg
<1>3. CASE ServeCreate(c)
  <2>1. \/ UNCHANGED machines
        \/ machines' = machines \cup {NewRow(c)}
    BY <1>3 DEF ServeCreate, serverVars
  <2>2. NewRow(c).id = nextId /\ NewRow(c).by = c
    BY DEF NewRow
  <2>3. \A m \in machines : m.id # nextId
    BY DEF IInv, TableInv, TypeOK, Row
  <2>4. IdsDiffer(machines')
    BY <1>1, <2>1, <2>2, <2>3 DEF IdsDiffer
  <2>5. \A m \in machines' : m \in machines \/ m.by = c
    BY <2>1, <2>2
  <2>6. reply'[c].op # "page"
    BY <1>2, <1>3 DEF ServeCreate, Answer, IInv, TypeOK
  <2>7. ClaimInv(c)'
    BY <1>1, <1>2, <2>6 DEF ClaimInv
  <2> QED BY <1>2, <2>4, <2>5, <2>7, ClaimInvsOfOthers DEF ClaimsInv
<1>4. CASE ServeList(c)
  <2>1. machines' = machines
    BY <1>4 DEF ServeList, serverVars
  <2>2. reply'[c].op = "page" => reply'[c].items \subseteq machines
    BY <1>2, <1>4 DEF ServeList, Answer, PageOf, Hits, OnLicense, IInv, TypeOK
  <2>3. ClaimInv(c)'
    BY <1>1, <1>2, <2>2 DEF ClaimInv, IdsDiffer
  <2> QED BY <1>1, <1>2, <2>1, <2>3, ClaimInvsOfOthers DEF ClaimsInv
<1>5. CASE ServeValidate(c) \/ ServeDelete(c)
  <2>1. machines' \subseteq machines
    BY <1>5 DEF ServeValidate, ServeDelete
  <2>2. reply'[c].op # "page"
    BY <1>2, <1>5 DEF ServeValidate, ServeDelete, Answer, IInv, TypeOK
  <2>3. ClaimInv(c)'
    BY <1>1, <1>2, <2>2 DEF ClaimInv
  <2> QED BY <1>1, <1>2, <2>1, <2>3, ClaimInvsOfOthers DEF ClaimsInv, IdsDiffer
<1> QED BY <1>3, <1>4, <1>5 DEF Serve

\* The client's steps.
LEMMA ClientKeepsClaims ==
    ASSUME IInv, ClaimsInv, NEW c \in Calls,
           Start(c) \/ HandleReply(c) \/ RequestFails(c) \/ Cancel(c)
    PROVE  ClaimsInv'
<1>1. ClaimInv(c) /\ IdsDiffer(machines) /\ NoMsg.op = "none"
  BY DEF ClaimsInv, NoMsg
<1>2. CASE Start(c)
  <2>1. StepOf(c) /\ machines' = machines
    BY <1>2 DEF Start, serverVars, StepOf, IInv, TypeOK
  <2>2. pc'[c] = "creating" /\ request'[c].op = "create" /\ reply'[c] = reply[c]
    BY <1>2, RequestsTyped DEF Start, IInv, TypeOK
  <2>3. ClaimInv(c)'
    BY <1>1, <2>2 DEF ClaimInv
  <2> QED BY <1>1, <2>1, <2>3, ClaimInvsOfOthers DEF ClaimsInv
<1>3. ASSUME NEW told, Return(c, told) PROVE ClaimsInv'
  <2>1. StepOf(c) /\ machines' = machines
    BY <1>3 DEF Return, serverVars, callVars, StepOf, IInv, TypeOK
  <2>2. pc'[c] = "done" /\ UNCHANGED <<request, machine>> /\ reply'[c] = NoMsg
    BY <1>3 DEF Return, callVars, IInv, TypeOK
  <2>3. ClaimInv(c)'
    BY <1>1, <2>1, <2>2 DEF ClaimInv
  <2> QED BY <1>1, <2>1, <2>3, ClaimInvsOfOthers DEF ClaimsInv
<1>4. CASE Cancel(c)
  <2>1. StepOf(c) /\ machines' = machines
    BY <1>4 DEF Cancel, serverVars, callVars, StepOf, IInv, TypeOK
  <2>2. pc'[c] = "cancelled" /\ UNCHANGED <<request, machine>> /\ reply'[c] = NoMsg
    BY <1>4 DEF Cancel, callVars, IInv, TypeOK
  <2>3. ClaimInv(c)'
    BY <1>1, <2>1, <2>2 DEF ClaimInv
  <2> QED BY <1>1, <2>1, <2>3, ClaimInvsOfOthers DEF ClaimsInv
<1>5. ASSUME NEW where, NEW r, Continue(c, where, r), UNCHANGED outcome,
             machine' = machine \/ \E m : machine' = [machine EXCEPT ![c] = m],
             r.op = "delete" => machine' = machine /\ \A m \in machines : m.by = c => m = machine[c],
             where = "searching" => args[c].idempotent
      PROVE  ClaimsInv'
  <2>1. \A d \in Calls \ {c} : machine'[d] = machine[d]
    BY <1>5 DEF IInv, TypeOK
  <2>2. StepOf(c) /\ machines' = machines /\ args' = args
    BY <1>5, <2>1 DEF Continue, serverVars, StepOf, IInv, TypeOK
  <2>3. pc'[c] = where /\ request'[c] = r /\ reply'[c] = NoMsg
    BY <1>5 DEF Continue, IInv, TypeOK
  <2>4. ClaimInv(c)'
    BY <1>1, <1>5, <2>2, <2>3 DEF ClaimInv
  <2> QED BY <1>1, <2>2, <2>4, ClaimInvsOfOthers DEF ClaimsInv
<1>6. CASE CreateSucceeded(c)
  BY <1>5, <1>6, RequestsTyped DEF CreateSucceeded
<1>7. CASE TakenSearches(c)
  BY <1>5, <1>7, RequestsTyped DEF TakenSearches
<1>8. CASE CreateRefused(c)
  BY <1>5, <1>8, RequestsTyped DEF CreateRefused
<1>9. CASE SearchHit(c)
  BY <1>5, <1>9, RequestsTyped DEF SearchHit
<1>10. CASE SearchNextPage(c)
  BY <1>1, <1>5, <1>10, RequestsTyped DEF SearchNextPage, ClaimInv, IInv, TypeOK
<1>11. CASE ValidatedRollsBack(c)
  <2>1. pc[c] = "validating" /\ ~reused[c]
    BY <1>11 DEF ValidatedRollsBack, RollsBack
  <2>2. \A m \in machines : m.by = c => m = machine[c]
    BY <2>1 DEF IInv, CallInv, RowsMatchCall
  <2> QED BY <1>5, <1>11, <2>2 DEF ValidatedRollsBack
<1>12. CASE TakenPropagates(c) \/ SearchMiss(c) \/ Probed(c) \/ RolledBack(c)
  BY <1>3, <1>12 DEF TakenPropagates, SearchMiss, Probed, RolledBack
<1>13. CASE ValidatedKeeps(c)
  BY <1>3, <1>13 DEF ValidatedKeeps
<1>14. CASE RequestFails(c)
  BY <1>3, <1>14 DEF RequestFails
<1> QED
  BY <1>2, <1>4, <1>6, <1>7, <1>8, <1>9, <1>10, <1>11, <1>12, <1>13, <1>14 DEF HandleReply

\* ... and a row that goes is nobody's concern.
LEMMA StepKeepsClaims ==
    ASSUME IInv, ClaimsInv, [Next]_vars
    PROVE  ClaimsInv'
<1>1. ASSUME NEW m \in machines, Evict(m) PROVE ClaimsInv'
  <2>1. machines' \subseteq machines /\ UNCHANGED <<pc, args, machine, request, reply>>
    BY <1>1 DEF Evict, callVars
  <2> QED BY <2>1, ClaimInvStands DEF ClaimsInv, IdsDiffer
<1>2. CASE UNCHANGED vars
  BY <1>2, ClaimInvStands DEF vars, ClaimsInv
<1> QED BY <1>1, <1>2, ServeKeepsClaims, ClientKeepsClaims DEF Next

\* The start.
LEMMA InitClaims == Init => ClaimsInv /\ Claims!Init
<1> SUFFICES ASSUME Init PROVE ClaimsInv /\ Claims!Init
  OBVIOUS
<1>1. \A c \in Calls : pc[c] = "idle" /\ request[c] = NoMsg /\ reply[c] = NoMsg
                       /\ machine[c] = NoRow /\ outcome[c] = "pending" /\ NoMsg.op = "none"
  BY DEF Init, NoMsg
<1>2. ClaimsInv
  BY <1>1, ConstantsAssumption DEF Init, ClaimsInv, ClaimInv, IdsDiffer
<1>3. \A c \in Calls : /\ stage[c] = "idle" /\ due[c] = "nothing"
                       /\ ruling[c] = "none" /\ seat[c] = NoRow
  BY <1>1 DEF stage, due, ruling, seat, Shown, Waiting
<1>4. /\ stage = [c \in Calls |-> "idle"] /\ due = [c \in Calls |-> "nothing"]
      /\ ruling = [c \in Calls |-> "none"] /\ seat = [c \in Calls |-> NoRow]
  BY <1>3 DEF stage, due, ruling, seat
<1>5. Claims!Cardinality(Installed) = Cardinality(Installed)
  BY DEF Claims!Cardinality, Cardinality
<1> QED BY <1>2, <1>4, <1>5 DEF Init, Claims!Init, Claims!NoRow, NoRow

\* Every step of an activation is one of its claim, or none.
LEMMA StepClaims ==
    ASSUME IInv, IInv', ClaimsInv, [Next]_vars
    PROVE  [Claims!Next]_Claims!vars
<1>1. ASSUME NEW c \in Calls, Serve(c) PROVE Claims!Next \/ UNCHANGED Claims!vars
  BY <1>1, CreateTakes, PageAdopts, ValidateRules, DeleteGivesBack
     DEF Serve, ClaimsInv, Claims!Next
<1>2. ASSUME NEW c \in Calls, HandleReply(c) PROVE Claims!Next \/ UNCHANGED Claims!vars
  BY <1>2, LearningStutters, RefusalsRefuse, KeptIsGranted, RollbackUndoes, AnswerConfirms
     DEF HandleReply, ClaimsInv, Claims!Next
<1>3. ASSUME NEW c \in Calls, Start(c) \/ RequestFails(c) \/ Cancel(c) PROVE Claims!Next
  BY <1>3, StartAsks, FailureCloses, CancelGivesUp DEF Claims!Next
<1>4. ASSUME NEW m \in machines, Evict(m) PROVE Claims!Next
  BY <1>4, EvictRemoves DEF Claims!Next
<1>5. CASE UNCHANGED vars
  <2>1. UNCHANGED <<machines, nextId, args>>
    BY <1>5 DEF vars
  <2>2. UNCHANGED <<stage, due, ruling, seat>>
    <3>1. \A c \in Calls : /\ stage'[c] = stage[c] /\ due'[c] = due[c]
                           /\ ruling'[c] = ruling[c] /\ seat'[c] = seat[c]
      BY <1>5, ClaimStands DEF vars
    <3> QED BY <3>1 DEF stage, due, ruling, seat
  <2> QED BY <2>1, <2>2 DEF Claims!vars
<1> QED BY <1>1, <1>2, <1>3, <1>4, <1>5 DEF Next

\* Every behaviour of the two flows is one of claims that take, adopt, rule
\* and give back in single steps, for any number of calls and any server.
THEOREM ImplementsClaims == Spec => ActivationIsAClaim
<1>1. IInv /\ IInv' /\ ClaimsInv /\ [Next]_vars => ClaimsInv'
  BY StepKeepsClaims
<1>2. IInv /\ IInv' /\ ClaimsInv /\ [Next]_vars => [Claims!Next]_Claims!vars
  BY StepClaims
<1> QED BY <1>1, <1>2, InitClaims, InvariantHolds, PTL DEF Spec, ActivationIsAClaim, Claims!Spec

-----------------------------------------------------------------------------
(* What callers may rely on.                                               *)

\* A call whose caller has been told anything but an error, or that the
\* rollback is unconfirmed, has nothing on the wire that could still add or
\* remove a row.
AnswersAreFinal ==
    \A c \in Calls : outcome[c] \notin {"pending", "error", "rollbackUnconfirmed"} =>
        request[c].op \notin {"create", "delete"}

\* What a caller was told of its machine stays true of the call: a request
\* that outlived its await belongs to a call that was dropped, failed, or
\* said that its rollback is unconfirmed.
THEOREM AnswersStand == Spec => []AnswersAreFinal
<1>1. IInv => AnswersAreFinal
  <2> SUFFICES ASSUME IInv, NEW c \in Calls,
                      outcome[c] \notin {"pending", "error", "rollbackUnconfirmed"}
               PROVE  request[c].op \notin {"create", "delete"}
    BY DEF AnswersAreFinal
  <2>1. outcome[c] \in {"valid", "invalid", "over", "rolledBack", "refused", "limitError", "taken"}
    BY DEF IInv, TypeOK, Outcomes
  <2>2. request[c].op # "create"
    BY <2>1 DEF IInv, CallInv, RowsMatchCall
  <2>3. request[c].op # "delete"
    BY DEF IInv, CallInv, DeletesOwnRow
  <2> QED BY <2>2, <2>3
<1> QED BY <1>1, InvariantHolds, PTL

-----------------------------------------------------------------------------
(* A policy that refuses at the create.                                    *)

\* The server accepts no more machines than a validate accepts, the licences
\* start within that, and no other total is overdrawn.
RefusesAtCreate ==
    /\ \A l \in Licenses : CreateCap[l] <= Seats[l]
    /\ \A l \in Licenses : Cardinality({m \in Installed : m.license = l}) <= CreateCap[l]
    /\ SideCodes \cap OverageCodes = {}

WithinCap == \A l \in Licenses : Cardinality(OnLicense(l)) <= CreateCap[l]

\* No verdict is over the limit, so nothing is rolled back.
NeverOver(c) ==
    /\ pc[c] # "rollingBack" /\ request[c].op # "delete"
    /\ reply[c].op = "verdict" => ~IsOverage(reply[c].code)
    /\ outcome[c] \notin {"over", "rolledBack", "rollbackUnconfirmed"}

StrictInv == WithinCap /\ \A c \in Calls : NeverOver(c)

\* A create is the only step that adds a row, and it looks at the cap.
LEMMA CapIsKept ==
    ASSUME IInv, WithinCap, [Next]_vars
    PROVE  WithinCap'
<1> SUFFICES ASSUME NEW l \in Licenses PROVE Cardinality(OnLicense(l)') <= CreateCap[l]
  BY DEF WithinCap
<1>1. /\ IsFiniteSet(OnLicense(l)) /\ Cardinality(OnLicense(l)) \in Nat
      /\ CreateCap[l] \in Nat /\ Cardinality(OnLicense(l)) <= CreateCap[l]
  BY FS_Subset, FS_CardinalityType, ConstantsAssumption DEF IInv, TableInv, OnLicense, WithinCap
<1>2. CASE machines' \subseteq machines
  <2>1. OnLicense(l)' \subseteq OnLicense(l)
    BY <1>2 DEF OnLicense
  <2>2. Cardinality(OnLicense(l)') <= Cardinality(OnLicense(l)) /\ Cardinality(OnLicense(l)') \in Nat
    BY <1>1, <2>1, FS_Subset, FS_CardinalityType
  <2> QED BY <1>1, <2>2
<1>3. ASSUME NEW c \in Calls, ~Full(args[c].license), machines' = machines \cup {NewRow(c)}
      PROVE  Cardinality(OnLicense(l)') <= CreateCap[l]
  <2>1. CASE l # args[c].license
    <3>1. OnLicense(l)' = OnLicense(l)
      BY <1>3, <2>1 DEF OnLicense, NewRow
    <3> QED BY <1>1, <3>1
  <2>2. CASE l = args[c].license
    <3>1. OnLicense(l)' = OnLicense(l) \cup {NewRow(c)}
      BY <1>3, <2>2 DEF OnLicense, NewRow
    <3>2. Cardinality(OnLicense(l)) < CreateCap[l]
      BY <1>1, <1>3, <2>2 DEF Full
    <3>3. Cardinality(OnLicense(l) \cup {NewRow(c)}) <= Cardinality(OnLicense(l)) + 1
      <4>1. Cardinality(OnLicense(l) \cup {NewRow(c)})
               \in {Cardinality(OnLicense(l)), Cardinality(OnLicense(l)) + 1}
        BY <1>1, FS_AddElement, Zenon
      <4> QED BY <1>1, <4>1
    <3>4. Cardinality(OnLicense(l)') \in Nat
      BY <1>1, <3>1, FS_AddElement, FS_CardinalityType
    <3> QED BY <1>1, <3>1, <3>2, <3>3, <3>4
  <2> QED BY <2>1, <2>2
<1>4. \/ machines' \subseteq machines
      \/ \E c \in Calls : ~Full(args[c].license) /\ machines' = machines \cup {NewRow(c)}
  <2>1. ASSUME NEW c \in Calls, Serve(c)
        PROVE  \/ machines' \subseteq machines
               \/ ~Full(args[c].license) /\ machines' = machines \cup {NewRow(c)}
    BY <2>1 DEF Serve, ServeCreate, ServeList, ServeValidate, ServeDelete, serverVars
  <2>2. ASSUME NEW c \in Calls, Start(c) \/ HandleReply(c) \/ RequestFails(c) \/ Cancel(c)
        PROVE  machines' = machines
    BY <2>2, ClientTellsNobody
  <2>3. ASSUME NEW m \in machines, Evict(m) PROVE machines' \subseteq machines
    BY <2>3 DEF Evict
  <2>4. CASE UNCHANGED vars
    BY <2>4 DEF vars
  <2> QED BY <2>1, <2>2, <2>3, <2>4 DEF Next
<1> QED BY <1>2, <1>3, <1>4

\* The other conjunct, call by call.
LEMMA NeverOverStands ==
    ASSUME NEW d \in Calls, NeverOver(d),
           pc'[d] = pc[d], request'[d] = request[d], reply'[d] = reply[d], outcome'[d] = outcome[d]
    PROVE  NeverOver(d)'
BY DEF NeverOver

\* A verdict given within the seats is not over the limit.
LEMMA VerdictsWithinSeats ==
    ASSUME IInv, WithinCap, RefusesAtCreate, NEW l \in Licenses, NEW code \in Verdicts(l)
    PROVE  ~IsOverage(code)
<1>1. /\ Cardinality(OnLicense(l)) \in Nat /\ CreateCap[l] \in Nat /\ Seats[l] \in Nat
      /\ Cardinality(OnLicense(l)) <= CreateCap[l] /\ CreateCap[l] <= Seats[l]
  BY FS_Subset, FS_CardinalityType, ConstantsAssumption
     DEF IInv, TableInv, OnLicense, WithinCap, RefusesAtCreate
<1>2. Verdicts(l) = SideCodes \cup {"VALID"}
  BY <1>1 DEF Verdicts
<1> QED BY <1>2 DEF RefusesAtCreate, IsOverage, OverageCodes

\* No step leads a call over the limit.
LEMMA StepStaysWithin ==
    ASSUME IInv, StrictInv, RefusesAtCreate, [Next]_vars
    PROVE  StrictInv'
<1>1. WithinCap /\ \A c \in Calls : NeverOver(c)
  BY DEF StrictInv
<1>2. WithinCap'
  BY <1>1, CapIsKept
<1>3. ASSUME NEW c \in Calls, StepOf(c), NeverOver(c)' PROVE StrictInv'
  <2>1. ASSUME NEW d \in Calls \ {c} PROVE NeverOver(d)'
    BY <1>1, <1>3, NeverOverStands DEF StepOf
  <2> QED BY <1>2, <1>3, <2>1 DEF StrictInv
<1>4. ASSUME NEW c \in Calls, NEW r, Answer(c, r), r.op = "verdict" => ~IsOverage(r.code)
      PROVE  StrictInv'
  <2>1. StepOf(c)
    BY <1>4 DEF Answer, callVars, StepOf, IInv, TypeOK
  <2>2. /\ UNCHANGED <<pc, outcome>> /\ request'[c] = NoMsg
        /\ reply'[c] = IF pc[c] \in Waiting THEN r ELSE NoMsg
    BY <1>4 DEF Answer, IInv, TypeOK
  <2>3. NeverOver(c)'
    BY <1>1, <1>4, <2>2 DEF NeverOver, NoMsg
  <2> QED BY <1>3, <2>1, <2>3
<1>5. ASSUME NEW c \in Calls, NEW told, Return(c, told),
             told \notin {"over", "rolledBack", "rollbackUnconfirmed"}
      PROVE  StrictInv'
  <2>1. StepOf(c)
    BY <1>5 DEF Return, callVars, StepOf, IInv, TypeOK
  <2>2. pc'[c] = "done" /\ outcome'[c] = told /\ reply'[c] = NoMsg /\ UNCHANGED request
    BY <1>5 DEF Return, IInv, TypeOK
  <2>3. NeverOver(c)'
    BY <1>1, <1>5, <2>2 DEF NeverOver, NoMsg
  <2> QED BY <1>3, <2>1, <2>3
<1>6. ASSUME NEW c \in Calls, NEW where, NEW r, Continue(c, where, r), UNCHANGED outcome,
             machine' = machine \/ \E m : machine' = [machine EXCEPT ![c] = m],
             where # "rollingBack", r.op # "delete"
      PROVE  StrictInv'
  <2>1. \A d \in Calls \ {c} : machine'[d] = machine[d]
    BY <1>6 DEF IInv, TypeOK
  <2>2. StepOf(c)
    BY <1>6, <2>1 DEF Continue, StepOf, IInv, TypeOK
  <2>3. pc'[c] = where /\ request'[c] = r /\ reply'[c] = NoMsg
    BY <1>6 DEF Continue, IInv, TypeOK
  <2>4. NeverOver(c)'
    BY <1>1, <1>6, <2>3 DEF NeverOver, NoMsg
  <2> QED BY <1>3, <2>2, <2>4
<1>7. ASSUME NEW c \in Calls, Start(c) PROVE StrictInv'
  <2>1. StepOf(c)
    BY <1>7 DEF Start, StepOf, IInv, TypeOK
  <2>2. pc'[c] = "creating" /\ request'[c] = Create /\ UNCHANGED <<reply, outcome>>
    BY <1>7 DEF Start, IInv, TypeOK
  <2>3. NeverOver(c)'
    BY <1>1, <2>2, RequestsTyped DEF NeverOver
  <2> QED BY <1>3, <2>1, <2>3
<1>8. ASSUME NEW c \in Calls, Serve(c) PROVE StrictInv'
  <2>1. CASE ServeCreate(c)
    BY <1>4, <2>1 DEF ServeCreate
  <2>2. CASE ServeList(c)
    BY <1>4, <2>2 DEF ServeList
  <2>3. CASE ServeValidate(c)
    <3>1. args[c].license \in Licenses
      BY ConstantsAssumption DEF IInv, TypeOK, IsArg
    <3>2. PICK code \in Verdicts(args[c].license) : Answer(c, [op |-> "verdict", code |-> code])
      BY <2>3 DEF ServeValidate
    <3>3. ~IsOverage(code)
      BY <1>1, <3>1, <3>2, VerdictsWithinSeats
    <3> QED BY <1>4, <3>2, <3>3
  <2>4. CASE ServeDelete(c)
    BY <1>4, <2>4 DEF ServeDelete
  <2> QED BY <1>8, <2>1, <2>2, <2>3, <2>4 DEF Serve
<1>9. ASSUME NEW c \in Calls, HandleReply(c) PROVE StrictInv'
  <2>1. CASE CreateSucceeded(c)
    BY <1>6, <2>1, RequestsTyped DEF CreateSucceeded
  <2>2. CASE TakenSearches(c)
    BY <1>6, <2>2, RequestsTyped DEF TakenSearches
  <2>3. CASE CreateRefused(c)
    BY <1>6, <2>3, RequestsTyped DEF CreateRefused
  <2>4. CASE SearchHit(c)
    BY <1>6, <2>4, RequestsTyped DEF SearchHit
  <2>5. CASE SearchNextPage(c)
    BY <1>6, <2>5 DEF SearchNextPage, List
  <2>6. CASE TakenPropagates(c) \/ SearchMiss(c) \/ Probed(c)
    BY <1>5, <2>6 DEF TakenPropagates, SearchMiss, Probed
  <2>7. CASE ValidatedKeeps(c)
    <3>1. Return(c, Verdict(reply[c].code)) /\ ~IsOverage(reply[c].code)
      BY <1>1, <2>7 DEF ValidatedKeeps, NeverOver
    <3>2. Verdict(reply[c].code) \in {"valid", "invalid"}
      BY <3>1, OverIsOverage
    <3> QED BY <1>5, <3>1, <3>2
  <2>8. ~ValidatedRollsBack(c) /\ ~RolledBack(c)
    BY <1>1 DEF ValidatedRollsBack, RollsBack, RolledBack, NeverOver
  <2> QED BY <1>9, <2>1, <2>2, <2>3, <2>4, <2>5, <2>6, <2>7, <2>8 DEF HandleReply
<1>10. ASSUME NEW c \in Calls, RequestFails(c) PROVE StrictInv'
  <2>1. FailureOutcome(c) \in {"limitError", "error"}
    BY <1>1, Zenon DEF FailureOutcome, NeverOver
  <2> QED BY <1>5, <1>10, <2>1 DEF RequestFails
<1>11. ASSUME NEW c \in Calls, Cancel(c) PROVE StrictInv'
  <2>1. StepOf(c)
    BY <1>11 DEF Cancel, callVars, StepOf, IInv, TypeOK
  <2>2. pc'[c] = "cancelled" /\ UNCHANGED <<request, outcome>> /\ reply'[c] = NoMsg
    BY <1>11 DEF Cancel, IInv, TypeOK
  <2>3. NeverOver(c)'
    BY <1>1, <2>2 DEF NeverOver, NoMsg
  <2> QED BY <1>3, <2>1, <2>3
<1>12. ASSUME UNCHANGED <<pc, outcome, request, reply>> PROVE StrictInv'
  BY <1>1, <1>2, <1>12, NeverOverStands DEF StrictInv
<1> QED
  BY <1>7, <1>8, <1>9, <1>10, <1>11, <1>12 DEF Next, Evict, vars

\* Where the policy refuses at the create, a licence never exceeds its seats,
\* no DELETE is ever sent and no adopted machine is ever rolled back: what
\* auto_delete_on_overage can do to others needs a policy that lets creates
\* pass and rules later.
THEOREM RefusalPreventsRollback ==
    ASSUME RefusesAtCreate
    PROVE  Spec => [](/\ \A l \in Licenses : Cardinality(OnLicense(l)) <= Seats[l]
                      /\ \A c \in Calls : request[c].op # "delete"
                      /\ AdoptedNeverRolledBack)
<1> DEFINE Kept == /\ \A l \in Licenses : Cardinality(OnLicense(l)) <= Seats[l]
                   /\ \A c \in Calls : request[c].op # "delete"
                   /\ AdoptedNeverRolledBack
<1>1. Init => StrictInv
  <2> SUFFICES ASSUME Init PROVE StrictInv
    OBVIOUS
  <2>1. \A l \in Licenses : OnLicense(l) = {m \in Installed : m.license = l}
    BY DEF Init, OnLicense
  <2>2. WithinCap
    BY <2>1 DEF WithinCap, RefusesAtCreate
  <2>3. \A c \in Calls : NeverOver(c)
    BY DEF Init, NeverOver, NoMsg
  <2> QED BY <2>2, <2>3 DEF StrictInv
<1>2. IInv /\ StrictInv /\ [Next]_vars => StrictInv'
  BY StepStaysWithin
<1>3. IInv /\ StrictInv => Kept
  <2> SUFFICES ASSUME IInv, StrictInv PROVE Kept
    OBVIOUS
  <2>1. ASSUME NEW l \in Licenses PROVE Cardinality(OnLicense(l)) <= Seats[l]
    <3>1. /\ Cardinality(OnLicense(l)) \in Nat /\ CreateCap[l] \in Nat /\ Seats[l] \in Nat
          /\ Cardinality(OnLicense(l)) <= CreateCap[l] /\ CreateCap[l] <= Seats[l]
      BY FS_Subset, FS_CardinalityType, ConstantsAssumption
         DEF IInv, TableInv, OnLicense, StrictInv, WithinCap, RefusesAtCreate
    <3> QED BY <3>1
  <2>2. \A c \in Calls : request[c].op # "delete"
    BY DEF StrictInv, NeverOver
  <2> QED BY <2>1, <2>2 DEF AdoptedNeverRolledBack
<1> HIDE DEF Kept
<1>4. Spec => []Kept
  BY <1>1, <1>2, <1>3, InvariantHolds, PTL DEF Spec
<1> QED BY <1>4 DEF Kept
=============================================================================
