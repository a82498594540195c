----------------------------- MODULE Activation -----------------------------
(***************************************************************************)
(* The two activation flows of client.rs, activate_machine and             *)
(* activate_machine_idempotent, run by any number of concurrent calls      *)
(* against one licensing server.                                           *)
(*                                                                         *)
(* A call sends one request at a time: it creates a machine row, on a 409  *)
(* looks for the row it may adopt, validates the licence, and rolls its    *)
(* own row back when the verdict is over the limit.  Each request is       *)
(* served in a step of its own, so the rows may change between any two     *)
(* requests of a call, and a request whose caller has given up may still   *)
(* be served later.                                                        *)
(*                                                                         *)
(* A request stands for one pass through send_with_retry (module Retry     *)
(* shows that such a pass runs the server's handler at most once).         *)
(***************************************************************************)
EXTENDS Naturals, FiniteSets

CONSTANTS
    Calls,          \* invocations of the two methods
    Earlier,        \* stands for the creator of a row older than all of them
    Licenses,
    Fingerprints,
    Args,           \* the argument records the calls are made with
    Seats,          \* [Licenses -> Nat]: most machines a validate accepts
    CreateCap,      \* [Licenses -> Nat]: most machines a create accepts
    ConflictScope,  \* [Licenses -> SUBSET Licenses]: whose rows make a 409
    Resembles,      \* pairs <<f, g>>: filter[q]=f also returns a row of g
    Installed,      \* the rows earlier runs left behind
    SideCodes,      \* verdicts that do not come from the machine count
    PageSize        \* MAX_OFFSET_PAGE_SIZE

OverageCodes == {"TOO_MANY_MACHINES", "TOO_MANY_CORES", "TOO_MUCH_MEMORY",
                 "TOO_MUCH_DISK", "TOO_MANY_PROCESSES"}
Codes == {"VALID", "OTHER"} \cup OverageCodes

\* What a call is made with.  Its caller may know more about it.
IsArg(a) == /\ a.idempotent \in BOOLEAN /\ a.license \in Licenses
            /\ a.fingerprint \in Fingerprints /\ a.autoDelete \in BOOLEAN

\* "by", the call that created the row, is history: the server's machine
\* resource names neither its creator nor its licence.
Row == [id : Nat \ {0}, license : Licenses, fingerprint : Fingerprints,
        by : Calls \cup {Earlier}]
NoRow == [id |-> 0]

ASSUME ConstantsAssumption ==
    /\ Earlier \notin Calls
    /\ Args # {} /\ \A a \in Args : IsArg(a)
    /\ Seats \in [Licenses -> Nat]
    /\ CreateCap \in [Licenses -> Nat]
    /\ ConflictScope \in [Licenses -> SUBSET Licenses]
    /\ \A l \in Licenses : l \in ConflictScope[l]
    /\ Resembles \subseteq Fingerprints \X Fingerprints
    /\ IsFiniteSet(Installed)
    /\ Installed \subseteq [id : 1..Cardinality(Installed), license : Licenses,
                             fingerprint : Fingerprints, by : {Earlier}]
    /\ \A m, n \in Installed : m.id = n.id => m = n
    /\ SideCodes \subseteq Codes \ {"VALID", "TOO_MANY_MACHINES"}
    /\ PageSize \in Nat \ {0}

VARIABLES
    machines,   \* the server's machine rows
    nextId,     \* the next row id; ids grow, so they order the listing
    touched,    \* calls whose validate wrote last_validated_at (history)
    pc,         \* where each call stands
    args,       \* the arguments of each call
    machine,    \* the row a call created or adopted
    reused,     \* whether that row was adopted
    number,     \* the page the search is reading
    horizon,    \* nextId when the 409 arrived (history)
    outcome,    \* what the call returned
    request,    \* the request a call has on the wire
    reply       \* the answer on its way back to the call

serverVars == <<machines, nextId, touched>>
callVars   == <<args, machine, reused, number, horizon>>
vars == <<machines, nextId, touched, pc, args, machine, reused, number,
          horizon, outcome, request, reply>>

-----------------------------------------------------------------------------
(* Messages.                                                               *)

NoMsg == [op |-> "none"]
Request == {NoMsg} \cup [op : {"create"}]
           \cup [op : {"list"}, number : Nat]
           \cup [op : {"validate"}, skipTouch : BOOLEAN]
           \cup [op : {"delete"}, row : Row]
Reply == {NoMsg} \cup [op : {"created"}, row : Row]
         \cup [op : {"taken", "limit", "deleted"}]
         \cup [op : {"page"}, items : SUBSET Row, more : BOOLEAN]
         \cup [op : {"verdict"}, code : Codes]

Create         == [op |-> "create"]
List(n)        == [op |-> "list", number |-> n]
Validate(skip) == [op |-> "validate", skipTouch |-> skip]
Delete(row)    == [op |-> "delete", row |-> row]

Waiting == {"creating", "searching", "probing", "validating", "rollingBack"}
Outcomes == {"pending", "valid", "invalid", "over", "rolledBack",
             "rollbackUnconfirmed", "refused", "limitError", "taken", "error"}

OnLicense(l) == {m \in machines : m.license = l}

-----------------------------------------------------------------------------
(* The server.  It is not part of this repository: each handler is what    *)
(* client.rs, its doc comments and its tests rely on.                      *)

\* Mutant of Hits: the search is not scoped to the licence.
HitsOfAnyLicense(l, f) ==
    {m \in machines : m.fingerprint = f \/ <<f, m.fingerprint>> \in Resembles}

\* The rows filter[license] and filter[q] select, in id order.
Hits(l, f) ==
    {m \in OnLicense(l) : m.fingerprint = f \/ <<f, m.fingerprint>> \in Resembles}

Rank(m, S) == Cardinality({x \in S : x.id <= m.id})

PageOf(S, n) ==
    {m \in S : (n - 1) * PageSize < Rank(m, S) /\ Rank(m, S) <= n * PageSize}

\* OffsetPageMeta: the page is not the last one, number < total_pages.
MorePages(S, n) == n * PageSize < Cardinality(S)

Conflicts(a) ==
    {m \in machines : /\ m.fingerprint = a.fingerprint
                      /\ m.license \in ConflictScope[a.license]}

Full(l) == Cardinality(OnLicense(l)) >= CreateCap[l]

\* A verdict may name a problem that is not the machine count (an expired
\* licence, a core or process total) before, or instead of, the machine
\* limit; VALID is only ever given within the limit.
Verdicts(l) ==
    SideCodes \cup
    (IF Cardinality(OnLicense(l)) > Seats[l] THEN {"TOO_MANY_MACHINES"} ELSE {"VALID"})

\* The request leaves the wire; an answer nobody waits for is dropped.
Answer(c, r) ==
    /\ request' = [request EXCEPT ![c] = NoMsg]
    /\ reply' = [reply EXCEPT ![c] = IF pc[c] \in Waiting THEN r ELSE NoMsg]
    /\ UNCHANGED <<pc, outcome, callVars>>

NewRow(c) == [id |-> nextId, license |-> args[c].license,
              fingerprint |-> args[c].fingerprint, by |-> c]

\* POST /machines: a conflict and a full licence are both refusals, and the
\* order in which the server looks for them is not the client's to know.
ServeCreate(c) ==
    /\ request[c].op = "create"
    /\ \/ /\ Conflicts(args[c]) # {}
          /\ Answer(c, [op |-> "taken"])
          /\ UNCHANGED serverVars
       \/ /\ Full(args[c].license)
          /\ Answer(c, [op |-> "limit"])
          /\ UNCHANGED serverVars
       \/ /\ Conflicts(args[c]) = {} /\ ~Full(args[c].license)
          /\ machines' = machines \cup {NewRow(c)}
          /\ nextId' = nextId + 1
          /\ Answer(c, [op |-> "created", row |-> NewRow(c)])
          /\ UNCHANGED touched

\* GET /machines with the filters find_machine_by_fingerprint sends.
ServeList(c) ==
    /\ request[c].op = "list"
    /\ LET S == Hits(args[c].license, args[c].fingerprint)
           n == request[c].number
       IN  Answer(c, [op |-> "page", items |-> PageOf(S, n),
                      more |-> MorePages(S, n)])
    /\ UNCHANGED serverVars

\* POST /licenses/{id}/actions/validate.
ServeValidate(c) ==
    /\ request[c].op = "validate"
    /\ \E code \in Verdicts(args[c].license) :
           Answer(c, [op |-> "verdict", code |-> code])
    /\ touched' = IF request[c].skipTouch THEN touched ELSE touched \cup {c}
    /\ UNCHANGED <<machines, nextId>>

\* DELETE /machines/{id}: 204, or 404 when the row is gone already.  The
\* client discards the difference.
ServeDelete(c) ==
    /\ request[c].op = "delete"
    /\ machines' = machines \ {request[c].row}
    /\ Answer(c, [op |-> "deleted"])
    /\ UNCHANGED <<nextId, touched>>

Serve(c) == ServeCreate(c) \/ ServeList(c) \/ ServeValidate(c) \/ ServeDelete(c)

\* An operator's delete_machine, or the cull of a dead machine.
Evict(m) ==
    /\ machines' = machines \ {m}
    /\ UNCHANGED <<nextId, touched, pc, callVars, outcome, request, reply>>

-----------------------------------------------------------------------------
(* The client.                                                             *)

\* Consume the answer and send the next request.
Continue(c, where, r) ==
    /\ pc' = [pc EXCEPT ![c] = where]
    /\ request' = [request EXCEPT ![c] = r]
    /\ reply' = [reply EXCEPT ![c] = NoMsg]
    /\ UNCHANGED <<serverVars, args>>

\* Return to the caller.  A request still on the wire stays there.
Return(c, result) ==
    /\ pc' = [pc EXCEPT ![c] = "done"]
    /\ outcome' = [outcome EXCEPT ![c] = result]
    /\ reply' = [reply EXCEPT ![c] = NoMsg]
    /\ UNCHANGED <<serverVars, callVars, request>>

\* Both methods open with create_machine.
Start(c) ==
    /\ pc[c] = "idle"
    /\ \E a \in Args : args' = [args EXCEPT ![c] = a]
    /\ pc' = [pc EXCEPT ![c] = "creating"]
    /\ request' = [request EXCEPT ![c] = Create]
    /\ UNCHANGED <<serverVars, machine, reused, number, horizon, outcome, reply>>

\* Mutant of CreateSucceeded: the created row is not remembered.
CreateSucceededForgets(c) ==
    /\ pc[c] = "creating" /\ reply[c].op = "created"
    /\ Continue(c, "validating", Validate(FALSE))
    /\ UNCHANGED <<machine, reused, number, horizon, outcome>>

CreateSucceeded(c) ==
    /\ pc[c] = "creating" /\ reply[c].op = "created"
    /\ machine' = [machine EXCEPT ![c] = reply[c].row]
    /\ Continue(c, "validating", Validate(FALSE))
    /\ UNCHANGED <<reused, number, horizon, outcome>>

\* 409 FINGERPRINT_TAKEN, activate_machine: the error propagates.
TakenPropagates(c) ==
    /\ pc[c] = "creating" /\ reply[c].op = "taken"
    /\ ~args[c].idempotent
    /\ Return(c, "taken")

\* Mutant of TakenSearches: the search starts one page too far.
TakenSearchesFromPageTwo(c) ==
    /\ pc[c] = "creating" /\ reply[c].op = "taken"
    /\ args[c].idempotent
    /\ number' = [number EXCEPT ![c] = 1]
    /\ horizon' = [horizon EXCEPT ![c] = nextId]
    /\ Continue(c, "searching", List(2))
    /\ UNCHANGED <<machine, reused, outcome>>

\* 409 FINGERPRINT_TAKEN, activate_machine_idempotent: search this licence.
TakenSearches(c) ==
    /\ pc[c] = "creating" /\ reply[c].op = "taken"
    /\ args[c].idempotent
    /\ number' = [number EXCEPT ![c] = 1]
    /\ horizon' = [horizon EXCEPT ![c] = nextId]
    /\ Continue(c, "searching", List(1))
    /\ UNCHANGED <<machine, reused, outcome>>

\* Mutant of CreateRefused: the probe is an ordinary validate.
CreateRefusedTouches(c) ==
    /\ pc[c] = "creating" /\ reply[c].op = "limit"
    /\ Continue(c, "probing", Validate(FALSE))
    /\ UNCHANGED <<machine, reused, number, horizon, outcome>>

\* 422 limit: over_limit_result_without_machine probes without a touch.
CreateRefused(c) ==
    /\ pc[c] = "creating" /\ reply[c].op = "limit"
    /\ Continue(c, "probing", Validate(TRUE))
    /\ UNCHANGED <<machine, reused, number, horizon, outcome>>

\* The exact match find_machine_by_fingerprint makes on the page it read.
Matches(c) == {m \in reply[c].items : m.fingerprint = args[c].fingerprint}

SearchHit(c) ==
    /\ pc[c] = "searching" /\ reply[c].op = "page"
    /\ \E m \in Matches(c) :
          /\ \A x \in Matches(c) : m.id <= x.id
          /\ machine' = [machine EXCEPT ![c] = m]
    /\ reused' = [reused EXCEPT ![c] = TRUE]
    /\ Continue(c, "validating", Validate(FALSE))
    /\ UNCHANGED <<number, horizon, outcome>>

\* Mutant of SearchNextPage: the page number does not advance.
SearchSamePage(c) ==
    /\ pc[c] = "searching" /\ reply[c].op = "page"
    /\ Matches(c) = {} /\ reply[c].more
    /\ Continue(c, "searching", List(number[c]))
    /\ UNCHANGED <<machine, reused, number, horizon, outcome>>

SearchNextPage(c) ==
    /\ pc[c] = "searching" /\ reply[c].op = "page"
    /\ Matches(c) = {} /\ reply[c].more
    /\ number' = [number EXCEPT ![c] = @ + 1]
    /\ Continue(c, "searching", List(number[c] + 1))
    /\ UNCHANGED <<machine, reused, horizon, outcome>>

\* Not on this licence: the original 409 propagates.
SearchMiss(c) ==
    /\ pc[c] = "searching" /\ reply[c].op = "page"
    /\ Matches(c) = {} /\ ~reply[c].more
    /\ Return(c, "taken")

\* The refusal is reported in the shape of an over-limit verdict.
Probed(c) ==
    /\ pc[c] = "probing" /\ reply[c].op = "verdict"
    /\ Return(c, "refused")

IsOverage(code) == code \in OverageCodes

\* Mutants of RollsBack: adopted rows are rolled back too; only the
\* idempotent method rolls back.
RollsBackAdopted(c, code) == args[c].autoDelete /\ IsOverage(code)
RollsBackIdempotentOnly(c, code) ==
    args[c].idempotent /\ args[c].autoDelete /\ ~reused[c] /\ IsOverage(code)

\* Only a row this call created is its to roll back.
RollsBack(c, code) == args[c].autoDelete /\ ~reused[c] /\ IsOverage(code)

\* Mutant of Verdict: an over-limit code is taken for a success.
VerdictIgnoresOverage(code) == IF code = "OTHER" THEN "invalid" ELSE "valid"

Verdict(code) ==
    IF code = "VALID" THEN "valid" ELSE IF IsOverage(code) THEN "over" ELSE "invalid"

ValidatedKeeps(c) ==
    /\ pc[c] = "validating" /\ reply[c].op = "verdict"
    /\ ~RollsBack(c, reply[c].code)
    /\ Return(c, Verdict(reply[c].code))

\* Mutant of ValidatedRollsBack: the rollback is reported but never sent.
ValidatedReportsOnly(c) ==
    /\ pc[c] = "validating" /\ reply[c].op = "verdict"
    /\ RollsBack(c, reply[c].code)
    /\ Return(c, "rolledBack")

ValidatedRollsBack(c) ==
    /\ pc[c] = "validating" /\ reply[c].op = "verdict"
    /\ RollsBack(c, reply[c].code)
    /\ Continue(c, "rollingBack", Delete(machine[c]))
    /\ UNCHANGED <<machine, reused, number, horizon, outcome>>

RolledBack(c) ==
    /\ pc[c] = "rollingBack" /\ reply[c].op = "deleted"
    /\ Return(c, "rolledBack")

\* What a failed request turns the call into: a failed probe yields the
\* create error, a failed rollback is swallowed, the rest propagate.
FailureOutcome(c) ==
    CASE pc[c] = "probing"     -> "limitError"
      [] pc[c] = "rollingBack" -> "rollbackUnconfirmed"
      [] OTHER                 -> "error"

\* The current request yields an Err: a transport error or a timeout, a 429
\* past the retry budget, an undecodable body, or an API error other than
\* FINGERPRINT_TAKEN and the limit codes.  The server may have served the
\* request, may serve it yet, or may never see it.
RequestFails(c) ==
    /\ pc[c] \in Waiting
    /\ Return(c, FailureOutcome(c))

\* The caller drops the future at an await point.
Cancel(c) ==
    /\ pc[c] \in Waiting
    /\ pc' = [pc EXCEPT ![c] = "cancelled"]
    /\ reply' = [reply EXCEPT ![c] = NoMsg]
    /\ UNCHANGED <<serverVars, callVars, outcome, request>>

HandleReply(c) ==
    \/ CreateSucceeded(c) \/ TakenPropagates(c) \/ TakenSearches(c)
    \/ CreateRefused(c) \/ SearchHit(c) \/ SearchNextPage(c) \/ SearchMiss(c)
    \/ Probed(c) \/ ValidatedKeeps(c) \/ ValidatedRollsBack(c) \/ RolledBack(c)

-----------------------------------------------------------------------------
Init ==
    /\ machines = Installed
    /\ nextId = Cardinality(Installed) + 1
    /\ touched = {}
    /\ pc = [c \in Calls |-> "idle"]
    /\ args \in [Calls -> {CHOOSE a \in Args : TRUE}]
    /\ machine = [c \in Calls |-> NoRow]
    /\ reused = [c \in Calls |-> FALSE]
    /\ number = [c \in Calls |-> 0]
    /\ horizon = [c \in Calls |-> 0]
    /\ outcome = [c \in Calls |-> "pending"]
    /\ request = [c \in Calls |-> NoMsg]
    /\ reply = [c \in Calls |-> NoMsg]

Next ==
    \/ \E c \in Calls : Start(c) \/ Serve(c) \/ HandleReply(c)
                        \/ RequestFails(c) \/ Cancel(c)
    \/ \E m \in machines : Evict(m)

Spec == Init /\ [][Next]_vars

\* The server answers or the request times out (ClientConfig::timeout), and
\* a client task that has an answer runs.
Fairness == \A c \in Calls : /\ WF_vars(pc[c] \in Waiting /\ (Serve(c) \/ RequestFails(c)))
                             /\ WF_vars(HandleReply(c))

FairSpec == Spec /\ Fairness
-----------------------------------------------------------------------------
(* Properties.                                                             *)

\* Every variable stays in its range: messages, rows and call states are the
\* ones the flows of client.rs can produce.
TypeOK ==
    /\ machines \subseteq Row
    /\ nextId \in Nat \ {0}
    /\ touched \subseteq Calls
    /\ pc \in [Calls -> Waiting \cup {"idle", "done", "cancelled"}]
    /\ args \in [Calls -> Args]
    /\ machine \in [Calls -> Row \cup {NoRow}]
    /\ reused \in [Calls -> BOOLEAN]
    /\ number \in [Calls -> Nat]
    /\ horizon \in [Calls -> Nat]
    /\ outcome \in [Calls -> Outcomes]
    /\ request \in [Calls -> Request]
    /\ reply \in [Calls -> Reply]

\* "Only a row this call created is ours to roll back": whatever the other
\* calls, evictions and late answers do, a DELETE on the wire names a row its
\* sender created, and its sender asked for auto_delete_on_overage.
RollsBackOnlyItsOwn ==
    \A c \in Calls : request[c].op = "delete" =>
        /\ request[c].row.by = c
        /\ args[c].autoDelete

\* find_machine_by_fingerprint is scoped: an adopted machine carries the
\* caller's fingerprint, is on the caller's licence even where the conflict
\* reaches other licences, and was created by some other call.
AdoptsOwnLicenceOnly ==
    \A c \in Calls : reused[c] =>
        /\ machine[c] # NoRow
        /\ machine[c].license = args[c].license
        /\ machine[c].fingerprint = args[c].fingerprint
        /\ machine[c].by # c

\* A create the server refused leaves no trace: the call created no row,
\* sends no DELETE and its probe writes no last_validated_at, whether the
\* probe itself succeeds or fails.
RefusalLeavesNoTrace ==
    \A c \in Calls : outcome[c] \in {"refused", "limitError"} =>
        /\ c \notin touched
        /\ \A m \in machines : m.by # c
        /\ request[c].op # "delete"

\* "None means no machine survives this call": after a refusal, or a rollback
\* whose DELETE was answered, the server holds no row this call created.
NoneMeansNoMachine ==
    \A c \in Calls : outcome[c] \in {"refused", "rolledBack"} =>
        \A m \in machines : m.by # c

\* The rows of a licence whose activation was told VALID.
Confirmed(l) ==
    {m \in OnLicense(l) : \E c \in Calls : machine[c] = m /\ outcome[c] = "valid"}

\* However many calls race for the last seats, at most Seats[l] machines of a
\* licence hold a VALID verdict: each call validates only after its row is in
\* place, so the verdict has already counted it.
ConfirmedWithinSeats ==
    \A l \in Licenses : Cardinality(Confirmed(l)) <= Seats[l]

\* The row is there because it is older than every call, or its call has not
\* finished, did not learn of the row, was told something other than
\* over-limit, or did not want a rollback.
Excused(m) ==
    \/ m.by = Earlier
    \/ pc[m.by] # "done"
    \/ outcome[m.by] \in {"error", "invalid", "rollbackUnconfirmed"}
    \/ ~args[m.by].autoDelete

\* auto_delete_on_overage "rejects over-limit activation": a licence over its
\* seats always has a row whose call is unfinished, failed part-way, got an
\* unrelated verdict or never asked for the rollback.
OverrunIsExcused ==
    \A l \in Licenses : Cardinality(OnLicense(l)) > Seats[l] =>
        \E m \in OnLicense(l) : Excused(m)

\* "A licence-scoped search never misses a genuine re-activation": when an
\* idempotent call returns the 409, no row with its fingerprint has stood on
\* its licence since before the search (ids are never reused, so a row below
\* the horizon that stands now stood throughout).
SearchNeverMisses ==
    \A c \in Calls : outcome[c] = "taken" /\ args[c].idempotent =>
        ~ \E m \in machines : /\ m.id < horizon[c]
                              /\ m.license = args[c].license
                              /\ m.fingerprint = args[c].fingerprint

\* "auto_delete_on_overage never deletes an adopted machine": no rollback on
\* the wire names a machine another call has adopted.
AdoptedNeverRolledBack ==
    \A c, d \in Calls : reused[c] /\ request[d].op = "delete" =>
        request[d].row # machine[c]

\* A call that starts returns, unless its caller drops it: the search's page
\* loop ends although rows come and go between its pages.
EveryCallReturns ==
    \A c \in Calls : pc[c] = "creating" ~> pc[c] \in {"done", "cancelled"}
-----------------------------------------------------------------------------
(* An activation is one claim (SeatClaims): its effects are those of the   *)
(* server's steps, whenever the client learns of them.                     *)

\* A page on its way to the call shows what it will adopt.
Shown(c) == pc[c] = "searching" /\ reply[c].op = "page" /\ Matches(c) # {}
ToAdopt(c) == CHOOSE m \in Matches(c) : \A x \in Matches(c) : m.id <= x.id

stage == [c \in Calls |->
    IF pc[c] \in Waiting THEN "open" ELSE IF pc[c] = "done" THEN outcome[c] ELSE pc[c]]

due == [c \in Calls |->
    IF request[c].op = "create" THEN "take"
    ELSE IF request[c].op = "delete" THEN "giveBack"
    ELSE IF \/ pc[c] = "creating" /\ reply[c].op = "taken"
            \/ pc[c] = "searching" /\ ~Shown(c) THEN "conflict"
    ELSE IF \/ pc[c] = "creating" /\ reply[c].op = "limit"
            \/ pc[c] = "probing" THEN "full"
    ELSE "nothing"]

ruling == [c \in Calls |->
    IF pc[c] = "validating" /\ reply[c].op = "verdict" THEN Verdict(reply[c].code)
    ELSE IF pc[c] = "rollingBack" THEN "undone" ELSE "none"]

seat == [c \in Calls |->
    IF pc[c] = "creating" /\ reply[c].op = "created" THEN reply[c].row
    ELSE IF Shown(c) THEN ToAdopt(c)
    ELSE IF pc[c] \in Waiting \/ outcome[c] \in {"valid", "invalid", "over"}
         THEN machine[c] ELSE NoRow]

Claims == INSTANCE SeatClaims
    WITH rows <- machines, SideRulings <- {Verdict(code) : code \in SideCodes}

\* Whatever the interleaving, a call is a claim: the row it creates, the row
\* it adopts, the verdict that counted it and the rollback are single steps
\* at the server, each at most once, and the caller is told what came of
\* them: after a refusal or a confirmed rollback no step of the call is left
\* that could touch a row.
ActivationIsAClaim == Claims!Spec
=============================================================================
