-------------------------------- MODULE Calls --------------------------------
(***************************************************************************)
(* One call of a Client method, end to end: the loop of Retry carries the  *)
(* method's request, the server's handler acts on the row the request      *)
(* names, and the method turns what comes back into its result.            *)
(***************************************************************************)
EXTENDS Retry, Endpoints

CONSTANTS
    Positions,      \* where the wanted entitlement may stand in the list, 0: nowhere
    Limits          \* the page sizes a caller of has_entitlement may ask for, 0: None

ASSUME CallsAssumption == Positions \subseteq Nat /\ Limits \subseteq Nat

VARIABLES
    endpoint,   \* the Client method
    row,        \* does the row the request names exist?
    taken,      \* is the identity a create asks for in use?
    commits,    \* times the handler's effect took place (history)
    answer,     \* what the handler answered the waiting call (history)
    outcome,    \* what the method returned
    sought,     \* has_entitlement: where the wanted code stands
    limit       \* has_entitlement: the caller's page size

callsVars == <<vars, endpoint, row, taken, commits, answer, outcome, sought, limit>>

request == Requests[endpoint]
RouteOf(r) == [method |-> r.method, action |-> r.action]

-----------------------------------------------------------------------------
(* The entitlement listing.                                                *)

MAX_ENTITLEMENTS_PAGE_SIZE == 100
DEFAULT_SERVER_PAGE_SIZE == 25

\* Mutant of WireLimit: no limit is left to the server's default page.
WireLimitUnstated(l) == IF l = 0 THEN DEFAULT_SERVER_PAGE_SIZE ELSE l

\* The limit has_entitlement puts on the wire.
WireLimit(l) == IF l = 0 THEN MAX_ENTITLEMENTS_PAGE_SIZE ELSE l

\* The server's page holds the wanted code.
OnPage == sought # 0 /\ sought <= Lesser(WireLimit(limit), MAX_ENTITLEMENTS_PAGE_SIZE)

-----------------------------------------------------------------------------
(* Answers.                                                                *)

NoAnswer     == [kind |-> "none"]
Success(b)   == [kind |-> "success", body |-> b]
NothingOffered == [kind |-> "204"]
Error(form, code, status) == [kind |-> "error", form |-> form, code |-> code, status |-> status]

StatusOf(code) == IF code = "NOT_FOUND" THEN 404 ELSE 422
Refused(code) == {Error(form, code, StatusOf(code)) : form \in Forms \cup {"noErrors"}}

\* A crash of the handler, and pages of a proxy that lost or never had it.
Breakages == {Error("full", "INTERNAL_SERVER_ERROR", 500)}
             \cup {Error("malformed", "UNKNOWN", status) : status \in {404, 502}}

Answers == [e \in DOMAIN Requests |->
    {Success(b) : b \in BodiesOf(Requests[e].reply)} \cup {NothingOffered}
        \cup (UNION {Refused(code) : code \in Codes}) \cup Breakages]

Ok(value) == [variant |-> "Ok", value |-> value]

\* What the method makes of the answer.  A body that does not decode is
\* reqwest's error, hence Http.
Hear(r, a) ==
    CASE a.kind = "error"   -> ApiError(a.form, a.code, a.status)
      [] a.kind = "204"     -> Ok("NoUpdateOffered")
      [] a.kind = "success" ->
            IF ~Decodes(r.reply, a.body) THEN Http
            ELSE IF endpoint # "has_entitlement" THEN Ok("reply")
            ELSE IF OnPage THEN Ok("held") ELSE Ok("absent")

-----------------------------------------------------------------------------
(* The handler.                                                            *)

\* The effect of a success on the rows.
Commit ==
    /\ commits' = IF request.effect = "none" THEN commits ELSE commits + 1
    /\ taken' = (taken \/ request.effect = "create")
    /\ row' = (row /\ request.effect # "delete")

Untouched == UNCHANGED <<row, taken, commits>>

Refuses(a) ==
    /\ Untouched
    /\ \/ endpoint \notin Anonymous /\ \E code \in GateCodes : a \in Refused(code)
       \/ endpoint \notin Unnamed /\ ~row /\ a \in Refused("NOT_FOUND")
       \/ row /\ taken /\ endpoint \in DOMAIN ConflictCode
              /\ a \in Refused(ConflictCode[endpoint])
       \/ row /\ \E code \in request.refusals : a \in Refused(code)

Succeeds(a) ==
    /\ row /\ ~taken
    /\ Commit
    /\ a.kind = "success" \/ (endpoint \in Offers /\ a = NothingOffered)

Breaks(a) ==
    /\ a \in Breakages
    /\ Untouched \/ (row /\ ~taken /\ Commit)

Handle(a) == Refuses(a) \/ Succeeds(a) \/ Breaks(a)

-----------------------------------------------------------------------------
(* The steps of Retry, with what they mean to the call.                    *)

Given == UNCHANGED <<endpoint, sought, limit>>
Unanswered == UNCHANGED <<answer, outcome>>

CallsServe ==
    /\ Serve /\ Given
    /\ \E a \in Answers[endpoint] :
        /\ Handle(a)
        /\ answer' = IF pc = "waiting" THEN a ELSE answer
    /\ UNCHANGED outcome

CallsThrottle == Throttle /\ Given /\ Unanswered /\ Untouched

CallsThrottleLate ==
    /\ ThrottleLate /\ Given /\ Unanswered
    /\ Untouched \/ (row /\ ~taken /\ Commit)

\* Somebody else deletes the row.
RowRemoved ==
    /\ endpoint \notin Unnamed /\ row /\ row' = FALSE
    /\ UNCHANGED <<vars, taken, commits>> /\ Given /\ Unanswered

CallsSend == Send /\ Given /\ Unanswered /\ Untouched

CallsReceiveResponse ==
    /\ ReceiveResponse /\ Given /\ Untouched
    /\ outcome' = Hear(request, answer)
    /\ UNCHANGED answer

CallsGivesUp ==
    /\ ReceiveThrottledGivesUp /\ Given /\ Untouched
    /\ outcome' = RateLimited(ParseRetryAfter(wire.header))
    /\ UNCHANGED answer

CallsSleeps == ReceiveThrottledSleeps /\ Given /\ Unanswered /\ Untouched
CallsWake == Wake /\ Given /\ Unanswered /\ Untouched

CallsTransportFails ==
    /\ TransportFails /\ Given /\ Untouched
    /\ outcome' = Http
    /\ UNCHANGED answer

CallsCancel == Cancel /\ Given /\ Unanswered /\ Untouched

-----------------------------------------------------------------------------
Pending == [variant |-> "pending"]

CallsInit ==
    /\ Init
    /\ endpoint \in DOMAIN Requests /\ route = RouteOf(request)
    /\ row \in (IF endpoint \notin Unnamed THEN BOOLEAN ELSE {TRUE})
    /\ taken \in (IF request.effect = "create" THEN BOOLEAN ELSE {FALSE})
    /\ commits = 0
    /\ answer = NoAnswer /\ outcome = Pending
    /\ IF endpoint = "has_entitlement"
       THEN sought \in Positions /\ limit \in Limits
       ELSE sought = 0 /\ limit = 0

CallsClient == CallsSend \/ CallsReceiveResponse \/ CallsGivesUp \/ CallsSleeps \/ CallsWake
CallsServer == CallsServe \/ CallsThrottle \/ CallsThrottleLate

CallsNext ==
    \/ CallsClient \/ CallsServer \/ CallsTransportFails \/ CallsCancel
    \/ RowRemoved

CallsSpec == CallsInit /\ [][CallsNext]_callsVars

\* As in Retry: the sleeps end, and each send is answered or runs into
\* ClientConfig::timeout.
CallsFairSpec ==
    /\ CallsSpec
    /\ WF_callsVars(CallsClient)
    /\ WF_callsVars(pc = "waiting" /\ (CallsServer \/ CallsTransportFails))

-----------------------------------------------------------------------------
(* Properties.                                                             *)

\* Every variable stays in its range.
CallsTypeOK ==
    /\ TypeOK
    /\ endpoint \in DOMAIN Requests /\ route = RouteOf(request)
    /\ row \in BOOLEAN /\ taken \in BOOLEAN
    /\ commits \in Nat
    /\ answer \in Answers[endpoint] \cup {NoAnswer}
    /\ outcome.variant \in TamgaError \cup {"Ok", "pending"}
    /\ sought \in Positions \cup {0} /\ limit \in Limits \cup {0}

\* What an answer of the API itself, and not of a crash or a proxy, says.
Definite(code) == code \notin {NoCode, "UNKNOWN", "INTERNAL_SERVER_ERROR"}

\* Creates, counters and deletes are not repeated behind the caller's back,
\* so what the method says is exact: a success means the effect took place
\* once, a refusal (a taken fingerprint, a limit, a spent meter) that it did
\* not take place at all, never that an earlier try of the same call won.
UnsafeAnswerIsExact ==
    Unsafe(route) =>
        /\ outcome.variant = "Ok" => commits = (IF request.effect = "none" THEN 0 ELSE 1)
        /\ Definite(CodeOf(outcome)) => commits = 0

\* TamgaError::NotFound, which ends the heartbeat loop and counts as deleted
\* in the process clean-up, means that the row is gone: not that a proxy or a
\* half-written document came back with status 404.
GoneMeansGone == outcome.variant = "NotFound" => ~row

\* Growth a client must outlive: fields it does not know and values it does
\* not know, but for the one enum that is strict by design.
Growth(b) == b.drift \in {"none", "extended"}
             \/ (b.drift = "novel" /\ b.field # "check_in_interval")

\* The caller learns what the server said, however old or new the server is:
\* the code of an error document that has one, the limit it stands for, and
\* a success that only grew is never reported as a failure of a call whose
\* effect has taken place.
AnswerIsHeard ==
    result = "response" =>
        /\ answer.kind = "error" /\ answer.form \in {"full", "numericStatus", "bare"} =>
              /\ CodeOf(outcome) = answer.code
              /\ answer.code \in DOMAIN VariantOf => outcome.variant = VariantOf[answer.code]
              /\ LimitExceeded(outcome) <=> answer.code \in LimitExceededCode
        /\ answer.kind = "success" /\ Growth(answer.body) => outcome.variant = "Ok"

\* has_entitlement without a page size of the caller's answers for the whole
\* first page the server can give: absent is not just unseen.
AbsentIsAuthoritative ==
    outcome = Ok("absent") /\ limit = 0 => sought \notin 1..MAX_ENTITLEMENTS_PAGE_SIZE
=============================================================================
