----------------------------- MODULE CallsProofs -----------------------------
(***************************************************************************)
(* What Calls guarantees for every retry budget, set of Retry-After        *)
(* values, entitlement listing and either kind of throttling, on every     *)
(* request of the client.  Calls implements Retry, whose theorems carry    *)
(* over.                                                                   *)
(***************************************************************************)
EXTENDS Calls, RetryProofs

-----------------------------------------------------------------------------
(* The structs: check_in_interval is the only strict enum of the wire.     *)

\* No enum of the struct is strict.
AllOpen(struct) == struct.closed = {}

\* A struct written out closes what it says.
LEMMA StructCloses ==
    ASSUME NEW r, NEW p, NEW o, NEW c
    PROVE  Struct(r, p, o, c).closed = c
BY DEF Struct

\* Joining structs closes no field that was not closed before.
LEMMA JoinedCloses ==
    ASSUME NEW a, NEW b
    PROVE  Joined(a, b).closed = a.closed \cup b.closed
BY DEF Joined

\* Neither the resource wrapper nor the envelope closes a field.
LEMMA WrappedCloses ==
    ASSUME NEW a
    PROVE  Resource(a).closed = a.closed /\ Enveloped(a).closed = a.closed
<1>1. ASSUME NEW fields PROVE Joined(Struct(fields, {}, {}, {}), a).closed = a.closed
  <2> DEFINE wrapper == Struct(fields, {}, {}, {})
  <2>1. wrapper.closed = {}
    BY StructCloses
  <2>2. Joined(wrapper, a).closed = wrapper.closed \cup a.closed
    BY JoinedCloses
  <2>3. {} \cup a.closed = a.closed
    OBVIOUS
  <2> QED BY <2>1, <2>2, <2>3, Zenon
<1> QED BY <1>1, Zenon DEF Resource, Enveloped

\* The operators the structs are built with keep all enums open.
LEMMA OpennessIsKept ==
    /\ \A r, p, o : AllOpen(Struct(r, p, o, {}))
    /\ \A a, b : AllOpen(a) /\ AllOpen(b) => AllOpen(Joined(a, b))
    /\ \A a : AllOpen(a) => AllOpen(Resource(a))
<1>1. ASSUME NEW r, NEW p, NEW o PROVE AllOpen(Struct(r, p, o, {}))
  BY StructCloses DEF AllOpen
<1>2. ASSUME NEW a, NEW b, AllOpen(a), AllOpen(b) PROVE AllOpen(Joined(a, b))
  BY <1>2, JoinedCloses DEF AllOpen
<1>3. ASSUME NEW a, AllOpen(a) PROVE AllOpen(Resource(a))
  BY <1>3, WrappedCloses DEF AllOpen
<1> QED BY <1>1, <1>2, <1>3

\* What the client decodes is open, but for a policy.
LEMMA RepliesAreOpen ==
    /\ AllOpen(LicenseResource)
    /\ AllOpen(ValidationMeta)
    /\ AllOpen(ValidationResult)
    /\ AllOpen(MachineResource)
    /\ AllOpen(MachineWithProof)
    /\ AllOpen(OffsetPage)
    /\ AllOpen(ComponentResource)
    /\ AllOpen(ProcessResource)
    /\ AllOpen(EntitlementResource)
    /\ AllOpen(LicenseEntitlement)
    /\ AllOpen(LicenseFileResource)
    /\ AllOpen(MachineFileResource)
    /\ AllOpen(SigningKeyResource)
    /\ AllOpen(ReleaseResource)
    /\ AllOpen(ArtifactResource)
    /\ AllOpen(HealthStatus)
<1>1. AllOpen(LicenseResource)
  BY OpennessIsKept, Zenon DEF LicenseResource
<1>2. AllOpen(ValidationMeta)
  BY OpennessIsKept, Zenon DEF ValidationMeta
<1>3. AllOpen(ValidationResult)
  BY OpennessIsKept, <1>1, <1>2, Zenon DEF ValidationResult
<1>4. AllOpen(MachineResource)
  BY OpennessIsKept, Zenon DEF MachineResource, HeartbeatStatus
<1>5. AllOpen(MachineWithProof)
  BY OpennessIsKept, <1>4, Zenon DEF MachineWithProof
<1>6. AllOpen(OffsetPage)
  BY OpennessIsKept, <1>4, Zenon DEF OffsetPage
<1>7. AllOpen(ComponentResource)
  BY OpennessIsKept, Zenon DEF ComponentResource
<1>8. AllOpen(ProcessResource)
  BY OpennessIsKept, Zenon DEF ProcessResource
<1>9. AllOpen(EntitlementResource)
  BY OpennessIsKept, Zenon DEF EntitlementResource, EntitlementKind
<1>10. AllOpen(LicenseEntitlement)
  BY OpennessIsKept, <1>9, Zenon DEF LicenseEntitlement
<1>11. AllOpen(LicenseFileResource)
  BY OpennessIsKept, Zenon DEF LicenseFileResource
<1>12. AllOpen(MachineFileResource)
  BY OpennessIsKept, Zenon DEF MachineFileResource
<1>13. AllOpen(SigningKeyResource)
  BY OpennessIsKept, Zenon DEF SigningKeyResource
<1>14. AllOpen(ReleaseResource)
  BY OpennessIsKept, Zenon DEF ReleaseResource
<1>15. AllOpen(ArtifactResource)
  BY OpennessIsKept, Zenon DEF ArtifactResource
<1>16. AllOpen(HealthStatus)
  BY OpennessIsKept, Zenon DEF HealthStatus
<1> QED BY <1>1, <1>2, <1>3, <1>4, <1>5, <1>6, <1>7, <1>8,
          <1>9, <1>10, <1>11, <1>12, <1>13, <1>14, <1>15, <1>16

\* A policy closes check_in_interval and nothing else.
LEMMA PolicyCloses == Policy.closed = {"check_in_interval"}
<1>1. CheckInInterval.closed = {"check_in_interval"}
  BY StructCloses DEF CheckInInterval
<1>2. PolicyAttributes.closed = {}
  BY StructCloses, Zenon DEF PolicyAttributes
<1>3. Joined(CheckInInterval, PolicyAttributes).closed
        = CheckInInterval.closed \cup PolicyAttributes.closed
  BY JoinedCloses, Zenon
<1>4. Policy.closed = Joined(CheckInInterval, PolicyAttributes).closed
  BY WrappedCloses, Zenon DEF Policy
<1>5. {"check_in_interval"} \cup {} = {"check_in_interval"}
  OBVIOUS
<1>6. Joined(CheckInInterval, PolicyAttributes).closed = {"check_in_interval"} \cup {}
  BY <1>1, <1>2, <1>3, Zenon
<1> QED BY <1>4, <1>5, <1>6, Zenon

-----------------------------------------------------------------------------
(* The table of requests.                                                  *)

\* What every request of the client has in common.
WellFormed(r) ==
    /\ RouteOf(r) \in Routes
    /\ r.effect \in {"none", "write", "create", "count", "delete"}
    /\ "NOT_FOUND" \notin r.refusals
    /\ r.reply.closed \subseteq {"check_in_interval"}

\* A request is well formed if its parts are.
LEMMA RequestIsWellFormed ==
    ASSUME NEW method, NEW action, [method |-> method, action |-> action] \in Routes,
           NEW effect \in {"none", "write", "create", "count", "delete"},
           NEW reply, reply.closed \subseteq {"check_in_interval"},
           NEW refusals, "NOT_FOUND" \notin refusals
    PROVE  /\ WellFormed(Request(method, action, effect, reply, refusals))
           /\ WellFormed(JsonApi(method, action, effect, reply, refusals))
<1>1. Enveloped(reply).closed \subseteq {"check_in_interval"}
  BY WrappedCloses
<1> QED BY <1>1 DEF WellFormed, JsonApi, Request, RouteOf

\* The routes of the table.
LEMMA RoutesOfTable ==
    /\ \A a \in {"none", "validate", "check-out", "upgrade", "download"} :
          [method |-> "GET", action |-> a] \in Routes
    /\ \A a \in RetryableActions \cup OtherActions \cup {"none"} :
          [method |-> "POST", action |-> a] \in Routes
    /\ [method |-> "PATCH", action |-> "none"] \in Routes
    /\ [method |-> "DELETE", action |-> "none"] \in Routes
BY DEF Routes

\* The handlers' own refusals never say that the row is missing.
LEMMA RefusalsNameNoRow ==
    "NOT_FOUND" \notin LicenseCheckoutRefusals \cup MachineCheckoutRefusals
                       \cup (LimitExceededCode \ {"TOO_MANY_PROCESSES"}) \cup GateCodes
BY DEF LicenseCheckoutRefusals, MachineCheckoutRefusals, LimitExceededCode,
       AsValidationCode, GateCodes, LicenseAuthCode

\* Every request of the table is well formed.
LEMMA TableIsWellFormed == \A e \in DOMAIN Requests : WellFormed(Requests[e])
<1> USE RoutesOfTable, RefusalsNameNoRow, RepliesAreOpen, PolicyCloses, StructCloses,
        RequestIsWellFormed
    DEF AllOpen, RetryableActions, OtherActions
<1>1. WellFormed(validate_by_key)
  BY DEF validate_by_key
<1>2. WellFormed(validate_by_id)
  BY DEF validate_by_id
<1>3. WellFormed(quick_validate)
  BY DEF quick_validate, Flat
<1>4. WellFormed(get_license)
  BY DEF get_license
<1>5. WellFormed(get_policy)
  BY DEF get_policy
<1>6. WellFormed(get_license_policy)
  BY DEF get_license_policy
<1>7. WellFormed(check_in)
  BY DEF check_in
<1>8. WellFormed(check_out_license)
  BY DEF check_out_license, Text
<1>9. WellFormed(check_out_license_json)
  BY DEF check_out_license_json
<1>10. WellFormed(get_machine)
  BY DEF get_machine
<1>11. WellFormed(list_machines)
  BY DEF list_machines
<1>12. WellFormed(update_machine)
  BY DEF update_machine
<1>13. WellFormed(delete_machine)
  BY DEF delete_machine, Text
<1>14. WellFormed(create_machine)
  BY DEF create_machine
<1>15. WellFormed(ping_heartbeat)
  BY DEF ping_heartbeat
<1>16. WellFormed(reset_heartbeat)
  BY DEF reset_heartbeat
<1>17. WellFormed(check_out_machine)
  BY DEF check_out_machine, Text
<1>18. WellFormed(check_out_machine_json)
  BY DEF check_out_machine_json
<1>19. WellFormed(generate_offline_proof)
  BY DEF generate_offline_proof
<1>20. WellFormed(list_components)
  BY DEF list_components
<1>21. WellFormed(create_component)
  BY DEF create_component
<1>22. WellFormed(list_machine_processes)
  BY DEF list_machine_processes
<1>23. WellFormed(create_process)
  BY DEF create_process
<1>24. WellFormed(ping_process)
  BY DEF ping_process
<1>25. WellFormed(delete_process)
  BY DEF delete_process, Text
<1>26. WellFormed(list_entitlements)
  BY DEF list_entitlements
<1>27. WellFormed(list_license_entitlements)
  BY DEF list_license_entitlements
<1>28. WellFormed(get_entitlement)
  BY DEF get_entitlement
<1>29. WellFormed(has_entitlement)
  BY DEF has_entitlement, list_entitlements
<1>30. WellFormed(increment_entitlement_usage)
  BY DEF increment_entitlement_usage
<1>31. WellFormed(decrement_entitlement_usage)
  BY DEF decrement_entitlement_usage
<1>32. WellFormed(reset_entitlement_usage)
  BY DEF reset_entitlement_usage
<1>33. WellFormed(list_signing_keys)
  BY DEF list_signing_keys
<1>34. WellFormed(check_for_upgrade)
  BY DEF check_for_upgrade
<1>35. WellFormed(list_release_artifacts)
  BY DEF list_release_artifacts
<1>36. WellFormed(get_artifact)
  BY DEF get_artifact
<1>37. WellFormed(artifact_download_url)
  BY DEF artifact_download_url
<1>38. WellFormed(health)
  BY DEF health, Flat
<1> QED BY <1>1, <1>2, <1>3, <1>4, <1>5, <1>6, <1>7, <1>8, <1>9, <1>10,
          <1>11, <1>12, <1>13, <1>14, <1>15, <1>16, <1>17, <1>18, <1>19, <1>20,
          <1>21, <1>22, <1>23, <1>24, <1>25, <1>26, <1>27, <1>28, <1>29, <1>30,
          <1>31, <1>32, <1>33, <1>34, <1>35, <1>36, <1>37, <1>38
       DEF Requests

-----------------------------------------------------------------------------
(* Calls implements Retry.                                                 *)

\* Every step of a call is a step of its retry loop, or leaves it alone.
LEMMA StepsAreRetrySteps == [CallsNext]_callsVars => [Next]_vars
BY DEF CallsNext, CallsClient, CallsServer, CallsSend, CallsReceiveResponse, CallsGivesUp,
       CallsSleeps, CallsWake, CallsServe, CallsThrottle, CallsThrottleLate,
       CallsTransportFails, CallsCancel, RowRemoved, callsVars,
       Next, Client, Server

\* Whatever the method, its request is carried by send_with_retry as Retry
\* describes it.
THEOREM ImplementsRetry == CallsSpec => Spec
<1>1. CallsInit => Init
  BY DEF CallsInit
<1> QED BY <1>1, StepsAreRetrySteps, PTL DEF CallsSpec, Spec

-----------------------------------------------------------------------------
(* What is said and what is heard.                                         *)

\* Every code with a variant of its own has that variant to itself.
LEMMA VariantsAreDistinct ==
    /\ \A c \in DOMAIN VariantOf : VariantOf[c] = "NotFound" <=> c = "NOT_FOUND"
    /\ \A c \in DOMAIN VariantOf : VariantOf[c] \in BodyVariants
    /\ "Api" \in BodyVariants
    /\ "NOT_FOUND" \in DOMAIN VariantOf /\ "UNKNOWN" \notin DOMAIN VariantOf
BY DEF VariantOf, BodyVariants

\* No variant that carries an error object is a success or a lost connection.
LEMMA BodyVariantsAreErrors ==
    BodyVariants \cap {"Ok", "pending", "Http", "RateLimited"} = {}
BY DEF BodyVariants, VariantOf

\* An error document gives its code, anything else UNKNOWN; only an error
\* document that says NOT_FOUND is heard as NotFound.
LEMMA ErrorIsHeard ==
    ASSUME NEW form, NEW code, NEW status
    PROVE  LET e == ApiError(form, code, status)
           IN  /\ e.variant \in BodyVariants
               /\ CodeOf(e) = IF Understood(form) THEN code ELSE "UNKNOWN"
               /\ e.variant = "NotFound" => Understood(form) /\ code = "NOT_FOUND"
               /\ Understood(form) /\ code \in DOMAIN VariantOf => e.variant = VariantOf[code]
<1> DEFINE e == ApiError(form, code, status)
<1>1. CASE Understood(form)
  <2>1. e = FromJsonApiError(code)
    BY <1>1 DEF ApiError
  <2>2. e.code = code /\ e.variant = IF code \in DOMAIN VariantOf THEN VariantOf[code] ELSE "Api"
    BY <2>1 DEF FromJsonApiError
  <2>3. e.variant \in BodyVariants
    BY <2>2, VariantsAreDistinct
  <2>4. CodeOf(e) = code
    BY <2>2, <2>3 DEF CodeOf
  <2>5. e.variant = "NotFound" => code = "NOT_FOUND"
    BY <2>2, VariantsAreDistinct
  <2> HIDE DEF e
  <2>6. code \in DOMAIN VariantOf => e.variant = VariantOf[code]
    BY <2>2
  <2> QED BY <1>1, <2>3, <2>4, <2>5, <2>6 DEF e
<1>2. CASE ~Understood(form)
  <2>1. e = FromJsonApiError("UNKNOWN")
    BY <1>2 DEF ApiError
  <2>2. e.code = "UNKNOWN" /\ e.variant = "Api"
    BY <2>1, VariantsAreDistinct DEF FromJsonApiError
  <2>3. e.variant \in BodyVariants
    BY <2>2, VariantsAreDistinct
  <2>4. CodeOf(e) = "UNKNOWN"
    BY <2>2, <2>3 DEF CodeOf
  <2> QED BY <1>2, <2>2, <2>3, <2>4
<1> QED BY <1>1, <1>2

\* An answer is a success, an offer of nothing or an error.
LEMMA AnswerKinds ==
    ASSUME NEW e \in DOMAIN Requests, NEW a \in Answers[e]
    PROVE  /\ a.kind \in {"success", "204", "error"}
           /\ a # NoAnswer
           /\ a.kind = "success" => \E b \in BodiesOf(Requests[e].reply) : a = Success(b)
<1>1. \/ \E b \in BodiesOf(Requests[e].reply) : a = Success(b)
      \/ a = NothingOffered
      \/ \E code \in Codes : a \in Refused(code)
      \/ a \in Breakages
  BY DEF Answers
<1>2. ASSUME NEW b, a = Success(b) PROVE a.kind = "success"
  BY <1>2 DEF Success
<1>3. ASSUME a = NothingOffered PROVE a.kind = "204"
  BY <1>3 DEF NothingOffered
<1>4. ASSUME NEW form, NEW code, NEW status, a = Error(form, code, status)
      PROVE  a.kind = "error"
  BY <1>4 DEF Error
<1>5. ASSUME NEW code \in Codes, a \in Refused(code) PROVE a.kind = "error"
  BY <1>4, <1>5, Zenon DEF Refused
<1>6. ASSUME a \in Breakages PROVE a.kind = "error"
  <2>1. CASE a = Error("full", "INTERNAL_SERVER_ERROR", 500)
    BY <1>4, <2>1, Zenon
  <2>2. CASE \E status \in {404, 502} : a = Error("malformed", "UNKNOWN", status)
    <3>1. PICK status \in {404, 502} : a = Error("malformed", "UNKNOWN", status)
      BY <2>2
    <3> QED BY <3>1 DEF Error
  <2>3. a = Error("full", "INTERNAL_SERVER_ERROR", 500)
        \/ \E status \in {404, 502} : a = Error("malformed", "UNKNOWN", status)
    BY <1>6 DEF Breakages
  <2> QED BY <2>1, <2>2, <2>3, Zenon
<1>7. CASE \E b \in BodiesOf(Requests[e].reply) : a = Success(b)
  <2>1. PICK b \in BodiesOf(Requests[e].reply) : a = Success(b)
    BY <1>7
  <2>2. a.kind = "success"
    BY <1>2, <2>1
  <2> QED BY <2>1, <2>2 DEF NoAnswer
<1>8. CASE ~ \E b \in BodiesOf(Requests[e].reply) : a = Success(b)
  <2>1. a.kind \in {"204", "error"}
    <3>1. CASE a = NothingOffered
      BY <1>3, <3>1
    <3>2. CASE \E code \in Codes : a \in Refused(code)
      <4>1. PICK code \in Codes : a \in Refused(code)
        BY <3>2
      <4> QED BY <1>5, <4>1
    <3>3. CASE a \in Breakages
      BY <1>6, <3>3
    <3> QED BY <1>1, <1>8, <3>1, <3>2, <3>3, Zenon
  <2> QED BY <2>1 DEF NoAnswer
<1> QED BY <1>7, <1>8

\* What the method returns for each kind of answer.
LEMMA HearingByKind ==
    ASSUME NEW r, NEW a, a.kind \in {"success", "204", "error"}
    PROVE  /\ a.kind = "error" => Hear(r, a) = ApiError(a.form, a.code, a.status)
           /\ a.kind = "204" => Hear(r, a) = Ok("NoUpdateOffered")
           /\ a.kind = "success" =>
                 /\ ~Decodes(r.reply, a.body) => Hear(r, a) = Http
                 /\ Decodes(r.reply, a.body) =>
                       Hear(r, a) = IF endpoint # "has_entitlement" THEN Ok("reply")
                                    ELSE IF OnPage THEN Ok("held") ELSE Ok("absent")
<1>1. CASE a.kind = "error"
  BY <1>1 DEF Hear
<1>2. CASE a.kind = "204"
  BY <1>2 DEF Hear
<1>3. CASE a.kind = "success"
  BY <1>3 DEF Hear
<1> QED BY <1>1, <1>2, <1>3

\* Only an answer without an error is heard as Ok, only an error document
\* gives a code, and only the absence of the code on the page is "absent".
LEMMA HearingIsFaithful ==
    ASSUME NEW r, NEW a, a.kind \in {"success", "204", "error"}
    PROVE  LET h == Hear(r, a)
           IN  /\ h.variant \in BodyVariants \cup {"Ok", "Http"}
               /\ h.variant = "Ok" => a.kind # "error"
               /\ CodeOf(h) # NoCode \/ h.variant \in BodyVariants => a.kind = "error"
               /\ h = Ok("absent") => endpoint = "has_entitlement" /\ ~OnPage
<1>1. CASE a.kind = "error"
  <2>1. Hear(r, a) = ApiError(a.form, a.code, a.status)
    BY <1>1, HearingByKind
  <2>2. Hear(r, a).variant \in BodyVariants
    BY <2>1, ErrorIsHeard
  <2>3. Hear(r, a).variant # "Ok"
    BY <2>2, BodyVariantsAreErrors
  <2>4. Ok("absent").variant = "Ok"
    BY DEF Ok
  <2> QED BY <1>1, <2>2, <2>3, <2>4
<1>2. CASE a.kind \in {"success", "204"}
  <2>1. Hear(r, a) \in {Http, Ok("reply"), Ok("held"), Ok("absent"), Ok("NoUpdateOffered")}
    BY <1>2, HearingByKind
  <2>2. \A v : Ok(v).variant = "Ok" /\ Ok(v).value = v
    BY DEF Ok
  <2>3. Http.variant = "Http"
    BY DEF Http
  <2>4. Hear(r, a).variant \in {"Ok", "Http"}
    BY <2>1, <2>2, <2>3
  <2>5. Hear(r, a).variant \notin BodyVariants
    BY <2>4, BodyVariantsAreErrors
  <2>6. CodeOf(Hear(r, a)) = NoCode
    BY <2>5 DEF CodeOf
  <2>7. Hear(r, a) = Ok("absent") => endpoint = "has_entitlement" /\ ~OnPage
    <3>1. /\ Http # Ok("absent") /\ Ok("reply") # Ok("absent")
          /\ Ok("held") # Ok("absent") /\ Ok("NoUpdateOffered") # Ok("absent")
      BY <2>2, <2>3
    <3> QED BY <1>2, <3>1, HearingByKind
  <2> QED BY <1>2, <2>4, <2>5, <2>6, <2>7
<1> QED BY <1>1, <1>2
-----------------------------------------------------------------------------
(* The strengthening: what has been answered, what it says about the rows, *)
(* and what the method made of it.                                         *)

CallsTypes ==
    /\ endpoint \in DOMAIN Requests /\ route = RouteOf(request)
    /\ row \in BOOLEAN /\ taken \in BOOLEAN
    /\ commits \in Nat
    /\ answer \in Answers[endpoint] \cup {NoAnswer}
    /\ outcome.variant \in TamgaError \cup {"Ok", "pending"}
    /\ sought \in Positions \cup {0} /\ limit \in Limits \cup {0}

\* The effect takes place, and an answer exists, only where the handler ran.
NothingWithoutExecution ==
    /\ executed = 0 => commits = 0 /\ answer = NoAnswer
    /\ wire.kind = "response" => answer # NoAnswer

\* An answer to a request that is not repeated is about its one execution.
UnsafeAnswers ==
    Unsafe(route) =>
        /\ answer.kind \in {"success", "204"} =>
              commits = (IF request.effect = "none" THEN 0 ELSE 1)
        /\ answer.kind = "error" /\ Understood(answer.form) /\ Definite(answer.code) =>
              commits = 0

\* The handler says NOT_FOUND of a missing row only, and rows do not return.
NotFoundIsTrue ==
    answer.kind = "error" /\ Understood(answer.form) /\ answer.code = "NOT_FOUND" => ~row

\* The outcome is what the method makes of the answer, of the last 429 or of
\* the transport's failure.
OutcomeFollowsAnswer ==
    /\ result = "response" => answer # NoAnswer /\ outcome = Hear(request, answer)
    /\ result # "response" => outcome.variant \in {"pending", "Http", "RateLimited"}

CallsInv ==
    /\ CallsTypes
    /\ NothingWithoutExecution
    /\ UnsafeAnswers
    /\ NotFoundIsTrue
    /\ OutcomeFollowsAnswer

-----------------------------------------------------------------------------
(* The handler.                                                            *)

\* A request that is not repeated finds a handler that has not run.
LEMMA UnsafeServedFresh ==
    ASSUME IInv, wire.kind = "request", Unsafe(route)
    PROVE  executed = 0
<1>1. wire = Sent
  BY MessageKinds DEF IInv, TypeOK
<1>2. executed < sends /\ sends <= attempt + 1 /\ ~(attempt > 0)
  BY <1>1 DEF IInv, ServesOnlySent, SendsFollowAttempts, RetriesOnlySafe
<1> QED BY <1>2, RetryAssumption DEF IInv, TypeOK

\* Refused documents carry the code they refuse with, and break nothing.
LEMMA RefusedCarriesCode ==
    ASSUME NEW code, NEW a \in Refused(code)
    PROVE  a.kind = "error" /\ a.code = code
<1>1. PICK form \in Forms \cup {"noErrors"} : a = Error(form, code, StatusOf(code))
  BY DEF Refused
<1> QED BY <1>1 DEF Error

\* What breaks carries no code of the API's own.
LEMMA BreakageIsIndefinite ==
    ASSUME NEW a \in Breakages
    PROVE  /\ a.kind = "error"
           /\ a.code \in {"INTERNAL_SERVER_ERROR", "UNKNOWN"}
<1>1. CASE a = Error("full", "INTERNAL_SERVER_ERROR", 500)
  BY <1>1 DEF Error
<1>2. CASE \E status \in {404, 502} : a = Error("malformed", "UNKNOWN", status)
  <2>1. PICK status \in {404, 502} : a = Error("malformed", "UNKNOWN", status)
    BY <1>2
  <2> QED BY <2>1 DEF Error
<1>3. a = Error("full", "INTERNAL_SERVER_ERROR", 500)
      \/ \E status \in {404, 502} : a = Error("malformed", "UNKNOWN", status)
  BY DEF Breakages
<1> QED BY <1>1, <1>2, <1>3, Zenon

\* The handler's effect keeps the types, counts once, and never brings a row
\* back.
LEMMA CommitEffect ==
    ASSUME row \in BOOLEAN, taken \in BOOLEAN, commits \in Nat, Commit
    PROVE  /\ row' \in BOOLEAN /\ taken' \in BOOLEAN /\ commits' \in Nat
           /\ commits' = IF request.effect = "none" THEN commits ELSE commits + 1
           /\ row' => row
BY DEF Commit

\* An answer tells the truth about the rows and the effect at the moment it
\* is given.
LEMMA HandlerIsHonest ==
    ASSUME endpoint \in DOMAIN Requests, NEW a \in Answers[endpoint], Handle(a),
           row \in BOOLEAN, taken \in BOOLEAN, commits \in Nat
    PROVE  /\ row' \in BOOLEAN /\ taken' \in BOOLEAN /\ commits' \in Nat
           /\ row' => row
           /\ a.kind \in {"success", "204"} =>
                 commits' = IF request.effect = "none" THEN commits ELSE commits + 1
           /\ a.kind = "error" /\ Definite(a.code) => commits' = commits
           /\ a.kind = "error" /\ a.code = "NOT_FOUND" => ~row'
<1>1. CASE Refuses(a)
  <2>1. UNCHANGED <<row, taken, commits>>
    BY <1>1 DEF Refuses, Untouched
  <2>2. ASSUME NEW code, a \in Refused(code), code = "NOT_FOUND" => ~row
        PROVE  a.kind = "error" /\ (a.code = "NOT_FOUND" => ~row)
    BY <2>2, RefusedCarriesCode
  <2>3. CASE \E code \in GateCodes : a \in Refused(code)
    <3>1. "NOT_FOUND" \notin GateCodes
      BY DEF GateCodes, LicenseAuthCode
    <3> QED BY <2>1, <2>2, <2>3, <3>1
  <2>4. CASE ~row /\ a \in Refused("NOT_FOUND")
    BY <2>1, <2>2, <2>4
  <2>5. CASE /\ row /\ taken /\ endpoint \in DOMAIN ConflictCode
             /\ a \in Refused(ConflictCode[endpoint])
    <3>1. ConflictCode[endpoint] # "NOT_FOUND"
      BY <2>5 DEF ConflictCode
    <3> QED BY <2>1, <2>2, <2>5, <3>1
  <2>6. CASE row /\ \E code \in request.refusals : a \in Refused(code)
    <3>1. "NOT_FOUND" \notin request.refusals
      BY TableIsWellFormed DEF WellFormed, request
    <3> QED BY <2>1, <2>2, <2>6, <3>1
  <2> QED BY <1>1, <2>3, <2>4, <2>5, <2>6 DEF Refuses
<1>2. CASE Succeeds(a)
  <2>1. a.kind \in {"success", "204"}
    BY <1>2 DEF Succeeds, NothingOffered
  <2> QED BY <1>2, <2>1, CommitEffect DEF Succeeds
<1>3. CASE Breaks(a)
  <2>1. a.kind = "error" /\ ~Definite(a.code) /\ a.code # "NOT_FOUND"
    BY <1>3, BreakageIsIndefinite DEF Breaks, Definite
  <2>2. Untouched \/ Commit
    BY <1>3 DEF Breaks
  <2> QED BY <2>1, <2>2, CommitEffect DEF Untouched
<1> QED BY <1>1, <1>2, <1>3 DEF Handle

-----------------------------------------------------------------------------
(* The invariant is inductive.                                             *)

\* The invariant holds initially.
LEMMA CallsInitEstablishes == CallsInit => CallsInv
<1> SUFFICES ASSUME CallsInit PROVE CallsInv
  OBVIOUS
<1>1. wire.kind # "response" /\ result # "response" /\ executed = 0
  BY DEF CallsInit, Init, Idle
<1>2. NoAnswer.kind = "none" /\ Pending.variant = "pending"
  BY DEF NoAnswer, Pending
<1>3. CallsTypes
  BY <1>2 DEF CallsInit, CallsTypes
<1> QED BY <1>1, <1>2, <1>3 DEF CallsInit, CallsInv, NothingWithoutExecution, UnsafeAnswers,
                               NotFoundIsTrue, OutcomeFollowsAnswer

\* Steps that leave the rows and what was said of them alone keep the
\* invariant, if no answer appears from nowhere and none is reported unheard.
LEMMA QuietSteps ==
    ASSUME CallsInv, Given, Unanswered, Untouched, UNCHANGED <<route, executed>>,
           wire'.kind = "response" => wire.kind = "response",
           result' = "response" => result = "response",
           result' # "response" => result # "response"
    PROVE  CallsInv'
<1> USE DEF CallsInv, Given, Unanswered, Untouched
<1>1. CallsTypes'
  BY DEF CallsTypes, request
<1>2. NothingWithoutExecution'
  BY DEF NothingWithoutExecution
<1>3. UnsafeAnswers' /\ NotFoundIsTrue'
  BY DEF UnsafeAnswers, NotFoundIsTrue, request, Unsafe
<1>4. OutcomeFollowsAnswer'
  BY DEF OutcomeFollowsAnswer, request, Hear, OnPage
<1> QED BY <1>1, <1>2, <1>3, <1>4

\* The client's own steps and the limiter's 429 keep the invariant.
LEMMA LoopPreserves ==
    ASSUME IInv, CallsInv, CallsSend \/ CallsSleeps \/ CallsWake \/ CallsThrottle \/ CallsCancel
    PROVE  CallsInv'
<1>1. CASE CallsSend
  BY <1>1, QuietSteps DEF CallsSend, Send, Sent
<1>2. CASE CallsSleeps
  BY <1>2, QuietSteps DEF CallsSleeps, ReceiveThrottledSleeps, Idle
<1>3. CASE CallsWake
  BY <1>3, QuietSteps DEF CallsWake, Wake
<1>4. CASE CallsThrottle
  <2>1. wire'.kind # "response"
    BY <1>4, ThrottledIsMessage DEF CallsThrottle, Throttle, Answer, Idle
  <2> QED BY <1>4, <2>1, QuietSteps DEF CallsThrottle, Throttle
<1>5. CASE CallsCancel
  <2>1. wire'.kind # "response"
    BY <1>5 DEF CallsCancel, Cancel, Idle, Sent
  <2>2. result = "pending" /\ result' = "cancelled"
    BY <1>5 DEF CallsCancel, Cancel, Return, IInv, WireMatchesLoop
  <2> QED BY <1>5, <2>1, <2>2, QuietSteps DEF CallsCancel, Cancel, Return
<1> QED BY <1>1, <1>2, <1>3, <1>4, <1>5

\* The handler's answer, and the effect of a try whose answer a proxy turned
\* into a 429, keep the invariant.
LEMMA HandlerPreserves ==
    ASSUME IInv, CallsInv, CallsServe \/ CallsThrottleLate
    PROVE  CallsInv'
<1>1. wire = Sent /\ wire.kind = "request" /\ executed \in Nat /\ executed' = executed + 1
  BY MessageKinds DEF IInv, TypeOK, CallsServe, CallsThrottleLate, Serve, ThrottleLate
<1>2. result # "response" /\ result' = result /\ route' = route /\ UNCHANGED <<outcome, pc>>
  BY <1>1 DEF IInv, WireMatchesLoop, CallsServe, CallsThrottleLate, Serve, ThrottleLate,
              Sent, Idle, Unanswered
<1>3. UNCHANGED <<endpoint, sought, limit>> /\ request' = request
  BY DEF CallsServe, CallsThrottleLate, Given, request
<1>4. Unsafe(route) => commits = 0 /\ answer = NoAnswer
  BY <1>1, UnsafeServedFresh DEF CallsInv, NothingWithoutExecution
<1>5. row \in BOOLEAN /\ taken \in BOOLEAN /\ commits \in Nat /\ endpoint \in DOMAIN Requests
  BY DEF CallsInv, CallsTypes
<1>6. NoAnswer.kind = "none"
  BY DEF NoAnswer
<1>7. OutcomeFollowsAnswer'
  BY <1>2 DEF CallsInv, OutcomeFollowsAnswer
<1>8. CASE CallsServe
  <2>1. PICK a \in Answers[endpoint] :
            Handle(a) /\ answer' = IF pc = "waiting" THEN a ELSE answer
    BY <1>8 DEF CallsServe
  <2>2. /\ row' \in BOOLEAN /\ taken' \in BOOLEAN /\ commits' \in Nat
        /\ row' => row
        /\ a.kind \in {"success", "204"} =>
              commits' = IF request.effect = "none" THEN commits ELSE commits + 1
        /\ a.kind = "error" /\ Definite(a.code) => commits' = commits
        /\ a.kind = "error" /\ a.code = "NOT_FOUND" => ~row'
    BY <1>5, <2>1, HandlerIsHonest
  <2>3. a # NoAnswer
    BY <1>5, AnswerKinds
  <2>4. wire'.kind = "response" => pc = "waiting"
    BY <1>8 DEF CallsServe, Serve, Answer, Idle
  <2>5. CallsTypes'
    BY <1>2, <1>3, <2>1, <2>2 DEF CallsInv, CallsTypes
  <2>6. NothingWithoutExecution'
    BY <1>1, <2>1, <2>3, <2>4 DEF NothingWithoutExecution
  <2>7. UnsafeAnswers'
    BY <1>2, <1>3, <1>4, <1>6, <2>1, <2>2 DEF UnsafeAnswers, Unsafe
  <2>8. NotFoundIsTrue'
    BY <2>1, <2>2 DEF CallsInv, NotFoundIsTrue
  <2> QED BY <1>7, <2>5, <2>6, <2>7, <2>8 DEF CallsInv
<1>9. CASE CallsThrottleLate
  <2>1. answer' = answer /\ (Untouched \/ Commit)
    BY <1>9 DEF CallsThrottleLate, Unanswered
  <2>2. /\ row' \in BOOLEAN /\ taken' \in BOOLEAN /\ commits' \in Nat
        /\ row' => row
    BY <1>5, <2>1, CommitEffect DEF Untouched
  <2>3. wire'.kind # "response"
    BY <1>9, ThrottledIsMessage DEF CallsThrottleLate, ThrottleLate, Answer, Idle
  <2>4. CallsTypes'
    BY <1>2, <1>3, <2>1, <2>2 DEF CallsInv, CallsTypes
  <2>5. NothingWithoutExecution'
    BY <1>1, <2>3 DEF NothingWithoutExecution
  <2>6. UnsafeAnswers'
    BY <1>2, <1>3, <1>4, <1>6, <2>1 DEF UnsafeAnswers, Unsafe
  <2>7. NotFoundIsTrue'
    BY <2>1, <2>2 DEF CallsInv, NotFoundIsTrue
  <2> QED BY <1>7, <2>4, <2>5, <2>6, <2>7 DEF CallsInv
<1> QED BY <1>8, <1>9

\* What the method returns keeps the invariant.
LEMMA ReturnPreserves ==
    ASSUME IInv, CallsInv, CallsReceiveResponse \/ CallsGivesUp \/ CallsTransportFails
    PROVE  CallsInv'
<1>1. UNCHANGED <<endpoint, sought, limit, row, taken, commits, answer, route, executed>>
  BY DEF CallsReceiveResponse, CallsGivesUp, CallsTransportFails, Given, Untouched,
         ReceiveResponse, ReceiveThrottledGivesUp, TransportFails, Return
<1>2. wire'.kind # "response"
  BY DEF CallsReceiveResponse, CallsGivesUp, CallsTransportFails,
         ReceiveResponse, ReceiveThrottledGivesUp, TransportFails, Idle, Sent
<1>3. NothingWithoutExecution' /\ UnsafeAnswers' /\ NotFoundIsTrue'
  BY <1>1, <1>2 DEF CallsInv, NothingWithoutExecution, UnsafeAnswers, NotFoundIsTrue,
                    request, Unsafe
<1>4. /\ outcome'.variant \in TamgaError \cup {"Ok", "pending"}
      /\ OutcomeFollowsAnswer'
  <2>1. CASE CallsReceiveResponse
    <3>1. result' = "response" /\ answer # NoAnswer /\ outcome' = Hear(request, answer)
      BY <2>1 DEF CallsReceiveResponse, ReceiveResponse, Return, CallsInv,
                  NothingWithoutExecution
    <3>2. Hear(request, answer)' = Hear(request, answer)
      BY <1>1 DEF Hear, OnPage, request
    <3>3. Hear(request, answer).variant \in BodyVariants \cup {"Ok", "Http"}
      BY <3>1, AnswerKinds, HearingIsFaithful DEF CallsInv, CallsTypes
    <3> QED BY <1>1, <3>1, <3>2, <3>3 DEF OutcomeFollowsAnswer, TamgaError, BareVariants
  <2>2. CASE CallsGivesUp
    <3>1. outcome'.variant = "RateLimited" /\ result' = "rateLimited"
      BY <2>2 DEF CallsGivesUp, ReceiveThrottledGivesUp, Return, RateLimited
    <3> QED BY <3>1 DEF OutcomeFollowsAnswer, TamgaError, BareVariants
  <2>3. CASE CallsTransportFails
    <3>1. outcome'.variant = "Http" /\ result' = "transport"
      BY <2>3 DEF CallsTransportFails, TransportFails, Return, Http
    <3> QED BY <3>1 DEF OutcomeFollowsAnswer, TamgaError, BareVariants
  <2> QED BY <2>1, <2>2, <2>3
<1>5. CallsTypes'
  BY <1>1, <1>4 DEF CallsInv, CallsTypes, request
<1> QED BY <1>3, <1>4, <1>5 DEF CallsInv

\* Every step keeps the invariant.
LEMMA CallsStepPreserves ==
    ASSUME IInv, CallsInv, [CallsNext]_callsVars
    PROVE  CallsInv'
<1>1. CASE RowRemoved
  <2>1. /\ UNCHANGED <<vars, taken, commits, endpoint, sought, limit, answer, outcome>>
        /\ row' = FALSE
    BY <1>1 DEF RowRemoved, Given, Unanswered
  <2> QED BY <2>1 DEF vars, CallsInv, CallsTypes, NothingWithoutExecution, UnsafeAnswers,
                      NotFoundIsTrue, OutcomeFollowsAnswer, request, Unsafe, Hear, OnPage
<1>2. CASE UNCHANGED callsVars
  <2>1. UNCHANGED <<route, pc, executed, wire, result, endpoint, row, taken, commits,
                    answer, outcome, sought, limit>>
    BY <1>2 DEF callsVars, vars
  <2> QED BY <2>1, QuietSteps DEF Given, Unanswered, Untouched
<1> QED BY <1>1, <1>2, LoopPreserves, HandlerPreserves, ReturnPreserves
        DEF CallsNext, CallsClient, CallsServer

\* The strengthening holds in every reachable state.
THEOREM CallsInvariantHolds == CallsSpec => [](IInv /\ CallsInv)
<1>1. CallsSpec => []IInv
  BY ImplementsRetry, InvariantHolds
<1>2. IInv /\ CallsInv /\ [CallsNext]_callsVars => CallsInv'
  BY CallsStepPreserves
<1> QED BY <1>1, <1>2, CallsInitEstablishes, PTL DEF CallsSpec

-----------------------------------------------------------------------------
(* What the invariants give.                                               *)

\* Every variable of the call stays in its range, on every request.
THEOREM CallsTypeCorrect == CallsSpec => []CallsTypeOK
<1>1. IInv /\ CallsInv => CallsTypeOK
  BY DEF IInv, CallsInv, CallsTypes, CallsTypeOK
<1> QED BY <1>1, CallsInvariantHolds, PTL

\* A code or a success the caller holds is that of the answer, as it was
\* given.
LEMMA OutcomeIsAnswer ==
    ASSUME CallsInv
    PROVE  /\ outcome.variant = "Ok" => answer.kind \in {"success", "204"}
           /\ CodeOf(outcome) # NoCode => answer.kind = "error"
           /\ CodeOf(outcome) \notin {NoCode, "UNKNOWN"} =>
                 Understood(answer.form) /\ CodeOf(outcome) = answer.code
           /\ outcome.variant = "NotFound" =>
                 answer.kind = "error" /\ Understood(answer.form) /\ answer.code = "NOT_FOUND"
           /\ outcome = Ok("absent") => endpoint = "has_entitlement" /\ ~OnPage
<1>1. CASE result = "response"
  <2>1. outcome = Hear(request, answer) /\ answer.kind \in {"success", "204", "error"}
    BY <1>1, AnswerKinds DEF CallsInv, OutcomeFollowsAnswer, CallsTypes
  <2>2. answer.kind = "error" => outcome = ApiError(answer.form, answer.code, answer.status)
    BY <2>1, HearingByKind
  <2>3. "NotFound" \in BodyVariants
    BY DEF BodyVariants, VariantOf
  <2> QED BY <2>1, <2>2, <2>3, HearingIsFaithful, ErrorIsHeard
<1>2. CASE result # "response"
  <2>1. outcome.variant \in {"pending", "Http", "RateLimited"}
    BY <1>2 DEF CallsInv, OutcomeFollowsAnswer
  <2>2. CodeOf(outcome) = NoCode
    BY <2>1, BodyVariantsAreErrors DEF CodeOf
  <2>3. Ok("absent").variant = "Ok"
    BY DEF Ok
  <2> QED BY <2>1, <2>2, <2>3
<1> QED BY <1>1, <1>2

\* What a method that is not repeated says of its effect is exact.
THEOREM UnsafeAnswersAreExact == CallsSpec => []UnsafeAnswerIsExact
<1>1. IInv /\ CallsInv => UnsafeAnswerIsExact
  BY OutcomeIsAnswer DEF CallsInv, UnsafeAnswers, UnsafeAnswerIsExact, Definite
<1> QED BY <1>1, CallsInvariantHolds, PTL

\* NotFound is only returned for a row that is gone.
THEOREM NotFoundMeansGone == CallsSpec => []GoneMeansGone
<1>1. IInv /\ CallsInv => GoneMeansGone
  BY OutcomeIsAnswer DEF CallsInv, NotFoundIsTrue, GoneMeansGone
<1> QED BY <1>1, CallsInvariantHolds, PTL

\* An entitlement reported absent without a page size of the caller's is not
\* among the first hundred of the list.
THEOREM AbsentMeansAbsent == CallsSpec => []AbsentIsAuthoritative
<1>1. IInv /\ CallsInv => AbsentIsAuthoritative
  <2> SUFFICES ASSUME CallsInv, outcome = Ok("absent"), limit = 0
               PROVE  sought \notin 1..MAX_ENTITLEMENTS_PAGE_SIZE
    BY DEF AbsentIsAuthoritative
  <2>1. ~OnPage
    BY OutcomeIsAnswer
  <2>2. sought \in Nat
    BY CallsAssumption DEF CallsInv, CallsTypes
  <2> QED BY <2>1, <2>2 DEF OnPage, WireLimit, Lesser, MAX_ENTITLEMENTS_PAGE_SIZE
<1> QED BY <1>1, CallsInvariantHolds, PTL

\* No request decodes its answer more strictly than the growth of the wire
\* allows.
LEMMA GrowthDecodes ==
    ASSUME NEW e \in DOMAIN Requests, NEW b \in BodiesOf(Requests[e].reply), Growth(b)
    PROVE  Decodes(Requests[e].reply, b)
<1>1. Requests[e].reply.closed \subseteq {"check_in_interval"}
  BY TableIsWellFormed DEF WellFormed
<1>2. CASE b \in {Whole, Cut, Extended}
  BY <1>2 DEF Growth, Decodes, Whole, Cut, Extended
<1>3. CASE \E f \in Fields(Requests[e].reply) : b = Without(f)
  BY <1>3 DEF Growth, Without
<1>4. CASE \E f \in Requests[e].reply.open \cup Requests[e].reply.closed : b = Novel(f)
  <2>1. b.drift = "novel" /\ b.field # "check_in_interval"
    BY <1>4 DEF Growth, Novel
  <2> QED BY <1>1, <2>1 DEF Decodes
<1>5. \/ b \in {Whole, Cut, Extended}
      \/ \E f \in Fields(Requests[e].reply) : b = Without(f)
      \/ \E f \in Requests[e].reply.open \cup Requests[e].reply.closed : b = Novel(f)
  BY DEF BodiesOf
<1> QED BY <1>2, <1>3, <1>4, <1>5

\* The caller learns what the server said: every code an error document
\* carries, and every success that only grew.
THEOREM AnswersAreHeard == CallsSpec => []AnswerIsHeard
<1>1. IInv /\ CallsInv => AnswerIsHeard
  <2> SUFFICES ASSUME CallsInv, result = "response" PROVE AnswerIsHeard
    BY DEF AnswerIsHeard
  <2>1. outcome = Hear(request, answer) /\ answer \in Answers[endpoint]
        /\ endpoint \in DOMAIN Requests
    BY DEF CallsInv, OutcomeFollowsAnswer, CallsTypes
  <2>2. ASSUME answer.kind = "error", answer.form \in {"full", "numericStatus", "bare"}
        PROVE  /\ CodeOf(outcome) = answer.code
               /\ answer.code \in DOMAIN VariantOf => outcome.variant = VariantOf[answer.code]
               /\ LimitExceeded(outcome) <=> answer.code \in LimitExceededCode
    <3>1. outcome = ApiError(answer.form, answer.code, answer.status)
      BY <2>1, <2>2, HearingByKind
    <3>2. Understood(answer.form)
      BY <2>2 DEF Understood, Forms
    <3> QED BY <3>1, <3>2, ErrorIsHeard DEF LimitExceeded
  <2>3. ASSUME answer.kind = "success", Growth(answer.body)
        PROVE  outcome.variant = "Ok"
    <3>1. PICK b \in BodiesOf(Requests[endpoint].reply) : answer = Success(b)
      BY <2>1, <2>3, AnswerKinds
    <3>2. Decodes(request.reply, answer.body)
      BY <2>1, <2>3, <3>1, GrowthDecodes DEF Success, request
    <3>3. outcome \in {Ok("reply"), Ok("held"), Ok("absent")}
      BY <2>1, <2>3, <3>2, HearingByKind
    <3> QED BY <3>3 DEF Ok
  <2> QED BY <2>2, <2>3 DEF AnswerIsHeard
<1> QED BY <1>1, CallsInvariantHolds, PTL

\* What send_with_retry guarantees, it guarantees to every method: a request
\* that is not safe to repeat is executed at most once.
THEOREM CallsExecuteOnce == CallsSpec => []UnsafeExecutedOnce
BY ImplementsRetry, UnsafeOnce

\* Every method keeps the promise of Exchange to its caller.
THEOREM CallsKeepPromise == CallsSpec => PromiseKept
BY ImplementsRetry, PromiseIsKept
=============================================================================
