# Formal specifications of the Tamga Rust client

`tamga-rust` is the client of the Tamga licensing API: a stateless HTTP client
(`src/src/client.rs`), the offline verification of licence and machine files
(`src/src/checkout/`), and the models of the API's resources. The server is not
in this repository. This directory holds TLA+ models of the parts of the client
whose correctness depends on order, repetition, failure or time, the TLC runs
that check them on small instances, and TLAPS proofs for every instance.

Run from this directory:

    tlc -workers 2 -config MCCalls.cfg MCCalls       # model-check one configuration
    tlapm RetryProofs.tla                            # check the proofs of a module

`PROJECT.json` lists components, runs, hazards, theorems, and for every modelled
definition the source lines it stands for.

## 1. Inventory

The client has no background task and no lock. Its state is what one call keeps
in its local variables across its `await` points, what the server keeps, and
what an application keeps between calls (a machine id, a key set, a timer).
Concurrency is between calls: of one process, of many processes on one licence,
and with operators and jobs at the server.

| Component | State | Operations | Interacts with | What is hard |
|---|---|---|---|---|
| Activation flows (`client.rs`) | the row created or adopted, `reused`, the search's page number | `activate_machine`, `activate_machine_idempotent`, `find_machine_by_fingerprint`, `over_limit_result_without_machine` | machine rows and seats at the server, other calls, operator deletes | up to five requests per call, rows change between any two, each may fail or be served after its caller has gone |
| Retry (`client.rs`, `transport.rs`) | `attempt`, the sleep | `send_with_retry`, `is_retryable`, `parse_retry_after`, `retry_delay`, `jitter_millis` | rate limiter, proxies, every other component | at-most-once for creates, a bounded wait, budgets |
| Process shutdown (`client.rs`) | `deleted`, the page being walked | `delete_machine_processes`, `delete_process` | process rows, other releases, registrations | a listing that changes while it is walked |
| Offline files and key set (`checkout/`, `crypto/`) | the application's `SigningKeySet`; none in the verifiers | `verify_license_file*`, `verify_machine_file*`, `from_public_keys`, `from_resources`, `label_failure`, `check_out_*` | key rotation at the server, files in customers' hands | order of checks, stale key sets, boundary seconds |
| Heartbeat (`models/policy.rs`, `client.rs`) | the application's timer | `effective_heartbeat_window`, `recommended_heartbeat_interval`, `ping_heartbeat` | the server's staleness rule and cull job | lost and late pings against a deadline |
| Signing keys (`client.rs`) | – | `list_signing_keys`, `signing_key_set` | key set | a fetched set ages |
| Licences, machines, components, processes (`client.rs`, `models/`) | the row, the counters | validate, check-in, get, create, update, delete, ping, reset | retry, the error model, the structs | a create or a delete repeated behind the caller's back, a 404 from somebody else |
| Entitlements and metering (`client.rs`, `models/entitlement.rs`) | the meter | `list_entitlements`, `has_entitlement`, `increment_entitlement_usage` ... | retry | a listing cut at its page ceiling, a count that must not be repeated |
| Release distribution (`client.rs`) | bytes received so far | `artifact_download_url`, `download_artifact`, `check_for_upgrade` | retry, object storage | two hosts of different trust, a size ceiling enforced chunk by chunk, bodies that break off |
| Overage strategy (`models/policy.rs`) | – | `OverageStrategy::allows` | – | `f64` products at the boundary |
| Error model (`error.rs`) | – | `api_error`, `from_json_api_error`, `code`, `limit_exceeded`, `license_auth_failure` | every call | which answer is which variant, documents written by other versions |
| Resource models (`models/`) | – | decoding a success body | every call, servers older and newer than the client | a committed effect reported as a failure |
| Fingerprint (`fingerprint.rs`) | – | `canonical`, `compute` | activation | one host, many readings; two hosts, similar readings |
| Offline proof, transport headers | – | parsing, formatting, one verification | – | no control flow over time |

What makes each correct:

- *Activation*: a call deletes only what it created, adopts only what is its
  licence's, leaves nothing behind when it says it left nothing, and never lets
  more machines hold a confirmation than there are seats.
- *Retry*: a request that is not safe to repeat is executed at most once;
  "rate limited" means the budget is spent; the sleep is bounded; calls return.
- *Every call*: what the method returns is what happened: the effect took place once,
  or not at all, or the caller is told that it cannot know; `NotFound` means
  that the row is gone; the server's code survives the way into a `TamgaError`;
  growth of the API breaks no call.
- *Fingerprint*: one host gets one row of a licence, and two hosts never share it.
- *Process shutdown*: `Ok(n)` means released, and `n` counts the call's own rows.
- *Offline files*: only files the server issued are accepted; a genuine file is
  never called a forgery; a lifetime ends at one second for every entry point;
  one file gets one diagnosis.
- *Release distribution*: a download is the whole artifact or an error, is refused
  as too large exactly above the caller's ceiling, and takes no credential to
  the storage host.
- *Heartbeat*: the recommended interval keeps a machine inside the server's
  window, and a loop ends only when the machine is gone.

## 2. Modules

| Module | What it is |
|---|---|
| `SeatClaims` | abstract: what an activation promises, with no message in sight |
| `Activation` | both activation flows, by any number of concurrent calls, and the server they talk to |
| `ActivationProofs` | its invariants, for every number of calls, licences and policies, and that `Activation` implements `SeatClaims` |
| `Exchange` | abstract: what one pass through `send_with_retry` promises |
| `Retry` | the retry loop, routes, `Retry-After`, delays, limiter and proxy |
| `RetryProofs` | its invariants, and that `Retry` implements `Exchange` |
| `ErrorModel` | `TamgaError`: its variants, accessors, and how an error response becomes one |
| `Resources` | the structs of the wire: which fields they require and which enums are open, and bodies written by other versions |
| `Endpoints` | every request the client makes: route, effect, reply, refusals; extends `Resources` and `ErrorModel` |
| `Calls` | one call of any method, end to end; extends `Retry` and `Endpoints` |
| `CallsProofs` | its invariants, and that `Calls` implements `Retry` |
| `Fingerprint` | `canonical` and `compute` as operators |
| `Identity` | activation by hosts that read their hardware; extends `Activation` and `Fingerprint` |
| `IdentityProofs` | what the canonical text tells apart, for lists of any length; one row per host, on top of `ActivationProofs` |
| `ProcessRelease`, `ProcessReleaseProofs` | concurrent `delete_machine_processes` calls |
| `OfflineFile` | the four verification functions and `SigningKeySet` as operators |
| `KeyRotation` | an account that rotates keys, files, damaged copies, and an application's key set; extends `OfflineFile` |
| `KeyRotationProofs` | its properties, for every number of keys, files, copies and rotations |
| `Download`, `DownloadProofs` | `download_artifact` over two hosts |
| `Heartbeat`, `HeartbeatProofs` | the ping loop, the staleness rule and the cull job |
| `MC*` | small instances |

`Activation` treats a request as one exchange, which is what `Exchange` promises
and `Retry` is shown to keep: it does not repeat the retry loop under each of its
requests.

Definitions that end in what a plausible bug would do (`RollsBackAdopted`,
`GivesUpLate`, ...) stand directly before the definition they vary. No
specification uses them; they show that each property can tell a wrong version
from the right one.

### Activation

One action per answer a call handles. `Start` sends the create;
`CreateSucceeded`, `TakenPropagates`, `TakenSearches` and `CreateRefused` are the
arms of the `match` on it (201; 409 in `activate_machine`; 409 in
`activate_machine_idempotent`; a 422 limit code). `SearchHit`, `SearchNextPage`
and `SearchMiss` are the loop of `find_machine_by_fingerprint`, `Probed` the end
of `over_limit_result_without_machine`, `ValidatedKeeps`, `ValidatedRollsBack`
and `RolledBack` the tail of both methods. `RequestFails` is every `?` and every
discarded `Err`: `FailureOutcome` says which. `Cancel` drops the future.

Each request is served by a step of the server (`ServeCreate`, `ServeList`,
`ServeValidate`, `ServeDelete`), so that other calls run between sending,
serving and receiving. A request whose caller failed or was dropped stays on the
wire and may still be served. `Evict` removes any row at any time: an operator,
or the heartbeat cull.

Data is reduced to what the flows branch on: a row is its id, licence and
fingerprint; a verdict is its code. `by`, `touched` and `horizon` are history.
The server's policy is a constant: `CreateCap` (how many machines a create
accepts), `Seats` (how many a validate accepts), `ConflictScope` (whose
fingerprints make a 409), `Resembles` (`filter[q]` matches more than exact
fingerprints), `SideCodes` (verdicts for other reasons than the machine count).

`SeatClaims` is what the two methods promise once the requests are taken away. A call is a
claim to one machine of a licence. At the server it takes a row (`Take`) or is
declined, adopts a row of somebody else, is ruled on with its machine counted,
and gives back what it has taken; at the caller it is granted, refused, undone,
left unconfirmed, or given up. Each happens in one step and at most once. `due`
is what the relaxation costs: a claim whose caller leaves while a create or a
delete is under way may still take or give back (`Close` keeps it `due`), and no
other claim may. The mapping at the end of `Activation` reads a claim off a call, its
request and its reply: a reply under way has been decided, so a row is the
claim's from the moment the server adds it, and an adoption happens when the server
lists the row, not when the client finds it on the page. Hence the answers
that only tell the client what the server has done (`CreateSucceeded`, `SearchHit`, ...) are
stutters. `ActivationIsAClaim` states the refinement.

### Retry

`Send`, `ReceiveResponse`, `ReceiveThrottledGivesUp`, `ReceiveThrottledSleeps`
and `Wake` are the loop body of `send_with_retry`; `TransportFails` is its `?`.
`IsRetryable` is the list of suffixes over the routes the client uses.
`RetryDelay` and `JitterMillis` compute milliseconds as the code does
(`ShiftedOne` is `1u64 << attempt.min(5)`; the jitter's factors are reduced
modulo 1000 first, which is exact because a 32-bit pid and attempt keep the
64-bit products from wrapping). `Throttle` is a 429 from the limiter, before the
handler; `ThrottleLate` (constant `LateThrottle`) a 429 from a proxy after it.

`Exchange` is the promise: the handler runs at most `budget` times; a response
is reported only if it ran; a refusal only if it did not, unless `LateThrottle`.
`PromiseKept` is `Retry` refining it with budget 1 for unsafe requests and
`MaxRetries + 1` for the others.

### Resources, ErrorModel, Endpoints, Calls

`Resources` gives each struct as four sets of field names: required, optional, and, of
either, those with an open (`Unknown(String)`, free text) or a closed set of values. Serde
decodes a body if every required field is there and no closed field has a value it does not
know; `BodiesOf` are the bodies a server of any version may send: the expected one,
one with more fields, one without a field, one with a new value, one cut short.
`CheckInInterval` is the only closed enum.

`ErrorModel` reads an error document as the code does: `status` as string or
number, missing `title` and `detail`, an empty `errors`, a page that is no document.
`VariantOf` is the `match` of `from_json_api_error`.

`Endpoints` has one record per method of `Client` that sends a request, under
the method's name. `Calls` runs any of them: each step of `Retry` is conjoined with what
it means to the call (`CallsSend`, `CallsReceiveResponse`, ...), the handler
(`CallsServe`) refuses, succeeds or breaks down, before or after its effect, and
`Hear` turns the answer into the method's result. `row` is the row the request
names, `taken` the identity a create asks for, `commits` counts effects, `answer`
is what the handler said. `ThrottleLate` of `Retry` becomes a 429 that arrives
although the effect may have taken place. `RowRemoved` is another client.
`has_entitlement` has the page it can see: `WireLimit` is the limit it sends, the
server's ceiling cuts it at 100. The paged walk of a listing is in `Activation`,
the clean-up loop in `ProcessRelease`.

### Fingerprint and Identity

Text is a sequence of code points, since what `canonical` guards against is a
matter of single characters: which ones are trimmed, refused, or separate.
`Flaw` is one turn of its loop, in the order of the checks. `Sorted` puts each part at
the place that the number of parts preceding it (`Precedes` is `Ord for str`) gives
it, which is what a sort does to a list without repetitions, and lists with
repetitions are refused before; `Joined` is the second loop, a recursive function with one
value per turn. The domain prefix is one symbol. SHA-256 is a constant. In `Identity` the arguments of each call
of `Activation` name a host, and the fingerprint is of one of the readings that host
may give.

### ProcessRelease

`ListRows`/`ListEmpty` are the two outcomes of a listing, `DeleteSucceeds` and
`DeleteNotFound` those of a delete, `Abort` any other error, `Cancel` a dropped
future. A listing's page is remembered in `batch` and walked while the rows
change (`CreateProcess`, `DeletedElsewhere`, other releases).

### OfflineFile and KeyRotation

A certificate is a record of what the code looks at: its PEM markers, the three
fields of `alg`, the body with its claims, the state of the signature, and (as
ground truth) the scheme, signer and body the signature was made over.
Cryptography is perfect. Each verification function is an operator from its
arguments to `"Ok"` or the name of the error; `Try` is the `?`, so the order of
the checks is the order of the source. `LabelFailure` is `label_failure` with
`probe_kid`.

`KeyRotation` adds the account (`Rotate`, `CheckOutLicense`, `CheckOutMachine`,
`Tick`), the customer's copy (`Damage`: another `alg` field, other PEM markers,
a truncated or undecodable signature, an edited or undecodable body) and the
application's key set (`Pin`, `SigningKeySet`). A `kid` is identified with its
key, except for the empty-column sentinel `EmptyKid` of accounts that were never
backfilled. Verification has no state, so the properties are state predicates
that quantify over files, keys, secrets and times.

### Heartbeat

Time is in thirds of a second so that a third of a window in whole seconds is exact. The
crate ships no scheduler; the loop is the one its documentation describes: ping
at the recommended interval, one at a time, stop on 404 and on no status.
`Pass` lets time pass, but neither beyond a due tick nor beyond `MaxLatency`
(sending to the server's write, retries included). A non-positive
`heartbeat_duration` is left out: the client replaces it by 600 while the
server's `COALESCE` would not, and whether the server can store one is not
visible here.

### Download

`RequestUrl` to `UrlAnswered` are `artifact_download_url` and the checks of the URL it
returns; `StorageRedirects` to `ClaimTooLarge` the fetch up to its headers, with
the early rejection; `Chunk`, `BodyEnds` and `BodyBreaks` the loop over the
body. `follows` says which of the client's two `reqwest::Client`s is in use:
`no_redirect_http` for the URL, `http` for the bytes. `credential` is any form of
`AuthTransport`; `Header` are those its `header` method puts into `Authorization`. What `reqwest` does is external and
taken from how the code and its `measured_*` tests rely on it: a followed
redirect keeps the `Authorization` header on one origin and a query parameter
nowhere; a response yields no more bytes than its `Content-Length`, and fewer
are an error; a body without length or chunks ends at any close. `claim` may be
false, since the code treats it as such.

## 3. Runs

| Run (cfg) | Instance | Shows |
|---|---|---|
| `activation_races` (`MCActivation_races`) | 3 calls, 2 licences of one seat: `l1` lets creates pass, `l2` refuses them and conflicts with both | `TypeOK`, `RollsBackOnlyItsOwn`, `AdoptsOwnLicenceOnly`, `RefusalLeavesNoTrace`, `NoneMeansNoMachine`, `ConfirmedWithinSeats`, `OverrunIsExcused`, and `SearchNeverMisses` while every search fits one page |
| `activation_reactivation` (`MCIdentity`) | 2 calls of either method on 2 hosts, one seat and at most two rows, pages of one row, every fingerprint resembles every other, a row of each host installed before | `RowPerHost`, `EveryCallReturns`, `ActivationIsAClaim` |
| `activation_adopted_rolled_back` | 3 calls, one licence | violation of `AdoptedNeverRolledBack` |
| `activation_paged_search` | 2 re-activations, pages of one row, fingerprints that resemble each other | violation of `SearchNeverMisses` once the search needs two pages |
| `calls_end_to_end` (`MCCalls`) | every request of the client, 2 retries, `Retry-After` of 0 or 3600 s, absent or unreadable, late 429s, every code, body and error document | `CallsTypeOK`, `UnsafeExecutedOnce`, `RefusalSpendsBudget`, `SleepBounded`, `UnsafeAnswerIsExact`, `GoneMeansGone`, `AnswerIsHeard`, `AbsentIsAuthoritative`, `PromiseKept`, `RequestReturns` |
| `retry_hang` (`MCRetry`) | default 3 retries | violation of `NeverHangsForMinutes` |
| `release_race` (`MCProcessRelease`) | 2 releases, 3 processes and one late one, pages of 2 | `TypeOK`, `CountsOwnRemovals`, `OkMeansReleased`, `OkOnlyWhenEmpty`, `EveryReleaseReturns` |
| `keys_rotation` (`MCKeyRotation`) | four keys, up to two rotations, one file, one damaged copy, ttl 100 or none | `TypeOK`, `AcceptsOnlyIssued`, `GenuineIsNeverForged`, `StaleOnlyForLaterFiles`, `LifetimeIsExact`, `OneDiagnosis` |
| `keys_decryption` | one file, one damaged copy | violation of `DecryptionFailedMeansWrongSecret` |
| `download_ceiling` (`MCDownload`) | ceiling 4, artifacts and claims of 0, 1, 3, 4, 5, 8 bytes, every chunking, up to two storage redirects | `TypeOK`, `OkIsTheArtifact`, `CeilingIsExact`, `NoCredentialReachesStorage`, `DownloadReturns` |
| `heartbeat_margin` (`MCHeartbeat`) | windows of 1, 2, 3, 4, 6 and 600 s, single losses, latency up to 1 s | `TypeOK`, `NeverStale`, `StaleIsResolved` |
| `heartbeat_two_lost` | the 600 s fallback, two losses | violation of `NeverStale` |

Why the bounds are enough:

- *Activation*. Three calls are needed for the deepest interplay known: one
  creates, one adopts, one takes the last seat. A licence has one seat, so two
  rows are an overrun. Two licences separate "this licence" from "some licence",
  and their two policies exercise both server behaviours in one run. Calls are
  symmetric (they are told apart only by the arguments they draw), which is
  used in the runs without liveness. Two pages are the fewest on which a row can
  move to one already read. `activation_races` has pages of two rows with at
  most one row matching a fingerprint exactly, so every search ends on its first page.
  The theorems (section 5) lift all bounds.
- *Identity*. One host may be read in two orders with stray whitespace; the other's readings
  are those that collide with the first host's if a rule of `canonical` is
  forgotten: a space, a separator or an equals sign in a value or a label, a
  duplicate label, nothing read. Pages of one row make every search walk. Creates pass above
  the seats, up to two rows, so that calls are taken, refused, adopted,
  confirmed, over the limit and rolled back: every action of `SeatClaims`
  occurs. The idempotent calls ask for the rollback, the others do not.
- *Calls*. Two retries are the fewest that make a second retry different from a
  last one; `retry_hang` has the default three. `Retry-After` at once and beyond the
  cap; absent, it leaves the back-off. The wanted entitlement is nowhere, first,
  or around the server's default page (25) and its ceiling (100); a caller's own page
  size is none or 10. One row and one identity suffice, since a request names one.
- *ProcessRelease*. Two pages, a registration during the walk, two walkers.
- *KeyRotation*. The properties speak about one file at a time, so one genuine
  file and one copy suffice; it may be issued under the first key or a
  later one and verified with a set fetched before or after. The times are the
  last second of the tolerance, the first after it, and the least time of the
  clock, where the subtraction saturates. `k3` is a key whose published row is unusable, `mistyped` a
  pinned key that is no curve point, and the first key is one whose files
  carry the empty-column kid.
- *Download*. Sizes below, at, just above and well above the ceiling; a claim may
  be smaller or larger than the artifact. `reqwest` follows ten redirects; two
  show that they change nothing.
- *Heartbeat*. Windows at, below and above the divisor, divisible and not, and
  the default. Latency up to the shortest interval.

Deadlock is not checked where the program legitimately ends: all calls done, no
more keys to rotate, the loop stopped.

### Disagreements between code and documentation

1. *An adopted machine can be rolled back* (`activation_adopted_rolled_back`).
   The doc of `activate_machine_idempotent` says `auto_delete_on_overage` never
   deletes an adopted machine. The code guarantees it for the machine *this* call
   adopted. A second call can adopt the row before the call that created it is
   told over-limit and rolls it back; the adopter then holds an id that is gone.
2. *A licence-scoped search can miss a re-activation* (`activation_paged_search`).
   The search pages by number; when a row of a page already read is deleted, the
   wanted row moves onto that page and is never seen. The 409 propagates.
3. *Three retries can hang for minutes* (`retry_hang`). Each `Retry-After` is
   capped at 60 s, their sum is not: three minutes by default.
4. *DecryptionFailed does not always mean a wrong secret* (`keys_decryption`).
   `alg` selects decryption and is not covered by the signature. A plain file
   whose `alg` was damaged into `aes-256-gcm` passes the signature and then fails to
   decrypt under the right secrets.
5. *Two lost pings do not leave one inside the window* (`heartbeat_two_lost`).
   With window / 3 the third ping is due exactly at the end of the window; it
   lands inside only if it is not slower than the last successful one.

Two more, with no run of their own. The docs of `TamgaError::Json`
(`src/src/error.rs`) and of `CheckInInterval` (`src/src/models/policy.rs`)
say that a body that does not decode is `TamgaError::Json`. The request path
decodes with `response.json().await?`, whose error is `reqwest`'s, so the caller sees
`TamgaError::Http`; `Hear` has it so.
And the doc of `jitter_millis` (`src/src/transport.rs`) says that "different processes
get different offsets"; the offsets of an attempt are equal exactly if the
process ids agree modulo 1000 (theorem `OffsetsTellProcessesApart`), as those of
containers often do.

## 4. Fairness

Safety runs use no fairness. Liveness runs assume only what the code arranges:

- `Activation.FairSpec`, `Retry.FairSpec` and `Calls.CallsFairSpec`: a request that is waited for is answered or
  fails, because every request carries `ClientConfig::timeout` (45 s by
  default), and a future that can make progress is polled. Retry's sleeps end.
  Nothing is assumed about requests nobody waits for, about evictions, or about
  which of the possible answers the server gives.
- `ProcessRelease.FairSpec`: a running call's next request is answered (or the
  call aborts, which ends it too). Registrations are bounded by `MaxId`: without
  a bound a release may rightly go on for ever.
- `Download.FairSpec`: every await ends, in an answer or at `ClientConfig::timeout`.
- `Heartbeat.FairSpec`: time passes, a due timer fires, a ping lands or is
  answered 404 unless it is lost, and the cull job runs when the policy requires
  heartbeats. Losses in a row are bounded by `MaxLost`.

## 5. Theorems

Every theorem holds for all values of the constants that satisfy the module's
assumptions; those assumptions are evaluated by the runs.

- **`ActivationProofs`**. `TypeCorrect`, `RollbackIsOwn`, `AdoptionIsScoped`,
  `RefusalIsClean`, `NoneIsTrue`, `SeatsAreConfirmedOnce`, `OverrunHasExcuse`:
  all safety properties of `activation_races` but `SearchNeverMisses`. None is inductive as it stands: a
  property about an outcome depends on the messages that led to it. The
  inductive invariant relates each call's `pc` to its request, its reply, the
  row it remembers and the rows at the server: ids on the wire and in rows are
  below `nextId` and unique, a created row in flight is the call's own, a page
  lists rows of the caller's licence, a call that was refused has no row. For
  the seats it adds that a VALID reply under way, or a `valid` outcome, was given
  when the caller's row was counted, so that the confirmed rows were all present
  at the last VALID verdict; the counting uses the finite-set theorems.
  `SearchNeverMisses` is false in general (finding 2), so the theorems about the search name
  what makes it true. `OnlyLossesMislead`: while rows come but none leaves, the walk finds the row,
  for any filter and page size. `OnePageSuffices`: a search whose first page is its last
  misses nothing, whatever is deleted meanwhile.
  `RowsStandApart`: a licence never holds two rows of one fingerprint, if it did not when
  the calls began (`InstalledApart`). From the last two `ReactivationIsFound`: no re-activation is
  missed where no fingerprint has more look-alikes than a page has rows (`FewLookAlike`).
  The invariant `WalkInv` says where a row the search is after can still be, given the
  page the walk has reached.
  `ImplementsClaims`: `Activation` implements `SeatClaims`. Each action has a lemma that
  names its abstract step (`CreateTakes`, `PageAdopts`, `ValidateRules`, `DeleteGivesBack`,
  `KeptIsGranted`, ...) or shows that there is none (`LearningStutters`). Three facts are added to
  the invariant: rows of a page differ in their ids, so that the first match is
  one row; a DELETE on the wire names all that its call has added; only an idempotent
  call searches. `AnswersStand`: a call that has told its caller anything but an error or an unconfirmed
  rollback has no create or delete left on the wire. `RefusalPreventsRollback`: where the
  policy refuses at the create (`RefusesAtCreate`), no licence exceeds its seats
  and nothing is ever rolled back, so finding 1 needs a policy that lets creates
  pass and rules later.
- **`RetryProofs`**. `TypeCorrect`, `UnsafeOnce`, `RefusalIsLast`,
  `SleepIsBounded`, `PromiseIsKept`. The invariant ties `attempt`, `sends` and
  `executed` to `pc` and to what is on the wire: an execution and a request on the wire never exceed the sends,
  an unsafe request is never sent twice, and the sleep so far is at most a
  minute per attempt. Safe requests, delays and header values are arbitrary, and
  `PromiseIsKept` holds for both values of `LateThrottle`. `JitterIsTheCodes`: the formula of
  `JitterMillis` is the code's, with its wrapping 32-bit products, for every process id and
  attempt; `OffsetsTellProcessesApart`: two processes share the offset of
  an attempt exactly if their ids agree modulo 1000; `OffsetsDifferByAttempt`: one process
  has no offset twice within a thousand attempts.
- **`CallsProofs`**. `ImplementsRetry`: every step of `Calls` is a step of `Retry`,
  so that the theorems above hold of every request of the client.
  `CallsTypeCorrect`, `UnsafeAnswersAreExact`, `NotFoundMeansGone`,
  `AnswersAreHeard`, `AbsentMeansAbsent`: the properties `Calls` adds. Lemmas first
  say of the table what the properties need (which requests are unsafe, which
  structs have a closed field). The invariant ties `commits` to the executions of
  `Retry`, and the answer on the wire to the rows: a success under way means the
  effect took place, a refusal that it did not, a `NOT_FOUND` that the row is
  gone and stays so.
- **`IdentityProofs`**. `CanonicalIdentifies`: two lists that `canonical` accepts have the same
  canonical text exactly if they hold the same labels with the same trimmed values,
  whatever the number and length of the components. The argument: `Ord for str` is a strict total
  order, so every part has its own place and the sort forgets the caller's order
  (`SortedForgetsOrder`); no part holds a separator, so the joined text can be taken apart
  in one way only (`JoinedTellsApart`); no label holds an equals sign, so neither can a part
  (`PartsTellApart`). `WhitespaceIsIgnored`: whitespace around a value never counts. Both loops
  would call for induction; the least turn at which a claim fails
  (`LeastNat`, from the well-foundedness of the naturals) does its work.
  `OneRowPerHost` follows with the invariant of `ActivationProofs`, from three
  hypotheses: `ReadingsIdentify`, that readings of one host differ in order and whitespace
  only and no two hosts read alike; `DigestsDiffer`, that SHA-256 does not collide
  on what is read; and `InstalledApart`, of the rows installed before. The invariant added: a
  call holds no row but one of the fingerprint it asked for. `RowsStandApart` says that
  there is one such row in the licence.
- **`ProcessReleaseProofs`**. `TypeCorrect`, `CountIsOwn`, `OkIsReleased`,
  `OkIsSeenEmpty`, for any number of releases, processes and any page size. The
  invariant: rows are below `nextId`, removed rows are gone for good, counts are
  cardinalities of finite disjoint sets.
- **`KeyRotationProofs`**. `TypeCorrect`, `OnlyIssuedIsAccepted`, `GenuineIsNotForged`,
  `FetchedSetIsCurrent`, `LifetimeEndsOnce`, `DiagnosisIsOne`: all properties of
  `keys_rotation`. Lemmas first say what each operator of `OfflineFile` returns
  (`Ed25519Accepts`, `FindsTheKey`, `LivesItsTtl`, ...); the invariant then says that a whole
  signature in anybody's hands is the server's over a body it issued, that what
  is issued has the shape the check-out handlers give it, that a set's kids name
  their own keys, and that a fetched set holds the signers of what it covers.
  Perfect cryptography is built into `SignedBy` and `Opens`, not assumed here.
  `DecryptionFailureHasCause` is what remains true of the sentence finding 4 refutes:
  DecryptionFailed means wrong secrets, or markers or an `alg` that are not
  those of the check-out.
- **`DownloadProofs`**. `TypeCorrect`, `OkIsWhole`, `CeilingIsMaxBytes`,
  `CredentialStays`, for every ceiling, size, claim and chunking. The invariant
  ties the buffer to what the response can still yield and each outcome to it.
- **`HeartbeatProofs`**. `TypeCorrect`; `GoneBeforeStopping` (a loop has ended only if its
  machine is gone), which needs no strengthening since rows do not return; and `MarginSuffices`: under `Margin`
  (single losses; latency at most the interval) `NeverStale` for every window.
  The invariant `Kept` bounds the machine's age plus the time to the next tick by
  the number of intervals since the last ping that landed. `Margin` is an
  assumption of the theorem, not of the module: finding 5 shows what happens
  without it.

Only model-checked: all liveness (`EveryCallReturns`, `RequestReturns`,
`EveryReleaseReturns`, `DownloadReturns`, `StaleIsResolved`), which is outside this
prover's reach. Not proved, since false: `SearchNeverMisses` without the hypotheses above.

## 6. Not modelled

- The server beyond what the client relies on; its handlers are marked external.
- Cryptographic primitives, base64, JSON and PEM, beyond which inputs they refuse.
- `OverageStrategy::allows`: one `f64` product and a comparison. Floating point is
  outside TLA+, and below 2^50 every product of the strategies is exact.
- `verify_offline_proof`: a prefix, a base64 field and one RSA verification over a
  text both sides serialise alike. The request that fetches a proof is in `Calls`.
- Formatting and parsing of headers (`Tamga-Version`, `X-RateLimit-*`, Basic
  credentials), which no decision of the client depends on; of `AuthTransport`
  only what decides whether a redirect could carry the credential.
- `observed_heartbeat_window`: a subtraction of two timestamps of one response.
- One-time passwords: the server's window for them is not visible in this code.

## 7. Plan

Done, in the order of importance: `Activation`; `Exchange` and `Retry`, with the
refinement; `ProcessRelease`; `OfflineFile` and `KeyRotation`; `Heartbeat`;
`Download`; `Resources`, `ErrorModel`, `Endpoints` and `Calls`; `Fingerprint` and
`Identity`; each with its proofs; `SeatClaims`, which `Activation` is proved to implement. Left:

1. `Fleet`: many clients using the delays of `Retry`. Clients whose process ids agree
   modulo 1000, as every process 1 of a container does, share their jitter, and
   a `Retry-After` has none.
2. A clock for `Download`: the timeout is per request, the URL request is retried,
   and a presigned URL expires in between.
3. Offline proofs as a third kind of file in `KeyRotation`.
