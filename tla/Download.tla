------------------------------- MODULE Download -------------------------------
(***************************************************************************)
(* Client::download_artifact: a presigned URL from the API, fetched with   *)
(* the credential and without following redirects, then the artifact from  *)
(* the storage host, without credential and following redirects, chunk by  *)
(* chunk under the caller's ceiling.  Each request is one exchange, as     *)
(* Exchange has it.                                                        *)
(***************************************************************************)
EXTENDS Naturals

CONSTANTS
    MaxBytes,   \* the max_bytes argument
    Sizes,      \* how many bytes an artifact may have, or a header may claim
    MaxHops     \* redirects reqwest follows, 10

ASSUME DownloadAssumption ==
    /\ MaxBytes \in Nat
    /\ Sizes \subseteq Nat
    /\ MaxHops \in Nat

VARIABLES
    credential, \* the AuthTransport of ClientConfig
    sameOrigin, \* is the storage host on the API's origin?
    stored,     \* bytes of the artifact in storage
    pc,
    follows,    \* does the client in use follow redirects?
    hops,       \* redirects followed from the presigned URL
    claim,      \* the framing of the storage host's response
    received,   \* body.len()
    exposed,    \* has a credential reached the storage host? (history)
    result

vars == <<credential, sameOrigin, stored, pc, follows, hops, claim, received,
          exposed, result>>

\* AuthTransport, with the three forms of Basic, and which of them its header
\* method puts in Authorization.  The other is a query parameter of the URL,
\* and a redirect has a URL of its own.
Basic == {"EmailPassword", "Token", "LicenseKey"}
AuthTransport == {"Bearer", "License", "Query"} \cup Basic
Header == AuthTransport \ {"Query"}

\* Bytes by Content-Length, in chunks, or until the connection closes.
Length(n) == [framing |-> "length", bytes |-> n]
NoLength(f) == [framing |-> f, bytes |-> 0]
Claims == {Length(n) : n \in Sizes} \cup {NoLength(f) : f \in {"chunked", "close"}}

Urls == {"absent", "malformed", "otherScheme", "http"}

-----------------------------------------------------------------------------
Return(r) ==
    /\ pc' = "done"
    /\ result' = r
    /\ UNCHANGED <<credential, sameOrigin, stored, follows, hops, claim>>

\* Mutant of RequestUrl: sent on the client every other method uses.
RequestUrlOnHttp ==
    /\ pc = "start"
    /\ pc' = "url" /\ follows' = TRUE
    /\ UNCHANGED <<credential, sameOrigin, stored, hops, claim, received, exposed, result>>

RequestUrl ==
    /\ pc = "start"
    /\ pc' = "url" /\ follows' = FALSE
    /\ UNCHANGED <<credential, sameOrigin, stored, hops, claim, received, exposed, result>>

\* An error, or what is no artifact resource.
UrlRefused ==
    /\ pc = "url"
    /\ Return("Api")
    /\ UNCHANGED <<received, exposed>>

\* Something ignores redirect=false.  A redirect that is followed keeps the
\* Authorization header on one origin, and ends in bytes that are no JSON.
UrlRedirected ==
    /\ pc = "url"
    /\ Return("Api")
    /\ exposed' = (exposed \/ (follows /\ sameOrigin /\ credential \in Header))
    /\ UNCHANGED received

UrlUnusable(u) ==
    /\ pc = "url"
    /\ u # "http"
    /\ Return(CASE u = "absent"      -> "MissingRedirectUrl"
                [] u = "malformed"   -> "MalformedRedirectUrl"
                [] u = "otherScheme" -> "UnsupportedRedirectScheme")
    /\ UNCHANGED <<received, exposed>>

UrlAnswered(u) ==
    /\ pc = "url"
    /\ u = "http"
    /\ pc' = "fetch" /\ follows' = TRUE
    /\ UNCHANGED <<credential, sameOrigin, stored, hops, claim, received, exposed, result>>

\* The storage host sends the fetch elsewhere.
StorageRedirects ==
    /\ pc = "fetch"
    /\ hops < MaxHops
    /\ hops' = hops + 1
    /\ UNCHANGED <<credential, sameOrigin, stored, pc, follows, claim, received,
                   exposed, result>>

\* Mutant of StorageRefuses: an expired URL is fetched again.
StorageRefusesFetchAgain ==
    /\ pc = "fetch"
    /\ hops' = 0
    /\ UNCHANGED <<credential, sameOrigin, stored, pc, follows, claim, received,
                   exposed, result>>

StorageRefuses ==
    /\ pc = "fetch"
    /\ Return("StorageStatus")
    /\ UNCHANGED <<received, exposed>>

\* No answer, or one redirect too many.
FetchFails ==
    /\ pc = "fetch"
    /\ Return("Fetch")
    /\ UNCHANGED <<received, exposed>>

\* The early rejection reads the Content-Length, if there is one.
StorageAnswers(c) ==
    /\ pc = "fetch"
    /\ c.framing = "length" => c.bytes <= MaxBytes
    /\ claim' = c
    /\ pc' = "reading"
    /\ UNCHANGED <<credential, sameOrigin, stored, follows, hops, received, exposed, result>>

ClaimTooLarge(c) ==
    /\ pc = "fetch"
    /\ c.framing = "length" /\ c.bytes > MaxBytes
    /\ pc' = "done" /\ result' = "TooLarge"
    /\ claim' = c
    /\ UNCHANGED <<credential, sameOrigin, stored, follows, hops, received, exposed>>

-----------------------------------------------------------------------------
(* The body.                                                               *)

Lesser(a, b) == IF a <= b THEN a ELSE b

\* What the response can still yield: no more than it claims.
Available == IF claim.framing = "length" THEN Lesser(claim.bytes, stored) ELSE stored

\* Mutants of Chunk: the ceiling is checked once the chunk is in the buffer;
\* an artifact of exactly the ceiling is too large.
ChunkThenCheck(n) ==
    /\ pc = "reading" /\ received + n <= Available
    /\ received' = received + n
    /\ IF received + n > MaxBytes
       THEN Return("TooLarge")
       ELSE UNCHANGED <<credential, sameOrigin, stored, pc, follows, hops, claim, result>>
    /\ UNCHANGED exposed
ChunkBelow(n) ==
    /\ pc = "reading" /\ received + n <= Available
    /\ IF received + n >= MaxBytes
       THEN received' = 0 /\ Return("TooLarge")
       ELSE /\ received' = received + n
            /\ UNCHANGED <<credential, sameOrigin, stored, pc, follows, hops, claim, result>>
    /\ UNCHANGED exposed

\* One chunk: appended, or the partial buffer is dropped.
Chunk(n) ==
    /\ pc = "reading" /\ received + n <= Available
    /\ IF received + n > MaxBytes
       THEN received' = 0 /\ Return("TooLarge")
       ELSE /\ received' = received + n
            /\ UNCHANGED <<credential, sameOrigin, stored, pc, follows, hops, claim, result>>
    /\ UNCHANGED exposed

\* The end the framing announces; a close may come at any byte.
BodyComplete ==
    CASE claim.framing = "length"  -> received = claim.bytes
      [] claim.framing = "chunked" -> received = stored
      [] claim.framing = "close"   -> TRUE

BodyEnds ==
    /\ pc = "reading" /\ BodyComplete
    /\ Return("Ok")
    /\ UNCHANGED <<received, exposed>>

\* Mutant of BodyBreaks: `while let Ok(Some(chunk))`.
BodyBreaksOff ==
    /\ pc = "reading"
    /\ Return("Ok")
    /\ UNCHANGED <<received, exposed>>

\* A reset, a timeout, or fewer bytes than announced.
BodyBreaks ==
    /\ pc = "reading"
    /\ received' = 0
    /\ Return("Fetch")
    /\ UNCHANGED exposed

\* The caller drops the future, and the buffer with it.
Cancel ==
    /\ pc # "done"
    /\ received' = 0
    /\ Return("cancelled")
    /\ UNCHANGED exposed

-----------------------------------------------------------------------------
Init ==
    /\ credential \in AuthTransport
    /\ sameOrigin \in BOOLEAN
    /\ stored \in Sizes
    /\ pc = "start" /\ follows = FALSE
    /\ hops = 0
    /\ claim = NoLength("chunked")
    /\ received = 0
    /\ exposed = FALSE
    /\ result = "pending"

Progress ==
    \/ RequestUrl \/ UrlRefused \/ UrlRedirected
    \/ \E u \in Urls : UrlUnusable(u) \/ UrlAnswered(u)
    \/ StorageRedirects \/ StorageRefuses \/ FetchFails
    \/ \E c \in Claims : StorageAnswers(c) \/ ClaimTooLarge(c)
    \/ \E n \in 1..stored : Chunk(n)
    \/ BodyEnds \/ BodyBreaks

Next == Progress \/ Cancel

Spec == Init /\ [][Next]_vars

\* Every await ends, in an answer or at ClientConfig::timeout.
FairSpec == Spec /\ WF_vars(Progress)

-----------------------------------------------------------------------------
(* Properties.                                                             *)

\* Every variable stays in its range; the buffer never outgrows the ceiling.
TypeOK ==
    /\ credential \in AuthTransport
    /\ sameOrigin \in BOOLEAN
    /\ stored \in Sizes
    /\ pc \in {"start", "url", "fetch", "reading", "done"}
    /\ follows \in BOOLEAN
    /\ hops \in 0..MaxHops
    /\ claim \in Claims
    /\ received \in 0..MaxBytes
    /\ exposed \in BOOLEAN
    /\ result \in {"pending", "Ok", "Api", "MissingRedirectUrl", "MalformedRedirectUrl",
                   "UnsupportedRedirectScheme", "StorageStatus", "Fetch", "TooLarge",
                   "cancelled"}

\* The host told where the body ends, and told the truth.
AnnouncesTruly ==
    /\ claim.framing # "close"
    /\ claim.framing = "length" => claim.bytes = stored

\* Whole or not at all: Ok comes with every byte of the artifact, whatever
\* breaks on the way, if the host announces truly where it ends.
OkIsTheArtifact == result = "Ok" /\ AnnouncesTruly => received = stored

\* The ceiling refuses what is above it and nothing else, whether the early
\* rejection or a chunk finds it out.
CeilingIsExact ==
    result \in {"Ok", "TooLarge"} /\ AnnouncesTruly =>
        (result = "TooLarge" <=> stored > MaxBytes)

\* "Handing a Tamga credential to a storage host is the failure this design
\* exists to prevent": whatever the server, the storage host and anything
\* between answer, and wherever storage is hosted.
NoCredentialReachesStorage == ~exposed

\* A download returns: redirects, chunks and failures cannot keep it alive.
DownloadReturns == <>(pc = "done")
=============================================================================
