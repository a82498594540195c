--------------------------- MODULE DownloadProofs ---------------------------
(***************************************************************************)
(* The safety properties of Download for every ceiling, every size of      *)
(* artifact and whatever the hosts answer.                                 *)
(***************************************************************************)
EXTENDS Download, TLAPS

\* The URL is asked for on the client that follows no redirect.
AsksWithoutRedirects == pc = "url" => ~follows

\* The buffer holds what the response has yielded.
BufferFollowsBody ==
    /\ pc \in {"start", "url", "fetch"} => received = 0
    /\ pc = "reading" => received <= Available

\* What each outcome says of the response.
OutcomeFollowsBody ==
    /\ result = "pending" <=> pc # "done"
    /\ result = "Ok" => BodyComplete
    /\ result = "TooLarge" =>
         \/ claim.framing = "length" /\ claim.bytes > MaxBytes
         \/ stored > MaxBytes

IInv ==
    /\ TypeOK
    /\ AsksWithoutRedirects
    /\ BufferFollowsBody
    /\ OutcomeFollowsBody
    /\ NoCredentialReachesStorage

-----------------------------------------------------------------------------
\* A framing and a number of bytes.
LEMMA ClaimForms ==
    ASSUME NEW c \in Claims
    PROVE  c.framing \in {"length", "chunked", "close"} /\ c.bytes \in Nat
BY DownloadAssumption DEF Claims, Length, NoLength

\* A download starts with nothing asked and nothing received.
LEMMA InitEstablishes == Init => IInv
<1> SUFFICES ASSUME Init PROVE IInv
    OBVIOUS
<1>1. NoLength("chunked") \in Claims
    BY DEF Claims, NoLength
<1>2. 0 \in 0..MaxBytes /\ 0 \in 0..MaxHops
    BY DownloadAssumption
<1>3. claim \in Claims /\ received \in 0..MaxBytes /\ hops \in 0..MaxHops
    BY <1>1, <1>2 DEF Init
<1>4. TypeOK
    BY <1>3 DEF Init, TypeOK
<1> QED BY <1>4 DEF Init, IInv, AsksWithoutRedirects, BufferFollowsBody,
                    OutcomeFollowsBody, NoCredentialReachesStorage

\* Asking for the URL and handling what the API answers.
LEMMA UrlPreserves ==
    ASSUME IInv,
           \/ RequestUrl \/ UrlRefused \/ UrlRedirected
           \/ \E u \in Urls : UrlUnusable(u) \/ UrlAnswered(u)
    PROVE  IInv'
<1> USE DEF IInv, AsksWithoutRedirects, BufferFollowsBody, OutcomeFollowsBody,
            NoCredentialReachesStorage, TypeOK
<1>1. CASE RequestUrl
    BY <1>1 DEF RequestUrl
<1>2. CASE UrlRefused
    BY <1>2 DEF UrlRefused, Return
<1>3. CASE UrlRedirected
    BY <1>3 DEF UrlRedirected, Return
<1>4. ASSUME NEW u \in Urls, UrlUnusable(u) PROVE IInv'
    BY <1>4 DEF UrlUnusable, Return, Urls
<1>5. ASSUME NEW u \in Urls, UrlAnswered(u) PROVE IInv'
    BY <1>5 DEF UrlAnswered
<1> QED BY <1>1, <1>2, <1>3, <1>4, <1>5

\* Fetching the URL, up to the headers of the response.
LEMMA FetchPreserves ==
    ASSUME IInv,
           \/ StorageRedirects \/ StorageRefuses \/ FetchFails
           \/ \E c \in Claims : StorageAnswers(c) \/ ClaimTooLarge(c)
    PROVE  IInv'
<1> USE DownloadAssumption, ClaimForms
    DEF IInv, AsksWithoutRedirects, BufferFollowsBody, OutcomeFollowsBody,
        NoCredentialReachesStorage, TypeOK
<1>1. CASE StorageRedirects
    BY <1>1 DEF StorageRedirects
<1>2. CASE StorageRefuses
    BY <1>2 DEF StorageRefuses, Return
<1>3. CASE FetchFails
    BY <1>3 DEF FetchFails, Return
<1>4. ASSUME NEW c \in Claims, StorageAnswers(c) PROVE IInv'
    BY <1>4 DEF StorageAnswers, Available, Lesser
<1>5. ASSUME NEW c \in Claims, ClaimTooLarge(c) PROVE IInv'
    BY <1>5 DEF ClaimTooLarge
<1> QED BY <1>1, <1>2, <1>3, <1>4, <1>5

\* Reading the body, or dropping it.
LEMMA BodyPreserves ==
    ASSUME IInv,
           \/ \E n \in 1..stored : Chunk(n)
           \/ BodyEnds \/ BodyBreaks \/ Cancel
    PROVE  IInv'
<1> USE DownloadAssumption, ClaimForms
    DEF IInv, AsksWithoutRedirects, BufferFollowsBody, OutcomeFollowsBody,
        NoCredentialReachesStorage, TypeOK
<1>1. Available <= stored /\ Available \in Nat
    BY DEF Available, Lesser
<1>2. ASSUME NEW n \in 1..stored, Chunk(n) PROVE IInv'
    <2>1. CASE received + n > MaxBytes
        BY <1>1, <1>2, <2>1 DEF Chunk, Return
    <2>2. CASE ~(received + n > MaxBytes)
        BY <1>1, <1>2, <2>2 DEF Chunk, Available
    <2> QED BY <2>1, <2>2
<1>3. CASE BodyEnds
    BY <1>3 DEF BodyEnds, Return, BodyComplete
<1>4. CASE BodyBreaks
    BY <1>4 DEF BodyBreaks, Return
<1>5. CASE Cancel
    BY <1>5 DEF Cancel, Return
<1> QED BY <1>2, <1>3, <1>4, <1>5

\* The invariant holds in every reachable state of download_artifact.
THEOREM InvariantHolds == Spec => []IInv
<1>1. IInv /\ [Next]_vars => IInv'
    <2> SUFFICES ASSUME IInv, [Next]_vars PROVE IInv'
        OBVIOUS
    <2>1. CASE UNCHANGED vars
        BY <2>1 DEF vars, IInv, TypeOK, AsksWithoutRedirects, BufferFollowsBody,
                    OutcomeFollowsBody, NoCredentialReachesStorage, BodyComplete, Available
    <2>2. CASE Next
        BY <2>2, UrlPreserves, FetchPreserves, BodyPreserves DEF Next, Progress
    <2> QED BY <2>1, <2>2
<1> QED BY <1>1, InitEstablishes, PTL DEF Spec

-----------------------------------------------------------------------------
(* The theorems.                                                           *)

\* No step of download_artifact holds more than max_bytes.
THEOREM TypeCorrect == Spec => []TypeOK
BY InvariantHolds, PTL DEF IInv

\* download_artifact returns the whole artifact or an error, if the storage
\* host announces truly where the artifact ends.
THEOREM OkIsWhole == Spec => []OkIsTheArtifact
<1>1. IInv => OkIsTheArtifact
    BY ClaimForms DEF IInv, TypeOK, OutcomeFollowsBody, BodyComplete, OkIsTheArtifact,
                      AnnouncesTruly
<1> QED BY <1>1, InvariantHolds, PTL

\* The ceiling is max_bytes itself, for both of its checks.
THEOREM CeilingIsMaxBytes == Spec => []CeilingIsExact
<1>1. IInv => CeilingIsExact
    <2> SUFFICES ASSUME IInv, result \in {"Ok", "TooLarge"}, AnnouncesTruly
                 PROVE  result = "TooLarge" <=> stored > MaxBytes
        BY DEF CeilingIsExact
    <2>1. stored \in Nat /\ received \in Nat /\ received <= MaxBytes /\ MaxBytes \in Nat
        BY DownloadAssumption DEF IInv, TypeOK
    <2>2. result = "Ok" => received = stored
        BY ClaimForms DEF IInv, TypeOK, OutcomeFollowsBody, BodyComplete, AnnouncesTruly
    <2>3. result = "TooLarge" => stored > MaxBytes
        BY DEF IInv, OutcomeFollowsBody, AnnouncesTruly
    <2> QED BY <2>1, <2>2, <2>3
<1> QED BY <1>1, InvariantHolds, PTL

\* No answer of any host sends the credential to storage.
THEOREM CredentialStays == Spec => []NoCredentialReachesStorage
BY InvariantHolds, PTL DEF IInv
=============================================================================
