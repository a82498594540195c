-------------------------- MODULE KeyRotationProofs --------------------------
(***************************************************************************)
(* The properties of KeyRotation for every set of keys, every number of    *)
(* files, copies and rotations, and every clock.                           *)
(***************************************************************************)
EXTENDS KeyRotation, FiniteSetTheorems, TLAPS

(***************************************************************************)
(* The invariant.                                                          *)
(***************************************************************************)

\* Only keys that sign are published.
PublishedSign == published \cap OffCurve = {}

\* What the check-out handlers make.
AsCheckedOut(c) ==
  /\ c.pem = c.body.about
  /\ c.encoding = IF c.body.sealed THEN "aes-256-gcm" ELSE "base64"
  /\ c.suffix = SchemeAlgSuffix(c.scheme)
  /\ c.version = "v2"
  /\ c.sig = "whole" /\ c.signed = c.body
  /\ c.body.shape = "intact"
  /\ c.body.about = "license" => c.scheme = "Ed25519Sign"
  /\ c.scheme # "Rsa2048JwtRs256"
  /\ c.scheme # "Ed25519Sign" => c.signer = OtherKey
  /\ c.scheme = "Ed25519Sign" => c.signer \in published /\ c.body.kid \in {c.signer, EmptyKid}

IssuedAsCheckedOut ==
  /\ IsFiniteSet(issued)
  /\ \A i \in issued :
       /\ AsCheckedOut(i.cert)
       /\ i.cert.body.exp = IF i.ttl = NoExp THEN NoExp ELSE i.at + i.ttl

\* A whole signature is one the server made, over a body it issued.
SignaturesAreIssued ==
  \A c \in files : c.sig = "whole" =>
    \E i \in issued : /\ i.cert.body = c.signed
                      /\ i.cert.scheme = c.scheme
                      /\ i.cert.signer = c.signer

\* No kid in a key set names another key, and a fetched set holds the keys
\* of the files it covers.
HeldByKey ==
  /\ \A e \in held : e.kid = e.key
  /\ \A i \in covered :
       i.cert.scheme = "Ed25519Sign" /\ i.cert.signer \notin Undecodable =>
         \E e \in held : e.key = i.cert.signer

IInv == TypeOK /\ PublishedSign /\ IssuedAsCheckedOut /\ SignaturesAreIssued /\ HeldByKey

-----------------------------------------------------------------------------
(* What the operators of OfflineFile return.                               *)

\* The alg of a check-out is the one its scheme is verified with.
LEMMA SuffixIsNamed ==
  ASSUME NEW s \in Schemes
  PROVE  SchemeAlgSuffix(s) \in {SchemeAlgSuffix(r) : r \in Schemes}
OBVIOUS

\* The `?` lets an Ok through.
LEMMA TryOk ==
  ASSUME NEW r, NEW n
  PROVE  /\ Try("Ok", n) = n
         /\ Try(r, n) = "Ok" <=> r = "Ok" /\ n = "Ok"
BY DEF Try

\* Ed25519 verification accepts what the key signed, and nothing else.
LEMMA Ed25519Accepts ==
  ASSUME NEW k, NEW c
  PROVE  /\ Ed25519Verify(k, c) = "Ok" <=>
              k \in Keys \ OffCurve /\ SignedBy("Ed25519Sign", k, c)
         /\ Ed25519Verify(k, c) = "InvalidSignature" => c.sig = "cut"
         /\ Ed25519Verify(k, c) \in {"Ok", "InvalidKey", "InvalidSignature", "VerificationFailed"}
BY DEF Ed25519Verify, SignedBy

\* The other schemes likewise.
LEMMA OtherAccepts ==
  ASSUME NEW s, NEW k, NEW c
  PROVE  OtherVerify(s, k, c) = "Ok" <=> SignedBy(s, k, c)
BY DEF OtherVerify

\* find_verifying_key answers Ok when, and only when, an entry verifies.
LEMMA FindsTheKey ==
  ASSUME NEW set, NEW c
  PROVE  /\ FindVerifyingKey(set, c) = "Ok" <=>
              \E e \in set : Ed25519Verify(e.key, c) = "Ok"
         /\ FindVerifyingKey(set, c) \in {"Ok", "InvalidSignature", "None"}
         /\ FindVerifyingKey(set, c) = "InvalidSignature" =>
              \E e \in set : Ed25519Verify(e.key, c) = "InvalidSignature"
         /\ FindVerifyingKey(set, c) = "None" =>
              \A e \in set : Ed25519Verify(e.key, c) # "InvalidSignature"
BY DEF FindVerifyingKey

\* Only a JSON body about the right kind of thing is returned.
LEMMA FinishAccepts ==
  ASSUME NEW kind, NEW c, NEW args, NEW at, OpenAndFinish(kind, c, args, at) = "Ok"
  PROVE  c.body.about = kind
BY TryOk DEF OpenAndFinish, Finish

\* label_failure never accepts.
LEMMA LabelRefuses ==
  ASSUME NEW set, NEW c, NEW d
  PROVE  LabelFailure(set, c, d) # "Ok"
BY DEF LabelFailure

\* The right secrets open what was checked out.
LEMMA CheckedOutDecodes ==
  ASSUME NEW c \in Certificates, AsCheckedOut(c)
  PROVE  /\ Decode(c.pem, c, RightArguments) = "Ok"
         /\ IsJson(c)
<1>1. c.body.about \in Kinds /\ c.body.sealed \in BOOLEAN
  BY DEF Certificates, Bodies
<1>2. CASE c.body.sealed
  BY <1>1, <1>2 DEF AsCheckedOut, Decode, DecodeLicense, DecodeMachine, Dotted, Opens,
                    RightArguments, Kinds, IsJson
<1>3. CASE ~c.body.sealed
  BY <1>1, <1>3 DEF AsCheckedOut, Decode, DecodeLicense, DecodeMachine, Dotted, Opens,
                    RightArguments, Kinds, IsJson
<1> QED BY <1>1, <1>2, <1>3

\* The first and the last second of a file.
LEMMA LivesItsTtl ==
  ASSUME NEW c \in Certificates, AsCheckedOut(c), NEW t \in Int, NEW at \in Nat,
         NEW ttl \in Nat \cup {NoExp},
         c.body.exp = IF ttl = NoExp THEN NoExp ELSE at + ttl
  PROVE  OpenAndFinish(c.pem, c, RightArguments, t) =
           IF ttl = NoExp \/ t <= at + ttl + 60 THEN "Ok" ELSE "Expired"
<1>1. OpenAndFinish(c.pem, c, RightArguments, t) = Finish(c.pem, c, t)
  BY CheckedOutDecodes, TryOk DEF OpenAndFinish
<1>2. IsJson(c) /\ c.body.about = c.pem
  BY CheckedOutDecodes DEF AsCheckedOut
<1>3. CASE ttl = NoExp
  BY <1>1, <1>2, <1>3 DEF Finish
<1>4. CASE ttl # NoExp
  <2>1. ttl \in Nat /\ at + ttl \in Int /\ at + ttl # NoExp /\ at + ttl >= 0
    BY <1>4, OfflineFileAssumption
  <2>2. c.body.exp = at + ttl
    BY <1>4
  <2>3. SaturatingSub(t, 60) > at + ttl <=> ~(t <= at + ttl + 60)
    BY <2>1, OfflineFileAssumption DEF SaturatingSub
  <2> QED BY <1>1, <1>2, <1>4, <2>1, <2>2, <2>3 DEF Finish, ClockSkewToleranceSecs
<1> QED BY <1>3, <1>4

\* A checked-out file passes every check before its signature.
LEMMA CheckedOutIsWellFormed ==
  ASSUME NEW c \in Certificates, AsCheckedOut(c)
  PROVE  /\ ParseEnvelope(c.pem, c) = "Ok"
         /\ ValidateAlg(c, SchemeAlgSuffix(c.scheme)) = "Ok"
         /\ DecodeSignature(c) = "Ok"
         /\ SignedBy(c.scheme, c.signer, c)
BY DEF ParseEnvelope, ValidateAlg, DecodeSignature, SignedBy, AsCheckedOut, Encodings

\* An Ed25519 file verifies with every set that holds its key.
LEMMA HeldKeyVerifies ==
  ASSUME TypeOK, PublishedSign, NEW c \in Certificates, AsCheckedOut(c),
         c.scheme = "Ed25519Sign",
         NEW set, NEW e \in set, e.key = c.signer, NEW t
  PROVE  VerifyWithKeySet(c.pem, c, set, RightArguments, t)
           = OpenAndFinish(c.pem, c, RightArguments, t)
<1>1. Ed25519Verify(e.key, c) = "Ok"
  BY Ed25519Accepts, CheckedOutIsWellFormed DEF AsCheckedOut, TypeOK, PublishedSign
<1>2. FindVerifyingKey(set, c) = "Ok"
  BY <1>1, FindsTheKey
<1>3. SchemeAlgSuffix(c.scheme) = "ed25519"
  BY DEF SchemeAlgSuffix
<1> QED BY <1>2, <1>3, CheckedOutIsWellFormed, TryOk DEF VerifyWithKeySet

\* It is reported as unknown by every set that does not hold its key.
LEMMA UnheldKeyIsUnknown ==
  ASSUME TypeOK, NEW c \in Certificates, AsCheckedOut(c), c.scheme = "Ed25519Sign",
         NEW set \in KeySets, \A e \in set : e.kid = e.key /\ e.key # c.signer, NEW t
  PROVE  VerifyWithKeySet(c.pem, c, set, RightArguments, t) = "UnknownSigningKey"
<1>1. FindVerifyingKey(set, c) = "None"
  <2>1. FindVerifyingKey(set, c) # "Ok"
    BY FindsTheKey, Ed25519Accepts DEF SignedBy
  <2>2. FindVerifyingKey(set, c) # "InvalidSignature"
    BY FindsTheKey, Ed25519Accepts DEF AsCheckedOut
  <2> QED BY <2>1, <2>2, FindsTheKey
<1>2. ~Holds(set, c.body.kid)
  BY OfflineFileAssumption DEF Holds, KeySets, AsCheckedOut
<1>3. LabelFailure(set, c, Decode(c.pem, c, RightArguments)) = "UnknownSigningKey"
  BY <1>2, CheckedOutDecodes DEF LabelFailure
<1>4. SchemeAlgSuffix(c.scheme) = "ed25519"
  BY DEF SchemeAlgSuffix
<1> QED BY <1>1, <1>3, <1>4, CheckedOutIsWellFormed, TryOk DEF VerifyWithKeySet

-----------------------------------------------------------------------------
(* What the invariant gives.                                               *)

\* A signature that verifies is the server's, over the body it issued.
LEMMA SignedMeansGenuine ==
  ASSUME IInv, NEW c \in files, NEW s, NEW k, SignedBy(s, k, c)
  PROVE  Genuine(c, s, k)
BY DEF SignedBy, IInv, SignaturesAreIssued, Genuine

\* An accepted file carries a signature of the server over the body it issued.
LEMMA AcceptsIssued == IInv => AcceptsOnlyIssued
<1> SUFFICES ASSUME IInv, NEW c \in files, NEW a \in Arguments
             PROVE  /\ \A kind \in Kinds :
                         VerifyWithKeySet(kind, c, held, a, MinTime) = "Ok" =>
                           /\ c.body.about = kind
                           /\ \E e \in held : Genuine(c, "Ed25519Sign", e.key)
                    /\ \A k \in Keys :
                         VerifyLicenseFile(c, k, a, MinTime) = "Ok" =>
                           c.body.about = "license" /\ Genuine(c, "Ed25519Sign", k)
                    /\ \A s \in Schemes, k \in Keys \cup {OtherKey} :
                         VerifyMachineFile(c, s, k, a, MinTime) = "Ok" =>
                           c.body.about = "machine" /\ Genuine(c, s, k)
  BY DEF AcceptsOnlyIssued
<1>1. ASSUME NEW kind \in Kinds, VerifyWithKeySet(kind, c, held, a, MinTime) = "Ok"
      PROVE  c.body.about = kind /\ \E e \in held : Genuine(c, "Ed25519Sign", e.key)
  <2> DEFINE found == FindVerifyingKey(held, c)
  <2>1. (IF found = "None" THEN LabelFailure(held, c, Decode(kind, c, a))
         ELSE Try(found, OpenAndFinish(kind, c, a, MinTime))) = "Ok"
    BY <1>1, TryOk DEF VerifyWithKeySet
  <2>2. found = "Ok" /\ OpenAndFinish(kind, c, a, MinTime) = "Ok"
    BY <2>1, LabelRefuses, TryOk
  <2>3. PICK e \in held : Ed25519Verify(e.key, c) = "Ok"
    BY <2>2, FindsTheKey
  <2>4. Genuine(c, "Ed25519Sign", e.key)
    BY <2>3, Ed25519Accepts, SignedMeansGenuine
  <2> QED BY <2>2, <2>4, FinishAccepts
<1>2. ASSUME NEW k \in Keys, VerifyLicenseFile(c, k, a, MinTime) = "Ok"
      PROVE  c.body.about = "license" /\ Genuine(c, "Ed25519Sign", k)
  <2>1. Ed25519Verify(k, c) = "Ok" /\ OpenAndFinish("license", c, a, MinTime) = "Ok"
    BY <1>2, TryOk DEF VerifyLicenseFile
  <2> QED BY <2>1, Ed25519Accepts, SignedMeansGenuine, FinishAccepts
<1>3. ASSUME NEW s \in Schemes, NEW k \in Keys \cup {OtherKey},
             VerifyMachineFile(c, s, k, a, MinTime) = "Ok"
      PROVE  c.body.about = "machine" /\ Genuine(c, s, k)
  <2>1. /\ (IF s = "Ed25519Sign" THEN Ed25519Verify(k, c) ELSE OtherVerify(s, k, c)) = "Ok"
        /\ OpenAndFinish("machine", c, a, MinTime) = "Ok"
    BY <1>3, TryOk DEF VerifyMachineFile
  <2>2. SignedBy(s, k, c)
    BY <2>1, Ed25519Accepts, OtherAccepts
  <2> QED BY <2>1, <2>2, SignedMeansGenuine, FinishAccepts
<1> QED BY <1>1, <1>2, <1>3

\* An issued file is a certificate with times the lemmas above can use.
LEMMA IssuedAreCertificates ==
  ASSUME IInv, NEW i \in issued
  PROVE  /\ i.cert \in Certificates /\ AsCheckedOut(i.cert)
         /\ i.at \in Nat /\ i.ttl \in Nat \cup {NoExp}
         /\ i.cert.body.exp = IF i.ttl = NoExp THEN NoExp ELSE i.at + i.ttl
BY DEF IInv, TypeOK, IssuedAsCheckedOut

\* Every time of the clock is past or before the expiry of an issued file.
LEMMA IssuedOpens ==
  ASSUME IInv, NEW i \in issued, NEW t \in Clock
  PROVE  OpenAndFinish(i.cert.pem, i.cert, RightArguments, t) =
           IF i.ttl = NoExp \/ t <= i.at + i.ttl + 60 THEN "Ok" ELSE "Expired"
<1>1. t \in Int
  BY KeyRotationAssumption
<1> QED BY <1>1, IssuedAreCertificates, LivesItsTtl

\* The set either holds the signer or cannot be holding the kid.
LEMMA GenuineIsNamed == IInv => GenuineIsNeverForged
<1> SUFFICES ASSUME IInv, NEW i \in issued, NEW t \in Clock, i.cert.scheme = "Ed25519Sign"
             PROVE  VerifyWithKeySet(i.cert.pem, i.cert, held, RightArguments, t)
                      \in IF \E e \in held : e.key = i.cert.signer THEN {"Ok", "Expired"}
                          ELSE {"UnknownSigningKey"}
  BY DEF GenuineIsNeverForged
<1>1. TypeOK /\ PublishedSign /\ held \in KeySets /\ \A e \in held : e.kid = e.key
  BY DEF IInv, TypeOK, HeldByKey
<1>2. CASE \E e \in held : e.key = i.cert.signer
  <2>1. PICK e \in held : e.key = i.cert.signer
    BY <1>2
  <2>2. VerifyWithKeySet(i.cert.pem, i.cert, held, RightArguments, t)
          = OpenAndFinish(i.cert.pem, i.cert, RightArguments, t)
    BY <1>1, <2>1, IssuedAreCertificates, HeldKeyVerifies
  <2> QED BY <1>2, <2>2, IssuedOpens
<1>3. CASE ~ \E e \in held : e.key = i.cert.signer
  <2>1. VerifyWithKeySet(i.cert.pem, i.cert, held, RightArguments, t) = "UnknownSigningKey"
    BY <1>1, <1>3, IssuedAreCertificates, UnheldKeyIsUnknown
  <2> QED BY <1>3, <2>1
<1> QED BY <1>2, <1>3

\* Every file a fetched set covers has its signer in the set.
LEMMA StaleIsLater == IInv => StaleOnlyForLaterFiles
<1> SUFFICES ASSUME IInv, NEW i \in covered, NEW t \in Clock,
                    i.cert.scheme = "Ed25519Sign", i.cert.signer \notin Undecodable
             PROVE  VerifyWithKeySet(i.cert.pem, i.cert, held, RightArguments, t)
                      # "UnknownSigningKey"
  BY DEF StaleOnlyForLaterFiles
<1>1. i \in issued /\ \E e \in held : e.key = i.cert.signer
  BY DEF IInv, TypeOK, HeldByKey
<1>2. VerifyWithKeySet(i.cert.pem, i.cert, held, RightArguments, t) \in {"Ok", "Expired"}
  BY <1>1, GenuineIsNamed DEF GenuineIsNeverForged
<1> QED BY <1>2

\* Before its expiry is asked for, an issued file passes every check.
LEMMA LifetimeIsTtl == IInv => LifetimeIsExact
<1> SUFFICES ASSUME IInv, NEW i \in issued, NEW t \in Clock
             PROVE  LET c       == i.cert
                        inTime  == i.ttl = NoExp \/ t <= i.at + i.ttl + 60
                        verdict == IF inTime THEN "Ok" ELSE "Expired"
                    IN  /\ c.pem = "license" =>
                             VerifyLicenseFile(c, c.signer, RightArguments, t) = verdict
                        /\ c.pem = "machine" =>
                             VerifyMachineFile(c, c.scheme, c.signer, RightArguments, t) = verdict
                        /\ c.scheme = "Ed25519Sign" =>
                             VerifyWithKeySet(c.pem, c, Only(c.signer), RightArguments, t) = verdict
  BY DEF LifetimeIsExact
<1> DEFINE c == i.cert
           opened == OpenAndFinish(c.pem, c, RightArguments, t)
<1>1. c \in Certificates /\ AsCheckedOut(c) /\ TypeOK /\ PublishedSign
  BY IssuedAreCertificates DEF IInv
<1>2. opened = IF i.ttl = NoExp \/ t <= i.at + i.ttl + 60 THEN "Ok" ELSE "Expired"
  BY IssuedOpens
<1>3. c.scheme = "Ed25519Sign" => Ed25519Verify(c.signer, c) = "Ok"
  BY <1>1, Ed25519Accepts, CheckedOutIsWellFormed DEF AsCheckedOut, TypeOK, PublishedSign
<1>4. c.scheme # "Ed25519Sign" => OtherVerify(c.scheme, c.signer, c) = "Ok"
  BY <1>1, OtherAccepts, CheckedOutIsWellFormed
<1> HIDE DEF c
<1>5. c.pem = "license" => VerifyLicenseFile(c, c.signer, RightArguments, t) = opened
  <2> SUFFICES ASSUME c.pem = "license"
               PROVE  VerifyLicenseFile(c, c.signer, RightArguments, t) = opened
    OBVIOUS
  <2>1. c.scheme = "Ed25519Sign" /\ SchemeAlgSuffix(c.scheme) = "ed25519"
    BY <1>1 DEF AsCheckedOut, SchemeAlgSuffix
  <2> QED BY <1>1, <1>3, <2>1, CheckedOutIsWellFormed, TryOk DEF VerifyLicenseFile
<1>6. c.pem = "machine" => VerifyMachineFile(c, c.scheme, c.signer, RightArguments, t) = opened
  <2>1. c.scheme # "Rsa2048JwtRs256"
    BY <1>1 DEF AsCheckedOut
  <2> QED BY <1>1, <1>3, <1>4, <2>1, CheckedOutIsWellFormed, TryOk DEF VerifyMachineFile
<1>7. c.scheme = "Ed25519Sign" =>
        VerifyWithKeySet(c.pem, c, Only(c.signer), RightArguments, t) = opened
  <2>1. [kid |-> c.signer, key |-> c.signer] \in Only(c.signer)
    BY DEF Only, FromPublicKeys
  <2> QED BY <1>1, <2>1, HeldKeyVerifies
<1> QED BY <1>2, <1>5, <1>6, <1>7 DEF c

\* The two ways of verifying agree but on a signature that does not verify.
LEMMA DiagnosesAgree == IInv => OneDiagnosis
<1> SUFFICES ASSUME IInv, NEW c \in files, NEW k \in Keys, NEW a \in Arguments, NEW t \in Clock
             PROVE  LET many == VerifyWithKeySet(c.pem, c, Only(k), a, t)
                        one  == IF c.pem = "license" THEN VerifyLicenseFile(c, k, a, t)
                                ELSE VerifyMachineFile(c, "Ed25519Sign", k, a, t)
                    IN  /\ \/ many = one
                           \/ /\ one \in {"VerificationFailed", "InvalidKey"}
                              /\ many \in {"VerificationFailed", "UnknownSigningKey",
                                           "LicenseKeyMissing", "FingerprintMissing"}
                        /\ c.version # "v2" => many = "UnsupportedAlgorithm"
  BY DEF OneDiagnosis
<1> DEFINE many    == VerifyWithKeySet(c.pem, c, Only(k), a, t)
           one     == IF c.pem = "license" THEN VerifyLicenseFile(c, k, a, t)
                      ELSE VerifyMachineFile(c, "Ed25519Sign", k, a, t)
           found   == FindVerifyingKey(Only(k), c)
           checked == Ed25519Verify(k, c)
           opened  == OpenAndFinish(c.pem, c, a, t)
           named   == LabelFailure(Only(k), c, Decode(c.pem, c, a))
           Agree   == /\ \/ many = one
                         \/ /\ one \in {"VerificationFailed", "InvalidKey"}
                            /\ many \in {"VerificationFailed", "UnknownSigningKey",
                                         "LicenseKeyMissing", "FingerprintMissing"}
                      /\ c.version # "v2" => many = "UnsupportedAlgorithm"
<1>1. ParseEnvelope(c.pem, c) = "Ok" /\ c.pem \in {"license", "machine"}
  BY DEF ParseEnvelope, IInv, TypeOK, Certificates, Kinds
<1>2. many = Try(ValidateAlg(c, "ed25519"), Try(DecodeSignature(c),
               IF found = "None" THEN named ELSE Try(found, opened)))
  BY <1>1, TryOk DEF VerifyWithKeySet
<1>3. one = Try(ValidateAlg(c, "ed25519"), Try(DecodeSignature(c), Try(checked, opened)))
  <2>1. SchemeAlgSuffix("Ed25519Sign") = "ed25519"
    BY DEF SchemeAlgSuffix
  <2> QED BY <1>1, <2>1, TryOk DEF VerifyLicenseFile, VerifyMachineFile
<1>4. found = IF checked \in {"Ok", "InvalidSignature"} THEN checked ELSE "None"
  <2>1. [kid |-> k, key |-> k] \in Only(k) /\ \A e \in Only(k) : e.key = k
    BY DEF Only, FromPublicKeys
  <2>2. checked = "Ok" <=> found = "Ok"
    BY <2>1, FindsTheKey
  <2>3. checked = "InvalidSignature" => found = "InvalidSignature"
    BY <2>1, <2>2, FindsTheKey
  <2>4. found = "InvalidSignature" => checked = "InvalidSignature"
    BY <2>1, FindsTheKey
  <2> QED BY <2>2, <2>3, <2>4, FindsTheKey
<1>5. checked \in {"Ok", "InvalidKey", "InvalidSignature", "VerificationFailed"}
  BY Ed25519Accepts
<1>6. named \in {"VerificationFailed", "UnknownSigningKey",
                 "LicenseKeyMissing", "FingerprintMissing"}
  BY DEF LabelFailure
<1>7. c.version # "v2" => ValidateAlg(c, "ed25519") = "UnsupportedAlgorithm"
  BY DEF ValidateAlg
<1> HIDE DEF many, one, found, checked, opened, named
<1>8. checked \in {"Ok", "InvalidSignature"} => Agree
  BY <1>2, <1>3, <1>4, <1>7 DEF Try
<1>9. checked \in {"InvalidKey", "VerificationFailed"} => Agree
  BY <1>2, <1>3, <1>4, <1>6, <1>7 DEF Try
<1> QED BY <1>5, <1>8, <1>9 DEF many, one

-----------------------------------------------------------------------------
(* The invariant is inductive.                                             *)

\* A new account has issued nothing.
LEMMA InitEstablishes == Init => IInv
<1> SUFFICES ASSUME Init PROVE IInv
  OBVIOUS
<1>1. TypeOK
  BY KeyRotationAssumption DEF Init, TypeOK, KeySets
<1>2. PublishedSign /\ SignaturesAreIssued /\ HeldByKey
  BY KeyRotationAssumption DEF Init, PublishedSign, SignaturesAreIssued, HeldByKey
<1>3. IssuedAsCheckedOut
  BY FS_EmptySet DEF Init, IssuedAsCheckedOut
<1> QED BY <1>1, <1>2, <1>3 DEF IInv

\* rotate_ed25519 adds a key and takes none away.
LEMMA RotatePreserves ==
  ASSUME IInv, NEW k \in Keys, Rotate(k)
  PROVE  IInv'
<1>1. TypeOK'
  BY DEF IInv, TypeOK, Rotate
<1>2. PublishedSign'
  BY DEF IInv, PublishedSign, Rotate
<1>3. IssuedAsCheckedOut'
  BY DEF IInv, IssuedAsCheckedOut, AsCheckedOut, Rotate
<1>4. SignaturesAreIssued' /\ HeldByKey'
  BY DEF IInv, SignaturesAreIssued, HeldByKey, Rotate
<1> QED BY <1>1, <1>2, <1>3, <1>4 DEF IInv

\* The server's clock changes nothing but later check-outs.
LEMMA TickPreserves ==
  ASSUME IInv, NEW t \in ServerClock, Tick(t)
  PROVE  IInv'
<1>1. TypeOK'
  BY KeyRotationAssumption DEF IInv, TypeOK, Tick
<1>2. PublishedSign' /\ IssuedAsCheckedOut' /\ SignaturesAreIssued' /\ HeldByKey'
  BY DEF IInv, PublishedSign, IssuedAsCheckedOut, AsCheckedOut, SignaturesAreIssued,
         HeldByKey, Tick
<1> QED BY <1>1, <1>2 DEF IInv

\* What a check-out makes is a certificate as checked out.
LEMMA NewCertificateIsCheckedOut ==
  ASSUME IInv, NEW kind \in Kinds, NEW scheme \in Schemes, NEW sealed \in BOOLEAN,
         NEW ttl \in Ttls, scheme # "Rsa2048JwtRs256",
         kind = "license" => scheme = "Ed25519Sign"
  PROVE  LET b == NewBody(kind, sealed, ttl)
             c == NewCertificate(scheme, b)
         IN  /\ c \in Certificates /\ AsCheckedOut(c)
             /\ c.body = b /\ c.scheme = scheme
             /\ b.exp = IF ttl = NoExp THEN NoExp ELSE time + ttl
<1> DEFINE b == NewBody(kind, sealed, ttl)
           c == NewCertificate(scheme, b)
<1>1. ttl \in Nat \cup {NoExp} /\ time \in Nat /\ active \in published /\ active \in Keys
  BY KeyRotationAssumption DEF IInv, TypeOK
<1>2. Cardinality(issued) + 1 \in Nat
  BY FS_CardinalityType DEF IInv, IssuedAsCheckedOut
<1>3. b \in Bodies
  BY <1>1, <1>2 DEF NewBody, Bodies
<1>4. /\ b.about = kind /\ b.sealed = sealed /\ b.shape = "intact"
      /\ b.kid \in {active, EmptyKid}
      /\ b.exp = IF ttl = NoExp THEN NoExp ELSE time + ttl
  BY DEF NewBody
<1> HIDE DEF b
<1>5. SchemeAlgSuffix(scheme) \in {SchemeAlgSuffix(s) : s \in Schemes}
  BY SuffixIsNamed
<1>6. c \in Certificates
  BY <1>1, <1>3, <1>4, <1>5 DEF NewCertificate, Certificates, Encodings
<1>7. AsCheckedOut(c)
  BY <1>1, <1>4 DEF NewCertificate, AsCheckedOut
<1>8. c.body = b /\ c.scheme = scheme
  BY DEF NewCertificate
<1> QED BY <1>4, <1>6, <1>7, <1>8 DEF b

\* A check-out adds one file, its own.
LEMMA CheckOutPreserves ==
  ASSUME IInv, NEW kind \in Kinds, NEW scheme \in Schemes, NEW sealed \in BOOLEAN,
         NEW ttl \in Ttls, scheme # "Rsa2048JwtRs256",
         kind = "license" => scheme = "Ed25519Sign",
         CheckOut(scheme, NewBody(kind, sealed, ttl), ttl)
  PROVE  IInv'
<1> DEFINE c == NewCertificate(scheme, NewBody(kind, sealed, ttl))
           i == [cert |-> c, at |-> time, ttl |-> ttl]
<1>1. /\ issued' = issued \cup {i}
      /\ files' = files \cup {c}
      /\ UNCHANGED <<active, published, time, held, covered>>
  BY DEF CheckOut
<1>2. /\ c \in Certificates /\ AsCheckedOut(c)
      /\ c.body.exp = IF ttl = NoExp THEN NoExp ELSE time + ttl
  BY NewCertificateIsCheckedOut
<1>3. i.cert = c /\ i.at = time /\ i.ttl = ttl
  OBVIOUS
<1>4. ttl \in Nat \cup {NoExp}
  BY KeyRotationAssumption
<1> HIDE DEF c, i
<1>5. TypeOK'
  BY <1>1, <1>2, <1>3, <1>4 DEF IInv, TypeOK
<1>6. IssuedAsCheckedOut'
  <2>1. IsFiniteSet(issued \cup {i})
    BY FS_AddElement DEF IInv, IssuedAsCheckedOut
  <2> QED BY <1>1, <1>2, <1>3, <2>1 DEF IInv, IssuedAsCheckedOut, AsCheckedOut
<1>7. SignaturesAreIssued'
  BY <1>1, <1>2, <1>3 DEF IInv, SignaturesAreIssued, AsCheckedOut
<1>8. PublishedSign' /\ HeldByKey'
  BY <1>1 DEF IInv, PublishedSign, HeldByKey
<1> QED BY <1>5, <1>6, <1>7, <1>8 DEF IInv

\* No copy gains a whole signature, and none changes what was signed.
LEMMA CopiesKeepTheirSignature ==
  ASSUME NEW c \in Certificates, NEW d \in DamagedCopies(c)
  PROVE  /\ d \in Certificates
         /\ d.sig = "whole" => c.sig = "whole"
         /\ d.signed = c.signed /\ d.scheme = c.scheme /\ d.signer = c.signer
<1> DEFINE Copy(x) == /\ x \in Certificates
                      /\ x.sig = "whole" => c.sig = "whole"
                      /\ x.signed = c.signed /\ x.scheme = c.scheme /\ x.signer = c.signer
<1>1. Copy([c EXCEPT !.version = "none"])
  BY DEF Certificates
<1>2. Copy([c EXCEPT !.sig = "cut"]) /\ Copy([c EXCEPT !.sig = "unreadable"])
  BY DEF Certificates
<1>3. \A e \in Encodings : Copy([c EXCEPT !.encoding = e])
  BY DEF Certificates
<1>4. \A k \in Kinds : Copy([c EXCEPT !.pem = k])
  BY DEF Certificates
<1>5. \A s \in Schemes : Copy([c EXCEPT !.suffix = SchemeAlgSuffix(s)])
  <2> SUFFICES ASSUME NEW s \in Schemes PROVE Copy([c EXCEPT !.suffix = SchemeAlgSuffix(s)])
    OBVIOUS
  <2>1. SchemeAlgSuffix(s) \in {SchemeAlgSuffix(r) : r \in Schemes}
    BY SuffixIsNamed
  <2> QED BY <2>1 DEF Certificates
<1>6. \A b \in EditedBodies(c.body) : b \in Bodies /\ Copy([c EXCEPT !.body = b])
  <2> SUFFICES ASSUME NEW b \in EditedBodies(c.body)
               PROVE  b \in Bodies /\ Copy([c EXCEPT !.body = b])
    OBVIOUS
  <2>1. c.body \in Bodies
    BY DEF Certificates
  <2>2. \A k \in Keys : [c.body EXCEPT !.kid = k, !.shape = "edited"] \in Bodies
    BY <2>1 DEF Bodies
  <2>3. [c.body EXCEPT !.exp = NoExp, !.shape = "edited"] \in Bodies
    BY <2>1 DEF Bodies
  <2>4. [c.body EXCEPT !.shape = "unreadable"] \in Bodies
    BY <2>1 DEF Bodies
  <2>5. b \in Bodies
    BY <2>2, <2>3, <2>4 DEF EditedBodies
  <2> QED BY <2>5 DEF Certificates
<1> HIDE DEF Copy
<1>7. Copy(d)
  BY <1>1, <1>2, <1>3, <1>4, <1>5, <1>6 DEF DamagedCopies
<1> QED BY <1>7 DEF Copy

\* A copy carries its original's signature or none.
LEMMA DamagePreserves ==
  ASSUME IInv, NEW c \in files, Damage(c)
  PROVE  IInv'
<1>1. PICK d \in DamagedCopies(c) : files' = files \cup {d}
  BY DEF Damage
<1>2. c \in Certificates
  BY DEF IInv, TypeOK
<1>3. /\ d \in Certificates
      /\ d.sig = "whole" => c.sig = "whole"
      /\ d.signed = c.signed /\ d.scheme = c.scheme /\ d.signer = c.signer
  BY <1>2, CopiesKeepTheirSignature
<1>4. UNCHANGED <<active, published, time, issued, held, covered>>
  BY DEF Damage
<1>5. TypeOK'
  BY <1>1, <1>3, <1>4 DEF IInv, TypeOK
<1>6. SignaturesAreIssued'
  BY <1>1, <1>3, <1>4 DEF IInv, SignaturesAreIssued
<1>7. PublishedSign' /\ IssuedAsCheckedOut' /\ HeldByKey'
  BY <1>4 DEF IInv, PublishedSign, IssuedAsCheckedOut, AsCheckedOut, HeldByKey
<1> QED BY <1>5, <1>6, <1>7 DEF IInv

\* A pinned set covers nothing.
LEMMA PinPreserves ==
  ASSUME IInv, NEW S \in SUBSET Pinned, Pin(S)
  PROVE  IInv'
<1>1. held' \in KeySets /\ \A e \in held' : e.kid = e.key
  BY KeyRotationAssumption DEF Pin, FromPublicKeys, KeySets
<1>2. TypeOK'
  BY <1>1 DEF IInv, TypeOK, Pin
<1>3. HeldByKey'
  BY <1>1 DEF HeldByKey, Pin
<1>4. PublishedSign' /\ IssuedAsCheckedOut' /\ SignaturesAreIssued'
  BY DEF IInv, PublishedSign, IssuedAsCheckedOut, AsCheckedOut, SignaturesAreIssued, Pin
<1> QED BY <1>2, <1>3, <1>4 DEF IInv

\* A fetched set holds the key of every file checked out so far.
LEMMA SigningKeySetPreserves ==
  ASSUME IInv, SigningKeySet
  PROVE  IInv'
<1>1. held' \in KeySets /\ \A e \in held' : e.kid = e.key
  BY DEF SigningKeySet, FromResources, KeySets, IInv, TypeOK
<1>2. TypeOK'
  BY <1>1 DEF IInv, TypeOK, SigningKeySet
<1>3. ASSUME NEW i \in issued, i.cert.scheme = "Ed25519Sign", i.cert.signer \notin Undecodable
      PROVE  \E e \in held' : e.key = i.cert.signer
  <2>1. i.cert.signer \in published \ Undecodable
    BY <1>3 DEF IInv, IssuedAsCheckedOut, AsCheckedOut
  <2>2. [kid |-> i.cert.signer, key |-> i.cert.signer] \in held'
    BY <2>1 DEF SigningKeySet, FromResources
  <2> QED BY <2>2
<1>4. covered' = issued
  BY DEF SigningKeySet
<1>5. HeldByKey'
  BY <1>1, <1>3, <1>4 DEF HeldByKey
<1>6. PublishedSign' /\ IssuedAsCheckedOut' /\ SignaturesAreIssued'
  BY DEF IInv, PublishedSign, IssuedAsCheckedOut, AsCheckedOut, SignaturesAreIssued,
         SigningKeySet
<1> QED BY <1>2, <1>5, <1>6 DEF IInv

\* The invariant holds in every reachable state.
THEOREM InvariantHolds == Spec => []IInv
<1>1. IInv /\ [Next]_vars => IInv'
  <2> SUFFICES ASSUME IInv, [Next]_vars PROVE IInv'
    OBVIOUS
  <2>1. ASSUME NEW k \in Keys, Rotate(k) PROVE IInv'
    BY <2>1, RotatePreserves
  <2>2. ASSUME NEW t \in ServerClock, Tick(t) PROVE IInv'
    BY <2>2, TickPreserves
  <2>3. ASSUME NEW sealed \in BOOLEAN, NEW ttl \in Ttls, CheckOutLicense(sealed, ttl)
        PROVE  IInv'
    BY <2>3, CheckOutPreserves DEF CheckOutLicense, Kinds, Schemes
  <2>4. ASSUME NEW sealed \in BOOLEAN, NEW ttl \in Ttls, NEW s \in Schemes,
               CheckOutMachine(s, sealed, ttl)
        PROVE  IInv'
    BY <2>4, CheckOutPreserves DEF CheckOutMachine, Kinds
  <2>5. ASSUME NEW c \in files, Damage(c) PROVE IInv'
    BY <2>5, DamagePreserves
  <2>6. ASSUME NEW S \in SUBSET Pinned, Pin(S) PROVE IInv'
    BY <2>6, PinPreserves
  <2>7. CASE SigningKeySet
    BY <2>7, SigningKeySetPreserves
  <2>8. CASE UNCHANGED vars
    BY <2>8 DEF vars, IInv, TypeOK, PublishedSign, IssuedAsCheckedOut, AsCheckedOut,
                SignaturesAreIssued, HeldByKey
  <2> QED BY <2>1, <2>2, <2>3, <2>4, <2>5, <2>6, <2>7, <2>8 DEF Next
<1> QED BY <1>1, InitEstablishes, PTL DEF Spec

-----------------------------------------------------------------------------
(* The theorems.                                                           *)

\* Every variable of KeyRotation keeps its type, the certificates included.
THEOREM TypeCorrect == Spec => []TypeOK
BY InvariantHolds, PTL DEF IInv

\* No entry point accepts a file the server did not check out under a key the
\* caller trusts, whatever was done to the copy (verify_*).
THEOREM OnlyIssuedIsAccepted == Spec => []AcceptsOnlyIssued
BY InvariantHolds, AcceptsIssued, PTL

\* No rotation makes a genuine file a forgery to the key set
\* (find_verifying_key, label_failure).
THEOREM GenuineIsNotForged == Spec => []GenuineIsNeverForged
BY InvariantHolds, GenuineIsNamed, PTL

\* A fetched set knows the key of every earlier file (signing_key_set).
THEOREM FetchedSetIsCurrent == Spec => []StaleOnlyForLaterFiles
BY InvariantHolds, StaleIsLater, PTL

\* Every entry point ends a file's life in the same second (finish).
THEOREM LifetimeEndsOnce == Spec => []LifetimeIsExact
BY InvariantHolds, LifetimeIsTtl, PTL

\* A key and the set of just that key give one diagnosis.
THEOREM DiagnosisIsOne == Spec => []OneDiagnosis
BY InvariantHolds, DiagnosesAgree, PTL

-----------------------------------------------------------------------------
(* What DecryptionFailed does mean.                                        *)

\* The part of a file that no signature covers says of the body what the
\* check-out said of it.
AlgIsAsIssued(c) ==
  /\ c.pem = c.body.about
  /\ c.encoding = IF c.body.sealed THEN "aes-256-gcm" ELSE "base64"

WrongSecret(c, a) ==
  \/ a.licenseKey = "wrong"
  \/ c.pem = "machine" /\ a.fingerprint = "wrong"

\* The documented meaning of DecryptionFailed, and the one exception to it:
\* the caller passed wrong secrets, or the file's markers or alg are not
\* those of its check-out.
DecryptionFailedIsExplained ==
  \A c \in files, a \in Arguments, t \in Int :
    AlgIsAsIssued(c) /\ ~WrongSecret(c, a) =>
      /\ \A kind \in Kinds : VerifyWithKeySet(kind, c, held, a, t) # "DecryptionFailed"
      /\ \A k \in Keys : VerifyLicenseFile(c, k, a, t) # "DecryptionFailed"
      /\ \A s \in Schemes, k \in Keys \cup {OtherKey} :
           VerifyMachineFile(c, s, k, a, t) # "DecryptionFailed"

\* A body the server issued opens under secrets that are not wrong, or asks
\* for those that are absent.
LEMMA IssuedBodyOpens ==
  ASSUME NEW c \in Certificates, NEW a \in Arguments, NEW at,
         AlgIsAsIssued(c), ~WrongSecret(c, a), c.body.shape = "intact"
  PROVE  OpenAndFinish(c.pem, c, a, at) # "DecryptionFailed"
<1>1. c.body.about \in Kinds /\ c.body.sealed \in BOOLEAN
      /\ a.licenseKey \in {"absent", "right", "wrong"}
      /\ a.fingerprint \in {"absent", "right", "wrong"}
  BY DEF Certificates, Bodies, Arguments
<1>2. Decode(c.pem, c, a) # "DecryptionFailed"
  BY <1>1 DEF AlgIsAsIssued, WrongSecret, Decode, DecodeLicense, DecodeMachine, Dotted, Opens, Kinds
<1>3. Finish(c.pem, c, at) # "DecryptionFailed"
  BY DEF Finish
<1> QED BY <1>2, <1>3 DEF OpenAndFinish, Try

\* Before the body is opened nothing says DecryptionFailed.
LEMMA OnlyOpeningFails ==
  ASSUME NEW c, NEW n, n # "DecryptionFailed"
  PROVE  /\ \A kind : Try(ParseEnvelope(kind, c), n) # "DecryptionFailed"
         /\ \A s : Try(ValidateAlg(c, s), n) # "DecryptionFailed"
         /\ Try(DecodeSignature(c), n) # "DecryptionFailed"
         /\ \A k : Try(Ed25519Verify(k, c), n) # "DecryptionFailed"
         /\ \A s, k : Try(OtherVerify(s, k, c), n) # "DecryptionFailed"
         /\ \A set : Try(FindVerifyingKey(set, c), n) # "DecryptionFailed"
BY FindsTheKey, Ed25519Accepts DEF Try, ParseEnvelope, ValidateAlg, DecodeSignature, OtherVerify

\* A file whose signature verifies is, in its body, one the server issued,
\* so its body is intact.
LEMMA SignedIsIntact ==
  ASSUME IInv, NEW c \in files, NEW s, NEW k, SignedBy(s, k, c)
  PROVE  c.body.shape = "intact"
BY DEF SignedBy, IInv, SignaturesAreIssued, IssuedAsCheckedOut, AsCheckedOut

\* An entry point that opens the body has verified it.
LEMMA DecryptionIsExplained == IInv => DecryptionFailedIsExplained
<1> SUFFICES ASSUME IInv, NEW c \in files, NEW a \in Arguments, NEW t \in Int,
                    AlgIsAsIssued(c), ~WrongSecret(c, a)
             PROVE  /\ \A kind \in Kinds : VerifyWithKeySet(kind, c, held, a, t) # "DecryptionFailed"
                    /\ \A k \in Keys : VerifyLicenseFile(c, k, a, t) # "DecryptionFailed"
                    /\ \A s \in Schemes, k \in Keys \cup {OtherKey} :
                         VerifyMachineFile(c, s, k, a, t) # "DecryptionFailed"
  BY DEF DecryptionFailedIsExplained
<1>1. c \in Certificates
  BY DEF IInv, TypeOK
<1>2. ASSUME NEW s, NEW k, SignedBy(s, k, c)
      PROVE  OpenAndFinish(c.pem, c, a, t) # "DecryptionFailed"
  BY <1>1, <1>2, SignedIsIntact, IssuedBodyOpens
<1>3. ASSUME NEW kind \in Kinds PROVE VerifyWithKeySet(kind, c, held, a, t) # "DecryptionFailed"
  <2> DEFINE found == FindVerifyingKey(held, c)
             last == IF found = "None" THEN LabelFailure(held, c, Decode(kind, c, a))
                     ELSE Try(found, OpenAndFinish(kind, c, a, t))
  <2>1. CASE c.pem # kind
    BY <2>1 DEF VerifyWithKeySet, ParseEnvelope, Try
  <2>2. CASE c.pem = kind
    <3>1. LabelFailure(held, c, Decode(kind, c, a)) # "DecryptionFailed"
      BY DEF LabelFailure
    <3>2. found = "Ok" => \E k : SignedBy("Ed25519Sign", k, c)
      BY FindsTheKey, Ed25519Accepts
    <3>3. Try(found, OpenAndFinish(kind, c, a, t)) # "DecryptionFailed"
      BY <1>2, <2>2, <3>2, FindsTheKey DEF Try
    <3>4. last # "DecryptionFailed"
      BY <3>1, <3>3
    <3> QED BY <3>4, OnlyOpeningFails DEF VerifyWithKeySet
  <2> QED BY <2>1, <2>2
<1>4. ASSUME NEW k \in Keys PROVE VerifyLicenseFile(c, k, a, t) # "DecryptionFailed"
  <2> DEFINE last == Try(Ed25519Verify(k, c), OpenAndFinish("license", c, a, t))
  <2>1. CASE c.pem # "license"
    BY <2>1 DEF VerifyLicenseFile, ParseEnvelope, Try
  <2>2. CASE c.pem = "license"
    <3>1. last # "DecryptionFailed"
      BY <1>2, <2>2, Ed25519Accepts DEF Try
    <3> QED BY <3>1, OnlyOpeningFails DEF VerifyLicenseFile
  <2> QED BY <2>1, <2>2
<1>5. ASSUME NEW s \in Schemes, NEW k \in Keys \cup {OtherKey}
      PROVE  VerifyMachineFile(c, s, k, a, t) # "DecryptionFailed"
  <2> DEFINE checked == IF s = "Ed25519Sign" THEN Ed25519Verify(k, c) ELSE OtherVerify(s, k, c)
             last == Try(checked, OpenAndFinish("machine", c, a, t))
  <2>1. CASE c.pem # "machine"
    BY <2>1 DEF VerifyMachineFile, ParseEnvelope, Try
  <2>2. CASE c.pem = "machine"
    <3>1. last # "DecryptionFailed"
      <4>1. checked = "Ok" => SignedBy(s, k, c)
        BY Ed25519Accepts, OtherAccepts
      <4>2. checked # "DecryptionFailed"
        BY Ed25519Accepts DEF OtherVerify
      <4> QED BY <1>2, <2>2, <4>1, <4>2 DEF Try
    <3> QED BY <3>1, OnlyOpeningFails DEF VerifyMachineFile
  <2> QED BY <2>1, <2>2
<1> QED BY <1>3, <1>4, <1>5

\* For every file in anybody's hands, every entry point, secret and clock,
\* DecryptionFailed means a wrong secret, or markers or an alg that are not
\* the check-out's: neither the key rotation nor damage to anything a
\* signature covers can bring it about.
THEOREM DecryptionFailureHasCause == Spec => []DecryptionFailedIsExplained
BY DecryptionIsExplained, InvariantHolds, PTL
=============================================================================
