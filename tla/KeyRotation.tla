----------------------------- MODULE KeyRotation -----------------------------
(***************************************************************************)
(* Offline files over the life of an account: the server rotates its       *)
(* signing key and checks files out, customers keep the files and may      *)
(* damage or edit a copy, an application verifies them with the key set    *)
(* it pinned in its binary or fetched once.                                *)
(*                                                                         *)
(* Verification has no state, so the properties ask of every state what    *)
(* every entry point would answer for every file in hand, at every time.   *)
(***************************************************************************)
EXTENDS OfflineFile, FiniteSets

CONSTANTS
  FirstKey,     \* the key the account was created with
  Pinned,       \* keys a developer may pin in the binary
  NotBackfilled,\* keys under which the account's public-key column was empty
  Ttls,         \* ttl arguments of a check-out, NoExp for none
  Clock,        \* times at which files are verified
  ServerClock,  \* times at which files are checked out
  MaxFiles,     \* bound: files checked out
  MaxDamaged    \* bound: damaged copies

ASSUME KeyRotationAssumption ==
  /\ FirstKey \in Keys \ (OffCurve \cup Undecodable)
  /\ Pinned \subseteq Keys
  /\ NotBackfilled \subseteq Keys
  /\ Ttls \subseteq Nat \cup {NoExp}
  /\ Clock \subseteq Int /\ ServerClock \subseteq Nat
  /\ MaxFiles \in Nat /\ MaxDamaged \in Nat

VARIABLES
  active,    \* the account's current Ed25519 key
  published, \* keys with a row in GET /signing-keys, retired ones included
  time,      \* the server's clock
  issued,    \* files the server has checked out, with when and for how long
  files,     \* certificates in customers' hands
  held,      \* the SigningKeySet the application verifies through
  covered    \* files that had been checked out when it was fetched, {} when pinned

vars == <<active, published, time, issued, files, held, covered>>

(***************************************************************************)
(* The account.                                                            *)
(***************************************************************************)
MaxTtlSecs == 365 * 24 * 3600
CheckTtl(ttl) == ttl # NoExp => ttl > 0 /\ ttl <= MaxTtlSecs

Rotate(k) ==
  /\ k \in Keys \ (published \cup OffCurve)
  /\ active' = k
  /\ published' = published \cup {k}
  /\ UNCHANGED <<time, issued, files, held, covered>>

Tick(t) ==
  /\ t > time
  /\ time' = t
  /\ UNCHANGED <<active, published, issued, files, held, covered>>

(* The file of a check-out.  Its kid comes from the account's Ed25519 column *)
(* whatever scheme signs.                                                    *)
NewBody(kind, sealed, ttl) ==
  [about |-> kind, sealed |-> sealed, jti |-> Cardinality(issued) + 1, shape |-> "intact",
   kid |-> IF active \in NotBackfilled THEN EmptyKid ELSE active,
   exp |-> IF ttl = NoExp THEN NoExp ELSE time + ttl]
NewCertificate(scheme, body) ==
  [pem |-> body.about, encoding |-> IF body.sealed THEN "aes-256-gcm" ELSE "base64",
   suffix |-> SchemeAlgSuffix(scheme), version |-> "v2", body |-> body, sig |-> "whole",
   scheme |-> scheme, signer |-> IF scheme = "Ed25519Sign" THEN active ELSE OtherKey,
   signed |-> body]

CheckOut(scheme, body, ttl) ==
  LET c == NewCertificate(scheme, body)
  IN  /\ Cardinality(issued) < MaxFiles
      /\ issued' = issued \cup {[cert |-> c, at |-> time, ttl |-> ttl]}
      /\ files' = files \cup {c}
      /\ UNCHANGED <<active, published, time, held, covered>>

(* check_out_license: always Ed25519, the ttl goes to the server unchecked.  *)
CheckOutLicense(sealed, ttl) ==
  CheckOut("Ed25519Sign", NewBody("license", sealed, ttl), ttl)

(* check_out_machine: under the licence's scheme, the ttl checked first.     *)
CheckOutMachine(scheme, sealed, ttl) ==
  /\ CheckTtl(ttl)
  /\ scheme # "Rsa2048JwtRs256"
  /\ CheckOut(scheme, NewBody("machine", sealed, ttl), ttl)

(***************************************************************************)
(* The customer's copies.                                                  *)
(***************************************************************************)
EditedBodies(b) ==
  {[b EXCEPT !.kid = k, !.shape = "edited"] : k \in Keys}
  \cup {[b EXCEPT !.exp = NoExp, !.shape = "edited"], [b EXCEPT !.shape = "unreadable"]}
DamagedCopies(c) ==
  {[c EXCEPT !.version = "none"], [c EXCEPT !.sig = "cut"], [c EXCEPT !.sig = "unreadable"]}
  \cup {[c EXCEPT !.encoding = e] : e \in Encodings}
  \cup {[c EXCEPT !.pem = k] : k \in Kinds}
  \cup {[c EXCEPT !.suffix = SchemeAlgSuffix(s)] : s \in Schemes}
  \cup {[c EXCEPT !.body = b] : b \in EditedBodies(c.body)}

IssuedCertificates == {i.cert : i \in issued}

Damage(c) ==
  /\ Cardinality(files \ IssuedCertificates) < MaxDamaged
  /\ \E d \in DamagedCopies(c) : files' = files \cup {d}
  /\ UNCHANGED <<active, published, time, issued, held, covered>>

(***************************************************************************)
(* The application's key set.                                              *)
(***************************************************************************)
(* A start with pinned keys; one that does not decode fails the start.       *)
Pin(S) ==
  /\ S \cap Undecodable = {}
  /\ held' = FromPublicKeys(S)
  /\ covered' = {}
  /\ UNCHANGED <<active, published, time, issued, files>>

SigningKeySetActiveOnly ==
  /\ held' = FromResources({active})
  /\ covered' = issued
  /\ UNCHANGED <<active, published, time, issued, files>>
SigningKeySet ==
  /\ held' = FromResources(published)
  /\ covered' = issued
  /\ UNCHANGED <<active, published, time, issued, files>>

Init ==
  /\ active = FirstKey
  /\ published = {FirstKey}
  /\ time = 0
  /\ issued = {}
  /\ files = {}
  /\ held = {}
  /\ covered = {}

Next ==
  \/ \E k \in Keys : Rotate(k)
  \/ \E t \in ServerClock : Tick(t)
  \/ \E sealed \in BOOLEAN, ttl \in Ttls :
       CheckOutLicense(sealed, ttl) \/ \E s \in Schemes : CheckOutMachine(s, sealed, ttl)
  \/ \E c \in files : Damage(c)
  \/ \E S \in SUBSET Pinned : Pin(S)
  \/ SigningKeySet

Spec == Init /\ [][Next]_vars

(***************************************************************************)
(* Properties.                                                             *)
(***************************************************************************)
TypeOK ==
  /\ active \in published /\ published \subseteq Keys
  /\ time \in Nat
  /\ \A i \in issued : i.cert \in Certificates /\ i.at \in Nat /\ i.ttl \in Nat \cup {NoExp}
  /\ files \subseteq Certificates
  /\ held \in KeySets
  /\ covered \subseteq issued

RightArguments == [licenseKey |-> "right", fingerprint |-> "right"]
Only(k) == FromPublicKeys({k})
Genuine(c, scheme, signer) ==
  \E i \in issued : i.cert.body = c.body /\ i.cert.scheme = scheme /\ i.cert.signer = signer

(* What an entry point accepts is, body for body, a file the server checked  *)
(* out as one of that kind, and was signed by a key the caller trusts:       *)
(* whatever the customer did to the copy and however the account rotated,    *)
(* even by a clock so early that no file has expired.                        *)
AcceptsOnlyIssued ==
  \A c \in files, a \in Arguments :
    /\ \A kind \in Kinds :
         VerifyWithKeySet(kind, c, held, a, MinTime) = "Ok" =>
           /\ c.body.about = kind
           /\ \E e \in held : Genuine(c, "Ed25519Sign", e.key)
    /\ \A k \in Keys :
         VerifyLicenseFile(c, k, a, MinTime) = "Ok" =>
           c.body.about = "license" /\ Genuine(c, "Ed25519Sign", k)
    /\ \A s \in Schemes, k \in Keys \cup {OtherKey} :
         VerifyMachineFile(c, s, k, a, MinTime) = "Ok" =>
           c.body.about = "machine" /\ Genuine(c, s, k)

(* The reason for the key set: a file the server signed with its Ed25519 key *)
(* is never called a forgery, however many rotations ago it was signed and   *)
(* whichever kid it names.  It verifies when its key is held, and otherwise  *)
(* the set is reported stale.                                                *)
GenuineIsNeverForged ==
  \A i \in issued, t \in Clock :
    i.cert.scheme = "Ed25519Sign" =>
      VerifyWithKeySet(i.cert.pem, i.cert, held, RightArguments, t)
        \in IF \E e \in held : e.key = i.cert.signer THEN {"Ok", "Expired"}
            ELSE {"UnknownSigningKey"}

(* signing_key_set: a fetched set is stale only for files signed after it    *)
(* was fetched, unless the key's published row was unusable.                 *)
StaleOnlyForLaterFiles ==
  \A i \in covered, t \in Clock :
    i.cert.scheme = "Ed25519Sign" /\ i.cert.signer \notin Undecodable =>
      VerifyWithKeySet(i.cert.pem, i.cert, held, RightArguments, t) # "UnknownSigningKey"

(* A file is good from its check-out until its ttl and a minute later, and   *)
(* for ever without a ttl: the same for both kinds, every scheme and every   *)
(* entry point, at any time the caller's clock may show.                     *)
LifetimeIsExact ==
  \A i \in issued, t \in Clock :
    LET c       == i.cert
        inTime  == i.ttl = NoExp \/ t <= i.at + i.ttl + 60
        verdict == IF inTime THEN "Ok" ELSE "Expired"
    IN  /\ c.pem = "license" => VerifyLicenseFile(c, c.signer, RightArguments, t) = verdict
        /\ c.pem = "machine" =>
             VerifyMachineFile(c, c.scheme, c.signer, RightArguments, t) = verdict
        /\ c.scheme = "Ed25519Sign" =>
             VerifyWithKeySet(c.pem, c, Only(c.signer), RightArguments, t) = verdict

(* One file, one diagnosis: verifying against a key and against the set of   *)
(* just that key differ only in how they name a signature that does not      *)
(* verify, and a file that is not format v2 is refused as such by both,      *)
(* whichever key and secrets it meets.                                       *)
OneDiagnosis ==
  \A c \in files, k \in Keys, a \in Arguments, t \in Clock :
    LET many == VerifyWithKeySet(c.pem, c, Only(k), a, t)
        one  == IF c.pem = "license" THEN VerifyLicenseFile(c, k, a, t)
                ELSE VerifyMachineFile(c, "Ed25519Sign", k, a, t)
    IN  /\ \/ many = one
           \/ /\ one \in {"VerificationFailed", "InvalidKey"}
              /\ many \in {"VerificationFailed", "UnknownSigningKey",
                           "LicenseKeyMissing", "FingerprintMissing"}
        /\ c.version # "v2" => many = "UnsupportedAlgorithm"

(* As documented: once the signature has verified, DecryptionFailed can only *)
(* mean that the caller passed the wrong secrets.                            *)
DecryptionFailedMeansWrongSecret ==
  \A c \in files, t \in Clock :
    VerifyWithKeySet(c.pem, c, held, RightArguments, t) # "DecryptionFailed"
=============================================================================
