----------------------------- MODULE OfflineFile -----------------------------
(***************************************************************************)
(* The offline checkout files (src/checkout/): what a .lic or .mach        *)
(* certificate carries, the set of trusted signing keys, and the four      *)
(* functions that verify a file.  Verification keeps no state: each entry  *)
(* point is an operator from its arguments to the name of the Result it    *)
(* returns, "Ok" or the variant of CheckoutError / CryptoError.            *)
(*                                                                         *)
(* Cryptography is perfect: a signature verifies only under the key that   *)
(* made it and over the very bytes it was made over, and a sealed body     *)
(* opens only under the secrets it was sealed with.  Base64, JSON and PEM  *)
(* are modelled by which inputs they refuse.                               *)
(***************************************************************************)
EXTENDS Integers

CONSTANTS
  Keys,         \* Ed25519 public keys, of the account or mistyped in a binary
  OffCurve,     \* those among them whose 32 bytes are no curve point
  Undecodable,  \* those whose base64 text is not 32 bytes, or of another algorithm
  EmptyKid,     \* key_id(""), the kid of an account that was never backfilled
  OtherKey,     \* the account's RSA and ECDSA keys: never published nor rotated
  NoExp,        \* the exp claim of a file checked out without a ttl
  MinTime       \* i64::MIN, where the clock arithmetic saturates

ASSUME OfflineFileAssumption ==
  /\ OffCurve \subseteq Keys
  /\ Undecodable \subseteq Keys
  /\ EmptyKid \notin Keys
  /\ OtherKey \notin Keys
  /\ NoExp \notin Int
  /\ MinTime \in Int /\ MinTime < 0

Schemes == {"Ed25519Sign", "Rsa2048Pkcs1Sign", "Rsa2048Pkcs1PssSign",
            "Rsa2048JwtRs256", "EcdsaP256Sign"}

(* The alg suffix of a scheme.  Two RSA schemes share one.                  *)
SchemeAlgSuffix(scheme) ==
  CASE scheme = "Ed25519Sign" -> "ed25519"
    [] scheme \in {"Rsa2048Pkcs1Sign", "Rsa2048JwtRs256"} -> "rsa-sha256"
    [] scheme = "Rsa2048Pkcs1PssSign" -> "rsa-pss-sha256"
    [] scheme = "EcdsaP256Sign" -> "ecdsa-p256"

Encodings == {"base64", "aes-256-gcm"}

(***************************************************************************)
(* A certificate: the PEM markers it stands between, the three fields of   *)
(* alg, the body `enc`, and the signature with what it was made over.      *)
(* A body is about a licence or a machine; sealed, it is ciphertext.       *)
(***************************************************************************)
Kinds == {"license", "machine"}
Bodies == [about : Kinds, sealed : BOOLEAN, kid : Keys \cup {EmptyKid},
           exp : Int \cup {NoExp}, jti : Nat, shape : {"intact", "edited", "unreadable"}]
Certificates == [pem : Kinds, encoding : Encodings \cup {"other"},
                 suffix : {SchemeAlgSuffix(s) : s \in Schemes}, version : {"v2", "none"},
                 body : Bodies, sig : {"whole", "cut", "unreadable"},
                 scheme : Schemes, signer : Keys \cup {OtherKey}, signed : Bodies]

(* The secrets a caller passes: none, those of the file, or others.         *)
Arguments == [licenseKey : {"absent", "right", "wrong"},
              fingerprint : {"absent", "right", "wrong"}]

(***************************************************************************)
(* SigningKeySet: entries of a kid and a key.                              *)
(***************************************************************************)
KeySets == SUBSET [kid : Keys, key : Keys]

FromPublicKeysByBytes(S) == {[kid |-> EmptyKid, key |-> k] : k \in S}
FromPublicKeys(S) == {[kid |-> k, key |-> k] : k \in S}
FromResources(rows) == {[kid |-> k, key |-> k] : k \in rows \ Undecodable}
Holds(set, kid) == \E e \in set : e.kid = kid

SignedBy(scheme, key, c) ==
  c.sig = "whole" /\ c.scheme = scheme /\ c.signer = key /\ c.signed = c.body

(* crypto::ed25519::verify.                                                 *)
Ed25519Verify(key, c) ==
  IF key \notin Keys \ OffCurve THEN "InvalidKey"
  ELSE IF c.sig = "cut" THEN "InvalidSignature"
  ELSE IF SignedBy("Ed25519Sign", key, c) THEN "Ok" ELSE "VerificationFailed"

(* crypto::rsa::verify_pkcs1, verify_pss and crypto::ecdsa::verify.         *)
OtherVerify(scheme, key, c) ==
  IF SignedBy(scheme, key, c) THEN "Ok" ELSE "VerificationFailed"

(* "None": well formed, but no held key made it.                            *)
FindKeyOfKid(set, c) == IF Holds(set, c.body.kid) THEN "Ok" ELSE "None"
FindVerifyingKeyByKid(set, c) ==
  IF \E e \in set : e.kid = c.body.kid /\ Ed25519Verify(e.key, c) = "Ok" THEN "Ok" ELSE "None"
FindVerifyingKey(set, c) ==
  LET tried == {Ed25519Verify(e.key, c) : e \in set}
  IN  IF "Ok" \in tried THEN "Ok"
      ELSE IF "InvalidSignature" \in tried THEN "InvalidSignature" ELSE "None"

(* The `?` of the source: an error returns, success goes on.                *)
Try(result, next) == IF result = "Ok" THEN next ELSE result

ParseEnvelope(kind, c) == IF c.pem = kind THEN "Ok" ELSE "MalformedPem"

ValidateAlgWithoutVersion(c, suffix) ==
  IF c.encoding \in Encodings /\ c.suffix = suffix THEN "Ok" ELSE "UnsupportedAlgorithm"
ValidateAlg(c, suffix) ==
  IF c.encoding \in Encodings /\ c.version = "v2" /\ c.suffix = suffix
  THEN "Ok" ELSE "UnsupportedAlgorithm"

DecodeSignature(c) == IF c.sig = "unreadable" THEN "InvalidBase64" ELSE "Ok"

(* A sealed machine body is two base64 halves around a dot, every other     *)
(* body one base64 text.                                                    *)
Dotted(c) == c.body.about = "machine" /\ c.body.sealed

Opens(c, kind) == c.body.about = kind /\ c.body.sealed /\ c.body.shape = "intact"

DecodeLicense(c, args) ==
  IF c.body.shape = "unreadable" \/ Dotted(c) THEN "InvalidBase64"
  ELSE IF c.encoding = "base64" THEN "Ok"
  ELSE IF args.licenseKey = "absent" THEN "LicenseKeyMissing"
  ELSE IF Opens(c, "license") /\ args.licenseKey = "right" THEN "Ok" ELSE "DecryptionFailed"

DecodeMachine(c, args) ==
  IF c.encoding = "base64"
  THEN IF c.body.shape = "unreadable" \/ Dotted(c) THEN "InvalidBase64" ELSE "Ok"
  ELSE IF args.licenseKey = "absent" THEN "LicenseKeyMissing"
  ELSE IF args.fingerprint = "absent" THEN "FingerprintMissing"
  ELSE IF ~Dotted(c) THEN "DecryptionFailed"
  ELSE IF c.body.shape = "unreadable" THEN "InvalidBase64"
  ELSE IF Opens(c, "machine") /\ args.licenseKey = "right" /\ args.fingerprint = "right"
       THEN "Ok" ELSE "DecryptionFailed"

Decode(kind, c, args) ==
  IF kind = "license" THEN DecodeLicense(c, args) ELSE DecodeMachine(c, args)

(* The decoded bytes are JSON unless they are ciphertext taken for text.    *)
IsJson(c) == c.body.sealed = (c.encoding = "aes-256-gcm")

(* key_set.rs label_failure: why no held key verified.                      *)
LabelFailureAsForged(set, c, decoded) ==
  IF decoded \in {"LicenseKeyMissing", "FingerprintMissing"} THEN decoded ELSE "VerificationFailed"
LabelFailure(set, c, decoded) ==
  IF decoded \in {"LicenseKeyMissing", "FingerprintMissing"} THEN decoded
  ELSE IF decoded = "Ok" /\ IsJson(c) /\ ~Holds(set, c.body.kid) THEN "UnknownSigningKey"
  ELSE "VerificationFailed"

ClockSkewToleranceSecs == 60

SaturatingSub(a, b) == IF a - b < MinTime THEN MinTime ELSE a - b

FinishStrictly(kind, c, at) ==
  IF ~IsJson(c) \/ c.body.about # kind THEN "Json"
  ELSE IF c.body.exp # NoExp /\ SaturatingSub(at, ClockSkewToleranceSecs) >= c.body.exp
       THEN "Expired" ELSE "Ok"
Finish(kind, c, at) ==
  IF ~IsJson(c) \/ c.body.about # kind THEN "Json"
  ELSE IF c.body.exp # NoExp /\ SaturatingSub(at, ClockSkewToleranceSecs) > c.body.exp
       THEN "Expired" ELSE "Ok"

OpenAndFinish(kind, c, args, at) == Try(Decode(kind, c, args), Finish(kind, c, at))

(***************************************************************************)
(* The entry points.  `at` is now_unix, from the wall clock or the caller. *)
(***************************************************************************)
VerifyLicenseFile(c, key, args, at) ==
  Try(ParseEnvelope("license", c),
  Try(ValidateAlg(c, "ed25519"),
  Try(DecodeSignature(c),
  Try(Ed25519Verify(key, c),
      OpenAndFinish("license", c, args, at)))))

VerifyMachineFile(c, scheme, key, args, at) ==
  IF scheme = "Rsa2048JwtRs256" THEN "SchemeNotSupported"
  ELSE Try(ParseEnvelope("machine", c),
       Try(ValidateAlg(c, SchemeAlgSuffix(scheme)),
       Try(DecodeSignature(c),
       Try(IF scheme = "Ed25519Sign" THEN Ed25519Verify(key, c) ELSE OtherVerify(scheme, key, c),
           OpenAndFinish("machine", c, args, at)))))

VerifyDecodingFirst(kind, c, set, args, at) ==
  Try(ParseEnvelope(kind, c),
  Try(ValidateAlg(c, "ed25519"),
  Try(Decode(kind, c, args),
  Try(DecodeSignature(c),
  LET found == FindVerifyingKey(set, c)
  IN  IF found = "None" THEN LabelFailure(set, c, "Ok") ELSE Try(found, Finish(kind, c, at))))))
(* verify_license_file_with_key_set_at and verify_machine_file_with_key_set_at *)
VerifyWithKeySet(kind, c, set, args, at) ==
  Try(ParseEnvelope(kind, c),
  Try(ValidateAlg(c, "ed25519"),
  Try(DecodeSignature(c),
  LET found == FindVerifyingKey(set, c)
  IN  IF found = "None" THEN LabelFailure(set, c, Decode(kind, c, args))
      ELSE Try(found, OpenAndFinish(kind, c, args, at)))))
=============================================================================
