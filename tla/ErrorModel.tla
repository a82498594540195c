----------------------------- MODULE ErrorModel ------------------------------
(***************************************************************************)
(* TamgaError: how an unsuccessful response becomes a variant, and what    *)
(* its accessors say about it.                                             *)
(***************************************************************************)
EXTENDS Naturals

\* The codes with a variant of their own.
VariantOf ==
    [CHECK_IN_NOT_REQUIRED  |-> "CheckInNotRequired",
     LICENSE_NOT_ENCRYPTED  |-> "LicenseNotEncrypted",
     LICENSE_KEY_MISSING    |-> "LicenseKeyMissingApi",
     FINGERPRINT_TAKEN      |-> "FingerprintTaken",
     PID_TAKEN              |-> "PidTaken",
     METER_LIMIT_EXCEEDED   |-> "MeterLimitExceeded",
     NOT_FOUND              |-> "NotFound",
     UNAUTHORIZED           |-> "Unauthorized",
     FORBIDDEN              |-> "Forbidden",
     INTERNAL_SERVER_ERROR  |-> "InternalServerError",
     DATASET_INVALID        |-> "DatasetInvalid",
     TTL_INVALID            |-> "TtlInvalidApi",
     SCHEME_NOT_SUPPORTED   |-> "SchemeNotSupportedApi"]

\* The limit codes, by the ValidationCode a validation reports them as.
AsValidationCode ==
    [MACHINE_LIMIT_EXCEEDED |-> "TOO_MANY_MACHINES",
     CORE_LIMIT_EXCEEDED    |-> "TOO_MANY_CORES",
     MEMORY_LIMIT_EXCEEDED  |-> "TOO_MUCH_MEMORY",
     DISK_LIMIT_EXCEEDED    |-> "TOO_MUCH_DISK",
     TOO_MANY_PROCESSES     |-> "TOO_MANY_PROCESSES"]

LimitExceededCode == DOMAIN AsValidationCode
LicenseAuthCode   == {"LICENSE_SUSPENDED", "LICENSE_EXPIRED", "LICENSE_NOT_ALLOWED"}

\* SIGNING_KEY_MISSING and what a later server may add have no variant.
Codes == DOMAIN VariantOf \cup LimitExceededCode \cup LicenseAuthCode
         \cup {"SIGNING_KEY_MISSING", "UNKNOWN"}

-----------------------------------------------------------------------------
(* Errors, as callers hold them.                                           *)

\* The variants that carry the server's error object.
BodyVariants == {VariantOf[c] : c \in DOMAIN VariantOf} \cup {"Api"}
\* Json, Checkout and Proof arise outside the request path.
BareVariants == {"Http", "RateLimited", "Json", "Checkout", "Proof"}
TamgaError == BodyVariants \cup BareVariants

NoCode == "none"

FromJsonApiError(code) ==
    [variant |-> IF code \in DOMAIN VariantOf THEN VariantOf[code] ELSE "Api", code |-> code]
Http == [variant |-> "Http", code |-> NoCode]
RateLimited(retryAfter) ==
    [variant |-> "RateLimited", code |-> NoCode, retryAfter |-> retryAfter]

CodeOf(error) == IF error.variant \in BodyVariants THEN error.code ELSE NoCode

LimitExceeded(error) == CodeOf(error) \in LimitExceededCode
LicenseAuthFailure(error) == CodeOf(error) \in LicenseAuthCode

-----------------------------------------------------------------------------
(* Error documents, as servers of any age write them.                      *)

\* A status is a string or a number; title, detail, source and meta may be
\* missing.  Nothing is learnt from an empty list of errors, from an error
\* without id, code or status, or from a page that is no document at all.
Forms == {"full", "numericStatus", "bare"}
Unreadable == {"noErrors", "malformed"}

Understood(form) == form \in Forms

\* Mutant of ApiError: a response nobody can read is judged by its status.
ApiErrorByStatus(form, code, status) ==
    FromJsonApiError(IF Understood(form) THEN code
                     ELSE IF status = 404 THEN "NOT_FOUND" ELSE "UNKNOWN")

\* api_error, for any status but 429.
ApiError(form, code, status) ==
    FromJsonApiError(IF Understood(form) THEN code ELSE "UNKNOWN")
==============================================================================
