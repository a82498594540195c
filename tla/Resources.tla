------------------------------ MODULE Resources ------------------------------
(***************************************************************************)
(* The structs the client decodes a success body into, and what serde      *)
(* makes of a body written by an older or newer server.  A struct is its   *)
(* fields: the ones that must be there, the ones that may be missing, and, *)
(* of either, those whose set of values is known only in part: an open one *)
(* takes a value this client has never seen, a closed one refuses it.      *)
(* Fields of a fixed type (dates, counts, free JSON) cannot grow.          *)
(***************************************************************************)

Struct(required, optional, open, closed) ==
    [required |-> required, optional |-> optional, open |-> open, closed |-> closed]

\* Several structs decoded from one body: attributes in their resource, a
\* resource and its meta.
Joined(a, b) == [part \in {"required", "optional", "open", "closed"} |-> a[part] \cup b[part]]

\* The {id, type, attributes} every resource is wrapped in.
Resource(attributes) == Joined(Struct({"id", "type", "attributes"}, {}, {}, {}), attributes)

\* A body that is text, or that nobody reads.
Text == Struct({}, {}, {}, {})

\* The {data} envelope of JSON:API.
Enveloped(struct) == Joined(Struct({"data"}, {}, {}, {}), struct)

-----------------------------------------------------------------------------
(* Licences and their validation.                                          *)

LicenseResource == Resource(Struct(
    {"status", "suspended", "protected", "encrypted", "strict", "floating",
     "machines_count", "metadata", "created", "updated"},
    {"name", "key", "expiry", "scheme", "max_machines", "max_users",
     "last_validated_at", "last_check_in_at", "last_check_out_at"},
    {"status", "scheme"}, {}))

ValidationMeta == Struct({"ts", "valid", "detail", "code"}, {}, {"code"}, {})

ValidationResult == Joined(LicenseResource, Joined(ValidationMeta, Struct({"meta"}, {}, {}, {})))

-----------------------------------------------------------------------------
(* Machines and what runs on them.                                         *)

\* Mutant of HeartbeatStatus: a plain enum, without the Unknown arm.
HeartbeatStatusStrict == Struct({"heartbeat_status"}, {}, {}, {"heartbeat_status"})

HeartbeatStatus == Struct({"heartbeat_status"}, {}, {"heartbeat_status"}, {})

MachineResource == Joined(HeartbeatStatus, Resource(Struct(
    {"fingerprint", "metadata", "created", "updated"},
    {"cores", "memory", "disk", "ip", "hostname", "platform", "name",
     "last_heartbeat_at", "next_heartbeat_at", "last_check_out_at"},
    {"platform"}, {})))

MachineWithProof == Joined(MachineResource, Struct({"meta", "proof"}, {}, {}, {}))

OffsetPage == Joined(MachineResource,
    Struct({"meta", "page", "number", "size", "total", "totalPages"}, {}, {}, {}))

ComponentResource == Resource(Struct(
    {"fingerprint", "name", "machine_id", "metadata", "created", "updated"}, {}, {}, {}))

ProcessResource == Resource(Struct(
    {"pid", "machine_id", "last_heartbeat_at", "metadata", "created", "updated"}, {}, {}, {}))

-----------------------------------------------------------------------------
(* Entitlements and policies.                                              *)

EntitlementKind == Struct({"kind"}, {}, {"kind"}, {})

EntitlementResource == Joined(EntitlementKind, Resource(Struct(
    {"name", "code", "metadata", "created", "updated"}, {}, {}, {})))

LicenseEntitlement ==
    Joined(EntitlementResource, Struct({}, {"inherited", "max_value", "current_value"}, {}, {}))

\* The one enum of the wire that stays strict.
CheckInInterval == Struct({}, {"check_in_interval"}, {}, {"check_in_interval"})

FreeTextPolicyFields == {"expiration_strategy", "renewal_basis", "authentication_strategy"}

PolicyAttributes == Struct(
    {"product_id", "name", "strict", "floating", "encrypted", "use_pool", "protected",
     "require_check_in", "require_heartbeat", "heartbeat_cull_strategy",
     "heartbeat_resurrection_strategy", "machine_uniqueness_strategy",
     "expiration_basis", "overage_strategy", "metadata", "created", "updated"}
        \cup FreeTextPolicyFields,
    {"duration", "scheme", "check_in_interval_count", "heartbeat_duration",
     "max_machines", "max_cores", "max_processes", "max_users"},
    {"scheme", "heartbeat_cull_strategy", "heartbeat_resurrection_strategy",
     "machine_uniqueness_strategy", "expiration_basis", "overage_strategy"}
        \cup FreeTextPolicyFields,
    {})

Policy == Resource(Joined(CheckInInterval, PolicyAttributes))

-----------------------------------------------------------------------------
(* Checkout files, signing keys, releases, the health check.               *)

LicenseFileResource == Resource(Struct(
    {"certificate", "algorithm", "includes", "issued"}, {"ttl", "expiry"},
    {"algorithm", "includes"}, {}))

MachineFileResource == Resource(Struct(
    {"certificate", "algorithm", "includes", "issued"}, {"ttl", "expiry"},
    {"algorithm", "includes"}, {}))

SigningKeyResource == Resource(Struct(
    {"algorithm", "publicKey", "status", "created"}, {"retired"},
    {"algorithm", "status"}, {}))

ReleaseResource == Resource(Struct(
    {"productId", "version", "channel", "status", "metadata", "created", "updated"},
    {"name", "tag"}, {"channel", "status"}, {}))

ArtifactResource == Resource(Struct(
    {"filename", "status", "metadata", "created", "updated"},
    {"filetype", "filesize", "checksum", "platform", "arch", "signature", "redirectUrl"},
    {"status", "platform", "arch", "filetype"}, {}))

HealthStatus == Struct({"status", "version", "uptime_secs"}, {}, {"status"}, {})

-----------------------------------------------------------------------------
(* Bodies.                                                                 *)

Whole      == [drift |-> "none"]
Cut        == [drift |-> "cut"]                      \* truncated, or not JSON
Extended   == [drift |-> "extended"]                 \* a field this client does not know
Without(f) == [drift |-> "without", field |-> f]
Novel(f)   == [drift |-> "novel", field |-> f]       \* a value this client does not know

Fields(struct) == struct.required \cup struct.optional

\* The bodies servers of any age may send for a struct.
BodiesOf(struct) ==
    {Whole, Cut, Extended}
        \cup {Without(f) : f \in Fields(struct)}
        \cup {Novel(f) : f \in struct.open \cup struct.closed}

\* Does serde_json make a value of the struct from the body?
Decodes(struct, body) ==
    \/ struct = Text
    \/ body \in {Whole, Extended}
    \/ body.drift = "without" /\ body.field \notin struct.required
    \/ body.drift = "novel" /\ body.field \notin struct.closed
==============================================================================
