----------------------------- MODULE Endpoints -------------------------------
(***************************************************************************)
(* Every request the client makes: its route, what the server's handler    *)
(* does on success, the codes it may refuse with, and the struct the       *)
(* client decodes from a success.  Each definition is named for the method *)
(* of Client that sends it.                                                *)
(***************************************************************************)
EXTENDS Resources, ErrorModel

Request(method, action, effect, reply, refusals) ==
    [method |-> method, action |-> action,
     effect |-> effect,        \* "none", "write", "create", "count" or "delete"
     reply |-> reply,          \* the struct decoded from a success
     refusals |-> refusals]    \* the codes of the handler's own refusals

\* send_json_api, send_json_api_with_meta: the struct is under "data".
JsonApi(method, action, effect, reply, refusals) ==
    Request(method, action, effect, Enveloped(reply), refusals)
\* send_flat, health: the struct is the whole body.
Flat(method, action, reply) == Request(method, action, "none", reply, {})

\* The codes of the gate in front of every authenticated handler.
GateCodes == {"UNAUTHORIZED", "FORBIDDEN"} \cup LicenseAuthCode

-----------------------------------------------------------------------------
(* Licences.                                                               *)

validate_by_key == JsonApi("POST", "validate-key", "write", ValidationResult, {})
validate_by_id  == JsonApi("POST", "validate", "write", ValidationResult, {})
quick_validate  == Flat("GET", "validate", ValidationMeta)
get_license     == JsonApi("GET", "none", "none", LicenseResource, {})
get_policy      == JsonApi("GET", "none", "none", Policy, {})
get_license_policy == JsonApi("GET", "none", "none", Policy, {})

check_in == JsonApi("POST", "check-in", "write", LicenseResource, {"CHECK_IN_NOT_REQUIRED"})

LicenseCheckoutRefusals == {"LICENSE_NOT_ENCRYPTED", "TTL_INVALID", "SIGNING_KEY_MISSING"}

check_out_license == Request("GET", "check-out", "write", Text, LicenseCheckoutRefusals)
check_out_license_json ==
    JsonApi("POST", "check-out", "write", LicenseFileResource, LicenseCheckoutRefusals)

-----------------------------------------------------------------------------
(* Machines, components, processes.                                        *)

get_machine    == JsonApi("GET", "none", "none", MachineResource, {})
list_machines  == JsonApi("GET", "none", "none", OffsetPage, {})
update_machine == JsonApi("PATCH", "none", "write", MachineResource, {})
delete_machine == Request("DELETE", "none", "delete", Text, {})

create_machine == JsonApi("POST", "none", "create", MachineResource,
                          LimitExceededCode \ {"TOO_MANY_PROCESSES"})

ping_heartbeat  == JsonApi("POST", "ping-heartbeat", "write", MachineResource, {})
reset_heartbeat == JsonApi("POST", "reset-heartbeat", "write", MachineResource, {})

MachineCheckoutRefusals == {"LICENSE_KEY_MISSING", "SCHEME_NOT_SUPPORTED"}

check_out_machine == Request("GET", "check-out", "write", Text, MachineCheckoutRefusals)
check_out_machine_json ==
    JsonApi("POST", "check-out", "write", MachineFileResource, MachineCheckoutRefusals)

generate_offline_proof ==
    JsonApi("POST", "generate-offline-proof", "none", MachineWithProof, {"DATASET_INVALID"})

list_components  == JsonApi("GET", "none", "none", ComponentResource, {})
create_component == JsonApi("POST", "none", "create", ComponentResource, {})

list_machine_processes == JsonApi("GET", "none", "none", ProcessResource, {})
create_process == JsonApi("POST", "none", "create", ProcessResource, {"TOO_MANY_PROCESSES"})
ping_process   == JsonApi("POST", "ping", "write", ProcessResource, {})
delete_process == Request("DELETE", "none", "delete", Text, {})

-----------------------------------------------------------------------------
(* Entitlements and metering.                                              *)

list_entitlements == JsonApi("GET", "none", "none", EntitlementResource, {})
list_license_entitlements == JsonApi("GET", "none", "none", LicenseEntitlement, {})
get_entitlement == JsonApi("GET", "none", "none", EntitlementResource, {})
has_entitlement == list_entitlements

increment_entitlement_usage ==
    JsonApi("POST", "increment", "count", LicenseEntitlement, {"METER_LIMIT_EXCEEDED"})
decrement_entitlement_usage == JsonApi("POST", "decrement", "count", LicenseEntitlement, {})
reset_entitlement_usage     == JsonApi("POST", "reset", "count", LicenseEntitlement, {})

-----------------------------------------------------------------------------
(* Signing keys, releases, the health check.                               *)

list_signing_keys == JsonApi("GET", "none", "none", SigningKeyResource, {})

check_for_upgrade      == JsonApi("GET", "upgrade", "none", ReleaseResource, {})
list_release_artifacts == JsonApi("GET", "none", "none", ArtifactResource, {})
get_artifact           == JsonApi("GET", "none", "none", ArtifactResource, {})
artifact_download_url  == JsonApi("GET", "download", "none", ArtifactResource, {})

health == Flat("GET", "none", HealthStatus)

-----------------------------------------------------------------------------
(* The table.                                                              *)

Requests ==
    [validate_by_key |-> validate_by_key, validate_by_id |-> validate_by_id,
     quick_validate |-> quick_validate, get_license |-> get_license,
     get_policy |-> get_policy, get_license_policy |-> get_license_policy,
     check_in |-> check_in, check_out_license |-> check_out_license,
     check_out_license_json |-> check_out_license_json,
     get_machine |-> get_machine, list_machines |-> list_machines,
     update_machine |-> update_machine, delete_machine |-> delete_machine,
     create_machine |-> create_machine, ping_heartbeat |-> ping_heartbeat,
     reset_heartbeat |-> reset_heartbeat, check_out_machine |-> check_out_machine,
     check_out_machine_json |-> check_out_machine_json,
     generate_offline_proof |-> generate_offline_proof,
     list_components |-> list_components, create_component |-> create_component,
     list_machine_processes |-> list_machine_processes,
     create_process |-> create_process, ping_process |-> ping_process,
     delete_process |-> delete_process, list_entitlements |-> list_entitlements,
     list_license_entitlements |-> list_license_entitlements,
     get_entitlement |-> get_entitlement, has_entitlement |-> has_entitlement,
     increment_entitlement_usage |-> increment_entitlement_usage,
     decrement_entitlement_usage |-> decrement_entitlement_usage,
     reset_entitlement_usage |-> reset_entitlement_usage,
     list_signing_keys |-> list_signing_keys, check_for_upgrade |-> check_for_upgrade,
     list_release_artifacts |-> list_release_artifacts, get_artifact |-> get_artifact,
     artifact_download_url |-> artifact_download_url, health |-> health]

\* Requests that name no row, and so cannot miss one.
Unnamed == {"list_machines", "list_signing_keys", "health"}

\* The one request without an Authorization header.
Anonymous == {"health"}

\* 204 is an answer of its own.
Offers == {"check_for_upgrade"}

\* The code of a create whose identity is in use.
ConflictCode == [create_machine |-> "FINGERPRINT_TAKEN",
                 create_component |-> "FINGERPRINT_TAKEN",
                 create_process |-> "PID_TAKEN"]
==============================================================================
