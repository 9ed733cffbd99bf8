----------------------------- MODULE Identities -----------------------------
(***************************************************************************)
(* What each content identity is made of (src/model.cpp and the capability *)
(* digest of src/runtime.cpp): the layout of the bytes that are hashed, and *)
(* the layouts the registry handles are derived from.  Path, ids,          *)
(* generations and evidence handles are not in them.                       *)
(***************************************************************************)
EXTENDS Canonical

ContentRef == digest(<<"digest">>) \o u64(<<"size">>)                       \* write_content_ref

write_binary_identity ==
  u8(<<"state">>) \o digest(<<"digest">>) \o u64(<<"size">>) \o str(<<"version_string">>)
  \o unless("state", 1, str(<<"path">>))                \* 1: BinaryIdState::Known

write_spec_field ==
  str(<<"name">>) \o u8(<<"kind">>)
  \o switch("kind", <<i64(<<"signed_value">>), u64(<<"unsigned_value">>), f64(<<"floating_value">>),
                      str(<<"text_value">>), boolean(<<"boolean_value">>)>>)

write_dependency_entry == str(<<"name">>) \o u8(<<"kind">>) \o rec("content", ContentRef)

write_accelerator ==
  u8(<<"vendor">>) \o str(<<"architecture">>) \o u32(<<"compute_major", "compute_minor">>)
  \o str(<<"isa", "device_runtime">>)

compute_dependency_entry_identity == domain("dc.dependency-entry.v1") \o write_dependency_entry
compute_dependency_set_identity == domain("dc.dependency-set.v1") \o list("entries", write_dependency_entry)
derive_dependency_set_id ==
  domain("dc.dependency-set-id.v1") \o list("entries", str(<<"name">>) \o u8(<<"kind">>))

derive_specialization_id ==
  domain("dc.specialization-id.v1") \o list("fields", str(<<"name">>) \o u8(<<"kind">>))
compute_specialization_identity == domain("dc.specialization.v1") \o list("fields", write_spec_field)

derive_policy_id == domain("dc.policy-id.v1") \o str(<<"profile">>)
compute_policy_identity ==
  domain("dc.policy.v1") \o str(<<"profile">>) \o u8(<<"reproducibility", "cache">>)
  \o boolean(<<"flag_order_significant", "require_exact_generation", "negative_cache_enabled">>)
  \o u32(<<"negative_cache_max_entries">>) \o boolean(<<"allow_speculative_duplication">>)
  \o u32(<<"max_attempts_per_unit">>)
  \o boolean(<<"require_trusted_workers", "require_provable_toolchain">>)

derive_toolchain_id ==
  domain("dc.toolchain-id.v1") \o u8(<<"family">>) \o str(<<"version_string">>)
  \o rec("compiler", str(<<"path">>))
compute_toolchain_identity ==
  domain("dc.toolchain.v1") \o u8(<<"family">>) \o str(<<"version_string">>)
  \o u32(<<"version_major", "version_minor", "version_patch">>)
  \o rec("compiler", write_binary_identity) \o rec("linker", write_binary_identity)
  \o rec("assembler", write_binary_identity) \o rec("runtime_library", write_binary_identity)
  \o list("sdk", str(<<"name", "version">>))
  \o list("plugins", str(<<"id", "version">>) \o digest(<<"digest">>))
  \o string_list("target_libraries") \o list("configuration", str(<<"first", "second">>))
  \o u8(<<"evidence">>)

derive_target_id ==
  domain("dc.target-id.v1") \o str(<<"triple">>) \o u8(<<"object_format">>)
  \o rec("accelerator", u8(<<"vendor">>) \o str(<<"architecture">>))
compute_target_identity ==
  domain("dc.target.v1") \o u8(<<"os", "arch", "abi">>) \o str(<<"triple">>)
  \o u8(<<"object_format", "stdlib">>) \o str(<<"runtime_abi">>) \o rec("accelerator", write_accelerator)

compute_environment_identity ==
  domain("dc.environment.v1") \o boolean(<<"deterministic", "inherit_process_environment">>)
  \o list("variables", str(<<"first", "second">>))

compute_capability_identity ==
  domain("dc.capabilities.v1")
  \o list("toolchains", digest(<<"identity_digest">>)) \o list("targets", digest(<<"identity_digest">>))
  \o list("input_formats", u8(<<"item">>))
  \o list("plugins", str(<<"id", "version">>) \o digest(<<"digest">>))
  \o list("sdks", str(<<"name", "version">>))
  \o u32(<<"logical_cores">>) \o u64(<<"memory_bytes", "scratch_bytes", "max_artifact_bytes">>)
  \o boolean(<<"filesystem_isolation", "sandbox", "deterministic_build", "remote_cache_access",
               "artifact_store_access", "trusted">>)
  \o u8(<<"evidence">>)

(* The six digests that begin both a unit's and a request's identity.       *)
RequestDigests ==
  LET own == digest(<<"identity_digest">>)
  IN rec("toolchain", own) \o rec("target", own) \o rec("specialization", own)
     \o rec("policy", own) \o rec("dependencies", own)
     \o hashed("environment", compute_environment_identity)

UnitBody_without_flags ==
  u8(<<"kind">>) \o str(<<"logical_name">>) \o u8(<<"output_kind">>)
  \o list("sources", str(<<"logical_name">>) \o u8(<<"format">>) \o str(<<"language_mode">>) \o rec("content", ContentRef))
  \o list("dependencies", write_dependency_entry)
UnitBody ==
  u8(<<"kind">>) \o str(<<"logical_name">>) \o u8(<<"output_kind">>)
  \o list("sources", str(<<"logical_name">>) \o u8(<<"format">>) \o str(<<"language_mode">>) \o rec("content", ContentRef))
  \o list("dependencies", write_dependency_entry) \o string_list("flags")

(* write_unit_identity_body: the unit with the identities of its children,  *)
(* as they stand in the request at that moment.                             *)
derive_unit_identity(request, unit) ==
  LET child(c) == [child |-> c.item, digest |-> request.units[c.item + 1].identity_digest]
      children == [children |-> [i \in 1..Len(unit.child_units) |-> child(unit.child_units[i])]]
  IN Sha256(Write(domain("dc.unit.v1") \o RequestDigests, request)
            \o Write(UnitBody, unit)
            \o Write(string_list("flags"), request)
            \o Write(list("children", u32(<<"child">>) \o digest(<<"digest">>)), children)
            \o Write(boolean(<<"mandatory">>), unit))

derive_request_identity ==
  domain("dc.request.v1") \o RequestDigests \o string_list("flags") \o digest(<<"authority_generation">>)
  \o rec("validation",
         boolean(<<"require_format_check", "require_digest_check", "require_target_metadata",
                   "require_dependency_metadata", "require_smoke_test">>)
         \o str(<<"smoke_expected_stdout">>) \o u32(<<"smoke_timeout_ms">>))
  \o list("units", digest(<<"identity_digest">>))

=============================================================================
