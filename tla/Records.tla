------------------------------ MODULE Records ------------------------------
(***************************************************************************)
(* The record codecs of src/codec.cpp and the snapshot codec of            *)
(* src/state_codec.cpp.  Each encode_x and decode_x is a layout of its own, *)
(* in the order of its function; the decoders add what they check once the *)
(* fields are read: digests recomputed from the contents, handles derived  *)
(* again, records brought into the normal form of Requests.                *)
(***************************************************************************)
EXTENDS Requests

(* What a decoder does once the fields are read: the digest must be the one *)
(* of the contents; the handle must be, or is replaced by, the derived one; *)
(* the record is brought into its normal form, which must have the digests  *)
(* that were claimed; KNOWN needs a digest; a blob must have its digest; a   *)
(* restored registry slot takes its highest generation.                     *)
match(name, sub)    == <<Field("match", name, 0, sub)>>
match_id(name, sub) == <<Field("match_id", name, 0, sub)>>
derive(name, sub)   == <<Field("derive", name, 0, sub)>>
canonicalize(what)  == <<Field("canonicalize", what, 0, <<>>)>>
known_has_digest    == <<Field("known_has_digest", "state", 0, <<>>)>>
match_blob          == <<Field("match_blob", "digest", 0, <<>>)>>
restore             == <<Field("restore", "current", 0, <<>>)>>
Checks == {"match", "match_id", "derive", "canonicalize", "known_has_digest", "match_blob", "restore"}

(* The digest of the bytes of a blob.                                       *)
BlobDigest(bytes) == Sha256(<<"blob", bytes>>)

NormalForm(what, v) ==
  CASE what = "toolchain" -> Accepted(0, canonicalize_toolchain(v))
    [] what = "specialization" -> canonicalize_specialization(v)
    [] what = "dependencies" -> Accepted(0, canonicalize_dependencies(v))
    [] what = "environment" -> Accepted(0, canonicalize_environment(v))
    [] what = "capabilities" -> Accepted(0, canonicalize_capabilities(v))
    [] what = "request" -> canonicalize_request(v)

SameDigests(what, claimed, v) ==
  CASE what = "environment" -> TRUE
    [] what = "capabilities" -> claimed.digest = v.digest
    [] what = "request" -> /\ claimed.request_identity = v.request_identity
                           /\ \A i \in 1..Len(v.units) : claimed.units[i].identity_digest = v.units[i].identity_digest
    [] OTHER -> claimed.identity_digest = v.identity_digest

Renewed(what, at, claimed, normal) ==
  IF ~normal.ok THEN Refused(at)
  ELSE IF SameDigests(what, claimed, normal.value) THEN Accepted(at, normal.value) ELSE Refused(at)

HighestGeneration(contents) ==
  FoldSeq(LAMBDA c, high : IF c.generation > high THEN c.generation ELSE high, 0, contents)

Demand(holds, at, v) == IF holds THEN Accepted(at, v) ELSE Refused(at)
Checked(f, at, v) ==
  CASE f.kind = "match" -> Demand(v[f.name] = Sha256(Write(f.sub, v)), at, v)
    [] f.kind = "match_id" -> Demand(v[f.name] = Handle(Write(f.sub, v)), at, v)
    [] f.kind = "derive" -> Accepted(at, (f.name :> Handle(Write(f.sub, v))) @@ v)
    [] f.kind = "canonicalize" -> Renewed(f.name, at, v, NormalForm(f.name, v))
    [] f.kind = "known_has_digest" -> Demand(v.state = 1 => v.digest # NoDigest, at, v)
    [] f.kind = "match_blob" -> Demand(v.digest = BlobDigest(v.bytes), at, v)
    [] f.kind = "restore" -> Accepted(at, (f.name :> HighestGeneration(v.contents)) @@ v)

(* A reader passes over its layout and stops at the first field it refuses. *)
RECURSIVE ReadFrom(_, _, _, _), ReadItems(_, _, _, _, _)
ReadCounted(f, bytes, count) ==
  IF count.ok THEN ReadItems(f.sub, count.value, bytes, count.at, <<>>) ELSE count
ReadField(f, bytes, at, v) ==
  CASE f.kind \in FixedWidth -> ReadFixed(f, bytes, at)
    [] f.kind \in {"str", "blob"} -> ReadText(bytes, at)
    [] f.kind = "domain" -> ReadDomain(f.name, bytes, at)
    [] f.kind = "rec" -> ReadFrom(f.sub, bytes, at, <<>>)
    [] f.kind \in {"list", "table", "present"} -> ReadCounted(f, bytes, ReadCount(f, bytes, at))
    [] f.kind = "repeat" -> ReadItems(f.sub, v[f.bound], bytes, at, <<>>)
    [] f.kind \in Checks -> Checked(f, at, v)
With(f, v, value) ==
  CASE f.kind = "domain" -> v [] f.kind \in Checks -> value [] OTHER -> (f.name :> value) @@ v
ReadOn(layout, bytes, v, r) ==
  IF r.ok THEN ReadFrom(Tail(layout), bytes, r.at, With(Head(layout), v, r.value)) ELSE r
ReadFrom(layout, bytes, at, v) ==
  IF layout = <<>> THEN Accepted(at, v) ELSE ReadOn(layout, bytes, v, ReadField(Head(layout), bytes, at, v))
ReadMore(sub, n, bytes, items, r) ==
  IF r.ok THEN ReadItems(sub, n - 1, bytes, r.at, Append(items, r.value)) ELSE r
ReadItems(sub, n, bytes, at, items) ==
  IF n = 0 THEN Accepted(at, items) ELSE ReadMore(sub, n, bytes, items, ReadFrom(sub, bytes, at, <<>>))

(* A record at the start of a buffer, and a whole buffer, of which nothing   *)
(* may be left over (at_end).                                               *)
AtEnd(r, length) == IF r.ok /\ r.at # length THEN Refused(r.at) ELSE r
ReadStart(layout, bytes) == ReadFrom(layout, bytes, 0, <<>>)
Read(layout, bytes) == AtEnd(ReadStart(layout, bytes), Len(bytes))

(***************************************************************************)
(* The enumerations the encoders write, as the headers declare them.         *)
(***************************************************************************)
EvidenceClass == 0..3
InputFormat == 0..10
DependencyKind == 0..10
OsKind == 0..5
ArchKind == 0..5
AbiKind == 0..3
ObjectFormat == 0..6
AcceleratorVendor == 0..4
StdlibKind == 0..4
CompilerFamily == 0..8
BinaryIdState == 0..2
SpecValueKind == 0..4
ReproducibilityRequirement == 0..2
CachePolicy == 0..2
OutputKind == 0..7
UnitKind == 0..1
ValidationOutcome == 0..2
CacheOutcome == 0..5
NegativeCacheReason == 0..3
IntermediateKind == 0..6
WorkerHealth == 0..5
AttemptState == 0..13
CompilationState == 0..13
CommitOutcome == 0..3
ControlKind == 0..2
SessionRole == 0..2
Op == 0..22
ErrorCode == (0..13) \cup (20..35) \cup (40..42) \cup (50..61) \cup (70..74) \cup (80..83) \cup (90..94)

(* The last enumerators, which the decoders name as the bound.              *)
EvidenceClass_Unsupported == 3
CompilerFamily_MsvcLinker == 8
BinaryIdState_Unavailable == 2
OutputKind_PreprocessedSource == 7
InputFormat_Other == 10
DependencyKind_Other == 10
ValidationOutcome_Unknown == 2
ErrorCode_Shutdown == 94
State_Retired == 13           \* AttemptState and CompilationState
Reproducibility_NotRequired == 2
NegativeCacheReason_PolicyRefusal == 3
IntermediateKind_LinkInput == 5
IntermediateKind_Metadata == 6

encode_content_ref == ContentRef
decode_content_ref == digest(<<"digest">>) \o u64(<<"size">>)

encode_binary_identity ==
  enumerator("state", BinaryIdState) \o digest(<<"digest">>) \o u64(<<"size">>)
  \o str(<<"path", "version_string">>)
decode_binary_identity ==
  enum("state", BinaryIdState_Unavailable) \o digest(<<"digest">>) \o u64(<<"size">>)
  \o str(<<"path", "version_string">>) \o known_has_digest

write_sdk == str(<<"name", "version">>)
read_sdk  == str(<<"name", "version">>)
write_plugin == str(<<"id", "version">>) \o digest(<<"digest">>)
read_plugin  == str(<<"id", "version">>) \o digest(<<"digest">>)

encode_toolchain ==
  id(<<"id">>) \o gen(<<"generation">>) \o enumerator("family", CompilerFamily) \o str(<<"version_string">>)
  \o u32(<<"version_major", "version_minor", "version_patch">>)
  \o rec("compiler", encode_binary_identity) \o rec("linker", encode_binary_identity)
  \o rec("assembler", encode_binary_identity) \o rec("runtime_library", encode_binary_identity)
  \o list("sdk", write_sdk) \o list("plugins", write_plugin) \o string_list("target_libraries")
  \o list("configuration", str(<<"first", "second">>))
  \o enumerator("evidence", EvidenceClass) \o id(<<"evidence_id">>) \o gen(<<"evidence_generation">>)
  \o digest(<<"identity_digest">>)
decode_toolchain ==
  id(<<"id">>) \o gen(<<"generation">>) \o enum("family", CompilerFamily_MsvcLinker)
  \o str(<<"version_string">>) \o u32(<<"version_major", "version_minor", "version_patch">>)
  \o rec("compiler", decode_binary_identity) \o rec("linker", decode_binary_identity)
  \o rec("assembler", decode_binary_identity) \o rec("runtime_library", decode_binary_identity)
  \o list("sdk", read_sdk) \o list("plugins", read_plugin) \o string_list("target_libraries")
  \o list("configuration", str(<<"first", "second">>))
  \o enum("evidence", EvidenceClass_Unsupported) \o optional_id(<<"evidence_id">>)
  \o gen(<<"evidence_generation">>) \o digest(<<"identity_digest">>)
  \o canonicalize("toolchain")

encode_target ==
  id(<<"id">>) \o gen(<<"generation">>) \o enumerator("os", OsKind) \o enumerator("arch", ArchKind)
  \o enumerator("abi", AbiKind) \o str(<<"triple">>) \o enumerator("object_format", ObjectFormat)
  \o enumerator("stdlib", StdlibKind) \o str(<<"runtime_abi">>)
  \o rec("accelerator", enumerator("vendor", AcceleratorVendor) \o str(<<"architecture">>)
                        \o u32(<<"compute_major", "compute_minor">>) \o str(<<"isa", "device_runtime">>))
  \o enumerator("evidence", EvidenceClass) \o digest(<<"identity_digest">>)
decode_target ==
  id(<<"id">>) \o gen(<<"generation">>) \o enum("os", 5) \o enum("arch", 5) \o enum("abi", 3)
  \o str(<<"triple">>) \o enum("object_format", 6) \o enum("stdlib", 4) \o str(<<"runtime_abi">>)
  \o rec("accelerator", enum("vendor", 4) \o str(<<"architecture">>)
                        \o u32(<<"compute_major", "compute_minor">>) \o str(<<"isa", "device_runtime">>))
  \o enum("evidence", EvidenceClass_Unsupported) \o digest(<<"identity_digest">>)
  \o match_id("id", derive_target_id) \o match("identity_digest", compute_target_identity)

SpecFieldValues ==
  i64(<<"signed_value">>) \o u64(<<"unsigned_value">>) \o f64(<<"floating_value">>)
  \o str(<<"text_value">>) \o boolean(<<"boolean_value">>)
encode_specialization ==
  id(<<"id">>) \o gen(<<"generation">>)
  \o list("fields", str(<<"name">>) \o enumerator("kind", SpecValueKind) \o SpecFieldValues) \o digest(<<"identity_digest">>)
decode_specialization ==
  id(<<"id">>) \o gen(<<"generation">>)
  \o list("fields", str(<<"name">>) \o enum("kind", 4) \o SpecFieldValues) \o digest(<<"identity_digest">>)
  \o canonicalize("specialization")

encode_dependency_entry ==
  str(<<"name">>) \o enumerator("kind", DependencyKind) \o rec("content", encode_content_ref)
  \o digest(<<"identity_digest">>)
decode_dependency_entry ==
  str(<<"name">>) \o enum("kind", DependencyKind_Other) \o rec("content", decode_content_ref)
  \o digest(<<"identity_digest">>) \o match("identity_digest", compute_dependency_entry_identity)

encode_dependency_set ==
  id(<<"id">>) \o gen(<<"generation">>) \o list("entries", encode_dependency_entry)
  \o digest(<<"identity_digest">>)
decode_dependency_set ==
  id(<<"id">>) \o gen(<<"generation">>) \o list("entries", decode_dependency_entry)
  \o digest(<<"identity_digest">>)
  \o canonicalize("dependencies")

encode_environment ==
  list("variables", str(<<"first", "second">>))
  \o boolean(<<"deterministic", "inherit_process_environment">>)
decode_environment ==
  list("variables", str(<<"first", "second">>))
  \o boolean(<<"deterministic", "inherit_process_environment">>) \o canonicalize("environment")

RequirementFlags == boolean(<<"require_format_check", "require_digest_check", "require_target_metadata",
                              "require_dependency_metadata", "require_smoke_test">>)
encode_validation_requirements ==
  RequirementFlags \o str(<<"smoke_expected_stdout">>) \o u32(<<"smoke_timeout_ms">>)
decode_validation_requirements ==
  RequirementFlags \o str(<<"smoke_expected_stdout">>) \o range("smoke_timeout_ms", 1, 3600000)

encode_policy ==
  id(<<"id">>) \o gen(<<"generation">>) \o str(<<"profile">>)
  \o enumerator("reproducibility", ReproducibilityRequirement) \o enumerator("cache", CachePolicy)
  \o boolean(<<"flag_order_significant", "require_exact_generation", "negative_cache_enabled">>)
  \o u32(<<"negative_cache_max_entries">>) \o boolean(<<"allow_speculative_duplication">>)
  \o u32(<<"max_attempts_per_unit">>)
  \o boolean(<<"require_trusted_workers", "require_provable_toolchain">>) \o digest(<<"identity_digest">>)
decode_policy ==
  id(<<"id">>) \o gen(<<"generation">>) \o str(<<"profile">>)
  \o enum("reproducibility", Reproducibility_NotRequired) \o enum("cache", 2)
  \o boolean(<<"flag_order_significant", "require_exact_generation", "negative_cache_enabled">>)
  \o range("negative_cache_max_entries", 0, 4096) \o boolean(<<"allow_speculative_duplication">>)
  \o range("max_attempts_per_unit", 1, 64)
  \o boolean(<<"require_trusted_workers", "require_provable_toolchain">>) \o digest(<<"identity_digest">>)
  \o derive("id", derive_policy_id) \o match("identity_digest", compute_policy_identity)

encode_unit_spec ==
  u32(<<"index">>) \o str(<<"logical_name">>) \o enumerator("kind", UnitKind)
  \o list("sources", str(<<"logical_name">>) \o enumerator("format", InputFormat)
                     \o str(<<"language_mode">>) \o rec("content", encode_content_ref))
  \o list("dependencies", encode_dependency_entry) \o string_list("flags")
  \o enumerator("output_kind", OutputKind)
  \o list("child_units", u32(<<"item">>)) \o boolean(<<"mandatory">>) \o digest(<<"identity_digest">>)
decode_unit_spec ==
  u32(<<"index">>) \o str(<<"logical_name">>) \o enum("kind", 1)
  \o list("sources", str(<<"logical_name">>) \o enum("format", InputFormat_Other)
                     \o str(<<"language_mode">>) \o rec("content", decode_content_ref))
  \o list("dependencies", decode_dependency_entry) \o string_list("flags")
  \o enum("output_kind", OutputKind_PreprocessedSource)
  \o list("child_units", u32(<<"item">>)) \o boolean(<<"mandatory">>) \o digest(<<"identity_digest">>)

encode_request ==
  id(<<"request_id">>) \o gen(<<"request_generation">>) \o rec("toolchain", encode_toolchain)
  \o rec("target", encode_target) \o rec("specialization", encode_specialization)
  \o rec("policy", encode_policy) \o rec("dependencies", encode_dependency_set)
  \o rec("environment", encode_environment) \o string_list("flags")
  \o rec("validation", encode_validation_requirements) \o list("units", encode_unit_spec)
  \o digest(<<"authority_generation", "request_identity">>)
decode_request ==
  id(<<"request_id">>) \o gen(<<"request_generation">>) \o rec("toolchain", decode_toolchain)
  \o rec("target", decode_target) \o rec("specialization", decode_specialization)
  \o rec("policy", decode_policy) \o rec("dependencies", decode_dependency_set)
  \o rec("environment", decode_environment) \o string_list("flags")
  \o rec("validation", decode_validation_requirements) \o list("units", decode_unit_spec)
  \o digest(<<"authority_generation", "request_identity">>)
  \o canonicalize("request")

CapabilityFlags == boolean(<<"filesystem_isolation", "sandbox", "deterministic_build",
                             "remote_cache_access", "artifact_store_access", "trusted">>)
encode_capabilities ==
  list("toolchains", encode_toolchain) \o list("targets", encode_target)
  \o list("input_formats", enumerator("item", InputFormat)) \o list("plugins", write_plugin) \o list("sdks", write_sdk)
  \o u32(<<"logical_cores">>) \o u64(<<"memory_bytes", "scratch_bytes", "max_artifact_bytes">>)
  \o CapabilityFlags \o enumerator("evidence", EvidenceClass) \o str(<<"host">>) \o digest(<<"digest">>)
decode_capabilities ==
  list("toolchains", decode_toolchain) \o list("targets", decode_target)
  \o list("input_formats", enum("item", InputFormat_Other)) \o list("plugins", read_plugin)
  \o list("sdks", read_sdk)
  \o u32(<<"logical_cores">>) \o u64(<<"memory_bytes", "scratch_bytes", "max_artifact_bytes">>)
  \o CapabilityFlags \o enum("evidence", EvidenceClass_Unsupported) \o str(<<"host">>)
  \o digest(<<"digest">>) \o canonicalize("capabilities")

encode_worker ==
  id(<<"id", "boot">>) \o gen(<<"generation">>) \o id(<<"session">>) \o str(<<"endpoint", "host">>)
  \o rec("capabilities", encode_capabilities) \o enumerator("health", WorkerHealth)
  \o boolean(<<"ready", "fenced", "trusted_evidence_fresh">>) \o u32(<<"queue_depth", "in_flight">>)
  \o u64(<<"completed_units", "failed_units", "total_compile_millis", "cache_affinity_hits">>)
  \o i64(<<"registered_at", "last_seen">>) \o list("active_leases", id(<<"item">>))
decode_worker ==
  id(<<"id", "boot">>) \o gen(<<"generation">>) \o optional_id(<<"session">>)
  \o str(<<"endpoint", "host">>) \o rec("capabilities", decode_capabilities) \o enum("health", 5)
  \o boolean(<<"ready", "fenced", "trusted_evidence_fresh">>) \o u32(<<"queue_depth", "in_flight">>)
  \o u64(<<"completed_units", "failed_units", "total_compile_millis", "cache_affinity_hits">>)
  \o i64(<<"registered_at", "last_seen">>) \o list("active_leases", id(<<"item">>))

encode_lease ==
  id(<<"id">>) \o gen(<<"generation">>) \o id(<<"compilation">>) \o gen(<<"compilation_generation">>)
  \o id(<<"unit", "attempt", "worker", "worker_boot">>) \o gen(<<"worker_generation", "epoch">>)
  \o i64(<<"issued_at">>) \o boolean(<<"revoked">>) \o str(<<"revocation_reason">>)
decode_lease_swapped ==
  id(<<"id">>) \o gen(<<"generation">>) \o id(<<"compilation">>) \o gen(<<"compilation_generation">>)
  \o id(<<"unit", "attempt", "worker_boot", "worker">>) \o gen(<<"worker_generation", "epoch">>)
  \o i64(<<"issued_at">>) \o boolean(<<"revoked">>) \o str(<<"revocation_reason">>)
decode_lease ==
  id(<<"id">>) \o gen(<<"generation">>) \o id(<<"compilation">>) \o gen(<<"compilation_generation">>)
  \o id(<<"unit", "attempt", "worker", "worker_boot">>) \o gen(<<"worker_generation", "epoch">>)
  \o i64(<<"issued_at">>) \o boolean(<<"revoked">>) \o str(<<"revocation_reason">>)

encode_validation_report ==
  id(<<"id">>) \o list("checks", str(<<"check">>) \o enumerator("outcome", ValidationOutcome) \o str(<<"detail">>))
  \o enumerator("aggregate", ValidationOutcome) \o str(<<"summary">>)
decode_validation_report ==
  optional_id(<<"id">>)
  \o capped("checks", 4096,
             str(<<"check">>) \o enum("outcome", ValidationOutcome_Unknown) \o str(<<"detail">>))
  \o enum("aggregate", ValidationOutcome_Unknown) \o str(<<"summary">>)

encode_attempt ==
  id(<<"id">>) \o gen(<<"generation">>) \o id(<<"compilation">>) \o gen(<<"compilation_generation">>)
  \o id(<<"unit", "worker", "worker_boot">>) \o gen(<<"worker_generation">>) \o id(<<"lease">>)
  \o gen(<<"lease_generation", "epoch">>) \o enumerator("state", AttemptState) \o u32(<<"ordinal">>)
  \o boolean(<<"speculative">>) \o i64(<<"created_at", "started_at", "finished_at">>)
  \o enumerator16("failure", ErrorCode) \o str(<<"failure_detail">>) \o rec("validation", encode_validation_report)
  \o rec("candidate", encode_content_ref) \o digest(<<"candidate_digest">>) \o id(<<"artifact">>)
  \o u64(<<"compiler_wall_millis">>) \o str(<<"compiler_invocation", "compiler_version_string">>)
decode_attempt ==
  id(<<"id">>) \o gen(<<"generation">>) \o id(<<"compilation">>) \o gen(<<"compilation_generation">>)
  \o id(<<"unit", "worker", "worker_boot">>) \o gen(<<"worker_generation">>) \o id(<<"lease">>)
  \o gen(<<"lease_generation", "epoch">>) \o enum("state", State_Retired) \o u32(<<"ordinal">>)
  \o boolean(<<"speculative">>) \o i64(<<"created_at", "started_at", "finished_at">>)
  \o code("failure", ErrorCode_Shutdown) \o str(<<"failure_detail">>)
  \o rec("validation", decode_validation_report) \o rec("candidate", decode_content_ref)
  \o digest(<<"candidate_digest">>) \o optional_id(<<"artifact">>)
  \o u64(<<"compiler_wall_millis">>) \o str(<<"compiler_invocation", "compiler_version_string">>)

ProvenanceAuthority ==
  id(<<"id">>) \o gen(<<"generation">>) \o id(<<"compilation">>) \o gen(<<"compilation_generation">>)
  \o id(<<"unit", "attempt">>) \o gen(<<"attempt_generation", "epoch">>)
  \o id(<<"worker", "worker_boot">>) \o gen(<<"worker_generation">>) \o id(<<"lease">>)
  \o gen(<<"lease_generation">>) \o id(<<"request_id">>) \o digest(<<"request_identity", "unit_identity">>)
ProvenanceIdentities ==
  digest(<<"source_identity", "ir_identity", "dependency_identity", "toolchain_identity",
           "target_identity", "specialization_identity", "policy_identity">>) \o id(<<"validation">>)
ProvenanceCompiler == str(<<"compiler_invocation", "compiler_version_string">>)
                      \o u64(<<"compiler_wall_millis">>) \o i64(<<"produced_at">>)
encode_provenance == ProvenanceAuthority \o rec("artifact", encode_content_ref) \o ProvenanceIdentities
                     \o enumerator("evidence", EvidenceClass) \o ProvenanceCompiler
decode_provenance == ProvenanceAuthority \o rec("artifact", decode_content_ref) \o ProvenanceIdentities
                     \o enum("evidence", EvidenceClass_Unsupported) \o ProvenanceCompiler

encode_commit ==
  id(<<"id">>) \o gen(<<"generation">>) \o id(<<"compilation">>) \o gen(<<"compilation_generation">>)
  \o id(<<"unit", "artifact">>) \o gen(<<"artifact_generation">>) \o digest(<<"artifact_digest">>)
  \o id(<<"provenance", "validation">>) \o gen(<<"epoch">>) \o id(<<"worker", "worker_boot", "attempt">>)
  \o i64(<<"committed_at">>) \o boolean(<<"deduplicated", "superseded">>)
decode_commit ==
  id(<<"id">>) \o gen(<<"generation">>) \o id(<<"compilation">>) \o gen(<<"compilation_generation">>)
  \o id(<<"unit", "artifact">>) \o gen(<<"artifact_generation">>) \o digest(<<"artifact_digest">>)
  \o id(<<"provenance", "validation">>) \o gen(<<"epoch">>) \o id(<<"worker", "worker_boot", "attempt">>)
  \o i64(<<"committed_at">>) \o boolean(<<"deduplicated", "superseded">>)

encode_artifact ==
  id(<<"id">>) \o gen(<<"generation">>) \o id(<<"compilation">>) \o gen(<<"compilation_generation">>)
  \o id(<<"unit">>) \o enumerator("kind", OutputKind) \o rec("content", encode_content_ref) \o str(<<"logical_name">>)
  \o digest(<<"target_identity", "toolchain_identity", "dependency_identity", "specialization_identity">>)
decode_artifact ==
  id(<<"id">>) \o gen(<<"generation">>) \o id(<<"compilation">>) \o gen(<<"compilation_generation">>)
  \o id(<<"unit">>) \o enum("kind", OutputKind_PreprocessedSource) \o rec("content", decode_content_ref)
  \o str(<<"logical_name">>)
  \o digest(<<"target_identity", "toolchain_identity", "dependency_identity", "specialization_identity">>)

CacheKey ==
  id(<<"artifact_id", "provenance", "validation">>)
  \o digest(<<"source_identity", "dependency_identity", "toolchain_identity">>)
  \o gen(<<"toolchain_generation">>) \o digest(<<"target_identity">>) \o gen(<<"target_generation">>)
  \o digest(<<"specialization_identity", "policy_identity", "environment_identity">>) \o id(<<"commit">>)
  \o i64(<<"created_at">>) \o boolean(<<"invalidated">>) \o str(<<"invalidation_reason">>)
  \o u32(<<"hit_count">>)
encode_cache_entry ==
  id(<<"id">>) \o gen(<<"generation">>) \o digest(<<"unit_identity">>) \o id(<<"compilation">>)
  \o gen(<<"compilation_generation">>) \o rec("artifact", encode_content_ref) \o CacheKey
decode_cache_entry ==
  id(<<"id">>) \o gen(<<"generation">>) \o digest(<<"unit_identity">>) \o id(<<"compilation">>)
  \o gen(<<"compilation_generation">>) \o rec("artifact", decode_content_ref) \o CacheKey

NegativeKey ==
  str(<<"diagnostic">>) \o digest(<<"toolchain_identity">>) \o gen(<<"toolchain_generation">>)
  \o digest(<<"target_identity">>) \o gen(<<"target_generation">>)
  \o digest(<<"specialization_identity", "policy_identity">>) \o i64(<<"created_at">>)
encode_negative_cache ==
  id(<<"id">>) \o digest(<<"unit_identity">>) \o enumerator("reason", NegativeCacheReason)
  \o enumerator16("failure", ErrorCode) \o NegativeKey
decode_negative_cache ==
  id(<<"id">>) \o digest(<<"unit_identity">>) \o enum("reason", NegativeCacheReason_PolicyRefusal)
  \o code("failure", ErrorCode_Shutdown) \o NegativeKey

IntermediateOrigin ==
  digest(<<"provenance_identity", "toolchain_identity", "target_identity", "dependency_identity">>)
  \o id(<<"compilation">>) \o gen(<<"compilation_generation">>) \o boolean(<<"authoritative">>)
encode_intermediate ==
  id(<<"id">>) \o gen(<<"generation">>) \o enumerator("kind", IntermediateKind)
  \o rec("content", encode_content_ref) \o IntermediateOrigin
decode_intermediate_short ==
  id(<<"id">>) \o gen(<<"generation">>) \o enum("kind", IntermediateKind_LinkInput)
  \o rec("content", decode_content_ref) \o IntermediateOrigin
decode_intermediate ==
  id(<<"id">>) \o gen(<<"generation">>) \o enum("kind", IntermediateKind_Metadata)
  \o rec("content", decode_content_ref) \o IntermediateOrigin

CompilationIdentities ==
  id(<<"id">>) \o gen(<<"generation">>) \o id(<<"unit">>) \o gen(<<"unit_generation">>)
  \o digest(<<"unit_identity">>) \o id(<<"request_id">>) \o gen(<<"request_generation">>)
  \o digest(<<"request_identity", "source_identity", "dependency_identity", "toolchain_identity",
              "target_identity", "specialization_identity", "policy_identity", "environment_identity">>)
  \o gen(<<"source_generation", "ir_generation", "dependency_generation", "toolchain_generation",
           "target_generation", "specialization_generation", "policy_generation">>)
CompilationPosition ==
  boolean(<<"cache_hit">>) \o i64(<<"created_at", "updated_at">>)
  \o u32(<<"unit_index", "parent_unit_index">>) \o boolean(<<"is_root">>)
encode_compilation ==
  CompilationIdentities \o enumerator("output_kind", OutputKind)
  \o enumerator("reproducibility", ReproducibilityRequirement) \o enumerator("state", CompilationState)
  \o list("attempts", id(<<"item">>)) \o id(<<"current_attempt">>) \o u32(<<"attempt_ordinal_counter">>)
  \o present("commit", encode_commit) \o list("divergent_candidates", encode_content_ref)
  \o boolean(<<"reproducibility_violation">>) \o str(<<"failure_detail">>)
  \o enumerator16("failure", ErrorCode) \o CompilationPosition
decode_compilation ==
  CompilationIdentities \o enum("output_kind", OutputKind_PreprocessedSource)
  \o enum("reproducibility", Reproducibility_NotRequired) \o enum("state", State_Retired)
  \o list("attempts", id(<<"item">>)) \o optional_id(<<"current_attempt">>)
  \o u32(<<"attempt_ordinal_counter">>)
  \o present("commit", decode_commit) \o list("divergent_candidates", decode_content_ref)
  \o boolean(<<"reproducibility_violation">>) \o str(<<"failure_detail">>)
  \o code("failure", ErrorCode_Shutdown) \o CompilationPosition

encode_job ==
  id(<<"request_id">>) \o gen(<<"request_generation">>) \o digest(<<"request_identity">>)
  \o list("units", id(<<"item">>)) \o u32(<<"root_index">>) \o list("mandatory_units", u32(<<"item">>))
  \o boolean(<<"committed">>) \o id(<<"committed_unit">>) \o enumerator16("failure", ErrorCode)
  \o str(<<"failure_detail">>) \o i64(<<"created_at">>)
decode_job ==
  id(<<"request_id">>) \o gen(<<"request_generation">>) \o digest(<<"request_identity">>)
  \o list("units", id(<<"item">>)) \o u32(<<"root_index">>) \o list("mandatory_units", u32(<<"item">>))
  \o boolean(<<"committed">>) \o optional_id(<<"committed_unit">>)
  \o code("failure", ErrorCode_Shutdown) \o str(<<"failure_detail">>) \o i64(<<"created_at">>)

=============================================================================
