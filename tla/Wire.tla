-------------------------------- MODULE Wire --------------------------------
(***************************************************************************)
(* The payloads of the wire protocol (src/wire.cpp, and the authority claim *)
(* of src/runtime.cpp), each writer and reader as a layout.  Frames are in  *)
(* Transport.                                                               *)
(***************************************************************************)
EXTENDS Records

DC_PROTOCOL_VERSION == 1
UnitKind_Link == 1
CacheOutcome_Miss == 5
Op_ValidateResponse == 22

ClaimFields ==
  gen(<<"epoch">>) \o id(<<"compilation">>) \o gen(<<"compilation_generation">>) \o id(<<"unit">>)
  \o gen(<<"unit_generation">>) \o id(<<"attempt">>) \o gen(<<"attempt_generation">>)
  \o id(<<"worker", "worker_boot">>) \o gen(<<"worker_generation">>) \o id(<<"lease">>)
  \o gen(<<"lease_generation", "source_generation", "ir_generation", "dependency_generation",
           "toolchain_generation", "target_generation", "specialization_generation",
           "policy_generation", "cache_generation">>)
  \o digest(<<"request_identity", "unit_identity">>)
write_authority_claim == domain("dc.authority-claim.v1") \o ClaimFields
read_authority_claim  == domain("dc.authority-claim.v1") \o ClaimFields

ControlAuthority ==
  id(<<"compilation">>) \o gen(<<"compilation_generation">>) \o id(<<"attempt">>)
  \o gen(<<"attempt_generation">>) \o id(<<"lease">>) \o gen(<<"lease_generation">>)
  \o id(<<"commit">>) \o digest(<<"artifact_digest">>) \o str(<<"reason">>)
write_control_record == domain("dc.msg.control.v1") \o id(<<"session">>) \o enumerator("kind", ControlKind) \o ControlAuthority
read_control_record  == domain("dc.msg.control.v1") \o id(<<"session">>) \o enum("kind", 2) \o ControlAuthority

encode_hello == domain("dc.msg.hello.v1") \o enumerator("role", SessionRole) \o str(<<"name">>) \o u32(<<"protocol_version">>)
decode_hello == domain("dc.msg.hello.v1") \o enum("role", 2) \o str(<<"name">>)
                \o range("protocol_version", DC_PROTOCOL_VERSION, DC_PROTOCOL_VERSION)

encode_register_worker ==
  domain("dc.msg.register-worker.v1") \o str(<<"endpoint", "host">>) \o id(<<"worker_id", "boot_id">>)
  \o u32(<<"max_inflight">>) \o rec("capabilities", encode_capabilities)
decode_register_worker ==
  domain("dc.msg.register-worker.v1") \o str(<<"endpoint", "host">>) \o id(<<"worker_id", "boot_id">>)
  \o range("max_inflight", 1, 64) \o rec("capabilities", decode_capabilities)

ReadyFields == id(<<"session", "worker", "boot">>) \o gen(<<"generation", "epoch">>) \o str(<<"detail">>)
encode_ready == domain("dc.msg.ready.v1") \o ReadyFields
decode_ready == domain("dc.msg.ready.v1") \o ReadyFields

encode_submit ==
  domain("dc.msg.submit.v1") \o rec("request", encode_request) \o boolean(<<"dry_run", "force_rebuild">>)
  \o list("blobs", digest(<<"digest">>) \o blob(<<"bytes">>))
decode_submit ==
  domain("dc.msg.submit.v1") \o rec("request", decode_request) \o boolean(<<"dry_run", "force_rebuild">>)
  \o capped("blobs", 65536, digest(<<"digest">>) \o blob(<<"bytes">>) \o match_blob)

encode_authority_claim == write_authority_claim
decode_authority_claim == read_authority_claim

AssignmentAuthority(claim) ==
  id(<<"session", "worker", "worker_boot">>) \o gen(<<"worker_generation">>) \o rec("claim", claim)
  \o id(<<"compilation">>) \o gen(<<"compilation_generation">>) \o id(<<"unit">>)
  \o gen(<<"unit_generation">>) \o id(<<"attempt">>) \o gen(<<"attempt_generation">>) \o u32(<<"unit_index">>)
encode_assignment ==
  domain("dc.msg.assign.v1") \o AssignmentAuthority(write_authority_claim)
  \o enumerator("kind", UnitKind) \o enumerator("output_kind", OutputKind) \o str(<<"logical_name">>)
  \o list("sources", str(<<"logical_name">>) \o enumerator("format", InputFormat)
                     \o str(<<"language_mode">>) \o blob(<<"bytes">>))
  \o list("dependencies", str(<<"name">>) \o enumerator("kind", DependencyKind) \o blob(<<"bytes">>))
  \o string_list("flags")
  \o list("children", str(<<"logical_name">>) \o enumerator("kind", OutputKind) \o blob(<<"bytes">>))
  \o rec("toolchain", encode_toolchain) \o rec("target", encode_target)
  \o rec("specialization", encode_specialization) \o rec("policy", encode_policy)
  \o rec("environment", encode_environment) \o rec("validation", encode_validation_requirements)
  \o u64(<<"max_compile_millis">>) \o boolean(<<"speculative">>) \o rec("lease", encode_lease)
decode_assignment ==
  domain("dc.msg.assign.v1") \o AssignmentAuthority(read_authority_claim)
  \o enum("kind", UnitKind_Link) \o enum("output_kind", OutputKind_PreprocessedSource) \o str(<<"logical_name">>)
  \o capped("sources", 4096, str(<<"logical_name">>) \o enum("format", InputFormat_Other)
                             \o str(<<"language_mode">>) \o blob(<<"bytes">>))
  \o capped("dependencies", 65536, str(<<"name">>) \o enum("kind", DependencyKind_Other) \o blob(<<"bytes">>))
  \o string_list("flags")
  \o capped("children", 4096, str(<<"logical_name">>) \o enum("kind", OutputKind_PreprocessedSource) \o blob(<<"bytes">>))
  \o rec("toolchain", decode_toolchain) \o rec("target", decode_target)
  \o rec("specialization", decode_specialization) \o rec("policy", decode_policy)
  \o rec("environment", decode_environment) \o rec("validation", decode_validation_requirements)
  \o u64(<<"max_compile_millis">>) \o boolean(<<"speculative">>) \o rec("lease", decode_lease)

ReportCompiler == str(<<"compiler_invocation", "compiler_version_string">>)
                  \o u64(<<"compiler_wall_millis">>) \o u32(<<"exit_code">>)
encode_report_output ==
  domain("dc.msg.report-output.v1") \o rec("claim", write_authority_claim) \o enumerator("kind", OutputKind)
  \o str(<<"logical_name">>) \o digest(<<"declared_digest">>) \o blob(<<"bytes">>)
  \o rec("worker_validation", encode_validation_report) \o ReportCompiler
decode_report_output ==
  domain("dc.msg.report-output.v1") \o rec("claim", read_authority_claim)
  \o enum("kind", OutputKind_PreprocessedSource) \o str(<<"logical_name">>) \o digest(<<"declared_digest">>)
  \o blob(<<"bytes">>) \o rec("worker_validation", decode_validation_report) \o ReportCompiler

encode_fail_attempt ==
  domain("dc.msg.fail-attempt.v1") \o rec("claim", write_authority_claim) \o enumerator16("code", ErrorCode)
  \o str(<<"detail">>) \o boolean(<<"produced_candidate">>)
decode_fail_attempt ==
  domain("dc.msg.fail-attempt.v1") \o rec("claim", read_authority_claim) \o code("code", ErrorCode_Shutdown)
  \o str(<<"detail">>) \o boolean(<<"produced_candidate">>)

encode_control == write_control_record
decode_control == read_control_record
encode_commit_message == domain("dc.msg.commit.v1") \o rec("control", write_control_record) \o rec("commit", encode_commit)
decode_commit_message == domain("dc.msg.commit.v1") \o rec("control", read_control_record) \o rec("commit", decode_commit)

encode_cache_query == domain("dc.msg.cache-query.v1") \o digest(<<"unit_identity">>)
decode_cache_query == domain("dc.msg.cache-query.v1") \o digest(<<"unit_identity">>)

CacheMismatch == str(<<"dimension", "expected", "actual">>)
encode_cache_report ==
  domain("dc.msg.cache-report.v1") \o enumerator("outcome", CacheOutcome) \o str(<<"reason">>) \o boolean(<<"generation_drift">>)
  \o id(<<"decision_entry">>) \o list("mismatches", CacheMismatch) \o present("entry", encode_cache_entry)
decode_cache_report ==
  domain("dc.msg.cache-report.v1") \o enum("outcome", CacheOutcome_Miss) \o str(<<"reason">>)
  \o boolean(<<"generation_drift">>) \o id(<<"decision_entry">>) \o capped("mismatches", 1024, CacheMismatch)
  \o present("entry", decode_cache_entry)

encode_validate == domain("dc.msg.validate.v1") \o u32(<<"mode">>) \o digest(<<"subject">>) \o str(<<"nonce">>)
decode_validate == domain("dc.msg.validate.v1") \o range("mode", 0, 1) \o digest(<<"subject">>) \o str(<<"nonce">>)
encode_validate_response ==
  domain("dc.msg.validate-response.v1") \o u32(<<"mode">>) \o enumerator("evidence", EvidenceClass)
  \o digest(<<"capabilities_digest", "subject">>) \o str(<<"detail">>)
decode_validate_response ==
  domain("dc.msg.validate-response.v1") \o range("mode", 0, 1) \o enum("evidence", EvidenceClass_Unsupported)
  \o digest(<<"capabilities_digest", "subject">>) \o str(<<"detail">>)

encode_response == domain("dc.msg.response.v1") \o enumerator16("op", Op)
                   \o enumerator16("code", ErrorCode) \o str(<<"detail">>) \o blob(<<"payload">>)
decode_response == domain("dc.msg.response.v1") \o code("op", Op_ValidateResponse)
                   \o code("code", ErrorCode_Shutdown) \o str(<<"detail">>) \o blob(<<"payload">>)

SubmissionHeader == id(<<"request_id">>) \o digest(<<"request_identity">>)
                    \o boolean(<<"all_committed", "served_from_cache", "duplicate_request">>)
SubmittedUnit == u32(<<"index">>) \o id(<<"compilation", "unit">>) \o gen(<<"unit_generation">>)
                 \o digest(<<"unit_identity">>)
encode_submission_response ==
  domain("dc.msg.submission-response.v1") \o SubmissionHeader
  \o list("units", SubmittedUnit \o enumerator("state", CompilationState)
                   \o enumerator("outcome", CacheOutcome) \o str(<<"reason">>)
                   \o boolean(<<"committed", "scheduled">>) \o str(<<"detail">>) \o present("commit", encode_commit))
decode_submission_response ==
  domain("dc.msg.submission-response.v1") \o SubmissionHeader
  \o capped("units", 65536, SubmittedUnit \o enum("state", State_Retired) \o enum("outcome", CacheOutcome_Miss)
                   \o str(<<"reason">>) \o boolean(<<"committed", "scheduled">>) \o str(<<"detail">>)
                   \o present("commit", decode_commit))

encode_commit_response ==
  domain("dc.msg.commit-response.v1") \o enumerator("outcome", CommitOutcome)
  \o enumerator16("error", ErrorCode) \o str(<<"detail">>)
  \o boolean(<<"artifact_authoritative">>) \o present("commit", encode_commit)
  \o rec("validation", encode_validation_report)
decode_commit_response ==
  domain("dc.msg.commit-response.v1") \o enum("outcome", 3) \o code("error", ErrorCode_Shutdown)
  \o str(<<"detail">>) \o boolean(<<"artifact_authoritative">>) \o present("commit", decode_commit)
  \o rec("validation", decode_validation_report)

encode_query == domain("dc.msg.query.v1") \o u32(<<"kind">>) \o u64(<<"id">>) \o digest(<<"identity">>)
decode_query == domain("dc.msg.query.v1") \o range("kind", 0, 9) \o u64(<<"id">>) \o digest(<<"identity">>)

=============================================================================
