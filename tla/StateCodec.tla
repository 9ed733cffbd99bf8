----------------------------- MODULE StateCodec -----------------------------
(***************************************************************************)
(* The snapshot of the coordinator's state (src/state_codec.cpp): the       *)
(* header, seven generation registries and the tables of records, one after *)
(* the other.  A registry is a sequence of slots, each with the contents it *)
(* knows; the reader restores the pairs and forgets which one was current.  *)
(***************************************************************************)
EXTENDS Records

kMaxStateRecords == 4194304
DC_SCHEMA_VERSION == 1

RegistrySlot ==
  gen(<<"current">>) \o table("contents", kMaxStateRecords, digest(<<"content">>) \o gen(<<"generation">>))
encode_registry(name) ==
  rec(name, u64(<<"count", "entries">>) \o repeat("slots", "count", u64(<<"id">>) \o RegistrySlot))
decode_registry(name) ==
  rec(name, range64("count", 0, kMaxStateRecords) \o range64("entries", 0, kMaxStateRecords)
            \o repeat("slots", "count", id(<<"id">>) \o RegistrySlot \o restore))

StateHeader ==
  gen(<<"epoch">>)
  \o u64(<<"seq", "next_compilation_id", "next_unit_id", "next_attempt_id", "next_lease_id",
           "next_artifact_id", "next_commit_id", "next_provenance_id", "next_validation_id",
           "next_cache_entry_id", "next_worker_id", "next_boot_id", "next_session_id",
           "next_intermediate_id">>)
  \o gen(<<"cache_generation">>) \o i64(<<"opened_at">>) \o u64(<<"records_since_snapshot", "restarts">>)

Registries(coder(_)) ==
  coder("sources") \o coder("irs") \o coder("dependencies") \o coder("toolchains") \o coder("targets")
  \o coder("specializations") \o coder("policies")

encode_state ==
  LET records(name, sub) == table(name, kMaxStateRecords, sub)
  IN domain("dc.state.v1") \o u16(<<"schema">>) \o StateHeader \o Registries(encode_registry)
     \o records("workers", encode_worker) \o records("requests", encode_request)
     \o records("jobs", encode_job) \o records("compilations", encode_compilation)
     \o records("attempts", encode_attempt) \o records("commits", encode_commit)
     \o records("authoritative", id(<<"compilation", "commit">>))
     \o records("provenances", encode_provenance) \o records("validations", encode_validation_report)
     \o records("cache_entries", encode_cache_entry) \o records("intermediates", encode_intermediate)
     \o records("leases", encode_lease) \o records("negative_cache", encode_negative_cache)
     \o records("violations", i64(<<"at">>) \o str(<<"operation">>) \o enumerator16("code", ErrorCode)
                              \o id(<<"session", "worker">>) \o str(<<"detail">>))

decode_state ==
  LET records(name, sub) == table(name, kMaxStateRecords, sub)
  IN domain("dc.state.v1") \o range16("schema", DC_SCHEMA_VERSION, DC_SCHEMA_VERSION)
     \o StateHeader \o Registries(decode_registry)
     \o records("workers", decode_worker) \o records("requests", decode_request)
     \o records("jobs", decode_job) \o records("compilations", decode_compilation)
     \o records("attempts", decode_attempt) \o records("commits", decode_commit)
     \o records("authoritative", id(<<"compilation", "commit">>))
     \o records("provenances", decode_provenance) \o records("validations", decode_validation_report)
     \o records("cache_entries", decode_cache_entry) \o records("intermediates", decode_intermediate)
     \o records("leases", decode_lease) \o records("negative_cache", decode_negative_cache)
     \o records("violations", i64(<<"at">>) \o str(<<"operation">>) \o code("code", ErrorCode_Shutdown)
                              \o id(<<"session", "worker">>) \o str(<<"detail">>))

(* Jobs and requests as journal records of their own.                       *)
encode_job_record == encode_job
decode_job_record == decode_job
encode_request_record == encode_request
decode_request_record == decode_request

=============================================================================
