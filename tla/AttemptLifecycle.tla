-------------------------- MODULE AttemptLifecycle --------------------------
(***************************************************************************)
(* The closed attempt state machine and the failure classification of      *)
(* src/runtime.cpp, as constant operators.  Everything the coordinator     *)
(* does to an attempt goes through is_legal_transition, except the         *)
(* reclassification Coordinator::open performs after a restart.            *)
(***************************************************************************)

\* enum class AttemptState, with "Absent" for an id not yet minted.
AttemptStates ==
    {"Absent", "Created", "Eligible", "Assigned", "Preparing", "Running",
     "Produced", "Validating", "CommitReady", "Committed", "Failed",
     "Cancelled", "Fenced", "Ambiguous", "Retired"}

\* The rows of the switch in is_legal_transition.
LegalTransitions ==
    UNION {
      {"Created"}     \X {"Eligible", "Fenced", "Cancelled"},
      {"Eligible"}    \X {"Assigned", "Failed", "Fenced", "Cancelled"},
      {"Assigned"}    \X {"Preparing", "Failed", "Fenced", "Cancelled", "Ambiguous"},
      {"Preparing"}   \X {"Running", "Produced", "Failed", "Fenced", "Cancelled", "Ambiguous"},
      {"Running"}     \X {"Produced", "Failed", "Fenced", "Cancelled", "Ambiguous"},
      {"Produced"}    \X {"Validating", "Failed", "Fenced", "Cancelled"},
      {"Validating"}  \X {"CommitReady", "Failed", "Fenced", "Cancelled"},
      {"CommitReady"} \X {"Committed", "Failed", "Fenced", "Cancelled", "Ambiguous"},
      {"Committed", "Failed", "Cancelled", "Fenced", "Ambiguous"} \X {"Retired"} }

\* is_legal_transition with a mistake no specification uses: Ambiguous can be cancelled.
is_legal_transition_mutant_ambiguous(from, to) ==
    <<from, to>> \in LegalTransitions \cup {<<"Ambiguous", "Cancelled">>}
is_legal_transition(from, to) == <<from, to>> \in LegalTransitions

\* Ambiguous is not terminal: it can still be retired, and only retired.
is_terminal_state(state) ==
    state \in {"Committed", "Failed", "Cancelled", "Fenced", "Retired"}

holds_commit_authority(state) ==
    state \in {"Assigned", "Preparing", "Running", "Produced", "Validating", "CommitReady"}

\* transition_attempt succeeds on a legal transition and on no move at all.
transition_ok(from, to) == from = to \/ is_legal_transition(from, to)

-----------------------------------------------------------------------------
\* The cases of the switch in classify_failure; every other ErrorCode is its
\* default, NonRetryable.
RetryableCodes ==
    {"TransportFailure", "ConnectionClosed", "Timeout", "IoError", "Internal",
     "StaleEpoch", "StaleWorkerBoot", "StaleWorkerGeneration", "StaleLease",
     "StaleCompilation", "StaleAttempt", "StaleSource", "StaleIR", "StaleDependencies",
     "StaleToolchain", "StaleTarget", "StaleSpecialization", "StalePolicy", "StaleCache",
     "StaleRequest", "StaleSession"}
AmbiguousCodes == {"Ambiguous", "Shutdown", "Unknown"}

classify_failure(code) ==
    CASE code \in RetryableCodes -> "Retryable"
      [] code \in AmbiguousCodes -> "Ambiguous"
      [] OTHER                   -> "NonRetryable"

\* The state fail_attempt_locked moves an attempt to for a failure code.
failure_state(code) ==
    CASE code \in {"Fenced", "StaleWorkerBoot", "StaleWorkerGeneration"} -> "Fenced"
      [] code = "Cancelled" -> "Cancelled"
      [] code = "Ambiguous" -> "Ambiguous"
      [] OTHER              -> "Failed"
=============================================================================
