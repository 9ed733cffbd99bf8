--------------------------- MODULE CoordinatorProofs ---------------------------
(***************************************************************************)
(* Machine-checked proofs about Coordinator, for every set of units,       *)
(* workers and digests and every bound: the types, the exactness of the    *)
(* authority table, exactly-once commit and the refinement of              *)
(* ArtifactAuthority.  The types alone are not inductive: a divergent      *)
(* report records a candidate, which an attempt inside report_output has   *)
(* by AttemptsBound.                                                       *)
(***************************************************************************)
EXTENDS Coordinator, FiniteSetTheorems, TLAPS

-----------------------------------------------------------------------------
(***************************************************************************)
(* Types of the operators the actions are built from.                      *)
(***************************************************************************)
\* Every code moves an attempt to a state of the life cycle.
LEMMA FailureStateType ==
    ASSUME NEW code
    PROVE  failure_state(code) \in AttemptStates
  BY DEF failure_state, AttemptStates

\* finish_attempt_bookkeeping never takes in_flight below zero.
LEMMA ReleaseType ==
    ASSUME NEW ws \in [Workers -> WorkerRecord], NEW w, NEW n \in Nat
    PROVE  Release(ws, w, n) \in [Workers -> WorkerRecord]
<1>. DEFINE left == IF n < ws[w].inflight THEN ws[w].inflight - n ELSE 0
<1>1. Release(ws, w, n) = [ws EXCEPT ![w] = [ws[w] EXCEPT !.inflight = left]]
  BY DEF Release
<1>2. ASSUME w \in Workers PROVE left \in Nat
  BY <1>2 DEF WorkerRecord
<1>3. ASSUME w \in Workers PROVE [ws[w] EXCEPT !.inflight = left] \in WorkerRecord
  <2>. HIDE DEF left
  <2>. QED BY <1>2, <1>3 DEF WorkerRecord
<1>. QED BY <1>1, <1>3

\* fail_attempt_locked yields an attempt and worker records again.
LEMMA FailedTypes ==
    ASSUME TypeOK, NEW a \in AttemptIds, NEW code
    PROVE  /\ FailedAttempt(a, code) \in AttemptRecord
           /\ FailedWorkers(a, code) \in [Workers -> WorkerRecord]
<1>1. attempts[a] \in AttemptRecord
  BY DEF TypeOK
<1>2. FailedAttempt(a, code) \in AttemptRecord
  BY <1>1, FailureStateType DEF FailedAttempt, AttemptRecord
<1>3. workers \in [Workers -> WorkerRecord]
  BY DEF TypeOK
<1>4. FailedWorkers(a, code) \in [Workers -> WorkerRecord]
  BY <1>3, ReleaseType DEF FailedWorkers
<1>. QED BY <1>2, <1>4

\* schedule_retry_or_fail changes states only.
LEMMA RetryTypes ==
    ASSUME TypeOK, NEW c, NEW code, schedule_retry_or_fail(c, code)
    PROVE  /\ comps' \in [Compilations -> CompilationRecord]
           /\ job' \in JobRecord
           /\ \A d \in Compilations : comps'[d].gen = comps[d].gen
<1>. DEFINE cs == [comps EXCEPT ![c].state = RetryState(comps, c, code)]
            failed == FanInFailed(cs, c)
<1>1. comps \in [Compilations -> CompilationRecord]
  BY DEF TypeOK
<1>2. RetryState(comps, c, code) \in CompStates
  BY DEF RetryState, CompStates
<1>3. cs \in [Compilations -> CompilationRecord] /\ \A d \in Compilations : cs[d].gen = comps[d].gen
  BY <1>1, <1>2 DEF CompilationRecord
<1>4. comps' = [d \in Compilations |-> IF d \in failed THEN [cs[d] EXCEPT !.state = "Failed"] ELSE cs[d]]
  BY DEF schedule_retry_or_fail
<1>5. "Failed" \in CompStates
  BY DEF CompStates
<1>6. comps' \in [Compilations -> CompilationRecord] /\ \A d \in Compilations : comps'[d].gen = comps[d].gen
  <2>. HIDE DEF cs, failed
  <2>. QED BY <1>3, <1>4, <1>5 DEF CompilationRecord
<1>7. job' \in JobRecord
  BY DEF schedule_retry_or_fail, TypeOK, JobRecord
<1>. QED BY <1>6, <1>7
-----------------------------------------------------------------------------
(***************************************************************************)
(* Types are preserved by every action.                                    *)
(***************************************************************************)
\* Coordinator::open on an empty state root starts with the right types.
LEMMA TypeInit == Init => TypeOK
<1>1. NoWorkerRecord \in WorkerRecord /\ NoSession \in SessionRecord
  BY DEF NoWorkerRecord, NoSession, WorkerRecord, SessionRecord
<1>2. [NewCompilation EXCEPT !.state = "Absent", !.gen = 0] \in CompilationRecord
  BY DEF NewCompilation, CompilationRecord, CompStates
<1>3. NoAttempt \in AttemptRecord /\ NoCommit \in CommitRecord
  BY DEF NoAttempt, NoCommit, AttemptRecord, CommitRecord, AttemptStates
<1>4. [committed |-> FALSE, failure |-> "Ok"] \in JobRecord
  BY DEF JobRecord
<1>. QED BY <1>1, <1>2, <1>3, <1>4 DEF Init, TypeOK

\* A worker record stays one when ready is replaced.
LEMMA WorkerReady ==
    ASSUME NEW r \in WorkerRecord, NEW b \in BOOLEAN
    PROVE  [r EXCEPT !.ready = b] \in WorkerRecord
  BY DEF WorkerRecord
\* A worker record stays one when its evidence is replaced.
LEMMA WorkerEvidence ==
    ASSUME NEW r \in WorkerRecord, NEW b \in BOOLEAN
    PROVE  [r EXCEPT !.evidence = b] \in WorkerRecord
  BY DEF WorkerRecord
\* A worker record stays one when build_assignment counts another attempt.
LEMMA WorkerLoad ==
    ASSUME NEW r \in WorkerRecord
    PROVE  [r EXCEPT !.inflight = r.inflight + 1] \in WorkerRecord
  BY DEF WorkerRecord
\* The types of the fields of a compilation record that the handlers read.
LEMMA CompilationFields ==
    ASSUME NEW r \in CompilationRecord
    PROVE  r.ordinal \in Nat /\ r.gen \in Nat /\ r.state \in CompStates
  BY DEF CompilationRecord
\* A compilation record stays one when its state is replaced.
LEMMA CompilationState ==
    ASSUME NEW r \in CompilationRecord, NEW st \in CompStates
    PROVE  [r EXCEPT !.state = st] \in CompilationRecord
  BY DEF CompilationRecord
\* A compilation record stays one when build_assignment takes it.
LEMMA CompilationAssigned ==
    ASSUME NEW r \in CompilationRecord, NEW n \in Nat, NEW st \in CompStates
    PROVE  [r EXCEPT !.state = st, !.ordinal = n] \in CompilationRecord
  BY DEF CompilationRecord

\* The attempt build_assignment creates.
LEMMA NewAttemptType ==
    ASSUME TypeOK, NEW c \in Compilations, NEW w \in Workers, NEW n \in Nat, NEW b \in BOOLEAN
    PROVE  NewAttempt(c, w, n, b) \in AttemptRecord
<1>1. comps[c].gen \in Nat /\ workers[w].boot \in Nat /\ workers[w].gen \in Nat /\ epoch \in Nat
  BY DEF TypeOK, CompilationRecord, WorkerRecord
<1>. QED BY <1>1 DEF NewAttempt, AttemptRecord, AttemptStates

\* The worker and session handlers.
LEMMA TypeSessions ==
    ASSUME TypeOK, NEW s,
           \/ \E w \in Workers, b \in 1..MaxBoot, e \in Evidence : register_worker(w, b, e)
           \/ s \in SessionIds /\ SessionStep(s)
    PROVE  TypeOK'
<1>. USE DEF transactionVars, lockVars
<1>1. CASE \E w \in Workers, b \in 1..MaxBoot, e \in Evidence : register_worker(w, b, e)
  <2>1. PICK w \in Workers, b \in 1..MaxBoot, e \in Evidence : register_worker(w, b, e)
    BY <1>1
  <2>2. nextSession \in SessionIds /\ b \in Nat /\ e \in BOOLEAN
    BY <2>1, CoordinatorAssumption DEF register_worker, SessionIds, TypeOK
  <2>3. [boot |-> b, gen |-> workers[w].gen + 1, session |-> nextSession, fenced |-> FALSE,
         evidence |-> e, ready |-> FALSE, inflight |-> 0] \in WorkerRecord
    BY <2>2 DEF TypeOK, WorkerRecord
  <2>4. [worker |-> w, boot |-> b, epoch |-> epoch, open |-> TRUE] \in SessionRecord
    BY <2>2 DEF TypeOK, SessionRecord
  <2>5. workers' \in [Workers -> WorkerRecord]
    BY <2>1, <2>3 DEF register_worker, TypeOK
  <2>6. sessions' \in [SessionIds -> SessionRecord]
    BY <2>1, <2>2, <2>4 DEF register_worker, TypeOK
  <2>7. nextSession' \in Nat \ {0}
    BY <2>1 DEF register_worker, TypeOK
  <2>. QED BY <2>1, <2>5, <2>6, <2>7 DEF register_worker, TypeOK
<1>2. CASE s \in SessionIds /\ \E e \in Evidence : advertise_capabilities(s, e)
  <2>1. PICK e \in Evidence : advertise_capabilities(s, e)
    BY <1>2
  <2>2. e \in BOOLEAN
    BY CoordinatorAssumption
  <2>. QED BY <2>1, <2>2, WorkerEvidence DEF advertise_capabilities, TypeOK
<1>3. CASE s \in SessionIds /\ mark_ready(s)
  BY <1>3, WorkerReady DEF mark_ready, TypeOK
<1>4. CASE s \in SessionIds /\ handle_validate_response(s)
  BY <1>4, WorkerReady DEF handle_validate_response, TypeOK
<1>5. CASE s \in SessionIds /\ disconnect_session(s)
  <2>1. [sessions[s] EXCEPT !.open = FALSE] \in SessionRecord
    BY <1>5 DEF TypeOK, SessionRecord
  <2>. QED BY <1>5, <2>1 DEF disconnect_session, TypeOK
<1>. QED BY <1>1, <1>2, <1>3, <1>4, <1>5 DEF SessionStep

\* pump().
LEMMA TypePump ==
    ASSUME TypeOK, NEW c \in Compilations, NEW w, NEW v,
           \/ pump
           \/ pump_skip(c)
           \/ pump_defer(c)
           \/ w \in Workers /\ pump_assign(c, w)
           \/ w \in Workers /\ v \in Workers /\ pump_assign_pair(c, w, v)
    PROVE  TypeOK'
<1>. USE DEF transactionVars, Visiting
<1>1. "Eligible" \in CompStates /\ "Assigned" \in CompStates
  BY DEF CompStates
<1>2. /\ comps[c] \in CompilationRecord
      /\ comps[c].ordinal + 1 \in Nat
      /\ comps[c].ordinal + 2 \in Nat
  BY CompilationFields DEF TypeOK
<1>3. CASE pump
  BY <1>3 DEF pump, TypeOK
<1>4. CASE pump_skip(c)
  BY <1>4 DEF pump_skip, TypeOK
<1>5. CASE pump_defer(c)
  BY <1>5, <1>1, <1>2, CompilationState DEF pump_defer, TypeOK
<1>6. CASE w \in Workers /\ pump_assign(c, w)
  <2>1. NewAttempt(c, w, comps[c].ordinal + 1, FALSE) \in AttemptRecord
    BY <1>2, <1>6, NewAttemptType
  <2>2. [comps[c] EXCEPT !.state = "Assigned", !.ordinal = comps[c].ordinal + 1] \in CompilationRecord
    BY <1>1, <1>2, CompilationAssigned
  <2>3. [workers[w] EXCEPT !.inflight = workers[w].inflight + 1] \in WorkerRecord
    BY <1>6, WorkerLoad DEF TypeOK
  <2>4. attempts' \in [AttemptIds -> AttemptRecord]
    BY <1>6, <2>1 DEF pump_assign, TypeOK
  <2>7. nextAttempt' \in Nat \ {0}
    BY <1>6 DEF pump_assign, TypeOK
  <2>5. comps' \in [Compilations -> CompilationRecord]
    BY <1>6, <2>2 DEF pump_assign, TypeOK
  <2>6. workers' \in [Workers -> WorkerRecord]
    BY <1>6, <2>3 DEF pump_assign, TypeOK
  <2>. QED BY <1>6, <2>4, <2>5, <2>6, <2>7 DEF pump_assign, TypeOK
<1>7. CASE w \in Workers /\ v \in Workers /\ pump_assign_pair(c, w, v)
  <2>1. /\ NewAttempt(c, w, comps[c].ordinal + 1, FALSE) \in AttemptRecord
        /\ NewAttempt(c, v, comps[c].ordinal + 2, TRUE) \in AttemptRecord
    BY <1>2, <1>7, NewAttemptType
  <2>2. [comps[c] EXCEPT !.state = "Assigned", !.ordinal = comps[c].ordinal + 2] \in CompilationRecord
    BY <1>1, <1>2, CompilationAssigned
  <2>3. /\ [workers[w] EXCEPT !.inflight = workers[w].inflight + 1] \in WorkerRecord
        /\ [workers[v] EXCEPT !.inflight = workers[v].inflight + 1] \in WorkerRecord
    BY <1>7, WorkerLoad DEF TypeOK
  <2>4. attempts' \in [AttemptIds -> AttemptRecord]
    BY <1>7, <2>1 DEF pump_assign_pair, TypeOK
  <2>7. nextAttempt' \in Nat \ {0}
    BY <1>7 DEF pump_assign_pair, TypeOK
  <2>5. comps' \in [Compilations -> CompilationRecord]
    BY <1>7, <2>2 DEF pump_assign_pair, TypeOK
  <2>6. workers' \in [Workers -> WorkerRecord]
    BY <1>7, <2>3 DEF pump_assign_pair, TypeOK
  <2>. QED BY <1>7, <2>4, <2>5, <2>6, <2>7 DEF pump_assign_pair, TypeOK
<1>. QED BY <1>3, <1>4, <1>5, <1>6, <1>7

\* An attempt record stays one when its state, its window or its lease is replaced.
LEMMA AttemptUpdate ==
    ASSUME NEW r \in AttemptRecord
    PROVE  /\ \A st \in AttemptStates : [r EXCEPT !.state = st] \in AttemptRecord
           /\ [r EXCEPT !.window = FALSE] \in AttemptRecord
           /\ [r EXCEPT !.revoked = TRUE] \in AttemptRecord
  BY DEF AttemptRecord
\* An attempt record stays one when report_output reserves it.
LEMMA AttemptProduced ==
    ASSUME NEW r \in AttemptRecord, NEW d \in Digests
    PROVE  [r EXCEPT !.state = "Produced", !.cand = d, !.window = TRUE] \in AttemptRecord
  BY DEF AttemptRecord, AttemptStates
\* An attempt record stays one when commit_locked commits it.
LEMMA AttemptCommitted ==
    ASSUME NEW r \in AttemptRecord
    PROVE  [r EXCEPT !.state = "Committed", !.revoked = TRUE, !.window = FALSE] \in AttemptRecord
  BY DEF AttemptRecord, AttemptStates

\* The messages of a worker about an attempt, before a report is decided.
LEMMA TypeAttempt ==
    ASSUME TypeOK, NEW a \in AttemptIds, NEW s, NEW d, NEW code,
           \/ begin_compile(a)
           \/ d \in Digests /\ report_reserve(s, a, d)
           \/ report_abandon(a)
           \/ report_stale(a)
           \/ fail_attempt(s, a, code)
    PROVE  TypeOK'
<1>. USE DEF lockVars
<1>1. attempts[a] \in AttemptRecord /\ comps \in [Compilations -> CompilationRecord]
  BY DEF TypeOK
<1>2. "Preparing" \in AttemptStates /\ "Fenced" \in AttemptStates
  BY DEF AttemptStates
<1>3. "Running" \in CompStates /\ "Producing" \in CompStates
  BY DEF CompStates
<1>4. CASE begin_compile(a)
  <2>. DEFINE st == IF comps[attempts[a].comp].state = "Committed"
                    THEN comps[attempts[a].comp].state ELSE "Running"
  <2>1. attempts' \in [AttemptIds -> AttemptRecord]
    BY <1>1, <1>2, <1>4, AttemptUpdate DEF begin_compile, TypeOK
  <2>2. ASSUME attempts[a].comp \in Compilations
        PROVE  [comps[attempts[a].comp] EXCEPT !.state = st] \in CompilationRecord
    <3>1. st \in CompStates
      BY <2>2, <1>1, <1>3, CompilationFields
    <3>. QED BY <2>2, <3>1, <1>1, CompilationState
  <2>3. comps' \in [Compilations -> CompilationRecord]
    BY <1>1, <1>4, <2>2 DEF begin_compile
  <2>. QED BY <1>4, <2>1, <2>3 DEF begin_compile, TypeOK
<1>5. CASE d \in Digests /\ report_reserve(s, a, d)
  <2>. DEFINE c == attempts[a].comp
              st == IF comps[c].state = "Committed" \/ authoritative[c] # 0
                    THEN comps[c].state ELSE "Producing"
  <2>1. attempts' \in [AttemptIds -> AttemptRecord]
    BY <1>1, <1>5, AttemptProduced DEF report_reserve, TypeOK
  <2>2. ASSUME c \in Compilations
        PROVE  [comps[c] EXCEPT !.state = st] \in CompilationRecord
    <3>1. st \in CompStates
      BY <2>2, <1>1, <1>3, CompilationFields
    <3>. QED BY <2>2, <3>1, <1>1, CompilationState
  <2>3. comps' \in [Compilations -> CompilationRecord]
    BY <1>1, <1>5, <2>2 DEF report_reserve
  <2>. QED BY <1>5, <2>1, <2>3 DEF report_reserve, TypeOK
<1>6. CASE report_abandon(a)
  BY <1>1, <1>6, AttemptUpdate DEF report_abandon, TypeOK
<1>7. CASE report_stale(a)
  <2>. DEFINE moved == transition_ok(attempts[a].state, "Fenced")
              r == [attempts[a] EXCEPT !.window = FALSE,
                                       !.state = IF moved THEN "Fenced" ELSE @,
                                       !.revoked = @ \/ moved]
  <2>1. moved \in BOOLEAN
    BY DEF transition_ok, is_legal_transition
  <2>2. r \in AttemptRecord
    <3>. HIDE DEF moved
    <3>. QED BY <1>1, <1>2, <2>1 DEF AttemptRecord
  <2>3. attempts' = [attempts EXCEPT ![a] = r]
    BY <1>7 DEF report_stale
  <2>5. attempts' \in [AttemptIds -> AttemptRecord]
    <3>. HIDE DEF r
    <3>. QED BY <2>2, <2>3 DEF TypeOK
  <2>4. workers' \in [Workers -> WorkerRecord]
    BY <1>7, ReleaseType DEF report_stale, TypeOK
  <2>. QED BY <1>7, <2>4, <2>5 DEF report_stale, TypeOK
<1>8. CASE fail_attempt(s, a, code)
  <2>1. FailedAttempt(a, code) \in AttemptRecord /\ workers' \in [Workers -> WorkerRecord]
    BY <1>8, FailedTypes DEF fail_attempt
  <2>2. comps' \in [Compilations -> CompilationRecord] /\ job' \in JobRecord
    BY <1>8, RetryTypes DEF fail_attempt
  <2>. QED BY <1>8, <2>1, <2>2 DEF fail_attempt, TypeOK
<1>. QED BY <1>4, <1>5, <1>6, <1>7, <1>8

\* A compilation record stays one when a divergent candidate is recorded.
LEMMA CompilationDivergent ==
    ASSUME NEW r \in CompilationRecord, NEW d \in Digests, NEW b \in BOOLEAN
    PROVE  [r EXCEPT !.divergent = r.divergent \cup {d}, !.violation = r.violation \/ b]
               \in CompilationRecord
  BY DEF CompilationRecord

\* What CandidateFailed leaves.
LEMMA CandidateFailedTypes ==
    ASSUME TypeOK, NEW a \in AttemptIds, NEW code, CandidateFailed(a, code)
    PROVE  /\ attempts' \in [AttemptIds -> AttemptRecord]
           /\ workers' \in [Workers -> WorkerRecord]
<1>1. FailedAttempt(a, code) \in AttemptRecord /\ workers' \in [Workers -> WorkerRecord]
  BY FailedTypes DEF CandidateFailed
<1>2. [FailedAttempt(a, code) EXCEPT !.window = FALSE] \in AttemptRecord
  BY <1>1, AttemptUpdate
<1>. QED BY <1>1, <1>2 DEF CandidateFailed, TypeOK

\* commit_locked.
LEMMA TypeCommit ==
    ASSUME TypeOK, AttemptsBound, NEW a \in AttemptIds,
           \/ commit_invalid(a)
           \/ commit_duplicate(a)
           \/ commit_divergent(a)
           \/ commit_refused(a)
           \/ commit_first(a)
    PROVE  TypeOK'
<1>. USE DEF lockVars
<1>. DEFINE c == attempts[a].comp
<1>1. attempts[a] \in AttemptRecord /\ comps \in [Compilations -> CompilationRecord]
  BY DEF TypeOK
<1>2. "Failed" \in CompStates /\ "Committed" \in CompStates
  BY DEF CompStates
<1>3. attempts[a].window => c \in Compilations /\ attempts[a].cand \in Digests
  BY DEF AttemptsBound
<1>4. [attempts EXCEPT ![a].state = "Committed", ![a].revoked = TRUE, ![a].window = FALSE]
         \in [AttemptIds -> AttemptRecord]
  BY <1>1, AttemptCommitted DEF TypeOK
<1>5. CASE commit_invalid(a)
  <2>1. attempts' \in [AttemptIds -> AttemptRecord] /\ workers' \in [Workers -> WorkerRecord]
    BY <1>5, CandidateFailedTypes DEF commit_invalid
  <2>2. comps' \in [Compilations -> CompilationRecord]
    BY <1>1, <1>2, <1>5, CompilationState DEF commit_invalid
  <2>. QED BY <1>5, <2>1, <2>2 DEF commit_invalid, TypeOK
<1>6. CASE commit_duplicate(a)
  <2>1. attempts' \in [AttemptIds -> AttemptRecord] /\ workers' \in [Workers -> WorkerRecord]
    <3>1. CASE attempts[a].state = "Produced"
      <4>1. /\ workers' = Release(workers, attempts[a].worker, 1)
            /\ attempts' = [attempts EXCEPT ![a].state = "Committed", ![a].revoked = TRUE,
                                            ![a].window = FALSE]
        BY <1>6, <3>1 DEF commit_duplicate
      <4>. QED BY <1>4, <4>1, ReleaseType DEF TypeOK
    <3>2. CASE attempts[a].state # "Produced"
      <4>1. CandidateFailed(a, "IllegalTransition")
        BY <1>6, <3>2 DEF commit_duplicate
      <4>. QED BY <4>1, CandidateFailedTypes
    <3>. QED BY <3>1, <3>2
  <2>2. comps' \in [Compilations -> CompilationRecord]
    BY <1>1, <1>2, <1>6, CompilationState DEF commit_duplicate
  <2>. QED BY <1>6, <2>1, <2>2 DEF commit_duplicate, TypeOK
<1>7. CASE commit_divergent(a)
  <2>1. attempts' \in [AttemptIds -> AttemptRecord] /\ workers' \in [Workers -> WorkerRecord]
    BY <1>7, CandidateFailedTypes DEF commit_divergent
  <2>2. c \in Compilations /\ attempts[a].cand \in Digests /\ ReproRequired \in BOOLEAN
    BY <1>3, <1>7, CoordinatorAssumption DEF commit_divergent, Revalidating
  <2>3. [comps[c] EXCEPT !.divergent = comps[c].divergent \cup {attempts[a].cand},
                         !.violation = comps[c].violation \/ ReproRequired] \in CompilationRecord
    BY <1>1, <2>2, CompilationDivergent
  <2>4. comps' \in [Compilations -> CompilationRecord]
    BY <1>1, <1>7, <2>3 DEF commit_divergent
  <2>. QED BY <1>7, <2>1, <2>4 DEF commit_divergent, TypeOK
<1>8. CASE commit_refused(a)
  BY <1>1, <1>8, AttemptUpdate DEF commit_refused, TypeOK
<1>9. CASE commit_first(a)
  <2>. DEFINE new == [comp |-> c, gen |-> comps[c].gen, attempt |-> a, digest |-> attempts[a].cand,
                      epoch |-> epoch, superseded |-> FALSE, invalidated |-> FALSE]
  <2>1. c \in Compilations /\ attempts[a].cand \in Digests
    BY <1>3, <1>9 DEF commit_first, Revalidating
  <2>2. new \in CommitRecord
    <3>1. comps[c].gen \in Nat /\ epoch \in Nat /\ a \in Nat
      BY <1>1, <2>1, CompilationFields DEF TypeOK, AttemptIds
    <3>. QED BY <2>1, <3>1 DEF CommitRecord
  <2>3. \A k \in CommitIds : [commits[k] EXCEPT !.invalidated = TRUE] \in CommitRecord
    BY DEF TypeOK, CommitRecord
  <2>4. commits' \in [CommitIds -> CommitRecord]
    <3>1. commits' = [k \in CommitIds |->
              IF k = nextCommit THEN new
              ELSE IF k = cacheIndex[c] THEN [commits[k] EXCEPT !.invalidated = TRUE]
              ELSE commits[k]]
      BY <1>9 DEF commit_first
    <3>. HIDE DEF new
    <3>. QED BY <2>2, <2>3, <3>1 DEF TypeOK
  <2>5. /\ authoritative' \in [Compilations -> CommitIds \cup {0}]
        /\ cacheIndex' \in [Compilations -> CommitIds \cup {0}]
    BY <1>9 DEF commit_first, TypeOK
  <2>6. nextCommit' \in Nat \ {0}
    BY <1>9 DEF commit_first, TypeOK
  <2>7. comps' \in [Compilations -> CompilationRecord]
    BY <1>1, <1>2, <1>9, CompilationState DEF commit_first
  <2>8. job' \in JobRecord
    <3>1. \A b \in BOOLEAN : [job EXCEPT !.committed = b] \in JobRecord
      BY DEF TypeOK, JobRecord
    <3>2. \A cs : mark_job_progress(cs) \in BOOLEAN
      BY DEF mark_job_progress
    <3>. QED BY <1>9, <3>1, <3>2 DEF commit_first
  <2>9. controls' \subseteq ControlMessage
    <3>1. CommitControls(c, a) \subseteq ControlMessage
      BY DEF CommitControls, ControlMessage, AttemptsOf
    <3>. QED BY <1>9, <3>1 DEF commit_first, TypeOK
  <2>10. attempts' \in [AttemptIds -> AttemptRecord] /\ workers' \in [Workers -> WorkerRecord]
    BY <1>4, <1>9, ReleaseType DEF commit_first, TypeOK
  <2>. QED BY <1>9, <2>4, <2>5, <2>6, <2>7, <2>8, <2>9, <2>10 DEF commit_first, TypeOK
<1>. QED BY <1>5, <1>6, <1>7, <1>8, <1>9

\* cancel().
LEMMA TypeCancel ==
    ASSUME TypeOK, NEW c \in Compilations, cancel(c)
    PROVE  TypeOK'
<1>. USE DEF lockVars
<1>. DEFINE live  == {a \in AttemptsOf(c) : ~is_terminal_state(attempts[a].state)}
            moved == {a \in live : ~FailRefused(a, "Cancelled")}
            number(w) == Cardinality({a \in moved : attempts[a].worker = w})
<1>1. \A a \in AttemptIds : /\ FailedAttempt(a, "Cancelled") \in AttemptRecord
                            /\ [attempts[a] EXCEPT !.revoked = TRUE] \in AttemptRecord
                            /\ attempts[a] \in AttemptRecord
  BY FailedTypes, AttemptUpdate DEF TypeOK
<1>2. attempts' \in [AttemptIds -> AttemptRecord]
  <2>1. attempts' = [a \in AttemptIds |->
                       IF a \in moved THEN FailedAttempt(a, "Cancelled")
                       ELSE IF a \in AttemptsOf(c) THEN [attempts[a] EXCEPT !.revoked = TRUE]
                       ELSE attempts[a]]
    BY DEF cancel
  <2>. HIDE DEF moved, live
  <2>. QED BY <1>1, <2>1
<1>3. workers' \in [Workers -> WorkerRecord]
  <2>1. ASSUME NEW w \in Workers PROVE number(w) \in Nat
    <3>1. IsFiniteSet(AttemptIds)
      BY FS_Interval, CoordinatorAssumption DEF AttemptIds
    <3>2. {a \in moved : attempts[a].worker = w} \subseteq AttemptIds
      BY DEF AttemptsOf
    <3>3. IsFiniteSet({a \in moved : attempts[a].worker = w})
      BY <3>1, <3>2, FS_Subset
    <3>. QED BY <3>3, FS_CardinalityType
  <2>2. workers' = [w \in Workers |-> Release(workers, w, number(w))[w]]
    BY DEF cancel
  <2>. HIDE DEF number
  <2>3. \A w \in Workers : Release(workers, w, number(w)) \in [Workers -> WorkerRecord]
    BY <2>1, ReleaseType DEF TypeOK
  <2>. QED BY <2>2, <2>3
<1>4. comps' \in [Compilations -> CompilationRecord]
  <2>1. "Cancelled" \in CompStates
    BY DEF CompStates
  <2>. QED BY <2>1, CompilationState DEF cancel, TypeOK
<1>5. controls' \subseteq ControlMessage
  <2>1. {[kind |-> "CancelAttempt", attempt |-> a] : a \in live} \subseteq ControlMessage
    BY DEF ControlMessage, AttemptsOf
  <2>. QED BY <2>1 DEF cancel, TypeOK
<1>. QED BY <1>2, <1>3, <1>4, <1>5 DEF cancel, TypeOK

\* disconnect_session, its loop and its end.
LEMMA TypeDisconnect ==
    ASSUME TypeOK, NEW a, NEW w,
           \/ a \in AttemptIds /\ disconnect_attempt(a)
           \/ w \in Workers /\ fence_worker(w)
    PROVE  TypeOK'
<1>1. CASE a \in AttemptIds /\ disconnect_attempt(a)
  <2>. DEFINE code == LossCode(attempts[a].state)
  <2>1. FailedAttempt(a, code) \in AttemptRecord /\ workers' \in [Workers -> WorkerRecord]
    BY <1>1, FailedTypes DEF disconnect_attempt
  <2>2. comps' \in [Compilations -> CompilationRecord] /\ job' \in JobRecord
    BY <1>1, RetryTypes DEF disconnect_attempt
  <2>. QED BY <1>1, <2>1, <2>2 DEF disconnect_attempt, TypeOK
<1>2. CASE w \in Workers /\ fence_worker(w)
  <2>1. workers[w] \in WorkerRecord /\ workers[w].gen + 1 \in Nat /\ 0 \in SessionIds \cup {0}
    BY <1>2 DEF TypeOK, WorkerRecord
  <2>2. [workers[w] EXCEPT !.fenced = TRUE, !.ready = FALSE, !.gen = workers[w].gen + 1,
                           !.inflight = 0, !.session = 0, !.evidence = FALSE] \in WorkerRecord
    BY <2>1 DEF WorkerRecord
  <2>3. workers' \in [Workers -> WorkerRecord]
    BY <1>2, <2>2 DEF fence_worker, TypeOK
  <2>4. \A b \in AttemptIds : attempts[b] \in AttemptRecord
                              /\ [attempts[b] EXCEPT !.revoked = TRUE] \in AttemptRecord
    BY AttemptUpdate DEF TypeOK
  <2>5. attempts' \in [AttemptIds -> AttemptRecord]
    BY <1>2, <2>4 DEF fence_worker
  <2>. QED BY <1>2, <2>3, <2>5 DEF fence_worker, TypeOK
<1>. QED BY <1>1, <1>2

\* The record the first loop of submit leaves, and its generation.
LEMMA SubmittedType ==
    ASSUME TypeOK, NEW c \in Compilations, NEW force
    PROVE  /\ SubmittedRecord(c, force) \in CompilationRecord
           /\ SubmittedRecord(c, force).gen =
                  IF comps[c].state = "Absent" THEN 1
                  ELSE IF Rebuilt(c, force) THEN comps[c].gen + 1 ELSE comps[c].gen
<1>1. comps[c] \in CompilationRecord /\ comps[c].gen + 1 \in Nat /\ {} \in SUBSET Digests
  BY CompilationFields DEF TypeOK
<1>2. CASE comps[c].state = "Absent"
  <2>1. SubmittedRecord(c, force) = NewCompilation
    BY <1>2 DEF SubmittedRecord, Rebuilt
  <2>2. NewCompilation \in CompilationRecord /\ NewCompilation.gen = 1
    BY <1>1 DEF NewCompilation, CompilationRecord, CompStates
  <2>. QED BY <1>2, <2>1, <2>2
<1>3. CASE comps[c].state # "Absent" /\ Rebuilt(c, force)
  <2>. DEFINE r == [comps[c] EXCEPT !.state = "Pending", !.gen = comps[c].gen + 1, !.hit = FALSE,
                                    !.violation = FALSE, !.divergent = {}]
  <2>1. SubmittedRecord(c, force) = r
    BY <1>3 DEF SubmittedRecord
  <2>2. r \in CompilationRecord /\ r.gen = comps[c].gen + 1
    BY <1>1 DEF CompilationRecord, CompStates
  <2>. QED BY <1>3, <2>1, <2>2
<1>4. CASE comps[c].state # "Absent" /\ ~Rebuilt(c, force)
  BY <1>1, <1>4 DEF SubmittedRecord
<1>. QED BY <1>2, <1>3, <1>4

\* The second loop of submit replaces the state and the hit flag of a record, no more.
LEMMA CompilationServed ==
    ASSUME NEW r \in CompilationRecord, NEW st \in CompStates, NEW b \in BOOLEAN
    PROVE  /\ [r EXCEPT !.state = st, !.hit = b] \in CompilationRecord
           /\ [r EXCEPT !.state = st, !.hit = b].gen = r.gen
           /\ [r EXCEPT !.state = st, !.hit = b].state = st
  BY DEF CompilationRecord

\* submit().
LEMMA TypeSubmit ==
    ASSUME TypeOK, NEW force \in BOOLEAN, submit(force)
    PROVE  TypeOK'
<1>. USE DEF lockVars
<1>1. comps' \in [Compilations -> CompilationRecord]
  <2>. DEFINE st(c) == IF authoritative[c] # 0 /\ ~Rebuilt(c, force) THEN "Committed" ELSE "CacheHit"
              served(c) == [SubmittedRecord(c, force) EXCEPT !.state = st(c), !.hit = TRUE]
              queued(c) == [SubmittedRecord(c, force) EXCEPT !.state = "Pending", !.hit = FALSE]
  <2>1. ASSUME NEW c \in Compilations
        PROVE  /\ served(c) \in CompilationRecord
               /\ queued(c) \in CompilationRecord
               /\ SubmittedRecord(c, force) \in CompilationRecord
    <3>1. st(c) \in CompStates /\ "Pending" \in CompStates
      BY DEF CompStates
    <3>. QED BY <3>1, SubmittedType, CompilationServed
  <2>2. comps' = [c \in Compilations |->
                     IF CacheReusable(c) THEN served(c)
                     ELSE IF Served(c, force) THEN SubmittedRecord(c, force) ELSE queued(c)]
    BY DEF submit
  <2>. HIDE DEF served, queued
  <2>. QED BY <2>1, <2>2
<1>2. commits' \in [CommitIds -> CommitRecord]
  <2>1. \A k \in CommitIds : commits[k] \in CommitRecord
                             /\ [commits[k] EXCEPT !.superseded = TRUE] \in CommitRecord
    BY DEF TypeOK, CommitRecord
  <2>. QED BY <2>1 DEF submit
<1>3. authoritative' \in [Compilations -> CommitIds \cup {0}]
  BY DEF submit, TypeOK
<1>4. job' \in JobRecord
  <2>1. \A b \in BOOLEAN : [job EXCEPT !.committed = b] \in JobRecord
    BY DEF TypeOK, JobRecord
  <2>. QED BY <2>1 DEF submit
<1>. QED BY <1>1, <1>2, <1>3, <1>4 DEF submit, TypeOK

\* close() and open().
LEMMA TypeRestart ==
    ASSUME TypeOK, restart
    PROVE  TypeOK'
<1>. USE DEF lockVars
<1>1. workers' \in [Workers -> WorkerRecord]
  <2>1. \A w \in Workers : RecoveredWorker(w) \in WorkerRecord
    BY DEF TypeOK, RecoveredWorker, WorkerRecord
  <2>. QED BY <2>1 DEF restart
<1>2. attempts' \in [AttemptIds -> AttemptRecord]
  <2>1. \A a \in AttemptIds : RecoveredAttempt(a) \in AttemptRecord
    <3>1. SUFFICES ASSUME NEW a \in AttemptIds, attempts[a].state # "Absent"
                   PROVE  RecoveredAttempt(a) \in AttemptRecord
      BY DEF RecoveredAttempt, TypeOK
    <3>. DEFINE st == IF holds_commit_authority(attempts[a].state) THEN "Ambiguous" ELSE attempts[a].state
    <3>2. attempts[a] \in AttemptRecord /\ st \in AttemptStates
      BY DEF TypeOK, AttemptRecord, AttemptStates
    <3>3. RecoveredAttempt(a) =
              [attempts[a] EXCEPT !.revoked = TRUE, !.window = FALSE, !.state = st]
      BY <3>1 DEF RecoveredAttempt
    <3>. HIDE DEF st
    <3>. QED BY <3>2, <3>3 DEF AttemptRecord
  <2>. QED BY <2>1 DEF restart
<1>3. comps' \in [Compilations -> CompilationRecord]
  <2>1. \A c \in Compilations : RecoveredCompilation(c) \in CompilationRecord
    BY DEF TypeOK, RecoveredCompilation, CompilationRecord, CompStates
  <2>. QED BY <2>1 DEF restart
<1>4. cacheIndex' \in [Compilations -> CommitIds \cup {0}]
  <2>1. \A c \in Compilations : DecodedCacheIndex(c) \in CommitIds \cup {0}
    BY DEF DecodedCacheIndex
  <2>. QED BY <2>1 DEF restart
<1>5. epoch' \in Nat
  BY DEF restart, TypeOK
<1>6. controls' \subseteq ControlMessage
  BY DEF restart
<1>. QED BY <1>1, <1>2, <1>3, <1>4, <1>5, <1>6 DEF restart, TypeOK

-----------------------------------------------------------------------------
(***************************************************************************)
(* The inductive invariant.  Most handlers leave the commit table and the  *)
(* generations alone; for those it is enough that they move no unit out of *)
(* or into Absent, show no unit as Committed without authority, and keep   *)
(* what an attempt is bound to.  Only submit and commit_first do more.     *)
(***************************************************************************)
QuietUnits ==
    /\ UNCHANGED <<commits, nextCommit, authoritative>>
    /\ \A c \in Compilations :
        /\ comps'[c].gen = comps[c].gen
        /\ comps'[c].state = "Absent" <=> comps[c].state = "Absent"
        /\ comps'[c].state = "Committed" => comps[c].state = "Committed" \/ authoritative[c] # 0

KeepsBinding(a) ==
    /\ attempts'[a].comp = attempts[a].comp
    /\ attempts'[a].worker = attempts[a].worker
    /\ attempts'[a].state = "Absent" <=> attempts[a].state = "Absent"
    /\ attempts'[a].window => attempts'[a].state # "Absent" /\ attempts'[a].cand \in Digests

SubmittedStay == \A c \in Compilations : comps[c].state # "Absent" => comps'[c].state # "Absent"

\* A handler that is quiet about units keeps the commit table consistent.
LEMMA QuietKeepsAuthority ==
    ASSUME Inductive, TypeOK', QuietUnits
    PROVE  /\ AuthorityExact' /\ OneCommitPerGeneration' /\ CommittedHasAuthority'
           /\ CommitIdsInUse' /\ CommitGenerations' /\ SubmittedHasGeneration'
<1>1. commits' = commits /\ nextCommit' = nextCommit /\ authoritative' = authoritative
  BY DEF QuietUnits
<1>2. \A c \in Compilations : comps'[c].gen = comps[c].gen
  BY DEF QuietUnits
<1>3. \A k \in CommitIds : commits[k].comp # Null => commits[k].comp \in Compilations
  BY DEF Inductive, TypeOK, CommitRecord
<1>4. AuthorityExact'
  BY <1>1, <1>2 DEF Inductive, AuthorityExact
<1>5. OneCommitPerGeneration'
  BY <1>1 DEF Inductive, OneCommitPerGeneration
<1>6. CommittedHasAuthority'
  BY <1>1 DEF Inductive, QuietUnits, CommittedHasAuthority
<1>7. CommitIdsInUse'
  BY <1>1 DEF Inductive, CommitIdsInUse
<1>8. CommitGenerations'
  BY <1>1, <1>2, <1>3 DEF Inductive, CommitGenerations
<1>9. SubmittedHasGeneration'
  BY <1>2 DEF Inductive, QuietUnits, SubmittedHasGeneration
<1>. QED BY <1>4, <1>5, <1>6, <1>7, <1>8, <1>9

\* A handler that keeps the bindings of all attempts keeps AttemptsBound.
LEMMA BindingsStay ==
    ASSUME AttemptsBound, SubmittedStay, \A a \in AttemptIds : KeepsBinding(a)
    PROVE  AttemptsBound'
  BY DEF AttemptsBound, SubmittedStay, KeepsBinding

\* A handler that is quiet about units leaves submitted ones submitted.
LEMMA QuietSubmitted ==
    ASSUME QuietUnits
    PROVE  SubmittedStay
  BY DEF QuietUnits, SubmittedStay

\* fail_attempt_locked keeps what an attempt is bound to.
LEMMA FailedBinding ==
    ASSUME TypeOK, NEW a \in AttemptIds, NEW code
    PROVE  /\ FailedAttempt(a, code).comp = attempts[a].comp
           /\ FailedAttempt(a, code).worker = attempts[a].worker
           /\ FailedAttempt(a, code).state = "Absent" <=> attempts[a].state = "Absent"
           /\ FailedAttempt(a, code).window = attempts[a].window
           /\ FailedAttempt(a, code).cand = attempts[a].cand
<1>1. attempts[a] \in AttemptRecord
  BY DEF TypeOK
<1>2. failure_state(code) # "Absent"
  BY DEF failure_state
<1>3. attempts[a].state = "Absent" => FailRefused(a, code)
  BY <1>2 DEF FailRefused, transition_ok, is_legal_transition, LegalTransitions, is_terminal_state
<1>. QED BY <1>1, <1>2, <1>3 DEF FailedAttempt, AttemptRecord

\* schedule_retry_or_fail for a submitted unit is quiet about units.
LEMMA RetryQuiet ==
    ASSUME TypeOK, NEW c \in Compilations, NEW code, comps[c].state # "Absent",
           schedule_retry_or_fail(c, code), UNCHANGED <<commits, nextCommit, authoritative>>
    PROVE  QuietUnits
<1>. DEFINE cs == [comps EXCEPT ![c].state = RetryState(comps, c, code)]
            failed == FanInFailed(cs, c)
<1>1. comps \in [Compilations -> CompilationRecord]
  BY DEF TypeOK
<1>2. RetryState(comps, c, code) \notin {"Absent", "Committed"}
  BY DEF RetryState
<1>3. \A d \in Compilations : /\ cs[d].gen = comps[d].gen
                              /\ cs[d].state = IF d = c THEN RetryState(comps, c, code) ELSE comps[d].state
                              /\ [cs[d] EXCEPT !.state = "Failed"].gen = cs[d].gen
                              /\ [cs[d] EXCEPT !.state = "Failed"].state = "Failed"
  BY <1>1 DEF CompilationRecord
<1>4. comps' = [d \in Compilations |-> IF d \in failed THEN [cs[d] EXCEPT !.state = "Failed"] ELSE cs[d]]
  BY DEF schedule_retry_or_fail
<1>5. \A d \in failed : cs[d].state # "Absent"
  BY DEF FanInFailed
<1>. HIDE DEF cs, failed
<1>. QED BY <1>2, <1>3, <1>4, <1>5 DEF QuietUnits

\* A handler that changes nothing the commits and the attempts depend on.
LEMMA QuietStep ==
    ASSUME Inductive, TypeOK', QuietUnits, \A a \in AttemptIds : KeepsBinding(a),
           pumpTodo' \subseteq pumpTodo, dropTodo' \subseteq dropTodo
    PROVE  Inductive' /\ QuietUnits
<1>1. AttemptsBound'
  BY BindingsStay, QuietSubmitted DEF Inductive
<1>2. WorkExists'
  <2>1. pumpTodo \subseteq Compilations /\ dropTodo \subseteq AttemptIds
    BY DEF Inductive, TypeOK
  <2>. QED BY <2>1 DEF Inductive, WorkExists, QuietUnits, KeepsBinding
<1>. QED BY <1>1, <1>2, QuietKeepsAuthority DEF Inductive

\* Nothing but the tables of workers and sessions changed.
LEMMA NothingMoved ==
    ASSUME Inductive, UNCHANGED transactionVars
    PROVE  QuietUnits /\ \A a \in AttemptIds : KeepsBinding(a)
  BY DEF Inductive, AttemptsBound, transactionVars, QuietUnits, KeepsBinding

\* The worker and session handlers keep the invariant.
LEMMA InductiveSessions ==
    ASSUME Inductive, NEW s,
           \/ \E w \in Workers, b \in 1..MaxBoot, e \in Evidence : register_worker(w, b, e)
           \/ s \in SessionIds /\ SessionStep(s)
    PROVE  Inductive' /\ QuietUnits
<1>1. TypeOK'
  BY TypeSessions DEF Inductive
<1>2. UNCHANGED transactionVars /\ pumpTodo' = pumpTodo
  BY DEF register_worker, advertise_capabilities, mark_ready, handle_validate_response,
         disconnect_session, lockVars, SessionStep
<1>3. QuietUnits /\ \A a \in AttemptIds : KeepsBinding(a)
  BY <1>2, NothingMoved
<1>4. CASE UNCHANGED lockVars
  BY <1>1, <1>3, <1>4, QuietStep DEF lockVars
<1>5. CASE s \in SessionIds /\ disconnect_session(s)
  <2>1. \A a \in dropTodo' : attempts[a].worker = sessions[s].worker \/ a \in dropTodo
    BY <1>5 DEF disconnect_session
  <2>2. sessions[s].worker # Null
    BY <1>5 DEF disconnect_session, find_session
  <2>3. dropTodo' \subseteq AttemptIds /\ \A a \in dropTodo' : attempts[a].state # "Absent"
    BY <1>1, <2>1, <2>2 DEF Inductive, TypeOK, AttemptsBound, WorkExists
  <2>4. WorkExists'
    <3>1. comps' = comps /\ attempts' = attempts
      BY <1>2 DEF transactionVars
    <3>. QED BY <1>2, <2>3, <3>1 DEF Inductive, WorkExists
  <2>5. AttemptsBound'
    BY <1>3, BindingsStay, QuietSubmitted DEF Inductive
  <2>. QED BY <1>1, <1>3, <2>4, <2>5, QuietKeepsAuthority DEF Inductive
<1>. QED BY <1>4, <1>5 DEF SessionStep, register_worker, advertise_capabilities, mark_ready,
         handle_validate_response

\* Every step of pump() keeps the invariant: what it assigns is bound to a submitted unit.
LEMMA InductivePump ==
    ASSUME Inductive, NEW c \in Compilations, NEW w, NEW v,
           \/ pump
           \/ pump_skip(c)
           \/ pump_defer(c)
           \/ w \in Workers /\ pump_assign(c, w)
           \/ w \in Workers /\ v \in Workers /\ pump_assign_pair(c, w, v)
    PROVE  Inductive' /\ QuietUnits
<1>1. TypeOK /\ TypeOK'
  BY TypePump DEF Inductive
<1>2. comps \in [Compilations -> CompilationRecord] /\ attempts \in [AttemptIds -> AttemptRecord]
  BY <1>1 DEF TypeOK
<1>3. CASE pump
  <2>1. UNCHANGED transactionVars /\ dropTodo' = dropTodo
    BY <1>3 DEF pump
  <2>2. QuietUnits /\ \A a \in AttemptIds : KeepsBinding(a)
    BY <2>1, NothingMoved
  <2>3. \A d \in pumpTodo' : comps[d].state # "Absent"
    BY <1>3 DEF pump
  <2>4. WorkExists'
    BY <2>1, <2>3 DEF transactionVars, Inductive, WorkExists
  <2>5. AttemptsBound'
    BY <2>2, BindingsStay, QuietSubmitted DEF Inductive
  <2>. QED BY <1>1, <2>2, <2>4, <2>5, QuietKeepsAuthority DEF Inductive
<1>4. CASE pump_skip(c)
  <2>1. UNCHANGED transactionVars /\ pumpTodo' \subseteq pumpTodo /\ dropTodo' = dropTodo
    BY <1>4 DEF pump_skip, Visiting
  <2>. QED BY <1>1, <2>1, NothingMoved, QuietStep
<1>5. ASSUME Visiting(c) PROVE comps[c].state # "Absent" /\ pumpTodo' \subseteq pumpTodo /\ dropTodo' = dropTodo
  BY <1>5 DEF Visiting, Inductive, WorkExists
<1>6. CASE pump_defer(c)
  <2>1. QuietUnits
    BY <1>2, <1>5, <1>6 DEF pump_defer, QuietUnits, CompilationRecord
  <2>2. \A a \in AttemptIds : KeepsBinding(a)
    BY <1>6 DEF pump_defer, KeepsBinding, Inductive, AttemptsBound
  <2>. QED BY <1>1, <1>5, <1>6, <2>1, <2>2, QuietStep DEF pump_defer
<1>7. CASE \/ w \in Workers /\ pump_assign(c, w)
           \/ w \in Workers /\ v \in Workers /\ pump_assign_pair(c, w, v)
  <2>1. Visiting(c)
    BY <1>7 DEF pump_assign, pump_assign_pair
  <2>2. QuietUnits
    <3>1. UNCHANGED <<commits, nextCommit, authoritative>>
      BY <1>7 DEF pump_assign, pump_assign_pair
    <3>2. \E n : comps' = [comps EXCEPT ![c].state = "Assigned", ![c].ordinal = n]
      BY <1>7 DEF pump_assign, pump_assign_pair
    <3>3. \A d \in Compilations : /\ comps'[d].gen = comps[d].gen
                                  /\ comps'[d].state = IF d = c THEN "Assigned" ELSE comps[d].state
      BY <1>2, <3>2 DEF CompilationRecord
    <3>. QED BY <1>5, <2>1, <3>1, <3>3 DEF QuietUnits
  <2>3. comps'[c].state # "Absent"
    BY <1>5, <2>1, <2>2 DEF QuietUnits
  <2>4. \A a \in AttemptIds :
            \/ attempts'[a] = attempts[a]
            \/ \E x \in Workers : \E n, b : attempts'[a] = NewAttempt(c, x, n, b)
    <3>1. CASE w \in Workers /\ pump_assign(c, w)
      <4>1. attempts' = [attempts EXCEPT ![nextAttempt] = NewAttempt(c, w, comps[c].ordinal + 1, FALSE)]
        BY <3>1 DEF pump_assign
      <4>. QED BY <1>2, <3>1, <4>1
    <3>2. CASE w \in Workers /\ v \in Workers /\ pump_assign_pair(c, w, v)
      <4>. DEFINE n == comps[c].ordinal
      <4>1. attempts' = [attempts EXCEPT ![nextAttempt] = NewAttempt(c, w, n + 1, FALSE),
                                         ![nextAttempt + 1] = NewAttempt(c, v, n + 2, TRUE)]
        BY <3>2 DEF pump_assign_pair
      <4>. HIDE DEF n
      <4>2. \A a \in AttemptIds : attempts'[a] \in {attempts[a], NewAttempt(c, w, n + 1, FALSE),
                                                     NewAttempt(c, v, n + 2, TRUE)}
        BY <1>2, <4>1
      <4>. QED BY <3>2, <4>2
    <3>. QED BY <1>7, <3>1, <3>2
  <2>5. \A x \in Workers : \A n, b : /\ NewAttempt(c, x, n, b).comp = c
                                      /\ NewAttempt(c, x, n, b).worker = x
                                      /\ NewAttempt(c, x, n, b).state = "Assigned"
                                      /\ NewAttempt(c, x, n, b).window = FALSE
    BY DEF NewAttempt
  <2>6. AttemptsBound'
    <3>1. SUFFICES ASSUME NEW a \in AttemptIds
                   PROVE  /\ attempts'[a].state = "Absent" => attempts'[a].worker = Null /\ ~attempts'[a].window
                          /\ attempts'[a].state # "Absent" => /\ attempts'[a].comp \in Compilations
                                                              /\ attempts'[a].worker \in Workers
                                                              /\ comps'[attempts'[a].comp].state # "Absent"
                          /\ attempts'[a].window => attempts'[a].cand \in Digests
      BY DEF AttemptsBound
    <3>2. CASE attempts'[a] = attempts[a]
      BY <2>2, <3>2 DEF Inductive, AttemptsBound, QuietUnits
    <3>3. CASE \E x \in Workers : \E n, b : attempts'[a] = NewAttempt(c, x, n, b)
      BY <2>3, <2>5, <3>3
    <3>. QED BY <2>4, <3>2, <3>3
  <2>7. WorkExists'
    <3>1. pumpTodo \subseteq Compilations /\ dropTodo \subseteq AttemptIds
      BY <1>1 DEF TypeOK
    <3>2. \A a \in dropTodo : attempts'[a].state # "Absent"
      BY <2>4, <2>5, <3>1 DEF Inductive, WorkExists
    <3>. QED BY <1>5, <2>1, <2>2, <3>1, <3>2 DEF Inductive, WorkExists, QuietUnits
  <2>. QED BY <1>1, <2>2, <2>6, <2>7, QuietKeepsAuthority DEF Inductive
<1>. QED BY <1>3, <1>4, <1>6, <1>7

\* One attempt is replaced by one with the same binding.
LEMMA OneAttempt ==
    ASSUME TypeOK, AttemptsBound, NEW a \in AttemptIds, NEW r,
           attempts' = [attempts EXCEPT ![a] = r],
           r.comp = attempts[a].comp, r.worker = attempts[a].worker,
           r.state = "Absent" <=> attempts[a].state = "Absent",
           r.window => r.state # "Absent" /\ r.cand \in Digests
    PROVE  \A b \in AttemptIds : KeepsBinding(b)
<1>1. \A b \in AttemptIds : attempts'[b] = IF b = a THEN r ELSE attempts[b]
  BY DEF TypeOK
<1>. QED BY <1>1 DEF KeepsBinding, AttemptsBound

\* One submitted unit gets another state.
LEMMA OneUnit ==
    ASSUME TypeOK, NEW c \in Compilations, NEW st, comps[c].state # "Absent", st # "Absent",
           st = "Committed" => comps[c].state = "Committed" \/ authoritative[c] # 0,
           comps' = [comps EXCEPT ![c].state = st], UNCHANGED <<commits, nextCommit, authoritative>>
    PROVE  QuietUnits
<1>1. \A d \in Compilations : /\ comps'[d].gen = comps[d].gen
                              /\ comps'[d].state = IF d = c THEN st ELSE comps[d].state
  BY DEF TypeOK, CompilationRecord
<1>. QED BY <1>1 DEF QuietUnits

\* A handler that touches neither units nor commits is quiet about units.
LEMMA NoUnit ==
    ASSUME UNCHANGED <<comps, commits, nextCommit, authoritative>>
    PROVE  QuietUnits
  BY DEF QuietUnits

\* An attempt that exists is bound to a submitted unit.
LEMMA BoundUnit ==
    ASSUME AttemptsBound, NEW a \in AttemptIds, attempts[a].state # "Absent"
    PROVE  attempts[a].comp \in Compilations /\ comps[attempts[a].comp].state # "Absent"
  BY DEF AttemptsBound

\* The messages of a worker about an attempt keep the invariant, up to the decision of a report.
LEMMA InductiveAttempt ==
    ASSUME Inductive, NEW a \in AttemptIds, NEW s, NEW d, NEW code,
           \/ begin_compile(a)
           \/ d \in Digests /\ report_reserve(s, a, d)
           \/ report_abandon(a)
           \/ report_stale(a)
           \/ fail_attempt(s, a, code)
    PROVE  Inductive' /\ QuietUnits
<1>. USE DEF lockVars
<1>1. TypeOK /\ TypeOK' /\ AttemptsBound
  BY TypeAttempt DEF Inductive
<1>2. attempts[a] \in AttemptRecord
  BY <1>1 DEF TypeOK
<1>3. pumpTodo' \subseteq pumpTodo /\ dropTodo' \subseteq dropTodo
  BY DEF begin_compile, report_reserve, report_abandon, report_stale, fail_attempt
<1>. DEFINE c == attempts[a].comp
<1>4. CASE begin_compile(a)
  <2>1. c \in Compilations /\ comps[c].state # "Absent"
    BY <1>1, <1>4, BoundUnit DEF begin_compile
  <2>. DEFINE st == IF comps[c].state = "Committed" THEN comps[c].state ELSE "Running"
  <2>2. comps' = [comps EXCEPT ![c].state = st] /\ UNCHANGED <<commits, nextCommit, authoritative>>
    BY <1>4 DEF begin_compile
  <2>3. st # "Absent" /\ (st = "Committed" => comps[c].state = "Committed")
    OBVIOUS
  <2>4. QuietUnits
    <3>. HIDE DEF st, c
    <3>. QED BY <1>1, <2>1, <2>2, <2>3, OneUnit
  <2>. DEFINE r == [attempts[a] EXCEPT !.state = "Preparing"]
  <2>5. attempts' = [attempts EXCEPT ![a] = r]
    BY <1>4 DEF begin_compile
  <2>6. /\ r.comp = attempts[a].comp /\ r.worker = attempts[a].worker
        /\ r.state # "Absent" /\ attempts[a].state # "Absent"
        /\ r.window => r.cand \in Digests
    BY <1>1, <1>2, <1>4 DEF AttemptsBound, AttemptRecord, begin_compile
  <2>7. \A b \in AttemptIds : KeepsBinding(b)
    <3>. HIDE DEF r
    <3>. QED BY <1>1, <2>5, <2>6, OneAttempt
  <2>. QED BY <1>1, <1>3, <2>4, <2>7, QuietStep
<1>5. CASE d \in Digests /\ report_reserve(s, a, d)
  <2>1. c \in Compilations /\ comps[c].state # "Absent"
    BY <1>1, <1>5, BoundUnit DEF report_reserve
  <2>. DEFINE st == IF comps[c].state = "Committed" \/ authoritative[c] # 0
                    THEN comps[c].state ELSE "Producing"
  <2>2. comps' = [comps EXCEPT ![c].state = st] /\ UNCHANGED <<commits, nextCommit, authoritative>>
    BY <1>5 DEF report_reserve
  <2>3. st # "Absent" /\ (st = "Committed" => comps[c].state = "Committed")
    BY <2>1
  <2>4. QuietUnits
    <3>. HIDE DEF st, c
    <3>. QED BY <1>1, <2>1, <2>2, <2>3, OneUnit
  <2>. DEFINE r == [attempts[a] EXCEPT !.state = "Produced", !.cand = d, !.window = TRUE]
  <2>5. attempts' = [attempts EXCEPT ![a] = r]
    BY <1>1, <1>5 DEF report_reserve, TypeOK
  <2>6. /\ r.comp = attempts[a].comp /\ r.worker = attempts[a].worker
        /\ r.state # "Absent" /\ attempts[a].state # "Absent"
        /\ r.cand \in Digests
    BY <1>2, <1>5 DEF AttemptRecord, report_reserve
  <2>7. \A b \in AttemptIds : KeepsBinding(b)
    <3>. HIDE DEF r
    <3>. QED BY <1>1, <2>5, <2>6, OneAttempt
  <2>. QED BY <1>1, <1>3, <2>4, <2>7, QuietStep
<1>6. CASE report_abandon(a)
  <2>1. QuietUnits
    BY <1>6, NoUnit DEF report_abandon
  <2>. DEFINE r == [attempts[a] EXCEPT !.window = FALSE]
  <2>2. attempts' = [attempts EXCEPT ![a] = r]
    BY <1>6 DEF report_abandon
  <2>3. r.comp = attempts[a].comp /\ r.worker = attempts[a].worker /\ r.state = attempts[a].state
        /\ r.window = FALSE
    BY <1>2 DEF AttemptRecord
  <2>4. \A b \in AttemptIds : KeepsBinding(b)
    <3>. HIDE DEF r
    <3>. QED BY <1>1, <2>2, <2>3, OneAttempt
  <2>. QED BY <1>1, <1>3, <2>1, <2>4, QuietStep
<1>7. CASE report_stale(a)
  <2>1. QuietUnits
    BY <1>7, NoUnit DEF report_stale
  <2>. DEFINE moved == transition_ok(attempts[a].state, "Fenced")
              r == [attempts[a] EXCEPT !.window = FALSE, !.state = IF moved THEN "Fenced" ELSE @,
                                       !.revoked = @ \/ moved]
  <2>2. attempts' = [attempts EXCEPT ![a] = r]
    BY <1>7 DEF report_stale
  <2>3. attempts[a].state # "Absent"
    BY <1>1, <1>7 DEF report_stale, Revalidating, AttemptsBound
  <2>4. r.comp = attempts[a].comp /\ r.worker = attempts[a].worker /\ r.state # "Absent"
        /\ r.window = FALSE
    <3>. HIDE DEF moved
    <3>. QED BY <1>2, <2>3 DEF AttemptRecord
  <2>5. \A b \in AttemptIds : KeepsBinding(b)
    <3>. HIDE DEF r
    <3>. QED BY <1>1, <2>2, <2>3, <2>4, OneAttempt
  <2>. QED BY <1>1, <1>3, <2>1, <2>5, QuietStep
<1>8. CASE fail_attempt(s, a, code)
  <2>1. attempts[a].state # "Absent"
    BY <1>8 DEF fail_attempt, validate_authority
  <2>2. QuietUnits
    BY <1>1, <1>8, <2>1, BoundUnit, RetryQuiet DEF fail_attempt
  <2>3. attempts' = [attempts EXCEPT ![a] = FailedAttempt(a, code)]
    BY <1>8 DEF fail_attempt
  <2>4. \A b \in AttemptIds : KeepsBinding(b)
    BY <1>1, <2>1, <2>3, FailedBinding, OneAttempt DEF AttemptsBound
  <2>. QED BY <1>1, <1>3, <2>2, <2>4, QuietStep
<1>. QED BY <1>4, <1>5, <1>6, <1>7, <1>8

\* fail_attempt_locked at the end of a report keeps the bindings.
LEMMA CandidateFailedBinding ==
    ASSUME TypeOK, AttemptsBound, NEW a \in AttemptIds, NEW code, CandidateFailed(a, code)
    PROVE  \A b \in AttemptIds : KeepsBinding(b)
<1>. DEFINE f == FailedAttempt(a, code)
            r == [f EXCEPT !.window = FALSE]
<1>1. attempts' = [attempts EXCEPT ![a] = r]
  BY DEF CandidateFailed
<1>2. f \in AttemptRecord
  BY FailedTypes
<1>3. r.comp = f.comp /\ r.worker = f.worker /\ r.state = f.state /\ r.window = FALSE
  <2>. HIDE DEF f
  <2>. QED BY <1>2 DEF AttemptRecord
<1>4. r.comp = attempts[a].comp /\ r.worker = attempts[a].worker
      /\ (r.state = "Absent" <=> attempts[a].state = "Absent")
  BY <1>3, FailedBinding
<1>. HIDE DEF r
<1>. QED BY <1>1, <1>3, <1>4, OneAttempt

\* An attempt inside report_output exists and has a candidate.
LEMMA InWindow ==
    ASSUME AttemptsBound, NEW a \in AttemptIds, Revalidating(a)
    PROVE  /\ attempts[a].state # "Absent"
           /\ attempts[a].cand \in Digests
           /\ attempts[a].comp \in Compilations
           /\ comps[attempts[a].comp].state # "Absent"
  BY DEF AttemptsBound, Revalidating

\* The attempt commit_locked commits keeps its binding.
LEMMA CommittedBinding ==
    ASSUME TypeOK, AttemptsBound, NEW a \in AttemptIds, Revalidating(a),
           attempts' = [attempts EXCEPT ![a].state = "Committed", ![a].revoked = TRUE,
                                        ![a].window = FALSE]
    PROVE  \A b \in AttemptIds : KeepsBinding(b)
<1>. DEFINE r == [attempts[a] EXCEPT !.state = "Committed", !.revoked = TRUE, !.window = FALSE]
<1>1. attempts' = [attempts EXCEPT ![a] = r]
  BY DEF TypeOK
<1>2. attempts[a] \in AttemptRecord
  BY DEF TypeOK
<1>3. r.comp = attempts[a].comp /\ r.worker = attempts[a].worker /\ r.state = "Committed"
      /\ r.window = FALSE
  BY <1>2 DEF AttemptRecord
<1>. HIDE DEF r
<1>. QED BY <1>1, <1>3, InWindow, OneAttempt

\* commit_locked when it makes no commit.
LEMMA InductiveReport ==
    ASSUME Inductive, NEW a \in AttemptIds,
           \/ commit_invalid(a)
           \/ commit_duplicate(a)
           \/ commit_divergent(a)
           \/ commit_refused(a)
    PROVE  Inductive' /\ QuietUnits
<1>. USE DEF lockVars
<1>. DEFINE c == attempts[a].comp
<1>1. TypeOK /\ TypeOK' /\ AttemptsBound
  BY TypeCommit DEF Inductive
<1>2. pumpTodo' \subseteq pumpTodo /\ dropTodo' \subseteq dropTodo
  BY DEF commit_invalid, commit_duplicate, commit_divergent, commit_refused
<1>3. Revalidating(a) /\ UNCHANGED <<commits, nextCommit, authoritative>>
  BY DEF commit_invalid, commit_duplicate, commit_divergent, commit_refused
<1>4. c \in Compilations /\ comps[c].state # "Absent"
  BY <1>1, <1>3, InWindow
<1>5. CASE commit_invalid(a)
  <2>1. comps' = [comps EXCEPT ![c].state = "Failed"]
    BY <1>5 DEF commit_invalid
  <2>2. QuietUnits
    <3>. HIDE DEF c
    <3>. QED BY <1>1, <1>3, <1>4, <2>1, OneUnit
  <2>3. \A b \in AttemptIds : KeepsBinding(b)
    BY <1>1, <1>5, CandidateFailedBinding DEF commit_invalid
  <2>. QED BY <1>1, <1>2, <2>2, <2>3, QuietStep
<1>6. CASE commit_duplicate(a) /\ attempts[a].state = "Produced"
  <2>1. /\ comps' = [comps EXCEPT ![c].state = "Committed"]
        /\ authoritative[c] # 0
        /\ attempts' = [attempts EXCEPT ![a].state = "Committed", ![a].revoked = TRUE,
                                        ![a].window = FALSE]
    BY <1>6 DEF commit_duplicate, has_authority
  <2>2. QuietUnits
    <3>. HIDE DEF c
    <3>. QED BY <1>1, <1>3, <1>4, <2>1, OneUnit
  <2>3. \A b \in AttemptIds : KeepsBinding(b)
    BY <1>1, <1>3, <2>1, CommittedBinding
  <2>. QED BY <1>1, <1>2, <2>2, <2>3, QuietStep
<1>7. CASE commit_duplicate(a) /\ attempts[a].state # "Produced"
  <2>1. CandidateFailed(a, "IllegalTransition") /\ UNCHANGED comps
    BY <1>7 DEF commit_duplicate
  <2>2. QuietUnits
    BY <1>3, <2>1, NoUnit
  <2>3. \A b \in AttemptIds : KeepsBinding(b)
    BY <1>1, <2>1, CandidateFailedBinding
  <2>. QED BY <1>1, <1>2, <2>2, <2>3, QuietStep
<1>8. CASE commit_divergent(a)
  <2>1. \E x, y : comps' = [comps EXCEPT ![c].divergent = x, ![c].violation = y]
    BY <1>8 DEF commit_divergent
  <2>2. \A e \in Compilations : comps'[e].gen = comps[e].gen /\ comps'[e].state = comps[e].state
    <3>. HIDE DEF c
    <3>. QED BY <1>1, <2>1 DEF TypeOK, CompilationRecord
  <2>3. QuietUnits
    BY <1>3, <2>2 DEF QuietUnits
  <2>4. \A b \in AttemptIds : KeepsBinding(b)
    BY <1>1, <1>8, CandidateFailedBinding DEF commit_divergent
  <2>. QED BY <1>1, <1>2, <2>3, <2>4, QuietStep
<1>9. CASE commit_refused(a)
  <2>1. QuietUnits
    BY <1>9, NoUnit DEF commit_refused
  <2>. DEFINE r == [attempts[a] EXCEPT !.window = FALSE]
  <2>2. attempts' = [attempts EXCEPT ![a] = r]
    BY <1>9 DEF commit_refused
  <2>3. r.comp = attempts[a].comp /\ r.worker = attempts[a].worker /\ r.state = attempts[a].state
        /\ r.window = FALSE
    BY <1>1 DEF AttemptRecord, TypeOK
  <2>4. \A b \in AttemptIds : KeepsBinding(b)
    <3>. HIDE DEF r
    <3>. QED BY <1>1, <2>2, <2>3, OneAttempt
  <2>. QED BY <1>1, <1>2, <2>1, <2>4, QuietStep
<1>. QED BY <1>5, <1>6, <1>7, <1>8, <1>9

\* Why the first commit of a generation is safe: the id is fresh, the unit has no live
\* commit, and every other commit and every generation stays as it is.
LEMMA CommitFirstFacts ==
    ASSUME Inductive, NEW a \in AttemptIds, commit_first(a)
    PROVE  LET c == attempts[a].comp IN
           /\ c \in Compilations /\ comps[c].state # "Absent"
           /\ attempts[a].cand \in Digests
           /\ nextCommit \in CommitIds
           /\ commits[nextCommit].comp = Null
           /\ authoritative[c] = 0
           /\ commits'[nextCommit].comp = c
           /\ commits'[nextCommit].gen = comps[c].gen
           /\ commits'[nextCommit].digest = attempts[a].cand
           /\ commits'[nextCommit].superseded = FALSE
           /\ \A k \in CommitIds \ {nextCommit} :
                  /\ commits'[k].comp = commits[k].comp
                  /\ commits'[k].gen = commits[k].gen
                  /\ commits'[k].digest = commits[k].digest
                  /\ commits'[k].superseded = commits[k].superseded
           /\ \A d \in Compilations :
                  /\ comps'[d].gen = comps[d].gen
                  /\ comps'[d].state = IF d = c THEN "Committed" ELSE comps[d].state
           /\ c # Null /\ comps[c].gen \in Nat /\ comps[c].gen # 0
           /\ \A k \in CommitIds : commits[k].comp = c => commits[k].gen # comps[c].gen
<1>. DEFINE c == attempts[a].comp
<1>1. TypeOK /\ AttemptsBound
  BY DEF Inductive
<1>2. Revalidating(a)
  BY DEF commit_first
<1>3. /\ c \in Compilations /\ comps[c].state # "Absent"
      /\ attempts[a].cand \in Digests
      /\ nextCommit \in CommitIds
  BY <1>1, <1>2, InWindow DEF commit_first
<1>4. commits[nextCommit].comp = Null
  BY <1>1, <1>3 DEF Inductive, CommitIdsInUse, TypeOK
<1>5. authoritative[c] = 0
  BY <1>1, <1>3 DEF Inductive, AuthorityExact, commit_first, has_authority, TypeOK
<1>6. /\ commits'[nextCommit].comp = c
      /\ commits'[nextCommit].gen = comps[c].gen
      /\ commits'[nextCommit].digest = attempts[a].cand
      /\ commits'[nextCommit].superseded = FALSE
  BY <1>3 DEF commit_first
<1>7. \A k \in CommitIds \ {nextCommit} :
          /\ commits'[k].comp = commits[k].comp
          /\ commits'[k].gen = commits[k].gen
          /\ commits'[k].digest = commits[k].digest
          /\ commits'[k].superseded = commits[k].superseded
  <2>1. \A k \in CommitIds : commits[k] \in CommitRecord
    BY <1>1 DEF TypeOK
  <2>2. \A k \in CommitIds \ {nextCommit} :
            commits'[k] \in {commits[k], [commits[k] EXCEPT !.invalidated = TRUE]}
    BY DEF commit_first
  <2>. QED BY <2>1, <2>2 DEF CommitRecord
<1>9. \A d \in Compilations : /\ comps'[d].gen = comps[d].gen
                              /\ comps'[d].state = IF d = c THEN "Committed" ELSE comps[d].state
  BY <1>1, <1>3 DEF commit_first, TypeOK, CompilationRecord
<1>11. c # Null /\ comps[c].gen \in Nat /\ comps[c].gen # 0
  BY <1>1, <1>3, CoordinatorAssumption, CompilationFields DEF Inductive, SubmittedHasGeneration, TypeOK
<1>. HIDE DEF c
<1>12. ASSUME NEW k \in CommitIds, commits[k].comp = c
      PROVE  commits[k].gen # comps[c].gen
  <2>1. commits[k].superseded
    BY <1>3, <1>5, <1>12 DEF Inductive, AuthorityExact, CommitIds
  <2>2. commits[k].gen < comps[c].gen
    BY <1>11, <1>12, <2>1 DEF Inductive, CommitGenerations
  <2>3. commits[k].gen \in Nat
    BY <1>1 DEF TypeOK, CommitRecord
  <2>. QED BY <1>11, <2>2, <2>3
<1>. QED BY <1>3, <1>4, <1>5, <1>6, <1>7, <1>9, <1>11, <1>12 DEF c

\* commit_locked when it commits: the id is fresh and the unit has no live commit.
LEMMA InductiveCommit ==
    ASSUME Inductive, NEW a \in AttemptIds, commit_first(a)
    PROVE  Inductive'
<1>. USE DEF lockVars
<1>. DEFINE c == attempts[a].comp
<1>1. TypeOK /\ TypeOK' /\ AttemptsBound
  BY TypeCommit DEF Inductive
<1>2. Revalidating(a)
  BY DEF commit_first
<1>3. /\ c \in Compilations /\ comps[c].state # "Absent"
      /\ attempts[a].cand \in Digests
      /\ nextCommit \in CommitIds
  BY CommitFirstFacts
<1>4. commits[nextCommit].comp = Null
  BY CommitFirstFacts
<1>5. authoritative[c] = 0
  BY CommitFirstFacts
<1>6. /\ commits'[nextCommit].comp = c
      /\ commits'[nextCommit].gen = comps[c].gen
      /\ commits'[nextCommit].digest = attempts[a].cand
      /\ commits'[nextCommit].superseded = FALSE
  BY CommitFirstFacts
<1>7. \A k \in CommitIds \ {nextCommit} :
          /\ commits'[k].comp = commits[k].comp
          /\ commits'[k].gen = commits[k].gen
          /\ commits'[k].digest = commits[k].digest
          /\ commits'[k].superseded = commits[k].superseded
  BY CommitFirstFacts
<1>8. /\ authoritative' = [authoritative EXCEPT ![c] = nextCommit]
      /\ nextCommit' = nextCommit + 1
      /\ pumpTodo' = pumpTodo /\ dropTodo' = dropTodo
  BY DEF commit_first
<1>9. \A d \in Compilations : /\ comps'[d].gen = comps[d].gen
                              /\ comps'[d].state = IF d = c THEN "Committed" ELSE comps[d].state
  BY CommitFirstFacts
<1>10. \A k \in CommitIds : commits[k].comp # Null => commits[k].comp \in Compilations
  BY <1>1 DEF TypeOK, CommitRecord
<1>11. c # Null /\ comps[c].gen \in Nat /\ comps[c].gen # 0
  BY CommitFirstFacts
<1>. HIDE DEF c
<1>12. AuthorityExact'
  <2>1. ASSUME NEW d \in Compilations, NEW k \in CommitIds
        PROVE  /\ authoritative'[d] = k <=> commits'[k].comp = d /\ ~commits'[k].superseded
               /\ authoritative'[d] = k => commits'[k].gen = comps'[d].gen
    <3>1. /\ authoritative[d] = k <=> commits[k].comp = d /\ ~commits[k].superseded
          /\ authoritative[d] = k => commits[k].gen = comps[d].gen
      BY DEF Inductive, AuthorityExact
    <3>2. authoritative'[d] = IF d = c THEN nextCommit ELSE authoritative[d]
      BY <1>1, <1>8 DEF TypeOK
    <3>3. d # Null /\ 0 \notin CommitIds
      BY CoordinatorAssumption DEF CommitIds
    <3>4. CASE k = nextCommit
      BY <1>4, <1>6, <1>9, <3>1, <3>2, <3>3, <3>4
    <3>5. CASE k # nextCommit
      BY <1>5, <1>7, <1>9, <3>1, <3>2, <3>3, <3>5
    <3>. QED BY <3>4, <3>5
  <2>. QED BY <2>1 DEF AuthorityExact
<1>13. OneCommitPerGeneration'
  <2>1. \A k \in CommitIds : commits[k].comp = c => commits[k].gen # comps[c].gen
    BY CommitFirstFacts DEF c
  <2>2. \A j, k \in CommitIds :
           commits[j].comp # Null /\ commits[j].comp = commits[k].comp /\ commits[j].gen = commits[k].gen
               => j = k
    BY DEF Inductive, OneCommitPerGeneration
  <2>3. ASSUME NEW j \in CommitIds, NEW k \in CommitIds, commits'[j].comp # Null,
               commits'[j].comp = commits'[k].comp, commits'[j].gen = commits'[k].gen
        PROVE  j = k
    <3>1. CASE j # nextCommit /\ k # nextCommit
      BY <1>7, <2>2, <2>3, <3>1
    <3>2. CASE j = nextCommit /\ k # nextCommit
      BY <1>6, <1>7, <2>1, <2>3, <3>2
    <3>3. CASE j # nextCommit /\ k = nextCommit
      BY <1>6, <1>7, <2>1, <2>3, <3>3
    <3>. QED BY <3>1, <3>2, <3>3
  <2>. QED BY <2>3 DEF OneCommitPerGeneration
<1>14. CommittedHasAuthority'
  BY <1>1, <1>3, <1>8, <1>9 DEF Inductive, CommittedHasAuthority, TypeOK, CommitIds
<1>15. CommitIdsInUse'
  <2>1. \A k \in CommitIds : commits[k].comp # Null <=> k < nextCommit
    BY DEF Inductive, CommitIdsInUse
  <2>2. \A k \in CommitIds : k < nextCommit + 1 <=> k < nextCommit \/ k = nextCommit
    BY <1>1 DEF CommitIds, TypeOK
  <2>3. \A k \in CommitIds : commits'[k].comp # Null <=> k < nextCommit \/ k = nextCommit
    BY <1>6, <1>7, <1>11, <2>1
  <2>. QED BY <1>8, <2>2, <2>3 DEF CommitIdsInUse
<1>16. CommitGenerations'
  <2>1. ASSUME NEW k \in CommitIds, commits'[k].comp # Null
        PROVE  /\ commits'[k].digest \in Digests
               /\ commits'[k].gen # 0
               /\ commits'[k].gen <= comps'[commits'[k].comp].gen
               /\ commits'[k].superseded => commits'[k].gen < comps'[commits'[k].comp].gen
    <3>1. CASE k = nextCommit
      BY <1>3, <1>6, <1>9, <1>11, <3>1
    <3>2. CASE k # nextCommit
      <4>1. /\ commits[k].comp # Null /\ commits[k].comp \in Compilations
            /\ comps'[commits[k].comp].gen = comps[commits[k].comp].gen
        BY <1>7, <1>9, <1>10, <2>1, <3>2
      <4>2. /\ commits[k].digest \in Digests
            /\ commits[k].gen # 0
            /\ commits[k].gen <= comps[commits[k].comp].gen
            /\ commits[k].superseded => commits[k].gen < comps[commits[k].comp].gen
        BY <4>1 DEF Inductive, CommitGenerations
      <4>. QED BY <1>7, <3>2, <4>1, <4>2
    <3>. QED BY <3>1, <3>2
  <2>. QED BY <2>1 DEF CommitGenerations
<1>17. SubmittedHasGeneration'
  BY <1>9, <1>11 DEF Inductive, SubmittedHasGeneration
<1>18. \A b \in AttemptIds : KeepsBinding(b)
  BY <1>1, <1>2, CommittedBinding DEF commit_first
<1>19. AttemptsBound'
  BY <1>1, <1>9, <1>18, BindingsStay DEF SubmittedStay
<1>20. WorkExists'
  <2>1. pumpTodo \subseteq Compilations /\ dropTodo \subseteq AttemptIds
    BY <1>1 DEF TypeOK
  <2>. QED BY <1>8, <1>9, <1>18, <2>1 DEF Inductive, WorkExists, KeepsBinding
<1>. QED BY <1>1, <1>12, <1>13, <1>14, <1>15, <1>16, <1>17, <1>19, <1>20 DEF Inductive

\* cancel() keeps the invariant.
LEMMA InductiveCancel ==
    ASSUME Inductive, NEW c \in Compilations, cancel(c)
    PROVE  Inductive' /\ QuietUnits
<1>. USE DEF lockVars
<1>1. TypeOK /\ TypeOK' /\ AttemptsBound
  BY TypeCancel DEF Inductive
<1>2. QuietUnits
  BY <1>1, OneUnit DEF cancel
<1>3. ASSUME NEW a \in AttemptIds PROVE KeepsBinding(a)
  <2>1. attempts'[a] \in {FailedAttempt(a, "Cancelled"), [attempts[a] EXCEPT !.revoked = TRUE], attempts[a]}
    BY DEF cancel
  <2>2. attempts[a] \in AttemptRecord
    BY <1>1 DEF TypeOK
  <2>3. attempts[a].window => attempts[a].state # "Absent" /\ attempts[a].cand \in Digests
    BY <1>1 DEF AttemptsBound
  <2>4. CASE attempts'[a] = FailedAttempt(a, "Cancelled")
    BY <1>1, <2>3, <2>4, FailedBinding DEF KeepsBinding
  <2>5. CASE attempts'[a] = [attempts[a] EXCEPT !.revoked = TRUE]
    BY <2>2, <2>3, <2>5 DEF KeepsBinding, AttemptRecord
  <2>6. CASE attempts'[a] = attempts[a]
    BY <2>3, <2>6 DEF KeepsBinding
  <2>. QED BY <2>1, <2>4, <2>5, <2>6
<1>4. pumpTodo' \subseteq pumpTodo /\ dropTodo' \subseteq dropTodo
  BY DEF cancel
<1>. QED BY <1>1, <1>2, <1>3, <1>4, QuietStep

\* Every step of disconnect_session keeps the invariant.
LEMMA InductiveDisconnect ==
    ASSUME Inductive, NEW a, NEW w,
           \/ a \in AttemptIds /\ disconnect_attempt(a)
           \/ w \in Workers /\ fence_worker(w)
    PROVE  Inductive' /\ QuietUnits
<1>1. TypeOK /\ TypeOK' /\ AttemptsBound
  BY TypeDisconnect DEF Inductive
<1>2. pumpTodo' \subseteq pumpTodo /\ dropTodo' \subseteq dropTodo
  BY DEF disconnect_attempt, fence_worker
<1>3. CASE a \in AttemptIds /\ disconnect_attempt(a)
  <2>. DEFINE code == LossCode(attempts[a].state)
  <2>1. attempts[a].state # "Absent"
    BY <1>3 DEF disconnect_attempt, Inductive, WorkExists
  <2>2. QuietUnits
    BY <1>1, <1>3, <2>1, BoundUnit, RetryQuiet DEF disconnect_attempt
  <2>3. attempts' = [attempts EXCEPT ![a] = FailedAttempt(a, code)]
    BY <1>3 DEF disconnect_attempt
  <2>4. \A b \in AttemptIds : KeepsBinding(b)
    BY <1>1, <1>3, <2>1, <2>3, FailedBinding, OneAttempt DEF AttemptsBound
  <2>. QED BY <1>1, <1>2, <2>2, <2>4, QuietStep
<1>4. CASE w \in Workers /\ fence_worker(w)
  <2>1. QuietUnits
    BY <1>4, NoUnit DEF fence_worker
  <2>2. \A b \in AttemptIds : attempts'[b] \in {attempts[b], [attempts[b] EXCEPT !.revoked = TRUE]}
    BY <1>4 DEF fence_worker
  <2>3. \A b \in AttemptIds : /\ attempts'[b].comp = attempts[b].comp
                              /\ attempts'[b].worker = attempts[b].worker
                              /\ attempts'[b].state = attempts[b].state
                              /\ attempts'[b].window = attempts[b].window
                              /\ attempts'[b].cand = attempts[b].cand
    BY <1>1, <2>2 DEF TypeOK, AttemptRecord
  <2>4. \A b \in AttemptIds : KeepsBinding(b)
    BY <1>1, <2>3 DEF KeepsBinding, AttemptsBound
  <2>. QED BY <1>1, <1>2, <2>1, <2>4, QuietStep
<1>. QED BY <1>3, <1>4

\* close() and open() keep the invariant.
LEMMA InductiveRestart ==
    ASSUME Inductive, restart
    PROVE  Inductive' /\ QuietUnits
<1>. USE DEF lockVars
<1>1. TypeOK /\ TypeOK' /\ AttemptsBound
  BY TypeRestart DEF Inductive
<1>2. pumpTodo' \subseteq pumpTodo /\ dropTodo' \subseteq dropTodo
  BY DEF restart
<1>3. ASSUME NEW c \in Compilations
      PROVE  /\ RecoveredCompilation(c).gen = comps[c].gen
             /\ RecoveredCompilation(c).state = "Absent" <=> comps[c].state = "Absent"
             /\ RecoveredCompilation(c).state = "Committed" =>
                    comps[c].state = "Committed" \/ authoritative[c] # 0
  BY <1>1 DEF RecoveredCompilation, TypeOK, CompilationRecord
<1>4. QuietUnits
  BY <1>3 DEF restart, QuietUnits
<1>5. ASSUME NEW a \in AttemptIds
      PROVE  /\ RecoveredAttempt(a).comp = attempts[a].comp
             /\ RecoveredAttempt(a).worker = attempts[a].worker
             /\ RecoveredAttempt(a).state = "Absent" <=> attempts[a].state = "Absent"
             /\ RecoveredAttempt(a).window = FALSE
  <2>1. attempts[a] \in AttemptRecord
    BY <1>1 DEF TypeOK
  <2>2. CASE attempts[a].state = "Absent"
    BY <1>1, <2>1, <2>2 DEF RecoveredAttempt, AttemptsBound, AttemptRecord
  <2>3. CASE attempts[a].state # "Absent"
    BY <2>1, <2>3 DEF RecoveredAttempt, AttemptRecord
  <2>. QED BY <2>2, <2>3
<1>6. \A a \in AttemptIds : KeepsBinding(a)
  BY <1>5 DEF restart, KeepsBinding
<1>. QED BY <1>1, <1>2, <1>4, <1>6, QuietStep

\* submit only supersedes commits: the live ones of the units it rebuilds.
LEMMA SubmitCommits ==
    ASSUME TypeOK, NEW force \in BOOLEAN, submit(force)
    PROVE  \A k \in CommitIds :
               /\ commits'[k].comp = commits[k].comp
               /\ commits'[k].gen = commits[k].gen
               /\ commits'[k].digest = commits[k].digest
               /\ commits'[k].superseded <=>
                      commits[k].superseded \/ \E c \in Compilations : Rebuilt(c, force) /\ authoritative[c] = k
<1>1. \A k \in CommitIds : commits[k] \in CommitRecord
  BY DEF TypeOK
<1>2. \A k \in CommitIds :
         commits'[k] = IF \E c \in Compilations : Rebuilt(c, force) /\ authoritative[c] = k
                       THEN [commits[k] EXCEPT !.superseded = TRUE] ELSE commits[k]
  BY DEF submit
<1>. QED BY <1>1, <1>2 DEF CommitRecord

\* What submit makes of a unit: its generation, and when it is shown as Committed.
LEMMA SubmitUnits ==
    ASSUME Inductive, NEW force \in BOOLEAN, submit(force), NEW c \in Compilations
    PROVE  /\ comps'[c].gen = IF comps[c].state = "Absent" THEN 1
                              ELSE IF Rebuilt(c, force) THEN comps[c].gen + 1 ELSE comps[c].gen
           /\ comps'[c].state # "Absent"
           /\ comps'[c].state = "Committed" => authoritative[c] # 0 /\ ~Rebuilt(c, force)
<1>. DEFINE st == IF authoritative[c] # 0 /\ ~Rebuilt(c, force) THEN "Committed" ELSE "CacheHit"
            sub == SubmittedRecord(c, force)
<1>1. comps'[c] = IF CacheReusable(c) THEN [sub EXCEPT !.state = st, !.hit = TRUE]
                  ELSE IF Served(c, force) THEN sub ELSE [sub EXCEPT !.state = "Pending", !.hit = FALSE]
  BY DEF submit
<1>2. /\ sub \in CompilationRecord
      /\ sub.gen = IF comps[c].state = "Absent" THEN 1
                   ELSE IF Rebuilt(c, force) THEN comps[c].gen + 1 ELSE comps[c].gen
  BY SubmittedType DEF Inductive
<1>3. st \in CompStates /\ "Pending" \in CompStates
  BY DEF CompStates
<1>4. CASE CacheReusable(c)
  <2>1. comps'[c] = [sub EXCEPT !.state = st, !.hit = TRUE]
    BY <1>1, <1>4
  <2>2. comps'[c].gen = sub.gen /\ comps'[c].state = st
    <3>. HIDE DEF sub, st
    <3>. QED BY <1>2, <2>1 DEF CompilationRecord
  <2>. QED BY <1>2, <2>2
<1>5. CASE ~CacheReusable(c) /\ Served(c, force)
  <2>1. comps[c].state = "Committed" /\ ~Rebuilt(c, force)
    BY <1>5 DEF Served, Rebuilt
  <2>2. sub = comps[c]
    BY <2>1 DEF SubmittedRecord
  <2>3. comps'[c] = sub
    BY <1>1, <1>5
  <2>. QED BY <2>1, <2>2, <2>3, <1>2 DEF Inductive, CommittedHasAuthority
<1>6. CASE ~CacheReusable(c) /\ ~Served(c, force)
  <2>1. comps'[c] = [sub EXCEPT !.state = "Pending", !.hit = FALSE]
    BY <1>1, <1>6
  <2>2. comps'[c].gen = sub.gen /\ comps'[c].state = "Pending"
    <3>. HIDE DEF sub
    <3>. QED BY <1>2, <2>1 DEF CompilationRecord
  <2>. QED BY <1>2, <2>2
<1>. QED BY <1>4, <1>5, <1>6

\* submit: a unit that is rebuilt gives up its live commit and its generation.
LEMMA InductiveSubmit ==
    ASSUME Inductive, NEW force \in BOOLEAN, submit(force)
    PROVE  Inductive'
<1>. USE DEF lockVars
<1>1. TypeOK /\ TypeOK' /\ AttemptsBound
  BY TypeSubmit DEF Inductive
<1>2. UNCHANGED <<attempts, nextCommit, pumpTodo, dropTodo>>
  BY DEF submit
<1>3. \A c \in Compilations : authoritative'[c] = IF Rebuilt(c, force) THEN 0 ELSE authoritative[c]
  BY DEF submit
<1>4. \A k \in CommitIds :
          /\ commits'[k].comp = commits[k].comp
          /\ commits'[k].gen = commits[k].gen
          /\ commits'[k].digest = commits[k].digest
          /\ commits'[k].superseded <=>
                 commits[k].superseded \/ \E c \in Compilations : Rebuilt(c, force) /\ authoritative[c] = k
  BY <1>1, SubmitCommits
<1>5. ASSUME NEW c \in Compilations
      PROVE  /\ comps'[c].gen = IF comps[c].state = "Absent" THEN 1
                                ELSE IF Rebuilt(c, force) THEN comps[c].gen + 1 ELSE comps[c].gen
             /\ comps'[c].state # "Absent"
             /\ comps'[c].state = "Committed" => authoritative[c] # 0 /\ ~Rebuilt(c, force)
  BY SubmitUnits
<1>6. \A c \in Compilations, k \in CommitIds :
          /\ authoritative[c] = k <=> commits[k].comp = c /\ ~commits[k].superseded
          /\ authoritative[c] = k => commits[k].gen = comps[c].gen
  BY DEF Inductive, AuthorityExact
<1>7. /\ \A c \in Compilations : comps[c].gen \in Nat /\ c # Null
      /\ \A k \in CommitIds : commits[k].gen \in Nat
                              /\ (commits[k].comp # Null => commits[k].comp \in Compilations)
  BY <1>1, CompilationFields, CoordinatorAssumption DEF TypeOK, CommitRecord
<1>8. \A k \in CommitIds : commits[k].comp # Null =>
          /\ commits[k].digest \in Digests
          /\ commits[k].gen # 0
          /\ commits[k].gen <= comps[commits[k].comp].gen
          /\ commits[k].superseded => commits[k].gen < comps[commits[k].comp].gen
  BY DEF Inductive, CommitGenerations
<1>9. \A c \in Compilations : comps[c].state # "Absent" <=> comps[c].gen # 0
  BY DEF Inductive, SubmittedHasGeneration
<1>10. AuthorityExact'
  <2>1. ASSUME NEW c \in Compilations, NEW k \in CommitIds
        PROVE  authoritative'[c] = k <=> commits'[k].comp = c /\ ~commits'[k].superseded
    <3>1. k # 0
      BY DEF CommitIds
    <3>2. CASE Rebuilt(c, force)
      BY <1>3, <1>4, <1>6, <3>1, <3>2
    <3>3. CASE ~Rebuilt(c, force)
      BY <1>3, <1>4, <1>6, <3>3
    <3>. QED BY <3>2, <3>3
  <2>2. ASSUME NEW c \in Compilations, NEW k \in CommitIds, authoritative'[c] = k
        PROVE  commits'[k].gen = comps'[c].gen
    <3>1. ~Rebuilt(c, force) /\ authoritative[c] = k
      BY <1>3, <2>2 DEF CommitIds
    <3>2. commits[k].comp = c /\ commits[k].gen = comps[c].gen /\ c # Null
      BY <1>6, <1>7, <3>1
    <3>3. comps[c].state # "Absent"
      BY <1>8, <1>9, <3>2
    <3>. QED BY <1>4, <1>5, <3>1, <3>2, <3>3
  <2>. QED BY <2>1, <2>2 DEF AuthorityExact
<1>11. OneCommitPerGeneration'
  BY <1>4 DEF Inductive, OneCommitPerGeneration
<1>12. CommittedHasAuthority'
  BY <1>3, <1>5 DEF CommittedHasAuthority
<1>13. CommitIdsInUse'
  BY <1>2, <1>4 DEF Inductive, CommitIdsInUse
<1>14. CommitGenerations'
  <2>1. ASSUME NEW k \in CommitIds, commits[k].comp # Null
        PROVE  /\ commits[k].gen <= comps'[commits[k].comp].gen
               /\ commits'[k].superseded => commits[k].gen < comps'[commits[k].comp].gen
    <3>. DEFINE c == commits[k].comp
    <3>1. /\ c \in Compilations /\ comps[c].gen \in Nat /\ commits[k].gen \in Nat
          /\ commits[k].gen # 0 /\ commits[k].gen <= comps[c].gen
          /\ commits[k].superseded => commits[k].gen < comps[c].gen
      BY <1>7, <1>8, <2>1
    <3>2. comps[c].state # "Absent"
      BY <1>9, <3>1
    <3>3. comps'[c].gen = IF Rebuilt(c, force) THEN comps[c].gen + 1 ELSE comps[c].gen
      BY <1>5, <3>1, <3>2
    <3>4. commits'[k].superseded => commits[k].superseded \/ Rebuilt(c, force)
      BY <1>4, <1>6
    <3>. HIDE DEF c
    <3>5. commits[k].gen <= comps'[c].gen
      BY <3>1, <3>3
    <3>6. commits'[k].superseded => commits[k].gen < comps'[c].gen
      BY <3>1, <3>3, <3>4
    <3>. QED BY <3>5, <3>6 DEF c
  <2>. QED BY <1>4, <1>8, <2>1 DEF CommitGenerations
<1>15. SubmittedHasGeneration'
  <2>1. ASSUME NEW c \in Compilations PROVE comps'[c].gen # 0
    BY <1>5, <1>7, <1>9
  <2>. QED BY <1>5, <2>1 DEF SubmittedHasGeneration
<1>16. AttemptsBound'
  BY <1>1, <1>2, <1>5 DEF AttemptsBound
<1>17. WorkExists'
  BY <1>1, <1>2, <1>5 DEF Inductive, WorkExists, TypeOK
<1>. QED BY <1>1, <1>10, <1>11, <1>12, <1>13, <1>14, <1>15, <1>16, <1>17 DEF Inductive
-----------------------------------------------------------------------------
(***************************************************************************)
(* The theorems.                                                           *)
(***************************************************************************)
\* The invariant holds on an empty state root.
LEMMA InductiveInit == Init => Inductive
<1>. SUFFICES ASSUME Init PROVE Inductive
  OBVIOUS
<1>1. TypeOK
  BY TypeInit
<1>2. \A k \in CommitIds : commits[k] = NoCommit /\ k \in Nat /\ k >= 1
  BY DEF Init, CommitIds
<1>3. NoCommit.comp = Null
  BY DEF NoCommit
<1>4. \A c \in Compilations : authoritative[c] = 0 /\ c # Null
  BY CoordinatorAssumption DEF Init
<1>5. AuthorityExact
  BY <1>2, <1>3, <1>4 DEF AuthorityExact
<1>6. OneCommitPerGeneration /\ CommitGenerations
  BY <1>2, <1>3 DEF OneCommitPerGeneration, CommitGenerations
<1>7. CommitIdsInUse
  BY <1>2, <1>3 DEF CommitIdsInUse, Init
<1>8. \A c \in Compilations : comps[c].state = "Absent" /\ comps[c].gen = 0
  BY DEF Init, NewCompilation
<1>9. CommittedHasAuthority /\ SubmittedHasGeneration
  BY <1>8 DEF CommittedHasAuthority, SubmittedHasGeneration
<1>10. AttemptsBound
  BY DEF Init, NoAttempt, AttemptsBound
<1>11. WorkExists
  BY DEF Init, WorkExists
<1>. QED BY <1>1, <1>5, <1>6, <1>7, <1>9, <1>10, <1>11 DEF Inductive

\* Every step keeps the invariant, and only submit and the first commit of a
\* generation touch generations or the commit table.
LEMMA InductiveNext ==
    ASSUME Inductive, [Next]_vars
    PROVE  /\ Inductive'
           /\ \/ QuietUnits
              \/ \E force \in BOOLEAN : submit(force)
              \/ \E a \in AttemptIds : commit_first(a)
<1>1. CASE UNCHANGED vars
  <2>1. Inductive'
    BY <1>1 DEF vars, Inductive, TypeOK, AuthorityExact, OneCommitPerGeneration,
                CommittedHasAuthority, CommitIdsInUse, CommitGenerations, SubmittedHasGeneration,
                AttemptsBound, WorkExists
  <2>. QED BY <1>1, <2>1, NoUnit DEF vars
<1>2. CASE \E force \in BOOLEAN : submit(force)
  BY <1>2, InductiveSubmit
<1>3. CASE \E w \in Workers, b \in 1..MaxBoot, e \in Evidence : register_worker(w, b, e)
  BY <1>3, InductiveSessions
<1>4. CASE \E s \in SessionIds : SessionStep(s)
  BY <1>4, InductiveSessions
<1>5. CASE pump
  <2>1. \E c : c \in Compilations
    BY <1>5 DEF pump
  <2>. QED BY <1>5, <2>1, InductivePump
<1>6. CASE \E c \in Compilations : Pumping(c)
  BY <1>6, InductivePump DEF Pumping
<1>7. CASE \E a \in AttemptIds : AttemptStep(a)
  BY <1>7, InductiveAttempt, InductiveReport, InductiveCommit DEF AttemptStep, Reporting
<1>8. CASE \E c \in Compilations : cancel(c)
  BY <1>8, InductiveCancel
<1>9. CASE Disconnecting
  BY <1>9, InductiveDisconnect DEF Disconnecting
<1>10. CASE restart
  BY <1>10, InductiveRestart
<1>. QED BY <1>1, <1>2, <1>3, <1>4, <1>5, <1>6, <1>7, <1>8, <1>9, <1>10 DEF Next

\* The inductive invariant holds throughout every behaviour of the coordinator.
THEOREM InductiveInvariant == Spec => []Inductive
<1>1. Init => Inductive
  BY InductiveInit
<1>2. Inductive /\ [Next]_vars => Inductive'
  BY InductiveNext
<1>. QED BY <1>1, <1>2, PTL DEF Spec

\* Every field of detail::State keeps its type, in-flight counters included.
THEOREM TypesHold == Spec => []TypeOK
<1>1. Inductive => TypeOK
  BY DEF Inductive
<1>. QED BY <1>1, InductiveInvariant, PTL

\* The authority table of the coordinator is always exact.
THEOREM AuthorityIsExact == Spec => []AuthorityExact
<1>1. Inductive => AuthorityExact
  BY DEF Inductive
<1>. QED BY <1>1, InductiveInvariant, PTL

\* commit_locked commits at most once per compilation and generation.
THEOREM CommitsOnce == Spec => []OneCommitPerGeneration
<1>1. Inductive => OneCommitPerGeneration
  BY DEF Inductive
<1>. QED BY <1>1, InductiveInvariant, PTL

\* A compilation shown as Committed always has an authoritative commit.
THEOREM CommittedIsServed == Spec => []CommittedHasAuthority
<1>1. Inductive => CommittedHasAuthority
  BY DEF Inductive
<1>. QED BY <1>1, InductiveInvariant, PTL
-----------------------------------------------------------------------------
(***************************************************************************)
(* The refinement of ArtifactAuthority.                                    *)
(***************************************************************************)
generationBar == [c \in Compilations |-> comps[c].gen]
committedBar == {<<commits[k].comp, commits[k].gen, commits[k].digest>> :
                     k \in {j \in CommitIds : commits[j].comp # Null}}

\* An empty state root is an initial state of ArtifactAuthority.
LEMMA RefinesInit == Init => Abstract!Init
<1>. SUFFICES ASSUME Init PROVE Abstract!Init
  OBVIOUS
<1>1. generationBar = [c \in Compilations |-> 0]
  BY DEF Init, NewCompilation, generationBar
<1>2. \A k \in CommitIds : commits[k].comp = Null
  BY DEF Init, NoCommit
<1>3. committedBar = {}
  BY <1>2 DEF committedBar
<1>. QED BY <1>1, <1>3 DEF Abstract!Init, generationBar, committedBar

\* A handler that is quiet about units is a stuttering step of ArtifactAuthority.
LEMMA RefinesQuiet ==
    ASSUME QuietUnits
    PROVE  UNCHANGED Abstract!vars
<1>1. generationBar' = generationBar
  BY DEF QuietUnits, generationBar
<1>2. committedBar' = committedBar
  BY DEF QuietUnits, committedBar
<1>. QED BY <1>1, <1>2 DEF Abstract!vars, generationBar, committedBar

\* submit opens the first generation of new units and the next one of rebuilt units,
\* whose current generation has its artifact.
LEMMA RefinesSubmit ==
    ASSUME Inductive, NEW force \in BOOLEAN, submit(force)
    PROVE  Abstract!Next
<1>. DEFINE opened == {c \in Compilations : comps[c].state = "Absent" \/ Rebuilt(c, force)}
<1>1. ASSUME NEW c \in opened, generationBar[c] # 0
      PROVE  \E d \in Digests : <<c, generationBar[c], d>> \in committedBar
  <2>1. c \in Compilations /\ comps[c].gen # 0
    BY <1>1 DEF generationBar
  <2>2. comps[c].state = "Committed"
    BY <1>1, <2>1 DEF Inductive, SubmittedHasGeneration, Rebuilt
  <2>3. authoritative[c] # 0
    BY <2>1, <2>2 DEF Inductive, CommittedHasAuthority
  <2>4. PICK k \in CommitIds : authoritative[c] = k
    BY <2>1, <2>3 DEF Inductive, TypeOK
  <2>5. commits[k].comp = c /\ commits[k].gen = comps[c].gen /\ c # Null
    BY <2>1, <2>4, CoordinatorAssumption DEF Inductive, AuthorityExact
  <2>6. commits[k].digest \in Digests
    BY <2>5 DEF Inductive, CommitGenerations
  <2>7. <<commits[k].comp, commits[k].gen, commits[k].digest>> \in committedBar
    BY <2>5 DEF committedBar
  <2>. QED BY <2>1, <2>5, <2>6, <2>7 DEF generationBar
<1>2. \A c \in Compilations : comps'[c].gen = IF c \in opened THEN comps[c].gen + 1 ELSE comps[c].gen
  <2>1. ASSUME NEW c \in Compilations
        PROVE  comps'[c].gen = IF comps[c].state = "Absent" THEN 1
                               ELSE IF Rebuilt(c, force) THEN comps[c].gen + 1 ELSE comps[c].gen
    BY SubmitUnits
  <2>2. \A c \in Compilations : comps[c].state = "Absent" => comps[c].gen = 0
    BY DEF Inductive, SubmittedHasGeneration
  <2>. QED BY <2>1, <2>2
<1>3. generationBar' = [c \in Compilations |-> IF c \in opened THEN generationBar[c] + 1
                                                               ELSE generationBar[c]]
  <2>. HIDE DEF opened
  <2>. QED BY <1>2 DEF generationBar
<1>4. \A k \in CommitIds : /\ commits'[k].comp = commits[k].comp
                           /\ commits'[k].gen = commits[k].gen
                           /\ commits'[k].digest = commits[k].digest
  BY SubmitCommits DEF Inductive
<1>5. committedBar' = committedBar
  BY <1>4 DEF committedBar
<1>6. opened \in SUBSET Compilations
  OBVIOUS
<1>7. Abstract!OpenGenerations(opened)
  <2>. HIDE DEF opened
  <2>. QED BY <1>1, <1>3, <1>5 DEF Abstract!OpenGenerations, Abstract!HasArtifact, generationBar, committedBar
<1>. HIDE DEF opened
<1>. QED BY <1>6, <1>7 DEF Abstract!Next, Abstract!OpenGenerations

\* The first commit of a generation is the abstract commit of it.
LEMMA RefinesCommit ==
    ASSUME Inductive, NEW a \in AttemptIds, commit_first(a)
    PROVE  Abstract!Next
<1>. DEFINE c == attempts[a].comp
            d == attempts[a].cand
<1>1. /\ c \in Compilations /\ d \in Digests /\ nextCommit \in CommitIds
      /\ commits[nextCommit].comp = Null /\ c # Null /\ comps[c].gen # 0
      /\ commits'[nextCommit].comp = c
      /\ commits'[nextCommit].gen = comps[c].gen
      /\ commits'[nextCommit].digest = d
  BY CommitFirstFacts
<1>2. /\ \A k \in CommitIds \ {nextCommit} : /\ commits'[k].comp = commits[k].comp
                                             /\ commits'[k].gen = commits[k].gen
                                             /\ commits'[k].digest = commits[k].digest
      /\ \A e \in Compilations : comps'[e].gen = comps[e].gen
      /\ \A k \in CommitIds : commits[k].comp = c => commits[k].gen # comps[c].gen
  BY CommitFirstFacts
<1>. HIDE DEF c, d
<1>3. generationBar' = generationBar /\ generationBar[c] = comps[c].gen
  BY <1>1, <1>2 DEF generationBar
<1>4. \A e : <<c, comps[c].gen, e>> \notin committedBar
  BY <1>2 DEF committedBar
<1>5. committedBar' = committedBar \cup {<<c, comps[c].gen, d>>}
  <2>1. committedBar' \subseteq committedBar \cup {<<c, comps[c].gen, d>>}
    BY <1>1, <1>2 DEF committedBar
  <2>2. committedBar \subseteq committedBar'
    BY <1>1, <1>2 DEF committedBar
  <2>3. <<c, comps[c].gen, d>> \in committedBar'
    <3>1. nextCommit \in {j \in CommitIds : commits'[j].comp # Null}
      BY <1>1
    <3>. QED BY <1>1, <3>1 DEF committedBar
  <2>. QED BY <2>1, <2>2, <2>3
<1>6. Abstract!Commit(c, d)
  BY <1>1, <1>3, <1>4, <1>5 DEF Abstract!Commit, Abstract!HasArtifact, generationBar, committedBar
<1>. QED BY <1>1, <1>6 DEF Abstract!Next, Abstract!Commit

\* The coordinator implements exactly-once logical commit.
THEOREM Refinement == Spec => ImplementsArtifactAuthority
<1>1. Init => Abstract!Init
  BY RefinesInit
<1>2. Inductive /\ [Next]_vars => [Abstract!Next]_(Abstract!vars)
  <2>. SUFFICES ASSUME Inductive, [Next]_vars PROVE [Abstract!Next]_(Abstract!vars)
    OBVIOUS
  <2>1. CASE QuietUnits
    BY <2>1, RefinesQuiet
  <2>2. CASE \E force \in BOOLEAN : submit(force)
    BY <2>2, RefinesSubmit
  <2>3. CASE \E a \in AttemptIds : commit_first(a)
    BY <2>3, RefinesCommit
  <2>. QED BY <2>1, <2>2, <2>3, InductiveNext
<1>. QED BY <1>1, <1>2, InductiveInvariant, PTL DEF Spec, ImplementsArtifactAuthority, Abstract!Spec
=============================================================================
