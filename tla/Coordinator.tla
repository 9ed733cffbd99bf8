----------------------------- MODULE Coordinator -----------------------------
(***************************************************************************)
(* The compilation transaction of src/coordinator_tx.cpp and               *)
(* src/coordinator.cpp: submission, scheduling, the attempt life cycle,    *)
(* the two-phase report_output, failure handling, worker sessions and an   *)
(* orderly restart.                                                        *)
(*                                                                         *)
(* Every public method of Coordinator runs under one mutex, so each is one *)
(* action, with two exceptions.  report_output drops the mutex between its *)
(* reservation and its revalidation, so it is two actions with anything in *)
(* between.  pump and disconnect_session loop over maps whose elements     *)
(* influence each other; they keep the mutex, which the model records in   *)
(* pumpTodo and dropping: while either is set no other action is enabled.  *)
(*                                                                         *)
(* One request is modelled; its units are Compilations, and a unit with    *)
(* Children is a link unit.  Unit identity and compilation id are one to   *)
(* one in the code, and so is everything keyed by either.                  *)
(***************************************************************************)
EXTENDS Integers, FiniteSets, AttemptLifecycle

CONSTANTS
    Compilations,       \* the units of the request
    Children,           \* Children[c]: the units a link unit c links
    Mandatory,          \* the units with CompilationUnitSpec::mandatory
    Workers,            \* WorkerIds
    Digests,            \* digests a compiler may produce for a unit
    Null,               \* no compilation, worker or digest
    FailCodes,          \* the codes dc_worker puts in FAIL_ATTEMPT
    Speculative,        \* policy.allow_speculative_duplication
    CacheEnabled,       \* policy.cache # CachePolicy::Bypass
    ReproRequired,      \* policy.reproducibility = REQUIRED
    MaxAttempts,        \* min(policy.max_attempts_per_unit, hard cap), at least 1
    MaxInflight,        \* SessionRecord::max_inflight
    StoreMayFail,       \* store_blob may report an error
    Evidence,           \* what workers advertise: TRUE is evidence other than Unknown
    ToolchainsChange,   \* a worker's toolchain may change under it
    MaxAttemptId, MaxSession, MaxBoot, MaxGeneration, MaxEpoch \* bounds of the instance

AttemptIds == 1..MaxAttemptId
CommitIds  == 1..MaxAttemptId     \* an attempt commits at most once
SessionIds == 1..MaxSession

ASSUME CoordinatorAssumption ==
    /\ Null \notin Compilations \cup Workers \cup Digests
    /\ Children \in [Compilations -> SUBSET Compilations]
    /\ Mandatory \subseteq Compilations
    /\ MaxAttemptId \in Nat /\ MaxSession \in Nat /\ MaxBoot \in Nat
    /\ MaxGeneration \in Nat /\ MaxEpoch \in Nat
    /\ MaxAttempts \in Nat /\ MaxInflight \in Nat
    /\ {Speculative, CacheEnabled, ReproRequired, StoreMayFail, ToolchainsChange} \subseteq BOOLEAN
    /\ Evidence \subseteq BOOLEAN

VARIABLES
    epoch,              \* state.header.epoch
    workers,            \* state.workers
    sessions,           \* state.sessions; nextSession is header.next_session_id
    nextSession,
    comps,              \* state.compilations
    attempts,           \* state.attempts, each with its lease
    nextAttempt,        \* header.next_attempt_id and header.next_lease_id
    commits,            \* state.commits, each with the cache entry it recorded
    nextCommit,         \* header.next_commit_id and header.next_cache_entry_id
    authoritative,      \* state.authoritative, 0 where there is no entry
    cacheIndex,         \* state.cache_index, 0 where there is no entry
    job,                \* state.jobs[request]
    controls,           \* every control message queued since open()
    pumpTodo,           \* compilations a running pump() has yet to visit
    dropping,           \* the session a running disconnect_session handles, or 0
    dropTodo            \* the attempts it has yet to visit

vars == <<epoch, workers, sessions, nextSession, comps, attempts, nextAttempt, commits,
          nextCommit, authoritative, cacheIndex, job, controls, pumpTodo, dropping, dropTodo>>
transactionVars == <<comps, attempts, nextAttempt, commits, nextCommit, authoritative,
                     cacheIndex, job, controls>>
lockVars == <<pumpTodo, dropping, dropTodo>>

-----------------------------------------------------------------------------
CompStates == {"Absent", "Pending", "CacheHit", "Eligible", "Assigned", "Running", "Producing",
               "Committed", "Failed", "Cancelled", "Ambiguous"}

\* The fields of WorkerRecord the transaction reads.  evidence is "capabilities
\* carry evidence"; boot 0 is a worker that has never registered.
NoWorkerRecord == [boot |-> 0, gen |-> 0, session |-> 0, fenced |-> FALSE,
                   evidence |-> FALSE, ready |-> FALSE, inflight |-> 0]
NoSession == [worker |-> Null, boot |-> 0, epoch |-> 0, open |-> FALSE]
\* compilation.commit is a copy of the authoritative record and is left out.
NewCompilation == [state |-> "Pending", gen |-> 1, ordinal |-> 0, hit |-> FALSE,
                   violation |-> FALSE, divergent |-> {}]
\* An attempt and its lease: revoked is CompileLease::revoked, and window is TRUE
\* while its report_output call is between reservation and revalidation.
NoAttempt == [comp |-> Null, gen |-> 0, ordinal |-> 0, worker |-> Null, boot |-> 0,
              wgen |-> 0, epoch |-> 0, speculative |-> FALSE, state |-> "Absent", cand |-> Null,
              revoked |-> FALSE, window |-> FALSE]
\* A commit and its cache entry: invalidated is CacheEntry::invalidated.
NoCommit == [comp |-> Null, gen |-> 0, attempt |-> 0, digest |-> Null, epoch |-> 0,
             superseded |-> FALSE, invalidated |-> FALSE]

\* Coordinator::open on an empty state root.
Init ==
    /\ epoch = 1
    /\ workers = [w \in Workers |-> NoWorkerRecord]
    /\ sessions = [s \in SessionIds |-> NoSession]
    /\ nextSession = 1
    /\ comps = [c \in Compilations |-> [NewCompilation EXCEPT !.state = "Absent", !.gen = 0]]
    /\ attempts = [a \in AttemptIds |-> NoAttempt]
    /\ nextAttempt = 1
    /\ commits = [k \in CommitIds |-> NoCommit]
    /\ nextCommit = 1
    /\ authoritative = [c \in Compilations |-> 0]
    /\ cacheIndex = [c \in Compilations |-> 0]
    /\ job = [committed |-> FALSE, failure |-> "Ok"]
    /\ controls = {}
    /\ pumpTodo = {}
    /\ dropping = 0
    /\ dropTodo = {}

MutexFree == pumpTodo = {} /\ dropping = 0

\* find_session: open() clears the table, so a session of an earlier epoch is gone.
find_session(s) == sessions[s].worker # Null /\ sessions[s].epoch = epoch

\* The session checks of report_output and fail_attempt.
owns_attempt(s, a) ==
    /\ find_session(s)
    /\ sessions[s].worker = attempts[a].worker
    /\ sessions[s].boot = attempts[a].boot

\* Forms of the definitions below with a plausible mistake are named ..._mutant_...;
\* no specification uses them, they show that a property notices the mistake.
validate_authority_mutant_generation(a) ==
    attempts[a].state # "Absent" /\ attempts[a].epoch = epoch

\* validate_authority against expectation_for.  The claim is the one minted with
\* the attempt, so every field the expectation copies from the attempt (worker,
\* boot, worker generation, lease) compares equal to itself; what can move is the
\* coordinator epoch and the compilation generation.
validate_authority(a) ==
    /\ attempts[a].state # "Absent"
    /\ attempts[a].epoch = epoch
    /\ attempts[a].gen = comps[attempts[a].comp].gen

has_authority_mutant_inverted(c) == authoritative[c] # 0 /\ commits[authoritative[c]].superseded

\* The authoritative commit commit_locked looks for, if it is not superseded.
has_authority(c) == authoritative[c] # 0 /\ ~commits[authoritative[c]].superseded

AttemptsOf(c) == {a \in AttemptIds : attempts[a].comp = c}
-----------------------------------------------------------------------------
(***************************************************************************)
(* Effects shared by several handlers.                                     *)
(***************************************************************************)
Release_mutant_unclamped(ws, w, n) == [ws EXCEPT ![w].inflight = @ - n]

\* finish_attempt_bookkeeping for n attempts of worker w; each also revokes its lease.
Release(ws, w, n) == [ws EXCEPT ![w].inflight = IF n < @ THEN @ - n ELSE 0]

\* fail_attempt_locked returns early, changing nothing, exactly when this holds.
FailRefused(a, code) ==
    /\ ~transition_ok(attempts[a].state, failure_state(code))
    /\ ~is_terminal_state(attempts[a].state)

FailedAttempt_mutant_lease(a, code) ==
    IF FailRefused(a, code) THEN attempts[a]
    ELSE [attempts[a] EXCEPT
            !.state = IF transition_ok(@, failure_state(code)) THEN failure_state(code) ELSE @]

\* The attempt after fail_attempt_locked: a terminal one keeps its state but goes
\* through the bookkeeping again.
FailedAttempt(a, code) ==
    IF FailRefused(a, code) THEN attempts[a]
    ELSE [attempts[a] EXCEPT
            !.state = IF transition_ok(@, failure_state(code)) THEN failure_state(code) ELSE @,
            !.revoked = TRUE]
FailedWorkers(a, code) ==
    IF FailRefused(a, code) THEN workers ELSE Release(workers, attempts[a].worker, 1)

FanInFailed_mutant_ambiguous(cs, failed) ==
    {p \in Mandatory :
        /\ p # failed
        /\ failed \in Children[p]
        /\ cs[p].state \notin {"Absent", "Committed", "CacheHit", "Failed", "Cancelled"}
        /\ cs[failed].state \in {"Failed", "Cancelled"}}

\* propagate_fan_in_failure: the link units that can no longer be linked.  It
\* looks one level up and is not applied again to the units it fails.
FanInFailed(cs, failed) ==
    {p \in Mandatory :
        /\ p # failed
        /\ failed \in Children[p]
        /\ cs[p].state \notin {"Absent", "Committed", "CacheHit", "Failed", "Cancelled"}
        /\ cs[failed].state \in {"Failed", "Cancelled", "Ambiguous"}}

\* schedule_retry_or_fail, the fan-in propagation at its end included.
RetryState(cs, c, code) ==
    IF classify_failure(code) # "NonRetryable" /\ cs[c].ordinal < MaxAttempts THEN "Eligible"
    ELSE IF classify_failure(code) = "Ambiguous" THEN "Ambiguous"
    ELSE "Failed"

schedule_retry_or_fail(c, code) ==
    LET cs     == [comps EXCEPT ![c].state = RetryState(comps, c, code)]
        failed == FanInFailed(cs, c)
    IN  /\ comps' = [d \in Compilations |->
                        IF d \in failed THEN [cs[d] EXCEPT !.state = "Failed"] ELSE cs[d]]
        /\ job' = IF failed = {} THEN job ELSE [job EXCEPT !.failure = "FanInIncomplete"]
-----------------------------------------------------------------------------
(***************************************************************************)
(* Submission.  The first loop creates a record, or starts a new generation*)
(* of a committed one when force_rebuild is set; the second consults the   *)
(* cache and queues what neither it nor a commit record serves.            *)
(***************************************************************************)
Rebuilt_mutant_uncommitted(c, force) == force /\ comps[c].state # "Absent"

Rebuilt(c, force) == force /\ comps[c].state = "Committed"

\* evaluate_cache_metadata and evaluate_cache_blob: a unit identity matches only its
\* own entries, and a committed artifact's blob is in the store.
CacheReusable(c) ==
    CacheEnabled /\ cacheIndex[c] # 0 /\ ~commits[cacheIndex[c]].invalidated

SubmittedRecord_mutant_generation(c, force) ==
    CASE comps[c].state = "Absent" -> NewCompilation
      [] Rebuilt(c, force) -> [comps[c] EXCEPT !.state = "Pending", !.hit = FALSE,
                                               !.violation = FALSE, !.divergent = {}]
      [] OTHER -> comps[c]
SubmittedRecord_mutant_divergent(c, force) ==
    CASE comps[c].state = "Absent" -> NewCompilation
      [] Rebuilt(c, force) -> [comps[c] EXCEPT !.state = "Pending", !.gen = @ + 1, !.hit = FALSE]
      [] OTHER -> comps[c]

SubmittedRecord(c, force) ==
    CASE comps[c].state = "Absent" -> NewCompilation
      [] Rebuilt(c, force) -> [comps[c] EXCEPT !.state = "Pending", !.gen = @ + 1, !.hit = FALSE,
                                               !.violation = FALSE, !.divergent = {}]
      [] OTHER -> comps[c]

Served(c, force) == CacheReusable(c) \/ (comps[c].state = "Committed" /\ ~force)

\* The journal takes every record here; the appends that fail are in Recovery.
submit(force) ==
    /\ MutexFree
    /\ \A c \in Compilations : Rebuilt(c, force) => comps[c].gen < MaxGeneration
    /\ LET kept(c) == authoritative[c] # 0 /\ ~Rebuilt(c, force) IN
       /\ commits' = [k \in CommitIds |->
             IF \E c \in Compilations : Rebuilt(c, force) /\ authoritative[c] = k
             THEN [commits[k] EXCEPT !.superseded = TRUE] ELSE commits[k]]
       /\ authoritative' = [c \in Compilations |-> IF Rebuilt(c, force) THEN 0 ELSE authoritative[c]]
       /\ comps' = [c \in Compilations |->
             IF CacheReusable(c)
             THEN [SubmittedRecord(c, force) EXCEPT
                     !.state = IF kept(c) THEN "Committed" ELSE "CacheHit", !.hit = TRUE]
             ELSE IF Served(c, force) THEN SubmittedRecord(c, force)
             ELSE [SubmittedRecord(c, force) EXCEPT !.state = "Pending", !.hit = FALSE]]
       /\ job' = [job EXCEPT !.committed = \A c \in Compilations : Served(c, force)]
    /\ UNCHANGED <<epoch, workers, sessions, nextSession, attempts, nextAttempt, nextCommit,
                   cacheIndex, controls, lockVars>>
-----------------------------------------------------------------------------
(***************************************************************************)
(* Worker sessions.                                                        *)
(***************************************************************************)
\* A registration replaces the boot and the session of the worker record; the
\* attempts, leases and sessions of the previous boot are not touched.  Boot
\* ids are minted per process, so a worker never goes back to an older one.
register_worker(w, b, e) ==
    /\ MutexFree
    /\ nextSession <= MaxSession
    /\ b >= workers[w].boot
    /\ workers' = [workers EXCEPT ![w] =
          [boot |-> b, gen |-> @.gen + 1, session |-> nextSession, fenced |-> FALSE,
           evidence |-> e, ready |-> FALSE, inflight |-> 0]]
    /\ sessions' = [sessions EXCEPT ![nextSession] =
          [worker |-> w, boot |-> b, epoch |-> epoch, open |-> TRUE]]
    /\ nextSession' = nextSession + 1
    /\ UNCHANGED <<epoch, transactionVars, lockVars>>

\* The session speaks for the live boot of its worker.
current_boot(s) == find_session(s) /\ workers[sessions[s].worker].boot = sessions[s].boot

advertise_capabilities(s, e) ==
    /\ MutexFree
    /\ current_boot(s)
    /\ workers' = [workers EXCEPT ![sessions[s].worker].evidence = e]
    /\ UNCHANGED <<epoch, sessions, nextSession, transactionVars, lockVars>>

mark_ready(s) ==
    /\ MutexFree
    /\ current_boot(s)
    /\ workers[sessions[s].worker].evidence
    /\ workers' = [workers EXCEPT ![sessions[s].worker].ready = TRUE]
    /\ UNCHANGED <<epoch, sessions, nextSession, transactionVars, lockVars>>

\* handle_validate_response with a capability digest that no longer matches.
handle_validate_response(s) ==
    /\ MutexFree
    /\ ToolchainsChange
    /\ current_boot(s)
    /\ workers' = [workers EXCEPT ![sessions[s].worker].ready = FALSE]
    /\ UNCHANGED <<epoch, sessions, nextSession, transactionVars, lockVars>>
-----------------------------------------------------------------------------
(***************************************************************************)
(* Scheduling.                                                             *)
(***************************************************************************)
unit_ready(c) == \A d \in Children[c] : comps[d].state \in {"Committed", "CacheHit"}

eligible_workers_mutant_ready ==
    {w \in Workers :
        /\ workers[w].session # 0
        /\ sessions[workers[w].session].open
        /\ workers[w].inflight < MaxInflight
        /\ ~workers[w].fenced /\ workers[w].evidence}
eligible_workers_mutant_evidence ==
    {w \in Workers :
        /\ workers[w].session # 0
        /\ sessions[workers[w].session].open
        /\ workers[w].inflight < MaxInflight
        /\ ~workers[w].fenced /\ workers[w].ready}

\* eligible_workers and evaluate_eligibility, for workers that offer the toolchain,
\* the target and the formats of the request.
eligible_workers ==
    {w \in Workers :
        /\ workers[w].session # 0
        /\ sessions[workers[w].session].open
        /\ workers[w].inflight < MaxInflight
        /\ ~workers[w].fenced /\ workers[w].ready /\ workers[w].evidence}

InFlight_mutant_assigned(c) ==
    \E a \in AttemptsOf(c) :
        attempts[a].state # "Assigned" /\ holds_commit_authority(attempts[a].state)
InFlight_mutant_ambiguous(c) == \E a \in AttemptsOf(c) : ~is_terminal_state(attempts[a].state)

\* pump() leaves a compilation alone while this holds.
InFlight(c) == \E a \in AttemptsOf(c) : holds_commit_authority(attempts[a].state)
Settled(c) == authoritative[c] # 0 \/ InFlight(c)

ChildrenAuthoritative_mutant_none(c) == TRUE

\* build_assignment gives up when a child has no authoritative commit to link.
ChildrenAuthoritative(c) == \A d \in Children[c] : authoritative[d] # 0

\* The attempt build_assignment creates, the ordinal-th of c, with its lease.
NewAttempt(c, w, ordinal, speculative) ==
    [comp |-> c, gen |-> comps[c].gen, ordinal |-> ordinal, worker |-> w, boot |-> workers[w].boot,
     wgen |-> workers[w].gen, epoch |-> epoch, speculative |-> speculative, state |-> "Assigned",
     cand |-> Null, revoked |-> FALSE, window |-> FALSE]

\* pump() starts; visiting a compilation that is neither Pending nor Eligible has
\* no effect, so the others are the ones to visit, in an order derived from hashes.
pump ==
    /\ MutexFree
    /\ LET todo == {c \in Compilations : comps[c].state \in {"Pending", "Eligible"}} IN
       /\ todo # {}
       /\ nextAttempt + (IF Speculative THEN 2 ELSE 1) * Cardinality(todo) <= MaxAttemptId + 1
       /\ pumpTodo' = todo
    /\ UNCHANGED <<epoch, workers, sessions, nextSession, transactionVars, dropping, dropTodo>>

Visiting(c) == c \in pumpTodo /\ pumpTodo' = pumpTodo \ {c} /\ UNCHANGED <<dropping, dropTodo>>

\* Nothing to do, or build_assignment returned nullopt.
pump_skip(c) ==
    /\ Visiting(c)
    /\ \/ Settled(c)
       \/ unit_ready(c) /\ eligible_workers # {} /\ ~ChildrenAuthoritative(c)
    /\ UNCHANGED <<epoch, workers, sessions, nextSession, transactionVars>>

\* The fan-in gate is closed or no worker is eligible.
pump_defer(c) ==
    /\ Visiting(c)
    /\ ~Settled(c)
    /\ ~unit_ready(c) \/ eligible_workers = {}
    /\ comps' = [comps EXCEPT ![c].state = "Eligible"]
    /\ UNCHANGED <<epoch, workers, sessions, nextSession, attempts, nextAttempt, commits,
                   nextCommit, authoritative, cacheIndex, job, controls>>

Assignable(c) ==
    ~Settled(c) /\ unit_ready(c) /\ eligible_workers # {} /\ ChildrenAuthoritative(c)

\* rank_workers orders the eligible workers; any of them may come out first.
pump_assign(c, w) ==
    /\ Visiting(c)
    /\ Assignable(c)
    /\ w \in eligible_workers
    /\ ~(Speculative /\ \E v \in eligible_workers : v # w)
    /\ nextAttempt \in AttemptIds
    /\ attempts' = [attempts EXCEPT ![nextAttempt] = NewAttempt(c, w, comps[c].ordinal + 1, FALSE)]
    /\ nextAttempt' = nextAttempt + 1
    /\ comps' = [comps EXCEPT ![c].state = "Assigned", ![c].ordinal = @ + 1]
    /\ workers' = [workers EXCEPT ![w].inflight = @ + 1]
    /\ UNCHANGED <<epoch, sessions, nextSession, commits, nextCommit, authoritative, cacheIndex,
                   job, controls>>

\* With two ranked workers and a policy that allows it, the second one gets a
\* speculative duplicate in the same visit.
pump_assign_pair(c, w, v) ==
    /\ Visiting(c)
    /\ Assignable(c)
    /\ Speculative
    /\ {w, v} \subseteq eligible_workers /\ w # v
    /\ {nextAttempt, nextAttempt + 1} \subseteq AttemptIds
    /\ attempts' = [attempts EXCEPT ![nextAttempt] = NewAttempt(c, w, comps[c].ordinal + 1, FALSE),
                                    ![nextAttempt + 1] = NewAttempt(c, v, comps[c].ordinal + 2, TRUE)]
    /\ nextAttempt' = nextAttempt + 2
    /\ comps' = [comps EXCEPT ![c].state = "Assigned", ![c].ordinal = @ + 2]
    /\ workers' = [workers EXCEPT ![w].inflight = @ + 1, ![v].inflight = @ + 1]
    /\ UNCHANGED <<epoch, sessions, nextSession, commits, nextCommit, authoritative, cacheIndex,
                   job, controls>>
-----------------------------------------------------------------------------
(***************************************************************************)
(* The worker's messages about an attempt.                                 *)
(***************************************************************************)
\* begin_compile checks the claim and no session.  On an attempt that already
\* began it changes nothing.
begin_compile(a) ==
    /\ MutexFree
    /\ validate_authority(a)
    /\ attempts[a].state = "Assigned"
    /\ attempts' = [attempts EXCEPT ![a].state = "Preparing"]
    /\ comps' = [comps EXCEPT ![attempts[a].comp].state =
                    IF @ = "Committed" THEN @ ELSE "Running"]
    /\ UNCHANGED <<epoch, workers, sessions, nextSession, nextAttempt, commits, nextCommit,
                   authoritative, cacheIndex, job, controls, lockVars>>

\* Phase 1 of report_output: reservation under the mutex.
report_reserve(s, a, d) ==
    /\ MutexFree
    /\ owns_attempt(s, a)
    /\ validate_authority(a)
    /\ attempts[a].state \in {"Preparing", "Running"}
    /\ attempts' = [attempts EXCEPT ![a].state = "Produced", ![a].cand = d, ![a].window = TRUE]
    /\ comps' = [comps EXCEPT ![attempts[a].comp].state =
                    IF @ = "Committed" \/ authoritative[attempts[a].comp] # 0
                    THEN @ ELSE "Producing"]
    /\ UNCHANGED <<epoch, workers, sessions, nextSession, nextAttempt, commits, nextCommit,
                   authoritative, cacheIndex, job, controls, lockVars>>

\* Phase 2 fails: store_blob reported an error and report_output returns.
report_abandon(a) ==
    /\ MutexFree
    /\ StoreMayFail
    /\ attempts[a].window
    /\ attempts' = [attempts EXCEPT ![a].window = FALSE]
    /\ UNCHANGED <<epoch, workers, sessions, nextSession, comps, nextAttempt, commits, nextCommit,
                   authoritative, cacheIndex, job, controls, lockVars>>

Revalidating_mutant_connected(a) ==
    MutexFree /\ attempts[a].window /\ \E s \in SessionIds : owns_attempt(s, a) /\ sessions[s].open

\* Phase 3 begins: the mutex is held again.
Revalidating(a) == MutexFree /\ attempts[a].window

\* Phase 3, authority moved during the window: the attempt is fenced if it can be.
report_stale(a) ==
    /\ Revalidating(a)
    /\ ~validate_authority(a)
    /\ LET moved == transition_ok(attempts[a].state, "Fenced") IN
       /\ attempts' = [attempts EXCEPT ![a] =
             [attempts[a] EXCEPT !.window = FALSE, !.state = IF moved THEN "Fenced" ELSE @,
                                 !.revoked = @ \/ moved]]
       /\ workers' = IF moved THEN Release(workers, attempts[a].worker, 1) ELSE workers
    /\ UNCHANGED <<epoch, sessions, nextSession, comps, nextAttempt, commits, nextCommit,
                   authoritative, cacheIndex, job, controls, lockVars>>

\* fail_attempt_locked for the attempt whose report is being decided.
CandidateFailed(a, code) ==
    /\ attempts' = [attempts EXCEPT ![a] = [FailedAttempt(a, code) EXCEPT !.window = FALSE]]
    /\ workers' = FailedWorkers(a, code)

\* commit_locked, validation did not pass.
commit_invalid(a) ==
    /\ Revalidating(a)
    /\ validate_authority(a)
    /\ CandidateFailed(a, "ValidationFailure")
    /\ comps' = [comps EXCEPT ![attempts[a].comp].state = "Failed"]
    /\ UNCHANGED <<epoch, sessions, nextSession, nextAttempt, commits, nextCommit,
                   authoritative, cacheIndex, job, controls, lockVars>>

\* commit_locked, an equivalent artifact is already authoritative.  An attempt
\* that lost Produced during the window cannot walk to Committed any more.
commit_duplicate(a) ==
    LET c == attempts[a].comp IN
    /\ Revalidating(a)
    /\ validate_authority(a)
    /\ has_authority(c)
    /\ commits[authoritative[c]].digest = attempts[a].cand
    /\ \/ /\ attempts[a].state = "Produced"
          /\ attempts' = [attempts EXCEPT ![a].state = "Committed", ![a].revoked = TRUE,
                                          ![a].window = FALSE]
          /\ workers' = Release(workers, attempts[a].worker, 1)
          /\ comps' = [comps EXCEPT ![c].state = "Committed"]
       \/ /\ attempts[a].state # "Produced"
          /\ CandidateFailed(a, "IllegalTransition")
          /\ UNCHANGED comps
    /\ UNCHANGED <<epoch, sessions, nextSession, nextAttempt, commits, nextCommit,
                   authoritative, cacheIndex, job, controls, lockVars>>

\* commit_locked, a different artifact is already authoritative.
commit_divergent(a) ==
    LET c == attempts[a].comp IN
    /\ Revalidating(a)
    /\ validate_authority(a)
    /\ has_authority(c)
    /\ commits[authoritative[c]].digest # attempts[a].cand
    /\ CandidateFailed(a, IF ReproRequired THEN "ReproducibilityViolation" ELSE "ArtifactMismatch")
    /\ comps' = [comps EXCEPT ![c].divergent = @ \cup {attempts[a].cand},
                              ![c].violation = @ \/ ReproRequired]
    /\ UNCHANGED <<epoch, sessions, nextSession, nextAttempt, commits, nextCommit,
                   authoritative, cacheIndex, job, controls, lockVars>>

\* commit_locked, no authority yet but the attempt is no longer Produced: the
\* transition to Validating is refused and nothing else happens.
commit_refused(a) ==
    /\ Revalidating(a)
    /\ validate_authority(a)
    /\ ~has_authority(attempts[a].comp)
    /\ ~transition_ok(attempts[a].state, "Validating")
    /\ attempts' = [attempts EXCEPT ![a].window = FALSE]
    /\ UNCHANGED <<epoch, workers, sessions, nextSession, comps, nextAttempt, commits, nextCommit,
                   authoritative, cacheIndex, job, controls, lockVars>>

\* enqueue_cancel_losers and the notification of the winner.
CommitControls(c, winner) ==
    {[kind |-> "CancelAttempt", attempt |-> a] :
        a \in {b \in AttemptsOf(c) : b # winner /\ holds_commit_authority(attempts[b].state)}}
    \cup {[kind |-> "CommitNotification", attempt |-> winner]}

mark_job_progress_mutant_cancelled(cs) ==
    \A d \in Compilations : cs[d].state \in {"Committed", "CacheHit", "Cancelled"}
mark_job_progress(cs) == \A d \in Compilations : cs[d].state \in {"Committed", "CacheHit"}

\* commit_locked, the first authoritative commit of this generation, with
\* record_cache_entry, mark_job_progress and the control messages.
commit_first(a) ==
    LET c  == attempts[a].comp
        cs == [comps EXCEPT ![c].state = "Committed"]
    IN
    /\ Revalidating(a)
    /\ validate_authority(a)
    /\ ~has_authority(c)
    /\ transition_ok(attempts[a].state, "Validating")
    /\ nextCommit \in CommitIds
    /\ attempts' = [attempts EXCEPT ![a].state = "Committed", ![a].revoked = TRUE,
                                    ![a].window = FALSE]
    /\ workers' = Release(workers, attempts[a].worker, 1)
    /\ commits' = [k \in CommitIds |->
          IF k = nextCommit
          THEN [comp |-> c, gen |-> comps[c].gen, attempt |-> a, digest |-> attempts[a].cand,
                epoch |-> epoch, superseded |-> FALSE, invalidated |-> FALSE]
          ELSE IF k = cacheIndex[c] THEN [commits[k] EXCEPT !.invalidated = TRUE]
          ELSE commits[k]]
    /\ nextCommit' = nextCommit + 1
    /\ authoritative' = [authoritative EXCEPT ![c] = nextCommit]
    /\ cacheIndex' = [cacheIndex EXCEPT ![c] = nextCommit]
    /\ comps' = cs
    /\ job' = [job EXCEPT !.committed = mark_job_progress(cs)]
    /\ controls' = controls \cup CommitControls(c, a)
    /\ UNCHANGED <<epoch, sessions, nextSession, nextAttempt, lockVars>>

\* A worker reports Cancelled only after a CancelAttempt message reached it.
fail_attempt(s, a, code) ==
    /\ MutexFree
    /\ owns_attempt(s, a)
    /\ validate_authority(a)
    /\ code = "Cancelled" => [kind |-> "CancelAttempt", attempt |-> a] \in controls
    /\ ~is_terminal_state(attempts[a].state)
    /\ ~FailRefused(a, code)
    /\ attempts' = [attempts EXCEPT ![a] = FailedAttempt(a, code)]
    /\ workers' = FailedWorkers(a, code)
    /\ schedule_retry_or_fail(attempts[a].comp, code)
    /\ UNCHANGED <<epoch, sessions, nextSession, nextAttempt, commits, nextCommit, authoritative,
                   cacheIndex, controls, lockVars>>
-----------------------------------------------------------------------------
(***************************************************************************)
(* Cancellation, session loss and restart.                                 *)
(***************************************************************************)
cancel(c) ==
    /\ MutexFree
    /\ comps[c].state \notin {"Absent", "Committed"}
    /\ LET live  == {a \in AttemptsOf(c) : ~is_terminal_state(attempts[a].state)}
           moved == {a \in live : ~FailRefused(a, "Cancelled")}
       IN  /\ attempts' = [a \in AttemptIds |->
                 IF a \in moved THEN FailedAttempt(a, "Cancelled")
                 ELSE IF a \in AttemptsOf(c) THEN [attempts[a] EXCEPT !.revoked = TRUE]
                 ELSE attempts[a]]
           /\ workers' = [w \in Workers |->
                 Release(workers, w, Cardinality({a \in moved : attempts[a].worker = w}))[w]]
           /\ controls' = controls \cup {[kind |-> "CancelAttempt", attempt |-> a] : a \in live}
    /\ comps' = [comps EXCEPT ![c].state = "Cancelled"]
    /\ UNCHANGED <<epoch, sessions, nextSession, nextAttempt, commits, nextCommit, authoritative,
                   cacheIndex, job, lockVars>>

\* disconnect_session: the session is closed; if its boot was replaced that is all.
\* The coordinator process calls it once, when it reaps the connection.
disconnect_session(s) ==
    /\ MutexFree
    /\ find_session(s) /\ sessions[s].open
    /\ sessions' = [sessions EXCEPT ![s].open = FALSE]
    /\ IF current_boot(s)
       THEN /\ dropping' = s
            /\ dropTodo' = {a \in AttemptIds :
                              /\ attempts[a].worker = sessions[s].worker
                              /\ attempts[a].boot = sessions[s].boot
                              /\ ~is_terminal_state(attempts[a].state)}
       ELSE UNCHANGED <<dropping, dropTodo>>
    /\ UNCHANGED <<epoch, workers, nextSession, transactionVars, pumpTodo>>

\* The code given to an attempt whose session is lost.
LossCode(state) ==
    IF state \in {"Running", "Preparing", "Produced", "Validating"} THEN "Ambiguous" ELSE "Fenced"

\* One iteration of its loop over state.attempts, in id order.  The result of
\* fail_attempt_locked is ignored; the compilation is rescheduled regardless.
disconnect_attempt(a) ==
    /\ dropping # 0
    /\ a \in dropTodo /\ \A b \in dropTodo : a <= b
    /\ LET code == LossCode(attempts[a].state) IN
       /\ attempts' = [attempts EXCEPT ![a] = FailedAttempt(a, code)]
       /\ workers' = FailedWorkers(a, code)
       /\ schedule_retry_or_fail(attempts[a].comp, code)
    /\ dropTodo' = dropTodo \ {a}
    /\ UNCHANGED <<epoch, sessions, nextSession, nextAttempt, commits, nextCommit, authoritative,
                   cacheIndex, controls, pumpTodo, dropping>>

\* fence_worker, revoke_leases_for included, ends disconnect_session.
fence_worker(w) ==
    /\ dropping # 0 /\ dropTodo = {}
    /\ w = sessions[dropping].worker
    /\ workers' = [workers EXCEPT ![w] =
          [workers[w] EXCEPT !.fenced = TRUE, !.ready = FALSE, !.gen = @ + 1, !.inflight = 0,
                             !.session = 0, !.evidence = FALSE]]
    /\ attempts' = [a \in AttemptIds |->
          IF attempts[a].worker = w THEN [attempts[a] EXCEPT !.revoked = TRUE] ELSE attempts[a]]
    /\ dropping' = 0
    /\ UNCHANGED <<epoch, sessions, nextSession, comps, nextAttempt, commits, nextCommit,
                   authoritative, cacheIndex, job, controls, pumpTodo, dropTodo>>

\* The cache index decode_state rebuilds: it keeps the first entry of a unit,
\* because the generation of a later one is never greater.
DecodedCacheIndex(c) ==
    LET IsFirst(k) == commits[k].comp = c /\ \A j \in 1..(k - 1) : commits[j].comp # c
    IN  IF \E k \in CommitIds : IsFirst(k) THEN CHOOSE k \in CommitIds : IsFirst(k) ELSE 0

\* How open() reclassifies what it loaded: no worker keeps its readiness or its
\* evidence, no lease survives, no attempt keeps its authority, and a compilation
\* is either committed, given up or queued again.
RecoveredWorker(w) ==
    IF workers[w].boot = 0 THEN workers[w]
    ELSE [workers[w] EXCEPT !.fenced = TRUE, !.ready = FALSE, !.inflight = 0, !.session = 0,
                            !.evidence = FALSE]
RecoveredAttempt_mutant_assigned(a) ==
    IF attempts[a].state = "Absent" THEN attempts[a]
    ELSE [attempts[a] EXCEPT !.revoked = TRUE, !.window = FALSE,
              !.state = IF holds_commit_authority(@) /\ @ # "Assigned" THEN "Ambiguous" ELSE @]
RecoveredAttempt_mutant_lease(a) ==
    IF attempts[a].state = "Absent" THEN attempts[a]
    ELSE [attempts[a] EXCEPT !.window = FALSE,
                             !.state = IF holds_commit_authority(@) THEN "Ambiguous" ELSE @]
RecoveredAttempt(a) ==
    IF attempts[a].state = "Absent" THEN attempts[a]
    ELSE [attempts[a] EXCEPT !.revoked = TRUE, !.window = FALSE,
                             !.state = IF holds_commit_authority(@) THEN "Ambiguous" ELSE @]
RecoveredCompilation_mutant_hit(c) ==
    IF comps[c].state = "CacheHit" THEN [comps[c] EXCEPT !.state = "Committed"] ELSE comps[c]
RecoveredCompilation(c) ==
    IF comps[c].state \in {"Absent", "Committed", "Cancelled", "Failed"} THEN comps[c]
    ELSE IF authoritative[c] # 0 THEN [comps[c] EXCEPT !.state = "Committed"]
    ELSE [comps[c] EXCEPT !.state = "Pending", !.hit = FALSE]

\* close() writes a snapshot and open() loads it in a new process: nothing is lost
\* but the threads inside report_output.  Crashes are the subject of Recovery.
restart ==
    /\ MutexFree
    /\ epoch < MaxEpoch
    /\ epoch' = epoch + 1
    /\ workers' = [w \in Workers |-> RecoveredWorker(w)]
    /\ attempts' = [a \in AttemptIds |-> RecoveredAttempt(a)]
    /\ comps' = [c \in Compilations |-> RecoveredCompilation(c)]
    /\ cacheIndex' = [c \in Compilations |-> DecodedCacheIndex(c)]
    /\ controls' = {}
    /\ UNCHANGED <<sessions, nextSession, nextAttempt, commits, nextCommit, authoritative, job,
                   lockVars>>
-----------------------------------------------------------------------------
\* drain_controls, shutdown_sessions and heartbeat change nothing the transaction
\* reads: a control message is acted on at any time after it is queued, or never.
Pumping(c) ==
    \/ pump_skip(c)
    \/ pump_defer(c)
    \/ \E w \in Workers : pump_assign(c, w)
    \/ \E w, v \in Workers : pump_assign_pair(c, w, v)

Reporting(a) ==
    \/ report_abandon(a)
    \/ report_stale(a)
    \/ commit_invalid(a)
    \/ commit_duplicate(a)
    \/ commit_divergent(a)
    \/ commit_refused(a)
    \/ commit_first(a)

Disconnecting ==
    \/ \E a \in AttemptIds : disconnect_attempt(a)
    \/ \E w \in Workers : fence_worker(w)

SessionStep(s) ==
    \/ \E e \in Evidence : advertise_capabilities(s, e)
    \/ mark_ready(s)
    \/ handle_validate_response(s)
    \/ disconnect_session(s)

AttemptStep(a) ==
    \/ begin_compile(a)
    \/ \E s \in SessionIds, d \in Digests : report_reserve(s, a, d)
    \/ Reporting(a)
    \/ \E s \in SessionIds, code \in FailCodes : fail_attempt(s, a, code)

Next ==
    \/ \E force \in BOOLEAN : submit(force)
    \/ \E w \in Workers, b \in 1..MaxBoot, e \in Evidence : register_worker(w, b, e)
    \/ \E s \in SessionIds : SessionStep(s)
    \/ pump
    \/ \E c \in Compilations : Pumping(c)
    \/ \E a \in AttemptIds : AttemptStep(a)
    \/ \E c \in Compilations : cancel(c)
    \/ Disconnecting
    \/ restart

Spec == Init /\ [][Next]_vars
-----------------------------------------------------------------------------
(***************************************************************************)
(* Properties.                                                             *)
(***************************************************************************)
WorkerRecord ==
    [boot : Nat, gen : Nat, session : SessionIds \cup {0}, fenced : BOOLEAN, evidence : BOOLEAN,
     ready : BOOLEAN, inflight : Nat]
SessionRecord == [worker : Workers \cup {Null}, boot : Nat, epoch : Nat, open : BOOLEAN]
CompilationRecord ==
    [state : CompStates, gen : Nat, ordinal : Nat, hit : BOOLEAN, violation : BOOLEAN,
     divergent : SUBSET Digests]
JobRecord == [committed : BOOLEAN, failure : {"Ok", "FanInIncomplete"}]
ControlMessage == [kind : {"CancelAttempt", "CommitNotification"}, attempt : AttemptIds]
AttemptRecord ==
    [comp : Compilations \cup {Null}, gen : Nat, ordinal : Nat, worker : Workers \cup {Null},
     boot : Nat, wgen : Nat, epoch : Nat, speculative : BOOLEAN, state : AttemptStates, cand : Digests \cup {Null},
     revoked : BOOLEAN, window : BOOLEAN]
CommitRecord ==
    [comp : Compilations \cup {Null}, gen : Nat, attempt : Nat, digest : Digests \cup {Null},
     epoch : Nat, superseded : BOOLEAN, invalidated : BOOLEAN]

\* Every variable has the type the fields of detail::State have.
TypeOK ==
    /\ epoch \in Nat
    /\ workers \in [Workers -> WorkerRecord]
    /\ sessions \in [SessionIds -> SessionRecord]
    /\ nextSession \in Nat \ {0}
    /\ comps \in [Compilations -> CompilationRecord]
    /\ attempts \in [AttemptIds -> AttemptRecord]
    /\ nextAttempt \in Nat \ {0}
    /\ commits \in [CommitIds -> CommitRecord]
    /\ nextCommit \in Nat \ {0}
    /\ authoritative \in [Compilations -> CommitIds \cup {0}]
    /\ cacheIndex \in [Compilations -> CommitIds \cup {0}]
    /\ job \in JobRecord
    /\ controls \subseteq ControlMessage
    /\ pumpTodo \subseteq Compilations
    /\ dropping \in SessionIds \cup {0}
    /\ dropTodo \subseteq AttemptIds

\* The authority table is exact: a compilation is bound to a commit if and only if
\* that commit is its one live (not superseded) commit, made at the compilation's
\* current generation.  Every interleaving of speculative siblings, force_rebuild,
\* cancellation, session loss and restart with the unlocked window of
\* report_output keeps it so.
AuthorityExact ==
    \A c \in Compilations, k \in CommitIds :
        /\ authoritative[c] = k <=> commits[k].comp = c /\ ~commits[k].superseded
        /\ authoritative[c] = k => commits[k].gen = comps[c].gen

\* At most one commit succeeds for one compilation identity and generation.
OneCommitPerGeneration ==
    \A j, k \in CommitIds :
        commits[j].comp # Null /\ commits[j].comp = commits[k].comp /\ commits[j].gen = commits[k].gen
            => j = k

\* An attempt is Committed only if its candidate is the artifact committed for its
\* compilation and generation: deduplication never accepts a different artifact.
CommittedAttemptsAgree ==
    \A a \in AttemptIds : attempts[a].state = "Committed" =>
        \E k \in CommitIds : /\ commits[k].comp = attempts[a].comp
                             /\ commits[k].gen = attempts[a].gen
                             /\ commits[k].digest = attempts[a].cand

\* A compilation shown as Committed has an authoritative commit to serve.
CommittedHasAuthority ==
    \A c \in Compilations : comps[c].state = "Committed" => authoritative[c] # 0

\* Authority once lost does not return: an attempt that is terminal or Ambiguous
\* stays as it is, whatever its late messages and its pending report do.
LostAuthorityIsFinal ==
    [][\A a \in AttemptIds :
         is_terminal_state(attempts[a].state) \/ attempts[a].state = "Ambiguous"
             => attempts'[a].state = attempts[a].state]_vars

\* Two attempts hold authority over one compilation only as the speculative pair
\* one pump created, on two workers.
OnlySpeculativeSiblings ==
    \A a, b \in AttemptIds :
        /\ a < b
        /\ attempts[a].comp = attempts[b].comp
        /\ holds_commit_authority(attempts[a].state)
        /\ holds_commit_authority(attempts[b].state)
        => /\ Speculative /\ attempts[b].speculative /\ ~attempts[a].speculative
           /\ attempts[b].ordinal = attempts[a].ordinal + 1
           /\ attempts[a].worker # attempts[b].worker

\* The lease of an attempt that lost its authority, of a fenced worker and of an
\* earlier epoch is revoked.
StaleLeasesRevoked ==
    \A a \in AttemptIds :
        \/ is_terminal_state(attempts[a].state)
        \/ attempts[a].state = "Ambiguous"
        \/ attempts[a].worker # Null /\ workers[attempts[a].worker].fenced
        \/ attempts[a].state # "Absent" /\ attempts[a].epoch # epoch
        => attempts[a].revoked

\* What is recorded as divergent differs from the artifact that is authoritative
\* now, and a reproducibility violation is only recorded under REQUIRED and with
\* the divergent candidate that proves it.
DivergenceIsReal ==
    \A c \in Compilations :
        /\ \A d \in comps[c].divergent :
               authoritative[c] # 0 /\ commits[authoritative[c]].digest # d
        /\ comps[c].violation => ReproRequired /\ comps[c].divergent # {}

\* The fan-in gate: a link unit is only attempted when each of its children has an
\* authoritative commit of the child's current generation.  The gate is opened by
\* the states of the children, which the cache and force_rebuild also move.
FanInGate ==
    [][\A a \in AttemptIds :
         attempts[a].state = "Absent" /\ attempts'[a].state # "Absent" =>
           \A d \in Children[attempts'[a].comp] :
               authoritative[d] # 0 /\ commits[authoritative[d]].gen = comps[d].gen]_vars

\* A job reported as committed has, for each of its units, an artifact that was
\* committed at some time: neither the cache, a cancellation nor a restart can make
\* a job look finished that is not.
CommittedJobHasArtifacts ==
    job.committed => \A c \in Compilations : \E k \in CommitIds : commits[k].comp = c

\* Authority ends with the epoch it was given in: an attempt of an earlier epoch
\* holds none, and a commit is made in the epoch of its attempt.
NoAuthorityAcrossRestart ==
    /\ \A a \in AttemptIds : holds_commit_authority(attempts[a].state) => attempts[a].epoch = epoch
    /\ \A k \in CommitIds : commits[k].comp # Null => attempts[commits[k].attempt].epoch = commits[k].epoch

\* Work is only handed to a proven worker: when an attempt appears, its worker is
\* not fenced, is ready, has evidence for its capabilities and an open session of
\* this epoch that speaks for the boot the attempt is bound to.  Registrations,
\* advertisements, session losses and restarts in any order cannot leave a worker
\* record that pump() would mistake for a live worker.
AssignedToProvenWorker ==
    [][\A a \in AttemptIds :
         attempts[a].state = "Absent" /\ attempts'[a].state # "Absent" =>
           LET w == attempts'[a].worker
               s == workers[w].session
           IN  /\ ~workers[w].fenced /\ workers[w].ready /\ workers[w].evidence
               /\ s \in SessionIds /\ find_session(s) /\ sessions[s].open
               /\ sessions[s].worker = w /\ sessions[s].boot = attempts'[a].boot]_vars
-----------------------------------------------------------------------------
(***************************************************************************)
(* The inductive invariant behind AuthorityExact, OneCommitPerGeneration   *)
(* and the refinement.                                                     *)
(***************************************************************************)
\* Commit ids are handed out in order and a commit record is never removed.
CommitIdsInUse == \A k \in CommitIds : commits[k].comp # Null <=> k < nextCommit

\* A commit belongs to a generation its compilation has reached, and a superseded
\* one to a generation it has left.
CommitGenerations ==
    \A k \in CommitIds : commits[k].comp # Null =>
        /\ commits[k].digest \in Digests
        /\ commits[k].gen # 0
        /\ commits[k].gen <= comps[commits[k].comp].gen
        /\ commits[k].superseded => commits[k].gen < comps[commits[k].comp].gen

\* A submitted compilation has a generation.
SubmittedHasGeneration == \A c \in Compilations : comps[c].state # "Absent" <=> comps[c].gen # 0

\* An attempt is bound to a submitted compilation and a worker, and one inside
\* report_output has a candidate.
AttemptsBound ==
    \A a \in AttemptIds :
        /\ attempts[a].state = "Absent" => attempts[a].worker = Null /\ ~attempts[a].window
        /\ attempts[a].state # "Absent" => /\ attempts[a].comp \in Compilations
                                          /\ attempts[a].worker \in Workers
                                          /\ comps[attempts[a].comp].state # "Absent"
        /\ attempts[a].window => attempts[a].cand \in Digests

\* What a running pump() or disconnect_session has yet to visit exists.
WorkExists ==
    /\ \A c \in pumpTodo : comps[c].state # "Absent"
    /\ \A a \in dropTodo : attempts[a].state # "Absent"

\* The inductive invariant: authority is exact, and why it stays so.
Inductive ==
    /\ TypeOK
    /\ AuthorityExact
    /\ OneCommitPerGeneration
    /\ CommittedHasAuthority
    /\ CommitIdsInUse
    /\ CommitGenerations
    /\ SubmittedHasGeneration
    /\ AttemptsBound
    /\ WorkExists
-----------------------------------------------------------------------------
(***************************************************************************)
(* The inductive invariant behind the other safety properties: what holds  *)
(* of the attempts, of their leases and of the sessions they came from.    *)
(***************************************************************************)
\* Attempt ids are handed out in order and an attempt is never removed, so the id
\* build_assignment takes belongs to nobody.
AttemptIdsInUse == \A a \in AttemptIds : attempts[a].state # "Absent" <=> a < nextAttempt

\* A commit was made by an attempt that is still on record.
CommitsAreOfAttempts ==
    \A k \in CommitIds : commits[k].comp # Null =>
        commits[k].attempt \in AttemptIds /\ attempts[commits[k].attempt].state # "Absent"

\* The cache index leads to commits of its unit, and what was served from it was committed.
CacheIsOfCommits ==
    \A c \in Compilations :
        /\ cacheIndex[c] # 0 => commits[cacheIndex[c]].comp = c
        /\ comps[c].state = "CacheHit" => \E k \in CommitIds : commits[k].comp = c

\* The session of a worker record was opened in this epoch by the boot on record.
SessionsAreOfBoots ==
    \A w \in Workers :
        /\ workers[w].boot = 0 => workers[w].session = 0
        /\ workers[w].session # 0 =>
               LET s == sessions[workers[w].session]
               IN  /\ workers[w].session < nextSession
                   /\ s.worker = w /\ s.boot = workers[w].boot /\ s.epoch = epoch

\* Inductive and what the safety properties of attempts, cache and sessions add to it.
Consistent ==
    /\ Inductive
    /\ AttemptIdsInUse
    /\ CommitsAreOfAttempts
    /\ CacheIsOfCommits
    /\ SessionsAreOfBoots
    /\ CommittedAttemptsAgree
    /\ OnlySpeculativeSiblings
    /\ StaleLeasesRevoked
    /\ DivergenceIsReal
    /\ CommittedJobHasArtifacts
    /\ NoAuthorityAcrossRestart
-----------------------------------------------------------------------------
(***************************************************************************)
(* The refinement: generations and commit records are the abstract state.  *)
(***************************************************************************)
Abstract ==
    INSTANCE ArtifactAuthority WITH
        generation <- [c \in Compilations |-> comps[c].gen],
        committed  <- {<<commits[k].comp, commits[k].gen, commits[k].digest>> :
                           k \in {j \in CommitIds : commits[j].comp # Null}}

\* Every behaviour of the coordinator is one of ArtifactAuthority: exactly-once
\* logical commit, whatever physically happens to the attempts.
ImplementsArtifactAuthority == Abstract!Spec
=============================================================================
