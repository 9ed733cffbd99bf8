------------------------ MODULE CoordinatorSafetyProofs ------------------------
(***************************************************************************)
(* Machine-checked proofs about Coordinator: how attempts and commits      *)
(* evolve, leases, divergence, the cache, finished jobs and worker         *)
(* sessions.  An attempt's authority is lost for good, ends with its epoch *)
(* and with its lease, is shared by speculative siblings only, and is      *)
(* given to proven workers over authoritative children.  Consistent is     *)
(* shown to be inductive, conjunct by conjunct.                            *)
(***************************************************************************)
EXTENDS CoordinatorProofs

-----------------------------------------------------------------------------
(***************************************************************************)
(* How one step treats one attempt: it appears, bound to a worker, or it    *)
(* keeps what it is bound to and moves forward in its life cycle.           *)
(***************************************************************************)
Lost(state) == is_terminal_state(state) \/ state = "Ambiguous"

SameBinding(old, new) ==
    /\ new.comp = old.comp /\ new.gen = old.gen /\ new.ordinal = old.ordinal
    /\ new.worker = old.worker /\ new.boot = old.boot /\ new.epoch = old.epoch
    /\ new.speculative = old.speculative

\* An attempt moves on with its authority, or loses it and its lease.
Follows(old, new) ==
    /\ SameBinding(old, new)
    /\ old.revoked => new.revoked
    /\ \/ new.state = old.state /\ new.cand = old.cand
       \/ holds_commit_authority(old.state) /\ holds_commit_authority(new.state)
       \/ /\ old.state # "Absent" /\ ~Lost(old.state)
          /\ Lost(new.state) /\ new.revoked /\ new.cand = old.cand

\* It ends Committed only through commit_locked, and holds authority only within an epoch.
Evolves(a) ==
    /\ Follows(attempts[a], attempts'[a])
    /\ attempts'[a].state = "Committed" =>
           attempts[a].state = "Committed" \/ commit_duplicate(a) \/ commit_first(a)
    /\ holds_commit_authority(attempts'[a].state) => epoch' = epoch

\* A handler that creates no attempt.
Evolving == nextAttempt' = nextAttempt /\ \A a \in AttemptIds : Evolves(a)

\* build_assignment for a visited unit and one eligible worker, or a pair of them.
Assigning(c, w, v, pair) ==
    /\ Assignable(c) /\ epoch' = epoch
    /\ w \in eligible_workers
    /\ pair => Speculative /\ v \in eligible_workers /\ v # w
    /\ nextAttempt' = nextAttempt + (IF pair THEN 2 ELSE 1)
    /\ \A a \in AttemptIds :
           attempts'[a] = IF a = nextAttempt THEN NewAttempt(c, w, comps[c].ordinal + 1, FALSE)
                          ELSE IF pair /\ a = nextAttempt + 1
                               THEN NewAttempt(c, v, comps[c].ordinal + 2, TRUE)
                          ELSE attempts[a]

\* The states an attempt is in after losing its authority.
LEMMA LostStates ==
    ASSUME NEW state
    PROVE  /\ Lost(state) => ~holds_commit_authority(state) /\ state # "Absent"
           /\ holds_commit_authority(state) => ~Lost(state) /\ state # "Absent"
           /\ Lost("Committed") /\ Lost("Failed") /\ Lost("Fenced") /\ Lost("Ambiguous") /\ Lost("Cancelled")
  BY DEF Lost, is_terminal_state, holds_commit_authority

\* The states fail_attempt_locked and the fencing of a late report lead to.
LEMMA FailureIsLost ==
    ASSUME NEW code
    PROVE  failure_state(code) \in {"Fenced", "Cancelled", "Ambiguous", "Failed"}
  BY DEF failure_state

\* No legal transition leads out of the lost states but into Retired.
LEMMA LostIsLost ==
    ASSUME NEW from, NEW to \in {"Fenced", "Cancelled", "Ambiguous", "Failed", "Validating"},
           transition_ok(from, to), from # to
    PROVE  ~Lost(from) /\ from # "Absent"
  BY DEF transition_ok, is_legal_transition, LegalTransitions, Lost, is_terminal_state

\* An attempt that is not touched.
LEMMA Untouched ==
    ASSUME NEW r
    PROVE  Follows(r, r)
  BY DEF Follows, SameBinding

\* fail_attempt_locked moves an attempt forward.
LEMMA FailedFollows ==
    ASSUME TypeOK, NEW a \in AttemptIds, NEW code
    PROVE  /\ Follows(attempts[a], FailedAttempt(a, code))
           /\ Follows(attempts[a], [FailedAttempt(a, code) EXCEPT !.window = FALSE])
           /\ FailedAttempt(a, code).state = "Committed" => attempts[a].state = "Committed"
           /\ [FailedAttempt(a, code) EXCEPT !.window = FALSE].state = FailedAttempt(a, code).state
<1>. DEFINE to == failure_state(code)
            st == IF transition_ok(attempts[a].state, to) THEN to ELSE attempts[a].state
            r  == [attempts[a] EXCEPT !.state = st, !.revoked = TRUE]
<1>1. attempts[a] \in AttemptRecord
  BY DEF TypeOK
<1>2. FailedAttempt(a, code) = attempts[a] \/ FailedAttempt(a, code) = r
  BY DEF FailedAttempt
<1>3. st # attempts[a].state => st = to /\ Lost(st) /\ st # "Committed"
                                /\ ~Lost(attempts[a].state) /\ attempts[a].state # "Absent"
  BY FailureIsLost, LostIsLost, LostStates
<1>4. /\ SameBinding(attempts[a], r) /\ r.state = st /\ r.revoked /\ r.cand = attempts[a].cand
      /\ SameBinding(attempts[a], [r EXCEPT !.window = FALSE])
      /\ [r EXCEPT !.window = FALSE].state = st /\ [r EXCEPT !.window = FALSE].revoked
      /\ [r EXCEPT !.window = FALSE].cand = attempts[a].cand
  <2>. HIDE DEF st
  <2>. QED BY <1>1 DEF AttemptRecord, SameBinding
<1>5. /\ SameBinding(attempts[a], [attempts[a] EXCEPT !.window = FALSE])
      /\ [attempts[a] EXCEPT !.window = FALSE].state = attempts[a].state
      /\ [attempts[a] EXCEPT !.window = FALSE].revoked = attempts[a].revoked
      /\ [attempts[a] EXCEPT !.window = FALSE].cand = attempts[a].cand
  BY <1>1 DEF AttemptRecord, SameBinding
<1>6. CASE FailedAttempt(a, code) = attempts[a]
  BY <1>5, <1>6, Untouched DEF Follows
<1>7. CASE FailedAttempt(a, code) = r
  <2>. HIDE DEF r, st
  <2>. QED BY <1>3, <1>4, <1>7 DEF Follows
<1>. QED BY <1>2, <1>6, <1>7

\* A handler that touches no attempt.
LEMMA NoneFollows ==
    ASSUME UNCHANGED <<attempts, nextAttempt, epoch>>
    PROVE  Evolving
  BY Untouched DEF Evolving, Evolves

\* A handler that moves one attempt forward.
LEMMA OneFollows ==
    ASSUME TypeOK, NEW a \in AttemptIds, NEW r, attempts' = [attempts EXCEPT ![a] = r],
           Follows(attempts[a], r), UNCHANGED <<nextAttempt, epoch>>,
           r.state = "Committed" => attempts[a].state = "Committed" \/ commit_duplicate(a) \/ commit_first(a)
    PROVE  Evolving
<1>1. \A b \in AttemptIds : attempts'[b] = IF b = a THEN r ELSE attempts[b]
  BY DEF TypeOK
<1>. QED BY <1>1, Untouched DEF Evolving, Evolves

\* The messages of a worker about an attempt, before a report is decided.
LEMMA AttemptFollows ==
    ASSUME Inductive, NEW a \in AttemptIds, NEW s, NEW d, NEW code,
           \/ begin_compile(a)
           \/ report_reserve(s, a, d)
           \/ report_abandon(a)
           \/ report_stale(a)
           \/ fail_attempt(s, a, code)
    PROVE  Evolving
<1>1. TypeOK /\ AttemptsBound
  BY DEF Inductive
<1>2. attempts[a] \in AttemptRecord
  BY <1>1 DEF TypeOK
<1>3. UNCHANGED <<nextAttempt, epoch>>
  BY DEF begin_compile, report_reserve, report_abandon, report_stale, fail_attempt
<1>. DEFINE q == attempts[a]
<1>4. CASE begin_compile(a)
  <2>. DEFINE r == [q EXCEPT !.state = "Preparing", !.cand = q.cand, !.revoked = q.revoked,
                             !.window = q.window]
  <2>1. attempts' = [attempts EXCEPT ![a] = r]
    BY <1>1, <1>2, <1>4 DEF begin_compile, TypeOK, AttemptRecord
  <2>2. SameBinding(q, r) /\ r.state = "Preparing" /\ r.cand = q.cand /\ r.revoked = q.revoked
    BY <1>2 DEF AttemptRecord, SameBinding
  <2>. HIDE DEF r
  <2>3. Follows(attempts[a], r)
    BY <1>4, <2>2 DEF begin_compile, holds_commit_authority, Follows
  <2>. QED BY <1>1, <1>3, <2>1, <2>2, <2>3, OneFollows
<1>5. CASE report_reserve(s, a, d)
  <2>. DEFINE r == [q EXCEPT !.state = "Produced", !.cand = d, !.revoked = q.revoked, !.window = TRUE]
  <2>1. attempts' = [attempts EXCEPT ![a] = r]
    BY <1>1, <1>2, <1>5 DEF report_reserve, TypeOK, AttemptRecord
  <2>2. SameBinding(q, r) /\ r.state = "Produced" /\ r.cand = d /\ r.revoked = q.revoked
    BY <1>2 DEF AttemptRecord, SameBinding
  <2>. HIDE DEF r
  <2>3. Follows(attempts[a], r)
    BY <1>5, <2>2 DEF report_reserve, holds_commit_authority, Follows
  <2>. QED BY <1>1, <1>3, <2>1, <2>2, <2>3, OneFollows
<1>6. CASE report_abandon(a)
  <2>. DEFINE r == [q EXCEPT !.state = q.state, !.cand = q.cand, !.revoked = q.revoked, !.window = FALSE]
  <2>1. attempts' = [attempts EXCEPT ![a] = r]
    BY <1>1, <1>2, <1>6 DEF report_abandon, TypeOK, AttemptRecord
  <2>2. SameBinding(q, r) /\ r.state = q.state /\ r.cand = q.cand /\ r.revoked = q.revoked
    BY <1>2 DEF AttemptRecord, SameBinding
  <2>. HIDE DEF r
  <2>3. Follows(attempts[a], r)
    BY <2>2 DEF Follows
  <2>. QED BY <1>1, <1>3, <2>1, <2>2, <2>3, OneFollows
<1>7. CASE report_stale(a)
  <2>. DEFINE moved == transition_ok(q.state, "Fenced")
              st == IF moved THEN "Fenced" ELSE q.state
              rev == q.revoked \/ moved
              r == [q EXCEPT !.state = st, !.cand = q.cand, !.revoked = rev, !.window = FALSE]
  <2>1. attempts' = [attempts EXCEPT ![a] = r]
    <3>1. attempts' = [attempts EXCEPT ![a] = [q EXCEPT !.window = FALSE, !.state = st, !.revoked = rev]]
      BY <1>7 DEF report_stale
    <3>2. r = [q EXCEPT !.window = FALSE, !.state = st, !.revoked = rev]
      <4>. HIDE DEF st, rev
      <4>. QED BY <1>2 DEF AttemptRecord
    <3>. QED BY <3>1, <3>2
  <2>2. st # q.state => moved /\ ~Lost(q.state) /\ q.state # "Absent" /\ Lost(st) /\ rev
    BY LostIsLost, LostStates
  <2>3. q.revoked => rev
    OBVIOUS
  <2>4. st = "Committed" => q.state = "Committed"
    OBVIOUS
  <2>. HIDE DEF st, rev
  <2>5. SameBinding(q, r) /\ r.state = st /\ r.cand = q.cand /\ r.revoked = rev
    BY <1>2 DEF AttemptRecord, SameBinding
  <2>. HIDE DEF r
  <2>6. Follows(attempts[a], r)
    BY <2>2, <2>3, <2>5 DEF Follows
  <2>. QED BY <1>1, <1>3, <2>1, <2>4, <2>5, <2>6, OneFollows
<1>8. CASE fail_attempt(s, a, code)
  <2>1. attempts' = [attempts EXCEPT ![a] = FailedAttempt(a, code)]
    BY <1>8 DEF fail_attempt
  <2>. QED BY <1>1, <1>3, <2>1, FailedFollows, OneFollows
<1>. QED BY <1>4, <1>5, <1>6, <1>7, <1>8

\* commit_locked.
LEMMA ReportFollows ==
    ASSUME Inductive, NEW a \in AttemptIds,
           \/ commit_invalid(a)
           \/ commit_duplicate(a)
           \/ commit_divergent(a)
           \/ commit_refused(a)
           \/ commit_first(a)
    PROVE  Evolving
<1>1. TypeOK /\ AttemptsBound
  BY DEF Inductive
<1>2. attempts[a] \in AttemptRecord
  BY <1>1 DEF TypeOK
<1>3. UNCHANGED <<nextAttempt, epoch>>
  BY DEF commit_invalid, commit_duplicate, commit_divergent, commit_refused, commit_first
<1>. DEFINE q == attempts[a]
<1>4. CASE \E code : CandidateFailed(a, code)
  <2>1. PICK code : CandidateFailed(a, code)
    BY <1>4
  <2>2. attempts' = [attempts EXCEPT ![a] = [FailedAttempt(a, code) EXCEPT !.window = FALSE]]
    BY <2>1 DEF CandidateFailed
  <2>. QED BY <1>1, <1>3, <2>2, FailedFollows, OneFollows
<1>5. CASE \/ commit_duplicate(a) /\ q.state = "Produced"
           \/ commit_first(a)
  <2>. DEFINE r == [q EXCEPT !.state = "Committed", !.cand = q.cand, !.revoked = TRUE, !.window = FALSE]
  <2>1. attempts' = [attempts EXCEPT ![a].state = "Committed", ![a].revoked = TRUE, ![a].window = FALSE]
    BY <1>5 DEF commit_duplicate, commit_first
  <2>2. attempts' = [attempts EXCEPT ![a] = r]
    BY <1>1, <1>2, <2>1 DEF TypeOK, AttemptRecord
  <2>3. q.state = "Produced" \/ transition_ok(q.state, "Validating")
    BY <1>5 DEF commit_first
  <2>4. q.state # "Absent" /\ ~Lost(q.state)
    BY <2>3, LostIsLost DEF Lost, is_terminal_state
  <2>5. SameBinding(q, r) /\ r.state = "Committed" /\ r.cand = q.cand /\ r.revoked = TRUE
    BY <1>2 DEF AttemptRecord, SameBinding
  <2>. HIDE DEF r
  <2>6. Follows(attempts[a], r)
    BY <2>4, <2>5, LostStates DEF Follows
  <2>7. commit_duplicate(a) \/ commit_first(a)
    BY <1>5
  <2>. QED BY <1>1, <1>3, <2>2, <2>5, <2>6, <2>7, OneFollows
<1>6. CASE commit_refused(a)
  <2>. DEFINE r == [q EXCEPT !.state = q.state, !.cand = q.cand, !.revoked = q.revoked, !.window = FALSE]
  <2>1. attempts' = [attempts EXCEPT ![a] = r]
    BY <1>1, <1>2, <1>6 DEF commit_refused, TypeOK, AttemptRecord
  <2>2. SameBinding(q, r) /\ r.state = q.state /\ r.cand = q.cand /\ r.revoked = q.revoked
    BY <1>2 DEF AttemptRecord, SameBinding
  <2>. HIDE DEF r
  <2>3. Follows(attempts[a], r)
    BY <2>2 DEF Follows
  <2>. QED BY <1>1, <1>3, <2>1, <2>2, <2>3, OneFollows
<1>. QED BY <1>4, <1>5, <1>6 DEF commit_invalid, commit_duplicate, commit_divergent

\* cancel(), the steps of disconnect_session, and close() followed by open().
LEMMA LossFollows ==
    ASSUME Inductive,
           \/ \E c \in Compilations : cancel(c)
           \/ Disconnecting
           \/ restart
    PROVE  Evolving
<1>1. TypeOK /\ AttemptsBound /\ \A a \in AttemptIds : attempts[a] \in AttemptRecord
  BY DEF Inductive, TypeOK
<1>2. ASSUME NEW a \in AttemptIds
      PROVE  LET r == [attempts[a] EXCEPT !.revoked = TRUE]
             IN  Follows(attempts[a], r) /\ r.state = attempts[a].state
  BY <1>1 DEF AttemptRecord, SameBinding, Follows
<1>3. CASE \E c \in Compilations : cancel(c)
  <2>1. nextAttempt' = nextAttempt /\ epoch' = epoch
    BY <1>3 DEF cancel
  <2>2. ASSUME NEW a \in AttemptIds PROVE Evolves(a)
    <3>1. attempts'[a] \in {FailedAttempt(a, "Cancelled"), [attempts[a] EXCEPT !.revoked = TRUE], attempts[a]}
      BY <1>3 DEF cancel
    <3>2. CASE attempts'[a] = FailedAttempt(a, "Cancelled")
      BY <1>1, <2>1, <3>2, FailedFollows DEF Evolves
    <3>3. CASE attempts'[a] = [attempts[a] EXCEPT !.revoked = TRUE]
      BY <1>2, <2>1, <3>3 DEF Evolves
    <3>4. CASE attempts'[a] = attempts[a]
      BY <2>1, <3>4, Untouched DEF Evolves
    <3>. QED BY <3>1, <3>2, <3>3, <3>4
  <2>. QED BY <2>1, <2>2 DEF Evolving
<1>4. CASE \E a \in AttemptIds : disconnect_attempt(a)
  <2>1. PICK a \in AttemptIds : disconnect_attempt(a)
    BY <1>4
  <2>. DEFINE code == LossCode(attempts[a].state)
  <2>2. attempts' = [attempts EXCEPT ![a] = FailedAttempt(a, code)] /\ UNCHANGED <<nextAttempt, epoch>>
    BY <2>1 DEF disconnect_attempt
  <2>. HIDE DEF code
  <2>. QED BY <1>1, <2>2, FailedFollows, OneFollows
<1>5. CASE \E w \in Workers : fence_worker(w)
  <2>1. nextAttempt' = nextAttempt /\ epoch' = epoch
    BY <1>5 DEF fence_worker
  <2>2. \A a \in AttemptIds : attempts'[a] \in {attempts[a], [attempts[a] EXCEPT !.revoked = TRUE]}
    BY <1>5 DEF fence_worker
  <2>3. ASSUME NEW a \in AttemptIds PROVE Evolves(a)
    <3>1. CASE attempts'[a] = [attempts[a] EXCEPT !.revoked = TRUE]
      BY <1>2, <2>1, <3>1 DEF Evolves
    <3>2. CASE attempts'[a] = attempts[a]
      BY <2>1, <3>2, Untouched DEF Evolves
    <3>. QED BY <2>2, <3>1, <3>2
  <2>. QED BY <2>1, <2>3 DEF Evolving
<1>6. CASE restart
  <2>1. nextAttempt' = nextAttempt /\ \A a \in AttemptIds : attempts'[a] = RecoveredAttempt(a)
    BY <1>6 DEF restart
  <2>2. ASSUME NEW a \in AttemptIds PROVE Evolves(a)
    <3>. DEFINE q == attempts[a]
                st == IF holds_commit_authority(q.state) THEN "Ambiguous" ELSE q.state
                r == [q EXCEPT !.revoked = TRUE, !.window = FALSE, !.state = st]
    <3>1. CASE q.state = "Absent"
      <4>1. attempts'[a] = q
        BY <2>1, <3>1 DEF RecoveredAttempt
      <4>. QED BY <3>1, <4>1, Untouched, LostStates DEF Evolves
    <3>2. CASE q.state # "Absent"
      <4>1. attempts'[a] = r
        BY <2>1, <3>2 DEF RecoveredAttempt
      <4>2. st # q.state => ~Lost(q.state) /\ Lost(st)
        BY LostStates
      <4>3. ~holds_commit_authority(st) /\ (st = "Committed" => q.state = "Committed")
        BY LostStates
      <4>. HIDE DEF st
      <4>4. SameBinding(q, r) /\ r.state = st /\ r.cand = q.cand /\ r.revoked = TRUE
        BY <1>1 DEF AttemptRecord, SameBinding
      <4>. HIDE DEF r
      <4>5. Follows(q, r)
        BY <3>2, <4>2, <4>4 DEF Follows
      <4>. QED BY <4>1, <4>3, <4>4, <4>5 DEF Evolves
    <3>. QED BY <3>1, <3>2
  <2>. QED BY <2>1, <2>2 DEF Evolving
<1>. QED BY <1>3, <1>4, <1>5, <1>6 DEF Disconnecting

\* A visit of pump() that assigns.
LEMMA PumpAssigns ==
    ASSUME TypeOK, NEW c \in Compilations, NEW w \in Workers, NEW v \in Workers,
           pump_assign(c, w) \/ pump_assign_pair(c, w, v)
    PROVE  \E pair \in BOOLEAN : Assigning(c, w, v, pair)
<1>1. attempts \in [AttemptIds -> AttemptRecord] /\ nextAttempt \in Nat
  BY DEF TypeOK
<1>2. CASE pump_assign(c, w)
  <2>1. /\ Assignable(c) /\ epoch' = epoch /\ w \in eligible_workers
        /\ nextAttempt' = nextAttempt + 1
        /\ attempts' = [attempts EXCEPT ![nextAttempt] = NewAttempt(c, w, comps[c].ordinal + 1, FALSE)]
    BY <1>2 DEF pump_assign
  <2>2. \A a \in AttemptIds :
           attempts'[a] = IF a = nextAttempt THEN NewAttempt(c, w, comps[c].ordinal + 1, FALSE)
                          ELSE attempts[a]
    BY <1>1, <2>1
  <2>3. Assigning(c, w, v, FALSE)
    BY <2>1, <2>2 DEF Assigning
  <2>. QED BY <2>3
<1>3. CASE pump_assign_pair(c, w, v)
  <2>. DEFINE one == NewAttempt(c, w, comps[c].ordinal + 1, FALSE)
              two == NewAttempt(c, v, comps[c].ordinal + 2, TRUE)
  <2>1. /\ Assignable(c) /\ epoch' = epoch /\ w \in eligible_workers
        /\ Speculative /\ v \in eligible_workers /\ v # w
        /\ nextAttempt' = nextAttempt + 2
        /\ attempts' = [attempts EXCEPT ![nextAttempt] = one, ![nextAttempt + 1] = two]
    BY <1>3 DEF pump_assign_pair
  <2>. HIDE DEF one, two
  <2>2. \A a \in AttemptIds :
           attempts'[a] = IF a = nextAttempt THEN one
                          ELSE IF a = nextAttempt + 1 THEN two ELSE attempts[a]
    BY <1>1, <2>1
  <2>3. Assigning(c, w, v, TRUE)
    BY <2>1, <2>2 DEF Assigning, one, two
  <2>. QED BY <2>3
<1>. QED BY <1>2, <1>3

\* Every step moves attempts forward or is a visit of pump() that assigns.
LEMMA AttemptSteps ==
    ASSUME Inductive, [Next]_vars
    PROVE  \/ Evolving
           \/ \E c \in Compilations, w, v \in Workers, pair \in BOOLEAN : Assigning(c, w, v, pair)
<1>1. TypeOK
  BY DEF Inductive
<1>2. CASE UNCHANGED vars
  BY <1>2, NoneFollows DEF vars
<1>3. CASE \E force \in BOOLEAN : submit(force)
  BY <1>3, NoneFollows DEF submit
<1>4. CASE \E w \in Workers, b \in 1..MaxBoot, e \in Evidence : register_worker(w, b, e)
  BY <1>4, NoneFollows DEF register_worker, transactionVars
<1>5. CASE \E s \in SessionIds : SessionStep(s)
  BY <1>5, NoneFollows DEF SessionStep, advertise_capabilities, mark_ready, handle_validate_response,
                           disconnect_session, transactionVars
<1>6. CASE pump
  BY <1>6, NoneFollows DEF pump, transactionVars
<1>7. CASE \E c \in Compilations : Pumping(c)
  <2>1. PICK c \in Compilations : Pumping(c)
    BY <1>7
  <2>2. CASE pump_skip(c) \/ pump_defer(c)
    BY <2>2, NoneFollows DEF pump_skip, pump_defer, transactionVars
  <2>3. CASE \E w \in Workers : pump_assign(c, w)
    BY <1>1, <2>3, PumpAssigns
  <2>4. CASE \E w, v \in Workers : pump_assign_pair(c, w, v)
    BY <1>1, <2>4, PumpAssigns
  <2>. QED BY <2>1, <2>2, <2>3, <2>4 DEF Pumping
<1>8. CASE \E a \in AttemptIds : AttemptStep(a)
  BY <1>8, AttemptFollows, ReportFollows DEF AttemptStep, Reporting
<1>9. CASE (\E c \in Compilations : cancel(c)) \/ Disconnecting \/ restart
  BY <1>9, LossFollows
<1>. QED BY <1>2, <1>3, <1>4, <1>5, <1>6, <1>7, <1>8, <1>9 DEF Next
-----------------------------------------------------------------------------
(***************************************************************************)
(* What the steps mean for what is on record: attempt ids are fresh, and   *)
(* commits stay and are made by attempts.                                  *)
(***************************************************************************)
\* An attempt that evolves neither appears nor disappears, nor does it get authority back.
LEMMA EvolvesFacts ==
    ASSUME NEW a \in AttemptIds, Evolves(a)
    PROVE  /\ attempts'[a].state = "Absent" <=> attempts[a].state = "Absent"
           /\ holds_commit_authority(attempts'[a].state) => holds_commit_authority(attempts[a].state)
           /\ Lost(attempts[a].state) => attempts'[a].state = attempts[a].state
           /\ SameBinding(attempts[a], attempts'[a])
  BY LostStates DEF Evolves, Follows

\* The attempts build_assignment creates take the place of none.
LEMMA AssigningFacts ==
    ASSUME TypeOK, AttemptIdsInUse, NEW c, NEW w, NEW v, NEW pair \in BOOLEAN,
           Assigning(c, w, v, pair), NEW a \in AttemptIds
    PROVE  \/ attempts'[a] = attempts[a] /\ (a < nextAttempt' => a < nextAttempt)
           \/ /\ attempts[a].state = "Absent" /\ attempts'[a].state = "Assigned" /\ a < nextAttempt'
              /\ attempts'[a].comp = c /\ attempts'[a].gen = comps[c].gen
              /\ attempts'[a].epoch = epoch /\ ~attempts'[a].revoked
              /\ \E x \in eligible_workers : /\ attempts'[a].worker = x
                                             /\ attempts'[a].boot = workers[x].boot
<1>1. nextAttempt \in Nat /\ a \in Int
  BY DEF TypeOK, AttemptIds
<1>2. CASE a = nextAttempt
  <2>1. attempts'[a] = NewAttempt(c, w, comps[c].ordinal + 1, FALSE) /\ w \in eligible_workers
    BY <1>2 DEF Assigning
  <2>2. attempts[a].state = "Absent" /\ a < nextAttempt'
    BY <1>1, <1>2 DEF Assigning, AttemptIdsInUse
  <2>. QED BY <2>1, <2>2 DEF NewAttempt
<1>3. CASE pair /\ a = nextAttempt + 1
  <2>1. attempts'[a] = NewAttempt(c, v, comps[c].ordinal + 2, TRUE) /\ v \in eligible_workers
    <3>1. a # nextAttempt
      BY <1>1, <1>3
    <3>. QED BY <1>3, <3>1, ZenonT(30) DEF Assigning
  <2>2. attempts[a].state = "Absent" /\ a < nextAttempt'
    BY <1>1, <1>3 DEF Assigning, AttemptIdsInUse
  <2>. QED BY <2>1, <2>2 DEF NewAttempt
<1>4. CASE a # nextAttempt /\ ~(pair /\ a = nextAttempt + 1)
  <2>1. attempts'[a] = attempts[a]
    BY <1>4 DEF Assigning
  <2>2. a < nextAttempt' => a < nextAttempt
    BY <1>1, <1>4 DEF Assigning
  <2>. QED BY <2>1, <2>2
<1>. QED BY <1>2, <1>3, <1>4

\* Attempt ids are handed out in order.
LEMMA IdsInUse ==
    ASSUME Inductive, AttemptIdsInUse, [Next]_vars
    PROVE  AttemptIdsInUse'
<1>1. CASE Evolving
  BY <1>1, EvolvesFacts DEF AttemptIdsInUse, Evolving
<1>2. CASE \E c \in Compilations, w, v \in Workers, pair \in BOOLEAN : Assigning(c, w, v, pair)
  <2>1. PICK c \in Compilations, w \in Workers, v \in Workers, pair \in BOOLEAN : Assigning(c, w, v, pair)
    BY <1>2
  <2>2. TypeOK /\ nextAttempt' \in Nat /\ nextAttempt \in Nat /\ nextAttempt <= nextAttempt'
    BY <2>1 DEF Inductive, TypeOK, Assigning
  <2>3. ASSUME NEW a \in AttemptIds PROVE attempts'[a].state # "Absent" <=> a < nextAttempt'
    <3>1. a < nextAttempt => a < nextAttempt'
      BY <2>2 DEF AttemptIds
    <3>. QED BY <2>1, <2>2, <3>1, AssigningFacts DEF AttemptIdsInUse
  <2>. QED BY <2>3 DEF AttemptIdsInUse
<1>. QED BY <1>1, <1>2, AttemptSteps

\* An attempt on record keeps its binding, and what it lost.
LEMMA AttemptsStay ==
    ASSUME Inductive, AttemptIdsInUse, [Next]_vars, NEW a \in AttemptIds, attempts[a].state # "Absent"
    PROVE  /\ SameBinding(attempts[a], attempts'[a])
           /\ attempts'[a].state # "Absent"
           /\ Lost(attempts[a].state) => attempts'[a].state = attempts[a].state
<1>1. CASE Evolving
  BY <1>1, EvolvesFacts DEF Evolving
<1>2. CASE \E c \in Compilations, w, v \in Workers, pair \in BOOLEAN : Assigning(c, w, v, pair)
  <2>1. attempts'[a] = attempts[a]
    BY <1>2, AssigningFacts DEF Inductive
  <2>. QED BY <2>1 DEF SameBinding
<1>. QED BY <1>1, <1>2, AttemptSteps

\* A commit record is never changed in what it says, and a new one is of commit_locked.
LEMMA CommitSteps ==
    ASSUME Inductive, [Next]_vars, NEW k \in CommitIds
    PROVE  \/ /\ commits'[k].comp = commits[k].comp
              /\ commits'[k].gen = commits[k].gen
              /\ commits'[k].attempt = commits[k].attempt
              /\ commits'[k].digest = commits[k].digest
              /\ commits'[k].epoch = commits[k].epoch
           \/ /\ commits[k].comp = Null
              /\ \E a \in AttemptIds :
                     /\ commit_first(a)
                     /\ commits'[k] = [comp |-> attempts[a].comp, gen |-> comps[attempts[a].comp].gen,
                                       attempt |-> a, digest |-> attempts[a].cand, epoch |-> epoch,
                                       superseded |-> FALSE, invalidated |-> FALSE]
<1>1. commits[k] \in CommitRecord
  BY DEF Inductive, TypeOK
<1>2. CASE QuietUnits
  BY <1>2 DEF QuietUnits
<1>3. CASE \E force \in BOOLEAN : submit(force)
  <2>1. commits'[k] \in {commits[k], [commits[k] EXCEPT !.superseded = TRUE]}
    BY <1>3 DEF submit
  <2>. QED BY <1>1, <2>1 DEF CommitRecord
<1>4. CASE \E a \in AttemptIds : commit_first(a)
  <2>1. PICK a \in AttemptIds : commit_first(a)
    BY <1>4
  <2>2. CASE k = nextCommit
    <3>1. commits[k].comp = Null
      BY <2>1, <2>2, CommitFirstFacts
    <3>2. commits'[k] = [comp |-> attempts[a].comp, gen |-> comps[attempts[a].comp].gen,
                         attempt |-> a, digest |-> attempts[a].cand, epoch |-> epoch,
                         superseded |-> FALSE, invalidated |-> FALSE]
      BY <2>1, <2>2 DEF commit_first
    <3>. QED BY <2>1, <3>1, <3>2
  <2>3. CASE k # nextCommit
    <3>1. commits'[k] \in {commits[k], [commits[k] EXCEPT !.invalidated = TRUE]}
      BY <2>1, <2>3 DEF commit_first
    <3>. QED BY <1>1, <3>1 DEF CommitRecord
  <2>. QED BY <2>2, <2>3
<1>. QED BY <1>2, <1>3, <1>4, InductiveNext

\* What was committed for a unit and a generation stays committed.
LEMMA CommitsStay ==
    ASSUME Inductive, [Next]_vars, NEW k \in CommitIds, commits[k].comp # Null
    PROVE  /\ commits'[k].comp = commits[k].comp /\ commits'[k].gen = commits[k].gen
           /\ commits'[k].digest = commits[k].digest
  BY CommitSteps

-----------------------------------------------------------------------------
(***************************************************************************)
(* The attempts and the commits they made.                                 *)
(***************************************************************************)
\* A commit is of an attempt on record, in its epoch.
LEMMA AuthorityEndsWithEpoch ==
    ASSUME Inductive, AttemptIdsInUse, CommitsAreOfAttempts, NoAuthorityAcrossRestart, [Next]_vars
    PROVE  CommitsAreOfAttempts' /\ NoAuthorityAcrossRestart'
<1>1. ASSUME NEW a \in AttemptIds, holds_commit_authority(attempts'[a].state)
      PROVE  attempts'[a].epoch = epoch'
  <2>1. holds_commit_authority(attempts[a].state) => attempts[a].epoch = epoch
    BY DEF NoAuthorityAcrossRestart
  <2>2. CASE Evolving
    BY <1>1, <2>1, <2>2, EvolvesFacts DEF Evolving, Evolves, SameBinding
  <2>3. CASE \E c \in Compilations, w, v \in Workers, pair \in BOOLEAN : Assigning(c, w, v, pair)
    <3>1. epoch' = epoch
      BY <2>3 DEF Assigning
    <3>. QED BY <1>1, <2>1, <2>3, <3>1, AssigningFacts DEF Inductive
  <2>. QED BY <2>2, <2>3, AttemptSteps
<1>2. ASSUME NEW k \in CommitIds, commits'[k].comp # Null
      PROVE  /\ commits'[k].attempt \in AttemptIds
             /\ attempts'[commits'[k].attempt].state # "Absent"
             /\ attempts'[commits'[k].attempt].epoch = commits'[k].epoch
  <2>1. CASE /\ commits'[k].comp = commits[k].comp
             /\ commits'[k].attempt = commits[k].attempt
             /\ commits'[k].epoch = commits[k].epoch
    <3>1. /\ commits[k].attempt \in AttemptIds
          /\ attempts[commits[k].attempt].state # "Absent"
          /\ attempts[commits[k].attempt].epoch = commits[k].epoch
      BY <1>2, <2>1 DEF CommitsAreOfAttempts, NoAuthorityAcrossRestart
    <3>. QED BY <2>1, <3>1, AttemptsStay DEF SameBinding
  <2>2. CASE \E a \in AttemptIds : commit_first(a) /\ commits'[k].attempt = a /\ commits'[k].epoch = epoch
    <3>1. PICK a \in AttemptIds : commit_first(a) /\ commits'[k].attempt = a /\ commits'[k].epoch = epoch
      BY <2>2
    <3>2. attempts[a].state # "Absent" /\ attempts[a].epoch = epoch
      BY <3>1 DEF commit_first, validate_authority
    <3>. QED BY <3>1, <3>2, AttemptsStay DEF SameBinding
  <2>3. ASSUME NEW a \in AttemptIds,
               commits'[k] = [comp |-> attempts[a].comp, gen |-> comps[attempts[a].comp].gen,
                              attempt |-> a, digest |-> attempts[a].cand, epoch |-> epoch,
                              superseded |-> FALSE, invalidated |-> FALSE]
        PROVE  commits'[k].attempt = a /\ commits'[k].epoch = epoch
    BY <2>3
  <2>. QED BY <2>1, <2>2, <2>3, CommitSteps
<1>. QED BY <1>1, <1>2 DEF CommitsAreOfAttempts, NoAuthorityAcrossRestart

\* Accepting an equivalent artifact accepts the one that was committed.
LEMMA DuplicateAgrees ==
    ASSUME Inductive, NEW a \in AttemptIds, commit_duplicate(a)
    PROVE  \E k \in CommitIds : /\ commits[k].comp = attempts[a].comp
                                /\ commits[k].gen = attempts[a].gen
                                /\ commits[k].digest = attempts[a].cand
<1>. DEFINE c == attempts[a].comp
<1>1. c \in Compilations
  BY InWindow DEF Inductive, commit_duplicate
<1>2. authoritative[c] # 0 /\ attempts[a].gen = comps[c].gen
      /\ commits[authoritative[c]].digest = attempts[a].cand
  BY DEF commit_duplicate, has_authority, validate_authority
<1>3. PICK k \in CommitIds : authoritative[c] = k
  BY <1>1, <1>2 DEF Inductive, TypeOK
<1>4. commits[k].comp = c /\ commits[k].gen = comps[c].gen
  BY <1>1, <1>3 DEF Inductive, AuthorityExact
<1>. QED BY <1>2, <1>3, <1>4

\* What is Committed was committed.
LEMMA CommittedAgree ==
    ASSUME Inductive, AttemptIdsInUse, CommittedAttemptsAgree, [Next]_vars
    PROVE  CommittedAttemptsAgree'
<1>. SUFFICES ASSUME NEW a \in AttemptIds, attempts'[a].state = "Committed"
              PROVE  \E k \in CommitIds : /\ commits'[k].comp = attempts'[a].comp
                                          /\ commits'[k].gen = attempts'[a].gen
                                          /\ commits'[k].digest = attempts'[a].cand
  BY DEF CommittedAttemptsAgree
<1>1. Inductive' /\ CoordinatorAssumption
  BY InductiveNext, CoordinatorAssumption
<1>2. ASSUME attempts'[a].comp = attempts[a].comp, attempts'[a].gen = attempts[a].gen,
             attempts'[a].cand = attempts[a].cand, attempts[a].comp # Null,
             \E k \in CommitIds : /\ commits[k].comp = attempts[a].comp
                                  /\ commits[k].gen = attempts[a].gen
                                  /\ commits[k].digest = attempts[a].cand
      PROVE  \E k \in CommitIds : /\ commits'[k].comp = attempts'[a].comp
                                  /\ commits'[k].gen = attempts'[a].gen
                                  /\ commits'[k].digest = attempts'[a].cand
  BY <1>2, CommitsStay
<1>3. attempts[a].state # "Absent" => attempts[a].comp # Null
  BY <1>1 DEF Inductive, AttemptsBound, CoordinatorAssumption
<1>4. CASE Evolving
  <2>1. /\ SameBinding(attempts[a], attempts'[a]) /\ attempts[a].state # "Absent"
        /\ attempts'[a].cand = attempts[a].cand
        /\ attempts[a].state = "Committed" \/ commit_duplicate(a) \/ commit_first(a)
    BY <1>4, LostStates DEF Evolving, Evolves, Follows
  <2>2. CASE attempts[a].state = "Committed"
    BY <1>2, <1>3, <2>1, <2>2 DEF CommittedAttemptsAgree, SameBinding
  <2>3. CASE commit_duplicate(a)
    BY <1>2, <1>3, <2>1, <2>3, DuplicateAgrees DEF SameBinding
  <2>4. CASE commit_first(a)
    <3>1. attempts[a].gen = comps[attempts[a].comp].gen
      BY <2>4 DEF commit_first, validate_authority
    <3>2. /\ nextCommit \in CommitIds
          /\ commits'[nextCommit].comp = attempts[a].comp
          /\ commits'[nextCommit].gen = comps[attempts[a].comp].gen
          /\ commits'[nextCommit].digest = attempts[a].cand
      BY <2>4, CommitFirstFacts
    <3>. QED BY <2>1, <3>1, <3>2 DEF SameBinding
  <2>. QED BY <2>1, <2>2, <2>3, <2>4
<1>5. CASE \E c \in Compilations, w, v \in Workers, pair \in BOOLEAN : Assigning(c, w, v, pair)
  <2>1. attempts'[a] = attempts[a]
    BY <1>5, AssigningFacts DEF Inductive
  <2>. QED BY <1>2, <1>3, <2>1 DEF CommittedAttemptsAgree
<1>. QED BY <1>4, <1>5, AttemptSteps

\* Two attempts with authority over one unit come from one visit of pump(): no other
\* visit assigns a unit that has an attempt in flight.
LEMMA SiblingsArePairs ==
    ASSUME Inductive, AttemptIdsInUse, OnlySpeculativeSiblings, [Next]_vars
    PROVE  OnlySpeculativeSiblings'
<1>. SUFFICES ASSUME NEW a \in AttemptIds, NEW b \in AttemptIds, a < b,
                     attempts'[a].comp = attempts'[b].comp,
                     holds_commit_authority(attempts'[a].state),
                     holds_commit_authority(attempts'[b].state)
              PROVE  /\ Speculative /\ attempts'[b].speculative /\ ~attempts'[a].speculative
                     /\ attempts'[b].ordinal = attempts'[a].ordinal + 1
                     /\ attempts'[a].worker # attempts'[b].worker
  BY DEF OnlySpeculativeSiblings
<1>1. ASSUME SameBinding(attempts[a], attempts'[a]), SameBinding(attempts[b], attempts'[b]),
             holds_commit_authority(attempts[a].state), holds_commit_authority(attempts[b].state)
      PROVE  /\ Speculative /\ attempts'[b].speculative /\ ~attempts'[a].speculative
             /\ attempts'[b].ordinal = attempts'[a].ordinal + 1
             /\ attempts'[a].worker # attempts'[b].worker
  <2>1. attempts[a].comp = attempts[b].comp
    BY <1>1 DEF SameBinding
  <2>2. /\ Speculative /\ attempts[b].speculative /\ ~attempts[a].speculative
        /\ attempts[b].ordinal = attempts[a].ordinal + 1
        /\ attempts[a].worker # attempts[b].worker
    BY <1>1, <2>1 DEF OnlySpeculativeSiblings
  <2>. QED BY <1>1, <2>2, Zenon DEF SameBinding
<1>2. CASE Evolving
  BY <1>1, <1>2, EvolvesFacts DEF Evolving
<1>3. CASE \E c \in Compilations, w, v \in Workers, pair \in BOOLEAN : Assigning(c, w, v, pair)
  <2>1. PICK c \in Compilations, w \in Workers, v \in Workers, pair \in BOOLEAN : Assigning(c, w, v, pair)
    BY <1>3
  <2>2. \A x \in AttemptIds : attempts[x].comp = c => ~holds_commit_authority(attempts[x].state)
    BY <2>1 DEF Assigning, Assignable, Settled, InFlight, AttemptsOf
  <2>3. /\ attempts'[a] = attempts[a] \/ attempts'[a].comp = c
        /\ attempts'[b] = attempts[b] \/ attempts'[b].comp = c
    BY <2>1, AssigningFacts DEF Inductive
  <2>4. CASE attempts'[a] = attempts[a] /\ attempts'[b] = attempts[b]
    BY <1>1, <2>4 DEF SameBinding
  <2>5. CASE attempts'[a] # attempts[a] /\ attempts'[b] # attempts[b]
    <3>. DEFINE n == comps[c].ordinal
    <3>1. nextAttempt \in Nat /\ n \in Nat /\ a \in Int /\ b \in Int
      BY DEF Inductive, TypeOK, CompilationRecord, AttemptIds
    <3>2. /\ a = nextAttempt \/ (pair /\ a = nextAttempt + 1)
          /\ b = nextAttempt \/ (pair /\ b = nextAttempt + 1)
      BY <2>1, <2>5 DEF Assigning
    <3>3. pair /\ a = nextAttempt /\ b = nextAttempt + 1 /\ a # b
      BY <3>1, <3>2
    <3>4. attempts'[a] = NewAttempt(c, w, n + 1, FALSE) /\ attempts'[b] = NewAttempt(c, v, n + 2, TRUE)
          /\ Speculative /\ v # w
      <4>1. b # nextAttempt
        BY <3>3
      <4>. QED BY <2>1, <3>3, <4>1 DEF Assigning
    <3>5. n + 2 = (n + 1) + 1
      BY <3>1
    <3>. HIDE DEF n
    <3>. QED BY <3>4, <3>5 DEF NewAttempt
  <2>6. CASE attempts'[a] = attempts[a] /\ attempts'[b] # attempts[b]
    BY <2>2, <2>3, <2>6
  <2>7. CASE attempts'[a] # attempts[a] /\ attempts'[b] = attempts[b]
    BY <2>2, <2>3, <2>7
  <2>. QED BY <2>4, <2>5, <2>6, <2>7
<1>. QED BY <1>2, <1>3, AttemptSteps

-----------------------------------------------------------------------------
(***************************************************************************)
(* The units: only submit and a divergent candidate change what is         *)
(* recorded as divergent, and only submit serves a unit from the cache.    *)
(***************************************************************************)
UnitKept(c) ==
    /\ comps'[c].divergent = comps[c].divergent
    /\ comps'[c].violation = comps[c].violation
    /\ comps'[c].state = "CacheHit" => comps[c].state = "CacheHit"
UnitsKept == \A c \in Compilations : UnitKept(c)

\* One unit gets another state.
LEMMA OneUnitKept ==
    ASSUME TypeOK, NEW c, NEW st, comps' = [comps EXCEPT ![c].state = st], 
           st = "CacheHit" => comps[c].state = "CacheHit"
    PROVE  UnitsKept
<1>1. \A d \in Compilations : /\ comps'[d].divergent = comps[d].divergent
                              /\ comps'[d].violation = comps[d].violation
                              /\ comps'[d].state = IF d = c THEN st ELSE comps[d].state
  BY DEF TypeOK, CompilationRecord
<1>. QED BY <1>1 DEF UnitsKept, UnitKept

\* schedule_retry_or_fail only changes states, and serves nothing from the cache.
LEMMA RetryKeeps ==
    ASSUME TypeOK, NEW c, NEW code, schedule_retry_or_fail(c, code)
    PROVE  UnitsKept
<1>. DEFINE cs == [comps EXCEPT ![c].state = RetryState(comps, c, code)]
            failed == FanInFailed(cs, c)
<1>1. comps \in [Compilations -> CompilationRecord]
  BY DEF TypeOK
<1>2. RetryState(comps, c, code) # "CacheHit"
  BY DEF RetryState
<1>3. \A d \in Compilations : /\ cs[d].divergent = comps[d].divergent
                              /\ cs[d].violation = comps[d].violation
                              /\ cs[d].state = IF d = c THEN RetryState(comps, c, code) ELSE comps[d].state
                              /\ [cs[d] EXCEPT !.state = "Failed"].divergent = cs[d].divergent
                              /\ [cs[d] EXCEPT !.state = "Failed"].violation = cs[d].violation
                              /\ [cs[d] EXCEPT !.state = "Failed"].state = "Failed"
  BY <1>1 DEF CompilationRecord
<1>4. comps' = [d \in Compilations |-> IF d \in failed THEN [cs[d] EXCEPT !.state = "Failed"] ELSE cs[d]]
  BY DEF schedule_retry_or_fail
<1>. HIDE DEF cs, failed
<1>5. ASSUME NEW d \in Compilations PROVE UnitKept(d)
  <2>1. comps'[d] = IF d \in failed THEN [cs[d] EXCEPT !.state = "Failed"] ELSE cs[d]
    BY <1>4
  <2>2. CASE d \in failed
    BY <1>3, <2>1, <2>2 DEF UnitKept
  <2>3. CASE d \notin failed
    BY <1>2, <1>3, <2>1, <2>3 DEF UnitKept
  <2>. QED BY <2>2, <2>3
<1>. QED BY <1>5 DEF UnitsKept

\* Every step but submit and commit_divergent keeps what is recorded of the units.
LEMMA UnitSteps ==
    ASSUME Inductive, [Next]_vars
    PROVE  \/ UnitsKept
           \/ \E force \in BOOLEAN : submit(force)
           \/ \E a \in AttemptIds : commit_divergent(a)
<1>1. TypeOK /\ comps \in [Compilations -> CompilationRecord]
  BY DEF Inductive, TypeOK
<1>2. comps' = comps => UnitsKept
  BY DEF UnitsKept, UnitKept
<1>3. CASE UNCHANGED vars
  BY <1>2, <1>3 DEF vars
<1>4. CASE \E force \in BOOLEAN : submit(force)
  BY <1>4
<1>5. CASE \E w \in Workers, b \in 1..MaxBoot, e \in Evidence : register_worker(w, b, e)
  BY <1>2, <1>5 DEF register_worker, transactionVars
<1>6. CASE \E s \in SessionIds : SessionStep(s)
  BY <1>2, <1>6 DEF SessionStep, advertise_capabilities, mark_ready, handle_validate_response,
                    disconnect_session, transactionVars
<1>7. CASE pump
  BY <1>2, <1>7 DEF pump, transactionVars
<1>8. CASE \E c \in Compilations : Pumping(c)
  <2>1. PICK c \in Compilations : Pumping(c)
    BY <1>8
  <2>2. CASE pump_skip(c)
    BY <1>2, <2>2 DEF pump_skip, transactionVars
  <2>3. CASE pump_defer(c)
    BY <1>1, <2>3, OneUnitKept DEF pump_defer
  <2>4. CASE \E w, v \in Workers : pump_assign(c, w) \/ pump_assign_pair(c, w, v)
    <3>1. \E n : comps' = [comps EXCEPT ![c].state = "Assigned", ![c].ordinal = n]
      BY <2>4 DEF pump_assign, pump_assign_pair
    <3>2. \A d \in Compilations : /\ comps'[d].divergent = comps[d].divergent
                                  /\ comps'[d].violation = comps[d].violation
                                  /\ comps'[d].state = IF d = c THEN "Assigned" ELSE comps[d].state
      BY <1>1, <3>1 DEF CompilationRecord
    <3>. QED BY <3>2 DEF UnitsKept, UnitKept
  <2>. QED BY <2>1, <2>2, <2>3, <2>4 DEF Pumping
<1>9. CASE \E a \in AttemptIds : AttemptStep(a)
  <2>1. PICK a \in AttemptIds : AttemptStep(a)
    BY <1>9
  <2>. DEFINE c == attempts[a].comp
  <2>2. CASE report_abandon(a) \/ report_stale(a) \/ commit_refused(a)
    BY <1>2, <2>2 DEF report_abandon, report_stale, commit_refused
  <2>3. CASE begin_compile(a)
    <3>1. comps' = [comps EXCEPT ![c].state = IF comps[c].state = "Committed" THEN comps[c].state ELSE "Running"]
      BY <2>3 DEF begin_compile
    <3>. QED BY <1>1, <3>1, OneUnitKept
  <2>4. CASE \E s \in SessionIds, d \in Digests : report_reserve(s, a, d)
    <3>1. comps' = [comps EXCEPT ![c].state =
                       IF comps[c].state = "Committed" \/ authoritative[c] # 0 THEN comps[c].state ELSE "Producing"]
      BY <2>4 DEF report_reserve
    <3>. QED BY <1>1, <3>1, OneUnitKept
  <2>5. CASE \E s \in SessionIds, code \in FailCodes : fail_attempt(s, a, code)
    BY <1>1, <2>5, RetryKeeps DEF fail_attempt
  <2>6. CASE commit_invalid(a)
    BY <1>1, <2>6, OneUnitKept DEF commit_invalid
  <2>7. CASE commit_duplicate(a)
    <3>1. comps' = comps \/ comps' = [comps EXCEPT ![c].state = "Committed"]
      BY <2>7 DEF commit_duplicate
    <3>. QED BY <1>1, <1>2, <3>1, OneUnitKept
  <2>8. CASE commit_first(a)
    BY <1>1, <2>8, OneUnitKept DEF commit_first
  <2>9. CASE commit_divergent(a)
    BY <2>9
  <2>. QED BY <2>1, <2>2, <2>3, <2>4, <2>5, <2>6, <2>7, <2>8, <2>9 DEF AttemptStep, Reporting
<1>10. CASE \E c \in Compilations : cancel(c)
  BY <1>1, <1>10, OneUnitKept DEF cancel
<1>11. CASE Disconnecting
  <2>1. CASE \E a \in AttemptIds : disconnect_attempt(a)
    BY <1>1, <2>1, RetryKeeps DEF disconnect_attempt
  <2>2. CASE \E w \in Workers : fence_worker(w)
    BY <1>2, <2>2 DEF fence_worker
  <2>. QED BY <1>11, <2>1, <2>2 DEF Disconnecting
<1>12. CASE restart
  <2>1. ASSUME NEW c \in Compilations
        PROVE  /\ RecoveredCompilation(c).divergent = comps[c].divergent
               /\ RecoveredCompilation(c).violation = comps[c].violation
               /\ RecoveredCompilation(c).state = "CacheHit" => comps[c].state = "CacheHit"
    BY <1>1 DEF RecoveredCompilation, CompilationRecord
  <2>2. \A c \in Compilations : comps'[c] = RecoveredCompilation(c)
    BY <1>12 DEF restart
  <2>. QED BY <2>1, <2>2 DEF UnitsKept, UnitKept
<1>. QED BY <1>3, <1>4, <1>5, <1>6, <1>7, <1>8, <1>9, <1>10, <1>11, <1>12 DEF Next

\* submit forgets the divergence of the units it creates or rebuilds, and only a
\* reusable cache entry makes a cache hit.
LEMMA SubmitKeeps ==
    ASSUME TypeOK, NEW force \in BOOLEAN, submit(force), NEW c \in Compilations
    PROVE  /\ \/ comps'[c].divergent = {} /\ comps'[c].violation = FALSE
              \/ /\ ~Rebuilt(c, force)
                 /\ comps'[c].divergent = comps[c].divergent
                 /\ comps'[c].violation = comps[c].violation
           /\ comps'[c].state = "CacheHit" => CacheReusable(c)
<1>. DEFINE st == IF authoritative[c] # 0 /\ ~Rebuilt(c, force) THEN "Committed" ELSE "CacheHit"
            sub == SubmittedRecord(c, force)
<1>1. comps'[c] = IF CacheReusable(c) THEN [sub EXCEPT !.state = st, !.hit = TRUE]
                  ELSE IF Served(c, force) THEN sub ELSE [sub EXCEPT !.state = "Pending", !.hit = FALSE]
  BY DEF submit
<1>2. sub \in CompilationRecord
  BY SubmittedType
<1>3. \/ sub.divergent = {} /\ sub.violation = FALSE
      \/ /\ ~Rebuilt(c, force) /\ sub = comps[c]
  <2>1. comps[c] \in CompilationRecord
    BY DEF TypeOK
  <2>2. CASE comps[c].state = "Absent"
    BY <2>2 DEF SubmittedRecord, NewCompilation
  <2>3. CASE comps[c].state # "Absent" /\ Rebuilt(c, force)
    BY <2>1, <2>3 DEF SubmittedRecord, CompilationRecord
  <2>4. CASE comps[c].state # "Absent" /\ ~Rebuilt(c, force)
    BY <2>4 DEF SubmittedRecord
  <2>. QED BY <2>2, <2>3, <2>4
<1>4. Served(c, force) /\ ~CacheReusable(c) => sub.state = "Committed"
  BY DEF Served, SubmittedRecord, Rebuilt
<1>. HIDE DEF sub, st
<1>5. comps'[c].divergent = sub.divergent /\ comps'[c].violation = sub.violation
  BY <1>1, <1>2 DEF CompilationRecord
<1>6. ~CacheReusable(c) => comps'[c].state \in {"Committed", "Pending"}
  BY <1>1, <1>2, <1>4 DEF CompilationRecord
<1>. QED BY <1>3, <1>5, <1>6

\* A divergent candidate differs from the artifact that is authoritative, and it is on
\* record for as long as that artifact is: force_rebuild clears both.
LEMMA DivergenceStaysReal ==
    ASSUME Inductive, DivergenceIsReal, [Next]_vars
    PROVE  DivergenceIsReal'
<1>. SUFFICES ASSUME NEW c \in Compilations
              PROVE  /\ \A d \in comps'[c].divergent :
                            authoritative'[c] # 0 /\ commits'[authoritative'[c]].digest # d
                     /\ comps'[c].violation => ReproRequired /\ comps'[c].divergent # {}
  BY DEF DivergenceIsReal
<1>1. /\ \A d \in comps[c].divergent : authoritative[c] # 0 /\ commits[authoritative[c]].digest # d
      /\ comps[c].violation => ReproRequired /\ comps[c].divergent # {}
  BY DEF DivergenceIsReal
<1>2. ASSUME authoritative'[c] = authoritative[c], authoritative[c] # 0
      PROVE  commits'[authoritative'[c]].digest = commits[authoritative[c]].digest
  <2>1. PICK k \in CommitIds : authoritative[c] = k
    BY <1>2 DEF Inductive, TypeOK
  <2>2. commits[k].comp # Null
    BY <2>1, CoordinatorAssumption DEF Inductive, AuthorityExact
  <2>. QED BY <1>2, <2>1, <2>2, CommitsStay
<1>3. CASE authoritative'[c] = authoritative[c] /\ UnitsKept
  BY <1>1, <1>2, <1>3 DEF UnitsKept, UnitKept
<1>4. CASE \E force \in BOOLEAN : submit(force)
  <2>1. PICK force \in BOOLEAN : submit(force)
    BY <1>4
  <2>2. ~Rebuilt(c, force) => authoritative'[c] = authoritative[c]
    BY <2>1 DEF submit
  <2>3. \/ comps'[c].divergent = {} /\ comps'[c].violation = FALSE
        \/ /\ ~Rebuilt(c, force)
           /\ comps'[c].divergent = comps[c].divergent
           /\ comps'[c].violation = comps[c].violation
    BY <2>1, SubmitKeeps DEF Inductive
  <2>. QED BY <1>1, <1>2, <2>2, <2>3
<1>5. CASE QuietUnits /\ \E a \in AttemptIds : commit_divergent(a)
  <2>1. PICK a \in AttemptIds : commit_divergent(a)
    BY <1>5
  <2>2. authoritative'[c] = authoritative[c]
    BY <1>5 DEF QuietUnits
  <2>. DEFINE u == attempts[a].comp
              dv == comps[u].divergent \cup {attempts[a].cand}
              vi == comps[u].violation \/ ReproRequired
  <2>3. CASE c # u
    <3>1. comps'[c] = comps[c]
      BY <2>1, <2>3 DEF commit_divergent, Inductive, TypeOK
    <3>. QED BY <1>1, <1>2, <2>2, <3>1
  <2>4. CASE c = u
    <3>1. comps'[c] = [comps[c] EXCEPT !.divergent = dv, !.violation = vi]
      BY <2>1, <2>4 DEF commit_divergent, Inductive, TypeOK
    <3>2. comps'[c].divergent = dv /\ comps'[c].violation = vi
      <4>1. comps[c] \in CompilationRecord
        BY DEF Inductive, TypeOK
      <4>. HIDE DEF dv, vi
      <4>. QED BY <3>1, <4>1 DEF CompilationRecord
    <3>3. authoritative[c] # 0 /\ commits[authoritative[c]].digest # attempts[a].cand
      BY <2>1, <2>4 DEF commit_divergent, has_authority
    <3>4. attempts[a].cand \in dv /\ (vi => ReproRequired)
      BY <1>1, <2>4
    <3>. QED BY <1>1, <1>2, <2>2, <2>4, <3>2, <3>3, <3>4
  <2>. QED BY <2>3, <2>4
<1>6. CASE \E a \in AttemptIds : commit_first(a)
  <2>1. PICK a \in AttemptIds : commit_first(a)
    BY <1>6
  <2>2. UnitKept(c)
    <3>1. comps' = [comps EXCEPT ![attempts[a].comp].state = "Committed"]
      BY <2>1 DEF commit_first
    <3>. QED BY <3>1, OneUnitKept DEF Inductive, UnitsKept
  <2>3. CASE c = attempts[a].comp
    <3>1. authoritative[c] = 0
      BY <2>1, <2>3, CommitFirstFacts
    <3>. QED BY <1>1, <2>2, <3>1 DEF UnitKept
  <2>4. CASE c # attempts[a].comp
    <3>1. authoritative'[c] = authoritative[c]
      BY <2>1, <2>4 DEF commit_first, Inductive, TypeOK
    <3>. QED BY <1>1, <1>2, <2>2, <3>1 DEF UnitKept
  <2>. QED BY <2>3, <2>4
<1>. QED BY <1>3, <1>4, <1>5, <1>6, InductiveNext, UnitSteps DEF QuietUnits
-----------------------------------------------------------------------------
(***************************************************************************)
(* The cache and the job.                                                  *)
(***************************************************************************)
\* Only a commit and decode_state change the cache index; the job is changed by submit,
\* by a commit and by a fan-in failure.
LEMMA RecordSteps ==
    ASSUME [Next]_vars
    PROVE  /\ \/ cacheIndex' = cacheIndex
              \/ \E a \in AttemptIds : commit_first(a)
              \/ restart
           /\ \/ job' = job
              \/ \E force \in BOOLEAN : submit(force)
              \/ \E a \in AttemptIds : commit_first(a)
              \/ \E c, code : schedule_retry_or_fail(c, code)
<1>1. CASE UNCHANGED vars
  BY <1>1 DEF vars
<1>2. CASE \E force \in BOOLEAN : submit(force)
  BY <1>2 DEF submit
<1>3. CASE \E w \in Workers, b \in 1..MaxBoot, e \in Evidence : register_worker(w, b, e)
  BY <1>3 DEF register_worker, transactionVars
<1>4. CASE \E s \in SessionIds : SessionStep(s)
  BY <1>4 DEF SessionStep, advertise_capabilities, mark_ready, handle_validate_response,
              disconnect_session, transactionVars
<1>5. CASE pump \/ \E c \in Compilations : Pumping(c)
  BY <1>5 DEF pump, Pumping, pump_skip, pump_defer, pump_assign, pump_assign_pair, transactionVars
<1>6. CASE \E a \in AttemptIds : AttemptStep(a)
  <2>1. PICK a \in AttemptIds : AttemptStep(a)
    BY <1>6
  <2>2. CASE \E s \in SessionIds, code \in FailCodes : fail_attempt(s, a, code)
    BY <2>2 DEF fail_attempt
  <2>3. CASE begin_compile(a) \/ report_abandon(a) \/ \E s \in SessionIds, d \in Digests : report_reserve(s, a, d)
    BY <2>3 DEF begin_compile, report_abandon, report_reserve
  <2>4. CASE report_stale(a) \/ commit_invalid(a) \/ commit_duplicate(a) \/ commit_divergent(a) \/ commit_refused(a)
    BY <2>4 DEF report_stale, commit_invalid, commit_duplicate, commit_divergent, commit_refused
  <2>. QED BY <2>1, <2>2, <2>3, <2>4 DEF AttemptStep, Reporting
<1>7. CASE \E c \in Compilations : cancel(c)
  BY <1>7 DEF cancel
<1>8. CASE Disconnecting
  BY <1>8 DEF Disconnecting, disconnect_attempt, fence_worker
<1>9. CASE restart
  BY <1>9 DEF restart
<1>. QED BY <1>1, <1>2, <1>3, <1>4, <1>5, <1>6, <1>7, <1>8, <1>9 DEF Next

\* What the cache serves was committed.
LEMMA ReusableWasCommitted ==
    ASSUME Inductive, CacheIsOfCommits, NEW c \in Compilations, CacheReusable(c)
    PROVE  \E k \in CommitIds : commits[k].comp = c
  BY DEF Inductive, TypeOK, CacheIsOfCommits, CacheReusable

\* decode_state rebuilds the cache index from the commits of each unit.
LEMMA DecodedIsOfCommits ==
    ASSUME NEW c \in Compilations, DecodedCacheIndex(c) # 0
    PROVE  commits[DecodedCacheIndex(c)].comp = c
<1>. DEFINE IsFirst(k) == commits[k].comp = c /\ \A j \in 1..(k - 1) : commits[j].comp # c
<1>1. DecodedCacheIndex(c) = IF \E k \in CommitIds : IsFirst(k)
                             THEN CHOOSE k \in CommitIds : IsFirst(k) ELSE 0
  BY DEF DecodedCacheIndex
<1>2. \E k \in CommitIds : IsFirst(k)
  BY <1>1
<1>3. IsFirst(DecodedCacheIndex(c))
  BY <1>1, <1>2
<1>. QED BY <1>3

\* The cache index leads to commits of its unit, whether it was kept by commit_locked or
\* rebuilt by decode_state.
LEMMA CacheStaysOfCommits ==
    ASSUME Inductive, CacheIsOfCommits, [Next]_vars
    PROVE  CacheIsOfCommits'
<1>1. ASSUME NEW c \in Compilations, \E k \in CommitIds : commits[k].comp = c
      PROVE  \E k \in CommitIds : commits'[k].comp = c
  BY <1>1, CommitsStay, CoordinatorAssumption
<1>2. ASSUME NEW c \in Compilations, comps'[c].state = "CacheHit"
      PROVE  \E k \in CommitIds : commits'[k].comp = c
  <2>1. comps[c].state = "CacheHit" \/ CacheReusable(c)
    <3>1. CASE UnitsKept
      BY <1>2, <3>1 DEF UnitsKept, UnitKept
    <3>2. CASE \E force \in BOOLEAN : submit(force)
      BY <1>2, <3>2, SubmitKeeps DEF Inductive
    <3>3. CASE \E a \in AttemptIds : commit_divergent(a)
      <4>1. PICK a \in AttemptIds : commit_divergent(a)
        BY <3>3
      <4>. DEFINE u == attempts[a].comp
                  dv == comps[u].divergent \cup {attempts[a].cand}
                  vi == comps[u].violation \/ ReproRequired
      <4>2. comps' = [comps EXCEPT ![u].divergent = dv, ![u].violation = vi]
        BY <4>1 DEF commit_divergent
      <4>3. comps'[c].state = comps[c].state
        <5>. HIDE DEF dv, vi, u
        <5>. QED BY <4>2 DEF Inductive, TypeOK, CompilationRecord
      <4>. QED BY <1>2, <4>3
    <3>. QED BY <3>1, <3>2, <3>3, UnitSteps
  <2>2. \E k \in CommitIds : commits[k].comp = c
    BY <2>1, ReusableWasCommitted DEF CacheIsOfCommits
  <2>. QED BY <1>1, <2>2
<1>3. ASSUME NEW c \in Compilations, cacheIndex'[c] # 0
      PROVE  commits'[cacheIndex'[c]].comp = c
  <2>1. cacheIndex[c] # 0 => /\ cacheIndex[c] \in CommitIds
                             /\ commits'[cacheIndex[c]].comp = c
    <3>1. cacheIndex[c] # 0 => cacheIndex[c] \in CommitIds /\ commits[cacheIndex[c]].comp = c
      BY DEF CacheIsOfCommits, Inductive, TypeOK
    <3>. QED BY <3>1, CommitsStay, CoordinatorAssumption
  <2>2. CASE cacheIndex' = cacheIndex
    BY <1>3, <2>1, <2>2
  <2>3. CASE \E a \in AttemptIds : commit_first(a)
    <3>1. PICK a \in AttemptIds : commit_first(a)
      BY <2>3
    <3>2. cacheIndex' = [cacheIndex EXCEPT ![attempts[a].comp] = nextCommit]
      BY <3>1 DEF commit_first
    <3>3. CASE c = attempts[a].comp
      BY <3>1, <3>2, <3>3, CommitFirstFacts DEF Inductive, TypeOK
    <3>4. CASE c # attempts[a].comp
      BY <1>3, <2>1, <3>2, <3>4 DEF Inductive, TypeOK
    <3>. QED BY <3>3, <3>4
  <2>4. CASE restart
    <3>1. cacheIndex'[c] = DecodedCacheIndex(c) /\ commits' = commits
      BY <2>4 DEF restart
    <3>. QED BY <1>3, <3>1, DecodedIsOfCommits
  <2>5. cacheIndex' = cacheIndex \/ (\E a \in AttemptIds : commit_first(a)) \/ restart
    BY RecordSteps
  <2>. QED BY <2>2, <2>3, <2>4, <2>5
<1>. QED BY <1>2, <1>3 DEF CacheIsOfCommits

\* A job is only shown as committed when each of its units is.
LEMMA FinishedJobStays ==
    ASSUME Inductive, CacheIsOfCommits, CommittedJobHasArtifacts, [Next]_vars
    PROVE  CommittedJobHasArtifacts'
<1>1. ASSUME NEW c \in Compilations, \E k \in CommitIds : commits[k].comp = c
      PROVE  \E k \in CommitIds : commits'[k].comp = c
  BY <1>1, CommitsStay, CoordinatorAssumption
<1>2. CASE job'.committed = job.committed
  BY <1>1, <1>2 DEF CommittedJobHasArtifacts
<1>3. CASE \E force \in BOOLEAN : submit(force)
  <2>1. PICK force \in BOOLEAN : submit(force)
    BY <1>3
  <2>2. job'.committed = (\A c \in Compilations : Served(c, force))
    BY <2>1 DEF submit, Inductive, TypeOK, JobRecord
  <2>3. ASSUME NEW c \in Compilations, Served(c, force)
        PROVE  \E k \in CommitIds : commits[k].comp = c
    <3>1. CASE CacheReusable(c)
      BY <3>1, ReusableWasCommitted
    <3>2. CASE comps[c].state = "Committed"
      BY <3>2 DEF Inductive, CommittedHasAuthority, AuthorityExact, TypeOK
    <3>. QED BY <2>3, <3>1, <3>2 DEF Served
  <2>. QED BY <1>1, <2>2, <2>3 DEF CommittedJobHasArtifacts
<1>4. CASE \E a \in AttemptIds : commit_first(a)
  <2>1. PICK a \in AttemptIds : commit_first(a)
    BY <1>4
  <2>2. job'.committed = mark_job_progress(comps')
    BY <2>1 DEF commit_first, Inductive, TypeOK, JobRecord
  <2>3. Inductive' /\ CacheIsOfCommits'
    BY InductiveNext, CacheStaysOfCommits
  <2>4. ASSUME NEW c \in Compilations, comps'[c].state \in {"Committed", "CacheHit"}
        PROVE  \E k \in CommitIds : commits'[k].comp = c
    BY <2>3, <2>4 DEF Inductive, CommittedHasAuthority, AuthorityExact, TypeOK, CacheIsOfCommits
  <2>. QED BY <2>2, <2>4 DEF CommittedJobHasArtifacts, mark_job_progress
<1>5. \/ job'.committed = job.committed
      \/ \E force \in BOOLEAN : submit(force)
      \/ \E a \in AttemptIds : commit_first(a)
  <2>1. ASSUME NEW c, NEW code, schedule_retry_or_fail(c, code)
        PROVE  job'.committed = job.committed
    <3>1. job' = job \/ job' = [job EXCEPT !.failure = "FanInIncomplete"]
      BY <2>1 DEF schedule_retry_or_fail
    <3>. QED BY <3>1 DEF Inductive, TypeOK, JobRecord
  <2>. QED BY <2>1, RecordSteps
<1>. QED BY <1>2, <1>3, <1>4, <1>5
-----------------------------------------------------------------------------
(***************************************************************************)
(* Leases and sessions.                                                    *)
(***************************************************************************)
\* A handler that leaves to each worker its boot, its session and its fence.
WorkersKept ==
    /\ UNCHANGED <<epoch, nextSession>>
    /\ \A w \in Workers : /\ workers'[w].boot = workers[w].boot
                          /\ workers'[w].session = workers[w].session
                          /\ workers'[w].fenced = workers[w].fenced
    /\ \A s \in SessionIds : /\ sessions'[s].worker = sessions[s].worker
                             /\ sessions'[s].boot = sessions[s].boot
                             /\ sessions'[s].epoch = sessions[s].epoch

\* finish_attempt_bookkeeping changes in_flight only.
LEMMA ReleaseKeeps ==
    ASSUME NEW ws \in [Workers -> WorkerRecord], NEW x, NEW n, NEW w \in Workers
    PROVE  /\ Release(ws, x, n)[w].boot = ws[w].boot
           /\ Release(ws, x, n)[w].session = ws[w].session
           /\ Release(ws, x, n)[w].fenced = ws[w].fenced
<1>. DEFINE left == IF n < ws[x].inflight THEN ws[x].inflight - n ELSE 0
<1>1. Release(ws, x, n) = [ws EXCEPT ![x] = [ws[x] EXCEPT !.inflight = left]]
  BY DEF Release
<1>. HIDE DEF left
<1>. QED BY <1>1 DEF WorkerRecord

\* A handler that touches nothing of the workers but in_flight.
LEMMA BookkeepingKeeps ==
    ASSUME TypeOK, UNCHANGED <<epoch, sessions, nextSession>>,
           \A w \in Workers : workers'[w] = workers[w] \/ \E x, n : workers'[w] = Release(workers, x, n)[w]
    PROVE  WorkersKept
  BY ReleaseKeeps DEF WorkersKept, TypeOK

\* fail_attempt_locked touches nothing of the workers but in_flight.
LEMMA FailureKeeps ==
    ASSUME TypeOK, NEW a, NEW code, workers' = FailedWorkers(a, code),
           UNCHANGED <<epoch, sessions, nextSession>>
    PROVE  WorkersKept
  BY BookkeepingKeeps DEF FailedWorkers

\* Only a registration, the fence and a restart change who speaks for a worker.
LEMMA WorkerSteps ==
    ASSUME TypeOK, [Next]_vars
    PROVE  \/ WorkersKept
           \/ \E w \in Workers, b \in 1..MaxBoot, e \in Evidence : register_worker(w, b, e)
           \/ \E w \in Workers : fence_worker(w)
           \/ restart
<1>1. workers \in [Workers -> WorkerRecord] /\ sessions \in [SessionIds -> SessionRecord]
  BY DEF TypeOK
<1>2. CASE UNCHANGED vars
  BY <1>2 DEF vars, WorkersKept
<1>3. CASE \E force \in BOOLEAN : submit(force)
  BY <1>3 DEF submit, WorkersKept
<1>4. CASE \E s \in SessionIds : SessionStep(s)
  <2>1. PICK s \in SessionIds : SessionStep(s)
    BY <1>4
  <2>2. CASE \E e \in Evidence : advertise_capabilities(s, e)
    BY <1>1, <2>2 DEF advertise_capabilities, WorkersKept, WorkerRecord
  <2>3. CASE mark_ready(s) \/ handle_validate_response(s)
    BY <1>1, <2>3 DEF mark_ready, handle_validate_response, WorkersKept, WorkerRecord
  <2>4. CASE disconnect_session(s)
    BY <1>1, <2>4 DEF disconnect_session, WorkersKept, SessionRecord
  <2>. QED BY <2>1, <2>2, <2>3, <2>4 DEF SessionStep
<1>5. CASE pump \/ \E c \in Compilations : pump_skip(c) \/ pump_defer(c)
  BY <1>5 DEF pump, pump_skip, pump_defer, WorkersKept
<1>6. CASE \E c \in Compilations, w, v \in Workers : pump_assign(c, w) \/ pump_assign_pair(c, w, v)
  <2>1. UNCHANGED <<epoch, sessions, nextSession>>
    <3>1. \A c, w : pump_assign(c, w) => UNCHANGED <<epoch, sessions, nextSession>>
      BY DEF pump_assign
    <3>2. \A c, w, v : pump_assign_pair(c, w, v) => UNCHANGED <<epoch, sessions, nextSession>>
      BY DEF pump_assign_pair
    <3>. QED BY <1>6, <3>1, <3>2
  <2>2. CASE \E c \in Compilations, w \in Workers : pump_assign(c, w)
    BY <1>1, <2>1, <2>2 DEF pump_assign, WorkersKept, WorkerRecord
  <2>3. CASE \E c \in Compilations, w, v \in Workers : pump_assign_pair(c, w, v)
    <3>1. PICK w \in Workers, v \in Workers :
              workers' = [workers EXCEPT ![w].inflight = @ + 1, ![v].inflight = @ + 1]
      BY <2>3 DEF pump_assign_pair
    <3>2. \A x \in Workers : \E n : workers'[x] = [workers[x] EXCEPT !.inflight = n]
      BY <1>1, <3>1 DEF WorkerRecord
    <3>3. \A x \in Workers : /\ workers'[x].boot = workers[x].boot
                             /\ workers'[x].session = workers[x].session
                             /\ workers'[x].fenced = workers[x].fenced
      BY <1>1, <3>2 DEF WorkerRecord
    <3>. QED BY <2>1, <3>3 DEF WorkersKept
  <2>. QED BY <1>6, <2>2, <2>3
<1>7. CASE \E a \in AttemptIds : AttemptStep(a)
  <2>1. PICK a \in AttemptIds : AttemptStep(a)
    BY <1>7
  <2>2. CASE begin_compile(a) \/ report_abandon(a) \/ commit_refused(a)
             \/ \E s \in SessionIds, d \in Digests : report_reserve(s, a, d)
    BY <2>2 DEF begin_compile, report_abandon, commit_refused, report_reserve, WorkersKept
  <2>3. CASE report_stale(a)
    BY <2>3, BookkeepingKeeps DEF report_stale
  <2>4. CASE commit_first(a)
    BY <2>4, BookkeepingKeeps DEF commit_first
  <2>5. CASE commit_invalid(a) \/ commit_duplicate(a) \/ commit_divergent(a)
    <3>1. UNCHANGED <<epoch, sessions, nextSession>>
      BY <2>5 DEF commit_invalid, commit_duplicate, commit_divergent
    <3>2. workers' = Release(workers, attempts[a].worker, 1) \/ \E code : workers' = FailedWorkers(a, code)
      BY <2>5 DEF commit_invalid, commit_duplicate, commit_divergent, CandidateFailed
    <3>. QED BY <3>1, <3>2, BookkeepingKeeps, FailureKeeps
  <2>6. CASE \E s \in SessionIds, code \in FailCodes : fail_attempt(s, a, code)
    BY <2>6, FailureKeeps DEF fail_attempt
  <2>. QED BY <2>1, <2>2, <2>3, <2>4, <2>5, <2>6 DEF AttemptStep, Reporting
<1>8. CASE \E c \in Compilations : cancel(c)
  <2>1. PICK c \in Compilations : cancel(c)
    BY <1>8
  <2>2. UNCHANGED <<epoch, sessions, nextSession>>
    BY <2>1 DEF cancel
  <2>3. \A w \in Workers : \E n : workers'[w] = Release(workers, w, n)[w]
    BY <2>1 DEF cancel
  <2>. QED BY <2>2, <2>3, BookkeepingKeeps
<1>9. CASE \E a \in AttemptIds : disconnect_attempt(a)
  BY <1>9, FailureKeeps DEF disconnect_attempt
<1>. QED BY <1>2, <1>3, <1>4, <1>5, <1>6, <1>7, <1>8, <1>9 DEF Next, Pumping, Disconnecting

\* A lease is revoked with the authority of its attempt, with the fence of its worker
\* and with the epoch, and stays so.
LEMMA LeasesStayRevoked ==
    ASSUME Inductive, AttemptIdsInUse, StaleLeasesRevoked, [Next]_vars
    PROVE  StaleLeasesRevoked'
<1>. SUFFICES ASSUME NEW a \in AttemptIds,
                     \/ Lost(attempts'[a].state)
                     \/ attempts'[a].worker # Null /\ workers'[attempts'[a].worker].fenced
                     \/ attempts'[a].state # "Absent" /\ attempts'[a].epoch # epoch'
              PROVE  attempts'[a].revoked
  BY DEF StaleLeasesRevoked, Lost
<1>1. TypeOK /\ AttemptsBound
  BY DEF Inductive
<1>2. /\ Lost(attempts[a].state) => attempts[a].revoked
      /\ attempts[a].worker # Null /\ workers[attempts[a].worker].fenced => attempts[a].revoked
      /\ attempts[a].state # "Absent" /\ attempts[a].epoch # epoch => attempts[a].revoked
  BY DEF StaleLeasesRevoked, Lost
<1>3. attempts[a].worker # Null => attempts[a].worker \in Workers
  BY <1>1 DEF TypeOK, AttemptRecord
<1>4. CASE \E c \in Compilations, w, v \in Workers, pair \in BOOLEAN : Assigning(c, w, v, pair)
  <2>1. epoch' = epoch
    BY <1>4 DEF Assigning
  <2>2. WorkersKept
    <3>1. PICK c \in Compilations, w \in Workers, v \in Workers, pair \in BOOLEAN : Assigning(c, w, v, pair)
      BY <1>4
    <3>2. ~restart
      BY <2>1, <1>1 DEF restart, TypeOK
    <3>3. nextAttempt' # nextAttempt
      BY <1>1, <3>1 DEF Assigning, TypeOK
    <3>. QED BY <1>1, <3>2, <3>3, WorkerSteps DEF register_worker, fence_worker, transactionVars
  <2>3. CASE attempts'[a] = attempts[a]
    BY <1>2, <1>3, <2>1, <2>2, <2>3 DEF WorkersKept
  <2>4. CASE /\ attempts'[a].state = "Assigned" /\ attempts'[a].epoch = epoch
             /\ \E x \in eligible_workers : attempts'[a].worker = x
    <3>1. ~workers'[attempts'[a].worker].fenced
      BY <2>2, <2>4 DEF WorkersKept, eligible_workers
    <3>. QED BY <2>1, <2>4, <3>1 DEF Lost, is_terminal_state
  <2>. QED BY <1>1, <1>4, <2>3, <2>4, AssigningFacts
<1>5. CASE Evolving
  <2>1. /\ SameBinding(attempts[a], attempts'[a])
        /\ attempts[a].revoked => attempts'[a].revoked
        /\ Lost(attempts'[a].state) => Lost(attempts[a].state) \/ attempts'[a].revoked
        /\ attempts'[a].state = "Absent" <=> attempts[a].state = "Absent"
    BY <1>5, EvolvesFacts, LostStates DEF Evolving, Evolves, Follows
  <2>2. CASE WorkersKept
    BY <1>2, <1>3, <2>1, <2>2 DEF SameBinding, WorkersKept
  <2>3. CASE \E w \in Workers, b \in 1..MaxBoot, e \in Evidence : register_worker(w, b, e)
    <3>1. epoch' = epoch
      BY <2>3 DEF register_worker
    <3>2. \A w \in Workers : workers'[w].fenced => workers[w].fenced
      BY <1>1, <2>3 DEF register_worker, TypeOK
    <3>. QED BY <1>2, <1>3, <2>1, <3>1, <3>2 DEF SameBinding
  <2>4. CASE \E w \in Workers : fence_worker(w)
    <3>1. PICK w \in Workers : fence_worker(w)
      BY <2>4
    <3>2. epoch' = epoch /\ \A x \in Workers \ {w} : workers'[x] = workers[x]
      BY <1>1, <3>1 DEF fence_worker, TypeOK
    <3>3. attempts[a].worker = w => attempts'[a].revoked
      BY <1>1, <3>1 DEF fence_worker, TypeOK, AttemptRecord
    <3>. QED BY <1>2, <1>3, <2>1, <3>2, <3>3 DEF SameBinding
  <2>5. CASE restart
    <3>1. attempts[a].state # "Absent"
      BY <1>1, <2>1, LostStates DEF AttemptsBound, SameBinding
    <3>2. attempts'[a].revoked
      BY <1>1, <2>5, <3>1 DEF restart, RecoveredAttempt, TypeOK, AttemptRecord
    <3>. QED BY <3>2
  <2>. QED BY <1>1, <2>2, <2>3, <2>4, <2>5, WorkerSteps
<1>. QED BY <1>4, <1>5, AttemptSteps

\* The session a worker record names was opened by the boot it names, in this epoch: a
\* registration takes a session id nobody has, the fence and open() leave none.
LEMMA SessionsStayOfBoots ==
    ASSUME TypeOK, SessionsAreOfBoots, [Next]_vars
    PROVE  SessionsAreOfBoots'
<1>. SUFFICES ASSUME NEW w \in Workers
              PROVE  /\ workers'[w].boot = 0 => workers'[w].session = 0
                     /\ workers'[w].session # 0 =>
                            /\ workers'[w].session < nextSession'
                            /\ sessions'[workers'[w].session].worker = w
                            /\ sessions'[workers'[w].session].boot = workers'[w].boot
                            /\ sessions'[workers'[w].session].epoch = epoch'
  BY DEF SessionsAreOfBoots
<1>1. /\ workers[w].boot = 0 => workers[w].session = 0
      /\ workers[w].session # 0 =>
             /\ workers[w].session < nextSession
             /\ sessions[workers[w].session].worker = w
             /\ sessions[workers[w].session].boot = workers[w].boot
             /\ sessions[workers[w].session].epoch = epoch
  BY DEF SessionsAreOfBoots
<1>2. /\ workers[w] \in WorkerRecord /\ workers[w].session \in SessionIds \cup {0}
      /\ workers \in [Workers -> WorkerRecord] /\ sessions \in [SessionIds -> SessionRecord]
      /\ nextSession \in Nat \ {0}
  BY DEF TypeOK, WorkerRecord
<1>3. CASE WorkersKept
  BY <1>1, <1>2, <1>3 DEF WorkersKept
<1>4. CASE \E x \in Workers, b \in 1..MaxBoot, e \in Evidence : register_worker(x, b, e)
  <2>1. PICK x \in Workers, b \in 1..MaxBoot, e \in Evidence : register_worker(x, b, e)
    BY <1>4
  <2>2. /\ nextSession \in SessionIds /\ nextSession' = nextSession + 1 /\ epoch' = epoch
        /\ sessions' = [sessions EXCEPT ![nextSession] =
                           [worker |-> x, boot |-> b, epoch |-> epoch, open |-> TRUE]]
    BY <1>2, <2>1, CoordinatorAssumption DEF register_worker, SessionIds
  <2>3. CASE w = x
    <3>1. workers'[w].session = nextSession /\ workers'[w].boot = b /\ b # 0
      BY <1>2, <2>1, <2>3 DEF register_worker
    <3>. QED BY <1>2, <2>2, <2>3, <3>1
  <2>4. CASE w # x
    <3>1. workers'[w] = workers[w]
      BY <1>2, <2>1, <2>4 DEF register_worker
    <3>. QED BY <1>1, <1>2, <2>2, <3>1 DEF SessionIds
  <2>. QED BY <2>3, <2>4
<1>5. CASE \E x \in Workers : fence_worker(x)
  <2>1. PICK x \in Workers : fence_worker(x)
    BY <1>5
  <2>2. UNCHANGED <<epoch, sessions, nextSession>>
    BY <2>1 DEF fence_worker
  <2>3. workers'[w] = workers[w] \/ workers'[w].session = 0
    BY <1>2, <2>1 DEF fence_worker, WorkerRecord
  <2>. QED BY <1>1, <2>2, <2>3
<1>6. CASE restart
  <2>1. workers'[w].session = 0
    BY <1>1, <1>2, <1>6 DEF restart, RecoveredWorker, WorkerRecord
  <2>. QED BY <2>1
<1>. QED BY <1>3, <1>4, <1>5, <1>6, WorkerSteps
-----------------------------------------------------------------------------
(***************************************************************************)
(* The theorems.                                                           *)
(***************************************************************************)
\* An empty state root is consistent.
LEMMA ConsistentInit == Init => Consistent
<1>. SUFFICES ASSUME Init PROVE Consistent
  OBVIOUS
<1>1. Inductive
  BY InductiveInit
<1>2. \A a \in AttemptIds : /\ attempts[a].state = "Absent" /\ attempts[a].worker = Null
                            /\ a \in Nat /\ a >= 1
  BY DEF Init, NoAttempt, AttemptIds
<1>3. \A k \in CommitIds : commits[k].comp = Null
  BY DEF Init, NoCommit
<1>4. \A c \in Compilations : /\ comps[c].state = "Absent" /\ comps[c].divergent = {}
                              /\ comps[c].violation = FALSE /\ cacheIndex[c] = 0
  BY DEF Init, NewCompilation
<1>5. AttemptIdsInUse
  BY <1>2 DEF Init, AttemptIdsInUse
<1>6. CommitsAreOfAttempts /\ CacheIsOfCommits
  BY <1>3, <1>4 DEF CommitsAreOfAttempts, CacheIsOfCommits
<1>7. SessionsAreOfBoots
  BY DEF Init, NoWorkerRecord, SessionsAreOfBoots
<1>8. CommittedAttemptsAgree /\ OnlySpeculativeSiblings /\ StaleLeasesRevoked /\ NoAuthorityAcrossRestart
  BY <1>2, <1>3 DEF CommittedAttemptsAgree, OnlySpeculativeSiblings, StaleLeasesRevoked,
                    NoAuthorityAcrossRestart, holds_commit_authority, is_terminal_state
<1>9. DivergenceIsReal
  BY <1>4 DEF DivergenceIsReal
<1>10. CommittedJobHasArtifacts
  BY DEF Init, CommittedJobHasArtifacts
<1>. QED BY <1>1, <1>5, <1>6, <1>7, <1>8, <1>9, <1>10 DEF Consistent

\* Every step keeps the coordinator consistent.
LEMMA ConsistentNext ==
    ASSUME Consistent, [Next]_vars
    PROVE  Consistent'
<1>1. Inductive'
  BY InductiveNext DEF Consistent
<1>2. AttemptIdsInUse'
  BY IdsInUse DEF Consistent
<1>3. CommitsAreOfAttempts' /\ NoAuthorityAcrossRestart'
  BY AuthorityEndsWithEpoch DEF Consistent
<1>4. CommittedAttemptsAgree'
  BY CommittedAgree DEF Consistent
<1>5. OnlySpeculativeSiblings'
  BY SiblingsArePairs DEF Consistent
<1>6. StaleLeasesRevoked'
  BY LeasesStayRevoked DEF Consistent
<1>7. DivergenceIsReal'
  BY DivergenceStaysReal DEF Consistent
<1>8. CacheIsOfCommits' /\ CommittedJobHasArtifacts'
  BY CacheStaysOfCommits, FinishedJobStays DEF Consistent
<1>9. SessionsAreOfBoots'
  BY SessionsStayOfBoots DEF Consistent, Inductive
<1>. QED BY <1>1, <1>2, <1>3, <1>4, <1>5, <1>6, <1>7, <1>8, <1>9 DEF Consistent

\* The coordinator's attempts, leases, commits, cache and sessions agree with one another
\* in every state, whatever happens in the window of report_output and across restarts.
THEOREM ConsistentInvariant == Spec => []Consistent
<1>1. Init => Consistent
  BY ConsistentInit
<1>2. Consistent /\ [Next]_vars => Consistent'
  BY ConsistentNext
<1>. QED BY <1>1, <1>2, PTL DEF Spec

\* commit_locked never accepts, for a generation, an artifact other than the committed one.
THEOREM DeduplicationAgrees == Spec => []CommittedAttemptsAgree
<1>1. Consistent => CommittedAttemptsAgree
  BY DEF Consistent
<1>. QED BY <1>1, ConsistentInvariant, PTL

\* Two attempts of a unit hold authority only as the speculative pair of one pump().
THEOREM SiblingsAreSpeculative == Spec => []OnlySpeculativeSiblings
<1>1. Consistent => OnlySpeculativeSiblings
  BY DEF Consistent
<1>. QED BY <1>1, ConsistentInvariant, PTL

\* Leases are revoked with the attempt, with the fence of the worker and with the epoch.
THEOREM LeasesAreRevoked == Spec => []StaleLeasesRevoked
<1>1. Consistent => StaleLeasesRevoked
  BY DEF Consistent
<1>. QED BY <1>1, ConsistentInvariant, PTL

\* What commit_locked records as divergent differs from the artifact in force.
THEOREM DivergenceHolds == Spec => []DivergenceIsReal
<1>1. Consistent => DivergenceIsReal
  BY DEF Consistent
<1>. QED BY <1>1, ConsistentInvariant, PTL

\* mark_job_progress and submit report no job as committed that lacks an artifact.
THEOREM FinishedJobs == Spec => []CommittedJobHasArtifacts
<1>1. Consistent => CommittedJobHasArtifacts
  BY DEF Consistent
<1>. QED BY <1>1, ConsistentInvariant, PTL

\* Authority ends with the epoch it was given in, and commits are of their attempt's epoch.
THEOREM EpochsEndAuthority == Spec => []NoAuthorityAcrossRestart
<1>1. Consistent => NoAuthorityAcrossRestart
  BY DEF Consistent
<1>. QED BY <1>1, ConsistentInvariant, PTL

\* Authority once lost does not return, whatever late messages and pending reports do.
THEOREM LossIsFinal == Spec => LostAuthorityIsFinal
<1>1. Consistent /\ [Next]_vars =>
          [\A a \in AttemptIds :
             is_terminal_state(attempts[a].state) \/ attempts[a].state = "Ambiguous"
                 => attempts'[a].state = attempts[a].state]_vars
  <2>1. ASSUME Consistent, [Next]_vars, NEW a \in AttemptIds, Lost(attempts[a].state)
        PROVE  attempts'[a].state = attempts[a].state
    BY <2>1, AttemptsStay, LostStates DEF Consistent
  <2>. QED BY <2>1 DEF Lost
<1>. QED BY <1>1, ConsistentInvariant, PTL DEF Spec, LostAuthorityIsFinal

\* The attempts of a step that did not exist before are those of build_assignment.
LEMMA AppearingAttempts ==
    ASSUME Consistent, [Next]_vars, NEW a \in AttemptIds,
           attempts[a].state = "Absent", attempts'[a].state # "Absent"
    PROVE  /\ attempts'[a].comp \in Compilations /\ Assignable(attempts'[a].comp)
           /\ attempts'[a].worker \in eligible_workers
           /\ attempts'[a].boot = workers[attempts'[a].worker].boot
<1>1. ~Evolving
  BY EvolvesFacts DEF Evolving
<1>2. PICK c \in Compilations, w \in Workers, v \in Workers, pair \in BOOLEAN : Assigning(c, w, v, pair)
  BY <1>1, AttemptSteps DEF Consistent
<1>3. Assignable(c)
  BY <1>2 DEF Assigning
<1>. QED BY <1>2, <1>3, AssigningFacts DEF Consistent, Inductive

\* A link unit is only attempted over children whose artifacts of their current
\* generation are authoritative.
THEOREM GateHolds == Spec => FanInGate
<1>1. Consistent /\ [Next]_vars =>
          [\A a \in AttemptIds :
             attempts[a].state = "Absent" /\ attempts'[a].state # "Absent" =>
               \A d \in Children[attempts'[a].comp] :
                   authoritative[d] # 0 /\ commits[authoritative[d]].gen = comps[d].gen]_vars
  <2>1. ASSUME Consistent, [Next]_vars, NEW a \in AttemptIds,
               attempts[a].state = "Absent", attempts'[a].state # "Absent",
               NEW d \in Children[attempts'[a].comp]
        PROVE  authoritative[d] # 0 /\ commits[authoritative[d]].gen = comps[d].gen
    <3>1. d \in Compilations
      BY <2>1, AppearingAttempts, CoordinatorAssumption
    <3>2. authoritative[d] # 0
      BY <2>1, AppearingAttempts DEF Assignable, ChildrenAuthoritative
    <3>. QED BY <2>1, <3>1, <3>2 DEF Consistent, Inductive, AuthorityExact, TypeOK
  <2>. QED BY <2>1
<1>. QED BY <1>1, ConsistentInvariant, PTL DEF Spec, FanInGate

\* pump() hands work to proven workers only: evidence, readiness and a session of this
\* epoch that speaks for the boot the attempt is bound to.
THEOREM WorkersAreProven == Spec => AssignedToProvenWorker
<1>1. Consistent /\ [Next]_vars =>
          [\A a \in AttemptIds :
             attempts[a].state = "Absent" /\ attempts'[a].state # "Absent" =>
               LET w == attempts'[a].worker
                   s == workers[w].session
               IN  /\ ~workers[w].fenced /\ workers[w].ready /\ workers[w].evidence
                   /\ s \in SessionIds /\ find_session(s) /\ sessions[s].open
                   /\ sessions[s].worker = w /\ sessions[s].boot = attempts'[a].boot]_vars
  <2>1. ASSUME Consistent, NEW w \in eligible_workers
        PROVE  /\ ~workers[w].fenced /\ workers[w].ready /\ workers[w].evidence
               /\ workers[w].session \in SessionIds /\ find_session(workers[w].session)
               /\ sessions[workers[w].session].open /\ sessions[workers[w].session].worker = w
               /\ sessions[workers[w].session].boot = workers[w].boot
    <3>1. /\ w \in Workers /\ w # Null /\ workers[w].session # 0
          /\ ~workers[w].fenced /\ workers[w].ready /\ workers[w].evidence
          /\ sessions[workers[w].session].open
      BY CoordinatorAssumption DEF eligible_workers
    <3>2. workers[w].session \in SessionIds
      BY <2>1, <3>1 DEF Consistent, Inductive, TypeOK, WorkerRecord
    <3>3. /\ sessions[workers[w].session].worker = w
          /\ sessions[workers[w].session].boot = workers[w].boot
          /\ sessions[workers[w].session].epoch = epoch
      BY <2>1, <3>1 DEF Consistent, SessionsAreOfBoots
    <3>. QED BY <3>1, <3>2, <3>3 DEF find_session
  <2>2. ASSUME Consistent, [Next]_vars, NEW a \in AttemptIds,
               attempts[a].state = "Absent", attempts'[a].state # "Absent"
        PROVE  LET w == attempts'[a].worker
                   s == workers[w].session
               IN  /\ ~workers[w].fenced /\ workers[w].ready /\ workers[w].evidence
                   /\ s \in SessionIds /\ find_session(s) /\ sessions[s].open
                   /\ sessions[s].worker = w /\ sessions[s].boot = attempts'[a].boot
    BY <2>1, <2>2, AppearingAttempts
  <2>. QED BY <2>2
<1>. QED BY <1>1, ConsistentInvariant, PTL DEF Spec, AssignedToProvenWorker
=============================================================================
