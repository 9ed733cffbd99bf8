------------------------- MODULE CoordinatorLiveness -------------------------
(***************************************************************************)
(* Coordinator with a well behaved environment, to say what must happen    *)
(* eventually.  The client submits its request once and cancels nothing;   *)
(* each worker process holds one connection, loses it finitely often and   *)
(* reconnects; the coordinator is not restarted.                           *)
(*                                                                         *)
(* The fairness is what dc_coordinator and dc_worker do: the reactor calls *)
(* pump() in every turn and finishes each call it starts, and a worker     *)
(* that is connected reports ready, begins what it is assigned and, since  *)
(* every compile has a time limit, reports an output or a failure.         *)
(***************************************************************************)
EXTENDS Coordinator

Submit ==
    /\ \A c \in Compilations : comps[c].state = "Absent"
    /\ submit(FALSE)

Connected(w) == \E s \in SessionIds : find_session(s) /\ sessions[s].open /\ sessions[s].worker = w
Connect(w) ==
    /\ ~Connected(w)
    /\ \E b \in 1..MaxBoot, e \in Evidence : register_worker(w, b, e)

\* Sessions are lost only while there is an id left to reconnect with.
Lose(s) == nextSession <= MaxSession /\ disconnect_session(s)

Ready(s) ==
    /\ sessions[s].open /\ ~workers[sessions[s].worker].ready
    /\ mark_ready(s)

\* What the worker and the coordinator do next about an assigned attempt: begin it,
\* end the compile one way or another, decide the report.
Work(a) ==
    \/ begin_compile(a)
    \/ \E s \in SessionIds, d \in Digests : report_reserve(s, a, d)
    \/ /\ attempts[a].state # "Produced"    \* a worker ends a compile once
       /\ \E s \in SessionIds, code \in FailCodes : fail_attempt(s, a, code)
    \/ Reporting(a)

Join(w) == Connect(w) \/ \E s \in SessionIds : sessions[s].worker = w /\ Ready(s)

LiveNext ==
    \/ Submit
    \/ \E w \in Workers : Join(w)
    \/ \E s \in SessionIds : Lose(s)
    \/ pump
    \/ \E c \in Compilations : Pumping(c)
    \/ \E a \in AttemptIds : Work(a)
    \/ Disconnecting

\* A message is disabled while pump() holds the mutex, so what the reactor owes a
\* waiting message is strong fairness: it comes back to every connection.
Fairness ==
    /\ WF_vars(pump)
    /\ WF_vars(\E c \in Compilations : Pumping(c))
    /\ WF_vars(Disconnecting)
    /\ \A w \in Workers : SF_vars(Join(w))
    /\ \A a \in AttemptIds : SF_vars(Work(a))

FairSpec == Init /\ [][LiveNext]_vars /\ Fairness

Resolved(c) == comps[c].state \in {"Committed", "CacheHit", "Failed", "Cancelled", "Ambiguous"}

\* Failed after an artifact of it was reported: commit_locked refused the artifact, or
\* committed it and a session was lost that had an earlier, Ambiguous attempt of c.
FailedWithArtifact(c) ==
    /\ comps[c].state = "Failed"
    /\ \E a \in AttemptsOf(c) : attempts[a].cand # Null

\* A submitted unit is not left behind: whatever sessions are lost while it is
\* attempted, it ends up committed or given up, and a link over a child that is given up
\* is given up with it.  The one exception is a link whose child failed with an artifact.
EveryUnitResolved ==
    \A c \in Compilations :
        comps[c].state # "Absent" ~> Resolved(c) \/ \E d \in Children[c] : FailedWithArtifact(d)

\* No attempt keeps its commit authority for ever.
AuthorityIsTemporary ==
    \A a \in AttemptIds :
        holds_commit_authority(attempts[a].state) ~> ~holds_commit_authority(attempts[a].state)
=============================================================================
