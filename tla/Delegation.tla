----------------------------- MODULE Delegation -----------------------------
(***************************************************************************)
(* What the coordinator promises of the work it hands to processes that    *)
(* may die or fall silent: a task is handed to one worker and worked on    *)
(* once at most, its outcome is settled once, by what that worker made of  *)
(* it or by the loss of the worker, and of a worker that was lost nothing  *)
(* is asked or heard any more.                                             *)
(***************************************************************************)
CONSTANTS Tasks, Workers,
          Nobody            \* who holds a task that was not handed out

VARIABLES
    outcome,        \* of each task: "absent", "assigned", "reported", "failed" or "lost"
    holder,         \* the worker it was handed to
    work,           \* what that worker does with it: "none" yet, "underway" or "over"
    made,           \* whether its artifact was made
    gone            \* the workers that are lost

delegationVars == <<outcome, holder, work, made, gone>>

Init ==
    /\ outcome = [t \in Tasks |-> "absent"]
    /\ holder = [t \in Tasks |-> Nobody]
    /\ work = [t \in Tasks |-> "none"]
    /\ made = [t \in Tasks |-> FALSE]
    /\ gone = {}

Hand(t, w) ==
    /\ outcome[t] = "absent"
    /\ w \notin gone
    /\ outcome' = [outcome EXCEPT ![t] = "assigned"]
    /\ holder' = [holder EXCEPT ![t] = w]
    /\ UNCHANGED <<work, made, gone>>

\* The holder takes the task up, also if it was lost in the meantime, or turns it down.
Begin(t) ==
    /\ outcome[t] \in {"assigned", "lost"}
    /\ work[t] = "none"
    /\ work' \in {[work EXCEPT ![t] = w] : w \in {"underway", "over"}}
    /\ UNCHANGED <<outcome, holder, made, gone>>

\* A worker goes on with its tasks or ends them; several at once if it dies.
Proceed(w) ==
    /\ \A t \in Tasks :
           \/ work'[t] = work[t] /\ made'[t] = made[t]
           \/ /\ work[t] = "underway"
              /\ holder[t] = w
              /\ work'[t] \in {"underway", "over"}
              /\ made[t] => made'[t]
    /\ UNCHANGED <<outcome, holder, gone>>

\* The coordinator hears from a worker of tasks it is done with.
Hear(w) ==
    /\ w \notin gone
    /\ \A t \in Tasks :
           \/ outcome'[t] = outcome[t]
           \/ /\ outcome[t] = "assigned"
              /\ holder[t] = w
              /\ work[t] = "over"
              /\ outcome'[t] = "failed" \/ (outcome'[t] = "reported" /\ made[t])
    /\ UNCHANGED <<holder, work, made, gone>>

Lose(lost) ==
    /\ gone' = gone \cup lost
    /\ outcome' = [t \in Tasks |-> IF outcome[t] = "assigned" /\ holder[t] \in lost THEN "lost"
                                   ELSE outcome[t]]
    /\ UNCHANGED <<holder, work, made>>

Next ==
    \/ \E t \in Tasks : Begin(t) \/ \E w \in Workers : Hand(t, w)
    \/ \E w \in Workers : Proceed(w) \/ Hear(w)
    \/ \E lost \in SUBSET Workers : Lose(lost)

Spec == Init /\ [][Next]_delegationVars
=============================================================================
