----------------------------- MODULE DurableTable -----------------------------
(***************************************************************************)
(* What the coordinator's persistence promises, whatever it is made of: a  *)
(* table to which requested writes are applied whole and in order.  A      *)
(* process that dies leaves every write that was applied; only one that    *)
(* dies while it is opening may fall back to a table of the time since the *)
(* last checkpoint.  After a write that failed there is no promise until   *)
(* the next checkpoint.                                                    *)
(***************************************************************************)
EXTENDS Sequences

CONSTANT Empty      \* the table of a new store

VARIABLES
    durable,        \* the table that a restart would find
    past,           \* the tables it was since the last checkpoint
    requested,      \* the writes of the running operation that are still to be made
    opening,        \* a process is opening the store and has written nothing yet
    failed          \* a write failed since the last checkpoint

tableVars == <<durable, past, requested, opening, failed>>

Init ==
    /\ durable = Empty
    /\ past = {Empty}
    /\ requested = <<>>
    /\ opening = FALSE
    /\ failed = FALSE

\* The table t after the write w; a write of an entity that t does not hold changes nothing.
Put(t, w) == [e \in DOMAIN t |-> IF e = w.entity THEN w.value ELSE t[e]]

Apply(w) ==
    /\ durable' = Put(durable, w)
    /\ past' = past \cup {durable'}

Open ==
    /\ requested = <<>>
    /\ opening' = TRUE
    /\ UNCHANGED <<durable, past, failed>>

Request ==
    /\ requested = <<>>
    /\ UNCHANGED <<durable, past, opening, failed>>

Write ==
    /\ requested # <<>>
    /\ Apply(Head(requested))
    /\ requested' = Tail(requested)
    /\ opening' = FALSE
    /\ UNCHANGED failed

Checkpoint ==
    /\ requested = <<>>
    /\ past' = {durable}
    /\ UNCHANGED <<durable, requested, opening, failed>>

\* The process dies: the write in progress is made or not.
Crash ==
    /\ \/ requested # <<>> /\ Apply(Head(requested))
       \/ UNCHANGED <<durable, past>>
    /\ requested' = <<>>
    /\ opening' = FALSE
    /\ UNCHANGED failed

\* It dies while it is opening.
Lose ==
    /\ opening
    /\ durable' \in past
    /\ durable' \in past'
    /\ past' \subseteq past
    /\ requested' = <<>>
    /\ opening' = FALSE
    /\ UNCHANGED failed

Fail == failed' = TRUE

Repair ==
    /\ failed
    /\ failed' = FALSE
    /\ past' = {durable'}

Next == Open \/ Request \/ Write \/ Checkpoint \/ Crash \/ Lose \/ Fail \/ Repair

Spec == Init /\ [][Next]_tableVars
=============================================================================
