--------------------------- MODULE PersistentStore ---------------------------
(***************************************************************************)
(* The snapshot and the append journal of src/persistence.cpp, and what a  *)
(* crash of the process leaves of them.  A record that was flushed and     *)
(* synced survives; one being written survives, is torn or is absent.      *)
(***************************************************************************)
EXTENDS Integers, Sequences

VARIABLES
    snapshot,   \* the snapshot file: the sequence number and the state it holds
    journal,    \* the journal file, a sequence of entries
    file,       \* "Closed"; "Reopening": truncated by open(), its entries still buffered;
                \* "Open"; "Renamed": a snapshot is in place, the journal not yet truncated
    kept,       \* the entries open() read and has to write back
    seq,        \* seq_
    faulted     \* an append failed since the journal was last truncated

storeVars == <<snapshot, journal, file, kept, seq, faulted>>

\* A journal record; one that is not whole fails its length or checksum test.
Entry(n, record, whole) == [seq |-> n, rec |-> record, whole |-> whole]

\* What append_raw may leave in a file that held j when it does not return success.
Written(j, n, record) == {j, Append(j, Entry(n, record, FALSE)), Append(j, Entry(n, record, TRUE))}

\* Where the scan in open() stops, and what it has accepted by then.
FirstDamage(j) ==
    CHOOSE i \in 1..(Len(j) + 1) :
        /\ i = Len(j) + 1 \/ ~j[i].whole
        /\ \A h \in 1..(i - 1) : j[h].whole

Undamaged_mutant_untruncated(j) == j
Undamaged(j) == SubSeq(j, 1, FirstDamage(j) - 1)

\* A valid record after the damage: open() refuses the journal.
Corrupt(j) == \E i \in FirstDamage(j)..Len(j) : j[i].whole

\* The entries open() hands over for replay: each raises seq_, which starts at the
\* snapshot's.
Applied(j, s) ==
    {i \in 1..Len(j) : j[i].seq > s /\ \A h \in 1..(i - 1) : j[h].seq < j[i].seq}

LastSeq(j, s) ==
    CHOOSE n \in {s} \cup {j[i].seq : i \in 1..Len(j)} :
        n >= s /\ \A i \in 1..Len(j) : n >= j[i].seq
-----------------------------------------------------------------------------
StoreInit(empty) ==
    /\ snapshot = [seq |-> 0, state |-> empty]
    /\ journal = <<>>
    /\ file = "Closed"
    /\ kept = <<>>
    /\ seq = 0
    /\ faulted = FALSE

\* open(): the journal is read, then opened with "w+b", which empties it; the good
\* entries are written back to the stream.
store_open ==
    /\ file = "Closed"
    /\ ~Corrupt(journal)
    /\ kept' = Undamaged(journal)
    /\ seq' = LastSeq(Undamaged(journal), snapshot.seq)
    /\ journal' = <<>>
    /\ file' = "Reopening"
    /\ UNCHANGED <<snapshot, faulted>>

append_mutant_seq(record) ==
    /\ file \in {"Reopening", "Open"}
    /\ journal' = Append(IF file = "Reopening" THEN kept ELSE journal,
                         Entry(seq + 1, record, TRUE))
    /\ kept' = <<>>
    /\ file' = "Open"
    /\ UNCHANGED <<snapshot, faulted, seq>>

\* append() succeeds; its flush also puts back what open() buffered.
append(record) ==
    /\ file \in {"Reopening", "Open"}
    /\ journal' = Append(IF file = "Reopening" THEN kept ELSE journal,
                         Entry(seq + 1, record, TRUE))
    /\ kept' = <<>>
    /\ seq' = seq + 1
    /\ file' = "Open"
    /\ UNCHANGED <<snapshot, faulted>>

\* append() returns an error and seq_ stays.
append_error(record) ==
    /\ file = "Open"
    /\ journal' \in Written(journal, seq + 1, record)
    /\ faulted' = TRUE
    /\ UNCHANGED <<snapshot, file, kept, seq>>

\* write_snapshot() up to the rename of the temporary file.
write_snapshot_mutant_ignored(state) ==
    /\ file = "Open"
    /\ file' = "Renamed"
    /\ UNCHANGED <<snapshot, journal, kept, seq, faulted>>
write_snapshot(state) ==
    /\ file = "Open"
    /\ snapshot' = [seq |-> seq, state |-> state]
    /\ file' = "Renamed"
    /\ UNCHANGED <<journal, kept, seq, faulted>>

truncate_journal ==
    /\ file = "Renamed"
    /\ journal' = <<>>
    /\ file' = "Open"
    /\ faulted' = FALSE
    /\ UNCHANGED <<snapshot, kept, seq>>

\* What of the buffered entries reached the file when the process dies in open().
Rewritten(j) ==
    {SubSeq(j, 1, n) : n \in 0..Len(j)}
    \cup {Append(SubSeq(j, 1, n), [j[n + 1] EXCEPT !.whole = FALSE]) : n \in 0..(Len(j) - 1)}

\* The process dies; pending is the sequence of records it was about to append.
store_crash(pending) ==
    /\ file # "Closed"
    /\ journal' \in
         (IF file = "Reopening" THEN Rewritten(kept) ELSE {journal})
         \cup (IF pending = <<>> THEN {}
               ELSE Written(IF file = "Reopening" THEN kept ELSE journal, seq + 1, pending[1]))
    /\ file' = "Closed"
    /\ kept' = <<>>
    /\ seq' = 0
    /\ UNCHANGED <<snapshot, faulted>>
=============================================================================
