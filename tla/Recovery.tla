------------------------------ MODULE Recovery ------------------------------
(***************************************************************************)
(* The coordinator over its store: what each handler appends and in which  *)
(* order, a crash between any two appends or inside one, and the replay in *)
(* Coordinator::open.  Of the coordinator's state it keeps what decides    *)
(* authority: compilations, commits and the authoritative table.  The      *)
(* mutex is held while todo is not empty.                                  *)
(***************************************************************************)
EXTENDS PersistentStore

CONSTANTS
    Compilations,
    MaxCommit, MaxGeneration, MaxCrashes, MaxFaults    \* bounds of the instance

CommitIds == 1..MaxCommit

ASSUME RecoveryAssumption ==
    /\ MaxCommit \in Nat /\ MaxGeneration \in Nat
    /\ MaxCrashes \in Nat /\ MaxFaults \in Nat
    /\ "None" \notin Compilations

VARIABLES
    mem,            \* detail::State in memory
    todo,           \* the appends the running handler has yet to make
    reply,          \* the commit it acknowledges when they are made
    serving,        \* Coordinator::open has returned
    served,         \* the last epoch in which the coordinator served
    acked,          \* every <<compilation, generation>> acknowledged as committed
    reused,         \* a commit took an id that another commit already had
    crashes, faults \* the number of crashes and of failed appends so far

history == <<served, acked, reused, crashes, faults>>
vars == <<storeVars, mem, todo, reply, serving, history>>

NoCommit == [comp |-> "None", gen |-> 0, superseded |-> FALSE]

\* detail::State as constructed.
EmptyState ==
    [epoch |-> 0,
     comps |-> [c \in Compilations |-> [state |-> "Absent", gen |-> 0]],
     commits |-> [k \in CommitIds |-> NoCommit],
     authoritative |-> [c \in Compilations |-> 0],
     nextCommit |-> 1]

HeaderRecord == [type |-> "Header"]
CompilationRecord(s, c) == [type |-> "Compilation", key |-> c, val |-> s.comps[c]]
CommitRecord(s, k) == [type |-> "Commit", key |-> k, val |-> s.commits[k]]

\* An append a handler makes; if it fails the handler returns with the state s in
\* memory and acknowledges answer.
Step(record, s, answer) == [rec |-> record, failed |-> s, answer |-> answer]

Init ==
    /\ StoreInit(EmptyState)
    /\ mem = EmptyState
    /\ todo = <<>>
    /\ reply = {}
    /\ serving = FALSE
    /\ served = 0
    /\ acked = {}
    /\ reused = FALSE
    /\ crashes = 0
    /\ faults = 0
-----------------------------------------------------------------------------
(***************************************************************************)
(* Coordinator::open.                                                      *)
(***************************************************************************)
Last(I) == CHOOSE i \in I : \A h \in I : h <= i

\* Replay over the snapshot s: the last record of an entity wins, and a commit
\* record makes its commit authoritative.  Header records are skipped, so the id
\* counters are the snapshot's.
Replay(s, j) ==
    LET applied == Applied(j, s.seq)
        OfComp(c) == {i \in applied : j[i].rec.type = "Compilation" /\ j[i].rec.key = c}
        OfCommit(k) == {i \in applied : j[i].rec.type = "Commit" /\ j[i].rec.key = k}
        For(c) == {i \in applied : j[i].rec.type = "Commit" /\ j[i].rec.val.comp = c}
    IN  [s.state EXCEPT
           !.comps = [c \in Compilations |->
               IF OfComp(c) = {} THEN @[c] ELSE j[Last(OfComp(c))].rec.val],
           !.commits = [k \in CommitIds |->
               IF OfCommit(k) = {} THEN @[k] ELSE j[Last(OfCommit(k))].rec.val],
           !.authoritative = [c \in Compilations |->
               IF For(c) = {} THEN @[c] ELSE j[Last(For(c))].rec.key]]

\* The restart after it: the epoch advances and unfinished work is queued again.
Restarted(s) ==
    [s EXCEPT !.epoch = @ + 1,
              !.comps = [c \in Compilations |->
                  IF @[c].state \in {"Absent", "Committed"} THEN @[c]
                  ELSE [@[c] EXCEPT !.state = IF s.authoritative[c] # 0 THEN "Committed"
                                                                        ELSE "Pending"]]]

open ==
    /\ store_open
    /\ mem' = Restarted(Replay(snapshot, Undamaged(journal)))
    /\ todo' = <<Step(HeaderRecord, EmptyState, {})>>
    /\ UNCHANGED <<reply, serving, history>>

\* Also the end of open(), maybe_snapshot() and close().
take_snapshot ==
    /\ todo = <<>>
    /\ write_snapshot(mem)
    /\ UNCHANGED <<mem, todo, reply, serving, history>>

finish_snapshot ==
    /\ truncate_journal
    /\ serving' = TRUE
    /\ served' = mem.epoch
    /\ UNCHANGED <<mem, todo, reply, acked, reused, crashes, faults>>
-----------------------------------------------------------------------------
(***************************************************************************)
(* Handlers: memory first, then the appends in order.                      *)
(***************************************************************************)
Idle == serving /\ file = "Open" /\ todo = <<>>

\* A handler leaves the state s in memory, makes the appends and acknowledges answer.
Handle(s, appends, answer) ==
    /\ mem' = s
    /\ todo' = appends
    /\ reply' = answer
    /\ UNCHANGED <<storeVars, serving, served, acked, crashes, faults>>

submit(c) ==
    /\ Idle
    /\ mem.comps[c].state = "Absent"
    /\ LET s == [mem EXCEPT !.comps[c] = [state |-> "Pending", gen |-> 1]]
       IN  Handle(s, <<Step(CompilationRecord(s, c), s, {})>>, {})
    /\ UNCHANGED reused

Superseding_mutant_ignored(K) == mem.commits

\* The commits, those in K marked superseded.
Superseding(K) == [k \in CommitIds |-> [mem.commits[k] EXCEPT !.superseded = @ \/ k \in K]]

\* submit with force_rebuild.  If the commit record cannot be appended the handler
\* returns before authoritative and the compilation's state are reset.
rebuild(c) ==
    /\ Idle
    /\ mem.comps[c].state = "Committed"
    /\ mem.comps[c].gen < MaxGeneration
    /\ LET prior == {mem.authoritative[c]} \ {0}
           s == [mem EXCEPT !.comps[c].gen = @ + 1, !.commits = Superseding(prior)]
           t == [s EXCEPT !.comps[c].state = "Pending", !.authoritative[c] = 0]
           last == Step(CompilationRecord(t, c), t, {})
       IN  Handle(t, IF prior = {} THEN <<last>>
                     ELSE <<Step(CommitRecord(t, mem.authoritative[c]), s, {}), last>>, {})
    /\ UNCHANGED reused

\* A commit that stands in the way of a new one.
Standing(c) == mem.authoritative[c] # 0 /\ ~mem.commits[mem.authoritative[c]].superseded

\* commit_locked up to its last append; a failed append of the compilation's record
\* is ignored.
commit(c) ==
    /\ Idle
    /\ mem.comps[c].state = "Pending"
    /\ ~Standing(c)
    /\ mem.nextCommit \in CommitIds
    /\ LET k == mem.nextCommit
           answer == {<<c, mem.comps[c].gen>>}
           s == [mem EXCEPT !.comps[c].state = "Committed",
                            !.commits[k] = [comp |-> c, gen |-> mem.comps[c].gen, superseded |-> FALSE],
                            !.authoritative[c] = k,
                            !.nextCommit = @ + 1]
       IN  /\ Handle(s, <<Step(CommitRecord(s, k), s, {}),
                          Step(CompilationRecord(s, c), s, answer)>>, answer)
           /\ reused' = (reused \/ mem.commits[k] # NoCommit)

\* commit_locked when an equal artifact is authoritative already.
deduplicate(c) ==
    /\ Idle
    /\ mem.comps[c].state = "Pending"
    /\ Standing(c)
    /\ LET prior == mem.commits[mem.authoritative[c]]
           answer == {<<prior.comp, prior.gen>>}
           s == [mem EXCEPT !.comps[c].state = "Committed"]
       IN  Handle(s, <<Step(CompilationRecord(s, c), s, answer)>>, answer)
    /\ UNCHANGED reused

persist ==
    /\ todo # <<>>
    /\ append(Head(todo).rec)
    /\ todo' = Tail(todo)
    /\ reply' = IF Tail(todo) = <<>> THEN {} ELSE reply
    /\ acked' = IF Tail(todo) = <<>> THEN acked \cup reply ELSE acked
    /\ UNCHANGED <<mem, serving, served, reused, crashes, faults>>

persist_error ==
    /\ serving
    /\ todo # <<>>
    /\ faults < MaxFaults
    /\ append_error(Head(todo).rec)
    /\ mem' = Head(todo).failed
    /\ todo' = <<>>
    /\ reply' = {}
    /\ acked' = acked \cup Head(todo).answer
    /\ faults' = faults + 1
    /\ UNCHANGED <<serving, served, reused, crashes>>

\* The process dies; the next one starts with nothing in memory.
crash ==
    /\ crashes < MaxCrashes
    /\ store_crash([i \in DOMAIN todo |-> todo[i].rec])
    /\ mem' = EmptyState
    /\ todo' = <<>>
    /\ reply' = {}
    /\ serving' = FALSE
    /\ crashes' = crashes + 1
    /\ UNCHANGED <<served, acked, reused, faults>>

Next ==
    \/ open
    \/ take_snapshot
    \/ finish_snapshot
    \/ \E c \in Compilations : submit(c) \/ rebuild(c) \/ commit(c) \/ deduplicate(c)
    \/ persist
    \/ persist_error
    \/ crash

Spec == Init /\ [][Next]_vars
-----------------------------------------------------------------------------
\* No commit, or one of c that was superseded.
Revivable(c, k) == k = 0 \/ (mem.commits[k].comp = c /\ mem.commits[k].superseded)

\* The replay of what is on disk gives back the compilations, the commits and the
\* authority in memory, whenever no handler is running and no append has failed:
\* crashes between appends, inside an append, inside open() and between a snapshot
\* and the truncation of the journal included.  The authority is given back as long
\* as no commit id was issued twice (AcknowledgedCommitIsKept).
ReplayGivesMemory ==
    serving /\ file # "Reopening" /\ todo = <<>> /\ ~faulted =>
        LET r == Replay(snapshot, Undamaged(journal)) IN
        /\ r.comps = mem.comps
        /\ r.commits = mem.commits
        /\ \A c \in Compilations :
               mem.authoritative[c] # 0 /\ ~reused => r.authoritative[c] = mem.authoritative[c]

\* A compilation without authority gets none from the replay but that of a commit which
\* force_rebuild superseded: the old commit can come back, never a foreign or standing one.
OnlySupersededRevived ==
    serving /\ file # "Reopening" /\ todo = <<>> /\ ~faulted /\ ~reused =>
        \A c \in Compilations :
            mem.authoritative[c] = 0 =>
                Revivable(c, Replay(snapshot, Undamaged(journal)).authoritative[c])

\* A crash, wherever it happens, leaves a journal that open() accepts: it is never
\* mistaken for corruption.
CrashIsNotCorruption == ~faulted => ~Corrupt(journal)

\* The epoch a new process takes is one in which no process ever served, even if
\* earlier processes died inside open().
EpochIsFresh == file # "Closed" /\ ~serving => mem.epoch > served

\* README: "a commit acknowledgement always corresponds to state a restarted
\* coordinator can recover".
AcknowledgedCommitIsKept ==
    serving => \A a \in acked : \E k \in CommitIds :
                   mem.commits[k].comp = a[1] /\ mem.commits[k].gen = a[2]
-----------------------------------------------------------------------------
(***************************************************************************)
(* The table that the store keeps: the generation of every compilation and *)
(* every commit.  A restart changes neither.                               *)
(***************************************************************************)
Entities == ({"Compilation"} \X Compilations) \cup ({"Commit"} \X CommitIds)

TableOf(s) ==
    [e \in Entities |-> IF e[1] = "Compilation" THEN s.comps[e[2]].gen ELSE s.commits[e[2]]]

\* What the append of a record writes; of a header, nothing that the table holds.
WriteOf(record) ==
    IF record = HeaderRecord THEN [entity |-> <<"Header", 0>>, value |-> 0]
    ELSE [entity |-> <<record.type, record.key>>,
          value |-> IF record.type = "Compilation" THEN record.val.gen ELSE record.val]

\* The entries of the journal, once what open() buffered is written back.
OnDisk == IF file = "Reopening" THEN kept ELSE journal

\* The entries that the next open() accepts, what a replay of entries j over the snapshot s
\* recovers, and what it recovers from the prefixes of j.
Intact == Undamaged(OnDisk)
Recovered(s, j) == TableOf(Replay(s, j))
RecoveredPrefixes(s, j) == {Recovered(s, SubSeq(j, 1, n)) : n \in 0..Len(j)}

Store == INSTANCE DurableTable WITH
    Empty <- TableOf(EmptyState),
    durable <- Recovered(snapshot, Intact),
    past <- RecoveredPrefixes(snapshot, Intact),
    requested <- [i \in 1..Len(todo) |-> WriteOf(todo[i].rec)],
    opening <- file = "Reopening",
    failed <- faulted

\* PersistentStore and the replay are a table with atomic, ordered and durable writes: an
\* append that returned is found by the next process, one during which the process dies is
\* found whole or not at all, a snapshot changes nothing, and only a crash inside open()
\* can take back what was there.
ImplementsDurableTable == Store!Spec
-----------------------------------------------------------------------------
(***************************************************************************)
(* Why they hold: the types, and three relations between memory and disk   *)
(* that every step keeps.                                                  *)
(***************************************************************************)
Compilation == [state : {"Absent", "Pending", "Committed"}, gen : Nat]
Commit == [comp : Compilations \cup {"None"}, gen : Nat, superseded : BOOLEAN]

State ==
    [epoch : Nat,
     comps : [Compilations -> Compilation],
     commits : [CommitIds -> Commit],
     authoritative : [Compilations -> CommitIds \cup {0}],
     nextCommit : Nat]

Record ==
    {HeaderRecord}
    \cup [type : {"Compilation"}, key : Compilations, val : Compilation]
    \cup [type : {"Commit"}, key : CommitIds, val : Commit]

JournalEntry == [seq : Nat, rec : Record, whole : BOOLEAN]
Acknowledgements == SUBSET ((Compilations \cup {"None"}) \X Nat)
Appending == [rec : Record, failed : State, answer : Acknowledgements]

\* Every variable keeps its type through handlers, failed appends, crashes and replays.
TypeOK ==
    /\ snapshot \in [seq : Nat, state : State]
    /\ journal \in Seq(JournalEntry)
    /\ file \in {"Closed", "Reopening", "Open", "Renamed"}
    /\ kept \in Seq(JournalEntry)
    /\ seq \in Nat
    /\ faulted \in BOOLEAN
    /\ mem \in State
    /\ todo \in Seq(Appending)
    /\ reply \in Acknowledgements
    /\ serving \in BOOLEAN
    /\ served \in Nat
    /\ acked \in Acknowledgements
    /\ reused \in BOOLEAN
    /\ crashes \in Nat
    /\ faults \in Nat

\* The snapshot that is about to make the journal obsolete holds what is in memory, and
\* nothing is appended in between, nor while no process runs.
SnapshotHoldsMemory ==
    /\ file = "Renamed" => snapshot = [seq |-> seq, state |-> mem]
    /\ file \in {"Closed", "Renamed"} => todo = <<>>

\* The snapshot is of no earlier epoch than the last that was served, so open() moves past it.
EpochsRise ==
    /\ served <= snapshot.state.epoch
    /\ file \in {"Closed", "Reopening"} => ~serving
    /\ file # "Closed" => IF serving THEN mem.epoch = served ELSE mem.epoch > served
    /\ serving => \A i \in 1..Len(todo) : todo[i].failed.epoch = mem.epoch

\* Only the last entry of a journal can be torn, and only once the process has died.
OnlyTheTailIsTorn ==
    /\ file # "Reopening" => kept = <<>>
    /\ \A i \in 1..Len(kept) : kept[i].whole
    /\ ~faulted => \A i \in 1..Len(journal) : journal[i].whole \/ (i = Len(journal) /\ file = "Closed")

IsCommit(r) == r.type = "Commit"

\* A compilation's authoritative commit is one of that compilation.
Owned(s) ==
    \A c \in Compilations :
        LET k == s.authoritative[c]
        IN  k # 0 => s.commits[k] # NoCommit /\ s.commits[k].comp = c

\* The entries of j that open() would apply to the snapshot s give each commit id to one
\* compilation, and the snapshot gives it to no other.
DiskAgrees(s, j) ==
    \A i \in 1..Len(j) :
        LET k == j[i].rec.key
            v == j[i].rec.val
        IN  IsCommit(j[i].rec) /\ j[i].seq > s.seq =>
                /\ v # NoCommit
                /\ s.state.commits[k] # NoCommit => s.state.commits[k].comp = v.comp
                /\ \A h \in 1..Len(j) :
                       IsCommit(j[h].rec) /\ j[h].seq > s.seq /\ j[h].rec.key = k
                           => j[h].rec.val.comp = v.comp

\* The table holds commit k, of the compilation that v names.
Covers(table, k, v) == v # NoCommit /\ table[k] # NoCommit /\ table[k].comp = v.comp

\* As long as no commit id was issued twice, an id belongs to one compilation: in memory, in
\* the snapshot, in the journal and in what a failed handler leaves behind.
IdsAreOwned ==
    /\ file # "Closed" /\ ~serving =>
           /\ \A i \in 1..Len(OnDisk) : OnDisk[i].seq <= seq
           /\ \A i \in 1..Len(todo) : todo[i].rec = HeaderRecord
    /\ ~reused =>
        /\ Owned(snapshot.state)
        /\ file # "Closed" => Owned(mem)
        /\ ~serving => DiskAgrees(snapshot, OnDisk)
        /\ serving =>
            /\ \A i \in 1..Len(journal) :
                   IsCommit(journal[i].rec) =>
                       Covers(mem.commits, journal[i].rec.key, journal[i].rec.val)
            /\ \A k \in CommitIds :
                   snapshot.state.commits[k] # NoCommit =>
                       Covers(mem.commits, k, snapshot.state.commits[k])
            /\ \A i \in 1..Len(todo) :
                   /\ IsCommit(todo[i].rec) => Covers(mem.commits, todo[i].rec.key, todo[i].rec.val)
                   /\ todo[i].failed.commits = mem.commits
                   /\ Owned(todo[i].failed)

\* The last of the entries j[i] with i in I holds the value v; if there are none, the snapshot's
\* value old is v.  LastKey says it of the entry's key.
LastValue(j, I, old, v) ==
    IF I = {} THEN old = v ELSE \E i \in I : (\A h \in I : h <= i) /\ j[i].rec.val = v

LastKey(j, I, old, v) ==
    IF I = {} THEN old = v ELSE \E i \in I : (\A h \in I : h <= i) /\ j[i].rec.key = v

OfKey(j, type, key) == {i \in 1..Len(j) : j[i].rec.type = type /\ j[i].rec.key = key}
OfCompilation(j, c) == {i \in 1..Len(j) : IsCommit(j[i].rec) /\ j[i].rec.val.comp = c}
Pending(type, key) == \E i \in 1..Len(todo) : todo[i].rec.type = type /\ todo[i].rec.key = key

InSequence ==
    /\ snapshot.seq <= seq
    /\ \A i \in 1..Len(journal) :
           /\ journal[i].seq <= seq
           /\ file = "Open" => journal[i].seq > snapshot.seq
           /\ \A h \in 1..(i - 1) : journal[h].seq < journal[i].seq

AppendsAreOfMemory ==
    \A i \in 1..Len(todo) :
        LET r == todo[i].rec
        IN  /\ r # HeaderRecord
            /\ r.type = "Compilation" => r.val = mem.comps[r.key]
            /\ IsCommit(r) =>
                   /\ r.val = mem.commits[r.key]
                   /\ ~reused /\ r.val.comp \in Compilations =>
                          \/ mem.authoritative[r.val.comp] = r.key
                          \/ mem.authoritative[r.val.comp] = 0 /\ r.val.superseded

CompilationsOnDisk ==
    \A c \in Compilations :
        \/ Pending("Compilation", c)
        \/ LastValue(journal, OfKey(journal, "Compilation", c),
                     snapshot.state.comps[c], mem.comps[c])

CommitsOnDisk ==
    \A k \in CommitIds :
        \/ Pending("Commit", k)
        \/ LastValue(journal, OfKey(journal, "Commit", k),
                     snapshot.state.commits[k], mem.commits[k])

AuthorityOnDisk ==
    \A c \in Compilations :
        mem.authoritative[c] # 0 /\ ~reused =>
            \/ \E i \in 1..Len(todo) : IsCommit(todo[i].rec) /\ todo[i].rec.val.comp = c
            \/ LastKey(journal, OfCompilation(journal, c),
                       snapshot.state.authoritative[c], mem.authoritative[c])

TakenAuthorityOnDisk ==
    \A c \in Compilations :
        mem.authoritative[c] = 0 /\ ~reused =>
            \E k \in CommitIds \cup {0} :
                /\ Revivable(c, k)
                /\ LastKey(journal, OfCompilation(journal, c),
                           snapshot.state.authoritative[c], k)

\* While no append has failed, the journal of a serving process is in sequence after the
\* snapshot, and what is not about to be appended is on disk as in memory.
DiskFollowsMemory ==
    serving /\ ~faulted =>
        /\ InSequence
        /\ AppendsAreOfMemory
        /\ file = "Open" => CompilationsOnDisk /\ CommitsOnDisk /\ AuthorityOnDisk
                                             /\ TakenAuthorityOnDisk

\* Until the process serves, what it has in memory is what it recovered, and its sequence
\* numbers follow those on disk.
MemoryIsRecovered ==
    file # "Closed" /\ ~serving /\ ~faulted =>
        /\ snapshot.seq <= seq
        /\ TableOf(mem) = Recovered(snapshot, Intact)

\* The inductive invariant: the types and the relations above hold together in every state,
\* crashes, failed appends and restarts included.
Recoverable ==
    /\ TypeOK
    /\ SnapshotHoldsMemory
    /\ EpochsRise
    /\ OnlyTheTailIsTorn
    /\ IdsAreOwned
    /\ DiskFollowsMemory
    /\ MemoryIsRecovered
=============================================================================
