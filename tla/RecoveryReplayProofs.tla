------------------------- MODULE RecoveryReplayProofs -------------------------
(***************************************************************************)
(* What a restart recovers: commit ids keep their compilation across       *)
(* crashes, failed appends and replays, and the journal of a serving       *)
(* process gives back what it has in memory.                               *)
(***************************************************************************)
EXTENDS RecoveryTableProofs

(***************************************************************************)
(* A commit id belongs to one compilation.                                 *)
(***************************************************************************)

\* A part of a file that agrees agrees.
LEMMA PartAgrees ==
    ASSUME NEW s, NEW j, NEW w, DiskAgrees(s, j),
           \A i \in 1..Len(w) :
               \/ ~IsCommit(w[i].rec)
               \/ \E h \in 1..Len(j) : w[i].seq = j[h].seq /\ w[i].rec = j[h].rec
    PROVE  DiskAgrees(s, w)
<1> SUFFICES ASSUME NEW i \in 1..Len(w), IsCommit(w[i].rec), w[i].seq > s.seq
             PROVE  LET k == w[i].rec.key
                        v == w[i].rec.val
                    IN  /\ v # NoCommit
                        /\ s.state.commits[k] # NoCommit => s.state.commits[k].comp = v.comp
                        /\ \A h \in 1..Len(w) :
                               IsCommit(w[h].rec) /\ w[h].seq > s.seq /\ w[h].rec.key = k
                                   => w[h].rec.val.comp = v.comp
  BY DEF DiskAgrees
<1>1. PICK a \in 1..Len(j) : w[i].seq = j[a].seq /\ w[i].rec = j[a].rec
  OBVIOUS
<1>2. /\ j[a].rec.val # NoCommit
      /\ s.state.commits[j[a].rec.key] # NoCommit =>
             s.state.commits[j[a].rec.key].comp = j[a].rec.val.comp
      /\ \A b \in 1..Len(j) :
             IsCommit(j[b].rec) /\ j[b].seq > s.seq /\ j[b].rec.key = j[a].rec.key
                 => j[b].rec.val.comp = j[a].rec.val.comp
  BY <1>1 DEF DiskAgrees
<1>3. ASSUME NEW h \in 1..Len(w), IsCommit(w[h].rec), w[h].seq > s.seq, w[h].rec.key = w[i].rec.key
      PROVE  w[h].rec.val.comp = w[i].rec.val.comp
  <2>1. PICK b \in 1..Len(j) : w[h].seq = j[b].seq /\ w[h].rec = j[b].rec
    BY <1>3
  <2> QED BY <1>1, <1>2, <1>3, <2>1
<1> QED BY <1>1, <1>2, <1>3

\* A file of entries that one table covers agrees, if the table covers the snapshot too.
LEMMA CoveredAgrees ==
    ASSUME NEW s, NEW table, NEW w,
           \A i \in 1..Len(w) : IsCommit(w[i].rec) =>
               w[i].rec.key \in CommitIds /\ Covers(table, w[i].rec.key, w[i].rec.val),
           \A k \in CommitIds : s.state.commits[k] # NoCommit => Covers(table, k, s.state.commits[k])
    PROVE  DiskAgrees(s, w)
<1> SUFFICES ASSUME NEW i \in 1..Len(w), IsCommit(w[i].rec)
             PROVE  LET k == w[i].rec.key
                        v == w[i].rec.val
                    IN  /\ v # NoCommit
                        /\ s.state.commits[k] # NoCommit => s.state.commits[k].comp = v.comp
                        /\ \A h \in 1..Len(w) :
                               IsCommit(w[h].rec) /\ w[h].seq > s.seq /\ w[h].rec.key = k
                                   => w[h].rec.val.comp = v.comp
  BY DEF DiskAgrees
<1>1. w[i].rec.key \in CommitIds /\ Covers(table, w[i].rec.key, w[i].rec.val)
  OBVIOUS
<1>2. \A h \in 1..Len(w) :
          IsCommit(w[h].rec) /\ w[h].rec.key = w[i].rec.key => Covers(table, w[i].rec.key, w[h].rec.val)
  OBVIOUS
<1> QED BY <1>1, <1>2 DEF Covers

\* The replay of a file that agrees with a snapshot in which authority is owned: the commit
\* that becomes authoritative is of the compilation, also when its record was written again.
LEMMA ReplayOwns ==
    ASSUME NEW s \in [seq : Nat, state : State], NEW j \in Seq(JournalEntry),
           Owned(s.state), DiskAgrees(s, j)
    PROVE  Owned(Replay(s, j))
<1> DEFINE applied == Applied(j, s.seq)
           OfComp(c) == {i \in applied : j[i].rec.type = "Compilation" /\ j[i].rec.key = c}
           OfCommit(k) == {i \in applied : j[i].rec.type = "Commit" /\ j[i].rec.key = k}
           For(c) == {i \in applied : j[i].rec.type = "Commit" /\ j[i].rec.val.comp = c}
           comps == [c \in Compilations |->
               IF OfComp(c) = {} THEN s.state.comps[c] ELSE j[Last(OfComp(c))].rec.val]
           commits == [k \in CommitIds |->
               IF OfCommit(k) = {} THEN s.state.commits[k] ELSE j[Last(OfCommit(k))].rec.val]
           auth == [c \in Compilations |->
               IF For(c) = {} THEN s.state.authoritative[c] ELSE j[Last(For(c))].rec.key]
<1>1. applied \subseteq 1..Len(j) /\ Len(j) \in Nat /\ \A i \in applied : j[i].seq > s.seq
  BY DEF Applied
<1>2. Replay(s, j) = [s.state EXCEPT !.comps = comps, !.commits = commits, !.authoritative = auth]
  BY DEF Replay
<1> HIDE DEF applied
<1>3. Replay(s, j).commits = commits /\ Replay(s, j).authoritative = auth
  <2> HIDE DEF comps, commits, auth
  <2> QED BY <1>2 DEF State
<1> SUFFICES ASSUME NEW c \in Compilations, auth[c] # 0
             PROVE  commits[auth[c]] # NoCommit /\ commits[auth[c]].comp = c
  BY <1>3 DEF Owned
<1>4. \A i \in applied : i \in 1..Len(j) /\ j[i].rec \in Record
  BY <1>1, EntryTypes
\* The last record of a commit id, if there is one, is of the compilation to which a record
\* or the snapshot gives the id.
<1>5. ASSUME NEW k \in CommitIds, OfCommit(k) # {}
      PROVE  /\ commits[k] # NoCommit
             /\ s.state.commits[k] # NoCommit => commits[k].comp = s.state.commits[k].comp
             /\ \A h \in OfCommit(k) : j[h].rec.val.comp = commits[k].comp
  <2> DEFINE l == Last(OfCommit(k))
  <2>1. l \in OfCommit(k)
    BY <1>1, <1>5, LastOf
  <2>2. commits[k] = j[l].rec.val
    BY <1>5
  <2> HIDE DEF l
  <2>3. l \in 1..Len(j) /\ IsCommit(j[l].rec) /\ j[l].seq > s.seq /\ j[l].rec.key = k
    BY <1>1, <2>1 DEF IsCommit
  <2>4. \A h \in OfCommit(k) : h \in 1..Len(j) /\ IsCommit(j[h].rec) /\ j[h].seq > s.seq /\ j[h].rec.key = k
    BY <1>1 DEF IsCommit
  <2> QED BY <2>2, <2>3, <2>4 DEF DiskAgrees
<1>6. CASE For(c) = {}
  <2> DEFINE k == s.state.authoritative[c]
  <2>1. auth[c] = k /\ k # 0
    BY <1>6
  <2>2. k \in CommitIds
    BY <2>1 DEF State
  <2>3. s.state.commits[k] # NoCommit /\ s.state.commits[k].comp = c
    BY <2>1 DEF Owned
  <2>4. OfCommit(k) = {} => commits[k] = s.state.commits[k]
    BY <2>2
  <2> HIDE DEF commits, auth, For
  <2> QED BY <1>5, <2>1, <2>2, <2>3, <2>4
<1>7. CASE For(c) # {}
  <2> DEFINE l == Last(For(c))
             k == j[l].rec.key
  <2>1. l \in For(c)
    BY <1>1, <1>7, LastOf
  <2>2. auth[c] = k
    BY <1>7
  <2> HIDE DEF l
  <2>3. k \in CommitIds /\ l \in OfCommit(k) /\ j[l].rec.val.comp = c
    BY <1>4, <2>1, RecordTypes DEF IsCommit
  <2> HIDE DEF commits, auth, For
  <2> QED BY <1>5, <2>2, <2>3
<1> QED BY <1>6, <1>7

\* While ids are not issued twice, a handler keeps the compilation of every commit and owns
\* what it appends and what it leaves behind if it fails.
LEMMA HandlerOwns ==
    ASSUME TypeOK, Owned(mem), NEW c \in Compilations,
           submit(c) \/ rebuild(c) \/ commit(c) \/ deduplicate(c), ~reused'
    PROVE  /\ ~reused
           /\ \A k \in CommitIds : mem.commits[k] # NoCommit => Covers(mem'.commits, k, mem.commits[k])
           /\ Owned(mem')
           /\ \A i \in 1..Len(todo') :
                  /\ IsCommit(todo'[i].rec) => Covers(mem'.commits, todo'[i].rec.key, todo'[i].rec.val)
                  /\ todo'[i].failed.commits = mem'.commits
                  /\ Owned(todo'[i].failed)
<1>0. mem \in State
  BY DEF TypeOK
<1>1. CASE submit(c)
  <2>1. /\ mem'.commits = mem.commits /\ mem'.authoritative = mem.authoritative
        /\ todo' = <<Step(CompilationRecord(mem', c), mem', {})>> /\ reused' = reused
    BY <1>1, SubmitSteps
  <2>2. Owned(mem')
    BY <2>1 DEF Owned
  <2> QED BY <2>1, <2>2 DEF Covers, Step, CompilationRecord, IsCommit
<1>2. CASE deduplicate(c)
  <2>1. /\ mem'.commits = mem.commits /\ mem'.authoritative = mem.authoritative
        /\ todo' = <<Step(CompilationRecord(mem', c), mem', reply')>> /\ reused' = reused
    BY <1>2, DeduplicateSteps
  <2>2. Owned(mem')
    BY <2>1 DEF Owned
  <2> QED BY <2>1, <2>2 DEF Covers, Step, CompilationRecord, IsCommit
<1>3. CASE commit(c)
  <2> DEFINE k == mem.nextCommit
  <2>1. /\ k \in CommitIds
        /\ mem'.commits[k] # NoCommit /\ mem'.commits[k].comp = c
        /\ \A h \in CommitIds \ {k} : mem'.commits[h] = mem.commits[h]
        /\ mem'.authoritative[c] = k
        /\ \A d \in Compilations \ {c} : mem'.authoritative[d] = mem.authoritative[d]
        /\ todo' = <<Step(CommitRecord(mem', k), mem', {}), Step(CompilationRecord(mem', c), mem', reply')>>
        /\ reused' = (reused \/ mem.commits[k] # NoCommit)
    BY <1>3, CommitSteps
  <2>2. ~reused /\ mem.commits[k] = NoCommit
    BY <2>1
  <2> HIDE DEF k
  <2>3. Owned(mem')
    <3>1. \A d \in Compilations : mem.authoritative[d] \in CommitIds \cup {0}
      BY <1>0 DEF State
    <3> QED BY <2>1, <2>2, <3>1 DEF Owned
  <2>4. \A h \in CommitIds : mem.commits[h] # NoCommit => Covers(mem'.commits, h, mem.commits[h])
    BY <2>1, <2>2 DEF Covers
  <2>5. \A i \in 1..Len(todo') :
            /\ todo'[i].failed = mem'
            /\ \/ todo'[i].rec = CommitRecord(mem', k)
               \/ todo'[i].rec = CompilationRecord(mem', c)
    BY <2>1 DEF Step
  <2>6. \A i \in 1..Len(todo') :
            IsCommit(todo'[i].rec) => Covers(mem'.commits, todo'[i].rec.key, todo'[i].rec.val)
    BY <2>1, <2>5 DEF Covers, CommitRecord, CompilationRecord, IsCommit
  <2> QED BY <2>2, <2>3, <2>4, <2>5, <2>6
<1>4. CASE rebuild(c)
  <2> DEFINE k == mem.authoritative[c]
  <2>1. /\ \A h \in CommitIds :
               mem.commits[h] # NoCommit =>
                   mem'.commits[h] # NoCommit /\ mem'.commits[h].comp = mem.commits[h].comp
        /\ mem'.authoritative = [mem.authoritative EXCEPT ![c] = 0]
        /\ reused' = reused
    BY <1>4, RebuildSteps
  <2>2. PICK s \in State :
            /\ s.commits = mem'.commits
            /\ s.authoritative = mem.authoritative
            /\ todo' = IF k = 0 THEN <<Step(CompilationRecord(mem', c), mem', {})>>
                       ELSE <<Step(CommitRecord(mem', k), s, {}),
                              Step(CompilationRecord(mem', c), mem', {})>>
    BY <1>4, RebuildSteps
  <2>3. \A d \in Compilations : /\ mem.authoritative[d] \in CommitIds \cup {0}
                                /\ mem'.authoritative[d] = IF d = c THEN 0 ELSE mem.authoritative[d]
    BY <1>0, <2>1 DEF State
  <2>4. Owned(mem')
    BY <2>1, <2>3 DEF Owned
  <2>5. Owned(s)
    BY <2>1, <2>2, <2>3 DEF Owned
  <2>6. k # 0 => k \in CommitIds /\ mem'.commits[k] # NoCommit
    BY <2>1, <2>3 DEF Owned
  <2> HIDE DEF k
  <2>7. \A i \in 1..Len(todo') :
            /\ todo'[i].failed = mem' \/ todo'[i].failed = s
            /\ \/ k # 0 /\ todo'[i].rec = CommitRecord(mem', k)
               \/ todo'[i].rec = CompilationRecord(mem', c)
    BY <2>2 DEF Step
  <2>8. \A i \in 1..Len(todo') :
            IsCommit(todo'[i].rec) => Covers(mem'.commits, todo'[i].rec.key, todo'[i].rec.val)
    BY <2>6, <2>7 DEF Covers, CommitRecord, CompilationRecord, IsCommit
  <2>9. \A h \in CommitIds : mem.commits[h] # NoCommit => Covers(mem'.commits, h, mem.commits[h])
    BY <2>1 DEF Covers
  <2> QED BY <2>1, <2>2, <2>4, <2>5, <2>7, <2>8, <2>9
<1> QED BY <1>1, <1>2, <1>3, <1>4

\* Every step keeps the ids owned.
LEMMA IdsOwnedNext ==
    TypeOK /\ SnapshotHoldsMemory /\ EpochsRise /\ IdsAreOwned /\ [Next]_vars => IdsAreOwned'
<1> SUFFICES ASSUME TypeOK, SnapshotHoldsMemory, EpochsRise, IdsAreOwned, [Next]_vars
             PROVE  IdsAreOwned'
  OBVIOUS
<1>0. /\ snapshot \in [seq : Nat, state : State] /\ journal \in Seq(JournalEntry)
      /\ seq \in Nat /\ mem \in State /\ OnDisk \in Seq(JournalEntry)
  BY DEF TypeOK, OnDisk
<1>1. CASE open
  <2>1. Undamaged(journal) \in Seq(JournalEntry)
    BY <1>0, UndamagedPrefix
  <2>2. /\ mem' = Restarted(Replay(snapshot, Undamaged(journal)))
        /\ todo' = <<Step(HeaderRecord, EmptyState, {})>>
        /\ kept' = Undamaged(journal) /\ seq' = LastSeq(Undamaged(journal), snapshot.seq)
        /\ file = "Closed" /\ file' = "Reopening"
        /\ UNCHANGED <<snapshot, serving, reused>>
    BY <1>1 DEF open, store_open, history
  <2>3. ~serving' /\ OnDisk' = Undamaged(journal)
    BY <2>2 DEF EpochsRise, OnDisk
  <2>4. \A i \in 1..Len(OnDisk') : OnDisk'[i].seq <= seq'
    BY <1>0, <2>1, <2>2, <2>3, LastSeqBounds
  <2>5. \A i \in 1..Len(todo') : todo'[i].rec = HeaderRecord
    BY <2>2 DEF Step
  <2>6. ASSUME ~reused
        PROVE  Owned(snapshot.state) /\ DiskAgrees(snapshot, Undamaged(journal)) /\ Owned(mem')
    <3>1. Owned(snapshot.state) /\ DiskAgrees(snapshot, journal)
      BY <2>2, <2>6 DEF IdsAreOwned, EpochsRise, OnDisk
    <3>2. \A i \in 1..Len(Undamaged(journal)) :
              i \in 1..Len(journal) /\ Undamaged(journal)[i] = journal[i]
      BY <1>0, <2>1, UndamagedPrefix
    <3>3. DiskAgrees(snapshot, Undamaged(journal))
      BY <3>1, <3>2, PartAgrees
    <3>4. Owned(Replay(snapshot, Undamaged(journal)))
      BY <1>0, <2>1, <3>1, <3>3, ReplayOwns
    <3>5. Owned(mem')
      <4> DEFINE r == Replay(snapshot, Undamaged(journal))
      <4>1. r \in State
        BY <1>0, <2>1, ReplayTypes
      <4>2. mem' = Restarted(r)
        BY <2>2
      <4> HIDE DEF r
      <4>3. mem'.commits = r.commits /\ mem'.authoritative = r.authoritative
        BY <4>1, <4>2, RestartedTypes
      <4>4. Owned(r)
        BY <3>4 DEF r
      <4> QED BY <4>3, <4>4 DEF Owned
    <3> QED BY <3>1, <3>3, <3>5
  <2>7. ~reused' => /\ Owned(snapshot'.state)
                    /\ Owned(mem')
                    /\ DiskAgrees(snapshot', OnDisk')
    BY <2>2, <2>3, <2>6
  <2> QED BY <2>3, <2>4, <2>5, <2>7 DEF IdsAreOwned
<1>2. CASE take_snapshot
  <2>1. /\ file = "Open" /\ file' = "Renamed" /\ todo = <<>>
        /\ snapshot' = [seq |-> seq, state |-> mem]
        /\ UNCHANGED <<mem, todo, serving, reused, journal, kept, seq>>
    BY <1>2 DEF take_snapshot, write_snapshot, history
  <2>2. OnDisk' = OnDisk /\ OnDisk = journal
    BY <2>1 DEF OnDisk
  <2>3. ~serving => \A i \in 1..Len(OnDisk) : OnDisk[i].seq <= seq
    BY <2>1 DEF IdsAreOwned
  <2>4. ~serving => DiskAgrees(snapshot', OnDisk')
    <3> SUFFICES ASSUME ~serving PROVE \A i \in 1..Len(OnDisk) : ~(OnDisk[i].seq > snapshot'.seq)
      BY <2>2 DEF DiskAgrees
    <3>1. \A i \in 1..Len(OnDisk) : OnDisk[i].seq \in Nat
      BY <1>0, EntryTypes
    <3> QED BY <1>0, <2>1, <2>3, <3>1
  <2>5. \A k \in CommitIds :
            snapshot'.state.commits[k] # NoCommit => Covers(mem'.commits, k, snapshot'.state.commits[k])
    BY <2>1 DEF Covers
  <2>6. ASSUME ~reused PROVE Owned(mem)
    BY <2>1, <2>6 DEF IdsAreOwned
  <2>7. ASSUME ~reused, serving
        PROVE  \A i \in 1..Len(journal) :
                   IsCommit(journal[i].rec) =>
                       Covers(mem.commits, journal[i].rec.key, journal[i].rec.val)
    BY <2>7 DEF IdsAreOwned
  <2>8. Len(todo') = 0
    BY <2>1
  <2> QED BY <2>1, <2>2, <2>3, <2>4, <2>5, <2>6, <2>7, <2>8 DEF IdsAreOwned
<1>3. CASE finish_snapshot
  <2>1. /\ file = "Renamed" /\ file' = "Open" /\ journal' = <<>> /\ serving' = TRUE
        /\ snapshot.state = mem /\ todo = <<>>
        /\ UNCHANGED <<mem, todo, reused, snapshot>>
    BY <1>3 DEF finish_snapshot, truncate_journal, SnapshotHoldsMemory
  <2>2. ~reused => Owned(mem)
    BY <2>1 DEF IdsAreOwned
  <2>3. Len(todo') = 0 /\ Len(journal') = 0
    BY <2>1
  <2>4. \A k \in CommitIds :
            snapshot'.state.commits[k] # NoCommit => Covers(mem'.commits, k, snapshot'.state.commits[k])
    BY <2>1 DEF Covers
  <2> QED BY <2>1, <2>2, <2>3, <2>4 DEF IdsAreOwned
<1>4. ASSUME NEW c \in Compilations, submit(c) \/ rebuild(c) \/ commit(c) \/ deduplicate(c)
      PROVE  IdsAreOwned'
  <2>1. /\ serving /\ file = "Open"
        /\ UNCHANGED <<snapshot, journal, file, serving>>
    BY <1>4, HandlerSteps
  <2> SUFFICES ASSUME ~reused'
               PROVE  /\ Owned(snapshot'.state)
                      /\ Owned(mem')
                      /\ \A i \in 1..Len(journal') :
                             IsCommit(journal'[i].rec) =>
                                 Covers(mem'.commits, journal'[i].rec.key, journal'[i].rec.val)
                      /\ \A k \in CommitIds :
                             snapshot'.state.commits[k] # NoCommit =>
                                 Covers(mem'.commits, k, snapshot'.state.commits[k])
                      /\ \A i \in 1..Len(todo') :
                             /\ IsCommit(todo'[i].rec) =>
                                    Covers(mem'.commits, todo'[i].rec.key, todo'[i].rec.val)
                             /\ todo'[i].failed.commits = mem'.commits
                             /\ Owned(todo'[i].failed)
    BY <2>1 DEF IdsAreOwned
  <2>2. ~reused
    <3>1. reused' = reused \/ reused' = (reused \/ mem.commits[mem.nextCommit] # NoCommit)
      BY <1>4, SubmitSteps, RebuildSteps, CommitSteps, DeduplicateSteps
    <3> QED BY <3>1
  <2>3. /\ Owned(snapshot.state) /\ Owned(mem)
        /\ \A i \in 1..Len(journal) :
               IsCommit(journal[i].rec) =>
                   Covers(mem.commits, journal[i].rec.key, journal[i].rec.val)
        /\ \A k \in CommitIds :
               snapshot.state.commits[k] # NoCommit => Covers(mem.commits, k, snapshot.state.commits[k])
    BY <2>1, <2>2 DEF IdsAreOwned
  <2>4. /\ \A k \in CommitIds : mem.commits[k] # NoCommit => Covers(mem'.commits, k, mem.commits[k])
        /\ Owned(mem')
        /\ \A i \in 1..Len(todo') :
               /\ IsCommit(todo'[i].rec) => Covers(mem'.commits, todo'[i].rec.key, todo'[i].rec.val)
               /\ todo'[i].failed.commits = mem'.commits
               /\ Owned(todo'[i].failed)
    BY <1>4, <2>3, HandlerOwns
  <2>5. \A k \in CommitIds : \A v : Covers(mem.commits, k, v) => Covers(mem'.commits, k, v)
    BY <2>4 DEF Covers
  <2>6. \A i \in 1..Len(journal) : IsCommit(journal[i].rec) => journal[i].rec.key \in CommitIds
    BY <1>0, EntryTypes, RecordTypes
  <2> QED BY <2>1, <2>3, <2>4, <2>5, <2>6
<1>5. CASE persist
  <2> DEFINE n == Len(OnDisk) + 1
  <2>1. /\ todo # <<>> /\ todo' = Tail(todo) /\ append(todo[1].rec) /\ todo[1].rec \in Record
        /\ 1 \in 1..Len(todo)
        /\ UNCHANGED <<mem, serving, reused>>
    BY <1>5, TodoSteps DEF persist
  <2>2. /\ \A i \in 1..Len(OnDisk) : journal'[i] = OnDisk[i]
        /\ journal'[n].seq = seq + 1 /\ journal'[n].rec = todo[1].rec
        /\ \A i \in 1..Len(journal') : i = n \/ i \in 1..Len(OnDisk)
        /\ OnDisk' = journal' /\ seq' = seq + 1 /\ file' = "Open" /\ file \in {"Reopening", "Open"}
        /\ snapshot' = snapshot
    BY <2>1, AppendSteps
  <2> HIDE DEF n
  <2>3. \A i \in 1..Len(todo') : i + 1 \in 1..Len(todo) /\ todo'[i] = todo[i + 1]
    BY <2>1, TodoSteps
  <2>4. CASE ~serving
    <3>1. /\ \A i \in 1..Len(OnDisk) : OnDisk[i].seq <= seq
          /\ \A i \in 1..Len(todo) : todo[i].rec = HeaderRecord
      BY <2>2, <2>4 DEF IdsAreOwned
    <3>2. \A i \in 1..Len(OnDisk') : OnDisk'[i].seq <= seq'
      <4>1. \A i \in 1..Len(OnDisk) : OnDisk[i].seq \in Nat
        BY <1>0, EntryTypes
      <4> QED BY <1>0, <2>2, <3>1, <4>1
    <3>3. \A i \in 1..Len(todo') : todo'[i].rec = HeaderRecord
      BY <2>3, <3>1
    <3>4. ASSUME ~reused
          PROVE  Owned(snapshot.state) /\ Owned(mem) /\ DiskAgrees(snapshot, OnDisk')
      <4>1. Owned(snapshot.state) /\ Owned(mem) /\ DiskAgrees(snapshot, OnDisk)
        BY <2>2, <2>4, <3>4 DEF IdsAreOwned
      <4>2. ~IsCommit(journal'[n].rec)
        BY <2>1, <2>2, <3>1 DEF IsCommit, HeaderRecord
      <4>3. \A i \in 1..Len(OnDisk') :
                \/ ~IsCommit(OnDisk'[i].rec)
                \/ \E h \in 1..Len(OnDisk) : OnDisk'[i].seq = OnDisk[h].seq /\ OnDisk'[i].rec = OnDisk[h].rec
        BY <2>2, <4>2
      <4> QED BY <4>1, <4>3, PartAgrees
    <3> QED BY <2>1, <2>2, <2>4, <3>2, <3>3, <3>4 DEF IdsAreOwned
  <2>5. CASE serving
    <3>1. OnDisk = journal
      BY <2>5 DEF OnDisk, EpochsRise
    <3> SUFFICES ASSUME ~reused
                 PROVE  /\ Owned(snapshot.state) /\ Owned(mem)
                        /\ \A i \in 1..Len(journal') :
                               IsCommit(journal'[i].rec) =>
                                   Covers(mem.commits, journal'[i].rec.key, journal'[i].rec.val)
                        /\ \A k \in CommitIds :
                               snapshot.state.commits[k] # NoCommit =>
                                   Covers(mem.commits, k, snapshot.state.commits[k])
                        /\ \A i \in 1..Len(todo') :
                               /\ IsCommit(todo'[i].rec) =>
                                      Covers(mem.commits, todo'[i].rec.key, todo'[i].rec.val)
                               /\ todo'[i].failed.commits = mem.commits
                               /\ Owned(todo'[i].failed)
      BY <2>1, <2>2, <2>5 DEF IdsAreOwned
    <3>2. /\ Owned(snapshot.state) /\ Owned(mem)
          /\ \A i \in 1..Len(journal) :
                 IsCommit(journal[i].rec) =>
                     Covers(mem.commits, journal[i].rec.key, journal[i].rec.val)
          /\ \A k \in CommitIds :
                 snapshot.state.commits[k] # NoCommit => Covers(mem.commits, k, snapshot.state.commits[k])
          /\ \A i \in 1..Len(todo) :
                 /\ IsCommit(todo[i].rec) => Covers(mem.commits, todo[i].rec.key, todo[i].rec.val)
                 /\ todo[i].failed.commits = mem.commits
                 /\ Owned(todo[i].failed)
      BY <2>2, <2>5 DEF IdsAreOwned
    <3> QED BY <2>1, <2>2, <2>3, <3>1, <3>2
  <2> QED BY <2>4, <2>5
<1>6. CASE persist_error
  <2>1. /\ serving /\ todo # <<>> /\ todo' = <<>> /\ mem' = todo[1].failed
        /\ file = "Open" /\ journal' \in Written(journal, seq + 1, todo[1].rec)
        /\ 1 \in 1..Len(todo) /\ todo[1].rec \in Record
        /\ UNCHANGED <<snapshot, file, serving, reused>>
    BY <1>6, TodoSteps DEF persist_error, append_error
  <2>2. \A i \in 1..Len(journal') : \/ i \in 1..Len(journal) /\ journal'[i] = journal[i]
                                    \/ journal'[i].rec = todo[1].rec
    BY <1>0, <2>1, WrittenTypes
  <2> SUFFICES ASSUME ~reused
               PROVE  /\ Owned(snapshot.state) /\ Owned(mem')
                      /\ \A i \in 1..Len(journal') :
                             IsCommit(journal'[i].rec) =>
                                 Covers(mem'.commits, journal'[i].rec.key, journal'[i].rec.val)
                      /\ \A k \in CommitIds :
                             snapshot.state.commits[k] # NoCommit =>
                                 Covers(mem'.commits, k, snapshot.state.commits[k])
    <3>1. Len(todo') = 0
      BY <2>1
    <3> QED BY <2>1, <3>1 DEF IdsAreOwned
  <2>3. /\ Owned(snapshot.state)
        /\ \A i \in 1..Len(journal) :
               IsCommit(journal[i].rec) => Covers(mem.commits, journal[i].rec.key, journal[i].rec.val)
        /\ \A k \in CommitIds :
               snapshot.state.commits[k] # NoCommit => Covers(mem.commits, k, snapshot.state.commits[k])
        /\ IsCommit(todo[1].rec) => Covers(mem.commits, todo[1].rec.key, todo[1].rec.val)
        /\ todo[1].failed.commits = mem.commits
        /\ Owned(todo[1].failed)
    BY <2>1 DEF IdsAreOwned
  <2> QED BY <2>1, <2>2, <2>3
<1>7. CASE crash
  <2>1. /\ journal' \in Seq(JournalEntry)
        /\ \A i \in 1..Len(journal') :
               \/ \E h \in 1..Len(OnDisk) : journal'[i].seq = OnDisk[h].seq /\ journal'[i].rec = OnDisk[h].rec
               \/ \E h \in 1..Len(todo) : journal'[i].rec = todo[h].rec
        /\ file # "Closed" /\ file' = "Closed" /\ serving' = FALSE
        /\ UNCHANGED <<snapshot, reused>>
    BY <1>7, CrashSteps
  <2>2. OnDisk' = journal'
    BY <2>1 DEF OnDisk
  <2> SUFFICES ASSUME ~reused PROVE Owned(snapshot.state) /\ DiskAgrees(snapshot, journal')
    BY <2>1, <2>2 DEF IdsAreOwned
  <2>3. Owned(snapshot.state)
    BY DEF IdsAreOwned
  <2>4. CASE ~serving
    <3>1. DiskAgrees(snapshot, OnDisk) /\ \A i \in 1..Len(todo) : ~IsCommit(todo[i].rec)
      BY <2>1, <2>4 DEF IdsAreOwned, IsCommit, HeaderRecord
    <3>2. \A i \in 1..Len(journal') :
              \/ ~IsCommit(journal'[i].rec)
              \/ \E h \in 1..Len(OnDisk) : journal'[i].seq = OnDisk[h].seq /\ journal'[i].rec = OnDisk[h].rec
      BY <2>1, <3>1
    <3> QED BY <2>3, <3>1, <3>2, PartAgrees
  <2>5. CASE serving
    <3>1. OnDisk = journal
      BY <2>5 DEF OnDisk, EpochsRise
    <3>2. /\ \A i \in 1..Len(journal) :
                 IsCommit(journal[i].rec) => Covers(mem.commits, journal[i].rec.key, journal[i].rec.val)
          /\ \A k \in CommitIds :
                 snapshot.state.commits[k] # NoCommit => Covers(mem.commits, k, snapshot.state.commits[k])
          /\ \A i \in 1..Len(todo) :
                 IsCommit(todo[i].rec) => Covers(mem.commits, todo[i].rec.key, todo[i].rec.val)
      BY <2>5 DEF IdsAreOwned
    <3>3. \A i \in 1..Len(journal') : IsCommit(journal'[i].rec) => journal'[i].rec.key \in CommitIds
      BY <2>1, EntryTypes, RecordTypes
    <3>4. \A i \in 1..Len(journal') :
              IsCommit(journal'[i].rec) => Covers(mem.commits, journal'[i].rec.key, journal'[i].rec.val)
      BY <2>1, <3>1, <3>2
    <3> QED BY <2>3, <3>2, <3>3, <3>4, CoveredAgrees
  <2> QED BY <2>4, <2>5
<1>8. CASE UNCHANGED vars
  <2>1. /\ UNCHANGED <<snapshot, journal, file, seq, mem, todo, serving, reused>>
        /\ OnDisk' = OnDisk
    BY <1>8 DEF vars, storeVars, history, OnDisk
  <2> QED BY <2>1 DEF IdsAreOwned
<1> QED BY <1>1, <1>2, <1>3, <1>4, <1>5, <1>6, <1>7, <1>8 DEF Next
-----------------------------------------------------------------------------
(***************************************************************************)
(* The disk follows memory.                                                *)
(***************************************************************************)

\* A later entry about something else does not change what was last.
LEMMA LastKept ==
    ASSUME NEW j, NEW w, \A i \in 1..Len(j) : w[i] = j[i],
           NEW I, I \subseteq 1..Len(j), NEW old, NEW v
    PROVE  /\ LastValue(j, I, old, v) => LastValue(w, I, old, v)
           /\ LastKey(j, I, old, v) => LastKey(w, I, old, v)
BY DEF LastValue, LastKey

\* A later entry about an entity is the last.
LEMMA LastTaken ==
    ASSUME NEW n \in Nat, NEW w, NEW I, I \subseteq 1..n, NEW old
    PROVE  /\ LastValue(w, I \cup {n + 1}, old, w[n + 1].rec.val)
           /\ LastKey(w, I \cup {n + 1}, old, w[n + 1].rec.key)
<1>1. \A h \in I \cup {n + 1} : h <= n + 1
  OBVIOUS
<1> QED BY <1>1 DEF LastValue, LastKey

\* The entries of an entity, after one append.
LEMMA AppendedOf ==
    ASSUME NEW j, NEW w, NEW n, n = Len(j) + 1,
           \A i \in 1..Len(j) : w[i] = j[i],
           1..Len(w) = 1..Len(j) \cup {n}
    PROVE  /\ \A type, key :
                  OfKey(w, type, key) =
                      IF w[n].rec.type = type /\ w[n].rec.key = key
                      THEN OfKey(j, type, key) \cup {n} ELSE OfKey(j, type, key)
           /\ \A c : OfCompilation(w, c) =
                      IF IsCommit(w[n].rec) /\ w[n].rec.val.comp = c
                      THEN OfCompilation(j, c) \cup {n} ELSE OfCompilation(j, c)
           /\ \A type, key : OfKey(j, type, key) \subseteq 1..Len(j)
           /\ \A c : OfCompilation(j, c) \subseteq 1..Len(j)
<1>1. ASSUME NEW type, NEW key
      PROVE  OfKey(w, type, key) =
                 IF w[n].rec.type = type /\ w[n].rec.key = key
                 THEN OfKey(j, type, key) \cup {n} ELSE OfKey(j, type, key)
  BY DEF OfKey
<1>2. ASSUME NEW c
      PROVE  OfCompilation(w, c) =
                 IF IsCommit(w[n].rec) /\ w[n].rec.val.comp = c
                 THEN OfCompilation(j, c) \cup {n} ELSE OfCompilation(j, c)
  BY DEF OfCompilation
<1> QED BY <1>1, <1>2 DEF OfKey, OfCompilation

\* A handler that has not appended anything yet: what changed in memory is about to be
\* appended.
LEMMA HandlerPending ==
    ASSUME TypeOK, ~reused => Owned(mem),
           NEW c \in Compilations, submit(c) \/ rebuild(c) \/ commit(c) \/ deduplicate(c)
    PROVE  /\ AppendsAreOfMemory'
           /\ \A d \in Compilations : mem'.comps[d] = mem.comps[d] \/ Pending("Compilation", d)'
           /\ \A k \in CommitIds : mem'.commits[k] = mem.commits[k] \/ Pending("Commit", k)'
           /\ \A d \in Compilations :
                  \/ mem'.authoritative[d] = mem.authoritative[d]
                  \/ mem'.authoritative[d] = 0
                  \/ \E i \in 1..Len(todo') : IsCommit(todo'[i].rec) /\ todo'[i].rec.val.comp = d
           /\ reused => reused'
           /\ ~reused' =>
                  \A d \in Compilations :
                      /\ \A k \in CommitIds \cup {0} : Revivable(d, k) => Revivable(d, k)'
                      /\ \A k \in CommitIds :
                             mem.authoritative[d] = k /\ mem'.authoritative[d] = 0 => Revivable(d, k)'
<1>0. mem \in State
  BY DEF TypeOK
\* The appends of submit and deduplicate, and the second one of the others.
<1>1. ASSUME NEW a, todo' = <<Step(CompilationRecord(mem', c), mem', a)>>
      PROVE  /\ \A i \in 1..Len(todo') : todo'[i].rec = CompilationRecord(mem', c)
             /\ Pending("Compilation", c)'
  BY <1>1 DEF Pending, Step, CompilationRecord
<1>2. ASSUME NEW a, NEW k, NEW s,
             todo' = <<Step(CommitRecord(mem', k), s, {}), Step(CompilationRecord(mem', c), mem', a)>>
      PROVE  /\ \A i \in 1..Len(todo') : \/ todo'[i].rec = CommitRecord(mem', k)
                                         \/ todo'[i].rec = CompilationRecord(mem', c)
             /\ Pending("Commit", k)' /\ Pending("Compilation", c)'
             /\ 1 \in 1..Len(todo') /\ todo'[1].rec = CommitRecord(mem', k)
  <2>1. Len(todo') = 2
    BY <1>2
  <2>2. todo'[1].rec = CommitRecord(mem', k) /\ todo'[2].rec = CompilationRecord(mem', c)
    BY <1>2 DEF Step
  <2>3. \A i \in 1..Len(todo') : i = 1 \/ i = 2
    BY <2>1
  <2>4. 1 \in 1..Len(todo') /\ 2 \in 1..Len(todo')
    BY <2>1
  <2>5. Pending("Commit", k)' /\ Pending("Compilation", c)'
    BY <2>2, <2>4 DEF Pending, CommitRecord, CompilationRecord
  <2> QED BY <2>2, <2>3, <2>4, <2>5
<1>3. /\ CompilationRecord(mem', c) # HeaderRecord
      /\ CompilationRecord(mem', c).type = "Compilation"
      /\ CompilationRecord(mem', c).key = c
      /\ CompilationRecord(mem', c).val = mem'.comps[c]
      /\ ~IsCommit(CompilationRecord(mem', c))
  BY DEF CompilationRecord, HeaderRecord, IsCommit
<1>4. \A k : /\ CommitRecord(mem', k) # HeaderRecord
             /\ CommitRecord(mem', k).type # "Compilation"
             /\ CommitRecord(mem', k).key = k
             /\ CommitRecord(mem', k).val = mem'.commits[k]
             /\ IsCommit(CommitRecord(mem', k))
  BY DEF CommitRecord, HeaderRecord, IsCommit
<1>5. CASE submit(c) \/ deduplicate(c)
  <2>1. /\ mem'.commits = mem.commits
        /\ mem'.authoritative = mem.authoritative
        /\ \A d \in Compilations \ {c} : mem'.comps[d] = mem.comps[d]
        /\ \E a : todo' = <<Step(CompilationRecord(mem', c), mem', a)>>
        /\ reused' = reused
    BY <1>5, SubmitSteps, DeduplicateSteps
  <2>2. /\ \A i \in 1..Len(todo') : todo'[i].rec = CompilationRecord(mem', c)
        /\ Pending("Compilation", c)'
    BY <1>1, <2>1
  <2>3. AppendsAreOfMemory'
    BY <1>3, <2>2 DEF AppendsAreOfMemory
  <2>4. \A d, k : Revivable(d, k) => Revivable(d, k)'
    BY <2>1 DEF Revivable
  <2>5. 0 \notin CommitIds
    BY DEF CommitIds
  <2> QED BY <2>1, <2>2, <2>3, <2>4, <2>5
<1>6. CASE commit(c)
  <2>0. PICK k : k = mem.nextCommit
    OBVIOUS
  <2>1. /\ k \in CommitIds
        /\ mem'.commits[k].comp = c
        /\ \A h \in CommitIds \ {k} : mem'.commits[h] = mem.commits[h]
        /\ mem'.authoritative[c] = k
        /\ \A d \in Compilations \ {c} : mem'.authoritative[d] = mem.authoritative[d]
        /\ \A d \in Compilations \ {c} : mem'.comps[d] = mem.comps[d]
        /\ todo' = <<Step(CommitRecord(mem', k), mem', {}), Step(CompilationRecord(mem', c), mem', reply')>>
        /\ reused' = (reused \/ mem.commits[k] # NoCommit)
    BY <1>6, <2>0, CommitSteps
  <2>2. /\ \A i \in 1..Len(todo') : \/ todo'[i].rec = CommitRecord(mem', k)
                                    \/ todo'[i].rec = CompilationRecord(mem', c)
        /\ Pending("Commit", k)' /\ Pending("Compilation", c)'
        /\ 1 \in 1..Len(todo') /\ todo'[1].rec = CommitRecord(mem', k)
    BY <1>2, <2>1
  <2>3. AppendsAreOfMemory'
    BY <1>3, <1>4, <2>1, <2>2 DEF AppendsAreOfMemory
  <2>4. reused => reused'
    BY <2>1
  <2>5. \A d \in Compilations :
            \/ mem'.authoritative[d] = mem.authoritative[d]
            \/ IsCommit(todo'[1].rec) /\ todo'[1].rec.val.comp = d
    BY <1>4, <2>1, <2>2
  <2>6. 0 \notin CommitIds /\ "None" \notin Compilations
    BY RecoveryAssumption DEF CommitIds
  <2>7. \A d \in Compilations : \A h \in CommitIds :
            mem.authoritative[d] = h => mem'.authoritative[d] # 0
    BY <2>1, <2>6
  <2>8. ASSUME ~reused', NEW d \in Compilations, NEW h \in CommitIds \cup {0}, Revivable(d, h)
        PROVE  Revivable(d, h)'
    <3>1. CASE h = 0
      BY <3>1 DEF Revivable
    <3>2. CASE h # 0
      <4>1. h # k
        <5> SUFFICES ASSUME h = k PROVE FALSE
          OBVIOUS
        <5>1. mem.commits[k] = NoCommit
          BY <2>1, <2>8
        <5>2. mem.commits[k].comp = "None"
          BY <5>1 DEF NoCommit
        <5>3. mem.commits[k].comp = d
          BY <2>8, <3>2 DEF Revivable
        <5> QED BY <2>6, <5>2, <5>3
      <4> QED BY <2>1, <2>8, <3>2, <4>1 DEF Revivable
    <3> QED BY <3>1, <3>2
  <2> QED BY <2>1, <2>2, <2>3, <2>4, <2>5, <2>7, <2>8
<1>7. CASE rebuild(c)
  <2>0. PICK k : k = mem.authoritative[c]
    OBVIOUS
  <2>1. /\ \A h \in CommitIds \ {k} : mem'.commits[h] = mem.commits[h]
        /\ \A h \in CommitIds :
               mem.commits[h] # NoCommit => mem'.commits[h].comp = mem.commits[h].comp
        /\ \A h \in CommitIds :
               /\ mem'.commits[h].comp = mem.commits[h].comp
               /\ mem.commits[h].superseded \/ h = k => mem'.commits[h].superseded
        /\ mem'.authoritative = [mem.authoritative EXCEPT ![c] = 0]
        /\ \A d \in Compilations \ {c} : mem'.comps[d] = mem.comps[d]
        /\ reused' = reused
    BY <1>7, <2>0, RebuildSteps
  <2>2. PICK s \in State :
               todo' = IF k = 0 THEN <<Step(CompilationRecord(mem', c), mem', {})>>
                       ELSE <<Step(CommitRecord(mem', k), s, {}),
                              Step(CompilationRecord(mem', c), mem', {})>>
    BY <1>7, <2>0, RebuildSteps
  <2>3. /\ \A d \in Compilations : mem'.authoritative[d] = IF d = c THEN 0 ELSE mem.authoritative[d]
        /\ k \in CommitIds \cup {0}
    BY <1>0, <2>0, <2>1 DEF State
  <2>4. k # 0 /\ ~reused => mem'.commits[k].comp = c /\ mem'.commits[k].superseded
    BY <2>0, <2>1, <2>3 DEF Owned
  <2>7. \A d \in Compilations :
            /\ \A h \in CommitIds \cup {0} : Revivable(d, h) => Revivable(d, h)'
            /\ \A h \in CommitIds :
                   ~reused /\ mem.authoritative[d] = h /\ mem'.authoritative[d] = 0 =>
                       Revivable(d, h)'
    BY <2>0, <2>1, <2>3, <2>4 DEF Revivable
  <2>5. CASE k = 0
    <3>1. 0 \notin CommitIds
      BY DEF CommitIds
    <3>2. /\ \A i \in 1..Len(todo') : todo'[i].rec = CompilationRecord(mem', c)
          /\ Pending("Compilation", c)'
      BY <1>1, <2>2, <2>5
    <3>3. AppendsAreOfMemory'
      BY <1>3, <3>2 DEF AppendsAreOfMemory
    <3> QED BY <2>0, <2>1, <2>3, <2>5, <2>7, <3>1, <3>2, <3>3
  <2>6. CASE k # 0
    <3>1. /\ \A i \in 1..Len(todo') : \/ todo'[i].rec = CommitRecord(mem', k)
                                      \/ todo'[i].rec = CompilationRecord(mem', c)
          /\ Pending("Commit", k)' /\ Pending("Compilation", c)'
      BY <1>2, <2>2, <2>6
    <3>2. AppendsAreOfMemory'
      BY <1>3, <1>4, <2>1, <2>3, <2>4, <2>6, <3>1 DEF AppendsAreOfMemory
    <3> QED BY <2>0, <2>1, <2>3, <2>7, <3>1, <3>2
  <2> QED BY <2>5, <2>6
<1> QED BY <1>5, <1>6, <1>7

\* Every step keeps the disk following memory.
LEMMA DiskFollowsNext ==
    TypeOK /\ SnapshotHoldsMemory /\ EpochsRise /\ IdsAreOwned /\ DiskFollowsMemory /\ [Next]_vars
        => DiskFollowsMemory'
<1> SUFFICES ASSUME TypeOK, SnapshotHoldsMemory, EpochsRise, IdsAreOwned, DiskFollowsMemory,
                    [Next]_vars, serving', ~faulted'
             PROVE  /\ InSequence'
                    /\ AppendsAreOfMemory'
                    /\ file' = "Open" =>
                           /\ CompilationsOnDisk' /\ CommitsOnDisk' /\ AuthorityOnDisk'
                           /\ TakenAuthorityOnDisk'
  BY DEF DiskFollowsMemory
<1>0. /\ snapshot \in [seq : Nat, state : State] /\ journal \in Seq(JournalEntry)
      /\ seq \in Nat /\ mem \in State
  BY DEF TypeOK
<1>1. CASE open
  BY <1>1 DEF open, store_open, history, EpochsRise
<1>2. CASE take_snapshot
  <2>1. /\ file = "Open" /\ file' = "Renamed" /\ todo = <<>> /\ serving /\ ~faulted
        /\ snapshot'.seq = seq
        /\ UNCHANGED <<mem, todo, reused, journal, seq>>
    BY <1>2 DEF take_snapshot, write_snapshot, history
  <2>2. InSequence'
    BY <1>0, <2>1 DEF DiskFollowsMemory, InSequence
  <2>3. AppendsAreOfMemory'
    BY <2>1 DEF DiskFollowsMemory, AppendsAreOfMemory
  <2> QED BY <2>1, <2>2, <2>3
<1>3. CASE finish_snapshot
  <2>1. /\ file = "Renamed" /\ file' = "Open" /\ journal' = <<>>
        /\ snapshot' = [seq |-> seq, state |-> mem] /\ todo' = <<>>
        /\ UNCHANGED <<mem, reused, seq>>
    BY <1>3 DEF finish_snapshot, truncate_journal, SnapshotHoldsMemory
  <2>2. Len(journal') = 0 /\ Len(todo') = 0
    BY <2>1
  <2>3. /\ \A type, key : OfKey(journal', type, key) = {}
        /\ \A c : OfCompilation(journal', c) = {}
    BY <2>2 DEF OfKey, OfCompilation
  <2>4. InSequence' /\ AppendsAreOfMemory'
    BY <1>0, <2>1, <2>2 DEF InSequence, AppendsAreOfMemory
  <2>5. CompilationsOnDisk' /\ CommitsOnDisk' /\ AuthorityOnDisk'
    BY <2>1, <2>3 DEF CompilationsOnDisk, CommitsOnDisk, AuthorityOnDisk, LastValue, LastKey
  <2>6. TakenAuthorityOnDisk'
    BY <2>1, <2>3 DEF TakenAuthorityOnDisk, LastKey, Revivable
  <2> QED BY <2>4, <2>5, <2>6
<1>4. ASSUME NEW c \in Compilations, submit(c) \/ rebuild(c) \/ commit(c) \/ deduplicate(c)
      PROVE  /\ InSequence'
             /\ AppendsAreOfMemory'
             /\ CompilationsOnDisk' /\ CommitsOnDisk' /\ AuthorityOnDisk'
             /\ TakenAuthorityOnDisk'
  <2>1. /\ serving /\ file = "Open" /\ todo = <<>>
        /\ UNCHANGED <<snapshot, journal, file, seq, faulted, serving>>
    BY <1>4, HandlerSteps
  <2>2. /\ InSequence /\ CompilationsOnDisk /\ CommitsOnDisk /\ AuthorityOnDisk
        /\ TakenAuthorityOnDisk /\ ~faulted
    BY <2>1 DEF DiskFollowsMemory
  <2>3. Len(todo) = 0
    BY <2>1
  <2>4. ~reused => Owned(mem)
    BY <2>1 DEF IdsAreOwned
  <2>5. /\ AppendsAreOfMemory'
        /\ \A d \in Compilations : mem'.comps[d] = mem.comps[d] \/ Pending("Compilation", d)'
        /\ \A k \in CommitIds : mem'.commits[k] = mem.commits[k] \/ Pending("Commit", k)'
        /\ \A d \in Compilations :
               \/ mem'.authoritative[d] = mem.authoritative[d]
               \/ mem'.authoritative[d] = 0
               \/ \E i \in 1..Len(todo') : IsCommit(todo'[i].rec) /\ todo'[i].rec.val.comp = d
        /\ reused => reused'
        /\ ~reused' =>
               \A d \in Compilations :
                   /\ \A k \in CommitIds \cup {0} : Revivable(d, k) => Revivable(d, k)'
                   /\ \A k \in CommitIds :
                          mem.authoritative[d] = k /\ mem'.authoritative[d] = 0 => Revivable(d, k)'
    BY <1>4, <2>4, HandlerPending
  <2>6. InSequence'
    BY <2>1, <2>2 DEF InSequence
  <2>7. CompilationsOnDisk'
    BY <2>1, <2>2, <2>3, <2>5 DEF CompilationsOnDisk, Pending
  <2>8. CommitsOnDisk'
    BY <2>1, <2>2, <2>3, <2>5 DEF CommitsOnDisk, Pending
  <2>9. AuthorityOnDisk'
    BY <2>1, <2>2, <2>3, <2>5 DEF AuthorityOnDisk
  <2>10. TakenAuthorityOnDisk'
    <3> SUFFICES ASSUME NEW d \in Compilations, mem'.authoritative[d] = 0, ~reused'
                 PROVE  \E k \in CommitIds \cup {0} :
                            /\ Revivable(d, k)'
                            /\ LastKey(journal, OfCompilation(journal, d),
                                       snapshot.state.authoritative[d], k)
      BY <2>1 DEF TakenAuthorityOnDisk
    <3>1. CASE mem.authoritative[d] = 0
      BY <2>2, <2>5, <3>1 DEF TakenAuthorityOnDisk
    <3>2. CASE mem.authoritative[d] # 0
      <4>1. PICK k \in CommitIds : k = mem.authoritative[d]
        BY <1>0, <3>2 DEF State
      <4>2. LastKey(journal, OfCompilation(journal, d),
                    snapshot.state.authoritative[d], mem.authoritative[d])
        BY <2>2, <2>3, <2>5, <3>2 DEF AuthorityOnDisk
      <4>3. Revivable(d, k)'
        BY <2>5, <4>1
      <4> QED BY <4>1, <4>2, <4>3
    <3> QED BY <3>1, <3>2
  <2> QED BY <2>5, <2>6, <2>7, <2>8, <2>9, <2>10
<1>5. CASE persist
  <2>1. /\ todo # <<>> /\ todo' = Tail(todo) /\ append(todo[1].rec) /\ todo[1].rec \in Record
        /\ 1 \in 1..Len(todo)
        /\ UNCHANGED <<mem, serving, reused>>
    BY <1>5, TodoSteps DEF persist
  <2>2. OnDisk = journal
    BY <2>1 DEF OnDisk, EpochsRise
  <2>3. PICK n : n = Len(journal) + 1
    OBVIOUS
  <2>4. /\ Len(journal') = n /\ Len(journal) \in Nat
        /\ \A i \in 1..Len(journal) : journal'[i] = journal[i]
        /\ journal'[n].seq = seq + 1 /\ journal'[n].rec = todo[1].rec
        /\ \A i \in 1..Len(journal') : i = n \/ i \in 1..Len(journal)
        /\ seq' = seq + 1 /\ file' = "Open" /\ file = "Open"
        /\ snapshot' = snapshot /\ faulted' = faulted
    BY <1>0, <2>1, <2>2, <2>3, AppendSteps DEF EpochsRise
  <2>5. 1..Len(journal') = 1..Len(journal) \cup {n}
    BY <2>3, <2>4
  <2>6. /\ \A i \in 1..Len(todo') : i + 1 \in 1..Len(todo) /\ todo'[i] = todo[i + 1]
        /\ \A i \in 1..Len(todo) : i = 1 \/ (i - 1 \in 1..Len(todo') /\ todo'[i - 1] = todo[i])
    BY <2>1, TodoSteps
  <2>7. /\ InSequence /\ AppendsAreOfMemory /\ CompilationsOnDisk /\ CommitsOnDisk /\ AuthorityOnDisk
        /\ TakenAuthorityOnDisk
    BY <2>1, <2>4 DEF DiskFollowsMemory
  <2>8. /\ \A type, key :
               OfKey(journal', type, key) =
                   IF journal'[n].rec.type = type /\ journal'[n].rec.key = key
                   THEN OfKey(journal, type, key) \cup {n} ELSE OfKey(journal, type, key)
        /\ \A c : OfCompilation(journal', c) =
                   IF IsCommit(journal'[n].rec) /\ journal'[n].rec.val.comp = c
                   THEN OfCompilation(journal, c) \cup {n} ELSE OfCompilation(journal, c)
        /\ \A type, key : OfKey(journal, type, key) \subseteq 1..Len(journal)
        /\ \A c : OfCompilation(journal, c) \subseteq 1..Len(journal)
    BY <2>3, <2>4, <2>5, AppendedOf
  <2>9. \A I, old, v : I \subseteq 1..Len(journal) =>
            /\ LastValue(journal, I, old, v) => LastValue(journal', I, old, v)
            /\ LastKey(journal, I, old, v) => LastKey(journal', I, old, v)
            /\ LastValue(journal', I \cup {n}, old, journal'[n].rec.val)
            /\ LastKey(journal', I \cup {n}, old, journal'[n].rec.key)
    <3> SUFFICES ASSUME NEW I, NEW old, NEW v, I \subseteq 1..Len(journal)
                 PROVE  /\ LastValue(journal, I, old, v) => LastValue(journal', I, old, v)
                        /\ LastKey(journal, I, old, v) => LastKey(journal', I, old, v)
                        /\ LastValue(journal', I \cup {n}, old, journal'[n].rec.val)
                        /\ LastKey(journal', I \cup {n}, old, journal'[n].rec.key)
      OBVIOUS
    <3>1. /\ LastValue(journal, I, old, v) => LastValue(journal', I, old, v)
          /\ LastKey(journal, I, old, v) => LastKey(journal', I, old, v)
      BY <2>4, LastKept
    <3>2. /\ LastValue(journal', I \cup {n}, old, journal'[n].rec.val)
          /\ LastKey(journal', I \cup {n}, old, journal'[n].rec.key)
      BY <2>3, <2>4, LastTaken
    <3> QED BY <3>1, <3>2
  <2>10. InSequence'
    <3>1. \A i \in 1..Len(journal) : journal[i].seq \in Nat
      BY <1>0, EntryTypes
    <3>2. /\ snapshot.seq \in Nat /\ snapshot.seq <= seq
          /\ \A i \in 1..Len(journal) :
                 /\ journal[i].seq <= seq
                 /\ journal[i].seq > snapshot.seq
                 /\ \A h \in 1..(i - 1) : journal[h].seq < journal[i].seq
      BY <1>0, <2>4, <2>7 DEF InSequence
    <3>3. snapshot'.seq <= seq'
      BY <1>0, <2>4, <3>2
    <3>4. ASSUME NEW i \in 1..Len(journal')
          PROVE  /\ journal'[i].seq <= seq'
                 /\ journal'[i].seq > snapshot'.seq
                 /\ \A h \in 1..(i - 1) : journal'[h].seq < journal'[i].seq
      <4>1. \A h \in 1..(i - 1) : h \in 1..Len(journal)
        BY <2>3, <2>4
      <4>2. CASE i = n
        BY <1>0, <2>4, <3>1, <3>2, <4>1, <4>2
      <4>3. CASE i \in 1..Len(journal)
        BY <1>0, <2>4, <3>1, <3>2, <4>1, <4>3
      <4> QED BY <2>4, <4>2, <4>3
    <3> QED BY <3>3, <3>4 DEF InSequence
  <2>11. AppendsAreOfMemory'
    BY <2>1, <2>6, <2>7 DEF AppendsAreOfMemory
  <2>12. /\ todo[1].rec.type = "Compilation" => todo[1].rec.val = mem.comps[todo[1].rec.key]
         /\ IsCommit(todo[1].rec) =>
                /\ todo[1].rec.val = mem.commits[todo[1].rec.key]
                /\ ~reused /\ todo[1].rec.val.comp \in Compilations =>
                       \/ mem.authoritative[todo[1].rec.val.comp] = todo[1].rec.key
                       \/ mem.authoritative[todo[1].rec.val.comp] = 0 /\ todo[1].rec.val.superseded
    BY <2>1, <2>7 DEF AppendsAreOfMemory
  <2>13. \A type, key : Pending(type, key) =>
             Pending(type, key)' \/ (todo[1].rec.type = type /\ todo[1].rec.key = key)
    BY <2>6 DEF Pending
  <2>14. CompilationsOnDisk'
    <3> SUFFICES ASSUME NEW c \in Compilations
                 PROVE  \/ Pending("Compilation", c)'
                        \/ LastValue(journal', OfKey(journal', "Compilation", c),
                                     snapshot.state.comps[c], mem.comps[c])
      BY <2>1, <2>4 DEF CompilationsOnDisk
    <3>1. CASE todo[1].rec.type = "Compilation" /\ todo[1].rec.key = c
      <4>1. OfKey(journal', "Compilation", c) = OfKey(journal, "Compilation", c) \cup {n}
        BY <2>4, <2>8, <3>1
      <4>2. journal'[n].rec.val = mem.comps[c]
        BY <2>4, <2>12, <3>1
      <4> QED BY <2>8, <2>9, <4>1, <4>2
    <3>2. CASE ~(todo[1].rec.type = "Compilation" /\ todo[1].rec.key = c)
      <4>1. OfKey(journal', "Compilation", c) = OfKey(journal, "Compilation", c)
        BY <2>4, <2>8, <3>2
      <4>2. \/ Pending("Compilation", c)'
            \/ LastValue(journal, OfKey(journal, "Compilation", c), snapshot.state.comps[c], mem.comps[c])
        BY <2>7, <2>13, <3>2 DEF CompilationsOnDisk
      <4> QED BY <2>8, <2>9, <4>1, <4>2
    <3> QED BY <3>1, <3>2
  <2>15. CommitsOnDisk'
    <3> SUFFICES ASSUME NEW k \in CommitIds
                 PROVE  \/ Pending("Commit", k)'
                        \/ LastValue(journal', OfKey(journal', "Commit", k),
                                     snapshot.state.commits[k], mem.commits[k])
      BY <2>1, <2>4 DEF CommitsOnDisk
    <3>1. CASE todo[1].rec.type = "Commit" /\ todo[1].rec.key = k
      <4>1. OfKey(journal', "Commit", k) = OfKey(journal, "Commit", k) \cup {n}
        BY <2>4, <2>8, <3>1
      <4>2. journal'[n].rec.val = mem.commits[k]
        BY <2>4, <2>12, <3>1 DEF IsCommit
      <4> QED BY <2>8, <2>9, <4>1, <4>2
    <3>2. CASE ~(todo[1].rec.type = "Commit" /\ todo[1].rec.key = k)
      <4>1. OfKey(journal', "Commit", k) = OfKey(journal, "Commit", k)
        BY <2>4, <2>8, <3>2
      <4>2. \/ Pending("Commit", k)'
            \/ LastValue(journal, OfKey(journal, "Commit", k), snapshot.state.commits[k], mem.commits[k])
        BY <2>7, <2>13, <3>2 DEF CommitsOnDisk
      <4> QED BY <2>8, <2>9, <4>1, <4>2
    <3> QED BY <3>1, <3>2
  <2>16. AuthorityOnDisk'
    <3> SUFFICES ASSUME NEW c \in Compilations, mem.authoritative[c] # 0, ~reused
                 PROVE  \/ \E i \in 1..Len(todo') : IsCommit(todo'[i].rec) /\ todo'[i].rec.val.comp = c
                        \/ LastKey(journal', OfCompilation(journal', c),
                                   snapshot.state.authoritative[c], mem.authoritative[c])
      BY <2>1, <2>4 DEF AuthorityOnDisk
    <3>1. CASE IsCommit(todo[1].rec) /\ todo[1].rec.val.comp = c
      <4>1. OfCompilation(journal', c) = OfCompilation(journal, c) \cup {n}
        BY <2>4, <2>8, <3>1
      <4>2. journal'[n].rec.key = mem.authoritative[c]
        BY <2>4, <2>12, <3>1
      <4>3. LastKey(journal', OfCompilation(journal, c) \cup {n},
                    snapshot.state.authoritative[c], journal'[n].rec.key)
        BY <2>8, <2>9
      <4> QED BY <4>1, <4>2, <4>3
    <3>2. CASE ~(IsCommit(todo[1].rec) /\ todo[1].rec.val.comp = c)
      <4>1. OfCompilation(journal', c) = OfCompilation(journal, c)
        BY <2>4, <2>8, <3>2
      <4>2. \/ \E i \in 1..Len(todo') : IsCommit(todo'[i].rec) /\ todo'[i].rec.val.comp = c
            \/ LastKey(journal, OfCompilation(journal, c),
                       snapshot.state.authoritative[c], mem.authoritative[c])
        <5>1. \/ \E i \in 1..Len(todo) : IsCommit(todo[i].rec) /\ todo[i].rec.val.comp = c
              \/ LastKey(journal, OfCompilation(journal, c),
                         snapshot.state.authoritative[c], mem.authoritative[c])
          BY <2>7 DEF AuthorityOnDisk
        <5>2. ASSUME NEW i \in 1..Len(todo), IsCommit(todo[i].rec), todo[i].rec.val.comp = c
              PROVE  \E h \in 1..Len(todo') : IsCommit(todo'[h].rec) /\ todo'[h].rec.val.comp = c
          <6>1. i # 1
            BY <3>2, <5>2
          <6>2. i - 1 \in 1..Len(todo') /\ todo'[i - 1] = todo[i]
            BY <2>6, <6>1
          <6> QED BY <5>2, <6>2
        <5> QED BY <5>1, <5>2
      <4> QED BY <2>8, <2>9, <4>1, <4>2
    <3> QED BY <3>1, <3>2
  <2>17. TakenAuthorityOnDisk'
    <3> SUFFICES ASSUME NEW c \in Compilations, mem.authoritative[c] = 0, ~reused
                 PROVE  \E k \in CommitIds \cup {0} :
                            /\ Revivable(c, k)
                            /\ LastKey(journal', OfCompilation(journal', c),
                                       snapshot.state.authoritative[c], k)
      BY <2>1, <2>4 DEF TakenAuthorityOnDisk, Revivable
    <3>1. CASE IsCommit(todo[1].rec) /\ todo[1].rec.val.comp = c
      <4>1. OfCompilation(journal', c) = OfCompilation(journal, c) \cup {n}
        BY <2>4, <2>8, <3>1
      <4>2. LastKey(journal', OfCompilation(journal, c) \cup {n},
                    snapshot.state.authoritative[c], journal'[n].rec.key)
        BY <2>8, <2>9
      <4>3. todo[1].rec.key \in CommitIds
        BY <2>1, <3>1, RecordTypes
      <4>4. Revivable(c, todo[1].rec.key)
        <5>1. 0 \notin CommitIds
          BY DEF CommitIds
        <5>2. todo[1].rec.val = mem.commits[todo[1].rec.key] /\ todo[1].rec.val.superseded
          BY <2>12, <3>1, <4>3, <5>1
        <5> QED BY <3>1, <5>2 DEF Revivable
      <4> QED BY <2>4, <4>1, <4>2, <4>3, <4>4
    <3>2. CASE ~(IsCommit(todo[1].rec) /\ todo[1].rec.val.comp = c)
      <4>1. OfCompilation(journal', c) = OfCompilation(journal, c)
        BY <2>4, <2>8, <3>2
      <4>2. PICK k \in CommitIds \cup {0} :
                /\ Revivable(c, k)
                /\ LastKey(journal, OfCompilation(journal, c), snapshot.state.authoritative[c], k)
        BY <2>7 DEF TakenAuthorityOnDisk
      <4>3. LastKey(journal', OfCompilation(journal, c), snapshot.state.authoritative[c], k)
        BY <2>8, <2>9, <4>2
      <4> QED BY <4>1, <4>2, <4>3
    <3> QED BY <3>1, <3>2
  <2> QED BY <2>10, <2>11, <2>14, <2>15, <2>16, <2>17
<1>6. CASE persist_error
  BY <1>6 DEF persist_error, append_error
<1>7. CASE crash
  BY <1>7, CrashSteps
<1>8. CASE UNCHANGED vars
  <2>1. UNCHANGED <<snapshot, journal, file, seq, faulted, mem, todo, serving, reused>>
    BY <1>8 DEF vars, storeVars, history
  <2>2. serving /\ ~faulted
    BY <2>1
  <2> QED BY <2>1, <2>2 DEF DiskFollowsMemory, InSequence, AppendsAreOfMemory, CompilationsOnDisk,
                            CommitsOnDisk, AuthorityOnDisk, TakenAuthorityOnDisk, Revivable, Pending
<1> QED BY <1>1, <1>2, <1>3, <1>4, <1>5, <1>6, <1>7, <1>8 DEF Next
-----------------------------------------------------------------------------
(***************************************************************************)
(* The theorems.                                                           *)
(***************************************************************************)

(* What is to be recovered is what there is: nothing, at the start.         *)
LEMMA RecoverableInit == Init => Recoverable
<1> SUFFICES ASSUME Init PROVE Recoverable
  OBVIOUS
<1>1. /\ snapshot = [seq |-> 0, state |-> EmptyState] /\ journal = <<>> /\ file = "Closed"
      /\ kept = <<>> /\ ~serving /\ served = 0 /\ todo = <<>>
  BY DEF Init, StoreInit
<1>2. SnapshotHoldsMemory /\ EpochsRise /\ OnlyTheTailIsTorn /\ DiskFollowsMemory
      /\ MemoryIsRecovered
  BY <1>1 DEF EmptyState, SnapshotHoldsMemory, EpochsRise, OnlyTheTailIsTorn, DiskFollowsMemory,
              MemoryIsRecovered
<1>3. IdsAreOwned
  <2>1. Owned(snapshot.state)
    BY <1>1 DEF Owned, EmptyState
  <2>2. DiskAgrees(snapshot, OnDisk)
    BY <1>1 DEF DiskAgrees, OnDisk
  <2> QED BY <1>1, <2>1, <2>2 DEF IdsAreOwned
<1> QED BY <1>2, <1>3, TypeInit DEF Recoverable

\* The inductive invariant of recovery: the types, the snapshot that obsoletes a journal, the
\* epochs, the torn tail, the ids of commits, the disk that follows memory and the memory that
\* is recovered hold together through every handler, failed append, crash and Coordinator::open.
THEOREM RecoverableInvariant == Spec => []Recoverable
<1>1. Recoverable /\ [Next]_vars => Recoverable'
  BY TypeNext, SnapshotHoldsNext, EpochsRiseNext, TornNext, IdsOwnedNext, DiskFollowsNext,
     MemoryRecoveredNext DEF Recoverable
<1> QED BY RecoverableInit, <1>1, PTL DEF Spec

\* The value that a replay of entries I of a journal gives an entity.
LEMMA LastGivesValue ==
    ASSUME NEW n \in Nat, NEW j, NEW I \in SUBSET (1..n), NEW old, NEW v
    PROVE  /\ LastValue(j, I, old, v) => (IF I = {} THEN old ELSE j[Last(I)].rec.val) = v
           /\ LastKey(j, I, old, v) => (IF I = {} THEN old ELSE j[Last(I)].rec.key) = v
BY LastIs DEF LastValue, LastKey

\* What the inductive invariant says of the replay.
LEMMA ReplayRecovers == Recoverable => ReplayGivesMemory
<1> SUFFICES ASSUME Recoverable, serving, file # "Reopening", todo = <<>>, ~faulted
             PROVE  LET r == Replay(snapshot, Undamaged(journal)) IN
                    /\ r.comps = mem.comps
                    /\ r.commits = mem.commits
                    /\ \A c \in Compilations :
                           mem.authoritative[c] # 0 /\ ~reused =>
                               r.authoritative[c] = mem.authoritative[c]
  BY DEF ReplayGivesMemory
<1>1. /\ snapshot.state \in State /\ journal \in Seq(JournalEntry) /\ mem \in State
      /\ Len(journal) \in Nat /\ file \in {"Open", "Renamed"}
  BY DEF Recoverable, TypeOK, EpochsRise
<1>2. Undamaged(journal) = journal
  BY <1>1, WholeIsUndamaged DEF Recoverable, OnlyTheTailIsTorn
<1> DEFINE applied == Applied(journal, snapshot.seq)
           OfComp(c) == {i \in applied : journal[i].rec.type = "Compilation" /\ journal[i].rec.key = c}
           OfCommit(k) == {i \in applied : journal[i].rec.type = "Commit" /\ journal[i].rec.key = k}
           For(c) == {i \in applied : journal[i].rec.type = "Commit" /\ journal[i].rec.val.comp = c}
           comps == [c \in Compilations |->
               IF OfComp(c) = {} THEN snapshot.state.comps[c] ELSE journal[Last(OfComp(c))].rec.val]
           commits == [k \in CommitIds |->
               IF OfCommit(k) = {} THEN snapshot.state.commits[k]
               ELSE journal[Last(OfCommit(k))].rec.val]
           auth == [c \in Compilations |->
               IF For(c) = {} THEN snapshot.state.authoritative[c]
               ELSE journal[Last(For(c))].rec.key]
           r == Replay(snapshot, journal)
<1>3. r = [snapshot.state EXCEPT !.comps = comps, !.commits = commits, !.authoritative = auth]
  BY DEF Replay
<1>4. r.comps = comps /\ r.commits = commits /\ r.authoritative = auth
  <2> HIDE DEF comps, commits, auth, r
  <2> QED BY <1>1, <1>3 DEF State
<1>5. applied \subseteq 1..Len(journal)
  BY DEF Applied
<1>6. /\ mem.comps \in [Compilations -> Compilation]
      /\ mem.commits \in [CommitIds -> Commit]
  BY <1>1 DEF State
\* A snapshot that is in place holds memory, and no entry is after it.
<1>7. CASE file = "Renamed"
  <2>1. snapshot.state = mem /\ snapshot.seq = seq
    BY <1>7 DEF Recoverable, SnapshotHoldsMemory
  <2>2. applied = {}
    <3>1. \A i \in 1..Len(journal) : journal[i].seq <= seq /\ journal[i].seq \in Nat /\ seq \in Nat
      BY <1>1, EntryTypes DEF Recoverable, TypeOK, DiskFollowsMemory, InSequence
    <3> QED BY <2>1, <3>1 DEF Applied
  <2>3. comps = mem.comps /\ commits = mem.commits
    BY <1>6, <2>1, <2>2
  <2>4. \A c \in Compilations : auth[c] = mem.authoritative[c]
    BY <2>1, <2>2
  <2> HIDE DEF comps, commits, auth, r
  <2> QED BY <1>2, <1>4, <2>3, <2>4 DEF r
<1>8. CASE file = "Open"
  <2>1. InSequence /\ CompilationsOnDisk /\ CommitsOnDisk /\ AuthorityOnDisk /\ Len(todo) = 0
    BY <1>8 DEF Recoverable, DiskFollowsMemory
  <2>2. applied = 1..Len(journal)
    BY <1>8, <2>1 DEF Applied, InSequence
  <2>3. /\ \A c : OfComp(c) = OfKey(journal, "Compilation", c)
        /\ \A k : OfCommit(k) = OfKey(journal, "Commit", k)
        /\ \A c : For(c) = OfCompilation(journal, c)
    BY <2>2 DEF OfKey, OfCompilation, IsCommit
  <2>4. ASSUME NEW c \in Compilations PROVE comps[c] = mem.comps[c]
    <3>1. PICK I : I = OfKey(journal, "Compilation", c)
      OBVIOUS
    <3>2. LastValue(journal, I, snapshot.state.comps[c], mem.comps[c])
      BY <2>1, <3>1 DEF CompilationsOnDisk, Pending
    <3>3. OfComp(c) = I
      BY <2>3, <3>1
    <3>4. I \in SUBSET (1..Len(journal))
      BY <1>5, <3>3
    <3>5. (IF I = {} THEN snapshot.state.comps[c] ELSE journal[Last(I)].rec.val) = mem.comps[c]
      <4> HIDE DEF applied
      <4> QED BY <1>1, <3>2, <3>4, LastGivesValue
    <3>6. comps[c] = IF OfComp(c) = {} THEN snapshot.state.comps[c]
                 ELSE journal[Last(OfComp(c))].rec.val
      OBVIOUS
    <3> HIDE DEF OfComp, comps
    <3> QED BY <3>3, <3>5, <3>6
  <2>5. ASSUME NEW k \in CommitIds PROVE commits[k] = mem.commits[k]
    <3>1. PICK I : I = OfKey(journal, "Commit", k)
      OBVIOUS
    <3>2. LastValue(journal, I, snapshot.state.commits[k], mem.commits[k])
      BY <2>1, <3>1 DEF CommitsOnDisk, Pending
    <3>3. OfCommit(k) = I
      BY <2>3, <3>1
    <3>4. I \in SUBSET (1..Len(journal))
      BY <1>5, <3>3
    <3>5. (IF I = {} THEN snapshot.state.commits[k] ELSE journal[Last(I)].rec.val) = mem.commits[k]
      <4> HIDE DEF applied
      <4> QED BY <1>1, <3>2, <3>4, LastGivesValue
    <3>6. commits[k] = IF OfCommit(k) = {} THEN snapshot.state.commits[k]
                 ELSE journal[Last(OfCommit(k))].rec.val
      OBVIOUS
    <3> HIDE DEF OfCommit, commits
    <3> QED BY <3>3, <3>5, <3>6
  <2>6. ASSUME NEW c \in Compilations, mem.authoritative[c] # 0, ~reused
        PROVE  auth[c] = mem.authoritative[c]
    <3>1. PICK I : I = OfCompilation(journal, c)
      OBVIOUS
    <3>2. LastKey(journal, I, snapshot.state.authoritative[c], mem.authoritative[c])
      BY <2>1, <2>6, <3>1 DEF AuthorityOnDisk
    <3>3. For(c) = I
      BY <2>3, <3>1
    <3>4. I \in SUBSET (1..Len(journal))
      BY <1>5, <3>3
    <3>5. (IF I = {} THEN snapshot.state.authoritative[c] ELSE journal[Last(I)].rec.key) = mem.authoritative[c]
      <4> HIDE DEF applied
      <4> QED BY <1>1, <3>2, <3>4, LastGivesValue
    <3>6. auth[c] = IF For(c) = {} THEN snapshot.state.authoritative[c]
                 ELSE journal[Last(For(c))].rec.key
      OBVIOUS
    <3> HIDE DEF For, auth
    <3> QED BY <3>3, <3>5, <3>6
  <2>7. comps \in [Compilations -> {comps[c] : c \in Compilations}]
        /\ commits \in [CommitIds -> {commits[k] : k \in CommitIds}]
    OBVIOUS
  <2> HIDE DEF comps, commits, auth, r
  <2>8. comps = mem.comps /\ commits = mem.commits
    BY <1>6, <2>4, <2>5, <2>7
  <2> QED BY <1>2, <1>4, <2>6, <2>8 DEF r
<1> QED BY <1>1, <1>7, <1>8

\* A restarted coordinator recovers what the last one had in memory: when no handler runs and
\* no append failed since the last snapshot, Coordinator::open would replay, from the
\* snapshot and the journal on disk, the compilations, the commits and, unless a commit id
\* was issued twice, the authority that are in memory.
THEOREM RestartRecovers == Spec => []ReplayGivesMemory
BY ReplayRecovers, RecoverableInvariant, PTL

\* What force_rebuild took authority from: when no handler runs and no append failed since the
\* last snapshot, Coordinator::open would give a compilation without authority at most a
\* commit of its own that was superseded (unless a commit id was issued twice).
THEOREM RevivedIsSuperseded == Spec => []OnlySupersededRevived
<1>1. Recoverable => OnlySupersededRevived
  <2> SUFFICES ASSUME Recoverable, serving, file # "Reopening", todo = <<>>, ~faulted, ~reused,
                      NEW c \in Compilations, mem.authoritative[c] = 0
               PROVE  Revivable(c, Replay(snapshot, Undamaged(journal)).authoritative[c])
    BY DEF OnlySupersededRevived
  <2>1. /\ snapshot.state \in State /\ journal \in Seq(JournalEntry) /\ mem \in State
        /\ Len(journal) \in Nat /\ file \in {"Open", "Renamed"}
    BY DEF Recoverable, TypeOK, EpochsRise
  <2>2. Undamaged(journal) = journal
    BY <2>1, WholeIsUndamaged DEF Recoverable, OnlyTheTailIsTorn
  <2> DEFINE applied == Applied(journal, snapshot.seq)
             For == {i \in applied : journal[i].rec.type = "Commit" /\ journal[i].rec.val.comp = c}
             a == IF For = {} THEN snapshot.state.authoritative[c] ELSE journal[Last(For)].rec.key
  <2>3. Replay(snapshot, journal).authoritative[c] = a
    BY <2>1 DEF Replay, State
  <2>4. applied \subseteq 1..Len(journal)
    BY DEF Applied
  <2>5. CASE file = "Renamed"
    <3>1. snapshot.state = mem /\ snapshot.seq = seq
      BY <2>5 DEF Recoverable, SnapshotHoldsMemory
    <3>2. applied = {}
      <4>1. \A i \in 1..Len(journal) : journal[i].seq <= seq /\ journal[i].seq \in Nat /\ seq \in Nat
        BY <2>1, EntryTypes DEF Recoverable, TypeOK, DiskFollowsMemory, InSequence
      <4> QED BY <3>1, <4>1 DEF Applied
    <3>3. a = 0
      BY <3>1, <3>2
    <3> HIDE DEF a
    <3> QED BY <2>2, <2>3, <3>3 DEF Revivable
  <2>6. CASE file = "Open"
    <3>1. InSequence /\ TakenAuthorityOnDisk
      BY <2>6 DEF Recoverable, DiskFollowsMemory
    <3>2. applied = 1..Len(journal)
      BY <2>6, <3>1 DEF Applied, InSequence
    <3>3. For = OfCompilation(journal, c)
      BY <3>2 DEF OfCompilation, IsCommit
    <3>4. PICK k \in CommitIds \cup {0} :
              /\ Revivable(c, k)
              /\ LastKey(journal, For, snapshot.state.authoritative[c], k)
      BY <3>1, <3>3 DEF TakenAuthorityOnDisk
    <3>5. For \in SUBSET (1..Len(journal))
      BY <2>4
    <3> HIDE DEF For
    <3>6. a = k
      BY <2>1, <3>4, <3>5, LastGivesValue
    <3> HIDE DEF a
    <3> QED BY <2>2, <2>3, <3>4, <3>6
  <2> QED BY <2>1, <2>5, <2>6
<1> QED BY <1>1, RecoverableInvariant, PTL

\* The store under the coordinator is a table with atomic, ordered and durable writes: what
\* a restart would recover of the compilations' generations and of the commits changes by one
\* requested write at a time, in order, whatever append, snapshot, crash, torn record or
\* Coordinator::open comes between, except after an append that failed and until the next
\* snapshot, and except that a crash inside Coordinator::open can take writes back.
THEOREM StoreIsTable == Spec => ImplementsDurableTable
<1>1. Recoverable /\ [Next]_vars => [Store!Next]_(Store!tableVars)
  BY StoreNext, ReplayRecovers DEF Recoverable
<1> QED BY StoreStarts, <1>1, RecoverableInvariant, PTL DEF Spec, ImplementsDurableTable, Store!Spec

=============================================================================
