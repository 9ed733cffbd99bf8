-------------------------- MODULE RecoveryTableProofs --------------------------
(***************************************************************************)
(* The journal as a table: what an append, a snapshot, a crash and a       *)
(* restart do to the generations and commits that a replay recovers.       *)
(***************************************************************************)
EXTENDS RecoveryProofs

(***************************************************************************)
(* The appends of the running handler.                                     *)
(***************************************************************************)

\* The first append, and the others after it.
LEMMA TodoSteps ==
    ASSUME TypeOK, todo # <<>>
    PROVE  /\ 1 \in 1..Len(todo)
           /\ Head(todo) = todo[1]
           /\ todo[1] \in Appending /\ todo[1].rec \in Record
           /\ Len(Tail(todo)) = Len(todo) - 1
           /\ \A i \in 1..Len(Tail(todo)) : i + 1 \in 1..Len(todo) /\ Tail(todo)[i] = todo[i + 1]
           /\ \A i \in 1..Len(todo) : i = 1 \/ (i - 1 \in 1..Len(Tail(todo)) /\ Tail(todo)[i - 1] = todo[i])
<1>1. todo \in Seq(Appending) /\ Len(todo) \in Nat \ {0}
  BY EmptySeq DEF TypeOK
<1>2. /\ Len(Tail(todo)) = Len(todo) - 1
      /\ \A i \in 1..Len(Tail(todo)) : Tail(todo)[i] = todo[i + 1]
  BY <1>1, HeadTailProperties
<1>3. Head(todo) = todo[1] /\ 1 \in 1..Len(todo)
  BY <1>1
<1>4. todo[1] \in Appending
  BY <1>1, <1>3, ElementOfSeq
<1>5. todo[1].rec \in Record
  BY <1>4 DEF Appending
<1>6. \A i \in 1..Len(Tail(todo)) : i + 1 \in 1..Len(todo)
  BY <1>1, <1>2
<1>7. \A i \in 1..Len(todo) : i = 1 \/ (i - 1 \in 1..Len(Tail(todo)) /\ i - 1 + 1 = i)
  BY <1>1, <1>2
<1>8. \A i \in 1..Len(todo) : i = 1 \/ (i - 1 \in 1..Len(Tail(todo)) /\ Tail(todo)[i - 1] = todo[i])
  BY <1>2, <1>7
<1> QED BY <1>2, <1>3, <1>4, <1>5, <1>6, <1>8

\* What a crash leaves of the file: a part of what was on disk, the last entry perhaps torn,
\* or all of it and the record that was being appended.
LEMMA CrashSteps ==
    ASSUME TypeOK, crash
    PROVE  /\ journal' \in Seq(JournalEntry)
           /\ \A i \in 1..Len(journal') :
                  \/ \E h \in 1..Len(OnDisk) : /\ journal'[i].seq = OnDisk[h].seq
                                               /\ journal'[i].rec = OnDisk[h].rec
                  \/ \E h \in 1..Len(todo) : journal'[i].rec = todo[h].rec
           /\ file # "Closed" /\ file' = "Closed" /\ serving' = FALSE
           /\ UNCHANGED <<snapshot, faulted, served, acked, reused>>
<1> DEFINE pending == [i \in DOMAIN todo |-> todo[i].rec]
<1>1. \/ file = "Reopening" /\ journal' \in Rewritten(kept)
      \/ file # "Reopening" /\ journal' = journal
      \/ pending # <<>> /\ journal' \in Written(OnDisk, seq + 1, pending[1])
  BY DEF crash, store_crash, OnDisk
<1>2. ASSUME pending # <<>>
      PROVE  1 \in 1..Len(todo) /\ pending[1] = todo[1].rec /\ pending[1] \in Record
  <2>1. todo # <<>>
    BY <1>2
  <2>2. 1 \in 1..Len(todo) /\ todo[1].rec \in Record
    BY <2>1, TodoSteps
  <2> QED BY <2>2 DEF TypeOK
<1>3. OnDisk \in Seq(JournalEntry) /\ seq + 1 \in Nat /\ kept \in Seq(JournalEntry) /\ journal \in Seq(JournalEntry)
  BY DEF OnDisk, TypeOK
<1>4. file # "Closed" /\ file' = "Closed" /\ serving' = FALSE /\ UNCHANGED <<snapshot, faulted, served, acked, reused>>
  BY DEF crash, store_crash
<1> HIDE DEF pending
<1>5. CASE file = "Reopening" /\ journal' \in Rewritten(kept)
  <2>1. /\ journal' \in Seq(JournalEntry) /\ Len(journal') <= Len(kept)
        /\ \A i \in 1..Len(journal') : journal'[i].seq = kept[i].seq /\ journal'[i].rec = kept[i].rec
    BY <1>3, <1>5, RewrittenTypes
  <2>2. \A i \in 1..Len(journal') : i \in 1..Len(kept)
    BY <1>3, <2>1
  <2>3. OnDisk = kept
    BY <1>5 DEF OnDisk
  <2> QED BY <1>4, <2>1, <2>2, <2>3
<1>6. CASE file # "Reopening" /\ journal' = journal
  BY <1>3, <1>4, <1>6 DEF OnDisk
<1>7. CASE pending # <<>> /\ journal' \in Written(OnDisk, seq + 1, pending[1])
  <2>1. /\ journal' \in Seq(JournalEntry)
        /\ \A i \in 1..Len(journal') : \/ i <= Len(OnDisk) /\ journal'[i] = OnDisk[i]
                                       \/ journal'[i].rec = pending[1]
    BY <1>2, <1>3, <1>7, WrittenTypes
  <2>2. \A i \in 1..Len(journal') : i <= Len(OnDisk) => i \in 1..Len(OnDisk)
    BY <1>3, <2>1
  <2> QED BY <1>2, <1>4, <1>7, <2>1, <2>2
<1> QED BY <1>1, <1>5, <1>6, <1>7
-----------------------------------------------------------------------------
(***************************************************************************)
(* What a replay recovers, entity by entity.                               *)
(***************************************************************************)

\* The entries that a replay after number n applies to the entity e.
EntriesOf(j, n, e) == {i \in Applied(j, n) : WriteOf(j[i].rec).entity = e}

\* A compilation's record writes its generation, a commit's the commit, a header's nothing.
LEMMA WriteOfRecord ==
    ASSUME NEW r \in Record
    PROVE  /\ \A c : WriteOf(r).entity = <<"Compilation", c>> <=> r.type = "Compilation" /\ r.key = c
           /\ \A k : WriteOf(r).entity = <<"Commit", k>> <=> r.type = "Commit" /\ r.key = k
           /\ r.type = "Compilation" => WriteOf(r).value = r.val.gen
           /\ r.type = "Commit" => WriteOf(r).value = r.val
<1>1. CASE r = HeaderRecord
  BY <1>1 DEF WriteOf, HeaderRecord
<1>2. CASE r # HeaderRecord
  <2>1. WriteOf(r).entity = <<r.type, r.key>>
    BY <1>2 DEF WriteOf
  <2>2. WriteOf(r).value = IF r.type = "Compilation" THEN r.val.gen ELSE r.val
    BY <1>2 DEF WriteOf
  <2> QED BY <2>1, <2>2
<1> QED BY <1>1, <1>2

\* The recovered table holds what the last applied entry of an entity wrote, or else what
\* the snapshot has.
LEMMA RecoveredIs ==
    ASSUME NEW s \in [seq : Nat, state : State], NEW j \in Seq(JournalEntry), NEW e \in Entities
    PROVE  /\ DOMAIN Recovered(s, j) = Entities
           /\ Recovered(s, j)[e] =
                  IF EntriesOf(j, s.seq, e) = {} THEN TableOf(s.state)[e]
                  ELSE WriteOf(j[Last(EntriesOf(j, s.seq, e))].rec).value
<1> DEFINE applied == Applied(j, s.seq)
           OfComp(c) == {i \in applied : j[i].rec.type = "Compilation" /\ j[i].rec.key = c}
           OfCommit(k) == {i \in applied : j[i].rec.type = "Commit" /\ j[i].rec.key = k}
           For(c) == {i \in applied : j[i].rec.type = "Commit" /\ j[i].rec.val.comp = c}
           comps == [c \in Compilations |->
               IF OfComp(c) = {} THEN s.state.comps[c] ELSE j[Last(OfComp(c))].rec.val]
           commits == [k \in CommitIds |->
               IF OfCommit(k) = {} THEN s.state.commits[k] ELSE j[Last(OfCommit(k))].rec.val]
           auth == [c \in Compilations |->
               IF For(c) = {} THEN s.state.authoritative[c] ELSE j[Last(For(c))].rec.key]
<1> SUFFICES Recovered(s, j)[e] =
                 IF EntriesOf(j, s.seq, e) = {} THEN TableOf(s.state)[e]
                 ELSE WriteOf(j[Last(EntriesOf(j, s.seq, e))].rec).value
  BY DEF Recovered, TableOf
<1>1. applied \subseteq 1..Len(j) /\ Len(j) \in Nat
  BY DEF Applied
<1>2. Replay(s, j) = [s.state EXCEPT !.comps = comps, !.commits = commits, !.authoritative = auth]
  BY DEF Replay
<1>3. Replay(s, j).comps = comps /\ Replay(s, j).commits = commits
  <2> HIDE DEF comps, commits, auth
  <2> QED BY <1>2 DEF State
<1>4. \A i \in applied : j[i].rec \in Record
  BY <1>1, EntryTypes
<1>5. EntriesOf(j, s.seq, e) = {i \in applied : WriteOf(j[i].rec).entity = e}
  BY DEF EntriesOf
<1> HIDE DEF applied
<1>6. CASE e \in {"Compilation"} \X Compilations
  <2>1. PICK c \in Compilations : e = <<"Compilation", c>>
    BY <1>6
  <2>2. EntriesOf(j, s.seq, e) = OfComp(c)
    <3>1. \A i \in applied : WriteOf(j[i].rec).entity = e <=> j[i].rec.type = "Compilation" /\ j[i].rec.key = c
      BY <1>4, <2>1, WriteOfRecord
    <3> QED BY <1>5, <3>1
  <2>3. /\ Recovered(s, j)[e] = comps[c].gen
        /\ TableOf(s.state)[e] = s.state.comps[c].gen
    BY <1>3, <2>1 DEF Recovered, TableOf
  <2>4. CASE OfComp(c) = {}
    <3>1. comps[c] = s.state.comps[c]
      BY <2>4
    <3> HIDE DEF comps, OfComp
    <3> QED BY <2>2, <2>3, <2>4, <3>1
  <2>5. CASE OfComp(c) # {}
    <3>1. Last(OfComp(c)) \in OfComp(c)
      BY <1>1, <2>5, LastOf
    <3>2. PICK l : l = Last(OfComp(c))
      OBVIOUS
    <3>3. l \in applied /\ j[l].rec.type = "Compilation" /\ j[l].rec \in Record
      BY <1>4, <3>1, <3>2
    <3>4. WriteOf(j[l].rec).value = j[l].rec.val.gen
      BY <3>3, WriteOfRecord
    <3>5. comps[c] = j[l].rec.val
      BY <2>5, <3>2
    <3> HIDE DEF comps, OfComp
    <3> QED BY <2>2, <2>3, <2>5, <3>2, <3>4, <3>5
  <2> QED BY <2>4, <2>5
<1>7. CASE e \in {"Commit"} \X CommitIds
  <2>1. PICK k \in CommitIds : e = <<"Commit", k>>
    BY <1>7
  <2>2. EntriesOf(j, s.seq, e) = OfCommit(k)
    <3>1. \A i \in applied : WriteOf(j[i].rec).entity = e <=> j[i].rec.type = "Commit" /\ j[i].rec.key = k
      BY <1>4, <2>1, WriteOfRecord
    <3> QED BY <1>5, <3>1
  <2>3. /\ Recovered(s, j)[e] = commits[k]
        /\ TableOf(s.state)[e] = s.state.commits[k]
    BY <1>3, <2>1 DEF Recovered, TableOf
  <2>4. CASE OfCommit(k) = {}
    <3>1. commits[k] = s.state.commits[k]
      BY <2>4
    <3> HIDE DEF commits, OfCommit
    <3> QED BY <2>2, <2>3, <2>4, <3>1
  <2>5. CASE OfCommit(k) # {}
    <3>1. Last(OfCommit(k)) \in OfCommit(k)
      BY <1>1, <2>5, LastOf
    <3>2. PICK l : l = Last(OfCommit(k))
      OBVIOUS
    <3>3. l \in applied /\ j[l].rec.type = "Commit" /\ j[l].rec \in Record
      BY <1>4, <3>1, <3>2
    <3>4. WriteOf(j[l].rec).value = j[l].rec.val
      BY <3>3, WriteOfRecord
    <3>5. commits[k] = j[l].rec.val
      BY <2>5, <3>2
    <3> HIDE DEF commits, OfCommit
    <3> QED BY <2>2, <2>3, <2>5, <3>2, <3>4, <3>5
  <2> QED BY <2>4, <2>5
<1> QED BY <1>6, <1>7 DEF Entities

\* An append after everything on disk is one write of the table.
LEMMA RecoveredAppend ==
    ASSUME NEW s \in [seq : Nat, state : State], NEW j \in Seq(JournalEntry),
           NEW r \in Record, NEW n \in Nat, s.seq < n, \A i \in 1..Len(j) : j[i].seq < n
    PROVE  Recovered(s, Append(j, Entry(n, r, TRUE))) = Store!Put(Recovered(s, j), WriteOf(r))
<1> DEFINE x == Entry(n, r, TRUE)
           w == Append(j, x)
           m == Len(j) + 1
<1>1. x \in JournalEntry /\ x.seq = n /\ x.rec = r
  BY DEF Entry, JournalEntry
<1> HIDE DEF x
<1>2. /\ w \in Seq(JournalEntry)
      /\ Len(w) = m
      /\ \A i \in 1..Len(j) : w[i] = j[i]
      /\ w[m] = x
  BY <1>1, AppendProperties
<1> HIDE DEF w
<1>3. /\ Len(j) \in Nat /\ 1..Len(w) = 1..Len(j) \cup {m} /\ m \notin 1..Len(j)
      /\ m \in Nat /\ m \in 1..m /\ \A h \in 1..Len(j) : h \in 1..m /\ h <= m
  BY <1>2
<1>4. Applied(w, s.seq) = Applied(j, s.seq) \cup {m}
  <2>1. \A i \in 1..Len(j) : \A h \in 1..(i - 1) : h \in 1..Len(j)
    BY <1>3
  <2>2. \A i \in 1..Len(j) : i \in Applied(w, s.seq) <=> i \in Applied(j, s.seq)
    BY <1>2, <1>3, <2>1 DEF Applied
  <2>3. m \in Applied(w, s.seq)
    <3>1. \A h \in 1..(m - 1) : h \in 1..Len(j)
      BY <1>3
    <3> QED BY <1>1, <1>2, <1>3, <3>1 DEF Applied
  <2> QED BY <1>3, <2>2, <2>3 DEF Applied
<1>5. ASSUME NEW e \in Entities
      PROVE  Recovered(s, w)[e] = IF e = WriteOf(r).entity THEN WriteOf(r).value ELSE Recovered(s, j)[e]
  <2> DEFINE I == EntriesOf(j, s.seq, e)
             J == EntriesOf(w, s.seq, e)
  <2>1. I \subseteq 1..Len(j)
    BY DEF EntriesOf, Applied
  <2>2. J = IF e = WriteOf(r).entity THEN I \cup {m} ELSE I
    <3>1. \A i \in Applied(j, s.seq) : w[i] = j[i]
      BY <1>2 DEF Applied
    <3> QED BY <1>1, <1>2, <1>4, <3>1 DEF EntriesOf
  <2>3. /\ Recovered(s, w)[e] = IF J = {} THEN TableOf(s.state)[e] ELSE WriteOf(w[Last(J)].rec).value
        /\ Recovered(s, j)[e] = IF I = {} THEN TableOf(s.state)[e] ELSE WriteOf(j[Last(I)].rec).value
    BY <1>2, RecoveredIs
  <2> HIDE DEF I, J
  <2>4. CASE e = WriteOf(r).entity
    <3>1. m \in J /\ J \in SUBSET (1..m) /\ \A h \in J : h <= m
      <4> HIDE DEF m
      <4>1. J = I \cup {m}
        BY <2>2, <2>4
      <4>2. ASSUME NEW h \in J PROVE h \in 1..m /\ h <= m
        <5>1. CASE h = m
          BY <5>1, <1>3
        <5>2. CASE h # m
          <6>1. h \in 1..Len(j)
            BY <4>1, <4>2, <5>2, <2>1
          <6> QED BY <6>1, <1>3
        <5> QED BY <5>1, <5>2
      <4> QED BY <4>1, <4>2
    <3>2. Last(J) = m
      <4> HIDE DEF m
      <4> QED BY <1>3, <3>1, LastIs
    <3> QED BY <1>1, <1>2, <2>3, <2>4, <3>1, <3>2
  <2>5. CASE e # WriteOf(r).entity
    <3>1. I # {} => Last(I) \in 1..Len(j)
      BY <1>3, <2>1, LastOf
    <3> QED BY <1>2, <2>2, <2>3, <2>5, <3>1
  <2> QED BY <2>4, <2>5
<1>6. DOMAIN Recovered(s, j) = Entities /\ Recovered(s, w) = [e \in Entities |-> Recovered(s, w)[e]]
  BY DEF Recovered, TableOf
<1>7. Recovered(s, w) = [e \in Entities |-> IF e = WriteOf(r).entity THEN WriteOf(r).value
                                            ELSE Recovered(s, j)[e]]
  BY <1>5, <1>6
<1> QED BY <1>6, <1>7 DEF Store!Put, w, x

\* Entries that the snapshot already covers add nothing to it.
LEMMA RecoveredCovered ==
    ASSUME NEW s \in [seq : Nat, state : State], NEW j \in Seq(JournalEntry),
           \A i \in 1..Len(j) : j[i].seq <= s.seq
    PROVE  Recovered(s, j) = TableOf(s.state)
<1>1. Applied(j, s.seq) = {}
  <2>1. \A i \in 1..Len(j) : j[i].seq \in Nat
    BY EntryTypes
  <2> QED BY <2>1 DEF Applied
<1>2. \A e \in Entities : Recovered(s, j)[e] = TableOf(s.state)[e]
  <2>1. \A e : EntriesOf(j, s.seq, e) = {}
    BY <1>1 DEF EntriesOf
  <2> QED BY <2>1, RecoveredIs
<1>3. Recovered(s, j) = [e \in Entities |-> Recovered(s, j)[e]]
      /\ TableOf(s.state) = [e \in Entities |-> TableOf(s.state)[e]]
  BY DEF Recovered, TableOf
<1> QED BY <1>2, <1>3

\* The first n entries of a journal.
LEMMA FirstEntries ==
    ASSUME NEW j \in Seq(JournalEntry), NEW n \in 0..Len(j)
    PROVE  /\ SubSeq(j, 1, n) \in Seq(JournalEntry)
           /\ Len(SubSeq(j, 1, n)) = n
           /\ \A i \in 1..n : SubSeq(j, 1, n)[i] = j[i]
           /\ \A m \in 0..n : SubSeq(SubSeq(j, 1, n), 1, m) = SubSeq(j, 1, m)
<1>1. Len(j) \in Nat /\ \A i \in 1..Len(j) : j[i] \in JournalEntry
  BY ElementOfSeq
<1>2. ASSUME NEW w \in Seq(JournalEntry), NEW k \in 0..Len(w)
      PROVE  /\ SubSeq(w, 1, k) \in Seq(JournalEntry)
             /\ Len(SubSeq(w, 1, k)) = k
             /\ \A i \in 1..k : SubSeq(w, 1, k)[i] = w[i]
  <2>1. 1 \in Int /\ k \in Int /\ Len(w) \in Nat /\ \A i \in 1..k : w[i] \in JournalEntry
    BY ElementOfSeq
  <2>2. /\ SubSeq(w, 1, k) \in Seq(JournalEntry)
        /\ Len(SubSeq(w, 1, k)) = (IF 1 <= k THEN k - 1 + 1 ELSE 0)
        /\ \A i \in 1..(k - 1 + 1) : SubSeq(w, 1, k)[i] = w[1 + i - 1]
    BY <2>1, SubSeqProperties
  <2> QED BY <2>1, <2>2
<1>3. ASSUME NEW m \in 0..n PROVE SubSeq(SubSeq(j, 1, n), 1, m) = SubSeq(j, 1, m)
  <2> DEFINE p == SubSeq(j, 1, n)
             q == SubSeq(j, 1, m)
             r == SubSeq(p, 1, m)
  <2>1. m \in 0..Len(j)
    BY <1>1
  <2>2. p \in Seq(JournalEntry) /\ Len(p) = n /\ \A i \in 1..n : p[i] = j[i]
    BY <1>2
  <2>3. q \in Seq(JournalEntry) /\ Len(q) = m /\ \A i \in 1..m : q[i] = j[i]
    BY <1>2, <2>1
  <2> HIDE DEF p, q
  <2>4. r \in Seq(JournalEntry) /\ Len(r) = m /\ \A i \in 1..m : r[i] = p[i]
    BY <1>2, <2>2
  <2> HIDE DEF r
  <2>5. \A i \in 1..Len(r) : r[i] = q[i]
    BY <2>2, <2>3, <2>4
  <2>6. r = q
    BY <2>3, <2>4, <2>5, SeqEqual
  <2> QED BY <2>6 DEF p, q, r
<1> QED BY <1>2, <1>3

\* The tables of the prefixes of a journal, after an append and of a prefix.
LEMMA PrefixesOfAppend ==
    ASSUME NEW s, NEW j \in Seq(JournalEntry), NEW x \in JournalEntry
    PROVE  RecoveredPrefixes(s, Append(j, x)) = RecoveredPrefixes(s, j) \cup {Recovered(s, Append(j, x))}
<1> DEFINE w == Append(j, x)
           n == Len(j)
<1>1. /\ w \in Seq(JournalEntry) /\ Len(w) = n + 1 /\ n \in Nat
      /\ \A i \in 1..n : w[i] = j[i]
  BY AppendProperties
<1>2. SubSeq(w, 1, n + 1) = w
  BY <1>1, SubSeqFull
<1>3. ASSUME NEW k \in 0..n PROVE SubSeq(w, 1, k) = SubSeq(j, 1, k)
  <2> HIDE DEF w
  <2>1. k \in 0..Len(w)
    BY <1>1
  <2>2. /\ SubSeq(w, 1, k) \in Seq(JournalEntry) /\ Len(SubSeq(w, 1, k)) = k
        /\ \A i \in 1..k : SubSeq(w, 1, k)[i] = w[i]
    BY <1>1, <2>1, FirstEntries
  <2>3. /\ SubSeq(j, 1, k) \in Seq(JournalEntry) /\ Len(SubSeq(j, 1, k)) = k
        /\ \A i \in 1..k : SubSeq(j, 1, k)[i] = j[i]
    BY FirstEntries
  <2>4. \A i \in 1..k : w[i] = j[i]
    BY <1>1
  <2> QED BY <2>2, <2>3, <2>4, SeqEqual
<1>4. 0..(n + 1) = 0..n \cup {n + 1}
  BY <1>1
<1> HIDE DEF w
<1>5. RecoveredPrefixes(s, w) = {Recovered(s, SubSeq(w, 1, k)) : k \in 0..n} \cup {Recovered(s, w)}
  BY <1>1, <1>2, <1>4 DEF RecoveredPrefixes
<1>6. {Recovered(s, SubSeq(w, 1, k)) : k \in 0..n} = RecoveredPrefixes(s, j)
  BY <1>3 DEF RecoveredPrefixes
<1> QED BY <1>5, <1>6 DEF w

(* A prefix of a journal recovers one of the tables of the whole.           *)
LEMMA PrefixesOfPrefix ==
    ASSUME NEW s, NEW j \in Seq(JournalEntry), NEW n \in 0..Len(j)
    PROVE  /\ Recovered(s, SubSeq(j, 1, n)) \in RecoveredPrefixes(s, j)
           /\ Recovered(s, SubSeq(j, 1, n)) \in RecoveredPrefixes(s, SubSeq(j, 1, n))
           /\ RecoveredPrefixes(s, SubSeq(j, 1, n)) \subseteq RecoveredPrefixes(s, j)
<1>1. /\ Len(SubSeq(j, 1, n)) = n /\ Len(j) \in Nat
      /\ \A m \in 0..n : SubSeq(SubSeq(j, 1, n), 1, m) = SubSeq(j, 1, m)
  BY FirstEntries
<1>2. n \in 0..n /\ \A m \in 0..n : m \in 0..Len(j)
  BY <1>1
<1> QED BY <1>1, <1>2 DEF RecoveredPrefixes

\* Only one table was there since a snapshot that covers the journal.
LEMMA PrefixesCovered ==
    ASSUME NEW s \in [seq : Nat, state : State], NEW j \in Seq(JournalEntry),
           \A i \in 1..Len(j) : j[i].seq <= s.seq
    PROVE  RecoveredPrefixes(s, j) = {TableOf(s.state)}
<1>1. ASSUME NEW n \in 0..Len(j) PROVE Recovered(s, SubSeq(j, 1, n)) = TableOf(s.state)
  <2>1. /\ SubSeq(j, 1, n) \in Seq(JournalEntry) /\ Len(SubSeq(j, 1, n)) = n /\ Len(j) \in Nat
        /\ \A i \in 1..n : SubSeq(j, 1, n)[i] = j[i]
    BY FirstEntries
  <2>2. \A i \in 1..Len(SubSeq(j, 1, n)) : SubSeq(j, 1, n)[i].seq <= s.seq
    BY <2>1
  <2> QED BY <2>1, <2>2, RecoveredCovered
<1>2. 0 \in 0..Len(j)
  OBVIOUS
<1> QED BY <1>1, <1>2 DEF RecoveredPrefixes
-----------------------------------------------------------------------------
(***************************************************************************)
(* The steps of the store.                                                 *)
(***************************************************************************)

\* What a running process has on disk is intact as long as no append failed.
LEMMA IntactIs ==
    ASSUME TypeOK, OnlyTheTailIsTorn, ~faulted, file # "Closed"
    PROVE  OnDisk \in Seq(JournalEntry) /\ Intact = OnDisk /\ \A i \in 1..Len(OnDisk) : OnDisk[i].whole
<1>1. OnDisk \in Seq(JournalEntry)
  BY DEF OnDisk, TypeOK
<1>2. \A i \in 1..Len(OnDisk) : OnDisk[i].whole
  BY DEF OnDisk, OnlyTheTailIsTorn
<1> QED BY <1>1, <1>2, WholeIsUndamaged DEF Intact

\* What the next open() accepts is a sequence of entries.
LEMMA IntactTypes == TypeOK => Intact \in Seq(JournalEntry)
BY UndamagedPrefix DEF TypeOK, Intact, OnDisk

\* open() finds what was intact, and what it buffers is intact.
LEMMA OpenIntact ==
    ASSUME TypeOK, OnlyTheTailIsTorn, store_open
    PROVE  Intact' = Intact
<1>1. journal \in Seq(JournalEntry) /\ file = "Closed" /\ kept' = Undamaged(journal) /\ file' = "Reopening"
  BY DEF TypeOK, store_open
<1>2. Intact = kept'
  BY <1>1 DEF Intact, OnDisk
<1>3. kept' \in Seq(JournalEntry) /\ \A i \in 1..Len(kept') : kept'[i].whole
  BY <1>1, UndamagedPrefix
<1>4. Undamaged(kept') = kept'
  BY <1>3, WholeIsUndamaged
<1> QED BY <1>1, <1>2, <1>4 DEF Intact, OnDisk

\* After an append there is one more intact entry.
LEMMA AppendIntact ==
    ASSUME TypeOK, OnlyTheTailIsTorn, ~faulted, NEW r \in Record, append(r)
    PROVE  Intact' = Append(Intact, Entry(seq + 1, r, TRUE))
<1>1. file # "Closed"
  BY DEF append
<1>2. OnDisk \in Seq(JournalEntry) /\ Intact = OnDisk /\ \A i \in 1..Len(OnDisk) : OnDisk[i].whole
  BY <1>1, IntactIs
<1>3. journal' = Append(OnDisk, Entry(seq + 1, r, TRUE)) /\ file' = "Open"
  BY DEF append, OnDisk
<1>4. /\ journal' \in Seq(JournalEntry)
      /\ \A i \in 1..Len(OnDisk) : journal'[i] = OnDisk[i]
      /\ journal'[Len(OnDisk) + 1].whole
      /\ \A i \in 1..Len(journal') : i = Len(OnDisk) + 1 \/ i \in 1..Len(OnDisk)
  BY AppendSteps
<1>5. \A i \in 1..Len(journal') : journal'[i].whole
  BY <1>2, <1>4
<1>6. Undamaged(journal') = journal'
  BY <1>4, <1>5, WholeIsUndamaged
<1> QED BY <1>2, <1>3, <1>6 DEF Intact, OnDisk

\* A torn record after intact ones is not read.
LEMMA TornIsNotRead ==
    ASSUME NEW j \in Seq(JournalEntry), \A i \in 1..Len(j) : j[i].whole, NEW x \in JournalEntry
    PROVE  Undamaged(Append(j, x)) = IF x.whole THEN Append(j, x) ELSE j
<1> DEFINE w == Append(j, x)
           n == Len(j)
<1>1. /\ w \in Seq(JournalEntry) /\ Len(w) = n + 1 /\ n \in Nat
      /\ \A i \in 1..n : w[i] = j[i]
      /\ w[n + 1] = x
  BY AppendProperties
<1> HIDE DEF w
<1>2. CASE x.whole
  <2>1. \A i \in 1..Len(w) : i = n + 1 \/ i \in 1..n
    BY <1>1
  <2>2. \A i \in 1..Len(w) : w[i].whole
    BY <1>1, <1>2, <2>1
  <2> QED BY <1>1, <1>2, <2>2, WholeIsUndamaged DEF w
<1>3. CASE ~x.whole
  <2>1. PICK d : d = FirstDamage(w)
    OBVIOUS
  <2>2. /\ d \in 1..(Len(w) + 1)
        /\ d = Len(w) + 1 \/ ~w[d].whole
        /\ \A h \in 1..(d - 1) : w[h].whole
    BY <1>1, <2>1, FirstDamageFound
  <2>3. d # n + 2
    <3> SUFFICES ASSUME d = n + 2 PROVE FALSE
      OBVIOUS
    <3>1. n + 1 \in 1..(d - 1)
      BY <1>1
    <3> QED BY <1>1, <1>3, <2>2, <3>1
  <2>4. d \notin 1..n
    BY <1>1, <2>2
  <2>5. d = n + 1
    BY <1>1, <2>2, <2>3, <2>4
  <2>6. Undamaged(w) = SubSeq(w, 1, n)
    BY <1>1, <2>1, <2>5 DEF Undamaged
  <2>7. n \in 0..Len(w) /\ n \in 0..Len(j)
    BY <1>1
  <2>8. /\ SubSeq(w, 1, n) \in Seq(JournalEntry) /\ Len(SubSeq(w, 1, n)) = n
        /\ \A i \in 1..n : SubSeq(w, 1, n)[i] = w[i]
    BY <1>1, <2>7, FirstEntries
  <2>9. SubSeq(w, 1, n) = j
    BY <1>1, <2>8, SeqEqual
  <2> QED BY <1>3, <2>6, <2>9 DEF w
<1> QED BY <1>2, <1>3

\* What is intact after a crash: what was, with the record being appended or without it, or,
\* while the journal was being written back, a prefix.
LEMMA CrashIntact ==
    ASSUME TypeOK, OnlyTheTailIsTorn, ~faulted, crash
    PROVE  /\ snapshot' = snapshot /\ file' = "Closed" /\ todo' = <<>> /\ faulted' = faulted
           /\ \/ Intact' = Intact
              \/ todo # <<>> /\ Intact' = Append(Intact, Entry(seq + 1, todo[1].rec, TRUE))
              \/ file = "Reopening" /\ \E n \in 0..Len(Intact) : Intact' = SubSeq(Intact, 1, n)
<1> DEFINE pending == [i \in DOMAIN todo |-> todo[i].rec]
<1>1. /\ file # "Closed" /\ file' = "Closed" /\ todo' = <<>>
      /\ UNCHANGED <<snapshot, faulted>>
      /\ \/ file = "Reopening" /\ journal' \in Rewritten(kept)
         \/ file # "Reopening" /\ journal' = journal
         \/ pending # <<>> /\ journal' \in Written(OnDisk, seq + 1, pending[1])
  BY DEF crash, store_crash, OnDisk
<1>2. OnDisk \in Seq(JournalEntry) /\ Intact = OnDisk /\ \A i \in 1..Len(OnDisk) : OnDisk[i].whole
  BY <1>1, IntactIs
<1>3. Intact' = Undamaged(journal')
  BY <1>1 DEF Intact, OnDisk
<1>4. CASE file # "Reopening" /\ journal' = journal
  BY <1>1, <1>3, <1>4 DEF Intact, OnDisk
<1>5. CASE pending # <<>> /\ journal' \in Written(OnDisk, seq + 1, pending[1])
  <2>1. todo # <<>>
    BY <1>5
  <2>2. 1 \in 1..Len(todo) /\ todo[1].rec \in Record
    BY <2>1, TodoSteps
  <2>3. pending[1] = todo[1].rec
    BY <2>2 DEF TypeOK
  <2>4. \/ journal' = OnDisk
        \/ journal' = Append(OnDisk, Entry(seq + 1, todo[1].rec, FALSE))
        \/ journal' = Append(OnDisk, Entry(seq + 1, todo[1].rec, TRUE))
    BY <1>5, <2>3 DEF Written
  <2>5. \A b \in BOOLEAN : /\ Entry(seq + 1, todo[1].rec, b) \in JournalEntry
                           /\ Entry(seq + 1, todo[1].rec, b).whole = b
    BY <2>2 DEF Entry, JournalEntry, TypeOK
  <2>6. \A b \in BOOLEAN : Undamaged(Append(OnDisk, Entry(seq + 1, todo[1].rec, b))) =
                               IF b THEN Append(OnDisk, Entry(seq + 1, todo[1].rec, b)) ELSE OnDisk
    BY <1>2, <2>5, TornIsNotRead
  <2>7. Undamaged(OnDisk) = OnDisk
    BY <1>2 DEF Intact
  <2> HIDE DEF pending
  <2> QED BY <1>1, <1>2, <1>3, <2>1, <2>4, <2>6, <2>7
<1>6. CASE file = "Reopening" /\ journal' \in Rewritten(kept)
  <2>1. OnDisk = kept
    BY <1>6 DEF OnDisk
  <2>2. \A n \in 0..Len(kept) : /\ SubSeq(kept, 1, n) \in Seq(JournalEntry)
                                /\ Len(SubSeq(kept, 1, n)) = n
                                /\ \A i \in 1..Len(SubSeq(kept, 1, n)) : SubSeq(kept, 1, n)[i].whole
    <3> SUFFICES ASSUME NEW n \in 0..Len(kept)
                 PROVE  /\ SubSeq(kept, 1, n) \in Seq(JournalEntry)
                        /\ Len(SubSeq(kept, 1, n)) = n
                        /\ \A i \in 1..Len(SubSeq(kept, 1, n)) : SubSeq(kept, 1, n)[i].whole
      OBVIOUS
    <3>1. /\ SubSeq(kept, 1, n) \in Seq(JournalEntry) /\ Len(SubSeq(kept, 1, n)) = n /\ Len(kept) \in Nat
          /\ \A i \in 1..n : SubSeq(kept, 1, n)[i] = kept[i]
      BY <1>2, <2>1, FirstEntries
    <3> QED BY <1>2, <2>1, <3>1
  <2>3. CASE \E n \in 0..Len(kept) : journal' = SubSeq(kept, 1, n)
    <3>1. PICK n \in 0..Len(kept) : journal' = SubSeq(kept, 1, n)
      BY <2>3
    <3>2. Undamaged(journal') = SubSeq(kept, 1, n)
      BY <2>2, <3>1, WholeIsUndamaged
    <3> QED BY <1>1, <1>2, <1>3, <1>6, <2>1, <3>2
  <2>4. CASE \E n \in 0..(Len(kept) - 1) :
                 journal' = Append(SubSeq(kept, 1, n), [kept[n + 1] EXCEPT !.whole = FALSE])
    <3>1. PICK n \in 0..(Len(kept) - 1) :
                 journal' = Append(SubSeq(kept, 1, n), [kept[n + 1] EXCEPT !.whole = FALSE])
      BY <2>4
    <3>2. n \in 0..Len(kept) /\ n + 1 \in 1..Len(kept)
      BY <1>2, <2>1
    <3>3. PICK x : x = [kept[n + 1] EXCEPT !.whole = FALSE]
      OBVIOUS
    <3>4. x \in JournalEntry /\ ~x.whole
      <4>1. kept[n + 1] \in JournalEntry
        BY <1>2, <2>1, <3>2, EntryTypes
      <4> QED BY <3>3, <4>1 DEF JournalEntry
    <3>5. Undamaged(journal') = SubSeq(kept, 1, n)
      BY <2>2, <3>1, <3>2, <3>3, <3>4, TornIsNotRead
    <3> QED BY <1>1, <1>2, <1>3, <1>6, <2>1, <3>2, <3>5
  <2> QED BY <1>6, <2>3, <2>4 DEF Rewritten
<1> QED BY <1>1, <1>4, <1>5, <1>6

\* A restart changes neither generations nor commits.
LEMMA RestartedTable ==
    ASSUME NEW s \in State
    PROVE  TableOf(Restarted(s)) = TableOf(s)
<1>1. Restarted(s).commits = s.commits
  BY RestartedTypes
<1>2. \A c \in Compilations : Restarted(s).comps[c].gen = s.comps[c].gen
  <2> DEFINE comps == [c \in Compilations |->
                  IF s.comps[c].state \in {"Absent", "Committed"} THEN s.comps[c]
                  ELSE [s.comps[c] EXCEPT !.state = IF s.authoritative[c] # 0 THEN "Committed"
                                                                             ELSE "Pending"]]
  <2>1. Restarted(s) = [s EXCEPT !.epoch = @ + 1, !.comps = comps]
    BY DEF Restarted
  <2>2. \A c \in Compilations : comps[c].gen = s.comps[c].gen
    BY DEF State, Compilation
  <2> HIDE DEF comps
  <2>3. Restarted(s).comps = comps
    BY <2>1 DEF State
  <2> QED BY <2>2, <2>3
<1>3. \A e \in Entities : TableOf(Restarted(s))[e] = TableOf(s)[e]
  BY <1>1, <1>2 DEF Entities, TableOf
<1>4. \A t : TableOf(t) = [e \in Entities |-> TableOf(t)[e]]
  BY DEF TableOf
<1>5. TableOf(Restarted(s)) = [e \in Entities |-> TableOf(Restarted(s))[e]]
      /\ TableOf(s) = [e \in Entities |-> TableOf(s)[e]]
  BY <1>4
<1> QED BY <1>3, <1>5

(* A header record writes no entity.                                        *)
LEMMA HeaderWritesNothing ==
    ASSUME NEW s, NEW j
    PROVE  Store!Put(Recovered(s, j), WriteOf(HeaderRecord)) = Recovered(s, j)
<1>1. \A e \in Entities : e # WriteOf(HeaderRecord).entity
  BY DEF Entities, WriteOf
<1>2. DOMAIN Recovered(s, j) = Entities /\ Recovered(s, j) = [e \in Entities |-> Recovered(s, j)[e]]
  BY DEF Recovered, TableOf
<1>3. Store!Put(Recovered(s, j), WriteOf(HeaderRecord)) = [e \in Entities |-> Recovered(s, j)[e]]
  BY <1>1, <1>2 DEF Store!Put
<1> QED BY <1>2, <1>3

\* The numbers on disk are behind seq_ when a record is appended or a snapshot is written.
LEMMA NumbersOnDisk ==
    ASSUME TypeOK, EpochsRise, OnlyTheTailIsTorn, IdsAreOwned, DiskFollowsMemory, MemoryIsRecovered,
           ~faulted, file # "Closed"
    PROVE  /\ snapshot.seq <= seq /\ snapshot.seq \in Nat /\ seq \in Nat
           /\ Intact \in Seq(JournalEntry)
           /\ \A i \in 1..Len(Intact) : Intact[i].seq <= seq /\ Intact[i].seq \in Nat
<1>1. Intact = OnDisk /\ OnDisk \in Seq(JournalEntry)
  BY IntactIs
<1>2. snapshot.seq \in Nat /\ seq \in Nat
  BY DEF TypeOK
<1>3. \A i \in 1..Len(OnDisk) : OnDisk[i].seq \in Nat
  BY <1>1, EntryTypes
<1>4. CASE serving
  <2>1. InSequence /\ OnDisk = journal
    BY <1>4 DEF DiskFollowsMemory, EpochsRise, OnDisk
  <2> QED BY <1>1, <1>2, <1>3, <2>1 DEF InSequence
<1>5. CASE ~serving
  BY <1>1, <1>2, <1>3, <1>5 DEF MemoryIsRecovered, IdsAreOwned
<1> QED BY <1>4, <1>5

\* Until the process serves it has in memory what it recovered.
LEMMA MemoryRecoveredNext ==
    ASSUME TypeOK, SnapshotHoldsMemory, EpochsRise, OnlyTheTailIsTorn, IdsAreOwned, DiskFollowsMemory,
           MemoryIsRecovered, [Next]_vars
    PROVE  MemoryIsRecovered'
<1> SUFFICES ASSUME file' # "Closed", ~serving', ~faulted'
             PROVE  snapshot'.seq <= seq' /\ TableOf(mem') = Recovered(snapshot', Intact')
  BY DEF MemoryIsRecovered
<1>0. /\ snapshot \in [seq : Nat, state : State] /\ mem \in State /\ seq \in Nat
      /\ journal \in Seq(JournalEntry)
  BY DEF TypeOK
<1>1. CASE open
  <2>1. /\ store_open /\ snapshot' = snapshot /\ seq' = LastSeq(Undamaged(journal), snapshot.seq)
        /\ mem' = Restarted(Replay(snapshot, Undamaged(journal))) /\ file = "Closed"
    BY <1>1 DEF open, store_open
  <2>2. Intact' = Intact /\ Intact = Undamaged(journal) /\ Intact \in Seq(JournalEntry)
    BY <1>0, <2>1, OpenIntact, IntactTypes DEF Intact, OnDisk
  <2>3. TableOf(mem') = Recovered(snapshot, Intact)
    BY <1>0, <2>1, <2>2, ReplayTypes, RestartedTable DEF Recovered
  <2>4. snapshot.seq <= LastSeq(Intact, snapshot.seq) /\ snapshot.seq \in Nat
    BY <1>0, <2>2, LastSeqBounds
  <2> QED BY <2>1, <2>2, <2>3, <2>4
<1>2. CASE take_snapshot
  <2>1. /\ file = "Open" /\ file' = "Renamed" /\ snapshot' = [seq |-> seq, state |-> mem]
        /\ UNCHANGED <<journal, seq, mem, serving, faulted>>
    BY <1>2 DEF take_snapshot, write_snapshot
  <2>2. Intact' = Intact
    BY <2>1 DEF Intact, OnDisk
  <2>3. Intact \in Seq(JournalEntry) /\ \A i \in 1..Len(Intact) : Intact[i].seq <= seq
    BY <2>1, NumbersOnDisk
  <2>4. Recovered(snapshot', Intact) = TableOf(mem)
    <3>1. snapshot' \in [seq : Nat, state : State] /\ snapshot'.seq = seq /\ snapshot'.state = mem
      BY <1>0, <2>1
    <3> QED BY <2>3, <3>1, RecoveredCovered
  <2> QED BY <1>0, <2>1, <2>2, <2>4
<1>3. CASE finish_snapshot
  BY <1>3 DEF finish_snapshot
<1>4. CASE \E c \in Compilations : submit(c) \/ rebuild(c) \/ commit(c) \/ deduplicate(c)
  BY <1>4, HandlerSteps
<1>5. CASE persist
  <2>1. /\ todo # <<>> /\ append(todo[1].rec) /\ todo[1].rec \in Record /\ 1 \in 1..Len(todo)
        /\ UNCHANGED <<mem, serving>>
    BY <1>5, TodoSteps DEF persist
  <2>2. snapshot' = snapshot /\ seq' = seq + 1 /\ faulted' = faulted /\ file # "Closed"
    BY <2>1 DEF append
  <2>3. todo[1].rec = HeaderRecord
    BY <2>1, <2>2 DEF IdsAreOwned
  <2>4. Intact' = Append(Intact, Entry(seq + 1, HeaderRecord, TRUE))
    BY <2>1, <2>2, <2>3, AppendIntact
  <2>5. /\ snapshot.seq <= seq /\ snapshot.seq \in Nat /\ Intact \in Seq(JournalEntry)
        /\ \A i \in 1..Len(Intact) : Intact[i].seq <= seq /\ Intact[i].seq \in Nat
    BY <2>2, NumbersOnDisk
  <2>6. snapshot.seq < seq + 1 /\ seq + 1 \in Nat /\ \A i \in 1..Len(Intact) : Intact[i].seq < seq + 1
    BY <1>0, <2>5
  <2>7. Recovered(snapshot, Intact') = Recovered(snapshot, Intact)
    BY <1>0, <2>1, <2>3, <2>4, <2>5, <2>6, RecoveredAppend, HeaderWritesNothing
  <2>8. TableOf(mem) = Recovered(snapshot, Intact)
    BY <2>1, <2>2 DEF MemoryIsRecovered
  <2> QED BY <1>0, <2>1, <2>2, <2>5, <2>7, <2>8
<1>6. CASE persist_error
  BY <1>6 DEF persist_error
<1>7. CASE crash
  BY <1>7 DEF crash, store_crash
<1>8. CASE UNCHANGED vars
  <2>1. UNCHANGED <<snapshot, journal, kept, file, seq, faulted, mem, serving>>
    BY <1>8 DEF vars, storeVars
  <2> QED BY <2>1 DEF MemoryIsRecovered, Intact, OnDisk
<1> QED BY <1>1, <1>2, <1>3, <1>4, <1>5, <1>6, <1>7, <1>8 DEF Next
-----------------------------------------------------------------------------
(***************************************************************************)
(* Every step of the store is one of the table's.                          *)
(***************************************************************************)

Requested == [i \in 1..Len(todo) |-> WriteOf(todo[i].rec)]

\* The writes still to be made are those of the appends still to be made.
LEMMA RequestedSteps ==
    ASSUME TypeOK
    PROVE  /\ todo = <<>> => Requested = <<>>
           /\ todo # <<>> =>
                  /\ Requested # <<>>
                  /\ Head(Requested) = WriteOf(todo[1].rec)
                  /\ Tail(Requested) = [i \in 1..Len(Tail(todo)) |-> WriteOf(Tail(todo)[i].rec)]
<1>1. CASE todo = <<>>
  <2>1. Len(todo) = 0
    BY <1>1
  <2>2. 1..Len(todo) = {}
    BY <2>1
  <2>3. Requested = <<>>
    BY <2>2 DEF Requested
  <2> QED BY <1>1, <2>3
<1>2. CASE todo # <<>>
  <2> DEFINE Writes == {WriteOf(todo[i].rec) : i \in 1..Len(todo)}
             t == [i \in 1..Len(Tail(todo)) |-> WriteOf(Tail(todo)[i].rec)]
  <2>1. /\ 1 \in 1..Len(todo) /\ Len(todo) \in Nat
        /\ Len(Tail(todo)) = Len(todo) - 1
        /\ \A i \in 1..Len(Tail(todo)) : i + 1 \in 1..Len(todo) /\ Tail(todo)[i] = todo[i + 1]
    BY <1>2, TodoSteps DEF TypeOK
  <2>2. Requested \in Seq(Writes) /\ Len(Requested) = Len(todo)
    <3>1. Requested \in [1..Len(todo) -> Writes]
      BY DEF Requested
    <3> HIDE DEF Writes
    <3> QED BY <2>1, <3>1, SeqDef, LenProperties DEF Requested
  <2>3. \A i \in 1..Len(todo) : Requested[i] = WriteOf(todo[i].rec)
    BY DEF Requested
  <2> HIDE DEF Writes
  <2>4. Requested # <<>>
    BY <2>1, <2>2
  <2>5. Head(Requested) = WriteOf(todo[1].rec)
    BY <2>1, <2>2, <2>3, <2>4
  <2>6. /\ Tail(Requested) \in Seq(Writes)
        /\ Len(Tail(Requested)) = Len(Requested) - 1
        /\ \A i \in 1..Len(Tail(Requested)) : Tail(Requested)[i] = Requested[i + 1]
    BY <2>2, <2>4, HeadTailProperties
  <2>7. \A i \in 1..Len(Tail(todo)) : t[i] = Requested[i + 1] /\ t[i] \in Writes
    <3>1. \A i \in 1..Len(todo) : WriteOf(todo[i].rec) \in Writes
      BY DEF Writes
    <3> QED BY <2>1, <2>3, <3>1
  <2>8. t \in Seq(Writes) /\ Len(t) = Len(Tail(todo))
    <3>1. Len(Tail(todo)) \in Nat
      BY <2>1
    <3>2. t \in [1..Len(Tail(todo)) -> Writes]
      BY <2>7, Zenon
    <3>3. ASSUME NEW n \in Nat, NEW S, NEW f \in [1..n -> S]
          PROVE  f \in Seq(S) /\ Len(f) = n
      <4>1. f \in Seq(S)
        BY <3>3, SeqDef
      <4> QED BY <4>1, LenProperties
    <3> HIDE DEF t
    <3> QED BY <3>1, <3>2, <3>3
  <2> HIDE DEF t
  <2>9. Tail(Requested) = t
    BY <2>1, <2>2, <2>6, <2>7, <2>8, SeqEqual
  <2> QED BY <1>2, <2>4, <2>5, <2>9 DEF t
<1> QED BY <1>1, <1>2

\* A new store is an empty table.
LEMMA StoreStarts == Init => Store!Init
<1> SUFFICES ASSUME Init PROVE Store!Init
  OBVIOUS
<1>1. /\ snapshot = [seq |-> 0, state |-> EmptyState] /\ journal = <<>> /\ file = "Closed"
      /\ todo = <<>> /\ faulted = FALSE
  BY DEF Init, StoreInit
<1>2. TypeOK
  BY TypeInit
<1>3. Intact \in Seq(JournalEntry) /\ Len(Intact) = 0
  <2>1. journal \in Seq(JournalEntry) /\ \A i \in 1..Len(journal) : journal[i].whole
    BY <1>1
  <2>2. Intact = journal
    BY <1>1, <2>1, WholeIsUndamaged DEF Intact, OnDisk
  <2> QED BY <1>1, <2>1, <2>2
<1>4. \A i \in 1..Len(Intact) : Intact[i].seq <= snapshot.seq
  BY <1>3
<1>5. snapshot \in [seq : Nat, state : State] /\ snapshot.state = EmptyState
  BY <1>1, <1>2 DEF TypeOK
<1>6. /\ Recovered(snapshot, Intact) = TableOf(EmptyState)
      /\ RecoveredPrefixes(snapshot, Intact) = {TableOf(EmptyState)}
  BY <1>3, <1>4, <1>5, RecoveredCovered, PrefixesCovered
<1>7. Requested = <<>>
  BY <1>1, <1>2, RequestedSteps
<1> QED BY <1>1, <1>6, <1>7 DEF Store!Init, Requested

\* What changed when neither the snapshot nor the intact entries did: nothing.
LEMMA SameTable ==
    ASSUME snapshot' = snapshot, Intact' = Intact
    PROVE  /\ Recovered(snapshot, Intact)' = Recovered(snapshot, Intact)
           /\ RecoveredPrefixes(snapshot, Intact)' = RecoveredPrefixes(snapshot, Intact)
OBVIOUS

\* One more intact entry, numbered after the others, is one write.
LEMMA OneWrite ==
    ASSUME TypeOK, snapshot' = snapshot, Intact \in Seq(JournalEntry),
           snapshot.seq <= seq, \A i \in 1..Len(Intact) : Intact[i].seq <= seq /\ Intact[i].seq \in Nat,
           NEW r \in Record, Intact' = Append(Intact, Entry(seq + 1, r, TRUE))
    PROVE  /\ Recovered(snapshot, Intact)' = Store!Put(Recovered(snapshot, Intact), WriteOf(r))
           /\ RecoveredPrefixes(snapshot, Intact)' =
                  RecoveredPrefixes(snapshot, Intact) \cup {Recovered(snapshot, Intact)'}
<1>1. snapshot \in [seq : Nat, state : State] /\ seq \in Nat /\ snapshot.seq \in Nat
  BY DEF TypeOK
<1>2. snapshot.seq < seq + 1 /\ seq + 1 \in Nat /\ \A i \in 1..Len(Intact) : Intact[i].seq < seq + 1
  BY <1>1
<1>3. Recovered(snapshot, Intact') = Store!Put(Recovered(snapshot, Intact), WriteOf(r))
  BY <1>1, <1>2, RecoveredAppend
<1>4. Entry(seq + 1, r, TRUE) \in JournalEntry
  BY <1>2 DEF Entry, JournalEntry
<1>5. RecoveredPrefixes(snapshot, Intact') = RecoveredPrefixes(snapshot, Intact) \cup {Recovered(snapshot, Intact')}
  BY <1>4, PrefixesOfAppend
<1> QED BY <1>3, <1>5

\* Every step of the coordinator, its crashes and its failed appends included, is a step of the
\* table or changes nothing of it.
LEMMA StoreNext ==
    ASSUME TypeOK, SnapshotHoldsMemory, EpochsRise, OnlyTheTailIsTorn, IdsAreOwned, DiskFollowsMemory,
           MemoryIsRecovered, ReplayGivesMemory, [Next]_vars
    PROVE  [Store!Next]_(Store!tableVars)
<1>0. /\ snapshot \in [seq : Nat, state : State] /\ mem \in State /\ seq \in Nat
      /\ faulted \in BOOLEAN /\ faulted' \in BOOLEAN
      /\ todo = <<>> => Requested = <<>>
      /\ todo' = <<>> => Requested' = <<>>
  <2>1. TypeOK'
    BY TypeNext
  <2>2. todo' = <<>> => Requested' = <<>>
    <3> SUFFICES ASSUME todo' = <<>> PROVE Requested' = <<>>
      OBVIOUS
    <3>1. Len(todo') = 0
      OBVIOUS
    <3>2. 1..Len(todo') = {}
      BY <3>1
    <3> QED BY <3>2 DEF Requested
  <2> QED BY <2>1, <2>2, RequestedSteps DEF TypeOK
<1>1. CASE faulted'
  BY <1>0, <1>1 DEF Store!Next, Store!Fail
<1>2. CASE ~faulted' /\ faulted
  <2>1. finish_snapshot
    <3>1. CASE \E c \in Compilations : submit(c) \/ rebuild(c) \/ commit(c) \/ deduplicate(c)
      BY <1>2, <3>1, HandlerSteps
    <3>2. CASE ~(\E c \in Compilations : submit(c) \/ rebuild(c) \/ commit(c) \/ deduplicate(c))
      BY <1>2, <3>2 DEF Next, vars, storeVars, open, store_open, take_snapshot, write_snapshot,
                        persist, append, persist_error, append_error, crash, store_crash
    <3> QED BY <3>1, <3>2
  <2>2. journal' = <<>> /\ file' = "Open" /\ snapshot' = snapshot
    BY <2>1 DEF finish_snapshot, truncate_journal
  <2>3. Intact' \in Seq(JournalEntry) /\ Len(Intact') = 0
    <3>1. journal' \in Seq(JournalEntry) /\ \A i \in 1..Len(journal') : journal'[i].whole
      BY <2>2
    <3>2. Undamaged(journal') = journal'
      BY <3>1, WholeIsUndamaged
    <3> QED BY <2>2, <3>1, <3>2 DEF Intact, OnDisk
  <2>4. \A i \in 1..Len(Intact') : Intact'[i].seq <= snapshot.seq
    BY <2>3
  <2>5. /\ Recovered(snapshot, Intact') = TableOf(snapshot.state)
        /\ RecoveredPrefixes(snapshot, Intact') = {TableOf(snapshot.state)}
    BY <1>0, <2>3, <2>4, RecoveredCovered, PrefixesCovered
  <2>6. /\ Recovered(snapshot, Intact)' = TableOf(snapshot.state)
        /\ RecoveredPrefixes(snapshot, Intact)' = {TableOf(snapshot.state)}
    BY <2>2, <2>5
  <2> QED BY <1>2, <2>6 DEF Store!Next, Store!Repair
<1>3. CASE ~faulted' /\ ~faulted
  <2>0. faulted' = faulted
    BY <1>0, <1>3
  <2>1. CASE open
    <3>1. /\ store_open /\ snapshot' = snapshot /\ file' = "Reopening"
      BY <2>1 DEF open, store_open
    <3>2. Intact' = Intact
      BY <3>1, OpenIntact
    <3>3. todo = <<>>
      BY <3>1 DEF store_open, SnapshotHoldsMemory
    <3> QED BY <1>0, <2>0, <3>1, <3>2, <3>3, SameTable DEF Store!Next, Store!Open, Requested
  <2>2. CASE take_snapshot
    <3>1. /\ todo = <<>> /\ todo' = todo /\ file = "Open" /\ file' = "Renamed"
          /\ snapshot' = [seq |-> seq, state |-> mem]
          /\ UNCHANGED <<journal, kept>>
      BY <2>2 DEF take_snapshot, write_snapshot
    <3>2. Intact' = Intact /\ Intact = Undamaged(journal)
      BY <3>1 DEF Intact, OnDisk
    <3>3. Intact \in Seq(JournalEntry) /\ \A i \in 1..Len(Intact) : Intact[i].seq <= seq
      BY <1>3, <3>1, NumbersOnDisk
    <3>4. Recovered(snapshot, Intact) = TableOf(mem)
      <4>1. CASE serving
        <5>1. LET r == Replay(snapshot, Undamaged(journal)) IN r.comps = mem.comps /\ r.commits = mem.commits
          BY <1>3, <3>1, <4>1 DEF ReplayGivesMemory
        <5> QED BY <3>2, <5>1 DEF Recovered, TableOf
      <4> QED BY <1>3, <3>1, <4>1 DEF MemoryIsRecovered
    <3>5. /\ Recovered(snapshot', Intact) = TableOf(mem)
          /\ RecoveredPrefixes(snapshot', Intact) = {TableOf(mem)}
      <4>1. snapshot' \in [seq : Nat, state : State] /\ snapshot'.seq = seq /\ snapshot'.state = mem
        BY <1>0, <3>1
      <4> QED BY <3>3, <4>1, RecoveredCovered, PrefixesCovered
    <3>6. /\ Recovered(snapshot, Intact)' = Recovered(snapshot, Intact)
          /\ RecoveredPrefixes(snapshot, Intact)' = {Recovered(snapshot, Intact)}
      BY <3>2, <3>4, <3>5
    <3>7. Requested = <<>> /\ Requested' = Requested
      BY <1>0, <3>1
    <3> QED BY <2>0, <3>1, <3>6, <3>7 DEF Store!Next, Store!Checkpoint, Requested
  <2>3. CASE finish_snapshot
    <3>1. /\ file = "Renamed" /\ file' = "Open" /\ journal' = <<>>
          /\ UNCHANGED <<snapshot, kept, todo>>
      BY <2>3 DEF finish_snapshot, truncate_journal
    <3>2. /\ Intact \in Seq(JournalEntry)
          /\ \A i \in 1..Len(Intact) : Intact[i].seq <= snapshot.seq
      <4>1. snapshot.seq = seq
        BY <3>1 DEF SnapshotHoldsMemory
      <4> QED BY <1>3, <3>1, <4>1, NumbersOnDisk
    <3>3. Intact' \in Seq(JournalEntry) /\ \A i \in 1..Len(Intact') : Intact'[i].seq <= snapshot.seq
      <4>1. journal' \in Seq(JournalEntry) /\ \A i \in 1..Len(journal') : journal'[i].whole
        BY <3>1
      <4>2. Undamaged(journal') = journal'
        BY <4>1, WholeIsUndamaged
      <4>3. Intact' = journal'
        BY <3>1, <4>2 DEF Intact, OnDisk
      <4>4. \A i \in 1..Len(journal') : journal'[i].seq <= snapshot.seq
        BY <3>1
      <4> QED BY <4>1, <4>3, <4>4
    <3>4. /\ Recovered(snapshot, Intact) = TableOf(snapshot.state)
          /\ Recovered(snapshot, Intact') = TableOf(snapshot.state)
          /\ RecoveredPrefixes(snapshot, Intact) = {TableOf(snapshot.state)}
          /\ RecoveredPrefixes(snapshot, Intact') = {TableOf(snapshot.state)}
      BY <1>0, <3>2, <3>3, RecoveredCovered, PrefixesCovered
    <3>5. /\ Recovered(snapshot, Intact)' = Recovered(snapshot, Intact)
          /\ RecoveredPrefixes(snapshot, Intact)' = RecoveredPrefixes(snapshot, Intact)
      BY <3>1, <3>4
    <3>6. Requested' = Requested
      BY <3>1 DEF Requested
    <3> QED BY <2>0, <3>1, <3>5, <3>6 DEF Store!tableVars, Requested
  <2>4. CASE \E c \in Compilations : submit(c) \/ rebuild(c) \/ commit(c) \/ deduplicate(c)
    <3>1. /\ todo = <<>> /\ file' = file
          /\ UNCHANGED <<snapshot, journal, kept>>
      BY <2>4, HandlerSteps
    <3>2. Intact' = Intact
      BY <3>1 DEF Intact, OnDisk
    <3> QED BY <1>0, <2>0, <3>1, <3>2, SameTable DEF Store!Next, Store!Request, Requested
  <2>5. CASE persist
    <3>1. /\ todo # <<>> /\ todo' = Tail(todo) /\ append(todo[1].rec) /\ todo[1].rec \in Record
          /\ snapshot' = snapshot /\ file # "Closed" /\ file' = "Open"
      BY <2>5, TodoSteps DEF persist, append
    <3>2. Intact' = Append(Intact, Entry(seq + 1, todo[1].rec, TRUE))
      BY <1>3, <3>1, AppendIntact
    <3>3. /\ snapshot.seq <= seq /\ Intact \in Seq(JournalEntry)
          /\ \A i \in 1..Len(Intact) : Intact[i].seq <= seq /\ Intact[i].seq \in Nat
      BY <1>3, <3>1, NumbersOnDisk
    <3>4. /\ Recovered(snapshot, Intact)' = Store!Put(Recovered(snapshot, Intact), WriteOf(todo[1].rec))
          /\ RecoveredPrefixes(snapshot, Intact)' =
                 RecoveredPrefixes(snapshot, Intact) \cup {Recovered(snapshot, Intact)'}
      BY <3>1, <3>2, <3>3, OneWrite
    <3>5. /\ Requested # <<>> /\ Head(Requested) = WriteOf(todo[1].rec)
          /\ Tail(Requested) = [i \in 1..Len(Tail(todo)) |-> WriteOf(Tail(todo)[i].rec)]
      BY <3>1, RequestedSteps
    <3>6. Requested' = Tail(Requested)
      BY <3>1, <3>5 DEF Requested
    <3> QED BY <2>0, <3>1, <3>4, <3>5, <3>6 DEF Store!Next, Store!Write, Store!Apply, Requested
  <2>6. CASE persist_error
    BY <1>3, <2>6 DEF persist_error, append_error
  <2>7. CASE crash
    <3>1. /\ snapshot' = snapshot /\ file # "Closed" /\ file' = "Closed" /\ todo' = <<>>
      BY <1>3, <2>7, CrashIntact DEF crash, store_crash
    <3>2. \/ Intact' = Intact
          \/ todo # <<>> /\ Intact' = Append(Intact, Entry(seq + 1, todo[1].rec, TRUE))
          \/ file = "Reopening" /\ \E n \in 0..Len(Intact) : Intact' = SubSeq(Intact, 1, n)
      BY <1>3, <2>7, CrashIntact
    <3>3. /\ snapshot.seq <= seq /\ Intact \in Seq(JournalEntry)
          /\ \A i \in 1..Len(Intact) : Intact[i].seq <= seq /\ Intact[i].seq \in Nat
      BY <1>3, <3>1, NumbersOnDisk
    <3>4. Requested' = <<>> /\ (file' = "Reopening") = FALSE
      BY <1>0, <3>1
    <3>5. CASE Intact' = Intact
      BY <2>0, <3>1, <3>4, <3>5, SameTable DEF Store!Next, Store!Crash, Requested
    <3>6. CASE todo # <<>> /\ Intact' = Append(Intact, Entry(seq + 1, todo[1].rec, TRUE))
      <4>1. todo[1].rec \in Record
        BY <3>6, TodoSteps
      <4>2. /\ Recovered(snapshot, Intact)' = Store!Put(Recovered(snapshot, Intact), WriteOf(todo[1].rec))
            /\ RecoveredPrefixes(snapshot, Intact)' =
                   RecoveredPrefixes(snapshot, Intact) \cup {Recovered(snapshot, Intact)'}
        BY <3>1, <3>3, <3>6, <4>1, OneWrite
      <4>3. Requested # <<>> /\ Head(Requested) = WriteOf(todo[1].rec)
        BY <3>6, RequestedSteps
      <4> QED BY <2>0, <3>4, <4>2, <4>3 DEF Store!Next, Store!Crash, Store!Apply, Requested
    <3>7. CASE file = "Reopening" /\ \E n \in 0..Len(Intact) : Intact' = SubSeq(Intact, 1, n)
      <4>1. PICK n \in 0..Len(Intact) : Intact' = SubSeq(Intact, 1, n)
        BY <3>7
      <4>2. /\ Recovered(snapshot, Intact') \in RecoveredPrefixes(snapshot, Intact)
            /\ Recovered(snapshot, Intact') \in RecoveredPrefixes(snapshot, Intact')
            /\ RecoveredPrefixes(snapshot, Intact') \subseteq RecoveredPrefixes(snapshot, Intact)
        BY <3>3, <4>1, PrefixesOfPrefix
      <4>3. /\ Recovered(snapshot, Intact)' \in RecoveredPrefixes(snapshot, Intact)
            /\ Recovered(snapshot, Intact)' \in RecoveredPrefixes(snapshot, Intact)'
            /\ RecoveredPrefixes(snapshot, Intact)' \subseteq RecoveredPrefixes(snapshot, Intact)
        BY <3>1, <4>2
      <4> QED BY <2>0, <3>4, <3>7, <4>3 DEF Store!Next, Store!Lose, Requested
    <3> QED BY <3>2, <3>5, <3>6, <3>7
  <2>8. CASE UNCHANGED vars
    <3>1. UNCHANGED <<snapshot, journal, kept, file, todo>>
      BY <2>8 DEF vars, storeVars
    <3>2. Intact' = Intact /\ Requested' = Requested
      BY <3>1 DEF Intact, OnDisk, Requested
    <3> QED BY <2>0, <3>1, <3>2, SameTable DEF Store!tableVars, Requested
  <2> QED BY <2>1, <2>2, <2>3, <2>4, <2>5, <2>6, <2>7, <2>8 DEF Next
<1> QED BY <1>0, <1>1, <1>2, <1>3
=============================================================================
