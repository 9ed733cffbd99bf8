---------------------------- MODULE RecoveryProofs ----------------------------
(***************************************************************************)
(* What Coordinator::open finds on disk: the scan of a journal, the types  *)
(* of what is replayed, fresh epochs, and crashes that are never mistaken  *)
(* for corruption.                                                         *)
(***************************************************************************)
EXTENDS Recovery, FiniteSetTheorems, SequenceTheorems, TLAPS

(***************************************************************************)
(* Least and greatest elements, from the well-foundedness of strict        *)
(* inclusion among finite sets.                                            *)
(***************************************************************************)

\* A non-empty set of naturals has a least element: the scan in open() that looks for the
\* first damaged entry stops somewhere.
LEMMA LeastElement ==
    ASSUME NEW T \in SUBSET Nat, T # {}
    PROVE  \E x \in T : \A y \in T : x <= y
<1>0. \A y \in T : y \in Int
  OBVIOUS
<1> DEFINE Below(n) == {y \in T : y <= n}
           F == {Below(n) : n \in T}
<1>1. F \subseteq FiniteSubsetsOf(Nat)
  <2> SUFFICES ASSUME NEW n \in T PROVE Below(n) \in FiniteSubsetsOf(Nat)
    OBVIOUS
  <2>1. Below(n) \in SUBSET Nat /\ n \in Nat /\ \A s \in Below(n) : s <= n
    OBVIOUS
  <2>2. IsFiniteSet(Below(n))
    BY <2>1, FS_BoundedSetOfNaturals
  <2> QED BY <2>1, <2>2 DEF FiniteSubsetsOf
<1>2. F # {}
  OBVIOUS
<1>3. PICK B \in F : \A U \in F : ~(<<U, B>> \in StrictSubsetOrdering(Nat))
  <2> HIDE DEF F
  <2>1. IsWellFoundedOn(StrictSubsetOrdering(Nat), FiniteSubsetsOf(Nat))
    BY FS_StrictSubsetOrderingWellFounded
  <2> QED BY <1>1, <1>2, <2>1, WFMin
<1>4. PICK x \in T : B = Below(x)
  OBVIOUS
<1>5. ASSUME NEW y \in T PROVE x <= y
  <2>0. x \in Int /\ y \in Int /\ \A z \in T : z \in Int
    BY <1>0
  <2> SUFFICES ASSUME y < x PROVE FALSE
    BY <2>0
  <2>1. Below(y) \subseteq Below(x)
    <3>1. ASSUME NEW z \in T, z <= y PROVE z <= x
      BY <2>0, <3>1
    <3> QED BY <3>1
  <2>4. x \in Below(x) /\ x \notin Below(y)
    BY <2>0
  <2>2. <<Below(y), B>> \in StrictSubsetOrdering(Nat)
    BY <2>1, <2>4, <1>4 DEF StrictSubsetOrdering
  <2>3. Below(y) \in F
    OBVIOUS
  <2> QED BY <2>2, <2>3, <1>3
<1> QED BY <1>5

\* A non-empty set of positions of a journal has a last one.
LEMMA GreatestElement ==
    ASSUME NEW n \in Nat, NEW T \in SUBSET (0..n), T # {}
    PROVE  \E x \in T : \A y \in T : y <= x
<1> DEFINE U == {m \in 0..n : \A y \in T : y <= m}
<1>1. n \in U
  OBVIOUS
<1>2. PICK m \in U : \A y \in U : m <= y
  <2>1. U \in SUBSET Nat
    OBVIOUS
  <2> HIDE DEF U
  <2> QED BY <1>1, <2>1, LeastElement
<1>3. m \in T
  <2> SUFFICES ASSUME m \notin T PROVE FALSE
    OBVIOUS
  <2>1. PICK t \in T : TRUE
    OBVIOUS
  <2>2. \A y \in T : y <= m - 1
    OBVIOUS
  <2>3. m - 1 \in U
    BY <2>1, <2>2
  <2> QED BY <2>3, <1>2
<1> QED BY <1>3

\* Replay's choice of the last position.
LEMMA LastOf ==
    ASSUME NEW n \in Nat, NEW I \in SUBSET (1..n), I # {}
    PROVE  Last(I) \in I /\ \A h \in I : h <= Last(I)
<1>1. \E i \in I : \A h \in I : h <= i
  <2>1. I \in SUBSET (0..n)
    OBVIOUS
  <2> QED BY <2>1, GreatestElement
<1> QED BY <1>1 DEF Last

(* Last is the greatest of a set of places.                                 *)
LEMMA LastIs ==
    ASSUME NEW n \in Nat, NEW I \in SUBSET (1..n), NEW i \in I, \A h \in I : h <= i
    PROVE  Last(I) = i
<1> DEFINE l == Last(I)
<1>1. l \in I /\ i <= l /\ l <= i
  BY LastOf
<1> HIDE DEF l
<1>2. l \in 1..n /\ i \in 1..n
  BY <1>1
<1>3. l = i
  BY <1>1, <1>2
<1> QED BY <1>3 DEF l
-----------------------------------------------------------------------------
(***************************************************************************)
(* The scan of a journal.                                                  *)
(***************************************************************************)

\* The scan stops at the first entry that is not whole, or after the last.
LEMMA FirstDamageFound ==
    ASSUME NEW j \in Seq(JournalEntry)
    PROVE  /\ FirstDamage(j) \in 1..(Len(j) + 1)
           /\ FirstDamage(j) = Len(j) + 1 \/ ~j[FirstDamage(j)].whole
           /\ \A h \in 1..(FirstDamage(j) - 1) : j[h].whole
<1> DEFINE T == {i \in 1..(Len(j) + 1) : i = Len(j) + 1 \/ ~j[i].whole}
<1>1. Len(j) \in Nat
  OBVIOUS
<1>2. T \in SUBSET Nat /\ Len(j) + 1 \in T
  BY <1>1
<1>3. PICK i \in T : \A y \in T : i <= y
  BY <1>2, LeastElement
<1>4. ASSUME NEW h \in 1..(i - 1) PROVE j[h].whole
  BY <1>1, <1>3
<1>5. \E x \in 1..(Len(j) + 1) :
          /\ x = Len(j) + 1 \/ ~j[x].whole
          /\ \A h \in 1..(x - 1) : j[h].whole
  BY <1>3, <1>4
<1> QED BY <1>5 DEF FirstDamage

\* What the scan accepts is a prefix of whole entries.
LEMMA UndamagedPrefix ==
    ASSUME NEW j \in Seq(JournalEntry)
    PROVE  /\ Undamaged(j) \in Seq(JournalEntry)
           /\ Len(Undamaged(j)) <= Len(j)
           /\ \A i \in 1..Len(Undamaged(j)) : Undamaged(j)[i] = j[i] /\ j[i].whole
<1> DEFINE d == FirstDamage(j)
<1>1. d \in 1..(Len(j) + 1) /\ \A h \in 1..(d - 1) : j[h].whole
  BY FirstDamageFound
<1>2. Len(j) \in Nat /\ \A i \in 1..Len(j) : j[i] \in JournalEntry
  BY ElementOfSeq
<1> HIDE DEF d
<1>3. \A i \in 1..(d - 1) : j[i] \in JournalEntry
  BY <1>1, <1>2
<1>4. /\ SubSeq(j, 1, d - 1) \in Seq(JournalEntry)
      /\ Len(SubSeq(j, 1, d - 1)) = d - 1
      /\ \A i \in 1..(d - 1) : SubSeq(j, 1, d - 1)[i] = j[i]
  <2>1. 1 \in Int /\ d - 1 \in Int
    BY <1>1
  <2>2. /\ SubSeq(j, 1, d - 1) \in Seq(JournalEntry)
        /\ Len(SubSeq(j, 1, d - 1)) = (IF 1 <= d - 1 THEN d - 1 - 1 + 1 ELSE 0)
        /\ \A i \in 1..(d - 1 - 1 + 1) : SubSeq(j, 1, d - 1)[i] = j[1 + i - 1]
    BY <2>1, <1>3, SubSeqProperties
  <2> QED BY <1>1, <1>2, <2>2
<1>5. Undamaged(j) = SubSeq(j, 1, d - 1)
  BY DEF Undamaged, d
<1> QED BY <1>1, <1>2, <1>4, <1>5

\* A journal without a torn entry is read to its end.
LEMMA WholeIsUndamaged ==
    ASSUME NEW j \in Seq(JournalEntry), \A i \in 1..Len(j) : j[i].whole
    PROVE  Undamaged(j) = j
<1>1. FirstDamage(j) = Len(j) + 1
  BY FirstDamageFound
<1>2. Undamaged(j) = SubSeq(j, 1, Len(j))
  BY <1>1 DEF Undamaged
<1> QED BY <1>2, SubSeqFull

\* If only the last entry can be torn there is nothing valid after the damage.
LEMMA TornTailIsNotCorrupt ==
    ASSUME NEW j \in Seq(JournalEntry), \A i \in 1..Len(j) : j[i].whole \/ i = Len(j)
    PROVE  ~Corrupt(j)
<1>1. /\ FirstDamage(j) \in 1..(Len(j) + 1)
      /\ FirstDamage(j) = Len(j) + 1 \/ ~j[FirstDamage(j)].whole
  BY FirstDamageFound
<1>2. ASSUME NEW i \in FirstDamage(j)..Len(j) PROVE ~j[i].whole
  BY <1>1
<1> QED BY <1>2 DEF Corrupt

\* seq_ after the scan is the greatest number seen.
LEMMA LastSeqBounds ==
    ASSUME NEW j \in Seq(JournalEntry), NEW s \in Nat
    PROVE  LastSeq(j, s) \in Nat /\ LastSeq(j, s) >= s /\ \A i \in 1..Len(j) : LastSeq(j, s) >= j[i].seq
<1> DEFINE Bounds(m, n) ==
               m \in {s} \cup {j[i].seq : i \in 1..n} /\ m >= s /\ \A i \in 1..n : m >= j[i].seq
           Bad == {n \in 0..Len(j) : ~\E m \in Nat : Bounds(m, n)}
<1>1. Len(j) \in Nat /\ \A i \in 1..Len(j) : j[i].seq \in Nat
  <2>1. \A i \in 1..Len(j) : j[i] \in JournalEntry
    BY ElementOfSeq
  <2> QED BY <2>1 DEF JournalEntry
<1>2. Bad = {}
  <2> SUFFICES ASSUME Bad # {} PROVE FALSE
    OBVIOUS
  <2>1. PICK n \in Bad : \A y \in Bad : n <= y
    <3>1. Bad \in SUBSET Nat
      BY <1>1
    <3> HIDE DEF Bad
    <3> QED BY <3>1, LeastElement
  <2>2. n # 0
    BY <2>1
  <2>3. n - 1 \in 0..Len(j) /\ n - 1 \notin Bad /\ n \in 1..Len(j)
    <3>1. n \in 0..Len(j)
      BY <2>1
    <3>2. n - 1 \in 0..Len(j) /\ n \in 1..Len(j) /\ ~(n <= n - 1)
      BY <1>1, <2>2, <3>1
    <3> QED BY <2>1, <3>2
  <2>4. PICK m \in Nat : Bounds(m, n - 1)
    BY <2>3
  <2>5. CASE m >= j[n].seq
    <3>1. Bounds(m, n)
      BY <1>1, <2>3, <2>4, <2>5
    <3> QED BY <2>1, <3>1
  <2>6. CASE m < j[n].seq
    <3>1. \A i \in 1..n : j[n].seq >= j[i].seq
      <4>1. ASSUME NEW i \in 1..n PROVE j[n].seq >= j[i].seq
        <5>1. i = n \/ i \in 1..(n - 1)
          BY <1>1, <2>3
        <5>2. j[i].seq \in Nat /\ j[n].seq \in Nat
          BY <1>1, <2>3
        <5> QED BY <2>4, <2>6, <5>1, <5>2
      <4> QED BY <4>1
    <3>2. j[n].seq >= s
      BY <1>1, <2>3, <2>4, <2>6
    <3>3. j[n].seq \in {s} \cup {j[i].seq : i \in 1..n}
      BY <1>1, <2>3
    <3>4. Bounds(j[n].seq, n)
      BY <3>1, <3>2, <3>3
    <3> QED BY <1>1, <2>1, <2>3, <3>4
  <2> QED BY <1>1, <2>3, <2>4, <2>5, <2>6
<1>3. \E m \in Nat : Bounds(m, Len(j))
  BY <1>1, <1>2
<1> QED BY <1>1, <1>3 DEF LastSeq
-----------------------------------------------------------------------------
(***************************************************************************)
(* Types.                                                                  *)
(***************************************************************************)

\* What the fields of a journal record are, by its type.
LEMMA RecordTypes ==
    ASSUME NEW r \in Record
    PROVE  /\ r.type = "Compilation" => r.key \in Compilations /\ r.val \in Compilation
           /\ IsCommit(r) => r.key \in CommitIds /\ r.val \in Commit
           /\ r = HeaderRecord \/ r.type = "Compilation" \/ IsCommit(r)
BY DEF Record, HeaderRecord, IsCommit

(* The fields of a journal entry have their types.                          *)
LEMMA EntryTypes ==
    ASSUME NEW j \in Seq(JournalEntry), NEW i \in 1..Len(j)
    PROVE  j[i] \in JournalEntry /\ j[i].seq \in Nat /\ j[i].rec \in Record /\ j[i].whole \in BOOLEAN
<1>1. j[i] \in JournalEntry
  BY ElementOfSeq
<1> QED BY <1>1 DEF JournalEntry

\* What is replayed is a state of the coordinator, in the epoch of the snapshot.
LEMMA ReplayTypes ==
    ASSUME NEW s \in [seq : Nat, state : State], NEW j \in Seq(JournalEntry)
    PROVE  Replay(s, j) \in State /\ Replay(s, j).epoch = s.state.epoch
<1> DEFINE applied == Applied(j, s.seq)
           OfComp(c) == {i \in applied : j[i].rec.type = "Compilation" /\ j[i].rec.key = c}
           OfCommit(k) == {i \in applied : j[i].rec.type = "Commit" /\ j[i].rec.key = k}
           For(c) == {i \in applied : j[i].rec.type = "Commit" /\ j[i].rec.val.comp = c}
           comps == [c \in Compilations |->
               IF OfComp(c) = {} THEN s.state.comps[c] ELSE j[Last(OfComp(c))].rec.val]
           commits == [k \in CommitIds |->
               IF OfCommit(k) = {} THEN s.state.commits[k] ELSE j[Last(OfCommit(k))].rec.val]
           auth == [c \in Compilations |->
               IF For(c) = {} THEN s.state.authoritative[c] ELSE j[Last(For(c))].rec.key]
<1>1. applied \subseteq 1..Len(j) /\ Len(j) \in Nat
  BY DEF Applied
<1>2. s.state \in State
  OBVIOUS
<1>3. Replay(s, j) = [s.state EXCEPT !.comps = comps, !.commits = commits, !.authoritative = auth]
  BY DEF Replay
<1> HIDE DEF applied
<1>4. comps \in [Compilations -> Compilation]
  <2>1. ASSUME NEW c \in Compilations, OfComp(c) # {} PROVE j[Last(OfComp(c))].rec.val \in Compilation
    <3>1. Last(OfComp(c)) \in OfComp(c)
      BY <1>1, <2>1, LastOf
    <3> QED BY <1>1, <3>1, EntryTypes, RecordTypes
  <2> QED BY <1>2, <2>1 DEF State
<1>5. commits \in [CommitIds -> Commit]
  <2>1. ASSUME NEW k \in CommitIds, OfCommit(k) # {} PROVE j[Last(OfCommit(k))].rec.val \in Commit
    <3>1. Last(OfCommit(k)) \in OfCommit(k)
      BY <1>1, <2>1, LastOf
    <3> QED BY <1>1, <3>1, EntryTypes, RecordTypes DEF IsCommit
  <2> QED BY <1>2, <2>1 DEF State
<1>6. auth \in [Compilations -> CommitIds \cup {0}]
  <2>1. ASSUME NEW c \in Compilations, For(c) # {} PROVE j[Last(For(c))].rec.key \in CommitIds
    <3>1. Last(For(c)) \in For(c)
      BY <1>1, <2>1, LastOf
    <3> QED BY <1>1, <3>1, EntryTypes, RecordTypes DEF IsCommit
  <2> QED BY <1>2, <2>1 DEF State
<1> HIDE DEF comps, commits, auth
<1> QED BY <1>2, <1>3, <1>4, <1>5, <1>6 DEF State

\* The restart keeps the type and moves to the next epoch.
LEMMA RestartedTypes ==
    ASSUME NEW s \in State
    PROVE  /\ Restarted(s) \in State
           /\ Restarted(s).epoch = s.epoch + 1
           /\ Restarted(s).commits = s.commits
           /\ Restarted(s).authoritative = s.authoritative
<1> DEFINE comps == [c \in Compilations |->
                  IF s.comps[c].state \in {"Absent", "Committed"} THEN s.comps[c]
                  ELSE [s.comps[c] EXCEPT !.state = IF s.authoritative[c] # 0 THEN "Committed"
                                                                             ELSE "Pending"]]
<1>1. Restarted(s) = [s EXCEPT !.epoch = @ + 1, !.comps = comps]
  BY DEF Restarted
<1>2. comps \in [Compilations -> Compilation]
  BY DEF State, Compilation
<1> HIDE DEF comps
<1>3. s.epoch \in Nat /\ s.epoch + 1 \in Nat
  BY DEF State
<1> DEFINE n == s.epoch + 1
<1>4. Restarted(s) = [s EXCEPT !.epoch = n, !.comps = comps]
  BY <1>1
<1> HIDE DEF n
<1>5. n \in Nat
  BY <1>3 DEF n
<1>6. /\ Restarted(s) \in State
      /\ Restarted(s).epoch = n
      /\ Restarted(s).commits = s.commits
      /\ Restarted(s).authoritative = s.authoritative
  BY <1>2, <1>4, <1>5 DEF State
<1> QED BY <1>6 DEF n

\* What a crash can leave of the buffered entries: a prefix, whose last entry may be torn.
LEMMA RewrittenTypes ==
    ASSUME NEW j \in Seq(JournalEntry), NEW w \in Rewritten(j)
    PROVE  /\ w \in Seq(JournalEntry)
           /\ Len(w) <= Len(j)
           /\ \A i \in 1..Len(w) : /\ w[i].seq = j[i].seq /\ w[i].rec = j[i].rec
                                   /\ w[i].whole = j[i].whole \/ i = Len(w)
<1>1. Len(j) \in Nat /\ \A i \in 1..Len(j) : j[i] \in JournalEntry
  BY ElementOfSeq
<1>2. ASSUME NEW n \in 0..Len(j)
      PROVE  /\ SubSeq(j, 1, n) \in Seq(JournalEntry)
             /\ Len(SubSeq(j, 1, n)) = n
             /\ \A i \in 1..n : SubSeq(j, 1, n)[i] = j[i]
  <2>1. 1 \in Int /\ n \in Int /\ \A i \in 1..n : j[i] \in JournalEntry
    BY <1>1
  <2>2. /\ SubSeq(j, 1, n) \in Seq(JournalEntry)
        /\ Len(SubSeq(j, 1, n)) = (IF 1 <= n THEN n - 1 + 1 ELSE 0)
        /\ \A i \in 1..(n - 1 + 1) : SubSeq(j, 1, n)[i] = j[1 + i - 1]
    BY <2>1, SubSeqProperties
  <2> QED BY <1>1, <2>2
<1>3. CASE \E n \in 0..Len(j) : w = SubSeq(j, 1, n)
  BY <1>1, <1>2, <1>3
<1>4. CASE \E n \in 0..(Len(j) - 1) : w = Append(SubSeq(j, 1, n), [j[n + 1] EXCEPT !.whole = FALSE])
  <2>1. PICK n \in 0..(Len(j) - 1) : w = Append(SubSeq(j, 1, n), [j[n + 1] EXCEPT !.whole = FALSE])
    BY <1>4
  <2> DEFINE e == [j[n + 1] EXCEPT !.whole = FALSE]
             p == SubSeq(j, 1, n)
  <2>2. n \in 0..Len(j) /\ n + 1 \in 1..Len(j)
    BY <1>1
  <2>3. e \in JournalEntry /\ e.seq = j[n + 1].seq /\ e.rec = j[n + 1].rec
    BY <1>1, <2>2 DEF JournalEntry
  <2>4. p \in Seq(JournalEntry) /\ Len(p) = n /\ \A i \in 1..n : p[i] = j[i]
    BY <1>2, <2>2
  <2> HIDE DEF e, p
  <2>5. /\ Append(p, e) \in Seq(JournalEntry)
        /\ Len(Append(p, e)) = n + 1
        /\ \A i \in 1..n : Append(p, e)[i] = j[i]
        /\ Append(p, e)[n + 1] = e
    BY <2>3, <2>4, AppendProperties
  <2>6. w = Append(p, e)
    BY <2>1 DEF p, e
  <2>7. \A i \in 1..(n + 1) : i = n + 1 \/ i \in 1..n
    BY <2>2
  <2> QED BY <1>1, <2>2, <2>3, <2>5, <2>6, <2>7
<1> QED BY <1>3, <1>4 DEF Rewritten

\* What an append that does not return success can leave.
LEMMA WrittenTypes ==
    ASSUME NEW j \in Seq(JournalEntry), NEW n \in Nat, NEW r \in Record, NEW w \in Written(j, n, r)
    PROVE  /\ w \in Seq(JournalEntry)
           /\ \A i \in 1..Len(w) : \/ i <= Len(j) /\ w[i] = j[i]
                                   \/ i = Len(w) /\ i = Len(j) + 1 /\ w[i].seq = n /\ w[i].rec = r
           /\ Len(w) >= Len(j)
<1>1. CASE w = j
  BY <1>1
<1>2. ASSUME NEW b \in BOOLEAN, w = Append(j, Entry(n, r, b)) PROVE
           /\ w \in Seq(JournalEntry)
           /\ \A i \in 1..Len(w) : \/ i <= Len(j) /\ w[i] = j[i]
                                   \/ i = Len(w) /\ i = Len(j) + 1 /\ w[i].seq = n /\ w[i].rec = r
           /\ Len(w) >= Len(j)
  <2> DEFINE e == Entry(n, r, b)
  <2>1. e \in JournalEntry /\ e.seq = n /\ e.rec = r
    BY DEF Entry, JournalEntry
  <2>2. w = Append(j, e)
    BY <1>2
  <2> HIDE DEF e
  <2>3. /\ w \in Seq(JournalEntry)
        /\ Len(w) = Len(j) + 1
        /\ \A i \in 1..Len(j) : w[i] = j[i]
        /\ w[Len(j) + 1] = e
    BY <2>1, <2>2, AppendProperties
  <2>4. Len(j) \in Nat
    OBVIOUS
  <2> QED BY <2>1, <2>3, <2>4
<1>3. CASE w = Append(j, Entry(n, r, TRUE))
  BY <1>2, <1>3
<1>4. CASE w = Append(j, Entry(n, r, FALSE))
  BY <1>2, <1>4
<1> QED BY <1>1, <1>3, <1>4 DEF Written
-----------------------------------------------------------------------------
(***************************************************************************)
(* What each handler leaves in memory and which appends it makes.          *)
(***************************************************************************)

\* submit: one compilation changes, and its record is appended.
LEMMA SubmitSteps ==
    ASSUME TypeOK, NEW c \in Compilations, submit(c)
    PROVE  /\ mem' \in State
           /\ mem'.epoch = mem.epoch
           /\ mem'.commits = mem.commits
           /\ mem'.authoritative = mem.authoritative
           /\ \A d \in Compilations \ {c} : mem'.comps[d] = mem.comps[d]
           /\ todo' = <<Step(CompilationRecord(mem', c), mem', {})>>
           /\ reply' = {}
           /\ Idle
           /\ UNCHANGED <<storeVars, serving, served, acked, reused, crashes, faults>>
<1> DEFINE v == [state |-> "Pending", gen |-> 1]
           s == [mem EXCEPT !.comps[c] = v]
<1>1. mem' = s /\ todo' = <<Step(CompilationRecord(s, c), s, {})>>
  BY DEF submit, Handle
<1>2. v \in Compilation
  BY DEF Compilation
<1>3. mem \in State
  BY DEF TypeOK
<1> HIDE DEF v
<1>4. /\ s \in State
      /\ s.epoch = mem.epoch
      /\ s.commits = mem.commits
      /\ s.authoritative = mem.authoritative
      /\ \A d \in Compilations \ {c} : s.comps[d] = mem.comps[d]
  BY <1>2, <1>3 DEF State
<1>5. reply' = {} /\ Idle /\ UNCHANGED <<storeVars, serving, served, acked, reused, crashes, faults>>
  BY DEF submit, Handle
<1> HIDE DEF s
<1> QED BY <1>1, <1>4, <1>5

\* deduplicate: the compilation is Committed again, by the commit that stands.
LEMMA DeduplicateSteps ==
    ASSUME TypeOK, NEW c \in Compilations, deduplicate(c)
    PROVE  /\ mem' \in State
           /\ mem'.epoch = mem.epoch
           /\ mem'.commits = mem.commits
           /\ mem'.authoritative = mem.authoritative
           /\ \A d \in Compilations \ {c} : mem'.comps[d] = mem.comps[d]
           /\ reply' \in Acknowledgements
           /\ todo' = <<Step(CompilationRecord(mem', c), mem', reply')>>
           /\ Idle
           /\ UNCHANGED <<storeVars, serving, served, acked, reused, crashes, faults>>
<1> DEFINE prior == mem.commits[mem.authoritative[c]]
           answer == {<<prior.comp, prior.gen>>}
           s == [mem EXCEPT !.comps[c].state = "Committed"]
<1>1. mem' = s /\ reply' = answer /\ todo' = <<Step(CompilationRecord(s, c), s, answer)>>
  BY DEF deduplicate, Handle
<1>2. mem \in State /\ mem.comps[c] \in Compilation
  BY DEF TypeOK, State
<1> DEFINE v == [mem.comps[c] EXCEPT !.state = "Committed"]
<1>3. v \in Compilation /\ s = [mem EXCEPT !.comps[c] = v]
  BY <1>2 DEF Compilation
<1> HIDE DEF v
<1>4. /\ s \in State
      /\ s.epoch = mem.epoch
      /\ s.commits = mem.commits
      /\ s.authoritative = mem.authoritative
      /\ \A d \in Compilations \ {c} : s.comps[d] = mem.comps[d]
  BY <1>2, <1>3 DEF State
<1>5. answer \in Acknowledgements
  <2>1. mem.authoritative[c] \in CommitIds
    BY <1>2 DEF deduplicate, Standing, State
  <2>2. prior \in Commit
    BY <1>2, <2>1 DEF State
  <2> QED BY <2>2 DEF Commit, Acknowledgements
<1>6. Idle /\ UNCHANGED <<storeVars, serving, served, acked, reused, crashes, faults>>
  BY DEF deduplicate, Handle
<1> HIDE DEF s, answer
<1> QED BY <1>1, <1>4, <1>5, <1>6

\* commit: a new commit of the compilation becomes authoritative.
LEMMA CommitSteps ==
    ASSUME TypeOK, NEW c \in Compilations, commit(c)
    PROVE  LET k == mem.nextCommit IN
           /\ k \in CommitIds
           /\ mem' \in State
           /\ mem'.epoch = mem.epoch
           /\ mem'.commits[k] # NoCommit /\ mem'.commits[k].comp = c
           /\ \A h \in CommitIds \ {k} : mem'.commits[h] = mem.commits[h]
           /\ mem'.authoritative[c] = k
           /\ \A d \in Compilations \ {c} : mem'.authoritative[d] = mem.authoritative[d]
           /\ \A d \in Compilations \ {c} : mem'.comps[d] = mem.comps[d]
           /\ reply' \in Acknowledgements
           /\ todo' = <<Step(CommitRecord(mem', k), mem', {}),
                        Step(CompilationRecord(mem', c), mem', reply')>>
           /\ reused' = (reused \/ mem.commits[k] # NoCommit)
           /\ Idle
           /\ UNCHANGED <<storeVars, serving, served, acked, crashes, faults>>
<1> DEFINE k == mem.nextCommit
           w == [comp |-> c, gen |-> mem.comps[c].gen, superseded |-> FALSE]
           answer == {<<c, mem.comps[c].gen>>}
           s == [mem EXCEPT !.comps[c].state = "Committed",
                            !.commits[k] = w,
                            !.authoritative[c] = k,
                            !.nextCommit = @ + 1]
<1>1. /\ mem' = s
      /\ reply' = answer
      /\ todo' = <<Step(CommitRecord(s, k), s, {}), Step(CompilationRecord(s, c), s, answer)>>
  BY DEF commit, Handle
<1>2. mem \in State /\ mem.comps[c] \in Compilation /\ mem.comps[c].gen \in Nat
  BY DEF TypeOK, State, Compilation
<1>3. k \in CommitIds /\ mem.comps[c].state = "Pending"
  BY DEF commit
<1> DEFINE v == [mem.comps[c] EXCEPT !.state = "Committed"]
           n == mem.nextCommit + 1
<1>4. v \in Compilation /\ n \in Nat
  BY <1>2 DEF Compilation, State
<1>5. s = [mem EXCEPT !.comps = [@ EXCEPT ![c] = v], !.commits = [@ EXCEPT ![k] = w],
                      !.authoritative = [@ EXCEPT ![c] = k], !.nextCommit = n]
  BY <1>2
<1>6. w \in Commit /\ w.comp = c
  BY <1>2 DEF Commit
<1>7. w # NoCommit
  BY <1>6, RecoveryAssumption DEF NoCommit
<1> HIDE DEF v, w, n
<1>8. /\ s \in State
      /\ s.epoch = mem.epoch
      /\ s.commits[k] = w
      /\ \A h \in CommitIds \ {k} : s.commits[h] = mem.commits[h]
      /\ s.authoritative[c] = k
      /\ \A d \in Compilations \ {c} : s.authoritative[d] = mem.authoritative[d]
      /\ \A d \in Compilations \ {c} : s.comps[d] = mem.comps[d]
  <2>1. [mem.comps EXCEPT ![c] = v] \in [Compilations -> Compilation]
    BY <1>2, <1>4 DEF State
  <2>2. [mem.commits EXCEPT ![k] = w] \in [CommitIds -> Commit]
    BY <1>2, <1>6 DEF State
  <2>3. [mem.authoritative EXCEPT ![c] = k] \in [Compilations -> CommitIds \cup {0}]
    BY <1>2, <1>3 DEF State
  <2>4. s \in State /\ s.epoch = mem.epoch
    BY <1>2, <1>4, <1>5, <2>1, <2>2, <2>3 DEF State
  <2>5. /\ s.comps = [mem.comps EXCEPT ![c] = v]
        /\ s.commits = [mem.commits EXCEPT ![k] = w]
        /\ s.authoritative = [mem.authoritative EXCEPT ![c] = k]
    BY <1>2, <1>5 DEF State
  <2> HIDE DEF s
  <2> QED BY <1>2, <1>3, <2>4, <2>5 DEF State
<1>9. answer \in Acknowledgements
  BY <1>2 DEF Acknowledgements
<1>10. /\ reused' = (reused \/ mem.commits[k] # NoCommit)
       /\ Idle
       /\ UNCHANGED <<storeVars, serving, served, acked, crashes, faults>>
  BY DEF commit, Handle
<1> HIDE DEF s, answer
<1> QED BY <1>1, <1>3, <1>6, <1>7, <1>8, <1>9, <1>10

\* rebuild: the authoritative commit is superseded and its compilation queued again.  The
\* handler's first append, if there is a commit to supersede, fails into the state in which
\* the commit is superseded and still authoritative.
LEMMA RebuildSteps ==
    ASSUME TypeOK, NEW c \in Compilations, rebuild(c)
    PROVE  LET k == mem.authoritative[c] IN
           /\ mem' \in State
           /\ mem'.epoch = mem.epoch
           /\ \A h \in CommitIds \ {k} : mem'.commits[h] = mem.commits[h]
           /\ \A h \in CommitIds :
                  mem.commits[h] # NoCommit =>
                      mem'.commits[h] # NoCommit /\ mem'.commits[h].comp = mem.commits[h].comp
           /\ \A h \in CommitIds :
                  /\ mem'.commits[h].comp = mem.commits[h].comp
                  /\ mem.commits[h].superseded \/ h = k => mem'.commits[h].superseded
           /\ mem'.authoritative = [mem.authoritative EXCEPT ![c] = 0]
           /\ \A d \in Compilations \ {c} : mem'.comps[d] = mem.comps[d]
           /\ reply' = {}
           /\ \E s \in State :
                  /\ s.epoch = mem.epoch
                  /\ s.commits = mem'.commits
                  /\ s.authoritative = mem.authoritative
                  /\ todo' = IF k = 0 THEN <<Step(CompilationRecord(mem', c), mem', {})>>
                             ELSE <<Step(CommitRecord(mem', k), s, {}),
                                    Step(CompilationRecord(mem', c), mem', {})>>
           /\ Idle
           /\ UNCHANGED <<storeVars, serving, served, acked, reused, crashes, faults>>
<1> DEFINE k == mem.authoritative[c]
           prior == {k} \ {0}
           commits == [h \in CommitIds |->
                          [mem.commits[h] EXCEPT !.superseded = mem.commits[h].superseded \/ h \in prior]]
           s == [mem EXCEPT !.comps[c].gen = @ + 1, !.commits = commits]
           t == [s EXCEPT !.comps[c].state = "Pending", !.authoritative[c] = 0]
<1>1. /\ mem' = t
      /\ reply' = {}
      /\ todo' = IF prior = {} THEN <<Step(CompilationRecord(t, c), t, {})>>
                 ELSE <<Step(CommitRecord(t, k), s, {}), Step(CompilationRecord(t, c), t, {})>>
  BY DEF rebuild, Handle, Superseding
<1>2. mem \in State /\ mem.comps[c] \in Compilation /\ mem.comps[c].gen \in Nat
  BY DEF TypeOK, State, Compilation
<1>3. prior = {} <=> k = 0
  OBVIOUS
<1>4. ASSUME NEW h \in CommitIds
      PROVE  /\ commits[h] \in Commit
             /\ h # k => commits[h] = mem.commits[h]
             /\ commits[h].comp = mem.commits[h].comp
             /\ mem.commits[h] # NoCommit => commits[h] # NoCommit
             /\ mem.commits[h].superseded \/ h = k => commits[h].superseded
  <2> DEFINE m == mem.commits[h]
             b == m.superseded \/ h \in prior
  <2>1. m \in Commit
    BY <1>2 DEF State
  <2>2. commits[h] = [m EXCEPT !.superseded = b]
    OBVIOUS
  <2>3. b \in BOOLEAN /\ (m.superseded => b) /\ (h # k => b = m.superseded)
    BY <2>1 DEF Commit
  <2>9. h = k => b
    BY DEF CommitIds
  <2> HIDE DEF m, b
  <2>4. commits[h] \in Commit /\ commits[h].comp = m.comp /\ commits[h].gen = m.gen
        /\ commits[h].superseded = b
    BY <2>1, <2>2, <2>3 DEF Commit
  <2> HIDE DEF commits
  <2>5. \A x \in Commit, y \in Commit :
            x.comp = y.comp /\ x.gen = y.gen /\ x.superseded = y.superseded => x = y
    BY DEF Commit
  <2>6. h # k => commits[h] = m
    BY <2>1, <2>3, <2>4, <2>5
  <2>7. NoCommit \in Commit /\ NoCommit.superseded = FALSE
    BY DEF Commit, NoCommit
  <2>8. m # NoCommit => commits[h] # NoCommit
    <3> SUFFICES ASSUME commits[h] = NoCommit PROVE m = NoCommit
      OBVIOUS
    <3>1. b = FALSE /\ m.superseded \in BOOLEAN
      BY <2>1, <2>4, <2>7 DEF Commit
    <3>2. m.superseded = FALSE
      BY <2>3, <3>1
    <3>3. m.comp = NoCommit.comp /\ m.gen = NoCommit.gen
      BY <2>4
    <3> QED BY <2>1, <2>5, <2>7, <3>2, <3>3
  <2> QED BY <2>3, <2>4, <2>6, <2>8, <2>9 DEF m
<1>5. commits \in [CommitIds -> Commit]
  BY <1>4
<1> HIDE DEF commits
<1> DEFINE v == [mem.comps[c] EXCEPT !.gen = @ + 1]
           u == [v EXCEPT !.state = "Pending"]
<1>6. v \in Compilation /\ u \in Compilation
  <2> DEFINE n == mem.comps[c].gen + 1
  <2>1. v = [mem.comps[c] EXCEPT !.gen = n] /\ n \in Nat
    BY <1>2
  <2> HIDE DEF n
  <2>2. v \in Compilation
    BY <1>2, <2>1 DEF Compilation
  <2> HIDE DEF v
  <2> QED BY <2>2 DEF Compilation
<1>7. s = [mem EXCEPT !.comps = [@ EXCEPT ![c] = v], !.commits = commits]
  BY <1>2
<1>8. /\ s \in State
      /\ s.epoch = mem.epoch
      /\ s.commits = commits
      /\ s.authoritative = mem.authoritative
      /\ s.comps = [mem.comps EXCEPT ![c] = v]
  <2>1. [mem.comps EXCEPT ![c] = v] \in [Compilations -> Compilation]
    BY <1>2, <1>6 DEF State
  <2> HIDE DEF v
  <2> QED BY <1>2, <1>5, <1>7, <2>1 DEF State
<1>9. t = [s EXCEPT !.comps = [@ EXCEPT ![c] = u], !.authoritative = [@ EXCEPT ![c] = 0]]
  <2>1. s.comps[c] = v
    BY <1>2, <1>8 DEF State
  <2> HIDE DEF s, v
  <2> QED BY <2>1
<1> HIDE DEF s, u, v
<1>10. /\ t \in State
       /\ t.epoch = mem.epoch
       /\ t.commits = commits
       /\ t.authoritative = [mem.authoritative EXCEPT ![c] = 0]
       /\ \A d \in Compilations \ {c} : t.comps[d] = mem.comps[d]
  <2>1. [s.comps EXCEPT ![c] = u] \in [Compilations -> Compilation]
    BY <1>6, <1>8 DEF State
  <2>2. [mem.authoritative EXCEPT ![c] = 0] \in [Compilations -> CommitIds \cup {0}]
    BY <1>2 DEF State
  <2>3. \A d \in Compilations \ {c} : s.comps[d] = mem.comps[d]
    BY <1>2, <1>8 DEF State
  <2> QED BY <1>8, <1>9, <2>1, <2>2, <2>3 DEF State
<1>11. Idle /\ UNCHANGED <<storeVars, serving, served, acked, reused, crashes, faults>>
  BY DEF rebuild, Handle
<1> HIDE DEF t, prior
<1>12. todo' = IF k = 0 THEN <<Step(CompilationRecord(mem', c), mem', {})>>
               ELSE <<Step(CommitRecord(mem', k), s, {}), Step(CompilationRecord(mem', c), mem', {})>>
  BY <1>1, <1>3
<1> QED BY <1>1, <1>4, <1>8, <1>10, <1>11, <1>12
-----------------------------------------------------------------------------
(***************************************************************************)
(* Types are kept.                                                         *)
(***************************************************************************)

\* The records of a state are journal records.
LEMMA RecordsOfState ==
    ASSUME NEW s \in State
    PROVE  /\ \A c \in Compilations : CompilationRecord(s, c) \in Record
           /\ \A k \in CommitIds : CommitRecord(s, k) \in Record
BY DEF State, CompilationRecord, CommitRecord, Record

\* The appends of a handler: one, or one and then another.
LEMMA AppendingTypes ==
    ASSUME NEW r \in Record, NEW s \in State, NEW a \in Acknowledgements
    PROVE  /\ Step(r, s, a) \in Appending
           /\ <<Step(r, s, a)>> \in Seq(Appending)
           /\ \A x \in Appending : <<x, Step(r, s, a)>> \in Seq(Appending)
<1> DEFINE y == Step(r, s, a)
<1>1. y \in Appending
  BY DEF Step, Appending
<1> HIDE DEF y
<1>2. <<y>> \in Seq(Appending) /\ \A x \in Appending : <<x, y>> \in Seq(Appending)
  BY <1>1
<1> QED BY <1>1, <1>2 DEF y

\* The journal after a successful append.
LEMMA AppendSteps ==
    ASSUME TypeOK, NEW r \in Record, append(r)
    PROVE  /\ journal' \in Seq(JournalEntry)
           /\ Len(journal') = Len(OnDisk) + 1
           /\ \A i \in 1..Len(OnDisk) : journal'[i] = OnDisk[i]
           /\ journal'[Len(OnDisk) + 1].seq = seq + 1
           /\ journal'[Len(OnDisk) + 1].rec = r
           /\ journal'[Len(OnDisk) + 1].whole
           /\ OnDisk \in Seq(JournalEntry)
           /\ \A i \in 1..Len(journal') : i = Len(OnDisk) + 1 \/ i \in 1..Len(OnDisk)
           /\ OnDisk' = journal'
           /\ kept' = <<>> /\ seq' = seq + 1 /\ file' = "Open"
           /\ file \in {"Reopening", "Open"}
           /\ UNCHANGED <<snapshot, faulted>>
<1> DEFINE e == Entry(seq + 1, r, TRUE)
<1>1. OnDisk \in Seq(JournalEntry)
  BY DEF TypeOK, OnDisk
<1>2. e \in JournalEntry /\ e.seq = seq + 1 /\ e.rec = r /\ e.whole
  BY DEF TypeOK, Entry, JournalEntry
<1>3. journal' = Append(OnDisk, e)
  BY DEF append, OnDisk
<1> HIDE DEF e
<1>4. /\ journal' \in Seq(JournalEntry)
      /\ Len(journal') = Len(OnDisk) + 1
      /\ \A i \in 1..Len(OnDisk) : journal'[i] = OnDisk[i]
      /\ journal'[Len(OnDisk) + 1] = e
  BY <1>1, <1>2, <1>3, AppendProperties
<1>5. Len(OnDisk) \in Nat
  BY <1>1
<1>6. \A i \in 1..Len(journal') : i = Len(OnDisk) + 1 \/ i \in 1..Len(OnDisk)
  BY <1>4, <1>5
<1>7. /\ kept' = <<>> /\ seq' = seq + 1 /\ file' = "Open" /\ file \in {"Reopening", "Open"}
      /\ UNCHANGED <<snapshot, faulted>>
  BY DEF append
<1>8. OnDisk' = journal'
  BY <1>7 DEF OnDisk
<1> QED BY <1>1, <1>2, <1>4, <1>6, <1>7, <1>8

(* Types at the start, before anything is on disk.                          *)
LEMMA TypeInit == Init => TypeOK
<1> SUFFICES ASSUME Init PROVE TypeOK
  OBVIOUS
<1>1. EmptyState \in State
  BY DEF EmptyState, State, Compilation, Commit, NoCommit
<1>2. snapshot = [seq |-> 0, state |-> EmptyState] /\ mem = EmptyState
  BY DEF Init, StoreInit
<1>3. snapshot \in [seq : Nat, state : State] /\ mem \in State
  BY <1>1, <1>2
<1>4. journal \in Seq(JournalEntry) /\ kept \in Seq(JournalEntry) /\ todo \in Seq(Appending)
  BY EmptySeq DEF Init, StoreInit
<1>5. reply \in Acknowledgements /\ acked \in Acknowledgements
  BY DEF Init, Acknowledgements
<1>6. seq \in Nat /\ served \in Nat /\ crashes \in Nat /\ faults \in Nat
  BY DEF Init, StoreInit
<1>7. /\ faulted \in BOOLEAN /\ serving \in BOOLEAN /\ reused \in BOOLEAN
      /\ file \in {"Closed", "Reopening", "Open", "Renamed"}
  BY DEF Init, StoreInit
<1> QED BY <1>3, <1>4, <1>5, <1>6, <1>7 DEF TypeOK

(* Every append, snapshot, crash and recovery keeps the types.              *)
LEMMA TypeNext == TypeOK /\ [Next]_vars => TypeOK'
<1> SUFFICES ASSUME TypeOK, [Next]_vars PROVE TypeOK'
  OBVIOUS
<1> USE DEF TypeOK
<1>1. CASE open
  <2>1. Undamaged(journal) \in Seq(JournalEntry)
    BY UndamagedPrefix
  <2>2. /\ kept' \in Seq(JournalEntry) /\ seq' \in Nat /\ journal' = <<>> /\ file' = "Reopening"
        /\ UNCHANGED <<snapshot, faulted>>
    <3>1. snapshot.seq \in Nat
      OBVIOUS
    <3> QED BY <1>1, <2>1, <3>1, LastSeqBounds DEF open, store_open
  <2>3. mem' \in State
    BY <1>1, <2>1, ReplayTypes, RestartedTypes DEF open
  <2>4. todo' \in Seq(Appending)
    <3>1. HeaderRecord \in Record /\ {} \in Acknowledgements
      BY DEF Record, Acknowledgements
    <3>2. EmptyState \in State
      BY DEF EmptyState, State, Compilation, Commit, NoCommit
    <3> QED BY <1>1, <3>1, <3>2, AppendingTypes DEF open
  <2>5. UNCHANGED <<reply, serving, served, acked, reused, crashes, faults>>
    BY <1>1 DEF open, history
  <2> QED BY <2>2, <2>3, <2>4, <2>5
<1>2. CASE take_snapshot
  BY <1>2 DEF take_snapshot, write_snapshot, history
<1>3. CASE finish_snapshot
  <2>1. served' \in Nat
    BY <1>3 DEF finish_snapshot, State
  <2>2. journal' \in Seq(JournalEntry)
    BY <1>3 DEF finish_snapshot, truncate_journal
  <2> QED BY <1>3, <2>1, <2>2 DEF finish_snapshot, truncate_journal
<1>4. ASSUME NEW c \in Compilations, submit(c) PROVE TypeOK'
  <2>1. todo' \in Seq(Appending)
    <3>1. mem' \in State /\ {} \in Acknowledgements
      BY <1>4, SubmitSteps DEF Acknowledgements
    <3>2. todo' = <<Step(CompilationRecord(mem', c), mem', {})>>
      BY <1>4, SubmitSteps
    <3>3. CompilationRecord(mem', c) \in Record
      BY <3>1, RecordsOfState
    <3> QED BY <3>1, <3>2, <3>3, AppendingTypes
  <2>2. mem' \in State /\ reply' \in Acknowledgements
    BY <1>4, SubmitSteps DEF Acknowledgements
  <2>3. UNCHANGED <<storeVars, serving, served, acked, reused, crashes, faults>>
    BY <1>4, SubmitSteps
  <2> QED BY <2>1, <2>2, <2>3 DEF storeVars
<1>5. ASSUME NEW c \in Compilations, rebuild(c) PROVE TypeOK'
  <2>1. todo' \in Seq(Appending)
    <3> DEFINE k == mem.authoritative[c]
    <3>1. mem' \in State /\ {} \in Acknowledgements
      BY <1>5, RebuildSteps DEF Acknowledgements
    <3>2. PICK s \in State :
              todo' = IF k = 0 THEN <<Step(CompilationRecord(mem', c), mem', {})>>
                      ELSE <<Step(CommitRecord(mem', k), s, {}),
                             Step(CompilationRecord(mem', c), mem', {})>>
      BY <1>5, RebuildSteps
    <3>3. k = 0 \/ k \in CommitIds
      BY DEF State
    <3>4. CompilationRecord(mem', c) \in Record
      BY <3>1, RecordsOfState
    <3>5. CASE k = 0
      BY <3>1, <3>2, <3>4, <3>5, AppendingTypes
    <3>6. CASE k \in CommitIds /\ k # 0
      <4>1. CommitRecord(mem', k) \in Record
        BY <3>1, <3>6, RecordsOfState
      <4>2. Step(CommitRecord(mem', k), s, {}) \in Appending
        BY <3>1, <4>1, AppendingTypes
      <4> QED BY <3>1, <3>2, <3>4, <3>6, <4>2, AppendingTypes
    <3> QED BY <3>3, <3>5, <3>6
  <2>2. mem' \in State /\ reply' \in Acknowledgements
    BY <1>5, RebuildSteps DEF Acknowledgements
  <2>3. UNCHANGED <<storeVars, serving, served, acked, reused, crashes, faults>>
    BY <1>5, RebuildSteps
  <2> QED BY <2>1, <2>2, <2>3 DEF storeVars
<1>6. ASSUME NEW c \in Compilations, commit(c) PROVE TypeOK'
  <2>1. todo' \in Seq(Appending)
    <3> DEFINE k == mem.nextCommit
    <3>1. mem' \in State /\ {} \in Acknowledgements /\ reply' \in Acknowledgements /\ k \in CommitIds
      BY <1>6, CommitSteps DEF Acknowledgements
    <3>2. todo' = <<Step(CommitRecord(mem', k), mem', {}),
                    Step(CompilationRecord(mem', c), mem', reply')>>
      BY <1>6, CommitSteps
    <3>3. CommitRecord(mem', k) \in Record /\ CompilationRecord(mem', c) \in Record
      BY <3>1, RecordsOfState
    <3>4. Step(CommitRecord(mem', k), mem', {}) \in Appending
      BY <3>1, <3>3, AppendingTypes
    <3> QED BY <3>1, <3>2, <3>3, <3>4, AppendingTypes
  <2>2. mem' \in State /\ reply' \in Acknowledgements
    BY <1>6, CommitSteps
  <2>3. UNCHANGED <<storeVars, serving, served, acked, crashes, faults>> /\ reused' \in BOOLEAN
    BY <1>6, CommitSteps
  <2> QED BY <2>1, <2>2, <2>3 DEF storeVars
<1>7. ASSUME NEW c \in Compilations, deduplicate(c) PROVE TypeOK'
  <2>1. todo' \in Seq(Appending)
    <3>1. mem' \in State /\ reply' \in Acknowledgements
      BY <1>7, DeduplicateSteps
    <3>2. todo' = <<Step(CompilationRecord(mem', c), mem', reply')>>
      BY <1>7, DeduplicateSteps
    <3>3. CompilationRecord(mem', c) \in Record
      BY <3>1, RecordsOfState
    <3> QED BY <3>1, <3>2, <3>3, AppendingTypes
  <2>2. mem' \in State /\ reply' \in Acknowledgements
    BY <1>7, DeduplicateSteps
  <2>3. UNCHANGED <<storeVars, serving, served, acked, reused, crashes, faults>>
    BY <1>7, DeduplicateSteps
  <2> QED BY <2>1, <2>2, <2>3 DEF storeVars
<1>8. CASE persist
  <2>1. Head(todo) \in Appending /\ Tail(todo) \in Seq(Appending)
    BY <1>8, HeadTailProperties DEF persist
  <2>2. append(Head(todo).rec) /\ Head(todo).rec \in Record
    BY <1>8, <2>1 DEF persist, Appending
  <2>3. /\ journal' \in Seq(JournalEntry) /\ kept' = <<>> /\ seq' = seq + 1 /\ file' = "Open"
        /\ UNCHANGED <<snapshot, faulted>>
    BY <2>2, AppendSteps
  <2>4. reply' \in Acknowledgements /\ acked' \in Acknowledgements
    BY <1>8 DEF persist, Acknowledgements
  <2>5. todo' \in Seq(Appending) /\ UNCHANGED <<mem, serving, served, reused, crashes, faults>>
    BY <1>8, <2>1 DEF persist
  <2> QED BY <2>3, <2>4, <2>5
<1>9. CASE persist_error
  <2>1. Head(todo) \in Appending
    BY <1>9, HeadTailProperties DEF persist_error
  <2>2. Head(todo).rec \in Record /\ Head(todo).failed \in State /\ Head(todo).answer \in Acknowledgements
    BY <2>1 DEF Appending
  <2>3. journal' \in Written(journal, seq + 1, Head(todo).rec) /\ faulted' = TRUE
        /\ UNCHANGED <<snapshot, file, kept, seq>>
    BY <1>9 DEF persist_error, append_error
  <2>4. journal' \in Seq(JournalEntry)
    BY <2>2, <2>3, WrittenTypes
  <2>5. /\ mem' \in State /\ todo' = <<>> /\ reply' = {} /\ faults' \in Nat
        /\ UNCHANGED <<serving, served, reused, crashes>>
    BY <1>9, <2>2 DEF persist_error
  <2>6. acked' \in Acknowledgements /\ reply' \in Acknowledgements
    BY <1>9, <2>2 DEF persist_error, Acknowledgements
  <2> QED BY <2>3, <2>4, <2>5, <2>6
<1>10. CASE crash
  <2>1. journal' \in Seq(JournalEntry)
    <3> DEFINE pending == [i \in DOMAIN todo |-> todo[i].rec]
    <3>1. \/ journal' \in Rewritten(kept)
          \/ journal' = journal
          \/ pending # <<>> /\ journal' \in Written(OnDisk, seq + 1, pending[1])
      BY <1>10 DEF crash, store_crash, OnDisk
    <3>2. ASSUME pending # <<>> PROVE pending[1] \in Record
      <4>1. todo # <<>>
        BY <3>2
      <4>2. 1 \in DOMAIN todo /\ todo[1] \in Appending
        BY <4>1
      <4> QED BY <4>2 DEF Appending
    <3>3. OnDisk \in Seq(JournalEntry) /\ seq + 1 \in Nat
      BY DEF OnDisk
    <3> HIDE DEF pending
    <3> QED BY <3>1, <3>2, <3>3, RewrittenTypes, WrittenTypes
  <2>2. EmptyState \in State
    BY DEF EmptyState, State, Compilation, Commit, NoCommit
  <2>3. /\ file' = "Closed" /\ kept' = <<>> /\ seq' = 0 /\ UNCHANGED <<snapshot, faulted>>
        /\ mem' = EmptyState /\ todo' = <<>> /\ reply' = {} /\ serving' = FALSE
        /\ crashes' \in Nat
        /\ UNCHANGED <<served, acked, reused, faults>>
    BY <1>10 DEF crash, store_crash
  <2>4. /\ kept' \in Seq(JournalEntry) /\ todo' \in Seq(Appending) /\ reply' \in Acknowledgements
        /\ mem' \in State
    BY <2>2, <2>3, EmptySeq DEF Acknowledgements
  <2> QED BY <2>1, <2>3, <2>4
<1>11. CASE UNCHANGED vars
  BY <1>11 DEF vars, storeVars, history
<1> QED BY <1>1, <1>2, <1>3, <1>4, <1>5, <1>6, <1>7, <1>8, <1>9, <1>10, <1>11 DEF Next
-----------------------------------------------------------------------------
(***************************************************************************)
(* Epochs and torn entries.                                                *)
(***************************************************************************)

\* Every handler runs in a serving process, leaves the store alone until its appends, and
\* keeps the epoch, also if it fails.
LEMMA HandlerSteps ==
    ASSUME TypeOK, NEW c \in Compilations, submit(c) \/ rebuild(c) \/ commit(c) \/ deduplicate(c)
    PROVE  /\ serving /\ file = "Open" /\ todo = <<>>
           /\ mem'.epoch = mem.epoch
           /\ \A i \in 1..Len(todo') : todo'[i].failed.epoch = mem.epoch
           /\ UNCHANGED <<snapshot, journal, file, kept, seq, faulted, serving, served, acked>>
<1>1. CASE submit(c)
  BY <1>1, SubmitSteps DEF Idle, storeVars, Step
<1>2. CASE deduplicate(c)
  BY <1>2, DeduplicateSteps DEF Idle, storeVars, Step
<1>3. CASE commit(c)
  BY <1>3, CommitSteps DEF Idle, storeVars, Step
<1>4. CASE rebuild(c)
  <2>1. PICK s \in State :
            /\ s.epoch = mem.epoch
            /\ todo' = IF mem.authoritative[c] = 0 THEN <<Step(CompilationRecord(mem', c), mem', {})>>
                       ELSE <<Step(CommitRecord(mem', mem.authoritative[c]), s, {}),
                              Step(CompilationRecord(mem', c), mem', {})>>
    BY <1>4, RebuildSteps
  <2>2. \A i \in 1..Len(todo') : todo'[i].failed.epoch = mem.epoch
    <3>1. mem'.epoch = mem.epoch
      BY <1>4, RebuildSteps
    <3> QED BY <2>1, <3>1 DEF Step
  <2> QED BY <1>4, <2>2, RebuildSteps DEF Idle, storeVars
<1> QED BY <1>1, <1>2, <1>3, <1>4

(* A snapshot renamed into place holds what is in memory until the journal  *)
(* is emptied.                                                              *)
LEMMA SnapshotHoldsNext == TypeOK /\ SnapshotHoldsMemory /\ [Next]_vars => SnapshotHoldsMemory'
<1> SUFFICES ASSUME TypeOK, SnapshotHoldsMemory, [Next]_vars PROVE SnapshotHoldsMemory'
  OBVIOUS
<1> USE DEF SnapshotHoldsMemory
<1>1. CASE open
  BY <1>1 DEF open, store_open
<1>2. CASE take_snapshot
  BY <1>2 DEF take_snapshot, write_snapshot
<1>3. CASE finish_snapshot
  BY <1>3 DEF finish_snapshot, truncate_journal
<1>4. CASE \E c \in Compilations : submit(c) \/ rebuild(c) \/ commit(c) \/ deduplicate(c)
  BY <1>4, HandlerSteps
<1>5. CASE persist
  BY <1>5 DEF persist, append
<1>6. CASE persist_error
  BY <1>6 DEF persist_error, append_error
<1>7. CASE crash
  BY <1>7 DEF crash, store_crash
<1>8. CASE UNCHANGED vars
  BY <1>8 DEF vars, storeVars
<1> QED BY <1>1, <1>2, <1>3, <1>4, <1>5, <1>6, <1>7, <1>8 DEF Next

(* No step takes an epoch back.                                             *)
LEMMA EpochsRiseNext ==
    TypeOK /\ SnapshotHoldsMemory /\ EpochsRise /\ [Next]_vars => EpochsRise'
<1> SUFFICES ASSUME TypeOK, SnapshotHoldsMemory, EpochsRise, [Next]_vars PROVE EpochsRise'
  OBVIOUS
<1>0. snapshot.state \in State /\ snapshot.state.epoch \in Nat /\ mem.epoch \in Nat /\ served \in Nat
  BY DEF TypeOK, State
<1> USE DEF EpochsRise
<1>1. CASE open
  <2>1. Undamaged(journal) \in Seq(JournalEntry) /\ snapshot \in [seq : Nat, state : State]
    BY UndamagedPrefix DEF TypeOK
  <2>2. mem'.epoch = snapshot.state.epoch + 1
    BY <1>1, <2>1, ReplayTypes, RestartedTypes DEF open
  <2>3. /\ file' = "Reopening" /\ file = "Closed"
        /\ UNCHANGED <<snapshot, serving, served>>
    BY <1>1 DEF open, store_open, history
  <2> QED BY <1>0, <2>2, <2>3
<1>2. CASE take_snapshot
  <2>1. /\ file = "Open" /\ file' = "Renamed" /\ todo = <<>> /\ todo' = <<>>
        /\ snapshot'.state = mem
        /\ UNCHANGED <<mem, serving, served>>
    BY <1>2 DEF take_snapshot, write_snapshot, history
  <2>2. served <= mem.epoch
    BY <1>0, <2>1
  <2> QED BY <2>1, <2>2
<1>3. CASE finish_snapshot
  BY <1>0, <1>3 DEF finish_snapshot, truncate_journal, SnapshotHoldsMemory
<1>4. CASE \E c \in Compilations : submit(c) \/ rebuild(c) \/ commit(c) \/ deduplicate(c)
  BY <1>4, HandlerSteps
<1>5. CASE persist
  <2>1. todo' = Tail(todo) /\ todo # <<>> /\ file' = "Open" /\ file \in {"Reopening", "Open"}
        /\ UNCHANGED <<snapshot, mem, serving, served>>
    BY <1>5 DEF persist, append
  <2>2. /\ Len(todo') = Len(todo) - 1
        /\ \A i \in 1..Len(todo') : todo'[i] = todo[i + 1]
    BY <2>1, HeadTailProperties DEF TypeOK
  <2>3. \A i \in 1..Len(todo') : i + 1 \in 1..Len(todo)
    BY <2>2 DEF TypeOK
  <2>4. serving => \A i \in 1..Len(todo') : todo'[i].failed.epoch = mem'.epoch
    BY <2>1, <2>2, <2>3
  <2> QED BY <2>1, <2>4
<1>6. CASE persist_error
  <2>1. /\ serving /\ todo # <<>> /\ todo' = <<>> /\ mem' = Head(todo).failed /\ file = "Open"
        /\ UNCHANGED <<snapshot, file, serving, served>>
    BY <1>6 DEF persist_error, append_error
  <2>2. Head(todo) = todo[1] /\ 1 \in 1..Len(todo)
    BY <2>1 DEF TypeOK
  <2>3. mem'.epoch = mem.epoch
    BY <2>1, <2>2
  <2> QED BY <2>1, <2>3
<1>7. CASE crash
  BY <1>7 DEF crash, store_crash
<1>8. CASE UNCHANGED vars
  BY <1>8 DEF vars, storeVars, history
<1> QED BY <1>1, <1>2, <1>3, <1>4, <1>5, <1>6, <1>7, <1>8 DEF Next

(* Only an append that a crash cut short leaves a torn record, and only at  *)
(* the end.                                                                 *)
LEMMA TornNext == TypeOK /\ OnlyTheTailIsTorn /\ [Next]_vars => OnlyTheTailIsTorn'
<1> SUFFICES ASSUME TypeOK, OnlyTheTailIsTorn, [Next]_vars PROVE OnlyTheTailIsTorn'
  OBVIOUS
<1> USE DEF OnlyTheTailIsTorn
<1>1. CASE open
  <2>1. \A i \in 1..Len(Undamaged(journal)) : Undamaged(journal)[i].whole
    BY UndamagedPrefix DEF TypeOK
  <2>2. kept' = Undamaged(journal) /\ journal' = <<>> /\ file' = "Reopening"
    BY <1>1 DEF open, store_open
  <2> QED BY <2>1, <2>2
<1>2. CASE take_snapshot
  BY <1>2 DEF take_snapshot, write_snapshot
<1>3. CASE finish_snapshot
  BY <1>3 DEF finish_snapshot, truncate_journal
<1>4. CASE \E c \in Compilations : submit(c) \/ rebuild(c) \/ commit(c) \/ deduplicate(c)
  BY <1>4, HandlerSteps
<1>5. CASE persist
  <2>1. Head(todo).rec \in Record /\ append(Head(todo).rec)
    <3>1. Head(todo) \in Appending
      BY <1>5, HeadTailProperties DEF persist, TypeOK
    <3> QED BY <1>5, <3>1 DEF persist, Appending
  <2>2. \A i \in 1..Len(journal') : i = Len(OnDisk) + 1 \/ i \in 1..Len(OnDisk)
    BY <2>1, AppendSteps
  <2>3. ~faulted => \A i \in 1..Len(OnDisk) : OnDisk[i].whole
    BY <2>1 DEF append, OnDisk
  <2>4. /\ \A i \in 1..Len(OnDisk) : journal'[i] = OnDisk[i]
        /\ journal'[Len(OnDisk) + 1].whole
        /\ kept' = <<>> /\ file' = "Open"
        /\ faulted' = faulted
    BY <2>1, AppendSteps
  <2> QED BY <2>2, <2>3, <2>4
<1>6. CASE persist_error
  BY <1>6 DEF persist_error, append_error
<1>7. CASE crash
  <2>1. file' = "Closed" /\ kept' = <<>> /\ faulted' = faulted /\ file # "Closed"
    BY <1>7 DEF crash, store_crash
  <2>2. ASSUME ~faulted, NEW i \in 1..Len(journal'), i # Len(journal') PROVE journal'[i].whole
    <3> DEFINE pending == [h \in DOMAIN todo |-> todo[h].rec]
    <3>1. \/ journal' \in Rewritten(kept)
          \/ journal' = journal
          \/ pending # <<>> /\ journal' \in Written(OnDisk, seq + 1, pending[1])
      BY <1>7 DEF crash, store_crash, OnDisk
    <3>2. ASSUME pending # <<>> PROVE pending[1] \in Record
      <4>1. todo # <<>>
        BY <3>2
      <4>2. 1 \in DOMAIN todo /\ todo[1] \in Appending
        BY <4>1 DEF TypeOK
      <4> QED BY <4>2 DEF Appending
    <3>3. OnDisk \in Seq(JournalEntry) /\ seq + 1 \in Nat /\ kept \in Seq(JournalEntry)
      BY DEF OnDisk, TypeOK
    <3>4. \A h \in 1..Len(OnDisk) : OnDisk[h].whole
      BY <2>1, <2>2 DEF OnDisk
    <3> HIDE DEF pending
    <3>5. CASE journal' \in Rewritten(kept)
      <4>1. i \in 1..Len(kept)
        BY <3>3, <3>5, RewrittenTypes
      <4>2. journal'[i].whole = kept[i].whole
        BY <2>2, <3>3, <3>5, RewrittenTypes
      <4> QED BY <4>1, <4>2
    <3>6. CASE journal' = journal
      BY <2>1, <2>2, <3>6
    <3>7. CASE pending # <<>> /\ journal' \in Written(OnDisk, seq + 1, pending[1])
      <4>1. i <= Len(OnDisk) /\ journal'[i] = OnDisk[i]
        BY <2>2, <3>2, <3>3, <3>7, WrittenTypes
      <4> QED BY <3>3, <3>4, <4>1
    <3> QED BY <3>1, <3>5, <3>6, <3>7
  <2> QED BY <2>1, <2>2
<1>8. CASE UNCHANGED vars
  BY <1>8 DEF vars, storeVars
<1> QED BY <1>1, <1>2, <1>3, <1>4, <1>5, <1>6, <1>7, <1>8 DEF Next
-----------------------------------------------------------------------------
(***************************************************************************)
(* The theorems.                                                           *)
(***************************************************************************)

\* Epochs rise and only the tail of a journal is torn, in every behaviour.
LEMMA StoreInvariant ==
    Spec => [](TypeOK /\ SnapshotHoldsMemory /\ EpochsRise /\ OnlyTheTailIsTorn)
<1>1. Init => TypeOK /\ SnapshotHoldsMemory /\ EpochsRise /\ OnlyTheTailIsTorn
  <2> SUFFICES ASSUME Init PROVE SnapshotHoldsMemory /\ EpochsRise /\ OnlyTheTailIsTorn
    BY TypeInit
  <2> QED BY DEF Init, StoreInit, EmptyState, SnapshotHoldsMemory, EpochsRise, OnlyTheTailIsTorn
<1>2. /\ TypeOK /\ SnapshotHoldsMemory /\ EpochsRise /\ OnlyTheTailIsTorn
      /\ [Next]_vars
      => (TypeOK /\ SnapshotHoldsMemory /\ EpochsRise /\ OnlyTheTailIsTorn)'
  BY TypeNext, SnapshotHoldsNext, EpochsRiseNext, TornNext
<1> QED BY <1>1, <1>2, PTL DEF Spec

\* Every variable keeps its type: what Coordinator::open replays from any journal a crash or
\* a failed append left is a state of the coordinator again.
THEOREM RecoveryTypes == Spec => []TypeOK
BY StoreInvariant, PTL

\* A process that Coordinator::open starts takes an epoch in which none served before, even
\* if earlier processes died inside open(): the snapshot written at the end of open() is on
\* disk before the epoch is served.
THEOREM FreshEpochs == Spec => []EpochIsFresh
<1>1. EpochsRise => EpochIsFresh
  BY DEF EpochsRise, EpochIsFresh
<1> QED BY <1>1, StoreInvariant, PTL

\* A journal that no failed append damaged is accepted by JournalStore::open after a crash
\* at any point: a torn entry is always the last one, and nothing valid follows it.
THEOREM CrashesAreAccepted == Spec => []CrashIsNotCorruption
<1>1. TypeOK /\ OnlyTheTailIsTorn => CrashIsNotCorruption
  <2> SUFFICES ASSUME TypeOK, OnlyTheTailIsTorn, ~faulted PROVE ~Corrupt(journal)
    BY DEF CrashIsNotCorruption
  <2>1. journal \in Seq(JournalEntry) /\ \A i \in 1..Len(journal) : journal[i].whole \/ i = Len(journal)
    BY DEF TypeOK, OnlyTheTailIsTorn
  <2> QED BY <2>1, TornTailIsNotCorrupt
<1> QED BY <1>1, StoreInvariant, PTL
=============================================================================
