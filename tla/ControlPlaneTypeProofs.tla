----------------------- MODULE ControlPlaneTypeProofs -----------------------
(***************************************************************************)
(* The types of ControlPlane, and what FrameReader::feed and the dispatch   *)
(* of its frames make of a row of cells.  Both are loops; what a loop over a *)
(* finite row computes is unfolded once (Iterated), and then reasoned about *)
(* by its least step that goes wrong (LeastElement).                        *)
(***************************************************************************)
EXTENDS ControlPlane, FiniteSetTheorems, FunctionTheorems, SequenceTheorems, TLAPS

(* Every nonempty set of naturals has a least element: from the library's     *)
(* theorem that finite sets are well founded under strict inclusion.        *)
LEMMA LeastElement ==
  ASSUME NEW T \in SUBSET Nat, T # {}
  PROVE  \E x \in T : \A y \in T : x <= y
<1>0. \A y \in T : y \in Int
  OBVIOUS
<1> DEFINE Below(n) == {y \in T : y <= n}
           F == {Below(n) : n \in T}
<1>1. F \subseteq FiniteSubsetsOf(Nat)
  <2> SUFFICES ASSUME NEW n \in T PROVE Below(n) \in FiniteSubsetsOf(Nat)
    OBVIOUS
  <2>1. Below(n) \in SUBSET Nat /\ n \in Nat /\ \A s \in Below(n) : s <= n
    OBVIOUS
  <2>2. IsFiniteSet(Below(n))
    BY <2>1, FS_BoundedSetOfNaturals
  <2> QED BY <2>1, <2>2 DEF FiniteSubsetsOf
<1>2. F # {}
  OBVIOUS
<1>3. PICK B \in F : \A U \in F : ~(<<U, B>> \in StrictSubsetOrdering(Nat))
  <2> HIDE DEF F
  <2>1. IsWellFoundedOn(StrictSubsetOrdering(Nat), FiniteSubsetsOf(Nat))
    BY FS_StrictSubsetOrderingWellFounded
  <2> QED BY <1>1, <1>2, <2>1, WFMin
<1>4. PICK x \in T : B = Below(x)
  OBVIOUS
<1>5. ASSUME NEW y \in T PROVE x <= y
  <2>0. x \in Int /\ y \in Int /\ \A z \in T : z \in Int
    BY <1>0
  <2> SUFFICES ASSUME y < x PROVE FALSE
    BY <2>0
  <2>1. Below(y) \subseteq Below(x)
    <3>1. ASSUME NEW z \in T, z <= y PROVE z <= x
      BY <2>0, <3>1
    <3> QED BY <3>1
  <2>4. x \in Below(x) /\ x \notin Below(y)
    BY <2>0
  <2>2. <<Below(y), B>> \in StrictSubsetOrdering(Nat)
    BY <2>1, <2>4, <1>4 DEF StrictSubsetOrdering
  <2>3. Below(y) \in F
    OBVIOUS
  <2> QED BY <2>2, <2>3, <1>3
<1> QED BY <1>5

(* A loop of k rounds that starts with b, keeps to T and goes on with D.      *)
IsLoop(g, T, b, k, D) ==
  g \in [0..k -> T] /\ g[0] = b /\ \A n \in 1..k : g[n] = D[<<g[n - 1], n>>]

(* There is one: what a recursive definition stands for exists.              *)
LEMMA Iterated ==
  ASSUME NEW T, NEW b \in T, NEW k \in Nat, NEW D \in [T \X (1..k) -> T]
  PROVE  \E g : IsLoop(g, T, b, k, D)
<1> DEFINE Loop(m, g) == g \in [0..m -> T] /\ g[0] = b /\ \A n \in 1..m : g[n] = D[<<g[n - 1], n>>]
           Bad == {m \in 0..k : ~\E g : Loop(m, g)}
<1>1. ASSUME Bad # {} PROVE \E m \in Bad : \A y \in Bad : m <= y
  <2>1. Bad \in SUBSET Nat
    OBVIOUS
  <2> HIDE DEF Bad
  <2> QED BY <1>1, <2>1, LeastElement
<1>2. SUFFICES ASSUME NEW m \in Bad, \A y \in Bad : m <= y PROVE FALSE
  <2>1. Bad = {}
    <3> HIDE DEF Bad
    <3> QED BY <1>1, <1>2
  <2>2. k \in 0..k
    OBVIOUS
  <2>3. PICK g : Loop(k, g)
    BY <2>1, <2>2
  <2>4. IsLoop(g, T, b, k, D)
    BY <2>3 DEF IsLoop
  <2> QED BY <2>4
<1>3. m \in 0..k /\ ~\E g : Loop(m, g)
  OBVIOUS
<1>4. m # 0
  <2>1. Loop(0, [n \in 0..0 |-> b])
    OBVIOUS
  <2> QED BY <1>3, <2>1
<1>5. m - 1 \in 0..k /\ m \in 1..k
  BY <1>3, <1>4
<1>6. PICK g : Loop(m - 1, g)
  <2>1. m - 1 \notin Bad
    BY <1>2, <1>5
  <2> QED BY <1>5, <2>1
<1> DEFINE h == [n \in 0..m |-> IF n = m THEN D[<<g[m - 1], m>>] ELSE g[n]]
<1>7. g[m - 1] \in T /\ D[<<g[m - 1], m>>] \in T
  <2>1. m - 1 \in 0..(m - 1)
    BY <1>5
  <2> QED BY <1>5, <1>6, <2>1
<1>8. h \in [0..m -> T]
  BY <1>5, <1>6, <1>7
<1>9. h[0] = b
  BY <1>5, <1>6
<1>10. ASSUME NEW n \in 1..m PROVE h[n] = D[<<h[n - 1], n>>]
  <2>1. n - 1 \in 0..m /\ n \in 0..m /\ n - 1 # m /\ h[n - 1] = g[n - 1]
    BY <1>5
  <2>2. CASE n = m
    BY <2>1, <2>2
  <2>3. CASE n # m
    <3>1. n \in 1..(m - 1)
      BY <1>5, <2>3
    <3> QED BY <1>6, <2>1, <2>3, <3>1
  <2> QED BY <2>2, <2>3
<1>11. Loop(m, h)
  BY <1>8, <1>9, <1>10
<1> QED BY <1>3, <1>11

(* Two loops that agree at the start and in every round agree.               *)
RoundsAgree(k, f, g) == f[0] = g[0] /\ \A n \in 1..k : f[n - 1] = g[n - 1] => f[n] = g[n]
Agree(k, f, g) == \A n \in 0..k : f[n] = g[n]

(* Two loops with the same start and the same rounds are the same.          *)
LEMMA LoopsAgree ==
  ASSUME NEW k \in Nat, NEW f, NEW g, RoundsAgree(k, f, g)
  PROVE  Agree(k, f, g)
<1> DEFINE Bad == {n \in 0..k : f[n] # g[n]}
<1>0. f[0] = g[0] /\ \A n \in 1..k : f[n - 1] = g[n - 1] => f[n] = g[n]
  BY DEF RoundsAgree
<1>1. ASSUME Bad # {} PROVE \E m \in Bad : \A y \in Bad : m <= y
  <2>1. Bad \in SUBSET Nat
    OBVIOUS
  <2> HIDE DEF Bad
  <2> QED BY <1>1, <2>1, LeastElement
<1>2. ASSUME NEW m \in Bad, \A y \in Bad : m <= y PROVE FALSE
  <2>1. m \in 1..k
    BY <1>0
  <2>2. m - 1 \in 0..k /\ m - 1 \notin Bad
    BY <1>2, <2>1
  <2> QED BY <1>0, <2>1, <2>2
<1>3. Bad = {}
  <2> HIDE DEF Bad
  <2> QED BY <1>1, <1>2
<1> QED BY <1>3 DEF Agree

-----------------------------------------------------------------------------
(***************************************************************************)
(* FrameReader::feed and dispatch, one round after the other.                *)
(***************************************************************************)

(* What a reader holds while it cuts cells of G into frames.                 *)
Cutting(G) == [rest : Seq(G), frames : Seq(Seq(G) \ {<<>>}), error : {"none", "magic", "length"}]

(* The empty row belongs to every set of rows.                              *)
LEMMA EmptyRow == \A S : <<>> \in Seq(S) /\ Len(<<>>) = 0
OBVIOUS

(* A round of feed invents no cell.                                          *)
LEMMA TakeTypes ==
  ASSUME NEW G, NEW r \in Cutting(G), NEW c \in G
  PROVE  take(r, c) \in Cutting(G)
<1> DEFINE rest == Append(r.rest, c)
<1>1. r.rest \in Seq(G) /\ r.frames \in Seq(Seq(G) \ {<<>>}) /\ r.error \in {"none", "magic", "length"}
      /\ r = [rest |-> r.rest, frames |-> r.frames, error |-> r.error]
  BY DEF Cutting
<1>2. rest \in Seq(G) /\ rest # <<>>
  BY <1>1, AppendProperties
<1>3. Append(r.frames, rest) \in Seq(Seq(G) \ {<<>>})
  <2> HIDE DEF rest
  <2>1. rest \in Seq(G) \ {<<>>}
    BY <1>2
  <2> HIDE <1>2
  <2> QED BY <1>1, <2>1, AppendProperties
<1>4. <<>> \in Seq(G)
  BY EmptyRow
<1>5. PICK e : e = Refusal(rest[1]) /\ e \in {"none", "magic", "length"}
  BY DEF Refusal
<1>6. take(r, c) \in {r, [r EXCEPT !.error = e, !.rest = <<>>], [r EXCEPT !.rest = rest],
                      [r EXCEPT !.rest = <<>>, !.frames = Append(r.frames, rest)]}
  BY <1>5 DEF take, Arrived
<1> HIDE DEF rest
<1>7. [r EXCEPT !.error = e, !.rest = <<>>] \in Cutting(G)
      /\ [r EXCEPT !.rest = rest] \in Cutting(G)
      /\ [r EXCEPT !.rest = <<>>, !.frames = Append(r.frames, rest)] \in Cutting(G)
  BY <1>1, <1>2, <1>3, <1>4, <1>5 DEF Cutting
<1> QED BY <1>6, <1>7

(* feed is its rounds, one for each cell.                                    *)
IsCut(f, buffer, cells, G) ==
  /\ f \in [0..Len(cells) -> Cutting(G)]
  /\ f[0] = [rest |-> buffer, frames |-> <<>>, error |-> "none"]
  /\ \A n \in 1..Len(cells) : f[n] = take(f[n - 1], cells[n])
  /\ feed(buffer, cells) = f[Len(cells)]

(* feed is a loop over the cells, each round of which is a take.            *)
LEMMA FeedUnfolds ==
  ASSUME NEW G, NEW buffer \in Seq(G), NEW cells \in Seq(G)
  PROVE  feed(buffer, cells) \in Cutting(G) /\ \E f : IsCut(f, buffer, cells, G)
<1> DEFINE b == [rest |-> buffer, frames |-> <<>>, error |-> "none"]
           k == Len(cells)
           D == [x \in Cutting(G) \X (1..k) |-> take(x[1], cells[x[2]])]
           Rounds(f) == [n \in 0..Len(cells) |->
             IF n = 0 THEN [rest |-> buffer, frames |-> <<>>, error |-> "none"] ELSE take(f[n - 1], cells[n])]
           taken == CHOOSE f : f = Rounds(f)
<1>1. b \in Cutting(G) /\ k \in Nat
  <2>1. <<>> \in Seq(Seq(G) \ {<<>>})
    BY EmptyRow
  <2> QED BY <2>1 DEF Cutting
<1>2. D \in [Cutting(G) \X (1..k) -> Cutting(G)]
  <2> SUFFICES ASSUME NEW r \in Cutting(G), NEW n \in 1..k PROVE take(r, cells[n]) \in Cutting(G)
    OBVIOUS
  <2>1. cells[n] \in G
    BY ElementOfSeq
  <2> QED BY <2>1, TakeTypes
<1>3. PICK g \in [0..k -> Cutting(G)] : g[0] = b /\ \A n \in 1..k : g[n] = D[<<g[n - 1], n>>]
  <2>1. \E g : IsLoop(g, Cutting(G), b, k, D)
    <3> HIDE DEF b, k, D
    <3> QED BY <1>1, <1>2, Iterated
  <2> QED BY <2>1 DEF IsLoop
<1>4. \A n \in 1..k : g[n] = take(g[n - 1], cells[n])
  <2> SUFFICES ASSUME NEW n \in 1..k PROVE D[<<g[n - 1], n>>] = take(g[n - 1], cells[n])
    BY <1>3
  <2>1. n - 1 \in 0..k
    BY <1>1
  <2> QED BY <2>1
<1>5. g = Rounds(g)
  <2>1. \A n \in 0..k : n # 0 => n \in 1..k
    BY <1>1
  <2> QED BY <1>3, <1>4, <2>1
<1>6. taken = Rounds(taken)
  <2> HIDE DEF Rounds
  <2> QED BY <1>5
<1>7. feed(buffer, cells) = taken[Len(cells)]
  BY DEF feed
<1> HIDE DEF taken
<1>8. taken[0] = b /\ DOMAIN taken = 0..k /\ \A n \in 1..k : taken[n] = take(taken[n - 1], cells[n])
  <2>1. 0 \in 0..k /\ \A n \in 1..k : n \in 0..k /\ n # 0
    BY <1>1
  <2> QED BY <1>6, <2>1
<1>9. \A n \in 0..k : taken[n] = g[n]
  <2>1. RoundsAgree(k, taken, g)
    BY <1>3, <1>4, <1>8 DEF RoundsAgree
  <2>2. Agree(k, taken, g)
    <3> HIDE DEF k
    <3> QED BY <1>1, <2>1, LoopsAgree
  <2> QED BY <2>2 DEF Agree
<1>10. k \in 0..k
  BY <1>1
<1>11. IsCut(g, buffer, cells, G)
  BY <1>3, <1>4, <1>7, <1>9, <1>10 DEF IsCut
<1> QED BY <1>3, <1>7, <1>9, <1>10, <1>11

(* What the dispatch of frames of F, received from p, may have come to: the   *)
(* session is not closed, only a verdict among the frames has ended an       *)
(* attempt, and only registrations are answered.                            *)
Answers == {f \in Frames : f.op = "Registered"}

Verdicts(F, a, op) == \E f \in F : f.op = op /\ f.attempt = a

EndedBy(F, p, a, new) ==
  /\ attempt[a].state = "assigned" /\ attempt[a].with = p
  /\ \/ new = [attempt[a] EXCEPT !.state = "reported"] /\ Verdicts(F, a, "ReportOutput")
     \/ new = [attempt[a] EXCEPT !.state = "failed"] /\ Verdicts(F, a, "FailAttempt")

EndedByVerdicts(F, p, new) == \A a \in Attempts : new[a] = attempt[a] \/ EndedBy(F, p, a, new[a])

Dispatched(F, p) ==
  {s \in [session : {"none", "registered", "ready"}, attempt : [Attempts -> AttemptRecords], answers : Seq(Answers)] :
     EndedByVerdicts(F, p, s.attempt)}

(* What has been dispatched, as one fact.                                   *)
LEMMA IsDispatched ==
  ASSUME NEW F, NEW p, NEW x \in {"none", "registered", "ready"}, NEW y \in [Attempts -> AttemptRecords],
         NEW z \in Seq(Answers), EndedByVerdicts(F, p, y)
  PROVE  [session |-> x, attempt |-> y, answers |-> z] \in Dispatched(F, p)
BY DEF Dispatched

(* A frame ends an attempt that the session holds, or changes the session.   *)
Ended(as, a, state) == [as EXCEPT ![a].state = state]

(* A frame ends at most the attempt it names, and only for the session that *)
(* holds it.                                                                *)
LEMMA EndsOne ==
  ASSUME NEW F \in SUBSET Frames, NEW p, NEW s \in Dispatched(F, p), NEW f \in F,
         attempt \in [Attempts -> AttemptRecords],
         f.attempt \in Attempts, s.attempt[f.attempt].state = "assigned", s.attempt[f.attempt].with = p,
         NEW ended, \/ f.op = "ReportOutput" /\ ended = "reported"
                    \/ f.op = "FailAttempt" /\ ended = "failed",
         NEW new, new = Ended(s.attempt, f.attempt, ended)
  PROVE  new \in [Attempts -> AttemptRecords] /\ EndedByVerdicts(F, p, new)
<1> DEFINE a == f.attempt
<1>1. s.attempt \in [Attempts -> AttemptRecords] /\ EndedByVerdicts(F, p, s.attempt)
  BY DEF Dispatched
<1>2. s.attempt[a] = attempt[a] /\ attempt[a].with = p /\ attempt[a].state = "assigned"
  <2>1. attempt[a] \in AttemptRecords /\ (s.attempt[a] = attempt[a] \/ EndedBy(F, p, a, s.attempt[a]))
    BY <1>1 DEF EndedByVerdicts
  <2> QED BY <2>1 DEF EndedBy, AttemptRecords
<1>3. [s.attempt[a] EXCEPT !.state = ended] \in AttemptRecords
  <2>1. s.attempt[a] \in AttemptRecords
    BY <1>1
  <2> QED BY <2>1 DEF AttemptRecords
<1>4. new \in [Attempts -> AttemptRecords] /\ (\A b \in Attempts \ {a} : new[b] = s.attempt[b])
      /\ new[a] = [attempt[a] EXCEPT !.state = ended]
  BY <1>1, <1>2, <1>3 DEF Ended
<1>5. EndedBy(F, p, a, new[a])
  <2>1. Verdicts(F, a, f.op)
    BY DEF Verdicts
  <2> QED BY <1>2, <1>4, <2>1 DEF EndedBy
<1>6. ASSUME NEW b \in Attempts PROVE new[b] = attempt[b] \/ EndedBy(F, p, b, new[b])
  <2>1. CASE b = a
    BY <1>5, <2>1
  <2>2. CASE b # a
    <3>1. s.attempt[b] = attempt[b] \/ EndedBy(F, p, b, s.attempt[b])
      BY <1>1 DEF EndedByVerdicts
    <3>2. new[b] = s.attempt[b]
      BY <1>4, <2>2
    <3> QED BY <3>1, <3>2
  <2> QED BY <2>1, <2>2
<1> QED BY <1>4, <1>6 DEF EndedByVerdicts

(* A round of dispatch keeps to what a recv may come to.                    *)
LEMMA DispatchStays ==
  ASSUME NEW F \in SUBSET Frames, NEW p, NEW s \in Dispatched(F, p), NEW f \in F,
         attempt \in [Attempts -> AttemptRecords]
  PROVE  dispatch(p, s, f) \in Dispatched(F, p)
<1> DEFINE a == f.attempt
           held == a # NoAttempt /\ s.attempt[a].state = "assigned" /\ s.attempt[a].with = p
<1>1. /\ s.session \in {"none", "registered", "ready"} /\ s.attempt \in [Attempts -> AttemptRecords]
      /\ s.answers \in Seq(Answers)
      /\ s = [session |-> s.session, attempt |-> s.attempt, answers |-> s.answers]
      /\ EndedByVerdicts(F, p, s.attempt)
  BY DEF Dispatched
<1>2. a \in Attempts \cup {NoAttempt}
  BY DEF Frames
<1>3. CASE f.op = "RegisterWorker"
  <2>1. dispatch(p, s, f) = [session |-> "registered", attempt |-> s.attempt,
                             answers |-> Append(s.answers, Message("Registered"))]
    BY <1>1, <1>3 DEF dispatch
  <2>2. Message("Registered") \in Answers
    BY DEF Message, Frame, Answers, Frames, Ops, NoAttempt
  <2>3. Append(s.answers, Message("Registered")) \in Seq(Answers)
    BY <1>1, <2>2, AppendProperties
  <2> QED BY <1>1, <2>1, <2>3, IsDispatched
<1>4. CASE f.op = "WorkerReady"
  <2>1. \/ dispatch(p, s, f) = s
        \/ dispatch(p, s, f) = [session |-> "ready", attempt |-> s.attempt, answers |-> s.answers]
    BY <1>1, <1>4 DEF dispatch
  <2> QED BY <1>1, <2>1, IsDispatched
<1>5. CASE f.op = "ReportOutput" /\ held
  <2>1. PICK new : new = Ended(s.attempt, a, "reported")
    OBVIOUS
  <2>2. dispatch(p, s, f) = [session |-> s.session, attempt |-> new, answers |-> s.answers]
    BY <1>1, <1>5, <2>1 DEF dispatch, Ended
  <2>3. new \in [Attempts -> AttemptRecords] /\ EndedByVerdicts(F, p, new)
    BY <1>2, <1>5, <2>1, EndsOne
  <2> QED BY <1>1, <2>2, <2>3, IsDispatched
<1>6. CASE f.op = "FailAttempt" /\ held
  <2>1. PICK new : new = Ended(s.attempt, a, "failed")
    OBVIOUS
  <2>2. dispatch(p, s, f) = [session |-> s.session, attempt |-> new, answers |-> s.answers]
    BY <1>1, <1>6, <2>1 DEF dispatch, Ended
  <2>3. new \in [Attempts -> AttemptRecords] /\ EndedByVerdicts(F, p, new)
    BY <1>2, <1>6, <2>1, EndsOne
  <2> QED BY <1>1, <2>2, <2>3, IsDispatched
<1>7. CASE f.op \notin {"RegisterWorker", "WorkerReady"} /\ ~(f.op \in {"ReportOutput", "FailAttempt"} /\ held)
  <2>1. dispatch(p, s, f) = s
    BY <1>7 DEF dispatch
  <2> QED BY <2>1
<1> QED BY <1>3, <1>4, <1>5, <1>6, <1>7

(* The loop over the frames of one recv.                                     *)
LEMMA DispatchTypes ==
  ASSUME NEW F \in SUBSET Frames, NEW p, NEW frames \in Seq(F),
         attempt \in [Attempts -> AttemptRecords], session[p] \in {"none", "registered", "ready"}
  PROVE  dispatch_all(p, frames) \in Dispatched(F, p)
<1> DEFINE b == [session |-> session[p], attempt |-> attempt, answers |-> <<>>]
           k == Len(frames)
           D == [x \in Dispatched(F, p) \X (1..k) |-> dispatch(p, x[1], frames[x[2]])]
           Rounds(f) == [n \in 0..Len(frames) |->
             IF n = 0 THEN [session |-> session[p], attempt |-> attempt, answers |-> <<>>]
             ELSE dispatch(p, f[n - 1], frames[n])]
           done == CHOOSE f : f = Rounds(f)
<1>1. b \in Dispatched(F, p) /\ k \in Nat
  <2>1. <<>> \in Seq(Answers)
    BY EmptyRow
  <2> QED BY <2>1 DEF Dispatched, EndedByVerdicts
<1>2. D \in [Dispatched(F, p) \X (1..k) -> Dispatched(F, p)]
  <2> SUFFICES ASSUME NEW s \in Dispatched(F, p), NEW n \in 1..k PROVE dispatch(p, s, frames[n]) \in Dispatched(F, p)
    OBVIOUS
  <2>1. frames[n] \in F
    BY ElementOfSeq
  <2> QED BY <2>1, DispatchStays
<1>3. PICK g \in [0..k -> Dispatched(F, p)] : g[0] = b /\ \A n \in 1..k : g[n] = D[<<g[n - 1], n>>]
  <2>1. \E g : IsLoop(g, Dispatched(F, p), b, k, D)
    <3> HIDE DEF b, k, D
    <3> QED BY <1>1, <1>2, Iterated
  <2> QED BY <2>1 DEF IsLoop
<1>4. \A n \in 1..k : g[n] = dispatch(p, g[n - 1], frames[n])
  <2> SUFFICES ASSUME NEW n \in 1..k PROVE D[<<g[n - 1], n>>] = dispatch(p, g[n - 1], frames[n])
    BY <1>3
  <2>1. n - 1 \in 0..k
    BY <1>1
  <2> QED BY <2>1
<1>5. g = Rounds(g)
  <2>1. \A n \in 0..k : n # 0 => n \in 1..k
    BY <1>1
  <2> QED BY <1>3, <1>4, <2>1
<1>6. done = Rounds(done)
  <2> HIDE DEF Rounds
  <2> QED BY <1>5
<1>7. dispatch_all(p, frames) = done[Len(frames)]
  BY DEF dispatch_all
<1> HIDE DEF done
<1>8. done[0] = b /\ \A n \in 1..k : done[n] = dispatch(p, done[n - 1], frames[n])
  <2>1. 0 \in 0..k /\ \A n \in 1..k : n \in 0..k /\ n # 0
    BY <1>1
  <2> QED BY <1>6, <2>1
<1>9. \A n \in 0..k : done[n] = g[n]
  <2>1. RoundsAgree(k, done, g)
    BY <1>3, <1>4, <1>8 DEF RoundsAgree
  <2>2. Agree(k, done, g)
    <3> HIDE DEF k
    <3> QED BY <1>1, <2>1, LoopsAgree
  <2> QED BY <2>2 DEF Agree
<1>10. k \in 0..k
  BY <1>1
<1> QED BY <1>3, <1>7, <1>9, <1>10

-----------------------------------------------------------------------------
(***************************************************************************)
(* What the other operators make.                                           *)
(***************************************************************************)

(* q is queue with more frames, none of them an assignment.                  *)
Extended(queue) ==
  {q \in Seq(Frames) :
     /\ Len(q) >= Len(queue)
     /\ \A i \in 1..Len(queue) : q[i] = queue[i]
     /\ \A i \in 1..Len(q) : i > Len(queue) => q[i].op # "Assign"}

(* A queue that was extended may be extended further.                       *)
LEMMA ExtendedAgain ==
  ASSUME NEW queue \in Seq(Frames), NEW q \in Extended(queue), NEW f \in Frames, f.op # "Assign"
  PROVE  Append(q, f) \in Extended(queue)
<1>1. /\ q \in Seq(Frames) /\ Len(q) >= Len(queue) /\ \A i \in 1..Len(queue) : q[i] = queue[i]
      /\ \A i \in 1..Len(q) : i > Len(queue) => q[i].op # "Assign"
  BY DEF Extended
<1>2. Len(q) \in Nat /\ Len(queue) \in Nat
  BY <1>1, LenProperties
<1> DEFINE r == Append(q, f)
<1>3. /\ r \in Seq(Frames) /\ Len(r) = Len(q) + 1 /\ r[Len(q) + 1] = f
      /\ \A i \in 1..Len(q) : r[i] = q[i]
  BY <1>1, AppendProperties
<1> HIDE DEF r
<1>4. \A i \in 1..Len(queue) : r[i] = queue[i]
  <2> SUFFICES ASSUME NEW i \in 1..Len(queue) PROVE r[i] = queue[i]
    OBVIOUS
  <2>1. i \in 1..Len(q)
    BY <1>1, <1>2
  <2> QED BY <1>1, <1>3, <2>1
<1>5. \A i \in 1..Len(r) : i > Len(queue) => r[i].op # "Assign"
  <2> SUFFICES ASSUME NEW i \in 1..Len(r), i > Len(queue) PROVE r[i].op # "Assign"
    OBVIOUS
  <2>1. CASE i = Len(q) + 1
    BY <1>3, <2>1
  <2>2. CASE i # Len(q) + 1
    <3>1. i \in 1..Len(q)
      BY <1>2, <1>3, <2>2
    <3>2. r[i] = q[i]
      BY <1>3, <3>1
    <3> QED BY <1>1, <3>1, <3>2
  <2> QED BY <2>1, <2>2
<1>6. Len(r) >= Len(queue)
  BY <1>1, <1>2, <1>3
<1>7. r \in Extended(queue)
  BY <1>3, <1>4, <1>5, <1>6 DEF Extended
<1> QED BY <1>7 DEF r

(* Control messages are not assignments either.                              *)
LEMMA QueueControlsExtends ==
  ASSUME NEW p, outgoing[p] \in Seq(Frames), controls \in Seq(Controls)
  PROVE  queue_controls(p) \in Extended(outgoing[p])
<1> DEFINE T == Extended(outgoing[p])
           b == outgoing[p]
           k == Len(controls)
           next(q, c) == IF c.to = p THEN Append(q, Concerning(c.op, c.attempt)) ELSE q
           D == [x \in T \X (1..k) |-> next(x[1], controls[x[2]])]
           Rounds(f) == [n \in 0..Len(controls) |->
             IF n = 0 THEN outgoing[p]
             ELSE IF controls[n].to = p THEN Append(f[n - 1], Concerning(controls[n].op, controls[n].attempt))
                  ELSE f[n - 1]]
           queued == CHOOSE f : f = Rounds(f)
<1>1. b \in T /\ k \in Nat
  <2>1. Len(b) \in Nat
    BY LenProperties
  <2> QED BY <2>1 DEF Extended
<1>2. D \in [T \X (1..k) -> T]
  <2> SUFFICES ASSUME NEW q \in T, NEW n \in 1..k PROVE next(q, controls[n]) \in T
    OBVIOUS
  <2>1. controls[n] \in Controls
    BY ElementOfSeq
  <2>2. Concerning(controls[n].op, controls[n].attempt) \in Frames
        /\ Concerning(controls[n].op, controls[n].attempt).op # "Assign"
    BY <2>1 DEF Concerning, Frame, Frames, Controls, Ops
  <2> QED BY <2>2, ExtendedAgain
<1>3. PICK g \in [0..k -> T] : g[0] = b /\ \A n \in 1..k : g[n] = D[<<g[n - 1], n>>]
  <2>1. \E g : IsLoop(g, T, b, k, D)
    <3> HIDE DEF b, k, D, T
    <3> QED BY <1>1, <1>2, Iterated
  <2> QED BY <2>1 DEF IsLoop
<1>4. \A n \in 1..k : g[n] = next(g[n - 1], controls[n])
  <2> SUFFICES ASSUME NEW n \in 1..k PROVE D[<<g[n - 1], n>>] = next(g[n - 1], controls[n])
    BY <1>3
  <2>1. n - 1 \in 0..k
    BY <1>1
  <2> QED BY <2>1
<1>5. g = Rounds(g)
  <2>1. \A n \in 0..k : n # 0 => n \in 1..k
    BY <1>1
  <2> QED BY <1>3, <1>4, <2>1
<1>6. queued = Rounds(queued)
  <2> HIDE DEF Rounds
  <2> QED BY <1>5
<1>7. queue_controls(p) = queued[Len(controls)]
  BY DEF queue_controls
<1> HIDE DEF queued
<1>8. queued[0] = b /\ \A n \in 1..k : queued[n] = next(queued[n - 1], controls[n])
  <2>1. 0 \in 0..k /\ \A n \in 1..k : n \in 0..k /\ n # 0
    BY <1>1
  <2> QED BY <1>6, <2>1
<1>9. \A n \in 0..k : queued[n] = g[n]
  <2>1. RoundsAgree(k, queued, g)
    BY <1>3, <1>4, <1>8 DEF RoundsAgree
  <2>2. Agree(k, queued, g)
    <3> HIDE DEF k
    <3> QED BY <1>1, <2>1, LoopsAgree
  <2> QED BY <2>2 DEF Agree
<1>10. k \in 0..k
  BY <1>1
<1> QED BY <1>3, <1>7, <1>9, <1>10

(* encode_frame cuts a frame into its cells, or refuses it.                  *)
LEMMA EncodeTypes ==
  ASSUME NEW f \in Frames
  PROVE  /\ encode_frame(f) \in Seq(Cells)
         /\ encode_frame(f) = <<>> \/ Len(encode_frame(f)) = f.parts
         /\ \A i \in 1..Len(encode_frame(f)) : encode_frame(f)[i] = [frame |-> f, part |-> i]
<1>1. f.parts \in Nat \ {0}
  BY DEF Frames
<1>2. CASE Payload(f) > MaxFrame
  <2>1. encode_frame(f) = <<>>
    BY <1>2 DEF encode_frame
  <2> QED BY <2>1
<1>3. CASE ~(Payload(f) > MaxFrame)
  <2> DEFINE s == [i \in 1..f.parts |-> [frame |-> f, part |-> i]]
  <2>1. encode_frame(f) = s
    BY <1>3 DEF encode_frame
  <2>2. Payload(f) <= MaxFrame
    BY <1>1, <1>3, TransportConstants DEF Payload, HeaderCells
  <2>3. ASSUME NEW i \in 1..f.parts PROVE [frame |-> f, part |-> i] \in Cells
    BY <1>1, <2>2 DEF Cells
  <2>4. s \in Seq(Cells) /\ Len(s) = f.parts
    <3>1. s \in [1..f.parts -> Cells]
      BY <2>3
    <3> HIDE DEF s
    <3> QED BY <1>1, <3>1
  <2> QED BY <2>1, <2>4
<1> QED BY <1>2, <1>3

(* A set of control messages as a row of them.                               *)
LEMMA SetToSeqTypes ==
  ASSUME NEW S, IsFiniteSet(S)
  PROVE  SetToSeq(S) \in Seq(S)
<1>1. Cardinality(S) \in Nat /\ ExistsBijection(1..Cardinality(S), S)
  BY FS_CardinalityType
<1>2. PICK f : f \in Bijection(1..Cardinality(S), S)
  BY <1>1 DEF ExistsBijection
<1>3. f \in [1..Cardinality(S) -> S] /\ IsInjective(f)
  BY <1>2 DEF Bijection, Injection
<1>4. SetToSeq(S) \in [1..Cardinality(S) -> S]
  BY <1>3 DEF SetToSeq
<1> QED BY <1>1, <1>4

(* send_frame under send_mutex: cells of G stay cells of G.                  *)
LEMMA SendFrameKeeps ==
  ASSUME NEW G \in SUBSET Cells, NEW p \in Procs, NEW f \in Frames,
         up \in [Procs -> Seq(G)], sending \in [Procs -> Seq(G)],
         \A i \in 1..Len(encode_frame(f)) : encode_frame(f)[i] \in G,
         send_frame(p, f)
  PROVE  up' \in [Procs -> Seq(G)] /\ sending' \in [Procs -> Seq(G)]
<1>1. CASE UNCHANGED <<up, sending>>
  BY <1>1
<1>2. CASE ~UNCHANGED <<up, sending>>
  <2> DEFINE cells == encode_frame(f)
  <2>1. cells # <<>> /\ up' = [up EXCEPT ![p] = Append(@, cells[1])] /\ sending' = [sending EXCEPT ![p] = Tail(cells)]
    BY <1>2 DEF send_frame
  <2>2. cells \in Seq(Cells) /\ \A i \in 1..Len(cells) : cells[i] \in G
    BY EncodeTypes
  <2> HIDE DEF cells
  <2>3. Len(cells) \in Nat \ {0}
    BY <2>1, <2>2, EmptyRow, LenProperties
  <2>4. cells \in Seq(G)
    <3>1. cells \in [1..Len(cells) -> G]
      BY <2>2, LenProperties
    <3> QED BY <2>3, <3>1
  <2>5. cells[1] \in G /\ Tail(cells) \in Seq(G)
    BY <2>1, <2>2, <2>3, <2>4, HeadTailProperties
  <2>6. Append(up[p], cells[1]) \in Seq(G)
    BY <2>5, AppendProperties
  <2> QED BY <2>1, <2>5, <2>6
<1> QED BY <1>1, <1>2

(* The frames a row of cells of G can be decoded to.                         *)
FramesOf(G) == {c.frame : c \in G} \cup {Message("Malformed")}

(* decode_frame gives a frame that some cell belongs to, or a malformed     *)
(* one.                                                                     *)
LEMMA DecodeTypes ==
  ASSUME NEW G \in SUBSET Cells, NEW raw \in Seq(G) \ {<<>>}
  PROVE  decode_frame(raw) \in FramesOf(G)
<1>1. Len(raw) \in Nat \ {0}
  BY EmptyRow, LenProperties
<1>2. raw[1] \in G
  BY <1>1, ElementOfSeq
<1> QED BY <1>2 DEF decode_frame, FramesOf

(* The frames of cells are frames.                                          *)
LEMMA FramesOfTypes ==
  ASSUME NEW G \in SUBSET Cells
  PROVE  FramesOf(G) \in SUBSET Frames
<1>1. \A c \in G : c.frame \in Frames
  BY DEF Cells
<1>2. Message("Malformed") \in Frames
  BY DEF Message, Frame, Frames, Ops, NoAttempt
<1> QED BY <1>1, <1>2 DEF FramesOf

(* One recv: the reader keeps what it was given, and the connection is marked *)
(* for reaping, or the frames are dispatched.                               *)
LEMMA ReceiveEffects ==
  ASSUME NEW G \in SUBSET Cells, NEW p \in Procs, NEW cells \in Seq(G), reader[p] \in Seq(G),
         attempt \in [Attempts -> AttemptRecords], session[p] \in {"none", "registered", "ready"},
         Receive(p, cells)
  PROVE  /\ \E r \in Seq(G) : reader' = [reader EXCEPT ![p] = r]
         /\ \/ closing' = closing \cup {p} /\ UNCHANGED <<session, attempt, outgoing>>
            \/ /\ UNCHANGED closing
               /\ \E s \in Dispatched(FramesOf(G), p) :
                    /\ session' = [session EXCEPT ![p] = s.session]
                    /\ attempt' = s.attempt
                    /\ outgoing' = [outgoing EXCEPT ![p] = @ \o s.answers]
<1> DEFINE fed == feed(reader[p], cells)
           frames == [i \in 1..Len(fed.frames) |-> decode_frame(fed.frames[i])]
           after == dispatch_all(p, frames)
<1>1. fed \in Cutting(G)
  BY FeedUnfolds
<1>2. /\ reader' = [reader EXCEPT ![p] = fed.rest]
      /\ \/ closing' = closing \cup {p} /\ UNCHANGED <<session, attempt, outgoing>>
         \/ /\ UNCHANGED closing
            /\ session' = [session EXCEPT ![p] = after.session]
            /\ attempt' = after.attempt
            /\ outgoing' = [outgoing EXCEPT ![p] = @ \o after.answers]
  BY DEF Receive
<1> HIDE DEF fed
<1>3. fed.rest \in Seq(G) /\ fed.frames \in Seq(Seq(G) \ {<<>>})
  BY <1>1 DEF Cutting
<1>4. frames \in Seq(FramesOf(G))
  <2>1. \A i \in 1..Len(fed.frames) : decode_frame(fed.frames[i]) \in FramesOf(G)
    BY <1>3, ElementOfSeq, DecodeTypes
  <2>2. Len(fed.frames) \in Nat
    BY <1>3, LenProperties
  <2>3. frames \in [1..Len(fed.frames) -> FramesOf(G)]
    BY <2>1
  <2> HIDE DEF frames
  <2> QED BY <2>2, <2>3
<1>5. after \in Dispatched(FramesOf(G), p)
  <2> HIDE DEF frames
  <2> QED BY <1>4, FramesOfTypes, DispatchTypes
<1> HIDE DEF after
<1> QED BY <1>2, <1>3, <1>5

-----------------------------------------------------------------------------
(***************************************************************************)
(* A step of a compile.                                                     *)
(***************************************************************************)

Codes == {"none", "Ok", "Unknown", "IoError", "Timeout", "ValidationFailure", "ArtifactMissing"}

(* The fields of a run have their types.                                    *)
LEMMA RunFields ==
  ASSUME NEW r \in Runs
  PROVE  /\ r.pc \in {"none", "prepare", "start", "wait", "kill", "collect", "finished"}
         /\ r.family \in {"none", "msvc", "nvcc", "synthetic"}
         /\ r.child \in {"none", "running", "exited", "terminated"} /\ r.exit \in {0, 1}
         /\ r.job \in BOOLEAN /\ r.helper \in BOOLEAN /\ r.timedOut \in BOOLEAN /\ r.stop \in BOOLEAN
         /\ r.artifact \in BOOLEAN /\ r.made \in BOOLEAN /\ r.code \in Codes
BY DEF Runs, Codes

(* When an adapter returns, what was made the proper way is remembered.      *)
LEMMA ForgottenTypes ==
  ASSUME NEW r \in Runs
  PROVE  /\ Forgotten(r) \in Runs /\ Forgotten(r).pc = "none" /\ Forgotten(r).job = FALSE
         /\ Forgotten(r).child = (IF r.child = "running" THEN "running" ELSE "none")
         /\ Forgotten(r).made = (r.made \/ Made(r)) /\ IsOrderly(Forgotten(r))
<1> DEFINE m == r.made \/ Made(r)
           c == IF r.child = "running" THEN "running" ELSE "none"
<1>1. m \in BOOLEAN /\ c \in {"running", "none"}
  OBVIOUS
<1>2. Forgotten(r) = [Idle EXCEPT !.made = m, !.child = c]
  BY DEF Forgotten
<1> HIDE DEF m, c
<1>3. Forgotten(r) = [pc |-> "none", family |-> "none", child |-> c, exit |-> 1, job |-> FALSE,
         helper |-> FALSE, timedOut |-> FALSE, stop |-> FALSE, artifact |-> FALSE, made |-> m, code |-> "none"]
  BY <1>2 DEF Idle
<1>4. Forgotten(r) \in Runs
  BY <1>1, <1>3 DEF Runs
<1>5. /\ Forgotten(r).pc = "none" /\ Forgotten(r).job = FALSE /\ Forgotten(r).child = c
      /\ Forgotten(r).exit = 1 /\ Forgotten(r).artifact = FALSE
  BY <1>3
<1>6. Forgotten(r).made = m
  BY <1>3
<1>7. IsOrderly(Forgotten(r))
  BY <1>1, <1>5 DEF IsOrderly
<1> QED BY <1>4, <1>5, <1>6, <1>7 DEF m, c

(* An outcome other than a failure is only told of an artifact that was made. *)
LEMMA FinishedTypes ==
  ASSUME NEW r \in Runs, r.child # "running", NEW code \in Codes,
         code = "Ok" => Made(r)
  PROVE  /\ Finished(r, code) \in Runs /\ Finished(r, code).pc = "finished"
         /\ IsOrderly(Finished(r, code)) /\ (r.made => Finished(r, code).made)
<1> DEFINE f == Forgotten(r)
           g == Finished(r, code)
<1>1. /\ f \in Runs /\ f.child = "none" /\ f.made = (r.made \/ Made(r)) /\ f.pc = "none"
  BY ForgottenTypes
<1>2. g = [f EXCEPT !.pc = "finished", !.code = code]
  BY DEF Finished
<1> HIDE DEF f, g
<1>3. g.pc = "finished" /\ g.code = code /\ g.child = "none" /\ g.made = f.made /\ g.exit = f.exit
      /\ g.family = f.family
  BY <1>1, <1>2 DEF Runs
<1>4. g \in Runs
  BY <1>1, <1>2 DEF Runs, Codes
<1>5. code = "Ok" => g.made
  BY <1>1, <1>3
<1>6. IsOrderly(g)
  BY <1>3, <1>5 DEF IsOrderly
<1>7. r.made => g.made
  BY <1>1, <1>3
<1> QED BY <1>3, <1>4, <1>6, <1>7 DEF g

(* What any step of a compile does to its run: it goes on being orderly, and  *)
(* nothing that was made is unmade.                                         *)
GoesOn(r, new) ==
  /\ new \in Runs /\ IsOrderly(new)
  /\ r.made => new.made
  /\ r.pc = "none" <=> new.pc = "none"
  /\ r.pc = "none" => new.child = "none"


(* A run that ends has gone on.                                             *)
LEMMA FinishedGoesOn ==
  ASSUME NEW q \in Runs, q.pc # "none", NEW r \in Runs, r.child # "running", q.made => r.made,
         NEW code \in Codes, code = "Ok" => Made(r)
  PROVE  GoesOn(q, Finished(r, code))
<1> DEFINE g == Finished(r, code)
<1>1. g \in Runs /\ g.pc = "finished" /\ IsOrderly(g) /\ (r.made => g.made)
  BY FinishedTypes
<1> HIDE DEF g
<1>2. GoesOn(q, g)
  <2>1. q.made => g.made
    BY <1>1
  <2> QED BY <1>1, <2>1 DEF GoesOn
<1> QED BY <1>2 DEF g

(* A step that leaves a run at a point of its own.                           *)
LEMMA MovedGoesOn ==
  ASSUME NEW q \in Runs, q.pc # "none", NEW r \in Runs, r.pc # "none", IsOrderly(r), r.made = q.made
  PROVE  GoesOn(q, r)
<1>1. q.made => r.made
  OBVIOUS
<1> QED BY <1>1 DEF GoesOn

(* A compiler that is started leaves an orderly run.                        *)
LEMMA StartedRun ==
  ASSUME NEW r \in Runs, IsOrderly(r), r.pc = "start", NEW job \in BOOLEAN,
         NEW s, s = [r EXCEPT !.pc = "wait", !.child = "running", !.job = job]
  PROVE  GoesOn(r, s)
<1>1. s \in Runs
  BY DEF Runs
<1>2. s.pc = "wait" /\ s.child = "running" /\ s.family = r.family
  BY DEF Runs
<1>3. s.made = r.made
  BY DEF Runs
<1>4. IsOrderly(s)
  BY <1>2 DEF IsOrderly
<1>5. r.pc # "none" /\ s.pc # "none"
  BY <1>2
<1> QED BY <1>1, <1>3, <1>4, <1>5, MovedGoesOn

(* A compiler that is terminated leaves an orderly run, and a failed one.   *)
LEMMA TerminatedRun ==
  ASSUME NEW r \in Runs, IsOrderly(r), r.pc = "kill", NEW partial \in BOOLEAN,
         NEW s, s = [Terminated(r, partial) EXCEPT !.pc = "collect"]
  PROVE  GoesOn(r, s)
<1>0. PICK helper \in BOOLEAN : helper = (r.helper /\ ~r.job)
  OBVIOUS
<1>1. CASE r.child = "running"
  <2>1. s = [r EXCEPT !.pc = "collect", !.child = "terminated", !.exit = 1, !.artifact = partial, !.helper = helper]
    BY <1>0, <1>1 DEF Terminated, Runs
  <2>2. s \in Runs
    BY <2>1 DEF Runs
  <2>3. s.pc = "collect" /\ s.child = "terminated" /\ s.exit = 1 /\ s.family = r.family
    BY <2>1 DEF Runs
  <2>4. s.made = r.made
    BY <2>1 DEF Runs
  <2>5. IsOrderly(s)
    BY <2>3 DEF IsOrderly
  <2>6. r.pc # "none" /\ s.pc # "none"
    BY <2>3
  <2> QED BY <2>2, <2>4, <2>5, <2>6, MovedGoesOn
<1>2. CASE r.child # "running"
  <2>1. s = [r EXCEPT !.pc = "collect", !.helper = helper]
    BY <1>0, <1>2 DEF Terminated, Runs
  <2>2. s \in Runs
    BY <2>1 DEF Runs
  <2>3. s.pc = "collect" /\ s.child = r.child /\ s.exit = r.exit /\ s.family = r.family
    BY <2>1 DEF Runs
  <2>4. s.made = r.made
    BY <2>1 DEF Runs
  <2>5. IsOrderly(s)
    BY <1>2, <2>3 DEF IsOrderly
  <2>6. r.pc # "none" /\ s.pc # "none"
    BY <2>3
  <2> QED BY <2>2, <2>4, <2>5, <2>6, MovedGoesOn
<1> QED BY <1>1, <1>2

(* What is collected of a compiler is an output only if it ended by itself  *)
(* with success.                                                            *)
LEMMA CollectedRun ==
  ASSUME NEW r \in Runs, IsOrderly(r), r.pc = "collect", NEW s, s = Closed(r)
  PROVE  GoesOn(r, Finished(s, Outcome(s)))
<1>0. PICK helper \in BOOLEAN : helper = (r.helper /\ ~r.job)
  OBVIOUS
<1>1. s = [r EXCEPT !.job = FALSE, !.helper = helper, !.stop = TRUE]
  BY <1>0 DEF Closed
<1>2. s \in Runs
  BY <1>1 DEF Runs
<1>3. s.child = r.child /\ s.exit = r.exit /\ s.family = r.family
  BY <1>1 DEF Runs
<1>4. s.made = r.made
  BY <1>1 DEF Runs
<1>5. r.child \in {"exited", "terminated"} /\ r.family \in {"msvc", "nvcc"} /\ (r.child = "terminated" => r.exit = 1)
  BY DEF IsOrderly
<1>6. Outcome(s) \in Codes
  BY <1>2, <1>3, <1>5, RunFields DEF Outcome, MsvcOutcome, NvccOutcome, Codes
<1>7. Outcome(s) = "Ok" => Made(s)
  <2> SUFFICES ASSUME Outcome(s) = "Ok" PROVE Made(s)
    OBVIOUS
  <2>0. s.exit \in {0, 1}
    BY <1>2, RunFields
  <2>1. NvccOutcome(s) = "Ok"
    BY DEF Outcome, MsvcOutcome
  <2>2. s.exit = 0 /\ s.artifact
    BY <2>0, <2>1 DEF NvccOutcome
  <2>3. s.child = "exited"
    BY <1>3, <1>5, <2>2
  <2> QED BY <2>2, <2>3 DEF Made
<1>8. s.child # "running" /\ r.pc # "none" /\ (r.made => s.made)
  BY <1>3, <1>4, <1>5
<1> QED BY <1>2, <1>6, <1>7, <1>8, FinishedGoesOn

(* So does the compiler that leaves.                                         *)
LEMMA ExitedRun ==
  ASSUME NEW r \in Runs, IsOrderly(r), r.child = "running", r.pc # "none",
         NEW status \in {0, 1}, NEW made \in BOOLEAN, NEW helper \in BOOLEAN,
         NEW s, s = [r EXCEPT !.child = "exited", !.exit = status, !.artifact = made, !.helper = helper]
  PROVE  GoesOn(r, s)
<1>1. s \in Runs
  BY DEF Runs
<1>2. s.pc = r.pc /\ s.child = "exited" /\ s.family = r.family
  BY DEF Runs
<1>3. s.made = r.made
  BY DEF Runs
<1>4. r.pc \in {"wait", "kill"} /\ r.family \in {"msvc", "nvcc"}
  BY RunFields DEF IsOrderly
<1>5. IsOrderly(s)
  BY <1>2, <1>4 DEF IsOrderly
<1> QED BY <1>1, <1>2, <1>3, <1>5, MovedGoesOn

(* Preparing a run leaves it orderly, whether the synthetic compiler ends   *)
(* it at once or not.                                                       *)
LEMMA PreparedRun ==
  ASSUME NEW r \in Runs, IsOrderly(r), r.pc = "prepare", NEW s,
         \/ r.family = "synthetic" /\ s = Synthesized(r)
         \/ r.family # "synthetic" /\ s = [r EXCEPT !.pc = "start"]
         \/ s = Finished(r, "Unknown")
  PROVE  GoesOn(r, s)
<1>0. r.child = "none" /\ r.family \in {"msvc", "nvcc", "synthetic"}
  BY RunFields DEF IsOrderly
<1>1. CASE r.family = "synthetic" /\ s = Synthesized(r)
  <2>1. PICK q : q = [r EXCEPT !.artifact = TRUE]
    OBVIOUS
  <2>2. q \in Runs
    BY <2>1 DEF Runs
  <2>3. q.child = "none" /\ q.family = "synthetic"
    BY <1>0, <1>1, <2>1 DEF Runs
  <2>4. q.artifact /\ q.made = r.made
    BY <2>1 DEF Runs
  <2>5. Made(q)
    BY <2>3, <2>4 DEF Made
  <2>6. q.child # "running" /\ (r.made => q.made) /\ "Ok" \in Codes /\ r.pc # "none"
    BY <2>3, <2>4 DEF Codes
  <2>7. GoesOn(r, Finished(q, "Ok"))
    BY <2>2, <2>5, <2>6, FinishedGoesOn
  <2> QED BY <1>1, <2>1, <2>7 DEF Synthesized
<1>2. CASE r.family # "synthetic" /\ s = [r EXCEPT !.pc = "start"]
  <2>1. s \in Runs
    BY <1>2 DEF Runs
  <2>2. s.pc = "start" /\ s.child = "none" /\ s.family = r.family
    BY <1>0, <1>2 DEF Runs
  <2>3. s.made = r.made
    BY <1>2 DEF Runs
  <2>4. IsOrderly(s)
    BY <1>0, <1>2, <2>2 DEF IsOrderly
  <2>5. r.pc # "none" /\ s.pc # "none"
    BY <2>2
  <2> QED BY <2>1, <2>3, <2>4, <2>5, MovedGoesOn
<1>3. CASE s = Finished(r, "Unknown")
  <2>1. r.child # "running" /\ "Unknown" \in Codes /\ r.pc # "none" /\ "Unknown" # "Ok"
    BY <1>0 DEF Codes
  <2> QED BY <1>3, <2>1, FinishedGoesOn
<1> QED BY <1>1, <1>2, <1>3

(* Every step of run_compile_unit keeps a run orderly and takes nothing     *)
(* back.                                                                    *)
LEMMA ChildStepGoesOn ==
  ASSUME NEW a \in Attempts, run \in [Attempts -> Runs], IsOrderly(run[a]), ChildStep(a)
  PROVE  cancel' = cancel /\ run[a].pc # "none" /\ \E new : GoesOn(run[a], new) /\ run' = [run EXCEPT ![a] = new]
<1> DEFINE r == run[a]
<1>0. r \in Runs
  OBVIOUS
<1>1. CASE Prepare(a)
  <2>1. PICK s : /\ \/ r.family = "other" /\ s = Finished(r, "Ok")
                    \/ r.family = "synthetic" /\ s = Synthesized(r)
                    \/ r.family # "synthetic" /\ s = [r EXCEPT !.pc = "start"]
                 /\ run' = [run EXCEPT ![a] = s]
    BY <1>1 DEF Prepare
  <2>2. r.family # "other"
    BY <1>0, RunFields
  <2>3. r.pc = "prepare" /\ cancel' = cancel
    BY <1>1 DEF Prepare
  <2>4. GoesOn(r, s)
    BY <1>0, <2>1, <2>2, <2>3, PreparedRun
  <2> QED BY <2>1, <2>3, <2>4
<1>2. CASE PrepareFails(a)
  <2>1. r.pc = "prepare" /\ cancel' = cancel /\ run' = [run EXCEPT ![a] = Finished(r, "Unknown")]
    BY <1>2 DEF PrepareFails
  <2>2. GoesOn(r, Finished(r, "Unknown"))
    BY <1>0, <2>1, PreparedRun
  <2> QED BY <2>1, <2>2
<1>3. CASE start(a)
  <2>1. PICK job \in BOOLEAN : run' = [run EXCEPT ![a].pc = "wait", ![a].child = "running", ![a].job = job]
    BY <1>3 DEF start
  <2>2. PICK s : s = [r EXCEPT !.pc = "wait", !.child = "running", !.job = job]
    OBVIOUS
  <2>3. r.pc = "start" /\ cancel' = cancel /\ run' = [run EXCEPT ![a] = s]
    BY <1>3, <2>1, <2>2 DEF start
  <2>4. GoesOn(r, s)
    BY <1>0, <2>2, <2>3, StartedRun
  <2> QED BY <2>3, <2>4
<1>4. CASE StartFails(a)
  <2>1. r.pc = "start" /\ cancel' = cancel /\ run' = [run EXCEPT ![a] = Finished(r, "IoError")]
    BY <1>4 DEF StartFails
  <2>2. r.child # "running" /\ "IoError" \in Codes /\ r.pc # "none" /\ "IoError" # "Ok"
    BY <2>1 DEF Codes, IsOrderly
  <2>3. GoesOn(r, Finished(r, "IoError"))
    BY <1>0, <2>2, FinishedGoesOn
  <2> QED BY <2>1, <2>3
<1>5. CASE WaitEnds(a) \/ WaitGivesUp(a)
  <2>1. PICK s : /\ \/ r.child = "exited" /\ s = [r EXCEPT !.pc = "collect"]
                    \/ s = [r EXCEPT !.pc = "kill", !.timedOut = TRUE]
                 /\ run' = [run EXCEPT ![a] = s]
    BY <1>5 DEF WaitEnds, WaitGivesUp
  <2>2. r.pc = "wait" /\ cancel' = cancel
    BY <1>5 DEF WaitEnds, WaitGivesUp
  <2>3. s \in Runs
    BY <1>0, <2>1 DEF Runs
  <2>4. /\ s.child = r.child /\ s.family = r.family /\ s.exit = r.exit
        /\ (s.pc = "collect" /\ r.child = "exited") \/ s.pc = "kill"
    BY <1>0, <2>1 DEF Runs
  <2>5. s.made = r.made
    BY <1>0, <2>1 DEF Runs
  <2>6. IsOrderly(s)
    BY <2>2, <2>4 DEF IsOrderly
  <2>7. r.pc # "none" /\ s.pc # "none"
    BY <2>2, <2>4
  <2>8. GoesOn(r, s)
    BY <1>0, <2>3, <2>5, <2>6, <2>7, MovedGoesOn
  <2> QED BY <2>1, <2>2, <2>8
<1>6. CASE terminate(a)
  <2>1. PICK partial \in BOOLEAN : run' = [run EXCEPT ![a] = [Terminated(r, partial) EXCEPT !.pc = "collect"]]
    BY <1>6 DEF terminate
  <2>2. r.pc = "kill" /\ cancel' = cancel
    BY <1>6 DEF terminate
  <2>3. GoesOn(r, [Terminated(r, partial) EXCEPT !.pc = "collect"])
    BY <1>0, <2>2, TerminatedRun
  <2> QED BY <2>1, <2>2, <2>3
<1>7. CASE collect(a)
  <2>1. PICK s : s = Closed(r)
    OBVIOUS
  <2>2. r.pc = "collect" /\ cancel' = cancel /\ run' = [run EXCEPT ![a] = Finished(s, Outcome(s))]
    BY <1>7, <2>1 DEF collect
  <2>3. GoesOn(r, Finished(s, Outcome(s)))
    BY <1>0, <2>1, <2>2, CollectedRun
  <2> QED BY <2>2, <2>3
<1> QED BY <1>1, <1>2, <1>3, <1>4, <1>5, <1>6, <1>7 DEF ChildStep

(* A compiler that leaves by itself keeps its run orderly.                  *)
LEMMA CompilerExitsGoesOn ==
  ASSUME NEW a \in Attempts, run \in [Attempts -> Runs], IsOrderly(run[a]), CompilerExits(a)
  PROVE  cancel' = cancel /\ \E new : GoesOn(run[a], new) /\ run' = [run EXCEPT ![a] = new]
<1> DEFINE r == run[a]
<1>0. r \in Runs
  OBVIOUS
<1>1. CASE Exit(a)
  <2>1. PICK status \in {0, 1}, made \in BOOLEAN, helper \in BOOLEAN :
          run' = [run EXCEPT ![a].child = "exited", ![a].exit = status, ![a].artifact = made, ![a].helper = helper]
    BY <1>1 DEF Exit
  <2>2. PICK s : s = [r EXCEPT !.child = "exited", !.exit = status, !.artifact = made, !.helper = helper]
    OBVIOUS
  <2>3. r.child = "running" /\ r.pc # "none" /\ cancel' = cancel /\ run' = [run EXCEPT ![a] = s]
    BY <1>1, <2>1, <2>2 DEF Exit, Running
  <2>4. GoesOn(r, s)
    BY <1>0, <2>2, <2>3, ExitedRun
  <2> QED BY <2>3, <2>4
<1>2. CASE OrphanExits(a)
  <2>1. PICK s : s = [r EXCEPT !.child = "none"]
    OBVIOUS
  <2>2. r.pc = "none" /\ cancel' = cancel /\ run' = [run EXCEPT ![a] = s]
    BY <1>2, <2>1 DEF OrphanExits
  <2>3. s \in Runs
    BY <1>0, <2>1 DEF Runs
  <2>4. s.pc = "none" /\ s.child = "none" /\ s.exit = r.exit /\ s.family = r.family
    BY <1>0, <2>1, <2>2 DEF Runs
  <2>5. s.made = r.made /\ s.artifact = r.artifact
    BY <1>0, <2>1 DEF Runs
  <2>6. IsOrderly(s)
    BY <2>2, <2>4, <2>5 DEF IsOrderly
  <2>7. r.made => s.made
    BY <2>5
  <2>8. GoesOn(r, s)
    BY <2>2, <2>3, <2>4, <2>6, <2>7 DEF GoesOn
  <2> QED BY <2>2, <2>8
<1> QED BY <1>1, <1>2 DEF CompilerExits

-----------------------------------------------------------------------------
(***************************************************************************)
(* The types of the state, one lemma for each of the processes.              *)
(***************************************************************************)

(* Messages without a payload are frames.                                   *)
LEMMA FrameTypes ==
  /\ \A op \in Ops : Message(op) \in Frames /\ Message(op).op = op /\ Message(op).attempt = NoAttempt
  /\ \A op \in Ops, a \in Attempts \cup {NoAttempt} :
       Concerning(op, a) \in Frames /\ Concerning(op, a).op = op /\ Concerning(op, a).attempt = a
  /\ \A op \in Ops, a \in Attempts, parts \in Nat \ {0} :
       Frame(op, a, parts) \in Frames /\ Frame(op, a, parts).op = op /\ Frame(op, a, parts).attempt = a
BY DEF Message, Concerning, Frame, Frames, NoAttempt

(* What is on its way to a worker, frame by frame: d, and of o all but k.    *)
Row(d, o, k) == d \o SubSeq(o, k + 1, Len(o))

(* What is on the way to a worker: what is sent, then what is queued and    *)
(* not sent.                                                                *)
LEMMA RowFrames ==
  ASSUME NEW d \in Seq(Frames), NEW o \in Seq(Frames), NEW k \in Nat, k <= Len(o)
  PROVE  /\ Row(d, o, k) \in Seq(Frames)
         /\ Len(Row(d, o, k)) = Len(d) + (Len(o) - k)
         /\ \A i \in 1..Len(d) : Row(d, o, k)[i] = d[i]
         /\ \A i \in 1..Len(Row(d, o, k)) : i > Len(d) => Row(d, o, k)[i] = o[k + (i - Len(d))]
<1> DEFINE w == SubSeq(o, k + 1, Len(o))
<1>1. d \in Seq(Frames) /\ o \in Seq(Frames) /\ k \in Nat /\ k <= Len(o) /\ Len(d) \in Nat /\ Len(o) \in Nat
  BY LenProperties
<1>2. w \in Seq(Frames) /\ Len(w) = Len(o) - k /\ \A i \in 1..Len(w) : w[i] = o[k + i]
  <2>1. \A i \in (k + 1)..Len(o) : o[i] \in Frames
    BY <1>1, ElementOfSeq
  <2>2. w \in Seq(Frames) /\ Len(w) = (IF k + 1 <= Len(o) THEN Len(o) - (k + 1) + 1 ELSE 0)
        /\ \A i \in 1..(Len(o) - (k + 1) + 1) : w[i] = o[(k + 1) + i - 1]
    <3>1. k + 1 \in Int /\ Len(o) \in Int
      BY <1>1
    <3> QED BY <1>1, <2>1, <3>1, SubSeqProperties
  <2>3. Len(w) = Len(o) - k
    BY <1>1, <2>2
  <2>4. ASSUME NEW i \in 1..Len(w) PROVE w[i] = o[k + i]
    <3>1. i \in 1..(Len(o) - (k + 1) + 1) /\ (k + 1) + i - 1 = k + i
      BY <1>1, <2>3
    <3> QED BY <2>2, <3>1
  <2> QED BY <2>2, <2>3, <2>4
<1>3. PICK r : r = Row(d, o, k) /\ r = d \o w
  BY DEF Row
<1> HIDE DEF w
<1>4. r \in Seq(Frames) /\ Len(r) = Len(d) + Len(w)
      /\ \A i \in 1..(Len(d) + Len(w)) : r[i] = IF i <= Len(d) THEN d[i] ELSE w[i - Len(d)]
  <2>1. d \o w \in Seq(Frames) /\ Len(d \o w) = Len(d) + Len(w)
        /\ \A i \in 1..(Len(d) + Len(w)) : (d \o w)[i] = IF i <= Len(d) THEN d[i] ELSE w[i - Len(d)]
    <3> HIDE <1>2, <1>3
    <3>1. w \in Seq(Frames)
      BY <1>2
    <3> QED BY <1>1, <3>1, ConcatProperties
  <2> QED BY <1>3, <2>1
<1>5. \A i \in 1..Len(d) : r[i] = d[i]
  <2>1. Len(w) \in Nat
    BY <1>2, LenProperties
  <2> QED BY <1>1, <1>4, <2>1
<1>6. ASSUME NEW i \in 1..Len(r), i > Len(d) PROVE r[i] = o[k + (i - Len(d))]
  <2>1. r[i] = w[i - Len(d)]
    BY <1>1, <1>2, <1>4, <1>6
  <2>2. i - Len(d) \in 1..Len(w)
    BY <1>1, <1>2, <1>4, <1>6
  <2> QED BY <1>2, <2>1, <2>2
<1>7. Len(r) = Len(d) + (Len(o) - k)
  BY <1>2, <1>4
<1> QED BY <1>4, <1>3, <1>5, <1>6, <1>7

IsRow(r, d, o, k) ==
  /\ Len(r) = Len(d) + (Len(o) - k)
  /\ \A i \in 1..Len(d) : r[i] = d[i]
  /\ \A i \in 1..Len(r) : i > Len(d) => r[i] = o[k + (i - Len(d))]

(* The same, as one fact.                                                   *)
LEMMA RowIs ==
  ASSUME NEW d \in Seq(Frames), NEW o \in Seq(Frames), NEW k \in Nat, k <= Len(o)
  PROVE  IsRow(Row(d, o, k), d, o, k)
BY RowFrames DEF IsRow

(* The same, of a worker's connection.                                      *)
LEMMA OnTheWayFrames ==
  ASSUME NEW p \in Procs, down[p] \in Seq(Frames), outgoing[p] \in Seq(Frames),
         sent[p] \in Nat, sent[p] <= Len(outgoing[p])
  PROVE  /\ OnTheWay(p) \in Seq(Frames)
         /\ Len(OnTheWay(p)) = Len(down[p]) + (Len(outgoing[p]) - sent[p])
         /\ \A i \in 1..Len(down[p]) : OnTheWay(p)[i] = down[p][i]
<1>1. PICK d, o, k : d = down[p] /\ o = outgoing[p] /\ k = sent[p]
  OBVIOUS
<1>2. OnTheWay(p) = Row(d, o, k) /\ d \in Seq(Frames) /\ o \in Seq(Frames) /\ k \in Nat /\ k <= Len(o)
  BY <1>1 DEF OnTheWay, Row
<1>3. /\ OnTheWay(p) \in Seq(Frames) /\ Len(OnTheWay(p)) = Len(d) + (Len(o) - k)
      /\ \A i \in 1..Len(d) : OnTheWay(p)[i] = d[i]
  BY <1>2, RowFrames
<1> QED BY <1>1, <1>3

(* A worker's next frame.                                                    *)
LEMMA NextFrame ==
  ASSUME TypeOK, NEW p \in Procs, down[p] # <<>>
  PROVE  /\ Head(down[p]) \in Frames /\ Tail(down[p]) \in Seq(Frames)
         /\ Head(down[p]) = down[p][1] /\ Len(down[p]) \in Nat \ {0}
         /\ Len(Tail(down[p])) = Len(down[p]) - 1
         /\ \A i \in 1..Len(Tail(down[p])) : Tail(down[p])[i] = down[p][i + 1]
<1>1. down[p] \in Seq(Frames)
  BY DEF TypeOK, TransportTypes
<1> QED BY <1>1, HeadTailProperties, LenProperties, EmptyRow

(* The assignment a worker finds next is of an attempt that waits for it    *)
(* and has no thread.                                                       *)
LEMMA AssignmentsAreReal ==
  ASSUME TypeOK, AssignedOnce, NEW p \in Procs, down[p] # <<>>, Head(down[p]).op = "Assign"
  PROVE  LET a == Head(down[p]).attempt
         IN  a \in Attempts /\ thread[a] = "none" /\ attempt[a].state \in {"assigned", "lost"} /\ attempt[a].with = p
<1>1. /\ down[p] \in Seq(Frames) /\ outgoing[p] \in Seq(Frames)
      /\ sent[p] \in Nat /\ sent[p] <= Len(outgoing[p])
  BY DEF TypeOK, TransportTypes, ReactorTypes
<1>2. Head(down[p]) = down[p][1] /\ Len(down[p]) \in Nat \ {0} /\ Len(outgoing[p]) \in Nat
  BY <1>1, NextFrame, LenProperties
<1>3. 1 \in 1..Len(OnTheWay(p)) /\ OnTheWay(p)[1] = down[p][1]
  <2>1. Len(OnTheWay(p)) = Len(down[p]) + (Len(outgoing[p]) - sent[p])
        /\ \A i \in 1..Len(down[p]) : OnTheWay(p)[i] = down[p][i]
    BY <1>1, OnTheWayFrames
  <2>2. 1 \in 1..Len(down[p])
    BY <1>2
  <2> QED BY <1>1, <1>2, <2>1, <2>2
<1> QED BY <1>2, <1>3 DEF AssignedOnce

(* What send_frame writes are cells.                                        *)
LEMMA SendFrameTypes ==
  ASSUME TypeOK, NEW p \in Procs, NEW f \in Frames, send_frame(p, f)
  PROVE  up' \in [Procs -> Seq(Cells)] /\ sending' \in [Procs -> Seq(Cells)]
<1>1. \A i \in 1..Len(encode_frame(f)) : encode_frame(f)[i] \in Cells
  BY EncodeTypes, ElementOfSeq
<1>2. up \in [Procs -> Seq(Cells)] /\ sending \in [Procs -> Seq(Cells)]
  BY DEF TypeOK, TransportTypes, WorkerTypes
<1> QED BY <1>1, <1>2, SendFrameKeeps

(* What a killed worker leaves of a run is an orderly one.                  *)
LEMMA AbandonedTypes ==
  ASSUME NEW r \in Runs
  PROVE  /\ Abandoned(r) \in Runs /\ Abandoned(r).pc = "none" /\ Abandoned(r).job = FALSE /\ IsOrderly(Abandoned(r))
         /\ Abandoned(r).child = (IF r.child = "running" /\ ~r.job THEN "running" ELSE "none")
         /\ (r.made => Abandoned(r).made)
         /\ (~r.artifact => Abandoned(r).made = r.made)
<1>1. CASE r.job
  <2>1. PICK q : q = [r EXCEPT !.child = "terminated"]
    OBVIOUS
  <2>2. q \in Runs
    BY <2>1 DEF Runs
  <2>3. q.child = "terminated"
    BY <2>1 DEF Runs
  <2>4. q.made = r.made /\ q.artifact = r.artifact
    BY <2>1 DEF Runs
  <2>5. Abandoned(r) = Forgotten(q)
    BY <1>1, <2>1 DEF Abandoned
  <2> HIDE <2>1
  <2>6. r.made => Forgotten(q).made
    BY <2>2, <2>4, ForgottenTypes
  <2>7. /\ Abandoned(r) \in Runs /\ Abandoned(r).pc = "none" /\ IsOrderly(Abandoned(r))
        /\ Abandoned(r).child = "none"
    BY <2>2, <2>3, <2>5, ForgottenTypes
  <2>8. Abandoned(r).job = FALSE
    BY <2>2, <2>5, ForgottenTypes
  <2>9. r.made => Abandoned(r).made
    BY <2>4, <2>5, <2>6
  <2>10. ~r.artifact => Abandoned(r).made = r.made
    <3>1. Forgotten(q).made = (q.made \/ Made(q)) /\ q.made \in BOOLEAN
      BY <2>2, ForgottenTypes, RunFields
    <3>2. ~r.artifact => ~Made(q)
      BY <2>4 DEF Made
    <3> QED BY <2>4, <2>5, <3>1, <3>2
  <2> QED BY <1>1, <2>7, <2>8, <2>9, <2>10
<1>2. CASE ~r.job
  <2>1. Abandoned(r) = Forgotten(r)
    BY <1>2 DEF Abandoned
  <2>2. r.made => Forgotten(r).made
    BY ForgottenTypes
  <2>3. ~r.artifact => Forgotten(r).made = r.made
    <3>1. Forgotten(r).made = (r.made \/ Made(r)) /\ r.made \in BOOLEAN
      BY ForgottenTypes, RunFields
    <3>2. ~r.artifact => ~Made(r)
      BY DEF Made
    <3> QED BY <3>1, <3>2
  <2> QED BY <1>2, <2>1, <2>2, <2>3, ForgottenTypes
<1> QED BY <1>1, <1>2

(* The main thread, the heartbeat thread and the holder of send_mutex.       *)
LEMMA MainKeepsTypes ==
  ASSUME TypeOK, AssignedOnce, NEW p \in Procs,
         Worker(p) \/ SendRest(p) \/ Heartbeat(p) \/ MainStep(p) \/ Die(p)
  PROVE  TransportTypes' /\ WorkerTypes'
<1> USE DEF TypeOK, TransportTypes, WorkerTypes
<1>1. CASE Worker(p)
  <2>1. Message("RegisterWorker") \in Frames
    BY FrameTypes DEF Ops
  <2>2. encode_frame(Message("RegisterWorker")) \in Seq(Cells)
    BY <2>1, EncodeTypes
  <2> QED BY <1>1, <2>2 DEF Worker, Start
<1>2. CASE SendRest(p)
  <2>1. sending[p] \in Seq(Cells) /\ up[p] \in Seq(Cells) /\ sending[p] # <<>>
    BY <1>2 DEF SendRest, MutexFree
  <2>2. Head(sending[p]) \in Cells /\ Tail(sending[p]) \in Seq(Cells)
    BY <2>1, HeadTailProperties
  <2>3. Append(up[p], Head(sending[p])) \in Seq(Cells) /\ <<>> \in Seq(Cells)
    BY <2>1, <2>2, AppendProperties, EmptyRow
  <2> QED BY <1>2, <2>2, <2>3 DEF SendRest
<1>3. CASE Heartbeat(p)
  <2>1. Message("Heartbeat") \in Frames
    BY FrameTypes DEF Ops
  <2>2. up' \in [Procs -> Seq(Cells)] /\ sending' \in [Procs -> Seq(Cells)]
    BY <1>3, <2>1, SendFrameTypes DEF Heartbeat
  <2>3. beats' \in [Procs -> Nat]
    <3>1. beats[p] + 1 \in Nat
      OBVIOUS
    <3> QED BY <1>3, <3>1 DEF Heartbeat
  <2>4. cancel' = cancel
    BY <1>3 DEF Heartbeat
  <2> QED BY <1>3, <2>2, <2>3, <2>4 DEF Heartbeat
<1>4. CASE Registered(p)
  <2>1. Message("WorkerReady") \in Frames
    BY FrameTypes DEF Ops
  <2>2. up' \in [Procs -> Seq(Cells)] /\ sending' \in [Procs -> Seq(Cells)]
    BY <1>4, <2>1, SendFrameTypes DEF Registered
  <2>3. Tail(down[p]) \in Seq(Frames)
    BY <1>4, NextFrame DEF Registered
  <2> QED BY <1>4, <2>2, <2>3 DEF Registered
<1>5. CASE start_compile(p)
  <2> DEFINE a == Head(down[p]).attempt
  <2>1. Tail(down[p]) \in Seq(Frames) /\ a \in Attempts
    BY <1>5, NextFrame, AssignmentsAreReal DEF start_compile
  <2>2. Concerning("FailAttempt", a) \in Frames
    BY <2>1, FrameTypes DEF Ops
  <2>3. run' \in [Attempts -> Runs]
    <3>1. CASE UNCHANGED run
      BY <3>1
    <3>2. CASE \E family \in Families[a] : run' = [run EXCEPT ![a].family = family]
      <4>1. PICK family \in Families[a] : run' = [run EXCEPT ![a].family = family]
        BY <3>2
      <4>2. family \in {"msvc", "nvcc", "synthetic"}
        BY <2>1, FamiliesDiscovered
      <4>3. [run[a] EXCEPT !.family = family] \in Runs
        <5>1. run[a] \in Runs
          BY <2>1
        <5> QED BY <4>2, <5>1 DEF Runs
      <4> QED BY <4>1, <4>3
    <3> QED BY <1>5, <3>1, <3>2 DEF start_compile
  <2>4. verdict' \in [Attempts -> Frames]
    BY <1>5, <2>2 DEF start_compile
  <2> QED BY <1>5, <2>1, <2>3, <2>4 DEF start_compile, Go
<1>6. CASE CancelAttempt(p)
  <2>1. Tail(down[p]) \in Seq(Frames)
    BY <1>6, NextFrame DEF CancelAttempt
  <2>2. cancel' \in [Attempts -> BOOLEAN]
    BY <1>6 DEF CancelAttempt
  <2>3. down' \in [Procs -> Seq(Frames)]
    BY <1>6, <2>1 DEF CancelAttempt
  <2> QED BY <1>6, <2>2, <2>3 DEF CancelAttempt
<1>7. CASE Disconnected(p)
  <2>1. cancel' \in [Attempts -> BOOLEAN]
    BY <1>7 DEF Disconnected
  <2>2. main' = [main EXCEPT ![p] = "draining"]
    BY <1>7 DEF Disconnected
  <2> QED BY <1>7, <2>1, <2>2 DEF Disconnected, transportVars
<1>8. CASE Stop(p)
  BY <1>8 DEF Stop, transportVars
<1>9. CASE Die(p)
  <2>1. run' \in [Attempts -> Runs]
    <3>1. \A a \in Attempts : Abandoned(run[a]) \in Runs
      BY AbandonedTypes
    <3> QED BY <1>9, <3>1 DEF Die
  <2>2. NoFrame \in Frames
    BY FrameTypes DEF NoFrame, Ops
  <2>3. cancel' \in [Attempts -> BOOLEAN]
    BY <1>9 DEF Die
  <2>4. verdict' \in [Attempts -> Frames]
        /\ thread' \in [Attempts -> {"none", "begin", "compile", "send", "sent", "done"}]
    BY <1>9, <2>2 DEF Die
  <2>5. sending' \in [Procs -> Seq(Cells)]
    BY <1>9, EmptyRow DEF Die
  <2>6. main' = [main EXCEPT ![p] = "dead"] /\ (link' = [link EXCEPT ![p] = "reset"] \/ link' = link)
    BY <1>9 DEF Die
  <2> QED BY <1>9, <2>1, <2>3, <2>4, <2>5, <2>6 DEF Die
<1> QED BY <1>1, <1>2, <1>3, <1>4, <1>5, <1>6, <1>7, <1>8, <1>9 DEF MainStep

(* The threads of the attempts, and their compilers.                         *)
LEMMA ThreadsKeepTypes ==
  ASSUME TypeOK, RunsAreOrderly, ThreadsAreSupervised, NEW a \in Attempts,
         ThreadStep(a) \/ CompilerExits(a)
  PROVE  TransportTypes' /\ WorkerTypes'
<1> USE DEF TypeOK, TransportTypes, WorkerTypes
<1>0. At(a, thread[a]) => owner[a] \in Procs
  BY DEF At
<1>1. CASE BeginCompile(a)
  <2>1. Concerning("BeginCompile", a) \in Frames
    BY FrameTypes DEF Ops
  <2>2. up' \in [Procs -> Seq(Cells)] /\ sending' \in [Procs -> Seq(Cells)]
    BY <1>0, <1>1, <2>1, SendFrameTypes DEF BeginCompile, At
  <2>3. run' \in [Attempts -> Runs]
    <3>1. run[a] \in Runs
      OBVIOUS
    <3>2. [run[a] EXCEPT !.pc = "prepare"] \in Runs
      BY <3>1 DEF Runs
    <3> QED BY <1>1, <3>2 DEF BeginCompile
  <2> QED BY <1>1, <2>2, <2>3 DEF BeginCompile, Go
<1>2. CASE Compile(a) \/ CompilerExits(a)
  <2>1. IsOrderly(run[a])
    BY DEF RunsAreOrderly
  <2>2. cancel' = cancel /\ \E new : GoesOn(run[a], new) /\ run' = [run EXCEPT ![a] = new]
    BY <1>2, <2>1, ChildStepGoesOn, CompilerExitsGoesOn DEF Compile
  <2>3. run' \in [Attempts -> Runs]
    BY <2>2 DEF GoesOn
  <2>4. cancel' \in [Attempts -> BOOLEAN]
    BY <2>2
  <2> QED BY <1>2, <2>3, <2>4 DEF Compile, CompilerExits, transportVars
<1>3. CASE Decide(a)
  <2>1. run' \in [Attempts -> Runs]
    <3>1. Forgotten(run[a]) \in Runs
      BY ForgottenTypes
    <3> QED BY <1>3, <3>1 DEF Decide
  <2>2. verdict' \in [Attempts -> Frames]
    <3>1. PICK size \in ReportSizes : verdict' = [verdict EXCEPT ![a] = Ends(a, size)]
      BY <1>3 DEF Decide
    <3>2. size \in Nat \ {0}
      BY WorkerConstants
    <3>3. Ends(a, size) \in Frames
      BY <3>2, FrameTypes DEF Ends, Ops
    <3> QED BY <3>1, <3>3
  <2> QED BY <1>3, <2>1, <2>2 DEF Decide, Go, transportVars
<1>4. CASE SendVerdict(a)
  <2>1. verdict[a] \in Frames
    OBVIOUS
  <2>2. up' \in [Procs -> Seq(Cells)] /\ sending' \in [Procs -> Seq(Cells)]
    BY <1>0, <1>4, <2>1, SendFrameTypes DEF SendVerdict, At
  <2> QED BY <1>4, <2>2 DEF SendVerdict, Go
<1>5. CASE Erase(a)
  <2>1. NoFrame \in Frames
    BY FrameTypes DEF NoFrame, Ops
  <2>2. cancel' \in [Attempts -> BOOLEAN]
    BY <1>5 DEF Erase
  <2>3. verdict' \in [Attempts -> Frames]
    BY <1>5, <2>1 DEF Erase
  <2> QED BY <1>5, <2>2, <2>3 DEF Erase, Go, transportVars
<1> QED BY <1>1, <1>2, <1>3, <1>4, <1>5 DEF ThreadStep

(* A part of a row is a row of the same things.                             *)
LEMMA SubSeqTypes ==
  ASSUME NEW S, NEW s \in Seq(S), NEW m \in Nat \ {0}, NEW n \in Nat, n <= Len(s)
  PROVE  SubSeq(s, m, n) \in Seq(S)
<1>1. \A i \in m..n : s[i] \in S
  BY ElementOfSeq, LenProperties
<1> QED BY <1>1, SubSeqProperties

(* Answers extend a queue and assign nothing.                               *)
LEMMA MoreAnswers ==
  ASSUME NEW q \in Seq(Frames), NEW answers \in Seq(Answers)
  PROVE  q \o answers \in Extended(q)
<1>1. answers \in Seq(Frames) /\ \A i \in 1..Len(answers) : answers[i].op = "Registered"
  <2>1. \A i \in 1..Len(answers) : answers[i] \in Answers
    BY ElementOfSeq
  <2>2. answers \in [1..Len(answers) -> Frames] /\ Len(answers) \in Nat
    BY <2>1, LenProperties DEF Answers
  <2> QED BY <2>1, <2>2 DEF Answers
<1>2. /\ q \o answers \in Seq(Frames) /\ Len(q \o answers) = Len(q) + Len(answers)
      /\ \A i \in 1..(Len(q) + Len(answers)) :
           (q \o answers)[i] = IF i <= Len(q) THEN q[i] ELSE answers[i - Len(q)]
  BY <1>1, ConcatProperties
<1>3. Len(q) \in Nat /\ Len(answers) \in Nat
  BY LenProperties
<1>4. PICK r : r = q \o answers
  OBVIOUS
<1>5. \A i \in 1..Len(q) : r[i] = q[i]
  BY <1>2, <1>3, <1>4
<1>6. \A i \in 1..Len(r) : i > Len(q) => r[i].op # "Assign"
  <2> SUFFICES ASSUME NEW i \in 1..Len(r), i > Len(q) PROVE r[i].op # "Assign"
    OBVIOUS
  <2>1. r[i] = answers[i - Len(q)] /\ i - Len(q) \in 1..Len(answers)
    BY <1>2, <1>3, <1>4
  <2> QED BY <1>1, <2>1
<1>7. Len(r) >= Len(q)
  BY <1>2, <1>3, <1>4
<1> QED BY <1>2, <1>4, <1>5, <1>6, <1>7 DEF Extended

(* One recv of cells of G.                                                   *)
Received(G, p) ==
  /\ MayReceive(p) /\ session[p] \in {"none", "registered", "ready"}
  /\ \E u \in Seq(G) : up' = [up EXCEPT ![p] = u]
  /\ \E r \in Seq(G) : reader' = [reader EXCEPT ![p] = r]
  /\ UNCHANGED <<phase, sent, controls, down, link>>
  /\ \/ closing' = closing \cup {p} /\ UNCHANGED <<session, attempt, outgoing>>
     \/ /\ UNCHANGED closing
        /\ \E s \in Dispatched(FramesOf(G), p) :
             /\ session' = [session EXCEPT ![p] = s.session]
             /\ attempt' = s.attempt
             /\ outgoing' = [outgoing EXCEPT ![p] = @ \o s.answers]

(* What one recv changes.                                                   *)
LEMMA RecvEffects ==
  ASSUME TypeOK, ConnectionsAreReal, NEW G \in SUBSET Cells, NEW p \in Procs,
         up \in [Procs -> Seq(G)], reader \in [Procs -> Seq(G)], Recv(p)
  PROVE  Received(G, p)
<1>1. MayReceive(p) /\ UNCHANGED <<phase, sent, controls, down, link>>
  BY DEF Recv
<1>2. session[p] \in {"none", "registered", "ready"}
  BY <1>1 DEF MayReceive, Connected, ConnectionsAreReal, TypeOK, ReactorTypes
<1>3. PICK k \in 1..Len(up[p]) : Receive(p, SubSeq(up[p], 1, k)) /\ up' = [up EXCEPT ![p] = SubSeq(@, k + 1, Len(@))]
  BY DEF Recv
<1>4. SubSeq(up[p], 1, k) \in Seq(G) /\ SubSeq(up[p], k + 1, Len(up[p])) \in Seq(G)
  <2>1. up[p] \in Seq(G) /\ Len(up[p]) \in Nat
    BY LenProperties
  <2>2. k \in Nat /\ k <= Len(up[p]) /\ k + 1 \in Nat \ {0} /\ 1 \in Nat \ {0}
    BY <2>1
  <2> QED BY <2>1, <2>2, SubSeqTypes
<1>5. PICK cells \in Seq(G) : cells = SubSeq(up[p], 1, k)
  BY <1>4
<1>6. Receive(p, cells) /\ attempt \in [Attempts -> AttemptRecords] /\ reader[p] \in Seq(G)
  BY <1>3, <1>5 DEF TypeOK, ReactorTypes
<1>7. /\ \E r \in Seq(G) : reader' = [reader EXCEPT ![p] = r]
      /\ \/ closing' = closing \cup {p} /\ UNCHANGED <<session, attempt, outgoing>>
         \/ /\ UNCHANGED closing
            /\ \E s \in Dispatched(FramesOf(G), p) :
                 /\ session' = [session EXCEPT ![p] = s.session]
                 /\ attempt' = s.attempt
                 /\ outgoing' = [outgoing EXCEPT ![p] = @ \o s.answers]
  BY <1>2, <1>6, ReceiveEffects
<1> QED BY <1>1, <1>2, <1>3, <1>4, <1>7 DEF Received

(* One non-blocking send.                                                    *)
LEMMA SendEffects ==
  ASSUME TypeOK, NEW p \in Procs, Send(p)
  PROVE  \E now \in Nat :
           /\ sent[p] <= now /\ now <= Len(outgoing[p])
           /\ down' = [down EXCEPT ![p] = @ \o SubSeq(outgoing[p], sent[p] + 1, now)]
           /\ down' \in [Procs -> Seq(Frames)]
           /\ \/ now = Len(outgoing[p]) /\ outgoing' = [outgoing EXCEPT ![p] = <<>>] /\ sent' = [sent EXCEPT ![p] = 0]
              \/ outgoing' = outgoing /\ sent' = [sent EXCEPT ![p] = now]
           /\ closing' \in {closing, closing \cup {p}}
           /\ UNCHANGED <<phase, reader, session, attempt, controls, up, link>>
<1>1. PICK taken \in 0..(Len(outgoing[p]) - sent[p]) : SendSome(p, taken)
  BY DEF Send
<1>2. /\ sent[p] \in Nat /\ Len(outgoing[p]) \in Nat /\ sent[p] <= Len(outgoing[p])
      /\ outgoing[p] \in Seq(Frames) /\ down[p] \in Seq(Frames)
  BY LenProperties DEF TypeOK, ReactorTypes, TransportTypes
<1>3. PICK now \in Nat : now = sent[p] + taken
  BY <1>2
<1>4. sent[p] <= now /\ now <= Len(outgoing[p])
  BY <1>2, <1>3
<1>5. \/ now >= Len(outgoing[p]) /\ outgoing' = [outgoing EXCEPT ![p] = <<>>] /\ sent' = [sent EXCEPT ![p] = 0]
      \/ ~(now >= Len(outgoing[p])) /\ outgoing' = [outgoing EXCEPT ![p] = outgoing[p]] /\ sent' = [sent EXCEPT ![p] = now]
  BY <1>1, <1>3 DEF SendSome
<1>6. outgoing \in [Procs -> Seq(Frames)]
  BY DEF TypeOK, ReactorTypes
<1>7. \/ now = Len(outgoing[p]) /\ outgoing' = [outgoing EXCEPT ![p] = <<>>] /\ sent' = [sent EXCEPT ![p] = 0]
      \/ outgoing' = outgoing /\ sent' = [sent EXCEPT ![p] = now]
  BY <1>2, <1>4, <1>5, <1>6
<1>8. down' = [down EXCEPT ![p] = @ \o SubSeq(outgoing[p], sent[p] + 1, now)]
      /\ closing' \in {closing, closing \cup {p}}
  BY <1>1, <1>3 DEF SendSome
<1>9. down' \in [Procs -> Seq(Frames)]
  <2>1. SubSeq(outgoing[p], sent[p] + 1, now) \in Seq(Frames)
    BY <1>2, <1>4, SubSeqTypes
  <2>2. down[p] \o SubSeq(outgoing[p], sent[p] + 1, now) \in Seq(Frames)
    BY <1>2, <2>1, ConcatProperties
  <2> QED BY <1>8, <2>2 DEF TypeOK, TransportTypes
<1> QED BY <1>4, <1>7, <1>8, <1>9 DEF Send

(* The updates of an attempt keep its type.                                 *)
LEMMA AttemptTypes ==
  ASSUME NEW r \in AttemptRecords
  PROVE  /\ [r EXCEPT !.state = "lost"] \in AttemptRecords /\ [r EXCEPT !.beaten = TRUE] \in AttemptRecords
         /\ \A p \in Procs, u \in BOOLEAN :
              [r EXCEPT !.state = "assigned", !.with = p, !.unread = u] \in AttemptRecords
BY DEF AttemptRecords

Assigning(a, p, r, q) ==
  /\ \E u \in BOOLEAN : r = [attempt[a] EXCEPT !.state = "assigned", !.with = p, !.unread = u]
  /\ attempt' = [attempt EXCEPT ![a] = r]
  /\ q \in {outgoing[p], Append(outgoing[p], Concerning("Assign", a))} /\ outgoing' = [outgoing EXCEPT ![p] = q]

(* What an assignment changes.                                              *)
LEMMA Assigned ==
  ASSUME TypeOK, NEW p \in Procs, NEW a \in Attempts, Assign(a, p)
  PROVE  \E r \in AttemptRecords, q \in Seq(Frames) : Assigning(a, p, r, q)
<1>1. PICK u \in BOOLEAN :
        /\ attempt' = [attempt EXCEPT ![a].state = "assigned", ![a].with = p, ![a].unread = u]
        /\ outgoing' = IF u THEN outgoing ELSE [outgoing EXCEPT ![p] = Append(@, Concerning("Assign", a))]
  BY DEF Assign
<1>2. PICK r : r = [attempt[a] EXCEPT !.state = "assigned", !.with = p, !.unread = u]
  OBVIOUS
<1>3. /\ attempt[a] \in AttemptRecords /\ outgoing[p] \in Seq(Frames)
      /\ attempt \in [Attempts -> AttemptRecords] /\ outgoing \in [Procs -> Seq(Frames)]
  BY DEF TypeOK, ReactorTypes
<1>4. r \in AttemptRecords
  BY <1>2, <1>3, AttemptTypes
<1>5. attempt' = [attempt EXCEPT ![a] = r]
  BY <1>1, <1>2
<1>6. Append(outgoing[p], Concerning("Assign", a)) \in Seq(Frames)
  <2>1. Concerning("Assign", a) \in Frames
    BY FrameTypes DEF Ops
  <2> QED BY <1>3, <2>1, AppendProperties
<1>7. PICK q \in {outgoing[p], Append(outgoing[p], Concerning("Assign", a))} : outgoing' = [outgoing EXCEPT ![p] = q]
  <2>1. CASE u
    <3>1. outgoing' = [outgoing EXCEPT ![p] = outgoing[p]]
      BY <1>1, <1>3, <2>1
    <3> QED BY <3>1
  <2>2. CASE ~u
    BY <1>1, <2>2
  <2> QED BY <2>1, <2>2
<1> QED BY <1>2, <1>3, <1>4, <1>5, <1>6, <1>7 DEF Assigning

(* What is left of the queues at the end of a turn.                          *)
Reaped(gone) ==
  /\ Disconnect(gone) /\ Shut(gone) /\ controls' = <<>> /\ UNCHANGED down
  /\ (EndTurn /\ gone = closing) \/ (LeaveLoop /\ gone = {p \in Procs : link[p] # "none"})
  /\ \A p \in gone : outgoing'[p] = <<>> /\ sent'[p] = 0
  /\ \A p \in Procs \ gone : sent'[p] = sent[p] /\ outgoing'[p] \in Extended(outgoing[p])
  /\ \A p \in Procs : ~Connected(p) => outgoing'[p] = <<>>
  /\ outgoing' \in [Procs -> Seq(Frames)]

(* The end of a turn, and the end of the loop, reap a set of connections.   *)
LEMMA TurnEnds ==
  ASSUME TypeOK, ConnectionsAreReal, EndTurn \/ LeaveLoop
  PROVE  \E gone \in SUBSET Procs : Reaped(gone)
<1>0. /\ outgoing \in [Procs -> Seq(Frames)] /\ controls \in Seq(Controls) /\ closing \subseteq Procs
      /\ sent \in [Procs -> Nat]
  BY DEF TypeOK, ReactorTypes
<1>1. \A p \in Procs : queue_controls(p) \in Extended(outgoing[p]) /\ <<>> \in Extended(<<>>)
  <2>1. <<>> \in Extended(<<>>)
    BY EmptyRow DEF Extended
  <2> QED BY <1>0, <2>1, QueueControlsExtends
<1>2. \A p \in Procs : queue_controls(p) \in Seq(Frames) /\ <<>> \in Seq(Frames)
  BY <1>1, EmptyRow DEF Extended
<1>3. \A p \in Procs : ~Connected(p) => outgoing[p] = <<>>
  BY DEF ConnectionsAreReal
<1>4. CASE EndTurn
  <2> DEFINE gone == closing
  <2>1. gone \in SUBSET Procs /\ Disconnect(gone) /\ Shut(gone) /\ controls' = <<>> /\ UNCHANGED down
    BY <1>0, <1>4 DEF EndTurn
  <2>2. outgoing' = [p \in Procs |-> IF p \in gone \/ ~Connected(p) THEN <<>> ELSE queue_controls(p)]
    BY <1>4 DEF EndTurn
  <2> HIDE DEF gone
  <2>3. sent' = [p \in Procs |-> IF p \in gone THEN 0 ELSE sent[p]]
    BY <2>1 DEF Shut
  <2>4. \A p \in Procs \ gone : outgoing'[p] \in Extended(outgoing[p])
    BY <1>1, <1>3, <2>2
  <2>5. outgoing' \in [Procs -> Seq(Frames)]
    BY <1>2, <2>2
  <2>6. EndTurn /\ gone = closing
    BY <1>4 DEF gone
  <2>7. \A p \in gone : outgoing'[p] = <<>> /\ sent'[p] = 0
    BY <2>1, <2>2, <2>3
  <2>8. \A p \in Procs \ gone : sent'[p] = sent[p]
    BY <2>3
  <2>9. \A p \in Procs : ~Connected(p) => outgoing'[p] = <<>>
    BY <2>2
  <2>10. Reaped(gone)
    BY <2>1, <2>4, <2>5, <2>6, <2>7, <2>8, <2>9 DEF Reaped
  <2> QED BY <2>1, <2>10
<1>5. CASE LeaveLoop
  <2> DEFINE gone == {p \in Procs : link[p] # "none"}
  <2>1. gone \in SUBSET Procs /\ Disconnect(gone) /\ Shut(gone) /\ controls' = <<>> /\ UNCHANGED down
        /\ gone = {p \in Procs : link[p] # "none"}
    BY <1>5 DEF LeaveLoop
  <2>2. outgoing' = [p \in Procs |-> <<>>]
    BY <1>5 DEF LeaveLoop
  <2>3. \A p \in Procs \ gone : ~Connected(p)
    BY DEF Connected
  <2> HIDE DEF gone
  <2>4. sent' = [p \in Procs |-> IF p \in gone THEN 0 ELSE sent[p]]
    BY <2>1 DEF Shut
  <2>5. \A p \in Procs \ gone : outgoing'[p] \in Extended(outgoing[p])
    BY <1>1, <1>3, <2>2, <2>3
  <2>6. outgoing' \in [Procs -> Seq(Frames)]
    BY <1>2, <2>2
  <2>7. \A p \in Procs : outgoing'[p] = <<>>
    BY <2>2
  <2>8. \A p \in gone : sent'[p] = 0
    BY <2>1, <2>4
  <2>9. \A p \in Procs \ gone : sent'[p] = sent[p]
    BY <2>4
  <2>10. Reaped(gone)
    BY <1>5, <2>1, <2>5, <2>6, <2>7, <2>8, <2>9 DEF Reaped
  <2> QED BY <2>1, <2>10
<1> QED BY <1>4, <1>5

(* The coordinator's steps keep the types of its own state and of the       *)
(* connections.                                                             *)
LEMMA ReactorKeepsTypes ==
  ASSUME TypeOK, ConnectionsAreReal, ReactorStep
  PROVE  TransportTypes' /\ ReactorTypes'
<1> USE DEF TypeOK, TransportTypes, ReactorTypes
<1>1. CASE \E p \in Procs : Accept(p)
  BY <1>1 DEF Accept, reactorVars
<1>2. CASE \E p \in Procs : Send(p)
  <2>1. PICK p \in Procs : Send(p)
    BY <1>2
  <2>2. PICK now \in Nat :
           /\ sent[p] <= now /\ now <= Len(outgoing[p])
           /\ down' \in [Procs -> Seq(Frames)]
           /\ \/ now = Len(outgoing[p]) /\ outgoing' = [outgoing EXCEPT ![p] = <<>>] /\ sent' = [sent EXCEPT ![p] = 0]
              \/ outgoing' = outgoing /\ sent' = [sent EXCEPT ![p] = now]
           /\ closing' \in {closing, closing \cup {p}}
           /\ UNCHANGED <<phase, reader, session, attempt, controls, up, link>>
    BY <2>1, SendEffects
  <2>3. outgoing' \in [Procs -> Seq(Frames)] /\ sent' \in [Procs -> Nat]
        /\ \A q \in Procs : sent'[q] <= Len(outgoing'[q])
    <3>1. CASE outgoing' = [outgoing EXCEPT ![p] = <<>>] /\ sent' = [sent EXCEPT ![p] = 0]
      BY <3>1, EmptyRow
    <3>2. CASE outgoing' = outgoing /\ sent' = [sent EXCEPT ![p] = now]
      BY <2>2, <3>2
    <3> QED BY <2>2, <3>1, <3>2
  <2> QED BY <2>2, <2>3
<1>3. CASE \E p \in Procs : Recv(p)
  <2>1. PICK p \in Procs : Recv(p)
    BY <1>3
  <2>2. up \in [Procs -> Seq(Cells)] /\ reader \in [Procs -> Seq(Cells)] /\ Cells \in SUBSET Cells
    OBVIOUS
  <2>3. /\ \E u \in Seq(Cells) : up' = [up EXCEPT ![p] = u]
        /\ \E r \in Seq(Cells) : reader' = [reader EXCEPT ![p] = r]
        /\ UNCHANGED <<phase, sent, controls, down, link>>
        /\ \/ closing' = closing \cup {p} /\ UNCHANGED <<session, attempt, outgoing>>
           \/ /\ UNCHANGED closing
              /\ \E s \in Dispatched(FramesOf(Cells), p) :
                   /\ session' = [session EXCEPT ![p] = s.session]
                   /\ attempt' = s.attempt
                   /\ outgoing' = [outgoing EXCEPT ![p] = @ \o s.answers]
    <3>1. Received(Cells, p)
      BY <2>1, <2>2, RecvEffects
    <3> QED BY <3>1 DEF Received
  <2>4. up' \in [Procs -> Seq(Cells)] /\ reader' \in [Procs -> Seq(Cells)]
    BY <2>3
  <2>5. CASE UNCHANGED <<session, attempt, outgoing>> /\ closing' = closing \cup {p}
    BY <2>3, <2>4, <2>5
  <2>6. CASE closing' = closing /\ \E s \in Dispatched(FramesOf(Cells), p) :
                   /\ session' = [session EXCEPT ![p] = s.session]
                   /\ attempt' = s.attempt
                   /\ outgoing' = [outgoing EXCEPT ![p] = @ \o s.answers]
    <3>1. PICK s \in Dispatched(FramesOf(Cells), p) :
                   /\ session' = [session EXCEPT ![p] = s.session]
                   /\ attempt' = s.attempt
                   /\ outgoing' = [outgoing EXCEPT ![p] = @ \o s.answers]
      BY <2>6
    <3>2. s.session \in {"none", "registered", "ready"} /\ s.attempt \in [Attempts -> AttemptRecords]
          /\ s.answers \in Seq(Answers)
      BY DEF Dispatched
    <3>3. PICK q \in Extended(outgoing[p]) : q = outgoing[p] \o s.answers
      BY <3>2, MoreAnswers
    <3>4. outgoing' = [outgoing EXCEPT ![p] = q] /\ q \in Seq(Frames) /\ Len(q) >= Len(outgoing[p])
          /\ Len(q) \in Nat /\ Len(outgoing[p]) \in Nat
      BY <3>1, <3>3, LenProperties DEF Extended
    <3>5. outgoing' \in [Procs -> Seq(Frames)] /\ \A x \in Procs : sent[x] <= Len(outgoing'[x])
      BY <3>4
    <3> QED BY <2>3, <2>4, <2>6, <3>1, <3>2, <3>5
  <2> QED BY <2>3, <2>5, <2>6
<1>4. CASE \E p \in Procs : RecvFails(p)
  BY <1>4, EmptyRow DEF RecvFails
<1>5. CASE \E p \in Procs : \E a \in Attempts : Assign(a, p)
  <2>1. PICK p \in Procs, a \in Attempts : Assign(a, p)
    BY <1>5
  <2>2. PICK r \in AttemptRecords, q \in Seq(Frames) : Assigning(a, p, r, q)
    BY <2>1, Assigned
  <2>3. /\ attempt' = [attempt EXCEPT ![a] = r]
        /\ q \in {outgoing[p], Append(outgoing[p], Concerning("Assign", a))} /\ outgoing' = [outgoing EXCEPT ![p] = q]
    BY <2>2 DEF Assigning
  <2>4. Concerning("Assign", a) \in Frames
    BY FrameTypes DEF Ops
  <2>5. Len(q) \in Nat /\ Len(q) >= Len(outgoing[p]) /\ Len(outgoing[p]) \in Nat
    BY <2>3, <2>4, AppendProperties, LenProperties
  <2>6. outgoing' \in [Procs -> Seq(Frames)] /\ \A x \in Procs : sent[x] <= Len(outgoing'[x])
    BY <2>3, <2>5
  <2>7. UNCHANGED <<phase, reader, sent, closing, session, controls, up, down, link>>
    BY <2>1 DEF Assign, transportVars
  <2> QED BY <2>3, <2>6, <2>7
<1>6. CASE \E a \in Attempts : Beaten(a)
  <2>1. PICK a \in Attempts : Beaten(a)
    BY <1>6
  <2>2. PICK r : r = [attempt[a] EXCEPT !.beaten = TRUE]
    OBVIOUS
  <2>3. attempt[a] \in AttemptRecords
    OBVIOUS
  <2>4. r \in AttemptRecords /\ attempt' = [attempt EXCEPT ![a] = r]
    BY <2>1, <2>2, <2>3, AttemptTypes DEF Beaten
  <2>5. PICK c : c = [op |-> "CancelAttempt", attempt |-> a, to |-> attempt[a].with]
    OBVIOUS
  <2>6. c \in Controls
    BY <2>3, <2>5 DEF AttemptRecords, Controls
  <2>7. controls' = Append(controls, c)
    BY <2>1, <2>5 DEF Beaten
  <2>8. controls' \in Seq(Controls)
    BY <2>6, <2>7, AppendProperties
  <2>9. UNCHANGED <<phase, reader, outgoing, sent, closing, session, up, down, link>>
    BY <2>1 DEF Beaten, transportVars
  <2> QED BY <2>4, <2>8, <2>9
<1>7. CASE Shutdown
  <2>1. PICK I : I = {[op |-> "Shutdown", attempt |-> NoAttempt, to |-> p] :
                        p \in {q \in Procs : session[q] \in {"registered", "ready"}}}
    OBVIOUS
  <2>2. I \subseteq Controls
    BY <2>1 DEF Controls
  <2>3. IsFiniteSet(I)
    <3>1. IsFiniteSet({q \in Procs : session[q] \in {"registered", "ready"}})
      BY TransportConstants, FS_Subset
    <3>2. PICK Q : Q = {q \in Procs : session[q] \in {"registered", "ready"}}
      OBVIOUS
    <3>3. IsFiniteSet(Q) /\ I = {[op |-> "Shutdown", attempt |-> NoAttempt, to |-> p] : p \in Q}
      BY <2>1, <3>1, <3>2
    <3>4. PICK f : f = [p \in Q |-> [op |-> "Shutdown", attempt |-> NoAttempt, to |-> p]]
      OBVIOUS
    <3>5. f \in Surjection(Q, I)
      BY <3>3, <3>4 DEF Surjection
    <3> QED BY <3>3, <3>5, FS_Surjection
  <2>4. SetToSeq(I) \in Seq(I)
    BY <2>3, SetToSeqTypes
  <2>5. SetToSeq(I) \in Seq(Controls)
    BY <2>2, <2>4
  <2>6. controls' = controls \o SetToSeq(I) /\ phase' = "last"
    BY <1>7, <2>1 DEF Shutdown
  <2>7. controls' \in Seq(Controls)
    BY <2>5, <2>6, ConcatProperties
  <2>8. UNCHANGED <<reader, outgoing, sent, closing, session, attempt, up, down, link>>
    BY <1>7 DEF Shutdown, transportVars
  <2> QED BY <2>6, <2>7, <2>8
<1>8. CASE EndTurn \/ LeaveLoop
  <2>0. PICK gone \in SUBSET Procs : Reaped(gone)
    BY <1>8, TurnEnds
  <2>1. /\ Disconnect(gone) /\ Shut(gone) /\ controls' = <<>> /\ UNCHANGED down
        /\ \A p \in gone : outgoing'[p] = <<>> /\ sent'[p] = 0
        /\ \A p \in Procs \ gone : sent'[p] = sent[p] /\ outgoing'[p] \in Extended(outgoing[p])
        /\ outgoing' \in [Procs -> Seq(Frames)]
    BY <2>0 DEF Reaped
  <2>2. attempt' \in [Attempts -> AttemptRecords]
    <3>1. \A a \in Attempts : [attempt[a] EXCEPT !.state = "lost"] \in AttemptRecords
      BY AttemptTypes
    <3> QED BY <2>1, <3>1 DEF Disconnect
  <2>3. session' \in [Procs -> {"none", "registered", "ready", "closed"}]
    BY <2>1 DEF Disconnect
  <2>4. /\ link' \in [Procs -> {"none", "pending", "open", "reset", "shut"}]
        /\ up' \in [Procs -> Seq(Cells)] /\ reader' \in [Procs -> Seq(Cells)]
        /\ sent' \in [Procs -> Nat] /\ closing' \subseteq Procs
    BY <2>1, EmptyRow DEF Shut
  <2>5. \A p \in Procs : sent'[p] <= Len(outgoing'[p])
    <3>1. ASSUME NEW p \in Procs \ gone PROVE sent'[p] <= Len(outgoing'[p])
      <4>1. Len(outgoing'[p]) >= Len(outgoing[p]) /\ sent'[p] = sent[p] /\ sent[p] <= Len(outgoing[p])
        BY <2>1 DEF Extended
      <4>2. Len(outgoing'[p]) \in Nat /\ Len(outgoing[p]) \in Nat /\ sent[p] \in Nat
        BY <2>1, LenProperties
      <4> QED BY <4>1, <4>2
    <3> QED BY <2>1, <3>1, EmptyRow
  <2>6. controls' \in Seq(Controls) /\ down' \in [Procs -> Seq(Frames)]
    BY <2>1, EmptyRow
  <2>7. phase' \in {"running", "last", "stopped"}
    BY <1>8 DEF EndTurn, LeaveLoop
  <2> QED BY <2>1, <2>2, <2>3, <2>4, <2>5, <2>6, <2>7
<1> QED BY <1>1, <1>2, <1>3, <1>4, <1>5, <1>6, <1>7, <1>8 DEF ReactorStep, Serve

(* Types are kept by every step.                                             *)
LEMMA TypesAreKept ==
  ASSUME TypeOK, ConnectionsAreReal, AssignedOnce, ThreadsAreSupervised, RunsAreOrderly, [Next]_vars
  PROVE  TypeOK'
<1> USE DEF TypeOK
<1>1. CASE \E p \in Procs : ByWorker(Worker(p) \/ SendRest(p) \/ Heartbeat(p) \/ MainStep(p) \/ Die(p))
  <2>1. TransportTypes' /\ WorkerTypes'
    BY <1>1, MainKeepsTypes DEF ByWorker
  <2>2. ReactorTypes'
    BY <1>1 DEF ByWorker, reactorVars, ReactorTypes
  <2> QED BY <2>1, <2>2
<1>2. CASE \E a \in Attempts : ByWorker(ThreadStep(a) \/ CompilerExits(a))
  <2>1. TransportTypes' /\ WorkerTypes'
    BY <1>2, ThreadsKeepTypes DEF ByWorker
  <2>2. ReactorTypes'
    BY <1>2 DEF ByWorker, reactorVars, ReactorTypes
  <2> QED BY <2>1, <2>2
<1>3. CASE ByReactor(ReactorStep)
  <2>1. TransportTypes' /\ ReactorTypes'
    BY <1>3, ReactorKeepsTypes DEF ByReactor
  <2>2. WorkerTypes'
    BY <1>3 DEF ByReactor, workerVars, WorkerTypes
  <2> QED BY <2>1, <2>2
<1>4. CASE \E p \in Procs : ByReactor(Reset(p) /\ UNCHANGED reactorVars)
  <2>1. TransportTypes'
    BY <1>4, EmptyRow DEF ByReactor, Reset, TransportTypes
  <2>2. ReactorTypes' /\ WorkerTypes'
    BY <1>4 DEF ByReactor, workerVars, WorkerTypes, reactorVars, ReactorTypes
  <2> QED BY <2>1, <2>2
<1>5. CASE UNCHANGED vars
  BY <1>5 DEF vars, transportVars, workerVars, reactorVars, TransportTypes, WorkerTypes, ReactorTypes
<1> QED BY <1>1, <1>2, <1>3, <1>4, <1>5 DEF Next
=============================================================================
