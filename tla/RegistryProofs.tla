--------------------------- MODULE RegistryProofs ---------------------------
(***************************************************************************)
(* Proofs about Registry, for any set of contents and any room.            *)
(***************************************************************************)
EXTENDS Registry, SequenceTheorems, TLAPS

LEMMA SlotOf ==
  ASSUME NEW b \in [Contents -> Nat], NEW o \in Seq(Contents), Len(o) <= HistoryLimit,
         \A i, j \in 1..Len(o) : o[i] = o[j] => i = j,
         \A c \in Contents : b[c] # 0 <=> \E i \in 1..Len(o) : o[i] = c
  PROVE  IsSlot([by_content |-> b, order |-> o])
BY DEF IsSlot

(* What Remember leaves is a slot again, also when the oldest makes room.    *)
LEMMA Remembers ==
  ASSUME IsSlot(Slot), NEW c \in Contents, by_content[c] = 0, NEW g \in Nat \ {0}, Remember(c, g)
  PROVE  /\ IsSlot(Slot)'
         /\ order' # <<>> /\ by_content'[c] = g
         /\ \A d \in Contents \ {c} : by_content'[d] \in {0, by_content[d]}
<1> DEFINE longer == Append(order, c)
           added  == [by_content EXCEPT ![c] = g]
           n      == Len(order)
<1>1. /\ by_content \in [Contents -> Nat]
      /\ order \in Seq(Contents) /\ n \in Nat /\ n <= HistoryLimit
      /\ \A i, j \in 1..n : order[i] = order[j] => i = j
      /\ \A d \in Contents : by_content[d] # 0 <=> \E i \in 1..n : order[i] = d
  BY DEF IsSlot, Slot
<1>2. /\ longer \in Seq(Contents) /\ Len(longer) = n + 1 /\ longer # <<>>
      /\ \A i \in 1..n : longer[i] = order[i]
      /\ longer[n + 1] = c
  BY <1>1, AppendProperties
<1>3. \A i \in 1..n : order[i] # c /\ order[i] \in Contents
  BY <1>1
<1>4. \A i, j \in 1..(n + 1) : longer[i] = longer[j] => i = j
  <2> SUFFICES ASSUME NEW i \in 1..(n + 1), NEW j \in 1..(n + 1), longer[i] = longer[j] PROVE i = j
    OBVIOUS
  <2> \A k \in 1..(n + 1) : k # n + 1 => k \in 1..n
    BY <1>1
  <2>1. CASE i = n + 1 \/ j = n + 1
    <3>1. \A k \in 1..n : longer[k] # c
      BY <1>2, <1>3
    <3> QED BY <2>1, <3>1, <1>2
  <2>2. CASE i # n + 1 /\ j # n + 1
    <3>1. i \in 1..n /\ j \in 1..n
      BY <2>2
    <3>2. order[i] = order[j]
      BY <3>1, <1>2
    <3> QED BY <3>1, <3>2, <1>1
  <2> QED BY <2>1, <2>2
<1>5. /\ added \in [Contents -> Nat] /\ added[c] = g
      /\ \A d \in Contents \ {c} : added[d] = by_content[d]
  BY <1>1
<1>6. \A d \in Contents : added[d] # 0 <=> \E i \in 1..(n + 1) : longer[i] = d
  <2> SUFFICES ASSUME NEW d \in Contents PROVE added[d] # 0 <=> \E i \in 1..(n + 1) : longer[i] = d
    OBVIOUS
  <2>1. CASE d = c
    BY <2>1, <1>1, <1>2, <1>5
  <2>2. CASE d # c
    BY <2>2, <1>1, <1>2, <1>5
  <2> QED BY <2>1, <2>2
<1>7. CASE n + 1 <= HistoryLimit
  <2>1. by_content' = added /\ order' = longer
    BY <1>1, <1>2, <1>7, RegistryConstants DEF Remember
  <2>2. IsSlot([by_content |-> added, order |-> longer])
    <3>1. Len(longer) = n + 1 /\ longer \in Seq(Contents) /\ added \in [Contents -> Nat]
      BY <1>2, <1>5
    <3>2. Len(longer) <= HistoryLimit
      BY <3>1, <1>7
    <3> HIDE DEF longer, added, n
    <3>3. /\ \A i, j \in 1..Len(longer) : longer[i] = longer[j] => i = j
          /\ \A d \in Contents : added[d] # 0 <=> \E i \in 1..Len(longer) : longer[i] = d
      BY <3>1, <1>4, <1>6
    <3> QED BY <3>1, <3>2, <3>3, SlotOf
  <2> QED BY <2>1, <2>2, <1>2, <1>5 DEF Slot
<1>8. CASE ~(n + 1 <= HistoryLimit)
  <2> DEFINE oldest == Head(longer)
             rest   == Tail(longer)
             kept   == [added EXCEPT ![oldest] = 0]
  <2>1. by_content' = kept /\ order' = rest
    <3>1. Len(longer) > HistoryLimit
      BY <1>1, <1>2, <1>8, RegistryConstants
    <3> QED BY <3>1 DEF Remember
  <2>2. n = HistoryLimit /\ n >= 1
    BY <1>1, <1>8, RegistryConstants
  <2>3. oldest = longer[1] /\ oldest = order[1] /\ oldest \in Contents /\ oldest # c
    BY <1>1, <1>2, <1>3, <2>2
  <2>4. rest \in Seq(Contents) /\ Len(rest) = n /\ \A i \in 1..n : rest[i] = longer[i + 1]
    BY <1>2, HeadTailProperties
  <2>5. \A i, j \in 1..n : rest[i] = rest[j] => i = j
    <3> SUFFICES ASSUME NEW i \in 1..n, NEW j \in 1..n, rest[i] = rest[j] PROVE i = j
      OBVIOUS
    <3>1. i + 1 \in 1..(n + 1) /\ j + 1 \in 1..(n + 1)
      BY <1>1
    <3>2. longer[i + 1] = longer[j + 1]
      BY <2>4
    <3>3. i + 1 = j + 1
      BY <3>1, <3>2, <1>4
    <3> QED BY <3>3
  <2>6. kept \in [Contents -> Nat] /\ kept[oldest] = 0 /\ \A d \in Contents \ {oldest} : kept[d] = added[d]
    BY <2>3, <1>5
  <2>7. \A d \in Contents : kept[d] # 0 <=> \E i \in 1..n : rest[i] = d
    <3> SUFFICES ASSUME NEW d \in Contents PROVE kept[d] # 0 <=> \E i \in 1..n : rest[i] = d
      OBVIOUS
    <3>1. CASE d = oldest
      <4>1. ASSUME NEW i \in 1..n, rest[i] = d PROVE FALSE
        <5>1. longer[i + 1] = longer[1] /\ i + 1 \in 1..(n + 1) /\ 1 \in 1..(n + 1)
          BY <4>1, <3>1, <2>3, <2>4, <1>1
        <5>2. i + 1 = 1
          BY <5>1, <1>4
        <5> QED BY <5>2
      <4> QED BY <4>1, <3>1, <2>6
    <3>2. CASE d # oldest
      <4>1. ASSUME added[d] # 0 PROVE \E i \in 1..n : rest[i] = d
        <5>1. PICK k \in 1..(n + 1) : longer[k] = d
          BY <4>1, <1>6
        <5>2. k # 1
          BY <5>1, <3>2, <2>3
        <5>3. k - 1 \in 1..n /\ rest[k - 1] = longer[(k - 1) + 1]
          BY <5>1, <5>2, <2>4, <1>1
        <5>4. rest[k - 1] = d
          BY <5>1, <5>3
        <5> QED BY <5>3, <5>4
      <4>2. ASSUME NEW i \in 1..n, rest[i] = d PROVE added[d] # 0
        <5>1. i + 1 \in 1..(n + 1) /\ longer[i + 1] = d
          BY <4>2, <2>4, <1>1
        <5> QED BY <5>1, <1>6
      <4> QED BY <4>1, <4>2, <3>2, <2>6
    <3> QED BY <3>1, <3>2
  <2>8. IsSlot([by_content |-> kept, order |-> rest])
    <3>1. Len(rest) = n /\ rest \in Seq(Contents) /\ kept \in [Contents -> Nat]
      BY <2>4, <2>6
    <3>2. Len(rest) <= HistoryLimit
      BY <3>1, <1>1
    <3> HIDE DEF kept, rest, oldest, added, longer, n
    <3>3. /\ \A i, j \in 1..Len(rest) : rest[i] = rest[j] => i = j
          /\ \A d \in Contents : kept[d] # 0 <=> \E i \in 1..Len(rest) : rest[i] = d
      BY <3>1, <2>5, <2>7
    <3> QED BY <3>1, <3>2, <3>3, SlotOf
  <2>9. rest # <<>>
    BY <2>2, <2>4
  <2>10. kept[c] = g /\ \A d \in Contents \ {c} : kept[d] \in {0, by_content[d]}
    BY <2>3, <2>6, <1>5
  <2> QED BY <2>1, <2>8, <2>9, <2>10 DEF Slot
<1> QED BY <1>7, <1>8

(* Some content has the highest generation, unless there is none.           *)
LEMMA HighestIsOfContent ==
  ASSUME NEW s, IsSlot(s), NEW g \in Highest({s.by_content[c] : c \in Contents})
  PROVE  /\ g \in Nat
         /\ \A c \in Contents : s.by_content[c] <= g
         /\ g = 0 \/ \E c \in Contents : s.by_content[c] = g
         /\ g = 0 <=> s.order = <<>>
<1>1. /\ g \in {s.by_content[c] : c \in Contents} \cup {0}
      /\ \A c \in Contents : s.by_content[c] <= g
  BY DEF Highest
<1>2. s.by_content \in [Contents -> Nat] /\ s.order \in Seq(Contents)
  BY DEF IsSlot
<1>3. g \in Nat /\ (g = 0 \/ \E c \in Contents : s.by_content[c] = g)
  BY <1>1, <1>2
<1>4. ASSUME s.order = <<>> PROVE g = 0
  <2>1. 1..Len(s.order) = {}
    BY <1>4
  <2>2. \A c \in Contents : s.by_content[c] = 0
    BY <2>1 DEF IsSlot
  <2> QED BY <2>2, <1>3
<1>5. ASSUME s.order # <<>> PROVE g # 0
  <2>1. 1 \in 1..Len(s.order) /\ s.order[1] \in Contents
    BY <1>5, <1>2
  <2>2. s.by_content[s.order[1]] # 0
    BY <2>1 DEF IsSlot
  <2> QED BY <2>1, <2>2, <1>1, <1>2, <1>3
<1> QED BY <1>1, <1>3, <1>4, <1>5

LEMMA HasOrder ==
  ASSUME NEW s, IsSlot(s), NEW c \in Contents, s.by_content[c] # 0 PROVE s.order # <<>>
<1>1. PICK i \in 1..Len(s.order) : s.order[i] = c
  BY DEF IsSlot
<1> QED BY <1>1

LEMMA SlotStarts == Init => InductiveSlot
<1> SUFFICES ASSUME Init PROVE InductiveSlot
  OBVIOUS
<1>1. IsSlot(Slot) /\ saved = Slot /\ current = 0 /\ order = <<>>
  BY RegistryConstants DEF Init, IsSlot, Slot
<1>2. IsSteady /\ SteadyNumbersTellContent
  BY DEF Init, IsSteady, SteadyNumbersTellContent
<1> QED BY <1>1, <1>2 DEF InductiveSlot, SlotHolds

(* The generation a new content takes is one.                               *)
LEMMA NewGeneration ==
  ASSUME SlotHolds PROVE NextGeneration \in Nat \ {0} /\ NextGeneration > current /\ current \in Nat
<1>1. current \in Nat
  <2>1. by_content \in [Contents -> Nat]
    BY DEF SlotHolds, IsSlot, Slot
  <2> QED BY <2>1 DEF SlotHolds
<1> QED BY <1>1 DEF NextGeneration

LEMMA KnownKeepsSlot ==
  ASSUME InductiveSlot, NEW c \in Contents, resolve_known(c) PROVE InductiveSlot'
<1> USE DEF InductiveSlot
<1>1. by_content \in [Contents -> Nat] /\ by_content[c] # 0
  BY DEF SlotHolds, IsSlot, Slot, resolve_known
<1>2. current' = by_content[c] /\ UNCHANGED <<by_content, order, saved>>
  BY DEF resolve_known
<1>3. order # <<>>
  BY <1>1, HasOrder DEF SlotHolds, Slot
<1>4. SlotHolds'
  BY <1>1, <1>2, <1>3 DEF SlotHolds, IsSlot, Slot
<1>5. ASSUME ~lapsed' PROVE given' = given /\ current' = current /\ ~lapsed
  BY <1>1, <1>5 DEF resolve_known, IsSteady
<1>6. IsSteady'
  BY <1>2, <1>5 DEF IsSteady
<1>7. SteadyNumbersTellContent'
  BY <1>5 DEF SteadyNumbersTellContent
<1> QED BY <1>4, <1>6, <1>7

LEMMA NewKeepsSlot ==
  ASSUME InductiveSlot, NEW c \in Contents, resolve_new(c) PROVE InductiveSlot'
<1> USE DEF InductiveSlot
<1> DEFINE g == NextGeneration
<1>1. g \in Nat \ {0} /\ g > current /\ current \in Nat
  BY NewGeneration
<1>2. by_content[c] = 0 /\ Remember(c, g) /\ current' = g /\ given' = given \cup {<<c, g>>}
      /\ saved' = saved /\ lapsed' = lapsed
  BY DEF resolve_new
<1> HIDE DEF g
<1>3. /\ IsSlot(Slot)' /\ order' # <<>> /\ by_content'[c] = g
      /\ \A d \in Contents \ {c} : by_content'[d] \in {0, by_content[d]}
  BY <1>1, <1>2, Remembers DEF SlotHolds
<1>4. SlotHolds'
  BY <1>1, <1>2, <1>3 DEF SlotHolds
<1>5. ASSUME ~lapsed' PROVE \A p \in given : p \in Contents \X Nat /\ p[2] <= current
  BY <1>2, <1>5 DEF IsSteady
<1>6. IsSteady'
  <2> SUFFICES ASSUME ~lapsed'
               PROVE  /\ \A p \in given' : p \in Contents \X Nat /\ p[2] <= current'
                      /\ \A d \in Contents : by_content'[d] <= current'
                      /\ \A d \in Contents : by_content'[d] # 0 => <<d, by_content'[d]>> \in given'
    BY DEF IsSteady
  <2>1. \A p \in given : p \in Contents \X Nat /\ p[2] <= g
    BY <1>1, <1>5
  <2>2. <<c, g>> \in Contents \X Nat /\ <<c, g>>[2] <= g
    BY <1>1
  <2>3. \A d \in Contents : by_content[d] \in Nat /\ by_content[d] <= current
    BY <1>2 DEF SlotHolds, IsSlot, Slot, IsSteady
  <2>4. \A d \in Contents : by_content'[d] <= g
    <3> SUFFICES ASSUME NEW d \in Contents PROVE by_content'[d] <= g
      OBVIOUS
    <3>1. by_content'[d] \in {0, by_content[d]} \/ by_content'[d] = g
      BY <1>3
    <3> QED BY <3>1, <2>3, <1>1
  <2>5. \A d \in Contents : by_content'[d] # 0 => <<d, by_content'[d]>> \in given'
    <3> SUFFICES ASSUME NEW d \in Contents, by_content'[d] # 0 PROVE <<d, by_content'[d]>> \in given'
      OBVIOUS
    <3>1. CASE d = c
      BY <3>1, <1>2, <1>3
    <3>2. CASE d # c
      BY <3>2, <1>2, <1>3 DEF IsSteady
    <3> QED BY <3>1, <3>2
  <2> QED BY <2>1, <2>2, <2>4, <2>5, <1>2
<1>7. SteadyNumbersTellContent'
  <2> SUFFICES ASSUME ~lapsed', NEW p \in given', NEW q \in given', p[2] = q[2] PROVE p[1] = q[1]
    BY DEF SteadyNumbersTellContent
  <2>1. \A r \in given : r[2] # g
    BY <1>1, <1>5
  <2>2. \A r \in given' : r \in given \/ r = <<c, g>>
    BY <1>2
  <2>3. CASE p \in given /\ q \in given
    BY <2>3, <1>2 DEF SteadyNumbersTellContent
  <2>4. CASE p = <<c, g>> \/ q = <<c, g>>
    BY <2>1, <2>2, <2>4
  <2> QED BY <2>2, <2>3, <2>4
<1> QED BY <1>4, <1>6, <1>7

LEMMA RestoreKeepsSlot == ASSUME InductiveSlot, restore PROVE InductiveSlot'
<1> USE DEF InductiveSlot
<1>1. by_content' = saved.by_content /\ order' = saved.order /\ UNCHANGED <<saved, given>>
  BY DEF restore
<1>2. IsSlot(saved) /\ current' \in Highest({saved.by_content[c] : c \in Contents})
  BY DEF restore, SlotHolds
<1>3. /\ current' \in Nat
      /\ \A c \in Contents : saved.by_content[c] <= current'
      /\ current' = 0 \/ \E c \in Contents : saved.by_content[c] = current'
      /\ current' = 0 <=> saved.order = <<>>
  BY <1>2, HighestIsOfContent
<1>4. IsSlot(Slot)'
  BY <1>1, <1>2 DEF IsSlot, Slot
<1>5. SlotHolds'
  BY <1>1, <1>2, <1>3, <1>4 DEF SlotHolds
<1>6. ASSUME ~lapsed' PROVE ~lapsed /\ by_content' = by_content /\ current' = current
  <2>1. ~lapsed /\ saved.by_content = by_content /\ saved.order = order
    <3>1. ~lapsed /\ saved = Slot
      BY <1>6, Zenon DEF restore
    <3> QED BY <3>1 DEF Slot
  <2>2. by_content \in [Contents -> Nat] /\ \A c \in Contents : by_content[c] <= current
    BY <2>1 DEF SlotHolds, IsSlot, Slot, IsSteady
  <2>3. current \in Nat
    BY NewGeneration
  <2>4. CASE current = 0
    BY <2>1, <2>4, <1>1, <1>3 DEF SlotHolds
  <2>5. CASE current # 0
    <3>1. PICK c \in Contents : by_content[c] = current
      BY <2>5 DEF SlotHolds
    <3>2. current <= current'
      BY <3>1, <2>1, <1>3
    <3>3. current' <= current
      BY <2>1, <2>2, <2>3, <1>3
    <3> QED BY <2>1, <2>3, <3>2, <3>3, <1>1, <1>3
  <2> QED BY <2>1, <2>4, <2>5, <1>1
<1>7. IsSteady' /\ SteadyNumbersTellContent'
  BY <1>1, <1>6 DEF IsSteady, SteadyNumbersTellContent
<1> QED BY <1>5, <1>7

LEMMA SlotGoesOn == InductiveSlot /\ [Next]_vars => InductiveSlot'
<1> SUFFICES ASSUME InductiveSlot, [Next]_vars PROVE InductiveSlot'
  OBVIOUS
<1>1. CASE snapshot
  <2>1. saved' = Slot /\ UNCHANGED <<by_content, order, current, given, lapsed>>
    BY <1>1 DEF snapshot
  <2>2. IsSlot(Slot)' /\ IsSlot(saved)'
    BY <2>1 DEF InductiveSlot, SlotHolds, IsSlot, Slot
  <2> QED BY <2>1, <2>2 DEF InductiveSlot, SlotHolds, IsSteady, SteadyNumbersTellContent
<1>2. CASE restore
  BY <1>2, RestoreKeepsSlot
<1>3. CASE \E c \in Contents : resolve_known(c) \/ resolve_new(c)
  BY <1>3, KnownKeepsSlot, NewKeepsSlot
<1>4. CASE UNCHANGED vars
  BY <1>4 DEF vars, InductiveSlot, SlotHolds, IsSlot, Slot, IsSteady, SteadyNumbersTellContent
<1> QED BY <1>1, <1>2, <1>3, <1>4 DEF Next

(* The inductive invariant of a slot: its two halves agree, and while nobody  *)
(* went back and no crash lost a content, the current generation is the      *)
(* highest ever given.                                                      *)
THEOREM SlotInvariant == Spec => []InductiveSlot
<1> QED BY SlotStarts, SlotGoesOn, PTL DEF Spec

(* resolve's eviction, the snapshots and restore keep order and by_content   *)
(* together, for any number of contents and any room.                       *)
THEOREM SlotsHold == Spec => []SlotHolds
<1>1. InductiveSlot => SlotHolds
  BY DEF InductiveSlot
<1> QED BY <1>1, SlotInvariant, PTL

(* GenerationRegistry's "changed content always resolves to a strictly       *)
(* greater" generation, for every history without a return or a loss.        *)
THEOREM NumbersTellContent == Spec => []SteadyNumbersTellContent
<1>1. InductiveSlot => SteadyNumbersTellContent
  BY DEF InductiveSlot
<1> QED BY <1>1, SlotInvariant, PTL

(* Content that resolve forgot comes back with a generation above all it had, *)
(* in every such history.                                                   *)
THEOREM ForgottenRises == Spec => SteadyForgottenRises
<1>1. ASSUME InductiveSlot, NEW c \in Contents, resolve_new(c), ~lapsed, NEW p \in given
      PROVE  p[2] < by_content'[c]
  <2>1. p[2] \in Nat /\ p[2] <= current
    BY <1>1 DEF InductiveSlot, IsSteady
  <2>2. NextGeneration \in Nat \ {0} /\ NextGeneration > current /\ current \in Nat
    BY <1>1, NewGeneration DEF InductiveSlot
  <2>3. by_content'[c] = NextGeneration
    BY <1>1, <2>2, Remembers DEF InductiveSlot, SlotHolds, resolve_new
  <2> QED BY <2>1, <2>2, <2>3
<1>2. InductiveSlot /\ [Next]_vars =>
        [\A c \in Contents : resolve_new(c) /\ ~lapsed => \A p \in given : p[1] = c => p[2] < by_content'[c]]_vars
  BY <1>1
<1> QED BY <1>2, SlotInvariant, PTL DEF Spec, SteadyForgottenRises

=============================================================================
