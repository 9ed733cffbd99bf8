------------------------------ MODULE Registry ------------------------------
(***************************************************************************)
(* GenerationRegistry (include/dc/runtime.hpp): the generations that the    *)
(* contents submitted under one id were given.  The coordinator resolves    *)
(* toolchains, targets, specializations, policies, dependency sets and      *)
(* sources through one such slot per id.  Slots are kept in snapshots only: *)
(* a replay of the journal passes their records over.                       *)
(***************************************************************************)
EXTENDS Naturals, Sequences

CONSTANTS Contents,       \* the digests submitted under the id
          HistoryLimit,   \* history_limit_, the contents a slot remembers
          Crashes,        \* the coordinator may end without its last snapshot
          MaxGeneration   \* bound: the generations given

ASSUME RegistryConstants ==
  HistoryLimit \in Nat \ {0} /\ MaxGeneration \in Nat /\ Crashes \in BOOLEAN

VARIABLES by_content,     \* the generation of each remembered content, 0 for the others
          current,        \* the generation resolved last
          order,          \* the remembered contents, oldest first
          saved,          \* by_content and order as the last snapshot has them
          given,          \* history: the pairs of content and generation ever resolved
          lapsed          \* history: an older content was current again, or a crash lost some

vars == <<by_content, current, order, saved, given, lapsed>>

Slot == [by_content |-> by_content, order |-> order]

Init ==
  /\ by_content = [c \in Contents |-> 0]
  /\ current = 0
  /\ order = <<>>
  /\ saved = Slot
  /\ given = {}
  /\ lapsed = FALSE

(* resolve: a known content makes its generation current again.             *)
resolve_known(c) ==
  /\ by_content[c] # 0
  /\ current' = by_content[c]
  /\ given' = given \cup {<<c, by_content[c]>>}
  /\ lapsed' = (lapsed \/ by_content[c] # current)
  /\ UNCHANGED <<by_content, order, saved>>

NextGenerationCounted == Len(order) + 1
NextGeneration == current + 1

(* What is remembered of c with generation g: the oldest makes room.         *)
RememberKeepsGeneration(c, g) ==
  LET longer == Append(order, c)
      full   == Len(longer) > HistoryLimit
  IN /\ by_content' = [by_content EXCEPT ![c] = g]
     /\ order' = IF full THEN Tail(longer) ELSE longer
Remember(c, g) ==
  LET longer == Append(order, c)
      oldest == Head(longer)
      full   == Len(longer) > HistoryLimit
      added  == [by_content EXCEPT ![c] = g]
  IN /\ by_content' = IF full THEN [added EXCEPT ![oldest] = 0] ELSE added
     /\ order' = IF full THEN Tail(longer) ELSE longer

(* resolve: a new content takes the generation after the current one.       *)
resolve_new(c) ==
  /\ by_content[c] = 0
  /\ NextGeneration <= MaxGeneration
  /\ Remember(c, NextGeneration)
  /\ current' = NextGeneration
  /\ given' = given \cup {<<c, NextGeneration>>}
  /\ UNCHANGED <<saved, lapsed>>

\* encode_registry, in a snapshot taken between submissions or by close().
snapshot ==
  /\ saved' = Slot
  /\ UNCHANGED <<by_content, current, order, given, lapsed>>

(* The coordinator ends and open() reads the snapshot back: restore is       *)
(* called for each content in their order, and the highest generation, not   *)
(* the one that was current, becomes the current one.                       *)
RestoredLowest(gens) == {g \in gens \cup {0} : \A h \in gens : g <= h}
Highest(gens) == {g \in gens \cup {0} : \A h \in gens : h <= g}
restore ==
  /\ Crashes \/ saved = Slot
  /\ by_content' = saved.by_content
  /\ order' = saved.order
  /\ current' \in Highest({saved.by_content[c] : c \in Contents})
  /\ lapsed' = (lapsed \/ saved # Slot)
  /\ UNCHANGED <<saved, given>>

Next == snapshot \/ restore \/ \E c \in Contents : resolve_known(c) \/ resolve_new(c)

Spec == Init /\ [][Next]_vars

-----------------------------------------------------------------------------
(* A slot that resolve and restore may leave: order lists the remembered     *)
(* contents once each, and no more than there is room for.                  *)
IsSlot(s) ==
  /\ s.by_content \in [Contents -> Nat]
  /\ s.order \in Seq(Contents) /\ Len(s.order) <= HistoryLimit
  /\ \A i, j \in 1..Len(s.order) : s.order[i] = s.order[j] => i = j
  /\ \A c \in Contents : s.by_content[c] # 0 <=> \E i \in 1..Len(s.order) : s.order[i] = c

(* Eviction, snapshots and restarts keep the two halves of a slot together,   *)
(* and the current generation always has a content: current() finds one     *)
(* whenever something was resolved.                                         *)
SlotHolds ==
  /\ IsSlot(Slot) /\ IsSlot(saved)
  /\ current = 0 <=> order = <<>>
  /\ current = 0 \/ \E c \in Contents : by_content[c] = current

(* "Changed content always resolves to a strictly greater" generation, for  *)
(* as long as nobody goes back to an older content and no crash loses one:   *)
(* eviction and orderly restarts never give one number to two contents.      *)
SteadyNumbersTellContent ==
  ~lapsed => \A p, q \in given : p[2] = q[2] => p[1] = q[1]

(* Content that was forgotten comes back with a higher generation than it     *)
(* ever had, so that what was cached under the old one stays stale.          *)
SteadyForgottenRises ==
  [][\A c \in Contents : resolve_new(c) /\ ~lapsed =>
       \A p \in given : p[1] = c => p[2] < by_content'[c]]_vars

-----------------------------------------------------------------------------
(* Why the steady statements hold: the current generation is the highest      *)
(* ever given, and restoring finds it again.                                 *)
IsSteady ==
  ~lapsed =>
    /\ \A p \in given : p \in Contents \X Nat /\ p[2] <= current
    /\ \A c \in Contents : by_content[c] <= current
    /\ \A c \in Contents : by_content[c] # 0 => <<c, by_content[c]>> \in given
InductiveSlot == SlotHolds /\ IsSteady /\ SteadyNumbersTellContent

=============================================================================
