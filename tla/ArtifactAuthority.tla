-------------------------- MODULE ArtifactAuthority --------------------------
(***************************************************************************)
(* What the coordinator promises its clients, without workers, sessions,   *)
(* attempts or failures: for one compilation and one generation of it at   *)
(* most one artifact is ever committed, a committed artifact never changes *)
(* or disappears, and a new generation only opens once the current one has *)
(* an artifact.  Coordinator implements it.                                *)
(***************************************************************************)
EXTENDS Naturals

CONSTANTS Compilations, Digests

VARIABLES
    generation,     \* generation[c], 0 before c was first submitted
    committed       \* the set of <<compilation, generation, digest>> committed so far

vars == <<generation, committed>>

HasArtifact(c) == \E d \in Digests : <<c, generation[c], d>> \in committed

Init ==
    /\ generation = [c \in Compilations |-> 0]
    /\ committed = {}

\* A submission opens the first generation of some units and the next one of others.
OpenGenerations(opened) ==
    /\ \A c \in opened : generation[c] = 0 \/ HasArtifact(c)
    /\ generation' = [c \in Compilations |-> IF c \in opened THEN generation[c] + 1
                                                             ELSE generation[c]]
    /\ UNCHANGED committed

Commit(c, d) ==
    /\ generation[c] # 0
    /\ ~HasArtifact(c)
    /\ committed' = committed \cup {<<c, generation[c], d>>}
    /\ UNCHANGED generation

Next ==
    \/ \E opened \in SUBSET Compilations : OpenGenerations(opened)
    \/ \E c \in Compilations, d \in Digests : Commit(c, d)

Spec == Init /\ [][Next]_vars
=============================================================================
