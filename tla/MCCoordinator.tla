---------------------------- MODULE MCCoordinator ----------------------------
(***************************************************************************)
(* Finite instances of Coordinator.                                        *)
(***************************************************************************)
EXTENDS CoordinatorClaims, TLC

CONSTANTS u, o, l, w1, w2, d1, d2   \* model values

NoChildren == [c \in Compilations |-> {}]
LinkChildren == [c \in Compilations |-> IF c = l THEN {o} ELSE {}]

Symmetry == Permutations(Workers) \cup Permutations(Digests)
=============================================================================
