--------------------------- MODULE MCControlPlane ---------------------------
(***************************************************************************)
(* A finite instance of ControlPlane.                                       *)
(***************************************************************************)
EXTENDS ControlPlane

CompilerFamilies == [a \in Attempts |-> IF a = 1 THEN {"msvc", "nvcc"} ELSE {"synthetic"}]
=============================================================================
