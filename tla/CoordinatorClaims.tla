--------------------------- MODULE CoordinatorClaims ---------------------------
(***************************************************************************)
(* A statement the repository makes about the coordinator that the code    *)
(* does not keep; the counterexample of its run shows how it fails.        *)
(***************************************************************************)
EXTENDS CoordinatorLiveness

Commits(a) == attempts[a].state # "Committed" /\ attempts'[a].state = "Committed"

\* README, worker restart: "late completion from the old boot is refused with
\* StaleWorkerBoot".  expectation_for takes the boot from the attempt itself, and
\* a registration leaves the session of the old boot as it is.
OldBootNeverCommits ==
    [][\A a \in AttemptIds : Commits(a) => workers[attempts[a].worker].boot = attempts[a].boot]_vars

=============================================================================
