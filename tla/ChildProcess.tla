---------------------------- MODULE ChildProcess ----------------------------
(***************************************************************************)
(* One compiler run per attempt: run_compile_unit and the adapters         *)
(* (src/compiler.cpp) over a supervised child process (the Windows half of  *)
(* src/process.cpp; the other half refers to a member it does not declare   *)
(* and cannot be built).  Command lines, paths and captured text are left   *)
(* out.                                                                     *)
(***************************************************************************)
EXTENDS Transport

CONSTANT Families         \* the compiler families each attempt may be assigned with

\* Those that discovery finds (compiler.cpp); "other" has no adapter and is not among them.
ASSUME FamiliesDiscovered == Families \in [Attempts -> SUBSET {"msvc", "nvcc", "synthetic"}]

VARIABLES run,            \* the run of each attempt
          cancel          \* its cancel flag, shared with the worker's threads

childVars == <<run, cancel>>

Idle == [pc |-> "none", family |-> "none", child |-> "none", exit |-> 1, job |-> FALSE,
         helper |-> FALSE, timedOut |-> FALSE, stop |-> FALSE, artifact |-> FALSE,
         made |-> FALSE, code |-> "none"]

ChildInit ==
  /\ run = [a \in Attempts |-> Idle]
  /\ cancel = [a \in Attempts |-> FALSE]

Running(a) == run[a].child = "running"

(* The adapter returns.  Nothing is left of the run but a child that runs on *)
(* and, for the properties, whether an artifact was made the proper way.    *)
Made(r) == r.artifact /\ (r.family = "synthetic" \/ (r.child = "exited" /\ r.exit = 0))
Forgotten(r) ==
  [Idle EXCEPT !.made = r.made \/ Made(r), !.child = IF r.child = "running" THEN "running" ELSE "none"]
Finished(r, code) == [Forgotten(r) EXCEPT !.pc = "finished", !.code = code]
\* The synthetic adapter makes its artifact without a process and looks at no flag.
Synthesized(r) == Finished([r EXCEPT !.artifact = TRUE], "Ok")

(* select_adapter and what the adapter does before it starts the compiler.  *)
(* A family without an adapter is answered with a result that says it        *)
(* failed, in a Status that says it did not; dc_worker advertises no such    *)
(* family.                                                                  *)
Prepare(a) ==
  LET r == run[a]
  IN /\ r.pc = "prepare"
     /\ run' = [run EXCEPT ![a] =
          CASE r.family = "other" -> Finished(r, "Ok")
            [] r.family = "synthetic" -> Synthesized(r)
            [] OTHER -> [r EXCEPT !.pc = "start"]]
     /\ UNCHANGED cancel

(* An unproven compiler, a toolchain without its directory, a workspace or   *)
(* an input that cannot be written, an output kind the compiler has not.    *)
PrepareFails(a) ==
  /\ run[a].pc = "prepare" /\ run[a].family \in {"msvc", "nvcc"}
  /\ run' = [run EXCEPT ![a] = Finished(@, "Unknown")]
  /\ UNCHANGED cancel

(* ChildProcess::start.  The job object may be refused; the child then runs *)
(* without one.                                                             *)
start(a) ==
  /\ run[a].pc = "start"
  /\ \E inJob \in BOOLEAN :
       run' = [run EXCEPT ![a].pc = "wait", ![a].child = "running", ![a].job = inJob]
  /\ UNCHANGED cancel

StartFails(a) ==
  /\ run[a].pc = "start"
  /\ run' = [run EXCEPT ![a] = Finished(@, "IoError")]
  /\ UNCHANGED cancel

(* The compiler leaves, with or without its artifact; a helper process it    *)
(* started may stay and hold the output pipes.                              *)
Exit(a) ==
  /\ Running(a) /\ run[a].pc # "none"
  /\ \E status \in {0, 1}, made, helper \in BOOLEAN :
       /\ status = 1 => ~made
       /\ run' = [run EXCEPT ![a].child = "exited", ![a].exit = status, ![a].artifact = made,
                             ![a].helper = helper]
  /\ UNCHANGED cancel

\* So does one whose worker was killed.
OrphanExits(a) ==
  /\ Running(a) /\ run[a].pc = "none"
  /\ run' = [run EXCEPT ![a].child = "none"]
  /\ UNCHANGED cancel

(* The wait loop: the flag first, then the process, then the deadline.  A    *)
(* wait left through the flag or the deadline ends as timed out.            *)
WaitEnds(a) ==
  /\ run[a].pc = "wait" /\ run[a].child = "exited"
  /\ run' = [run EXCEPT ![a].pc = "collect"]
  /\ UNCHANGED cancel

WaitGivesUp(a) ==
  /\ run[a].pc = "wait" /\ (cancel[a] \/ Running(a))
  /\ run' = [run EXCEPT ![a].pc = "kill", ![a].timedOut = TRUE]
  /\ UNCHANGED cancel

(* terminate: the job with every process in it, or the compiler alone, which *)
(* may have left by itself since the wait ended.  What a terminated compiler *)
(* has written of its artifact stays in the workspace.                      *)
TerminatedWithZero(r, partial) ==
  [r EXCEPT !.child = IF @ = "running" THEN "terminated" ELSE @,
            !.exit = IF r.child = "running" THEN 0 ELSE @,
            !.artifact = IF r.child = "running" THEN partial ELSE @,
            !.helper = @ /\ ~r.job]
Terminated(r, partial) ==
  [r EXCEPT !.child = IF @ = "running" THEN "terminated" ELSE @,
            !.exit = IF r.child = "running" THEN 1 ELSE @,
            !.artifact = IF r.child = "running" THEN partial ELSE @,
            !.helper = @ /\ ~r.job]

terminate(a) ==
  /\ run[a].pc = "kill"
  /\ \E partial \in BOOLEAN :
       run' = [run EXCEPT ![a] = [Terminated(@, partial) EXCEPT !.pc = "collect"]]
  /\ UNCHANGED cancel

(* The end of wait: closing the job ends what is left in it, the stop event  *)
(* ends the readers, and then they are joined.                              *)
ClosedWithoutStop(r) == [r EXCEPT !.job = FALSE, !.helper = @ /\ ~r.job]
Closed(r) == [r EXCEPT !.job = FALSE, !.helper = @ /\ ~r.job, !.stop = TRUE]

\* read_pipe_bounded returns at the end of the pipe or at the stop event.  It
\* looks at the event only while a read is pending: helpers are taken to pause,
\* for one that never stops writing would hold the join.
ReaderEnds(r) == r.stop \/ (r.child # "running" /\ ~r.helper)

(* What the adapters make of the process's result; only the first asks       *)
(* whether it timed out.                                                    *)
NvccOutcome(r) ==
  CASE r.exit # 0 -> "ValidationFailure"
    [] r.exit = 0 /\ ~r.artifact -> "ArtifactMissing"
    [] OTHER -> "Ok"
MsvcOutcome(r) == IF r.timedOut THEN "Timeout" ELSE NvccOutcome(r)
Outcome(r) == IF r.family = "msvc" THEN MsvcOutcome(r) ELSE NvccOutcome(r)

collect(a) ==
  LET closed == Closed(run[a])
  IN /\ run[a].pc = "collect" /\ ReaderEnds(closed)
     /\ run' = [run EXCEPT ![a] = Finished(closed, Outcome(closed))]
     /\ UNCHANGED cancel

ChildStep(a) ==
  \/ Prepare(a) \/ PrepareFails(a)
  \/ start(a) \/ StartFails(a)
  \/ WaitEnds(a) \/ WaitGivesUp(a)
  \/ terminate(a) \/ collect(a)

=============================================================================
