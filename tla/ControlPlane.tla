---------------------------- MODULE ControlPlane ----------------------------
(***************************************************************************)
(* The coordinator process, the worker processes with their compilers, and *)
(* the connections between them.  Worker processes may be killed and        *)
(* connections may break at any moment.                                     *)
(***************************************************************************)
EXTENDS WorkerProcess, Reactor

vars == <<transportVars, workerVars, reactorVars>>

Init == TransportInit /\ WorkerInit /\ ReactorInit

\* Nothing listens once the coordinator has stopped.
Worker(p) == Start(p) /\ phase # "stopped"

ByWorker(A) == A /\ UNCHANGED reactorVars
ByReactor(A) == A /\ UNCHANGED workerVars

Next ==
  \/ \E p \in Procs : ByWorker(Worker(p) \/ SendRest(p) \/ Heartbeat(p) \/ MainStep(p) \/ Die(p))
  \/ \E a \in Attempts : ByWorker(ThreadStep(a) \/ CompilerExits(a))
  \/ ByReactor(ReactorStep)
  \/ \E p \in Procs : ByReactor(Reset(p) /\ UNCHANGED reactorVars)

(* The reactor keeps turning, and so does each live worker with its threads; *)
(* a wait for a compiler ends at its deadline.  Every step uses up a frame,  *)
(* a timer or a part of a compile, so that running on is also coming to      *)
(* every socket and every thread.  Nothing is assumed of compilers, clients  *)
(* or failures.                                                              *)
Fairness ==
  /\ WF_vars(ByReactor(EndTurn \/ LeaveLoop \/ \E p \in Procs : Serve(p)))
  /\ \A p \in Procs :
       WF_vars(ByWorker(SendRest(p) \/ MainStep(p) \/ \E a \in Attempts : owner[a] = p /\ ThreadStep(a)))

Spec == Init /\ [][Next]_vars /\ Fairness

-----------------------------------------------------------------------------

(* A frame, a cell of one that encode_frame let through, and the run of a     *)
(* compiler.                                                                *)
Ops == {"None", "Malformed", "RegisterWorker", "Registered", "WorkerReady", "Heartbeat", "Assign",
        "BeginCompile", "ReportOutput", "FailAttempt", "CancelAttempt", "Shutdown"}
Frames == [op : Ops, attempt : Attempts \cup {NoAttempt}, commit : {0}, parts : Nat \ {0}]
Cells == {c \in [frame : Frames, part : Nat \ {0}] : c.part <= c.frame.parts /\ Payload(c.frame) <= MaxFrame}
Runs == [pc : {"none", "prepare", "start", "wait", "kill", "collect", "finished"},
         family : {"none", "msvc", "nvcc", "synthetic"},
         child : {"none", "running", "exited", "terminated"}, exit : {0, 1}, job : BOOLEAN,
         helper : BOOLEAN, timedOut : BOOLEAN, stop : BOOLEAN, artifact : BOOLEAN, made : BOOLEAN,
         code : {"none", "Ok", "Unknown", "IoError", "Timeout", "ValidationFailure", "ArtifactMissing"}]
AttemptRecords == [state : {"absent", "assigned", "reported", "failed", "lost"},
                   with : Procs \cup {Nobody}, beaten : BOOLEAN, unread : BOOLEAN]
Controls == [op : {"CancelAttempt", "Shutdown"}, attempt : Attempts \cup {NoAttempt}, to : Procs \cup {Nobody}]

TransportTypes ==
  /\ up \in [Procs -> Seq(Cells)]
  /\ down \in [Procs -> Seq(Frames)]
  /\ link \in [Procs -> {"none", "pending", "open", "reset", "shut"}]

WorkerTypes ==
  /\ main \in [Procs -> {"off", "receiving", "draining", "stopped", "dead"}]
  /\ owner \in [Attempts -> Procs \cup {NoProc}]
  /\ thread \in [Attempts -> {"none", "begin", "compile", "send", "sent", "done"}]
  /\ verdict \in [Attempts -> Frames]
  /\ sending \in [Procs -> Seq(Cells)]
  /\ beats \in [Procs -> Nat]
  /\ dropped \subseteq Attempts
  /\ run \in [Attempts -> Runs]
  /\ cancel \in [Attempts -> BOOLEAN]

ReactorTypes ==
  /\ phase \in {"running", "last", "stopped"}
  /\ reader \in [Procs -> Seq(Cells)]
  /\ outgoing \in [Procs -> Seq(Frames)]
  /\ sent \in [Procs -> Nat] /\ \A p \in Procs : sent[p] <= Len(outgoing[p])
  /\ closing \subseteq Procs
  /\ session \in [Procs -> {"none", "registered", "ready", "closed"}]
  /\ attempt \in [Attempts -> AttemptRecords]
  /\ controls \in Seq(Controls)

(* What was sent never exceeds what is queued, whatever the two ends do in    *)
(* between.                                                                 *)
TypeOK == TransportTypes /\ WorkerTypes /\ ReactorTypes

(* The stream a coordinator reads from a worker is a row of whole frames,    *)
(* whichever threads wrote it and however it was cut up on the way; only the *)
(* last may be short, while its sender still holds send_mutex or is gone.    *)
(* (A connection that is closing has stopped reading.)                       *)
FramesStayWhole ==
  \A p \in Procs \ closing :
    LET stream == reader[p] \o up[p]
        rest == IF Len(stream) = 0 THEN <<>> ELSE
                  SubSeq(encode_frame(Last(stream).frame), Last(stream).part + 1, Last(stream).frame.parts)
    IN /\ \A i \in 1..Len(stream) :
            stream[i].part > 1 => i > 1 /\ stream[i - 1] = [frame |-> stream[i].frame, part |-> stream[i].part - 1]
       /\ \A i \in 1..(Len(stream) - 1) : stream[i + 1].part = 1 => stream[i].part = stream[i].frame.parts
       /\ Usable(p) => sending[p] = rest

(* An output is accepted only of a compiler that ended by itself with        *)
(* success: never of one that was terminated at its deadline, by a           *)
(* cancellation or with its worker, however much it had written.             *)
ReportIsCleanlyBuilt == \A a \in Attempts : attempt[a].state = "reported" => run[a].made

(* The coordinator counts an attempt as in flight at least as long as it is  *)
(* being compiled, so a worker never compiles more at a time than it said it *)
(* would, also when attempts fail or their reports are dropped.              *)
CapacityIsKept ==
  \A p \in Procs : Alive(p) => Cardinality({a \in Active(p) : thread[a] \in {"begin", "compile"}}) <= MaxInflight

(* A worker that stops leaves no compiler behind, and one that is killed      *)
(* leaves none that could be put in a job.                                   *)
NoOrphans ==
  \A a \in Attempts : owner[a] # NoProc /\ run[a].child = "running" =>
    /\ main[owner[a]] # "stopped"
    /\ main[owner[a]] = "dead" => ~run[a].job


(* A worker whose connection ends stops, whatever its compilers and their     *)
(* helper processes do.                                                      *)
WorkersStop ==
  \A p \in Procs : main[p] = "receiving" /\ ~Usable(p) ~> main[p] \in {"stopped", "dead"}

-----------------------------------------------------------------------------
(* What a worker does with an attempt, and the delegation that the three      *)
(* kinds of process make together.                                          *)
Work(a) ==
  CASE thread[a] = "none" -> "none"
    [] thread[a] \in {"begin", "compile"} -> "underway"
    [] OTHER -> "over"

Contract == INSTANCE Delegation WITH
  Tasks <- Attempts,
  Workers <- Procs,
  outcome <- [a \in Attempts |-> attempt[a].state],
  holder <- [a \in Attempts |-> attempt[a].with],
  work <- [a \in Attempts |-> Work(a)],
  made <- [a \in Attempts |-> run[a].made],
  gone <- {p \in Procs : session[p] = "closed"}

(* An attempt is compiled once at most, by the worker it was assigned to, and *)
(* its outcome is settled once: by a verdict of that worker after its compile *)
(* is over, or by the loss of the session; after that nothing a worker still  *)
(* does or has sent counts, whatever is killed, cut off or late.             *)
ImplementsDelegation == Contract!Spec

-----------------------------------------------------------------------------
(***************************************************************************)
(* Why they hold: the parts of an inductive invariant.                      *)
(***************************************************************************)

(* A connection is as old as its process, and what is queued or registered   *)
(* belongs to one that is there.                                            *)
ConnectionsAreReal ==
  \A p \in Procs :
    /\ link[p] = "none" <=> main[p] = "off"
    /\ link[p] = "none" => up[p] = <<>> /\ reader[p] = <<>> /\ sending[p] = <<>>
    /\ ~Connected(p) => outgoing[p] = <<>> /\ sent[p] = 0 /\ session[p] \notin {"registered", "ready"}
    /\ p \in closing => Connected(p)
    /\ session[p] = "closed" => link[p] = "shut"

(* What is on its way to a worker.  A send moves it and changes nothing.     *)
OnTheWay(p) == down[p] \o SubSeq(outgoing[p], sent[p] + 1, Len(outgoing[p]))

(* An attempt is handed out once: its assignment is on its way to the worker *)
(* it is with, in one copy and before there is a thread for it.             *)
AssignedOnce ==
  /\ \A p \in Procs : \A i \in 1..Len(OnTheWay(p)) :
       OnTheWay(p)[i].op = "Assign" =>
         LET a == OnTheWay(p)[i].attempt
         IN /\ a \in Attempts /\ thread[a] = "none"
            /\ attempt[a].state \in {"assigned", "lost"} /\ attempt[a].with = p
            /\ \A j \in 1..Len(OnTheWay(p)) :
                 OnTheWay(p)[j].op = "Assign" /\ OnTheWay(p)[j].attempt = a => j = i
  /\ \A a \in Attempts : thread[a] # "none" => attempt[a].state # "absent" /\ attempt[a].with = owner[a]

(* A thread and the compiler it waits for live and end together, except for  *)
(* the compiler of a killed worker that is in no job.                       *)
ThreadsAreSupervised ==
  \A a \in Attempts :
    /\ thread[a] = "none" <=> owner[a] = NoProc
    /\ thread[a] \in {"begin", "compile", "send", "sent"} => Alive(owner[a])
    /\ run[a].pc = "none" <=> thread[a] # "compile"
    /\ run[a].pc = "none" /\ run[a].child # "none" =>
         run[a].child = "running" /\ ~run[a].job /\ thread[a] = "done" /\ main[owner[a]] = "dead"

(* What a run has come to, at each point of run_compile_unit.                *)
IsOrderly(r) ==
  /\ r.pc = "none" => ~r.artifact
  /\ r.pc \in {"prepare", "start", "finished"} => r.child = "none"
  /\ r.pc \in {"wait", "kill"} => r.child \in {"running", "exited"}
  /\ r.pc = "collect" => r.child \in {"exited", "terminated"}
  /\ r.pc = "prepare" => r.family # "none"
  /\ r.pc \in {"start", "wait", "kill", "collect"} => r.family \in {"msvc", "nvcc"}
  /\ r.child = "terminated" => r.exit = 1
  /\ r.pc = "finished" /\ r.code = "Ok" => r.made

RunsAreOrderly ==
  \A a \in Attempts : IsOrderly(run[a]) /\ (thread[a] = "begin" => run[a].family # "none")

(* A verdict is on the wire only once its thread is past the compile, and an  *)
(* output only of a proper run.                                             *)
IsVerdict(f) == f.op \in {"ReportOutput", "FailAttempt"}
Settled ==
  {c \in Cells : IsVerdict(c.frame) =>
     /\ c.frame.attempt \in Attempts /\ thread[c.frame.attempt] \in {"sent", "done"}
     /\ c.frame.op = "ReportOutput" => run[c.frame.attempt].made}

VerdictsAreFinal ==
  /\ \A p \in Procs : up[p] \in Seq(Settled) /\ reader[p] \in Seq(Settled) /\ sending[p] \in Seq(Settled)
  /\ \A a \in Attempts : thread[a] \in {"send", "sent"} =>
       /\ IsVerdict(verdict[a]) /\ verdict[a].attempt = a
       /\ verdict[a].op = "ReportOutput" => run[a].made

(* The attempts a worker may be compiling, as the coordinator counts them:    *)
(* those of a lost session are not replaced.                                *)
Booked(p) == {a \in Attempts : attempt[a].state \in {"assigned", "lost"} /\ attempt[a].with = p}
CapacityIsBooked ==
  /\ \A a \in Attempts : thread[a] \in {"begin", "compile"} => attempt[a].state \in {"assigned", "lost"}
  /\ \A a \in Attempts : attempt[a].state # "absent" => attempt[a].with \in Procs
  /\ \A a \in Attempts : attempt[a].state = "lost" => session[attempt[a].with] = "closed"
  /\ \A p \in Procs : Cardinality(Booked(p)) <= MaxInflight

(* A reader never holds a whole frame: what it keeps is shorter than the     *)
(* frame it begins with.                                                    *)
ReadersAreShort ==
  \A p \in Procs : reader[p] # <<>> => reader[p][1].part = 1 /\ Len(reader[p]) < reader[p][1].frame.parts

Orderly ==
  /\ TypeOK
  /\ ConnectionsAreReal
  /\ AssignedOnce
  /\ ThreadsAreSupervised
  /\ RunsAreOrderly
  /\ VerdictsAreFinal
  /\ CapacityIsBooked
  /\ ReportIsCleanlyBuilt
  /\ ReadersAreShort
  /\ FramesStayWhole

=============================================================================
