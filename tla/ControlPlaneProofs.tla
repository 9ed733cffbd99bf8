------------------------- MODULE ControlPlaneProofs -------------------------
(***************************************************************************)
(* Orderly is an inductive invariant of ControlPlane: what the coordinator  *)
(* process, the workers and their compilers keep to at every step, with any *)
(* number of workers and attempts, whichever of them are killed and         *)
(* whichever connections break.                                             *)
(***************************************************************************)
EXTENDS ControlPlaneTypeProofs

(* A step of a worker leaves the coordinator alone, and one of the           *)
(* coordinator leaves the workers alone.                                    *)
WorkerStep ==
  /\ \/ \E p \in Procs : Worker(p) \/ SendRest(p) \/ Heartbeat(p) \/ MainStep(p) \/ Die(p)
     \/ \E a \in Attempts : ThreadStep(a) \/ CompilerExits(a)
  /\ UNCHANGED reactorVars
CoordinatorStep ==
  /\ ReactorStep \/ \E p \in Procs : Reset(p) /\ UNCHANGED reactorVars
  /\ UNCHANGED workerVars

(* Every step is one of a worker process or one of the coordinator process. *)
LEMMA StepsApart ==
  ASSUME [Next]_vars
  PROVE  WorkerStep \/ CoordinatorStep \/ UNCHANGED vars
BY DEF Next, ByWorker, ByReactor, WorkerStep, CoordinatorStep

(* Types, connections, assignments, threads and runs at the start, when     *)
(* there are no processes but the coordinator.                              *)
LEMMA Inits ==
  ASSUME Init
  PROVE  TypeOK /\ ConnectionsAreReal /\ AssignedOnce /\ ThreadsAreSupervised /\ RunsAreOrderly
<1> USE DEF Init, TransportInit, WorkerInit, ChildInit, ReactorInit
<1>1. TransportTypes
  BY EmptyRow DEF TransportTypes
<1>2. Idle \in Runs /\ Idle.pc = "none" /\ Idle.child = "none" /\ IsOrderly(Idle)
  <2>1. Idle \in Runs
    BY DEF Idle, Runs
  <2>2. Idle.pc = "none" /\ Idle.child = "none" /\ ~Idle.artifact
    BY DEF Idle
  <2> QED BY <2>1, <2>2 DEF IsOrderly
<1>3. NoFrame \in Frames
  BY FrameTypes DEF NoFrame, Ops
<1>4. WorkerTypes
  <2>1. run \in [Attempts -> Runs]
    BY <1>2
  <2>2. cancel \in [Attempts -> BOOLEAN]
    OBVIOUS
  <2> QED BY <1>3, <2>1, <2>2, EmptyRow DEF WorkerTypes
<1>5. ReactorTypes
  <2>1. [state |-> "absent", with |-> Nobody, beaten |-> FALSE, unread |-> FALSE] \in AttemptRecords
    BY DEF AttemptRecords
  <2>2. attempt \in [Attempts -> AttemptRecords]
    BY <2>1
  <2>3. <<>> \in Seq(Cells) /\ <<>> \in Seq(Frames) /\ <<>> \in Seq(Controls) /\ Len(<<>>) = 0
    BY EmptyRow
  <2>4. outgoing \in [Procs -> Seq(Frames)] /\ sent \in [Procs -> Nat]
        /\ \A p \in Procs : outgoing[p] = <<>> /\ sent[p] = 0
    BY <2>3
  <2>5. \A p \in Procs : sent[p] <= Len(outgoing[p])
    BY <2>3, <2>4
  <2>6. reader \in [Procs -> Seq(Cells)] /\ controls \in Seq(Controls)
    BY <2>3
  <2> QED BY <2>2, <2>4, <2>5, <2>6 DEF ReactorTypes
<1>6. ConnectionsAreReal
  BY DEF ConnectionsAreReal, Connected
<1>7. AssignedOnce
  <2>1. \A p \in Procs : Len(OnTheWay(p)) = 0
    <3> SUFFICES ASSUME NEW p \in Procs PROVE Len(OnTheWay(p)) = 0
      OBVIOUS
    <3>1. down[p] = <<>> /\ outgoing[p] = <<>> /\ sent[p] = 0
      OBVIOUS
    <3>2. Len(OnTheWay(p)) = Len(down[p]) + (Len(outgoing[p]) - sent[p])
      BY <3>1, EmptyRow, OnTheWayFrames
    <3> QED BY <3>1, <3>2, EmptyRow
  <2>2. \A p \in Procs : 1..Len(OnTheWay(p)) = {}
    BY <2>1
  <2> QED BY <2>2 DEF AssignedOnce
<1>8. ThreadsAreSupervised
  BY <1>2 DEF ThreadsAreSupervised
<1>9. RunsAreOrderly
  BY <1>2 DEF RunsAreOrderly
<1> QED BY <1>1, <1>4, <1>5, <1>6, <1>7, <1>8, <1>9 DEF TypeOK

-----------------------------------------------------------------------------
(***************************************************************************)
(* Connections.                                                             *)
(***************************************************************************)

(* Who writes to a connection is alive, and so is the connection's process.  *)
LEMMA WorkersKeepConnections ==
  ASSUME TypeOK, ConnectionsAreReal, ThreadsAreSupervised, WorkerStep
  PROVE  ConnectionsAreReal'
<1> USE DEF TypeOK, TransportTypes, WorkerTypes, ReactorTypes
<1>1. UNCHANGED <<phase, reader, outgoing, sent, closing, session>>
  BY DEF WorkerStep, reactorVars
<1> DEFINE Steady == /\ \A p \in Procs : link'[p] = link[p] /\ (main'[p] = "off" <=> main[p] = "off")
                     /\ \A p \in Procs : main[p] = "off" => up'[p] = up[p] /\ sending'[p] = sending[p]
<1>2. ASSUME Steady PROVE ConnectionsAreReal'
  BY <1>1, <1>2 DEF ConnectionsAreReal, Connected
<1>3. CASE \E p \in Procs : Worker(p)
  <2>1. PICK p \in Procs : Worker(p)
    BY <1>3
  <2>2. /\ link[p] = "none" /\ main' = [main EXCEPT ![p] = "receiving"] /\ link' = [link EXCEPT ![p] = "pending"]
        /\ \A q \in Procs \ {p} : up'[q] = up[q]
        /\ UNCHANGED sending
    BY <2>1 DEF Worker, Start
  <2> QED BY <1>1, <2>2 DEF ConnectionsAreReal, Connected
<1>4. CASE \E p \in Procs : Die(p)
  <2>1. PICK p \in Procs : Die(p)
    BY <1>4
  <2>2. /\ main[p] # "off" /\ main' = [main EXCEPT ![p] = "dead"]
        /\ \/ link[p] \in {"pending", "open"} /\ link' = [link EXCEPT ![p] = "reset"]
           \/ link' = link
        /\ \A q \in Procs \ {p} : sending'[q] = sending[q]
        /\ UNCHANGED up
    BY <2>1 DEF Die, Alive, Usable
  <2> SUFFICES ASSUME NEW q \in Procs
               PROVE  /\ link'[q] = "none" <=> main'[q] = "off"
                      /\ link'[q] = "none" => up'[q] = <<>> /\ reader'[q] = <<>> /\ sending'[q] = <<>>
                      /\ ~Connected(q)' => outgoing'[q] = <<>> /\ sent'[q] = 0 /\ session'[q] \notin {"registered", "ready"}
                      /\ q \in closing' => Connected(q)'
                      /\ session'[q] = "closed" => link'[q] = "shut"
    BY DEF ConnectionsAreReal
  <2>8. CASE q = p
    BY <1>1, <2>2, <2>8 DEF ConnectionsAreReal, Connected
  <2>9. CASE q # p
    BY <1>1, <2>2, <2>9 DEF ConnectionsAreReal, Connected
  <2> QED BY <2>8, <2>9
<1>5. CASE \E p \in Procs : SendRest(p) \/ Heartbeat(p) \/ MainStep(p)
  <2>1. PICK p \in Procs : SendRest(p) \/ Heartbeat(p) \/ MainStep(p)
    BY <1>5
  <2>2. main[p] \in {"receiving", "draining"}
    BY <2>1 DEF SendRest, Heartbeat, MainStep, Registered, start_compile, CancelAttempt, Disconnected, Stop, Alive
  <2>3. \/ main' = main
        \/ main' = [main EXCEPT ![p] = "draining"]
        \/ main' = [main EXCEPT ![p] = "stopped"]
    BY <2>1 DEF SendRest, Heartbeat, MainStep, Registered, start_compile, CancelAttempt, Disconnected, Stop
  <2>4. link' = link
    BY <2>1 DEF SendRest, Heartbeat, MainStep, Registered, start_compile, CancelAttempt, Disconnected, Stop,
                transportVars
  <2>5. \A q \in Procs \ {p} : up'[q] = up[q] /\ sending'[q] = sending[q]
    BY <2>1 DEF SendRest, Heartbeat, MainStep, Registered, start_compile, CancelAttempt, Disconnected, Stop,
                transportVars, send_frame
  <2> QED BY <1>2, <2>2, <2>3, <2>4, <2>5
<1>6. CASE \E a \in Attempts : ThreadStep(a) \/ CompilerExits(a)
  <2>1. PICK a \in Attempts : ThreadStep(a) \/ CompilerExits(a)
    BY <1>6
  <2>2. CASE BeginCompile(a) \/ SendVerdict(a)
    <3>1. main[owner[a]] \in {"receiving", "draining"} /\ owner[a] \in Procs
      BY <2>2 DEF BeginCompile, SendVerdict, At, Alive
    <3>2. PICK p \in Procs : p = owner[a]
      BY <3>1
    <3>3. \A q \in Procs \ {p} : up'[q] = up[q] /\ sending'[q] = sending[q]
      BY <2>2, <3>2 DEF BeginCompile, SendVerdict, send_frame
    <3>4. UNCHANGED <<main, link>>
      BY <2>2 DEF BeginCompile, SendVerdict
    <3> QED BY <1>2, <3>1, <3>2, <3>3, <3>4
  <2>3. CASE Compile(a) \/ Decide(a) \/ Erase(a) \/ CompilerExits(a)
    <3>1. UNCHANGED <<main, link, up, sending>>
      BY <2>3 DEF Compile, Decide, Erase, CompilerExits, transportVars
    <3> QED BY <1>2, <3>1
  <2> QED BY <2>1, <2>2, <2>3 DEF ThreadStep
<1> QED BY <1>3, <1>4, <1>5, <1>6 DEF WorkerStep

(* Accepting, reading, failing and reaping keep a connection's books: what  *)
(* is queued or registered belongs to one that is there.                    *)
LEMMA CoordinatorKeepsConnections ==
  ASSUME TypeOK, ConnectionsAreReal, CoordinatorStep
  PROVE  ConnectionsAreReal'
<1> USE DEF TypeOK, TransportTypes, WorkerTypes, ReactorTypes
<1>1. UNCHANGED <<main, sending>>
  BY DEF CoordinatorStep, workerVars
<1>2. CASE \E p \in Procs : Accept(p)
  BY <1>1, <1>2 DEF Accept, ConnectionsAreReal, Connected, reactorVars
<1>3. CASE \E p \in Procs : Send(p)
  <2>1. PICK p \in Procs : Send(p)
    BY <1>3
  <2>2. /\ link[p] = "open"
        /\ \A q \in Procs \ {p} : outgoing'[q] = outgoing[q] /\ sent'[q] = sent[q]
        /\ closing' \in {closing, closing \cup {p}}
        /\ UNCHANGED <<up, reader, session, link>>
    BY <2>1 DEF Send, SendSome
  <2> QED BY <1>1, <2>2 DEF ConnectionsAreReal, Connected
<1>4. CASE \E p \in Procs : Recv(p)
  <2>1. PICK p \in Procs : Recv(p)
    BY <1>4
  <2>2. Received(Cells, p)
    BY <2>1, RecvEffects
  <2>3. /\ Connected(p)
        /\ \A q \in Procs \ {p} : up'[q] = up[q] /\ reader'[q] = reader[q] /\ outgoing'[q] = outgoing[q]
                                  /\ session'[q] = session[q]
        /\ closing' \in {closing, closing \cup {p}}
        /\ session'[p] # "closed"
        /\ UNCHANGED <<sent, link>>
    BY <2>2 DEF Received, MayReceive, Dispatched
  <2> SUFFICES ASSUME NEW q \in Procs
               PROVE  /\ link'[q] = "none" <=> main'[q] = "off"
                      /\ link'[q] = "none" => up'[q] = <<>> /\ reader'[q] = <<>> /\ sending'[q] = <<>>
                      /\ ~Connected(q)' => outgoing'[q] = <<>> /\ sent'[q] = 0 /\ session'[q] \notin {"registered", "ready"}
                      /\ q \in closing' => Connected(q)'
                      /\ session'[q] = "closed" => link'[q] = "shut"
    BY DEF ConnectionsAreReal
  <2>8. CASE q = p
    BY <1>1, <2>3, <2>8 DEF ConnectionsAreReal, Connected
  <2>9. CASE q # p
    BY <1>1, <2>3, <2>9 DEF ConnectionsAreReal, Connected
  <2> QED BY <2>8, <2>9
<1>5. CASE \E p \in Procs : RecvFails(p)
  BY <1>1, <1>5 DEF RecvFails, MayReceive, ConnectionsAreReal, Connected
<1>6. CASE \E p \in Procs, a \in Attempts : Assign(a, p)
  <2>1. PICK p \in Procs, a \in Attempts : Assign(a, p)
    BY <1>6
  <2>2. /\ session[p] = "ready"
        /\ \A q \in Procs \ {p} : outgoing'[q] = outgoing[q]
        /\ UNCHANGED <<reader, sent, closing, session, up, down, link>>
    BY <2>1 DEF Assign, Assignable, transportVars
  <2> QED BY <1>1, <2>2 DEF ConnectionsAreReal, Connected
<1>7. CASE (\E a \in Attempts : Beaten(a)) \/ Shutdown
  <2>1. UNCHANGED <<reader, outgoing, sent, closing, session, up, down, link>>
    BY <1>7 DEF Beaten, Shutdown, transportVars
  <2> QED BY <1>1, <2>1 DEF ConnectionsAreReal, Connected
<1>8. CASE EndTurn \/ LeaveLoop
  <2>1. PICK gone \in SUBSET Procs : Reaped(gone)
    BY <1>8, TurnEnds
  <2>2. \A p \in gone : link[p] # "none"
    BY <2>1 DEF Reaped, ConnectionsAreReal, Connected
  <2>3. /\ session' = [p \in Procs |-> IF p \in gone THEN "closed" ELSE session[p]]
        /\ link' = [p \in Procs |-> IF p \in gone THEN "shut" ELSE link[p]]
        /\ up' = [p \in Procs |-> IF p \in gone THEN <<>> ELSE up[p]]
        /\ reader' = [p \in Procs |-> IF p \in gone THEN <<>> ELSE reader[p]]
        /\ sent' = [p \in Procs |-> IF p \in gone THEN 0 ELSE sent[p]]
        /\ closing' = closing \ gone
        /\ \A p \in gone : outgoing'[p] = <<>>
        /\ \A p \in Procs : ~Connected(p) => outgoing'[p] = <<>>
    BY <2>1 DEF Reaped, Disconnect, Shut
  <2>4. \A p \in Procs : ConnectionsAreReal => (link[p] = "none" <=> main[p] = "off")
    BY DEF ConnectionsAreReal
  <2>5. \A p \in gone : link'[p] = "shut" /\ session'[p] = "closed" /\ sent'[p] = 0 /\ p \notin closing'
    BY <2>3
  <2>6. \A p \in Procs \ gone : link'[p] = link[p] /\ session'[p] = session[p] /\ sent'[p] = sent[p]
                                /\ (p \in closing' <=> p \in closing) /\ up'[p] = up[p] /\ reader'[p] = reader[p]
    BY <2>3
  <2> SUFFICES ASSUME NEW p \in Procs
               PROVE  /\ link'[p] = "none" <=> main'[p] = "off"
                      /\ link'[p] = "none" => up'[p] = <<>> /\ reader'[p] = <<>> /\ sending'[p] = <<>>
                      /\ ~Connected(p)' => outgoing'[p] = <<>> /\ sent'[p] = 0 /\ session'[p] \notin {"registered", "ready"}
                      /\ p \in closing' => Connected(p)'
                      /\ session'[p] = "closed" => link'[p] = "shut"
    BY DEF ConnectionsAreReal
  <2>7. CASE p \in gone
    BY <1>1, <2>2, <2>3, <2>5, <2>7 DEF ConnectionsAreReal, Connected
  <2>8. CASE p \notin gone
    BY <1>1, <2>3, <2>6, <2>8 DEF ConnectionsAreReal, Connected
  <2> QED BY <2>7, <2>8
<1>9. CASE \E p \in Procs : Reset(p) /\ UNCHANGED reactorVars
  BY <1>1, <1>9 DEF Reset, Usable, reactorVars, ConnectionsAreReal, Connected
<1> QED BY <1>2, <1>3, <1>4, <1>5, <1>6, <1>7, <1>8, <1>9 DEF CoordinatorStep, ReactorStep, Serve


-----------------------------------------------------------------------------
(***************************************************************************)
(* Threads and compilers.                                                   *)
(***************************************************************************)

(* ThreadsAreSupervised and RunsAreOrderly, of one attempt.                  *)
Supervised(a) ==
  /\ thread[a] = "none" <=> owner[a] = NoProc
  /\ thread[a] \in {"begin", "compile", "send", "sent"} => Alive(owner[a])
  /\ run[a].pc = "none" <=> thread[a] # "compile"
  /\ run[a].pc = "none" /\ run[a].child # "none" =>
       run[a].child = "running" /\ ~run[a].job /\ thread[a] = "done" /\ main[owner[a]] = "dead"
OrderlyRun(a) == IsOrderly(run[a]) /\ (thread[a] = "begin" => run[a].family # "none")

(* Supervision is a matter of each attempt.                                 *)
LEMMA OneByOne ==
  ThreadsAreSupervised /\ RunsAreOrderly <=> \A a \in Attempts : Supervised(a) /\ OrderlyRun(a)
BY DEF ThreadsAreSupervised, RunsAreOrderly, Supervised, OrderlyRun

(* An attempt whose thread and run a step leaves alone.                      *)
LEMMA LeftAlone ==
  ASSUME TypeOK, NEW a \in Attempts, Supervised(a), OrderlyRun(a),
         thread'[a] = thread[a], owner'[a] = owner[a], run'[a] = run[a],
         owner[a] \in Procs => /\ main[owner[a]] = "dead" => main'[owner[a]] = "dead"
                               /\ Alive(owner[a]) /\ thread[a] \notin {"none", "done"} => Alive(owner[a])'
  PROVE  Supervised(a)' /\ OrderlyRun(a)'
<1>1. owner[a] \in Procs \cup {NoProc} /\ thread[a] \in {"none", "begin", "compile", "send", "sent", "done"}
  BY DEF TypeOK, WorkerTypes
<1>2. owner[a] = NoProc => thread[a] = "none"
  BY DEF Supervised
<1>3. thread[a] \notin {"none", "done"} => Alive(owner[a])'
  <2>1. thread[a] \notin {"none", "done"} => Alive(owner[a]) /\ owner[a] \in Procs
    BY <1>1, <1>2 DEF Supervised
  <2> QED BY <2>1
<1>4. thread[a] = "done" /\ main[owner[a]] = "dead" => main'[owner'[a]] = "dead"
  BY <1>1, <1>2
<1>5. Supervised(a)'
  <2>1. thread'[a] = "none" <=> owner'[a] = NoProc
    BY DEF Supervised
  <2>2. run'[a].pc = "none" <=> thread'[a] # "compile"
    BY DEF Supervised
  <2>3. run'[a].pc = "none" /\ run'[a].child # "none" =>
          run'[a].child = "running" /\ ~run'[a].job /\ thread'[a] = "done" /\ main'[owner'[a]] = "dead"
    BY <1>4 DEF Supervised
  <2> QED BY <1>3, <2>1, <2>2, <2>3 DEF Supervised
<1>6. OrderlyRun(a)'
  BY DEF OrderlyRun, IsOrderly
<1> QED BY <1>5, <1>6

(* A thread that sends, or has sent, its verdict has no compiler.            *)
LEMMA NoCompilerLeft ==
  ASSUME TypeOK, NEW a \in Attempts, Supervised(a), thread[a] \in {"begin", "send", "sent"}
  PROVE  run[a].pc = "none" /\ run[a].child = "none"
BY DEF Supervised

(* Whatever a worker does, a kill included, its threads and compilers live  *)
(* and end together.                                                        *)
LEMMA WorkersKeepThreads ==
  ASSUME TypeOK, AssignedOnce, ThreadsAreSupervised, RunsAreOrderly, WorkerStep
  PROVE  ThreadsAreSupervised' /\ RunsAreOrderly'
<1> USE DEF TypeOK, WorkerTypes
<1>0. \A a \in Attempts : Supervised(a) /\ OrderlyRun(a)
  BY OneByOne
<1> SUFFICES ASSUME NEW b \in Attempts PROVE Supervised(b)' /\ OrderlyRun(b)'
  BY DEF ThreadsAreSupervised, RunsAreOrderly, Supervised, OrderlyRun
<1>1. Supervised(b) /\ OrderlyRun(b) /\ run[b] \in Runs
  BY <1>0
<1>2. CASE \E p \in Procs : Worker(p) \/ SendRest(p) \/ Heartbeat(p) \/ Registered(p) \/ CancelAttempt(p) \/ Disconnected(p)
  <2>1. PICK p \in Procs : Worker(p) \/ SendRest(p) \/ Heartbeat(p) \/ Registered(p) \/ CancelAttempt(p) \/ Disconnected(p)
    BY <1>2
  <2>2. UNCHANGED <<thread, owner, run>>
    BY <2>1 DEF Worker, Start, SendRest, Heartbeat, Registered, CancelAttempt, Disconnected
  <2>3. \/ main' = main
        \/ main[p] # "dead" /\ main' \in {[main EXCEPT ![p] = "receiving"], [main EXCEPT ![p] = "draining"]}
    BY <2>1 DEF Worker, Start, SendRest, Heartbeat, Registered, CancelAttempt, Disconnected
  <2>4. \A q \in Procs : (main[q] = "dead" => main'[q] = "dead") /\ (Alive(q) => Alive(q)')
    BY <2>3 DEF Alive
  <2> QED BY <1>1, <2>2, <2>4, LeftAlone
<1>3. CASE \E p \in Procs : Stop(p)
  <2>1. PICK p \in Procs : Stop(p)
    BY <1>3
  <2>2. UNCHANGED <<thread, owner, run>> /\ main[p] = "draining" /\ main' = [main EXCEPT ![p] = "stopped"]
        /\ (owner[b] = p => thread[b] \in {"none", "done"})
    BY <2>1 DEF Stop, Drained, Active
  <2> QED BY <1>1, <2>2, LeftAlone DEF Alive
<1>4. CASE \E p \in Procs : start_compile(p)
  <2>1. PICK p \in Procs : start_compile(p)
    BY <1>4
  <2> DEFINE a == Head(down[p]).attempt
  <2>2. a \in Attempts /\ thread[a] = "none" /\ main[p] = "receiving" /\ UNCHANGED main
        /\ owner' = [owner EXCEPT ![a] = p]
    BY <2>1, AssignmentsAreReal DEF start_compile
  <2>3. \/ thread' = [thread EXCEPT ![a] = "send"] /\ UNCHANGED run
        \/ /\ thread' = [thread EXCEPT ![a] = "begin"]
           /\ \E family \in Families[a] : run' = [run EXCEPT ![a].family = family]
    BY <2>1 DEF start_compile, Go
  <2> HIDE DEF a
  <2>4. CASE b # a
    <3>1. thread'[b] = thread[b] /\ owner'[b] = owner[b] /\ run'[b] = run[b]
      BY <2>2, <2>3, <2>4
    <3> QED BY <1>1, <2>2, <3>1, LeftAlone DEF Alive
  <2>5. CASE b = a
    <3>1. owner'[b] = p /\ Alive(p)' /\ p # NoProc
      BY <2>2, <2>5, NoProcIsNone DEF Alive
    <3>2. run[b].pc = "none" /\ run[b].child = "none"
      BY <1>1, <2>2, <2>5 DEF Supervised
    <3>3. CASE thread' = [thread EXCEPT ![a] = "send"] /\ UNCHANGED run
      BY <1>1, <2>5, <3>1, <3>2, <3>3 DEF Supervised, OrderlyRun, IsOrderly, Alive
    <3>4. CASE thread' = [thread EXCEPT ![a] = "begin"] /\ \E family \in Families[a] : run' = [run EXCEPT ![a].family = family]
      <4>1. PICK family \in Families[a] : run' = [run EXCEPT ![a].family = family]
        BY <3>4
      <4>2. family \in {"msvc", "nvcc", "synthetic"}
        BY <2>2, FamiliesDiscovered
      <4>3. PICK r : r = [run[b] EXCEPT !.family = family]
        OBVIOUS
      <4>4. r.pc = "none" /\ r.child = "none" /\ r.family = family /\ r.exit = run[b].exit
        BY <1>1, <3>2, <4>3 DEF Runs
      <4>7. ~r.artifact
        BY <1>1, <3>2, <4>3 DEF Runs, OrderlyRun, IsOrderly
      <4>5. run'[b] = r /\ thread'[b] = "begin"
        BY <2>5, <3>4, <4>1, <4>3
      <4>6. IsOrderly(r)
        BY <4>4, <4>7 DEF IsOrderly
      <4> QED BY <3>1, <4>2, <4>4, <4>5, <4>6 DEF Supervised, OrderlyRun, IsOrderly, Alive
    <3> QED BY <2>3, <3>3, <3>4
  <2> QED BY <2>4, <2>5
<1>5. CASE \E p \in Procs : Die(p)
  <2>1. PICK p \in Procs : Die(p)
    BY <1>5
  <2>2. UNCHANGED owner /\ main' = [main EXCEPT ![p] = "dead"]
    BY <2>1 DEF Die
  <2>3. CASE b \in Active(p)
    <3>1. thread'[b] = "done" /\ run'[b] = Abandoned(run[b]) /\ owner[b] = p
      BY <2>1, <2>3 DEF Die, Active
    <3>2. PICK r : r = Abandoned(run[b])
      OBVIOUS
    <3>3. r.pc = "none" /\ IsOrderly(r) /\ r.child \in {"none", "running"}
      BY <1>1, <3>2, AbandonedTypes
    <3>4. r.job = FALSE
      BY <1>1, <3>2, AbandonedTypes
    <3>5. run'[b] = r /\ main'[owner'[b]] = "dead" /\ owner'[b] # NoProc
      BY <2>2, <3>1, <3>2, NoProcIsNone
    <3> QED BY <3>1, <3>3, <3>4, <3>5 DEF Supervised, OrderlyRun, IsOrderly
  <2>4. CASE b \notin Active(p)
    <3>1. thread'[b] = thread[b] /\ run'[b] = run[b] /\ (owner[b] = p => thread[b] \in {"none", "done"})
      BY <2>1, <2>4 DEF Die, Active
    <3> QED BY <1>1, <2>2, <3>1, LeftAlone DEF Alive
  <2> QED BY <2>3, <2>4
<1>6. CASE \E a \in Attempts : ThreadStep(a) \/ CompilerExits(a)
  <2>1. PICK a \in Attempts : ThreadStep(a) \/ CompilerExits(a)
    BY <1>6
  <2>2. UNCHANGED <<main, owner>>
    BY <2>1 DEF ThreadStep, BeginCompile, Compile, Decide, SendVerdict, Erase, CompilerExits
  <2>3. CASE b # a
    <3>1. thread'[b] = thread[b]
      BY <2>1, <2>3 DEF ThreadStep, BeginCompile, Compile, Decide, SendVerdict, Erase, CompilerExits, Go
    <3>2. run'[b] = run[b]
      <4>1. CASE Compile(a) \/ CompilerExits(a)
        <5>1. IsOrderly(run[a])
          BY <1>0 DEF OrderlyRun
        <5> QED BY <2>3, <4>1, <5>1, ChildStepGoesOn, CompilerExitsGoesOn DEF Compile
      <4>2. CASE ~(Compile(a) \/ CompilerExits(a))
        BY <2>1, <2>3, <4>2 DEF ThreadStep, BeginCompile, Decide, SendVerdict, Erase
      <4> QED BY <4>1, <4>2
    <3> QED BY <1>1, <2>2, <3>1, <3>2, LeftAlone DEF Alive
  <2>4. CASE b = a /\ BeginCompile(a)
    <3>1. thread[b] = "begin" /\ thread'[b] = "compile" /\ Alive(owner[b]) /\ owner[b] # NoProc
      BY <2>4 DEF BeginCompile, At, Go
    <3>2. PICK r : r = [run[b] EXCEPT !.pc = "prepare"]
      OBVIOUS
    <3>3. r.pc = "prepare" /\ r.child = "none" /\ r.family = run[b].family /\ r.exit = run[b].exit /\ run[b].family # "none"
      BY <1>1, <3>1, <3>2, NoCompilerLeft DEF Runs, OrderlyRun
    <3>4. IsOrderly(r)
      BY <3>3 DEF IsOrderly
    <3>5. run'[b] = r
      BY <2>4, <3>2 DEF BeginCompile
    <3> QED BY <2>2, <3>1, <3>3, <3>4, <3>5 DEF Supervised, OrderlyRun, IsOrderly, Alive
  <2>5. CASE b = a /\ (Compile(a) \/ CompilerExits(a))
    <3>1. thread'[b] = thread[b]
      BY <2>5 DEF Compile, CompilerExits
    <3>2. PICK r : GoesOn(run[b], r) /\ run' = [run EXCEPT ![b] = r]
      BY <1>1, <2>5, ChildStepGoesOn, CompilerExitsGoesOn DEF Compile, OrderlyRun
    <3>3. run'[b] = r /\ IsOrderly(r) /\ (r.pc = "none" <=> run[b].pc = "none") /\ (r.pc = "none" => r.child = "none")
      BY <3>2 DEF GoesOn
    <3>4. thread[b] = "begin" => r.family # "none"
      <4>1. Compile(a) => thread[b] = "compile"
        BY <2>5 DEF Compile, At
      <4>2. thread[b] = "begin" => run[b].child = "none"
        BY <1>1, NoCompilerLeft
      <4>3. CompilerExits(a) => run[b].child = "running"
        BY <2>5 DEF CompilerExits, Exit, OrphanExits, Running
      <4> QED BY <2>5, <4>1, <4>2, <4>3
    <3>5. Supervised(b)'
      BY <1>1, <2>2, <3>1, <3>3 DEF Supervised, Alive
    <3>6. OrderlyRun(b)'
      BY <3>1, <3>3, <3>4 DEF OrderlyRun, IsOrderly
    <3> QED BY <3>5, <3>6
  <2>6. CASE b = a /\ Decide(a)
    <3>1. thread[b] = "compile" /\ thread'[b] = "send" /\ Alive(owner[b]) /\ owner[b] # NoProc
          /\ run[b].pc = "finished" /\ run'[b] = Forgotten(run[b])
      BY <2>6 DEF Decide, At, Go
    <3>2. run[b].child = "none"
      BY <1>1, <3>1 DEF OrderlyRun, IsOrderly
    <3>3. PICK r : r = Forgotten(run[b])
      OBVIOUS
    <3>4. r.pc = "none" /\ r.child = "none" /\ IsOrderly(r)
      BY <1>1, <3>2, <3>3, ForgottenTypes
    <3> QED BY <2>2, <3>1, <3>3, <3>4 DEF Supervised, OrderlyRun, IsOrderly, Alive
  <2>7. CASE b = a /\ (SendVerdict(a) \/ Erase(a))
    <3>1. thread[b] \in {"send", "sent"} /\ thread'[b] \in {"sent", "done"} /\ Alive(owner[b]) /\ owner[b] # NoProc
          /\ UNCHANGED run
      BY <2>7 DEF SendVerdict, Erase, At, Go
    <3>2. run[b].pc = "none" /\ run[b].child = "none"
      BY <1>1, <3>1, NoCompilerLeft
    <3>3. Supervised(b)'
      BY <1>1, <2>2, <3>1, <3>2 DEF Supervised, Alive
    <3>4. OrderlyRun(b)'
      BY <1>1, <3>1 DEF OrderlyRun, IsOrderly
    <3> QED BY <3>3, <3>4
  <2> QED BY <2>1, <2>3, <2>4, <2>5, <2>6, <2>7 DEF ThreadStep
<1> QED BY <1>2, <1>3, <1>4, <1>5, <1>6 DEF WorkerStep, MainStep

-----------------------------------------------------------------------------
(***************************************************************************)
(* Verdicts.                                                                *)
(***************************************************************************)

(* A thread past its compile does not come back to it, and what was made     *)
(* stays made.                                                              *)
GoesOnOf(a) ==
  /\ thread[a] \in {"sent", "done"} => thread'[a] \in {"sent", "done"}
  /\ run[a].made => run'[a].made

(* No step of a worker takes a thread back, changes its owner or unmakes an *)
(* artifact.                                                                *)
LEMMA WorkersGoOn ==
  ASSUME TypeOK, AssignedOnce, RunsAreOrderly, WorkerStep, NEW b \in Attempts
  PROVE  GoesOnOf(b)
<1> USE DEF TypeOK, WorkerTypes
<1>0. run[b] \in Runs /\ run \in [Attempts -> Runs] /\ IsOrderly(run[b])
  BY DEF RunsAreOrderly
<1>1. CASE \E p \in Procs : Worker(p) \/ SendRest(p) \/ Heartbeat(p) \/ MainStep(p)
  <2>1. PICK p \in Procs : Worker(p) \/ SendRest(p) \/ Heartbeat(p) \/ MainStep(p)
    BY <1>1
  <2>2. CASE start_compile(p)
    <3> DEFINE a == Head(down[p]).attempt
    <3>1. a \in Attempts /\ thread[a] = "none"
      BY <2>2, AssignmentsAreReal DEF start_compile
    <3>2. /\ UNCHANGED run \/ \E family \in Families[a] : run' = [run EXCEPT ![a].family = family]
          /\ \A c \in Attempts \ {a} : thread'[c] = thread[c]
      BY <2>2 DEF start_compile, Go
    <3> HIDE DEF a
    <3>3. run'[b].made = run[b].made
      <4>1. CASE UNCHANGED run
        BY <4>1
      <4>2. CASE \E family \in Families[a] : run' = [run EXCEPT ![a].family = family]
        <5>1. PICK family \in Families[a] : run' = [run EXCEPT ![a].family = family]
          BY <4>2
        <5>2. PICK r : r = [run[a] EXCEPT !.family = family]
          OBVIOUS
        <5>3. r.made = run[a].made
          BY <1>0, <3>1, <5>2 DEF Runs
        <5>4. run' = [run EXCEPT ![a] = r]
          BY <5>1, <5>2
        <5> QED BY <1>0, <3>1, <5>3, <5>4
      <4> QED BY <3>2, <4>1, <4>2
    <3>4. thread[b] \in {"sent", "done"} => thread'[b] = thread[b]
      BY <3>1, <3>2
    <3>5. run[b].made => run'[b].made
      BY <3>3
    <3> QED BY <3>4, <3>5 DEF GoesOnOf
  <2>3. CASE ~start_compile(p)
    <3>1. UNCHANGED <<thread, run>>
      BY <2>1, <2>3 DEF Worker, Start, SendRest, Heartbeat, MainStep, Registered, CancelAttempt, Disconnected, Stop
    <3> QED BY <3>1 DEF GoesOnOf
  <2> QED BY <2>2, <2>3
<1>2. CASE \E p \in Procs : Die(p)
  <2>1. run'[b] = Abandoned(run[b]) \/ run'[b] = run[b]
    BY <1>2 DEF Die
  <2>2. run[b].made => run'[b].made
    <3>1. run[b].made => Abandoned(run[b]).made
      BY <1>0, AbandonedTypes
    <3>2. PICK r : r = Abandoned(run[b])
      OBVIOUS
    <3>3. run[b].made => r.made
      BY <3>1, <3>2
    <3>4. run'[b] = r \/ run'[b] = run[b]
      BY <2>1, <3>2
    <3> QED BY <3>3, <3>4
  <2>3. thread'[b] \in {"done", thread[b]}
    BY <1>2 DEF Die
  <2> QED BY <2>2, <2>3 DEF GoesOnOf
<1>3. CASE \E a \in Attempts : ThreadStep(a) \/ CompilerExits(a)
  <2>1. PICK a \in Attempts : ThreadStep(a) \/ CompilerExits(a)
    BY <1>3
  <2>2. CASE Compile(a) \/ CompilerExits(a)
    <3>1. UNCHANGED thread
      BY <2>2 DEF Compile, CompilerExits
    <3>2. IsOrderly(run[a])
      BY DEF RunsAreOrderly
    <3>3. PICK r : GoesOn(run[a], r) /\ run' = [run EXCEPT ![a] = r]
      BY <1>0, <2>2, <3>2, ChildStepGoesOn, CompilerExitsGoesOn DEF Compile
    <3>4. run[a].made => r.made
      BY <3>3 DEF GoesOn
    <3>5. run[b].made => run'[b].made
      BY <3>3, <3>4
    <3> QED BY <3>1, <3>5 DEF GoesOnOf
  <2>3. CASE Decide(a)
    <3>1. run' = [run EXCEPT ![a] = Forgotten(run[a])]
      BY <2>3 DEF Decide
    <3>2. run[a].made => Forgotten(run[a]).made
      BY ForgottenTypes
    <3>3. run[b].made => run'[b].made
      BY <3>1, <3>2
    <3>4. thread[a] = "compile" /\ \A c \in Attempts \ {a} : thread'[c] = thread[c]
      BY <2>3 DEF Decide, At, Go
    <3>5. thread[b] \in {"sent", "done"} => thread'[b] \in {"sent", "done"}
      BY <3>4
    <3> QED BY <3>3, <3>5 DEF GoesOnOf
  <2>4. CASE BeginCompile(a)
    <3>1. PICK r : r = [run[a] EXCEPT !.pc = "prepare"]
      OBVIOUS
    <3>2. r.made = run[a].made
      BY <1>0, <3>1 DEF Runs
    <3>3. run' = [run EXCEPT ![a] = r]
      BY <2>4, <3>1 DEF BeginCompile
    <3>4. run[b].made => run'[b].made
      BY <3>2, <3>3
    <3>5. thread[a] = "begin" /\ \A c \in Attempts \ {a} : thread'[c] = thread[c]
      BY <2>4 DEF BeginCompile, At, Go
    <3>6. thread[b] \in {"sent", "done"} => thread'[b] \in {"sent", "done"}
      BY <3>5
    <3> QED BY <3>4, <3>6 DEF GoesOnOf
  <2>5. CASE SendVerdict(a) \/ Erase(a)
    <3>1. UNCHANGED run /\ thread'[a] \in {"sent", "done"} /\ \A c \in Attempts \ {a} : thread'[c] = thread[c]
      BY <2>5 DEF SendVerdict, Erase, Go
    <3> QED BY <3>1 DEF GoesOnOf
  <2> QED BY <2>1, <2>2, <2>3, <2>4, <2>5 DEF ThreadStep
<1> QED BY <1>1, <1>2, <1>3 DEF WorkerStep

(* What is fit to be on the wire stays fit, since threads and runs only go  *)
(* on.                                                                      *)
LEMMA SettledStays ==
  ASSUME TypeOK, \A a \in Attempts : GoesOnOf(a), NEW G, G = Settled'
  PROVE  G \in SUBSET Cells /\ Settled \subseteq G
<1>1. G \in SUBSET Cells
  BY DEF Settled
<1>2. ASSUME NEW c \in Settled PROVE c \in G
  <2>1. CASE ~IsVerdict(c.frame)
    BY <2>1 DEF Settled
  <2>2. CASE IsVerdict(c.frame)
    <3>1. c \in Cells /\ c.frame.attempt \in Attempts /\ thread[c.frame.attempt] \in {"sent", "done"}
      BY <2>2 DEF Settled
    <3>2. thread'[c.frame.attempt] \in {"sent", "done"}
      BY <3>1 DEF GoesOnOf
    <3>3. c.frame.op = "ReportOutput" => run'[c.frame.attempt].made
      BY <2>2, <3>1 DEF Settled, GoesOnOf
    <3> QED BY <3>1, <3>2, <3>3 DEF Settled
  <2> QED BY <2>1, <2>2
<1> QED BY <1>1, <1>2

(* The row of an ordinary frame.                                             *)
LEMMA OrdinaryFrames ==
  ASSUME NEW f \in Frames, ~IsVerdict(f), NEW G, G = Settled'
  PROVE  \A i \in 1..Len(encode_frame(f)) : encode_frame(f)[i] \in G
<1> SUFFICES ASSUME NEW i \in 1..Len(encode_frame(f)) PROVE encode_frame(f)[i] \in G
  OBVIOUS
<1>1. encode_frame(f)[i] = [frame |-> f, part |-> i] /\ encode_frame(f)[i] \in Cells
  BY EncodeTypes, ElementOfSeq
<1>2. PICK c \in Cells : c = encode_frame(f)[i] /\ c.frame = f
  BY <1>1
<1>3. c \in G
  BY <1>2 DEF Settled
<1> QED BY <1>2, <1>3

(* The cells a worker writes, and those it has still to write.               *)
LEMMA WorkersSendSettled ==
  ASSUME TypeOK, ConnectionsAreReal, VerdictsAreFinal, WorkerStep,
         NEW G \in SUBSET Cells, G = Settled', Settled \subseteq G
  PROVE  up' \in [Procs -> Seq(G)] /\ sending' \in [Procs -> Seq(G)]
<1> USE DEF TypeOK, TransportTypes, WorkerTypes
<1>1. up \in [Procs -> Seq(G)] /\ sending \in [Procs -> Seq(G)]
  <2>1. \A p \in Procs : up[p] \in Seq(Settled) /\ sending[p] \in Seq(Settled)
    BY DEF VerdictsAreFinal
  <2>2. \A s \in Seq(Settled) : s \in Seq(G)
    OBVIOUS
  <2>3. \A p \in Procs : up[p] \in Seq(G) /\ sending[p] \in Seq(G)
    BY <2>1, <2>2
  <2> QED BY <2>3
<1>2. ASSUME NEW p \in Procs, NEW op \in {"RegisterWorker", "Heartbeat", "WorkerReady"}
      PROVE  /\ Message(op) \in Frames
             /\ \A i \in 1..Len(encode_frame(Message(op))) : encode_frame(Message(op))[i] \in G
             /\ send_frame(p, Message(op)) => up' \in [Procs -> Seq(G)] /\ sending' \in [Procs -> Seq(G)]
  <2>1. Message(op) \in Frames /\ ~IsVerdict(Message(op))
    BY FrameTypes DEF Ops, IsVerdict
  <2>2. \A i \in 1..Len(encode_frame(Message(op))) : encode_frame(Message(op))[i] \in G
    BY <2>1, OrdinaryFrames
  <2> QED BY <1>1, <2>1, <2>2, SendFrameKeeps
<1>3. CASE \E p \in Procs : Worker(p)
  <2>1. PICK p \in Procs : Worker(p)
    BY <1>3
  <2>2. PICK s : s = encode_frame(Message("RegisterWorker"))
    OBVIOUS
  <2>3. s \in Seq(Cells) /\ \A i \in 1..Len(s) : s[i] \in G
    BY <1>2, <2>2, EncodeTypes
  <2>4. s \in Seq(G)
    <3>1. PICK n : n = Len(s)
      OBVIOUS
    <3>2. n \in Nat /\ s \in [1..n -> G]
      BY <2>3, <3>1, LenProperties
    <3> QED BY <3>2
  <2>5. up' = [up EXCEPT ![p] = s] /\ UNCHANGED sending
    BY <2>1, <2>2 DEF Worker, Start
  <2> QED BY <1>1, <2>4, <2>5
<1>4. CASE \E p \in Procs : SendRest(p)
  <2>1. PICK p \in Procs : SendRest(p)
    BY <1>4
  <2>2. sending[p] \in Seq(G) /\ up[p] \in Seq(G) /\ sending[p] # <<>>
    BY <1>1, <2>1 DEF SendRest, MutexFree
  <2>3. Head(sending[p]) \in G /\ Tail(sending[p]) \in Seq(G)
    BY <2>2, HeadTailProperties
  <2>4. Append(up[p], Head(sending[p])) \in Seq(G) /\ <<>> \in Seq(G)
    BY <2>2, <2>3, AppendProperties, EmptyRow
  <2> QED BY <1>1, <2>1, <2>3, <2>4 DEF SendRest
<1>5. CASE \E p \in Procs : Heartbeat(p) \/ Registered(p)
  BY <1>2, <1>5 DEF Heartbeat, Registered
<1>6. CASE \E p \in Procs : start_compile(p) \/ CancelAttempt(p) \/ Disconnected(p) \/ Stop(p)
  <2>1. UNCHANGED <<up, sending>>
    BY <1>6 DEF start_compile, CancelAttempt, Disconnected, Stop, transportVars
  <2> QED BY <1>1, <2>1
<1>7. CASE \E p \in Procs : Die(p)
  BY <1>1, <1>7, EmptyRow DEF Die
<1>8. CASE \E a \in Attempts : ThreadStep(a) \/ CompilerExits(a)
  <2>1. PICK a \in Attempts : ThreadStep(a) \/ CompilerExits(a)
    BY <1>8
  <2>2. CASE Compile(a) \/ Decide(a) \/ Erase(a) \/ CompilerExits(a)
    <3>1. UNCHANGED <<up, sending>>
      BY <2>2 DEF Compile, Decide, Erase, CompilerExits, transportVars
    <3> QED BY <1>1, <3>1
  <2>3. CASE BeginCompile(a)
    <3>1. owner[a] \in Procs /\ send_frame(owner[a], Concerning("BeginCompile", a))
      BY <2>3 DEF BeginCompile, At
    <3>2. PICK f \in Frames : f = Concerning("BeginCompile", a) /\ ~IsVerdict(f)
      BY FrameTypes DEF Ops, IsVerdict
    <3>3. \A i \in 1..Len(encode_frame(f)) : encode_frame(f)[i] \in G
      BY <3>2, OrdinaryFrames
    <3> QED BY <1>1, <3>1, <3>2, <3>3, SendFrameKeeps
  <2>4. CASE SendVerdict(a)
    <3>1. owner[a] \in Procs /\ send_frame(owner[a], verdict[a]) /\ thread[a] = "send" /\ thread'[a] = "sent" /\ UNCHANGED run
      BY <2>4 DEF SendVerdict, At, Go
    <3>2. verdict[a] \in Frames
      OBVIOUS
    <3>3. verdict[a].attempt = a /\ (verdict[a].op = "ReportOutput" => run[a].made)
      BY <3>1 DEF VerdictsAreFinal
    <3>4. ASSUME NEW i \in 1..Len(encode_frame(verdict[a])) PROVE encode_frame(verdict[a])[i] \in G
      <4>1. encode_frame(verdict[a])[i] = [frame |-> verdict[a], part |-> i] /\ encode_frame(verdict[a])[i] \in Cells
        BY <3>2, EncodeTypes, ElementOfSeq
      <4>2. PICK c \in Cells : c = encode_frame(verdict[a])[i] /\ c.frame = verdict[a]
        BY <4>1
      <4>3. c.frame.attempt \in Attempts /\ thread'[c.frame.attempt] \in {"sent", "done"}
        BY <3>1, <3>3, <4>2
      <4>4. c.frame.op = "ReportOutput" => run'[c.frame.attempt].made
        BY <3>1, <3>3, <4>2
      <4>5. c \in G
        BY <4>3, <4>4 DEF Settled
      <4> QED BY <4>2, <4>5
    <3> QED BY <1>1, <3>1, <3>2, <3>4, SendFrameKeeps
  <2> QED BY <2>1, <2>2, <2>3, <2>4 DEF ThreadStep
<1> QED BY <1>3, <1>4, <1>5, <1>6, <1>7, <1>8 DEF WorkerStep, MainStep

(* What a thread may send.                                                   *)
HasVerdict(a) ==
  thread[a] \in {"send", "sent"} =>
    /\ IsVerdict(verdict[a]) /\ verdict[a].attempt = a
    /\ verdict[a].op = "ReportOutput" => run[a].made

(* A thread that has decided holds a verdict of its own attempt, and an     *)
(* output only of a proper run.                                             *)
LEMMA ThreadsHaveVerdicts ==
  ASSUME TypeOK, AssignedOnce, RunsAreOrderly, VerdictsAreFinal, WorkerStep, NEW b \in Attempts
  PROVE  HasVerdict(b)'
<1> USE DEF TypeOK, WorkerTypes
<1>1. HasVerdict(b) /\ GoesOnOf(b)
  BY WorkersGoOn DEF VerdictsAreFinal, HasVerdict
<1>2. ASSUME thread'[b] \notin {"send", "sent"} \/ (thread[b] \in {"send", "sent"} /\ verdict'[b] = verdict[b])
      PROVE  HasVerdict(b)'
  BY <1>1, <1>2 DEF HasVerdict, IsVerdict, GoesOnOf
<1>3. CASE \E p \in Procs : Worker(p) \/ SendRest(p) \/ Heartbeat(p) \/ MainStep(p) \/ Die(p)
  <2>1. PICK p \in Procs : Worker(p) \/ SendRest(p) \/ Heartbeat(p) \/ MainStep(p) \/ Die(p)
    BY <1>3
  <2>2. CASE start_compile(p) /\ b = Head(down[p]).attempt
    <3>1. \/ thread'[b] = "begin"
          \/ thread'[b] = "send" /\ verdict'[b] = Concerning("FailAttempt", b)
      BY <2>2 DEF start_compile, Go
    <3>2. Concerning("FailAttempt", b).op = "FailAttempt" /\ Concerning("FailAttempt", b).attempt = b
      BY FrameTypes DEF Ops
    <3> QED BY <3>1, <3>2 DEF HasVerdict, IsVerdict
  <2>3. CASE start_compile(p) /\ b # Head(down[p]).attempt
    <3>1. thread'[b] = thread[b] /\ verdict'[b] = verdict[b]
      BY <2>3 DEF start_compile, Go
    <3> QED BY <1>2, <3>1
  <2>4. CASE ~start_compile(p) /\ ~Die(p)
    <3>1. UNCHANGED <<thread, verdict>>
      BY <2>1, <2>4 DEF Worker, Start, SendRest, Heartbeat, MainStep, Registered, CancelAttempt, Disconnected, Stop
    <3> QED BY <1>2, <3>1
  <2>5. CASE Die(p)
    <3>1. thread'[b] = "done" \/ (thread'[b] = thread[b] /\ verdict'[b] = verdict[b])
      BY <2>5 DEF Die
    <3> QED BY <1>2, <3>1
  <2> QED BY <2>1, <2>2, <2>3, <2>4, <2>5
<1>4. CASE \E a \in Attempts : ThreadStep(a) \/ CompilerExits(a)
  <2>1. PICK a \in Attempts : ThreadStep(a) \/ CompilerExits(a)
    BY <1>4
  <2>2. CASE a # b \/ Compile(a) \/ CompilerExits(a)
    <3>1. thread'[b] = thread[b] /\ verdict'[b] = verdict[b]
      BY <2>1, <2>2 DEF ThreadStep, BeginCompile, Compile, Decide, SendVerdict, Erase, CompilerExits, Go
    <3> QED BY <1>2, <3>1
  <2>3. CASE a = b /\ (BeginCompile(a) \/ Erase(a))
    <3>1. thread'[b] \in {"compile", "done"}
      BY <2>3 DEF BeginCompile, Erase, Go
    <3> QED BY <1>2, <3>1
  <2>4. CASE a = b /\ SendVerdict(a)
    <3>1. thread[b] = "send" /\ UNCHANGED verdict
      BY <2>4 DEF SendVerdict, At
    <3> QED BY <1>2, <3>1
  <2>5. CASE a = b /\ Decide(a)
    <3>1. PICK size \in ReportSizes : verdict' = [verdict EXCEPT ![b] = Ends(b, size)]
      BY <2>5 DEF Decide
    <3>2. size \in Nat \ {0} /\ run[b].pc = "finished" /\ verdict'[b] = Ends(b, size) /\ thread'[b] = "send"
      BY <2>5, <3>1, WorkerConstants DEF Decide, Go
    <3>3. \/ Ends(b, size) = Concerning("FailAttempt", b)
          \/ run[b].code = "Ok" /\ Ends(b, size) = Frame("ReportOutput", b, size)
      BY DEF Ends
    <3>4. /\ Concerning("FailAttempt", b).op = "FailAttempt" /\ Concerning("FailAttempt", b).attempt = b
          /\ Frame("ReportOutput", b, size).op = "ReportOutput" /\ Frame("ReportOutput", b, size).attempt = b
      BY <3>2, FrameTypes DEF Ops
    <3>5. run[b].code = "Ok" => run'[b].made
      BY <1>1, <3>2 DEF RunsAreOrderly, IsOrderly, GoesOnOf
    <3>7. verdict'[b].op \in {"ReportOutput", "FailAttempt"} /\ verdict'[b].attempt = b
      BY <3>2, <3>3, <3>4
    <3>8. verdict'[b].op = "ReportOutput" => run'[b].made
      BY <3>2, <3>3, <3>4, <3>5
    <3> QED BY <3>7, <3>8 DEF HasVerdict, IsVerdict
  <2> QED BY <2>1, <2>2, <2>3, <2>4, <2>5 DEF ThreadStep
<1> QED BY <1>3, <1>4 DEF WorkerStep

(* What a worker adds to the stream is settled.                             *)
LEMMA WorkersKeepVerdicts ==
  ASSUME TypeOK, ConnectionsAreReal, AssignedOnce, RunsAreOrderly, VerdictsAreFinal, WorkerStep
  PROVE  VerdictsAreFinal'
<1>1. PICK G : G = Settled'
  OBVIOUS
<1>2. G \in SUBSET Cells /\ Settled \subseteq G
  BY <1>1, WorkersGoOn, SettledStays
<1>3. up' \in [Procs -> Seq(G)] /\ sending' \in [Procs -> Seq(G)]
  BY <1>1, <1>2, WorkersSendSettled
<1>4. \A p \in Procs : reader'[p] \in Seq(G)
  <2>1. \A p \in Procs : reader'[p] \in Seq(Settled)
    BY DEF WorkerStep, reactorVars, VerdictsAreFinal
  <2> QED BY <1>2, <2>1
<1>5. \A p \in Procs : up'[p] \in Seq(G) /\ sending'[p] \in Seq(G)
  BY <1>3
<1>6. \A a \in Attempts : HasVerdict(a)'
  BY ThreadsHaveVerdicts
<1> QED BY <1>1, <1>4, <1>5, <1>6 DEF VerdictsAreFinal, HasVerdict

(* What the coordinator keeps of the stream was on it.                      *)
LEMMA CoordinatorKeepsVerdicts ==
  ASSUME TypeOK, ConnectionsAreReal, VerdictsAreFinal, CoordinatorStep
  PROVE  VerdictsAreFinal'
<1>1. UNCHANGED <<thread, run, verdict, sending>>
  BY DEF CoordinatorStep, workerVars
<1>2. PICK G : G = Settled
  OBVIOUS
<1>3. G \in SUBSET Cells /\ G = Settled'
  BY <1>1, <1>2 DEF Settled
<1>4. up \in [Procs -> Seq(G)] /\ reader \in [Procs -> Seq(G)] /\ \A p \in Procs : sending[p] \in Seq(G)
  BY <1>2 DEF VerdictsAreFinal, TypeOK, TransportTypes, ReactorTypes
<1>5. \A p \in Procs : up'[p] \in Seq(G) /\ reader'[p] \in Seq(G)
  <2>1. CASE \E p \in Procs : Recv(p)
    <3>1. PICK p \in Procs : Recv(p)
      BY <2>1
    <3>2. Received(G, p)
      BY <1>3, <1>4, <3>1, RecvEffects
    <3> QED BY <1>4, <3>2 DEF Received
  <2>2. CASE EndTurn \/ LeaveLoop
    <3>1. PICK gone \in SUBSET Procs : Reaped(gone)
      BY <2>2, TurnEnds
    <3> QED BY <1>4, <3>1, EmptyRow DEF Reaped, Shut
  <2>3. CASE \E p \in Procs : RecvFails(p)
    BY <1>4, <2>3, EmptyRow DEF RecvFails
  <2>4. CASE \E p \in Procs : Reset(p) /\ UNCHANGED reactorVars
    BY <1>4, <2>4, EmptyRow DEF Reset, reactorVars
  <2>5. CASE (\E p \in Procs : Accept(p) \/ Send(p) \/ \E a \in Attempts : Assign(a, p))
             \/ (\E a \in Attempts : Beaten(a)) \/ Shutdown
    <3>1. UNCHANGED <<up, reader>>
      BY <2>5 DEF Accept, Send, Assign, Beaten, Shutdown, reactorVars, transportVars
    <3> QED BY <1>4, <3>1
  <2> QED BY <2>1, <2>2, <2>3, <2>4, <2>5 DEF CoordinatorStep, ReactorStep, Serve
<1>6. \A a \in Attempts : HasVerdict(a)
  BY DEF VerdictsAreFinal, HasVerdict
<1>7. \A a \in Attempts : HasVerdict(a)'
  BY <1>1, <1>6 DEF HasVerdict, IsVerdict
<1> QED BY <1>1, <1>3, <1>4, <1>5, <1>7 DEF VerdictsAreFinal, HasVerdict

-----------------------------------------------------------------------------
(***************************************************************************)
(* How an attempt goes on in the coordinator's books.                        *)
(***************************************************************************)

EndsOf(a) ==
  /\ attempt[a].state = "assigned" /\ attempt'[a].with = attempt[a].with
  /\ \/ attempt'[a].state = "lost" /\ session'[attempt[a].with] = "closed"
     \/ attempt'[a].state = "failed" /\ thread[a] \in {"sent", "done"}
     \/ attempt'[a].state = "reported" /\ thread[a] \in {"sent", "done"} /\ run[a].made

(* It stays as it is, it is assigned, or it ends: with its session, or by a   *)
(* verdict that its thread has sent.                                        *)
AttemptGoesOn(a) ==
  \/ attempt'[a].state = attempt[a].state /\ attempt'[a].with = attempt[a].with
  \/ EndsOf(a)
  \/ \E p \in Procs : Assign(a, p)

(* Every step of the coordinator takes an attempt on in one of these ways.    *)
LEMMA AttemptsGoOn ==
  ASSUME TypeOK, ConnectionsAreReal, VerdictsAreFinal, CoordinatorStep, NEW b \in Attempts
  PROVE  AttemptGoesOn(b)
<1> USE DEF TypeOK, ReactorTypes
<1>0. attempt[b] \in AttemptRecords
  OBVIOUS
<1>1. CASE \E p \in Procs : Recv(p)
  <2>1. PICK p \in Procs : Recv(p)
    BY <1>1
  <2>2. PICK G : G = Settled
    OBVIOUS
  <2>3. G \in SUBSET Cells
    BY <2>2 DEF Settled
  <2>4. up \in [Procs -> Seq(G)] /\ reader \in [Procs -> Seq(G)]
    BY <2>2 DEF VerdictsAreFinal, TransportTypes
  <2>5. Received(G, p)
    BY <2>1, <2>3, <2>4, RecvEffects
  <2>6. attempt' = attempt \/ EndedByVerdicts(FramesOf(G), p, attempt')
    BY <2>5 DEF Received, Dispatched
  <2>7. attempt'[b] = attempt[b] \/ EndedBy(FramesOf(G), p, b, attempt'[b])
    BY <2>6 DEF EndedByVerdicts
  <2>8. ASSUME EndedBy(FramesOf(G), p, b, attempt'[b]) PROVE EndsOf(b)
    <3>1. ASSUME NEW op \in {"ReportOutput", "FailAttempt"}, Verdicts(FramesOf(G), b, op)
          PROVE  thread[b] \in {"sent", "done"} /\ (op = "ReportOutput" => run[b].made)
      <4>1. PICK f \in FramesOf(G) : f.op = op /\ f.attempt = b
        BY <3>1 DEF Verdicts
      <4>2. Message("Malformed").op = "Malformed"
        BY FrameTypes DEF Ops
      <4>3. PICK c \in G : f = c.frame
        BY <4>1, <4>2 DEF FramesOf
      <4> QED BY <2>2, <4>1, <4>3 DEF Settled, IsVerdict
    <3>2. attempt[b].state = "assigned"
      BY <2>8 DEF EndedBy
    <3>3. PICK state \in {"reported", "failed"} :
            /\ attempt'[b] = [attempt[b] EXCEPT !.state = state]
            /\ Verdicts(FramesOf(G), b, IF state = "reported" THEN "ReportOutput" ELSE "FailAttempt")
      BY <2>8 DEF EndedBy
    <3>4. attempt'[b].state = state /\ attempt'[b].with = attempt[b].with
      BY <1>0, <3>3 DEF AttemptRecords
    <3>5. thread[b] \in {"sent", "done"}
      BY <3>1, <3>3
    <3>6. state = "reported" => run[b].made
      BY <3>1, <3>3
    <3> QED BY <3>2, <3>3, <3>4, <3>5, <3>6 DEF EndsOf
  <2> QED BY <2>7, <2>8 DEF AttemptGoesOn
<1>2. CASE EndTurn \/ LeaveLoop
  <2>1. PICK gone \in SUBSET Procs : Reaped(gone)
    BY <1>2, TurnEnds
  <2>2. attempt'[b] = (IF \E p \in gone : b \in Holds(p) THEN [attempt[b] EXCEPT !.state = "lost"] ELSE attempt[b])
        /\ session' = [p \in Procs |-> IF p \in gone THEN "closed" ELSE session[p]]
    BY <2>1 DEF Reaped, Disconnect
  <2>3. CASE \E p \in gone : b \in Holds(p)
    <3>1. PICK p \in gone : attempt[b].state = "assigned" /\ attempt[b].with = p
      BY <2>3 DEF Holds
    <3>2. attempt'[b].state = "lost" /\ attempt'[b].with = attempt[b].with
      BY <1>0, <2>2, <2>3 DEF AttemptRecords
    <3>3. session'[attempt[b].with] = "closed"
      BY <2>2, <3>1
    <3> QED BY <3>1, <3>2, <3>3 DEF EndsOf, AttemptGoesOn
  <2>4. CASE ~\E p \in gone : b \in Holds(p)
    BY <2>2, <2>4 DEF AttemptGoesOn
  <2> QED BY <2>3, <2>4
<1>3. CASE \E p \in Procs, a \in Attempts : Assign(a, p)
  <2>1. PICK p \in Procs, a \in Attempts : Assign(a, p)
    BY <1>3
  <2>2. a # b => attempt'[b] = attempt[b]
    BY <2>1 DEF Assign
  <2> QED BY <2>1, <2>2 DEF AttemptGoesOn
<1>4. CASE \E a \in Attempts : Beaten(a)
  <2>1. PICK a \in Attempts : attempt' = [attempt EXCEPT ![a].beaten = TRUE]
    BY <1>4 DEF Beaten
  <2>2. attempt'[b].state = attempt[b].state /\ attempt'[b].with = attempt[b].with
    BY <1>0, <2>1 DEF AttemptRecords
  <2> QED BY <2>2 DEF AttemptGoesOn
<1>5. CASE (\E p \in Procs : Accept(p) \/ Send(p) \/ RecvFails(p)) \/ Shutdown
           \/ \E p \in Procs : Reset(p) /\ UNCHANGED reactorVars
  <2>1. UNCHANGED attempt
    BY <1>5 DEF Accept, Send, RecvFails, Shutdown, reactorVars
  <2> QED BY <2>1 DEF AttemptGoesOn
<1> QED BY <1>1, <1>2, <1>3, <1>4, <1>5 DEF CoordinatorStep, ReactorStep, Serve

(* A session that is closed stays closed.                                    *)
LEMMA ClosedForGood ==
  ASSUME TypeOK, ConnectionsAreReal, CoordinatorStep, NEW p \in Procs, session[p] = "closed"
  PROVE  session'[p] = "closed"
<1> USE DEF TypeOK, ReactorTypes
<1>1. CASE \E q \in Procs : Recv(q)
  <2>1. PICK q \in Procs : Recv(q)
    BY <1>1
  <2>2. Received(Cells, q)
    BY <2>1, RecvEffects DEF TransportTypes
  <2>3. session'[p] = session[p] \/ q = p
    BY <2>2 DEF Received
  <2>4. session[q] \in {"none", "registered", "ready"}
    BY <2>2 DEF Received
  <2> QED BY <2>3, <2>4
<1>2. CASE EndTurn \/ LeaveLoop
  <2>1. PICK gone \in SUBSET Procs : Reaped(gone)
    BY <1>2, TurnEnds
  <2> QED BY <2>1 DEF Reaped, Disconnect
<1>3. CASE ~(\E q \in Procs : Recv(q)) /\ ~EndTurn /\ ~LeaveLoop
  <2>1. UNCHANGED session
    BY <1>3 DEF CoordinatorStep, ReactorStep, Serve, Accept, Send, RecvFails, Assign, Beaten, Shutdown, reactorVars
  <2> QED BY <2>1
<1> QED BY <1>1, <1>2, <1>3

(* An attempt is reported only by a frame of the stream, which is settled,  *)
(* and what was made stays made.                                            *)
LEMMA ReportsAreBuilt ==
  ASSUME TypeOK, ConnectionsAreReal, AssignedOnce, RunsAreOrderly, VerdictsAreFinal, ReportIsCleanlyBuilt,
         WorkerStep \/ CoordinatorStep
  PROVE  ReportIsCleanlyBuilt'
<1> SUFFICES ASSUME NEW a \in Attempts, attempt'[a].state = "reported" PROVE run'[a].made
  BY DEF ReportIsCleanlyBuilt
<1>1. CASE WorkerStep
  <2>1. attempt[a].state = "reported"
    BY <1>1 DEF WorkerStep, reactorVars
  <2>2. run[a].made
    BY <2>1 DEF ReportIsCleanlyBuilt
  <2> QED BY <1>1, <2>2, WorkersGoOn DEF GoesOnOf
<1>2. CASE CoordinatorStep
  <2>1. UNCHANGED run
    BY <1>2 DEF CoordinatorStep, workerVars
  <2>2. AttemptGoesOn(a)
    BY <1>2, AttemptsGoOn
  <2>3. ASSUME NEW p \in Procs, Assign(a, p) PROVE FALSE
    <3>1. PICK r \in AttemptRecords, q \in Seq(Frames) : Assigning(a, p, r, q)
      BY <2>3, Assigned
    <3>2. attempt[a] \in AttemptRecords /\ attempt \in [Attempts -> AttemptRecords]
      BY DEF TypeOK, ReactorTypes
    <3>3. r.state = "assigned" /\ attempt'[a] = r
      BY <3>1, <3>2 DEF Assigning, AttemptRecords
    <3> QED BY <3>3
  <2>4. CASE attempt[a].state = "reported"
    BY <2>1, <2>4 DEF ReportIsCleanlyBuilt
  <2>5. CASE attempt[a].state # "reported"
    BY <2>1, <2>2, <2>3, <2>5 DEF AttemptGoesOn, EndsOf
  <2> QED BY <2>4, <2>5
<1> QED BY <1>1, <1>2

-----------------------------------------------------------------------------
(***************************************************************************)
(* Capacity.                                                                *)
(***************************************************************************)

(* A worker begins to compile what is assigned to it, so it uses only what  *)
(* is booked.                                                               *)
LEMMA WorkersKeepCapacity ==
  ASSUME TypeOK, AssignedOnce, CapacityIsBooked, WorkerStep
  PROVE  CapacityIsBooked'
<1> USE DEF TypeOK, WorkerTypes
<1>1. UNCHANGED <<attempt, session>>
  BY DEF WorkerStep, reactorVars
<1>2. \A p \in Procs : Booked(p)' = Booked(p)
  BY <1>1 DEF Booked
<1>3. ASSUME NEW b \in Attempts, thread'[b] \in {"begin", "compile"}
      PROVE  thread[b] \in {"begin", "compile"} \/ attempt[b].state \in {"assigned", "lost"}
  <2>1. CASE \E p \in Procs : start_compile(p)
    <3>1. PICK p \in Procs : start_compile(p)
      BY <2>1
    <3>2. b = Head(down[p]).attempt \/ thread'[b] = thread[b]
      BY <3>1 DEF start_compile, Go
    <3>3. b = Head(down[p]).attempt => attempt[b].state \in {"assigned", "lost"}
      BY <3>1, AssignmentsAreReal DEF start_compile
    <3> QED BY <1>3, <3>2, <3>3
  <2>2. CASE \E p \in Procs : Die(p)
    BY <1>3, <2>2 DEF Die
  <2>3. CASE \E a \in Attempts : ThreadStep(a) \/ CompilerExits(a)
    <3>1. PICK a \in Attempts : ThreadStep(a) \/ CompilerExits(a)
      BY <2>3
    <3>2. b # a => thread'[b] = thread[b]
      BY <3>1 DEF ThreadStep, BeginCompile, Compile, Decide, SendVerdict, Erase, CompilerExits, Go
    <3>3. b = a => thread'[b] = thread[b] \/ thread[b] = "begin" \/ thread'[b] \in {"send", "sent", "done"}
      BY <3>1 DEF ThreadStep, BeginCompile, Compile, Decide, SendVerdict, Erase, CompilerExits, Go, At
    <3> QED BY <1>3, <3>2, <3>3
  <2>4. CASE \E p \in Procs : Worker(p) \/ SendRest(p) \/ Heartbeat(p) \/ Registered(p) \/ CancelAttempt(p)
                              \/ Disconnected(p) \/ Stop(p)
    <3>1. UNCHANGED thread
      BY <2>4 DEF Worker, Start, SendRest, Heartbeat, Registered, CancelAttempt, Disconnected, Stop
    <3> QED BY <1>3, <3>1
  <2> QED BY <2>1, <2>2, <2>3, <2>4 DEF WorkerStep, MainStep
<1>4. \A a \in Attempts : thread'[a] \in {"begin", "compile"} => attempt'[a].state \in {"assigned", "lost"}
  BY <1>1, <1>3 DEF CapacityIsBooked
<1> QED BY <1>1, <1>2, <1>4 DEF CapacityIsBooked

(* pump books no more than max_inflight, and an attempt that ends gives     *)
(* back only what no thread compiles any longer.                            *)
LEMMA CoordinatorKeepsCapacity ==
  ASSUME TypeOK, ConnectionsAreReal, AssignedOnce, VerdictsAreFinal, CapacityIsBooked, CoordinatorStep
  PROVE  CapacityIsBooked'
<1> USE DEF TypeOK, ReactorTypes
<1>1. UNCHANGED thread
  BY DEF CoordinatorStep, workerVars
<1>2. \A a \in Attempts : AttemptGoesOn(a)
  BY AttemptsGoOn
<1>3. ASSUME NEW a \in Attempts, NEW p \in Procs, Assign(a, p)
      PROVE  /\ attempt[a].state = "absent" /\ session[p] = "ready" /\ in_flight(p) < MaxInflight
             /\ attempt'[a].state = "assigned" /\ attempt'[a].with = p
             /\ \A b \in Attempts \ {a} : attempt'[b] = attempt[b]
  <2>1. PICK r \in AttemptRecords, q \in Seq(Frames) : Assigning(a, p, r, q)
    BY <1>3, Assigned
  <2>2. attempt[a] \in AttemptRecords /\ attempt \in [Attempts -> AttemptRecords]
    OBVIOUS
  <2>3. r.state = "assigned" /\ r.with = p /\ attempt' = [attempt EXCEPT ![a] = r]
    BY <2>1, <2>2 DEF Assigning, AttemptRecords
  <2>4. attempt[a].state = "absent" /\ session[p] = "ready" /\ in_flight(p) < MaxInflight
    BY <1>3 DEF Assign, Assignable
  <2> QED BY <2>2, <2>3, <2>4
<1>4. ASSUME NEW a \in Attempts, thread'[a] \in {"begin", "compile"} PROVE attempt'[a].state \in {"assigned", "lost"}
  <2>1. attempt[a].state \in {"assigned", "lost"} /\ thread[a] \notin {"sent", "done"}
    BY <1>1, <1>4 DEF CapacityIsBooked
  <2> QED BY <1>2, <1>3, <2>1 DEF AttemptGoesOn, EndsOf
<1>5. ASSUME NEW a \in Attempts, attempt'[a].state # "absent" PROVE attempt'[a].with \in Procs
  <2>1. CASE \E p \in Procs : Assign(a, p)
    BY <1>3, <2>1
  <2>2. CASE ~\E p \in Procs : Assign(a, p)
    <3>1. attempt[a].state # "absent" /\ attempt'[a].with = attempt[a].with
      BY <1>2, <1>5, <2>2 DEF AttemptGoesOn, EndsOf
    <3> QED BY <3>1 DEF CapacityIsBooked
  <2> QED BY <2>1, <2>2
<1>6. ASSUME NEW a \in Attempts, attempt'[a].state = "lost" PROVE session'[attempt'[a].with] = "closed"
  <2>1. CASE attempt'[a].state = attempt[a].state /\ attempt'[a].with = attempt[a].with
    <3>1. session[attempt[a].with] = "closed" /\ attempt[a].with \in Procs
      BY <1>6, <2>1 DEF CapacityIsBooked
    <3> QED BY <2>1, <3>1, ClosedForGood
  <2>2. CASE EndsOf(a)
    BY <1>6, <2>2 DEF EndsOf
  <2>3. CASE \E p \in Procs : Assign(a, p)
    BY <1>3, <1>6, <2>3
  <2> QED BY <1>2, <2>1, <2>2, <2>3 DEF AttemptGoesOn
<1>7. ASSUME NEW p \in Procs PROVE Cardinality(Booked(p)') <= MaxInflight
  <2>0. PICK B, C : B = Booked(p) /\ C = Booked(p)'
    OBVIOUS
  <2>1. IsFiniteSet(B) /\ IsFiniteSet(C) /\ Cardinality(B) \in Nat /\ Cardinality(C) \in Nat /\ Cardinality(B) <= MaxInflight
    <3>1. B \subseteq Attempts /\ C \subseteq Attempts
      BY <2>0 DEF Booked
    <3> QED BY <2>0, <3>1, TransportConstants, FS_Subset, FS_CardinalityType DEF CapacityIsBooked
  <2>2. CASE \E a \in Attempts : Assign(a, p)
    <3>1. PICK a \in Attempts : Assign(a, p)
      BY <2>2
    <3>2. B = Holds(p)
      <4>1. \A b \in Attempts : attempt[b].state = "lost" => attempt[b].with # p
        BY <1>3, <3>1 DEF CapacityIsBooked
      <4> QED BY <2>0, <4>1 DEF Booked, Holds
    <3>3. C = B \cup {a} /\ a \notin B
      BY <1>3, <2>0, <3>1 DEF Booked
    <3>4. Cardinality(C) = Cardinality(B) + 1
      BY <2>1, <3>3, FS_AddElement
    <3>5. Cardinality(B) < MaxInflight
      BY <1>3, <3>1, <3>2 DEF in_flight
    <3> QED BY <2>0, <2>1, <3>4, <3>5, ReactorConstants
  <2>3. CASE ~\E a \in Attempts : Assign(a, p)
    <3>1. ASSUME NEW b \in C PROVE b \in B
      <4>1. b \in Attempts /\ attempt'[b].state \in {"assigned", "lost"} /\ attempt'[b].with = p
        BY <2>0 DEF Booked
      <4>2. ASSUME NEW q \in Procs, Assign(b, q) PROVE FALSE
        BY <1>3, <2>3, <4>1, <4>2
      <4> QED BY <1>2, <2>0, <4>1, <4>2 DEF AttemptGoesOn, EndsOf, Booked
    <3>2. C \subseteq B
      BY <3>1
    <3>3. Cardinality(C) <= Cardinality(B)
      BY <2>1, <3>2, FS_Subset
    <3> QED BY <2>0, <2>1, <3>3, ReactorConstants
  <2> QED BY <2>2, <2>3
<1> QED BY <1>4, <1>5, <1>6, <1>7 DEF CapacityIsBooked

-----------------------------------------------------------------------------
(***************************************************************************)
(* Assignments on their way.                                                *)
(***************************************************************************)

(* The assignments in v are those in w, d places further on.                 *)
Carried(v, w, d) ==
  \A i \in 1..Len(v) : v[i].op = "Assign" => i + d \in 1..Len(w) /\ v[i] = w[i + d]

(* The worker takes a frame; the coordinator queues others, or drops what it  *)
(* has queued; the connection breaks.                                       *)
LEMMA RowsCarried ==
  ASSUME NEW d \in Seq(Frames), NEW o \in Seq(Frames), NEW k \in Nat, k <= Len(o)
  PROVE  /\ d # <<>> => Carried(Row(Tail(d), o, k), Row(d, o, k), 1)
         /\ \A q \in Extended(o) : Carried(Row(d, q, k), Row(d, o, k), 0)
         /\ Carried(Row(d, <<>>, 0), Row(d, o, k), 0)
         /\ Carried(Row(<<>>, o, k), Row(d, o, k), Len(d))
<1>0. <<>> \in Seq(Frames) /\ Len(<<>>) = 0 /\ Len(d) \in Nat /\ Len(o) \in Nat
  BY EmptyRow, LenProperties
<1>1. PICK w : w = Row(d, o, k)
  OBVIOUS
<1>2. /\ w \in Seq(Frames) /\ Len(w) = Len(d) + (Len(o) - k)
      /\ \A i \in 1..Len(d) : w[i] = d[i]
      /\ \A i \in 1..Len(w) : i > Len(d) => w[i] = o[k + (i - Len(d))]
  BY <1>1, RowFrames
<1>3. ASSUME d # <<>> PROVE Carried(Row(Tail(d), o, k), w, 1)
  <2>1. PICK t \in Seq(Frames) : t = Tail(d) /\ Len(t) = Len(d) - 1 /\ Len(t) \in Nat /\ \A i \in 1..Len(t) : t[i] = d[i + 1]
    BY <1>3, HeadTailProperties, LenProperties, EmptyRow
  <2>2. PICK v : v = Row(t, o, k)
    OBVIOUS
  <2>3. /\ Len(v) = Len(t) + (Len(o) - k)
        /\ \A i \in 1..Len(t) : v[i] = t[i]
        /\ \A i \in 1..Len(v) : i > Len(t) => v[i] = o[k + (i - Len(t))]
    BY <2>2, RowFrames
  <2>4. ASSUME NEW i \in 1..Len(v) PROVE i + 1 \in 1..Len(w) /\ v[i] = w[i + 1]
    <3>1. i + 1 \in 1..Len(w)
      BY <1>0, <1>2, <2>1, <2>3
    <3>2. CASE i <= Len(t)
      <4>1. i \in 1..Len(t) /\ i + 1 \in 1..Len(d)
        BY <1>0, <2>1, <3>2
      <4> QED BY <1>2, <2>1, <2>3, <3>1, <4>1
    <3>3. CASE i > Len(t)
      <4>1. i + 1 > Len(d) /\ i - Len(t) = (i + 1) - Len(d)
        BY <1>0, <2>1, <3>3
      <4>2. v[i] = o[k + (i - Len(t))] /\ w[i + 1] = o[k + ((i + 1) - Len(d))]
        BY <1>2, <2>3, <3>1, <3>3, <4>1
      <4> QED BY <3>1, <4>1, <4>2
    <3> QED BY <1>0, <2>1, <3>2, <3>3
  <2>5. Carried(v, w, 1)
    BY <2>4 DEF Carried
  <2> QED BY <2>1, <2>2, <2>5
<1>4. ASSUME NEW q \in Extended(o) PROVE Carried(Row(d, q, k), w, 0)
  <2>1. /\ q \in Seq(Frames) /\ Len(q) >= Len(o) /\ Len(q) \in Nat /\ \A i \in 1..Len(o) : q[i] = o[i]
        /\ \A i \in 1..Len(q) : i > Len(o) => q[i].op # "Assign"
    BY LenProperties DEF Extended
  <2>2. PICK v : v = Row(d, q, k)
    OBVIOUS
  <2>3. k <= Len(q)
    BY <1>0, <2>1
  <2>4. /\ Len(v) = Len(d) + (Len(q) - k)
        /\ \A i \in 1..Len(d) : v[i] = d[i]
        /\ \A i \in 1..Len(v) : i > Len(d) => v[i] = q[k + (i - Len(d))]
    BY <2>1, <2>2, <2>3, RowFrames
  <2>5. ASSUME NEW i \in 1..Len(v), v[i].op = "Assign" PROVE i + 0 \in 1..Len(w) /\ v[i] = w[i + 0]
    <3>0. i + 0 = i /\ i \in Int
      OBVIOUS
    <3>1. CASE i <= Len(d)
      BY <1>0, <1>2, <2>4, <3>0, <3>1
    <3>2. CASE i > Len(d)
      <4>1. v[i] = q[k + (i - Len(d))] /\ k + (i - Len(d)) \in 1..Len(q)
        BY <1>0, <2>1, <2>4, <3>2
      <4>2. k + (i - Len(d)) <= Len(o)
        BY <1>0, <2>1, <2>5, <4>1
      <4>3. i \in 1..Len(w) /\ k + (i - Len(d)) \in 1..Len(o)
        BY <1>0, <1>2, <3>2, <4>1, <4>2
      <4> QED BY <1>2, <2>1, <3>0, <3>2, <4>1, <4>3
    <3> QED BY <1>0, <3>1, <3>2
  <2>6. Carried(v, w, 0)
    BY <2>5 DEF Carried
  <2> QED BY <2>2, <2>6
<1>5. Carried(Row(d, <<>>, 0), w, 0)
  <2>1. PICK v : v = Row(d, <<>>, 0)
    OBVIOUS
  <2>2. Len(v) = Len(d) /\ \A i \in 1..Len(d) : v[i] = d[i]
    <3>1. PICK e, z : e = <<>> /\ z = 0
      OBVIOUS
    <3>2. e \in Seq(Frames) /\ Len(e) = 0 /\ z \in Nat /\ z <= Len(e) /\ v = Row(d, e, z)
      BY <1>0, <2>1, <3>1
    <3>3. Len(v) = Len(d) + (Len(e) - z) /\ \A i \in 1..Len(d) : v[i] = d[i]
      BY <3>2, RowFrames
    <3> QED BY <1>0, <3>1, <3>2, <3>3
  <2>3. ASSUME NEW i \in 1..Len(v) PROVE i + 0 \in 1..Len(w) /\ v[i] = w[i + 0]
    <3>1. i + 0 = i /\ i \in 1..Len(d) /\ i \in 1..Len(w)
      BY <1>0, <1>2, <2>2
    <3> QED BY <1>2, <2>2, <3>1
  <2>4. Carried(v, w, 0)
    BY <2>3 DEF Carried
  <2> QED BY <2>1, <2>4
<1>6. Carried(Row(<<>>, o, k), w, Len(d))
  <2>1. PICK v, e : v = Row(e, o, k) /\ e = <<>>
    OBVIOUS
  <2>2. e \in Seq(Frames) /\ Len(e) = 0
    BY <1>0, <2>1
  <2>3. Len(v) = 0 + (Len(o) - k) /\ \A i \in 1..Len(v) : i > Len(e) => v[i] = o[k + (i - Len(e))]
    <3>1. Len(v) = Len(e) + (Len(o) - k) /\ \A i \in 1..Len(v) : i > Len(e) => v[i] = o[k + (i - Len(e))]
      <4>1. v = Row(e, o, k) /\ e \in Seq(Frames)
        BY <2>1, <2>2
      <4> QED BY <4>1, RowFrames
    <3> QED BY <2>2, <3>1
  <2>4. ASSUME NEW i \in 1..Len(v) PROVE i + Len(d) \in 1..Len(w) /\ v[i] = w[i + Len(d)]
    <3>1. i + Len(d) \in 1..Len(w) /\ i + Len(d) > Len(d) /\ (i + Len(d)) - Len(d) = i /\ i > Len(e) /\ i - Len(e) = i
      BY <1>0, <1>2, <2>2, <2>3
    <3>2. v[i] = o[k + i]
      BY <2>3, <3>1
    <3>3. w[i + Len(d)] = o[k + ((i + Len(d)) - Len(d))]
      BY <1>2, <3>1
    <3> QED BY <3>1, <3>2, <3>3
  <2>5. Carried(v, w, Len(d))
    BY <2>4 DEF Carried
  <2> QED BY <2>1, <2>5
<1> QED BY <1>1, <1>3, <1>4, <1>5, <1>6

(* A send moves frames and changes nothing.                                  *)
LEMMA RowSent ==
  ASSUME NEW d \in Seq(Frames), NEW o \in Seq(Frames), NEW k \in Nat, NEW now \in Nat, k <= now, now <= Len(o),
         NEW q \in Seq(Frames), NEW n \in Nat,
         n <= Len(q), Len(q) - n = Len(o) - now, n < Len(q) => q = o
  PROVE  Carried(Row(d \o SubSeq(o, k + 1, now), q, n), Row(d, o, k), 0)
<1>0. Len(d) \in Nat /\ Len(o) \in Nat /\ Len(q) \in Nat
  BY LenProperties
<1>1. PICK s : s = SubSeq(o, k + 1, now)
  OBVIOUS
<1>2. s \in Seq(Frames) /\ Len(s) = now - k /\ \A i \in 1..Len(s) : s[i] = o[k + i]
  <2>1. \A i \in (k + 1)..now : o[i] \in Frames
    BY <1>0, ElementOfSeq
  <2>2. k + 1 \in Int /\ now \in Int
    OBVIOUS
  <2>3. s \in Seq(Frames) /\ Len(s) = (IF k + 1 <= now THEN now - (k + 1) + 1 ELSE 0)
        /\ \A i \in 1..(now - (k + 1) + 1) : s[i] = o[(k + 1) + i - 1]
    BY <1>1, <2>1, <2>2, SubSeqProperties
  <2>4. Len(s) = now - k
    BY <2>3
  <2>5. ASSUME NEW i \in 1..Len(s) PROVE s[i] = o[k + i]
    <3>1. i \in 1..(now - (k + 1) + 1) /\ (k + 1) + i - 1 = k + i
      BY <2>4
    <3> QED BY <2>3, <3>1
  <2> QED BY <2>3, <2>4, <2>5
<1>3. PICK e \in Seq(Frames) :
        /\ e = d \o s /\ Len(e) = Len(d) + Len(s) /\ Len(s) \in Nat
        /\ \A i \in 1..(Len(d) + Len(s)) : e[i] = IF i <= Len(d) THEN d[i] ELSE s[i - Len(d)]
  <2>1. s \in Seq(Frames) /\ Len(s) \in Nat
    BY <1>2, LenProperties
  <2>2. d \o s \in Seq(Frames) /\ Len(d \o s) = Len(d) + Len(s)
        /\ \A i \in 1..(Len(d) + Len(s)) : (d \o s)[i] = IF i <= Len(d) THEN d[i] ELSE s[i - Len(d)]
    BY <2>1, ConcatProperties
  <2> QED BY <2>1, <2>2
<1>4. PICK v, w : v = Row(e, q, n) /\ w = Row(d, o, k)
  OBVIOUS
<1>5. /\ Len(w) = Len(d) + (Len(o) - k)
      /\ \A i \in 1..Len(d) : w[i] = d[i]
      /\ \A i \in 1..Len(w) : i > Len(d) => w[i] = o[k + (i - Len(d))]
  <2>1. w = Row(d, o, k) /\ k <= Len(o)
    BY <1>0, <1>4
  <2>2. IsRow(w, d, o, k)
    BY <2>1, RowIs
  <2> QED BY <2>2 DEF IsRow
<1>6. /\ Len(v) = Len(e) + (Len(q) - n)
      /\ \A i \in 1..Len(e) : v[i] = e[i]
      /\ \A i \in 1..Len(v) : i > Len(e) => v[i] = q[n + (i - Len(e))]
  <2>1. v = Row(e, q, n)
    BY <1>4
  <2>2. IsRow(v, e, q, n)
    BY <2>1, RowIs
  <2> QED BY <2>2 DEF IsRow
<1>7. Len(v) = Len(w)
  <2>1. Len(e) = Len(d) + (now - k)
    BY <1>2, <1>3
  <2>2. Len(v) = Len(e) + (Len(q) - n) /\ Len(w) = Len(d) + (Len(o) - k)
    BY <1>5, <1>6
  <2>3. Len(v) = (Len(d) + (now - k)) + (Len(o) - now)
    BY <2>1, <2>2
  <2>4. PICK x \in Nat, y \in Nat : x = Len(d) /\ y = Len(o)
    BY <1>0
  <2>5. (x + (now - k)) + (y - now) = x + (y - k)
    OBVIOUS
  <2> QED BY <2>2, <2>3, <2>4, <2>5
<1>8. ASSUME NEW i \in 1..Len(v) PROVE v[i] = w[i]
  <2>0. i \in Int /\ i \in 1..Len(w) /\ i >= 1
    BY <1>7
  <2>1. CASE i <= Len(d)
    <3>1. i \in 1..Len(d) /\ i \in 1..Len(e) /\ i \in 1..(Len(d) + Len(s))
      BY <1>0, <1>3, <2>0, <2>1
    <3> QED BY <1>3, <1>5, <1>6, <2>1, <3>1
  <2>2. CASE i > Len(d) /\ i <= Len(e)
    <3>1. i \in 1..Len(e) /\ i \in 1..(Len(d) + Len(s)) /\ i - Len(d) \in 1..Len(s) /\ ~(i <= Len(d))
      BY <1>0, <1>3, <2>0, <2>2
    <3>2. v[i] = s[i - Len(d)]
      BY <1>3, <1>6, <3>1
    <3> QED BY <1>2, <1>5, <2>0, <2>2, <3>1, <3>2
  <2>3. CASE i > Len(e)
    <3>1. q = o /\ n = now
      <4>1. n < Len(q)
        BY <1>0, <1>3, <1>6, <2>0, <2>3
      <4> QED BY <1>0, <4>1
    <3>2. n + (i - Len(e)) = k + (i - Len(d)) /\ i > Len(d)
      <4>1. Len(e) = Len(d) + (now - k)
        BY <1>2, <1>3
      <4> QED BY <1>0, <2>0, <2>3, <3>1, <4>1
    <3> QED BY <1>5, <1>6, <2>0, <2>3, <3>1, <3>2
  <2> QED BY <1>0, <1>3, <2>0, <2>1, <2>2, <2>3
<1>9. \A i \in 1..Len(v) : i + 0 \in 1..Len(w) /\ v[i] = w[i + 0]
  BY <1>7, <1>8
<1>10. Carried(v, w, 0)
  BY <1>9 DEF Carried
<1> QED BY <1>1, <1>3, <1>4, <1>10

(* An assignment goes to the end.                                            *)
LEMMA RowAssigned ==
  ASSUME NEW d \in Seq(Frames), NEW o \in Seq(Frames), NEW k \in Nat, k <= Len(o), NEW f \in Frames
  PROVE  /\ Len(Row(d, Append(o, f), k)) = Len(Row(d, o, k)) + 1 /\ Len(Row(d, o, k)) \in Nat
         /\ \A i \in 1..Len(Row(d, o, k)) : Row(d, Append(o, f), k)[i] = Row(d, o, k)[i]
         /\ Row(d, Append(o, f), k)[Len(Row(d, o, k)) + 1] = f
<1>1. PICK q \in Seq(Frames) :
        /\ q = Append(o, f) /\ Len(q) = Len(o) + 1 /\ q[Len(o) + 1] = f
        /\ \A i \in 1..Len(o) : q[i] = o[i]
  <2>1. /\ Append(o, f) \in Seq(Frames) /\ Len(Append(o, f)) = Len(o) + 1 /\ Append(o, f)[Len(o) + 1] = f
        /\ \A i \in 1..Len(o) : Append(o, f)[i] = o[i]
    BY AppendProperties
  <2> QED BY <2>1
<1>2. Len(d) \in Nat /\ Len(o) \in Nat /\ k <= Len(q)
  BY <1>1, LenProperties
<1>3. PICK v, w : v = Row(d, q, k) /\ w = Row(d, o, k)
  OBVIOUS
<1>4. /\ Len(w) = Len(d) + (Len(o) - k)
      /\ \A i \in 1..Len(d) : w[i] = d[i]
      /\ \A i \in 1..Len(w) : i > Len(d) => w[i] = o[k + (i - Len(d))]
  BY <1>3, RowFrames
<1>5. /\ Len(v) = Len(d) + (Len(q) - k)
      /\ \A i \in 1..Len(d) : v[i] = d[i]
      /\ \A i \in 1..Len(v) : i > Len(d) => v[i] = q[k + (i - Len(d))]
  <2>1. v = Row(d, q, k) /\ k <= Len(q)
    BY <1>2, <1>3
  <2> QED BY <2>1, RowFrames
<1>6. Len(v) = Len(w) + 1 /\ Len(w) \in Nat
  BY <1>1, <1>2, <1>4, <1>5
<1>7. ASSUME NEW i \in 1..Len(w) PROVE v[i] = w[i]
  <2>1. CASE i <= Len(d)
    BY <1>2, <1>4, <1>5, <2>1
  <2>2. CASE i > Len(d)
    <3>1. i \in 1..Len(v) /\ k + (i - Len(d)) \in 1..Len(o)
      BY <1>2, <1>4, <1>6, <2>2
    <3> QED BY <1>1, <1>4, <1>5, <2>2, <3>1
  <2> QED BY <1>2, <1>6, <2>1, <2>2
<1>8. v[Len(w) + 1] = f
  <2>1. Len(w) + 1 \in 1..Len(v) /\ Len(w) + 1 > Len(d) /\ k + ((Len(w) + 1) - Len(d)) = Len(o) + 1
    BY <1>2, <1>4, <1>6
  <2> QED BY <1>1, <1>5, <2>1
<1> QED BY <1>1, <1>3, <1>6, <1>7, <1>8

(* AssignedOnce, of one worker and of one attempt.                           *)
Awaits(a, p) == thread[a] = "none" /\ attempt[a].state \in {"assigned", "lost"} /\ attempt[a].with = p
OnceOn(w, p) ==
  \A i \in 1..Len(w) : w[i].op = "Assign" =>
    /\ w[i].attempt \in Attempts /\ Awaits(w[i].attempt, p)
    /\ \A j \in 1..Len(w) : w[j].op = "Assign" /\ w[j].attempt = w[i].attempt => j = i
KnowsOwner(a) == thread[a] # "none" => attempt[a].state # "absent" /\ attempt[a].with = owner[a]

(* AssignedOnce, of each row and of each attempt.                           *)
LEMMA AssignedOneByOne ==
  AssignedOnce <=> (\A p \in Procs : OnceOn(OnTheWay(p), p)) /\ \A a \in Attempts : KnowsOwner(a)
BY DEF AssignedOnce, OnceOn, Awaits, KnowsOwner

(* Frames that are carried on are still on their way for the attempts that    *)
(* still wait.                                                              *)
LEMMA CarriedOnce ==
  ASSUME NEW p \in Procs, NEW d \in Int, NEW w, OnceOn(w, p), NEW v, Carried(v, w, d), Len(v) \in Nat,
         \A i \in 1..Len(v) : v[i].op = "Assign" /\ v[i].attempt \in Attempts /\ Awaits(v[i].attempt, p)
                                => Awaits(v[i].attempt, p)'
  PROVE  \A i \in 1..Len(v) : v[i].op = "Assign" =>
           /\ v[i].attempt \in Attempts /\ Awaits(v[i].attempt, p)'
           /\ \A j \in 1..Len(v) : v[j].op = "Assign" /\ v[j].attempt = v[i].attempt => j = i
<1> SUFFICES ASSUME NEW i \in 1..Len(v), v[i].op = "Assign"
             PROVE  /\ v[i].attempt \in Attempts /\ Awaits(v[i].attempt, p)'
                    /\ \A j \in 1..Len(v) : v[j].op = "Assign" /\ v[j].attempt = v[i].attempt => j = i
  OBVIOUS
<1>1. i + d \in 1..Len(w) /\ v[i] = w[i + d]
  BY DEF Carried
<1>2. v[i].attempt \in Attempts /\ Awaits(v[i].attempt, p)
  BY <1>1 DEF OnceOn
<1>3. ASSUME NEW j \in 1..Len(v), v[j].op = "Assign", v[j].attempt = v[i].attempt PROVE j = i
  <2>1. j + d \in 1..Len(w) /\ v[j] = w[j + d]
    BY <1>3 DEF Carried
  <2>2. j + d = i + d
    BY <1>1, <1>3, <2>1 DEF OnceOn
  <2>3. j \in Int /\ i \in Int
    OBVIOUS
  <2> QED BY <2>2, <2>3
<1> QED BY <1>2, <1>3

StillWait(v, p) ==
  \A i \in 1..Len(v) : v[i].op = "Assign" /\ v[i].attempt \in Attempts /\ Awaits(v[i].attempt, p)
                         => Awaits(v[i].attempt, p)'

(* A step that carries a row on, and leaves those who wait waiting, keeps   *)
(* its assignments single.                                                  *)
LEMMA CarriedOnceOn ==
  ASSUME NEW p \in Procs, NEW d \in Int, NEW w, OnceOn(w, p), NEW v, v = OnTheWay(p)', Carried(v, w, d), Len(v) \in Nat,
         StillWait(v, p)
  PROVE  OnceOn(OnTheWay(p), p)'
<1>1. \A i \in 1..Len(v) : v[i].op = "Assign" =>
           /\ v[i].attempt \in Attempts /\ Awaits(v[i].attempt, p)'
           /\ \A j \in 1..Len(v) : v[j].op = "Assign" /\ v[j].attempt = v[i].attempt => j = i
  BY CarriedOnce DEF StillWait
<1> QED BY <1>1 DEF OnceOn, Awaits

(* The rows before and after a step, and what is carried from one to the      *)
(* other.                                                                   *)
LEMMA TypedRows ==
  ASSUME TypeOK, NEW p \in Procs
  PROVE  /\ down[p] \in Seq(Frames) /\ outgoing[p] \in Seq(Frames) /\ sent[p] \in Nat /\ sent[p] <= Len(outgoing[p])
         /\ OnTheWay(p) = Row(down[p], outgoing[p], sent[p]) /\ Len(OnTheWay(p)) \in Nat
<1>1. /\ down[p] \in Seq(Frames) /\ outgoing[p] \in Seq(Frames) /\ sent[p] \in Nat /\ sent[p] <= Len(outgoing[p])
  BY DEF TypeOK, TransportTypes, ReactorTypes
<1>2. OnTheWay(p) \in Seq(Frames)
  BY <1>1, OnTheWayFrames
<1>3. Len(OnTheWay(p)) \in Nat
  BY <1>2, LenProperties
<1> QED BY <1>1, <1>3 DEF OnTheWay, Row

(* A worker takes at most the first frame that is on its way to it.          *)
LEMMA WorkersKeepAssignments ==
  ASSUME TypeOK, TypeOK', ThreadsAreSupervised, AssignedOnce, WorkerStep
  PROVE  AssignedOnce'
<1> USE DEF TypeOK, WorkerTypes
<1>0. (\A p \in Procs : OnceOn(OnTheWay(p), p)) /\ \A a \in Attempts : KnowsOwner(a)
  BY AssignedOneByOne
<1>1. UNCHANGED <<outgoing, sent, attempt>>
  BY DEF WorkerStep, reactorVars
<1>2. \A p \in Procs : Len(OnTheWay(p)') \in Nat
  <2>1. ASSUME NEW p \in Procs PROVE Len(OnTheWay(p)') \in Nat
    <3>1. /\ down'[p] \in Seq(Frames) /\ outgoing'[p] \in Seq(Frames) /\ sent'[p] \in Nat /\ sent'[p] <= Len(outgoing'[p])
      BY DEF TransportTypes, ReactorTypes
    <3>2. OnTheWay(p)' = Row(down'[p], outgoing'[p], sent'[p])
      BY DEF OnTheWay, Row
    <3>3. OnTheWay(p)' \in Seq(Frames)
      BY <3>1, <3>2, RowFrames
    <3> QED BY <3>3, LenProperties
  <2> QED BY <2>1
<1>3. ASSUME NEW p \in Procs, \/ down'[p] = down[p]
                              \/ down[p] # <<>> /\ down'[p] = Tail(down[p])
      PROVE  \E d \in {0, 1} : /\ Carried(OnTheWay(p)', OnTheWay(p), d)
                               /\ down'[p] # down[p] => d = 1
  <2>1. /\ OnTheWay(p) = Row(down[p], outgoing[p], sent[p]) /\ Len(OnTheWay(p)) \in Nat
        /\ down[p] \in Seq(Frames) /\ outgoing[p] \in Seq(Frames) /\ sent[p] \in Nat /\ sent[p] <= Len(outgoing[p])
    BY TypedRows
  <2>2. OnTheWay(p)' = Row(down'[p], outgoing[p], sent[p])
    BY <1>1 DEF OnTheWay, Row
  <2>3. CASE down'[p] = down[p]
    <3>1. Carried(OnTheWay(p), OnTheWay(p), 0)
      BY <2>1 DEF Carried
    <3> QED BY <2>1, <2>2, <2>3, <3>1
  <2>4. CASE down[p] # <<>> /\ down'[p] = Tail(down[p])
    <3>1. Carried(Row(Tail(down[p]), outgoing[p], sent[p]), Row(down[p], outgoing[p], sent[p]), 1)
      BY <2>1, <2>4, RowsCarried
    <3> QED BY <2>1, <2>2, <2>4, <3>1
  <2> QED BY <1>3, <2>3, <2>4
<1>4. CASE \E p \in Procs : start_compile(p)
  <2>1. PICK p \in Procs : start_compile(p)
    BY <1>4
  <2>2. PICK a \in Attempts : a = Head(down[p]).attempt /\ Awaits(a, p)
    BY <2>1, AssignmentsAreReal DEF start_compile, Awaits
  <2>3. /\ owner' = [owner EXCEPT ![a] = p] /\ thread'[a] # "none" /\ \A b \in Attempts \ {a} : thread'[b] = thread[b]
        /\ down[p] # <<>> /\ Head(down[p]).op = "Assign" /\ down' = [down EXCEPT ![p] = Tail(down[p])]
    BY <2>1, <2>2 DEF start_compile, Go
  <2>4. \A b \in Attempts : KnowsOwner(b)'
    <3>1. ASSUME NEW b \in Attempts \ {a} PROVE KnowsOwner(b)'
      BY <1>0, <1>1, <2>3 DEF KnowsOwner
    <3>2. KnowsOwner(a)'
      BY <1>1, <2>2, <2>3 DEF KnowsOwner, Awaits
    <3> QED BY <3>1, <3>2
  <2>5. ASSUME NEW q \in Procs PROVE OnceOn(OnTheWay(q), q)'
    <3>1. PICK v, w : v = OnTheWay(q)' /\ w = OnTheWay(q)
      OBVIOUS
    <3>2. OnceOn(w, q) /\ Len(v) \in Nat
      BY <1>0, <1>2, <3>1
    <3>3. \A b \in Attempts : b # a /\ Awaits(b, q) => Awaits(b, q)'
      BY <1>1, <2>3 DEF Awaits
    <3>4. CASE q # p
      <4>1. PICK d \in {0, 1} : Carried(v, w, d)
        BY <1>3, <2>3, <3>1, <3>4
      <4>2. \A b \in Attempts : Awaits(b, q) => b # a
        BY <2>2, <3>4 DEF Awaits
      <4>3. StillWait(v, q)
        BY <3>3, <4>2 DEF StillWait
      <4>4. d \in Int
        OBVIOUS
      <4> QED BY <3>1, <3>2, <4>1, <4>3, <4>4, CarriedOnceOn
    <3>5. CASE q = p
      <4>1. /\ down[p] \in Seq(Frames) /\ outgoing[p] \in Seq(Frames) /\ sent[p] \in Nat /\ sent[p] <= Len(outgoing[p])
            /\ w = Row(down[p], outgoing[p], sent[p]) /\ Len(w) \in Nat
        BY <3>1, <3>5, TypedRows
      <4>2. v = Row(Tail(down[p]), outgoing[p], sent[p])
        <5>1. down'[p] = Tail(down[p]) /\ outgoing'[p] = outgoing[p] /\ sent'[p] = sent[p]
          BY <1>1, <2>3 DEF TransportTypes
        <5>2. v = Row(down'[p], outgoing'[p], sent'[p])
          BY <3>1, <3>5 DEF OnTheWay, Row
        <5> QED BY <5>1, <5>2
      <4>3. Carried(v, w, 1)
        BY <2>3, <4>1, <4>2, RowsCarried
      <4>4. w[1] = Head(down[p]) /\ 1 \in 1..Len(w)
        <5>1. Head(down[p]) = down[p][1] /\ Len(down[p]) \in Nat \ {0} /\ Len(outgoing[p]) \in Nat
          BY <2>3, <4>1, NextFrame, LenProperties
        <5>2. IsRow(w, down[p], outgoing[p], sent[p])
          BY <4>1, RowIs
        <5>3. 1 \in 1..Len(down[p])
          BY <5>1
        <5>4. w[1] = down[p][1]
          BY <5>2, <5>3 DEF IsRow
        <5>5. Len(w) = Len(down[p]) + (Len(outgoing[p]) - sent[p])
          BY <5>2 DEF IsRow
        <5>6. 1 \in 1..Len(w)
          <6>1. PICK x \in Nat, y \in Nat, z \in Nat, t \in Nat :
                  x = Len(w) /\ y = Len(down[p]) /\ z = Len(outgoing[p]) /\ t = sent[p]
            BY <4>1, <5>1
          <6>2. y >= 1 /\ t <= z /\ x = y + (z - t)
            BY <4>1, <5>3, <5>5, <6>1
          <6>3. 1 \in 1..x
            BY <6>2
          <6> QED BY <6>1, <6>3
        <5> QED BY <5>1, <5>4, <5>6
      <4>5. ASSUME NEW i \in 1..Len(v), v[i].op = "Assign" PROVE v[i].attempt # a
        <5>1. i + 1 \in 1..Len(w) /\ v[i] = w[i + 1] /\ i + 1 # 1
          BY <3>2, <4>3, <4>5 DEF Carried
        <5>2. v[i].attempt = a => i + 1 = 1
          BY <2>2, <2>3, <3>2, <4>4, <4>5, <5>1 DEF OnceOn
        <5> QED BY <5>1, <5>2
      <4>6. StillWait(v, q)
        BY <3>3, <4>5 DEF StillWait
      <4> QED BY <3>1, <3>2, <3>5, <4>3, <4>6, CarriedOnceOn
    <3> QED BY <3>4, <3>5
  <2> QED BY <2>4, <2>5 DEF AssignedOnce, OnceOn, Awaits, KnowsOwner
<1>5. CASE ~\E p \in Procs : start_compile(p)
  <2>1. UNCHANGED owner /\ \A b \in Attempts : thread'[b] = "none" <=> thread[b] = "none"
    <3>1. CASE \E p \in Procs : Worker(p) \/ SendRest(p) \/ Heartbeat(p) \/ MainStep(p)
      BY <1>5, <3>1 DEF Worker, Start, SendRest, Heartbeat, MainStep, Registered, CancelAttempt, Disconnected, Stop
    <3>2. CASE \E p \in Procs : Die(p)
      BY <3>2 DEF Die, Active
    <3>3. CASE \E a \in Attempts : ThreadStep(a) \/ CompilerExits(a)
      BY <3>3 DEF ThreadStep, BeginCompile, Compile, Decide, SendVerdict, Erase, CompilerExits, Go, At
    <3> QED BY <3>1, <3>2, <3>3 DEF WorkerStep
  <2>2. \A p \in Procs : \/ down'[p] = down[p]
                         \/ down[p] # <<>> /\ down'[p] = Tail(down[p])
    <3>1. CASE \E p \in Procs : Worker(p) \/ SendRest(p) \/ Heartbeat(p) \/ MainStep(p)
      <4>1. PICK p \in Procs : Worker(p) \/ SendRest(p) \/ Heartbeat(p) \/ MainStep(p)
        BY <3>1
      <4>2. down' = down \/ (down[p] # <<>> /\ down' = [down EXCEPT ![p] = Tail(@)])
        BY <1>5, <4>1 DEF Worker, Start, SendRest, Heartbeat, MainStep, Registered, CancelAttempt, Disconnected, Stop,
                          transportVars
      <4> QED BY <4>2 DEF TransportTypes
    <3>2. CASE \E p \in Procs : Die(p)
      BY <3>2 DEF Die
    <3>3. CASE \E a \in Attempts : ThreadStep(a) \/ CompilerExits(a)
      BY <3>3 DEF ThreadStep, BeginCompile, Compile, Decide, SendVerdict, Erase, CompilerExits, transportVars
    <3> QED BY <3>1, <3>2, <3>3 DEF WorkerStep
  <2>3. ASSUME NEW q \in Procs PROVE OnceOn(OnTheWay(q), q)'
    <3>1. PICK v, w : v = OnTheWay(q)' /\ w = OnTheWay(q)
      OBVIOUS
    <3>2. OnceOn(w, q) /\ Len(v) \in Nat
      BY <1>0, <1>2, <3>1
    <3>3. \A b \in Attempts : Awaits(b, q) => Awaits(b, q)'
      BY <1>1, <2>1 DEF Awaits
    <3>4. PICK d \in {0, 1} : Carried(v, w, d)
      BY <1>3, <2>2, <3>1
    <3>5. StillWait(v, q)
      BY <3>3 DEF StillWait
    <3>6. d \in Int
      OBVIOUS
    <3> QED BY <3>1, <3>2, <3>4, <3>5, <3>6, CarriedOnceOn
  <2>4. \A b \in Attempts : KnowsOwner(b)'
    BY <1>0, <1>1, <2>1 DEF KnowsOwner
  <2> QED BY <2>3, <2>4 DEF AssignedOnce, OnceOn, Awaits, KnowsOwner
<1> QED BY <1>4, <1>5

(* What the coordinator does to the frames on their way, assignments apart.   *)
Onwards(v, w) == \E d \in Int : Carried(v, w, d)
MovesOn(d, o, k, e, u, n) ==
  \/ e = d /\ u \in Extended(o) /\ n = k
  \/ e = d /\ u = <<>> /\ n = 0
  \/ e = <<>> /\ u = o /\ n = k
  \/ \E now \in Nat : /\ k <= now /\ now <= Len(o) /\ e = d \o SubSeq(o, k + 1, now)
                      /\ (now = Len(o) /\ u = <<>> /\ n = 0) \/ (u = o /\ n = now)

(* A row of which some is sent, some cleared or some added that assigns     *)
(* nothing is carried on.                                                   *)
LEMMA MovedOnwards ==
  ASSUME NEW d \in Seq(Frames), NEW o \in Seq(Frames), NEW k \in Nat, k <= Len(o),
         NEW e, NEW u, NEW n, MovesOn(d, o, k, e, u, n)
  PROVE  Onwards(Row(e, u, n), Row(d, o, k))
<1>0. <<>> \in Seq(Frames) /\ Len(<<>>) = 0 /\ Len(d) \in Nat /\ Len(o) \in Nat
  BY EmptyRow, LenProperties
<1>1. PICK w, v : w = Row(d, o, k) /\ v = Row(e, u, n)
  OBVIOUS
<1>2. CASE e = d /\ u \in Extended(o) /\ n = k
  <2>1. Carried(v, w, 0)
    BY <1>1, <1>2, RowsCarried
  <2> QED BY <1>1, <2>1 DEF Onwards
<1>3. CASE e = d /\ u = <<>> /\ n = 0
  <2>1. Carried(v, w, 0)
    BY <1>1, <1>3, RowsCarried
  <2> QED BY <1>1, <2>1 DEF Onwards
<1>4. CASE e = <<>> /\ u = o /\ n = k
  <2>1. Carried(v, w, Len(d))
    BY <1>1, <1>4, RowsCarried
  <2>2. Len(d) \in Int
    BY <1>0
  <2> QED BY <1>1, <2>1, <2>2 DEF Onwards
<1>5. CASE \E now \in Nat : /\ k <= now /\ now <= Len(o) /\ e = d \o SubSeq(o, k + 1, now)
                            /\ (now = Len(o) /\ u = <<>> /\ n = 0) \/ (u = o /\ n = now)
  <2>1. PICK now \in Nat : /\ k <= now /\ now <= Len(o) /\ e = d \o SubSeq(o, k + 1, now)
                           /\ (now = Len(o) /\ u = <<>> /\ n = 0) \/ (u = o /\ n = now)
    BY <1>5
  <2>2. u \in Seq(Frames) /\ n \in Nat
    <3>1. CASE now = Len(o) /\ u = <<>> /\ n = 0
      <4>1. u \in Seq(Frames)
        BY <1>0, <3>1
      <4> QED BY <3>1, <4>1
    <3>2. CASE u = o /\ n = now
      BY <3>2
    <3> QED BY <2>1, <3>1, <3>2
  <2>3. CASE now = Len(o) /\ u = <<>> /\ n = 0
    <3>1. Len(u) = 0
      BY <1>0, <2>3
    <3>2. n <= Len(u) /\ Len(u) - n = Len(o) - now /\ ~(n < Len(u))
      BY <1>0, <2>3, <3>1
    <3>3. Carried(Row(d \o SubSeq(o, k + 1, now), u, n), Row(d, o, k), 0)
      BY <2>1, <2>2, <3>2, RowSent
    <3> QED BY <2>1, <3>3 DEF Onwards
  <2>4. CASE u = o /\ n = now
    <3>1. n <= Len(u) /\ Len(u) - n = Len(o) - now
      BY <1>0, <2>1, <2>4
    <3>2. Carried(Row(d \o SubSeq(o, k + 1, now), u, n), Row(d, o, k), 0)
      BY <2>1, <2>2, <2>4, <3>1, RowSent
    <3> QED BY <2>1, <3>2 DEF Onwards
  <2> QED BY <2>1, <2>3, <2>4
<1> QED BY <1>2, <1>3, <1>4, <1>5 DEF MovesOn

(* Every step of the coordinator but an assignment carries the rows of all  *)
(* workers on.                                                              *)
LEMMA QueuesMoveOn ==
  ASSUME TypeOK, ConnectionsAreReal, CoordinatorStep, ~\E p \in Procs, a \in Attempts : Assign(a, p), NEW q \in Procs
  PROVE  MovesOn(down[q], outgoing[q], sent[q], down'[q], outgoing'[q], sent'[q])
<1> USE DEF TypeOK, TransportTypes, ReactorTypes
<1>0. outgoing[q] \in Extended(outgoing[q])
  <2>1. outgoing[q] \in Seq(Frames) /\ Len(outgoing[q]) \in Nat
    BY LenProperties
  <2> QED BY <2>1 DEF Extended
<1>1. CASE down'[q] = down[q] /\ outgoing'[q] = outgoing[q] /\ sent'[q] = sent[q]
  BY <1>0, <1>1 DEF MovesOn
<1>2. CASE \E p \in Procs : Send(p)
  <2>1. PICK p \in Procs : Send(p)
    BY <1>2
  <2>2. PICK now \in Nat :
           /\ sent[p] <= now /\ now <= Len(outgoing[p])
           /\ down' = [down EXCEPT ![p] = @ \o SubSeq(outgoing[p], sent[p] + 1, now)]
           /\ \/ now = Len(outgoing[p]) /\ outgoing' = [outgoing EXCEPT ![p] = <<>>] /\ sent' = [sent EXCEPT ![p] = 0]
              \/ outgoing' = outgoing /\ sent' = [sent EXCEPT ![p] = now]
    BY <2>1, SendEffects
  <2>3. CASE q # p
    BY <1>1, <2>2, <2>3
  <2>4. CASE q = p
    <3>1. down'[q] = down[q] \o SubSeq(outgoing[q], sent[q] + 1, now)
      BY <2>2, <2>4
    <3>2. \/ now = Len(outgoing[q]) /\ outgoing'[q] = <<>> /\ sent'[q] = 0
          \/ outgoing'[q] = outgoing[q] /\ sent'[q] = now
      BY <2>2, <2>4
    <3> QED BY <2>2, <2>4, <3>1, <3>2 DEF MovesOn
  <2> QED BY <2>3, <2>4
<1>3. CASE \E p \in Procs : Recv(p)
  <2>1. PICK p \in Procs : Recv(p)
    BY <1>3
  <2>2. Received(Cells, p)
    BY <2>1, RecvEffects
  <2>3. UNCHANGED <<down, sent>>
    BY <2>2 DEF Received
  <2>4. CASE UNCHANGED outgoing
    BY <1>1, <2>3, <2>4
  <2>5. CASE \E s \in Dispatched(FramesOf(Cells), p) : outgoing' = [outgoing EXCEPT ![p] = @ \o s.answers]
    <3>1. PICK s \in Dispatched(FramesOf(Cells), p) : outgoing' = [outgoing EXCEPT ![p] = @ \o s.answers]
      BY <2>5
    <3>2. s.answers \in Seq(Answers)
      BY DEF Dispatched
    <3>3. CASE q # p
      BY <1>1, <2>3, <3>1, <3>3
    <3>4. CASE q = p
      <4>1. outgoing'[q] = outgoing[q] \o s.answers
        BY <3>1, <3>4
      <4>2. outgoing[q] \o s.answers \in Extended(outgoing[q])
        BY <3>2, MoreAnswers
      <4> QED BY <2>3, <4>1, <4>2 DEF MovesOn
    <3> QED BY <3>3, <3>4
  <2> QED BY <2>2, <2>4, <2>5 DEF Received
<1>4. CASE EndTurn \/ LeaveLoop
  <2>1. PICK gone \in SUBSET Procs : Reaped(gone)
    BY <1>4, TurnEnds
  <2>2. UNCHANGED down
    BY <2>1 DEF Reaped
  <2>3. CASE q \in gone
    <3>1. outgoing'[q] = <<>> /\ sent'[q] = 0
      BY <2>1, <2>3 DEF Reaped
    <3> QED BY <2>2, <3>1 DEF MovesOn
  <2>4. CASE q \notin gone
    <3>1. outgoing'[q] \in Extended(outgoing[q]) /\ sent'[q] = sent[q]
      BY <2>1, <2>4 DEF Reaped
    <3> QED BY <2>2, <3>1 DEF MovesOn
  <2> QED BY <2>3, <2>4
<1>5. CASE \E p \in Procs : Reset(p) /\ UNCHANGED reactorVars
  <2>1. PICK p \in Procs : down' = [down EXCEPT ![p] = <<>>] /\ UNCHANGED <<outgoing, sent>>
    BY <1>5 DEF Reset, reactorVars
  <2>2. CASE q # p
    BY <1>1, <2>1, <2>2
  <2>3. CASE q = p
    <3>1. down'[q] = <<>> /\ outgoing'[q] = outgoing[q] /\ sent'[q] = sent[q]
      BY <2>1, <2>3
    <3> QED BY <3>1 DEF MovesOn
  <2> QED BY <2>2, <2>3
<1>6. CASE (\E p \in Procs : Accept(p) \/ RecvFails(p)) \/ (\E a \in Attempts : Beaten(a)) \/ Shutdown
  <2>1. UNCHANGED <<down, outgoing, sent>>
    BY <1>6 DEF Accept, RecvFails, Beaten, Shutdown, reactorVars, transportVars
  <2> QED BY <1>1, <2>1
<1> QED BY <1>2, <1>3, <1>4, <1>5, <1>6 DEF CoordinatorStep, ReactorStep, Serve

(* The coordinator hands out an attempt once: pump assigns one that is      *)
(* absent, on no row and in no thread.                                      *)
LEMMA CoordinatorKeepsAssignments ==
  ASSUME TypeOK, TypeOK', ConnectionsAreReal, VerdictsAreFinal, AssignedOnce, CoordinatorStep
  PROVE  AssignedOnce'
<1>0. (\A p \in Procs : OnceOn(OnTheWay(p), p)) /\ \A a \in Attempts : KnowsOwner(a)
  BY AssignedOneByOne
<1>1. UNCHANGED <<thread, owner>>
  BY DEF CoordinatorStep, workerVars
<1>2. \A a \in Attempts : AttemptGoesOn(a)
  BY AttemptsGoOn
<1>3. ASSUME NEW q \in Procs PROVE Len(OnTheWay(q)') \in Nat /\ OnTheWay(q)' = Row(down'[q], outgoing'[q], sent'[q])
  <2>1. /\ down'[q] \in Seq(Frames) /\ outgoing'[q] \in Seq(Frames) /\ sent'[q] \in Nat /\ sent'[q] <= Len(outgoing'[q])
    BY DEF TypeOK, TransportTypes, ReactorTypes
  <2>2. OnTheWay(q)' = Row(down'[q], outgoing'[q], sent'[q])
    BY DEF OnTheWay, Row
  <2>3. OnTheWay(q)' \in Seq(Frames)
    BY <2>1, <2>2, RowFrames
  <2> QED BY <2>2, <2>3, LenProperties
<1>4. ASSUME NEW a \in Attempts, NEW p \in Procs, Assign(a, p)
      PROVE  /\ attempt[a].state = "absent" /\ attempt'[a].state = "assigned" /\ attempt'[a].with = p
             /\ \A b \in Attempts \ {a} : attempt'[b] = attempt[b]
  <2>1. PICK r \in AttemptRecords, f \in Seq(Frames) : Assigning(a, p, r, f)
    BY <1>4, Assigned
  <2>2. attempt[a] \in AttemptRecords /\ attempt \in [Attempts -> AttemptRecords]
    BY DEF TypeOK, ReactorTypes
  <2>3. r.state = "assigned" /\ r.with = p /\ attempt' = [attempt EXCEPT ![a] = r]
    BY <2>1, <2>2 DEF Assigning, AttemptRecords
  <2>4. attempt[a].state = "absent"
    BY <1>4 DEF Assign, Assignable
  <2> QED BY <2>2, <2>3, <2>4
<1>5. ASSUME NEW a \in Attempts, NEW q \in Procs, Awaits(a, q) PROVE Awaits(a, q)'
  BY <1>1, <1>2, <1>4, <1>5 DEF AttemptGoesOn, EndsOf, Awaits
<1>6. ASSUME NEW a \in Attempts PROVE KnowsOwner(a)'
  BY <1>0, <1>1, <1>2, <1>4 DEF AttemptGoesOn, EndsOf, KnowsOwner
<1>7. ASSUME NEW q \in Procs PROVE OnceOn(OnTheWay(q), q)'
  <2>1. PICK v, w : v = OnTheWay(q)' /\ w = OnTheWay(q)
    OBVIOUS
  <2>2. OnceOn(w, q) /\ Len(v) \in Nat
    BY <1>0, <1>3, <2>1
  <2>3. StillWait(v, q)
    BY <1>5 DEF StillWait
  <2>4. CASE Onwards(v, w)
    <3>1. PICK d \in Int : Carried(v, w, d)
      BY <2>4 DEF Onwards
    <3> QED BY <2>1, <2>2, <2>3, <3>1, CarriedOnceOn
  <2>5. /\ down[q] \in Seq(Frames) /\ outgoing[q] \in Seq(Frames) /\ sent[q] \in Nat /\ sent[q] <= Len(outgoing[q])
        /\ w = Row(down[q], outgoing[q], sent[q]) /\ Len(w) \in Nat
    BY <2>1, TypedRows
  <2>6. CASE ~\E p \in Procs, a \in Attempts : Assign(a, p)
    <3>1. MovesOn(down[q], outgoing[q], sent[q], down'[q], outgoing'[q], sent'[q])
      BY <2>6, QueuesMoveOn
    <3>2. Onwards(Row(down'[q], outgoing'[q], sent'[q]), Row(down[q], outgoing[q], sent[q]))
      BY <2>5, <3>1, MovedOnwards
    <3> QED BY <1>3, <2>1, <2>4, <2>5, <3>2
  <2>7. CASE \E p \in Procs, a \in Attempts : Assign(a, p)
    <3>1. PICK p \in Procs, a \in Attempts : Assign(a, p)
      BY <2>7
    <3>0. PICK r \in AttemptRecords, told \in Seq(Frames) : Assigning(a, p, r, told)
      BY <3>1, Assigned
    <3>2. /\ UNCHANGED <<down, sent>> /\ outgoing' = [outgoing EXCEPT ![p] = told]
          /\ told \in {outgoing[p], Append(outgoing[p], Concerning("Assign", a))}
      BY <3>0, <3>1 DEF Assign, Assigning, transportVars
    <3>3. CASE q # p \/ told = outgoing[p]
      <4>1. down'[q] = down[q] /\ outgoing'[q] = outgoing[q] /\ sent'[q] = sent[q]
        BY <3>2, <3>3 DEF TypeOK, ReactorTypes
      <4>2. v = w
        BY <1>3, <2>1, <2>5, <4>1
      <4>3. Carried(v, w, 0)
        BY <2>2, <4>2 DEF Carried
      <4> QED BY <2>4, <4>3 DEF Onwards
    <3>4. CASE q = p /\ told = Append(outgoing[p], Concerning("Assign", a))
      <4>1. down'[q] = down[q] /\ outgoing'[q] = Append(outgoing[q], Concerning("Assign", a)) /\ sent'[q] = sent[q]
        BY <3>2, <3>4 DEF TypeOK, ReactorTypes
      <4>2. PICK f \in Frames : f = Concerning("Assign", a) /\ f.op = "Assign" /\ f.attempt = a
        BY FrameTypes DEF Ops
      <4>3. v = Row(down[q], Append(outgoing[q], f), sent[q])
        BY <1>3, <2>1, <4>1, <4>2
      <4>4. /\ Len(v) = Len(w) + 1 /\ v[Len(w) + 1] = f
            /\ \A i \in 1..Len(w) : v[i] = w[i]
        <5>1. PICK d, o, k : d = down[q] /\ o = outgoing[q] /\ k = sent[q]
          OBVIOUS
        <5>2. d \in Seq(Frames) /\ o \in Seq(Frames) /\ k \in Nat /\ k <= Len(o)
          BY <2>5, <5>1
        <5>3. v = Row(d, Append(o, f), k) /\ w = Row(d, o, k)
          BY <2>5, <4>3, <5>1
        <5> QED BY <5>2, <5>3, RowAssigned
      <4>5. PICK n \in Nat : n = Len(w) /\ Len(v) = n + 1 /\ v[n + 1] = f /\ \A i \in 1..n : v[i] = w[i]
        BY <2>5, <4>4
      <4>6. ASSUME NEW i \in 1..n, v[i].op = "Assign"
            PROVE  /\ v[i].attempt \in Attempts /\ Awaits(v[i].attempt, q)' /\ v[i].attempt # a
                   /\ \A j \in 1..n : v[j].op = "Assign" /\ v[j].attempt = v[i].attempt => j = i
        <5>1. /\ w[i].attempt \in Attempts /\ Awaits(w[i].attempt, q)
              /\ \A j \in 1..n : w[j].op = "Assign" /\ w[j].attempt = w[i].attempt => j = i
          BY <2>2, <4>5, <4>6 DEF OnceOn
        <5>2. w[i].attempt # a
          BY <1>4, <3>1, <5>1 DEF Awaits
        <5>3. Awaits(w[i].attempt, q)'
          BY <1>5, <5>1
        <5> QED BY <4>5, <5>1, <5>2, <5>3
      <4>7. Awaits(a, q)'
        <5>1. thread[a] = "none"
          BY <1>0, <1>4, <3>1 DEF KnowsOwner
        <5> QED BY <1>1, <1>4, <3>1, <3>4, <5>1 DEF Awaits
      <4>8. ASSUME NEW i \in 1..Len(v), v[i].op = "Assign"
            PROVE  /\ v[i].attempt \in Attempts /\ Awaits(v[i].attempt, q)'
                   /\ \A j \in 1..Len(v) : v[j].op = "Assign" /\ v[j].attempt = v[i].attempt => j = i
        <5>1. i \in 1..n \/ i = n + 1
          BY <4>5
        <5>2. CASE i \in 1..n
          <6>1. ASSUME NEW j \in 1..Len(v), v[j].op = "Assign", v[j].attempt = v[i].attempt PROVE j = i
            <7>1. j \in 1..n \/ j = n + 1
              BY <4>5
            <7>2. j # n + 1
              BY <4>2, <4>5, <4>6, <4>8, <5>2, <6>1
            <7> QED BY <4>6, <4>8, <5>2, <6>1, <7>1, <7>2
          <6> QED BY <4>6, <4>8, <5>2, <6>1
        <5>3. CASE i = n + 1
          <6>1. v[i].attempt = a
            BY <4>2, <4>5, <5>3
          <6>2. ASSUME NEW j \in 1..Len(v), v[j].op = "Assign", v[j].attempt = v[i].attempt PROVE j = i
            <7>1. j \in 1..n \/ j = n + 1
              BY <4>5
            <7>2. j \notin 1..n
              BY <4>6, <6>1, <6>2
            <7> QED BY <5>3, <7>1, <7>2
          <6> QED BY <4>7, <6>1, <6>2
        <5> QED BY <5>1, <5>2, <5>3
      <4> QED BY <2>1, <4>8 DEF OnceOn, Awaits
    <3> QED BY <3>2, <3>3, <3>4
  <2> QED BY <2>6, <2>7
<1> QED BY <1>6, <1>7 DEF AssignedOnce, OnceOn, Awaits, KnowsOwner

-----------------------------------------------------------------------------
(***************************************************************************)
(* The streams the coordinator reads.                                       *)
(***************************************************************************)

(* The two parts of a concatenation.                                        *)
LEMMA Concatenated ==
  ASSUME NEW S, NEW s \in Seq(S), NEW t \in Seq(S), NEW m \in Nat, NEW n \in Nat, m = Len(s), n = Len(t)
  PROVE  /\ s \o t \in Seq(S) /\ Len(s \o t) = m + n
         /\ \A i \in 1..m : (s \o t)[i] = s[i]
         /\ \A i \in 1..n : (s \o t)[m + i] = t[i]
OBVIOUS

(* A row of cells in which every frame is whole, but for the last, and what   *)
(* is missing of that one.                                                  *)
InOrder(s) ==
  \A i \in 1..Len(s) :
    /\ s[i].part > 1 => i > 1 /\ s[i - 1].frame = s[i].frame /\ s[i - 1].part = s[i].part - 1
    /\ i > 1 /\ s[i].part = 1 => s[i - 1].part = s[i - 1].frame.parts
RestOf(s) ==
  IF Len(s) = 0 THEN <<>>
  ELSE SubSeq(encode_frame(Last(s).frame), Last(s).part + 1, Last(s).frame.parts)
IsRest(r, s) ==
  /\ r \in Seq(Cells)
  /\ Len(s) = 0 => Len(r) = 0
  /\ Len(s) > 0 => /\ Len(r) = s[Len(s)].frame.parts - s[Len(s)].part
                   /\ \A i \in 1..Len(r) : r[i].frame = s[Len(s)].frame /\ r[i].part = s[Len(s)].part + i

(* A cell is its frame and its part.                                        *)
LEMMA CellFields ==
  ASSUME NEW c \in Cells
  PROVE  /\ c.frame \in Frames /\ c.part \in Nat \ {0} /\ c.frame.parts \in Nat \ {0} /\ c.part <= c.frame.parts
         /\ Payload(c.frame) <= MaxFrame
         /\ c = [frame |-> c.frame, part |-> c.part]
BY DEF Cells, Frames

(* Cells are told apart by frame and part.                                  *)
LEMMA SameCell ==
  ASSUME NEW c \in Cells, NEW d \in Cells, c.frame = d.frame, c.part = d.part
  PROVE  c = d
BY CellFields

(* The row of cells encode_frame makes of a frame that was on the wire.     *)
LEMMA EncodedCells ==
  ASSUME NEW c \in Cells
  PROVE  /\ encode_frame(c.frame) \in Seq(Cells) /\ Len(encode_frame(c.frame)) = c.frame.parts
         /\ \A i \in 1..c.frame.parts : encode_frame(c.frame)[i] \in Cells /\ encode_frame(c.frame)[i].frame = c.frame
                                        /\ encode_frame(c.frame)[i].part = i
<1>1. PICK f : f = c.frame
  OBVIOUS
<1>2. f \in Frames /\ f.parts \in Nat \ {0} /\ Payload(f) <= MaxFrame /\ Payload(f) \in Int
  BY <1>1, CellFields DEF Payload, HeaderCells
<1>3. encode_frame(f) = [i \in 1..f.parts |-> [frame |-> f, part |-> i]]
  BY <1>2, TransportConstants DEF encode_frame
<1>4. encode_frame(f) \in Seq(Cells) /\ Len(encode_frame(f)) = f.parts
  BY <1>2, <1>3, EncodeTypes
<1>5. ASSUME NEW i \in 1..f.parts
      PROVE  encode_frame(f)[i] \in Cells /\ encode_frame(f)[i].frame = f /\ encode_frame(f)[i].part = i
  <2>1. encode_frame(f)[i] = [frame |-> f, part |-> i]
    BY <1>3
  <2>2. encode_frame(f)[i] \in Cells
    BY <1>4, ElementOfSeq
  <2> QED BY <2>1, <2>2
<1> QED BY <1>1, <1>4, <1>5

(* What RestOf computes, cell by cell.                                      *)
LEMMA RestIs ==
  ASSUME NEW s \in Seq(Cells)
  PROVE  IsRest(RestOf(s), s)
<1>0. Len(s) \in Nat
  BY LenProperties
<1>1. CASE Len(s) = 0
  BY <1>1, EmptyRow DEF RestOf, IsRest
<1>2. CASE Len(s) > 0
  <2>1. PICK c \in Cells : c = s[Len(s)] /\ c = Last(s)
    BY <1>0, <1>2, ElementOfSeq DEF Last
  <2>2. PICK e \in Seq(Cells) :
          /\ e = encode_frame(c.frame) /\ Len(e) = c.frame.parts
          /\ \A i \in 1..c.frame.parts : e[i] \in Cells /\ e[i].frame = c.frame /\ e[i].part = i
    BY EncodedCells
  <2>3. PICK k \in Nat, n \in Nat : k = c.part /\ n = c.frame.parts /\ k <= n /\ k >= 1
    BY CellFields
  <2>4. PICK r : r = SubSeq(e, k + 1, n)
    OBVIOUS
  <2>5. r \in Seq(Cells) /\ Len(r) = n - k /\ \A i \in 1..Len(r) : r[i] = e[k + i]
    <3>1. \A i \in (k + 1)..n : e[i] \in Cells
      BY <2>2, <2>3
    <3>2. k + 1 \in Int /\ n \in Int
      OBVIOUS
    <3>3. r \in Seq(Cells) /\ Len(r) = (IF k + 1 <= n THEN n - (k + 1) + 1 ELSE 0)
          /\ \A i \in 1..(n - (k + 1) + 1) : r[i] = e[(k + 1) + i - 1]
      BY <2>4, <3>1, <3>2, SubSeqProperties
    <3>4. Len(r) = n - k
      BY <2>3, <3>3
    <3>5. ASSUME NEW i \in 1..Len(r) PROVE r[i] = e[k + i]
      <4>1. i \in 1..(n - (k + 1) + 1) /\ (k + 1) + i - 1 = k + i
        BY <3>4
      <4> QED BY <3>3, <4>1
    <3> QED BY <3>3, <3>4, <3>5
  <2>6. ASSUME NEW i \in 1..Len(r) PROVE r[i].frame = c.frame /\ r[i].part = c.part + i
    <3>1. k + i \in 1..n
      BY <2>5
    <3> QED BY <2>2, <2>3, <2>5, <3>1
  <2>7. RestOf(s) = r
    <3>1. RestOf(s) = SubSeq(encode_frame(Last(s).frame), Last(s).part + 1, Last(s).frame.parts)
      <4>1. Len(s) # 0
        BY <1>0, <1>2
      <4> QED BY <4>1 DEF RestOf
    <3>2. encode_frame(Last(s).frame) = e /\ Last(s).part = k /\ Last(s).frame.parts = n
      BY <2>1, <2>2, <2>3
    <3> QED BY <2>4, <3>1, <3>2
  <2> QED BY <1>2, <2>1, <2>3, <2>5, <2>6, <2>7 DEF IsRest
<1> QED BY <1>0, <1>1, <1>2

(* There is one such rest.                                                  *)
LEMMA RestIsOne ==
  ASSUME NEW s \in Seq(Cells), NEW r, IsRest(r, s)
  PROVE  r = RestOf(s)
<1>1. PICK q : q = RestOf(s) /\ IsRest(q, s)
  BY RestIs
<1>2. Len(s) \in Nat
  BY LenProperties
<1>3. Len(q) = Len(r) /\ q \in Seq(Cells) /\ r \in Seq(Cells)
  BY <1>1, <1>2 DEF IsRest
<1>4. ASSUME NEW i \in 1..Len(q) PROVE q[i] = r[i]
  <2>1. q[i] \in Cells /\ r[i] \in Cells
    BY <1>3, ElementOfSeq
  <2>2. Len(s) > 0
    <3>1. Len(q) \in Nat /\ Len(q) # 0
      BY <1>3, LenProperties
    <3> QED BY <1>1, <1>2, <3>1 DEF IsRest
  <2>3. q[i].frame = r[i].frame /\ q[i].part = r[i].part
    BY <1>1, <1>3, <2>2 DEF IsRest
  <2> QED BY <2>1, <2>3, SameCell
<1> QED BY <1>1, <1>3, <1>4, SeqEqual

(* Another cell, the next one of the frame that is short or the first of     *)
(* another.                                                                 *)
LEMMA NextCell ==
  ASSUME NEW s \in Seq(Cells), InOrder(s), NEW r, IsRest(r, s), r # <<>>
  PROVE  Append(s, Head(r)) \in Seq(Cells) /\ InOrder(Append(s, Head(r))) /\ IsRest(Tail(r), Append(s, Head(r)))
<1>1. r \in Seq(Cells)
  BY DEF IsRest
<1>2. PICK c \in Cells, t \in Seq(Cells) :
        c = Head(r) /\ c = r[1] /\ t = Tail(r) /\ Len(t) = Len(r) - 1 /\ \A i \in 1..Len(t) : t[i] = r[i + 1]
  <2>1. Head(r) = r[1] /\ Head(r) \in Cells
    BY <1>1, HeadTailProperties
  <2>2. Tail(r) \in Seq(Cells) /\ Len(Tail(r)) = Len(r) - 1 /\ \A i \in 1..Len(Tail(r)) : Tail(r)[i] = r[i + 1]
    BY <1>1, HeadTailProperties
  <2> QED BY <2>1, <2>2
<1>3. PICK n \in Nat, m \in Nat : n = Len(s) /\ m = Len(r) /\ m >= 1
  BY <1>1, LenProperties, EmptyRow
<1>4. PICK u \in Seq(Cells) : u = Append(s, c) /\ Len(u) = n + 1 /\ u[n + 1] = c /\ \A i \in 1..n : u[i] = s[i]
  <2>1. Append(s, c) \in Seq(Cells) /\ Len(Append(s, c)) = n + 1 /\ Append(s, c)[n + 1] = c /\ \A i \in 1..n : Append(s, c)[i] = s[i]
    BY <1>3, AppendProperties
  <2> QED BY <2>1
<1>5. n > 0
  BY <1>3 DEF IsRest
<1>6. s[n] \in Cells
  BY <1>3, <1>5, ElementOfSeq
<1>7. PICK k \in Nat, p \in Nat : k = s[n].part /\ p = s[n].frame.parts /\ 1 <= k /\ k <= p
  <2>1. s[n].part \in Nat \ {0} /\ s[n].frame.parts \in Nat \ {0} /\ s[n].part <= s[n].frame.parts
    BY <1>6, CellFields
  <2> QED BY <2>1
<1>8. c.frame = s[n].frame /\ c.part = k + 1 /\ m = p - k
  BY <1>2, <1>3, <1>5, <1>7 DEF IsRest
<1>9. InOrder(u)
  <2> SUFFICES ASSUME NEW i \in 1..(n + 1)
               PROVE  /\ u[i].part > 1 => i > 1 /\ u[i - 1].frame = u[i].frame /\ u[i - 1].part = u[i].part - 1
                      /\ i > 1 /\ u[i].part = 1 => u[i - 1].part = u[i - 1].frame.parts
    BY <1>4 DEF InOrder
  <2>1. CASE i = n + 1
    <3>1. i - 1 = n /\ u[i - 1] = s[n] /\ u[i] = c /\ i > 1
      BY <1>4, <1>5, <2>1
    <3>2. c.part - 1 = k /\ c.part # 1
      BY <1>7, <1>8
    <3> QED BY <1>7, <1>8, <3>1, <3>2
  <2>2. CASE i \in 1..n
    <3>1. u[i] = s[i] /\ (i > 1 => u[i - 1] = s[i - 1])
      BY <1>4, <2>2
    <3> QED BY <1>3, <2>2, <3>1 DEF InOrder
  <2> QED BY <2>1, <2>2
<1>10. IsRest(t, u)
  <2>1. Len(u) > 0 /\ Len(u) # 0 /\ u[Len(u)] = c
    BY <1>4
  <2>2. Len(t) = c.frame.parts - c.part
    <3>1. c.frame.parts = p /\ c.part = k + 1 /\ Len(t) = m - 1 /\ m = p - k
      BY <1>2, <1>3, <1>7, <1>8
    <3> QED BY <3>1
  <2>3. ASSUME NEW i \in 1..Len(t) PROVE t[i].frame = c.frame /\ t[i].part = c.part + i
    <3>1. t[i] = r[i + 1] /\ i + 1 \in 1..Len(r)
      BY <1>2, <1>3
    <3>2. r[i + 1].frame = s[n].frame /\ r[i + 1].part = k + (i + 1)
      BY <1>3, <1>5, <1>7, <3>1 DEF IsRest
    <3>3. i \in Int
      OBVIOUS
    <3>4. k + (i + 1) = (k + 1) + i
      BY <3>3
    <3> QED BY <1>7, <1>8, <3>1, <3>2, <3>4
  <2> QED BY <2>1, <2>2, <2>3 DEF IsRest
<1> QED BY <1>2, <1>4, <1>9, <1>10

(* A frame may begin where the one before it is complete.                   *)
LEMMA FirstCell ==
  ASSUME NEW s \in Seq(Cells), InOrder(s), IsRest(<<>>, s), NEW f \in Frames, encode_frame(f) # <<>>
  PROVE  LET e == encode_frame(f)
             u == Append(s, e[1])
         IN  u \in Seq(Cells) /\ InOrder(u) /\ IsRest(Tail(e), u)
<1>1. PICK e \in Seq(Cells) :
        /\ e = encode_frame(f) /\ Len(e) = f.parts /\ e # <<>>
        /\ \A i \in 1..Len(e) : e[i] = [frame |-> f, part |-> i]
  BY EncodeTypes
<1>2. PICK m \in Nat, n \in Nat : m = Len(e) /\ m >= 1 /\ n = Len(s)
  BY <1>1, LenProperties, EmptyRow
<1>3. PICK c \in Cells, t \in Seq(Cells) :
        c = e[1] /\ t = Tail(e) /\ Len(t) = Len(e) - 1 /\ \A i \in 1..Len(t) : t[i] = e[i + 1]
  <2>1. e[1] \in Cells
    BY <1>1, <1>2, ElementOfSeq
  <2>2. Tail(e) \in Seq(Cells) /\ Len(Tail(e)) = Len(e) - 1 /\ \A i \in 1..Len(Tail(e)) : Tail(e)[i] = e[i + 1]
    BY <1>1, HeadTailProperties
  <2> QED BY <2>1, <2>2
<1>4. c.frame = f /\ c.part = 1
  <2>1. c = [frame |-> f, part |-> 1]
    BY <1>1, <1>2, <1>3
  <2> QED BY <2>1
<1>5. PICK u \in Seq(Cells) : u = Append(s, c) /\ Len(u) = n + 1 /\ u[n + 1] = c /\ \A i \in 1..n : u[i] = s[i]
  <2>1. Append(s, c) \in Seq(Cells) /\ Len(Append(s, c)) = n + 1 /\ Append(s, c)[n + 1] = c /\ \A i \in 1..n : Append(s, c)[i] = s[i]
    BY <1>2, AppendProperties
  <2> QED BY <2>1
<1>6. n > 0 => s[n].part = s[n].frame.parts
  <2>1. ASSUME n > 0 PROVE s[n].part = s[n].frame.parts
    <3>1. s[n] \in Cells
      BY <1>2, <2>1, ElementOfSeq
    <3>2. 0 = s[n].frame.parts - s[n].part
      BY <1>2, <2>1, EmptyRow DEF IsRest
    <3> QED BY <3>1, <3>2, CellFields
  <2> QED BY <2>1
<1>7. InOrder(u)
  <2> SUFFICES ASSUME NEW i \in 1..(n + 1)
               PROVE  /\ u[i].part > 1 => i > 1 /\ u[i - 1].frame = u[i].frame /\ u[i - 1].part = u[i].part - 1
                      /\ i > 1 /\ u[i].part = 1 => u[i - 1].part = u[i - 1].frame.parts
    BY <1>5 DEF InOrder
  <2>1. CASE i = n + 1
    <3>1. u[i].part = 1 /\ (i > 1 => n > 0 /\ u[i - 1] = s[n])
      BY <1>4, <1>5, <2>1
    <3> QED BY <1>6, <3>1
  <2>2. CASE i \in 1..n
    <3>1. u[i] = s[i] /\ (i > 1 => u[i - 1] = s[i - 1])
      BY <1>5, <2>2
    <3> QED BY <1>2, <2>2, <3>1 DEF InOrder
  <2> QED BY <2>1, <2>2
<1>8. IsRest(t, u)
  <2>1. Len(u) > 0 /\ Len(u) # 0 /\ u[Len(u)] = c
    BY <1>5
  <2>2. Len(t) = c.frame.parts - c.part
    BY <1>1, <1>3, <1>4
  <2>3. ASSUME NEW i \in 1..Len(t) PROVE t[i].frame = c.frame /\ t[i].part = c.part + i
    <3>1. i + 1 \in 1..Len(e) /\ i \in Int
      BY <1>2, <1>3
    <3>2. t[i] = e[i + 1] /\ e[i + 1].frame = f /\ e[i + 1].part = i + 1
      <4>1. t[i] = e[i + 1]
        BY <1>3
      <4>2. e[i + 1] = [frame |-> f, part |-> i + 1]
        BY <1>1, <3>1
      <4> QED BY <4>1, <4>2
    <3> QED BY <1>4, <3>1, <3>2
  <2> QED BY <2>1, <2>2, <2>3 DEF IsRest
<1> QED BY <1>1, <1>3, <1>5, <1>7, <1>8

(* A frame runs from its header on.                                          *)
LEMMA FrameRuns ==
  ASSUME NEW s \in Seq(Cells), InOrder(s), NEW k \in Nat, k + 1 <= Len(s), s[k + 1].part = 1,
         NEW j \in Nat \ {0}, j <= s[k + 1].frame.parts, k + j <= Len(s)
  PROVE  s[k + j].frame = s[k + 1].frame /\ s[k + j].part = j
<1>1. PICK n \in Nat : n = Len(s)
  BY LenProperties
<1>2. PICK f \in Frames, parts \in Nat : f = s[k + 1].frame /\ parts = f.parts
  <2>1. k + 1 \in 1..n
    BY <1>1
  <2>2. s[k + 1] \in Cells
    BY <1>1, <2>1, ElementOfSeq
  <2> QED BY <2>2, CellFields
<1> DEFINE Bad == {i \in 1..parts : k + i <= n /\ ~(s[k + i].frame = f /\ s[k + i].part = i)}
<1>3. ASSUME Bad # {} PROVE \E m \in Bad : \A y \in Bad : m <= y
  <2>1. Bad \in SUBSET Nat
    OBVIOUS
  <2> HIDE DEF Bad
  <2> QED BY <1>3, <2>1, LeastElement
<1>4. ASSUME NEW m \in Bad, \A y \in Bad : m <= y PROVE FALSE
  <2>1. m \in 1..parts /\ k + m <= n /\ ~(s[k + m].frame = f /\ s[k + m].part = m)
    OBVIOUS
  <2>2. m # 1
    BY <1>2, <2>1
  <2>3. m - 1 \in 1..parts /\ k + (m - 1) <= n /\ ~(m <= m - 1) /\ k + (m - 1) = (k + m) - 1 /\ k + m > 1 /\ k + m \in 1..n
    BY <2>1, <2>2
  <2>4. m - 1 \notin Bad
    BY <1>4, <2>3
  <2>5. s[(k + m) - 1].frame = f /\ s[(k + m) - 1].part = m - 1
    BY <2>3, <2>4
  <2>6. s[k + m].part \in Nat \ {0}
    BY <1>1, <2>3, ElementOfSeq, CellFields
  <2>7. s[k + m].part = 1 => s[(k + m) - 1].part = s[(k + m) - 1].frame.parts
    BY <1>1, <2>3 DEF InOrder
  <2>8. s[k + m].part > 1 => s[(k + m) - 1].frame = s[k + m].frame /\ s[(k + m) - 1].part = s[k + m].part - 1
    BY <1>1, <2>3 DEF InOrder
  <2>9. CASE s[k + m].part = 1
    <3>1. m - 1 = parts
      BY <1>2, <2>5, <2>7, <2>9
    <3> QED BY <2>1, <3>1
  <2>10. CASE s[k + m].part > 1
    <3>1. s[k + m].frame = f /\ m - 1 = s[k + m].part - 1
      BY <2>5, <2>8, <2>10
    <3>2. s[k + m].part = m
      BY <2>1, <2>6, <3>1
    <3> QED BY <2>1, <3>1, <3>2
  <2> QED BY <2>6, <2>9, <2>10
<1>5. Bad = {}
  <2> HIDE DEF Bad
  <2> QED BY <1>3, <1>4
<1>6. j \in 1..parts /\ k + j <= n
  BY <1>1, <1>2
<1> QED BY <1>2, <1>5, <1>6

(* What follows the end of a frame, and what a row begins with.              *)
Boundary(s, b) == b = 0 \/ s[b].part = s[b].frame.parts

(* What follows a boundary is in order and as short as the whole.           *)
LEMMA SuffixInOrder ==
  ASSUME NEW s \in Seq(Cells), InOrder(s), NEW b \in Nat, b <= Len(s), Boundary(s, b),
         NEW t \in Seq(Cells), Len(t) = Len(s) - b, \A i \in 1..Len(t) : t[i] = s[b + i]
  PROVE  InOrder(t) /\ RestOf(t) = RestOf(s)
<1>1. PICK n \in Nat, m \in Nat : n = Len(s) /\ m = Len(t) /\ m = n - b
  BY LenProperties
<1>2. InOrder(t)
  <2> SUFFICES ASSUME NEW i \in 1..m
               PROVE  /\ t[i].part > 1 => i > 1 /\ t[i - 1].frame = t[i].frame /\ t[i - 1].part = t[i].part - 1
                      /\ i > 1 /\ t[i].part = 1 => t[i - 1].part = t[i - 1].frame.parts
    BY <1>1 DEF InOrder
  <2>1. b + i \in 1..n /\ t[i] = s[b + i]
    BY <1>1
  <2>2. /\ s[b + i].part > 1 => b + i > 1 /\ s[(b + i) - 1].frame = s[b + i].frame /\ s[(b + i) - 1].part = s[b + i].part - 1
        /\ b + i > 1 /\ s[b + i].part = 1 => s[(b + i) - 1].part = s[(b + i) - 1].frame.parts
    BY <1>1, <2>1 DEF InOrder
  <2>3. CASE i > 1
    <3>1. i - 1 \in 1..m /\ b + (i - 1) = (b + i) - 1 /\ b + i > 1
      BY <1>1, <2>3
    <3>2. t[i - 1] = s[(b + i) - 1]
      BY <1>1, <3>1
    <3> QED BY <2>1, <2>2, <2>3, <3>1, <3>2
  <2>4. CASE i = 1
    <3>1. ASSUME s[b + 1].part > 1 PROVE FALSE
      <4>1. b + 1 > 1 /\ (b + 1) - 1 = b /\ b \in 1..n /\ b # 0
        BY <1>1, <2>1, <2>2, <2>4, <3>1
      <4>2. s[b].frame = s[b + 1].frame /\ s[b].part = s[b + 1].part - 1
        BY <2>2, <2>4, <3>1, <4>1
      <4>3. s[b].part = s[b].frame.parts
        BY <4>1 DEF Boundary
      <4>4. s[b + 1] \in Cells
        BY <1>1, <2>1, <2>4, ElementOfSeq
      <4>5. s[b + 1].part \in Nat /\ s[b + 1].frame.parts \in Nat /\ s[b + 1].part <= s[b + 1].frame.parts
        BY <4>4, CellFields
      <4>6. s[b + 1].part - 1 = s[b + 1].frame.parts
        BY <4>2, <4>3
      <4> QED BY <4>5, <4>6
    <3> QED BY <2>1, <2>4, <3>1
  <2> QED BY <2>3, <2>4
<1>3. PICK r : r = RestOf(s) /\ IsRest(r, s)
  BY RestIs
<1>4. IsRest(r, t)
  <2>1. CASE m = 0
    <3>1. n = 0 => Len(r) = 0
      BY <1>1, <1>3 DEF IsRest
    <3>2. n > 0 => Len(r) = 0
      <4>1. ASSUME n > 0 PROVE Len(r) = 0
        <5>0. n - b = 0
          BY <1>1, <2>1
        <5>1. n = b /\ b # 0 /\ n \in 1..n
          BY <4>1, <5>0
        <5>2. s[n].part = s[n].frame.parts
          BY <5>1 DEF Boundary
        <5>3. s[n].part \in Nat
          BY <1>1, <5>1, ElementOfSeq, CellFields
        <5>4. Len(r) = s[n].frame.parts - s[n].part
          BY <1>1, <1>3, <4>1 DEF IsRest
        <5> QED BY <5>2, <5>3, <5>4
      <4> QED BY <4>1
    <3>3. Len(r) = 0 /\ ~(m > 0)
      BY <1>1, <2>1, <3>1, <3>2
    <3> QED BY <1>1, <1>3, <3>3 DEF IsRest
  <2>2. CASE m > 0
    <3>1. n > 0 /\ m # 0 /\ m \in 1..m /\ b + m = n
      BY <1>1, <2>2
    <3>2. t[m] = s[n]
      BY <1>1, <3>1
    <3> QED BY <1>1, <1>3, <3>1, <3>2 DEF IsRest
  <2>3. m = 0 \/ m > 0
    OBVIOUS
  <2> QED BY <2>1, <2>2, <2>3
<1> QED BY <1>2, <1>3, <1>4, RestIsOne

(* What is in order is so up to any cell of it.                             *)
LEMMA PrefixInOrder ==
  ASSUME NEW s \in Seq(Cells), InOrder(s), NEW t \in Seq(Cells), Len(t) <= Len(s), \A i \in 1..Len(t) : t[i] = s[i]
  PROVE  InOrder(t)
<1>1. PICK n \in Nat, m \in Nat : n = Len(s) /\ m = Len(t) /\ m <= n
  BY LenProperties
<1> SUFFICES ASSUME NEW i \in 1..m
             PROVE  /\ t[i].part > 1 => i > 1 /\ t[i - 1].frame = t[i].frame /\ t[i - 1].part = t[i].part - 1
                    /\ i > 1 /\ t[i].part = 1 => t[i - 1].part = t[i - 1].frame.parts
  BY <1>1 DEF InOrder
<1>2. i \in 1..n /\ t[i] = s[i] /\ (i > 1 => i - 1 \in 1..m)
  BY <1>1
<1>3. i > 1 => t[i - 1] = s[i - 1]
  BY <1>1, <1>2
<1> QED BY <1>1, <1>2, <1>3 DEF InOrder

(* A round of feed.                                                          *)
Short(r) == r # <<>> => r[1].part = 1 /\ Len(r) < r[1].frame.parts
IsTaken(q, c, n) ==
  \/ q.error # "none" /\ n = q
  \/ n.error # "none" /\ n.rest = <<>>
  \/ /\ q.error = "none" /\ n.error = "none" /\ Append(q.rest, c)[1].part = 1
     /\ \/ n.rest = Append(q.rest, c) /\ ~(Len(Append(q.rest, c)) >= Append(q.rest, c)[1].frame.parts)
        \/ n.rest = <<>> /\ Len(Append(q.rest, c)) >= Append(q.rest, c)[1].frame.parts

(* The four outcomes of a round of feed.                                    *)
LEMMA TakeSteps ==
  ASSUME NEW q \in Cutting(Cells), NEW c \in Cells
  PROVE  IsTaken(q, c, take(q, c))
<1>1. PICK rest : rest = Append(q.rest, c)
  OBVIOUS
<1>2. PICK frames : frames = Append(q.frames, rest)
  OBVIOUS
<1>3. /\ q.rest \in Seq(Cells) /\ q.error \in {"none", "magic", "length"}
      /\ q = [rest |-> q.rest, frames |-> q.frames, error |-> q.error]
  BY DEF Cutting
<1>4. PICK e : e = Refusal(rest[1]) /\ (e = "none" => rest[1].part = 1)
  BY DEF Refusal
<1>5. PICK n : n = take(q, c)
  OBVIOUS
<1>6. \/ q.error # "none" /\ n = q
      \/ e # "none" /\ n = [q EXCEPT !.error = e, !.rest = <<>>]
      \/ q.error = "none" /\ e = "none" /\ n = [q EXCEPT !.rest = rest] /\ ~(Len(rest) >= rest[1].frame.parts)
      \/ q.error = "none" /\ e = "none" /\ n = [q EXCEPT !.rest = <<>>, !.frames = frames]
         /\ Len(rest) >= rest[1].frame.parts
  <2>1. CASE q.error # "none"
    BY <1>5, <2>1 DEF take, Arrived
  <2>2. CASE q.error = "none" /\ e # "none"
    BY <1>1, <1>4, <1>5, <2>2 DEF take, Arrived
  <2>3. CASE q.error = "none" /\ e = "none" /\ ~(Len(rest) >= rest[1].frame.parts)
    BY <1>1, <1>4, <1>5, <2>3 DEF take, Arrived
  <2>4. CASE q.error = "none" /\ e = "none" /\ Len(rest) >= rest[1].frame.parts
    BY <1>1, <1>2, <1>4, <1>5, <2>4 DEF take, Arrived
  <2> QED BY <2>1, <2>2, <2>3, <2>4
<1>7. ASSUME n = [q EXCEPT !.error = e, !.rest = <<>>] PROVE n.error = e /\ n.rest = <<>>
  BY <1>3, <1>7
<1>8. ASSUME n = [q EXCEPT !.rest = rest] PROVE n.error = q.error /\ n.rest = rest
  BY <1>3, <1>8
<1>9. ASSUME n = [q EXCEPT !.rest = <<>>, !.frames = frames] PROVE n.error = q.error /\ n.rest = <<>>
  BY <1>3, <1>9
<1> QED BY <1>1, <1>4, <1>5, <1>6, <1>7, <1>8, <1>9 DEF IsTaken

(* After a round the reader holds less than a frame, if it did before.      *)
LEMMA TakeShort ==
  ASSUME NEW q \in Cutting(Cells), NEW c \in Cells, Short(q.rest)
  PROVE  Short(take(q, c).rest)
<1>1. PICK n : n = take(q, c) /\ IsTaken(q, c, n)
  BY TakeSteps
<1>2. q.rest \in Seq(Cells)
  BY DEF Cutting
<1>3. PICK r \in Seq(Cells) : r = Append(q.rest, c) /\ Len(r) \in Nat \ {0} /\ r[1] \in Cells
  <2>1. Append(q.rest, c) \in Seq(Cells) /\ Append(q.rest, c) # <<>>
    BY <1>2, AppendProperties
  <2>2. PICK r \in Seq(Cells) : r = Append(q.rest, c) /\ r # <<>>
    BY <2>1
  <2>3. Len(r) \in Nat \ {0}
    BY <2>2, EmptySeq
  <2>4. r[1] \in Cells
    BY <2>3, ElementOfSeq
  <2> QED BY <2>2, <2>3, <2>4
<1>4. r[1].frame.parts \in Nat
  BY <1>3, CellFields
<1>5. n.rest = q.rest \/ n.rest = <<>> \/ (n.rest = r /\ r[1].part = 1 /\ ~(Len(r) >= r[1].frame.parts))
  BY <1>1, <1>3 DEF IsTaken
<1>6. ASSUME r[1].part = 1, ~(Len(r) >= r[1].frame.parts) PROVE Short(r)
  <2>1. Len(r) < r[1].frame.parts
    BY <1>3, <1>4, <1>6
  <2> QED BY <1>6, <2>1 DEF Short
<1>7. Short(<<>>)
  BY DEF Short
<1> QED BY <1>1, <1>5, <1>6, <1>7

(* What is held after m cells of a row: those since the last end of a frame. *)
Behind(s, m, r) ==
  /\ r \in Seq(Cells) /\ Len(r) <= m /\ Short(r)
  /\ \A i \in 1..Len(r) : r[i] = s[(m - Len(r)) + i]
  /\ Len(r) = 0 => Boundary(s, m)

(* A round without error holds what came since the last end of a frame.     *)
LEMMA TakeBehind ==
  ASSUME NEW s \in Seq(Cells), InOrder(s), NEW m \in Nat, m + 1 <= Len(s), NEW q \in Cutting(Cells),
         Behind(s, m, q.rest), NEW c, c = s[m + 1], take(q, c).error = "none"
  PROVE  q.error = "none" /\ Behind(s, m + 1, take(q, c).rest)
<1>1. PICK n \in Nat : n = Len(s)
  BY LenProperties
<1>2. c \in Cells
  BY <1>1, ElementOfSeq
<1>3. PICK t : t = take(q, c) /\ IsTaken(q, c, t) /\ t.error = "none"
  BY <1>2, TakeSteps
<1>4. PICK r : r = q.rest /\ r \in Seq(Cells) /\ Behind(s, m, r)
  BY DEF Cutting
<1>5. PICK k \in Nat, z \in Nat : z = Len(r) /\ k = m - z /\ m = k + z
  <2>1. Len(r) \in Nat /\ Len(r) <= m
    BY <1>4, LenProperties DEF Behind
  <2>2. m - Len(r) \in Nat /\ m = (m - Len(r)) + Len(r)
    BY <2>1
  <2> QED BY <2>1, <2>2
<1>6. PICK u \in Seq(Cells) : u = Append(r, c) /\ Len(u) = z + 1 /\ u[z + 1] = c /\ \A i \in 1..z : u[i] = r[i]
  <2>1. Append(r, c) \in Seq(Cells) /\ Len(Append(r, c)) = z + 1 /\ Append(r, c)[z + 1] = c /\ \A i \in 1..z : Append(r, c)[i] = r[i]
    BY <1>2, <1>4, <1>5, AppendProperties
  <2> QED BY <2>1
<1>7. \A i \in 1..(z + 1) : u[i] = s[k + i]
  <2> SUFFICES ASSUME NEW i \in 1..(z + 1) PROVE u[i] = s[k + i]
    OBVIOUS
  <2>1. CASE i = z + 1
    <3>1. k + i = m + 1
      BY <1>5, <2>1
    <3> QED BY <1>6, <2>1, <3>1
  <2>2. CASE i # z + 1
    <3>1. i \in 1..z
      BY <2>2
    <3>2. r[i] = s[k + i]
      BY <1>4, <1>5, <3>1 DEF Behind
    <3> QED BY <1>6, <3>1, <3>2
  <2> QED BY <2>1, <2>2
<1>8. q.error = "none" /\ u[1].part = 1
      /\ \/ t.rest = u /\ ~(Len(u) >= u[1].frame.parts)
         \/ t.rest = <<>> /\ Len(u) >= u[1].frame.parts
  BY <1>3, <1>4, <1>6 DEF IsTaken
<1>9. PICK parts \in Nat \ {0} : parts = u[1].frame.parts
  <2>1. 1 \in 1..Len(u)
    BY <1>6
  <2>2. u[1] \in Cells
    BY <2>1, ElementOfSeq
  <2> QED BY <2>2, CellFields
<1>10. CASE t.rest = u /\ ~(Len(u) >= u[1].frame.parts)
  <2>1. Short(u)
    <3>1. Len(u) < u[1].frame.parts
      BY <1>6, <1>9, <1>10
    <3> QED BY <1>8, <3>1 DEF Short
  <2>2. Len(u) <= m + 1 /\ Len(u) # 0 /\ (m + 1) - Len(u) = k
    BY <1>5, <1>6
  <2>3. \A i \in 1..Len(u) : u[i] = s[((m + 1) - Len(u)) + i]
    BY <1>6, <1>7, <2>2
  <2>4. Behind(s, m + 1, u)
    BY <2>1, <2>2, <2>3 DEF Behind
  <2> QED BY <1>3, <1>8, <1>10, <2>4
<1>11. CASE t.rest = <<>> /\ Len(u) >= u[1].frame.parts
  <2>1. z + 1 = parts
    <3>1. z + 1 >= parts
      BY <1>6, <1>9, <1>11
    <3>2. z < parts
      <4>1. CASE z = 0
        BY <4>1
      <4>2. CASE z # 0
        <5>1. r # <<>>
          BY <1>5, <4>2, EmptyRow
        <5>2. z < r[1].frame.parts /\ 1 \in 1..z
          BY <1>4, <1>5, <4>2, <5>1 DEF Behind, Short
        <5>3. r[1] = u[1]
          BY <1>6, <5>2
        <5> QED BY <1>9, <5>2, <5>3
      <4> QED BY <4>1, <4>2
    <3> QED BY <3>1, <3>2
  <2>2. s[k + 1].part = 1 /\ s[k + 1].frame.parts = parts /\ k + 1 <= Len(s) /\ k + parts = m + 1
    <3>1. u[1] = s[k + 1]
      BY <1>7
    <3>2. k + 1 <= n /\ k + parts = m + 1
      BY <1>1, <1>5, <2>1
    <3> QED BY <1>1, <1>8, <1>9, <3>1, <3>2
  <2>3. s[k + parts].frame = s[k + 1].frame /\ s[k + parts].part = parts
    <3>1. parts <= s[k + 1].frame.parts /\ k + parts <= Len(s)
      BY <1>1, <2>2
    <3> QED BY <2>2, <3>1, FrameRuns
  <2>4. s[m + 1].frame.parts = parts /\ s[m + 1].part = parts
    BY <2>2, <2>3
  <2>5. Boundary(s, m + 1)
    BY <2>4 DEF Boundary
  <2>6. Behind(s, m + 1, <<>>)
    <3>1. 0 <= m + 1 /\ \A i \in 1..0 : FALSE
      OBVIOUS
    <3> QED BY <2>5, <3>1, EmptyRow DEF Behind, Short
  <2> QED BY <1>3, <1>8, <1>11, <2>6
<1> QED BY <1>8, <1>10, <1>11

(* A reader that held less than a frame does so after feed, whatever it was *)
(* fed.                                                                     *)
LEMMA FedShort ==
  ASSUME NEW b \in Seq(Cells), NEW cells \in Seq(Cells), Short(b)
  PROVE  Short(feed(b, cells).rest)
<1>1. PICK f : IsCut(f, b, cells, Cells)
  BY FeedUnfolds
<1>2. PICK k \in Nat : k = Len(cells)
  BY LenProperties
<1>3. f \in [0..k -> Cutting(Cells)] /\ f[0].rest = b /\ \A n \in 1..k : f[n] = take(f[n - 1], cells[n]) /\ cells[n] \in Cells
  BY <1>1, <1>2, ElementOfSeq DEF IsCut
<1> DEFINE Bad == {n \in 0..k : ~Short(f[n].rest)}
<1>4. ASSUME Bad # {} PROVE \E m \in Bad : \A y \in Bad : m <= y
  <2>1. Bad \in SUBSET Nat
    OBVIOUS
  <2> HIDE DEF Bad
  <2> QED BY <1>4, <2>1, LeastElement
<1>5. ASSUME NEW m \in Bad, \A y \in Bad : m <= y PROVE FALSE
  <2>1. m \in 0..k /\ ~Short(f[m].rest) /\ m # 0
    BY <1>3
  <2>2. m \in 1..k /\ m - 1 \in 0..k /\ ~(m <= m - 1)
    BY <2>1
  <2>3. m - 1 \notin Bad
    BY <1>5, <2>2
  <2>4. Short(f[m - 1].rest) /\ f[m - 1] \in Cutting(Cells)
    BY <1>3, <2>2, <2>3
  <2>5. Short(take(f[m - 1], cells[m]).rest)
    BY <1>3, <2>2, <2>4, TakeShort
  <2> QED BY <1>3, <2>1, <2>2, <2>5
<1>6. Bad = {}
  <2> HIDE DEF Bad
  <2> QED BY <1>4, <1>5
<1>7. Short(f[k].rest)
  BY <1>6
<1> QED BY <1>1, <1>2, <1>7 DEF IsCut

(* feed without error keeps exactly what came since the last end of a       *)
(* frame.                                                                   *)
LEMMA FedBehind ==
  ASSUME NEW s \in Seq(Cells), InOrder(s), NEW b \in Seq(Cells), NEW cells \in Seq(Cells), Short(b),
         NEW h \in Nat, h = Len(b), h + Len(cells) <= Len(s),
         \A i \in 1..h : b[i] = s[i], \A i \in 1..Len(cells) : cells[i] = s[h + i],
         feed(b, cells).error = "none"
  PROVE  Behind(s, h + Len(cells), feed(b, cells).rest)
<1>1. PICK f : IsCut(f, b, cells, Cells)
  BY FeedUnfolds
<1>2. PICK k \in Nat, l \in Nat : k = Len(cells) /\ l = Len(s) /\ h + k <= l
  BY LenProperties
<1>3. /\ f \in [0..k -> Cutting(Cells)] /\ f[0].rest = b
      /\ \A n \in 1..k : f[n] = take(f[n - 1], cells[n])
      /\ feed(b, cells) = f[k]
  BY <1>1, <1>2 DEF IsCut
<1>4. Behind(s, h, b)
  <2>1. h - Len(b) = 0 /\ Len(b) <= h /\ \A i \in 1..Len(b) : (h - Len(b)) + i = i
    OBVIOUS
  <2> QED BY <2>1 DEF Behind, Boundary
<1> DEFINE Good(n) == f[n].error = "none" => Behind(s, h + n, f[n].rest)
           Bad == {n \in 0..k : ~Good(n)}
<1>5. ASSUME Bad # {} PROVE \E m \in Bad : \A y \in Bad : m <= y
  <2>1. Bad \in SUBSET Nat
    OBVIOUS
  <2> HIDE DEF Bad
  <2> QED BY <1>5, <2>1, LeastElement
<1>6. ASSUME NEW m \in Bad, \A y \in Bad : m <= y PROVE FALSE
  <2>1. m \in 0..k /\ ~Good(m)
    OBVIOUS
  <2>2. m # 0
    <3>1. h + 0 = h
      OBVIOUS
    <3> QED BY <1>3, <1>4, <2>1, <3>1
  <2>3. m \in 1..k /\ m - 1 \in 0..k /\ ~(m <= m - 1) /\ (h + (m - 1)) + 1 = h + m /\ h + (m - 1) \in Nat
    BY <2>1, <2>2
  <2>4. m - 1 \notin Bad
    BY <1>6, <2>3
  <2>5. Good(m - 1)
    BY <2>3, <2>4
  <2>6a. PICK c : c = cells[m]
    OBVIOUS
  <2>6. PICK q \in Cutting(Cells), j \in Nat :
          q = f[m - 1] /\ c = cells[m] /\ j = h + (m - 1) /\ f[m] = take(q, c) /\ j + 1 = h + m
    <3>1. f[m - 1] \in Cutting(Cells)
      BY <1>3, <2>3
    <3>2. h + (m - 1) \in Nat /\ (h + (m - 1)) + 1 = h + m
      BY <2>3
    <3>3. f[m] = take(f[m - 1], cells[m])
      BY <1>3, <2>3
    <3> QED BY <2>6a, <3>1, <3>2, <3>3
  <2>7. take(q, c).error = "none"
    BY <2>1, <2>6
  <2>8. c = s[j + 1] /\ j + 1 <= Len(s)
    BY <1>2, <2>3, <2>6
  <2>9. c \in Cells
    BY <1>2, <2>3, <2>6, ElementOfSeq
  <2>10. q.error = "none"
    <3>1. IsTaken(q, c, take(q, c))
      BY <2>9, TakeSteps
    <3> QED BY <2>7, <3>1 DEF IsTaken
  <2>11. Behind(s, j, q.rest)
    BY <2>5, <2>6, <2>10
  <2>12. Behind(s, j + 1, take(q, c).rest)
    BY <2>7, <2>8, <2>11, TakeBehind
  <2> QED BY <2>1, <2>6, <2>12
<1>7. Bad = {}
  <2> HIDE DEF Bad
  <2> QED BY <1>5, <1>6
<1>8. Good(k)
  <2>1. k \in 0..k
    OBVIOUS
  <2> QED BY <1>7, <2>1
<1> QED BY <1>2, <1>3, <1>8

IsJoined(s, b, c, v, S) ==
  /\ s \in Seq(S) /\ Len(s) = Len(b) + (Len(c) + Len(v))
  /\ \A i \in 1..Len(b) : s[i] = b[i]
  /\ \A i \in 1..Len(c) : s[Len(b) + i] = c[i]
  /\ \A i \in 1..Len(v) : s[(Len(b) + Len(c)) + i] = v[i]

(* The three parts of a stream: what is held, what a recv takes and what it *)
(* leaves.                                                                  *)
LEMMA InThree ==
  ASSUME NEW S, NEW b \in Seq(S), NEW c \in Seq(S), NEW v \in Seq(S)
  PROVE  IsJoined(b \o (c \o v), b, c, v, S)
<1>l. PICK h \in Nat, k \in Nat, l \in Nat : h = Len(b) /\ k = Len(c) /\ l = Len(v)
  BY LenProperties
<1>1. PICK u \in Seq(S) : u = c \o v /\ Len(u) = k + l /\ (\A i \in 1..k : u[i] = c[i]) /\ (\A i \in 1..l : u[k + i] = v[i])
  <2>1. /\ c \o v \in Seq(S) /\ Len(c \o v) = k + l
        /\ \A i \in 1..k : (c \o v)[i] = c[i]
        /\ \A i \in 1..l : (c \o v)[k + i] = v[i]
    BY <1>l, Concatenated
  <2> QED BY <2>1
<1>2. PICK n \in Nat : n = k + l /\ n = Len(u)
  BY <1>1
<1>3. PICK s : s = b \o u
  OBVIOUS
<1>4. s \in Seq(S) /\ Len(s) = h + n /\ (\A i \in 1..h : s[i] = b[i]) /\ (\A i \in 1..n : s[h + i] = u[i])
  <2>1. n = Len(u) /\ h = Len(b)
    BY <1>l, <1>2
  <2>2. b \o u \in Seq(S) /\ Len(b \o u) = h + n /\ (\A i \in 1..h : (b \o u)[i] = b[i]) /\ (\A i \in 1..n : (b \o u)[h + i] = u[i])
    BY <2>1, Concatenated
  <2> QED BY <1>3, <2>2
<1>5. ASSUME NEW i \in 1..k PROVE s[h + i] = c[i]
  <2>1. i \in 1..n
    BY <1>2
  <2> QED BY <1>1, <1>4, <2>1
<1>6. ASSUME NEW i \in 1..l PROVE s[(h + k) + i] = v[i]
  <2>1. k + i \in 1..n /\ (h + k) + i = h + (k + i)
    BY <1>2
  <2> QED BY <1>1, <1>4, <2>1
<1>7. IsJoined(s, b, c, v, S)
  BY <1>l, <1>2, <1>4, <1>5, <1>6 DEF IsJoined
<1> QED BY <1>1, <1>3, <1>7

(* Cutting what has arrived leaves the stream in order: what is kept of it   *)
(* begins where a frame does.                                               *)
LEMMA CutInOrder ==
  ASSUME NEW b \in Seq(Cells), NEW cells \in Seq(Cells), NEW v \in Seq(Cells),
         Short(b), InOrder(b \o (cells \o v)), feed(b, cells).error = "none"
  PROVE  InOrder(feed(b, cells).rest \o v) /\ RestOf(feed(b, cells).rest \o v) = RestOf(b \o (cells \o v))
<1>l. PICK h \in Nat, k \in Nat, l \in Nat : h = Len(b) /\ k = Len(cells) /\ l = Len(v)
  BY LenProperties
<1>s. PICK s : s = b \o (cells \o v)
  OBVIOUS
<1>1. /\ s \in Seq(Cells) /\ Len(s) = h + (k + l)
      /\ \A i \in 1..h : s[i] = b[i]
      /\ \A i \in 1..k : s[h + i] = cells[i]
      /\ \A i \in 1..l : s[(h + k) + i] = v[i]
  <2>1. PICK w : w = b \o (cells \o v)
    OBVIOUS
  <2>2. IsJoined(w, b, cells, v, Cells)
    BY <2>1, InThree
  <2>3. w = s
    BY <1>s, <2>1
  <2> QED BY <1>l, <2>2, <2>3 DEF IsJoined
<1>2. PICK r \in Seq(Cells) : r = feed(b, cells).rest /\ Behind(s, h + k, r)
  <2>1. h + Len(cells) <= Len(s) /\ \A i \in 1..Len(cells) : cells[i] = s[h + i]
    BY <1>l, <1>1
  <2>2. InOrder(s) /\ \A i \in 1..h : b[i] = s[i]
    BY <1>s, <1>1
  <2>3. Behind(s, h + Len(cells), feed(b, cells).rest)
    BY <1>l, <1>1, <2>1, <2>2, FedBehind
  <2>4. feed(b, cells).rest \in Seq(Cells)
    BY <2>3 DEF Behind
  <2> QED BY <1>l, <2>3, <2>4
<1>3. PICK z \in Nat, g \in Nat : z = Len(r) /\ g + z = h + k
  <2>1. Len(r) \in Nat /\ Len(r) <= h + k
    BY <1>2, LenProperties DEF Behind
  <2>2. (h + k) - Len(r) \in Nat /\ ((h + k) - Len(r)) + Len(r) = h + k
    BY <2>1
  <2> QED BY <2>1, <2>2
<1>4. Short(r) /\ (\A i \in 1..z : r[i] = s[g + i]) /\ (z = 0 => Boundary(s, g))
  <2>1. (h + k) - z = g /\ (z = 0 => h + k = g)
    BY <1>3
  <2> QED BY <1>2, <1>3, <2>1 DEF Behind
<1>5. PICK t \in Seq(Cells) : t = r \o v /\ Len(t) = z + l /\ (\A i \in 1..z : t[i] = r[i]) /\ (\A i \in 1..l : t[z + i] = v[i])
  <2>0. z \in Nat /\ z = Len(r) /\ r \in Seq(Cells)
    BY <1>2, <1>3
  <2>1. r \o v \in Seq(Cells) /\ Len(r \o v) = z + l /\ (\A i \in 1..z : (r \o v)[i] = r[i]) /\ (\A i \in 1..l : (r \o v)[z + i] = v[i])
    BY <1>l, <2>0, Concatenated
  <2> QED BY <2>1
<1>6. ASSUME NEW i \in 1..Len(t) PROVE t[i] = s[g + i]
  <2>1. CASE i \in 1..z
    BY <1>4, <1>5, <2>1
  <2>2. CASE i \notin 1..z
    <3>1. i - z \in 1..l /\ z + (i - z) = i /\ (h + k) + (i - z) = g + i
      <4>1. i \in 1..(z + l)
        BY <1>5
      <4>2. i - z \in 1..l /\ z + (i - z) = i
        BY <2>2, <4>1
      <4>3. h + k = g + z /\ i \in Int
        BY <1>3, <4>1
      <4>4. (h + k) + (i - z) = g + i
        BY <4>3
      <4> QED BY <4>2, <4>4
    <3>2. t[z + (i - z)] = v[i - z] /\ s[(h + k) + (i - z)] = v[i - z]
      BY <1>1, <1>5, <3>1
    <3> QED BY <3>1, <3>2
  <2> QED BY <2>1, <2>2
<1>7. Boundary(s, g)
  <2>1. CASE z = 0
    BY <1>4, <2>1
  <2>2. CASE z # 0 /\ g # 0
    <3>1. r # <<>> /\ 1 \in 1..z
      BY <1>3, <2>2, EmptyRow
    <3>2. s[g + 1].part = 1
      BY <1>4, <3>1 DEF Short
    <3>3. g + 1 \in 1..Len(s) /\ g + 1 > 1 /\ (g + 1) - 1 = g
      BY <1>1, <1>3, <2>2
    <3>4. s[(g + 1) - 1].part = s[(g + 1) - 1].frame.parts
      BY <1>s, <3>2, <3>3 DEF InOrder
    <3> QED BY <3>3, <3>4 DEF Boundary
  <2>3. CASE g = 0
    BY <2>3 DEF Boundary
  <2> QED BY <2>1, <2>2, <2>3
<1>8. g <= Len(s) /\ Len(t) = Len(s) - g
  <2>1. PICK n, m : n = Len(s) /\ m = Len(t) /\ n = h + (k + l) /\ m = z + l
    BY <1>1, <1>5
  <2>2. \A a, b1, c, d, e \in Nat : a + e = b1 + c => a <= b1 + (c + d) /\ e + d = (b1 + (c + d)) - a
    OBVIOUS
  <2>3. g <= h + (k + l) /\ z + l = (h + (k + l)) - g
    BY <1>3, <2>2
  <2> QED BY <2>1, <2>3
<1>9. InOrder(t) /\ RestOf(t) = RestOf(s)
  <2>1. InOrder(s)
    BY <1>s
  <2>2. t \in Seq(Cells) /\ s \in Seq(Cells)
    BY <1>1, <1>5
  <2> QED BY <1>6, <1>7, <1>8, <2>1, <2>2, SuffixInOrder
<1> QED BY <1>s, <1>2, <1>5, <1>9

(* A stream: what is held of it, what is on its way, what its sender has     *)
(* still to write and what its connection is.                               *)
Whole(r, u, x, l) == InOrder(r \o u) /\ (l \in {"pending", "open"} => x = RestOf(r \o u))
IsStream(r, u, x, l) ==
  LET stream == r \o u
      rest == IF Len(stream) = 0 THEN <<>> ELSE
                SubSeq(encode_frame(Last(stream).frame), Last(stream).part + 1, Last(stream).frame.parts)
  IN /\ \A i \in 1..Len(stream) :
          stream[i].part > 1 => i > 1 /\ stream[i - 1] = [frame |-> stream[i].frame, part |-> stream[i].part - 1]
     /\ \A i \in 1..(Len(stream) - 1) : stream[i + 1].part = 1 => stream[i].part = stream[i].frame.parts
     /\ l \in {"pending", "open"} => x = rest

(* The two conditions FramesStayWhole puts on the cells of a stream are     *)
(* InOrder.                                                                 *)
LEMMA StreamsInOrder ==
  ASSUME NEW s \in Seq(Cells)
  PROVE  /\ \A i \in 1..Len(s) : s[i].part > 1 => i > 1 /\ s[i - 1] = [frame |-> s[i].frame, part |-> s[i].part - 1]
         /\ \A i \in 1..(Len(s) - 1) : s[i + 1].part = 1 => s[i].part = s[i].frame.parts
         <=> InOrder(s)
<1>1. PICK n \in Nat : n = Len(s)
  BY LenProperties
<1>2. ASSUME NEW i \in 1..n, i > 1
      PROVE  s[i - 1] = [frame |-> s[i].frame, part |-> s[i].part - 1]
             <=> s[i - 1].frame = s[i].frame /\ s[i - 1].part = s[i].part - 1
  <2>1. i - 1 \in 1..n
    BY <1>2
  <2>2. PICK c \in Cells : c = s[i - 1]
    BY <1>1, <2>1, ElementOfSeq
  <2>0. PICK f, k : f = s[i].frame /\ k = s[i].part - 1
    OBVIOUS
  <2>3. c = [frame |-> c.frame, part |-> c.part]
    BY CellFields
  <2>4. c = [frame |-> f, part |-> k] <=> c.frame = f /\ c.part = k
    BY <2>3
  <2> QED BY <2>0, <2>2, <2>4
<1>3. ASSUME \A i \in 1..(n - 1) : s[i + 1].part = 1 => s[i].part = s[i].frame.parts, NEW i \in 1..n, i > 1, s[i].part = 1
      PROVE  s[i - 1].part = s[i - 1].frame.parts
  <2>1. i - 1 \in 1..(n - 1) /\ (i - 1) + 1 = i
    BY <1>3
  <2>2. PICK j \in 1..(n - 1) : j = i - 1 /\ j + 1 = i
    BY <2>1
  <2> QED BY <1>3, <2>2
<1>4. ASSUME InOrder(s), NEW i \in 1..(n - 1), s[i + 1].part = 1
      PROVE  s[i].part = s[i].frame.parts
  <2>1. i + 1 \in 1..n /\ i + 1 > 1 /\ (i + 1) - 1 = i
    OBVIOUS
  <2>2. PICK j \in 1..n : j = i + 1 /\ j > 1 /\ j - 1 = i
    BY <2>1
  <2> QED BY <1>1, <1>4, <2>2 DEF InOrder
<1>5. ASSUME InOrder(s), NEW i \in 1..n, s[i].part > 1
      PROVE  i > 1 /\ s[i - 1] = [frame |-> s[i].frame, part |-> s[i].part - 1]
  BY <1>1, <1>2, <1>5 DEF InOrder
<1>6. ASSUME \A i \in 1..n : s[i].part > 1 => i > 1 /\ s[i - 1] = [frame |-> s[i].frame, part |-> s[i].part - 1],
             NEW i \in 1..n, s[i].part > 1
      PROVE  i > 1 /\ s[i - 1].frame = s[i].frame /\ s[i - 1].part = s[i].part - 1
  BY <1>2, <1>6
<1> QED BY <1>1, <1>3, <1>4, <1>5, <1>6 DEF InOrder

(* What FramesStayWhole says of a connection is that its stream is whole.   *)
LEMMA StreamIs ==
  ASSUME NEW r \in Seq(Cells), NEW u \in Seq(Cells), NEW x, NEW l
  PROVE  IsStream(r, u, x, l) <=> Whole(r, u, x, l)
<1>1. PICK s \in Seq(Cells) : s = r \o u
  BY ConcatProperties
<1> QED BY <1>1, StreamsInOrder DEF IsStream, Whole, RestOf

(* Another cell on its way, the first of a frame or the next one.            *)
LEMMA OneMore ==
  ASSUME NEW r \in Seq(Cells), NEW u \in Seq(Cells), NEW c \in Cells
  PROVE  Append(u, c) \in Seq(Cells) /\ r \o Append(u, c) = Append(r \o u, c) /\ r \o u \in Seq(Cells)
BY AppendProperties

(* send_frame begins a frame under a free mutex: the stream stays whole.    *)
LEMMA FirstWhole ==
  ASSUME NEW r \in Seq(Cells), NEW u \in Seq(Cells), NEW l \in {"pending", "open"}, Whole(r, u, <<>>, l),
         NEW f \in Frames, encode_frame(f) # <<>>
  PROVE  Whole(r, Append(u, encode_frame(f)[1]), Tail(encode_frame(f)), l)
<1>1. PICK s \in Seq(Cells) : s = r \o u /\ InOrder(s) /\ RestOf(s) = <<>>
  BY ConcatProperties DEF Whole
<1>2. IsRest(<<>>, s)
  BY <1>1, RestIs
<1>3. PICK e \in Seq(Cells) : e = encode_frame(f) /\ e # <<>>
  BY EncodeTypes
<1>4. e[1] \in Cells
  BY <1>3, EmptyRow, LenProperties, ElementOfSeq
<1>5. PICK t : t = Append(s, e[1]) /\ t \in Seq(Cells) /\ InOrder(t) /\ IsRest(Tail(e), t)
  BY <1>1, <1>2, <1>3, FirstCell
<1>6. RestOf(t) = Tail(e)
  BY <1>5, RestIsOne
<1>7. r \o Append(u, e[1]) = t
  BY <1>1, <1>4, <1>5, OneMore
<1> QED BY <1>3, <1>5, <1>6, <1>7 DEF Whole

(* The holder of the mutex sends its next cell: the stream stays whole.     *)
LEMMA NextWhole ==
  ASSUME NEW r \in Seq(Cells), NEW u \in Seq(Cells), NEW l \in {"pending", "open"}, NEW x \in Seq(Cells),
         Whole(r, u, x, l), x # <<>>
  PROVE  Whole(r, Append(u, Head(x)), Tail(x), l)
<1>1. PICK s \in Seq(Cells) : s = r \o u /\ InOrder(s) /\ x = RestOf(s)
  BY ConcatProperties DEF Whole
<1>2. IsRest(x, s)
  BY <1>1, RestIs
<1>3. Head(x) \in Cells
  BY HeadTailProperties
<1>4. PICK t : t = Append(s, Head(x)) /\ t \in Seq(Cells) /\ InOrder(t) /\ IsRest(Tail(x), t)
  BY <1>1, <1>2, NextCell
<1>5. RestOf(t) = Tail(x)
  BY <1>4, RestIsOne
<1>6. r \o Append(u, Head(x)) = t
  BY <1>1, <1>3, <1>4, OneMore
<1> QED BY <1>4, <1>5, <1>6 DEF Whole

(* A connection begins with a frame of one cell.                             *)
LEMMA BeginsWhole ==
  Whole(<<>>, encode_frame(Message("RegisterWorker")), <<>>, "pending")
<1>1. PICK f \in Frames : f = Message("RegisterWorker") /\ f.parts = 1
  BY FrameTypes DEF Ops, Message, Frame
<1>2. Payload(f) <= MaxFrame
  BY <1>1, TransportConstants DEF Payload, HeaderCells
<1>3. PICK c \in Cells : c.frame = f /\ c.part = 1
  <2>1. [frame |-> f, part |-> 1] \in Cells
    BY <1>1, <1>2 DEF Cells
  <2> QED BY <2>1
<1>4. PICK e \in Seq(Cells) : e = encode_frame(f) /\ Len(e) = 1 /\ e[1].frame = f /\ e[1].part = 1
  BY <1>1, <1>3, EncodedCells
<1>5. <<>> \o e = e
  BY ConcatEmptySeq
<1>6. InOrder(e)
  BY <1>4 DEF InOrder
<1>7. IsRest(<<>>, e)
  <2>1. <<>> \in Seq(Cells) /\ Len(<<>>) = 0
    BY EmptyRow
  <2>2. e[Len(e)].frame.parts - e[Len(e)].part = 0
    BY <1>1, <1>4
  <2> QED BY <2>1, <2>2 DEF IsRest
<1> QED BY <1>1, <1>4, <1>5, <1>6, <1>7, RestIsOne DEF Whole

StreamIsWhole(p) == p \notin closing => Whole(reader[p], up[p], sending[p], link[p])

(* FramesStayWhole, of one connection, before and after a step.              *)
LEMMA StreamsOneByOne ==
  ASSUME TypeOK
  PROVE  FramesStayWhole <=> \A p \in Procs : StreamIsWhole(p)
<1>1. FramesStayWhole <=> \A p \in Procs \ closing : IsStream(reader[p], up[p], sending[p], link[p])
  BY DEF FramesStayWhole, IsStream, Usable
<1>2. ASSUME NEW p \in Procs
      PROVE  IsStream(reader[p], up[p], sending[p], link[p]) <=> Whole(reader[p], up[p], sending[p], link[p])
  <2>1. reader[p] \in Seq(Cells) /\ up[p] \in Seq(Cells)
    BY DEF TypeOK, TransportTypes, ReactorTypes
  <2> QED BY <2>1, StreamIs
<1> QED BY <1>1, <1>2 DEF StreamIsWhole

(* The same after a step.                                                   *)
LEMMA StreamsOneByOneNext ==
  ASSUME TypeOK', \A p \in Procs : StreamIsWhole(p)'
  PROVE  FramesStayWhole'
<1>1. (\A p \in Procs \ closing' : IsStream(reader'[p], up'[p], sending'[p], link'[p])) => FramesStayWhole'
  BY DEF FramesStayWhole, IsStream, Usable
<1>2. ASSUME NEW p \in Procs
      PROVE  IsStream(reader'[p], up'[p], sending'[p], link'[p]) <=> Whole(reader'[p], up'[p], sending'[p], link'[p])
  <2>1. reader'[p] \in Seq(Cells) /\ up'[p] \in Seq(Cells)
    BY DEF TypeOK, TransportTypes, ReactorTypes
  <2> QED BY <2>1, StreamIs
<1> QED BY <1>1, <1>2 DEF StreamIsWhole

(* A frame that is sent, by whichever thread.                                *)
LEMMA SendFrameWhole ==
  ASSUME TypeOK, \A q \in Procs : StreamIsWhole(q), NEW p \in Procs, NEW f \in Frames, send_frame(p, f),
         UNCHANGED <<link, reader, closing>>
  PROVE  \A q \in Procs : StreamIsWhole(q)'
<1> SUFFICES ASSUME NEW q \in Procs PROVE StreamIsWhole(q)'
  OBVIOUS
<1>1. up \in [Procs -> Seq(Cells)] /\ reader \in [Procs -> Seq(Cells)] /\ sending \in [Procs -> Seq(Cells)]
  BY DEF TypeOK, TransportTypes, WorkerTypes, ReactorTypes
<1>2. CASE UNCHANGED <<up, sending>>
  BY <1>2 DEF StreamIsWhole
<1>3. CASE ~UNCHANGED <<up, sending>>
  <2>1. PICK e \in Seq(Cells) : e = encode_frame(f)
    BY EncodeTypes
  <2>2. /\ sending[p] = <<>> /\ e # <<>> /\ Usable(p)
        /\ up' = [up EXCEPT ![p] = Append(up[p], e[1])] /\ sending' = [sending EXCEPT ![p] = Tail(e)]
    BY <1>3, <2>1 DEF send_frame, MutexFree
  <2>3. CASE q # p
    <3>1. up'[q] = up[q] /\ sending'[q] = sending[q]
      BY <1>1, <2>2, <2>3
    <3> QED BY <3>1 DEF StreamIsWhole
  <2>4. CASE q = p /\ p \notin closing
    <3>1. up'[p] = Append(up[p], e[1]) /\ sending'[p] = Tail(e)
      BY <1>1, <2>2
    <3>2. PICK r \in Seq(Cells), u \in Seq(Cells), l \in {"pending", "open"} : r = reader[p] /\ u = up[p] /\ l = link[p]
      BY <1>1, <2>2 DEF Usable
    <3>3. Whole(r, u, <<>>, l)
      BY <2>2, <2>4, <3>2 DEF StreamIsWhole
    <3>4. Whole(r, Append(u, e[1]), Tail(e), l)
      BY <2>1, <2>2, <3>3, FirstWhole
    <3> QED BY <2>4, <3>1, <3>2, <3>4 DEF StreamIsWhole
  <2>5. CASE q = p /\ p \in closing
    BY <2>5 DEF StreamIsWhole
  <2> QED BY <2>3, <2>4, <2>5
<1> QED BY <1>2, <1>3

(* Whatever its threads send, and wherever it is killed, a worker keeps its *)
(* stream whole.                                                            *)
LEMMA WorkersKeepStreams ==
  ASSUME TypeOK, ConnectionsAreReal, \A q \in Procs : StreamIsWhole(q), WorkerStep
  PROVE  \A q \in Procs : StreamIsWhole(q)'
<1>1. /\ up \in [Procs -> Seq(Cells)] /\ reader \in [Procs -> Seq(Cells)] /\ sending \in [Procs -> Seq(Cells)]
      /\ link \in [Procs -> {"none", "pending", "open", "reset", "shut"}]
  BY DEF TypeOK, TransportTypes, WorkerTypes, ReactorTypes
<1>2. UNCHANGED <<reader, closing>>
  BY DEF WorkerStep, reactorVars
<1>3. CASE \E p \in Procs : Worker(p)
  <2> SUFFICES ASSUME NEW q \in Procs PROVE StreamIsWhole(q)'
    OBVIOUS
  <2>1. PICK p \in Procs : Worker(p)
    BY <1>3
  <2>2. PICK e : e = encode_frame(Message("RegisterWorker"))
    OBVIOUS
  <2>3. link' = [link EXCEPT ![p] = "pending"] /\ up' = [up EXCEPT ![p] = e] /\ UNCHANGED sending /\ link[p] = "none"
    BY <2>1, <2>2 DEF Worker, Start
  <2>4. CASE q = p
    <3>1. link'[p] = "pending" /\ up'[p] = e /\ reader'[p] = <<>> /\ sending'[p] = <<>>
      BY <1>1, <1>2, <2>3 DEF ConnectionsAreReal
    <3> QED BY <2>2, <2>4, <3>1, BeginsWhole DEF StreamIsWhole
  <2>5. CASE q # p
    BY <1>1, <1>2, <2>3, <2>5 DEF StreamIsWhole
  <2> QED BY <2>4, <2>5
<1>4. CASE \E p \in Procs : SendRest(p)
  <2> SUFFICES ASSUME NEW q \in Procs PROVE StreamIsWhole(q)'
    OBVIOUS
  <2>1. PICK p \in Procs : SendRest(p)
    BY <1>4
  <2>2. UNCHANGED link /\ sending[p] # <<>>
    BY <2>1 DEF SendRest, MutexFree
  <2>3. CASE ~Usable(p)
    <3>1. up' = up /\ sending' = [sending EXCEPT ![p] = <<>>]
      BY <2>1, <2>3 DEF SendRest
    <3>2. q # p => sending'[q] = sending[q]
      BY <1>1, <3>1
    <3> QED BY <1>2, <2>2, <2>3, <3>1, <3>2 DEF StreamIsWhole, Whole, Usable
  <2>4. CASE Usable(p)
    <3>1. up' = [up EXCEPT ![p] = Append(up[p], Head(sending[p]))] /\ sending' = [sending EXCEPT ![p] = Tail(sending[p])]
      BY <2>1, <2>4 DEF SendRest
    <3>2. CASE q # p
      <4>1. up'[q] = up[q] /\ sending'[q] = sending[q]
        BY <1>1, <3>1, <3>2
      <4> QED BY <1>2, <2>2, <4>1 DEF StreamIsWhole
    <3>3. CASE q = p /\ p \notin closing
      <4>1. PICK r \in Seq(Cells), u \in Seq(Cells), x \in Seq(Cells), l \in {"pending", "open"} :
              r = reader[p] /\ u = up[p] /\ x = sending[p] /\ l = link[p]
        BY <1>1, <2>4 DEF Usable
      <4>2. Whole(r, u, x, l) /\ x # <<>>
        BY <2>2, <3>3, <4>1 DEF StreamIsWhole
      <4>3. Whole(r, Append(u, Head(x)), Tail(x), l)
        BY <4>2, NextWhole
      <4>4. up'[p] = Append(u, Head(x)) /\ sending'[p] = Tail(x)
        BY <1>1, <3>1, <4>1
      <4> QED BY <1>2, <2>2, <3>3, <4>1, <4>3, <4>4 DEF StreamIsWhole
    <3>4. CASE q = p /\ p \in closing
      BY <1>2, <3>4 DEF StreamIsWhole
    <3> QED BY <3>2, <3>3, <3>4
  <2> QED BY <2>3, <2>4
<1>5. CASE \E p \in Procs : Heartbeat(p) \/ Registered(p)
  <2>1. PICK p \in Procs, op \in {"Heartbeat", "WorkerReady"} : send_frame(p, Message(op)) /\ UNCHANGED link
    BY <1>5 DEF Heartbeat, Registered
  <2>2. Message(op) \in Frames
    BY FrameTypes DEF Ops
  <2> QED BY <1>2, <2>1, <2>2, SendFrameWhole
<1>6. CASE \E p \in Procs : start_compile(p) \/ CancelAttempt(p) \/ Disconnected(p) \/ Stop(p)
  <2>1. UNCHANGED <<up, sending, link>>
    BY <1>6 DEF start_compile, CancelAttempt, Disconnected, Stop, transportVars
  <2> QED BY <1>2, <2>1 DEF StreamIsWhole
<1>7. CASE \E p \in Procs : Die(p)
  <2> SUFFICES ASSUME NEW q \in Procs PROVE StreamIsWhole(q)'
    OBVIOUS
  <2>1. PICK p \in Procs : Die(p)
    BY <1>7
  <2>2. /\ UNCHANGED up /\ sending' = [sending EXCEPT ![p] = <<>>]
        /\ link' = [link EXCEPT ![p] = "reset"] \/ (UNCHANGED link /\ ~Usable(p))
    BY <2>1 DEF Die
  <2>3. link'[p] \notin {"pending", "open"}
    BY <1>1, <2>2 DEF Usable
  <2>4. q # p => link'[q] = link[q] /\ sending'[q] = sending[q]
    BY <1>1, <2>2
  <2> QED BY <1>2, <2>2, <2>3, <2>4 DEF StreamIsWhole, Whole
<1>8. CASE \E a \in Attempts : ThreadStep(a) \/ CompilerExits(a)
  <2>1. PICK a \in Attempts : ThreadStep(a) \/ CompilerExits(a)
    BY <1>8
  <2>2. CASE Compile(a) \/ Decide(a) \/ Erase(a) \/ CompilerExits(a)
    <3>1. UNCHANGED <<up, sending, link>>
      BY <2>2 DEF Compile, Decide, Erase, CompilerExits, transportVars
    <3> QED BY <1>2, <3>1 DEF StreamIsWhole
  <2>3. CASE BeginCompile(a) \/ SendVerdict(a)
    <3>1. PICK f : send_frame(owner[a], f) /\ UNCHANGED link /\ f \in {Concerning("BeginCompile", a), verdict[a]}
      BY <2>3 DEF BeginCompile, SendVerdict
    <3>2. f \in Frames
      BY <3>1, FrameTypes DEF Ops, TypeOK, WorkerTypes
    <3>3. owner[a] \in Procs
      BY <2>3 DEF BeginCompile, SendVerdict, At, TypeOK, WorkerTypes
    <3> QED BY <1>2, <3>1, <3>2, <3>3, SendFrameWhole
  <2> QED BY <2>1, <2>2, <2>3 DEF ThreadStep
<1> QED BY <1>3, <1>4, <1>5, <1>6, <1>7, <1>8 DEF WorkerStep, MainStep

(* A connection that is gone, and one that has lost what was on its way.     *)
LEMMA NothingWhole ==
  ASSUME NEW x
  PROVE  Whole(<<>>, <<>>, x, "shut")
<1>1. <<>> \o <<>> = <<>> /\ Len(<<>>) = 0
  BY EmptyRow, ConcatEmptySeq
<1>2. InOrder(<<>>)
  BY <1>1 DEF InOrder
<1> QED BY <1>1, <1>2 DEF Whole

(* What is held of a stream is in order when the rest of it is lost.        *)
LEMMA StartInOrder ==
  ASSUME NEW r \in Seq(Cells), NEW u \in Seq(Cells), InOrder(r \o u)
  PROVE  InOrder(r \o <<>>)
<1>1. r \o <<>> = r
  BY ConcatEmptySeq
<1>2. PICK s \in Seq(Cells), h \in Nat, k \in Nat :
        s = r \o u /\ h = Len(r) /\ Len(s) = h + k /\ \A i \in 1..h : s[i] = r[i]
  <2>1. PICK h \in Nat, k \in Nat : h = Len(r) /\ k = Len(u)
    BY LenProperties
  <2>2. r \o u \in Seq(Cells) /\ Len(r \o u) = h + k /\ \A i \in 1..h : (r \o u)[i] = r[i]
    BY <2>1, Concatenated
  <2> QED BY <2>1, <2>2
<1>3. Len(r) <= Len(s) /\ \A i \in 1..Len(r) : r[i] = s[i]
  BY <1>2
<1>4. InOrder(r)
  BY <1>2, <1>3, PrefixInOrder
<1> QED BY <1>1, <1>4

(* A row cut in two is the two parts of it.                                 *)
LEMMA CutInTwo ==
  ASSUME NEW S, NEW u \in Seq(S), NEW k \in 1..Len(u)
  PROVE  /\ SubSeq(u, 1, k) \in Seq(S) /\ SubSeq(u, k + 1, Len(u)) \in Seq(S)
         /\ u = SubSeq(u, 1, k) \o SubSeq(u, k + 1, Len(u))
<1>1. PICK n \in Nat : n = Len(u) /\ k \in 1..n
  BY LenProperties
<1>2. PICK c \in Seq(S) : c = SubSeq(u, 1, k) /\ Len(c) = k /\ \A i \in 1..k : c[i] = u[i]
  <2>1. \A i \in 1..k : u[i] \in S
    BY <1>1, ElementOfSeq
  <2>2. k \in Int /\ 1 \in Int /\ 1 <= k
    BY <1>1
  <2>3. /\ SubSeq(u, 1, k) \in Seq(S) /\ Len(SubSeq(u, 1, k)) = k - 1 + 1
        /\ \A i \in 1..(k - 1 + 1) : SubSeq(u, 1, k)[i] = u[1 + i - 1]
    BY <2>1, <2>2, SubSeqProperties
  <2>4. k - 1 + 1 = k /\ \A i \in 1..k : 1 + i - 1 = i
    BY <2>2
  <2>5. PICK c : c = SubSeq(u, 1, k)
    OBVIOUS
  <2>6. c \in Seq(S) /\ Len(c) = k /\ \A i \in 1..k : c[i] = u[i]
    BY <2>3, <2>4, <2>5
  <2> QED BY <2>5, <2>6
<1>3. PICK v \in Seq(S) : v = SubSeq(u, k + 1, n) /\ Len(v) = n - k /\ \A i \in 1..(n - k) : v[i] = u[k + i]
  <2>1. \A i \in (k + 1)..n : u[i] \in S
    BY <1>1, ElementOfSeq
  <2>2. k + 1 \in Int /\ n \in Int /\ n - (k + 1) + 1 = n - k /\ \A i \in 1..(n - k) : (k + 1) + i - 1 = k + i
    BY <1>1
  <2>3. /\ SubSeq(u, k + 1, n) \in Seq(S)
        /\ Len(SubSeq(u, k + 1, n)) = IF k + 1 <= n THEN n - (k + 1) + 1 ELSE 0
        /\ \A i \in 1..(n - (k + 1) + 1) : SubSeq(u, k + 1, n)[i] = u[(k + 1) + i - 1]
    BY <2>1, <2>2, SubSeqProperties
  <2>4. Len(SubSeq(u, k + 1, n)) = n - k
    BY <1>1, <2>3
  <2> QED BY <2>2, <2>3, <2>4
<1>4. PICK w \in Seq(S) : w = c \o v /\ Len(w) = k + (n - k) /\ (\A i \in 1..k : w[i] = c[i]) /\ \A i \in 1..(n - k) : w[k + i] = v[i]
  <2>1. n - k \in Nat /\ k \in Nat
    BY <1>1
  <2>2. c \o v \in Seq(S) /\ Len(c \o v) = k + (n - k)
        /\ (\A i \in 1..k : (c \o v)[i] = c[i]) /\ \A i \in 1..(n - k) : (c \o v)[k + i] = v[i]
    BY <1>2, <1>3, <2>1, Concatenated
  <2> QED BY <2>2
<1>5. Len(w) = Len(u)
  BY <1>1, <1>4
<1>6. ASSUME NEW i \in 1..Len(u) PROVE w[i] = u[i]
  <2>1. CASE i <= k
    BY <1>1, <1>2, <1>4, <2>1
  <2>2. CASE ~(i <= k)
    <3>1. i - k \in 1..(n - k) /\ k + (i - k) = i
      BY <1>1, <2>2
    <3> QED BY <1>3, <1>4, <3>1
  <2> QED BY <2>1, <2>2
<1>7. w = u
  BY <1>4, <1>5, <1>6, SeqEqual
<1> QED BY <1>1, <1>2, <1>3, <1>4, <1>7

(* What a recv leaves of the stream.                                         *)
LEMMA ReceivedStream ==
  ASSUME TypeOK, NEW p \in Procs, Recv(p)
  PROVE  \E cells \in Seq(Cells), v \in Seq(Cells) :
           /\ up[p] = cells \o v
           /\ up' = [up EXCEPT ![p] = v]
           /\ reader' = [reader EXCEPT ![p] = feed(reader[p], cells).rest]
           /\ feed(reader[p], cells).error # "none" => p \in closing'
           /\ closing \subseteq closing'
           /\ closing' \subseteq closing \cup {p}
           /\ UNCHANGED link
<1>1. PICK k \in 1..Len(up[p]) : Receive(p, SubSeq(up[p], 1, k)) /\ up' = [up EXCEPT ![p] = SubSeq(up[p], k + 1, Len(up[p]))]
  BY DEF Recv
<1>2. PICK u \in Seq(Cells) : u = up[p] /\ k \in 1..Len(u)
  BY DEF TypeOK, TransportTypes
<1>3. PICK cells \in Seq(Cells), v \in Seq(Cells) :
        cells = SubSeq(up[p], 1, k) /\ v = SubSeq(up[p], k + 1, Len(up[p])) /\ up[p] = cells \o v
  <2>1. /\ SubSeq(u, 1, k) \in Seq(Cells) /\ SubSeq(u, k + 1, Len(u)) \in Seq(Cells)
        /\ u = SubSeq(u, 1, k) \o SubSeq(u, k + 1, Len(u))
    BY <1>2, CutInTwo
  <2> QED BY <1>2, <2>1
<1>4. /\ reader' = [reader EXCEPT ![p] = feed(reader[p], cells).rest]
      /\ feed(reader[p], cells).error # "none" => closing' = closing \cup {p}
      /\ feed(reader[p], cells).error = "none" => closing' = closing
  BY <1>1, <1>3 DEF Receive
<1>5. UNCHANGED link
  BY DEF Recv
<1> QED BY <1>1, <1>3, <1>4, <1>5

(* The coordinator never holds a whole frame in a reader.                   *)
LEMMA CoordinatorKeepsReaders ==
  ASSUME TypeOK, ConnectionsAreReal, ReadersAreShort, CoordinatorStep
  PROVE  ReadersAreShort'
<1>1. \A p \in Procs : Short(reader[p])
  BY DEF ReadersAreShort, Short
<1>2. up \in [Procs -> Seq(Cells)] /\ reader \in [Procs -> Seq(Cells)]
  BY DEF TypeOK, TransportTypes, ReactorTypes
<1> SUFFICES ASSUME NEW q \in Procs PROVE Short(reader'[q])
  BY DEF ReadersAreShort, Short
<1>3. CASE \E p \in Procs : Recv(p)
  <2>1. PICK p \in Procs : Recv(p)
    BY <1>3
  <2>2. PICK cells \in Seq(Cells) : reader' = [reader EXCEPT ![p] = feed(reader[p], cells).rest]
    BY <2>1, ReceivedStream
  <2>3. Short(feed(reader[p], cells).rest)
    BY <1>1, <1>2, FedShort
  <2> QED BY <1>1, <1>2, <2>2, <2>3
<1>4. CASE EndTurn \/ LeaveLoop
  <2>1. PICK gone \in SUBSET Procs : Reaped(gone)
    BY <1>4, TurnEnds
  <2>2. reader'[q] = <<>> \/ reader'[q] = reader[q]
    BY <2>1 DEF Reaped, Shut
  <2> QED BY <1>1, <2>2 DEF Short
<1>5. CASE \/ \E p \in Procs : RecvFails(p) \/ Accept(p) \/ Send(p) \/ \E a \in Attempts : Assign(a, p)
           \/ \E a \in Attempts : Beaten(a)
           \/ Shutdown
           \/ \E p \in Procs : Reset(p) /\ UNCHANGED reactorVars
  <2>1. UNCHANGED reader
    BY <1>5 DEF RecvFails, Accept, Send, Assign, Beaten, Shutdown, reactorVars
  <2> QED BY <1>1, <2>1
<1> QED BY <1>3, <1>4, <1>5 DEF CoordinatorStep, ReactorStep, Serve

(* However recv cuts a stream up, and however its connection ends, what is  *)
(* left is whole.                                                           *)
LEMMA CoordinatorKeepsStreams ==
  ASSUME TypeOK, ConnectionsAreReal, ReadersAreShort, \A q \in Procs : StreamIsWhole(q), CoordinatorStep
  PROVE  \A q \in Procs : StreamIsWhole(q)'
<1>1. /\ up \in [Procs -> Seq(Cells)] /\ reader \in [Procs -> Seq(Cells)] /\ sending \in [Procs -> Seq(Cells)]
      /\ link \in [Procs -> {"none", "pending", "open", "reset", "shut"}]
  BY DEF TypeOK, TransportTypes, WorkerTypes, ReactorTypes
<1>2. UNCHANGED sending
  BY DEF CoordinatorStep, workerVars
<1> SUFFICES ASSUME NEW q \in Procs PROVE StreamIsWhole(q)'
  OBVIOUS
<1>3. CASE \E p \in Procs : Recv(p)
  <2>1. PICK p \in Procs : Recv(p)
    BY <1>3
  <2>2. PICK cells \in Seq(Cells), v \in Seq(Cells) :
           /\ up[p] = cells \o v
           /\ up' = [up EXCEPT ![p] = v]
           /\ reader' = [reader EXCEPT ![p] = feed(reader[p], cells).rest]
           /\ feed(reader[p], cells).error # "none" => p \in closing'
           /\ closing \subseteq closing'
           /\ closing' \subseteq closing \cup {p}
           /\ UNCHANGED link
    BY <2>1, ReceivedStream
  <2>3. UNCHANGED link
    BY <2>2
  <2>4. CASE q # p
    <3>1. up'[q] = up[q] /\ reader'[q] = reader[q]
      BY <1>1, <2>2, <2>4
    <3>2. q \in closing' <=> q \in closing
      BY <2>2, <2>4
    <3> QED BY <1>2, <2>3, <3>1, <3>2 DEF StreamIsWhole
  <2>5. CASE q = p /\ feed(reader[p], cells).error # "none"
    BY <2>2, <2>5 DEF StreamIsWhole
  <2>6. CASE q = p /\ feed(reader[p], cells).error = "none" /\ p \notin closing
    <3>0. PICK b \in Seq(Cells), u \in Seq(Cells) : b = reader[p] /\ u = up[p]
      BY <1>1
    <3>1. PICK r : b = reader[p] /\ u = up[p] /\ r = feed(b, cells).rest
      BY <3>0
    <3>2. Short(b) /\ Whole(b, u, sending[p], link[p]) /\ feed(b, cells).error = "none" /\ u = cells \o v
      BY <2>2, <2>6, <3>1 DEF ReadersAreShort, Short, StreamIsWhole
    <3>3. InOrder(b \o u)
      BY <3>2 DEF Whole
    <3>4. InOrder(r \o v) /\ RestOf(r \o v) = RestOf(b \o u)
      <4>1. /\ InOrder(feed(b, cells).rest \o v)
            /\ RestOf(feed(b, cells).rest \o v) = RestOf(b \o u)
        <5>1. Short(b) /\ feed(b, cells).error = "none" /\ InOrder(b \o (cells \o v))
          BY <3>2, <3>3
        <5>2. /\ InOrder(feed(b, cells).rest \o v)
              /\ RestOf(feed(b, cells).rest \o v) = RestOf(b \o (cells \o v))
          BY <5>1, CutInOrder
        <5> QED BY <3>2, <5>2
      <4> QED BY <3>1, <4>1
    <3>5. Whole(r, v, sending[p], link[p])
      BY <3>2, <3>4 DEF Whole
    <3>6. reader'[p] = r /\ up'[p] = v
      BY <1>1, <2>2, <3>1
    <3> QED BY <1>2, <2>3, <2>6, <3>5, <3>6 DEF StreamIsWhole
  <2>7. CASE q = p /\ p \in closing
    BY <2>2, <2>7 DEF StreamIsWhole
  <2> QED BY <2>4, <2>5, <2>6, <2>7
<1>4. CASE EndTurn \/ LeaveLoop
  <2>1. PICK gone \in SUBSET Procs : Reaped(gone)
    BY <1>4, TurnEnds
  <2>2. CASE q \in gone
    <3>1. up'[q] = <<>> /\ reader'[q] = <<>> /\ link'[q] = "shut"
      BY <2>1, <2>2 DEF Reaped, Shut
    <3> QED BY <3>1, NothingWhole DEF StreamIsWhole
  <2>3. CASE q \notin gone
    <3>1. up'[q] = up[q] /\ reader'[q] = reader[q] /\ link'[q] = link[q] /\ (q \in closing' <=> q \in closing)
      BY <2>1, <2>3 DEF Reaped, Shut
    <3> QED BY <1>2, <3>1 DEF StreamIsWhole
  <2> QED BY <2>2, <2>3
<1>5. CASE \E p \in Procs : RecvFails(p)
  <2>1. PICK p \in Procs : RecvFails(p)
    BY <1>5
  <2>2. closing' = closing \cup {p} /\ UNCHANGED <<reader, link>> /\ (q # p => up'[q] = up[q])
    BY <1>1, <2>1 DEF RecvFails
  <2> QED BY <1>2, <2>2 DEF StreamIsWhole
<1>6. CASE \E p \in Procs : Reset(p) /\ UNCHANGED reactorVars
  <2>1. PICK p \in Procs : Reset(p) /\ UNCHANGED reactorVars
    BY <1>6
  <2>2. UNCHANGED <<reader, closing>> /\ link' = [link EXCEPT ![p] = "reset"] /\ up' = [up EXCEPT ![p] = <<>>]
    BY <2>1 DEF Reset, reactorVars
  <2>3. CASE q # p
    <3>1. up'[q] = up[q] /\ link'[q] = link[q]
      BY <1>1, <2>2, <2>3
    <3> QED BY <1>2, <2>2, <3>1 DEF StreamIsWhole
  <2>4. CASE q = p /\ p \notin closing
    <3>1. up'[p] = <<>> /\ link'[p] = "reset"
      BY <1>1, <2>2
    <3>2. PICK r \in Seq(Cells), u \in Seq(Cells) : r = reader[p] /\ u = up[p]
      BY <1>1
    <3>3. InOrder(r \o u)
      BY <2>4, <3>2 DEF StreamIsWhole, Whole
    <3>4. InOrder(r \o <<>>)
      BY <3>3, StartInOrder
    <3> QED BY <2>2, <2>4, <3>1, <3>2, <3>4 DEF StreamIsWhole, Whole
  <2>5. CASE q = p /\ p \in closing
    BY <2>2, <2>5 DEF StreamIsWhole
  <2> QED BY <2>3, <2>4, <2>5
<1>7. CASE \E p \in Procs : Accept(p)
  <2>1. PICK p \in Procs : Accept(p)
    BY <1>7
  <2>2. UNCHANGED <<reader, closing, up>> /\ link' = [link EXCEPT ![p] = "open"] /\ link[p] = "pending"
    BY <2>1 DEF Accept, reactorVars
  <2>3. link'[q] = link[q] \/ (link[q] = "pending" /\ link'[q] = "open")
    BY <1>1, <2>2
  <2> QED BY <1>2, <2>2, <2>3 DEF StreamIsWhole, Whole
<1>8. CASE \E p \in Procs : Send(p)
  <2>1. PICK p \in Procs : Send(p)
    BY <1>8
  <2>2. closing' \in {closing, closing \cup {p}} /\ UNCHANGED <<reader, up, link>>
    BY <2>1 DEF Send, SendSome
  <2> QED BY <1>2, <2>2 DEF StreamIsWhole
<1>9. CASE \/ \E p \in Procs, a \in Attempts : Assign(a, p)
           \/ \E a \in Attempts : Beaten(a)
           \/ Shutdown
  <2>1. UNCHANGED <<reader, closing, up, link>>
    BY <1>9 DEF Assign, Beaten, Shutdown, transportVars
  <2> QED BY <1>2, <2>1 DEF StreamIsWhole
<1> QED BY <1>3, <1>4, <1>5, <1>6, <1>7, <1>8, <1>9 DEF CoordinatorStep, ReactorStep, Serve

-----------------------------------------------------------------------------
(***************************************************************************)
(* The invariant.                                                           *)
(***************************************************************************)

(* The parts of Orderly that speak of attempts and streams hold at first,    *)
(* when there are none.                                                     *)
LEMMA InitsOfWork ==
  ASSUME Init
  PROVE  VerdictsAreFinal /\ CapacityIsBooked /\ ReportIsCleanlyBuilt /\ ReadersAreShort
         /\ \A p \in Procs : StreamIsWhole(p)
<1> USE DEF Init, TransportInit, WorkerInit, ReactorInit
<1>1. VerdictsAreFinal
  <2>1. \A S : <<>> \in Seq(S)
    BY EmptyRow
  <2>2. \A p \in Procs : up[p] = <<>> /\ reader[p] = <<>> /\ sending[p] = <<>>
    OBVIOUS
  <2>3. \A a \in Attempts : thread[a] = "none"
    OBVIOUS
  <2> QED BY <2>1, <2>2, <2>3 DEF VerdictsAreFinal
<1>2. \A a \in Attempts : attempt[a].state = "absent" /\ thread[a] = "none"
  OBVIOUS
<1>3. CapacityIsBooked
  <2>1. ASSUME NEW p \in Procs PROVE Cardinality(Booked(p)) <= MaxInflight
    <3>1. Booked(p) = {}
      BY <1>2 DEF Booked
    <3>2. Cardinality({}) = 0
      BY FS_EmptySet
    <3> QED BY <3>1, <3>2, ReactorConstants
  <2> QED BY <1>2, <2>1 DEF CapacityIsBooked
<1>4. ReportIsCleanlyBuilt
  BY <1>2 DEF ReportIsCleanlyBuilt
<1>5. ReadersAreShort
  BY DEF ReadersAreShort
<1>6. ASSUME NEW p \in Procs PROVE StreamIsWhole(p)
  <2>1. up[p] = <<>> /\ reader[p] = <<>> /\ link[p] = "none"
    OBVIOUS
  <2>2. Whole(<<>>, <<>>, sending[p], "shut")
    BY NothingWhole
  <2> QED BY <2>1, <2>2 DEF StreamIsWhole, Whole
<1> QED BY <1>1, <1>3, <1>4, <1>5, <1>6

(* Nothing that Orderly speaks of changes in a step that stutters.           *)
LEMMA StutterKeepsOrder ==
  ASSUME Orderly, UNCHANGED vars
  PROVE  Orderly'
<1> USE DEF vars, transportVars, workerVars, reactorVars
<1>1. TypeOK'
  BY DEF Orderly, TypeOK, TransportTypes, WorkerTypes, ReactorTypes
<1>2. ConnectionsAreReal' /\ ThreadsAreSupervised' /\ RunsAreOrderly'
  BY DEF Orderly, ConnectionsAreReal, ThreadsAreSupervised, RunsAreOrderly, Connected, Alive
<1>3. AssignedOnce'
  <2>1. \A p \in Procs : OnTheWay(p)' = OnTheWay(p)
    BY DEF OnTheWay
  <2>2. AssignedOnce
    BY DEF Orderly
  <2>3. UNCHANGED <<thread, attempt, owner>>
    OBVIOUS
  <2> QED BY <2>1, <2>2, <2>3 DEF AssignedOnce
<1>4. VerdictsAreFinal'
  BY DEF Orderly, VerdictsAreFinal, Settled
<1>5. CapacityIsBooked' /\ ReportIsCleanlyBuilt'
  BY DEF Orderly, CapacityIsBooked, Booked, ReportIsCleanlyBuilt
<1>6. ReadersAreShort' /\ FramesStayWhole'
  BY DEF Orderly, ReadersAreShort, FramesStayWhole, Usable
<1> QED BY <1>1, <1>2, <1>3, <1>4, <1>5, <1>6 DEF Orderly

(* Orderly is inductive: no part of it stands by itself, and no worker, kill *)
(* or broken connection takes a part of it away.                            *)
LEMMA OrderIsKept ==
  ASSUME Orderly, [Next]_vars
  PROVE  Orderly'
<1> USE DEF Orderly
<1>1. TypeOK'
  BY TypesAreKept
<1>2. \A p \in Procs : StreamIsWhole(p)
  BY StreamsOneByOne
<1>3. CASE WorkerStep
  <2>1. ConnectionsAreReal'
    BY <1>3, WorkersKeepConnections
  <2>2. AssignedOnce'
    BY <1>1, <1>3, WorkersKeepAssignments
  <2>3. ThreadsAreSupervised' /\ RunsAreOrderly'
    BY <1>3, WorkersKeepThreads
  <2>4. VerdictsAreFinal'
    BY <1>3, WorkersKeepVerdicts
  <2>5. CapacityIsBooked'
    BY <1>3, WorkersKeepCapacity
  <2>6. ReportIsCleanlyBuilt'
    BY <1>3, ReportsAreBuilt
  <2>7. ReadersAreShort'
    BY <1>3 DEF WorkerStep, reactorVars, ReadersAreShort
  <2>8. FramesStayWhole'
    BY <1>1, <1>2, <1>3, WorkersKeepStreams, StreamsOneByOneNext
  <2> QED BY <1>1, <2>1, <2>2, <2>3, <2>4, <2>5, <2>6, <2>7, <2>8
<1>4. CASE CoordinatorStep
  <2>1. ConnectionsAreReal'
    BY <1>4, CoordinatorKeepsConnections
  <2>2. AssignedOnce'
    BY <1>1, <1>4, CoordinatorKeepsAssignments
  <2>3. ThreadsAreSupervised' /\ RunsAreOrderly'
    BY <1>4 DEF CoordinatorStep, workerVars, ThreadsAreSupervised, RunsAreOrderly, Alive
  <2>4. VerdictsAreFinal'
    BY <1>4, CoordinatorKeepsVerdicts
  <2>5. CapacityIsBooked'
    BY <1>4, CoordinatorKeepsCapacity
  <2>6. ReportIsCleanlyBuilt'
    BY <1>4, ReportsAreBuilt
  <2>7. ReadersAreShort'
    BY <1>4, CoordinatorKeepsReaders
  <2>8. FramesStayWhole'
    BY <1>1, <1>2, <1>4, CoordinatorKeepsStreams, StreamsOneByOneNext
  <2> QED BY <1>1, <2>1, <2>2, <2>3, <2>4, <2>5, <2>6, <2>7, <2>8
<1>5. CASE UNCHANGED vars
  BY <1>5, StutterKeepsOrder
<1> QED BY <1>3, <1>4, <1>5, StepsApart

(* The inductive invariant of the three kinds of process, from the            *)
(* connection to the row of assignments in it.                              *)
THEOREM OrderlyHolds == Spec => []Orderly
<1>1. Init => Orderly
  <2> SUFFICES ASSUME Init PROVE Orderly
    OBVIOUS
  <2>1. TypeOK /\ ConnectionsAreReal /\ AssignedOnce /\ ThreadsAreSupervised /\ RunsAreOrderly
    BY Inits
  <2>2. FramesStayWhole
    BY <2>1, InitsOfWork, StreamsOneByOne
  <2> QED BY <2>1, <2>2, InitsOfWork DEF Orderly
<1>2. Orderly /\ [Next]_vars => Orderly'
  BY OrderIsKept
<1> QED BY <1>1, <1>2, PTL DEF Spec

(* The types of the three processes' state; what was sent of a queue never    *)
(* exceeds it, which is where Connection::outgoing_sent would run ahead.    *)
THEOREM ProcessTypes == Spec => []TypeOK
<1>1. Orderly => TypeOK
  BY DEF Orderly
<1> QED BY <1>1, OrderlyHolds, PTL

(* send_mutex and FrameReader keep the frames of a stream apart, whichever    *)
(* threads send them and however recv cuts them up.                         *)
THEOREM StreamsStayWhole == Spec => []FramesStayWhole
<1>1. Orderly => FramesStayWhole
  BY DEF Orderly
<1> QED BY <1>1, OrderlyHolds, PTL

(* What on_report accepts was built by a compiler that ended by itself with   *)
(* success.                                                                 *)
THEOREM ReportsAreCleanlyBuilt == Spec => []ReportIsCleanlyBuilt
<1>1. Orderly => ReportIsCleanlyBuilt
  BY DEF Orderly
<1> QED BY <1>1, OrderlyHolds, PTL

(* A worker compiles no more attempts at a time than max_inflight, although   *)
(* the coordinator counts by what it has heard of them.                     *)
THEOREM WorkersKeepToCapacity == Spec => []CapacityIsKept
<1>1. Orderly => CapacityIsKept
  <2> SUFFICES ASSUME Orderly, NEW p \in Procs
               PROVE  Cardinality({a \in Active(p) : thread[a] \in {"begin", "compile"}}) <= MaxInflight
    BY DEF CapacityIsKept
  <2>1. PICK C, B : C = {a \in Active(p) : thread[a] \in {"begin", "compile"}} /\ B = Booked(p)
    OBVIOUS
  <2>2. C \subseteq B
    <3> SUFFICES ASSUME NEW a \in Attempts, owner[a] = p, thread[a] \in {"begin", "compile"} PROVE a \in B
      BY <2>1 DEF Active
    <3>1. attempt[a].with = p
      BY DEF Orderly, AssignedOnce
    <3>2. attempt[a].state \in {"assigned", "lost"}
      BY DEF Orderly, CapacityIsBooked
    <3> QED BY <2>1, <3>1, <3>2 DEF Booked
  <2>3. IsFiniteSet(B)
    <3>1. B \subseteq Attempts
      BY <2>1 DEF Booked
    <3> QED BY <3>1, TransportConstants, FS_Subset
  <2>4. Cardinality(C) <= Cardinality(B) /\ Cardinality(C) \in Nat /\ Cardinality(B) \in Nat
    BY <2>2, <2>3, FS_Subset, FS_CardinalityType
  <2>5. Cardinality(B) <= MaxInflight
    BY <2>1 DEF Orderly, CapacityIsBooked
  <2> QED BY <2>1, <2>4, <2>5, ReactorConstants
<1> QED BY <1>1, OrderlyHolds, PTL

(* A compiler runs only under a thread that waits for it, or outlives a       *)
(* killed worker because it could not be put in a job.                      *)
THEOREM NoCompilerIsOrphaned == Spec => []NoOrphans
<1>1. Orderly => NoOrphans
  <2> SUFFICES ASSUME Orderly, NEW a \in Attempts, owner[a] # NoProc, run[a].child = "running"
               PROVE  main[owner[a]] # "stopped" /\ (main[owner[a]] = "dead" => ~run[a].job)
    BY DEF NoOrphans
  <2>1. CASE run[a].pc = "none"
    BY <2>1 DEF Orderly, ThreadsAreSupervised
  <2>2. CASE run[a].pc # "none"
    <3>1. thread[a] = "compile"
      BY <2>2 DEF Orderly, ThreadsAreSupervised
    <3>2. main[owner[a]] \in {"receiving", "draining"}
      BY <3>1 DEF Orderly, ThreadsAreSupervised, Alive
    <3> QED BY <3>2
  <2> QED BY <2>1, <2>2
<1> QED BY <1>1, OrderlyHolds, PTL

-----------------------------------------------------------------------------
(***************************************************************************)
(* The delegation that the processes make together.                         *)
(***************************************************************************)

(* At the start nothing was handed out.                                     *)
LEMMA DelegationStarts == Init => Contract!Init
<1> SUFFICES ASSUME Init PROVE Contract!Init
  OBVIOUS
<1> USE DEF Init, TransportInit, WorkerInit, ChildInit, ReactorInit
<1>1. \A a \in Attempts : attempt[a].state = "absent" /\ attempt[a].with = Nobody
  OBVIOUS
<1>2. \A a \in Attempts : Work(a) = "none"
  BY DEF Work
<1>3. \A a \in Attempts : run[a].made = FALSE
  BY DEF Idle
<1>4. {p \in Procs : session[p] = "closed"} = {}
  OBVIOUS
<1> QED BY <1>1, <1>2, <1>3, <1>4 DEF Contract!Init

(* How a step of a worker treats attempt b: it leaves it alone, or goes on    *)
(* with its compile.                                                        *)
StaysWith(b) == Work(b)' = Work(b) /\ run'[b].made = run[b].made
GoesOnWith(b, p) ==
  /\ Work(b) = "underway" /\ attempt[b].with = p
  /\ Work(b)' \in {"underway", "over"}
  /\ run[b].made => run'[b].made

(* The step that takes attempt a up.                                        *)
TakesUp(a) ==
  /\ Work(a) = "none" /\ attempt[a].state \in {"assigned", "lost"}
  /\ Work(a)' \in {"underway", "over"}
  /\ run'[a].made = run[a].made
  /\ \A b \in Attempts \ {a} : StaysWith(b)

(* A worker takes up one attempt that was assigned to it, or goes on with    *)
(* those it has; if it dies it is through with all of them, and nothing is   *)
(* made of those that were over.                                            *)
LEMMA WorkersWork ==
  ASSUME Orderly, WorkerStep
  PROVE  \/ \E a \in Attempts : TakesUp(a)
         \/ \E p \in Procs : \A b \in Attempts : StaysWith(b) \/ GoesOnWith(b, p)
         \/ \A b \in Attempts : StaysWith(b)
<1> USE DEF Orderly, TypeOK, WorkerTypes
<1>0. /\ run \in [Attempts -> Runs]
      /\ \A a \in Attempts : Supervised(a) /\ OrderlyRun(a)
      /\ \A a \in Attempts : thread[a] # "none" => attempt[a].with = owner[a] /\ owner[a] \in Procs
  <2>1. \A a \in Attempts : Supervised(a) /\ OrderlyRun(a)
    BY OneByOne
  <2>2. \A a \in Attempts : thread[a] # "none" => attempt[a].with = owner[a]
    BY DEF AssignedOnce
  <2>3. \A a \in Attempts : thread[a] # "none" => owner[a] \in Procs
    BY DEF ThreadsAreSupervised
  <2> QED BY <2>1, <2>2, <2>3
<1>1. CASE \E p \in Procs : Worker(p) \/ SendRest(p) \/ Heartbeat(p) \/ Registered(p) \/ CancelAttempt(p)
                            \/ Disconnected(p) \/ Stop(p)
  <2>1. UNCHANGED <<thread, run>>
    BY <1>1 DEF Worker, Start, SendRest, Heartbeat, Registered, CancelAttempt, Disconnected, Stop
  <2> QED BY <2>1 DEF StaysWith, Work
<1>2. CASE \E p \in Procs : start_compile(p)
  <2>1. PICK p \in Procs : start_compile(p)
    BY <1>2
  <2>2. PICK a : a = Head(down[p]).attempt
    OBVIOUS
  <2>3. /\ a \in Attempts /\ thread[a] = "none" /\ attempt[a].state \in {"assigned", "lost"}
        /\ UNCHANGED run \/ \E family \in Families[a] : run' = [run EXCEPT ![a].family = family]
        /\ thread' \in {[thread EXCEPT ![a] = "begin"], [thread EXCEPT ![a] = "send"]}
    BY <2>1, <2>2, AssignmentsAreReal DEF start_compile, Go
  <2>4. \A b \in Attempts : run'[b].made = run[b].made
    <3>1. CASE UNCHANGED run
      BY <3>1
    <3>2. CASE \E family \in Families[a] : run' = [run EXCEPT ![a].family = family]
      <4>1. PICK family \in Families[a] : run' = [run EXCEPT ![a].family = family]
        BY <3>2
      <4>2. PICK r : r = [run[a] EXCEPT !.family = family]
        OBVIOUS
      <4>3. r.made = run[a].made
        BY <1>0, <2>3, <4>2 DEF Runs
      <4>4. run' = [run EXCEPT ![a] = r]
        BY <4>1, <4>2
      <4> QED BY <1>0, <2>3, <4>3, <4>4
    <3> QED BY <2>3, <3>1, <3>2
  <2>5. Work(a) = "none" /\ Work(a)' \in {"underway", "over"}
    BY <2>3 DEF Work
  <2>6. \A b \in Attempts \ {a} : Work(b)' = Work(b)
    BY <2>3 DEF Work
  <2> QED BY <2>3, <2>4, <2>5, <2>6 DEF TakesUp, StaysWith
<1>3. CASE \E p \in Procs : Die(p)
  <2>1. PICK p \in Procs : Die(p)
    BY <1>3
  <2>2. ASSUME NEW b \in Attempts PROVE StaysWith(b) \/ GoesOnWith(b, p)
    <3>1. CASE b \notin Active(p)
      <4>1. thread'[b] = thread[b] /\ run'[b] = run[b]
        BY <2>1, <3>1 DEF Die
      <4> QED BY <4>1 DEF StaysWith, Work
    <3>2. CASE b \in Active(p)
      <4>1. thread'[b] = "done" /\ thread[b] \in {"begin", "compile", "send", "sent"} /\ owner[b] = p
        BY <2>1, <3>2 DEF Die, Active
      <4>2. PICK r : r = Abandoned(run[b])
        OBVIOUS
      <4>3. run'[b] = r
        BY <2>1, <3>2, <4>2 DEF Die
      <4>4. (run[b].made => r.made) /\ (~run[b].artifact => r.made = run[b].made)
        BY <1>0, <4>2, AbandonedTypes
      <4>5. CASE thread[b] \in {"begin", "compile"}
        <5>1. Work(b) = "underway" /\ Work(b)' = "over" /\ attempt[b].with = p
          BY <1>0, <4>1, <4>5 DEF Work
        <5> QED BY <4>3, <4>4, <5>1 DEF GoesOnWith
      <4>6. CASE thread[b] \in {"send", "sent"}
        <5>1. run[b].pc = "none" /\ IsOrderly(run[b])
          BY <1>0, <4>6 DEF Supervised, OrderlyRun
        <5>2. ~run[b].artifact
          BY <5>1 DEF IsOrderly
        <5>3. Work(b) = "over" /\ Work(b)' = "over"
          BY <4>1, <4>6 DEF Work
        <5> QED BY <4>3, <4>4, <5>2, <5>3 DEF StaysWith
      <4> QED BY <4>1, <4>5, <4>6
    <3> QED BY <3>1, <3>2
  <2> QED BY <2>2
<1>4. CASE \E a \in Attempts : ThreadStep(a) \/ CompilerExits(a)
  <2>1. PICK a \in Attempts : ThreadStep(a) \/ CompilerExits(a)
    BY <1>4
  <2>2. PICK p : p = owner[a]
    OBVIOUS
  <2>3. CASE Compile(a) \/ CompilerExits(a)
    <3>1. UNCHANGED thread
      BY <2>3 DEF Compile, CompilerExits
    <3>2. IsOrderly(run[a])
      BY <1>0 DEF OrderlyRun
    <3>3. PICK r : GoesOn(run[a], r) /\ run' = [run EXCEPT ![a] = r]
      BY <1>0, <2>3, <3>2, ChildStepGoesOn, CompilerExitsGoesOn DEF Compile
    <3>4. \A b \in Attempts : Work(b)' = Work(b)
      BY <3>1 DEF Work
    <3>5. \A b \in Attempts \ {a} : StaysWith(b)
      BY <3>3, <3>4 DEF StaysWith
    <3>6. CASE thread[a] = "compile"
      <4>1. Work(a) = "underway" /\ attempt[a].with = p /\ p \in Procs
        BY <1>0, <2>2, <3>6 DEF Work
      <4>2. run[a].made => run'[a].made
        BY <1>0, <3>3 DEF GoesOn
      <4> QED BY <3>4, <3>5, <4>1, <4>2 DEF GoesOnWith
    <3>7. CASE thread[a] # "compile"
      <4>1. run[a].pc = "none"
        BY <1>0, <3>7 DEF Supervised
      <4>2. OrphanExits(a)
        BY <2>3, <3>7, <4>1 DEF Compile, At, CompilerExits, Exit
      <4>3. PICK s : s = [run[a] EXCEPT !.child = "none"]
        OBVIOUS
      <4>4. s.made = run[a].made
        BY <1>0, <4>3 DEF Runs
      <4>5. run' = [run EXCEPT ![a] = s]
        BY <4>2, <4>3 DEF OrphanExits
      <4>6. StaysWith(a)
        BY <1>0, <3>4, <4>4, <4>5 DEF StaysWith
      <4> QED BY <3>5, <4>6
    <3> QED BY <3>6, <3>7
  <2>4. CASE BeginCompile(a) \/ Decide(a)
    <3>1. /\ thread[a] \in {"begin", "compile"} /\ thread'[a] \in {"compile", "send"}
          /\ \A b \in Attempts \ {a} : thread'[b] = thread[b]
      BY <2>4 DEF BeginCompile, Decide, At, Go
    <3>2. \A b \in Attempts \ {a} : run'[b] = run[b]
      BY <1>0, <2>4 DEF BeginCompile, Decide
    <3>3. run[a].made => run'[a].made
      BY <2>4, WorkersGoOn DEF GoesOnOf
    <3>4. \A b \in Attempts \ {a} : StaysWith(b)
      BY <3>1, <3>2 DEF StaysWith, Work
    <3>5. Work(a) = "underway" /\ Work(a)' \in {"underway", "over"} /\ attempt[a].with = p /\ p \in Procs
      BY <1>0, <2>2, <3>1 DEF Work
    <3> QED BY <3>3, <3>4, <3>5 DEF GoesOnWith
  <2>5. CASE SendVerdict(a) \/ Erase(a)
    <3>1. /\ UNCHANGED run /\ thread[a] \in {"send", "sent"} /\ thread'[a] \in {"sent", "done"}
          /\ \A b \in Attempts \ {a} : thread'[b] = thread[b]
      BY <2>5 DEF SendVerdict, Erase, At, Go
    <3>2. \A b \in Attempts : Work(b)' = Work(b)
      BY <3>1 DEF Work
    <3> QED BY <3>1, <3>2 DEF StaysWith
  <2> QED BY <2>1, <2>3, <2>4, <2>5 DEF ThreadStep
<1> QED BY <1>1, <1>2, <1>3, <1>4 DEF WorkerStep, MainStep

(* A recv settles outcomes of the worker it hears from, whose threads are    *)
(* through with them.                                                       *)
HearsOf(b, p) ==
  \/ attempt'[b].state = attempt[b].state
  \/ /\ attempt[b].state = "assigned" /\ attempt[b].with = p /\ Work(b) = "over"
     /\ attempt'[b].state = "failed" \/ (attempt'[b].state = "reported" /\ run[b].made)

(* What the coordinator hears is a verdict of the worker it asked.          *)
LEMMA CoordinatorHears ==
  ASSUME Orderly, CoordinatorStep, NEW p \in Procs, Recv(p)
  PROVE  /\ session[p] # "closed" /\ \A q \in Procs : session'[q] = "closed" <=> session[q] = "closed"
         /\ \A b \in Attempts : HearsOf(b, p) /\ attempt'[b].with = attempt[b].with
<1> USE DEF Orderly, TypeOK, ReactorTypes
<1>1. Received(Cells, p)
  BY RecvEffects DEF TransportTypes
<1>2. /\ session[p] # "closed"
      /\ session' = session \/ \E s \in {"none", "registered", "ready"} : session' = [session EXCEPT ![p] = s]
      /\ attempt' = attempt \/ EndedByVerdicts(FramesOf(Cells), p, attempt')
  BY <1>1 DEF Received, Dispatched
<1>3. \A q \in Procs : session'[q] = "closed" <=> session[q] = "closed"
  BY <1>2
<1>4. ASSUME NEW b \in Attempts PROVE HearsOf(b, p) /\ attempt'[b].with = attempt[b].with
  <2>1. CASE attempt'[b] = attempt[b]
    BY <2>1 DEF HearsOf
  <2>2. CASE attempt'[b] # attempt[b]
    <3>1. EndedBy(FramesOf(Cells), p, b, attempt'[b])
      BY <1>2, <2>2 DEF EndedByVerdicts
    <3>2. PICK state \in {"reported", "failed"} : attempt'[b] = [attempt[b] EXCEPT !.state = state]
      BY <3>1 DEF EndedBy
    <3>3. attempt[b] \in AttemptRecords /\ attempt \in [Attempts -> AttemptRecords]
      OBVIOUS
    <3>4. /\ attempt[b].state = "assigned" /\ attempt[b].with = p
          /\ attempt'[b].state = state /\ attempt'[b].with = p
      BY <3>1, <3>2, <3>3 DEF EndedBy, AttemptRecords
    <3>5. ASSUME NEW q \in Procs, Assign(b, q) PROVE FALSE
      BY <3>4, <3>5 DEF Assign, Assignable
    <3>6. EndsOf(b)
      BY <3>4, <3>5, AttemptsGoOn DEF AttemptGoesOn
    <3>7. Work(b) = "over" /\ (state = "reported" => run[b].made)
      BY <3>4, <3>6 DEF EndsOf, Work
    <3> QED BY <3>4, <3>7 DEF HearsOf
  <2> QED BY <2>1, <2>2
<1> QED BY <1>2, <1>3, <1>4

(* The values that Delegation is instantiated with.                         *)
Outcomes == [a \in Attempts |-> attempt[a].state]
Holders == [a \in Attempts |-> attempt[a].with]
Works == [a \in Attempts |-> Work(a)]
Mades == [a \in Attempts |-> run[a].made]
Gone == {p \in Procs : session[p] = "closed"}

(* Every step of a worker process is a step of the delegation or changes     *)
(* nothing of it.                                                           *)
LEMMA WorkersDelegate ==
  ASSUME Orderly, WorkerStep
  PROVE  [Contract!Next]_(Contract!delegationVars)
<1>1. UNCHANGED <<Outcomes, Holders, Gone>>
  BY DEF WorkerStep, reactorVars, Outcomes, Holders, Gone
<1>2. CASE \E a \in Attempts : TakesUp(a)
  <2>1. PICK a \in Attempts : TakesUp(a)
    BY <1>2
  <2>2. \A b \in Attempts : run'[b].made = run[b].made
    BY <2>1 DEF TakesUp, StaysWith
  <2>3. Mades' = Mades
    BY <2>2 DEF Mades
  <2>4. PICK w \in {"underway", "over"} : Work(a)' = w
    BY <2>1 DEF TakesUp
  <2>5. \A b \in Attempts : Work(b)' = IF b = a THEN w ELSE Work(b)
    BY <2>1, <2>4 DEF TakesUp, StaysWith
  <2>6. Works' = [Works EXCEPT ![a] = w]
    BY <2>5 DEF Works
  <2>7. Outcomes[a] \in {"assigned", "lost"} /\ Works[a] = "none"
    BY <2>1 DEF TakesUp, Outcomes, Works
  <2>8. Contract!Begin(a)
    BY <1>1, <2>3, <2>6, <2>7 DEF Contract!Begin, Outcomes, Holders, Works, Mades, Gone
  <2> QED BY <2>8 DEF Contract!Next
<1>3. CASE \E p \in Procs : \A b \in Attempts : StaysWith(b) \/ GoesOnWith(b, p)
  <2>1. PICK p \in Procs : \A b \in Attempts : StaysWith(b) \/ GoesOnWith(b, p)
    BY <1>3
  <2>2. ASSUME NEW b \in Attempts
        PROVE  \/ Works'[b] = Works[b] /\ Mades'[b] = Mades[b]
               \/ /\ Works[b] = "underway" /\ Holders[b] = p
                  /\ Works'[b] \in {"underway", "over"}
                  /\ Mades[b] => Mades'[b]
    BY <2>1 DEF StaysWith, GoesOnWith, Works, Mades, Holders
  <2>3. Contract!Proceed(p)
    BY <1>1, <2>2 DEF Contract!Proceed, Outcomes, Holders, Works, Mades, Gone
  <2> QED BY <2>3 DEF Contract!Next
<1>4. CASE \A b \in Attempts : StaysWith(b)
  <2>1. Works' = Works /\ Mades' = Mades
    BY <1>4 DEF StaysWith, Works, Mades
  <2> QED BY <1>1, <2>1 DEF Contract!delegationVars, Outcomes, Holders, Works, Mades, Gone
<1> QED BY <1>2, <1>3, <1>4, WorkersWork

(* And so is every step of the coordinator, and a connection that breaks.     *)
LEMMA CoordinatorDelegates ==
  ASSUME Orderly, CoordinatorStep
  PROVE  [Contract!Next]_(Contract!delegationVars)
<1> USE DEF Orderly, TypeOK, ReactorTypes
<1>1. UNCHANGED <<Works, Mades>>
  BY DEF CoordinatorStep, workerVars, Works, Mades, Work
<1>2. CASE \E p \in Procs : Recv(p)
  <2>1. PICK p \in Procs : Recv(p)
    BY <1>2
  <2>2. /\ session[p] # "closed" /\ \A q \in Procs : session'[q] = "closed" <=> session[q] = "closed"
        /\ \A b \in Attempts : HearsOf(b, p) /\ attempt'[b].with = attempt[b].with
    BY <2>1, CoordinatorHears
  <2>3. Gone' = Gone /\ p \notin Gone /\ Holders' = Holders
    BY <2>2 DEF Gone, Holders
  <2>4. ASSUME NEW b \in Attempts
        PROVE  \/ Outcomes'[b] = Outcomes[b]
               \/ /\ Outcomes[b] = "assigned" /\ Holders[b] = p /\ Works[b] = "over"
                  /\ Outcomes'[b] = "failed" \/ (Outcomes'[b] = "reported" /\ Mades[b])
    BY <2>2 DEF HearsOf, Outcomes, Holders, Works, Mades
  <2>5. Contract!Hear(p)
    BY <1>1, <2>3, <2>4 DEF Contract!Hear, Outcomes, Holders, Works, Mades, Gone
  <2> QED BY <2>5 DEF Contract!Next
<1>3. CASE EndTurn \/ LeaveLoop
  <2>1. PICK lost \in SUBSET Procs : Disconnect(lost)
    BY <1>3, TurnEnds DEF Reaped
  <2>2. Gone' = Gone \cup lost
    BY <2>1 DEF Disconnect, Gone
  <2>3. ASSUME NEW b \in Attempts
        PROVE  /\ attempt'[b].with = attempt[b].with
               /\ attempt'[b].state = IF attempt[b].state = "assigned" /\ attempt[b].with \in lost THEN "lost"
                                      ELSE attempt[b].state
    <3>1. attempt[b] \in AttemptRecords
      OBVIOUS
    <3>2. attempt'[b] = IF \E p \in lost : b \in Holds(p) THEN [attempt[b] EXCEPT !.state = "lost"] ELSE attempt[b]
      BY <2>1 DEF Disconnect
    <3>3. (\E p \in lost : b \in Holds(p)) <=> attempt[b].state = "assigned" /\ attempt[b].with \in lost
      BY DEF Holds
    <3> QED BY <3>1, <3>2, <3>3 DEF AttemptRecords
  <2>4. Holders' = Holders
        /\ Outcomes' = [a \in Attempts |-> IF Outcomes[a] = "assigned" /\ Holders[a] \in lost THEN "lost"
                                           ELSE Outcomes[a]]
    BY <2>3 DEF Holders, Outcomes
  <2>5. Contract!Lose(lost)
    BY <1>1, <2>2, <2>4 DEF Contract!Lose, Outcomes, Holders, Works, Mades, Gone
  <2> QED BY <2>5 DEF Contract!Next
<1>4. CASE \E p \in Procs, a \in Attempts : Assign(a, p)
  <2>1. PICK p \in Procs, a \in Attempts : Assign(a, p)
    BY <1>4
  <2>2. PICK r \in AttemptRecords, q \in Seq(Frames) : Assigning(a, p, r, q)
    BY <2>1, Assigned
  <2>3. attempt[a] \in AttemptRecords /\ attempt \in [Attempts -> AttemptRecords]
    OBVIOUS
  <2>4. attempt' = [attempt EXCEPT ![a] = r] /\ r.state = "assigned" /\ r.with = p
    BY <2>2, <2>3 DEF Assigning, AttemptRecords
  <2>5. Outcomes' = [Outcomes EXCEPT ![a] = "assigned"] /\ Holders' = [Holders EXCEPT ![a] = p]
    BY <2>3, <2>4 DEF Outcomes, Holders
  <2>6. Gone' = Gone /\ p \notin Gone /\ Outcomes[a] = "absent"
    BY <2>1 DEF Assign, Assignable, Gone, Outcomes
  <2>7. Contract!Hand(a, p)
    BY <1>1, <2>5, <2>6 DEF Contract!Hand, Outcomes, Holders, Works, Mades, Gone
  <2> QED BY <2>7 DEF Contract!Next
<1>5. CASE (\E a \in Attempts : Beaten(a)) \/ (\E p \in Procs : Accept(p) \/ Send(p) \/ RecvFails(p)) \/ Shutdown
           \/ \E p \in Procs : Reset(p) /\ UNCHANGED reactorVars
  <2>1. \A b \in Attempts : attempt'[b].state = attempt[b].state /\ attempt'[b].with = attempt[b].with
    <3>1. CASE \E a \in Attempts : Beaten(a)
      <4>1. PICK a \in Attempts : attempt' = [attempt EXCEPT ![a].beaten = TRUE]
        BY <3>1 DEF Beaten
      <4>2. \A b \in Attempts : attempt[b] \in AttemptRecords
        OBVIOUS
      <4> QED BY <4>1, <4>2 DEF AttemptRecords
    <3>2. CASE ~\E a \in Attempts : Beaten(a)
      BY <1>5, <3>2 DEF Accept, Send, RecvFails, Shutdown, reactorVars
    <3> QED BY <3>1, <3>2
  <2>2. session' = session
    BY <1>5 DEF Beaten, Accept, Send, RecvFails, Shutdown, reactorVars
  <2>3. UNCHANGED <<Outcomes, Holders, Gone>>
    BY <2>1, <2>2 DEF Outcomes, Holders, Gone
  <2> QED BY <1>1, <2>3 DEF Contract!delegationVars, Outcomes, Holders, Works, Mades, Gone
<1> QED BY <1>2, <1>3, <1>4, <1>5 DEF CoordinatorStep, ReactorStep, Serve

(* The coordinator, its workers, their threads and compilers and the wires    *)
(* between them implement Delegation: whichever processes are killed and      *)
(* connections break, and however late or cut up a frame arrives, an attempt  *)
(* is taken up once, by the worker it was assigned to, and settled once.    *)
THEOREM DelegationHolds == Spec => ImplementsDelegation
<1>1. Orderly /\ [Next]_vars => [Contract!Next]_(Contract!delegationVars)
  <2> SUFFICES ASSUME Orderly, [Next]_vars PROVE [Contract!Next]_(Contract!delegationVars)
    OBVIOUS
  <2>1. CASE UNCHANGED vars
    <3>1. UNCHANGED <<thread, run, attempt, session>>
      BY <2>1 DEF vars, workerVars, reactorVars
    <3>2. UNCHANGED <<Outcomes, Holders, Works, Mades, Gone>>
      BY <3>1 DEF Outcomes, Holders, Works, Mades, Gone, Work
    <3> QED BY <3>2 DEF Contract!delegationVars, Outcomes, Holders, Works, Mades, Gone
  <2> QED BY <2>1, StepsApart, WorkersDelegate, CoordinatorDelegates
<1> QED BY DelegationStarts, <1>1, OrderlyHolds, PTL DEF Spec, ImplementsDelegation, Contract!Spec
=============================================================================
