--------------------------- MODULE WorkerProcess ---------------------------
(***************************************************************************)
(* dc_worker (apps/dc_worker.cpp): a main thread that receives, a heartbeat *)
(* thread, and one detached thread per assigned attempt.  All of them write *)
(* the one socket, each whole frame under send_mutex.                       *)
(*                                                                         *)
(* Frames a worker only logs (answers other than the one to its            *)
(* registration, commit notifications) are left out, and so are the frames *)
(* no worker is ever sent: nothing sends VALIDATE_OUTPUT, and SHUTDOWN is   *)
(* queued in the reactor's last turn, after which nothing is sent.          *)
(***************************************************************************)
EXTENDS ChildProcess

CONSTANTS MaxBeats,       \* bound: heartbeats a process sends
          ReportSizes     \* the sizes of a report, in cells

ASSUME WorkerConstants == MaxBeats \in Nat /\ ReportSizes \subseteq Nat \ {0}

VARIABLES main,           \* the main thread: "off", "receiving", "draining", "stopped" or "dead"
          owner,          \* the process an attempt's thread runs in
          thread,         \* what the attempt's thread does, "none" before and "done" after
          verdict,        \* the frame the thread ends with
          sending,        \* send_mutex: the cells its holder has still to send
          beats,          \* heartbeats sent
          dropped         \* attempts whose report was larger than a frame

workerVars == <<main, owner, thread, verdict, sending, beats, dropped, run, cancel>>

NoProc == "no process"
NoFrame == Message("None")

ASSUME NoProcIsNone == NoProc \notin Procs

WorkerInit ==
  /\ main = [p \in Procs |-> "off"]
  /\ owner = [a \in Attempts |-> NoProc]
  /\ thread = [a \in Attempts |-> "none"]
  /\ verdict = [a \in Attempts |-> NoFrame]
  /\ sending = [p \in Procs |-> <<>>]
  /\ beats = [p \in Procs |-> 0]
  /\ dropped = {}
  /\ ChildInit

Alive(p) == main[p] \in {"receiving", "draining"}
\* The slots of `active`.
Active(p) == {a \in Attempts : owner[a] = p /\ thread[a] \notin {"none", "done"}}

Go(a, pc) == thread' = [thread EXCEPT ![a] = pc]

(* send_frame: the mutex is held until the last cell is sent.  Sending on a  *)
(* connection that is gone fails, and every caller ignores that.            *)
MutexIgnored(p) == TRUE
MutexFree(p) == sending[p] = <<>>
send_frame(p, f) ==
  LET cells == encode_frame(f)
  IN /\ MutexFree(p)
     /\ IF cells = <<>> \/ ~Usable(p) THEN UNCHANGED <<up, sending>>
        ELSE /\ up' = [up EXCEPT ![p] = Append(@, cells[1])]
             /\ sending' = [sending EXCEPT ![p] = Tail(cells)]

(* The holder's next call of send() in send_all.                            *)
SendRest(p) ==
  /\ Alive(p) /\ ~MutexFree(p)
  /\ up' = IF Usable(p) THEN [up EXCEPT ![p] = Append(@, Head(sending[p]))] ELSE up
  /\ sending' = [sending EXCEPT ![p] = IF Usable(p) THEN Tail(@) ELSE <<>>]
  /\ UNCHANGED <<main, owner, thread, verdict, beats, dropped, run, cancel, down, link>>

(* main(): connect, HELLO, which nothing depends on, and REGISTER_WORKER      *)
(* before there is another thread.                                          *)
Start(p) ==
  /\ main[p] = "off" /\ link[p] = "none"
  /\ main' = [main EXCEPT ![p] = "receiving"]
  /\ link' = [link EXCEPT ![p] = "pending"]
  /\ up' = [up EXCEPT ![p] = encode_frame(Message("RegisterWorker"))]
  /\ UNCHANGED <<down, owner, thread, verdict, sending, beats, dropped, run, cancel>>

Heartbeat(p) ==
  /\ main[p] = "receiving" /\ beats[p] < MaxBeats
  /\ send_frame(p, Message("Heartbeat"))
  /\ beats' = [beats EXCEPT ![p] = @ + 1]
  /\ UNCHANGED <<main, owner, thread, verdict, dropped, run, cancel, down, link>>

(* The frames the main thread acts on.  The answer to the registration is    *)
(* answered with WORKER_READY.                                              *)
Registered(p) ==
  /\ main[p] = "receiving" /\ down[p] # <<>> /\ Head(down[p]).op = "Registered"
  /\ send_frame(p, Message("WorkerReady"))
  /\ down' = [down EXCEPT ![p] = Tail(@)]
  /\ UNCHANGED <<main, owner, thread, verdict, beats, dropped, run, cancel, link>>

(* A slot and a thread for the attempt; the toolchain may be gone since it   *)
(* was advertised.                                                          *)
start_compile(p) ==
  LET a == Head(down[p]).attempt
  IN /\ main[p] = "receiving" /\ down[p] # <<>> /\ Head(down[p]).op = "Assign"
     /\ owner' = [owner EXCEPT ![a] = p]
     /\ \/ /\ Go(a, "begin")
           /\ \E family \in Families[a] : run' = [run EXCEPT ![a].family = family]
           /\ UNCHANGED verdict
        \/ /\ Go(a, "send")
           /\ verdict' = [verdict EXCEPT ![a] = Concerning("FailAttempt", a)]
           /\ UNCHANGED run
     /\ down' = [down EXCEPT ![p] = Tail(@)]
     /\ UNCHANGED <<main, sending, beats, dropped, cancel, up, link>>

(* A frame decode_control refuses is passed over, and it refuses a control    *)
(* message without a commit id.                                             *)
decode_control(f) == f.commit # 0
CancelAttempt(p) ==
  LET f == Head(down[p])
  IN /\ main[p] = "receiving" /\ down[p] # <<>> /\ f.op = "CancelAttempt"
     /\ cancel' = IF decode_control(f) /\ f.attempt \in Active(p) THEN [cancel EXCEPT ![f.attempt] = TRUE]
                  ELSE cancel
     /\ down' = [down EXCEPT ![p] = Tail(@)]
     /\ UNCHANGED <<main, owner, thread, verdict, sending, beats, dropped, run, up, link>>

(* The receive loop ends when the connection does; every compile is          *)
(* cancelled and the heartbeat thread joined.                               *)
Disconnected(p) ==
  /\ main[p] = "receiving" /\ ~Usable(p) /\ down[p] = <<>>
  /\ main' = [main EXCEPT ![p] = "draining"]
  /\ cancel' = [a \in Attempts |-> cancel[a] \/ a \in Active(p)]
  /\ UNCHANGED <<owner, thread, verdict, sending, beats, dropped, run, transportVars>>

(* The process ends once `active` is empty.  It waits at most a minute, and  *)
(* a cancelled compile is over within that: its wait sees the flag at once   *)
(* and gives a terminated compiler thirty seconds to go.                     *)
DrainedAtOnce(p) == TRUE
Drained(p) == Active(p) = {}
Stop(p) ==
  /\ main[p] = "draining" /\ Drained(p)
  /\ main' = [main EXCEPT ![p] = "stopped"]
  /\ UNCHANGED <<owner, thread, verdict, sending, beats, dropped, run, cancel, transportVars>>

(***************************************************************************)
(* The thread of an attempt.                                                *)
(***************************************************************************)
At(a, pc) == owner[a] # NoProc /\ Alive(owner[a]) /\ thread[a] = pc

(* BEGIN_COMPILE is sent and its answer is not waited for.                  *)
BeginCompile(a) ==
  /\ At(a, "begin")
  /\ send_frame(owner[a], Concerning("BeginCompile", a))
  /\ Go(a, "compile")
  /\ run' = [run EXCEPT ![a].pc = "prepare"]
  /\ UNCHANGED <<main, owner, verdict, beats, dropped, cancel, down, link>>

Compile(a) ==
  /\ At(a, "compile")
  /\ ChildStep(a)
  /\ UNCHANGED <<main, owner, thread, verdict, sending, beats, dropped, transportVars>>

(* A failed run, then a set flag, then the output.                          *)
Ends(a, size) ==
  IF run[a].code # "Ok" \/ cancel[a] THEN Concerning("FailAttempt", a) ELSE Frame("ReportOutput", a, size)
Decide(a) ==
  /\ At(a, "compile") /\ run[a].pc = "finished"
  /\ \E size \in ReportSizes : verdict' = [verdict EXCEPT ![a] = Ends(a, size)]
  /\ run' = [run EXCEPT ![a] = Forgotten(@)]
  /\ Go(a, "send")
  /\ UNCHANGED <<main, owner, sending, beats, dropped, cancel, transportVars>>

SendVerdict(a) ==
  /\ At(a, "send")
  /\ send_frame(owner[a], verdict[a])
  /\ dropped' = IF encode_frame(verdict[a]) = <<>> THEN dropped \cup {a} ELSE dropped
  /\ Go(a, "sent")
  /\ UNCHANGED <<main, owner, verdict, beats, run, cancel, down, link>>

\* send_all has returned; the slot is erased.
Erase(a) ==
  /\ At(a, "sent")
  /\ ~\E i \in 1..Len(sending[owner[a]]) : sending[owner[a]][i].frame = verdict[a]
  /\ Go(a, "done")
  /\ verdict' = [verdict EXCEPT ![a] = NoFrame]
  /\ cancel' = [cancel EXCEPT ![a] = FALSE]
  /\ UNCHANGED <<main, owner, sending, beats, dropped, run, transportVars>>

ThreadStep(a) ==
  BeginCompile(a) \/ Compile(a) \/ Decide(a) \/ SendVerdict(a) \/ Erase(a)

MainStep(p) ==
  Registered(p) \/ start_compile(p) \/ CancelAttempt(p) \/ Disconnected(p) \/ Stop(p)

(* The process is killed, and its threads with it.  The system closes its    *)
(* handles, and with them the jobs of its compilers.                        *)
Abandoned(r) ==
  IF r.job THEN Forgotten([r EXCEPT !.child = "terminated"]) ELSE Forgotten(r)
Die(p) ==
  /\ Alive(p)
  /\ main' = [main EXCEPT ![p] = "dead"]
  /\ run' = [a \in Attempts |-> IF a \in Active(p) THEN Abandoned(run[a]) ELSE run[a]]
  /\ thread' = [a \in Attempts |-> IF a \in Active(p) THEN "done" ELSE thread[a]]
  /\ verdict' = [a \in Attempts |-> IF a \in Active(p) THEN NoFrame ELSE verdict[a]]
  /\ cancel' = [a \in Attempts |-> cancel[a] /\ a \notin Active(p)]
  /\ sending' = [sending EXCEPT ![p] = <<>>]
  /\ link' = IF Usable(p) THEN [link EXCEPT ![p] = "reset"] ELSE link
  /\ UNCHANGED <<up, down, owner, beats, dropped>>

\* A compiler, also one that outlived its worker, leaves by itself.
CompilerExits(a) ==
  /\ Exit(a) \/ OrphanExits(a)
  /\ UNCHANGED <<main, owner, thread, verdict, sending, beats, dropped, transportVars>>

=============================================================================
