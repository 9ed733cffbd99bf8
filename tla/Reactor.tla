------------------------------- MODULE Reactor -------------------------------
(***************************************************************************)
(* dc_coordinator (apps/dc_coordinator.cpp): a single-threaded reactor.  A  *)
(* turn serves the sockets that are ready, pumps, delivers the control      *)
(* messages and reaps the connections that are closing.  Each of these is   *)
(* an action here; a connection served twice before the end of a turn is    *)
(* one served in two turns in the first of which nothing else happened.     *)
(*                                                                         *)
(* Of the transaction layer, which Coordinator models in full, this module *)
(* keeps what the processes see of it: which session is ready, which        *)
(* attempt is with which session, and how an attempt ended.                 *)
(***************************************************************************)
EXTENDS Transport

CONSTANTS MaxInflight,    \* max_inflight of every worker
          MaxBeaten       \* bound: attempts beaten by workers outside the instance

ASSUME ReactorConstants == MaxInflight \in Nat /\ MaxBeaten \in Nat

VARIABLES phase,          \* "running", "last" (the turn that is the last one) or "stopped"
          reader,         \* FrameReader of each connection
          outgoing,       \* Connection::outgoing, with what is sent but not cleared
          sent,           \* Connection::outgoing_sent
          closing,        \* connections marked for reaping
          session,        \* "none", "registered", "ready" or "closed", of each connection
          attempt,        \* [state, with, beaten, unread] of each attempt
          controls        \* control messages of the transaction layer

reactorVars == <<phase, reader, outgoing, sent, closing, session, attempt, controls>>

Nobody == "nobody"

ReactorInit ==
  /\ phase = "running"
  /\ reader = [p \in Procs |-> <<>>]
  /\ outgoing = [p \in Procs |-> <<>>]
  /\ sent = [p \in Procs |-> 0]
  /\ closing = {}
  /\ session = [p \in Procs |-> "none"]
  /\ attempt = [a \in Attempts |-> [state |-> "absent", with |-> Nobody, beaten |-> FALSE, unread |-> FALSE]]
  /\ controls = <<>>

Connected(p) == link[p] \in {"open", "reset"}
Holds(p) == {a \in Attempts : attempt[a].state = "assigned" /\ attempt[a].with = p}
in_flight(p) == Cardinality(Holds(p))

\* Listener::accept.
Accept(p) ==
  /\ phase = "running" /\ link[p] = "pending"
  /\ link' = [link EXCEPT ![p] = "open"]
  /\ UNCHANGED <<up, down, reactorVars>>

(* SHUTDOWN on a client's connection, or a signal: this turn is the last.    *)
Shutdown ==
  /\ phase = "running"
  /\ phase' = "last"
  /\ controls' = controls \o SetToSeq({[op |-> "Shutdown", attempt |-> NoAttempt, to |-> p] :
                                         p \in {q \in Procs : session[q] \in {"registered", "ready"}}})
  /\ UNCHANGED <<reader, outgoing, sent, closing, session, attempt, transportVars>>

(* One non-blocking send: the system takes `taken` of the frames that are    *)
(* left.  A backlog over the bound closes the connection, and what was sent  *)
(* counts until the backlog is empty.                                       *)
SendSomeKeepsOffset(p, taken) ==
  LET now == sent[p] + taken
      done == now >= Len(outgoing[p])
  IN /\ down' = [down EXCEPT ![p] = @ \o SubSeq(outgoing[p], sent[p] + 1, now)]
     /\ outgoing' = [outgoing EXCEPT ![p] = IF done THEN <<>> ELSE @]
     /\ sent' = [sent EXCEPT ![p] = now]
     /\ closing' = IF ~done /\ Len(outgoing[p]) > MaxOutbound THEN closing \cup {p} ELSE closing
SendSome(p, taken) ==
  LET now == sent[p] + taken
      done == now >= Len(outgoing[p])
  IN /\ down' = [down EXCEPT ![p] = @ \o SubSeq(outgoing[p], sent[p] + 1, now)]
     /\ outgoing' = [outgoing EXCEPT ![p] = IF done THEN <<>> ELSE @]
     /\ sent' = [sent EXCEPT ![p] = IF done THEN 0 ELSE now]
     /\ closing' = IF ~done /\ Len(outgoing[p]) > MaxOutbound THEN closing \cup {p} ELSE closing

Send(p) ==
  /\ phase # "stopped" /\ link[p] = "open" /\ p \notin closing /\ outgoing[p] # <<>>
  /\ \E taken \in 0..(Len(outgoing[p]) - sent[p]) : SendSome(p, taken)
  /\ UNCHANGED <<phase, reader, session, attempt, controls, up, link>>

(* The frames of one recv, in order.  s holds the session, the attempts and  *)
(* the answers.  An attempt is ended by the session that holds it.  The      *)
(* other frames change nothing the processes see; a client's CANCEL_ATTEMPT *)
(* is always refused, since dc_cli leaves the ids zero.                     *)
dispatch(p, s, f) ==
  LET a == f.attempt
      held == a # NoAttempt /\ s.attempt[a].state = "assigned" /\ s.attempt[a].with = p
  IN CASE f.op = "RegisterWorker" ->
            [s EXCEPT !.session = "registered", !.answers = Append(@, Message("Registered"))]
       [] f.op = "WorkerReady" /\ s.session = "registered" -> [s EXCEPT !.session = "ready"]
       [] f.op = "ReportOutput" /\ held -> [s EXCEPT !.attempt[a].state = "reported"]
       [] f.op = "FailAttempt" /\ held -> [s EXCEPT !.attempt[a].state = "failed"]
       [] OTHER -> s

dispatch_all(p, frames) ==
  LET done[n \in 0..Len(frames)] ==
        IF n = 0 THEN [session |-> session[p], attempt |-> attempt, answers |-> <<>>]
        ELSE dispatch(p, done[n - 1], frames[n])
  IN done[Len(frames)]

Receive(p, cells) ==
  LET fed == feed(reader[p], cells)
      after == dispatch_all(p, [i \in 1..Len(fed.frames) |-> decode_frame(fed.frames[i])])
  IN /\ reader' = [reader EXCEPT ![p] = fed.rest]
     /\ IF fed.error # "none"
        THEN closing' = closing \cup {p} /\ UNCHANGED <<session, attempt, outgoing>>
        ELSE /\ session' = [session EXCEPT ![p] = after.session]
             /\ attempt' = after.attempt
             /\ outgoing' = [outgoing EXCEPT ![p] = @ \o after.answers]
             /\ UNCHANGED closing

MayReceive(p) == phase # "stopped" /\ Connected(p) /\ p \notin closing

Recv(p) ==
  /\ MayReceive(p) /\ up[p] # <<>>
  /\ \E k \in 1..Len(up[p]) :
       /\ Receive(p, SubSeq(up[p], 1, k))
       /\ up' = [up EXCEPT ![p] = SubSeq(@, k + 1, Len(@))]
  /\ UNCHANGED <<phase, sent, controls, down, link>>

(* recv fails on a broken connection, with or without what it still held.    *)
RecvFails(p) ==
  /\ MayReceive(p) /\ link[p] = "reset"
  /\ closing' = closing \cup {p}
  /\ up' = [up EXCEPT ![p] = <<>>]
  /\ UNCHANGED <<phase, reader, outgoing, sent, session, attempt, controls, down, link>>

(* pump: attempts are made in the order of their ids, for units that clients *)
(* have submitted and workers that have room.                               *)
AssignableUnbounded(a, p) ==
  /\ attempt[a].state = "absent" /\ \A b \in 1..(a - 1) : attempt[b].state # "absent"
  /\ session[p] = "ready"
Assignable(a, p) ==
  /\ attempt[a].state = "absent" /\ \A b \in 1..(a - 1) : attempt[b].state # "absent"
  /\ session[p] = "ready" /\ in_flight(p) < MaxInflight

(* The attempt is assigned before its frame is made.  queue_frame drops a     *)
(* frame encode_frame refuses as too large, which an assignment with its     *)
(* sources and child artifacts may be; encode_assignment may refuse it, or,  *)
(* for a list longer than it takes, decode_assignment at the worker, which   *)
(* passes over a malformed ASSIGN.  Either way no worker ever reads it, and  *)
(* nothing tells the transaction layer.                                     *)
Assign(a, p) ==
  /\ phase # "stopped" /\ Assignable(a, p)
  /\ \E unread \in BOOLEAN :
       /\ attempt' = [attempt EXCEPT ![a].state = "assigned", ![a].with = p, ![a].unread = unread]
       /\ outgoing' = IF unread THEN outgoing ELSE [outgoing EXCEPT ![p] = Append(@, Concerning("Assign", a))]
  /\ UNCHANGED <<phase, reader, sent, closing, session, controls, transportVars>>

(* A worker outside the instance commits the unit of attempt a first         *)
(* (enqueue_cancel_losers): the attempt stays with its worker until it is    *)
(* reported, and a control message goes out.                                *)
Beaten(a) ==
  /\ phase # "stopped" /\ attempt[a].state = "assigned" /\ ~attempt[a].beaten
  /\ Cardinality({b \in Attempts : attempt[b].beaten}) < MaxBeaten
  /\ attempt' = [attempt EXCEPT ![a].beaten = TRUE]
  /\ controls' = Append(controls, [op |-> "CancelAttempt", attempt |-> a, to |-> attempt[a].with])
  /\ UNCHANGED <<phase, reader, outgoing, sent, closing, session, transportVars>>

(* drain_controls: each message is queued on the connection it is for.       *)
queue_controls(p) ==
  LET queued[n \in 0..Len(controls)] ==
        IF n = 0 THEN outgoing[p]
        ELSE IF controls[n].to = p THEN Append(queued[n - 1], Concerning(controls[n].op, controls[n].attempt))
             ELSE queued[n - 1]
  IN queued[Len(controls)]

\* disconnect_session: the attempts of the session are lost.
DisconnectKeepsAttempts(gone) ==
  /\ session' = [p \in Procs |-> IF p \in gone THEN "closed" ELSE session[p]]
  /\ UNCHANGED attempt
Disconnect(gone) ==
  /\ session' = [p \in Procs |-> IF p \in gone THEN "closed" ELSE session[p]]
  /\ attempt' = [a \in Attempts |-> IF \E p \in gone : a \in Holds(p) THEN [attempt[a] EXCEPT !.state = "lost"]
                                    ELSE attempt[a]]

Shut(gone) ==
  /\ link' = [p \in Procs |-> IF p \in gone THEN "shut" ELSE link[p]]
  /\ up' = [p \in Procs |-> IF p \in gone THEN <<>> ELSE up[p]]
  /\ reader' = [p \in Procs |-> IF p \in gone THEN <<>> ELSE reader[p]]
  /\ sent' = [p \in Procs |-> IF p \in gone THEN 0 ELSE sent[p]]
  /\ closing' = closing \ gone

(* The end of a turn: the controls are queued, then closing connections are  *)
(* reaped with what is queued for them.                                     *)
EndTurn ==
  /\ phase = "running" /\ (controls # <<>> \/ closing # {})
  /\ outgoing' = [p \in Procs |-> IF p \in closing \/ ~Connected(p) THEN <<>> ELSE queue_controls(p)]
  /\ controls' = <<>>
  /\ Disconnect(closing) /\ Shut(closing)
  /\ UNCHANGED <<phase, down>>

(* After the last turn every session is disconnected and every socket        *)
(* closed, whatever was still to be sent.                                   *)
LeaveLoop ==
  LET all == {p \in Procs : link[p] # "none"}
  IN /\ phase = "last"
     /\ phase' = "stopped"
     /\ Disconnect(all) /\ Shut(all)
     /\ outgoing' = [p \in Procs |-> <<>>]
     /\ controls' = <<>>
     /\ UNCHANGED down

Serve(p) == Accept(p) \/ Send(p) \/ Recv(p) \/ RecvFails(p)

ReactorStep ==
  \/ \E p \in Procs : Serve(p) \/ \E a \in Attempts : Assign(a, p)
  \/ \E a \in Attempts : Beaten(a)
  \/ Shutdown \/ EndTurn \/ LeaveLoop

=============================================================================
