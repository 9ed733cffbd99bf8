----------------------------- MODULE Transport -----------------------------
(***************************************************************************)
(* Framed TCP (src/net.cpp, the frames of src/wire.cpp).  A worker process  *)
(* makes one connection in its life, so a connection is named after its    *)
(* process.                                                                 *)
(*                                                                         *)
(* Towards the coordinator several threads write one stream, so it is kept  *)
(* as cells: a frame is its header and parts - 1 cells of payload.  The     *)
(* other direction has one writer and is kept as frames.                    *)
(***************************************************************************)
EXTENDS Integers, Sequences, SequencesExt, FiniteSets

CONSTANTS Procs,          \* the worker processes
          Attempts,       \* the attempts that are assigned, 1..n
          MaxFrame,       \* kMaxFrameBytes, in cells
          MaxOutbound     \* kMaxOutboundBytes, in frames

ASSUME TransportConstants == /\ IsFiniteSet(Procs) /\ IsFiniteSet(Attempts)
                             /\ Attempts = 1..Cardinality(Attempts)
                             /\ MaxFrame \in Nat \ {0}
                             /\ MaxOutbound \in Nat

VARIABLES up,             \* cells sent to the coordinator and not yet received
          down,           \* frames sent to the worker and not yet received
          link            \* "none", "pending" (in the backlog), "open", "reset" or "shut"

transportVars == <<up, down, link>>

NoAttempt == 0
\* No sender sets the commit id of a control message about an attempt.
Frame(op, a, parts) == [op |-> op, attempt |-> a, commit |-> 0, parts |-> parts]
Message(op) == Frame(op, NoAttempt, 1)
Concerning(op, a) == Frame(op, a, 1)

\* kWireHeaderBytes - 4, what the length field counts besides the payload.
HeaderCells == 1
Payload(f) == f.parts - HeaderCells

(* A payload over the bound is refused; the caller drops the message.       *)
encode_frame(f) ==
  IF Payload(f) > MaxFrame THEN <<>> ELSE [i \in 1..f.parts |-> [frame |-> f, part |-> i]]

(* FrameReader::feed: the buffer is cut into frames by the length in each   *)
(* header.  What stands where a header must is checked for the magic, and   *)
(* the length, which counts the header, against the bound.                  *)
Refusal(head) ==
  IF head.part # 1 THEN "magic" ELSE IF head.frame.parts > MaxFrame THEN "length" ELSE "none"
ArrivedAndMore(rest) == Len(rest) > rest[1].frame.parts
Arrived(rest) == Len(rest) >= rest[1].frame.parts
take(r, c) ==
  LET rest == Append(r.rest, c)
      refusal == Refusal(rest[1])
      whole == Arrived(rest)
  IN CASE r.error # "none" -> r
       [] r.error = "none" /\ refusal # "none" -> [r EXCEPT !.error = refusal, !.rest = <<>>]
       [] r.error = "none" /\ refusal = "none" /\ ~whole -> [r EXCEPT !.rest = rest]
       [] OTHER -> [r EXCEPT !.rest = <<>>, !.frames = Append(@, rest)]

feed(buffer, cells) ==
  LET taken[n \in 0..Len(cells)] ==
        IF n = 0 THEN [rest |-> buffer, frames |-> <<>>, error |-> "none"] ELSE take(taken[n - 1], cells[n])
  IN taken[Len(cells)]

(* What decode_frame and the decoder of the payload make of a raw frame: a   *)
(* payload with foreign cells in it is malformed.                           *)
decode_frame(raw) ==
  IF \A i \in 1..Len(raw) : raw[i] = [frame |-> raw[1].frame, part |-> i] THEN raw[1].frame
  ELSE Message("Malformed")

TransportInit ==
  /\ up = [p \in Procs |-> <<>>]
  /\ down = [p \in Procs |-> <<>>]
  /\ link = [p \in Procs |-> "none"]

\* Whether bytes still pass between the two ends.
Usable(p) == link[p] \in {"pending", "open"}

(* The connection breaks and what was on its way is lost.                   *)
Reset(p) ==
  /\ Usable(p)
  /\ link' = [link EXCEPT ![p] = "reset"]
  /\ up' = [up EXCEPT ![p] = <<>>]
  /\ down' = [down EXCEPT ![p] = <<>>]

=============================================================================
