---------------------------- MODULE PduConsumer ----------------------------
(***************************************************************************)
(* The reader of a PDU stream that both framers are built on: bytes of the *)
(* stream arrive, and each call of pdu_consumer::advance takes the payload *)
(* of one frame or of one transport block.  FrameBuilder and FecFrame      *)
(* implement this specification.                                           *)
(***************************************************************************)
EXTENDS PduStream

CONSTANTS
  Streams,   \* the PDU streams: sets of boundaries
  Payloads   \* the payloads, in bytes, that a call may ask for

ASSUME StreamsAssumption ==
  \A B \in Streams : IsStream(B) /\ \E t \in B : \A b \in B : b <= t

ASSUME PayloadsAssumption == Payloads \subseteq Nat \ {0}

VARIABLES
  bounds,   \* the stream of this behaviour
  arrived,  \* bytes that have arrived
  pos,      \* bytes that have been taken
  remain    \* d_current_pdu_remain

vars == <<bounds, arrived, pos, remain>>

Init ==
  /\ bounds \in Streams
  /\ arrived = 0
  /\ pos = 0
  /\ remain = 0

\* Where the stream ends.
Total(B) == CHOOSE t \in B : \A b \in B : b <= t

\* More bytes of the stream arrive.
Arrive ==
  /\ arrived' \in arrived + 1 .. Total(bounds)
  /\ UNCHANGED <<bounds, pos, remain>>

\* One call of advance, by a block that was given the input up to seen.
Call(max, seen) ==
  LET a == Advance(bounds, pos, seen, max, remain)
  IN  /\ pos' = pos + a.read
      /\ remain' = a.remain
      /\ UNCHANGED <<bounds, arrived>>

Read == \E max \in Payloads, seen \in pos .. arrived : Call(max, seen)

Next == Arrive \/ Read

Spec == Init /\ [][Next]_vars

-----------------------------------------------------------------------------
(* Properties                                                              *)

\* Types; the block takes no byte that has not arrived.
TypeOK ==
  /\ bounds \in Streams
  /\ arrived \in Nat
  /\ arrived <= Total(bounds)
  /\ pos \in 0 .. arrived
  /\ remain \in Nat

\* The counter of the PDU that was cut is the distance to that PDU's end.
\* It is kept across calls without looking at the tags again, whatever was
\* asked for and however few bytes had arrived in between.
RemainInSync == remain = Rest(bounds, pos)

\* PDUs share a frame or a transport block only when all of them are whole:
\* if a boundary lies inside what one call takes, both ends are boundaries.
NoMixing ==
  [][\A b \in bounds : (pos < b /\ b < pos') =>
       pos \in bounds /\ pos' \in bounds]_vars

\* A call cuts a PDU only where that PDU exceeds the payload of this very
\* call, never because its bytes are late, and takes no more than the payload.
CutOnlyJumbo ==
  [][\A max \in Payloads, seen \in pos .. arrived :
       (Call(max, seen) /\ pos \in bounds /\ pos' \notin bounds) =>
         pos' - pos <= max /\ max < PduLen(bounds, pos)]_vars

\* In every state the consumer can be in, and for every call it may get, the
\* loop over the tags returns what Advance says, and so what the steps take.
AdvanceIsLoop ==
  \A max \in Payloads, seen \in pos .. arrived :
    AdvanceLoop(bounds, pos, seen, max, remain)
      = Advance(bounds, pos, seen, max, remain)
=============================================================================
