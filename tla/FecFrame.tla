------------------------------ MODULE FecFrame ------------------------------
(***************************************************************************)
(* The framer of the coded link (ofdm_adaptive_fec_frame_bvb): PDUs go in, *)
(* transport blocks (TBs) are encoded from them and cut into frames.  A TB *)
(* is up to two frames long, so that a frame may hold the end of one TB    *)
(* and the beginning of the next.                                          *)
(*                                                                         *)
(* One call of general_work is many steps here, one for each turn of its   *)
(* loops.  Messages and input come between calls (pc = "idle"): GNU Radio  *)
(* runs a block's message handlers and its work function in one thread,    *)
(* and hands work a fixed window of input.                                 *)
(*                                                                         *)
(* Data is abstract: a TB is a record, and the output buffer is the set of *)
(* the pieces of TBs that it holds, each at its symbol.                    *)
(***************************************************************************)
EXTENDS TransportBlock, PduStream, Sequences

CONSTANTS
  Streams,    \* the PDU streams, as sets of boundaries
  Outputs,    \* values of noutput_items
  MaxEmpty,   \* max_empty_frames; negative: no limit
  WholePdus   \* TRUE: the source hands PDUs over whole

\* Streams as in PduConsumer; the scheduler asks for output; code 1 exists.
ASSUME FramerAssumption ==
  /\ \A B \in Streams : IsStream(B) /\ \E t \in B : \A b \in B : b <= t
  /\ 1 \in DOMAIN Codes
  /\ Outputs \subseteq Nat \ {0}
  /\ MaxEmpty \in Int /\ WholePdus \in BOOLEAN

VARIABLES
  bounds, arrived,  \* the stream, and how much of it has arrived
  pos,              \* bytes consumed
  remain,           \* consumer.d_current_pdu_remain
  header,           \* d_header_cnst, d_header_fec_idx: what the peer asks for
  current,          \* d_current_cnst, d_current_fec_idx
  frame,            \* the frame under construction: offset and payload in
                    \* bytes, used in symbols
  action,           \* d_action
  usedFrames,       \* d_used_frames_count
  tb,               \* the encoder: the current TB and how much of it is out
  empty,            \* d_consecutive_empty_frames
  loaded,           \* tags of the frames that wait for production
  mem,              \* what the output buffer holds, from that frame on
  pc,               \* "idle", "loop" (in general_work) or "done"
  call,             \* local variables of general_work
  air               \* the frame just produced, until it is passed on

streamVars == <<bounds, arrived, pos, remain>>
radioVars == <<header, current>>
buildVars == <<frame, action, usedFrames, tb>>
outVars == <<loaded, mem>>
vars == <<streamVars, radioVars, buildVars, empty, outVars, pc, call, air>>

Total(B) == CHOOSE t \in B : \A b \in B : b <= t

NewFrame == [offset |-> 0, payload |-> 0, used |-> 0]
NoTb == [no |-> 0, fec |-> 1, bytes |-> 0, size |-> 0, sent |-> 0]
NoCall == [seen |-> 0, nout |-> 0, read |-> 0, at |-> 0, wait |-> FALSE]

Init ==
  /\ bounds \in Streams
  /\ arrived = 0 /\ pos = 0 /\ remain = 0
  /\ header = [cnst |-> 1, fec |-> 1]
  /\ current = [cnst |-> 1, fec |-> 1]
  /\ frame = NewFrame
  /\ action = "input"
  /\ usedFrames = 0
  /\ tb = NoTb
  /\ empty = 0
  /\ loaded = <<>> /\ mem = {}
  /\ pc = "idle" /\ call = NoCall
  /\ air = <<>>

-----------------------------------------------------------------------------
(* The output buffer                                                       *)

\* The piece of the current TB that goes to symbol at of the buffer.
Piece(at, bits) ==
  [at |-> at, cnst |-> current.cnst, tb |-> [tb EXCEPT !.sent = 0],
   from |-> tb.sent, bits |-> bits]

PieceEnd(p) == p.at + (p.bits + p.cnst - 1) \div p.cnst

\* memset(&out[at], 0, d_frame_capacity): the pieces it touches are lost.
Cleared(at) ==
  {p \in mem : PieceEnd(p) <= at \/ p.at >= at + Capacity}

\* add_frame_tags, with the constellation and code that are current.
Tags(radio, payload) ==
  [cnst |-> radio.cnst, fec |-> radio.fec, payload |-> payload,
   offset |-> frame.offset, no |-> tb.no % TbMod, bytes |-> tb.bytes]

\* The first frame of the buffer m, with its tags, goes downstream; the rest
\* of the buffer moves up (produce_one_frame).
Produce(tags, m) ==
  /\ air' = << [tags |-> tags, pieces |-> {p \in m : p.at < Capacity}] >>
  /\ mem' = {[p EXCEPT !.at = @ - Capacity] :
               p \in {q \in m : q.at >= Capacity}}

-----------------------------------------------------------------------------
(* Between two calls                                                       *)

\* The source appends to the input buffer.
Arrive ==
  /\ pc = "idle"
  /\ \E n \in arrived + 1 .. Total(bounds) :
       /\ WholePdus => n \in bounds
       /\ arrived' = n
  /\ UNCHANGED <<bounds, pos, remain, radioVars, buildVars, empty, outVars,
                 pc, call, air>>

\* process_feedback_header: the peer asks for a constellation and a code.
ProcessFeedbackHeader ==
  /\ pc = "idle"
  /\ \E cnst \in Cnsts \cup {0}, f \in DOMAIN Codes :
       header' = [cnst |-> IF cnst = 0 THEN header.cnst ELSE cnst, fec |-> f]
  /\ UNCHANGED <<streamVars, current, buildVars, empty, outVars, pc, call, air>>

\* The next block takes the frame that was produced.
PassOn ==
  /\ air # <<>>
  /\ air' = <<>>
  /\ UNCHANGED <<streamVars, radioVars, buildVars, empty, outVars, pc, call>>

-----------------------------------------------------------------------------
(* The beginning of a call                                                 *)

Called == pc = "idle" /\ air = <<>>

\* Frames of an earlier call wait in the buffer: one of them is produced.
ProduceLoaded ==
  /\ Called
  /\ loaded # <<>>
  /\ Produce(Head(loaded), mem)
  /\ loaded' = Tail(loaded)
  /\ UNCHANGED <<streamVars, radioVars, buildVars, empty, pc, call>>

NoInput == Called /\ loaded = <<>> /\ arrived = pos

TooManyEmpty == MaxEmpty >= 0 /\ empty + 1 >= MaxEmpty

\* No input: one empty frame (its payload is tb_offset_to_bytes).
EmptyFrame ==
  /\ NoInput
  /\ ~TooManyEmpty
  /\ empty' = IF MaxEmpty >= 0 THEN empty + 1 ELSE empty
  /\ Produce(Tags(current, BitsToBytes(frame.offset * current.cnst)),
             Cleared(0))
  /\ UNCHANGED <<streamVars, radioVars, buildVars, loaded, pc, call>>

\* No input for too long: WORK_DONE.
GiveUp ==
  /\ NoInput
  /\ TooManyEmpty
  /\ empty' = empty + 1
  /\ pc' = "done"
  /\ UNCHANGED <<streamVars, radioVars, buildVars, outVars, call, air>>

\* Input to work on, with room for noutput_items frames.
EnterLoop ==
  /\ Called
  /\ loaded = <<>>
  /\ arrived > pos
  /\ \E nout \in Outputs :
       call' = [NoCall EXCEPT !.seen = arrived, !.nout = nout,
                              !.at = frame.offset]
  /\ pc' = "loop"
  /\ UNCHANGED <<streamVars, radioVars, buildVars, empty, outVars, air>>

-----------------------------------------------------------------------------
(* The loop of a call                                                      *)

InLoop == pc = "loop" /\ ~call.wait

ReadTo == pos + call.read

\* finalize_frame: the frame under construction is complete as it is.
Finalize(radio) ==
  /\ loaded' = Append(loaded, Tags(radio, frame.payload))
  /\ frame' = NewFrame
  /\ action' = "input"

AfterFinalize == (Len(loaded) + 1) * Capacity

\* PROCESS_INPUT: there is input to read.
Processing == InLoop /\ action = "input" /\ ReadTo < call.seen

\* Mutant: the new constellation takes over in the middle of a frame.
NeverFlush == FALSE

\* A frame has a single constellation: the partial frame must go first.
MustFlush == header.cnst # current.cnst /\ frame.offset > 0

\* Mutant: the loop goes on without setting the action.
FlushForgotten ==
  /\ Processing
  /\ MustFlush
  /\ UNCHANGED vars

FlushForNewCnst ==
  /\ Processing
  /\ MustFlush
  /\ action' = "final"
  /\ UNCHANGED <<streamVars, radioVars, frame, usedFrames, tb, empty, outVars,
                 pc, call, air>>

\* Mutant: what this call has read already is not skipped.
NextPayloadAgain ==
  Advance(bounds, pos, call.seen, TbPayloadMax(header.cnst, header.fec), remain)

\* What the consumer gives for a TB of the constellation and code asked for.
NextPayload ==
  Advance(bounds, ReadTo, call.seen, TbPayloadMax(header.cnst, header.fec),
          remain)

NewTb(bytes) ==
  [no |-> tb.no + 1, fec |-> header.fec, bytes |-> bytes,
   size |-> TbBits(SentCodewords(header.cnst, header.fec), header.fec, bytes),
   sent |-> 0]

\* Encode one TB, which then goes to the output buffer.
EncodeTb ==
  /\ Processing
  /\ ~MustFlush
  /\ NextPayload.read > 0
  /\ current' = header
  /\ remain' = NextPayload.remain
  /\ call' = [call EXCEPT !.read = @ + NextPayload.read]
  /\ tb' = NewTb(NextPayload.read + CrcLen)
  /\ action' = "output"
  /\ usedFrames' = 0
  /\ empty' = 0
  /\ UNCHANGED <<bounds, arrived, pos, header, frame, outVars, pc, air>>

\* The next PDU is not here yet: wait for another call.  The switch falls
\* through, and a TB that took a single frame is finalized on the way.
NoWholePdu ==
  /\ Processing
  /\ ~MustFlush
  /\ NextPayload.read = 0
  /\ current' = header
  /\ IF usedFrames = 1
     THEN Finalize(header)
     ELSE UNCHANGED <<loaded, frame, action>>
  /\ call' = [call EXCEPT !.wait = TRUE]
  /\ UNCHANGED <<streamVars, header, usedFrames, tb, empty, mem, pc, air>>

TbReady == tb.sent = tb.size

\* current_frame_available_bytes
Available == ((Capacity - frame.used) * current.cnst) \div 8

OutBytes == Smaller(BitsToBytes(tb.size - tb.sent), Available)
\* Mutant: the last byte of the TB is output whole.
OutBitsWhole == 8 * OutBytes

OutBits == Smaller(8 * OutBytes, tb.size - tb.sent)

\* Mutant: one frame too many.
RoomLeftPlusOne == Len(loaded) <= call.nout

\* The frames of this call do not fill noutput_items yet.
RoomLeft == Len(loaded) < call.nout

\* OUTPUT_BUFFER: a part of the TB goes to the buffer...
Write ==
  /\ InLoop
  /\ action = "output"
  /\ ~TbReady
  /\ RoomLeft
  /\ mem' = Cleared(call.at)
              \cup (IF OutBits = 0 THEN {} ELSE {Piece(call.at, OutBits)})
  /\ tb' = [tb EXCEPT !.sent = @ + OutBits]
  /\ usedFrames' = usedFrames + 1
  /\ UNCHANGED <<streamVars, radioVars, action, empty, pc, air>>

\* ... and fills the frame,
FillFrame ==
  /\ Write
  /\ OutBytes = Available
  /\ loaded' = Append(loaded, Tags(current, (frame.used * current.cnst) \div 8
                                              + OutBytes))
  /\ frame' = NewFrame
  /\ call' = [call EXCEPT !.at = @ + Capacity - frame.used]

\* or leaves room in it (offset is in bytes and used in symbols; the second
\* sum mixes them, and so does the first index of EnterLoop).
LeaveRoom ==
  /\ Write
  /\ OutBytes < Available
  /\ LET syms == BytesToSyms(OutBytes, current.cnst)
         first == frame.offset = 0
         used == IF first THEN syms ELSE frame.offset + syms
     IN  /\ frame' = [offset |-> IF first THEN OutBytes ELSE frame.offset,
                      payload |-> frame.payload + OutBytes,
                      used |-> used]
         /\ call' = [call EXCEPT !.at = @ + used]
  /\ UNCHANGED loaded

\* Mutant: the frame is left open for input that may come later.
FinalizesLater == usedFrames = 1

\* The TB is out: is the frame it ends in final?
Finalizes == usedFrames = 1 \/ ReadTo = call.seen

\* The TB is out: finalize its last frame, or start another TB in it.
OutputDone ==
  /\ InLoop
  /\ action = "output"
  /\ TbReady
  /\ IF Finalizes
     THEN /\ Finalize(current)
          /\ call' = [call EXCEPT !.at = AfterFinalize]
     ELSE /\ action' = "input"
          /\ UNCHANGED <<loaded, frame, call>>
  /\ UNCHANGED <<streamVars, radioVars, usedFrames, tb, empty, mem, pc, air>>

\* The TB is not out, but the buffer is full.
OutputWait ==
  /\ InLoop
  /\ action = "output"
  /\ ~TbReady
  /\ ~RoomLeft
  /\ call' = [call EXCEPT !.wait = TRUE]
  /\ UNCHANGED <<streamVars, radioVars, buildVars, empty, outVars, pc, air>>

\* FINALIZE_FRAME at the top of the loop.
FinalizeFrame ==
  /\ InLoop
  /\ action = "final"
  /\ Finalize(current)
  /\ call' = [call EXCEPT !.at = AfterFinalize]
  /\ UNCHANGED <<streamVars, radioVars, usedFrames, tb, empty, mem, pc, air>>

\* The end of the call: the input is consumed and one frame produced, if any
\* frame is ready.
LeaveLoop ==
  /\ pc = "loop"
  /\ call.wait \/ (action = "input" /\ ReadTo = call.seen)
  /\ IF loaded = <<>>
     THEN UNCHANGED <<pos, outVars, air>>
     ELSE /\ pos' = ReadTo
          /\ Produce(Head(loaded), mem)
          /\ loaded' = Tail(loaded)
  /\ pc' = "idle"
  /\ call' = NoCall
  /\ UNCHANGED <<bounds, arrived, remain, radioVars, buildVars, empty>>

-----------------------------------------------------------------------------

BeginCall == ProduceLoaded \/ EmptyFrame \/ GiveUp \/ EnterLoop

Loop == \/ FlushForNewCnst \/ EncodeTb \/ NoWholePdu
        \/ FillFrame \/ LeaveRoom \/ OutputDone \/ OutputWait
        \/ FinalizeFrame \/ LeaveLoop

Next == Arrive \/ ProcessFeedbackHeader \/ PassOn \/ BeginCall \/ Loop

Spec == Init /\ [][Next]_vars

\* The scheduler goes on calling general_work, whose turns are all taken, and
\* the next block takes its frames.  Nothing obliges the source to go on.
FairSpec == Spec /\ WF_vars(BeginCall \/ Loop) /\ WF_vars(PassOn)

-----------------------------------------------------------------------------
(* Properties                                                              *)

TypeOK ==
  /\ bounds \in Streams
  /\ arrived \in Nat /\ pos \in 0 .. arrived /\ remain \in Nat
  /\ header \in [cnst : Constellations, fec : DOMAIN Codes]
  /\ current \in [cnst : Constellations, fec : DOMAIN Codes]
  /\ frame \in [offset : Nat, payload : Nat, used : 0 .. Capacity]
  /\ action \in {"input", "output", "final"}
  /\ usedFrames \in Nat
  /\ tb.no \in Nat /\ tb.size \in Nat /\ tb.sent \in 0 .. tb.size
  /\ empty \in Nat
  /\ pc \in {"idle", "loop", "done"}
  /\ call.read \in 0 .. call.seen /\ call.at \in Nat
  /\ Len(air) <= 1
  /\ \A p \in mem : p.at >= 0 /\ p.bits > 0

\* The TB builder takes the stream as the PDU consumer promises, although it
\* consumes its input only at the end of a call and only if that call has a
\* frame to produce: every byte goes into one TB, once and in order, and no
\* TB mixes a part of a PDU with other PDUs.
Consumer ==
  INSTANCE PduConsumer WITH
    pos <- ReadTo,
    Payloads <- {TbPayloadMax(c, f) : c \in Constellations, f \in DOMAIN Codes}

ImplementsConsumer == Consumer!Spec

\* The end of a TB never waits in a partial frame for input that has not been
\* announced: a call leaves room in a frame only when there is input to go on
\* with.
TailNotStranded == (pc = "idle" /\ frame.offset > 0) => arrived > pos

\* The loop may load more frames than noutput_items asks for, but at most two
\* more, and what it clears ends at most one frame after noutput_items.
OverrunBounded ==
  pc = "loop" =>
    /\ Len(loaded) <= call.nout + 2
    /\ (action = "output" /\ ~TbReady /\ RoomLeft) =>
         call.at + Capacity <= (call.nout + 1) * Capacity

\* Piece p is where the decoder looks for the bytes at symbol at.
Found(f, at, bytes) ==
  \E p \in f.pieces : /\ p.at = at
                      /\ p.cnst = f.tags.cnst
                      /\ BitsToBytes(p.bits) = bytes

\* A produced frame holds what its header says: the end of a TB up to the
\* offset, then the TB whose number it has, all in its constellation.
FrameIntact(f) ==
  LET t == f.tags
      rest == t.payload - t.offset
  IN  /\ t.payload <= FrameLen(t.cnst)
      /\ t.offset > 0 => Found(f, 0, t.offset)
      /\ rest > 0 => Found(f, BytesToSyms(t.offset, t.cnst), rest)

FramesIntact == \A i \in DOMAIN air : FrameIntact(air[i])

\* Every call of general_work ends.
CallsEnd == pc = "loop" ~> pc # "loop"

\* "Did not output the entire buffer, wait for next scheduler allocation":
\* the calls that follow output what is left of a TB.
Resumed == ~TbReady ~> TbReady
=============================================================================
