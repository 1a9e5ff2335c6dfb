---------------------------- MODULE FrameBuilder ----------------------------
(***************************************************************************)
(* The framer of the plain link (ofdm_adaptive_frame_bb): each call of     *)
(* general_work makes one frame, of as many PDUs as the pdu_consumer       *)
(* gives, or an empty one.  Messages and input come between calls.         *)
(*                                                                         *)
(* A constellation is its number of bits per symbol, 0 for UNKNOWN; the    *)
(* payload of a frame is the range of the stream's bytes that it carries.  *)
(***************************************************************************)
EXTENDS PduStream

CONSTANTS
  Capacity,  \* symbols in a frame (frame_len * payload carriers)
  CrcLen,    \* bytes of CRC in a frame
  LenMod,    \* 4096: the header has 12 bits for the payload's length
  Streams,   \* the PDU streams, as sets of boundaries
  Cnsts,     \* constellations the peer's feedback may ask for
  MaxEmpty   \* max_empty_frames; negative: no limit

\* d_frame_in_bytes: user bytes that fit in a frame.
FrameInBytes(cnst) == (Capacity * cnst) \div 8 - CrcLen

ASSUME FrameAssumption ==
  /\ Capacity \in Nat /\ CrcLen \in Nat /\ LenMod \in Nat \ {0}
  /\ Cnsts \subseteq 1 .. 4
  /\ \A cnst \in Cnsts \cup {1} : FrameInBytes(cnst) > 0

ASSUME StreamsAssumption ==
  \A B \in Streams : IsStream(B) /\ \E t \in B : \A b \in B : b <= t

ASSUME LimitAssumption == MaxEmpty \in Int

VARIABLES
  bounds, arrived,  \* the stream, and how much of it has arrived
  pos,              \* bytes consumed
  remain,           \* consumer.d_current_pdu_remain
  cnst,             \* d_constellation
  empty,            \* d_consecutive_empty_frames
  done,             \* WORK_DONE was returned
  air               \* the frame just produced, until it is passed on

streamVars == <<bounds, pos, remain>>
vars == <<streamVars, arrived, cnst, empty, done, air>>

Total(B) == CHOOSE t \in B : \A b \in B : b <= t

Init ==
  /\ bounds \in Streams
  /\ arrived = 0 /\ pos = 0 /\ remain = 0
  /\ cnst = 1
  /\ empty = 0
  /\ done = FALSE
  /\ air = {}

\* The source appends to the input buffer.
Arrive ==
  /\ ~done
  /\ arrived' \in arrived + 1 .. Total(bounds)
  /\ UNCHANGED <<streamVars, cnst, empty, done, air>>

\* process_feedback_header: an UNKNOWN constellation is ignored.
ProcessFeedbackHeader ==
  /\ ~done
  /\ cnst' \in Cnsts
  /\ UNCHANGED <<streamVars, arrived, empty, done, air>>

\* The next block takes the frame that was produced.
PassOn ==
  /\ air # {}
  /\ air' = {}
  /\ UNCHANGED <<streamVars, arrived, cnst, empty, done>>

Called == ~done /\ air = {}
NoInput == Called /\ arrived = pos

\* One frame; its payload tag counts the CRC unless there is no payload.
Produce(read) ==
  air' = {[cnst |-> cnst, from |-> pos, to |-> pos + read,
           payload |-> IF read = 0 THEN 0 ELSE read + CrcLen]}

\* Mutant: one empty frame too many.
TooManyEmptyLate == MaxEmpty >= 0 /\ empty = MaxEmpty + 1

TooManyEmpty == MaxEmpty >= 0 /\ empty = MaxEmpty

\* No input: an empty frame.  Without a limit the code counts on, unread: the
\* count is left out then.
EmptyFrame ==
  /\ NoInput
  /\ ~TooManyEmpty
  /\ empty' = IF MaxEmpty >= 0 THEN empty + 1 ELSE empty
  /\ Produce(0)
  /\ UNCHANGED <<streamVars, arrived, cnst, done>>

\* No input for too long.
GiveUp ==
  /\ NoInput
  /\ TooManyEmpty
  /\ done' = TRUE
  /\ UNCHANGED <<streamVars, arrived, cnst, empty, air>>

\* Mutant: the frame is filled as one of the highest constellation.
NextPayloadMax == Advance(bounds, pos, arrived, FrameInBytes(4), remain)

\* Mutant: a call does not know of the PDU that an earlier one has cut.
NextPayloadNew == Advance(bounds, pos, arrived, FrameInBytes(cnst), 0)

NextPayload == Advance(bounds, pos, arrived, FrameInBytes(cnst), remain)

\* Mutant: what is left of a cut PDU is not stored.
DataFrameForgets ==
  /\ Called
  /\ arrived > pos
  /\ pos' = pos + NextPayload.read
  /\ empty' = 0
  /\ Produce(NextPayload.read)
  /\ UNCHANGED <<bounds, remain, arrived, cnst, done>>

\* Input: a frame with what the consumer gives, which is nothing while a PDU
\* is not here yet.
DataFrame ==
  /\ Called
  /\ arrived > pos
  /\ pos' = pos + NextPayload.read
  /\ remain' = NextPayload.remain
  /\ empty' = 0
  /\ Produce(NextPayload.read)
  /\ UNCHANGED <<bounds, arrived, cnst, done>>

Work == EmptyFrame \/ GiveUp \/ DataFrame

Next == Arrive \/ ProcessFeedbackHeader \/ PassOn \/ Work

Spec == Init /\ [][Next]_vars

\* The source goes on, the scheduler calls the block, and the next block
\* takes its frames.
FairSpec == Spec /\ WF_vars(Arrive) /\ WF_vars(Work) /\ WF_vars(PassOn)

-----------------------------------------------------------------------------
(* The same frame at the receiver: its header's parser counts the symbols  *)
(* that hold the payload, and frame_pack packs their bits into bytes.      *)

\* The length that the header's formatter writes, and its parser reads.
LengthField(payload) == payload % LenMod

\* no_of_symbols of header_parser.
Symbols(payload, bps) ==
  (8 * payload) \div bps + (IF (8 * payload) % bps = 0 THEN 0 ELSE 1)

\* What repack_lsb_first writes.
Repacked(symbols, bps) ==
  (symbols * bps) \div 8 + (IF (symbols * bps) % 8 = 0 THEN 0 ELSE 1)

\* Mutant: a last byte that is not full is kept.
UserBytesAll(symbols, bps) == Repacked(symbols, bps) - CrcLen

\* The bytes that frame_pack hands on; the bits after the last full byte are
\* not the sender's.
UserBytes(symbols, bps) ==
  Repacked(symbols, bps) - (IF (symbols * bps) % 8 = 0 THEN 0 ELSE 1) - CrcLen

-----------------------------------------------------------------------------
(* Properties                                                              *)

\* Types; the empty frames in a row are never more than the limit.
TypeOK ==
  /\ bounds \in Streams
  /\ arrived \in 0 .. Total(bounds) /\ pos \in 0 .. arrived /\ remain \in Nat
  /\ cnst \in Cnsts \cup {1}
  /\ empty \in 0 .. (IF MaxEmpty >= 0 THEN MaxEmpty ELSE 0)
  /\ done \in BOOLEAN

\* The framer takes the stream as the PDU consumer promises, whatever the
\* peer asks for between two frames: every byte goes into one frame, once and
\* in order, and no frame mixes a part of a PDU with other PDUs.
Consumer ==
  INSTANCE PduConsumer WITH
    Payloads <- {FrameInBytes(c) : c \in Cnsts \cup {1}}

ImplementsConsumer == Consumer!Spec

\* The payload a frame's header announces fits in the frame's symbols, in the
\* constellation that the header announces.
PayloadFits == \A f \in air : 8 * f.payload <= Capacity * f.cnst

\* The receiver hands on exactly the bytes that the framer took, whatever the
\* constellation: a length of bytes survives the header's field, being counted
\* in symbols of 1 to 4 bits, and being packed again.
LengthKept ==
  \A f \in air : f.payload > 0 =>
    UserBytes(Symbols(LengthField(f.payload), f.cnst), f.cnst) = f.to - f.from

\* The whole stream is framed in the end, unless the source pauses for so
\* long that the framer gives up; changes of constellation do not stop it.
AllFramed == <>(pos = Total(bounds) \/ done)
=============================================================================
