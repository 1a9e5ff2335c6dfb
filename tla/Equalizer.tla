----------------------------- MODULE Equalizer -----------------------------
(***************************************************************************)
(* A receiver frame by frame, from the header parser to the decision: the  *)
(* peer numbers its frames, the radio loses frames and damages headers,    *)
(* the parser rejects or accepts a header, and the work function of        *)
(* ofdm_adaptive_frame_equalizer_vcvc counts the frames lost since the     *)
(* last one it saw and asks FeedbackDecision for the MCS.                  *)
(*                                                                         *)
(* A damaged header may match its 16 bits of CRC all the same: by chance,  *)
(* and then all of its fields may be wrong, or because its one wrong bit   *)
(* is none of those that the CRC covers.                                   *)
(***************************************************************************)
EXTENDS FeedbackDecision, PacketHeader

CONSTANTS
  FrameMod,   \* frame numbers wrap at 4096
  Cnsts,      \* constellations the peer may send
  MaxMissed   \* bound: frames lost in a row

ASSUME NumberAssumption == FrameMod \in Nat \ {0} /\ MaxMissed \in Nat

\* BPSK, QPSK, 8PSK, 16QAM: a framer sends no other, and never UNKNOWN (0).
\* What is read may be one of them, UNKNOWN or beyond.
ASSUME CnstsAssumption == Cnsts \subseteq 1 .. 4

VARIABLES
  number,      \* the peer's d_header_number
  expected,    \* d_expected_frame_no
  parserCnst,  \* the parser's d_constellation
  spoilt,      \* history: fields the last header accepted may have wrong
  miscount,    \* history: d_lost_frames less the frames lost before the
               \* last one accepted, modulo FrameMod; 0 after a restart
  missed,      \* history: frames sent since the last one accepted
  renumbered,  \* history: the peer has restarted since then
  restarted    \* history: the peer has ever restarted

rxVars == <<expected, parserCnst, spoilt, miscount>>
peerVars == <<number, missed, renumbered, restarted>>
eqVars == <<vars, rxVars, peerVars>>

EqInit ==
  /\ Init
  /\ number = 0 /\ expected = 0
  /\ parserCnst = 4
  /\ spoilt = {} /\ miscount = 0
  /\ missed = 0
  /\ renumbered = FALSE /\ restarted = FALSE

\* Mutant: the mask and the modulus disagree with the numbers there are.
NumberAfterWide(n) == (n + 1) % (FrameMod + 1)

\* header_formatter and work: the number after n.
NumberAfter(n) == (n + 1) % FrameMod

\* Mutant: a number that has wrapped counts one frame too few.
LostFramesShort(n) ==
  IF n < expected THEN FrameMod - 1 + n - expected ELSE n - expected

\* work: what frame n adds to d_lost_frames (the total is only reported).
LostFrames(n) ==
  IF n < expected THEN FrameMod + n - expected ELSE n - expected

\* The synchronization or the header's CRC fails: nobody sees the frame.
LoseFrame ==
  /\ missed < MaxMissed
  /\ missed' = missed + 1
  /\ number' = NumberAfter(number)
  /\ UNCHANGED <<vars, rxVars, renumbered, restarted>>

\* What may be read in field f: what was sent, or anything that it can hold.
AsRead(f, sent, field, wrong) == IF f \in wrong THEN field ELSE sent

\* The field of the constellation: the values from 5 to 15 are all alike.
CnstField == 0 .. 5

\* Mutant: the number is counted on, whatever number was read.
ExpectedCounted(n) == NumberAfter(expected)

\* work: the number after the one just read.
ExpectedAfter(n) == NumberAfter(n)

\* The header is accepted, with number n and constellation cnst read.
Accept(n, cnst, wrong) ==
  /\ GetFeedback
  /\ expected' = ExpectedAfter(n)
  /\ parserCnst' = ParsedCnst(cnst, parserCnst)
  /\ spoilt' = wrong
  /\ miscount' = IF restarted THEN miscount
                 ELSE (miscount + LostFrames(n) - missed) % FrameMod
  /\ number' = NumberAfter(number)
  /\ missed' = 0
  /\ renumbered' = FALSE
  /\ UNCHANGED restarted

\* The fields of wrong may be misread.
Read(wrong) ==
  \E n \in AsRead("number", {number}, 0 .. FrameMod - 1, wrong),
     cnst \in AsRead("cnst", Cnsts, CnstField, wrong) :
    Accept(n, cnst, wrong)

\* A header as it was sent, or with one bit wrong that its CRC overlooks.
HearFrame ==
  \/ Read({})
  \/ \E bit \in UncheckedBits : Read({f \in FieldNames : bit \in FieldBits(f)})

\* A header with more bits wrong, whose CRC matches by chance.
ChanceFrame == Read(FieldNames)

\* The peer's modem is started again: it numbers its frames from 0.
PeerRestart ==
  /\ number # 0
  /\ number' = 0
  /\ renumbered' = TRUE /\ restarted' = TRUE
  /\ miscount' = 0
  /\ UNCHANGED <<vars, expected, parserCnst, spoilt, missed>>

EqFade == Fade /\ UNCHANGED <<rxVars, peerVars>>

EqNext == LoseFrame \/ HearFrame \/ ChanceFrame \/ PeerRestart \/ EqFade

\* Frames keep arriving (LoseFrame cannot go on for ever).
EqSpec == EqInit /\ [][EqNext]_eqVars /\ WF_eqVars(HearFrame)

-----------------------------------------------------------------------------
(* Properties                                                              *)

\* Types; the frame number fits its field of the header, and the parser never
\* keeps a constellation without bits, whatever it reads.
EqTypeOK ==
  /\ number \in 0 .. FrameMod - 1
  /\ expected \in 0 .. FrameMod - 1
  /\ miscount \in 0 .. FrameMod - 1
  /\ missed \in Nat /\ renumbered \in BOOLEAN /\ restarted \in BOOLEAN
  /\ parserCnst \in 1 .. 4

\* The last header was accepted by chance.
ByChance == spoilt = FieldNames

\* Unless the peer restarted or the last header was accepted by chance, the
\* next frame adds to d_lost_frames the frames lost before it: exactly, as
\* long as they are fewer than the numbers there are, and modulo FrameMod
\* otherwise, across every wrap of the number.
LostCounted ==
  (~renumbered /\ ~ByChance) => LostFrames(number) = missed % FrameMod

\* A number that was misread does no lasting harm: what it adds to the total
\* d_lost_frames, the frames that follow take back, and after a header that is
\* right the total is, modulo FrameMod, the frames really lost, however many
\* numbers were misread before and in what order with lost ones.  Only a peer
\* that restarts is taken for one that lost frames.
LostTotal == (~restarted /\ ~ByChance) => miscount = 0

\* One wrong bit cannot change what the receiver acts upon: unless its CRC
\* matched by chance, a header that is accepted has every field as sent, but
\* for the length of a TB, whose two highest bits pack_crc leaves out.
HeaderTrusted == ~ByChance => spoilt \subseteq {"tbPayload"}
=============================================================================
