------------------------------ MODULE FecLink ------------------------------
(***************************************************************************)
(* The coded link in one direction: the framer, the radio, the decoder.    *)
(* The radio keeps the order of the frames.  It loses a frame whose header *)
(* does not check, and it spoils pieces of the others, which then fail the *)
(* CRC of their TB.                                                        *)
(*                                                                         *)
(* The decoder takes a frame before the framer produces the next one: it   *)
(* reads nothing but its frames, so a longer queue between the two would   *)
(* show it the same frames in the same order.                              *)
(***************************************************************************)
EXTENDS FecFrame, TbDecoder

CONSTANT MaxHits  \* bound: frames that the radio loses or spoils

ASSUME HitsAssumption == MaxHits \in Nat

VARIABLES
  hits,     \* how many so far
  suspects  \* history: the TBs with a piece in such a frame

receiverVars == <<decoderVars, hits, suspects>>
linkVars == <<vars, receiverVars>>

LinkInit ==
  /\ Init
  /\ DecoderInit
  /\ hits = 0
  /\ suspects = {}

\* The framer's steps, except that its frames go to the radio.
Framer ==
  /\ Arrive \/ ProcessFeedbackHeader \/ BeginCall \/ Loop
  /\ UNCHANGED receiverVars

Sent == air[1]

Hit(pieces) ==
  /\ hits < MaxHits
  /\ hits' = hits + 1
  /\ suspects' = suspects \cup {p.tb.no : p \in pieces}

\* The frame is received as it was sent.
Receive ==
  /\ PassOn
  /\ ProcessFrame(Sent)
  /\ UNCHANGED <<hits, suspects>>

\* Its header does not check, or its preamble is not detected.
Lose ==
  /\ PassOn
  /\ Hit(Sent.pieces)
  /\ UNCHANGED decoderVars

\* Some of its symbols are beyond what the code corrects.
Spoil ==
  /\ PassOn
  /\ \E bad \in SUBSET Sent.pieces :
       /\ bad # {}
       /\ Hit(bad)
       /\ ProcessFrame([Sent EXCEPT !.pieces = @ \ bad])

Radio == Receive \/ Lose \/ Spoil

LinkNext == Framer \/ Radio

LinkSpec == LinkInit /\ [][LinkNext]_linkVars

\* The source goes on, the scheduler calls the framer and the framer's calls
\* end, and what is on the air is received.
LinkFairSpec ==
  /\ LinkSpec
  /\ WF_linkVars(Arrive /\ UNCHANGED receiverVars)
  /\ WF_linkVars((BeginCall \/ Loop) /\ UNCHANGED receiverVars)
  /\ WF_linkVars(Radio)

-----------------------------------------------------------------------------
(* Properties                                                              *)

LinkTypeOK ==
  /\ TypeOK
  /\ tbNumber \in -1 .. TbMod - 1
  /\ rcvBuf.bytes \in Nat /\ rcvBuf.upto \in 0 .. rcvBuf.tb.size
  /\ hits \in 0 .. MaxHits

\* The decoder's check of its buffer never throws, whatever is lost.
NeverThrows == ~thrown

\* The link delivers TBs at most once and in order, whatever is lost.
Delivery == INSTANCE OrderedDelivery WITH sent <- tb.no

ImplementsDelivery == Delivery!Spec

\* A loss is contained: a TB is missing only if one of its own pieces was
\* hit, or one of the TB before it (whose end the decoder takes the next
\* frame for).
LossContained ==
  (NoInput /\ TbReady) =>
    \A n \in 1 .. tb.no : {n, n - 1} \cap suspects # {} \/ n \in Range(got)

\* Without losses every TB is delivered, as the tests of the link assert
\* (the data received is the data sent).
AllDelivered == <>(pos = Total(bounds) /\ got = [n \in 1 .. tb.no |-> n])
=============================================================================
