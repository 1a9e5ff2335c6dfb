---------------------------- MODULE FecLinkProofs ----------------------------
(***************************************************************************)
(* What holds of the coded link, framer to decoder, for every frame size,  *)
(* table of codes, set of streams and number of frames that the radio      *)
(* loses or spoils: types, that it implements OrderedDelivery, that the    *)
(* decoder's buffer is large enough, and which TBs a loss costs and how    *)
(* many.  What a theorem asks of the constants is in its statement.        *)
(***************************************************************************)
EXTENDS FecLink, FecFrameProofs, FiniteSetTheorems

FrameSet == [tags : TagSet, pieces : SUBSET PieceSet]

\* The pieces that are on the air.
OnAir == IF air = <<>> THEN {} ELSE Sent.pieces

\* The pieces that the decoder has not seen yet.
Ahead == mem \cup OnAir

End(p) == p.from + p.bits

ThisTb == [tb EXCEPT !.sent = 0]

\* A piece is of a TB that was encoded, and of the bits of it that are out.
PieceOK(p) ==
  /\ p.tb.no \in 1 .. tb.no
  /\ End(p) <= p.tb.size
  /\ p.tb.no = tb.no => p.tb = ThisTb /\ End(p) <= tb.sent

TagOK(t) == t \in TagSet /\ t.no < TbMod /\ t.offset <= t.payload

\* What the framer hands to the radio, now and later.
Sending ==
  /\ air = <<>> \/ (air = <<Sent>> /\ Sent \in FrameSet /\ TagOK(Sent.tags))
  /\ \A i \in 1 .. Len(loaded) : TagOK(loaded[i])
  /\ \A p \in Ahead : PieceOK(p)
  /\ tb.no = 0 => tb = NoTb

-----------------------------------------------------------------------------
(* The framer's side                                                       *)

\* The link's steps are the framer's, as far as it is concerned.
LEMMA FramerFact ==
  /\ LinkInit => Init
  /\ [LinkNext]_linkVars => [Next]_vars
<1>1. LinkInit => Init
  BY DEF LinkInit
<1>2. Framer => Next
  BY DEF Framer, Next, BeginCall
<1>3. Radio => Next
  BY DEF Radio, Receive, Lose, Spoil, Next
<1>4. UNCHANGED linkVars => UNCHANGED vars
  BY DEF linkVars
<1> QED
  BY <1>1, <1>2, <1>3, <1>4 DEF LinkNext

LEMMA LinkInvariance == LinkSpec => []IInv
BY FramerFact, InitIInv, NextIInv, PTL DEF LinkSpec

LEMMA LinkLayout == WholePdus => (LinkSpec => []Layout)
<1> SUFFICES ASSUME WholePdus PROVE LinkSpec => []Layout
  OBVIOUS
<1>1. IInv /\ Layout /\ [Next]_vars => Layout'
  BY NextLayout
<1> QED
  BY <1>1, FramerFact, InitLayout, LinkInvariance, PTL DEF LinkSpec

\* The number that travels with a frame.
LEMMA TagsOK ==
  ASSUME IInv, NEW radio \in [cnst : Constellations, fec : DOMAIN Codes],
         NEW payload \in Nat, frame.offset <= payload
  PROVE  TagOK(Tags(radio, payload))
<1>1. Tags(radio, payload) \in TagSet
  BY TagsFact
<1>2. tb.no % TbMod < TbMod
  <2>1. tb.no \in Nat /\ TbMod \in Nat \ {0}
    BY SizesAssumption DEF IInv, Types, TypeOK
  <2> QED
    BY <2>1
<1> QED
  BY <1>1, <1>2 DEF Tags, TagOK

\* What a step of the framer does to what it sends, unless it encodes a TB or
\* writes a part of one.
LoadsFrame ==
  /\ \/ loaded' = loaded
     \/ \E radio \in [cnst : Constellations, fec : DOMAIN Codes] :
          loaded' = Append(loaded, Tags(radio, frame.payload))
  /\ UNCHANGED <<tb, mem>>
  /\ air' = air \/ air' = <<>>

SendsFrame ==
  /\ \/ /\ loaded # <<>> /\ loaded' = Tail(loaded)
        /\ Produce(Head(loaded), mem)
     \/ /\ loaded = <<>> /\ UNCHANGED loaded /\ frame.offset = 0
        /\ Produce(Tags(current, 0), Cleared(0))
  /\ UNCHANGED tb

LEMMA FramerSteps ==
  ASSUME IInv, [Next]_vars
  PROVE  EncodeTb \/ LoadsFrame \/ FillFrame \/ LeaveRoom \/ SendsFrame
<1>1. ASSUME \/ Arrive \/ ProcessFeedbackHeader \/ PassOn \/ GiveUp
             \/ EnterLoop \/ FlushForNewCnst \/ OutputWait \/ UNCHANGED vars
      PROVE  LoadsFrame
  BY <1>1 DEF Arrive, ProcessFeedbackHeader, PassOn, GiveUp, EnterLoop,
     FlushForNewCnst, OutputWait, vars, buildVars, outVars, LoadsFrame
<1>2. ASSUME NoWholePdu \/ OutputDone \/ FinalizeFrame
      PROVE  LoadsFrame
  <2>1. /\ header \in [cnst : Constellations, fec : DOMAIN Codes]
        /\ current \in [cnst : Constellations, fec : DOMAIN Codes]
    BY DEF IInv, Types, TypeOK
  <2> QED
    BY <1>2, <2>1 DEF NoWholePdu, OutputDone, FinalizeFrame, Finalize,
       LoadsFrame
<1>3. ASSUME ProduceLoaded
      PROVE  SendsFrame
  BY <1>3 DEF ProduceLoaded, SendsFrame, buildVars
<1>4. ASSUME EmptyFrame
      PROVE  SendsFrame
  <2>1. frame.offset = 0 /\ current.cnst \in Constellations
    BY <1>4, NoInputFact DEF EmptyFrame, IInv, Types, TypeOK
  <2>2. BitsToBytes(frame.offset * current.cnst) = 0
    <3>1. 0 * current.cnst = 0 /\ (0 + 7) \div 8 = 0
      BY <2>1 DEF Constellations
    <3> QED
      BY <2>1, <3>1 DEF BitsToBytes
  <2> QED
    BY <1>4, <2>1, <2>2 DEF EmptyFrame, NoInput, SendsFrame, buildVars
<1>5. ASSUME LeaveLoop
      PROVE  LoadsFrame \/ SendsFrame
  BY <1>5 DEF LeaveLoop, LoadsFrame, SendsFrame, buildVars, outVars
<1> QED
  BY <1>1, <1>2, <1>3, <1>4, <1>5 DEF Next, BeginCall, Loop

\* A piece moves up with the buffer and stays what it is.
LEMMA MovedPiece ==
  ASSUME mem \subseteq PieceSet, NEW tags, NEW m \in SUBSET mem,
         Produce(tags, m), NEW p \in mem'
  PROVE  \E q \in m : /\ q.at >= Capacity /\ p = [q EXCEPT !.at = @ - Capacity]
                      /\ p \in PieceSet /\ p.at = q.at - Capacity
                      /\ p.tb = q.tb /\ p.from = q.from /\ p.bits = q.bits
                      /\ p.cnst = q.cnst
<1>1. PICK q \in m : q.at >= Capacity /\ p = [q EXCEPT !.at = @ - Capacity]
  BY DEF Produce
<1>2. q \in PieceSet
  BY <1>1
<1> QED
  BY <1>1, <1>2, MovedFact

\* What is written keeps the pieces that there are.
LEMMA WrittenPiece ==
  ASSUME IInv, Write, NEW p \in mem'
  PROVE  \/ p \in mem
         \/ p = Piece(call.at, OutBits) /\ OutBits > 0
<1>1. OutBits \in Nat
  BY WriteFact, OutFact
<1> QED
  BY <1>1 DEF Write, Cleared

LEMMA EncodeTbSending ==
  ASSUME IInv, Sending, EncodeTb
  PROVE  Sending'
<1>1. tb'.no = tb.no + 1 /\ UNCHANGED <<loaded, mem, air>>
  BY DEF EncodeTb, NewTb, outVars
<1>2. tb.no \in Nat
  BY DEF IInv, Types, TypeOK
<1>3. Ahead' = Ahead /\ Sent' = Sent
  BY <1>1 DEF Ahead, OnAir, Sent
<1>4. ASSUME NEW p \in Ahead
      PROVE  PieceOK(p)'
  <2>1. PieceOK(p)
    BY DEF Sending
  <2> QED
    BY <1>1, <1>2, <2>1 DEF PieceOK
<1>5. tb'.no # 0
  BY <1>1, <1>2
<1> QED
  BY <1>1, <1>3, <1>4, <1>5 DEF Sending

LEMMA LoadsFrameSending ==
  ASSUME IInv, Sending, LoadsFrame
  PROVE  Sending'
<1>1. UNCHANGED <<tb, mem>> /\ (air' = air \/ air' = <<>>)
  BY DEF LoadsFrame
<1>2. Ahead' \subseteq Ahead
  BY <1>1 DEF Ahead, OnAir, Sent
<1>3. \A p \in Ahead' : PieceOK(p)'
  BY <1>1, <1>2 DEF Sending, PieceOK, ThisTb
<1>4. ASSUME NEW i \in 1 .. Len(loaded')
      PROVE  TagOK(loaded'[i])
  <2>1. CASE loaded' = loaded
    BY <2>1 DEF Sending
  <2>2. ASSUME NEW radio \in [cnst : Constellations, fec : DOMAIN Codes],
               loaded' = Append(loaded, Tags(radio, frame.payload))
        PROVE  TagOK(loaded'[i])
    <3>1. TagOK(Tags(radio, frame.payload))
      BY TagsOK DEF IInv, PartialFrame, Types, TypeOK
    <3>2. loaded \in Seq(TagSet)
      BY DEF IInv, Types
    <3>3. i \in 1 .. Len(loaded) \/ i = Len(loaded) + 1
      BY <2>2, <3>2
    <3>4. CASE i \in 1 .. Len(loaded)
      BY <2>2, <3>2, <3>4 DEF Sending
    <3>5. CASE i = Len(loaded) + 1
      BY <2>2, <3>1, <3>2, <3>5
    <3> QED
      BY <3>3, <3>4, <3>5
  <2> QED
    BY <2>1, <2>2 DEF LoadsFrame
<1>5. \/ air' = <<>>
      \/ air' = <<Sent'>> /\ Sent' \in FrameSet /\ TagOK(Sent'.tags)
  BY <1>1 DEF Sending, Sent
<1> QED
  BY <1>1, <1>3, <1>4, <1>5 DEF Sending

\* What a part of the TB becomes.
LEMMA NewPiece ==
  ASSUME IInv, Write, OutBits > 0
  PROVE  LET q == Piece(call.at, OutBits)
         IN  /\ q \in PieceSet /\ q.at = call.at /\ q.cnst = current.cnst
             /\ q.tb = ThisTb /\ q.tb.no = tb.no /\ q.tb.size = tb.size
             /\ q.tb.fec = tb.fec /\ q.tb.bytes = tb.bytes
             /\ q.from = tb.sent /\ q.bits = OutBits
             /\ ThisTb' = ThisTb
             /\ tb'.sent = tb.sent + OutBits
<1>1. /\ tb \in TbSet /\ call.at \in Nat /\ current.cnst \in Constellations
  BY DEF IInv, Types, TypeOK
<1>2. ThisTb \in TbSet /\ ThisTb.no = tb.no /\ ThisTb.size = tb.size
      /\ ThisTb.fec = tb.fec /\ ThisTb.bytes = tb.bytes
  BY <1>1 DEF ThisTb, TbSet
<1>3. OutBits \in Nat \ {0} /\ tb.sent \in Nat
  BY <1>1, WriteFact, OutFact DEF TbSet
<1>4. tb' = [tb EXCEPT !.sent = @ + OutBits] /\ tb'.sent = tb.sent + OutBits
  BY WriteFact
<1>5. ThisTb' = ThisTb
  BY <1>1, <1>4 DEF ThisTb, TbSet
<1> QED
  BY <1>1, <1>2, <1>3, <1>4, <1>5 DEF Piece, PieceSet, ThisTb

LEMMA WriteSending ==
  ASSUME IInv, Sending, FillFrame \/ LeaveRoom
  PROVE  Sending'
<1>1. Write
  BY DEF FillFrame, LeaveRoom
<1>2. /\ air' = air /\ tb'.no = tb.no /\ tb.no \in Nat
      /\ tb'.sent = tb.sent + OutBits /\ tb'.sent \in 0 .. tb'.size
      /\ tb'.size = tb.size /\ OutBits \in Nat /\ tb.sent \in Nat
      /\ tb' = [tb EXCEPT !.sent = @ + OutBits]
  BY <1>1, WriteFact, OutFact DEF IInv, Types, TypeOK
<1>3. ThisTb' = ThisTb
  BY <1>2 DEF ThisTb, IInv, Types, TbSet
<1>4. ASSUME NEW p \in Ahead'
      PROVE  PieceOK(p)'
  <2>1. CASE p \in Ahead
    <3>1. PieceOK(p)
      BY <2>1 DEF Sending
    <3>2. p.tb.no = tb.no => End(p) <= tb'.sent
      <4>1. ASSUME p.tb.no = tb.no
            PROVE  End(p) <= tb'.sent
        <5>1. p \in PieceSet
          BY <2>1 DEF Ahead, OnAir, Sending, FrameSet, IInv, Types
        <5>2. End(p) \in Nat
          BY <5>1 DEF PieceSet, End
        <5> QED
          BY <1>2, <3>1, <4>1, <5>2 DEF PieceOK
      <4> QED
        BY <4>1
    <3> QED
      BY <1>2, <1>3, <3>1, <3>2 DEF PieceOK
  <2>2. CASE p = Piece(call.at, OutBits) /\ OutBits > 0
    <3>1. /\ p.tb = ThisTb /\ p.tb.no = tb.no /\ p.tb.size = tb.size
          /\ p.from = tb.sent /\ p.bits = OutBits
      BY <1>1, <2>2, NewPiece
    <3>2. tb.no > 0
      <4>1. InOutput
        BY <1>1, WriteFact
      <4> QED
        BY <1>2, <4>1 DEF InOutput, TbReady, Sending, NoTb
    <3> QED
      BY <1>2, <1>3, <3>1, <3>2 DEF PieceOK, End
  <2>3. p \in Ahead \/ (p = Piece(call.at, OutBits) /\ OutBits > 0)
    BY <1>1, <1>2, WrittenPiece DEF Ahead, OnAir, Sent
  <2> QED
    BY <2>1, <2>2, <2>3
<1>5. ASSUME NEW i \in 1 .. Len(loaded')
      PROVE  TagOK(loaded'[i])
  <2> DEFINE payload == (frame.used * current.cnst) \div 8 + OutBytes
  <2>1. payload \in Nat /\ frame.offset <= payload
    <3>1. /\ OutBytes \in Nat /\ ~Closing
      BY <1>1, WriteFact, OutFact
    <3>2. /\ frame.offset \in Nat /\ frame.used \in Nat
          /\ current.cnst \in Constellations
      BY DEF IInv, Types, TypeOK
    <3>3. (frame.used * current.cnst) \div 8 \in Nat
      <4>1. frame.used * current.cnst \in Nat
        BY <3>2 DEF Constellations
      <4> QED
        BY <4>1, DivFact
    <3>4. frame.offset <= (frame.used * current.cnst) \div 8
      <4>1. CASE frame.offset > 0
        <5>1. frame.used = BytesToSyms(frame.offset, current.cnst)
          BY <3>1, <4>1 DEF IInv, PartialFrame
        <5>2. (BytesToSyms(frame.offset, current.cnst) * current.cnst) \div 8
                = frame.offset
          BY <3>2, SymsFact
        <5> QED
          BY <3>2, <5>1, <5>2
      <4>2. CASE frame.offset = 0
        BY <3>3, <4>2
      <4> QED
        BY <3>2, <4>1, <4>2
    <3> QED
      BY <3>1, <3>2, <3>3, <3>4
  <2>2. TagOK(Tags(current, payload))
    BY <2>1, TagsOK DEF IInv, Types, TypeOK
  <2>3. loaded' = loaded \/ loaded' = Append(loaded, Tags(current, payload))
    BY DEF FillFrame, LeaveRoom
  <2>4. loaded \in Seq(TagSet)
    BY DEF IInv, Types
  <2> HIDE DEF payload
  <2>5. CASE loaded' = loaded
    BY <2>5 DEF Sending
  <2>6. CASE loaded' = Append(loaded, Tags(current, payload))
    <3>1. i \in 1 .. Len(loaded) \/ i = Len(loaded) + 1
      BY <2>4, <2>6
    <3>2. CASE i \in 1 .. Len(loaded)
      BY <2>4, <2>6, <3>2 DEF Sending
    <3>3. CASE i = Len(loaded) + 1
      BY <2>2, <2>4, <2>6, <3>3
    <3> QED
      BY <3>1, <3>2, <3>3
  <2> QED
    BY <2>3, <2>5, <2>6
<1>6. \/ air' = <<>>
      \/ air' = <<Sent'>> /\ Sent' \in FrameSet /\ TagOK(Sent'.tags)
  BY <1>2 DEF Sending, Sent
<1> QED
  BY <1>2, <1>4, <1>5, <1>6 DEF Sending, NoTb, IInv, Types, TbSet

LEMMA SendsFrameSending ==
  ASSUME IInv, Sending, SendsFrame
  PROVE  Sending'
<1>1. PICK tags \in TagSet, m \in SUBSET mem : Produce(tags, m) /\ TagOK(tags)
  <2>1. CASE loaded # <<>>
    <3>1. TagOK(Head(loaded)) /\ Head(loaded) \in TagSet
      BY <2>1 DEF IInv, Types, Sending, TagOK
    <3>2. Produce(Head(loaded), mem)
      BY <2>1 DEF SendsFrame
    <3>3. mem \in SUBSET mem
      OBVIOUS
    <3> QED
      BY <3>1, <3>2, <3>3, Zenon
  <2>2. CASE loaded = <<>>
    <3>1. Produce(Tags(current, 0), Cleared(0))
      BY <2>2 DEF SendsFrame
    <3>2. Cleared(0) \subseteq mem
      BY DEF Cleared
    <3>3. TagOK(Tags(current, 0)) /\ Tags(current, 0) \in TagSet
      BY <2>2, TagsOK DEF SendsFrame, IInv, Types, TypeOK, TagOK
    <3>4. Cleared(0) \in SUBSET mem
      BY <3>2
    <3> QED
      BY <3>1, <3>3, <3>4, Zenon
  <2> QED
    BY <2>1, <2>2
<1>2. mem \subseteq PieceSet /\ UNCHANGED tb
  BY DEF IInv, Types, SendsFrame
<1>3. air' = <<Sent'>> /\ Sent' = [tags |-> tags,
                                 pieces |-> {p \in m : p.at < Capacity}]
  BY <1>1 DEF Produce, Sent
<1>4. Sent' \in FrameSet /\ TagOK(Sent'.tags)
  BY <1>1, <1>2, <1>3 DEF FrameSet, TagOK
<1>5. ASSUME NEW p \in Ahead'
      PROVE  PieceOK(p)'
  <2>1. PICK q \in mem : p.tb = q.tb /\ p.from = q.from /\ p.bits = q.bits
    <3>1. CASE p \in mem'
      BY <1>1, <1>2, <3>1, MovedPiece
    <3>2. CASE p \in m
      BY <3>2
    <3>3. p \in mem' \/ p \in m
      BY <1>3 DEF Ahead, OnAir
    <3> QED
      BY <3>1, <3>2, <3>3
  <2>2. PieceOK(q)
    BY DEF Sending, Ahead
  <2> QED
    BY <1>2, <2>1, <2>2 DEF PieceOK, End, ThisTb
<1>6. ASSUME NEW i \in 1 .. Len(loaded')
      PROVE  TagOK(loaded'[i])
  <2>1. CASE loaded' = loaded
    BY <2>1 DEF Sending
  <2>2. CASE loaded # <<>> /\ loaded' = Tail(loaded)
    <3>1. loaded \in Seq(TagSet)
      BY DEF IInv, Types
    <3>2. i + 1 \in 1 .. Len(loaded) /\ loaded'[i] = loaded[i + 1]
      BY <2>2, <3>1
    <3> QED
      BY <3>2 DEF Sending
  <2> QED
    BY <2>1, <2>2 DEF SendsFrame
<1> QED
  BY <1>2, <1>3, <1>4, <1>5, <1>6 DEF Sending

LEMMA NextSending ==
  ASSUME IInv, Sending, [Next]_vars
  PROVE  Sending'
BY FramerSteps, EncodeTbSending, LoadsFrameSending, WriteSending,
   SendsFrameSending

LEMMA SendingInvariance == LinkSpec => []Sending
<1>1. Init => Sending
  BY DEF Init, Sending, Ahead, OnAir, NoTb
<1>2. IInv /\ Sending /\ [Next]_vars => Sending'
  BY NextSending
<1> QED
  BY <1>1, <1>2, FramerFact, LinkInvariance, PTL DEF LinkSpec

-----------------------------------------------------------------------------
(* The decoder's side                                                      *)

BufSet == [bytes : Nat, tb : TbSet, upto : Nat]

DecoderTypes ==
  /\ tbNumber \in -1 .. TbMod - 1
  /\ fecInfo \in TagSet \cup {NoInfo}
  /\ rcvBuf \in BufSet /\ rcvBuf.upto <= rcvBuf.tb.size
  /\ thrown \in BOOLEAN
  /\ got \in Seq(Nat)
  /\ hits \in 0 .. MaxHits

LEMMA EmptyBufFact ==
  EmptyBuf \in BufSet /\ EmptyBuf.bytes = 0 /\ EmptyBuf.upto = 0
  /\ EmptyBuf.tb = Noise /\ Noise.no = 0 /\ Noise.size = 0
BY FramerAssumption DEF EmptyBuf, BufSet, Noise, TbSet

\* The buffer grows by noise, or by a piece where one is expected.
LEMMA GrownFact ==
  ASSUME NEW buf \in BufSet, NEW f \in FrameSet, NEW at \in Nat,
         NEW bytes \in Nat
  PROVE  LET g == Grown(buf, f, at, bytes)
         IN  /\ g \in BufSet
             /\ g.bytes = buf.bytes + bytes
             /\ bytes = 0 => g = buf
             /\ bytes > 0 =>
                  \/ g.tb = Noise /\ g.upto = 0
                  \/ \E p \in f.pieces :
                       /\ p.at = at /\ p.cnst = f.tags.cnst
                       /\ BitsToBytes(p.bits) = bytes
                       /\ p.from = buf.upto
                       /\ buf.bytes > 0 => p.tb = buf.tb
                       /\ g.tb = p.tb /\ g.upto = End(p)
<1> DEFINE next == {p \in f.pieces :
                      /\ p.at = at
                      /\ p.cnst = f.tags.cnst
                      /\ BitsToBytes(p.bits) = bytes
                      /\ p.from = buf.upto
                      /\ buf.bytes > 0 => p.tb = buf.tb}
           g == Grown(buf, f, at, bytes)
<1>1. CASE bytes = 0
  <2>1. g = buf
    BY <1>1 DEF Grown
  <2> QED
    BY <1>1, <2>1 DEF BufSet
<1>2. CASE bytes > 0 /\ next = {}
  <2>1. g = [bytes |-> buf.bytes + bytes, tb |-> Noise, upto |-> 0]
    BY <1>2 DEF Grown
  <2>2. Noise \in TbSet /\ buf.bytes + bytes \in Nat
    BY EmptyBufFact DEF BufSet
  <2> QED
    BY <1>2, <2>1, <2>2 DEF BufSet
<1>3. CASE bytes > 0 /\ next # {}
  <2> DEFINE p == CHOOSE q \in next : TRUE
  <2>1. p \in next
    BY <1>3
  <2>2. g = [bytes |-> buf.bytes + bytes, tb |-> p.tb, upto |-> p.from + p.bits]
    BY <1>3 DEF Grown
  <2> HIDE DEF p
  <2>3. p \in PieceSet
    BY <2>1 DEF FrameSet
  <2>4. p.tb \in TbSet /\ p.from + p.bits \in Nat /\ buf.bytes + bytes \in Nat
    BY <2>3 DEF PieceSet, BufSet
  <2> QED
    BY <1>3, <2>1, <2>2, <2>4 DEF BufSet, End
<1> QED
  BY <1>1, <1>2, <1>3

LEMMA GrownCases ==
  ASSUME NEW buf \in BufSet, NEW f \in FrameSet, NEW at \in Nat,
         NEW bytes \in Nat, bytes # 0
  PROVE  LET g == Grown(buf, f, at, bytes)
         IN  \/ g.tb = Noise /\ g.upto = 0
             \/ \E p \in f.pieces : p.at = at /\ g.tb = p.tb /\ g.upto = End(p)
<1> DEFINE g == Grown(buf, f, at, bytes)
<1>1. \/ g.tb = Noise /\ g.upto = 0
      \/ \E p \in f.pieces :
           /\ p.at = at /\ p.cnst = f.tags.cnst
           /\ BitsToBytes(p.bits) = bytes
           /\ p.from = buf.upto
           /\ buf.bytes > 0 => p.tb = buf.tb
           /\ g.tb = p.tb /\ g.upto = End(p)
  BY GrownFact
<1> QED
  BY <1>1, Zenon

\* The frame that is received, and what is missing in it.
LEMMA SentFact ==
  ASSUME Sending, Radio
  PROVE  /\ Sent \in FrameSet /\ TagOK(Sent.tags) /\ OnAir = Sent.pieces
         /\ \/ UNCHANGED decoderVars
            \/ \E f \in FrameSet : /\ f.tags = Sent.tags
                                   /\ f.pieces \subseteq OnAir
                                   /\ ProcessFrame(f)
<1>1. air # <<>>
  BY DEF Radio, Receive, Lose, Spoil, PassOn
<1>2. Sent \in FrameSet /\ TagOK(Sent.tags) /\ OnAir = Sent.pieces
  BY <1>1 DEF Sending, OnAir
<1>3. CASE Receive
  BY <1>2, <1>3 DEF Receive
<1>4. CASE Lose
  BY <1>2, <1>4 DEF Lose
<1>5. CASE Spoil
  <2>1. PICK bad \in SUBSET Sent.pieces :
               ProcessFrame([Sent EXCEPT !.pieces = @ \ bad])
    BY <1>5 DEF Spoil
  <2> DEFINE f == [Sent EXCEPT !.pieces = @ \ bad]
  <2>2. f \in FrameSet /\ f.tags = Sent.tags /\ f.pieces \subseteq OnAir
    BY <1>2 DEF FrameSet
  <2> QED
    BY <1>2, <2>1, <2>2
<1> QED
  BY <1>2, <1>3, <1>4, <1>5 DEF Radio

LEMMA DecodedFact ==
  ASSUME NEW buf \in BufSet, NEW info, NEW cnst
  PROVE  LET d == Decoded(buf, info, cnst)
         IN  /\ d \in Seq(Nat)
             /\ \/ d = <<>>
                \/ /\ d = <<buf.tb.no>> /\ buf.tb # Noise
                   /\ buf.upto = buf.tb.size
BY DEF Decoded, BufSet, TbSet

\* Two numbers of bytes, and a place in symbols.
LEMMA TagNumbers ==
  ASSUME NEW t, TagOK(t)
  PROVE  /\ t.payload \in Nat /\ t.offset \in Nat
         /\ t.payload - t.offset \in Nat
         /\ BytesToSyms(t.offset, t.cnst) \in Nat
         /\ t.cnst \in Constellations /\ t.fec \in DOMAIN Codes
         /\ t.bytes \in Nat /\ t.no \in 0 .. TbMod - 1
<1>1. /\ t.payload \in Nat /\ t.offset \in Nat /\ t.offset <= t.payload
      /\ t.cnst \in Constellations /\ t.fec \in DOMAIN Codes
      /\ t.bytes \in Nat /\ t.no \in Nat /\ t.no < TbMod /\ TbMod \in Nat
  BY SizesAssumption DEF TagOK, TagSet
<1> QED
  BY <1>1, SymsFact

LEMMA ProcessTypes ==
  ASSUME DecoderTypes, NEW f \in FrameSet, TagOK(f.tags), ProcessFrame(f),
         \A p \in f.pieces : End(p) <= p.tb.size
  PROVE  /\ tbNumber' \in -1 .. TbMod - 1
         /\ fecInfo' \in TagSet \cup {NoInfo}
         /\ rcvBuf' \in BufSet /\ rcvBuf'.upto <= rcvBuf'.tb.size
         /\ thrown' \in BOOLEAN
         /\ got' \in Seq(Nat)
<1> DEFINE t == f.tags
<1>1. /\ t.payload \in Nat /\ t.offset \in Nat /\ t.payload - t.offset \in Nat
      /\ BytesToSyms(t.offset, t.cnst) \in Nat
      /\ t.no \in -1 .. TbMod - 1
      /\ t \in TagSet
  BY TagNumbers DEF TagOK
<1>2. /\ EmptyBuf \in BufSet /\ EmptyBuf.upto <= EmptyBuf.tb.size
      /\ rcvBuf \in BufSet /\ rcvBuf.upto <= rcvBuf.tb.size
      /\ got \in Seq(Nat)
  BY EmptyBufFact DEF DecoderTypes
<1>3. ASSUME NEW buf \in BufSet, buf.upto <= buf.tb.size, NEW at \in Nat,
             NEW bytes \in Nat
      PROVE  LET g == Grown(buf, f, at, bytes)
             IN  g \in BufSet /\ g.upto <= g.tb.size
  <2> DEFINE g == Grown(buf, f, at, bytes)
  <2>1. /\ g \in BufSet
        /\ bytes = 0 => g = buf
        /\ bytes > 0 => \/ g.tb = Noise /\ g.upto = 0
                        \/ \E p \in f.pieces : g.tb = p.tb /\ g.upto = End(p)
    <3> USE <1>3
    <3>0. g \in BufSet
      BY GrownFact
    <3>1. bytes = 0 => g = buf
      BY DEF Grown
    <3>2. ASSUME bytes > 0
          PROVE  \/ g.tb = Noise /\ g.upto = 0
                 \/ \E p \in f.pieces : g.tb = p.tb /\ g.upto = End(p)
      <4>1. \/ g.tb = Noise /\ g.upto = 0
            \/ \E p \in f.pieces :
                       /\ p.at = at /\ p.cnst = f.tags.cnst
                       /\ BitsToBytes(p.bits) = bytes
                       /\ p.from = buf.upto
                       /\ buf.bytes > 0 => p.tb = buf.tb
                       /\ g.tb = p.tb /\ g.upto = End(p)
        BY <3>2, GrownFact
      <4> QED
        BY <4>1, Zenon
    <3> QED
      BY <3>0, <3>1, <3>2
  <2> HIDE DEF g
  <2>2. g.upto <= g.tb.size
    BY <1>3, <2>1, EmptyBufFact
  <2> QED
    BY <2>1, <2>2 DEF g
<1>4. CASE SkipEmpty(f)
  BY <1>4 DEF SkipEmpty, decoderVars, DecoderTypes
<1>5. CASE SameTb(f)
  <2> DEFINE buf == Grown(rcvBuf, f, 0, t.payload)
  <2>1. buf \in BufSet /\ buf.upto <= buf.tb.size
    BY <1>1, <1>2, <1>3
  <2>2. /\ UNCHANGED <<tbNumber, fecInfo>>
        /\ rcvBuf' = EmptyBuf \/ rcvBuf' = buf
        /\ \/ got' = got \o Decoded(buf, fecInfo, t.cnst)
           \/ got' = got \o <<>>
        /\ thrown' \in BOOLEAN
    BY <1>5 DEF SameTb, AfterDecode, DecoderTypes
  <2> HIDE DEF buf
  <2>3. Decoded(buf, fecInfo, t.cnst) \in Seq(Nat)
    BY <2>1, DecodedFact
  <2>4. got' \in Seq(Nat)
    <3>1. <<>> \in Seq(Nat)
      OBVIOUS
    <3>2. \A d \in Seq(Nat) : got \o d \in Seq(Nat)
      BY <1>2
    <3> QED
      BY <2>2, <2>3, <3>1, <3>2
  <2> QED
    BY <1>2, <2>1, <2>2, <2>4 DEF DecoderTypes
<1>6. CASE SmallTb(f)
  <2> DEFINE buf == Grown(EmptyBuf, f, 0, t.offset)
  <2>1. buf \in BufSet
    BY <1>1, <1>2, <1>3
  <2>2. /\ tbNumber' = t.no /\ fecInfo' = t /\ thrown' = thrown
        /\ rcvBuf' = EmptyBuf
        /\ got' = got \o Decoded(buf, t, t.cnst)
    BY <1>6 DEF SmallTb
  <2> HIDE DEF buf
  <2>3. Decoded(buf, t, t.cnst) \in Seq(Nat)
    BY <2>1, DecodedFact
  <2> QED
    BY <1>1, <1>2, <2>2, <2>3 DEF DecoderTypes
<1>7. CASE OtherTb(f)
  <2> DEFINE old == Grown(rcvBuf, f, 0, t.offset)
             new == Grown(EmptyBuf, f, BytesToSyms(t.offset, t.cnst),
                          t.payload - t.offset)
             d1 == IF old.bytes > 0 /\ fecInfo # NoInfo
                   THEN Decoded(old, fecInfo, t.cnst) ELSE <<>>
             d2 == IF IsContained(t) THEN Decoded(new, t, t.cnst) ELSE <<>>
  <2>1. old \in BufSet /\ new \in BufSet /\ new.upto <= new.tb.size
    BY <1>1, <1>2, <1>3
  <2>2. /\ tbNumber' = t.no /\ fecInfo' = t /\ thrown' = thrown
        /\ rcvBuf' = EmptyBuf \/ rcvBuf' = new
        /\ got' = got \o d1 \o d2
    BY <1>7 DEF OtherTb, NewBuf
  <2>3. d1 \in Seq(Nat) /\ d2 \in Seq(Nat)
    BY <2>1, DecodedFact
  <2> HIDE DEF old, new, d1, d2
  <2> QED
    BY <1>1, <1>2, <2>1, <2>2, <2>3 DEF DecoderTypes
<1> QED
  BY <1>4, <1>5, <1>6, <1>7 DEF ProcessFrame

LEMMA LinkNextTypes ==
  ASSUME Sending, DecoderTypes, [LinkNext]_linkVars
  PROVE  DecoderTypes'
<1>1. ASSUME UNCHANGED receiverVars
      PROVE  DecoderTypes'
  BY <1>1 DEF receiverVars, decoderVars, DecoderTypes
<1>2. ASSUME Radio
      PROVE  DecoderTypes'
  <2>1. hits' \in 0 .. MaxHits
    <3>1. hits \in 0 .. MaxHits
      BY DEF DecoderTypes
    <3>2. hits' = hits \/ (hits < MaxHits /\ hits' = hits + 1)
      BY <1>2 DEF Radio, Receive, Lose, Spoil, Hit
    <3> QED
      BY <3>1, <3>2, HitsAssumption
  <2>2. CASE UNCHANGED decoderVars
    BY <2>1, <2>2 DEF decoderVars, DecoderTypes
  <2>3. ASSUME NEW f \in FrameSet, f.tags = Sent.tags, f.pieces \subseteq OnAir,
               ProcessFrame(f)
        PROVE  DecoderTypes'
    <3>1. TagOK(f.tags)
      BY <1>2, <2>3, SentFact
    <3>2. \A p \in f.pieces : End(p) <= p.tb.size
      BY <2>3 DEF Sending, Ahead, PieceOK
    <3> QED
      BY <2>1, <2>3, <3>1, <3>2, ProcessTypes DEF DecoderTypes
  <2> QED
    BY <1>2, <2>2, <2>3, SentFact
<1> QED
  BY <1>1, <1>2 DEF LinkNext, Framer, linkVars

LEMMA DecoderInvariance == LinkSpec => []DecoderTypes
<1>1. LinkInit => DecoderTypes
  <2> SUFFICES ASSUME LinkInit PROVE DecoderTypes
    OBVIOUS
  <2>1. 0 <= EmptyBuf.tb.size /\ -1 \in -1 .. TbMod - 1 /\ 0 \in 0 .. MaxHits
    BY EmptyBufFact, HitsAssumption, SizesAssumption
  <2>2. <<>> \in Seq(Nat)
    OBVIOUS
  <2>3. /\ tbNumber = -1 /\ fecInfo = NoInfo /\ rcvBuf = EmptyBuf
        /\ thrown = FALSE /\ got = <<>> /\ hits = 0
    BY DEF LinkInit, DecoderInit
  <2> QED
    BY <2>1, <2>2, <2>3, EmptyBufFact DEF DecoderTypes
<1>2. Sending /\ DecoderTypes /\ [LinkNext]_linkVars => DecoderTypes'
  BY LinkNextTypes
<1> QED
  BY <1>1, <1>2, SendingInvariance, PTL DEF LinkSpec

\* The types of the link: numbers of TBs stay below TbMod, the buffer holds no
\* more of a TB than the TB has, and the radio hits no more than its bound.
THEOREM LinkTypeCorrect == LinkSpec => []LinkTypeOK
<1>1. IInv /\ DecoderTypes => LinkTypeOK
  BY DEF IInv, Types, DecoderTypes, LinkTypeOK, BufSet
<1> QED
  BY <1>1, LinkInvariance, DecoderInvariance, PTL

-----------------------------------------------------------------------------
(* Order: the pieces that are ahead of the decoder                         *)

Before(p, q) == p.tb.no < q.tb.no \/ (p.tb = q.tb /\ End(p) <= q.from)

Ordered(m) ==
  \A p, q \in m : \/ p = q
                  \/ p.at < q.at /\ Before(p, q)
                  \/ q.at < p.at /\ Before(q, p)

\* In the buffer and in a frame the pieces lie in the order they were encoded.
InOrder ==
  /\ Ordered(mem)
  /\ Ordered(OnAir)
  /\ \A p \in OnAir, q \in mem : Before(p, q)

LEMMA AheadTypes ==
  ASSUME IInv, Sending
  PROVE  /\ Ahead \subseteq PieceSet
         /\ \A p \in Ahead : PieceOK(p) /\ End(p) \in Nat /\ p.from < End(p)
<1>1. Ahead \subseteq PieceSet
  BY DEF Ahead, OnAir, Sending, FrameSet, IInv, Types
<1>2. \A p \in PieceSet : End(p) \in Nat /\ p.from < End(p)
  BY DEF PieceSet, End
<1> QED
  BY <1>1, <1>2 DEF Sending

\* What is written follows all that is ahead.
LEMMA NewPieceLast ==
  ASSUME IInv, Sending, Write, OutBits > 0, NEW p \in Ahead
  PROVE  Before(p, Piece(call.at, OutBits))
<1> DEFINE q == Piece(call.at, OutBits)
<1>1. q.tb = ThisTb /\ q.tb.no = tb.no /\ q.from = tb.sent
  BY NewPiece
<1>2. PieceOK(p) /\ p.tb.no \in Nat /\ tb.no \in Nat
  BY AheadTypes DEF PieceOK, IInv, Types, TypeOK
<1>3. p.tb.no < tb.no \/ p.tb.no = tb.no
  BY <1>2 DEF PieceOK
<1> HIDE DEF q
<1> QED
  BY <1>1, <1>2, <1>3 DEF PieceOK, Before, q

LEMMA WriteInOrder ==
  ASSUME IInv, Layout, Sending, InOrder, FillFrame \/ LeaveRoom
  PROVE  InOrder'
<1> DEFINE q == Piece(call.at, OutBits)
<1>1. Write
  BY DEF FillFrame, LeaveRoom
<1>2. air' = air /\ OnAir' = OnAir
  BY <1>1, WriteFact DEF OnAir, Sent
<1>3. ASSUME NEW p \in mem, OutBits > 0
      PROVE  p.at < q.at /\ Before(p, q)
  <2>1. PieceEnd(p) <= Front /\ Front \in Nat /\ Front = call.at
    BY <1>1, WrittenFact DEF Layout
  <2>2. p \in PieceSet /\ PieceEnd(p) \in Nat /\ PieceEnd(p) > p.at
    BY PieceEndFact DEF IInv, Types
  <2>3. q.at = call.at
    BY <1>1, <1>3, NewPiece
  <2>4. Before(p, q)
    BY <1>1, <1>3, NewPieceLast DEF Ahead
  <2> HIDE DEF q
  <2>5. p.at \in Nat
    BY <2>2 DEF PieceSet
  <2> QED
    BY <2>1, <2>2, <2>3, <2>4, <2>5
<1>4. ASSUME NEW p \in mem'
      PROVE  p \in mem \/ (p = q /\ OutBits > 0)
  BY <1>1, WrittenPiece
<1> HIDE DEF q
<1>5. Ordered(mem')
  <2> SUFFICES ASSUME NEW p \in mem', NEW r \in mem'
               PROVE  \/ p = r
                      \/ p.at < r.at /\ Before(p, r)
                      \/ r.at < p.at /\ Before(r, p)
    BY DEF Ordered
  <2>1. CASE p \in mem /\ r \in mem
    BY <2>1 DEF InOrder, Ordered
  <2>2. CASE p \in mem /\ r = q /\ OutBits > 0
    BY <1>3, <2>2
  <2>3. CASE p = q /\ OutBits > 0 /\ r \in mem
    BY <1>3, <2>3
  <2> QED
    BY <1>4, <2>1, <2>2, <2>3
<1>6. ASSUME NEW p \in OnAir', NEW r \in mem'
      PROVE  Before(p, r)
  <2>1. CASE r \in mem
    BY <1>2, <2>1 DEF InOrder
  <2>2. CASE r = q /\ OutBits > 0
    BY <1>1, <1>2, <2>2, NewPieceLast DEF Ahead, q
  <2> QED
    BY <1>4, <2>1, <2>2
<1> QED
  BY <1>2, <1>5, <1>6 DEF InOrder

\* A buffer that is sent, or part of one.
LEMMA SentFrame ==
  ASSUME IInv, SendsFrame
  PROVE  \E tags, m : /\ m \subseteq mem /\ Produce(tags, m)
                      /\ OnAir' = {p \in m : p.at < Capacity}
<1>1. PICK tags, m : m \subseteq mem /\ Produce(tags, m)
  <2>1. Cleared(0) \subseteq mem
    BY DEF Cleared
  <2> QED
    BY <2>1, Zenon DEF SendsFrame
<1>2. air' # <<>> /\ Sent'.pieces = {p \in m : p.at < Capacity}
  BY <1>1 DEF Produce, Sent
<1> QED
  BY <1>1, <1>2, Zenon DEF OnAir

LEMMA SendsFrameInOrder ==
  ASSUME IInv, InOrder, SendsFrame
  PROVE  InOrder'
<1>1. PICK tags, m : /\ m \subseteq mem /\ Produce(tags, m)
                     /\ OnAir' = {p \in m : p.at < Capacity}
  BY SentFrame
<1>2. /\ mem \subseteq PieceSet /\ m \in SUBSET mem /\ Capacity \in Nat
  BY <1>1, SizesAssumption DEF IInv, Types
<1>3. ASSUME NEW p \in mem'
      PROVE  \E q \in m : /\ q.at >= Capacity
                          /\ p = [q EXCEPT !.at = @ - Capacity]
                          /\ p.at = q.at - Capacity /\ q.at \in Nat
                          /\ p.tb = q.tb /\ End(p) = End(q)
                          /\ p.from = q.from
  <2>1. PICK q \in m : /\ q.at >= Capacity
                       /\ p = [q EXCEPT !.at = @ - Capacity]
                       /\ p.at = q.at - Capacity
                       /\ p.tb = q.tb /\ p.from = q.from /\ p.bits = q.bits
    BY <1>1, <1>2, MovedPiece
  <2>2. q.at \in Nat
    BY <1>2 DEF PieceSet
  <2> QED
    BY <2>1, <2>2 DEF End
<1>4. Ordered(m)
  BY <1>1 DEF InOrder, Ordered
<1>5. Ordered(OnAir')
  BY <1>1, <1>4 DEF Ordered
<1>6. Ordered(mem')
  <2> SUFFICES ASSUME NEW p \in mem', NEW r \in mem'
               PROVE  \/ p = r
                      \/ p.at < r.at /\ Before(p, r)
                      \/ r.at < p.at /\ Before(r, p)
    BY DEF Ordered
  <2>1. PICK p0 \in m : /\ p0.at >= Capacity
                        /\ p = [p0 EXCEPT !.at = @ - Capacity]
                        /\ p.at = p0.at - Capacity /\ p0.at \in Nat
                        /\ p.tb = p0.tb /\ End(p) = End(p0)
                        /\ p.from = p0.from
    BY <1>3
  <2>2. PICK r0 \in m : /\ r0.at >= Capacity
                        /\ r = [r0 EXCEPT !.at = @ - Capacity]
                        /\ r.at = r0.at - Capacity /\ r0.at \in Nat
                        /\ r.tb = r0.tb /\ End(r) = End(r0)
                        /\ r.from = r0.from
    BY <1>3
  <2>3. \/ p0 = r0
        \/ p0.at < r0.at /\ Before(p0, r0)
        \/ r0.at < p0.at /\ Before(r0, p0)
    BY <1>4 DEF Ordered
  <2>4. /\ Before(p0, r0) => Before(p, r)
        /\ Before(r0, p0) => Before(r, p)
    BY <2>1, <2>2 DEF Before
  <2>5. p0 = r0 => p = r
    BY <2>1, <2>2, Zenon
  <2> QED
    BY <1>2, <2>1, <2>2, <2>3, <2>4, <2>5
<1>7. ASSUME NEW p \in OnAir', NEW r \in mem'
      PROVE  Before(p, r)
  <2>1. p \in m /\ p.at < Capacity /\ p.at \in Nat
    BY <1>1, <1>2 DEF PieceSet
  <2>2. PICK r0 \in m : /\ r0.at >= Capacity /\ r0.at \in Nat
                        /\ r.tb = r0.tb /\ End(r) = End(r0)
                        /\ r.from = r0.from
    BY <1>3
  <2>3. p # r0 /\ ~(r0.at < p.at)
    BY <1>2, <2>1, <2>2
  <2>4. Before(p, r0)
    BY <1>4, <2>1, <2>3 DEF Ordered
  <2> QED
    BY <2>2, <2>4 DEF Before
<1> QED
  BY <1>5, <1>6, <1>7 DEF InOrder

LEMMA NextInOrder ==
  ASSUME IInv, Layout, Sending, InOrder, [Next]_vars
  PROVE  InOrder'
<1>1. CASE EncodeTb
  BY <1>1 DEF EncodeTb, outVars, InOrder, OnAir, Sent
<1>2. CASE LoadsFrame
  <2>1. mem' = mem /\ (OnAir' = OnAir \/ OnAir' = {})
    BY <1>2 DEF LoadsFrame, OnAir, Sent
  <2> QED
    BY <2>1 DEF InOrder, Ordered
<1> QED
  BY <1>1, <1>2, FramerSteps, WriteInOrder, SendsFrameInOrder

LEMMA InOrderInvariance == WholePdus => (LinkSpec => []InOrder)
<1> SUFFICES ASSUME WholePdus PROVE LinkSpec => []InOrder
  OBVIOUS
<1>1. Init => InOrder
  BY DEF Init, InOrder, Ordered, OnAir
<1>2. IInv /\ Layout /\ Sending /\ InOrder /\ [Next]_vars => InOrder'
  BY NextInOrder
<1> QED
  BY <1>1, <1>2, FramerFact, LinkInvariance, LinkLayout, SendingInvariance,
     PTL DEF LinkSpec

-----------------------------------------------------------------------------
(* Delivery: at most once and in order                                     *)

\* The buffer holds the beginning of a TB, and what is ahead comes after it.
Partial(b, ahead) ==
  b.tb # Noise =>
    /\ b.tb.no \in 1 .. tb.no
    /\ b.tb.no = tb.no => b.tb = ThisTb /\ b.upto <= tb.sent
    /\ \A p \in ahead : \/ b.tb.no < p.tb.no
                        \/ b.tb = p.tb /\ b.upto <= p.from

\* All of TB n was sent, and what is ahead is of later TBs.
Past(n, ahead) ==
  /\ n \in 1 .. tb.no
  /\ n = tb.no => TbReady
  /\ \A p \in ahead : n < p.tb.no

\* The TBs delivered so far, when b is in the buffer.
Delivered(s, b, ahead) ==
  /\ s \in Seq(Nat)
  /\ Delivery!Increasing(s)
  /\ \A i \in 1 .. Len(s) : /\ Past(s[i], ahead)
                            /\ b.tb # Noise => s[i] < b.tb.no

Received == Delivered(got, rcvBuf, Ahead) /\ Partial(rcvBuf, Ahead)

\* The framer's steps: what comes ahead comes after what is received.
LEMMA FramerReceived ==
  ASSUME IInv, Sending, DecoderTypes, Received, [Next]_vars,
         UNCHANGED <<got, rcvBuf>>
  PROVE  Received'
<1>1. /\ got \in Seq(Nat) /\ tb.no \in Nat /\ tb.sent \in Nat
      /\ tb \in TbSet
  BY DEF Received, Delivered, IInv, Types, TypeOK
<1>2. /\ \A i \in 1 .. Len(got) : got[i] \in Nat
      /\ rcvBuf.tb # Noise => rcvBuf.tb.no \in Nat
  BY <1>1 DEF Received, Partial
<1>3. CASE EncodeTb
  <2>1. /\ tb'.no = tb.no + 1 /\ mem' = mem /\ OnAir' = OnAir
    BY <1>3 DEF EncodeTb, NewTb, outVars, OnAir, Sent
  <2>2. Ahead' = Ahead
    BY <2>1 DEF Ahead
  <2>3. \A n \in Nat : Past(n, Ahead) => Past(n, Ahead)'
    BY <1>1, <2>1, <2>2 DEF Past
  <2>4. Partial(rcvBuf, Ahead)'
    BY <1>1, <2>1, <2>2 DEF Received, Partial
  <2> QED
    BY <1>2, <2>3, <2>4 DEF Received, Delivered, Delivery!Increasing
<1>4. ASSUME UNCHANGED tb,
             \A p \in Ahead' : \E q \in Ahead : p.tb = q.tb /\ p.from = q.from
      PROVE  Received'
  <2>1. \A n \in Nat : Past(n, Ahead) => Past(n, Ahead)'
    BY <1>4 DEF Past, TbReady
  <2>2. Partial(rcvBuf, Ahead)'
    <3>1. CASE rcvBuf.tb = Noise
      BY <3>1 DEF Partial
    <3>2. CASE rcvBuf.tb # Noise
      <4>1. \A q \in Ahead : \/ rcvBuf.tb.no < q.tb.no
                             \/ rcvBuf.tb = q.tb /\ rcvBuf.upto <= q.from
        BY <3>2 DEF Received, Partial
      <4>2. \A p \in Ahead' : \/ rcvBuf.tb.no < p.tb.no
                              \/ rcvBuf.tb = p.tb /\ rcvBuf.upto <= p.from
        BY <1>4, <4>1
      <4> QED
        BY <1>4, <3>2, <4>2 DEF Received, Partial, ThisTb
    <3> QED
      BY <3>1, <3>2
  <2> QED
    BY <1>2, <2>1, <2>2 DEF Received, Delivered, Delivery!Increasing
<1>5. CASE LoadsFrame
  <2>1. UNCHANGED tb /\ Ahead' \subseteq Ahead
    BY <1>5 DEF LoadsFrame, Ahead, OnAir, Sent
  <2> QED
    BY <1>4, <2>1
<1>6. CASE SendsFrame
  <2>1. UNCHANGED tb /\ mem \subseteq PieceSet
    BY <1>6 DEF SendsFrame, IInv, Types
  <2>2. PICK tags, m : /\ m \subseteq mem /\ Produce(tags, m)
                       /\ OnAir' = {p \in m : p.at < Capacity}
    BY <1>6, SentFrame
  <2>3. ASSUME NEW p \in Ahead'
        PROVE  \E q \in Ahead : p.tb = q.tb /\ p.from = q.from
    <3>1. CASE p \in mem'
      <4>1. m \in SUBSET mem
        BY <2>2
      <4>2. \E q \in m : p.tb = q.tb /\ p.from = q.from
        BY <2>1, <2>2, <3>1, <4>1, MovedPiece
      <4> QED
        BY <2>2, <4>2 DEF Ahead
    <3>2. CASE p \in OnAir'
      BY <2>2, <3>2 DEF Ahead
    <3> QED
      BY <3>1, <3>2 DEF Ahead
  <2> QED
    BY <1>4, <2>1, <2>3
<1>7. CASE FillFrame \/ LeaveRoom
  <2> DEFINE q == Piece(call.at, OutBits)
  <2>1. Write
    BY <1>7 DEF FillFrame, LeaveRoom
  <2>2. /\ ~TbReady /\ air' = air /\ tb'.no = tb.no
        /\ OutBits \in Nat /\ ThisTb' = ThisTb /\ tb'.sent = tb.sent + OutBits
    <3>1. /\ InOutput /\ air' = air /\ tb'.no = tb.no /\ OutBits \in Nat
          /\ tb' = [tb EXCEPT !.sent = @ + OutBits]
      BY <2>1, WriteFact, OutFact
    <3> QED
      BY <1>1, <3>1 DEF InOutput, ThisTb, TbSet
  <2>3. ASSUME NEW p \in Ahead'
        PROVE  \/ p \in Ahead
               \/ p.tb = ThisTb /\ p.tb.no = tb.no /\ p.from = tb.sent
    <3>1. p \in OnAir \/ p \in mem'
      BY <2>2 DEF Ahead, OnAir, Sent
    <3>2. p \in mem' => p \in mem \/ (p = q /\ OutBits > 0)
      BY <2>1, WrittenPiece
    <3> QED
      BY <2>1, <3>1, <3>2, NewPiece DEF Ahead
  <2>4. ASSUME NEW n \in Nat, Past(n, Ahead)
        PROVE  Past(n, Ahead)'
    <3>1. n < tb.no
      BY <1>1, <2>2, <2>4 DEF Past
    <3>2. \A p \in Ahead' : n < p.tb.no
      BY <2>3, <2>4, <3>1 DEF Past
    <3> QED
      BY <1>1, <2>2, <2>4, <3>1, <3>2 DEF Past
  <2>5. Partial(rcvBuf, Ahead)'
    <3> SUFFICES ASSUME rcvBuf.tb # Noise PROVE Partial(rcvBuf, Ahead)'
      BY DEF Partial
    <3>1. /\ rcvBuf.tb.no \in 1 .. tb.no
          /\ rcvBuf.tb.no = tb.no =>
               rcvBuf.tb = ThisTb /\ rcvBuf.upto <= tb.sent
          /\ \A p \in Ahead : \/ rcvBuf.tb.no < p.tb.no
                              \/ rcvBuf.tb = p.tb /\ rcvBuf.upto <= p.from
      BY DEF Received, Partial
    <3>2. \A p \in Ahead' : \/ rcvBuf.tb.no < p.tb.no
                            \/ rcvBuf.tb = p.tb /\ rcvBuf.upto <= p.from
      BY <1>1, <2>3, <3>1
    <3>3. rcvBuf.tb.no = tb'.no =>
            rcvBuf.tb = ThisTb' /\ rcvBuf.upto <= tb'.sent
      BY <1>1, <2>2, <3>1 DEF DecoderTypes, BufSet
    <3> QED
      BY <2>2, <3>1, <3>2, <3>3 DEF Partial
  <2> QED
    BY <1>2, <2>4, <2>5 DEF Received, Delivered, Delivery!Increasing
<1> QED
  BY <1>3, <1>5, <1>6, <1>7, FramerSteps

\* A TB that is in the buffer whole is past.
LEMMA WholePast ==
  ASSUME IInv, NEW b \in BufSet, NEW ahead,
         \A p \in ahead : p \in PieceSet /\ End(p) <= p.tb.size,
         Partial(b, ahead), b.tb # Noise, b.upto = b.tb.size
  PROVE  Past(b.tb.no, ahead)
<1>1. b.tb.no \in 1 .. tb.no
  BY DEF Partial
<1>2. ASSUME b.tb.no = tb.no
      PROVE  TbReady
  <2>1. b.tb = ThisTb /\ b.tb.size <= tb.sent
    BY <1>2 DEF Partial
  <2>2. ThisTb.size = tb.size /\ tb.sent <= tb.size
        /\ tb.sent \in Nat /\ tb.size \in Nat
    BY DEF ThisTb, IInv, Types, TypeOK, TbSet
  <2> QED
    BY <2>1, <2>2 DEF TbReady
<1>3. ASSUME NEW p \in ahead
      PROVE  b.tb.no < p.tb.no
  <2>1. p.from < End(p) /\ End(p) <= p.tb.size /\ p.from \in Nat
        /\ End(p) \in Nat /\ p.tb.size \in Nat
    BY DEF PieceSet, End, TbSet
  <2>2. ~(b.tb = p.tb /\ b.tb.size <= p.from)
    BY <2>1
  <2> QED
    BY <2>2 DEF Partial
<1> QED
  BY <1>1, <1>2, <1>3 DEF Past

\* One more TB is delivered.
LEMMA OneMore ==
  ASSUME NEW s, NEW b, NEW ahead, Delivered(s, b, ahead), NEW n \in Nat,
         Past(n, ahead), \A i \in 1 .. Len(s) : s[i] < n,
         NEW next, next.tb # Noise => n < next.tb.no /\ next.tb.no \in Nat
  PROVE  Delivered(s \o <<n>>, next, ahead)
<1> DEFINE r == s \o <<n>>
<1>1. s \in Seq(Nat) /\ Len(s) \in Nat /\ \A i \in 1 .. Len(s) : s[i] \in Nat
  BY DEF Delivered
<1>2. /\ r \in Seq(Nat) /\ Len(r) = Len(s) + 1 /\ r[Len(s) + 1] = n
      /\ \A i \in 1 .. Len(s) : r[i] = s[i]
  BY <1>1
<1> HIDE DEF r
<1>3. \A i \in 1 .. Len(r) : i \in 1 .. Len(s) \/ i = Len(s) + 1
  BY <1>1, <1>2
<1>4. Delivery!Increasing(r)
  <2> SUFFICES ASSUME NEW i \in DOMAIN r, NEW j \in DOMAIN r, i < j
               PROVE  r[i] < r[j]
    BY Zenon DEF Delivery!Increasing
  <2>1. i \in 1 .. Len(r) /\ j \in 1 .. Len(r)
    BY <1>2
  <2>2. i \in 1 .. Len(s)
    BY <1>1, <1>3, <2>1
  <2>3. CASE j \in 1 .. Len(s)
    <3>1. i \in DOMAIN s /\ j \in DOMAIN s
      BY <1>1, <2>2, <2>3
    <3>2. s[i] < s[j]
      BY <3>1, Zenon DEF Delivered, Delivery!Increasing
    <3> QED
      BY <1>2, <2>2, <2>3, <3>2
  <2>4. CASE j = Len(s) + 1
    BY <1>2, <2>2, <2>4
  <2> QED
    BY <1>3, <2>1, <2>3, <2>4
<1>5. ASSUME NEW i \in 1 .. Len(r)
      PROVE  Past(r[i], ahead) /\ (next.tb # Noise => r[i] < next.tb.no)
  <2>1. CASE i \in 1 .. Len(s)
    <3>1. r[i] = s[i] /\ s[i] < n /\ s[i] \in Nat
      BY <1>1, <1>2, <2>1
    <3>2. Past(s[i], ahead)
      BY <2>1 DEF Delivered
    <3> QED
      BY <3>1, <3>2
  <2>2. CASE i = Len(s) + 1
    BY <1>2, <2>2
  <2> QED
    BY <1>3, <2>1, <2>2
<1> QED
  BY <1>2, <1>4, <1>5 DEF Delivered, r

\* The buffer while a frame is processed: as it was, noise, or a piece that was
\* on the air, after which everything else comes.
LEMMA GrownPartial ==
  ASSUME IInv, Sending, InOrder, NEW f \in FrameSet, f.pieces \subseteq OnAir,
         NEW b \in BufSet, Partial(b, Ahead), NEW at \in Nat, NEW bytes \in Nat
  PROVE  Partial(Grown(b, f, at, bytes), mem)
<1> DEFINE g == Grown(b, f, at, bytes)
<1>1. CASE bytes = 0
  <2>1. g = b
    BY <1>1 DEF Grown
  <2> QED
    BY <2>1 DEF Partial, Ahead
<1>2. CASE bytes > 0
  <2>1. \/ g.tb = Noise
        \/ \E p \in f.pieces : g.tb = p.tb /\ g.upto = End(p)
    BY <1>2, GrownCases
  <2>2. CASE g.tb = Noise
    BY <2>2 DEF Partial
  <2>3. ASSUME NEW p \in f.pieces, g.tb = p.tb, g.upto = End(p)
        PROVE  Partial(g, mem)
    <3>1. PieceOK(p)
      BY AheadTypes DEF Ahead
    <3>2. \A q \in mem : Before(p, q)
      BY DEF InOrder
    <3> HIDE DEF g
    <3> QED
      BY <2>3, <3>1, <3>2 DEF Partial, PieceOK, Before
  <2> QED
    BY <2>1, <2>2, <2>3
<1> QED
  BY <1>1, <1>2

LEMMA GrownDelivered ==
  ASSUME IInv, Sending, NEW f \in FrameSet, f.pieces \subseteq OnAir,
         NEW s, NEW b \in BufSet, Delivered(s, b, Ahead),
         NEW at \in Nat, NEW bytes \in Nat
  PROVE  Delivered(s, Grown(b, f, at, bytes), mem)
<1> DEFINE g == Grown(b, f, at, bytes)
<1>1. \A n : Past(n, Ahead) => Past(n, mem)
  BY DEF Past, Ahead
<1>2. CASE bytes = 0
  <2>1. g = b
    BY <1>2 DEF Grown
  <2> QED
    BY <1>1, <2>1 DEF Delivered
<1>3. CASE bytes > 0
  <2>1. \/ g.tb = Noise
        \/ \E p \in f.pieces : g.tb = p.tb
    BY <1>3, GrownCases
  <2>2. g.tb # Noise => \A i \in 1 .. Len(s) : s[i] < g.tb.no
    <3> HIDE DEF g
    <3> QED
      BY <2>1 DEF Delivered, Past, Ahead
  <2> HIDE DEF g
  <2> QED
    BY <1>1, <2>2 DEF Delivered, g
<1> QED
  BY <1>2, <1>3

News == {<<>>} \cup {<<n>> : n \in 1 .. tb.no}

\* What decoding the buffer b delivers, when next is in the buffer then.
LEMMA DecodedDelivered ==
  ASSUME IInv, Sending, NEW s, NEW b \in BufSet, NEW next \in BufSet,
         NEW info, NEW cnst,
         Delivered(s, b, mem), Partial(b, mem), Delivered(s, next, mem),
         (b.tb # Noise /\ b.upto = b.tb.size /\ next.tb # Noise)
           => b.tb.no < next.tb.no
  PROVE  /\ Delivered(s \o Decoded(b, info, cnst), next, mem)
         /\ Decoded(b, info, cnst) \in News
<1> DEFINE d == Decoded(b, info, cnst)
<1>1. \/ d = <<>>
      \/ d = <<b.tb.no>> /\ b.tb # Noise /\ b.upto = b.tb.size
  BY DecodedFact
<1> HIDE DEF d
<1>2. CASE d = <<>>
  <2>1. s \o <<>> = s
    BY DEF Delivered
  <2> QED
    BY <1>2, <2>1 DEF News, d
<1>3. CASE d = <<b.tb.no>> /\ b.tb # Noise /\ b.upto = b.tb.size
  <2>1. \A p \in mem : p \in PieceSet /\ End(p) <= p.tb.size
    BY AheadTypes DEF Ahead, PieceOK
  <2>2. Past(b.tb.no, mem)
    BY <1>3, <2>1, WholePast
  <2>3. b.tb.no \in Nat /\ next.tb.no \in Nat
    BY DEF BufSet, TbSet
  <2>4. \A i \in 1 .. Len(s) : s[i] < b.tb.no
    BY <1>3 DEF Delivered
  <2>5. Delivered(s \o <<b.tb.no>>, next, mem)
    BY <1>3, <2>2, <2>3, <2>4, OneMore
  <2>6. b.tb.no \in 1 .. tb.no
    BY <2>2 DEF Past
  <2> QED
    BY <1>3, <2>5, <2>6 DEF News, d
<1> QED
  BY <1>1, <1>2, <1>3

\* A frame that ends a TB and begins another: the other is the later one.
LEMMA InTurn ==
  ASSUME IInv, Sending, DecoderTypes, InOrder, Received,
         NEW f \in FrameSet, f.pieces \subseteq OnAir,
         NEW a \in Nat, NEW at \in Nat, a > 0 => at > 0, NEW b \in Nat
  PROVE  LET old == Grown(rcvBuf, f, 0, a)
             new == Grown(EmptyBuf, f, at, b)
         IN  (old.tb # Noise /\ old.upto = old.tb.size /\ new.tb # Noise)
               => old.tb.no < new.tb.no
<1> DEFINE old == Grown(rcvBuf, f, 0, a)
           new == Grown(EmptyBuf, f, at, b)
<1> SUFFICES ASSUME old.tb # Noise, old.upto = old.tb.size, new.tb # Noise
             PROVE  old.tb.no < new.tb.no
  OBVIOUS
<1>1. /\ EmptyBuf \in BufSet /\ EmptyBuf.tb = Noise /\ rcvBuf \in BufSet
  BY EmptyBufFact DEF DecoderTypes
<1>2. PICK q \in f.pieces : q.at = at /\ new.tb = q.tb
  <2>1. b # 0
    BY <1>1 DEF Grown
  <2>2. \/ new.tb = Noise /\ new.upto = 0
        \/ \E p \in f.pieces : p.at = at /\ new.tb = p.tb /\ new.upto = End(p)
    BY <1>1, <2>1, GrownCases
  <2> QED
    BY <2>2, Zenon
<1>3. q \in Ahead /\ q \in OnAir
  BY DEF Ahead
<1>4. CASE a = 0
  <2>1. old = rcvBuf
    BY <1>4 DEF Grown
  <2>2. Past(rcvBuf.tb.no, Ahead)
    <3>1. \A p \in Ahead : p \in PieceSet /\ End(p) <= p.tb.size
      BY AheadTypes DEF PieceOK
    <3>2. rcvBuf.tb # Noise /\ rcvBuf.upto = rcvBuf.tb.size
      BY <2>1
    <3> HIDE DEF old, new
    <3> QED
      BY <1>1, <3>1, <3>2, WholePast DEF Received
  <2> HIDE DEF old, new
  <2> QED
    BY <1>2, <1>3, <2>1, <2>2 DEF Past
<1>5. CASE a # 0
  <2>1. PICK p \in f.pieces : p.at = 0 /\ old.tb = p.tb /\ old.upto = End(p)
    <3>1. \/ old.tb = Noise /\ old.upto = 0
          \/ \E p \in f.pieces : p.at = 0 /\ old.tb = p.tb /\ old.upto = End(p)
      BY <1>1, <1>5, GrownCases
    <3> QED
      BY <3>1, Zenon
  <2>2. Before(p, q)
    <3>1. p \in OnAir /\ p # q /\ ~(q.at < p.at)
      BY <1>2, <1>5, <2>1
    <3> QED
      BY <1>3, <3>1 DEF InOrder, Ordered
  <2>3. /\ End(q) <= q.tb.size /\ q.from < End(q) /\ End(q) \in Nat
        /\ q \in PieceSet
    BY <1>3, AheadTypes DEF PieceOK
  <2>4. q.from \in Nat /\ q.tb.size \in Nat
    BY <2>3 DEF PieceSet, TbSet
  <2> HIDE DEF old, new
  <2>5. ~(p.tb = q.tb /\ End(p) <= q.from)
    BY <2>1, <2>3, <2>4
  <2> QED
    BY <1>2, <2>1, <2>2, <2>5 DEF Before
<1> QED
  BY <1>4, <1>5

LEMMA ProcessReceived ==
  ASSUME IInv, Sending, DecoderTypes, InOrder, Received,
         NEW f \in FrameSet, TagOK(f.tags), f.pieces \subseteq OnAir,
         ProcessFrame(f)
  PROVE  /\ Delivered(got', rcvBuf', mem) /\ Partial(rcvBuf', mem)
         /\ \E d1, d2 \in News : got' = got \o d1 \o d2
<1> DEFINE t == f.tags
<1>1. /\ t.payload \in Nat /\ t.offset \in Nat /\ t.payload - t.offset \in Nat
      /\ BytesToSyms(t.offset, t.cnst) \in Nat
  BY TagNumbers
<1>2. /\ EmptyBuf \in BufSet /\ EmptyBuf.tb = Noise /\ rcvBuf \in BufSet
      /\ got \in Seq(Nat)
  BY EmptyBufFact DEF DecoderTypes
<1>3. Delivered(got, rcvBuf, Ahead) /\ Partial(rcvBuf, Ahead)
  BY DEF Received
<1>4. Delivered(got, EmptyBuf, Ahead) /\ Partial(EmptyBuf, Ahead)
  BY <1>2, <1>3 DEF Delivered, Partial
<1>5. \A s, b : Delivered(s, b, mem) => Delivered(s, EmptyBuf, mem)
  BY <1>2 DEF Delivered
<1>6. Partial(EmptyBuf, mem)
  BY <1>2 DEF Partial
<1>7. \A s \in Seq(Nat) : s \o <<>> = s
  OBVIOUS
<1>8. CASE SkipEmpty(f)
  <2>1. got' = got /\ rcvBuf' = rcvBuf
    BY <1>8 DEF SkipEmpty, decoderVars
  <2>2. Delivered(got, rcvBuf, mem) /\ Partial(rcvBuf, mem)
    BY <1>3 DEF Delivered, Partial, Past, Ahead
  <2>3. got' = got \o <<>> \o <<>> /\ <<>> \in News
    BY <1>2, <1>7, <2>1 DEF News
  <2> QED
    BY <2>1, <2>2, <2>3
<1>9. CASE SameTb(f)
  <2> DEFINE buf == Grown(rcvBuf, f, 0, t.payload)
             d == Decoded(buf, fecInfo, t.cnst)
  <2>1. buf \in BufSet
    BY <1>1, <1>2, GrownFact
  <2>2. Delivered(got, buf, mem)
    BY <1>1, <1>2, <1>3, GrownDelivered
  <2>3. Partial(buf, mem)
    BY <1>1, <1>2, <1>3, GrownPartial
  <2>4. \/ rcvBuf' = EmptyBuf /\ got' = got \o d
        \/ rcvBuf' = buf /\ got' = got \o <<>>
    BY <1>9 DEF SameTb, AfterDecode
  <2> HIDE DEF buf
  <2>5. Delivered(got \o d, EmptyBuf, mem) /\ d \in News
    BY <1>2, <1>5, <2>1, <2>2, <2>3, DecodedDelivered
  <2> HIDE DEF d
  <2>6. CASE rcvBuf' = EmptyBuf /\ got' = got \o d
    <3>1. got' \in Seq(Nat)
      BY <2>5, <2>6 DEF Delivered
    <3>2. got' = got \o d \o <<>> /\ <<>> \in News
      BY <1>7, <2>6, <3>1 DEF News
    <3> QED
      BY <1>6, <2>5, <2>6, <3>2
  <2>7. CASE rcvBuf' = buf /\ got' = got \o <<>>
    <3>1. got' = got /\ got' = got \o <<>> \o <<>> /\ <<>> \in News
      BY <1>2, <1>7, <2>7 DEF News
    <3> QED
      BY <2>2, <2>3, <2>7, <3>1
  <2> QED
    BY <2>4, <2>6, <2>7
<1>10. CASE SmallTb(f)
  <2> DEFINE buf == Grown(EmptyBuf, f, 0, t.offset)
             d == Decoded(buf, t, t.cnst)
  <2>1. buf \in BufSet
    BY <1>1, <1>2, GrownFact
  <2>2. Delivered(got, buf, mem)
    BY <1>1, <1>2, <1>4, GrownDelivered
  <2>3. Partial(buf, mem)
    BY <1>1, <1>2, <1>4, GrownPartial
  <2>4. rcvBuf' = EmptyBuf /\ got' = got \o d
    BY <1>10 DEF SmallTb
  <2> HIDE DEF buf
  <2>5. Delivered(got \o d, EmptyBuf, mem) /\ d \in News
    BY <1>2, <1>5, <2>1, <2>2, <2>3, DecodedDelivered
  <2> HIDE DEF d
  <2>6. got' \in Seq(Nat)
    BY <2>4, <2>5 DEF Delivered
  <2>7. got' = got \o d \o <<>> /\ <<>> \in News
    BY <1>7, <2>4, <2>6 DEF News
  <2> QED
    BY <1>6, <2>4, <2>5, <2>7
<1>11. CASE OtherTb(f)
  <2> DEFINE at == BytesToSyms(t.offset, t.cnst)
             old == Grown(rcvBuf, f, 0, t.offset)
             new == Grown(EmptyBuf, f, at, t.payload - t.offset)
             ended == old.bytes > 0 /\ fecInfo # NoInfo
             d1 == Decoded(old, fecInfo, t.cnst)
             d2 == Decoded(new, t, t.cnst)
             e1 == IF ended THEN d1 ELSE <<>>
             e2 == IF IsContained(t) THEN d2 ELSE <<>>
  <2>1. old \in BufSet /\ new \in BufSet
    BY <1>1, <1>2, GrownFact
  <2>2. Delivered(got, old, mem) /\ Delivered(got, new, mem)
    BY <1>1, <1>2, <1>3, <1>4, GrownDelivered
  <2>3. Partial(old, mem) /\ Partial(new, mem)
    BY <1>1, <1>2, <1>3, <1>4, GrownPartial
  <2>4. /\ rcvBuf' = IF IsContained(t) THEN EmptyBuf ELSE new
        /\ got' = got \o e1 \o e2
    BY <1>11 DEF OtherTb, NewBuf
  <2>5. (old.tb # Noise /\ old.upto = old.tb.size /\ new.tb # Noise)
          => old.tb.no < new.tb.no
    <3>1. t.offset > 0 => at > 0
      BY <1>1, TagNumbers, SymsFact
    <3> QED
      BY <1>1, <3>1, InTurn
  <2> HIDE DEF old, new, ended
  <2>6. Delivered(got \o d1, new, mem) /\ d1 \in News
    BY <1>2, <2>1, <2>2, <2>3, <2>5, DecodedDelivered
  <2>7. Delivered(got \o e1, new, mem) /\ e1 \in News
    <3>1. got \o <<>> = got /\ <<>> \in News
      BY <1>2, <1>7 DEF News
    <3> HIDE DEF d1
    <3> QED
      BY <2>2, <2>6, <3>1
  <2> HIDE DEF e1
  <2>8. Delivered(got \o e1 \o d2, EmptyBuf, mem) /\ d2 \in News
    BY <1>2, <1>5, <2>1, <2>3, <2>7, DecodedDelivered
  <2>9. CASE IsContained(t)
    BY <1>6, <2>4, <2>7, <2>8, <2>9
  <2>10. CASE ~IsContained(t)
    <3>1. got \o e1 \in Seq(Nat)
      BY <2>7 DEF Delivered
    <3>2. e2 = <<>> /\ got' = got \o e1 /\ e2 \in News
      BY <1>7, <2>4, <2>10, <3>1 DEF News
    <3> HIDE DEF e2
    <3> QED
      BY <2>3, <2>4, <2>7, <2>10, <3>2
  <2> QED
    BY <2>9, <2>10
<1> QED
  BY <1>8, <1>9, <1>10, <1>11 DEF ProcessFrame

LEMMA RadioReceived ==
  ASSUME IInv, Sending, DecoderTypes, InOrder, Received, Radio
  PROVE  Received' /\ \E d1, d2 \in News : got' = got \o d1 \o d2
<1>1. /\ UNCHANGED <<tb, mem>> /\ air' = <<>>
  BY DEF Radio, Receive, Lose, Spoil, PassOn, buildVars, outVars
<1>2. Ahead' = mem
  BY <1>1 DEF Ahead, OnAir
<1>3. Delivered(got', rcvBuf', mem) /\ Partial(rcvBuf', mem)
      /\ \E d1, d2 \in News : got' = got \o d1 \o d2
  <2>1. CASE UNCHANGED decoderVars
    <3>1. got' = got /\ rcvBuf' = rcvBuf
      BY <2>1 DEF decoderVars
    <3>2. Delivered(got, rcvBuf, mem) /\ Partial(rcvBuf, mem)
      BY DEF Received, Delivered, Partial, Past, Ahead
    <3>3. got = got \o <<>> \o <<>> /\ <<>> \in News
      BY DEF News, DecoderTypes
    <3> QED
      BY <3>1, <3>2, <3>3
  <2>2. ASSUME NEW f \in FrameSet, f.tags = Sent.tags, f.pieces \subseteq OnAir,
               ProcessFrame(f)
        PROVE  /\ Delivered(got', rcvBuf', mem) /\ Partial(rcvBuf', mem)
               /\ \E d1, d2 \in News : got' = got \o d1 \o d2
    BY <2>2, SentFact, ProcessReceived
  <2> QED
    BY <2>1, <2>2, SentFact
<1>4. Received'
  BY <1>1, <1>2, <1>3
     DEF Received, Delivered, Partial, Past, ThisTb, TbReady,
         Delivery!Increasing
<1> QED
  BY <1>3, <1>4

LEMMA NextReceived ==
  ASSUME IInv, Sending, DecoderTypes, InOrder, Received, [LinkNext]_linkVars
  PROVE  Received'
<1>1. CASE Radio
  BY <1>1, RadioReceived
<1>2. ASSUME [Next]_vars, UNCHANGED receiverVars
      PROVE  Received'
  BY <1>2, FramerReceived DEF receiverVars, decoderVars
<1>3. (Framer \/ UNCHANGED linkVars) => [Next]_vars /\ UNCHANGED receiverVars
  BY DEF Framer, Next, BeginCall, linkVars
<1> QED
  BY <1>1, <1>2, <1>3 DEF LinkNext

\* What a frame delivers is a step of the abstract delivery.
LEMMA DeliverStep ==
  ASSUME Received', UNCHANGED tb, NEW d1 \in News, NEW d2 \in News,
         got' = got \o d1 \o d2, got \in Seq(Nat)
  PROVE  [Delivery!Next]_<<tb.no, got>>
<1>1. Delivery!Increasing(got')
  BY DEF Received, Delivered
<1>2. tb.no' = tb.no
  OBVIOUS
<1>3. ASSUME NEW many \in 1 .. 2, NEW news \in [1 .. many -> 1 .. tb.no],
             got' = got \o news
      PROVE  Delivery!Next
  BY <1>1, <1>2, <1>3 DEF Delivery!Next, Delivery!Deliver
<1>4. CASE d1 = <<>> /\ d2 = <<>>
  <2>1. got' = got
    BY <1>4
  <2> QED
    BY <1>2, <2>1
<1>5. ASSUME NEW n \in 1 .. tb.no,
             (d1 = <<n>> /\ d2 = <<>>) \/ (d1 = <<>> /\ d2 = <<n>>)
      PROVE  Delivery!Next
  <2>1. <<n>> \in [1 .. 1 -> 1 .. tb.no] /\ 1 \in 1 .. 2
    OBVIOUS
  <2>2. <<n>> \in Seq(Nat)
    OBVIOUS
  <2>3. got' = got \o <<n>>
    <3>1. got \o <<>> = got /\ (got \o <<n>>) \o <<>> = got \o <<n>>
      BY <2>2
    <3> QED
      BY <1>5, <3>1
  <2> QED
    BY <1>3, <2>1, <2>3
<1>6. ASSUME NEW n \in 1 .. tb.no, NEW k \in 1 .. tb.no, d1 = <<n>>, d2 = <<k>>
      PROVE  Delivery!Next
  <2>1. <<n, k>> \in [1 .. 2 -> 1 .. tb.no] /\ 2 \in 1 .. 2
    OBVIOUS
  <2>2. got' = got \o <<n, k>>
    <3> DEFINE r == (got \o <<n>>) \o <<k>>
               s == got \o <<n, k>>
    <3>1. n \in Nat /\ k \in Nat
      OBVIOUS
    <3>2. /\ r \in Seq(Nat) /\ Len(r) = Len(got) + 2
          /\ \A i \in 1 .. Len(got) : r[i] = got[i]
          /\ r[Len(got) + 1] = n /\ r[Len(got) + 2] = k
      BY <3>1
    <3>3. /\ s \in Seq(Nat) /\ Len(s) = Len(got) + 2
          /\ \A i \in 1 .. Len(got) : s[i] = got[i]
          /\ s[Len(got) + 1] = n /\ s[Len(got) + 2] = k
      BY <3>1
    <3>4. got' = r
      BY <1>6
    <3> HIDE DEF r, s
    <3>5. ASSUME NEW i \in 1 .. Len(got) + 2
          PROVE  r[i] = s[i]
      <4>1. Len(got) \in Nat
        OBVIOUS
      <4>2. i \in 1 .. Len(got) \/ i = Len(got) + 1 \/ i = Len(got) + 2
        BY <4>1
      <4> QED
        BY <3>2, <3>3, <4>2
    <3>6. r = s
      BY <3>2, <3>3, <3>5
    <3> QED
      BY <3>4, <3>6 DEF s
  <2> QED
    BY <1>3, <2>1, <2>2
<1>7. /\ d1 = <<>> \/ \E n \in 1 .. tb.no : d1 = <<n>>
      /\ d2 = <<>> \/ \E n \in 1 .. tb.no : d2 = <<n>>
  BY DEF News
<1> QED
  BY <1>4, <1>5, <1>6, <1>7, Zenon

LEMMA StepDelivers ==
  ASSUME IInv, Sending, DecoderTypes, InOrder, Received, Received',
         [LinkNext]_linkVars
  PROVE  [Delivery!Next]_<<tb.no, got>>
<1>1. CASE Radio
  <2>1. UNCHANGED tb /\ got \in Seq(Nat)
    BY <1>1 DEF Radio, Receive, Lose, Spoil, PassOn, buildVars, DecoderTypes
  <2> QED
    BY <1>1, <2>1, RadioReceived, DeliverStep
<1>2. ASSUME [Next]_vars, UNCHANGED receiverVars
      PROVE  [Delivery!Next]_<<tb.no, got>>
  <2>1. got' = got
    BY <1>2 DEF receiverVars, decoderVars
  <2>2. CASE EncodeTb
    <3>1. tb'.no = tb.no + 1
      BY <2>2 DEF EncodeTb, NewTb
    <3> QED
      BY <2>1, <3>1 DEF Delivery!Next, Delivery!Send
  <2>3. CASE LoadsFrame \/ SendsFrame
    BY <2>1, <2>3 DEF LoadsFrame, SendsFrame
  <2>4. CASE FillFrame \/ LeaveRoom
    BY <2>1, <2>4, WriteFact DEF FillFrame, LeaveRoom
  <2> QED
    BY <1>2, <2>2, <2>3, <2>4, FramerSteps
<1>3. (Framer \/ UNCHANGED linkVars) => [Next]_vars /\ UNCHANGED receiverVars
  BY DEF Framer, Next, BeginCall, linkVars
<1> QED
  BY <1>1, <1>2, <1>3 DEF LinkNext

LEMMA ReceivedInvariance == WholePdus => (LinkSpec => []Received)
<1> SUFFICES ASSUME WholePdus PROVE LinkSpec => []Received
  OBVIOUS
<1>1. LinkInit => Received
  BY EmptyBufFact DEF LinkInit, DecoderInit, Received, Delivered, Partial,
     Delivery!Increasing
<1>2. /\ IInv /\ Sending /\ DecoderTypes /\ InOrder /\ Received
      /\ [LinkNext]_linkVars
      => Received'
  BY NextReceived
<1> QED
  BY <1>1, <1>2, LinkInvariance, SendingInvariance, DecoderInvariance,
     InOrderInvariance, PTL DEF LinkSpec

\* The link implements the ordered delivery: whatever frames are lost and
\* whatever pieces of them are spoilt, TBs are delivered at most once, in the
\* order they were encoded, and only TBs that were.
THEOREM DeliveryImplemented == WholePdus => (LinkSpec => ImplementsDelivery)
<1> SUFFICES ASSUME WholePdus PROVE LinkSpec => ImplementsDelivery
  OBVIOUS
<1>1. LinkInit => Delivery!Init
  BY DEF LinkInit, Init, DecoderInit, Delivery!Init, NoTb
<1>2. /\ IInv /\ Sending /\ DecoderTypes /\ InOrder /\ Received /\ Received'
      /\ [LinkNext]_linkVars
      => [Delivery!Next]_<<tb.no, got>>
  BY StepDelivers
<1> QED
  BY <1>1, <1>2, LinkInvariance, SendingInvariance, DecoderInvariance,
     InOrderInvariance, ReceivedInvariance, PTL
     DEF LinkSpec, ImplementsDelivery, Delivery!Spec

-----------------------------------------------------------------------------
(* The receive buffer is large enough                                      *)

\* Only what the peer asks for is used, after BPSK.
Asked == Cnsts \cup {1}

LEMMA NextAsked ==
  ASSUME IInv, header.cnst \in Asked, current.cnst \in Asked, [Next]_vars
  PROVE  header'.cnst \in Asked /\ current'.cnst \in Asked
<1>1. CASE ProcessFeedbackHeader
  <2>1. PICK c \in Cnsts \cup {0}, f \in DOMAIN Codes :
          header' = [cnst |-> IF c = 0 THEN header.cnst ELSE c, fec |-> f]
    BY <1>1 DEF ProcessFeedbackHeader
  <2>2. current' = current
    BY <1>1 DEF ProcessFeedbackHeader
  <2>3. header'.cnst = IF c = 0 THEN header.cnst ELSE c
    BY <2>1
  <2> QED
    BY <2>2, <2>3 DEF Asked
<1>2. CASE EncodeTb \/ NoWholePdu
  <2>1. header' = header /\ current' = header
    BY <1>2 DEF EncodeTb, NoWholePdu
  <2> QED
    BY <2>1
<1>3. CASE Write
  <2>1. UNCHANGED <<header, current>>
    BY <1>3, WriteFact
  <2> QED
    BY <2>1
<1>4. CASE ~ProcessFeedbackHeader /\ ~EncodeTb /\ ~NoWholePdu /\ ~Write
  <2>1. UNCHANGED <<header, current>>
    BY <1>4 DEF Next, BeginCall, Loop, Arrive, PassOn, ProduceLoaded,
       EmptyFrame, GiveUp, EnterLoop, FlushForNewCnst, FillFrame, LeaveRoom,
       OutputDone, OutputWait, FinalizeFrame, LeaveLoop, vars, radioVars
  <2> QED
    BY <2>1
<1> QED
  BY <1>1, <1>2, <1>3, <1>4

\* A TB of so many bits fits in the receive buffer, which takes whole bytes.
Holds(size) == 8 * BitsToBytes(size) <= RcvCapacity

LEMMA BytesFact ==
  ASSUME NEW bits \in Nat
  PROVE  /\ BitsToBytes(bits) \in Nat
         /\ bits <= 8 * BitsToBytes(bits) /\ 8 * BitsToBytes(bits) < bits + 8
         /\ \A n \in Nat : bits <= 8 * n => BitsToBytes(bits) <= n
         /\ bits % 8 = 0 => 8 * BitsToBytes(bits) = bits
BY DEF BitsToBytes

\* The longest code bounds the buffer from below, and so does the frame.
LEMMA CapacityFact ==
  /\ RcvCapacity \in Nat
  /\ \A c \in Asked : 2 * (Capacity * c) <= RcvCapacity
  /\ \A f \in DOMAIN Codes : 2 * Codes[f].n <= RcvCapacity
<1> DEFINE lengths == {Codes[f].n : f \in DOMAIN Codes}
           n == Max(lengths)
           bits == Capacity * MaxBps
<1>1. \E x \in lengths : \A y \in lengths : x >= y
  <2>1. PICK f \in DOMAIN Codes :
               \A g \in DOMAIN Codes : Codes[g].n <= Codes[f].n
    BY LongestAssumption
  <2>2. \A y \in lengths : Codes[f].n >= y
    BY <2>1, SizesAssumption
  <2> QED
    BY <2>2
<1>2. n \in lengths /\ \A y \in lengths : n >= y
  BY <1>1, Zenon DEF Max
<1>3. n \in Nat \ {0} /\ \A f \in DOMAIN Codes : Codes[f].n <= n
  BY <1>2, SizesAssumption
<1>4. bits \in Nat /\ \A c \in Asked : Capacity * c <= bits
  <2>1. MaxBps \in Asked /\ \A c \in Asked : MaxBps >= c
    <3>1. \E x \in Asked : \A y \in Asked : x >= y
      <4>1. Asked \subseteq 1 .. 4 /\ 1 \in Asked
        BY SizesAssumption DEF Asked, Constellations
      <4> QED
        BY <4>1
    <3> QED
      BY <3>1, Zenon DEF MaxBps, Max, Asked
  <2>2. Asked \subseteq 1 .. 4 /\ Capacity \in Nat
    BY SizesAssumption DEF Asked, Constellations
  <2>3. ASSUME NEW c \in Asked
        PROVE  Capacity * c <= Capacity * MaxBps
    <3>1. PICK m \in 1 .. 4 : m = MaxBps
      BY <2>1, <2>2
    <3>2. c \in 1 .. 4 /\ c <= m
      BY <2>1, <2>2, <3>1
    <3>3. c = 1 \/ c = 2 \/ c = 3 \/ c = 4
      BY <3>2
    <3>4. m = 1 \/ m = 2 \/ m = 3 \/ m = 4
      OBVIOUS
    <3>5. Capacity * c <= Capacity * m
      BY <2>2, <3>2, <3>3, <3>4
    <3> QED
      BY <3>1, <3>5
  <2>4. Capacity * MaxBps \in Nat
    BY <2>1, <2>2
  <2> QED
    BY <2>3, <2>4
<1>5. MaxTbLen = n * (IF bits > n THEN 1 + bits \div n ELSE 1)
  BY DEF MaxTbLen
<1> HIDE DEF n, bits
<1>6. MaxTbLen \in Nat /\ n <= MaxTbLen /\ bits <= MaxTbLen
  <2>1. bits \div n \in Nat /\ bits < n * (bits \div n) + n
    BY <1>3, <1>4, DivFact
  <2>2. n * (1 + bits \div n) = n + n * (bits \div n)
        /\ n * (bits \div n) \in Nat
    BY <1>3, <2>1
  <2>3. CASE bits > n
    BY <1>3, <1>4, <1>5, <2>1, <2>2, <2>3
  <2>4. CASE ~(bits > n)
    <3>1. MaxTbLen = n
      BY <1>3, <1>5, <2>4
    <3> QED
      BY <1>3, <1>4, <2>4, <3>1
  <2> QED
    BY <2>3, <2>4
<1>7. RcvCapacity = 2 * MaxTbLen
  BY DEF RcvCapacity
<1>8. \A c \in Asked : Capacity * c \in Nat
  BY SizesAssumption DEF Asked, Constellations
<1> QED
  BY <1>3, <1>4, <1>6, <1>7, <1>8, SizesAssumption

\* No TB that the framer makes is too long for it.
LEMMA TbHolds ==
  ASSUME NEW c \in Asked, NEW f \in DOMAIN Codes, NEW bytes \in Nat,
         bytes <= TbPayloadMax(c, f) + CrcLen
  PROVE  Holds(TbBits(SentCodewords(c, f), f, bytes))
<1> DEFINE n == Codes[f].n
           k == Codes[f].k
           cw == SentCodewords(c, f)
           bits == 8 * FrameLen(c)
           size == TbBits(cw, f, bytes)
<1>a. c \in Constellations
  BY SizesAssumption DEF Asked, Constellations
<1>1. /\ n \in Nat \ {0} /\ k \in Nat \ {0} /\ n - k \in Nat \ {0}
      /\ cw \in Nat \ {0} /\ CrcLen \in Nat /\ Capacity \in Nat
      /\ TbPayloadMax(c, f) \in Nat \ {0}
  BY <1>a, CodewordsFact, SizesAssumption
<1>2. bits \in Nat /\ FrameLen(c) \in Nat /\ bits <= Capacity * c
  <2>1. Capacity * c \in Nat
    BY <1>1, <1>a DEF Constellations
  <2>2. FrameLen(c) \in Nat /\ 8 * FrameLen(c) <= Capacity * c
    BY <2>1, DivFact DEF FrameLen
  <2> QED
    BY <1>1, <2>1, <2>2
<1>3. cw = IF bits > n THEN 1 + bits \div n ELSE 1
  BY DEF SentCodewords, TbCodewords
<1>4. TbPayloadMax(c, f) = (cw * k) \div 8 - CrcLen
  BY DEF TbPayloadMax
<1>5. size = cw * (n - k) + 8 * bytes
  BY DEF TbBits
<1> HIDE DEF n, k, cw, bits, size
<1>6. 8 * bytes <= cw * k /\ 8 <= cw * k
  <2>1. cw * k \in Nat
    BY <1>1
  <2>2. 8 * ((cw * k) \div 8) <= cw * k /\ (cw * k) \div 8 \in Nat
    BY <2>1, DivFact
  <2>3. 8 * bytes <= 8 * ((cw * k) \div 8)
    BY <1>1, <1>4, <2>2
  <2>4. 1 <= (cw * k) \div 8
    BY <1>1, <1>4, <2>2
  <2> QED
    BY <2>1, <2>2, <2>3, <2>4
<1>7. size \in Nat /\ size <= cw * n
  <2>1. cw * (n - k) \in Nat /\ cw * k \in Nat
        /\ cw * (n - k) + cw * k = cw * n
    BY <1>1
  <2> QED
    BY <1>5, <1>6, <2>1
<1>8. CASE bits > n
  <2>1. bits \div n \in Nat /\ n * (bits \div n) <= bits
    BY <1>1, <1>2, DivFact
  <2>2. cw * n = n + n * (bits \div n)
    BY <1>1, <1>3, <1>8, <2>1
  <2>3. size <= 8 * (2 * FrameLen(c))
    <3>1. n * (bits \div n) \in Nat
      BY <1>1, <2>1
    <3>2. size <= n + bits
      BY <1>1, <1>2, <1>7, <2>1, <2>2, <3>1
    <3> QED
      BY <1>1, <1>2, <1>7, <1>8, <3>2 DEF bits
  <2>4. BitsToBytes(size) <= 2 * FrameLen(c) /\ BitsToBytes(size) \in Nat
    BY <1>2, <1>7, <2>3, BytesFact
  <2>5. 8 * BitsToBytes(size) <= 2 * (Capacity * c)
    <3>1. Capacity * c \in Nat
      BY <1>1, <1>a DEF Constellations
    <3>2. 8 * (2 * FrameLen(c)) <= 2 * (Capacity * c)
      BY <1>2, <3>1 DEF bits
    <3> QED
      BY <1>2, <2>4, <3>1, <3>2
  <2>6. 2 * (Capacity * c) <= RcvCapacity /\ Capacity * c \in Nat
    BY <1>1, <1>a, CapacityFact DEF Constellations
  <2> QED
    BY <2>4, <2>5, <2>6, CapacityFact DEF Holds, size, cw
<1>9. CASE ~(bits > n)
  <2>1. cw = 1 /\ cw * k = k /\ cw * n = n
    BY <1>1, <1>3, <1>9
  <2>2. n > 8 /\ size <= n
    BY <1>1, <1>6, <1>7, <2>1
  <2>3. 8 * BitsToBytes(size) <= 2 * n /\ BitsToBytes(size) \in Nat
    <3>1. BitsToBytes(size) \in Nat /\ 8 * BitsToBytes(size) < size + 8
      BY <1>7, BytesFact
    <3> QED
      BY <1>1, <1>7, <2>2, <3>1
  <2> QED
    BY <1>1, <2>3, CapacityFact DEF Holds, size, cw, n
<1> QED
  BY <1>8, <1>9

-----------------------------------------------------------------------------
(* TBs go out in whole bytes                                               *)

\* A piece begins at a whole byte and ends at one, or with its TB.
PieceWhole(p) ==
  /\ p.from % 8 = 0
  /\ End(p) = p.tb.size \/ End(p) % 8 = 0
  /\ Holds(p.tb.size)

Bytewise ==
  /\ header.cnst \in Asked /\ current.cnst \in Asked
  /\ TbReady \/ tb.sent % 8 = 0
  /\ Holds(tb.size)
  /\ \A p \in Ahead : PieceWhole(p)

\* Only the action "output" is about a TB that is not out; frames leave
\* between the calls.
Flow ==
  /\ action # "output" => TbReady
  /\ tb.no > 0 => tb.size > 0
  /\ pc = "loop" => air = <<>>

\* A TB that is encoded has bits, and fits.
LEMMA NewTbFact ==
  ASSUME IInv, EncodeTb
  PROVE  /\ tb'.no = tb.no + 1 /\ tb'.sent = 0 /\ tb'.size > 0
         /\ header.cnst \in Asked => Holds(tb'.size)
         /\ UNCHANGED <<loaded, mem, air>>
<1> DEFINE bytes == NextPayload.read + CrcLen
           c == header.cnst
           f == header.fec
<1>1. /\ tb' = NewTb(bytes) /\ Processing /\ NextPayload.read > 0
      /\ UNCHANGED <<loaded, mem, air>>
  BY DEF EncodeTb, outVars
<1>2. /\ NextPayload.read \in Nat \ {0}
      /\ NextPayload.read <= TbPayloadMax(c, f)
      /\ TbPayloadMax(c, f) \in Nat
  BY <1>1, NextPayloadFact DEF Sound
<1>3. c \in Constellations /\ f \in DOMAIN Codes /\ CrcLen \in Nat
  BY SizesAssumption DEF IInv, Types, TypeOK
<1>4. bytes \in Nat \ {0} /\ bytes <= TbPayloadMax(c, f) + CrcLen
  BY <1>2, <1>3
<1> HIDE DEF bytes
<1>5. /\ tb'.no = tb.no + 1 /\ tb'.sent = 0
      /\ tb'.size = TbBits(SentCodewords(c, f), f, bytes)
  BY <1>1 DEF NewTb
<1>6. tb'.size \in Nat \ {0}
  BY <1>3, <1>4, <1>5, TbBitsFact
<1>7. header.cnst \in Asked => Holds(tb'.size)
  BY <1>3, <1>4, <1>5, TbHolds
<1> QED
  BY <1>1, <1>5, <1>6, <1>7

LEMMA NextFlow ==
  ASSUME IInv, Flow, [Next]_vars
  PROVE  Flow'
<1>1. CASE EncodeTb
  <2>1. pc' = pc /\ action' = "output" /\ air' = air
    BY <1>1 DEF EncodeTb
  <2> QED
    BY <1>1, <2>1, NewTbFact DEF Flow
<1>2. CASE FillFrame \/ LeaveRoom
  <2>1. Write
    BY <1>2 DEF FillFrame, LeaveRoom
  <2>2. /\ action = "output" /\ action' = action /\ pc' = pc /\ air' = air
        /\ tb'.no = tb.no /\ tb'.size = tb.size
    BY <2>1, WriteFact DEF Write
  <2> QED
    BY <2>2 DEF Flow
<1>3. CASE NoWholePdu \/ OutputDone \/ FinalizeFrame
  <2>1. UNCHANGED <<tb, pc, air>> /\ (action' = action \/ TbReady)
    BY <1>3 DEF NoWholePdu, Processing, OutputDone, FinalizeFrame, Flow
  <2> QED
    BY <2>1 DEF Flow, TbReady
<1>4. CASE FlushForNewCnst
  <2>1. UNCHANGED <<tb, pc, air>> /\ action = "input"
    BY <1>4 DEF FlushForNewCnst, Processing
  <2> QED
    BY <2>1 DEF Flow, TbReady
<1>5. CASE OutputWait \/ Arrive \/ ProcessFeedbackHeader \/ UNCHANGED vars
  <2>1. UNCHANGED <<tb, pc, air, action>>
    BY <1>5 DEF OutputWait, Arrive, ProcessFeedbackHeader, vars, buildVars
  <2> QED
    BY <2>1 DEF Flow, TbReady
<1>6. CASE PassOn
  <2>1. UNCHANGED <<tb, pc, action>> /\ air' = <<>>
    BY <1>6 DEF PassOn, buildVars
  <2> QED
    BY <2>1 DEF Flow, TbReady
<1>7. CASE ProduceLoaded \/ EmptyFrame \/ GiveUp \/ EnterLoop \/ LeaveLoop
  <2>1. /\ UNCHANGED <<tb, action>>
        /\ pc' # "loop" \/ air' = <<>>
    BY <1>7 DEF ProduceLoaded, EmptyFrame, GiveUp, EnterLoop, LeaveLoop,
       NoInput, Called, buildVars
  <2> QED
    BY <2>1 DEF Flow, TbReady
<1> QED
  BY <1>1, <1>2, <1>3, <1>4, <1>5, <1>6, <1>7 DEF Next, BeginCall, Loop

LEMMA FlowInvariance == LinkSpec => []Flow
<1>1. Init => Flow
  BY DEF Init, Flow, TbReady, NoTb
<1>2. IInv /\ Flow /\ [Next]_vars => Flow'
  BY NextFlow
<1> QED
  BY <1>1, <1>2, FramerFact, LinkInvariance, PTL DEF LinkSpec

SameBits(p, q) ==
  p.tb = q.tb /\ p.from = q.from /\ p.bits = q.bits /\ p.cnst = q.cnst

\* Nothing that is sent changes but for its place.
LEMMA SentPieces ==
  ASSUME IInv, SendsFrame, NEW p \in Ahead'
  PROVE  \E q \in Ahead : SameBits(p, q)
<1>1. PICK tags, m : /\ m \subseteq mem /\ Produce(tags, m)
                     /\ OnAir' = {r \in m : r.at < Capacity}
  BY SentFrame
<1>2. CASE p \in mem'
  <2>1. m \in SUBSET mem /\ mem \subseteq PieceSet
    BY <1>1 DEF IInv, Types
  <2>2. \E q \in m : SameBits(p, q)
    BY <1>1, <1>2, <2>1, MovedPiece DEF SameBits
  <2> QED
    BY <1>1, <2>2 DEF Ahead
<1>3. CASE p \in OnAir'
  BY <1>1, <1>3 DEF Ahead, SameBits
<1> QED
  BY <1>2, <1>3 DEF Ahead

\* What is written: no more than is left of the TB, in whole bytes.
LEMMA WholeWritten ==
  ASSUME IInv, Bytewise, Write
  PROVE  /\ tb.sent \in Nat /\ tb.sent % 8 = 0
         /\ tb'.sent = tb'.size \/ tb'.sent % 8 = 0
<1>1. InOutput /\ tb'.size = tb.size /\ tb'.sent = tb.sent + OutBits
  BY WriteFact
<1>2. tb.sent \in Nat /\ tb.size \in Nat /\ tb.sent % 8 = 0
  BY <1>1 DEF InOutput, Bytewise, IInv, Types, TypeOK
<1>3. OutBytes \in Nat
  BY <1>1, OutFact
<1>4. OutBits = 8 * OutBytes \/ OutBits = tb.size - tb.sent
  BY DEF OutBits, Smaller
<1> QED
  BY <1>1, <1>2, <1>3, <1>4

LEMMA NextBytewise ==
  ASSUME IInv, Sending, Bytewise, [Next]_vars
  PROVE  Bytewise'
<1>a. header'.cnst \in Asked /\ current'.cnst \in Asked
  BY NextAsked DEF Bytewise
<1>1. CASE EncodeTb
  <2>1. Ahead' = Ahead
    BY <1>1, NewTbFact DEF Ahead, OnAir, Sent
  <2> QED
    BY <1>a, <1>1, <2>1, NewTbFact DEF Bytewise
<1>2. CASE LoadsFrame
  <2>1. UNCHANGED tb /\ Ahead' \subseteq Ahead
    BY <1>2 DEF LoadsFrame, Ahead, OnAir, Sent
  <2> QED
    BY <1>a, <2>1 DEF Bytewise, TbReady
<1>3. CASE SendsFrame
  <2>1. UNCHANGED tb
    BY <1>3 DEF SendsFrame
  <2>2. \A p \in Ahead' : PieceWhole(p)
    BY <1>3, SentPieces DEF Bytewise, PieceWhole, End, SameBits
  <2> QED
    BY <1>a, <2>1, <2>2 DEF Bytewise, TbReady
<1>4. CASE FillFrame \/ LeaveRoom
  <2> DEFINE q == Piece(call.at, OutBits)
  <2>1. Write
    BY <1>4 DEF FillFrame, LeaveRoom
  <2>2. air' = air /\ tb'.size = tb.size /\ tb'.sent = tb.sent + OutBits
    BY <2>1, WriteFact
  <2>3. ASSUME OutBits > 0
        PROVE  PieceWhole(q)
    <3>1. q.tb.size = tb.size /\ q.from = tb.sent /\ End(q) = tb'.sent
      BY <2>1, <2>2, <2>3, NewPiece DEF End
    <3> HIDE DEF q
    <3> QED
      BY <2>1, <2>2, <3>1, WholeWritten DEF PieceWhole, Bytewise
  <2>4. \A p \in Ahead' : p \in Ahead \/ (p = q /\ OutBits > 0)
    BY <2>1, <2>2, WrittenPiece DEF Ahead, OnAir, Sent
  <2>5. \A p \in Ahead' : PieceWhole(p)
    BY <2>3, <2>4 DEF Bytewise
  <2> QED
    BY <1>a, <2>1, <2>2, <2>5, WholeWritten DEF Bytewise, TbReady
<1> QED
  BY <1>1, <1>2, <1>3, <1>4, FramerSteps

LEMMA BytewiseInvariance == LinkSpec => []Bytewise
<1>1. Init => Bytewise
  <2>1. Holds(0)
    BY CapacityFact DEF Holds, BitsToBytes
  <2> QED
    BY <2>1 DEF Init, Bytewise, TbReady, NoTb, Ahead, OnAir, Asked
<1>2. IInv /\ Sending /\ Bytewise /\ [Next]_vars => Bytewise'
  BY NextBytewise
<1> QED
  BY <1>1, <1>2, FramerFact, LinkInvariance, SendingInvariance, PTL
     DEF LinkSpec

-----------------------------------------------------------------------------
(* Which TBs a frame is about                                              *)

\* Piece p of the frame that begins at base: the end of a TB in the first
\* bytes, or a part of TB n, whose number the frame has, in the others.  The
\* end may be of TB n itself if there are no other bytes.
Fits(p, base, cnst, offset, payload, n) ==
  \/ /\ p.at = base
     /\ offset > 0 /\ BitsToBytes(p.bits) = offset
     /\ End(p) = p.tb.size
     /\ p.tb.no = n - 1 \/ (p.tb.no = n /\ payload = offset)
  \/ /\ p.at = base + BytesToSyms(offset, cnst)
     /\ payload > offset /\ BitsToBytes(p.bits) = payload - offset
     /\ p.tb.no = n

\* The pieces m of a frame at base are what its header says.
Numbered(t, m, base, last) ==
  \E n \in 0 .. last :
    /\ t.no = n % TbMod
    /\ \A p \in m : (base <= p.at /\ p.at < base + Capacity) =>
         Fits(p, base, t.cnst, t.offset, t.payload, n)

LoadedNumbered ==
  \A i \in 1 .. Len(loaded) :
    Numbered(loaded[i], mem, (i - 1) * Capacity, tb.no)

AirNumbered ==
  air # <<>> => /\ Numbered(Sent.tags, Sent.pieces, 0, tb.no)
                /\ \A p \in Sent.pieces : p.at < Capacity

\* The frame under construction is about the current TB; only while that one
\* is output does it hold the end of another.
Building ==
  \A p \in mem : p.at >= Len(loaded) * Capacity =>
    /\ Fits(p, Len(loaded) * Capacity, current.cnst, frame.offset,
            frame.payload, tb.no)
    /\ (~Closing /\ ~InOutput) => p.tb.no = tb.no

Numbering == LoadedNumbered /\ AirNumbered /\ Building

LEMMA FitsMoved ==
  ASSUME NEW p \in PieceSet, NEW q \in PieceSet, NEW base \in Nat,
         NEW cnst \in Constellations, NEW offset \in Nat, NEW payload, NEW n,
         p.at = q.at - Capacity, p.tb = q.tb, p.from = q.from,
         p.bits = q.bits, Fits(q, base, cnst, offset, payload, n)
  PROVE  Fits(p, base - Capacity, cnst, offset, payload, n)
<1>1. BytesToSyms(offset, cnst) \in Nat /\ Capacity \in Nat
  BY SymsFact, SizesAssumption
<1>2. /\ q.at = base => p.at = base - Capacity
      /\ q.at = base + BytesToSyms(offset, cnst)
           => p.at = base - Capacity + BytesToSyms(offset, cnst)
  BY <1>1
<1>3. End(p) = End(q)
  BY DEF End
<1> QED
  BY <1>2, <1>3 DEF Fits

\* More TBs, fewer pieces.
LEMMA NumberedStill ==
  ASSUME NEW t, NEW m, NEW k, k \subseteq m, NEW base, NEW last \in Nat,
         NEW later \in Nat, last <= later, Numbered(t, m, base, last)
  PROVE  Numbered(t, k, base, later)
<1>1. PICK n \in 0 .. last :
             /\ t.no = n % TbMod
             /\ \A p \in m : (base <= p.at /\ p.at < base + Capacity) =>
                  Fits(p, base, t.cnst, t.offset, t.payload, n)
  BY DEF Numbered
<1>2. n \in 0 .. later
  OBVIOUS
<1> QED
  BY <1>1, <1>2 DEF Numbered

\* Where the frame under construction begins, and that the buffer ends in it.
LEMMA BaseFact ==
  ASSUME IInv, Layout
  PROVE  /\ Len(loaded) \in Nat /\ Capacity \in Nat \ {0}
         /\ Len(loaded) * Capacity \in Nat
         /\ (Len(loaded) + 1) * Capacity = Len(loaded) * Capacity + Capacity
         /\ frame.used \in 0 .. Capacity
         /\ \A p \in mem : /\ p \in PieceSet /\ p.at \in Nat
                           /\ p.at < Len(loaded) * Capacity + Capacity
<1> DEFINE base == Len(loaded) * Capacity
<1>1. /\ Len(loaded) \in Nat /\ Capacity \in Nat \ {0}
      /\ frame.used \in 0 .. Capacity /\ mem \subseteq PieceSet
  BY SizesAssumption DEF IInv, Types, TypeOK
<1>2. base \in Nat /\ (Len(loaded) + 1) * Capacity = base + Capacity
  BY <1>1
<1>3. Front = base + Capacity \/ Front = base + frame.used
  BY <1>2 DEF Front
<1> HIDE DEF base
<1>4. ASSUME NEW p \in mem
      PROVE  p \in PieceSet /\ p.at \in Nat /\ p.at < base + Capacity
  <2>1. p \in PieceSet /\ p.at \in Nat
    BY <1>1 DEF PieceSet
  <2>2. PieceEnd(p) \in Nat /\ p.at < PieceEnd(p) /\ PieceEnd(p) <= Front
    BY <2>1, PieceEndFact DEF Layout
  <2> QED
    BY <1>1, <1>2, <1>3, <2>1, <2>2
<1> QED
  BY <1>1, <1>2, <1>4 DEF base

\* The first frame of the buffer goes.
LEMMA ProduceNumbering ==
  ASSUME IInv, Layout, Numbering, loaded # <<>>,
         Produce(Head(loaded), mem), loaded' = Tail(loaded),
         UNCHANGED <<tb, frame, current, action, usedFrames>>
  PROVE  Numbering'
<1> DEFINE t == loaded[1]
           f == [tags |-> t, pieces |-> {p \in mem : p.at < Capacity}]
<1>1. /\ loaded \in Seq(TagSet) /\ Len(loaded) \in Nat \ {0}
      /\ Len(loaded') = Len(loaded) - 1
      /\ \A i \in 1 .. Len(loaded') : /\ loaded'[i] = loaded[i + 1]
                                      /\ i + 1 \in 1 .. Len(loaded)
      /\ Head(loaded) = t /\ 1 \in 1 .. Len(loaded)
  BY DEF IInv, Types
<1>2. Capacity \in Nat /\ mem \subseteq PieceSet /\ tb.no \in Nat
  BY SizesAssumption DEF IInv, Types, TypeOK
<1>3. ASSUME NEW p \in mem'
      PROVE  \E q \in mem : /\ q.at \in Nat /\ q.at >= Capacity
                            /\ p.at = q.at - Capacity
                            /\ p.tb = q.tb /\ p.from = q.from
                            /\ p.bits = q.bits
                            /\ p \in PieceSet /\ q \in PieceSet
  <2>1. \E q \in mem : /\ q.at >= Capacity /\ p.at = q.at - Capacity
                       /\ p.tb = q.tb /\ p.from = q.from /\ p.bits = q.bits
                       /\ p \in PieceSet
    BY <1>1, <1>2, <1>3, MovedPiece
  <2>2. \A q \in mem : q \in PieceSet /\ q.at \in Nat
    BY <1>2 DEF PieceSet
  <2> QED
    BY <2>1, <2>2
<1>4. AirNumbered'
  <2>1. air' = <<f>>
    BY <1>1 DEF Produce
  <2>2. Sent' = f /\ f.tags = t /\ f.pieces \subseteq mem
        /\ \A p \in f.pieces : p.at < Capacity
    BY <2>1 DEF Sent
  <2>3. Numbered(t, mem, (1 - 1) * Capacity, tb.no)
    BY <1>1 DEF Numbering, LoadedNumbered
  <2>4. (1 - 1) * Capacity = 0
    BY <1>2
  <2>5. Numbered(t, mem, 0, tb.no)
    BY <2>3, <2>4, Zenon
  <2> HIDE DEF f, t
  <2>6. Numbered(t, f.pieces, 0, tb.no)
    BY <1>2, <2>2, <2>5, NumberedStill
  <2> QED
    BY <2>2, <2>6 DEF AirNumbered
<1>5. ASSUME NEW i \in 1 .. Len(loaded')
      PROVE  Numbered(loaded'[i], mem', (i - 1) * Capacity, tb.no)
  <2> DEFINE tt == loaded[i + 1]
             base == (i + 1 - 1) * Capacity
  <2>1. base \in Nat /\ base - Capacity = (i - 1) * Capacity
        /\ (i - 1) * Capacity + Capacity = base
    <3>1. i \in Nat /\ i - 1 \in Nat /\ i + 1 - 1 = (i - 1) + 1
      BY <1>1
    <3>2. (i - 1) * Capacity \in Nat
      BY <1>2, <3>1
    <3>3. base = (i - 1) * Capacity + Capacity
      BY <1>2, <3>1
    <3> QED
      BY <1>2, <3>2, <3>3
  <2>2. Numbered(tt, mem, base, tb.no)
    BY <1>1 DEF Numbering, LoadedNumbered
  <2>3. tt.cnst \in Constellations /\ tt.offset \in Nat
    <3>1. tt \in TagSet
      BY <1>1
    <3> QED
      BY <3>1 DEF TagSet
  <2> HIDE DEF tt, base
  <2>4. PICK n \in 0 .. tb.no :
               /\ tt.no = n % TbMod
               /\ \A p \in mem : (base <= p.at /\ p.at < base + Capacity) =>
                    Fits(p, base, tt.cnst, tt.offset, tt.payload, n)
    BY <2>2 DEF Numbered
  <2>5. ASSUME NEW p \in mem', base - Capacity <= p.at,
               p.at < base - Capacity + Capacity
        PROVE  Fits(p, base - Capacity, tt.cnst, tt.offset, tt.payload, n)
    <3>1. PICK q \in mem : /\ q.at \in Nat /\ q.at >= Capacity
                           /\ p.at = q.at - Capacity
                           /\ p.tb = q.tb /\ p.from = q.from
                           /\ p.bits = q.bits
                           /\ p \in PieceSet /\ q \in PieceSet
      BY <1>3
    <3>2. base <= q.at /\ q.at < base + Capacity
      BY <1>2, <2>1, <2>5, <3>1
    <3>3. Fits(q, base, tt.cnst, tt.offset, tt.payload, n)
      BY <2>4, <3>2
    <3> QED
      BY <2>1, <2>3, <3>1, <3>3, FitsMoved
  <2>6. Numbered(tt, mem', base - Capacity, tb.no)
    BY <2>4, <2>5 DEF Numbered
  <2>7. loaded'[i] = tt
    BY <1>1 DEF tt
  <2> QED
    BY <2>1, <2>6, <2>7, Zenon
<1>6. LoadedNumbered'
  BY <1>5 DEF LoadedNumbered
<1>7. Building'
  <2> DEFINE base == Len(loaded) * Capacity
  <2>1. base \in Nat /\ Len(loaded') * Capacity = base - Capacity
    <3>1. Len(loaded) = Len(loaded') + 1 /\ Len(loaded') \in Nat
      BY <1>1
    <3>2. Len(loaded') * Capacity \in Nat
          /\ base = Len(loaded') * Capacity + Capacity
      BY <1>2, <3>1
    <3> QED
      BY <1>2, <3>2
  <2>2. (Closing' <=> Closing) /\ (InOutput' <=> InOutput)
    BY DEF Closing, InOutput, TbReady
  <2>3. current.cnst \in Constellations /\ frame.offset \in Nat
    BY DEF IInv, Types, TypeOK
  <2>4. \A p \in mem : p.at >= base =>
          /\ Fits(p, base, current.cnst, frame.offset, frame.payload, tb.no)
          /\ (~Closing /\ ~InOutput) => p.tb.no = tb.no
    BY DEF Numbering, Building
  <2> HIDE DEF base
  <2>5. ASSUME NEW p \in mem', p.at >= base - Capacity
        PROVE  /\ Fits(p, base - Capacity, current.cnst, frame.offset,
                       frame.payload, tb.no)
               /\ (~Closing /\ ~InOutput) => p.tb.no = tb.no
    <3>1. PICK q \in mem : /\ q.at \in Nat /\ q.at >= Capacity
                           /\ p.at = q.at - Capacity
                           /\ p.tb = q.tb /\ p.from = q.from
                           /\ p.bits = q.bits
                           /\ p \in PieceSet /\ q \in PieceSet
      BY <1>3
    <3>2. q.at >= base
      BY <1>2, <2>1, <2>5, <3>1
    <3>3. /\ Fits(q, base, current.cnst, frame.offset, frame.payload, tb.no)
          /\ (~Closing /\ ~InOutput) => q.tb.no = tb.no
      BY <2>4, <3>2
    <3>4. Fits(p, base - Capacity, current.cnst, frame.offset, frame.payload,
               tb.no)
      BY <2>1, <2>3, <3>1, <3>3, FitsMoved
    <3> QED
      BY <3>1, <3>3, <3>4
  <2> QED
    BY <2>1, <2>2, <2>5 DEF Building
<1> QED
  BY <1>4, <1>6, <1>7 DEF Numbering

\* Steps that leave the frames alone.
LEMMA QuietNumbering ==
  ASSUME IInv, Numbering, UNCHANGED <<tb, loaded, mem, frame, current>>,
         air' = air \/ air' = <<>>,
         (~Closing /\ ~InOutput)' => (~Closing /\ ~InOutput)
  PROVE  Numbering'
<1>1. LoadedNumbered'
  BY DEF Numbering, LoadedNumbered
<1>2. AirNumbered'
  BY DEF Numbering, AirNumbered, Sent
<1>3. Building'
  BY DEF Numbering, Building
<1> QED
  BY <1>1, <1>2, <1>3 DEF Numbering

\* Without input nothing is in the buffer.
LEMMA NothingBuilt ==
  ASSUME IInv, Layout, NoInput
  PROVE  mem = {}
<1>1. frame.offset = 0 /\ pc = "idle" /\ loaded = <<>>
  BY NoInputFact DEF NoInput
<1>2. ~Closing /\ frame.used = 0 /\ Len(loaded) = 0
  BY <1>1 DEF IInv, Turns, PartialFrame, Closing, InOutput
<1>3. Front = 0
  <2>1. 0 * Capacity + 0 = 0
    BY SizesAssumption
  <2> QED
    BY <1>2, <2>1 DEF Front
<1>4. ASSUME NEW p \in mem
      PROVE  FALSE
  <2>1. PieceEnd(p) \in Nat /\ PieceEnd(p) > p.at /\ p.at \in Nat
    BY PieceEndFact DEF IInv, Types, PieceSet
  <2>2. PieceEnd(p) <= 0
    BY <1>3 DEF Layout
  <2> QED
    BY <2>1, <2>2
<1> QED
  BY <1>4

LEMMA EmptyFrameNumbering ==
  ASSUME IInv, Layout, EmptyFrame
  PROVE  Numbering'
<1> DEFINE t == Tags(current, BitsToBytes(frame.offset * current.cnst))
           f == [tags |-> t, pieces |-> {}]
<1>1. /\ loaded = <<>> /\ UNCHANGED <<loaded, tb>> /\ mem = {}
      /\ Produce(t, Cleared(0))
  BY NothingBuilt DEF EmptyFrame, NoInput, buildVars
<1>2. mem' = {} /\ air' = <<f>>
  BY <1>1 DEF Produce, Cleared
<1>3. Sent' = f /\ f.tags.no = tb.no % TbMod /\ f.pieces = {}
  BY <1>2 DEF Sent, Tags
<1> HIDE DEF f
<1>4. tb.no \in 0 .. tb.no
  BY DEF IInv, Types, TypeOK
<1>5. Numbered(f.tags, {}, 0, tb.no)
  BY <1>3, <1>4 DEF Numbered
<1>6. AirNumbered'
  BY <1>1, <1>3, <1>5 DEF AirNumbered
<1>7. LoadedNumbered' /\ Building'
  BY <1>1, <1>2 DEF LoadedNumbered, Building
<1> QED
  BY <1>6, <1>7 DEF Numbering

\* In a frame that has begun, and is not closing, is the end of a TB only.
LEMMA BegunFact ==
  ASSUME IInv, Numbering, ~Closing, NEW p \in mem,
         p.at >= Len(loaded) * Capacity
  PROVE  /\ frame.offset > 0 /\ frame.payload = frame.offset
         /\ p.at = Len(loaded) * Capacity
         /\ BitsToBytes(p.bits) = frame.offset /\ End(p) = p.tb.size
         /\ p.tb.no = tb.no - 1 \/ p.tb.no = tb.no
         /\ ~InOutput => p.tb.no = tb.no
<1>1. /\ frame.offset \in Nat /\ frame.payload \in Nat
      /\ frame.payload = frame.offset
  BY DEF IInv, Types, TypeOK, PartialFrame
<1>2. /\ Fits(p, Len(loaded) * Capacity, current.cnst, frame.offset,
              frame.payload, tb.no)
      /\ ~InOutput => p.tb.no = tb.no
  BY DEF Numbering, Building
<1> QED
  BY <1>1, <1>2 DEF Fits

LEMMA EncodeTbNumbering ==
  ASSUME IInv, Layout, Numbering, EncodeTb
  PROVE  Numbering'
<1>1. /\ UNCHANGED <<loaded, mem, air, frame>> /\ tb'.no = tb.no + 1
      /\ tb'.sent = 0 /\ tb'.size > 0 /\ tb.no \in Nat /\ tb'.no \in Nat
  BY NewTbFact DEF EncodeTb, IInv, Types, TypeOK
<1>2. action = "input" /\ action' = "output" /\ current' = header
      /\ (frame.offset > 0 => header.cnst = current.cnst)
  BY DEF EncodeTb, Processing, MustFlush
<1>3. ~Closing /\ ~InOutput /\ InOutput'
  BY <1>1, <1>2 DEF Closing, InOutput, TbReady
<1>4. LoadedNumbered'
  <2>1. ASSUME NEW i \in 1 .. Len(loaded)
        PROVE  Numbered(loaded[i], mem, (i - 1) * Capacity, tb'.no)
    <3>1. Numbered(loaded[i], mem, (i - 1) * Capacity, tb.no)
      BY DEF Numbering, LoadedNumbered
    <3>2. (i - 1) * Capacity \in Nat
      <4>1. i - 1 \in Nat /\ Capacity \in Nat
        BY SizesAssumption
      <4> QED
        BY <4>1
    <3> QED
      BY <1>1, <3>1, <3>2, NumberedStill
  <2> QED
    BY <1>1, <2>1 DEF LoadedNumbered
<1>5. AirNumbered'
  <2>1. ASSUME air # <<>>
        PROVE  /\ Numbered(Sent.tags, Sent.pieces, 0, tb'.no)
               /\ \A p \in Sent.pieces : p.at < Capacity
    <3>1. /\ Numbered(Sent.tags, Sent.pieces, 0, tb.no)
          /\ \A p \in Sent.pieces : p.at < Capacity
      BY <2>1 DEF Numbering, AirNumbered
    <3> QED
      BY <1>1, <3>1, NumberedStill
  <2> QED
    BY <1>1, <2>1 DEF AirNumbered, Sent
<1>6. ASSUME NEW p \in mem, p.at >= Len(loaded) * Capacity
      PROVE  Fits(p, Len(loaded) * Capacity, header.cnst, frame.offset,
                  frame.payload, tb'.no)
  <2>1. /\ frame.offset > 0 /\ frame.payload = frame.offset
        /\ p.at = Len(loaded) * Capacity
        /\ BitsToBytes(p.bits) = frame.offset /\ End(p) = p.tb.size
        /\ p.tb.no = tb.no
    BY <1>3, <1>6, BegunFact
  <2>2. tb.no = tb'.no - 1
    BY <1>1
  <2> QED
    BY <2>1, <2>2 DEF Fits
<1>7. Building'
  BY <1>1, <1>2, <1>3, <1>6 DEF Building
<1> QED
  BY <1>4, <1>5, <1>7 DEF Numbering

\* What is written after the loaded frames is not in them.
LEMMA LoadedStill ==
  ASSUME IInv, Layout, Numbering,
         \A p \in mem' : \/ p \in mem
                         \/ p.at >= Len(loaded) * Capacity /\ p.at \in Nat,
         NEW i \in 1 .. Len(loaded)
  PROVE  Numbered(loaded[i], mem', (i - 1) * Capacity, tb.no)
<1> DEFINE base == Len(loaded) * Capacity
           b == (i - 1) * Capacity
           t == loaded[i]
<1>1. b \in Nat /\ b + Capacity <= base /\ base \in Nat /\ Capacity \in Nat
  <2>1. /\ i - 1 \in Nat /\ i \in Nat /\ i <= Len(loaded)
        /\ Len(loaded) \in Nat /\ Capacity \in Nat /\ base \in Nat
    BY BaseFact
  <2>2. b \in Nat /\ b + Capacity = i * Capacity
    BY <2>1
  <2>3. i * Capacity <= Len(loaded) * Capacity
    <3>1. \A a, c, d \in Nat : a <= c => a * d <= c * d
      OBVIOUS
    <3> QED
      BY <2>1, <3>1
  <2> QED
    BY <2>1, <2>2, <2>3
<1>2. Numbered(t, mem, b, tb.no)
  BY DEF Numbering, LoadedNumbered
<1> HIDE DEF t, b
<1>3. PICK n \in 0 .. tb.no :
             /\ t.no = n % TbMod
             /\ \A p \in mem : (b <= p.at /\ p.at < b + Capacity) =>
                  Fits(p, b, t.cnst, t.offset, t.payload, n)
  BY <1>2 DEF Numbered
<1>4. ASSUME NEW p \in mem', b <= p.at, p.at < b + Capacity
      PROVE  p \in mem
  <2>1. p \in mem \/ (p.at >= base /\ p.at \in Nat)
    BY <1>4
  <2> HIDE DEF base
  <2> QED
    BY <1>1, <1>4, <2>1
<1>5. Numbered(t, mem', b, tb.no)
  BY <1>3, <1>4 DEF Numbered
<1> QED
  BY <1>5 DEF t, b

\* A frame joins the loaded ones, with pieces that are all in it.
LEMMA AppendNumbering ==
  ASSUME IInv, Layout, Numbering, NEW tags, tb'.no = tb.no,
         loaded' = Append(loaded, tags), air' = air,
         \A p \in mem' : \/ p \in mem
                         \/ p.at >= Len(loaded) * Capacity /\ p.at \in Nat,
         \A p \in mem' : p.at < Len(loaded) * Capacity + Capacity,
         tags.no = tb.no % TbMod,
         \A p \in mem' : p.at >= Len(loaded) * Capacity =>
           Fits(p, Len(loaded) * Capacity, tags.cnst, tags.offset,
                tags.payload, tb.no)
  PROVE  Numbering'
<1> DEFINE base == Len(loaded) * Capacity
<1>1. /\ loaded \in Seq(TagSet) /\ Len(loaded) \in Nat
      /\ Len(loaded') = Len(loaded) + 1
      /\ \A i \in 1 .. Len(loaded) : loaded'[i] = loaded[i]
      /\ loaded'[Len(loaded) + 1] = tags
  BY DEF IInv, Types
<1>2. /\ base \in Nat /\ Capacity \in Nat \ {0}
      /\ (Len(loaded) + 1) * Capacity = base + Capacity
      /\ \A p \in mem : p.at \in Nat
  BY BaseFact
<1>3. tb.no \in Nat
  BY DEF IInv, Types, TypeOK
<1>4. ASSUME NEW i \in 1 .. Len(loaded)
      PROVE  Numbered(loaded[i], mem', (i - 1) * Capacity, tb.no)
  BY LoadedStill
<1>5. Numbered(tags, mem', base, tb.no)
  <2>1. tb.no \in 0 .. tb.no
    BY <1>3
  <2>2. \A p \in mem' : (base <= p.at /\ p.at < base + Capacity) =>
          Fits(p, base, tags.cnst, tags.offset, tags.payload, tb.no)
    <3>1. \A p \in mem' : p.at \in Nat
      BY <1>2
    <3> QED
      BY <1>2, <3>1
  <2> QED
    BY <2>1, <2>2 DEF Numbered
<1>6. LoadedNumbered'
  <2>1. ASSUME NEW i \in 1 .. Len(loaded')
        PROVE  Numbered(loaded'[i], mem', (i - 1) * Capacity, tb.no)
    <3>1. i \in 1 .. Len(loaded) \/ i = Len(loaded) + 1
      BY <1>1
    <3>2. CASE i \in 1 .. Len(loaded)
      BY <1>1, <1>4, <3>2
    <3>3. CASE i = Len(loaded) + 1
      <4>1. i - 1 = Len(loaded) /\ loaded'[i] = tags
        BY <1>1, <3>3
      <4> QED
        BY <1>5, <4>1, Zenon
    <3> QED
      BY <3>1, <3>2, <3>3
  <2> QED
    BY <2>1 DEF LoadedNumbered
<1>7. AirNumbered'
  BY DEF Numbering, AirNumbered, Sent
<1>8. Building'
  <2>1. Len(loaded') * Capacity = base + Capacity
    BY <1>1, <1>2
  <2> HIDE DEF base
  <2>2. \A p \in mem' : p.at \in Nat /\ p.at < base + Capacity
    BY <1>2 DEF base
  <2>3. \A p \in mem' : ~(p.at >= base + Capacity)
    BY <1>2, <2>2
  <2> QED
    BY <2>1, <2>3 DEF Building
<1> QED
  BY <1>6, <1>7, <1>8 DEF Numbering

\* What a write adds: the current TB goes where the frame under construction
\* has room, after the end of the TB before it, if there is one.
LEMMA WrittenNumbers ==
  ASSUME IInv, Layout, Sending, Numbering, Write, NEW p \in mem',
         p.at >= Len(loaded) * Capacity
  PROVE  /\ p.at \in Nat /\ p.at < Len(loaded) * Capacity + Capacity
         /\ \/ /\ p \in mem
               /\ frame.offset > 0 /\ p.at = Len(loaded) * Capacity
               /\ BitsToBytes(p.bits) = frame.offset /\ End(p) = p.tb.size
               /\ p.tb.no = tb.no - 1
            \/ /\ p = Piece(call.at, OutBits) /\ OutBytes > 0
               /\ p.at = Len(loaded) * Capacity
                           + BytesToSyms(frame.offset, current.cnst)
               /\ BitsToBytes(p.bits) = OutBytes
               /\ p.tb.no = tb.no /\ p.tb.size = tb.size
               /\ End(p) = tb.sent + OutBits
<1> DEFINE base == Len(loaded) * Capacity
<1>1. /\ InOutput /\ ~Closing /\ OutBits \in Nat /\ OutBytes \in Nat
      /\ (OutBits = 0 <=> OutBytes = 0) /\ BitsToBytes(OutBits) = OutBytes
  BY WriteFact, OutFact
<1>2. CASE p \in mem
  <2>1. /\ frame.offset > 0 /\ p.at = base
        /\ BitsToBytes(p.bits) = frame.offset /\ End(p) = p.tb.size
        /\ p.tb.no = tb.no - 1 \/ p.tb.no = tb.no
    BY <1>1, <1>2, BegunFact
  <2>2. p.tb.no # tb.no
    <3>1. SUFFICES ASSUME p.tb.no = tb.no PROVE FALSE
      OBVIOUS
    <3>2. p.tb = ThisTb /\ End(p) <= tb.sent
      BY <1>2, <3>1 DEF Sending, Ahead, PieceOK
    <3>3. /\ tb.size \in Nat /\ tb.sent \in 0 .. tb.size /\ tb.sent # tb.size
          /\ ThisTb.size = tb.size
      BY <1>1 DEF InOutput, TbReady, IInv, Types, TypeOK, TbSet, ThisTb
    <3> QED
      BY <2>1, <3>2, <3>3
  <2>3. p.at \in Nat /\ p.at < base + Capacity
    BY <1>2, BaseFact
  <2> QED
    BY <1>2, <2>1, <2>2, <2>3
<1>3. CASE p = Piece(call.at, OutBits) /\ OutBits > 0
  <2>1. /\ p \in PieceSet /\ p.at = call.at /\ p.tb.no = tb.no
        /\ p.tb.size = tb.size /\ p.from = tb.sent /\ p.bits = OutBits
    BY <1>3, NewPiece
  <2>2. /\ call.at = base + frame.used
        /\ PieceEnd(p) <= base + Capacity
        /\ frame.used = BytesToSyms(frame.offset, current.cnst)
    BY <1>3, WrittenFact, FilledFact
  <2>3. p.at < base + Capacity /\ p.at \in Nat
    <3>1. PieceEnd(p) \in Nat /\ p.at < PieceEnd(p) /\ p.at \in Nat
      BY <2>1, PieceEndFact DEF PieceSet
    <3>2. base \in Nat /\ Capacity \in Nat
      BY BaseFact
    <3> HIDE DEF base
    <3> QED
      BY <2>2, <3>1, <3>2
  <2> QED
    BY <1>1, <1>3, <2>1, <2>2, <2>3 DEF End
<1> QED
  BY <1>2, <1>3, WrittenPiece

LEMMA FillFrameNumbering ==
  ASSUME IInv, Layout, Sending, Numbering, FillFrame
  PROVE  Numbering'
<1> DEFINE base == Len(loaded) * Capacity
           payload == (frame.used * current.cnst) \div 8 + OutBytes
           tags == Tags(current, payload)
<1>1. /\ Write /\ loaded' = Append(loaded, tags)
  BY DEF FillFrame
<1>2. tb'.no = tb.no /\ air' = air /\ InOutput
  BY <1>1, WriteFact
<1>3. payload = frame.offset + OutBytes
  BY <1>1, FilledFact
<1>4. /\ tags.cnst = current.cnst /\ tags.offset = frame.offset
      /\ tags.payload = payload /\ tags.no = tb.no % TbMod
  BY DEF Tags
<1> HIDE DEF tags, payload
<1>5. OutBytes \in Nat /\ frame.offset \in Nat
  BY <1>2, OutFact DEF IInv, Types, TypeOK
<1>6. ASSUME NEW p \in mem', p.at >= base
      PROVE  /\ p.at \in Nat /\ p.at < base + Capacity
             /\ Fits(p, base, tags.cnst, tags.offset, tags.payload, tb.no)
  <2>1. \/ /\ frame.offset > 0 /\ p.at = base
           /\ BitsToBytes(p.bits) = frame.offset /\ End(p) = p.tb.size
           /\ p.tb.no = tb.no - 1
        \/ /\ OutBytes > 0
           /\ p.at = base + BytesToSyms(frame.offset, current.cnst)
           /\ BitsToBytes(p.bits) = OutBytes
           /\ p.tb.no = tb.no
    BY <1>1, <1>6, WrittenNumbers
  <2>2. OutBytes > 0 => payload > frame.offset
                        /\ payload - frame.offset = OutBytes
    BY <1>3, <1>5
  <2>3. Fits(p, base, current.cnst, frame.offset, payload, tb.no)
    BY <2>1, <2>2 DEF Fits
  <2> QED
    BY <1>1, <1>4, <1>6, <2>3, WrittenNumbers
<1>7. ASSUME NEW p \in mem'
      PROVE  /\ p \in mem \/ (p.at >= base /\ p.at \in Nat)
             /\ p.at < base + Capacity
  <2>1. CASE p \in mem
    BY <2>1, BaseFact
  <2>2. CASE p = Piece(call.at, OutBits) /\ OutBits > 0
    <3>1. p.at = call.at /\ call.at = base + frame.used
      BY <1>1, <2>2, NewPiece, WrittenFact
    <3>2. p.at >= base
      <4>1. base \in Nat /\ frame.used \in Nat
        BY BaseFact
      <4> HIDE DEF base
      <4> QED
        BY <3>1, <4>1
    <3> QED
      BY <1>6, <3>2
  <2> QED
    BY <1>1, <2>1, <2>2, WrittenPiece
<1> QED
  BY <1>1, <1>2, <1>4, <1>6, <1>7, AppendNumbering

LEMMA LeaveRoomNumbering ==
  ASSUME IInv, Layout, Sending, Numbering, LeaveRoom
  PROVE  Numbering'
<1> DEFINE base == Len(loaded) * Capacity
           first == frame.offset = 0
<1>1. /\ Write /\ loaded' = loaded /\ OutBytes < Available
      /\ frame'.offset = (IF first THEN OutBytes ELSE frame.offset)
      /\ frame'.payload = frame.payload + OutBytes
  BY DEF LeaveRoom
<1>2. /\ tb'.no = tb.no /\ tb'.size = tb.size /\ air' = air /\ InOutput
      /\ current' = current /\ tb'.sent = tb.sent + OutBits
      /\ usedFrames' = usedFrames + 1 /\ action' = action
  BY <1>1, WriteFact
<1>3. /\ OutBytes \in Nat \ {0} /\ OutBits = tb.size - tb.sent
      /\ frame.offset \in Nat /\ frame.payload = frame.offset
      /\ tb.no \in Nat /\ tb.size \in Nat /\ tb.sent \in Nat
  BY <1>1, <1>2, OutFact, FilledFact DEF IInv, Types, TypeOK
<1>4. ~first => Closing'
  <2>1. ~first => usedFrames = 0
    BY <1>2, <1>3 DEF IInv, Turns
  <2>2. TbReady' /\ action' = "output"
    BY <1>2, <1>3 DEF TbReady, InOutput
  <2> QED
    BY <1>2, <2>1, <2>2 DEF Closing
<1>5. ASSUME NEW p \in mem', p.at >= base
      PROVE  /\ Fits(p, base, current.cnst, frame'.offset, frame'.payload,
                     tb.no)
             /\ first => p.tb.no = tb.no
  <2>1. \/ /\ frame.offset > 0 /\ p.at = base
           /\ BitsToBytes(p.bits) = frame.offset /\ End(p) = p.tb.size
           /\ p.tb.no = tb.no - 1
        \/ /\ p.at = base + BytesToSyms(frame.offset, current.cnst)
           /\ BitsToBytes(p.bits) = OutBytes
           /\ p.tb.no = tb.no /\ p.tb.size = tb.size
           /\ End(p) = tb.sent + OutBits
    BY <1>1, <1>5, WrittenNumbers
  <2>2. CASE ~first
    <3>1. /\ frame'.offset = frame.offset /\ frame'.payload > frame'.offset
          /\ frame'.payload - frame'.offset = OutBytes
      BY <1>1, <1>3, <2>2
    <3> QED
      BY <1>3, <2>1, <2>2, <3>1 DEF Fits
  <2>3. CASE first
    <3>1. frame'.offset = OutBytes /\ frame'.payload = OutBytes
      BY <1>1, <1>3, <2>3
    <3>2. p.at = base
      <4>1. BytesToSyms(0, current.cnst) = 0
        <5>1. current.cnst \in Constellations
          BY DEF IInv, Types, TypeOK
        <5>2. 8 * 0 <= 0 * current.cnst
          BY <5>1 DEF Constellations
        <5>3. BytesToSyms(0, current.cnst) \in Nat
              /\ BytesToSyms(0, current.cnst) <= 0
          BY <5>1, <5>2, SymsFact
        <5> QED
          BY <5>3
      <4>2. base + 0 = base
        BY BaseFact
      <4> QED
        BY <1>3, <2>1, <2>3, <4>1, <4>2
    <3>3. /\ p.tb.no = tb.no /\ End(p) = p.tb.size
          /\ BitsToBytes(p.bits) = OutBytes
      BY <1>3, <2>1, <2>3
    <3> QED
      BY <1>3, <3>1, <3>2, <3>3 DEF Fits
  <2> QED
    BY <2>2, <2>3
<1>6. Building'
  BY <1>1, <1>2, <1>4, <1>5 DEF Building
<1>7. ASSUME NEW p \in mem', p \notin mem
      PROVE  p.at >= base /\ p.at \in Nat
  <2>1. p = Piece(call.at, OutBits) /\ OutBits > 0
    BY <1>1, <1>7, WrittenPiece
  <2>2. p.at = call.at /\ call.at = base + frame.used
    BY <1>1, <2>1, NewPiece, WrittenFact
  <2>3. base \in Nat /\ frame.used \in Nat
    BY BaseFact
  <2> HIDE DEF base
  <2> QED
    BY <2>2, <2>3
<1>8. ASSUME NEW i \in 1 .. Len(loaded)
      PROVE  Numbered(loaded[i], mem', (i - 1) * Capacity, tb.no)
  BY <1>7, LoadedStill
<1>9. LoadedNumbered'
  BY <1>1, <1>2, <1>8 DEF LoadedNumbered
<1>10. AirNumbered'
  BY <1>2 DEF Numbering, AirNumbered, Sent
<1> QED
  BY <1>6, <1>9, <1>10 DEF Numbering

LEMMA FinalizedNumbering ==
  ASSUME IInv, Layout, Numbering, Finalize(current),
         UNCHANGED <<tb, mem, air>>
  PROVE  Numbering'
<1> DEFINE base == Len(loaded) * Capacity
           tags == Tags(current, frame.payload)
<1>1. loaded' = Append(loaded, tags)
  BY DEF Finalize
<1>2. /\ tags.cnst = current.cnst /\ tags.offset = frame.offset
      /\ tags.payload = frame.payload /\ tags.no = tb.no % TbMod
  BY DEF Tags
<1> HIDE DEF tags
<1>3. \A p \in mem' : p \in mem /\ p.at < base + Capacity
  BY BaseFact
<1>4. \A p \in mem' : p.at >= base =>
        Fits(p, base, tags.cnst, tags.offset, tags.payload, tb.no)
  BY <1>2 DEF Numbering, Building
<1> QED
  BY <1>1, <1>2, <1>3, <1>4, AppendNumbering

LEMMA OutputDoneNumbering ==
  ASSUME IInv, Layout, Numbering, OutputDone
  PROVE  Numbering'
<1>1. UNCHANGED <<tb, mem, air, current, usedFrames>>
  BY DEF OutputDone, radioVars
<1>2. CASE Finalizes
  BY <1>1, <1>2, FinalizedNumbering DEF OutputDone
<1>3. CASE ~Finalizes
  <2>1. UNCHANGED <<loaded, frame>> /\ TbReady
    BY <1>3 DEF OutputDone
  <2>2. ~Closing /\ ~InOutput
    BY <1>3, <2>1 DEF Finalizes, Closing, InOutput
  <2> QED
    BY <1>1, <2>1, <2>2, QuietNumbering
<1> QED
  BY <1>2, <1>3

LEMMA NextNumbering ==
  ASSUME IInv, Layout, Sending, Numbering, [Next]_vars
  PROVE  Numbering'
<1>1. CASE FinalizeFrame
  BY <1>1, FinalizedNumbering DEF FinalizeFrame
<1>2. CASE FlushForNewCnst
  <2>1. /\ UNCHANGED <<tb, loaded, mem, frame, current, air>>
        /\ action = "input"
    BY <1>2 DEF FlushForNewCnst, Processing, radioVars, outVars
  <2>2. ~Closing /\ ~InOutput
    BY <2>1 DEF Closing, InOutput
  <2> QED
    BY <2>1, <2>2, QuietNumbering
<1>3. CASE \/ Arrive \/ ProcessFeedbackHeader \/ PassOn \/ GiveUp
           \/ EnterLoop \/ OutputWait \/ UNCHANGED vars
  <2>1. /\ UNCHANGED <<tb, loaded, mem, frame, current, action, usedFrames>>
        /\ air' = air \/ air' = <<>>
    BY <1>3 DEF Arrive, ProcessFeedbackHeader, PassOn, GiveUp, EnterLoop,
       OutputWait, vars, radioVars, buildVars, outVars
  <2>2. (Closing' <=> Closing) /\ (InOutput' <=> InOutput)
    BY <2>1 DEF Closing, InOutput, TbReady
  <2> QED
    BY <2>1, <2>2, QuietNumbering
<1>4. CASE ProduceLoaded
  BY <1>4, ProduceNumbering DEF ProduceLoaded, radioVars, buildVars
<1>5. CASE LeaveLoop
  <2>1. UNCHANGED <<tb, frame, current, action, usedFrames>>
    BY <1>5 DEF LeaveLoop, radioVars, buildVars
  <2>2. CASE loaded = <<>>
    <3>1. UNCHANGED <<loaded, mem, air>>
      BY <1>5, <2>2 DEF LeaveLoop, outVars
    <3>2. (Closing' <=> Closing) /\ (InOutput' <=> InOutput)
      BY <2>1 DEF Closing, InOutput, TbReady
    <3> QED
      BY <2>1, <3>1, <3>2, QuietNumbering
  <2>3. CASE loaded # <<>>
    BY <1>5, <2>1, <2>3, ProduceNumbering DEF LeaveLoop
  <2> QED
    BY <2>2, <2>3
<1> QED
  BY <1>1, <1>2, <1>3, <1>4, <1>5, EmptyFrameNumbering, EncodeTbNumbering,
     NeverNoWholePdu, FillFrameNumbering, LeaveRoomNumbering,
     OutputDoneNumbering DEF Next, BeginCall, Loop

LEMMA NumberingInvariance == WholePdus => (LinkSpec => []Numbering)
<1> SUFFICES ASSUME WholePdus PROVE LinkSpec => []Numbering
  OBVIOUS
<1>1. Init => Numbering
  BY DEF Init, Numbering, LoadedNumbered, AirNumbered, Building
<1>2. IInv /\ Layout /\ Sending /\ Numbering /\ [Next]_vars => Numbering'
  BY NextNumbering
<1> QED
  BY <1>1, <1>2, FramerFact, LinkInvariance, LinkLayout, SendingInvariance,
     PTL DEF LinkSpec

-----------------------------------------------------------------------------
(* What the decoder learns from a frame                                    *)

\* A frame with the number n is about TB n and the one before it, and is the
\* last that is about any before n.  If it has bytes of TB n it has a piece
\* with those bytes.
About(n) ==
  LET t == Sent.tags
  IN  /\ t.no = n % TbMod
      /\ \A p \in OnAir : p.tb.no = n - 1 \/ p.tb.no = n
      /\ t.payload = 0 => OnAir = {}
      /\ t.payload > 0 => /\ \E p \in OnAir : TRUE
                          /\ \A q \in mem : q.tb.no >= n
      /\ (t.payload > 0 /\ \A p \in OnAir : p.tb.no >= n) =>
           \E p \in OnAir : p.tb.no = n /\ BitsToBytes(p.bits) = t.payload
      /\ t.payload > t.offset =>
           \E p \in OnAir : /\ p.tb.no = n
                            /\ BitsToBytes(p.bits) = t.payload - t.offset

\* What follows the end of a TB is another TB.
LEMMA AfterEnd ==
  ASSUME IInv, Sending, InOrder, NEW p \in OnAir, End(p) = p.tb.size,
         NEW q \in mem
  PROVE  p.tb.no < q.tb.no
<1>1. Before(p, q)
  BY DEF InOrder
<1>2. /\ PieceOK(q) /\ End(q) \in Nat /\ q.from < End(q)
      /\ End(p) \in Nat /\ q \in PieceSet
  BY AheadTypes DEF Ahead
<1>3. ASSUME p.tb = q.tb, End(p) <= q.from
      PROVE  FALSE
  <2>1. End(q) <= End(p) /\ q.from \in Nat
    BY <1>2, <1>3 DEF PieceOK, PieceSet
  <2> QED
    BY <1>2, <1>3, <2>1
<1> QED
  BY <1>1, <1>3 DEF Before

LEMMA FrameAbout ==
  ASSUME IInv, Layout, Sending, InOrder, Numbering, air # <<>>
  PROVE  \E n \in 0 .. tb.no : About(n)
<1> DEFINE t == Sent.tags
           syms == BytesToSyms(t.offset, t.cnst)
<1>1. /\ air = <<Sent>> /\ Sent \in FrameSet /\ OnAir = Sent.pieces
      /\ t \in TagSet /\ t.offset <= t.payload /\ t.offset \in Nat
      /\ t.payload \in Nat /\ t.cnst \in Constellations
  BY DEF Sending, OnAir, TagOK, TagSet
<1>2. PICK n \in 0 .. tb.no :
             /\ t.no = n % TbMod
             /\ \A p \in Sent.pieces : (0 <= p.at /\ p.at < 0 + Capacity) =>
                  Fits(p, 0, t.cnst, t.offset, t.payload, n)
  BY DEF Numbering, AirNumbered, Numbered
<1>3. \A p \in OnAir : /\ p \in PieceSet /\ p.at \in Nat /\ p.tb.no \in Nat
                       /\ PieceOK(p)
                       /\ \A q \in mem : Before(p, q) /\ q.tb.no \in Nat
  <2>1. \A p \in Ahead : p \in PieceSet /\ PieceOK(p)
    BY AheadTypes
  <2>2. \A p \in PieceSet : p.at \in Nat /\ p.tb.no \in Nat
    BY DEF PieceSet, TbSet
  <2> QED
    BY <2>1, <2>2 DEF InOrder, Ahead
<1>4. \A p \in OnAir : Fits(p, 0, t.cnst, t.offset, t.payload, n)
  <2>1. \A p \in OnAir : 0 <= p.at /\ p.at < 0 + Capacity
    <3>1. \A p \in OnAir : p.at < Capacity
      BY <1>1 DEF Numbering, AirNumbered
    <3>2. Capacity \in Nat
      BY SizesAssumption
    <3> QED
      BY <1>3, <3>1, <3>2
  <2> QED
    BY <1>1, <1>2, <2>1
<1>5. syms \in Nat /\ t.offset <= syms /\ 0 + syms = syms
  BY <1>1, SymsFact
<1>6. FrameIntact(Sent)
  <2>1. 1 \in DOMAIN air /\ air[1] = Sent
    BY <1>1
  <2> QED
    BY <2>1 DEF Layout, FramesIntact
<1> HIDE DEF syms, t
<1>7. ASSUME NEW p \in OnAir
      PROVE  p.tb.no = n - 1 \/ p.tb.no = n
  BY <1>4 DEF Fits
<1>8. ASSUME t.payload = 0
      PROVE  OnAir = {}
  <2>1. ~(t.offset > 0) /\ ~(t.payload > t.offset)
    BY <1>1, <1>8
  <2> QED
    BY <1>4, <2>1 DEF Fits
<1>9. ASSUME t.offset > 0
      PROVE  \E p \in OnAir : /\ BitsToBytes(p.bits) = t.offset
                              /\ End(p) = p.tb.size
                              /\ p.tb.no = n - 1 \/ (p.tb.no = n
                                                  /\ t.payload = t.offset)
  <2>1. PICK p \in OnAir : p.at = 0
    BY <1>1, <1>6, <1>9 DEF FrameIntact, Found, t
  <2>2. p.at # 0 + syms
    BY <1>1, <1>5, <1>9, <2>1
  <2> QED
    BY <1>4, <2>1, <2>2 DEF Fits, syms
<1>10. ASSUME t.payload > t.offset
       PROVE  \E p \in OnAir : /\ p.tb.no = n
                               /\ BitsToBytes(p.bits) = t.payload - t.offset
  <2>1. t.payload - t.offset > 0
    BY <1>1, <1>10
  <2>2. PICK p \in OnAir : p.at = syms
    BY <1>1, <1>6, <2>1 DEF FrameIntact, Found, t, syms
  <2>3. ~(p.at = 0 /\ t.offset > 0)
    BY <1>1, <1>5, <2>2
  <2> QED
    BY <1>4, <2>3 DEF Fits
<1>11. ASSUME t.payload > 0
       PROVE  /\ \E p \in OnAir : TRUE
              /\ \A q \in mem : q.tb.no >= n
  <2>1. CASE t.offset > 0
    <3>1. PICK p \in OnAir : /\ End(p) = p.tb.size
                             /\ p.tb.no = n - 1 \/ p.tb.no = n
      BY <1>9, <2>1
    <3>2. \A q \in mem : p.tb.no < q.tb.no /\ q.tb.no \in Nat
      BY <1>3, <3>1, AfterEnd
    <3> QED
      BY <3>1, <3>2
  <2>2. CASE ~(t.offset > 0)
    <3>1. t.payload > t.offset
      BY <1>1, <1>11, <2>2
    <3>2. PICK p \in OnAir : p.tb.no = n
      BY <1>10, <3>1
    <3>3. \A q \in mem : q.tb.no >= n
      BY <1>3, <3>2 DEF Before
    <3> QED
      BY <3>2, <3>3
  <2> QED
    BY <2>1, <2>2
<1>12. ASSUME t.payload > 0, \A p \in OnAir : p.tb.no >= n
       PROVE  \E p \in OnAir : p.tb.no = n /\ BitsToBytes(p.bits) = t.payload
  <2>1. CASE t.offset > 0
    <3>1. PICK p \in OnAir : /\ BitsToBytes(p.bits) = t.offset
                             /\ p.tb.no = n - 1 \/ (p.tb.no = n
                                                 /\ t.payload = t.offset)
      BY <1>9, <2>1
    <3>2. p.tb.no # n - 1
      BY <1>12
    <3> QED
      BY <3>1, <3>2
  <2>2. CASE ~(t.offset > 0)
    <3>1. t.payload > t.offset /\ t.payload - t.offset = t.payload
      BY <1>1, <1>12, <2>2
    <3> QED
      BY <1>10, <3>1
  <2> QED
    BY <2>1, <2>2
<1>13. About(n)
  BY <1>2, <1>7, <1>8, <1>10, <1>11, <1>12 DEF About, t
<1> QED
  BY <1>13

\* Whole bytes after whole bytes.
LEMMA WholeBytes ==
  ASSUME NEW from \in Nat, NEW bits \in Nat, NEW size \in Nat,
         from % 8 = 0, from + bits <= size
  PROVE  /\ BitsToBytes(bits) \in Nat /\ BitsToBytes(size) \in Nat
         /\ (from + bits) % 8 = 0 => 8 * BitsToBytes(bits) = bits
         /\ from + 8 * BitsToBytes(bits) <= 8 * BitsToBytes(size)
<1>1. PICK k \in Nat : from = 8 * k
  <2>1. from \div 8 \in Nat /\ from = 8 * (from \div 8)
    OBVIOUS
  <2> QED
    BY <2>1
<1>2. /\ BitsToBytes(bits) \in Nat /\ BitsToBytes(size) \in Nat
      /\ size <= 8 * BitsToBytes(size)
      /\ \A n \in Nat : bits <= 8 * n => BitsToBytes(bits) <= n
      /\ bits % 8 = 0 => 8 * BitsToBytes(bits) = bits
  BY BytesFact
<1>3. (from + bits) % 8 = 0 => bits % 8 = 0
  BY <1>1
<1>4. BitsToBytes(size) - k \in Nat /\ bits <= 8 * (BitsToBytes(size) - k)
  BY <1>1, <1>2
<1>5. BitsToBytes(bits) <= BitsToBytes(size) - k
  BY <1>2, <1>4
<1> QED
  BY <1>1, <1>2, <1>3, <1>5

\* What bytes the buffer has after a piece: no more than the TB, and no more
\* than comes before what is still to come of it.
LEMMA BytesReceived ==
  ASSUME IInv, Sending, Bytewise, InOrder, NEW p \in OnAir, NEW b \in Nat,
         8 * b <= p.from
  PROVE  LET c == b + BitsToBytes(p.bits)
         IN  /\ c \in Nat /\ 8 * c <= RcvCapacity
             /\ \A q \in mem : q.tb.no = p.tb.no => 8 * c <= q.from
             /\ p.tb.no = tb.no => TbReady \/ 8 * c <= tb.sent
<1> DEFINE c == b + BitsToBytes(p.bits)
<1>1. /\ p \in PieceSet /\ PieceOK(p) /\ PieceWhole(p)
      /\ End(p) = p.from + p.bits
      /\ p.from \in Nat /\ p.bits \in Nat /\ p.tb.size \in Nat
      /\ End(p) \in Nat
  <2>1. p \in PieceSet /\ PieceOK(p) /\ PieceWhole(p) /\ End(p) \in Nat
    BY AheadTypes DEF Ahead, Bytewise
  <2> QED
    BY <2>1 DEF PieceSet, TbSet, End
<1>2. /\ BitsToBytes(p.bits) \in Nat
      /\ End(p) % 8 = 0 => 8 * BitsToBytes(p.bits) = p.bits
      /\ p.from + 8 * BitsToBytes(p.bits) <= 8 * BitsToBytes(p.tb.size)
      /\ BitsToBytes(p.tb.size) \in Nat
  <2>1. p.from % 8 = 0 /\ p.from + p.bits <= p.tb.size
    BY <1>1 DEF PieceWhole, PieceOK
  <2> QED
    BY <1>1, <2>1, WholeBytes
<1>3. c \in Nat /\ 8 * c <= p.from + 8 * BitsToBytes(p.bits)
  BY <1>1, <1>2
<1>4. 8 * c <= RcvCapacity
  <2>1. 8 * BitsToBytes(p.tb.size) <= RcvCapacity
    BY <1>1 DEF PieceWhole, Holds
  <2> QED
    BY <1>1, <1>2, <1>3, <2>1, CapacityFact
<1>5. CASE End(p) = p.tb.size
  <2>1. \A q \in mem : q.tb.no # p.tb.no
    <3>1. ASSUME NEW q \in mem
          PROVE  q.tb.no # p.tb.no
      <4>1. p.tb.no < q.tb.no
        BY <1>5, AfterEnd
      <4>2. p.tb.no \in Nat
        BY <1>1 DEF PieceSet, TbSet
      <4> QED
        BY <4>1, <4>2
    <3> QED
      BY <3>1
  <2>2. p.tb.no = tb.no => TbReady
    <3>1. /\ tb.size \in Nat /\ tb.sent \in 0 .. tb.size
          /\ ThisTb.size = tb.size
      BY DEF IInv, Types, TypeOK, TbSet, ThisTb
    <3> QED
      BY <1>1, <1>5, <3>1 DEF PieceOK, TbReady
  <2> QED
    BY <1>3, <1>4, <2>1, <2>2
<1>6. CASE End(p) # p.tb.size
  <2>1. 8 * c <= End(p)
    BY <1>1, <1>2, <1>3, <1>6 DEF PieceWhole
  <2>2. ASSUME NEW q \in mem, q.tb.no = p.tb.no
        PROVE  8 * c <= q.from
    <3>1. Before(p, q) /\ q.from \in Nat /\ p.tb.no \in Nat
      BY <1>1 DEF InOrder, IInv, Types, PieceSet, TbSet
    <3>2. End(p) <= q.from
      BY <2>2, <3>1 DEF Before
    <3> QED
      BY <1>1, <1>3, <2>1, <3>1, <3>2
  <2>3. p.tb.no = tb.no => 8 * c <= tb.sent
    <3>1. p.tb.no = tb.no => End(p) <= tb.sent
      BY <1>1 DEF PieceOK
    <3>2. tb.sent \in Nat
      BY DEF IInv, Types, TypeOK
    <3> HIDE DEF c
    <3> QED
      BY <1>1, <1>3, <2>1, <3>1, <3>2
  <2> QED
    BY <1>3, <1>4, <2>2, <2>3
<1> QED
  BY <1>5, <1>6

-----------------------------------------------------------------------------
(* What is ahead of the decoder after a step of the framer                 *)

Kept ==
  /\ UNCHANGED tb
  /\ \A p \in Ahead' : \E q \in Ahead : SameBits(p, q)
  /\ \A q \in Ahead : \E p \in Ahead' : SameBits(p, q)

LEMMA SameKept ==
  ASSUME UNCHANGED <<tb, mem, air>>
  PROVE  Kept
BY DEF Kept, Ahead, OnAir, Sent, SameBits

\* The first frame of the buffer goes on the air, the rest moves up.
LEMMA ProducedKept ==
  ASSUME IInv, Sending, air = <<>>, loaded # <<>>, loaded' = Tail(loaded),
         Produce(Head(loaded), mem), UNCHANGED tb
  PROVE  Kept
<1>1. \A p \in Ahead' : \E q \in Ahead : SameBits(p, q)
  BY SentPieces DEF SendsFrame
<1>2. ASSUME NEW q \in Ahead
      PROVE  \E p \in Ahead' : SameBits(p, q)
  <2>1. q \in mem /\ q \in PieceSet
    BY AheadTypes DEF Ahead, OnAir
  <2>2. CASE q.at < Capacity
    <3>1. air' = << [tags |-> Head(loaded),
                     pieces |-> {p \in mem : p.at < Capacity}] >>
      BY DEF Produce
    <3>2. air' # <<>> /\ Sent'.pieces = {p \in mem : p.at < Capacity}
      BY <3>1 DEF Sent
    <3>3. q \in Ahead'
      BY <2>1, <2>2, <3>2 DEF Ahead, OnAir
    <3> QED
      BY <3>3 DEF SameBits
  <2>3. CASE ~(q.at < Capacity)
    <3> DEFINE p == [q EXCEPT !.at = @ - Capacity]
    <3>1. q.at >= Capacity
      <4>1. q.at \in Int /\ Capacity \in Int
        BY <2>1, SizesAssumption DEF PieceSet
      <4> QED
        BY <2>3, <4>1
    <3>2. p \in mem'
      BY <2>1, <3>1 DEF Produce
    <3>3. SameBits(p, q)
      BY <2>1 DEF PieceSet, SameBits
    <3> HIDE DEF p
    <3> QED
      BY <3>2, <3>3 DEF Ahead
  <2> QED
    BY <2>2, <2>3
<1> QED
  BY <1>1, <1>2 DEF Kept

LEMMA EmptyFrameKept ==
  ASSUME IInv, Layout, EmptyFrame
  PROVE  Kept
<1>1. mem = {} /\ air = <<>> /\ tb' = tb
  BY NothingBuilt DEF EmptyFrame, NoInput, Called, buildVars
<1>2. Cleared(0) = {}
  BY <1>1 DEF Cleared
<1>3. PICK tags : Produce(tags, {})
  BY <1>2 DEF EmptyFrame
<1>4. mem' = {} /\ air' = << [tags |-> tags, pieces |-> {}] >>
  BY <1>3 DEF Produce
<1>5. Ahead = {} /\ Ahead' = {}
  BY <1>1, <1>4 DEF Ahead, OnAir, Sent
<1> QED
  BY <1>1, <1>5 DEF Kept

\* A step of the framer, or a frame passed on.
LEMMA StepKinds ==
  ASSUME IInv, Layout, Sending, Flow, [Next]_vars
  PROVE  Kept \/ EncodeTb \/ Write \/ PassOn
<1>1. CASE FillFrame \/ LeaveRoom
  BY <1>1 DEF FillFrame, LeaveRoom
<1>2. CASE ProduceLoaded
  BY <1>2, ProducedKept DEF ProduceLoaded, Called, buildVars
<1>3. CASE LeaveLoop
  <2>1. CASE loaded = <<>>
    <3>1. UNCHANGED <<tb, mem, air>>
      BY <1>3, <2>1 DEF LeaveLoop, outVars, buildVars
    <3> QED
      BY <3>1, SameKept
  <2>2. CASE loaded # <<>>
    <3>1. air = <<>>
      BY <1>3 DEF LeaveLoop, Flow
    <3>2. /\ loaded' = Tail(loaded) /\ Produce(Head(loaded), mem)
          /\ tb' = tb
      BY <1>3, <2>2 DEF LeaveLoop, buildVars
    <3> QED
      BY <2>2, <3>1, <3>2, ProducedKept
  <2> QED
    BY <2>1, <2>2
<1>4. CASE \/ Arrive \/ ProcessFeedbackHeader \/ GiveUp \/ EnterLoop
           \/ FlushForNewCnst \/ NoWholePdu \/ OutputDone \/ OutputWait
           \/ FinalizeFrame \/ UNCHANGED vars
  <2>1. UNCHANGED <<tb, mem, air>>
    BY <1>4 DEF Arrive, ProcessFeedbackHeader, GiveUp, EnterLoop,
       FlushForNewCnst, NoWholePdu, OutputDone, OutputWait, FinalizeFrame,
       vars, buildVars, outVars
  <2> QED
    BY <2>1, SameKept
<1> QED
  BY <1>1, <1>2, <1>3, <1>4, EmptyFrameKept DEF Next, BeginCall, Loop

\* A step of the framer alone does not pass a frame on.
LEMMA FramerKinds ==
  ASSUME IInv, Layout, Sending, Flow, Framer \/ UNCHANGED linkVars
  PROVE  Kept \/ EncodeTb \/ Write
<1>1. CASE UNCHANGED linkVars
  <2>1. UNCHANGED <<tb, mem, air>>
    BY <1>1 DEF linkVars, vars, buildVars, outVars
  <2> QED
    BY <2>1, SameKept
<1>2. CASE Framer
  <2>1. [Next]_vars
    BY <1>2 DEF Framer, Next
  <2>2. CASE PassOn
    <3>1. /\ air # <<>> /\ air' = <<>>
          /\ UNCHANGED <<arrived, header, pc, call, loaded, action, tb>>
      BY <2>2 DEF PassOn, streamVars, radioVars, buildVars, outVars
    <3>2. ~Called /\ pc # "loop"
      BY <3>1 DEF Called, Flow
    <3> QED
      BY <1>2, <3>1, <3>2 DEF Framer, Arrive, ProcessFeedbackHeader, BeginCall,
         ProduceLoaded, EmptyFrame, GiveUp, EnterLoop, NoInput, Loop,
         FlushForNewCnst, EncodeTb, NoWholePdu, Write, FillFrame, LeaveRoom,
         OutputDone, OutputWait, FinalizeFrame, LeaveLoop, Processing, InLoop
  <2> QED
    BY <2>1, <2>2, StepKinds
<1> QED
  BY <1>1, <1>2

-----------------------------------------------------------------------------
(* How far the decoder has come                                            *)

\* The beginning of TB m is still to come, or it was in a frame that was hit.
Due(m) ==
  \/ \E q \in Ahead : q.tb.no = m /\ q.from = 0
  \/ tb.no = m /\ tb.sent = 0
  \/ m \in suspects

\* The decoder is at TB j: nothing before it is still to come, nor anything
\* of the bytes that it has of it, and it has missed none after it.
Reach(j) ==
  /\ IF tbNumber = -1 THEN j = 0 ELSE tbNumber = j % TbMod
  /\ \A p \in Ahead : /\ p.tb.no >= j
                      /\ p.tb.no = j => 8 * rcvBuf.bytes <= p.from
  /\ j = tb.no => TbReady \/ 8 * rcvBuf.bytes <= tb.sent
  /\ \A m \in j + 1 .. tb.no : Due(m)

\* A frame that is hit is about two TBs.
Few == IsFiniteSet(suspects) /\ Cardinality(suspects) <= 2 * hits

Reached == NeverThrows /\ Few /\ \E j \in 0 .. tb.no : Reach(j)

\* The framer only adds what is still to come.
LEMMA KeptReach ==
  ASSUME Kept, UNCHANGED receiverVars, NEW j, Reach(j)
  PROVE  Reach(j)'
<1>1. UNCHANGED <<tbNumber, suspects>> /\ rcvBuf' = rcvBuf /\ tb' = tb
  BY DEF receiverVars, decoderVars, Kept
<1>2. \A p \in Ahead' : /\ p.tb.no >= j
                        /\ p.tb.no = j => 8 * rcvBuf.bytes <= p.from
  BY DEF Reach, Kept, SameBits
<1>3. ASSUME NEW m, Due(m)
      PROVE  Due(m)'
  <2>1. CASE \E q \in Ahead : q.tb.no = m /\ q.from = 0
    BY <2>1 DEF Due, Kept, SameBits
  <2>2. CASE (tb.no = m /\ tb.sent = 0) \/ m \in suspects
    BY <1>1, <2>2 DEF Due
  <2> QED
    BY <1>3, <2>1, <2>2 DEF Due
<1> QED
  BY <1>1, <1>2, <1>3 DEF Reach, TbReady

LEMMA EncodeTbReach ==
  ASSUME IInv, Flow, EncodeTb, UNCHANGED receiverVars, NEW j \in 0 .. tb.no,
         Reach(j)
  PROVE  Reach(j)'
<1>1. /\ UNCHANGED <<tbNumber, suspects>> /\ rcvBuf' = rcvBuf
  BY DEF receiverVars, decoderVars
<1>2. /\ tb'.no = tb.no + 1 /\ tb'.sent = 0 /\ Ahead' = Ahead
      /\ tb.no \in Nat
  BY NewTbFact DEF Ahead, OnAir, Sent, IInv, Types, TypeOK
<1>3. tb.no > 0 => tb.sent # 0
  <2>1. action = "input"
    BY DEF EncodeTb, Processing
  <2>2. TbReady /\ (tb.no > 0 => tb.size > 0)
    BY <2>1 DEF Flow
  <2> QED
    BY <2>2 DEF TbReady, IInv, Types, TypeOK
<1>4. ASSUME NEW m \in j + 1 .. tb'.no
      PROVE  Due(m)'
  <2>1. CASE m = tb'.no
    BY <1>2, <2>1 DEF Due
  <2>2. CASE m # tb'.no
    <3>1. m \in j + 1 .. tb.no /\ m > 0
      BY <1>2, <2>2
    <3>2. Due(m)
      BY <3>1 DEF Reach
    <3> QED
      BY <1>1, <1>2, <1>3, <3>1, <3>2 DEF Due
  <2> QED
    BY <2>1, <2>2
<1> QED
  BY <1>1, <1>2, <1>4 DEF Reach

LEMMA WriteReach ==
  ASSUME IInv, Layout, DecoderTypes, Write, UNCHANGED receiverVars,
         NEW j \in 0 .. tb.no, Reach(j)
  PROVE  Reach(j)'
<1> DEFINE q == Piece(call.at, OutBits)
<1>1. /\ UNCHANGED <<tbNumber, suspects>> /\ rcvBuf' = rcvBuf
  BY DEF receiverVars, decoderVars
<1>2. /\ ~TbReady /\ air' = air /\ tb'.no = tb.no /\ OutBits \in Nat
      /\ tb'.sent = tb.sent + OutBits /\ tb.sent \in Nat /\ tb.no \in Nat
      /\ mem \subseteq mem'
  <2>1. /\ InOutput /\ air' = air /\ tb'.no = tb.no
        /\ tb'.sent = tb.sent + OutBits
    BY WriteFact
  <2>2. mem \subseteq mem'
    BY WrittenFact
  <2>3. OutBits \in Nat
    BY <2>1, OutFact
  <2>4. tb.sent \in Nat /\ tb.no \in Nat
    BY DEF IInv, Types, TypeOK
  <2> QED
    BY <2>1, <2>2, <2>3, <2>4 DEF InOutput
<1>3. ASSUME OutBits > 0
      PROVE  q \in mem' /\ q.tb.no = tb.no /\ q.from = tb.sent
  BY <1>3, NewPiece DEF Write
<1>4. \A p \in Ahead' : p \in Ahead \/ (p = q /\ OutBits > 0)
  BY <1>2, WrittenPiece DEF Ahead, OnAir, Sent
<1>5. Ahead \subseteq Ahead'
  BY <1>2 DEF Ahead, OnAir, Sent
<1>6. j = tb.no => 8 * rcvBuf.bytes <= tb.sent
  BY <1>2 DEF Reach
<1> HIDE DEF q
<1>7. ASSUME NEW p \in Ahead'
      PROVE  /\ p.tb.no >= j
             /\ p.tb.no = j => 8 * rcvBuf.bytes <= p.from
  BY <1>2, <1>3, <1>4, <1>6 DEF Reach
<1>8. ASSUME NEW m \in j + 1 .. tb.no, Due(m)
      PROVE  Due(m)'
  <2>1. CASE tb.no = m /\ tb.sent = 0
    <3>1. CASE OutBits > 0
      <4>1. q \in Ahead' /\ q.tb.no = m /\ q.from = 0
        BY <1>3, <2>1, <3>1 DEF Ahead
      <4> QED
        BY <4>1 DEF Due
    <3>2. CASE OutBits = 0
      <4>1. tb'.no = m /\ tb'.sent = 0
        BY <1>2, <2>1, <3>2
      <4> QED
        BY <4>1 DEF Due
    <3> QED
      BY <1>2, <3>1, <3>2
  <2>2. CASE \E p \in Ahead : p.tb.no = m /\ p.from = 0
    BY <1>5, <2>2 DEF Due
  <2>3. CASE m \in suspects
    BY <1>1, <2>3 DEF Due
  <2> QED
    BY <1>8, <2>1, <2>2, <2>3 DEF Due
<1>9. j = tb'.no => 8 * rcvBuf.bytes <= tb'.sent
  <2>1. rcvBuf.bytes \in Nat
    BY DEF DecoderTypes, BufSet
  <2> QED
    BY <1>2, <1>6, <2>1
<1>10. IF tbNumber = -1 THEN j = 0 ELSE tbNumber = j % TbMod
  BY DEF Reach
<1>11. \A m \in j + 1 .. tb'.no : Due(m)'
  BY <1>2, <1>8 DEF Reach
<1> QED
  BY <1>1, <1>7, <1>9, <1>10, <1>11 DEF Reach

\* A step of the framer: the decoder is where it was.
LEMMA FramerReach ==
  ASSUME IInv, Layout, Sending, DecoderTypes, Flow, NEW j \in 0 .. tb.no,
         Reach(j), Framer \/ UNCHANGED linkVars
  PROVE  Reach(j)' /\ j \in 0 .. tb'.no
<1>1. UNCHANGED receiverVars /\ tb.no \in Nat
  BY DEF Framer, linkVars, IInv, Types, TypeOK
<1>2. CASE EncodeTb
  BY <1>1, <1>2, EncodeTbReach, NewTbFact
<1>3. CASE Write
  BY <1>1, <1>3, WriteReach, WriteFact
<1>4. CASE Kept
  <2>1. tb' = tb
    BY <1>4 DEF Kept
  <2> QED
    BY <1>1, <1>4, <2>1, KeptReach
<1> QED
  BY <1>2, <1>3, <1>4, FramerKinds

LEMMA FramerReached ==
  ASSUME IInv, Layout, Sending, DecoderTypes, Flow, Reached,
         Framer \/ UNCHANGED linkVars
  PROVE  Reached'
<1>1. UNCHANGED receiverVars
  BY DEF Framer, linkVars
<1>2. NeverThrows' /\ Few'
  BY <1>1 DEF Reached, NeverThrows, Few, receiverVars, decoderVars
<1>3. PICK j \in 0 .. tb.no : Reach(j)
  BY DEF Reached
<1> QED
  BY <1>2, <1>3, FramerReach DEF Reached

-----------------------------------------------------------------------------
(* A frame goes to the decoder                                             *)

LEMMA ModFact ==
  ASSUME NEW M \in Nat \ {0}, NEW a \in Nat, NEW b \in Nat,
         a % M = b % M, a > b
  PROVE  a - b >= M
<1>1. /\ a \div M \in Nat /\ a = M * (a \div M) + (a % M)
      /\ b \div M \in Nat /\ b = M * (b \div M) + (b % M)
      /\ b % M \in 0 .. M - 1
  BY SMTT(30)
<1> DEFINE u == a \div M
           v == b \div M
           r == b % M
<1>2. /\ u \in Nat /\ v \in Nat /\ r \in 0 .. M - 1
      /\ a = M * u + r /\ b = M * v + r
  BY <1>1
<1> HIDE DEF u, v, r
<1>3. a - b = M * (u - v)
  BY <1>2
<1>4. CASE u - v >= 1
  <2>1. M * (u - v) >= M
    BY <1>2, <1>4
  <2> QED
    BY <1>3, <2>1
<1>5. CASE u - v < 1
  <2>1. M * (u - v) <= 0
    BY <1>2, <1>5
  <2> QED
    BY <1>3, <2>1
<1> QED
  BY <1>2, <1>4, <1>5

LEMMA OneAdded ==
  ASSUME NEW S, NEW x, IsFiniteSet(S)
  PROVE  /\ IsFiniteSet(S \cup {x}) /\ Cardinality(S \cup {x}) \in Nat
         /\ Cardinality(S \cup {x}) <= Cardinality(S) + 1
<1>1. Cardinality(S) \in Nat
  BY FS_CardinalityType
<1>2. IsFiniteSet(S \cup {x})
  BY FS_AddElement
<1>3. Cardinality(S \cup {x}) \in Nat
  BY <1>2, FS_CardinalityType
<1>4. Cardinality(S \cup {x}) = IF x \in S THEN Cardinality(S)
                                ELSE Cardinality(S) + 1
  BY FS_AddElement
<1> QED
  BY <1>1, <1>2, <1>3, <1>4

\* A frame that is hit adds two suspects.
LEMMA HitFew ==
  ASSUME DecoderTypes, Few, NEW n \in Nat, NEW pieces, Hit(pieces),
         \A p \in pieces : p.tb.no = n - 1 \/ p.tb.no = n
  PROVE  Few'
<1> DEFINE one == suspects \cup {n - 1}
           two == one \cup {n}
<1>1. hits' = hits + 1 /\ hits \in Nat /\ suspects' \subseteq two
  BY HitsAssumption DEF Hit, DecoderTypes
<1>2. /\ IsFiniteSet(suspects) /\ Cardinality(suspects) \in Nat
      /\ Cardinality(suspects) <= 2 * hits
  BY FS_CardinalityType DEF Few
<1>3. /\ IsFiniteSet(one) /\ Cardinality(one) \in Nat
      /\ Cardinality(one) <= Cardinality(suspects) + 1
  BY <1>2, OneAdded
<1> HIDE DEF one
<1>4. /\ IsFiniteSet(two) /\ Cardinality(two) \in Nat
      /\ Cardinality(two) <= Cardinality(one) + 1
  BY <1>3, OneAdded
<1> HIDE DEF two
<1>5. /\ IsFiniteSet(suspects') /\ Cardinality(suspects') \in Nat
      /\ Cardinality(suspects') <= Cardinality(two)
  BY <1>1, <1>4, FS_Subset, FS_CardinalityType
<1> QED
  BY <1>1, <1>2, <1>3, <1>4, <1>5 DEF Few

\* The decoder may be c bytes into TB k.
Into(k, c) ==
  /\ c \in Nat
  /\ \A q \in mem : q.tb.no = k => 8 * c <= q.from
  /\ k = tb.no => TbReady \/ 8 * c <= tb.sent

LEMMA IntoNothing ==
  ASSUME IInv, NEW k
  PROVE  Into(k, 0)
<1>1. \A q \in mem : q.from \in Nat
  BY DEF IInv, Types, PieceSet
<1>2. tb.sent \in Nat
  BY DEF IInv, Types, TypeOK
<1> QED
  BY <1>1, <1>2 DEF Into

\* When the frame has gone: the decoder is at TB k, and what was on the air is
\* of no later TB, or is lost.
LEMMA PassedReach ==
  ASSUME PassOn, suspects \subseteq suspects', NEW j \in 0 .. tb.no, Reach(j),
         NEW k \in j .. tb.no, tb.no \in Nat,
         IF tbNumber' = -1 THEN k = 0 ELSE tbNumber' = k % TbMod,
         \A q \in mem : q.tb.no >= k,
         Into(k, rcvBuf'.bytes),
         \A q \in OnAir : q.tb.no <= k \/ q.tb.no \in suspects'
  PROVE  Reach(k)'
<1>1. /\ tb' = tb /\ mem' = mem /\ air' = <<>> /\ Ahead' = mem
  BY DEF PassOn, buildVars, outVars, Ahead, OnAir
<1>2. ASSUME NEW m \in k + 1 .. tb.no
      PROVE  Due(m)'
  <2>1. m \in j + 1 .. tb.no /\ m > k
    OBVIOUS
  <2>2. Due(m)
    BY <2>1 DEF Reach
  <2>3. CASE \E q \in Ahead : q.tb.no = m /\ q.from = 0
    <3>1. PICK q \in Ahead : q.tb.no = m /\ q.from = 0
      BY <2>3
    <3>2. CASE q \in mem
      BY <1>1, <3>1, <3>2 DEF Due
    <3>3. CASE q \in OnAir
      <4>1. m \in suspects'
        BY <2>1, <3>1, <3>3
      <4> QED
        BY <4>1 DEF Due
    <3> QED
      BY <3>1, <3>2, <3>3 DEF Ahead
  <2>4. CASE tb.no = m /\ tb.sent = 0
    BY <1>1, <2>4 DEF Due
  <2>5. CASE m \in suspects
    BY <2>5 DEF Due
  <2> QED
    BY <2>2, <2>3, <2>4, <2>5 DEF Due
<1>3. TbReady' <=> TbReady
  BY <1>1 DEF TbReady
<1>4. \A p \in mem : /\ p.tb.no >= k
                     /\ p.tb.no = k => 8 * rcvBuf'.bytes <= p.from
  BY DEF Into
<1>5. k = tb.no => TbReady \/ 8 * rcvBuf'.bytes <= tb.sent
  BY DEF Into
<1> QED
  BY <1>1, <1>2, <1>3, <1>4, <1>5 DEF Reach

\* Too few frames are hit for the numbers of the TBs to go around.
FewHits == 2 * MaxHits + 2 < TbMod

\* A frame that is about TB n comes when the decoder is at TB n or before it.
LEMMA NotBack ==
  ASSUME IInv, Sending, NEW j \in 0 .. tb.no, Reach(j), NEW n \in 0 .. tb.no,
         About(n), Sent.tags.payload > 0
  PROVE  n >= j
<1>1. PICK p \in OnAir : TRUE
  BY DEF About
<1>2. p \in Ahead
  BY DEF Ahead
<1>3. p.tb.no >= j /\ (p.tb.no = n - 1 \/ p.tb.no = n)
  BY <1>2 DEF Reach, About
<1>4. tb.no \in Nat
  BY DEF IInv, Types, TypeOK
<1> QED
  BY <1>3, <1>4

\* The number of a frame about TB n tells it from TB j.
Near(j, n) == Sent.tags.payload > 0 => n - j < TbMod

\* With so few hits it does.
LEMMA FewNear ==
  ASSUME FewHits, IInv, Sending, DecoderTypes, Few, NEW j \in 0 .. tb.no,
         Reach(j), NEW n \in 0 .. tb.no, About(n)
  PROVE  Near(j, n)
<1>1. tb.no \in Nat /\ TbMod \in Nat \ {0} /\ n \in Nat /\ j \in Nat
  BY SizesAssumption DEF IInv, Types, TypeOK
<1>4. SUFFICES ASSUME Sent.tags.payload > 0, ~(n - j < TbMod)
               PROVE  FALSE
  BY DEF Near
<1>5. n - j >= TbMod
  BY <1>1, <1>4
<1>6. j + 1 .. n - 2 \subseteq suspects
  <2>1. SUFFICES ASSUME NEW m \in j + 1 .. n - 2
                 PROVE  m \in suspects
    OBVIOUS
  <2>2. m \in j + 1 .. tb.no /\ m < n - 1 /\ m \in Int
    BY <1>1
  <2>3. Due(m)
    BY <2>2 DEF Reach
  <2>4. ASSUME NEW q \in Ahead, q.tb.no = m
        PROVE  FALSE
    <3>1. CASE q \in OnAir
      <4>1. q.tb.no = n - 1 \/ q.tb.no = n
        BY <3>1 DEF About
      <4> QED
        BY <1>1, <2>2, <2>4, <4>1
    <3>2. CASE q \in mem
      <4>1. q.tb.no >= n
        BY <1>4, <3>2 DEF About
      <4> QED
        BY <1>1, <2>2, <2>4, <4>1
    <3> QED
      BY <3>1, <3>2 DEF Ahead
  <2>5. tb.no # m
    BY <1>1, <2>2
  <2> QED
    BY <2>3, <2>4, <2>5 DEF Due
<1>7. /\ Cardinality(j + 1 .. n - 2) <= Cardinality(suspects)
      /\ Cardinality(suspects) \in Nat /\ Cardinality(suspects) <= 2 * hits
  BY <1>6, FS_Subset, FS_CardinalityType DEF Few
<1>8. Cardinality(j + 1 .. n - 2) = IF j + 1 > n - 2 THEN 0
                                    ELSE (n - 2) - (j + 1) + 1
  BY <1>1, FS_Interval
<1>9. hits \in Nat /\ MaxHits \in Nat /\ hits <= MaxHits
  BY HitsAssumption DEF DecoderTypes
<1>10. n - j >= 2 * MaxHits + 3
  BY <1>1, <1>5, <1>9 DEF FewHits
<1>11. n - 2 - j <= 2 * hits
  BY <1>1, <1>7, <1>8, <1>9, <1>10
<1> QED
  BY <1>1, <1>9, <1>10, <1>11

\* The decoder takes a frame for a part of its TB only if it is one.
LEMMA SameIsThis ==
  ASSUME IInv, Sending, NEW j \in 0 .. tb.no, Reach(j),
         NEW n \in 0 .. tb.no, About(n), Near(j, n),
         Sent.tags.payload > 0, Sent.tags.no = tbNumber
  PROVE  n = j
<1>1. tb.no \in Nat /\ TbMod \in Nat \ {0} /\ n \in Nat /\ j \in Nat
  BY SizesAssumption DEF IInv, Types, TypeOK
<1>2. n >= j
  BY NotBack
<1>3. n % TbMod = j % TbMod
  <2>1. n % TbMod = tbNumber
    BY DEF About
  <2>2. n % TbMod # -1
    BY <1>1
  <2> QED
    BY <2>1, <2>2 DEF Reach
<1>4. SUFFICES ASSUME n > j
               PROVE  FALSE
  BY <1>1, <1>2
<1>5. n - j >= TbMod
  BY <1>1, <1>3, <1>4, ModFact
<1> QED
  BY <1>1, <1>5 DEF Near

\* A piece that the decoder adds to the b bytes that it has of TB k.
LEMMA IntoPiece ==
  ASSUME IInv, Sending, Bytewise, InOrder, NEW p \in OnAir, NEW b \in Nat,
         8 * b <= p.from
  PROVE  LET c == b + BitsToBytes(p.bits)
         IN  Into(p.tb.no, c) /\ 8 * c <= RcvCapacity
BY BytesReceived DEF Into

LEMMA GrownBytes ==
  ASSUME NEW buf \in BufSet, NEW f \in FrameSet, NEW at \in Nat,
         NEW bytes \in Nat
  PROVE  Grown(buf, f, at, bytes).bytes = buf.bytes + bytes
BY GrownFact

\* What it has of its TB fits, and more is still to come.
LEMMA SameTbReach ==
  ASSUME IInv, Sending, DecoderTypes, Bytewise, InOrder, NeverThrows, PassOn,
         suspects \subseteq suspects', NEW j \in 0 .. tb.no, Reach(j),
         NEW n \in 0 .. tb.no, About(n), Near(j, n),
         NEW f \in FrameSet, f.tags = Sent.tags, TagOK(Sent.tags), SameTb(f)
  PROVE  NeverThrows' /\ Reach(n)'
<1> DEFINE t == Sent.tags
           c == rcvBuf.bytes + t.payload
<1>1. /\ t.payload \in Nat /\ t.payload > 0 /\ t.no = tbNumber
      /\ tbNumber' = tbNumber /\ t.no \in 0 .. TbMod - 1
  BY TagNumbers DEF SameTb
<1>2. n = j /\ tb.no \in Nat
  BY <1>1, SameIsThis DEF IInv, Types, TypeOK
<1>3. rcvBuf \in BufSet /\ rcvBuf.bytes \in Nat
  BY DEF DecoderTypes, BufSet
<1>4. Grown(rcvBuf, f, 0, t.payload).bytes = c
  BY <1>1, <1>3, GrownBytes
<1>5. \A p \in OnAir : p.tb.no >= n
  BY <1>2 DEF Reach, Ahead
<1>6. PICK p \in OnAir : p.tb.no = n /\ BitsToBytes(p.bits) = t.payload
  BY <1>1, <1>5 DEF About
<1>7. 8 * rcvBuf.bytes <= p.from
  BY <1>2, <1>6 DEF Reach, Ahead
<1>8. Into(n, c) /\ 8 * c <= RcvCapacity
  BY <1>3, <1>6, <1>7, IntoPiece
<1>9. c \in Nat /\ RcvCapacity \in Nat
  BY <1>1, <1>3, CapacityFact
<1>10. /\ thrown' = (thrown \/ 8 * c > RcvCapacity)
       /\ rcvBuf'.bytes = c \/ rcvBuf'.bytes = 0
  BY <1>4, EmptyBufFact DEF SameTb, AfterDecode
<1> HIDE DEF c
<1>11. NeverThrows'
  <2>1. ~(8 * c > RcvCapacity)
    BY <1>8, <1>9
  <2> QED
    BY <1>10, <2>1 DEF NeverThrows
<1>12. Into(n, rcvBuf'.bytes)
  BY <1>8, <1>10, IntoNothing
<1>13. /\ \A q \in mem : q.tb.no >= n
       /\ \A q \in OnAir : q.tb.no <= n
  BY <1>1, <1>2 DEF About
<1>14. IF tbNumber' = -1 THEN n = 0 ELSE tbNumber' = n % TbMod
  BY <1>1, <1>2 DEF Reach
<1>15. n \in j .. tb.no
  BY <1>2
<1>16. Reach(n)'
  BY <1>2, <1>12, <1>13, <1>14, <1>15, PassedReach
<1> QED
  BY <1>11, <1>16

\* Another TB begins in the buffer, or none.
LEMMA NewTbReach ==
  ASSUME IInv, Sending, DecoderTypes, Bytewise, InOrder, NeverThrows, PassOn,
         suspects \subseteq suspects', NEW j \in 0 .. tb.no, Reach(j),
         NEW n \in 0 .. tb.no, About(n),
         NEW f \in FrameSet, f.tags = Sent.tags, TagOK(Sent.tags),
         SmallTb(f) \/ OtherTb(f)
  PROVE  NeverThrows' /\ Reach(n)'
<1> DEFINE t == Sent.tags
           c == t.payload - t.offset
<1>1. /\ t.payload \in Nat /\ t.payload > 0 /\ t.offset \in Nat /\ c \in Nat
      /\ tbNumber' = t.no /\ thrown' = thrown /\ tb.no \in Nat
      /\ BytesToSyms(t.offset, t.cnst) \in Nat
  BY TagNumbers DEF SmallTb, OtherTb, NewBuf, IInv, Types, TypeOK
<1>2. n >= j
  BY <1>1, NotBack
<1>3. rcvBuf'.bytes = 0 \/ rcvBuf'.bytes = c
  <2>1. CASE SmallTb(f)
    BY <2>1, EmptyBufFact DEF SmallTb
  <2>2. CASE OtherTb(f)
    <3>1. Grown(EmptyBuf, f, BytesToSyms(t.offset, t.cnst), c).bytes = 0 + c
      BY <1>1, EmptyBufFact, GrownBytes
    <3>2. 0 + c = c
      BY <1>1
    <3> QED
      BY <2>2, <3>1, <3>2, EmptyBufFact DEF OtherTb, NewBuf
  <2> QED
    BY <2>1, <2>2
<1>4. c = 0 \/ Into(n, c)
  <2>1. CASE c > 0
    <3>1. t.payload > t.offset
      BY <1>1, <2>1
    <3>2. PICK p \in OnAir : p.tb.no = n /\ BitsToBytes(p.bits) = c
      BY <3>1 DEF About
    <3>3. p.from \in Nat
      BY AheadTypes DEF Ahead, PieceSet
    <3>4. 8 * 0 <= p.from /\ 0 + c = c
      BY <1>1, <3>3
    <3> QED
      BY <3>2, <3>4, IntoPiece
  <2> QED
    BY <1>1, <2>1
<1>5. Into(n, rcvBuf'.bytes)
  BY <1>3, <1>4, IntoNothing
<1>6. /\ \A q \in mem : q.tb.no >= n
      /\ \A q \in OnAir : q.tb.no <= n
      /\ tbNumber' = n % TbMod
  BY <1>1 DEF About
<1>7. IF tbNumber' = -1 THEN n = 0 ELSE tbNumber' = n % TbMod
  <2>1. n % TbMod # -1
    BY SizesAssumption
  <2> QED
    BY <1>6, <2>1
<1>8. n \in j .. tb.no
  BY <1>2
<1>9. Reach(n)'
  BY <1>1, <1>5, <1>6, <1>7, <1>8, PassedReach
<1> QED
  BY <1>1, <1>9 DEF NeverThrows

\* The decoder skips the frame, or does not get it.
LEMMA SkippedReach ==
  ASSUME IInv, DecoderTypes, PassOn, suspects \subseteq suspects',
         NEW j \in 0 .. tb.no, Reach(j), UNCHANGED decoderVars,
         \A q \in OnAir : q.tb.no \in suspects'
  PROVE  Reach(j)'
<1>1. tbNumber' = tbNumber /\ rcvBuf' = rcvBuf
  BY DEF decoderVars
<1>2. tb.no \in Nat /\ j \in j .. tb.no
  BY DEF IInv, Types, TypeOK
<1>3. /\ \A q \in mem : q.tb.no >= j
      /\ Into(j, rcvBuf'.bytes)
      /\ IF tbNumber' = -1 THEN j = 0 ELSE tbNumber' = j % TbMod
  BY <1>1 DEF Reach, Ahead, Into, DecoderTypes, BufSet
<1> QED
  BY <1>2, <1>3, PassedReach

LEMMA ProcessReach ==
  ASSUME IInv, Sending, DecoderTypes, Bytewise, InOrder, NeverThrows, PassOn,
         suspects \subseteq suspects', NEW j \in 0 .. tb.no, Reach(j),
         NEW n \in 0 .. tb.no, About(n), Near(j, n),
         NEW f \in FrameSet, f.tags = Sent.tags, TagOK(Sent.tags),
         ProcessFrame(f)
  PROVE  NeverThrows' /\ \E k \in 0 .. tb.no : Reach(k)'
<1>1. CASE SkipEmpty(f)
  <2>1. UNCHANGED decoderVars /\ OnAir = {}
    BY <1>1 DEF SkipEmpty, About
  <2>2. Reach(j)'
    BY <2>1, SkippedReach
  <2>3. thrown' = thrown
    BY <2>1 DEF decoderVars
  <2> QED
    BY <2>2, <2>3 DEF NeverThrows
<1>2. CASE SameTb(f)
  BY <1>2, SameTbReach
<1>3. CASE SmallTb(f) \/ OtherTb(f)
  BY <1>3, NewTbReach
<1> QED
  BY <1>1, <1>2, <1>3 DEF ProcessFrame

LEMMA RadioReached ==
  ASSUME FewHits, IInv, Layout, Sending, DecoderTypes, Bytewise, InOrder,
         Numbering, Reached, Radio
  PROVE  Reached'
<1>1. /\ PassOn /\ air # <<>> /\ tb' = tb
      /\ Sent \in FrameSet /\ TagOK(Sent.tags) /\ OnAir = Sent.pieces
  BY SentFact DEF Radio, Receive, Lose, Spoil, PassOn, buildVars
<1>2. PICK n \in 0 .. tb.no : About(n)
  BY <1>1, FrameAbout
<1>3. PICK j \in 0 .. tb.no : Reach(j)
  BY DEF Reached
<1>a. Near(j, n)
  BY <1>2, <1>3, FewNear DEF Reached
<1>4. /\ n \in Nat /\ NeverThrows /\ Few
      /\ \A p \in OnAir : p.tb.no = n - 1 \/ p.tb.no = n
  BY <1>2 DEF About, Reached, IInv, Types, TypeOK
<1>5. CASE Receive
  <2>1. /\ ProcessFrame(Sent) /\ suspects' = suspects /\ hits' = hits
    BY <1>5 DEF Receive
  <2>2. Few'
    BY <1>4, <2>1 DEF Few
  <2>3. NeverThrows' /\ \E k \in 0 .. tb.no : Reach(k)'
    BY <1>1, <1>2, <1>3, <1>4, <1>a, <2>1, ProcessReach
  <2> QED
    BY <1>1, <2>2, <2>3 DEF Reached
<1>6. CASE Lose
  <2>1. /\ Hit(OnAir) /\ UNCHANGED decoderVars
    BY <1>1, <1>6 DEF Lose
  <2>2. Few'
    BY <1>4, <2>1, HitFew
  <2>3. /\ suspects \subseteq suspects'
        /\ \A q \in OnAir : q.tb.no \in suspects'
    BY <2>1 DEF Hit
  <2>4. Reach(j)'
    BY <1>1, <1>3, <2>1, <2>3, SkippedReach
  <2>5. NeverThrows'
    BY <1>4, <2>1 DEF NeverThrows, decoderVars
  <2> QED
    BY <1>1, <1>3, <2>2, <2>4, <2>5 DEF Reached
<1>7. CASE Spoil
  <2>1. PICK bad \in SUBSET OnAir :
          Hit(bad) /\ ProcessFrame([Sent EXCEPT !.pieces = @ \ bad])
    BY <1>1, <1>7 DEF Spoil
  <2>2. Few' /\ suspects \subseteq suspects'
    <3>1. \A p \in bad : p.tb.no = n - 1 \/ p.tb.no = n
      BY <1>4
    <3>2. Few'
      BY <1>4, <2>1, <3>1, HitFew
    <3> QED
      BY <2>1, <3>2 DEF Hit
  <2>3. PICK f : f = [Sent EXCEPT !.pieces = @ \ bad]
    OBVIOUS
  <2>4. f \in FrameSet /\ f.tags = Sent.tags
    BY <1>1, <2>3 DEF FrameSet
  <2>5. ProcessFrame(f)
    BY <2>1, <2>3
  <2>6. NeverThrows' /\ \E k \in 0 .. tb.no : Reach(k)'
    BY <1>1, <1>2, <1>3, <1>4, <1>a, <2>2, <2>4, <2>5, ProcessReach
  <2> QED
    BY <1>1, <2>2, <2>6 DEF Reached
<1> QED
  BY <1>5, <1>6, <1>7 DEF Radio

LEMMA NextReached ==
  ASSUME FewHits, IInv, Layout, Sending, DecoderTypes, Flow, Bytewise, InOrder,
         Numbering, Reached, [LinkNext]_linkVars
  PROVE  Reached'
BY FramerReached, RadioReached DEF LinkNext

LEMMA InitReached ==
  ASSUME LinkInit
  PROVE  Reached
<1>1. /\ tb = NoTb /\ mem = {} /\ air = <<>> /\ suspects = {} /\ hits = 0
      /\ tbNumber = -1 /\ rcvBuf = EmptyBuf /\ thrown = FALSE
  BY DEF LinkInit, Init, DecoderInit
<1>2. Few
  BY <1>1, FS_EmptySet DEF Few
<1>3. tb.no = 0 /\ TbReady /\ Ahead = {}
  BY <1>1 DEF NoTb, TbReady, Ahead, OnAir
<1>4. Reach(0)
  BY <1>1, <1>3 DEF Reach
<1> QED
  BY <1>1, <1>2, <1>3, <1>4 DEF Reached, NeverThrows

LEMMA ReachedInvariance == (WholePdus /\ FewHits) => (LinkSpec => []Reached)
<1>1. SUFFICES ASSUME WholePdus, FewHits
               PROVE  LinkSpec => []Reached
  OBVIOUS
<1>2. LinkInit => Reached
  BY InitReached
<1>3. /\ IInv /\ Layout /\ Sending /\ DecoderTypes /\ Flow /\ Bytewise
      /\ InOrder /\ Numbering /\ Reached /\ [LinkNext]_linkVars
      => Reached'
  BY <1>1, NextReached
<1>4. /\ LinkSpec => []Layout
      /\ LinkSpec => []InOrder
      /\ LinkSpec => []Numbering
  BY <1>1, LinkLayout, InOrderInvariance, NumberingInvariance
<1> QED
  BY <1>2, <1>3, <1>4, LinkInvariance, SendingInvariance, DecoderInvariance,
     FlowInvariance, BytewiseInvariance, PTL DEF LinkSpec

\* The decoder's check of the room in its buffer (process_frame of tb_decoder)
\* never throws, whatever frames are lost and whatever pieces of them are
\* spoilt, as long as the radio hits too few frames for the numbers of the TBs,
\* which travel modulo TbMod (256: up to 126 frames), to go around unseen.
THEOREM NeverThrowsCorrect ==
  (WholePdus /\ 2 * MaxHits + 2 < TbMod) => (LinkSpec => []NeverThrows)
<1>1. Reached => NeverThrows
  BY DEF Reached
<1>2. ASSUME WholePdus, FewHits
      PROVE  LinkSpec => []NeverThrows
  BY <1>1, <1>2, ReachedInvariance, PTL
<1> QED
  BY <1>2 DEF FewHits

-----------------------------------------------------------------------------
(* Every piece is of the size that was encoded, and followed by the next   *)

\* A TB is never cut with nothing of it in a frame: the code does that when
\* less than a byte is left in the frame.
NoEmptyCut == (pc = "loop" /\ InOutput) => Available > 0

\* A frame counts as used by a TB when it has a part of it.
UsedOut == usedFrames > 0 => tb.sent > 0

\* The TB was encoded for the constellation and the code that are current.
TbCurrent ==
  tb.no > 0 =>
    /\ tb.fec = current.fec
    /\ tb.size = TbBits(SentCodewords(current.cnst, tb.fec), tb.fec, tb.bytes)

\* A piece is of a TB that was encoded for the piece's constellation.
Sized(p) ==
  /\ p.cnst \in Asked
  /\ p.tb.size = TbBits(SentCodewords(p.cnst, p.tb.fec), p.tb.fec, p.tb.bytes)

Coded ==
  /\ header.cnst \in Asked /\ current.cnst \in Asked
  /\ TbCurrent
  /\ \A p \in Ahead : Sized(p)

\* After a piece comes the next one of its TB.
Followed(p) ==
  \/ End(p) = p.tb.size
  \/ p.tb.no = tb.no /\ End(p) = tb.sent
  \/ \E q \in Ahead : q.tb = p.tb /\ q.from = End(p)

Contiguous == \A p \in Ahead : Followed(p)

LEMMA PartWritten ==
  ASSUME IInv, NoEmptyCut, Write
  PROVE  OutBytes > 0 /\ OutBits > 0
<1>1. pc = "loop" /\ InOutput
  BY WriteFact
<1>2. Available > 0
  BY <1>1 DEF NoEmptyCut
<1>3. /\ OutBytes \in Nat /\ OutBytes <= Available /\ Available \in Nat
      /\ OutBits \in Nat /\ (OutBits = 0 <=> OutBytes = 0)
      /\ OutBytes < Available => OutBytes > 0
  BY <1>1, OutFact
<1> QED
  BY <1>2, <1>3

LEMMA NextUsedOut ==
  ASSUME IInv, NoEmptyCut, UsedOut, [Next]_vars
  PROVE  UsedOut'
<1>1. CASE EncodeTb
  BY <1>1 DEF EncodeTb, UsedOut
<1>2. CASE FillFrame \/ LeaveRoom
  <2>1. Write
    BY <1>2 DEF FillFrame, LeaveRoom
  <2>2. /\ tb'.sent = tb.sent + OutBits /\ OutBits > 0
        /\ InOutput
    BY <2>1, WriteFact, PartWritten
  <2>3. OutBits \in Nat /\ tb.sent \in Nat
    BY <2>2, OutFact DEF IInv, Types, TypeOK
  <2> QED
    BY <2>2, <2>3 DEF UsedOut
<1>3. CASE ~EncodeTb /\ ~FillFrame /\ ~LeaveRoom
  <2>1. UNCHANGED <<usedFrames, tb>>
    BY <1>3 DEF Next, BeginCall, Loop, Arrive, ProcessFeedbackHeader, PassOn,
       ProduceLoaded, EmptyFrame, GiveUp, EnterLoop, FlushForNewCnst,
       NoWholePdu, OutputDone, OutputWait, FinalizeFrame, LeaveLoop, vars,
       buildVars
  <2> QED
    BY <2>1 DEF UsedOut
<1> QED
  BY <1>1, <1>2, <1>3

LEMMA NextTbCurrent ==
  ASSUME IInv, Layout, TbCurrent, [Next]_vars
  PROVE  TbCurrent'
<1>1. CASE EncodeTb
  <2>1. tb' = NewTb(NextPayload.read + CrcLen) /\ current' = header
    BY <1>1 DEF EncodeTb
  <2> QED
    BY <2>1 DEF TbCurrent, NewTb
<1>2. CASE FillFrame \/ LeaveRoom
  <2>1. Write
    BY <1>2 DEF FillFrame, LeaveRoom
  <2>2. /\ tb'.no = tb.no /\ tb'.size = tb.size /\ current' = current
        /\ tb' = [tb EXCEPT !.sent = @ + OutBits]
    BY <2>1, WriteFact
  <2>3. tb'.fec = tb.fec /\ tb'.bytes = tb.bytes
    <3>1. tb \in TbSet
      BY DEF IInv, Types
    <3> QED
      BY <2>2, <3>1 DEF TbSet
  <2> QED
    BY <2>2, <2>3 DEF TbCurrent
<1>3. CASE ~EncodeTb /\ ~FillFrame /\ ~LeaveRoom /\ ~NoWholePdu
  <2>1. UNCHANGED <<current, tb>>
    BY <1>3 DEF Next, BeginCall, Loop, Arrive, ProcessFeedbackHeader, PassOn,
       ProduceLoaded, EmptyFrame, GiveUp, EnterLoop, FlushForNewCnst,
       OutputDone, OutputWait, FinalizeFrame, LeaveLoop, vars,
       buildVars, radioVars
  <2> QED
    BY <2>1 DEF TbCurrent
<1> QED
  BY <1>1, <1>2, <1>3, NeverNoWholePdu

\* A TB that is output has a number.
LEMMA TbNumbered ==
  ASSUME IInv, Sending, InOutput
  PROVE  tb.no > 0
<1>1. tb.no # 0
  BY DEF Sending, NoTb, InOutput, TbReady
<1> QED
  BY <1>1 DEF IInv, Types, TypeOK

\* What is written is of the size of its TB's constellation and code.
LEMMA WriteSized ==
  ASSUME IInv, Sending, TbCurrent, current.cnst \in Asked, Write, OutBits > 0
  PROVE  Sized(Piece(call.at, OutBits))
<1> DEFINE q == Piece(call.at, OutBits)
<1>1. /\ q.cnst = current.cnst /\ q.tb.size = tb.size
      /\ q.tb.fec = tb.fec /\ q.tb.bytes = tb.bytes
  BY NewPiece
<1>2. tb.no > 0
  BY WriteFact, TbNumbered
<1> HIDE DEF q
<1>3. Sized(q)
  BY <1>1, <1>2 DEF TbCurrent, Sized
<1> QED
  BY <1>3 DEF q

LEMMA NextCoded ==
  ASSUME IInv, Layout, Sending, Flow, Coded, [Next]_vars
  PROVE  Coded'
<1> USE DEF Asked
<1>1. TbCurrent' /\ header'.cnst \in Asked /\ current'.cnst \in Asked
  BY NextTbCurrent, NextAsked DEF Coded
<1>2. \A p \in Ahead' : Sized(p)
  <2>1. CASE Kept
    BY <2>1 DEF Kept, SameBits, Coded, Sized, Asked
  <2>2. CASE EncodeTb
    <3>1. Ahead' = Ahead
      BY <2>2, NewTbFact DEF Ahead, OnAir, Sent
    <3> QED
      BY <3>1 DEF Coded
  <2>3. CASE Write
    <3>1. air' = air
      BY <2>3, WriteFact
    <3>2. \A p \in Ahead' : p \in Ahead \/ (p = Piece(call.at, OutBits)
                                              /\ OutBits > 0)
      BY <2>3, <3>1, WrittenPiece DEF Ahead, OnAir, Sent
    <3> QED
      BY <2>3, <3>2, WriteSized DEF Coded
  <2>4. CASE PassOn
    <3>1. Ahead' \subseteq Ahead
      BY <2>4 DEF PassOn, outVars, Ahead, OnAir
    <3> QED
      BY <3>1 DEF Coded
  <2> QED
    BY <2>1, <2>2, <2>3, <2>4, StepKinds
<1> QED
  BY <1>1, <1>2 DEF Coded

LEMMA CodedInvariance == WholePdus => (LinkSpec => []Coded)
<1> SUFFICES ASSUME WholePdus PROVE LinkSpec => []Coded
  OBVIOUS
<1>1. Init => Coded
  BY DEF Init, Coded, TbCurrent, NoTb, Ahead, OnAir, Asked
<1>2. IInv /\ Layout /\ Sending /\ Flow /\ Coded /\ [Next]_vars => Coded'
  BY NextCoded
<1> QED
  BY <1>1, <1>2, FramerFact, LinkInvariance, LinkLayout, SendingInvariance,
     FlowInvariance, PTL DEF LinkSpec

LEMMA NextContiguous ==
  ASSUME IInv, Layout, Sending, Flow, InOrder, Contiguous, [Next]_vars
  PROVE  Contiguous'
<1>1. CASE Kept
  <2>1. ASSUME NEW p \in Ahead'
        PROVE  Followed(p)'
    <3>1. PICK q \in Ahead : SameBits(p, q)
      BY <1>1 DEF Kept
    <3>2. Followed(q) /\ End(p) = End(q) /\ p.tb = q.tb /\ tb' = tb
      BY <1>1, <3>1 DEF Contiguous, End, SameBits, Kept
    <3>3. CASE \E r \in Ahead : r.tb = q.tb /\ r.from = End(q)
      <4>1. \E s \in Ahead' : s.tb = p.tb /\ s.from = End(p)
        BY <1>1, <3>2, <3>3 DEF Kept, SameBits
      <4> QED
        BY <4>1 DEF Followed, End
    <3>4. CASE End(q) = q.tb.size \/ (q.tb.no = tb.no /\ End(q) = tb.sent)
      BY <3>2, <3>4 DEF Followed, End
    <3> QED
      BY <3>2, <3>3, <3>4 DEF Followed
  <2> QED
    BY <2>1 DEF Contiguous
<1>2. CASE EncodeTb
  <2>1. Ahead' = Ahead /\ TbReady
    <3>1. action = "input"
      BY <1>2 DEF EncodeTb, Processing
    <3> QED
      BY <1>2, <3>1, NewTbFact DEF Ahead, OnAir, Sent, Flow
  <2>2. ASSUME NEW p \in Ahead, p.tb.no = tb.no, End(p) = tb.sent
        PROVE  End(p) = p.tb.size
    <3>1. p.tb = ThisTb
      BY <2>2 DEF Sending, PieceOK
    <3>2. ThisTb.size = tb.size
      BY DEF ThisTb, IInv, Types, TbSet
    <3> QED
      BY <2>1, <2>2, <3>1, <3>2 DEF TbReady
  <2>3. \A p \in Ahead : \/ End(p) = p.tb.size
                         \/ \E q \in Ahead : q.tb = p.tb /\ q.from = End(p)
    BY <2>2 DEF Contiguous, Followed
  <2> QED
    BY <2>1, <2>3 DEF Contiguous, Followed, End
<1>3. CASE Write
  <2> DEFINE w == Piece(call.at, OutBits)
  <2>1. /\ air' = air /\ tb'.sent = tb.sent + OutBits /\ tb'.no = tb.no
        /\ mem \subseteq mem' /\ InOutput
    BY <1>3, WriteFact, WrittenFact
  <2>2. OutBits \in Nat /\ tb.sent \in Nat
    BY <2>1, OutFact DEF IInv, Types, TypeOK
  <2>3. /\ Ahead \subseteq Ahead'
        /\ \A p \in Ahead' : p \in Ahead \/ (p = w /\ OutBits > 0)
    BY <1>3, <2>1, WrittenPiece DEF Ahead, OnAir, Sent
  <2>4. OutBits > 0 => /\ w \in Ahead' /\ w.tb = ThisTb /\ w.from = tb.sent
                       /\ w.tb.no = tb.no /\ w.bits = OutBits
    BY <1>3, NewPiece DEF Write, Ahead
  <2> HIDE DEF w
  <2>5. ASSUME NEW p \in Ahead
        PROVE  Followed(p)'
    <3>1. CASE p.tb.no = tb.no /\ End(p) = tb.sent
      <4>1. CASE OutBits > 0
        <5>1. p.tb = ThisTb
          BY <3>1 DEF Sending, PieceOK
        <5> QED
          BY <2>4, <3>1, <4>1, <5>1 DEF Followed, End
      <4>2. CASE OutBits = 0
        <5>1. tb'.sent = tb.sent
          BY <2>1, <2>2, <4>2
        <5> QED
          BY <2>1, <3>1, <5>1 DEF Followed, End
      <4> QED
        BY <2>2, <4>1, <4>2
    <3>2. CASE \/ End(p) = p.tb.size
               \/ \E q \in Ahead : q.tb = p.tb /\ q.from = End(p)
      BY <2>3, <3>2 DEF Followed, End
    <3> QED
      BY <3>1, <3>2 DEF Contiguous, Followed
  <2>6. ASSUME NEW p \in Ahead', p \notin Ahead
        PROVE  Followed(p)'
    <3>1. p = w /\ OutBits > 0
      BY <2>3, <2>6
    <3>2. p.tb.no = tb.no /\ p.from = tb.sent /\ p.bits = OutBits
      BY <2>4, <3>1
    <3>3. End(p) = tb'.sent
      BY <2>1, <3>2 DEF End
    <3> QED
      BY <2>1, <3>2, <3>3 DEF Followed, End
  <2> QED
    BY <2>5, <2>6 DEF Contiguous
<1>4. CASE PassOn
  <2>1. tb' = tb /\ mem' = mem /\ Ahead' = mem
    BY <1>4 DEF PassOn, buildVars, outVars, Ahead, OnAir
  <2>2. ASSUME NEW p \in mem
        PROVE  Followed(p)'
    <3>1. Followed(p) /\ p \in Ahead
      BY DEF Contiguous, Ahead
    <3>2. ASSUME NEW q \in Ahead, q.tb = p.tb, q.from = End(p)
          PROVE  q \in mem
      <4>1. SUFFICES ASSUME q \in OnAir PROVE FALSE
        BY DEF Ahead
      <4>2. Before(q, p)
        BY <4>1 DEF InOrder
      <4>3. /\ q \in PieceSet /\ p \in PieceSet /\ q.from < End(q)
            /\ p.from < End(p) /\ End(p) \in Nat /\ End(q) \in Nat
        BY <3>1, AheadTypes
      <4>4. p.tb.no \in Nat /\ p.from \in Nat /\ q.from \in Nat
        BY <4>3 DEF PieceSet, TbSet
      <4>5. End(q) <= p.from
        BY <3>2, <4>2, <4>4 DEF Before
      <4> QED
        BY <3>2, <4>3, <4>4, <4>5
    <3>3. CASE \E q \in Ahead : q.tb = p.tb /\ q.from = End(p)
      BY <2>1, <3>2, <3>3 DEF Followed, End
    <3>4. CASE End(p) = p.tb.size \/ (p.tb.no = tb.no /\ End(p) = tb.sent)
      BY <2>1, <3>4 DEF Followed, End
    <3> QED
      BY <3>1, <3>3, <3>4 DEF Followed
  <2> QED
    BY <2>1, <2>2 DEF Contiguous
<1> QED
  BY <1>1, <1>2, <1>3, <1>4, StepKinds

LEMMA ContiguousInvariance == WholePdus => (LinkSpec => []Contiguous)
<1> SUFFICES ASSUME WholePdus PROVE LinkSpec => []Contiguous
  OBVIOUS
<1>1. Init => Contiguous
  BY DEF Init, Contiguous, Ahead, OnAir
<1>2. IInv /\ Layout /\ Sending /\ Flow /\ InOrder /\ Contiguous /\ [Next]_vars
      => Contiguous'
  BY NextContiguous
<1> QED
  BY <1>1, <1>2, FramerFact, LinkInvariance, LinkLayout, SendingInvariance,
     FlowInvariance, InOrderInvariance, PTL DEF LinkSpec

-----------------------------------------------------------------------------
(* Where a TB begins and ends in a frame                                   *)

\* Piece p of the frame that begins at base: if the frame has the end of a TB
\* only, it is the TB whose number the frame has; if it has other bytes too,
\* that TB did not begin in it; and the frame has the code and the length of
\* the TB whose number it has.
Exact(t, p, base) ==
  /\ t.payload = t.offset => p.tb.no % TbMod = t.no
  /\ (t.payload > t.offset /\ t.offset > 0 /\ p.at = base) => p.from > 0
  /\ p.tb.no % TbMod = t.no => p.tb.fec = t.fec /\ p.tb.bytes = t.bytes

LoadedExact ==
  \A i \in 1 .. Len(loaded), p \in mem :
    ((i - 1) * Capacity <= p.at /\ p.at < (i - 1) * Capacity + Capacity) =>
      Exact(loaded[i], p, (i - 1) * Capacity)

AirExact == \A p \in OnAir : Exact(Sent.tags, p, 0)

\* A TB that both begins and ends in the frame under construction closes it.
OpenExact ==
  \A p \in mem : p.at >= Len(loaded) * Capacity =>
    /\ (Closing /\ frame.payload = frame.offset) => p.tb.no = tb.no
    /\ p.from > 0 \/ (Closing /\ p.tb.no = tb.no)
    /\ (p.at = Len(loaded) * Capacity /\ frame.payload > frame.offset) =>
         p.from > 0

Exactly == LoadedExact /\ AirExact /\ OpenExact

LEMMA ExactMoved ==
  ASSUME NEW t, NEW p \in PieceSet, NEW q \in PieceSet, NEW base \in Nat,
         p.at = q.at - Capacity, p.tb = q.tb, p.from = q.from,
         Exact(t, q, base)
  PROVE  Exact(t, p, base - Capacity)
<1>1. p.at = base - Capacity => q.at = base
  BY SizesAssumption DEF PieceSet
<1> QED
  BY <1>1 DEF Exact

\* The first frame of the buffer goes.
LEMMA ProduceExact ==
  ASSUME IInv, Layout, Exactly, loaded # <<>>,
         Produce(Head(loaded), mem), loaded' = Tail(loaded),
         UNCHANGED <<tb, frame, current, action, usedFrames>>
  PROVE  Exactly'
<1> DEFINE t == loaded[1]
           f == [tags |-> t, pieces |-> {p \in mem : p.at < Capacity}]
<1>1. /\ Len(loaded) \in Nat \ {0}
      /\ Len(loaded') = Len(loaded) - 1
      /\ \A i \in 1 .. Len(loaded') : /\ loaded'[i] = loaded[i + 1]
                                      /\ i + 1 \in 1 .. Len(loaded)
      /\ Head(loaded) = t /\ 1 \in 1 .. Len(loaded)
  BY DEF IInv, Types
<1>2. Capacity \in Nat /\ mem \subseteq PieceSet
      /\ \A q \in mem : q.at \in Nat
  BY SizesAssumption DEF IInv, Types, PieceSet
<1>3. ASSUME NEW p \in mem'
      PROVE  \E q \in mem : /\ q.at \in Nat /\ q.at >= Capacity
                            /\ p.at = q.at - Capacity
                            /\ p.tb = q.tb /\ p.from = q.from
                            /\ p \in PieceSet /\ q \in PieceSet
  <2>1. \E q \in mem : /\ q.at >= Capacity /\ p.at = q.at - Capacity
                       /\ p.tb = q.tb /\ p.from = q.from
                       /\ p \in PieceSet
    BY <1>1, <1>2, <1>3, MovedPiece
  <2> QED
    BY <1>2, <2>1
<1>4. AirExact'
  <2>1. air' = <<f>>
    BY <1>1 DEF Produce
  <2>2. Sent' = f /\ f.tags = t /\ OnAir' = {p \in mem : p.at < Capacity}
    BY <2>1 DEF Sent, OnAir
  <2>3. (1 - 1) * Capacity = 0
    BY <1>2
  <2> HIDE DEF f
  <2>4. ASSUME NEW p \in OnAir'
        PROVE  Exact(t, p, 0)
    <3>1. p \in mem /\ p.at < Capacity /\ p.at \in Nat
      BY <1>2, <2>2
    <3>2. (1 - 1) * Capacity <= p.at /\ p.at < (1 - 1) * Capacity + Capacity
      BY <1>2, <2>3, <3>1
    <3>3. Exact(loaded[1], p, (1 - 1) * Capacity)
      BY <1>1, <3>1, <3>2 DEF Exactly, LoadedExact
    <3> QED
      BY <2>3, <3>3, Zenon
  <2> QED
    BY <2>2, <2>4 DEF AirExact
<1>5. ASSUME NEW i \in 1 .. Len(loaded'), NEW p \in mem',
             (i - 1) * Capacity <= p.at,
             p.at < (i - 1) * Capacity + Capacity
      PROVE  Exact(loaded'[i], p, (i - 1) * Capacity)
  <2> DEFINE base == (i + 1 - 1) * Capacity
  <2>1. base \in Nat /\ base - Capacity = (i - 1) * Capacity
        /\ (i - 1) * Capacity + Capacity = base
    <3>1. i \in Nat /\ i - 1 \in Nat /\ i + 1 - 1 = (i - 1) + 1
      BY <1>1
    <3>2. (i - 1) * Capacity \in Nat
      BY <1>2, <3>1
    <3>3. base = (i - 1) * Capacity + Capacity
      BY <1>2, <3>1
    <3> QED
      BY <1>2, <3>2, <3>3
  <2>2. PICK q \in mem : /\ q.at \in Nat /\ q.at >= Capacity
                         /\ p.at = q.at - Capacity
                         /\ p.tb = q.tb /\ p.from = q.from
                         /\ p \in PieceSet /\ q \in PieceSet
    BY <1>3
  <2>3. base <= q.at /\ q.at < base + Capacity
    <3> HIDE DEF base
    <3> QED
      BY <1>2, <1>5, <2>1, <2>2
  <2>4. Exact(loaded[i + 1], q, base)
    BY <1>1, <2>3 DEF Exactly, LoadedExact
  <2> HIDE DEF base
  <2>5. Exact(loaded[i + 1], p, base - Capacity)
    BY <2>1, <2>2, <2>4, ExactMoved
  <2>6. loaded'[i] = loaded[i + 1]
    BY <1>1
  <2> QED
    BY <2>1, <2>5, <2>6, Zenon
<1>6. LoadedExact'
  BY <1>5 DEF LoadedExact
<1>7. OpenExact'
  <2> DEFINE base == Len(loaded) * Capacity
  <2>1. base \in Nat /\ Len(loaded') * Capacity = base - Capacity
    <3>1. Len(loaded) = Len(loaded') + 1 /\ Len(loaded') \in Nat
      BY <1>1
    <3>2. Len(loaded') * Capacity \in Nat
          /\ base = Len(loaded') * Capacity + Capacity
      BY <1>2, <3>1
    <3> QED
      BY <1>2, <3>2
  <2>2. Closing' <=> Closing
    BY DEF Closing, TbReady
  <2>3. \A q \in mem : q.at >= base =>
          /\ (Closing /\ frame.payload = frame.offset) => q.tb.no = tb.no
          /\ q.from > 0 \/ (Closing /\ q.tb.no = tb.no)
          /\ (q.at = base /\ frame.payload > frame.offset) => q.from > 0
    BY DEF Exactly, OpenExact
  <2> HIDE DEF base
  <2>4. ASSUME NEW p \in mem', p.at >= base - Capacity
        PROVE  /\ (Closing /\ frame.payload = frame.offset) => p.tb.no = tb.no
               /\ p.from > 0 \/ (Closing /\ p.tb.no = tb.no)
               /\ (p.at = base - Capacity /\ frame.payload > frame.offset) =>
                    p.from > 0
    <3>1. PICK q \in mem : /\ q.at \in Nat /\ q.at >= Capacity
                           /\ p.at = q.at - Capacity
                           /\ p.tb = q.tb /\ p.from = q.from
      BY <1>3
    <3>2. q.at >= base /\ (p.at = base - Capacity => q.at = base)
      BY <1>2, <2>1, <2>4, <3>1
    <3> QED
      BY <2>3, <3>1, <3>2
  <2> QED
    BY <2>1, <2>2, <2>4 DEF OpenExact
<1> QED
  BY <1>4, <1>6, <1>7 DEF Exactly

\* Steps that leave the frames alone.
LEMMA QuietExact ==
  ASSUME Exactly, UNCHANGED <<tb, loaded, mem, frame>>,
         air' = air \/ air' = <<>>, Closing' <=> Closing
  PROVE  Exactly'
<1>1. LoadedExact' /\ OpenExact'
  BY DEF Exactly, LoadedExact, OpenExact
<1>2. AirExact'
  BY DEF Exactly, AirExact, OnAir, Sent
<1> QED
  BY <1>1, <1>2 DEF Exactly

LEMMA EmptyFrameExact ==
  ASSUME IInv, Layout, EmptyFrame
  PROVE  Exactly'
<1>1. loaded' = <<>> /\ mem = {} /\ mem' = {}
  BY NothingBuilt DEF EmptyFrame, NoInput, Produce, Cleared
<1>2. OnAir' = {}
  BY <1>1 DEF EmptyFrame, Produce, Cleared, OnAir, Sent
<1> QED
  BY <1>1, <1>2 DEF Exactly, LoadedExact, AirExact, OpenExact

\* A new TB: the frame under construction has the end of the one before it.
LEMMA EncodeTbExact ==
  ASSUME IInv, Exactly, EncodeTb
  PROVE  Exactly'
<1>1. /\ UNCHANGED <<loaded, mem, air, frame>>
      /\ tb'.sent = 0 /\ tb'.size > 0
  BY NewTbFact DEF EncodeTb
<1>2. action = "input" /\ ~Closing /\ ~Closing'
  BY <1>1 DEF EncodeTb, Processing, Closing, TbReady
<1>3. LoadedExact' /\ OpenExact'
  BY <1>1, <1>2 DEF Exactly, LoadedExact, OpenExact
<1>4. AirExact'
  BY <1>1 DEF Exactly, AirExact, OnAir, Sent
<1> QED
  BY <1>3, <1>4 DEF Exactly

\* What is written after the loaded frames is not in them.
LEMMA LoadedExactStill ==
  ASSUME IInv, Layout, Exactly,
         \A p \in mem' : \/ p \in mem
                         \/ p.at >= Len(loaded) * Capacity /\ p.at \in Nat,
         NEW i \in 1 .. Len(loaded), NEW p \in mem',
         (i - 1) * Capacity <= p.at, p.at < (i - 1) * Capacity + Capacity
  PROVE  Exact(loaded[i], p, (i - 1) * Capacity)
<1> DEFINE base == Len(loaded) * Capacity
           b == (i - 1) * Capacity
<1>1. b \in Nat /\ b + Capacity <= base /\ base \in Nat /\ Capacity \in Nat
  <2>1. /\ i - 1 \in Nat /\ i \in Nat /\ i <= Len(loaded)
        /\ Len(loaded) \in Nat /\ Capacity \in Nat /\ base \in Nat
    BY BaseFact
  <2>2. b \in Nat /\ b + Capacity = i * Capacity
    BY <2>1
  <2>3. i * Capacity <= Len(loaded) * Capacity
    <3>1. \A a, c, d \in Nat : a <= c => a * d <= c * d
      OBVIOUS
    <3> QED
      BY <2>1, <3>1
  <2> QED
    BY <2>1, <2>2, <2>3
<1>2. p \in mem
  <2>1. p \in mem \/ (p.at >= base /\ p.at \in Nat)
    OBVIOUS
  <2>2. p.at < b + Capacity
    OBVIOUS
  <2> HIDE DEF base, b
  <2> QED
    BY <1>1, <2>1, <2>2
<1> QED
  BY <1>2 DEF Exactly, LoadedExact

\* A frame joins the loaded ones, with pieces that are all in it.
LEMMA AppendExact ==
  ASSUME IInv, Layout, Exactly, NEW tags,
         loaded' = Append(loaded, tags), air' = air,
         \A p \in mem' : \/ p \in mem
                         \/ p.at >= Len(loaded) * Capacity /\ p.at \in Nat,
         \A p \in mem' : p.at < Len(loaded) * Capacity + Capacity,
         \A p \in mem' : p.at >= Len(loaded) * Capacity =>
           Exact(tags, p, Len(loaded) * Capacity)
  PROVE  Exactly'
<1> DEFINE base == Len(loaded) * Capacity
<1>1. /\ loaded \in Seq(TagSet) /\ Len(loaded) \in Nat
      /\ Len(loaded') = Len(loaded) + 1
      /\ \A i \in 1 .. Len(loaded) : loaded'[i] = loaded[i]
      /\ loaded'[Len(loaded) + 1] = tags
  BY DEF IInv, Types
<1>2. /\ base \in Nat /\ Capacity \in Nat \ {0}
      /\ (Len(loaded) + 1) * Capacity = base + Capacity
      /\ \A p \in mem : p.at \in Nat
  BY BaseFact
<1>3. LoadedExact'
  <2>1. ASSUME NEW i \in 1 .. Len(loaded'), NEW p \in mem',
               (i - 1) * Capacity <= p.at,
               p.at < (i - 1) * Capacity + Capacity
        PROVE  Exact(loaded'[i], p, (i - 1) * Capacity)
    <3>1. i \in 1 .. Len(loaded) \/ i = Len(loaded) + 1
      BY <1>1
    <3>2. CASE i \in 1 .. Len(loaded)
      <4>1. Exact(loaded[i], p, (i - 1) * Capacity)
        BY <2>1, <3>2, LoadedExactStill
      <4> QED
        BY <1>1, <3>2, <4>1
    <3>3. CASE i = Len(loaded) + 1
      <4>1. i - 1 = Len(loaded) /\ loaded'[i] = tags
        BY <1>1, <3>3
      <4>2. (i - 1) * Capacity = base
        BY <4>1
      <4>3. Exact(tags, p, base)
        BY <2>1, <4>2
      <4> QED
        BY <4>1, <4>2, <4>3, Zenon
    <3> QED
      BY <3>1, <3>2, <3>3
  <2> QED
    BY <2>1 DEF LoadedExact
<1>4. AirExact'
  BY DEF Exactly, AirExact, OnAir, Sent
<1>5. OpenExact'
  <2>1. Len(loaded') * Capacity = base + Capacity
    BY <1>1, <1>2
  <2>2. \A p \in mem' : p.at \in Nat /\ p.at < base + Capacity
    BY <1>2
  <2> HIDE DEF base
  <2>3. \A p \in mem' : ~(p.at >= base + Capacity)
    BY <1>2, <2>2
  <2> QED
    BY <2>1, <2>3 DEF OpenExact
<1> QED
  BY <1>3, <1>4, <1>5 DEF Exactly

\* The tags of a frame have the code and the length of its TB only.
LEMMA TagsExact ==
  ASSUME IInv, TbCurrent, TbMod > 1, tb.no > 0, NEW payload, NEW p,
         \/ p.tb.no = tb.no /\ p.tb.fec = tb.fec /\ p.tb.bytes = tb.bytes
         \/ p.tb.no = tb.no - 1
  PROVE  LET t == Tags(current, payload)
         IN  /\ t.no = tb.no % TbMod
             /\ p.tb.no % TbMod = t.no =>
                  p.tb.fec = t.fec /\ p.tb.bytes = t.bytes
<1> DEFINE t == Tags(current, payload)
<1>1. t.no = tb.no % TbMod /\ t.bytes = tb.bytes /\ t.fec = current.fec
  BY DEF Tags
<1> HIDE DEF t
<1>2. tb.fec = current.fec
  BY DEF TbCurrent
<1>3. ASSUME p.tb.no = tb.no - 1, p.tb.no % TbMod = tb.no % TbMod
      PROVE  FALSE
  <2>1. TbMod \in Nat \ {0} /\ tb.no \in Nat
    BY SizesAssumption DEF IInv, Types, TypeOK
  <2>2. tb.no - 1 \in Nat /\ tb.no > tb.no - 1
        /\ (tb.no - 1) % TbMod = tb.no % TbMod
    BY <1>3, <2>1
  <2>3. tb.no - (tb.no - 1) >= TbMod
    BY <2>1, <2>2, ModFact
  <2> QED
    BY <2>1, <2>3
<1>4. p.tb.no % TbMod = t.no => p.tb.fec = t.fec /\ p.tb.bytes = t.bytes
  BY <1>1, <1>2, <1>3
<1> QED
  BY <1>1, <1>4 DEF t

\* A piece of the current TB in the buffer.
LEMMA OfThisTb ==
  ASSUME IInv, Sending, NEW p \in mem, p.tb.no = tb.no
  PROVE  p.tb.fec = tb.fec /\ p.tb.bytes = tb.bytes
<1>1. p.tb = ThisTb
  BY DEF Sending, Ahead, PieceOK
<1>2. ThisTb.fec = tb.fec /\ ThisTb.bytes = tb.bytes
  BY DEF ThisTb, IInv, Types, TbSet
<1> QED
  BY <1>1, <1>2

\* The place of what is written, after a frame has begun.
LEMMA WrittenPlace ==
  ASSUME IInv, Layout, Write, NEW p \in mem'
  PROVE  /\ p \in mem \/ (p.at >= Len(loaded) * Capacity /\ p.at \in Nat)
         /\ frame.offset > 0 =>
              BytesToSyms(frame.offset, current.cnst) \in Nat \ {0}
<1> DEFINE base == Len(loaded) * Capacity
<1>1. ASSUME p = Piece(call.at, OutBits), OutBits > 0
      PROVE  p.at >= base /\ p.at \in Nat
  <2>1. p.at = call.at /\ call.at = base + frame.used
    BY <1>1, NewPiece, WrittenFact
  <2>2. base \in Nat /\ frame.used \in Nat
    BY BaseFact
  <2> HIDE DEF base
  <2> QED
    BY <2>1, <2>2
<1>2. frame.offset > 0 =>
        BytesToSyms(frame.offset, current.cnst) \in Nat \ {0}
  <2>1. frame.offset \in Nat /\ current.cnst \in Constellations
    BY DEF IInv, Types, TypeOK
  <2> QED
    BY <2>1, SymsFact
<1> QED
  BY <1>1, <1>2, WrittenPiece

\* What a write adds to a frame: after the end of the TB before, a part of the
\* current one; the other began in an earlier frame.
LEMMA WrittenExact ==
  ASSUME IInv, Layout, Sending, Numbering, Exactly, TbCurrent, TbMod > 1,
         Write, NEW p \in mem', p.at >= Len(loaded) * Capacity, NEW payload
  PROVE  LET t == Tags(current, payload)
         IN  /\ p.tb.no % TbMod = t.no =>
                  p.tb.fec = t.fec /\ p.tb.bytes = t.bytes
             /\ \/ p.tb.no = tb.no /\ p.from = tb.sent
                \/ p.from > 0 /\ frame.offset > 0
             /\ (frame.offset > 0 /\ p.at = Len(loaded) * Capacity) =>
                  p.from > 0
<1> DEFINE base == Len(loaded) * Capacity
<1>1. tb.no > 0 /\ ~Closing /\ base \in Nat
  BY WriteFact, TbNumbered, BaseFact
<1>2. CASE /\ p \in mem /\ frame.offset > 0 /\ p.tb.no = tb.no - 1
  <2>1. p.from > 0
    BY <1>1, <1>2 DEF Exactly, OpenExact
  <2> QED
    BY <1>1, <1>2, <2>1, TagsExact
<1>3. CASE /\ p = Piece(call.at, OutBits) /\ OutBits > 0
           /\ p.at = base + BytesToSyms(frame.offset, current.cnst)
  <2>1. /\ p.tb.no = tb.no /\ p.tb.fec = tb.fec /\ p.tb.bytes = tb.bytes
        /\ p.from = tb.sent
    BY <1>3, NewPiece
  <2>2. frame.offset > 0 => p.at # base
    <3>1. frame.offset > 0 =>
            BytesToSyms(frame.offset, current.cnst) \in Nat \ {0}
      BY WrittenPlace
    <3> HIDE DEF base
    <3> QED
      BY <1>1, <1>3, <3>1
  <2> QED
    BY <1>1, <2>1, <2>2, TagsExact
<1>4. OutBytes > 0 => OutBits > 0
  <2>1. OutBytes \in Nat /\ OutBits \in Nat /\ (OutBits = 0 <=> OutBytes = 0)
    BY WriteFact, OutFact
  <2> QED
    BY <2>1
<1> QED
  BY <1>2, <1>3, <1>4, WrittenNumbers

LEMMA FillFrameExact ==
  ASSUME IInv, Layout, Sending, Numbering, Exactly, TbCurrent, TbMod > 1,
         NoEmptyCut, FillFrame
  PROVE  Exactly'
<1> DEFINE base == Len(loaded) * Capacity
           payload == (frame.used * current.cnst) \div 8 + OutBytes
           tags == Tags(current, payload)
<1>1. /\ Write /\ loaded' = Append(loaded, tags)
  BY DEF FillFrame
<1>2. air' = air /\ InOutput /\ OutBytes > 0
  BY <1>1, WriteFact, PartWritten
<1>3. payload > frame.offset
  <2>1. payload = frame.offset + OutBytes
    BY <1>1, FilledFact
  <2>2. OutBytes \in Nat /\ frame.offset \in Nat
    BY <1>2, OutFact DEF IInv, Types, TypeOK
  <2> HIDE DEF payload
  <2> QED
    BY <1>2, <2>1, <2>2
<1>4. tags.offset = frame.offset /\ tags.payload = payload
  BY DEF Tags
<1>5. ASSUME NEW p \in mem', p.at >= base
      PROVE  Exact(tags, p, base)
  <2>1. /\ p.tb.no % TbMod = tags.no =>
             p.tb.fec = tags.fec /\ p.tb.bytes = tags.bytes
        /\ (frame.offset > 0 /\ p.at = base) => p.from > 0
    BY <1>1, <1>5, WrittenExact
  <2>2. frame.offset \in Nat /\ payload # frame.offset
    <3>1. frame.offset \in Nat
      BY DEF IInv, Types, TypeOK
    <3> HIDE DEF payload
    <3> QED
      BY <1>3, <3>1
  <2> HIDE DEF tags, payload, base
  <2> QED
    BY <1>4, <2>1, <2>2 DEF Exact
<1>6. \A p \in mem' : /\ p \in mem \/ (p.at >= base /\ p.at \in Nat)
                      /\ p.at < base + Capacity
  BY <1>1, WrittenPlace, WrittenNumbers, BaseFact
<1> QED
  BY <1>1, <1>2, <1>5, <1>6, AppendExact

LEMMA LeaveRoomExact ==
  ASSUME IInv, Layout, Sending, Numbering, Exactly, TbCurrent, TbMod > 1,
         UsedOut, LeaveRoom
  PROVE  Exactly'
<1> DEFINE base == Len(loaded) * Capacity
           first == frame.offset = 0
<1>1. /\ Write /\ loaded' = loaded /\ OutBytes < Available
      /\ frame'.offset = (IF first THEN OutBytes ELSE frame.offset)
      /\ frame'.payload = frame.payload + OutBytes
  BY DEF LeaveRoom
<1>2. /\ tb'.no = tb.no /\ tb'.size = tb.size /\ air' = air /\ InOutput
      /\ tb'.sent = tb.sent + OutBits
      /\ usedFrames' = usedFrames + 1 /\ action' = action
  BY <1>1, WriteFact
<1>3. /\ OutBytes \in Nat \ {0} /\ OutBits = tb.size - tb.sent
      /\ frame.offset \in Nat /\ frame.payload = frame.offset
      /\ tb.no \in Nat /\ tb.size \in Nat /\ tb.sent \in Nat
      /\ usedFrames \in Nat
  BY <1>1, <1>2, OutFact, FilledFact DEF IInv, Types, TypeOK
<1>4. tb.sent = 0 => Closing'
  <2>1. tb.sent = 0 => usedFrames = 0
    BY <1>3 DEF UsedOut
  <2>2. TbReady' /\ action' = "output"
    BY <1>2, <1>3 DEF TbReady, InOutput
  <2> QED
    BY <1>2, <2>1, <2>2 DEF Closing
<1>5. (frame'.payload = frame'.offset <=> first)
      /\ (frame'.payload > frame'.offset => frame.offset > 0)
  BY <1>1, <1>3
<1>6. ASSUME NEW p \in mem', p.at >= base
      PROVE  /\ first => p.tb.no = tb.no
             /\ p.from > 0 \/ (Closing' /\ p.tb.no = tb.no)
             /\ (p.at = base /\ frame.offset > 0) => p.from > 0
  <2>1. /\ \/ p.tb.no = tb.no /\ p.from = tb.sent
           \/ p.from > 0 /\ frame.offset > 0
        /\ (frame.offset > 0 /\ p.at = base) => p.from > 0
    BY <1>1, <1>6, WrittenExact
  <2> HIDE DEF base
  <2> QED
    BY <1>3, <1>4, <2>1
<1>7. OpenExact'
  BY <1>1, <1>2, <1>5, <1>6 DEF OpenExact
<1>8. LoadedExact'
  <2>1. \A p \in mem' : p \in mem \/ (p.at >= base /\ p.at \in Nat)
    BY <1>1, WrittenPlace
  <2>2. ASSUME NEW i \in 1 .. Len(loaded), NEW p \in mem',
               (i - 1) * Capacity <= p.at,
               p.at < (i - 1) * Capacity + Capacity
        PROVE  Exact(loaded[i], p, (i - 1) * Capacity)
    BY <2>1, <2>2, LoadedExactStill
  <2> QED
    BY <1>1, <2>2 DEF LoadedExact
<1>9. AirExact'
  BY <1>2 DEF Exactly, AirExact, OnAir, Sent
<1> QED
  BY <1>7, <1>8, <1>9 DEF Exactly

LEMMA FinalizedExact ==
  ASSUME IInv, Layout, Sending, Numbering, Exactly, TbCurrent, TbMod > 1,
         ~InOutput, Finalize(current), UNCHANGED <<tb, mem, air>>
  PROVE  Exactly'
<1> DEFINE base == Len(loaded) * Capacity
           tags == Tags(current, frame.payload)
<1>1. loaded' = Append(loaded, tags)
  BY DEF Finalize
<1>2. /\ tags.offset = frame.offset /\ tags.payload = frame.payload
      /\ tags.no = tb.no % TbMod
  BY DEF Tags
<1>3. ASSUME NEW p \in mem', p.at >= base
      PROVE  Exact(tags, p, base)
  <2>1. /\ (Closing /\ frame.payload = frame.offset) => p.tb.no = tb.no
        /\ (p.at = base /\ frame.payload > frame.offset) => p.from > 0
    BY <1>3 DEF Exactly, OpenExact
  <2>2. ~Closing => p.tb.no = tb.no
    BY <1>3 DEF Numbering, Building
  <2>3. p.tb.no = tb.no - 1 \/ p.tb.no = tb.no
    BY <1>3 DEF Numbering, Building, Fits
  <2>4. tb.no > 0
    <3>1. PieceOK(p) /\ tb.no \in Nat
      BY DEF Sending, Ahead, IInv, Types, TypeOK
    <3> QED
      BY <3>1 DEF PieceOK
  <2>5. p.tb.no % TbMod = tags.no =>
          p.tb.fec = tags.fec /\ p.tb.bytes = tags.bytes
    BY <2>3, <2>4, OfThisTb, TagsExact
  <2> HIDE DEF tags, base
  <2> QED
    BY <1>2, <2>1, <2>2, <2>5 DEF Exact
<1>4. \A p \in mem' : p \in mem /\ p.at < base + Capacity
  BY BaseFact
<1> HIDE DEF tags
<1> QED
  BY <1>1, <1>3, <1>4, AppendExact

LEMMA OutputDoneExact ==
  ASSUME IInv, Layout, Sending, Numbering, Exactly, TbCurrent, TbMod > 1,
         OutputDone
  PROVE  Exactly'
<1>1. UNCHANGED <<tb, mem, air, current, usedFrames>> /\ ~InOutput
  BY DEF OutputDone, radioVars, InOutput
<1>2. CASE Finalizes
  BY <1>1, <1>2, FinalizedExact DEF OutputDone
<1>3. CASE ~Finalizes
  <2>1. UNCHANGED <<loaded, frame>> /\ action' = "input"
    BY <1>3 DEF OutputDone
  <2>2. ~Closing /\ ~Closing'
    BY <1>3, <2>1 DEF Finalizes, Closing
  <2> QED
    BY <1>1, <2>1, <2>2, QuietExact
<1> QED
  BY <1>2, <1>3

LEMMA NextExact ==
  ASSUME IInv, Layout, Sending, Numbering, Exactly, TbCurrent, TbMod > 1,
         NoEmptyCut, UsedOut, [Next]_vars
  PROVE  Exactly'
<1>1. CASE FinalizeFrame
  <2>1. ~InOutput
    BY <1>1 DEF FinalizeFrame, InOutput
  <2> QED
    BY <1>1, <2>1, FinalizedExact DEF FinalizeFrame
<1>2. CASE FlushForNewCnst
  <2>1. /\ UNCHANGED <<tb, loaded, mem, frame, air>>
        /\ action = "input" /\ action' = "final"
    BY <1>2 DEF FlushForNewCnst, Processing, outVars
  <2>2. ~Closing /\ ~Closing'
    BY <2>1 DEF Closing
  <2> QED
    BY <2>1, <2>2, QuietExact
<1>3. CASE \/ Arrive \/ ProcessFeedbackHeader \/ PassOn \/ GiveUp
           \/ EnterLoop \/ OutputWait \/ UNCHANGED vars
  <2>1. /\ UNCHANGED <<tb, loaded, mem, frame, action, usedFrames>>
        /\ air' = air \/ air' = <<>>
    BY <1>3 DEF Arrive, ProcessFeedbackHeader, PassOn, GiveUp, EnterLoop,
       OutputWait, vars, radioVars, buildVars, outVars
  <2>2. Closing' <=> Closing
    BY <2>1 DEF Closing, TbReady
  <2> QED
    BY <2>1, <2>2, QuietExact
<1>4. CASE ProduceLoaded
  BY <1>4, ProduceExact DEF ProduceLoaded, radioVars, buildVars
<1>5. CASE LeaveLoop
  <2>1. UNCHANGED <<tb, frame, current, action, usedFrames>>
    BY <1>5 DEF LeaveLoop, radioVars, buildVars
  <2>2. CASE loaded = <<>>
    <3>1. UNCHANGED <<loaded, mem, air>>
      BY <1>5, <2>2 DEF LeaveLoop, outVars
    <3>2. Closing' <=> Closing
      BY <2>1 DEF Closing, TbReady
    <3> QED
      BY <2>1, <3>1, <3>2, QuietExact
  <2>3. CASE loaded # <<>>
    BY <1>5, <2>1, <2>3, ProduceExact DEF LeaveLoop
  <2> QED
    BY <2>2, <2>3
<1> QED
  BY <1>1, <1>2, <1>3, <1>4, <1>5, EmptyFrameExact, EncodeTbExact,
     NeverNoWholePdu, FillFrameExact, LeaveRoomExact,
     OutputDoneExact DEF Next, BeginCall, Loop


-----------------------------------------------------------------------------
(* What a frame on the air is made of                                      *)

\* All that the frame has is the end of TB n,
Alone(p, n) ==
  /\ p.tb.no = n /\ Sent.tags.payload = Sent.tags.offset
  /\ p.at = 0 /\ BitsToBytes(p.bits) = Sent.tags.payload
  /\ End(p) = p.tb.size

\* or it has the end of the TB before n, which began in an earlier frame,
EndsBefore(p, n) ==
  /\ p.tb.no = n - 1
  /\ Sent.tags.payload > Sent.tags.offset /\ Sent.tags.offset > 0
  /\ p.at = 0 /\ BitsToBytes(p.bits) = Sent.tags.offset
  /\ End(p) = p.tb.size /\ p.from > 0

\* and a part of TB n.
PartOf(p, n) ==
  /\ p.tb.no = n /\ Sent.tags.payload > Sent.tags.offset
  /\ p.at = BytesToSyms(Sent.tags.offset, Sent.tags.cnst)
  /\ BitsToBytes(p.bits) = Sent.tags.payload - Sent.tags.offset

Parts(n) ==
  LET t == Sent.tags
  IN  /\ \A p, q \in OnAir : p.at = q.at => p = q
      /\ \A p \in OnAir :
           /\ Alone(p, n) \/ EndsBefore(p, n) \/ PartOf(p, n)
           /\ p.cnst = t.cnst
           /\ p.tb.no = n => p.tb.fec = t.fec /\ p.tb.bytes = t.bytes
      /\ (t.payload > t.offset /\ t.offset > 0) =>
           \E p \in OnAir : EndsBefore(p, n)
      /\ t.payload > 0 => \E p \in OnAir : Alone(p, n) \/ PartOf(p, n)

LEMMA FrameParts ==
  ASSUME IInv, Layout, Sending, InOrder, Numbering, Exactly, TbMod > 1,
         air # <<>>, NEW n \in 0 .. tb.no, About(n)
  PROVE  Parts(n)
<1> DEFINE t == Sent.tags
           syms == BytesToSyms(t.offset, t.cnst)
<1>1. /\ air = <<Sent>> /\ Sent \in FrameSet /\ OnAir = Sent.pieces
      /\ t \in TagSet /\ t.offset <= t.payload /\ t.offset \in Nat
      /\ t.payload \in Nat /\ t.cnst \in Constellations
  BY DEF Sending, OnAir, TagOK, TagSet
<1>2. PICK m \in 0 .. tb.no :
             /\ t.no = m % TbMod
             /\ \A p \in Sent.pieces : (0 <= p.at /\ p.at < 0 + Capacity) =>
                  Fits(p, 0, t.cnst, t.offset, t.payload, m)
  BY DEF Numbering, AirNumbered, Numbered
<1>3. /\ tb.no \in Nat /\ n \in Nat /\ m \in Nat /\ TbMod \in Nat \ {0}
      /\ n % TbMod = m % TbMod /\ t.no = n % TbMod
  BY <1>2, SizesAssumption DEF IInv, Types, TypeOK, About
<1>4. \A a, b \in Nat : a % TbMod = b % TbMod => a # b + 1
  <2>1. SUFFICES ASSUME NEW b \in Nat, (b + 1) % TbMod = b % TbMod
                 PROVE  FALSE
    BY <1>3
  <2>2. b + 1 \in Nat /\ b + 1 > b
    OBVIOUS
  <2>3. (b + 1) - b >= TbMod
    BY <1>3, <2>1, <2>2, ModFact
  <2> QED
    BY <1>3, <2>3
<1>5. ASSUME NEW p \in OnAir
      PROVE  /\ p \in PieceSet /\ p.tb.no \in Nat /\ p.at \in Nat
             /\ Fits(p, 0, t.cnst, t.offset, t.payload, n)
             /\ Exact(t, p, 0)
  <2>1. p \in PieceSet /\ p.tb.no \in Nat /\ p.at \in Nat /\ p.at < Capacity
    <3>1. p \in PieceSet /\ p.at < Capacity
      BY <1>1, AheadTypes DEF Ahead, Numbering, AirNumbered
    <3> QED
      BY <3>1 DEF PieceSet, TbSet
  <2>2. Fits(p, 0, t.cnst, t.offset, t.payload, m)
    <3>1. 0 <= p.at /\ p.at < 0 + Capacity
      BY <2>1, SizesAssumption
    <3> QED
      BY <1>1, <1>2, <3>1
  <2>3. p.tb.no = m - 1 \/ p.tb.no = m
    BY <2>2 DEF Fits
  <2>4. p.tb.no = n - 1 \/ p.tb.no = n
    BY DEF About
  <2>5. n = m \/ n = m + 1 \/ m = n + 1
    BY <1>3, <2>3, <2>4
  <2>6. n = m
    BY <1>3, <1>4, <2>5
  <2>7. Exact(t, p, 0)
    BY DEF Exactly, AirExact
  <2> QED
    BY <2>1, <2>2, <2>6, <2>7
<1>6. syms \in Nat /\ t.offset <= syms /\ 0 + syms = syms
  BY <1>1, SymsFact
<1>7. ASSUME NEW p \in OnAir
      PROVE  Alone(p, n) \/ EndsBefore(p, n) \/ PartOf(p, n)
  <2>1. /\ Fits(p, 0, t.cnst, t.offset, t.payload, n) /\ Exact(t, p, 0)
        /\ p.tb.no \in Nat
    BY <1>5
  <2>2. CASE /\ p.at = 0 + syms
             /\ t.payload > t.offset
             /\ BitsToBytes(p.bits) = t.payload - t.offset /\ p.tb.no = n
    BY <1>6, <2>2 DEF PartOf
  <2>3. CASE /\ p.at = 0 /\ t.offset > 0 /\ BitsToBytes(p.bits) = t.offset
             /\ End(p) = p.tb.size
             /\ p.tb.no = n /\ t.payload = t.offset
    BY <2>3 DEF Alone
  <2>4. CASE /\ p.at = 0 /\ t.offset > 0 /\ BitsToBytes(p.bits) = t.offset
             /\ End(p) = p.tb.size
             /\ p.tb.no = n - 1
    <3>1. t.payload # t.offset
      <4>1. SUFFICES ASSUME t.payload = t.offset PROVE FALSE
        OBVIOUS
      <4>2. p.tb.no % TbMod = n % TbMod
        BY <1>3, <2>1, <4>1 DEF Exact
      <4>3. n = p.tb.no + 1
        BY <1>3, <2>1, <2>4
      <4> QED
        BY <1>3, <1>4, <2>1, <4>2, <4>3
    <3>2. t.payload > t.offset
      BY <1>1, <3>1
    <3>3. p.from > 0
      BY <2>1, <2>4, <3>2 DEF Exact
    <3> QED
      BY <2>4, <3>2, <3>3 DEF EndsBefore
  <2> QED
    BY <2>1, <2>2, <2>3, <2>4 DEF Fits
<1>8. \A p, q \in OnAir : p.at = q.at => p = q
  BY <1>5 DEF InOrder, Ordered
<1>9. FrameIntact(Sent)
  <2>1. 1 \in DOMAIN air /\ air[1] = Sent
    BY <1>1
  <2> QED
    BY <2>1 DEF Layout, FramesIntact
<1>10. t.offset > 0 => \E p \in OnAir : p.at = 0 /\ p.cnst = t.cnst
  BY <1>1, <1>9 DEF FrameIntact, Found
<1>11. t.payload > t.offset => \E p \in OnAir : p.at = syms /\ p.cnst = t.cnst
  <2>1. t.payload > t.offset => t.payload - t.offset > 0
    BY <1>1
  <2> QED
    BY <1>1, <1>9, <2>1 DEF FrameIntact, Found
<1> HIDE DEF syms
<1>12. ASSUME NEW p \in OnAir
       PROVE  /\ p.cnst = t.cnst
              /\ p.tb.no = n => p.tb.fec = t.fec /\ p.tb.bytes = t.bytes
  <2>1. p.tb.no = n => p.tb.fec = t.fec /\ p.tb.bytes = t.bytes
    BY <1>3, <1>5 DEF Exact
  <2>2. CASE Alone(p, n)
    <3>1. t.offset > 0
      <4>1. p \in PieceSet
        BY <1>5
      <4>2. p.bits \in Nat \ {0}
        BY <4>1 DEF PieceSet
      <4>3. BitsToBytes(p.bits) > 0
        BY <4>2 DEF BitsToBytes
      <4> QED
        BY <2>2, <4>3 DEF Alone
    <3> QED
      BY <1>8, <1>10, <2>1, <2>2, <3>1 DEF Alone
  <2>3. CASE EndsBefore(p, n)
    BY <1>8, <1>10, <2>1, <2>3 DEF EndsBefore
  <2>4. CASE PartOf(p, n)
    BY <1>8, <1>11, <2>1, <2>4 DEF PartOf, syms
  <2> QED
    BY <1>7, <2>2, <2>3, <2>4
<1>13. t.offset > 0 => syms # 0
  BY <1>1, <1>6
<1>14. (t.payload > t.offset /\ t.offset > 0) =>
         \E p \in OnAir : EndsBefore(p, n)
  <2>1. SUFFICES ASSUME t.payload > t.offset, t.offset > 0
                 PROVE  \E p \in OnAir : EndsBefore(p, n)
    OBVIOUS
  <2>2. PICK p \in OnAir : p.at = 0
    BY <1>10, <2>1
  <2>3. ~Alone(p, n)
    BY <1>1, <2>1 DEF Alone
  <2>4. ~PartOf(p, n)
    BY <1>13, <2>1, <2>2 DEF PartOf, syms
  <2> QED
    BY <1>7, <2>3, <2>4
<1>15. t.payload > 0 => \E p \in OnAir : Alone(p, n) \/ PartOf(p, n)
  <2>1. CASE t.payload > t.offset
    <3>1. PICK p \in OnAir : p.at = syms
      BY <1>11, <2>1
    <3>2. ~EndsBefore(p, n)
      BY <1>13, <3>1 DEF EndsBefore
    <3> QED
      BY <1>7, <3>2
  <2>2. CASE t.payload > 0 /\ ~(t.payload > t.offset)
    <3>1. t.offset > 0
      BY <1>1, <2>2
    <3>2. PICK p \in OnAir : p.at = 0
      BY <1>10, <3>1
    <3>3. ~EndsBefore(p, n)
      BY <2>2 DEF EndsBefore
    <3> QED
      BY <1>7, <3>3
  <2> QED
    BY <2>1, <2>2
<1> QED
  BY <1>7, <1>8, <1>12, <1>14, <1>15 DEF Parts

-----------------------------------------------------------------------------
(* What the decoder makes of it                                            *)

\* The framer and the decoder take the same number of codewords for a frame:
\* both do when a frame is a whole number of bytes.
SizesAgree ==
  \A c \in Asked, f \in DOMAIN Codes :
    SentCodewords(c, f) = HeardCodewords(c, f)

\* A piece that is where the decoder looks for it goes to the buffer.
LEMMA GrownExactly ==
  ASSUME NEW buf, NEW f, NEW at, NEW bytes \in Nat \ {0},
         NEW p \in f.pieces, \A q \in f.pieces : q.at = at => q = p,
         p.at = at, p.cnst = f.tags.cnst, BitsToBytes(p.bits) = bytes,
         p.from = buf.upto, buf.bytes > 0 => p.tb = buf.tb
  PROVE  Grown(buf, f, at, bytes)
           = [bytes |-> buf.bytes + bytes, tb |-> p.tb, upto |-> End(p)]
<1> DEFINE next == {q \in f.pieces :
                      /\ q.at = at
                      /\ q.cnst = f.tags.cnst
                      /\ BitsToBytes(q.bits) = bytes
                      /\ q.from = buf.upto
                      /\ buf.bytes > 0 => q.tb = buf.tb}
           r == CHOOSE q \in next : TRUE
<1>1. next = {p}
  OBVIOUS
<1>2. r = p
  BY <1>1
<1>3. Grown(buf, f, at, bytes)
        = [bytes |-> buf.bytes + bytes, tb |-> r.tb, upto |-> r.from + r.bits]
  BY <1>1 DEF Grown
<1> HIDE DEF r
<1> QED
  BY <1>2, <1>3 DEF End

\* The sizes that the decoder works out are those of the TB.
LEMMA HeardSize ==
  ASSUME IInv, Sending, Coded, SizesAgree, NEW p \in Ahead
  PROVE  /\ TbBits(HeardCodewords(p.cnst, p.tb.fec), p.tb.fec, p.tb.bytes)
              = p.tb.size
         /\ HeardBits(p.cnst, p.tb.fec, p.tb.bytes) = p.tb.size
<1>1. p.tb.fec \in DOMAIN Codes
  BY AheadTypes DEF PieceSet, TbSet
<1>2. SentCodewords(p.cnst, p.tb.fec) = HeardCodewords(p.cnst, p.tb.fec)
  BY <1>1 DEF Coded, Sized, SizesAgree
<1>3. p.tb.size
        = TbBits(SentCodewords(p.cnst, p.tb.fec), p.tb.fec, p.tb.bytes)
  BY DEF Coded, Sized
<1> QED
  BY <1>2, <1>3 DEF HeardBits

\* A buffer with all of a TB is decoded, with the tags of its first frame.
LEMMA WholeDecoded ==
  ASSUME IInv, Sending, Coded, SizesAgree, NEW p \in Ahead,
         End(p) = p.tb.size, NEW buf, buf.tb = p.tb, buf.upto = End(p),
         NEW info, info.fec = p.tb.fec, info.bytes = p.tb.bytes
  PROVE  Decoded(buf, info, p.cnst) = <<p.tb.no>>
<1>1. p.tb # Noise
  <2>1. p.tb.no \in 1 .. tb.no
    BY AheadTypes DEF PieceOK
  <2>2. Noise.no = 0
    BY DEF Noise
  <2> QED
    BY <2>1, <2>2
<1>2. HeardBits(p.cnst, info.fec, info.bytes) = p.tb.size
  BY HeardSize
<1> QED
  BY <1>1, <1>2 DEF Decoded

\* How the bytes of a piece count: the last one of a TB completes it, another
\* leaves something to come.
LEMMA PieceCounts ==
  ASSUME IInv, Sending, Bytewise, NEW p \in Ahead
  PROVE  LET c == BitsToBytes(p.bits)
         IN  /\ c \in Nat \ {0}
             /\ p.from \in Nat /\ p.tb.size \in Nat /\ End(p) \in Nat
             /\ End(p) <= p.tb.size
             /\ End(p) = p.tb.size => p.from + 8 * c >= p.tb.size
             /\ End(p) # p.tb.size => p.from + 8 * c = End(p)
<1> DEFINE c == BitsToBytes(p.bits)
<1>1. /\ p \in PieceSet /\ PieceOK(p) /\ PieceWhole(p) /\ End(p) \in Nat
  BY AheadTypes DEF Bytewise
<1>2. /\ p.from \in Nat /\ p.bits \in Nat \ {0} /\ p.tb.size \in Nat
      /\ End(p) = p.from + p.bits /\ End(p) <= p.tb.size
      /\ p.from % 8 = 0
      /\ End(p) = p.tb.size \/ End(p) % 8 = 0
  BY <1>1 DEF PieceSet, TbSet, End, PieceOK, PieceWhole
<1>3. c \in Nat /\ p.bits <= 8 * c
  BY <1>2, BytesFact
<1>4. End(p) % 8 = 0 => 8 * c = p.bits
  BY <1>2, WholeBytes
<1> HIDE DEF c
<1>5. c # 0
  BY <1>2, <1>3
<1>6. End(p) = p.tb.size => p.from + 8 * c >= p.tb.size
  BY <1>2, <1>3
<1>7. End(p) # p.tb.size => p.from + 8 * c = End(p)
  BY <1>2, <1>3, <1>4
<1> QED
  BY <1>1, <1>2, <1>3, <1>5, <1>6, <1>7 DEF c

\* TBs between the one that the decoder is at and that of the frame were hit.
LEMMA Skips ==
  ASSUME IInv, Sending, NEW j \in 0 .. tb.no, Reach(j),
         NEW n \in 0 .. tb.no, About(n), Parts(n), Sent.tags.payload > 0,
         NEW k \in j + 1 .. n - 1
  PROVE  k \in suspects
<1>1. tb.no \in Nat /\ n \in Nat /\ j \in Nat /\ k \in Nat /\ k < n
      /\ k \in j + 1 .. tb.no /\ k # tb.no
  BY DEF IInv, Types, TypeOK
<1>2. Due(k)
  BY <1>1 DEF Reach
<1>3. ASSUME NEW q \in Ahead, q.tb.no = k, q.from = 0
      PROVE  FALSE
  <2>1. CASE q \in OnAir
    <3>1. Alone(q, n) \/ EndsBefore(q, n) \/ PartOf(q, n)
      BY <2>1 DEF Parts
    <3>2. q.tb.no # n
      BY <1>1, <1>3
    <3>3. q.from > 0
      BY <3>1, <3>2 DEF Alone, EndsBefore, PartOf
    <3> QED
      BY <1>3, <3>3
  <2>2. CASE q \in mem
    <3>1. q.tb.no >= n
      BY <2>2 DEF About
    <3> QED
      BY <1>1, <1>3, <3>1
  <2> QED
    BY <2>1, <2>2 DEF Ahead
<1> QED
  BY <1>1, <1>2, <1>3 DEF Due

\* A frame has one piece of its TB.
LEMMA OnePart ==
  ASSUME Sending, NEW n \in Nat, Parts(n), NEW p \in OnAir, NEW q \in OnAir,
         p.tb.no = n, q.tb.no = n
  PROVE  p = q
<1>1. Sent.tags.payload \in Nat /\ Sent.tags.offset \in Nat
  BY DEF Sending, OnAir, TagOK, TagSet
<1>2. ~EndsBefore(p, n) /\ ~EndsBefore(q, n)
  BY DEF EndsBefore
<1>3. /\ Alone(p, n) \/ PartOf(p, n)
      /\ Alone(q, n) \/ PartOf(q, n)
  BY <1>2 DEF Parts
<1>4. ~(Alone(p, n) /\ PartOf(q, n)) /\ ~(Alone(q, n) /\ PartOf(p, n))
  BY <1>1 DEF Alone, PartOf
<1>5. p.at = q.at
  BY <1>3, <1>4 DEF Alone, PartOf
<1> QED
  BY <1>5 DEF Parts

\* A TB that comes after the one that the decoder is at comes from its start.
LEMMA FromStart ==
  ASSUME IInv, Sending, InOrder, NEW j \in 0 .. tb.no, Reach(j),
         NEW n \in j + 1 .. tb.no, n \notin suspects, Parts(n),
         NEW p \in OnAir, p.tb.no = n
  PROVE  p.from = 0
<1>1. /\ p \in PieceSet /\ PieceOK(p) /\ End(p) \in Nat /\ p.from < End(p)
      /\ p.from \in Nat /\ p.tb.no \in Nat /\ n \in Nat /\ p \in Ahead
  <2>1. p \in Ahead /\ p \in PieceSet
    BY AheadTypes DEF Ahead
  <2> QED
    BY <2>1, AheadTypes DEF PieceSet, TbSet
<1>2. Due(n)
  BY DEF Reach
<1>3. ASSUME NEW q \in Ahead, q.tb.no = n, q.from = 0
      PROVE  p.from = 0
  <2>1. CASE q \in OnAir
    <3>1. p = q
      BY <1>1, <1>3, <2>1, OnePart
    <3> QED
      BY <1>3, <3>1
  <2>2. CASE q \in mem
    <3>1. Before(p, q) /\ q.tb.no \in Nat
      BY <1>1, <1>3, <2>2 DEF InOrder
    <3>2. End(p) <= 0
      BY <1>1, <1>3, <3>1 DEF Before
    <3> QED
      BY <1>1, <3>2
  <2> QED
    BY <2>1, <2>2 DEF Ahead
<1>4. CASE tb.no = n /\ tb.sent = 0
  <2>1. End(p) <= 0
    BY <1>1, <1>4 DEF PieceOK
  <2> QED
    BY <1>1, <2>1
<1> QED
  BY <1>2, <1>3, <1>4 DEF Due

-----------------------------------------------------------------------------
(* How far the decoder is with its TB                                      *)

Clean(k) == k \notin suspects /\ k - 1 \notin suspects

\* The decoder is done with TB j, which was delivered unless it was hit;
Free(j) ==
  /\ rcvBuf.bytes = 0
  /\ \A p \in Ahead : p.tb.no # j
  /\ j = tb.no => TbReady
  /\ (j > 0 /\ j - 1 \notin suspects) => j \in Range(got)

\* or it has the beginning of it, and what comes next is still to come.
Halfway(j) ==
  /\ rcvBuf.bytes > 0 /\ rcvBuf.tb.no = j
  /\ 8 * rcvBuf.bytes = rcvBuf.upto /\ rcvBuf.upto < rcvBuf.tb.size
  /\ fecInfo # NoInfo
  /\ fecInfo.fec = rcvBuf.tb.fec /\ fecInfo.bytes = rcvBuf.tb.bytes
  /\ \/ \E p \in Ahead : p.tb = rcvBuf.tb /\ p.from = rcvBuf.upto
     \/ rcvBuf.tb = ThisTb /\ tb.sent = rcvBuf.upto

\* Every TB before j was delivered, unless it or the one before it was hit.
AllGot(j) == \A k \in 1 .. j - 1 : Clean(k) => k \in Range(got)

Standing(j) == j \notin suspects => Free(j) \/ Halfway(j)

LEMMA RangeGrows ==
  ASSUME NEW s \in Seq(Nat), NEW d \in Seq(Nat)
  PROVE  /\ s \o d \in Seq(Nat)
         /\ Range(s) \subseteq Range(s \o d)
         /\ \A n : d = <<n>> => n \in Range(s \o d)
<1>1. /\ s \o d \in Seq(Nat) /\ Len(s \o d) = Len(s) + Len(d)
      /\ Len(s) \in Nat /\ Len(d) \in Nat
      /\ DOMAIN s = 1 .. Len(s) /\ DOMAIN (s \o d) = 1 .. Len(s \o d)
      /\ \A i \in 1 .. Len(s) : (s \o d)[i] = s[i]
      /\ \A i \in 1 .. Len(d) : (s \o d)[Len(s) + i] = d[i]
  OBVIOUS
<1>2. Range(s) \subseteq Range(s \o d)
  <2>1. ASSUME NEW i \in DOMAIN s
        PROVE  s[i] \in Range(s \o d)
    <3>1. i \in DOMAIN (s \o d) /\ (s \o d)[i] = s[i]
      BY <1>1
    <3> QED
      BY <3>1 DEF Range
  <2> QED
    BY <2>1 DEF Range
<1>3. ASSUME NEW n, d = <<n>>
      PROVE  n \in Range(s \o d)
  <2>1. Len(d) = 1 /\ d[1] = n
    BY <1>3
  <2>2. Len(s) + 1 \in DOMAIN (s \o d) /\ (s \o d)[Len(s) + 1] = n
    BY <1>1, <2>1
  <2> QED
    BY <2>2 DEF Range
<1> QED
  BY <1>1, <1>2, <1>3

\* The end of a TB: there is no more of it.
LEMMA TbPast ==
  ASSUME IInv, Sending, InOrder, NEW q \in OnAir, End(q) = q.tb.size
  PROVE  /\ \A p \in mem : p.tb.no # q.tb.no
         /\ q.tb.no = tb.no => TbReady
<1>1. q \in PieceSet /\ PieceOK(q) /\ q.tb.no \in Nat /\ q.tb.size \in Nat
  <2>1. q \in PieceSet /\ PieceOK(q)
    BY AheadTypes DEF Ahead
  <2> QED
    BY <2>1 DEF PieceSet, TbSet
<1>2. ASSUME NEW p \in mem
      PROVE  p.tb.no # q.tb.no
  <2>1. q.tb.no < p.tb.no
    BY AfterEnd
  <2> QED
    BY <1>1, <2>1
<1>3. q.tb.no = tb.no => TbReady
  <2>1. /\ tb.size \in Nat /\ tb.sent \in 0 .. tb.size
        /\ ThisTb.size = tb.size
    BY DEF IInv, Types, TypeOK, TbSet, ThisTb
  <2> QED
    BY <1>1, <2>1 DEF PieceOK, TbReady
<1> QED
  BY <1>2, <1>3

\* What comes after a piece of the frame's TB is in the buffer, or is not
\* written yet.
LEMMA ThenRest ==
  ASSUME IInv, Sending, Contiguous, NEW n \in Nat, Parts(n), NEW q \in OnAir,
         q.tb.no = n, End(q) # q.tb.size
  PROVE  \/ \E r \in mem : r.tb = q.tb /\ r.from = End(q)
         \/ q.tb = ThisTb /\ tb.sent = End(q)
<1>1. q \in Ahead /\ Followed(q) /\ PieceOK(q) /\ q.from < End(q)
      /\ q \in PieceSet /\ End(q) \in Nat
  BY AheadTypes DEF Contiguous, Ahead
<1>2. ASSUME NEW r \in OnAir, r.tb = q.tb, r.from = End(q)
      PROVE  FALSE
  <2>1. r = q
    BY <1>2, OnePart
  <2>2. q.from \in Nat
    BY <1>1 DEF PieceSet
  <2> QED
    BY <1>1, <1>2, <2>1, <2>2
<1>3. q.tb.no = tb.no => q.tb = ThisTb
  BY <1>1 DEF PieceOK
<1> QED
  BY <1>1, <1>2, <1>3 DEF Followed, Ahead

\* A later frame than those of the TB has its end.
LEMMA NextEnds ==
  ASSUME IInv, Sending, NEW j \in Nat, Halfway(j),
         NEW n \in j + 1 .. tb.no, About(n), Parts(n), Sent.tags.payload > 0
  PROVE  /\ \E q \in OnAir : /\ EndsBefore(q, n)
                             /\ q.tb = rcvBuf.tb /\ q.from = rcvBuf.upto
         /\ j = n - 1
<1>1. tb.no \in Nat /\ n \in Nat /\ j < n /\ j # tb.no /\ rcvBuf.tb.no = j
  BY DEF IInv, Types, TypeOK, Halfway
<1>2. rcvBuf.tb # ThisTb
  <2>1. ThisTb.no = tb.no
    BY DEF ThisTb, IInv, Types, TbSet
  <2> QED
    BY <1>1, <2>1
<1>3. PICK q \in Ahead : q.tb = rcvBuf.tb /\ q.from = rcvBuf.upto
  BY <1>2 DEF Halfway
<1>4. q.tb.no = j
  BY <1>1, <1>3
<1>5. q \in OnAir
  <2>1. q \in mem => q.tb.no >= n
    BY DEF About
  <2> QED
    BY <1>1, <1>4, <2>1 DEF Ahead
<1>6. EndsBefore(q, n)
  <2>1. Alone(q, n) \/ EndsBefore(q, n) \/ PartOf(q, n)
    BY <1>5 DEF Parts
  <2> QED
    BY <1>1, <1>4, <2>1 DEF Alone, PartOf
<1>7. j = n - 1
  BY <1>4, <1>6 DEF EndsBefore
<1> QED
  BY <1>3, <1>5, <1>6, <1>7

\* A frame of the TB goes on where the buffer ends.
LEMMA NextGoesOn ==
  ASSUME IInv, Sending, InOrder, NEW n \in Nat, Reach(n), Halfway(n),
         DecoderTypes, About(n), Parts(n), Sent.tags.payload > 0
  PROVE  \E q \in OnAir : /\ q.tb = rcvBuf.tb /\ q.from = rcvBuf.upto
                          /\ q.at = 0
                          /\ BitsToBytes(q.bits) = Sent.tags.payload
<1>1. /\ rcvBuf.tb.no = n /\ 8 * rcvBuf.bytes = rcvBuf.upto
      /\ rcvBuf.upto \in Nat
  BY DEF Halfway, DecoderTypes, BufSet
<1>2. PICK p \in OnAir : p.tb.no = n
  BY DEF Parts, Alone, PartOf
<1>3. /\ p \in Ahead /\ p \in PieceSet /\ PieceOK(p) /\ End(p) \in Nat
      /\ p.from < End(p) /\ p.from \in Nat /\ p.from >= rcvBuf.upto
  <2>1. p \in Ahead /\ p \in PieceSet
    BY AheadTypes DEF Ahead
  <2>2. 8 * rcvBuf.bytes <= p.from /\ p.from \in Nat
    BY <1>2, <2>1 DEF Reach, PieceSet
  <2> QED
    BY <1>1, <2>1, <2>2, AheadTypes
<1>4. ~(rcvBuf.tb = ThisTb /\ tb.sent = rcvBuf.upto)
  <2>1. SUFFICES ASSUME rcvBuf.tb = ThisTb, tb.sent = rcvBuf.upto
                 PROVE  FALSE
    OBVIOUS
  <2>2. ThisTb.no = tb.no
    BY DEF ThisTb, IInv, Types, TbSet
  <2>3. End(p) <= rcvBuf.upto
    BY <1>1, <1>2, <1>3, <2>1, <2>2 DEF PieceOK
  <2> QED
    BY <1>1, <1>3, <2>3
<1>5. PICK q \in Ahead : q.tb = rcvBuf.tb /\ q.from = rcvBuf.upto
  BY <1>4 DEF Halfway
<1>6. q \in OnAir
  <2>1. SUFFICES ASSUME q \in mem PROVE FALSE
    BY DEF Ahead
  <2>2. Before(p, q) /\ q.tb.no = n
    BY <1>1, <1>5, <2>1 DEF InOrder
  <2>3. End(p) <= rcvBuf.upto
    BY <1>2, <1>5, <2>2 DEF Before
  <2> QED
    BY <1>1, <1>3, <2>3
<1>7. q.tb.no = n
  BY <1>1, <1>5
<1>8. \A r \in OnAir : r.tb.no # n - 1
  <2>1. \A r \in OnAir : r.tb.no >= n
    BY DEF Reach, Ahead
  <2> QED
    BY <2>1
<1>9. Alone(q, n) \/ PartOf(q, n)
  BY <1>6, <1>8 DEF Parts, EndsBefore
<1>10. /\ Sent.tags.payload \in Nat /\ Sent.tags.offset \in Nat
       /\ Sent.tags.cnst \in Constellations
  BY <1>6 DEF Sending, OnAir, TagOK, TagSet
<1>11. PartOf(q, n) => Sent.tags.offset = 0
  <2>1. SUFFICES ASSUME Sent.tags.payload > Sent.tags.offset,
                        Sent.tags.offset > 0
                 PROVE  FALSE
    BY <1>10 DEF PartOf
  <2> QED
    BY <1>8, <2>1 DEF Parts, EndsBefore
<1>12. BytesToSyms(0, Sent.tags.cnst) = 0
  <2>1. 8 * 0 <= 0 * Sent.tags.cnst
    BY <1>10 DEF Constellations
  <2>2. BytesToSyms(0, Sent.tags.cnst) \in Nat
        /\ BytesToSyms(0, Sent.tags.cnst) <= 0
    BY <1>10, <2>1, SymsFact
  <2> QED
    BY <2>2
<1>13. q.at = 0 /\ BitsToBytes(q.bits) = Sent.tags.payload
  <2>1. CASE Alone(q, n)
    BY <2>1 DEF Alone
  <2>2. CASE PartOf(q, n)
    <3>1. Sent.tags.offset = 0 /\ Sent.tags.payload - 0 = Sent.tags.payload
      BY <1>10, <1>11, <2>2
    <3> QED
      BY <1>12, <2>2, <3>1 DEF PartOf
  <2> QED
    BY <1>9, <2>1, <2>2
<1> QED
  BY <1>5, <1>6, <1>13

-----------------------------------------------------------------------------
(* A frame is processed                                                    *)

\* f is what the radio leaves of the frame on the air, which is about TB n.
Left(f, n) ==
  /\ f \in FrameSet /\ f.tags = Sent.tags /\ f.pieces \subseteq OnAir
  /\ TagOK(Sent.tags) /\ About(n) /\ Parts(n)
  /\ PassOn /\ suspects \subseteq suspects'
  /\ \A q \in OnAir : q \in f.pieces \/ q.tb.no \in suspects'

LEMMA LeftFact ==
  ASSUME IInv, Sending, NEW f, NEW n \in 0 .. tb.no, Left(f, n),
         Sent.tags.payload > 0
  PROVE  /\ Ahead' = mem /\ tb' = tb /\ ThisTb' = ThisTb /\ n \in Nat
         /\ tb.no \in Nat
         /\ \E p \in OnAir : p.tb.no = n /\ (Alone(p, n) \/ PartOf(p, n))
<1>1. tb' = tb /\ mem' = mem /\ air' = <<>>
  BY DEF Left, PassOn, buildVars, outVars
<1>2. Ahead' = mem /\ ThisTb' = ThisTb
  BY <1>1 DEF Ahead, OnAir, ThisTb
<1>3. \E p \in OnAir : Alone(p, n) \/ PartOf(p, n)
  BY DEF Left, Parts
<1> QED
  BY <1>1, <1>2, <1>3 DEF IInv, Types, TypeOK, Alone, PartOf

\* The frame ends TB n, and nothing of it is left to come.
LEMMA EndedFree ==
  ASSUME IInv, Sending, InOrder, NEW f, NEW n \in 0 .. tb.no, Left(f, n),
         Sent.tags.payload > 0, NEW q \in OnAir, q.tb.no = n,
         End(q) = q.tb.size, rcvBuf'.bytes = 0,
         (n > 0 /\ n - 1 \notin suspects') => n \in Range(got')
  PROVE  Free(n)'
<1>1. /\ \A p \in mem : p.tb.no # n
      /\ n = tb.no => TbReady
  BY TbPast
<1>2. Ahead' = mem /\ tb' = tb
  BY LeftFact
<1> QED
  BY <1>1, <1>2 DEF Free, TbReady

\* The buffer has the beginning of TB n, up to the end of the frame's piece.
LEMMA BegunHalfway ==
  ASSUME IInv, Sending, Contiguous, Bytewise, NEW f, NEW n \in 0 .. tb.no,
         Left(f, n), Sent.tags.payload > 0, NEW q \in OnAir, q.tb.no = n,
         End(q) # q.tb.size, NEW b \in Nat \ {0},
         rcvBuf' = [bytes |-> b, tb |-> q.tb, upto |-> End(q)],
         8 * b = End(q), fecInfo' # NoInfo,
         fecInfo'.fec = q.tb.fec, fecInfo'.bytes = q.tb.bytes
  PROVE  Halfway(n)'
<1>1. Ahead' = mem /\ tb' = tb /\ ThisTb' = ThisTb /\ n \in Nat
  BY LeftFact
<1>2. \/ \E r \in mem : r.tb = q.tb /\ r.from = End(q)
      \/ q.tb = ThisTb /\ tb.sent = End(q)
  BY <1>1, ThenRest DEF Left
<1>3. End(q) < q.tb.size
  <2>1. End(q) <= q.tb.size /\ End(q) \in Nat /\ q.tb.size \in Nat
    BY PieceCounts DEF Ahead
  <2> QED
    BY <2>1
<1>4. /\ rcvBuf'.bytes = b /\ rcvBuf'.tb = q.tb /\ rcvBuf'.upto = End(q)
      /\ b > 0
  OBVIOUS
<1> QED
  BY <1>1, <1>2, <1>3, <1>4 DEF Halfway

\* The frame goes on with the decoder's TB.
LEMMA SameTbStanding ==
  ASSUME IInv, Sending, DecoderTypes, Bytewise, InOrder, Coded, Contiguous,
         SizesAgree, NEW n \in 0 .. tb.no, Reach(n), Standing(n),
         NEW f, Left(f, n), SameTb(f)
  PROVE  Standing(n)'
<1> DEFINE t == Sent.tags
           g == Grown(rcvBuf, f, 0, t.payload)
<1>1. SUFFICES ASSUME n \notin suspects'
               PROVE  Free(n)' \/ Halfway(n)'
  BY DEF Standing
<1>2. /\ t.payload \in Nat \ {0} /\ t.payload > 0
      /\ n \notin suspects /\ f.tags = t /\ n \in Nat
  BY <1>1, TagNumbers DEF SameTb, Left
<1>3. PICK p \in OnAir : p.tb.no = n
  BY <1>2, LeftFact
<1>4. Halfway(n)
  BY <1>2, <1>3 DEF Standing, Free, Ahead
<1>5. PICK q \in OnAir : /\ q.tb = rcvBuf.tb /\ q.from = rcvBuf.upto
                         /\ q.at = 0 /\ BitsToBytes(q.bits) = t.payload
  BY <1>2, <1>4, NextGoesOn DEF Left
<1>6. q.tb.no = n /\ q \in f.pieces /\ q \in Ahead
  BY <1>1, <1>4, <1>5 DEF Halfway, Left, Ahead
<1>7. g = [bytes |-> rcvBuf.bytes + t.payload, tb |-> q.tb, upto |-> End(q)]
  <2>1. q.cnst = f.tags.cnst /\ \A r \in f.pieces : r.at = 0 => r = q
    BY <1>5, <1>6 DEF Left, Parts
  <2> QED
    BY <1>2, <1>5, <1>6, <2>1, GrownExactly
<1>8. /\ q.cnst = t.cnst /\ t.fec = q.tb.fec /\ t.bytes = q.tb.bytes
      /\ fecInfo # NoInfo
      /\ fecInfo.fec = q.tb.fec /\ fecInfo.bytes = q.tb.bytes
  BY <1>4, <1>5, <1>6 DEF Left, Parts, Halfway
<1>9. Expected(t) = q.tb.size
  BY <1>6, <1>8, HeardSize DEF Expected
<1> DEFINE b == rcvBuf.bytes + t.payload
<1>10. /\ b \in Nat \ {0} /\ 8 * b = q.from + 8 * BitsToBytes(q.bits)
       /\ q.tb.size \in Nat /\ End(q) \in Nat /\ End(q) <= q.tb.size
       /\ End(q) = q.tb.size => 8 * b >= q.tb.size
       /\ End(q) # q.tb.size => 8 * b = End(q)
  <2>1. rcvBuf.bytes \in Nat /\ 8 * rcvBuf.bytes = q.from
    BY <1>4, <1>5 DEF Halfway, DecoderTypes, BufSet
  <2>2. b \in Nat \ {0} /\ 8 * b = q.from + 8 * t.payload
    BY <1>2, <2>1
  <2> HIDE DEF b
  <2> QED
    BY <1>5, <1>6, <2>2, PieceCounts
<1>11. g.bytes = b /\ g.tb = q.tb /\ g.upto = End(q)
  BY <1>7
<1>12. /\ rcvBuf' = IF 8 * b >= q.tb.size THEN EmptyBuf ELSE g
       /\ got' = got \o (IF 8 * b >= q.tb.size
                         THEN Decoded(g, fecInfo, t.cnst) ELSE <<>>)
       /\ fecInfo' = fecInfo
  BY <1>2, <1>9, <1>11 DEF SameTb, AfterDecode
<1> HIDE DEF g, b
<1>13. CASE End(q) = q.tb.size
  <2>1. 8 * b >= q.tb.size
    BY <1>10, <1>13
  <2>2. Decoded(g, fecInfo, t.cnst) = <<n>>
    BY <1>6, <1>8, <1>11, <1>13, WholeDecoded
  <2>3. rcvBuf'.bytes = 0 /\ got' = got \o <<n>>
    BY <1>12, <2>1, <2>2, EmptyBufFact
  <2>4. n \in Range(got')
    <3>1. got \in Seq(Nat) /\ <<n>> \in Seq(Nat)
      BY <1>2 DEF DecoderTypes
    <3> QED
      BY <2>3, <3>1, RangeGrows
  <2>5. Free(n)'
    BY <1>2, <1>6, <1>13, <2>3, <2>4, EndedFree
  <2> QED
    BY <2>5
<1>14. CASE End(q) # q.tb.size
  <2>1. ~(8 * b >= q.tb.size)
    BY <1>10, <1>14
  <2>2. rcvBuf' = [bytes |-> b, tb |-> q.tb, upto |-> End(q)]
    BY <1>7, <1>12, <2>1 DEF b
  <2>3. Halfway(n)'
    BY <1>2, <1>6, <1>8, <1>10, <1>12, <1>14, <2>2, BegunHalfway
  <2> QED
    BY <2>3
<1> QED
  BY <1>13, <1>14

\* The TBs before TB n, when the decoder goes on from TB j to it.
LEMMA BeforeNew ==
  ASSUME IInv, Sending, NEW j \in 0 .. tb.no, Reach(j), AllGot(j),
         NEW n \in j + 1 .. tb.no, NEW f, Left(f, n),
         Sent.tags.payload > 0, Range(got) \subseteq Range(got'),
         (j > 0 /\ j \notin suspects')
           => j \in Range(got') \/ j - 1 \in suspects'
  PROVE  AllGot(n)'
<1>1. j \in Nat /\ n \in Nat /\ n \in 0 .. tb.no /\ tb.no \in Nat
  BY DEF IInv, Types, TypeOK
<1>2. suspects \subseteq suspects'
  BY DEF Left
<1>3. ASSUME NEW k \in 1 .. n - 1, k \notin suspects', k - 1 \notin suspects'
      PROVE  k \in Range(got')
  <2>1. k \in Nat /\ k > 0 /\ k <= n - 1
    BY <1>1
  <2>2. CASE k < j
    <3>1. k \in 1 .. j - 1 /\ Clean(k)
      BY <1>1, <1>2, <1>3, <2>1, <2>2 DEF Clean
    <3> QED
      BY <3>1 DEF AllGot
  <2>3. CASE k = j
    BY <1>3, <2>1, <2>3
  <2>4. CASE k > j
    <3>1. k \in j + 1 .. n - 1
      BY <1>1, <2>1, <2>4
    <3>2. k \in suspects
      BY <1>1, <3>1, Skips DEF Left
    <3> QED
      BY <1>2, <1>3, <3>2
  <2> QED
    BY <1>1, <2>1, <2>2, <2>3, <2>4
<1> QED
  BY <1>3 DEF AllGot, Clean

\* A TB that has its frame to itself.
LEMMA SmallTbStanding ==
  ASSUME IInv, Sending, DecoderTypes, Bytewise, InOrder, Coded, Contiguous,
         SizesAgree, NEW j \in 0 .. tb.no, Reach(j), AllGot(j), Standing(j),
         NEW n \in j + 1 .. tb.no, NEW f, Left(f, n), SmallTb(f)
  PROVE  AllGot(n)' /\ Standing(n)'
<1> DEFINE t == Sent.tags
           g == Grown(EmptyBuf, f, 0, t.offset)
           d == Decoded(g, t, t.cnst)
<1>1. /\ t.payload \in Nat \ {0} /\ t.payload > 0 /\ t.offset = t.payload
      /\ rcvBuf.bytes = 0 /\ rcvBuf' = EmptyBuf /\ f.tags = t
      /\ got' = got \o d
  BY TagNumbers DEF SmallTb, IsSmallTb, Left
<1>2. n \in Nat /\ n \in 0 .. tb.no /\ suspects \subseteq suspects'
  BY DEF Left, IInv, Types, TypeOK
<1>3. got \in Seq(Nat) /\ d \in Seq(Nat)
  <2>1. f \in FrameSet /\ t.offset \in Nat /\ 0 \in Nat
    BY <1>1 DEF Left
  <2>2. g \in BufSet
    BY <2>1, EmptyBufFact, GrownFact
  <2> HIDE DEF g
  <2> QED
    BY <2>2, DecodedFact DEF DecoderTypes
<1>4. Range(got) \subseteq Range(got')
  <2> HIDE DEF d
  <2> QED
    BY <1>1, <1>3, RangeGrows
<1>5. (j > 0 /\ j \notin suspects) => j \in Range(got) \/ j - 1 \in suspects
  BY <1>1 DEF Standing, Free, Halfway
<1>6. AllGot(n)'
  BY <1>1, <1>2, <1>4, <1>5, BeforeNew
<1>7. ASSUME n \notin suspects'
      PROVE  Free(n)'
  <2>1. PICK p \in OnAir : p.tb.no = n /\ (Alone(p, n) \/ PartOf(p, n))
    BY <1>1, <1>2, LeftFact
  <2>2. Alone(p, n)
    BY <1>1, <2>1 DEF PartOf
  <2>3. p \in f.pieces /\ p \in Ahead /\ n \notin suspects /\ p.from = 0
    BY <1>2, <1>7, <2>1, FromStart DEF Left, Ahead
  <2>4. /\ p.cnst = t.cnst /\ t.fec = p.tb.fec /\ t.bytes = p.tb.bytes
        /\ p.at = 0 /\ BitsToBytes(p.bits) = t.offset /\ End(p) = p.tb.size
        /\ \A r \in f.pieces : r.at = 0 => r = p
    BY <1>1, <2>1, <2>2 DEF Left, Parts, Alone
  <2>5. g.tb = p.tb /\ g.upto = End(p)
    <3>1. g = [bytes |-> EmptyBuf.bytes + t.offset, tb |-> p.tb,
               upto |-> End(p)]
      BY <1>1, <2>3, <2>4, EmptyBufFact, GrownExactly
    <3> QED
      BY <3>1
  <2>6. d = <<n>>
    <3> HIDE DEF g
    <3> QED
      BY <2>1, <2>3, <2>4, <2>5, WholeDecoded
  <2>7. n \in Range(got')
    <3> HIDE DEF d
    <3> QED
      BY <1>1, <1>3, <2>6, RangeGrows
  <2>8. rcvBuf'.bytes = 0
    BY <1>1, EmptyBufFact
  <2> QED
    BY <1>1, <1>2, <2>1, <2>4, <2>7, <2>8, EndedFree
<1> QED
  BY <1>6, <1>7 DEF Standing

\* The end of the decoder's TB in the first bytes of the frame.
LEMMA OldDecoded ==
  ASSUME IInv, Sending, DecoderTypes, Bytewise, Coded, SizesAgree,
         NEW j \in Nat, Halfway(j), NEW n \in j + 1 .. tb.no,
         NEW f, Left(f, n), j \notin suspects', Sent.tags.payload > 0
  PROVE  LET t == Sent.tags
             old == Grown(rcvBuf, f, 0, t.offset)
         IN  /\ t.payload > t.offset
             /\ old.bytes > 0 /\ fecInfo # NoInfo
             /\ Decoded(old, fecInfo, t.cnst) = <<j>>
<1> DEFINE t == Sent.tags
           old == Grown(rcvBuf, f, 0, t.offset)
<1>1. PICK q \in OnAir : /\ EndsBefore(q, n) /\ j = n - 1
                         /\ q.tb = rcvBuf.tb /\ q.from = rcvBuf.upto
  BY NextEnds DEF Left
<1>2. /\ t.payload > t.offset /\ t.offset > 0 /\ q.at = 0 /\ q.tb.no = j
      /\ BitsToBytes(q.bits) = t.offset /\ End(q) = q.tb.size
  BY <1>1 DEF EndsBefore
<1>3. t.offset \in Nat \ {0} /\ f.tags = t
  BY <1>2, TagNumbers DEF Left
<1>4. q \in f.pieces /\ q \in Ahead
  BY <1>2 DEF Left, Ahead
<1>5. q.cnst = t.cnst /\ \A r \in f.pieces : r.at = 0 => r = q
  BY <1>2 DEF Left, Parts
<1>6. old = [bytes |-> rcvBuf.bytes + t.offset, tb |-> q.tb, upto |-> End(q)]
  BY <1>1, <1>2, <1>3, <1>4, <1>5, GrownExactly
<1>7. /\ old.bytes = rcvBuf.bytes + t.offset
      /\ old.tb = q.tb /\ old.upto = End(q)
  BY <1>6
<1> HIDE DEF old
<1>8. old.bytes > 0
  BY <1>3, <1>7 DEF DecoderTypes, BufSet
<1>9. fecInfo # NoInfo /\ fecInfo.fec = q.tb.fec /\ fecInfo.bytes = q.tb.bytes
  BY <1>1 DEF Halfway
<1>10. Decoded(old, fecInfo, t.cnst) = <<j>>
  BY <1>2, <1>4, <1>5, <1>7, <1>9, WholeDecoded
<1> QED
  BY <1>2, <1>8, <1>9, <1>10 DEF old

\* The decoder takes a TB to be within the frame just when it is.
LEMMA ContainedFact ==
  ASSUME IInv, Sending, Coded, SizesAgree, Bytewise, NEW p \in Ahead,
         p.from = 0, NEW t, t.cnst = p.cnst, t.fec = p.tb.fec,
         t.bytes = p.tb.bytes, BitsToBytes(p.bits) = t.payload - t.offset
  PROVE  IsContained(t) <=> End(p) = p.tb.size
<1> DEFINE c == BitsToBytes(p.bits)
<1>1. HeardBits(t.cnst, t.fec, t.bytes) = p.tb.size
  BY HeardSize
<1>2. IsContained(t) <=> c = BitsToBytes(p.tb.size)
  BY <1>1 DEF IsContained
<1>3. /\ c \in Nat /\ p.tb.size \in Nat /\ End(p) \in Nat
      /\ End(p) <= p.tb.size
      /\ End(p) # p.tb.size => 0 + 8 * c = End(p)
  BY PieceCounts
<1>4. End(p) = p.bits
  BY AheadTypes DEF End, PieceSet
<1>5. p.tb.size <= 8 * BitsToBytes(p.tb.size) /\ BitsToBytes(p.tb.size) \in Nat
  BY <1>3, BytesFact
<1>6. CASE End(p) = p.tb.size
  BY <1>2, <1>4, <1>6
<1>7. CASE End(p) # p.tb.size
  <2>1. c # BitsToBytes(p.tb.size)
    <3> HIDE DEF c
    <3> QED
      BY <1>3, <1>5, <1>7
  <2> QED
    BY <1>2, <1>7, <2>1
<1> QED
  BY <1>6, <1>7

\* A frame that ends the decoder's TB and begins another.
LEMMA OtherTbStanding ==
  ASSUME IInv, Sending, DecoderTypes, Bytewise, InOrder, Coded, Contiguous,
         SizesAgree, NEW j \in 0 .. tb.no, Reach(j), AllGot(j), Standing(j),
         NEW n \in j + 1 .. tb.no, NEW f, Left(f, n), OtherTb(f)
  PROVE  AllGot(n)' /\ Standing(n)'
<1> DEFINE t == Sent.tags
           syms == BytesToSyms(t.offset, t.cnst)
           rest == t.payload - t.offset
           old == Grown(rcvBuf, f, 0, t.offset)
           new == Grown(EmptyBuf, f, syms, rest)
           ended == old.bytes > 0 /\ fecInfo # NoInfo
           d == IF ended THEN Decoded(old, fecInfo, t.cnst) ELSE <<>>
           e == IF IsContained(t) THEN Decoded(new, t, t.cnst) ELSE <<>>
<1>1. /\ t.payload \in Nat \ {0} /\ t.payload > 0 /\ t.offset \in Nat
      /\ t.offset <= t.payload /\ rest \in Nat /\ syms \in Nat
      /\ ~IsSmallTb(t) /\ fecInfo' = t /\ f.tags = t
      /\ rcvBuf' = (IF IsContained(t) THEN EmptyBuf ELSE new)
      /\ got' = (got \o d) \o e
  BY TagNumbers DEF OtherTb, NewBuf, Left, TagOK
<1>2. /\ n \in Nat /\ n \in 0 .. tb.no /\ suspects \subseteq suspects'
      /\ tb.no \in Nat /\ j \in Nat
  BY DEF Left, IInv, Types, TypeOK
<1>3. got \in Seq(Nat) /\ d \in Seq(Nat) /\ e \in Seq(Nat)
  <2>1. f \in FrameSet /\ rcvBuf \in BufSet /\ 0 \in Nat
    BY DEF Left, DecoderTypes
  <2>2. old \in BufSet /\ new \in BufSet
    BY <1>1, <2>1, EmptyBufFact, GrownFact
  <2> HIDE DEF old, new
  <2>3. Decoded(old, fecInfo, t.cnst) \in Seq(Nat)
        /\ Decoded(new, t, t.cnst) \in Seq(Nat)
    BY <2>2, DecodedFact
  <2> QED
    BY <2>3 DEF DecoderTypes
<1> HIDE DEF ended
<1>4. /\ Range(got) \subseteq Range(got')
      /\ \A m : d = <<m>> \/ e = <<m>> => m \in Range(got')
  <2> HIDE DEF d, e
  <2>1. /\ got \o d \in Seq(Nat) /\ Range(got) \subseteq Range(got \o d)
        /\ \A m : d = <<m>> => m \in Range(got \o d)
    BY <1>3, RangeGrows
  <2>2. /\ Range(got \o d) \subseteq Range(got')
        /\ \A m : e = <<m>> => m \in Range(got')
    BY <1>1, <1>3, <2>1, RangeGrows
  <2> QED
    BY <2>1, <2>2
<1>5. ASSUME j > 0, j \notin suspects'
      PROVE  j \in Range(got') \/ j - 1 \in suspects'
  <2>1. Free(j) \/ Halfway(j)
    BY <1>2, <1>5 DEF Standing
  <2>2. CASE Free(j)
    BY <1>2, <1>4, <1>5, <2>2 DEF Free
  <2>3. CASE Halfway(j)
    <3>1. /\ old.bytes > 0 /\ fecInfo # NoInfo
          /\ Decoded(old, fecInfo, t.cnst) = <<j>>
      BY <1>1, <1>2, <1>5, <2>3, OldDecoded
    <3>2. d = <<j>>
      BY <3>1 DEF ended
    <3> HIDE DEF d, e
    <3> QED
      BY <1>4, <3>2
  <2> QED
    BY <2>1, <2>2, <2>3
<1>6. AllGot(n)'
  BY <1>1, <1>2, <1>4, <1>5, BeforeNew
<1>7. ASSUME n \notin suspects'
      PROVE  Free(n)' \/ Halfway(n)'
  <2>1. PICK p \in OnAir : p.tb.no = n /\ (Alone(p, n) \/ PartOf(p, n))
    BY <1>1, <1>2, LeftFact
  <2>2. /\ p \in f.pieces /\ p \in Ahead /\ n \notin suspects /\ p.from = 0
    BY <1>2, <1>7, <2>1, FromStart DEF Left, Ahead
  <2>3. CASE Alone(p, n)
    <3>1. t.payload = t.offset /\ End(p) = p.tb.size /\ rest = 0
      BY <1>1, <2>3 DEF Alone
    <3>2. new = EmptyBuf
      BY <3>1 DEF Grown
    <3>3. rcvBuf'.bytes = 0
      BY <1>1, <3>2, EmptyBufFact
    <3>4. rcvBuf.bytes # 0
      BY <1>1, <3>1 DEF IsSmallTb
    <3>5. j \in suspects'
      <4>1. SUFFICES ASSUME j \notin suspects' PROVE FALSE
        OBVIOUS
      <4>2. Halfway(j)
        BY <1>2, <3>4, <4>1 DEF Standing, Free
      <4>3. t.payload > t.offset
        BY <1>1, <1>2, <4>1, <4>2, OldDecoded
      <4> QED
        BY <1>1, <3>1, <4>3
    <3>6. n - 1 \in suspects'
      <4>1. CASE n - 1 = j
        BY <3>5, <4>1
      <4>2. CASE n - 1 # j
        <5>1. n - 1 \in j + 1 .. n - 1
          BY <1>2, <4>2
        <5>2. n - 1 \in suspects
          BY <1>1, <1>2, <5>1, Skips DEF Left
        <5> QED
          BY <1>2, <5>2
      <4> QED
        BY <4>1, <4>2
    <3>7. Free(n)'
      BY <1>1, <1>2, <2>1, <3>1, <3>3, <3>6, EndedFree
    <3> QED
      BY <3>7
  <2>4. CASE PartOf(p, n)
    <3>1. /\ t.payload > t.offset /\ p.at = syms /\ BitsToBytes(p.bits) = rest
          /\ rest \in Nat \ {0}
      BY <1>1, <2>4 DEF PartOf
    <3>2. /\ p.cnst = t.cnst /\ t.fec = p.tb.fec /\ t.bytes = p.tb.bytes
          /\ \A r \in f.pieces : r.at = syms => r = p
      BY <2>1, <3>1 DEF Left, Parts
    <3>3. new = [bytes |-> EmptyBuf.bytes + rest, tb |-> p.tb,
                 upto |-> End(p)]
      BY <1>1, <2>2, <3>1, <3>2, EmptyBufFact, GrownExactly
    <3>4. /\ new = [bytes |-> rest, tb |-> p.tb, upto |-> End(p)]
          /\ new.tb = p.tb /\ new.upto = End(p)
      <4>1. EmptyBuf.bytes + rest = rest
        BY <3>1, EmptyBufFact
      <4> QED
        BY <3>3, <4>1
    <3>5. IsContained(t) <=> End(p) = p.tb.size
      BY <2>2, <3>1, <3>2, ContainedFact
    <3>6. CASE End(p) = p.tb.size
      <4>1. rcvBuf'.bytes = 0
        BY <1>1, <3>5, <3>6, EmptyBufFact
      <4>2. e = <<n>>
        <5>1. Decoded(new, t, t.cnst) = <<n>>
          <6> HIDE DEF new
          <6> QED
            BY <2>1, <2>2, <3>2, <3>4, <3>6, WholeDecoded
        <5> QED
          BY <3>5, <3>6, <5>1
      <4>3. n \in Range(got')
        <5> HIDE DEF d, e
        <5> QED
          BY <1>4, <4>2
      <4>4. Free(n)'
        BY <1>1, <1>2, <2>1, <3>6, <4>1, <4>3, EndedFree
      <4> QED
        BY <4>4
    <3>7. CASE End(p) # p.tb.size
      <4>1. rcvBuf' = [bytes |-> rest, tb |-> p.tb, upto |-> End(p)]
        BY <1>1, <3>4, <3>5, <3>7
      <4>2. 8 * rest = End(p)
        <5>1. 0 + 8 * BitsToBytes(p.bits) = End(p)
          BY <2>2, <3>7, PieceCounts
        <5> HIDE DEF rest
        <5> QED
          BY <3>1, <5>1
      <4>3. fecInfo' # NoInfo
        <5>1. t \in TagSet
          BY DEF Left, TagOK
        <5> QED
          BY <1>1, <5>1 DEF TagSet, NoInfo
      <4>4. fecInfo'.fec = p.tb.fec /\ fecInfo'.bytes = p.tb.bytes
        BY <1>1, <3>2
      <4> HIDE DEF rest
      <4>5. Halfway(n)'
        BY <1>1, <1>2, <2>1, <3>1, <3>7, <4>1, <4>2, <4>3, <4>4, BegunHalfway
      <4> QED
        BY <4>5
    <3> QED
      BY <3>6, <3>7
  <2> QED
    BY <2>1, <2>3, <2>4
<1> QED
  BY <1>6, <1>7 DEF Standing

-----------------------------------------------------------------------------
(* What the decoder misses                                                 *)

\* Too few frames are hit for the numbers of the TBs to go around, when a TB
\* is never cut with nothing of it in a frame.
FewerHits == MaxHits + 1 < TbMod

\* The beginning of TB m is still to come.
Coming(m) ==
  \/ \E q \in Ahead : q.tb.no = m /\ q.from = 0
  \/ tb.no = m /\ tb.sent = 0

\* Of the TBs after TB j, the beginnings that will not come were in frames
\* that were hit, one in each at most.
Missed(j) ==
  \E F : /\ IsFiniteSet(F) /\ Cardinality(F) <= hits
         /\ \A m \in j + 1 .. tb.no : Coming(m) \/ m \in F

\* A frame about TB n is near, whatever was missed.
LEMMA MissedNear ==
  ASSUME FewerHits, IInv, Sending, DecoderTypes, NEW j \in 0 .. tb.no,
         Missed(j), NEW n \in 0 .. tb.no, About(n), Parts(n)
  PROVE  Near(j, n)
<1>1. tb.no \in Nat /\ TbMod \in Nat \ {0} /\ n \in Nat /\ j \in Nat
  BY SizesAssumption DEF IInv, Types, TypeOK
<1>2. SUFFICES ASSUME Sent.tags.payload > 0, ~(n - j < TbMod)
               PROVE  FALSE
  BY DEF Near
<1>3. PICK F : /\ IsFiniteSet(F) /\ Cardinality(F) <= hits
               /\ \A m \in j + 1 .. tb.no : Coming(m) \/ m \in F
  BY DEF Missed
<1>4. j + 1 .. n - 1 \subseteq F
  <2>1. SUFFICES ASSUME NEW m \in j + 1 .. n - 1
                 PROVE  m \in F
    OBVIOUS
  <2>2. m \in j + 1 .. tb.no /\ m < n /\ m \in Int
    BY <1>1
  <2>3. ASSUME NEW q \in Ahead, q.tb.no = m, q.from = 0
        PROVE  FALSE
    <3>1. CASE q \in OnAir
      <4>1. q.from > 0 \/ q.tb.no = n
        BY <3>1 DEF Parts, Alone, EndsBefore, PartOf
      <4> QED
        BY <1>1, <2>2, <2>3, <4>1
    <3>2. CASE q \in mem
      <4>1. q.tb.no >= n
        BY <1>2, <3>2 DEF About
      <4> QED
        BY <1>1, <2>2, <2>3, <4>1
    <3> QED
      BY <3>1, <3>2 DEF Ahead
  <2>4. tb.no # m
    BY <1>1, <2>2
  <2> QED
    BY <1>3, <2>2, <2>3, <2>4 DEF Coming
<1>5. /\ Cardinality(j + 1 .. n - 1) <= Cardinality(F)
      /\ Cardinality(F) \in Nat /\ Cardinality(F) <= hits
  BY <1>3, <1>4, FS_Subset, FS_CardinalityType
<1>6. Cardinality(j + 1 .. n - 1) = IF j + 1 > n - 1 THEN 0
                                    ELSE (n - 1) - (j + 1) + 1
  BY <1>1, FS_Interval
<1>7. hits \in Nat /\ MaxHits \in Nat /\ hits <= MaxHits
  BY HitsAssumption DEF DecoderTypes
<1>8. n - j >= MaxHits + 2
  BY <1>1, <1>2, <1>7 DEF FewerHits
<1>9. n - 1 - j <= hits
  BY <1>1, <1>5, <1>6, <1>7, <1>8
<1> QED
  BY <1>1, <1>7, <1>8, <1>9

\* The framer's steps: what is to come stays so, and a new TB is to come.
LEMMA FramerMissed ==
  ASSUME IInv, Layout, Sending, Flow, NEW j \in 0 .. tb.no, Missed(j),
         Framer \/ UNCHANGED linkVars
  PROVE  Missed(j)'
<1>1. hits' = hits /\ tb.no \in Nat /\ tb.sent \in Nat
  BY DEF Framer, linkVars, receiverVars, IInv, Types, TypeOK
<1>2. PICK F : /\ IsFiniteSet(F) /\ Cardinality(F) <= hits
               /\ \A m \in j + 1 .. tb.no : Coming(m) \/ m \in F
  BY DEF Missed
<1>3. SUFFICES ASSUME NEW m \in j + 1 .. tb'.no
               PROVE  Coming(m)' \/ m \in F
  BY <1>1, <1>2 DEF Missed
<1>4. CASE Kept
  <2>1. tb' = tb
    BY <1>4 DEF Kept
  <2>2. Coming(m) \/ m \in F
    BY <1>2, <2>1
  <2> QED
    BY <1>4, <2>1, <2>2 DEF Coming, Kept, SameBits
<1>5. CASE EncodeTb
  <2>1. tb'.no = tb.no + 1 /\ tb'.sent = 0 /\ Ahead' = Ahead
    BY <1>5, NewTbFact DEF Ahead, OnAir, Sent
  <2>2. tb.no > 0 => tb.sent # 0
    <3>1. action = "input"
      BY <1>5 DEF EncodeTb, Processing
    <3>2. TbReady /\ (tb.no > 0 => tb.size > 0)
      BY <3>1 DEF Flow
    <3> QED
      BY <3>2 DEF TbReady, IInv, Types, TypeOK
  <2>3. CASE m = tb'.no
    BY <2>1, <2>3 DEF Coming
  <2>4. CASE m # tb'.no
    <3>1. m \in j + 1 .. tb.no /\ m > 0
      BY <1>1, <2>1, <2>4
    <3>2. Coming(m) \/ m \in F
      BY <1>2, <3>1
    <3> QED
      BY <2>1, <2>2, <3>1, <3>2 DEF Coming
  <2> QED
    BY <2>3, <2>4
<1>6. CASE Write
  <2>1. /\ air' = air /\ tb'.no = tb.no /\ tb'.sent = tb.sent + OutBits
        /\ mem \subseteq mem' /\ OutBits \in Nat
    BY <1>6, WriteFact, WrittenFact, OutFact
  <2>2. Ahead \subseteq Ahead'
    BY <2>1 DEF Ahead, OnAir, Sent
  <2>3. Coming(m) \/ m \in F
    BY <1>2, <2>1
  <2>4. CASE tb.no = m /\ tb.sent = 0 /\ OutBits > 0
    <3>1. PICK w : w = Piece(call.at, OutBits)
      OBVIOUS
    <3>2. w \in Ahead' /\ w.tb.no = m /\ w.from = 0
      BY <1>6, <2>4, <3>1, NewPiece DEF Write, Ahead
    <3> QED
      BY <3>2 DEF Coming
  <2>5. CASE tb.no = m /\ tb.sent = 0 /\ ~(OutBits > 0)
    <3>1. tb'.no = m /\ tb'.sent = 0
      BY <2>1, <2>5
    <3> QED
      BY <3>1 DEF Coming
  <2>6. CASE \E q \in Ahead : q.tb.no = m /\ q.from = 0
    BY <2>2, <2>6 DEF Coming
  <2> QED
    BY <2>3, <2>4, <2>5, <2>6 DEF Coming
<1> QED
  BY <1>4, <1>5, <1>6, FramerKinds

\* When the frame has gone, which was about TB n: the decoder is at TB n, or
\* the frame had nothing, or it was hit.
LEMMA PassedMissed ==
  ASSUME IInv, DecoderTypes, PassOn, NEW j \in 0 .. tb.no, Missed(j),
         NEW n \in 0 .. tb.no, Parts(n), NEW k \in j .. tb.no,
         \/ hits' = hits /\ (OnAir = {} \/ k = n)
         \/ hits' = hits + 1
  PROVE  Missed(k)'
<1>1. /\ tb' = tb /\ mem' = mem /\ Ahead' = mem
  BY DEF PassOn, buildVars, outVars, Ahead, OnAir
<1>2. tb.no \in Nat /\ hits \in Nat /\ n \in Nat /\ j \in Nat
  BY DEF DecoderTypes, IInv, Types, TypeOK
<1>3. PICK F : /\ IsFiniteSet(F) /\ Cardinality(F) <= hits
               /\ \A m \in j + 1 .. tb.no : Coming(m) \/ m \in F
  BY DEF Missed
<1>4. ASSUME NEW m \in k + 1 .. tb.no
      PROVE  Coming(m)' \/ m \in F \/ (OnAir # {} /\ m = n)
  <2>1. m \in j + 1 .. tb.no
    BY <1>2
  <2>2. ASSUME NEW q \in OnAir, q.from = 0
        PROVE  q.tb.no = n
    BY <2>2 DEF Parts, Alone, EndsBefore, PartOf
  <2>3. CASE \E q \in Ahead : q.tb.no = m /\ q.from = 0
    BY <1>1, <2>2, <2>3 DEF Coming, Ahead
  <2>4. CASE tb.no = m /\ tb.sent = 0
    BY <1>1, <2>4 DEF Coming
  <2> QED
    BY <1>3, <2>1, <2>3, <2>4 DEF Coming
<1>5. CASE hits' = hits /\ (OnAir = {} \/ k = n)
  <2>1. \A m \in k + 1 .. tb'.no : Coming(m)' \/ m \in F
    BY <1>1, <1>2, <1>4, <1>5
  <2> QED
    BY <1>3, <1>5, <2>1 DEF Missed
<1>6. CASE hits' = hits + 1
  <2> DEFINE G == F \cup {n}
  <2>1. /\ IsFiniteSet(G) /\ Cardinality(G) \in Nat
        /\ Cardinality(G) <= Cardinality(F) + 1 /\ Cardinality(F) \in Nat
    BY <1>3, OneAdded, FS_CardinalityType
  <2>2. \A m \in k + 1 .. tb'.no : Coming(m)' \/ m \in G
    BY <1>1, <1>4
  <2> HIDE DEF G
  <2>3. Cardinality(G) <= hits'
    BY <1>2, <1>3, <1>6, <2>1
  <2> QED
    BY <2>1, <2>2, <2>3 DEF Missed
<1> QED
  BY <1>5, <1>6

\* The decoder is at TB j, and has missed no more than the radio hit.
Tracked == NeverThrows /\ \E j \in 0 .. tb.no : Reach(j) /\ Missed(j)

LEMMA FramerTracked ==
  ASSUME IInv, Layout, Sending, DecoderTypes, Flow, Tracked,
         Framer \/ UNCHANGED linkVars
  PROVE  Tracked'
<1>1. PICK j \in 0 .. tb.no : Reach(j) /\ Missed(j)
  BY DEF Tracked
<1>2. Reach(j)' /\ j \in 0 .. tb'.no
  BY <1>1, FramerReach
<1>3. Missed(j)'
  BY <1>1, FramerMissed
<1>4. NeverThrows'
  BY DEF Tracked, NeverThrows, Framer, linkVars, receiverVars, decoderVars
<1> QED
  BY <1>2, <1>3, <1>4 DEF Tracked

\* What is left of a frame about TB n is processed.
LEMMA ProcessTracked ==
  ASSUME FewerHits, IInv, Sending, DecoderTypes, Bytewise, InOrder,
         NeverThrows, NEW j \in 0 .. tb.no, Reach(j), Missed(j),
         NEW n \in 0 .. tb.no, NEW f, Left(f, n), ProcessFrame(f),
         hits' = hits \/ hits' = hits + 1
  PROVE  NeverThrows' /\ \E k \in 0 .. tb.no : Reach(k)' /\ Missed(k)'
<1>1. /\ f \in FrameSet /\ f.tags = Sent.tags /\ TagOK(Sent.tags)
      /\ About(n) /\ PassOn /\ suspects \subseteq suspects' /\ Parts(n)
  BY DEF Left
<1>2. Near(j, n)
  BY <1>1, MissedNear
<1>3. CASE SkipEmpty(f)
  <2>1. UNCHANGED decoderVars /\ OnAir = {}
    BY <1>1, <1>3 DEF SkipEmpty, About
  <2>2. Reach(j)'
    BY <1>1, <2>1, SkippedReach
  <2>3. j \in j .. tb.no
    BY DEF IInv, Types, TypeOK
  <2>4. Missed(j)'
    BY <1>1, <2>1, <2>3, PassedMissed
  <2> QED
    BY <2>1, <2>2, <2>4 DEF NeverThrows, decoderVars
<1>4. CASE SameTb(f) \/ SmallTb(f) \/ OtherTb(f)
  <2>1. Sent.tags.payload > 0
    BY <1>1, <1>4 DEF SameTb, SmallTb, OtherTb, NewBuf
  <2>2. NeverThrows' /\ Reach(n)'
    BY <1>1, <1>2, <1>4, SameTbReach, NewTbReach
  <2>3. n >= j
    BY <1>1, <2>1, NotBack
  <2>4. n \in j .. tb.no
    BY <2>3
  <2>5. Missed(n)'
    BY <1>1, <2>4, PassedMissed
  <2> QED
    BY <2>2, <2>5
<1> QED
  BY <1>3, <1>4 DEF ProcessFrame

\* What the radio's step is, whatever it does to the frame.
LEMMA RadioLeft ==
  ASSUME TbMod > 1, IInv, Layout, Sending, InOrder, Numbering, Exactly, Radio
  PROVE  /\ PassOn /\ tb' = tb /\ suspects \subseteq suspects'
         /\ hits' = hits \/ hits' = hits + 1
         /\ \E n \in 0 .. tb.no :
              /\ About(n) /\ Parts(n)
              /\ \/ \E f : Left(f, n) /\ ProcessFrame(f)
                 \/ /\ UNCHANGED decoderVars /\ hits' = hits + 1
                    /\ \A q \in OnAir : q.tb.no \in suspects'
<1>1. /\ PassOn /\ air # <<>> /\ tb' = tb
      /\ Sent \in FrameSet /\ TagOK(Sent.tags) /\ OnAir = Sent.pieces
  BY SentFact DEF Radio, Receive, Lose, Spoil, PassOn, buildVars
<1>2. PICK n \in 0 .. tb.no : About(n)
  BY <1>1, FrameAbout
<1>3. Parts(n)
  BY <1>1, <1>2, FrameParts
<1>4. CASE Receive
  <2>1. ProcessFrame(Sent) /\ suspects' = suspects /\ hits' = hits
    BY <1>4 DEF Receive
  <2>2. Left(Sent, n)
    BY <1>1, <1>2, <1>3, <2>1 DEF Left
  <2> QED
    BY <1>1, <1>2, <1>3, <2>1, <2>2
<1>5. CASE Lose
  <2>1. Hit(OnAir) /\ UNCHANGED decoderVars
    BY <1>1, <1>5 DEF Lose
  <2>2. /\ suspects \subseteq suspects' /\ hits' = hits + 1
        /\ \A q \in OnAir : q.tb.no \in suspects'
    BY <2>1 DEF Hit
  <2> QED
    BY <1>1, <1>2, <1>3, <2>1, <2>2
<1>6. CASE Spoil
  <2>1. PICK bad \in SUBSET OnAir :
          Hit(bad) /\ ProcessFrame([Sent EXCEPT !.pieces = @ \ bad])
    BY <1>1, <1>6 DEF Spoil
  <2>2. PICK f : f = [Sent EXCEPT !.pieces = @ \ bad]
    OBVIOUS
  <2>3. f \in FrameSet /\ f.tags = Sent.tags /\ f.pieces = OnAir \ bad
    BY <1>1, <2>2 DEF FrameSet
  <2>4. /\ suspects \subseteq suspects' /\ hits' = hits + 1
        /\ \A q \in bad : q.tb.no \in suspects'
    BY <2>1 DEF Hit
  <2>5. Left(f, n)
    BY <1>1, <1>2, <1>3, <2>3, <2>4 DEF Left
  <2>6. ProcessFrame(f)
    BY <2>1, <2>2
  <2> QED
    BY <1>1, <1>2, <1>3, <2>4, <2>5, <2>6
<1> QED
  BY <1>4, <1>5, <1>6 DEF Radio

LEMMA RadioTracked ==
  ASSUME FewerHits, TbMod > 1, IInv, Layout, Sending, DecoderTypes, Bytewise,
         InOrder, Numbering, Exactly, Tracked, Radio
  PROVE  Tracked'
<1>1. PICK j \in 0 .. tb.no : Reach(j) /\ Missed(j)
  BY DEF Tracked
<1>2. /\ PassOn /\ tb' = tb /\ suspects \subseteq suspects'
      /\ hits' = hits \/ hits' = hits + 1
  BY RadioLeft
<1>3. PICK n \in 0 .. tb.no :
        /\ About(n) /\ Parts(n)
        /\ \/ \E f : Left(f, n) /\ ProcessFrame(f)
           \/ /\ UNCHANGED decoderVars /\ hits' = hits + 1
              /\ \A q \in OnAir : q.tb.no \in suspects'
  BY RadioLeft
<1>4. CASE \E f : Left(f, n) /\ ProcessFrame(f)
  BY <1>1, <1>2, <1>4, ProcessTracked DEF Tracked
<1>5. CASE /\ UNCHANGED decoderVars /\ hits' = hits + 1
           /\ \A q \in OnAir : q.tb.no \in suspects'
  <2>1. Reach(j)'
    BY <1>1, <1>2, <1>5, SkippedReach
  <2>2. j \in j .. tb.no
    BY DEF IInv, Types, TypeOK
  <2>3. Missed(j)'
    BY <1>1, <1>2, <1>3, <1>5, <2>2, PassedMissed
  <2>4. NeverThrows'
    BY <1>5 DEF Tracked, NeverThrows, decoderVars
  <2> QED
    BY <1>1, <1>2, <2>1, <2>3, <2>4 DEF Tracked
<1> QED
  BY <1>3, <1>4, <1>5

LEMMA InitTracked == LinkInit => Tracked
<1> SUFFICES ASSUME LinkInit PROVE Tracked
  OBVIOUS
<1>1. Reached
  BY InitReached
<1>2. tb.no = 0 /\ hits = 0
  BY DEF LinkInit, Init, NoTb
<1>3. Reach(0)
  <2>1. PICK j \in 0 .. tb.no : Reach(j)
    BY <1>1 DEF Reached
  <2>2. j = 0
    BY <1>2
  <2> QED
    BY <2>1, <2>2
<1>4. Missed(0)
  BY <1>2, FS_EmptySet DEF Missed
<1> QED
  BY <1>1, <1>2, <1>3, <1>4 DEF Reached, Tracked

-----------------------------------------------------------------------------
(* A loss is contained, step by step                                       *)

\* The decoder is at TB j, and what it should have delivered it has.
Settled(j) == Reach(j) /\ AllGot(j) /\ Standing(j)

\* The decoder skips the frame, or does not get it.
LEMMA SkippedSettled ==
  ASSUME IInv, DecoderTypes, PassOn, suspects \subseteq suspects',
         NEW j \in 0 .. tb.no, Settled(j), UNCHANGED decoderVars,
         \A q \in OnAir : q.tb.no \in suspects'
  PROVE  Settled(j)'
<1>1. UNCHANGED <<rcvBuf, fecInfo, got>>
  BY DEF decoderVars
<1>2. tb' = tb /\ Ahead' = mem /\ ThisTb' = ThisTb
  <2>1. tb' = tb /\ mem' = mem /\ air' = <<>>
    BY DEF PassOn, buildVars, outVars
  <2> QED
    BY <2>1 DEF Ahead, OnAir, ThisTb
<1>3. Reach(j)'
  BY SkippedReach DEF Settled
<1>4. AllGot(j)'
  BY <1>1 DEF Settled, AllGot, Clean
<1>5. CASE j \notin suspects' /\ Free(j)
  <2>1. Free(j)'
    BY <1>1, <1>2, <1>5 DEF Free, Ahead, TbReady
  <2> QED
    BY <1>3, <1>4, <2>1 DEF Settled, Standing
<1>6. CASE j \notin suspects' /\ Halfway(j)
  <2>1. ASSUME NEW p \in Ahead, p.tb = rcvBuf.tb
        PROVE  p \in mem
    BY <1>6, <2>1 DEF Ahead, Halfway
  <2>2. Halfway(j)'
    BY <1>1, <1>2, <1>6, <2>1 DEF Halfway
  <2> QED
    BY <1>3, <1>4, <2>2 DEF Settled, Standing
<1>7. CASE j \in suspects'
  BY <1>3, <1>4, <1>7 DEF Settled, Standing
<1> QED
  BY <1>5, <1>6, <1>7 DEF Settled, Standing

LEMMA SameTbAllGot ==
  ASSUME DecoderTypes, Sending, NEW n, AllGot(n), NEW f, Left(f, n), SameTb(f)
  PROVE  AllGot(n)'
<1> DEFINE t == Sent.tags
           g == Grown(rcvBuf, f, 0, t.payload)
           d == IF 8 * g.bytes >= Expected(t) THEN Decoded(g, fecInfo, t.cnst)
                                              ELSE <<>>
<1>1. got' = got \o d /\ t.payload \in Nat /\ 0 \in Nat /\ f.tags = t
  BY TagNumbers DEF SameTb, Left
<1>2. got \in Seq(Nat) /\ d \in Seq(Nat)
  <2>1. g \in BufSet
    BY <1>1, GrownFact DEF Left, DecoderTypes
  <2> HIDE DEF g
  <2>2. Decoded(g, fecInfo, t.cnst) \in Seq(Nat)
    BY <2>1, DecodedFact
  <2> QED
    BY <2>2 DEF DecoderTypes
<1> HIDE DEF d
<1>3. Range(got) \subseteq Range(got')
  BY <1>1, <1>2, RangeGrows
<1> QED
  BY <1>3 DEF AllGot, Clean, Left

LEMMA ProcessSettled ==
  ASSUME IInv, Sending, DecoderTypes, Bytewise, InOrder, Coded, Contiguous,
         SizesAgree, NeverThrows, NEW j \in 0 .. tb.no, Settled(j),
         NEW n \in 0 .. tb.no, Near(j, n), NEW f, Left(f, n), ProcessFrame(f)
  PROVE  (OnAir = {} /\ Settled(j)') \/ (n >= j /\ Settled(n)')
<1>1. /\ f \in FrameSet /\ f.tags = Sent.tags /\ TagOK(Sent.tags)
      /\ About(n) /\ PassOn /\ suspects \subseteq suspects'
      /\ Reach(j) /\ AllGot(j) /\ Standing(j)
  BY DEF Left, Settled
<1>2. CASE SkipEmpty(f)
  <2>1. UNCHANGED decoderVars /\ OnAir = {}
    BY <1>1, <1>2 DEF SkipEmpty, About
  <2> QED
    BY <1>1, <2>1, SkippedSettled
<1>3. CASE SameTb(f)
  <2>1. n = j
    BY <1>1, <1>3, SameIsThis DEF SameTb
  <2>2. Reach(n)'
    BY <1>1, <1>3, SameTbReach
  <2>3. AllGot(n)' /\ Standing(n)'
    BY <1>1, <1>3, <2>1, SameTbAllGot, SameTbStanding
  <2>4. n >= j
    BY <2>1 DEF IInv, Types, TypeOK
  <2> QED
    BY <2>2, <2>3, <2>4 DEF Settled
<1>4. CASE SmallTb(f) \/ OtherTb(f)
  <2>1. Sent.tags.payload > 0 /\ Sent.tags.no # tbNumber
    BY <1>1, <1>4 DEF SmallTb, OtherTb, NewBuf
  <2>2. n \in Nat /\ j \in Nat /\ tb.no \in Nat /\ n >= j
    BY <1>1, <2>1, NotBack DEF IInv, Types, TypeOK
  <2>3. n # j
    <3>1. SUFFICES ASSUME n = j PROVE FALSE
      OBVIOUS
    <3>2. Sent.tags.no = n % TbMod
      BY <1>1 DEF About
    <3>3. n = 0
      BY <1>1, <2>1, <3>1, <3>2 DEF Reach
    <3>4. PICK p \in OnAir : p.tb.no = n
      BY <2>1, LeftFact
    <3>5. p.tb.no \in 1 .. tb.no
      BY AheadTypes DEF Ahead, PieceOK
    <3> QED
      BY <3>3, <3>4, <3>5
  <2>4. n \in j + 1 .. tb.no
    BY <2>2, <2>3
  <2>5. Reach(n)'
    BY <1>1, <1>4, NewTbReach
  <2>6. AllGot(n)' /\ Standing(n)'
    BY <1>1, <1>4, <2>4, SmallTbStanding, OtherTbStanding
  <2> QED
    BY <2>2, <2>5, <2>6 DEF Settled
<1> QED
  BY <1>2, <1>3, <1>4 DEF ProcessFrame

LEMMA RadioSettled ==
  ASSUME FewerHits, TbMod > 1, IInv, Layout, Sending, DecoderTypes, Bytewise,
         InOrder, Numbering, Exactly, Coded, Contiguous, SizesAgree,
         NeverThrows, NEW j \in 0 .. tb.no, Settled(j), Missed(j), Radio
  PROVE  \E k \in 0 .. tb'.no : Settled(k)' /\ Missed(k)'
<1>1. /\ PassOn /\ tb' = tb /\ suspects \subseteq suspects'
      /\ hits' = hits \/ hits' = hits + 1
  BY RadioLeft
<1>2. PICK n \in 0 .. tb.no :
        /\ About(n) /\ Parts(n)
        /\ \/ \E f : Left(f, n) /\ ProcessFrame(f)
           \/ /\ UNCHANGED decoderVars /\ hits' = hits + 1
              /\ \A q \in OnAir : q.tb.no \in suspects'
  BY RadioLeft
<1>3. Near(j, n) /\ j \in j .. tb.no
  BY <1>2, MissedNear DEF IInv, Types, TypeOK
<1>4. CASE \E f : Left(f, n) /\ ProcessFrame(f)
  <2>1. (OnAir = {} /\ Settled(j)') \/ (n >= j /\ Settled(n)')
    BY <1>3, <1>4, ProcessSettled
  <2>2. CASE OnAir = {} /\ Settled(j)'
    BY <1>1, <1>2, <1>3, <2>2, PassedMissed
  <2>3. CASE n >= j /\ Settled(n)'
    <3>1. n \in j .. tb.no
      BY <2>3
    <3>2. Missed(n)'
      BY <1>1, <1>2, <3>1, PassedMissed
    <3> QED
      BY <1>1, <2>3, <3>2
  <2> QED
    BY <2>1, <2>2, <2>3
<1>5. CASE /\ UNCHANGED decoderVars /\ hits' = hits + 1
           /\ \A q \in OnAir : q.tb.no \in suspects'
  <2>1. Settled(j)'
    BY <1>1, <1>5, SkippedSettled
  <2>2. Missed(j)'
    BY <1>1, <1>2, <1>3, <1>5, PassedMissed
  <2> QED
    BY <1>1, <2>1, <2>2
<1> QED
  BY <1>2, <1>4, <1>5

\* The framer's steps: what comes next is still to come.
LEMMA FramerStanding ==
  ASSUME IInv, Layout, Sending, Flow, NEW j \in 0 .. tb.no, Standing(j),
         Framer \/ UNCHANGED linkVars
  PROVE  Standing(j)'
<1>1. UNCHANGED <<suspects, rcvBuf, fecInfo, got>>
  BY DEF Framer, linkVars, receiverVars, decoderVars
<1>2. /\ tb \in TbSet /\ tb.no \in Nat /\ tb.sent \in 0 .. tb.size
      /\ ThisTb.no = tb.no /\ ThisTb.size = tb.size /\ tb.size \in Nat
  BY DEF IInv, Types, TypeOK, TbSet, ThisTb
<1>3. CASE Kept
  <2>1. tb' = tb /\ ThisTb' = ThisTb
    BY <1>3 DEF Kept, ThisTb
  <2>2. Free(j) => Free(j)'
    BY <1>1, <1>3, <2>1 DEF Kept, SameBits, Free, TbReady
  <2>3. ASSUME NEW p \in Ahead, p.tb = rcvBuf.tb, p.from = rcvBuf.upto
        PROVE  \E q \in Ahead' : q.tb = rcvBuf.tb /\ q.from = rcvBuf.upto
    BY <1>3, <2>3 DEF Kept, SameBits
  <2>4. Halfway(j) => Halfway(j)'
    BY <1>1, <2>1, <2>3 DEF Halfway
  <2> QED
    BY <1>1, <2>2, <2>4 DEF Standing
<1>4. CASE EncodeTb
  <2>1. Ahead' = Ahead /\ tb'.no = tb.no + 1 /\ TbReady
    <3>1. action = "input"
      BY <1>4 DEF EncodeTb, Processing
    <3> QED
      BY <1>4, <3>1, NewTbFact DEF Ahead, OnAir, Sent, Flow
  <2>2. j # tb'.no
    BY <1>2, <2>1
  <2>3. Free(j) => Free(j)'
    BY <1>1, <2>1, <2>2 DEF Free
  <2>4. Halfway(j) => Halfway(j)'
    <3>1. ASSUME Halfway(j), rcvBuf.tb = ThisTb, tb.sent = rcvBuf.upto
          PROVE  FALSE
      BY <1>2, <2>1, <3>1 DEF Halfway, TbReady
    <3> QED
      BY <1>1, <2>1, <3>1 DEF Halfway
  <2> QED
    BY <1>1, <2>3, <2>4 DEF Standing
<1>5. CASE Write
  <2>1. /\ air' = air /\ tb'.sent = tb.sent + OutBits /\ tb'.no = tb.no
        /\ mem \subseteq mem' /\ InOutput /\ OutBits \in Nat
        /\ tb' = [tb EXCEPT !.sent = @ + OutBits]
    BY <1>5, WriteFact, WrittenFact, OutFact
  <2>2. ThisTb' = ThisTb
    BY <1>2, <2>1 DEF ThisTb, TbSet
  <2>3. /\ Ahead \subseteq Ahead'
        /\ \A p \in Ahead' : p \in Ahead
                             \/ (p = Piece(call.at, OutBits) /\ OutBits > 0)
    BY <1>5, <2>1, WrittenPiece DEF Ahead, OnAir, Sent
  <2>4. Free(j) => Free(j)'
    <3>1. SUFFICES ASSUME Free(j) PROVE Free(j)'
      OBVIOUS
    <3>2. j # tb.no
      BY <2>1, <3>1 DEF Free, InOutput
    <3>3. \A p \in Ahead' : p.tb.no # j
      BY <1>5, <2>3, <3>1, <3>2, NewPiece DEF Free
    <3> QED
      BY <1>1, <2>1, <3>1, <3>2, <3>3 DEF Free
  <2>5. Halfway(j) => Halfway(j)'
    <3>1. SUFFICES ASSUME Halfway(j) PROVE Halfway(j)'
      OBVIOUS
    <3>2. CASE \E p \in Ahead : p.tb = rcvBuf.tb /\ p.from = rcvBuf.upto
      BY <1>1, <2>3, <3>1, <3>2 DEF Halfway
    <3>3. CASE rcvBuf.tb = ThisTb /\ tb.sent = rcvBuf.upto /\ OutBits > 0
      <4>1. \E p \in Ahead' : p.tb = rcvBuf.tb /\ p.from = rcvBuf.upto
        <5>1. PICK w : w = Piece(call.at, OutBits)
          OBVIOUS
        <5>2. w \in Ahead' /\ w.tb = ThisTb /\ w.from = tb.sent
          BY <1>5, <3>3, <5>1, NewPiece DEF Write, Ahead
        <5> QED
          BY <3>3, <5>2
      <4> QED
        BY <1>1, <3>1, <4>1 DEF Halfway
    <3>4. CASE rcvBuf.tb = ThisTb /\ tb.sent = rcvBuf.upto /\ ~(OutBits > 0)
      <4>1. tb'.sent = tb.sent
        BY <1>2, <2>1, <3>4
      <4> QED
        BY <1>1, <2>2, <3>1, <3>4, <4>1 DEF Halfway
    <3> QED
      BY <3>1, <3>2, <3>3, <3>4 DEF Halfway
  <2> QED
    BY <1>1, <2>4, <2>5 DEF Standing
<1> QED
  BY <1>3, <1>4, <1>5, FramerKinds

LEMMA FramerSettled ==
  ASSUME IInv, Layout, Sending, DecoderTypes, Flow, NEW j \in 0 .. tb.no,
         Settled(j), Framer \/ UNCHANGED linkVars
  PROVE  Settled(j)' /\ j \in 0 .. tb'.no
<1>1. Reach(j)' /\ j \in 0 .. tb'.no
  BY FramerReach DEF Settled
<1>2. Standing(j)'
  BY FramerStanding DEF Settled
<1>3. AllGot(j)'
  <2>1. UNCHANGED <<suspects, got>>
    BY DEF Framer, linkVars, receiverVars, decoderVars
  <2> QED
    BY <2>1 DEF Settled, AllGot, Clean
<1> QED
  BY <1>1, <1>2, <1>3 DEF Settled

\* At the end of the input nothing is still to come.
LEMMA SettledContained ==
  ASSUME IInv, Layout, Flow, NEW j \in 0 .. tb.no, Settled(j)
  PROVE  LossContained
<1>1. SUFFICES ASSUME NoInput, TbReady, NEW n \in 1 .. tb.no, Clean(n)
               PROVE  n \in Range(got)
  BY DEF LossContained, Clean
<1>2. Ahead = {}
  BY <1>1, NothingBuilt DEF NoInput, Called, Ahead, OnAir
<1>3. tb.no \in Nat /\ n \in Nat /\ n > 0 /\ j \in Nat /\ tb.no > 0
  BY <1>1 DEF IInv, Types, TypeOK
<1>4. CASE n < j
  BY <1>3, <1>4, <1>1 DEF Settled, AllGot
<1>5. CASE n = j
  <2>1. ~Halfway(j)
    <3>1. ThisTb.size = tb.size /\ tb.size \in Nat
      BY DEF ThisTb, IInv, Types, TypeOK, TbSet
    <3> QED
      BY <1>1, <1>2, <3>1 DEF Halfway, TbReady
  <2>2. Free(j)
    BY <1>1, <1>5, <2>1 DEF Settled, Standing, Clean
  <2> QED
    BY <1>1, <1>3, <1>5, <2>2 DEF Free, Clean
<1>6. CASE n > j
  <2>1. n \in j + 1 .. tb.no
    BY <1>3, <1>6
  <2>2. Due(n)
    BY <2>1 DEF Settled, Reach
  <2>3. tb.sent > 0
    BY <1>1, <1>3 DEF Flow, TbReady
  <2> QED
    BY <1>1, <1>2, <2>2, <2>3 DEF Due, Clean
<1> QED
  BY <1>3, <1>4, <1>5, <1>6

LEMMA InitSettled ==
  ASSUME LinkInit
  PROVE  \E j \in 0 .. tb.no : Settled(j) /\ Missed(j)
<1>1. /\ tb = NoTb /\ mem = {} /\ air = <<>> /\ suspects = {} /\ hits = 0
      /\ tbNumber = -1 /\ rcvBuf = EmptyBuf
  BY DEF LinkInit, Init, DecoderInit
<1>2. tb.no = 0 /\ TbReady /\ Ahead = {}
  BY <1>1 DEF NoTb, TbReady, Ahead, OnAir
<1>3. Reach(0)
  BY <1>1, <1>2 DEF Reach
<1>4. Free(0)
  BY <1>1, <1>2, EmptyBufFact DEF Free
<1>5. Missed(0)
  BY <1>1, <1>2, FS_EmptySet DEF Missed
<1> QED
  BY <1>2, <1>3, <1>4, <1>5 DEF Settled, AllGot, Standing

LEMMA NextSettled ==
  ASSUME FewerHits, TbMod > 1, IInv, Layout, Sending, DecoderTypes, Flow,
         Bytewise, InOrder, Numbering, Exactly, Coded, Contiguous, SizesAgree,
         NeverThrows, \E j \in 0 .. tb.no : Settled(j) /\ Missed(j),
         [LinkNext]_linkVars
  PROVE  \E j \in 0 .. tb'.no : Settled(j)' /\ Missed(j)'
<1>1. PICK j \in 0 .. tb.no : Settled(j) /\ Missed(j)
  OBVIOUS
<1>2. CASE Framer \/ UNCHANGED linkVars
  BY <1>1, <1>2, FramerSettled, FramerMissed
<1>3. CASE Radio
  BY <1>1, <1>3, RadioSettled
<1> QED
  BY <1>2, <1>3 DEF LinkNext

-----------------------------------------------------------------------------
(* A byte is left wherever a TB begins                                     *)

\* After any whole bytes but the last there is room for one more: true of
\* constellations that cut a byte into whole symbols, and not of all others.
ByteLeft ==
  \A c \in Asked :
    /\ 8 <= Capacity * c
    /\ \A r \in 0 .. FrameLen(c) - 1 :
         8 <= (Capacity - BytesToSyms(r, c)) * c

\* A TB that ends in a frame without closing it leaves a byte of it.
Roomy ==
  (frame.offset > 0 /\ ~Closing) => frame.offset < FrameLen(current.cnst)

LEMMA RoomyAvailable ==
  ASSUME ByteLeft, IInv, Coded, Roomy
  PROVE  NoEmptyCut
<1> DEFINE c == current.cnst
           room == (Capacity - frame.used) * c
<1>1. SUFFICES ASSUME InOutput PROVE Available > 0
  BY DEF NoEmptyCut
<1>2. c \in Asked /\ ~Closing
  BY <1>1 DEF Coded, InOutput, Closing
<1>3. /\ frame.offset \in Nat /\ frame.used \in Nat
      /\ Capacity \in Nat /\ c \in Nat
  BY SizesAssumption DEF IInv, Types, TypeOK, Constellations
<1>4. room >= 8
  <2>1. CASE frame.offset = 0
    <3>1. frame.used = 0
      BY <2>1 DEF IInv, PartialFrame
    <3>2. room = Capacity * c
      BY <1>3, <3>1
    <3> HIDE DEF room
    <3> QED
      BY <1>2, <1>3, <3>2 DEF ByteLeft
  <2>2. CASE frame.offset > 0
    <3>1. frame.used = BytesToSyms(frame.offset, c)
      BY <1>2, <2>2 DEF IInv, PartialFrame
    <3>2. frame.offset \in 0 .. FrameLen(c) - 1
      <4>1. FrameLen(c) \in Int
        <5>1. Capacity * c \in Nat
          BY <1>3
        <5> QED
          BY <5>1 DEF FrameLen
      <4>2. frame.offset < FrameLen(c)
        BY <1>2, <2>2 DEF Roomy
      <4> QED
        BY <1>3, <4>1, <4>2
    <3>3. 8 <= (Capacity - BytesToSyms(frame.offset, c)) * c
      BY <1>2, <3>2 DEF ByteLeft
    <3>4. room \in Int
      BY <1>3
    <3> QED
      BY <3>1, <3>3, <3>4
  <2> QED
    BY <1>3, <2>1, <2>2
<1>5. room \in Int /\ Available = room \div 8
  BY <1>3 DEF Available
<1> HIDE DEF room
<1> QED
  BY <1>4, <1>5

LEMMA NextRoomy ==
  ASSUME IInv, Layout, Roomy, [Next]_vars
  PROVE  Roomy'
<1>1. CASE FillFrame \/ FinalizeFrame
  <2>1. frame' = NewFrame
    BY <1>1 DEF FillFrame, FinalizeFrame, Finalize
  <2> QED
    BY <2>1 DEF Roomy, NewFrame
<1>2. CASE LeaveRoom
  <2>1. Write /\ OutBytes < Available /\ current' = current /\ ~Closing
    BY <1>2, WriteFact DEF LeaveRoom
  <2>2. frame'.offset = IF frame.offset = 0 THEN OutBytes ELSE frame.offset
    BY <1>2 DEF LeaveRoom
  <2>3. frame.offset = 0 => Available = FrameLen(current.cnst)
    <3>1. SUFFICES ASSUME frame.offset = 0
                   PROVE  Available = FrameLen(current.cnst)
      OBVIOUS
    <3>2. frame.used = 0 /\ Capacity - 0 = Capacity
      BY <3>1, SizesAssumption DEF IInv, PartialFrame
    <3> QED
      BY <3>2 DEF Available, FrameLen
  <2>4. frame.offset \in Nat
    BY DEF IInv, Types, TypeOK
  <2> QED
    BY <2>1, <2>2, <2>3, <2>4 DEF Roomy
<1>3. CASE EncodeTb
  <2>1. /\ frame' = frame /\ current' = header /\ ~Closing
        /\ frame.offset > 0 => header.cnst = current.cnst
    BY <1>3 DEF EncodeTb, MustFlush, Processing, Closing
  <2> QED
    BY <2>1 DEF Roomy
<1>4. CASE OutputDone \/ FlushForNewCnst
  <2>1. current' = current
    BY <1>4 DEF OutputDone, FlushForNewCnst, radioVars
  <2>2. frame' = NewFrame \/ (frame' = frame /\ ~Closing)
    BY <1>4 DEF OutputDone, Finalize, Finalizes, FlushForNewCnst, Processing,
       Closing
  <2> QED
    BY <2>1, <2>2 DEF Roomy, NewFrame
<1>5. CASE \/ Arrive \/ ProcessFeedbackHeader \/ PassOn \/ BeginCall
           \/ OutputWait \/ LeaveLoop \/ UNCHANGED vars
  <2>1. UNCHANGED <<frame, current, action, usedFrames, tb>>
    BY <1>5 DEF Arrive, ProcessFeedbackHeader, PassOn, BeginCall,
       ProduceLoaded, EmptyFrame, GiveUp, EnterLoop, OutputWait, LeaveLoop,
       vars, radioVars, buildVars
  <2> QED
    BY <2>1 DEF Roomy, Closing, TbReady
<1> QED
  BY <1>1, <1>2, <1>3, <1>4, <1>5, NeverNoWholePdu DEF Next, Loop

\* A frame of a multiple of eight symbols, each of one, two or four bits: the
\* sizes agree, and a byte is left.
LEMMA WholeSymbols ==
  ASSUME Capacity % 8 = 0, 3 \notin Cnsts
  PROVE  SizesAgree /\ ByteLeft
<1>1. Capacity \in Nat \ {0}
  BY SizesAssumption
<1>2. PICK m \in Nat \ {0} : Capacity = 8 * m
  <2>1. Capacity \div 8 \in Nat \ {0} /\ Capacity = 8 * (Capacity \div 8)
    BY <1>1
  <2> QED
    BY <2>1
<1>3. \A c \in Asked : c \in {1, 2, 4}
  BY SizesAssumption DEF Asked, Constellations
<1>4. ASSUME NEW c \in Asked
      PROVE  FrameLen(c) = m * c /\ BitsToBytes(Capacity * c) = m * c
  BY <1>2, <1>3 DEF FrameLen, BitsToBytes
<1>5. SizesAgree
  BY <1>4 DEF SizesAgree, SentCodewords, HeardCodewords
<1>6. ASSUME NEW c \in Asked
      PROVE  8 <= Capacity * c
  BY <1>2, <1>3
<1>7. ASSUME NEW c \in Asked, NEW r \in 0 .. FrameLen(c) - 1
      PROVE  8 <= (Capacity - BytesToSyms(r, c)) * c
  <2>1. r \in 0 .. m * c - 1
    BY <1>4
  <2>2. CASE c = 1
    BY <1>2, <2>1, <2>2 DEF BytesToSyms
  <2>3. CASE c = 2
    BY <1>2, <2>1, <2>3 DEF BytesToSyms
  <2>4. CASE c = 4
    BY <1>2, <2>1, <2>4 DEF BytesToSyms
  <2> QED
    BY <1>3, <2>2, <2>3, <2>4
<1> QED
  BY <1>5, <1>6, <1>7 DEF ByteLeft

-----------------------------------------------------------------------------
(* A loss is contained                                                     *)

LEMMA CutInvariance ==
  (WholePdus /\ ByteLeft) => (LinkSpec => [](NoEmptyCut /\ UsedOut))
<1>1. SUFFICES ASSUME WholePdus, ByteLeft
               PROVE  LinkSpec => [](NoEmptyCut /\ UsedOut)
  OBVIOUS
<1>2. Init => Roomy /\ UsedOut
  BY DEF Init, Roomy, NewFrame, UsedOut
<1>3. IInv /\ Layout /\ Roomy /\ [Next]_vars => Roomy'
  BY NextRoomy
<1>4. IInv /\ Coded /\ Roomy => NoEmptyCut
  BY <1>1, RoomyAvailable
<1>5. IInv /\ NoEmptyCut /\ UsedOut /\ [Next]_vars => UsedOut'
  BY NextUsedOut
<1>6. (LinkSpec => []Layout) /\ (LinkSpec => []Coded)
  BY <1>1, LinkLayout, CodedInvariance
<1> QED
  BY <1>2, <1>3, <1>4, <1>5, <1>6, FramerFact, LinkInvariance,
     PTL DEF LinkSpec

LEMMA ExactInvariance ==
  (WholePdus /\ ByteLeft /\ TbMod > 1) => (LinkSpec => []Exactly)
<1>1. SUFFICES ASSUME WholePdus, ByteLeft, TbMod > 1
               PROVE  LinkSpec => []Exactly
  OBVIOUS
<1>2. Init => Exactly
  BY DEF Init, Exactly, LoadedExact, AirExact, OpenExact, OnAir
<1>3. /\ IInv /\ Layout /\ Sending /\ Numbering /\ Exactly /\ Coded
      /\ NoEmptyCut /\ UsedOut /\ [Next]_vars
      => Exactly'
  BY <1>1, NextExact DEF Coded
<1>4. /\ LinkSpec => []Layout
      /\ LinkSpec => []Numbering
      /\ LinkSpec => []Coded
      /\ LinkSpec => [](NoEmptyCut /\ UsedOut)
  BY <1>1, LinkLayout, NumberingInvariance, CodedInvariance, CutInvariance
<1> QED
  BY <1>2, <1>3, <1>4, FramerFact, LinkInvariance, SendingInvariance,
     PTL DEF LinkSpec

LEMMA FewerMod == FewerHits => TbMod > 1
<1>1. MaxHits \in Nat /\ TbMod \in Nat
  BY HitsAssumption, SizesAssumption
<1> QED
  BY <1>1 DEF FewerHits

LEMMA TrackedInvariance ==
  (WholePdus /\ ByteLeft /\ FewerHits) => (LinkSpec => []Tracked)
<1>1. SUFFICES ASSUME WholePdus, ByteLeft, FewerHits
               PROVE  LinkSpec => []Tracked
  OBVIOUS
<1>2. TbMod > 1
  BY <1>1, FewerMod
<1>3. LinkInit => Tracked
  BY InitTracked
<1>4. /\ IInv /\ Layout /\ Sending /\ DecoderTypes /\ Flow /\ Bytewise
      /\ InOrder /\ Numbering /\ Exactly /\ Tracked /\ [LinkNext]_linkVars
      => Tracked'
  BY <1>1, <1>2, FramerTracked, RadioTracked DEF LinkNext
<1>5. /\ LinkSpec => []Layout
      /\ LinkSpec => []InOrder
      /\ LinkSpec => []Numbering
      /\ LinkSpec => []Exactly
  BY <1>1, <1>2, LinkLayout, InOrderInvariance, NumberingInvariance,
     ExactInvariance
<1> QED
  BY <1>3, <1>4, <1>5, LinkInvariance, SendingInvariance, DecoderInvariance,
     FlowInvariance, BytewiseInvariance, PTL DEF LinkSpec

\* Where the framer begins no TB with less than a byte left in the frame, each
\* frame that is lost takes the beginning of one TB at most (a frame has the
\* rest of one TB and the beginning of the next), and the decoder's check of
\* its buffer never throws unless as many frames are lost as there are TB
\* numbers but one.
THEOREM NeverThrowsBound ==
  (WholePdus /\ ByteLeft /\ MaxHits + 1 < TbMod)
    => (LinkSpec => []NeverThrows)
<1>1. Tracked => NeverThrows
  BY DEF Tracked
<1>2. ASSUME WholePdus, ByteLeft, FewerHits
      PROVE  LinkSpec => []NeverThrows
  BY <1>1, <1>2, TrackedInvariance, PTL
<1> QED
  BY <1>2 DEF FewerHits

\* A loss is contained: when a frame or pieces of it are lost (process_frame of
\* tb_decoder), the only TBs not delivered are those with a part in it and the
\* one after each.  The framer and the decoder must take a frame for as many
\* codewords, and the framer (of ofdm_adaptive_fec_frame_bvb) must never begin a
\* TB where a frame has less than a byte left; too few frames are hit for the
\* numbers of the TBs to go around.
THEOREM LossContainedCorrect ==
  (WholePdus /\ SizesAgree /\ ByteLeft /\ MaxHits + 1 < TbMod)
    => (LinkSpec => []LossContained)
<1>1. SUFFICES ASSUME WholePdus, SizesAgree, ByteLeft, FewerHits
               PROVE  LinkSpec => []LossContained
  BY DEF FewerHits
<1> DEFINE Done == \E j \in 0 .. tb.no : Settled(j) /\ Missed(j)
<1>2. LinkInit => Done
  BY InitSettled
<1>3. TbMod > 1
  BY <1>1, FewerMod
<1>4. /\ IInv /\ Layout /\ Sending /\ DecoderTypes /\ Flow /\ Bytewise
      /\ InOrder /\ Numbering /\ Exactly /\ Coded /\ Contiguous /\ Tracked
      /\ Done /\ [LinkNext]_linkVars
      => Done'
  BY <1>1, <1>3, NextSettled DEF Tracked
<1>5. IInv /\ Layout /\ Flow /\ Done => LossContained
  BY SettledContained
<1> HIDE DEF Done
<1>6. /\ LinkSpec => []Layout
      /\ LinkSpec => []InOrder
      /\ LinkSpec => []Numbering
      /\ LinkSpec => []Exactly
      /\ LinkSpec => []Coded
      /\ LinkSpec => []Contiguous
      /\ LinkSpec => []Tracked
  BY <1>1, <1>3, LinkLayout, InOrderInvariance, NumberingInvariance,
     ExactInvariance, CodedInvariance, ContiguousInvariance,
     TrackedInvariance
<1> QED
  BY <1>2, <1>4, <1>5, <1>6, LinkInvariance, SendingInvariance,
     DecoderInvariance, FlowInvariance, BytewiseInvariance, PTL DEF LinkSpec

\* Frames of a multiple of eight symbols (ofdm_adaptive_config.py: 20 times 48):
\* with BPSK, QPSK and 16QAM, of which whole symbols make a byte, a loss is
\* contained.
COROLLARY LossContainedByteWise ==
  (WholePdus /\ Capacity % 8 = 0 /\ 3 \notin Cnsts /\ MaxHits + 1 < TbMod)
    => (LinkSpec => []LossContained)
BY WholeSymbols, LossContainedCorrect

-----------------------------------------------------------------------------
(* How many TBs are missing                                                *)

\* The TBs that a hit may cost: those with a piece hit, and the next of each.
Touched == suspects \cup {k + 1 : k \in suspects}

FewTouched == IsFiniteSet(Touched) /\ Cardinality(Touched) <= 3 * hits

\* A frame that is hit is about one TB: it touches that one, the one before
\* it and the one after it.
LEMMA HitTouched ==
  ASSUME DecoderTypes, FewTouched, NEW n \in Nat, NEW pieces, Hit(pieces),
         \A p \in pieces : p.tb.no = n - 1 \/ p.tb.no = n
  PROVE  FewTouched'
<1> DEFINE one == Touched \cup {n - 1}
           two == one \cup {n}
           three == two \cup {n + 1}
<1>1. hits' = hits + 1 /\ hits \in Nat
  BY DEF Hit, DecoderTypes
<1>2. suspects' \subseteq suspects \cup {n - 1, n}
  BY DEF Hit
<1>3. Touched' \subseteq three
  <2>1. SUFFICES ASSUME NEW k \in Touched'
                 PROVE  k \in three
    OBVIOUS
  <2>2. CASE k \in suspects'
    BY <1>2, <2>2 DEF Touched
  <2>3. CASE \E m \in suspects' : k = m + 1
    <3>1. PICK m \in suspects \cup {n - 1, n} : k = m + 1
      BY <1>2, <2>3
    <3>2. CASE m \in suspects
      BY <3>1, <3>2 DEF Touched
    <3>3. CASE m = n - 1
      <4>1. k = n
        BY <3>1, <3>3
      <4> QED
        BY <4>1
    <3>4. CASE m = n
      BY <3>1, <3>4
    <3> QED
      BY <3>1, <3>2, <3>3, <3>4
  <2> QED
    BY <2>2, <2>3 DEF Touched
<1>4. /\ IsFiniteSet(Touched) /\ Cardinality(Touched) \in Nat
      /\ Cardinality(Touched) <= 3 * hits
  BY FS_CardinalityType DEF FewTouched
<1>5. /\ IsFiniteSet(one) /\ Cardinality(one) \in Nat
      /\ Cardinality(one) <= Cardinality(Touched) + 1
  BY <1>4, OneAdded
<1> HIDE DEF one
<1>6. /\ IsFiniteSet(two) /\ Cardinality(two) \in Nat
      /\ Cardinality(two) <= Cardinality(one) + 1
  BY <1>5, OneAdded
<1> HIDE DEF two
<1>7. /\ IsFiniteSet(three) /\ Cardinality(three) \in Nat
      /\ Cardinality(three) <= Cardinality(two) + 1
  BY <1>6, OneAdded
<1> HIDE DEF three
<1>8. IsFiniteSet(Touched')
  BY <1>3, <1>7, FS_Subset
<1>9. Cardinality(Touched') <= Cardinality(three)
  BY <1>3, <1>7, FS_Subset
<1>10. Cardinality(Touched') \in Nat
  BY <1>8, FS_CardinalityType
<1>11. Cardinality(Touched') <= 3 * hits'
  BY <1>1, <1>4, <1>5, <1>6, <1>7, <1>9, <1>10
<1> QED
  BY <1>8, <1>11 DEF FewTouched

LEMMA NextTouched ==
  ASSUME IInv, Layout, Sending, DecoderTypes, InOrder, Numbering, FewTouched,
         [LinkNext]_linkVars
  PROVE  FewTouched'
<1>1. CASE Framer \/ Receive \/ UNCHANGED linkVars
  <2>1. UNCHANGED <<suspects, hits>>
    BY <1>1 DEF Framer, Receive, linkVars, receiverVars
  <2> QED
    BY <2>1 DEF FewTouched, Touched
<1>2. CASE Lose \/ Spoil
  <2>1. air # <<>> /\ OnAir = Sent.pieces
    BY <1>2 DEF Lose, Spoil, PassOn, OnAir
  <2>2. PICK n \in 0 .. tb.no : About(n)
    BY <2>1, FrameAbout
  <2>3. /\ n \in Nat
        /\ \A p \in Sent.pieces : p.tb.no = n - 1 \/ p.tb.no = n
    BY <2>1, <2>2 DEF About, IInv, Types, TypeOK
  <2>4. PICK bad \in SUBSET Sent.pieces : Hit(bad)
    BY <1>2 DEF Lose, Spoil
  <2>5. \A p \in bad : p.tb.no = n - 1 \/ p.tb.no = n
    BY <2>3
  <2> QED
    BY <2>3, <2>4, <2>5, HitTouched
<1> QED
  BY <1>1, <1>2 DEF LinkNext, Radio

LEMMA InitTouched == LinkInit => FewTouched
<1> SUFFICES ASSUME LinkInit PROVE FewTouched
  OBVIOUS
<1>1. suspects = {} /\ hits = 0
  BY DEF LinkInit
<1>2. Touched = {}
  BY <1>1 DEF Touched
<1> QED
  BY <1>1, <1>2, FS_EmptySet DEF FewTouched

LEMMA TouchedInvariance == WholePdus => (LinkSpec => []FewTouched)
<1>1. SUFFICES ASSUME WholePdus
               PROVE  LinkSpec => []FewTouched
  OBVIOUS
<1>2. LinkInit => FewTouched
  BY InitTouched
<1>3. /\ IInv /\ Layout /\ Sending /\ DecoderTypes /\ InOrder /\ Numbering
      /\ FewTouched /\ [LinkNext]_linkVars
      => FewTouched'
  BY NextTouched
<1>4. /\ LinkSpec => []Layout
      /\ LinkSpec => []InOrder
      /\ LinkSpec => []Numbering
  BY <1>1, LinkLayout, InOrderInvariance, NumberingInvariance
<1> QED
  BY <1>2, <1>3, <1>4, LinkInvariance, SendingInvariance, DecoderInvariance,
     PTL DEF LinkSpec

LEMMA IntervalCount ==
  \A a, b \in Int : /\ IsFiniteSet(a .. b)
                    /\ a <= b => Cardinality(a .. b) = b - a + 1
                    /\ a > b => Cardinality(a .. b) = 0
<1>1. SUFFICES ASSUME NEW a \in Int, NEW b \in Int
               PROVE  /\ IsFiniteSet(a .. b)
                      /\ a <= b => Cardinality(a .. b) = b - a + 1
                      /\ a > b => Cardinality(a .. b) = 0
  OBVIOUS
<1>2. /\ IsFiniteSet(a .. b)
      /\ Cardinality(a .. b) = IF a > b THEN 0 ELSE b - a + 1
  BY FS_Interval
<1> QED
  BY <1>2

LEMMA RangeCount ==
  ASSUME NEW s \in Seq(Nat)
  PROVE  /\ IsFiniteSet(Range(s)) /\ Cardinality(Range(s)) \in Nat
         /\ Cardinality(Range(s)) <= Len(s)
<1>1. /\ Len(s) \in Nat /\ DOMAIN s = 1 .. Len(s)
      /\ s \in [1 .. Len(s) -> Range(s)]
      /\ \A t \in Range(s) : \E i \in 1 .. Len(s) : s[i] = t
  BY DEF Range
<1>2. s \in Surjection(1 .. Len(s), Range(s))
  BY <1>1 DEF Surjection
<1>3. IsFiniteSet(1 .. Len(s)) /\ Cardinality(1 .. Len(s)) = Len(s)
  <2>1. 1 \in Int /\ Len(s) \in Int
    BY <1>1
  <2>2. /\ IsFiniteSet(1 .. Len(s))
        /\ 1 <= Len(s) => Cardinality(1 .. Len(s)) = Len(s) - 1 + 1
        /\ 1 > Len(s) => Cardinality(1 .. Len(s)) = 0
    BY <2>1, IntervalCount
  <2> QED
    BY <1>1, <2>2
<1>4. /\ IsFiniteSet(Range(s))
      /\ Cardinality(Range(s)) <= Cardinality(1 .. Len(s))
  BY <1>2, <1>3, FS_Surjection
<1> QED
  BY <1>3, <1>4, FS_CardinalityType

\* Where every number up to N is in s or in T, s has no fewer than N without
\* those of T.
LEMMA MissingCount ==
  ASSUME NEW N \in Nat, NEW s \in Seq(Nat), NEW T, IsFiniteSet(T),
         \A n \in 1 .. N : n \in T \/ n \in Range(s)
  PROVE  N <= Len(s) + Cardinality(T)
<1> DEFINE all == T \cup Range(s)
<1>1. /\ IsFiniteSet(Range(s)) /\ Cardinality(Range(s)) \in Nat
      /\ Cardinality(Range(s)) <= Len(s)
  BY RangeCount
<1>2. Cardinality(T) \in Nat /\ Len(s) \in Nat
  BY FS_CardinalityType
<1>3. IsFiniteSet(all)
  BY <1>1, FS_Union
<1>4. /\ Cardinality(all) = Cardinality(T) + Cardinality(Range(s))
                            - Cardinality(T \cap Range(s))
      /\ IsFiniteSet(T \cap Range(s))
  BY <1>1, FS_Union, FS_Intersection
<1>5. Cardinality(T \cap Range(s)) \in Nat /\ Cardinality(all) \in Nat
  BY <1>3, <1>4, FS_CardinalityType
<1>6. 1 .. N \subseteq all
  OBVIOUS
<1> HIDE DEF all
<1>7. Cardinality(1 .. N) <= Cardinality(all)
  BY <1>3, <1>6, FS_Subset
<1>8. Cardinality(1 .. N) = N
  <2>1. Cardinality(1 .. N) = IF 1 > N THEN 0 ELSE N - 1 + 1
    BY FS_Interval
  <2> QED
    BY <2>1
<1> QED
  BY <1>1, <1>2, <1>4, <1>5, <1>7, <1>8

\* Numbers that increase and leave none out count from one.
LEMMA NoneLeftOut ==
  ASSUME NEW N \in Nat, NEW s \in Seq(Nat), Delivery!Increasing(s),
         \A n \in 1 .. N : n \in Range(s),
         \A i \in 1 .. Len(s) : s[i] \in 1 .. N
  PROVE  s = [n \in 1 .. N |-> n]
<1>1. Len(s) \in Nat /\ DOMAIN s = 1 .. Len(s)
  OBVIOUS
<1>2. \A i, j \in 1 .. Len(s) : i < j => s[i] < s[j]
  BY <1>1 DEF Delivery!Increasing
<1>3. \A i, j \in 1 .. Len(s) : i # j => s[i] # s[j]
  BY <1>1, <1>2
<1>4. ASSUME NEW a \in 1 .. Len(s), NEW b \in 1 .. Len(s), a <= b
      PROVE  b - a <= s[b] - s[a]
  <2> DEFINE part == [k \in a .. b |-> s[k]]
  <2>1. /\ a \in Int /\ b \in Int /\ s[a] \in 1 .. N /\ s[b] \in 1 .. N
        /\ s[a] \in Int /\ s[b] \in Int
    BY <1>1
  <2>2. \A k \in a .. b : k \in 1 .. Len(s)
    BY <1>1
  <2>3. ASSUME NEW k \in a .. b
        PROVE  s[k] \in s[a] .. s[b]
    <3>1. k \in 1 .. Len(s) /\ s[k] \in 1 .. N
      BY <2>2
    <3>2. (a < k => s[a] < s[k]) /\ (k < b => s[k] < s[b])
      BY <1>2, <3>1
    <3> QED
      BY <2>1, <3>1, <3>2
  <2>4. part \in Injection(a .. b, s[a] .. s[b])
    <3>1. part \in [a .. b -> s[a] .. s[b]]
      BY <2>3
    <3>2. \A i, j \in a .. b : part[i] = part[j] => i = j
      BY <1>3, <2>2
    <3> HIDE DEF part
    <3> QED
      BY <3>1, <3>2 DEF Injection, IsInjective
  <2> HIDE DEF part
  <2>5. IsFiniteSet(s[a] .. s[b])
    BY <2>1, IntervalCount
  <2>6. Cardinality(a .. b) <= Cardinality(s[a] .. s[b])
    BY <2>4, <2>5, FS_Injection
  <2>7. a <= b /\ s[a] <= s[b]
    BY <1>2, <1>4, <2>1
  <2>8. Cardinality(a .. b) = b - a + 1
    BY <2>1, <2>7, IntervalCount
  <2>9. Cardinality(s[a] .. s[b]) = s[b] - s[a] + 1
    BY <2>1, <2>7, IntervalCount
  <2> QED
    BY <2>1, <2>6, <2>8, <2>9
<1>5. N <= Len(s)
  <2>1. IsFiniteSet({}) /\ Cardinality({}) = 0
    BY FS_EmptySet
  <2>2. N <= Len(s) + Cardinality({})
    BY <2>1, MissingCount
  <2> QED
    BY <1>1, <2>1, <2>2
<1>6. ASSUME NEW i \in 1 .. Len(s)
      PROVE  s[i] = i
  <2>1. /\ 1 \in 1 .. Len(s) /\ Len(s) \in 1 .. Len(s)
        /\ 1 <= i /\ i <= Len(s) /\ i \in Nat
    BY <1>1
  <2>2. s[1] \in 1 .. N /\ s[i] \in 1 .. N /\ s[Len(s)] \in 1 .. N
    BY <2>1
  <2>3. i - 1 <= s[i] - s[1]
    BY <1>4, <2>1
  <2>4. Len(s) - i <= s[Len(s)] - s[i]
    BY <1>4, <2>1
  <2> QED
    BY <1>1, <1>5, <2>1, <2>2, <2>3, <2>4
<1>7. Len(s) = N
  <2>1. CASE Len(s) = 0
    BY <1>5, <2>1
  <2>2. CASE Len(s) > 0
    <3>1. Len(s) \in 1 .. Len(s)
      BY <1>1, <2>2
    <3>2. Len(s) \in 1 .. N
      BY <1>6, <3>1
    <3> QED
      BY <1>5, <3>2
  <2>3. Len(s) = 0 \/ Len(s) > 0
    BY <1>1
  <2> QED
    BY <2>1, <2>2, <2>3
<1> QED
  BY <1>1, <1>6, <1>7

\* The framer waits, and what was encoded is out.
AtRest == NoInput /\ TbReady

\* A hit costs three TBs at most, and what is not hit is all delivered, in
\* the order it was sent.
LossCounted ==
  AtRest => /\ tb.no <= Len(got) + 3 * hits
            /\ hits = 0 => got = [n \in 1 .. tb.no |-> n]

\* The count of what is lost: each frame that the radio hits (it has parts of
\* two TBs at most) costs three TBs at most; without a hit the decoder (decode,
\* called by process_frame of tb_decoder) delivers all the TBs, in order: what
\* AllDelivered says, but for the framer coming to rest.
THEOREM LossCountedCorrect ==
  (WholePdus /\ SizesAgree /\ ByteLeft /\ MaxHits + 1 < TbMod)
    => (LinkSpec => []LossCounted)
<1>1. ASSUME IInv, DecoderTypes, Received, FewTouched, LossContained
      PROVE  LossCounted
  <2>1. SUFFICES ASSUME AtRest
                 PROVE  /\ tb.no <= Len(got) + 3 * hits
                        /\ hits = 0 => got = [n \in 1 .. tb.no |-> n]
    BY DEF LossCounted
  <2>2. /\ tb.no \in Nat /\ hits \in Nat /\ got \in Seq(Nat)
        /\ Delivery!Increasing(got) /\ Len(got) \in Nat
    BY <1>1 DEF IInv, Types, TypeOK, DecoderTypes, Received, Delivered
  <2>3. IsFiniteSet(Touched) /\ Cardinality(Touched) <= 3 * hits
    BY <1>1 DEF FewTouched
  <2>4. Cardinality(Touched) \in Nat
    BY <2>3, FS_CardinalityType
  <2>5. ASSUME NEW n \in 1 .. tb.no
        PROVE  n \in Touched \/ n \in Range(got)
    <3>1. {n, n - 1} \cap suspects # {} \/ n \in Range(got)
      BY <1>1, <2>1 DEF LossContained, AtRest
    <3>2. n = (n - 1) + 1
      BY <2>2
    <3> QED
      BY <3>1, <3>2 DEF Touched
  <2>6. tb.no <= Len(got) + Cardinality(Touched)
    BY <2>2, <2>3, <2>5, MissingCount
  <2>7. ASSUME hits = 0
        PROVE  got = [n \in 1 .. tb.no |-> n]
    <3>1. Touched = {}
      BY <2>3, <2>4, <2>7, FS_EmptySet
    <3>2. \A n \in 1 .. tb.no : n \in Range(got)
      BY <2>5, <3>1
    <3>3. \A i \in 1 .. Len(got) : got[i] \in 1 .. tb.no
      BY <1>1 DEF Received, Delivered, Past
    <3> QED
      BY <2>2, <3>2, <3>3, NoneLeftOut
  <2> QED
    BY <2>2, <2>3, <2>4, <2>6, <2>7
<1>2. ASSUME WholePdus, SizesAgree, ByteLeft, MaxHits + 1 < TbMod
      PROVE  LinkSpec => []LossCounted
  <2>1. /\ LinkSpec => []Received
        /\ LinkSpec => []FewTouched
        /\ LinkSpec => []LossContained
    BY <1>2, ReceivedInvariance, TouchedInvariance, LossContainedCorrect
  <2> QED
    BY <1>1, <2>1, LinkInvariance, DecoderInvariance, PTL
<1> QED
  BY <1>2
=============================================================================
