--------------------------- MODULE FecFrameProofs ---------------------------
(***************************************************************************)
(* What holds of the framer of the coded link for every frame size, table  *)
(* of codes, CRC, set of streams, output size and limit of empty frames,   *)
(* and that its loop ends.                                                 *)
(***************************************************************************)
EXTENDS FecFrame, PduStreamProofs

\* The end of a stream of the configuration.
LEMMA TotalFact ==
  ASSUME NEW B \in Streams
  PROVE  /\ B \subseteq Nat /\ 0 \in B
         /\ Total(B) \in B /\ Total(B) \in Nat
         /\ \A b \in B : b <= Total(B)
<1>1. IsStream(B) /\ \E t \in B : \A b \in B : b <= t
  BY FramerAssumption
<1>2. /\ B \subseteq Nat /\ 0 \in B
      /\ Total(B) \in B
      /\ \A b \in B : b <= Total(B)
  BY <1>1, Zenon DEF IsStream, Total
<1> QED
  BY <1>2, Zenon

-----------------------------------------------------------------------------
(* Sizes                                                                   *)

LEMMA DivFact ==
  ASSUME NEW n \in Nat, NEW d \in Nat \ {0}
  PROVE  /\ n \div d \in Nat
         /\ d * (n \div d) <= n
         /\ n < d * (n \div d) + d
BY SMTT(30)

\* What fits in m symbols needs no more than m symbols.
LEMMA CeilFact ==
  ASSUME NEW bits \in Nat, NEW c \in Constellations
  PROVE  /\ (bits + c - 1) \div c \in Nat
         /\ bits > 0 => (bits + c - 1) \div c > 0
         /\ bits <= c * ((bits + c - 1) \div c)
         /\ c * ((bits + c - 1) \div c) < bits + c
         /\ \A m \in Nat : bits <= m * c => (bits + c - 1) \div c <= m
<1>1. CASE c = 1
  BY <1>1, SMT
<1>2. CASE c = 2
  BY <1>2, SMT
<1>3. CASE c = 3
  BY <1>3, SMT
<1>4. CASE c = 4
  BY <1>4, SMT
<1> QED
  BY <1>1, <1>2, <1>3, <1>4 DEF Constellations

\* Bytes in symbols of 1 to 4 bits: at least as many symbols as bytes, and the
\* whole bytes in those symbols are the bytes.
LEMMA SymsFact ==
  ASSUME NEW bytes \in Nat, NEW c \in Constellations
  PROVE  /\ BytesToSyms(bytes, c) \in Nat
         /\ bytes <= BytesToSyms(bytes, c)
         /\ 8 * bytes <= BytesToSyms(bytes, c) * c
         /\ (BytesToSyms(bytes, c) * c) \div 8 = bytes
         /\ \A m \in Nat : 8 * bytes <= m * c => BytesToSyms(bytes, c) <= m
<1>1. CASE c = 1
  BY <1>1, SMT DEF BytesToSyms
<1>2. CASE c = 2
  BY <1>2, SMT DEF BytesToSyms
<1>3. CASE c = 3
  BY <1>3, SMT DEF BytesToSyms
<1>4. CASE c = 4
  BY <1>4, SMT DEF BytesToSyms
<1> QED
  BY <1>1, <1>2, <1>3, <1>4 DEF Constellations

\* Each constellation and code of the configuration has room for user bytes.
LEMMA CodewordsFact ==
  ASSUME NEW c \in Constellations, NEW f \in DOMAIN Codes
  PROVE  /\ Codes[f].n \in Nat \ {0} /\ Codes[f].k \in Nat \ {0}
         /\ Codes[f].n - Codes[f].k \in Nat \ {0}
         /\ SentCodewords(c, f) \in Nat \ {0}
         /\ TbPayloadMax(c, f) \in Nat \ {0}
<1>1. /\ Codes[f].n \in Nat \ {0} /\ Codes[f].k \in Nat \ {0}
      /\ Codes[f].n - Codes[f].k \in Nat \ {0}
  BY SizesAssumption
<1>2. FrameLen(c) \in Nat
  <2>1. Capacity * c \in Nat
    BY SizesAssumption DEF Constellations
  <2> QED
    BY <2>1, DivFact DEF FrameLen
<1>3. SentCodewords(c, f) \in Nat \ {0}
  <2>1. 8 * FrameLen(c) \in Nat
    BY <1>2
  <2>2. (8 * FrameLen(c)) \div Codes[f].n \in Nat
    BY <1>1, <2>1, DivFact
  <2> QED
    BY <2>2 DEF SentCodewords, TbCodewords
<1>4. TbPayloadMax(c, f) \in Int /\ TbPayloadMax(c, f) > 0
  <2>1. SentCodewords(c, f) * Codes[f].k \in Nat
    BY <1>1, <1>3
  <2>2. (SentCodewords(c, f) * Codes[f].k) \div 8 \in Nat
    BY <2>1, DivFact
  <2> QED
    BY <2>2, SizesAssumption, ConfigurationAssumption DEF TbPayloadMax
<1> QED
  BY <1>1, <1>3, <1>4

\* A TB has bits.
LEMMA TbBitsFact ==
  ASSUME NEW c \in Constellations, NEW f \in DOMAIN Codes,
         NEW bytes \in Nat \ {0}
  PROVE  TbBits(SentCodewords(c, f), f, bytes) \in Nat \ {0}
<1>1. SentCodewords(c, f) * (Codes[f].n - Codes[f].k) \in Nat
  BY CodewordsFact
<1> QED
  BY <1>1 DEF TbBits

-----------------------------------------------------------------------------
(* The inductive invariant                                                 *)

TbSet == [no : Nat, fec : DOMAIN Codes, bytes : Nat, size : Nat, sent : Nat]

PieceSet ==
  [at : Nat, cnst : Constellations, tb : TbSet, from : Nat,
   bits : Nat \ {0}]

TagSet ==
  [cnst : Constellations, fec : DOMAIN Codes, payload : Nat, offset : Nat,
   no : Nat, bytes : Nat]

CallSet ==
  [seen : Nat, nout : Nat, read : Nat, at : Nat, wait : BOOLEAN]

\* Types of what TypeOK says nothing of.
Types ==
  /\ TypeOK
  /\ arrived <= Total(bounds)
  /\ tb \in TbSet
  /\ loaded \in Seq(TagSet)
  /\ mem \subseteq PieceSet
  /\ call \in CallSet

\* The last TB takes a single frame and is out: its frame is to be finalized.
Closing == action = "output" /\ TbReady /\ usedFrames = 1

\* A part of the current TB is still to be output.
InOutput == action = "output" /\ ~TbReady

\* How far the stream has been read.  A call that has read something and has
\* no frame yet is in the middle of its first TB, and will have one.
Reading ==
  /\ ReadTo <= arrived
  /\ remain = Rest(bounds, ReadTo)
  /\ pc # "loop" => call = NoCall
  /\ pc = "loop" => call.seen = arrived /\ call.nout > 0 /\ pos < arrived
  /\ (pc = "loop" /\ loaded = <<>> /\ call.read > 0) =>
       /\ action = "output" /\ ~call.wait
       /\ usedFrames = IF TbReady THEN 1 ELSE 0

\* A partial frame has its symbols used up to the offset, which is in bytes.
PartialFrame ==
  /\ frame.offset = 0 => frame.used = 0 /\ frame.payload = 0
  /\ frame.payload >= frame.offset
  /\ (frame.offset > 0 /\ ~Closing) =>
       /\ frame.used = BytesToSyms(frame.offset, current.cnst)
       /\ frame.payload = frame.offset

\* Where a call can be interrupted, and what waits in a partial frame then:
\* there is input to go on with.
Turns ==
  /\ (pc # "loop" \/ call.wait) => action = "input" \/ InOutput
  /\ (InOutput /\ frame.offset > 0) => usedFrames = 0
  /\ (InOutput /\ call.wait) => frame.offset = 0
  /\ action = "final" => frame.offset > 0
  /\ (frame.offset > 0 /\ (pc # "loop" \/ action = "input")) =>
       ReadTo < arrived

\* How many frames a call loads, and how far it has written.
Room ==
  pc = "loop" =>
    /\ Len(loaded) <= call.nout + 2
    /\ ~call.wait => Len(loaded) <= call.nout + 1
    /\ (action = "output" /\ TbReady) => Len(loaded) <= call.nout
    /\ frame.offset > 0 => Len(loaded) < call.nout
    /\ ~Closing => call.at <= Len(loaded) * Capacity + frame.used

(***************************************************************************)
(* None of the parts is inductive alone: that no tail is stranded (Turns)  *)
(* needs the loop to keep room for a frame it has begun (Room), and that a *)
(* call without a frame has read nothing (Reading) needs a TB that fits in *)
(* a frame to be finalized at once (Turns, PartialFrame).                  *)
(***************************************************************************)
IInv == Types /\ Reading /\ PartialFrame /\ Turns /\ Room

LEMMA InitIInv == Init => IInv
<1> SUFFICES ASSUME Init PROVE IInv
  OBVIOUS
<1>1. 0 \in bounds /\ Total(bounds) \in Nat /\ bounds \in Streams
  BY TotalFact DEF Init
<1>2. Rest(bounds, 0) = 0
  BY <1>1 DEF Rest
<1>3. 1 \in Constellations /\ 1 \in DOMAIN Codes /\ Capacity \in Nat
  BY FramerAssumption, SizesAssumption DEF Constellations
<1>4. TypeOK
  BY <1>1, <1>3 DEF Init, TypeOK, NewFrame, NoTb, NoCall
<1>5. Types
  BY <1>1, <1>3, <1>4
     DEF Init, Types, NewFrame, NoTb, NoCall, TbSet, CallSet
<1>6. Reading
  BY <1>2 DEF Init, Reading, ReadTo, NoCall
<1>7. PartialFrame /\ Turns /\ Room
  BY DEF Init, PartialFrame, Turns, Room, NewFrame, NoTb, NoCall
<1> QED
  BY <1>5, <1>6, <1>7 DEF IInv

\* Steps that leave the framer's work alone.
LEMMA ArriveIInv == IInv /\ Arrive => IInv'
<1> SUFFICES ASSUME IInv, Arrive PROVE IInv'
  OBVIOUS
<1>1. /\ pc = "idle" /\ arrived' \in arrived + 1 .. Total(bounds)
      /\ UNCHANGED <<bounds, pos, remain, header, current, frame, action,
                     usedFrames, tb, empty, loaded, mem, pc, call, air>>
  BY DEF Arrive, radioVars, buildVars, outVars
<1>2. Total(bounds) \in Nat /\ arrived \in Nat
  BY TotalFact DEF IInv, Types, TypeOK
<1>3. Types'
  BY <1>1, <1>2 DEF IInv, Types, TypeOK
<1>4. Reading'
  BY <1>1, <1>2 DEF IInv, Types, TypeOK, Reading, ReadTo, NoCall, TbReady
<1>5. PartialFrame' /\ Turns' /\ Room'
  BY <1>1, <1>2 DEF IInv, Types, TypeOK, PartialFrame, Turns, Room, Closing,
     InOutput, TbReady, ReadTo, Reading, NoCall
<1> QED
  BY <1>3, <1>4, <1>5 DEF IInv

LEMMA HeaderIInv == IInv /\ ProcessFeedbackHeader => IInv'
<1> SUFFICES ASSUME IInv, ProcessFeedbackHeader PROVE IInv'
  OBVIOUS
<1>1. /\ header' \in [cnst : Constellations, fec : DOMAIN Codes]
      /\ UNCHANGED <<bounds, arrived, pos, remain, current, frame, action,
                     usedFrames, tb, empty, loaded, mem, pc, call, air>>
  BY SizesAssumption
     DEF ProcessFeedbackHeader, IInv, Types, TypeOK, streamVars, buildVars,
         outVars
<1> QED
  BY <1>1 DEF IInv, Types, TypeOK, Reading, PartialFrame, Turns, Room,
     Closing, InOutput, TbReady, ReadTo

LEMMA PassOnIInv == IInv /\ (PassOn \/ UNCHANGED vars) => IInv'
<1> SUFFICES ASSUME IInv, PassOn \/ UNCHANGED vars PROVE IInv'
  OBVIOUS
<1>1. /\ air' = <<>> \/ air' = air
      /\ UNCHANGED <<bounds, arrived, pos, remain, header, current, frame,
                     action, usedFrames, tb, empty, loaded, mem, pc, call>>
  BY DEF PassOn, vars, streamVars, radioVars, buildVars, outVars
<1> QED
  BY <1>1 DEF IInv, Types, TypeOK, Reading, PartialFrame, Turns, Room,
     Closing, InOutput, TbReady, ReadTo

-----------------------------------------------------------------------------
(* The beginning of a call                                                 *)

\* What goes downstream, and what stays in the buffer.
LEMMA ProduceFact ==
  ASSUME mem \subseteq PieceSet, NEW tags, NEW m \in SUBSET mem,
         Produce(tags, m)
  PROVE  /\ mem' \subseteq PieceSet
         /\ Len(air') <= 1
<1>1. Len(air') <= 1
  BY DEF Produce
<1>2. ASSUME NEW p \in mem'
      PROVE  p \in PieceSet
  <2>1. PICK q \in m : q.at >= Capacity /\ p = [q EXCEPT !.at = @ - Capacity]
    BY DEF Produce
  <2>2. q \in PieceSet /\ q.at - Capacity \in Nat
    BY <2>1, SizesAssumption DEF PieceSet
  <2> QED
    BY <2>1, <2>2 DEF PieceSet
<1> QED
  BY <1>1, <1>2

LEMMA TagsFact ==
  ASSUME IInv, NEW radio \in [cnst : Constellations, fec : DOMAIN Codes],
         NEW payload \in Nat
  PROVE  Tags(radio, payload) \in TagSet
<1>1. tb.no % TbMod \in Nat
  <2>1. tb.no \in Nat /\ TbMod \in Nat \ {0}
    BY SizesAssumption DEF IInv, Types, TypeOK
  <2> QED
    BY <2>1
<1>2. tb.bytes \in Nat /\ frame.offset \in Nat
  BY DEF IInv, Types, TypeOK, TbSet
<1> QED
  BY <1>1, <1>2 DEF Tags, TagSet

LEMMA ProduceLoadedIInv == IInv /\ ProduceLoaded => IInv'
<1> SUFFICES ASSUME IInv, ProduceLoaded PROVE IInv'
  OBVIOUS
<1>1. /\ pc = "idle"
      /\ loaded # <<>> /\ loaded' = Tail(loaded)
      /\ UNCHANGED <<bounds, arrived, pos, remain, header, current, frame,
                     action, usedFrames, tb, empty, pc, call>>
  BY DEF ProduceLoaded, Called, streamVars, radioVars, buildVars
<1>2. mem' \subseteq PieceSet /\ Len(air') <= 1
  BY ProduceFact DEF ProduceLoaded, IInv, Types
<1>3. loaded' \in Seq(TagSet)
  BY <1>1 DEF IInv, Types
<1>4. TypeOK'
  BY <1>1, <1>2 DEF IInv, Types, TypeOK, PieceSet
<1> QED
  BY <1>1, <1>2, <1>3, <1>4 DEF IInv, Types, Reading, PartialFrame, Turns,
     Room, Closing, InOutput, TbReady, ReadTo

\* Without input nothing waits in a partial frame.
LEMMA NoInputFact ==
  ASSUME IInv, NoInput
  PROVE  pc = "idle" /\ frame.offset = 0 /\ call = NoCall
<1>1. pc = "idle" /\ arrived = pos
  BY DEF NoInput, Called
<1>2. call = NoCall /\ ReadTo = pos
  BY <1>1 DEF IInv, Reading, ReadTo, Types, TypeOK, NoCall
<1>3. ~(frame.offset > 0)
  BY <1>1, <1>2 DEF IInv, Turns, Types, TypeOK
<1> QED
  BY <1>1, <1>2, <1>3 DEF IInv, Types, TypeOK

LEMMA EmptyFrameIInv == IInv /\ EmptyFrame => IInv'
<1> SUFFICES ASSUME IInv, EmptyFrame PROVE IInv'
  OBVIOUS
<1>1. /\ pc = "idle" /\ empty' \in Nat
      /\ UNCHANGED <<bounds, arrived, pos, remain, header, current, frame,
                     action, usedFrames, tb, loaded, pc, call>>
  BY DEF EmptyFrame, NoInput, Called, streamVars, radioVars, buildVars, IInv,
         Types, TypeOK
<1>2. mem' \subseteq PieceSet /\ Len(air') <= 1
  BY ProduceFact DEF EmptyFrame, IInv, Types, Cleared
<1>3. TypeOK'
  BY <1>1, <1>2 DEF IInv, Types, TypeOK, PieceSet
<1> QED
  BY <1>1, <1>2, <1>3 DEF IInv, Types, Reading, PartialFrame, Turns,
     Room, Closing, InOutput, TbReady, ReadTo

LEMMA GiveUpIInv == IInv /\ GiveUp => IInv'
<1> SUFFICES ASSUME IInv, GiveUp PROVE IInv'
  OBVIOUS
<1>1. /\ pc = "idle" /\ pc' = "done" /\ empty' \in Nat
      /\ UNCHANGED <<bounds, arrived, pos, remain, header, current, frame,
                     action, usedFrames, tb, loaded, mem, call, air>>
  BY DEF GiveUp, NoInput, Called, streamVars, radioVars, buildVars, outVars,
         IInv, Types, TypeOK
<1> QED
  BY <1>1 DEF IInv, Types, TypeOK, Reading, PartialFrame, Turns,
     Room, Closing, InOutput, TbReady, ReadTo

LEMMA EnterLoopIInv == IInv /\ EnterLoop => IInv'
<1> SUFFICES ASSUME IInv, EnterLoop PROVE IInv'
  OBVIOUS
<1>1. PICK nout \in Outputs :
        call' = [NoCall EXCEPT !.seen = arrived, !.nout = nout,
                               !.at = frame.offset]
  BY DEF EnterLoop
<1>2. /\ pc = "idle" /\ pc' = "loop" /\ loaded = <<>> /\ arrived > pos
      /\ UNCHANGED <<bounds, arrived, pos, remain, header, current, frame,
                     action, usedFrames, tb, empty, loaded, mem, air>>
  BY DEF EnterLoop, Called, streamVars, radioVars, buildVars, outVars
<1>3. /\ call' = [seen |-> arrived, nout |-> nout, read |-> 0,
                  at |-> frame.offset, wait |-> FALSE]
      /\ nout \in Nat /\ nout > 0
      /\ call.read = 0
  <2>1. nout \in Nat /\ nout > 0
    BY FramerAssumption
  <2>2. call.read = 0
    BY <1>2 DEF NoCall, IInv, Reading
  <2> QED
    BY <1>1, <2>1, <2>2 DEF NoCall
<1>4. ReadTo' = ReadTo /\ ReadTo = pos /\ ReadTo' = pos
  BY <1>2, <1>3 DEF ReadTo, IInv, Types, TypeOK
<1>5. Types'
  BY <1>2, <1>3 DEF IInv, Types, TypeOK, CallSet
<1>6. Reading' /\ PartialFrame'
  BY <1>2, <1>3, <1>4 DEF IInv, Types, TypeOK, Reading, PartialFrame, Closing,
     TbReady
<1>7. Turns'
  BY <1>2, <1>3, <1>4 DEF IInv, Types, TypeOK, Turns, InOutput, TbReady
<1>8. Room'
  <2>1. Len(loaded) = 0
    BY <1>2
  <2>2. frame.offset <= frame.used
    <3>1. ~Closing
      BY <1>2 DEF IInv, Turns, Closing, InOutput
    <3>2. frame.offset \in Nat /\ current.cnst \in Constellations
      BY DEF IInv, Types, TypeOK
    <3>3. frame.offset <= BytesToSyms(frame.offset, current.cnst)
      BY <3>2, SymsFact
    <3> QED
      BY <3>1, <3>2, <3>3 DEF IInv, PartialFrame
  <2>3. 0 * Capacity = 0
    BY SizesAssumption
  <2> QED
    BY <1>2, <1>3, <2>1, <2>2, <2>3 DEF Room, IInv, Types, TypeOK
<1> QED
  BY <1>5, <1>6, <1>7, <1>8 DEF IInv

\* The first turns of the loop.
LEMMA FlushIInv == IInv /\ FlushForNewCnst => IInv'
<1> SUFFICES ASSUME IInv, FlushForNewCnst PROVE IInv'
  OBVIOUS
<1>1. /\ pc = "loop" /\ ~call.wait /\ action = "input" /\ action' = "final"
      /\ frame.offset > 0
      /\ UNCHANGED <<bounds, arrived, pos, remain, header, current, frame,
                     usedFrames, tb, empty, loaded, mem, pc, call, air>>
  BY DEF FlushForNewCnst, Processing, InLoop, MustFlush, streamVars, radioVars,
         outVars
<1> QED
  BY <1>1 DEF IInv, Types, TypeOK, Reading, PartialFrame, Turns,
     Room, Closing, InOutput, TbReady, ReadTo

LEMMA OutputWaitIInv == IInv /\ OutputWait => IInv'
<1> SUFFICES ASSUME IInv, OutputWait PROVE IInv'
  OBVIOUS
<1>1. /\ pc = "loop" /\ ~call.wait /\ action = "output" /\ ~TbReady
      /\ ~(Len(loaded) < call.nout)
      /\ call' = [call EXCEPT !.wait = TRUE]
      /\ UNCHANGED <<bounds, arrived, pos, remain, header, current, frame,
                     action, usedFrames, tb, empty, loaded, mem, pc, air>>
  BY DEF OutputWait, InLoop, RoomLeft, streamVars, radioVars, buildVars,
         outVars
<1>2. /\ call' \in CallSet /\ call'.wait = TRUE /\ call'.seen = call.seen
      /\ call'.nout = call.nout /\ call'.read = call.read /\ call'.at = call.at
  BY <1>1 DEF IInv, Types, CallSet
<1>3. Len(loaded) \in Nat /\ call.nout \in Nat /\ loaded # <<>>
  <2>1. Len(loaded) \in Nat /\ call.nout \in Nat /\ call.nout > 0
    BY <1>1 DEF IInv, Types, CallSet, Reading
  <2> QED
    BY <1>1, <2>1
<1>4. ~(frame.offset > 0)
  BY <1>1, <1>3 DEF IInv, Room
<1>5. Types'
  BY <1>1, <1>2 DEF IInv, Types, TypeOK
<1>6. Reading' /\ PartialFrame'
  BY <1>1, <1>2, <1>3 DEF IInv, Reading, PartialFrame, Closing, TbReady, ReadTo
<1>7. frame.offset = 0
  BY <1>4 DEF IInv, Types, TypeOK
<1>8. Turns'
  BY <1>1, <1>2, <1>7 DEF Turns, InOutput, TbReady
<1>9. Room'
  BY <1>1, <1>2, <1>4 DEF IInv, Room, Closing, TbReady
<1> QED
  BY <1>5, <1>6, <1>8, <1>9 DEF IInv

-----------------------------------------------------------------------------
(* Encoding                                                                *)

\* What one call of the consumer gives in a state of the invariant.
LEMMA NextPayloadFact ==
  ASSUME IInv, Processing
  PROVE  /\ TbPayloadMax(header.cnst, header.fec) \in Nat \ {0}
         /\ Sound(bounds, ReadTo, call.seen,
                  TbPayloadMax(header.cnst, header.fec), NextPayload)
         /\ call.seen = arrived
         /\ ReadTo \in Nat
<1>1. /\ bounds \subseteq Nat /\ Total(bounds) \in bounds
      /\ Total(bounds) \in Nat
  BY TotalFact, Zenon DEF IInv, Types, TypeOK
<1>2. call.seen = arrived /\ ReadTo < call.seen /\ remain = Rest(bounds, ReadTo)
  BY DEF Processing, InLoop, IInv, Reading
<1>3. ReadTo \in Nat /\ call.seen \in Nat /\ Total(bounds) >= call.seen
  BY <1>2 DEF IInv, Types, TypeOK, ReadTo, CallSet
<1>4. \E b \in bounds : b >= call.seen
  BY <1>1, <1>3, Zenon
<1>5. ReadTo <= call.seen
  BY <1>2, <1>3
<1>6. TbPayloadMax(header.cnst, header.fec) \in Nat \ {0}
  BY CodewordsFact DEF IInv, Types, TypeOK
<1>7. Sound(bounds, ReadTo, call.seen,
            TbPayloadMax(header.cnst, header.fec), NextPayload)
  BY <1>1, <1>2, <1>3, <1>4, <1>5, <1>6, AdvanceFact, Zenon DEF NextPayload
<1> QED
  BY <1>2, <1>3, <1>6, <1>7

LEMMA EncodeTbIInv == IInv /\ EncodeTb => IInv'
<1> SUFFICES ASSUME IInv, EncodeTb PROVE IInv'
  OBVIOUS
<1> DEFINE a == NextPayload
<1>1. /\ pc = "loop" /\ ~call.wait /\ action = "input"
      /\ a.read > 0
      /\ frame.offset > 0 => header.cnst = current.cnst
      /\ current' = header /\ remain' = a.remain
      /\ call' = [call EXCEPT !.read = @ + a.read]
      /\ tb' = NewTb(a.read + CrcLen)
      /\ action' = "output" /\ usedFrames' = 0 /\ empty' = 0
      /\ UNCHANGED <<bounds, arrived, pos, header, frame, loaded, mem, pc,
                     air>>
  BY DEF EncodeTb, Processing, InLoop, MustFlush, outVars
<1>2. /\ a.read \in Nat /\ ReadTo + a.read <= call.seen
      /\ a.remain = Rest(bounds, ReadTo + a.read) /\ a.remain \in Nat
      /\ call.seen = arrived /\ ReadTo \in Nat
  BY NextPayloadFact DEF Sound, EncodeTb
<1> HIDE DEF a
<1>3. /\ call' \in CallSet /\ call'.read = call.read + a.read
      /\ call'.seen = call.seen /\ call'.nout = call.nout
      /\ call'.at = call.at /\ call'.wait = call.wait
      /\ pos \in Nat /\ call.read \in Nat
  <2>1. call \in CallSet /\ pos \in Nat
    BY DEF IInv, Types, TypeOK
  <2> QED
    BY <1>1, <1>2, <2>1 DEF CallSet
<1>4. ReadTo' = ReadTo + a.read /\ ReadTo' <= arrived
  BY <1>1, <1>2, <1>3 DEF ReadTo
<1>5. /\ tb'.no = tb.no + 1 /\ tb'.fec = header.fec
      /\ tb'.bytes = a.read + CrcLen /\ tb'.sent = 0
      /\ tb'.size \in Nat \ {0} /\ tb' \in TbSet
  <2>1. /\ header.cnst \in Constellations /\ header.fec \in DOMAIN Codes
        /\ a.read + CrcLen \in Nat \ {0} /\ tb.no + 1 \in Nat
    <3>1. header \in [cnst : Constellations, fec : DOMAIN Codes]
          /\ tb.no \in Nat
      BY DEF IInv, Types, TypeOK
    <3> QED
      BY <1>1, <1>2, <3>1, SizesAssumption
  <2> DEFINE size == TbBits(SentCodewords(header.cnst, header.fec), header.fec,
                            a.read + CrcLen)
  <2>2. size \in Nat \ {0}
    BY <2>1, TbBitsFact
  <2> HIDE DEF size
  <2>3. tb' = [no |-> tb.no + 1, fec |-> header.fec,
               bytes |-> a.read + CrcLen, size |-> size, sent |-> 0]
    BY <1>1 DEF NewTb, size
  <2> QED
    BY <2>1, <2>2, <2>3 DEF TbSet
<1>6. ~TbReady' /\ ~Closing' /\ ~Closing
  BY <1>1, <1>5 DEF TbReady, Closing
<1>7. Types'
  <2>1. call'.read \in 0 .. call'.seen /\ call'.at \in Nat
    <3>1. call'.read \in Nat /\ call'.seen \in Nat /\ call'.at \in Nat
      BY <1>3 DEF CallSet
    <3>2. pos' = pos /\ ReadTo' = pos + call'.read /\ call'.seen = arrived
      BY <1>1, <1>2, <1>3 DEF ReadTo
    <3> QED
      BY <1>3, <1>4, <3>1, <3>2
  <2>2. tb'.no \in Nat /\ tb'.size \in Nat /\ tb'.sent \in 0 .. tb'.size
    BY <1>5 DEF TbSet
  <2>3. TypeOK'
    BY <1>1, <1>2, <2>1, <2>2 DEF IInv, Types, TypeOK
  <2> QED
    BY <1>1, <1>3, <1>5, <2>3 DEF IInv, Types
<1>8. Reading'
  BY <1>1, <1>2, <1>3, <1>4, <1>6 DEF IInv, Reading
<1>9. PartialFrame'
  BY <1>1, <1>6 DEF IInv, PartialFrame, Types, TypeOK
<1>10. Turns'
  BY <1>1, <1>3, <1>6 DEF IInv, Turns
<1>11. Room'
  BY <1>1, <1>3, <1>6 DEF IInv, Room
<1> QED
  BY <1>7, <1>8, <1>9, <1>10, <1>11 DEF IInv

\* The frame under construction is complete.
LEMMA FinalizeFact ==
  ASSUME IInv, NEW radio \in [cnst : Constellations, fec : DOMAIN Codes],
         Finalize(radio)
  PROVE  /\ loaded' = Append(loaded, Tags(radio, frame.payload))
         /\ loaded' \in Seq(TagSet) /\ loaded' # <<>>
         /\ Len(loaded) \in Nat /\ Len(loaded') = Len(loaded) + 1
         /\ frame' = NewFrame /\ action' = "input"
         /\ frame'.offset = 0 /\ frame'.used = 0 /\ frame'.payload = 0
         /\ frame' \in [offset : Nat, payload : Nat, used : 0 .. Capacity]
<1>1. Tags(radio, frame.payload) \in TagSet
  BY TagsFact DEF IInv, Types, TypeOK
<1>2. loaded \in Seq(TagSet)
  BY DEF IInv, Types
<1> QED
  BY <1>1, <1>2, SizesAssumption DEF Finalize, NewFrame

LEMMA NoWholePduIInv == IInv /\ NoWholePdu => IInv'
<1> SUFFICES ASSUME IInv, NoWholePdu PROVE IInv'
  OBVIOUS
<1>1. /\ pc = "loop" /\ ~call.wait /\ action = "input"
      /\ frame.offset > 0 => header.cnst = current.cnst
      /\ current' = header
      /\ call' = [call EXCEPT !.wait = TRUE]
      /\ UNCHANGED <<bounds, arrived, pos, remain, header, usedFrames, tb,
                     empty, mem, pc, air>>
  BY DEF NoWholePdu, Processing, InLoop, MustFlush, streamVars
<1>2. /\ call' \in CallSet /\ call'.wait = TRUE /\ call'.seen = call.seen
      /\ call'.nout = call.nout /\ call'.read = call.read
      /\ call'.at = call.at
  BY <1>1 DEF IInv, Types, CallSet
<1>3. loaded = <<>> => call.read = 0
  BY <1>1 DEF IInv, Reading, Types, TypeOK, CallSet
<1>4. ~Closing /\ TbReady' = TbReady /\ ReadTo' = ReadTo
  BY <1>1, <1>2 DEF Closing, TbReady, ReadTo
<1>5. CASE usedFrames = 1
  <2>1. /\ loaded' \in Seq(TagSet) /\ loaded' # <<>>
        /\ Len(loaded) \in Nat /\ Len(loaded') = Len(loaded) + 1
        /\ action' = "input"
        /\ frame'.offset = 0 /\ frame'.used = 0 /\ frame'.payload = 0
        /\ frame' \in [offset : Nat, payload : Nat, used : 0 .. Capacity]
    BY <1>5, FinalizeFact DEF NoWholePdu, IInv, Types, TypeOK
  <2>2. Types'
    BY <1>1, <1>2, <2>1 DEF IInv, Types, TypeOK
  <2>3. Reading'
    BY <1>1, <1>2, <1>4, <2>1 DEF IInv, Reading
  <2>4. PartialFrame' /\ Turns'
    BY <1>1, <2>1 DEF PartialFrame, Turns, InOutput
  <2>5. Room'
    <3>1. call.at <= Len(loaded) * Capacity + frame.used
      BY <1>1, <1>4 DEF IInv, Room
    <3>2. call.at <= Len(loaded') * Capacity + 0
      <4>1. (Len(loaded) + 1) * Capacity = Len(loaded) * Capacity + Capacity
        BY <2>1, SizesAssumption
      <4>2. frame.used \in 0 .. Capacity /\ Len(loaded) * Capacity \in Nat
        BY <2>1, SizesAssumption DEF IInv, Types, TypeOK
      <4>3. call.at \in Nat /\ Capacity \in Nat
        BY SizesAssumption DEF IInv, Types, TypeOK
      <4> QED
        BY <2>1, <3>1, <4>1, <4>2, <4>3
    <3> QED
      BY <1>1, <1>2, <2>1, <3>2 DEF IInv, Room, Types, CallSet
  <2> QED
    BY <2>2, <2>3, <2>4, <2>5 DEF IInv
<1>6. CASE usedFrames # 1
  <2>1. UNCHANGED <<loaded, frame, action>>
    BY <1>6 DEF NoWholePdu
  <2>2. ~Closing'
    BY <1>1, <2>1 DEF Closing
  <2>3. Types'
    BY <1>1, <1>2, <2>1 DEF IInv, Types, TypeOK
  <2>4. Reading'
    BY <1>1, <1>2, <1>3, <1>4, <2>1 DEF IInv, Reading
  <2>5. PartialFrame'
    BY <1>1, <1>4, <2>1, <2>2 DEF IInv, PartialFrame, Types, TypeOK
  <2>6. Turns'
    BY <1>1, <1>4, <2>1 DEF IInv, Turns, InOutput
  <2>7. Room'
    BY <1>1, <1>2, <1>4, <2>1, <2>2 DEF IInv, Room
  <2> QED
    BY <2>3, <2>4, <2>5, <2>6, <2>7 DEF IInv
<1> QED
  BY <1>5, <1>6

-----------------------------------------------------------------------------
(* The output of a TB                                                      *)

\* The bytes and bits that go to a frame: no more than is left of the TB, and
\* no more than is left of the frame.  If the frame is not filled, the TB is
\* out.
LEMMA OutFact ==
  ASSUME IInv, InOutput
  PROVE  /\ Available \in Nat
         /\ 8 * Available <= (Capacity - frame.used) * current.cnst
         /\ OutBytes \in Nat /\ OutBytes <= Available
         /\ OutBits \in Nat /\ OutBits <= tb.size - tb.sent
         /\ OutBits <= 8 * OutBytes
         /\ OutBits = 0 <=> OutBytes = 0
         /\ BitsToBytes(OutBits) = OutBytes
         /\ OutBytes < Available => OutBytes > 0 /\ OutBits = tb.size - tb.sent
<1> DEFINE left == tb.size - tb.sent
           room == (Capacity - frame.used) * current.cnst
<1>1. left \in Nat \ {0}
  <2>1. tb.size \in Nat /\ tb.sent \in 0 .. tb.size
    BY DEF IInv, Types, TypeOK
  <2>2. tb.sent # tb.size
    BY DEF InOutput, TbReady
  <2> QED
    BY <2>1, <2>2
<1>2. room \in Nat
  <2>1. frame.used \in 0 .. Capacity /\ current.cnst \in Nat
    BY DEF IInv, Types, TypeOK, Constellations
  <2>2. Capacity - frame.used \in Nat
    BY <2>1, SizesAssumption
  <2>3. \A a, b \in Nat : a * b \in Nat
    OBVIOUS
  <2> QED
    BY <2>1, <2>2, <2>3
<1>3. Available = room \div 8 /\ Available \in Nat /\ 8 * Available <= room
  BY <1>2 DEF Available
<1>4. OutBytes = Smaller(BitsToBytes(left), Available)
  BY DEF OutBytes
<1>5. OutBits = Smaller(8 * OutBytes, left)
  BY DEF OutBits
<1> HIDE DEF left, room
<1>6. /\ BitsToBytes(left) \in Nat \ {0} /\ left <= 8 * BitsToBytes(left)
      /\ 8 * BitsToBytes(left) < left + 8
  BY <1>1 DEF BitsToBytes
<1>7. OutBytes \in Nat /\ OutBytes <= Available /\ OutBytes <= BitsToBytes(left)
  BY <1>3, <1>4, <1>6 DEF Smaller
<1>8. CASE OutBytes = BitsToBytes(left)
  <2>1. OutBits = left
    BY <1>1, <1>5, <1>6, <1>8 DEF Smaller
  <2> QED
    BY <1>1, <1>3, <1>6, <1>7, <1>8, <2>1 DEF left, room
<1>9. CASE OutBytes < BitsToBytes(left)
  <2>1. OutBytes = Available
    BY <1>3, <1>4, <1>6, <1>9 DEF Smaller
  <2>2. 8 * OutBytes < left
    BY <1>1, <1>6, <1>7, <1>9
  <2>3. OutBits = 8 * OutBytes
    BY <1>1, <1>5, <1>7, <2>2 DEF Smaller
  <2>4. BitsToBytes(OutBits) = OutBytes
    BY <1>7, <2>3 DEF BitsToBytes
  <2> QED
    BY <1>1, <1>3, <1>7, <2>1, <2>2, <2>3, <2>4 DEF left, room
<1> QED
  BY <1>6, <1>7, <1>8, <1>9

\* What the two ways to write have in common.
LEMMA WriteFact ==
  ASSUME IInv, Write
  PROVE  /\ pc = "loop" /\ ~call.wait /\ InOutput /\ ~Closing
         /\ Len(loaded) < call.nout
         /\ UNCHANGED <<bounds, arrived, pos, remain, header, current, action,
                        empty, pc, air>>
         /\ tb' = [tb EXCEPT !.sent = @ + OutBits]
         /\ tb' \in TbSet /\ tb'.no = tb.no /\ tb'.size = tb.size
         /\ tb'.sent = tb.sent + OutBits /\ tb'.sent \in 0 .. tb'.size
         /\ usedFrames' = usedFrames + 1 /\ usedFrames' \in Nat
         /\ mem' \subseteq PieceSet
<1>1. /\ pc = "loop" /\ ~call.wait /\ InOutput /\ ~Closing
      /\ Len(loaded) < call.nout
      /\ UNCHANGED <<bounds, arrived, pos, remain, header, current, action,
                     empty, pc, air>>
      /\ tb' = [tb EXCEPT !.sent = @ + OutBits]
      /\ usedFrames' = usedFrames + 1
      /\ mem' = Cleared(call.at)
                  \cup (IF OutBits = 0 THEN {} ELSE {Piece(call.at, OutBits)})
  BY DEF Write, InLoop, InOutput, Closing, RoomLeft, streamVars, radioVars
<1>2. OutBits \in Nat /\ OutBits <= tb.size - tb.sent
  BY <1>1, OutFact
<1>3. /\ tb \in TbSet /\ tb.sent \in 0 .. tb.size /\ usedFrames \in Nat
      /\ call.at \in Nat /\ mem \subseteq PieceSet
      /\ current.cnst \in Constellations
  BY DEF IInv, Types, TypeOK
<1>4. /\ tb' \in TbSet /\ tb'.no = tb.no /\ tb'.size = tb.size
      /\ tb'.sent = tb.sent + OutBits /\ tb'.sent \in 0 .. tb'.size
  BY <1>1, <1>2, <1>3 DEF TbSet
<1>5. OutBits # 0 => Piece(call.at, OutBits) \in PieceSet
  <2>1. [tb EXCEPT !.sent = 0] \in TbSet /\ tb.sent \in Nat
    BY <1>3 DEF TbSet
  <2> QED
    BY <1>2, <1>3, <2>1 DEF Piece, PieceSet
<1>6. mem' \subseteq PieceSet
  BY <1>1, <1>3, <1>5 DEF Cleared
<1> QED
  BY <1>1, <1>3, <1>4, <1>6

LEMMA FillFrameIInv == IInv /\ FillFrame => IInv'
<1> SUFFICES ASSUME IInv, FillFrame PROVE IInv'
  OBVIOUS
<1> DEFINE tags == Tags(current, (frame.used * current.cnst) \div 8 + OutBytes)
<1>1. /\ pc = "loop" /\ ~call.wait /\ InOutput /\ ~Closing
      /\ Len(loaded) < call.nout
      /\ UNCHANGED <<bounds, arrived, pos, remain, header, current, action,
                     empty, pc, air>>
      /\ tb' \in TbSet /\ tb'.no = tb.no /\ tb'.size = tb.size
      /\ tb'.sent \in 0 .. tb'.size /\ usedFrames' \in Nat
      /\ mem' \subseteq PieceSet
  BY WriteFact DEF FillFrame
<1>2. /\ loaded' = Append(loaded, tags)
      /\ frame' = NewFrame
      /\ call' = [call EXCEPT !.at = @ + Capacity - frame.used]
  BY DEF FillFrame
<1>3. tags \in TagSet
  <2>1. frame.used * current.cnst \in Nat /\ OutBytes \in Nat
    <3>1. frame.used \in Nat /\ current.cnst \in Nat
      BY DEF IInv, Types, TypeOK, Constellations
    <3> QED
      BY <1>1, <3>1, OutFact
  <2>2. (frame.used * current.cnst) \div 8 + OutBytes \in Nat
    BY <2>1, DivFact
  <2> QED
    BY <2>2, TagsFact DEF IInv, Types, TypeOK
<1> HIDE DEF tags
<1>4. /\ loaded' \in Seq(TagSet) /\ loaded' # <<>>
      /\ Len(loaded) \in Nat /\ Len(loaded') = Len(loaded) + 1
  BY <1>2, <1>3 DEF IInv, Types
<1>5. /\ call' \in CallSet /\ call'.wait = call.wait /\ call'.seen = call.seen
      /\ call'.nout = call.nout /\ call'.read = call.read
      /\ call'.at = call.at + Capacity - frame.used
  <2>1. call.at + Capacity - frame.used \in Nat /\ call \in CallSet
    BY SizesAssumption DEF IInv, Types, TypeOK
  <2> QED
    BY <1>2, <2>1 DEF CallSet
<1>6. /\ frame'.offset = 0 /\ frame'.used = 0 /\ frame'.payload = 0
      /\ frame' \in [offset : Nat, payload : Nat, used : 0 .. Capacity]
  BY <1>2, SizesAssumption DEF NewFrame
<1>7. Types'
  <2>1. /\ tb'.no \in Nat /\ tb'.size \in Nat
        /\ call'.read \in 0 .. call'.seen /\ call'.at \in Nat
    BY <1>1, <1>5 DEF CallSet, TbSet, IInv, Types, TypeOK
  <2>2. \A p \in mem' : p.at >= 0 /\ p.bits > 0
    BY <1>1 DEF PieceSet
  <2>3. TypeOK'
    BY <1>1, <1>6, <2>1, <2>2 DEF IInv, Types, TypeOK
  <2> QED
    BY <1>1, <1>4, <1>5, <2>3 DEF IInv, Types
<1>8. Reading'
  BY <1>1, <1>4, <1>5 DEF IInv, Reading, ReadTo
<1>9. PartialFrame' /\ Turns'
  BY <1>1, <1>5, <1>6 DEF PartialFrame, Turns, InOutput
<1>10. Room'
  <2>1. call'.at <= Len(loaded') * Capacity + 0
    <3>1. call.at <= Len(loaded) * Capacity + frame.used
      BY <1>1 DEF IInv, Room
    <3>2. (Len(loaded) + 1) * Capacity = Len(loaded) * Capacity + Capacity
      BY <1>4, SizesAssumption
    <3>3. frame.used \in 0 .. Capacity /\ Len(loaded) * Capacity \in Nat
          /\ call.at \in Nat /\ Capacity \in Nat
      BY <1>4, SizesAssumption DEF IInv, Types, TypeOK
    <3> QED
      BY <1>4, <1>5, <3>1, <3>2, <3>3
  <2>2. call.nout \in Nat
    BY DEF IInv, Types, CallSet
  <2>3. Len(loaded') <= call.nout
    BY <1>1, <1>4, <2>2
  <2> QED
    BY <1>1, <1>4, <1>5, <1>6, <2>1, <2>2, <2>3 DEF Room
<1> QED
  BY <1>7, <1>8, <1>9, <1>10 DEF IInv

LEMMA LeaveRoomIInv == IInv /\ LeaveRoom => IInv'
<1> SUFFICES ASSUME IInv, LeaveRoom PROVE IInv'
  OBVIOUS
<1> DEFINE syms == BytesToSyms(OutBytes, current.cnst)
           first == frame.offset = 0
           used == IF first THEN syms ELSE frame.offset + syms
<1>1. /\ pc = "loop" /\ ~call.wait /\ InOutput /\ ~Closing
      /\ Len(loaded) < call.nout
      /\ UNCHANGED <<bounds, arrived, pos, remain, header, current, action,
                     empty, pc, air>>
      /\ tb' \in TbSet /\ tb'.no = tb.no /\ tb'.size = tb.size
      /\ tb'.sent = tb.sent + OutBits
      /\ tb'.sent \in 0 .. tb'.size /\ usedFrames' \in Nat
      /\ usedFrames' = usedFrames + 1
      /\ mem' \subseteq PieceSet
  BY WriteFact DEF LeaveRoom
<1>2. /\ OutBytes < Available /\ loaded' = loaded
      /\ frame' = [offset |-> IF first THEN OutBytes ELSE frame.offset,
                   payload |-> frame.payload + OutBytes,
                   used |-> used]
      /\ call' = [call EXCEPT !.at = @ + used]
  BY DEF LeaveRoom
<1>3. /\ OutBytes \in Nat \ {0} /\ OutBits = tb.size - tb.sent
      /\ 8 * OutBytes <= (Capacity - frame.used) * current.cnst
  <2>1. /\ OutBytes \in Nat /\ Available \in Nat
        /\ 8 * Available <= (Capacity - frame.used) * current.cnst
        /\ OutBytes > 0 /\ OutBits = tb.size - tb.sent
    BY <1>1, <1>2, OutFact
  <2>2. (Capacity - frame.used) * current.cnst \in Nat
    BY SizesAssumption DEF IInv, Types, TypeOK, Constellations
  <2> QED
    BY <1>2, <2>1, <2>2
<1>4. TbReady' /\ tb.sent # tb.size
  BY <1>1, <1>3 DEF TbReady, InOutput, IInv, Types, TypeOK
<1>5. /\ frame.offset \in Nat /\ frame.payload \in Nat
      /\ frame.used \in 0 .. Capacity /\ Capacity \in Nat
      /\ current.cnst \in Constellations /\ usedFrames \in Nat
  BY SizesAssumption DEF IInv, Types, TypeOK
<1>6. syms \in Nat /\ syms <= Capacity - frame.used
  <2>1. Capacity - frame.used \in Nat
    BY <1>5
  <2> QED
    BY <1>3, <1>5, <2>1, SymsFact
<1>7. ~first => /\ frame.offset <= frame.used
                /\ frame.payload = frame.offset
                /\ usedFrames = 0
  <2>1. frame.offset <= BytesToSyms(frame.offset, current.cnst)
    BY <1>5, SymsFact
  <2> QED
    BY <1>1, <1>5, <2>1 DEF IInv, PartialFrame, Turns
<1>8. first => frame.used = 0 /\ frame.payload = 0
  BY DEF IInv, PartialFrame
<1>9. used \in 0 .. Capacity
  BY <1>5, <1>6, <1>7, <1>8
<1>10. /\ frame'.offset = (IF first THEN OutBytes ELSE frame.offset)
       /\ frame'.payload = frame.payload + OutBytes
       /\ frame'.used = used
       /\ frame'.offset > 0
       /\ frame' \in [offset : Nat, payload : Nat, used : 0 .. Capacity]
  BY <1>2, <1>3, <1>5, <1>9
<1>11. /\ call' \in CallSet /\ call'.wait = call.wait
       /\ call'.seen = call.seen /\ call'.nout = call.nout
       /\ call'.read = call.read /\ call'.at = call.at + used
       /\ call.at \in Nat
  <2>1. call \in CallSet /\ call.at \in Nat /\ used \in Nat
    BY <1>9 DEF IInv, Types, TypeOK
  <2> HIDE DEF used
  <2> QED
    BY <1>2, <2>1 DEF CallSet
<1> HIDE DEF used
<1>12. Types'
  <2>1. /\ tb'.no \in Nat /\ tb'.size \in Nat
        /\ call'.read \in 0 .. call'.seen /\ call'.at \in Nat
    BY <1>1, <1>11 DEF CallSet, TbSet, IInv, Types, TypeOK
  <2>2. \A p \in mem' : p.at >= 0 /\ p.bits > 0
    BY <1>1 DEF PieceSet
  <2>3. TypeOK'
    BY <1>1, <1>10, <2>1, <2>2 DEF IInv, Types, TypeOK
  <2> QED
    BY <1>1, <1>2, <1>11, <2>3 DEF IInv, Types
<1>13. Reading'
  <2>1. (loaded = <<>> /\ call.read > 0) => usedFrames = 0
    BY <1>1, <1>4 DEF IInv, Reading, TbReady
  <2>2. (loaded = <<>> /\ call.read > 0) => usedFrames' = 1
    BY <1>1, <2>1
  <2> QED
    BY <1>1, <1>2, <1>4, <1>11, <2>2 DEF IInv, Reading, ReadTo, InOutput
\* Only a TB that was begun in this frame fills a frame's second part.
<1>14. ~Closing' => first
  <2>1. ~first => usedFrames' = 1
    BY <1>1, <1>7
  <2> QED
    BY <1>1, <1>4, <2>1 DEF Closing, InOutput
<1>15. PartialFrame'
  <2>1. frame'.payload >= frame'.offset
    BY <1>3, <1>5, <1>7, <1>8, <1>10
  <2>2. first => frame'.used = BytesToSyms(frame'.offset, current.cnst)
                 /\ frame'.payload = frame'.offset
    BY <1>3, <1>8, <1>10 DEF used
  <2> QED
    BY <1>1, <1>3, <1>5, <1>10, <1>14, <2>1, <2>2 DEF PartialFrame
<1>16. Turns'
  BY <1>1, <1>4, <1>11 DEF Turns, InOutput
<1>17. Room'
  <2>1. call.at <= Len(loaded) * Capacity + frame.used
    BY <1>1 DEF IInv, Room
  <2>2. first => call'.at <= Len(loaded) * Capacity + frame'.used
    <3>1. Len(loaded) * Capacity \in Nat
      BY <1>5 DEF IInv, Types
    <3> QED
      BY <1>5, <1>8, <1>9, <1>10, <1>11, <2>1, <3>1
  <2>3. Len(loaded) \in Nat /\ call.nout \in Nat
    BY DEF IInv, Types, CallSet
  <2>4. Len(loaded) <= call.nout /\ Len(loaded) <= call.nout + 1
        /\ Len(loaded) <= call.nout + 2
    BY <1>1, <2>3
  <2> QED
    BY <1>1, <1>2, <1>11, <1>14, <2>2, <2>4 DEF Room
<1> QED
  BY <1>12, <1>13, <1>15, <1>16, <1>17 DEF IInv

\* A frame that ends where it is, in the output's last turn or before a new
\* constellation.
LEMMA FinalizedIInv ==
  ASSUME IInv, pc = "loop", ~call.wait, Len(loaded) <= call.nout,
         Finalize(current), call' = [call EXCEPT !.at = AfterFinalize],
         UNCHANGED <<streamVars, radioVars, usedFrames, tb, empty, mem, pc,
                     air>>
  PROVE  IInv'
<1>1. UNCHANGED <<bounds, arrived, pos, remain, header, current, usedFrames,
                  tb, empty, mem, pc, air>>
  BY DEF streamVars, radioVars
<1>2. /\ loaded' \in Seq(TagSet) /\ loaded' # <<>>
      /\ Len(loaded) \in Nat /\ Len(loaded') = Len(loaded) + 1
      /\ action' = "input"
      /\ frame'.offset = 0 /\ frame'.used = 0 /\ frame'.payload = 0
      /\ frame' \in [offset : Nat, payload : Nat, used : 0 .. Capacity]
  BY FinalizeFact DEF IInv, Types, TypeOK
<1>3. /\ AfterFinalize \in Nat /\ AfterFinalize = Len(loaded') * Capacity
      /\ Len(loaded') * Capacity + 0 = Len(loaded') * Capacity
  BY <1>2, SizesAssumption DEF AfterFinalize
<1>4. /\ call' \in CallSet /\ call'.wait = call.wait /\ call'.seen = call.seen
      /\ call'.nout = call.nout /\ call'.read = call.read
      /\ call'.at = AfterFinalize
  <2>1. call \in CallSet
    BY DEF IInv, Types
  <2> QED
    BY <1>3, <2>1 DEF CallSet
<1>5. Types'
  <2>1. TypeOK'
    BY <1>1, <1>2, <1>3, <1>4 DEF IInv, Types, TypeOK
  <2> QED
    BY <1>1, <1>2, <1>4, <2>1 DEF IInv, Types
<1>6. Reading'
  BY <1>1, <1>2, <1>4 DEF IInv, Reading, ReadTo
<1>7. PartialFrame' /\ Turns'
  BY <1>1, <1>2, <1>4 DEF PartialFrame, Turns, InOutput
<1>8. Room'
  <2>1. call.nout \in Nat
    BY DEF IInv, Types, CallSet
  <2>2. /\ Len(loaded') <= call.nout + 1 /\ Len(loaded') <= call.nout + 2
        /\ call'.at <= Len(loaded') * Capacity + frame'.used
    BY <1>2, <1>3, <1>4, <2>1
  <2> QED
    BY <1>1, <1>2, <1>4, <2>2 DEF Room
<1> QED
  BY <1>5, <1>6, <1>7, <1>8 DEF IInv

LEMMA OutputDoneIInv == IInv /\ OutputDone => IInv'
<1> SUFFICES ASSUME IInv, OutputDone PROVE IInv'
  OBVIOUS
<1>1. /\ pc = "loop" /\ ~call.wait /\ action = "output" /\ TbReady
      /\ Len(loaded) <= call.nout
      /\ UNCHANGED <<streamVars, radioVars, usedFrames, tb, empty, mem, pc,
                     air>>
  BY DEF OutputDone, InLoop, IInv, Room
<1>2. CASE Finalizes
  <2>1. /\ Finalize(current)
        /\ call' = [call EXCEPT !.at = AfterFinalize]
    BY <1>2 DEF OutputDone
  <2> QED
    BY <1>1, <2>1, FinalizedIInv
<1>3. CASE ~Finalizes
  <2>1. /\ action' = "input"
        /\ UNCHANGED <<bounds, arrived, pos, remain, header, current, frame,
                       usedFrames, tb, empty, loaded, mem, pc, call, air>>
    BY <1>1, <1>3 DEF OutputDone, streamVars, radioVars
  <2>2. ~Closing /\ ~Closing' /\ usedFrames # 1 /\ ReadTo < arrived
    <3>1. usedFrames # 1 /\ ReadTo # call.seen
      BY <1>3 DEF Finalizes
    <3>2. call.seen = arrived /\ ReadTo <= arrived /\ ReadTo \in Int
          /\ arrived \in Int
      BY <1>1 DEF IInv, Reading, ReadTo, Types, TypeOK, CallSet
    <3> QED
      BY <2>1, <3>1, <3>2 DEF Closing
  <2>3. Types'
    BY <2>1 DEF IInv, Types, TypeOK
  <2>4. Reading'
    BY <1>1, <2>1, <2>2 DEF IInv, Reading, ReadTo
  <2>5. PartialFrame'
    BY <2>1, <2>2 DEF IInv, PartialFrame
  <2>6. Turns'
    BY <1>1, <2>1, <2>2 DEF Turns, InOutput, ReadTo
  <2>7. Room'
    BY <1>1, <2>1, <2>2 DEF IInv, Room
  <2> QED
    BY <2>3, <2>4, <2>5, <2>6, <2>7 DEF IInv
<1> QED
  BY <1>2, <1>3

LEMMA FinalizeFrameIInv == IInv /\ FinalizeFrame => IInv'
<1> SUFFICES ASSUME IInv, FinalizeFrame PROVE IInv'
  OBVIOUS
<1>1. /\ pc = "loop" /\ ~call.wait /\ action = "final"
      /\ Finalize(current) /\ call' = [call EXCEPT !.at = AfterFinalize]
      /\ UNCHANGED <<streamVars, radioVars, usedFrames, tb, empty, mem, pc,
                     air>>
  BY DEF FinalizeFrame, InLoop
<1>2. Len(loaded) <= call.nout
  <2>1. Len(loaded) < call.nout
    BY <1>1 DEF IInv, Turns, Room
  <2>2. Len(loaded) \in Nat /\ call.nout \in Nat
    BY DEF IInv, Types, CallSet
  <2> QED
    BY <2>1, <2>2
<1> QED
  BY <1>1, <1>2, FinalizedIInv

\* The end of a call that has no frame to produce: it has read nothing.
LEMMA NothingRead ==
  ASSUME IInv, LeaveLoop, loaded = <<>>
  PROVE  call.read = 0
<1>1. pc = "loop" /\ (call.wait \/ action = "input")
  BY DEF LeaveLoop
<1>2. ~(call.read > 0)
  BY <1>1 DEF IInv, Reading
<1> QED
  BY <1>2 DEF IInv, Types, CallSet

LEMMA LeaveLoopFact ==
  ASSUME IInv, LeaveLoop
  PROVE  /\ pc = "loop" /\ pc' = "idle" /\ call' = NoCall
         /\ UNCHANGED <<bounds, arrived, remain, header, current, frame,
                        action, usedFrames, tb, empty>>
         /\ action = "input" \/ InOutput
         /\ ReadTo' = ReadTo
         /\ pos' \in Nat /\ pos' <= arrived
         /\ (frame.offset > 0) => pos' < arrived
<1>1. /\ pc = "loop" /\ pc' = "idle" /\ call' = NoCall
      /\ UNCHANGED <<bounds, arrived, remain, header, current, frame,
                     action, usedFrames, tb, empty>>
      /\ call.wait \/ (action = "input" /\ ReadTo = call.seen)
  BY DEF LeaveLoop, radioVars, buildVars
<1>2. action = "input" \/ InOutput
  BY <1>1 DEF IInv, Turns
<1>3. /\ pos \in Nat /\ call.read \in Nat /\ arrived \in Nat
      /\ ReadTo <= arrived /\ pos < arrived /\ call.seen = arrived
  BY <1>1 DEF IInv, Types, TypeOK, Reading, CallSet
<1>4. call'.read = 0
  BY <1>1 DEF NoCall
<1>5. CASE loaded = <<>>
  <2>1. pos' = pos /\ call.read = 0
    BY <1>5, NothingRead DEF LeaveLoop
  <2>2. ReadTo' = ReadTo
    BY <1>3, <1>4, <2>1 DEF ReadTo
  <2> QED
    BY <1>1, <1>2, <1>3, <2>1, <2>2
<1>6. CASE loaded # <<>>
  <2>1. pos' = ReadTo
    BY <1>6 DEF LeaveLoop
  <2>2. ReadTo' = ReadTo /\ ReadTo \in Nat
    BY <1>3, <1>4, <2>1 DEF ReadTo
  <2>3. (frame.offset > 0) => ReadTo < arrived
    <3>1. CASE action = "input"
      BY <3>1 DEF IInv, Turns
    <3>2. CASE InOutput
      BY <1>1, <3>2 DEF IInv, Turns, InOutput
    <3> QED
      BY <1>2, <3>1, <3>2
  <2> QED
    BY <1>1, <1>2, <1>3, <2>1, <2>2, <2>3
<1> QED
  BY <1>5, <1>6

LEMMA LeaveLoopIInv == IInv /\ LeaveLoop => IInv'
<1> SUFFICES ASSUME IInv, LeaveLoop PROVE IInv'
  OBVIOUS
<1>1. /\ pc = "loop" /\ pc' = "idle" /\ call' = NoCall
      /\ UNCHANGED <<bounds, arrived, remain, header, current, frame,
                     action, usedFrames, tb, empty>>
      /\ action = "input" \/ InOutput
      /\ ReadTo' = ReadTo
      /\ pos' \in Nat /\ pos' <= arrived
      /\ (frame.offset > 0) => pos' < arrived
  BY LeaveLoopFact
<1>2. /\ mem' \subseteq PieceSet /\ Len(air') <= 1
      /\ loaded' \in Seq(TagSet)
  <2>1. CASE loaded = <<>>
    BY <2>1 DEF LeaveLoop, outVars, IInv, Types, TypeOK
  <2>2. CASE loaded # <<>>
    <3>1. Produce(Head(loaded), mem) /\ loaded' = Tail(loaded)
      BY <2>2 DEF LeaveLoop
    <3>2. mem' \subseteq PieceSet /\ Len(air') <= 1
      BY <3>1, ProduceFact DEF IInv, Types
    <3>3. loaded' \in Seq(TagSet)
      BY <2>2, <3>1 DEF IInv, Types
    <3> QED
      BY <3>2, <3>3
  <2> QED
    BY <2>1, <2>2
<1>3. call' \in CallSet /\ call'.read = 0 /\ ~call'.wait /\ call'.at \in Nat
      /\ call'.read \in 0 .. call'.seen
  BY <1>1 DEF NoCall, CallSet
<1>4. Types'
  <2>1. \A p \in mem' : p.at >= 0 /\ p.bits > 0
    BY <1>2 DEF PieceSet
  <2>2. TypeOK'
    BY <1>1, <1>2, <1>3, <2>1 DEF IInv, Types, TypeOK
  <2> QED
    BY <1>1, <1>2, <1>3, <2>2 DEF IInv, Types
<1>5. ReadTo' = pos'
  <2>1. ReadTo' = pos' + call'.read
    BY DEF ReadTo
  <2>2. pos' \in Nat
    BY <1>1
  <2>3. call'.read = 0
    BY <1>3
  <2>4. \A n \in Nat : n + 0 = n
    OBVIOUS
  <2> QED
    BY <2>1, <2>2, <2>3, <2>4, Zenon
<1>6. Reading'
  BY <1>1, <1>5 DEF IInv, Reading
<1>7. PartialFrame'
  BY <1>1 DEF IInv, PartialFrame, Closing, TbReady
<1>8. Turns'
  <2>1. action' = "input" \/ InOutput'
    BY <1>1 DEF InOutput, TbReady
  <2>2. (InOutput /\ frame.offset > 0)' => usedFrames' = 0
    BY <1>1 DEF IInv, Turns, InOutput, TbReady
  <2> QED
    BY <1>1, <1>3, <1>5, <2>1, <2>2 DEF Turns, InOutput
<1>9. Room'
  BY <1>1 DEF Room
<1> QED
  BY <1>4, <1>6, <1>7, <1>8, <1>9 DEF IInv

-----------------------------------------------------------------------------
(* The theorems                                                            *)

LEMMA NextIInv == IInv /\ [Next]_vars => IInv'
BY ArriveIInv, HeaderIInv, PassOnIInv, ProduceLoadedIInv, EmptyFrameIInv,
   GiveUpIInv, EnterLoopIInv, FlushIInv, EncodeTbIInv, NoWholePduIInv,
   FillFrameIInv, LeaveRoomIInv, OutputDoneIInv, OutputWaitIInv,
   FinalizeFrameIInv, LeaveLoopIInv
   DEF Next, BeginCall, Loop

LEMMA Invariance == Spec => []IInv
BY InitIInv, NextIInv, PTL DEF Spec

\* Types: every sum of bytes, bits and symbols stays within the frame, the TB
\* and the input it is about, wherever a call is interrupted.
THEOREM TypeCorrect == Spec => []TypeOK
<1>1. IInv => TypeOK
  BY DEF IInv, Types
<1> QED
  BY <1>1, Invariance, PTL

\* When a call has ended with the end of a TB in a partial frame, there is
\* input to go on with: the end of a TB never waits for the source.
THEOREM TailNotStrandedCorrect == Spec => []TailNotStranded
<1>1. IInv => TailNotStranded
  <2> SUFFICES ASSUME IInv, pc = "idle", frame.offset > 0
               PROVE  arrived > pos
    BY DEF TailNotStranded
  <2>1. ReadTo < arrived /\ call.read = 0
    BY DEF IInv, Turns, Reading, NoCall
  <2> QED
    BY <2>1 DEF ReadTo, IInv, Types, TypeOK
<1> QED
  BY <1>1, Invariance, PTL

\* A call loads at most two frames more than it was asked for, and what it
\* clears ends at most one frame after them, for every frame size.
THEOREM OverrunBoundedCorrect == Spec => []OverrunBounded
<1>1. IInv => OverrunBounded
  <2> SUFFICES ASSUME IInv, pc = "loop"
               PROVE  /\ Len(loaded) <= call.nout + 2
                      /\ (action = "output" /\ ~TbReady /\ RoomLeft) =>
                           call.at + Capacity <= (call.nout + 1) * Capacity
    BY DEF OverrunBounded
  <2>1. Len(loaded) <= call.nout + 2
    BY DEF IInv, Room
  <2>2. ASSUME ~TbReady, RoomLeft
        PROVE  call.at + Capacity <= (call.nout + 1) * Capacity
    <3>1. call.at <= Len(loaded) * Capacity + frame.used
      BY <2>2 DEF IInv, Room, Closing
    <3>2. /\ Len(loaded) \in Nat /\ call.nout \in Nat /\ call.at \in Nat
          /\ frame.used \in 0 .. Capacity /\ Capacity \in Nat
          /\ Len(loaded) + 1 <= call.nout
      BY <2>2, SizesAssumption DEF IInv, Types, TypeOK, CallSet, RoomLeft
    <3> DEFINE gap == call.nout - (Len(loaded) + 1)
    <3>3. gap \in Nat /\ call.nout = Len(loaded) + 1 + gap
      BY <3>2
    <3> HIDE DEF gap
    <3>4. gap * Capacity \in Nat
      BY <3>2, <3>3
    <3>5. (call.nout + 1) * Capacity
            = Len(loaded) * Capacity + Capacity + Capacity + gap * Capacity
      BY <3>2, <3>3
    <3>6. Len(loaded) * Capacity \in Nat
      BY <3>2
    <3> QED
      BY <3>1, <3>2, <3>4, <3>5, <3>6
  <2> QED
    BY <2>1, <2>2
<1> QED
  BY <1>1, Invariance, PTL

-----------------------------------------------------------------------------
(* The framer implements the PDU consumer                                  *)

\* Both modules read the stream with the same function.
LEMMA SameAdvance ==
  ASSUME NEW B, NEW p, NEW seen, NEW max, NEW owed
  PROVE  Consumer!Advance(B, p, seen, max, owed)
           = Advance(B, p, seen, max, owed)
BY Zenon
   DEF Advance, Continue, CutJumbo, TakeWhole, IsJumbo, Taken, PduLen, Least,
       NextBound, LastBound,
       Consumer!Advance, Consumer!Continue, Consumer!CutJumbo,
       Consumer!TakeWhole, Consumer!IsJumbo, Consumer!Taken, Consumer!PduLen,
       Consumer!Least, Consumer!NextBound, Consumer!LastBound

\* A TB takes what one call of the consumer gives.
LEMMA EncodeTbReads == IInv /\ EncodeTb => Consumer!Read
<1> SUFFICES ASSUME IInv, EncodeTb PROVE Consumer!Read
  OBVIOUS
<1> DEFINE max == TbPayloadMax(header.cnst, header.fec)
<1>1. max \in {TbPayloadMax(c, f) : c \in Constellations, f \in DOMAIN Codes}
  BY DEF IInv, Types, TypeOK
<1>2. /\ ReadTo \in Nat /\ arrived \in Nat /\ call.seen = arrived
      /\ ReadTo <= arrived /\ NextPayload.read \in Nat
  BY NextPayloadFact DEF EncodeTb, IInv, Reading, Types, TypeOK, Sound
<1>3. arrived \in ReadTo .. arrived
  BY <1>2
<1>4. /\ NextPayload = Advance(bounds, ReadTo, arrived, max, remain)
      /\ remain' = NextPayload.remain /\ UNCHANGED <<bounds, arrived>>
  BY <1>2 DEF NextPayload, EncodeTb
<1>5. ReadTo' = ReadTo + NextPayload.read
  <2>1. call \in CallSet /\ pos \in Nat
    BY DEF IInv, Types, TypeOK
  <2>2. pos' = pos /\ call' = [call EXCEPT !.read = @ + NextPayload.read]
    BY DEF EncodeTb
  <2>3. call'.read = call.read + NextPayload.read /\ call.read \in Nat
    BY <2>1, <2>2 DEF CallSet
  <2> QED
    BY <1>2, <2>1, <2>2, <2>3 DEF ReadTo
<1>6. Consumer!Call(max, arrived)
  BY <1>4, <1>5, SameAdvance DEF Consumer!Call
<1> HIDE DEF max
<1> QED
  BY <1>1, <1>3, <1>6 DEF Consumer!Read

\* Every other step but an arrival leaves the consumer as it is: in particular
\* the end of a call consumes exactly what its TBs have taken.
LEMMA StepImplements ==
  IInv /\ [Next]_vars => [Consumer!Next]_(Consumer!vars)
<1> SUFFICES ASSUME IInv, [Next]_vars
             PROVE  Consumer!Next \/ UNCHANGED Consumer!vars
  OBVIOUS
<1>1. CASE Arrive
  <2>1. /\ arrived' \in arrived + 1 .. Total(bounds)
        /\ UNCHANGED <<bounds, pos, remain, call>>
    BY <1>1 DEF Arrive
  <2>2. ReadTo' = ReadTo
    BY <2>1 DEF ReadTo
  <2> QED
    BY <2>1, <2>2 DEF Consumer!Next, Consumer!Arrive, Total, Consumer!Total
<1>2. CASE EncodeTb
  BY <1>2, EncodeTbReads DEF Consumer!Next
<1>3. CASE LeaveLoop
  BY <1>3, LeaveLoopFact DEF Consumer!vars
<1>4. ASSUME UNCHANGED <<bounds, arrived, pos, remain>>,
             call'.read = call.read
      PROVE  UNCHANGED Consumer!vars
  BY <1>4 DEF ReadTo, Consumer!vars
<1>5. CASE ProcessFeedbackHeader \/ PassOn \/ UNCHANGED vars
           \/ ProduceLoaded \/ EmptyFrame \/ GiveUp \/ FlushForNewCnst
  BY <1>4, <1>5 DEF ProcessFeedbackHeader, PassOn, vars, ProduceLoaded,
     EmptyFrame, GiveUp, FlushForNewCnst, streamVars
<1>6. CASE EnterLoop
  <2>1. call.read = 0 /\ call'.read = 0
    BY <1>6 DEF EnterLoop, Called, IInv, Reading, NoCall
  <2> QED
    BY <1>4, <1>6, <2>1 DEF EnterLoop, streamVars
<1>7. CASE NoWholePdu \/ OutputWait
  <2>1. call' = [call EXCEPT !.wait = TRUE]
        /\ UNCHANGED <<bounds, arrived, pos, remain>>
    BY <1>7 DEF NoWholePdu, OutputWait, streamVars
  <2>2. call'.read = call.read
    BY <2>1 DEF IInv, Types, CallSet
  <2> QED
    BY <1>4, <2>1, <2>2
<1>8. CASE FillFrame \/ LeaveRoom \/ OutputDone \/ FinalizeFrame
  <2>1. UNCHANGED <<bounds, arrived, pos, remain>>
    BY <1>8 DEF FillFrame, LeaveRoom, Write, OutputDone, FinalizeFrame,
       streamVars
  <2>2. call' = call \/ \E at : call' = [call EXCEPT !.at = at]
    BY <1>8, Zenon DEF FillFrame, LeaveRoom, OutputDone, FinalizeFrame
  <2>3. call'.read = call.read
    BY <2>2 DEF IInv, Types, CallSet
  <2> QED
    BY <1>4, <2>1, <2>3
<1> QED
  BY <1>1, <1>2, <1>3, <1>5, <1>6, <1>7, <1>8 DEF Next, BeginCall, Loop

\* The coded framer implements the PDU consumer, although it consumes its
\* input late and only if a frame is ready: every byte goes into one TB, in
\* order, and no TB mixes a part of a PDU with other PDUs.
THEOREM ConsumerImplemented == Spec => ImplementsConsumer
<1>1. Init => Consumer!Init
  BY DEF Init, Consumer!Init, ReadTo, NoCall
<1> QED
  BY <1>1, StepImplements, Invariance, PTL
     DEF Spec, ImplementsConsumer, Consumer!Spec

-----------------------------------------------------------------------------
(* Frames hold what their headers say                                      *)

\* A piece of so many bytes is at symbol at of the buffer m, and ends by upto.
Has(m, cnst, at, bytes, upto) ==
  \E p \in m : /\ p.at = at /\ p.cnst = cnst
               /\ BitsToBytes(p.bits) = bytes
               /\ PieceEnd(p) <= upto

\* The frame that begins at symbol base holds the end of a TB and a new TB.
Held(m, base, cnst, offset, payload) ==
  /\ payload <= FrameLen(cnst)
  /\ offset > 0 => Has(m, cnst, base, offset, base + Capacity)
  /\ payload > offset => Has(m, cnst, base + BytesToSyms(offset, cnst),
                             payload - offset, base + Capacity)

\* Where the buffer ends.
Front ==
  IF Closing THEN (Len(loaded) + 1) * Capacity
             ELSE Len(loaded) * Capacity + frame.used

LoadedHeld ==
  \A i \in 1 .. Len(loaded) :
    Held(mem, (i - 1) * Capacity, loaded[i].cnst, loaded[i].offset,
         loaded[i].payload)

(***************************************************************************)
(* With PDUs handed over whole a call never ends in a partial frame, so    *)
(* that the write index of the next call, which takes the offset in bytes  *)
(* for symbols, is right: it is the end of what the buffer holds.          *)
(***************************************************************************)
Layout ==
  /\ arrived \in bounds
  /\ (pc # "loop" \/ call.wait) => frame.offset = 0
  /\ (pc = "loop" /\ ~Closing) => call.at = Front
  /\ \A p \in mem : PieceEnd(p) <= Front
  /\ LoadedHeld
  /\ frame.offset > 0 =>
       Held(mem, Len(loaded) * Capacity, current.cnst, frame.offset,
            frame.payload)
  /\ FramesIntact

\* A frame is no less intact when more is in the buffer.
LEMMA HeldMore ==
  ASSUME NEW m, NEW n, m \subseteq n, NEW base, NEW cnst, NEW offset,
         NEW payload, Held(m, base, cnst, offset, payload)
  PROVE  Held(n, base, cnst, offset, payload)
BY Zenon DEF Held, Has

\* A frame without payload needs no piece.
LEMMA HeldEmpty ==
  ASSUME NEW m, NEW base, NEW cnst \in Constellations
  PROVE  Held(m, base, cnst, 0, 0)
<1>1. FrameLen(cnst) \in Nat
  <2>1. Capacity * cnst \in Nat
    BY SizesAssumption DEF Constellations
  <2> QED
    BY <2>1, DivFact DEF FrameLen
<1> QED
  BY <1>1 DEF Held

\* The end of a piece.
LEMMA PieceEndFact ==
  ASSUME NEW p \in PieceSet
  PROVE  PieceEnd(p) \in Nat /\ PieceEnd(p) > p.at
<1>1. p.at \in Nat /\ p.bits \in Nat /\ p.bits > 0 /\ p.cnst \in Constellations
  BY DEF PieceSet
<1> DEFINE syms == (p.bits + p.cnst - 1) \div p.cnst
<1>2. syms \in Nat /\ syms > 0
  BY <1>1, CeilFact
<1>3. PieceEnd(p) = p.at + syms
  BY DEF PieceEnd
<1> HIDE DEF syms
<1> QED
  BY <1>1, <1>2, <1>3

\* A piece moves up with the buffer.
LEMMA MovedFact ==
  ASSUME NEW p \in PieceSet, p.at >= Capacity
  PROVE  LET q == [p EXCEPT !.at = @ - Capacity]
         IN  /\ q \in PieceSet /\ q.at = p.at - Capacity
             /\ q.cnst = p.cnst /\ q.bits = p.bits
             /\ q.tb = p.tb /\ q.from = p.from
             /\ PieceEnd(q) = PieceEnd(p) - Capacity
<1> DEFINE q == [p EXCEPT !.at = @ - Capacity]
<1>1. p.at \in Nat /\ Capacity \in Nat /\ p.at - Capacity \in Nat
  BY SizesAssumption DEF PieceSet
<1>2. /\ q \in PieceSet /\ q.at = p.at - Capacity
      /\ q.cnst = p.cnst /\ q.bits = p.bits /\ q.tb = p.tb /\ q.from = p.from
  BY <1>1 DEF PieceSet
<1> HIDE DEF q
<1> DEFINE syms == (p.bits + p.cnst - 1) \div p.cnst
<1>3. PieceEnd(p) = p.at + syms /\ PieceEnd(q) = q.at + syms
  BY <1>2 DEF PieceEnd
<1>4. syms \in Nat
  BY CeilFact DEF PieceSet
<1> HIDE DEF syms
<1>5. PieceEnd(q) = PieceEnd(p) - Capacity
  BY <1>1, <1>2, <1>3, <1>4
<1> QED
  BY <1>2, <1>5 DEF q

\* So does a frame that is not the first.
LEMMA HeldMoved ==
  ASSUME NEW m \in SUBSET PieceSet, NEW base \in Nat, base >= Capacity,
         NEW cnst \in Constellations, NEW offset \in Nat, NEW payload \in Nat,
         Held(m, base, cnst, offset, payload)
  PROVE  Held({[p EXCEPT !.at = @ - Capacity] :
                 p \in {q \in m : q.at >= Capacity}},
              base - Capacity, cnst, offset, payload)
<1> DEFINE n == {[p EXCEPT !.at = @ - Capacity] :
                   p \in {q \in m : q.at >= Capacity}}
<1>1. ASSUME NEW at \in Nat, at >= base, NEW bytes,
             Has(m, cnst, at, bytes, base + Capacity)
      PROVE  Has(n, cnst, at - Capacity, bytes, base - Capacity + Capacity)
  <2>1. PICK p \in m : /\ p.at = at /\ p.cnst = cnst
                       /\ BitsToBytes(p.bits) = bytes
                       /\ PieceEnd(p) <= base + Capacity
    BY <1>1 DEF Has
  <2>2. Capacity \in Nat /\ p \in PieceSet /\ p.at >= Capacity
    BY <1>1, <2>1, SizesAssumption
  <2> DEFINE q == [p EXCEPT !.at = @ - Capacity]
  <2>3. /\ q.at = at - Capacity /\ q.cnst = cnst
        /\ BitsToBytes(q.bits) = bytes
        /\ PieceEnd(q) = PieceEnd(p) - Capacity
    BY <2>1, <2>2, MovedFact
  <2>4. q \in n
    BY <2>2
  <2> HIDE DEF q, n
  <2>5. PieceEnd(q) <= base - Capacity + Capacity
    BY <2>1, <2>2, <2>3, PieceEndFact
  <2> QED
    BY <2>3, <2>4, <2>5 DEF Has
<1> HIDE DEF n
<1>2. payload <= FrameLen(cnst)
  BY DEF Held
<1>3. ASSUME offset > 0
      PROVE  Has(n, cnst, base - Capacity, offset, base - Capacity + Capacity)
  BY <1>1, <1>3 DEF Held
<1>4. ASSUME payload > offset
      PROVE  Has(n, cnst, base - Capacity + BytesToSyms(offset, cnst),
                 payload - offset, base - Capacity + Capacity)
  <2> DEFINE at == base + BytesToSyms(offset, cnst)
  <2>1. BytesToSyms(offset, cnst) \in Nat /\ Capacity \in Nat
    BY SymsFact, SizesAssumption
  <2>2. at \in Nat /\ at >= base
        /\ at - Capacity = base - Capacity + BytesToSyms(offset, cnst)
    BY <2>1
  <2>3. Has(m, cnst, at, payload - offset, base + Capacity)
    BY <1>4 DEF Held
  <2>4. Has(n, cnst, at - Capacity, payload - offset,
            base - Capacity + Capacity)
    BY <1>1, <2>2, <2>3
  <2> QED
    BY <2>2, <2>4
<1> QED
  BY <1>2, <1>3, <1>4 DEF Held, n

-----------------------------------------------------------------------------

\* The first frame goes, with what its header says, and the others move up.
LEMMA ProduceLayout ==
  ASSUME IInv, Layout, loaded # <<>>, ~Closing,
         Produce(Head(loaded), mem), loaded' = Tail(loaded), frame' = frame,
         ~Closing'
  PROVE  /\ FramesIntact' /\ LoadedHeld'
         /\ \A p \in mem' : PieceEnd(p) <= Front'
<1> DEFINE t == Head(loaded)
           f == [tags |-> t, pieces |-> {p \in mem : p.at < Capacity}]
<1>1. /\ loaded \in Seq(TagSet) /\ mem \subseteq PieceSet
      /\ Len(loaded) \in Nat \ {0} /\ Len(loaded') = Len(loaded) - 1
      /\ \A i \in 1 .. Len(loaded') : loaded'[i] = loaded[i + 1]
      /\ t = loaded[1] /\ Capacity \in Nat \ {0}
  BY SizesAssumption DEF IInv, Types
<1>2. t \in TagSet
  BY <1>1
<1>3. t.cnst \in Constellations /\ t.offset \in Nat /\ t.payload \in Nat
  BY <1>2 DEF TagSet
<1>4. Held(mem, 0, t.cnst, t.offset, t.payload)
  <2>1. 1 \in 1 .. Len(loaded) /\ (1 - 1) * Capacity = 0
    BY <1>1
  <2> QED
    BY <1>1, <2>1 DEF Layout, LoadedHeld
<1> HIDE DEF t
<1>5. ASSUME NEW at \in Nat, NEW bytes,
             Has(mem, t.cnst, at, bytes, 0 + Capacity)
      PROVE  Found(f, at, bytes)
  <2>1. PICK p \in mem : /\ p.at = at /\ p.cnst = t.cnst
                         /\ BitsToBytes(p.bits) = bytes
                         /\ PieceEnd(p) <= 0 + Capacity
    BY <1>5 DEF Has
  <2>2. PieceEnd(p) \in Nat /\ PieceEnd(p) > p.at /\ p.at \in Nat
    BY <1>1, PieceEndFact DEF PieceSet
  <2>3. p.at < Capacity
    BY <1>1, <2>1, <2>2
  <2> QED
    BY <2>1, <2>3 DEF Found
<1>6. FramesIntact'
  <2>1. air' = <<f>>
    BY DEF Produce, t
  <2>2. t.payload <= FrameLen(t.cnst)
    BY <1>4 DEF Held
  <2>3. t.offset > 0 => Found(f, 0, t.offset)
    BY <1>4, <1>5 DEF Held
  <2>4. t.payload - t.offset > 0 =>
          Found(f, BytesToSyms(t.offset, t.cnst), t.payload - t.offset)
    <3>1. ASSUME t.payload - t.offset > 0
          PROVE  Found(f, BytesToSyms(t.offset, t.cnst), t.payload - t.offset)
      <4>1. BytesToSyms(t.offset, t.cnst) \in Nat
        BY <1>3, SymsFact
      <4>2. 0 + BytesToSyms(t.offset, t.cnst) = BytesToSyms(t.offset, t.cnst)
        BY <4>1
      <4>3. t.payload > t.offset
        BY <1>3, <3>1
      <4> QED
        BY <1>4, <1>5, <4>1, <4>2, <4>3 DEF Held
    <3> QED
      BY <3>1
  <2>5. f.tags = t
    OBVIOUS
  <2> HIDE DEF f
  <2>6. FrameIntact(f)
    BY <2>2, <2>3, <2>4, <2>5 DEF FrameIntact
  <2>7. DOMAIN air' = {1} /\ air'[1] = f
    BY <2>1
  <2> QED
    BY <2>6, <2>7 DEF FramesIntact
<1> DEFINE moved == {[p EXCEPT !.at = @ - Capacity] :
                       p \in {q \in mem : q.at >= Capacity}}
<1>7. mem' = moved
  BY DEF Produce
<1>8. LoadedHeld'
  <2>1. ASSUME NEW i \in 1 .. Len(loaded')
        PROVE  Held(moved, (i - 1) * Capacity, loaded[i + 1].cnst,
                    loaded[i + 1].offset, loaded[i + 1].payload)
    <3> DEFINE base == (i + 1 - 1) * Capacity
    <3>1. i + 1 \in 1 .. Len(loaded)
      BY <1>1
    <3>2. base \in Nat /\ base >= Capacity
          /\ base - Capacity = (i - 1) * Capacity
      <4>1. i \in Nat /\ i - 1 \in Nat /\ i + 1 - 1 = (i - 1) + 1
        BY <1>1
      <4>2. (i - 1) * Capacity \in Nat
        BY <1>1, <4>1
      <4>3. base = (i - 1) * Capacity + Capacity
        BY <1>1, <4>1
      <4> QED
        BY <1>1, <4>2, <4>3
    <3>3. Held(mem, base, loaded[i + 1].cnst, loaded[i + 1].offset,
               loaded[i + 1].payload)
      BY <3>1 DEF Layout, LoadedHeld
    <3>4. loaded[i + 1] \in TagSet
      BY <1>1, <3>1
    <3> HIDE DEF base
    <3>5. /\ loaded[i + 1].cnst \in Constellations
          /\ loaded[i + 1].offset \in Nat /\ loaded[i + 1].payload \in Nat
      BY <3>4 DEF TagSet
    <3>6. Held(moved, base - Capacity, loaded[i + 1].cnst,
               loaded[i + 1].offset, loaded[i + 1].payload)
      <4>1. mem \in SUBSET PieceSet /\ base \in Nat /\ base >= Capacity
        BY <1>1, <3>2
      <4> QED
        BY <3>3, <3>5, <4>1, HeldMoved, Zenon
    <3> QED
      BY <3>2, <3>6, Zenon
  <2> HIDE DEF moved
  <2> QED
    BY <1>1, <1>7, <2>1 DEF LoadedHeld
<1>9. \A p \in mem' : PieceEnd(p) <= Front'
  <2>1. Front = Len(loaded) * Capacity + frame.used
        /\ Front' = Len(loaded') * Capacity + frame.used
    BY DEF Front
  <2>2. Front' = Front - Capacity /\ Front \in Nat
    <3>1. Len(loaded) = Len(loaded') + 1 /\ Len(loaded') \in Nat
      BY <1>1
    <3>2. Len(loaded) * Capacity = Len(loaded') * Capacity + Capacity
      BY <1>1, <3>1
    <3>3. Len(loaded') * Capacity \in Nat
      BY <1>1, <3>1
    <3>4. frame.used \in Nat
      BY <1>1 DEF IInv, Types, TypeOK
    <3> QED
      BY <1>1, <2>1, <3>2, <3>3, <3>4
  <2>3. ASSUME NEW p \in mem, p.at >= Capacity
        PROVE  PieceEnd([p EXCEPT !.at = @ - Capacity]) <= Front'
    <3>1. PieceEnd(p) <= Front /\ PieceEnd(p) \in Nat
      BY <1>1, PieceEndFact DEF Layout
    <3>2. PieceEnd([p EXCEPT !.at = @ - Capacity]) = PieceEnd(p) - Capacity
      BY <1>1, <2>3, MovedFact
    <3> QED
      BY <1>1, <2>2, <3>1, <3>2
  <2> QED
    BY <1>7, <2>3
<1> QED
  BY <1>6, <1>8, <1>9

\* Steps that leave the buffer alone.
LEMMA QuietLayout ==
  ASSUME IInv, Layout,
         UNCHANGED <<bounds, frame, loaded, mem>>,
         arrived' \in bounds,
         frame.offset > 0 => current'.cnst = current.cnst,
         air' = air \/ air' = <<>>,
         Closing' <=> Closing,
         (pc # "loop" \/ call.wait)' => frame.offset = 0,
         (pc = "loop" /\ ~Closing)' => call'.at = Front
  PROVE  Layout'
<1>1. Front' = Front
  BY DEF Front
<1>2. FramesIntact'
  <2>1. CASE air' = <<>>
    BY <2>1 DEF FramesIntact
  <2>2. CASE air' = air
    BY <2>2 DEF FramesIntact, Layout
  <2> QED
    BY <2>1, <2>2
<1>3. LoadedHeld'
  BY DEF LoadedHeld, Layout
<1>4. \A p \in mem' : PieceEnd(p) <= Front'
  BY <1>1 DEF Layout
<1>5. (frame.offset > 0 =>
         Held(mem, Len(loaded) * Capacity, current.cnst, frame.offset,
              frame.payload))'
  BY DEF Layout
<1> QED
  BY <1>1, <1>2, <1>3, <1>4, <1>5 DEF Layout

LEMMA ArriveLayout ==
  ASSUME WholePdus, IInv, Layout, Arrive
  PROVE  Layout'
<1>1. /\ pc = "idle" /\ arrived' \in bounds
      /\ UNCHANGED <<bounds, current, frame, action, usedFrames, tb, loaded,
                     mem, pc, call, air>>
  BY DEF Arrive, radioVars, buildVars, outVars
<1> QED
  BY <1>1, QuietLayout DEF Layout, Closing, TbReady

\* Messages, what goes downstream and what stands still.
LEMMA StillLayout ==
  ASSUME IInv, Layout, ProcessFeedbackHeader \/ PassOn \/ UNCHANGED vars
  PROVE  Layout'
<1>1. /\ UNCHANGED <<bounds, arrived, current, frame, action, usedFrames, tb,
                     loaded, mem, pc, call>>
      /\ air' = air \/ air' = <<>>
  BY DEF ProcessFeedbackHeader, PassOn, vars, streamVars, radioVars, buildVars,
     outVars
<1>2. Front' = Front /\ (Closing' <=> Closing)
  BY <1>1 DEF Front, Closing, TbReady
<1> QED
  BY <1>1, <1>2, QuietLayout DEF Layout

LEMMA ProduceLoadedLayout ==
  ASSUME IInv, Layout, ProduceLoaded
  PROVE  Layout'
<1>1. /\ pc = "idle" /\ loaded # <<>> /\ loaded' = Tail(loaded)
      /\ Produce(Head(loaded), mem)
      /\ UNCHANGED <<bounds, arrived, current, frame, action, usedFrames, tb,
                     pc, call>>
  BY DEF ProduceLoaded, Called, streamVars, radioVars, buildVars
<1>2. ~Closing /\ ~Closing'
  BY <1>1 DEF IInv, Turns, Closing, InOutput, TbReady
<1>3. /\ FramesIntact' /\ LoadedHeld'
      /\ \A p \in mem' : PieceEnd(p) <= Front'
  BY <1>1, <1>2, ProduceLayout
<1>4. frame.offset = 0
  BY <1>1 DEF Layout
<1> QED
  BY <1>1, <1>2, <1>3, <1>4 DEF Layout

\* Without input the buffer is empty, and so is the frame.
LEMMA EmptyFrameLayout ==
  ASSUME IInv, Layout, EmptyFrame
  PROVE  Layout'
<1> DEFINE payload == BitsToBytes(frame.offset * current.cnst)
           t == Tags(current, payload)
           f == [tags |-> t, pieces |-> {p \in Cleared(0) : p.at < Capacity}]
<1>1. /\ pc = "idle" /\ loaded = <<>> /\ Produce(t, Cleared(0))
      /\ UNCHANGED <<bounds, arrived, current, frame, action, usedFrames, tb,
                     loaded, pc, call>>
  BY DEF EmptyFrame, NoInput, Called, streamVars, radioVars, buildVars
<1>2. frame.offset = 0 /\ current.cnst \in Constellations
  BY NoInputFact DEF EmptyFrame, IInv, Types, TypeOK
<1>3. payload = 0
  <2>1. 0 * current.cnst = 0
    BY <1>2 DEF Constellations
  <2>2. (0 + 7) \div 8 = 0
    OBVIOUS
  <2> QED
    BY <1>2, <2>1, <2>2 DEF BitsToBytes
<1> HIDE DEF payload
<1>4. t.payload = 0 /\ t.offset = 0 /\ t.cnst \in Constellations
  BY <1>2, <1>3 DEF Tags
<1>5. mem = {}
  <2>1. ~Closing /\ frame.used = 0 /\ Len(loaded) = 0
    BY <1>1, <1>2 DEF IInv, Turns, PartialFrame, Closing, InOutput
  <2>2. Front = 0
    <3>1. 0 * Capacity + 0 = 0
      BY SizesAssumption
    <3> QED
      BY <2>1, <3>1 DEF Front
  <2>3. ASSUME NEW p \in mem
        PROVE  FALSE
    <3>1. PieceEnd(p) \in Nat /\ PieceEnd(p) > p.at /\ p.at \in Nat
      BY PieceEndFact DEF IInv, Types, PieceSet
    <3>2. PieceEnd(p) <= 0
      BY <2>2 DEF Layout
    <3> QED
      BY <3>1, <3>2
  <2> QED
    BY <2>3
<1>6. mem' = {} /\ air' = <<f>>
  BY <1>1, <1>5 DEF Produce, Cleared
<1>7. FrameIntact(f)
  <2>1. Held({}, 0, t.cnst, 0, 0)
    BY <1>4, HeldEmpty
  <2>2. f.tags = t
    OBVIOUS
  <2> HIDE DEF f, t
  <2> QED
    BY <1>4, <2>1, <2>2 DEF Held, FrameIntact
<1> HIDE DEF f
<1>8. FramesIntact'
  <2>1. DOMAIN air' = {1} /\ air'[1] = f
    BY <1>6
  <2> QED
    BY <1>7, <2>1 DEF FramesIntact
<1>9. LoadedHeld'
  <2>1. 1 .. Len(loaded') = {}
    BY <1>1
  <2> QED
    BY <2>1 DEF LoadedHeld
<1> QED
  BY <1>1, <1>2, <1>6, <1>8, <1>9 DEF Layout

LEMMA GiveUpLayout ==
  ASSUME IInv, Layout, GiveUp
  PROVE  Layout'
<1>1. /\ pc = "idle" /\ pc' = "done"
      /\ UNCHANGED <<bounds, arrived, current, frame, action, usedFrames, tb,
                     loaded, mem, call, air>>
  BY DEF GiveUp, NoInput, Called, streamVars, radioVars, buildVars, outVars
<1> QED
  BY <1>1, QuietLayout DEF Layout, Closing, TbReady

\* Nothing is loaded and no frame has begun: the buffer is empty.
LEMMA EnterLoopLayout ==
  ASSUME IInv, Layout, EnterLoop
  PROVE  Layout'
<1>1. /\ pc = "idle" /\ loaded = <<>>
      /\ UNCHANGED <<bounds, arrived, current, frame, action, usedFrames, tb,
                     loaded, mem, air>>
      /\ call'.at = frame.offset
  BY DEF EnterLoop, Called, NoCall, streamVars, radioVars, buildVars, outVars
<1>2. frame.offset = 0 /\ frame.used = 0 /\ Len(loaded) = 0
  BY <1>1 DEF Layout, IInv, PartialFrame
<1>3. ~Closing /\ ~Closing'
  BY <1>1 DEF IInv, Turns, Closing, InOutput, TbReady
<1>4. Front = 0
  <2>1. 0 * Capacity + 0 = 0
    BY SizesAssumption
  <2> QED
    BY <1>2, <1>3, <2>1 DEF Front
<1> QED
  BY <1>1, <1>2, <1>3, <1>4, QuietLayout DEF Layout

-----------------------------------------------------------------------------

LEMMA FlushLayout ==
  ASSUME IInv, Layout, FlushForNewCnst
  PROVE  Layout'
<1>1. /\ pc = "loop" /\ ~call.wait /\ action = "input" /\ action' = "final"
      /\ UNCHANGED <<bounds, arrived, current, frame, usedFrames, tb, loaded,
                     mem, pc, call, air>>
  BY DEF FlushForNewCnst, Processing, InLoop, streamVars, radioVars, outVars
<1>2. ~Closing /\ ~Closing' /\ Front' = Front
  BY <1>1 DEF Closing, Front
<1> QED
  BY <1>1, <1>2, QuietLayout DEF Layout

LEMMA EncodeTbLayout ==
  ASSUME IInv, Layout, EncodeTb
  PROVE  Layout'
<1>1. /\ pc = "loop" /\ ~call.wait /\ action = "input"
      /\ frame.offset > 0 => header.cnst = current.cnst
      /\ current' = header /\ usedFrames' = 0
      /\ call' = [call EXCEPT !.read = @ + NextPayload.read]
      /\ UNCHANGED <<bounds, arrived, frame, loaded, mem, pc, air>>
  BY DEF EncodeTb, Processing, InLoop, MustFlush, outVars
<1>2. ~Closing /\ ~Closing' /\ Front' = Front
  BY <1>1 DEF Closing, Front
<1>3. call'.at = call.at /\ call'.wait = call.wait
  <2>1. call \in CallSet
    BY DEF IInv, Types
  <2> QED
    BY <1>1, <2>1 DEF CallSet
<1> QED
  BY <1>1, <1>2, <1>3, QuietLayout DEF Layout

\* A source that hands PDUs over whole never makes a call wait for one.
LEMMA NeverNoWholePdu ==
  ASSUME IInv, Layout
  PROVE  ~NoWholePdu
<1> SUFFICES ASSUME NoWholePdu PROVE FALSE
  OBVIOUS
<1> DEFINE max == TbPayloadMax(header.cnst, header.fec)
<1>1. Processing /\ NextPayload.read = 0
  BY DEF NoWholePdu
<1>2. /\ max \in Nat \ {0} /\ call.seen = arrived /\ ReadTo \in Nat
      /\ ReadTo < arrived
  BY <1>1, NextPayloadFact DEF Processing
<1>3. arrived \in bounds /\ bounds \subseteq Nat
      /\ remain = Rest(bounds, ReadTo)
  BY TotalFact DEF Layout, IInv, Types, TypeOK, Reading
<1>4. NextPayload = Advance(bounds, ReadTo, arrived, max, remain)
  BY <1>2 DEF NextPayload
<1> HIDE DEF max
<1>5. NextPayload.read > 0
  BY <1>2, <1>3, <1>4, WholeAdvance
<1> QED
  BY <1>1, <1>5

LEMMA OutputWaitLayout ==
  ASSUME IInv, Layout, OutputWait
  PROVE  Layout'
<1>1. /\ pc = "loop" /\ ~call.wait /\ action = "output" /\ ~TbReady
      /\ call' = [call EXCEPT !.wait = TRUE]
      /\ UNCHANGED <<bounds, arrived, current, frame, action, usedFrames, tb,
                     loaded, mem, pc, air>>
  BY DEF OutputWait, InLoop, streamVars, radioVars, buildVars, outVars
<1>2. call'.at = call.at /\ call'.wait = TRUE
  <2>1. call \in CallSet
    BY DEF IInv, Types
  <2> QED
    BY <1>1, <2>1 DEF CallSet
<1>3. ~Closing /\ ~Closing' /\ Front' = Front
  BY <1>1 DEF Closing, TbReady, Front
<1>4. frame.offset = 0
  <2>1. InOutput' /\ call'.wait /\ frame' = frame
    BY <1>1, <1>2 DEF InOutput, TbReady
  <2>2. Turns'
    BY OutputWaitIInv DEF IInv
  <2> QED
    BY <2>1, <2>2 DEF Turns
<1> QED
  BY <1>1, <1>2, <1>3, <1>4, QuietLayout DEF Layout

\* The frame under construction joins the loaded ones.
LEMMA AppendLayout ==
  ASSUME IInv, Layout, NEW m, mem \subseteq m, NEW tags,
         Held(m, Len(loaded) * Capacity, tags.cnst, tags.offset, tags.payload),
         loaded' = Append(loaded, tags), mem' = m
  PROVE  LoadedHeld'
<1>1. /\ loaded \in Seq(TagSet) /\ Len(loaded) \in Nat
      /\ Len(loaded') = Len(loaded) + 1
      /\ \A i \in 1 .. Len(loaded) : loaded'[i] = loaded[i]
      /\ loaded'[Len(loaded) + 1] = tags
  BY DEF IInv, Types
<1>2. ASSUME NEW i \in 1 .. Len(loaded')
      PROVE  Held(m, (i - 1) * Capacity, loaded'[i].cnst, loaded'[i].offset,
                  loaded'[i].payload)
  <2>1. CASE i \in 1 .. Len(loaded)
    <3>1. Held(mem, (i - 1) * Capacity, loaded[i].cnst, loaded[i].offset,
               loaded[i].payload)
      BY <2>1 DEF Layout, LoadedHeld
    <3>2. Held(m, (i - 1) * Capacity, loaded[i].cnst, loaded[i].offset,
               loaded[i].payload)
      BY <3>1, HeldMore, Zenon
    <3> QED
      BY <1>1, <2>1, <3>2
  <2>2. CASE i = Len(loaded) + 1
    <3>1. i - 1 = Len(loaded) /\ loaded'[i] = tags
      BY <1>1, <2>2
    <3> QED
      BY <3>1, Zenon
  <2>3. i \in 1 .. Len(loaded) \/ i = Len(loaded) + 1
    BY <1>1
  <2> QED
    BY <2>1, <2>2, <2>3
<1> QED
  BY <1>2, Zenon DEF LoadedHeld

\* Nothing is overwritten: the buffer ends where the loop writes.
LEMMA ClearedLayout ==
  ASSUME Layout, call.at = Front
  PROVE  Cleared(call.at) = mem
BY DEF Layout, Cleared

\* The place of a new piece.
LEMMA WrittenFact ==
  ASSUME IInv, Layout, Write
  PROVE  /\ ~Closing /\ call.at = Front /\ Front \in Nat
         /\ Front = Len(loaded) * Capacity + frame.used
         /\ mem \subseteq mem'
         /\ OutBytes > 0 =>
              Has(mem', current.cnst, call.at, OutBytes,
                  Len(loaded) * Capacity + Capacity)
         /\ \A p \in mem' : p \in mem \/ (p = Piece(call.at, OutBits)
                                           /\ OutBits > 0)
         /\ OutBits > 0 => PieceEnd(Piece(call.at, OutBits))
                             <= Len(loaded) * Capacity + Capacity
<1> DEFINE q == Piece(call.at, OutBits)
           syms == (OutBits + current.cnst - 1) \div current.cnst
<1>1. pc = "loop" /\ InOutput /\ ~Closing
  BY WriteFact
<1>2. call.at = Front
  BY <1>1 DEF Layout
<1>3. /\ Len(loaded) * Capacity \in Nat /\ frame.used \in 0 .. Capacity
      /\ Capacity \in Nat /\ current.cnst \in Constellations
  <2>1. Len(loaded) \in Nat /\ Capacity \in Nat
    BY SizesAssumption DEF IInv, Types
  <2>2. frame.used \in 0 .. Capacity /\ current.cnst \in Constellations
    BY DEF IInv, Types, TypeOK
  <2> QED
    BY <2>1, <2>2
<1>4. Front = Len(loaded) * Capacity + frame.used /\ Front \in Nat
  BY <1>1, <1>3 DEF Front
<1>5. /\ OutBits \in Nat /\ OutBytes \in Nat /\ BitsToBytes(OutBits) = OutBytes
      /\ OutBits = 0 <=> OutBytes = 0
      /\ OutBits <= (Capacity - frame.used) * current.cnst
  <2>1. /\ OutBits \in Nat /\ OutBytes \in Nat
        /\ BitsToBytes(OutBits) = OutBytes
        /\ OutBits = 0 <=> OutBytes = 0
        /\ OutBits <= 8 * OutBytes /\ OutBytes <= Available
        /\ Available \in Nat
        /\ 8 * Available <= (Capacity - frame.used) * current.cnst
    BY <1>1, OutFact
  <2>2. (Capacity - frame.used) * current.cnst \in Nat
    BY <1>3 DEF Constellations
  <2> QED
    BY <2>1, <2>2
<1>6. syms \in Nat /\ syms <= Capacity - frame.used
  <2>1. Capacity - frame.used \in Nat
    BY <1>3
  <2> QED
    BY <1>3, <1>5, <2>1, CeilFact
<1>7. q.at = call.at /\ q.cnst = current.cnst /\ q.bits = OutBits
  BY DEF Piece
<1>8. PieceEnd(q) = call.at + syms
  BY <1>7 DEF PieceEnd
<1> HIDE DEF q, syms
<1>9. PieceEnd(q) <= Len(loaded) * Capacity + Capacity
  BY <1>2, <1>3, <1>4, <1>6, <1>8
<1>10. mem' = mem \cup (IF OutBits = 0 THEN {} ELSE {q})
  BY <1>2, ClearedLayout DEF Write, q
<1>11. OutBytes > 0 => Has(mem', current.cnst, call.at, OutBytes,
                           Len(loaded) * Capacity + Capacity)
  <2>1. ASSUME OutBytes > 0
        PROVE  q \in mem'
    BY <1>5, <1>10, <2>1
  <2> QED
    BY <1>5, <1>7, <1>9, <2>1 DEF Has
<1> QED
  BY <1>1, <1>2, <1>4, <1>5, <1>9, <1>10, <1>11 DEF q

\* The frame, its end of a TB and what is written now make a frame that is
\* intact.
LEMMA FilledFact ==
  ASSUME IInv, Layout, Write
  PROVE  LET payload == (frame.used * current.cnst) \div 8 + OutBytes
         IN  /\ frame.used = BytesToSyms(frame.offset, current.cnst)
             /\ frame.payload = frame.offset
             /\ payload = frame.offset + OutBytes
             /\ Held(mem', Len(loaded) * Capacity, current.cnst, frame.offset,
                     payload)
<1> DEFINE base == Len(loaded) * Capacity
           c == current.cnst
           o == frame.offset
           payload == (frame.used * c) \div 8 + OutBytes
<1>1. /\ pc = "loop" /\ InOutput /\ ~Closing
  BY WriteFact
<1>2. /\ c \in Constellations /\ o \in Nat /\ frame.used \in 0 .. Capacity
      /\ Capacity \in Nat /\ frame.payload \in Nat
  BY SizesAssumption DEF IInv, Types, TypeOK
<1>3. frame.used = BytesToSyms(o, c) /\ frame.payload = o
  <2>1. CASE o > 0
    BY <1>1, <2>1 DEF IInv, PartialFrame
  <2>2. CASE o = 0
    <3>1. frame.used = 0 /\ frame.payload = 0
      BY <2>2 DEF IInv, PartialFrame
    <3>2. BytesToSyms(0, c) <= 0 /\ BytesToSyms(0, c) \in Nat
      <4>1. 8 * 0 <= 0 * c
        BY <1>2 DEF Constellations
      <4> QED
        BY <1>2, <4>1, SymsFact
    <3> QED
      BY <2>2, <3>1, <3>2
  <2> QED
    BY <1>2, <2>1, <2>2
<1>4. /\ (frame.used * c) \div 8 = o /\ 8 * o <= frame.used * c
  BY <1>2, <1>3, SymsFact
<1>5. /\ OutBytes \in Nat /\ 8 * OutBytes <= (Capacity - frame.used) * c
  <2>1. /\ OutBytes \in Nat /\ OutBytes <= Available /\ Available \in Nat
        /\ 8 * Available <= (Capacity - frame.used) * c
    BY <1>1, OutFact
  <2>2. (Capacity - frame.used) * c \in Nat
    BY <1>2 DEF Constellations
  <2> QED
    BY <2>1, <2>2
<1>6. payload = o + OutBytes /\ payload \in Nat
  BY <1>2, <1>4, <1>5
<1>7. payload <= FrameLen(c)
  <2>1. frame.used * c + (Capacity - frame.used) * c = Capacity * c
        /\ frame.used * c \in Nat /\ (Capacity - frame.used) * c \in Nat
        /\ Capacity * c \in Nat
    BY <1>2 DEF Constellations
  <2>2. 8 * payload <= Capacity * c
    BY <1>2, <1>4, <1>5, <1>6, <2>1
  <2> HIDE DEF payload
  <2> QED
    BY <1>6, <2>1, <2>2 DEF FrameLen
<1>8. /\ mem \subseteq mem' /\ call.at = base + frame.used
      /\ OutBytes > 0 => Has(mem', c, call.at, OutBytes, base + Capacity)
  BY WrittenFact
<1>9. o > 0 => Has(mem', c, base, o, base + Capacity)
  <2>1. o > 0 => Held(mem, base, c, o, frame.payload)
    BY DEF Layout
  <2>2. o > 0 => Has(mem, c, base, o, base + Capacity)
    BY <2>1 DEF Held
  <2> QED
    BY <1>8, <2>2 DEF Has
<1>10. payload > o => Has(mem', c, base + BytesToSyms(o, c), payload - o,
                          base + Capacity)
  <2>1. payload - o = OutBytes /\ (payload > o => OutBytes > 0)
    BY <1>2, <1>5, <1>6
  <2> HIDE DEF payload, o, c, base
  <2> QED
    BY <1>3, <1>8, <2>1
<1> HIDE DEF payload
<1>11. Held(mem', base, c, o, payload)
  BY <1>7, <1>9, <1>10 DEF Held
<1> QED
  BY <1>3, <1>6, <1>11 DEF payload

LEMMA FillFrameLayout ==
  ASSUME IInv, Layout, FillFrame
  PROVE  Layout'
<1> DEFINE base == Len(loaded) * Capacity
           payload == (frame.used * current.cnst) \div 8 + OutBytes
           tags == Tags(current, payload)
<1>1. /\ pc = "loop" /\ pc' = pc /\ ~call.wait /\ ~Closing
      /\ UNCHANGED <<bounds, arrived, air>>
  BY WriteFact DEF FillFrame
<1>2. /\ loaded' = Append(loaded, tags) /\ frame' = NewFrame
      /\ call' = [call EXCEPT !.at = @ + Capacity - frame.used]
      /\ Write
  BY DEF FillFrame
<1>3. frame'.offset = 0 /\ frame'.used = 0
  BY <1>2 DEF NewFrame
<1>4. call'.at = call.at + Capacity - frame.used /\ call'.wait = call.wait
  <2>1. call \in CallSet
    BY DEF IInv, Types
  <2> QED
    BY <1>2, <2>1 DEF CallSet
<1>5. tags.cnst = current.cnst /\ tags.offset = frame.offset
      /\ tags.payload = payload
  BY DEF Tags
<1>6. Held(mem', base, tags.cnst, tags.offset, tags.payload)
  BY <1>2, <1>5, FilledFact
<1> HIDE DEF tags, payload
<1>7. /\ call.at = Front /\ Front \in Nat /\ Front = base + frame.used
      /\ mem \subseteq mem'
      /\ \A p \in mem' : p \in mem \/ (p = Piece(call.at, OutBits)
                                        /\ OutBits > 0)
      /\ OutBits > 0 => PieceEnd(Piece(call.at, OutBits)) <= base + Capacity
  BY <1>2, WrittenFact
<1>8. LoadedHeld'
  BY <1>2, <1>6, <1>7, AppendLayout
<1>9. /\ base \in Nat /\ Capacity \in Nat /\ frame.used \in 0 .. Capacity
      /\ Len(loaded) \in Nat /\ Len(loaded') = Len(loaded) + 1
      /\ Len(loaded') * Capacity = base + Capacity
      /\ (Len(loaded') + 1) * Capacity = base + Capacity + Capacity
  <2>1. Len(loaded) \in Nat /\ Capacity \in Nat
        /\ Len(loaded') = Len(loaded) + 1
    BY <1>2, SizesAssumption DEF IInv, Types
  <2>2. frame.used \in 0 .. Capacity
    BY DEF IInv, Types, TypeOK
  <2> QED
    BY <2>1, <2>2
<1>10. Front' = (IF Closing' THEN (Len(loaded') + 1) * Capacity
                             ELSE Len(loaded') * Capacity + frame'.used)
  BY DEF Front
<1> HIDE DEF base
<1>11. /\ ~Closing' => Front' = base + Capacity
       /\ base + Capacity <= Front'
  <2>1. base + Capacity + 0 = base + Capacity
    BY <1>9
  <2> QED
    BY <1>3, <1>9, <1>10, <2>1
<1>12. call'.at = base + Capacity
  BY <1>4, <1>7, <1>9
<1>13. ASSUME NEW p \in mem'
       PROVE  PieceEnd(p) <= Front'
  <2>1. Front' \in Nat
    <3>1. base + Capacity + 0 \in Nat /\ base + Capacity + Capacity \in Nat
      BY <1>9
    <3> QED
      BY <1>3, <1>9, <1>10, <3>1
  <2>2. PieceEnd(p) <= base + Capacity /\ PieceEnd(p) \in Int
    <3>1. p \in PieceSet
      BY <1>2, WriteFact
    <3>2. PieceEnd(p) \in Nat
      BY <3>1, PieceEndFact
    <3>3. CASE p \in mem
      <4>1. PieceEnd(p) <= Front
        BY <3>3 DEF Layout
      <4> QED
        BY <1>7, <1>9, <3>2, <4>1
    <3>4. CASE p = Piece(call.at, OutBits) /\ OutBits > 0
      BY <1>7, <3>2, <3>4
    <3> QED
      BY <1>7, <3>3, <3>4
  <2> QED
    BY <1>9, <1>11, <2>1, <2>2
<1>14. FramesIntact'
  BY <1>1 DEF Layout, FramesIntact
<1> QED
  BY <1>1, <1>3, <1>4, <1>8, <1>11, <1>12, <1>13, <1>14 DEF Layout

LEMMA LeaveRoomLayout ==
  ASSUME IInv, Layout, LeaveRoom
  PROVE  Layout'
<1> DEFINE base == Len(loaded) * Capacity
           c == current.cnst
           syms == BytesToSyms(OutBytes, c)
           first == frame.offset = 0
           q == Piece(call.at, OutBits)
<1>1. /\ pc = "loop" /\ pc' = pc /\ ~call.wait /\ ~Closing /\ InOutput
      /\ UNCHANGED <<bounds, arrived, current, action, air>>
      /\ tb'.size = tb.size /\ tb'.sent = tb.sent + OutBits
      /\ usedFrames' = usedFrames + 1
  BY WriteFact DEF LeaveRoom
<1>2. /\ Write /\ loaded' = loaded /\ OutBytes < Available
      /\ frame' = [offset |-> IF first THEN OutBytes ELSE frame.offset,
                   payload |-> frame.payload + OutBytes,
                   used |-> IF first THEN syms ELSE frame.offset + syms]
      /\ call' = [call EXCEPT !.at = @ + (IF first THEN syms
                                          ELSE frame.offset + syms)]
  BY DEF LeaveRoom
<1>3. /\ OutBytes \in Nat \ {0} /\ OutBits \in Nat
      /\ OutBits = tb.size - tb.sent /\ OutBits <= 8 * OutBytes
      /\ c \in Constellations
  BY <1>1, <1>2, OutFact DEF IInv, Types, TypeOK
<1>4. ~Closing' => first
  <2>1. ~first => usedFrames' = 1
    <3>1. frame.offset \in Nat
      BY DEF IInv, Types, TypeOK
    <3>2. ~first => usedFrames = 0
      BY <1>1, <3>1 DEF IInv, Turns
    <3> QED
      BY <1>1, <3>2
  <2>2. TbReady'
    BY <1>1, <1>3 DEF TbReady, IInv, Types, TypeOK
  <2> QED
    BY <1>1, <2>1, <2>2 DEF Closing, InOutput
<1>5. /\ frame'.offset = (IF first THEN OutBytes ELSE frame.offset)
      /\ frame'.payload = frame.payload + OutBytes
      /\ first => frame'.used = syms
  BY <1>2
<1>6. call'.wait = call.wait /\ (first => call'.at = call.at + syms)
  <2>1. call \in CallSet
    BY DEF IInv, Types
  <2> QED
    BY <1>2, <2>1 DEF CallSet
<1>7. /\ call.at = Front /\ Front \in Nat /\ Front = base + frame.used
      /\ mem \subseteq mem'
      /\ Has(mem', c, call.at, OutBytes, base + Capacity)
      /\ \A p \in mem' : p \in mem \/ (p = q /\ OutBits > 0)
      /\ OutBits > 0 => PieceEnd(q) <= base + Capacity
  BY <1>2, <1>3, WrittenFact
<1>8. /\ frame.used = BytesToSyms(frame.offset, c)
      /\ frame.payload = frame.offset
      /\ Held(mem', base, c, frame.offset, frame.offset + OutBytes)
  BY <1>2, FilledFact
<1>9. /\ base \in Nat /\ Capacity \in Nat /\ frame.used \in 0 .. Capacity
      /\ Len(loaded) \in Nat
      /\ (Len(loaded) + 1) * Capacity = base + Capacity
      /\ frame.offset \in Nat
  <2>1. Len(loaded) \in Nat /\ Capacity \in Nat
    BY SizesAssumption DEF IInv, Types
  <2>2. frame.used \in 0 .. Capacity /\ frame.offset \in Nat
    BY DEF IInv, Types, TypeOK
  <2> QED
    BY <2>1, <2>2
<1>10. first => frame.used = 0
  BY DEF IInv, PartialFrame
<1>11. LoadedHeld'
  <2>1. ASSUME NEW i \in 1 .. Len(loaded)
        PROVE  Held(mem', (i - 1) * Capacity, loaded[i].cnst,
                    loaded[i].offset, loaded[i].payload)
    <3>1. Held(mem, (i - 1) * Capacity, loaded[i].cnst, loaded[i].offset,
               loaded[i].payload)
      BY DEF Layout, LoadedHeld
    <3> QED
      BY <1>7, <3>1, HeldMore, Zenon
  <2> QED
    BY <1>2, <2>1 DEF LoadedHeld
<1>12. Held(mem', base, c, frame'.offset, frame'.payload)
  <2>1. CASE ~first
    BY <1>5, <1>8, <2>1
  <2>2. CASE first
    <3>1. frame'.offset = OutBytes /\ frame'.payload = OutBytes
      <4>1. 0 + OutBytes = OutBytes
        BY <1>3
      <4> QED
        BY <1>5, <1>8, <2>2, <4>1
    <3>2. OutBytes <= FrameLen(c)
      <4>1. frame.offset + OutBytes = OutBytes
        BY <1>3, <2>2
      <4> QED
        BY <1>8, <4>1 DEF Held
    <3>3. call.at = base
      BY <1>7, <1>9, <1>10, <2>2
    <3>4. ~(OutBytes > OutBytes)
      BY <1>3
    <3>5. Has(mem', c, base, OutBytes, base + Capacity)
      BY <1>7, <3>3, Zenon
    <3>6. Held(mem', base, c, OutBytes, OutBytes)
      BY <3>2, <3>4, <3>5, Zenon DEF Held
    <3> QED
      BY <3>1, <3>6, Zenon
  <2> QED
    BY <2>1, <2>2
<1> HIDE DEF base, syms
<1>13. syms \in Nat /\ 8 * OutBytes <= syms * c
  BY <1>3, SymsFact DEF syms
<1>14. Front' = (IF Closing' THEN (Len(loaded') + 1) * Capacity
                             ELSE Len(loaded') * Capacity + frame'.used)
  BY DEF Front
<1>15. /\ ~Closing' => Front' = base + syms
       /\ Closing' => Front' = base + Capacity
  <2>1. Len(loaded') = Len(loaded)
    BY <1>2
  <2>2. Closing' => Front' = base + Capacity
    BY <1>9, <1>14, <2>1
  <2>3. ~Closing' => Front' = base + frame'.used
    BY <1>14, <2>1 DEF base
  <2>4. ~Closing' => frame'.used = syms
    BY <1>4, <1>5
  <2> QED
    BY <2>2, <2>3, <2>4
<1>16. ~Closing' => call'.at = Front'
  <2>1. first => call.at = base
    BY <1>7, <1>9, <1>10
  <2>2. ~Closing' => call'.at = call.at + syms /\ call.at = base
    BY <1>4, <1>6, <2>1
  <2> QED
    BY <1>15, <2>2
<1>17. ASSUME NEW p \in mem'
       PROVE  PieceEnd(p) <= Front'
  <2>1. p \in PieceSet
    BY <1>2, WriteFact
  <2>2. PieceEnd(p) \in Nat
    BY <2>1, PieceEndFact
  <2>3. CASE p \in mem
    <3>1. PieceEnd(p) <= base + frame.used
      BY <1>7, <2>3 DEF Layout
    <3>2. CASE Closing'
      BY <1>9, <1>15, <2>2, <3>1, <3>2
    <3>3. CASE ~Closing'
      BY <1>4, <1>9, <1>10, <1>13, <1>15, <2>2, <3>1, <3>3
    <3> QED
      BY <3>2, <3>3
  <2>4. CASE p = q /\ OutBits > 0
    <3>1. CASE Closing'
      BY <1>7, <1>15, <2>4, <3>1
    <3>2. CASE ~Closing'
      <4> DEFINE need == (OutBits + c - 1) \div c
      <4>1. need <= syms /\ need \in Nat
        <5>1. OutBits <= syms * c
          <6>1. syms * c \in Nat
            BY <1>3, <1>13 DEF Constellations
          <6> QED
            BY <1>3, <1>13, <6>1
        <5> QED
          BY <1>3, <1>13, <5>1, CeilFact
      <4>2. PieceEnd(q) = call.at + need
        BY DEF Piece, PieceEnd
      <4> HIDE DEF need, q
      <4>3. call.at = base
        BY <1>4, <1>7, <1>9, <1>10, <3>2
      <4> QED
        BY <1>9, <1>13, <1>15, <2>4, <3>2, <4>1, <4>2, <4>3
    <3> QED
      BY <3>1, <3>2
  <2> QED
    BY <1>7, <2>3, <2>4
<1>18. FramesIntact'
  BY <1>1 DEF Layout, FramesIntact
<1> QED
  BY <1>1, <1>2, <1>6, <1>11, <1>12, <1>16, <1>17, <1>18 DEF Layout, base

LEMMA FinalizedLayout ==
  ASSUME IInv, Layout, pc = "loop", ~call.wait,
         Finalize(current), call' = [call EXCEPT !.at = AfterFinalize],
         UNCHANGED <<streamVars, radioVars, usedFrames, tb, empty, mem, pc,
                     air>>
  PROVE  Layout'
<1> DEFINE base == Len(loaded) * Capacity
           tags == Tags(current, frame.payload)
<1>1. /\ UNCHANGED <<bounds, arrived, current, mem, pc, air>>
      /\ loaded' = Append(loaded, tags) /\ action' = "input"
      /\ frame' = NewFrame
  BY DEF streamVars, radioVars, Finalize
<1>2. /\ tags.cnst = current.cnst /\ tags.offset = frame.offset
      /\ tags.payload = frame.payload
  BY DEF Tags
<1>3. Held(mem, base, current.cnst, frame.offset, frame.payload)
  <2>1. CASE frame.offset > 0
    BY <2>1 DEF Layout
  <2>2. CASE ~(frame.offset > 0)
    <3>1. frame.offset = 0 /\ frame.payload = 0
      BY <2>2 DEF IInv, Types, TypeOK, PartialFrame
    <3>2. current.cnst \in Constellations
      BY DEF IInv, Types, TypeOK
    <3> QED
      BY <3>1, <3>2, HeldEmpty
  <2> QED
    BY <2>1, <2>2
<1> HIDE DEF tags
<1>4. LoadedHeld'
  BY <1>1, <1>2, <1>3, AppendLayout
<1>5. /\ base \in Nat /\ Capacity \in Nat /\ frame.used \in 0 .. Capacity
      /\ Len(loaded) \in Nat /\ Len(loaded') = Len(loaded) + 1
      /\ Len(loaded') * Capacity = base + Capacity
      /\ AfterFinalize = base + Capacity
  <2>1. Len(loaded) \in Nat /\ Capacity \in Nat
        /\ Len(loaded') = Len(loaded) + 1
    BY <1>1, SizesAssumption DEF IInv, Types
  <2>2. frame.used \in 0 .. Capacity
    BY DEF IInv, Types, TypeOK
  <2> QED
    BY <2>1, <2>2 DEF AfterFinalize
<1>6. frame'.used = 0 /\ frame'.offset = 0
  BY <1>1 DEF NewFrame
<1>7. ~Closing'
  BY <1>1 DEF Closing
<1>8. Front' = base + Capacity
  <2>1. Front' = Len(loaded') * Capacity + frame'.used
    BY <1>7 DEF Front
  <2> HIDE DEF base
  <2> QED
    BY <1>5, <1>6, <2>1
<1>9. call'.at = Front' /\ call'.wait = call.wait
  <2>1. call \in CallSet
    BY DEF IInv, Types
  <2> QED
    BY <1>5, <1>8, <2>1 DEF CallSet
<1>10. ASSUME NEW p \in mem'
       PROVE  PieceEnd(p) <= Front'
  <2>1. p \in mem /\ p \in PieceSet
    BY <1>1 DEF IInv, Types
  <2>2. PieceEnd(p) \in Nat /\ PieceEnd(p) <= Front
    BY <2>1, PieceEndFact DEF Layout
  <2>3. Front = (IF Closing THEN base + Capacity ELSE base + frame.used)
    <3>1. (Len(loaded) + 1) * Capacity = base + Capacity
      BY <1>5
    <3> QED
      BY <3>1 DEF Front
  <2> HIDE DEF base
  <2> QED
    BY <1>5, <1>8, <2>2, <2>3
<1>11. FramesIntact'
  BY <1>1 DEF Layout, FramesIntact
<1> QED
  BY <1>1, <1>4, <1>6, <1>7, <1>9, <1>10, <1>11 DEF Layout

LEMMA OutputDoneLayout ==
  ASSUME IInv, Layout, OutputDone
  PROVE  Layout'
<1>1. /\ pc = "loop" /\ ~call.wait
      /\ UNCHANGED <<streamVars, radioVars, usedFrames, tb, empty, mem, pc,
                     air>>
  BY DEF OutputDone, InLoop
<1>2. CASE Finalizes
  <2>1. /\ Finalize(current)
        /\ call' = [call EXCEPT !.at = AfterFinalize]
    BY <1>2 DEF OutputDone
  <2> QED
    BY <1>1, <2>1, FinalizedLayout
<1>3. CASE ~Finalizes
  <2>1. /\ action' = "input"
        /\ UNCHANGED <<bounds, arrived, current, frame, loaded, mem, pc, call,
                       air>>
    BY <1>1, <1>3 DEF OutputDone, streamVars, radioVars
  <2>2. ~Closing /\ ~Closing'
    BY <1>3, <2>1 DEF Finalizes, Closing
  <2> QED
    BY <1>1, <2>1, <2>2, QuietLayout DEF Layout
<1> QED
  BY <1>2, <1>3

LEMMA FinalizeFrameLayout ==
  ASSUME IInv, Layout, FinalizeFrame
  PROVE  Layout'
BY FinalizedLayout DEF FinalizeFrame, InLoop

\* A call does not end in a partial frame: there would be input to go on with.
LEMMA LeaveLoopLayout ==
  ASSUME IInv, Layout, LeaveLoop
  PROVE  Layout'
<1>1. /\ pc = "loop" /\ pc' = "idle"
      /\ UNCHANGED <<bounds, arrived, current, frame, action, usedFrames, tb>>
      /\ action = "input" \/ InOutput
  BY LeaveLoopFact
<1>2. frame.offset = 0
  <2>1. CASE call.wait
    BY <2>1 DEF Layout
  <2>2. CASE action = "input" /\ ReadTo = call.seen
    <3>1. call.seen = arrived /\ arrived \in Nat /\ frame.offset \in Nat
      BY <1>1 DEF IInv, Reading, Types, TypeOK
    <3>2. ~(frame.offset > 0)
      BY <2>2, <3>1 DEF IInv, Turns
    <3> QED
      BY <3>1, <3>2
  <2> QED
    BY <2>1, <2>2 DEF LeaveLoop
<1>3. ~Closing /\ ~Closing'
  BY <1>1 DEF Closing, InOutput, TbReady
<1>4. CASE loaded = <<>>
  <2>1. UNCHANGED <<loaded, mem, air>>
    BY <1>4 DEF LeaveLoop, outVars
  <2> QED
    BY <1>1, <1>2, <1>3, <2>1, QuietLayout DEF Layout
<1>5. CASE loaded # <<>>
  <2>1. Produce(Head(loaded), mem) /\ loaded' = Tail(loaded)
    BY <1>5 DEF LeaveLoop
  <2>2. /\ FramesIntact' /\ LoadedHeld'
        /\ \A p \in mem' : PieceEnd(p) <= Front'
    BY <1>1, <1>3, <1>5, <2>1, ProduceLayout
  <2> QED
    BY <1>1, <1>2, <2>2 DEF Layout
<1> QED
  BY <1>4, <1>5

LEMMA InitLayout == Init => Layout
<1> SUFFICES ASSUME Init PROVE Layout
  OBVIOUS
<1>1. 0 \in bounds
  BY TotalFact DEF Init
<1>2. /\ frame.offset = 0 /\ pc = "idle" /\ mem = {} /\ loaded = <<>>
      /\ air = <<>> /\ arrived = 0
  BY DEF Init, NewFrame
<1>3. LoadedHeld /\ FramesIntact
  BY <1>2 DEF LoadedHeld, FramesIntact
<1> QED
  BY <1>1, <1>2, <1>3 DEF Layout

LEMMA NextLayout ==
  ASSUME WholePdus, IInv, Layout, [Next]_vars
  PROVE  Layout'
BY ArriveLayout, StillLayout, ProduceLoadedLayout, EmptyFrameLayout,
   GiveUpLayout, EnterLoopLayout, FlushLayout, EncodeTbLayout,
   NeverNoWholePdu, FillFrameLayout, LeaveRoomLayout, OutputDoneLayout,
   OutputWaitLayout, FinalizeFrameLayout, LeaveLoopLayout
   DEF Next, BeginCall, Loop

LEMMA LayoutInvariance == WholePdus => (Spec => []Layout)
<1> SUFFICES ASSUME WholePdus PROVE Spec => []Layout
  OBVIOUS
<1>1. IInv /\ Layout /\ [Next]_vars => Layout'
  BY NextLayout
<1> QED
  BY <1>1, InitLayout, Invariance, PTL DEF Spec

\* When the source hands PDUs over whole, a produced frame holds what its
\* header says, for every frame size, code and constellation: no write into
\* the buffer of frames touches what another wrote.
THEOREM FramesIntactCorrect == WholePdus => (Spec => []FramesIntact)
<1>1. Layout => FramesIntact
  BY DEF Layout
<1> QED
  BY <1>1, LayoutInvariance, PTL

-----------------------------------------------------------------------------
(* Every call ends                                                         *)

\* Where the loop is in the making of a frame, as a number that the turns
\* between a TB and the next frame or TB bring down.
Stage ==
  IF call.wait THEN 0
  ELSE CASE action = "final"             -> 1
         [] action = "input"             -> 2
         [] action = "output" /\ TbReady -> 3
         [] OTHER                        -> 4

\* What bounds the turns that a call has left: the frames it may still load,
\* and the input it may still read.
TurnsLeft ==
  5 * (call.nout + 2 - Len(loaded) + (call.seen - ReadTo)) + Stage

\* The conditions under which the loop takes a turn, one for each of them.
SomeTurn ==
  \/ call.wait \/ (action = "input" /\ ReadTo = call.seen)
  \/ Processing /\ (MustFlush \/ NextPayload.read > 0 \/ NextPayload.read = 0)
  \/ InLoop /\ action = "output" /\ (TbReady \/ ~RoomLeft)
  \/ InLoop /\ action = "output" /\ (OutBytes = Available
                                       \/ OutBytes < Available)
  \/ InLoop /\ action = "final"

\* The loop always has a turn to take.
LEMMA TurnFact == ASSUME IInv, pc = "loop" PROVE SomeTurn
<1>1. CASE call.wait
  BY <1>1 DEF SomeTurn
<1>2. CASE ~call.wait /\ action = "final"
  BY <1>2 DEF SomeTurn, InLoop
<1>3. CASE ~call.wait /\ action = "input"
  <2>1. ReadTo <= call.seen /\ ReadTo \in Nat /\ call.seen \in Nat
    BY DEF IInv, Reading, Types, TypeOK, CallSet, ReadTo
  <2>2. CASE ReadTo < call.seen
    <3>1. Processing
      BY <1>3, <2>2 DEF Processing, InLoop
    <3>2. NextPayload.read \in Nat
      BY <3>1, NextPayloadFact DEF Sound
    <3> QED
      BY <3>1, <3>2 DEF SomeTurn
  <2>3. CASE ReadTo = call.seen
    BY <1>3, <2>3 DEF SomeTurn
  <2> QED
    BY <2>1, <2>2, <2>3
<1>4. CASE ~call.wait /\ action = "output"
  <2>1. CASE TbReady
    BY <1>4, <2>1 DEF SomeTurn, InLoop
  <2>2. CASE ~TbReady
    <3>1. OutBytes \in Nat /\ Available \in Nat /\ OutBytes <= Available
      BY <1>4, <2>2, OutFact DEF InOutput
    <3> QED
      BY <1>4, <3>1 DEF SomeTurn, InLoop
  <2> QED
    BY <2>1, <2>2
<1> QED
  BY <1>1, <1>2, <1>3, <1>4 DEF IInv, Types, TypeOK

LEMMA StageFact ==
  ASSUME IInv
  PROVE  /\ Stage \in 0 .. 4
         /\ call.wait => Stage = 0
         /\ ~call.wait /\ action = "final" => Stage = 1
         /\ ~call.wait /\ action = "input" => Stage = 2
         /\ ~call.wait /\ action = "output" /\ TbReady => Stage = 3
         /\ ~call.wait /\ action = "output" /\ ~TbReady => Stage = 4
<1>1. call.wait \in BOOLEAN /\ action \in {"input", "output", "final"}
  BY DEF IInv, Types, TypeOK, CallSet
<1> QED
  BY <1>1 DEF Stage

\* The bound is one.
LEMMA TurnsNat ==
  ASSUME IInv, pc = "loop"
  PROVE  /\ call.nout + 2 - Len(loaded) \in Nat
         /\ call.seen - ReadTo \in Nat
         /\ Len(loaded) \in Nat /\ call.nout \in Nat
         /\ call.seen \in Nat /\ ReadTo \in Nat
         /\ TurnsLeft \in Nat
<1>1. /\ Len(loaded) <= call.nout + 2 /\ Len(loaded) \in Nat
      /\ call.nout \in Nat
  BY DEF IInv, Room, Types, CallSet
<1>2. ReadTo <= call.seen /\ ReadTo \in Nat /\ call.seen \in Nat
  BY DEF IInv, Reading, Types, TypeOK, CallSet, ReadTo
<1>3. Stage \in Nat
  BY StageFact
<1> DEFINE a == call.nout + 2 - Len(loaded)
           c == call.seen - ReadTo
<1>4. a \in Nat /\ c \in Nat
  BY <1>1, <1>2
<1>5. TurnsLeft = 5 * (a + c) + Stage
  BY DEF TurnsLeft
<1>6. TurnsLeft \in Nat
  <2> HIDE DEF a, c
  <2> QED
    BY <1>3, <1>4, <1>5
<1> QED
  BY <1>1, <1>2, <1>4, <1>6

\* A turn that loads n frames and reads m bytes, and goes on to another stage.
LEMMA TurnFewer ==
  ASSUME IInv, IInv', pc = "loop", pc' = "loop",
         NEW n \in Nat, NEW m \in Nat,
         Len(loaded') = Len(loaded) + n, ReadTo' = ReadTo + m,
         call'.nout = call.nout, call'.seen = call.seen,
         Stage' < Stage + 5 * (n + m)
  PROVE  TurnsLeft' < TurnsLeft
<1>1. /\ Len(loaded) \in Nat /\ call.nout \in Nat /\ call.seen \in Nat
      /\ ReadTo \in Nat /\ Stage \in Nat /\ Stage' \in Nat
  <2>1. Stage \in Nat /\ Stage' \in Nat
    BY DEF Stage
  <2> QED
    BY <2>1, TurnsNat
<1> DEFINE Turns5(nout, len, seen, to, stage) ==
             5 * (nout + 2 - len + (seen - to)) + stage
<1>2. /\ TurnsLeft = Turns5(call.nout, Len(loaded), call.seen, ReadTo, Stage)
      /\ TurnsLeft' = Turns5(call.nout, Len(loaded) + n, call.seen,
                             ReadTo + m, Stage')
  BY Zenon DEF TurnsLeft
<1>3. \A nout, len, seen, to, s, t \in Nat :
        t < s + 5 * (n + m) =>
          Turns5(nout, len + n, seen, to + m, t) <
            Turns5(nout, len, seen, to, s)
  OBVIOUS
<1> HIDE DEF Turns5
<1> QED
  BY <1>1, <1>2, <1>3, Zenon

LEMMA FlushTurn == IInv /\ IInv' /\ FlushForNewCnst => TurnsLeft' < TurnsLeft
<1> SUFFICES ASSUME IInv, IInv', FlushForNewCnst
             PROVE  TurnsLeft' < TurnsLeft
  OBVIOUS
<1>1. /\ pc = "loop" /\ pc' = "loop" /\ ~call.wait
      /\ action = "input" /\ action' = "final"
      /\ UNCHANGED <<pos, loaded, call>>
  BY DEF FlushForNewCnst, Processing, InLoop, streamVars, outVars
<1>2. Stage = 2 /\ Stage' = 1
  BY <1>1 DEF Stage
<1>3. Len(loaded') = Len(loaded) + 0 /\ ReadTo' = ReadTo + 0
  BY <1>1, TurnsNat DEF ReadTo
<1>4. Stage' < Stage + 5 * (0 + 0)
  BY <1>2
<1> QED
  BY <1>1, <1>3, <1>4, TurnFewer

LEMMA EncodeTbTurn == IInv /\ IInv' /\ EncodeTb => TurnsLeft' < TurnsLeft
<1> SUFFICES ASSUME IInv, IInv', EncodeTb
             PROVE  TurnsLeft' < TurnsLeft
  OBVIOUS
<1>1. /\ pc = "loop" /\ pc' = "loop" /\ pos' = pos /\ loaded' = loaded
      /\ call' = [call EXCEPT !.read = @ + NextPayload.read]
      /\ NextPayload.read > 0
  BY DEF EncodeTb, Processing, InLoop, outVars
<1>2. NextPayload.read \in Nat \ {0}
  BY <1>1, NextPayloadFact DEF Sound, EncodeTb
<1>3. PICK m \in Nat \ {0} : m = NextPayload.read
  BY <1>2, Zenon
<1>4. call \in CallSet /\ pos \in Nat
  BY DEF IInv, Types, TypeOK
<1>5. call'.nout = call.nout /\ call'.seen = call.seen
      /\ call'.read = call.read + m
  BY <1>1, <1>3, <1>4 DEF CallSet
<1>6. ReadTo' = ReadTo + m
  BY <1>1, <1>4, <1>5 DEF ReadTo, CallSet
<1>7. Len(loaded') = Len(loaded) + 0
  BY <1>1, TurnsNat
<1>8. Stage' < Stage + 5 * (0 + m)
  <2>1. Stage \in Nat /\ Stage' \in 0 .. 4
    BY DEF Stage
  <2> QED
    BY <2>1
<1> QED
  BY <1>1, <1>5, <1>6, <1>7, <1>8, TurnFewer

LEMMA NoWholePduTurn == IInv /\ IInv' /\ NoWholePdu => TurnsLeft' < TurnsLeft
<1> SUFFICES ASSUME IInv, IInv', NoWholePdu
             PROVE  TurnsLeft' < TurnsLeft
  OBVIOUS
<1>1. /\ pc = "loop" /\ pc' = "loop" /\ ~call.wait /\ action = "input"
      /\ pos' = pos /\ call' = [call EXCEPT !.wait = TRUE]
      /\ IF usedFrames = 1 THEN Finalize(header) ELSE loaded' = loaded
  BY DEF NoWholePdu, Processing, InLoop, streamVars
<1>2. call \in CallSet /\ pos \in Nat
  BY DEF IInv, Types, TypeOK
<1>3. /\ call'.nout = call.nout /\ call'.seen = call.seen
      /\ call'.read = call.read /\ call'.wait
  BY <1>1, <1>2 DEF CallSet
<1>4. ReadTo' = ReadTo + 0
  BY <1>1, <1>2, <1>3 DEF ReadTo, CallSet
<1>5. Stage = 2 /\ Stage' = 0
  BY <1>1, <1>3 DEF Stage
<1>6. PICK n \in {0, 1} : Len(loaded') = Len(loaded) + n
  <2>1. CASE usedFrames = 1
    <3>1. Finalize(header) /\ header \in [cnst : Constellations,
                                          fec : DOMAIN Codes]
      BY <1>1, <2>1 DEF IInv, Types, TypeOK
    <3> QED
      BY <3>1, FinalizeFact
  <2>2. CASE usedFrames # 1
    BY <1>1, <2>2, TurnsNat
  <2> QED
    BY <2>1, <2>2
<1>7. n \in Nat /\ Stage' < Stage + 5 * (n + 0)
  BY <1>5
<1> QED
  BY <1>1, <1>3, <1>4, <1>6, <1>7, TurnFewer

LEMMA FillFrameTurn == IInv /\ IInv' /\ FillFrame => TurnsLeft' < TurnsLeft
<1> SUFFICES ASSUME IInv, IInv', FillFrame
             PROVE  TurnsLeft' < TurnsLeft
  OBVIOUS
<1>1. pc = "loop" /\ pc' = "loop" /\ pos' = pos
  BY WriteFact DEF FillFrame
<1>2. /\ call' = [call EXCEPT !.at = @ + Capacity - frame.used]
      /\ \E t : loaded' = Append(loaded, t)
  BY DEF FillFrame
<1>3. call \in CallSet /\ pos \in Nat
  BY DEF IInv, Types, TypeOK
<1>4. /\ call'.nout = call.nout /\ call'.seen = call.seen
      /\ call'.read = call.read
  BY <1>2, <1>3 DEF CallSet
<1>5. ReadTo' = ReadTo + 0
  BY <1>1, <1>3, <1>4 DEF ReadTo, CallSet
<1>6. Len(loaded') = Len(loaded) + 1
  <2>1. loaded \in Seq(TagSet)
    BY DEF IInv, Types
  <2> QED
    BY <1>2, <2>1
<1>7. Stage' < Stage + 5 * (1 + 0)
  <2>1. Stage \in Nat /\ Stage' \in 0 .. 4
    BY DEF Stage
  <2> QED
    BY <2>1
<1> QED
  BY <1>1, <1>4, <1>5, <1>6, <1>7, TurnFewer

LEMMA LeaveRoomTurn == IInv /\ IInv' /\ LeaveRoom => TurnsLeft' < TurnsLeft
<1> SUFFICES ASSUME IInv, IInv', LeaveRoom
             PROVE  TurnsLeft' < TurnsLeft
  OBVIOUS
<1>1. /\ pc = "loop" /\ pc' = "loop" /\ pos' = pos /\ ~call.wait
      /\ action = "output" /\ action' = "output" /\ ~TbReady
      /\ tb'.size = tb.size /\ tb'.sent = tb.sent + OutBits
  BY WriteFact DEF LeaveRoom, InOutput
<1>2. /\ \E at : call' = [call EXCEPT !.at = at]
      /\ loaded' = loaded /\ OutBytes < Available
  BY DEF LeaveRoom
<1>3. call \in CallSet /\ pos \in Nat /\ tb \in TbSet
  BY DEF IInv, Types, TypeOK
<1>4. /\ call'.nout = call.nout /\ call'.seen = call.seen
      /\ call'.read = call.read /\ call'.wait = call.wait
  BY <1>2, <1>3 DEF CallSet
<1>5. ReadTo' = ReadTo + 0 /\ Len(loaded') = Len(loaded) + 0
  BY <1>1, <1>2, <1>3, <1>4, TurnsNat DEF ReadTo, CallSet
<1>6. TbReady'
  <2>1. OutBits = tb.size - tb.sent
    BY <1>1, <1>2, OutFact DEF InOutput
  <2>2. tb.size \in Nat /\ tb.sent \in Nat
    BY <1>3 DEF TbSet
  <2> QED
    BY <1>1, <2>1, <2>2 DEF TbReady
<1>7. Stage = 4 /\ Stage' = 3
  BY <1>1, <1>4, <1>6 DEF Stage
<1>8. Stage' < Stage + 5 * (0 + 0)
  BY <1>7
<1> QED
  BY <1>1, <1>4, <1>5, <1>8, TurnFewer

\* A frame that is finalized, or left for another TB.
LEMMA OutputDoneTurn == IInv /\ IInv' /\ OutputDone => TurnsLeft' < TurnsLeft
<1> SUFFICES ASSUME IInv, IInv', OutputDone
             PROVE  TurnsLeft' < TurnsLeft
  OBVIOUS
<1>1. /\ pc = "loop" /\ pc' = "loop" /\ pos' = pos /\ ~call.wait
      /\ action = "output" /\ TbReady /\ action' = "input"
      /\ call' = call \/ call' = [call EXCEPT !.at = AfterFinalize]
      /\ Finalize(current) \/ loaded' = loaded
  BY DEF OutputDone, InLoop, Finalize, streamVars
<1>2. call \in CallSet /\ pos \in Nat
  BY DEF IInv, Types, TypeOK
<1>3. /\ call'.nout = call.nout /\ call'.seen = call.seen
      /\ call'.read = call.read /\ call'.wait = call.wait
  BY <1>1, <1>2 DEF CallSet
<1>4. ReadTo' = ReadTo + 0
  BY <1>1, <1>2, <1>3 DEF ReadTo, CallSet
<1>5. Stage = 3 /\ Stage' = 2
  BY <1>1, <1>3 DEF Stage
<1>6. PICK n \in {0, 1} : Len(loaded') = Len(loaded) + n
  <2>1. CASE Finalize(current)
    <3>1. current \in [cnst : Constellations, fec : DOMAIN Codes]
      BY DEF IInv, Types, TypeOK
    <3> QED
      BY <2>1, <3>1, FinalizeFact
  <2>2. CASE loaded' = loaded
    BY <1>1, <2>2, TurnsNat
  <2> QED
    BY <1>1, <2>1, <2>2
<1>7. n \in Nat /\ Stage' < Stage + 5 * (n + 0)
  BY <1>5
<1> QED
  BY <1>1, <1>3, <1>4, <1>6, <1>7, TurnFewer

LEMMA OutputWaitTurn == IInv /\ IInv' /\ OutputWait => TurnsLeft' < TurnsLeft
<1> SUFFICES ASSUME IInv, IInv', OutputWait
             PROVE  TurnsLeft' < TurnsLeft
  OBVIOUS
<1>1. /\ pc = "loop" /\ pc' = "loop" /\ pos' = pos /\ loaded' = loaded
      /\ ~call.wait /\ action = "output" /\ ~TbReady
      /\ call' = [call EXCEPT !.wait = TRUE]
  BY DEF OutputWait, InLoop, streamVars, outVars
<1>2. call \in CallSet /\ pos \in Nat
  BY DEF IInv, Types, TypeOK
<1>3. /\ call'.nout = call.nout /\ call'.seen = call.seen
      /\ call'.read = call.read /\ call'.wait
  BY <1>1, <1>2 DEF CallSet
<1>4. ReadTo' = ReadTo + 0 /\ Len(loaded') = Len(loaded) + 0
  BY <1>1, <1>2, <1>3, TurnsNat DEF ReadTo, CallSet
<1>5. Stage = 4 /\ Stage' = 0
  BY <1>1, <1>3 DEF Stage
<1>6. Stage' < Stage + 5 * (0 + 0)
  BY <1>5
<1> QED
  BY <1>1, <1>3, <1>4, <1>6, TurnFewer

LEMMA FinalizeFrameTurn ==
  IInv /\ IInv' /\ FinalizeFrame => TurnsLeft' < TurnsLeft
<1> SUFFICES ASSUME IInv, IInv', FinalizeFrame
             PROVE  TurnsLeft' < TurnsLeft
  OBVIOUS
<1>1. /\ pc = "loop" /\ pc' = "loop" /\ pos' = pos /\ ~call.wait
      /\ action = "final"
      /\ call' = [call EXCEPT !.at = AfterFinalize]
      /\ Finalize(current)
  BY DEF FinalizeFrame, InLoop, streamVars
<1>2. /\ call \in CallSet /\ pos \in Nat
      /\ current \in [cnst : Constellations, fec : DOMAIN Codes]
  BY DEF IInv, Types, TypeOK
<1>3. /\ call'.nout = call.nout /\ call'.seen = call.seen
      /\ call'.read = call.read
  BY <1>1, <1>2 DEF CallSet
<1>4. ReadTo' = ReadTo + 0
  BY <1>1, <1>2, <1>3 DEF ReadTo, CallSet
<1>5. Len(loaded') = Len(loaded) + 1
  BY <1>1, <1>2, FinalizeFact
<1>6. Stage' < Stage + 5 * (1 + 0)
  <2>1. Stage \in Nat /\ Stage' \in 0 .. 4
    BY DEF Stage
  <2> QED
    BY <2>1
<1> QED
  BY <1>1, <1>3, <1>4, <1>5, <1>6, TurnFewer

\* Nothing downstream moves during a call: its frame is passed on only when
\* it has ended.
Quiet == pc = "loop" => air = <<>>

LEMMA QuietInvariance == Spec => []Quiet
<1>1. Init => Quiet
  BY DEF Init, Quiet
<1>2. Quiet /\ [Next]_vars => Quiet'
  <2> SUFFICES ASSUME Quiet, [Next]_vars PROVE Quiet'
    OBVIOUS
  <2>1. CASE Arrive \/ ProcessFeedbackHeader \/ PassOn \/ UNCHANGED vars
    BY <2>1 DEF Quiet, Arrive, ProcessFeedbackHeader, PassOn, vars
  <2>2. CASE BeginCall
    BY <2>2 DEF Quiet, BeginCall, ProduceLoaded, EmptyFrame, GiveUp,
       EnterLoop, NoInput, Called
  <2>3. CASE FlushForNewCnst \/ EncodeTb \/ NoWholePdu \/ OutputDone
             \/ OutputWait \/ FinalizeFrame
    BY <2>3 DEF Quiet, FlushForNewCnst, EncodeTb, NoWholePdu, OutputDone,
       OutputWait, FinalizeFrame
  <2>4. CASE FillFrame \/ LeaveRoom
    BY <2>4 DEF Quiet, FillFrame, LeaveRoom, Write
  <2>5. CASE LeaveLoop
    BY <2>5 DEF Quiet, LeaveLoop
  <2> QED
    BY <2>1, <2>2, <2>3, <2>4, <2>5 DEF Next, Loop
<1> QED
  BY <1>1, <1>2, PTL DEF Spec

\* A step within a call is a turn of its loop, and brings its bound down.
LEMMA TurnStep ==
  IInv /\ IInv' /\ Quiet /\ Next /\ pc = "loop" /\ pc' = "loop"
    => TurnsLeft' < TurnsLeft
<1> SUFFICES ASSUME IInv, IInv', Quiet, Next, pc = "loop", pc' = "loop"
             PROVE  TurnsLeft' < TurnsLeft
  OBVIOUS
<1>1. Loop /\ ~LeaveLoop
  BY DEF Quiet, Next, Arrive, ProcessFeedbackHeader, PassOn, BeginCall,
     ProduceLoaded, EmptyFrame, GiveUp, EnterLoop, NoInput, Called, LeaveLoop
<1> QED
  BY <1>1, FlushTurn, EncodeTbTurn, NoWholePduTurn, FillFrameTurn,
     LeaveRoomTurn, OutputDoneTurn, OutputWaitTurn, FinalizeFrameTurn DEF Loop

\* Every turn within a call brings the bound on the turns it has left down.
TurnsDecrease ==
  [][(pc = "loop" /\ pc' = "loop") => TurnsLeft' < TurnsLeft]_vars

\* The loop of general_work always has a turn to take and never takes more
\* than TurnsLeft, a number: what CallsEnd rests on besides the fairness of
\* the scheduler, for every stream, code, frame size and noutput_items.
THEOREM CallsBounded ==
  Spec => TurnsDecrease /\ [](pc = "loop" => SomeTurn /\ TurnsLeft \in Nat)
<1>1. IInv => (pc = "loop" => SomeTurn /\ TurnsLeft \in Nat)
  BY TurnFact, TurnsNat
<1>2. IInv /\ IInv' /\ Quiet /\ [Next]_vars =>
        [(pc = "loop" /\ pc' = "loop") => TurnsLeft' < TurnsLeft]_vars
  BY TurnStep
<1> QED
  BY <1>1, <1>2, Invariance, QuietInvariance, PTL DEF Spec, TurnsDecrease
=============================================================================
