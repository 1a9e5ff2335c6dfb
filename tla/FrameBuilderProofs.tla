------------------------- MODULE FrameBuilderProofs -------------------------
(***************************************************************************)
(* What holds of the framer of the plain link for every frame size, CRC,   *)
(* set of streams, and limit of empty frames.                              *)
(***************************************************************************)
EXTENDS FrameBuilder, PduStreamProofs

\* The end of a stream of the configuration.
LEMMA TotalFact ==
  ASSUME NEW B \in Streams
  PROVE  /\ B \subseteq Nat /\ 0 \in B
         /\ Total(B) \in B /\ Total(B) \in Nat
         /\ \A b \in B : b <= Total(B)
<1>1. IsStream(B) /\ \E t \in B : \A b \in B : b <= t
  BY StreamsAssumption
<1>2. /\ B \subseteq Nat /\ 0 \in B
      /\ Total(B) \in B
      /\ \A b \in B : b <= Total(B)
  BY <1>1, Zenon DEF IsStream, Total
<1> QED
  BY <1>2, Zenon

\* The user bytes of a frame, in a constellation the framer may be in.
LEMMA FrameInBytesFact ==
  ASSUME NEW c \in Cnsts \cup {1}
  PROVE  /\ c \in 1 .. 4
         /\ FrameInBytes(c) \in Nat \ {0}
         /\ 8 * (FrameInBytes(c) + CrcLen) <= Capacity * c
<1>1. c \in 1 .. 4 /\ Capacity \in Nat /\ CrcLen \in Nat /\ FrameInBytes(c) > 0
  BY FrameAssumption
<1>2. Capacity * c \in Nat
  BY <1>1
<1>3. \A n \in Nat : n \div 8 \in Nat /\ 8 * (n \div 8) <= n
  OBVIOUS
<1>4. FrameInBytes(c) = (Capacity * c) \div 8 - CrcLen
  BY DEF FrameInBytes
<1> DEFINE n == Capacity * c
<1> HIDE DEF n
<1>5. n \div 8 \in Nat /\ 8 * (n \div 8) <= n
  BY <1>2, <1>3 DEF n
<1>6. FrameInBytes(c) = n \div 8 - CrcLen
  BY <1>4 DEF n
<1> DEFINE m == n \div 8
<1> HIDE DEF m
<1>7. m \in Nat /\ 8 * m <= n /\ FrameInBytes(c) = m - CrcLen
  BY <1>5, <1>6 DEF m
<1>8. FrameInBytes(c) \in Nat \ {0} /\ FrameInBytes(c) + CrcLen = m
  BY <1>1, <1>7
<1>9. 8 * (FrameInBytes(c) + CrcLen) <= n
  BY <1>7, <1>8
<1> QED
  BY <1>1, <1>8, <1>9 DEF n

\* What is announced of a frame and what it holds.
Announced ==
  \A f \in air :
    /\ f.cnst \in Cnsts \cup {1}
    /\ f.payload \in Nat
    /\ f.payload > 0 => f.to - f.from = f.payload - CrcLen

\* The inductive invariant: the counter of the cut PDU agrees with the tags.
IInv ==
  /\ TypeOK
  /\ remain = Rest(bounds, pos)
  /\ PayloadFits
  /\ Announced

LEMMA InitIInv == Init => IInv
<1> SUFFICES ASSUME Init PROVE IInv
  OBVIOUS
<1>1. 0 \in bounds /\ Total(bounds) \in Nat
  BY TotalFact, Zenon DEF Init
<1>2. Rest(bounds, 0) = 0
  BY <1>1 DEF Rest
<1>3. 0 \in 0 .. (IF MaxEmpty >= 0 THEN MaxEmpty ELSE 0)
  BY LimitAssumption
<1>4. TypeOK
  <2>1. arrived \in 0 .. Total(bounds) /\ pos \in 0 .. arrived /\ remain \in Nat
    BY <1>1 DEF Init
  <2>2. bounds \in Streams /\ cnst \in Cnsts \cup {1} /\ done \in BOOLEAN
    BY Zenon DEF Init
  <2> QED
    BY <1>3, <2>1, <2>2 DEF Init, TypeOK
<1> QED
  BY <1>2, <1>4 DEF Init, IInv, PayloadFits, Announced

\* What one call of the consumer gives in a state of the invariant.
LEMMA NextPayloadFact ==
  ASSUME IInv
  PROVE  /\ FrameInBytes(cnst) \in Nat \ {0}
         /\ Sound(bounds, pos, arrived, FrameInBytes(cnst), NextPayload)
         /\ 8 * (FrameInBytes(cnst) + CrcLen) <= Capacity * cnst
<1>1. bounds \subseteq Nat /\ Total(bounds) \in bounds /\ Total(bounds) \in Nat
  BY TotalFact, Zenon DEF IInv, TypeOK
<1>2. /\ pos \in Nat /\ arrived \in Nat /\ pos <= arrived
      /\ Total(bounds) >= arrived
  BY <1>1 DEF IInv, TypeOK
<1>3. \E b \in bounds : b >= arrived
  BY <1>1, <1>2, Zenon
<1>4. /\ FrameInBytes(cnst) \in Nat \ {0}
      /\ 8 * (FrameInBytes(cnst) + CrcLen) <= Capacity * cnst
  BY FrameInBytesFact, Zenon DEF IInv, TypeOK
<1>5. remain = Rest(bounds, pos)
  BY DEF IInv
<1>6. Sound(bounds, pos, arrived, FrameInBytes(cnst), NextPayload)
  BY <1>1, <1>2, <1>3, <1>4, <1>5, AdvanceFact, Zenon DEF NextPayload
<1> QED
  BY <1>4, <1>6

LEMMA DataFrameIInv == IInv /\ DataFrame => IInv'
<1> SUFFICES ASSUME IInv, DataFrame PROVE IInv'
  OBVIOUS
<1> DEFINE a == NextPayload
           max == FrameInBytes(cnst)
<1>1. /\ max \in Nat \ {0}
      /\ Sound(bounds, pos, arrived, max, a)
      /\ 8 * (max + CrcLen) <= Capacity * cnst
  BY NextPayloadFact, Zenon
<1>2. /\ pos' = pos + a.read /\ remain' = a.remain /\ empty' = 0
      /\ UNCHANGED <<bounds, arrived, cnst, done>>
  BY DEF DataFrame
<1>3. air' = {[cnst |-> cnst, from |-> pos, to |-> pos + a.read,
               payload |-> IF a.read = 0 THEN 0 ELSE a.read + CrcLen]}
  BY DEF DataFrame, Produce
<1> HIDE DEF a, max
<1>4. /\ a.read \in Nat /\ a.read <= max /\ pos + a.read <= arrived
      /\ a.remain = Rest(bounds, pos + a.read) /\ a.remain \in Nat
  BY <1>1 DEF Sound
<1>5. CrcLen \in Nat /\ Capacity \in Nat /\ cnst \in 1 .. 4
  BY FrameAssumption DEF IInv, TypeOK
<1>6. TypeOK'
  <2>1. Total(bounds)' = Total(bounds) /\ Total(bounds) \in Nat
    BY <1>2, TotalFact DEF IInv, TypeOK
  <2>2. pos' \in 0 .. arrived
    BY <1>2, <1>4 DEF IInv, TypeOK
  <2>3. 0 \in 0 .. (IF MaxEmpty >= 0 THEN MaxEmpty ELSE 0)
    BY LimitAssumption
  <2> QED
    BY <1>2, <1>4, <2>1, <2>2, <2>3 DEF IInv, TypeOK
<1>7. (remain = Rest(bounds, pos))'
  BY <1>2, <1>4
<1>8. PayloadFits'
  <2> DEFINE p == IF a.read = 0 THEN 0 ELSE a.read + CrcLen
             room == Capacity * cnst
  <2>1. room \in Nat
    BY <1>5
  <2> HIDE DEF room
  <2>2. 8 * (max + CrcLen) <= room
    BY <1>1 DEF room
  <2>3. 8 * p <= room
    BY <1>1, <1>4, <1>5, <2>1, <2>2
  <2> HIDE DEF p
  <2>4. \A f \in air' : f.payload = p /\ f.cnst = cnst
    BY <1>3 DEF p
  <2> QED
    BY <2>3, <2>4 DEF PayloadFits, room
<1>9. Announced'
  <2> SUFFICES ASSUME NEW f \in air'
               PROVE  /\ f.cnst \in Cnsts \cup {1}
                      /\ f.payload \in Nat
                      /\ f.payload > 0 => f.to - f.from = f.payload - CrcLen
    BY DEF Announced
  <2>1. /\ f.cnst = cnst /\ f.from = pos /\ f.to = pos + a.read
        /\ f.payload = IF a.read = 0 THEN 0 ELSE a.read + CrcLen
    BY <1>3
  <2>2. pos \in Nat /\ cnst \in Cnsts \cup {1}
    BY DEF IInv, TypeOK
  <2> QED
    BY <1>4, <1>5, <2>1, <2>2, SMT
<1> QED
  BY <1>6, <1>7, <1>8, <1>9 DEF IInv

LEMMA EmptyFrameIInv == IInv /\ EmptyFrame => IInv'
<1> SUFFICES ASSUME IInv, EmptyFrame PROVE IInv'
  OBVIOUS
<1>1. empty' \in 0 .. (IF MaxEmpty >= 0 THEN MaxEmpty ELSE 0)
  BY LimitAssumption DEF IInv, TypeOK, EmptyFrame, TooManyEmpty
<1>2. TypeOK'
  BY <1>1 DEF IInv, TypeOK, EmptyFrame, streamVars
<1>3. PayloadFits'
  <2>1. \A f \in air' : f.payload = 0 /\ f.cnst = cnst
    BY DEF EmptyFrame, Produce
  <2>2. Capacity * cnst \in Nat
    BY FrameAssumption DEF IInv, TypeOK
  <2> QED
    BY <2>1, <2>2 DEF PayloadFits
<1>4. Announced'
  <2>1. \A f \in air' : f.payload = 0 /\ f.cnst = cnst
    BY DEF EmptyFrame, Produce
  <2>2. cnst \in Cnsts \cup {1}
    BY DEF IInv, TypeOK
  <2> QED
    BY <2>1, <2>2 DEF Announced
<1> QED
  BY <1>2, <1>3, <1>4 DEF IInv, EmptyFrame, streamVars

LEMMA NextIInv == IInv /\ [Next]_vars => IInv'
<1> SUFFICES ASSUME IInv, [Next]_vars PROVE IInv'
  OBVIOUS
<1>1. CASE Arrive
  <2>1. Total(bounds) \in Nat
    BY TotalFact DEF IInv, TypeOK
  <2> QED
    BY <1>1, <2>1 DEF Arrive, IInv, TypeOK, PayloadFits, Announced,
                       streamVars
<1>2. CASE ProcessFeedbackHeader
  BY <1>2 DEF ProcessFeedbackHeader, IInv, TypeOK, PayloadFits, Announced,
     streamVars
<1>3. CASE PassOn
  BY <1>3 DEF PassOn, IInv, TypeOK, PayloadFits, Announced,
     streamVars
<1>4. CASE EmptyFrame
  BY <1>4, EmptyFrameIInv
<1>5. CASE GiveUp
  BY <1>5 DEF GiveUp, IInv, TypeOK, PayloadFits, Announced,
     streamVars
<1>6. CASE DataFrame
  BY <1>6, DataFrameIInv
<1>7. CASE UNCHANGED vars
  BY <1>7 DEF vars, IInv, TypeOK, PayloadFits, Announced,
     streamVars
<1> QED
  BY <1>1, <1>2, <1>3, <1>4, <1>5, <1>6, <1>7 DEF Next, Work

LEMMA Invariance == Spec => []IInv
BY InitIInv, NextIInv, PTL DEF Spec

\* Types, and never more empty frames in a row than the limit.
THEOREM TypeCorrect == Spec => []TypeOK
<1>1. IInv => TypeOK
  BY DEF IInv
<1> QED
  BY <1>1, Invariance, PTL

\* The payload that a header announces fits in the frame, for every frame
\* size and sequence of constellations.
THEOREM PayloadFitsCorrect == Spec => []PayloadFits
<1>1. IInv => PayloadFits
  BY DEF IInv
<1> QED
  BY <1>1, Invariance, PTL

\* Bytes counted in symbols of 1 to 4 bits, and packed again.
LEMMA PackedFact ==
  ASSUME NEW n \in Nat, NEW bps \in 1 .. 4
  PROVE  UserBytes(Symbols(n, bps), bps) = n - CrcLen
<1>1. CrcLen \in Nat
  BY FrameAssumption
<1> DEFINE m == Symbols(n, bps)
<1>2. m \in Nat /\ (m * bps) \div 8 = n
  <2>1. CASE bps = 1
    BY <2>1, SMT DEF Symbols
  <2>2. CASE bps = 2
    BY <2>2, SMT DEF Symbols
  <2>3. CASE bps = 3
    BY <2>3, SMT DEF Symbols
  <2>4. CASE bps = 4
    BY <2>4, SMT DEF Symbols
  <2> QED
    BY <2>1, <2>2, <2>3, <2>4
<1> HIDE DEF m
<1>3. UserBytes(m, bps) = (m * bps) \div 8 - CrcLen
  <2>1. CASE (m * bps) % 8 = 0
    BY <1>1, <1>2, <2>1, SMT DEF UserBytes, Repacked
  <2>2. CASE (m * bps) % 8 # 0
    BY <1>1, <1>2, <2>2, SMT DEF UserBytes, Repacked
  <2> QED
    BY <2>1, <2>2
<1> QED
  BY <1>2, <1>3 DEF m

\* The receiver hands on the bytes the framer took, as many and no more, for
\* every CRC, sequence of constellations, and frame size of which the bytes
\* can be counted in the header's field: the code does not see to the latter.
THEOREM LengthKeptCorrect ==
  ASSUME \A c \in Cnsts \cup {1} : (Capacity * c) \div 8 < LenMod
  PROVE  Spec => []LengthKept
<1>1. ASSUME IInv, NEW f \in air, f.payload > 0
      PROVE  LengthField(f.payload) = f.payload
  <2>1. /\ f.cnst \in Cnsts \cup {1} /\ f.cnst \in 1 .. 4
        /\ f.payload \in Nat /\ 8 * f.payload <= Capacity * f.cnst
        /\ Capacity \in Nat /\ LenMod \in Nat \ {0}
    <3>1. /\ f.cnst \in Cnsts \cup {1} /\ f.payload \in Nat
          /\ 8 * f.payload <= Capacity * f.cnst
      BY <1>1 DEF IInv, Announced, PayloadFits
    <3>2. Cnsts \cup {1} \subseteq 1 .. 4
      BY FrameAssumption
    <3> QED
      BY <3>1, <3>2, FrameAssumption
  <2>2. (Capacity * f.cnst) \div 8 < LenMod
    BY <2>1
  <2>3. f.payload <= (Capacity * f.cnst) \div 8
    <3>1. ASSUME NEW room \in Nat, 8 * f.payload <= room
          PROVE  f.payload <= room \div 8
      BY <2>1, <3>1
    <3>2. Capacity * f.cnst \in Nat
      BY <2>1
    <3> QED
      BY <2>1, <3>1, <3>2
  <2>4. (Capacity * f.cnst) \div 8 \in Nat
    <3>1. Capacity * f.cnst \in Nat
      BY <2>1
    <3> QED
      BY <3>1
  <2>5. f.payload \in Nat /\ f.payload < LenMod
    BY <2>1, <2>2, <2>3, <2>4
  <2> QED
    BY <2>1, <2>5 DEF LengthField
<1>2. IInv => LengthKept
  <2> SUFFICES ASSUME IInv, NEW f \in air, f.payload > 0
               PROVE  UserBytes(Symbols(LengthField(f.payload), f.cnst), f.cnst)
                        = f.to - f.from
    BY DEF LengthKept
  <2>1. f.cnst \in 1 .. 4 /\ f.payload \in Nat
        /\ f.to - f.from = f.payload - CrcLen
    <3>1. /\ f.cnst \in Cnsts \cup {1} /\ f.payload \in Nat
          /\ f.to - f.from = f.payload - CrcLen
      BY DEF IInv, Announced
    <3>2. Cnsts \cup {1} \subseteq 1 .. 4
      BY FrameAssumption
    <3> QED
      BY <3>1, <3>2
  <2> QED
    BY <1>1, <2>1, PackedFact
<1> QED
  BY <1>2, Invariance, PTL

\* Both modules read the stream with the same function.
LEMMA SameAdvance ==
  ASSUME NEW B, NEW p, NEW seen, NEW max, NEW owed
  PROVE  Consumer!Advance(B, p, seen, max, owed)
           = Advance(B, p, seen, max, owed)
BY Zenon
   DEF Advance, Continue, CutJumbo, TakeWhole, IsJumbo, Taken, PduLen, Least,
       NextBound, LastBound,
       Consumer!Advance, Consumer!Continue, Consumer!CutJumbo,
       Consumer!TakeWhole, Consumer!IsJumbo, Consumer!Taken, Consumer!PduLen,
       Consumer!Least, Consumer!NextBound, Consumer!LastBound

\* Every step of the framer is a step of the PDU consumer, or none of it.
LEMMA StepImplements ==
  IInv /\ [Next]_vars => [Consumer!Next]_(Consumer!vars)
<1> SUFFICES ASSUME IInv, [Next]_vars
             PROVE  Consumer!Next \/ UNCHANGED Consumer!vars
  OBVIOUS
<1>1. CASE Arrive
  BY <1>1 DEF Arrive, streamVars, Consumer!Next, Consumer!Arrive, Total,
              Consumer!Total
<1>2. CASE DataFrame
  <2> DEFINE max == FrameInBytes(cnst)
  <2>1. max \in {FrameInBytes(c) : c \in Cnsts \cup {1}}
    BY DEF IInv, TypeOK
  <2>2. arrived \in pos .. arrived
    BY TotalFact DEF IInv, TypeOK
  <2>3. Consumer!Call(max, arrived)
    BY <1>2, SameAdvance DEF DataFrame, NextPayload, Consumer!Call
  <2> QED
    BY <2>1, <2>2, <2>3, Zenon DEF Consumer!Next, Consumer!Read
<1>3. CASE ProcessFeedbackHeader \/ PassOn \/ EmptyFrame \/ GiveUp
           \/ UNCHANGED vars
  BY <1>3 DEF ProcessFeedbackHeader, PassOn, EmptyFrame, GiveUp, vars,
              streamVars, Consumer!vars
<1> QED
  BY <1>1, <1>2, <1>3 DEF Next, Work

\* The framer implements the PDU consumer: whatever constellations the peer
\* asks for, every byte goes into one frame, in order, and no frame mixes a
\* part of a PDU with other PDUs.
THEOREM ConsumerImplemented == Spec => ImplementsConsumer
<1>1. Init => Consumer!Init
  BY DEF Init, Consumer!Init
<1> QED
  BY <1>1, StepImplements, Invariance, PTL
     DEF Spec, ImplementsConsumer, Consumer!Spec

-----------------------------------------------------------------------------
(* The framing goes on                                                     *)

\* A frame carries nothing, although there is input, only while the PDU at
\* the head of the input would fit in it and is not here whole.
Waits == /\ pos \in bounds
         /\ PduLen(bounds, pos) <= FrameInBytes(cnst)
         /\ arrived < NextBound(bounds, pos)

WorkTakes ==
  [][(Work /\ arrived > pos) => pos' > pos \/ (pos' = pos /\ Waits)]_vars

\* When the whole stream is here, every call takes a byte until none is left.
StreamTaken ==
  [][(Work /\ arrived = Total(bounds) /\ pos < arrived) => pos' > pos]_vars

LEMMA TakesFact ==
  ASSUME IInv, Work, arrived > pos
  PROVE  pos' > pos \/ (pos' = pos /\ Waits)
<1> DEFINE max == FrameInBytes(cnst)
           read == NextPayload.read
<1>1. DataFrame
  BY TotalFact DEF Work, EmptyFrame, GiveUp, NoInput, IInv, TypeOK
<1>2. pos' = pos + read
  BY <1>1 DEF DataFrame
<1>3. /\ bounds \subseteq Nat /\ Total(bounds) \in bounds
      /\ pos \in Nat /\ arrived \in Nat /\ arrived <= Total(bounds)
  BY TotalFact DEF IInv, TypeOK
<1>4. read \in Nat /\ max \in Nat \ {0}
  BY NextPayloadFact DEF Sound
<1>5. CASE read = 0
  <2>1. \E b \in bounds : b >= arrived
    BY <1>3
  <2>2. Advance(bounds, pos, arrived, max, Rest(bounds, pos)).read = 0
    BY <1>5 DEF NextPayload, IInv
  <2>3. pos < arrived
    BY <1>3
  <2> HIDE DEF max
  <2>4. /\ pos \in bounds /\ PduLen(bounds, pos) <= max
        /\ arrived < NextBound(bounds, pos)
    BY <1>3, <1>4, <2>1, <2>2, <2>3, IdleAdvance, Zenon
  <2> QED
    BY <1>2, <1>3, <1>5, <2>4 DEF Waits, max
<1> HIDE DEF read, max
<1>6. CASE read > 0
  BY <1>2, <1>3, <1>4, <1>6
<1> QED
  BY <1>4, <1>5, <1>6

LEMMA NoWait ==
  ASSUME IInv, arrived = Total(bounds), pos < arrived
  PROVE  ~Waits
<1>1. /\ bounds \subseteq Nat /\ Total(bounds) \in bounds /\ pos \in Nat
      /\ Total(bounds) \in Nat
  BY TotalFact DEF IInv, TypeOK
<1>2. \E b \in bounds : b > pos
  BY <1>1
<1>3. NextBound(bounds, pos) <= Total(bounds) /\ NextBound(bounds, pos) \in Nat
  BY <1>1, <1>2, NextBoundFact
<1> QED
  BY <1>1, <1>3 DEF Waits

\* What AllFramed says, but for the scheduler calling the block: no call of
\* general_work with input is idle unless it waits for the rest of a PDU
\* (pdu_consumer::advance returns 0), so a stream that is here whole is framed
\* in as many calls as it has bytes at most.
THEOREM FramingGoesOn == Spec => WorkTakes /\ StreamTaken
<1>1. IInv /\ Work /\ arrived > pos => pos' > pos \/ (pos' = pos /\ Waits)
  BY TakesFact
<1>2. IInv /\ Work /\ arrived = Total(bounds) /\ pos < arrived => pos' > pos
  <2> SUFFICES ASSUME IInv, Work, arrived = Total(bounds), pos < arrived
               PROVE  pos' > pos
    OBVIOUS
  <2>1. arrived > pos
    BY TotalFact DEF IInv, TypeOK
  <2> QED
    BY <2>1, TakesFact, NoWait
<1> QED
  BY <1>1, <1>2, Invariance, PTL DEF Spec, WorkTakes, StreamTaken
=============================================================================
