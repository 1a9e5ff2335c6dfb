------------------------- MODULE PduConsumerProofs -------------------------
(***************************************************************************)
(* What holds of the PDU consumer for every set of streams and payloads.   *)
(***************************************************************************)
EXTENDS PduConsumer, PduStreamProofs

\* The end of a stream of the configuration.
LEMMA TotalFact ==
  ASSUME NEW B \in Streams
  PROVE  /\ B \subseteq Nat /\ 0 \in B
         /\ Total(B) \in B
         /\ \A b \in B : b <= Total(B)
<1>1. IsStream(B) /\ \E t \in B : \A b \in B : b <= t
  BY StreamsAssumption
<1> QED
  BY <1>1, Zenon DEF IsStream, Total

-----------------------------------------------------------------------------
(* The invariants                                                          *)

\* The inductive invariant: reading is sound because the counter of the cut
\* PDU agrees with the tags, and it agrees because reading was sound.
IInv == TypeOK /\ RemainInSync

LEMMA InitIInv == Init => IInv
<1> SUFFICES ASSUME Init PROVE IInv
  OBVIOUS
<1>1. 0 \in bounds /\ Total(bounds) \in Nat
  BY TotalFact, Zenon DEF Init
<1>2. Rest(bounds, 0) = 0
  BY <1>1 DEF Rest
<1> QED
  BY <1>1, <1>2 DEF Init, IInv, TypeOK, RemainInSync

\* One call in a state of the invariant.
LEMMA CallFact ==
  ASSUME IInv, NEW max \in Payloads, NEW seen \in pos .. arrived,
         Call(max, seen)
  PROVE  LET a == Advance(bounds, pos, seen, max, remain)
         IN  /\ max \in Nat
             /\ pos' = pos + a.read /\ remain' = a.remain
             /\ UNCHANGED <<bounds, arrived>>
             /\ Sound(bounds, pos, seen, max, a)
             /\ Framed(bounds, pos, max, a)
<1>1. bounds \subseteq Nat /\ Total(bounds) \in bounds
  BY TotalFact, Zenon DEF IInv, TypeOK
<1>2. /\ pos \in Nat /\ seen \in Nat /\ pos <= seen
      /\ \E b \in bounds : b >= seen
  <2>1. Total(bounds) \in Nat
    BY <1>1
  <2>2. seen <= Total(bounds) /\ Total(bounds) >= seen
    BY <2>1 DEF IInv, TypeOK
  <2>3. pos \in Nat /\ seen \in Nat /\ pos <= seen
    BY DEF IInv, TypeOK
  <2> QED
    BY <1>1, <2>2, <2>3, Zenon
<1>3. max \in Nat \ {0}
  BY PayloadsAssumption
<1>4. remain = Rest(bounds, pos)
  BY DEF IInv, RemainInSync
<1>5. LET a == Advance(bounds, pos, seen, max, remain)
      IN  Sound(bounds, pos, seen, max, a) /\ Framed(bounds, pos, max, a)
  BY <1>1, <1>2, <1>3, <1>4, AdvanceFact, Zenon
<1> QED
  BY <1>3, <1>5, Zenon DEF Call

LEMMA NextIInv == IInv /\ [Next]_vars => IInv'
<1> SUFFICES ASSUME IInv, [Next]_vars PROVE IInv'
  OBVIOUS
<1>1. CASE Arrive
  <2>1. Total(bounds) \in Nat
    BY TotalFact DEF IInv, TypeOK
  <2> QED
    BY <1>1, <2>1 DEF Arrive, IInv, TypeOK, RemainInSync
<1>2. CASE Read
  <2>1. PICK max \in Payloads, seen \in pos .. arrived : Call(max, seen)
    BY <1>2 DEF Read
  <2> DEFINE a == Advance(bounds, pos, seen, max, remain)
  <2>2. /\ pos' = pos + a.read /\ remain' = a.remain
        /\ bounds' = bounds /\ arrived' = arrived
        /\ Sound(bounds, pos, seen, max, a)
    BY <2>1, CallFact, Zenon
  <2> HIDE DEF a
  <2>3. /\ a.read \in Nat /\ pos + a.read <= seen
        /\ remain' = Rest(bounds', pos') /\ remain' \in Nat
    BY <2>2 DEF Sound
  <2>4. pos' \in 0 .. arrived
    BY <2>2, <2>3 DEF IInv, TypeOK
  <2> QED
    BY <2>2, <2>3, <2>4 DEF IInv, TypeOK, RemainInSync
<1>3. CASE UNCHANGED vars
  BY <1>3 DEF vars, IInv, TypeOK, RemainInSync
<1> QED
  BY <1>1, <1>2, <1>3 DEF Next

LEMMA Invariance == Spec => []IInv
BY InitIInv, NextIInv, PTL DEF Spec

\* Types, and no byte is taken before it arrives.
THEOREM TypeCorrect == Spec => []TypeOK
<1>1. IInv => TypeOK
  BY DEF IInv
<1> QED
  BY <1>1, Invariance, PTL

\* What advance remembers of the PDU it cut always agrees with the tags of
\* the stream, for every stream and every sequence of payload sizes.
THEOREM RemainCorrect == Spec => []RemainInSync
<1>1. IInv => RemainInSync
  BY DEF IInv
<1> QED
  BY <1>1, Invariance, PTL

\* One call never mixes a part of a PDU with bytes of another one.
THEOREM NoMixingCorrect == Spec => NoMixing
<1> DEFINE A == \A b \in bounds : (pos < b /\ b < pos') =>
                  pos \in bounds /\ pos' \in bounds
<1>1. IInv /\ [Next]_vars => [A]_vars
  <2> SUFFICES ASSUME IInv, Next PROVE A
    BY DEF vars
  <2>1. CASE Arrive
    <3>1. pos' = pos /\ pos \in Nat
      BY <2>1 DEF Arrive, IInv, TypeOK
    <3>2. \A b \in Nat : ~(pos < b /\ b < pos)
      BY <3>1
    <3>3. \A b \in bounds : b \in Nat
      BY TotalFact, Zenon DEF IInv, TypeOK
    <3> QED
      BY <3>1, <3>2, <3>3, Zenon
  <2>2. CASE Read
    <3>1. PICK max \in Payloads, seen \in pos .. arrived : Call(max, seen)
      BY <2>2 DEF Read
    <3>2. LET a == Advance(bounds, pos, seen, max, remain)
          IN  pos' = pos + a.read /\ Framed(bounds, pos, max, a)
      BY <3>1, CallFact, Zenon
    <3> QED
      BY <3>2 DEF Framed
  <2> QED
    BY <2>1, <2>2 DEF Next
<1> QED
  BY <1>1, Invariance, PTL DEF Spec, NoMixing

\* Whatever a call may take, and whatever other calls may take, it cuts a PDU
\* only when that PDU is longer than this call's payload.
THEOREM CutOnlyJumboCorrect == Spec => CutOnlyJumbo
<1> DEFINE Cuts(max, seen) ==
             Call(max, seen) /\ pos \in bounds /\ pos' \notin bounds
           A == \A max \in Payloads, seen \in pos .. arrived :
                  Cuts(max, seen) =>
                    pos' - pos <= max /\ max < PduLen(bounds, pos)
<1>1. IInv /\ [Next]_vars => [A]_vars
  <2> SUFFICES ASSUME IInv, NEW max \in Payloads, NEW seen \in pos .. arrived,
                      Cuts(max, seen)
               PROVE  pos' - pos <= max /\ max < PduLen(bounds, pos)
    OBVIOUS
  <2> DEFINE a == Advance(bounds, pos, seen, max, remain)
  <2>1. /\ pos' = pos + a.read
        /\ Sound(bounds, pos, seen, max, a) /\ Framed(bounds, pos, max, a)
    BY CallFact, Zenon
  <2> HIDE DEF a
  <2>2. pos' - pos <= max
    BY <2>1 DEF Sound, IInv, TypeOK
  <2>3. max < PduLen(bounds, pos)
    BY <2>1 DEF Framed
  <2> QED
    BY <2>2, <2>3
<1> QED
  BY <1>1, Invariance, PTL DEF Spec, CutOnlyJumbo

\* One call in a state of the invariant, by the loop of the code.
LEMMA LoopHere ==
  ASSUME IInv, NEW max \in Payloads, NEW seen \in pos .. arrived
  PROVE  AdvanceLoop(bounds, pos, seen, max, remain)
           = Advance(bounds, pos, seen, max, remain)
<1>1. bounds \subseteq Nat /\ Total(bounds) \in bounds
  BY TotalFact, Zenon DEF IInv, TypeOK
<1>2. Total(bounds) \in Nat /\ Total(bounds) >= seen
  <2>1. Total(bounds) \in Nat
    BY <1>1
  <2> QED
    BY <2>1 DEF IInv, TypeOK
<1>3. /\ pos \in Nat /\ seen \in Nat /\ pos <= seen
      /\ max \in Nat /\ remain \in Nat
  BY PayloadsAssumption DEF IInv, TypeOK
<1>4. IsCall(bounds, pos, seen, max, remain)
  BY <1>1, <1>2, <1>3, Zenon DEF IsCall
<1> QED
  BY <1>4, LoopIsAdvance, Zenon

\* The loop over the length tags, as the code has it, returns what Advance
\* says, for every stream and every sequence of calls: the closed form that
\* the other theorems about advance are about is the code's.
THEOREM LoopCorrect == Spec => []AdvanceIsLoop
<1>1. IInv => AdvanceIsLoop
  BY LoopHere, Zenon DEF AdvanceIsLoop
<1> QED
  BY <1>1, Invariance, PTL
=============================================================================
