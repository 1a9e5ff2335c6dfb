------------------------- MODULE FrameDetectProofs -------------------------
(***************************************************************************)
(* The detector, for every frame length, tolerance and thresholds, and for *)
(* every cutting of the samples into windows.                              *)
(***************************************************************************)
EXTENDS FrameDetect, TLAPS

(***************************************************************************)
(* The inductive invariant.  During a call, last is the last trigger of    *)
(* the output and remainder is brought up to date with the first one; in   *)
(* sync, no more than a frame and two samples have gone by without one;    *)
(* and each trigger generated has cost one of the good ones.               *)
(***************************************************************************)
Flags == found \in BOOLEAN /\ inSync \in BOOLEAN

Marks ==
  /\ mark \in Int /\ last \in Int /\ seen \in Int /\ seen >= -1
  /\ len = 0 => mark + remainder = 0
  /\ len > 0 => mark = last
  /\ len > 0 => remainder = IF found THEN len - last ELSE -last

Near ==
  /\ inSync /\ len = 0 => remainder <= FrameLen + 2
  /\ inSync /\ len > 0 => last >= -(FrameLen + 2)

Paid ==
  /\ generated \in Nat
  /\ generated <= MaxMissing + 1
  /\ inSync => synced <= SyncedTh - generated

IInv == TypeOK /\ Flags /\ Marks /\ Near /\ Paid

LEMMA InitIInv == Init => IInv
<1> SUFFICES ASSUME Init PROVE IInv
  OBVIOUS
<1>1. Flags
  BY DEF Init, Flags
<1>2. TypeOK /\ Marks /\ Near /\ Paid
  BY DetectAssumption, SMT
  DEF DetectAssumption, Init, TypeOK, Marks, Near, Paid
<1> QED BY <1>1, <1>2 DEF IInv

LEMMA CallIInv == IInv /\ Call => IInv'
<1> SUFFICES ASSUME IInv, Call PROVE IInv'
  OBVIOUS
<1>1. Flags'
  BY DEF IInv, Flags, Call, members
<1>2. /\ len = 0 /\ len' \in Nat /\ len' > 0 /\ len' \in Windows
      /\ last' = -remainder /\ seen' = -1 /\ found' = FALSE
      /\ remainder' = remainder /\ accError' = accError
      /\ triggers' = triggers /\ synced' = synced /\ inSync' = inSync
      /\ mark' = mark /\ generated' = generated
  BY DetectAssumption, SMT DEF DetectAssumption, Call, members
<1>3. TypeOK'
  BY <1>2, SMT DEF IInv, TypeOK
<1>4. Marks'
  BY <1>2, SMT DEF IInv, TypeOK, Marks
<1>5. Near'
  BY <1>2, DetectAssumption, SMT DEF DetectAssumption, IInv, TypeOK, Near
<1>6. Paid'
  BY <1>2 DEF IInv, Paid
<1> QED BY <1>1, <1>3, <1>4, <1>5, <1>6 DEF IInv

\* What the checks of the loop say about the window.
LEMMA ExpiresFacts ==
  ASSUME IInv, len > 0
  PROVE  /\ Expiry \in Int /\ Expiry <= len - 1
         /\ ~(inSync /\ Expiry > last + FrameLen + 1) /\ inSync
              => len - last <= FrameLen + 2
         /\ inSync => Expiry >= 0
         /\ inSync => Expiry <= last + FrameLen + Tolerance + 1
  BY DetectAssumption, SMT
     DEF DetectAssumption, IInv, TypeOK, Marks, Near, Expiry

\* The delay that is not corrected stays within one sample.
LEMMA AccumulatedFacts ==
  ASSUME IInv, len > 0, NEW k \in seen + 1 .. len - 1
  PROVE  /\ Accumulated(k) \in Int
         /\ ~Moves(k) => Accumulated(k) <= 1
         /\ Moves(k) => Size(Error(k)) < Tolerance
  BY DetectAssumption, SMT
  DEF DetectAssumption, IInv, TypeOK, Marks, Accumulated, Moves, Size, Error

LEMMA CountFacts ==
  ASSUME IInv, NEW k \in seen + 1 .. len - 1, CountSynced(k), CountTrigger
  PROVE  /\ synced' \in SyncedTh - MaxMissing .. SyncedTh
         /\ inSync' \in BOOLEAN
         /\ inSync' => Size(Error(k)) <= 1
         /\ triggers' \in 0 .. ResetAfter + 1
<1>1. synced' \in SyncedTh - MaxMissing .. SyncedTh
  BY DetectAssumption, SMT DEF DetectAssumption, IInv, TypeOK, Near, CountSynced
<1>2. inSync' \in BOOLEAN
  BY DEF IInv, Flags, CountSynced
<1>3. inSync' => Size(Error(k)) <= 1
  <2>1. Size(Error(k)) \in Int
    BY DetectAssumption, SMT
       DEF DetectAssumption, IInv, TypeOK, Marks, Size, Error
  <2>2. Size(Error(k)) > 1 => inSync' = FALSE
    BY DEF CountSynced
  <2> QED BY <2>1, <2>2, SMT
<1>4. triggers' \in 0 .. ResetAfter + 1
  BY DetectAssumption, SMT DEF DetectAssumption, IInv, TypeOK, CountTrigger
<1> QED BY <1>1, <1>2, <1>3, <1>4

LEMMA CorrectIInv ==
  ASSUME IInv, NEW k \in seen + 1 .. len - 1, CorrectTrigger(k)
  PROVE  IInv'
<1>1. len > 0 /\ len' = len
  BY DEF CorrectTrigger, NextTrigger
<1>2. /\ synced' \in SyncedTh - MaxMissing .. SyncedTh
      /\ inSync' \in BOOLEAN
      /\ inSync' => Size(Error(k)) <= 1
      /\ triggers' \in 0 .. ResetAfter + 1
  BY CountFacts DEF CorrectTrigger
<1>3. Size(Error(k)) < Tolerance
  BY <1>1, AccumulatedFacts DEF CorrectTrigger
<1>4. /\ last' = last + FrameLen /\ last' < len
      /\ last' >= 1 - Tolerance
      /\ inSync' => last' >= -1
  BY <1>1, <1>2, <1>3, DetectAssumption, SMT
  DEF DetectAssumption, IInv, TypeOK, Marks, CorrectTrigger, Moves, Size, Error
<1>5. seen' \in Int /\ seen' >= -1
  BY <1>1, <1>4, DetectAssumption, SMT
  DEF DetectAssumption, IInv, Marks, TypeOK, CorrectTrigger, Error
<1>6. /\ accError' = 0 /\ remainder' = len - last' /\ found' = TRUE
      /\ mark' = last' /\ generated' = 0
  BY DEF CorrectTrigger
<1>7. Flags'
  BY <1>2, <1>6 DEF Flags
<1>8. last' \in Int /\ len \in Nat
  BY <1>4, DetectAssumption, SMT DEF DetectAssumption, IInv, TypeOK, Marks
<1>9. TypeOK'
  BY <1>1, <1>2, <1>4, <1>6, <1>8, SMT DEF IInv, TypeOK
<1>10. Marks'
  BY <1>1, <1>4, <1>5, <1>6, <1>8, SMT DEF Marks, TypeOK, IInv
<1>11. Near'
  BY <1>1, <1>2, <1>4, <1>8, DetectAssumption, SMT DEF DetectAssumption, Near
<1>12. Paid'
  BY <1>2, <1>6, DetectAssumption, SMT DEF DetectAssumption, Paid
<1> QED BY <1>7, <1>9, <1>10, <1>11, <1>12 DEF IInv

LEMMA AcceptIInv ==
  ASSUME IInv, NEW k \in seen + 1 .. len - 1, AcceptTrigger(k)
  PROVE  IInv'
<1>1. len > 0 /\ len' = len
  BY DEF AcceptTrigger, NextTrigger
<1>2. /\ synced' \in SyncedTh - MaxMissing .. SyncedTh
      /\ inSync' \in BOOLEAN
      /\ triggers' \in 0 .. ResetAfter + 1
  BY CountFacts DEF AcceptTrigger
<1>3. accError' \in Int /\ accError' <= 1
  BY <1>1, AccumulatedFacts, SMT DEF AcceptTrigger, AfterReset
<1>4. /\ remainder' = len - k /\ found' = TRUE
      /\ mark' = k /\ last' = k /\ seen' = k /\ generated' = 0
  BY DEF AcceptTrigger
<1>5. Flags'
  BY <1>2, <1>4 DEF Flags
<1>6. k \in Nat /\ len \in Nat /\ k < len
  BY <1>1, DetectAssumption, SMT DEF DetectAssumption, IInv, TypeOK, Marks
<1>7. TypeOK'
  BY <1>1, <1>2, <1>3, <1>4, <1>6, DetectAssumption, SMT
  DEF DetectAssumption, IInv, TypeOK
<1>8. Marks'
  BY <1>1, <1>4, <1>6, SMT DEF Marks
<1>9. Near'
  BY <1>1, <1>4, <1>6, DetectAssumption, SMT DEF DetectAssumption, Near
<1>10. Paid'
  BY <1>2, <1>4, DetectAssumption, SMT DEF DetectAssumption, Paid
<1> QED BY <1>5, <1>7, <1>8, <1>9, <1>10 DEF IInv

LEMMA GenerateIInv == IInv /\ GenerateTrigger => IInv'
<1> SUFFICES ASSUME IInv, GenerateTrigger PROVE IInv'
  OBVIOUS
<1>1. len > 0 /\ len' = len /\ inSync /\ Expiry > last + FrameLen + 1
  BY DEF GenerateTrigger, Expires
<1>2. Expiry \in Int /\ Expiry <= len - 1 /\ Expiry >= 0
  BY <1>1, ExpiresFacts
<1>3. /\ last' = last + FrameLen /\ seen' = Expiry
      /\ remainder' = len - last' /\ found' = TRUE /\ mark' = last'
      /\ accError' = accError /\ triggers' = triggers
  BY DEF GenerateTrigger
<1>4. TypeOK' /\ Marks' /\ Near'
  <2>1. synced' \in SyncedTh - MaxMissing .. SyncedTh
    BY DetectAssumption, SMT DEF DetectAssumption, IInv, TypeOK, GenerateTrigger
  <2>2. last' >= -2 /\ last' < len
    BY <1>1, <1>2, <1>3, DetectAssumption, SMT
    DEF DetectAssumption, IInv, TypeOK, Marks, Near
  <2>3. last' \in Int /\ len \in Nat
    BY <1>3, DetectAssumption, SMT DEF DetectAssumption, IInv, TypeOK, Marks
  <2>4. TypeOK'
    BY <1>1, <1>3, <2>1, <2>2, <2>3, DetectAssumption, SMT
    DEF DetectAssumption, IInv, TypeOK
  <2>5. Marks'
    BY <1>1, <1>2, <1>3, <2>3, SMT DEF Marks
  <2>6. Near'
    BY <1>1, <2>2, <2>3, DetectAssumption, SMT DEF DetectAssumption, Near
  <2> QED BY <2>4, <2>5, <2>6
<1>5. Flags'
  BY <1>3 DEF IInv, Flags, GenerateTrigger
<1>6. Paid'
  <2>1. /\ generated \in Nat /\ generated' = generated + 1
        /\ synced <= SyncedTh - generated
        /\ synced \in SyncedTh - MaxMissing .. SyncedTh
    BY <1>1 DEF IInv, TypeOK, Paid, GenerateTrigger
  <2>2. generated' \in Nat /\ generated' <= MaxMissing + 1
    BY <2>1, DetectAssumption, SMT DEF DetectAssumption
  <2>3. inSync' => synced' = synced - 1
    BY DEF GenerateTrigger
  <2>4. inSync' => synced' <= SyncedTh - generated'
    BY <2>1, <2>3, DetectAssumption, SMT DEF DetectAssumption
  <2> QED BY <2>2, <2>4 DEF Paid
<1> QED BY <1>4, <1>5, <1>6 DEF IInv

LEMMA ReturnIInv == IInv /\ Return => IInv'
<1> SUFFICES ASSUME IInv, Return PROVE IInv'
  OBVIOUS
<1>1. inSync => len - last <= FrameLen + 2
  BY ExpiresFacts DEF Return, Expires
<1>2. Flags'
  BY DEF IInv, Flags, Return
<1>3. /\ len > 0 /\ len \in Nat /\ len' = 0 /\ mark' = mark - len
      /\ remainder' = IF found THEN remainder ELSE remainder + len
      /\ accError' = accError /\ triggers' = triggers /\ synced' = synced
      /\ inSync' = inSync /\ last' = last /\ seen' = seen
      /\ generated' = generated
  BY DetectAssumption, SMT DEF DetectAssumption, IInv, TypeOK, Return
<1>4. TypeOK'
  BY <1>3, SMT DEF IInv, TypeOK
<1>5. Marks'
  BY <1>3, SMT DEF IInv, TypeOK, Marks
<1>6. Near'
  BY <1>1, <1>3, SMT DEF IInv, Near, TypeOK, Marks
<1>7. Paid'
  BY <1>3 DEF IInv, Paid
<1> QED BY <1>2, <1>4, <1>5, <1>6, <1>7 DEF IInv

LEMMA NextIInv == IInv /\ [Next]_vars => IInv'
<1> SUFFICES ASSUME IInv, [Next]_vars PROVE IInv'
  OBVIOUS
<1>1. CASE Call
  BY <1>1, CallIInv
<1>2. CASE FoundTrigger
  BY <1>2, CorrectIInv, AcceptIInv DEF FoundTrigger
<1>3. CASE GenerateTrigger
  BY <1>3, GenerateIInv
<1>4. CASE Return
  BY <1>4, ReturnIInv
<1>5. CASE UNCHANGED vars
  BY <1>5 DEF vars, members, IInv, TypeOK, Flags, Marks, Near, Paid
<1> QED BY <1>1, <1>2, <1>3, <1>4, <1>5 DEF Next

THEOREM Inductive == Spec => []IInv
  BY InitIInv, NextIInv, PTL DEF Spec

\* The triggers are written where TypeOK says, at most Tolerance - 1 samples
\* back and two in sync, and the delay left uncorrected is one sample.
THEOREM TypeCorrect == Spec => []TypeOK
<1>1. IInv => TypeOK
  BY DEF IInv
<1> QED BY Inductive, <1>1, PTL

\* What fix_sync keeps between calls is where the last trigger is, whatever
\* windows the scheduler hands it.
THEOREM RemainderTrueCorrect == Spec => []RemainderTrue
<1>1. IInv => RemainderTrue
  BY SMT DEF IInv, TypeOK, Marks, RemainderTrue
<1> QED BY Inductive, <1>1, PTL

\* A detector that hears nothing stops by itself.
THEOREM FreewheelBoundedCorrect == Spec => []FreewheelBounded
<1>1. IInv => FreewheelBounded
  BY DEF IInv, Paid, FreewheelBounded
<1> QED BY Inductive, <1>1, PTL

\* In sync, no gap between two triggers is larger than a frame and the
\* delay after which one is generated.
THEOREM GapBoundedCorrect == Spec => GapBounded
<1> DEFINE Gap == inSync /\ len > 0 /\ len' > 0
                    => mark' - mark <= FrameLen + Tolerance + 1
<1>1. IInv /\ [Next]_vars => [Gap]_vars
  <2> SUFFICES ASSUME IInv, Next, inSync, len > 0, len' > 0
               PROVE  mark' - mark <= FrameLen + Tolerance + 1
    OBVIOUS
  <2>1. /\ Expiry \in Int /\ Expiry <= len - 1
        /\ ~Expires => len - last <= FrameLen + 2
        /\ Expiry <= last + FrameLen + Tolerance + 1
        /\ mark = last /\ mark \in Int /\ len \in Int
    BY ExpiresFacts, DetectAssumption, SMT
    DEF DetectAssumption, Expires, IInv, Marks, TypeOK
  <2>2. CASE FoundTrigger
    <3> PICK k \in seen + 1 .. len - 1 : CorrectTrigger(k) \/ AcceptTrigger(k)
      BY <2>2 DEF FoundTrigger
    <3>1. k \in Int /\ k <= last + FrameLen + Tolerance + 1
      <4>1. k \in Int /\ k <= len - 1
        BY <2>1, SMT DEF IInv, Marks
      <4>2. Expires => k <= Expiry
        BY DEF CorrectTrigger, AcceptTrigger, NextTrigger
      <4> QED BY <2>1, <4>1, <4>2, DetectAssumption, SMT DEF DetectAssumption
    <3>2. mark' = k \/ mark' = last + FrameLen
      BY DEF CorrectTrigger, AcceptTrigger
    <3> QED BY <2>1, <3>1, <3>2, DetectAssumption, SMT DEF DetectAssumption
  <2>3. CASE GenerateTrigger
    BY <2>1, <2>3, DetectAssumption, SMT DEF DetectAssumption, GenerateTrigger
  <2>4. CASE Call
    BY <2>4, SMT DEF Call
  <2>5. CASE Return
    BY <2>5, SMT DEF Return
  <2> QED BY <2>2, <2>3, <2>4, <2>5 DEF Next
<1> QED BY Inductive, <1>1, PTL DEF Spec, GapBounded
=============================================================================
