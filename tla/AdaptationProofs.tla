-------------------------- MODULE AdaptationProofs --------------------------
(***************************************************************************)
(* The adaptation of the link, from the estimate to the frame: what holds  *)
(* of the receiver's MCS decision (FeedbackDecision), of the receiver that *)
(* uses it (Equalizer), and of the way of the decision to the transmitter  *)
(* (AdaptiveLoop).  Each of these contains the decision, so the theorems   *)
(* about the two that use it rest on the lemmas about it.                  *)
(***************************************************************************)
EXTENDS Equalizer, AdaptiveLoop, TLAPS

(***************************************************************************)
(* The decision, for every table, hysteresis, threshold and initial MCS,   *)
(* as long as every estimated SNR is positive: the table has no row for    *)
(* the others.                                                             *)
(***************************************************************************)
PositiveSnrs == \A s \in Snrs : s >= MinPositive

\* What one estimate asks for is a row of the table.
LEMMA TargetInTable ==
  ASSUME PositiveSnrs, NEW m \in McsIds, NEW s \in Snrs
  PROVE  Verdict(m, s) \in {-1, 0, 1} /\ m + Verdict(m, s) \in McsIds
<1>1. m \in Int /\ m >= 0 /\ m <= NumMcs - 1 /\ NumMcs \in Int
  BY TableAssumption DEF McsIds
<1>2. s \in Int
  BY DecisionAssumption
<1>3. CASE s < Threshold(m)
  <2>1. m # 0
    BY <1>2, <1>3 DEF PositiveSnrs, Threshold, MinPositive
  <2> QED
    BY <1>1, <1>3, <2>1 DEF Verdict, McsIds
<1>4. CASE ~(s < Threshold(m))
  BY <1>1, <1>4 DEF Verdict, McsIds
<1> QED
  BY <1>3, <1>4

(***************************************************************************)
(* The inductive invariant.  The counter and the estimates that backed it  *)
(* stay within one of each other: the first estimate of a run only         *)
(* redirects the counter when the counter was for another MCS.             *)
(***************************************************************************)
RunBacked ==
  /\ decisionCounter <= askedRun
  /\ askedRun <= decisionCounter + 1
  /\ askedRun > 0 => newDecision = lastDecision + asked

IInv == TypeOK /\ RunBacked

LEMMA InitIInv == Init => IInv
BY TableAssumption, DecisionAssumption
   DEF Init, IInv, TypeOK, InTable, RunBacked, McsIds

\* Facts that the steps of get_feedback share.
LEMMA RequestFact ==
  ASSUME PositiveSnrs, IInv
  PROVE  /\ Request \in {-1, 0, 1}
         /\ Target \in McsIds
         /\ lastDecision \in Int /\ newDecision \in Int
         /\ decisionCounter \in Nat /\ askedRun \in Nat
         /\ DecisionTh \in Nat \ {0}
<1>1. lastDecision \in McsIds /\ snr \in Snrs
  BY DEF IInv, TypeOK, InTable
<1>2. Request \in {-1, 0, 1} /\ Target \in McsIds
  BY <1>1, TargetInTable DEF Request, Target
<1> QED
  BY <1>2, DecisionAssumption DEF IInv, TypeOK, InTable, McsIds

LEMMA NextIInv ==
  ASSUME PositiveSnrs
  PROVE  IInv /\ [Next]_vars => IInv'
<1> SUFFICES ASSUME IInv, [Next]_vars PROVE IInv'
  OBVIOUS
<1> USE DEF IInv, TypeOK, InTable, RunBacked
<1>1. CASE Stay
  BY <1>1, RequestFact DEF Stay, code
<1>2. CASE Turn
  <2>1. /\ newDecision' = Target /\ lastDecision' = lastDecision
        /\ decisionCounter' = 0 /\ snr' = snr
    BY <1>2 DEF Turn
  <2>2. ~(asked = Request /\ askedRun > 0)
    BY <1>2 DEF Turn, Target
  <2>3. asked' = Request /\ askedRun' = 1
    BY <1>2, <2>2, RequestFact DEF Turn, Witness
  <2> QED
    BY <2>1, <2>3, RequestFact DEF Target
<1>3. CASE Count
  <2>1. /\ Target = newDecision /\ newDecision' = newDecision
        /\ lastDecision' = lastDecision /\ snr' = snr
        /\ decisionCounter' = decisionCounter + 1
        /\ decisionCounter + 1 < DecisionTh
        /\ asked' = Request
        /\ askedRun' = IF asked = Request THEN askedRun + 1 ELSE 1
    BY <1>3 DEF Count, Counted, Witness
  <2>2. asked # Request => decisionCounter = 0
    BY <2>1, RequestFact DEF Target
  <2> QED
    BY <2>1, <2>2, RequestFact DEF Target
<1>4. CASE Switch
  BY <1>4, RequestFact DEF Switch
<1>5. CASE Fade
  BY <1>5 DEF Fade, code, history
<1>6. CASE UNCHANGED vars
  BY <1>6 DEF vars, code, history
<1> QED
  BY <1>1, <1>2, <1>3, <1>4, <1>5, <1>6 DEF Next, GetFeedback

LEMMA Invariance ==
  ASSUME PositiveSnrs
  PROVE  Spec => []IInv
<1>1. IInv /\ [Next]_vars => IInv'
  BY NextIInv
<1> QED
  BY <1>1, InitIInv, PTL DEF Spec

\* With positive SNRs every index of the table is in range, so the decision
\* is always one of the configured MCSs.
THEOREM TypeCorrect ==
  ASSUME PositiveSnrs
  PROVE  Spec => []TypeOK
<1>1. IInv => TypeOK
  BY DEF IInv
<1> QED
  BY <1>1, Invariance, PTL

\* The counter counts only estimates that asked, in a row, for the MCS it is
\* kept for.
THEOREM CounterBackedCorrect ==
  ASSUME PositiveSnrs
  PROVE  Spec => []CounterBacked
<1>1. IInv => CounterBacked
  BY DEF IInv, TypeOK, InTable, McsIds, RunBacked, CounterBacked
<1> QED
  BY <1>1, Invariance, PTL

\* A run of requests for one direction is never longer than DecisionTh
\* without a switch.
THEOREM ResponsiveCorrect ==
  ASSUME PositiveSnrs
  PROVE  Spec => []Responsive
<1>1. IInv => Responsive
  BY DecisionAssumption DEF IInv, TypeOK, RunBacked, Responsive
<1> QED
  BY <1>1, Invariance, PTL

\* A switch is always to the neighbouring MCS that DecisionTh estimates in a
\* row asked for.
THEOREM SwitchBackedCorrect ==
  ASSUME PositiveSnrs
  PROVE  Spec => SwitchBacked
<1> DEFINE A == lastDecision' # lastDecision =>
                  /\ lastDecision' = lastDecision + Request
                  /\ \/ DecisionTh = 1
                     \/ asked = Request /\ askedRun >= DecisionTh - 1
<1>1. IInv /\ [Next]_vars => [A]_vars
  <2> SUFFICES ASSUME IInv, Next, lastDecision' # lastDecision
               PROVE  A
    BY DEF vars
  <2>1. Switch
    BY DEF Next, GetFeedback, Stay, Turn, Count, Counted, Fade, code
  <2>2. lastDecision' = lastDecision + Request /\ newDecision = Target
    BY <2>1 DEF Switch, Target
  <2>3. DecisionTh # 1 => asked = Request /\ askedRun >= DecisionTh - 1
    BY <2>1, <2>2, RequestFact DEF Switch, Target, IInv, TypeOK, RunBacked
  <2> QED
    BY <2>2, <2>3
<1> QED
  BY <1>1, Invariance, PTL DEF Spec, SwitchBacked

-----------------------------------------------------------------------------
(***************************************************************************)
(* The decision settles: what Convergence says, but for the frames going   *)
(* on to arrive.  A move is never asked back: who moves up was above the   *)
(* next threshold by more than the hysteresis, who moves down was below    *)
(* the one left behind.  So the table can be in any order.                 *)
(***************************************************************************)

\* The entries of the table in the direction that is asked for.
EntriesLeft == IF Request = 1 THEN NumMcs - 1 - lastDecision ELSE lastDecision

\* What has been counted for the next move: to turn counts as one.
Progress == IF newDecision = Target THEN decisionCounter + 1 ELSE 0

\* On a channel that does not change, the estimates until the decision settles
\* are no more.
EstimatesLeft ==
  IF Settled THEN 0 ELSE EntriesLeft * (DecisionTh + 1) - Progress

Settles ==
  [][snr' = snr => IF Settled THEN Settled' ELSE EstimatesLeft' < EstimatesLeft
    ]_vars

Bounded ==
  /\ EstimatesLeft \in 0 .. (NumMcs - 1) * (DecisionTh + 1)
  /\ EstimatesLeft = 0 <=> Settled

LEMMA LeftFact ==
  ASSUME PositiveSnrs, IInv
  PROVE  /\ Settled <=> Request = 0
         /\ EntriesLeft \in 0 .. NumMcs - 1 /\ NumMcs - 1 \in Nat
         /\ Request # 0 => EntriesLeft > 0
         /\ Progress \in 0 .. DecisionTh /\ DecisionTh + 1 \in Nat
<1>1. /\ Target \in McsIds /\ lastDecision \in McsIds
      /\ Request \in {-1, 0, 1} /\ NumMcs \in Nat /\ DecisionTh \in Nat
      /\ decisionCounter \in 0 .. DecisionTh - 1
  BY RequestFact, TableAssumption, DecisionAssumption DEF IInv, TypeOK, InTable
<1>2. Settled <=> Request = 0
  BY DEF Settled, Request
<1>3. Target = lastDecision + Request
  BY DEF Target
<1>4. /\ lastDecision \in Nat /\ lastDecision <= NumMcs - 1
      /\ lastDecision + Request \in Nat /\ lastDecision + Request <= NumMcs - 1
  BY <1>1, <1>3 DEF McsIds
<1> QED
  BY <1>1, <1>2, <1>4 DEF EntriesLeft, Progress

\* Arithmetic of the rounds: each entry costs w estimates.
LEMMA Rounds ==
  ASSUME NEW k \in Nat, NEW w \in Nat
  PROVE  /\ k * w \in Nat /\ (k + 1) * w = k * w + w
         /\ k > 0 => k * w >= w
         /\ \A n \in Nat : k <= n => k * w <= n * w
<1>1. k * w \in Nat /\ (k + 1) * w = k * w + w
  OBVIOUS
<1>2. k > 0 => k * w >= w
  <2>1. SUFFICES ASSUME k > 0 PROVE k * w >= w
    OBVIOUS
  <2>2. k - 1 \in Nat /\ k * w = (k - 1) * w + w
    BY <2>1
  <2>3. (k - 1) * w \in Nat
    BY <2>2
  <2> QED
    BY <2>2, <2>3
<1>3. ASSUME NEW n \in Nat, k <= n
      PROVE  k * w <= n * w
  <2>1. n - k \in Nat /\ n * w = k * w + (n - k) * w
    BY <1>3
  <2>2. (n - k) * w \in Nat
    BY <2>1
  <2> QED
    BY <1>1, <2>1, <2>2
<1> QED
  BY <1>1, <1>2, <1>3

LEMMA LeftBounded ==
  ASSUME PositiveSnrs, IInv
  PROVE  Bounded
<1> DEFINE w == DecisionTh + 1
           all == (NumMcs - 1) * w
           rest == EntriesLeft * w
<1>0. /\ Settled <=> Request = 0
      /\ EntriesLeft \in 0 .. NumMcs - 1 /\ NumMcs - 1 \in Nat
      /\ Request # 0 => EntriesLeft > 0
      /\ Progress \in 0 .. DecisionTh /\ DecisionTh \in Nat
  BY LeftFact, DecisionAssumption
<1>1. /\ Settled <=> Request = 0
      /\ EntriesLeft \in Nat /\ EntriesLeft <= NumMcs - 1 /\ NumMcs - 1 \in Nat
      /\ Request # 0 => EntriesLeft > 0
      /\ Progress \in Nat /\ Progress < w /\ w \in Nat
  BY <1>0
<1> HIDE DEF w
<1>2. /\ rest \in Nat /\ all \in Nat /\ rest <= all
      /\ Request # 0 => rest >= w
  BY <1>1, Rounds
<1>3. EstimatesLeft = IF Settled THEN 0 ELSE rest - Progress
  BY DEF EstimatesLeft, w
<1> HIDE DEF rest, all
<1>4. EstimatesLeft \in 0 .. all /\ (EstimatesLeft = 0 <=> Settled)
  BY <1>1, <1>2, <1>3
<1> QED
  BY <1>4 DEF Bounded, all, w

\* A move is not asked back.
LEMMA NotBack ==
  ASSUME PositiveSnrs, IInv, Switch
  PROVE  /\ Request' = Request \/ Request' = 0
         /\ lastDecision' = lastDecision + Request
         /\ newDecision' = lastDecision'
<1>1. /\ lastDecision' = Target /\ newDecision' = newDecision /\ snr' = snr
      /\ newDecision = Target /\ Request # 0
  BY DEF Switch
<1>2. /\ lastDecision \in Int /\ Request \in {-1, 1} /\ snr \in Int
      /\ Target \in McsIds
  BY <1>1, RequestFact, DecisionAssumption DEF IInv, TypeOK
<1>3. Target = lastDecision + Request
  BY DEF Target
<1>4. Request' = Verdict(Target, snr) /\ Request = Verdict(lastDecision, snr)
  BY <1>1 DEF Request
<1>5. Verdict(Target, snr) \in {-1, 0, 1}
  BY <1>2, TargetInTable DEF IInv, TypeOK
<1>6. \A m \in McsIds : Threshold(m) \in Int
  BY TableAssumption DEF Threshold, MinPositive
<1>7. CASE Request = 1
  <2>1. Target = lastDecision + 1
    BY <1>3, <1>7
  <2>2. snr > Threshold(Target) + Hysteresis
    BY <1>4, <1>7, <2>1 DEF Verdict
  <2>3. ~(snr < Threshold(Target))
    BY <1>2, <1>6, <2>2, DecisionAssumption
  <2>4. Verdict(Target, snr) # -1
    BY <2>3 DEF Verdict
  <2> QED
    BY <1>1, <1>3, <1>4, <1>5, <1>7, <2>4
<1>8. CASE Request = -1
  <2>1. Target + 1 = lastDecision
    BY <1>2, <1>3, <1>8
  <2>2. snr < Threshold(lastDecision)
    BY <1>4, <1>8 DEF Verdict
  <2>3. Threshold(lastDecision) \in Int
    BY <1>6 DEF IInv, TypeOK, InTable
  <2>4. ~(snr > Threshold(Target + 1) + Hysteresis)
    BY <1>2, <2>1, <2>2, <2>3, DecisionAssumption
  <2>5. Verdict(Target, snr) # 1
    BY <2>4 DEF Verdict
  <2> QED
    BY <1>1, <1>3, <1>4, <1>5, <1>8, <2>5
<1> QED
  BY <1>2, <1>7, <1>8

LEMMA StepSettles ==
  ASSUME PositiveSnrs, IInv, IInv', GetFeedback
  PROVE  IF Settled THEN Settled' ELSE EstimatesLeft' < EstimatesLeft
<1> DEFINE w == DecisionTh + 1
           left == EntriesLeft * w
<1>1. /\ Settled <=> Request = 0
      /\ EntriesLeft \in Nat
      /\ Request # 0 => EntriesLeft > 0
      /\ Progress \in Nat /\ Progress < w /\ w \in Nat
      /\ lastDecision \in Int /\ NumMcs \in Int /\ decisionCounter \in Nat
      /\ DecisionTh \in Nat /\ Request \in {-1, 0, 1} /\ w = DecisionTh + 1
  BY LeftFact, RequestFact, TableAssumption
<1>2. Settled' <=> Request' = 0
  BY DEF Settled, Request
<1>3. Settled \/ EstimatesLeft = left - Progress
  BY DEF EstimatesLeft
<1> HIDE DEF w
<1>4. left \in Nat /\ (Request # 0 => left >= w)
  <2>1. PICK k \in Nat : k = EntriesLeft
    BY <1>1
  <2>2. k * w \in Nat /\ (k > 0 => k * w >= w)
    BY <1>1, Rounds
  <2>3. Request # 0 => k > 0
    BY <1>1, <2>1
  <2> QED
    BY <2>1, <2>2, <2>3
<1>5. CASE Stay
  <2>1. Request = 0 /\ Request' = Request
    BY <1>5 DEF Stay, Request, code
  <2> QED
    BY <1>1, <1>2, <2>1
<1>6. CASE Turn \/ Count
  <2>1. /\ Request # 0 /\ lastDecision' = lastDecision /\ snr' = snr
        /\ newDecision' = Target
        /\ \/ newDecision # Target /\ decisionCounter' = 0
           \/ newDecision = Target /\ decisionCounter' = decisionCounter + 1
    BY <1>6 DEF Turn, Count, Counted
  <2>2. Request' = Request /\ Target' = Target
    BY <2>1 DEF Request, Target
  <2>3. EntriesLeft' = EntriesLeft
    BY <2>1, <2>2 DEF EntriesLeft
  <2>4. Progress' = Progress + 1
    BY <1>1, <2>1, <2>2 DEF Progress
  <2>5. EstimatesLeft' = left - (Progress + 1) /\ ~Settled
    BY <1>1, <1>2, <2>1, <2>2, <2>3, <2>4 DEF EstimatesLeft, w
  <2> HIDE DEF left
  <2> QED
    BY <1>1, <1>3, <1>4, <2>5
<1>7. CASE Switch
  <2>1. /\ Request' = Request \/ Request' = 0
        /\ lastDecision' = lastDecision + Request
        /\ newDecision' = lastDecision'
    BY <1>7, NotBack
  <2>2. /\ Request # 0 /\ newDecision = Target
        /\ decisionCounter + 1 >= DecisionTh
    BY <1>7 DEF Switch
  <2>3. Progress = DecisionTh
    BY <1>1, <2>2 DEF Progress
  <2>4. ~Settled /\ EstimatesLeft = left - DecisionTh
    BY <1>1, <1>3, <2>2, <2>3
  <2>5. left >= w
    BY <1>4, <2>2
  <2>6. CASE Request' = 0
    <3>1. EstimatesLeft' = 0
      BY <1>2, <2>6 DEF EstimatesLeft
    <3> HIDE DEF left
    <3> QED
      BY <1>1, <1>4, <2>4, <2>5, <3>1
  <2>7. CASE Request' = Request
    <3>1. Target' # newDecision'
      BY <1>1, <2>1, <2>2, <2>7 DEF Target
    <3>2. Progress' = 0
      BY <3>1 DEF Progress
    <3>3. EntriesLeft' + 1 = EntriesLeft
      BY <1>1, <2>1, <2>2, <2>7 DEF EntriesLeft
    <3>4. EntriesLeft' \in Nat
      <4>1. EntriesLeft' \in Int
        BY <1>1, <2>1, <2>2, <2>7 DEF EntriesLeft
      <4>2. PICK e \in Int : e = EntriesLeft'
        BY <4>1
      <4>3. PICK n \in Nat : n = EntriesLeft /\ n > 0
        BY <1>1, <2>2
      <4>4. e + 1 = n
        BY <3>3, <4>2, <4>3
      <4>5. e \in Nat
        BY <4>3, <4>4
      <4> QED
        BY <4>2, <4>5, Zenon
    <3>5. PICK k \in Nat : k = EntriesLeft'
      BY <3>4
    <3>6. (k + 1) * w = k * w + w /\ k * w \in Nat
      BY <1>1, Rounds
    <3>7. left = k * w + w
      BY <3>3, <3>5, <3>6
    <3>8. EstimatesLeft' = k * w - 0
      BY <1>2, <2>2, <2>7, <3>2, <3>5 DEF EstimatesLeft, w
    <3>9. PICK x \in Nat : x = k * w
      BY <3>6
    <3> HIDE DEF left
    <3> QED
      BY <1>1, <2>4, <3>7, <3>8, <3>9
  <2> QED
    BY <2>1, <2>6, <2>7
<1> QED
  BY <1>5, <1>6, <1>7 DEF GetFeedback

\* On a channel that does not change the decision never oscillates: every
\* estimate (get_feedback, update_decision) brings it nearer to the MCS where
\* it stays, and it needs DecisionTh + 1 of them for each entry of the table at
\* most.  The thresholds of the table may be in any order.
THEOREM SettlesCorrect ==
  ASSUME PositiveSnrs
  PROVE  Spec => Settles /\ []Bounded
<1> DEFINE A == snr' = snr => IF Settled THEN Settled'
                              ELSE EstimatesLeft' < EstimatesLeft
<1>1. IInv /\ IInv' /\ [Next]_vars => [A]_vars
  <2>1. SUFFICES ASSUME IInv, IInv', Next, ~UNCHANGED vars, snr' = snr
                 PROVE  A
    OBVIOUS
  <2>2. GetFeedback
    BY <2>1 DEF Next, Fade, vars
  <2> QED
    BY <2>1, <2>2, StepSettles
<1>2. IInv => Bounded
  BY LeftBounded
<1> QED
  BY <1>1, <1>2, Invariance, PTL DEF Spec, Settles

-----------------------------------------------------------------------------
(***************************************************************************)
(* The receiver's count of lost frames, for every number of frame numbers, *)
(* and its use of the decision, whose theorems hold of the receiver        *)
(* because each of its steps is a step of the decision or leaves it alone. *)
(***************************************************************************)
\* Numbers that differ by frame numbers gone around.
Same(a, b) == \E q \in Int : a = b + FrameMod * q

LEMMA SameSum ==
  ASSUME NEW a \in Int, NEW b \in Int, NEW c \in Int, NEW d \in Int,
         Same(a, b), Same(c, d)
  PROVE  Same(a + c, b + d) /\ Same(a - c, b - d)
<1> DEFINE F == FrameMod
<1>1. F \in Int
  BY NumberAssumption
<1>2. PICK q \in Int : a = b + F * q
  BY DEF Same
<1>3. PICK r \in Int : c = d + F * r
  BY DEF Same
<1> HIDE DEF F
<1>4. /\ F * (q + r) = F * q + F * r /\ F * (q - r) = F * q - F * r
      /\ F * q \in Int /\ F * r \in Int
  BY <1>1
<1>5. a + c = b + d + F * (q + r) /\ a - c = b - d + F * (q - r)
  BY <1>2, <1>3, <1>4
<1>6. q + r \in Int /\ q - r \in Int
  OBVIOUS
<1> QED
  BY <1>5, <1>6 DEF Same, F

LEMMA SameSelf ==
  ASSUME NEW a \in Int
  PROVE  Same(a, a)
<1>1. FrameMod * 0 = 0 /\ a = a + 0
  BY NumberAssumption
<1> QED
  BY <1>1 DEF Same

\* Of such numbers only one is a frame number.
LEMMA SameNumber ==
  ASSUME NEW a \in 0 .. FrameMod - 1, NEW b \in 0 .. FrameMod - 1, Same(a, b)
  PROVE  a = b
<1> DEFINE F == FrameMod
<1>1. F \in Nat \ {0} /\ a \in 0 .. F - 1 /\ b \in 0 .. F - 1
  BY NumberAssumption
<1>2. PICK q \in Int : a = b + F * q
  BY DEF Same
<1> HIDE DEF F
<1>3. CASE q >= 1
  <2>1. F * q >= F
    BY <1>1, <1>3
  <2> QED
    BY <1>1, <1>2, <2>1
<1>4. CASE q <= -1
  <2>1. F * q <= -F
    BY <1>1, <1>4
  <2> QED
    BY <1>1, <1>2, <2>1
<1>5. CASE q = 0
  BY <1>1, <1>2, <1>5
<1> QED
  BY <1>3, <1>4, <1>5

LEMMA SameRemainder ==
  ASSUME NEW a \in Int
  PROVE  a % FrameMod \in 0 .. FrameMod - 1 /\ Same(a % FrameMod, a)
<1> DEFINE F == FrameMod
<1>1. F \in Nat \ {0}
  BY NumberAssumption
<1> HIDE DEF F
<1>2. /\ a % F \in 0 .. F - 1 /\ a \div F \in Int
      /\ a = F * (a \div F) + (a % F)
  BY <1>1, SMTT(30)
<1>3. a % F = a + F * (0 - (a \div F)) /\ 0 - (a \div F) \in Int
  <2>1. F * (0 - (a \div F)) = 0 - F * (a \div F) /\ F * (a \div F) \in Int
    BY <1>1, <1>2
  <2> QED
    BY <1>1, <1>2, <2>1
<1> QED
  BY <1>2, <1>3 DEF Same, F

LEMMA AfterFact ==
  ASSUME NEW n \in 0 .. FrameMod - 1
  PROVE  /\ NumberAfter(n) \in 0 .. FrameMod - 1
         /\ Same(NumberAfter(n), n + 1)
BY SameRemainder, NumberAssumption DEF NumberAfter

\* work counts from the expected number to the one read.
LEMMA LostFact ==
  ASSUME NEW n \in 0 .. FrameMod - 1, expected \in 0 .. FrameMod - 1
  PROVE  /\ LostFrames(n) \in 0 .. FrameMod - 1
         /\ Same(LostFrames(n), n - expected)
<1>1. FrameMod \in Nat \ {0} /\ FrameMod * 1 = FrameMod /\ FrameMod * 0 = 0
  BY NumberAssumption
<1>2. /\ LostFrames(n) \in 0 .. FrameMod - 1
      /\ \/ LostFrames(n) = n - expected + FrameMod * 1
         \/ LostFrames(n) = n - expected + FrameMod * 0
  BY <1>1 DEF LostFrames
<1> QED
  BY <1>2 DEF Same

(***************************************************************************)
(* What the receiver takes from a header.                                  *)
(***************************************************************************)

\* The bits of the header that no CRC protects: none of the plain link's 48,
\* and of the coded link's 96 the two highest of the length of a TB: the loop of
\* pack_crc stops when i * 10 + j reaches 96, in the middle of the last byte.
LEMMA UncheckedFact == UncheckedBits \subseteq {78, 79} /\
                       (HeaderLen = 48 => UncheckedBits = {})
<1> SUFFICES ASSUME NEW bit \in UncheckedBits
             PROVE  HeaderLen = 96 /\ bit \in {78, 79}
  OBVIOUS
<1>1. HeaderLen \in {48, 96}
  BY HeaderAssumption
<1>2. bit \in 0 .. HeaderLen - CrcBits - 1
  BY <1>1 DEF UncheckedBits, Bits, CrcBits
<1>3. bit \notin CoveredBits
  BY DEF UncheckedBits
<1> DEFINE i == bit \div 8
           j == bit % 8
<1>4. i \in Nat /\ j \in 0 .. 7 /\ bit = i * 8 + j
  BY <1>1, <1>2 DEF CrcBits
<1> HIDE DEF i, j
<1>5. CASE HeaderLen = 48
  <2>1. CrcBytes = 4
    BY <1>5 DEF CrcBytes, CrcBits
  <2>2. i \in CoveredBytes /\ i * CrcBytes + j < HeaderLen
    BY <1>2, <1>4, <1>5, <2>1 DEF CoveredBytes, CrcBits
  <2> QED
    BY <1>2, <1>3, <1>4, <1>5, <2>2 DEF CoveredBits, CrcBits
<1>6. CASE HeaderLen = 96
  <2>1. CrcBytes = 10
    BY <1>6 DEF CrcBytes, CrcBits
  <2>2. i \in CoveredBytes
    BY <1>2, <1>4, <1>6, <2>1 DEF CoveredBytes, CrcBits
  <2>3. ~(i * CrcBytes + j < HeaderLen)
    BY <1>2, <1>3, <1>4, <1>6, <2>2 DEF CoveredBits, CrcBits
  <2> QED
    BY <1>2, <1>4, <1>6, <2>1, <2>3 DEF CrcBits
<1> QED
  BY <1>1, <1>5, <1>6

\* Those two bits belong to the length of a TB, and to no other field.
LEMMA UncheckedField ==
  ASSUME NEW bit \in UncheckedBits, NEW f \in FieldNames, bit \in FieldBits(f)
  PROVE  f = "tbPayload"
<1>1. HeaderLen = 96 /\ bit \in {78, 79}
  BY UncheckedFact, HeaderAssumption
<1>2. /\ DOMAIN PlainFields = {"payload", "number", "cnst", "feedback"}
      /\ DOMAIN FecFields
           = {"tb", "fecFeedback", "offset", "fec", "tbPayload"}
  BY DEF PlainFields, FecFields
<1>3. CASE f \in DOMAIN PlainFields
  <2>1. bit \in PlainFields[f]
    BY <1>3 DEF FieldBits
  <2> QED
    BY <1>1, <1>2, <1>3, <2>1 DEF PlainFields, Bits
<1>4. CASE f \notin DOMAIN PlainFields
  <2>1. bit \in FecFields[f] /\ f \in DOMAIN FecFields
    BY <1>4 DEF FieldBits, FieldNames
  <2> QED
    BY <1>1, <1>2, <2>1 DEF FecFields, Bits
<1> QED
  BY <1>3, <1>4

\* Of a header that is accepted, all may be wrong, by chance, or the number is
\* right and only the length of a TB may not be.
LEMMA HeaderRead ==
  ASSUME number \in 0 .. FrameMod - 1, HearFrame \/ ChanceFrame
  PROVE  \E n \in 0 .. FrameMod - 1, cnst \in Nat,
            wrong \in SUBSET FieldNames :
           /\ Accept(n, cnst, wrong)
           /\ \/ wrong = FieldNames
              \/ n = number /\ wrong \subseteq {"tbPayload"}
<1>1. Cnsts \subseteq Nat /\ CnstField \subseteq Nat
  BY CnstsAssumption DEF CnstField
<1>2. ASSUME NEW wrong, wrong \subseteq {"tbPayload"}, Read(wrong)
      PROVE  \E cnst \in Nat : Accept(number, cnst, wrong)
  <2>1. "number" \notin wrong /\ "cnst" \notin wrong
    BY <1>2
  <2>2. PICK n \in {number}, cnst \in Cnsts : Accept(n, cnst, wrong)
    BY <1>2, <2>1 DEF Read, AsRead
  <2> QED
    BY <1>1, <2>2
<1>3. CASE HearFrame
  <2>1. PICK wrong \in SUBSET FieldNames :
               Read(wrong) /\ wrong \subseteq {"tbPayload"}
    <3>1. CASE Read({})
      BY <3>1
    <3>2. ASSUME NEW bit \in UncheckedBits,
                 Read({f \in FieldNames : bit \in FieldBits(f)})
          PROVE  \E wrong \in SUBSET FieldNames :
                   Read(wrong) /\ wrong \subseteq {"tbPayload"}
      <4>1. {f \in FieldNames : bit \in FieldBits(f)} \subseteq {"tbPayload"}
        BY UncheckedField
      <4> QED
        BY <3>2, <4>1
    <3> QED
      BY <1>3, <3>1, <3>2 DEF HearFrame
  <2> QED
    BY <1>2, <2>1
<1>4. CASE ChanceFrame
  <2>1. PICK n \in {number} \cup 0 .. FrameMod - 1,
             cnst \in Cnsts \cup CnstField :
               Accept(n, cnst, FieldNames)
    BY <1>4 DEF ChanceFrame, Read, AsRead
  <2> QED
    BY <1>1, <2>1
<1> QED
  BY <1>3, <1>4

(***************************************************************************)
(* The inductive invariant.  The peer's number is the expected one plus    *)
(* the frames that were missed, unless the last number was misread; then   *)
(* it is the miscount that makes up for the difference, which is why the   *)
(* next number that is right corrects the total.                           *)
(***************************************************************************)
Numbered ==
  /\ number \in 0 .. FrameMod - 1
  /\ expected \in 0 .. FrameMod - 1
  /\ miscount \in 0 .. FrameMod - 1
  /\ missed \in Nat
  /\ renumbered \in BOOLEAN /\ restarted \in BOOLEAN
  /\ renumbered => restarted
  /\ (~renumbered /\ ~ByChance) => Same(number, expected + missed)
  /\ ~restarted => Same(number, expected + missed - miscount)
  /\ LostTotal

LEMMA InitNumbered == EqInit => Numbered
<1> SUFFICES ASSUME EqInit PROVE Numbered
  OBVIOUS
<1>1. FrameMod \in Nat \ {0}
  BY NumberAssumption
<1>2. Same(0, 0 + 0) /\ Same(0, 0 + 0 - 0)
  BY SameSelf
<1>3. /\ number = 0 /\ expected = 0 /\ missed = 0 /\ miscount = 0
      /\ renumbered = FALSE /\ restarted = FALSE
      /\ 0 \in 0 .. FrameMod - 1
  BY <1>1 DEF EqInit
<1> QED
  BY <1>2, <1>3 DEF Numbered, LostTotal

\* A frame that nobody sees.
LEMMA LoseNumbered ==
  ASSUME Numbered, LoseFrame
  PROVE  Numbered'
<1>1. /\ missed' = missed + 1 /\ number' = NumberAfter(number)
      /\ UNCHANGED <<expected, miscount, spoilt, renumbered, restarted>>
  BY DEF LoseFrame, rxVars
<1>2. /\ number \in Int /\ expected \in Int /\ miscount \in Int
      /\ missed \in Int /\ number' \in Int
      /\ NumberAfter(number) \in 0 .. FrameMod - 1
      /\ Same(number', number + 1)
  BY <1>1, AfterFact DEF Numbered
<1>3. ASSUME NEW x \in Int, Same(number, x)
      PROVE  Same(number', x + 1)
  <2>1. Same(number' + number, number + 1 + x)
    BY <1>2, <1>3, SameSum
  <2>2. Same(number, number)
    BY <1>2, SameSelf
  <2>3. Same(number' + number - number, number + 1 + x - number)
    BY <1>2, <2>1, <2>2, SameSum
  <2>4. /\ \A m \in Int : m + number - number = m
        /\ number + 1 + x - number = x + 1
    BY <1>2
  <2> QED
    BY <1>2, <2>3, <2>4
<1>4. (~renumbered /\ ~ByChance) => Same(number', expected + missed')
  <2>1. ASSUME Same(number, expected + missed)
        PROVE  Same(number', expected + missed')
    <3>1. Same(number', expected + missed + 1)
      BY <1>2, <1>3, <2>1
    <3>2. expected + missed + 1 = expected + missed'
      BY <1>1, <1>2
    <3> QED
      BY <3>1, <3>2
  <2> QED
    BY <2>1 DEF Numbered
<1>5. ~restarted => Same(number', expected + missed' - miscount)
  <2>1. ASSUME Same(number, expected + missed - miscount)
        PROVE  Same(number', expected + missed' - miscount)
    <3>1. Same(number', expected + missed - miscount + 1)
      BY <1>2, <1>3, <2>1
    <3>2. expected + missed - miscount + 1 = expected + missed' - miscount
      BY <1>1, <1>2
    <3> QED
      BY <3>1, <3>2
  <2> QED
    BY <2>1 DEF Numbered
<1>6. missed' \in Nat /\ number' \in 0 .. FrameMod - 1
  BY <1>1, <1>2 DEF Numbered
<1> QED
  BY <1>1, <1>4, <1>5, <1>6 DEF Numbered, LostTotal, ByChance

\* The total after number n: what n is ahead of the peer's number.
LEMMA Miscounted ==
  ASSUME Numbered, ~restarted, NEW n \in 0 .. FrameMod - 1
  PROVE  LET ahead == (miscount + LostFrames(n) - missed) % FrameMod
         IN  ahead \in 0 .. FrameMod - 1 /\ Same(ahead, n - number)
<1> DEFINE total == miscount + LostFrames(n) - missed
           ahead == total % FrameMod
<1>1. /\ number \in Int /\ expected \in Int /\ miscount \in Int
      /\ missed \in Int /\ n \in Int
      /\ LostFrames(n) \in Int /\ Same(LostFrames(n), n - expected)
      /\ Same(number, expected + missed - miscount)
  BY LostFact DEF Numbered
<1>2. total \in Int
  BY <1>1
<1>3. ahead \in 0 .. FrameMod - 1 /\ Same(ahead, total)
  BY <1>2, SameRemainder
<1>4. Same(number + LostFrames(n), expected + missed - miscount + n - expected)
  <2>1. Same(number + LostFrames(n),
             (expected + missed - miscount) + (n - expected))
    BY <1>1, SameSum
  <2>2. (expected + missed - miscount) + (n - expected)
          = expected + missed - miscount + n - expected
    BY <1>1
  <2> QED
    BY <2>1, <2>2
<1> HIDE DEF ahead
<1>5. Same(ahead + (number + LostFrames(n)),
           total + (expected + missed - miscount + n - expected))
  BY <1>1, <1>2, <1>3, <1>4, SameSum
<1>6. Same(number + LostFrames(n), number + LostFrames(n))
  BY <1>1, SameSelf
<1>7. PICK a \in Int, b \in Int, c \in Int :
        /\ a = ahead + (number + LostFrames(n))
        /\ b = total + (expected + missed - miscount + n - expected)
        /\ c = number + LostFrames(n)
  BY <1>1, <1>2, <1>3
<1>8. Same(a - c, b - c)
  <2>1. Same(a, b) /\ Same(c, c)
    BY <1>5, <1>6, <1>7
  <2> QED
    BY <2>1, SameSum
<1>9. a - c = ahead /\ b - c = n - number
  BY <1>1, <1>3, <1>7
<1>10. Same(ahead, n - number)
  BY <1>8, <1>9
<1> QED
  BY <1>3, <1>10 DEF ahead

\* A header that is accepted.
LEMMA AcceptNumbered ==
  ASSUME Numbered, NEW n \in 0 .. FrameMod - 1, NEW cnst, NEW wrong,
         Accept(n, cnst, wrong), wrong = FieldNames \/ n = number
  PROVE  Numbered'
<1>1. /\ expected' = NumberAfter(n) /\ number' = NumberAfter(number)
      /\ missed' = 0 /\ renumbered' = FALSE /\ restarted' = restarted
      /\ miscount' = IF restarted THEN miscount
                     ELSE (miscount + LostFrames(n) - missed) % FrameMod
      /\ ByChance' <=> wrong = FieldNames
  BY DEF Accept, ExpectedAfter, ByChance
<1>2. /\ number \in 0 .. FrameMod - 1 /\ number \in Int /\ n \in Int
      /\ number' \in 0 .. FrameMod - 1 /\ expected' \in 0 .. FrameMod - 1
      /\ Same(number', number + 1) /\ Same(expected', n + 1)
  BY <1>1, AfterFact DEF Numbered
<1>3. /\ miscount' \in 0 .. FrameMod - 1
      /\ ~restarted => Same(miscount', n - number)
  BY <1>1, Miscounted DEF Numbered
<1>4. ~ByChance' => Same(number', expected' + missed')
  <2>1. ASSUME n = number
        PROVE  Same(number', expected' + missed')
    <3>1. number' = expected' + missed'
      BY <1>1, <1>2, <2>1
    <3> QED
      BY <1>2, <3>1, SameSelf
  <2> QED
    BY <1>1, <2>1
<1>5. ~restarted' => Same(number', expected' + missed' - miscount')
  <2>1. SUFFICES ASSUME ~restarted
                 PROVE  Same(number', expected' + missed' - miscount')
    BY <1>1
  <2>2. PICK x \in Int, y \in Int, z \in Int :
               x = number' /\ y = expected' /\ z = miscount'
    BY <1>2, <1>3
  <2>3. Same(x, number + 1) /\ Same(y, n + 1) /\ Same(z, n - number)
    BY <1>2, <1>3, <2>1, <2>2
  <2>4. Same(x + z, number + 1 + (n - number))
    BY <1>2, <2>3, SameSum
  <2>5. Same(x + z - y, number + 1 + (n - number) - (n + 1))
    BY <1>2, <2>3, <2>4, SameSum
  <2>6. number + 1 + (n - number) - (n + 1) = 0
    BY <1>2
  <2>7. Same(x + z - y, 0) /\ Same(y - z, y - z)
    BY <2>5, <2>6, SameSelf
  <2>8. Same((x + z - y) + (y - z), 0 + (y - z))
    BY <2>7, SameSum
  <2>9. (x + z - y) + (y - z) = x /\ 0 + (y - z) = y + 0 - z
    OBVIOUS
  <2>10. Same(x, y + 0 - z)
    BY <2>8, <2>9
  <2> QED
    BY <1>1, <2>2, <2>10
<1>6. LostTotal'
  <2>1. SUFFICES ASSUME ~restarted, n = number
                 PROVE  miscount' = 0
    BY <1>1 DEF LostTotal
  <2>2. Same(miscount', 0) /\ 0 \in 0 .. FrameMod - 1
    <3>1. n - number = 0
      BY <1>2, <2>1
    <3>2. Same(miscount', n - number)
      BY <1>3, <2>1
    <3>3. 0 \in 0 .. FrameMod - 1
      BY NumberAssumption
    <3> QED
      BY <3>1, <3>2, <3>3, Zenon
  <2>3. PICK z \in 0 .. FrameMod - 1 : z = miscount'
    BY <1>3
  <2>4. z = 0
    BY <2>2, <2>3, SameNumber
  <2> QED
    BY <2>3, <2>4
<1> QED
  BY <1>1, <1>2, <1>3, <1>4, <1>5, <1>6 DEF Numbered

LEMMA NextNumbered == Numbered /\ [EqNext]_eqVars => Numbered'
<1> SUFFICES ASSUME Numbered, [EqNext]_eqVars PROVE Numbered'
  OBVIOUS
<1>1. CASE LoseFrame
  BY <1>1, LoseNumbered
<1>2. CASE HearFrame \/ ChanceFrame
  <2>1. PICK n \in 0 .. FrameMod - 1, cnst \in Nat,
             wrong \in SUBSET FieldNames :
               /\ Accept(n, cnst, wrong)
               /\ \/ wrong = FieldNames
                  \/ n = number /\ wrong \subseteq {"tbPayload"}
    BY <1>2, HeaderRead DEF Numbered
  <2> QED
    BY <2>1, AcceptNumbered
<1>3. CASE PeerRestart
  <2>1. 0 \in 0 .. FrameMod - 1
    BY NumberAssumption
  <2> QED
    BY <1>3, <2>1 DEF PeerRestart, Numbered, LostTotal
<1>4. CASE EqFade \/ UNCHANGED eqVars
  <2>1. UNCHANGED <<number, expected, miscount, missed, renumbered, restarted,
                    spoilt>>
    BY <1>4 DEF EqFade, eqVars, rxVars, peerVars
  <2> QED
    BY <2>1 DEF Numbered, LostTotal, ByChance
<1> QED
  BY <1>1, <1>2, <1>3, <1>4 DEF EqNext

LEMMA NumberedInvariance == EqSpec => []Numbered
BY InitNumbered, NextNumbered, PTL DEF EqSpec

LEMMA NumberedCounts == Numbered => LostCounted
<1> SUFFICES ASSUME Numbered, ~renumbered, ~ByChance
             PROVE  LostFrames(number) = missed % FrameMod
  BY DEF LostCounted
<1>1. /\ number \in Int /\ expected \in Int /\ missed \in Int
      /\ Same(number, expected + missed)
      /\ LostFrames(number) \in 0 .. FrameMod - 1
      /\ Same(LostFrames(number), number - expected)
      /\ missed % FrameMod \in 0 .. FrameMod - 1
      /\ Same(missed % FrameMod, missed)
  BY LostFact, SameRemainder DEF Numbered
<1>2. PICK k \in 0 .. FrameMod - 1, r \in 0 .. FrameMod - 1 :
             k = LostFrames(number) /\ r = missed % FrameMod
  BY <1>1
<1>3. Same(k - r, number - expected - missed)
  BY <1>1, <1>2, SameSum
<1>4. Same(k - r + number, number - expected - missed + (expected + missed))
  BY <1>1, <1>3, SameSum
<1>5. number - expected - missed + (expected + missed) = number
  BY <1>1
<1>6. Same(k - r + number + r, number + r)
  BY <1>1, <1>4, <1>5, SameSelf, SameSum
<1>7. Same(k - r + number + r - number, number + r - number)
  BY <1>1, <1>6, SameSelf, SameSum
<1>8. k - r + number + r - number = k /\ number + r - number = r
  BY <1>1
<1>9. k = r
  BY <1>7, <1>8, SameNumber
<1> QED
  BY <1>2, <1>9

\* However many frames are lost and however often the number wraps, a frame
\* adds to the count of lost frames those lost before it, modulo FrameMod,
\* unless the header before it was accepted by chance.
THEOREM LostCountedCorrect == EqSpec => []LostCounted
BY NumberedInvariance, NumberedCounts, PTL

\* The total of lost frames recovers from every number that was misread, for
\* every number of frame numbers and every sequence of frames lost and headers
\* accepted by chance.
THEOREM LostTotalCorrect == EqSpec => []LostTotal
<1>1. Numbered => LostTotal
  BY DEF Numbered
<1> QED
  BY <1>1, NumberedInvariance, PTL

(***************************************************************************)
(* The invariant of the parser: it has a constellation, whatever it read,  *)
(* and only the length of a TB may be wrong in a header that its CRC did   *)
(* not match by chance.                                                    *)
(***************************************************************************)
Parsed ==
  /\ parserCnst \in 1 .. 4
  /\ HeaderTrusted

LEMMA NextParsed == Numbered /\ Parsed /\ [EqNext]_eqVars => Parsed'
<1> SUFFICES ASSUME Numbered, Parsed, [EqNext]_eqVars PROVE Parsed'
  OBVIOUS
<1>1. CASE HearFrame \/ ChanceFrame
  <2>1. PICK n \in 0 .. FrameMod - 1, cnst \in Nat,
             wrong \in SUBSET FieldNames :
               /\ Accept(n, cnst, wrong)
               /\ \/ wrong = FieldNames
                  \/ n = number /\ wrong \subseteq {"tbPayload"}
    BY <1>1, HeaderRead DEF Numbered
  <2>2. parserCnst' \in 1 .. 4
    BY <2>1 DEF Accept, ParsedCnst, Parsed
  <2>3. HeaderTrusted'
    BY <2>1 DEF Accept, HeaderTrusted, ByChance
  <2> QED
    BY <2>2, <2>3 DEF Parsed
<1>2. CASE LoseFrame \/ PeerRestart \/ EqFade \/ UNCHANGED eqVars
  <2>1. UNCHANGED <<parserCnst, spoilt>>
    BY <1>2 DEF LoseFrame, PeerRestart, EqFade, rxVars, eqVars
  <2> QED
    BY <2>1 DEF Parsed, HeaderTrusted, ByChance
<1> QED
  BY <1>1, <1>2 DEF EqNext

LEMMA ParsedInvariance == EqSpec => []Parsed
<1>1. EqInit => Parsed
  BY DEF EqInit, Parsed, HeaderTrusted
<1> QED
  BY <1>1, NextParsed, NumberedInvariance, PTL DEF EqSpec

\* The frame number always fits in its field, and the parser always has a
\* constellation to demodulate with, also after a header that says UNKNOWN.
THEOREM EqTypeCorrect == EqSpec => []EqTypeOK
<1>1. Numbered /\ Parsed => EqTypeOK
  BY DEF Numbered, Parsed, EqTypeOK
<1> QED
  BY <1>1, NumberedInvariance, ParsedInvariance, PTL

\* With either header, a single wrong bit that passes the CRC is in the
\* length of a TB.
THEOREM HeaderTrustedCorrect == EqSpec => []HeaderTrusted
<1>1. Parsed => HeaderTrusted
  BY DEF Parsed
<1> QED
  BY <1>1, ParsedInvariance, PTL

\* What FeedbackDecision promises holds of the receiver: it calls get_feedback
\* as a whole, once per accepted frame, and changes the decision nowhere else.
THEOREM DecidesAsSpecified == EqSpec => Spec
<1>1. EqInit => Init
  BY DEF EqInit
<1>2. [EqNext]_eqVars => [Next]_vars
  <2>1. ASSUME NEW wrong, Read(wrong)
        PROVE  GetFeedback
    BY <2>1 DEF Read, Accept
  <2>2. HearFrame \/ ChanceFrame => GetFeedback
    BY <2>1 DEF HearFrame, ChanceFrame
  <2> QED
    BY <2>2 DEF EqNext, LoseFrame, PeerRestart, EqFade, Next, eqVars
<1> QED
  BY <1>1, <1>2, PTL DEF EqSpec, Spec

-----------------------------------------------------------------------------
(***************************************************************************)
(* What A sends with is one decision of B, for every table, kind of link,  *)
(* mode, bound on queues and air, and number of restarts, as long as every *)
(* estimated SNR is positive.                                              *)
(***************************************************************************)
SchemeSet == [cnst : Nat, fec : Nat]

\* What B may have published, what may be on its way to A, and what A may
\* send with.
Decisions == {Entry(m) : m \in decided}
Offers == Decisions \cup {FirstOffer}
Schemes == Decisions \cup {FirstScheme}

Holds(queue, S) ==
  queue \in Seq(SchemeSet) /\ \A i \in 1 .. Len(queue) : queue[i] \in S

(***************************************************************************)
(* The inductive invariant: everything between B's decision and A's framer *)
(* is a decision B has made or the first offer.  That the decision stays   *)
(* in the table is needed: an entry's constellation is never UNKNOWN, so a *)
(* message replaces both halves of a scheme, or (on the plain link) none.  *)
(***************************************************************************)
LoopInv ==
  /\ IInv
  /\ link \in {"coded", "plain"}
  /\ InitialMcs \in decided /\ decided \subseteq McsIds
  /\ Holds(published, Decisions)
  /\ offered \in Offers
  /\ Holds(air, Offers)
  /\ Holds(messages, Offers)
  /\ header \in Schemes
  /\ current \in Schemes

\* The entries of the table and the first scheme, by the kind of link.
LEMMA EntryFact ==
  ASSUME link \in {"coded", "plain"}, NEW m \in McsIds
  PROVE  /\ Entry(m) \in SchemeSet
         /\ Entry(m).cnst # Unknown
         /\ link = "plain" => Entry(m).fec = NoCode
BY McsAssumption DEF Entry, Scheme, SchemeSet, Unknown, NoCode

LEMMA FirstFact ==
  ASSUME link \in {"coded", "plain"},
         InitialMcs \in decided, decided \subseteq McsIds
  PROVE  /\ FirstOffer \in SchemeSet /\ FirstScheme \in SchemeSet
         /\ link = "coded" => FirstOffer \in Decisions
         /\ link = "plain" => FirstOffer = Scheme(Unknown, NoCode)
         /\ link = "plain" => FirstScheme.fec = NoCode
BY EntryFact
   DEF FirstOffer, FirstScheme, Scheme, SchemeSet, Decisions, Unknown, NoCode

\* A decision replaces a scheme as a whole; the first offer replaces it as a
\* whole too, or leaves it alone.
LEMMA UpdatedFact ==
  ASSUME LoopInv, NEW msg
  PROVE  /\ msg \in Decisions => Updated(offered, msg) = msg
         /\ msg \in Offers => Updated(header, msg) \in Schemes
<1>1. /\ link \in {"coded", "plain"}
      /\ InitialMcs \in decided /\ decided \subseteq McsIds
      /\ header \in Schemes
  BY DEF LoopInv
<1>2. ASSUME msg \in Decisions, NEW old
      PROVE  Updated(old, msg) = msg
  <2>1. PICK m \in McsIds : msg = Entry(m)
    BY <1>1, <1>2 DEF Decisions
  <2>2. msg \in SchemeSet /\ msg.cnst # Unknown
    BY <1>1, <2>1, EntryFact
  <2> QED
    BY <2>2 DEF Updated, Scheme, SchemeSet
<1>3. ASSUME msg = FirstOffer, link = "plain"
      PROVE  Updated(header, msg) = header
  <2>1. header \in SchemeSet /\ header.fec = NoCode
    BY <1>1, <1>3, EntryFact, FirstFact DEF Schemes, Decisions
  <2>2. msg = Scheme(Unknown, NoCode)
    BY <1>1, <1>3, FirstFact
  <2> QED
    BY <2>1, <2>2 DEF Updated, Scheme, SchemeSet
<1>4. link = "coded" => FirstOffer \in Decisions
  BY <1>1, FirstFact
<1> QED
  BY <1>1, <1>2, <1>3, <1>4 DEF Offers, Schemes

\* Queues.
LEMMA AppendHolds ==
  ASSUME NEW S, NEW queue, Holds(queue, S), NEW e \in SchemeSet, e \in S
  PROVE  Holds(Append(queue, e), S)
BY DEF Holds

LEMMA HeadTailHolds ==
  ASSUME NEW S, NEW queue, Holds(queue, S), queue # <<>>
  PROVE  /\ Head(queue) \in S /\ Head(queue) \in SchemeSet
         /\ Holds(Tail(queue), S)
BY DEF Holds

LEMMA EmptyHolds ==
  ASSUME NEW S
  PROVE  Holds(<<>>, S)
BY DEF Holds

LEMMA GrowHolds ==
  ASSUME NEW S, NEW T, S \subseteq T, NEW queue, Holds(queue, S)
  PROVE  Holds(queue, T)
BY DEF Holds

LEMMA InitLoopInv ==
  ASSUME PositiveSnrs
  PROVE  LoopInit => LoopInv
<1> SUFFICES ASSUME LoopInit PROVE LoopInv
  OBVIOUS
<1>1. IInv /\ link \in {"coded", "plain"}
  BY InitIInv, LoopAssumption DEF LoopInit
<1>2. InitialMcs \in decided /\ decided \subseteq McsIds
  BY TableAssumption DEF LoopInit
<1> QED
  BY <1>1, <1>2, EmptyHolds DEF LoopInit, LoopInv, Offers, Schemes

LEMMA NextLoopInv ==
  ASSUME PositiveSnrs
  PROVE  LoopInv /\ [LoopNext]_loopVars => LoopInv'
<1> SUFFICES ASSUME LoopInv, [LoopNext]_loopVars PROVE LoopInv'
  OBVIOUS
<1> USE DEF config
<1>1. /\ link \in {"coded", "plain"}
      /\ InitialMcs \in decided /\ decided \subseteq McsIds
  BY DEF LoopInv
<1>2. link' = link /\ FirstOffer' = FirstOffer /\ FirstScheme' = FirstScheme
  <2>1. link' = link
    BY DEF LoopNext, LoopFade, Estimate, ProcessFeedback, SendFrame, SendBurst,
           LoseHeader, HearHeader, ProcessHeader, ProcessInfo, NewPayload,
           RestartA, RestartB, loopVars
  <2> QED
    BY <2>1 DEF FirstOffer, FirstScheme, Entry
\* Steps that leave the decisions as they are.
<1>3. ASSUME UNCHANGED <<vars, decided>>
      PROVE  /\ IInv'
             /\ Decisions' = Decisions /\ Offers' = Offers /\ Schemes' = Schemes
             /\ InitialMcs \in decided' /\ decided' \subseteq McsIds
             /\ link' \in {"coded", "plain"}
  <2>1. IInv'
    BY <1>3, NextIInv DEF LoopInv
  <2>2. Decisions' = Decisions
    BY <1>2, <1>3 DEF Decisions, Entry
  <2> QED
    BY <1>1, <1>2, <1>3, <2>1, <2>2 DEF Offers, Schemes
<1>4. CASE LoopFade
  <2>1. IInv'
    BY <1>4, NextIInv DEF LoopInv, LoopFade, Next
  <2>2. Decisions' = Decisions /\ Offers' = Offers /\ Schemes' = Schemes
    BY <1>2, <1>4 DEF LoopFade, Decisions, Offers, Schemes, Entry
  <2> QED
    BY <1>2, <1>4, <2>1, <2>2 DEF LoopFade, LoopInv, Holds, stationA
<1>5. CASE Estimate
  <2>1. IInv' /\ lastDecision' \in McsIds
    BY <1>5, NextIInv DEF LoopInv, Estimate, Next, IInv, TypeOK, InTable
  <2>2. decided' = decided \cup {lastDecision'}
    BY <1>5 DEF Estimate
  <2>3. InitialMcs \in decided' /\ decided' \subseteq McsIds
    BY <1>1, <2>1, <2>2
  <2>4. Decisions' = Decisions \cup {Entry(lastDecision')}
    BY <1>2, <2>2 DEF Decisions, Entry
  <2>5. Entry(lastDecision') \in SchemeSet
    BY <1>1, <2>1, EntryFact
  <2>6. Offers \subseteq Offers' /\ Schemes \subseteq Schemes'
        /\ Decisions \subseteq Decisions'
    BY <1>2, <2>4 DEF Offers, Schemes
  <2>7. published' = Append(published, Entry(lastDecision'))
    BY <1>5 DEF Estimate
  <2>8. Holds(published', Decisions')
    <3>1. Holds(published, Decisions')
      BY <2>6, GrowHolds DEF LoopInv
    <3> QED
      BY <2>4, <2>5, <2>7, <3>1, AppendHolds
  <2>9. /\ offered' = offered /\ air' = air /\ messages' = messages
        /\ header' = header /\ current' = current
    BY <1>5 DEF Estimate, stationA
  <2>10. Holds(air', Offers') /\ Holds(messages', Offers')
    BY <2>6, <2>9, GrowHolds DEF LoopInv
  <2> QED
    BY <1>1, <1>2, <2>1, <2>3, <2>6, <2>8, <2>9, <2>10 DEF LoopInv
<1>6. CASE ProcessFeedback
  <2>1. /\ published' = Tail(published) /\ published # <<>>
        /\ offered' = Updated(offered, Head(published))
        /\ air' = air /\ messages' = messages /\ header' = header
        /\ current' = current /\ UNCHANGED <<vars, decided>>
    BY <1>6 DEF ProcessFeedback, stationA
  <2>2. Head(published) \in Decisions /\ Holds(Tail(published), Decisions)
    BY <2>1, HeadTailHolds DEF LoopInv
  <2>3. offered' \in Offers
    BY <2>1, <2>2, UpdatedFact DEF Offers
  <2> QED
    BY <1>3, <2>1, <2>2, <2>3 DEF LoopInv
<1>7. CASE SendFrame
  <2>1. /\ air' = Append(air, offered) /\ published' = published
        /\ offered' = offered /\ messages' = messages /\ header' = header
        /\ current' = current /\ UNCHANGED <<vars, decided>>
    BY <1>7 DEF SendFrame, stationA
  <2>2. offered \in Offers /\ offered \in SchemeSet
    BY <1>1, EntryFact, FirstFact DEF LoopInv, Offers, Decisions
  <2>3. Holds(air', Offers)
    BY <2>1, <2>2, AppendHolds DEF LoopInv
  <2> QED
    BY <1>3, <2>1, <2>3 DEF LoopInv
<1>8. CASE SendBurst
  <2>1. /\ air' = Append(air, Head(published)) /\ published # <<>>
        /\ published' = Tail(published) /\ offered' = offered
        /\ messages' = messages /\ header' = header
        /\ current' = current /\ UNCHANGED <<vars, decided>>
    BY <1>8 DEF SendBurst, stationA
  <2>2. /\ Head(published) \in Decisions /\ Head(published) \in SchemeSet
        /\ Holds(Tail(published), Decisions)
    BY <2>1, HeadTailHolds DEF LoopInv
  <2>3. Holds(air', Offers)
    BY <2>1, <2>2, AppendHolds DEF LoopInv, Offers
  <2> QED
    BY <1>3, <2>1, <2>2, <2>3 DEF LoopInv
<1>9. CASE LoseHeader
  <2>1. /\ air' = Tail(air) /\ air # <<>> /\ published' = published
        /\ offered' = offered /\ messages' = messages /\ header' = header
        /\ current' = current /\ UNCHANGED <<vars, decided>>
    BY <1>9 DEF LoseHeader, stationA
  <2>2. Holds(air', Offers)
    BY <2>1, HeadTailHolds DEF LoopInv
  <2> QED
    BY <1>3, <2>1, <2>2 DEF LoopInv
<1>10. CASE HearHeader
  <2>1. /\ air' = Tail(air) /\ air # <<>> /\ published' = published
        /\ offered' = offered /\ messages' = Append(messages, Head(air))
        /\ header' = header
        /\ current' = current /\ UNCHANGED <<vars, decided>>
    BY <1>10 DEF HearHeader
  <2>2. /\ Head(air) \in Offers /\ Head(air) \in SchemeSet
        /\ Holds(air', Offers)
    BY <2>1, HeadTailHolds DEF LoopInv
  <2>3. Holds(messages', Offers)
    BY <2>1, <2>2, AppendHolds DEF LoopInv
  <2> QED
    BY <1>3, <2>1, <2>2, <2>3 DEF LoopInv
<1>11. CASE ProcessHeader
  <2>1. /\ messages' = Tail(messages) /\ messages # <<>>
        /\ header' = Updated(header, Head(messages))
        /\ published' = published /\ offered' = offered /\ air' = air
        /\ current' = current /\ UNCHANGED <<vars, decided>>
    BY <1>11 DEF ProcessHeader
  <2>2. Head(messages) \in Offers /\ Holds(messages', Offers)
    BY <2>1, HeadTailHolds DEF LoopInv
  <2>3. header' \in Schemes
    BY <2>1, <2>2, UpdatedFact
  <2> QED
    BY <1>3, <2>1, <2>2, <2>3 DEF LoopInv
<1>12. CASE ProcessInfo
  <2>1. /\ messages' = Tail(messages) /\ messages # <<>>
        /\ published' = published /\ offered' = offered /\ air' = air
        /\ header' = header
        /\ current' = current /\ UNCHANGED <<vars, decided>>
    BY <1>12 DEF ProcessInfo
  <2>2. Holds(messages', Offers)
    BY <2>1, HeadTailHolds DEF LoopInv
  <2> QED
    BY <1>3, <2>1, <2>2 DEF LoopInv
<1>13. CASE NewPayload
  <2>1. /\ current' = header /\ published' = published /\ offered' = offered
        /\ air' = air /\ messages' = messages /\ header' = header
        /\ UNCHANGED <<vars, decided>>
    BY <1>13 DEF NewPayload
  <2> QED
    BY <1>3, <2>1 DEF LoopInv
<1>14. CASE RestartA
  <2>1. /\ current' = FirstScheme /\ header' = FirstScheme
        /\ messages' = <<>> /\ published' = published /\ offered' = offered
        /\ air' = air /\ UNCHANGED <<vars, decided>>
    BY <1>14 DEF RestartA
  <2>2. FirstScheme \in Schemes
    BY DEF Schemes
  <2> QED
    BY <1>3, <2>1, <2>2, EmptyHolds DEF LoopInv
<1>15. CASE RestartB
  <2>1. /\ published' = <<>> /\ offered' = FirstOffer
        /\ air' = air /\ messages' = messages /\ header' = header
        /\ current' = current /\ decided' = decided
    BY <1>15 DEF RestartB, stationA
  <2>2. IInv'
    BY <1>15, TableAssumption, DecisionAssumption
       DEF RestartB, LoopInv, IInv, TypeOK, InTable, RunBacked, McsIds
  <2>3. Decisions' = Decisions /\ Offers' = Offers /\ Schemes' = Schemes
    BY <1>2, <2>1 DEF Decisions, Offers, Schemes, Entry
  <2>4. FirstOffer \in Offers
    BY DEF Offers
  <2> QED
    BY <1>1, <1>2, <2>1, <2>2, <2>3, <2>4, EmptyHolds DEF LoopInv
<1>16. CASE UNCHANGED loopVars
  <2>1. /\ UNCHANGED <<vars, decided>>
        /\ published' = published /\ offered' = offered /\ air' = air
        /\ messages' = messages /\ header' = header /\ current' = current
    BY <1>16 DEF loopVars, stationA
  <2> QED
    BY <1>3, <2>1 DEF LoopInv
<1> QED
  BY <1>4, <1>5, <1>6, <1>7, <1>8, <1>9, <1>10, <1>11, <1>12, <1>13, <1>14,
     <1>15, <1>16 DEF LoopNext

\* A sends with one decision of B, constellation and code, or with what it
\* started with, across losses, delays and restarts.
THEOREM PairDecidedCorrect ==
  ASSUME PositiveSnrs
  PROVE  LoopSpec => []PairDecided
<1>1. LoopInv => PairDecided
  BY DEF LoopInv, PairDecided, Schemes, Decisions
<1>2. LoopInit => LoopInv
  BY InitLoopInv
<1>3. LoopInv /\ [LoopNext]_loopVars => LoopInv'
  BY NextLoopInv
<1> QED
  BY <1>1, <1>2, <1>3, PTL DEF LoopSpec
=============================================================================
