-------------------------- MODULE FeedbackDecision --------------------------
(***************************************************************************)
(* The receiver's choice of the modulation and coding scheme (MCS) its     *)
(* peer should use (lib/dtl/ofdm_adaptive_feedback_decision.cc).  A table  *)
(* gives the lowest SNR of each MCS.  One estimate arrives per frame; the  *)
(* decision moves to the neighbouring MCS only after DecisionTh estimates  *)
(* in a row asked for that same move.                                      *)
(*                                                                         *)
(* SNRs are integers.  numeric_limits<double>::min(), which the            *)
(* constructor stores in the first entry, is the smallest positive double: *)
(* here it is MinPositive, so that "snr < MinPositive" says snr <= 0.      *)
(***************************************************************************)
EXTENDS Integers

CONSTANTS
  Lut,         \* Lut[m]: lowest SNR of MCS m, m \in 0 .. NumMcs - 1
  NumMcs,      \* number of entries of the table
  Hysteresis,  \* margin an estimate must have over the next threshold
  DecisionTh,  \* consecutive estimates needed
  InitialMcs,  \* the configured initial MCS
  Snrs         \* the SNRs a frame may be received with

McsIds == 0 .. NumMcs - 1

ASSUME TableAssumption ==
  /\ NumMcs \in Nat \ {0}
  /\ Lut \in [McsIds -> Int]
  /\ InitialMcs \in McsIds

ASSUME DecisionAssumption ==
  /\ Hysteresis \in Nat
  /\ DecisionTh \in Nat \ {0}
  /\ Snrs \subseteq Int

VARIABLES
  lastDecision,     \* d_last_decision: the MCS advertised to the peer
  newDecision,      \* d_new_decision: the MCS the counter counts for
  decisionCounter,  \* d_decision_counter
  snr,              \* SNR of the channel, which the next estimate reports
  asked,            \* history: direction the latest estimates asked for
  askedRun          \* history: how many in a row, since the last switch

code == <<lastDecision, newDecision, decisionCounter>>
history == <<asked, askedRun>>
vars == <<code, snr, history>>

MinPositive == 1

\* The table after the constructor: its first threshold is overwritten.
Threshold(m) == IF m = 0 THEN MinPositive ELSE Lut[m]

\* Mutant: an estimate is compared with the current threshold, not the next.
VerdictSameRow(m, s) ==
  IF s < Threshold(m) THEN -1
  ELSE IF m + 1 < NumMcs /\ s > Threshold(m) + Hysteresis THEN 1
  ELSE 0

\* Mutant: the size of the table is forgotten.
VerdictNoBound(m, s) ==
  IF s < Threshold(m) THEN -1
  ELSE IF m < NumMcs /\ s > Threshold(m) + Hysteresis THEN 1
  ELSE 0

\* What one estimate asks for: -1 a more robust MCS, 1 a faster one, 0 none.
Verdict(m, s) ==
  IF s < Threshold(m) THEN -1
  ELSE IF m + 1 < NumMcs /\ s > Threshold(m + 1) + Hysteresis THEN 1
  ELSE 0

Init ==
  /\ lastDecision = InitialMcs
  /\ newDecision = InitialMcs
  /\ decisionCounter = 0
  /\ snr \in Snrs
  /\ asked = 0
  /\ askedRun = 0

Request == Verdict(lastDecision, snr)
Target == lastDecision + Request

\* One more estimate in the direction of the previous ones, or a first one.
Witness ==
  /\ asked' = Request
  /\ askedRun' = IF asked = Request THEN askedRun + 1 ELSE 1

\* Mutant: an estimate in range keeps what was counted before it.
StayKeepCounter ==
  /\ lastDecision \in McsIds
  /\ Request = 0
  /\ asked' = 0
  /\ askedRun' = 0
  /\ UNCHANGED <<code, snr>>

\* get_feedback when the estimate suits the current MCS.
Stay ==
  /\ lastDecision \in McsIds
  /\ Request = 0
  /\ decisionCounter' = 0
  /\ asked' = 0
  /\ askedRun' = 0
  /\ UNCHANGED <<lastDecision, newDecision, snr>>

\* Mutant: a change of direction keeps the counter of the other direction.
TurnKeepCounter ==
  /\ lastDecision \in McsIds
  /\ Request # 0
  /\ Target # newDecision
  /\ newDecision' = Target
  /\ Witness
  /\ UNCHANGED <<lastDecision, decisionCounter, snr>>

\* update_decision for another MCS than the one being counted: start over.
Turn ==
  /\ lastDecision \in McsIds
  /\ Request # 0
  /\ Target # newDecision
  /\ newDecision' = Target
  /\ decisionCounter' = 0
  /\ Witness
  /\ UNCHANGED <<lastDecision, snr>>

Counted ==
  /\ lastDecision \in McsIds
  /\ Request # 0
  /\ Target = newDecision
  /\ Witness
  /\ UNCHANGED <<newDecision, snr>>

\* Mutant: the counter must exceed the threshold before the decision moves.
CountStrict ==
  /\ Counted
  /\ decisionCounter < DecisionTh
  /\ decisionCounter' = decisionCounter + 1
  /\ UNCHANGED lastDecision

\* update_decision below the threshold.
Count ==
  /\ Counted
  /\ decisionCounter + 1 < DecisionTh
  /\ decisionCounter' = decisionCounter + 1
  /\ UNCHANGED lastDecision

\* update_decision at the threshold: the decision moves.
Switch ==
  /\ lastDecision \in McsIds
  /\ Request # 0
  /\ Target = newDecision
  /\ decisionCounter + 1 >= DecisionTh
  /\ decisionCounter' = 0
  /\ lastDecision' = newDecision
  /\ asked' = 0
  /\ askedRun' = 0
  /\ UNCHANGED <<newDecision, snr>>

GetFeedback == Stay \/ Turn \/ Count \/ Switch

\* The channel changes between two frames.
Fade ==
  /\ snr' \in Snrs
  /\ UNCHANGED <<code, history>>

Next == GetFeedback \/ Fade

Spec == Init /\ [][Next]_vars

-----------------------------------------------------------------------------
(* Properties                                                              *)

\* The decision is always an entry of the table it indexes
\* (d_feedback_lut[d_last_decision], read by every get_feedback).
InTable == lastDecision \in McsIds

\* Types; the MCS being counted is also an entry of the table, since the
\* next switch makes it the index.
TypeOK ==
  /\ InTable
  /\ newDecision \in McsIds
  /\ decisionCounter \in 0 .. DecisionTh - 1
  /\ snr \in Snrs
  /\ asked \in {-1, 0, 1}
  /\ askedRun \in Nat

\* The counter never counts more than the estimates that really asked, in a
\* row, for the MCS being counted: an estimate in range, or one for the other
\* direction, in between must wipe out what was counted.
CounterBacked ==
  decisionCounter > 0 => /\ askedRun >= decisionCounter
                         /\ newDecision = lastDecision + asked

\* The receiver does not sleep on a request: DecisionTh + 1 estimates in a
\* row for one direction always move the decision.
Responsive == askedRun <= DecisionTh

\* A switch is to the neighbouring MCS, in the direction that the latest
\* DecisionTh estimates (this one included) all asked for.
SwitchBacked ==
  [][lastDecision' # lastDecision =>
       /\ lastDecision' = lastDecision + Request
       /\ \/ DecisionTh = 1
          \/ asked = Request /\ askedRun >= DecisionTh - 1]_vars

\* Settled: the channel asks for no other MCS.
Settled == Verdict(lastDecision, snr) = 0

\* No oscillation: once the channel stops changing, the decision settles and
\* stays (thresholds and hysteresis never ask for a move and its opposite).
Convergence == <>[][UNCHANGED snr]_snr => <>[]Settled
=============================================================================
