---------------------------- MODULE FrameDetect ----------------------------
(***************************************************************************)
(* The frame detector of the receiver (ofdm_adaptive_frame_detect_bb).     *)
(* The synchronization marks the sample where it believes a frame starts;  *)
(* fix_sync copies these triggers, window by window as the scheduler calls *)
(* it, moves those that are a little off, and generates missing ones.      *)
(*                                                                         *)
(* Positions are relative to the current window: 0 is its first sample,    *)
(* negative ones have been handed on already.  One action is the turns of  *)
(* the loop up to the next sample at which it does something.              *)
(***************************************************************************)
EXTENDS Integers

CONSTANTS
  FrameLen,     \* d_frame_len: samples between two triggers
  Tolerance,    \* errors below it are corrected (10 in the code)
  SyncedTh,     \* CONSECUTIVE_SYNCED_FRAMES_TH
  MaxMissing,   \* MAX_CONSECUTIVE_MISSING_CORRECTION
  ResetAfter,   \* triggers before the accumulated error is reset (10)
  Windows,      \* samples a call may get
  MaxRemainder  \* bound: samples in a row without a trigger

ASSUME DetectAssumption ==
  /\ FrameLen \in Nat /\ Tolerance \in Nat /\ Tolerance > 2
  /\ FrameLen > Tolerance
  /\ SyncedTh \in Nat \ {0} /\ MaxMissing \in Nat /\ MaxMissing >= SyncedTh
  /\ ResetAfter \in Nat
  /\ Windows \subseteq Nat \ {0}
  /\ MaxRemainder \in Nat

VARIABLES
  remainder,  \* d_remainder: samples from the last trigger to the window's end
  accError,   \* d_acc_error: one-sample errors since the last correction
  triggers,   \* d_trigger_counter, counted up to where its size matters
  synced,     \* d_synced
  inSync,     \* d_in_sync
  len,        \* len, the window of the current call; 0 between calls
  last,       \* last_trigger_index
  seen,       \* the last sample whose trigger has been looked at
  found,      \* trigger_found
  mark,       \* history: the last trigger written to the output
  generated   \* history: triggers generated since the last one found

members == <<remainder, accError, triggers, synced, inSync>>
vars == <<members, len, last, seen, found, mark, generated>>

Size(n) == IF n < 0 THEN -n ELSE n

Init ==
  /\ remainder = 0 /\ accError = 0 /\ triggers = 0
  /\ synced = 0 /\ inSync = FALSE
  /\ len = 0 /\ last = 0 /\ seen = -1 /\ found = FALSE
  /\ mark = 0 /\ generated = 0

\* fix_sync is called.
Call ==
  /\ len = 0
  /\ len' \in Windows
  /\ last' = -remainder
  /\ seen' = -1
  /\ found' = FALSE
  /\ UNCHANGED <<members, mark, generated>>

\* Mutant: the end of the window is not looked at.
ExpiresInside ==
  inSync /\ last + FrameLen + Tolerance + 1 < len

\* In sync, the sample at which the loop stops waiting for a trigger: when it
\* is more than Tolerance late or, at the end of the window, more than one
\* sample late.
Expiry ==
  IF last + FrameLen + Tolerance + 1 < len
  THEN last + FrameLen + Tolerance + 1
  ELSE len - 1

Expires == inSync /\ Expiry > last + FrameLen + 1

\* The input has a trigger at k, and none on the way to it.
NextTrigger(k) ==
  /\ len > 0
  /\ k \in seen + 1 .. len - 1
  /\ Expires => k <= Expiry

Error(k) == k - last - FrameLen

\* d_synced and d_in_sync after a trigger at k.
CountSynced(k) ==
  IF Size(Error(k)) > 1 THEN synced' = 0 /\ inSync' = FALSE
  ELSE IF synced < SyncedTh
       THEN synced' = synced + 1 /\ inSync' = inSync
       ELSE synced' = synced /\ inSync' = TRUE

\* d_trigger_counter, which nothing ever resets.
CountTrigger ==
  triggers' = IF accError # 0 /\ triggers <= ResetAfter THEN triggers + 1
              ELSE triggers

\* d_acc_error with the error of the trigger at k.
Accumulated(k) ==
  IF Size(Error(k)) = 1 THEN accError + Error(k) ELSE accError

AfterReset(e) == IF triggers' > ResetAfter THEN 0 ELSE e

\* The trigger at k is to be moved, to a sample of this window or, where the
\* code does not look, of an earlier one.
Moves(k) ==
  /\ Accumulated(k) > 1 \/ Size(Error(k)) \in 2 .. Tolerance - 1
  /\ last + FrameLen < len

\* A trigger at k that is moved: back over what has been seen, or forward
\* over what will not be.
CorrectTrigger(k) ==
  /\ NextTrigger(k)
  /\ Moves(k)
  /\ CountTrigger
  /\ CountSynced(k)
  /\ accError' = 0
  /\ last' = last + FrameLen
  /\ seen' = IF Error(k) > 0 THEN k ELSE last + FrameLen
  /\ remainder' = len - last'
  /\ found' = TRUE
  /\ mark' = last'
  /\ generated' = 0
  /\ UNCHANGED len

\* A trigger at k that stays where it is.
AcceptTrigger(k) ==
  /\ NextTrigger(k)
  /\ ~Moves(k)
  /\ CountTrigger
  /\ CountSynced(k)
  /\ accError' = AfterReset(Accumulated(k))
  /\ last' = k
  /\ seen' = k
  /\ remainder' = len - k
  /\ found' = TRUE
  /\ mark' = k
  /\ generated' = 0
  /\ UNCHANGED len

\* Mutant: the sample of the generated trigger is forgotten after the call.
GenerateForgets ==
  /\ len > 0
  /\ Expires
  /\ last' = last + FrameLen
  /\ seen' = Expiry
  /\ found' = TRUE
  /\ IF synced - 1 < SyncedTh - MaxMissing
     THEN synced' = 0 /\ inSync' = FALSE
     ELSE synced' = synced - 1 /\ inSync' = inSync
  /\ mark' = last'
  /\ generated' = generated + 1
  /\ UNCHANGED <<remainder, accError, triggers, len>>

\* Mutant: a trigger that was generated counts as a good one.
GenerateTrusted ==
  /\ len > 0
  /\ Expires
  /\ last' = last + FrameLen
  /\ seen' = Expiry
  /\ remainder' = len - last'
  /\ found' = TRUE
  /\ mark' = last'
  /\ generated' = generated + 1
  /\ UNCHANGED <<accError, triggers, synced, inSync, len>>

\* No trigger in time: one is generated where it was expected, and after so
\* many the detector is no longer in sync.
GenerateTrigger ==
  /\ len > 0
  /\ Expires
  /\ last' = last + FrameLen
  /\ seen' = Expiry
  /\ remainder' = len - last'
  /\ found' = TRUE
  /\ IF synced - 1 < SyncedTh - MaxMissing
     THEN synced' = 0 /\ inSync' = FALSE
     ELSE synced' = synced - 1 /\ inSync' = inSync
  /\ mark' = last'
  /\ generated' = generated + 1
  /\ UNCHANGED <<accError, triggers, len>>

\* Mutant: the samples of a window without a trigger are not counted.
ReturnForgets ==
  /\ len > 0
  /\ ~Expires
  /\ found \/ remainder + len <= MaxRemainder
  /\ len' = 0
  /\ mark' = mark - len
  /\ UNCHANGED <<members, last, seen, found, generated>>

\* No trigger in the rest of the window, and none is missing yet.
Return ==
  /\ len > 0
  /\ ~Expires
  /\ found \/ remainder + len <= MaxRemainder
  /\ remainder' = IF found THEN remainder ELSE remainder + len
  /\ len' = 0
  /\ mark' = mark - len
  /\ UNCHANGED <<accError, triggers, synced, inSync, last, seen, found,
                 generated>>

FoundTrigger ==
  \E k \in seen + 1 .. len - 1 : CorrectTrigger(k) \/ AcceptTrigger(k)

Next == Call \/ FoundTrigger \/ GenerateTrigger \/ Return

Spec == Init /\ [][Next]_vars

-----------------------------------------------------------------------------
(* Properties                                                              *)

\* Types.  No trigger is written more than Tolerance - 1 samples before the
\* window, among those already handed on, and in sync no more than 2; errors
\* of one sample never add up to more than 1 sample of delay uncorrected.
TypeOK ==
  /\ remainder \in Nat
  /\ accError \in Int /\ accError <= 1
  /\ triggers \in 0 .. ResetAfter + 1
  /\ synced \in SyncedTh - MaxMissing .. SyncedTh
  /\ len \in Windows \cup {0}
  /\ len > 0 /\ found => last >= 1 - Tolerance
  /\ len > 0 /\ found /\ inSync => last >= -2

\* Between calls the detector knows how long ago the last trigger of its
\* output was, wherever it was moved to or generated, and over any number of
\* windows without one.
RemainderTrue == len = 0 => remainder = -mark

\* In sync the triggers are never further apart than a frame and the delay
\* after which one is generated: no frame goes by without a trigger, wherever
\* the windows end.
GapBounded ==
  [][(inSync /\ len > 0 /\ len' > 0) =>
       mark' - mark <= FrameLen + Tolerance + 1]_vars

\* The detector does not run on its own triggers for ever: it generates at
\* most MaxMissing + 1 in a row.
FreewheelBounded == generated <= MaxMissing + 1
=============================================================================
