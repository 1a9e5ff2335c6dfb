------------------------- MODULE MCFeedbackDecision -------------------------
(* The table of ofdm_adaptive_config.py (BPSK, QPSK from 13 dB, 8PSK from   *)
(* 18 dB, 16QAM from 23 dB) with the receiver's hysteresis of 1 dB.         *)
EXTENDS FeedbackDecision

MCLut == [m \in 0 .. 3 |-> <<0, 13, 18, 23>>[m + 1]]

\* Estimates of a channel whose noise is as strong as its signal, too.
MCSnrsLow == {-3, 0, 1, 13, 15}
=============================================================================
