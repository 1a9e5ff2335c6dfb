---------------------------- MODULE MCEqualizer ----------------------------
(* The first rows of the table of ofdm_adaptive_config.py (BPSK, QPSK from  *)
(* 13 dB, 8PSK from 18 dB) with the receiver's hysteresis of 1 dB, under    *)
(* the coded link's header; frame numbers wrap at 3.                        *)
EXTENDS Equalizer

MCLut == [m \in 0 .. 2 |-> <<0, 13, 18>>[m + 1]]

\* One SNR of each interval that the thresholds and their hysteresis part.
MCSnrs == {12, 14, 15, 18, 20}
=============================================================================
