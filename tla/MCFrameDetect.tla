--------------------------- MODULE MCFrameDetect ---------------------------
(* A frame of 5 samples; errors of 2 samples are corrected, later ones are  *)
(* not.  Windows end anywhere in a frame, or hold two of them.              *)
EXTENDS FrameDetect

MCWindows == {1, 3, 4, 7, 12}
=============================================================================
