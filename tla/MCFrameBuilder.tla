--------------------------- MODULE MCFrameBuilder ---------------------------
(* Frames of 1, 3 and 5 user bytes, and PDUs that are shorter, equal and    *)
(* longer than those.                                                       *)
EXTENDS FrameBuilder

CONSTANTS MaxTotal, Lens

MCStreams ==
  {B \in SUBSET (0 .. MaxTotal) :
     /\ {0, MaxTotal} \subseteq B
     /\ \A p \in B \ {MaxTotal} : \E n \in Lens : NextBound(B, p) = p + n}
=============================================================================
