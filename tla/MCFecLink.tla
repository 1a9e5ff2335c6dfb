----------------------------- MODULE MCFecLink -----------------------------
EXTENDS FecLink

CONSTANTS MaxTotal, Lens

MCStreams ==
  {B \in SUBSET (0 .. MaxTotal) :
     /\ {0, MaxTotal} \subseteq B
     /\ \A p \in B \ {MaxTotal} : \E n \in Lens : NextBound(B, p) = p + n}

\* Few check bits: a TB may be shorter than what is left of a frame.
MCOneCode == << [n |-> 32, k |-> 30] >>

\* max_empty_frames of the examples: no limit.
MCNoLimit == -1

MCCodes == << [n |-> 32, k |-> 24], [n |-> 28, k |-> 16] >>
=============================================================================
