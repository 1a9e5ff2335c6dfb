----------------------------- MODULE MCFecFrame -----------------------------
EXTENDS FecFrame

CONSTANTS MaxTotal, Lens

MCStreams ==
  {B \in SUBSET (0 .. MaxTotal) :
     /\ {0, MaxTotal} \subseteq B
     /\ \A p \in B \ {MaxTotal} : \E n \in Lens : NextBound(B, p) = p + n}

\* max_empty_frames of the examples: no limit.
MCNoLimit == -1

MCCodes == << [n |-> 32, k |-> 24], [n |-> 28, k |-> 16] >>
=============================================================================
