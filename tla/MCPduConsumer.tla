--------------------------- MODULE MCPduConsumer ---------------------------
(* Every stream of MaxTotal bytes, in PDUs of lengths in Lens, read with    *)
(* payloads smaller than, equal to and larger than those PDUs.              *)
EXTENDS PduConsumer

CONSTANTS MaxTotal, Lens

\* The streams that end at MaxTotal, made of PDUs of the given lengths.
MCStreams ==
  {B \in SUBSET (0 .. MaxTotal) :
     /\ {0, MaxTotal} \subseteq B
     /\ \A p \in B \ {MaxTotal} : \E n \in Lens : NextBound(B, p) = p + n}
=============================================================================
