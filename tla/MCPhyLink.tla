----------------------------- MODULE MCPhyLink -----------------------------
(* Every stream of PDUs of the lengths Lens, written with room for part of  *)
(* a header, for part of a PDU and for several, and read with payloads      *)
(* that hold one PDU, two, or a part of one.                                *)
EXTENDS PhyLink, MCPduConsumer
=============================================================================
