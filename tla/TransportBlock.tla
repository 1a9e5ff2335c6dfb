--------------------------- MODULE TransportBlock ---------------------------
(***************************************************************************)
(* Sizes of frames and transport blocks (TBs), shared by the framer and    *)
(* the decoder, which compute them apart (lib/dtl/fec_utils.cc and the two *)
(* blocks).  A frame is Capacity symbols.  A constellation is its number   *)
(* of bits per symbol, 0 for UNKNOWN.  Codes[f] is the (n, k) of code f.   *)
(***************************************************************************)
EXTENDS Integers

CONSTANTS
  Capacity,  \* symbols in a frame (frame_len * carriers)
  Codes,     \* Codes[f]: codeword bits n and data bits k of code f
  Cnsts,     \* constellations configured: what feedback may ask for
  CrcLen,    \* bytes of CRC in a TB
  TbMod      \* the TB number travels modulo TbMod (256)

Constellations == 1 .. 4

ASSUME SizesAssumption ==
  /\ Capacity \in Nat \ {0}
  /\ Cnsts \subseteq Constellations
  /\ CrcLen \in Nat
  /\ TbMod \in Nat \ {0}
  /\ \A f \in DOMAIN Codes : /\ Codes[f].k \in Nat \ {0}
                             /\ Codes[f].n \in Nat
                             /\ Codes[f].k < Codes[f].n

Smaller(a, b) == IF a <= b THEN a ELSE b

\* align_bits_to_bytes, align_bytes_to_syms
BitsToBytes(bits) == (bits + 7) \div 8
BytesToSyms(bytes, cnst) == (bytes * 8 + cnst - 1) \div cnst

\* compute_tb_len: codewords in the TB of a frame of so many bits.
TbCodewords(f, frameBits) ==
  IF frameBits > Codes[f].n THEN 1 + frameBits \div Codes[f].n ELSE 1

\* Whole bytes in a frame (d_current_frame_len).
FrameLen(cnst) == (Capacity * cnst) \div 8

\* d_tb_len of the framer; the decoder rounds the frame up, not down.
SentCodewords(cnst, f) == TbCodewords(f, 8 * FrameLen(cnst))
HeardCodewords(cnst, f) == TbCodewords(f, 8 * BitsToBytes(Capacity * cnst))

\* tb_payload_max: user bytes that fit in a TB.
TbPayloadMax(cnst, f) ==
  (SentCodewords(cnst, f) * Codes[f].k) \div 8 - CrcLen

\* Bits of a TB of so many bytes (CRC included): shortened codewords, each
\* with all of its check bits.
TbBits(codewords, f, bytes) ==
  codewords * (Codes[f].n - Codes[f].k) + 8 * bytes

\* expected_tb_len of the decoder, and tb_size, which is in whole bytes.
HeardBits(cnst, f, bytes) == TbBits(HeardCodewords(cnst, f), f, bytes)

\* A framer of this configuration never throws "Misconfiguration".
ASSUME ConfigurationAssumption ==
  \A cnst \in Constellations, f \in DOMAIN Codes : TbPayloadMax(cnst, f) > 0
=============================================================================
