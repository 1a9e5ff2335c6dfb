---------------------------- MODULE PacketHeader ----------------------------
(***************************************************************************)
(* The header in front of each frame (ofdm_adaptive_packet_header.cc): the *)
(* layout of its fields, the bits its CRC is computed over, and what the   *)
(* parser keeps.  A header of 48 bits is that of the plain link; the coded *)
(* link appends its fields and has 96.  Bits are counted from 0.           *)
(***************************************************************************)
EXTENDS Integers

CONSTANT HeaderLen   \* d_header_len: header symbols, one bit each

ASSUME HeaderAssumption == HeaderLen \in {48, 96}

CrcBits == 16
Bits(first, n) == first .. first + n - 1

PlainFields ==
  [payload |-> Bits(0, 12), number |-> Bits(12, 12),
   cnst |-> Bits(24, 4), feedback |-> Bits(28, 4)]

FecFields ==
  [tb |-> Bits(32, 12), fecFeedback |-> Bits(44, 4), offset |-> Bits(48, 12),
   fec |-> Bits(60, 4), tbPayload |-> Bits(64, 16)]

FieldNames ==
  DOMAIN PlainFields \cup (IF HeaderLen = 96 THEN DOMAIN FecFields ELSE {})

FieldBits(f) ==
  IF f \in DOMAIN PlainFields THEN PlainFields[f] ELSE FecFields[f]

\* pack_crc: bytes the CRC is computed over.
CrcBytes == (HeaderLen - CrcBits + 7) \div 8

\* Mutant: the CRC is computed over the plain link's fields only.
CoveredBytesPlain == 0 .. 3

CoveredBytes == 0 .. CrcBytes - 1

\* pack_crc: bits of the header that reach the CRC.  The loop stops at
\* i*len+j, where the bit it reads is i*8+j.
CoveredBits ==
  {bit \in 0 .. HeaderLen - 1 :
     \E i \in CoveredBytes, j \in 0 .. 7 :
       bit = i * 8 + j /\ i * CrcBytes + j < HeaderLen}

\* The bits whose error the parser overlooks: neither the CRC nor what it is
\* computed over holds them.
UncheckedBits ==
  (0 .. HeaderLen - 1) \ (CoveredBits \cup Bits(HeaderLen - CrcBits, CrcBits))

\* header_parser: the constellation the payload will be demodulated with is
\* an earlier frame's if what the header says is none.
ParsedCnst(cnst, previous) ==
  IF cnst > 0 /\ cnst <= 4 THEN cnst ELSE previous
=============================================================================
