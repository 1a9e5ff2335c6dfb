----------------------------- MODULE TbDecoder -----------------------------
(***************************************************************************)
(* The receiver's end of the coded link: ofdm_adaptive_fec_decoder and its *)
(* tb_decoder, which rebuild TBs from the frames that were received.  A    *)
(* frame has the tags of its header and the pieces of TBs that survived.   *)
(*                                                                         *)
(* The receive buffer is the number of bytes in it and, if these are the   *)
(* beginning of a TB, which TB and up to which bit; otherwise Noise.  A TB *)
(* is delivered when its CRC matches: when the buffer held exactly that    *)
(* TB, decoded with its own code and sizes.                                *)
(***************************************************************************)
EXTENDS TransportBlock, FiniteSetsExt, Sequences

VARIABLES
  tbNumber,  \* d_tb_number; -1 before the first frame
  fecInfo,   \* d_fec_info: the tags of the frame the TB began in
  rcvBuf,    \* d_tb_buffers[RCV_BUF]
  thrown,    \* "rcv buffer does not have enough capacity!" was thrown
  got        \* history: the numbers of the TBs delivered, in order

decoderVars == <<tbNumber, fecInfo, rcvBuf, thrown, got>>

Noise == [no |-> 0, fec |-> 1, bytes |-> 0, size |-> 0, sent |-> 0]
EmptyBuf == [bytes |-> 0, tb |-> Noise, upto |-> 0]
NoInfo == [fec |-> 0]

DecoderInit ==
  /\ tbNumber = -1
  /\ fecInfo = NoInfo
  /\ rcvBuf = EmptyBuf
  /\ thrown = FALSE
  /\ got = <<>>

\* The table of codes has a longest one.
ASSUME LongestAssumption ==
  \E f \in DOMAIN Codes : \A g \in DOMAIN Codes : Codes[g].n <= Codes[f].n

\* max_bps: no constellation has less than one bit, and the framer's first
\* has one.
MaxBps == Max(Cnsts \cup {1})

\* The longest TB, in bits: the longest code in the longest frame.
MaxTbLen ==
  LET n == Max({Codes[f].n : f \in DOMAIN Codes})
      bits == Capacity * MaxBps
  IN  n * (IF bits > n THEN 1 + bits \div n ELSE 1)

\* The buffers are reserved for two.
RcvCapacity == 2 * MaxTbLen

\* The buffer after so many bytes of frame f, from symbol at on, are added.
Grown(buf, f, at, bytes) ==
  LET next == {p \in f.pieces :
                 /\ p.at = at
                 /\ p.cnst = f.tags.cnst
                 /\ BitsToBytes(p.bits) = bytes
                 /\ p.from = buf.upto
                 /\ buf.bytes > 0 => p.tb = buf.tb}
  IN  IF bytes = 0 THEN buf
      ELSE IF next = {}
           THEN [bytes |-> buf.bytes + bytes, tb |-> Noise, upto |-> 0]
      ELSE LET p == CHOOSE q \in next : TRUE
           IN  [bytes |-> buf.bytes + bytes, tb |-> p.tb,
                upto |-> p.from + p.bits]

\* decode and on_data_ready: what is delivered.
Decoded(buf, info, cnst) ==
  IF /\ buf.tb # Noise
     /\ buf.upto = buf.tb.size
     /\ info.fec = buf.tb.fec /\ info.bytes = buf.tb.bytes
     /\ HeardBits(cnst, info.fec, info.bytes) = buf.tb.size
  THEN <<buf.tb.no>> ELSE <<>>

\* A frame without payload is skipped.
SkipEmpty(f) ==
  /\ f.tags.payload = 0
  /\ UNCHANGED decoderVars

\* Bits that complete the TB: its header's, in the codewords of the first.
Expected(t) ==
  TbBits(HeardCodewords(t.cnst, fecInfo.fec), t.fec, t.bytes)

\* Mutant: the buffer is not cleared once the TB is decoded.
AfterDecodeKept(buf) == buf

AfterDecode(buf) == EmptyBuf

\* The frame goes on with the TB being received.
SameTb(f) ==
  LET t == f.tags
      buf == Grown(rcvBuf, f, 0, t.payload)
      full == 8 * buf.bytes >= Expected(t)
  IN  /\ t.payload > 0
      /\ t.no = tbNumber
      /\ thrown' = (thrown \/ 8 * buf.bytes > RcvCapacity)
      /\ rcvBuf' = IF full THEN AfterDecode(buf) ELSE buf
      /\ got' = got \o (IF full THEN Decoded(buf, fecInfo, t.cnst) ELSE <<>>)
      /\ UNCHANGED <<tbNumber, fecInfo>>

\* A TB that has the frame to itself, while no other is being received.
IsSmallTb(t) == rcvBuf.bytes = 0 /\ t.offset = t.payload

SmallTb(f) ==
  LET t == f.tags
  IN  /\ t.payload > 0
      /\ t.no # tbNumber
      /\ IsSmallTb(t)
      /\ tbNumber' = t.no
      /\ fecInfo' = t
      /\ rcvBuf' = EmptyBuf
      /\ got' = got \o Decoded(Grown(EmptyBuf, f, 0, t.offset), t, t.cnst)
      /\ UNCHANGED thrown

\* Mutant: only the end of the frame's TB is awaited, not a TB within it.
IsContainedNever(t) == FALSE

\* Mutant: what is there is not cleared when another TB begins.
NewBufKept(old) == old

\* The buffer for the TB that begins.
NewBuf(old) == EmptyBuf

\* All of the TB that begins in the frame is in it.
IsContained(t) ==
  t.payload - t.offset = BitsToBytes(HeardBits(t.cnst, t.fec, t.bytes))

\* Another TB begins: the frame's first bytes end the TB being received,
\* which is decoded whatever it has, and the others are the new TB's.
OtherTb(f) ==
  LET t == f.tags
      old == Grown(rcvBuf, f, 0, t.offset)
      new == Grown(NewBuf(old), f, BytesToSyms(t.offset, t.cnst),
                   t.payload - t.offset)
      ended == old.bytes > 0 /\ fecInfo # NoInfo
  IN  /\ t.payload > 0
      /\ t.no # tbNumber
      /\ ~IsSmallTb(t)
      /\ tbNumber' = t.no
      /\ fecInfo' = t
      /\ rcvBuf' = IF IsContained(t) THEN EmptyBuf ELSE new
      /\ got' = got \o (IF ended THEN Decoded(old, fecInfo, t.cnst) ELSE <<>>)
                    \o (IF IsContained(t) THEN Decoded(new, t, t.cnst)
                                          ELSE <<>>)
      /\ UNCHANGED thrown

\* process_frame
ProcessFrame(f) == SkipEmpty(f) \/ SameTb(f) \/ SmallTb(f) \/ OtherTb(f)
=============================================================================
