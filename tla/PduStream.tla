----------------------------- MODULE PduStream -----------------------------
(***************************************************************************)
(* A stream of PDUs as the framing blocks see it, and how much of it one   *)
(* frame or transport block takes (lib/dtl/pdu_consumer.cc).               *)
(*                                                                         *)
(* GNU Radio hands a block bytes, with a length tag on the first byte of   *)
(* each PDU.  The bytes are counted from the start of the stream, and the  *)
(* stream is the set of its PDU boundaries: B = {0, 2, 5} is a PDU of 2    *)
(* bytes, then one of 3.  The byte at p has a tag exactly when p is in B,  *)
(* and the tag says NextBound(B, p) - p.                                   *)
(***************************************************************************)
EXTENDS Integers

\* The boundaries of a stream that is not empty.
IsStream(B) == B \subseteq Nat /\ 0 \in B

Least(a, b) == IF a <= b THEN a ELSE b

\* Where the PDU that holds byte p ends.
NextBound(B, p) == CHOOSE b \in B : b > p /\ \A c \in B : c > p => b <= c

\* The last boundary not beyond q.
LastBound(B, q) == CHOOSE b \in B : b <= q /\ \A c \in B : c <= q => c <= b

PduLen(B, p) == NextBound(B, p) - p

\* What is left of the PDU cut at p (d_current_pdu_remain): nothing at a
\* boundary, otherwise the bytes up to the next one.
Rest(B, p) == IF p \in B THEN 0 ELSE PduLen(B, p)

(***************************************************************************)
(* pdu_consumer::advance, for a reader at byte p that has been given the   *)
(* input up to byte seen, may take max bytes, and still owes remain bytes  *)
(* of a PDU it cut.  The result is how much to read, and the new remain.   *)
(***************************************************************************)
Taken(read, remain) == [read |-> read, remain |-> remain]

\* Mutant: the rest of a cut PDU is followed by other PDUs.
ContinueFill(p, seen, max, remain) ==
  LET r == Least(max, seen - p)
  IN  Taken(r, IF r >= remain THEN 0 ELSE remain - r)

\* No tag at p: go on with the PDU that was cut.
Continue(p, seen, max, remain) ==
  LET r == Least(Least(max, remain), seen - p) IN Taken(r, remain - r)

\* Mutant: a PDU that has not arrived whole is cut even if it would fit.
IsJumboLate(B, p, seen, max) == PduLen(B, p) > Least(max, seen - p)

\* The PDU that starts at p does not fit.
IsJumbo(B, p, seen, max) == PduLen(B, p) > max

\* Cut it.
CutJumbo(B, p, seen, max) ==
  LET r == Least(max, seen - p) IN Taken(r, PduLen(B, p) - r)

\* Mutant: the PDUs that fit are taken whether they have arrived or not.
TakeWholeEarly(B, p, seen, max, remain) ==
  Taken(LastBound(B, p + max) - p, remain)

\* Take as many whole PDUs as have arrived and fit.
TakeWhole(B, p, seen, max, remain) ==
  Taken(LastBound(B, Least(p + max, seen)) - p, remain)

Advance(B, p, seen, max, remain) ==
  IF p = seen THEN Taken(0, remain)
  ELSE IF p \notin B THEN Continue(p, seen, max, remain)
  ELSE IF IsJumbo(B, p, seen, max) THEN CutJumbo(B, p, seen, max)
  ELSE TakeWhole(B, p, seen, max, remain)

(***************************************************************************)
(* The loop that Advance is the closed form of, one length tag a pass:     *)
(* to_read bytes have been counted so far, and loop gives the result of    *)
(* the passes that follow.                                                 *)
(***************************************************************************)
LoopPass(B, p, seen, max, owed, loop, toRead) ==
  IF p + toRead = seen THEN Taken(toRead, owed)
  ELSE IF p + toRead \notin B
       THEN IF owed = 0 THEN Taken(toRead, owed)
            ELSE LET r == Least(Least(max, owed), seen - p)
                 IN  Taken(r, owed - r)
  ELSE LET len == PduLen(B, p + toRead)
       IN  IF toRead + len <= max
           THEN IF toRead + len <= seen - p
                THEN loop[toRead + len]
                ELSE Taken(toRead, owed)
           ELSE IF toRead = 0
                THEN LET r == Least(max, seen - p) IN Taken(r, len - r)
           ELSE Taken(toRead, owed)

LoopFrom(B, p, seen, max, owed) ==
  LET loop[toRead \in 0 .. seen - p] ==
        LoopPass(B, p, seen, max, owed, loop, toRead)
  IN  loop

AdvanceLoop(B, p, seen, max, owed) == LoopFrom(B, p, seen, max, owed)[0]
=============================================================================
