--------------------------- MODULE PhyLinkProofs ---------------------------
(***************************************************************************)
(* The two ends of the link, for every stream, header, room and payloads,  *)
(* and any number of frames lost or spoilt.                                *)
(***************************************************************************)
EXTENDS PhyLink, PduConsumerProofs, SequenceTheorems

(***************************************************************************)
(* The inductive invariant.                                                *)
(***************************************************************************)

Sender ==
  /\ taken \in bounds /\ queued \in bounds
  /\ arrived <= taken /\ taken <= queued

Types ==
  /\ link \in {"coded", "plain"}
  /\ at \in Nat /\ got \in Nat /\ at <= got /\ got <= pos
  /\ tail \in Nat /\ start \in Nat
  /\ hit \subseteq bounds
  /\ delivered \in Seq(Nat) /\ ready \in Seq(Nat)

\* The frame between got and pos, and the piece between at and got, do not
\* mix PDUs.
Piece ==
  /\ link = "plain" => at = got \/ got = pos
  /\ link = "plain" => \A b \in bounds : got < b /\ b < pos =>
       got \in bounds /\ pos \in bounds
  /\ link = "plain" => \A b \in bounds : at < b /\ b < got =>
       got \in bounds /\ (at \in bounds \/ spoilt)
  /\ spoilt => link = "plain"

\* The packet in construction.
Packet ==
  tail > 0 => /\ start \in bounds /\ start < Total(bounds)
              /\ expected \in Nat /\ tail < expected
              /\ start + tail <= at
              /\ unbroken => expected = PduLen(bounds, start)
              /\ unbroken => LenEnd <= tail

\* Which PDUs are hit, before and after the byte that is looked at.
Hits ==
  /\ link = "coded" /\ ~split => hit = {}
  /\ ~split => \A b \in bounds : b < got /\ got < b + LenEnd => b \in hit
  /\ spoilt /\ at < got =>
       \A b \in bounds : b < got /\ at < NextBound(bounds, b) => b \in hit
  /\ \A b \in hit : b < got /\ (spoilt \/ b < at \/ got < b + LenEnd)
  /\ tail > 0 /\ unbroken /\ start + tail = at /\ start \in hit =>
       spoilt /\ at < got

\* A PDU that has not been hit and is not complete is the one in construction.
Cut ==
  ~split => \A b \in bounds \ hit :
    b < at /\ at < NextBound(bounds, b) =>
      tail > 0 /\ start = b /\ unbroken /\ start + tail = at

All == delivered \o ready

\* Those that are complete have been rebuilt, in order.
Rebuilt ==
  ~split => /\ {All[i] : i \in DOMAIN All} = Unhit(at)
            /\ Increasing(All)

\* On the plain link, nothing is in the buffer except between whole PDUs.
Buffer ==
  link = "plain" /\ ready # <<>> =>
    /\ at < got /\ ~spoilt /\ tail = 0
    /\ at \in bounds /\ got \in bounds

PhyInv ==
  /\ IInv /\ Sender /\ Types /\ Piece /\ Packet
  /\ Hits /\ Cut /\ Rebuilt /\ Buffer

-----------------------------------------------------------------------------
(* Lemmas                                                                  *)

\* What the proofs use of the stream: the PDUs follow each other, each is at
\* least a header long, and every byte that begins none is inside one.
LEMMA StreamFact ==
  ASSUME IInv
  PROVE  /\ bounds \subseteq Nat /\ 0 \in bounds
         /\ Hdr \in Nat /\ Hdr > 0 /\ LenEnd \in Nat /\ Hdr <= LenEnd
         /\ Addrs \in Nat /\ Addrs > 0
         /\ Total(bounds) \in bounds /\ Total(bounds) \in Nat
         /\ \A b \in bounds : b <= Total(bounds)
         /\ pos \in Nat /\ arrived \in Nat
         /\ pos <= arrived /\ arrived <= Total(bounds)
         /\ \A b \in bounds : b < Total(bounds) =>
              /\ NextBound(bounds, b) \in bounds
              /\ NextBound(bounds, b) \in Nat
              /\ b + LenEnd <= NextBound(bounds, b)
              /\ b < NextBound(bounds, b)
              /\ \A c \in bounds : b < c => NextBound(bounds, b) <= c
         /\ \A n \in Nat : n < Total(bounds) /\ n \notin bounds =>
              \E b \in bounds : b < n /\ n < NextBound(bounds, b)
<1>1. /\ bounds \subseteq Nat /\ 0 \in bounds /\ Total(bounds) \in bounds
      /\ \A b \in bounds : b <= Total(bounds)
  BY TotalFact, Zenon DEF IInv, TypeOK
<1>2. Total(bounds) \in Nat
  BY <1>1
<1>3. /\ pos \in Nat /\ arrived \in Nat
      /\ pos <= arrived /\ arrived <= Total(bounds)
  BY SMT DEF IInv, TypeOK
<1>4. /\ Hdr \in Nat /\ Hdr > 0 /\ LenEnd \in Nat /\ Hdr <= LenEnd
      /\ Addrs \in Nat /\ Addrs > 0
  BY PhyAssumption, SMT DEF PhyAssumption
<1>5. ASSUME NEW n \in Nat, n < Total(bounds)
      PROVE  /\ NextBound(bounds, n) \in bounds
             /\ NextBound(bounds, n) \in Nat
             /\ n < NextBound(bounds, n)
             /\ \A c \in bounds : n < c => NextBound(bounds, n) <= c
  <2>1. \E b \in bounds : b > n
    BY <1>1, <1>2, <1>5, SMT
  <2>2. /\ NextBound(bounds, n) \in bounds
        /\ NextBound(bounds, n) \in Nat
        /\ NextBound(bounds, n) > n
        /\ \A c \in bounds : c > n => NextBound(bounds, n) <= c
    BY <1>1, <2>1, NextBoundFact, Zenon
  <2> QED BY <1>1, <2>2, SMT
<1>6. ASSUME NEW b \in bounds, b < Total(bounds)
      PROVE  /\ NextBound(bounds, b) \in bounds
             /\ NextBound(bounds, b) \in Nat
             /\ b + LenEnd <= NextBound(bounds, b)
             /\ b < NextBound(bounds, b)
             /\ \A c \in bounds : b < c => NextBound(bounds, b) <= c
  <2>1. b \in Nat /\ b # Total(bounds)
    BY <1>1, <1>2, <1>6, SMT
  <2>2. PduLen(bounds, b) >= LenEnd
    BY <2>1, PhyAssumption, Zenon DEF PhyAssumption, IInv, TypeOK
  <2>3. /\ NextBound(bounds, b) \in bounds
        /\ NextBound(bounds, b) \in Nat
        /\ b < NextBound(bounds, b)
        /\ \A c \in bounds : b < c => NextBound(bounds, b) <= c
    BY <1>5, <1>6, <2>1
  <2>4. b + LenEnd <= NextBound(bounds, b)
    BY <1>4, <2>1, <2>2, <2>3, SMT DEF PduLen
  <2> QED BY <2>3, <2>4
<1>7. ASSUME NEW n \in Nat, n < Total(bounds), n \notin bounds
      PROVE  \E b \in bounds : b < n /\ n < NextBound(bounds, b)
  <2> DEFINE b == LastBound(bounds, n)
  <2>1. \E c \in bounds : c <= n
    BY <1>1, SMT
  <2>2. /\ b \in bounds /\ b \in Nat /\ b <= n
        /\ \A c \in bounds : c <= n => c <= b
    BY <1>1, <2>1, LastBoundFact, Zenon
  <2> HIDE DEF b
  <2>3. b < n
    BY <1>7, <2>2, SMT
  <2>4. b < Total(bounds)
    BY <1>2, <1>7, <2>2, <2>3, SMT
  <2>5. NextBound(bounds, b) \in bounds /\ NextBound(bounds, b) \in Nat
        /\ b < NextBound(bounds, b)
    BY <1>6, <2>2, <2>4
  <2>6. ~(NextBound(bounds, b) <= n)
    BY <2>2, <2>5, SMT
  <2> QED BY <2>2, <2>3, <2>5, <2>6, SMT
<1> QED BY <1>1, <1>2, <1>3, <1>4, <1>6, <1>7, Zenon

\* A packet appended behind smaller ones.
LEMMA AppendFact ==
  ASSUME NEW s \in Seq(Nat), NEW x \in Nat, NEW S,
         {s[i] : i \in DOMAIN s} = S, Increasing(s), \A y \in S : y < x
  PROVE  LET t == Append(s, x)
         IN  /\ {t[i] : i \in DOMAIN t} = S \cup {x}
             /\ Increasing(t)
<1> DEFINE t == Append(s, x)
           n == Len(s)
<1>1. /\ n \in Nat /\ DOMAIN s = 1 .. n /\ DOMAIN t = 1 .. n + 1
      /\ \A i \in 1 .. n : t[i] = s[i] /\ s[i] \in Nat
      /\ t[n + 1] = x
  BY LenProperties, ElementOfSeq
<1> HIDE DEF t, n
<1>2. {t[i] : i \in DOMAIN t} \subseteq S \cup {x}
  <2> SUFFICES ASSUME NEW i \in 1 .. n + 1 PROVE t[i] \in S \cup {x}
    BY <1>1
  <2>1. i \in 1 .. n \/ i = n + 1
    BY <1>1, SMT
  <2> QED BY <1>1, <2>1
<1>3. S \cup {x} \subseteq {t[i] : i \in DOMAIN t}
  <2>1. 1 .. n \subseteq 1 .. n + 1 /\ n + 1 \in 1 .. n + 1
    BY <1>1, SMT
  <2>2. ASSUME NEW y \in S PROVE y \in {t[i] : i \in DOMAIN t}
    <3>1. PICK i \in 1 .. n : y = s[i]
      BY <1>1
    <3> QED BY <1>1, <2>1, <3>1
  <2> QED BY <1>1, <2>1, <2>2
<1>4. Increasing(t)
  <2> SUFFICES ASSUME NEW i \in 1 .. n + 1, NEW j \in 1 .. n + 1, i < j
               PROVE  t[i] < t[j]
    BY <1>1 DEF Increasing
  <2>1. i \in 1 .. n
    BY <1>1, SMT
  <2>2. CASE j \in 1 .. n
    BY <1>1, <2>1, <2>2 DEF Increasing
  <2>3. CASE j = n + 1
    <3>1. s[i] \in S
      BY <1>1, <2>1
    <3> QED BY <1>1, <2>1, <2>3, <3>1
  <2> QED BY <1>1, <2>2, <2>3, SMT
<1> QED BY <1>2, <1>3, <1>4 DEF t

\* Handing the buffer on changes neither what is rebuilt nor its order.
LEMMA ProduceFact ==
  ASSUME Types, NEW buffer \in Seq(Nat), Produce(buffer)
  PROVE  /\ delivered' \in Seq(Nat) /\ ready' \in Seq(Nat)
         /\ All' = delivered \o buffer
         /\ buffer = <<>> \/ (at' = got /\ tail' = 0) => ready' = <<>>
<1>1. CASE at' = got /\ tail' = 0
  <2>1. delivered' = delivered \o buffer /\ ready' = <<>>
    BY <1>1, Zenon DEF Produce
  <2>2. delivered \o buffer \in Seq(Nat)
    BY ConcatProperties DEF Types
  <2>3. (delivered \o buffer) \o <<>> = delivered \o buffer
    BY <2>2, ConcatEmptySeq
  <2> QED BY <2>1, <2>2, <2>3 DEF All
<1>2. CASE ~(at' = got /\ tail' = 0)
  <2>1. delivered' = delivered /\ ready' = buffer
    BY <1>2, Zenon DEF Produce
  <2> QED BY <1>2, <2>1 DEF All, Types
<1> QED BY <1>1, <1>2

LEMMA AllFact ==
  ASSUME Types
  PROVE  /\ All \in Seq(Nat)
         /\ \A x \in Nat : /\ Append(ready, x) \in Seq(Nat)
                           /\ delivered \o Append(ready, x) = Append(All, x)
<1>1. delivered \in Seq(Nat) /\ ready \in Seq(Nat)
  BY DEF Types
<1>2. All \in Seq(Nat)
  BY <1>1, ConcatProperties DEF All
<1>3. ASSUME NEW x \in Nat
      PROVE  /\ Append(ready, x) \in Seq(Nat)
             /\ delivered \o Append(ready, x) = Append(All, x)
  <2>1. /\ <<x>> \in Seq(Nat) /\ Append(ready, x) = ready \o <<x>>
        /\ Append(All, x) = All \o <<x>>
    BY <1>1, <1>2
  <2>2. (delivered \o ready) \o <<x>> = delivered \o (ready \o <<x>>)
    BY <1>1, <2>1, ConcatAssociative
  <2>3. Append(ready, x) \in Seq(Nat)
    BY <1>1
  <2> QED BY <2>1, <2>2, <2>3 DEF All
<1> QED BY <1>2, <1>3

-----------------------------------------------------------------------------
(* The initial states, to_phy and the framer                               *)

LEMMA InitPhyInv == PhyInit => PhyInv
<1> SUFFICES ASSUME PhyInit PROVE PhyInv
  OBVIOUS
<1>1. IInv
  BY InitIInv DEF PhyInit
<1>2. /\ bounds \subseteq Nat /\ 0 \in bounds /\ LenEnd \in Nat
      /\ \A b \in bounds : b \in Nat
  BY <1>1, StreamFact
<1>3. /\ pos = 0 /\ arrived = 0 /\ queued = 0 /\ taken = 0
      /\ at = 0 /\ got = 0 /\ spoilt = FALSE
      /\ start = 0 /\ unbroken = FALSE /\ tail = 0
      /\ ready = <<>> /\ delivered = <<>> /\ hit = {} /\ split = FALSE
  BY DEF PhyInit, Init
<1>4. Sender /\ Piece /\ Packet /\ Buffer
  BY <1>2, <1>3, SMT DEF Sender, Piece, Packet, Buffer
<1>5. Types
  <2>1. link \in {"coded", "plain"}
    BY PhyAssumption, Zenon DEF PhyAssumption, PhyInit
  <2> QED BY <1>3, <2>1, EmptySeq, SMT DEF Types
<1>6. Hits /\ Cut
  BY <1>2, <1>3, SMT DEF Hits, Cut
<1>7. Rebuilt
  <2>1. All = <<>>
    BY <1>3, EmptySeq, ConcatEmptySeq DEF All
  <2>2. DOMAIN All = {}
    BY <2>1
  <2>3. Unhit(0) = {}
    <3> SUFFICES ASSUME NEW b \in bounds, b < Total(bounds),
                        NextBound(bounds, b) <= 0
                 PROVE  FALSE
      BY DEF Unhit
    <3>1. b < NextBound(bounds, b) /\ NextBound(bounds, b) \in Nat
      BY <1>1, StreamFact
    <3> QED BY <1>2, <3>1, SMT
  <2> QED BY <1>3, <2>2, <2>3 DEF Rebuilt, Increasing
<1> QED BY <1>1, <1>4, <1>5, <1>6, <1>7 DEF PhyInv

\* What from_phy does not look at changes nothing of its invariant.
LEMMA ReceiverKept ==
  ASSUME PhyInv, UNCHANGED <<bounds, link, receiving, events>>
  PROVE  (Packet /\ Hits /\ Cut /\ Rebuilt /\ Buffer)'
BY DEF PhyInv, Packet, Hits, Cut, Rebuilt, Buffer, All, Unhit,
       receiving, packet, events

LEMMA SenderStep ==
  ASSUME PhyInv, Sender', UNCHANGED <<bounds, pos, link, receiving, events>>
  PROVE  (Sender /\ Types /\ Piece /\ Packet
            /\ Hits /\ Cut /\ Rebuilt /\ Buffer)'
<1>1. (Packet /\ Hits /\ Cut /\ Rebuilt /\ Buffer)'
  BY ReceiverKept
<1>2. (Types /\ Piece)'
  BY DEF PhyInv, Types, Piece, receiving, packet, events
<1> QED BY <1>1, <1>2

LEMMA PostInv == PhyInv /\ Post => PhyInv'
<1> SUFFICES ASSUME PhyInv, Post PROVE PhyInv'
  OBVIOUS
<1>1. /\ queued' = NextBound(bounds, queued) /\ queued < Total(bounds)
      /\ taken' = taken /\ UNCHANGED <<vars, link, receiving, events>>
      /\ bounds' = bounds /\ arrived' = arrived
  BY DEF Post, vars
<1>2. IInv'
  BY <1>1 DEF PhyInv, IInv, TypeOK, RemainInSync, vars
<1>3. Sender'
  <2>1. queued \in bounds /\ taken \in Nat /\ queued \in Nat
    BY StreamFact DEF PhyInv, Sender
  <2>2. NextBound(bounds, queued) \in bounds
        /\ NextBound(bounds, queued) \in Nat
        /\ queued < NextBound(bounds, queued)
    BY <1>1, <2>1, StreamFact DEF PhyInv
  <2> QED BY <1>1, <2>1, <2>2, SMT DEF PhyInv, Sender
<1> QED BY <1>1, <1>2, <1>3, SenderStep DEF PhyInv, vars

\* A call of to_phy is an arrival: what PduConsumer says of the source.
LEMMA WriteFact ==
  ASSUME PhyInv, NEW room \in Room, Write(room)
  PROVE  Arrive /\ Sender'
<1>1. /\ queued > taken /\ room >= Addrs
      /\ arrived' = Least(arrived + room, queued)
      /\ taken' = TakenAt(arrived') /\ queued' = queued
      /\ UNCHANGED <<bounds, pos, remain>>
  BY DEF Write
<1>2. /\ room \in Nat /\ room > 0
      /\ arrived \in Nat /\ arrived <= taken
      /\ taken \in Nat /\ queued \in Nat /\ queued \in bounds
      /\ queued <= Total(bounds) /\ Total(bounds) \in Nat
  BY PhyAssumption, StreamFact, SMT DEF PhyAssumption, PhyInv, Sender
<1>3. arrived' \in Nat /\ arrived < arrived' /\ arrived' <= queued
  BY <1>1, <1>2, SMT DEF Least
<1>4. Arrive
  BY <1>1, <1>2, <1>3, SMT DEF Arrive
<1>5. taken' \in bounds /\ arrived' <= taken' /\ taken' <= queued
  <2>1. CASE arrived' \in bounds
    BY <1>1, <1>3, <2>1, SMT DEF TakenAt
  <2>2. CASE arrived' \notin bounds
    <3>1. arrived' # queued
      BY <1>2, <2>2
    <3>2. arrived' < Total(bounds) /\ arrived' < queued
      BY <1>2, <1>3, <3>1, SMT
    <3>3. \E b \in bounds : b > arrived'
      BY <1>2, <3>2, SMT
    <3>4. bounds \subseteq Nat
      BY StreamFact DEF PhyInv
    <3>5. /\ NextBound(bounds, arrived') \in bounds
          /\ NextBound(bounds, arrived') \in Nat
          /\ NextBound(bounds, arrived') > arrived'
          /\ \A c \in bounds : c > arrived' => NextBound(bounds, arrived') <= c
      BY <1>3, <3>3, <3>4, NextBoundFact, Zenon
    <3>6. queued > arrived'
      BY <1>2, <1>3, <3>2, SMT
    <3>7. NextBound(bounds, arrived') <= queued
      BY <1>2, <3>5, <3>6
    <3>8. taken' = NextBound(bounds, arrived')
      BY <1>1, <2>2 DEF TakenAt
    <3> QED BY <1>3, <3>5, <3>7, <3>8, SMT
  <2> QED BY <2>1, <2>2
<1> QED BY <1>1, <1>2, <1>4, <1>5 DEF Sender

LEMMA ToPhyInv == PhyInv /\ ToPhy => PhyInv'
<1> SUFFICES ASSUME PhyInv, NEW room \in Room,
                    Write(room) \/ TakeOnly(room) \/ Overrun(room)
             PROVE  PhyInv'
  BY DEF ToPhy
<1>1. CASE Write(room)
  <2>1. IInv'
    BY <1>1, WriteFact, NextIInv DEF Next, PhyInv
  <2>2. UNCHANGED <<bounds, pos, link, receiving, events>>
    BY <1>1 DEF Write
  <2> QED BY <1>1, <2>1, <2>2, WriteFact, SenderStep DEF PhyInv
<1>2. CASE TakeOnly(room)
  <2>1. /\ UNCHANGED <<vars, link, receiving, events>>
        /\ bounds' = bounds /\ arrived' = arrived /\ queued' = queued
        /\ queued > taken
        /\ taken' = IF arrived = taken THEN NextBound(bounds, taken) ELSE taken
    BY <1>2 DEF TakeOnly, vars
  <2>2. IInv'
    BY <2>1 DEF PhyInv, IInv, TypeOK, RemainInSync, vars
  <2>3. /\ taken \in bounds /\ queued \in bounds /\ taken \in Nat
        /\ queued \in Nat /\ arrived \in Nat /\ arrived <= taken
        /\ queued <= Total(bounds) /\ Total(bounds) \in Nat
    BY StreamFact DEF PhyInv, Sender
  <2>4. taken < queued /\ taken < Total(bounds)
    BY <2>1, <2>3, SMT
  <2>5. /\ NextBound(bounds, taken) \in bounds
        /\ NextBound(bounds, taken) \in Nat
        /\ taken < NextBound(bounds, taken)
        /\ NextBound(bounds, taken) <= queued
    BY <2>3, <2>4, StreamFact DEF PhyInv
  <2>6. Sender'
    BY <2>1, <2>3, <2>4, <2>5, SMT DEF Sender
  <2> QED BY <2>1, <2>2, <2>6, SenderStep DEF PhyInv, vars
<1>3. CASE Overrun(room)
  <2>1. UNCHANGED <<vars, queued, taken, link, receiving, events>>
    BY <1>3 DEF Overrun
  <2>2. IInv' /\ Sender'
    BY <2>1 DEF PhyInv, IInv, TypeOK, RemainInSync, Sender, vars
  <2> QED BY <2>1, <2>2, SenderStep DEF PhyInv, vars
<1> QED BY <1>1, <1>2, <1>3

LEMMA FrameInv == PhyInv /\ Frame => PhyInv'
<1> SUFFICES ASSUME PhyInv, Frame PROVE PhyInv'
  OBVIOUS
<1>1. PICK max \in Payloads, seen \in pos .. arrived : Call(max, seen)
  BY DEF Frame, Read
<1>2. /\ link = "plain" => at = pos
      /\ UNCHANGED <<sending, link, receiving, events>>
      /\ bounds' = bounds /\ arrived' = arrived
  BY <1>1 DEF Frame, Call
<1>3. IInv'
  BY NextIInv DEF PhyInv, Frame, Next
<1> DEFINE a == Advance(bounds, pos, seen, max, remain)
<1>4. /\ pos' = pos + a.read
      /\ Sound(bounds, pos, seen, max, a) /\ Framed(bounds, pos, max, a)
  BY <1>1, CallFact, Zenon DEF PhyInv
<1> HIDE DEF a
<1>5. /\ pos \in Nat /\ pos' \in Nat /\ pos <= pos'
      /\ \A b \in bounds : pos < b /\ b < pos' =>
           pos \in bounds /\ pos' \in bounds
  BY <1>4, StreamFact, SMT DEF PhyInv, Sound, Framed
<1>6. Sender'
  BY <1>2 DEF PhyInv, Sender, sending
<1>7. (Packet /\ Hits /\ Cut /\ Rebuilt /\ Buffer)'
  BY <1>2, ReceiverKept
<1>8. at' = at /\ got' = got /\ spoilt' = spoilt /\ link' = link
  BY <1>2 DEF receiving
<1>9. Types'
  <2>1. at \in Nat /\ got \in Nat /\ at <= got /\ got <= pos'
    BY <1>5, SMT DEF PhyInv, Types
  <2> QED BY <1>2, <2>1 DEF PhyInv, Types, receiving, packet, events
<1>10. Piece'
  <2>1. link = "plain" => at = got /\ got = pos
    BY <1>2, <1>5, SMT DEF PhyInv, Types
  <2> QED BY <1>2, <1>5, <1>8, <2>1 DEF PhyInv, Piece
<1> QED BY <1>3, <1>6, <1>7, <1>9, <1>10 DEF PhyInv

-----------------------------------------------------------------------------
(* The link                                                                *)

\* What from_phy and the link leave alone.
LEMMA SenderKept ==
  ASSUME PhyInv, UNCHANGED <<vars, sending>>
  PROVE  (IInv /\ Sender)'
BY DEF PhyInv, IInv, TypeOK, RemainInSync, Sender, vars, sending

LEMMA ReceiveInv == PhyInv /\ Receive => PhyInv'
<1> SUFFICES ASSUME PhyInv, Receive PROVE PhyInv'
  OBVIOUS
<1> USE DEF CutHeaders
<1>1. /\ at = got /\ at' = at /\ spoilt' = FALSE
      /\ UNCHANGED <<vars, sending>> /\ bounds' = bounds /\ pos' = pos
      /\ link' = link /\ start' = start /\ unbroken' = unbroken
      /\ tail' = tail /\ expected' = expected
      /\ ready' = ready /\ delivered' = delivered
      /\ hit' = hit \cup CutHeaders(got')
      /\ split' = (split \/ (link = "coded" /\ CutHeaders(got') # {}))
  BY DEF Receive, Idle, vars, packet
<1>2. /\ bounds \subseteq Nat /\ LenEnd \in Nat /\ pos \in Nat
      /\ pos <= Total(bounds) /\ Total(bounds) \in Nat
  BY StreamFact, SMT DEF PhyInv
<1>3. /\ at \in Nat /\ got \in Nat /\ at <= got /\ got <= pos
      /\ tail \in Nat /\ start \in Nat
  BY DEF PhyInv, Types
<1>4. /\ got' \in Nat /\ at < got' /\ got' <= pos
      /\ link = "plain" => got' = pos
  BY <1>2, <1>3, SMT DEF Receive
<1>5. (IInv /\ Sender)'
  BY <1>1, SenderKept
<1>6. Types'
  <2>1. hit' \subseteq bounds'
    BY <1>1 DEF PhyInv, Types
  <2>2. at' <= got'
    BY <1>1, <1>3, <1>4, SMT
  <2> QED BY <1>1, <1>4, <2>1, <2>2 DEF PhyInv, Types
<1>7. Piece'
  <2>1. ASSUME link = "plain" PROVE got' = pos
    BY <1>4, <2>1
  <2>2. ASSUME link = "plain", NEW b \in bounds, at < b, b < got'
        PROVE  got' \in bounds /\ at \in bounds
    BY <1>1, <1>4, <2>2 DEF PhyInv, Piece
  <2>3. ASSUME NEW b \in bounds, pos < b, b < pos PROVE FALSE
    BY <1>2, <2>3, SMT
  <2> QED BY <1>1, <2>1, <2>2, <2>3, Zenon DEF Piece
<1>8. Packet'
  BY <1>1 DEF PhyInv, Packet
<1>9. Hits'
  <2>1. link' = "coded" /\ ~split' => hit' = {}
    BY <1>1 DEF PhyInv, Hits
  <2>2. \A b \in bounds : b < got' /\ got' < b + LenEnd => b \in hit'
    BY <1>1
  <2>3. ASSUME NEW b \in hit'
        PROVE  b < got' /\ (spoilt' \/ b < at' \/ got' < b + LenEnd)
    <3>1. CASE b \in hit
      <4>1. b < got /\ b \in Nat
        BY <1>2, <3>1 DEF PhyInv, Hits, Types
      <4> QED BY <1>1, <1>3, <1>4, <4>1, SMT
    <3>2. CASE b \in CutHeaders(got')
      BY <3>2
    <3> QED BY <1>1, <2>3, <3>1, <3>2
  <2>4. ASSUME tail > 0, unbroken, start + tail = at, start \in hit'
        PROVE  FALSE
    <3>1. CASE start \in hit
      BY <1>1, <1>3, <2>4, <3>1, SMT DEF PhyInv, Hits
    <3>2. CASE start \in CutHeaders(got')
      BY <1>2, <1>3, <1>4, <2>4, <3>2, SMT DEF PhyInv, Packet
    <3> QED BY <1>1, <2>4, <3>1, <3>2
  <2> QED BY <1>1, <2>1, <2>2, <2>3, <2>4, Zenon DEF Hits
<1>10. Cut'
  BY <1>1, Zenon DEF PhyInv, Cut
<1>11. Rebuilt'
  <2>1. Unhit(at)' = Unhit(at)
    <3>1. ASSUME NEW b \in bounds, b < Total(bounds),
                 NextBound(bounds, b) <= at
          PROVE  b \notin CutHeaders(got')
      <4>1. b \in Nat /\ NextBound(bounds, b) \in Nat
            /\ b + LenEnd <= NextBound(bounds, b)
        BY <1>2, <3>1, StreamFact DEF PhyInv
      <4> QED BY <1>2, <1>3, <1>4, <3>1, <4>1, SMT
    <3> QED BY <1>1, <3>1 DEF Unhit
  <2> QED BY <1>1, <2>1, Zenon DEF PhyInv, Rebuilt, All
<1>12. Buffer'
  BY <1>1, <1>3, SMT DEF PhyInv, Buffer
<1> QED BY <1>5, <1>6, <1>7, <1>8, <1>9, <1>10, <1>11, <1>12 DEF PhyInv

\* A frame that is lost, or spoilt: every PDU that it holds a part of is hit.
LEMMA HitInv == PhyInv /\ (Lose \/ Spoil) => PhyInv'
<1> SUFFICES ASSUME PhyInv, Hit,
                    \/ at' = pos /\ spoilt' = FALSE
                    \/ at' = at /\ spoilt' = TRUE
             PROVE  PhyInv'
  BY DEF Lose, Spoil
<1>1. /\ at = got /\ link = "plain" /\ got < pos /\ got' = pos
      /\ UNCHANGED <<vars, sending>> /\ bounds' = bounds /\ pos' = pos
      /\ link' = link /\ start' = start /\ unbroken' = unbroken
      /\ tail' = tail /\ expected' = expected
      /\ ready' = ready /\ delivered' = delivered
      /\ hit' = hit \cup Held /\ split' = split
  BY DEF Hit, Idle, vars, packet
<1>2. /\ bounds \subseteq Nat /\ LenEnd \in Nat /\ pos \in Nat
      /\ pos <= Total(bounds) /\ Total(bounds) \in Nat
  BY StreamFact, SMT DEF PhyInv
<1>3. /\ at \in Nat /\ got \in Nat /\ tail \in Nat /\ start \in Nat
      /\ at' \in Nat /\ at' <= pos /\ got <= at'
  BY <1>1, <1>2, SMT DEF PhyInv, Types
<1>4. ASSUME NEW b \in bounds, b < pos
      PROVE  /\ b \in Nat /\ b < Total(bounds)
             /\ NextBound(bounds, b) \in Nat
             /\ b + LenEnd <= NextBound(bounds, b)
             /\ b < NextBound(bounds, b)
             /\ got < NextBound(bounds, b) => b \in hit'
  <2>1. b \in Nat /\ b < Total(bounds)
    BY <1>2, <1>4, SMT
  <2>2. got < NextBound(bounds, b) => b \in hit'
    BY <1>1, <1>4, <2>1 DEF Held
  <2> QED BY <2>1, <2>2, StreamFact DEF PhyInv
<1>5. (IInv /\ Sender)'
  BY <1>1, SenderKept
<1>6. Types'
  <2>1. hit' \subseteq bounds'
    BY <1>1 DEF PhyInv, Types, Held
  <2> QED BY <1>1, <1>2, <1>3, <2>1 DEF PhyInv, Types
<1>7. Piece'
  <2>1. ASSUME NEW b \in bounds, at' < b, b < got'
        PROVE  got' \in bounds /\ spoilt'
    <3>1. at' = at /\ spoilt'
      BY <1>1, <1>2, <2>1, SMT
    <3> QED BY <1>1, <2>1, <3>1 DEF PhyInv, Piece
  <2>2. ASSUME NEW b \in bounds, got' < b, b < pos PROVE FALSE
    BY <1>1, <1>2, <2>2, SMT
  <2> QED BY <1>1, <2>1, <2>2, Zenon DEF Piece
<1>8. Packet'
  <2>1. start + tail <= at => start + tail <= at'
    BY <1>1, <1>3, SMT
  <2> QED BY <1>1, <2>1, Zenon DEF PhyInv, Packet
<1>9. Hits'
  <2>1. link' # "coded"
    BY <1>1
  <2>2. ASSUME NEW b \in bounds, b < got', got' < b + LenEnd PROVE b \in hit'
    BY <1>1, <1>2, <1>3, <1>4, <2>2, SMT
  <2>3. ASSUME spoilt', NEW b \in bounds, b < got', at' < NextBound(bounds, b)
        PROVE  b \in hit'
    BY <1>1, <1>4, <2>3
  <2>4. ASSUME NEW b \in hit'
        PROVE  b < got' /\ (spoilt' \/ b < at')
    <3>1. CASE b \in hit
      <4>1. b < got /\ b \in Nat
        BY <1>2, <3>1 DEF PhyInv, Hits, Types
      <4> QED BY <1>1, <1>2, <1>3, <4>1, SMT
    <3>2. CASE b \in Held
      BY <1>1, <3>2 DEF Held
    <3> QED BY <1>1, <2>4, <3>1, <3>2
  <2>5. ASSUME tail > 0, start + tail = at'
        PROVE  spoilt' /\ at' < got'
    <3>1. start + tail <= at
      BY <2>5 DEF PhyInv, Packet
    <3> QED BY <1>1, <1>2, <1>3, <2>5, <3>1, SMT
  <2> QED BY <1>1, <2>1, <2>2, <2>3, <2>4, <2>5, Zenon DEF Hits
<1>10. Cut'
  <2>1. ASSUME NEW b \in bounds \ hit', b < at', at' < NextBound(bounds, b)
        PROVE  at' = at
    <3>1. b < pos /\ NextBound(bounds, b) \in Nat
      <4>1. b < pos
        BY <1>2, <1>3, <2>1, SMT
      <4> QED BY <1>4, <4>1
    <3>2. ~(got < NextBound(bounds, b))
      BY <1>4, <2>1, <3>1
    <3> QED BY <1>1, <1>2, <1>3, <2>1, <3>1, <3>2, SMT
  <2> QED BY <1>1, <2>1, Zenon DEF PhyInv, Cut
<1>11. Rebuilt'
  <2>1. ASSUME NEW b \in bounds, b < Total(bounds)
        PROVE  (NextBound(bounds, b) <= at' /\ b \notin hit')
                 <=> (NextBound(bounds, b) <= at /\ b \notin hit)
    <3>1. b \in Nat /\ NextBound(bounds, b) \in Nat /\ b < NextBound(bounds, b)
      BY <1>2, <2>1, StreamFact DEF PhyInv
    <3>2. ASSUME NextBound(bounds, b) <= at', b \notin hit'
          PROVE  NextBound(bounds, b) <= at /\ b \notin hit
      <4>1. b < pos
        BY <1>2, <1>3, <3>1, <3>2, SMT
      <4>2. ~(got < NextBound(bounds, b))
        BY <1>4, <3>2, <4>1
      <4> QED BY <1>1, <1>3, <3>1, <3>2, <4>2, SMT
    <3>3. ASSUME NextBound(bounds, b) <= at, b \notin hit
          PROVE  NextBound(bounds, b) <= at' /\ b \notin hit'
      <4>1. NextBound(bounds, b) <= at' /\ ~(got < NextBound(bounds, b))
        BY <1>1, <1>3, <3>1, <3>3, SMT
      <4> QED BY <1>1, <3>3, <4>1 DEF Held
    <3> QED BY <3>2, <3>3
  <2>2. Unhit(at)' = Unhit(at)
    BY <1>1, <2>1 DEF Unhit
  <2> QED BY <1>1, <2>2, Zenon DEF PhyInv, Rebuilt, All
<1>12. Buffer'
  BY <1>1, <1>3, SMT DEF PhyInv, Buffer
<1> QED BY <1>5, <1>6, <1>7, <1>8, <1>9, <1>10, <1>11, <1>12 DEF PhyInv

-----------------------------------------------------------------------------
(* from_phy                                                                *)

\* A PDU that is not hit, begins before q and ends beyond at, when the turn
\* goes from at to q and sees no valid packet: it is the one in construction.
LEMMA AheadFact ==
  ASSUME PhyInv, at < got, Invalid, ~split,
         NEW q \in Nat, at < q, q <= got,
         tail > 0 => q <= at + (expected - tail),
         NEW b \in bounds, b \notin hit, b < q, at < NextBound(bounds, b)
  PROVE  b < at /\ tail > 0 /\ start = b /\ unbroken /\ start + tail = at
         /\ ~spoilt
<1>1. /\ bounds \subseteq Nat /\ Hdr \in Nat /\ LenEnd \in Nat /\ Hdr <= LenEnd
      /\ pos \in Nat
      /\ pos <= Total(bounds) /\ Total(bounds) \in Nat
      /\ at \in Nat /\ got \in Nat /\ got <= pos /\ b \in Nat
      /\ tail \in Nat /\ start \in Nat
  BY StreamFact, SMT DEF PhyInv, Types
<1>2. b < got
  BY <1>1, SMT
<1>3. ~spoilt
  BY <1>2 DEF PhyInv, Hits
<1>4. ASSUME NEW c \in bounds, at < c, c < got PROVE at \notin bounds
  <2> SUFFICES ASSUME at \in bounds PROVE FALSE
    OBVIOUS
  <2>1. at < Total(bounds) /\ c \in Nat
    BY <1>1, SMT
  <2>2. NextBound(bounds, at) \in Nat /\ at + LenEnd <= NextBound(bounds, at)
        /\ NextBound(bounds, at) <= c
    BY <1>4, <2>1, StreamFact DEF PhyInv
  <2>3. ~(got - at >= Hdr)
    BY <1>3 DEF Invalid, Valid
  <2> QED BY <1>1, <1>4, <2>1, <2>2, <2>3, SMT
<1>5. CASE b < at
  BY <1>3, <1>5 DEF PhyInv, Cut
<1>6. CASE b = at
  <2>1. ~(got - at >= Hdr)
    BY <1>3, <1>6 DEF Invalid, Valid
  <2>2. got < b + LenEnd
    BY <1>1, <1>6, <2>1, SMT
  <2> QED BY <1>2, <2>2 DEF PhyInv, Hits
<1>7. CASE at < b
  <2>1. at \notin bounds
    BY <1>2, <1>4, <1>7
  <2>2. link # "plain"
    BY <1>2, <1>3, <1>7, <2>1 DEF PhyInv, Piece
  <2>3. hit = {}
    BY <2>2 DEF PhyInv, Hits, Types
  <2>4. at < Total(bounds)
    BY <1>1, SMT
  <2>5. PICK c \in bounds : c < at /\ at < NextBound(bounds, c)
    BY <1>1, <2>1, <2>4, StreamFact DEF PhyInv
  <2>6. tail > 0 /\ start = c /\ start + tail = at /\ unbroken
    BY <2>3, <2>5 DEF PhyInv, Cut
  <2>7. c \in Nat /\ c < Total(bounds) /\ c < b
    BY <1>1, <1>7, <2>4, <2>5, SMT
  <2>8. NextBound(bounds, c) \in Nat /\ NextBound(bounds, c) <= b
    BY <2>7, StreamFact DEF PhyInv
  <2>9. expected = NextBound(bounds, c) - c
    BY <2>6 DEF PhyInv, Packet, PduLen
  <2> QED BY <1>1, <2>6, <2>7, <2>8, <2>9, SMT
<1> QED BY <1>1, <1>5, <1>6, <1>7, SMT

\* What every turn of from_phy has in common.
LEMMA TurnFact ==
  ASSUME PhyInv, at < got,
         UNCHANGED <<vars, sending, link, got, spoilt, events>>,
         at' \in Nat, at < at', at' <= got, tail' \in Nat, start' \in Nat,
         delivered' \in Seq(Nat), ready' \in Seq(Nat),
         \A b \in bounds : link = "plain" /\ at' < b /\ b < got =>
           at' \in bounds \/ spoilt,
         tail' > 0 /\ unbroken' /\ start' + tail' = at' => start' \notin hit
  PROVE  (IInv /\ Sender /\ Types /\ Piece /\ Hits)'
<1>1. /\ bounds' = bounds /\ pos' = pos /\ link' = link /\ got' = got
      /\ spoilt' = spoilt /\ hit' = hit /\ split' = split
      /\ UNCHANGED <<vars, sending>>
  BY DEF vars, events
<1>2. /\ bounds \subseteq Nat /\ at \in Nat /\ got \in Nat
      /\ \A b \in bounds : b < Total(bounds) => NextBound(bounds, b) \in Nat
      /\ pos <= Total(bounds) /\ Total(bounds) \in Nat /\ got <= pos
      /\ pos \in Nat
  BY StreamFact DEF PhyInv, Types
<1>3. (IInv /\ Sender)'
  BY <1>1, SenderKept
<1>4. Types'
  BY <1>1 DEF PhyInv, Types
<1>5. Piece'
  <2>1. link = "plain" => got = pos
    BY <1>2, SMT DEF PhyInv, Piece
  <2>2. ASSUME link = "plain", NEW b \in bounds, at' < b, b < got
        PROVE  got \in bounds /\ (at' \in bounds \/ spoilt)
    <3>1. at < b
      BY <1>2, <2>2, SMT
    <3> QED BY <2>2, <3>1 DEF PhyInv, Piece
  <2>3. /\ link = "plain" => \A b \in bounds : got < b /\ b < pos =>
             got \in bounds /\ pos \in bounds
        /\ spoilt => link = "plain"
    BY DEF PhyInv, Piece
  <2> QED BY <1>1, <2>1, <2>2, <2>3, SMT DEF Piece
<1>6. Hits'
  <2>1. \A b \in bounds : b < at => b < at'
    BY <1>2, SMT
  <2>2. ASSUME NEW b \in bounds, b < got, at' < NextBound(bounds, b)
        PROVE  at < NextBound(bounds, b)
    <3>1. b < Total(bounds)
      BY <1>2, <2>2, SMT
    <3> QED BY <1>2, <2>2, <3>1, SMT
  <2>3. hit \subseteq bounds
    BY DEF PhyInv, Types
  <2>4. \A b \in hit : b < got /\ (spoilt \/ b < at' \/ got < b + LenEnd)
    BY <2>1, <2>3, Zenon DEF PhyInv, Hits
  <2>5. spoilt /\ at' < got =>
          \A b \in bounds : b < got /\ at' < NextBound(bounds, b) => b \in hit
    BY <2>2, Zenon DEF PhyInv, Hits
  <2>6. /\ link = "coded" /\ ~split => hit = {}
        /\ ~split => \A b \in bounds : b < got /\ got < b + LenEnd => b \in hit
    BY DEF PhyInv, Hits
  <2>7. /\ (link = "coded" /\ ~split => hit = {})'
        /\ (~split => \A b \in bounds :
                       b < got /\ got < b + LenEnd => b \in hit)'
    BY <1>1, <2>6, SMT
  <2>8. (spoilt /\ at < got => \A b \in bounds :
           b < got /\ at < NextBound(bounds, b) => b \in hit)'
    BY <1>1, <2>5, SMT
  <2>9. (\A b \in hit : b < got /\ (spoilt \/ b < at \/ got < b + LenEnd))'
    BY <1>1, <2>4, SMT
  <2>10. (tail > 0 /\ unbroken /\ start + tail = at => start \notin hit)'
    BY <1>1, Zenon
  <2> QED BY <2>7, <2>8, <2>9, <2>10, Zenon DEF Hits
<1> QED BY <1>3, <1>4, <1>5, <1>6

\* A PDU that is all there.
LEMMA FindWholeSeen ==
  ASSUME PhyInv, FindWhole, LengthSeen
  PROVE  PhyInv'
<1> DEFINE n == NextBound(bounds, at)
           buffer == Append(ready, at)
<1>1. /\ at < got /\ at \in bounds /\ got - at >= LenEnd /\ ~spoilt
      /\ at + PduLen(bounds, at) <= got /\ at' = at + PduLen(bounds, at)
      /\ tail' = 0 /\ Produce(buffer)
      /\ UNCHANGED <<vars, sending, link, got, spoilt, start, events>>
  BY DEF FindWhole, Valid, LengthSeen, Lengths
<1>2. /\ bounds' = bounds /\ pos' = pos /\ link' = link /\ got' = got
      /\ spoilt' = spoilt /\ hit' = hit /\ split' = split
  BY <1>1 DEF vars, events
<1>3. /\ bounds \subseteq Nat /\ at \in Nat /\ got \in Nat /\ got <= pos
      /\ pos \in Nat /\ pos <= Total(bounds) /\ Total(bounds) \in Nat
      /\ start \in Nat /\ Hdr \in Nat /\ LenEnd \in Nat /\ Hdr <= LenEnd
  BY StreamFact DEF PhyInv, Types
<1>4. at < Total(bounds)
  BY <1>1, <1>3, SMT
<1>5. /\ n \in bounds /\ n \in Nat /\ at < n
      /\ \A c \in bounds : at < c => n <= c
      /\ at' = n /\ n <= got
  <2>1. /\ n \in bounds /\ n \in Nat /\ at < n
        /\ \A c \in bounds : at < c => n <= c
    BY <1>1, <1>4, StreamFact DEF PhyInv
  <2>2. at + (n - at) = n
    BY <1>3, <2>1
  <2> QED BY <1>1, <2>1, <2>2 DEF PduLen
<1> HIDE DEF n
<1>6. buffer \in Seq(Nat)
  BY <1>3, AllFact DEF PhyInv, Types
<1> HIDE DEF buffer
<1>7. /\ delivered' \in Seq(Nat) /\ ready' \in Seq(Nat)
      /\ All' = delivered \o buffer
      /\ buffer = <<>> \/ (at' = got /\ tail' = 0) => ready' = <<>>
  BY <1>1, <1>6, ProduceFact DEF PhyInv
<1>8. (IInv /\ Sender /\ Types /\ Piece /\ Hits)'
  BY <1>1, <1>3, <1>5, <1>7, TurnFact
<1>9. Packet'
  BY <1>1 DEF Packet
<1>10. Cut'
  <2>1. ASSUME NEW b \in bounds, b < n, n < NextBound(bounds, b) PROVE FALSE
    <3>1. b < Total(bounds)
      BY <1>1, <1>3, <1>5, <2>1, SMT
    <3>2. NextBound(bounds, b) \in Nat /\ NextBound(bounds, b) <= n
      BY <1>5, <2>1, <3>1, StreamFact DEF PhyInv
    <3> QED BY <1>5, <2>1, <3>2, SMT
  <2> QED BY <1>2, <1>5, <2>1, Zenon DEF Cut
<1>11. Rebuilt'
  <2> SUFFICES ASSUME ~split
               PROVE  {All'[i] : i \in DOMAIN All'} = Unhit(n)
                      /\ Increasing(All')
    BY <1>2, <1>5 DEF Rebuilt, Unhit, Increasing
  <2>1. {All[i] : i \in DOMAIN All} = Unhit(at) /\ Increasing(All)
    BY DEF PhyInv, Rebuilt
  <2>2. ASSUME NEW b \in bounds, b < Total(bounds), b # at
        PROVE  NextBound(bounds, b) <= n <=> NextBound(bounds, b) <= at
    <3>1. /\ b \in Nat /\ NextBound(bounds, b) \in Nat
          /\ b < NextBound(bounds, b)
      BY <1>3, <2>2, StreamFact DEF PhyInv
    <3>2. CASE b < at
      <4>1. NextBound(bounds, b) <= at
        BY <1>1, <2>2, <3>2, StreamFact DEF PhyInv
      <4> QED BY <1>3, <1>5, <3>1, <4>1, SMT
    <3>3. CASE at < b
      <4>1. n <= b
        BY <1>5, <3>3
      <4> QED BY <1>3, <1>5, <3>1, <4>1, SMT
    <3> QED BY <1>3, <2>2, <3>1, <3>2, <3>3, SMT
  <2>3. ~(n <= at)
    BY <1>3, <1>5, SMT
  <2>4. Unhit(n) = Unhit(at) \cup ({at} \ hit)
    <3>1. ASSUME NEW x
          PROVE  x \in Unhit(n) <=> x \in Unhit(at) \cup ({at} \ hit)
      <4>1. CASE x = at
        <5>1. n <= n
          BY <1>5, SMT
        <5> QED BY <1>1, <1>4, <2>3, <4>1, <5>1 DEF Unhit, n
      <4>2. CASE x # at
        BY <2>2, <4>2 DEF Unhit
      <4> QED BY <4>1, <4>2
    <3> QED BY <3>1
  <2>5. at \notin hit
    <3>1. ~(at < at) /\ ~(got < at + LenEnd)
      BY <1>1, <1>3, SMT
    <3> QED BY <1>1, <3>1 DEF PhyInv, Hits
  <2>6. All \in Seq(Nat) /\ All' = Append(All, at)
    BY <1>3, <1>7, AllFact DEF buffer, PhyInv
  <2>7. ASSUME NEW y \in Unhit(at) PROVE y < at
    <3>1. /\ y \in Nat /\ NextBound(bounds, y) \in Nat
          /\ y < NextBound(bounds, y) /\ NextBound(bounds, y) <= at
      BY <1>3, StreamFact DEF Unhit, PhyInv
    <3> QED BY <1>3, <3>1, SMT
  <2>8. LET t == Append(All, at)
        IN  {t[i] : i \in DOMAIN t} = Unhit(at) \cup {at} /\ Increasing(t)
    BY <1>3, <2>1, <2>6, <2>7, AppendFact, Zenon
  <2> QED BY <2>4, <2>5, <2>6, <2>8
<1>12. Buffer'
  <2> SUFFICES ASSUME link = "plain", ready' # <<>>
               PROVE  n < got /\ ~spoilt /\ got \in bounds
    <3>1. tail' = 0 /\ at' = n /\ n \in bounds
      BY <1>1, <1>5
    <3> QED BY <1>2, <3>1, Zenon DEF Buffer
  <2>1. n < got
    BY <1>1, <1>3, <1>5, <1>7, SMT
  <2>2. got \in bounds
    BY <1>5, <2>1 DEF PhyInv, Piece
  <2> QED BY <1>1, <2>1, <2>2
<1> QED BY <1>8, <1>9, <1>10, <1>11, <1>12 DEF PhyInv

\* A PDU of which the length is there, and not all the rest.
LEMMA FindPartSeen ==
  ASSUME PhyInv, FindPart, LengthSeen
  PROVE  PhyInv'
<1> DEFINE n == NextBound(bounds, at)
<1>1. /\ at < got /\ at \in bounds /\ got - at >= LenEnd /\ ~spoilt
      /\ at + (n - at) > got
      /\ at' = got /\ start' = at /\ unbroken' = TRUE
      /\ tail' = got - at /\ expected' = n - at /\ Produce(ready)
      /\ UNCHANGED <<vars, sending, link, got, spoilt, events>>
  BY DEF FindPart, Valid, LengthSeen, Lengths, PduLen
<1>2. /\ bounds' = bounds /\ pos' = pos /\ link' = link /\ got' = got
      /\ spoilt' = spoilt /\ hit' = hit /\ split' = split
  BY <1>1 DEF vars, events
<1>3. /\ bounds \subseteq Nat /\ at \in Nat /\ got \in Nat /\ got <= pos
      /\ pos \in Nat /\ pos <= Total(bounds) /\ Total(bounds) \in Nat
      /\ Hdr \in Nat /\ Hdr > 0 /\ LenEnd \in Nat /\ Hdr <= LenEnd
  BY StreamFact DEF PhyInv, Types
<1>4. at < Total(bounds)
  BY <1>1, <1>3, SMT
<1>5. /\ n \in bounds /\ n \in Nat /\ at < n /\ n > got
      /\ \A c \in bounds : at < c => n <= c
  <2>1. /\ n \in bounds /\ n \in Nat /\ at < n
        /\ \A c \in bounds : at < c => n <= c
    BY <1>1, <1>4, StreamFact DEF PhyInv
  <2>2. n > got
    BY <1>1, <1>3, <2>1
  <2> QED BY <2>1, <2>2
<1>6. link = "plain" => ready = <<>>
  <2> SUFFICES ASSUME got \in bounds PROVE FALSE
    BY DEF PhyInv, Buffer
  <2>1. n <= got
    BY <1>1, <1>5
  <2> QED BY <1>1, <1>3, <1>5, <2>1, SMT
<1>7. at \notin hit
  <2>1. ~(at < at) /\ ~(got < at + LenEnd)
    BY <1>1, <1>3, SMT
  <2> QED BY <1>1, <2>1 DEF PhyInv, Hits
<1>8. LenEnd <= got - at /\ got - at < n - at
  BY <1>1, <1>3, <1>5
<1> HIDE DEF n
<1>9. /\ delivered' \in Seq(Nat) /\ ready' \in Seq(Nat)
      /\ All' = All /\ (ready = <<>> => ready' = <<>>)
  BY <1>1, ProduceFact, Zenon DEF PhyInv, Types, All
<1>10. (IInv /\ Sender /\ Types /\ Piece /\ Hits)'
  <2>1. at' \in Nat /\ at < at' /\ at' <= got /\ tail' \in Nat /\ start' \in Nat
    BY <1>1, <1>3, SMT
  <2>2. \A b \in bounds : ~(at' < b /\ b < got)
    BY <1>1, <1>3, SMT
  <2>3. start' \notin hit
    BY <1>1, <1>7, Zenon
  <2> QED BY <1>1, <1>9, <2>1, <2>2, <2>3, TurnFact, Zenon
<1>11. Packet'
  <2>1. PduLen(bounds, at) = n - at
    BY DEF PduLen, n
  <2>2. n - at \in Nat /\ at + (got - at) <= got
    BY <1>1, <1>3, <1>5, SMT
  <2> QED BY <1>1, <1>2, <1>4, <1>8, <2>1, <2>2, Zenon DEF Packet
<1>12. ASSUME NEW b \in bounds, b < got, b # at
       PROVE  b < at /\ NextBound(bounds, b) <= at
  <2>1. ~(at < b)
    BY <1>1, <1>3, <1>5, <1>12, SMT
  <2>2. b < at /\ b < Total(bounds)
    BY <1>3, <1>12, <2>1, SMT
  <2> QED BY <1>1, <2>2, StreamFact DEF PhyInv
<1>13. Cut'
  <2> SUFFICES ASSUME NEW b \in bounds, b \notin hit, b < got,
                      got < NextBound(bounds, b)
               PROVE  b = at
    <3>1. at + (got - at) = got /\ got - at > 0
      BY <1>1, <1>3, SMT
    <3>2. tail' > 0 /\ start' + tail' = at' /\ start' = at
      BY <1>1, <3>1
    <3> QED BY <1>1, <1>2, <3>2, Zenon DEF Cut
  <2> SUFFICES ASSUME b # at PROVE FALSE
    OBVIOUS
  <2>1. NextBound(bounds, b) <= at /\ b < Total(bounds)
    BY <1>3, <1>12, SMT
  <2>2. NextBound(bounds, b) \in Nat
    BY <2>1, StreamFact DEF PhyInv
  <2> QED BY <1>1, <1>3, <2>1, <2>2, SMT
<1>14. Rebuilt'
  <2>1. ASSUME NEW b \in bounds, b < Total(bounds)
        PROVE  NextBound(bounds, b) <= got <=> NextBound(bounds, b) <= at
    <3>1. /\ b \in Nat /\ NextBound(bounds, b) \in Nat
          /\ b < NextBound(bounds, b)
      BY <1>3, <2>1, StreamFact DEF PhyInv
    <3>2. CASE b = at
      BY <1>1, <1>3, <1>5, <3>2, SMT DEF n
    <3>3. CASE b # at /\ b < got
      BY <1>1, <1>3, <1>12, <3>1, <3>3, SMT
    <3>4. CASE ~(b < got)
      BY <1>1, <1>3, <3>1, <3>4, SMT
    <3> QED BY <3>2, <3>3, <3>4
  <2>2. Unhit(at)' = Unhit(at)
    BY <1>1, <1>2, <2>1 DEF Unhit
  <2> QED BY <1>2, <1>9, <2>2, Zenon DEF PhyInv, Rebuilt
<1>15. Buffer'
  BY <1>2, <1>6, <1>9, Zenon DEF Buffer
<1> QED BY <1>10, <1>11, <1>13, <1>14, <1>15 DEF PhyInv

\* A turn that recognizes a PDU and takes other bytes for its length: it is
\* hit, and no other that is not hit is touched.
LEMMA UnseenFact ==
  ASSUME PhyInv, at < got, Valid, ~LengthSeen, ~split,
         NEW b \in bounds, b < got, at < NextBound(bounds, b)
  PROVE  b \in hit
<1>1. /\ bounds \subseteq Nat /\ LenEnd \in Nat /\ at \in Nat /\ got \in Nat
      /\ got <= Total(bounds) /\ Total(bounds) \in Nat /\ b \in Nat
  <2>1. /\ bounds \subseteq Nat /\ LenEnd \in Nat /\ pos \in Nat
        /\ pos <= Total(bounds) /\ Total(bounds) \in Nat
    BY StreamFact DEF PhyInv
  <2> QED BY <2>1 DEF PhyInv, Types
<1>2. CASE spoilt
  BY <1>2 DEF PhyInv, Hits
<1>3. CASE ~spoilt
  <2>1. at \in bounds /\ got < at + LenEnd /\ at < Total(bounds)
    BY <1>1, <1>3 DEF Valid, LengthSeen
  <2>2. /\ NextBound(bounds, at) \in Nat
        /\ at + LenEnd <= NextBound(bounds, at)
        /\ \A c \in bounds : at < c => NextBound(bounds, at) <= c
    BY <2>1, StreamFact DEF PhyInv
  <2>3. ~(at < b)
    <3> SUFFICES ASSUME NextBound(bounds, at) <= b PROVE FALSE
      BY <2>2
    <3> QED BY <1>1, <2>1, <2>2
  <2>4. ~(b < at)
    <3> SUFFICES ASSUME b < at PROVE FALSE
      OBVIOUS
    <3>1. NextBound(bounds, b) \in Nat /\ NextBound(bounds, b) <= at
      <4>1. b < Total(bounds)
        BY <1>1
      <4> QED BY <2>1, <4>1, StreamFact DEF PhyInv
    <3> QED BY <1>1, <3>1
  <2>5. b = at
    BY <1>1, <2>3, <2>4
  <2> QED BY <2>1, <2>5 DEF PhyInv, Hits
<1> QED BY <1>2, <1>3

LEMMA FindUnseen ==
  ASSUME PhyInv, at < got, Valid, ~LengthSeen, Produce(ready),
         UNCHANGED <<vars, sending, link, got, spoilt, events>>,
         at' \in Nat, at < at', at' <= got,
         \/ tail' = 0 /\ start' = start
         \/ /\ at' = got /\ start' = at /\ unbroken' = FALSE
            /\ tail' = got - at
            /\ expected' \in Nat /\ tail' < expected'
  PROVE  PhyInv'
<1>1. /\ bounds' = bounds /\ pos' = pos /\ link' = link /\ got' = got
      /\ spoilt' = spoilt /\ hit' = hit /\ split' = split
  BY DEF vars, events
<1>2. /\ bounds \subseteq Nat /\ LenEnd \in Nat /\ at \in Nat /\ got \in Nat
      /\ got <= Total(bounds) /\ Total(bounds) \in Nat /\ start \in Nat
  <2>1. /\ bounds \subseteq Nat /\ LenEnd \in Nat /\ pos \in Nat
        /\ pos <= Total(bounds) /\ Total(bounds) \in Nat
    BY StreamFact DEF PhyInv
  <2> QED BY <2>1 DEF PhyInv, Types
<1>3. at \in bounds /\ at < Total(bounds)
  BY <1>2 DEF Valid
<1>4. /\ NextBound(bounds, at) \in Nat
      /\ at + LenEnd <= NextBound(bounds, at)
      /\ \A c \in bounds : at < c => NextBound(bounds, at) <= c
  BY <1>3, StreamFact DEF PhyInv
<1>5. ASSUME ~spoilt, NEW b \in bounds, at < b PROVE got < b
  <2>1. got < at + LenEnd
    BY <1>2, <1>5 DEF LengthSeen
  <2>2. NextBound(bounds, at) <= b
    BY <1>4, <1>5
  <2> QED BY <1>2, <1>4, <2>1, <2>2
<1>6. /\ delivered' \in Seq(Nat) /\ ready' \in Seq(Nat)
      /\ All' = All /\ (ready = <<>> => ready' = <<>>)
  BY ProduceFact, Zenon DEF PhyInv, Types, All
<1>7. ASSUME NEW b \in bounds, b < at', ~split, b \notin hit
      PROVE  NextBound(bounds, b) \in Nat /\ NextBound(bounds, b) <= at
  <2>1. b < got /\ b < Total(bounds)
    BY <1>2, <1>7
  <2>2. NextBound(bounds, b) \in Nat
    BY <2>1, StreamFact DEF PhyInv
  <2>3. ~(at < NextBound(bounds, b))
    BY <1>7, <2>1, UnseenFact
  <2> QED BY <1>2, <2>2, <2>3
<1>8. (IInv /\ Sender /\ Types /\ Piece /\ Hits)'
  <2>1. ASSUME link = "plain", NEW b \in bounds, at' < b, b < got PROVE spoilt
    <3> SUFFICES ASSUME ~spoilt PROVE FALSE
      OBVIOUS
    <3>1. at < b
      BY <1>2, <2>1
    <3>2. got < b
      BY <1>5, <3>1
    <3> QED BY <1>2, <2>1, <3>2
  <2>2. tail' \in Nat /\ start' \in Nat /\ ~(tail' > 0 /\ unbroken')
    BY <1>2
  <2> QED BY <1>6, <2>1, <2>2, TurnFact, Zenon
<1>9. Packet'
  <2>1. ASSUME tail' > 0
        PROVE  /\ start' = at /\ expected' \in Nat /\ tail' < expected'
               /\ start' + tail' <= at' /\ ~unbroken'
    <3>1. at' = got /\ start' = at /\ tail' = got - at
      BY <2>1
    <3>2. start' + tail' <= at'
      BY <1>2, <3>1
    <3> QED BY <2>1, <3>1, <3>2
  <2> QED BY <1>1, <1>3, <2>1, Zenon DEF Packet
<1>10. Cut'
  <2>1. ASSUME ~split, NEW b \in bounds, b \notin hit, b < at',
               at' < NextBound(bounds, b)
        PROVE  FALSE
    <3>1. NextBound(bounds, b) \in Nat /\ NextBound(bounds, b) <= at
      BY <1>7, <2>1
    <3> QED BY <1>2, <2>1, <3>1
  <2> QED BY <1>1, <2>1, Zenon DEF Cut
<1>11. Rebuilt'
  <2>1. ASSUME ~split, NEW b \in bounds, b \notin hit, b < Total(bounds)
        PROVE  NextBound(bounds, b) <= at' <=> NextBound(bounds, b) <= at
    <3>1. /\ b \in Nat /\ NextBound(bounds, b) \in Nat
          /\ b < NextBound(bounds, b)
      BY <1>2, <2>1, StreamFact DEF PhyInv
    <3>2. CASE b < at'
      <4>1. NextBound(bounds, b) <= at
        BY <1>7, <2>1, <3>2
      <4> QED BY <1>2, <3>1, <4>1
    <3>3. CASE ~(b < at')
      BY <1>2, <3>1, <3>3
    <3> QED BY <3>2, <3>3
  <2>2. ~split => Unhit(at)' = Unhit(at)
    BY <1>1, <2>1 DEF Unhit
  <2> QED BY <1>1, <1>6, <2>2, Zenon DEF PhyInv, Rebuilt
<1>12. Buffer'
  <2>1. link = "plain" => ready = <<>>
    <3> SUFFICES ASSUME ~spoilt, got \in bounds PROVE FALSE
      BY DEF PhyInv, Buffer
    <3>1. got < got
      BY <1>5
    <3> QED BY <1>2, <3>1
  <2> QED BY <1>1, <1>6, <2>1, Zenon DEF Buffer
<1> QED BY <1>8, <1>9, <1>10, <1>11, <1>12 DEF PhyInv

LEMMA FindWholeInv == PhyInv /\ FindWhole => PhyInv'
<1> SUFFICES ASSUME PhyInv, FindWhole, ~LengthSeen PROVE PhyInv'
  BY FindWholeSeen
<1>1. PICK len \in Misread : at + len <= got /\ at' = at + len
  BY DEF FindWhole, Lengths
<1>2. len \in Nat /\ len > 0 /\ at \in Nat
  <2>1. Hdr \in Nat /\ Hdr > 0 /\ at \in Nat
    BY StreamFact DEF PhyInv, Types
  <2>2. len \in Nat /\ len >= Hdr
    BY PhyAssumption, Zenon DEF PhyAssumption
  <2> QED BY <2>1, <2>2
<1>3. at' \in Nat /\ at < at' /\ at' <= got
  BY <1>1, <1>2
<1>4. /\ at < got /\ Valid /\ Produce(ready) /\ tail' = 0 /\ start' = start
      /\ UNCHANGED <<vars, sending, link, got, spoilt, events>>
  BY DEF FindWhole
<1> QED BY <1>3, <1>4, FindUnseen

LEMMA FindPartInv == PhyInv /\ FindPart => PhyInv'
<1> SUFFICES ASSUME PhyInv, FindPart, ~LengthSeen PROVE PhyInv'
  BY FindPartSeen
<1>1. PICK len \in Misread : at + len > got /\ expected' = len
  BY DEF FindPart, Lengths
<1>2. len \in Nat /\ at \in Nat /\ got \in Nat
  <2>1. len \in Nat
    BY PhyAssumption, Zenon DEF PhyAssumption
  <2> QED BY <2>1 DEF PhyInv, Types
<1>3. /\ at < got /\ Valid /\ Produce(ready)
      /\ at' = got /\ start' = at /\ unbroken' = FALSE /\ tail' = got - at
      /\ UNCHANGED <<vars, sending, link, got, spoilt, events>>
  BY DEF FindPart
<1>4. /\ at' \in Nat /\ at < at' /\ at' <= got
      /\ expected' \in Nat /\ tail' < expected'
  BY <1>1, <1>2, <1>3
<1> QED BY <1>3, <1>4, FindUnseen

\* Which PDUs a turn that sees no valid packet completes.
LEMMA UnhitFact ==
  ASSUME PhyInv, at < got, Invalid, ~split,
         NEW q \in Nat, at < q, q <= got,
         tail > 0 => q <= at + (expected - tail)
  PROVE  /\ Unhit(at) \subseteq Unhit(q)
         /\ \A x \in Unhit(q) \ Unhit(at) :
              /\ tail > 0 /\ start = x /\ unbroken /\ start + tail = at
              /\ ~spoilt
<1>1. /\ bounds \subseteq Nat /\ at \in Nat
      /\ \A b \in bounds : b < Total(bounds) =>
           NextBound(bounds, b) \in Nat /\ b < NextBound(bounds, b)
  BY StreamFact DEF PhyInv, Types
<1>2. ASSUME NEW x \in Unhit(at) PROVE x \in Unhit(q)
  <2>1. x \in bounds /\ x < Total(bounds) /\ NextBound(bounds, x) <= at
        /\ x \notin hit
    BY DEF Unhit
  <2>2. NextBound(bounds, x) <= q
    BY <1>1, <2>1, SMT
  <2> QED BY <2>1, <2>2 DEF Unhit
<1>3. ASSUME NEW x \in Unhit(q), x \notin Unhit(at)
      PROVE  /\ tail > 0 /\ start = x /\ unbroken /\ start + tail = at
             /\ ~spoilt
  <2>1. x \in bounds /\ x < Total(bounds) /\ NextBound(bounds, x) <= q
        /\ x \notin hit /\ ~(NextBound(bounds, x) <= at)
    BY <1>3 DEF Unhit
  <2>2. x < q /\ at < NextBound(bounds, x)
    BY <1>1, <2>1, SMT
  <2> QED BY <2>1, <2>2, AheadFact
<1> QED BY <1>2, <1>3

LEMMA PassOnInv == PhyInv /\ PassOn => PhyInv'
<1> SUFFICES ASSUME PhyInv, PassOn PROVE PhyInv'
  OBVIOUS
<1>1. /\ at < got /\ Invalid /\ tail = 0 /\ tail' = 0 /\ Produce(ready)
      /\ UNCHANGED <<vars, sending, link, got, spoilt, start, events>>
  BY DEF PassOn
<1>2. /\ bounds' = bounds /\ pos' = pos /\ link' = link /\ got' = got
      /\ spoilt' = spoilt /\ hit' = hit /\ split' = split /\ start' = start
  BY <1>1 DEF vars, events
<1>3. /\ bounds \subseteq Nat /\ at \in Nat /\ got \in Nat /\ got <= pos
      /\ pos \in Nat /\ pos <= Total(bounds) /\ Total(bounds) \in Nat
      /\ Hdr \in Nat /\ Hdr > 0 /\ LenEnd \in Nat /\ Hdr <= LenEnd
      /\ start \in Nat
  BY StreamFact DEF PhyInv, Types
<1>4. at' \in Nat /\ at < at' /\ at' <= got
  BY <1>1, <1>3, SMT DEF PassOn
<1>5. /\ delivered' \in Seq(Nat) /\ ready' \in Seq(Nat)
      /\ All' = All /\ (ready = <<>> => ready' = <<>>)
  BY <1>1, ProduceFact, Zenon DEF PhyInv, Types, All
<1>6. ASSUME NEW b \in bounds, at < b, b < got
      PROVE  ~(at \in bounds) \/ spoilt
  <2> SUFFICES ASSUME at \in bounds, ~spoilt PROVE FALSE
    OBVIOUS
  <2>1. b \in Nat /\ at < Total(bounds)
    BY <1>3, <1>6, SMT
  <2>2. NextBound(bounds, at) \in Nat /\ at + LenEnd <= NextBound(bounds, at)
        /\ NextBound(bounds, at) <= b
    BY <1>6, <2>1, StreamFact DEF PhyInv
  <2>3. ~(got - at >= Hdr)
    BY <1>1 DEF Invalid, Valid
  <2> QED BY <1>3, <1>6, <2>1, <2>2, <2>3, SMT
<1>7. (IInv /\ Sender /\ Types /\ Piece /\ Hits)'
  <2>1. ASSUME link = "plain", NEW b \in bounds, at' < b, b < got PROVE spoilt
    <3>1. at < b
      BY <1>3, <1>4, <2>1, SMT
    <3> QED BY <1>6, <2>1, <3>1 DEF PhyInv, Piece
  <2>2. ~(tail' > 0) /\ tail' \in Nat /\ start' \in Nat
    BY <1>1, <1>2, <1>3
  <2> QED BY <1>1, <1>4, <1>5, <2>1, <2>2, TurnFact, Zenon
<1>8. Packet'
  BY <1>1 DEF Packet
<1>9. ~(tail > 0)
  BY <1>1, SMT
<1>10. Cut'
  <2>1. ASSUME ~split, NEW b \in bounds, b \notin hit, b < at',
               at' < NextBound(bounds, b)
        PROVE  FALSE
    <3>1. b < Total(bounds)
      BY <1>3, <1>4, <2>1, SMT
    <3>2. NextBound(bounds, b) \in Nat
      BY <2>1, <3>1, StreamFact DEF PhyInv
    <3>3. at < NextBound(bounds, b)
      BY <1>3, <1>4, <2>1, <3>2, SMT
    <3> QED BY <1>1, <1>4, <1>9, <2>1, <3>3, AheadFact
  <2> QED BY <1>2, <2>1, Zenon DEF Cut
<1>11. Rebuilt'
  <2>1. ~split => Unhit(at') = Unhit(at)
    BY <1>1, <1>4, <1>9, UnhitFact
  <2>2. Unhit(at)' = Unhit(at')
    BY <1>2 DEF Unhit
  <2> QED BY <1>2, <1>5, <2>1, <2>2, Zenon DEF PhyInv, Rebuilt
<1>12. Buffer'
  <2>1. link = "plain" => ready = <<>>
    <3> SUFFICES ASSUME ~spoilt, at \in bounds, got \in bounds PROVE FALSE
      BY DEF PhyInv, Buffer
    <3>1. at < Total(bounds)
      BY <1>1, <1>3, SMT
    <3>2. /\ NextBound(bounds, at) \in Nat
          /\ at + LenEnd <= NextBound(bounds, at)
          /\ NextBound(bounds, at) <= got
      BY <1>1, <3>1, StreamFact DEF PhyInv
    <3>3. ~(got - at >= Hdr)
      BY <1>1 DEF Invalid, Valid
    <3> QED BY <1>3, <3>2, <3>3, SMT
  <2> QED BY <1>2, <1>5, <2>1, Zenon DEF Buffer
<1> QED BY <1>7, <1>8, <1>10, <1>11, <1>12 DEF PhyInv

LEMMA ContinuePacketInv == PhyInv /\ ContinuePacket => PhyInv'
<1> SUFFICES ASSUME PhyInv, ContinuePacket PROVE PhyInv'
  OBVIOUS
<1> DEFINE n == Least(expected - tail, got - at)
           whole == tail + n = expected
           buffer == IF whole /\ unbroken' THEN Append(ready, start) ELSE ready
<1>1. /\ at < got /\ Invalid /\ tail > 0 /\ at' = at + n
      /\ UNCHANGED <<vars, sending, link, got, spoilt, start, events>>
      /\ unbroken' = (unbroken /\ at = start + tail /\ ~spoilt)
      /\ whole => tail' = 0
      /\ ~whole => tail' = tail + n /\ expected' = expected
  BY Zenon DEF ContinuePacket
<1>2. /\ bounds' = bounds /\ pos' = pos /\ link' = link /\ got' = got
      /\ spoilt' = spoilt /\ hit' = hit /\ split' = split /\ start' = start
  BY <1>1 DEF vars, events
<1>3. /\ bounds \subseteq Nat /\ at \in Nat /\ got \in Nat /\ got <= pos
      /\ pos \in Nat /\ pos <= Total(bounds) /\ Total(bounds) \in Nat
      /\ Hdr \in Nat /\ Hdr > 0 /\ LenEnd \in Nat /\ Hdr <= LenEnd
      /\ start \in Nat /\ tail \in Nat
      /\ link \in {"coded", "plain"}
  BY StreamFact DEF PhyInv, Types
<1>4. /\ start \in bounds /\ start < Total(bounds)
      /\ unbroken => expected = NextBound(bounds, start) - start
      /\ NextBound(bounds, start) \in bounds
      /\ NextBound(bounds, start) \in Nat
      /\ start < NextBound(bounds, start)
      /\ \A c \in bounds : start < c => NextBound(bounds, start) <= c
      /\ tail < expected /\ start + tail <= at /\ expected \in Nat
      /\ unbroken => LenEnd <= tail
  <2>1. /\ start \in bounds /\ start < Total(bounds)
        /\ unbroken => expected = NextBound(bounds, start) - start
        /\ tail < expected /\ start + tail <= at /\ expected \in Nat
        /\ unbroken => LenEnd <= tail
    BY <1>1 DEF PhyInv, Packet, PduLen
  <2> QED BY <2>1, StreamFact DEF PhyInv
<1>5. expected \in Nat
  BY <1>3, <1>4, SMT
<1>6. /\ n \in Nat /\ n > 0 /\ n <= got - at /\ n <= expected - tail
      /\ ~whole => n = got - at /\ tail + n < expected
  BY <1>1, <1>3, <1>4, <1>5, SMT DEF Least
<1>7. /\ at' \in Nat /\ at < at' /\ at' <= got
      /\ at' <= at + (expected - tail)
  BY <1>1, <1>3, <1>4, <1>5, <1>6, SMT
<1>8. Produce(buffer)
  <2>1. CASE whole /\ unbroken'
    BY <2>1, Zenon DEF ContinuePacket
  <2>2. CASE whole /\ ~unbroken'
    BY <2>2, Zenon DEF ContinuePacket
  <2>3. CASE ~whole
    BY <2>3, Zenon DEF ContinuePacket
  <2> QED BY <2>1, <2>2, <2>3, Zenon
<1> HIDE DEF n, whole
<1>9. buffer \in Seq(Nat)
  BY <1>3, AllFact DEF PhyInv, Types
<1> HIDE DEF buffer
<1>10. /\ delivered' \in Seq(Nat) /\ ready' \in Seq(Nat)
       /\ All' = delivered \o buffer
       /\ buffer = <<>> \/ (at' = got /\ tail' = 0) => ready' = <<>>
  BY <1>8, <1>9, ProduceFact DEF PhyInv
<1>11. unbroken' <=> unbroken /\ at = start + tail /\ ~spoilt
  BY <1>1, Zenon
<1>12. tail' \in Nat /\ (tail' > 0 <=> ~whole)
  BY <1>1, <1>3, <1>6, SMT
<1>13. unbroken' => start \notin hit
  <2> SUFFICES ASSUME unbroken, at = start + tail, ~spoilt
               PROVE  start \notin hit
    BY <1>11
  <2>1. start + tail = at
    BY <1>3
  <2> QED BY <1>1, <2>1 DEF PhyInv, Hits
<1>14. (IInv /\ Sender /\ Types /\ Piece /\ Hits)'
  <2>1. ASSUME link = "plain", NEW b \in bounds, at' < b, b < got PROVE spoilt
    <3> SUFFICES ASSUME ~spoilt PROVE FALSE
      OBVIOUS
    <3>1. at < b /\ b \in Nat /\ at < Total(bounds)
      BY <1>3, <1>7, <2>1, SMT
    <3>2. at \in bounds
      BY <2>1, <3>1 DEF PhyInv, Piece
    <3>3. /\ NextBound(bounds, at) \in Nat
          /\ at + LenEnd <= NextBound(bounds, at)
          /\ NextBound(bounds, at) <= b
      BY <3>1, <3>2, StreamFact DEF PhyInv
    <3>4. ~(got - at >= Hdr)
      BY <1>1, <3>2 DEF Invalid, Valid
    <3> QED BY <1>3, <2>1, <3>1, <3>3, <3>4, SMT
  <2>2. start' \in Nat
    BY <1>2, <1>3
  <2> QED BY <1>1, <1>2, <1>7, <1>10, <1>12, <1>13, <2>1, <2>2, TurnFact, Zenon
<1>15. Packet'
  <2> SUFFICES ASSUME ~whole
               PROVE  /\ start \in bounds /\ start < Total(bounds)
                      /\ expected \in Nat /\ tail + n < expected
                      /\ start + (tail + n) <= at + n
                      /\ unbroken => expected = PduLen(bounds, start)
                      /\ unbroken => LenEnd <= tail + n
    <3>1. tail' > 0 =>
            /\ tail' = tail + n /\ expected' = expected
            /\ start' = start /\ at' = at + n /\ bounds' = bounds /\ ~whole
            /\ unbroken' => unbroken
      BY <1>1, <1>2, <1>11, <1>12
    <3> QED BY <3>1, SMT DEF Packet
  <2>1. unbroken => expected = PduLen(bounds, start)
    BY <1>4 DEF PduLen
  <2> QED BY <1>3, <1>4, <1>5, <1>6, <2>1, SMT
<1>16. Cut'
  <2> SUFFICES ASSUME ~split, NEW b \in bounds, b \notin hit, b < at',
                      at' < NextBound(bounds, b)
               PROVE  tail' > 0 /\ start = b /\ unbroken' /\ start + tail' = at'
    BY <1>2, Zenon DEF Cut
  <2>1. b < Total(bounds)
    BY <1>3, <1>7, SMT
  <2>2. NextBound(bounds, b) \in Nat
    BY <2>1, StreamFact DEF PhyInv
  <2>3. at < NextBound(bounds, b)
    BY <1>3, <1>7, <2>2, SMT
  <2>4. start = b /\ unbroken /\ start + tail = at /\ ~spoilt
    BY <1>1, <1>7, <2>3, AheadFact
  <2>5. ~whole
    <3> SUFFICES ASSUME tail + n = expected PROVE FALSE
      BY DEF whole
    <3>1. at' = NextBound(bounds, start)
      BY <1>1, <1>3, <1>4, <1>6, <2>4, SMT
    <3> QED BY <1>3, <1>7, <2>2, <2>4, <3>1, SMT
  <2>6. start + (tail + n) = at + n
    BY <1>3, <1>6, <2>4, SMT
  <2> QED BY <1>1, <1>11, <1>12, <2>4, <2>5, <2>6, Zenon
<1>17. Rebuilt'
  <2> SUFFICES ASSUME ~split
               PROVE  {All'[i] : i \in DOMAIN All'} = Unhit(at')
                      /\ Increasing(All')
    BY <1>2 DEF Rebuilt, Unhit, Increasing
  <2>1. {All[i] : i \in DOMAIN All} = Unhit(at) /\ Increasing(All)
    BY DEF PhyInv, Rebuilt
  <2>2. /\ Unhit(at) \subseteq Unhit(at')
        /\ \A x \in Unhit(at') \ Unhit(at) :
             start = x /\ unbroken /\ start + tail = at /\ ~spoilt
    BY <1>1, <1>7, UnhitFact
  <2>3. ASSUME start + tail = at, unbroken
        PROVE  /\ ~(NextBound(bounds, start) <= at)
               /\ NextBound(bounds, start) <= at' <=> whole
    BY <1>1, <1>3, <1>4, <1>6, <2>3, SMT DEF whole
  <2>4. ASSUME whole, unbroken'
        PROVE  Unhit(at') = Unhit(at) \cup {start}
    <3>1. start \in Unhit(at')
      <4>1. start + tail = at /\ unbroken
        BY <1>3, <1>11, <2>4
      <4> QED BY <1>4, <1>13, <2>3, <2>4, <4>1 DEF Unhit
    <3> QED BY <2>2, <3>1
  <2>5. ASSUME ~(whole /\ unbroken')
        PROVE  Unhit(at') = Unhit(at)
    <3> SUFFICES ASSUME NEW x \in Unhit(at'), x \notin Unhit(at)
                 PROVE  whole /\ unbroken'
      BY <2>2, <2>5
    <3>1. start = x /\ unbroken /\ start + tail = at /\ ~spoilt
      BY <2>2
    <3>2. NextBound(bounds, start) <= at'
      BY <3>1 DEF Unhit
    <3> QED BY <1>11, <2>3, <3>1, <3>2
  <2>6. CASE whole /\ unbroken'
    <3>1. All \in Seq(Nat) /\ All' = Append(All, start)
      BY <1>3, <1>10, <2>6, AllFact DEF buffer, PhyInv
    <3>2. ASSUME NEW y \in Unhit(at) PROVE y < start
      <4>1. /\ y \in bounds /\ y \in Nat /\ NextBound(bounds, y) \in Nat
            /\ y < NextBound(bounds, y) /\ NextBound(bounds, y) <= at
        BY <1>3, StreamFact DEF Unhit, PhyInv
      <4>2. start + tail = at /\ unbroken
        BY <1>3, <1>11, <2>6
      <4>3. ~(NextBound(bounds, start) <= at)
        BY <2>3, <4>2
      <4>4. ~(start < y)
        BY <1>3, <1>4, <4>1, <4>3, SMT
      <4> QED BY <1>3, <4>1, <4>3, <4>4, SMT
    <3>3. LET t == Append(All, start)
          IN  {t[i] : i \in DOMAIN t} = Unhit(at) \cup {start} /\ Increasing(t)
      BY <1>3, <2>1, <3>1, <3>2, AppendFact, Zenon
    <3> QED BY <2>4, <2>6, <3>1, <3>3
  <2>7. CASE ~(whole /\ unbroken')
    <3>1. All' = All
      BY <1>10, <2>7 DEF buffer, All
    <3> QED BY <2>1, <2>5, <2>7, <3>1
  <2> QED BY <2>6, <2>7
<1>18. Buffer'
  <2> SUFFICES ASSUME link = "plain", ready' # <<>>
               PROVE  at' < got /\ ~spoilt /\ tail' = 0
                      /\ at' \in bounds /\ got \in bounds
    BY <1>2, Zenon DEF Buffer
  <2>1. ready = <<>>
    BY <1>1, <1>3, SMT DEF PhyInv, Buffer
  <2>2. whole /\ unbroken'
    BY <1>10, <2>1 DEF buffer
  <2>3. tail' = 0 /\ at' < got
    BY <1>1, <1>3, <1>7, <1>10, <2>2, SMT
  <2>4. ~spoilt /\ start + tail = at /\ unbroken
    BY <1>3, <1>11, <2>2
  <2>5. at' = NextBound(bounds, start)
    BY <1>1, <1>3, <1>4, <1>6, <2>2, <2>4, SMT DEF whole
  <2>6. got \in bounds
    BY <1>4, <1>7, <2>3, <2>5 DEF PhyInv, Piece
  <2> QED BY <1>4, <2>3, <2>4, <2>5, <2>6
<1> QED BY <1>14, <1>15, <1>16, <1>17, <1>18 DEF PhyInv

-----------------------------------------------------------------------------
(* The theorems                                                            *)

LEMMA NextPhyInv == PhyInv /\ [PhyNext]_phyVars => PhyInv'
<1> SUFFICES ASSUME PhyInv, [PhyNext]_phyVars PROVE PhyInv'
  OBVIOUS
<1>1. CASE Post
  BY <1>1, PostInv
<1>2. CASE ToPhy
  BY <1>2, ToPhyInv
<1>3. CASE Frame
  BY <1>3, FrameInv
<1>4. CASE Receive
  BY <1>4, ReceiveInv
<1>5. CASE Lose \/ Spoil
  BY <1>5, HitInv
<1>6. CASE FromPhy
  BY <1>6, FindWholeInv, FindPartInv, ContinuePacketInv, PassOnInv DEF FromPhy
<1>7. CASE UNCHANGED phyVars
  <2>1. /\ UNCHANGED <<vars, queued, taken, link, receiving, events>>
        /\ UNCHANGED <<bounds, pos, link, receiving, events>>
    BY <1>7 DEF phyVars, vars, sending
  <2>2. (IInv /\ Sender)'
    BY <2>1 DEF PhyInv, IInv, TypeOK, RemainInSync, Sender, vars
  <2> QED BY <2>1, <2>2, SenderStep DEF PhyInv
<1> QED BY <1>1, <1>2, <1>3, <1>4, <1>5, <1>6, <1>7 DEF PhyNext

LEMMA PhyInvariance == PhySpec => []PhyInv
BY InitPhyInv, NextPhyInv, PTL DEF PhySpec

\* to_phy never writes beyond what is queued, from_phy never looks beyond
\* what it was given, and a packet in construction is never over-full.
THEOREM PhyTypeCorrect == PhySpec => []PhyTypeOK
<1>1. PhyInv => PhyTypeOK
  BY DEF PhyInv, Sender, Types, Packet, PhyTypeOK
<1> QED BY <1>1, PhyInvariance, PTL

\* Every PDU of which all pieces arrived is rebuilt once, in order, whatever
\* was lost or spoilt around it: for every stream, payload and room.
THEOREM IntactRebuiltCorrect == PhySpec => []IntactRebuilt
<1>1. PhyInv => IntactRebuilt
  BY DEF PhyInv, Rebuilt, All, Idle, IntactRebuilt
<1> QED BY <1>1, PhyInvariance, PTL

\* On the plain link nothing waits in the output buffer between two frames.
THEOREM NoneHeldBackCorrect == PhySpec => []NoneHeldBack
<1>1. PhyInv => NoneHeldBack
  <2> SUFFICES ASSUME PhyInv, link = "plain", Idle, ready # <<>> PROVE FALSE
    BY DEF NoneHeldBack
  <2>1. at < got /\ at = got /\ at \in Nat
    BY DEF PhyInv, Buffer, Idle, Types
  <2> QED BY <2>1, SMT
<1> QED BY <1>1, PhyInvariance, PTL

\* The link with to_phy at its head and from_phy behind it is still the
\* consumer of PduConsumer: to_phy only makes bytes arrive, as many as it
\* likes, and the framer takes them as specified.
THEOREM ConsumesAsSpecified == PhySpec => Spec
<1>1. PhyInit => Init
  BY DEF PhyInit
<1>2. PhyInv /\ [PhyNext]_phyVars => [Next]_vars
  <2> SUFFICES ASSUME PhyInv, [PhyNext]_phyVars PROVE [Next]_vars
    OBVIOUS
  <2>1. CASE ToPhy
    <3>1. PICK room \in Room :
            Write(room) \/ TakeOnly(room) \/ Overrun(room)
      BY <2>1 DEF ToPhy
    <3>2. CASE Write(room)
      BY <3>2, WriteFact DEF Next
    <3>3. CASE TakeOnly(room) \/ Overrun(room)
      BY <3>3 DEF TakeOnly, Overrun
    <3> QED BY <3>1, <3>2, <3>3
  <2>2. CASE Frame
    BY <2>2 DEF Frame, Next
  <2>3. CASE Post \/ Receive \/ Lose \/ Spoil \/ FromPhy \/ UNCHANGED phyVars
    BY <2>3 DEF Post, Receive, Lose, Spoil, Hit, FromPhy, FindWhole, FindPart,
                ContinuePacket, PassOn, phyVars
  <2> QED BY <2>1, <2>2, <2>3 DEF PhyNext
<1> QED BY <1>1, <1>2, PhyInvariance, PTL DEF PhySpec, Spec

-----------------------------------------------------------------------------
(* The calls go on                                                         *)

\* to_phy has one PDU in hand: the one that its next byte is of.
OneInHand == arrived < taken => taken = NextBound(bounds, arrived)

\* A write adds to the rest of the PDU in hand, or it ends it.
RestWritten ==
  [][(\E room \in Room : Write(room)) =>
       /\ arrived < arrived' /\ arrived' <= queued
       /\ arrived' < taken => taken' = taken
       /\ queued - arrived < Addrs => arrived' = queued]_phyVars

\* A turn of the loop of from_phy looks at some of the piece.
TurnsEnd == [][FromPhy => at < at' /\ at' <= got]_phyVars

LEMMA InHand ==
  ASSUME PhyInv, OneInHand, [PhyNext]_phyVars
  PROVE  OneInHand'
<1>1. ASSUME NEW room \in Room, Write(room)
      PROVE  OneInHand'
  <2>1. taken' = TakenAt(arrived') /\ bounds' = bounds
    BY <1>1 DEF Write
  <2>2. arrived' \in Nat
    <3>1. /\ arrived' = Least(arrived + room, queued)
          /\ arrived \in Nat /\ room \in Nat /\ queued \in Nat
      BY <1>1, PhyAssumption, StreamFact DEF Write, PhyInv, Sender
    <3> QED
      BY <3>1 DEF Least
  <2>3. CASE arrived' \in bounds
    <3>1. taken' = arrived'
      BY <2>1, <2>3, Zenon DEF TakenAt
    <3>2. ~(arrived' < taken')
      BY <2>2, <3>1
    <3> QED
      BY <3>2, Zenon DEF OneInHand
  <2>4. CASE arrived' \notin bounds
    <3>1. taken' = NextBound(bounds', arrived')
      BY <2>1, <2>4, Zenon DEF TakenAt
    <3> QED
      BY <3>1, Zenon DEF OneInHand
  <2> QED
    BY <2>3, <2>4
<1>2. ASSUME NEW room \in Room, TakeOnly(room)
      PROVE  OneInHand'
  BY <1>2 DEF TakeOnly, OneInHand, vars
<1>3. CASE ~\E room \in Room : Write(room) \/ TakeOnly(room)
  <2>1. UNCHANGED <<bounds, arrived, taken>>
    BY <1>3 DEF PhyNext, Post, ToPhy, Overrun, Frame, Read, Call, Receive, Lose,
       Spoil, Hit, FromPhy, FindWhole, FindPart, ContinuePacket, PassOn,
       phyVars, vars, sending
  <2> QED
    BY <2>1 DEF OneInHand
<1> QED
  BY <1>1, <1>2, <1>3

LEMMA WriteEnds ==
  ASSUME PhyInv, OneInHand, NEW room \in Room, Write(room)
  PROVE  /\ arrived < arrived' /\ arrived' <= queued
         /\ arrived' < taken => taken' = taken
         /\ queued - arrived < Addrs => arrived' = queued
<1>1. /\ arrived' = Least(arrived + room, queued) /\ taken' = TakenAt(arrived')
      /\ queued > taken /\ room >= Addrs
  BY DEF Write
<1>2. /\ room \in Nat /\ room > 0 /\ Addrs \in Nat /\ arrived \in Nat
      /\ taken \in Nat /\ queued \in Nat /\ arrived <= taken
      /\ bounds \subseteq Nat /\ taken \in bounds
  BY <1>1, PhyAssumption, StreamFact DEF PhyInv, Sender
<1>3. /\ arrived < arrived' /\ arrived' <= queued /\ arrived' \in Nat
      /\ queued - arrived < Addrs => arrived' = queued
  BY <1>1, <1>2 DEF Least
<1>4. ASSUME arrived' < taken
      PROVE  taken' = taken
  <2>1. \E b \in bounds : b > arrived
    BY <1>2, <1>3, <1>4
  <2>2. taken = NextBound(bounds, arrived)
    BY <1>2, <1>3, <1>4 DEF OneInHand
  <2>3. /\ arrived < arrived' /\ arrived <= arrived' /\ arrived' \in Nat
        /\ arrived' < NextBound(bounds, arrived)
        /\ arrived \in Nat /\ bounds \subseteq Nat
    BY <1>2, <1>3, <1>4, <2>2
  <2>4. arrived' \notin bounds
    BY <2>1, <2>3, InsidePdu, Zenon
  <2>5. NextBound(bounds, arrived') = NextBound(bounds, arrived)
    BY <2>1, <2>3, NextBoundSame, Zenon
  <2> QED
    BY <1>1, <2>2, <2>4, <2>5 DEF TakenAt
<1> QED
  BY <1>3, <1>4

LEMMA TurnTakes ==
  ASSUME PhyInv, FromPhy
  PROVE  at < at' /\ at' <= got
<1>1. /\ at \in Nat /\ got \in Nat /\ at < got /\ Hdr \in Nat /\ Hdr > 0
      /\ LenEnd \in Nat /\ Hdr <= LenEnd
      /\ tail \in Nat /\ got <= Total(bounds) /\ Total(bounds) \in Nat
      /\ bounds \subseteq Nat
  <2>1. /\ pos \in Nat /\ pos <= Total(bounds) /\ Total(bounds) \in Nat
        /\ bounds \subseteq Nat /\ Hdr \in Nat /\ Hdr > 0
        /\ LenEnd \in Nat /\ Hdr <= LenEnd
    BY StreamFact DEF PhyInv
  <2> QED
    BY <2>1 DEF PhyInv, Types, FromPhy, FindWhole, FindPart, ContinuePacket,
       PassOn
<1>2. CASE FindWhole
  <2>1. PICK len \in Lengths : at + len <= got /\ at' = at + len
    BY <1>2 DEF FindWhole
  <2>2. CASE LengthSeen
    <3>1. at \in bounds /\ len = NextBound(bounds, at) - at
      BY <1>2, <2>2 DEF FindWhole, Valid, Lengths, PduLen
    <3>2. NextBound(bounds, at) \in Nat /\ at < NextBound(bounds, at)
      BY <1>1, <3>1, StreamFact DEF PhyInv
    <3> QED
      BY <1>1, <2>1, <3>1, <3>2
  <2>3. CASE ~LengthSeen
    <3>1. len \in Nat /\ len >= Hdr
      BY <2>3, PhyAssumption, Zenon DEF PhyAssumption, Lengths
    <3> QED
      BY <1>1, <2>1, <3>1
  <2> QED
    BY <2>2, <2>3
<1>3. CASE FindPart
  BY <1>1, <1>3 DEF FindPart
<1>4. CASE ContinuePacket
  <2>1. PICK n : n = Least(expected - tail, got - at)
    OBVIOUS
  <2>2. at' = at + n /\ tail > 0
    BY <1>4, <2>1 DEF ContinuePacket
  <2>3. tail < expected /\ expected \in Nat
    BY <2>2 DEF PhyInv, Packet
  <2>4. n \in Nat /\ n > 0 /\ n <= got - at
    BY <1>1, <2>1, <2>3 DEF Least
  <2> QED
    BY <1>1, <2>2, <2>4
<1>5. CASE PassOn
  <2>1. at' \in {got} \cup {q \in at + Hdr + 1 .. got : got - at >= Hdr}
    BY <1>5 DEF PassOn
  <2> QED
    BY <1>1, <2>1
<1> QED
  BY <1>2, <1>3, <1>4, <1>5 DEF FromPhy

\* What NextReleases says, but for to_phy being called: each call that has room
\* for a header, while another PDU waits, writes more of the one in hand, which
\* is one at most, or ends it.
THEOREM RestWrittenCorrect == PhySpec => []OneInHand /\ RestWritten
<1>1. PhyInit => OneInHand
  BY DEF PhyInit, Init, OneInHand
<1>2. PhyInv /\ OneInHand /\ [PhyNext]_phyVars => OneInHand'
  BY InHand
<1>3. PhyInv /\ OneInHand /\ (\E room \in Room : Write(room)) =>
        /\ arrived < arrived' /\ arrived' <= queued
        /\ arrived' < taken => taken' = taken
        /\ queued - arrived < Addrs => arrived' = queued
  BY WriteEnds
<1> QED
  BY <1>1, <1>2, <1>3, PhyInvariance, PTL DEF PhySpec, RestWritten

\* The loop of from_phy (work) ends: each turn looks at a byte of the piece or
\* more, and at none beyond it, whatever was lost, spoilt or cut.
THEOREM TurnsEndCorrect == PhySpec => TurnsEnd
<1>1. PhyInv /\ FromPhy => at < at' /\ at' <= got
  BY TurnTakes
<1> QED
  BY <1>1, PhyInvariance, PTL DEF PhySpec, TurnsEnd
=============================================================================
