------------------------------ MODULE PhyLink ------------------------------
(***************************************************************************)
(* The two ends of the link, in the network's terms: to_phy writes PDUs    *)
(* into the stream that the framer reads, and from_phy finds them again    *)
(* in the pieces that the receiver hands it (lib/testbed).                 *)
(*                                                                         *)
(* On the plain link a piece is the payload of one frame; frames are lost, *)
(* and one that fails its CRC is handed on like the others.  On the coded  *)
(* link fec_pack cuts the decoded bytes anew, wherever the scheduler has   *)
(* it; losses there are the matter of FecLink.  A piece is a range of the  *)
(* stream: from_phy recognizes a PDU by its header, that is, at a boundary *)
(* (or not, in a spoilt frame), and nothing else looks like one.           *)
(***************************************************************************)
EXTENDS PduConsumer, Sequences

CONSTANTS
  Addrs,    \* bytes that to_phy writes together (12, two addresses)
  Hdr,      \* bytes that from_phy recognizes a PDU by (14, a MAC header)
  LenEnd,   \* where a PDU's length ends (18, in its IP header)
  Misread,  \* the lengths that other bytes may show in its place
  Room,     \* output items that a call of to_phy may get
  Links,    \* the kinds of link: "coded", "plain", or both
  MaxHits   \* bound: frames lost or spoilt

ASSUME PhyAssumption ==
  /\ Addrs \in Nat \ {0} /\ Hdr \in Nat /\ LenEnd \in Nat
  /\ Addrs <= Hdr /\ Hdr <= LenEnd
  /\ Misread \subseteq Nat /\ \A len \in Misread : len >= Hdr
  /\ Room \subseteq Nat \ {0} /\ MaxHits \in Nat
  /\ \A B \in Streams : \A b \in B \ {Total(B)} : PduLen(B, b) >= LenEnd
  /\ Links \subseteq {"coded", "plain"}

VARIABLES
  queued,    \* end of the last PDU put into the queue of to_phy
  taken,     \* end of the last PDU taken from it (d_pdu)
  down,      \* to_phy has written beyond its output
  link,
  at, got,   \* the piece that from_phy has: its next byte, and its end
  spoilt,    \* the piece is a frame that failed its CRC
  start,     \* where the bytes of the packet in construction begin
  unbroken,  \*   and whether they are the PDU's, and its length known
  tail,      \* d_tail_packet_len
  expected,  \* d_expected_len
  ready,     \* the whole PDUs in the output buffer, below d_offset_out
  delivered, \* the whole PDUs produced
  hits,      \* history: frames lost or spoilt
  hit,       \*   the PDUs of which they held a part, or cut the length
  split      \*   on the coded link, a piece has ended before a length has

sending == <<queued, taken, down>>
packet == <<start, unbroken, tail, expected>>
receiving == <<at, got, spoilt, packet, ready, delivered>>
events == <<hits, hit, split>>
phyVars == <<vars, sending, link, receiving, events>>

PhyInit ==
  /\ Init
  /\ queued = 0 /\ taken = 0 /\ down = FALSE
  /\ link \in Links
  /\ at = 0 /\ got = 0 /\ spoilt = FALSE
  /\ start = 0 /\ unbroken = FALSE /\ tail = 0 /\ expected = 0
  /\ ready = <<>> /\ delivered = <<>>
  /\ hits = 0 /\ hit = {} /\ split = FALSE

-----------------------------------------------------------------------------
(* to_phy                                                                  *)

\* A PDU arrives in the queue.
Post ==
  /\ queued < Total(bounds)
  /\ queued' = NextBound(bounds, queued)
  /\ UNCHANGED <<vars, taken, down, link, receiving, events>>

\* The end of the PDU that is being written when the output is full.
TakenAt(p) == IF p \in bounds THEN p ELSE NextBound(bounds, p)

\* A PDU begins where the output has no room left for its addresses.  (The
\* check for this room looks at the output as it was at the call.)
Overruns(room) ==
  \E b \in bounds : /\ arrived < b /\ b < queued
                    /\ b < arrived + room /\ arrived + room < b + Addrs

\* Mutant: the rest of a PDU that was cut is not written.
WriteNew(room) ==
  /\ queued > taken
  /\ room >= Addrs
  /\ ~Overruns(room)
  /\ arrived = taken
  /\ arrived' = Least(arrived + room, queued)
  /\ taken' = TakenAt(arrived')
  /\ UNCHANGED <<bounds, pos, remain, queued, down, link, receiving, events>>

\* A call of to_phy writes what there is room for, if a PDU waits in the
\* queue: not for the rest of the one that was taken.
Write(room) ==
  /\ queued > taken
  /\ room >= Addrs
  /\ ~Overruns(room)
  /\ arrived' = Least(arrived + room, queued)
  /\ taken' = TakenAt(arrived')
  /\ UNCHANGED <<bounds, pos, remain, queued, down, link, receiving, events>>

\* No room for the addresses: the PDU is taken and not written.
TakeOnly(room) ==
  /\ queued > taken
  /\ room < Addrs
  /\ taken' = IF arrived = taken THEN NextBound(bounds, taken) ELSE taken
  /\ UNCHANGED <<vars, queued, down, link, receiving, events>>

\* A copy of a negative number of bytes ends the program.
Overrun(room) ==
  /\ queued > taken
  /\ room >= Addrs
  /\ Overruns(room)
  /\ down' = TRUE
  /\ UNCHANGED <<vars, queued, taken, link, receiving, events>>

ToPhy == \E room \in Room : Write(room) \/ TakeOnly(room) \/ Overrun(room)

-----------------------------------------------------------------------------
(* The link                                                                *)

\* The framer makes a frame or a TB; on the plain link, once the last frame
\* has been received or lost.
Frame ==
  /\ link = "plain" => at = pos
  /\ Read
  /\ UNCHANGED <<sending, link, receiving, events>>

Idle == at = got

\* The PDUs that a piece which ends at p cuts before the end of their length.
CutHeaders(p) == {b \in bounds : b < p /\ p < b + LenEnd}

\* The PDUs of which the frame from got to pos holds a part.
Held == {b \in bounds : b < pos /\ b < Total(bounds)
                         /\ got < NextBound(bounds, b)}

\* from_phy gets a piece: what the frame holds, or any number of the bytes
\* decoded.
Receive ==
  /\ Idle
  /\ got' \in IF link = "plain" THEN {pos} \ {got} ELSE got + 1 .. pos
  /\ split' = (split \/ (link = "coded" /\ CutHeaders(got') # {}))
  /\ hit' = hit \cup CutHeaders(got')
  /\ spoilt' = FALSE
  /\ UNCHANGED <<vars, sending, link, at, packet, ready, delivered, hits>>

\* A frame is hit.
Hit ==
  /\ Idle /\ link = "plain" /\ got < pos
  /\ hits < MaxHits
  /\ got' = pos
  /\ hits' = hits + 1
  /\ hit' = hit \cup Held
  /\ UNCHANGED <<vars, sending, link, packet, ready, delivered, split>>

\* It is lost, or it is spoilt.
Lose == Hit /\ at' = pos /\ spoilt' = FALSE

Spoil == Hit /\ at' = at /\ spoilt' = TRUE

-----------------------------------------------------------------------------
(* from_phy, one turn of the loop of work                                  *)

\* is_valid, of what there is to see at at.
Valid == at \in bounds /\ got - at >= Hdr

Invalid == spoilt \/ ~Valid

\* Whether the length of the PDU at at is all there, and right.
LengthSeen == ~spoilt /\ got - at >= LenEnd

\* The lengths that is_valid may return for a PDU that it recognizes.
Lengths == IF LengthSeen THEN {PduLen(bounds, at)} ELSE Misread

\* The output buffer after a turn: it is produced when all of the piece has
\* been looked at, unless a packet is unfinished.
Produce(buffer) ==
  IF at' = got /\ tail' = 0
  THEN delivered' = delivered \o buffer /\ ready' = <<>>
  ELSE ready' = buffer /\ UNCHANGED delivered

\* A packet that is all there; an unfinished one before it is let go as it is.
FindWhole ==
  /\ at < got /\ Valid
  /\ \E len \in Lengths :
       /\ at + len <= got
       /\ at' = at + len
       /\ expected' = len
  /\ tail' = 0
  /\ Produce(IF LengthSeen THEN Append(ready, at) ELSE ready)
  /\ UNCHANGED <<vars, sending, link, got, spoilt, start, unbroken, events>>

\* The first part of a packet; likewise.
FindPart ==
  /\ at < got /\ Valid
  /\ \E len \in Lengths : at + len > got /\ expected' = len
  /\ at' = got
  /\ start' = at /\ unbroken' = LengthSeen
  /\ tail' = got - at
  /\ Produce(ready)
  /\ UNCHANGED <<vars, sending, link, got, spoilt, events>>

\* Mutant: all of the piece is taken for the rest of the packet.
ContinuePacketAll ==
  /\ at < got /\ Invalid
  /\ tail > 0
  /\ at' = got
  /\ unbroken' = (unbroken /\ at = start + tail /\ ~spoilt)
  /\ IF tail + (got - at) = expected
     THEN /\ tail' = 0 /\ expected' = 0
          /\ Produce(IF unbroken' THEN Append(ready, start) ELSE ready)
     ELSE /\ tail' = tail + (got - at) /\ UNCHANGED expected
          /\ Produce(ready)
  /\ UNCHANGED <<vars, sending, link, got, spoilt, start, events>>

\* More of the unfinished packet, whatever it is.
ContinuePacket ==
  /\ at < got /\ Invalid
  /\ tail > 0
  /\ LET n == Least(expected - tail, got - at)
     IN  /\ at' = at + n
         /\ unbroken' = (unbroken /\ at = start + tail /\ ~spoilt)
         /\ IF tail + n = expected
            THEN /\ tail' = 0 /\ expected' = 0
                 /\ Produce(IF unbroken' THEN Append(ready, start) ELSE ready)
            ELSE /\ tail' = tail + n /\ UNCHANGED expected
                 /\ Produce(ready)
  /\ UNCHANGED <<vars, sending, link, got, spoilt, start, events>>

\* Neither: it is passed on for the upper layers, up to where the bytes that
\* would be its length say, if these are there.
PassOn ==
  /\ at < got /\ Invalid
  /\ tail = 0
  /\ at' \in {got} \cup {q \in at + Hdr + 1 .. got : got - at >= Hdr}
  /\ tail' = 0
  /\ Produce(ready)
  /\ UNCHANGED <<vars, sending, link, got, spoilt, start, unbroken, expected,
                 events>>

FromPhy == FindWhole \/ FindPart \/ ContinuePacket \/ PassOn

PhyNext ==
  /\ ~down
  /\ Post \/ ToPhy \/ Frame \/ Receive \/ Lose \/ Spoil \/ FromPhy

PhySpec == PhyInit /\ [][PhyNext]_phyVars

WriteOrOverrun == ~down /\ \E room \in Room : Write(room) \/ Overrun(room)

\* to_phy is called again and again, with room for two addresses or more.
PhyFairSpec == PhySpec /\ WF_phyVars(WriteOrOverrun)

-----------------------------------------------------------------------------
(* Properties                                                              *)

\* Types; and the packet in construction is shorter than it should be.
PhyTypeOK ==
  /\ taken \in bounds /\ queued \in bounds
  /\ arrived <= taken /\ taken <= queued
  /\ at <= got /\ got <= pos
  /\ tail > 0 => tail < expected
  /\ hit \subseteq bounds

\* The PDUs that ended before p and were not hit, in their order.
Unhit(p) ==
  {b \in bounds \ hit : b < Total(bounds) /\ NextBound(bounds, b) <= p}

Increasing(s) == \A i, j \in DOMAIN s : i < j => s[i] < s[j]

\* A frame lost or spoilt costs the PDUs of which it held a part and no
\* other: every PDU whose pieces all arrived is rebuilt, whole, once and in
\* its order, whatever was put together wrongly before it.  On the coded link
\* a piece that ends before a length does ends this.
IntactRebuilt ==
  Idle /\ ~split =>
    LET all == delivered \o ready
    IN  Increasing(all) /\ {all[i] : i \in DOMAIN all} = Unhit(got)

\* On the plain link no PDU that is complete waits in the output buffer
\* behind one that is not: that is what frames do not mix PDUs for.
NoneHeldBack == link = "plain" /\ Idle => ready = <<>>

\* What is left of a PDU is written once the next one is in the queue: it is
\* not for ever that one is unfinished and another waits.  (The last one may
\* stay unfinished: see the first guard of Write.)
NextReleases == []<>(arrived = taken \/ taken = queued \/ down)
=============================================================================
