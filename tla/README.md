# Verification of the gr-dtl adaptive OFDM modem

TLA+ specifications, model-checking configurations and machine-checked proofs
for the modem's framing, coding and adaptation logic (`src/lib/dtl`, with the
flowgraphs of `src/python/dtl`). Signal processing is outside; what is checked
is the bookkeeping between blocks that run message by message and call by call.

## The system

One station is two chains of GNU Radio blocks. A block's message handlers and
its work function run in one thread, so they interleave at call boundaries;
different blocks run in different threads and share only buffers and messages.

    PDUs -> to_phy -> framer -> header + payload -> OFDM -> radio
    radio -> frame detector -> header parser -> equalizer -> (decoder) -> from_phy
                                                   |
                              MCS decision  <------+ (SNR estimate per frame)

| Component | State | Operations | What is hard | What makes it correct |
|---|---|---|---|---|
| MCS decision (`ofdm_adaptive_feedback_decision`) | last and new decision, counter | `get_feedback`, `update_decision` | a counter that must mean "in a row"; table boundaries | moves are backed by estimates, happen when due, settle |
| PDU consumer (`pdu_consumer`) | rest of a cut PDU | `advance` | tags read in one call, a counter trusted in later ones; bytes that arrive in part | counter agrees with tags, no mixing, no loss |
| Plain framer (`ofdm_adaptive_frame_bb`) | constellation, consumer, empty-frame count | work, feedback and header messages | constellation changes between frames | one frame per call, as the consumer promises |
| Coded framer (`ofdm_adaptive_fec_frame_bvb`, `tb_encoder`) | action, frame in construction, TB, loaded frames, consumer | work (a loop over a three-state switch with fall-through), messages | a loop interrupted by lack of input or of output, resumed by another call; bytes, bits and symbols | stream neither lost nor repeated; frames hold what headers say |
| TB decoder (`tb_decoder`, `ofdm_adaptive_fec_decoder`) | TB number, tags of the TB, receive buffer | `process_frame` | lost frames, TBs that share frames | delivery in order, once; losses contained |
| Packet header (`ofdm_adaptive_packet_header`) | frame number, last constellation | format, parse | field widths, wrap-around, stale constellation, which bits the CRC covers | what is acted upon is what was sent |
| Frame detector (`ofdm_adaptive_frame_detect_bb`) | remainder, sync counters, accumulated error | `fix_sync` | triggers missing, false or off by some samples, across windows of any size | no gap while in sync, no endless freewheeling |
| Equalizer (`ofdm_adaptive_frame_equalizer_vcvc`) | channel state, expected frame number, lost-frame counter | work | frame numbers modulo 4096, a peer that restarts | loss count is right, decision as specified |
| Plain link receiver (`frame_pack`), coded link's `fec_pack` | none between frames | work | lengths through bytes, symbols and bytes; pieces cut anew | length out = length in |
| `to_phy`, `from_phy` (`lib/testbed`) | PDU being written; packet being rebuilt, offsets in the output | work | packets across calls; lost, spoilt and re-cut pieces | what arrived is rebuilt, once and in order |
| Modem assembly (`src/python/dtl`) | configuration | connect, `set_feedback`, `handle_msg` | feedback by message, header or burst, and message again; losses, restarts | the transmitter uses what the receiver decided |

The calls: both framers own a `pdu_consumer`; the coded framer owns a
`tb_encoder`; the decoder block owns a `tb_decoder`; the equalizer owns the MCS
decision and publishes its result on a message port, which goes to the
station's own framer (`feedback`), into a header, and at the peer from the
header parser to its framer (`header`).

## Modules

| Module | Models | Notes |
|---|---|---|
| `FeedbackDecision` | `ofdm_adaptive_feedback_decision.cc` | one action per outcome of `get_feedback`; `Fade` is the channel |
| `PduStream` | `pdu_consumer.cc`, as functions | streams are sets of boundaries; `AdvanceLoop` is the loop of the code, `Advance` its closed form, which the other modules use |
| `PduConsumer` | a user of `advance` | the specification that both framers are shown to implement |
| `FrameBuilder` | `ofdm_adaptive_frame_bb_impl.cc` | one call of `general_work` is one action: it produces one frame |
| `TransportBlock` | sizes: `fec_utils.cc`, `tb_encoder.cc`, `tb_decoder.cc` | framer and decoder compute them apart |
| `FecFrame` | `ofdm_adaptive_fec_frame_bvb_impl.cc`, `tb_encoder.cc` | one action per turn of the loops of `general_work` |
| `TbDecoder` | `tb_decoder.cc`, `ofdm_adaptive_fec_decoder_impl.cc` | one action per branch of `process_frame` |
| `FecLink` | framer, radio, decoder | the radio loses and spoils frames |
| `OrderedDelivery` | what the coded link promises | abstract specification |
| `PacketHeader` | `ofdm_adaptive_packet_header.cc` | layout of the fields, bits under the CRC, what the parser keeps; operators only |
| `Equalizer` | header parser, work of `ofdm_adaptive_frame_equalizer_vcvc_impl.cc` | composes `FeedbackDecision` and `PacketHeader`; one action per frame |
| `AdaptiveLoop` | the message paths of `ofdm_adaptive_full_duplex.py`, `ofdm_adaptive_rx.py`, `ofdm_adaptive_tx.py`, `ofdm_transmitter.py`, `ofdm_receiver.py`, and both message handlers of the framers | extends `FeedbackDecision`; one direction of the link, both modes, both kinds of link |
| `FrameDetect` | `ofdm_adaptive_frame_detect_bb_impl.cc` | one action per trigger found, moved or generated |
| `PhyLink` | `to_phy_impl.cc`, `from_phy_impl.cc`, `packet_validator.cc`, `fec_pack`, the failed CRC of `frame_pack` | extends `PduConsumer`, which stands for the framer of either link |
| `MC*` | | streams, codes and tables for TLC |
| `*Proofs` | | theorems and lemmas about the module of the same name; `AdaptationProofs` is about `FeedbackDecision`, `Equalizer` and `AdaptiveLoop` |

### How state corresponds

`FeedbackDecision` keeps the three members of the class; `snr`, `asked` and
`askedRun` are the environment and a history of what estimates asked for. The
smallest positive double, which the constructor puts in the first entry, is 1
among integers.

`PduConsumer`, `FrameBuilder` and `FecFrame` share a stream: `arrived` is what
the input buffer has been given, `pos` what the block has consumed (`nitems_read`),
`remain` the member `d_current_pdu_remain`. Arrivals are byte by byte unless
`WholePdus` says that the source hands over whole PDUs.

`FecFrame` has the members of the class (`header`, `current`, `frame`, `action`,
`usedFrames`, `empty`), and the locals of a call in `call` (input seen,
`noutput_items`, `read_index`, `write_index`, `wait_next_work`). `loaded` holds
the tags of the frames that wait for production (`d_loaded_frames` of them), and
`mem` the output buffer, which the code uses across calls: the pieces of TBs in
it, each at its symbol. Clearing or overwriting symbols removes the pieces they
touch, which is how a lost byte shows. A TB is its number, code, bytes and bits.
The TB number is `d_tb_count`.

`TbDecoder` has the members of `tb_decoder`. Its receive buffer is a length
and, if the buffer is the beginning of a TB, that TB and how far it goes. LDPC
and CRC are one abstraction: a TB is delivered exactly if the buffer held all
of it, decoded with its own code and length. A spoilt piece leaves noise of the
same length. `MaxBps` is the maximum of the configured constellations, which
`ofdm_receiver.py` gives the decoder block, and with the capacity and the longest
code gives the bits reserved (`RcvCapacity`).

`FecLink` gives a frame to the decoder before the framer makes the next: the
decoder reads nothing but its frames, so a longer queue would not show it more.

`Equalizer` numbers frames as the peer's `header_formatter` does and counts them
as the work function does. A header that is accepted may have one wrong bit
among those that the CRC does not cover (`HearFrame`), or its CRC matches by
chance and every field may be wrong (`ChanceFrame`): any frame number, and any
constellation, also UNKNOWN or one beyond 16QAM, for which the parser keeps the
last one (`ParsedCnst`). `missed`, `renumbered`, `restarted` and `spoilt` are
history. `d_lost_frames` itself is only reported; `LostFrames` is what the next
frame would add, and `miscount` the total less the frames really lost, modulo
the numbers there are.

`AdaptiveLoop` has the members of the two framers that carry a scheme:
`offered` (B's `d_feedback_*`), `header`, `current` and `reverse` (A's
`d_header_*`, `d_current_*`, `d_feedback_*`); on the plain link `header` and
`current` are `d_constellation` and the one the frame was made with. `published`,
`air` and `messages` are the message queue into B's framer, the headers or
bursts on their way, and the message queue into A's framer.

`FrameDetect` counts positions from the start of the current window. `last` is
`last_trigger_index`; `seen` is the last sample whose trigger the loop has
looked at; `mark` is the history of what the output has. `d_trigger_counter` is
counted up to where its size still matters.

`PhyLink` measures everything in bytes of one stream: `queued`, `taken` and
`arrived` are what `to_phy` has been given, has taken from its queue and has
written; `pos` what the framer has taken; `got` and `at` the end of the piece
that `from_phy` holds and `d_offset_in` in it. The packet in construction is
`start`, `tail` (`d_tail_packet_len`) and `expected` (`d_expected_len`), with
`unbroken` as the history that its bytes are really consecutive ones of the
stream and its length was there to be read. The code has three sizes for a
header: 12 bytes that `to_phy` checks the room for and writes (`Addrs`), 14 that
`from_phy` recognizes a PDU by (`Hdr`), and the length up to byte 18
(`LenEnd`), read without a check. In a spoilt frame, or where the piece ends
before the length does, any length may be read (`Misread`), which then decides
how far `from_phy` goes. `ready` and `delivered` are the packets in the output buffer and those
produced.

## Runs

| Run | Question | Bounds | States |
|---|---|---|---|
| `equalizer` | is every move of the decision backed, due and settling, are lost frames counted, and misread numbers made up for? | three rows of the default table, threshold 3, one SNR in each interval of the limits, numbers modulo 3, 4 frames lost in a row, headers accepted by chance with any number and constellation, restarts of the peer | 102060 |
| `feedback_decision_low` | does the first entry catch every low SNR? *(violated)* | SNRs down to -3 dB | |
| `phy_link` | is the consumer in sync, equal to its loop, and every PDU whose pieces arrived rebuilt? | streams of 17 bytes, PDUs of 4, 5, 9; addresses of 2, headers of 3, lengths up to byte 4, misread as 3, 5 or 8; payloads 4, 8; output room 1, 2, 5, 9; 2 frames lost or spoilt; both links | 308893 |
| `frame_builder` | does the plain framer keep the consumer's promises, and the receiver its lengths? | frames of 1, 3, 5 user bytes; lengths below 8 in the header; PDUs of 1, 2, 7; 2 empty frames | 64293 |
| `fec_frame` | does the coded framer keep them, and end its calls? | 5 bytes, two codes, two constellations, 1 or 2 output items, byte-granular arrivals | 106122 |
| `fec_frame_partial` | do frames hold what headers say if PDUs arrive in part? *(violated)* | as `fec_frame` | |
| `fec_frame_resume` | is a TB cut by a full buffer resumed? *(violated)* | as `fec_frame`, whole PDUs | |
| `fec_link` | what does the link deliver under losses? | frames of 17 symbols, 8 bytes, PDUs of 1 and 6, constellations of 1 and 3 bits, 2 frames lost or spoilt, TB numbers modulo 4 | 1.8 million |
| `fec_link_lossless` | is everything delivered without losses? | 6 bytes, two codes, three constellations, room for a whole call | 86914 |
| `frame_detect` | is the remainder true, no gap left, freewheeling bounded? | frames of 5 samples, tolerance 3, sync after 2, windows of 1, 3, 4, 7, 12 | 32313 |
| `adaptive_loop` | does A send with a decision of B, and does the latest one arrive? | three MCS, threshold 2, queues and air of 1, 2 restarts, both links and modes | 238146 |
| `adaptive_simplex` | does a simplex transmitter adapt? *(violated)* | as `adaptive_loop`, simplex, no restarts | |

Why the bounds are enough. For the framers the hazards are about boundaries
that need a PDU shorter than, equal to, and longer than a payload, a TB that
ends within, at and after the end of a frame, a small TB that fits in what
another left of a frame, two TBs in flight, and a change of constellation or
code at each of these moments. The capacities (16 or 17 symbols) and codes (about
30 bits) are chosen so that one or two bytes of user data decide between these
cases. In `fec_link` the 17 symbols are not whole bytes, neither with 1 nor with 3
bits, but framer and decoder count the same codewords and a byte is left after
every end of a TB: it is an instance of `LossContainedCorrect`. TB numbers wrap
in it, and with two hits a modulus of 4 is the smallest for which the link keeps
its promise (with 3 TLC finds `LossContained` violated), so the run is at the
limit that the theorem names. Its constellations have 3 bits at most, so the
decoder reserves 128 bits, while the whole stream takes up to 192 on the air: the
check that throws is exercised, and a buffer that is not cleared for a new TB
does throw. Two losses are the least that can hit a TB and the
one after it, or a packet in construction and the one that replaces it. In `equalizer` more
frames may be lost in a row (4) than there are numbers (3), so the count wraps
within one loss; three rows of the table have a lowest, a middle and a highest
entry, the last two with the thresholds and the hysteresis between them. In
`phy_link` a room of 2 is enough for the addresses and not for a header, and a
misread length is shorter than a PDU, as long as one, or longer than one that it
is read for. In `frame_builder` the longest payload (6 bytes) is below what the
length field can tell, as `LengthKept` requires. In `frame_detect` windows end anywhere in a frame, some hold no
trigger and some two; a tolerance of 3 leaves one error that is corrected (2)
and later ones that are not; the lengths of real frames (thousands of samples)
differ from this only in how much room lies between the cases, and the theorems
cover them. In `adaptive_loop` two restarts let either station, or both, come
back while the other's old messages are still on their way; queues of one
message suffice for a scheme to be old by every stage of the path.

`MaxTotal`, `Lens`, `Misread`, `MaxHits`, `MaxMissed`, `MaxRemainder`, `QueueMax`,
`AirMax` and `MaxRestarts` bound the runs, nothing else does: counters that the
code does not bound (TB numbers) are bounded by the stream.

`fec_frame` and `frame_builder` allow the framer to end the flowgraph
(`WORK_DONE`), so they do not check for deadlock. `phy_link` does not either:
its stream ends, `to_phy` may keep the end of the last PDU, and the behaviour
ends at `Overrun` (see below).

### Properties worth naming

* `SwitchBacked`, `CounterBacked`, `Responsive`: together, the counter means
  "consecutive estimates", neither more nor less. `Convergence`: thresholds and
  hysteresis never ask for a move and its opposite.
* `RemainInSync`: the counter of a cut PDU always equals the distance to the
  next length tag, which the code does not read again.
* `ImplementsConsumer` for the framers: for the coded one, with
  `pos <- pos + read_index`, this says that consuming at the end of a call, and
  only if a frame is ready, loses and repeats nothing.
* `TailNotStranded`, `OverrunBounded`, `CallsEnd`: the coded framer leaves no
  end of a TB waiting for input that was not announced, exceeds its output by
  less than one frame (it does exceed it, see below), and never hangs.
* `FramesIntact`: at the offsets where the decoder looks, a frame holds the end
  of the previous TB and the beginning of the one it names.
* `LossContained`: a TB that is missing was hit itself, or follows one that was.
* `ImplementsDelivery`, `AllDelivered`: the link's promise with and without
  losses.
* `LostCounted`: across every wrap and every loss the counter adds what was
  lost, modulo the numbers there are, unless the peer restarted. `LostTotal`:
  nor does a misread number do lasting harm. The total goes wrong with a header
  accepted by chance, and what follows takes it back, whatever is lost in
  between, because the next number is expected after the one that was read.
* `HeaderTrusted`: a single wrong bit that passes the CRC can only be in the
  payload length of a TB. That it can be there is a fact about `pack_crc`, whose
  loop stops two bits early on the coded link.
* `PairDecided`: the constellation and the code that A uses are two halves of
  one decision, although they are stored, offered and taken over apart.
* `FeedbackArrives`: once the channel keeps still, the latest decision reaches A
  whatever was lost or restarted, for ever after. `Adapted` is what one would
  expect of simplex mode too, and does not hold there.
* `RemainderTrue`, `GapBounded`, `FreewheelBounded`: the detector's memory
  between windows, its repair, and its giving up.
* `IntactRebuilt`: losing or spoiling a frame costs the PDUs that had a part in
  it and no other. `NoneHeldBack`: on the plain link a complete PDU never waits
  for an incomplete one. `NextReleases`: the rest of a PDU in `to_phy` is
  written after all, if another PDU comes.
* `LengthKept`: what `frame_pack` takes out of the symbols of a frame is as long
  as what the framer put in, where the header's 12 bits can tell the length. The
  code does not check that a frame has fewer than 4096 bytes.
* `CutOnlyJumbo`: a call cuts a PDU only where it exceeds the payload of that
  call, however little of it has arrived.

### Where code and documentation disagree

1. SNR estimates of 0 dB or less move the MCS decision out of its table
   (`numeric_limits<double>::min()` is positive).
2. A partial frame resumed by a later call is written at a byte index in a
   buffer of symbols. It takes PDUs that arrive in part, which `to_phy` produces.
3. A TB cut by a full output buffer is not resumed until there is new input.
4. In simplex mode the feedback never changes what the transmitter sends with:
   it goes to the port for feedback to be advertised.

Seen on the way, and not disagreements that a run shows:

* In `fec_frame`, the frame cleared while `noutput_items` is being filled may
  end up to one frame beyond it. `OverrunBounded` states the exact bound.
* A TB may be lost although nothing was hit. When less than a byte is left in a
  frame (possible with 3 bits per symbol, also with the default 960 symbols), the
  next TB is cut with 0 bytes for it (`out_frame_bytes == avail_bytes`,
  `ofdm_adaptive_fec_frame_bvb_impl.cc:471`): the frame carries the new TB's
  number and counts as used by it (`d_used_frames_count`) but holds nothing of it.
  If the TB then fits in the following frame, that frame is not finalized and is
  tagged with the number and the sizes of the third TB, with which the decoder's
  branch for small TBs (`tb_decoder.cc:75`) decodes the second. TLC finds this for
  `FecLink` with `Capacity = 16`, `Cnsts = {3}`, one code with n = 88 and k = 72,
  `CrcLen = 1`, `MaxTotal = 11`, `Lens = {1, 10}`, `Outputs = {16}`, `WholePdus`
  and no hits: `LossContained` is violated, and so is what
  `qa_ofdm_adaptive_fec.py:141` asserts (the data received is the data sent).
* The assertion at the top of the coded framer's loop
  (`ofdm_adaptive_fec_frame_bvb_impl.cc:346`) does not hold whenever the loop
  comes back to finalize a frame; Release builds compile it out, and the model
  is of a Release build.
* The payload buffers of the coded framer are sized from the longest codeword and
  the longest data part, possibly of two different codes
  (`ofdm_adaptive_fec_frame_bvb_impl.cc:126`): a shorter code of higher rate may
  need more. Sizes of codes are constants here, the buffers are not modelled.
* `to_phy` checks the room for the addresses (12 bytes) against the whole output, not against
  what is left of it. What a copy of a negative length does is undefined;
  `PhyLink` ends the behaviour there (`Overrun`).
* On the coded link `set_feedback` "set[s] initial MCS scheme"
  (`ofdm_transmitter.py:125`) for what is advertised, not for what is sent with:
  until the first header is heard the coded framer uses BPSK and code 1, the
  plain one the configured entry. `FirstOffer` and `FirstScheme` say so.
* The comment at `ofdm_adaptive_packet_header.cc:182` puts the CRC of the long
  header at bits 88-103; the code puts it at 80-95.
* The detector generates one trigger more in a row than
  `MAX_CONSECUTIVE_MISSING_CORRECTION` says; `d_trigger_counter` is never reset;
  a drift of negative one-sample errors is never corrected; and a trigger may be
  written up to 9 samples before the window (2 while in sync).

### Fairness

* `Equalizer`: weak fairness of a frame that is heard: frames keep coming, one
  estimate each, and not all of them are lost.
* `FrameBuilder`: weak fairness of the source, of work, and of
  the next block. The scheduler calls a block that has no input requirement
  (`forecast` returns 0) again and again, and each block has its own thread.
* `FecFrame`: the same without the source: nothing obliges it to go on.
* `FecLink` (lossless): the source, the framer and the radio.
* `PhyLink`: weak fairness of a call of `to_phy` with room for the addresses or more;
  nothing obliges the framer, the radio or `from_phy`.
* `AdaptiveLoop`: weak fairness of every block's work and message handlers, each
  of which the scheduler calls as long as there is something to do, and of
  sending, since a framer without input sends empty frames; strong fairness of
  `HearHeader`, since the radio may lose any header but not every one from some
  time on. The channel and the restarts are not fair.

In the framers' own modules message handlers are not fair: there no feedback
need ever come.

## Proofs

* `AdaptationProofs`, about the decision: type correctness, `CounterBacked`,
  `Responsive` and `SwitchBacked` for every table, hysteresis, threshold and set
  of positive SNRs. The SNRs' being positive is the assumption `PositiveSnrs`,
  and finding 1 is why it is needed. The inductive invariant adds to the types
  that the counter is exactly backed by the history, and that the run of
  requests exceeds it by at most one (the estimate that started the count).
  About the equalizer: `EqTypeOK`; `LostCounted` for every modulus, from the
  invariant that the peer's number is the expected one plus the missed frames,
  modulo (`Numbered`); `LostTotal` from the same invariant with what the total is
  wrong by: until a restart the expected number and the miscount always make up
  the peer's number together, and what is congruent to 0 and below the modulus is
  0 (`Same` and its lemmas); `HeaderTrusted` whatever bit is wrong; and that the receiver implements `FeedbackDecision`
  (`EqSpec => Spec`), so that every theorem about the decision holds of it.
  About the feedback path: `PairDecided` for every table, kind of link, mode,
  length of queues and number of restarts. The invariant says that everything
  between B's decision and A's framer is a decision made or the first offer; it
  needs the decision to stay in its table, since an unknown constellation in a
  message would replace one half of a scheme only.
  `SettlesCorrect` is about a channel that does not change: a bound on the
  estimates that are left (`EstimatesLeft`: `DecisionTh + 1` for each entry
  between the decision and where it settles, less what has been counted) goes
  down with every estimate, and the decision stays where it settles.
* `PduStreamProofs`: what `advance` returns for every stream and call
  (`AdvanceFact`): no more than asked, no more than is there, a rest that agrees
  with the tags, no mixing, no cut of a PDU that fits. The next and the last
  boundary exist by well-foundedness of the naturals. The code's loop over the
  length tags is a recursive function; what its passes return in closed form
  (`LoopResult`) satisfies its equation, and no other function does: each pass
  depends on passes at later tags only, so there is no last one at which two
  could differ (`LoopUnique`).
* `PduConsumerProofs`: types, `RemainInSync`, `NoMixing`, `CutOnlyJumbo`, and that
  the closed form is the loop of the code (`AdvanceIsLoop`), for
  every set of streams and payloads. Types are not inductive alone: reading is
  sound only because the rest agrees with the tags, and that is `RemainInSync`.
* `FrameBuilderProofs`: types, `PayloadFits`, `LengthKept`, and that the plain
  framer implements `PduConsumer`, step by step, for every frame size, CRC
  length, set of streams and limit of empty frames. `LengthKept` needs in the
  invariant that what a header announces is what was packed, an arithmetic
  lemma about rounding up to symbols and down to bytes, and the hypothesis that
  the bytes of a frame are fewer than the length field can tell. `FramingGoesOn`: a call
  with input takes some of it, except while it waits for the rest of a PDU that
  would fit; once the whole stream is here, every call does.
* `FecFrameProofs`: the coded framer, for every frame size, table of codes, CRC,
  stream and output size. Types, `TailNotStranded`, `OverrunBounded`, and that
  the framer implements `PduConsumer`, from one invariant: what has been read
  (`Reading`: a call that has read something has output to do or to produce, so
  that the input is consumed), how the fields of the frame in construction agree
  (`PartialFrame`), which action may be current when (`Turns`), and where in the
  buffer the loop is (`Room`). `OverrunBounded` alone is not inductive: the two
  frames above `noutput_items` come from two different turns, and `Room` says
  which. `FramesIntact` needs, on top, where every piece lies (`Layout`), and
  that PDUs arrive whole: without `WholePdus` it is false (finding 2).
  `CallsBounded`: within a call some turn of the loop is always possible, and each
  turn lowers `TurnsLeft`, five times what is still to be loaded and read plus the
  turns until one of the two goes on (`Stage`).
* `FecLinkProofs`: types of the link, and that framer, radio and decoder
  implement `OrderedDelivery` if PDUs arrive whole, whatever is lost or spoilt.
  The argument: every piece on its way is of a TB that was encoded and of bits
  that are out (`Sending`); pieces in the buffer and on the air are in the order
  of the stream (`InOrder`); what the receive buffer holds is the beginning of
  one TB, before every piece still to come, and a TB already delivered has no
  bits to come and none in the buffer (`Received`). A step of the radio then
  delivers at most two TBs, each later than the last (`InTurn`), and the others
  none. `NeverThrows` says that the decoder appends to its buffer only what is of
  the TB that it has there. The framer's side: TBs go out in whole bytes and fit
  in the buffer (`Bytewise`, `TbHolds`), and a frame with the number n is about
  TB n and the one before it (`Numbering`, `About`). The decoder's side (`Reach`):
  it is at some TB j, nothing before j is still to come, and every later TB whose
  beginning has passed had a piece in a frame that was hit. The numbers travel
  modulo 256, so a frame may be taken for a part of TB j only after 256 TBs, and a
  hit frame is about two (`Few`): `NeverThrowsCorrect` asks for
  `2 * MaxHits + 2 < TbMod`, at most 126 hit frames. Where no TB is cut with 0
  bytes for a frame (`ByteLeft`, below) half of that is too much: of two TBs in a
  frame only one begins there (`Coming`, `Missed`), and `NeverThrowsBound` asks
  for `MaxHits + 1 < TbMod`, at most 254 hit frames; `LossContainedCorrect` asks
  for the same, and with two hits and numbers modulo 3 TLC finds `LossContained`
  violated. The code checks none of these bounds. `DeliveryImplemented` does not need them.
  `LossContained` is about the moment when nothing is on its way any more, and
  needs to know what has been delivered before. `Settled` adds to `Reach`: every
  TB before j whose own and whose predecessor's frames were not hit was delivered
  (`AllGot`), and if j was not hit the decoder is either done with it (`Free`) or
  has exactly its first bytes, with what follows them still to come (`Halfway`).
  For the step of a frame this takes that each piece is followed by the next one
  of its TB (`Contiguous`), that pieces have the size that the decoder works out
  (`Coded`, `SizesAgree`), and what a frame is made of (`Exactly`, `FrameParts`):
  the end of a TB that began earlier, a part of the TB it names, or both, at the
  places where the decoder looks. The last is false when a TB is cut with 0 bytes
  for a frame, which `ByteLeft` rules out: after any whole bytes that leave one of
  the frame there is room for one. Both conditions are on constants alone;
  `LossContainedByteWise` shows that they hold for frames of a multiple of eight
  symbols and 1, 2 or 4 bits a symbol. Both are needed: where the
  codewords differ the decoder never finds a TB of the size it works out, and
  what happens without `ByteLeft` is told above.
  `LossCountedCorrect` counts: a hit frame has parts of two TBs at most, so it
  costs three (`Touched`, `FewTouched`), and without a hit all TBs encoded have
  been delivered, in order. With two in place of three TLC finds a
  counterexample.
* `FrameDetectProofs`: types (with how far before the window a trigger may be
  written), `RemainderTrue`, `GapBounded`, `FreewheelBounded` for every frame
  length, tolerance and cutting into windows. The invariant adds where the last
  trigger is while in sync, and that each generated trigger has cost one of the
  good ones.
* `PhyLinkProofs`: types, `IntactRebuilt`, `NoneHeldBack`, and that the network
  side refines `PduConsumer`, for every stream, header, room, set of payloads
  and number of losses, and whatever lengths are misread. `IntactRebuilt` says nothing of a packet in the middle,
  so it is far from inductive; `PhyInv` adds where the packet in construction
  began and how far it goes (`Packet`), which PDUs have been hit before and
  after the byte that is looked at (`Hits`), that the one unhit and incomplete
  PDU is the one in construction (`Cut`), that a turn which takes other bytes for
  a length touches no PDU that is not hit (`UnseenFact`), and that frames of the plain link do
  not mix PDUs (`Piece`, from the consumer's `NoMixing`), on which
  `NoneHeldBack` rests (`Buffer`). `RestWrittenCorrect`: `to_phy` has one PDU in
  hand at most, and each write adds to the rest of it or ends it.
  `TurnsEndCorrect`: each turn of `from_phy` looks at a further byte.

Assumptions on constants are stated in the modules that declare them and
evaluated by TLC in the runs. Every safety property of a passing run is a theorem,
and so are its refinements. Only model-checked is liveness under fairness, which is
out of the prover's reach; of five of the six such properties the part that does
not depend on the scheduler is proved, for every value of the constants:

| Liveness, by TLC | What is proved of it |
|---|---|
| `Convergence` | `SettlesCorrect`: a bound on the estimates left goes down |
| `AllFramed` | `FramingGoesOn`: no call is idle once the stream is here |
| `CallsEnd` | `CallsBounded`: a turn is always possible, and few are left |
| `AllDelivered` | `LossCountedCorrect`: at rest nothing is missing that no hit explains |
| `NextReleases` | `RestWrittenCorrect`: each write goes on with the PDU in hand |
| `FeedbackArrives` | nothing: what it says is that queues and radio go on |

## Not modelled

* On the coded link the header's fields for the frame's length, the offset (12
  bits each) and the payload of a TB (16 bits) carry numbers of any size:
  `FecFrame` leaves their width out.
* Equalization, constellation mapping, LDPC and the CRCs are arithmetic on
  samples and bits; their effects on the logic (an estimate, a spoilt piece, a
  failed check) are inputs of the models.
* Monitoring, logging, GRC descriptions and bindings do not feed back into the
  modem. Frame pacing (`sleep_until`) changes when calls happen, not what they
  do, and the models let calls happen at any time.
* In `PhyLink`: the modified Ethernet protocol (two bytes that `to_phy` adds and
  `from_phy` takes out; there a length of 0 would keep the loop of `from_phy`
  where it is), MAC addresses, and contents that only look like a
  header. In `AdaptiveLoop`: the waveform of the feedback bursts and the
  construction of the flowgraphs.
* Most Python files of the repository are Doxygen's generated parsers, tests,
  and the assembly of flowgraphs. The program's logic is in C++, and of the
  Python the models translate the parts that carry messages, initial schemes and
  the choice of blocks.

## Plan

What is left, in order of importance:

1. A run with sizes at which framer and decoder of the coded link disagree.
2. What a loss costs where a TB may be cut with 0 bytes (`ByteLeft` false): which
   TBs are lost besides those that `LossContained` allows.
3. `PhyLink` with the coded link's losses (it takes them from `FecLink` as
   whole TBs), and the modified Ethernet protocol.
