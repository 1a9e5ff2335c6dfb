---------------------------- MODULE AdaptiveLoop ----------------------------
(***************************************************************************)
(* The adaptation of one direction of the link.  Station B receives the    *)
(* frames of station A, decides which modulation and coding scheme (MCS) A *)
(* should use, and lets A know; both stations may be started again.        *)
(*                                                                         *)
(* In full duplex the decision is a message to B's own framer, which       *)
(* writes it into the header of every frame it sends; A's header parser    *)
(* hands each header it hears to A's framer, as a message.  In simplex     *)
(* mode B has no transmitter: each decision is a burst of its own, which   *)
(* A's feedback parser hands to A's framer.  The radio loses headers and   *)
(* bursts.  Headers that fail their CRC count as lost.                     *)
(***************************************************************************)
EXTENDS FeedbackDecision, Sequences

CONSTANTS
  Mcs,         \* Mcs[m]: constellation and code of entry m of the table
  Links,       \* the kinds of link: "coded", "plain", or both
  Modes,       \* "duplex", "simplex" (a feedback channel), or both
  QueueMax,    \* bound: messages waiting for a block
  AirMax,      \* bound: headers or bursts on their way
  MaxRestarts  \* bound: how often a station is started again

Scheme(cnst, fec) == [cnst |-> cnst, fec |-> fec]

\* The constellation UNKNOWN; an index of no code.
Unknown == 0
NoCode == 0

ASSUME McsAssumption ==
  Mcs \in [McsIds -> [cnst : 1 .. 4, fec : Nat \ {NoCode}]]

ASSUME LoopAssumption ==
  /\ Links \subseteq {"coded", "plain"}
  /\ Modes \subseteq {"duplex", "simplex"}
  /\ QueueMax \in Nat \ {0} /\ AirMax \in Nat \ {0} /\ MaxRestarts \in Nat

VARIABLES
  link, mode, \* the kind of link and the mode of this behaviour
  published,  \* decisions waiting for B's framer, or for B's feedback sender
  offered,    \* d_feedback_cnst, d_feedback_fec_idx of B's framer
  air,        \* headers or bursts from B to A
  messages,   \* what A's parser has for A's framer
  header,     \* d_header_cnst, d_header_fec_idx (plain: d_constellation) of A
  reverse,    \* d_feedback_cnst, d_feedback_fec_idx of A's framer
  current,    \* d_current_cnst, d_current_fec_idx: what A sends with
  restarts,   \* how often a station has been started again
  decided     \* history: entries that B has decided for

config == <<link, mode>>
stationB == <<code, history, published, offered>>
stationA == <<messages, header, reverse, current>>
loopVars ==
  <<vars, config, published, offered, air, stationA, restarts, decided>>

\* An entry of the table; the plain link has no codes (codes_id is empty).
Entry(m) == IF link = "coded" THEN Mcs[m] ELSE Scheme(Mcs[m].cnst, NoCode)

\* What a framer advertises before it knows any estimate: on the coded link
\* set_feedback of ofdm_transmitter.py presets it, as if it had been heard.
FirstOffer ==
  IF link = "coded" THEN Entry(InitialMcs) ELSE Scheme(Unknown, NoCode)

\* What a framer sends with until it hears from its peer: on the plain link
\* set_feedback presets it, on the coded link it is the constructor's.
FirstScheme == IF link = "coded" THEN Scheme(1, 1) ELSE Entry(InitialMcs)

LoopInit ==
  /\ Init
  /\ link \in Links /\ mode \in Modes
  /\ published = <<>> /\ offered = FirstOffer
  /\ air = <<>> /\ messages = <<>>
  /\ header = FirstScheme /\ reverse = FirstOffer /\ current = FirstScheme
  /\ restarts = 0
  /\ decided = {InitialMcs}

LoopFade ==
  /\ Fade
  /\ UNCHANGED <<config, published, offered, air, stationA, restarts, decided>>

\* Mutant: the decision is published only when it has changed.
EstimateOnChange ==
  /\ Len(published) < QueueMax
  /\ GetFeedback
  /\ published' = IF lastDecision' = lastDecision THEN published
                  ELSE Append(published, Entry(lastDecision'))
  /\ decided' = decided \cup {lastDecision'}
  /\ UNCHANGED <<config, offered, air, stationA, restarts>>

\* The equalizer's work, for a frame of A that is heard: it publishes the
\* decision every time, changed or not.
Estimate ==
  /\ Len(published) < QueueMax
  /\ GetFeedback
  /\ published' = Append(published, Entry(lastDecision'))
  /\ decided' = decided \cup {lastDecision'}
  /\ UNCHANGED <<config, offered, air, stationA, restarts>>

\* Mutant: only the constellation of a message is looked at.
UpdatedCnst(old, msg) ==
  [old EXCEPT !.cnst = IF msg.cnst # Unknown THEN msg.cnst ELSE @]

\* process_feedback and process_feedback_header: an UNKNOWN constellation
\* changes nothing; a code is stored as it comes (the plain link, where there
\* are none, does not look at it).
Updated(old, msg) ==
  Scheme(IF msg.cnst # Unknown THEN msg.cnst ELSE old.cnst, msg.fec)

\* process_feedback in B's framer.
ProcessFeedback ==
  /\ mode = "duplex"
  /\ published # <<>>
  /\ offered' = Updated(offered, Head(published))
  /\ published' = Tail(published)
  /\ UNCHANGED <<vars, config, air, stationA, restarts, decided>>

\* B's framer makes a frame, with data or empty, and its header goes out.
SendFrame ==
  /\ mode = "duplex"
  /\ Len(air) < AirMax
  /\ air' = Append(air, offered)
  /\ UNCHANGED <<vars, config, published, offered, stationA, restarts, decided>>

\* Simplex: handle_msg of the feedback_adapter, and the burst it leads to.
SendBurst ==
  /\ mode = "simplex"
  /\ published # <<>>
  /\ Len(air) < AirMax
  /\ air' = Append(air, Head(published))
  /\ published' = Tail(published)
  /\ UNCHANGED <<vars, config, offered, stationA, restarts, decided>>

\* The radio loses one, or its CRC fails.
LoseHeader ==
  /\ air # <<>>
  /\ air' = Tail(air)
  /\ UNCHANGED <<vars, config, published, offered, stationA, restarts, decided>>

\* A's parser publishes what it heard.
HearHeader ==
  /\ air # <<>>
  /\ Len(messages) < QueueMax
  /\ messages' = Append(messages, Head(air))
  /\ air' = Tail(air)
  /\ UNCHANGED <<vars, config, published, offered, header, reverse, current,
                 restarts, decided>>

\* Mutant: a header takes effect in the middle of a TB.
ProcessHeaderAtOnce ==
  /\ mode = "duplex"
  /\ messages # <<>>
  /\ header' = Updated(header, Head(messages))
  /\ current' = [current EXCEPT !.cnst = header'.cnst]
  /\ messages' = Tail(messages)
  /\ UNCHANGED <<vars, config, published, offered, air, reverse,
                 restarts, decided>>

\* process_feedback_header in A's framer, between two calls of its work.
ProcessHeader ==
  /\ mode = "duplex"
  /\ messages # <<>>
  /\ header' = Updated(header, Head(messages))
  /\ messages' = Tail(messages)
  /\ UNCHANGED <<vars, config, published, offered, air, reverse, current,
                 restarts, decided>>

\* Simplex: the feedback parser's message is for the "feedback" port of A's
\* framer, process_feedback.
ProcessInfo ==
  /\ mode = "simplex"
  /\ messages # <<>>
  /\ reverse' = Updated(reverse, Head(messages))
  /\ messages' = Tail(messages)
  /\ UNCHANGED <<vars, config, published, offered, air, header, current,
                 restarts, decided>>

\* A frame or TB of A takes what the headers asked for.  (Empty frames, and
\* the rest of a TB, go out with what the last one took.)
NewPayload ==
  /\ current' = header
  /\ UNCHANGED <<vars, config, published, offered, air, messages, header,
                 reverse, restarts, decided>>

RestartA ==
  /\ restarts < MaxRestarts
  /\ restarts' = restarts + 1
  /\ messages' = <<>>
  /\ header' = FirstScheme /\ reverse' = FirstOffer /\ current' = FirstScheme
  /\ UNCHANGED <<vars, config, published, offered, air, decided>>

RestartB ==
  /\ restarts < MaxRestarts
  /\ restarts' = restarts + 1
  /\ lastDecision' = InitialMcs /\ newDecision' = InitialMcs
  /\ decisionCounter' = 0 /\ asked' = 0 /\ askedRun' = 0
  /\ published' = <<>>
  /\ offered' = FirstOffer
  /\ UNCHANGED <<snr, config, air, stationA, decided>>

LoopNext ==
  \/ LoopFade \/ Estimate
  \/ ProcessFeedback \/ SendFrame \/ SendBurst
  \/ LoseHeader \/ HearHeader
  \/ ProcessHeader \/ ProcessInfo \/ NewPayload
  \/ RestartA \/ RestartB

LoopSpec == LoopInit /\ [][LoopNext]_loopVars

\* Both stations go on sending and their blocks go on working; the radio
\* may lose headers again and again, but not all of them.
LoopFairness ==
  /\ WF_loopVars(Estimate)
  /\ WF_loopVars(ProcessFeedback)
  /\ WF_loopVars(SendFrame)
  /\ WF_loopVars(SendBurst)
  /\ SF_loopVars(HearHeader)
  /\ WF_loopVars(ProcessHeader)
  /\ WF_loopVars(ProcessInfo)
  /\ WF_loopVars(NewPayload)

LoopFairSpec == LoopSpec /\ LoopFairness

-----------------------------------------------------------------------------
(* Properties                                                              *)

\* A's constellation and code are always one decision of B, never the
\* constellation of one and the code of another, whatever is lost, late, or
\* overtaken by a restart; until A hears of any, those it started with.
PairDecided ==
  current \in {FirstScheme} \cup {Entry(m) : m \in decided}

\* The channel keeps still from some time on.
Still == <>[][UNCHANGED snr]_snr

\* The loop closes: once the channel keeps still, however many headers are
\* lost and in whatever state a restart found the stations, A ends up sending
\* with the MCS that suits its channel, and stays with it.
Adapted == Still => <>[](Settled /\ current = Entry(lastDecision))

\* The same in full duplex; in simplex mode the decision gets as far as A's
\* framer.
FeedbackArrives ==
  Still => <>[](Settled /\ Entry(lastDecision) =
                             IF mode = "duplex" THEN current ELSE reverse)
=============================================================================
