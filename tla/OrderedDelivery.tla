-------------------------- MODULE OrderedDelivery --------------------------
(***************************************************************************)
(* What the coded link promises its user: of the transport blocks that     *)
(* were sent, some are delivered, each at most once, in the order sent,    *)
(* and nothing else is.                                                    *)
(***************************************************************************)
EXTENDS Integers, Sequences

VARIABLES
  sent,  \* transport blocks sent: 1 .. sent
  got    \* those delivered, in the order of their delivery

Init == sent = 0 /\ got = <<>>

Send ==
  /\ sent' = sent + 1
  /\ UNCHANGED got

Increasing(s) == \A i, j \in DOMAIN s : i < j => s[i] < s[j]

\* One frame may complete a block and contain the next one.
Deliver ==
  /\ \E many \in 1 .. 2 : \E news \in [1 .. many -> 1 .. sent] :
       got' = got \o news
  /\ Increasing(got')
  /\ UNCHANGED sent

Next == Send \/ Deliver

Spec == Init /\ [][Next]_<<sent, got>>
=============================================================================
