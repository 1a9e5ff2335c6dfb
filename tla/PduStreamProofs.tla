-------------------------- MODULE PduStreamProofs --------------------------
(***************************************************************************)
(* What pdu_consumer::advance returns, for every stream and every call:    *)
(* the lemmas that the proofs about its users rest on.                     *)
(***************************************************************************)
EXTENDS PduStream, WellFoundedInduction, TLAPS

\* The order of the naturals as a set of pairs.
NatOrder == {ss \in Nat \X Nat : ss[1] < ss[2]}

\* The library's theorem, for that set.
LEMMA NatOrderWellFounded == IsWellFoundedOn(NatOrder, Nat)
BY NatLessThanWellFounded DEF OpToRel, NatOrder

\* A set of naturals that is not empty has a least element.
LEMMA LeastNatural ==
  ASSUME NEW S, S \subseteq Nat, S # {}
  PROVE  \E m \in S : \A n \in S : m <= n
<1>1. PICK m \in S : \A n \in S : ~(<<n, m>> \in NatOrder)
  BY NatOrderWellFounded, WFMin, Zenon
<1>2. ASSUME NEW n \in S
      PROVE  m <= n
  <2>1. m \in Nat /\ n \in Nat /\ ~(<<n, m>> \in NatOrder)
    BY <1>1
  <2>2. ~(n < m)
    BY <2>1 DEF NatOrder
  <2> QED
    BY <2>1, <2>2
<1> QED
  BY <1>2

\* A bounded set of naturals that is not empty has a greatest element.
LEMMA GreatestNatural ==
  ASSUME NEW S, S \subseteq Nat, S # {}, NEW q \in Int, \A n \in S : n <= q
  PROVE  \E m \in S : \A n \in S : n <= m
<1> DEFINE D == {q - n : n \in S}
<1>1. D \subseteq Nat /\ D # {}
  <2>1. \A n \in S : q - n \in Nat
    OBVIOUS
  <2> QED
    BY <2>1
<1>2. PICK d \in D : \A e \in D : d <= e
  BY <1>1, LeastNatural, Zenon
<1>3. PICK m \in S : d = q - m
  BY <1>2
<1>4. \A n \in S : q - m <= q - n
  BY <1>2, <1>3
<1> QED
  BY <1>3, <1>4

-----------------------------------------------------------------------------
(* Boundaries                                                              *)

\* The end of the PDU that holds p, when the stream goes beyond p.
LEMMA NextBoundFact ==
  ASSUME NEW B, B \subseteq Nat, NEW p \in Nat, \E b \in B : b > p
  PROVE  /\ NextBound(B, p) \in B
         /\ NextBound(B, p) \in Nat
         /\ NextBound(B, p) > p
         /\ \A c \in B : c > p => NextBound(B, p) <= c
<1> DEFINE S == {b \in B : b > p}
<1>1. PICK m \in S : \A n \in S : m <= n
  <2>1. S \subseteq Nat /\ S # {}
    OBVIOUS
  <2> QED
    BY <2>1, LeastNatural, Zenon
<1>2. m \in B /\ m > p /\ \A c \in B : c > p => m <= c
  BY <1>1
<1> HIDE DEF S
<1>3. /\ NextBound(B, p) \in B
      /\ NextBound(B, p) > p
      /\ \A c \in B : c > p => NextBound(B, p) <= c
  BY <1>2, Zenon DEF NextBound
<1>4. NextBound(B, p) \in Nat
  BY <1>3, Zenon
<1> QED
  BY <1>3, <1>4

\* The last boundary up to q.
LEMMA LastBoundFact ==
  ASSUME NEW B, B \subseteq Nat, NEW q \in Nat, \E b \in B : b <= q
  PROVE  /\ LastBound(B, q) \in B
         /\ LastBound(B, q) \in Nat
         /\ LastBound(B, q) <= q
         /\ \A c \in B : c <= q => c <= LastBound(B, q)
<1> DEFINE S == {b \in B : b <= q}
<1>1. PICK m \in S : \A n \in S : n <= m
  <2>1. S \subseteq Nat /\ S # {} /\ \A n \in S : n <= q
    OBVIOUS
  <2>2. q \in Int
    OBVIOUS
  <2> QED
    BY <2>1, <2>2, GreatestNatural, Zenon
<1>2. m \in B /\ m <= q /\ \A c \in B : c <= q => c <= m
  BY <1>1
<1> HIDE DEF S
<1>3. /\ LastBound(B, q) \in B
      /\ LastBound(B, q) <= q
      /\ \A c \in B : c <= q => c <= LastBound(B, q)
  BY <1>2, Zenon DEF LastBound
<1>4. LastBound(B, q) \in Nat
  BY <1>3, Zenon
<1> QED
  BY <1>3, <1>4

\* Bytes of one PDU have the same next boundary.
LEMMA NextBoundSame ==
  ASSUME NEW B, B \subseteq Nat, NEW p \in Nat, \E b \in B : b > p,
         NEW q \in Nat, p <= q, q < NextBound(B, p)
  PROVE  NextBound(B, q) = NextBound(B, p)
<1> DEFINE u == NextBound(B, p)
           v == NextBound(B, q)
<1>1. u \in B /\ u \in Nat /\ \A c \in B : c > p => u <= c
  BY NextBoundFact, Zenon
<1>2. \E b \in B : b > q
  BY <1>1
<1>3. v \in B /\ v \in Nat /\ v > q /\ \A c \in B : c > q => v <= c
  BY <1>2, NextBoundFact, Zenon
<1>4. u > q
  BY <1>1
<1> HIDE DEF u, v
<1>5. v > p
  BY <1>1, <1>3
<1>6. v <= u /\ u <= v
  BY <1>1, <1>3, <1>4, <1>5
<1>7. u = v
  BY <1>1, <1>3, <1>6
<1> QED
  BY <1>7 DEF u, v

\* Inside a PDU there is no boundary, and what is left of it is the way to
\* its end.
LEMMA InsidePdu ==
  ASSUME NEW B, B \subseteq Nat, NEW p \in Nat, \E b \in B : b > p,
         NEW q \in Nat, p < q, q < NextBound(B, p)
  PROVE  q \notin B /\ Rest(B, q) = NextBound(B, p) - q
<1>1. q \notin B
  <2>1. /\ NextBound(B, p) \in Nat
        /\ \A c \in B : c > p => NextBound(B, p) <= c
    BY NextBoundFact, Zenon
  <2> QED
    BY <2>1
<1>2. NextBound(B, q) = NextBound(B, p)
  <2>1. p <= q
    OBVIOUS
  <2> QED
    BY <2>1, NextBoundSame, Zenon
<1> QED
  BY <1>1, <1>2 DEF Rest, PduLen

-----------------------------------------------------------------------------
(* What one call of advance returns                                        *)

\* What a result a owes its caller at byte p.
Sound(B, p, seen, max, a) ==
  /\ a.read \in Nat
  /\ a.read <= max
  /\ p + a.read <= seen
  /\ a.remain = Rest(B, p + a.read)
  /\ a.remain \in Nat

\* It mixes no PDUs, and cuts only one that does not fit.
Framed(B, p, max, a) ==
  /\ \A b \in B : (p < b /\ b < p + a.read) => p \in B /\ p + a.read \in B
  /\ (p \in B /\ p + a.read \notin B) => max < PduLen(B, p)

LEMMA ContinueFact ==
  ASSUME NEW B, B \subseteq Nat, NEW p \in Nat, NEW seen \in Nat, p < seen,
         \E b \in B : b >= seen, NEW max \in Nat \ {0}, p \notin B
  PROVE  LET a == Continue(p, seen, max, Rest(B, p))
         IN  Sound(B, p, seen, max, a) /\ Framed(B, p, max, a)
<1> DEFINE nb == NextBound(B, p)
           r == Least(Least(max, nb - p), seen - p)
<1>1. \E b \in B : b > p
  OBVIOUS
<1>2. nb \in B /\ nb > p /\ \A c \in B : c > p => nb <= c
  BY <1>1, NextBoundFact, Zenon
<1>3. nb \in Nat
  BY <1>1, NextBoundFact, Zenon
<1>4. Continue(p, seen, max, Rest(B, p)) = Taken(r, nb - p - r)
  BY DEF Continue, Rest, PduLen
<1>5. /\ r \in Nat \ {0} /\ r <= max /\ p + r <= seen /\ p + r <= nb
      /\ nb - p - r \in Nat
  BY <1>2, <1>3 DEF Least
<1> HIDE DEF r, nb
<1>6. nb - p - r = Rest(B, p + r)
  <2>1. CASE p + r = nb
    <3>1. Rest(B, p + r) = 0
      BY <2>1, <1>2 DEF Rest
    <3> QED
      BY <3>1, <2>1, <1>3, <1>5
  <2>2. CASE p + r < nb
    <3>1. p + r \in Nat /\ p < p + r
      BY <1>5
    <3>2. Rest(B, p + r) = nb - (p + r)
      BY <3>1, <2>2, <1>1, InsidePdu, Zenon DEF nb
    <3> QED
      BY <3>2, <1>3, <1>5
  <2> QED
    BY <2>1, <2>2, <1>3, <1>5
<1>7. \A b \in B : ~(p < b /\ b < p + r)
  <2> SUFFICES ASSUME NEW b \in B, p < b, b < p + r
               PROVE  FALSE
    OBVIOUS
  <2>1. b \in Nat /\ r \in Nat
    BY <1>5
  <2>2. nb <= b
    BY <1>2
  <2> QED
    BY <2>1, <2>2, <1>3, <1>5
<1> QED
  BY <1>4, <1>5, <1>6, <1>7 DEF Sound, Framed, Taken

LEMMA CutJumboFact ==
  ASSUME NEW B, B \subseteq Nat, NEW p \in Nat, NEW seen \in Nat, p < seen,
         \E b \in B : b >= seen, NEW max \in Nat \ {0}, p \in B,
         PduLen(B, p) > max
  PROVE  LET a == CutJumbo(B, p, seen, max)
         IN  Sound(B, p, seen, max, a) /\ Framed(B, p, max, a)
<1> DEFINE nb == NextBound(B, p)
           r == Least(max, seen - p)
<1>1. \E b \in B : b > p
  OBVIOUS
<1>2. nb \in B /\ nb > p /\ \A c \in B : c > p => nb <= c
  BY <1>1, NextBoundFact, Zenon
<1>3. nb \in Nat /\ nb - p > max
  BY <1>1, NextBoundFact, Zenon DEF PduLen
<1>4. CutJumbo(B, p, seen, max) = Taken(r, nb - p - r)
  BY DEF CutJumbo, PduLen
<1>5. /\ r \in Nat \ {0} /\ r <= max /\ p + r <= seen /\ p + r < nb
      /\ nb - p - r \in Nat
  BY <1>2, <1>3 DEF Least
<1> HIDE DEF r, nb
<1>6. p + r \notin B /\ Rest(B, p + r) = nb - (p + r)
  <2>1. p + r \in Nat /\ p < p + r /\ p + r < nb
    BY <1>5
  <2> QED
    BY <2>1, <1>1, InsidePdu, Zenon DEF nb
<1>7. \A b \in B : ~(p < b /\ b < p + r)
  <2> SUFFICES ASSUME NEW b \in B, p < b, b < p + r
               PROVE  FALSE
    OBVIOUS
  <2>1. b \in Nat /\ r \in Nat
    BY <1>5
  <2>2. nb <= b
    BY <1>2
  <2> QED
    BY <2>1, <2>2, <1>3, <1>5
<1> QED
  BY <1>3, <1>4, <1>5, <1>6, <1>7 DEF Sound, Framed, Taken

LEMMA TakeWholeFact ==
  ASSUME NEW B, B \subseteq Nat, NEW p \in Nat, NEW seen \in Nat, p < seen,
         NEW max \in Nat \ {0}, p \in B
  PROVE  LET a == TakeWhole(B, p, seen, max, Rest(B, p))
         IN  Sound(B, p, seen, max, a) /\ Framed(B, p, max, a)
<1> DEFINE q == Least(p + max, seen)
           lb == LastBound(B, q)
<1>1. q \in Nat /\ p <= q /\ q <= p + max /\ q <= seen
  BY DEF Least
<1>2. \E b \in B : b <= q
  BY <1>1
<1>3. lb \in B /\ lb <= q /\ \A c \in B : c <= q => c <= lb
  BY <1>1, <1>2, LastBoundFact, Zenon
<1>4. lb \in Nat /\ p <= lb
  BY <1>1, <1>2, <1>3, LastBoundFact, Zenon
<1>5. TakeWhole(B, p, seen, max, Rest(B, p)) = Taken(lb - p, 0)
  BY DEF TakeWhole, Rest
<1> HIDE DEF q, lb
<1>6. p + (lb - p) = lb /\ lb - p \in Nat /\ lb - p <= max /\ lb <= seen
  BY <1>1, <1>3, <1>4
<1>7. Rest(B, lb) = 0
  BY <1>3 DEF Rest
<1>8. Sound(B, p, seen, max, Taken(lb - p, 0))
  BY <1>6, <1>7 DEF Sound, Taken
<1>9. Framed(B, p, max, Taken(lb - p, 0))
  BY <1>3, <1>6 DEF Framed, Taken
<1> QED
  BY <1>5, <1>8, <1>9

\* Every call is sound, whatever it asks for.  This is the lemma that the
\* invariants of every user of advance rest on.
LEMMA AdvanceFact ==
  ASSUME NEW B, B \subseteq Nat, NEW p \in Nat, NEW seen \in Nat, p <= seen,
         \E b \in B : b >= seen, NEW max \in Nat \ {0}
  PROVE  LET a == Advance(B, p, seen, max, Rest(B, p))
         IN  Sound(B, p, seen, max, a) /\ Framed(B, p, max, a)
<1>1. CASE p = seen
  <2>1. Rest(B, p) \in Nat
    <3>1. CASE p \in B
      BY <3>1 DEF Rest
    <3>2. CASE p \notin B
      <4>1. \E b \in B : b > p
        BY <1>1, <3>2
      <4>2. NextBound(B, p) \in Nat /\ NextBound(B, p) > p
        BY <4>1, NextBoundFact, Zenon
      <4> QED
        BY <4>2, <3>2 DEF Rest, PduLen
    <3> QED
      BY <3>1, <3>2
  <2>2. Advance(B, p, seen, max, Rest(B, p)) = Taken(0, Rest(B, p))
    BY <1>1 DEF Advance
  <2>3. p + 0 = p /\ 0 <= max
    OBVIOUS
  <2>4. Sound(B, p, seen, max, Taken(0, Rest(B, p)))
    BY <2>1, <2>3 DEF Sound, Taken
  <2>5. \A b \in B : ~(p < b /\ b < p)
    <3>1. \A b \in Nat : ~(p < b /\ b < p)
      OBVIOUS
    <3> QED
      BY <3>1, Zenon
  <2>6. Framed(B, p, max, Taken(0, Rest(B, p)))
    BY <2>3, <2>5 DEF Framed, Taken
  <2> QED
    BY <2>2, <2>4, <2>6
<1>2. CASE p < seen /\ p \notin B
  <2>1. Advance(B, p, seen, max, Rest(B, p))
          = Continue(p, seen, max, Rest(B, p))
    BY <1>2 DEF Advance
  <2> QED
    BY <1>2, <2>1, ContinueFact, Zenon
<1>3. CASE p < seen /\ p \in B /\ PduLen(B, p) > max
  <2>1. Advance(B, p, seen, max, Rest(B, p)) = CutJumbo(B, p, seen, max)
    BY <1>3 DEF Advance, IsJumbo
  <2> QED
    BY <1>3, <2>1, CutJumboFact, Zenon
<1>4. CASE p < seen /\ p \in B /\ ~(PduLen(B, p) > max)
  <2>1. Advance(B, p, seen, max, Rest(B, p))
          = TakeWhole(B, p, seen, max, Rest(B, p))
    BY <1>4 DEF Advance, IsJumbo
  <2> QED
    BY <1>4, <2>1, TakeWholeFact, Zenon
<1> QED
  BY <1>1, <1>2, <1>3, <1>4

\* A call that has input takes none of it only where a PDU begins that would
\* fit and is not here whole.
LEMMA IdleAdvance ==
  ASSUME NEW B, B \subseteq Nat, NEW p \in Nat, NEW seen \in Nat, p < seen,
         \E b \in B : b >= seen, NEW max \in Nat \ {0},
         Advance(B, p, seen, max, Rest(B, p)).read = 0
  PROVE  p \in B /\ PduLen(B, p) <= max /\ seen < NextBound(B, p)
<1> DEFINE nb == NextBound(B, p)
<1>1. \E b \in B : b > p
  OBVIOUS
<1>2. nb > p /\ nb \in Nat /\ nb \in B
  BY <1>1, NextBoundFact, Zenon
<1>3. ASSUME p \notin B
      PROVE  FALSE
  <2>1. Rest(B, p) = nb - p
    BY <1>3 DEF Rest, PduLen
  <2> HIDE DEF nb
  <2>2. Advance(B, p, seen, max, nb - p).read
          = Least(Least(max, nb - p), seen - p)
    BY <1>3 DEF Advance, Continue, Taken
  <2>3. Least(Least(max, nb - p), seen - p) > 0
    BY <1>2 DEF Least
  <2> QED
    BY <2>1, <2>2, <2>3
<1>4. ASSUME p \in B, ~(PduLen(B, p) <= max)
      PROVE  FALSE
  <2>1. PduLen(B, p) > max
    BY <1>2, <1>4 DEF PduLen
  <2>2. Advance(B, p, seen, max, Rest(B, p)).read = Least(max, seen - p)
    BY <1>4, <2>1 DEF Advance, IsJumbo, CutJumbo, Taken
  <2>3. Least(max, seen - p) > 0
    BY DEF Least
  <2> QED
    BY <2>2, <2>3
<1>5. ASSUME p \in B, PduLen(B, p) <= max, ~(seen < nb)
      PROVE  FALSE
  <2> DEFINE q == Least(p + max, seen)
             lb == LastBound(B, q)
  <2>1. nb - p <= max
    BY <1>5 DEF PduLen
  <2>2. q \in Nat /\ nb <= q
    BY <1>2, <1>5, <2>1 DEF Least
  <2>3. lb \in Nat /\ nb <= lb
    <3>1. \E b \in B : b <= q
      BY <1>2, <2>2
    <3> HIDE DEF q
    <3>2. lb \in Nat /\ \A c \in B : c <= q => c <= lb
      BY <2>2, <3>1, LastBoundFact, Zenon
    <3> QED
      BY <1>2, <2>2, <3>2
  <2>4. ~(PduLen(B, p) > max)
    BY <1>2, <2>1 DEF PduLen
  <2>5. Advance(B, p, seen, max, Rest(B, p)).read = lb - p
    BY <1>5, <2>4 DEF Advance, IsJumbo, TakeWhole, Taken
  <2> HIDE DEF lb, q
  <2> QED
    BY <1>2, <2>3, <2>5
<1> QED
  BY <1>3, <1>4, <1>5

\* When the input given ends at a boundary, the reader never gets nothing: the
\* PDU it is at has arrived whole.
LEMMA WholeAdvance ==
  ASSUME NEW B, B \subseteq Nat, NEW p \in Nat, NEW seen \in B, p < seen,
         NEW max \in Nat \ {0}
  PROVE  Advance(B, p, seen, max, Rest(B, p)).read > 0
<1> DEFINE read == Advance(B, p, seen, max, Rest(B, p)).read
<1>1. seen \in Nat /\ p <= seen /\ \E b \in B : b >= seen
  OBVIOUS
<1>2. read \in Nat
  BY <1>1, AdvanceFact DEF Sound
<1>3. \E b \in B : b > p
  OBVIOUS
<1>4. NextBound(B, p) <= seen /\ NextBound(B, p) \in Nat
  BY <1>3, NextBoundFact
<1>5. ASSUME read = 0
      PROVE  seen < NextBound(B, p)
  BY <1>1, <1>5, IdleAdvance, Zenon
<1>6. read # 0
  BY <1>1, <1>4, <1>5
<1> HIDE DEF read
<1> QED
  BY <1>2, <1>6 DEF read

-----------------------------------------------------------------------------
(* The loop over the length tags                                           *)

\* What the loop returns from any pass on.
LoopResult(B, p, seen, max, owed, toRead) ==
  IF p + toRead = seen THEN Taken(toRead, owed)
  ELSE IF p + toRead \notin B
       THEN IF owed = 0 THEN Taken(toRead, owed)
            ELSE Continue(p, seen, max, owed)
  ELSE IF toRead = 0 /\ PduLen(B, p) > max THEN CutJumbo(B, p, seen, max)
  ELSE IF p + toRead <= Least(p + max, seen)
       THEN TakeWhole(B, p, seen, max, owed)
  ELSE Taken(toRead, owed)

LoopResults(B, p, seen, max, owed) ==
  [t \in 0 .. seen - p |-> LoopResult(B, p, seen, max, owed, t)]

\* A call: the stream goes as far as the input that was given.
IsCall(B, p, seen, max, owed) ==
  /\ B \subseteq Nat /\ p \in Nat /\ seen \in Nat /\ p <= seen
  /\ \E b \in B : b >= seen
  /\ max \in Nat /\ owed \in Nat

\* f gives the results that the passes make of one another.
IsLoop(B, p, seen, max, owed, f) ==
  \A t \in 0 .. seen - p : f[t] = LoopPass(B, p, seen, max, owed, f, t)

\* The PDU at a boundary before seen ends at a later boundary.
LEMMA PduLenFact ==
  ASSUME NEW B, B \subseteq Nat, NEW p \in Nat, NEW seen \in Nat, p < seen,
         \E b \in B : b >= seen
  PROVE  /\ PduLen(B, p) \in Nat \ {0}
         /\ p + PduLen(B, p) = NextBound(B, p)
<1>1. \E b \in B : b > p
  OBVIOUS
<1>2. NextBound(B, p) \in Nat /\ NextBound(B, p) > p
  BY <1>1, NextBoundFact, Zenon
<1> QED
  BY <1>2 DEF PduLen

\* Taking whole PDUs up to q stops at a boundary whose PDU ends beyond q.
LEMMA LastBoundIs ==
  ASSUME NEW B, B \subseteq Nat, NEW q \in Nat, NEW p \in B, p <= q,
         \A c \in B : c <= q => c <= p
  PROVE  LastBound(B, q) = p
<1>1. \E b \in B : b <= q
  OBVIOUS
<1>2. /\ LastBound(B, q) \in B
      /\ LastBound(B, q) <= q
      /\ \A c \in B : c <= q => c <= LastBound(B, q)
  BY <1>1, LastBoundFact, Zenon
<1>3. LastBound(B, q) <= p /\ p <= LastBound(B, q)
  BY <1>2
<1>4. LastBound(B, q) \in Nat /\ p \in Nat
  BY <1>2
<1> HIDE <1>2
<1> QED
  BY <1>3, <1>4

\* The passes after a pass at a PDU that fits decide the result.
LEMMA LoopResultNext ==
  ASSUME NEW B, NEW p, NEW seen, NEW max, NEW owed,
         IsCall(B, p, seen, max, owed),
         NEW t \in Nat, p + t < seen, p + t \in B,
         t + PduLen(B, p + t) <= max, t + PduLen(B, p + t) <= seen - p
  PROVE  LoopResult(B, p, seen, max, owed, t + PduLen(B, p + t))
           = TakeWhole(B, p, seen, max, owed)
<1>a. /\ B \subseteq Nat /\ p \in Nat /\ seen \in Nat /\ p <= seen
      /\ \E b \in B : b >= seen
      /\ max \in Nat /\ owed \in Nat
  BY DEF IsCall
<1> USE <1>a
<1> DEFINE n == PduLen(B, p + t)
           q == Least(p + max, seen)
<1>1. n \in Nat \ {0} /\ p + t + n = NextBound(B, p + t)
  <2>1. p + t \in Nat
    OBVIOUS
  <2> QED
    BY <2>1, PduLenFact, Zenon
<1>2. NextBound(B, p + t) \in B
  <2>1. p + t \in Nat /\ \E b \in B : b > p + t
    OBVIOUS
  <2> QED
    BY <2>1, NextBoundFact, Zenon
<1>3. t + n <= max /\ t + n <= seen - p
  OBVIOUS
<1> HIDE DEF n
<1>4. p + (t + n) \in B /\ t + n # 0 /\ p + (t + n) <= q /\ q \in Nat
  BY <1>1, <1>2, <1>3 DEF Least
<1>5. CASE p + (t + n) = seen
  <2>1. LoopResult(B, p, seen, max, owed, t + n) = Taken(t + n, owed)
    BY <1>5 DEF LoopResult
  <2>2. q = seen
    BY <1>4, <1>5 DEF Least
  <2>3. seen \in B /\ seen <= seen /\ \A c \in B : c <= seen => c <= seen
    BY <1>4, <1>5
  <2>4. LastBound(B, q) = seen
    BY <2>2, <2>3, LastBoundIs, Zenon
  <2>5. LastBound(B, q) - p = t + n
    BY <2>4, <1>5, <1>1
  <2> QED
    BY <2>1, <2>5 DEF TakeWhole, n
<1>6. CASE p + (t + n) # seen
  BY <1>4, <1>6 DEF LoopResult, n
<1> QED
  BY <1>5, <1>6

\* The results of the passes agree with one another as the loop has it.
LEMMA LoopResultPass ==
  ASSUME NEW B, NEW p, NEW seen, NEW max, NEW owed,
         IsCall(B, p, seen, max, owed),
         NEW t \in 0 .. seen - p
  PROVE  LoopResult(B, p, seen, max, owed, t)
           = LoopPass(B, p, seen, max, owed,
                      LoopResults(B, p, seen, max, owed), t)
<1>a. /\ B \subseteq Nat /\ p \in Nat /\ seen \in Nat /\ p <= seen
      /\ \E b \in B : b >= seen
      /\ max \in Nat /\ owed \in Nat
  BY DEF IsCall
<1> USE <1>a
<1> DEFINE g == LoopResults(B, p, seen, max, owed)
           n == PduLen(B, p + t)
           q == Least(p + max, seen)
<1> SUFFICES LoopResult(B, p, seen, max, owed, t)
               = LoopPass(B, p, seen, max, owed, g, t)
  OBVIOUS
<1> HIDE DEF g
<1>1. CASE p + t = seen
  BY <1>1 DEF LoopResult, LoopPass
<1>2. CASE p + t # seen /\ p + t \notin B
  BY <1>2 DEF LoopResult, LoopPass, Continue
<1>3. CASE p + t # seen /\ p + t \in B
  <2>1. /\ p + t \in Nat /\ p + t < seen /\ t \in Nat /\ seen - p \in Nat
        /\ p \in Int
    BY <1>3
  <2>2. n \in Nat \ {0} /\ p + t + n = NextBound(B, p + t)
    BY <2>1, PduLenFact, Zenon
  <2>3. /\ NextBound(B, p + t) \in B
        /\ \A c \in B : c > p + t => NextBound(B, p + t) <= c
    <3>1. \E b \in B : b > p + t
      BY <2>1
    <3> QED
      BY <3>1, <2>1, NextBoundFact, Zenon
  <2>4. CASE t + n <= max /\ t + n <= seen - p
    <3>1. LoopPass(B, p, seen, max, owed, g, t) = g[t + n]
      BY <1>3, <2>4 DEF LoopPass
    <3>2. t + n \in 0 .. seen - p
      BY <2>1, <2>2, <2>4
    <3>3. g[t + n] = LoopResult(B, p, seen, max, owed, t + n)
      BY <3>2 DEF g, LoopResults
    <3>4. LoopResult(B, p, seen, max, owed, t + n)
            = TakeWhole(B, p, seen, max, owed)
      BY <1>3, <2>1, <2>4, LoopResultNext
    <3>5. p + t <= q
      BY <2>1, <2>2, <2>4 DEF Least
    <3>6. ~(t = 0 /\ PduLen(B, p) > max)
      <4>1. CASE t = 0
        <5>1. p + t = p
          BY <4>1
        <5> QED
          BY <5>1, <4>1, <2>2, <2>4
      <4> QED
        BY <4>1
    <3>7. LoopResult(B, p, seen, max, owed, t)
            = TakeWhole(B, p, seen, max, owed)
      BY <1>3, <3>5, <3>6 DEF LoopResult
    <3> QED
      BY <3>1, <3>3, <3>4, <3>7
  <2>5. CASE t + n <= max /\ ~(t + n <= seen - p)
    <3>1. LoopPass(B, p, seen, max, owed, g, t) = Taken(t, owed)
      BY <1>3, <2>5 DEF LoopPass
    <3>2. ~(t = 0 /\ PduLen(B, p) > max)
      <4>1. CASE t = 0
        <5>1. p + t = p
          BY <4>1
        <5> QED
          BY <5>1, <4>1, <2>2, <2>5
      <4> QED
        BY <4>1
    <3>3. q \in Nat /\ p + t <= q /\ q < p + t + n
      BY <2>1, <2>2, <2>5 DEF Least
    <3>4. LastBound(B, q) = p + t
      <4>1. \A c \in B : c <= q => c <= p + t
        BY <2>1, <2>2, <2>3, <3>3
      <4> QED
        BY <1>3, <3>3, <4>1, LastBoundIs, Zenon
    <3>5. TakeWhole(B, p, seen, max, owed) = Taken(t, owed)
      <4>1. LastBound(B, q) - p = t
        BY <3>4, <2>1
      <4> QED
        BY <4>1 DEF TakeWhole
    <3> QED
      BY <1>3, <3>1, <3>2, <3>3, <3>5 DEF LoopResult
  <2>6. CASE ~(t + n <= max) /\ t = 0
    <3>1. p + t = p
      BY <2>6
    <3>2. PduLen(B, p) > max
      BY <2>2, <2>6, <3>1
    <3> QED
      BY <1>3, <2>6, <3>1, <3>2 DEF LoopResult, LoopPass, CutJumbo
  <2>7. CASE ~(t + n <= max) /\ t # 0
    <3>1. LoopPass(B, p, seen, max, owed, g, t) = Taken(t, owed)
      BY <1>3, <2>7 DEF LoopPass
    <3>2. CASE p + t <= q
      <4>1. q \in Nat /\ q < p + t + n
        BY <2>1, <2>2, <2>7 DEF Least
      <4>2. LastBound(B, q) = p + t
        <5>1. \A c \in B : c <= q => c <= p + t
          BY <2>1, <2>2, <2>3, <4>1
        <5> QED
          BY <1>3, <3>2, <4>1, <5>1, LastBoundIs, Zenon
      <4>3. TakeWhole(B, p, seen, max, owed) = Taken(t, owed)
        <5>1. LastBound(B, q) - p = t
          BY <4>2, <2>1
        <5> QED
          BY <5>1 DEF TakeWhole
      <4> QED
        BY <1>3, <2>7, <3>1, <3>2, <4>3 DEF LoopResult
    <3>3. CASE ~(p + t <= q)
      BY <1>3, <2>7, <3>1, <3>3 DEF LoopResult
    <3> QED
      BY <3>2, <3>3
  <2> QED
    BY <2>4, <2>5, <2>6, <2>7
<1> QED
  BY <1>1, <1>2, <1>3

\* A pass depends on later passes only.
LEMMA LoopPassLocal ==
  ASSUME NEW B, NEW p, NEW seen, NEW max, NEW owed,
         IsCall(B, p, seen, max, owed),
         NEW t \in 0 .. seen - p, NEW f, NEW g,
         \A u \in 0 .. seen - p : u > t => f[u] = g[u]
  PROVE  LoopPass(B, p, seen, max, owed, f, t)
           = LoopPass(B, p, seen, max, owed, g, t)
<1>a. /\ B \subseteq Nat /\ p \in Nat /\ seen \in Nat /\ p <= seen
      /\ \E b \in B : b >= seen
      /\ max \in Nat /\ owed \in Nat
  BY DEF IsCall
<1> USE <1>a
<1> DEFINE n == PduLen(B, p + t)
<1>1. CASE /\ p + t # seen /\ p + t \in B
           /\ t + n <= max /\ t + n <= seen - p
  <2>1. p + t \in Nat /\ p + t < seen
    BY <1>1
  <2>2. n \in Nat \ {0}
    BY <2>1, PduLenFact, Zenon
  <2>3. t + n \in 0 .. seen - p /\ t + n > t
    BY <1>1, <2>2
  <2>4. f[t + n] = g[t + n]
    BY <2>3
  <2> QED
    BY <1>1, <2>4 DEF LoopPass
<1>2. CASE ~(/\ p + t # seen /\ p + t \in B
             /\ t + n <= max /\ t + n <= seen - p)
  BY <1>2 DEF LoopPass
<1> QED
  BY <1>1, <1>2

\* The results satisfy the passes, so the loop, which is defined by them, does
\* too.
LEMMA LoopsExist ==
  ASSUME NEW B, NEW p, NEW seen, NEW max, NEW owed,
         IsCall(B, p, seen, max, owed)
  PROVE  /\ IsLoop(B, p, seen, max, owed, LoopResults(B, p, seen, max, owed))
         /\ IsLoop(B, p, seen, max, owed, LoopFrom(B, p, seen, max, owed))
<1> DEFINE Pass(f) == [t \in 0 .. seen - p |->
                         LoopPass(B, p, seen, max, owed, f, t)]
           g == LoopResults(B, p, seen, max, owed)
           loop == LoopFrom(B, p, seen, max, owed)
<1>1. \A t \in 0 .. seen - p :
        LoopResult(B, p, seen, max, owed, t)
          = LoopPass(B, p, seen, max, owed, g, t)
  BY LoopResultPass, Zenon
<1>2. \A t \in 0 .. seen - p : g[t] = LoopResult(B, p, seen, max, owed, t)
  BY DEF LoopResults
<1>3. g = Pass(g)
  <2> DEFINE h == g
  <2> HIDE DEF h
  <2>1. \A t \in 0 .. seen - p :
          LoopResult(B, p, seen, max, owed, t)
            = LoopPass(B, p, seen, max, owed, h, t)
    BY <1>1, Zenon DEF h
  <2>2. [t \in 0 .. seen - p |-> LoopResult(B, p, seen, max, owed, t)]
          = Pass(h)
    BY <2>1
  <2> QED
    BY <2>2, Zenon DEF h, LoopResults
<1>4. loop = CHOOSE f : f = Pass(f)
  BY DEF LoopFrom
<1> HIDE DEF g, loop
<1>5. \A f : f = Pass(f) => IsLoop(B, p, seen, max, owed, f)
  BY DEF IsLoop
<1> HIDE DEF Pass
<1>6. loop = Pass(loop)
  BY <1>3, <1>4, Zenon
<1> QED
  BY <1>3, <1>5, <1>6, Zenon DEF g, loop

\* The passes leave no choice: by descent from the greatest to_read at which
\* two loops could differ.
LEMMA LoopUnique ==
  ASSUME NEW B, NEW p, NEW seen, NEW max, NEW owed,
         IsCall(B, p, seen, max, owed), NEW f, NEW g,
         IsLoop(B, p, seen, max, owed, f), IsLoop(B, p, seen, max, owed, g)
  PROVE  \A t \in 0 .. seen - p : f[t] = g[t]
<1> DEFINE D == {t \in 0 .. seen - p : f[t] # g[t]}
<1> SUFFICES ASSUME D # {} PROVE FALSE
  OBVIOUS
<1>1. p \in Nat /\ seen \in Nat
  BY DEF IsCall
<1>2. D \subseteq Nat /\ seen - p \in Int /\ \A t \in D : t <= seen - p
  BY <1>1
<1>3. PICK t \in D : \A u \in D : u <= t
  BY <1>2, GreatestNatural, Zenon
<1>4. t \in 0 .. seen - p /\ f[t] # g[t]
  BY <1>3
<1>5. \A u \in 0 .. seen - p : u > t => f[u] = g[u]
  BY <1>1, <1>3
<1>6. LoopPass(B, p, seen, max, owed, f, t)
        = LoopPass(B, p, seen, max, owed, g, t)
  BY <1>4, <1>5, LoopPassLocal, Zenon
<1> QED
  BY <1>4, <1>6, Zenon DEF IsLoop

\* The loop of advance returns what Advance says, for every stream, every
\* position in it and every call.
LEMMA LoopIsAdvance ==
  ASSUME NEW B, NEW p, NEW seen, NEW max, NEW owed,
         IsCall(B, p, seen, max, owed)
  PROVE  AdvanceLoop(B, p, seen, max, owed) = Advance(B, p, seen, max, owed)
<1>a. /\ B \subseteq Nat /\ p \in Nat /\ seen \in Nat /\ p <= seen
      /\ \E b \in B : b >= seen
      /\ max \in Nat /\ owed \in Nat
  BY DEF IsCall
<1> USE <1>a
<1> DEFINE f == LoopFrom(B, p, seen, max, owed)
           g == LoopResults(B, p, seen, max, owed)
<1>1. \A t \in 0 .. seen - p : f[t] = g[t]
  <2>1. /\ IsLoop(B, p, seen, max, owed, f)
        /\ IsLoop(B, p, seen, max, owed, g)
    BY LoopsExist, Zenon
  <2> HIDE DEF f, g
  <2> QED
    BY <2>1, LoopUnique
<1>2. 0 \in 0 .. seen - p
  OBVIOUS
<1>3. g[0] = LoopResult(B, p, seen, max, owed, 0)
  BY <1>2 DEF LoopResults
<1>4. f[0] = LoopResult(B, p, seen, max, owed, 0)
  BY <1>1, <1>2, <1>3, Zenon
<1>6. p + 0 = p /\ p <= Least(p + max, seen)
  BY DEF Least
<1>7. LoopResult(B, p, seen, max, owed, 0)
        = Advance(B, p, seen, max, owed)
  <2>1. CASE p = seen
    BY <2>1, <1>6 DEF LoopResult, Advance
  <2>2. CASE p # seen /\ p \notin B
    <3>1. CASE owed = 0
      <4>1. Continue(p, seen, max, owed) = Taken(0, owed)
        BY <3>1 DEF Continue, Least
      <4> QED
        BY <2>2, <3>1, <4>1, <1>6 DEF LoopResult, Advance
    <3>2. CASE owed # 0
      BY <2>2, <3>2, <1>6 DEF LoopResult, Advance
    <3> QED
      BY <3>1, <3>2
  <2>3. CASE p # seen /\ p \in B
    BY <2>3, <1>6 DEF LoopResult, Advance, IsJumbo
  <2> QED
    BY <2>1, <2>2, <2>3
<1> QED
  BY <1>4, <1>7, Zenon DEF AdvanceLoop
=============================================================================
