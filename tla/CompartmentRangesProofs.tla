----------------------- MODULE CompartmentRangesProofs -----------------------
(* Lemmas about sequences of compartments, for any number of messages. *)
EXTENDS CompartmentRanges, WellFoundedInduction, TLAPS

\* What a historian pass returns is a nonempty contiguous sequence of
\* compartments.
LEMMA ExtensionFacts ==
  ASSUME NEW first \in 1..MaxMsg + 1, NEW s \in Extensions(first)
  PROVE  /\ s \in Seq(Compartments)
         /\ Len(s) \in Nat \ {0}
         /\ ContiguousFrom(s, first)
<1>1. PICK n \in 1..MaxMsg : s \in [1..n -> Compartments]
  BY DEF Extensions, ExtensionsFrom
<1>2. s \in Seq(Compartments) /\ Len(s) = n
  BY <1>1, MaxMsgAssumption
<1>3. ContiguousFrom(s, first)
  BY DEF Extensions, ExtensionsFrom
<1> QED
  BY <1>2, <1>3, MaxMsgAssumption

\* The end of a stored history is 0 or the ordinal of a message.
LEMMA EndOfType ==
  ASSUME NEW h \in Seq(Compartments)
  PROVE  EndOf(h) \in 0..MaxMsg
<1>1. CASE h = <<>>
  BY <1>1, MaxMsgAssumption DEF EndOf
<1>2. CASE h # <<>>
  <2>1. h[Len(h)] \in Compartments
    BY <1>2
  <2>2. h[Len(h)].end \in 1..MaxMsg
    BY <2>1 DEF Compartments
  <2> QED
    BY <1>2, <2>2, MaxMsgAssumption DEF EndOf
<1> QED
  BY <1>1, <1>2

\* Appending a contiguous piece at the end of a contiguous history keeps it
\* contiguous.
LEMMA ContiguousConcat ==
  ASSUME NEW s \in Seq(Compartments), NEW t \in Seq(Compartments), NEW first \in Nat,
         ContiguousFrom(s, first),
         ContiguousFrom(t, IF s = <<>> THEN first ELSE EndOf(s) + 1)
  PROVE  ContiguousFrom(s \o t, first)
<1> SUFFICES ASSUME NEW i \in 1..Len(s \o t)
             PROVE  /\ (s \o t)[i].start =
                         IF i = 1 THEN first ELSE (s \o t)[i - 1].end + 1
                    /\ (s \o t)[i].start <= (s \o t)[i].end
  BY DEF ContiguousFrom
<1>1. CASE i \in 1..Len(s)
  <2>1. (s \o t)[i] = s[i] /\ (i # 1 => (s \o t)[i - 1] = s[i - 1])
    BY <1>1
  <2> QED
    BY <1>1, <2>1 DEF ContiguousFrom
<1>2. CASE i = Len(s) + 1
  <2>1. (s \o t)[i] = t[1] /\ 1 \in 1..Len(t)
    BY <1>2
  <2>2. t[1].start = (IF s = <<>> THEN first ELSE EndOf(s) + 1) /\ t[1].start <= t[1].end
    BY <2>1 DEF ContiguousFrom
  <2>3. s # <<>> => (s \o t)[i - 1] = s[Len(s)]
    BY <1>2
  <2> QED
    BY <1>2, <2>1, <2>2, <2>3 DEF EndOf
<1>3. CASE i > Len(s) + 1
  <2> DEFINE j == i - Len(s)
  <2>1. j \in 2..Len(t)
    BY <1>3
  <2>2. (s \o t)[i] = t[j] /\ (s \o t)[i - 1] = t[j - 1]
    BY <1>3, <2>1
  <2> QED
    BY <2>1, <2>2, <1>3 DEF ContiguousFrom
<1> QED
  BY <1>1, <1>2, <1>3

\* The concatenation splits where it was joined.
LEMMA ConcatSplits ==
  ASSUME NEW s \in Seq(Compartments), NEW t \in Seq(Compartments)
  PROVE  /\ Len(s \o t) = Len(s) + Len(t)
         /\ s \o t \in Seq(Compartments)
         /\ SubSeq(s \o t, 1, Len(s)) = s
         /\ SubSeq(s \o t, Len(s) + 1, Len(s \o t)) = t
<1>1. Len(s \o t) = Len(s) + Len(t) /\ s \o t \in Seq(Compartments)
  OBVIOUS
<1>2. SubSeq(s \o t, 1, Len(s)) = s
  OBVIOUS
<1>3. SubSeq(s \o t, Len(s) + 1, Len(s \o t)) = t
  BY <1>1
<1> QED
  BY <1>1, <1>2, <1>3

\* One compartment is a contiguous piece of its own.
LEMMA SingletonFacts ==
  ASSUME NEW a \in 1..MaxMsg, NEW b \in a..MaxMsg
  PROVE  /\ <<[start |-> a, end |-> b]>> \in Seq(Compartments)
         /\ ContiguousFrom(<<[start |-> a, end |-> b]>>, a)
  BY MaxMsgAssumption DEF Compartments, ContiguousFrom

-----------------------------------------------------------------------------
(* Facts about every compartment of a history, by its least counterexample. *)

\* Whoever is well ordered as Nat is by < has a least element.
LEMMA LeastBy ==
  ASSUME NEW R, IsWellFoundedOn(R, Nat), \A x, y \in Nat : <<y, x>> \in R <=> y < x,
         NEW T \in SUBSET Nat, T # {}
  PROVE  \E m \in T : \A n \in T : m <= n
<1>1. PICK m \in T : \A n \in T : ~(<<n, m>> \in R)
  BY WFMin, Zenon
<1>2. \A n \in T : ~(n < m)
  BY <1>1
<1> QED
  BY <1>2

LEMMA Order == \A x, y \in Nat : <<y, x>> \in OpToRel(<, Nat) <=> y < x
BY Zenon DEF OpToRel

LEMMA Least ==
  ASSUME NEW T \in SUBSET Nat, T # {}
  PROVE  \E m \in T : \A n \in T : m <= n
BY NatLessThanWellFounded, LeastBy, Order, Zenon

\* A bounded set of numbers has a greatest element.
LEMMA Greatest ==
  ASSUME NEW bound \in Nat, NEW T \in SUBSET (0..bound), T # {}
  PROVE  \E m \in T : \A n \in T : n <= m
<1> DEFINE Rest == {bound - n : n \in T}
<1>1. Rest \in SUBSET Nat /\ Rest # {}
  <2>1. ASSUME NEW n \in T PROVE bound - n \in Nat
    <3>1. n \in 0..bound
      OBVIOUS
    <3> QED
      BY <3>1
  <2>2. Rest \in SUBSET Nat
    BY <2>1
  <2>3. PICK n \in T : TRUE
    OBVIOUS
  <2>4. bound - n \in Rest
    BY <2>3
  <2> QED
    BY <2>2, <2>4
<1>2. PICK k \in Rest : \A n \in Rest : k <= n
  <2> HIDE DEF Rest
  <2> QED
    BY <1>1, Least
<1>3. PICK m \in T : k = bound - m
  BY <1>2
<1>4. ASSUME NEW n \in T PROVE n <= m
  <2>1. k <= bound - n
    BY <1>2
  <2> QED
    BY <1>3, <2>1
<1> QED
  BY <1>4

\* A stored compartment is a range of messages.
LEMMA RowType ==
  ASSUME NEW h \in Seq(Compartments), NEW i \in 1..Len(h)
  PROVE  /\ h[i] \in Compartments
         /\ h[i].start \in 1..MaxMsg /\ h[i].end \in 1..MaxMsg
         /\ h[i].start \in Nat /\ h[i].end \in Nat
<1>1. h[i] \in Compartments
  OBVIOUS
<1> QED
  BY <1>1, MaxMsgAssumption DEF Compartments

\* In a contiguous sequence each compartment lies behind all that come before it.
LEMMA ContiguousOrdered ==
  ASSUME NEW h \in Seq(Compartments), NEW first \in Nat, ContiguousFrom(h, first),
         NEW i \in 1..Len(h), NEW j \in 1..Len(h), i < j
  PROVE  h[i].end < h[j].start
<1> DEFINE Bad == {n \in Nat : n \in i + 1..Len(h) /\ ~(h[i].end < h[n].start)}
<1>0. ASSUME NEW n \in 1..Len(h) PROVE h[n].start \in Nat /\ h[n].end \in Nat
  BY RowType
<1>1. SUFFICES ASSUME ~(h[i].end < h[j].start) PROVE FALSE
  OBVIOUS
<1>2. PICK m \in Bad : \A n \in Bad : m <= n
  <2>1. Bad \in SUBSET Nat
    OBVIOUS
  <2>2. j \in Nat /\ j \in i + 1..Len(h)
    OBVIOUS
  <2>3. j \in Bad
    BY <1>1, <2>2
  <2> HIDE DEF Bad
  <2> QED
    BY <2>1, <2>3, Least
<1>3. m \in i + 1..Len(h) /\ ~(h[i].end < h[m].start)
  OBVIOUS
<1>4. h[m].start = h[m - 1].end + 1 /\ m - 1 \in 1..Len(h) /\ h[m - 1].start <= h[m - 1].end
  BY <1>3 DEF ContiguousFrom
<1>5. CASE m = i + 1
  BY <1>0, <1>3, <1>4, <1>5
<1>6. CASE m # i + 1
  <2>1. m - 1 \notin Bad
    BY <1>2, <1>3
  <2>2. h[i].end < h[m - 1].start
    BY <1>3, <1>4, <1>6, <2>1
  <2> QED
    BY <1>0, <1>3, <1>4, <2>2, SMTT(30)
<1> QED
  BY <1>5, <1>6
=============================================================================
