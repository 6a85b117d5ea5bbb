-------------------------- MODULE CompartmentRanges --------------------------
(***************************************************************************)
(* Compartments as ranges of raw message ordinals, and the validation that *)
(* every writer of compartment rows relies on.  The title, body and ids of *)
(* a compartment are left out: no property here depends on them.           *)
(***************************************************************************)
EXTENDS Integers, Sequences

CONSTANT MaxMsg   \* number of raw messages of the session

ASSUME MaxMsgAssumption == MaxMsg \in Nat

\* A compartment stands for an inclusive range of raw message ordinals.
Compartments == [start : 1..MaxMsg, end : 1..MaxMsg]

\* getLastCompartmentEndMessage, with 0 for the empty history.
EndOf(h) == IF h = <<>> THEN 0 ELSE h[Len(h)].end

\* validateStoredCompartments: every compartment is a nonempty range and
\* begins where the previous one ended.
ContiguousFrom(h, first) ==
  \A i \in 1..Len(h) :
    /\ h[i].start = IF i = 1 THEN first ELSE h[i - 1].end + 1
    /\ h[i].start <= h[i].end

\* The nonempty contiguous sequences of compartments that begin at first: what
\* a validated historian pass over a chunk that starts there can return.  (A
\* constant function, so that TLC evaluates it once.)
ExtensionsFrom ==
  [first \in 1..MaxMsg + 1 |->
     {s \in UNION {[1..n -> Compartments] : n \in 1..MaxMsg} : ContiguousFrom(s, first)}]
Extensions(first) == ExtensionsFrom[first]

\* A whole session history: covers 1..n for some n.
Histories == {<<>>} \cup Extensions(1)
=============================================================================
