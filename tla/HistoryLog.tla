----------------------------- MODULE HistoryLog -----------------------------
(***************************************************************************)
(* What the compartment store promises to everyone who renders a session:  *)
(* the compacted history is a sequence of compartments that covers the raw *)
(* messages 1..n without a gap or an overlap, it grows only at its end,    *)
(* and it is rewritten only by a rebuild (a recomp).                       *)
(***************************************************************************)
EXTENDS CompartmentRanges

VARIABLES log,       \* the published history
          rebuilds   \* how often it was rewritten

LogInit == log = <<>> /\ rebuilds = 0

\* The next compartments are published behind the ones that are there.
Extend ==
  /\ log' \in Seq(Compartments)
  /\ Len(log') > Len(log)
  /\ SubSeq(log', 1, Len(log)) = log
  /\ ContiguousFrom(SubSeq(log', Len(log) + 1, Len(log')), EndOf(log) + 1)
  /\ UNCHANGED rebuilds

\* The whole history is replaced by another valid one.
Rebuild ==
  /\ log' \in Seq(Compartments)
  /\ ContiguousFrom(log', 1)
  /\ rebuilds' = rebuilds + 1

LogNext == Extend \/ Rebuild

LogSpec == LogInit /\ [][LogNext]_<<log, rebuilds>>
=============================================================================
