--------------------------- MODULE MCHistorianRuns ---------------------------
(* Instances of HistorianRuns for TLC. *)
EXTENDS HistorianRuns, TLC

\* Run slots are interchangeable; processes are not (SomeProc).
RunSymmetry == Permutations(Runs)
=============================================================================
