--------------------------- MODULE MCServedPrefix ---------------------------
(* Instances of ServedPrefix for TLC. *)
EXTENDS ServedPrefix, TLC

ProcessSymmetry == Permutations(Processes)
=============================================================================
