------------------------- MODULE MCCompartmentLease -------------------------
(* Instances of CompartmentLease for TLC. *)
EXTENDS CompartmentLease, TLC

\* Attempts are interchangeable, and so are the processes that are not punctual.
LeaseSymmetry == Permutations(Holders) \cup Permutations(Procs \ Punctual)
=============================================================================
