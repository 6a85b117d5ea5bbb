-------------------------- MODULE MCHistorianClaim --------------------------
(* Instances of HistorianClaim for TLC. *)
EXTENDS HistorianClaim
=============================================================================
