-------------------------- MODULE MCRecompStaging --------------------------
(* Small instances of RecompStaging for TLC. *)
EXTENDS RecompStaging

\* Every range of the session's messages.
AllRanges == {rg \in (1..MaxMsg) \X (1..MaxMsg) : rg[1] <= rg[2]}

\* A partial recomp is asked for the last message only.
LastMessage == {<<MaxMsg, MaxMsg>>}

=============================================================================
