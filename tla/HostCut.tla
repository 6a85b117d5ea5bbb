------------------------------- MODULE HostCut -------------------------------
(***************************************************************************)
(* What hiding a session's old messages from the host promises.  The       *)
(* history summarises more and more messages; the host stops sending some  *)
(* of them, only such as are summarised, and never sends them again.       *)
(***************************************************************************)
CONSTANT Messages

VARIABLES summarised,  \* messages some stored compartment covers
          hidden       \* messages the host no longer sends

CutInit == summarised = {} /\ hidden = {}

Summarise == /\ summarised \subseteq summarised'
             /\ summarised' \subseteq Messages
             /\ UNCHANGED hidden

Hide == /\ hidden \subseteq hidden'
        /\ hidden' \subseteq summarised
        /\ UNCHANGED summarised

CutNext == Summarise \/ Hide

CutSpec == CutInit /\ [][CutNext]_<<summarised, hidden>>
=============================================================================
