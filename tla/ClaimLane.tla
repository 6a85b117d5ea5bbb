----------------------------- MODULE ClaimLane -----------------------------
(***************************************************************************)
(* What handing model calls to outside claimants promises.  Claims of a    *)
(* run are numbered; at most one is in force, and a newer one is granted   *)
(* only when none is.  Only the newest claim is heard, and heard once; a   *)
(* run is published at most once, with the answer of a claim that was      *)
(* heard.                                                                  *)
(***************************************************************************)
EXTENDS Integers

CONSTANTS Runs, NoClaim

VARIABLES newest,     \* the claim granted last, a run and a number, or NoClaim
          held,       \* it is in force
          heard,      \* claims whose answer was accepted
          published   \* claims whose answer is in the history

laneVars == <<newest, held, heard, published>>

Claims == Runs \X Nat

LaneInit == newest = NoClaim /\ held = FALSE /\ heard = {} /\ published = {}

Newer(c, d) == d = NoClaim \/ d[1] < c[1] \/ (d[1] = c[1] /\ d[2] < c[2])

Grant == /\ ~held
         /\ newest' \in {c \in Claims : Newer(c, newest)}
         /\ \A d \in published : d[1] # newest'[1]
         /\ held' = TRUE
         /\ UNCHANGED <<heard, published>>

\* A claim lapses, and counts again if its holder is heard of before a rival.
Lapse  == held' = FALSE /\ UNCHANGED <<newest, heard, published>>
Extend == /\ newest \notin heard \cup {NoClaim} /\ held' = TRUE
          /\ UNCHANGED <<newest, heard, published>>

Hear == /\ newest \notin heard \cup {NoClaim}
        /\ heard' = heard \cup {newest} /\ held' = FALSE
        /\ UNCHANGED <<newest, published>>

Publish == /\ \E c \in heard : /\ \A d \in published : d[1] # c[1]
                               /\ published' = published \cup {c}
           /\ UNCHANGED <<newest, held, heard>>

LaneNext == Grant \/ Lapse \/ Extend \/ Hear \/ Publish

LaneSpec == LaneInit /\ [][LaneNext]_laneVars
=============================================================================
