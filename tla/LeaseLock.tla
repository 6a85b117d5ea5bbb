----------------------------- MODULE LeaseLock -----------------------------
(***************************************************************************)
(* What the per-session compartment lease promises to the code that        *)
(* publishes history: at every instant at most one holder is entitled to   *)
(* write, and the right passes from one holder to another only through a   *)
(* moment when nobody has it.  A holder may lose the right without being   *)
(* told: its row expires, or its process died and a rival removes the row. *)
(***************************************************************************)
CONSTANTS Holders, NoHolder

VARIABLE holder   \* the entitled holder id, or NoHolder

LockInit == holder = NoHolder

\* A holder obtains the right while nobody has it.
Grant == holder = NoHolder /\ holder' \in Holders

\* The right ends: released, expired, or reclaimed from a dead owner.
Revoke == holder # NoHolder /\ holder' = NoHolder

LockNext == Grant \/ Revoke

LockSpec == LockInit /\ [][LockNext]_holder
=============================================================================
