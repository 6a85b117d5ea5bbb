---------------------------- MODULE FencedWriter ----------------------------
(***************************************************************************)
(* What the Dreamer lease of a conflict domain promises about the writes   *)
(* made under it: grants are numbered, numbers are never reused, and every *)
(* guarded write belongs to the latest grant.  A process that was          *)
(* suspended while somebody else took the domain over writes nothing more. *)
(***************************************************************************)
EXTENDS Naturals

VARIABLES token,    \* number of the latest grant
          written   \* grant of the latest guarded write (0: none yet)

FenceInit == token = 0 /\ written = 0

Grant == token' = token + 1 /\ UNCHANGED written

Write == token > 0 /\ written' = token /\ UNCHANGED token

FenceSpec == FenceInit /\ [][Grant \/ Write]_<<token, written>>
=============================================================================
