-------------------------- MODULE MCDreamScheduler --------------------------
(* Two worktrees with different schedules for a task, or one and another     *)
(* where the task is disabled.                                               *)
EXTENDS DreamScheduler

CONSTANTS p1, p2

MCConfig == [p \in Procs |-> [t \in Tasks |-> IF p = p1 THEN 1 ELSE 2]]
MCDisabledConfig == [p \in Procs |-> [t \in Tasks |-> IF p = p1 THEN 1 ELSE 0]]
=============================================================================
