--------------------------- MODULE DreamScheduler ---------------------------
(***************************************************************************)
(* The Dreamer's maintenance tasks of one project and one conflict domain: *)
(* the schedule rows all worktrees and hosts of the project share, the     *)
(* timer and the /ctx-dream command that start groups of tasks, and the    *)
(* leased, generation-numbered right to run them                           *)
(* (dreamer/task-scheduler.ts, storage-task-schedule.ts, lease.ts).        *)
(*                                                                         *)
(* A group is one acquisition attempt with a holder id of its own.  Lease  *)
(* transactions are atomic (BEGIN IMMEDIATE), so the lease's clock is      *)
(* reduced to what its tests tell apart: running (expiry > now), edge      *)
(* (expiry = now: a guarded write still passes, a rival may acquire) and   *)
(* over.  The clock now counts schedule time; a cron expression is its     *)
(* period, 0 the empty schedule of a disabled task.                        *)
(***************************************************************************)
EXTENDS Integers

CONSTANTS Procs,              \* worktrees or hosts of the project
          Groups, NoGroup,    \* group slots: a slot is reused once its id left the lease row
          Tasks,              \* tasks of the domain
          Config,             \* Config[p][t]: schedule of t in p's configuration
          MaxRetries,         \* MAX_TASK_RETRIES
          MaxTime,            \* bound on the clock
          MaxUpsets           \* bound: /ctx-dream commands, crashes, refused writes and leases that
                              \* expire under a live group, together

ASSUME DreamAssumption ==
  /\ NoGroup \notin Groups /\ Procs # {} /\ Tasks # {}
  /\ Config \in [Procs -> [Tasks -> Nat]]
  /\ {MaxRetries, MaxTime, MaxUpsets} \subseteq Nat

VARIABLES
  now,       \* Date.now(), in schedule units
  lease,     \* the lease rows of the domain: holder, term (expiry), generation
  row,       \* row[t]: task_schedule_state
  changed,   \* changed[t]: time of the latest change the gate of t looks for
  phase,     \* phase[g]: where group g stands
  proc,      \* proc[g]: its process
  todo,      \* todo[g]: its tasks still to do
  forced,    \* forced[g]: a single task was asked for; its gate is ignored
  gen,       \* gen[g]: generation of its acquisition
  cur,       \* cur[g]: the task it is at
  started,   \* started[g]: startedAt of that task
  lost,      \* lost[g]: its heartbeat reported the loss of the lease
  pending,   \* pending[g]: the schedule row it is about to write
  written,   \* history variable: generation of the latest guarded write
  covered,   \* history variable: start of the latest run of t that wrote its work
  upsets     \* counts towards MaxUpsets

groupVars == <<phase, proc, todo, forced, gen, cur, started, lost, pending>>
locals    == <<proc, forced, gen>>
task      == <<cur, started, lost>>
vars      == <<now, lease, row, changed, groupVars, written, covered, upsets>>

Null == -1
Times == Nat \cup {Null}

Rows == [seeded : BOOLEAN, next : Times, period : Times, last : Times, retries : 0..MaxRetries]
NoRow == [seeded |-> FALSE, next |-> Null, period |-> Null, last |-> Null, retries |-> 0]

\* A row written before the schedule column existed.
LegacyRow == [seeded |-> TRUE, next |-> 1, period |-> Null, last |-> Null, retries |-> 0]

Phases == {"unused", "acquiring", "between", "running", "worked", "recording"}

SomeProc == CHOOSE p \in Procs : TRUE
SomeTask == CHOOSE t \in Tasks : TRUE
Never    == [t \in Tasks |-> Null]

DreamTypeOK ==
  /\ now \in Nat
  /\ lease \in [holder : Groups \cup {NoGroup}, term : {"running", "edge", "over"}, gen : Nat]
  /\ row \in [Tasks -> Rows]
  /\ changed \in [Tasks -> Times] /\ covered \in [Tasks -> Times]
  /\ phase \in [Groups -> Phases]
  /\ proc \in [Groups -> Procs]
  /\ todo \in [Groups -> SUBSET Tasks]
  /\ forced \in [Groups -> BOOLEAN] /\ lost \in [Groups -> BOOLEAN]
  /\ gen \in [Groups -> Nat] /\ written \in Nat
  /\ cur \in [Groups -> Tasks]
  /\ started \in [Groups -> Times]
  /\ pending \in [Groups -> Rows]
  /\ upsets \in Nat

DreamInit ==
  /\ now = 0
  /\ lease = [holder |-> NoGroup, term |-> "over", gen |-> 0]
  /\ row \in [Tasks -> {NoRow, LegacyRow}]
  /\ changed = Never /\ covered = Never
  /\ phase = [g \in Groups |-> "unused"]
  /\ proc = [g \in Groups |-> SomeProc]
  /\ todo = [g \in Groups |-> {}]
  /\ forced = [g \in Groups |-> FALSE]
  /\ gen = [g \in Groups |-> 0]
  /\ cur = [g \in Groups |-> SomeTask]
  /\ started = [g \in Groups |-> Null]
  /\ lost = [g \in Groups |-> FALSE]
  /\ pending = [g \in Groups |-> NoRow]
  /\ written = 0
  /\ upsets = 0

GoTo(g, to) == phase' = [phase EXCEPT ![g] = to]

\* The locals of ended groups vanish with them.
Forget(S) ==
  /\ phase'   = [g \in Groups |-> IF g \in S THEN "unused" ELSE phase[g]]
  /\ proc'    = [g \in Groups |-> IF g \in S THEN SomeProc ELSE proc[g]]
  /\ todo'    = [g \in Groups |-> IF g \in S THEN {} ELSE todo[g]]
  /\ forced'  = [g \in Groups |-> g \notin S /\ forced[g]]
  /\ gen'     = [g \in Groups |-> IF g \in S THEN 0 ELSE gen[g]]
  /\ cur'     = [g \in Groups |-> IF g \in S THEN SomeTask ELSE cur[g]]
  /\ started' = [g \in Groups |-> IF g \in S THEN Null ELSE started[g]]
  /\ lost'    = [g \in Groups |-> g \notin S /\ lost[g]]
  /\ pending' = [g \in Groups |-> IF g \in S THEN NoRow ELSE pending[g]]

-----------------------------------------------------------------------------
(* Schedules.                                                              *)

\* nextDueAtMs: the first slot after a time.
NextDue(k, after) == IF k = 0 THEN Null ELSE (after \div k + 1) * k

\* evaluateTaskGate, for the tasks whose gate asks what changed since last_run_at
\* (reflect, maintain-docs).
GateOpen(t, r) == changed[t] > r.last

\* A row for schedule k that keeps the date of r.
Armed(r, k, next, retries) ==
  [seeded |-> TRUE, next |-> next, period |-> k, last |-> r.last, retries |-> retries]

\* ensureSeeded: a task gets a row once it has input.
Seeded(t, k) ==
  IF row[t].seeded \/ changed[t] = Null THEN row[t] ELSE Armed(NoRow, k, NextDue(k, now), 0)

\* reconcileSchedule: an enabled worktree adopts its own schedule without
\* postponing a slot that is already armed.
Reconciled(t, k) ==
  LET r == Seeded(t, k)
      c == NextDue(k, now)
      n == IF r.next = Null \/ c < r.next THEN c ELSE r.next
  IN  IF ~r.seeded \/ r.period = k THEN r
      ELSE IF r.period = Null /\ r.next # Null THEN Armed(r, k, r.next, r.retries)
      ELSE Armed(r, k, n, IF n = r.next THEN r.retries ELSE 0)

\* advanceAfterRun: on to the next slot.
Advanced(k, last) ==
  [seeded |-> TRUE, next |-> NextDue(k, now), period |-> k, last |-> last, retries |-> 0]

\* The slot a failed run leaves for its retry.  (One that is gone comes back as
\* scheduledAt, a past time like now.)
RetrySlot(k, r) == IF k = 0 THEN Null ELSE IF r.next = Null THEN now ELSE r.next

\* Mutant: one retry too many.
Retried_again(k, r) ==
  IF r.retries > MaxRetries
  THEN Advanced(k, r.last) ELSE Armed(r, k, RetrySlot(k, r), r.retries + 1)

\* Mutant: a failed forced run of a disabled task is retried like any other.
Retried_always(k, r) ==
  IF r.retries + 1 > MaxRetries
  THEN Advanced(k, r.last)
  ELSE Armed(r, k, IF r.next = Null THEN now ELSE r.next, r.retries + 1)

\* recordTransientFailure: keep the slot for a retry, until there were too many.
Retried(k, r) ==
  IF r.retries + 1 > MaxRetries
  THEN Advanced(k, r.last) ELSE Armed(r, k, RetrySlot(k, r), r.retries + 1)

\* Mutant: a completed run is dated by its end.
OutcomeRow_finished(g, t, o) ==
  LET k == Config[proc[g]][t]
  IN  IF o = "transient" THEN Retried(k, row[t])
      ELSE Advanced(k, IF o = "completed" THEN now ELSE row[t].last)

\* The row an outcome leads to, from the row as it is read before the write: a
\* completed run is dated by its start.
OutcomeRow(g, t, o) ==
  LET k == Config[proc[g]][t]
  IN  IF o = "transient" THEN Retried(k, row[t])
      ELSE Advanced(k, IF o = "completed" THEN started[g] ELSE row[t].last)

-----------------------------------------------------------------------------
(* Starting groups.                                                        *)

Enabled(p) == {t \in Tasks : Config[p][t] > 0}

Start(g, p, S, force) ==
  /\ GoTo(g, "acquiring")
  /\ proc' = [proc EXCEPT ![g] = p]
  /\ todo' = [todo EXCEPT ![g] = S]
  /\ forced' = [forced EXCEPT ![g] = force]

\* Mutant: a due task whose gate is closed keeps its slot.
TimerTick_keeps(p, g) ==
  /\ phase[g] = "unused" /\ lease.holder # g
  /\ LET rec  == [t \in Tasks |-> IF t \in Enabled(p) THEN Reconciled(t, Config[p][t]) ELSE row[t]]
         due  == {t \in Enabled(p) : rec[t].seeded /\ rec[t].next # Null /\ now >= rec[t].next}
         work == {t \in due : GateOpen(t, rec[t])}
     IN  /\ row' = rec
         /\ IF work = {}
            THEN UNCHANGED <<phase, proc, todo, forced>>
            ELSE Start(g, p, work, FALSE)
  /\ UNCHANGED <<now, lease, changed, gen, task, pending, written, covered, upsets>>

\* runDueTasksForProject, up to the acquisition: reconcile the enabled tasks,
\* collect the due ones, and skip those whose gate is closed.  Ticks exclude one
\* another (tickInFlight), but the first run of a registered project does not
\* wait for them: two groups of one process may overlap.
TimerTick(p, g) ==
  /\ phase[g] = "unused" /\ lease.holder # g
  /\ LET rec  == [t \in Tasks |-> IF t \in Enabled(p) THEN Reconciled(t, Config[p][t]) ELSE row[t]]
         due  == {t \in Enabled(p) : rec[t].seeded /\ rec[t].next # Null /\ now >= rec[t].next}
         work == {t \in due : GateOpen(t, rec[t])}
     IN  /\ row' = [t \in Tasks |-> IF t \in due \ work
                                    THEN Advanced(Config[p][t], rec[t].last) ELSE rec[t]]
         /\ IF work = {}
            THEN UNCHANGED <<phase, proc, todo, forced>>
            ELSE Start(g, p, work, FALSE)
  /\ UNCHANGED <<now, lease, changed, gen, task, pending, written, covered, upsets>>

\* runManualDream: one task whatever its schedule and gate, or all enabled ones
\* whose gate is open.
RunManually(p, g) ==
  /\ phase[g] = "unused" /\ lease.holder # g
  /\ upsets < MaxUpsets
  /\ upsets' = upsets + 1
  /\ \E force \in BOOLEAN, S \in SUBSET Tasks :
       /\ S # {}
       /\ IF force THEN \E t \in Tasks : S = {t}
                   ELSE S = {t \in Enabled(p) : GateOpen(t, Seeded(t, Config[p][t]))}
       /\ row' = [t \in Tasks |-> IF t \in S THEN Seeded(t, Config[p][t]) ELSE row[t]]
       /\ Start(g, p, S, force)
  /\ UNCHANGED <<now, lease, changed, gen, task, pending, written, covered>>

-----------------------------------------------------------------------------
(* Running a group (runDomainGroup).                                       *)

Holds(g) == lease.holder = g /\ lease.gen = gen[g]

\* The lease is free, over or at its last instant: it is granted under a new
\* number.  Otherwise a tick gives up, and a manual run may also wait (not step).
Acquire(g) ==
  /\ phase[g] = "acquiring"
  /\ \/ /\ lease.holder = NoGroup \/ lease.term # "running"
        /\ lease' = [holder |-> g, term |-> "running", gen |-> lease.gen + 1]
        /\ gen' = [gen EXCEPT ![g] = lease.gen + 1]
        /\ GoTo(g, "between")
        /\ UNCHANGED <<proc, todo, forced, task, pending>>
     \/ /\ lease.holder # NoGroup /\ lease.term = "running"
        /\ Forget({g})
        /\ UNCHANGED lease
  /\ UNCHANGED <<now, row, changed, written, covered, upsets>>

\* What group g is about to record for task t.
Settle(g, t, o) == GoTo(g, "recording") /\ pending' = [pending EXCEPT ![g] = OutcomeRow(g, t, o)]

\* The task boundary: refresh the lease unless it went to somebody else, take up
\* the next task (canonical order: some fixed order), and ask its gate again, now
\* under the lease: somebody may have done the work since.
NextTask(g) ==
  /\ phase[g] = "between" /\ todo[g] # {} /\ Holds(g)
  /\ lease' = [lease EXCEPT !.term = "running"]
  /\ LET t == CHOOSE t \in todo[g] : TRUE
     IN  /\ cur' = [cur EXCEPT ![g] = t]
         /\ IF forced[g] \/ GateOpen(t, row[t])
            THEN /\ GoTo(g, "running")
                 /\ started' = [started EXCEPT ![g] = now]
                 /\ lost' = [lost EXCEPT ![g] = FALSE]
                 /\ UNCHANGED pending
            ELSE Settle(g, t, "skipped") /\ UNCHANGED <<started, lost>>
  /\ UNCHANGED <<now, row, changed, locals, todo, written, covered, upsets>>

\* The executor's heartbeat: renew, or take back an expired lease nobody
\* claimed; otherwise report the loss.
Beat(g) ==
  /\ phase[g] \in {"running", "worked"} /\ ~lost[g]
  /\ IF Holds(g)
     THEN lease' = [lease EXCEPT !.term = "running"] /\ UNCHANGED lost
     ELSE lost' = [lost EXCEPT ![g] = TRUE] /\ UNCHANGED lease
  /\ UNCHANGED <<now, row, changed, phase, locals, todo, cur, started, pending, written, covered, upsets>>

WriteWork(g) ==
  /\ GoTo(g, "worked")
  /\ written' = gen[g]
  /\ covered' = [covered EXCEPT ![cur[g]] = IF @ < started[g] THEN started[g] ELSE @]
  /\ UNCHANGED pending

RefuseWork(g) == Settle(g, cur[g], "transient") /\ UNCHANGED <<written, covered>>

\* Mutant: the write trusts the heartbeat instead of reading the lease again.
Work_trusting(g) ==
  /\ phase[g] = "running"
  /\ IF ~lost[g] THEN WriteWork(g) ELSE RefuseWork(g)
  /\ UNCHANGED <<now, lease, row, changed, locals, todo, task, upsets>>

\* A guarded write of the task's result: holder and expiry are read again under
\* the write lock; the loss of the lease throws, and the run fails transiently.
Work(g) ==
  /\ phase[g] = "running"
  /\ IF ~lost[g] /\ lease.holder = g /\ lease.term # "over" THEN WriteWork(g) ELSE RefuseWork(g)
  /\ UNCHANGED <<now, lease, row, changed, locals, todo, task, upsets>>

\* The executor returns: without having written anything (it completes so only
\* when there is nothing left to do), or after its write.  The outcome is
\* recorded by a read and a later write, with no ownership test.
Return(g) ==
  /\ \E o \in {"skipped", "failed", "transient", "completed"} :
       /\ \/ phase[g] = "running" /\ (o = "completed" => changed[cur[g]] <= covered[cur[g]])
          \/ phase[g] = "worked" /\ o \in {"completed", "transient"} /\ (lost[g] => o = "transient")
       /\ Settle(g, cur[g], o)
  /\ UNCHANGED <<now, lease, row, changed, locals, todo, task, written, covered, upsets>>

Record(g) ==
  /\ phase[g] = "recording"
  /\ row' = [row EXCEPT ![cur[g]] = pending[g]]
  /\ todo' = [todo EXCEPT ![g] = @ \ {cur[g]}]
  /\ pending' = [pending EXCEPT ![g] = NoRow]
  /\ GoTo(g, "between")
  /\ UNCHANGED <<now, lease, changed, locals, task, written, covered, upsets>>

\* SQLite refuses the write: the exception ends the group, its other tasks undone.
RecordRefused(g) ==
  /\ phase[g] = "recording" /\ upsets < MaxUpsets
  /\ upsets' = upsets + 1
  /\ todo' = [todo EXCEPT ![g] = {}]
  /\ pending' = [pending EXCEPT ![g] = NoRow]
  /\ GoTo(g, "between")
  /\ UNCHANGED <<now, lease, row, changed, locals, task, written, covered>>

\* releaseLease keeps the generation row; refused, it leaves the lease to expire.
Release(g) ==
  /\ phase[g] = "between" /\ (todo[g] = {} \/ ~Holds(g))
  /\ Forget({g})
  /\ \/ /\ lease' = IF lease.holder = g THEN [lease EXCEPT !.holder = NoGroup, !.term = "over"] ELSE lease
        /\ UNCHANGED upsets
     \/ /\ lease.holder = g /\ upsets < MaxUpsets
        /\ upsets' = upsets + 1 /\ UNCHANGED lease
  /\ UNCHANGED <<now, row, changed, written, covered>>

-----------------------------------------------------------------------------
(* The surroundings.                                                       *)

\* Time passes for the lease: a live holder missed its beats (a suspended
\* machine), or the holder is gone.
LeaseRunsOut ==
  /\ lease.holder # NoGroup
  /\ lease' = [lease EXCEPT !.term = IF @ = "running" THEN "edge" ELSE "over"]
  /\ lease.term # "over"
  /\ IF lease.term = "running" /\ phase[lease.holder] # "unused"
     THEN upsets < MaxUpsets /\ upsets' = upsets + 1
     ELSE UNCHANGED upsets
  /\ UNCHANGED <<now, row, changed, groupVars, written, covered>>

Crash(p) ==
  /\ upsets < MaxUpsets
  /\ \E g \in Groups : phase[g] # "unused" /\ proc[g] = p
  /\ upsets' = upsets + 1
  /\ Forget({g \in Groups : proc[g] = p})
  /\ UNCHANGED <<now, lease, row, changed, written, covered>>

\* New material for t: a memory, a compartment, a message.  A change in the very
\* millisecond a run starts is not told apart from one before it.
Change(t) ==
  /\ now \notin {changed[t], covered[t], row[t].last}
  /\ \A g \in Groups : cur[g] = t => now \notin {started[g], pending[g].last}
  /\ changed' = [changed EXCEPT ![t] = now]
  /\ UNCHANGED <<now, lease, row, groupVars, written, covered, upsets>>

Clock ==
  /\ now < MaxTime
  /\ now' = now + 1
  /\ UNCHANGED <<lease, row, changed, groupVars, written, covered, upsets>>

GroupStep(g) ==
  \/ Acquire(g) \/ NextTask(g) \/ Work(g) \/ Return(g)
  \/ Record(g) \/ RecordRefused(g) \/ Release(g)

Next ==
  \/ \E p \in Procs, g \in Groups : TimerTick(p, g) \/ RunManually(p, g)
  \/ \E g \in Groups : GroupStep(g) \/ Beat(g)
  \/ \E p \in Procs : Crash(p)
  \/ \E t \in Tasks : Change(t)
  \/ LeaseRunsOut \/ Clock

DreamSpec == DreamInit /\ [][Next]_vars

\* A dead holder's lease runs out with the clock; an executor returns within its
\* task's time limit and the rest of a group is the event loop's; the timer fires
\* again and again.
Fairness ==
  /\ \A g \in Groups : WF_vars(GroupStep(g))
  /\ WF_vars(lease.holder # NoGroup /\ phase[lease.holder] = "unused" /\ LeaseRunsOut)
  /\ \A p \in Procs : SF_vars(\E g \in Groups : TimerTick(p, g))

FairDreamSpec == DreamSpec /\ Fairness

-----------------------------------------------------------------------------
(* Properties.                                                             *)

Fence == INSTANCE FencedWriter WITH token <- lease.gen

\* The lease of a conflict domain fences writes: whoever was suspended, lost the
\* lease and comes back writes no task result any more, and the generation that
\* identifies an acquisition is never given out twice, releases included.
FenceProperty == Fence!FenceSpec

\* What the gate of a task regards as dealt with (it is not newer than
\* last_run_at) was dealt with by a run that started after it appeared: material
\* that arrives during a run, or that a failed run did not get to, opens the
\* gate again, whatever rival runs, retries and stale rows come in between.
NothingForgotten ==
  \A t \in Tasks : changed[t] <= row[t].last => changed[t] <= covered[t]

\* A row last written for a disabled schedule is never due, even when its forced
\* run failed: the timer of an enabled worktree finds nothing to retry there.
DisabledNeverDue == \A t \in Tasks : row[t].period = 0 => row[t].next = Null

Due(t) == row[t].next # Null /\ now >= row[t].next

\* A due slot is settled: it is run, skipped or given up after the retries, though
\* worktrees with different schedules adopt the row in turn, runs fail, lose the
\* lease or crash, and the lease is busy.
SlotIsSettled == \A t \in Tasks : Due(t) ~> ~Due(t)
=============================================================================
