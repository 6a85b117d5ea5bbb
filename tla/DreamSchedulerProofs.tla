------------------------ MODULE DreamSchedulerProofs ------------------------
(***************************************************************************)
(* Proofs about DreamScheduler for any number of processes, tasks and      *)
(* groups, any schedules, and any values of its bounds.                    *)
(***************************************************************************)
EXTENDS DreamScheduler, TLAPS

-----------------------------------------------------------------------------
(* What the schedule operators return.                                     *)

LEMMA NextDueIsTime ==
  ASSUME NEW k \in Nat, NEW n \in Nat
  PROVE  NextDue(k, n) \in Times
<1>1. CASE k = 0
  BY <1>1 DEF NextDue, Times, Null
<1>2. CASE k # 0
  <2>1. n \div k \in Nat
    BY <1>2
  <2> DEFINE m == n \div k + 1
  <2>2. m \in Nat
    BY <2>1
  <2> HIDE DEF m
  <2>3. m * k \in Nat
    BY <2>2
  <2> QED
    BY <1>2, <2>3 DEF NextDue, Times, m
<1> QED
  BY <1>1, <1>2

\* Advancing keeps the date it is given.
LEMMA AdvancedRow ==
  ASSUME DreamTypeOK, NEW k \in Nat, NEW l \in Times
  PROVE  Advanced(k, l) \in Rows /\ Advanced(k, l).last = l
<1>1. NextDue(k, now) \in Times
  BY NextDueIsTime DEF DreamTypeOK
<1>2. k \in Times /\ 0 \in 0..MaxRetries
  BY DreamAssumption DEF Times
<1> QED
  BY <1>1, <1>2 DEF Advanced, Rows

LEMMA ArmedRow ==
  ASSUME NEW r \in Rows, NEW k \in Times, NEW x \in Times, NEW y \in 0..MaxRetries
  PROVE  Armed(r, k, x, y) \in Rows /\ Armed(r, k, x, y).last = r.last
BY DEF Armed, Rows

\* A transient failure keeps the date of the row.
LEMMA RetriedRow ==
  ASSUME DreamTypeOK, NEW k \in Nat, NEW r \in Rows
  PROVE  Retried(k, r) \in Rows /\ Retried(k, r).last = r.last
<1>1. r.last \in Times /\ r.next \in Times /\ r.retries \in 0..MaxRetries
  BY DEF Rows
<1>2. CASE r.retries + 1 > MaxRetries
  BY <1>1, <1>2, AdvancedRow DEF Retried
<1>3. CASE ~(r.retries + 1 > MaxRetries)
  <2>1. r.retries + 1 \in 0..MaxRetries /\ k \in Times
    BY <1>1, <1>3, DreamAssumption DEF Times
  <2>2. RetrySlot(k, r) \in Times
    BY <1>1 DEF RetrySlot, Times, DreamTypeOK
  <2> QED
    BY <1>1, <1>3, <2>1, <2>2 DEF Retried, Armed, Rows
<1> QED
  BY <1>2, <1>3

\* Every outcome dates the row by the start of a completed run or keeps its date.
LEMMA OutcomeRowDate ==
  ASSUME DreamTypeOK, NEW g \in Groups, NEW t \in Tasks,
         NEW o \in {"skipped", "failed", "transient", "completed"}
  PROVE  /\ OutcomeRow(g, t, o) \in Rows
         /\ OutcomeRow(g, t, o).last = IF o = "completed" THEN started[g] ELSE row[t].last
<1>1. Config[proc[g]][t] \in Nat
  BY DreamAssumption DEF DreamTypeOK
<1>2. row[t] \in Rows /\ row[t].last \in Times /\ started[g] \in Times
  BY DEF DreamTypeOK, Rows
<1>3. CASE o = "transient"
  BY <1>1, <1>2, <1>3, RetriedRow DEF OutcomeRow
<1>4. CASE o # "transient"
  BY <1>1, <1>2, <1>4, AdvancedRow DEF OutcomeRow
<1> QED
  BY <1>3, <1>4

\* Seeding and reconciling never date a row.
LEMMA SeededRow ==
  ASSUME DreamTypeOK, NEW t \in Tasks, NEW k \in Nat
  PROVE  Seeded(t, k) \in Rows /\ Seeded(t, k).last \in {row[t].last, Null}
<1>1. NextDue(k, now) \in Times /\ k \in Times /\ Null \in Times /\ 0 \in 0..MaxRetries
  BY NextDueIsTime, DreamAssumption DEF DreamTypeOK, Times
<1> QED
  BY <1>1 DEF Seeded, Armed, Rows, NoRow, DreamTypeOK

LEMMA ReconciledRow ==
  ASSUME DreamTypeOK, NEW t \in Tasks, NEW k \in Nat
  PROVE  Reconciled(t, k) \in Rows /\ Reconciled(t, k).last \in {row[t].last, Null}
<1> DEFINE r == Seeded(t, k)
           c == NextDue(k, now)
           n == IF r.next = Null \/ c < r.next THEN c ELSE r.next
<1>1. r \in Rows /\ r.last \in {row[t].last, Null}
  BY SeededRow
<1>2. c \in Times /\ k \in Times /\ 0 \in 0..MaxRetries
  BY NextDueIsTime, DreamAssumption DEF DreamTypeOK, Times
<1> HIDE DEF r, c
<1>3. n \in Times
  BY <1>1, <1>2 DEF Rows
<1> HIDE DEF n
<1> DEFINE s == IF n = r.next THEN r.retries ELSE 0
<1>4. s \in 0..MaxRetries
  BY <1>1, <1>2 DEF Rows
<1>5. r.next \in Times /\ r.retries \in 0..MaxRetries
  BY <1>1 DEF Rows
<1>6. \/ Reconciled(t, k) = r
      \/ Reconciled(t, k) = Armed(r, k, r.next, r.retries)
      \/ Reconciled(t, k) = Armed(r, k, n, s)
  BY DEF Reconciled, r, c, n
<1> HIDE DEF s
<1>7. CASE Reconciled(t, k) = r
  BY <1>1, <1>7
<1>8. CASE Reconciled(t, k) = Armed(r, k, r.next, r.retries)
  <2>1. Armed(r, k, r.next, r.retries) \in Rows
    BY <1>1, <1>2, <1>5, ArmedRow
  <2>2. Armed(r, k, r.next, r.retries).last = r.last
    BY <1>1, <1>2, <1>5, ArmedRow
  <2> QED
    BY <1>1, <1>8, <2>1, <2>2
<1>9. CASE Reconciled(t, k) = Armed(r, k, n, s)
  <2>1. Armed(r, k, n, s) \in Rows
    BY <1>1, <1>2, <1>3, <1>4, ArmedRow
  <2>2. Armed(r, k, n, s).last = r.last
    BY <1>1, <1>2, <1>3, <1>4, ArmedRow
  <2> QED
    BY <1>1, <1>9, <2>1, <2>2
<1> QED
  BY <1>6, <1>7, <1>8, <1>9

-----------------------------------------------------------------------------
(* Types.                                                                  *)

LEMMA Defaults ==
  /\ SomeProc \in Procs /\ SomeTask \in Tasks /\ Null \in Times /\ Nat \subseteq Times
  /\ NoRow \in Rows /\ LegacyRow \in Rows
<1>1. SomeProc \in Procs /\ SomeTask \in Tasks
  BY DreamAssumption DEF SomeProc, SomeTask
<1>2. Null \in Times /\ Nat \subseteq Times /\ 0 \in 0..MaxRetries
  BY DreamAssumption DEF Times
<1> QED
  BY <1>1, <1>2 DEF NoRow, LegacyRow, Rows, Times

\* Ending groups leaves the locals well typed.
LEMMA ForgetTypes ==
  ASSUME DreamTypeOK, NEW S \in SUBSET Groups, Forget(S),
         UNCHANGED <<now, row, changed, written, covered>>, upsets' \in Nat,
         lease' \in [holder : Groups \cup {NoGroup}, term : {"running", "edge", "over"}, gen : Nat]
  PROVE  DreamTypeOK'
BY Defaults DEF DreamTypeOK, Forget, Phases

LEMMA TypesInductive == DreamTypeOK /\ [Next]_vars => DreamTypeOK'
<1> SUFFICES ASSUME DreamTypeOK, [Next]_vars PROVE DreamTypeOK'
  OBVIOUS
<1> USE DreamAssumption, Defaults
<1>1. ASSUME NEW p \in Procs, NEW g \in Groups, TimerTick(p, g) PROVE DreamTypeOK'
  <2>1. \A t \in Tasks : Reconciled(t, Config[p][t]) \in Rows
    BY ReconciledRow
  <2>2. \A t \in Tasks, l \in Times : Advanced(Config[p][t], l) \in Rows
    BY AdvancedRow
  <2> QED
    <3> DEFINE rec == [t \in Tasks |-> IF t \in Enabled(p) THEN Reconciled(t, Config[p][t]) ELSE row[t]]
               due == {t \in Enabled(p) : rec[t].seeded /\ rec[t].next # Null /\ now >= rec[t].next}
               work == {t \in due : GateOpen(t, rec[t])}
    <3>1. rec \in [Tasks -> Rows]
      BY <2>1 DEF DreamTypeOK
    <3>2. work \in SUBSET Tasks
      BY DEF Enabled
    <3>3. /\ row' = [t \in Tasks |-> IF t \in due \ work THEN Advanced(Config[p][t], rec[t].last) ELSE rec[t]]
          /\ UNCHANGED <<phase, proc, todo, forced>> \/ Start(g, p, work, FALSE)
      BY <1>1 DEF TimerTick
    <3> HIDE DEF rec, due, work
    <3>4. \A t \in Tasks : rec[t].last \in Times
      BY <3>1 DEF Rows
    <3>5. row' \in [Tasks -> Rows]
      BY <2>2, <3>1, <3>3, <3>4
    <3>6. forced' \in [Groups -> BOOLEAN]
      BY <3>3 DEF DreamTypeOK, Start
    <3>7. phase' \in [Groups -> Phases] /\ proc' \in [Groups -> Procs] /\ todo' \in [Groups -> SUBSET Tasks]
      <4>1. CASE UNCHANGED <<phase, proc, todo, forced>>
        BY <4>1 DEF DreamTypeOK
      <4>2. CASE Start(g, p, work, FALSE)
        BY <3>2, <4>2 DEF DreamTypeOK, Start, GoTo, Phases
      <4> QED
        BY <3>3, <4>1, <4>2
    <3> QED
      BY <1>1, <3>5, <3>6, <3>7 DEF TimerTick, DreamTypeOK, task
<1>2. ASSUME NEW p \in Procs, NEW g \in Groups, RunManually(p, g) PROVE DreamTypeOK'
  <2>1. \A t \in Tasks : Seeded(t, Config[p][t]) \in Rows
    BY SeededRow
  <2> QED
    BY <1>2, <2>1 DEF RunManually, DreamTypeOK, Start, GoTo, Phases, task
<1>3. ASSUME NEW g \in Groups, Acquire(g) PROVE DreamTypeOK'
  <2>1. CASE Forget({g})
    BY <1>3, <2>1, ForgetTypes DEF Acquire, DreamTypeOK
  <2>2. CASE lease' = [holder |-> g, term |-> "running", gen |-> lease.gen + 1]
    <3>1. lease' \in [holder : Groups \cup {NoGroup}, term : {"running", "edge", "over"}, gen : Nat]
      BY <2>2 DEF DreamTypeOK
    <3>2. /\ gen' = [gen EXCEPT ![g] = lease.gen + 1] /\ GoTo(g, "between")
          /\ UNCHANGED <<proc, todo, forced, task, pending>>
      BY <1>3, <2>2 DEF Acquire, DreamTypeOK
    <3> QED
      BY <1>3, <3>1, <3>2 DEF Acquire, DreamTypeOK, GoTo, Phases, task
  <2> QED
    BY <1>3, <2>1, <2>2 DEF Acquire
<1>4. ASSUME NEW g \in Groups, NextTask(g) PROVE DreamTypeOK'
  <2> DEFINE t == CHOOSE t \in todo[g] : TRUE
  <2>1. t \in Tasks
    BY <1>4 DEF NextTask, DreamTypeOK
  <2>2. OutcomeRow(g, t, "skipped") \in Rows
    BY <2>1, OutcomeRowDate
  <2>3. /\ cur' = [cur EXCEPT ![g] = t]
        /\ \/ /\ GoTo(g, "running") /\ UNCHANGED pending
              /\ started' = [started EXCEPT ![g] = now] /\ lost' = [lost EXCEPT ![g] = FALSE]
           \/ Settle(g, t, "skipped") /\ UNCHANGED <<started, lost>>
    BY <1>4 DEF NextTask
  <2> HIDE DEF t
  <2> QED
    <3>1. lease' \in [holder : Groups \cup {NoGroup}, term : {"running", "edge", "over"}, gen : Nat]
      BY <1>4 DEF NextTask, DreamTypeOK
    <3>2. lost' \in [Groups -> BOOLEAN]
      BY <2>3 DEF DreamTypeOK
    <3>3. phase' \in [Groups -> Phases] /\ started' \in [Groups -> Times] /\ pending' \in [Groups -> Rows]
      <4>1. CASE /\ GoTo(g, "running") /\ UNCHANGED pending
                 /\ started' = [started EXCEPT ![g] = now]
        BY <4>1 DEF DreamTypeOK, GoTo, Phases
      <4>2. CASE Settle(g, t, "skipped") /\ UNCHANGED <<started, lost>>
        BY <2>2, <4>2 DEF Settle, DreamTypeOK, GoTo, Phases
      <4> QED
        BY <2>3, <4>1, <4>2
    <3>4. cur' \in [Groups -> Tasks]
      BY <2>1, <2>3 DEF DreamTypeOK
    <3> QED
      BY <1>4, <3>1, <3>2, <3>3, <3>4 DEF NextTask, DreamTypeOK, locals
<1>5. ASSUME NEW g \in Groups, Work(g) PROVE DreamTypeOK'
  <2>1. OutcomeRow(g, cur[g], "transient") \in Rows
    BY OutcomeRowDate DEF DreamTypeOK
  <2>2. CASE WriteWork(g)
    BY <1>5, <2>2 DEF Work, WriteWork, DreamTypeOK, GoTo, Phases, locals, task
  <2>3. CASE RefuseWork(g)
    BY <1>5, <2>1, <2>3 DEF Work, RefuseWork, Settle, DreamTypeOK, GoTo, Phases, locals, task
  <2> QED
    BY <1>5, <2>2, <2>3 DEF Work
<1>6. ASSUME NEW g \in Groups, Return(g) PROVE DreamTypeOK'
  <2>1. PICK o \in {"skipped", "failed", "transient", "completed"} : Settle(g, cur[g], o)
    BY <1>6 DEF Return
  <2>2. OutcomeRow(g, cur[g], o) \in Rows
    BY OutcomeRowDate DEF DreamTypeOK
  <2> QED
    BY <1>6, <2>1, <2>2 DEF Return, Settle, DreamTypeOK, GoTo, Phases, locals, task
<1>7. ASSUME NEW g \in Groups, Record(g) PROVE DreamTypeOK'
  BY <1>7 DEF Record, DreamTypeOK, GoTo, Phases, task, locals
<1>8. ASSUME NEW g \in Groups, RecordRefused(g) PROVE DreamTypeOK'
  BY <1>8 DEF RecordRefused, DreamTypeOK, GoTo, Phases, task, locals
<1>9. ASSUME NEW g \in Groups, Release(g) PROVE DreamTypeOK'
  <2>1. lease' \in [holder : Groups \cup {NoGroup}, term : {"running", "edge", "over"}, gen : Nat]
    BY <1>9 DEF Release, DreamTypeOK
  <2>2. upsets' \in Nat
    BY <1>9 DEF Release, DreamTypeOK
  <2> QED
    BY <1>9, <2>1, <2>2, ForgetTypes DEF Release, DreamTypeOK
<1>10. ASSUME NEW g \in Groups, Beat(g) PROVE DreamTypeOK'
  BY <1>10, ZenonT(60) DEF Beat, DreamTypeOK, locals
<1>11. ASSUME NEW p \in Procs, Crash(p) PROVE DreamTypeOK'
  BY <1>11, ForgetTypes DEF Crash, DreamTypeOK
<1>12. ASSUME NEW t \in Tasks, Change(t) PROVE DreamTypeOK'
  BY <1>12 DEF Change, DreamTypeOK, groupVars
<1>13. CASE LeaseRunsOut
  <2>1. lease' \in [holder : Groups \cup {NoGroup}, term : {"running", "edge", "over"}, gen : Nat]
    BY <1>13 DEF LeaseRunsOut, DreamTypeOK
  <2>2. upsets' \in Nat
    BY <1>13 DEF LeaseRunsOut, DreamTypeOK
  <2> QED
    BY <1>13, <2>1, <2>2 DEF LeaseRunsOut, DreamTypeOK, groupVars
<1>14. CASE Clock
  BY <1>14 DEF Clock, DreamTypeOK, groupVars
<1>15. CASE UNCHANGED vars
  BY <1>15 DEF vars, groupVars, DreamTypeOK
<1> QED
  BY <1>1, <1>2, <1>3, <1>4, <1>5, <1>6, <1>7, <1>8, <1>9, <1>10, <1>11, <1>12, <1>13, <1>14, <1>15
     DEF Next, GroupStep

LEMMA TypesInit == DreamInit => DreamTypeOK
BY DreamAssumption, Defaults DEF DreamInit, DreamTypeOK, Never, Phases

\* Type correctness of the schedule rows, the lease and every group's locals.
THEOREM DreamTypeCorrect == DreamSpec => []DreamTypeOK
BY TypesInit, TypesInductive, PTL DEF DreamSpec

-----------------------------------------------------------------------------
(* The fence.                                                              *)

\* A live group named in the lease row holds the latest generation.  It is what
\* lets a guarded write test the holder alone: holder ids are never reused, so
\* the holder's generation cannot be an old one.
HolderIsLatest ==
  lease.holder # NoGroup =>
    lease.gen > 0 /\ (phase[lease.holder] # "unused" => gen[lease.holder] = lease.gen)

LEMMA ForgetHolder ==
  ASSUME DreamTypeOK, HolderIsLatest, NEW S \in SUBSET Groups, Forget(S),
         lease' = lease \/ lease'.holder = NoGroup
  PROVE  HolderIsLatest'
BY DEF HolderIsLatest, Forget, DreamTypeOK

LEMMA HolderInductive == DreamTypeOK /\ HolderIsLatest /\ [Next]_vars => HolderIsLatest'
<1> SUFFICES ASSUME DreamTypeOK, HolderIsLatest, [Next]_vars PROVE HolderIsLatest'
  OBVIOUS
<1> USE DreamAssumption
<1>1. ASSUME NEW p \in Procs, NEW g \in Groups, TimerTick(p, g) \/ RunManually(p, g)
      PROVE HolderIsLatest'
  <2>1. lease.holder # g /\ UNCHANGED <<lease, gen>> /\ \A h \in Groups \ {g} : phase'[h] = phase[h]
    BY <1>1 DEF TimerTick, RunManually, Start, GoTo, DreamTypeOK
  <2> QED
    BY <2>1 DEF HolderIsLatest, DreamTypeOK
<1>2. ASSUME NEW g \in Groups, Acquire(g) PROVE HolderIsLatest'
  <2>1. CASE Forget({g}) /\ UNCHANGED lease
    BY <2>1, ForgetHolder
  <2>2. CASE /\ lease' = [holder |-> g, term |-> "running", gen |-> lease.gen + 1]
             /\ gen' = [gen EXCEPT ![g] = lease.gen + 1]
    BY <2>2 DEF HolderIsLatest, DreamTypeOK
  <2> QED
    BY <1>2, <2>1, <2>2 DEF Acquire
<1>3. ASSUME NEW g \in Groups,
             NextTask(g) \/ Work(g) \/ Return(g) \/ Record(g) \/ RecordRefused(g) \/ Beat(g)
      PROVE HolderIsLatest'
  <2>1. lease'.holder = lease.holder /\ lease'.gen = lease.gen /\ UNCHANGED gen
    BY <1>3 DEF NextTask, Work, Return, Record, RecordRefused, Beat, locals, DreamTypeOK
  <2>2. phase[g] # "unused" /\ \A h \in Groups \ {g} : phase'[h] = phase[h]
    BY <1>3 DEF NextTask, Work, WriteWork, RefuseWork, Return, Record, RecordRefused, Beat,
                Settle, GoTo, DreamTypeOK
  <2> QED
    BY <2>1, <2>2 DEF HolderIsLatest, DreamTypeOK
<1>4. ASSUME NEW g \in Groups, Release(g) PROVE HolderIsLatest'
  <2>1. lease' = lease \/ lease'.holder = NoGroup
    BY <1>4 DEF Release, DreamTypeOK
  <2> QED
    BY <1>4, <2>1, ForgetHolder DEF Release
<1>5. ASSUME NEW p \in Procs, Crash(p) PROVE HolderIsLatest'
  BY <1>5, ForgetHolder DEF Crash
<1>6. ASSUME NEW t \in Tasks, Change(t) PROVE HolderIsLatest'
  BY <1>6 DEF Change, groupVars, HolderIsLatest
<1>7. CASE LeaseRunsOut
  <2>1. lease'.holder = lease.holder /\ lease'.gen = lease.gen /\ UNCHANGED <<phase, gen>>
    BY <1>7 DEF LeaseRunsOut, groupVars, DreamTypeOK
  <2> QED
    BY <2>1 DEF HolderIsLatest
<1>8. CASE Clock
  BY <1>8 DEF Clock, groupVars, HolderIsLatest
<1>9. CASE UNCHANGED vars
  BY <1>9 DEF vars, groupVars, HolderIsLatest
<1> QED
  BY <1>1, <1>2, <1>3, <1>4, <1>5, <1>6, <1>7, <1>8, <1>9 DEF Next, GroupStep

\* A step grants under the next number, writes under the latest one, or does
\* neither.
LEMMA StepIsFenced ==
  ASSUME DreamTypeOK, HolderIsLatest, [Next]_vars
  PROVE  [Fence!Grant \/ Fence!Write]_<<lease.gen, written>>
<1> USE DreamAssumption
<1>1. ASSUME NEW p \in Procs, NEW g \in Groups, TimerTick(p, g) \/ RunManually(p, g)
      PROVE UNCHANGED <<lease.gen, written>>
  BY <1>1 DEF TimerTick, RunManually
<1>2. ASSUME NEW g \in Groups, Acquire(g) PROVE Fence!Grant \/ UNCHANGED <<lease.gen, written>>
  BY <1>2 DEF Acquire, Fence!Grant
<1>3. ASSUME NEW g \in Groups, Work(g) PROVE Fence!Write \/ UNCHANGED <<lease.gen, written>>
  <2>1. CASE WriteWork(g) /\ lease.holder = g
    BY <1>3, <2>1 DEF Work, WriteWork, HolderIsLatest, Fence!Write, DreamTypeOK
  <2>2. CASE RefuseWork(g)
    BY <1>3, <2>2 DEF Work, RefuseWork
  <2> QED
    BY <1>3, <2>1, <2>2 DEF Work
<1>4. ASSUME NEW g \in Groups, NextTask(g) \/ Return(g) \/ Record(g) \/ RecordRefused(g) \/ Beat(g)
      PROVE UNCHANGED <<lease.gen, written>>
  BY <1>4 DEF NextTask, Return, Record, RecordRefused, Beat, DreamTypeOK
<1>5. ASSUME NEW g \in Groups, Release(g) PROVE UNCHANGED <<lease.gen, written>>
  BY <1>5 DEF Release, DreamTypeOK
<1>6. ASSUME (\E p \in Procs : Crash(p)) \/ (\E t \in Tasks : Change(t)) \/ Clock \/ UNCHANGED vars
      PROVE UNCHANGED <<lease.gen, written>>
  BY <1>6 DEF Crash, Change, Clock, vars
<1>7. CASE LeaseRunsOut
  BY <1>7 DEF LeaseRunsOut, DreamTypeOK
<1> QED
  BY <1>1, <1>2, <1>3, <1>4, <1>5, <1>6, <1>7 DEF Next, GroupStep

\* The lease implements the fenced writer: no write of a result belongs to
\* anything but the latest grant, and no generation is granted twice.
THEOREM DreamLeaseFences == DreamSpec => FenceProperty
<1>1. DreamInit => DreamTypeOK /\ HolderIsLatest /\ Fence!FenceInit
  BY TypesInit DEF DreamInit, HolderIsLatest, Fence!FenceInit
<1>2. DreamTypeOK /\ HolderIsLatest /\ [Next]_vars => [Fence!Grant \/ Fence!Write]_<<lease.gen, written>>
  BY StepIsFenced
<1> QED
  BY <1>1, <1>2, TypesInductive, HolderInductive, PTL DEF DreamSpec, FenceProperty, Fence!FenceSpec

-----------------------------------------------------------------------------
(* Nothing is forgotten.                                                   *)

\* A row dated d hides no change of t from the gate that no run dealt with.
Dealt(t, d) == changed[t] <= d => changed[t] <= covered[t]

\* Rows are written from a stale read, so the promise has to hold of the row a
\* group is about to write as well; and a run that wrote its work has covered
\* everything up to its start, which will be its date.
DatesInv ==
  /\ \A t \in Tasks : Dealt(t, row[t].last) /\ row[t].last <= now
  /\ \A g \in Groups : started[g] <= now /\ pending[g].last <= now
  /\ \A g \in Groups : phase[g] = "recording" => Dealt(cur[g], pending[g].last)
  /\ \A g \in Groups : phase[g] = "worked" => started[g] <= covered[cur[g]]

LEMMA DateTypes ==
  ASSUME DreamTypeOK
  PROVE  /\ \A t \in Tasks : row[t].last \in Int /\ changed[t] \in Int /\ covered[t] \in Int
         /\ \A t \in Tasks : changed[t] >= Null /\ covered[t] >= Null
         /\ \A g \in Groups : started[g] \in Int /\ pending[g].last \in Int
         /\ now \in Nat /\ Null = -1
<1>1. Null = -1 /\ \A x \in Times : x \in Int /\ x >= Null
  BY DEF Times, Null
<1>2. \A r \in Rows : r.last \in Times
  BY DEF Rows
<1>3. \A t \in Tasks : row[t] \in Rows /\ changed[t] \in Times /\ covered[t] \in Times
  BY DEF DreamTypeOK
<1>4. \A g \in Groups : started[g] \in Times /\ pending[g] \in Rows
  BY DEF DreamTypeOK
<1>5. now \in Nat
  BY DEF DreamTypeOK
<1> QED
  BY <1>1, <1>2, <1>3, <1>4, <1>5

\* A task never dated hides nothing.
LEMMA NullDealt ==
  ASSUME DreamTypeOK, NEW t \in Tasks
  PROVE  Dealt(t, Null)
BY DateTypes DEF Dealt

LEMMA ForgetDates ==
  ASSUME DreamTypeOK, DatesInv, NEW S \in SUBSET Groups, Forget(S),
         UNCHANGED <<now, row, changed, covered>>
  PROVE  DatesInv'
<1>1. \A g \in S : phase'[g] = "unused" /\ started'[g] = Null /\ pending'[g].last = Null
  BY DEF Forget, NoRow
<1>2. \A g \in Groups \ S : /\ phase'[g] = phase[g] /\ started'[g] = started[g]
                            /\ pending'[g] = pending[g] /\ cur'[g] = cur[g]
  BY DEF Forget
<1> QED
  BY <1>1, <1>2, DateTypes DEF DatesInv, Dealt

\* Rows that keep their date or lose it keep the promise.
LEMMA RedatedRows ==
  ASSUME DreamTypeOK, DatesInv, NEW g \in Groups, phase'[g] \in {phase[g], "acquiring"},
         \A h \in Groups \ {g} : phase'[h] = phase[h],
         \A t \in Tasks : row'[t].last \in {row[t].last, Null},
         UNCHANGED <<now, changed, covered, cur, started, pending>>
  PROVE  DatesInv'
<1>1. \A t \in Tasks : Dealt(t, row'[t].last) /\ row'[t].last <= now
  BY DateTypes, NullDealt DEF DatesInv
<1>2. \A h \in Groups : phase'[h] \in {phase[h], "acquiring"}
  OBVIOUS
<1> QED
  BY <1>1, <1>2 DEF DatesInv, Dealt

\* A group settles on a row that keeps the promise.
LEMMA SettledRow ==
  ASSUME DreamTypeOK, DatesInv, NEW g \in Groups, NEW t \in Tasks,
         NEW o \in {"skipped", "failed", "transient", "completed"}, Settle(g, t, o),
         o = "completed" => Dealt(t, started[g]),
         cur' = [cur EXCEPT ![g] = t],
         UNCHANGED <<now, row, changed, started, covered>>
  PROVE  DatesInv'
<1> DEFINE r == OutcomeRow(g, t, o)
<1>1. r.last = IF o = "completed" THEN started[g] ELSE row[t].last
  BY OutcomeRowDate
<1>2. phase' = [phase EXCEPT ![g] = "recording"] /\ pending' = [pending EXCEPT ![g] = r]
  BY DEF Settle, GoTo
<1> HIDE DEF r
<1>3. Dealt(t, r.last) /\ r.last <= now
  BY <1>1 DEF DatesInv
<1>4. phase'[g] = "recording" /\ pending'[g] = r /\ cur'[g] = t
  BY <1>2 DEF DreamTypeOK
<1>5. \A h \in Groups \ {g} : phase'[h] = phase[h] /\ pending'[h] = pending[h] /\ cur'[h] = cur[h]
  BY <1>2 DEF DreamTypeOK
<1> QED
  BY <1>3, <1>4, <1>5 DEF DatesInv, Dealt

LEMMA DatesInductive == DreamTypeOK /\ DatesInv /\ [Next]_vars => DatesInv'
<1> SUFFICES ASSUME DreamTypeOK, DatesInv, [Next]_vars PROVE DatesInv'
  OBVIOUS
<1> USE DreamAssumption
<1>1. ASSUME NEW p \in Procs, NEW g \in Groups, TimerTick(p, g) PROVE DatesInv'
  <2> DEFINE rec == [t \in Tasks |-> IF t \in Enabled(p) THEN Reconciled(t, Config[p][t]) ELSE row[t]]
             due == {t \in Enabled(p) : rec[t].seeded /\ rec[t].next # Null /\ now >= rec[t].next}
             work == {t \in due : GateOpen(t, rec[t])}
  <2>1. \A t \in Tasks : rec[t] \in Rows /\ rec[t].last \in {row[t].last, Null}
    BY ReconciledRow DEF DreamTypeOK
  <2>2. /\ row' = [t \in Tasks |-> IF t \in due \ work THEN Advanced(Config[p][t], rec[t].last) ELSE rec[t]]
        /\ UNCHANGED <<phase, proc, todo, forced>> \/ Start(g, p, work, FALSE)
    BY <1>1 DEF TimerTick
  <2> HIDE DEF rec, due, work
  <2>3. \A t \in Tasks : rec[t].last \in Times
    BY <2>1 DEF Rows
  <2>4. \A t \in Tasks : Advanced(Config[p][t], rec[t].last).last = rec[t].last
    BY <2>3, AdvancedRow
  <2>5. \A t \in Tasks : row'[t].last \in {row[t].last, Null}
    BY <2>1, <2>2, <2>4
  <2>6. phase'[g] \in {phase[g], "acquiring"} /\ \A h \in Groups \ {g} : phase'[h] = phase[h]
    BY <2>2 DEF Start, GoTo, DreamTypeOK
  <2> QED
    BY <1>1, <2>5, <2>6, RedatedRows DEF TimerTick, task
<1>2. ASSUME NEW p \in Procs, NEW g \in Groups, RunManually(p, g) PROVE DatesInv'
  <2>1. \A t \in Tasks : Seeded(t, Config[p][t]).last \in {row[t].last, Null}
    BY SeededRow
  <2>2. \A t \in Tasks : row'[t].last \in {row[t].last, Null}
    BY <1>2, <2>1 DEF RunManually
  <2>3. phase'[g] \in {phase[g], "acquiring"} /\ \A h \in Groups \ {g} : phase'[h] = phase[h]
    BY <1>2 DEF RunManually, Start, GoTo, DreamTypeOK
  <2> QED
    BY <1>2, <2>2, <2>3, RedatedRows DEF RunManually, task
<1>3. ASSUME NEW g \in Groups, Acquire(g) PROVE DatesInv'
  <2>1. CASE Forget({g})
    BY <1>3, <2>1, ForgetDates DEF Acquire
  <2>2. CASE GoTo(g, "between") /\ UNCHANGED <<task, pending>>
    BY <1>3, <2>2 DEF Acquire, GoTo, task, DatesInv, Dealt, DreamTypeOK
  <2> QED
    BY <1>3, <2>1, <2>2 DEF Acquire
<1>4. ASSUME NEW g \in Groups, NextTask(g) PROVE DatesInv'
  <2> DEFINE t == CHOOSE t \in todo[g] : TRUE
  <2>1. t \in Tasks /\ phase[g] = "between" /\ cur' = [cur EXCEPT ![g] = t]
    BY <1>4 DEF NextTask, DreamTypeOK
  <2>2. \/ GoTo(g, "running") /\ started' = [started EXCEPT ![g] = now] /\ UNCHANGED pending
        \/ Settle(g, t, "skipped") /\ UNCHANGED started
    BY <1>4 DEF NextTask
  <2>3. UNCHANGED <<now, row, changed, covered>>
    BY <1>4 DEF NextTask
  <2> HIDE DEF t
  <2>4. CASE GoTo(g, "running") /\ started' = [started EXCEPT ![g] = now] /\ UNCHANGED pending
    <3>1. phase'[g] = "running" /\ started'[g] = now
      BY <2>4 DEF GoTo, DreamTypeOK
    <3>2. \A h \in Groups \ {g} : phase'[h] = phase[h] /\ started'[h] = started[h] /\ cur'[h] = cur[h]
      BY <2>1, <2>4 DEF GoTo, DreamTypeOK
    <3> QED
      BY <2>3, <2>4, <3>1, <3>2, DateTypes DEF DatesInv, Dealt
  <2>5. CASE Settle(g, t, "skipped") /\ UNCHANGED started
    BY <2>1, <2>3, <2>5, SettledRow
  <2> QED
    BY <2>2, <2>4, <2>5
<1>5. ASSUME NEW g \in Groups, Work(g) PROVE DatesInv'
  <2>1. UNCHANGED <<now, row, changed, cur, started>> /\ cur[g] \in Tasks
    BY <1>5 DEF Work, task, DreamTypeOK
  <2>2. CASE WriteWork(g)
    <3>1. \A t \in Tasks : covered'[t] >= covered[t]
      BY <2>1, <2>2, DateTypes DEF WriteWork, DreamTypeOK
    <3>2. covered'[cur[g]] >= started[g]
      BY <2>1, <2>2, DateTypes DEF WriteWork, DreamTypeOK
    <3>3. \A t \in Tasks : covered'[t] \in Int
      BY <2>1, <2>2, DateTypes DEF WriteWork, DreamTypeOK
    <3>4. \A h \in Groups : /\ phase'[h] = "recording" => phase[h] = "recording"
                            /\ phase'[h] = "worked" => phase[h] = "worked" \/ h = g
      BY <2>2 DEF WriteWork, GoTo, DreamTypeOK
    <3>5. \A h \in Groups : cur[h] \in Tasks
      BY DEF DreamTypeOK
    <3>6. \A t \in Tasks, d \in Int : Dealt(t, d) => Dealt(t, d)'
      BY <2>1, <3>1, <3>3, DateTypes DEF Dealt
    <3>7. UNCHANGED pending
      BY <2>2 DEF WriteWork
    <3>8. \A t \in Tasks : Dealt(t, row[t].last)'
      BY <2>1, <3>6, DateTypes DEF DatesInv, Dealt
    <3>9. \A h \in Groups : phase'[h] = "recording" => Dealt(cur[h], pending[h].last)'
      <4> SUFFICES ASSUME NEW h \in Groups, phase'[h] = "recording"
                   PROVE  Dealt(cur[h], pending[h].last)'
        OBVIOUS
      <4>1. phase[h] = "recording"
        BY <3>4
      <4>2. Dealt(cur[h], pending[h].last)
        BY <4>1 DEF DatesInv
      <4>3. cur[h] \in Tasks /\ pending[h].last \in Int
        BY <3>5, DateTypes
      <4> QED
        BY <2>1, <3>1, <3>3, <3>7, <4>2, <4>3, DateTypes DEF Dealt
    <3>10. \A h \in Groups : phase'[h] = "worked" => started[h] <= covered'[cur[h]]
      BY <3>1, <3>2, <3>3, <3>4, <3>5, DateTypes DEF DatesInv
    <3> QED
      BY <2>1, <3>7, <3>8, <3>9, <3>10 DEF DatesInv
  <2>3. CASE RefuseWork(g)
    <3>1. cur' = [cur EXCEPT ![g] = cur[g]]
      BY <2>1 DEF DreamTypeOK
    <3> QED
      BY <2>1, <2>3, <3>1, SettledRow DEF RefuseWork
  <2> QED
    BY <1>5, <2>2, <2>3 DEF Work
<1>6. ASSUME NEW g \in Groups, Return(g) PROVE DatesInv'
  <2>1. PICK o \in {"skipped", "failed", "transient", "completed"} :
          /\ Settle(g, cur[g], o)
          /\ \/ phase[g] = "running" /\ (o = "completed" => changed[cur[g]] <= covered[cur[g]])
             \/ phase[g] = "worked"
    BY <1>6 DEF Return
  <2>2. UNCHANGED <<now, row, changed, cur, started, covered>> /\ cur[g] \in Tasks
    BY <1>6 DEF Return, task, DreamTypeOK
  <2>3. o = "completed" => Dealt(cur[g], started[g])
    BY <2>1, <2>2, DateTypes DEF Dealt, DatesInv
  <2>4. cur' = [cur EXCEPT ![g] = cur[g]]
    BY <2>2 DEF DreamTypeOK
  <2> QED
    BY <2>1, <2>2, <2>3, <2>4, SettledRow
<1>7. ASSUME NEW g \in Groups, Record(g) PROVE DatesInv'
  <2>1. row' = [row EXCEPT ![cur[g]] = pending[g]] /\ phase[g] = "recording"
    BY <1>7 DEF Record
  <2>2. \A t \in Tasks : row'[t].last = IF t = cur[g] THEN pending[g].last ELSE row[t].last
    BY <2>1 DEF DreamTypeOK
  <2>3. \A h \in Groups : /\ phase'[h] = IF h = g THEN "between" ELSE phase[h]
                          /\ pending'[h] = IF h = g THEN NoRow ELSE pending[h]
    BY <1>7 DEF Record, GoTo, DreamTypeOK
  <2>4. UNCHANGED <<now, changed, covered, cur, started>>
    BY <1>7 DEF Record, task
  <2>5. NoRow.last = Null
    BY DEF NoRow
  <2> QED
    BY <2>1, <2>2, <2>3, <2>4, <2>5, DateTypes DEF DatesInv, Dealt
<1>8. ASSUME NEW g \in Groups, RecordRefused(g) PROVE DatesInv'
  <2>1. \A h \in Groups : /\ phase'[h] = IF h = g THEN "between" ELSE phase[h]
                          /\ pending'[h] = IF h = g THEN NoRow ELSE pending[h]
    BY <1>8 DEF RecordRefused, GoTo, DreamTypeOK
  <2>2. UNCHANGED <<now, row, changed, covered, cur, started>>
    BY <1>8 DEF RecordRefused, task
  <2>3. NoRow.last = Null
    BY DEF NoRow
  <2> QED
    BY <2>1, <2>2, <2>3, DateTypes DEF DatesInv, Dealt
<1>9. ASSUME NEW g \in Groups, Release(g) PROVE DatesInv'
  BY <1>9, ForgetDates DEF Release
<1>10. ASSUME NEW g \in Groups, Beat(g) PROVE DatesInv'
  BY <1>10 DEF Beat, DatesInv, Dealt
<1>11. ASSUME NEW p \in Procs, Crash(p) PROVE DatesInv'
  BY <1>11, ForgetDates DEF Crash
<1>12. ASSUME NEW t \in Tasks, Change(t) PROVE DatesInv'
  <2>1. UNCHANGED <<now, row, covered, phase, cur, started, pending>>
    BY <1>12 DEF Change, groupVars
  <2>2. \A u \in Tasks : changed'[u] = IF u = t THEN now ELSE changed[u]
    BY <1>12 DEF Change, DreamTypeOK
  <2>3. row[t].last < now
    <3> DEFINE d == row[t].last
    <3>1. now # d /\ d <= now /\ d \in Int /\ now \in Int
      BY <1>12, DateTypes DEF Change, DatesInv
    <3> HIDE DEF d
    <3>2. d < now
      BY <3>1
    <3> QED
      BY <3>2 DEF d
  <2>4. \A g \in Groups : cur[g] = t => pending[g].last < now
    <3>1. \A g \in Groups : cur[g] = t => now # pending[g].last
      BY <1>12 DEF Change
    <3>2. \A g \in Groups : pending[g].last <= now
      BY DEF DatesInv
    <3>3. \A g \in Groups : pending[g].last \in Int /\ now \in Int
      BY DateTypes
    <3> QED
      BY <3>1, <3>2, <3>3
  <2>5. \A u \in Tasks : Dealt(u, row[u].last)'
    BY <2>1, <2>2, <2>3, DateTypes DEF DatesInv, Dealt
  <2>6. \A g \in Groups : phase[g] = "recording" => Dealt(cur[g], pending[g].last)'
    <3> SUFFICES ASSUME NEW g \in Groups, phase[g] = "recording"
                 PROVE  Dealt(cur[g], pending[g].last)'
      OBVIOUS
    <3>1. Dealt(cur[g], pending[g].last)
      BY DEF DatesInv
    <3>2. cur[g] \in Tasks
      BY DEF DreamTypeOK
    <3>3. CASE cur[g] = t
      BY <2>1, <2>2, <2>4, <3>2, <3>3, DateTypes DEF Dealt
    <3>4. CASE cur[g] # t
      BY <2>1, <2>2, <3>1, <3>2, <3>4 DEF Dealt
    <3> QED
      BY <3>3, <3>4
  <2> QED
    BY <2>1, <2>5, <2>6 DEF DatesInv
<1>13. CASE LeaseRunsOut
  BY <1>13 DEF LeaseRunsOut, groupVars, DatesInv, Dealt
<1>14. CASE Clock
  BY <1>14, DateTypes DEF Clock, groupVars, DatesInv, Dealt
<1>15. CASE UNCHANGED vars
  BY <1>15 DEF vars, groupVars, DatesInv, Dealt
<1> QED
  BY <1>1, <1>2, <1>3, <1>4, <1>5, <1>6, <1>7, <1>8, <1>9, <1>10, <1>11, <1>12, <1>13, <1>14, <1>15
     DEF Next, GroupStep

\* What the gate regards as dealt with was dealt with, however rivals, retries,
\* lost leases, crashes and stale rows interleave.
THEOREM DreamForgetsNothing == DreamSpec => []NothingForgotten
<1>1. DreamInit => DatesInv
  BY DreamAssumption DEF DreamInit, DatesInv, Dealt, NoRow, LegacyRow, Null, Never
<1>2. DatesInv => NothingForgotten
  BY DEF DatesInv, Dealt, NothingForgotten
<1> QED
  BY <1>1, <1>2, TypesInit, TypesInductive, DatesInductive, PTL DEF DreamSpec

-----------------------------------------------------------------------------
(* Disabled tasks.  Every row that is written, also one that a group read   *)
(* before and is about to write, is at rest if it was written for the empty *)
(* schedule: the rows reconciled by a tick are those of enabled tasks.      *)

AtRest(r) == r.period = 0 => r.next = Null

RestInv ==
  /\ \A t \in Tasks : AtRest(row[t])
  /\ \A g \in Groups : AtRest(pending[g])

\* Advancing, retrying and seeding for the empty schedule arm no slot.
LEMMA OutcomesRest ==
  ASSUME NEW k \in Nat, NEW l
  PROVE  AtRest(Advanced(k, l))
BY DEF AtRest, Advanced, NextDue

LEMMA RetriedRest ==
  ASSUME NEW k \in Nat, NEW r
  PROVE  AtRest(Retried(k, r))
<1>1. AtRest(Armed(r, k, RetrySlot(k, r), r.retries + 1))
  BY DEF AtRest, Armed, RetrySlot
<1> QED
  BY <1>1, OutcomesRest DEF Retried

LEMMA SeededRest ==
  ASSUME NEW t \in Tasks, NEW k \in Nat, AtRest(row[t])
  PROVE  AtRest(Seeded(t, k))
BY DEF AtRest, Seeded, Armed, NextDue

LEMMA ReconciledRest ==
  ASSUME NEW t \in Tasks, NEW k \in Nat \ {0}, AtRest(row[t])
  PROVE  AtRest(Reconciled(t, k))
<1> DEFINE r == Seeded(t, k)
           n == IF r.next = Null \/ NextDue(k, now) < r.next THEN NextDue(k, now) ELSE r.next
           s == IF n = r.next THEN r.retries ELSE 0
<1>1. AtRest(r)
  BY SeededRest
<1>2. Reconciled(t, k) \in {r, Armed(r, k, r.next, r.retries), Armed(r, k, n, s)}
  BY DEF Reconciled
<1>3. \A x, y : Armed(r, k, x, y).period = k
  BY DEF Armed
<1> HIDE DEF r, n, s
<1> QED
  BY <1>1, <1>2, <1>3 DEF AtRest

LEMMA OutcomeRowRests ==
  ASSUME DreamTypeOK, NEW g \in Groups, NEW t \in Tasks, NEW o
  PROVE  AtRest(OutcomeRow(g, t, o))
<1>1. Config[proc[g]][t] \in Nat
  BY DreamAssumption DEF DreamTypeOK
<1> QED
  BY <1>1, RetriedRest, OutcomesRest DEF OutcomeRow

LEMMA ForgetRests ==
  ASSUME DreamTypeOK, RestInv, NEW S \in SUBSET Groups, Forget(S), UNCHANGED row
  PROVE  RestInv'
BY DEF RestInv, Forget, AtRest, NoRow, Null

LEMMA SettledRests ==
  ASSUME DreamTypeOK, RestInv, NEW g \in Groups, NEW t \in Tasks, NEW o,
         Settle(g, t, o), UNCHANGED row
  PROVE  RestInv'
<1>1. AtRest(OutcomeRow(g, t, o))
  BY OutcomeRowRests
<1>2. \A h \in Groups : pending'[h] = IF h = g THEN OutcomeRow(g, t, o) ELSE pending[h]
  BY DEF Settle, DreamTypeOK
<1> QED
  BY <1>1, <1>2 DEF RestInv

LEMMA RestInductive == DreamTypeOK /\ RestInv /\ [Next]_vars => RestInv'
<1> SUFFICES ASSUME DreamTypeOK, RestInv, [Next]_vars PROVE RestInv'
  OBVIOUS
<1>1. ASSUME NEW p \in Procs, NEW g \in Groups, TimerTick(p, g) PROVE RestInv'
  <2> DEFINE rec == [t \in Tasks |-> IF t \in Enabled(p) THEN Reconciled(t, Config[p][t]) ELSE row[t]]
             due == {t \in Enabled(p) : rec[t].seeded /\ rec[t].next # Null /\ now >= rec[t].next}
             work == {t \in due : GateOpen(t, rec[t])}
  <2>1. \A t \in Tasks : Config[p][t] \in Nat
    BY DreamAssumption
  <2>2. \A t \in Tasks : AtRest(rec[t])
    BY <2>1, ReconciledRest DEF RestInv, Enabled
  <2>3. row' = [t \in Tasks |-> IF t \in due \ work THEN Advanced(Config[p][t], rec[t].last) ELSE rec[t]]
    BY <1>1 DEF TimerTick
  <2> HIDE DEF rec, due, work
  <2>4. \A t \in Tasks : AtRest(row'[t])
    BY <2>1, <2>2, <2>3, OutcomesRest
  <2> QED
    BY <1>1, <2>4 DEF TimerTick, RestInv
<1>2. ASSUME NEW p \in Procs, NEW g \in Groups, RunManually(p, g) PROVE RestInv'
  <2>1. \A t \in Tasks : AtRest(Seeded(t, Config[p][t]))
    BY SeededRest, DreamAssumption DEF RestInv
  <2>2. \A t \in Tasks : row'[t] \in {Seeded(t, Config[p][t]), row[t]}
    BY <1>2 DEF RunManually
  <2>3. \A t \in Tasks : AtRest(row'[t])
    BY <2>1, <2>2 DEF RestInv
  <2> QED
    BY <1>2, <2>3 DEF RunManually, RestInv
<1>3. ASSUME NEW g \in Groups, Acquire(g) PROVE RestInv'
  BY <1>3, ForgetRests DEF Acquire, RestInv
<1>4. ASSUME NEW g \in Groups, NextTask(g) PROVE RestInv'
  <2>1. (CHOOSE t \in todo[g] : TRUE) \in Tasks
    BY <1>4 DEF NextTask, DreamTypeOK
  <2> QED
    BY <1>4, <2>1, SettledRests DEF NextTask, RestInv
<1>5. ASSUME NEW g \in Groups, Work(g) PROVE RestInv'
  <2>1. cur[g] \in Tasks
    BY DEF DreamTypeOK
  <2> QED
    BY <1>5, <2>1, SettledRests DEF Work, WriteWork, RefuseWork, RestInv
<1>6. ASSUME NEW g \in Groups, Return(g) PROVE RestInv'
  <2>1. cur[g] \in Tasks
    BY DEF DreamTypeOK
  <2> QED
    BY <1>6, <2>1, SettledRests DEF Return
<1>7. ASSUME NEW g \in Groups, Record(g) PROVE RestInv'
  <2>1. \A t \in Tasks : row'[t] = IF t = cur[g] THEN pending[g] ELSE row[t]
    BY <1>7 DEF Record, DreamTypeOK
  <2>2. \A h \in Groups : pending'[h] = IF h = g THEN NoRow ELSE pending[h]
    BY <1>7 DEF Record, DreamTypeOK
  <2>3. AtRest(NoRow)
    BY DEF AtRest, NoRow
  <2> QED
    BY <2>1, <2>2, <2>3 DEF RestInv
<1>8. ASSUME NEW g \in Groups, RecordRefused(g) PROVE RestInv'
  <2>1. \A h \in Groups : pending'[h] = IF h = g THEN NoRow ELSE pending[h]
    BY <1>8 DEF RecordRefused, DreamTypeOK
  <2>2. AtRest(NoRow)
    BY DEF AtRest, NoRow
  <2> QED
    BY <1>8, <2>1, <2>2 DEF RecordRefused, RestInv
<1>9. ASSUME NEW g \in Groups, Release(g) PROVE RestInv'
  BY <1>9, ForgetRests DEF Release
<1>10. ASSUME NEW p \in Procs, Crash(p) PROVE RestInv'
  BY <1>10, ForgetRests DEF Crash
<1>11. ASSUME (\E g \in Groups : Beat(g)) \/ (\E t \in Tasks : Change(t))
              \/ LeaseRunsOut \/ Clock \/ UNCHANGED vars
       PROVE  RestInv'
  BY <1>11 DEF Beat, Change, LeaseRunsOut, Clock, vars, groupVars, RestInv
<1> QED
  BY <1>1, <1>2, <1>3, <1>4, <1>5, <1>6, <1>7, <1>8, <1>9, <1>10, <1>11 DEF Next, GroupStep

\* No row that was written for a disabled schedule is ever due, whatever forced
\* runs fail there, and whatever rows groups of other worktrees write late.
THEOREM DisabledStaysIdle == DreamSpec => []DisabledNeverDue
<1>1. DreamInit => RestInv
  BY DEF DreamInit, RestInv, AtRest, NoRow, LegacyRow, Null
<1>2. RestInv => DisabledNeverDue
  BY DEF RestInv, AtRest, DisabledNeverDue
<1> QED
  BY <1>1, <1>2, TypesInit, TypesInductive, RestInductive, PTL DEF DreamSpec
=============================================================================
