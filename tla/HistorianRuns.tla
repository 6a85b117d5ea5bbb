--------------------------- MODULE HistorianRuns ---------------------------
(***************************************************************************)
(* The runs that grow one session's compacted history: the historian that  *)
(* a transform pass starts in the background, and the /ctx-wrapup command  *)
(* that drives one historian run after another.  Several processes share   *)
(* the database; each runs JavaScript on one thread.                       *)
(*                                                                         *)
(* The compartment lease appears here as the abstract lock of LeaseLock,   *)
(* which CompartmentLease implements: lease names the run whose row is     *)
(* unexpired, and LeaseLapses is its expiry or the reclaim of a dead       *)
(* owner's row.  The wrapup marker has the same TTL discipline and is      *)
(* abstracted the same way.  A recomp appears only as RecompReplaces, the  *)
(* rewrite of the whole history under the lease (RecompStaging models it). *)
(***************************************************************************)
EXTENDS CompartmentRanges

CONSTANTS Procs,               \* processes that have the session open
          HomeProcs,           \* those that see the session's project as a home project
          Runs, NoRun,         \* run slots: a slot is reused after its lease row is gone
          Wrapups, NoWrapup,   \* /ctx-wrapup commands (a marker holder id each)
          Target,              \* targetEligibleEndOrdinal - 1 of a wrapup
          MaxLapses,           \* bound: leases or markers of live runs that expire
          MaxFaults,           \* bound: crashes and writes SQLite refuses
          MaxRebuilds          \* bound: recomps

ASSUME RunsAssumption ==
  /\ Procs # {}
  /\ HomeProcs \subseteq Procs
  /\ NoRun \notin Runs
  /\ NoWrapup \notin Wrapups
  /\ {Target, MaxLapses, MaxFaults, MaxRebuilds} \subseteq Nat

VARIABLES
  comps,       \* compartments of the session, by sequence
  lease,       \* run that holds the unexpired lease row, or NoRun
  marker,      \* wrapup that holds the unexpired marker, or NoWrapup
  inProgress,  \* session_meta.compartmentInProgress
  active,      \* active[p]: the run registered in p's activeRuns map
  phase,       \* phase[r]: where run r stands
  proc,        \* proc[r]: its process
  driver,      \* driver[r]: the wrapup that drives it; NoWrapup: a transform pass
  offset,      \* offset[r]: first message of its chunk
  base,        \* base[r]: sequenceOffset, the rows it saw when it read the history
  out,         \* out[r]: the compartments its model call returned
  seen,        \* history variable: the marker at the moment r won the lease
  wphase,      \* wphase[w]: where wrapup w stands
  wproc,       \* wproc[w]: its process
  before,      \* before[w]: beforeEnd of the current iteration
  lapses, faults, rebuilds,  \* counters of the bounded events
  skipped      \* history variable: a skipped run left the flag set

dbVars   == <<comps, lease, marker, inProgress>>
runVars  == <<active, phase, proc, driver, offset, base, out, seen>>
wrapVars == <<wphase, wproc, before>>
counters == <<lapses, faults, rebuilds, skipped>>
vars     == <<dbVars, runVars, wrapVars, counters>>

Phases == {"unused", "checked", "leased", "declined", "starting", "planned",
           "model", "ready", "published", "settling", "closing", "gone"}

WrapPhases == {"idle", "joining", "looping", "acquiring", "running", "ending", "over"}

RunsTypeOK ==
  /\ comps \in Seq(Compartments)
  /\ lease \in Runs \cup {NoRun}
  /\ marker \in Wrapups \cup {NoWrapup}
  /\ inProgress \in BOOLEAN
  /\ active \in [Procs -> Runs \cup {NoRun}]
  /\ phase \in [Runs -> Phases]
  /\ proc \in [Runs -> Procs]
  /\ driver \in [Runs -> Wrapups \cup {NoWrapup}]
  /\ offset \in [Runs -> Nat]
  /\ base \in [Runs -> Nat]
  /\ out \in [Runs -> Seq(Compartments)]
  /\ seen \in [Runs -> Wrapups \cup {NoWrapup}]
  /\ wphase \in [Wrapups -> WrapPhases]
  /\ wproc \in [Wrapups -> Procs]
  /\ before \in [Wrapups -> Nat]
  /\ lapses \in Nat /\ faults \in Nat /\ rebuilds \in Nat
  /\ skipped \in BOOLEAN

SomeProc == CHOOSE p \in Procs : TRUE

RunsInit ==
  /\ comps = <<>>
  /\ lease = NoRun
  /\ marker = NoWrapup
  /\ inProgress = FALSE
  /\ active = [p \in Procs |-> NoRun]
  /\ phase = [r \in Runs |-> "unused"]
  /\ proc = [r \in Runs |-> SomeProc]
  /\ driver = [r \in Runs |-> NoWrapup]
  /\ offset = [r \in Runs |-> 0]
  /\ base = [r \in Runs |-> 0]
  /\ out = [r \in Runs |-> <<>>]
  /\ seen = [r \in Runs |-> NoWrapup]
  /\ wphase = [w \in Wrapups |-> "idle"]
  /\ wproc = [w \in Wrapups |-> SomeProc]
  /\ before = [w \in Wrapups |-> 0]
  /\ lapses = 0 /\ faults = 0 /\ rebuilds = 0 /\ skipped = FALSE

-----------------------------------------------------------------------------
\* Phases between two awaits: while a run of p is in one, no other handler of
\* p runs.  A registered run waits for the session's ordinals (and, when a
\* transform pass started it, for a timer turn) before it reads the history.
Synchronous(r) ==
  phase[r] \in {"checked", "leased", "declined", "planned",
                "published", "settling", "closing"}

Free(p) == \A r \in Runs : proc[r] = p => ~Synchronous(r)

\* Run r moves on; its other locals keep their values.
Moves(r, from, to) ==
  /\ phase[r] = from
  /\ phase' = [phase EXCEPT ![r] = to]

\* The locals of a run vanish with it.
Forget(r) ==
  /\ proc' = [proc EXCEPT ![r] = SomeProc]
  /\ driver' = [driver EXCEPT ![r] = NoWrapup]
  /\ offset' = [offset EXCEPT ![r] = 0]
  /\ base' = [base EXCEPT ![r] = 0]
  /\ out' = [out EXCEPT ![r] = <<>>]
  /\ seen' = [seen EXCEPT ![r] = NoWrapup]
locals == <<proc, driver, offset, base, out, seen>>

-----------------------------------------------------------------------------
(* startBackgroundCompartmentAgent, called from a transform pass.          *)

\* Mutant: the start does not look into activeRuns.
StartAgent_overwrites(p, r) ==
  /\ Free(p)
  /\ inProgress \/ EndOf(comps) < MaxMsg
  /\ phase[r] = "unused"
  /\ phase' = [phase EXCEPT ![r] = IF marker = NoWrapup THEN "checked" ELSE "declined"]
  /\ proc' = [proc EXCEPT ![r] = p]
  /\ inProgress' \in {TRUE, inProgress}
  /\ UNCHANGED <<comps, lease, marker, active, driver, offset, base, out, seen,
                 wrapVars, counters>>

\* The pass finds the flag set, or its trigger fires and sets it, or it is at
\* 95% and starts without the flag; a session with a registered run is left
\* alone.  First look at the wrapup marker.
StartAgent(p, r) ==
  /\ Free(p)
  /\ active[p] = NoRun
  /\ inProgress \/ EndOf(comps) < MaxMsg
  /\ phase[r] = "unused"
  /\ phase' = [phase EXCEPT ![r] = IF marker = NoWrapup THEN "checked" ELSE "declined"]
  /\ proc' = [proc EXCEPT ![r] = p]
  /\ inProgress' \in {TRUE, inProgress}
  /\ UNCHANGED <<comps, lease, marker, active, driver, offset, base, out, seen,
                 wrapVars, counters>>

\* A pass beside a running historian: the trigger fires when some other process
\* cleared the flag, and the registered run keeps the pass from starting one.
TriggerBesideRun(p) ==
  /\ Free(p)
  /\ active[p] # NoRun
  /\ ~inProgress
  /\ inProgress' = TRUE
  /\ UNCHANGED <<comps, lease, marker, runVars, wrapVars, counters>>

\* Mutant: the row is keyed by the process instead of the run's holder id.
TakeLease_byProcess(r) ==
  /\ phase[r] = "checked"
  /\ lease = NoRun
  /\ lease' = proc[r]
  /\ phase' = [phase EXCEPT ![r] = "leased"]
  /\ UNCHANGED <<comps, marker, inProgress, active, locals, wrapVars, counters>>

\* acquireCompartmentLease.
TakeLease(r) ==
  /\ phase[r] = "checked"
  /\ IF lease = NoRun
     THEN /\ lease' = r
          /\ seen' = [seen EXCEPT ![r] = marker]
          /\ phase' = [phase EXCEPT ![r] = "leased"]
     ELSE /\ phase' = [phase EXCEPT ![r] = "declined"]
          /\ UNCHANGED <<lease, seen>>
  /\ UNCHANGED <<comps, marker, inProgress, active, proc, driver, offset, base, out,
                 wrapVars, counters>>

\* Mutant: no second look at the marker.
CheckMarkerAgain_skipped(r) ==
  /\ phase[r] = "leased"
  /\ phase' = [phase EXCEPT ![r] = "starting"]
  /\ active' = [active EXCEPT ![proc[r]] = r]
  /\ UNCHANGED <<dbVars, locals, wrapVars, counters>>

\* The second look at the marker.  Absent: register the run and return to the
\* pass.  Present: release the row and give the intent back.
CheckMarkerAgain(r) ==
  /\ phase[r] = "leased"
  /\ IF marker = NoWrapup
     THEN /\ phase' = [phase EXCEPT ![r] = "starting"]
          /\ active' = [active EXCEPT ![proc[r]] = r]
          /\ UNCHANGED lease
     ELSE /\ phase' = [phase EXCEPT ![r] = "declined"]
          /\ lease' = IF lease = r THEN NoRun ELSE lease
          /\ UNCHANGED active
  /\ UNCHANGED <<comps, marker, inProgress, locals, wrapVars, counters>>

\* Mutant: the loser keeps the intent for a later pass.
ReleaseIntent_kept(r) ==
  /\ phase[r] = "declined"
  /\ phase' = [phase EXCEPT ![r] = "unused"]
  /\ Forget(r)
  /\ UNCHANGED <<dbVars, active, wrapVars, counters>>

\* The loser of the lease, or of the marker, releases the start intent.
ReleaseIntent(r) ==
  /\ phase[r] = "declined"
  /\ inProgress' = FALSE
  /\ phase' = [phase EXCEPT ![r] = "unused"]
  /\ Forget(r)
  /\ UNCHANGED <<comps, lease, marker, active, wrapVars, counters>>

\* A statement of the start throws (SQLITE_BUSY): the exception reaches the
\* pass, which logs it; the flag and a lease row already won stay.
StartThrows(r) ==
  /\ faults < MaxFaults
  /\ phase[r] \in {"checked", "leased"}
  /\ phase' = [phase EXCEPT ![r] = IF lease = r THEN "gone" ELSE "unused"]
  /\ faults' = faults + 1
  /\ Forget(r)
  /\ UNCHANGED <<dbVars, active, wrapVars, lapses, rebuilds, skipped>>

-----------------------------------------------------------------------------
(* runCompartmentAgent.                                                    *)

\* prepareBoundary finds no eligible history any more.
BoundaryGone(r) ==
  /\ phase[r] = "starting"
  /\ driver[r] = NoWrapup
  /\ Free(proc[r])
  /\ inProgress' = FALSE
  /\ phase' = [phase EXCEPT ![r] = "closing"]
  /\ UNCHANGED <<comps, lease, marker, active, locals, wrapVars, counters>>

\* shouldSkipHomeProjectMemory: the agent returns before it takes the flag over,
\* so nobody clears a flag the start has set; only the finalizer follows.  (The
\* permission is a module variable that every plugin instance of the process
\* overwrites: a run of such a process may be skipped or not.)
SkipHome(r) ==
  /\ proc[r] \in HomeProcs
  /\ Free(proc[r])
  /\ Moves(r, "starting", "closing")
  /\ skipped' = (skipped \/ inProgress)
  /\ UNCHANGED <<dbVars, active, locals, wrapVars, lapses, faults, rebuilds>>

\* The ordinals are ready: flag the session, read the stored compartments and
\* derive the chunk's first message and the first free sequence number.
ReadHistory(r) ==
  /\ phase[r] = "starting"
  /\ Free(proc[r])
  /\ phase' = [phase EXCEPT ![r] = "planned"]
  /\ inProgress' = TRUE
  /\ offset' = [offset EXCEPT ![r] = EndOf(comps) + 1]
  /\ base' = [base EXCEPT ![r] = Len(comps)]
  /\ UNCHANGED <<comps, lease, marker, active, proc, driver, out, seen, wrapVars, counters>>

\* One of the returns before the first await: stale snapshot, nothing before
\* the protected tail, drain budget spent, prompt too large, invalid rows.
NothingToDo(r) ==
  /\ Moves(r, "planned", "settling")
  /\ UNCHANGED <<dbVars, active, locals, wrapVars, counters>>

\* Mutant: the noise is appended without re-reading the last compartment.
AppendNoise_unchecked(r) ==
  /\ Moves(r, "planned", "settling")
  /\ \E e \in offset[r]..MaxMsg :
       comps' = Append(comps, [start |-> offset[r], end |-> e])
  /\ UNCHANGED <<lease, marker, inProgress, active, locals, wrapVars, counters>>

\* persistFilteredNoise: the chunk holds only excluded rows, so one empty
\* compartment is appended in a transaction that checks contiguity, not the
\* lease.
AppendNoise(r) ==
  /\ Moves(r, "planned", "settling")
  /\ \E e \in offset[r]..MaxMsg :
       comps' = IF EndOf(comps) + 1 = offset[r]
                THEN Append(comps, [start |-> offset[r], end |-> e])
                ELSE comps
  /\ UNCHANGED <<lease, marker, inProgress, active, locals, wrapVars, counters>>

\* The prompt goes to the model; the process is free meanwhile.
AskModel(r) ==
  /\ offset[r] <= MaxMsg
  /\ Moves(r, "planned", "model")
  /\ UNCHANGED <<dbVars, active, locals, wrapVars, counters>>

\* A validated answer that advances, after discard-last and served-row snap.
ModelAnswers(r) ==
  /\ Free(proc[r])
  /\ Moves(r, "model", "ready")
  /\ \E s \in Extensions(offset[r]) : out' = [out EXCEPT ![r] = s]
  /\ UNCHANGED <<dbVars, active, proc, driver, offset, base, seen, wrapVars, counters>>

\* No valid answer, no progress, or (once ready) a boundary message that
\* disappeared: the run ends without a publication.
Discard(r) ==
  /\ phase[r] \in {"model", "ready"}
  /\ Free(proc[r])
  /\ phase' = [phase EXCEPT ![r] = "settling"]
  /\ UNCHANGED <<dbVars, active, locals, wrapVars, counters>>

\* Mutant: the transaction does not test the holder.
Publish_untested(r) ==
  /\ phase[r] = "ready"
  /\ Free(proc[r])
  /\ IF Len(comps) <= base[r]
     THEN /\ comps' = comps \o out[r]
          /\ phase' = [phase EXCEPT ![r] = "published"]
     ELSE /\ phase' = [phase EXCEPT ![r] = "settling"]
          /\ UNCHANGED comps
  /\ UNCHANGED <<lease, marker, inProgress, active, locals, wrapVars, counters>>

\* The publish transaction: it starts with the holder test, and the insert
\* fails on UNIQUE(session_id, sequence) when a row took a sequence number.
Publish(r) ==
  /\ phase[r] = "ready"
  /\ Free(proc[r])
  /\ IF lease = r /\ Len(comps) <= base[r]
     THEN /\ comps' = comps \o out[r]
          /\ phase' = [phase EXCEPT ![r] = "published"]
     ELSE /\ phase' = [phase EXCEPT ![r] = "settling"]
          /\ UNCHANGED comps
  /\ UNCHANGED <<lease, marker, inProgress, active, locals, wrapVars, counters>>

\* The flag is cleared, after a publication or in the finally block.
Settle(r) ==
  /\ phase[r] \in {"published", "settling"}
  /\ phase' = [phase EXCEPT ![r] = "closing"]
  /\ inProgress' = FALSE
  /\ UNCHANGED <<comps, lease, marker, active, locals, wrapVars, counters>>

\* Mutant: a refused release skips the rest of the finalizer.
Close_interrupted(r) ==
  /\ phase[r] = "closing"
  /\ \/ /\ lease' = IF lease = r THEN NoRun ELSE lease
        /\ active' = [active EXCEPT ![proc[r]] = NoRun]
        /\ UNCHANGED faults
     \/ /\ faults < MaxFaults
        /\ faults' = faults + 1
        /\ UNCHANGED <<lease, active>>
  /\ phase' = [phase EXCEPT ![r] = IF lease' = r THEN "gone" ELSE "unused"]
  /\ Forget(r)
  /\ UNCHANGED <<comps, marker, inProgress, wrapVars, lapses, rebuilds, skipped>>

\* The finalizer: release the lease (best effort) and drop the registration.
Close(r) ==
  /\ phase[r] = "closing"
  /\ \/ /\ lease' = IF lease = r THEN NoRun ELSE lease
        /\ UNCHANGED faults
     \/ /\ faults < MaxFaults
        /\ faults' = faults + 1
        /\ UNCHANGED lease
  /\ active' = [active EXCEPT ![proc[r]] = IF @ = r THEN NoRun ELSE @]
  /\ phase' = [phase EXCEPT ![r] = IF lease' = r THEN "gone" ELSE "unused"]
  /\ Forget(r)
  /\ UNCHANGED <<comps, marker, inProgress, wrapVars, lapses, rebuilds, skipped>>

-----------------------------------------------------------------------------
(* /ctx-wrapup (runStartedWrapup).                                         *)

\* acquireWrapupInProgress; refused while another marker is live.
StartWrapup(w, p) ==
  /\ wphase[w] = "idle"
  /\ Free(p)
  /\ marker = NoWrapup
  /\ EndOf(comps) < Target
  /\ marker' = w
  /\ wphase' = [wphase EXCEPT ![w] = "joining"]
  /\ wproc' = [wproc EXCEPT ![w] = p]
  /\ UNCHANGED <<comps, lease, inProgress, runVars, before, counters>>

\* waitForExistingIncrementalRun: wait for the historian run registered in this
\* process; WrapupGivesUp is the other way out.
Joinable(w) == active[wproc[w]] = NoRun

Join(w) ==
  /\ wphase[w] = "joining"
  /\ Free(wproc[w])
  /\ Joinable(w)
  /\ wphase' = [wphase EXCEPT ![w] = "looping"]
  /\ UNCHANGED <<dbVars, runVars, wproc, before, counters>>

\* The head of the drain loop: renew the marker, stop when it is lost or the
\* target is reached, else start an iteration.
NextIteration(w) ==
  /\ wphase[w] = "looping"
  /\ Free(wproc[w])
  /\ IF marker # w \/ EndOf(comps) >= Target
     THEN /\ wphase' = [wphase EXCEPT ![w] = "ending"]
          /\ UNCHANGED before
     ELSE /\ wphase' = [wphase EXCEPT ![w] = "acquiring"]
          /\ before' = [before EXCEPT ![w] = EndOf(comps)]
  /\ UNCHANGED <<dbVars, runVars, wproc, counters>>

\* The lease is free: take it, enter the agent and register the run, without
\* another look at the marker.
WrapupTakesLease(w, r) ==
  /\ wphase[w] = "acquiring"
  /\ Free(wproc[w])
  /\ Joinable(w)
  /\ lease = NoRun
  /\ phase[r] = "unused"
  /\ lease' = r
  /\ phase' = [phase EXCEPT ![r] = "starting"]
  /\ proc' = [proc EXCEPT ![r] = wproc[w]]
  /\ driver' = [driver EXCEPT ![r] = w]
  /\ seen' = [seen EXCEPT ![r] = marker]
  /\ active' = [active EXCEPT ![wproc[w]] = r]
  /\ wphase' = [wphase EXCEPT ![w] = "running"]
  /\ UNCHANGED <<comps, marker, inProgress, offset, base, out, wproc, before, counters>>

\* The wait is given up: a rebuild runs in this process, the marker was lost
\* while the lease was taken, or the wait budget is spent.
WrapupGivesUp(w) ==
  /\ \/ wphase[w] = "acquiring"
     \/ wphase[w] = "joining" /\ ~Joinable(w)
  /\ Free(wproc[w])
  /\ wphase' = [wphase EXCEPT ![w] = "ending"]
  /\ UNCHANGED <<dbVars, runVars, wproc, before, counters>>

\* Mutant: the loop goes on although the history did not move.
IterationDone_unchecked(w) ==
  /\ wphase[w] = "running"
  /\ \A r \in Runs : driver[r] # w
  /\ Free(wproc[w])
  /\ wphase' = [wphase EXCEPT ![w] = "looping"]
  /\ before' = [before EXCEPT ![w] = 0]
  /\ UNCHANGED <<dbVars, runVars, wproc, counters>>

\* The iteration's run is over: continue only if the history moved.
IterationDone(w) ==
  /\ wphase[w] = "running"
  /\ \A r \in Runs : driver[r] # w
  /\ Free(wproc[w])
  /\ wphase' = [wphase EXCEPT ![w] = IF EndOf(comps) > before[w]
                                     THEN "looping" ELSE "ending"]
  /\ before' = [before EXCEPT ![w] = 0]
  /\ UNCHANGED <<dbVars, runVars, wproc, counters>>

\* releaseWrapupInProgress, by holder.
EndWrapup(w) ==
  /\ wphase[w] = "ending"
  /\ Free(wproc[w])
  /\ marker' = IF marker = w THEN NoWrapup ELSE marker
  /\ wphase' = [wphase EXCEPT ![w] = "over"]
  /\ before' = [before EXCEPT ![w] = 0]
  /\ UNCHANGED <<comps, lease, inProgress, runVars, wproc, counters>>

-----------------------------------------------------------------------------
(* The environment.                                                        *)

\* The lease row of r expires, or is reclaimed because its process is dead.
\* A live run loses its row only when it was suspended past the TTL.
LeaseLapses(r) ==
  /\ lease = r
  /\ lease' = NoRun
  /\ IF phase[r] = "gone"
     THEN /\ phase' = [phase EXCEPT ![r] = "unused"]
          /\ UNCHANGED lapses
     ELSE /\ lapses < MaxLapses
          /\ lapses' = lapses + 1
          /\ UNCHANGED phase
  /\ UNCHANGED <<comps, marker, inProgress, active, locals, wrapVars, faults, rebuilds, skipped>>

\* Mutant: the marker of a dead wrapup has no TTL.
MarkerLapses_alive(w) ==
  /\ marker = w
  /\ wphase[w] # "over"
  /\ lapses < MaxLapses
  /\ lapses' = lapses + 1
  /\ marker' = NoWrapup
  /\ UNCHANGED <<comps, lease, inProgress, runVars, wrapVars, faults, rebuilds, skipped>>

\* The same for the marker.
MarkerLapses(w) ==
  /\ marker = w
  /\ marker' = NoWrapup
  /\ IF wphase[w] = "over"
     THEN UNCHANGED lapses
     ELSE /\ lapses < MaxLapses
          /\ lapses' = lapses + 1
  /\ UNCHANGED <<comps, lease, inProgress, runVars, wrapVars, faults, rebuilds, skipped>>

\* Process p dies and is restarted: its memory is gone, the database stays.
Crash(p) ==
  /\ faults < MaxFaults
  /\ faults' = faults + 1
  /\ active' = [active EXCEPT ![p] = NoRun]
  /\ phase' = [r \in Runs |-> IF proc[r] # p THEN phase[r]
                              ELSE IF lease = r THEN "gone" ELSE "unused"]
  /\ proc' = [r \in Runs |-> IF proc[r] = p THEN SomeProc ELSE proc[r]]
  /\ driver' = [r \in Runs |-> IF proc[r] = p THEN NoWrapup ELSE driver[r]]
  /\ offset' = [r \in Runs |-> IF proc[r] = p THEN 0 ELSE offset[r]]
  /\ base' = [r \in Runs |-> IF proc[r] = p THEN 0 ELSE base[r]]
  /\ out' = [r \in Runs |-> IF proc[r] = p THEN <<>> ELSE out[r]]
  /\ seen' = [r \in Runs |-> IF proc[r] = p THEN NoWrapup ELSE seen[r]]
  /\ wphase' = [w \in Wrapups |-> IF wproc[w] = p /\ wphase[w] # "idle"
                                  THEN "over" ELSE wphase[w]]
  /\ before' = [w \in Wrapups |-> IF wproc[w] = p THEN 0 ELSE before[w]]
  /\ UNCHANGED <<dbVars, wproc, lapses, rebuilds, skipped>>

\* A recomp in some process takes the lease, replaces the stored history,
\* clears the flag and releases the lease.
RecompReplaces ==
  /\ rebuilds < MaxRebuilds
  /\ lease = NoRun
  /\ comps' \in Histories
  /\ inProgress' = FALSE
  /\ rebuilds' = rebuilds + 1
  /\ UNCHANGED <<lease, marker, runVars, wrapVars, lapses, faults, skipped>>

RunStep(r) ==
  \/ TakeLease(r)
  \/ CheckMarkerAgain(r)
  \/ ReleaseIntent(r)
  \/ BoundaryGone(r)
  \/ SkipHome(r)
  \/ ReadHistory(r)
  \/ NothingToDo(r)
  \/ AppendNoise(r)
  \/ AskModel(r)
  \/ ModelAnswers(r)
  \/ Discard(r)
  \/ Publish(r)
  \/ Settle(r)
  \/ Close(r)

WrapupStep(w) ==
  \/ Join(w)
  \/ NextIteration(w)
  \/ \E r \in Runs : WrapupTakesLease(w, r)
  \/ WrapupGivesUp(w)
  \/ IterationDone(w)
  \/ EndWrapup(w)

RunsNext ==
  \/ \E p \in Procs, r \in Runs : StartAgent(p, r)
  \/ \E p \in Procs : TriggerBesideRun(p)
  \/ \E r \in Runs : RunStep(r)
  \/ \E r \in Runs : StartThrows(r)
  \/ \E w \in Wrapups, p \in Procs : StartWrapup(w, p)
  \/ \E w \in Wrapups : WrapupStep(w)
  \/ \E r \in Runs : LeaseLapses(r)
  \/ \E w \in Wrapups : MarkerLapses(w)
  \/ \E p \in Procs : Crash(p)
  \/ RecompReplaces

RunsSpec == RunsInit /\ [][RunsNext]_vars

\* The event loop serves every pending callback, also one that other handlers
\* of its process keep overtaking (hence SF); model calls and waits end (both
\* have timeouts); the row of a dead owner ends with its TTL.
Scheduling ==
  /\ \A r \in Runs : SF_vars(RunStep(r))
  /\ \A w \in Wrapups : SF_vars(WrapupStep(w))
  /\ \A r \in Runs : WF_vars(phase[r] = "gone" /\ LeaseLapses(r))
  /\ \A w \in Wrapups : WF_vars(wphase[w] = "over" /\ MarkerLapses(w))

\* The session stays in use, and not every attempt fails: passes go on, and
\* each stage of a run that is reached again and again succeeds at last.
Productive ==
  /\ SF_vars(\E p \in Procs, r \in Runs : StartAgent(p, r))
  /\ SF_vars(\E r \in Runs : ReadHistory(r))
  /\ SF_vars(\E r \in Runs : AskModel(r))
  /\ SF_vars(\E r \in Runs : ModelAnswers(r))
  /\ SF_vars(\E r \in Runs : Publish(r))

ScheduledSpec == RunsSpec /\ Scheduling

-----------------------------------------------------------------------------
\* The stored history always covers 1..n without a gap or an overlap: whatever
\* a run computed from rows it read minutes ago, and however often its lease
\* was lost meanwhile, its publication never tears the sequence.
HistoryIsContiguous == ContiguousFrom(comps, 1)

\* A process never has two runs between start and finish, and activeRuns names
\* the one it has: a timed-out waiter or a second command cannot start another.
Registered == {"starting", "planned", "model", "ready", "published", "settling", "closing"}
OneRunPerProcess ==
  \A r \in Runs : phase[r] \in Registered => active[proc[r]] = r

\* A historian run that won the lease while a wrapup marker was live does not
\* go on under that marker: the race between the first look at the marker and
\* the lease is closed by the second look.
WrapupIsNotOvertaken ==
  \A r \in Runs :
    (phase[r] \in Registered /\ driver[r] = NoWrapup /\ seen[r] # NoWrapup)
      => marker # seen[r]

\* A set flag has an owner that will clear it, so no start intent is left behind
\* by a lost race.  Only a death, a refused write, or a run that was skipped in a
\* home project leaves a flag without one.
StartIntentIsOwned ==
  (inProgress /\ faults = 0 /\ ~skipped)
    => \E r \in Runs : phase[r] \notin {"unused", "closing", "gone"}

\* The runs implement the history log: every step extends it at its end by a
\* contiguous piece, rebuilds it, or leaves it alone.
Log == INSTANCE HistoryLog WITH log <- comps
LogProperty == Log!LogSpec

\* Where passes go on and not every attempt fails, the history reaches the last
\* message again and again: no dead process, stale flag or marker stops the
\* historian for good.
HistoryAdvances == Productive => []<>(EndOf(comps) = MaxMsg)

\* Every registration is dropped again, so that later passes of the process can
\* start a run: also when the release of the lease fails.
RegistrationsEnd ==
  \A p \in Procs : active[p] # NoRun ~> active[p] = NoRun

\* A started wrapup command ends, whatever the other runs do.
WrapupEnds ==
  \A w \in Wrapups : wphase[w] # "idle" ~> wphase[w] = "over"
=============================================================================
