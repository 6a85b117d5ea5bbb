---------------------------- MODULE RecompStaging ----------------------------
(***************************************************************************)
(* /ctx-recomp: a run that holds the compartment lease rebuilds the whole  *)
(* history, or the compartments a range touches, pass by pass.  What the   *)
(* passes produced is kept in staging rows, so that a later run resumes    *)
(* after a failure or a crash; at the end the staged rows replace the      *)
(* stored history in one transaction.  A marker in session_meta (range)    *)
(* tells a staged partial rebuild from a staged full one.                  *)
(*                                                                         *)
(* The lease is the abstract lock of LeaseLock.  The historian runs of     *)
(* HistorianRuns appear as HistorianPublishes and NoiseAppended.  A live   *)
(* wrapup marker declines a recomp before it changes anything and is left  *)
(* out.                                                                    *)
(***************************************************************************)
EXTENDS CompartmentRanges

CONSTANTS Procs,       \* processes that have the session open
          Runs, NoRun, \* run slots: a slot is reused after its lease row is gone
          Ranges,      \* the ranges of /ctx-recomp <start>-<end>, as <<start, end>>
          NoRange,
          MaxLapses,   \* bound: leases of live runs that expire
          MaxFaults,   \* bound: crashes and writes SQLite refuses
          MaxRebuilds  \* bound: promotions

ASSUME StagingAssumption ==
  /\ MaxMsg > 0
  /\ Procs # {}
  /\ NoRun \notin Runs
  /\ Ranges \subseteq {<<a, b>> : a \in 1..MaxMsg, b \in 1..MaxMsg}
  /\ NoRange \notin {<<a, b>> : a \in 1..MaxMsg, b \in 1..MaxMsg}
  /\ {MaxLapses, MaxFaults, MaxRebuilds} \subseteq Nat

VARIABLES
  comps,       \* compartments of the session
  staging,     \* recomp_compartments, by sequence
  stagedPass,  \* some staged row has pass_number > 0
  range,       \* recomp_partial_range_start/end
  lease,       \* run that holds the unexpired lease row, or NoRun
  inProgress,  \* session_meta.compartmentInProgress
  active,      \* active[p]: the run registered in p's activeRuns map
  phase,       \* phase[r]: where run r stands
  proc,        \* proc[r]: its process
  plan,        \* plan[r]: what it rebuilds and what it keeps (NoPlan: not known yet)
  cand,        \* cand[r]: candidateCompartments
  passed,      \* passed[r]: passCount > 0
  lapses, faults, rebuilds

dbVars   == <<comps, staging, stagedPass, range, lease, inProgress>>
stage    == <<staging, stagedPass>>
locals   == <<proc, plan, cand, passed>>
counters == <<lapses, faults, rebuilds>>
vars     == <<dbVars, active, phase, locals, counters>>

Phases == {"unused", "begun", "snapped", "seeding", "looping", "promoting", "promoted",
           "refusedFull", "ending", "releasing", "gone"}

\* snapStart..snapEnd, the number of compartments before it and those after it.
Plans == [kind : {"full", "partial"}, start : 1..MaxMsg, end : 1..MaxMsg,
          prior : Nat, tail : Seq(Compartments)]
FullPlan == [kind |-> "full", start |-> 1, end |-> MaxMsg, prior |-> 0, tail |-> <<>>]
NoPlan == [kind |-> "none"]

StagingTypeOK ==
  /\ comps \in Seq(Compartments)
  /\ staging \in Seq(Compartments)
  /\ stagedPass \in BOOLEAN
  /\ range = NoRange \/ range \in (1..MaxMsg) \X (1..MaxMsg)
  /\ lease \in Runs \cup {NoRun}
  /\ inProgress \in BOOLEAN
  /\ active \in [Procs -> Runs \cup {NoRun}]
  /\ phase \in [Runs -> Phases]
  /\ proc \in [Runs -> Procs]
  /\ plan \in [Runs -> Plans \cup {NoPlan}]
  /\ cand \in [Runs -> Seq(Compartments)]
  /\ passed \in [Runs -> BOOLEAN]
  /\ {lapses, faults, rebuilds} \subseteq Nat

SomeProc == CHOOSE p \in Procs : TRUE

StagingInit ==
  /\ comps = <<>>
  /\ staging = <<>> /\ stagedPass = FALSE /\ range = NoRange
  /\ lease = NoRun
  /\ inProgress = FALSE
  /\ active = [p \in Procs |-> NoRun]
  /\ phase = [r \in Runs |-> "unused"]
  /\ proc = [r \in Runs |-> SomeProc]
  /\ plan = [r \in Runs |-> NoPlan]
  /\ cand = [r \in Runs |-> <<>>]
  /\ passed = [r \in Runs |-> FALSE]
  /\ lapses = 0 /\ faults = 0 /\ rebuilds = 0

-----------------------------------------------------------------------------
\* validateStoredCompartments.
Valid(h) == ContiguousFrom(h, 1)

\* saveRecompStagingPass: INSERT OR REPLACE by sequence, so rows beyond the new
\* ones stay.
Save(r, rows, pass) ==
  /\ staging' = rows \o SubSeq(staging, Len(rows) + 1, Len(staging))
  /\ stagedPass' = \/ pass /\ rows # <<>>
                   \/ stagedPass /\ Len(staging) > Len(rows)

EmptyStaging == staging' = <<>> /\ stagedPass' = FALSE

\* snapRangeToCompartments, for a range that touches a compartment of h.
Touches(h, i, rg) == h[i].end >= rg[1] /\ h[i].start <= rg[2]
Snappable(h, rg) == rg[1] <= rg[2] /\ \E i \in 1..Len(h) : Touches(h, i, rg)
Snap(h, rg) ==
  LET first == CHOOSE i \in 1..Len(h) :
                 h[i].end >= rg[1] /\ \A j \in 1..i - 1 : h[j].end < rg[1]
      last  == CHOOSE i \in 1..Len(h) :
                 h[i].start <= rg[2] /\ \A j \in i + 1..Len(h) : h[j].start > rg[2]
  IN  [kind |-> "partial", start |-> h[first].start, end |-> h[last].end,
       prior |-> first - 1, tail |-> SubSeq(h, last + 1, Len(h))]

\* offset: the message the next pass starts from.
NextMsg(r) == IF EndOf(cand[r]) >= plan[r].start THEN EndOf(cand[r]) + 1 ELSE plan[r].start

GoTo(r, to) == phase' = [phase EXCEPT ![r] = to]

\* The locals of a run vanish with it.
Forget(r) ==
  /\ proc' = [proc EXCEPT ![r] = SomeProc]
  /\ plan' = [plan EXCEPT ![r] = NoPlan]
  /\ cand' = [cand EXCEPT ![r] = <<>>]
  /\ passed' = [passed EXCEPT ![r] = FALSE]

-----------------------------------------------------------------------------
(* executeContextRecompWithResult, up to the runner's first await.         *)

\* No run in this process, and the lease is free: take it and register.
Begin(p, r) ==
  /\ active[p] = NoRun
  /\ lease = NoRun
  /\ phase[r] = "unused"
  /\ rebuilds < MaxRebuilds
  /\ lease' = r
  /\ active' = [active EXCEPT ![p] = r]
  /\ proc' = [proc EXCEPT ![r] = p]
  /\ UNCHANGED <<comps, staging, stagedPass, range, counters>>

\* A full recomp awaits the session's ordinals first.
StartFull(p, r) ==
  /\ Begin(p, r)
  /\ GoTo(r, "begun")
  /\ plan' = [plan EXCEPT ![r] = FullPlan]
  /\ UNCHANGED <<inProgress, cand, passed>>

\* A partial recomp snaps its range to the stored compartments and looks at the
\* staging of an earlier run: resume it, refuse, or start afresh.
StartPartial(p, r) ==
  \E rg \in Ranges :
    /\ Begin(p, r)
    /\ inProgress' = TRUE
    /\ IF ~Snappable(comps, rg)
       THEN GoTo(r, "ending") /\ UNCHANGED <<plan, cand, passed>>
       ELSE LET s == Snap(comps, rg) IN
            /\ plan' = [plan EXCEPT ![r] = s]
            /\ \/ /\ staging # <<>> /\ range \notin {NoRange, <<s.start, s.end>>}
                  /\ GoTo(r, "ending")
                  /\ UNCHANGED <<cand, passed>>
               \/ /\ staging # <<>> /\ range = NoRange
                  /\ GoTo(r, "refusedFull")
                  /\ UNCHANGED <<cand, passed>>
               \/ /\ staging # <<>> /\ range = <<s.start, s.end>>
                  /\ cand' = [cand EXCEPT ![r] = staging]
                  /\ passed' = [passed EXCEPT ![r] = stagedPass]
                  /\ GoTo(r, "looping")
               \/ /\ staging = <<>>
                  /\ cand' = [cand EXCEPT ![r] = SubSeq(comps, 1, s.prior)]
                  /\ GoTo(r, "snapped")
                  /\ UNCHANGED passed

-----------------------------------------------------------------------------
(* executeContextRecompInternal and executePartialRecompInternal.          *)

\* The ordinals are still warming: the full recomp is deferred.
Defer(r) ==
  /\ phase[r] = "begun"
  /\ GoTo(r, "releasing")
  /\ UNCHANGED <<dbVars, active, locals, counters>>

\* The full recomp resumes whatever is staged, also a partial rebuild.
LoadStaging(r) ==
  /\ phase[r] = "begun"
  /\ inProgress' = TRUE
  /\ cand' = [cand EXCEPT ![r] = staging]
  /\ passed' = [passed EXCEPT ![r] = stagedPass]
  /\ GoTo(r, "looping")
  /\ UNCHANGED <<comps, range, lease, stage, active, proc, plan, counters>>

\* A fresh partial recomp stages the compartments before its range (pass 0) ...
SaveSeed(r) ==
  /\ phase[r] = "snapped"
  /\ Save(r, cand[r], FALSE)
  /\ GoTo(r, "seeding")
  /\ UNCHANGED <<comps, range, lease, inProgress, active, locals, counters>>

\* ... and then records the range.
SetRange(r) ==
  /\ phase[r] = "seeding"
  /\ range' = <<plan[r].start, plan[r].end>>
  /\ GoTo(r, "looping")
  /\ UNCHANGED <<comps, lease, inProgress, stage, active, locals, counters>>

\* A validated historian pass: append its compartments and stage everything.
PassAnswers(r) ==
  /\ phase[r] = "looping"
  /\ NextMsg(r) <= plan[r].end
  /\ \E s \in Extensions(NextMsg(r)) :
       /\ EndOf(s) <= plan[r].end
       /\ cand' = [cand EXCEPT ![r] = @ \o s]
       /\ Save(r, cand[r] \o s, TRUE)
  /\ passed' = [passed EXCEPT ![r] = TRUE]
  /\ UNCHANGED <<comps, range, lease, inProgress, active, phase, proc, plan, counters>>

\* Mutant: the resumed rows are trusted.
FinishFull_trusting(r) ==
  /\ phase[r] = "looping" /\ plan[r].kind = "full"
  /\ NextMsg(r) > plan[r].end \/ (passed[r] /\ cand[r] # <<>>)
  /\ Save(r, cand[r], passed[r])
  /\ GoTo(r, "promoting")
  /\ UNCHANGED <<comps, range, lease, inProgress, active, locals, counters>>

\* The passes of a full recomp are over: the protected tail is reached, or an
\* earlier pass failed or ran out of narrative and what there is gets promoted.
FinishFull(r) ==
  /\ phase[r] = "looping" /\ plan[r].kind = "full"
  /\ NextMsg(r) > plan[r].end \/ (passed[r] /\ cand[r] # <<>>)
  /\ IF Valid(cand[r])
     THEN Save(r, cand[r], passed[r]) /\ GoTo(r, "promoting") /\ UNCHANGED range
     ELSE /\ IF NextMsg(r) > plan[r].end
             THEN EmptyStaging /\ range' = NoRange
             ELSE UNCHANGED <<stage, range>>
          /\ GoTo(r, "ending")
  /\ UNCHANGED <<comps, lease, inProgress, active, locals, counters>>

\* A failed pass ends a partial recomp, and a full one that has nothing yet.
PassFails(r) ==
  /\ phase[r] = "looping"
  /\ NextMsg(r) <= plan[r].end
  /\ plan[r].kind = "partial" \/ ~passed[r] \/ cand[r] = <<>>
  /\ GoTo(r, "ending")
  /\ UNCHANGED <<dbVars, active, locals, counters>>

\* The rebuilt part covers the snapped range exactly.
CoversRange(r) ==
  LET built == SubSeq(cand[r], plan[r].prior + 1, Len(cand[r]))
  IN  built # <<>> /\ ContiguousFrom(built, plan[r].start) /\ EndOf(built) = plan[r].end

\* promoteFinal: check the rebuilt part, add the compartments behind it, stage.
FinishPartial(r) ==
  /\ phase[r] = "looping" /\ plan[r].kind = "partial"
  /\ NextMsg(r) > plan[r].end
  /\ LET merged == cand[r] \o plan[r].tail IN
     IF CoversRange(r) /\ Valid(merged)
     THEN Save(r, merged, TRUE) /\ GoTo(r, "promoting")
     ELSE UNCHANGED stage /\ GoTo(r, "ending")
  /\ UNCHANGED <<comps, range, lease, inProgress, active, locals, counters>>

\* Mutant: the promotion leaves the staged rows.
Promote_keepsStaging(r) ==
  /\ phase[r] = "promoting"
  /\ IF lease = r /\ staging # <<>>
     THEN comps' = staging /\ rebuilds' = rebuilds + 1
     ELSE UNCHANGED <<comps, rebuilds>>
  /\ GoTo(r, "ending")
  /\ UNCHANGED <<range, lease, inProgress, stage, active, locals, lapses, faults>>

\* promoteRecompStagingWithM0Mutation: under the lease the staged rows, read
\* again, replace the stored ones.
Promote(r) ==
  /\ phase[r] = "promoting"
  /\ IF lease = r /\ staging # <<>>
     THEN /\ comps' = staging
          /\ EmptyStaging
          /\ rebuilds' = rebuilds + 1
          /\ GoTo(r, IF plan[r].kind = "partial" THEN "promoted" ELSE "ending")
     ELSE /\ GoTo(r, "ending")
          /\ UNCHANGED <<comps, stage, rebuilds>>
  /\ UNCHANGED <<range, lease, inProgress, active, locals, lapses, faults>>

\* Mutant: the marker is zeroed, and zeros are read as a range.
ClearRange_zeros(r) ==
  /\ phase[r] = "promoted"
  /\ range' = <<0, 0>>
  /\ GoTo(r, "ending")
  /\ UNCHANGED <<comps, lease, inProgress, stage, active, locals, counters>>

\* A partial recomp clears its range marker after the promotion.
ClearRange(r) ==
  /\ phase[r] = "promoted"
  /\ range' = NoRange
  /\ GoTo(r, "ending")
  /\ UNCHANGED <<comps, lease, inProgress, stage, active, locals, counters>>

\* SQLite refuses a staging or range write: the run fails, its staging stays.
WriteFails(r) ==
  /\ faults < MaxFaults
  /\ faults' = faults + 1
  /\ phase[r] \in {"snapped", "seeding", "looping", "promoting", "promoted"}
  /\ GoTo(r, "ending")
  /\ UNCHANGED <<dbVars, active, locals, lapses, rebuilds>>

\* Mutant: the finally block clears whatever is staged.
End_clears(r) ==
  /\ phase[r] \in {"ending", "refusedFull"}
  /\ inProgress' = FALSE
  /\ EmptyStaging
  /\ GoTo(r, "releasing")
  /\ UNCHANGED <<comps, range, lease, active, locals, counters>>

\* The finally block: clear the flag; a partial recomp also clears staging that
\* has no range marker.
End(r) ==
  /\ phase[r] \in {"ending", "refusedFull"}
  /\ inProgress' = FALSE
  /\ IF plan[r].kind # "full" /\ staging # <<>> /\ range = NoRange
     THEN EmptyStaging
     ELSE UNCHANGED stage
  /\ GoTo(r, "releasing")
  /\ UNCHANGED <<comps, range, lease, active, locals, counters>>

\* The finally block of executeContextRecompWithResult: the release is not the
\* best-effort one, and when it throws the registration stays.
Release(r) ==
  /\ phase[r] = "releasing"
  /\ \/ /\ lease' = IF lease = r THEN NoRun ELSE lease
        /\ active' = [active EXCEPT ![proc[r]] = IF @ = r THEN NoRun ELSE @]
        /\ UNCHANGED faults
     \/ /\ faults < MaxFaults
        /\ faults' = faults + 1
        /\ UNCHANGED <<lease, active>>
  /\ phase' = [phase EXCEPT ![r] = IF lease' = r THEN "gone" ELSE "unused"]
  /\ Forget(r)
  /\ UNCHANGED <<comps, range, inProgress, stage, lapses, rebuilds>>

-----------------------------------------------------------------------------
(* The environment.                                                        *)

\* A historian run of some process publishes; it refuses rows that do not
\* validate, and its finalizer clears the flag.
HistorianPublishes ==
  /\ lease = NoRun
  /\ Valid(comps)
  /\ EndOf(comps) < MaxMsg
  /\ \E s \in Extensions(EndOf(comps) + 1) : comps' = comps \o s
  /\ inProgress' = FALSE
  /\ UNCHANGED <<range, lease, stage, active, phase, locals, counters>>

\* persistFilteredNoise: one empty compartment over messages that the chunk filters
\* exclude.  The transaction re-reads the last compartment and nothing else: a
\* historian run that lost its lease appends beside the recomp that took it over.
NoiseAppended ==
  /\ \E end \in EndOf(comps) + 1..MaxMsg :
       comps' = comps \o <<[start |-> EndOf(comps) + 1, end |-> end]>>
  /\ inProgress' = FALSE
  /\ UNCHANGED <<range, lease, stage, active, phase, locals, counters>>

\* The lease row of r expires, or is reclaimed because its process is dead.
LeaseLapses(r) ==
  /\ lease = r
  /\ lease' = NoRun
  /\ IF phase[r] = "gone"
     THEN GoTo(r, "unused") /\ UNCHANGED lapses
     ELSE /\ lapses < MaxLapses
          /\ lapses' = lapses + 1
          /\ UNCHANGED phase
  /\ UNCHANGED <<comps, range, inProgress, stage, active, locals,
                 faults, rebuilds>>

\* Process p dies and is restarted: its memory is gone, the database stays.
Crash(p) ==
  /\ faults < MaxFaults
  /\ faults' = faults + 1
  /\ active' = [active EXCEPT ![p] = NoRun]
  /\ phase' = [r \in Runs |-> IF proc[r] # p THEN phase[r]
                              ELSE IF lease = r THEN "gone" ELSE "unused"]
  /\ proc' = [r \in Runs |-> IF proc[r] = p THEN SomeProc ELSE proc[r]]
  /\ plan' = [r \in Runs |-> IF proc[r] = p THEN NoPlan ELSE plan[r]]
  /\ cand' = [r \in Runs |-> IF proc[r] = p THEN <<>> ELSE cand[r]]
  /\ passed' = [r \in Runs |-> IF proc[r] = p THEN FALSE ELSE passed[r]]
  /\ UNCHANGED <<dbVars, lapses, rebuilds>>

RecompStep(r) ==
  \/ Defer(r)
  \/ LoadStaging(r)
  \/ SaveSeed(r)
  \/ SetRange(r)
  \/ PassAnswers(r)
  \/ FinishFull(r)
  \/ PassFails(r)
  \/ FinishPartial(r)
  \/ Promote(r)
  \/ ClearRange(r)
  \/ End(r)
  \/ Release(r)

StagingNext ==
  \/ \E p \in Procs, r \in Runs : StartFull(p, r)
  \/ \E p \in Procs, r \in Runs : StartPartial(p, r)
  \/ \E r \in Runs : RecompStep(r)
  \/ \E r \in Runs : WriteFails(r)
  \/ HistorianPublishes
  \/ NoiseAppended
  \/ \E r \in Runs : LeaseLapses(r)
  \/ \E p \in Procs : Crash(p)

StagingSpec == StagingInit /\ [][StagingNext]_vars

\* Runs proceed and finish; the session stays in use: recomps are started again
\* and again, and passes that are asked again and again answer at last.
Scheduling ==
  /\ \A r \in Runs : WF_vars(RecompStep(r))
  /\ \A r \in Runs : WF_vars(phase[r] = "gone" /\ LeaseLapses(r))

RepeatedRequests ==
  /\ SF_vars(\E p \in Procs, r \in Runs : StartFull(p, r))
  /\ SF_vars(\E r \in Runs : LoadStaging(r))
  /\ SF_vars(\E r \in Runs : PassAnswers(r))

RepeatedSpec == StagingSpec /\ Scheduling /\ RepeatedRequests

-----------------------------------------------------------------------------
\* Recomps implement the history log: whatever was resumed, merged or left
\* behind by an earlier run, a promotion installs a contiguous history, and
\* nothing else changes the history but an extension by the historian.
Log == INSTANCE HistoryLog WITH log <- comps
LogProperty == Log!LogSpec

\* What historian passes staged under a range marker leaves staging only by being
\* promoted, or because no run could ever promote it: no other run, full or partial,
\* no refusal, failed pass, finally block or crash discards it.
MarkedWorkIsKept ==
  [][(stagedPass /\ range # NoRange /\ ~stagedPass')
       => (comps' = staging \/ ~Valid(staging))]_vars

\* Staging never blocks /ctx-recomp for good: as long as full recomps are asked for,
\* whatever an earlier run left (a half-built range, rows behind a marker that
\* outlived its promotion, rows that do not validate) is promoted or dropped.
\* Which rows may be dropped is the subject of MarkedWorkIsKept and RefusedWorkIsKept.
StagingIsResolved == staging # <<>> ~> staging = <<>>

\* What a partial recomp reports when it has promoted: the compartments before and
\* behind its range are the ones it found when it started, though the rows before it
\* went through staging, perhaps in an earlier run.
LastRows(h, n) == SubSeq(h, Len(h) - n + 1, Len(h))
PartialKeepsTheRest ==
  [][\A r \in Runs :
       (phase[r] = "promoting" /\ phase'[r] = "promoted")
          => /\ SubSeq(comps', 1, plan[r].prior) = SubSeq(comps, 1, plan[r].prior)
             /\ LastRows(comps', Len(plan[r].tail)) = plan[r].tail]_vars

\* A partial recomp that is refused because a full one is staged answers that the
\* staged work can be resumed: it leaves what historian passes staged.
RefusedWorkIsKept ==
  [][\A r \in Runs : (phase[r] = "refusedFull" /\ stagedPass) => stagedPass']_vars

=============================================================================
