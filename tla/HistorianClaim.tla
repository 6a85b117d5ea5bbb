--------------------------- MODULE HistorianClaim ---------------------------
(***************************************************************************)
(* The claim lane of the Rust module: a historian run whose model call is  *)
(* made by a host process.  The module fires, queues the run in its store  *)
(* and waits in memory; claimants poll, take the run under a numbered      *)
(* claim with a lease, extend the lease, and report once.  A report goes   *)
(* to the waiting task, or, when the module was restarted meanwhile, onto  *)
(* the queue row, for the next transform pass of the session to publish.   *)
(* A claimant that falls silent is replaced when its lease has run out; a  *)
(* run past its own deadline is released.                                  *)
(*                                                                         *)
(* The module runs on one thread, so a stretch of code without an await is *)
(* only divided by the death of the process: each of its transactions is a *)
(* step (pc), and everyone else waits until it is over (Quiet).  Deadlines *)
(* are kept as the time left.  One session is modelled; what the recovery  *)
(* of another does to the shared queue is Sweep.  Left out: prompts, the   *)
(* model chain, the content of answers, backoff, and the in-module         *)
(* producer.                                                               *)
(***************************************************************************)
EXTENDS Integers

CONSTANTS Claimants,    \* host processes that poll
          MaxFirings,   \* bound: firings of the session; a run is its number
          Lease,        \* historian_lease_ms
          Budget,       \* how long the module waits for a run
          MaxFaults,    \* bound: deaths of the module, failed publications
          None

ASSUME ClaimAssumption ==
  /\ MaxFirings \in Nat \ {0} /\ MaxFaults \in Nat
  /\ Lease \in Nat \ {0} /\ Budget \in Nat \ {0}

Firings == 1..MaxFirings

VARIABLES
  session,   \* HistorianDurableState: phase, firing_seq, run, attempt, token, lease
  rows,      \* rows[r]: the row of run r in mc_historian_pending_run, or None
  slot,      \* HostRunLedger: the run waited for, its report, the time left
  pc, job,   \* the session's task in the module: its next step, and its locals
  claim,     \* claim[c]: the claim c works under, or None
  granted, heard, published,   \* history variables: the claims so far
  faults

store  == <<session, rows>>
module == <<slot, pc, job>>
past   == <<granted, heard, published>>
vars   == <<store, module, claim, past, faults>>

Claims  == Firings \X Nat
Kinds   == {"output", "failed"}
Reports == [by : Claims, kind : Kinds]
Phases  == {"idle", "firing", "reclaiming", "awaiting", "validating", "publishing"}
Session == [phase : Phases, seq : 0..MaxFirings, run : Firings \cup {None},
            attempt : Nat, token : Nat \cup {None}, lease : Nat]
Rows    == [phase : {"pending", "claimed", "reported", "parked"}, attempt : Nat,
            token : Nat \cup {None}, lease : Nat, left : Nat,
            report : Reports \cup {None}]
Slots   == [run : Firings, report : Reports \cup {None}, left : Nat]
Jobs    == [run : Firings, report : Reports \cup {None}, adopts : BOOLEAN]
Stretch == {"queue", "reoffer", "answer", "validate", "publish", "abandon", "finish"}

ASSUME NoneAssumption ==
  /\ None \notin Nat /\ None \notin Claims /\ None \notin Reports
  /\ None \notin Rows /\ None \notin Slots /\ None \notin Jobs

\* A token is the number of the claim it was minted for.
HistorianClaimTypeOK ==
  /\ session \in Session
  /\ rows \in [Firings -> Rows \cup {None}]
  /\ slot \in Slots \cup {None}
  /\ pc \in Stretch \cup {"none", "wait", "adopt", "restart"}
  /\ job \in Jobs \cup {None}
  /\ claim \in [Claimants -> Claims \cup {None}]
  /\ granted \in Claims \cup {None} /\ heard \subseteq Claims /\ published \subseteq heard
  /\ faults \in 0..MaxFaults

IdleSession(seq) ==
  [phase |-> "idle", seq |-> seq, run |-> None, attempt |-> 0, token |-> None, lease |-> 0]

ClaimInit ==
  /\ session = IdleSession(0)
  /\ rows = [r \in Firings |-> None]
  /\ slot = None /\ pc = "none" /\ job = None
  /\ claim = [c \in Claimants |-> None]
  /\ granted = None /\ heard = {} /\ published = {}
  /\ faults = 0

Quiet == pc \notin Stretch

-----------------------------------------------------------------------------
(* The queue. *)

Exists(r) == r # None /\ rows[r] # None

\* is_claimable
Claimable(row) == row.phase = "pending" \/ (row.phase = "claimed" /\ row.lease = 0)

\* The row is offered to pollers.
Offered(r) == Exists(r) /\ rows[r].left > 0 /\ Claimable(rows[r])

Unclaimed(row, phase) == [row EXCEPT !.phase = phase, !.token = None, !.lease = 0]

\* park_for_reclaim: the run stays, the claim goes.
ParkForReclaim(s) == [s EXCEPT !.phase = "reclaiming", !.token = None, !.lease = 0]

Smaller(m, n) == IF m < n THEN m ELSE n

Lapsed(r) == Exists(r) /\ rows[r].phase = "claimed" /\ rows[r].lease = 0

\* Mutant: every row past its deadline goes.
Expired_any(r) == Exists(r) /\ rows[r].left = 0
Expired(r) == Exists(r) /\ rows[r].phase = "parked" /\ rows[r].left = 0

\* expire_historian_claims, on the whole queue: silent claimants lose their
\* claims, parked runs past their deadline go.
SweptRows ==
  [r \in Firings |-> IF Lapsed(r) THEN Unclaimed(rows[r], "pending")
                     ELSE IF Expired(r) THEN None ELSE rows[r]]

\* Mutant: a waiting session is parked whatever its lease.
SweptSession_any == IF session.phase = "awaiting" THEN ParkForReclaim(session) ELSE session
SweptSession ==
  IF session.phase = "awaiting" /\ session.run # None /\ Lapsed(session.run)
  THEN ParkForReclaim(session) ELSE session

\* The session recovery of another session sweeps.
Sweep ==
  /\ Quiet
  /\ \E r \in Firings : Lapsed(r) \/ Expired(r)
  /\ rows' = SweptRows /\ session' = SweptSession
  /\ UNCHANGED <<module, claim, past, faults>>

-----------------------------------------------------------------------------
(* The firing task. *)

\* A transform pass fires; nothing else of the session runs.
Fire ==
  /\ pc = "none" /\ session.phase = "idle" /\ session.seq < MaxFirings
  /\ session' = [IdleSession(session.seq + 1) EXCEPT !.phase = "firing"]
  /\ pc' = "queue"
  /\ UNCHANGED <<rows, slot, job, claim, past, faults>>

\* publish_pending_historian_run, and the waiter's slot.  The row's deadline counts
\* from the clock as the pass read it.  If the store refuses, the firing is over.
Queue ==
  /\ pc = "queue"
  /\ LET run == session.seq
     IN \/ \E left \in {Budget, Budget - 1} :
             /\ session' = [ParkForReclaim(session) EXCEPT !.run = run, !.attempt = 0]
             /\ rows' = [rows EXCEPT ![run] =
                  [phase |-> "pending", attempt |-> 0, token |-> None, lease |-> 0,
                   left |-> left, report |-> None]]
             /\ slot' = [run |-> run, report |-> None, left |-> Budget]
             /\ pc' = "wait" /\ UNCHANGED <<job, faults>>
        \/ /\ faults < MaxFaults /\ faults' = faults + 1
           /\ job' = [run |-> run, report |-> None, adopts |-> FALSE]
           /\ pc' = "abandon" /\ UNCHANGED <<session, rows, slot>>
  /\ UNCHANGED <<claim, past>>

\* Mutant: only a report wakes the waiter.
Woken_byReport == slot.report # None
Woken == slot.report # None \/ slot.left = 0

\* Mutant: the row is left to the sweep.
Wake_keepsRow ==
  /\ pc = "wait" /\ Woken
  /\ job' = [run |-> slot.run, report |-> slot.report, adopts |-> FALSE]
  /\ slot' = None
  /\ pc' = IF slot.report # None /\ slot.report.kind = "output" THEN "answer" ELSE "abandon"
  /\ UNCHANGED <<store, claim, past, faults>>

\* The waiter wakes, by a report or by its timeout; the row goes first.
Wake ==
  /\ pc = "wait" /\ Woken
  /\ rows' = [rows EXCEPT ![slot.run] = None]
  /\ job' = [run |-> slot.run, report |-> slot.report, adopts |-> FALSE]
  /\ slot' = None
  /\ pc' = IF slot.report # None /\ slot.report.kind = "output" THEN "answer" ELSE "abandon"
  /\ UNCHANGED <<session, claim, past, faults>>

\* An adoption deletes the row when all is done.
Done == /\ pc' = IF job.adopts THEN "finish" ELSE "none"
        /\ job' = IF job.adopts THEN job ELSE None

\* An answer counts only for the run the session still waits for, and a stored one
\* only for the claim it was made under.
Awaited ==
  /\ session.phase = "awaiting" /\ session.run = job.run
  /\ job.adopts => Exists(job.run) /\ session.attempt = rows[job.run].attempt

\* The store refuses the session's next state, and the publication ends.
Refused == /\ faults < MaxFaults /\ faults' = faults + 1
           /\ Done /\ UNCHANGED session

\* publish_output_from_awaiting: the session is recorded as validating, or has moved
\* on, or the record is refused.
Answer ==
  /\ pc = "answer"
  /\ \/ /\ Awaited
        /\ session' = [session EXCEPT !.phase = "validating"]
        /\ pc' = "validate" /\ UNCHANGED <<job, faults>>
     \/ ~Awaited /\ Done /\ UNCHANGED <<session, faults>>
     \/ Awaited /\ Refused
  /\ UNCHANGED <<rows, slot, claim, past>>

\* The document passes, or the session is released, or either record is refused.
Validate ==
  /\ pc = "validate"
  /\ \/ /\ session' = [session EXCEPT !.phase = "publishing"]
        /\ pc' = "publish" /\ UNCHANGED <<job, faults>>
     \/ session' = IdleSession(session.seq) /\ Done /\ UNCHANGED faults
     \/ Refused
  /\ UNCHANGED <<rows, slot, claim, past>>

\* publish_validated_chunk: published, or refused as stale, or failed, in which
\* case the session stays as it is.
Publish ==
  /\ pc = "publish"
  /\ \/ /\ session' = IdleSession(session.seq)
        /\ published' = published \cup {job.report.by}
        /\ UNCHANGED faults
     \/ session' = IdleSession(session.seq) /\ UNCHANGED <<published, faults>>
     \/ faults < MaxFaults /\ faults' = faults + 1 /\ UNCHANGED <<session, published>>
  /\ Done
  /\ UNCHANGED <<rows, slot, claim, granted, heard>>

\* abandon_current_state_with_detail
Abandon ==
  /\ pc = "abandon"
  /\ session' = IdleSession(session.seq)
  /\ Done
  /\ UNCHANGED <<rows, slot, claim, past, faults>>

\* finish_historian_pending_run
Finish ==
  /\ pc = "finish"
  /\ rows' = [rows EXCEPT ![job.run] = None]
  /\ pc' = "none" /\ job' = None
  /\ UNCHANGED <<session, slot, claim, past, faults>>

-----------------------------------------------------------------------------
(* Recovery by a later transform pass. *)

\* Mutant: a live claim is parked too.
ParkUnclaimed_any(row) == IF row.report = None THEN Unclaimed(row, "parked") ELSE row

\* park_unclaimed_historian_run: neither a live claim nor a report is disturbed.
ParkUnclaimed(row) ==
  IF row.report = None /\ (row.phase # "claimed" \/ row.lease = 0)
  THEN Unclaimed(row, "parked") ELSE row

\* maybe_spawn_reattach: no task of this process owns the session's firing.
Recover ==
  /\ pc = "none" /\ session.phase # "idle"
  /\ session' = SweptSession
  /\ LET r == session.run
         queued == session.phase \in {"awaiting", "reclaiming"} /\ r # None
                   /\ SweptRows[r] # None
     IN \/ /\ ~queued
           /\ rows' = SweptRows /\ pc' = "restart"
        \/ /\ queued /\ SweptRows[r].report = None /\ SweptRows[r].left > 0
           /\ rows' = [SweptRows EXCEPT ![r] = ParkUnclaimed(SweptRows[r])]
           /\ pc' = "reoffer"
        \/ /\ queued /\ (SweptRows[r].report # None \/ SweptRows[r].left = 0)
           /\ rows' = SweptRows /\ pc' = "adopt"
  /\ UNCHANGED <<slot, job, claim, past, faults>>

\* republish_parked_historian_run
Reoffer ==
  /\ pc = "reoffer"
  /\ LET r == session.run
     IN rows' = IF Exists(r) /\ rows[r].report = None /\ rows[r].left > 0
                   /\ rows[r].phase = "parked"
                THEN [rows EXCEPT ![r] = Unclaimed(rows[r], "pending")] ELSE rows
  /\ pc' = "none"
  /\ UNCHANGED <<session, slot, job, claim, past, faults>>

\* adopt_historian_run_on_host, spawned by the pass.
Adopt ==
  /\ pc = "adopt"
  /\ LET r == session.run
         report == rows[r].report
     IN /\ job' = IF Exists(r) THEN [run |-> r, report |-> report, adopts |-> TRUE] ELSE None
        /\ pc' = IF ~Exists(r) THEN "none"
                 ELSE IF report # None /\ report.kind = "output" THEN "answer" ELSE "abandon"
  /\ UNCHANGED <<store, slot, claim, past, faults>>

\* Mutant: the run is taken from the session, which may have none yet.
RestartLoad_blind ==
  /\ pc = "restart" /\ session.phase # "idle"
  /\ job' = [run |-> session.run, report |-> None, adopts |-> FALSE]
  /\ pc' = "abandon"
  /\ UNCHANGED <<store, slot, claim, past, faults>>

\* handle_restart_load, spawned by the pass: the row is parked, then the session
\* is released.
RestartLoad ==
  /\ pc = "restart"
  /\ rows' = IF session.phase \notin {"idle", "awaiting"} /\ Exists(session.run)
             THEN [rows EXCEPT ![session.run] = Unclaimed(@, "parked")] ELSE rows
  /\ IF session.phase = "idle" THEN pc' = "none" /\ job' = None
     ELSE /\ job' = [run |-> session.seq, report |-> None, adopts |-> FALSE]
          /\ pc' = "abandon"
  /\ UNCHANGED <<session, slot, claim, past, faults>>

-----------------------------------------------------------------------------
(* The claimants. *)

\* historian.pending and historian.claim: what was pending when it was listed is
\* tested again.
Claim(c, r) ==
  /\ Quiet /\ claim[c] = None
  /\ Offered(r) /\ session.run = r
  /\ \/ session.phase = "reclaiming"
     \/ session.phase = "awaiting" /\ session.token # None /\ session.lease = 0
  /\ LET n == rows[r].attempt + 1
         lease == Smaller(Lease, rows[r].left)
     IN /\ rows' = [rows EXCEPT ![r] = [@ EXCEPT !.phase = "claimed", !.attempt = n,
                                                 !.token = n, !.lease = lease]]
        /\ session' = [session EXCEPT !.phase = "awaiting", !.attempt = n, !.token = n,
                                      !.lease = lease]
        /\ claim' = [claim EXCEPT ![c] = <<r, n>>]
        /\ granted' = <<r, n>>
  /\ UNCHANGED <<module, heard, published, faults>>

\* The row, or the session, is under claim k.
RowHolds(k) == Exists(k[1]) /\ rows[k[1]].token = k[2]
SessionHolds(k) == session.run = k[1] /\ session.token = k[2]

\* Mutant: the run is enough.
Authorized_byRun(k) == Exists(k[1]) /\ session.run = k[1]

\* authorize_historian_report
Authorized(k) == RowHolds(k) /\ SessionHolds(k)

\* historian.heartbeat; refused, it ends the claimant's work.
Heartbeat(c) ==
  /\ Quiet /\ claim[c] # None
  /\ LET k == claim[c]
         r == k[1]
         lease == Smaller(Lease, rows[r].left)
     IN \/ /\ RowHolds(k) /\ rows[r].left > 0
           /\ rows' = [rows EXCEPT ![r] = [@ EXCEPT !.lease = lease]]
           /\ session' = IF SessionHolds(k) THEN [session EXCEPT !.lease = lease] ELSE session
           /\ UNCHANGED claim
        \/ /\ ~(RowHolds(k) /\ rows[r].left > 0)
           /\ claim' = [claim EXCEPT ![c] = None]
           /\ UNCHANGED store
  /\ UNCHANGED <<module, past, faults>>

\* historian.complete: the report of the current claim goes to the waiting task,
\* or, if there is none, onto the row.
Complete(c, kind) ==
  /\ Quiet /\ claim[c] # None
  /\ claim' = [claim EXCEPT ![c] = None]
  /\ LET k == claim[c]
         r == k[1]
         report == [by |-> k, kind |-> kind]
         awaited == slot # None /\ slot.run = r
         delivered == Authorized(k) /\ awaited /\ slot.report = None
         recorded == /\ Authorized(k) /\ ~awaited
                     /\ rows[r].report = None /\ rows[r].left > 0
     IN \/ /\ delivered
           /\ slot' = [slot EXCEPT !.report = report]
           /\ heard' = heard \cup {k}
           /\ UNCHANGED rows
        \/ /\ recorded
           /\ rows' = [rows EXCEPT ![r] = [@ EXCEPT !.phase = "reported", !.report = report]]
           /\ heard' = heard \cup {k}
           /\ UNCHANGED slot
        \/ ~delivered /\ ~recorded /\ UNCHANGED <<slot, rows, heard>>
  /\ UNCHANGED <<session, pc, job, granted, published, faults>>

\* The claimant stops, dies, or loses its report on the way.
GiveUp(c) ==
  /\ claim[c] # None
  /\ claim' = [claim EXCEPT ![c] = None]
  /\ UNCHANGED <<store, module, past, faults>>

-----------------------------------------------------------------------------
(* Time and restarts. *)

Less(n) == IF n > 0 THEN n - 1 ELSE 0

Tick ==
  /\ \/ session.lease > 0
     \/ slot # None /\ slot.left > 0
     \/ \E r \in Firings : rows[r] # None /\ rows[r].left > 0
  /\ session' = [session EXCEPT !.lease = Less(@)]
  /\ rows' = [r \in Firings |->
       IF rows[r] = None THEN None
       ELSE [rows[r] EXCEPT !.lease = Less(@), !.left = Less(@)]]
  /\ slot' = IF slot = None THEN None ELSE [slot EXCEPT !.left = Less(@)]
  /\ UNCHANGED <<pc, job, claim, past, faults>>

\* The module dies and is started again: what was in memory is gone.
Crash ==
  /\ pc # "none" /\ faults < MaxFaults
  /\ faults' = faults + 1
  /\ slot' = None /\ pc' = "none" /\ job' = None
  /\ UNCHANGED <<store, claim, past>>

-----------------------------------------------------------------------------
Firing   == Queue \/ Wake \/ Answer \/ Validate \/ Publish \/ Abandon \/ Finish
Recovery == Recover \/ Reoffer \/ Adopt \/ RestartLoad

ClaimNext ==
  \/ Fire \/ Firing \/ Recovery \/ Sweep \/ Tick \/ Crash
  \/ \E c \in Claimants :
       \/ \E r \in Firings : Claim(c, r)
       \/ Heartbeat(c) \/ GiveUp(c)
       \/ \E kind \in Kinds : Complete(c, kind)

\* Tasks run on, the session goes on being used (each pass recovers it), and clocks
\* advance.  Nothing is assumed of claimants.
ClaimFairness == WF_vars(Firing) /\ WF_vars(Recovery) /\ WF_vars(Tick)

ClaimSpec == ClaimInit /\ [][ClaimNext]_vars /\ ClaimFairness

-----------------------------------------------------------------------------
(* Properties. *)

\* What is offered to claimants is the run the session waits for, so that nobody
\* pays for an answer that has nowhere to go: parking comes before a release and
\* deletion before an abandonment, wherever the module dies in between.
OfferedIsWanted ==
  \A r \in Firings :
    Offered(r) => session.run = r /\ session.phase \in {"reclaiming", "awaiting"}

\* While a claim's lease runs, the session stands ready for its report: the row
\* and the session change together through grants, sweeps, restarts and recoveries.
LiveClaims == {<<r, rows[r].token>> : r \in
  {r \in Firings : Exists(r) /\ rows[r].phase = "claimed" /\ rows[r].lease > 0}}
ClaimIsAdmissible == \A k \in LiveClaims : session.phase = "awaiting" /\ SessionHolds(k)

\* Nobody takes a claim whose lease runs before the run has its answer: no rival,
\* sweep, restart, recovery or timeout of the waiting task.
LiveClaimsLast ==
  [][\A k \in LiveClaims : RowHolds(k)' \/ \E h \in heard' : h[1] = k[1]]_vars

\* A session does not let go of a run whose answer is stored on its row, and the
\* answer stays there, until it is taken up for publication: not past the
\* deadline, not by a sweep, not by a restart.  One thing loses it: an adoption
\* whose first record the store refuses drops the row all the same.  Nothing else
\* brings an adoption to that deletion with the answer still stored.
AnswerStored(r) ==
  /\ session.run = r /\ session.phase \in {"awaiting", "reclaiming"}
  /\ Exists(r) /\ rows[r].report # None /\ rows[r].report.kind = "output"
Dropping(r) == pc = "finish" /\ job.run = r
StoredAnswersAreKept ==
  [][\A r \in Firings : AnswerStored(r) =>
       \/ session'.phase = "validating"
       \/ Dropping(r)
       \/ AnswerStored(r)' /\ (Dropping(r)' => faults' = faults + 1)]_vars

\* At most one claim is in force, only the newest is heard and only once, and a
\* run is published once, by an answer that was heard.
Held == ~(LiveClaims \subseteq heard)
Lane == INSTANCE ClaimLane WITH Runs <- Firings, NoClaim <- None,
                                newest <- granted, held <- Held
LaneProperty == Lane!LaneSpec

\* The session's single firing slot is freed in the end, whatever claimants do and
\* wherever the module dies.
SessionRecovers == session.phase # "idle" ~> session.phase = "idle"
=============================================================================
