------------------------ MODULE HistorianClaimProofs ------------------------
(***************************************************************************)
(* Proofs about HistorianClaim for any number of claimants, firings and    *)
(* faults, and any lease and budget.                                       *)
(***************************************************************************)
EXTENDS HistorianClaim, TLAPS

USE ClaimAssumption, NoneAssumption DEF Firings

-----------------------------------------------------------------------------
(* The inductive invariant. *)

Waiting == session.phase \in {"reclaiming", "awaiting"}

\* The session waits for the run of its latest firing, under a token only while a
\* claim may still answer.
RunKept ==
  /\ session.phase # "idle" => session.seq > 0
  /\ session.phase \in {"idle", "firing"} => session.run = None
  /\ session.phase \notin {"idle", "firing"} => session.run = session.seq
  /\ session.token # None =>
       session.phase \notin {"idle", "firing", "reclaiming"} /\ session.attempt = session.token

\* What a row says of its claim and its report fits together.
RowFits(r) ==
  /\ r <= session.seq
  /\ rows[r].phase = "claimed" =>
       rows[r].token # None /\ rows[r].lease <= rows[r].left
  /\ rows[r].phase \in {"pending", "claimed"} => rows[r].report = None
  /\ rows[r].phase \in {"pending", "parked"} => rows[r].token = None
  /\ rows[r].token # None => rows[r].attempt = rows[r].token
  /\ rows[r].report # None => rows[r].report.by \in heard /\ rows[r].report.by[1] = r
RowsKept == \A r \in Firings : rows[r] # None => RowFits(r)

\* The task of the session knows its run, and outlives the row's deadline.
TaskKept ==
  /\ slot # None <=> pc = "wait"
  /\ pc = "wait" =>
       /\ Waiting /\ slot.run = session.seq
       /\ slot.report # None => slot.report.by \in heard /\ slot.report.by[1] = slot.run
       /\ rows[slot.run] # None =>
            rows[slot.run].report = None /\ rows[slot.run].left <= slot.left
  /\ pc \in {"answer", "validate", "publish", "abandon", "finish"} => job # None
  /\ pc \in {"answer", "validate", "publish"} =>
       /\ job.report # None /\ job.report.by \in heard
       /\ job.report.by[1] = job.run
  /\ pc = "queue" => session.phase = "firing"
  /\ pc = "reoffer" => Waiting
  /\ pc = "validate" => session.phase = "validating" /\ job.run = session.run
  /\ pc = "publish" => session.phase = "publishing" /\ job.run = session.run

\* A row that may still be claimed, or is, belongs to the run waited for.
Open(r) == Exists(r) /\ rows[r].phase \in {"pending", "claimed"} /\ rows[r].left > 0
OpenKept ==
  \A r \in Firings : Open(r) =>
    /\ session.run = r /\ Waiting /\ pc \in {"none", "wait", "reoffer"}
    /\ rows[r].phase = "claimed" =>
         session.phase = "awaiting" /\ session.token = rows[r].token

\* An answer on a row meets a session that will take it; a release finds none.
StoredKept ==
  /\ \A r \in Firings : AnswerStored(r) =>
       /\ session.phase = "awaiting" /\ session.attempt = rows[r].attempt
       /\ rows[r].phase = "reported"
       /\ pc \in {"none", "adopt", "answer", "finish"}
       /\ pc \in {"answer", "finish"} => job.run = r
  /\ pc = "restart" /\ Waiting => rows[session.run] = None

\* Claim j was granted before claim k, or is k.
UpTo(j, k) == j[1] < k[1] \/ (j[1] = k[1] /\ j[2] <= k[2])

\* The claim granted last is the one a row of the waited run may name.
RowsLane ==
  /\ granted # None => granted[1] <= session.seq
  /\ granted # None /\ session.phase = "firing" => granted[1] < session.seq
  /\ \A r \in Firings : rows[r] # None /\ granted # None /\ granted[1] = r =>
       granted[2] <= rows[r].attempt
  /\ \A r \in Firings : rows[r] # None /\ rows[r].token # None /\ r = session.run =>
       granted = <<r, rows[r].token>>

\* Claims are numbered upwards, and each is held by one claimant until it is heard.
ClaimsLane ==
  /\ \A k \in heard : granted # None /\ UpTo(k, granted)
  /\ \A c \in Claimants : claim[c] # None =>
       claim[c] \notin heard /\ granted # None /\ UpTo(claim[c], granted)
  /\ \A c, d \in Claimants : claim[c] # None /\ claim[c] = claim[d] => c = d

\* What is published leaves its run closed.
PublishedLane ==
  \A k \in published : k[1] <= session.seq /\ (session.phase # "idle" => k[1] # session.seq)

LaneKept == RowsLane /\ ClaimsLane /\ PublishedLane

ClaimInv == HistorianClaimTypeOK /\ RunKept /\ RowsKept /\ TaskKept /\ OpenKept

-----------------------------------------------------------------------------
(* Types. *)

LEMMA StretchTyped ==
  Stretch = {"queue", "reoffer", "answer", "validate", "publish", "abandon", "finish"}
BY DEF Stretch

\* Giving up the claim of a row or of a session leaves a row or a session.
LEMMA UnclaimedTyped ==
  ASSUME NEW row \in Rows, NEW phase \in {"pending", "parked"}
  PROVE  Unclaimed(row, phase) \in Rows
BY DEF Unclaimed, Rows

LEMMA ParkedTyped ==
  ASSUME NEW s \in Session
  PROVE  ParkForReclaim(s) \in Session
BY DEF ParkForReclaim, Session, Phases

LEMMA IdleTyped ==
  ASSUME NEW n \in 0..MaxFirings
  PROVE  IdleSession(n) \in Session
BY DEF IdleSession, Session, Phases

LEMMA SweptTyped ==
  ASSUME HistorianClaimTypeOK
  PROVE  SweptRows \in [Firings -> Rows \cup {None}] /\ SweptSession \in Session
<1>1. ASSUME NEW r \in Firings PROVE SweptRows[r] \in Rows \cup {None}
  <2>1. rows[r] \in Rows \cup {None} /\ (Lapsed(r) => rows[r] # None)
    BY DEF HistorianClaimTypeOK, Lapsed, Exists
  <2>2. Lapsed(r) => Unclaimed(rows[r], "pending") \in Rows
    BY <2>1, UnclaimedTyped
  <2> QED
    BY <2>1, <2>2 DEF SweptRows
<1>2. SweptRows \in [Firings -> Rows \cup {None}]
  BY <1>1 DEF SweptRows
<1>3. SweptSession \in Session
  BY ParkedTyped DEF SweptSession, HistorianClaimTypeOK
<1> QED
  BY <1>2, <1>3

LEMMA TypeInit == ClaimInit => HistorianClaimTypeOK
BY IdleTyped DEF ClaimInit, HistorianClaimTypeOK

\* The firing task keeps the types.
LEMMA FiringTyped ==
  ASSUME ClaimInv, Fire \/ Firing
  PROVE  HistorianClaimTypeOK'
<1> USE DEF HistorianClaimTypeOK, store, module, past
<1>0. /\ session \in Session /\ session.seq \in 0..MaxFirings
      /\ session.run \in Firings \cup {None} /\ HistorianClaimTypeOK
  BY DEF ClaimInv, Session
<1>1. CASE Fire
  <2>1. IdleSession(session.seq + 1) \in Session
    BY <1>0, <1>1, IdleTyped DEF Fire
  <2>2. session' \in Session
    BY <1>1, <2>1 DEF Fire, Session, Phases
  <2> QED
    BY <1>0, <1>1, <2>2, StretchTyped DEF Fire
<1>2. CASE Queue
  <2>1. session.seq \in Firings
    BY <1>0, <1>2 DEF ClaimInv, RunKept, TaskKept, Queue
  <2> DEFINE run == session.seq
             requeued(s) == [s EXCEPT !.run = run, !.attempt = 0]
             parked == requeued(ParkForReclaim(session))
             pending(left) == [phase |-> "pending", attempt |-> 0, token |-> None,
                               lease |-> 0, left |-> left, report |-> None]
             waiter == [run |-> run, report |-> None, left |-> Budget]
             failed == [run |-> run, report |-> None, adopts |-> FALSE]
  <2>a. parked \in Session
    <3>1. ASSUME NEW s \in Session PROVE requeued(s) \in Session
      BY <2>1 DEF Session
    <3>2. ParkForReclaim(session) \in Session
      BY <1>0, ParkedTyped
    <3> HIDE DEF requeued
    <3> QED
      BY <3>1, <3>2
  <2>b. waiter \in Slots /\ failed \in Jobs
    BY <2>1 DEF Slots, Jobs
  <2>c. \A left \in Nat : pending(left) \in Rows
    BY DEF Rows
  <2>d. \/ /\ session' = parked /\ slot' = waiter /\ UNCHANGED <<job, faults>>
           /\ \E left \in Nat : rows' = [rows EXCEPT ![run] = pending(left)]
        \/ /\ faults < MaxFaults /\ faults' = faults + 1 /\ job' = failed
           /\ UNCHANGED <<session, rows, slot>>
    <3>1. Budget \in Nat /\ Budget - 1 \in Nat
      OBVIOUS
    <3>2. \/ \E left \in {Budget, Budget - 1} :
               /\ session' = parked /\ rows' = [rows EXCEPT ![run] = pending(left)]
               /\ slot' = waiter /\ UNCHANGED <<job, faults>>
          \/ /\ faults < MaxFaults /\ faults' = faults + 1 /\ job' = failed
             /\ UNCHANGED <<session, rows, slot>>
      BY <1>2, Zenon DEF Queue
    <3> HIDE DEF parked, pending, waiter, failed
    <3> QED
      BY <3>1, <3>2
  <2> HIDE DEF parked, pending, waiter, failed
  <2>2. session' \in Session
    BY <1>0, <2>a, <2>d
  <2>3. rows' \in [Firings -> Rows \cup {None}] /\ slot' \in Slots \cup {None}
    BY <1>0, <2>1, <2>b, <2>c, <2>d
  <2>4. job' \in Jobs \cup {None} /\ faults' \in 0..MaxFaults
    BY <1>0, <2>b, <2>d
  <2> QED
    BY <1>0, <1>2, <2>2, <2>3, <2>4, StretchTyped DEF Queue
<1>3. CASE Wake
  <2>1. slot \in Slots
    BY <1>0, <1>3 DEF ClaimInv, TaskKept, Wake
  <2> QED
    BY <1>0, <1>3, <2>1, StretchTyped DEF Wake, Slots, Jobs
<1>4. CASE Answer \/ Validate \/ Abandon \/ Finish
  <2>1. IdleSession(session.seq) \in Session /\ job \in Jobs
    BY <1>0, <1>4, IdleTyped DEF ClaimInv, TaskKept, Answer, Validate, Abandon, Finish
  <2>2. session' \in Session
    <3>1. session' \in {session, IdleSession(session.seq), [session EXCEPT !.phase = "validating"],
                        [session EXCEPT !.phase = "publishing"]}
      BY <1>4 DEF Answer, Validate, Abandon, Finish, Refused
    <3> QED
      BY <1>0, <2>1, <3>1 DEF Session, Phases
  <2>3. /\ pc' \in Stretch \cup {"none"} /\ job' \in {job, None}
        /\ faults' \in 0..MaxFaults
    BY <1>0, <1>4, StretchTyped DEF Answer, Validate, Abandon, Finish, Done, Refused
  <2>4. rows' \in [Firings -> Rows \cup {None}]
    BY <1>0, <1>4 DEF Answer, Validate, Abandon, Finish
  <2> QED
    BY <1>0, <1>4, <2>1, <2>2, <2>3, <2>4 DEF Answer, Validate, Abandon, Finish
<1>5. CASE Publish
  <2>1. /\ IdleSession(session.seq) \in Session /\ job \in Jobs
        /\ job.report.by \in heard
    BY <1>0, <1>5, IdleTyped DEF ClaimInv, TaskKept, Publish
  <2>2. session' \in Session /\ published' \subseteq heard /\ faults' \in 0..MaxFaults
    BY <1>0, <1>5, <2>1 DEF Publish
  <2>3. pc' \in Stretch \cup {"none"} /\ job' \in {job, None}
    BY <1>5, StretchTyped DEF Publish, Done
  <2> QED
    BY <1>0, <1>5, <2>1, <2>2, <2>3 DEF Publish
<1> QED
  BY <1>1, <1>2, <1>3, <1>4, <1>5 DEF Firing

\* So does recovery.
LEMMA RecoveryTyped ==
  ASSUME ClaimInv, Recovery
  PROVE  HistorianClaimTypeOK'
<1> USE DEF HistorianClaimTypeOK, store, module, past
<1>0. /\ session \in Session /\ session.seq \in 0..MaxFirings
      /\ session.run \in Firings \cup {None} /\ HistorianClaimTypeOK
  BY DEF ClaimInv, Session
<1>1. CASE Recover
  <2>1. session' \in Session
    BY <1>0, <1>1, SweptTyped DEF Recover
  <2>2. ASSUME NEW r \in Firings, SweptRows[r] # None
        PROVE  ParkUnclaimed(SweptRows[r]) \in Rows
    BY <1>0, <2>2, SweptTyped, UnclaimedTyped DEF ParkUnclaimed
  <2>3. rows' \in [Firings -> Rows \cup {None}] /\ pc' \in {"restart", "reoffer", "adopt"}
    <3>1. \/ rows' = SweptRows
          \/ /\ session.run \in Firings /\ SweptRows[session.run] # None
             /\ rows' = [SweptRows EXCEPT ![session.run] = ParkUnclaimed(SweptRows[session.run])]
      BY <1>0, <1>1 DEF Recover
    <3> QED
      BY <1>0, <1>1, <2>2, <3>1, SweptTyped DEF Recover
  <2> QED
    BY <1>0, <1>1, <2>1, <2>3, StretchTyped DEF Recover
<1>2. CASE Reoffer
  <2>1. rows' \in [Firings -> Rows \cup {None}]
    BY <1>0, <1>2, UnclaimedTyped DEF Reoffer, Exists
  <2> QED
    BY <1>0, <1>2, <2>1 DEF Reoffer
<1>3. CASE Adopt
  <2>1. job' \in Jobs \cup {None}
    BY <1>0, <1>3 DEF Adopt, Exists, Jobs, Rows
  <2>2. pc' \in {"none", "answer", "abandon"}
    BY <1>3 DEF Adopt
  <2> QED
    BY <1>0, <1>3, <2>1, <2>2, StretchTyped DEF Adopt
<1>4. CASE RestartLoad
  <2>1. rows' \in [Firings -> Rows \cup {None}]
    BY <1>0, <1>4, UnclaimedTyped DEF RestartLoad, Exists
  <2>2. job' \in Jobs \cup {None} /\ pc' \in {"none", "abandon"}
    <3>1. session.phase # "idle" => session.seq \in Firings
      BY <1>0 DEF ClaimInv, RunKept
    <3>2. session.phase # "idle" =>
            [run |-> session.seq, report |-> None, adopts |-> FALSE] \in Jobs
      BY <3>1 DEF Jobs
    <3> QED
      BY <1>4, <3>2 DEF RestartLoad
  <2> QED
    BY <1>0, <1>4, <2>1, <2>2, StretchTyped DEF RestartLoad
<1> QED
  BY <1>1, <1>2, <1>3, <1>4 DEF Recovery

\* So do claimants, sweeps, time and deaths.
LEMMA LaneTyped ==
  ASSUME ClaimInv,
         Sweep \/ Tick \/ Crash \/ \E c \in Claimants :
           \/ \E r \in Firings : Claim(c, r)
           \/ Heartbeat(c) \/ GiveUp(c)
           \/ \E kind \in Kinds : Complete(c, kind)
  PROVE  HistorianClaimTypeOK'
<1> USE DEF HistorianClaimTypeOK, store, module, past
<1>0. /\ session \in Session /\ session.seq \in 0..MaxFirings
      /\ session.run \in Firings \cup {None} /\ HistorianClaimTypeOK
      /\ session.lease \in Nat
  BY DEF ClaimInv, Session
<1>1. CASE Sweep
  BY <1>0, <1>1, SweptTyped DEF Sweep
<1>2. CASE Tick
  <2>1. ASSUME NEW n \in Nat PROVE Less(n) \in Nat
    BY DEF Less
  <2>2. session' \in Session
    BY <1>0, <1>2, <2>1 DEF Tick, Session
  <2>3. rows' \in [Firings -> Rows \cup {None}]
    <3>1. ASSUME NEW r \in Firings, rows[r] # None
          PROVE  [rows[r] EXCEPT !.lease = Less(@), !.left = Less(@)] \in Rows
      <4>1. rows[r] \in Rows
        BY <1>0, <3>1
      <4> QED
        BY <2>1, <4>1 DEF Rows
    <3> QED
      BY <1>2, <3>1 DEF Tick
  <2>4. slot' \in Slots \cup {None}
    BY <1>0, <1>2, <2>1 DEF Tick, Slots
  <2> QED
    BY <1>0, <1>2, <2>2, <2>3, <2>4 DEF Tick
<1>3. CASE Crash
  BY <1>0, <1>3 DEF Crash
<1>4. ASSUME NEW c \in Claimants, NEW r \in Firings, Claim(c, r)
      PROVE  HistorianClaimTypeOK'
  <2>1. rows[r] \in Rows /\ rows[r].attempt + 1 \in Nat /\ Smaller(Lease, rows[r].left) \in Nat
    <3>1. rows[r] \in Rows
      BY <1>0, <1>4 DEF Claim, Offered, Exists
    <3> QED
      BY <3>1 DEF Rows, Smaller
  <2>2. session' \in Session
    BY <1>0, <1>4, <2>1 DEF Claim, Session, Phases
  <2>3. rows' \in [Firings -> Rows \cup {None}]
    BY <1>0, <1>4, <2>1 DEF Claim, Rows
  <2>4. <<r, rows[r].attempt + 1>> \in Claims
    BY <2>1 DEF Claims
  <2> QED
    BY <1>0, <1>4, <2>2, <2>3, <2>4 DEF Claim
<1>5. ASSUME NEW c \in Claimants, Heartbeat(c) PROVE HistorianClaimTypeOK'
  <2> DEFINE lease == Smaller(Lease, rows[claim[c][1]].left)
  <2>1. claim[c][1] \in Firings /\ claim' \in [Claimants -> Claims \cup {None}]
    BY <1>0, <1>5 DEF Heartbeat, Claims
  <2>2. CASE UNCHANGED store
    BY <1>0, <1>5, <2>1, <2>2 DEF Heartbeat
  <2>3. CASE ~UNCHANGED store
    <3>1. rows[claim[c][1]] \in Rows
      BY <1>0, <1>5, <2>1, <2>3 DEF Heartbeat, RowHolds, Exists
    <3>2. lease \in Nat
      BY <3>1 DEF Rows, Smaller
    <3>3. /\ rows' = [rows EXCEPT ![claim[c][1]] = [@ EXCEPT !.lease = lease]]
          /\ session' \in {session, [session EXCEPT !.lease = lease]}
      BY <1>5, <2>3 DEF Heartbeat
    <3> HIDE DEF lease
    <3>4. rows' \in [Firings -> Rows \cup {None}]
      BY <1>0, <2>1, <3>1, <3>2, <3>3 DEF Rows
    <3>5. session' \in Session
      BY <1>0, <3>2, <3>3 DEF Session
    <3> QED
      BY <1>0, <1>5, <2>1, <3>4, <3>5 DEF Heartbeat
  <2> QED
    BY <2>2, <2>3
<1>6. ASSUME NEW c \in Claimants, NEW kind \in Kinds, Complete(c, kind)
      PROVE  HistorianClaimTypeOK'
  <2> DEFINE k == claim[c]
             report == [by |-> k, kind |-> kind]
             reported == [rows[k[1]] EXCEPT !.phase = "reported", !.report = report]
  <2>1. k \in Claims /\ k[1] \in Firings
    BY <1>0, <1>6, ZenonT(60) DEF Complete, Claims
  <2>2. report \in Reports
    BY <2>1 DEF Reports
  <2>3. /\ slot' = slot \/ (slot # None /\ slot' = [slot EXCEPT !.report = report])
        /\ heard' \in {heard, heard \cup {k}}
        /\ \/ rows' = rows
           \/ /\ rows[k[1]] # None
              /\ rows' = [rows EXCEPT ![k[1]] = reported]
        /\ claim' = [claim EXCEPT ![c] = None]
        /\ UNCHANGED <<session, pc, job, granted, published, faults>>
    BY <1>6 DEF Complete, Authorized, RowHolds, Exists
  <2> HIDE DEF report, k
  <2>4. slot' \in Slots \cup {None}
    BY <1>0, <2>2, <2>3 DEF Slots
  <2>5. rows' \in [Firings -> Rows \cup {None}]
    <3>1. ASSUME NEW row \in Rows
          PROVE  [row EXCEPT !.phase = "reported", !.report = report] \in Rows
      BY <2>2 DEF Rows
    <3>2. rows[k[1]] # None => reported \in Rows
      BY <1>0, <2>1, <3>1
    <3> HIDE DEF reported
    <3> QED
      BY <1>0, <2>1, <2>3, <3>2
  <2> QED
    BY <1>0, <2>1, <2>3, <2>4, <2>5, SMTT(30)
<1>7. ASSUME NEW c \in Claimants, GiveUp(c) PROVE HistorianClaimTypeOK'
  BY <1>0, <1>7 DEF GiveUp
<1> QED
  BY <1>1, <1>2, <1>3, <1>4, <1>5, <1>6, <1>7

LEMMA TypeNext == ClaimInv /\ [ClaimNext]_vars => HistorianClaimTypeOK'
<1>1. ASSUME ClaimInv, UNCHANGED vars PROVE HistorianClaimTypeOK'
  BY <1>1 DEF ClaimInv, vars, store, module, past, HistorianClaimTypeOK
<1> QED
  BY <1>1, FiringTyped, RecoveryTyped, LaneTyped DEF ClaimNext

-----------------------------------------------------------------------------
(* What the steps do to rows and session, field by field. *)

LEMMA UnclaimedFields ==
  ASSUME NEW row \in Rows, NEW phase \in {"pending", "parked"}
  PROVE  LET new == Unclaimed(row, phase)
         IN /\ new # None /\ new.phase = phase /\ new.token = None /\ new.lease = 0
            /\ new.attempt = row.attempt /\ new.left = row.left /\ new.report = row.report
<1>1. Unclaimed(row, phase) # None
  BY UnclaimedTyped
<1> QED
  BY <1>1 DEF Unclaimed, Rows

\* Two rows differ in phase and claim at most.
SameRun(new, row) == new.attempt = row.attempt /\ new.left = row.left /\ new.report = row.report

LEMMA SweptRowFields ==
  ASSUME HistorianClaimTypeOK, NEW r \in Firings
  PROVE  /\ Lapsed(r) => /\ SweptRows[r] # None /\ SameRun(SweptRows[r], rows[r])
                         /\ SweptRows[r].phase = "pending" /\ SweptRows[r].token = None
                         /\ SweptRows[r].lease = 0
         /\ ~Lapsed(r) => SweptRows[r] = rows[r] \/ (Expired(r) /\ SweptRows[r] = None)
         /\ ~Lapsed(r) /\ ~Expired(r) => SweptRows[r] = rows[r]
<1>1. Lapsed(r) => rows[r] \in Rows
  BY DEF HistorianClaimTypeOK, Lapsed, Exists
<1>2. Lapsed(r) => SweptRows[r] = Unclaimed(rows[r], "pending")
  BY DEF SweptRows
<1> QED
  BY <1>1, <1>2, UnclaimedFields DEF SweptRows, SameRun

LEMMA SweptSessionFields ==
  ASSUME HistorianClaimTypeOK
  PROVE  LET parks == session.phase = "awaiting" /\ session.run # None /\ Lapsed(session.run)
         IN /\ SweptSession.seq = session.seq /\ SweptSession.run = session.run
            /\ SweptSession.attempt = session.attempt
            /\ parks => SweptSession.phase = "reclaiming" /\ SweptSession.token = None
            /\ ~parks => SweptSession = session
BY DEF HistorianClaimTypeOK, Session, SweptSession, ParkForReclaim

LEMMA ClaimFields ==
  ASSUME HistorianClaimTypeOK, NEW c \in Claimants, NEW r \in Firings, Claim(c, r)
  PROVE  /\ rows[r] \in Rows /\ rows'[r] # None /\ Open(r) /\ Claimable(rows[r])
         /\ rows'[r].phase = "claimed" /\ rows'[r].attempt = rows[r].attempt + 1
         /\ rows'[r].token = rows[r].attempt + 1 /\ rows'[r].left = rows[r].left
         /\ rows'[r].report = rows[r].report
         /\ rows'[r].lease > 0 /\ rows'[r].lease <= rows[r].left
         /\ \A q \in Firings \ {r} : rows'[q] = rows[q]
         /\ session.run = r /\ Waiting
         /\ session'.phase = "awaiting" /\ session'.seq = session.seq
         /\ session'.run = session.run
         /\ session'.attempt = rows[r].attempt + 1 /\ session'.token = rows[r].attempt + 1
<1> DEFINE n == rows[r].attempt + 1
           lease == Smaller(Lease, rows[r].left)
           new == [rows[r] EXCEPT !.phase = "claimed", !.attempt = n, !.token = n,
                                  !.lease = lease]
<1>1. rows[r] \in Rows /\ rows[r].left > 0 /\ session \in Session /\ Open(r)
  BY DEF HistorianClaimTypeOK, Claim, Offered, Exists, Open, Claimable
<1>2. n \in Nat /\ lease \in Nat /\ lease > 0 /\ lease <= rows[r].left
  BY <1>1 DEF Rows, Smaller
<1>3. /\ rows' = [rows EXCEPT ![r] = new]
      /\ session' = [session EXCEPT !.phase = "awaiting", !.attempt = n, !.token = n,
                                    !.lease = lease]
  BY DEF Claim
<1> HIDE DEF n, lease
<1>4. /\ new \in Rows /\ new.phase = "claimed" /\ new.attempt = n /\ new.token = n
      /\ new.left = rows[r].left /\ new.report = rows[r].report /\ new.lease = lease
  BY <1>1, <1>2 DEF Rows
<1> HIDE DEF new
<1>5. rows'[r] = new /\ \A q \in Firings \ {r} : rows'[q] = rows[q]
  BY <1>3 DEF HistorianClaimTypeOK
<1>6. /\ session'.phase = "awaiting" /\ session'.seq = session.seq
      /\ session'.run = session.run /\ session'.attempt = n /\ session'.token = n
  BY <1>1, <1>3 DEF Session
<1>7. session.run = r /\ Waiting /\ Claimable(rows[r])
  BY DEF Claim, Offered, Waiting
<1> QED
  BY <1>1, <1>2, <1>4, <1>5, <1>6, <1>7 DEF n

LEMMA HeartbeatFields ==
  ASSUME HistorianClaimTypeOK, NEW c \in Claimants, Heartbeat(c)
  PROVE  /\ \A q \in Firings :
              \/ rows'[q] = rows[q]
              \/ /\ q = claim[c][1] /\ RowHolds(claim[c])
                 /\ rows'[q] # None /\ rows[q] # None /\ SameRun(rows'[q], rows[q])
                 /\ rows'[q].phase = rows[q].phase /\ rows'[q].token = rows[q].token
                 /\ rows'[q].lease <= rows[q].left
         /\ session'.phase = session.phase /\ session'.seq = session.seq
         /\ session'.run = session.run /\ session'.attempt = session.attempt
         /\ session'.token = session.token
<1>1. CASE UNCHANGED store
  BY <1>1 DEF store
<1>2. CASE ~UNCHANGED store
  <2> DEFINE r == claim[c][1]
             lease == Smaller(Lease, rows[r].left)
             new == [rows[r] EXCEPT !.lease = lease]
  <2>1. /\ RowHolds(claim[c]) /\ rows' = [rows EXCEPT ![r] = new]
        /\ session' \in {session, [session EXCEPT !.lease = lease]}
    BY <1>2 DEF Heartbeat
  <2>2. claim[c] \in Claims /\ r \in Firings /\ rows[r] \in Rows /\ session \in Session
    BY <2>1 DEF HistorianClaimTypeOK, Heartbeat, Claims, RowHolds, Exists
  <2>3. lease \in Nat /\ lease <= rows[r].left
    BY <2>2 DEF Rows, Smaller
  <2> HIDE DEF lease
  <2>4. /\ new \in Rows /\ SameRun(new, rows[r]) /\ new.phase = rows[r].phase
        /\ new.token = rows[r].token /\ new.lease = lease
    BY <2>2, <2>3 DEF Rows, SameRun
  <2>5. /\ session'.phase = session.phase /\ session'.seq = session.seq
        /\ session'.run = session.run /\ session'.attempt = session.attempt
        /\ session'.token = session.token
    BY <2>1, <2>2 DEF Session
  <2> HIDE DEF new
  <2>6. rows'[r] = new /\ \A q \in Firings \ {r} : rows'[q] = rows[q]
    BY <2>1, <2>2 DEF HistorianClaimTypeOK
  <2> QED
    BY <2>1, <2>2, <2>3, <2>4, <2>5, <2>6
<1> QED
  BY <1>1, <1>2

LEMMA CompleteFields ==
  ASSUME HistorianClaimTypeOK, NEW c \in Claimants, NEW kind \in Kinds, Complete(c, kind)
  PROVE  LET k == claim[c]
             report == [by |-> k, kind |-> kind]
         IN /\ k \in Claims
            /\ \A q \in Firings :
                 \/ rows'[q] = rows[q]
                 \/ /\ q = k[1] /\ k \in heard' /\ slot' = slot /\ Authorized(k)
                    /\ slot = None \/ slot.run # q
                    /\ rows[q] # None /\ rows'[q] # None /\ rows[q].report = None
                    /\ rows'[q].phase = "reported" /\ rows'[q].report = report
                    /\ rows'[q].attempt = rows[q].attempt /\ rows'[q].token = rows[q].token
                    /\ rows'[q].left = rows[q].left
            /\ \/ slot' = slot
               \/ /\ slot # None /\ slot.run = k[1] /\ slot' # None /\ slot'.run = slot.run
                  /\ slot'.left = slot.left /\ slot'.report = report
                  /\ k \in heard' /\ Authorized(k)
            /\ heard' = heard \/ (heard' = heard \cup {k} /\ Authorized(k))
            /\ claim' = [claim EXCEPT ![c] = None] /\ claim[c] # None
            /\ UNCHANGED <<session, pc, job, granted, published, faults>>
<1> DEFINE k == claim[c]
           report == [by |-> k, kind |-> kind]
           new == [rows[k[1]] EXCEPT !.phase = "reported", !.report = report]
           answered == [slot EXCEPT !.report = report]
<1>1. k \in Claims /\ k[1] \in Firings
  BY DEF HistorianClaimTypeOK, Complete, Claims
<1>2. report \in Reports
  BY <1>1 DEF Reports
<1>3. /\ \/ /\ slot' = answered /\ heard' = heard \cup {k} /\ rows' = rows
            /\ slot # None /\ slot.run = k[1] /\ Authorized(k)
         \/ /\ rows' = [rows EXCEPT ![k[1]] = new] /\ heard' = heard \cup {k} /\ slot' = slot
            /\ ~(slot # None /\ slot.run = k[1]) /\ Authorized(k)
            /\ rows[k[1]].report = None
         \/ UNCHANGED <<slot, rows, heard>>
      /\ claim' = [claim EXCEPT ![c] = None] /\ claim[c] # None
      /\ UNCHANGED <<session, pc, job, granted, published, faults>>
  BY Zenon DEF Complete
<1>4. Authorized(k) => rows[k[1]] \in Rows
  BY <1>1 DEF Authorized, RowHolds, Exists, HistorianClaimTypeOK
<1> HIDE DEF report
<1>5. Authorized(k) =>
        /\ new \in Rows /\ new.phase = "reported" /\ new.report = report
        /\ new.attempt = rows[k[1]].attempt /\ new.token = rows[k[1]].token
        /\ new.left = rows[k[1]].left
  BY <1>2, <1>4 DEF Rows
<1>6. slot # None =>
        answered \in Slots /\ answered.run = slot.run /\ answered.left = slot.left
        /\ answered.report = report
  BY <1>2 DEF Slots, HistorianClaimTypeOK
<1> HIDE DEF new, answered
<1>7. rows' = [rows EXCEPT ![k[1]] = new] =>
        rows'[k[1]] = new /\ \A q \in Firings \ {k[1]} : rows'[q] = rows[q]
  BY <1>1 DEF HistorianClaimTypeOK
<1> HIDE DEF k
<1>8. CASE slot' = answered /\ heard' = heard \cup {k} /\ rows' = rows
           /\ slot # None /\ slot.run = k[1] /\ Authorized(k)
  BY <1>1, <1>3, <1>6, <1>8 DEF k, report
<1>9. CASE /\ rows' = [rows EXCEPT ![k[1]] = new] /\ heard' = heard \cup {k} /\ slot' = slot
           /\ ~(slot # None /\ slot.run = k[1]) /\ Authorized(k)
           /\ rows[k[1]].report = None
  BY <1>1, <1>3, <1>4, <1>5, <1>7, <1>9 DEF k, report
<1>10. CASE UNCHANGED <<slot, rows, heard>>
  BY <1>1, <1>3, <1>10 DEF k, report
<1> QED
  BY <1>3, <1>8, <1>9, <1>10

LEMMA TickFields ==
  ASSUME HistorianClaimTypeOK, Tick
  PROVE  /\ \A q \in Firings :
              /\ rows[q] = None => rows'[q] = None
              /\ rows[q] # None =>
                   /\ rows'[q] # None /\ rows'[q].phase = rows[q].phase
                   /\ rows'[q].attempt = rows[q].attempt /\ rows'[q].token = rows[q].token
                   /\ rows'[q].report = rows[q].report
                   /\ rows'[q].left = Less(rows[q].left)
                   /\ rows'[q].lease = Less(rows[q].lease)
         /\ slot = None => slot' = None
         /\ slot # None => /\ slot' # None /\ slot'.run = slot.run /\ slot'.report = slot.report
                           /\ slot'.left = Less(slot.left)
         /\ session'.phase = session.phase /\ session'.seq = session.seq
         /\ session'.run = session.run /\ session'.attempt = session.attempt
         /\ session'.token = session.token
<1> DEFINE older(row) == [row EXCEPT !.lease = Less(@), !.left = Less(@)]
           shorter == [slot EXCEPT !.left = Less(@)]
<1>1. ASSUME NEW n \in Nat PROVE Less(n) \in Nat
  BY DEF Less
<1>2. ASSUME NEW row \in Rows
      PROVE  /\ older(row) \in Rows /\ older(row).phase = row.phase
             /\ older(row).attempt = row.attempt /\ older(row).token = row.token
             /\ older(row).report = row.report /\ older(row).left = Less(row.left)
             /\ older(row).lease = Less(row.lease)
  BY <1>1 DEF Rows
<1>3. \A q \in Firings : rows'[q] = IF rows[q] = None THEN None ELSE older(rows[q])
  BY DEF Tick
<1>4. slot # None =>
        /\ shorter \in Slots /\ shorter.run = slot.run /\ shorter.report = slot.report
        /\ shorter.left = Less(slot.left)
  BY <1>1 DEF HistorianClaimTypeOK, Slots
<1>5. slot' = IF slot = None THEN None ELSE shorter
  BY DEF Tick
<1>6. /\ session'.phase = session.phase /\ session'.seq = session.seq
      /\ session'.run = session.run /\ session'.attempt = session.attempt
      /\ session'.token = session.token
  BY DEF Tick, HistorianClaimTypeOK, Session
<1>7. \A q \in Firings : rows[q] # None => rows[q] \in Rows
  BY DEF HistorianClaimTypeOK
<1> HIDE DEF older, shorter
<1> QED
  BY <1>2, <1>3, <1>4, <1>5, <1>6, <1>7

LEMMA QueueFields ==
  ASSUME HistorianClaimTypeOK, session.seq \in Firings, Queue
  PROVE  LET run == session.seq
         IN /\ \/ /\ session'.phase = "reclaiming" /\ session'.seq = run /\ session'.run = run
                  /\ session'.token = None
                  /\ rows'[run] # None /\ rows'[run].phase = "pending"
                  /\ rows'[run].token = None /\ rows'[run].report = None
                  /\ rows'[run].left <= Budget
                  /\ \A q \in Firings \ {run} : rows'[q] = rows[q]
                  /\ slot' # None /\ slot'.run = run /\ slot'.report = None
                  /\ slot'.left = Budget
                  /\ pc' = "wait" /\ job' = job
               \/ pc' = "abandon" /\ job' # None /\ UNCHANGED <<session, rows, slot>>
            /\ UNCHANGED <<claim, past>>
<1> DEFINE run == session.seq
           requeued(s) == [s EXCEPT !.run = run, !.attempt = 0]
           parked == requeued(ParkForReclaim(session))
           pending(left) == [phase |-> "pending", attempt |-> 0, token |-> None,
                             lease |-> 0, left |-> left, report |-> None]
           waiter == [run |-> run, report |-> None, left |-> Budget]
           failed == [run |-> run, report |-> None, adopts |-> FALSE]
<1>1. /\ \/ \E left \in {Budget, Budget - 1} :
              /\ session' = parked /\ rows' = [rows EXCEPT ![run] = pending(left)]
              /\ slot' = waiter /\ pc' = "wait" /\ UNCHANGED <<job, faults>>
         \/ /\ faults < MaxFaults /\ faults' = faults + 1 /\ job' = failed
            /\ pc' = "abandon" /\ UNCHANGED <<session, rows, slot>>
      /\ UNCHANGED <<claim, past>>
  BY Zenon DEF Queue
<1>2. ASSUME NEW s \in Session
      PROVE  /\ requeued(s).phase = s.phase /\ requeued(s).seq = s.seq
             /\ requeued(s).run = run /\ requeued(s).token = s.token
  BY DEF Session
<1>3. /\ ParkForReclaim(session) \in Session /\ ParkForReclaim(session).seq = run
      /\ ParkForReclaim(session).phase = "reclaiming" /\ ParkForReclaim(session).token = None
  BY ParkedTyped DEF HistorianClaimTypeOK, ParkForReclaim, Session
<1> HIDE DEF requeued
<1>4. /\ parked.phase = "reclaiming" /\ parked.seq = run /\ parked.run = run
      /\ parked.token = None
  BY <1>2, <1>3
<1>5. ASSUME NEW left \in {Budget, Budget - 1}
      PROVE  /\ pending(left) \in Rows /\ pending(left).phase = "pending"
             /\ pending(left).token = None /\ pending(left).report = None
             /\ pending(left).left <= Budget
  BY DEF Rows
<1>6. /\ waiter \in Slots /\ waiter.run = run /\ waiter.report = None /\ waiter.left = Budget
      /\ failed \in Jobs
  BY DEF Slots, Jobs
<1> HIDE DEF parked, pending, waiter, failed, run
<1>7. ASSUME NEW left \in {Budget, Budget - 1}, rows' = [rows EXCEPT ![run] = pending(left)]
      PROVE  rows'[run] = pending(left) /\ \A q \in Firings \ {run} : rows'[q] = rows[q]
  BY <1>7 DEF HistorianClaimTypeOK, run
<1> QED
  BY <1>1, <1>4, <1>5, <1>6, <1>7 DEF run

LEMMA ReofferFields ==
  ASSUME HistorianClaimTypeOK, Reoffer
  PROVE  /\ \A q \in Firings :
              \/ rows'[q] = rows[q]
              \/ /\ q = session.run /\ rows[q] # None /\ rows[q].report = None
                 /\ rows'[q] # None /\ rows'[q].phase = "pending" /\ rows'[q].token = None
                 /\ SameRun(rows'[q], rows[q])
         /\ pc = "reoffer" /\ pc' = "none"
         /\ UNCHANGED <<session, slot, job, claim, past, faults>>
<1>1. ASSUME NEW q \in Firings, rows'[q] # rows[q]
      PROVE  /\ q = session.run /\ rows[q] \in Rows /\ rows[q].report = None
             /\ rows'[q] = Unclaimed(rows[q], "pending")
  BY <1>1 DEF Reoffer, HistorianClaimTypeOK, Exists
<1> QED
  BY <1>1, UnclaimedFields DEF Reoffer, SameRun

LEMMA RestartFields ==
  ASSUME HistorianClaimTypeOK, RestartLoad, session.phase # "idle" => session.seq \in Firings
  PROVE  /\ \A q \in Firings :
              \/ rows'[q] = rows[q]
              \/ /\ q = session.run /\ rows[q] # None /\ session.phase \notin {"idle", "awaiting"}
                 /\ rows'[q] # None /\ rows'[q].phase = "parked" /\ rows'[q].token = None
                 /\ SameRun(rows'[q], rows[q])
         /\ pc = "restart"
         /\ (pc' = "none" /\ session.phase = "idle") \/ (pc' = "abandon" /\ job' # None)
         /\ UNCHANGED <<session, slot, claim, past, faults>>
<1>1. ASSUME NEW q \in Firings, rows'[q] # rows[q]
      PROVE  /\ q = session.run /\ rows[q] \in Rows /\ session.phase \notin {"idle", "awaiting"}
             /\ rows'[q] = Unclaimed(rows[q], "parked")
  BY <1>1 DEF RestartLoad, HistorianClaimTypeOK, Exists
<1>2. session.phase # "idle" =>
        [run |-> session.seq, report |-> None, adopts |-> FALSE] \in Jobs
  BY DEF Jobs
<1>3. (pc' = "none" /\ session.phase = "idle") \/ (pc' = "abandon" /\ job' # None)
  BY <1>2 DEF RestartLoad
<1>4. ASSUME NEW q \in Firings, rows'[q] # rows[q]
      PROVE  /\ rows'[q] # None /\ rows'[q].phase = "parked" /\ rows'[q].token = None
             /\ SameRun(rows'[q], rows[q])
  BY <1>1, <1>4, UnclaimedFields DEF SameRun
<1> QED
  BY <1>1, <1>3, <1>4 DEF RestartLoad

\* A recovery sweeps; a row it offers anew is parked first.
LEMMA RecoverFields ==
  ASSUME HistorianClaimTypeOK, Recover
  PROVE  LET r == session.run
             waited == Waiting /\ r # None
         IN /\ \A q \in Firings :
                 \/ rows'[q] = SweptRows[q]
                 \/ /\ pc' = "reoffer" /\ q = r /\ SweptRows[q] # None
                    /\ SweptRows[q].phase # "claimed" \/ SweptRows[q].lease = 0
                    /\ rows'[q] # None /\ rows'[q].phase = "parked" /\ rows'[q].token = None
                    /\ SameRun(rows'[q], SweptRows[q])
            /\ \/ pc' = "restart" /\ ~(waited /\ SweptRows[r] # None)
               \/ /\ pc' = "reoffer" /\ waited /\ SweptRows[r] # None
                  /\ SweptRows[r].report = None
               \/ /\ pc' = "adopt" /\ waited /\ SweptRows[r] # None
                  /\ SweptRows[r].report # None \/ SweptRows[r].left = 0
            /\ pc = "none" /\ session.phase # "idle" /\ session' = SweptSession
            /\ UNCHANGED <<slot, job, claim, past, faults>>
<1>1. ASSUME NEW q \in Firings, rows'[q] # SweptRows[q]
      PROVE  /\ pc' = "reoffer" /\ q = session.run /\ SweptRows[q] \in Rows
             /\ SweptRows[q].phase # "claimed" \/ SweptRows[q].lease = 0
             /\ rows'[q] = Unclaimed(SweptRows[q], "parked")
  BY <1>1, SweptTyped DEF Recover, ParkUnclaimed
<1>2. ASSUME NEW q \in Firings, rows'[q] # SweptRows[q]
      PROVE  /\ rows'[q] # None /\ rows'[q].phase = "parked" /\ rows'[q].token = None
             /\ SameRun(rows'[q], SweptRows[q]) /\ SweptRows[q] # None
  BY <1>1, <1>2, UnclaimedFields DEF SameRun
<1>3. LET r == session.run
          waited == Waiting /\ r # None
      IN \/ pc' = "restart" /\ ~(waited /\ SweptRows[r] # None)
         \/ pc' = "reoffer" /\ waited /\ SweptRows[r] # None /\ SweptRows[r].report = None
         \/ /\ pc' = "adopt" /\ waited /\ SweptRows[r] # None
            /\ SweptRows[r].report # None \/ SweptRows[r].left = 0
  BY DEF Recover, Waiting
<1> QED
  BY <1>1, <1>2, <1>3 DEF Recover

-----------------------------------------------------------------------------
(* The invariant is kept. *)

Kept == RunKept /\ RowsKept /\ TaskKept /\ OpenKept

LEMMA Basics ==
  ASSUME ClaimInv
  PROVE  /\ HistorianClaimTypeOK /\ Kept
         /\ session \in Session /\ session.seq \in 0..MaxFirings
         /\ session.phase # "idle" => session.seq \in Firings
         /\ \A r \in Firings : rows[r] # None => rows[r] \in Rows /\ RowFits(r)
         /\ \A r \in Firings :
              Open(r) => session.run = r /\ Waiting /\ pc \in {"none", "wait", "reoffer"}
BY DEF ClaimInv, Kept, HistorianClaimTypeOK, Session, RunKept, RowsKept, OpenKept

\* Steps that touch neither rows nor what has been heard.
LEMMA StillRows ==
  ASSUME ClaimInv, UNCHANGED <<rows, heard>>, session'.seq \in Int,
         session'.seq >= session.seq
  PROVE  RowsKept'
<1>1. ASSUME NEW r \in Firings, rows'[r] # None PROVE RowFits(r)'
  BY <1>1, Basics DEF RowFits
<1> QED
  BY <1>1 DEF RowsKept

LEMMA FireKept == ASSUME ClaimInv, Fire PROVE Kept'
<1>1. /\ session'.phase = "firing" /\ session'.seq = session.seq + 1
      /\ session'.run = None /\ session'.token = None
  BY DEF Fire, IdleSession
<1>2. \A r \in Firings : ~Open(r)
  BY Basics DEF Fire, Waiting
<1>3. RowsKept'
  BY <1>1, Basics, StillRows DEF Fire, past
<1>4. TaskKept'
  BY Basics DEF Fire, Kept, TaskKept, past
<1>5. OpenKept'
  BY <1>2 DEF Fire, OpenKept, Open, Exists
<1>6. RunKept'
  BY <1>1, Basics DEF RunKept
<1> QED
  BY <1>3, <1>4, <1>5, <1>6 DEF Kept

LEMMA QueueKept == ASSUME ClaimInv, Queue PROVE Kept'
<1>0. session.seq \in Firings /\ HistorianClaimTypeOK /\ Kept /\ pc = "queue"
  BY Basics DEF Queue, Kept, TaskKept
<1>1. \A r \in Firings : ~Open(r)
  BY <1>0, Basics
<1>2. CASE pc' = "abandon"
  <2>1. /\ UNCHANGED <<session, rows, slot, heard>> /\ job' # None
    BY <1>0, <1>2, QueueFields DEF past
  <2>2. RowsKept'
    BY <2>1, Basics, StillRows
  <2> QED
    BY <1>0, <1>1, <1>2, <2>1, <2>2 DEF Kept, RunKept, TaskKept, OpenKept, Open, Exists
<1>3. CASE pc' # "abandon"
  <2> DEFINE run == session.seq
  <2>1. /\ session'.phase = "reclaiming" /\ session'.seq = run /\ session'.run = run
        /\ session'.token = None
        /\ rows'[run] # None /\ rows'[run].phase = "pending"
        /\ rows'[run].token = None /\ rows'[run].report = None
        /\ rows'[run].left <= Budget
        /\ \A q \in Firings \ {run} : rows'[q] = rows[q]
        /\ slot' # None /\ slot'.run = run /\ slot'.report = None /\ slot'.left = Budget
        /\ pc' = "wait" /\ heard' = heard
    BY <1>0, <1>3, QueueFields DEF past
  <2>2. RunKept'
    BY <1>0, <2>1 DEF RunKept
  <2>3. RowsKept'
    <3>1. ASSUME NEW r \in Firings, rows'[r] # None PROVE RowFits(r)'
      BY <1>0, <2>1, <3>1, Basics DEF RowFits
    <3> QED
      BY <3>1 DEF RowsKept
  <2>4. TaskKept'
    BY <2>1 DEF TaskKept, Waiting
  <2>5. OpenKept'
    <3>1. ASSUME NEW r \in Firings, Open(r)'
          PROVE  r = run /\ rows'[r].phase = "pending"
      BY <1>1, <2>1, <3>1 DEF Open, Exists
    <3> QED
      BY <2>1, <3>1 DEF OpenKept, Waiting
  <2> QED
    BY <2>2, <2>3, <2>4, <2>5 DEF Kept
<1> QED
  BY <1>2, <1>3

LEMMA WakeKept == ASSUME ClaimInv, Wake PROVE Kept'
<1>0. /\ HistorianClaimTypeOK /\ Kept /\ pc = "wait" /\ slot \in Slots
      /\ slot.run = session.seq /\ session.run = slot.run
  BY Basics DEF Wake, Kept, TaskKept, RunKept, Waiting, HistorianClaimTypeOK
<1>1. /\ rows' = [rows EXCEPT ![slot.run] = None] /\ slot' = None
      /\ job' = [run |-> slot.run, report |-> slot.report, adopts |-> FALSE]
      /\ UNCHANGED <<session, heard>>
      /\ pc' = IF slot.report # None /\ slot.report.kind = "output" THEN "answer" ELSE "abandon"
  BY DEF Wake, past
<1>2. job' \in Jobs /\ slot.run \in Firings
  BY <1>0, <1>1 DEF Slots, Jobs
<1>3. /\ rows'[slot.run] = None
      /\ \A q \in Firings \ {slot.run} : rows'[q] = rows[q]
  BY <1>0, <1>1, <1>2 DEF HistorianClaimTypeOK
<1>4. RunKept'
  BY <1>0, <1>1 DEF Kept, RunKept
<1>5. RowsKept'
  <2>1. ASSUME NEW r \in Firings, rows'[r] # None PROVE RowFits(r)'
    BY <1>1, <1>3, <2>1, Basics DEF RowFits
  <2> QED
    BY <2>1 DEF RowsKept
<1>6. TaskKept'
  BY <1>0, <1>1, <1>2 DEF Kept, TaskKept
<1>7. OpenKept'
  <2>1. ASSUME NEW r \in Firings PROVE ~Open(r)'
    BY <1>0, <1>3, Basics DEF Open, Exists
  <2> QED
    BY <2>1 DEF OpenKept
<1> QED
  BY <1>4, <1>5, <1>6, <1>7 DEF Kept

\* Steps of a task that answers, validates, publishes, releases or finishes find
\* no open row.
LEMMA TaskStepKept ==
  ASSUME ClaimInv, Answer \/ Validate \/ Publish \/ Abandon \/ Finish
  PROVE  Kept'
<1>0. /\ HistorianClaimTypeOK /\ Kept /\ \A r \in Firings : ~Open(r)
      /\ pc \in {"answer", "validate", "publish", "abandon", "finish"} /\ job # None
      /\ session \in Session /\ job \in Jobs
  BY Basics DEF Answer, Validate, Publish, Abandon, Finish, Kept, TaskKept, HistorianClaimTypeOK
<1>1. UNCHANGED <<slot, heard>>
  BY DEF Answer, Validate, Publish, Abandon, Finish, past
<1>2. \A q \in Firings : rows'[q] # None => rows'[q] = rows[q]
  BY <1>0 DEF Answer, Validate, Publish, Abandon, Finish, HistorianClaimTypeOK, Jobs
<1>3. /\ session'.seq = session.seq
      /\ \/ session'.phase = "idle" /\ session'.run = None /\ session'.token = None
         \/ /\ session'.run = session.run /\ session'.token = session.token
            /\ session'.attempt = session.attempt
            /\ \/ session' = session
               \/ pc = "answer" /\ Awaited /\ session'.phase = "validating"
               \/ pc = "validate" /\ session'.phase = "publishing"
  BY <1>0 DEF Answer, Validate, Publish, Abandon, Finish, Refused, IdleSession, Session
<1>4. RunKept'
  BY <1>0, <1>3 DEF Kept, RunKept, TaskKept, Awaited
<1>5. RowsKept'
  <2>1. ASSUME NEW r \in Firings, rows'[r] # None PROVE RowFits(r)'
    BY <1>1, <1>2, <1>3, <2>1, Basics DEF RowFits
  <2> QED
    BY <2>1 DEF RowsKept
<1>6. OpenKept'
  BY <1>0, <1>2 DEF OpenKept, Open, Exists
<1>7. TaskKept'
  <2>1. \/ pc' = "none"
        \/ pc' = "finish" /\ job' = job
        \/ /\ pc' = "validate" /\ pc = "answer" /\ job' = job /\ Awaited
           /\ session'.phase = "validating"
        \/ /\ pc' = "publish" /\ pc = "validate" /\ job' = job
           /\ session'.phase = "publishing"
    BY <1>0 DEF Answer, Validate, Publish, Abandon, Finish, Refused, Done, Session
  <2> QED
    BY <1>0, <1>1, <1>3, <2>1 DEF Kept, TaskKept, Awaited
<1> QED
  BY <1>4, <1>5, <1>6, <1>7 DEF Kept

LEMMA SweptSessionKept ==
  ASSUME ClaimInv, session' = SweptSession
  PROVE  /\ RunKept' /\ session'.seq = session.seq /\ session'.run = session.run
         /\ session'.attempt = session.attempt
         /\ (session'.phase = session.phase /\ session'.token = session.token)
            \/ (session.phase = "awaiting" /\ session'.phase = "reclaiming"
                /\ session.run # None /\ Lapsed(session.run))
         /\ Waiting' <=> Waiting
<1>1. /\ session'.seq = session.seq /\ session'.run = session.run
      /\ session'.attempt = session.attempt
      /\ \/ /\ session.phase = "awaiting" /\ session.run # None /\ Lapsed(session.run)
            /\ session'.phase = "reclaiming" /\ session'.token = None
         \/ session' = session
  BY Basics, SweptSessionFields
<1>2. RunKept
  BY Basics DEF Kept
<1> QED
  BY <1>1, <1>2 DEF RunKept, Waiting

LEMMA SweepKept == ASSUME ClaimInv, Sweep PROVE Kept'
<1>0. /\ HistorianClaimTypeOK /\ Kept /\ rows' = SweptRows /\ session' = SweptSession
      /\ UNCHANGED <<slot, pc, job, heard>>
  BY Basics DEF Sweep, module, past
<1>1. RowsKept'
  <2>1. ASSUME NEW r \in Firings, rows'[r] # None PROVE RowFits(r)'
    BY <1>0, <2>1, Basics, SweptRowFields, SweptSessionKept DEF RowFits, SameRun, Lapsed, Exists
  <2> QED
    BY <2>1 DEF RowsKept
<1>2. OpenKept'
  <2>1. ASSUME NEW r \in Firings, Open(r)'
        PROVE  /\ Open(r)
               /\ rows'[r].phase = "claimed" => rows[r] = rows'[r] /\ ~Lapsed(r)
    BY <1>0, <2>1, SweptRowFields DEF Open, Exists, SameRun, Lapsed
  <2> QED
    BY <1>0, <2>1, SweptSessionKept DEF Kept, OpenKept
<1>3. TaskKept'
  <2>1. CASE pc = "wait"
    <3>1. slot.run \in Firings
      BY <1>0, <2>1 DEF Kept, TaskKept, HistorianClaimTypeOK, Slots
    <3>2. rows'[slot.run] # None =>
            rows[slot.run] # None /\ SameRun(rows'[slot.run], rows[slot.run])
      BY <1>0, <3>1, SweptRowFields DEF SameRun, Lapsed, Exists
    <3> QED
      BY <1>0, <2>1, <3>2, SweptSessionKept DEF Kept, TaskKept, SameRun
  <2>2. CASE pc # "wait"
    BY <1>0, <2>2, SweptSessionKept, StretchTyped DEF Kept, TaskKept, Sweep, Quiet
  <2> QED
    BY <2>1, <2>2
<1> QED
  BY <1>0, <1>1, <1>2, <1>3, SweptSessionKept DEF Kept

LEMMA RecoverKept == ASSUME ClaimInv, Recover PROVE Kept'
<1>0. /\ HistorianClaimTypeOK /\ Kept /\ session' = SweptSession /\ pc = "none"
      /\ UNCHANGED <<slot, job, heard>> /\ pc' \in {"restart", "reoffer", "adopt"}
      /\ session.run # None => session.run = session.seq
      /\ session.seq \in Firings
  BY Basics, RecoverFields DEF past, Recover, Kept, RunKept
<1>1. RowsKept'
  <2>1. ASSUME NEW r \in Firings, rows'[r] # None PROVE RowFits(r)'
    <3>1. \/ rows'[r] = SweptRows[r]
          \/ /\ SweptRows[r] # None /\ rows'[r].phase = "parked" /\ rows'[r].token = None
             /\ SameRun(rows'[r], SweptRows[r])
      BY <1>0, RecoverFields
    <3>2. \/ SweptRows[r] = rows[r] /\ rows[r] # None
          \/ /\ SweptRows[r].phase = "pending" /\ SweptRows[r].token = None
             /\ SameRun(SweptRows[r], rows[r]) /\ rows[r] # None /\ rows[r].phase = "claimed"
      BY <1>0, <2>1, <3>1, SweptRowFields DEF Lapsed, Exists
    <3> QED
      BY <1>0, <3>1, <3>2, Basics, SweptSessionKept DEF RowFits, SameRun
  <2> QED
    BY <2>1 DEF RowsKept
<1>2. OpenKept'
  <2>1. ASSUME NEW r \in Firings, Open(r)'
        PROVE  /\ Open(r) /\ pc' = "reoffer"
               /\ rows'[r].phase = "claimed" => rows[r] = rows'[r] /\ ~Lapsed(r)
    <3>1. rows'[r] = SweptRows[r] /\ SweptRows[r] # None
      BY <1>0, <2>1, RecoverFields DEF Open, Exists
    <3>2. /\ Open(r) /\ SameRun(SweptRows[r], rows[r])
          /\ rows'[r].phase = "claimed" => rows[r] = rows'[r] /\ ~Lapsed(r)
      BY <1>0, <2>1, <3>1, SweptRowFields DEF Open, Exists, SameRun, Lapsed
    <3>3. session.run = r /\ Waiting /\ rows[r].report = None /\ SweptRows[r].left > 0
      BY <2>1, <3>1, <3>2, Basics DEF Open, RowFits, Exists
    <3> QED
      BY <1>0, <3>1, <3>2, <3>3, RecoverFields DEF SameRun
  <2> QED
    BY <1>0, <2>1, SweptSessionKept DEF Kept, OpenKept
<1>3. TaskKept'
  <2>1. pc' = "reoffer" => Waiting'
    BY <1>0, RecoverFields, SweptSessionKept
  <2> QED
    BY <1>0, <2>1 DEF Kept, TaskKept
<1> QED
  BY <1>0, <1>1, <1>2, <1>3, SweptSessionKept DEF Kept

LEMMA ReofferKept == ASSUME ClaimInv, Reoffer PROVE Kept'
<1>0. /\ HistorianClaimTypeOK /\ Kept /\ pc = "reoffer" /\ pc' = "none" /\ Waiting
      /\ UNCHANGED <<session, slot, job, heard>>
  BY Basics, ReofferFields DEF past, Kept, TaskKept
<1>1. RowsKept'
  <2>1. ASSUME NEW r \in Firings, rows'[r] # None PROVE RowFits(r)'
    BY <1>0, <2>1, Basics, ReofferFields DEF RowFits, SameRun
  <2> QED
    BY <2>1 DEF RowsKept
<1>2. OpenKept'
  <2>1. ASSUME NEW r \in Firings, Open(r)'
        PROVE  \/ Open(r) /\ rows'[r] = rows[r]
               \/ session.run = r /\ rows'[r].phase = "pending"
    BY <1>0, <2>1, ReofferFields DEF Open, Exists
  <2> QED
    BY <1>0, <2>1 DEF Kept, OpenKept, Waiting
<1>3. TaskKept'
  BY <1>0 DEF Kept, TaskKept
<1> QED
  BY <1>0, <1>1, <1>2, <1>3 DEF Kept, RunKept

LEMMA AdoptKept == ASSUME ClaimInv, Adopt PROVE Kept'
<1>0. /\ HistorianClaimTypeOK /\ Kept /\ pc = "adopt" /\ \A r \in Firings : ~Open(r)
      /\ UNCHANGED <<session, rows, slot, heard>>
  BY Basics DEF Adopt, store, past
<1>1. RowsKept' /\ OpenKept' /\ RunKept'
  BY <1>0, Basics, StillRows DEF Kept, RunKept, OpenKept, Open, Exists
<1>2. TaskKept'
  <2> DEFINE new == [run |-> session.run, report |-> rows[session.run].report, adopts |-> TRUE]
  <2>1. \/ pc' = "none"
        \/ /\ Exists(session.run) /\ job' = new /\ pc' \in {"answer", "abandon"}
           /\ pc' = "answer" => rows[session.run].report # None
    BY DEF Adopt
  <2>2. Exists(session.run) =>
          /\ new \in Jobs /\ new.report = rows[session.run].report /\ new.run = session.run
          /\ RowFits(session.run)
    BY <1>0, Basics DEF Exists, Rows, Jobs, Session
  <2> HIDE DEF new
  <2> QED
    BY <1>0, <2>1, <2>2 DEF Kept, TaskKept, RowFits
<1> QED
  BY <1>1, <1>2 DEF Kept

LEMMA RestartLoadKept == ASSUME ClaimInv, RestartLoad PROVE Kept'
<1>0. /\ HistorianClaimTypeOK /\ Kept /\ pc = "restart" /\ \A r \in Firings : ~Open(r)
      /\ UNCHANGED <<session, slot, heard>>
      /\ pc' = "none" \/ (pc' = "abandon" /\ job' # None)
  BY Basics, RestartFields DEF past
<1>1. RowsKept'
  <2>1. ASSUME NEW r \in Firings, rows'[r] # None PROVE RowFits(r)'
    BY <1>0, <2>1, Basics, RestartFields DEF RowFits, SameRun
  <2> QED
    BY <2>1 DEF RowsKept
<1>2. OpenKept'
  <2>1. ASSUME NEW r \in Firings PROVE ~Open(r)'
    BY <1>0, Basics, RestartFields DEF Open, Exists
  <2> QED
    BY <2>1 DEF OpenKept
<1>3. TaskKept'
  BY <1>0 DEF Kept, TaskKept
<1> QED
  BY <1>0, <1>1, <1>2, <1>3 DEF Kept, RunKept

LEMMA ClaimKept ==
  ASSUME ClaimInv, NEW c \in Claimants, NEW r \in Firings, Claim(c, r)
  PROVE  Kept'
<1>0. /\ HistorianClaimTypeOK /\ Kept /\ UNCHANGED <<slot, pc, job, heard>>
      /\ rows[r] \in Rows /\ rows[r].attempt + 1 \in Nat /\ RowFits(r)
      /\ pc \in {"none", "wait", "reoffer"} /\ session.run = r
  <2>1. HistorianClaimTypeOK /\ Kept /\ UNCHANGED <<slot, pc, job, heard>>
    BY Basics DEF Claim, module
  <2>2. rows[r] \in Rows /\ Open(r)
    BY <2>1, ClaimFields
  <2> QED
    BY <2>1, <2>2, Basics DEF Rows
<1>1. RunKept'
  BY <1>0, Basics, ClaimFields DEF Kept, RunKept, Waiting
<1>2. RowsKept'
  <2>1. ASSUME NEW q \in Firings, rows'[q] # None PROVE RowFits(q)'
    <3>1. CASE q = r
      BY <1>0, <3>1, ClaimFields DEF RowFits, Open
    <3>2. CASE q # r
      BY <1>0, <2>1, <3>2, Basics, ClaimFields DEF RowFits
    <3> QED
      BY <3>1, <3>2
  <2> QED
    BY <2>1 DEF RowsKept
<1>3. OpenKept'
  <2>1. ASSUME NEW q \in Firings, Open(q)' PROVE q = r
    BY <1>0, <2>1, Basics, ClaimFields DEF Open, Exists
  <2> QED
    BY <1>0, <2>1, ClaimFields DEF OpenKept, Waiting
<1>4. TaskKept'
  BY <1>0, Basics, ClaimFields DEF Kept, TaskKept, Waiting, RunKept
<1> QED
  BY <1>1, <1>2, <1>3, <1>4 DEF Kept

LEMMA HeartbeatKept ==
  ASSUME ClaimInv, NEW c \in Claimants, Heartbeat(c)
  PROVE  Kept'
<1>0. /\ HistorianClaimTypeOK /\ Kept /\ UNCHANGED <<slot, pc, job, heard>>
      /\ session.run \in Firings \cup {None}
  BY Basics DEF Heartbeat, module, past, Session
<1>1. ASSUME NEW q \in Firings
      PROVE  \/ rows'[q] = rows[q]
             \/ /\ rows'[q] # None /\ rows[q] # None /\ SameRun(rows'[q], rows[q])
                /\ rows'[q].phase = rows[q].phase /\ rows'[q].token = rows[q].token
                /\ rows'[q].lease <= rows[q].left
  BY <1>0, HeartbeatFields
<1>2. /\ session'.phase = session.phase /\ session'.seq = session.seq
      /\ session'.run = session.run /\ session'.attempt = session.attempt
      /\ session'.token = session.token
  BY <1>0, HeartbeatFields
<1>3. RowsKept'
  <2>1. ASSUME NEW q \in Firings, rows'[q] # None PROVE RowFits(q)'
    BY <1>0, <1>1, <1>2, <2>1, Basics DEF RowFits, SameRun
  <2> QED
    BY <2>1 DEF RowsKept
<1>4. OpenKept'
  <2>1. ASSUME NEW q \in Firings, Open(q)'
        PROVE  Open(q) /\ rows'[q].phase = rows[q].phase /\ rows'[q].token = rows[q].token
    BY <1>1, <2>1 DEF Open, Exists, SameRun
  <2> QED
    BY <1>0, <1>2, <2>1 DEF Kept, OpenKept, Waiting
<1>5. TaskKept'
  <2>1. CASE pc = "wait"
    <3>1. slot.run \in Firings
      BY <1>0, <2>1 DEF Kept, TaskKept, HistorianClaimTypeOK, Slots
    <3> QED
      BY <1>0, <1>1, <1>2, <2>1, <3>1 DEF Kept, TaskKept, Waiting, SameRun
  <2>2. CASE pc # "wait"
    BY <1>0, <1>2, <2>2 DEF Kept, TaskKept, Waiting
  <2> QED
    BY <2>1, <2>2
<1> QED
  BY <1>0, <1>2, <1>3, <1>4, <1>5 DEF Kept, RunKept

LEMMA CompleteKept ==
  ASSUME ClaimInv, NEW c \in Claimants, NEW kind \in Kinds, Complete(c, kind)
  PROVE  Kept'
<1> DEFINE k == claim[c]
           report == [by |-> k, kind |-> kind]
<1>0. /\ HistorianClaimTypeOK /\ Kept /\ UNCHANGED <<session, pc, job>>
      /\ heard \subseteq heard' /\ k \in Claims
  <2>1. HistorianClaimTypeOK /\ Kept
    BY Basics
  <2>2. /\ k \in Claims /\ (heard' = heard \/ heard' = heard \cup {k})
        /\ UNCHANGED <<session, pc, job>>
    BY <2>1, CompleteFields
  <2> QED
    BY <2>1, <2>2
<1>1. report \in Reports /\ report.by = k
  BY <1>0 DEF Reports
<1>2. ASSUME NEW q \in Firings
      PROVE  \/ rows'[q] = rows[q]
             \/ /\ q = k[1] /\ k \in heard' /\ slot' = slot /\ Authorized(k)
                /\ slot = None \/ slot.run # q
                /\ rows[q] # None /\ rows'[q] # None
                /\ rows'[q].phase = "reported" /\ rows'[q].report = report
                /\ rows'[q].attempt = rows[q].attempt /\ rows'[q].token = rows[q].token
                /\ rows'[q].left = rows[q].left
  BY <1>0, CompleteFields
<1>3. \/ slot' = slot
      \/ /\ slot # None /\ slot.run = k[1] /\ slot' # None /\ slot'.run = slot.run
         /\ slot'.left = slot.left /\ slot'.report = report /\ k \in heard'
  BY <1>0, CompleteFields
<1> HIDE DEF k, report
<1>4. RowsKept'
  <2>1. ASSUME NEW q \in Firings, rows'[q] # None PROVE RowFits(q)'
    BY <1>0, <1>1, <1>2, <2>1, Basics DEF RowFits
  <2> QED
    BY <2>1 DEF RowsKept
<1>5. OpenKept'
  <2>1. ASSUME NEW q \in Firings, Open(q)' PROVE Open(q) /\ rows'[q] = rows[q]
    BY <1>2, <2>1 DEF Open, Exists
  <2> QED
    BY <1>0, <2>1 DEF Kept, OpenKept, Waiting
<1>6. TaskKept'
  <2>1. CASE pc = "wait"
    <3>1. slot.run \in Firings /\ slot # None /\ slot'.run = slot.run
      BY <1>0, <1>3, <2>1 DEF Kept, TaskKept, HistorianClaimTypeOK, Slots
    <3>2. rows'[slot.run] = rows[slot.run]
      BY <1>2, <3>1
    <3> QED
      BY <1>0, <1>1, <1>3, <2>1, <3>1, <3>2 DEF Kept, TaskKept, Waiting
  <2>2. CASE pc # "wait"
    BY <1>0, <1>3, <2>2 DEF Kept, TaskKept, Waiting
  <2> QED
    BY <2>1, <2>2
<1> QED
  BY <1>0, <1>4, <1>5, <1>6 DEF Kept, RunKept

LEMMA TickKept == ASSUME ClaimInv, Tick PROVE Kept'
<1>0. /\ HistorianClaimTypeOK /\ Kept /\ UNCHANGED <<pc, job, heard>>
      /\ \A r \in Firings : rows[r] # None =>
           rows[r] \in Rows /\ rows[r].left \in Nat /\ rows[r].lease \in Nat
  BY Basics DEF Tick, past, Rows
<1>1. ASSUME NEW m \in Nat, NEW n \in Nat, m <= n
      PROVE  Less(m) <= Less(n) /\ Less(n) <= n /\ Less(n) \in Nat
  BY <1>1 DEF Less
<1>2. RunKept'
  BY <1>0, TickFields DEF Kept, RunKept
<1>3. RowsKept'
  <2>1. ASSUME NEW q \in Firings, rows'[q] # None PROVE RowFits(q)'
    <3>1. rows[q] # None /\ RowFits(q)
      BY <1>0, <2>1, Basics, TickFields
    <3>2. rows[q].lease <= rows[q].left => rows'[q].lease <= rows'[q].left
      BY <1>0, <1>1, <3>1, TickFields
    <3> QED
      BY <1>0, <3>1, <3>2, TickFields DEF RowFits
  <2> QED
    BY <2>1 DEF RowsKept
<1>4. OpenKept'
  <2>1. ASSUME NEW q \in Firings, Open(q)'
        PROVE  Open(q) /\ rows'[q].phase = rows[q].phase /\ rows'[q].token = rows[q].token
    BY <1>0, <2>1, TickFields DEF Open, Exists, Less
  <2> QED
    BY <1>0, <2>1, TickFields DEF Kept, OpenKept, Waiting
<1>5. TaskKept'
  <2>1. CASE pc = "wait"
    <3>1. slot.run \in Firings /\ slot # None /\ slot.left \in Nat
      BY <1>0, <2>1 DEF Kept, TaskKept, HistorianClaimTypeOK, Slots
    <3>2. rows'[slot.run] # None =>
            /\ rows[slot.run] # None /\ rows'[slot.run].report = rows[slot.run].report
            /\ rows[slot.run].left <= slot.left => rows'[slot.run].left <= slot'.left
      BY <1>0, <1>1, <3>1, TickFields
    <3> QED
      BY <1>0, <2>1, <3>1, <3>2, TickFields DEF Kept, TaskKept, Waiting
  <2>2. CASE pc # "wait"
    BY <1>0, <2>2, TickFields DEF Kept, TaskKept, Waiting
  <2> QED
    BY <2>1, <2>2
<1> QED
  BY <1>2, <1>3, <1>4, <1>5 DEF Kept

LEMMA CrashKept == ASSUME ClaimInv, Crash PROVE Kept'
<1>0. /\ HistorianClaimTypeOK /\ Kept /\ UNCHANGED <<session, rows, heard>>
      /\ slot' = None /\ pc' = "none"
  BY Basics DEF Crash, store, past
<1> QED
  BY <1>0 DEF Kept, RunKept, RowsKept, RowFits, TaskKept, OpenKept, Open, Exists, Waiting

LEMMA StillKept == ASSUME ClaimInv, UNCHANGED <<store, module, past>> PROVE Kept'
<1>0. Kept /\ UNCHANGED <<session, rows, slot, pc, job, heard>>
  BY Basics DEF store, module, past
<1> QED
  BY <1>0 DEF Kept, RunKept, RowsKept, RowFits, TaskKept, OpenKept, Open, Exists, Waiting

LEMMA InvInit == ClaimInit => ClaimInv
<1> SUFFICES ASSUME ClaimInit PROVE ClaimInv
  OBVIOUS
<1>1. /\ session.phase = "idle" /\ session.run = None /\ session.token = None
      /\ pc = "none" /\ slot = None /\ \A r \in Firings : rows[r] = None
  BY DEF ClaimInit, IdleSession
<1> QED
  BY <1>1, TypeInit DEF ClaimInv, RunKept, RowsKept, TaskKept, OpenKept, Open, Exists

LEMMA InvNext == ClaimInv /\ [ClaimNext]_vars => ClaimInv'
<1> SUFFICES ASSUME ClaimInv, [ClaimNext]_vars PROVE Kept'
  BY TypeNext DEF ClaimInv, Kept
<1>1. CASE Fire \/ Firing
  BY <1>1, FireKept, QueueKept, WakeKept, TaskStepKept DEF Firing
<1>2. CASE Recovery \/ Sweep
  BY <1>2, RecoverKept, ReofferKept, AdoptKept, RestartLoadKept, SweepKept DEF Recovery
<1>3. CASE Tick \/ Crash
  BY <1>3, TickKept, CrashKept
<1>4. ASSUME NEW c \in Claimants,
             \/ \E r \in Firings : Claim(c, r)
             \/ Heartbeat(c) \/ GiveUp(c)
             \/ \E kind \in Kinds : Complete(c, kind)
      PROVE  Kept'
  BY <1>4, ClaimKept, HeartbeatKept, CompleteKept, StillKept DEF GiveUp
<1>5. CASE UNCHANGED vars
  BY <1>5, StillKept DEF vars
<1> QED
  BY <1>1, <1>2, <1>3, <1>4, <1>5 DEF ClaimNext

LEMMA InvAlways == ClaimSpec => []ClaimInv
BY InvInit, InvNext, PTL DEF ClaimSpec

-----------------------------------------------------------------------------
(* Theorems. *)

\* Session, queue, task and claims keep their types.
THEOREM ClaimTyped == ClaimSpec => []HistorianClaimTypeOK
<1>1. ClaimInv => HistorianClaimTypeOK
  BY DEF ClaimInv
<1> QED
  BY <1>1, InvAlways, PTL

\* Claimants are offered only the run its session waits for.
THEOREM NothingUnwantedIsOffered == ClaimSpec => []OfferedIsWanted
<1>1. ClaimInv => OfferedIsWanted
  BY DEF ClaimInv, OpenKept, OfferedIsWanted, Offered, Open, Claimable, Waiting
<1> QED
  BY <1>1, InvAlways, PTL

\* A claim whose lease runs is the claim of an open row.
LEMMA LiveIsOpen ==
  ASSUME ClaimInv, NEW k \in LiveClaims
  PROVE  /\ k[1] \in Firings /\ k = <<k[1], rows[k[1]].token>> /\ RowHolds(k)
         /\ Open(k[1]) /\ rows[k[1]].phase = "claimed" /\ rows[k[1]].lease > 0
         /\ rows[k[1]].left > 0 /\ rows[k[1]].token # None
<1>1. PICK r \in Firings : /\ Exists(r) /\ rows[r].phase = "claimed" /\ rows[r].lease > 0
                           /\ k = <<r, rows[r].token>>
  BY DEF LiveClaims
<1>2. rows[r] \in Rows /\ RowFits(r)
  BY <1>1, Basics DEF Exists
<1> QED
  BY <1>1, <1>2 DEF RowFits, RowHolds, Open, Rows

\* A claim whose lease runs finds its session ready.
THEOREM LiveClaimsAreAdmissible == ClaimSpec => []ClaimIsAdmissible
<1>1. ASSUME ClaimInv PROVE ClaimIsAdmissible
  BY <1>1, LiveIsOpen, Basics DEF Kept, OpenKept, ClaimIsAdmissible, SessionHolds
<1> QED
  BY <1>1, InvAlways, PTL

\* A row under a live claim is left under it by every step but the waiter's.
LEMMA LiveClaimsStay ==
  ASSUME ClaimInv, [ClaimNext]_vars, NEW k \in LiveClaims
  PROVE  RowHolds(k)' \/ \E h \in heard' : h[1] = k[1]
<1> DEFINE r == k[1]
<1>0. /\ r \in Firings /\ k = <<r, rows[r].token>> /\ RowHolds(k) /\ Open(r)
      /\ rows[r].phase = "claimed" /\ rows[r].lease > 0 /\ rows[r].left > 0
      /\ rows[r].token # None /\ rows[r] # None /\ RowFits(r) /\ rows[r] \in Rows
      /\ rows[r].report = None
      /\ session.run = r /\ Waiting /\ pc \in {"none", "wait", "reoffer"}
      /\ HistorianClaimTypeOK /\ Kept
  <2>1. RowHolds(k) /\ Open(k[1])
    BY LiveIsOpen
  <2> QED
    BY <2>1, LiveIsOpen, Basics DEF RowHolds, Exists, RowFits
<1>1. SUFFICES ASSUME ~(rows'[r] # None /\ rows'[r].token = rows[r].token)
               PROVE  \E h \in heard' : h[1] = k[1]
  BY <1>0 DEF RowHolds, Exists
<1> HIDE DEF r
<1>2. CASE Wake
  <2>1. slot \in Slots /\ slot.run = r /\ rows[r].left <= slot.left
    BY <1>0, <1>2 DEF Kept, TaskKept, RunKept, Wake, HistorianClaimTypeOK, Waiting
  <2>2. slot.report # None
    BY <1>0, <1>2, <2>1 DEF Wake, Woken, Rows, Slots
  <2>3. slot.report.by \in heard /\ slot.report.by[1] = r
    BY <1>2, <1>0, <2>1, <2>2 DEF Kept, TaskKept, Wake
  <2> QED
    BY <1>2, <2>3 DEF Wake, past, r
<1>3. CASE Fire \/ (Firing /\ ~Wake)
  BY <1>0, <1>1, <1>3 DEF Fire, Firing, Queue, Answer, Validate, Publish, Abandon, Finish, Waiting
<1>4. CASE Sweep \/ Recover
  <2>1. SweptRows[r] = rows[r]
    BY <1>0, SweptRowFields DEF Lapsed, Expired
  <2>2. Recover => rows'[r] = SweptRows[r]
    BY <1>0, <2>1, RecoverFields
  <2> QED
    BY <1>0, <1>1, <1>4, <2>1, <2>2 DEF Sweep
<1>5. CASE Recovery /\ ~Recover
  <2>1. Reoffer => rows'[r] = rows[r] \/ rows[r].phase = "parked"
    BY <1>0 DEF Reoffer, HistorianClaimTypeOK
  <2> QED
    BY <1>0, <1>1, <1>5, <2>1 DEF Recovery, Adopt, RestartLoad, store
<1>6. CASE Tick
  BY <1>0, <1>1, <1>6, TickFields
<1>7. ASSUME NEW c \in Claimants, NEW q \in Firings, Claim(c, q)
      PROVE  rows'[r] = rows[r]
  <2>1. Claimable(rows[q])
    BY <1>0, <1>7, ClaimFields
  <2>2. q # r
    BY <1>0, <2>1 DEF Claimable
  <2> QED
    BY <1>0, <1>7, <2>2, ClaimFields
<1>8. ASSUME NEW c \in Claimants, Heartbeat(c)
      PROVE  rows'[r] # None /\ rows'[r].token = rows[r].token
  BY <1>0, <1>8, HeartbeatFields
<1>9. ASSUME NEW c \in Claimants, NEW kind \in Kinds, Complete(c, kind)
      PROVE  rows'[r] # None /\ rows'[r].token = rows[r].token
  BY <1>0, <1>9, CompleteFields, ZenonT(60)
<1>10. ASSUME UNCHANGED rows
       PROVE  FALSE
  BY <1>0, <1>1, <1>10
<1> QED
  BY <1>0, <1>1, <1>2, <1>3, <1>4, <1>5, <1>6, <1>7, <1>8, <1>9, <1>10
  DEF ClaimNext, Crash, GiveUp, store, vars

\* Nobody takes a claim whose lease runs before the run has its answer.
THEOREM NoLiveClaimIsTaken == ClaimSpec => LiveClaimsLast
<1>1. ClaimInv /\ [ClaimNext]_vars =>
        [\A k \in LiveClaims : RowHolds(k)' \/ \E h \in heard' : h[1] = k[1]]_vars
  BY LiveClaimsStay
<1> QED
  BY <1>1, InvAlways, PTL DEF ClaimSpec, LiveClaimsLast

-----------------------------------------------------------------------------
(* Stored answers. *)

\* What a step may do to a stored answer.
StaysOrIsSpent(r) ==
  \/ session'.phase = "validating"
  \/ Dropping(r)
  \/ AnswerStored(r)' /\ (Dropping(r)' => faults' = faults + 1)

LEMMA StoredTaskStep ==
  ASSUME ClaimInv, StoredKept, Fire \/ Firing
  PROVE  /\ StoredKept'
         /\ \A r \in Firings : AnswerStored(r) => StaysOrIsSpent(r)
<1>0. /\ HistorianClaimTypeOK /\ Kept /\ session \in Session
      /\ session.phase # "idle" => session.seq \in Firings
  BY Basics
<1>1. CASE Fire
  <2>1. session'.phase = "firing" /\ session.phase = "idle" /\ pc' = "queue"
    BY <1>1 DEF Fire, IdleSession
  <2> QED
    BY <2>1 DEF StoredKept, AnswerStored, Waiting
<1>2. CASE Queue
  <2>1. session.phase = "firing" /\ session.seq \in Firings
    BY <1>0, <1>2 DEF Queue, Kept, TaskKept
  <2>2. \/ session'.run = session.seq /\ rows'[session.seq].report = None /\ pc' = "wait"
        \/ session' = session /\ pc' = "abandon"
    BY <1>0, <1>2, <2>1, QueueFields
  <2> QED
    BY <2>1, <2>2 DEF StoredKept, AnswerStored, Waiting
<1>3. CASE Wake
  <2>1. /\ pc = "wait" /\ slot \in Slots /\ session.run = slot.run /\ session' = session
        /\ rows' = [rows EXCEPT ![slot.run] = None] /\ pc' \in {"answer", "abandon"}
    BY <1>0, <1>3 DEF Wake, Kept, TaskKept, RunKept, Waiting, HistorianClaimTypeOK
  <2>2. rows'[session.run] = None
    BY <1>0, <2>1 DEF HistorianClaimTypeOK, Slots
  <2> QED
    BY <2>1, <2>2 DEF StoredKept, AnswerStored, Exists
<1>4. CASE Answer
  <2>1. pc = "answer" /\ job # None /\ UNCHANGED rows
    BY <1>0, <1>4 DEF Answer, Kept, TaskKept
  <2>2. \A r \in Firings : AnswerStored(r) => Awaited
    BY <2>1 DEF StoredKept, AnswerStored, Awaited
  <2>3. CASE Awaited /\ ~Refused
    <3>1. session'.phase = "validating" /\ pc' = "validate"
      BY <1>0, <1>4, <2>3 DEF Answer, Session
    <3> QED
      BY <3>1 DEF StoredKept, AnswerStored, StaysOrIsSpent
  <2>5. CASE Refused
    <3>1. /\ session' = session /\ faults' = faults + 1
          /\ pc' = "none" \/ (pc' = "finish" /\ job' = job)
      BY <2>5 DEF Refused, Done
    <3>2. \A r \in Firings : AnswerStored(r)' <=> AnswerStored(r)
      BY <2>1, <3>1 DEF AnswerStored, Exists
    <3> QED
      BY <2>1, <3>1, <3>2 DEF StoredKept, StaysOrIsSpent
  <2>4. CASE ~Awaited
    <3>1. session' = session /\ pc' \in {"finish", "none"}
      BY <1>4, <2>4 DEF Answer, Done
    <3> QED
      BY <2>1, <2>2, <2>4, <3>1 DEF StoredKept, AnswerStored, Exists
  <2> QED
    BY <2>3, <2>4, <2>5
<1>5. CASE Validate \/ Publish \/ Abandon
  <2>1. /\ pc \in {"validate", "publish", "abandon"} /\ pc' # "restart"
        /\ \A r \in Firings : ~AnswerStored(r)
        /\ job \in Jobs
    BY <1>0, <1>5 DEF Validate, Publish, Abandon, Refused, Done, StoredKept, Kept, TaskKept,
                      HistorianClaimTypeOK
  <2>2. session' = session \/ session'.phase \in {"idle", "publishing"}
    BY <1>0, <1>5 DEF Validate, Publish, Abandon, Refused, IdleSession, Session
  <2>3. \A r \in Firings : rows'[r] = rows[r] \/ rows'[r] = None
    BY <1>0, <1>5, <2>1 DEF Validate, Publish, Abandon, HistorianClaimTypeOK, Jobs
  <2>4. ASSUME NEW r \in Firings PROVE ~AnswerStored(r)'
    BY <2>1, <2>2, <2>3 DEF AnswerStored, Exists
  <2> QED
    BY <2>1, <2>4 DEF StoredKept
<1>6. CASE Finish
  <2>1. /\ pc = "finish" /\ pc' = "none" /\ session' = session /\ job \in Jobs
        /\ rows' = [rows EXCEPT ![job.run] = None]
    BY <1>0, <1>6 DEF Finish, Kept, TaskKept, HistorianClaimTypeOK
  <2>2. \A r \in Firings : AnswerStored(r) => job.run = r
    BY <2>1 DEF StoredKept
  <2>3. \A r \in Firings : rows'[r] # None => rows'[r] = rows[r] /\ r # job.run
    BY <1>0, <2>1 DEF HistorianClaimTypeOK, Jobs
  <2>4. ASSUME NEW r \in Firings PROVE ~AnswerStored(r)'
    BY <2>1, <2>2, <2>3 DEF AnswerStored, Exists
  <2> QED
    BY <2>1, <2>2, <2>4 DEF StoredKept, StaysOrIsSpent, Dropping
<1> QED
  BY <1>1, <1>2, <1>3, <1>4, <1>5, <1>6 DEF Firing

LEMMA StoredRecoveryStep ==
  ASSUME ClaimInv, StoredKept, Recovery \/ Sweep
  PROVE  /\ StoredKept'
         /\ \A r \in Firings : AnswerStored(r) => AnswerStored(r)'
<1>0. /\ HistorianClaimTypeOK /\ Kept /\ session \in Session
      /\ session.phase # "idle" => session.seq \in Firings
      /\ session.run # None => session.run \in Firings
  BY Basics DEF Session
<1>1. CASE Sweep \/ Recover
  <2>1. session' = SweptSession /\ (Recover => pc = "none") /\ job' = job
    BY <1>0, <1>1, RecoverFields DEF Sweep, module
  <2>2. ASSUME NEW r \in Firings, AnswerStored(r) PROVE AnswerStored(r)' /\ rows'[r] = rows[r] /\ session' = session
    <3>1. rows[r].phase = "reported" /\ rows[r].report # None /\ session.run = r
      BY <2>2 DEF StoredKept, AnswerStored
    <3>2. SweptRows[r] = rows[r] /\ ~Lapsed(r)
      BY <1>0, <3>1, SweptRowFields DEF Lapsed, Expired
    <3>3. session' = session
      BY <1>0, <2>1, <3>1, <3>2, SweptSessionFields
    <3>4. rows'[r] = rows[r]
      BY <1>0, <1>1, <3>1, <3>2, RecoverFields DEF Sweep
    <3> QED
      BY <2>2, <3>3, <3>4 DEF AnswerStored, Exists
  <2>3. ASSUME NEW r \in Firings, AnswerStored(r)' PROVE AnswerStored(r)
    <3>1. SweptRows[r] # None /\ SweptRows[r].report = rows'[r].report /\ rows'[r].report # None
      BY <1>0, <1>1, <2>3, RecoverFields DEF AnswerStored, Exists, SameRun, Sweep
    <3>2. rows[r] # None /\ rows[r].report = rows'[r].report
      BY <1>0, <3>1, SweptRowFields DEF SameRun, Lapsed, Exists
    <3>3. session.run = r /\ Waiting
      BY <2>1, <2>3, SweptSessionKept DEF AnswerStored, Waiting
    <3> QED
      BY <2>3, <3>2, <3>3 DEF AnswerStored, Waiting, Exists
  <2>4. ASSUME NEW r \in Firings, AnswerStored(r) PROVE pc' \in {"none", "adopt", "answer", "finish"} /\ (pc' \in {"answer", "finish"} => job'.run = r)
    <3>1. CASE Sweep
      BY <2>4, <3>1 DEF Sweep, module, StoredKept
    <3>2. CASE Recover
      <4>1. rows'[r] = rows[r] /\ rows[r].report # None /\ rows[r] # None /\ session.run = r /\ Waiting
            /\ rows[r].phase = "reported"
        BY <2>2, <2>4 DEF AnswerStored, Exists, Waiting, StoredKept
      <4>2. SweptRows[r] = rows[r]
        BY <1>0, <4>1, SweptRowFields DEF Lapsed, Expired
      <4> QED
        BY <1>0, <3>2, <4>1, <4>2, RecoverFields
    <3> QED
      BY <1>1, <3>1, <3>2
  <2>5. pc' = "restart" /\ Waiting' => rows'[session'.run] = None
    <3>1. SUFFICES ASSUME pc' = "restart", Waiting' PROVE rows'[session'.run] = None
      OBVIOUS
    <3>2. Waiting /\ session'.run = session.run /\ session.run \in Firings
      BY <1>0, <2>1, <3>1, SweptSessionKept DEF Waiting, Kept, RunKept
    <3>3. CASE Recover
      <4>1. SweptRows[session.run] = None
        BY <1>0, <3>1, <3>2, <3>3, RecoverFields
      <4> QED
        BY <1>0, <3>1, <3>2, <3>3, <4>1, RecoverFields
    <3>4. CASE Sweep
      <4>1. rows[session.run] = None /\ rows' = SweptRows
        BY <3>1, <3>2, <3>4 DEF Sweep, module, StoredKept
      <4> QED
        BY <1>0, <3>2, <4>1, SweptRowFields DEF Lapsed, Exists
    <3> QED
      BY <1>1, <3>3, <3>4
  <2> QED
    BY <2>2, <2>3, <2>4, <2>5 DEF StoredKept
<1>2. CASE Reoffer
  <2>1. \A q \in Firings : rows'[q] = rows[q] \/ rows'[q].report = None
    BY <1>0, <1>2, ReofferFields DEF SameRun
  <2>2. pc = "reoffer" /\ pc' = "none" /\ session' = session
    BY <1>0, <1>2, ReofferFields
  <2>3. ASSUME NEW r \in Firings PROVE ~AnswerStored(r) /\ ~AnswerStored(r)'
    BY <2>1, <2>2 DEF StoredKept, AnswerStored, Exists
  <2> QED
    BY <2>2, <2>3 DEF StoredKept
<1>3. CASE Adopt
  <2>1. /\ UNCHANGED <<session, rows>> /\ pc = "adopt" /\ pc' # "restart"
        /\ \A r \in Firings : AnswerStored(r)' <=> AnswerStored(r)
    BY <1>3 DEF Adopt, store, AnswerStored, Exists
  <2>2. ASSUME NEW r \in Firings, AnswerStored(r)
        PROVE  pc' = "answer" /\ job'.run = r
    BY <1>3, <2>2 DEF Adopt, AnswerStored
  <2> QED
    BY <2>1, <2>2 DEF StoredKept
<1>4. CASE RestartLoad
  <2>1. /\ pc = "restart" /\ session' = session /\ pc' # "restart"
        /\ \A q \in Firings : rows[q] = None => rows'[q] = None
    BY <1>0, <1>4, RestartFields
  <2>2. ASSUME NEW r \in Firings PROVE ~AnswerStored(r) /\ ~AnswerStored(r)'
    BY <2>1 DEF StoredKept, AnswerStored, Exists, Waiting
  <2> QED
    BY <2>1, <2>2 DEF StoredKept
<1> QED
  BY <1>1, <1>2, <1>3, <1>4 DEF Recovery

LEMMA StoredLaneStep ==
  ASSUME ClaimInv, StoredKept,
         Tick \/ Crash \/ (\E c \in Claimants :
           \/ \E r \in Firings : Claim(c, r)
           \/ Heartbeat(c) \/ GiveUp(c)
           \/ \E kind \in Kinds : Complete(c, kind)) \/ UNCHANGED vars
  PROVE  /\ StoredKept'
         /\ \A r \in Firings : AnswerStored(r) => AnswerStored(r)'
<1>0. /\ HistorianClaimTypeOK /\ Kept /\ session \in Session
      /\ session.run \in Firings \cup {None}
      /\ Waiting => session.run \in Firings
  BY Basics DEF Session, Kept, RunKept, Waiting
<1>1. CASE Tick
  <2>1. UNCHANGED <<pc, job>>
    BY <1>1 DEF Tick
  <2>2. \A r \in Firings : /\ AnswerStored(r) <=> AnswerStored(r)'
                           /\ rows[r] # None => /\ rows'[r].attempt = rows[r].attempt
                                                /\ rows'[r].phase = rows[r].phase
    BY <1>0, <1>1, TickFields DEF AnswerStored, Exists
  <2> QED
    BY <1>0, <1>1, <2>1, <2>2, TickFields DEF StoredKept, Waiting, AnswerStored, Exists
<1>2. CASE Crash
  BY <1>2 DEF Crash, store, StoredKept, AnswerStored, Exists
<1>3. ASSUME NEW c \in Claimants, NEW q \in Firings, Claim(c, q)
      PROVE  StoredKept' /\ \A r \in Firings : AnswerStored(r) => AnswerStored(r)'
  <2>1. /\ rows[q] \in Rows /\ rows'[q].report = rows[q].report /\ rows[q].report = None
        /\ session.run = q /\ session'.run = q /\ UNCHANGED <<pc, job>>
        /\ pc # "restart"
    <3>1. rows[q] \in Rows /\ Open(q) /\ rows'[q].report = rows[q].report
          /\ session'.run = q /\ session.run = q
      BY <1>0, <1>3, ClaimFields
    <3>2. rows[q] # None /\ RowFits(q) /\ rows[q].phase \in {"pending", "claimed"}
      BY <3>1, Basics DEF Open, Exists
    <3>3. rows[q].report = None
      BY <3>2 DEF RowFits
    <3>4. UNCHANGED <<pc, job>>
      BY <1>3 DEF Claim, module
    <3>5. pc # "restart"
      BY <1>0, <3>1 DEF Kept, OpenKept
    <3> QED
      BY <3>1, <3>3, <3>4, <3>5
  <2>2. ASSUME NEW r \in Firings PROVE ~AnswerStored(r) /\ ~AnswerStored(r)'
    BY <2>1 DEF AnswerStored
  <2> QED
    BY <2>1, <2>2 DEF StoredKept
<1>4. ASSUME NEW c \in Claimants, Heartbeat(c)
      PROVE  StoredKept' /\ \A r \in Firings : AnswerStored(r) => AnswerStored(r)'
  <2>1. UNCHANGED <<pc, job>> /\ session'.phase = session.phase /\ session'.run = session.run
        /\ session'.attempt = session.attempt
    BY <1>0, <1>4, HeartbeatFields DEF Heartbeat, module
  <2>2. ASSUME NEW r \in Firings
        PROVE  rows'[r] = rows[r] \/ (/\ rows'[r] # None /\ rows[r] # None
                                      /\ SameRun(rows'[r], rows[r])
                                      /\ rows'[r].phase = rows[r].phase)
    BY <1>0, <1>4, HeartbeatFields
  <2>3. \A r \in Firings : AnswerStored(r) <=> AnswerStored(r)'
    BY <2>1, <2>2 DEF AnswerStored, Exists, SameRun
  <2> QED
    BY <1>0, <2>1, <2>2, <2>3, SMTT(30) DEF StoredKept, Waiting, AnswerStored, Exists, SameRun
<1>5. ASSUME NEW c \in Claimants, NEW kind \in Kinds, Complete(c, kind)
      PROVE  StoredKept' /\ \A r \in Firings : AnswerStored(r) => AnswerStored(r)'
  <2>1. UNCHANGED <<session, pc, job>>
    BY <1>0, <1>5, CompleteFields
  <2> DEFINE k == claim[c]
             report == [by |-> k, kind |-> kind]
  <2>2. ASSUME NEW q \in Firings
        PROVE  \/ rows'[q] = rows[q]
               \/ /\ q = k[1] /\ k \in heard' /\ slot' = slot /\ Authorized(k)
                  /\ slot = None \/ slot.run # q
                  /\ rows[q] # None /\ rows'[q] # None /\ rows[q].report = None
                  /\ rows'[q].phase = "reported" /\ rows'[q].report = report
                  /\ rows'[q].attempt = rows[q].attempt /\ rows'[q].token = rows[q].token
                  /\ rows'[q].left = rows[q].left
    BY <1>0, <1>5, CompleteFields
  <2>7. k \in Claims
    BY <1>0, <1>5, CompleteFields
  <2> HIDE DEF k, report
  <2>3. \A r \in Firings : AnswerStored(r) => AnswerStored(r)' /\ rows'[r] = rows[r]
    BY <2>1, <2>2 DEF AnswerStored, Exists
  <2>4. pc \in {"none", "wait", "adopt", "restart"}
    BY <1>0, <1>5, StretchTyped DEF Complete, Quiet, HistorianClaimTypeOK
  <2>5. ASSUME NEW r \in Firings, AnswerStored(r)', ~AnswerStored(r)
        PROVE  /\ session.phase = "awaiting" /\ session.attempt = rows'[r].attempt
               /\ rows'[r].phase = "reported" /\ pc \in {"none", "adopt"}
    <3>1. /\ r = k[1] /\ Authorized(k) /\ (slot = None \/ slot.run # r)
          /\ rows[r] # None /\ rows'[r].phase = "reported" /\ rows'[r].attempt = rows[r].attempt
      BY <2>1, <2>2, <2>5 DEF AnswerStored, Exists
    <3>2. /\ session.run = r /\ Waiting /\ rows[r].token = session.token
          /\ session.token # None
      BY <2>1, <2>5, <2>7, <3>1
      DEF AnswerStored, Waiting, Authorized, RowHolds, SessionHolds, Claims
    <3>3. session.phase = "awaiting" /\ session.attempt = rows[r].attempt
      BY <1>0, <3>1, <3>2, Basics DEF Kept, RunKept, RowFits, Waiting
    <3>4. pc # "wait" /\ pc # "restart"
      BY <1>0, <3>1, <3>2 DEF Kept, TaskKept, RunKept, Waiting, StoredKept
    <3> QED
      BY <2>4, <3>1, <3>3, <3>4
  <2>6. pc = "restart" /\ Waiting => rows'[session.run] = None
    BY <1>0, <2>2 DEF StoredKept
  <2> QED
    BY <2>1, <2>3, <2>5, <2>6 DEF StoredKept, Waiting
<1>6. CASE UNCHANGED <<store, module, past>>
  BY <1>6 DEF store, module, StoredKept, AnswerStored, Exists, Waiting
<1> QED
  BY <1>1, <1>2, <1>3, <1>4, <1>5, <1>6 DEF GiveUp, vars

\* Only the task of the session comes to the deletion of an adopted row.
LEMMA DroppingStarts ==
  ASSUME ClaimInv, [ClaimNext]_vars, ~(Fire \/ Firing), pc' = "finish"
  PROVE  UNCHANGED <<pc, job>>
<1>1. Recovery => pc' \in {"none", "adopt", "answer", "abandon", "reoffer", "restart"}
  BY SMTT(30) DEF Recovery, Recover, Reoffer, Adopt, RestartLoad
<1>2. ASSUME NEW c \in Claimants,
             \/ \E r \in Firings : Claim(c, r)
             \/ Heartbeat(c) \/ GiveUp(c)
             \/ \E kind \in Kinds : Complete(c, kind)
      PROVE  UNCHANGED <<pc, job>>
  BY <1>2 DEF Claim, Heartbeat, GiveUp, Complete, module
<1>3. Sweep \/ Tick \/ UNCHANGED vars => UNCHANGED <<pc, job>>
  BY DEF Sweep, Tick, module, vars
<1>4. Crash => pc' = "none"
  BY DEF Crash
<1> QED
  BY <1>1, <1>2, <1>3, <1>4 DEF ClaimNext

\* A stored answer stays until it is taken up for publication, or its adoption could
\* not be recorded.
THEOREM StoredAnswersStay == ClaimSpec => StoredAnswersAreKept
<1>1. ClaimInit => StoredKept
  BY DEF ClaimInit, StoredKept, AnswerStored, Exists
<1>2. ClaimInv /\ StoredKept /\ [ClaimNext]_vars =>
        /\ StoredKept'
        /\ \A r \in Firings : AnswerStored(r) => StaysOrIsSpent(r)
  <2> SUFFICES ASSUME ClaimInv, StoredKept, [ClaimNext]_vars
               PROVE  StoredKept' /\ \A r \in Firings : AnswerStored(r) => StaysOrIsSpent(r)
    OBVIOUS
  <2>1. CASE Fire \/ Firing
    BY <2>1, StoredTaskStep
  <2>2. CASE ~(Fire \/ Firing)
    <3>1. StoredKept' /\ \A r \in Firings : AnswerStored(r) => AnswerStored(r)'
      BY <2>2, StoredRecoveryStep, StoredLaneStep DEF ClaimNext
    <3>2. \A r \in Firings : Dropping(r)' => Dropping(r)
      BY <2>2, DroppingStarts DEF Dropping
    <3> QED
      BY <3>1, <3>2 DEF StaysOrIsSpent
  <2> QED
    BY <2>1, <2>2
<1>3. ClaimInv /\ StoredKept /\ [ClaimNext]_vars => StoredKept'
  BY <1>2
<1>4. ClaimInv /\ StoredKept /\ [ClaimNext]_vars =>
        [\A r \in Firings : AnswerStored(r) => StaysOrIsSpent(r)]_vars
  BY <1>2
<1> QED
  BY <1>1, <1>3, <1>4, InvAlways, PTL DEF ClaimSpec, StoredAnswersAreKept, StaysOrIsSpent

-----------------------------------------------------------------------------
(* The lane. *)

\* A row keeps its number, and its token until it loses it; the session, its run.
RowGoesOn(new, row) ==
  new = None \/ (row # None /\ new.attempt = row.attempt /\ new.token \in {row.token, None})
RowsGoOn ==
  /\ session'.seq = session.seq /\ session'.run \in {session.run, None}
  /\ session'.phase = "firing" => session.phase = "firing"
  /\ session'.phase # "idle" => session.phase # "idle"
  /\ \A r \in Firings : RowGoesOn(rows'[r], rows[r])

LEMMA RowsLaneStay ==
  ASSUME LaneKept, RowsGoOn, granted' = granted
  PROVE  RowsLane'
<1>1. \A r \in Firings : r # None
  OBVIOUS
<1> QED
  BY <1>1 DEF LaneKept, RowsLane, RowsGoOn, RowGoesOn

LEMMA PublishedLaneStay ==
  ASSUME LaneKept, RowsGoOn, published' = published
  PROVE  PublishedLane'
BY DEF LaneKept, PublishedLane, RowsGoOn

LEMMA ClaimsLaneStay ==
  ASSUME LaneKept, granted' = granted, heard' = heard,
         \A c \in Claimants : claim'[c] \in {claim[c], None}
  PROVE  ClaimsLane'
BY DEF LaneKept, ClaimsLane, UpTo

LEMMA LaneFireKept == ASSUME ClaimInv, LaneKept, Fire PROVE LaneKept'
<1>1. /\ session'.seq = session.seq + 1 /\ session'.run = None /\ session.seq \in Nat
      /\ UNCHANGED <<rows, claim, granted, heard, published>>
  BY Basics DEF Fire, IdleSession, past
<1>2. granted # None => granted[1] \in Nat
  BY Basics DEF HistorianClaimTypeOK, Claims
<1>3. \A k \in published : k[1] \in Nat
  BY Basics DEF HistorianClaimTypeOK, Claims
<1>4. RowsLane'
  BY <1>1, <1>2 DEF LaneKept, RowsLane
<1>5. PublishedLane'
  BY <1>1, <1>3 DEF LaneKept, PublishedLane
<1> QED
  BY <1>1, <1>4, <1>5, ClaimsLaneStay DEF LaneKept

LEMMA LaneQueueKept == ASSUME ClaimInv, LaneKept, Queue PROVE LaneKept'
<1>1. /\ HistorianClaimTypeOK /\ session.phase = "firing" /\ session.seq \in Firings
      /\ granted # None => granted[1] \in Nat
  BY Basics DEF Queue, Kept, TaskKept, HistorianClaimTypeOK, Claims
<1>2. UNCHANGED <<claim, granted, heard, published>>
  BY DEF Queue, past
<1>3. \/ /\ session'.phase = "reclaiming" /\ session'.seq = session.seq
         /\ session'.run = session.seq /\ rows'[session.seq].token = None
         /\ \A q \in Firings \ {session.seq} : rows'[q] = rows[q]
      \/ UNCHANGED <<session, rows>>
  BY <1>1, QueueFields
<1>4. RowsLane'
  BY <1>1, <1>2, <1>3 DEF LaneKept, RowsLane
<1>5. PublishedLane'
  BY <1>1, <1>2, <1>3 DEF LaneKept, PublishedLane
<1> QED
  BY <1>2, <1>4, <1>5, ClaimsLaneStay DEF LaneKept

LEMMA TaskGoesOn ==
  ASSUME ClaimInv, Wake \/ Answer \/ Validate \/ Publish \/ Abandon \/ Finish
  PROVE  RowsGoOn
<1>1. /\ session \in Session /\ HistorianClaimTypeOK /\ Kept
  BY Basics
<1>2. \A q \in Firings : rows'[q] \in {rows[q], None}
  BY <1>1 DEF Wake, Answer, Validate, Publish, Abandon, Finish, HistorianClaimTypeOK, store
<1>3. \/ session' = session \/ session' = IdleSession(session.seq)
      \/ /\ session' = [session EXCEPT !.phase = "validating"] /\ session.phase # "idle"
      \/ /\ session' = [session EXCEPT !.phase = "publishing"] /\ session.phase # "idle"
  BY <1>1 DEF Wake, Answer, Validate, Publish, Abandon, Finish, Refused, store, Awaited, Kept,
              TaskKept
<1>4. /\ session'.seq = session.seq /\ session'.run \in {session.run, None}
      /\ session'.phase = "firing" => session.phase = "firing"
      /\ session'.phase # "idle" => session.phase # "idle"
  BY <1>1, <1>3 DEF IdleSession, Session
<1> QED
  BY <1>2, <1>4 DEF RowsGoOn, RowGoesOn

LEMMA RecoveryGoesOn ==
  ASSUME ClaimInv, Recovery \/ Sweep
  PROVE  RowsGoOn
<1>1. /\ session \in Session /\ HistorianClaimTypeOK /\ Kept
      /\ session.phase # "idle" => session.seq \in Firings
  BY Basics
<1>2. ASSUME NEW q \in Firings
      PROVE  RowGoesOn(SweptRows[q], rows[q])
  BY <1>1, SweptRowFields DEF Lapsed, Exists, SameRun, RowGoesOn
<1>3. CASE Recover \/ Sweep
  <2>1. session' = SweptSession
    BY <1>1, <1>3, RecoverFields DEF Sweep
  <2>2. /\ session'.seq = session.seq /\ session'.run = session.run
        /\ session'.phase = session.phase
           \/ (session.phase = "awaiting" /\ session'.phase = "reclaiming")
    BY <2>1, SweptSessionKept
  <2>3. ASSUME NEW q \in Firings
        PROVE  RowGoesOn(rows'[q], rows[q])
    <3>1. CASE Sweep
      BY <1>2, <3>1 DEF Sweep
    <3>2. CASE Recover
      BY <1>1, <1>2, <3>2, RecoverFields DEF SameRun, RowGoesOn
    <3> QED
      BY <1>3, <3>1, <3>2
  <2> QED
    BY <2>2, <2>3 DEF RowsGoOn, RowGoesOn
<1>4. CASE Reoffer
  BY <1>1, <1>4, ReofferFields DEF RowsGoOn, RowGoesOn, SameRun
<1>5. CASE Adopt
  BY <1>5 DEF Adopt, store, RowsGoOn, RowGoesOn
<1>6. CASE RestartLoad
  BY <1>1, <1>6, RestartFields DEF RowsGoOn, RowGoesOn, SameRun
<1> QED
  BY <1>3, <1>4, <1>5, <1>6 DEF Recovery

LEMMA ClockGoesOn ==
  ASSUME ClaimInv, Tick \/ UNCHANGED store \/ \E c \in Claimants :
           Heartbeat(c) \/ \E kind \in Kinds : Complete(c, kind)
  PROVE  RowsGoOn
<1>1. HistorianClaimTypeOK
  BY Basics
<1>2. CASE Tick
  BY <1>1, <1>2, TickFields DEF RowsGoOn, RowGoesOn
<1>3. CASE UNCHANGED store
  BY <1>3 DEF store, RowsGoOn, RowGoesOn
<1>4. ASSUME NEW c \in Claimants, Heartbeat(c) PROVE RowsGoOn
  BY <1>1, <1>4, HeartbeatFields DEF RowsGoOn, RowGoesOn, SameRun
<1>5. ASSUME NEW c \in Claimants, NEW kind \in Kinds, Complete(c, kind) PROVE RowsGoOn
  <2>1. session' = session
    BY <1>1, <1>5, CompleteFields
  <2>2. ASSUME NEW q \in Firings
        PROVE  RowGoesOn(rows'[q], rows[q])
    BY <1>1, <1>5, CompleteFields DEF RowGoesOn
  <2> QED
    BY <2>1, <2>2 DEF RowsGoOn, RowGoesOn
<1> QED
  BY <1>2, <1>3, <1>4, <1>5

LEMMA LanePublishKept == ASSUME ClaimInv, LaneKept, Publish PROVE LaneKept'
<1>1. /\ RowsGoOn /\ UNCHANGED <<claim, granted, heard>>
  BY TaskGoesOn DEF Publish
<1>2. /\ session.seq \in Firings
      /\ session' = IdleSession(session.seq) \/ published' = published
      /\ published' \subseteq published \cup {job.report.by}
      /\ job.report.by[1] = session.seq
  BY Basics DEF Publish, Kept, RunKept, TaskKept
<1>3. PublishedLane'
  <2>1. CASE published' = published
    BY <1>1, <2>1, PublishedLaneStay
  <2>2. CASE session' = IdleSession(session.seq)
    <3>1. session'.seq = session.seq /\ session'.phase = "idle"
      BY <2>2 DEF IdleSession
    <3> QED
      BY <1>2, <3>1 DEF LaneKept, PublishedLane
  <2> QED
    BY <1>2, <2>1, <2>2
<1> QED
  BY <1>1, <1>3, RowsLaneStay, ClaimsLaneStay DEF LaneKept

\* A grant is newer than any before it.
LEMMA GrantIsNewer ==
  ASSUME ClaimInv, LaneKept, NEW c \in Claimants, NEW r \in Firings, Claim(c, r)
  PROVE  /\ granted' = <<r, rows[r].attempt + 1>> /\ granted' \in Claims
         /\ r = session.seq /\ session.phase # "idle"
         /\ granted # None => /\ granted \in Claims
                              /\ granted[1] < r \/ (granted[1] = r /\ granted[2] <= rows[r].attempt)
         /\ claim' = [claim EXCEPT ![c] = granted'] /\ UNCHANGED <<heard, published>>
<1>1. /\ HistorianClaimTypeOK /\ rows[r] \in Rows /\ session.run = r /\ Waiting
      /\ granted' = <<r, rows[r].attempt + 1>>
      /\ claim' = [claim EXCEPT ![c] = granted'] /\ UNCHANGED <<heard, published>>
  BY Basics, ClaimFields DEF Claim
<1>2. r = session.seq /\ session.phase # "idle"
  BY <1>1, Basics DEF Kept, RunKept, Waiting
<1>3. rows[r].attempt \in Nat /\ granted' \in Claims
  BY <1>1 DEF Rows, Claims
<1>4. granted # None =>
        /\ granted \in Claims /\ granted[1] \in Firings
        /\ granted[1] <= r /\ (granted[1] = r => granted[2] <= rows[r].attempt)
  BY <1>1, <1>2 DEF LaneKept, RowsLane, HistorianClaimTypeOK, Claims
<1> QED
  BY <1>1, <1>2, <1>3, <1>4

LEMMA LaneGrantKept ==
  ASSUME ClaimInv, LaneKept, NEW c \in Claimants, NEW r \in Firings, Claim(c, r)
  PROVE  LaneKept'
<1> DEFINE n == rows[r].attempt + 1
<1>0. HistorianClaimTypeOK /\ rows[r].attempt \in Nat
  BY Basics, ClaimFields DEF Rows
<1>1. /\ granted' = <<r, n>> /\ r = session.seq /\ session.phase # "idle"
      /\ granted # None => /\ granted \in Claims
                           /\ granted[1] < r \/ (granted[1] = r /\ granted[2] < n)
      /\ claim' = [claim EXCEPT ![c] = granted'] /\ UNCHANGED <<heard, published>>
      /\ claim \in [Claimants -> Claims \cup {None}]
  BY <1>0, GrantIsNewer DEF HistorianClaimTypeOK, Claims
<1>2. /\ session'.seq = session.seq /\ session'.run = r /\ session'.phase = "awaiting"
      /\ rows'[r].attempt = n /\ rows'[r].token = n
      /\ \A q \in Firings \ {r} : rows'[q] = rows[q]
  BY <1>0, ClaimFields
<1>3. RowsLane'
  BY <1>0, <1>1, <1>2 DEF RowsLane
<1>4. PublishedLane'
  BY <1>1, <1>2 DEF LaneKept, PublishedLane
<1>5. ASSUME NEW k \in Claims, granted # None, UpTo(k, granted)
      PROVE  k # granted' /\ UpTo(k, granted')
  BY <1>0, <1>1, <1>5 DEF UpTo, Claims
<1>6. ClaimsLane'
  <2>1. heard \subseteq Claims /\ granted' # None /\ UpTo(granted', granted')
    BY <1>0, <1>1 DEF HistorianClaimTypeOK, UpTo, Claims
  <2>2. \A k \in heard : k # granted' /\ UpTo(k, granted')
    BY <1>5, <2>1 DEF LaneKept, ClaimsLane
  <2>3. \A d \in Claimants : claim[d] # None =>
          claim[d] # granted' /\ UpTo(claim[d], granted') /\ claim[d] \notin heard
    BY <1>1, <1>5 DEF LaneKept, ClaimsLane
  <2>4. claim'[c] = granted' /\ \A d \in Claimants \ {c} : claim'[d] = claim[d]
    BY <1>1
  <2>5. \A d, e \in Claimants : claim'[d] # None /\ claim'[d] = claim'[e] => d = e
    BY <2>3, <2>4 DEF LaneKept, ClaimsLane
  <2>6. \A d \in Claimants : claim'[d] # None =>
          claim'[d] \notin heard /\ UpTo(claim'[d], granted')
    BY <2>1, <2>2, <2>3, <2>4
  <2> QED
    BY <1>1, <2>1, <2>2, <2>5, <2>6 DEF ClaimsLane, UpTo
<1> QED
  BY <1>3, <1>4, <1>6 DEF LaneKept

\* A claim that is heard is the one granted last.
LEMMA HeardIsNewest ==
  ASSUME ClaimInv, LaneKept, NEW c \in Claimants, NEW kind \in Kinds, Complete(c, kind)
  PROVE  /\ heard' = heard \/ (heard' = heard \cup {granted} /\ claim[c] = granted)
         /\ claim[c] # None /\ claim' = [claim EXCEPT ![c] = None]
         /\ UNCHANGED <<granted, published>>
<1>1. /\ HistorianClaimTypeOK /\ claim[c] \in Claims /\ claim[c] # None
      /\ heard' = heard \/ (heard' = heard \cup {claim[c]} /\ Authorized(claim[c]))
      /\ claim' = [claim EXCEPT ![c] = None] /\ UNCHANGED <<granted, published>>
  BY Basics, CompleteFields
<1>2. ASSUME Authorized(claim[c]) PROVE claim[c] = granted
  <2>1. PICK r \in Firings, n \in Nat : claim[c] = <<r, n>>
    BY <1>1 DEF Claims
  <2>2. rows[r] # None /\ rows[r].token = n /\ session.run = r
    BY <1>2, <2>1 DEF Authorized, RowHolds, SessionHolds, Exists
  <2>3. granted = <<r, n>>
    BY <2>2 DEF LaneKept, RowsLane
  <2> QED
    BY <2>1, <2>3
<1> QED
  BY <1>1, <1>2

LEMMA LaneCompleteKept ==
  ASSUME ClaimInv, LaneKept, NEW c \in Claimants, NEW kind \in Kinds, Complete(c, kind)
  PROVE  LaneKept'
<1>1. RowsLane' /\ PublishedLane'
  BY HeardIsNewest, ClockGoesOn, RowsLaneStay, PublishedLaneStay
<1>2. ClaimsLane'
  <2>1. /\ heard' = heard \/ (heard' = heard \cup {granted} /\ claim[c] = granted)
        /\ claim[c] # None /\ claim' = [claim EXCEPT ![c] = None] /\ granted' = granted
        /\ claim \in [Claimants -> Claims \cup {None}]
    BY HeardIsNewest, Basics DEF HistorianClaimTypeOK
  <2>2. granted # None /\ UpTo(claim[c], granted)
    BY <2>1 DEF LaneKept, ClaimsLane
  <2>3. \A k \in heard' : UpTo(k, granted)
    BY <2>1, <2>2 DEF LaneKept, ClaimsLane
  <2>4. ASSUME NEW d \in Claimants, claim'[d] # None
        PROVE  claim'[d] = claim[d] /\ d # c /\ claim[d] \notin heard' /\ UpTo(claim[d], granted)
    BY <2>1, <2>4 DEF LaneKept, ClaimsLane
  <2>5. \A d, e \in Claimants : claim'[d] # None /\ claim'[d] = claim'[e] => d = e
    BY <2>4 DEF LaneKept, ClaimsLane
  <2> QED
    BY <2>1, <2>2, <2>3, <2>4, <2>5 DEF ClaimsLane, UpTo
<1> QED
  BY <1>1, <1>2 DEF LaneKept

LEMMA LaneAtStart == ClaimInit => LaneKept
BY DEF ClaimInit, LaneKept, RowsLane, ClaimsLane, PublishedLane

LEMMA LaneStays == ASSUME ClaimInv, LaneKept, [ClaimNext]_vars PROVE LaneKept'
<1> USE DEF past, store, module
<1>1. CASE Fire \/ Queue \/ Publish
  BY <1>1, LaneFireKept, LaneQueueKept, LanePublishKept
<1>2. CASE Wake \/ Answer \/ Validate \/ Abandon \/ Finish
  <2>1. UNCHANGED <<claim, granted, heard, published>>
    BY <1>2 DEF Wake, Answer, Validate, Abandon, Finish
  <2> QED
    BY <1>2, <2>1, TaskGoesOn, RowsLaneStay, ClaimsLaneStay, PublishedLaneStay DEF LaneKept
<1>3. CASE Recovery \/ Sweep
  <2>1. UNCHANGED <<claim, granted, heard, published>>
    BY <1>3 DEF Recovery, Recover, Reoffer, Adopt, RestartLoad, Sweep
  <2> QED
    BY <1>3, <2>1, RecoveryGoesOn, RowsLaneStay, ClaimsLaneStay, PublishedLaneStay DEF LaneKept
<1>4. CASE Tick \/ Crash \/ UNCHANGED vars
  <2>1. UNCHANGED <<claim, granted, heard, published>> /\ (Tick \/ UNCHANGED store)
    BY <1>4 DEF Tick, Crash, vars
  <2> QED
    BY <2>1, ClockGoesOn, RowsLaneStay, ClaimsLaneStay, PublishedLaneStay DEF LaneKept
<1>5. ASSUME NEW c \in Claimants, Heartbeat(c) \/ GiveUp(c) PROVE LaneKept'
  <2>1. /\ UNCHANGED <<granted, heard, published>> /\ (Heartbeat(c) \/ UNCHANGED store)
        /\ claim' = claim \/ claim' = [claim EXCEPT ![c] = None]
    BY <1>5 DEF Heartbeat, GiveUp
  <2>2. \A d \in Claimants : claim'[d] \in {claim[d], None}
    BY <2>1, Basics DEF HistorianClaimTypeOK
  <2> QED
    BY <2>1, <2>2, ClockGoesOn, RowsLaneStay, ClaimsLaneStay, PublishedLaneStay DEF LaneKept
<1> QED
  BY <1>1, <1>2, <1>3, <1>4, <1>5, LaneGrantKept, LaneCompleteKept DEF ClaimNext, Firing

\* A claim in force is the one granted last, and is not heard yet.
NewestHeld == Held => granted # None /\ granted \notin heard

LEMMA HeldIsNewest == ClaimInv /\ LaneKept => NewestHeld
<1> SUFFICES ASSUME ClaimInv, LaneKept PROVE NewestHeld
  OBVIOUS
<1>1. ASSUME NEW k \in LiveClaims, k \notin heard PROVE granted = k /\ k # None
  <2>1. /\ k[1] \in Firings /\ k = <<k[1], rows[k[1]].token>> /\ rows[k[1]].token # None
        /\ Open(k[1])
    BY LiveIsOpen
  <2>2. session.run = k[1] /\ rows[k[1]] # None /\ rows[k[1]].token \in Nat
    BY <2>1, Basics DEF Open, Exists, Rows
  <2>3. granted = <<k[1], rows[k[1]].token>> /\ <<k[1], rows[k[1]].token>> \in Claims
    BY <2>1, <2>2 DEF LaneKept, RowsLane, Claims
  <2> QED
    BY <2>1, <2>3
<1> QED
  BY <1>1 DEF Held, NewestHeld

LEMMA HeldIsNewestNext == (ClaimInv /\ LaneKept)' => NewestHeld'
BY HeldIsNewest, PTL

\* A grant finds no claim in force, and its own is in force after it.
LEMMA GrantIsAlone ==
  ASSUME ClaimInv, LaneKept, NEW c \in Claimants, NEW r \in Firings, Claim(c, r)
  PROVE  ~Held /\ Held'
<1>1. /\ HistorianClaimTypeOK /\ session.run = r /\ Claimable(rows[r])
      /\ rows'[r] # None /\ rows'[r].phase = "claimed" /\ rows'[r].lease > 0
      /\ rows'[r].token = rows[r].attempt + 1
  BY Basics, ClaimFields
<1>2. ASSUME NEW k \in LiveClaims PROVE FALSE
  <2>1. /\ k[1] \in Firings /\ Open(k[1]) /\ rows[k[1]].phase = "claimed"
        /\ rows[k[1]].lease > 0
    BY LiveIsOpen
  <2>2. k[1] = r
    BY <1>1, <2>1, Basics
  <2> QED
    BY <1>1, <2>1, <2>2 DEF Claimable
<1>3. <<r, rows'[r].token>> \in LiveClaims'
  BY <1>1 DEF LiveClaims, Exists
<1>4. granted' = <<r, rows'[r].token>> /\ granted' \notin heard'
  <2>1. claim' = [claim EXCEPT ![c] = granted'] /\ granted' # None
    BY GrantIsNewer
  <2>2. claim'[c] = granted'
    BY <1>1, <2>1 DEF HistorianClaimTypeOK
  <2> QED
    BY <1>1, <2>1, <2>2, GrantIsNewer, LaneGrantKept DEF LaneKept, ClaimsLane
<1> QED
  BY <1>2, <1>3, <1>4 DEF Held

\* A step of the claim lane's code is a step of the abstract lane.
LEMMA LaneStep ==
  ASSUME ClaimInv, LaneKept, [ClaimNext]_vars
  PROVE  [Lane!LaneNext]_<<granted, Held, heard, published>>
<1> USE DEF past, store, module
<1>0. LaneKept' /\ ClaimInv' /\ (Held' => granted' # None /\ granted' \notin heard')
  BY LaneStays, InvNext, HeldIsNewestNext DEF NewestHeld
<1>1. ASSUME UNCHANGED <<granted, heard, published>>
      PROVE  Lane!LaneNext
  <2>1. CASE Held' = FALSE
    BY <1>1, <2>1 DEF Lane!LaneNext, Lane!Lapse
  <2>2. CASE Held' = TRUE
    BY <1>0, <1>1, <2>2 DEF Lane!LaneNext, Lane!Extend
  <2> QED
    BY <2>1, <2>2 DEF Held
<1>2. ASSUME NEW c \in Claimants, NEW r \in Firings, Claim(c, r)
      PROVE  Lane!LaneNext
  <2>1. ~Held /\ Held' = TRUE
    BY <1>2, GrantIsAlone DEF Held
  <2>2. granted' \in Lane!Claims /\ Lane!Newer(granted', granted)
    <3>1. /\ granted' = <<r, rows[r].attempt + 1>> /\ granted' \in Claims
          /\ granted # None => /\ granted \in Claims
                               /\ granted[1] < r \/ (granted[1] = r /\ granted[2] <= rows[r].attempt)
          /\ rows[r].attempt \in Nat
      BY <1>2, GrantIsNewer, Basics, ClaimFields DEF Rows
    <3> QED
      BY <3>1 DEF Lane!Claims, Claims, Lane!Newer
  <2>3. \A d \in published : d[1] # granted'[1]
    BY <1>2, GrantIsNewer DEF LaneKept, PublishedLane
  <2> QED
    BY <1>2, <2>1, <2>2, <2>3, GrantIsNewer DEF Lane!LaneNext, Lane!Grant
<1>3. ASSUME NEW c \in Claimants, NEW kind \in Kinds, Complete(c, kind), heard' # heard
      PROVE  Lane!LaneNext
  <2>1. /\ heard' = heard \cup {granted} /\ claim[c] = granted /\ claim[c] # None
        /\ UNCHANGED <<granted, published>>
    BY <1>3, HeardIsNewest
  <2>2. granted \notin heard \cup {None}
    BY <2>1 DEF LaneKept, ClaimsLane
  <2>3. Held' = FALSE
    BY <1>0, <2>1 DEF Held
  <2> QED
    BY <2>1, <2>2, <2>3 DEF Lane!LaneNext, Lane!Hear
<1>4. CASE Publish /\ published' # published
  <2>1. published' = published \cup {job.report.by} /\ UNCHANGED <<rows, granted, heard>>
    BY <1>4 DEF Publish
  <2>2. /\ job.report.by \in heard /\ job.report.by[1] = session.seq
        /\ session.phase # "idle"
    BY <1>4, Basics DEF Publish, Kept, RunKept, TaskKept
  <2>3. \A d \in published : d[1] # job.report.by[1]
    BY <2>2 DEF LaneKept, PublishedLane
  <2>4. Held' = Held
    BY <2>1 DEF Held, LiveClaims, Exists
  <2> QED
    BY <2>1, <2>2, <2>3, <2>4 DEF Lane!LaneNext, Lane!Publish
<1>5. CASE Fire \/ (Firing /\ ~Publish) \/ Recovery \/ Sweep \/ Tick \/ Crash \/ UNCHANGED vars
  BY <1>1, <1>5 DEF Fire, Firing, Queue, Wake, Answer, Validate, Abandon, Finish, Recovery,
                    Recover, Reoffer, Adopt, RestartLoad, Sweep, Tick, Crash, vars
<1>6. CASE Publish /\ published' = published
  BY <1>1, <1>6 DEF Publish
<1>7. ASSUME NEW c \in Claimants, Heartbeat(c) \/ GiveUp(c) PROVE Lane!LaneNext
  BY <1>1, <1>7 DEF Heartbeat, GiveUp
<1>8. ASSUME NEW c \in Claimants, NEW kind \in Kinds, Complete(c, kind), heard' = heard
      PROVE  Lane!LaneNext
  BY <1>1, <1>8, HeardIsNewest
<1> QED
  BY <1>2, <1>3, <1>4, <1>5, <1>6, <1>7, <1>8 DEF ClaimNext

\* The module, its store and its claimants, across deaths of any of them, are a
\* claim lane: one claim in force, the newest heard once, a run published once.
THEOREM LaneRefines == ClaimSpec => LaneProperty
<1>1. ClaimInit => Lane!LaneInit
  BY DEF ClaimInit, Lane!LaneInit, Held, LiveClaims, Exists
<1>2. ClaimInv /\ LaneKept /\ [ClaimNext]_vars => LaneKept'
  BY LaneStays
<1>3. ClaimInv /\ LaneKept /\ [ClaimNext]_vars =>
        [Lane!LaneNext]_<<granted, Held, heard, published>>
  BY LaneStep
<1> QED
  BY <1>1, <1>2, <1>3, LaneAtStart, InvAlways, PTL
  DEF ClaimSpec, LaneProperty, Lane!LaneSpec, Lane!laneVars

=============================================================================
