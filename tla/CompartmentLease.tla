-------------------------- MODULE CompartmentLease --------------------------
(***************************************************************************)
(* The compartment_state_lease row of one session, at the granularity of   *)
(* its SQL statements (features/magic-context/compartment-lease.ts) and of *)
(* the renewal timer the runners keep while they hold it                   *)
(* (hooks/magic-context/compartment-runner.ts).  Every acquisition attempt *)
(* uses a fresh holder id (crypto.randomUUID), so a member of Holders is   *)
(* one attempt, and a member of Procs is one process incarnation (a pid).  *)
(* Time is counted in units of the renewal interval.  A statement uses the *)
(* Date.now() its caller read before it, so that reading and the statement *)
(* are separate steps: SQLite's busy handler or the liveness probe can     *)
(* hold the thread between them.                                           *)
(***************************************************************************)
EXTENDS Integers

CONSTANTS Holders, NoHolder,
          Procs, NoPid,
          TTL,        \* COMPARTMENT_LEASE_TTL_MS, in renewal intervals
          RENEWAL,    \* COMPARTMENT_LEASE_RENEWAL_MS
          MaxTime,    \* bound on the clock
          Punctual    \* processes whose statements and due timers run before time passes

ASSUME LeaseAssumption == /\ NoHolder \notin Holders
                          /\ NoPid \notin Procs
                          /\ TTL \in Nat \ {0}
                          /\ RENEWAL \in Nat \ {0}
                          /\ RENEWAL < TTL
                          /\ MaxTime \in Nat
                          /\ Punctual \subseteq Procs

VARIABLES now,      \* Date.now()
          row,      \* the lease row of the session
          alive,    \* alive[p]: process p has not died
          owner,    \* owner[h]: the process that made attempt h
          phase,    \* phase[h]: where attempt h stands
          stamp,    \* stamp[h]: the Date.now() its current statement was given (0: none)
          blocker,  \* blocker[h]: the unexpired row the attempt read (NoRow: none)
          due,      \* due[h]: when the renewal timer of h fires next
          missed    \* history variable: renewals of h that threw since its last grant

leaseVars == <<now, row, alive, owner, phase, stamp, blocker, due, missed>>

NoRow == [holder |-> NoHolder, pid |-> NoPid, acquired |-> 0, expires |-> 0]

Rows == [holder : Holders, pid : Procs, acquired : Nat, expires : Nat]

Phases == {"idle", "probing", "inserting", "held", "renewing", "failed", "released"}

LeaseTypeOK ==
  /\ now \in Nat
  /\ row \in Rows \cup {NoRow}
  /\ alive \in [Procs -> BOOLEAN]
  /\ owner \in [Holders -> Procs \cup {NoPid}]
  /\ phase \in [Holders -> Phases]
  /\ stamp \in [Holders -> Nat]
  /\ blocker \in [Holders -> Rows \cup {NoRow}]
  /\ due \in [Holders -> Nat]
  /\ missed \in [Holders -> Nat]

LeaseInit ==
  /\ now = 0
  /\ row = NoRow
  /\ alive = [p \in Procs |-> TRUE]
  /\ owner = [h \in Holders |-> NoPid]
  /\ phase = [h \in Holders |-> "idle"]
  /\ stamp = [h \in Holders |-> 0]
  /\ blocker = [h \in Holders |-> NoRow]
  /\ due = [h \in Holders |-> 0]
  /\ missed = [h \in Holders |-> 0]

\* The owner of attempt h still runs.
Running(h) == owner[h] \in Procs /\ alive[owner[h]]

\* Process p executes JavaScript on one thread: while one of its attempts is
\* inside a statement, nothing else of p runs.
InStatement(h) == phase[h] \in {"probing", "inserting", "renewing"}
Free(p) == alive[p] /\ \A h \in Holders : owner[h] = p => ~InStatement(h)

\* isCompartmentLeaseHeld: the test a publication makes inside its transaction.
IsHeld(h) == row.holder = h /\ row.expires > now

-----------------------------------------------------------------------------
\* acquireCompartmentLease reads the clock and the blocking row.
ReadBlocker(h, p) ==
  /\ phase[h] = "idle"
  /\ Free(p)
  /\ owner' = [owner EXCEPT ![h] = p]
  /\ phase' = [phase EXCEPT ![h] = "probing"]
  /\ stamp' = [stamp EXCEPT ![h] = now]
  /\ blocker' = [blocker EXCEPT ![h] = IF row.expires > now THEN row ELSE NoRow]
  /\ UNCHANGED <<now, row, alive, due, missed>>

\* Mutant: the delete names the session only, not the row that was probed.
ReclaimDead_anyRow(h) ==
  /\ phase[h] = "probing"
  /\ Running(h)
  /\ phase' = [phase EXCEPT ![h] = "inserting"]
  /\ row' = IF blocker[h] # NoRow /\ ~alive[blocker[h].pid] THEN NoRow ELSE row
  /\ UNCHANGED <<now, alive, owner, stamp, blocker, due, missed>>

\* The blocker's pid is confirmed dead: delete exactly the row that was read.
\* Otherwise (no blocker, alive, or inconclusive) go on without deleting.
ReclaimDead(h) ==
  /\ phase[h] = "probing"
  /\ Running(h)
  /\ phase' = [phase EXCEPT ![h] = "inserting"]
  /\ \/ /\ blocker[h] # NoRow
        /\ ~alive[blocker[h].pid]
        /\ row' = IF row = blocker[h] THEN NoRow ELSE row
     \/ row' = row
  /\ UNCHANGED <<now, alive, owner, stamp, blocker, due, missed>>

\* Mutant: the upsert has no WHERE clause.
InsertRow_unconditional(h) ==
  /\ phase[h] = "inserting"
  /\ Running(h)
  /\ row' = [holder |-> h, pid |-> owner[h],
             acquired |-> stamp[h], expires |-> stamp[h] + TTL]
  /\ phase' = [phase EXCEPT ![h] = "held"]
  /\ due' = [due EXCEPT ![h] = now + RENEWAL]
  /\ stamp' = [stamp EXCEPT ![h] = 0]
  /\ blocker' = [blocker EXCEPT ![h] = NoRow]
  /\ UNCHANGED <<now, alive, owner, missed>>

\* INSERT .. ON CONFLICT DO UPDATE .. WHERE same holder OR expires_at <= stamp.
InsertRow(h) ==
  /\ phase[h] = "inserting"
  /\ Running(h)
  /\ IF row = NoRow \/ row.holder = h \/ row.expires <= stamp[h]
     THEN /\ row' = [holder |-> h, pid |-> owner[h],
                     acquired |-> stamp[h], expires |-> stamp[h] + TTL]
          /\ phase' = [phase EXCEPT ![h] = "held"]
          /\ due' = [due EXCEPT ![h] = now + RENEWAL]
     ELSE /\ phase' = [phase EXCEPT ![h] = "failed"]
          /\ UNCHANGED <<row, due>>
  /\ stamp' = [stamp EXCEPT ![h] = 0]
  /\ blocker' = [blocker EXCEPT ![h] = NoRow]
  /\ UNCHANGED <<now, alive, owner, missed>>

\* The renewal timer fires and renewCompartmentLease reads the clock.
RenewalFires(h) ==
  /\ phase[h] = "held"
  /\ now >= due[h]
  /\ Running(h)
  /\ Free(owner[h])
  /\ phase' = [phase EXCEPT ![h] = "renewing"]
  /\ stamp' = [stamp EXCEPT ![h] = now]
  /\ UNCHANGED <<now, row, alive, owner, blocker, due, missed>>

\* The renewal statement, for the values it writes.
RenewRowTo(h, acquired, expires) ==
  /\ phase[h] = "renewing"
  /\ Running(h)
  /\ IF row.holder = h /\ row.expires > stamp[h]
     THEN /\ row' = [holder |-> h, pid |-> row.pid,
                     acquired |-> acquired, expires |-> expires]
          /\ missed' = [missed EXCEPT ![h] = 0]
     ELSE UNCHANGED <<row, missed>>
  /\ phase' = [phase EXCEPT ![h] = "held"]
  /\ due' = [due EXCEPT ![h] = now + RENEWAL]
  /\ stamp' = [stamp EXCEPT ![h] = 0]
  /\ UNCHANGED <<now, alive, owner, blocker>>

\* Mutants: SET acquired_at only; extend the old expiry.
RenewRow_keepsExpiry(h) == RenewRowTo(h, stamp[h], row.expires)
RenewRow_addsToExpiry(h) == RenewRowTo(h, stamp[h], row.expires + TTL)

\* UPDATE .. WHERE holder_id = h AND expires_at > stamp.  A renewal that finds
\* its row lost is logged only; the run goes on, its publication will be refused.
RenewRow(h) == RenewRowTo(h, stamp[h], stamp[h] + TTL)

\* SQLite refuses the renewal (SQLITE_BUSY): the callback catches the exception,
\* the row stays as it is and the timer fires again one interval later.
RenewalThrows(h) ==
  /\ phase[h] = "renewing"
  /\ Running(h)
  /\ phase' = [phase EXCEPT ![h] = "held"]
  /\ due' = [due EXCEPT ![h] = now + RENEWAL]
  /\ missed' = [missed EXCEPT ![h] = @ + 1]
  /\ stamp' = [stamp EXCEPT ![h] = 0]
  /\ UNCHANGED <<now, row, alive, owner, blocker>>

\* SQLite refuses the delete or the upsert: the exception reaches the caller of
\* acquireCompartmentLease and the attempt is over.
AcquireThrows(h) ==
  /\ phase[h] \in {"probing", "inserting"}
  /\ Running(h)
  /\ phase' = [phase EXCEPT ![h] = "failed"]
  /\ stamp' = [stamp EXCEPT ![h] = 0]
  /\ blocker' = [blocker EXCEPT ![h] = NoRow]
  /\ UNCHANGED <<now, row, alive, owner, due, missed>>

\* Mutant: the release blanks the holder instead of deleting the row.
ReleaseRow_blanks(h) ==
  /\ phase[h] = "held"
  /\ Running(h)
  /\ Free(owner[h])
  /\ phase' = [phase EXCEPT ![h] = "released"]
  /\ row' = IF row.holder = h THEN [row EXCEPT !.holder = NoHolder] ELSE row
  /\ due' = [due EXCEPT ![h] = 0]
  /\ UNCHANGED <<now, alive, owner, stamp, blocker, missed>>

\* releaseCompartmentLease; when SQLite refuses the write the best-effort
\* variant leaves the row to its TTL.
ReleaseRow(h) ==
  /\ phase[h] = "held"
  /\ Running(h)
  /\ Free(owner[h])
  /\ phase' = [phase EXCEPT ![h] = "released"]
  /\ \/ row' = IF row.holder = h THEN NoRow ELSE row
     \/ row' = row
  /\ due' = [due EXCEPT ![h] = 0]
  /\ UNCHANGED <<now, alive, owner, stamp, blocker, missed>>

\* The operating system ends a process at any point.
CrashProcess(p) ==
  /\ alive[p]
  /\ alive' = [alive EXCEPT ![p] = FALSE]
  /\ UNCHANGED <<now, row, owner, phase, stamp, blocker, due, missed>>

\* Time passes.  In a punctual process no statement spans a renewal interval
\* and no timer is late; any other may be suspended for any time.
Tick ==
  /\ now < MaxTime
  /\ \A h \in Holders :
       (Running(h) /\ owner[h] \in Punctual)
         => /\ ~InStatement(h)
            /\ phase[h] = "held" => now < due[h]
  /\ now' = now + 1
  /\ UNCHANGED <<row, alive, owner, phase, stamp, blocker, due, missed>>

LeaseNext ==
  \/ \E h \in Holders, p \in Procs : ReadBlocker(h, p)
  \/ \E h \in Holders : ReclaimDead(h)
  \/ \E h \in Holders : InsertRow(h)
  \/ \E h \in Holders : RenewalFires(h)
  \/ \E h \in Holders : RenewRow(h)
  \/ \E h \in Holders : RenewalThrows(h)
  \/ \E h \in Holders : AcquireThrows(h)
  \/ \E h \in Holders : ReleaseRow(h)
  \/ \E p \in Procs : CrashProcess(p)
  \/ Tick

LeaseSpec == LeaseInit /\ [][LeaseNext]_leaseVars

-----------------------------------------------------------------------------
\* Whoever else acts, an unexpired row of a living process is replaced or
\* removed only by its own holder: a rival that probed the row earlier (and saw
\* an older row, or a process since replaced) must not take it away.  Only the
\* clock or the death of its process costs a holder its lease.
RespectsLiveRow ==
  \A h \in Holders :
    (IsHeld(h) /\ alive[row.pid] /\ row'.holder # h)
      => /\ phase[h] = "held"
         /\ phase'[h] = "released"
LiveRowIsRespected == [][RespectsLiveRow]_leaseVars

\* A missed renewal is safe (the comment in the catch clause of
\* startLeaseRenewal): a run whose timers fire on time holds the lease through
\* every streak of refused renewals whose beats, and the one after them, fit in
\* a TTL.  However late rivals are, the row is its own and unexpired until then.
PunctualHolderKeepsLease ==
  \A h \in Holders :
    /\ Running(h) /\ owner[h] \in Punctual
    /\ phase[h] \in {"held", "renewing"}
    /\ (missed[h] + 1) * RENEWAL < TTL
    => IsHeld(h)

\* The row never grants more than one full TTL from the clock reading that
\* wrote it, and never from a reading in the future: a crashed holder blocks
\* the session for at most TTL.
GrantIsBounded ==
  row # NoRow => /\ row.expires = row.acquired + TTL
                 /\ row.acquired <= now

\* The row implements the abstract lock, read through IsHeld.
Entitled == IF row.expires > now THEN row.holder ELSE NoHolder
Lock == INSTANCE LeaseLock WITH holder <- Entitled
LockProperty == Lock!LockSpec
=============================================================================
