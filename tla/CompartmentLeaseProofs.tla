----------------------- MODULE CompartmentLeaseProofs -----------------------
(***************************************************************************)
(* Proofs about CompartmentLease for any number of attempts and processes, *)
(* any TTL longer than the renewal interval, any number of refused         *)
(* statements and no bound on the clock but MaxTime (itself arbitrary).    *)
(***************************************************************************)
EXTENDS CompartmentLease, TLAPS

\* A statement never carries a clock reading from the future: the one fact
\* beyond the types that the safety of the row rests on.
StampsArePast == \A h \in Holders : stamp[h] <= now

\* An attempt that has not been granted the row yet does not appear in it and
\* has no streak of refused renewals; a granted row names its owner's process.
Ungranted == {"idle", "probing", "inserting"}
RowIsOwned ==
  /\ row # NoRow => row.holder \in Holders /\ row.pid = owner[row.holder]
  /\ \A h \in Holders : phase[h] \in Ungranted => row.holder # h /\ missed[h] = 0

LeaseInv == LeaseTypeOK /\ GrantIsBounded /\ StampsArePast /\ RowIsOwned

\* Types, the bounded grant and the past stamps are preserved together.
LEMMA LeaseInvInductive == LeaseInv /\ [LeaseNext]_leaseVars => LeaseInv'
<1> SUFFICES ASSUME LeaseInv, [LeaseNext]_leaseVars PROVE LeaseInv'
  OBVIOUS
<1> USE LeaseAssumption DEF LeaseInv, LeaseTypeOK, GrantIsBounded, StampsArePast,
                            RowIsOwned, Ungranted, Rows, NoRow, Phases
<1>1. ASSUME NEW h \in Holders, NEW p \in Procs, ReadBlocker(h, p) PROVE LeaseInv'
  BY <1>1 DEF ReadBlocker
<1>2. ASSUME NEW h \in Holders, ReclaimDead(h) PROVE LeaseInv'
  BY <1>2 DEF ReclaimDead
<1>3. ASSUME NEW h \in Holders, InsertRow(h) PROVE LeaseInv'
  <2>1. owner[h] \in Procs
    BY <1>3 DEF InsertRow, Running
  <2> QED
    BY <1>3, <2>1 DEF InsertRow
<1>4. ASSUME NEW h \in Holders, RenewalFires(h) PROVE LeaseInv'
  BY <1>4 DEF RenewalFires
<1>5. ASSUME NEW h \in Holders, RenewRow(h) PROVE LeaseInv'
  BY <1>5 DEF RenewRow, RenewRowTo
<1>6. ASSUME NEW h \in Holders, ReleaseRow(h) PROVE LeaseInv'
  BY <1>6 DEF ReleaseRow
<1>7. ASSUME NEW p \in Procs, CrashProcess(p) PROVE LeaseInv'
  BY <1>7 DEF CrashProcess
<1>8. CASE Tick
  BY <1>8 DEF Tick
<1>9. CASE UNCHANGED leaseVars
  BY <1>9 DEF leaseVars
<1>10. ASSUME NEW h \in Holders, RenewalThrows(h) PROVE LeaseInv'
  BY <1>10 DEF RenewalThrows
<1>11. ASSUME NEW h \in Holders, AcquireThrows(h) PROVE LeaseInv'
  BY <1>11 DEF AcquireThrows
<1> QED
  BY <1>1, <1>2, <1>3, <1>4, <1>5, <1>6, <1>7, <1>8, <1>9, <1>10, <1>11 DEF LeaseNext

LEMMA LeaseInvHolds == LeaseSpec => []LeaseInv
<1>1. LeaseInit => LeaseInv
  BY LeaseAssumption DEF LeaseInit, LeaseInv, LeaseTypeOK, GrantIsBounded,
                         StampsArePast, RowIsOwned, Rows, NoRow, Phases
<1> QED
  BY <1>1, LeaseInvInductive, PTL DEF LeaseSpec

\* Type correctness of the lease row and of every attempt's local state.
THEOREM LeaseTypeCorrect == LeaseSpec => []LeaseTypeOK
<1>1. LeaseInv => LeaseTypeOK
  BY DEF LeaseInv
<1> QED
  BY <1>1, LeaseInvHolds, PTL

\* A dead holder blocks the session for at most one TTL.
THEOREM GrantBounded == LeaseSpec => []GrantIsBounded
<1>1. LeaseInv => GrantIsBounded
  BY DEF LeaseInv
<1> QED
  BY <1>1, LeaseInvHolds, PTL

\* No rival takes the unexpired row of a living process, however long it was
\* suspended between its probe and its statement.
THEOREM LiveRowRespected == LeaseSpec => LiveRowIsRespected
<1>1. LeaseInv /\ [LeaseNext]_leaseVars => RespectsLiveRow
  <2> SUFFICES ASSUME LeaseInv, [LeaseNext]_leaseVars,
                      NEW h \in Holders,
                      IsHeld(h), alive[row.pid], row'.holder # h
               PROVE  phase[h] = "held" /\ phase'[h] = "released"
    BY DEF RespectsLiveRow
  <2> USE LeaseAssumption DEF LeaseInv, LeaseTypeOK, StampsArePast, Rows, NoRow, IsHeld, RespectsLiveRow
  <2>1. ASSUME NEW g \in Holders, ReclaimDead(g) PROVE FALSE
    BY <2>1 DEF ReclaimDead
  <2>2. ASSUME NEW g \in Holders, InsertRow(g) PROVE FALSE
    BY <2>2 DEF InsertRow
  <2>3. ASSUME NEW g \in Holders, RenewRow(g) PROVE FALSE
    BY <2>3 DEF RenewRow, RenewRowTo
  <2>4. ASSUME NEW g \in Holders, ReleaseRow(g)
        PROVE  phase[h] = "held" /\ phase'[h] = "released"
    BY <2>4 DEF ReleaseRow
  <2>5. CASE UNCHANGED row
    BY <2>5
  <2> QED
    BY <2>1, <2>2, <2>3, <2>4, <2>5
       DEF LeaseNext, ReadBlocker, RenewalFires, RenewalThrows, AcquireThrows,
           CrashProcess, Tick, leaseVars
<1> QED
  BY <1>1, LeaseInvHolds, PTL DEF LeaseSpec, LiveRowIsRespected

\* The row, read through IsHeld, implements the abstract lock: the right never
\* passes from one attempt straight to another.
THEOREM LeaseImplementsLock == LeaseSpec => LockProperty
<1>1. LeaseInit => Lock!LockInit
  BY LeaseAssumption DEF LeaseInit, Lock!LockInit, Entitled, NoRow
<1>2. LeaseInv /\ [LeaseNext]_leaseVars => [Lock!LockNext]_Entitled
  <2> SUFFICES ASSUME LeaseInv, [LeaseNext]_leaseVars
               PROVE  [Lock!LockNext]_Entitled
    OBVIOUS
  <2> USE LeaseAssumption
      DEF LeaseInv, LeaseTypeOK, StampsArePast, Rows, NoRow, Entitled,
          Lock!LockNext, Lock!Grant, Lock!Revoke
  <2>1. ASSUME NEW g \in Holders, ReclaimDead(g) PROVE [Lock!LockNext]_Entitled
    BY <2>1 DEF ReclaimDead
  <2>2. ASSUME NEW g \in Holders, InsertRow(g) PROVE [Lock!LockNext]_Entitled
    BY <2>2 DEF InsertRow, Running
  <2>3. ASSUME NEW g \in Holders, RenewRow(g) PROVE [Lock!LockNext]_Entitled
    BY <2>3 DEF RenewRow, RenewRowTo
  <2>4. ASSUME NEW g \in Holders, ReleaseRow(g) PROVE [Lock!LockNext]_Entitled
    BY <2>4 DEF ReleaseRow
  <2>5. CASE Tick
    BY <2>5 DEF Tick
  <2>6. CASE UNCHANGED <<now, row>>
    BY <2>6
  <2> QED
    BY <2>1, <2>2, <2>3, <2>4, <2>5, <2>6
       DEF LeaseNext, ReadBlocker, RenewalFires, RenewalThrows, AcquireThrows,
           CrashProcess, leaseVars
<1> QED
  BY <1>1, <1>2, LeaseInvHolds, PTL DEF LeaseSpec, LockProperty, Lock!LockSpec

-----------------------------------------------------------------------------
\* The time from the last grant of h to the beat it waits for.
Spent(h) == (missed[h] + 1) * RENEWAL

\* The timer of a running holder in a punctual process is never behind, and as
\* long as its streak of refused renewals is short the row is its own, carries
\* its process and was granted Spent(h) before its next beat; a statement in
\* progress was given the current time.
PunctualAt(h) ==
  (Running(h) /\ owner[h] \in Punctual) =>
    /\ InStatement(h) => stamp[h] = now
    /\ phase[h] \in {"held", "renewing"} =>
         /\ now <= due[h]
         /\ Spent(h) < TTL =>
              /\ row.holder = h
              /\ row.expires = due[h] + TTL - Spent(h)
    /\ phase[h] = "renewing" => due[h] = now

PunctualInv == \A h \in Holders : PunctualAt(h)

\* The row of a holder in a short streak of refusals is unexpired.
LEMMA ShortStreakHolds ==
  ASSUME LeaseInv, PunctualInv, NEW h \in Holders, Running(h), owner[h] \in Punctual,
         phase[h] \in {"held", "renewing"}, Spent(h) < TTL
  PROVE  row # NoRow /\ row.holder = h /\ row.expires > now
<1> USE LeaseAssumption
<1>1. missed[h] \in Nat /\ due[h] \in Nat /\ now \in Nat
  BY DEF LeaseInv, LeaseTypeOK
<1>2. Spent(h) \in Nat
  BY <1>1 DEF Spent
<1> QED
  BY <1>1, <1>2 DEF LeaseInv, LeaseTypeOK, PunctualInv, PunctualAt, Rows, NoRow

LEMMA PunctualInvInductive ==
  LeaseInv /\ PunctualInv /\ [LeaseNext]_leaseVars => PunctualInv'
<1> SUFFICES ASSUME LeaseInv, PunctualInv, [LeaseNext]_leaseVars
             PROVE  PunctualInv'
  OBVIOUS
<1>0. \A g \in Holders : /\ missed[g] \in Nat /\ Spent(g) \in Nat /\ due[g] \in Nat
                         /\ stamp[g] \in Nat
  <2>1. \A g \in Holders : missed[g] \in Nat /\ due[g] \in Nat /\ stamp[g] \in Nat
    BY DEF LeaseInv, LeaseTypeOK
  <2> QED
    BY <2>1, LeaseAssumption DEF Spent
<1>a. \A g \in Holders : missed'[g] = missed[g] => Spent(g)' = Spent(g)
  BY DEF Spent
<1> USE LeaseAssumption, <1>0, <1>a
    DEF LeaseInv, LeaseTypeOK, StampsArePast, RowIsOwned, Ungranted, Rows, NoRow, Phases,
        PunctualInv, PunctualAt, Running, InStatement
\* A statement that leaves the row to the short streak of another holder g.
<1>b. ASSUME NEW g \in Holders, PunctualAt(g),
             UNCHANGED <<now, alive, owner>>,
             phase'[g] = phase[g], stamp'[g] = stamp[g], due'[g] = due[g],
             missed'[g] = missed[g],
             (Running(g) /\ owner[g] \in Punctual /\ phase[g] \in {"held", "renewing"}
                /\ Spent(g) < TTL) => UNCHANGED row
      PROVE  PunctualAt(g)'
  BY <1>b
<1>1. ASSUME NEW h \in Holders, NEW p \in Procs, ReadBlocker(h, p) PROVE PunctualInv'
  BY <1>1 DEF ReadBlocker
<1>2. ASSUME NEW h \in Holders, ReclaimDead(h) PROVE PunctualInv'
  BY <1>2 DEF ReclaimDead
<1>3. ASSUME NEW h \in Holders, InsertRow(h) PROVE PunctualInv'
  <2>1. ASSUME NEW g \in Holders, g # h, Running(g), owner[g] \in Punctual,
               phase[g] \in {"held", "renewing"}, Spent(g) < TTL
        PROVE  UNCHANGED row
    <3>1. row # NoRow /\ row.holder = g /\ row.expires > now
      BY <2>1, ShortStreakHolds
    <3>2. row.expires > stamp[h]
      BY <3>1
    <3> QED
      BY <1>3, <2>1, <3>1, <3>2 DEF InsertRow
  <2>2. (Running(h) /\ owner[h] \in Punctual) => stamp[h] = now
    BY <1>3 DEF InsertRow
  <2>3. ASSUME NEW g \in Holders, g # h PROVE PunctualAt(g)'
    <3>1. /\ phase'[g] = phase[g] /\ stamp'[g] = stamp[g] /\ due'[g] = due[g]
          /\ missed'[g] = missed[g]
          /\ UNCHANGED <<now, alive, owner>>
      BY <1>3, <2>3 DEF InsertRow
    <3> QED
      BY <2>1, <2>3, <3>1, <1>b
  <2>4. PunctualAt(h)'
    <3>1. CASE phase'[h] = "failed"
      BY <1>3, <3>1 DEF InsertRow
    <3>2. CASE phase'[h] # "failed"
      <4>1. /\ row' = [holder |-> h, pid |-> owner[h],
                       acquired |-> stamp[h], expires |-> stamp[h] + TTL]
            /\ phase'[h] = "held" /\ due'[h] = now + RENEWAL /\ missed'[h] = 0
            /\ UNCHANGED <<now, alive, owner>>
        BY <1>3, <3>2 DEF InsertRow
      <4>2. Spent(h)' = RENEWAL
        BY <4>1 DEF Spent
      <4>3. owner[h] \in Procs /\ now \in Nat /\ stamp[h] \in Nat
        BY <1>3 DEF InsertRow
      <4>4. ASSUME Running(h)', owner'[h] \in Punctual
            PROVE  row'.expires = due'[h] + TTL - Spent(h)' /\ now' <= due'[h]
        BY <2>2, <4>1, <4>2, <4>3, <4>4
      <4> QED
        BY <4>1, <4>4
    <3> QED
      BY <3>1, <3>2
  <2> QED
    BY <2>3, <2>4
<1>4. ASSUME NEW h \in Holders, RenewalFires(h) PROVE PunctualInv'
  BY <1>4 DEF RenewalFires
<1>5. ASSUME NEW h \in Holders, RenewRow(h) PROVE PunctualInv'
  <2>1. row.holder # h => UNCHANGED row
    BY <1>5 DEF RenewRow, RenewRowTo
  <2>2. ASSUME NEW g \in Holders, g # h PROVE PunctualAt(g)'
    <3>1. /\ phase'[g] = phase[g] /\ stamp'[g] = stamp[g] /\ due'[g] = due[g]
          /\ missed'[g] = missed[g]
          /\ UNCHANGED <<now, alive, owner>>
      BY <1>5, <2>2 DEF RenewRow, RenewRowTo
    <3> QED
      BY <2>1, <2>2, <3>1, <1>b
  <2>3. PunctualAt(h)'
    <3> SUFFICES ASSUME Running(h), owner[h] \in Punctual PROVE PunctualAt(h)'
      BY <1>5 DEF RenewRow, RenewRowTo
    <3>1. /\ phase[h] = "renewing" /\ phase'[h] = "held" /\ stamp[h] = now
          /\ due'[h] = now + RENEWAL /\ UNCHANGED <<now, alive, owner>>
      BY <1>5 DEF RenewRow, RenewRowTo
    <3>2. CASE row.holder = h /\ row.expires > stamp[h]
      <4>1. /\ row'.holder = h /\ row'.expires = stamp[h] + TTL
            /\ missed'[h] = 0
        BY <1>5, <3>2 DEF RenewRow, RenewRowTo
      <4>2. Spent(h)' = RENEWAL
        BY <4>1 DEF Spent
      <4>3. row'.expires = due'[h] + TTL - Spent(h)' /\ now' <= due'[h]
        BY <3>1, <4>1, <4>2
      <4> QED
        BY <3>1, <4>1, <4>3
    <3>3. CASE ~(row.holder = h /\ row.expires > stamp[h])
      <4>1. ~(Spent(h) < TTL)
        BY <3>1, <3>3, ShortStreakHolds
      <4>2. missed'[h] = missed[h]
        BY <1>5, <3>3 DEF RenewRow, RenewRowTo
      <4> QED
        BY <3>1, <4>1, <4>2
    <3> QED
      BY <3>2, <3>3
  <2> QED
    BY <2>2, <2>3
<1>6. ASSUME NEW h \in Holders, ReleaseRow(h) PROVE PunctualInv'
  BY <1>6 DEF ReleaseRow
<1>7. ASSUME NEW p \in Procs, CrashProcess(p) PROVE PunctualInv'
  BY <1>7 DEF CrashProcess
<1>8. CASE Tick
  BY <1>8 DEF Tick
<1>9. CASE UNCHANGED leaseVars
  BY <1>9 DEF leaseVars
<1>10. ASSUME NEW h \in Holders, RenewalThrows(h) PROVE PunctualInv'
  <2>1. ASSUME NEW g \in Holders, g # h PROVE PunctualAt(g)'
    BY <1>10, <2>1 DEF RenewalThrows
  <2>2. PunctualAt(h)'
    <3>1. /\ phase[h] = "renewing" /\ phase'[h] = "held"
          /\ due'[h] = now + RENEWAL /\ missed'[h] = missed[h] + 1
          /\ UNCHANGED <<now, row, alive, owner>>
      BY <1>10 DEF RenewalThrows
    <3>2. Spent(h)' = Spent(h) + RENEWAL
      <4>1. (missed[h] + 1 + 1) * RENEWAL = (missed[h] + 1) * RENEWAL + RENEWAL
        OBVIOUS
      <4> QED
        BY <3>1, <4>1 DEF Spent
    <3> QED
      BY <3>1, <3>2
  <2> QED
    BY <2>1, <2>2
<1>11. ASSUME NEW h \in Holders, AcquireThrows(h) PROVE PunctualInv'
  BY <1>11 DEF AcquireThrows
<1> QED
  BY <1>1, <1>2, <1>3, <1>4, <1>5, <1>6, <1>7, <1>8, <1>9, <1>10, <1>11 DEF LeaseNext

\* A run whose timers fire on time holds the lease until it releases it, or
\* until as many renewals in a row were refused as a TTL has room for.
THEOREM PunctualHolder == LeaseSpec => []PunctualHolderKeepsLease
<1>1. LeaseInit => PunctualInv
  BY LeaseAssumption DEF LeaseInit, PunctualInv, PunctualAt, Running
<1>2. LeaseInv /\ PunctualInv => PunctualHolderKeepsLease
  BY ShortStreakHolds DEF PunctualHolderKeepsLease, IsHeld, Spent
<1> QED
  BY <1>1, <1>2, LeaseInvHolds, PunctualInvInductive, PTL DEF LeaseSpec
=============================================================================
