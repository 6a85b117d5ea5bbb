------------------------- MODULE RecompStagingProofs -------------------------
(***************************************************************************)
(* Proofs about RecompStaging for any number of processes, runs and        *)
(* messages, any ranges, and any bounds on lapses, faults and rebuilds.    *)
(***************************************************************************)
EXTENDS RecompStaging, CompartmentRangesProofs

USE StagingAssumption, MaxMsgAssumption

-----------------------------------------------------------------------------
(* Sequences of compartments. *)

LEMMA NoRows == <<>> \in Seq(Compartments)
OBVIOUS

\* Rows saved over no more rows replace them all.
LEMMA SaveReplaces ==
  ASSUME staging \in Seq(Compartments), NEW r, NEW rows \in Seq(Compartments), NEW pass,
         Save(r, rows, pass), Len(staging) <= Len(rows)
  PROVE  staging' = rows
<1>1. SubSeq(staging, Len(rows) + 1, Len(staging)) = <<>>
  OBVIOUS
<1> QED
  BY <1>1 DEF Save

LEMMA SaveTyped ==
  ASSUME staging \in Seq(Compartments), stagedPass \in BOOLEAN, NEW r,
         NEW rows \in Seq(Compartments), NEW pass \in BOOLEAN, Save(r, rows, pass)
  PROVE  staging' \in Seq(Compartments) /\ stagedPass' \in BOOLEAN
<1>1. SubSeq(staging, Len(rows) + 1, Len(staging)) \in Seq(Compartments)
  OBVIOUS
<1> QED
  BY <1>1 DEF Save

\* What the snapped range of a partial recomp is made of: the compartments first to
\* last of the history.
SnappedAt(h, s, first, last) ==
  /\ first \in 1..Len(h) /\ last \in first..Len(h)
  /\ s = [kind |-> "partial", start |-> h[first].start, end |-> h[last].end,
          prior |-> first - 1, tail |-> SubSeq(h, last + 1, Len(h))]

LEMMA SnapFinds ==
  ASSUME NEW h \in Seq(Compartments), NEW rg \in Ranges, Snappable(h, rg)
  PROVE  \E first, last \in 1..Len(h) : SnappedAt(h, Snap(h, rg), first, last)
<1> DEFINE IsFirst(i) == h[i].end >= rg[1] /\ \A j \in 1..i - 1 : h[j].end < rg[1]
           IsLast(i) == h[i].start <= rg[2] /\ \A j \in i + 1..Len(h) : h[j].start > rg[2]
           first == CHOOSE i \in 1..Len(h) : IsFirst(i)
           last == CHOOSE i \in 1..Len(h) : IsLast(i)
<1>0. /\ rg[1] \in Int /\ rg[2] \in Int /\ Len(h) \in Nat
      /\ \A i \in 1..Len(h) : h[i].start \in Int /\ h[i].end \in Int
  BY RowType
<1>1. PICK t \in 1..Len(h) : Touches(h, t, rg)
  BY DEF Snappable
<1>2. first \in 1..Len(h) /\ IsFirst(first)
  <2> DEFINE T == {i \in Nat : i \in 1..Len(h) /\ h[i].end >= rg[1]}
  <2>1. T \in SUBSET Nat /\ t \in T
    BY <1>0, <1>1 DEF Touches
  <2>2. PICK m \in T : \A n \in T : m <= n
    <3> HIDE DEF T
    <3> QED
      BY <2>1, Least
  <2>3. m \in 1..Len(h) /\ h[m].end >= rg[1]
    BY <2>2
  <2>4. ASSUME NEW j \in 1..m - 1 PROVE h[j].end < rg[1]
    <3>1. j \in 1..Len(h) /\ j < m
      BY <1>0, <2>3
    <3>2. j \notin T
      BY <2>2, <3>1
    <3>3. ~(h[j].end >= rg[1]) /\ h[j].end \in Int
      BY <1>0, <3>1, <3>2
    <3> QED
      BY <1>0, <3>3
  <2>5. IsFirst(m)
    BY <2>3, <2>4
  <2> HIDE DEF IsFirst
  <2> QED
    BY <2>3, <2>5
<1>3. last \in 1..Len(h) /\ IsLast(last)
  <2> DEFINE T == {i \in 0..Len(h) : i \in 1..Len(h) /\ h[i].start <= rg[2]}
  <2>1. T \in SUBSET (0..Len(h)) /\ t \in T
    BY <1>0, <1>1 DEF Touches
  <2>2. PICK m \in T : \A n \in T : n <= m
    <3> HIDE DEF T
    <3> QED
      BY <1>0, <2>1, Greatest
  <2>3. m \in 1..Len(h) /\ h[m].start <= rg[2]
    BY <2>2
  <2>4. ASSUME NEW j \in m + 1..Len(h) PROVE h[j].start > rg[2]
    <3>1. j \in 1..Len(h) /\ m < j
      BY <1>0, <2>3
    <3>2. j \notin T
      BY <2>2, <3>1
    <3>3. ~(h[j].start <= rg[2]) /\ h[j].start \in Int
      BY <1>0, <3>1, <3>2
    <3> QED
      BY <1>0, <3>3
  <2>5. IsLast(m)
    BY <2>3, <2>4
  <2> HIDE DEF IsLast
  <2> QED
    BY <2>3, <2>5
<1>4. Snap(h, rg) = [kind |-> "partial", start |-> h[first].start, end |-> h[last].end,
                     prior |-> first - 1, tail |-> SubSeq(h, last + 1, Len(h))]
  BY DEF Snap
<1> HIDE DEF first, last
<1>5. first <= t
  <2>1. h[t].end >= rg[1] /\ h[t].end \in Int
    BY <1>0, <1>1 DEF Touches
  <2>2. t \notin 1..first - 1
    BY <1>0, <1>2, <2>1
  <2> QED
    BY <1>0, <1>2, <2>2
<1>6. t <= last
  <2>1. h[t].start <= rg[2] /\ h[t].start \in Int
    BY <1>0, <1>1 DEF Touches
  <2>2. t \notin last + 1..Len(h)
    BY <1>0, <1>3, <2>1
  <2> QED
    BY <1>0, <1>3, <2>2
<1>7. last \in first..Len(h)
  BY <1>0, <1>2, <1>3, <1>5, <1>6
<1> QED
  BY <1>2, <1>3, <1>4, <1>7 DEF SnappedAt

LEMMA SnapTyped ==
  ASSUME NEW h \in Seq(Compartments), NEW rg \in Ranges, Snappable(h, rg)
  PROVE  /\ Snap(h, rg) \in Plans /\ Snap(h, rg).kind = "partial"
         /\ SubSeq(h, 1, Snap(h, rg).prior) \in Seq(Compartments)
<1>1. PICK first, last \in 1..Len(h) : SnappedAt(h, Snap(h, rg), first, last)
  BY SnapFinds
<1>2. /\ h[first].start \in 1..MaxMsg /\ h[last].end \in 1..MaxMsg
      /\ first - 1 \in Nat /\ Len(h) \in Nat
  BY RowType
<1>3. SubSeq(h, last + 1, Len(h)) \in Seq(Compartments)
  OBVIOUS
<1>4. SubSeq(h, 1, first - 1) \in Seq(Compartments)
  OBVIOUS
<1> QED
  BY <1>1, <1>2, <1>3, <1>4, SMTT(30) DEF SnappedAt, Plans

-----------------------------------------------------------------------------
(* Types. *)

Planning == {"begun", "snapped", "seeding", "looping", "promoting", "promoted",
             "refusedFull"}

\* A run that is past its start knows what it rebuilds.
Planned == \A r \in Runs : phase[r] \in Planning => plan[r] \in Plans

TypeInv == StagingTypeOK /\ Planned

LEMMA PhaseNames ==
  /\ "unused" \in Phases /\ "begun" \in Phases /\ "snapped" \in Phases
  /\ "seeding" \in Phases /\ "looping" \in Phases /\ "promoting" \in Phases
  /\ "promoted" \in Phases /\ "refusedFull" \in Phases /\ "ending" \in Phases
  /\ "releasing" \in Phases /\ "gone" \in Phases
BY DEF Phases

LEMMA SomeProcTyped == SomeProc \in Procs
BY DEF SomeProc

LEMMA FullPlanTyped == FullPlan \in Plans
<1>1. <<>> \in Seq(Compartments)
  OBVIOUS
<1> QED
  BY <1>1 DEF FullPlan, Plans

\* A pass of a run appends a piece that starts at a message of its plan.
LEMMA AnswerTyped ==
  ASSUME NEW r \in Runs, plan[r] \in Plans, cand[r] \in Seq(Compartments),
         NextMsg(r) <= plan[r].end
  PROVE  NextMsg(r) \in 1..MaxMsg + 1
<1>1. /\ plan[r].start \in 1..MaxMsg /\ plan[r].end \in 1..MaxMsg
      /\ EndOf(cand[r]) \in 0..MaxMsg
  BY EndOfType DEF Plans
<1> QED
  BY <1>1 DEF NextMsg

\* What only moves a run between phases keeps the types.
LEMMA PhaseTyped ==
  ASSUME TypeInv, NEW r \in Runs, NEW to \in Phases, GoTo(r, to),
         to \in Planning => plan[r] \in Plans,
         UNCHANGED <<comps, range, lease, inProgress, active, locals>>,
         staging' \in Seq(Compartments), stagedPass' \in BOOLEAN,
         {lapses', faults', rebuilds'} \subseteq Nat
  PROVE  TypeInv'
BY DEF TypeInv, StagingTypeOK, Planned, GoTo, locals

LEMMA RunTyped ==
  ASSUME TypeInv, NEW r \in Runs, RecompStep(r)
  PROVE  TypeInv'
<1> USE DEF TypeInv, dbVars, stage, locals, counters
<1>0. /\ StagingTypeOK /\ Planned /\ comps \in Seq(Compartments)
      /\ staging \in Seq(Compartments) /\ stagedPass \in BOOLEAN
      /\ cand[r] \in Seq(Compartments) /\ passed[r] \in BOOLEAN
      /\ phase[r] \in Planning => plan[r] \in Plans
  BY DEF StagingTypeOK, Planned
<1>1. CASE Defer(r)
  BY <1>0, <1>1, PhaseTyped, PhaseNames DEF Defer, Planning, StagingTypeOK
<1>2. CASE LoadStaging(r)
  BY <1>0, <1>2, PhaseNames DEF LoadStaging, GoTo, StagingTypeOK, Planned, Planning
<1>3. CASE SaveSeed(r)
  <2>1. staging' \in Seq(Compartments) /\ stagedPass' \in BOOLEAN
    BY <1>0, <1>3, SaveTyped DEF SaveSeed
  <2>2. plan[r] \in Plans /\ GoTo(r, "seeding")
        /\ UNCHANGED <<comps, range, lease, inProgress, active, locals, counters>>
    BY <1>0, <1>3 DEF SaveSeed, Planning
  <2> QED
    BY <1>0, <2>1, <2>2, PhaseTyped, PhaseNames DEF StagingTypeOK
<1>4. CASE SetRange(r)
  <2>1. plan[r] \in Plans
    BY <1>0, <1>4 DEF SetRange, Planning
  <2>2. <<plan[r].start, plan[r].end>> \in (1..MaxMsg) \X (1..MaxMsg)
    BY <2>1 DEF Plans
  <2> QED
    BY <1>0, <1>4, <2>1, <2>2, PhaseNames DEF SetRange, GoTo, StagingTypeOK, Planned
<1>5. CASE PassAnswers(r)
  <2>1. plan[r] \in Plans /\ NextMsg(r) \in 1..MaxMsg + 1
    BY <1>0, <1>5, AnswerTyped DEF PassAnswers, Planning
  <2>2. PICK s \in Extensions(NextMsg(r)) :
          /\ cand' = [cand EXCEPT ![r] = @ \o s]
          /\ Save(r, cand[r] \o s, TRUE)
    BY <1>5 DEF PassAnswers
  <2>3. cand[r] \o s \in Seq(Compartments)
    BY <1>0, <2>1, ExtensionFacts, ConcatSplits
  <2>4. staging' \in Seq(Compartments) /\ stagedPass' \in BOOLEAN
    BY <1>0, <2>2, <2>3, SaveTyped
  <2>5. cand' \in [Runs -> Seq(Compartments)]
    BY <1>0, <2>2, <2>3 DEF StagingTypeOK
  <2>6. passed' \in [Runs -> BOOLEAN]
        /\ UNCHANGED <<comps, range, lease, inProgress, active, phase, proc, plan, counters>>
    BY <1>0, <1>5 DEF PassAnswers, StagingTypeOK
  <2> QED
    BY <1>0, <2>4, <2>5, <2>6 DEF StagingTypeOK, Planned
<1>6. CASE FinishFull(r)
  <2>1. plan[r] \in Plans
    BY <1>0, <1>6 DEF FinishFull, Planning
  <2>2. UNCHANGED <<comps, lease, inProgress, active, locals, counters>>
    BY <1>6 DEF FinishFull
  <2>3. CASE Save(r, cand[r], passed[r]) /\ GoTo(r, "promoting") /\ UNCHANGED range
    <3>1. staging' \in Seq(Compartments) /\ stagedPass' \in BOOLEAN
      BY <1>0, <2>3, SaveTyped
    <3> QED
      BY <1>0, <2>1, <2>2, <2>3, <3>1, PhaseTyped, PhaseNames DEF StagingTypeOK
  <2>4. CASE /\ (EmptyStaging /\ range' = NoRange) \/ UNCHANGED <<stage, range>>
             /\ GoTo(r, "ending")
    <3>1. staging' \in Seq(Compartments) /\ stagedPass' \in BOOLEAN
      BY <1>0, <2>4, NoRows DEF EmptyStaging
    <3> QED
      BY <1>0, <2>2, <2>4, <3>1, PhaseNames DEF GoTo, StagingTypeOK, Planned, Planning
  <2> QED
    BY <1>6, <2>3, <2>4 DEF FinishFull
<1>7. CASE PassFails(r)
  BY <1>0, <1>7, PhaseTyped, PhaseNames DEF PassFails, Planning, StagingTypeOK
<1>8. CASE FinishPartial(r)
  <2> DEFINE merged == cand[r] \o plan[r].tail
  <2>1. plan[r] \in Plans
    BY <1>0, <1>8 DEF FinishPartial, Planning
  <2>2. merged \in Seq(Compartments)
    BY <1>0, <2>1 DEF Plans
  <2>3. UNCHANGED <<comps, range, lease, inProgress, active, locals, counters>>
    BY <1>8 DEF FinishPartial
  <2>4. \/ Save(r, merged, TRUE) /\ GoTo(r, "promoting")
        \/ UNCHANGED stage /\ GoTo(r, "ending")
    BY <1>8 DEF FinishPartial
  <2>5. staging' \in Seq(Compartments) /\ stagedPass' \in BOOLEAN
    <3> HIDE DEF merged
    <3> QED
      BY <1>0, <2>2, <2>4, SaveTyped
  <2> QED
    BY <1>0, <2>1, <2>3, <2>4, <2>5, PhaseTyped, PhaseNames DEF StagingTypeOK
<1>9. CASE Promote(r)
  <2>1. CASE lease = r /\ staging # <<>>
    <3>1. /\ comps' = staging /\ staging' = <<>> /\ stagedPass' = FALSE
          /\ rebuilds' = rebuilds + 1
          /\ GoTo(r, IF plan[r].kind = "partial" THEN "promoted" ELSE "ending")
          /\ UNCHANGED <<range, lease, inProgress, active, locals, lapses, faults>>
      BY <1>9, <2>1 DEF Promote, EmptyStaging
    <3>2. phase[r] = "promoting" /\ plan[r] \in Plans
      BY <1>0, <1>9 DEF Promote, Planning
    <3>3. comps' \in Seq(Compartments) /\ staging' \in Seq(Compartments) /\ rebuilds' \in Nat
      BY <1>0, <3>1 DEF StagingTypeOK
    <3> QED
      BY <1>0, <3>1, <3>2, <3>3, PhaseNames DEF GoTo, StagingTypeOK, Planned
  <2>2. CASE ~(lease = r /\ staging # <<>>)
    BY <1>0, <1>9, <2>2, PhaseTyped, PhaseNames DEF Promote, Planning, StagingTypeOK
  <2> QED
    BY <2>1, <2>2
<1>10. CASE ClearRange(r)
  BY <1>0, <1>10, PhaseNames DEF ClearRange, GoTo, StagingTypeOK, Planned, Planning
<1>11. CASE End(r)
  <2>1. staging' \in Seq(Compartments) /\ stagedPass' \in BOOLEAN
    BY <1>0, <1>11, NoRows DEF End, EmptyStaging
  <2> QED
    BY <1>0, <1>11, <2>1, PhaseNames DEF End, GoTo, StagingTypeOK, Planned, Planning
<1>12. CASE Release(r)
  <2>1. phase' \in [Runs -> Phases] /\ (\A q \in Runs \ {r} : phase'[q] = phase[q])
        /\ phase'[r] \in {"gone", "unused"}
    BY <1>0, <1>12, PhaseNames DEF Release, StagingTypeOK
  <2>2. /\ proc' \in [Runs -> Procs] /\ plan' \in [Runs -> Plans \cup {NoPlan}]
        /\ cand' \in [Runs -> Seq(Compartments)] /\ passed' \in [Runs -> BOOLEAN]
        /\ \A q \in Runs \ {r} : plan'[q] = plan[q]
    BY <1>0, <1>12, SomeProcTyped DEF Release, Forget, StagingTypeOK
  <2>3. /\ lease' \in Runs \cup {NoRun} /\ active' \in [Procs -> Runs \cup {NoRun}]
        /\ faults' \in Nat
        /\ UNCHANGED <<comps, range, inProgress, stage, lapses, rebuilds>>
    BY <1>0, <1>12 DEF Release, StagingTypeOK
  <2> QED
    BY <1>0, <2>1, <2>2, <2>3 DEF StagingTypeOK, Planned, Planning
<1> QED
  BY <1>1, <1>2, <1>3, <1>4, <1>5, <1>6, <1>7, <1>8, <1>9, <1>10, <1>11, <1>12 DEF RecompStep

LEMMA StartTyped ==
  ASSUME TypeInv, NEW p \in Procs, NEW r \in Runs, StartFull(p, r) \/ StartPartial(p, r)
  PROVE  TypeInv'
<1> USE DEF TypeInv, stage, counters
<1>0. /\ StagingTypeOK /\ Planned /\ comps \in Seq(Compartments)
      /\ staging \in Seq(Compartments) /\ stagedPass \in BOOLEAN
  BY DEF StagingTypeOK
<1>1. /\ lease' = r /\ active' \in [Procs -> Runs \cup {NoRun}] /\ proc' \in [Runs -> Procs]
      /\ UNCHANGED <<comps, staging, stagedPass, range, counters>>
  <2>1. Begin(p, r)
    BY DEF StartFull, StartPartial
  <2>2. lease' = r /\ UNCHANGED <<comps, staging, stagedPass, range, counters>>
    BY <2>1 DEF Begin
  <2>3. active' = [active EXCEPT ![p] = r] /\ proc' = [proc EXCEPT ![r] = p]
    BY <2>1 DEF Begin
  <2> QED
    BY <1>0, <2>2, <2>3 DEF StagingTypeOK
<1>2. CASE StartFull(p, r)
  BY <1>0, <1>1, <1>2, FullPlanTyped, PhaseNames DEF StartFull, GoTo, StagingTypeOK, Planned
<1>3. CASE StartPartial(p, r)
  <2>1. PICK rg \in Ranges :
    /\ inProgress' = TRUE
    /\ IF ~Snappable(comps, rg)
       THEN GoTo(r, "ending") /\ UNCHANGED <<plan, cand, passed>>
       ELSE LET s == Snap(comps, rg) IN
            /\ plan' = [plan EXCEPT ![r] = s]
            /\ \/ /\ staging # <<>> /\ range \notin {NoRange, <<s.start, s.end>>}
                  /\ GoTo(r, "ending")
                  /\ UNCHANGED <<cand, passed>>
               \/ /\ staging # <<>> /\ range = NoRange
                  /\ GoTo(r, "refusedFull")
                  /\ UNCHANGED <<cand, passed>>
               \/ /\ staging # <<>> /\ range = <<s.start, s.end>>
                  /\ cand' = [cand EXCEPT ![r] = staging]
                  /\ passed' = [passed EXCEPT ![r] = stagedPass]
                  /\ GoTo(r, "looping")
               \/ /\ staging = <<>>
                  /\ cand' = [cand EXCEPT ![r] = SubSeq(comps, 1, s.prior)]
                  /\ GoTo(r, "snapped")
                  /\ UNCHANGED passed
    BY <1>3 DEF StartPartial
  <2>2. CASE ~Snappable(comps, rg)
    BY <1>0, <1>1, <2>1, <2>2, PhaseNames DEF GoTo, StagingTypeOK, Planned, Planning
  <2>3. CASE Snappable(comps, rg)
    <3> DEFINE s == Snap(comps, rg)
    <3>1. s \in Plans /\ SubSeq(comps, 1, s.prior) \in Seq(Compartments)
      BY <1>0, <2>3, SnapTyped
    <3>2. \E to \in Phases, rows \in Seq(Compartments), some \in BOOLEAN :
            /\ plan' = [plan EXCEPT ![r] = s]
            /\ GoTo(r, to)
            /\ cand' = [cand EXCEPT ![r] = rows] \/ UNCHANGED cand
            /\ passed' = [passed EXCEPT ![r] = some] \/ UNCHANGED passed
      <4> HIDE DEF s
      <4> QED
        BY <1>0, <2>1, <2>3, <3>1, PhaseNames DEF s
    <3> HIDE DEF s
    <3>3. inProgress' = TRUE
      BY <2>1
    <3>4. /\ plan' \in [Runs -> Plans \cup {NoPlan}] /\ phase' \in [Runs -> Phases]
          /\ cand' \in [Runs -> Seq(Compartments)] /\ passed' \in [Runs -> BOOLEAN]
      BY <1>0, <3>1, <3>2, ZenonT(60) DEF GoTo, StagingTypeOK
    <3>5. Planned'
      BY <1>0, <3>1, <3>2 DEF GoTo, StagingTypeOK, Planned
    <3> QED
      BY <1>0, <1>1, <3>3, <3>4, <3>5 DEF StagingTypeOK
  <2> QED
    BY <2>2, <2>3
<1> QED
  BY <1>2, <1>3

\* The appended compartment of excluded messages is a piece of its own.
LEMMA NoiseExtends ==
  ASSUME comps \in Seq(Compartments), NoiseAppended
  PROVE  \E s \in Seq(Compartments) :
           s # <<>> /\ comps' = comps \o s /\ ContiguousFrom(s, EndOf(comps) + 1)
<1>1. EndOf(comps) \in 0..MaxMsg
  BY EndOfType
<1>2. PICK end \in EndOf(comps) + 1..MaxMsg :
        comps' = comps \o <<[start |-> EndOf(comps) + 1, end |-> end]>>
  BY DEF NoiseAppended
<1>3. EndOf(comps) + 1 \in 1..MaxMsg
  BY <1>1, <1>2
<1> DEFINE s == <<[start |-> EndOf(comps) + 1, end |-> end]>>
<1>4. s \in Seq(Compartments) /\ ContiguousFrom(s, EndOf(comps) + 1)
  BY <1>3, SingletonFacts
<1>5. comps' = comps \o s
  BY <1>2, <1>4
<1> QED
  BY <1>4, <1>5

LEMMA TypeInvKept == TypeInv /\ [StagingNext]_vars => TypeInv'
<1> SUFFICES ASSUME TypeInv, [StagingNext]_vars PROVE TypeInv'
  OBVIOUS
<1> USE DEF TypeInv, dbVars, stage, locals, counters
<1>0. StagingTypeOK /\ Planned
  OBVIOUS
<1>1. ASSUME NEW r \in Runs, WriteFails(r) PROVE TypeInv'
  <2>1. /\ GoTo(r, "ending") /\ faults' = faults + 1
        /\ UNCHANGED <<dbVars, active, locals, lapses, rebuilds>>
    BY <1>1 DEF WriteFails
  <2>2. "ending" \notin Planning
    BY DEF Planning
  <2> QED
    BY <1>0, <2>1, <2>2, PhaseTyped, PhaseNames DEF StagingTypeOK
<1>2. CASE HistorianPublishes
  <2>1. comps \in Seq(Compartments) /\ EndOf(comps) + 1 \in 1..MaxMsg + 1
    BY <1>0, EndOfType, SMTT(30) DEF StagingTypeOK
  <2>2. PICK s \in Extensions(EndOf(comps) + 1) : comps' = comps \o s
    BY <1>2 DEF HistorianPublishes
  <2>3. comps' \in Seq(Compartments)
    BY <2>1, <2>2, ExtensionFacts, ConcatSplits
  <2>4. inProgress' = FALSE
        /\ UNCHANGED <<range, lease, stage, active, phase, locals, counters>>
    BY <1>2 DEF HistorianPublishes
  <2> QED
    BY <1>0, <2>3, <2>4 DEF StagingTypeOK, Planned
<1>3. ASSUME NEW r \in Runs, LeaseLapses(r) PROVE TypeInv'
  <2>1. /\ lease' = NoRun
        /\ UNCHANGED <<comps, range, inProgress, stage, active, locals, faults, rebuilds>>
    BY <1>3 DEF LeaseLapses
  <2>2. /\ phase' = [phase EXCEPT ![r] = "unused"] \/ UNCHANGED phase
        /\ lapses' \in Nat
    BY <1>0, <1>3 DEF LeaseLapses, GoTo, StagingTypeOK
  <2> QED
    BY <1>0, <2>1, <2>2, PhaseNames DEF StagingTypeOK, Planned, Planning
<1>4. ASSUME NEW p \in Procs, Crash(p) PROVE TypeInv'
  <2>0. phase' \in [Runs -> Phases]
    BY <1>0, <1>4, PhaseNames DEF Crash, StagingTypeOK
  <2>1. /\ proc' \in [Runs -> Procs] /\ passed' \in [Runs -> BOOLEAN]
        /\ active' \in [Procs -> Runs \cup {NoRun}]
    BY <1>0, <1>4, SomeProcTyped DEF Crash, StagingTypeOK
  <2>5. cand' \in [Runs -> Seq(Compartments)]
    BY <1>0, <1>4, NoRows DEF Crash, StagingTypeOK
  <2>2. plan' \in [Runs -> Plans \cup {NoPlan}]
    BY <1>0, <1>4 DEF Crash, StagingTypeOK
  <2>3. Planned'
    BY <1>0, <1>4 DEF Crash, StagingTypeOK, Planned, Planning
  <2>4. faults' \in Nat /\ UNCHANGED <<dbVars, lapses, rebuilds>>
    BY <1>0, <1>4 DEF Crash, StagingTypeOK
  <2> QED
    BY <1>0, <2>0, <2>1, <2>2, <2>3, <2>4, <2>5 DEF StagingTypeOK
<1>5. CASE UNCHANGED vars
  BY <1>0, <1>5 DEF vars, StagingTypeOK, Planned
<1>6. CASE NoiseAppended
  <2>1. comps' \in Seq(Compartments)
    BY <1>0, <1>6, NoiseExtends, ConcatSplits DEF StagingTypeOK
  <2>2. inProgress' = FALSE
        /\ UNCHANGED <<range, lease, stage, active, phase, locals, counters>>
    BY <1>6 DEF NoiseAppended
  <2> QED
    BY <1>0, <2>1, <2>2 DEF StagingTypeOK, Planned
<1>7. CASE StagingNext
  BY <1>1, <1>2, <1>3, <1>4, <1>6, <1>7, RunTyped, StartTyped DEF StagingNext
<1> QED
  BY <1>5, <1>7

LEMMA TypeInit == StagingInit => TypeInv
<1> SUFFICES ASSUME StagingInit PROVE TypeInv
  OBVIOUS
<1>1. /\ comps \in Seq(Compartments) /\ staging \in Seq(Compartments)
      /\ cand \in [Runs -> Seq(Compartments)]
  BY NoRows DEF StagingInit
<1>2. /\ phase \in [Runs -> Phases] /\ proc \in [Runs -> Procs]
      /\ plan \in [Runs -> Plans \cup {NoPlan}] /\ passed \in [Runs -> BOOLEAN]
      /\ active \in [Procs -> Runs \cup {NoRun}]
  BY PhaseNames, SomeProcTyped DEF StagingInit
<1>3. Planned
  BY DEF StagingInit, Planned, Planning
<1>4. /\ stagedPass \in BOOLEAN /\ range = NoRange /\ lease = NoRun /\ inProgress \in BOOLEAN
      /\ lapses = 0 /\ faults = 0 /\ rebuilds = 0
  BY DEF StagingInit
<1> QED
  BY <1>1, <1>2, <1>3, <1>4 DEF TypeInv, StagingTypeOK

\* Every state of every session has the types of the state's description, with any
\* number of recomps, also after lapses, crashes and refused writes.
THEOREM StagingTyped == StagingSpec => []StagingTypeOK
<1>1. TypeInv => StagingTypeOK
  BY DEF TypeInv
<1> QED
  BY <1>1, TypeInit, TypeInvKept, PTL DEF StagingSpec

-----------------------------------------------------------------------------
(* One recomp at a time.  The rows a run stages carry no holder: a run that   *)
(* outlives its lease and the run that took the lease over would mix theirs,  *)
(* and what follows would not hold.                                           *)

Live(r) == phase[r] \notin {"unused", "gone"}

NoRivals == \A r, q \in Runs : Live(r) /\ Live(q) => r = q

\* A run at work holds the lease, and the lease row of a dead one is there.
Leased == \A r \in Runs : phase[r] # "unused" => lease = r

LEMMA LeasedKept ==
  ASSUME MaxLapses = 0, TypeInv, Leased, [StagingNext]_vars
  PROVE  Leased'
<1> USE DEF dbVars, stage, locals, counters
<1>0. StagingTypeOK /\ phase \in [Runs -> Phases] /\ lapses \in Nat
  BY DEF TypeInv, StagingTypeOK
<1>1. ASSUME NEW p \in Procs, NEW r \in Runs, StartFull(p, r) \/ StartPartial(p, r)
      PROVE  Leased'
  <2>1. Begin(p, r)
    BY <1>1 DEF StartFull, StartPartial
  <2>2. lease' = r /\ lease = NoRun
    BY <2>1 DEF Begin
  <2>3. \A q \in Runs \ {r} : phase'[q] = phase[q]
    BY <1>0, <1>1 DEF StartFull, StartPartial, GoTo
  <2>4. \A q \in Runs : q # NoRun
    OBVIOUS
  <2> QED
    BY <2>2, <2>3, <2>4 DEF Leased
<1>2. ASSUME NEW r \in Runs, RecompStep(r) \/ WriteFails(r), ~Release(r) PROVE Leased'
  <2>1. /\ lease' = lease /\ Live(r)
        /\ \A q \in Runs \ {r} : phase'[q] = phase[q]
    BY <1>0, <1>2 DEF RecompStep, Defer, LoadStaging, SaveSeed, SetRange, PassAnswers,
         FinishFull, PassFails, FinishPartial, Promote, ClearRange, End, WriteFails, GoTo, Live
  <2> QED
    BY <2>1 DEF Leased, Live
<1>3. ASSUME NEW r \in Runs, Release(r) PROVE Leased'
  <2>1. lease = r /\ lease' \in {NoRun, r}
    BY <1>0, <1>3 DEF Release, Leased
  <2>2. phase' = [phase EXCEPT ![r] = IF lease' = r THEN "gone" ELSE "unused"]
    BY <1>3 DEF Release
  <2> QED
    BY <1>0, <2>1, <2>2 DEF Leased
<1>4. CASE HistorianPublishes \/ NoiseAppended
  BY <1>4 DEF HistorianPublishes, NoiseAppended, Leased
<1>5. ASSUME NEW r \in Runs, LeaseLapses(r) PROVE Leased'
  BY <1>0, <1>5 DEF LeaseLapses, GoTo, Leased
<1>6. ASSUME NEW p \in Procs, Crash(p) PROVE Leased'
  BY <1>0, <1>6 DEF Crash, Leased
<1>7. CASE UNCHANGED vars
  BY <1>7 DEF vars, Leased
<1>8. CASE StagingNext
  BY <1>1, <1>2, <1>3, <1>4, <1>5, <1>6, <1>8 DEF StagingNext, RecompStep
<1> QED
  BY <1>7, <1>8

\* Where no lease of a live run lapses, no two recomps are ever at work: the lease of
\* a run that failed to release it keeps the next one away.
THEOREM UnlapsedAlone ==
  ASSUME MaxLapses = 0
  PROVE  StagingSpec => []NoRivals
<1>1. StagingInit => TypeInv /\ Leased
  BY TypeInit DEF StagingInit, Leased
<1>2. TypeInv /\ Leased /\ [StagingNext]_vars => (TypeInv /\ Leased)'
  BY TypeInvKept, LeasedKept
<1>3. TypeInv /\ Leased => NoRivals
  BY DEF Leased, NoRivals, Live
<1> QED
  BY <1>1, <1>2, <1>3, PTL DEF StagingSpec

-----------------------------------------------------------------------------
(* What is staged and what is stored. *)

\* What a run at work has in hand is what is staged.
InStep(r) ==
  /\ phase[r] = "snapped" => staging = <<>>
  /\ phase[r] \in {"seeding", "looping"} => staging = cand[r]
  /\ phase[r] = "promoting" => Valid(staging)
  /\ phase[r] = "promoted" => staging = <<>>

LogInv == TypeInv /\ Valid(comps) /\ \A r \in Runs : InStep(r)

\* Who is not at work has nothing in hand, and a step of a run leaves others alone.
LEMMA OthersRest ==
  ASSUME TypeInv, NoRivals, NEW r \in Runs, RecompStep(r) \/ WriteFails(r)
  PROVE  /\ Live(r)
         /\ \A q \in Runs \ {r} : ~Live(q) /\ phase'[q] = phase[q] /\ InStep(q)'
<1>1. phase \in [Runs -> Phases]
  BY DEF TypeInv, StagingTypeOK
<1>2. /\ Live(r)
      /\ \A q \in Runs \ {r} : phase'[q] = phase[q]
  BY <1>1 DEF RecompStep, Defer, LoadStaging, SaveSeed, SetRange, PassAnswers, FinishFull,
       PassFails, FinishPartial, Promote, ClearRange, End, Release, WriteFails, GoTo, Live,
       locals
<1>3. \A q \in Runs \ {r} : ~Live(q)
  BY <1>2 DEF NoRivals
<1> QED
  BY <1>2, <1>3 DEF Live, InStep

\* What a run's step stages, where it is alone.
LEMMA RunInStep ==
  ASSUME LogInv, NoRivals, NEW r \in Runs, RecompStep(r) \/ WriteFails(r)
  PROVE  InStep(r)' /\ Valid(comps)'
<1> USE DEF dbVars, stage, locals, counters
<1>0. /\ TypeInv /\ StagingTypeOK /\ phase \in [Runs -> Phases] /\ cand \in [Runs -> Seq(Compartments)]
      /\ staging \in Seq(Compartments) /\ cand[r] \in Seq(Compartments) /\ InStep(r)
      /\ phase[r] \in Planning => plan[r] \in Plans
      /\ Valid(comps)
  BY DEF LogInv, TypeInv, StagingTypeOK, Planned
<1>1. CASE GoTo(r, "ending") /\ UNCHANGED comps
  BY <1>0, <1>1 DEF GoTo, InStep
<1>2. CASE Defer(r) \/ PassFails(r) \/ ClearRange(r) \/ WriteFails(r)
  BY <1>0, <1>1, <1>2 DEF Defer, PassFails, ClearRange, WriteFails, GoTo, InStep
<1>3. CASE LoadStaging(r)
  BY <1>0, <1>3 DEF LoadStaging, GoTo, InStep
<1>4. CASE SaveSeed(r)
  <2>1. staging = <<>> /\ Save(r, cand[r], FALSE)
    BY <1>0, <1>4 DEF SaveSeed, InStep
  <2>2. staging' = cand[r]
    <3>1. Len(staging) <= Len(cand[r])
      BY <1>0, <2>1
    <3> QED
      BY <1>0, <2>1, <3>1, SaveReplaces
  <2> QED
    BY <1>0, <1>4, <2>2 DEF SaveSeed, GoTo, InStep
<1>5. CASE SetRange(r)
  BY <1>0, <1>5 DEF SetRange, GoTo, InStep
<1>6. CASE PassAnswers(r)
  <2>1. plan[r] \in Plans /\ NextMsg(r) \in 1..MaxMsg + 1 /\ staging = cand[r]
    BY <1>0, <1>6, AnswerTyped DEF PassAnswers, Planning, InStep
  <2>2. PICK s \in Extensions(NextMsg(r)) :
          /\ cand' = [cand EXCEPT ![r] = @ \o s]
          /\ Save(r, cand[r] \o s, TRUE)
    BY <1>6 DEF PassAnswers
  <2>3. cand[r] \o s \in Seq(Compartments) /\ Len(cand[r]) <= Len(cand[r] \o s)
    BY <1>0, <2>1, ExtensionFacts, ConcatSplits
  <2>4. staging' = cand[r] \o s
    BY <1>0, <2>1, <2>2, <2>3, SaveReplaces
  <2>5. cand'[r] = cand[r] \o s
    BY <1>0, <2>2
  <2> QED
    BY <1>0, <1>6, <2>4, <2>5 DEF PassAnswers, InStep
<1>7. CASE FinishFull(r)
  <2>1. CASE Valid(cand[r]) /\ Save(r, cand[r], passed[r]) /\ GoTo(r, "promoting")
    <3>1. staging = cand[r]
      BY <1>0, <1>7 DEF FinishFull, InStep
    <3>2. staging' = cand[r]
      BY <1>0, <2>1, <3>1, SaveReplaces
    <3> QED
      BY <1>0, <1>7, <2>1, <3>2 DEF FinishFull, GoTo, InStep, Valid
  <2> QED
    BY <1>1, <1>7, <2>1 DEF FinishFull
<1>8. CASE FinishPartial(r)
  <2> DEFINE merged == cand[r] \o plan[r].tail
  <2>1. CASE Valid(merged) /\ Save(r, merged, TRUE) /\ GoTo(r, "promoting")
    <3>1. staging = cand[r] /\ plan[r] \in Plans
      BY <1>0, <1>8 DEF FinishPartial, InStep, Planning
    <3>2. merged \in Seq(Compartments) /\ Len(cand[r]) <= Len(merged)
      <4>1. plan[r].tail \in Seq(Compartments)
        BY <3>1 DEF Plans
      <4> QED
        BY <1>0, <4>1, ConcatSplits
    <3> HIDE DEF merged
    <3>3. staging' = merged
      BY <1>0, <2>1, <3>1, <3>2, SaveReplaces
    <3> QED
      BY <1>0, <1>8, <2>1, <3>3 DEF FinishPartial, GoTo, InStep, Valid
  <2> QED
    BY <1>1, <1>8, <2>1 DEF FinishPartial
<1>9. CASE Promote(r)
  <2>1. CASE lease = r /\ staging # <<>>
    <3>1. /\ comps' = staging /\ staging' = <<>> /\ Valid(staging)
          /\ phase' \in {[phase EXCEPT ![r] = "promoted"], [phase EXCEPT ![r] = "ending"]}
      BY <1>0, <1>9, <2>1 DEF Promote, EmptyStaging, GoTo, InStep
    <3> QED
      BY <1>0, <3>1 DEF InStep, Valid
  <2> QED
    BY <1>1, <1>9, <2>1 DEF Promote
<1>10. CASE End(r)
  BY <1>0, <1>10 DEF End, GoTo, InStep
<1>11. CASE Release(r)
  <2>1. phase'[r] \in {"gone", "unused"} /\ UNCHANGED comps
    BY <1>0, <1>11 DEF Release
  <2> QED
    BY <1>0, <2>1 DEF InStep
<1> QED
  BY <1>2, <1>3, <1>4, <1>5, <1>6, <1>7, <1>8, <1>9, <1>10, <1>11 DEF RecompStep

\* What a run begins with.
LEMMA StartInStep ==
  ASSUME LogInv, NEW p \in Procs, NEW r \in Runs, StartFull(p, r) \/ StartPartial(p, r)
  PROVE  /\ UNCHANGED <<comps, staging, stagedPass, range>>
         /\ \A q \in Runs : InStep(q)'
<1>0. /\ phase \in [Runs -> Phases] /\ cand \in [Runs -> Seq(Compartments)]
      /\ \A q \in Runs : InStep(q)
  BY DEF LogInv, TypeInv, StagingTypeOK
<1>1. UNCHANGED <<comps, staging, stagedPass, range>>
  <2>1. Begin(p, r)
    BY DEF StartFull, StartPartial
  <2> QED
    BY <2>1 DEF Begin
<1>2. CASE StartFull(p, r)
  BY <1>0, <1>1, <1>2 DEF StartFull, GoTo, InStep
<1>3. CASE StartPartial(p, r)
  <2>1. \/ phase' \in {[phase EXCEPT ![r] = "ending"], [phase EXCEPT ![r] = "refusedFull"]}
           /\ UNCHANGED cand
        \/ phase' = [phase EXCEPT ![r] = "looping"] /\ cand' = [cand EXCEPT ![r] = staging]
        \/ \E rows : /\ phase' = [phase EXCEPT ![r] = "snapped"] /\ staging = <<>>
                     /\ cand' = [cand EXCEPT ![r] = rows]
    BY <1>3 DEF StartPartial, GoTo
  <2> QED
    BY <1>0, <1>1, <2>1 DEF InStep
<1> QED
  BY <1>1, <1>2, <1>3

\* The historian appends to a valid history, and leaves what is staged.
LEMMA HistorianExtends ==
  ASSUME LogInv, HistorianPublishes \/ NoiseAppended
  PROVE  /\ UNCHANGED <<staging, stagedPass, range, lease, phase, plan, cand, passed, rebuilds>>
         /\ \E s \in Seq(Compartments) :
              /\ s # <<>> /\ comps' = comps \o s
              /\ ContiguousFrom(s, EndOf(comps) + 1)
         /\ Valid(comps)'
<1>1. comps \in Seq(Compartments) /\ Valid(comps)
  BY DEF LogInv, TypeInv, StagingTypeOK
<1>2. EndOf(comps) + 1 \in 1..MaxMsg + 1 /\ EndOf(comps) \in Nat
  BY <1>1, EndOfType
<1>3. PICK s \in Seq(Compartments) :
        s # <<>> /\ comps' = comps \o s /\ ContiguousFrom(s, EndOf(comps) + 1)
  <2>1. CASE HistorianPublishes
    <3>1. PICK s \in Extensions(EndOf(comps) + 1) : comps' = comps \o s
      BY <2>1 DEF HistorianPublishes
    <3>2. s \in Seq(Compartments) /\ s # <<>> /\ ContiguousFrom(s, EndOf(comps) + 1)
      BY <1>2, ExtensionFacts
    <3> QED
      BY <3>1, <3>2
  <2>2. CASE NoiseAppended
    BY <1>1, <2>2, NoiseExtends
  <2> QED
    BY <2>1, <2>2
<1>4. EndOf(comps) + 1 = IF comps = <<>> THEN 1 ELSE EndOf(comps) + 1
  BY <1>2 DEF EndOf
<1>5. ContiguousFrom(comps \o s, 1)
  BY <1>1, <1>3, <1>4, ContiguousConcat DEF Valid
<1>6. UNCHANGED <<staging, stagedPass, range, lease, phase, plan, cand, passed, rebuilds>>
  BY DEF HistorianPublishes, NoiseAppended, stage, locals, counters
<1> QED
  BY <1>3, <1>5, <1>6 DEF Valid

LEMMA LogInvKept == LogInv /\ NoRivals /\ [StagingNext]_vars => LogInv'
<1> SUFFICES ASSUME LogInv, NoRivals, [StagingNext]_vars
             PROVE  Valid(comps)' /\ \A q \in Runs : InStep(q)'
  BY TypeInvKept DEF LogInv
<1> USE DEF dbVars, stage, locals, counters
<1>0. /\ TypeInv /\ StagingTypeOK /\ Valid(comps) /\ \A q \in Runs : InStep(q)
  BY DEF LogInv, TypeInv
<1>1. ASSUME NEW r \in Runs, RecompStep(r) \/ WriteFails(r)
      PROVE  Valid(comps)' /\ \A q \in Runs : InStep(q)'
  BY <1>0, <1>1, OthersRest, RunInStep
<1>2. ASSUME NEW p \in Procs, NEW r \in Runs, StartFull(p, r) \/ StartPartial(p, r)
      PROVE  Valid(comps)' /\ \A q \in Runs : InStep(q)'
  BY <1>0, <1>2, StartInStep DEF Valid
<1>3. CASE HistorianPublishes \/ NoiseAppended
  BY <1>0, <1>3, HistorianExtends DEF InStep
<1>4. ASSUME NEW r \in Runs, LeaseLapses(r)
      PROVE  Valid(comps)' /\ \A q \in Runs : InStep(q)'
  BY <1>0, <1>4 DEF LeaseLapses, GoTo, InStep, Valid, StagingTypeOK
<1>5. ASSUME NEW p \in Procs, Crash(p)
      PROVE  Valid(comps)' /\ \A q \in Runs : InStep(q)'
  <2>1. ASSUME NEW q \in Runs
        PROVE  \/ phase'[q] \in {"gone", "unused"}
               \/ phase'[q] = phase[q] /\ cand'[q] = cand[q]
    BY <1>5 DEF Crash
  <2>2. UNCHANGED <<comps, staging>>
    BY <1>5 DEF Crash
  <2> QED
    BY <1>0, <2>1, <2>2 DEF InStep, Valid
<1>6. CASE UNCHANGED vars
  BY <1>0, <1>6 DEF vars, InStep, Valid
<1>7. CASE StagingNext
  BY <1>1, <1>2, <1>3, <1>4, <1>5, <1>7 DEF StagingNext
<1> QED
  BY <1>6, <1>7

\* The history changes by publications and promotions only.
LEMMA HistoryStays ==
  ASSUME [StagingNext]_vars
  PROVE  \/ UNCHANGED <<comps, rebuilds>>
         \/ HistorianPublishes \/ NoiseAppended
         \/ \E r \in Runs : Promote(r) /\ lease = r /\ comps' = staging /\ rebuilds' = rebuilds + 1
<1> USE DEF dbVars, stage, locals, counters
<1>1. ASSUME NEW r \in Runs, RecompStep(r) \/ WriteFails(r), ~Promote(r)
      PROVE  UNCHANGED <<comps, rebuilds>>
  BY <1>1 DEF RecompStep, Defer, LoadStaging, SaveSeed, SetRange, PassAnswers, FinishFull,
       PassFails, FinishPartial, ClearRange, End, Release, WriteFails
<1>2. ASSUME NEW r \in Runs, Promote(r)
      PROVE  \/ UNCHANGED <<comps, rebuilds>>
             \/ lease = r /\ comps' = staging /\ rebuilds' = rebuilds + 1
  BY <1>2 DEF Promote
<1>3. ASSUME NEW p \in Procs, NEW r \in Runs, StartFull(p, r) \/ StartPartial(p, r)
      PROVE  UNCHANGED <<comps, rebuilds>>
  <2>1. Begin(p, r)
    BY <1>3 DEF StartFull, StartPartial
  <2> QED
    BY <2>1 DEF Begin
<1>4. ASSUME NEW r \in Runs, LeaseLapses(r) PROVE UNCHANGED <<comps, rebuilds>>
  BY <1>4 DEF LeaseLapses
<1>5. ASSUME NEW p \in Procs, Crash(p) PROVE UNCHANGED <<comps, rebuilds>>
  BY <1>5 DEF Crash
<1>6. CASE UNCHANGED vars
  BY <1>6 DEF vars
<1>7. CASE StagingNext
  BY <1>1, <1>2, <1>3, <1>4, <1>5, <1>7 DEF StagingNext, RecompStep
<1> QED
  BY <1>6, <1>7

\* The log's operators are those of this module.
LEMMA LogOperators ==
  /\ Log!Compartments = Compartments
  /\ \A h : Log!EndOf(h) = EndOf(h)
  /\ \A h, n : Log!ContiguousFrom(h, n) <=> ContiguousFrom(h, n)
BY DEF Log!Compartments, Compartments, Log!EndOf, EndOf, Log!ContiguousFrom, ContiguousFrom

\* Recomps implement the history log, step by step, as long as no two are at work
\* together: whatever an earlier run left staged, whatever was resumed, merged or
\* refused, and whenever processes died, a promotion installs a contiguous history,
\* and nothing else changes the history but an extension by the historian.
THEOREM StagingImplementsLog == StagingSpec /\ []NoRivals => LogProperty
<1>1. StagingInit => LogInv /\ Log!LogInit
  <2> SUFFICES ASSUME StagingInit PROVE LogInv /\ Log!LogInit
    OBVIOUS
  <2>1. comps = <<>> /\ rebuilds = 0 /\ \A r \in Runs : InStep(r)
    BY DEF StagingInit, InStep
  <2>2. Valid(comps)
    BY <2>1 DEF Valid, ContiguousFrom
  <2> QED
    BY <2>1, <2>2, TypeInit DEF LogInv, Log!LogInit
<1>2. LogInv /\ NoRivals /\ [StagingNext]_vars => LogInv'
  BY LogInvKept
<1>3. LogInv /\ NoRivals /\ [StagingNext]_vars => [Log!LogNext]_<<comps, rebuilds>>
  <2> SUFFICES ASSUME LogInv, NoRivals, [StagingNext]_vars
               PROVE  [Log!LogNext]_<<comps, rebuilds>>
    OBVIOUS
  <2>1. CASE HistorianPublishes \/ NoiseAppended
    <3>1. PICK s \in Seq(Compartments) :
            s # <<>> /\ comps' = comps \o s /\ ContiguousFrom(s, EndOf(comps) + 1)
      BY <2>1, HistorianExtends
    <3>2. comps \in Seq(Compartments) /\ Len(s) > 0 /\ UNCHANGED rebuilds
      BY <2>1, <3>1, HistorianExtends DEF LogInv, TypeInv, StagingTypeOK
    <3>3. /\ Len(comps') = Len(comps) + Len(s) /\ comps' \in Seq(Compartments)
          /\ SubSeq(comps', 1, Len(comps)) = comps
          /\ SubSeq(comps', Len(comps) + 1, Len(comps')) = s
      BY <3>1, <3>2, ConcatSplits
    <3>4. /\ comps' \in Seq(Log!Compartments)
          /\ Log!ContiguousFrom(SubSeq(comps', Len(comps) + 1, Len(comps')), Log!EndOf(comps) + 1)
      BY <3>1, <3>3, LogOperators
    <3>5. Len(comps') > Len(comps)
      BY <3>2, <3>3
    <3> QED
      BY <3>2, <3>3, <3>4, <3>5 DEF Log!LogNext, Log!Extend
  <2>2. ASSUME NEW r \in Runs, Promote(r), comps' = staging, rebuilds' = rebuilds + 1
        PROVE  Log!LogNext
    <3>1. staging \in Seq(Compartments) /\ Valid(staging)
      BY <2>2 DEF LogInv, TypeInv, StagingTypeOK, InStep, Promote
    <3>2. staging \in Seq(Log!Compartments) /\ Log!ContiguousFrom(staging, 1)
      BY <3>1, LogOperators DEF Valid
    <3> QED
      BY <2>2, <3>2 DEF Log!LogNext, Log!Rebuild
  <2> QED
    BY <2>1, <2>2, HistoryStays
<1> QED
  BY <1>1, <1>2, <1>3, PTL DEF StagingSpec, LogProperty, Log!LogSpec

\* Where no lease of a live recomp lapses, any number of recomps by any number of
\* processes implement the history log.
THEOREM UnlapsedImplementsLog ==
  ASSUME MaxLapses = 0
  PROVE  StagingSpec => LogProperty
BY UnlapsedAlone, StagingImplementsLog, PTL

\* One recomp at a time implements it also where its lease lapses under its hands.
THEOREM LoneImplementsLog ==
  ASSUME NEW R, Runs = {R}
  PROVE  StagingSpec => LogProperty
<1>1. NoRivals
  BY DEF NoRivals
<1> QED
  BY <1>1, StagingImplementsLog, PTL

-----------------------------------------------------------------------------
(* What is staged under a marker stays.                                      *)

\* A partial run that asks for passes has recorded its range, and a run that has
\* only begun is a full one.
Marked(r) ==
  /\ phase[r] = "begun" => plan[r].kind = "full"
  /\ phase[r] = "looping" /\ plan[r].kind = "partial" => range = <<plan[r].start, plan[r].end>>

\* A run knows whether passes are staged.
PassesKnown(r) ==
  /\ phase[r] = "seeding" => ~stagedPass
  /\ phase[r] = "looping" /\ stagedPass => passed[r]

PassesStaged == stagedPass => staging # <<>>

KeepInv == LogInv /\ PassesStaged /\ \A r \in Runs : Marked(r) /\ PassesKnown(r)

\* What a step may take out of staging while a marker is set.
Kept == stagedPass /\ range # NoRange /\ ~stagedPass' => (comps' = staging \/ ~Valid(staging))

\* Saving what a pass produced does not lose track of it.
LEMMA SaveKeeps ==
  ASSUME staging \in Seq(Compartments), stagedPass \in BOOLEAN, PassesStaged,
         NEW r, NEW rows \in Seq(Compartments), Save(r, rows, TRUE)
  PROVE  /\ stagedPass => stagedPass'
         /\ PassesStaged'
<1>1. CASE rows = <<>>
  <2>1. staging' = staging
    <3>1. SubSeq(staging, 1, Len(staging)) = staging
      OBVIOUS
    <3> QED
      BY <1>1, <3>1 DEF Save
  <2>2. stagedPass' <=> (stagedPass /\ Len(staging) > 0)
    BY <1>1 DEF Save
  <2>3. staging # <<>> => Len(staging) > 0
    OBVIOUS
  <2> QED
    BY <2>1, <2>2, <2>3 DEF PassesStaged
<1>2. CASE rows # <<>>
  <2>1. SubSeq(staging, Len(rows) + 1, Len(staging)) \in Seq(Compartments)
    OBVIOUS
  <2>2. Len(staging') > 0 /\ stagedPass'
    BY <1>2, <2>1 DEF Save
  <2> QED
    BY <2>2 DEF PassesStaged
<1> QED
  BY <1>1, <1>2

\* A run's step: staged passes under a marker leave by their promotion only, or
\* because they do not validate.
LEMMA RunKeeps ==
  ASSUME KeepInv, NoRivals, NEW r \in Runs, RecompStep(r) \/ WriteFails(r)
  PROVE  Kept /\ PassesStaged' /\ Marked(r)' /\ PassesKnown(r)'
<1> USE DEF dbVars, stage, locals, counters
<1>0. /\ phase \in [Runs -> Phases] /\ staging \in Seq(Compartments)
      /\ cand \in [Runs -> Seq(Compartments)] /\ passed \in [Runs -> BOOLEAN]
      /\ stagedPass \in BOOLEAN /\ cand[r] \in Seq(Compartments)
      /\ phase[r] \in Planning => plan[r] \in Plans
      /\ InStep(r) /\ Marked(r) /\ PassesKnown(r) /\ PassesStaged
  BY DEF KeepInv, LogInv, TypeInv, StagingTypeOK, Planned
<1>1. CASE UNCHANGED <<staging, stagedPass>> /\ phase'[r] \notin {"begun", "seeding", "looping"}
  BY <1>0, <1>1 DEF Kept, PassesStaged, Marked, PassesKnown
<1>2. CASE Defer(r) \/ PassFails(r) \/ WriteFails(r)
  BY <1>0, <1>1, <1>2 DEF Defer, PassFails, WriteFails, GoTo
<1>3. CASE LoadStaging(r)
  <2>1. /\ phase[r] = "begun" /\ phase'[r] = "looping" /\ passed'[r] = stagedPass
        /\ UNCHANGED <<staging, stagedPass, range, plan>>
    BY <1>0, <1>3 DEF LoadStaging, GoTo
  <2> QED
    BY <1>0, <2>1 DEF Kept, PassesStaged, Marked, PassesKnown
<1>4. CASE SaveSeed(r)
  <2>1. staging = <<>> /\ ~stagedPass
    BY <1>0, <1>4 DEF SaveSeed, InStep, PassesStaged
  <2>2. ~stagedPass' /\ phase'[r] = "seeding"
    BY <1>0, <1>4, <2>1 DEF SaveSeed, Save, GoTo
  <2> QED
    BY <2>1, <2>2 DEF Kept, PassesStaged, Marked, PassesKnown
<1>5. CASE SetRange(r)
  <2>1. /\ phase[r] = "seeding" /\ phase'[r] = "looping"
        /\ range' = <<plan[r].start, plan[r].end>> /\ UNCHANGED <<staging, stagedPass, plan>>
    BY <1>0, <1>5 DEF SetRange, GoTo
  <2> QED
    BY <1>0, <2>1 DEF Kept, PassesStaged, Marked, PassesKnown
<1>6. CASE PassAnswers(r)
  <2>1. plan[r] \in Plans /\ NextMsg(r) \in 1..MaxMsg + 1
    BY <1>0, <1>6, AnswerTyped DEF PassAnswers, Planning
  <2>2. PICK s \in Extensions(NextMsg(r)) : Save(r, cand[r] \o s, TRUE)
    BY <1>6 DEF PassAnswers
  <2>3. cand[r] \o s \in Seq(Compartments)
    BY <1>0, <2>1, ExtensionFacts, ConcatSplits
  <2>4. (stagedPass => stagedPass') /\ PassesStaged'
    BY <1>0, <2>2, <2>3, SaveKeeps
  <2>5. phase[r] = "looping" /\ passed'[r] = TRUE /\ UNCHANGED <<phase, range, plan>>
    BY <1>0, <1>6 DEF PassAnswers
  <2> QED
    BY <1>0, <2>4, <2>5 DEF Kept, Marked, PassesKnown
<1>7. CASE FinishFull(r)
  <2>1. staging = cand[r] /\ (stagedPass => passed[r])
    BY <1>0, <1>7 DEF FinishFull, InStep, PassesKnown
  <2>2. phase'[r] \in {"promoting", "ending"}
    BY <1>0, <1>7 DEF FinishFull, GoTo
  <2>3. CASE Save(r, cand[r], passed[r])
    <3>1. staging' = cand[r]
      BY <1>0, <2>1, <2>3, SaveReplaces
    <3>2. stagedPass' <=> passed[r] /\ cand[r] # <<>>
      <4>1. ~(Len(staging) > Len(cand[r]))
        BY <1>0, <2>1
      <4> QED
        BY <1>0, <2>3, <4>1 DEF Save
    <3> QED
      BY <1>0, <2>1, <2>2, <3>1, <3>2 DEF Kept, PassesStaged, Marked, PassesKnown
  <2>4. CASE ~Valid(cand[r]) /\ EmptyStaging
    BY <2>1, <2>2, <2>4 DEF EmptyStaging, Kept, PassesStaged, Marked, PassesKnown
  <2>5. CASE UNCHANGED stage
    BY <1>1, <2>2, <2>5
  <2> QED
    BY <1>7, <2>3, <2>4, <2>5 DEF FinishFull
<1>8. CASE FinishPartial(r)
  <2>1. phase'[r] \in {"promoting", "ending"}
    BY <1>0, <1>8 DEF FinishPartial, GoTo
  <2>2. CASE Save(r, cand[r] \o plan[r].tail, TRUE)
    <3>1. plan[r].tail \in Seq(Compartments)
      BY <1>0, <1>8 DEF FinishPartial, Planning, Plans
    <3>2. cand[r] \o plan[r].tail \in Seq(Compartments)
      BY <1>0, <3>1, ConcatSplits
    <3>3. (stagedPass => stagedPass') /\ PassesStaged'
      BY <1>0, <2>2, <3>2, SaveKeeps
    <3> QED
      BY <2>1, <3>3 DEF Kept, Marked, PassesKnown
  <2>3. CASE UNCHANGED stage
    BY <1>1, <2>1, <2>3
  <2> QED
    BY <1>8, <2>2, <2>3 DEF FinishPartial
<1>9. CASE Promote(r)
  <2>1. phase'[r] \in {"promoted", "ending"}
    BY <1>0, <1>9 DEF Promote, GoTo
  <2>2. CASE lease = r /\ staging # <<>>
    <3>1. comps' = staging /\ ~stagedPass'
      BY <1>9, <2>2 DEF Promote, EmptyStaging
    <3> QED
      BY <2>1, <3>1 DEF Kept, PassesStaged, Marked, PassesKnown
  <2> QED
    BY <1>1, <1>9, <2>1, <2>2 DEF Promote
<1>10. CASE ClearRange(r)
  BY <1>0, <1>1, <1>10 DEF ClearRange, GoTo
<1>11. CASE End(r)
  <2>1. phase'[r] = "releasing"
    BY <1>0, <1>11 DEF End, GoTo
  <2>2. CASE range = NoRange /\ EmptyStaging
    BY <2>1, <2>2 DEF EmptyStaging, Kept, PassesStaged, Marked, PassesKnown
  <2>3. CASE UNCHANGED stage
    BY <1>1, <2>1, <2>3
  <2> QED
    BY <1>11, <2>2, <2>3 DEF End
<1>12. CASE Release(r)
  <2>1. phase'[r] \in {"gone", "unused"} /\ UNCHANGED <<staging, stagedPass>>
    BY <1>0, <1>12 DEF Release
  <2> QED
    BY <1>1, <2>1
<1> QED
  BY <1>2, <1>3, <1>4, <1>5, <1>6, <1>7, <1>8, <1>9, <1>10, <1>11, <1>12 DEF RecompStep

\* A run that starts leaves what is staged, and knows what it resumes.
LEMMA StartKeeps ==
  ASSUME KeepInv, NEW p \in Procs, NEW r \in Runs, StartFull(p, r) \/ StartPartial(p, r)
  PROVE  /\ UNCHANGED <<comps, staging, stagedPass, range>>
         /\ \A q \in Runs : Marked(q)' /\ PassesKnown(q)'
<1>0. /\ phase \in [Runs -> Phases] /\ plan \in [Runs -> Plans \cup {NoPlan}]
      /\ passed \in [Runs -> BOOLEAN] /\ \A q \in Runs : Marked(q) /\ PassesKnown(q)
  BY DEF KeepInv, LogInv, TypeInv, StagingTypeOK
<1>1. UNCHANGED <<comps, staging, stagedPass, range>>
  BY StartInStep DEF KeepInv
<1>2. CASE StartFull(p, r)
  BY <1>0, <1>1, <1>2 DEF StartFull, GoTo, FullPlan, Marked, PassesKnown
<1>3. CASE StartPartial(p, r)
  <2>1. PICK rg \in Ranges :
          \/ GoTo(r, "ending") /\ UNCHANGED <<plan, passed>>
          \/ LET s == Snap(comps, rg) IN
             /\ plan' = [plan EXCEPT ![r] = s]
             /\ \/ GoTo(r, "ending") /\ UNCHANGED passed
                \/ GoTo(r, "refusedFull") /\ UNCHANGED passed
                \/ /\ range = <<s.start, s.end>> /\ GoTo(r, "looping")
                   /\ passed' = [passed EXCEPT ![r] = stagedPass]
                \/ GoTo(r, "snapped") /\ UNCHANGED passed
    BY <1>3 DEF StartPartial
  <2> DEFINE s == Snap(comps, rg)
  <2> HIDE DEF s
  <2>2. /\ plan' \in {plan, [plan EXCEPT ![r] = s]}
        /\ passed' \in {passed, [passed EXCEPT ![r] = stagedPass]}
        /\ \/ phase' \in {[phase EXCEPT ![r] = "ending"], [phase EXCEPT ![r] = "refusedFull"],
                        [phase EXCEPT ![r] = "snapped"]}
           \/ /\ phase' = [phase EXCEPT ![r] = "looping"]
              /\ plan' = [plan EXCEPT ![r] = s] /\ range = <<s.start, s.end>>
              /\ passed' = [passed EXCEPT ![r] = stagedPass]
    BY <2>1 DEF s, GoTo
  <2>3. ASSUME NEW q \in Runs PROVE Marked(q)' /\ PassesKnown(q)'
    <3>1. CASE q = r
      <4>1. \/ phase'[r] \in {"ending", "refusedFull", "snapped"}
            \/ phase'[r] = "looping" /\ plan'[r] = s /\ passed'[r] = stagedPass
                 /\ range = <<s.start, s.end>>
        BY <1>0, <2>2
      <4> QED
        BY <1>1, <3>1, <4>1 DEF Marked, PassesKnown
    <3>2. CASE q # r
      <4>1. phase'[q] = phase[q] /\ plan'[q] = plan[q] /\ passed'[q] = passed[q]
        BY <1>0, <2>2, <3>2
      <4> QED
        BY <1>0, <1>1, <4>1 DEF Marked, PassesKnown
    <3> QED
      BY <3>1, <3>2
  <2> QED
    BY <1>1, <2>3
<1> QED
  BY <1>2, <1>3

LEMMA KeepInvKept ==
  KeepInv /\ NoRivals /\ [StagingNext]_vars => KeepInv' /\ Kept
<1> SUFFICES ASSUME KeepInv, NoRivals, [StagingNext]_vars
             PROVE  /\ Kept /\ PassesStaged'
                    /\ \A q \in Runs : Marked(q)' /\ PassesKnown(q)'
  BY LogInvKept DEF KeepInv, LogInv
<1> USE DEF dbVars, stage, locals, counters
<1>0. /\ TypeInv /\ StagingTypeOK /\ PassesStaged /\ \A q \in Runs : Marked(q) /\ PassesKnown(q)
      /\ phase \in [Runs -> Phases] /\ LogInv
  BY DEF KeepInv, LogInv, TypeInv, StagingTypeOK
<1>1. ASSUME NEW r \in Runs, RecompStep(r) \/ WriteFails(r)
      PROVE  Kept /\ PassesStaged' /\ \A q \in Runs : Marked(q)' /\ PassesKnown(q)'
  <2>1. ASSUME NEW q \in Runs \ {r} PROVE Marked(q)' /\ PassesKnown(q)'
    <3>1. phase'[q] \in {"unused", "gone"}
      BY <1>0, <1>1, <2>1, OthersRest DEF Live
    <3> QED
      BY <3>1 DEF Marked, PassesKnown
  <2> QED
    BY <1>1, <2>1, RunKeeps
<1>2. ASSUME NEW p \in Procs, NEW r \in Runs, StartFull(p, r) \/ StartPartial(p, r)
      PROVE  Kept /\ PassesStaged' /\ \A q \in Runs : Marked(q)' /\ PassesKnown(q)'
  BY <1>0, <1>2, StartKeeps DEF Kept, PassesStaged
<1>3. CASE HistorianPublishes \/ NoiseAppended
  <2>1. UNCHANGED <<staging, stagedPass, range, phase, plan, passed>>
    BY <1>0, <1>3, HistorianExtends
  <2> QED
    BY <1>0, <2>1 DEF Kept, PassesStaged, Marked, PassesKnown
<1>4. ASSUME NEW r \in Runs, LeaseLapses(r)
      PROVE  Kept /\ PassesStaged' /\ \A q \in Runs : Marked(q)' /\ PassesKnown(q)'
  BY <1>0, <1>4 DEF LeaseLapses, GoTo, Kept, PassesStaged, Marked, PassesKnown
<1>5. ASSUME NEW p \in Procs, Crash(p)
      PROVE  Kept /\ PassesStaged' /\ \A q \in Runs : Marked(q)' /\ PassesKnown(q)'
  <2>1. UNCHANGED <<comps, staging, stagedPass, range>>
    BY <1>5 DEF Crash
  <2>2. ASSUME NEW q \in Runs
        PROVE  \/ phase'[q] \in {"gone", "unused"}
               \/ phase'[q] = phase[q] /\ plan'[q] = plan[q] /\ passed'[q] = passed[q]
    BY <1>5 DEF Crash
  <2> QED
    BY <1>0, <2>1, <2>2 DEF Kept, PassesStaged, Marked, PassesKnown
<1>6. CASE UNCHANGED vars
  BY <1>0, <1>6 DEF vars, Kept, PassesStaged, Marked, PassesKnown
<1>7. CASE StagingNext
  BY <1>1, <1>2, <1>3, <1>4, <1>5, <1>7 DEF StagingNext
<1> QED
  BY <1>6, <1>7

LEMMA KeepInit == StagingInit => KeepInv
<1> SUFFICES ASSUME StagingInit PROVE KeepInv
  OBVIOUS
<1>1. comps = <<>> /\ ~stagedPass /\ \A r \in Runs : phase[r] = "unused"
  BY DEF StagingInit
<1>2. Valid(comps)
  BY <1>1 DEF Valid, ContiguousFrom
<1> QED
  BY <1>1, <1>2, TypeInit DEF KeepInv, LogInv, InStep, PassesStaged, Marked, PassesKnown

\* With one recomp at work at a time, full or partial, whatever it resumes or refuses,
\* and whenever it fails, loses its lease or dies, what passes staged under a range
\* marker leaves staging by its promotion, or because it does not validate.
THEOREM MarkedWorkStays == StagingSpec /\ []NoRivals => MarkedWorkIsKept
<1>1. KeepInv /\ NoRivals /\ [StagingNext]_vars => KeepInv'
  BY KeepInvKept
<1>2. KeepInv /\ NoRivals /\ [StagingNext]_vars => Kept
  BY KeepInvKept
<1> QED
  BY <1>1, <1>2, KeepInit, PTL DEF StagingSpec, MarkedWorkIsKept, Kept

\* Where no lease of a live recomp lapses, this holds of any number of recomps.
THEOREM UnlapsedMarkedWork ==
  ASSUME MaxLapses = 0
  PROVE  StagingSpec => MarkedWorkIsKept
BY UnlapsedAlone, MarkedWorkStays, PTL

\* One recomp at a time keeps it also where its lease lapses under its hands.
THEOREM LoneMarkedWork ==
  ASSUME NEW R, Runs = {R}
  PROVE  StagingSpec => MarkedWorkIsKept
<1>1. NoRivals
  BY DEF NoRivals
<1> QED
  BY <1>1, MarkedWorkStays, PTL

-----------------------------------------------------------------------------
(* The compartments outside a rebuilt range. *)

\* rows is as far as index i the beginning of the history h.
Begins(rows, h, i) == \A j \in 1..i : j <= Len(h) /\ rows[j] = h[j]

\* Every row belongs to an unchanged beginning of the history, or to the range being
\* rebuilt and what follows it.
Mixed(rows, h, from) == \A i \in 1..Len(rows) : Begins(rows, h, i) \/ rows[i].start >= from

\* What a full recomp works on while a marker is set reaches the marked range: the
\* marker belongs to these rows, and not to a rebuild that is over.  The code does not
\* see to that: a promotion and the removal of its marker are two transactions, and a
\* full recomp that promotes the rows of a partial one leaves the marker.
MarkerFits ==
  \A r \in Runs : (phase[r] = "looping" /\ plan[r].kind = "full" /\ range # NoRange)
                   => EndOf(cand[r]) + 1 >= range[1]

\* Rows under a marker begin the stored history, up to those rebuilt.
StagedMixed == range # NoRange => Mixed(staging, comps, range[1])

\* A fresh partial recomp starts from the beginning of the history.
Seeded(r) == phase[r] \in {"snapped", "seeding"} => Begins(cand[r], comps, Len(cand[r]))

\* What a partial recomp is about to promote has the rows it found before its range
\* and behind it.
Merged(r) ==
  phase[r] = "promoting" /\ plan[r].kind = "partial"
    => /\ Begins(staging, comps, plan[r].prior)
       /\ LastRows(staging, Len(plan[r].tail)) = plan[r].tail

RestInv == KeepInv /\ StagedMixed /\ \A r \in Runs : Seeded(r) /\ Merged(r)

LEMMA ValidRow ==
  ASSUME NEW h \in Seq(Compartments), Valid(h), NEW i \in 1..Len(h)
  PROVE  h[i].start \in Nat /\ h[i].end \in Nat /\ h[i].start <= h[i].end
<1>1. h[i].start <= h[i].end
  BY DEF Valid, ContiguousFrom
<1> QED
  BY <1>1, RowType

LEMMA BeginsMixed ==
  ASSUME NEW rows \in Seq(Compartments), NEW h, NEW from, Begins(rows, h, Len(rows))
  PROVE  Mixed(rows, h, from)
<1> SUFFICES ASSUME NEW i \in 1..Len(rows) PROVE Begins(rows, h, i)
  BY DEF Mixed
<1>1. \A j \in 1..i : j \in 1..Len(rows)
  OBVIOUS
<1> QED
  BY <1>1 DEF Begins

\* More history at the end changes no beginning.
LEMMA BeginsExtends ==
  ASSUME NEW rows \in Seq(Compartments), NEW h \in Seq(Compartments), NEW s \in Seq(Compartments),
         NEW i \in 0..Len(rows), Begins(rows, h, i)
  PROVE  Begins(rows, h \o s, i)
<1> SUFFICES ASSUME NEW j \in 1..i PROVE j <= Len(h \o s) /\ rows[j] = (h \o s)[j]
  BY DEF Begins
<1>1. j \in 1..Len(h) /\ rows[j] = h[j]
  BY DEF Begins
<1> QED
  BY <1>1

LEMMA MixedExtends ==
  ASSUME NEW rows \in Seq(Compartments), NEW t \in Seq(Compartments), NEW h, NEW from,
         Mixed(rows, h, from), \A k \in 1..Len(t) : t[k].start >= from
  PROVE  Mixed(rows \o t, h, from)
<1> SUFFICES ASSUME NEW i \in 1..Len(rows \o t)
             PROVE  Begins(rows \o t, h, i) \/ (rows \o t)[i].start >= from
  BY DEF Mixed
<1>1. CASE i <= Len(rows)
  <2>1. i \in 1..Len(rows) /\ \A j \in 1..i : (rows \o t)[j] = rows[j]
    BY <1>1
  <2> QED
    BY <2>1 DEF Mixed, Begins
<1>2. CASE i > Len(rows)
  <2>1. i - Len(rows) \in 1..Len(t) /\ (rows \o t)[i] = t[i - Len(rows)]
    BY <1>2
  <2> QED
    BY <2>1
<1> QED
  BY <1>1, <1>2

\* Nothing in a contiguous piece comes before its first message.
LEMMA PieceStarts ==
  ASSUME NEW s \in Seq(Compartments), NEW from \in Nat, ContiguousFrom(s, from),
         NEW k \in 1..Len(s)
  PROVE  s[k].start >= from
<1>1. 1 \in 1..Len(s) /\ s[1].start = from /\ s[1].start <= s[1].end
  BY DEF ContiguousFrom
<1>2. CASE k = 1
  BY <1>1, <1>2
<1>3. CASE k > 1
  <2>1. s[1].end < s[k].start
    BY <1>1, <1>3, ContiguousOrdered
  <2>2. s[1].end \in Nat /\ s[k].start \in Nat
    BY <1>1, RowType
  <2> QED
    BY <1>1, <2>1, <2>2
<1> QED
  BY <1>2, <1>3

\* What the check of the rebuilt part says of the candidates.
LEMMA CoversFacts ==
  ASSUME NEW r \in Runs, plan[r] \in Plans, cand[r] \in Seq(Compartments), CoversRange(r)
  PROVE  /\ Len(cand[r]) > plan[r].prior
         /\ cand[r][plan[r].prior + 1].start = plan[r].start
         /\ EndOf(cand[r]) = plan[r].end
<1> DEFINE c == cand[r]
           k == plan[r].prior
           n == Len(c)
           built == SubSeq(c, k + 1, n)
<1>0. c \in Seq(Compartments) /\ k \in Nat /\ n \in Nat
  BY DEF Plans
<1>1. built # <<>> /\ ContiguousFrom(built, plan[r].start) /\ EndOf(built) = plan[r].end
  BY DEF CoversRange
<1> HIDE DEF c, k
<1>2. n > k
  BY <1>0, <1>1
<1>3. /\ Len(built) = n - k /\ n - k \in 1..Len(built) /\ 1 \in 1..Len(built)
      /\ built[1] = c[k + 1] /\ built[n - k] = c[n]
  BY <1>0, <1>2
<1>4. c[k + 1].start = plan[r].start
  BY <1>1, <1>3 DEF ContiguousFrom
<1>5. c[n].end = plan[r].end
  BY <1>1, <1>3 DEF EndOf
<1>6. c # <<>>
  BY <1>0, <1>2
<1> QED
  BY <1>2, <1>4, <1>5, <1>6 DEF EndOf, c, k

LEMMA ConcatRows ==
  ASSUME NEW s \in Seq(Compartments), NEW t \in Seq(Compartments)
  PROVE  /\ \A j \in 1..Len(s) : (s \o t)[j] = s[j]
         /\ \A k \in 1..Len(t) : (s \o t)[Len(s) + k] = t[k]
OBVIOUS

\* Under the marker of its range, a partial recomp has the rows before the range where
\* the check of the rebuilt part expects them.
LEMMA PriorKept ==
  ASSUME NEW r \in Runs, plan[r] \in Plans, cand[r] \in Seq(Compartments),
         comps \in Seq(Compartments), CoversRange(r), Valid(cand[r] \o plan[r].tail),
         Mixed(cand[r], comps, plan[r].start)
  PROVE  Begins(cand[r], comps, plan[r].prior)
<1> DEFINE c == cand[r]
           k == plan[r].prior
           m == c \o plan[r].tail
<1>0. /\ c \in Seq(Compartments) /\ k \in Nat /\ plan[r].tail \in Seq(Compartments)
      /\ plan[r].start \in Nat
  BY DEF Plans
<1>1. Len(c) > k /\ c[k + 1].start = plan[r].start
  BY CoversFacts
<1>2. CASE k = 0
  BY <1>2 DEF Begins
<1>3. CASE k > 0
  <2>1. k \in 1..Len(c) /\ k + 1 \in 1..Len(c)
    BY <1>0, <1>1, <1>3, SMTT(30)
  <2>2. /\ m \in Seq(Compartments) /\ Valid(m)
        /\ k \in 1..Len(m) /\ k + 1 \in 1..Len(m)
        /\ m[k] = c[k] /\ m[k + 1] = c[k + 1]
    <3>1. m \in Seq(Compartments) /\ Len(m) = Len(c) + Len(plan[r].tail)
      BY <1>0, ConcatSplits
    <3>2. Len(c) \in Nat /\ Len(plan[r].tail) \in Nat
      BY <1>0
    <3>3. m[k] = c[k] /\ m[k + 1] = c[k + 1]
      BY <1>0, <2>1, ConcatRows
    <3> HIDE DEF c, k
    <3>4. k \in 1..Len(m) /\ k + 1 \in 1..Len(m)
      <4> HIDE DEF m
      <4> QED
        BY <2>1, <3>1, <3>2
    <3> QED
      BY <3>1, <3>3, <3>4 DEF c
  <2> HIDE DEF m, k
  <2>3. m[k].end < m[k + 1].start
    <3>1. k < k + 1
      BY <1>0
    <3> QED
      BY <2>2, <3>1, ContiguousOrdered DEF Valid
  <2>4. m[k].start <= m[k].end /\ m[k].start \in Nat /\ m[k].end \in Nat
    BY <2>2, ValidRow
  <2>5. ~(c[k].start >= plan[r].start)
    <3>1. /\ c[k].start = m[k].start /\ plan[r].start = m[k + 1].start
          /\ m[k + 1].start \in Nat
      BY <1>0, <1>1, <2>2
    <3> HIDE DEF c
    <3> QED
      BY <2>3, <2>4, <3>1
  <2> QED
    BY <2>1, <2>5 DEF Mixed, k
<1> QED
  BY <1>0, <1>2, <1>3

\* The rows of the merged set that come from behind the range start in it or later.
LEMMA TailStarts ==
  ASSUME NEW r \in Runs, plan[r] \in Plans, cand[r] \in Seq(Compartments),
         CoversRange(r), Valid(cand[r] \o plan[r].tail),
         NEW k \in 1..Len(plan[r].tail)
  PROVE  plan[r].tail[k].start >= plan[r].start
<1> DEFINE m == cand[r] \o plan[r].tail
           first == plan[r].prior + 1
           i == Len(cand[r]) + k
<1>0. /\ plan[r].tail \in Seq(Compartments) /\ plan[r].prior \in Nat /\ plan[r].start \in Nat
      /\ Len(cand[r]) \in Nat /\ Len(plan[r].tail) \in Nat
  BY DEF Plans
<1>1. m \in Seq(Compartments) /\ Len(m) = Len(cand[r]) + Len(plan[r].tail)
  BY <1>0, ConcatSplits
<1>2. Len(cand[r]) > plan[r].prior /\ cand[r][first].start = plan[r].start
  BY CoversFacts
<1>3. m[first] = cand[r][first] /\ m[i] = plan[r].tail[k]
  <2>1. first \in 1..Len(cand[r])
    BY <1>0, <1>2
  <2> QED
    BY <1>0, <2>1, ConcatRows
<1>4. first \in 1..Len(m) /\ i \in 1..Len(m) /\ first < i
  <2> DEFINE n == Len(cand[r])
             l == Len(plan[r].tail)
             q == plan[r].prior
             lm == Len(m)
  <2>1. n \in Nat /\ l \in Nat /\ k \in 1..l /\ q \in Nat /\ n > q /\ lm = n + l
    BY <1>0, <1>1, <1>2
  <2> HIDE DEF n, l, q, lm
  <2>2. q + 1 \in 1..lm /\ n + k \in 1..lm /\ q + 1 < n + k
    BY <2>1
  <2> QED
    BY <2>2 DEF n, q, lm
<1> HIDE DEF m, first, i
<1>5. m[first].end < m[i].start
  BY <1>1, <1>4, ContiguousOrdered DEF Valid, m
<1>6. /\ m[first].start \in Nat /\ m[first].end \in Nat /\ m[first].start <= m[first].end
      /\ m[i].start \in Nat
  <2>1. Valid(m)
    BY DEF m
  <2> QED
    BY <1>1, <1>4, <2>1, ValidRow
<1>7. m[first].start = plan[r].start /\ m[i].start = plan[r].tail[k].start
  BY <1>2, <1>3
<1>8. m[i].start >= m[first].start
  BY <1>5, <1>6
<1> QED
  BY <1>7, <1>8

\* A run's step keeps the rows outside.
LEMMA RunRests ==
  ASSUME RestInv, NoRivals, MarkerFits, NEW r \in Runs, RecompStep(r) \/ WriteFails(r)
  PROVE  StagedMixed' /\ Seeded(r)' /\ Merged(r)'
<1> USE DEF dbVars, stage, locals, counters
<1>0. /\ phase \in [Runs -> Phases] /\ staging \in Seq(Compartments)
      /\ comps \in Seq(Compartments) /\ cand[r] \in Seq(Compartments)
      /\ cand \in [Runs -> Seq(Compartments)]
      /\ phase[r] \in Planning => plan[r] \in Plans
      /\ InStep(r) /\ Marked(r) /\ StagedMixed /\ Seeded(r) /\ Merged(r)
  BY DEF RestInv, KeepInv, LogInv, TypeInv, StagingTypeOK, Planned
<1>1. CASE /\ UNCHANGED <<staging, range, comps>>
           /\ phase'[r] \notin {"snapped", "seeding", "promoting"}
  <2>1. StagedMixed'
    BY <1>0, <1>1 DEF StagedMixed, Begins, Mixed
  <2> QED
    BY <1>1, <2>1 DEF Seeded, Merged
<1>2. CASE Defer(r) \/ LoadStaging(r) \/ PassFails(r) \/ WriteFails(r)
  BY <1>0, <1>1, <1>2 DEF Defer, LoadStaging, PassFails, WriteFails, GoTo
<1>3. CASE /\ staging' = <<>>
           /\ phase'[r] \notin {"snapped", "seeding", "promoting"}
  <2>1. StagedMixed'
    BY <1>3 DEF StagedMixed, Mixed
  <2> QED
    BY <1>3, <2>1 DEF Seeded, Merged
<1>4. CASE SaveSeed(r)
  <2>1. staging' = cand[r]
    <3>1. staging = <<>> /\ Save(r, cand[r], FALSE)
      BY <1>0, <1>4 DEF SaveSeed, InStep
    <3>2. Len(staging) <= Len(cand[r])
      BY <1>0, <3>1
    <3> QED
      BY <1>0, <3>1, <3>2, SaveReplaces
  <2>2. /\ UNCHANGED <<comps, range, plan, cand>> /\ phase'[r] = "seeding"
        /\ phase[r] = "snapped"
    BY <1>0, <1>4 DEF SaveSeed, GoTo
  <2>3. Begins(cand[r], comps, Len(cand[r]))
    BY <1>0, <2>2 DEF Seeded
  <2>4. Mixed(cand[r], comps, range[1])
    BY <1>0, <2>3, BeginsMixed
  <2> QED
    BY <2>1, <2>2, <2>3, <2>4 DEF Seeded, Merged, StagedMixed, Begins, Mixed
<1>5. CASE SetRange(r)
  <2>1. /\ UNCHANGED <<comps, staging, plan, cand>> /\ phase'[r] = "looping"
        /\ phase[r] = "seeding" /\ staging = cand[r]
    BY <1>0, <1>5 DEF SetRange, GoTo, InStep
  <2>2. Mixed(staging, comps, range'[1])
    BY <1>0, <2>1, BeginsMixed DEF Seeded
  <2> QED
    BY <2>1, <2>2 DEF Seeded, Merged, StagedMixed, Begins, Mixed
<1>6. CASE PassAnswers(r)
  <2>1. /\ plan[r] \in Plans /\ NextMsg(r) \in 1..MaxMsg + 1 /\ staging = cand[r]
        /\ phase[r] = "looping" /\ UNCHANGED <<comps, range, plan, phase>>
    BY <1>0, <1>6, AnswerTyped DEF PassAnswers, Planning, InStep
  <2>2. PICK s \in Extensions(NextMsg(r)) : Save(r, cand[r] \o s, TRUE)
    BY <1>6 DEF PassAnswers
  <2>3. s \in Seq(Compartments) /\ ContiguousFrom(s, NextMsg(r))
    BY <2>1, ExtensionFacts
  <2>4. staging' = staging \o s
    <3>1. cand[r] \o s \in Seq(Compartments) /\ Len(cand[r]) <= Len(cand[r] \o s)
      BY <1>0, <2>3, ConcatSplits
    <3> QED
      BY <1>0, <2>1, <2>2, <3>1, SaveReplaces
  <2>5. range # NoRange => NextMsg(r) >= range[1] /\ range[1] \in Nat
    <3>1. SUFFICES ASSUME range # NoRange PROVE NextMsg(r) >= range[1] /\ range[1] \in Nat
      OBVIOUS
    <3>2. plan[r].start \in 1..MaxMsg /\ EndOf(cand[r]) \in 0..MaxMsg /\ range[1] \in 1..MaxMsg
      <4>1. range \in (1..MaxMsg) \X (1..MaxMsg)
        BY <3>1 DEF RestInv, KeepInv, LogInv, TypeInv, StagingTypeOK
      <4> QED
        BY <1>0, <2>1, <4>1, EndOfType DEF Plans
    <3>3. CASE plan[r].kind = "partial"
      <4>1. range[1] = plan[r].start
        BY <1>0, <2>1, <3>3 DEF Marked
      <4> QED
        BY <3>2, <4>1 DEF NextMsg
    <3>4. CASE plan[r].kind = "full"
      <4>1. EndOf(cand[r]) + 1 >= range[1]
        BY <2>1, <3>1, <3>4 DEF MarkerFits
      <4> QED
        BY <3>2, <4>1 DEF NextMsg
    <3> QED
      BY <2>1, <3>3, <3>4 DEF Plans
  <2>6. range # NoRange => Mixed(staging \o s, comps, range[1])
    <3>1. SUFFICES ASSUME range # NoRange PROVE Mixed(staging \o s, comps, range[1])
      OBVIOUS
    <3>2. ASSUME NEW k \in 1..Len(s) PROVE s[k].start >= range[1]
      <4>1. s[k].start >= NextMsg(r) /\ s[k].start \in Nat
        BY <2>1, <2>3, PieceStarts, RowType
      <4> QED
        BY <2>1, <2>5, <3>1, <4>1
    <3> QED
      BY <1>0, <2>3, <3>1, <3>2, MixedExtends DEF StagedMixed
  <2> QED
    BY <2>1, <2>4, <2>6 DEF Seeded, Merged, StagedMixed, Begins, Mixed
<1>7. CASE FinishFull(r)
  <2>1. /\ staging = cand[r] /\ plan[r].kind = "full" /\ UNCHANGED <<comps, plan>>
        /\ phase'[r] \in {"promoting", "ending"}
    BY <1>0, <1>7 DEF FinishFull, InStep, GoTo
  <2>2. CASE Save(r, cand[r], passed[r]) /\ UNCHANGED range
    <3>1. staging' = staging
      BY <1>0, <2>1, <2>2, SaveReplaces
    <3> QED
      BY <1>0, <2>1, <2>2, <3>1 DEF Seeded, Merged, StagedMixed, Begins, Mixed
  <2>3. CASE EmptyStaging /\ GoTo(r, "ending")
    BY <1>0, <1>3, <2>3 DEF EmptyStaging, GoTo
  <2>4. CASE UNCHANGED <<stage, range>> /\ GoTo(r, "ending")
    BY <1>0, <1>1, <2>1, <2>4 DEF GoTo
  <2> QED
    BY <1>7, <2>2, <2>3, <2>4 DEF FinishFull
<1>8. CASE FinishPartial(r)
  <2> DEFINE m == cand[r] \o plan[r].tail
  <2>1. CASE CoversRange(r) /\ Valid(m) /\ Save(r, m, TRUE) /\ GoTo(r, "promoting")
    <3>1. /\ plan[r] \in Plans /\ plan[r].tail \in Seq(Compartments) /\ staging = cand[r]
          /\ range = <<plan[r].start, plan[r].end>> /\ range # NoRange
          /\ UNCHANGED <<comps, range, plan>>
      <4>1. /\ phase[r] = "looping" /\ plan[r].kind = "partial" /\ plan[r] \in Plans
            /\ UNCHANGED <<comps, range, plan>>
        BY <1>0, <1>8 DEF FinishPartial, Planning
      <4> QED
        BY <1>0, <4>1 DEF InStep, Marked, Plans
    <3>2. Mixed(cand[r], comps, plan[r].start)
      BY <1>0, <3>1 DEF StagedMixed
    <3>3. Begins(cand[r], comps, plan[r].prior)
      BY <1>0, <2>1, <3>1, <3>2, PriorKept
    <3>4. m \in Seq(Compartments) /\ Len(m) = Len(cand[r]) + Len(plan[r].tail)
          /\ SubSeq(m, Len(cand[r]) + 1, Len(m)) = plan[r].tail
      BY <1>0, <3>1, ConcatSplits
    <3>5. staging' = m
      <4>1. Len(staging) <= Len(m)
        BY <1>0, <3>1, <3>4
      <4> HIDE DEF m
      <4> QED
        BY <1>0, <2>1, <3>4, <4>1, SaveReplaces
    <3>6. Mixed(m, comps, plan[r].start)
      <4>1. \A k \in 1..Len(plan[r].tail) : plan[r].tail[k].start >= plan[r].start
        BY <1>0, <2>1, <3>1, TailStarts
      <4> QED
        BY <1>0, <3>1, <3>2, <4>1, MixedExtends
    <3>7. Begins(m, comps, plan[r].prior)
      <4>1. plan[r].prior \in Nat /\ Len(cand[r]) > plan[r].prior
        BY <1>0, <2>1, <3>1, CoversFacts DEF Plans
      <4>2. \A j \in 1..plan[r].prior : m[j] = cand[r][j]
        BY <1>0, <3>1, <4>1
      <4> QED
        BY <3>3, <4>2 DEF Begins
    <3>8. LastRows(m, Len(plan[r].tail)) = plan[r].tail
      <4>1. Len(m) - Len(plan[r].tail) + 1 = Len(cand[r]) + 1
        <5>1. Len(cand[r]) \in Nat /\ Len(plan[r].tail) \in Nat
          BY <1>0, <3>1
        <5> HIDE DEF m
        <5> QED
          BY <3>4, <5>1
      <4> QED
        BY <3>4, <4>1 DEF LastRows
    <3> HIDE DEF m
    <3>9. phase'[r] = "promoting"
      BY <1>0, <2>1 DEF GoTo
    <3>10. StagedMixed'
      BY <3>1, <3>5, <3>6 DEF StagedMixed, Mixed, Begins
    <3>11. Merged(r)'
      BY <3>1, <3>5, <3>7, <3>8 DEF Merged, Begins, LastRows
    <3> QED
      BY <3>9, <3>10, <3>11 DEF Seeded
  <2>2. CASE UNCHANGED stage /\ GoTo(r, "ending")
    BY <1>0, <1>1, <1>8, <2>2 DEF FinishPartial, GoTo
  <2> QED
    BY <1>8, <2>1, <2>2 DEF FinishPartial
<1>9. CASE Promote(r) \/ End(r)
  <2>1. phase'[r] \notin {"snapped", "seeding", "promoting"}
    BY <1>0, <1>9 DEF Promote, End, GoTo
  <2>2. staging' = <<>> \/ UNCHANGED <<staging, range, comps>>
    BY <1>9 DEF Promote, End, EmptyStaging
  <2> QED
    BY <1>1, <1>3, <2>1, <2>2
<1>10. CASE ClearRange(r)
  <2>1. staging' = <<>> /\ phase'[r] = "ending"
    BY <1>0, <1>10 DEF ClearRange, GoTo, InStep
  <2> QED
    BY <1>3, <2>1
<1>11. CASE Release(r)
  <2>1. phase'[r] \in {"gone", "unused"} /\ UNCHANGED <<staging, range, comps>>
    BY <1>0, <1>11 DEF Release
  <2> QED
    BY <1>1, <2>1
<1> QED
  BY <1>2, <1>4, <1>5, <1>6, <1>7, <1>8, <1>9, <1>10, <1>11 DEF RecompStep

\* What a recomp starts from.
LEMMA StartRests ==
  ASSUME RestInv, NEW p \in Procs, NEW r \in Runs, StartFull(p, r) \/ StartPartial(p, r)
  PROVE  StagedMixed' /\ \A q \in Runs : Seeded(q)' /\ Merged(q)'
<1>0. /\ phase \in [Runs -> Phases] /\ plan \in [Runs -> Plans \cup {NoPlan}]
      /\ cand \in [Runs -> Seq(Compartments)] /\ comps \in Seq(Compartments)
      /\ StagedMixed /\ \A q \in Runs : Seeded(q) /\ Merged(q)
  BY DEF RestInv, KeepInv, LogInv, TypeInv, StagingTypeOK
<1>1. UNCHANGED <<comps, staging, range>>
  BY StartKeeps DEF RestInv
<1>2. StagedMixed'
  BY <1>0, <1>1 DEF StagedMixed, Begins, Mixed
<1>3. ASSUME NEW q \in Runs \ {r} PROVE Seeded(q)' /\ Merged(q)'
  <2>1. phase'[q] = phase[q] /\ cand'[q] = cand[q] /\ plan'[q] = plan[q]
    <3>1. CASE StartFull(p, r)
      BY <1>0, <3>1 DEF StartFull, GoTo
    <3>2. CASE StartPartial(p, r)
      <4>1. \/ GoTo(r, "ending") /\ UNCHANGED <<plan, cand>>
            \/ \E rg \in Ranges :
                 /\ plan' = [plan EXCEPT ![r] = Snap(comps, rg)]
                 /\ \E to : GoTo(r, to)
                 /\ \/ UNCHANGED cand
                    \/ \E rows : cand' = [cand EXCEPT ![r] = rows]
        BY <3>2 DEF StartPartial
      <4> QED
        BY <1>0, <4>1 DEF GoTo
    <3> QED
      BY <3>1, <3>2
  <2> QED
    BY <1>0, <1>1, <2>1 DEF Seeded, Merged, Begins
<1>4. Seeded(r)' /\ Merged(r)'
  <2>1. CASE phase'[r] \notin {"snapped", "seeding", "promoting"}
    BY <2>1 DEF Seeded, Merged
  <2>2. CASE phase'[r] \in {"snapped", "seeding", "promoting"}
    <3>1. ~StartFull(p, r)
      BY <1>0, <2>2 DEF StartFull, GoTo
    <3>2. PICK rg \in Ranges :
            /\ Snappable(comps, rg) /\ GoTo(r, "snapped")
            /\ cand' = [cand EXCEPT ![r] = SubSeq(comps, 1, Snap(comps, rg).prior)]
      BY <1>0, <2>2, <3>1 DEF StartPartial, GoTo
    <3>3. PICK first, last \in 1..Len(comps) : SnappedAt(comps, Snap(comps, rg), first, last)
      BY <1>0, <3>2, SnapFinds
    <3> DEFINE n == Snap(comps, rg).prior
    <3>4. n \in 0..Len(comps)
      BY <1>0, <3>3 DEF SnappedAt
    <3> HIDE DEF n
    <3>5. cand'[r] = SubSeq(comps, 1, n) /\ phase'[r] = "snapped"
      BY <1>0, <3>2 DEF GoTo, n
    <3>6. /\ Len(SubSeq(comps, 1, n)) = n
          /\ \A j \in 1..n : j <= Len(comps) /\ SubSeq(comps, 1, n)[j] = comps[j]
      BY <1>0, <3>4
    <3> QED
      BY <1>1, <3>5, <3>6 DEF Seeded, Merged, Begins
  <2> QED
    BY <2>1, <2>2
<1> QED
  BY <1>2, <1>3, <1>4

LEMMA RestInvKept ==
  RestInv /\ NoRivals /\ MarkerFits /\ [StagingNext]_vars => RestInv'
<1> SUFFICES ASSUME RestInv, NoRivals, MarkerFits, [StagingNext]_vars
             PROVE  StagedMixed' /\ \A q \in Runs : Seeded(q)' /\ Merged(q)'
  BY KeepInvKept DEF RestInv
<1> USE DEF dbVars, stage, locals, counters
<1>0. /\ KeepInv /\ LogInv /\ TypeInv /\ StagedMixed
      /\ staging \in Seq(Compartments) /\ comps \in Seq(Compartments)
      /\ phase \in [Runs -> Phases] /\ cand \in [Runs -> Seq(Compartments)]
      /\ \A q \in Runs : Seeded(q) /\ Merged(q)
  BY DEF RestInv, KeepInv, LogInv, TypeInv, StagingTypeOK
<1>1. ASSUME NEW r \in Runs, RecompStep(r) \/ WriteFails(r)
      PROVE  StagedMixed' /\ \A q \in Runs : Seeded(q)' /\ Merged(q)'
  <2>1. ASSUME NEW q \in Runs \ {r} PROVE Seeded(q)' /\ Merged(q)'
    <3>1. phase'[q] \in {"unused", "gone"}
      BY <1>0, <1>1, <2>1, OthersRest DEF Live
    <3> QED
      BY <3>1 DEF Seeded, Merged
  <2> QED
    BY <1>1, <2>1, RunRests
<1>2. ASSUME NEW p \in Procs, NEW r \in Runs, StartFull(p, r) \/ StartPartial(p, r)
      PROVE  StagedMixed' /\ \A q \in Runs : Seeded(q)' /\ Merged(q)'
  BY <1>2, StartRests
<1>3. CASE HistorianPublishes \/ NoiseAppended
  <2>1. UNCHANGED <<staging, range, phase, plan, cand>>
    BY <1>0, <1>3, HistorianExtends
  <2>2. PICK s \in Seq(Compartments) : comps' = comps \o s
    BY <1>0, <1>3, HistorianExtends
  <2>3. ASSUME NEW rows, NEW i \in Nat, Begins(rows, comps, i)
        PROVE  Begins(rows, comps', i)
    <3>1. ASSUME NEW j \in 1..i PROVE j <= Len(comps') /\ rows[j] = comps'[j]
      <4>1. j \in 1..Len(comps) /\ rows[j] = comps[j]
        BY <1>0, <2>3 DEF Begins
      <4> QED
        BY <1>0, <2>2, <4>1
    <3> QED
      BY <3>1 DEF Begins
  <2>4. StagedMixed'
    <3>1. SUFFICES ASSUME range # NoRange, NEW i \in 1..Len(staging)
                   PROVE  Begins(staging, comps', i) \/ staging[i].start >= range[1]
      BY <2>1 DEF StagedMixed, Mixed, Begins
    <3>2. Begins(staging, comps, i) \/ staging[i].start >= range[1]
      BY <1>0, <3>1 DEF StagedMixed, Mixed
    <3>3. i \in Nat
      OBVIOUS
    <3> QED
      BY <2>3, <3>2, <3>3
  <2>5. ASSUME NEW q \in Runs PROVE Seeded(q)'
    <3>1. SUFFICES ASSUME phase[q] \in {"snapped", "seeding"}
                   PROVE  Begins(cand[q], comps', Len(cand[q]))
      BY <2>1 DEF Seeded, Begins
    <3>2. Len(cand[q]) \in Nat
      BY <1>0
    <3> QED
      BY <1>0, <2>3, <3>1, <3>2 DEF Seeded
  <2>6. ASSUME NEW q \in Runs PROVE Merged(q)'
    <3>1. SUFFICES ASSUME phase[q] = "promoting", plan[q].kind = "partial"
                   PROVE  /\ Begins(staging, comps', plan[q].prior)
                          /\ LastRows(staging, Len(plan[q].tail)) = plan[q].tail
      BY <2>1 DEF Merged, Begins, LastRows
    <3>2. plan[q].prior \in Nat
      BY <1>0, <3>1 DEF TypeInv, Planned, Planning, Plans
    <3> QED
      BY <1>0, <2>3, <3>1, <3>2 DEF Merged
  <2> QED
    BY <2>4, <2>5, <2>6
<1>4. ASSUME NEW r \in Runs, LeaseLapses(r)
      PROVE  StagedMixed' /\ \A q \in Runs : Seeded(q)' /\ Merged(q)'
  <2>1. UNCHANGED <<comps, staging, range, cand, plan>>
    BY <1>4 DEF LeaseLapses
  <2>2. \A q \in Runs : phase'[q] = phase[q] \/ phase'[q] = "unused"
    BY <1>0, <1>4 DEF LeaseLapses, GoTo
  <2> QED
    BY <1>0, <2>1, <2>2 DEF StagedMixed, Mixed, Seeded, Merged, Begins, LastRows
<1>5. ASSUME NEW p \in Procs, Crash(p)
      PROVE  StagedMixed' /\ \A q \in Runs : Seeded(q)' /\ Merged(q)'
  <2>1. UNCHANGED <<comps, staging, range>>
    BY <1>5 DEF Crash
  <2>2. ASSUME NEW q \in Runs
        PROVE  \/ phase'[q] \in {"gone", "unused"}
               \/ phase'[q] = phase[q] /\ cand'[q] = cand[q] /\ plan'[q] = plan[q]
    BY <1>5 DEF Crash
  <2>3. StagedMixed'
    BY <1>0, <2>1 DEF StagedMixed, Mixed, Begins
  <2>4. ASSUME NEW q \in Runs PROVE Seeded(q)' /\ Merged(q)'
    <3>1. CASE phase'[q] \in {"gone", "unused"}
      BY <3>1 DEF Seeded, Merged
    <3>2. CASE phase'[q] = phase[q] /\ cand'[q] = cand[q] /\ plan'[q] = plan[q]
      BY <1>0, <2>1, <3>2 DEF Seeded, Merged, Begins, LastRows
    <3> QED
      BY <2>2, <3>1, <3>2
  <2> QED
    BY <2>3, <2>4
<1>6. CASE UNCHANGED vars
  BY <1>0, <1>6 DEF vars, StagedMixed, Mixed, Seeded, Merged, Begins, LastRows
<1>7. CASE StagingNext
  BY <1>1, <1>2, <1>3, <1>4, <1>5, <1>7 DEF StagingNext
<1> QED
  BY <1>6, <1>7

\* Where every marker a full recomp meets belongs to the rows it resumes, a partial
\* recomp keeps its word: the compartments before and behind its range are the ones it
\* found, after a resume, a lapse of the lease, a crash or an append meanwhile, and
\* also when a full recomp worked on the staged rows in between.  Without that
\* condition PartialKeepsTheRest is violated.
THEOREM RestIsKept ==
  StagingSpec /\ []NoRivals /\ []MarkerFits => PartialKeepsTheRest
<1> DEFINE Keeps == \A r \in Runs : (phase[r] = "promoting" /\ phase'[r] = "promoted")
                      => /\ SubSeq(comps', 1, plan[r].prior) = SubSeq(comps, 1, plan[r].prior)
                         /\ LastRows(comps', Len(plan[r].tail)) = plan[r].tail
<1>1. StagingInit => RestInv
  <2> SUFFICES ASSUME StagingInit PROVE RestInv
    OBVIOUS
  <2>1. range = NoRange /\ \A r \in Runs : phase[r] = "unused"
    BY DEF StagingInit
  <2> QED
    BY <2>1, KeepInit DEF RestInv, StagedMixed, Seeded, Merged
<1>2. RestInv /\ NoRivals /\ MarkerFits /\ [StagingNext]_vars => RestInv'
  BY RestInvKept
<1>3. RestInv /\ NoRivals /\ [StagingNext]_vars => Keeps
  <2> SUFFICES ASSUME RestInv, NoRivals, [StagingNext]_vars, NEW r \in Runs,
                      phase[r] = "promoting", phase'[r] = "promoted"
               PROVE  /\ SubSeq(comps', 1, plan[r].prior) = SubSeq(comps, 1, plan[r].prior)
                      /\ LastRows(comps', Len(plan[r].tail)) = plan[r].tail
    OBVIOUS
  <2> USE DEF dbVars, stage, locals, counters
  <2>0. TypeInv /\ LogInv /\ phase \in [Runs -> Phases] /\ Merged(r)
        /\ plan[r] \in Plans
    BY DEF RestInv, KeepInv, LogInv, TypeInv, StagingTypeOK, Planned, Planning
  <2>1. ASSUME NEW q \in Runs, RecompStep(q) \/ WriteFails(q) PROVE q = r /\ Promote(r)
    <3>1. q = r
      BY <2>0, <2>1, OthersRest
    <3> QED
      BY <2>0, <2>1, <3>1 DEF RecompStep, Defer, LoadStaging, SaveSeed, SetRange, PassAnswers,
           FinishFull, PassFails, FinishPartial, ClearRange, End, Release, WriteFails, GoTo
  <2>2. CASE Promote(r)
    <3>1. comps' = staging /\ plan[r].kind = "partial"
      BY <2>0, <2>2 DEF Promote, GoTo
    <3>2. /\ Begins(staging, comps, plan[r].prior)
          /\ LastRows(staging, Len(plan[r].tail)) = plan[r].tail
      BY <2>0, <3>1 DEF Merged
    <3>3. plan[r].prior \in Nat
      BY <2>0 DEF Plans
    <3>4. \A j \in 1..plan[r].prior : comps'[j] = comps[j]
      BY <3>1, <3>2 DEF Begins
    <3>5. SubSeq(comps', 1, plan[r].prior) = SubSeq(comps, 1, plan[r].prior)
      BY <3>3, <3>4
    <3> QED
      BY <3>1, <3>2, <3>5 DEF LastRows
  <2>3. ASSUME NEW p \in Procs, NEW q \in Runs, StartFull(p, q) \/ StartPartial(p, q)
        PROVE  FALSE
    BY <2>0, <2>3 DEF StartFull, StartPartial, GoTo
  <2>4. CASE HistorianPublishes \/ NoiseAppended
    BY <2>4 DEF HistorianPublishes, NoiseAppended
  <2>5. ASSUME NEW q \in Runs, LeaseLapses(q) PROVE FALSE
    BY <2>0, <2>5 DEF LeaseLapses, GoTo
  <2>6. ASSUME NEW p \in Procs, Crash(p) PROVE FALSE
    BY <2>6 DEF Crash
  <2>7. CASE UNCHANGED vars
    BY <2>7 DEF vars
  <2>8. CASE StagingNext
    BY <2>1, <2>2, <2>3, <2>4, <2>5, <2>6, <2>8 DEF StagingNext
  <2> QED
    BY <2>7, <2>8
<1> QED
  BY <1>1, <1>2, <1>3, PTL DEF StagingSpec, PartialKeepsTheRest
=============================================================================
