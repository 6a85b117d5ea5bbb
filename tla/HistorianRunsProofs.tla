------------------------ MODULE HistorianRunsProofs ------------------------
(***************************************************************************)
(* Proofs about HistorianRuns for any number of processes, runs, wrapups   *)
(* and messages, and any bounds on lapses, faults and recomps.             *)
(***************************************************************************)
EXTENDS HistorianRuns, CompartmentRangesProofs

\* A recomp writes a typed, contiguous history.
LEMMA HistoryFacts ==
  ASSUME NEW h \in Histories
  PROVE  h \in Seq(Compartments) /\ ContiguousFrom(h, 1)
<1>1. CASE h = <<>>
  BY <1>1 DEF ContiguousFrom
<1>2. CASE h \in Extensions(1)
  BY <1>2, ExtensionFacts, MaxMsgAssumption
<1> QED
  BY <1>1, <1>2 DEF Histories

-----------------------------------------------------------------------------
(* Types.  Beside the types, a run past its read knows a chunk start inside *)
(* the session, and inside the messages once it asked the model.            *)

OffsetsOK ==
  \A r \in Runs :
    /\ phase[r] \in {"planned", "model", "ready"} => offset[r] \in 1..MaxMsg + 1
    /\ phase[r] = "model" => offset[r] \in 1..MaxMsg

TypeInv == RunsTypeOK /\ OffsetsOK

\* The members of the two enumerations, so that no later step unfolds them.
LEMMA PhaseNames ==
  /\ "unused" \in Phases /\ "checked" \in Phases /\ "leased" \in Phases
  /\ "declined" \in Phases /\ "starting" \in Phases /\ "planned" \in Phases
  /\ "model" \in Phases /\ "ready" \in Phases /\ "published" \in Phases
  /\ "settling" \in Phases /\ "closing" \in Phases /\ "gone" \in Phases
  /\ "idle" \in WrapPhases /\ "joining" \in WrapPhases /\ "looping" \in WrapPhases
  /\ "acquiring" \in WrapPhases /\ "running" \in WrapPhases
  /\ "ending" \in WrapPhases /\ "over" \in WrapPhases
BY DEF Phases, WrapPhases

\* What the second look at the marker leaves, away from all other types.
LEMMA SecondLookTypes ==
  ASSUME phase \in [Runs -> Phases], proc \in [Runs -> Procs],
         active \in [Procs -> Runs \cup {NoRun}], lease \in Runs \cup {NoRun},
         NEW r \in Runs, CheckMarkerAgain(r)
  PROVE  /\ phase' \in [Runs -> Phases]
         /\ active' \in [Procs -> Runs \cup {NoRun}]
         /\ lease' \in Runs \cup {NoRun}
<1>1. phase' \in [Runs -> Phases]
  BY PhaseNames DEF CheckMarkerAgain
<1>2. active' = [active EXCEPT ![proc[r]] = r] \/ active' = active
  BY DEF CheckMarkerAgain
<1>3. active' \in [Procs -> Runs \cup {NoRun}]
  BY <1>2
<1>4. lease' \in Runs \cup {NoRun}
  BY DEF CheckMarkerAgain
<1> QED
  BY <1>1, <1>3, <1>4

LEMMA TypeInvInductive == TypeInv /\ [RunsNext]_vars => TypeInv'
<1> SUFFICES ASSUME TypeInv, [RunsNext]_vars PROVE TypeInv'
  OBVIOUS
<1>0. SomeProc \in Procs
  BY RunsAssumption DEF SomeProc
<1> USE PhaseNames, MaxMsgAssumption, <1>0
    DEF TypeInv, RunsTypeOK, OffsetsOK, Forget, Moves,
        dbVars, runVars, wrapVars, counters, locals
<1>1. ASSUME NEW p \in Procs, NEW r \in Runs, StartAgent(p, r) PROVE TypeInv'
  BY <1>1 DEF StartAgent
<1>2. ASSUME NEW p \in Procs, TriggerBesideRun(p) PROVE TypeInv'
  BY <1>2 DEF TriggerBesideRun
<1>3. ASSUME NEW r \in Runs, TakeLease(r) PROVE TypeInv'
  BY <1>3 DEF TakeLease
<1>4. ASSUME NEW r \in Runs, CheckMarkerAgain(r) PROVE TypeInv'
  <2>0. \/ phase' = [phase EXCEPT ![r] = "starting"]
        \/ phase' = [phase EXCEPT ![r] = "declined"]
    BY <1>4 DEF CheckMarkerAgain
  <2>1. /\ phase' \in [Runs -> Phases]
        /\ active' \in [Procs -> Runs \cup {NoRun}] /\ lease' \in Runs \cup {NoRun}
    BY <1>4, SecondLookTypes
  <2>3. UNCHANGED <<comps, marker, inProgress, locals, wrapVars, counters>>
    BY <1>4 DEF CheckMarkerAgain
  <2>4. OffsetsOK'
    BY <2>0, <2>3
  <2> QED
    BY <2>1, <2>3, <2>4
<1>5. ASSUME NEW r \in Runs, ReleaseIntent(r) PROVE TypeInv'
  <2>1. /\ phase' = [phase EXCEPT ![r] = "unused"] /\ Forget(r) /\ inProgress' = FALSE
        /\ UNCHANGED <<comps, lease, marker, active, wrapVars, counters>>
    BY <1>5 DEF ReleaseIntent
  <2>2. RunsTypeOK'
    <3>1. phase' \in [Runs -> Phases] /\ proc' \in [Runs -> Procs]
      BY <2>1
    <3>2. driver' \in [Runs -> Wrapups \cup {NoWrapup}] /\ seen' \in [Runs -> Wrapups \cup {NoWrapup}]
      BY <2>1
    <3>3. offset' \in [Runs -> Nat] /\ base' \in [Runs -> Nat]
      BY <2>1
    <3>4. out' \in [Runs -> Seq(Compartments)]
      BY <2>1
    <3> QED
      BY <2>1, <3>1, <3>2, <3>3, <3>4
  <2>3. OffsetsOK'
    BY <2>1
  <2> QED
    BY <2>2, <2>3
<1>6. ASSUME NEW r \in Runs, StartThrows(r) PROVE TypeInv'
  BY <1>6 DEF StartThrows
<1>7. ASSUME NEW r \in Runs, BoundaryGone(r) PROVE TypeInv'
  BY <1>7 DEF BoundaryGone
<1>8. ASSUME NEW r \in Runs, ReadHistory(r) PROVE TypeInv'
  <2>1. EndOf(comps) \in 0..MaxMsg
    BY EndOfType
  <2> QED
    BY <1>8, <2>1, SMTT(30) DEF ReadHistory
<1>9. ASSUME NEW r \in Runs, NothingToDo(r) PROVE TypeInv'
  BY <1>9 DEF NothingToDo
<1>10. ASSUME NEW r \in Runs, AppendNoise(r) PROVE TypeInv'
  <2>0. PICK e \in offset[r]..MaxMsg :
               comps' = IF EndOf(comps) + 1 = offset[r]
                        THEN Append(comps, [start |-> offset[r], end |-> e])
                        ELSE comps
    BY <1>10 DEF AppendNoise
  <2>1. comps' \in Seq(Compartments)
    <3>1. offset[r] \in 1..MaxMsg + 1
      BY <1>10 DEF AppendNoise
    <3>2. offset[r] \in 1..MaxMsg /\ e \in 1..MaxMsg
      BY <3>1
    <3>3. [start |-> offset[r], end |-> e] \in Compartments
      BY <3>2 DEF Compartments
    <3> QED
      BY <2>0, <3>3
  <2> QED
    BY <1>10, <2>1 DEF AppendNoise
<1>11. ASSUME NEW r \in Runs, AskModel(r) PROVE TypeInv'
  BY <1>11 DEF AskModel
<1>12. ASSUME NEW r \in Runs, ModelAnswers(r) PROVE TypeInv'
  <2>1. offset[r] \in 1..MaxMsg + 1
    BY <1>12 DEF ModelAnswers
  <2>2. PICK s \in Extensions(offset[r]) : out' = [out EXCEPT ![r] = s]
    BY <1>12 DEF ModelAnswers
  <2>3. s \in Seq(Compartments)
    BY <2>1, <2>2, ExtensionFacts
  <2> QED
    BY <1>12, <2>2, <2>3 DEF ModelAnswers
<1>13. ASSUME NEW r \in Runs, Discard(r) PROVE TypeInv'
  BY <1>13 DEF Discard
<1>14. ASSUME NEW r \in Runs, Publish(r) PROVE TypeInv'
  <2>1. comps' \in Seq(Compartments)
    <3>1. comps' = comps \/ comps' = comps \o out[r]
      BY <1>14 DEF Publish
    <3>2. comps \in Seq(Compartments) /\ out[r] \in Seq(Compartments)
      OBVIOUS
    <3>3. comps \o out[r] \in Seq(Compartments)
      BY <3>2, ConcatSplits
    <3> QED
      BY <3>1, <3>2, <3>3
  <2> QED
    BY <1>14, <2>1 DEF Publish
<1>15. ASSUME NEW r \in Runs, Settle(r) PROVE TypeInv'
  BY <1>15 DEF Settle
<1>16. ASSUME NEW r \in Runs, Close(r) PROVE TypeInv'
  BY <1>16, SMTT(30) DEF Close
<1>17. ASSUME NEW w \in Wrapups, NEW p \in Procs, StartWrapup(w, p) PROVE TypeInv'
  BY <1>17 DEF StartWrapup
<1>18. ASSUME NEW w \in Wrapups, Join(w) PROVE TypeInv'
  BY <1>18 DEF Join
<1>19. ASSUME NEW w \in Wrapups, NextIteration(w) PROVE TypeInv'
  <2>1. EndOf(comps) \in 0..MaxMsg
    BY EndOfType
  <2>2. wphase' \in [Wrapups -> WrapPhases]
    BY <1>19 DEF NextIteration
  <2>3. before' \in [Wrapups -> Nat]
    <3>1. before' = before \/ before' = [before EXCEPT ![w] = EndOf(comps)]
      BY <1>19 DEF NextIteration
    <3>2. EndOf(comps) \in Nat
      BY <2>1
    <3> QED
      BY <3>1, <3>2
  <2>4. UNCHANGED <<dbVars, runVars, wproc, counters>>
    BY <1>19 DEF NextIteration
  <2> QED
    BY <2>2, <2>3, <2>4
<1>20. ASSUME NEW w \in Wrapups, NEW r \in Runs, WrapupTakesLease(w, r) PROVE TypeInv'
  BY <1>20 DEF WrapupTakesLease
<1>21. ASSUME NEW w \in Wrapups, WrapupGivesUp(w) PROVE TypeInv'
  BY <1>21 DEF WrapupGivesUp
<1>22. ASSUME NEW w \in Wrapups, IterationDone(w) PROVE TypeInv'
  BY <1>22 DEF IterationDone
<1>23. ASSUME NEW w \in Wrapups, EndWrapup(w) PROVE TypeInv'
  BY <1>23 DEF EndWrapup
<1>24. ASSUME NEW r \in Runs, LeaseLapses(r) PROVE TypeInv'
  <2>1. lapses' \in Nat /\ lease' \in Runs \cup {NoRun}
    BY <1>24 DEF LeaseLapses
  <2>2. phase' = phase \/ phase' = [phase EXCEPT ![r] = "unused"]
    BY <1>24 DEF LeaseLapses
  <2>3. UNCHANGED <<comps, marker, inProgress, active, locals, wrapVars, faults, rebuilds, skipped>>
    BY <1>24 DEF LeaseLapses
  <2>4. RunsTypeOK'
    <3>1. phase' \in [Runs -> Phases]
      BY <2>2
    <3> QED
      BY <2>1, <3>1, <2>3
  <2>5. OffsetsOK'
    BY <2>2, <2>3
  <2> QED
    BY <2>4, <2>5
<1>25. ASSUME NEW w \in Wrapups, MarkerLapses(w) PROVE TypeInv'
  BY <1>25 DEF MarkerLapses
<1>26. ASSUME NEW p \in Procs, Crash(p) PROVE TypeInv'
  BY <1>26 DEF Crash
<1>27. CASE RecompReplaces
  <2>1. comps' \in Seq(Compartments)
    BY <1>27, HistoryFacts DEF RecompReplaces
  <2>2. rebuilds' \in Nat
    <3>1. rebuilds \in Nat /\ rebuilds' = rebuilds + 1
      BY <1>27 DEF RecompReplaces
    <3> QED
      BY <3>1
  <2>3. inProgress' = FALSE /\ UNCHANGED <<lease, marker, runVars, wrapVars, lapses, faults, skipped>>
    BY <1>27 DEF RecompReplaces
  <2> QED
    BY <2>1, <2>2, <2>3
<1>28. CASE UNCHANGED vars
  BY <1>28 DEF vars
<1>29. ASSUME NEW r \in Runs, SkipHome(r) PROVE TypeInv'
  BY <1>29 DEF SkipHome
<1> QED
  BY <1>1, <1>2, <1>3, <1>4, <1>5, <1>6, <1>7, <1>8, <1>9, <1>10, <1>11, <1>12, <1>13,
     <1>14, <1>15, <1>16, <1>17, <1>18, <1>19, <1>20, <1>21, <1>22, <1>23, <1>24,
     <1>25, <1>26, <1>27, <1>28, <1>29
  DEF RunsNext, RunStep, WrapupStep

LEMMA TypeInvHolds == RunsSpec => []TypeInv
<1>1. SomeProc \in Procs
  BY RunsAssumption DEF SomeProc
<1>2. RunsInit => TypeInv
  <2> SUFFICES ASSUME RunsInit PROVE TypeInv
    OBVIOUS
  <2> USE <1>1, PhaseNames DEF RunsInit
  <2>1. comps \in Seq(Compartments) /\ out \in [Runs -> Seq(Compartments)]
    OBVIOUS
  <2>2. RunsTypeOK
    BY <2>1 DEF RunsTypeOK
  <2>3. OffsetsOK
    BY DEF OffsetsOK
  <2> QED
    BY <2>2, <2>3 DEF TypeInv
<1> QED
  BY <1>2, TypeInvInductive, PTL DEF RunsSpec

\* Type correctness of the shared rows and of every run's locals.
THEOREM RunsTypeCorrect == RunsSpec => []RunsTypeOK
<1>1. TypeInv => RunsTypeOK
  BY DEF TypeInv
<1> QED
  BY <1>1, TypeInvHolds, PTL

-----------------------------------------------------------------------------
(* Contiguity.  A run computed its first message and its first sequence     *)
(* number from rows it read long ago.  While it still holds the lease, the  *)
(* history can only have grown under it (by filtered noise); and if it has  *)
(* not grown, what the run read is still true.                              *)

ChunksAreContiguous ==
  \A r \in Runs : phase[r] = "ready" =>
    Len(out[r]) > 0 /\ ContiguousFrom(out[r], offset[r])

HolderKnowsTheEnd ==
  \A r \in Runs : (lease = r /\ phase[r] \in {"planned", "model", "ready"}) =>
    /\ Len(comps) >= base[r]
    /\ Len(comps) = base[r] => offset[r] = EndOf(comps) + 1

HistoryInv == HistoryIsContiguous /\ ChunksAreContiguous /\ HolderKnowsTheEnd

\* What a publication and a noise row do to a contiguous history.
LEMMA NoiseExtends ==
  ASSUME TypeInv, HistoryIsContiguous, NEW r \in Runs, phase[r] = "planned",
         EndOf(comps) + 1 = offset[r], NEW e \in offset[r]..MaxMsg,
         NEW t, t = <<[start |-> offset[r], end |-> e]>>
  PROVE  /\ Append(comps, [start |-> offset[r], end |-> e]) = comps \o t
         /\ t \in Seq(Compartments) /\ Len(t) = 1
         /\ ContiguousFrom(t, EndOf(comps) + 1)
         /\ ContiguousFrom(comps \o t, 1)
<1>1. offset[r] \in 1..MaxMsg /\ comps \in Seq(Compartments)
  BY MaxMsgAssumption DEF TypeInv, OffsetsOK, RunsTypeOK
<1>2. t \in Seq(Compartments) /\ ContiguousFrom(t, EndOf(comps) + 1) /\ Len(t) = 1
  BY <1>1, SingletonFacts
<1>3. (IF comps = <<>> THEN 1 ELSE EndOf(comps) + 1) = EndOf(comps) + 1
  BY DEF EndOf
<1>4. ContiguousFrom(comps \o t, 1)
  BY <1>1, <1>2, <1>3, ContiguousConcat DEF HistoryIsContiguous
<1>5. Append(comps, [start |-> offset[r], end |-> e]) = comps \o t
  BY <1>1
<1> QED
  BY <1>2, <1>4, <1>5

LEMMA PublicationExtends ==
  ASSUME TypeInv, HistoryInv, NEW r \in Runs, phase[r] = "ready", lease = r,
         Len(comps) <= base[r]
  PROVE  /\ out[r] \in Seq(Compartments) /\ Len(out[r]) > 0
         /\ ContiguousFrom(out[r], EndOf(comps) + 1)
         /\ ContiguousFrom(comps \o out[r], 1)
<1>1. comps \in Seq(Compartments) /\ out[r] \in Seq(Compartments) /\ base[r] \in Nat
  BY DEF TypeInv, RunsTypeOK
<1>2. Len(comps) = base[r] /\ offset[r] = EndOf(comps) + 1
  BY <1>1 DEF HistoryInv, HolderKnowsTheEnd
<1>3. Len(out[r]) > 0 /\ ContiguousFrom(out[r], EndOf(comps) + 1)
  BY <1>2 DEF HistoryInv, ChunksAreContiguous
<1>4. (IF comps = <<>> THEN 1 ELSE EndOf(comps) + 1) = EndOf(comps) + 1
  BY DEF EndOf
<1>5. ContiguousFrom(comps \o out[r], 1)
  BY <1>1, <1>3, <1>4, ContiguousConcat DEF HistoryInv, HistoryIsContiguous
<1> QED
  BY <1>1, <1>3, <1>5

LEMMA HistoryInvInductive == TypeInv /\ HistoryInv /\ [RunsNext]_vars => HistoryInv'
<1> SUFFICES ASSUME TypeInv, HistoryInv, [RunsNext]_vars PROVE HistoryInv'
  OBVIOUS
<1>0. /\ comps \in Seq(Compartments) /\ Len(comps) \in Nat
      /\ phase \in [Runs -> Phases] /\ offset \in [Runs -> Nat]
      /\ base \in [Runs -> Nat] /\ out \in [Runs -> Seq(Compartments)]
      /\ proc \in [Runs -> Procs] /\ NoRun \notin Runs
  BY RunsAssumption DEF TypeInv, RunsTypeOK
<1> USE <1>0 DEF HistoryInv, HistoryIsContiguous, ChunksAreContiguous, HolderKnowsTheEnd,
        Forget, Moves, dbVars, runVars, wrapVars, counters, locals
<1>1. ASSUME NEW p \in Procs, NEW r \in Runs, StartAgent(p, r) PROVE HistoryInv'
  BY <1>1 DEF StartAgent
<1>2. ASSUME NEW p \in Procs, TriggerBesideRun(p) PROVE HistoryInv'
  BY <1>2 DEF TriggerBesideRun
<1>3. ASSUME NEW r \in Runs, TakeLease(r) PROVE HistoryInv'
  BY <1>3 DEF TakeLease
<1>4. ASSUME NEW r \in Runs, CheckMarkerAgain(r) PROVE HistoryInv'
  BY <1>4 DEF CheckMarkerAgain
<1>5. ASSUME NEW r \in Runs, ReleaseIntent(r) PROVE HistoryInv'
  BY <1>5 DEF ReleaseIntent
<1>6. ASSUME NEW r \in Runs, StartThrows(r) PROVE HistoryInv'
  BY <1>6 DEF StartThrows
<1>7. ASSUME NEW r \in Runs, BoundaryGone(r) PROVE HistoryInv'
  BY <1>7 DEF BoundaryGone
<1>8. ASSUME NEW r \in Runs, ReadHistory(r) PROVE HistoryInv'
  <2>1. EndOf(comps) \in Nat
    BY EndOfType, MaxMsgAssumption
  <2> QED
    BY <1>8, <2>1 DEF ReadHistory
<1>9. ASSUME NEW r \in Runs, NothingToDo(r) PROVE HistoryInv'
  BY <1>9 DEF NothingToDo
<1>10. ASSUME NEW r \in Runs, AppendNoise(r) PROVE HistoryInv'
  <2>1. PICK e \in offset[r]..MaxMsg :
               comps' = IF EndOf(comps) + 1 = offset[r]
                        THEN Append(comps, [start |-> offset[r], end |-> e])
                        ELSE comps
    BY <1>10 DEF AppendNoise
  <2>2. /\ phase[r] = "planned" /\ phase' = [phase EXCEPT ![r] = "settling"]
        /\ UNCHANGED <<lease, offset, base, out>>
    BY <1>10 DEF AppendNoise
  <2>3. CASE EndOf(comps) + 1 # offset[r]
    BY <2>1, <2>2, <2>3
  <2>4. CASE EndOf(comps) + 1 = offset[r]
    <3> DEFINE t == <<[start |-> offset[r], end |-> e]>>
    <3>0. /\ Append(comps, [start |-> offset[r], end |-> e]) = comps \o t
          /\ t \in Seq(Compartments) /\ Len(t) = 1
          /\ ContiguousFrom(comps \o t, 1)
      BY <2>2, <2>4, NoiseExtends
    <3>1. comps' = comps \o t /\ ContiguousFrom(comps', 1)
      BY <2>1, <2>4, <3>0
    <3>2. Len(comps') = Len(comps) + 1
      BY <3>0, <3>1, ConcatSplits
    <3> QED
      BY <2>2, <3>1, <3>2
  <2> QED
    BY <2>3, <2>4
<1>11. ASSUME NEW r \in Runs, AskModel(r) PROVE HistoryInv'
  BY <1>11 DEF AskModel
<1>12. ASSUME NEW r \in Runs, ModelAnswers(r) PROVE HistoryInv'
  <2>1. PICK s \in Extensions(offset[r]) : out' = [out EXCEPT ![r] = s]
    BY <1>12 DEF ModelAnswers
  <2>2. offset[r] \in 1..MaxMsg + 1
    BY <1>12, MaxMsgAssumption DEF ModelAnswers, TypeInv, OffsetsOK
  <2>3. Len(s) > 0 /\ ContiguousFrom(s, offset[r])
    BY <2>1, <2>2, ExtensionFacts
  <2> QED
    BY <1>12, <2>1, <2>3 DEF ModelAnswers
<1>13. ASSUME NEW r \in Runs, Discard(r) PROVE HistoryInv'
  BY <1>13 DEF Discard
<1>14. ASSUME NEW r \in Runs, Publish(r) PROVE HistoryInv'
  <2>1. /\ phase[r] = "ready" /\ UNCHANGED <<lease, offset, base, out>>
        /\ \/ phase' = [phase EXCEPT ![r] = "published"]
           \/ phase' = [phase EXCEPT ![r] = "settling"]
    BY <1>14 DEF Publish
  <2>2. CASE lease = r /\ Len(comps) <= base[r]
    <3>0. comps' = comps \o out[r]
      BY <1>14, <2>2 DEF Publish
    <3>1. ContiguousFrom(comps', 1)
      BY <2>1, <2>2, <3>0, PublicationExtends
    <3>2. \A q \in Runs : ~(lease' = q /\ phase'[q] \in {"planned", "model", "ready"})
      BY <2>1, <2>2
    <3>3. ChunksAreContiguous'
      BY <2>1
    <3> QED
      BY <3>1, <3>2, <3>3
  <2>3. CASE ~(lease = r /\ Len(comps) <= base[r])
    <3>1. comps' = comps
      BY <1>14, <2>3 DEF Publish
    <3> QED
      BY <2>1, <3>1
  <2> QED
    BY <2>2, <2>3
<1>15. ASSUME NEW r \in Runs, Settle(r) PROVE HistoryInv'
  BY <1>15 DEF Settle
<1>16. ASSUME NEW r \in Runs, Close(r) PROVE HistoryInv'
  BY <1>16 DEF Close
<1>17. ASSUME NEW w \in Wrapups, NEW p \in Procs, StartWrapup(w, p) PROVE HistoryInv'
  BY <1>17 DEF StartWrapup
<1>18. ASSUME NEW w \in Wrapups, Join(w) PROVE HistoryInv'
  BY <1>18 DEF Join
<1>19. ASSUME NEW w \in Wrapups, NextIteration(w) PROVE HistoryInv'
  BY <1>19 DEF NextIteration
<1>20. ASSUME NEW w \in Wrapups, NEW r \in Runs, WrapupTakesLease(w, r) PROVE HistoryInv'
  BY <1>20 DEF WrapupTakesLease
<1>21. ASSUME NEW w \in Wrapups, WrapupGivesUp(w) PROVE HistoryInv'
  BY <1>21 DEF WrapupGivesUp
<1>22. ASSUME NEW w \in Wrapups, IterationDone(w) PROVE HistoryInv'
  BY <1>22 DEF IterationDone
<1>23. ASSUME NEW w \in Wrapups, EndWrapup(w) PROVE HistoryInv'
  BY <1>23 DEF EndWrapup
<1>24. ASSUME NEW r \in Runs, LeaseLapses(r) PROVE HistoryInv'
  BY <1>24 DEF LeaseLapses
<1>25. ASSUME NEW w \in Wrapups, MarkerLapses(w) PROVE HistoryInv'
  BY <1>25 DEF MarkerLapses
<1>26. ASSUME NEW p \in Procs, Crash(p) PROVE HistoryInv'
  BY <1>26 DEF Crash
<1>27. CASE RecompReplaces
  <2>1. ContiguousFrom(comps', 1)
    BY <1>27, HistoryFacts DEF RecompReplaces
  <2> QED
    BY <1>27, <2>1 DEF RecompReplaces
<1>28. CASE UNCHANGED vars
  BY <1>28 DEF vars
<1>29. ASSUME NEW r \in Runs, SkipHome(r) PROVE HistoryInv'
  BY <1>29 DEF SkipHome
<1> QED
  BY <1>1, <1>2, <1>3, <1>4, <1>5, <1>6, <1>7, <1>8, <1>9, <1>10, <1>11, <1>12, <1>13,
     <1>14, <1>15, <1>16, <1>17, <1>18, <1>19, <1>20, <1>21, <1>22, <1>23, <1>24, <1>25, <1>26, <1>27, <1>28, <1>29
  DEF RunsNext, RunStep, WrapupStep

LEMMA HistoryInvHolds == RunsSpec => []HistoryInv
<1>1. RunsInit => HistoryInv
  <2> SUFFICES ASSUME RunsInit PROVE HistoryInv
    OBVIOUS
  <2>1. comps = <<>> /\ ContiguousFrom(comps, 1)
    BY DEF RunsInit, ContiguousFrom
  <2>2. \A r \in Runs : phase[r] = "unused"
    BY DEF RunsInit
  <2> QED
    BY <2>1, <2>2 DEF HistoryInv, HistoryIsContiguous, ChunksAreContiguous, HolderKnowsTheEnd
<1> QED
  BY <1>1, HistoryInvInductive, TypeInvHolds, PTL DEF RunsSpec

\* The stored history is contiguous in every state, for any number of
\* processes, runs, lost leases, crashes and recomps: what the publish
\* transaction of runCompartmentAgent tests is enough.
THEOREM HistoryStaysContiguous == RunsSpec => []HistoryIsContiguous
<1>1. HistoryInv => HistoryIsContiguous
  BY DEF HistoryInv
<1> QED
  BY <1>1, HistoryInvHolds, PTL

-----------------------------------------------------------------------------
(* The runs implement the abstract history log: only AppendNoise, Publish   *)
(* and RecompReplaces touch the history.                                    *)

LEMMA LogOperators ==
  /\ Log!Compartments = Compartments
  /\ \A h : Log!EndOf(h) = EndOf(h)
  /\ \A h, n : Log!ContiguousFrom(h, n) <=> ContiguousFrom(h, n)
BY DEF Log!Compartments, Compartments, Log!EndOf, EndOf, Log!ContiguousFrom, ContiguousFrom

LEMMA ConcatIsExtend ==
  ASSUME comps \in Seq(Compartments), NEW t \in Seq(Compartments), Len(t) > 0,
         ContiguousFrom(t, EndOf(comps) + 1), comps' = comps \o t, rebuilds' = rebuilds
  PROVE  Log!Extend
<1>1. /\ comps' \in Seq(Compartments) /\ Len(comps') = Len(comps) + Len(t)
      /\ SubSeq(comps', 1, Len(comps)) = comps
      /\ SubSeq(comps', Len(comps) + 1, Len(comps')) = t
  BY ConcatSplits
<1>2. Len(comps) \in Nat /\ Len(t) \in Nat
  OBVIOUS
<1>3. Len(comps') > Len(comps)
  BY <1>1, <1>2
<1>4. Log!ContiguousFrom(t, Log!EndOf(comps) + 1)
  BY LogOperators
<1>5. Log!ContiguousFrom(SubSeq(comps', Len(comps) + 1, Len(comps')), Log!EndOf(comps) + 1)
  BY <1>1, <1>4
<1>6. comps' \in Seq(Log!Compartments)
  BY <1>1, LogOperators
<1> QED
  BY <1>1, <1>3, <1>5, <1>6 DEF Log!Extend

LEMMA LogStep == TypeInv /\ HistoryInv /\ [RunsNext]_vars => [Log!LogNext]_<<comps, rebuilds>>
<1> SUFFICES ASSUME TypeInv, HistoryInv, [RunsNext]_vars
             PROVE  [Log!LogNext]_<<comps, rebuilds>>
  OBVIOUS
<1>0. comps \in Seq(Compartments)
  BY DEF TypeInv, RunsTypeOK
<1> USE DEF Forget, Moves, dbVars, runVars, wrapVars, counters, locals
<1>1. ASSUME NEW p \in Procs, NEW r \in Runs, StartAgent(p, r) PROVE [Log!LogNext]_<<comps, rebuilds>>
  BY <1>1 DEF StartAgent
<1>2. ASSUME NEW p \in Procs, TriggerBesideRun(p) PROVE [Log!LogNext]_<<comps, rebuilds>>
  BY <1>2 DEF TriggerBesideRun
<1>3. ASSUME NEW r \in Runs, TakeLease(r) PROVE [Log!LogNext]_<<comps, rebuilds>>
  BY <1>3 DEF TakeLease
<1>4. ASSUME NEW r \in Runs, CheckMarkerAgain(r) PROVE [Log!LogNext]_<<comps, rebuilds>>
  BY <1>4 DEF CheckMarkerAgain
<1>5. ASSUME NEW r \in Runs, ReleaseIntent(r) PROVE [Log!LogNext]_<<comps, rebuilds>>
  BY <1>5 DEF ReleaseIntent
<1>6. ASSUME NEW r \in Runs, StartThrows(r) PROVE [Log!LogNext]_<<comps, rebuilds>>
  BY <1>6 DEF StartThrows
<1>7. ASSUME NEW r \in Runs, BoundaryGone(r) PROVE [Log!LogNext]_<<comps, rebuilds>>
  BY <1>7 DEF BoundaryGone
<1>8. ASSUME NEW r \in Runs, ReadHistory(r) PROVE [Log!LogNext]_<<comps, rebuilds>>
  BY <1>8 DEF ReadHistory
<1>9. ASSUME NEW r \in Runs, NothingToDo(r) PROVE [Log!LogNext]_<<comps, rebuilds>>
  BY <1>9 DEF NothingToDo
<1>10. ASSUME NEW r \in Runs, AppendNoise(r) PROVE [Log!LogNext]_<<comps, rebuilds>>
  <2>1. PICK e \in offset[r]..MaxMsg :
               comps' = IF EndOf(comps) + 1 = offset[r]
                        THEN Append(comps, [start |-> offset[r], end |-> e])
                        ELSE comps
    BY <1>10 DEF AppendNoise
  <2>2. phase[r] = "planned" /\ rebuilds' = rebuilds
    BY <1>10 DEF AppendNoise
  <2>3. CASE EndOf(comps) + 1 # offset[r]
    BY <2>1, <2>2, <2>3
  <2>4. CASE EndOf(comps) + 1 = offset[r]
    <3> DEFINE t == <<[start |-> offset[r], end |-> e]>>
    <3>1. /\ Append(comps, [start |-> offset[r], end |-> e]) = comps \o t
          /\ t \in Seq(Compartments) /\ Len(t) = 1
          /\ ContiguousFrom(t, EndOf(comps) + 1)
      BY <2>2, <2>4, NoiseExtends DEF HistoryInv
    <3>2. comps' = comps \o t
      BY <2>1, <2>4, <3>1
    <3> HIDE DEF t
    <3> QED
      BY <1>0, <2>2, <3>1, <3>2, ConcatIsExtend, SMTT(30) DEF Log!LogNext
  <2> QED
    BY <2>3, <2>4
<1>11. ASSUME NEW r \in Runs, AskModel(r) PROVE [Log!LogNext]_<<comps, rebuilds>>
  BY <1>11 DEF AskModel
<1>12. ASSUME NEW r \in Runs, ModelAnswers(r) PROVE [Log!LogNext]_<<comps, rebuilds>>
  BY <1>12 DEF ModelAnswers
<1>13. ASSUME NEW r \in Runs, Discard(r) PROVE [Log!LogNext]_<<comps, rebuilds>>
  BY <1>13 DEF Discard
<1>14. ASSUME NEW r \in Runs, Publish(r) PROVE [Log!LogNext]_<<comps, rebuilds>>
  <2>1. phase[r] = "ready" /\ rebuilds' = rebuilds
    BY <1>14 DEF Publish
  <2>2. CASE lease = r /\ Len(comps) <= base[r]
    <3>1. comps' = comps \o out[r]
      BY <1>14, <2>2 DEF Publish
    <3>2. /\ out[r] \in Seq(Compartments) /\ Len(out[r]) > 0
          /\ ContiguousFrom(out[r], EndOf(comps) + 1)
      BY <2>1, <2>2, PublicationExtends
    <3> QED
      BY <1>0, <2>1, <3>1, <3>2, ConcatIsExtend DEF Log!LogNext
  <2>3. CASE ~(lease = r /\ Len(comps) <= base[r])
    BY <1>14, <2>1, <2>3 DEF Publish
  <2> QED
    BY <2>2, <2>3
<1>15. ASSUME NEW r \in Runs, Settle(r) PROVE [Log!LogNext]_<<comps, rebuilds>>
  BY <1>15 DEF Settle
<1>16. ASSUME NEW r \in Runs, Close(r) PROVE [Log!LogNext]_<<comps, rebuilds>>
  BY <1>16 DEF Close
<1>17. ASSUME NEW w \in Wrapups, NEW p \in Procs, StartWrapup(w, p) PROVE [Log!LogNext]_<<comps, rebuilds>>
  BY <1>17 DEF StartWrapup
<1>18. ASSUME NEW w \in Wrapups, Join(w) PROVE [Log!LogNext]_<<comps, rebuilds>>
  BY <1>18 DEF Join
<1>19. ASSUME NEW w \in Wrapups, NextIteration(w) PROVE [Log!LogNext]_<<comps, rebuilds>>
  BY <1>19 DEF NextIteration
<1>20. ASSUME NEW w \in Wrapups, NEW r \in Runs, WrapupTakesLease(w, r) PROVE [Log!LogNext]_<<comps, rebuilds>>
  BY <1>20 DEF WrapupTakesLease
<1>21. ASSUME NEW w \in Wrapups, WrapupGivesUp(w) PROVE [Log!LogNext]_<<comps, rebuilds>>
  BY <1>21 DEF WrapupGivesUp
<1>22. ASSUME NEW w \in Wrapups, IterationDone(w) PROVE [Log!LogNext]_<<comps, rebuilds>>
  BY <1>22 DEF IterationDone
<1>23. ASSUME NEW w \in Wrapups, EndWrapup(w) PROVE [Log!LogNext]_<<comps, rebuilds>>
  BY <1>23 DEF EndWrapup
<1>24. ASSUME NEW r \in Runs, LeaseLapses(r) PROVE [Log!LogNext]_<<comps, rebuilds>>
  BY <1>24 DEF LeaseLapses
<1>25. ASSUME NEW w \in Wrapups, MarkerLapses(w) PROVE [Log!LogNext]_<<comps, rebuilds>>
  BY <1>25 DEF MarkerLapses
<1>26. ASSUME NEW p \in Procs, Crash(p) PROVE [Log!LogNext]_<<comps, rebuilds>>
  BY <1>26 DEF Crash
<1>27. CASE RecompReplaces
  <2>1. comps' \in Seq(Compartments) /\ ContiguousFrom(comps', 1) /\ rebuilds' = rebuilds + 1
    BY <1>27, HistoryFacts DEF RecompReplaces
  <2> QED
    BY <2>1, LogOperators DEF Log!LogNext, Log!Rebuild
<1>28. CASE UNCHANGED vars
  BY <1>28 DEF vars
<1>29. ASSUME NEW r \in Runs, SkipHome(r) PROVE [Log!LogNext]_<<comps, rebuilds>>
  BY <1>29 DEF SkipHome
<1> QED
  BY <1>1, <1>2, <1>3, <1>4, <1>5, <1>6, <1>7, <1>8, <1>9, <1>10, <1>11, <1>12, <1>13,
     <1>14, <1>15, <1>16, <1>17, <1>18, <1>19, <1>20, <1>21, <1>22, <1>23, <1>24, <1>25, <1>26, <1>27, <1>28, <1>29
  DEF RunsNext, RunStep, WrapupStep

\* The historian runs implement the history log: every step extends the history
\* at its end by a contiguous piece, rebuilds it, or leaves it alone.
THEOREM RunsImplementLog == RunsSpec => LogProperty
<1>1. RunsInit => Log!LogInit
  BY DEF RunsInit, Log!LogInit
<1> QED
  BY <1>1, LogStep, TypeInvHolds, HistoryInvHolds, PTL DEF RunsSpec, LogProperty, Log!LogSpec

-----------------------------------------------------------------------------
(* One run per process.  JavaScript runs one handler at a time, so two runs *)
(* of a process are never both between two awaits, and a run that is        *)
(* between its marker check and its registration finds no run registered.   *)

StartsAlone ==
  \A r \in Runs : phase[r] \in {"checked", "leased"} => active[proc[r]] = NoRun

OneHandlerPerProcess ==
  \A r, q \in Runs : (Synchronous(r) /\ Synchronous(q) /\ proc[r] = proc[q]) => r = q

RegistrationInv == OneRunPerProcess /\ StartsAlone /\ OneHandlerPerProcess

LEMMA RegistrationInvInductive ==
  TypeInv /\ RegistrationInv /\ [RunsNext]_vars => RegistrationInv'
<1> SUFFICES ASSUME TypeInv, RegistrationInv, [RunsNext]_vars PROVE RegistrationInv'
  OBVIOUS
<1>0. /\ phase \in [Runs -> Phases] /\ proc \in [Runs -> Procs]
      /\ active \in [Procs -> Runs \cup {NoRun}] /\ wproc \in [Wrapups -> Procs]
      /\ driver \in [Runs -> Wrapups \cup {NoWrapup}]
      /\ NoRun \notin Runs /\ NoWrapup \notin Wrapups
  BY RunsAssumption DEF TypeInv, RunsTypeOK
<1> USE <1>0 DEF RegistrationInv, OneRunPerProcess, StartsAlone, OneHandlerPerProcess,
        Registered, Synchronous, Free, Joinable, Forget, Moves, dbVars, runVars, wrapVars,
        counters, locals
<1>1. ASSUME NEW p \in Procs, NEW r \in Runs, StartAgent(p, r) PROVE RegistrationInv'
  BY <1>1 DEF StartAgent
<1>2. ASSUME NEW p \in Procs, TriggerBesideRun(p) PROVE RegistrationInv'
  BY <1>2 DEF TriggerBesideRun
<1>3. ASSUME NEW r \in Runs, TakeLease(r) PROVE RegistrationInv'
  BY <1>3 DEF TakeLease
<1>4. ASSUME NEW r \in Runs, CheckMarkerAgain(r) PROVE RegistrationInv'
  BY <1>4 DEF CheckMarkerAgain
<1>5. ASSUME NEW r \in Runs, ReleaseIntent(r) PROVE RegistrationInv'
  BY <1>5 DEF ReleaseIntent
<1>6. ASSUME NEW r \in Runs, StartThrows(r) PROVE RegistrationInv'
  BY <1>6 DEF StartThrows
<1>7. ASSUME NEW r \in Runs, BoundaryGone(r) PROVE RegistrationInv'
  BY <1>7 DEF BoundaryGone
<1>8. ASSUME NEW r \in Runs, ReadHistory(r) PROVE RegistrationInv'
  BY <1>8 DEF ReadHistory
<1>9. ASSUME NEW r \in Runs, NothingToDo(r) PROVE RegistrationInv'
  BY <1>9 DEF NothingToDo
<1>10. ASSUME NEW r \in Runs, AppendNoise(r) PROVE RegistrationInv'
  BY <1>10 DEF AppendNoise
<1>11. ASSUME NEW r \in Runs, AskModel(r) PROVE RegistrationInv'
  BY <1>11 DEF AskModel
<1>12. ASSUME NEW r \in Runs, ModelAnswers(r) PROVE RegistrationInv'
  BY <1>12 DEF ModelAnswers
<1>13. ASSUME NEW r \in Runs, Discard(r) PROVE RegistrationInv'
  BY <1>13 DEF Discard
<1>14. ASSUME NEW r \in Runs, Publish(r) PROVE RegistrationInv'
  BY <1>14 DEF Publish
<1>15. ASSUME NEW r \in Runs, Settle(r) PROVE RegistrationInv'
  BY <1>15 DEF Settle
<1>16. ASSUME NEW r \in Runs, Close(r) PROVE RegistrationInv'
  BY <1>16 DEF Close
<1>17. ASSUME NEW w \in Wrapups, NEW p \in Procs, StartWrapup(w, p) PROVE RegistrationInv'
  BY <1>17 DEF StartWrapup
<1>18. ASSUME NEW w \in Wrapups, Join(w) PROVE RegistrationInv'
  BY <1>18 DEF Join
<1>19. ASSUME NEW w \in Wrapups, NextIteration(w) PROVE RegistrationInv'
  BY <1>19 DEF NextIteration
<1>20. ASSUME NEW w \in Wrapups, NEW r \in Runs, WrapupTakesLease(w, r) PROVE RegistrationInv'
  BY <1>20 DEF WrapupTakesLease
<1>21. ASSUME NEW w \in Wrapups, WrapupGivesUp(w) PROVE RegistrationInv'
  BY <1>21 DEF WrapupGivesUp
<1>22. ASSUME NEW w \in Wrapups, IterationDone(w) PROVE RegistrationInv'
  BY <1>22 DEF IterationDone
<1>23. ASSUME NEW w \in Wrapups, EndWrapup(w) PROVE RegistrationInv'
  BY <1>23 DEF EndWrapup
<1>24. ASSUME NEW r \in Runs, LeaseLapses(r) PROVE RegistrationInv'
  BY <1>24 DEF LeaseLapses
<1>25. ASSUME NEW w \in Wrapups, MarkerLapses(w) PROVE RegistrationInv'
  BY <1>25 DEF MarkerLapses
<1>26. ASSUME NEW p \in Procs, Crash(p) PROVE RegistrationInv'
  BY <1>26 DEF Crash
<1>27. CASE RecompReplaces
  BY <1>27 DEF RecompReplaces
<1>28. CASE UNCHANGED vars
  BY <1>28 DEF vars
<1>29. ASSUME NEW r \in Runs, SkipHome(r) PROVE RegistrationInv'
  BY <1>29 DEF SkipHome
<1> QED
  BY <1>1, <1>2, <1>3, <1>4, <1>5, <1>6, <1>7, <1>8, <1>9, <1>10, <1>11, <1>12, <1>13,
     <1>14, <1>15, <1>16, <1>17, <1>18, <1>19, <1>20, <1>21, <1>22, <1>23, <1>24, <1>25, <1>26, <1>27, <1>28, <1>29
  DEF RunsNext, RunStep, WrapupStep

LEMMA RegistrationInvHolds == RunsSpec => []RegistrationInv
<1>1. RunsInit => RegistrationInv
  BY DEF RunsInit, RegistrationInv, OneRunPerProcess, StartsAlone, OneHandlerPerProcess,
         Registered, Synchronous
<1> QED
  BY <1>1, RegistrationInvInductive, TypeInvHolds, PTL DEF RunsSpec

\* In no process are two runs between start and finish, and activeRuns names
\* the one that is, for any number of processes and runs.
THEOREM OneRunAtATime == RunsSpec => []OneRunPerProcess
<1>1. RegistrationInv => OneRunPerProcess
  BY DEF RegistrationInv
<1> QED
  BY <1>1, RegistrationInvHolds, PTL

-----------------------------------------------------------------------------
(* The wrapup marker.  A wrapup takes its marker once, so a marker that a   *)
(* run met and that is gone never comes back.                               *)

MarkersAreStarted ==
  /\ marker # NoWrapup => wphase[marker] # "idle"
  /\ \A r \in Runs : seen[r] # NoWrapup => wphase[seen[r]] # "idle"

MarkerInv == WrapupIsNotOvertaken /\ MarkersAreStarted

LEMMA MarkerInvInductive == TypeInv /\ MarkerInv /\ [RunsNext]_vars => MarkerInv'
<1> SUFFICES ASSUME TypeInv, MarkerInv, [RunsNext]_vars PROVE MarkerInv'
  OBVIOUS
<1>0. /\ phase \in [Runs -> Phases] /\ driver \in [Runs -> Wrapups \cup {NoWrapup}]
      /\ seen \in [Runs -> Wrapups \cup {NoWrapup}] /\ marker \in Wrapups \cup {NoWrapup}
      /\ wphase \in [Wrapups -> WrapPhases] /\ NoWrapup \notin Wrapups
  BY RunsAssumption DEF TypeInv, RunsTypeOK
<1> USE <1>0 DEF MarkerInv, WrapupIsNotOvertaken, MarkersAreStarted, Registered,
        Forget, Moves, dbVars, runVars, wrapVars, counters, locals
<1>1. ASSUME NEW p \in Procs, NEW r \in Runs, StartAgent(p, r) PROVE MarkerInv'
  BY <1>1 DEF StartAgent
<1>2. ASSUME NEW p \in Procs, TriggerBesideRun(p) PROVE MarkerInv'
  BY <1>2 DEF TriggerBesideRun
<1>3. ASSUME NEW r \in Runs, TakeLease(r) PROVE MarkerInv'
  BY <1>3 DEF TakeLease
<1>4. ASSUME NEW r \in Runs, CheckMarkerAgain(r) PROVE MarkerInv'
  BY <1>4 DEF CheckMarkerAgain
<1>5. ASSUME NEW r \in Runs, ReleaseIntent(r) PROVE MarkerInv'
  BY <1>5 DEF ReleaseIntent
<1>6. ASSUME NEW r \in Runs, StartThrows(r) PROVE MarkerInv'
  BY <1>6 DEF StartThrows
<1>7. ASSUME NEW r \in Runs, BoundaryGone(r) PROVE MarkerInv'
  BY <1>7 DEF BoundaryGone
<1>8. ASSUME NEW r \in Runs, ReadHistory(r) PROVE MarkerInv'
  BY <1>8 DEF ReadHistory
<1>9. ASSUME NEW r \in Runs, NothingToDo(r) PROVE MarkerInv'
  BY <1>9 DEF NothingToDo
<1>10. ASSUME NEW r \in Runs, AppendNoise(r) PROVE MarkerInv'
  BY <1>10 DEF AppendNoise
<1>11. ASSUME NEW r \in Runs, AskModel(r) PROVE MarkerInv'
  BY <1>11 DEF AskModel
<1>12. ASSUME NEW r \in Runs, ModelAnswers(r) PROVE MarkerInv'
  BY <1>12 DEF ModelAnswers
<1>13. ASSUME NEW r \in Runs, Discard(r) PROVE MarkerInv'
  BY <1>13 DEF Discard
<1>14. ASSUME NEW r \in Runs, Publish(r) PROVE MarkerInv'
  BY <1>14 DEF Publish
<1>15. ASSUME NEW r \in Runs, Settle(r) PROVE MarkerInv'
  BY <1>15 DEF Settle
<1>16. ASSUME NEW r \in Runs, Close(r) PROVE MarkerInv'
  BY <1>16 DEF Close
<1>17. ASSUME NEW w \in Wrapups, NEW p \in Procs, StartWrapup(w, p) PROVE MarkerInv'
  BY <1>17 DEF StartWrapup
<1>18. ASSUME NEW w \in Wrapups, Join(w) PROVE MarkerInv'
  BY <1>18 DEF Join
<1>19. ASSUME NEW w \in Wrapups, NextIteration(w) PROVE MarkerInv'
  BY <1>19 DEF NextIteration
<1>20. ASSUME NEW w \in Wrapups, NEW r \in Runs, WrapupTakesLease(w, r) PROVE MarkerInv'
  BY <1>20 DEF WrapupTakesLease
<1>21. ASSUME NEW w \in Wrapups, WrapupGivesUp(w) PROVE MarkerInv'
  BY <1>21 DEF WrapupGivesUp
<1>22. ASSUME NEW w \in Wrapups, IterationDone(w) PROVE MarkerInv'
  BY <1>22 DEF IterationDone
<1>23. ASSUME NEW w \in Wrapups, EndWrapup(w) PROVE MarkerInv'
  BY <1>23 DEF EndWrapup
<1>24. ASSUME NEW r \in Runs, LeaseLapses(r) PROVE MarkerInv'
  BY <1>24 DEF LeaseLapses
<1>25. ASSUME NEW w \in Wrapups, MarkerLapses(w) PROVE MarkerInv'
  BY <1>25 DEF MarkerLapses
<1>26. ASSUME NEW p \in Procs, Crash(p) PROVE MarkerInv'
  BY <1>26 DEF Crash
<1>27. CASE RecompReplaces
  BY <1>27 DEF RecompReplaces
<1>28. CASE UNCHANGED vars
  BY <1>28 DEF vars
<1>29. ASSUME NEW r \in Runs, SkipHome(r) PROVE MarkerInv'
  BY <1>29 DEF SkipHome
<1> QED
  BY <1>1, <1>2, <1>3, <1>4, <1>5, <1>6, <1>7, <1>8, <1>9, <1>10, <1>11, <1>12, <1>13,
     <1>14, <1>15, <1>16, <1>17, <1>18, <1>19, <1>20, <1>21, <1>22, <1>23, <1>24, <1>25, <1>26, <1>27, <1>28, <1>29
  DEF RunsNext, RunStep, WrapupStep

\* A historian run that met a wrapup marker when it won the lease never runs on
\* under that marker: the second look at the marker closes the race.
THEOREM WrapupNotOvertaken == RunsSpec => []WrapupIsNotOvertaken
<1>1. RunsInit => MarkerInv
  BY DEF RunsInit, MarkerInv, WrapupIsNotOvertaken, MarkersAreStarted, Registered
<1>2. MarkerInv => WrapupIsNotOvertaken
  BY DEF MarkerInv
<1> QED
  BY <1>1, <1>2, MarkerInvInductive, TypeInvHolds, PTL DEF RunsSpec
-----------------------------------------------------------------------------
(* The start intent.  A set flag is cleared by the run that owns it; that a *)
(* trigger may set it again beside a run rests on activeRuns being true: it *)
(* names a run of this process that is still to pass its finalizer.         *)

RegistryIsTrue ==
  \A p \in Procs : active[p] # NoRun =>
    proc[active[p]] = p /\ phase[active[p]] \in Registered

IntentInv == StartIntentIsOwned /\ RegistryIsTrue

LEMMA IntentInvInductive == TypeInv /\ IntentInv /\ [RunsNext]_vars => IntentInv'
<1> SUFFICES ASSUME TypeInv, IntentInv, [RunsNext]_vars PROVE IntentInv'
  OBVIOUS
<1>0. /\ phase \in [Runs -> Phases] /\ proc \in [Runs -> Procs]
      /\ active \in [Procs -> Runs \cup {NoRun}] /\ wproc \in [Wrapups -> Procs]
      /\ inProgress \in BOOLEAN /\ skipped \in BOOLEAN /\ faults \in Nat /\ NoRun \notin Runs
  BY RunsAssumption DEF TypeInv, RunsTypeOK
<1> USE <1>0 DEF IntentInv, StartIntentIsOwned, RegistryIsTrue, Registered,
        Forget, Moves, dbVars, runVars, wrapVars, counters, locals
<1>1. ASSUME NEW p \in Procs, NEW r \in Runs, StartAgent(p, r) PROVE IntentInv'
  BY <1>1 DEF StartAgent
<1>2. ASSUME NEW p \in Procs, TriggerBesideRun(p) PROVE IntentInv'
  <2>1. active[p] \in Runs /\ proc[active[p]] = p /\ phase[active[p]] \in Registered
    BY <1>2 DEF TriggerBesideRun
  <2>2. phase[active[p]] # "closing"
    BY <1>2, <2>1 DEF TriggerBesideRun, Free, Synchronous
  <2> QED
    BY <1>2, <2>1, <2>2 DEF TriggerBesideRun
<1>3. ASSUME NEW r \in Runs, TakeLease(r) PROVE IntentInv'
  BY <1>3 DEF TakeLease
<1>4. ASSUME NEW r \in Runs, CheckMarkerAgain(r) PROVE IntentInv'
  BY <1>4 DEF CheckMarkerAgain
<1>5. ASSUME NEW r \in Runs, ReleaseIntent(r) PROVE IntentInv'
  BY <1>5 DEF ReleaseIntent
<1>6. ASSUME NEW r \in Runs, StartThrows(r) PROVE IntentInv'
  BY <1>6 DEF StartThrows
<1>7. ASSUME NEW r \in Runs, BoundaryGone(r) PROVE IntentInv'
  BY <1>7 DEF BoundaryGone
<1>8. ASSUME NEW r \in Runs, ReadHistory(r) PROVE IntentInv'
  BY <1>8 DEF ReadHistory
<1>9. ASSUME NEW r \in Runs, NothingToDo(r) PROVE IntentInv'
  BY <1>9 DEF NothingToDo
<1>10. ASSUME NEW r \in Runs, AppendNoise(r) PROVE IntentInv'
  BY <1>10 DEF AppendNoise
<1>11. ASSUME NEW r \in Runs, AskModel(r) PROVE IntentInv'
  BY <1>11 DEF AskModel
<1>12. ASSUME NEW r \in Runs, ModelAnswers(r) PROVE IntentInv'
  BY <1>12 DEF ModelAnswers
<1>13. ASSUME NEW r \in Runs, Discard(r) PROVE IntentInv'
  BY <1>13 DEF Discard
<1>14. ASSUME NEW r \in Runs, Publish(r) PROVE IntentInv'
  BY <1>14 DEF Publish
<1>15. ASSUME NEW r \in Runs, Settle(r) PROVE IntentInv'
  BY <1>15 DEF Settle
<1>16. ASSUME NEW r \in Runs, Close(r) PROVE IntentInv'
  BY <1>16 DEF Close
<1>17. ASSUME NEW w \in Wrapups, NEW p \in Procs, StartWrapup(w, p) PROVE IntentInv'
  BY <1>17 DEF StartWrapup
<1>18. ASSUME NEW w \in Wrapups, Join(w) PROVE IntentInv'
  BY <1>18 DEF Join
<1>19. ASSUME NEW w \in Wrapups, NextIteration(w) PROVE IntentInv'
  BY <1>19 DEF NextIteration
<1>20. ASSUME NEW w \in Wrapups, NEW r \in Runs, WrapupTakesLease(w, r) PROVE IntentInv'
  BY <1>20 DEF WrapupTakesLease
<1>21. ASSUME NEW w \in Wrapups, WrapupGivesUp(w) PROVE IntentInv'
  BY <1>21 DEF WrapupGivesUp
<1>22. ASSUME NEW w \in Wrapups, IterationDone(w) PROVE IntentInv'
  BY <1>22 DEF IterationDone
<1>23. ASSUME NEW w \in Wrapups, EndWrapup(w) PROVE IntentInv'
  BY <1>23 DEF EndWrapup
<1>24. ASSUME NEW r \in Runs, LeaseLapses(r) PROVE IntentInv'
  BY <1>24 DEF LeaseLapses
<1>25. ASSUME NEW w \in Wrapups, MarkerLapses(w) PROVE IntentInv'
  BY <1>25 DEF MarkerLapses
<1>26. ASSUME NEW p \in Procs, Crash(p) PROVE IntentInv'
  BY <1>26 DEF Crash
<1>27. CASE RecompReplaces
  BY <1>27 DEF RecompReplaces
<1>28. CASE UNCHANGED vars
  BY <1>28 DEF vars
<1>29. ASSUME NEW r \in Runs, SkipHome(r) PROVE IntentInv'
  BY <1>29 DEF SkipHome
<1> QED
  BY <1>1, <1>2, <1>3, <1>4, <1>5, <1>6, <1>7, <1>8, <1>9, <1>10, <1>11, <1>12, <1>13,
     <1>14, <1>15, <1>16, <1>17, <1>18, <1>19, <1>20, <1>21, <1>22, <1>23, <1>24, <1>25, <1>26, <1>27, <1>28, <1>29
  DEF RunsNext, RunStep, WrapupStep

\* A set flag has a run behind it that will clear it: no lost race for the lease
\* or the marker, and no trigger beside a run that ends, leaves an intent that
\* nobody owns.  A death, a refused write or a run skipped in a home project may.
THEOREM IntentIsOwned == RunsSpec => []StartIntentIsOwned
<1>1. RunsInit => IntentInv
  BY DEF RunsInit, IntentInv, StartIntentIsOwned, RegistryIsTrue
<1>2. IntentInv => StartIntentIsOwned
  BY DEF IntentInv
<1> QED
  BY <1>1, <1>2, IntentInvInductive, TypeInvHolds, PTL DEF RunsSpec
=============================================================================
