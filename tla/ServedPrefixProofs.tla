------------------------- MODULE ServedPrefixProofs -------------------------
(***************************************************************************)
(* Proofs about ServedPrefix for any number of processes and messages, any *)
(* set of user messages, and any bounds on faults, commands and passes.    *)
(***************************************************************************)
EXTENDS ServedPrefix, TLAPS

USE PrefixAssumption DEF Messages

-----------------------------------------------------------------------------
(* Types. *)

LEMMA StepNames ==
  /\ "idle" \in Steps /\ "prepared" \in Steps /\ "ready" \in Steps
  /\ "delivered" \in Steps /\ "cutting" \in Steps /\ "persisting" \in Steps
BY DEF Steps

\* A prepared cut lies within the session and leaves a window that starts at a
\* message.
LEMMA PrepareTyped ==
  ASSUME PrefixTypeOK, NEW p \in Processes, NEW busting \in BOOLEAN,
         NEW from \in Nat \ {0}, NEW last \in 0..MaxMessages
  PROVE  /\ Prepare(p, busting, from, last).from \in Nat \ {0}
         /\ Prepare(p, busting, from, last).cut \in Cuts
         /\ Prepare(p, busting, from, last).cache \in Cuts \cup {None}
BY DEF Prepare, PrefixTypeOK, Cuts, Pairs

\* What a pass stores is a pair and what it renders has one.
LEMMA InjectsTyped ==
  ASSUME PrefixTypeOK, NEW p \in Processes, pass[p] \in Passes,
         NEW priced \in BOOLEAN, NEW captured \in BOOLEAN,
         NEW r \in Injects(p, priced, captured)
  PROVE  /\ r.row \in Pairs \cup {None}
         /\ r.out \in Renders
<1>1. /\ row \in Pairs \cup {None} /\ top \in 0..MaxMessages /\ mutation \in Nat
      /\ pass[p].pair \in Pairs \cup {None}
  BY DEF PrefixTypeOK, Passes
<1>2. NewStamps \subseteq Stamps
  BY DEF NewStamps
<1>3. CASE r \in Folds(p)
  <2> DEFINE new(s) == [stamp |-> s, mut |-> mutation, upto |-> top]
  <2>1. PICK s \in Stamps :
          r = [row |-> new(s), out |-> [pair |-> new(s), bound |-> top, fresh |-> TRUE,
                                        changed |-> TRUE, contended |-> FALSE]]
    BY <1>2, <1>3 DEF Folds
  <2>2. new(s) \in Pairs
    BY <1>1 DEF Pairs
  <2> QED
    BY <1>1, <2>1, <2>2 DEF Renders
<1>4. CASE r \in Contentions(p, captured)
  <2> DEFINE bound == IF row = None \/ (pass[p].pair # None /\ ~captured)
                      THEN 0 ELSE row.upto
             unsaved == [stamp |-> Unsaved, mut |-> mutation, upto |-> top]
  <2>1. bound \in 0..MaxMessages /\ unsaved \in Pairs
    BY <1>1 DEF Pairs
  <2>2. /\ r.row = row
        /\ \/ pass[p].pair # None /\ r.out = Unfolded(p, pass[p].pair, bound, TRUE)
           \/ row # None /\ r.out = Unfolded(p, row, bound, TRUE)
           \/ r.out = Unfolded(p, unsaved, top, TRUE)
    <3> DEFINE render == IF pass[p].pair # None THEN Unfolded(p, pass[p].pair, bound, TRUE)
                         ELSE IF row # None THEN Unfolded(p, row, bound, TRUE)
                         ELSE Unfolded(p, unsaved, top, TRUE)
    <3>1. r = [row |-> row, out |-> render]
      BY <1>4 DEF Contentions
    <3>2. r.row = row /\ r.out = render
      <4> HIDE DEF render
      <4> QED BY <3>1
    <3> HIDE DEF bound, unsaved
    <3> QED
      BY <3>2
  <2> HIDE DEF bound, unsaved
  <2>3. ASSUME NEW pair \in Pairs, NEW n \in 0..MaxMessages
        PROVE  Unfolded(p, pair, n, TRUE) \in Renders
    BY DEF Unfolded, Renders
  <2> QED
    BY <1>1, <2>1, <2>2, <2>3
<1>5. CASE r \in Refreshes(p) /\ ~MustFold(p)
  <2> DEFINE new == IF row.stamp = pass[p].pair.stamp THEN [row EXCEPT !.upto = top]
                    ELSE row
  <2>1. row \in Pairs /\ r = [row |-> new, out |-> Unfolded(p, new, new.upto, FALSE)]
    BY <1>1, <1>5 DEF Refreshes
  <2>2. new \in Pairs /\ new.upto \in 0..MaxMessages
    BY <1>1, <2>1 DEF Pairs
  <2> HIDE DEF new
  <2> QED
    BY <2>1, <2>2 DEF Unfolded, Renders
<1>6. CASE r \in Replays(p) /\ ~MustFold(p)
  <2> DEFINE n == IF row = None THEN 0 ELSE row.upto
  <2>1. /\ r = [row |-> row, out |-> Unfolded(p, pass[p].pair, n, FALSE)]
        /\ pass[p].pair \in Pairs
    BY <1>1, <1>6 DEF Replays, MustFold
  <2>2. n \in 0..MaxMessages
    BY <1>1 DEF Pairs
  <2> HIDE DEF n
  <2> QED
    BY <1>1, <2>1, <2>2 DEF Unfolded, Renders
<1> QED
  BY <1>3, <1>4, <1>5, <1>6 DEF Injects

LEMMA TypeInit == PrefixInit => PrefixTypeOK
BY StepNames DEF PrefixInit, PrefixTypeOK

\* What happens beside the passes keeps the types.
LEMMA BackgroundTyped ==
  ASSUME PrefixTypeOK, NEW p \in Processes, Background(p)
  PROVE  PrefixTypeOK'
<1> USE DEF PrefixTypeOK, history, markers, signals, local, counters
<1>1. ASSUME NEW e \in Messages, Publish(p, e) PROVE PrefixTypeOK'
  <2>1. pending' \in Blobs
    BY <1>1 DEF Publish, Stores, Blobs
  <2>2. top' \in 0..MaxMessages /\ ends' \subseteq Messages
    BY <1>1 DEF Publish, Stores
  <2>3. {refresh', mat'} \subseteq [Processes -> BOOLEAN]
    BY <1>1 DEF Publish
  <2> QED
    BY <1>1, <2>1, <2>2, <2>3 DEF Publish
<1>2. CASE RecompPromotes(p)
  BY <1>2 DEF RecompPromotes, Writes
<1>3. CASE RecompSignals(p)
  BY <1>3 DEF RecompSignals, Urge
<1>4. CASE RecompMarks(p)
  <2>1. ~Covers(top) => Replaced(marker, top) \subseteq Messages
    <3>1. ~Covers(top) => top \in Messages
      BY DEF Covers
    <3> QED
      BY <3>1 DEF Replaced
  <2>2. host' \subseteq Messages
    BY <1>4, <2>1 DEF RecompMarks
  <2>3. marker' \in {marker, top} /\ pending' \in {pending, None} /\ faults' \in Nat
    BY <1>4 DEF RecompMarks
  <2> QED
    BY <1>4, <2>2, <2>3 DEF RecompMarks
<1>5. CASE Flush(p)
  BY <1>5 DEF Flush, Urge
<1>6. CASE Crash(p)
  BY <1>6, StepNames DEF Crash
<1> QED
  BY <1>1, <1>2, <1>3, <1>4, <1>5, <1>6 DEF Background

\* Inside a pass the pass has locals.
LEMMA PassRuns ==
  ASSUME PrefixTypeOK, NEW p \in Processes, pc[p] # "idle"
  PROVE  pass[p] \in Passes
BY DEF PrefixTypeOK

LocalsOK ==
  /\ pc \in [Processes -> Steps]
  /\ pass \in [Processes -> Passes \cup {None}]
  /\ \A p \in Processes : pass[p] = None <=> pc[p] = "idle"

\* A pass goes on with typed locals, or ends without any.
LEMMA LocalsKept ==
  ASSUME PrefixTypeOK, NEW p \in Processes,
         \/ \E new \in Passes, step \in Steps \ {"idle"} :
              pc' = [pc EXCEPT ![p] = step] /\ pass' = [pass EXCEPT ![p] = new]
         \/ pc' = [pc EXCEPT ![p] = "idle"] /\ pass' = [pass EXCEPT ![p] = None]
         \/ UNCHANGED <<pc, pass>>
  PROVE  LocalsOK'
BY StepNames, NoneAssumption DEF PrefixTypeOK, LocalsOK

\* What delivery writes into the locals is typed.
LEMMA DeliveredTyped ==
  ASSUME NEW me \in Passes, NEW o \in Renders, NEW f \in Nat \ {0}, NEW t \in BOOLEAN,
         NEW d \in BOOLEAN, NEW b \in Blobs \cup {None}, NEW m \in 0..MaxMessages
  PROVE  [me EXCEPT !.out = o, !.from = f, !.trimmed = t, !.matDone = d, !.pend = b,
                    !.mark = m] \in Passes
BY DEF Passes

\* A pass keeps the types.
LEMMA PassTyped ==
  ASSUME PrefixTypeOK, NEW p \in Processes, PassStep(p) \/ Refuse(p) \/ DrainFails(p),
         pc[p] \in {"cutting", "persisting"} => pass[p].pend # None
  PROVE  PrefixTypeOK'
<1> USE DEF history, markers, signals, local, counters
<1>1. CASE Preflight(p)
  <2> DEFINE captured == MustFold(p) \/ Executes(p)
  <2>1. pass[p] \in Passes /\ mat[p] \in BOOLEAN
    BY <1>1, PassRuns DEF Preflight, PrefixTypeOK
  <2>2. CASE ~PreflightDue(p)
    <3> DEFINE new == [pass[p] EXCEPT !.matWas = mat[p]]
    <3>1. new \in Passes
      BY <2>1 DEF Passes
    <3>2. pass' = [pass EXCEPT ![p] = new] /\ UNCHANGED <<row, current, faults>>
      BY <1>1, <2>2 DEF Preflight
    <3> HIDE DEF new
    <3>3. LocalsOK'
      BY <1>1, <3>1, <3>2, LocalsKept, StepNames DEF Preflight
    <3> QED
      BY <1>1, <3>2, <3>3 DEF Preflight, PrefixTypeOK, LocalsOK
  <2>3. CASE PreflightDue(p)
    <3>1. PICK r \in Injects(p, TRUE, captured) :
            /\ Writes(r.row)
            /\ pass' = [pass EXCEPT ![p].matWas = mat[p], ![p].out = r.out]
            /\ faults' = IF r.out.contended THEN faults + 1 ELSE faults
      BY <1>1, <2>3 DEF Preflight
    <3>2. r.row \in Pairs \cup {None} /\ r.out \in Renders
      BY <2>1, InjectsTyped DEF MustFold, Executes
    <3> DEFINE new == [pass[p] EXCEPT !.matWas = mat[p], !.out = r.out]
    <3>3. new \in Passes
      BY <2>1, <3>2 DEF Passes
    <3>4. pass' = [pass EXCEPT ![p] = new]
      BY <3>1
    <3> HIDE DEF new
    <3>5. LocalsOK'
      BY <1>1, <3>3, <3>4, LocalsKept, StepNames DEF Preflight
    <3>6. row' \in Pairs \cup {None} /\ current' \in [Processes -> BOOLEAN] /\ faults' \in Nat
      BY <3>1, <3>2 DEF Writes, PrefixTypeOK
    <3> QED
      BY <1>1, <3>5, <3>6 DEF Preflight, PrefixTypeOK, LocalsOK
  <2> QED
    BY <2>2, <2>3
<1>2. CASE Deliver(p)
  <2>1. pass[p] \in Passes /\ mat[p] \in BOOLEAN /\ flush[p] \in BOOLEAN
    BY <1>2, PassRuns DEF Deliver, PrefixTypeOK
  <2> DEFINE Choices == IF pass[p].out # None THEN {[row |-> row, out |-> pass[p].out]}
                        ELSE Injects(p, flush[p], FALSE)
             wanted == pass[p].matWas /\ Consumes(p)
             priced(out) == \/ flush[p]
                            \/ pass[p].out # None /\ ~out.contended /\ (out.changed \/ wanted)
                            \/ out.pair.stamp = Unsaved
             raw(out) == [pass EXCEPT
                            ![p].out = out,
                            ![p].from = IF out.bound < @ THEN @ ELSE out.bound + 1,
                            ![p].trimmed = out.bound # 0 /\ out.bound >= pass[p].start,
                            ![p].matDone = priced(out) /\ (flush[p] \/ wanted),
                            ![p].pend = pending,
                            ![p].mark = marker]
             new(out) == [pass[p] EXCEPT
                            !.out = out,
                            !.from = IF out.bound < @ THEN @ ELSE out.bound + 1,
                            !.trimmed = out.bound # 0 /\ out.bound >= pass[p].start,
                            !.matDone = priced(out) /\ (flush[p] \/ wanted),
                            !.pend = pending,
                            !.mark = marker]
  <2>2. PICK r \in Choices :
          /\ Writes(r.row)
          /\ pass' = raw(r.out)
          /\ cache' = IF r.out.fresh \/ (priced(r.out) /\ ~r.out.contended)
                      THEN [cache EXCEPT ![p] = None] ELSE cache
          /\ faults' = IF pass[p].out = None /\ r.out.contended THEN faults + 1 ELSE faults
    BY <1>2 DEF Deliver
  <2>3. r.row \in Pairs \cup {None} /\ r.out \in Renders
    <3>1. CASE pass[p].out # None
      BY <2>1, <2>2, <3>1 DEF Passes, PrefixTypeOK
    <3>2. CASE pass[p].out = None
      BY <2>1, <2>2, <3>2, InjectsTyped
    <3> QED
      BY <3>1, <3>2
  <2>4. new(r.out) \in Passes
    <3>1. /\ r.out.bound \in 0..MaxMessages /\ pass[p].from \in Nat \ {0}
          /\ pending \in Blobs \cup {None} /\ marker \in 0..MaxMessages
      BY <2>1, <2>3 DEF Passes, Renders, PrefixTypeOK
    <3> DEFINE from == IF r.out.bound < pass[p].from THEN pass[p].from ELSE r.out.bound + 1
               trimmed == r.out.bound # 0 /\ r.out.bound >= pass[p].start
               matDone == priced(r.out) /\ (flush[p] \/ wanted)
    <3>2. from \in Nat \ {0} /\ trimmed \in BOOLEAN /\ matDone \in BOOLEAN
      BY <3>1
    <3>3. new(r.out) = [pass[p] EXCEPT !.out = r.out, !.from = from, !.trimmed = trimmed,
                                       !.matDone = matDone, !.pend = pending, !.mark = marker]
      OBVIOUS
    <3> HIDE DEF from, trimmed, matDone, new, raw, priced, wanted, Choices
    <3>4. ASSUME NEW f \in Nat \ {0}, NEW t \in BOOLEAN, NEW d \in BOOLEAN
          PROVE  [pass[p] EXCEPT !.out = r.out, !.from = f, !.trimmed = t, !.matDone = d,
                                 !.pend = pending, !.mark = marker] \in Passes
      <4>1. pass[p] \in Passes /\ r.out \in Renders
        BY <2>1, <2>3
      <4>2. pending \in Blobs \cup {None} /\ marker \in 0..MaxMessages
        BY <3>1
      <4> QED
        BY <4>1, <4>2, DeliveredTyped, ZenonT(60)
    <3>5. [pass[p] EXCEPT !.out = r.out, !.from = from, !.trimmed = trimmed,
                          !.matDone = matDone, !.pend = pending, !.mark = marker] \in Passes
      BY <3>2, <3>4, Zenon
    <3> QED
      BY <3>3, <3>5, Zenon
  <2>8. pass' = [pass EXCEPT ![p] = new(r.out)]
    BY <2>2, ZenonT(60)
  <2> HIDE DEF new, priced
  <2>5. LocalsOK'
    BY <1>2, <2>8, <2>4, LocalsKept, StepNames DEF Deliver
  <2>6. row' \in Pairs \cup {None} /\ current' \in [Processes -> BOOLEAN] /\ faults' \in Nat
    BY <2>2, <2>3, SMTT(30) DEF Writes, PrefixTypeOK
  <2>7. cache' \in [Processes -> Cuts \cup {None}] /\ flush' \in [Processes -> BOOLEAN]
    BY <1>2, <2>2 DEF Deliver, PrefixTypeOK
  <2>9. UNCHANGED <<history, markers, recomp, explicit, refresh, mat, commands, passes>>
    BY <1>2 DEF Deliver
  <2> QED
    BY <2>5, <2>6, <2>7, <2>9 DEF PrefixTypeOK, LocalsOK
<1>3. ASSUME NEW keep, Ends(p, keep)
      PROVE  /\ LocalsOK' /\ UNCHANGED <<explicit, flush, cache>>
             /\ refresh' \in [Processes -> BOOLEAN] /\ mat' \in [Processes -> BOOLEAN]
             /\ current' \in [Processes -> BOOLEAN]
  <2>1. LocalsOK'
    BY <1>3, LocalsKept DEF Ends
  <2> QED
    BY <1>3, <2>1 DEF Ends, PrefixTypeOK
<1>4. CASE Finish(p)
  BY <1>3, <1>4 DEF Finish, PrefixTypeOK, LocalsOK
<1>5. CASE Drain(p)
  <2>1. CASE Clear(p) /\ Ends(p, Newer(p))
    BY <1>3, <1>5, <2>1 DEF Drain, Clear, PrefixTypeOK, LocalsOK
  <2>2. CASE /\ pc' = [pc EXCEPT ![p] = "cutting"]
             /\ pass' = [pass EXCEPT ![p].mark = marker]
             /\ UNCHANGED <<pending, refresh, mat, explicit, flush, cache, current>>
    <3>1. pass[p] \in Passes /\ marker \in 0..MaxMessages
      BY <1>5, PassRuns DEF Drain, PrefixTypeOK
    <3>2. [pass[p] EXCEPT !.mark = marker] \in Passes
      BY <3>1 DEF Passes
    <3>3. LocalsOK'
      BY <2>2, <3>2, LocalsKept, StepNames
    <3> QED
      BY <1>5, <2>2, <3>3 DEF Drain, PrefixTypeOK, LocalsOK
  <2> QED
    BY <1>5, <2>1, <2>2 DEF Drain
<1>6. CASE Refuse(p)
  <2>1. LocalsOK'
    BY <1>6, LocalsKept DEF Refuse
  <2> QED
    BY <1>6, <2>1 DEF Refuse, PrefixTypeOK, LocalsOK
<1>7. CASE DrainFails(p)
  <2>1. LocalsOK'
    BY <1>7, LocalsKept DEF DrainFails
  <2> QED
    BY <1>7, <2>1 DEF DrainFails, PrefixTypeOK, LocalsOK
<1>8. CASE Cut(p)
  <2>1. pass[p] \in Passes /\ pass[p].pend \in Blobs
    BY <1>8, PassRuns DEF Cut, Passes, PrefixTypeOK
  <2>2. Replaced(pass[p].mark, pass[p].pend.end) \subseteq Messages
    BY <2>1 DEF Replaced, Blobs, PrefixTypeOK
  <2>3. LocalsOK'
    BY <1>8, <2>1, StepNames, NoneAssumption DEF Cut, PrefixTypeOK, LocalsOK
  <2> QED
    BY <1>8, <2>2, <2>3 DEF Cut, PrefixTypeOK, LocalsOK
<1>9. CASE Persist(p)
  <2>1. pass[p] \in Passes /\ pass[p].pend \in Blobs
    BY <1>9, PassRuns DEF Persist, Passes, PrefixTypeOK
  <2>2. pass[p].pend.end \in 0..MaxMessages
    BY <2>1 DEF Blobs
  <2> QED
    BY <1>3, <1>9, <2>2 DEF Persist, Clear, PrefixTypeOK, LocalsOK
<1> QED
  BY <1>1, <1>2, <1>4, <1>5, <1>6, <1>7, <1>8, <1>9 DEF PassStep

\* The beginning of a pass keeps the types, and so does the run it awaits.
LEMMA BeginTyped ==
  ASSUME PrefixTypeOK, NEW p \in Processes, NEW inputs \in SUBSET Inputs, Begin(p, inputs)
  PROVE  PrefixTypeOK'
<1> USE DEF history, markers, signals, local, counters
<1>1. PICK s \in Users, busting \in BOOLEAN :
        LET got == Prepare(p, busting, s, top)
        IN /\ pass' = [pass EXCEPT ![p] =
                [inputs |-> inputs, pair |-> row, start |-> s, shown |-> host,
                 from |-> got.from, cut |-> got.cut, due |-> refresh[p],
                 explicit |-> explicit[p], rebuilt |-> busting, awaited |-> FALSE,
                 matWas |-> FALSE, out |-> None, trimmed |-> FALSE, matDone |-> FALSE,
                 pend |-> None, mark |-> 0]]
           /\ cache' = [cache EXCEPT ![p] = got.cache]
  <2>1. \A inp : (explicit[p] \/ ("execute" \in inp /\ refresh[p])) \in BOOLEAN
    OBVIOUS
  <2> QED
    BY <2>1, Zenon DEF Begin
<1> DEFINE got == Prepare(p, busting, s, top)
<1>2. got.from \in Nat \ {0} /\ got.cut \in Cuts /\ got.cache \in Cuts \cup {None}
  <2>1. s \in Nat \ {0} /\ top \in 0..MaxMessages
    BY DEF PrefixTypeOK
  <2> QED
    BY <2>1, PrepareTyped
<1> HIDE DEF got
<1> DEFINE new == [inputs |-> inputs, pair |-> row, start |-> s, shown |-> host,
                   from |-> got.from, cut |-> got.cut, due |-> refresh[p],
                   explicit |-> explicit[p], rebuilt |-> busting, awaited |-> FALSE,
                   matWas |-> FALSE, out |-> None, trimmed |-> FALSE, matDone |-> FALSE,
                   pend |-> None, mark |-> 0]
<1>3. new \in Passes
  <2>1. /\ row \in Pairs \cup {None} /\ s \in Messages /\ host \subseteq Messages
        /\ refresh[p] \in BOOLEAN /\ explicit[p] \in BOOLEAN
    BY DEF PrefixTypeOK
  <2> QED
    BY <1>2, <2>1 DEF Passes
<1>4. pass' = [pass EXCEPT ![p] = new] /\ cache' = [cache EXCEPT ![p] = got.cache]
  BY <1>1 DEF got
<1> HIDE DEF new
<1>5. LocalsOK'
  BY <1>3, <1>4, LocalsKept, StepNames DEF Begin
<1>6. /\ explicit' = [explicit EXCEPT ![p] = FALSE] /\ passes' \in Nat
      /\ UNCHANGED <<history, row, markers, recomp, flush, refresh, mat, current, faults,
                     commands>>
  BY DEF Begin, PrefixTypeOK
<1> QED
  BY <1>2, <1>4, <1>5, <1>6 DEF PrefixTypeOK, LocalsOK

LEMMA AwaitTyped ==
  ASSUME PrefixTypeOK, NEW p \in Processes, NEW e \in Messages, AwaitRun(p, e)
  PROVE  PrefixTypeOK'
<1> USE DEF history, markers, signals, local, counters
<1> DEFINE got == Prepare(p, TRUE, pass[p].from, e)
<1>1. pass[p] \in Passes
  BY PassRuns DEF AwaitRun
<1>2. got.from \in Nat \ {0} /\ got.cut \in Cuts /\ got.cache \in Cuts \cup {None}
  <2>1. pass[p].from \in Nat \ {0} /\ e \in 0..MaxMessages
    BY <1>1 DEF Passes
  <2> QED
    BY <2>1, PrepareTyped
<1> DEFINE raw == [pass EXCEPT ![p].awaited = TRUE, ![p].rebuilt = TRUE,
                               ![p].from = got.from, ![p].cut = got.cut]
           new == [pass[p] EXCEPT !.awaited = TRUE, !.rebuilt = TRUE,
                                  !.from = got.from, !.cut = got.cut]
<1>3. pass' = raw /\ cache' = [cache EXCEPT ![p] = got.cache]
  BY DEF AwaitRun
<1> HIDE DEF got
<1>4. new \in Passes
  BY <1>1, <1>2 DEF Passes
<1>5. pass' = [pass EXCEPT ![p] = new]
  BY <1>3
<1> HIDE DEF new, raw
<1>6. LocalsOK'
  <2>1. pc' = pc /\ pc[p] = "prepared"
    BY DEF AwaitRun
  <2> QED
    BY <1>4, <1>5, <2>1, NoneAssumption DEF PrefixTypeOK, LocalsOK
<1>7. /\ top' \in 0..MaxMessages /\ ends' \subseteq Messages /\ pending' \in Blobs
  BY DEF AwaitRun, Stores, Blobs, PrefixTypeOK
<1>8. /\ refresh' = [refresh EXCEPT ![p] = TRUE] /\ mat' = [mat EXCEPT ![p] = TRUE]
      /\ UNCHANGED <<mutation, row, marker, host, recomp, explicit, flush, pc, current,
                     counters>>
  BY DEF AwaitRun
<1> QED
  BY <1>2, <1>3, <1>6, <1>7, <1>8 DEF PrefixTypeOK, LocalsOK

-----------------------------------------------------------------------------
(* The types, with what they need: a pass that moves the marker has read a  *)
(* target, ahead of the marker it saw.                                      *)

DrainsAhead ==
  \A p \in Processes :
    /\ pc[p] \in {"cutting", "persisting"} => pass[p].pend # None
    /\ pc[p] = "cutting" => pass[p].mark < pass[p].pend.end

TypeInv == PrefixTypeOK /\ DrainsAhead

\* Delivery notes what the pass will drain, and leaves other passes alone.
LEMMA DeliverNotes ==
  ASSUME PrefixTypeOK, NEW p \in Processes, Deliver(p)
  PROVE  /\ pass'[p].pend = pending /\ pass'[p].mark = marker
         /\ pass'[p].shown = pass[p].shown
         /\ \E r \in IF pass[p].out # None THEN {[row |-> row, out |-> pass[p].out]}
                    ELSE Injects(p, flush[p], FALSE) :
              row' = r.row /\ pass'[p].out = r.out
         /\ \A q \in Processes \ {p} : pass'[q] = pass[q]
         /\ pc' = [pc EXCEPT ![p] = "delivered"]
<1> DEFINE wanted == pass[p].matWas /\ Consumes(p)
           priced(out) == \/ flush[p]
                          \/ pass[p].out # None /\ ~out.contended /\ (out.changed \/ wanted)
                          \/ out.pair.stamp = Unsaved
           raw(out) == [pass EXCEPT
                          ![p].out = out,
                          ![p].from = IF out.bound < @ THEN @ ELSE out.bound + 1,
                          ![p].trimmed = out.bound # 0 /\ out.bound >= pass[p].start,
                          ![p].matDone = priced(out) /\ (flush[p] \/ wanted),
                          ![p].pend = pending,
                          ![p].mark = marker]
           Choices == IF pass[p].out # None THEN {[row |-> row, out |-> pass[p].out]}
                      ELSE Injects(p, flush[p], FALSE)
<1>1. PICK r \in Choices :
        /\ Writes(r.row)
        /\ pass' = raw(r.out)
        /\ cache' = IF r.out.fresh \/ (priced(r.out) /\ ~r.out.contended)
                    THEN [cache EXCEPT ![p] = None] ELSE cache
        /\ faults' = IF pass[p].out = None /\ r.out.contended THEN faults + 1 ELSE faults
  BY DEF Deliver
<1>2. row' = r.row /\ pass' = raw(r.out)
  BY <1>1 DEF Writes
<1>3. pass[p] \in Passes /\ pc' = [pc EXCEPT ![p] = "delivered"]
  BY PassRuns, SMTT(30) DEF Deliver
<1>4. \E f, t, d :
        pass' = [pass EXCEPT ![p].out = r.out, ![p].from = f, ![p].trimmed = t,
                             ![p].matDone = d, ![p].pend = pending, ![p].mark = marker]
  <2> HIDE DEF priced, wanted
  <2> QED BY <1>2
<1>5. PICK f, t, d :
        pass' = [pass EXCEPT ![p].out = r.out, ![p].from = f, ![p].trimmed = t,
                             ![p].matDone = d, ![p].pend = pending, ![p].mark = marker]
  BY <1>4
<1> HIDE DEF priced, wanted, raw
<1>6. /\ pass'[p].pend = pending /\ pass'[p].mark = marker
      /\ pass'[p].out = r.out /\ pass'[p].shown = pass[p].shown
      /\ \A q \in Processes \ {p} : pass'[q] = pass[q]
  BY <1>3, <1>5 DEF PrefixTypeOK, Passes
<1> QED
  BY <1>2, <1>3, <1>6

LEMMA DrainsAheadKept == TypeInv /\ [PrefixNext]_vars => DrainsAhead'
<1> SUFFICES ASSUME TypeInv, [PrefixNext]_vars PROVE DrainsAhead'
  OBVIOUS
<1> USE DEF TypeInv, DrainsAhead, history, markers, signals, local, counters
<1>1. CASE UNCHANGED <<pc, pass>>
  BY <1>1
<1>2. ASSUME NEW p \in Processes, NEW step \in {"idle", "prepared", "ready", "delivered"},
             pc' = [pc EXCEPT ![p] = step],
             \A q \in Processes \ {p} : pass'[q] = pass[q]
      PROVE  DrainsAhead'
  BY <1>2 DEF PrefixTypeOK
<1>3. ASSUME NEW p \in Processes, NEW e \in Messages, AwaitRun(p, e)
      PROVE  DrainsAhead'
  BY <1>3 DEF AwaitRun, PrefixTypeOK
<1>4. ASSUME NEW p \in Processes, NEW inputs \in SUBSET Inputs, Begin(p, inputs)
      PROVE  DrainsAhead'
  <2>1. pc' = [pc EXCEPT ![p] = "prepared"] /\ \A q \in Processes \ {p} : pass'[q] = pass[q]
    BY <1>4 DEF Begin, PrefixTypeOK
  <2> QED
    BY <1>2, <2>1
<1>5. ASSUME NEW p \in Processes, PassStep(p) \/ Refuse(p) \/ DrainFails(p)
      PROVE  DrainsAhead'
  <2>1. CASE Preflight(p)
    BY <1>2, <2>1 DEF Preflight, PrefixTypeOK
  <2>2. CASE Deliver(p)
    BY <1>2, <2>2, DeliverNotes
  <2>3. CASE Finish(p) \/ Refuse(p) \/ DrainFails(p) \/ Persist(p)
    BY <1>2, <2>3 DEF Finish, Ends, Refuse, DrainFails, Persist, PrefixTypeOK
  <2>4. CASE Cut(p)
    BY <2>4 DEF Cut, PrefixTypeOK
  <2>5. CASE Drain(p)
    <3>1. CASE Ends(p, Newer(p))
      BY <1>2, <3>1 DEF Ends, PrefixTypeOK
    <3>2. CASE /\ ~Covers(pass[p].pend.end)
               /\ pc' = [pc EXCEPT ![p] = "cutting"]
               /\ pass' = [pass EXCEPT ![p].mark = marker]
      <4>1. pass[p] \in Passes /\ pass[p].pend # None /\ marker \in Nat
        BY <2>5, PassRuns DEF Drain, Drains, PrefixTypeOK
      <4>2. pass[p].pend.end \in Nat
        BY <4>1 DEF Passes, Blobs
      <4>3. marker < pass[p].pend.end
        BY <3>2, <4>1, <4>2 DEF Covers
      <4>4. pass'[p].pend = pass[p].pend /\ pass'[p].mark = marker
        BY <3>2, <4>1 DEF PrefixTypeOK, Passes
      <4> QED
        BY <3>2, <4>1, <4>3, <4>4 DEF PrefixTypeOK
    <3> QED
      BY <2>5, <3>1, <3>2 DEF Drain
  <2> QED
    BY <1>5, <2>1, <2>2, <2>3, <2>4, <2>5 DEF PassStep
<1>6. ASSUME NEW p \in Processes, Background(p) PROVE DrainsAhead'
  <2>1. CASE Crash(p)
    BY <1>2, <2>1 DEF Crash, PrefixTypeOK
  <2>2. CASE ~Crash(p)
    <3>1. UNCHANGED <<pc, pass>>
      BY <1>6, <2>2 DEF Background, Publish, RecompPromotes, RecompSignals, RecompMarks, Flush
    <3> QED
      BY <1>1, <3>1
  <2> QED
    BY <2>1, <2>2
<1>7. CASE UNCHANGED vars
  BY <1>1, <1>7 DEF vars
<1> QED
  BY <1>3, <1>4, <1>5, <1>6, <1>7 DEF PrefixNext

LEMMA TypeInvKept == TypeInv /\ [PrefixNext]_vars => TypeInv'
<1> SUFFICES ASSUME TypeInv, [PrefixNext]_vars PROVE PrefixTypeOK'
  BY DrainsAheadKept DEF TypeInv
<1>1. PrefixTypeOK /\ DrainsAhead
  BY DEF TypeInv
<1>2. ASSUME NEW p \in Processes, PassStep(p) \/ Refuse(p) \/ DrainFails(p)
      PROVE  PrefixTypeOK'
  BY <1>1, <1>2, PassTyped DEF DrainsAhead
<1>3. ASSUME NEW p \in Processes, Background(p) PROVE PrefixTypeOK'
  BY <1>1, <1>3, BackgroundTyped
<1>4. ASSUME NEW p \in Processes, NEW inputs \in SUBSET Inputs, Begin(p, inputs)
      PROVE  PrefixTypeOK'
  BY <1>1, <1>4, BeginTyped
<1>5. ASSUME NEW p \in Processes, NEW e \in Messages, AwaitRun(p, e)
      PROVE  PrefixTypeOK'
  BY <1>1, <1>5, AwaitTyped
<1>6. CASE UNCHANGED vars
  BY <1>1, <1>6 DEF PrefixTypeOK, vars, history, markers, signals, local, counters
<1>7. CASE PrefixNext
  BY <1>2, <1>3, <1>4, <1>5, <1>7 DEF PrefixNext
<1> QED
  BY <1>6, <1>7

\* Every state of every session has the types of the state's description.
THEOREM PrefixTyped == PrefixSpec => []PrefixTypeOK
<1>1. PrefixInit => TypeInv
  BY TypeInit DEF TypeInv, DrainsAhead, PrefixInit
<1>2. TypeInv => PrefixTypeOK
  BY DEF TypeInv
<1> QED
  BY <1>1, <1>2, TypeInvKept, PTL DEF PrefixSpec
-----------------------------------------------------------------------------
(* The host's window. *)

Late == {"delivered", "cutting", "persisting"}

\* A target noted by a pass was pending when it was noted, and stays noted; a
\* pass that has moved the host's marker did so in this step or before.
NotesKept(p) ==
  /\ pc'[p] \in Late =>
       \/ pass'[p].pend = pending
       \/ pc[p] \in Late /\ pass'[p].pend = pass[p].pend
  /\ pc'[p] = "persisting" =>
       /\ pc[p] = "persisting" \/ Cut(p)
       /\ pass'[p] = pass[p]

LEMMA Notes ==
  ASSUME TypeInv, [PrefixNext]_vars, NEW p \in Processes
  PROVE  NotesKept(p)
<1> USE DEF TypeInv, NotesKept, Late, history, markers, signals, local, counters
<1>1. CASE UNCHANGED <<pc, pass>>
  BY <1>1
<1>2. ASSUME NEW q \in Processes, NEW step \in {"idle", "prepared", "ready"},
             pc' = [pc EXCEPT ![q] = step],
             \A o \in Processes \ {q} : pass'[o] = pass[o]
      PROVE  NotesKept(p)
  BY <1>2 DEF PrefixTypeOK
<1>3. ASSUME NEW q \in Processes, NEW e \in Messages, AwaitRun(q, e)
      PROVE  NotesKept(p)
  BY <1>3 DEF AwaitRun, PrefixTypeOK
<1>4. ASSUME NEW q \in Processes, NEW inputs \in SUBSET Inputs, Begin(q, inputs)
      PROVE  NotesKept(p)
  <2>1. pc' = [pc EXCEPT ![q] = "prepared"] /\ \A o \in Processes \ {q} : pass'[o] = pass[o]
    BY <1>4 DEF Begin, PrefixTypeOK
  <2> QED
    BY <1>2, <2>1
<1>5. ASSUME NEW q \in Processes, PassStep(q) \/ Refuse(q) \/ DrainFails(q)
      PROVE  NotesKept(p)
  <2>1. CASE Preflight(q)
    BY <1>2, <2>1 DEF Preflight, PrefixTypeOK
  <2>2. CASE Deliver(q)
    BY <2>2, DeliverNotes, ZenonT(60) DEF PrefixTypeOK
  <2>3. CASE Finish(q) \/ Refuse(q) \/ DrainFails(q) \/ Persist(q)
    BY <1>2, <2>3 DEF Finish, Ends, Refuse, DrainFails, Persist, PrefixTypeOK
  <2>4. CASE Cut(q)
    BY <2>4 DEF Cut, PrefixTypeOK
  <2>5. CASE Drain(q)
    <3>1. CASE Ends(q, Newer(q))
      BY <1>2, <3>1 DEF Ends, PrefixTypeOK
    <3>2. CASE /\ pc' = [pc EXCEPT ![q] = "cutting"]
               /\ pass' = [pass EXCEPT ![q].mark = marker]
      <4>1. pass[q] \in Passes /\ pc[q] = "delivered"
        BY <2>5, PassRuns DEF Drain
      <4>2. pass'[q].pend = pass[q].pend
        BY <3>2, <4>1 DEF PrefixTypeOK, Passes
      <4> QED
        BY <3>2, <4>1, <4>2 DEF PrefixTypeOK
    <3> QED
      BY <2>5, <3>1, <3>2 DEF Drain
  <2> QED
    BY <1>5, <2>1, <2>2, <2>3, <2>4, <2>5 DEF PassStep
<1>6. ASSUME NEW q \in Processes, Background(q) PROVE NotesKept(p)
  <2>1. CASE Crash(q)
    BY <1>2, <2>1 DEF Crash, PrefixTypeOK
  <2>2. CASE ~Crash(q)
    <3>1. UNCHANGED <<pc, pass>>
      BY <1>6, <2>2 DEF Background, Publish, RecompPromotes, RecompSignals, RecompMarks, Flush
    <3> QED
      BY <1>1, <3>1
  <2> QED
    BY <2>1, <2>2
<1>7. CASE UNCHANGED vars
  BY <1>1, <1>7 DEF vars
<1>8. CASE PrefixNext
  BY <1>3, <1>4, <1>5, <1>6, <1>8 DEF PrefixNext
<1> QED
  BY <1>7, <1>8

\* Whoever moves the host's marker moves it ahead of the marker it takes away.
LEMMA HostMoves ==
  ASSUME TypeInv, [PrefixNext]_vars
  PROVE  \/ UNCHANGED host
         \/ \E p \in Processes :
              \/ /\ RecompMarks(p) /\ marker < top
                 /\ host' = Replaced(marker, top)
              \/ /\ Cut(p) /\ pass[p] \in Passes /\ pass[p].pend \in Blobs
                 /\ pass[p].mark < pass[p].pend.end
                 /\ host' = Replaced(pass[p].mark, pass[p].pend.end)
<1> USE DEF TypeInv, history, markers, signals, local, counters
<1>1. ASSUME NEW p \in Processes, RecompMarks(p)
      PROVE  UNCHANGED host \/ (marker < top /\ host' = Replaced(marker, top))
  <2>1. Covers(top) \/ marker < top
    BY DEF Covers, PrefixTypeOK
  <2> QED
    BY <1>1, <2>1 DEF RecompMarks
<1>2. ASSUME NEW p \in Processes, Cut(p)
      PROVE  /\ pass[p] \in Passes /\ pass[p].pend \in Blobs
             /\ pass[p].mark < pass[p].pend.end
             /\ host' = Replaced(pass[p].mark, pass[p].pend.end)
  <2>1. pass[p] \in Passes /\ pass[p].pend # None
    BY <1>2, PassRuns DEF Cut, DrainsAhead
  <2> QED
    BY <1>2, <2>1 DEF Cut, DrainsAhead, Passes
<1>3. ASSUME NEW p \in Processes, PassStep(p), ~Cut(p) PROVE UNCHANGED host
  BY <1>3 DEF PassStep, Preflight, Deliver, Finish, Drain, Persist
<1>4. ASSUME NEW p \in Processes, Background(p), ~RecompMarks(p) PROVE UNCHANGED host
  BY <1>4 DEF Background, Publish, RecompPromotes, RecompSignals, Flush, Crash
<1>5. ASSUME NEW p \in Processes, Refuse(p) \/ DrainFails(p) PROVE UNCHANGED host
  BY <1>5 DEF Refuse, DrainFails
<1>6. ASSUME NEW p \in Processes, NEW inputs \in SUBSET Inputs, Begin(p, inputs)
      PROVE  UNCHANGED host
  BY <1>6 DEF Begin
<1>7. ASSUME NEW p \in Processes, NEW e \in Messages, AwaitRun(p, e) PROVE UNCHANGED host
  BY <1>7 DEF AwaitRun
<1>8. CASE UNCHANGED vars
  BY <1>8 DEF vars
<1>9. CASE PrefixNext
  BY <1>1, <1>2, <1>3, <1>4, <1>5, <1>6, <1>7, <1>9 DEF PrefixNext
<1> QED
  BY <1>8, <1>9

\* A marker that is taken away leaves a later one, or one on the same message.
LEMMA ReplacedReaches ==
  ASSUME PrefixTypeOK, NEW known \in Int, NEW target \in Int, known < target,
         host' = Replaced(known, target), NEW h \in host
  PROVE  \E g \in host' : \A u \in Users : u <= h => u <= g
<1>0. h \in Int /\ target \in host' /\ \A u \in Users : u \in Int
  BY DEF PrefixTypeOK, Replaced
<1>1. CASE h = known
  BY <1>0, <1>1
<1>2. CASE SameBoundary(h, target)
  BY <1>0, <1>2 DEF SameBoundary
<1>3. CASE h # known /\ ~SameBoundary(h, target)
  BY <1>3 DEF Replaced
<1> QED
  BY <1>1, <1>2, <1>3

LEMMA HostReaches ==
  ASSUME TypeInv, [PrefixNext]_vars, NEW h \in host
  PROVE  \E g \in host' : \A u \in Users : u <= h => u <= g
<1>0. PrefixTypeOK
  BY DEF TypeInv
<1>1. CASE UNCHANGED host
  BY <1>1
<1>2. ASSUME NEW p \in Processes, marker < top, host' = Replaced(marker, top)
      PROVE  \E g \in host' : \A u \in Users : u <= h => u <= g
  <2>1. marker \in Int /\ top \in Int
    BY <1>0 DEF PrefixTypeOK
  <2> QED
    BY <1>0, <1>2, <2>1, ReplacedReaches
<1>3. ASSUME NEW p \in Processes, pass[p] \in Passes, pass[p].pend \in Blobs,
             pass[p].mark < pass[p].pend.end,
             host' = Replaced(pass[p].mark, pass[p].pend.end)
      PROVE  \E g \in host' : \A u \in Users : u <= h => u <= g
  <2>1. pass[p].mark \in Int /\ pass[p].pend.end \in Int
    BY <1>3 DEF Passes, Blobs
  <2> QED
    BY <1>0, <1>3, <2>1, ReplacedReaches
<1> QED
  BY <1>1, <1>2, <1>3, HostMoves

\* The host's window never moves back, whatever the recomps promote.
LEMMA WindowAdvances ==
  ASSUME TypeInv, [PrefixNext]_vars
  PROVE  /\ Hidden \subseteq Hidden'
         /\ \A e \in Messages : Reaches(e) => Reaches(e)'
<1>1. ASSUME NEW m \in Hidden PROVE m \in Hidden'
  <2>1. PICK u \in Users, h \in host : m < u /\ u <= h
    BY DEF Hidden
  <2>2. PICK g \in host' : u <= g
    BY <2>1, HostReaches
  <2> QED
    BY <2>1, <2>2 DEF Hidden
<1>2. ASSUME NEW e \in Messages, Reaches(e) PROVE Reaches(e)'
  <2>1. PICK h \in host : \A u \in Users : u <= e => u <= h
    BY <1>2 DEF Reaches
  <2>2. PICK g \in host' : \A u \in Users : u <= h => u <= g
    BY <2>1, HostReaches
  <2> QED
    BY <2>1, <2>2 DEF Reaches
<1> QED
  BY <1>1, <1>2
-----------------------------------------------------------------------------
(* No request is lost. *)

\* Compartments end where the history does; what was recorded as done is done.
Anchored ==
  /\ \A e \in ends : e <= top
  /\ marker # 0 => Reaches(marker)
  /\ \A p \in Processes : pc[p] = "persisting" => Reaches(pass[p].pend.end)

KeptInv == TypeInv /\ Anchored

\* The steps that change the compartments, and those that record a marker.
LEMMA EndsStay ==
  ASSUME TypeInv, [PrefixNext]_vars
  PROVE  \/ UNCHANGED <<top, ends>>
         \/ \E p \in Processes, e \in Messages : Stores(e) /\ (Publish(p, e) \/ AwaitRun(p, e))
         \/ \E p \in Processes : RecompPromotes(p)
<1> USE DEF history, markers, signals, local, counters
<1>1. ASSUME NEW p \in Processes, PassStep(p) \/ Refuse(p) \/ DrainFails(p)
      PROVE  UNCHANGED <<top, ends>>
  BY <1>1 DEF PassStep, Preflight, Deliver, Finish, Drain, Cut, Persist, Refuse, DrainFails
<1>2. ASSUME NEW p \in Processes, RecompSignals(p) \/ RecompMarks(p) \/ Flush(p) \/ Crash(p)
      PROVE  UNCHANGED <<top, ends>>
  BY <1>2 DEF RecompSignals, RecompMarks, Flush, Crash
<1>3. ASSUME NEW p \in Processes, NEW inputs \in SUBSET Inputs, Begin(p, inputs)
      PROVE  UNCHANGED <<top, ends>>
  BY <1>3 DEF Begin
<1>4. ASSUME NEW p \in Processes, NEW e \in Messages, Publish(p, e) \/ AwaitRun(p, e)
      PROVE  Stores(e)
  BY <1>4 DEF Publish, AwaitRun
<1>5. CASE UNCHANGED vars
  BY <1>5 DEF vars
<1>6. CASE PrefixNext
  BY <1>1, <1>2, <1>3, <1>4, <1>6 DEF PrefixNext, Background
<1> QED
  BY <1>5, <1>6

LEMMA MarkerStays ==
  ASSUME TypeInv, [PrefixNext]_vars
  PROVE  \/ UNCHANGED marker
         \/ \E p \in Processes :
              \/ /\ marker' = top /\ top \in host'
              \/ /\ Persist(p) /\ marker' = pass[p].pend.end /\ UNCHANGED host
<1> USE DEF history, markers, signals, local, counters
<1>1. ASSUME NEW p \in Processes, RecompMarks(p)
      PROVE  UNCHANGED marker \/ (marker' = top /\ top \in host')
  BY <1>1 DEF RecompMarks, Replaced
<1>2. ASSUME NEW p \in Processes, Persist(p)
      PROVE  marker' = pass[p].pend.end /\ UNCHANGED host
  BY <1>2 DEF Persist
<1>3. ASSUME NEW p \in Processes, PassStep(p), ~Persist(p) PROVE UNCHANGED marker
  BY <1>3 DEF PassStep, Preflight, Deliver, Finish, Drain, Cut
<1>4. ASSUME NEW p \in Processes, Background(p), ~RecompMarks(p) PROVE UNCHANGED marker
  BY <1>4 DEF Background, Publish, RecompPromotes, RecompSignals, Flush, Crash
<1>5. ASSUME NEW p \in Processes, Refuse(p) \/ DrainFails(p) PROVE UNCHANGED marker
  BY <1>5 DEF Refuse, DrainFails
<1>6. ASSUME NEW p \in Processes, NEW inputs \in SUBSET Inputs, Begin(p, inputs)
      PROVE  UNCHANGED marker
  BY <1>6 DEF Begin
<1>7. ASSUME NEW p \in Processes, NEW e \in Messages, AwaitRun(p, e) PROVE UNCHANGED marker
  BY <1>7 DEF AwaitRun
<1>8. CASE UNCHANGED vars
  BY <1>8 DEF vars
<1>9. CASE PrefixNext
  BY <1>1, <1>2, <1>3, <1>4, <1>5, <1>6, <1>7, <1>9 DEF PrefixNext
<1> QED
  BY <1>8, <1>9

LEMMA KeptInvKept == KeptInv /\ [PrefixNext]_vars => KeptInv'
<1> SUFFICES ASSUME KeptInv, [PrefixNext]_vars PROVE Anchored'
  BY TypeInvKept DEF KeptInv
<1>1. TypeInv /\ PrefixTypeOK /\ Anchored /\ TypeInv'
  BY TypeInvKept DEF KeptInv, TypeInv
<1>2. (\A e \in ends : e <= top)'
  <2>1. CASE UNCHANGED <<top, ends>>
    BY <1>1, <2>1 DEF Anchored
  <2>2. ASSUME NEW e \in Messages, Stores(e) PROVE (\A d \in ends : d <= top)'
    BY <1>1, <2>2 DEF Stores, Anchored, PrefixTypeOK
  <2>3. ASSUME NEW p \in Processes, RecompPromotes(p) PROVE (\A d \in ends : d <= top)'
    BY <2>3 DEF RecompPromotes
  <2> QED
    BY <1>1, <2>1, <2>2, <2>3, EndsStay
<1>3. ASSUME NEW p \in Processes, pc'[p] = "persisting" PROVE Reaches(pass[p].pend.end)'
  <2>1. NotesKept(p) /\ pass'[p] \in Passes /\ pass'[p].pend \in Blobs
    BY <1>1, <1>3, Notes DEF TypeInv, DrainsAhead, PrefixTypeOK, Passes
  <2>2. pass'[p] = pass[p] /\ pass[p].pend.end \in Messages
    BY <1>3, <2>1 DEF NotesKept, Blobs
  <2>3. CASE pc[p] = "persisting"
    <3>1. Reaches(pass[p].pend.end)
      BY <1>1, <2>3 DEF Anchored
    <3>2. \A e \in Messages : Reaches(e) => Reaches(e)'
      BY <1>1, WindowAdvances
    <3> QED
      BY <2>2, <3>1, <3>2 DEF Reaches
  <2>4. CASE Cut(p)
    <3>1. pass[p].pend.end \in host'
      BY <2>4 DEF Cut, Replaced
    <3> QED
      BY <2>2, <3>1 DEF Reaches
  <2> QED
    BY <1>3, <2>1, <2>3, <2>4 DEF NotesKept
<1>4. ASSUME marker' # 0 PROVE Reaches(marker)'
  <2>0. \A e \in Messages : Reaches(e) => Reaches(e)'
    BY <1>1, WindowAdvances
  <2>1. CASE UNCHANGED marker
    <3>1. marker \in Messages /\ Reaches(marker)
      BY <1>1, <1>4, <2>1 DEF Anchored, PrefixTypeOK
    <3> QED
      BY <2>0, <2>1, <3>1 DEF Reaches
  <2>2. CASE marker' = top /\ top \in host'
    BY <2>2 DEF Reaches
  <2>3. ASSUME NEW p \in Processes, Persist(p), marker' = pass[p].pend.end, UNCHANGED host
        PROVE  Reaches(marker)'
    <3>1. Reaches(pass[p].pend.end)
      BY <1>1, <2>3 DEF Anchored, Persist
    <3> QED
      BY <2>3, <3>1 DEF Reaches
  <2> QED
    BY <1>1, <2>1, <2>2, <2>3, MarkerStays
<1> QED
  BY <1>2, <1>3, <1>4 DEF Anchored

\* A marker at or behind a target reaches it.
LEMMA MarkerReaches ==
  ASSUME NEW e \in Messages, NEW n \in Int, Reaches(n), e <= n
  PROVE  Reaches(e)
<1>1. \A u \in Users : u \in Int
  OBVIOUS
<1> QED
  BY <1>1 DEF Reaches

\* Who clears the pending target: a recomp that has marked its own end, or a pass
\* that has drained the very target.
LEMMA ClearedBy ==
  ASSUME TypeInv, [PrefixNext]_vars, pending # None, pending' = None
  PROVE  \/ Covers(top) /\ UNCHANGED <<top, ends, host>>
         \/ top \in host' /\ UNCHANGED <<top, ends>>
         \/ \E p \in Processes :
              /\ pass[p].pend = pending
              /\ \/ pending.end \notin ends \/ Covers(pending.end)
                 \/ pc[p] = "persisting"
              /\ UNCHANGED <<top, ends, host>>
<1> USE DEF history, markers, signals, local, counters
<1>1. ASSUME NEW p \in Processes, RecompMarks(p)
      PROVE  \/ Covers(top) /\ UNCHANGED <<top, ends, host>>
             \/ top \in host' /\ UNCHANGED <<top, ends>>
  BY <1>1 DEF RecompMarks, Replaced
<1>2. ASSUME NEW p \in Processes, Drain(p)
      PROVE  /\ pass[p].pend = pending
             /\ pending.end \notin ends \/ Covers(pending.end)
             /\ UNCHANGED <<top, ends, host>>
  BY <1>2 DEF Drain, Clear
<1>3. ASSUME NEW p \in Processes, Persist(p)
      PROVE  pass[p].pend = pending /\ pc[p] = "persisting" /\ UNCHANGED <<top, ends, host>>
  BY <1>3 DEF Persist, Clear
<1>4. ASSUME NEW p \in Processes, PassStep(p), ~Drain(p), ~Persist(p) PROVE FALSE
  BY <1>4 DEF PassStep, Preflight, Deliver, Finish, Cut
<1>5. ASSUME NEW p \in Processes, Background(p), ~RecompMarks(p) PROVE FALSE
  <2>1. ASSUME NEW e \in Messages, Publish(p, e) PROVE FALSE
    BY <2>1, NoneAssumption DEF Publish, Stores, TypeInv, PrefixTypeOK, Blobs
  <2> QED
    BY <1>5, <2>1 DEF Background, RecompPromotes, RecompSignals, Flush, Crash
<1>6. ASSUME NEW p \in Processes, Refuse(p) \/ DrainFails(p) PROVE FALSE
  BY <1>6 DEF Refuse, DrainFails
<1>7. ASSUME NEW p \in Processes, NEW inputs \in SUBSET Inputs, Begin(p, inputs) PROVE FALSE
  BY <1>7 DEF Begin
<1>8. ASSUME NEW p \in Processes, NEW e \in Messages, AwaitRun(p, e) PROVE FALSE
  BY <1>8, NoneAssumption DEF AwaitRun, Stores, TypeInv, PrefixTypeOK, Blobs
<1>9. PrefixNext
  BY DEF vars
<1> QED
  BY <1>1, <1>2, <1>3, <1>4, <1>5, <1>6, <1>7, <1>8, <1>9 DEF PrefixNext

\* Whatever crashes, is refused, or is published meanwhile, and whichever process
\* drains: a request to move the host's marker is dropped only when the host's
\* window is there or the compartment that asked for it is gone.
THEOREM PublicationKept == PrefixSpec => PublicationIsKept
<1> DEFINE Kept == \A e \in Messages :
                     pending # None /\ pending' = None /\ pending.end = e
                     => e \notin ends' \/ Reaches(e)'
<1>1. PrefixInit => KeptInv
  <2> SUFFICES ASSUME PrefixInit PROVE KeptInv
    OBVIOUS
  <2>1. TypeInv
    BY TypeInit DEF TypeInv, DrainsAhead, PrefixInit
  <2> QED
    BY <2>1 DEF KeptInv, Anchored, PrefixInit
<1>2. KeptInv /\ [PrefixNext]_vars => Kept
  <2> SUFFICES ASSUME KeptInv, [PrefixNext]_vars, NEW e \in Messages,
                      pending # None, pending' = None, pending.end = e, e \in ends'
               PROVE  Reaches(e)'
    OBVIOUS
  <2>1. /\ TypeInv /\ Anchored /\ top \in 0..MaxMessages /\ marker \in 0..MaxMessages
        /\ \A d \in Messages : Reaches(d) => Reaches(d)'
    BY WindowAdvances DEF KeptInv, TypeInv, PrefixTypeOK
  <2>2. ASSUME e <= marker PROVE Reaches(e)'
    <3>1. marker \in Int /\ marker # 0 /\ Reaches(marker)
      BY <2>1, <2>2 DEF Anchored
    <3>2. Reaches(e)
      BY <2>2, <3>1, MarkerReaches
    <3> QED
      BY <2>1, <3>2
  <2>3. CASE Covers(top) /\ UNCHANGED <<top, ends, host>>
    BY <2>1, <2>2, <2>3 DEF Anchored, Covers
  <2>4. CASE top \in host' /\ UNCHANGED <<top, ends>>
    <3>1. e <= top /\ \A u \in Users : u \in Int
      BY <2>1, <2>4 DEF Anchored
    <3> QED
      BY <2>1, <2>4, <3>1 DEF Reaches
  <2>5. ASSUME NEW p \in Processes, pass[p].pend = pending, UNCHANGED <<top, ends, host>>,
               pending.end \notin ends \/ Covers(pending.end) \/ pc[p] = "persisting"
        PROVE  Reaches(e)'
    <3>1. CASE Covers(pending.end)
      BY <2>2, <3>1 DEF Covers
    <3>2. CASE pc[p] = "persisting"
      BY <2>1, <2>5, <3>2 DEF Anchored
    <3> QED
      BY <2>5, <3>1, <3>2
  <2> QED
    BY <2>1, <2>3, <2>4, <2>5, ClearedBy
<1>3. KeptInv /\ [PrefixNext]_vars => [Kept]_vars
  BY <1>2
<1> HIDE DEF Kept
<1>4. PrefixSpec => [][Kept]_vars
  BY <1>1, <1>3, KeptInvKept, PTL DEF PrefixSpec
<1> QED
  BY <1>4 DEF PublicationIsKept, Kept
-----------------------------------------------------------------------------
(* Nothing unsummarised is hidden, while recomps promote no shorter history. *)

\* Whatever the host's marker may be moved to, the history reaches.
TargetsKnown ==
  /\ \A h \in host : h <= top
  /\ pending # None => pending.end <= top
  /\ \A p \in Processes : pc[p] \in Late /\ pass[p].pend # None => pass[p].pend.end <= top

CutInv == TypeInv /\ TargetsKnown

LEMMA TopAdvances ==
  ASSUME ~AllowShorter, TypeInv, [PrefixNext]_vars
  PROVE  /\ top <= top'
         /\ top' = top \/ UNCHANGED host
<1>1. top \in 0..MaxMessages /\ PrefixTypeOK
  BY DEF TypeInv, PrefixTypeOK
<1>2. ASSUME NEW p \in Processes, NEW e \in Messages,
             Stores(e) /\ (Publish(p, e) \/ AwaitRun(p, e))
      PROVE  top <= top' /\ UNCHANGED host
  <2>1. e > top /\ top' = e
    BY <1>2 DEF Stores
  <2>2. UNCHANGED host
    BY <1>2 DEF Publish, AwaitRun
  <2> QED
    BY <1>1, <2>1, <2>2
<1>3. ASSUME NEW p \in Processes, RecompPromotes(p)
      PROVE  top <= top' /\ UNCHANGED host
  <2>1. PICK e : (AllowShorter \/ e >= top) /\ top' = e
    BY <1>3, Zenon DEF RecompPromotes
  <2>2. e >= top
    BY <2>1, Zenon
  <2>3. UNCHANGED host
    BY <1>3 DEF RecompPromotes, markers
  <2> QED
    BY <1>1, <2>1, <2>2, <2>3
<1> QED
  BY <1>1, <1>2, <1>3, EndsStay

LEMMA PendingKnown ==
  ASSUME TypeInv, [PrefixNext]_vars
  PROVE  \/ pending' \in {pending, None}
         \/ pending' # None /\ pending'.end = top'
<1> USE DEF history, markers, signals, local, counters
<1>1. ASSUME NEW e \in Messages, Stores(e) PROVE pending' # None /\ pending'.end = top'
  <2>1. pending' \in Blobs /\ pending'.end = e
    BY <1>1 DEF Stores, Blobs, TypeInv, PrefixTypeOK
  <2> QED
    BY <1>1, <2>1, NoneAssumption DEF Stores
<1>2. ASSUME NEW p \in Processes, NEW e \in Messages, Publish(p, e) \/ AwaitRun(p, e)
      PROVE  Stores(e)
  BY <1>2 DEF Publish, AwaitRun
<1>3. ASSUME NEW p \in Processes, PassStep(p) \/ Refuse(p) \/ DrainFails(p)
      PROVE  pending' \in {pending, None}
  BY <1>3 DEF PassStep, Preflight, Deliver, Finish, Drain, Cut, Persist, Clear, Refuse,
              DrainFails
<1>4. ASSUME NEW p \in Processes,
             RecompPromotes(p) \/ RecompSignals(p) \/ RecompMarks(p) \/ Flush(p) \/ Crash(p)
      PROVE  pending' \in {pending, None}
  BY <1>4 DEF RecompPromotes, RecompSignals, RecompMarks, Flush, Crash
<1>5. ASSUME NEW p \in Processes, NEW inputs \in SUBSET Inputs, Begin(p, inputs)
      PROVE  pending' \in {pending, None}
  BY <1>5 DEF Begin
<1>6. CASE UNCHANGED vars
  BY <1>6 DEF vars
<1>7. CASE PrefixNext
  BY <1>1, <1>2, <1>3, <1>4, <1>5, <1>7 DEF PrefixNext, Background
<1> QED
  BY <1>6, <1>7

LEMMA CutInvKept ==
  ASSUME ~AllowShorter, CutInv, [PrefixNext]_vars
  PROVE  CutInv'
<1>1. /\ TypeInv /\ TargetsKnown /\ TypeInv' /\ PrefixTypeOK /\ PrefixTypeOK'
      /\ top <= top' /\ (top' = top \/ UNCHANGED host)
      /\ top \in Int /\ top' \in Int
  BY TypeInvKept, TopAdvances DEF CutInv, TypeInv, PrefixTypeOK
<1>2. (\A h \in host : h <= top)'
  <2>1. CASE UNCHANGED host
    BY <1>1, <2>1 DEF TargetsKnown, PrefixTypeOK
  <2>2. ASSUME NEW p \in Processes, top' = top, host' = Replaced(marker, top)
        PROVE  (\A h \in host : h <= top)'
    BY <1>1, <2>2 DEF TargetsKnown, Replaced
  <2>3. ASSUME NEW p \in Processes, top' = top, Cut(p), pass[p].pend \in Blobs,
               host' = Replaced(pass[p].mark, pass[p].pend.end)
        PROVE  (\A h \in host : h <= top)'
    <3>1. pass[p].pend.end <= top
      BY <1>1, <2>3, NoneAssumption DEF TargetsKnown, Cut, Late
    <3> QED
      BY <1>1, <2>3, <3>1 DEF TargetsKnown, Replaced
  <2> QED
    BY <1>1, <2>1, <2>2, <2>3, HostMoves
<1>3. (pending # None => pending.end <= top)'
  <2>1. pending \in Blobs \cup {None}
    BY <1>1 DEF PrefixTypeOK
  <2> QED
    BY <1>1, <2>1, PendingKnown DEF TargetsKnown, Blobs
<1>4. ASSUME NEW p \in Processes, pc'[p] \in Late, pass'[p].pend # None
      PROVE  pass'[p].pend.end <= top'
  <2>1. \/ pass'[p].pend = pending
        \/ pc[p] \in Late /\ pass'[p].pend = pass[p].pend
    BY <1>1, <1>4, Notes DEF NotesKept
  <2>2. pass'[p].pend.end <= top
    BY <1>1, <1>4, <2>1 DEF TargetsKnown
  <2>3. pass'[p].pend.end \in Int
    BY <1>1, <1>4, StepNames DEF PrefixTypeOK, Passes, Blobs, Late
  <2> QED
    BY <1>1, <2>2, <2>3
<1> QED
  BY <1>1, <1>2, <1>3, <1>4 DEF CutInv, TargetsKnown

\* The marker of the host, moved by passes and recomps of all processes in two
\* databases that commit apart, hides messages for good and only summarised ones:
\* the detailed specification implements the abstract one.
THEOREM CutRefines ==
  ASSUME ~AllowShorter
  PROVE  PrefixSpec => CutProperty
<1>1. PrefixInit => CutInv /\ Window!CutInit
  <2> SUFFICES ASSUME PrefixInit PROVE CutInv /\ Window!CutInit
    OBVIOUS
  <2>1. TypeInv
    BY TypeInit DEF TypeInv, DrainsAhead, PrefixInit
  <2>2. TargetsKnown
    BY DEF TargetsKnown, PrefixInit, Late
  <2>3. Window!CutInit
    BY DEF Window!CutInit, PrefixInit, Hidden, Summarised
  <2> QED
    BY <2>1, <2>2, <2>3 DEF CutInv
<1>2. CutInv /\ [PrefixNext]_vars => CutInv'
  BY CutInvKept
<1>3. CutInv /\ [PrefixNext]_vars => [Window!CutNext]_<<Summarised, Hidden>>
  <2> SUFFICES ASSUME CutInv, [PrefixNext]_vars PROVE Window!CutNext
    OBVIOUS
  <2>1. /\ TypeInv /\ CutInv' /\ top <= top' /\ (top' = top \/ UNCHANGED host)
        /\ top \in Int /\ top' \in Int /\ Hidden \subseteq Hidden'
    BY CutInvKept, TopAdvances, WindowAdvances DEF CutInv, TypeInv, PrefixTypeOK
  <2>2. CASE UNCHANGED host
    <3>1. Hidden' = Hidden
      BY <2>2 DEF Hidden
    <3>2. Summarised \subseteq Summarised' /\ Summarised' \subseteq Messages
      BY <2>1 DEF Summarised
    <3> QED
      BY <3>1, <3>2 DEF Window!CutNext, Window!Summarise
  <2>3. CASE top' = top
    <3>1. Summarised' = Summarised
      BY <2>3 DEF Summarised
    <3>2. ASSUME NEW m \in Hidden' PROVE m \in Summarised
      <4>1. PICK u \in Users, h \in host' : m < u /\ u <= h
        BY DEF Hidden
      <4>2. h <= top' /\ h \in Int /\ u \in Int /\ m \in Messages
        BY <2>1, <4>1 DEF CutInv, TargetsKnown, TypeInv, PrefixTypeOK, Hidden
      <4> QED
        BY <2>1, <2>3, <4>1, <4>2 DEF Summarised
    <3> QED
      BY <2>1, <3>1, <3>2 DEF Window!CutNext, Window!Hide
  <2> QED
    BY <2>1, <2>2, <2>3
<1> QED
  BY <1>1, <1>2, <1>3, PTL DEF PrefixSpec, CutProperty, Window!CutSpec
-----------------------------------------------------------------------------
(* The stored pair reaches what is hidden, while recomps promote no shorter  *)
(* history.                                                                  *)

\* The history reaches n, and so does the stored pair if there is one.
Told(n) == n <= top /\ (row # None => n <= row.upto)

SummaryTold ==
  /\ row # None => row.upto <= top
  /\ recomp # None /\ row # None => row.upto = top
  /\ \A h \in host : Told(h)
  /\ \A p \in Processes :
       pc[p] # "idle" =>
         /\ \A h \in pass[p].shown : Told(h)
         /\ pass[p].out # None => Told(pass[p].out.bound)
         /\ pc[p] \in Late => pass[p].out # None
         /\ pc[p] \in {"cutting", "persisting"} => Told(pass[p].pend.end)

ToldInv == TypeInv /\ SummaryTold

\* The stored pair stays, goes, or is rendered from the whole history.
RowStep == \/ row' \in {row, None}
           \/ row' # None /\ row'.upto = top

\* What an injection stores reaches the boundary of what it renders.
LEMMA InjectsTold ==
  ASSUME ToldInv, NEW p \in Processes, NEW priced \in BOOLEAN, NEW captured \in BOOLEAN,
         NEW r \in Injects(p, priced, captured), row' = r.row, UNCHANGED top
  PROVE  RowStep /\ Told(r.out.bound)'
<1>1. /\ row \in Pairs \cup {None} /\ top \in 0..MaxMessages
      /\ row # None => row.upto <= top /\ row.upto \in 0..MaxMessages
  BY DEF ToldInv, SummaryTold, TypeInv, PrefixTypeOK, Pairs
<1>2. CASE r \in Folds(p)
  <2> DEFINE new(s) == [stamp |-> s, mut |-> mutation, upto |-> top]
  <2>1. PICK s \in NewStamps :
          r = [row |-> new(s), out |-> [pair |-> new(s), bound |-> top, fresh |-> TRUE,
                                        changed |-> TRUE, contended |-> FALSE]]
    BY <1>2 DEF Folds
  <2>2. row' = new(s) /\ r.out.bound = top /\ new(s).upto = top
    BY <2>1
  <2> HIDE DEF new
  <2>3. CASE row' = None
    BY <1>1, <2>2, <2>3 DEF RowStep, Told
  <2>4. CASE row' # None
    BY <1>1, <2>2, <2>4 DEF RowStep, Told
  <2> QED
    BY <2>3, <2>4
<1>3. CASE r \in Contentions(p, captured)
  <2>1. /\ r.row = row
        /\ \/ r.out.bound \in {0} /\ 0 <= top
           \/ row # None /\ r.out.bound = row.upto
           \/ row = None /\ r.out.bound = top
    BY <1>1, <1>3 DEF Contentions, Unfolded
  <2> QED
    BY <1>1, <2>1 DEF RowStep, Told
<1>4. CASE r \in Refreshes(p)
  <2> DEFINE new == IF row.stamp = pass[p].pair.stamp THEN [row EXCEPT !.upto = top]
                    ELSE row
  <2>1. row \in Pairs /\ row # None /\ r = [row |-> new, out |-> Unfolded(p, new, new.upto, FALSE)]
    BY <1>1, <1>4 DEF Refreshes
  <2>2. /\ new.upto = row.upto \/ new.upto = top
        /\ new = row \/ new.upto = top
        /\ new \in Pairs
    BY <1>1, <2>1 DEF Pairs
  <2> HIDE DEF new
  <2>3. row' = new /\ r.out.bound = new.upto
    BY <2>1 DEF Unfolded
  <2>4. new # None
    BY <2>2, NoneAssumption
  <2>5. RowStep
    BY <2>2, <2>3, <2>4 DEF RowStep
  <2>6. new.upto <= top /\ new.upto \in 0..MaxMessages
    BY <1>1, <2>1, <2>2
  <2> QED
    BY <2>3, <2>5, <2>6 DEF Told
<1>5. CASE r \in Replays(p)
  BY <1>1, <1>5 DEF Replays, Unfolded, RowStep, Told
<1> QED
  BY <1>2, <1>3, <1>4, <1>5 DEF Injects

\* What a step makes of the locals of a pass.
Tells(p) ==
  pc'[p] # "idle" =>
    /\ pass'[p].shown = host \/ (pc[p] # "idle" /\ pass'[p].shown = pass[p].shown)
    /\ \/ pass'[p].out = None
       \/ pc[p] # "idle" /\ pass'[p].out = pass[p].out
       \/ Told(pass[p].out.bound)'
    /\ pc'[p] \in Late =>
         pass'[p].out # None \/ (pc[p] \in Late /\ pass'[p].out = pass[p].out)
    /\ pc'[p] \in {"cutting", "persisting"} =>
         \/ pc[p] \in {"cutting", "persisting"} /\ pass'[p].pend = pass[p].pend
         \/ pc[p] = "delivered" /\ Proven(p) /\ pass'[p].pend = pass[p].pend

LEMMA PreflightTells ==
  ASSUME ToldInv, NEW p \in Processes, Preflight(p)
  PROVE  /\ RowStep
         /\ \A q \in Processes : Tells(q)
<1>1. /\ pass[p] \in Passes /\ pc[p] = "prepared" /\ pc' = [pc EXCEPT ![p] = "ready"]
      /\ PrefixTypeOK /\ UNCHANGED top
  BY PassRuns DEF Preflight, ToldInv, TypeInv, history
<1>2. CASE ~PreflightDue(p)
  <2>1. pass' = [pass EXCEPT ![p].matWas = mat[p]] /\ UNCHANGED row
    BY <1>2 DEF Preflight
  <2> QED
    BY <1>1, <2>1 DEF PrefixTypeOK, Passes, Tells, RowStep, Late
<1>3. CASE PreflightDue(p)
  <2> DEFINE captured == MustFold(p) \/ Executes(p)
  <2>1. PICK r \in Injects(p, TRUE, captured) :
          /\ Writes(r.row)
          /\ pass' = [pass EXCEPT ![p].matWas = mat[p], ![p].out = r.out]
    BY <1>3 DEF Preflight
  <2>2. captured \in BOOLEAN
    BY DEF MustFold, Executes
  <2> HIDE DEF captured
  <2>3. RowStep /\ Told(r.out.bound)'
    BY <1>1, <2>1, <2>2, InjectsTold DEF Writes
  <2>4. /\ pass'[p].out = r.out /\ pass'[p].shown = pass[p].shown
        /\ \A q \in Processes \ {p} : pass'[q] = pass[q]
    BY <1>1, <2>1 DEF PrefixTypeOK, Passes
  <2>5. pass'[p].out # None => Told(pass[p].out.bound)'
    BY <2>3, <2>4 DEF Told
  <2> QED
    BY <1>1, <2>3, <2>4, <2>5 DEF PrefixTypeOK, Tells, Late
<1> QED
  BY <1>2, <1>3
LEMMA DeliverTells ==
  ASSUME ToldInv, NEW p \in Processes, Deliver(p)
  PROVE  /\ RowStep
         /\ \A q \in Processes : Tells(q)
<1>1. /\ pass[p] \in Passes /\ pc[p] = "ready" /\ PrefixTypeOK /\ UNCHANGED top
      /\ flush[p] \in BOOLEAN
  BY PassRuns DEF Deliver, ToldInv, TypeInv, PrefixTypeOK, history
<1>2. /\ pass'[p].shown = pass[p].shown
      /\ \A q \in Processes \ {p} : pass'[q] = pass[q]
      /\ pc' = [pc EXCEPT ![p] = "delivered"]
  BY <1>1, DeliverNotes
<1>3. PICK r \in IF pass[p].out # None THEN {[row |-> row, out |-> pass[p].out]}
               ELSE Injects(p, flush[p], FALSE) :
        row' = r.row /\ pass'[p].out = r.out
  BY <1>1, DeliverNotes
<1>4. /\ RowStep
      /\ pass'[p].out = pass[p].out \/ Told(pass[p].out.bound)'
      /\ pass'[p].out # None
  <2>1. CASE pass[p].out # None
    <3>1. r = [row |-> row, out |-> pass[p].out]
      BY <1>3, <2>1
    <3> QED
      BY <1>3, <2>1, <3>1 DEF RowStep
  <2>2. CASE pass[p].out = None
    <3>1. r \in Injects(p, flush[p], FALSE)
      BY <1>3, <2>2
    <3>2. RowStep /\ Told(r.out.bound)'
      BY <1>1, <1>3, <3>1, InjectsTold
    <3>3. r.out # None
      BY <1>1, <3>1, InjectsTyped, NoneAssumption, ZenonT(60)
    <3> QED
      BY <1>3, <3>2, <3>3 DEF Told
  <2> QED
    BY <2>1, <2>2
<1> QED
  BY <1>1, <1>2, <1>4 DEF PrefixTypeOK, Tells, Late

\* Every step leaves the stored pair, drops it, or renders it from the whole
\* history, and gives the passes only boundaries that are told.
LEMMA StepTells ==
  ASSUME ToldInv, [PrefixNext]_vars
  PROVE  /\ RowStep
         /\ \A q \in Processes : Tells(q)
<1> USE DEF Late, history, markers, signals, local, counters
<1>0. PrefixTypeOK
  BY DEF ToldInv, TypeInv
<1>1. CASE UNCHANGED <<pc, pass>> /\ row' \in {row, None}
  BY <1>0, <1>1 DEF Tells, RowStep
<1>2. ASSUME NEW p \in Processes, UNCHANGED row, pc' = [pc EXCEPT ![p] = "idle"],
             pass' = [pass EXCEPT ![p] = None]
      PROVE  RowStep /\ \A q \in Processes : Tells(q)
  BY <1>0, <1>2 DEF PrefixTypeOK, Tells, RowStep
<1>3. ASSUME NEW p \in Processes, NEW e \in Messages, AwaitRun(p, e)
      PROVE  RowStep /\ \A q \in Processes : Tells(q)
  <2>1. pass[p] \in Passes /\ pc[p] = "prepared" /\ UNCHANGED <<pc, row>>
    BY <1>0, <1>3, PassRuns DEF AwaitRun
  <2>2. PICK got : pass' = [pass EXCEPT ![p].awaited = TRUE, ![p].rebuilt = TRUE,
                                        ![p].from = got.from, ![p].cut = got.cut]
    BY <1>3 DEF AwaitRun
  <2>3. /\ pass'[p].out = pass[p].out /\ pass'[p].shown = pass[p].shown
        /\ \A q \in Processes \ {p} : pass'[q] = pass[q]
    BY <1>0, <2>1, <2>2 DEF PrefixTypeOK, Passes
  <2> QED
    BY <1>0, <2>1, <2>3 DEF PrefixTypeOK, Tells, RowStep
<1>4. ASSUME NEW p \in Processes, NEW inputs \in SUBSET Inputs, Begin(p, inputs)
      PROVE  RowStep /\ \A q \in Processes : Tells(q)
  <2>1. pc' = [pc EXCEPT ![p] = "prepared"] /\ UNCHANGED row
    BY <1>4 DEF Begin
  <2>2. PICK s \in Users, busting \in BOOLEAN :
          LET got == Prepare(p, busting, s, top)
          IN /\ pass' = [pass EXCEPT ![p] =
                  [inputs |-> inputs, pair |-> row, start |-> s, shown |-> host,
                   from |-> got.from, cut |-> got.cut, due |-> refresh[p],
                   explicit |-> explicit[p], rebuilt |-> busting, awaited |-> FALSE,
                   matWas |-> FALSE, out |-> None, trimmed |-> FALSE, matDone |-> FALSE,
                   pend |-> None, mark |-> 0]]
             /\ cache' = [cache EXCEPT ![p] = got.cache]
    <3>1. \A inp : (explicit[p] \/ ("execute" \in inp /\ refresh[p])) \in BOOLEAN
      OBVIOUS
    <3> QED
      BY <1>4, <3>1, Zenon DEF Begin
  <2>3. /\ pass'[p].shown = host /\ pass'[p].out = None
        /\ \A q \in Processes \ {p} : pass'[q] = pass[q]
    BY <1>0, <2>2 DEF PrefixTypeOK
  <2> QED
    BY <1>0, <2>1, <2>3 DEF PrefixTypeOK, Tells, RowStep
<1>5. ASSUME NEW p \in Processes, PassStep(p) \/ Refuse(p) \/ DrainFails(p)
      PROVE  RowStep /\ \A q \in Processes : Tells(q)
  <2>1. CASE Preflight(p) \/ Deliver(p)
    BY <2>1, PreflightTells, DeliverTells
  <2>2. CASE Finish(p) \/ Refuse(p) \/ DrainFails(p) \/ Persist(p)
    BY <1>2, <2>2 DEF Finish, Ends, Refuse, DrainFails, Persist
  <2>3. CASE Cut(p)
    BY <1>0, <2>3 DEF Cut, PrefixTypeOK, Tells, RowStep
  <2>4. CASE Drain(p)
    <3>1. CASE Ends(p, Newer(p))
      BY <1>2, <2>4, <3>1 DEF Drain, Ends
    <3>2. CASE /\ pc' = [pc EXCEPT ![p] = "cutting"]
               /\ pass' = [pass EXCEPT ![p].mark = marker]
      <4>1. pass[p] \in Passes /\ pc[p] = "delivered" /\ Proven(p) /\ UNCHANGED row
        BY <1>0, <2>4, PassRuns DEF Drain
      <4>2. /\ pass'[p].out = pass[p].out /\ pass'[p].shown = pass[p].shown
            /\ pass'[p].pend = pass[p].pend
            /\ \A q \in Processes \ {p} : pass'[q] = pass[q]
        BY <1>0, <3>2, <4>1 DEF PrefixTypeOK, Passes
      <4> QED
        BY <1>0, <3>2, <4>1, <4>2 DEF PrefixTypeOK, Tells, RowStep
    <3> QED
      BY <2>4, <3>1, <3>2 DEF Drain
  <2> QED
    BY <1>5, <2>1, <2>2, <2>3, <2>4 DEF PassStep
<1>6. ASSUME NEW p \in Processes, Background(p)
      PROVE  RowStep /\ \A q \in Processes : Tells(q)
  <2>1. CASE Crash(p)
    BY <1>2, <2>1 DEF Crash
  <2>2. CASE ~Crash(p)
    <3>1. UNCHANGED <<pc, pass>> /\ row' \in {row, None}
      BY <1>6, <2>2 DEF Background, Publish, RecompPromotes, Writes, RecompSignals, RecompMarks, Flush
    <3> QED
      BY <1>1, <3>1
  <2> QED
    BY <2>1, <2>2
<1>7. CASE UNCHANGED vars
  BY <1>1, <1>7 DEF vars
<1>8. CASE PrefixNext
  BY <1>3, <1>4, <1>5, <1>6, <1>8 DEF PrefixNext
<1> QED
  BY <1>7, <1>8
\* What is told stays told.
LEMMA ToldKept ==
  ASSUME ~AllowShorter, ToldInv, [PrefixNext]_vars, NEW n \in Int, Told(n)
  PROVE  Told(n)'
<1>1. /\ RowStep /\ top <= top' /\ top \in Int /\ top' \in Int
      /\ row' \in Pairs \cup {None}
  BY StepTells, TopAdvances, TypeInvKept DEF ToldInv, TypeInv, PrefixTypeOK
<1> QED
  BY <1>1 DEF Told, RowStep, Pairs

\* While a recomp is at work nobody else changes the history.
LEMMA RecompAlone ==
  ASSUME [PrefixNext]_vars, recomp' # None
  PROVE  row' = None \/ (recomp # None /\ UNCHANGED top)
<1> USE DEF history, markers, signals, local, counters
<1>1. ASSUME NEW p \in Processes, PassStep(p) \/ Refuse(p) \/ DrainFails(p)
      PROVE  UNCHANGED <<recomp, top>>
  BY <1>1 DEF PassStep, Preflight, Deliver, Finish, Drain, Cut, Persist, Refuse, DrainFails
<1>2. ASSUME NEW p \in Processes, RecompSignals(p) \/ RecompMarks(p) \/ Flush(p) \/ Crash(p)
      PROVE  UNCHANGED top /\ (recomp' = None \/ recomp' = recomp \/ recomp = <<p, "promoted">>)
  BY <1>2 DEF RecompSignals, RecompMarks, Flush, Crash
<1>3. ASSUME NEW p \in Processes, RecompPromotes(p) PROVE row' = None
  BY <1>3 DEF RecompPromotes, Writes
<1>4. ASSUME NEW p \in Processes, NEW e \in Messages, Publish(p, e) \/ AwaitRun(p, e)
      PROVE  FALSE
  BY <1>4 DEF Publish, AwaitRun
<1>5. ASSUME NEW p \in Processes, NEW inputs \in SUBSET Inputs, Begin(p, inputs)
      PROVE  UNCHANGED <<recomp, top>>
  BY <1>5 DEF Begin
<1>6. \A p \in Processes : <<p, "promoted">> # None
  BY NoneAssumption
<1>7. CASE UNCHANGED vars
  BY <1>7 DEF vars
<1>8. CASE PrefixNext
  BY <1>1, <1>2, <1>3, <1>4, <1>5, <1>6, <1>8 DEF PrefixNext, Background
<1> QED
  BY <1>7, <1>8

LEMMA ToldInvKept ==
  ASSUME ~AllowShorter, ToldInv, [PrefixNext]_vars
  PROVE  ToldInv'
<1>1. /\ TypeInv /\ SummaryTold /\ TypeInv' /\ PrefixTypeOK /\ PrefixTypeOK' /\ RowStep
      /\ top <= top' /\ (top' = top \/ UNCHANGED host) /\ top \in Int /\ top' \in Int
      /\ row' \in Pairs \cup {None}
      /\ \A q \in Processes : Tells(q)
      /\ \A n \in Int : Told(n) => Told(n)'
  BY TypeInvKept, TopAdvances, StepTells, ToldKept DEF ToldInv, TypeInv, PrefixTypeOK
<1>2. (row # None => row.upto <= top)'
  BY <1>1 DEF SummaryTold, RowStep, Pairs
<1>3. (recomp # None /\ row # None => row.upto = top)'
  BY <1>1, RecompAlone DEF SummaryTold, RowStep
<1>4. ASSUME NEW h \in host' PROVE Told(h)'
  <2>1. h \in Int
    BY <1>1 DEF PrefixTypeOK
  <2>2. CASE h \in host
    BY <1>1, <2>1, <2>2 DEF SummaryTold
  <2>3. ASSUME NEW p \in Processes, RecompMarks(p), h = top PROVE Told(h)'
    <3>1. recomp # None
      BY <2>3, NoneAssumption DEF RecompMarks
    <3> QED
      BY <1>1, <2>3, <3>1 DEF SummaryTold, Told
  <2>4. ASSUME NEW p \in Processes, Cut(p), h = pass[p].pend.end PROVE Told(h)'
    BY <1>1, <2>1, <2>4 DEF SummaryTold, Cut
  <2> QED
    BY <1>1, <1>4, <2>2, <2>3, <2>4, HostMoves DEF Replaced
<1>5. ASSUME NEW p \in Processes, pc'[p] # "idle"
      PROVE  /\ \A h \in pass'[p].shown : Told(h)'
             /\ pass'[p].out # None => Told(pass[p].out.bound)'
             /\ pc'[p] \in Late => pass'[p].out # None
             /\ pc'[p] \in {"cutting", "persisting"} => Told(pass[p].pend.end)'
  <2>0. Tells(p) /\ pass'[p] \in Passes
    BY <1>1, <1>5 DEF PrefixTypeOK
  <2>1. ASSUME NEW h \in pass'[p].shown PROVE Told(h)'
    <3>1. h \in Int
      BY <2>0 DEF Passes
    <3>2. Told(h)
      BY <1>1, <1>5, <2>0 DEF Tells, SummaryTold
    <3> QED
      BY <1>1, <3>1, <3>2
  <2>2. ASSUME pass'[p].out # None PROVE Told(pass[p].out.bound)'
    <3>1. CASE pc[p] # "idle" /\ pass'[p].out = pass[p].out
      <4>1. pass[p].out.bound \in Int /\ Told(pass[p].out.bound)
        BY <1>1, <2>0, <2>2, <3>1 DEF SummaryTold, Passes, Renders
      <4> QED
        BY <1>1, <3>1, <4>1 DEF Told
    <3> QED
      BY <1>5, <2>0, <2>2, <3>1 DEF Tells
  <2>3. ASSUME pc'[p] \in Late PROVE pass'[p].out # None
    BY <1>1, <1>5, <2>0, <2>3 DEF Tells, SummaryTold, Late
  <2>4. ASSUME pc'[p] \in {"cutting", "persisting"} PROVE Told(pass[p].pend.end)'
    <3>1. /\ pass'[p].pend = pass[p].pend /\ pass[p].pend.end \in Int
          /\ \/ pc[p] \in {"cutting", "persisting"}
             \/ pc[p] = "delivered" /\ Proven(p)
      BY <1>1, <1>5, <2>0, <2>4 DEF Tells, TypeInv, DrainsAhead, Passes, Blobs
    <3>2. Told(pass[p].pend.end)
      <4>1. CASE pc[p] \in {"cutting", "persisting"}
        BY <1>1, <4>1 DEF SummaryTold
      <4>2. CASE pc[p] = "delivered" /\ Proven(p)
        <5>1. pass[p] \in Passes /\ pass[p].out # None /\ Told(pass[p].out.bound)
          BY <1>1, <4>2, PassRuns DEF SummaryTold, Late
        <5>2. /\ pass[p].out.bound \in Int /\ pass[p].mark \in Int
              /\ top \in Int /\ (row # None => row.upto \in Int)
          BY <1>1, <5>1 DEF Passes, Renders, PrefixTypeOK, Pairs
        <5>3. PICK n \in {pass[p].out.bound, pass[p].mark} :
                pass[p].pend.end <= n /\ Told(n)
          BY <1>1, <4>2, <5>1 DEF Proven, SummaryTold
        <5> QED
          BY <3>1, <5>2, <5>3 DEF Told
      <4> QED
        BY <3>1, <4>1, <4>2
    <3> QED
      BY <1>1, <3>1, <3>2 DEF Told
  <2> QED
    BY <2>1, <2>2, <2>3, <2>4
<1>6. SummaryTold'
  BY <1>2, <1>3, <1>4, <1>5 DEF SummaryTold
<1> QED
  BY <1>1, <1>6 DEF ToldInv

\* Between the host's database, that hides messages, and the plugin's, whose stored
\* pair defer passes replay, no message falls: the pair reaches whatever any process
\* has hidden, also in the midst of drains, recomps, contention and restarts.
THEOREM CutSummarised ==
  ASSUME ~AllowShorter
  PROVE  PrefixSpec => []CutIsSummarised
<1>1. PrefixInit => ToldInv
  <2> SUFFICES ASSUME PrefixInit PROVE ToldInv
    OBVIOUS
  <2>1. TypeInv
    BY TypeInit DEF TypeInv, DrainsAhead, PrefixInit
  <2> QED
    BY <2>1 DEF ToldInv, SummaryTold, PrefixInit
<1>2. ToldInv /\ [PrefixNext]_vars => ToldInv'
  BY ToldInvKept
<1>3. ToldInv => CutIsSummarised
  <2> SUFFICES ASSUME ToldInv, row # None, NEW m \in Hidden PROVE m <= row.upto
    BY DEF CutIsSummarised
  <2>1. PICK u \in Users, h \in host : m < u /\ u <= h
    BY DEF Hidden
  <2>2. h <= row.upto /\ h \in Int /\ u \in Int /\ row.upto \in Int /\ m \in Int
    BY <2>1 DEF ToldInv, SummaryTold, Told, TypeInv, PrefixTypeOK, Pairs, Hidden
  <2> QED
    BY <2>1, <2>2
<1> QED
  BY <1>1, <1>2, <1>3, PTL DEF PrefixSpec

-----------------------------------------------------------------------------
(* The prompt that defer passes repeat. *)

\* A process whose last prompt showed the stored pair is in a pass, if at all, that
\* holds this pair, and whatever the pass has rendered meanwhile is this pair.
Shows(p) ==
  current[p] =>
    /\ row # None
    /\ pass[p] # None =>
         /\ pass[p].pair = row
         /\ pass[p].out # None => pass[p].out.pair = row

Rendered(p) == pc[p] \in Late => pass[p].out # None

ShowInv == TypeInv /\ \A p \in Processes : Shows(p) /\ Rendered(p)

\* Delivery renders what the preflight has, or injects now, and cuts there.
LEMMA DeliverRenders ==
  ASSUME PrefixTypeOK, NEW p \in Processes, Deliver(p)
  PROVE  /\ pass'[p].pair = pass[p].pair
         /\ \E r \in IF pass[p].out # None THEN {[row |-> row, out |-> pass[p].out]}
                    ELSE Injects(p, flush[p], FALSE) :
              /\ Writes(r.row) /\ pass'[p].out = r.out
              /\ pass'[p].from = IF r.out.bound < pass[p].from THEN pass[p].from
                                 ELSE r.out.bound + 1
<1> DEFINE wanted == pass[p].matWas /\ Consumes(p)
           priced(out) == \/ flush[p]
                          \/ pass[p].out # None /\ ~out.contended /\ (out.changed \/ wanted)
                          \/ out.pair.stamp = Unsaved
           cutAt(out) == IF out.bound < pass[p].from THEN pass[p].from ELSE out.bound + 1
           raw(out) == [pass EXCEPT
                          ![p].out = out,
                          ![p].from = IF out.bound < @ THEN @ ELSE out.bound + 1,
                          ![p].trimmed = out.bound # 0 /\ out.bound >= pass[p].start,
                          ![p].matDone = priced(out) /\ (flush[p] \/ wanted),
                          ![p].pend = pending,
                          ![p].mark = marker]
           Choices == IF pass[p].out # None THEN {[row |-> row, out |-> pass[p].out]}
                      ELSE Injects(p, flush[p], FALSE)
<1>1. PICK r \in Choices :
        /\ Writes(r.row)
        /\ pass' = raw(r.out)
        /\ cache' = IF r.out.fresh \/ (priced(r.out) /\ ~r.out.contended)
                    THEN [cache EXCEPT ![p] = None] ELSE cache
        /\ faults' = IF pass[p].out = None /\ r.out.contended THEN faults + 1 ELSE faults
  BY DEF Deliver
<1>2. pass[p] \in Passes
  BY PassRuns DEF Deliver
<1>3. \E t, d :
        pass' = [pass EXCEPT ![p].out = r.out, ![p].from = cutAt(r.out), ![p].trimmed = t,
                             ![p].matDone = d, ![p].pend = pending, ![p].mark = marker]
  <2> HIDE DEF priced, wanted
  <2> QED BY <1>1, ZenonT(60)
<1>4. PICK t, d :
        pass' = [pass EXCEPT ![p].out = r.out, ![p].from = cutAt(r.out), ![p].trimmed = t,
                             ![p].matDone = d, ![p].pend = pending, ![p].mark = marker]
  BY <1>3
<1> HIDE DEF priced, wanted, raw, cutAt
<1>5. /\ pass'[p].pair = pass[p].pair /\ pass'[p].out = r.out
      /\ pass'[p].from = cutAt(r.out)
  BY <1>2, <1>4 DEF PrefixTypeOK, Passes
<1> QED
  BY <1>1, <1>5 DEF cutAt

\* A stamp that is new differs from the stamp of the stored pair.
LEMMA NewStampsAreNew ==
  ASSUME row # None, NEW s \in NewStamps PROVE s # row.stamp
BY DEF NewStamps

\* What an injection leaves stored is what it renders, where the pass held the
\* stored pair.
LEMMA InjectsStored ==
  ASSUME PrefixTypeOK, NEW p \in Processes, row # None, pass[p].pair = row,
         NEW priced \in BOOLEAN, NEW captured \in BOOLEAN,
         NEW r \in Injects(p, priced, captured), r.row = row
  PROVE  r.out.pair = row
<1>1. row \in Pairs
  BY DEF PrefixTypeOK
<1>2. CASE r \in Folds(p)
  <2>1. PICK s \in NewStamps : r.row = [stamp |-> s, mut |-> mutation, upto |-> top]
    BY <1>2 DEF Folds
  <2>2. row.stamp = s
    BY <2>1
  <2> QED
    BY <2>2, NewStampsAreNew
<1>3. CASE r \in Contentions(p, captured)
  BY <1>1, <1>3, NoneAssumption DEF Contentions, Unfolded
<1>4. CASE r \in Refreshes(p)
  <2> DEFINE new == IF row.stamp = pass[p].pair.stamp THEN [row EXCEPT !.upto = top]
                    ELSE row
  <2>1. r = [row |-> new, out |-> Unfolded(p, new, new.upto, FALSE)]
    BY <1>4 DEF Refreshes
  <2> HIDE DEF new
  <2>2. r.row = new /\ r.out.pair = new
    BY <2>1 DEF Unfolded
  <2> QED
    BY <2>2
<1>5. CASE r \in Replays(p)
  BY <1>5 DEF Replays, Unfolded
<1> QED
  BY <1>2, <1>3, <1>4, <1>5 DEF Injects

\* A pass that renders what an injection gave keeps the invariant.
LEMMA RenderShows ==
  ASSUME ShowInv, PrefixTypeOK', NEW p \in Processes, pass[p] \in Passes,
         NEW r, Writes(r.row), pass'[p].pair = pass[p].pair, pass'[p].out = r.out,
         \A q \in Processes \ {p} : pass'[q] = pass[q],
         pass'[p] # None,
         \/ pass[p].out # None /\ r = [row |-> row, out |-> pass[p].out]
         \/ \E priced, captured \in BOOLEAN : r \in Injects(p, priced, captured)
  PROVE  \A q \in Processes : Shows(q)'
<1>1. PrefixTypeOK /\ \A q \in Processes : Shows(q)
  BY DEF ShowInv, TypeInv
<1>2. SUFFICES ASSUME NEW q \in Processes, current'[q] PROVE Shows(q)'
  BY DEF Shows
<1>3. current[q] /\ row' = row /\ r.row = row
  BY <1>1, <1>2 DEF Writes, PrefixTypeOK
<1>4. row # None
  BY <1>1, <1>3 DEF Shows
<1>5. CASE q # p
  BY <1>1, <1>3, <1>5 DEF Shows
<1>6. CASE q = p
  <2>1. pass[p].pair = row
    BY <1>1, <1>3, <1>6, NoneAssumption DEF Shows
  <2>2. r.out.pair = row
    <3>1. CASE pass[p].out # None /\ r = [row |-> row, out |-> pass[p].out]
      BY <1>1, <1>3, <1>6, <3>1, NoneAssumption DEF Shows
    <3>2. ASSUME NEW priced \in BOOLEAN, NEW captured \in BOOLEAN,
                 r \in Injects(p, priced, captured)
          PROVE  r.out.pair = row
      BY <1>1, <1>3, <1>4, <2>1, <3>2, InjectsStored
    <3> QED
      BY <3>1, <3>2
  <2> QED
    BY <1>3, <1>4, <1>6, <2>1, <2>2 DEF Shows
<1> QED
  BY <1>5, <1>6

\* A step that writes no pair and gives no pass another one keeps the invariant.
LEMMA QuietShows ==
  ASSUME ShowInv, UNCHANGED row,
         \A q \in Processes :
           /\ current'[q] => current[q] \/ (pass'[q] = None /\ row # None)
           /\ pass'[q] # None =>
                /\ pass'[q].pair = row \/ (pass[q] # None /\ pass'[q].pair = pass[q].pair)
                /\ pass'[q].out = None \/ (pass[q] # None /\ pass'[q].out = pass[q].out)
  PROVE  \A q \in Processes : Shows(q)'
BY DEF ShowInv, Shows

LEMMA RenderedKept ==
  ASSUME ShowInv, [PrefixNext]_vars
  PROVE  \A q \in Processes : Rendered(q)'
<1> USE DEF Rendered, Late, history, markers, signals, local, counters
<1>1. PrefixTypeOK /\ \A q \in Processes : Rendered(q)
  BY DEF ShowInv, TypeInv
<1>2. CASE UNCHANGED <<pc, pass>>
  BY <1>1, <1>2
<1>3. ASSUME NEW p \in Processes, NEW step \in {"idle", "prepared", "ready"},
             pc' = [pc EXCEPT ![p] = step],
             \A q \in Processes \ {p} : pass'[q] = pass[q]
      PROVE  \A q \in Processes : Rendered(q)'
  BY <1>1, <1>3 DEF PrefixTypeOK
<1>4. ASSUME NEW p \in Processes, NEW e \in Messages, AwaitRun(p, e)
      PROVE  \A q \in Processes : Rendered(q)'
  BY <1>1, <1>4 DEF AwaitRun, PrefixTypeOK
<1>5. ASSUME NEW p \in Processes, NEW inputs \in SUBSET Inputs, Begin(p, inputs)
      PROVE  \A q \in Processes : Rendered(q)'
  <2>1. pc' = [pc EXCEPT ![p] = "prepared"] /\ \A q \in Processes \ {p} : pass'[q] = pass[q]
    BY <1>1, <1>5 DEF Begin, PrefixTypeOK
  <2> QED
    BY <1>3, <2>1
<1>6. ASSUME NEW p \in Processes, PassStep(p) \/ Refuse(p) \/ DrainFails(p)
      PROVE  \A q \in Processes : Rendered(q)'
  <2>1. CASE Preflight(p)
    BY <1>1, <1>3, <2>1 DEF Preflight, PrefixTypeOK
  <2>2. CASE Deliver(p)
    <3>1. /\ pass[p] \in Passes /\ flush[p] \in BOOLEAN
          /\ pc' = [pc EXCEPT ![p] = "delivered"]
          /\ \A q \in Processes \ {p} : pass'[q] = pass[q]
      BY <1>1, <2>2, PassRuns, DeliverNotes DEF Deliver, PrefixTypeOK
    <3>2. PICK r \in IF pass[p].out # None THEN {[row |-> row, out |-> pass[p].out]}
                     ELSE Injects(p, flush[p], FALSE) :
            pass'[p].out = r.out
      BY <1>1, <2>2, DeliverRenders
    <3>3. r.out # None
      <4>1. CASE pass[p].out # None
        BY <3>2, <4>1
      <4>2. CASE pass[p].out = None
        <5>1. r \in Injects(p, flush[p], FALSE)
          BY <3>2, <4>2
        <5>2. r.out \in Renders
          BY <1>1, <3>1, <5>1, InjectsTyped
        <5> QED
          BY <5>2, NoneAssumption
      <4> QED
        BY <4>1, <4>2
    <3> QED
      BY <1>1, <3>1, <3>2, <3>3 DEF PrefixTypeOK
  <2>3. CASE Finish(p) \/ Refuse(p) \/ DrainFails(p) \/ Persist(p)
    BY <1>1, <1>3, <2>3 DEF Finish, Ends, Refuse, DrainFails, Persist, PrefixTypeOK
  <2>4. CASE Cut(p)
    BY <1>1, <2>4 DEF Cut, PrefixTypeOK
  <2>5. CASE Drain(p)
    <3>1. CASE Ends(p, Newer(p))
      BY <1>1, <1>3, <3>1 DEF Ends, PrefixTypeOK
    <3>2. CASE /\ pc' = [pc EXCEPT ![p] = "cutting"]
               /\ pass' = [pass EXCEPT ![p].mark = marker]
      <4>1. pass[p] \in Passes /\ pc[p] = "delivered"
        BY <1>1, <2>5, PassRuns DEF Drain
      <4>2. pass'[p].out = pass[p].out
        BY <1>1, <3>2, <4>1 DEF PrefixTypeOK, Passes
      <4> QED
        BY <1>1, <3>2, <4>1, <4>2 DEF PrefixTypeOK
    <3> QED
      BY <2>5, <3>1, <3>2 DEF Drain
  <2> QED
    BY <1>6, <2>1, <2>2, <2>3, <2>4, <2>5 DEF PassStep
<1>7. ASSUME NEW p \in Processes, Background(p)
      PROVE  \A q \in Processes : Rendered(q)'
  <2>1. CASE Crash(p)
    BY <1>1, <1>3, <2>1 DEF Crash, PrefixTypeOK
  <2>2. CASE ~Crash(p)
    <3>1. UNCHANGED <<pc, pass>>
      BY <1>7, <2>2 DEF Background, Publish, RecompPromotes, RecompSignals, RecompMarks, Flush
    <3> QED
      BY <1>2, <3>1
  <2> QED
    BY <2>1, <2>2
<1>8. CASE UNCHANGED vars
  BY <1>2, <1>8 DEF vars
<1>9. CASE PrefixNext
  BY <1>4, <1>5, <1>6, <1>7, <1>9 DEF PrefixNext
<1> QED
  BY <1>8, <1>9

\* The prompt goes out: it shows the stored pair if that is what it rendered.
LEMMA EndsShows ==
  ASSUME ShowInv, NEW p \in Processes, pc[p] \in Late, NEW keep, Ends(p, keep), UNCHANGED row
  PROVE  \A q \in Processes : Shows(q)'
<1>1. /\ PrefixTypeOK /\ pass[p] \in Passes /\ pass[p].out # None
      /\ pass' = [pass EXCEPT ![p] = None]
      /\ current' = [current EXCEPT ![p] = pass[p].out.pair = row]
  BY PassRuns DEF ShowInv, TypeInv, Rendered, Late, Ends
<1>2. pass[p].out.pair # None
  BY <1>1, NoneAssumption DEF Passes, Renders
<1> QED
  BY <1>1, <1>2, QuietShows DEF PrefixTypeOK

LEMMA ShowsKept ==
  ASSUME ShowInv, [PrefixNext]_vars
  PROVE  \A q \in Processes : Shows(q)'
<1> USE DEF history, markers, signals, local, counters
<1>1. PrefixTypeOK /\ PrefixTypeOK' /\ \A q \in Processes : Shows(q)
  BY TypeInvKept DEF ShowInv, TypeInv
<1>2. CASE UNCHANGED <<row, pass, current>>
  BY <1>1, <1>2, QuietShows DEF PrefixTypeOK
<1>3. ASSUME NEW p \in Processes, UNCHANGED <<row, current>>, pass' = [pass EXCEPT ![p] = None]
      PROVE  \A q \in Processes : Shows(q)'
  BY <1>1, <1>3, QuietShows DEF PrefixTypeOK
<1>4. ASSUME NEW p \in Processes, UNCHANGED <<row, current>>, pass'[p] # None, pass[p] \in Passes,
             pass'[p].pair = pass[p].pair, pass'[p].out = pass[p].out,
             \A q \in Processes \ {p} : pass'[q] = pass[q]
      PROVE  \A q \in Processes : Shows(q)'
  <2>1. ASSUME NEW q \in Processes, pass'[q] # None
        PROVE  /\ pass[q] # None /\ pass'[q].pair = pass[q].pair
               /\ pass'[q].out = pass[q].out
    BY <1>4, <2>1, NoneAssumption
  <2> QED
    BY <1>4, <2>1, QuietShows
<1>5. ASSUME NEW p \in Processes, NEW e \in Messages, AwaitRun(p, e)
      PROVE  \A q \in Processes : Shows(q)'
  <2>1. pass[p] \in Passes /\ pc[p] = "prepared" /\ UNCHANGED <<row, current, pc>>
    BY <1>1, <1>5, PassRuns DEF AwaitRun
  <2>2. PICK got : pass' = [pass EXCEPT ![p].awaited = TRUE, ![p].rebuilt = TRUE,
                                        ![p].from = got.from, ![p].cut = got.cut]
    BY <1>5 DEF AwaitRun
  <2>3. /\ pass'[p].out = pass[p].out /\ pass'[p].pair = pass[p].pair
        /\ \A q \in Processes \ {p} : pass'[q] = pass[q]
    BY <1>1, <2>1, <2>2 DEF PrefixTypeOK, Passes
  <2>4. pass'[p] # None
    BY <1>1, <2>1 DEF PrefixTypeOK
  <2> QED
    BY <1>4, <2>1, <2>3, <2>4
<1>6. ASSUME NEW p \in Processes, NEW inputs \in SUBSET Inputs, Begin(p, inputs)
      PROVE  \A q \in Processes : Shows(q)'
  <2>1. UNCHANGED <<row, current>>
    BY <1>6 DEF Begin
  <2>2. PICK s \in Users, busting \in BOOLEAN :
          LET got == Prepare(p, busting, s, top)
          IN /\ pass' = [pass EXCEPT ![p] =
                  [inputs |-> inputs, pair |-> row, start |-> s, shown |-> host,
                   from |-> got.from, cut |-> got.cut, due |-> refresh[p],
                   explicit |-> explicit[p], rebuilt |-> busting, awaited |-> FALSE,
                   matWas |-> FALSE, out |-> None, trimmed |-> FALSE, matDone |-> FALSE,
                   pend |-> None, mark |-> 0]]
             /\ cache' = [cache EXCEPT ![p] = got.cache]
    <3>1. \A inp : (explicit[p] \/ ("execute" \in inp /\ refresh[p])) \in BOOLEAN
      OBVIOUS
    <3> QED
      BY <1>6, <3>1, Zenon DEF Begin
  <2>3. /\ pass'[p].pair = row /\ pass'[p].out = None
        /\ \A q \in Processes \ {p} : pass'[q] = pass[q]
    BY <1>1, <2>2 DEF PrefixTypeOK
  <2> QED
    BY <2>1, <2>3, QuietShows
<1>7. ASSUME NEW p \in Processes, Preflight(p)
      PROVE  \A q \in Processes : Shows(q)'
  <2>1. /\ pass[p] \in Passes /\ pc[p] = "prepared" /\ pc' = [pc EXCEPT ![p] = "ready"]
    BY <1>1, <1>7, PassRuns DEF Preflight
  <2>2. pass'[p] # None
    BY <1>1, <2>1 DEF PrefixTypeOK
  <2>3. CASE ~PreflightDue(p)
    <3>1. pass' = [pass EXCEPT ![p].matWas = mat[p]] /\ UNCHANGED <<row, current>>
      BY <1>7, <2>3 DEF Preflight
    <3>2. /\ pass'[p].out = pass[p].out /\ pass'[p].pair = pass[p].pair
          /\ \A q \in Processes \ {p} : pass'[q] = pass[q]
      BY <1>1, <2>1, <3>1 DEF PrefixTypeOK, Passes
    <3> QED
      BY <1>4, <2>1, <2>2, <3>1, <3>2
  <2>4. CASE PreflightDue(p)
    <3> DEFINE captured == MustFold(p) \/ Executes(p)
    <3>1. PICK r \in Injects(p, TRUE, captured) :
            /\ Writes(r.row)
            /\ pass' = [pass EXCEPT ![p].matWas = mat[p], ![p].out = r.out]
      BY <1>7, <2>4 DEF Preflight
    <3>2. captured \in BOOLEAN
      BY DEF MustFold, Executes
    <3> HIDE DEF captured
    <3>3. /\ pass'[p].out = r.out /\ pass'[p].pair = pass[p].pair
          /\ \A q \in Processes \ {p} : pass'[q] = pass[q]
      BY <1>1, <2>1, <3>1 DEF PrefixTypeOK, Passes
    <3> QED
      BY <1>1, <2>1, <2>2, <3>1, <3>2, <3>3, RenderShows
  <2> QED
    BY <2>3, <2>4
<1>8. ASSUME NEW p \in Processes, Deliver(p)
      PROVE  \A q \in Processes : Shows(q)'
  <2>0. /\ pc' = [pc EXCEPT ![p] = "delivered"]
        /\ \A q \in Processes \ {p} : pass'[q] = pass[q]
    BY <1>1, <1>8, DeliverNotes
  <2>1. /\ pass[p] \in Passes /\ pc[p] = "ready" /\ flush[p] \in BOOLEAN
        /\ pc' = [pc EXCEPT ![p] = "delivered"]
        /\ \A q \in Processes \ {p} : pass'[q] = pass[q]
    BY <1>1, <1>8, <2>0, PassRuns DEF Deliver, PrefixTypeOK
  <2>2. pass'[p] # None
    BY <1>1, <2>1 DEF PrefixTypeOK
  <2>3. pass'[p].pair = pass[p].pair
    BY <1>1, <1>8, DeliverRenders
  <2>4. PICK r \in IF pass[p].out # None THEN {[row |-> row, out |-> pass[p].out]}
                   ELSE Injects(p, flush[p], FALSE) :
          Writes(r.row) /\ pass'[p].out = r.out
    BY <1>1, <1>8, DeliverRenders
  <2>5. \/ pass[p].out # None /\ r = [row |-> row, out |-> pass[p].out]
        \/ \E priced, captured \in BOOLEAN : r \in Injects(p, priced, captured)
    BY <2>1, <2>4
  <2> QED
    BY <1>1, <2>1, <2>2, <2>3, <2>4, <2>5, RenderShows
<1>9. ASSUME NEW p \in Processes, Finish(p) \/ Drain(p) \/ Cut(p) \/ Persist(p)
      PROVE  \A q \in Processes : Shows(q)'
  <2>1. pass[p] \in Passes /\ pc[p] \in Late /\ UNCHANGED row
    BY <1>1, <1>9, PassRuns DEF Finish, Drain, Cut, Persist, Late
  <2>2. ASSUME NEW keep, Ends(p, keep) PROVE \A q \in Processes : Shows(q)'
    BY <2>1, <2>2, EndsShows
  <2>3. CASE Finish(p) \/ Persist(p)
    BY <2>2, <2>3 DEF Finish, Persist
  <2>4. CASE Cut(p)
    BY <1>2, <2>1, <2>4 DEF Cut
  <2>5. CASE Drain(p)
    <3>1. CASE Ends(p, Newer(p))
      BY <2>2, <3>1
    <3>2. CASE /\ pc' = [pc EXCEPT ![p] = "cutting"]
               /\ pass' = [pass EXCEPT ![p].mark = marker]
               /\ UNCHANGED current
      <4>1. /\ pass'[p].out = pass[p].out /\ pass'[p].pair = pass[p].pair
            /\ \A q \in Processes \ {p} : pass'[q] = pass[q]
        BY <1>1, <2>1, <3>2 DEF PrefixTypeOK, Passes
      <4>2. pass'[p] # None
        BY <1>1, <2>1, <3>2 DEF PrefixTypeOK
      <4> QED
        BY <1>4, <2>1, <3>2, <4>1, <4>2
    <3> QED
      BY <2>5, <3>1, <3>2 DEF Drain
  <2> QED
    BY <1>9, <2>3, <2>4, <2>5
<1>10. ASSUME NEW p \in Processes, Refuse(p) \/ DrainFails(p) \/ Crash(p)
       PROVE  \A q \in Processes : Shows(q)'
  BY <1>3, <1>10 DEF Refuse, DrainFails, Crash
<1>11. ASSUME NEW p \in Processes, RecompPromotes(p)
       PROVE  \A q \in Processes : Shows(q)'
  BY <1>1, <1>11 DEF RecompPromotes, Writes, Shows, PrefixTypeOK
<1>12. ASSUME NEW p \in Processes, Background(p), ~RecompPromotes(p), ~Crash(p)
       PROVE  \A q \in Processes : Shows(q)'
  <2>1. UNCHANGED <<row, pass, current>>
    BY <1>12 DEF Background, Publish, RecompSignals, RecompMarks, Flush
  <2> QED
    BY <1>2, <2>1
<1>13. CASE UNCHANGED vars
  BY <1>2, <1>13 DEF vars
<1>14. CASE PrefixNext
  BY <1>5, <1>6, <1>7, <1>8, <1>9, <1>10, <1>11, <1>12, <1>14 DEF PrefixNext, PassStep
<1> QED
  BY <1>13, <1>14

\* A calm pass renders what it holds and stores nothing.
LEMMA CalmStores ==
  ASSUME ShowInv, NEW p \in Processes, Calm(p),
         Preflight(p) \/ Deliver(p)
  PROVE  current' = current
<1>1. /\ PrefixTypeOK /\ pass[p] \in Passes /\ current \in [Processes -> BOOLEAN]
  BY PassRuns DEF ShowInv, TypeInv, PrefixTypeOK, Preflight, Deliver
<1>2. /\ ~flush[p] /\ pass[p].inputs = {} /\ ~pass[p].awaited
      /\ ~MustFold(p)
  BY <1>1, NoneAssumption DEF Calm, MustFold
<1>3. ~PreflightDue(p)
  BY <1>2 DEF PreflightDue, Executes
<1>4. CASE Preflight(p)
  BY <1>3, <1>4 DEF Preflight
<1>5. CASE Deliver(p)
  <2>1. PICK r \in IF pass[p].out # None THEN {[row |-> row, out |-> pass[p].out]}
                   ELSE Injects(p, flush[p], FALSE) :
          Writes(r.row)
    BY <1>1, <1>5, DeliverRenders
  <2>2. r.row = row
    <3>1. CASE pass[p].out # None
      BY <2>1, <3>1
    <3>2. CASE pass[p].out = None
      <4>1. r \in Replays(p)
        BY <1>2, <2>1, <3>2 DEF Injects
      <4> QED
        BY <4>1 DEF Replays
    <3> QED
      BY <3>1, <3>2
  <2> QED
    BY <1>1, <2>1, <2>2 DEF Writes
<1> QED
  BY <1>4, <1>5

\* The provider's cache keeps its value: while no pass finds a reason of its own to
\* render, and no recomp promotes, whatever is published, drained, refused or
\* restarted, in any number of processes, a prompt that showed the stored pair still
\* does.
THEOREM CalmPassesAreStable == PrefixSpec => DeferPassesAreStable
<1> DEFINE Stable == (\A p \in Processes : Calm(p)) /\ recomp' = recomp
                     => \A p \in Processes : current[p] => current'[p]
<1>1. PrefixInit => ShowInv
  <2> SUFFICES ASSUME PrefixInit PROVE ShowInv
    OBVIOUS
  <2>1. TypeInv
    BY TypeInit DEF TypeInv, DrainsAhead, PrefixInit
  <2> QED
    BY <2>1 DEF ShowInv, Shows, Rendered, Late, PrefixInit
<1>2. ShowInv /\ [PrefixNext]_vars => ShowInv'
  BY TypeInvKept, ShowsKept, RenderedKept DEF ShowInv
<1>3. ShowInv /\ [PrefixNext]_vars => Stable
  <2> SUFFICES ASSUME ShowInv, [PrefixNext]_vars, \A p \in Processes : Calm(p),
                      recomp' = recomp, NEW q \in Processes, current[q]
               PROVE  current'[q]
    OBVIOUS
  <2> USE DEF history, markers, signals, local, counters
  <2>1. PrefixTypeOK /\ Shows(q)
    BY DEF ShowInv, TypeInv
  <2>2. ASSUME NEW p \in Processes, NEW keep, pc[p] \in Late, Ends(p, keep) PROVE current'[q]
    <3>1. pass[p] # None /\ pass[p].out # None
      BY <2>1, <2>2, PassRuns, NoneAssumption DEF ShowInv, Rendered, Late
    <3>2. current' = [current EXCEPT ![p] = pass[p].out.pair = row]
      BY <2>2 DEF Ends
    <3> QED
      BY <2>1, <3>1, <3>2 DEF Shows, PrefixTypeOK
  <2>3. ASSUME NEW p \in Processes, PassStep(p) \/ Refuse(p) \/ DrainFails(p) PROVE current'[q]
    <3>1. CASE Preflight(p) \/ Deliver(p)
      BY <3>1, CalmStores
    <3>2. CASE Finish(p) \/ Drain(p) \/ Persist(p)
      BY <2>2, <3>2 DEF Finish, Drain, Persist, Late
    <3>3. CASE Cut(p) \/ Refuse(p) \/ DrainFails(p)
      BY <3>3 DEF Cut, Refuse, DrainFails
    <3> QED
      BY <2>3, <3>1, <3>2, <3>3 DEF PassStep
  <2>4. ASSUME NEW p \in Processes, Background(p) PROVE current'[q]
    <3>1. ~RecompPromotes(p)
      BY NoneAssumption DEF RecompPromotes
    <3> QED
      BY <2>4, <3>1 DEF Background, Publish, RecompSignals, RecompMarks, Flush, Crash
  <2>5. ASSUME NEW p \in Processes, NEW inputs \in SUBSET Inputs, Begin(p, inputs)
        PROVE  current'[q]
    BY <2>5 DEF Begin
  <2>6. ASSUME NEW p \in Processes, NEW e \in Messages, AwaitRun(p, e) PROVE current'[q]
    BY <2>6 DEF AwaitRun
  <2>7. CASE UNCHANGED vars
    BY <2>7 DEF vars
  <2>8. CASE PrefixNext
    BY <2>3, <2>4, <2>5, <2>6, <2>8 DEF PrefixNext
  <2> QED
    BY <2>7, <2>8
<1>4. ShowInv /\ [PrefixNext]_vars => [Stable]_vars
  BY <1>3
<1> HIDE DEF Stable
<1>5. PrefixSpec => [][Stable]_vars
  BY <1>1, <1>2, <1>4, PTL DEF PrefixSpec
<1> QED
  BY <1>5 DEF DeferPassesAreStable, Stable

-----------------------------------------------------------------------------
(* Every message is served once, where one process has the session open.  (A *)
(* sibling that stores a pair between the reads of a pass breaks this.)       *)

\* What a pass has cut so far, and would cut again, the stored pair tells: what it
\* renders in the end reaches that far, and it holds the pair that is stored, or has
\* to fold.
Serves(p) ==
  /\ cache[p] # None => Told(cache[p].cut)
  /\ pc[p] # "idle" =>
       /\ pass[p].pair # None => pass[p].pair.mut <= mutation
       /\ pc[p] = "prepared" => pass[p].out = None
       /\ pc[p] \in {"prepared", "ready"} =>
            /\ Told(pass[p].from - 1)
            /\ pass[p].out = None =>
                 \/ row = pass[p].pair
                 \/ row = None /\ (pass[p].pair # None => pass[p].pair.mut < mutation)
       /\ pc[p] = "ready" /\ pass[p].out # None =>
            /\ pass[p].out.bound = pass[p].out.pair.upto
            /\ pass[p].from - 1 <= pass[p].out.bound
       /\ pc[p] \in Late => pass[p].from = pass[p].out.pair.upto + 1

RowKnown == row # None => row.mut <= mutation

ServeInv == ToldInv /\ RowKnown /\ \A p \in Processes : Serves(p)

\* What is prepared from a told window is told, when the history ends at last.
LEMMA PrepareTells ==
  ASSUME PrefixTypeOK, NEW p \in Processes, NEW busting \in BOOLEAN,
         NEW from \in Nat \ {0}, NEW last \in 0..MaxMessages,
         row # None => row.upto <= last /\ from - 1 <= row.upto, from - 1 <= last,
         cache[p] # None => cache[p].cut <= last /\ (row # None => cache[p].cut <= row.upto)
  PROVE  /\ Prepare(p, busting, from, last).from - 1 <= last
         /\ row # None => Prepare(p, busting, from, last).from - 1 <= row.upto
         /\ Prepare(p, busting, from, last).cache # None =>
              /\ Prepare(p, busting, from, last).cache.cut <= last
              /\ row # None => Prepare(p, busting, from, last).cache.cut <= row.upto
<1>1. /\ row # None => row.upto \in 0..MaxMessages
      /\ cache[p] # None => cache[p] \in Cuts /\ cache[p].cut \in 0..MaxMessages
  BY DEF PrefixTypeOK, Pairs, Cuts
<1> DEFINE target == IF row # None THEN row.upto ELSE last
           after(n) == IF n # 0 /\ n >= from THEN n + 1 ELSE from
           found == [cut |-> IF target < from THEN 0 ELSE target, end |-> last]
<1>2. CASE ~busting /\ cache[p] # None
  <2>1. /\ Prepare(p, busting, from, last).from = after(cache[p].cut)
        /\ Prepare(p, busting, from, last).cache = cache[p]
    BY <1>2 DEF Prepare
  <2> QED
    BY <1>1, <1>2, <2>1
<1>3. CASE ~(~busting /\ cache[p] # None)
  <2>1. /\ Prepare(p, busting, from, last).from = after(target)
        /\ Prepare(p, busting, from, last).cache \in {None, found}
    BY <1>3 DEF Prepare
  <2>2. target \in 0..MaxMessages /\ target <= last /\ (row # None => target <= row.upto)
    BY <1>1
  <2>3. found.cut \in {0, target}
    BY <2>2
  <2> HIDE DEF target
  <2>4. after(target) - 1 <= last /\ (row # None => after(target) - 1 <= row.upto)
    BY <1>1, <2>2
  <2> HIDE DEF found, after
  <2> QED
    BY <1>1, <2>1, <2>2, <2>3, <2>4
<1> QED
  BY <1>2, <1>3

\* Alone, a pass that holds the stored pair, or has to fold, renders up to the end of
\* the pair it shows.
LEMMA InjectsServed ==
  ASSUME ToldInv, RowKnown, NEW p \in Processes, Processes = {p}, pass[p] \in Passes,
         NEW n \in Int, Told(n),
         \/ row = pass[p].pair
         \/ row = None /\ (pass[p].pair # None => pass[p].pair.mut < mutation),
         NEW priced \in BOOLEAN, NEW captured \in BOOLEAN,
         NEW r \in Injects(p, priced, captured)
  PROVE  /\ r.out.bound = r.out.pair.upto /\ n <= r.out.bound
         /\ r.row # None => r.row.mut <= mutation
<1>1. /\ row \in Pairs \cup {None} /\ top \in Int /\ mutation \in Int
      /\ pass[p].pair \in Pairs \cup {None}
      /\ n <= top /\ (row # None => n <= row.upto /\ row.mut <= mutation)
      /\ \A pair \in Pairs : pair.mut \in Int
  BY DEF ToldInv, TypeInv, PrefixTypeOK, Passes, Told, RowKnown, Pairs
<1>2. CASE r \in Folds(p)
  <2> DEFINE new(s) == [stamp |-> s, mut |-> mutation, upto |-> top]
  <2>1. PICK s \in NewStamps :
          r = [row |-> new(s), out |-> [pair |-> new(s), bound |-> top, fresh |-> TRUE,
                                        changed |-> TRUE, contended |-> FALSE]]
    BY <1>2 DEF Folds
  <2>2. /\ r.row = new(s) /\ r.out.bound = top /\ r.out.pair = new(s)
        /\ new(s).upto = top /\ new(s).mut = mutation
    BY <2>1
  <2> HIDE DEF new
  <2> QED
    BY <1>1, <2>2
<1>3. CASE r \in Contentions(p, captured)
  BY <1>3 DEF Contentions
<1>4. CASE r \in Refreshes(p)
  <2> DEFINE new == IF row.stamp = pass[p].pair.stamp THEN [row EXCEPT !.upto = top]
                    ELSE row
  <2>1. row \in Pairs /\ row # None
        /\ r = [row |-> new, out |-> Unfolded(p, new, new.upto, FALSE)]
    BY <1>1, <1>4 DEF Refreshes
  <2>2. n <= new.upto /\ new.mut = row.mut
    BY <1>1, <2>1 DEF Pairs
  <2> HIDE DEF new
  <2>3. r.row = new /\ r.out.bound = new.upto /\ r.out.pair = new
    BY <2>1 DEF Unfolded
  <2> QED
    BY <1>1, <2>1, <2>2, <2>3
<1>5. CASE r \in Replays(p) /\ ~MustFold(p)
  <2>1. pass[p].pair # None /\ row = pass[p].pair
    BY <1>1, <1>5 DEF MustFold
  <2>2. r.row = row /\ r.out.pair = pass[p].pair /\ r.out.bound = row.upto
    BY <1>5, <2>1 DEF Replays, Unfolded
  <2> QED
    BY <1>1, <2>1, <2>2
<1> QED
  BY <1>2, <1>3, <1>4, <1>5 DEF Injects

\* What a step leaves told stays told; what is told, and the stored pair, change by
\* the steps of the one process only.
Lasting == /\ \A n \in Int : Told(n) => Told(n)'
           /\ ToldInv /\ ToldInv' /\ PrefixTypeOK /\ PrefixTypeOK'

LEMMA CacheTyped ==
  ASSUME PrefixTypeOK, NEW p \in Processes, cache[p] # None
  PROVE  cache[p].cut \in Int
BY DEF PrefixTypeOK, Cuts

\* A step that leaves the pair and the passes alone, or ends a pass.
LEMMA IdleServes ==
  ASSUME ServeInv, Lasting, NEW p \in Processes, Processes = {p}, UNCHANGED <<row, mutation>>,
         cache'[p] \in {cache[p], None},
         UNCHANGED <<pc, pass>> \/ pc'[p] = "idle"
  PROVE  RowKnown' /\ Serves(p)'
<1>1. /\ Serves(p) /\ RowKnown /\ PrefixTypeOK
  BY DEF ServeInv, Lasting
<1>2. cache'[p] # None => Told(cache[p].cut)'
  BY <1>1, CacheTyped DEF Serves, Lasting, Told
<1>3. CASE pc'[p] = "idle"
  BY <1>1, <1>2, <1>3 DEF Serves, RowKnown, Late
<1>4. CASE UNCHANGED <<pc, pass>> /\ pc[p] # "idle"
  <2>1. pass[p] \in Passes /\ pass[p].from - 1 \in Int
    BY <1>1, <1>4, PassRuns DEF Passes
  <2>2. Told(pass[p].from - 1) => Told(pass[p].from - 1)'
    BY <1>4, <2>1 DEF Lasting, Told
  <2> QED
    BY <1>1, <1>2, <1>4, <2>2 DEF Serves, RowKnown
<1> QED
  BY <1>3, <1>4

\* A pass that has been served stays as it is until it ends.
LEMMA LateServes ==
  ASSUME ServeInv, Lasting, NEW p \in Processes, Processes = {p}, UNCHANGED <<row, mutation, cache>>,
         pc[p] \in Late, pc'[p] \in Late, pass'[p].from = pass[p].from,
         pass'[p].out = pass[p].out, pass'[p].pair = pass[p].pair
  PROVE  RowKnown' /\ Serves(p)'
<1>1. /\ Serves(p) /\ RowKnown /\ PrefixTypeOK
  BY DEF ServeInv, Lasting
<1>2. cache'[p] # None => Told(cache[p].cut)'
  BY <1>1, CacheTyped DEF Serves, Lasting, Told
<1> QED
  BY <1>1, <1>2 DEF Serves, RowKnown, Late

\* The host's window starts behind what is told.
LEMMA StartTold ==
  ASSUME ToldInv, NEW s \in Users, StartsAt(s)
  PROVE  Told(s - 1)
<1>1. /\ PrefixTypeOK /\ s \in Int /\ top \in 0..MaxMessages
      /\ (row # None => row.upto \in 0..MaxMessages)
      /\ \A h \in host : h \in Int /\ Told(h)
  BY DEF ToldInv, TypeInv, PrefixTypeOK, Pairs, SummaryTold
<1>2. PICK h \in host \cup {1} : s <= h
  BY DEF StartsAt
<1>3. CASE h \in host
  BY <1>1, <1>2, <1>3 DEF Told
<1>4. CASE h = 1
  BY <1>1, <1>2, <1>4 DEF Told
<1> QED
  BY <1>3, <1>4

LEMMA BeginServes ==
  ASSUME ServeInv, Lasting, NEW p \in Processes, Processes = {p},
         NEW inputs \in SUBSET Inputs, Begin(p, inputs)
  PROVE  RowKnown' /\ Serves(p)'
<1> USE DEF history
<1>1. PrefixTypeOK /\ ToldInv /\ Serves(p) /\ RowKnown
  BY DEF ServeInv, Lasting
<1>2. UNCHANGED <<row, mutation, top>> /\ pc' = [pc EXCEPT ![p] = "prepared"]
  BY DEF Begin
<1>3. PICK s \in Users, busting \in BOOLEAN :
        LET got == Prepare(p, busting, s, top)
        IN /\ StartsAt(s)
           /\ pass' = [pass EXCEPT ![p] =
                [inputs |-> inputs, pair |-> row, start |-> s, shown |-> host,
                 from |-> got.from, cut |-> got.cut, due |-> refresh[p],
                 explicit |-> explicit[p], rebuilt |-> busting, awaited |-> FALSE,
                 matWas |-> FALSE, out |-> None, trimmed |-> FALSE, matDone |-> FALSE,
                 pend |-> None, mark |-> 0]]
           /\ cache' = [cache EXCEPT ![p] = got.cache]
  <2>1. \A inp : (explicit[p] \/ ("execute" \in inp /\ refresh[p])) \in BOOLEAN
    OBVIOUS
  <2> QED
    BY <2>1, Zenon DEF Begin
<1> DEFINE got == Prepare(p, busting, s, top)
<1>4. /\ s \in Nat \ {0} /\ top \in 0..MaxMessages /\ Told(s - 1)
      /\ row # None => row.upto <= top
      /\ cache[p] # None => Told(cache[p].cut)
  BY <1>1, <1>3, StartTold DEF PrefixTypeOK, ToldInv, SummaryTold, Serves
<1>5. /\ Told(got.from - 1)
      /\ got.cache # None => Told(got.cache.cut)
  BY <1>1, <1>4, PrepareTells DEF Told
<1>6. /\ pass'[p].pair = row /\ pass'[p].from = got.from /\ pass'[p].out = None
      /\ cache'[p] = got.cache /\ pc'[p] = "prepared"
  <2> HIDE DEF got
  <2> QED
    BY <1>1, <1>2, <1>3 DEF PrefixTypeOK, got
<1> HIDE DEF got
<1>7. RowKnown'
  BY <1>1, <1>2 DEF RowKnown
<1>8. Serves(p)'
  BY <1>1, <1>2, <1>5, <1>6 DEF Serves, RowKnown, Told, Late
<1> QED
  BY <1>7, <1>8

LEMMA AwaitServes ==
  ASSUME ServeInv, Lasting, NEW p \in Processes, Processes = {p},
         NEW e \in Messages, AwaitRun(p, e)
  PROVE  RowKnown' /\ Serves(p)'
<1>1. /\ PrefixTypeOK /\ ToldInv /\ Serves(p) /\ RowKnown
      /\ pass[p] \in Passes /\ pc[p] = "prepared"
  BY PassRuns DEF ServeInv, Lasting, AwaitRun
<1>2. UNCHANGED <<row, mutation, pc>> /\ top' = e /\ top < e /\ top \in Int
  BY <1>1 DEF AwaitRun, Stores, PrefixTypeOK
<1> DEFINE got == Prepare(p, TRUE, pass[p].from, e)
<1>3. /\ pass' = [pass EXCEPT ![p].awaited = TRUE, ![p].rebuilt = TRUE,
                              ![p].from = got.from, ![p].cut = got.cut]
      /\ cache' = [cache EXCEPT ![p] = got.cache]
  BY DEF AwaitRun
<1>4. /\ pass[p].from \in Nat \ {0} /\ e \in 0..MaxMessages
      /\ row # None => row.upto <= top /\ row.upto \in Int
      /\ cache[p] # None => Told(cache[p].cut) /\ cache[p].cut \in Int
      /\ Told(pass[p].from - 1)
  BY <1>1, CacheTyped DEF PrefixTypeOK, Passes, Pairs, ToldInv, SummaryTold, Serves
<1>5. /\ got.from - 1 <= e /\ (row # None => got.from - 1 <= row.upto)
      /\ got.cache # None => got.cache.cut <= e /\ (row # None => got.cache.cut <= row.upto)
  <2>1. /\ pass[p].from - 1 <= e /\ (row # None => pass[p].from - 1 <= row.upto)
        /\ row # None => row.upto <= e
        /\ cache[p] # None => cache[p].cut <= e /\ (row # None => cache[p].cut <= row.upto)
    BY <1>2, <1>4 DEF Told
  <2> HIDE DEF got
  <2> QED
    BY <1>1, <1>4, <2>1, PrepareTells DEF got
<1> HIDE DEF got
<1>6. /\ pass'[p].pair = pass[p].pair /\ pass'[p].from = got.from
      /\ pass'[p].out = pass[p].out /\ cache'[p] = got.cache
  BY <1>1, <1>3 DEF PrefixTypeOK, Passes
<1>7. RowKnown'
  BY <1>1, <1>2 DEF RowKnown
<1>8. Serves(p)'
  BY <1>1, <1>2, <1>5, <1>6 DEF Serves, Told, Late
<1> QED
  BY <1>7, <1>8

LEMMA PreflightServes ==
  ASSUME ServeInv, Lasting, NEW p \in Processes, Processes = {p}, Preflight(p)
  PROVE  RowKnown' /\ Serves(p)'
<1>1. /\ PrefixTypeOK /\ ToldInv /\ Serves(p) /\ RowKnown
      /\ pass[p] \in Passes /\ pc[p] = "prepared" /\ pc'[p] = "ready"
      /\ UNCHANGED <<mutation, top, cache>>
  BY PassRuns DEF ServeInv, Lasting, Preflight, PrefixTypeOK, history
<1>2. pass[p].from - 1 \in Int /\ (cache'[p] # None => Told(cache[p].cut)')
  BY <1>1, CacheTyped DEF Passes, Serves, Lasting, Told
<1>3. Told(pass[p].from - 1) /\ pass[p].out = None
  BY <1>1 DEF Serves
<1>4. CASE ~PreflightDue(p)
  <2>1. pass' = [pass EXCEPT ![p].matWas = mat[p]] /\ UNCHANGED row
    BY <1>4 DEF Preflight
  <2>2. /\ pass'[p].out = pass[p].out /\ pass'[p].pair = pass[p].pair
        /\ pass'[p].from = pass[p].from
    BY <1>1, <2>1 DEF PrefixTypeOK, Passes
  <2> QED
    BY <1>1, <1>2, <1>3, <2>1, <2>2 DEF Serves, RowKnown, Told, Late
<1>5. CASE PreflightDue(p)
  <2> DEFINE captured == MustFold(p) \/ Executes(p)
  <2>1. PICK r \in Injects(p, TRUE, captured) :
          /\ Writes(r.row)
          /\ pass' = [pass EXCEPT ![p].matWas = mat[p], ![p].out = r.out]
    BY <1>5 DEF Preflight
  <2>2. captured \in BOOLEAN
    BY DEF MustFold, Executes
  <2> HIDE DEF captured
  <2>3. /\ pass'[p].out = r.out /\ pass'[p].pair = pass[p].pair
        /\ pass'[p].from = pass[p].from /\ row' = r.row
    BY <1>1, <2>1 DEF PrefixTypeOK, Passes, Writes
  <2>4. /\ r.out.bound = r.out.pair.upto /\ pass[p].from - 1 <= r.out.bound
        /\ r.row # None => r.row.mut <= mutation
    BY <1>1, <1>2, <1>3, <2>2, InjectsServed DEF Serves
  <2>5. Told(pass[p].from - 1)'
    BY <1>2, <1>3, <2>3 DEF Lasting, Told
  <2>6. r.out # None
    BY <1>1, <2>2, InjectsTyped, NoneAssumption
  <2> QED
    BY <1>1, <1>2, <2>3, <2>4, <2>5, <2>6 DEF Serves, RowKnown, Late
<1> QED
  BY <1>4, <1>5

LEMMA DeliverServes ==
  ASSUME ServeInv, Lasting, NEW p \in Processes, Processes = {p}, Deliver(p)
  PROVE  RowKnown' /\ Serves(p)'
<1>1. /\ PrefixTypeOK /\ ToldInv /\ Serves(p) /\ RowKnown
      /\ pass[p] \in Passes /\ pc[p] = "ready" /\ pc'[p] = "delivered"
      /\ UNCHANGED mutation /\ flush[p] \in BOOLEAN
  <2>1. pc[p] = "ready" /\ UNCHANGED mutation
    BY DEF Deliver, history
  <2>2. PrefixTypeOK /\ ToldInv /\ Serves(p) /\ RowKnown
    BY DEF ServeInv, Lasting
  <2>3. pc' = [pc EXCEPT ![p] = "delivered"]
    BY <2>2, DeliverNotes
  <2> QED
    BY <2>1, <2>2, <2>3, PassRuns DEF PrefixTypeOK
<1>2. cache'[p] \in {cache[p], None}
  BY <1>1 DEF Deliver, PrefixTypeOK
<1>3. cache'[p] # None => Told(cache[p].cut)'
  BY <1>1, <1>2, CacheTyped DEF Serves, Lasting, Told
<1>4. pass[p].from \in Int /\ pass[p].from - 1 \in Int /\ Told(pass[p].from - 1)
  BY <1>1 DEF Passes, Serves
<1>5. PICK r \in IF pass[p].out # None THEN {[row |-> row, out |-> pass[p].out]}
                 ELSE Injects(p, flush[p], FALSE) :
        /\ Writes(r.row) /\ pass'[p].out = r.out
        /\ pass'[p].from = IF r.out.bound < pass[p].from THEN pass[p].from
                           ELSE r.out.bound + 1
  BY <1>1, DeliverRenders
<1>6. /\ r.out.bound = r.out.pair.upto /\ pass[p].from - 1 <= r.out.bound
      /\ r.row # None => r.row.mut <= mutation
      /\ r.out \in Renders
  <2>1. CASE pass[p].out # None
    <3>1. r.row = row /\ r.out = pass[p].out
      BY <1>5, <2>1
    <3> QED
      BY <1>1, <2>1, <3>1 DEF Serves, RowKnown, Passes
  <2>2. CASE pass[p].out = None
    <3>1. r \in Injects(p, flush[p], FALSE)
      BY <1>5, <2>2
    <3> QED
      BY <1>1, <1>4, <2>2, <3>1, InjectsServed, InjectsTyped, ZenonT(60) DEF Serves
  <2> QED
    BY <2>1, <2>2
<1>7. pass'[p].pair = pass[p].pair /\ row' = r.row
  BY <1>1, <1>5, DeliverRenders DEF Writes
<1>8. pass'[p].from = pass'[p].out.pair.upto + 1
  BY <1>4, <1>5, <1>6 DEF Renders
<1> QED
  BY <1>1, <1>3, <1>5, <1>6, <1>7, <1>8 DEF Serves, RowKnown, Late

LEMMA PromotesServes ==
  ASSUME ServeInv, Lasting, NEW p \in Processes, Processes = {p}, RecompPromotes(p)
  PROVE  RowKnown' /\ Serves(p)'
<1>1. /\ PrefixTypeOK /\ Serves(p) /\ mutation \in Int
      /\ row' = None /\ mutation' = mutation + 1 /\ UNCHANGED <<pc, pass>>
      /\ cache'[p] = None /\ pc[p] \in {"idle", "prepared"}
  BY DEF ServeInv, Lasting, RecompPromotes, Writes, Free, PrefixTypeOK
<1>2. CASE pc[p] = "idle"
  BY <1>1, <1>2 DEF RowKnown, Serves, Late
<1>3. CASE pc[p] = "prepared"
  <2>1. pass[p] \in Passes /\ pass[p].from - 1 \in Int
    BY <1>1, <1>3, PassRuns DEF Passes
  <2>2. Told(pass[p].from - 1)'
    BY <1>1, <1>3, <2>1 DEF Serves, Lasting, Told
  <2>3. pass[p].pair # None => pass[p].pair.mut < mutation'
    BY <1>1, <1>3, <2>1 DEF Serves, Passes, Pairs
  <2>4. pass[p].pair # None => pass[p].pair.mut <= mutation'
    BY <1>1, <2>1, <2>3 DEF Passes, Pairs
  <2> QED
    BY <1>1, <1>3, <2>2, <2>3, <2>4 DEF RowKnown, Serves, Late
<1> QED
  BY <1>1, <1>2, <1>3

LEMMA ServeInvKept ==
  ASSUME ~AllowShorter, NEW P, Processes = {P}, ServeInv, [PrefixNext]_vars
  PROVE  ServeInv'
<1> USE DEF history, markers, signals, local, counters
<1>1. Lasting /\ Serves(P)
  BY ToldInvKept, ToldKept DEF ServeInv, Lasting, ToldInv, TypeInv
<1>2. SUFFICES RowKnown' /\ Serves(P)'
  BY <1>1 DEF ServeInv, Lasting
<1>3. CASE UNCHANGED <<row, mutation, cache, pc, pass>>
  BY <1>1, <1>3, IdleServes
<1>4. ASSUME UNCHANGED <<row, mutation>>, cache'[P] \in {cache[P], None}, pc'[P] = "idle"
      PROVE  RowKnown' /\ Serves(P)'
  BY <1>1, <1>4, IdleServes
<1>5. ASSUME PassStep(P) PROVE RowKnown' /\ Serves(P)'
  <2>1. CASE Preflight(P) \/ Deliver(P)
    BY <1>1, <2>1, PreflightServes, DeliverServes
  <2>2. ASSUME NEW keep, Ends(P, keep), UNCHANGED <<row, mutation>>
        PROVE  RowKnown' /\ Serves(P)'
    BY <1>1, <1>4, <2>2 DEF Ends, Lasting, PrefixTypeOK
  <2>3. CASE Finish(P) \/ Persist(P)
    BY <2>2, <2>3 DEF Finish, Persist
  <2>4. CASE Cut(P)
    BY <1>1, <2>4, LateServes DEF Cut, Late, Lasting, PrefixTypeOK
  <2>5. CASE Drain(P)
    <3>1. CASE Ends(P, Newer(P))
      BY <2>2, <2>5, <3>1 DEF Drain
    <3>2. CASE /\ pc' = [pc EXCEPT ![P] = "cutting"]
               /\ pass' = [pass EXCEPT ![P].mark = marker]
               /\ UNCHANGED cache
      <4>1. pass[P] \in Passes /\ pc[P] = "delivered" /\ UNCHANGED <<row, mutation>>
        BY <1>1, <2>5, PassRuns DEF Drain, Lasting
      <4>2. /\ pass'[P].out = pass[P].out /\ pass'[P].pair = pass[P].pair
            /\ pass'[P].from = pass[P].from /\ pc'[P] = "cutting"
        BY <1>1, <3>2, <4>1 DEF Lasting, PrefixTypeOK, Passes
      <4> QED
        BY <1>1, <3>2, <4>1, <4>2, LateServes DEF Late
    <3> QED
      BY <2>5, <3>1, <3>2 DEF Drain
  <2> QED
    BY <1>5, <2>1, <2>3, <2>4, <2>5 DEF PassStep
<1>6. ASSUME Refuse(P) \/ DrainFails(P) \/ Crash(P) PROVE RowKnown' /\ Serves(P)'
  BY <1>1, <1>4, <1>6 DEF Refuse, DrainFails, Crash, Lasting, PrefixTypeOK
<1>7. ASSUME Background(P), ~Crash(P) PROVE RowKnown' /\ Serves(P)'
  <2>1. CASE RecompPromotes(P)
    BY <1>1, <2>1, PromotesServes
  <2>2. CASE ~RecompPromotes(P)
    BY <1>3, <1>7, <2>2 DEF Background, Publish, RecompSignals, RecompMarks, Flush
  <2> QED
    BY <2>1, <2>2
<1>8. ASSUME NEW inputs \in SUBSET Inputs, Begin(P, inputs) PROVE RowKnown' /\ Serves(P)'
  BY <1>1, <1>8, BeginServes
<1>9. ASSUME NEW e \in Messages, AwaitRun(P, e) PROVE RowKnown' /\ Serves(P)'
  BY <1>1, <1>9, AwaitServes
<1>10. CASE UNCHANGED vars
  BY <1>3, <1>10 DEF vars
<1>11. CASE PrefixNext
  BY <1>5, <1>6, <1>7, <1>8, <1>9, <1>11 DEF PrefixNext
<1> QED
  BY <1>10, <1>11

\* Where one process has the session open, and recomps promote no shorter history,
\* no message vanishes from a prompt and none is shown twice: what the pass prepared
\* at its start, from a remembered cut or anew, agrees in the end with the pair it
\* shows, whatever was published, promoted, refused or restarted in its course.
THEOREM AloneServedOnce ==
  ASSUME ~AllowShorter, NEW P, Processes = {P}
  PROVE  PrefixSpec => []HistoryServedOnce
<1>1. PrefixInit => ServeInv
  <2> SUFFICES ASSUME PrefixInit PROVE ServeInv
    OBVIOUS
  <2>1. TypeInv
    BY TypeInit DEF TypeInv, DrainsAhead, PrefixInit
  <2> QED
    BY <2>1 DEF ServeInv, RowKnown, Serves, ToldInv, SummaryTold, PrefixInit
<1>2. ServeInv /\ [PrefixNext]_vars => ServeInv'
  BY ServeInvKept
<1>3. ServeInv => HistoryServedOnce
  BY DEF ServeInv, Serves, HistoryServedOnce, Late
<1> QED
  BY <1>1, <1>2, <1>3, PTL DEF PrefixSpec
=============================================================================
