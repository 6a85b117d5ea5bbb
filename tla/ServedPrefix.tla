---------------------------- MODULE ServedPrefix ----------------------------
(***************************************************************************)
(* What a session's model is shown.  A transform pass replaces the old     *)
(* messages by a rendered pair (m[0], m[1]) of summaries and keeps the raw *)
(* messages behind its boundary.  The pair is stored, and defer passes     *)
(* replay it byte for byte so that the provider's cache hits; only priced  *)
(* passes render it anew.  A historian publishes compartments between      *)
(* passes and leaves a pending marker; the pass that serves them moves the *)
(* host's compaction marker there (drains it), and the host stops sending  *)
(* what lies before it.  /ctx-recomp replaces the history and moves the    *)
(* marker itself.                                                          *)
(*                                                                         *)
(* Messages are ordinals; those after MaxMessages are the live tail.  A    *)
(* summary is the ordinal it reaches.  The compartment lease is reduced to *)
(* recomp: while one is at work nobody else publishes.  Left out: windows  *)
(* changed by undo, fork or native compaction (and re-anchoring, which     *)
(* serves only them), partial compartments, frozen passes, and the force   *)
(* band.  /ctx-recomp without a range may end before the old history did   *)
(* when AllowShorter.                                                      *)
(***************************************************************************)
EXTENDS Integers, FiniteSets

CONSTANTS Processes,     \* processes that have the session open
          MaxMessages,   \* messages the historian may summarise
          Users,         \* those written by the user: a marker hangs on one
          Stamps,        \* moments of materialisation, reused when out of sight
          Inputs,        \* what a pass may find: "execute", "hard", "memory"
          Unsaved,       \* the moment of a pair that was not stored
          None,
          AllowShorter,  \* TRUE: a recomp may promote a shorter history
          MaxFaults,     \* bound: crashes, refused writes and passes, contention
          MaxCommands,   \* bound: recomps and flushes
          MaxPasses      \* bound: passes in all; None: no bound

ASSUME PrefixAssumption ==
  /\ MaxMessages \in Nat \ {0}
  /\ Users \subseteq 1..MaxMessages /\ 1 \in Users
  /\ Unsaved \notin Stamps
  /\ Inputs \subseteq {"execute", "hard", "memory"}
  /\ AllowShorter \in BOOLEAN
  /\ {MaxFaults, MaxCommands} \subseteq Nat /\ MaxPasses \in Nat \cup {None}

Messages == 1..MaxMessages

VARIABLES
  top, ends,   \* end of the newest compartment; the ends of all
  mutation,    \* newest id in m0_mutation_log
  row,         \* stored pair: moment and mutation of m[0], reach of m[1] and boundary
  pending,     \* pending_compaction_marker_state
  marker,      \* compaction_marker_state: its ordinal, 0 without one
  host,        \* ordinals whose marker rows are in the host's database
  recomp,      \* the promoting /ctx-recomp: process and step, or None
  explicit,    \* explicit[p]: the session is in historyRefreshSessions
  flush,       \* flush[p]: in pendingMaterializationSessions
  refresh,     \* refresh[p]: in deferredHistoryRefreshSessions
  mat,         \* mat[p]: in deferredMaterializationSessions
  cache,       \* cache[p]: injectionCache, the last prepared cut, or None
  pc, pass,    \* where the pass of p stands, and its locals
  current,     \* history variable: the last prompt of p shows the stored pair
  faults, commands, passes   \* counters of the bounded events

history == <<top, ends, mutation>>
markers == <<pending, marker, host>>
signals == <<explicit, flush, refresh, mat>>
local   == <<cache, pc, pass, current>>
counters == <<faults, commands, passes>>
vars    == <<history, row, markers, recomp, signals, local, counters>>

Pairs   == [stamp : Stamps \cup {Unsaved}, mut : Nat, upto : 0..MaxMessages]
Blobs   == [end : Messages, epoch : Nat]
Cuts    == [cut : 0..MaxMessages, end : 0..MaxMessages]
Renders == [pair : Pairs, bound : 0..MaxMessages, fresh : BOOLEAN,
            changed : BOOLEAN, contended : BOOLEAN]
Passes  == [inputs : SUBSET Inputs, pair : Pairs \cup {None}, start : Messages,
            shown : SUBSET Messages, from : Nat \ {0}, cut : Cuts, due : BOOLEAN,
            explicit : BOOLEAN, rebuilt : BOOLEAN, awaited : BOOLEAN,
            matWas : BOOLEAN, out : Renders \cup {None}, trimmed : BOOLEAN,
            matDone : BOOLEAN, pend : Blobs \cup {None}, mark : 0..MaxMessages]
Steps   == {"idle", "prepared", "ready", "delivered", "cutting", "persisting"}

ASSUME NoneAssumption ==
  /\ None \notin Pairs /\ None \notin Blobs /\ None \notin Cuts
  /\ None \notin Renders /\ None \notin Passes
  /\ None \notin Processes \X {"promoted", "signalled"}

PrefixTypeOK ==
  /\ top \in 0..MaxMessages /\ ends \subseteq Messages /\ mutation \in Nat
  /\ row \in Pairs \cup {None}
  /\ pending \in Blobs \cup {None}
  /\ marker \in 0..MaxMessages /\ host \subseteq Messages
  /\ recomp \in (Processes \X {"promoted", "signalled"}) \cup {None}
  /\ {explicit, flush, refresh, mat} \subseteq [Processes -> BOOLEAN]
  /\ cache \in [Processes -> Cuts \cup {None}]
  /\ pc \in [Processes -> Steps]
  /\ pass \in [Processes -> Passes \cup {None}]
  /\ \A p \in Processes : pass[p] = None <=> pc[p] = "idle"
  /\ current \in [Processes -> BOOLEAN]
  /\ faults \in Nat /\ commands \in Nat /\ passes \in Nat

PrefixInit ==
  /\ top = 0 /\ ends = {} /\ mutation = 0
  /\ row = None
  /\ pending = None /\ marker = 0 /\ host = {}
  /\ recomp = None
  /\ explicit = [p \in Processes |-> FALSE] /\ flush = explicit
  /\ refresh = explicit /\ mat = explicit
  /\ cache = [p \in Processes |-> None]
  /\ pc = [p \in Processes |-> "idle"]
  /\ pass = [p \in Processes |-> None]
  /\ current = explicit
  /\ faults = 0 /\ commands = 0 /\ passes = 0

-----------------------------------------------------------------------------
(* The host's window. *)

\* filterCompacted: the host sends the session from the user message on that
\* carries the newest marker.
StartsAt(s) ==
  /\ s \in Users
  /\ \E h \in host \cup {1} : s <= h
  /\ \A u \in Users, h \in host \cup {1} : u <= h => u <= s

\* Markers at g and h hang on the same user message.
SameBoundary(g, h) == \A u \in Users : u <= g <=> u <= h

\* Mutant: every other marker of the session goes.
Replaced_all(known, target) == {target}

\* replaceCompactionMarker: the rows of the marker known to the caller go, and
\* those of any other marker on the same user message.
Replaced(known, target) ==
  {h \in host \ {known} : ~SameBoundary(h, target)} \cup {target}

-----------------------------------------------------------------------------
(* The background: publications, recomps, commands, crashes. *)

\* A handler of p runs between two awaits of its pass only.
Free(p) == pc[p] \in {"idle", "prepared"}

\* Writes the stored pair: a prompt that showed the old one is out of date.
Writes(pair) ==
  /\ row' = pair
  /\ current' = [p \in Processes |-> current[p] /\ pair = row]

Stores(e) ==
  /\ e \in Messages /\ e > top
  /\ top' = e /\ ends' = ends \cup {e}
  /\ pending' = [end |-> e, epoch |-> mutation]

\* The publish transaction stores compartments up to e and the pending blob;
\* the signals follow the commit.  (A crash in between is Crash right after:
\* the signals do not outlive the process.)
Publish(p, e) ==
  /\ Free(p) /\ recomp = None
  /\ Stores(e)
  /\ refresh' = [refresh EXCEPT ![p] = TRUE]
  /\ mat' = [mat EXCEPT ![p] = TRUE]
  /\ UNCHANGED <<mutation, row, marker, host, recomp, explicit, flush, local, counters>>

\* Mutant: the stored pair stays.
RecompPromotes_keepsPair(p) ==
  /\ Free(p) /\ recomp = None /\ commands < MaxCommands
  /\ \E S \in SUBSET Messages : \E e \in S :
       /\ \A d \in S : d <= e
       /\ AllowShorter \/ e >= top
       /\ top' = e /\ ends' = S
  /\ mutation' = mutation + 1
  /\ cache' = [cache EXCEPT ![p] = None]
  /\ recomp' = <<p, "promoted">>
  /\ commands' = commands + 1
  /\ UNCHANGED <<row, current, markers, signals, pc, pass, faults, passes>>

\* promoteRecompStagingWithM0Mutation, and the eager clearInjectionCache.
RecompPromotes(p) ==
  /\ Free(p) /\ recomp = None /\ commands < MaxCommands
  /\ \E S \in SUBSET Messages : \E e \in S :
       /\ \A d \in S : d <= e
       /\ AllowShorter \/ e >= top
       /\ top' = e /\ ends' = S
  /\ mutation' = mutation + 1
  /\ Writes(None)
  /\ cache' = [cache EXCEPT ![p] = None]
  /\ recomp' = <<p, "promoted">>
  /\ commands' = commands + 1
  /\ UNCHANGED <<markers, signals, pc, pass, faults, passes>>

\* /ctx-flush, a change of model variant; the signals of a recomp are the same.
Urge(p) ==
  /\ explicit' = [explicit EXCEPT ![p] = TRUE]
  /\ flush' = [flush EXCEPT ![p] = TRUE]
  /\ UNCHANGED <<refresh, mat>>

Flush(p) ==
  /\ Free(p) /\ commands < MaxCommands
  /\ Urge(p)
  /\ commands' = commands + 1
  /\ UNCHANGED <<history, row, markers, recomp, local, faults, passes>>

RecompSignals(p) ==
  /\ Free(p) /\ recomp = <<p, "promoted">>
  /\ recomp' = <<p, "signalled">>
  /\ Urge(p)
  /\ UNCHANGED <<history, row, markers, local, counters>>

\* existingMarkerAlreadyCoversTarget.
Covers(target) == marker >= target

\* updateCompactionMarkerAfterPublication, and the pending blob cleared if that
\* succeeded.  Either of the two databases may refuse its write.
RecompMarks(p) ==
  /\ Free(p) /\ recomp = <<p, "signalled">>
  /\ \/ /\ Covers(top)
        /\ pending' = None
        /\ UNCHANGED <<marker, host, faults>>
     \/ /\ ~Covers(top)
        /\ host' = Replaced(marker, top) /\ marker' = top /\ pending' = None
        /\ UNCHANGED faults
     \/ /\ ~Covers(top) /\ faults < MaxFaults
        /\ host' \in {host, Replaced(marker, top)}
        /\ faults' = faults + 1
        /\ UNCHANGED <<marker, pending>>
  /\ recomp' = None
  /\ UNCHANGED <<history, row, signals, local, commands, passes>>

\* The process dies; its successor takes the deferred signals from the pending
\* blob.
Crash(p) ==
  /\ faults < MaxFaults /\ faults' = faults + 1
  /\ recomp' = IF recomp # None /\ recomp[1] = p THEN None ELSE recomp
  /\ explicit' = [explicit EXCEPT ![p] = FALSE]
  /\ flush' = [flush EXCEPT ![p] = FALSE]
  /\ refresh' = [refresh EXCEPT ![p] = pending # None]
  /\ mat' = [mat EXCEPT ![p] = pending # None]
  /\ cache' = [cache EXCEPT ![p] = None]
  /\ pc' = [pc EXCEPT ![p] = "idle"]
  /\ pass' = [pass EXCEPT ![p] = None]
  /\ UNCHANGED <<history, row, markers, current, commands, passes>>

-----------------------------------------------------------------------------
(* A pass. *)

\* Mutant: cuts at the newest compartment, whatever the stored pair reaches.
Prepare_latest(p, busting, from, last) ==
  LET after(n) == IF n # 0 /\ n >= from THEN n + 1 ELSE from
      found == [cut |-> IF last < from THEN 0 ELSE last, end |-> last]
  IN IF ~busting /\ cache[p] # None
     THEN [from |-> after(cache[p].cut), cut |-> cache[p], cache |-> cache[p]]
     ELSE [from |-> after(last), cut |-> found, cache |-> IF last < from THEN None ELSE found]

\* prepareCompartmentInjection, when the history ends at last, on a window that
\* starts at from: where the window starts afterwards, the cut it made (0: none),
\* and what it remembers for passes that must not rebuild.
Prepare(p, busting, from, last) ==
  LET target == IF row # None THEN row.upto ELSE last
      after(n) == IF n # 0 /\ n >= from THEN n + 1 ELSE from
      found == [cut |-> IF target < from THEN 0 ELSE target, end |-> last]
      degraded == target # 0 /\ target < from
  IN IF ~busting /\ cache[p] # None
     THEN [from |-> after(cache[p].cut), cut |-> cache[p], cache |-> cache[p]]
     ELSE [from |-> after(target), cut |-> found,
           cache |-> IF degraded THEN None ELSE found]

\* The pass reads the stored pair and its signals, and the host hands it the
\* window.  inputs: the scheduler says execute; the provider's cache is lost
\* (model change, idle expiry, ...); memories changed since m[1] was rendered.
Begin(p, inputs) ==
  /\ pc[p] = "idle"
  /\ MaxPasses # None => passes < MaxPasses
  /\ passes' = IF MaxPasses = None THEN passes ELSE passes + 1
  /\ pc' = [pc EXCEPT ![p] = "prepared"]
  /\ \E s \in Users :
       LET busting == explicit[p] \/ ("execute" \in inputs /\ refresh[p])
           got == Prepare(p, busting, s, top)
       IN /\ StartsAt(s)
          /\ pass' = [pass EXCEPT ![p] =
               [inputs |-> inputs, pair |-> row, start |-> s, shown |-> host,
                from |-> got.from, cut |-> got.cut, due |-> refresh[p],
                explicit |-> explicit[p], rebuilt |-> busting, awaited |-> FALSE,
                matWas |-> FALSE, out |-> None, trimmed |-> FALSE, matDone |-> FALSE,
                pend |-> None, mark |-> 0]]
          /\ cache' = [cache EXCEPT ![p] = got.cache]
  /\ explicit' = [explicit EXCEPT ![p] = FALSE]
  /\ UNCHANGED <<history, row, markers, recomp, flush, refresh, mat, current, faults, commands>>

\* The pass waits for a run that publishes, and prepares once more.
AwaitRun(p, e) ==
  /\ pc[p] = "prepared" /\ recomp = None /\ ~pass[p].awaited
  /\ Stores(e)
  /\ LET got == Prepare(p, TRUE, pass[p].from, e)
     IN /\ pass' = [pass EXCEPT ![p].awaited = TRUE, ![p].rebuilt = TRUE,
                               ![p].from = got.from, ![p].cut = got.cut]
        /\ cache' = [cache EXCEPT ![p] = got.cache]
  /\ refresh' = [refresh EXCEPT ![p] = TRUE]
  /\ mat' = [mat EXCEPT ![p] = TRUE]
  /\ UNCHANGED <<mutation, row, marker, host, recomp, explicit, flush, pc, current,
                 counters>>

Executes(p) == "execute" \in pass[p].inputs
Consumes(p) == Executes(p) \/ pass[p].awaited   \* canConsumeDeferredLate

\* mustMaterialize: m[0] has to be folded anew.
MustFold(p) ==
  pass[p].pair # None => pass[p].pair.mut # mutation \/ "hard" \in pass[p].inputs

\* A moment nobody can compare with: of no stored or held pair.
NewStamps ==
  LET held == {pass[p].pair : p \in {q \in Processes : pass[q] # None}}
      used == {r.stamp : r \in ({row} \cup held) \ {None}}
  IN IF Stamps \subseteq used THEN {} ELSE {CHOOSE s \in Stamps : s \notin used}

\* materializeM0: m[0] and m[1] of the whole history, with its boundary.
Folds(p) ==
  {LET new == [stamp |-> s, mut |-> mutation, upto |-> top]
   IN [row |-> new, out |-> [pair |-> new, bound |-> top, fresh |-> TRUE,
                             changed |-> TRUE, contended |-> FALSE]] : s \in NewStamps}

Unfolded(p, pair, bound, contended) ==
  [pair |-> pair, bound |-> bound, fresh |-> FALSE,
   changed |-> pair # pass[p].pair, contended |-> contended]

\* Rivals wrote between the reads of the fold and its transaction, three times:
\* the pass keeps its own pair, with the boundary of the row it captured; without
\* a pair it takes the stored one, or renders one that is not stored.
Contentions(p, captured) ==
  LET bound == IF row = None \/ (pass[p].pair # None /\ ~captured) THEN 0 ELSE row.upto
      unsaved == [stamp |-> Unsaved, mut |-> mutation, upto |-> top]
  IN IF Processes = {p} \/ faults >= MaxFaults THEN {}
     ELSE {[row |-> row,
            out |-> IF pass[p].pair # None THEN Unfolded(p, pass[p].pair, bound, TRUE)
                    ELSE IF row # None THEN Unfolded(p, row, bound, TRUE)
                    ELSE Unfolded(p, unsaved, top, TRUE)]}

\* softRefreshCachedM1: m[1] rendered anew, or a rival's newer pair adopted.
Refreshes(p) ==
  IF row = None THEN {}
  ELSE LET new == IF row.stamp = pass[p].pair.stamp THEN [row EXCEPT !.upto = top] ELSE row
       IN {[row |-> new, out |-> Unfolded(p, new, new.upto, FALSE)]}

\* The pair of the pass, and the boundary of the row as it is now.
Replays(p) ==
  {[row |-> row, out |-> Unfolded(p, pass[p].pair, IF row = None THEN 0 ELSE row.upto, FALSE)]}

\* Mutant: defer passes refresh m[1] as well.
Injects_always(p, priced, captured) ==
  IF MustFold(p) THEN Folds(p) \cup Contentions(p, captured)
  ELSE IF priced THEN Refreshes(p) \cup Folds(p)
  ELSE Refreshes(p)

\* injectM0M1: what it stores and what it renders.  A priced refresh folds as
\* well when m[1] has grown too large.
Injects(p, priced, captured) ==
  IF MustFold(p) THEN Folds(p) \cup Contentions(p, captured)
  ELSE IF priced THEN Refreshes(p) \cup Folds(p)
  ELSE IF "memory" \in pass[p].inputs THEN Refreshes(p)
  ELSE Replays(p)

\* The preflight renders the pair before anything is cut, if the pass is due.
PreflightDue(p) == MustFold(p) \/ Executes(p) \/ (mat[p] /\ pass[p].awaited)

Preflight(p) ==
  /\ pc[p] = "prepared"
  /\ pc' = [pc EXCEPT ![p] = "ready"]
  /\ \/ /\ ~PreflightDue(p)
        /\ pass' = [pass EXCEPT ![p].matWas = mat[p]]
        /\ UNCHANGED <<row, current, faults>>
     \/ /\ PreflightDue(p)
        /\ \E r \in Injects(p, TRUE, MustFold(p) \/ Executes(p)) :
             /\ Writes(r.row)
             /\ pass' = [pass EXCEPT ![p].matWas = mat[p], ![p].out = r.out]
             /\ faults' = IF r.out.contended THEN faults + 1 ELSE faults
  /\ UNCHANGED <<history, markers, recomp, signals, cache, commands, passes>>

\* injectM0M1 in place: the raw messages behind the boundary of the rendered pair
\* go.  Reads the pending blob and the marker before it does.
Deliver(p) ==
  /\ pc[p] = "ready"
  /\ \E r \in IF pass[p].out # None THEN {[row |-> row, out |-> pass[p].out]}
             ELSE Injects(p, flush[p], FALSE) :
       LET out == r.out
           wanted == pass[p].matWas /\ Consumes(p)
           priced == \/ flush[p]
                     \/ pass[p].out # None /\ ~out.contended /\ (out.changed \/ wanted)
                     \/ out.pair.stamp = Unsaved
       IN /\ Writes(r.row)
          /\ pass' = [pass EXCEPT
               ![p].out = out,
               ![p].from = IF out.bound < @ THEN @ ELSE out.bound + 1,
               ![p].trimmed = out.bound # 0 /\ out.bound >= pass[p].start,
               ![p].matDone = priced /\ (flush[p] \/ wanted),
               ![p].pend = pending,
               ![p].mark = marker]
          /\ cache' = IF out.fresh \/ (priced /\ ~out.contended)
                      THEN [cache EXCEPT ![p] = None] ELSE cache
          /\ faults' = IF pass[p].out = None /\ out.contended THEN faults + 1 ELSE faults
  /\ flush' = [flush EXCEPT ![p] = FALSE]
  /\ pc' = [pc EXCEPT ![p] = "delivered"]
  /\ UNCHANGED <<history, markers, recomp, explicit, refresh, mat, commands, passes>>

\* Mutant: the locals of the refused pass outlive it.
Refuse_leaks(p) ==
  /\ pc[p] = "ready" /\ faults < MaxFaults
  /\ faults' = faults + 1
  /\ cache' = [cache EXCEPT ![p] = None]
  /\ pc' = [pc EXCEPT ![p] = "idle"]
  /\ UNCHANGED <<history, row, markers, recomp, signals, pass, current, commands, passes>>

\* The pass is refused after its pair was stored: nothing is served, and what was
\* prepared for the old pair is forgotten.
Refuse(p) ==
  /\ pc[p] = "ready" /\ faults < MaxFaults
  /\ faults' = faults + 1
  /\ cache' = [cache EXCEPT ![p] = None]
  /\ pc' = [pc EXCEPT ![p] = "idle"]
  /\ pass' = [pass EXCEPT ![p] = None]
  /\ UNCHANGED <<history, row, markers, recomp, signals, current, commands, passes>>

\* historyWasConsumedThisPass: the prompt shows the history as it was rebuilt.
Consumed(p) ==
  /\ ~pass[p].out.contended
  /\ pass[p].rebuilt
  /\ Consumes(p) \/ pass[p].explicit
  /\ pass[p].matWas => pass[p].matDone

\* The prepared history reaches the pending target, and the window was cut
\* there by this pass or came cut from the host.
Proven(p) ==
  LET me == pass[p]
      target == me.pend.end
  IN /\ target = me.cut.cut \/ target <= me.cut.end
     /\ \/ me.trimmed /\ target >= me.start /\ target <= me.out.bound
        \/ /\ target <= me.mark /\ target < me.start
           /\ me.mark \in me.shown /\ me.mark >= me.start

\* Mutant: the deferred refresh is forgotten with every prompt.
Ends_forgets(p, keep) ==
  /\ current' = [current EXCEPT ![p] = pass[p].out.pair = row]
  /\ refresh' = [refresh EXCEPT ![p] = FALSE]
  /\ mat' = [mat EXCEPT ![p] = @ /\ ~(pass[p].matWas /\ pass[p].matDone)]
  /\ pc' = [pc EXCEPT ![p] = "idle"]
  /\ pass' = [pass EXCEPT ![p] = None]
  /\ UNCHANGED <<explicit, flush, cache>>

\* The prompt goes out; keep: the deferred refresh is still wanted.
Ends(p, keep) ==
  /\ current' = [current EXCEPT ![p] = pass[p].out.pair = row]
  /\ refresh' = [refresh EXCEPT ![p] = @ /\ keep]
  /\ mat' = [mat EXCEPT ![p] = @ /\ ~(pass[p].matWas /\ pass[p].matDone)]
  /\ pc' = [pc EXCEPT ![p] = "idle"]
  /\ pass' = [pass EXCEPT ![p] = None]
  /\ UNCHANGED <<explicit, flush, cache>>

Drains(p) == Consumed(p) /\ pass[p].due /\ pass[p].pend # None

Finish(p) ==
  /\ pc[p] = "delivered"
  /\ Drains(p) => ~Proven(p)
  /\ Ends(p, Drains(p) \/ ~Consumed(p) \/ ~pass[p].due)
  /\ UNCHANGED <<history, row, markers, recomp, counters>>

\* Mutant: no comparison with the blob the pass has read.
Clear_blindly(p) == pending' = None

\* clearPendingCompactionMarkerAfterSuccessfulDrain: a newer blob stays, and with
\* it the signal.
Clear(p) == pending' = IF pending = pass[p].pend THEN None ELSE pending
Newer(p) == pending \notin {pass[p].pend, None}

\* applyDeferredCompactionMarker: a target without its compartment is stale, one
\* at or behind the marker is done.
Drain(p) ==
  /\ pc[p] = "delivered" /\ Drains(p) /\ Proven(p)
  /\ LET done == pass[p].pend.end \notin ends \/ Covers(pass[p].pend.end)
     IN \/ /\ done
           /\ Clear(p)
           /\ Ends(p, Newer(p))
        \/ /\ ~done
           /\ pc' = [pc EXCEPT ![p] = "cutting"]
           /\ pass' = [pass EXCEPT ![p].mark = marker]
           /\ UNCHANGED <<pending, refresh, mat, explicit, flush, cache, current>>
  /\ UNCHANGED <<history, row, marker, host, recomp, counters>>

\* replaceCompactionMarker commits in the host's database.
Cut(p) ==
  /\ pc[p] = "cutting"
  /\ host' = Replaced(pass[p].mark, pass[p].pend.end)
  /\ pc' = [pc EXCEPT ![p] = "persisting"]
  /\ UNCHANGED <<history, row, pending, marker, recomp, signals, cache, pass, current,
                 counters>>

\* The marker state follows in the plugin's database, then the blob is cleared.
Persist(p) ==
  /\ pc[p] = "persisting"
  /\ marker' = pass[p].pend.end
  /\ Clear(p)
  /\ Ends(p, Newer(p))
  /\ UNCHANGED <<history, row, host, recomp, counters>>

\* retryable-failure: one of the databases refuses; so does the pass.
DrainFails(p) ==
  /\ pc[p] \in {"cutting", "persisting"} /\ faults < MaxFaults
  /\ faults' = faults + 1
  /\ pc' = [pc EXCEPT ![p] = "idle"]
  /\ pass' = [pass EXCEPT ![p] = None]
  /\ UNCHANGED <<history, row, markers, recomp, signals, cache, current, commands, passes>>

-----------------------------------------------------------------------------
PassStep(p) == Preflight(p) \/ Deliver(p) \/ Finish(p) \/ Drain(p) \/ Cut(p) \/ Persist(p)

Background(p) ==
  \/ \E e \in Messages : Publish(p, e)
  \/ RecompPromotes(p) \/ RecompSignals(p) \/ RecompMarks(p)
  \/ Flush(p) \/ Crash(p)

PrefixNext ==
  \E p \in Processes :
    \/ Background(p)
    \/ \E inputs \in SUBSET Inputs : Begin(p, inputs)
    \/ \E e \in Messages : AwaitRun(p, e)
    \/ PassStep(p)
    \/ Refuse(p) \/ DrainFails(p)

\* A pass and a recomp go on once begun, and the session is used: some pass in
\* every process is, again and again, one the scheduler lets execute.
PrefixFairness ==
  \A p \in Processes :
    /\ WF_vars(PassStep(p))
    /\ WF_vars(RecompSignals(p) \/ RecompMarks(p))
    /\ SF_vars(\E inputs \in SUBSET Inputs : "execute" \in inputs /\ Begin(p, inputs))

PrefixSpec == PrefixInit /\ [][PrefixNext]_vars /\ PrefixFairness

-----------------------------------------------------------------------------
(* Properties. *)

\* No message vanishes from a prompt, and none is shown twice: the raw messages
\* start right behind what the rendered pair summarises, whatever was published,
\* rebuilt, refused or restarted before the pass or in its course.
HistoryServedOnce ==
  \A p \in Processes :
    pc[p] \in {"delivered", "cutting", "persisting"}
    => pass[p].from = pass[p].out.pair.upto + 1

\* As long as passes are calm the prompt stays as it is, whatever is published,
\* drained, refused or restarted meanwhile: the provider's cache keeps its value.
\* A calm pass finds no reason of its own to render anything.
Calm(p) ==
  /\ ~flush[p]
  /\ pass[p] # None => /\ pass[p].inputs = {} /\ ~pass[p].awaited
                      /\ pass[p].pair # None /\ pass[p].pair.mut = mutation

DeferPassesAreStable ==
  [][(\A p \in Processes : Calm(p)) /\ recomp' = recomp
     => \A p \in Processes : current[p] => current'[p]]_vars

\* What the host no longer sends, and what the history covers: the refinement
\* mapping to HostCut.
Hidden == {m \in Messages : \E u \in Users, h \in host : m < u /\ u <= h}
Summarised == {m \in Messages : m <= top}

\* The host hides messages for good and only such as a stored compartment covers,
\* whichever process moves the marker, and wherever it dies.
Window == INSTANCE HostCut WITH summarised <- Summarised, hidden <- Hidden
CutProperty == Window!CutSpec

\* The stored pair that defer passes replay reaches at least as far as the host's
\* window has been cut, so that a replay leaves no gap.
CutIsSummarised == row # None => \A m \in Hidden : m <= row.upto

\* The host's window starts at the boundary of e or later.
Reaches(e) == \E h \in host : \A u \in Users : u <= e => u <= h

\* A publication's request to move the marker is dropped only once the host's
\* window is there, or its compartment is gone.
PublicationIsKept ==
  [][\A e \in Messages :
       pending # None /\ pending' = None /\ pending.end = e
       => e \notin ends' \/ Reaches(e)']_vars

\* Every request to move the marker is met in the end, or overtaken, however
\* often passes are refused, processes die and databases refuse (MaxFaults).
CutReachesHost ==
  \A e \in Messages :
    (pending # None /\ pending.end = e)
    ~> (pending = None \/ pending.end # e \/ Reaches(e))

\* After a recomp the host hides nothing that no compartment covers.
HiddenIsSummarised == recomp = None => Hidden \subseteq Summarised
=============================================================================
