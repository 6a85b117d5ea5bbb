# TLA+ models of magic-context

magic-context manages the context window of coding agents. While a session
runs, it numbers its messages, compacts old ones into *compartments* (ranges of
messages with a summary), keeps memories, and renders a prefix of the prompt
that stays byte-identical between passes so that provider caches hit. Hosts
(OpenCode 1 and 2, Pi) load it as a plugin; several processes, worktrees and
timers share one SQLite database, and nothing but that database coordinates
them. These modules model the parts where that is hard to get right: leases,
background runs that compute for minutes on rows read long ago, multi-step
rebuilds that must survive a crash, a prompt prefix and a host marker kept in two
databases, work handed to outside processes under claims, and schedules shared
by rival configurations.

Paths below are relative to `src/packages/plugin/src/`, where the TypeScript core
lives: `F` is `features/magic-context/`, `H` is `hooks/magic-context/`. The Rust
engine, an alternative to that core, lives in `src/crates/`.

## 1. Inventory

| Component | State it keeps | Operations | Correct when |
|---|---|---|---|
| Compartment lease (`F compartment-lease.ts`) | one row per session: holder, pid, acquired, expires | blocker read with liveness probe, reclaim of a dead owner, conditional upsert, renewal timer, release | a live, unexpired row is nobody's to take; a dead holder blocks for one TTL at most |
| Historian runs (`H compartment-runner*.ts`) | compartments, `activeRuns`, `compartmentInProgress` | start from a transform pass, chunk read, model call, publish transaction, noise append, finalizer | the history covers 1..n without gap or overlap; one run per process; it goes on after any failure |
| Wrapup (`H wrapup-orchestrator.ts`) | a marker with a TTL in `session_meta` | join a running historian, drive runs until nothing is left, end | historians do not overtake a live marker; the command ends |
| Recomp, partial recomp (`H compartment-runner-recomp.ts`, `-partial-recomp.ts`) | staging rows, range marker | seed, stage a pass, resume, refuse, promote, clean up | only whole, contiguous rebuilds are promoted; staged work is neither lost nor installed elsewhere |
| Historian validation (`H compartment-runner-validation.ts`) | none | decide which ranges a model answer may publish | accepted ranges extend the history contiguously |
| Dreamer lease (`F dreamer/lease.ts`) | holder, expiry, heartbeat, generation rows per conflict domain | acquire, renew or re-acquire, guarded write, release | a process that lost the lease writes no result |
| Dreamer scheduler (`F dreamer/task-scheduler.ts`, `storage-task-schedule.ts`, `plugin/dream-timer.ts`) | a schedule row per project and task | seed, reconcile, plan, gate, run a group, record outcomes, `/ctx-dream` | due slots are settled; no material is forgotten; disabling stays local |
| Cache passes (`H transform.ts`, `inject-compartments.ts`, `transform-postprocess-phase.ts`) | the stored pair m[0], m[1] with its boundary, four refresh signals per process, the last prepared cut | prepare, fold, soft refresh, replay, deliver, refuse | no message is lost from a prompt or shown twice; defer passes repeat the prompt byte for byte |
| Compaction marker (`H compaction-marker-manager.ts`, `F compaction-marker.ts`) | pending blob and marker state in the plugin's database, marker rows in the host's | defer, prove, move, clear | the host hides summarised messages only and for good; every request is met |
| Tags, drops, pending operations (`F tagger.ts`, `storage-ops.ts`) | tags, queued drops | queue, apply at execute passes | a queued drop is applied once |
| Emergency and 95% refusal (`H emergency-drop.ts`, `historian-drain-gate.ts`) | drain budget, refusal state | drop, refuse, drain | a refused session recovers |
| LKG prefix (`H lkg-slot.ts`) | last served prefix | park, freeze, replay | what is replayed was served before |
| Protected tail (`H protected-tail-boundary.ts`) | boundary snapshot | compute, confirm, repair | compaction stops before the tail |
| Message index (`F message-index.ts`) | dirty floor, watermark | index, reindex | nothing below the watermark is stale |
| Memories, embeddings (`F memory/`, `project-embedding-registry.ts`) | rows, vectors, a registry generation | promote, embed, sweep | data-centred |
| Git commit index, smart notes, nudges | coalescing flags, delivery rows | sweep, deliver | at most one sweep, one delivery |
| Storage, migrations, schema fence | schema version | open, migrate, refuse | one migrator |
| Claim lane of the Rust engine (`mc-store/src/historian_claim.rs`, `mc-module/src/historian.rs`, `historian_host.rs`, `lib.rs`; `H historian-host-runner.ts`) | a queue row per run with token, lease and deadline, the session's phase, a waiter in memory | queue, offer, claim, heartbeat, report, sweep, recover, adopt | one claim in force; a run is published once; an answer in the store is not lost; the session gets its slot back |
| Rest of the Rust engine (`mc-store`, `mc-module`) | context rows over two database files; a port of the transform | commit, recover | both files agree after a crash |
| Pi plugin, OpenCode 2 adapter, RPC, TUI, CLI, dashboard, tokenizer | glue | | |

How they interact: a transform pass decides on a `session_meta` snapshot and
may start a historian run without waiting for it; the run, a wrapup and a
recomp exclude one another through the compartment lease, within a process
through `activeRuns` (through which a wrapup also waits for a running
historian), and through two flags in `session_meta`. Publications queue signals
that later passes apply to the rendered prefix and the host's compaction marker.
With the Rust engine, a firing may be queued for a host process instead: claimants
poll, compute under a lease, and report to the waiting task or into the store.
The dreamer is driven by a timer in every process and by a command; its tasks
exclude one another per conflict domain through the second, generation-numbered
lease.

What is hard: rows read before an `await` of minutes and used after it; leases
that expire under a suspended machine; two statements where the code reads as one
step; a crash or a refused write between two of them; cleanup code that runs on
every return path; rival configurations rewriting one row. `PROJECT.json` lists
these hazards at their lines, with the properties that watch them.

## 2. Modules

    LeaseLock  <=  CompartmentLease  --  CompartmentLeaseProofs
                        | (used as the abstract lock by)
    HistoryLog <=  HistorianRuns     --  HistorianRunsProofs
               <=  RecompStaging     --  RecompStagingProofs
                   both on CompartmentRanges -- CompartmentRangesProofs
    HostCut    <=  ServedPrefix      --  ServedPrefixProofs
    ClaimLane  <=  HistorianClaim    --  HistorianClaimProofs
    FencedWriter <= DreamScheduler   --  DreamSchedulerProofs

`A <= B` reads "B implements A" (an instance of A with a refinement mapping is a
property of B). Each `MC` module gives the constants of the runs.

**CompartmentLease** is the lease row statement by statement. An attempt reads the
blocking row (`ReadBlocker`), probes its owner and reclaims a dead one
(`ReclaimDead`), upserts (`InsertRow`), renews on a timer (`RenewalFires`,
`RenewRow`) and releases (`ReleaseRow`). A renewal or an acquisition that throws
(`RenewalThrows`, `AcquireThrows`: a busy database, a refused write) leaves the row as
it is, and the renewal timer goes on; `missed` counts the renewals that threw since the
last grant. A statement compares the row with the
`Date.now()` its caller read earlier, so the reading (`stamp`) and the statement
are separate steps. `LeaseLock` says what it all amounts to: a grant goes from
nobody to one attempt and back. A statement of a process in `Punctual` runs
before time passes; the others may be suspended anywhere.

**CompartmentRanges** holds compartments as ranges of message ordinals, what it
means to be contiguous, and the answers validation may accept. **HistoryLog** is
the abstract history: extended at its end by a contiguous piece, or rebuilt.

**HistorianRuns** composes lease (as the abstract lock), wrapup marker, the
in-progress flag, `activeRuns`, historian runs and wrapup commands of several
processes. A run goes through the phases of `startCompartmentAgent` and
`runCompartmentAgent`; each step between two `await`s, and each SQLite
statement that another process may come in between, is an action. `offset` and
`base` are what the run read before its model call; `Publish` is the transaction
that tests the holder again. What the model returns is any answer validation
accepts; its prompts, facts and notes are left out. `SkipHome` is the early return of
`runCompartmentAgent` in the home project (`H compartment-runner-incremental.ts:237`),
for the processes in `HomeProcs`: the permission it asks is a module variable that every
plugin instance overwrites, so there a run may be skipped or not. A recomp is
`RecompReplaces`. A run slot is reused only after its id left the lease row, as
ids are random.

**RecompStaging** has the staging rows, the range marker, and the runs of
`/ctx-recomp` with and without a range: what they resume, refuse, promote and
clean up in their `finally` blocks. The historian is `HistorianPublishes`, which needs
the lease free, and `NoiseAppended`, which tests no holder and may come beside a recomp
(`H persist-filtered-noise.ts:30`). A session has at least one message (`MaxMsg > 0`);
full and partial runs differ in the `kind` of their plan.

**ServedPrefix** follows one transform pass from its first reads to the prompt that
goes out: `Begin` (what it read, and the cut it prepared), `AwaitRun` (it may wait
for a publication), `Preflight` (a fold before the host is asked), `Deliver` (fold,
soft refresh, replay, or a contended fold) and then `Finish`, or `Drain`, `Cut` and
`Persist`, which prove and apply the pending marker in two databases one after the
other. `Refuse` and `DrainFails` are the passes that come to nothing. Around it,
publications (`Publish`), recomps in three steps, flushes and crashes happen at
any await. A summary is the ordinal it reaches and a pair the moment of its m[0],
so that "byte for byte the same" is equality of pairs; a moment is reused once
nothing names it. Four signal sets per process decide what a pass consumes and
what it leaves to a later one. **HostCut** says what the marker amounts to: messages
become summarised, and only such become hidden, for good.

**HistorianClaim** is the claim lane of the Rust module: the session's row and the
queue rows (`session`, `rows`, written together in transactions), the in-memory
waiter (`slot`), the task of the session (`pc`, `job`) and the claims that host
processes believe they hold (`claim`). The module runs on one thread
(`mc-module/src/main.rs:17`), so what other actors may come between are its awaits,
while a crash may come between any two of its transactions: a stretch is one step
per transaction and everybody else waits until it is over (`Quiet`). A token is
the number of the claim it was minted for, and deadlines are kept as the time
left. Claimants may stop, fall silent, report late, or under a claim that was
replaced. **ClaimLane** says what the lane amounts to: numbered claims, one in force
at a time, the newest heard once, a run published once, by an answer that was heard.

**FencedWriter** numbers grants and lets only the latest one write.
**DreamScheduler** is the schedule rows of one project and one conflict domain,
ticks (`TimerTick`), commands (`RunManually`), groups from acquisition to release,
the heartbeat (`Beat`), guarded result writes (`Work`), and outcomes recorded by
a read (`Return` settles) and a later write (`Record`). The lease's clock is
reduced to what its comparisons tell apart: running, at its last instant, over.
A cron expression is a period, 0 the empty schedule. Of the gates, those that ask
what changed since `last_run_at` are modelled. A tick's plan is one step although
it is several statements; the stale plan, the stale outcome row and the
post-lease gate are separate steps.

## 3. Runs

| Run | What it shows | Bounds |
|---|---|---|
| `lease` | The five lease properties, with suspension and death of processes and refused statements at every step | 3 attempts, 3 processes, TTL of 3 renewal intervals, so that one refused renewal is survived and two in a row are not, clock to 4: a whole grant, its expiry and a second one |
| `historian_safety` | Contiguous history, log refinement, one run per process, marker race, owned start intents | 2 processes, one of them in a home project, 2 run slots (reused), 1 wrapup, 2 messages, one lost lease or marker, one fault, one rebuild |
| `historian_progress` | The history reaches its end again and again; registrations end; `/ctx-wrapup` ends although runs may fail for ever | as above with a fault, without losses under live runs and home projects, target 2 |
| `recomp_full` | Contiguous promotion; nothing else rewrites history; work staged under a marker is kept; staging never blocks for good | 3 messages, 2 processes in turn, full recomps and all ranges, a loss, a fault, two promotions |
| `recomp_rest` | Refutes that a partial recomp keeps what lies outside its range | 4 messages, the range of the last, one process, two crashes, two promotions |
| `recomp_refused` | Refutes that a refused partial recomp keeps the staged work it names | 2 messages, one process, one crash |
| `prefix` | No message is lost from a prompt or shown twice; the pair reaches what the host hides; calm passes repeat the prompt; every request to move the marker is met | 1 process, 3 messages (1 and 3 by the user), any number of passes, one command, one fault |
| `prefix_short_rebuild` | Refutes that what the host hides is summarised, where a recomp may end early | see its `.cfg` |
| `prefix_siblings` | `HostCut`, and no request dropped by the drain of an older one | 2 processes (symmetric), 2 messages, 3 passes, one fault |
| `host_claims` | The four safety properties of the lane, its refinement of `ClaimLane`, and that the slot comes free | 2 claimants, 2 firings, lease 1, budget 3: a claim lapses and is granted again within a run; 2 faults: a death while another is recovered from |
| `dream_safety` | Fencing, nothing forgotten, a disabled task is never due | 2 groups, an enabled and a disabled worktree, clock to 2, one upset (command, crash, refused write or lost lease) |
| `dream_settled` | A due slot is settled under alternating schedules | 2 groups, two schedules, clock to 1, one retry, one upset |

Two run slots or groups are the smallest number in which a suspended one meets
its successor; as slots are reused, behaviours contain more runs than slots. Two
or three messages allow an empty history, a partial one, one split in two ways,
and a range with something before and after it. Faults are bounded because each
needs only to happen once between two given steps, and TLC tries all of them.
Deadlock checking is off where a bounded clock, bounded firings or bounded faults
let the model stop; it is on for the dreamer, whose timer always fires.

Three runs refute a sentence of the repository, with one process and one recomp at a
time.

`recomp_rest`: `H compartment-runner-partial-recomp.ts:551` reports the compartments
before and behind the range as preserved unchanged. The range marker is cleared in a
statement after the promotion (324), so a death or a refused write leaves it; no full
recomp clears it. What a full recomp then stages and leaves behind when it dies looks
like the rows of that range, and the next partial recomp of the range resumes and
promotes them: the compartments before its range are new ones.

`recomp_refused`: the refusal of a partial recomp (188-189) says that a staged full
recomp can be resumed with `/ctx-recomp`. The return passes through the `finally`
block (569-575), which finds staging without a range marker and deletes it.

`prefix_short_rebuild`: a recomp that fails after some passes promotes those (`H compartment-runner-recomp.ts:294`),
so that the history may end before the marker, which counts as covering the new end
(`H compaction-marker-manager.ts:202`) and stays: the messages in between are in no
compartment and in no prompt until a later run covers them. The other runs on
`ServedPrefix`, and two of its theorems, assume that recomps promote no shorter
history (`AllowShorter`).

Seen while modelling, without a run:

- A run that lost its lease goes on writing staging rows beside the new holder
  (`F compartment-storage.ts:577` tests no holder), whose promotion reads them again
  after validating its own list (`H compartment-runner-recomp.ts:119`) and installs
  the mixture, though `docs/architecture/concurrency-limits.md:25` promises holder
  validation before writes. The runs on `RecompStaging` have one recomp at a time.
- A run that is skipped in the home project leaves the in-progress flag its start has
  set (`H compartment-runner-incremental.ts:237` returns before the `finally` that
  clears it): hence the condition on `skipped` in `StartIntentIsOwned`.
- Noise appended while another process rebuilds a range is dropped again by the
  promotion, which merges the tail it read at its start
  (`H compartment-runner-partial-recomp.ts:300`); a later historian run covers those
  messages anew. The history stays contiguous (`LogProperty`). `/ctx-flush` leaves staging and range marker
  alone. A promotion refused for a lost lease leaves staging that resumes beyond
  its own range and fails its validation. A release that throws in a recomp's
  `finally` keeps the process's registration (`H compartment-runner.ts:348`).
- A forced run that fails where the task is disabled clears the armed slot of the
  other worktrees. Run outcomes are written without an ownership test, although
  `F dreamer/storage-task-schedule.ts:220` calls them single-writer under the lease
  (the properties hold nevertheless: a stale write can only cause a repeated run).
  `docs/architecture/dreamer.md:37` says 60 seconds for a heartbeat that is 40.
- When two processes serve one session, a defer pass replays the pair it read at its
  start but trims at the boundary of the row as it is when it delivers
  (`H inject-compartments.ts:4285`); if the other process refreshed it in between, a
  message is in neither for one prompt. `HistoryServedOnce` is stated of one process.
- `mc-module/src/lib.rs:6217` says the release of a session "never loses durable
  output" because it is "reached only when the queue row is gone". After a death
  between taking up a stored answer and publishing it, the session is validating or
  publishing, its row with the answer is still there, and it is released: hence
  `StoredAnswersAreKept` holds until the answer is taken up, not until it is published.
  When the store refuses the first write of an adoption, which records the session as
  validating (`mc-module/src/historian.rs:3070`), the adoption deletes the row with the
  answer all the same (2822) although the session is still awaiting. The property states
  this as its one exception: it may only happen in the deletion that follows such a
  refusal.
- `finish_historian_pending_run` is called with its error ignored (2602). Refused, it
  leaves a row on offer that its session no longer waits for; the claim tests the
  session's run, so nobody gets it. This refusal is not modelled, and `OfferedIsWanted`
  does not hold of it.
- A death between an abandonment and the deletion of the row in an adoption
  leaves a row that nothing deletes, as the sweep looks at parked rows only; it is
  never offered (`OfferedIsWanted`). A report that arrives after its lease ran out
  and before the waiter wakes lets a rival be granted a run that has its answer, whose
  second answer is refused: this is why `LiveClaimsLast` speaks of runs without an answer.

## 4. Fairness

- Steps of a run, group or wrapup are strongly or weakly fair: they are
  continuations on an event loop, SQLite's busy handler lets a writer through in
  the end, and model calls have timeouts. Nothing is assumed about which way a
  call ends.
- The row of a dead holder expires: weak fairness, because clocks advance.
- `Productive` and `RepeatedRequests`: the user goes on using the session, and a
  stage that is tried again and again succeeds at some time. Only
  `HistoryAdvances` and `StagingIsResolved` need it: no scheduling can
  replace a model that never answers.
- A pass goes on once begun, and so does a recomp. For `CutReachesHost` an execute
  pass begins again and again in every process (strong fairness, as a pass may be at
  work each time): a session in use crosses the scheduler's thresholds again and again.
- In the claim lane the task and the recovery of the session run on (it goes on being
  used: each pass recovers it) and clocks advance. Nothing is assumed of claimants.
- The dream timer fires again and again in every process (`setInterval`); its
  renewals are not assumed fair.

## 5. Proofs

Every theorem holds for any numbers of processes, attempts, runs, groups and
messages and any values of the bounds.

**CompartmentLeaseProofs**, from `LeaseAssumption` (the renewal interval is
positive and shorter than the TTL). The inductive invariant adds to types and
bounded grants that a statement never carries a clock reading from the future
(`StampsArePast`); without it a late statement could grant more than a TTL.
From it follow the action property (no rival ends the grant of a living process)
and the refinement of `LeaseLock`. A punctual holder keeps its row through any streak of
refused renewals whose beats, and the one after them, fit in a TTL (with the code's five
minutes and one, three of them). This needs the further invariant that its timer is
never behind and that its row was granted one interval for each missed beat, and one
more, before the next beat (`PunctualAt`).

**HistorianRunsProofs**, with **CompartmentRangesProofs** on concatenations of
contiguous sequences. `TypeInv` is types and the range of chunk offsets.
Contiguity is not inductive alone: a run publishes what it computed from an old
history, so the invariant also says that an answer at hand is contiguous from
its offset, and that the holder of the lease read a history that is still the
current one. The holder test inside the publish transaction is the point of that
proof. The refinement of `HistoryLog`, one run per process, and the marker
race each have their own invariant over `TypeInv`. `StartIntentIsOwned` needs that
whoever `activeRuns` names is a run of that process that is still to pass its finalizer
(`RegistryIsTrue`): otherwise a trigger beside a run could set a flag that nobody clears.
It holds until somebody dies, a write is refused, or a run is skipped in the home
project under a set flag; each of the three does leave a flag without an owner.

**CompartmentRangesProofs** also proves that a later compartment of a contiguous
sequence starts behind the end of an earlier one, for any distance. That is an
induction; it is done by the least counterexample, which exists as `<` on the naturals
is well-founded (`Least`, from the library's theorem on minimal elements).

**RecompStagingProofs**, from `StagingAssumption`. `StagingTyped` needs that a run past
its start knows its plan (`Planned`), and that a range which touches a compartment has
a first and a last one (`SnapFinds`, by least and greatest elements: the code searches
from either end). The other theorems are about one recomp at work at a time
(`[]NoRivals`), as section 3 shows what two do to each other's staging. Two more
theorems say when that holds: no lease of a live run lapses (`UnlapsedAlone`, any number
of runs and processes, with crashes and releases that throw), or there is one run slot.

- `LogInv`, over `TypeInv`: what a run at work has in hand is what is staged, and what
  is about to be promoted is contiguous (`InStep`). The promotion reads staging again,
  so the refinement of `HistoryLog` rests on this agreement, not on the validation of
  the run's own list alone.
- `KeepInv`, for `MarkedWorkIsKept`, full recomps included: a run that stages or promotes
  knows whether passes are staged (`PassesKnown`), and a partial one has recorded its
  range (`Marked`), so that neither a fresh start nor the `finally` block, which deletes
  unmarked rows, can meet rows under a marker. What may go is what does not validate.
- `RestInv`, for compartments outside the range: every staged row belongs to an
  unchanged beginning of the history or starts within or behind the marked range
  (`StagedMixed`), and what is merged keeps the rows before the range and ends with the
  tail (`Merged`). When the merged list validates, a row before the range ends before
  its start, so it is not one of the second kind.

`RestIsKept` has a condition that the code does not ensure, and says so in its statement:
`MarkerFits`, what a full recomp works on under a range marker reaches the marked
range. The run `recomp_rest` violates the property without it; the theorem shows that a
marker that outlived its rebuild is the only way to do so. Full recomps that go on with
the rows of a partial one are allowed. `LogProperty` and `MarkedWorkIsKept` have no such
condition. What a full recomp staged without a marker is not protected:
`RefusedWorkIsKept` is refuted, and staging that is invalid is dropped.

**DreamSchedulerProofs**, from `DreamAssumption`. `HolderIsLatest` (a live group
named in the lease row has the latest generation) is why a guarded write may test
the holder alone, and gives the refinement of `FencedWriter`. `DatesInv` is why
nothing is forgotten: the promise is stated of stored rows and of the rows groups
are about to write from a stale read, and a run that wrote its work covered
everything up to its start. For `DisabledNeverDue` the invariant says of
the rows too which groups read earlier and are about to write that they are at rest
where the schedule is empty (`AtRest`, in `RestInv`).

**ServedPrefixProofs**, from `PrefixAssumption`. `TypeInv` adds to types that a pass
at work on a marker has a blob, ahead of the marker it replaces (`DrainsAhead`).
`PublicationKept` needs that the compartments end where the history does and that a
recorded marker, and one about to be persisted, is reached by the host's rows, in the
midst of rival drains (`Anchored`, in `KeptInv`). `CutRefines` needs that every target
on its way to the host (host rows, blob, the target of a pass at work) lies within the
history of its time (`TargetsKnown`, in `CutInv`). `CutSummarised` is the strongest:
whatever reached the host was in the boundary of a prompt that showed a pair at least
that long, so the stored pair reaches it too (`SummaryTold`, in `ToldInv`). The last two
assume `~AllowShorter`; the run above shows that they need it. `CalmPassesAreStable`
assumes nothing, and any number of processes: where a prompt shows the stored pair, the
pass at work has that pair too unless it has a reason to render (`Shows`), and what a
pass has rendered is what it will show (`Rendered`), in `ShowInv`. `AloneServedOnce` is
about one process and `~AllowShorter`. Its `ServeInv` says that until a pass renders, the
pair it read is the stored one, or is gone and older than a rebuild, so that the pass
folds; and that neither the remembered cut nor the window it prepared reaches beyond
what the pair summarises (`RowKnown`, `Serves`, over `ToldInv`). With a sibling the first
of these fails (section 3).

**HistorianClaimProofs**, from `ClaimAssumption` and `NoneAssumption`. `ClaimInv`
says how session and rows fit (`RunKept`, `RowsKept`), that the waiter outlives the
deadline of its row and knows its run (`TaskKept`), and that a row that may be
claimed, or is, belongs to the run the session waits for, under the same token
(`OpenKept`). From it follow that nothing unwanted is offered, that live claims
are admissible and that they last. `StoredKept` adds that a session with a stored
answer is awaiting, under the number of that answer, that a release finds no row, and
that a task about to delete the row is the adoption of this answer: no path but adoption
leads away from there. `StoredAnswersStay` includes the deletion after a refused record;
`DroppingStarts` shows that only the adoption's own task comes to it. `LaneKept` orders the claims: the
row of the waited run names the newest, each claim has one holder until it is
heard, and a published run is closed. It gives the refinement of `ClaimLane`.

Every invariant and action property of a passing run, and every refinement, is a
theorem. Only model-checked: liveness (`HistoryAdvances`, `RegistrationsEnd`,
`WrapupEnds`, `StagingIsResolved`, `SlotIsSettled`, `CutReachesHost`,
`SessionRecovers`), which rests on fairness and ENABLED and is outside the prover.
Refuted: `HiddenIsSummarised` where recomps may shorten the history,
`RefusedWorkIsKept`, and `PartialKeepsTheRest` without the condition of `RestIsKept`. Stated without proof of necessity: the conditions of the theorems on
`RecompStaging` and the single process of `AloneServedOnce`, which section 3
motivates by what the code does.

## 6. Not modelled, and why

Prompts, XML, parsing and repair of model answers, facts, notes, embeddings and
ranking are data; the models keep what they decide. The cron search and its DST
rules are reduced to periods. A change in the millisecond in which a dream run
starts is not told apart from an earlier one. Deletion of idle schedule rows and
the other gates of dream tasks are left out.

Of the cache passes: frozen passes, the force band, pending drops and heuristics
that ride a priced pass, and windows changed by undo, fork or native compaction,
with the re-anchoring that serves them. Of the marker: partly summarised messages
(`boundaryWouldDiscardUncoveredMessage`), boundary messages deleted in the host, fork
orphans and the OpenCode 2 boundary repair. Of the claim lane: the model chain of a
claimant, backoff, the in-module producer, runs of other sessions (but for their
sweep), and refused deletions of a queue row; the refusal of an abandonment is the death
of its task, which `Crash` includes.

Of the bounds: `historian_progress` has no lost leases under live runs and no home
project (with one loss its state graph with three liveness properties is beyond the time
of a run); the safety run has both. Two recomps at work at a time are outside every run
on `RecompStaging`.

Host adapters, RPC, CLI, dashboard
and tokenizer hold no protocol state. The Rust transform is a port compared with
the TypeScript one by golden data.

## 7. Plan

In this order:

1. The commit of context writes over two database files (`context_writes.rs`) and its
   recovery.
2. Tags and queued drops, as riders of the passes of `ServedPrefix`.
3. LKG park and freeze, and the drain budget with the 95% refusal.
4. Reminder delivery, the message index watermark and the protected tail.

Proofs to add: what a full recomp keeps of unmarked staging that validates, and which
parts of `AloneServedOnce` survive a sibling process.
