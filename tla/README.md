# Reaper: a verification project

TLA+ models, TLC runs and TLAPS proofs for Reaper, a coding agent that runs as a
library, a CLI and an application server (`src/src`, TypeScript, one Node process
that serves many threads, turns and clients). All paths below are relative to the
repository's `src/`; module names are files of this directory.

The code is single threaded: a handler runs up to its next `await` in one piece. The
hard part of the system is what happens *between* those pieces. So the models take an
`await`-free piece of a handler as one action, split a handler exactly at its awaits,
and let every other handler run in between.

## 1. Inventory

### The application server (`src/app-server`, 9.3k lines)

| component | code | state | operations | what is hard | what makes it correct |
|---|---|---|---|---|---|
| Turn admission | `AsyncSemaphore`, `thread-manager.ts` | count of running turns, queue of waiters | acquire, abort while queued, release and hand-over | an abort races a hand-over; one permit lost stalls every thread | no permit is lost or made, first come first served, nobody waits beside a free permit, the queue drains |
| Managed thread | `ManagedReaperThread`, `managed-thread.ts` | metadata, active turn, abort signals, outcome, pending approvals, chain of saves | startTurn, executeTurn, finishTurn, steer, interrupt, requestApproval, resolveApproval, the setters, close | each handler awaits saves during which all others run; the save replaces the metadata | one turn at a time, a stop is honoured, no approval is given late, memory and disk agree, every turn ends |
| Steering inbox | `RuntimeTurnControl`, `runtime/events.ts` | open or closed, pending messages | steer, drain, drainOrClose, close | a message is accepted just as the turn ends | a completed turn has heard all it accepted |
| Registry of threads | `ReaperThreadManager`, `thread-manager.ts` | map of live threads, records, workspaces | start, resume, startTurn, close, list, delete, sweep, shutdown, restart | look, await, then act on what was seen; two ways to reach one thread; the sweep is not awaited | one object per thread, a busy object stays reachable, records agree with the objects, no owned directory is removed |
| Thread records | `thread-store.ts` | one JSON file per thread | save (write, rename), load, list, delete | a save that fails or meets a delete | a record is old or new, never half |
| Event bus | `ReaperThreadEventBus`, `event-bus.ts` | bounded log, next sequence, subscribers | publish, subscribe, unsubscribe, replayAfter | two eviction bounds, replay against live events | the log is a gapless window ending with the newest event; truncation is told |
| Subscriptions | `message-processor.ts`, `connection.ts` | per connection: subscriptions, writer queue; projection cache | thread/start and resume, unsubscribe, close | events arrive while a subscription awaits a snapshot; the client leaves meanwhile | a stream with no gap or repetition that is not announced |
| Approval routing | `outgoing-router.ts`, `message-processor.ts`, and `managed-thread.ts` | table of requests, owner of each turn, prompts shown, pending approvals | start or repeat a turn, ask, answer, expire, cancel, disconnect, shut down | one question is in four tables; reviewer, two timers and the end of the turn race | nothing is approved by a timeout, an interrupt, a close or a disconnect; who started the turn is asked; a settled prompt goes |
| Browser hub | `web/hub.ts` | tabs, the tab that claimed a turn, prompts | claim, pick the reviewing tab, ask, answer, tell the others, lose a tab | many tabs behind one connection; a tab leaves with a prompt up | the right tab is asked, and told what became of its prompt |
| Transports | `server.ts`, `web/gateway.ts` | sockets, tokens | accept, route, shut down | I/O | none of their own |
| Session projection | `session-projection.ts` | none: a fold of events | project | items that update in place | the same events give the same items |

### The runtime and below

| component | code | what it keeps and does | what makes it correct |
|---|---|---|---|
| Agent loop | `runtime/engine.ts`, `run-manager.ts`, `rescue-watchdog.ts` | conversation, budgets, faults; calls models and tools, drains the inbox | terminates, answers every tool call, honours a fault |
| Run cleanup, checkpoints | `runtime/cleanup-registry.ts`, `checkpoints.ts` | what a run must undo | every registration is undone once, in order |
| Tool batch scheduler | `execution/scheduler.ts`, `optimizer.ts`, `planner.ts`; tools at `tools/executor.ts` | islands of parallel calls, barriers, the writes not yet flushed, rollback, abort | a batch has the effect of its calls one after the other; what a result says of the disk is true |
| Write-ahead log and recovery | `recovery/wal.ts`, `session.ts`, `checkpoint.ts` | staged files over the disk, which other processes write too; a checkpoint | reads see the batch's own writes; a flush merges or refuses; a refused flush leaves nothing; others' edits survive |
| File mutation queue | `tools/write/file-mutation-queue.ts` | one tail of promises per path | exclusive per path, first in first out, the map shrinks |
| Tool executor and tools (23.5k lines) | `tools/` | files, processes, network | I/O |
| Browser lease and handoff | `browser/control-lease.ts`, the handoff and step of `browser/thread-runtime.ts`, `web/live-view.ts`, the pane's button | holder and generation, revision of the page, the handoff's record and listeners, what each pane shows | one controller at a time, a stale program is refused, lease and record agree, what the human did is reported |
| Thread browsers, pages, orphans (18k) | `browser/`, `app-server/thread-browsers.ts` | Playwright and Chrome | a page has one owner, orphans die |
| Model concurrency | `model/concurrency.ts` | limit, in-flight count, queue | the limit moves within its bounds, the queue drains |
| Model gateway and providers (10k) | `model/` | wire formats, retries | a tool result for each tool call |
| Context and journal (7.6k) | `context/` | transcript, pruning, compaction | pruning keeps call and result together |
| Policy and hooks | `policy/`, `governance/` | decision tables | tables |
| Skills, extensions, memory, verification, CLI, configuration | the rest | loading, text, I/O | no protocol between actors |

### How they interact

A client's request reaches `message-processor.ts`, which handles the requests of one
connection one after the other, and calls the registry. The registry finds or makes
the thread's object and starts a turn on it. The turn's runner waits for a permit of
the semaphore, which all threads share, and then runs the engine's loop. The loop
drains the inbox, asks for approvals through the thread, and publishes on the thread's
bus. The bus calls its subscribers synchronously; a subscription projects events and
puts them in its connection's bounded writer queue. An approval goes from the thread to
the processor, through the router to a WebSocket client or through the hub to one browser
tab, and the answer comes back the same way, each leg a promise. A batch of tool calls goes
from the loop to the scheduler, whose file tools write into the write-ahead log; barriers
and the end of the batch flush it to the disk. A human may take a thread's browser from the
agent's programs through a pane of the web client. Every change of a thread's
metadata is saved through one chain of promises. Nothing but records, journals and
workspaces survives a crash.

The hazards this structure exposes are listed one by one, with their lines, in
`PROJECT.json`. In short: state read before an await and used after it (the registry's
map, the metadata a save replaces, the subscriber a closing connection does not see);
promises that settle in an order nobody chose (fault, interrupt, end of turn, close);
queues at their limits (waiters, inbox, replay window, writer queue); a failed save
in the chain; a crash with a turn running; one question in four tables that different
events clear; a batch whose flush is refused, fails halfway or meets another process; and two
requests for the browser that cross at their awaits.

## 2. The modules

| module | models | state and actions |
|---|---|---|
| `PermitPool` | the abstract specification of turn admission | who holds, who is pending; request, grant, give up, release |
| `TurnSemaphore` | `AsyncSemaphore` and its use in `startTurn` | `active`, `waiters` as in the class; `pc` is where a runner's call of `acquire` stands. A hand-over passes the permit without changing the count; the resumed promise continues later, as its own action |
| `ManagedThread` | `ManagedReaperThread` with the inbox | `meta` and `disk` are the metadata and the record; `chain` is `persistChain`, whose head is the save in flight with the `image` it took; `phase` is where each turn's runner stands; one action per await-free piece |
| `ThreadRegistry` | `ReaperThreadManager` over a store | `threads` is the map, `obj` the objects, `disk`, `workspace` and `journal` the files; `op` is where a caller's request stands, `sweep` where the orphan sweep stands |
| `EventBus` | `ReaperThreadEventBus` | `records`, `nextSequence`, `retainedBytes`; `Retain` is `publish`, `ReplayAfter` is `replayAfter`, whose filter is `Above` |
| `EventReplay` | subscriptions on top of `EventBus` | per connection: `link`, the writer queue `out`, the `handler` between its awaits, what it `buffered` and what it will `replay`; the client's `cursor` |
| `ApprovalGate` | the abstract specification of an approval | each question is new, asked or settled; who was asked. Settled once; approved only by one who was asked |
| `ApprovalRouting` | the path of an approval: pending table, router, owners, prompts, hub | `ask` is the thread's table, `route` the router's, `prompt` who sees the question, `owner` and `claim` whose turn it is, `heard` what tabs were told. Promises that settle and their continuations are separate actions (`ClientAnswers`, `Continue`, `Resolve`; a tab's `ClaimTurn` after its `StartTurn`, in between the turn is `unclaimed`), as the awaits make them |
| `ToolBatch` | one batch: scheduler, log, recovery session and the engine's tail | `starts` is the partition into islands, `entries` the log, `plans` what a flush has still to write, `saved` the checkpoint, `pending` the results that wait for a flush, `res` and `seen` what the model reads. A text is a function from regions to who wrote them last, which is what a three-way merge tells apart; each edit from outside leaves a mark of its own. A flush takes two passes, and each file of the second is a step |
| `BrowserHandoff` | who drives a thread's browser | `lease`, `rev`, `handoff`, `notes` and `watching` as in the classes; `deaf` says that the listeners' connection is gone; `act` is the agent's program between its checks, `ask` each pane's request between the awaits of the endpoint, `pane` what its button shows, which a late answer to the request of its mount can make stale. `spell` is history: what has come between a takeover and its return |
| `MC*` | instances for TLC | values for the constants, symmetry sets |
| `*Proofs` | theorems | see section 5 |

`EventReplay` extends `EventBus` and adds to its `Retain` the synchronous calls of the
subscribers. `ManagedThread` models one thread in full and takes the semaphore as a
runner that is queued for as long as it likes; `ThreadRegistry` models several threads
and keeps of each object its status, its run and whether it has something to save.
What `ThreadRegistry` abstracts away of a thread is what `ManagedThread` has.
`ApprovalRouting` composes the thread's pending approvals, which `ManagedThread` has with every
cause of settling but without a reviewer, with the four classes that carry them.
`ToolBatch` is the scheduler and the log in one module, because the interesting state, the
writes that are on neither side, is shared by both.

Abstractions made everywhere: the text of prompts, errors and messages is dropped; an
event is a sequence number and a size; a setting is any setting the setters change and
save alike (one representative, plus the workspace, whose setter also awaits a `mkdir`);
timers are choices: a timer may fire at any moment, which covers every duration.
`JSON` files are replaced atomically, as `rename` does it.

Operators named as mutants ("Mutant of ...") are faulty versions of the definition
that follows them. They are not used by any specification. They record which mistake
each property is there to notice, and `PROJECT.json` says which property notices which.

## 3. The runs

Every run is `tlc -config <cfg> <module>`. Where a system may stop because the inputs
a bound allows are used up, the configuration says `CHECK_DEADLOCK FALSE`; the
semaphore may not stop, and there deadlock is checked.

### Runs that pass

**semaphore** (`MCTurnSemaphore.cfg`, four threads, limit 2). Two turns hold while two
wait, so queues of length two, hand-over to the older, and an abort at the head or the
tail of the queue all happen. Checks `PermitAccounting` (the count is that of the holders
and within the limit), `NoIdlePermit` (with an exact queue), `FirstComeFirstServed`, `QueueDrains`, and `ImplementsPool`,
the refinement of `PermitPool`: each step of the semaphore is one of the pool, or none.

**managed** (`MCManagedThread.cfg`, two turns of one thread, one message, one approval,
one setting changed once, one failing save). Two turns are enough for every overlap of
the end of one turn with the start of the next, because a third cannot start before the
second ends. One approval and one message are enough: they are independent of each
other, and the code treats all alike in one loop. One failure is enough since the
chain stays rejected. It shows

- `OneActiveTurn`: the turns between start and finish are exactly the active one, while saves
  of earlier turns are in flight;
- `StopIsHonoured`: an interrupted turn ends aborted and a faulted one failed, however
  the engine ended; when both come, the first is the reason;
- `SteersSettled`: a completed turn heard every message it accepted;
- `PendingApprovalIsLive`, `NoLateApproval`: no approval waits or is granted for a turn that is
  over or stopped, and no decision changes;
- `DiskSettles`: when nothing is left to save, disk and memory agree;
- `LastWordIsOutcome`: the engine publishes a terminal event of its own before the
  outcome is decided; the last one a client sees is the outcome.

**managed_live** (`MCManagedThreadLive.cfg`, two turns, both kinds of setting, no message
and no approval, no symmetry). `TurnsEnd`: every turn gives the thread back, unless the
chain of saves is broken; `CloseEnds`: `close()` returns, although it waits for a turn.
Messages and approvals are left out since no step on the way to the end waits for them:
`EngineEnds` is allowed whatever their state.

**registry** (`MCThreadRegistry.cfg`, two ids, one minted by the server and one chosen by
the client, two objects, one caller, one restart). The caller is one connection, which
is served one request at a time; the saves of the objects, the sweep, shutdown, a crash
and a restart run against it. Two objects suffice to see two objects for one id (the
first one forgotten by a list, a refused resume or a delete), and one object each for
two ids; a restart, the sweep and shutdown are once per process. A bound of the
model, `ObjectLeft`, is that a call that may make an object begins only while an unused one is left. Checks
`OneTurnPerThread`, `BusyIsReachable`, `LiveMatchesRecord`, `RunningHasTurn`.

**events** (`MCEventReplay.cfg`, two connections of a client, sizes 1 and 3, a window of
three events and four bytes, a writer queue of two, five events published, one rebirth
of the thread under its id). Each bound is small enough to bite: the window evicts by
number (1,1,1,1) and by bytes (3,3), one publication evicts several events (1,1,3),
a replay is truncated, the writer queue fills. Checks `WindowContiguous`, `WindowWeight`, and, for the
client, `StreamInOrder` and `CaughtUp`.

**approvals** (`MCApprovalRouting.cfg`, one WebSocket client, two tabs, one turn, two
questions, the thread's limit short, long or off). A client and a tab may race to start the
turn, so a `turn/start` is repeated and refused; two tabs are needed for one to leave and
another to be asked, and two questions for one tab to hold both. A second turn adds
nothing: no table relates two turns. Checks

- `ImplementsGate`, the refinement of `ApprovalGate`: a question is settled once, and approved
  only by the answer of a reviewer it was sent to: no timer, interrupt, close,
  disconnect or shutdown approves;
- `OwnerIsAsked`: who started the turn is asked as long as they are there, a tab from when it has claimed the
  turn (`gateway.ts:871-877`, after the promise of its `turn/start`), and unless the start was repeated;
- `PromptsAreCleared`: a settled question is on no screen, unless the thread's limit is
  longer than the router's 120 s;
- `TabsHearTheOutcome`: what a tab is told of a prompt settled elsewhere is what became of it.

**approvals_live** (`MCApprovalRoutingLive.cfg`, the same with one question, no symmetry).
`AsksSettle`: no tool waits forever. Questions do not wait for each other, so one is enough.

**batch** (`MCToolBatch.cfg`, every list of up to three calls of eleven kinds on two files, one of
the commit with two regions and one that does not exist yet, one edit by another process, one
write that fails, an abort at any moment, with and without a git repository). Three calls are what
it takes for a write, something that flushes, and a second write that is refused; two regions
separate what merges from what conflicts. A batch must come to its end, so deadlock is checked;
only `Finished` stutters. Checks

- `BatchIsSerial`: without edits, failures and aborts the disk is what the calls would make
  of it one after the other, and each read has seen what the calls before it left;
- `OkIsOnDisk`: with edits from outside, a region nobody outside touched is what the calls
  that say ok made of it;
- `OutsideEditsKept`: an edit from outside survives unless a call that says ok changed the same
  text, or it fell between a read and the write that belongs to it;
- `UndoneIsGone`: a write reported as rolled back is not on disk, as long as only barriers and
  the end flush and no write fails.

One edit is the bound of the run, for time. Two edits are a case of their own, the second over the
first in the same region after the log has read it: were the two texts the same mark, the log would
take the second for the first. With a mark for each edit all five properties hold for two edits as
well (`MaxEdits = 2`, 5.9 million states, run by hand), and the proofs take any number.

**browser** (`MCBrowserHandoff.cfg`, two panes, two URLs of which one is `about:blank`, two
takeovers, one failed request or lost connection; 3.9 million states). Two panes are needed for requests
that cross, two takeovers for one handoff's record to be met by another's return, two URLs for a page
that moves, and `about:blank` since the listeners ignore it. The agent's programs, the panes, a new
connection to the browser, the reaper and the delete of the thread interleave freely; after
a delete nothing need happen, hence `CHECK_DEADLOCK FALSE`. Checks

- `LeaseHasRecord`: the registry's lease and the runtime's record and listeners say the same;
- `HandoffReported`: where a human went is in the report when control returns, if the spell was *plain*. The
  listeners sit on the page that was driven at the takeover, and the report compares one URL at the two ends. So a
  spell is not plain any more when another request crossed it, one failed, the connection was made anew (the listeners
  are on the old one), the human drove a tab that was already open, or the reaper came.

### Runs that show a disagreement

Each checks one statement of the repository's docs, comments or tests, and TLC finds
a behaviour of the code that breaks it.

| run | the statement | what the code does |
|---|---|---|
| two_connections | a thread rejects overlapping turns (test `app-server-thread-manager.test.ts:61`) | two resumes of the same thread each make an object, and each object runs a turn |
| rolled_back | "This write was rolled back and is not present on disk." (`scheduler.ts:142`) | `git_status` and its like flush the log themselves; the scheduler still counts those writes as waiting, and a later refused flush reports them as rolled back |
| old_revision | "any action still holding a pre-handoff revision is refused" (`thread-runtime.ts:2461`) | the observer's reset restarts the revision, so an old number is current again; the second guard named there gets no generation to check |

### Counterexamples kept beside the runs

These configurations have no entry in `PROJECT.json`. Each, run by hand on the module named in the second column,
ends with a behaviour that breaks the property: they record how far the statements
above do *not* reach.

| configuration | module | property: the statement | what the code does |
|---|---|---|---|
| `MCSettingsStick` | `MCManagedThread` | `SettingsStick`: a new model is picked up by the next turn (`managed-thread.ts:253`) | `persist()` replaces the metadata by what was saved, so a setter called while a save is in flight is undone |
| `MCDeletedStaysDeleted` | `MCThreadRegistry` | `NoResurrection`: nothing recreates a record under the same id (`thread-manager.ts:224`) | a turn that runs on a deleted thread saves the record back when it ends |
| `MCSweepKeepsOwned` | `MCThreadRegistry` | `WorkspaceKept`: only a directory with no record is garbage (`thread-manager.ts:67`) | the sweep lists directories, then records, then removes; a thread started in between loses its workspace |
| `MCDisconnect` | `MCEventReplay` | `DisconnectUnsubscribes`: disconnecting removes the subscription (`README.md:314`) | a subscription that completes after the close stays on the bus |
| `MCReplayFits` | `MCEventReplay` | `ReplayFits`: the window is replayed on reconnect (`README.md:314`) | a replay longer than the writer queue closes the connection |
| `MCCacheIsSafe` | `MCEventReplay` | `CacheIsSafe`: the same sequence yields the same notifications (`session-projection.ts:657`) | a thread started again under a deleted id is served from its predecessor's cache |
| `MCNoBannerStays` | `MCApprovalRouting` | `NoBannerStays`: no prompt stays after its question is settled (`message-processor.ts:119`) | with a thread limit longer than 120 s the router's timer drops the request first, and nothing takes the prompt down |
| `MCRestoredTree` | `MCToolBatch` | `RestoredTree`: a restore brings back the tree of the checkpoint (`checkpoint.ts:11`) | it goes back to HEAD, without what was uncommitted |
| `MCStarterIsAsked` | `MCApprovalRouting` | `StarterIsAsked`: the tab that started the turn reviews its approvals (`hub.ts:248`) | until the tab has the result of its `turn/start` the hub does not know whose the turn is, and asks any tab that watches |
| `MCEveryReport` | `MCBrowserHandoff` | `EveryHandoffReported`: every navigation is reported | requests that cross, a new connection and the reaper lose the record or the listeners; a tab that was open before has none |
| `MCStartsUnderHuman` | `MCBrowserHandoff` | `NothingStartsUnderHuman`: no decided action lands after a takeover (`control-lease.ts:46`) | the lease is checked before the runtime is attached and the page captured, and not again |
| `MCRefusedReturn` | `MCBrowserHandoff` | `RefusedIsUndone`: a refused request changed nothing | a failure after the lease went back leaves the pane showing a human in control |
| `MCLeaseAfterDelete` | `MCBrowserHandoff` | `LeaseGoesWithThread`: a lease must not outlive its thread (`control-lease-forget.test.ts:70`) | a takeover under way when the thread is deleted is still carried out |

The passing runs say how far the same statements do hold: `OneTurnPerThread`
holds with one connection, `DiskSettles` holds although `SettingsStick` does not,
`BusyIsReachable` and `LiveMatchesRecord` hold for every thread that was neither deleted nor
swept, `UndoneIsGone` is `RolledBackNotOnDisk` for the batches in which no tool flushes
by itself, `OwnerIsAsked` is `StarterIsAsked`
for a turn that is claimed, and `HandoffReported` is `EveryHandoffReported` for a plain spell of control.

## 4. Fairness

Safety is checked under `Spec`, without fairness, except that the semaphore's run uses its
`FairSpec` for all its properties. Three specifications state fairness.

- `TurnSemaphore!FairSpec`: a call of `acquire` that has begun gets to its end, a promise
  that is resolved continues (`Resume`), and a runner that holds a permit releases it (the
  `finally` in `startTurn`, and runs end). None for beginning a turn or aborting one, so
  `QueueDrains` rests on the hand-over alone.
- `ManagedThread!FairSpec`: the save at the head of the chain settles one way or the other; the
  two-second timer of `close()` fires; a queued runner gets its permit or is refused
  (which is `QueueDrains`); the engine ends (models, tools and approvals have timeouts); and the
  continuation of `executeTurn` runs. Client calls are never fair. Nothing says that a save succeeds.

- `ApprovalRouting!FairSpec`: the timers of the thread and of the router fire, and promises that are settled
  continue. Reviewers, clients and the turn's end owe nothing, so `AsksSettle` rests on the timers.

The engine's own termination is assumed, not shown.

## 5. What is proved

The theorems hold for every value of the constants; the only assumptions are the
named ones in the modules: `ThreadsAssumption` and `LimitAssumption` (finitely many
threads, a limit of at least one), `SettingsAssumption`, `NoTurnAssumption`,
`BoundsAssumption` (bounds are natural numbers, `NoTurn` is no turn), `RegistryAssumption`,
`BusAssumption`, `ReplayAssumption`, `ReviewersAssumption` (clients, tabs and the hub are different),
`BatchAssumption` (a list has one to `MaxCalls` calls; the placeholders are no texts) and
`HandoffAssumption`. TLC evaluates them in every run of their module. Where a theorem needs more,
it says so: three of `ThreadRegistryProofs` assume `OneAtATime`.

**`TurnSemaphoreProofs`.** `SemaphoreInvariant` is the inductive invariant: types, the
counter equals the number of holders, that is at most the limit, the queue lists exactly
the waiting calls without repetition, and nobody waits unless the limit is used up. Each part needs
the others: the hand-over keeps the count right only because the head of the queue is
a waiting call, and that the limit holds after an abort needs that the queue loses exactly
that call. From it follow `TypeCorrect`, `PermitsAccounted`, `NobodyStranded`,
`AdmittedInOrder` (an action property), and `SemaphoreImplementsPool`, the refinement of `PermitPool`: initial
states map to initial states and each step to a step of the pool or a stutter.

**`ManagedThreadProofs`.** `OneActiveTurn` is not inductive: `StartSaved` puts a turn
in the queue because of a job in the chain, so the invariant `TurnInv` must say what each
job in the chain implies about its turn's phase (`JobOK`), and that a turn has at most one start
job there (`ChainOK`). With it, `OneTurnAtATime`. `AskInv` adds that pending approvals
belong to the active turn with no signal, and gives `PendingIsLive` and the
action property `NothingApprovedLate`.

**`ManagedThreadOutcomes`** goes on from `TurnInv`.

- `StopsAreHonoured`. The strengthening `StopInv` says that only a turn that is over has an
  outcome; the active turn is not over (`ActiveIsNotOver`), so no signal comes after the outcome,
  and `OutcomeOf` looks at the signal first (`OutcomeRespectsSignal`).
- `SteersAreSettled`. `SteerInv` says when an inbox is shut and why a message was discarded: its
  turn had a signal, or its engine did not end well, or it was not completed. The engine may return
  a normal result only after `drainOrClose` shut an empty inbox, or after a signal.
- `LastWordStands`: only `finishTurn`'s own announcement makes a turn done, and nothing moves it later.
- `DiskAgrees`: with the chain empty, the last step that emptied it put the same metadata on both sides.
- `ThreadTypes`: the full `TypeOK`, from all the invariants above and `MetaInv`.

**`EventReplayProofs`.** For any bounds of the log and the queues, any sizes and any number of connections.

- `WindowAlways`: the log is a contiguous window that ends with the newest event, also through the
  rebirth of a thread. Appending the next sequence keeps a consecutive run
  (`AppendConsecutive`), so does dropping a prefix (`DropConsecutive`), and `publish` drops a
  proper prefix (`EvictsSome`).
- `WeightAlways`: the byte count is the sum of what is retained, after evictions of any length
  (`WeightSplit`, `WeightAppend`).
- `InOrderAlways`, `CaughtUpAlways` and `TypeAlways`. Their invariant is `StreamInv`. `QueueInv`: the
  queue of a connection that is up is a run of events, with at most one warning in it, that goes on from the client's
  cursor or announces the gap, and ends with the newest event once the connection is registered. It is not inductive,
  since a subscription fills the queue with what it took before an await and what it buffered
  after. `ReplayInv` says of both that they are runs (`Run`) that meet: what was buffered begins right after what
  was replayed. That needs `LinkInv` (one connection is up, and a client reads no other), `HandlerInv` (what
  is attached, replaying and registered) and the window. The filters of `replayAfter` and of the
  subscriber drop nothing but a prefix of such a run (`AboveRun`).

**`ThreadRegistryProofs`.** For any number of callers, `TypeCorrect` (whose strengthening `CallsOK`
says what a call has found out by the time it is at its `pc`) and `RunningNeedsTurn`. For one
connection (`OneAtATime`), and any ids, objects and restarts, the invariant `Registry`: `Named`, an entry
of the map leads to an object of that id; `InUse`, an object with a turn, with something to save or about to be
closed is the one its id leads to; `Held`, so is the object a call works on; `Backed`, a live thread has
its record and its directory; and `Fresh`, what a call has read before an await is still so. `Fresh`
is where one connection is needed, and where `two_connections` breaks it. The parts need each other: a save
keeps `Fresh` because the saving object's id is live (`InUse`), a list keeps `InUse` because what it has read is `Fresh` and
live threads are `Backed`. From them `OneTurn`, `BusyReachable` and `RecordsAgree`.

**`ApprovalRoutingProofs`.** The invariant `IInv` is `TypeOK` with, for each question, `Talk`: which
combinations of the four tables the handlers leave behind, and, for each turn, `Held`: while its starter is there and
nobody repeated the start, the owner is the starter's connection, and so is the claim once it is made. `GateImplemented` maps the thread's table to
the gate's and shows each of the handlers a step of the gate or a stutter; the hard leaf is that `Resolve` approves only what the
reviewer's answer put into the route. `OneOutcome` and `PromptsDown` follow from `Talk`, `OwnerAsked` (an action property) from `Held`.

**`ToolBatchProofs`.** For any files, regions and lists of calls, any number of edits and failures:
`TypeCorrect`; `RunApart`, that the calls of one island touch different files or only look, from `Partition`, which
says that the islands are cut by the optimizer's rule; and `UndoneGone`. That a rolled back write
has left no mark needs the invariant `Kept`, which holds while the batch runs
`Quietly`, flushed by barriers only and without a failing write: a flush is the scheduler's and falls between
two islands (`Phase`), calls start with their island (`Order`), what waits for a flush declares its files
(`Waiting`) and is not on disk yet (`HeldBack`), and a call that does not say ok has left no mark on disk or in the log
(`Absence`). A merge and an edit bring no mark but their own (`HasMerged`, `HasLine`).

`BatchSerial` and `OkOnDisk` compare the batch with `Serially`, the calls that say ok one after
the other. Their invariant, `SerialInv`, holds while nobody aborts, no write fails and edits from outside meet
only batches that flush at barriers (`Calm`). Two texts are `Near` when they differ by edits from outside only.

- `OneByOne`: every file reads, through the log or through what a flush has still to
  write (`Coming`), near to what all calls so far amount to; the base of an entry is near the disk. A flush keeps this because
  it merges, and without a conflict a merge of near texts is near (`NearPlanned`).
- A refused flush takes calls back, so the invariant must know what is left without them. `Backed`: there is
  a b such that the disk is near what the first b calls amount to (`Split`), and every later call that has done something is
  held and in the log. A barrier moves b to itself.
- `Looked`: an edit between its read and its stage, and every call that has read, saw the file as the calls before it
  have left it. Calls run in any order within an island; `InIsland` and `FileBefore` say that none
  of them does anything to another's file, from `Partition`, so the order does not matter to a file (`SerialCall`).
- `Turns` and `Control`: who has an answer by when, who flushes when, and that a shell command finds an empty log.

`OutsideKept` needs `OutsideInv` on top. An edit from outside `Survives` in one of three ways: a call that cannot be
rolled back any more was made to change the region (`Safe`); the mark, or one of a later edit, stands on disk and the log will write it back
(`Carried`); or a flush is under way and is about to leave it (`Coming`). `Carried` is where the merge matters: the staged text
has the mark, or the base was read before the edit, which then counts as a change of theirs
(`CarriedPlanned`). It needs `Fresh`, that no text has the mark of an edit still to come, and `Deleted`, that a removal in the log is
some call's.

**`BrowserHandoffProofs`.** For any panes and pages, and any number of takeovers and failures:
`LeaseAndRecord`, `TypeCorrect` and the action property `NavigationReported`. `HandoffReported`
needs `Plain`: in a plain spell the listeners hear, a move has been noted, and the record they write into is
the one the return will read.

Facts about sums, filters and lists of any length need induction over data. The library's induction theorems
take a predicate as a parameter, which no backend instantiates, so the two modules that need one
prove `SetInduction` from the least element of a set (`WFMin`): it takes a set in the
predicate's place. Three uses carry the rest: a recursive function of the model exists
(`SumsExist`, `SeriallyExists`), two functions that go on alike are the same (`AlikeIsSame`), and a fact holds at each
of its steps.

Every invariant and every action property of a passing run is stated by a theorem, and so are the two refinements.
The inductive invariants were checked by TLC on small instances before they were proved, those of `ToolBatch` with two edits too. Model-checked only are the
four liveness properties, `QueueDrains`, `TurnsEnd`, `CloseEnds` and `AsksSettle`: liveness under fairness needs
`ENABLED`, which is out of the prover's reach.

## 6. What is not modelled, and why

- Transports, browsers and model providers: I/O with other programs, where a model
  would state what the other program does. Of the tools, what they do to the log and the disk is in
  `ToolBatch`; of the browser, where it is and who drives it is in `BrowserHandoff`.
- The engine's loop: 6,900 lines of prompts, heuristics and budgets. The thread's
  model has what the loop does to the thread, in any order it can; `ToolBatch` has what it does with
  the calls an abort left.
- The file mutation queue serialises writes that bypass the log, one path at a time, and the limit
  on model calls tunes itself by measured durations. Both are small queues like the semaphore's
  and share no state with what is modelled; they come first in the plan.
- Policy tables, configuration, skills and memory: no states and no actors.
- In modelled components: the temporary file of a record's save and its schema, time
  stamps and token counts in the metadata, the transcript a thread reads, git commands that
  fail, directories, the frames of the live view, the generation of a lease (no caller compares it), and
  errors that a handler returns without having changed anything, which are stutters.
  `ThreadRegistry` does not repeat the setters, steering, interrupts and approvals, which
  find the object and call it: `ManagedThread` has them.
- In `ToolBatch`, what the tool `restore_checkpoint` itself does to the disk after it has flushed (its checkpoints are
  those of `runtime/checkpoints.ts`, not the recovery session's, which are modelled), and the copies `snapshotBeforeMutation`
  leaves outside the files a batch works on. The first pass of a flush reads one file after the other and is one step:
  an edit from outside touches one file, and is before that step or after it as it was before or after the read
  of its own file. The same goes for the read inside `stageWrite`.
- In `BrowserHandoff`, what is on a page. Of the tabs one is followed; what the human does in the others is
  noted or not, as they opened or were open (`InputElsewhere`).
- In `EventReplay`, events that give several notifications or none, and the byte bound of the writer queue.

## 7. Plan

Done: `TurnSemaphore`, `ManagedThread`, `ThreadRegistry`, `EventBus`, `EventReplay`, `ApprovalRouting`,
`ToolBatch` and `BrowserHandoff`, in this order of importance. Left, in order:

1. `FileMutationQueue`: a tail of promises per path, as an implementation of an abstract lock.
2. `ModelConcurrency`: the self-tuning limit and its queue.
3. Pure algorithms against reference definitions: the session projection, supersede pruning and the
   repair of tool pairs, as recursive functions.

No safety property of a passing run is left without a theorem. The modules of the plan come with theirs: for
`FileMutationQueue` the refinement of a lock, for the pure algorithms what `SetInduction` gives of their recursive functions.
