# Home Assistant core: a TLA+ verification project

This directory specifies the concurrent core of Home Assistant: the parts of
`src/homeassistant` that every integration runs on and whose correctness depends
on the order of events, on timers, on cancellation and on failure. It models the
code as it is, checks it with TLC on small instances and proves the central
invariants with TLAPS for every instance.

Home Assistant is one asyncio event loop. Between two `await`s a task runs
alone, so a step of every model is the code between two awaits. What interleaves
are the tasks, the loop's timers, the executor threads that do file I/O, the
cancellation of a task at the await it is suspended at, and the shutdown of the
process.

## The system

| Component | State | Operations | What is hard | What makes it correct |
|---|---|---|---|---|
| Config entry life cycle (`config_entries.py`) | `state`, `disabled_by`, `setup_lock`, `_async_cancel_retry_setup`, `_tries`, `_on_unload` of an entry; membership in `ConfigEntries._entries` | set up, unload, reload, enable/disable, remove, retry migration; the retry timer | calls overlap at the lock; a retry fires during any of them; a caller is cancelled; an integration fails | one operation at a time; an in-progress state has an owner; set-up and unload alternate; a retry exists exactly while it is wanted; removed or failed entries stay down |
| Config entry registry | `_entries`, by-domain and by-unique-id indexes | add, remove, update | indexes and entries drift apart | the indexes are a function of the entries |
| Flows and discovery (`data_entry_flow.py`) | flows in progress, their steps | init, configure, abort, finish | two answers to one step, an abort during a step, duplicate reauth flows | a flow finishes once; at most one reauth per entry |
| Storage (`helpers/storage.py`) | pending data, delay timer, final-write listener, write lock, preload cache, file | load, save, delayed save, remove, final write | executor threads and the loop interleave; timers are extended; shutdown; crash | the newest data reaches the file and is never overwritten by older data; nothing is lost on a clean stop |
| Debouncer (`helpers/debounce.py`) | `_timer_task`, `_execute_at_end_of_timer`, `_execute_lock` | call, schedule, cancel, shutdown | a call while the function runs, a timer that fires during it | every call is followed by an execution; no two executions overlap |
| Update coordinator (`helpers/update_coordinator.py`) | listeners, scheduled refresh, last result, request lock | refresh, set data, add/remove listener, shutdown | refresh races with shutdown and with pushed data | a coordinator with listeners keeps polling; one that was shut down does not |
| Scripts (`helpers/script.py`) | runs, run mode, stop events | run, stop, queued and parallel runs | restart while stopping, a script that calls itself | the mode's limit on runs; stop ends all runs |
| Component set-up (`setup.py`, `bootstrap.py`) | set-up futures per domain, components | set up a component and its dependencies | cycles, time-outs, two callers | set up at most once; dependencies first; no deadlock |
| Core life cycle (`core.py`) | `CoreState`, tracked tasks, timers | start, stop in four stages, block till done | tasks that outlive a stage | the stages follow each other, final writes come last |
| Event bus, states, services (`core.py`) | listeners, states, services | fire, listen, set, remove | listeners that unsubscribe during dispatch | a listen-once listener runs once |
| Registries (`entity_registry.py`, `device_registry.py`, ...) | entries, deleted entries, indexes | create, update, remove, restore, cleanup | each registry reacts to the other's events | no dangling references |
| Entity platform, entities | entities, tasks, polling | add, remove, set-up retry | slow platforms, retries | an entity is added once |
| Timeouts (`util/timeout.py`) | zones, freezes | enter, freeze, expire | nested freezes | a frozen timeout does not fire |
| Authentication, loader, configuration, templates, integrations, utilities | data | | mostly data and I/O | out of scope, see below |

Interactions: `setup.py` ends a component's set-up by setting up its config
entries; a config entry's set-up forwards to platforms and, through
`ConfigEntries._async_schedule_save`, to a delayed save of a `Store`; the
registries are stores too; coordinators raise `ConfigEntryNotReady` into a config
entry's set-up; the core's stop stages cancel timers, and fire the event on which
stores do their final write.

## Modules

| Module | Contents | Extends |
|---|---|---|
| `ConfigEntry` | one config entry and all its callers | |
| `EntryPromise` | what the manager promises an integration (abstract) | |
| `MCConfigEntry` | instances of `ConfigEntry` for TLC | `ConfigEntry` |
| `ConfigEntryProofs` | type correctness, mutual exclusion, no abandoned state | `ConfigEntry`, `QueueLemmas` |
| `ConfigEntryPromise` | the backoff, pending retries, the last `disabled_by`, the refinement of `EntryPromise` | `ConfigEntryProofs` |
| `Store` | one file of `helpers/storage.py`, its cache, its executor threads | |
| `MCStore` | instances of `Store` for TLC | `Store` |
| `StoreProofs` | type correctness, mutual exclusion, no old write, removal is final, the delay timer, loads | `Store`, `QueueLemmas` |
| `StoreDurability` | nothing is lost while nothing is removed or cancelled | `StoreProofs` |
| `QueueLemmas` | a queue of distinct waiters: append, tail, removal | |
| `Debouncer` | what a `Debouncer` decides at each entry point, and its lock | |
| `Coordinator` | a `DataUpdateCoordinator` composed with its debouncer | `Debouncer` |
| `Scripts` | scripts that call one another, in the four run modes | |
| `CoordinatorProofs` | type correctness, requests, listeners, the order of data, shutdown | `Coordinator`, `QueueLemmas` |
| `ScriptsProofs` | type correctness, runs exclude and replace each other, nobody waits for an ancestor | `Scripts`, `QueueLemmas` |
| `ComponentSetup` | the set-up of components and their dependencies | |
| `ComponentSetupProofs` | type correctness, order, one answer, no deadlock | `ComponentSetup` |
| `MCCoordinator`, `MCScripts`, `MCComponentSetup` | their instances for TLC | |

An operator that stands next to an action and is named after what it gets wrong
(`SaveIgnoresStop`, `CancelKeepsLock`, ...) is a plausible bug. No specification
uses it; replacing the action by it must break the property that PROJECT.json
pairs with it, which shows that the property depends on that line of code.

**The lock.** `ConfigEntry`, `Store` and `Debouncer` serialize on an `asyncio.Lock`, modelled as `owner`
and `waiters`. The lock is fair: a task takes it at once only if it is free and
nobody is queued, and a release wakes the first waiter, which runs in a later
iteration of the loop (`Acquire`). Between the two the lock is free with waiters
queued, and a newcomer queues.

### ConfigEntry

*State.* `entry` is the `ConfigEntry` object (its state, whether it is disabled,
whether a retry handle is stored, how many armed retries no handle refers to, the
backoff exponent, whether `_on_unload` holds callbacks). `known` is membership in
`ConfigEntries._entries`, `component` is membership of the domain in
`hass.config.components`, `stopping` is `hass.is_stopping`. `op` and `phase` are
the program counters of the tasks: what each was called for and the await it is
suspended at.

*Actions.* One per manager method (`Setup`, `Unload`, `Reload`, `SetDisabledBy`,
`RetryMigration`, `Remove`), one for the end of `_async_setup_component`
(`SetupComponent`), one for the retry timer (`FireRetry`), one for the lock's
hand-over (`Acquire`), and one per await of the task that holds the lock (`Load`,
`Migrate`, `SetupEntry`, `Cleanup`, `UnloadEntry`, `UnloadCleanup`,
`RemoveEntry`). Each chooses among the outcomes the integration may produce. A
step that ends one operation and begins the next without an await between them
(the set-up half of a reload, the deletion after an unload) is one action, by way
of the operators `Unloaded` and `BeginSetup`; `SetupWithContext` is the part of a
set-up up to its first await, `BeginSetup` adds the guards of `async_setup`. `Cancel` is `task.cancel()` at any
await in `Interrupts`; `Shutdown` is `async_stop`.

*Data.* The code counts `_tries` without end, and the model only up to `MaxTries`:
from there on it does not tell the counts apart, as the code's
`min(2**_tries * 5, SETUP_RETRY_MAX_WAIT)` does not tell the delays apart. No
property depends on the cap, and the length of the delay is not modelled. `TypeOK`
adds to the types that each task is at an await of what it was called for
(`Suits`): set-up, unload, reload and removal share their steps, and none may lead
into another's.

*Time.* There is no clock; timing enters in `RetryIsDue`. A retry is armed for at
least 5 s, so it never fires between a release of the lock and the next iteration
of the loop. It is armed before `_async_process_on_unload` waits up to 10 s for
the tasks of the failed set-up: with `SlowCleanup = FALSE` they end before the
retry is due, with `TRUE` the retry may fire first (this also stands for a retry
that waits for `EVENT_HOMEASSISTANT_STARTED` instead of a timer). The two
settings are two questions, asked by different runs.

*Fairness.* Every action of `Work` is weakly fair: the loop runs a woken waiter,
and an integration's coroutine returns. Home Assistant does not bound
`async_setup_entry`, so the second half is an assumption about integrations; a
hung integration blocks its own entry. A timer that stays armed fires. Calls,
cancellation and shutdown are not fair.

*Abstract specification.* `EntryPromise` says what an integration relies on:
`async_setup_entry` and `async_unload_entry` alternate, a set-up never starts on
an entry that still holds what an earlier one registered, that is gone, or that
failed to unload. `PromiseKept` is the refinement under the mapping in
`ConfigEntry`.

*Left out.* Subentries, reauth flows, and forwarding to platforms; the save that
the manager schedules after each change; the indexes of `ConfigEntryItems`;
`on_unload` callbacks that raise; what an entry's data is.

### Store

*State.* `store` is the `Store` object: the pending `_data`, the delay timer
`_delay_handle` (none, armed, or fired: the code keeps the handle of a timer that
has fired), the final-write listener, `_next_write_time`, `_read_only`. `cache` is
this key in `_StoreManager`: `_invalidated`, `_files`, `_data_preload`. `call` is
what each task was started for, `job` what it has given to the executor, `threads`
the executor jobs that go on although their task was cancelled. `disk` is the
file, `load` the shared read of `async_load`, `stage` is `hass.state`. `past` is
history and steers nothing: what was asked, dropped and removed.

*Data.* What is saved is represented by the number of the call that saved it;
removals are numbered too. "Newer" is a comparison of these numbers, and the file
holds the number of the call that last changed it.

*Actions.* `Save`, `DelaySave`, `Remove`, `MakeReadOnly` and `Load` are the
methods; `DelayAgain` is a delayed save of what is pending already, which has no
number and so may come without any bound; `Fire` is `_async_schedule_callback_delayed_write`, with the start of the
task it creates; `FinalWrite` is the listener of the final-write event; `Acquire`
and `Request` enter the body of `async with self._write_lock`; `WriteDone`,
`WriteFails`, `RemoveDone` and `RemoveFails` are the executor thread's effect with
the resumption of its task; `ListFiles`, `PreloadRead`, `PreloadStore` and
`DropPreload` are the manager's thread and its clean-up. `Cancel` drops a caller:
a job that still waits in the executor's queue never runs, one that has begun
becomes a member of `threads` and ends in `ThreadDone`, without the lock. `Stop`,
`FinalWrite` and `Close` follow `HomeAssistant.async_stop`; `Close` assumes that
`async_block_till_done` saw the writers end, where the code would give up after
its stage's time-out.

*Time.* `left`, `next` and `due` are remaining delays; `Tick` lets a unit pass and
may not overtake a timer that is due. They are what `loop.call_at` and the
comparison of `_next_write_time` with `loop.time()` depend on.

*Fairness.* The loop runs woken waiters and due timers, executor threads end, time
passes, and a stop that has begun reaches the final write (its stages have
time-outs). Calls are not fair.

*What delayed saves may do.* Every `async_delay_save` moves `_next_write_time` on, so
a client that keeps calling it puts the write off until Home Assistant stops (the
tests of the store expect it). `DelayAgain` makes such behaviours part of the
model, and `PendingIsWritten` states the assumption without which it fails: that
delayed saves stop coming.

*Left out.* Migration of old versions and the save it ends with; `data_func` and
when it is evaluated; the rename of a corrupt file; `async_set_load_empty` and the
load semaphore; the JSON encoder; a crash of the process in the middle of a write
(the file is replaced atomically, so a crash shows either `disk` before or `disk`
after `WriteDone`, and what was pending is lost by design).

### Debouncer and Coordinator

*State.* `deb` is the `Debouncer`: `_timer_task`, `_execute_at_end_of_timer`,
`_shutdown_requested` (which also clears the job) and the `immediate` option; its
lock is `owner` and `waiters`. `coord` is the coordinator: its data and whether the
last update succeeded, how many listen, whether the interval's timer is armed, its
options. `task` has the position and the local variables of each task, among them
`previous_update_success` and `previous_data`, which are read before the await and
used after it. Data is the number of the state of the `device` it was fetched from.
`past` is history.

*Composition.* Every refresh runs under the debouncer's lock, whoever asked for it:
`Coordinator` extends `Debouncer`, whose operators are the decisions of
`async_call`, `async_schedule_call`, `_handle_timer_finish` and the clause that ends
a run, and puts the refresh between them. `Callers` call the methods, `Pollers` are
the tasks of the interval's timer, `Finishers` those of the debouncer's.

A debounced call ends in two steps, as in the code: the task of the refresh ends
(`EndRefresh`), and in a later iteration the task that awaited it, at `returning`,
rearms the timer and releases the lock (`Return`). A first refresh returns with the
lock at once when it finds the entry in a state other than `SETUP_IN_PROGRESS`
(`ConfigEntryError`). `RequestKept` counts a request as served by a refresh that
takes its turn and does nothing because Home Assistant stops.

*Fairness.* The device answers or the fetch fails (`EndSetup`, `Fetched`, `Fails`:
weak fairness), and due timers fire. `Resume`, the hand-over of the lock, is
strongly fair: it takes one iteration of the loop, and a task is not cancelled in
exactly that iteration again and again.

*Left out.* Reauthentication flows, the `retry_after` of `UpdateFailed`, contexts of
listeners, `TimestampDataUpdateCoordinator`.

### Scripts

*State.* A call is one `Script.async_run` with the run it adds: `at` is its await,
`parent` the run that called it and waits, `stop` its `_stop` future, `waits` the
runs it stopped and waits for. `runs` is `_runs` of each script in order, `holder`
and `line` the queue lock and its waiters. `stopping` are the runs that callers of
`async_stop` wait for, `unload` and `shutdown` how far those have come.

*Actions.* `Start` and `CallScript` are `async_run`, with the checks of the mode and
of recursion in `Accepts`; `Restarted` and `Dequeued` begin a run that had to wait;
`EndRun` and `Returned` end one; `Interrupt` is what a stopped run does to the call
it waits for, `Cancel` the cancellation of a caller from outside. `StopScript`,
`Unload`, `Unloaded` and `Shutdown` are the rest of the interface.

*Fairness.* A run that nobody stops may wait for ever, so `EndRun` is not fair; one
that is stopped ends (`EndStopped`), and the loop runs whoever can go on.

*Left out.* What steps do; sub-scripts inside one sequence (`choose`, `repeat`,
`parallel`), whose runs end with the run they belong to; more than one call per run;
traces, variables, breakpoints. The queued runs that an unload interrupts are taken
to end before the caller of `async_unload` goes on.

### ComponentSetup

*State.* `future` and `at` are the future and the await of each domain's only
set-up; the domain is a key of `_DATA_SETUP` when `Held` says so. `dependsOn` is
the bootstrap's `integrations_after_dependencies`, its keys are `all_domains`, and
`domains` are those of them that are configured; `toLoad` are the keys of
`_DATA_SETUP_DONE`, at first all of `all_domains`. `owner` is who made the set-up's task (a caller, the
current `stage` of the bootstrap, or a dependent), `waits` what it awaits, `dying`
the tasks that were cancelled and have yet to raise. `manifest` is one of the
dependency graphs given; `told` is history.

*Actions.* `EarlyStage`, `LastStage` and `Call` ask for components. A stage takes a
group of domains, as far as they are in `all_domains`, and sets up those that are no
component yet with what they depend on (`StageDomains`): an early stage a group of
`STAGE_0_INTEGRATIONS` and `STAGE_1_INTEGRATIONS` (the constant `Groups`; these may
be set up without being configured), the last one the configured `domains`. `Resolve`, `DependenciesDone` (or
`DependencyRaised`), `Prepared`, `Started`, `Forward` and `Forwarded` are the code
between the awaits of `_async_setup_component`, each with the failures it may end in;
`CancelCaller`, `CancelOwner` and `StageTimeout` cancel, and `Die` is what a
cancelled set-up does. `Raises` is an exception that `_async_setup_component` lets
through. Which domains the bootstrap will load is computed as it does,
by `Circular` over dependencies and after_dependencies.

*Fairness.* A set-up goes on: `async_setup` is bounded by `SLOW_SETUP_MAX_WAIT`, and
the rest is assumed to return. The bootstrap comes to its last stage; it need not have
early ones, and no set-up is assumed to raise.

*What the bootstrap waits for.* `all_domains` has every dependency of what was
configured, also of integrations that are dropped because their after_dependencies
form a cycle. `WaitComponentReturns` is about what the last stage covers, the
configured domains that were not dropped and all they depend on (`Planned`); that
nothing else is left in `_DATA_SETUP_DONE` (`ToLoadIsSetUp`) is false, see finding 4.

*Assumption.* Integrations are layered (`Layered`): every set of them has a lowest
part that forwards entries to nothing in the set and depends on nothing in the set
but itself. For finitely many integrations that says that no platform depends,
directly or through other platforms, on an integration whose entries are forwarded
to it. The code does not check this, and such a pair would deadlock; the manifests
of the repository contain none.

*Cycles.* `Circular` says what `_resolve_integration_dependencies` finds in terms of
the graph, `Resolves` how it finds it. `MCComponentSetup` assumes that they agree, and
TLC checks that for every graph of three integrations.

*Left out.* Platforms set up from YAML (`async_prepare_setup_platform`, which also
processes dependencies, on behalf of a component that is not set up yet); the waits
for translations and import flows, in which a set-up can only be cancelled (`Die`) or
raise (`Raises`).

## Runs

| Run | Question | Bounds | Distinct states |
|---|---|---|---|
| `entry_timely` | `RetryOnlyWhileRetrying`, `Backoff`, and the refinement `PromiseKept`, when failed set-ups clean up in time | 4 tasks (an owner, two queued calls and a retry behind them), 4 kinds of calls, symmetry | 8 200 |
| `entry_live` | `LockOK`, `InProgressOwned`, `RetryPending`, `Settled` (the last `disabled_by` wins), `CallsReturn`, `RetryHappens` | 3 tasks, the 5 kinds of calls besides `unload`, slow clean-up, cancellation where the code recovers, no symmetry, `FairSpec` | 38 300 |
| `store_saves` | `NothingForgotten`, `CleanStop`, `NoOldWrite`, `SaveIsDurable`, `NotBeforeDue`, `PendingIsWritten` | 3 tasks, 3 saves, delays 0, 1 and 3, failing writes, read-only, stop; `FairSpec` | 307 000 |
| `store_removes` | `RemovedStaysRemoved`, `LoadNotOlder` | 4 tasks, 4 calls, loads, preload, failing writes and removals, symmetry | 1 449 000 |
| `store_cancels` | `LockOK`, `CallsReturn` | 3 tasks, 3 calls, cancellation anywhere; `FairSpec` | 21 600 |
| `coordinator` | `RequestKept`, `ListenersInformed`, `NoOldData`, `NoUpdateAfterShutdown`, `KeepsPolling` | a caller, a poller, a task of the debouncer's timer; 2 listeners, 2 states of the device; an immediate debouncer and one that is not; `FairSpec` | 257 000 |
| `scripts` | `OneAtATime`, `NewestWins`, `NoWaitForAncestor`, `QueueMoves`, `StopReturns`, `EndsAfterShutdown` | 2 scripts that call each other and themselves, 3 calls at a time; `FairSpec` | 189 000 |
| `component_setup` | `DependenciesFirst`, `NoCircularWait`, `OneAnswer`, `EverySetupEnds`, `WaitComponentReturns` | 3 domains, 7 graphs with chains, a shared dependency, a platform, cycles of each kind and a dependency of a dropped integration, any configured subset, early stages of one and of two domains in any order, one more caller; `FairSpec` | 640 000 |
| `removed_entry_set_up` | `RemovedStaysDown`: finding 1 | 3 tasks | |
| `save_then_removed` | `SaveIsDurable` with removals: finding 2 | 4 tasks, 4 calls | |
| `shorter_delay` | `ShorterDelayWins`: finding 3 | 2 tasks, 3 calls | |
| `dropped_dependents` | `ToLoadIsSetUp`: finding 4 | 3 domains, one graph, early stages without the third; `FairSpec` | |

*Why the bounds are enough.* Both components queue on one lock. An owner, a waiter
that will undo what it did, a waiter behind that one, and a timer that arrives
last are four tasks; a fifth only lengthens the queue. `entry_live` has three,
because liveness is checked without symmetry: the safety properties it checks were
checked with four tasks and all six kinds of calls too (60 900 states), except
`Settled`, which an `unload` on its own would contradict. `MaxTries` need only tell
no failed attempt from some. `MaxOrphans` bounds retries whose
handle was overwritten; one is enough to show one. `MaxCalls` bounds the calls on
a store: a save in the executor, one queued, one that comes after and a removal
among them are four. Three delays give a timer that is due before, with and after
`_next_write_time`.

A refresh in progress, one queued behind it and a call that changes the coordinator
meanwhile need one task of each kind; `TypeOK` and the safety properties were also
checked with two callers (2.5 million states). Three calls are a run, one that waits
for it, and one that stops, replaces or overtakes them; two scripts give calls of
oneself and through another. Two queued scripts that call each other do deadlock,
see below, so one of the two is never queued. Three domains are the shortest chain
and the shortest cycle with something that leads to it; the bootstrap, the caller and
the dependents are three parties that share a future.

Deadlock is not checked: an entry that is removed while Home Assistant stops has
nothing left to do, neither has a store whose calls are used up, and coordinators
that were shut down, blocked scripts and components that are set up have ended.

## Findings

1. `removed_entry_set_up`: `async_setup_locked` does not look the entry up again
   once it has the lock. A retry fires while a failed set-up is cleaning up and a
   removal waits; the removal deletes the entry, the retry sets it up.
2. `save_then_removed`: a writer takes whatever is in `_data` when it gets the
   lock. A save that is called after a removal is written by a task that queued
   before the removal; the removal then deletes the file, and the later save finds
   nothing left to write.
3. `shorter_delay`: once a call has put a pending write off with a longer delay,
   a call with a shorter delay rearms the timer but leaves `_next_write_time` at
   the later time; when the timer fires it puts itself off to that time.
4. `dropped_dependents`: two configured integrations that come after each other are
   dropped from what the bootstrap sets up. A dependency of one of them stays in
   `all_domains` and gets a future in `_DATA_SETUP_DONE`; no stage sets it up, so
   `async_wait_component` never returns for it.

Behaviour that the models show and that no document promises otherwise, so that
it is no finding:

- A retry that queues behind an unload that fails sets up an entry in
  `FAILED_UNLOAD`, because `async_setup_locked` refuses only `LOADED`.
  (`entry_timely` excludes it by its timing; `PromiseKept` states it.)
- `async_unload` catches `Exception`, not `CancelledError`: a caller cancelled
  inside `async_unload_entry` leaves `UNLOAD_IN_PROGRESS`, from which no call leads
  out. `InProgressOwned` therefore assumes `SafeInterrupts`.
- A load during a write reads the file, not the data on its way there.
  `LoadNotOlder` is stated for what was on disk or pending when the load began.
- A delayed save after the final write is never written.
- A cancelled caller of `async_save` takes its data along if its job had not
  begun, and releases the lock while its thread writes if it had.

In `Coordinator`:

- `async_set_updated_data` during a refresh: the fetch was older, and overwrites the
  pushed data. If it returns data equal to that before the push, a coordinator with
  `always_update=False` does not even tell its listeners.
- `async_set_update_error` during a refresh that then succeeds with equal data:
  `previous_update_success` was read before, so listeners keep seeing the failure.
  (`ListenersInformed` and `NoOldData` except both by `raced`.)
- The clause that ends a refresh arms the interval also after `async_shutdown`; that
  timer fires once and does nothing (`NoUpdateAfterShutdown`).
- A request whose timer ends during a refresh is given up ("any call is good"), also
  if that refresh had already read the device.
- A task that waits in `async_call` while the debouncer is shut down fails the
  assertion that it has a job.

In `Scripts`:

- Two scripts in queued mode whose runs call each other wait for each other's queue
  for ever; the check for recursion looks only at a run's own callers.
- A run whose caller is cancelled while it waits for the runs it restarts never
  starts and is never removed from `_runs` (`at = "lost"`): `is_running` stays true
  and `async_unload` raises. `EndsAfterShutdown` says
  what remains true.

In `ComponentSetup`:

- An after_dependency that fails makes its dependent fail if the dependent waited
  for it, and not if it had failed before.
- The cancellation of a set-up cancels the set-ups of dependencies that it had made
  itself, and so fails everybody who waits for those; the shared future protects
  only against the cancellation of those who wait.
- A component cancelled while its entries are set up stays in `components`, and
  callers get True, but its failed future stays too: a later dependent fails.

## Proofs

All theorems hold for every value of the constants that satisfies the assumption
named in the module (`ConfigEntryAssumption`, `StoreAssumption`,
`CoordinatorAssumption`, `ScriptsAssumption`, `ComponentSetupAssumption`): any set of
tasks, any choice of calls, delays and bounds, any scripts, any integrations.

| Theorem | States | Assumes |
|---|---|---|
| `ConfigEntryProofs!TypeCorrect` | `[]TypeOK` | |
| `ConfigEntryProofs!MutualExclusion` | `[]LockOK` | |
| `ConfigEntryProofs!NeverAbandoned` | `[]InProgressOwned` | `SafeInterrupts` |
| `ConfigEntryPromise!RetriesBackOff` | `Backoff` | |
| `ConfigEntryPromise!RetriesPending` | `[]RetryPending` | `Patient` |
| `ConfigEntryPromise!LastWordWins` | `[]Settled` | `Patient`, `"unload" \notin Ops` |
| `ConfigEntryPromise!RetriesWanted` | `[]RetryOnlyWhileRetrying` | `Timely` |
| `ConfigEntryPromise!RemovalIsFinal` | `[]RemovedStaysDown` | `Timely` |
| `ConfigEntryPromise!KeepsPromise` | `PromiseKept` | `Timely` |
| `StoreProofs!TypeCorrect` | `[]TypeOK` | |
| `StoreProofs!MutualExclusion` | `[]LockOK` | |
| `StoreProofs!FileMovesOn` | `NoOldWrite` | `NobodyCancelled` |
| `StoreProofs!RemovalIsFinal` | `[]RemovedStaysRemoved` | `NobodyCancelled` |
| `StoreProofs!TimerWaits` | `NotBeforeDue` | |
| `StoreProofs!LoadsAreFresh` | `[]LoadNotOlder` | `NobodyCancelled` |
| `StoreDurability!Remembered` | `[]NothingForgotten` | `Undisturbed` |
| `StoreDurability!CleanStopWrites` | `[]CleanStop` | `Undisturbed` |
| `StoreDurability!SaveDurability` | `SaveIsDurable` | `Undisturbed` |
| `CoordinatorProofs!TypeCorrect` | `[]TypeOK` | |
| `CoordinatorProofs!RequestsKept` | `[]RequestKept` | |
| `CoordinatorProofs!AllListenersInformed` | `[]ListenersInformed` | |
| `CoordinatorProofs!DataIsNotOld` | `NoOldData` | |
| `CoordinatorProofs!SilentAfterShutdown` | `NoUpdateAfterShutdown` | |
| `ScriptsProofs!TypeCorrect` | `[]TypeOK` | |
| `ScriptsProofs!RunsExclude` | `[]OneAtATime` | |
| `ScriptsProofs!NewestRunWins` | `[]NewestWins` | |
| `ScriptsProofs!NobodyWaitsForAncestor` | `[]NoWaitForAncestor` | |
| `ComponentSetupProofs!TypeCorrect` | `[]TypeOK` | |
| `ComponentSetupProofs!DependenciesComeFirst` | `[]DependenciesFirst` | |
| `ComponentSetupProofs!OneAnswerForAll` | `[]OneAnswer` | |
| `ComponentSetupProofs!NoDeadlock` | `[]NoCircularWait` | `Layered` |

*ConfigEntry.* The inductive invariant is `TypeOK /\ LockOK /\ (SafeInterrupts =>
InProgressOwned)`. `LockOK` is needed for `InProgressOwned`: that the state an
operation leaves fits the await it stops at only helps if no other task is at an
await. Every action that runs with the lock is shown to satisfy `Moved`, and one
lemma shows that `Moved` keeps the invariant, so the argument about the lock is
made once. The other actions (calls that queue, cancellation of a waiter, timers)
leave the entry alone or change the queue, by `QueueLemmas`.

*ConfigEntry, what a step does.* The operators of `ConfigEntry` nest: a reload is an
unload whose end is a set-up. `ConfigEntryPromise` first flattens them. Every step is
one of five: a call or a timer that leaves the lock alone (`Aside`), a caller that gets
the lock (`Admitted`, after which the entry has one of the five fates of `Outcome`),
one that queues (`Queues`), a task that goes on from one await to the next (`Continues`,
by one of the eight moves of `Goes`), and one that is cancelled in the queue
(`LeavesQueue`); `StepKinds` proves it, and every invariant below is shown to survive
each of the five.

*ConfigEntry, retries.* `Backoff` needs no assumption: `Counted` adds that a task in the
middle of a set-up or an unload still finds the state it has set, so that a task at
`loading` did not come from `SETUP_RETRY` unnoticed. `RetryPending` and `Settled` are
not inductive, since what keeps them true is the queue: an operation cancels the retry,
or changes `disabled_by`, before it waits for the lock. `Attended` says what must be
queued meanwhile: an unload, a reload or a removal for a disabled entry that is up or
coming up, anybody at all for an enabled one that has no timer or is not loaded.
Whoever gets the lock takes care of what he was queued for, and `AdmittedAttended`
shows that, when the call does nothing, there was nothing to do or somebody else is
queued for it. A caller that is cancelled in the queue takes that along, hence `Patient`
(`SafeInterrupts`, and no cancellation of waiters); `Reached` says that before the
domain is set up nobody asks for a set-up, which the first call after it relies on.

*ConfigEntry, refinement.* `InTime` relates the entry to the await of the task that has
the lock: callbacks are held exactly from `setting_up` to the end of the unload, a
retry is armed only in `SETUP_RETRY` and while the entry is registered, and nobody queues to
set it up. It is inductive under `Timely`: a retry cannot fire while a clean-up is on,
so it always finds the lock free, and `async_setup` and `async_retry_migration` are not
called. Without this the refinement is false, not only unproved: a set-up that queues
behind a removal is finding 1, and behind an unload that fails it sets up an entry that
is stuck. Under it, `EntryPromise` is implemented step by step: a caller that gets
the lock takes a step `Start`, `Stop`, `NotStopped`, `Remove`, `CancelRetry` or none, a
task that goes on one of `Hold`, `Release`, `Started`, `NotStarted`, `Start`, `Stopped`,
`NotStopped` or none, and all other steps are `CancelRetry` or none.

*Store, order.* `Inv` adds `DataOK` to the type and the lock: everything on disk,
in the executor or dropped has been asked for and is older than what is pending.
So whoever gets the lock writes something newer than the file, which is
`NoOldWrite`; and a file that exists is newer than the last removal. It fails when
callers are cancelled, since a thread without a task may then write at any time,
hence `NobodyCancelled`.

*Store, durability.* Data is *kept* if it or newer data is on disk, in the
executor, or was dropped with an error. `Durable` says that the newest data, the
data of every waiting `async_save` and what had been asked for at the final write
are kept, or still pending with `Someone` to take care of it: an armed timer, the
listener, or a queued writer. `TimersOK` is the strengthening this needs: a timer
that has fired left a writer or the listener behind, and a delayed save listens.
`Grows` (what is kept stays kept) is the lemma under each of the steps. Removals
clear pending data, and finding 2 shows that they do break the property; a
cancellation drops it. Both are excluded by `Undisturbed`, and `store_removes` and
`store_cancels` check what holds with them.

*Store, timer and loads.* `NotBeforeDue` holds for every interleaving of calls,
cancellations and the stop. `TimerOK` is what it rests on: while the timer is armed, the
history's `due` is no later than the time the timer has left or than
`_next_write_time`. A timer that fires has no time left and puts itself off while
`_next_write_time` is ahead, so when it does start a write the data is due.
`LoadNotOlder` needs `Inv`, which keeps the file from going back as long as no caller is
cancelled; `LoadOK` adds what a load has seen: while it reads, the file is no older than
its floor; what it has read was not either; and the preload cache answers only before
the first job begins, while there is nothing newer on disk.

*Coordinator.* A step that gets the lock passes on the debouncer, the coordinator and
the history as it has changed them so far, so the parts of `Inv` take them as
parameters and `EnterKeeps` is proved once for all who may get it. `RequestKept` is not
inductive: a queued debounced task refreshes only while no timer is set, so
`MergedOK` has to say that whenever a request waits, a timer that is set will also run
it; and `AskedOK` that no request waits behind a refresh in progress unless it was
merged into the timer, since the end of a refresh sets a timer that runs nothing.
`FetchOK` says what the local variables of the refresh in progress are worth after its
await: unless it was overtaken it knows what the coordinator holds, so that it is right
to tell nobody (`QuietIsRight`), and the data it will return is no older. The two action
properties are facts about one step, `StepOK`, proved along with the invariant.

*Scripts.* In queued mode exclusion is the lock: the run that executes is the one
that holds it (`ScriptOK`). In restart mode there is no lock, and `OneAtATime` is
inductive only with two more facts: all runs but the newest are stopped or lost
(`NewestWins` itself, in `ModeOK`), and a run that waits to start, and has not been
stopped, waits for every run that has started (`CallOK`). So when its wait is over
nobody executes, and no second run can be about to start, because only the newest
is not stopped (`NewestIsUnique`). The steps that only stop, cancel or move runs have
one lemma (`Calmer`), and so have adding a run, ending one and starting one.

*Scripts, ancestors.* A run may not wait for a run that waits for it: the stack that
`script_stack_cv` carries is what the recursion check looks at. `Stack` is defined without
recursion, as the smallest set that holds a run and, with a run, the one that called it
(`Lineage`), so that the proof can reason about sets closed under callers.
The invariant, `Family`, says that a caller waits for what it called (`CallerWaits`),
and that a run which waits to start, restarting or queued, has no run of its own script
among those that called it (`NotItsOwnAncestor`). It has checked its stack before it
began to wait, and the stack stays what it was: callers do not end before what they
have called, and a run that is added has called nobody yet.

*ComponentSetup.* `Inv` adds to the type, for each set-up, what its future, the
answers given and `components` say of one another (`AnswersOK`), and what it waits
for or no longer has to wait for (`WaitsOK`): a set-up that waits passed the check
for circular dependencies, and waits for every dependency that is not set up and
every after_dependency that is still to be loaded. `LoadOK` says that what is to be
loaded leads to no cycle in what is to be loaded; it survives because a smaller graph
has fewer cycles (`CircularGrows`). A step is `Onward`: results stay, and what leaves
`toLoad` has one; so the knowledge about every set-up that the step does not touch
stays true (`WaitsUntouched`). The deadlock argument: in a circle, take the lowest part by
`Layered`. There nobody waits for a platform, so each waits for a dependency or for an
after_dependency to be loaded, in that part. If part of it is to be loaded, that is a
cycle `LoadOK` excludes; if none is, it is a cycle of dependencies, which the
resolution has refused. Only the last step needs `Layered`.

*Model-checked only.* Every invariant and every action property the passing runs check
is now stated by a theorem. What is left to TLC is liveness, which the provers do not
reach: `CallsReturn` of `ConfigEntry` and of `Store`, `RetryHappens`, `PendingIsWritten`,
`KeepsPolling`, `QueueMoves`, `StopReturns`, `EndsAfterShutdown`, `EverySetupEnds` and
`WaitComponentReturns`; that the two definitions of a cycle in `ComponentSetup` agree,
which is an induction over data; and the four findings.

## Plan

Done: the life cycle of a config entry, the storage it is kept in, the coordinator
that feeds it, scripts, and the set-up of components.

What is left, in the order of its weight. Twelve runs are enough to keep the whole
project checkable in one sitting, so extensions join the run of their component.

1. `ConfigEntry`: forwarding to platforms, the reauth flow.
2. The stop stages of `core.py`, as an abstract specification that the final write
   of `Store` refines; `EventBus` (listen once, unsubscribe during dispatch).
3. YAML platforms in `ComponentSetup`; sub-scripts in `Scripts`.
4. The indexes of `ConfigEntryItems` and of the entity registry as functions of
   the entries; util/timeout; version migration in `Store`.

Theorems to come are those of the extensions above: each is to keep the theorems of
its component, and the final write as a refinement of the stop stages is one of its own.

## Not modelled

Authentication, the loader, configuration and validation, templates, conditions,
triggers, intents, translations, the integrations under `components/` and the
utilities are data transformations, I/O or instances of the mechanisms above; the
tests, scripts and build files are not part of the running system. PROJECT.json
lists each with its reason, and the parts the plan has left.
