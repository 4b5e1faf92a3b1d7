----------------------------- MODULE ConfigEntry -----------------------------
(***************************************************************************)
(* The life of one config entry: homeassistant/config_entries.py, classes  *)
(* ConfigEntry and ConfigEntries.                                          *)
(*                                                                         *)
(* Any number of asyncio tasks call the manager at once: set up, unload,   *)
(* reload, enable or disable, remove, retry a migration.  They meet at the *)
(* entry's setup_lock, a FIFO asyncio.Lock.  An integration that is not    *)
(* ready arms a timer; when it fires, one more task queues for the lock.   *)
(* A step of the model is the code between two awaits.                     *)
(***************************************************************************)
EXTENDS Naturals, Sequences

Seqs == INSTANCE SequencesExt

CONSTANTS
  Tasks,           \* the asyncio tasks that may be busy with this entry
  NoTask,          \* "nobody": the lock is free
  Ops,             \* which of Operations the callers use
  Interrupts,      \* the phases in which a caller may be cancelled
  SlowCleanup,     \* may the on_unload tasks outlast a retry delay (5 s)?
  MaxTries,        \* the backoff 2**_tries * 5 stops growing from here on
  MaxOrphans       \* bound: armed retries that no handle refers to

Operations == {"setup", "unload", "reload", "disable", "remove", "retry_migration"}

\* Where a task can be.  All but "idle" and "waiting" hold the setup_lock.
Phases == {"idle", "waiting", "loading", "migrating", "setting_up", "cleanup",
           "error_cleanup", "unloading", "unload_cleanup", "removing"}

ASSUME ConfigEntryAssumption ==
  /\ NoTask \notin Tasks
  /\ Ops \subseteq Operations
  /\ Interrupts \subseteq Phases \ {"idle"}
  /\ SlowCleanup \in BOOLEAN
  /\ MaxTries \in Nat \ {0}
  /\ MaxOrphans \in Nat

VARIABLES
  entry,      \* the ConfigEntry object, see EntryType
  known,      \* is it in ConfigEntries._entries?
  component,  \* is its domain in hass.config.components?
  stopping,   \* hass.is_stopping
  owner,      \* the task that holds setup_lock
  waiters,    \* the tasks queued for it, first come first served
  op,         \* what each task was called for
  phase       \* at which await each task is suspended

lock == <<owner, waiters>>
vars == <<entry, known, component, stopping, owner, waiters, op, phase>>

(***************************************************************************)
(* The entry                                                               *)
(***************************************************************************)
States == {"not_loaded", "setup_in_progress", "loaded", "setup_error",
           "setup_retry", "migration_error", "unload_in_progress",
           "failed_unload"}

Recoverable == {"loaded", "setup_error", "setup_retry", "not_loaded"}

NoResetTriesStates == {"setup_retry", "setup_in_progress"}

EntryType ==
  [state    : States,
   disabled : BOOLEAN,          \* disabled_by is set
   handle   : BOOLEAN,          \* _async_cancel_retry_setup is set
   orphans  : 0..MaxOrphans,    \* armed retries it does not refer to
   tries    : 0..MaxTries,      \* _tries, as far as the backoff tells apart
   hooks    : BOOLEAN]          \* _on_unload holds callbacks to run

SetStateAlwaysResets(e, s) == [e EXCEPT !.state = s, !.tries = 0]

\* ConfigEntry._async_set_state
SetState(e, s) ==
  [e EXCEPT !.state = s,
            !.tries = IF s \in NoResetTriesStates THEN @ ELSE 0]

\* ConfigEntry.async_cancel_retry_setup
CancelRetry(e) == [e EXCEPT !.handle = FALSE]

RetryLaterGivesUp(e) ==
  [SetState(e, "setup_retry") EXCEPT
     !.handle = e.tries < MaxTries, !.tries = IF @ < MaxTries THEN @ + 1 ELSE @]

\* The ConfigEntryNotReady arm of __async_handle_config_entry_setup_error.
\* The new handle replaces the old one without cancelling it.  The code counts
\* _tries without end; from MaxTries on the model no longer tells the counts apart.
RetryLater(e) ==
  [SetState(e, "setup_retry") EXCEPT
     !.handle  = TRUE,
     !.orphans = IF e.handle THEN @ + 1 ELSE @,
     !.tries   = IF @ < MaxTries THEN @ + 1 ELSE @]

\* A retry fires: _async_setup_again clears the handle, whichever it refers to.
Fired(e) ==
  [e EXCEPT !.handle  = FALSE,
            !.orphans = IF e.handle THEN @ ELSE @ - 1]

\* The synchronous part of _async_process_on_unload: every callback is popped.
ReleaseHooks(e) == [e EXCEPT !.hooks = FALSE]

(***************************************************************************)
(* A task that holds the lock suspends at an await, or returns.            *)
(***************************************************************************)
Suspend(t, o, p, e) ==
  /\ entry' = e
  /\ owner' = t
  /\ op'    = [op EXCEPT ![t] = o]
  /\ phase' = [phase EXCEPT ![t] = p]

Return(t, e) ==
  /\ entry' = e
  /\ owner' = NoTask
  /\ op'    = [op EXCEPT ![t] = "none"]
  /\ phase' = [phase EXCEPT ![t] = "idle"]

\* __async_setup_with_context, up to its first await.
SetupWithContext(t, o, e) ==
  \/ /\ e.state \in {"loaded", "setup_in_progress"}
     /\ Return(t, e)
  \/ /\ e.state \notin {"loaded", "setup_in_progress"}
     /\ Suspend(t, o, "loading", SetState(e, "setup_in_progress"))

BeginSetupIgnoresDisabled(t, o, e) ==
  /\ UNCHANGED known
  /\ SetupWithContext(t, o, e)

\* ConfigEntry.async_setup
BeginSetup(t, o, e) ==
  /\ UNCHANGED known
  /\ \/ e.disabled /\ Return(t, e)
     \/ ~e.disabled /\ SetupWithContext(t, o, e)

UnloadedSetsUpAgain(t, o, e, ok) ==
  \/ /\ o = "remove"
     /\ known' = FALSE
     /\ Suspend(t, o, "removing", e)
  \/ /\ o \in {"unload", "reload"}
     /\ \/ ok /\ ~e.disabled /\ BeginSetup(t, o, e)
        \/ (~ok \/ e.disabled) /\ Return(t, e) /\ UNCHANGED known

\* What the caller does with the result of ConfigEntry.async_unload.
Unloaded(t, o, e, ok) ==
  \/ /\ o = "remove"
     /\ known' = FALSE
     /\ Suspend(t, o, "removing", e)
  \/ /\ o = "reload"
     /\ ok /\ ~e.disabled
     /\ BeginSetup(t, o, e)
  \/ /\ \/ o = "unload"
        \/ o = "reload" /\ (~ok \/ e.disabled)
     /\ Return(t, e)
     /\ UNCHANGED known

BeginUnloadKeepsRetry(t, o, e) ==
  \/ /\ e.state = "not_loaded"
     /\ Unloaded(t, o, e, TRUE)
  \/ /\ e.state \notin Recoverable
     /\ Unloaded(t, o, e, FALSE)
  \/ /\ e.state \in Recoverable \ {"loaded", "not_loaded"}
     /\ Unloaded(t, o, SetState(e, "not_loaded"), TRUE)
  \/ /\ e.state = "loaded"
     /\ Suspend(t, o, "unloading", SetState(e, "unload_in_progress"))
     /\ UNCHANGED known

\* ConfigEntry.async_unload, up to its first await.
BeginUnload(t, o, e) ==
  \/ /\ e.state = "not_loaded"
     /\ Unloaded(t, o, e, TRUE)
  \/ /\ e.state \notin Recoverable
     /\ Unloaded(t, o, e, FALSE)
  \/ /\ e.state \in Recoverable \ {"loaded", "not_loaded"}
     /\ Unloaded(t, o, SetState(CancelRetry(e), "not_loaded"), TRUE)
  \/ /\ e.state = "loaded"          \* no async_unload_entry
     /\ Unloaded(t, o, SetState(e, "failed_unload"), FALSE)
  \/ /\ e.state = "loaded"
     /\ Suspend(t, o, "unloading", SetState(e, "unload_in_progress"))
     /\ UNCHANGED known

\* The body of "async with entry.setup_lock" in each manager method.  A reload
\* or a removal looks the entry up again, a set-up and an unload do not.
Enter(t, o, e) ==
  \/ /\ o = "setup"
     /\ BeginSetup(t, o, e)
  \/ /\ o = "unload"
     /\ BeginUnload(t, o, e)
  \/ /\ o = "reload"
     /\ known /\ e.state \in Recoverable
     /\ BeginUnload(t, o, e)
  \/ /\ o = "remove"
     /\ known
     /\ BeginUnload(t, o, e)
  \/ /\ \/ o = "reload" /\ (~known \/ e.state \notin Recoverable)
        \/ o = "remove" /\ ~known
     /\ Return(t, e)
     /\ UNCHANGED known

RequestUnlocked(t, o, e) ==
  /\ phase[t] = "idle"
  /\ Enter(t, o, e)
  /\ UNCHANGED waiters

RequestOvertakes(t, o, e) ==
  /\ phase[t] = "idle"
  /\ \/ owner = NoTask /\ waiters = <<>> /\ Enter(t, o, e) /\ UNCHANGED waiters
     \/ /\ owner # NoTask \/ waiters # <<>>
        /\ waiters' = <<t>> \o waiters
        /\ entry' = e
        /\ op' = [op EXCEPT ![t] = o]
        /\ phase' = [phase EXCEPT ![t] = "waiting"]
        /\ UNCHANGED <<owner, known>>

\* asyncio.Lock.acquire: at once if the lock is free and nobody is queued.
Request(t, o, e) ==
  /\ phase[t] = "idle"
  /\ \/ /\ owner = NoTask /\ waiters = <<>>
        /\ Enter(t, o, e)
        /\ UNCHANGED waiters
     \/ /\ owner # NoTask \/ waiters # <<>>
        /\ waiters' = Append(waiters, t)
        /\ entry' = e
        /\ op' = [op EXCEPT ![t] = o]
        /\ phase' = [phase EXCEPT ![t] = "waiting"]
        /\ UNCHANGED <<owner, known>>

(***************************************************************************)
(* Calls                                                                   *)
(***************************************************************************)
Call(o) ==
  /\ o \in Ops
  /\ known
  /\ UNCHANGED <<component, stopping>>

\* ConfigEntries.async_setup, for a domain that is set up.
Setup(t) ==
  /\ Call("setup") /\ component
  /\ entry.state = "not_loaded"
  /\ Request(t, "setup", entry)

\* ConfigEntries.async_unload
Unload(t) ==
  /\ Call("unload")
  /\ entry.state \in Recoverable
  /\ Request(t, "unload", entry)

\* ConfigEntries.async_reload, for a domain that is set up.
Reload(t) ==
  /\ Call("reload") /\ component
  /\ Request(t, "reload", CancelRetry(entry))

\* ConfigEntries.async_set_disabled_by
SetDisabledBy(t) ==
  LET e == CancelRetry([entry EXCEPT !.disabled = ~@]) IN
  /\ Call("disable")
  /\ \/ /\ component
        /\ Request(t, "reload", e)
     \/ /\ ~component
        /\ phase[t] = "idle"
        /\ entry' = e
        /\ UNCHANGED <<known, lock, op, phase>>

\* ConfigEntries.async_retry_migration.  The state changes before the lock is
\* asked for.
RetryMigration(t) ==
  /\ Call("retry_migration") /\ component
  /\ entry.state = "migration_error" /\ ~entry.disabled
  /\ Request(t, "setup", SetState(entry, "not_loaded"))

\* ConfigEntries.async_remove
Remove(t) ==
  /\ Call("remove")
  /\ Request(t, "remove", entry)

\* _async_setup_component has set up the domain and starts its enabled entries.
SetupComponent(t) ==
  /\ ~component
  /\ component' = TRUE
  /\ UNCHANGED stopping
  /\ \/ /\ known /\ ~entry.disabled
        /\ Request(t, "setup", entry)
     \/ /\ ~known \/ entry.disabled
        /\ phase[t] = "idle"
        /\ UNCHANGED <<entry, known, lock, op, phase>>

\* A retry fires at least 5 s after it was armed.  A waiter that was woken runs
\* sooner than that; the tasks of a failed set-up may take up to 10 s to end.
RetryIsDue ==
  /\ owner = NoTask => waiters = <<>>
  /\ SlowCleanup \/ \A t \in Tasks : phase[t] # "cleanup"

\* _async_setup_again, as a callback of async_call_later.
FireRetry(t) ==
  /\ entry.handle \/ entry.orphans > 0
  /\ RetryIsDue
  /\ UNCHANGED <<component, stopping>>
  /\ \/ /\ ~stopping
        /\ Request(t, "setup", Fired(entry))
     \/ /\ stopping
        /\ phase[t] = "idle"
        /\ entry' = Fired(entry)
        /\ UNCHANGED <<known, lock, op, phase>>

\* The first waiter runs after the lock was released.
Acquire(t) ==
  /\ owner = NoTask
  /\ waiters # <<>> /\ Head(waiters) = t
  /\ waiters' = Tail(waiters)
  /\ Enter(t, op[t], entry)
  /\ UNCHANGED <<component, stopping>>

(***************************************************************************)
(* The steps of the task that holds the lock                               *)
(***************************************************************************)
At(t, p) ==
  /\ owner = t /\ phase[t] = p
  /\ UNCHANGED <<component, stopping, waiters>>

\* integration.async_get_component() and async_get_platform("config_flow"),
\* then async_migrate up to async_migrate_entry.
Load(t) ==
  /\ At(t, "loading")
  /\ UNCHANGED known
  /\ \/ Return(t, SetState(entry, "setup_error"))
     \/ Return(t, SetState(entry, "migration_error"))
     \/ Suspend(t, op[t], "migrating", entry)
     \/ Suspend(t, op[t], "setting_up", [entry EXCEPT !.hooks = TRUE])

RetryFits == entry.handle => entry.orphans < MaxOrphans

\* async_migrate_entry is done: migrated, not ready, or failed.
Migrate(t) ==
  /\ At(t, "migrating")
  /\ UNCHANGED known
  /\ \/ Suspend(t, op[t], "setting_up", [entry EXCEPT !.hooks = TRUE])
     \/ RetryFits /\ Return(t, RetryLater(entry))
     \/ Return(t, SetState(entry, "migration_error"))

SetupEntryKeepsHooks(t) ==
  /\ At(t, "setting_up")
  /\ UNCHANGED known
  /\ \/ Return(t, SetState(CancelRetry(entry), "loaded"))
     \/ RetryFits /\ Suspend(t, op[t], "cleanup", RetryLater(entry))
     \/ Suspend(t, op[t], "error_cleanup", ReleaseHooks(entry))

\* async_setup_entry is done: set up, not ready, or failed.
SetupEntry(t) ==
  /\ At(t, "setting_up")
  /\ UNCHANGED known
  /\ \/ Return(t, SetState(CancelRetry(entry), "loaded"))
     \/ RetryFits /\ Suspend(t, op[t], "cleanup", ReleaseHooks(RetryLater(entry)))
     \/ Suspend(t, op[t], "error_cleanup", ReleaseHooks(entry))

CleanupKeepsState(t) ==
  /\ UNCHANGED known
  /\ At(t, "cleanup") \/ At(t, "error_cleanup")
  /\ Return(t, entry)

\* The tasks of a set-up that failed have ended, or 10 s have passed.
Cleanup(t) ==
  /\ UNCHANGED known
  /\ \/ At(t, "cleanup") /\ Return(t, entry)
     \/ At(t, "error_cleanup") /\ Return(t, SetState(CancelRetry(entry), "setup_error"))

\* async_unload_entry is done, or raised or returned something else than True.
UnloadEntry(t) ==
  /\ At(t, "unloading")
  /\ \/ /\ Suspend(t, op[t], "unload_cleanup", ReleaseHooks(entry))
        /\ UNCHANGED known
     \/ Unloaded(t, op[t], SetState(entry, "failed_unload"), FALSE)

\* The entry's tasks have ended, or 10 s have passed.
UnloadCleanup(t) ==
  /\ At(t, "unload_cleanup")
  /\ Unloaded(t, op[t], SetState(entry, "not_loaded"), TRUE)

\* async_remove_entry is done, or raised.
RemoveEntry(t) ==
  /\ At(t, "removing")
  /\ UNCHANGED known
  /\ Return(t, entry)

(***************************************************************************)
(* Cancellation and shutdown                                               *)
(***************************************************************************)
\* task.cancel() raises CancelledError at the await the task is suspended at.
\* Only a migration and a set-up have a handler for it.
Cancel(t) ==
  /\ phase[t] \in Interrupts
  /\ UNCHANGED <<known, component, stopping>>
  /\ \/ /\ phase[t] = "waiting"
        /\ \E i \in 1..Len(waiters) :
             waiters[i] = t /\ waiters' = Seqs!RemoveAt(waiters, i)
        /\ op' = [op EXCEPT ![t] = "none"]
        /\ phase' = [phase EXCEPT ![t] = "idle"]
        /\ UNCHANGED <<entry, owner>>
     \/ /\ At(t, "migrating")
        /\ Return(t, SetState(entry, "setup_error"))
     \/ /\ At(t, "setting_up")
        /\ Suspend(t, op[t], "cleanup", ReleaseHooks(SetState(entry, "setup_error")))
     \/ /\ phase[t] \in {"loading", "cleanup", "error_cleanup", "unloading",
                         "unload_cleanup", "removing"}
        /\ At(t, phase[t])
        /\ Return(t, entry)

\* HomeAssistant.async_stop: armed timers are cancelled, and the stop event
\* runs ConfigEntries._async_shutdown.
Shutdown ==
  /\ ~stopping
  /\ stopping' = TRUE
  /\ entry' = [CancelRetry(entry) EXCEPT !.orphans = 0]
  /\ UNCHANGED <<known, component, lock, op, phase>>

-----------------------------------------------------------------------------
\* An entry read from storage, before its domain is set up.  A new entry of a
\* domain that is set up goes through async_setup at once, as SetupComponent does.
Init ==
  /\ entry \in [state : {"not_loaded"}, disabled : BOOLEAN, handle : {FALSE},
                orphans : {0}, tries : {0}, hooks : {FALSE}]
  /\ known = TRUE
  /\ component = FALSE
  /\ stopping = FALSE
  /\ owner = NoTask
  /\ waiters = <<>>
  /\ op = [t \in Tasks |-> "none"]
  /\ phase = [t \in Tasks |-> "idle"]

Work(t) ==
  \/ Acquire(t) \/ Load(t) \/ Migrate(t) \/ SetupEntry(t) \/ Cleanup(t)
  \/ UnloadEntry(t) \/ UnloadCleanup(t) \/ RemoveEntry(t)

Next ==
  \/ \E t \in Tasks :
       \/ Setup(t) \/ Unload(t) \/ Reload(t) \/ SetDisabledBy(t)
       \/ RetryMigration(t) \/ Remove(t) \/ SetupComponent(t)
       \/ FireRetry(t) \/ Work(t) \/ Cancel(t)
  \/ Shutdown

Spec == Init /\ [][Next]_vars

\* The integration's coroutines return, the event loop runs a waiter it has
\* woken, and a timer that stays armed fires.
Fairness ==
  /\ \A t \in Tasks : WF_vars(Work(t))
  /\ WF_vars(\E t \in Tasks : FireRetry(t))

FairSpec == Spec /\ Fairness

(***************************************************************************)
(* Invariants                                                              *)
(***************************************************************************)
SetupPhases == {"loading", "migrating", "setting_up", "error_cleanup"}
UnloadPhases == {"unloading", "unload_cleanup"}

\* May a task that was called for o be at the await p?
Suits(o, p) ==
  /\ o = "none" <=> p = "idle"
  /\ p \in SetupPhases \cup {"cleanup"} => o \in {"setup", "reload"}
  /\ p \in UnloadPhases => o \in {"unload", "reload", "remove"}
  /\ p = "removing" => o = "remove"

\* Every variable has its type, and every task is at work on what it was called
\* for: the steps that set-up, unload, reload and removal share lead none of them
\* into another's (an unload does not set the entry up again, a reload does not
\* remove it).
TypeOK ==
  /\ entry \in EntryType
  /\ known \in BOOLEAN /\ component \in BOOLEAN /\ stopping \in BOOLEAN
  /\ owner \in Tasks \cup {NoTask}
  /\ waiters \in Seq(Tasks)
  /\ op \in [Tasks -> Operations \cup {"none"}]
  /\ phase \in [Tasks -> Phases]
  /\ \A t \in Tasks : Suits(op[t], phase[t])

\* setup_lock: at most one task is between two awaits of a set-up, an unload or
\* a removal of this entry, it is the one that owns the lock, and a task queues
\* for the lock exactly once while it waits.
LockOK ==
  /\ \A t \in Tasks : owner = t <=> phase[t] \notin {"idle", "waiting"}
  /\ \A t \in Tasks :
       phase[t] = "waiting" <=> \E i \in 1..Len(waiters) : waiters[i] = t
  /\ \A i, j \in 1..Len(waiters) : waiters[i] = waiters[j] => i = j

\* Callers are cancelled only where the code recovers from it.
SafeInterrupts ==
  Interrupts \cap {"loading", "error_cleanup", "unloading", "unload_cleanup"} = {}

\* SETUP_IN_PROGRESS and UNLOAD_IN_PROGRESS, which refuse every later call, are
\* there exactly as long as a task is at work that will leave them again.
InProgressOwned ==
  /\ entry.state = "setup_in_progress" <=> \E t \in Tasks : phase[t] \in SetupPhases
  /\ entry.state = "unload_in_progress" <=> \E t \in Tasks : phase[t] \in UnloadPhases

\* An entry that waits for a retry gets one: a timer is armed, or a caller is
\* queued that will unload it, reload it or set it up.
RetryPending ==
  entry.state = "setup_retry" /\ known /\ ~stopping =>
    entry.handle \/ entry.orphans > 0 \/ waiters # <<>>

\* No retry is armed for an entry that is loaded, unloaded, disabled or gone,
\* and async_cancel_retry_setup can reach every armed retry.
RetryOnlyWhileRetrying ==
  /\ entry.handle => entry.state = "setup_retry" /\ known
  /\ entry.orphans = 0

\* Once a removal has deleted the entry, nothing sets it up.
RemovedStaysDown ==
  ~known => entry.state \notin {"setup_in_progress", "setup_retry", "loaded",
                               "unload_in_progress"}

\* However reloads, enabling and disabling overlap, once all of them returned
\* the entry is in the state that disabled_by asks for.
Settled ==
  owner = NoTask /\ waiters = <<>> /\ component /\ known =>
    IF entry.disabled
      THEN entry.state \notin {"loaded", "setup_retry", "setup_error"}
      ELSE entry.state # "not_loaded"

(***************************************************************************)
(* Action and liveness properties                                          *)
(***************************************************************************)
\* _tries survives from one failed retry to the next, so that the delay grows,
\* and is forgotten as soon as the entry leaves the retry loop.
Backoff ==
  [][/\ entry'.tries > 0 => entry'.state \in NoResetTriesStates
     /\ \A t \in Tasks :
          entry.state = "setup_retry" /\ phase'[t] = "loading" /\ op'[t] = "setup"
            => entry'.tries = entry.tries]_vars

\* Every caller that queues for setup_lock returns in the end.
CallsReturn == \A t \in Tasks : phase[t] = "waiting" ~> phase[t] = "idle"

\* An entry that is not ready is tried again, unless Home Assistant stops.
RetryHappens == entry.state = "setup_retry" ~> entry.state # "setup_retry" \/ stopping

(***************************************************************************)
(* What the manager promises an integration, see EntryPromise              *)
(***************************************************************************)
Life ==
  CASE entry.state = "setup_in_progress"  -> "starting"
    [] entry.state = "loaded"             -> "up"
    [] entry.state = "unload_in_progress" -> "stopping"
    [] entry.state = "failed_unload"      -> "stuck"
    [] OTHER                              -> "down"

Promise == INSTANCE EntryPromise
             WITH life <- Life, held <- entry.hooks, retry <- entry.handle, registered <- known

\* The manager keeps the promise, whatever calls and retries overlap.
PromiseKept == Promise!Spec
=============================================================================
