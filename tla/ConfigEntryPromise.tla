------------------------- MODULE ConfigEntryPromise -------------------------
(***************************************************************************)
(* Proofs about ConfigEntry, for any set of tasks: that retries are counted *)
(* and not lost, that the last disabled_by wins, and that the manager       *)
(* implements EntryPromise.                                                *)
(*                                                                         *)
(* The first part says field by field what a step does: Asked is what a     *)
(* caller asks for, Outcome what becomes of it under the lock, Goes what a  *)
(* task at an await may do next, Aside what happens beside the lock.  Then  *)
(* each invariant is shown to survive each of them.                        *)
(***************************************************************************)
EXTENDS ConfigEntryProofs

\* Task t, called for o, is at the await p with the lock, or has returned it.
Lands(t, o, p, f) ==
  /\ entry' = f
  /\ owner' = IF p = "idle" THEN NoTask ELSE t
  /\ op'    = [op EXCEPT ![t] = IF p = "idle" THEN "none" ELSE o]
  /\ phase' = [phase EXCEPT ![t] = p]

\* What no operation on the state changes.
Like(f, e) == f.disabled = e.disabled /\ f.orphans = e.orphans

Ignores(o, e, p, f) ==
  /\ p = "idle" /\ f = e /\ known' = known
  /\ \/ o = "setup" /\ (e.disabled \/ e.state \in {"loaded", "setup_in_progress"})
     \/ o \in {"unload", "reload"} /\ e.state \notin Recoverable
     \/ o \in {"unload", "reload"} /\ e.state = "not_loaded" /\ (o = "unload" \/ e.disabled)
     \/ o \in {"reload", "remove"} /\ ~known

Starts(o, e, p, f) ==
  /\ p = "loading" /\ f.state = "setup_in_progress" /\ ~e.disabled
  /\ Like(f, e) /\ f.hooks = e.hooks /\ known' = known
  /\ \/ /\ o = "setup" /\ e.state \notin {"loaded", "setup_in_progress"}
        /\ f.handle = e.handle /\ f.tries = e.tries
     \/ /\ o = "reload" /\ known
        /\ e.state \in {"not_loaded", "setup_error", "setup_retry"}
        /\ f.handle => e.handle /\ e.state = "not_loaded"

Stops(o, e, p, f) ==
  /\ p = "unloading" /\ e.state = "loaded" /\ f.state = "unload_in_progress"
  /\ Like(f, e) /\ f.hooks = e.hooks /\ f.handle = e.handle /\ f.tries = 0
  /\ known' = known
  /\ o = "unload" \/ (o \in {"reload", "remove"} /\ known)

\* The entry has no async_unload_entry, or nothing was set up.
Unloads(e, f) ==
  /\ Like(f, e) /\ f.hooks = e.hooks /\ f.tries = 0
  /\ \/ e.state = "loaded" /\ f.state = "failed_unload" /\ f.handle = e.handle
     \/ /\ e.state \in {"setup_error", "setup_retry"}
        /\ f.state = "not_loaded" /\ ~f.handle

UnloadsOnly(o, e, p, f) ==
  /\ p = "idle" /\ known' = known
  /\ \/ o = "unload"
     \/ o = "reload" /\ known /\ (e.disabled \/ f.state = "failed_unload")
  /\ Unloads(e, f)

Removes(o, e, p, f) ==
  /\ p = "removing" /\ known /\ known' = FALSE
  /\ o = "remove"
  /\ \/ f = e /\ e.state \notin {"loaded", "setup_error", "setup_retry"}
     \/ Unloads(e, f)

\* What the body of "async with entry.setup_lock" makes of the entry e.
Outcome(o, e, p, f) ==
  \/ Ignores(o, e, p, f) \/ Starts(o, e, p, f) \/ Stops(o, e, p, f)
  \/ UnloadsOnly(o, e, p, f) \/ Removes(o, e, p, f)

Enters(t, o, e) ==
  \E p \in Phases \ {"waiting"}, f \in EntryType :
    Lands(t, o, p, f) /\ Outcome(o, e, p, f)

-----------------------------------------------------------------------------
(***************************************************************************)
(* The operators on the entry, field by field                              *)
(***************************************************************************)
LEMMA SetStateFields ==
  ASSUME NEW e \in EntryType, NEW s \in States
  PROVE  /\ SetState(e, s) \in EntryType
         /\ SetState(e, s).state = s
         /\ Like(SetState(e, s), e)
         /\ SetState(e, s).hooks = e.hooks /\ SetState(e, s).handle = e.handle
         /\ SetState(e, s).tries = IF s \in NoResetTriesStates THEN e.tries ELSE 0
BY SetStateType DEF SetState, EntryType, Like

LEMMA CancelRetryFields ==
  ASSUME NEW e \in EntryType
  PROVE  /\ CancelRetry(e) \in EntryType
         /\ ~CancelRetry(e).handle
         /\ Like(CancelRetry(e), e)
         /\ CancelRetry(e).hooks = e.hooks /\ CancelRetry(e).state = e.state
         /\ CancelRetry(e).tries = e.tries
BY DEF CancelRetry, EntryType, Like

LEMMA ReleaseHooksFields ==
  ASSUME NEW e \in EntryType
  PROVE  /\ ReleaseHooks(e) \in EntryType
         /\ ~ReleaseHooks(e).hooks
         /\ Like(ReleaseHooks(e), e)
         /\ ReleaseHooks(e).handle = e.handle /\ ReleaseHooks(e).state = e.state
         /\ ReleaseHooks(e).tries = e.tries
BY DEF ReleaseHooks, EntryType, Like

LEMMA TakeHooksFields ==
  ASSUME NEW e \in EntryType
  PROVE  /\ [e EXCEPT !.hooks = TRUE] \in EntryType
         /\ [e EXCEPT !.hooks = TRUE].hooks
         /\ Like([e EXCEPT !.hooks = TRUE], e)
         /\ [e EXCEPT !.hooks = TRUE].handle = e.handle
         /\ [e EXCEPT !.hooks = TRUE].state = e.state
         /\ [e EXCEPT !.hooks = TRUE].tries = e.tries
BY DEF EntryType, Like

LEMMA ToggledFields ==
  ASSUME NEW e \in EntryType
  PROVE  /\ [e EXCEPT !.disabled = ~@] \in EntryType
         /\ [e EXCEPT !.disabled = ~@].orphans = e.orphans
         /\ [e EXCEPT !.disabled = ~@].hooks = e.hooks
         /\ [e EXCEPT !.disabled = ~@].state = e.state
         /\ [e EXCEPT !.disabled = ~@].tries = e.tries
BY DEF EntryType

LEMMA RetryLaterFields ==
  ASSUME NEW e \in EntryType, e.handle => e.orphans < MaxOrphans
  PROVE  /\ RetryLater(e) \in EntryType
         /\ RetryLater(e).state = "setup_retry" /\ RetryLater(e).handle
         /\ RetryLater(e).disabled = e.disabled /\ RetryLater(e).hooks = e.hooks
         /\ ~e.handle => RetryLater(e).orphans = e.orphans
<1> DEFINE f == SetState(e, "setup_retry")
           n == IF e.handle THEN f.orphans + 1 ELSE f.orphans
           k == IF f.tries < MaxTries THEN f.tries + 1 ELSE f.tries
<1>1. /\ f \in EntryType /\ f.state = "setup_retry"
      /\ f.disabled = e.disabled /\ f.hooks = e.hooks /\ f.orphans = e.orphans
  BY SetStateFields DEF States, Like
<1>2. RetryLater(e) = [f EXCEPT !.handle = TRUE, !.orphans = n, !.tries = k]
  BY DEF RetryLater
<1>3. ~e.handle => n = e.orphans
  BY <1>1
<1> HIDE DEF f, n, k
<1> QED
  BY <1>1, <1>2, <1>3, RetryLaterType DEF EntryType

LEMMA FiredFields ==
  ASSUME NEW e \in EntryType, e.handle \/ e.orphans > 0
  PROVE  /\ Fired(e) \in EntryType
         /\ Fired(e).state = e.state /\ ~Fired(e).handle
         /\ Fired(e).disabled = e.disabled /\ Fired(e).hooks = e.hooks
         /\ Fired(e).tries = e.tries
         /\ e.handle => Fired(e).orphans = e.orphans
BY FiredType DEF Fired, EntryType

-----------------------------------------------------------------------------
(***************************************************************************)
(* What becomes of a call that has the lock                                *)
(***************************************************************************)
LEMMA ReturnLands ==
  ASSUME NEW t, NEW o, NEW e, Return(t, e)
  PROVE  Lands(t, o, "idle", e)
BY DEF Return, Lands

LEMMA SuspendLands ==
  ASSUME NEW t, NEW o, NEW p, NEW e, p # "idle", Suspend(t, o, p, e)
  PROVE  Lands(t, o, p, e)
BY DEF Suspend, Lands

LEMMA BeginSetupLands ==
  ASSUME NEW t \in Tasks, NEW o, NEW e \in EntryType, BeginSetup(t, o, e)
  PROVE  /\ known' = known
         /\ \/ /\ Lands(t, o, "idle", e)
               /\ e.disabled \/ e.state \in {"loaded", "setup_in_progress"}
            \/ /\ Lands(t, o, "loading", SetState(e, "setup_in_progress"))
               /\ ~e.disabled /\ e.state \notin {"loaded", "setup_in_progress"}
BY ReturnLands, SuspendLands DEF BeginSetup, SetupWithContext

\* The ways out of async_unload that do not wait for the integration.
LEMMA UnloadedLands ==
  ASSUME NEW t \in Tasks, NEW o, NEW e \in EntryType, NEW ok, Unloaded(t, o, e, ok)
  PROVE  \/ o = "remove" /\ known' = FALSE /\ Lands(t, o, "removing", e)
         \/ o = "reload" /\ ok /\ ~e.disabled /\ BeginSetup(t, o, e)
         \/ /\ \/ o = "unload"
               \/ o = "reload" /\ (~ok \/ e.disabled)
            /\ Lands(t, o, "idle", e) /\ known' = known
<1>1. CASE o = "remove" /\ known' = FALSE /\ Suspend(t, o, "removing", e)
  BY <1>1, SuspendLands
<1>2. CASE o = "reload" /\ ok /\ ~e.disabled /\ BeginSetup(t, o, e)
  BY <1>2
<1>3. CASE /\ \/ o = "unload"
              \/ o = "reload" /\ (~ok \/ e.disabled)
           /\ Return(t, e)
           /\ UNCHANGED known
  BY <1>3, ReturnLands
<1> QED
  BY <1>1, <1>2, <1>3 DEF Unloaded

LEMMA UnloadedAtOnce ==
  ASSUME NEW t \in Tasks, NEW o \in {"unload", "reload", "remove"},
         NEW e \in EntryType, o = "unload" \/ known,
         NEW f \in EntryType, NEW ok \in BOOLEAN, Unloaded(t, o, f, ok),
         \/ /\ Unloads(e, f) /\ (ok <=> f.state = "not_loaded")
            /\ f.state \in {"not_loaded", "failed_unload"}
         \/ f = e /\ e.state = "not_loaded" /\ ok
         \/ f = e /\ e.state \notin Recoverable /\ ~ok /\ o # "reload"
  PROVE  Enters(t, o, e)
<1> USE DEF Phases, Like, Recoverable
<1>1. CASE o = "remove" /\ known' = FALSE /\ Lands(t, o, "removing", f)
  <2>1. Removes(o, e, "removing", f)
    BY <1>1 DEF Removes
  <2> QED
    BY <1>1, <2>1 DEF Enters, Outcome
<1>2. CASE o = "reload" /\ ok /\ ~f.disabled /\ BeginSetup(t, o, f)
  <2> DEFINE g == SetState(f, "setup_in_progress")
  <2>1. f.state = "not_loaded"
    BY <1>2
  <2>2. /\ g \in EntryType /\ g.state = "setup_in_progress"
        /\ Like(g, f) /\ g.hooks = f.hooks /\ g.handle = f.handle
    BY SetStateFields DEF States
  <2>3. known' = known /\ Lands(t, o, "loading", g)
    BY <1>2, <2>1, BeginSetupLands
  <2> HIDE DEF g
  <2>4. Starts(o, e, "loading", g)
    BY <1>2, <2>1, <2>2, <2>3 DEF Starts, Unloads
  <2> QED
    BY <2>2, <2>3, <2>4 DEF Enters, Outcome
<1>3. CASE /\ \/ o = "unload"
              \/ o = "reload" /\ (~ok \/ f.disabled)
           /\ Lands(t, o, "idle", f) /\ known' = known
  <2>1. CASE Unloads(e, f)
    <3>1. UnloadsOnly(o, e, "idle", f)
      <4>1. f.disabled = e.disabled /\ (f.state = "failed_unload" \/ ok)
        BY <2>1 DEF Unloads
      <4>2. \/ o = "unload"
            \/ o = "reload" /\ known /\ (e.disabled \/ f.state = "failed_unload")
        BY <1>3, <4>1
      <4> QED
        BY <1>3, <2>1, <4>2 DEF UnloadsOnly
    <3> QED
      BY <1>3, <3>1 DEF Enters, Outcome
  <2>2. CASE f = e
    <3>1. Ignores(o, e, "idle", f)
      BY <1>3, <2>2 DEF Ignores, Unloads
    <3> QED
      BY <1>3, <3>1 DEF Enters, Outcome
  <2> QED
    BY <2>1, <2>2
<1> QED
  BY <1>1, <1>2, <1>3, UnloadedLands

LEMMA BeginUnloadEnters ==
  ASSUME NEW t \in Tasks, NEW o \in {"unload", "reload", "remove"},
         NEW e \in EntryType, o = "unload" \/ known,
         o = "reload" => e.state \in Recoverable,
         BeginUnload(t, o, e)
  PROVE  Enters(t, o, e)
<1>1. CASE e.state = "not_loaded" /\ Unloaded(t, o, e, TRUE)
  BY <1>1, UnloadedAtOnce
<1>2. CASE e.state \notin Recoverable /\ Unloaded(t, o, e, FALSE)
  BY <1>2, UnloadedAtOnce
<1>3. CASE /\ e.state \in Recoverable \ {"loaded", "not_loaded"}
           /\ Unloaded(t, o, SetState(CancelRetry(e), "not_loaded"), TRUE)
  <2> DEFINE f == SetState(CancelRetry(e), "not_loaded")
  <2>1. f \in EntryType /\ f.state = "not_loaded" /\ Unloads(e, f)
    BY <1>3, CancelRetryFields, SetStateFields
       DEF States, Recoverable, Unloads, Like, NoResetTriesStates
  <2> HIDE DEF f
  <2>2. Unloaded(t, o, f, TRUE)
    BY <1>3 DEF f
  <2> QED
    BY <2>1, <2>2, UnloadedAtOnce
<1>4. CASE e.state = "loaded" /\ Unloaded(t, o, SetState(e, "failed_unload"), FALSE)
  <2> DEFINE f == SetState(e, "failed_unload")
  <2>1. f \in EntryType /\ f.state = "failed_unload" /\ Unloads(e, f)
    BY <1>4, SetStateFields DEF States, Unloads, Like, NoResetTriesStates
  <2> HIDE DEF f
  <2>2. Unloaded(t, o, f, FALSE)
    BY <1>4 DEF f
  <2> QED
    BY <2>1, <2>2, UnloadedAtOnce
<1>5. CASE /\ e.state = "loaded"
           /\ Suspend(t, o, "unloading", SetState(e, "unload_in_progress"))
           /\ UNCHANGED known
  <2> DEFINE f == SetState(e, "unload_in_progress")
  <2>1. f \in EntryType
    BY SetStateFields DEF States
  <2>2. Stops(o, e, "unloading", f)
    <3>1. /\ f.state = "unload_in_progress" /\ Like(f, e) /\ f.hooks = e.hooks
          /\ f.handle = e.handle /\ f.tries = 0
      BY SetStateFields DEF States, NoResetTriesStates
    <3> HIDE DEF f
    <3> QED
      BY <1>5, <3>1 DEF Stops
  <2>3. Lands(t, o, "unloading", f)
    BY <1>5, SuspendLands
  <2> QED
    BY <2>1, <2>2, <2>3 DEF Enters, Outcome, Phases
<1> QED
  BY <1>1, <1>2, <1>3, <1>4, <1>5 DEF BeginUnload

LEMMA EnterEnters ==
  ASSUME NEW t \in Tasks, NEW o \in Operations \cup {"none"}, NEW e \in EntryType,
         Enter(t, o, e)
  PROVE  Enters(t, o, e)
<1>1. CASE o = "setup" /\ BeginSetup(t, o, e)
  <2> DEFINE f == SetState(e, "setup_in_progress")
  <2>1. /\ f \in EntryType /\ f.state = "setup_in_progress" /\ Like(f, e)
        /\ f.hooks = e.hooks /\ f.handle = e.handle /\ f.tries = e.tries
    BY SetStateFields DEF States, NoResetTriesStates
  <2> HIDE DEF f
  <2>2. CASE Lands(t, o, "idle", e) /\ Ignores(o, e, "idle", e)
    BY <2>2 DEF Enters, Outcome, Phases
  <2>3. CASE Lands(t, o, "loading", f) /\ Starts(o, e, "loading", f)
    BY <2>1, <2>3 DEF Enters, Outcome, Phases
  <2> QED
    BY <1>1, <2>1, <2>2, <2>3, BeginSetupLands DEF f, Ignores, Starts
<1>2. CASE o = "unload" /\ BeginUnload(t, o, e)
  BY <1>2, BeginUnloadEnters
<1>3. CASE o = "reload" /\ known /\ e.state \in Recoverable /\ BeginUnload(t, o, e)
  BY <1>3, BeginUnloadEnters
<1>4. CASE o = "remove" /\ known /\ BeginUnload(t, o, e)
  BY <1>4, BeginUnloadEnters
<1>5. CASE /\ \/ o = "reload" /\ (~known \/ e.state \notin Recoverable)
              \/ o = "remove" /\ ~known
           /\ Return(t, e)
           /\ UNCHANGED known
  <2>1. Lands(t, o, "idle", e) /\ Ignores(o, e, "idle", e)
    BY <1>5, ReturnLands DEF Ignores
  <2> QED
    BY <2>1 DEF Enters, Outcome, Phases
<1> QED
  BY <1>1, <1>2, <1>3, <1>4, <1>5 DEF Enter

-----------------------------------------------------------------------------
(***************************************************************************)
(* What callers and the timer ask for                                      *)
(***************************************************************************)
\* A caller, or a retry that fires, asks for o, after it made e of the entry.
Asked(o, e) ==
  /\ e \in EntryType /\ e.hooks = entry.hooks
  /\ stopping' = stopping
  /\ \/ /\ o = "setup" /\ "setup" \in Ops /\ known /\ component /\ component' = component
        /\ entry.state = "not_loaded" /\ e = entry
     \/ /\ o = "unload" /\ "unload" \in Ops /\ known /\ component' = component
        /\ e = entry
     \/ /\ o = "reload" /\ known /\ component /\ component' = component
        /\ e.state = entry.state /\ ~e.handle
        /\ e.orphans = entry.orphans /\ e.tries = entry.tries
     \/ /\ o = "setup" /\ "retry_migration" \in Ops
        /\ known /\ component /\ component' = component
        /\ entry.state = "migration_error" /\ e.state = "not_loaded"
        /\ ~e.disabled /\ Like(e, entry) /\ e.handle = entry.handle /\ e.tries = 0
     \/ /\ o = "remove" /\ known /\ component' = component
        /\ e = entry
     \/ /\ o = "setup" /\ known /\ ~component /\ component' = TRUE
        /\ ~entry.disabled /\ e = entry
     \/ /\ o = "setup" /\ component' = component
        /\ ~stopping
        /\ entry.handle \/ entry.orphans > 0
        /\ owner = NoTask => waiters = <<>>
        /\ SlowCleanup \/ \A t \in Tasks : phase[t] # "cleanup"
        /\ e.state = entry.state /\ e.disabled = entry.disabled /\ ~e.handle
        /\ e.tries = entry.tries
        /\ entry.handle => e.orphans = entry.orphans

\* A call, a timer or the shutdown that leaves the lock alone.
Aside ==
  /\ UNCHANGED <<known, lock, op, phase>>
  /\ entry' \in EntryType /\ entry'.hooks = entry.hooks
  /\ entry'.state = entry.state /\ entry'.tries = entry.tries
  /\ \/ /\ ~component /\ component' = component /\ stopping' = stopping
        /\ ~entry'.handle /\ entry'.orphans = entry.orphans
     \/ /\ ~component /\ component' = TRUE /\ stopping' = stopping
        /\ entry' = entry
        /\ ~known \/ entry.disabled
     \/ /\ stopping /\ component' = component /\ stopping' = stopping
        /\ entry.handle \/ entry.orphans > 0
        /\ ~entry'.handle /\ entry'.disabled = entry.disabled
        /\ entry.handle => entry'.orphans = entry.orphans
     \/ /\ ~stopping /\ component' = component /\ stopping' = TRUE
        /\ ~entry'.handle /\ entry'.disabled = entry.disabled
        /\ entry'.orphans = 0

LEMMA CallsAsk ==
  ASSUME Inv, NEW t \in Tasks,
         \/ Setup(t) \/ Unload(t) \/ Reload(t) \/ SetDisabledBy(t)
         \/ RetryMigration(t) \/ Remove(t) \/ SetupComponent(t) \/ FireRetry(t)
  PROVE  \/ Aside
         \/ \E o \in Operations, e \in EntryType : Asked(o, e) /\ Request(t, o, e)
<1>1. entry \in EntryType
  BY DEF Inv, TypeOK
<1>2. {"setup", "unload", "reload", "remove"} \subseteq Operations
  BY DEF Operations
<1>3. CASE Setup(t)
  <2>1. Asked("setup", entry) /\ Request(t, "setup", entry)
    BY <1>1, <1>3 DEF Setup, Call, Asked
  <2> QED
    BY <1>1, <1>2, <2>1
<1>4. CASE Unload(t)
  <2>1. Asked("unload", entry) /\ Request(t, "unload", entry)
    BY <1>1, <1>4 DEF Unload, Call, Asked
  <2> QED
    BY <1>1, <1>2, <2>1
<1>5. CASE Reload(t)
  <2>1. Asked("reload", CancelRetry(entry)) /\ Request(t, "reload", CancelRetry(entry))
    BY <1>1, <1>5, CancelRetryFields DEF Reload, Call, Asked, Like
  <2> QED
    BY <1>1, <1>2, <2>1, CancelRetryFields
<1>6. CASE SetDisabledBy(t)
  <2> DEFINE d == [entry EXCEPT !.disabled = ~@]
             e == CancelRetry(d)
  <2>1. /\ d \in EntryType /\ d.orphans = entry.orphans /\ d.hooks = entry.hooks
        /\ d.state = entry.state /\ d.tries = entry.tries
    BY <1>1, ToggledFields
  <2> HIDE DEF d
  <2>2. /\ e \in EntryType /\ ~e.handle /\ e.orphans = entry.orphans
        /\ e.hooks = entry.hooks /\ e.state = entry.state /\ e.tries = entry.tries
    BY <2>1, CancelRetryFields DEF Like
  <2> HIDE DEF e
  <2>3. /\ known /\ component' = component /\ stopping' = stopping
        /\ \/ component /\ Request(t, "reload", e)
           \/ ~component /\ entry' = e /\ UNCHANGED <<known, lock, op, phase>>
    BY <1>6 DEF SetDisabledBy, Call, d, e
  <2>4. CASE component /\ Request(t, "reload", e)
    <3>1. Asked("reload", e)
      BY <2>2, <2>3, <2>4 DEF Asked
    <3> QED
      BY <1>2, <2>2, <2>4, <3>1
  <2>5. CASE ~component /\ entry' = e /\ UNCHANGED <<known, lock, op, phase>>
    BY <2>2, <2>3, <2>5 DEF Aside
  <2> QED
    BY <2>3, <2>4, <2>5
<1>7. CASE RetryMigration(t)
  <2> DEFINE e == SetState(entry, "not_loaded")
  <2>1. /\ e \in EntryType /\ e.state = "not_loaded" /\ Like(e, entry)
        /\ e.hooks = entry.hooks /\ e.handle = entry.handle /\ e.tries = 0
    BY <1>1, SetStateFields DEF States, NoResetTriesStates
  <2> HIDE DEF e
  <2>2. /\ "retry_migration" \in Ops /\ known /\ component /\ ~entry.disabled
        /\ entry.state = "migration_error" /\ Request(t, "setup", e)
        /\ component' = component /\ stopping' = stopping
    BY <1>7 DEF RetryMigration, Call, e
  <2>3. Asked("setup", e)
    BY <2>1, <2>2 DEF Asked, Like
  <2> QED
    BY <1>2, <2>1, <2>2, <2>3
<1>8. CASE Remove(t)
  <2>1. Asked("remove", entry) /\ Request(t, "remove", entry)
    BY <1>1, <1>8 DEF Remove, Call, Asked
  <2> QED
    BY <1>1, <1>2, <2>1
<1>9. CASE SetupComponent(t)
  <2>1. CASE known /\ ~entry.disabled /\ Request(t, "setup", entry)
    <3>1. Asked("setup", entry)
      BY <1>1, <1>9, <2>1 DEF SetupComponent, Asked
    <3> QED
      BY <1>1, <1>2, <2>1, <3>1
  <2>2. CASE /\ ~known \/ entry.disabled
             /\ UNCHANGED <<entry, known, lock, op, phase>>
    BY <1>1, <1>9, <2>2 DEF SetupComponent, Aside
  <2> QED
    BY <1>9, <2>1, <2>2 DEF SetupComponent
<1>10. CASE FireRetry(t)
  <2> DEFINE e == Fired(entry)
  <2>1. /\ e \in EntryType /\ e.state = entry.state /\ ~e.handle
        /\ e.disabled = entry.disabled /\ e.hooks = entry.hooks
        /\ e.tries = entry.tries
        /\ entry.handle => e.orphans = entry.orphans
    BY <1>1, <1>10, FiredFields DEF FireRetry
  <2> HIDE DEF e
  <2>2. /\ entry.handle \/ entry.orphans > 0
        /\ owner = NoTask => waiters = <<>>
        /\ SlowCleanup \/ \A u \in Tasks : phase[u] # "cleanup"
        /\ component' = component /\ stopping' = stopping
        /\ \/ ~stopping /\ Request(t, "setup", e)
           \/ stopping /\ entry' = e /\ UNCHANGED <<known, lock, op, phase>>
    BY <1>10 DEF FireRetry, RetryIsDue, e
  <2>3. CASE ~stopping /\ Request(t, "setup", e)
    <3>1. Asked("setup", e)
      BY <2>1, <2>2, <2>3 DEF Asked
    <3> QED
      BY <1>2, <2>1, <2>3, <3>1
  <2>4. CASE stopping /\ entry' = e /\ UNCHANGED <<known, lock, op, phase>>
    BY <2>1, <2>2, <2>4 DEF Aside
  <2> QED
    BY <2>2, <2>3, <2>4
<1> QED
  BY <1>3, <1>4, <1>5, <1>6, <1>7, <1>8, <1>9, <1>10

LEMMA ShutdownIsAside ==
  ASSUME Inv, Shutdown
  PROVE  Aside
<1> DEFINE e == CancelRetry(entry)
<1>1. /\ e \in EntryType /\ ~e.handle /\ e.disabled = entry.disabled
      /\ e.hooks = entry.hooks /\ e.state = entry.state /\ e.tries = entry.tries
  BY CancelRetryFields DEF Inv, TypeOK, Like
<1>2. entry' = [e EXCEPT !.orphans = 0] /\ 0 \in 0..MaxOrphans
  BY ConfigEntryAssumption DEF Shutdown
<1> HIDE DEF e
<1>3. /\ entry' \in EntryType /\ ~entry'.handle /\ entry'.orphans = 0
      /\ entry'.disabled = entry.disabled /\ entry'.hooks = entry.hooks
      /\ entry'.state = entry.state /\ entry'.tries = entry.tries
  BY <1>1, <1>2 DEF EntryType
<1> QED
  BY <1>3 DEF Shutdown, Aside

-----------------------------------------------------------------------------
(***************************************************************************)
(* What a task that has the lock does next                                 *)
(***************************************************************************)
Unchanging(e, f) ==
  /\ Like(f, e) /\ f.state = e.state /\ f.handle = e.handle /\ f.tries = e.tries

FallsShort(p, e, q, f) ==
  /\ p \in {"loading", "migrating"} /\ q = "idle"
  /\ f.state \in {"setup_error", "migration_error"}
  /\ Like(f, e) /\ f.hooks = e.hooks /\ f.handle = e.handle /\ f.tries = 0

GoesOn(p, e, q, f) ==
  /\ Unchanging(e, f)
  /\ \/ p = "loading" /\ q = "migrating" /\ f.hooks = e.hooks
     \/ p \in {"loading", "migrating"} /\ q = "setting_up" /\ f.hooks
     \/ p = "setting_up" /\ q = "error_cleanup" /\ ~f.hooks
     \/ p = "unloading" /\ q = "unload_cleanup" /\ ~f.hooks

TriesLater(p, e, q, f) ==
  /\ f.state = "setup_retry" /\ f.handle /\ f.disabled = e.disabled
  /\ ~e.handle => f.orphans = e.orphans
  /\ \/ p = "migrating" /\ q = "idle" /\ f.hooks = e.hooks
     \/ p = "setting_up" /\ q = "cleanup" /\ ~f.hooks

SetsUp(p, e, q, f) ==
  /\ p = "setting_up" /\ q = "idle" /\ f.state = "loaded"
  /\ Like(f, e) /\ f.hooks = e.hooks /\ ~f.handle /\ f.tries = 0

BreaksOff(p, e, q, f) ==
  /\ p = "setting_up" /\ q = "cleanup" /\ f.state = "setup_error"
  /\ Like(f, e) /\ ~f.hooks /\ f.handle = e.handle /\ f.tries = 0

EndsInError(p, e, q, f) ==
  /\ p = "error_cleanup" /\ q = "idle" /\ f.state = "setup_error"
  /\ Like(f, e) /\ f.hooks = e.hooks /\ ~f.handle /\ f.tries = 0

Leaves(p, e, q, f) ==
  /\ q = "idle" /\ f = e
  /\ \/ p \in {"cleanup", "removing"}
     \/ p \in Interrupts
        /\ p \in {"loading", "error_cleanup", "unloading", "unload_cleanup"}

EndsUnload(o, p, e, q, f) ==
  /\ p \in {"unloading", "unload_cleanup"}
  /\ Like(f, e) /\ f.hooks = e.hooks /\ f.handle = e.handle /\ f.tries = 0
  /\ \/ /\ q = "removing" /\ o = "remove" /\ known' = FALSE
        /\ f.state = IF p = "unloading" THEN "failed_unload" ELSE "not_loaded"
     \/ /\ q = "loading" /\ o = "reload" /\ p = "unload_cleanup" /\ known' = known
        /\ ~e.disabled /\ f.state = "setup_in_progress"
     \/ /\ q = "idle" /\ o \in {"unload", "reload"} /\ known' = known
        /\ o = "unload" \/ p = "unloading" \/ e.disabled
        /\ f.state = IF p = "unloading" THEN "failed_unload" ELSE "not_loaded"

\* From the await p with the entry e to the await q with the entry f.
Goes(o, p, e, q, f) ==
  \/ /\ known' = known
     /\ \/ FallsShort(p, e, q, f) \/ GoesOn(p, e, q, f) \/ TriesLater(p, e, q, f)
        \/ SetsUp(p, e, q, f) \/ BreaksOff(p, e, q, f) \/ EndsInError(p, e, q, f)
        \/ Leaves(p, e, q, f)
  \/ EndsUnload(o, p, e, q, f)

Continues(t) ==
  /\ owner = t /\ phase[t] \notin {"idle", "waiting"}
  /\ UNCHANGED <<component, stopping, waiters>>
  /\ \E q \in Phases \ {"waiting"}, f \in EntryType :
       Lands(t, op[t], q, f) /\ Goes(op[t], phase[t], entry, q, f)

\* One instance of Continues.
LEMMA Continued ==
  ASSUME NEW t \in Tasks, NEW q \in Phases \ {"waiting"}, NEW f \in EntryType,
         owner = t, phase[t] \notin {"idle", "waiting"},
         UNCHANGED <<component, stopping, waiters>>,
         \/ q # "idle" /\ Suspend(t, op[t], q, f)
         \/ q = "idle" /\ Return(t, f),
         Goes(op[t], phase[t], entry, q, f)
  PROVE  Continues(t)
<1>1. Lands(t, op[t], q, f)
  BY ReturnLands, SuspendLands
<1> QED
  BY <1>1 DEF Continues

LEMMA LoadContinues ==
  ASSUME Inv, NEW t \in Tasks, Load(t)
  PROVE  Continues(t)
<1>1. /\ entry \in EntryType
      /\ owner = t /\ phase[t] = "loading" /\ known' = known
      /\ UNCHANGED <<component, stopping, waiters>>
  BY DEF Inv, TypeOK, Load, At
<1>2. CASE \E s \in {"setup_error", "migration_error"} : Return(t, SetState(entry, s))
  <2>1. PICK s \in {"setup_error", "migration_error"} : Return(t, SetState(entry, s))
    BY <1>2
  <2> DEFINE f == SetState(entry, s)
  <2>2. f \in EntryType /\ FallsShort("loading", entry, "idle", f)
    BY <1>1, SetStateFields DEF States, NoResetTriesStates, FallsShort
  <2> HIDE DEF f
  <2>3. Goes(op[t], phase[t], entry, "idle", f)
    BY <1>1, <2>2 DEF Goes
  <2>4. Return(t, f)
    BY <2>1 DEF f
  <2> QED
    BY <1>1, <2>2, <2>3, <2>4, Continued DEF Phases
<1>3. CASE Suspend(t, op[t], "migrating", entry)
  <2>1. Goes(op[t], phase[t], entry, "migrating", entry)
    BY <1>1 DEF Goes, GoesOn, Unchanging, Like
  <2> QED
    BY <1>1, <1>3, <2>1, Continued DEF Phases
<1>4. CASE Suspend(t, op[t], "setting_up", [entry EXCEPT !.hooks = TRUE])
  <2> DEFINE f == [entry EXCEPT !.hooks = TRUE]
  <2>1. f \in EntryType /\ GoesOn("loading", entry, "setting_up", f)
    BY <1>1, TakeHooksFields DEF GoesOn, Unchanging
  <2> HIDE DEF f
  <2>2. Goes(op[t], phase[t], entry, "setting_up", f)
    BY <1>1, <2>1 DEF Goes
  <2>3. Suspend(t, op[t], "setting_up", f)
    BY <1>4 DEF f
  <2> QED
    BY <1>1, <2>1, <2>2, <2>3, Continued DEF Phases
<1> QED
  BY <1>2, <1>3, <1>4 DEF Load

LEMMA MigrateContinues ==
  ASSUME Inv, NEW t \in Tasks, Migrate(t)
  PROVE  Continues(t)
<1>1. /\ entry \in EntryType
      /\ owner = t /\ phase[t] = "migrating" /\ known' = known
      /\ UNCHANGED <<component, stopping, waiters>>
  BY DEF Inv, TypeOK, Migrate, At
<1>2. CASE Suspend(t, op[t], "setting_up", [entry EXCEPT !.hooks = TRUE])
  <2> DEFINE f == [entry EXCEPT !.hooks = TRUE]
  <2>1. f \in EntryType /\ GoesOn("migrating", entry, "setting_up", f)
    BY <1>1, TakeHooksFields DEF GoesOn, Unchanging
  <2> HIDE DEF f
  <2>2. Goes(op[t], phase[t], entry, "setting_up", f)
    BY <1>1, <2>1 DEF Goes
  <2>3. Suspend(t, op[t], "setting_up", f)
    BY <1>2 DEF f
  <2> QED
    BY <1>1, <2>1, <2>2, <2>3, Continued DEF Phases
<1>3. CASE RetryFits /\ Return(t, RetryLater(entry))
  <2> DEFINE f == RetryLater(entry)
  <2>1. f \in EntryType /\ TriesLater("migrating", entry, "idle", f)
    BY <1>1, <1>3, RetryLaterFields DEF RetryFits, TriesLater
  <2> HIDE DEF f
  <2>2. Goes(op[t], phase[t], entry, "idle", f)
    BY <1>1, <2>1 DEF Goes
  <2>3. Return(t, f)
    BY <1>3 DEF f
  <2> QED
    BY <1>1, <2>1, <2>2, <2>3, Continued DEF Phases
<1>4. CASE Return(t, SetState(entry, "migration_error"))
  <2> DEFINE f == SetState(entry, "migration_error")
  <2>1. f \in EntryType /\ FallsShort("migrating", entry, "idle", f)
    BY <1>1, SetStateFields DEF States, NoResetTriesStates, FallsShort
  <2> HIDE DEF f
  <2>2. Goes(op[t], phase[t], entry, "idle", f)
    BY <1>1, <2>1 DEF Goes
  <2>3. Return(t, f)
    BY <1>4 DEF f
  <2> QED
    BY <1>1, <2>1, <2>2, <2>3, Continued DEF Phases
<1> QED
  BY <1>2, <1>3, <1>4 DEF Migrate

LEMMA SetupEntryContinues ==
  ASSUME Inv, NEW t \in Tasks, SetupEntry(t)
  PROVE  Continues(t)
<1>1. /\ entry \in EntryType
      /\ owner = t /\ phase[t] = "setting_up" /\ known' = known
      /\ UNCHANGED <<component, stopping, waiters>>
  BY DEF Inv, TypeOK, SetupEntry, At
<1>2. CASE Return(t, SetState(CancelRetry(entry), "loaded"))
  <2> DEFINE f == SetState(CancelRetry(entry), "loaded")
  <2>1. f \in EntryType /\ SetsUp("setting_up", entry, "idle", f)
    BY <1>1, CancelRetryFields, SetStateFields
       DEF States, NoResetTriesStates, SetsUp, Like
  <2> HIDE DEF f
  <2>2. Goes(op[t], phase[t], entry, "idle", f)
    BY <1>1, <2>1 DEF Goes
  <2>3. Return(t, f)
    BY <1>2 DEF f
  <2> QED
    BY <1>1, <2>1, <2>2, <2>3, Continued DEF Phases
<1>3. CASE RetryFits /\ Suspend(t, op[t], "cleanup", ReleaseHooks(RetryLater(entry)))
  <2> DEFINE f == ReleaseHooks(RetryLater(entry))
  <2>1. f \in EntryType /\ TriesLater("setting_up", entry, "cleanup", f)
    BY <1>1, <1>3, RetryLaterFields, ReleaseHooksFields DEF RetryFits, TriesLater, Like
  <2> HIDE DEF f
  <2>2. Goes(op[t], phase[t], entry, "cleanup", f)
    BY <1>1, <2>1 DEF Goes
  <2>3. Suspend(t, op[t], "cleanup", f)
    BY <1>3 DEF f
  <2> QED
    BY <1>1, <2>1, <2>2, <2>3, Continued DEF Phases
<1>4. CASE Suspend(t, op[t], "error_cleanup", ReleaseHooks(entry))
  <2> DEFINE f == ReleaseHooks(entry)
  <2>1. f \in EntryType /\ GoesOn("setting_up", entry, "error_cleanup", f)
    BY <1>1, ReleaseHooksFields DEF GoesOn, Unchanging
  <2> HIDE DEF f
  <2>2. Goes(op[t], phase[t], entry, "error_cleanup", f)
    BY <1>1, <2>1 DEF Goes
  <2>3. Suspend(t, op[t], "error_cleanup", f)
    BY <1>4 DEF f
  <2> QED
    BY <1>1, <2>1, <2>2, <2>3, Continued DEF Phases
<1> QED
  BY <1>2, <1>3, <1>4 DEF SetupEntry

LEMMA CleanupContinues ==
  ASSUME Inv, NEW t \in Tasks, Cleanup(t) \/ RemoveEntry(t)
  PROVE  Continues(t)
<1>1. /\ entry \in EntryType /\ owner = t /\ known' = known
      /\ UNCHANGED <<component, stopping, waiters>>
  BY DEF Inv, TypeOK, Cleanup, RemoveEntry, At
<1>2. CASE phase[t] \in {"cleanup", "removing"} /\ Return(t, entry)
  <2>1. Goes(op[t], phase[t], entry, "idle", entry)
    BY <1>1, <1>2 DEF Goes, Leaves
  <2> QED
    BY <1>1, <1>2, <2>1, Continued DEF Phases
<1>3. CASE /\ phase[t] = "error_cleanup"
           /\ Return(t, SetState(CancelRetry(entry), "setup_error"))
  <2> DEFINE f == SetState(CancelRetry(entry), "setup_error")
  <2>1. f \in EntryType /\ EndsInError("error_cleanup", entry, "idle", f)
    BY <1>1, CancelRetryFields, SetStateFields
       DEF States, NoResetTriesStates, EndsInError, Like
  <2> HIDE DEF f
  <2>2. Goes(op[t], phase[t], entry, "idle", f)
    BY <1>1, <1>3, <2>1 DEF Goes
  <2>3. Return(t, f)
    BY <1>3 DEF f
  <2> QED
    BY <1>1, <1>3, <2>1, <2>2, <2>3, Continued DEF Phases
<1> QED
  BY <1>2, <1>3 DEF Cleanup, RemoveEntry, At

\* async_unload_entry has ended, and with it the unload.
LEMMA UnloadedContinues ==
  ASSUME NEW t \in Tasks, entry \in EntryType, owner = t,
         UNCHANGED <<component, stopping, waiters>>,
         phase[t] \in {"unloading", "unload_cleanup"},
         NEW f \in EntryType, Like(f, entry), f.hooks = entry.hooks,
         f.handle = entry.handle, f.tries = 0,
         f.state = IF phase[t] = "unloading" THEN "failed_unload" ELSE "not_loaded",
         Unloaded(t, op[t], f, phase[t] = "unload_cleanup")
  PROVE  Continues(t)
<1> DEFINE ok == phase[t] = "unload_cleanup"
           o == op[t]
<1>0. \/ o = "remove" /\ known' = FALSE /\ Suspend(t, o, "removing", f)
      \/ o = "reload" /\ ok /\ ~f.disabled /\ BeginSetup(t, o, f)
      \/ /\ \/ o = "unload"
            \/ o = "reload" /\ (~ok \/ f.disabled)
         /\ Return(t, f) /\ known' = known
  BY DEF Unloaded
<1>1. CASE o = "remove" /\ known' = FALSE /\ Suspend(t, o, "removing", f)
  <2>1. Goes(op[t], phase[t], entry, "removing", f)
    BY <1>1 DEF Goes, EndsUnload
  <2> QED
    BY <1>1, <2>1, Continued DEF Phases
<1>2. CASE o = "reload" /\ ok /\ ~f.disabled /\ BeginSetup(t, o, f)
  <2> DEFINE g == SetState(f, "setup_in_progress")
  <2>1. /\ g \in EntryType /\ g.state = "setup_in_progress" /\ Like(g, f)
        /\ g.hooks = f.hooks /\ g.handle = f.handle /\ g.tries = 0
    BY SetStateFields DEF States, NoResetTriesStates
  <2> HIDE DEF g
  <2>2. known' = known /\ Suspend(t, o, "loading", g)
    BY <1>2 DEF g, BeginSetup, SetupWithContext
  <2>3. Goes(op[t], phase[t], entry, "loading", g)
    BY <1>2, <2>1, <2>2 DEF Goes, EndsUnload, Like
  <2> QED
    BY <1>2, <2>1, <2>2, <2>3, Continued DEF Phases
<1>3. CASE /\ \/ o = "unload"
              \/ o = "reload" /\ (~ok \/ f.disabled)
           /\ Return(t, f) /\ known' = known
  <2>1. Goes(op[t], phase[t], entry, "idle", f)
    BY <1>3 DEF Goes, EndsUnload, Like
  <2> QED
    BY <1>3, <2>1, Continued DEF Phases
<1> QED
  BY <1>0, <1>1, <1>2, <1>3

LEMMA UnloadContinues ==
  ASSUME Inv, NEW t \in Tasks, UnloadEntry(t) \/ UnloadCleanup(t)
  PROVE  Continues(t)
<1>1. /\ entry \in EntryType /\ owner = t
      /\ UNCHANGED <<component, stopping, waiters>>
  BY DEF Inv, TypeOK, UnloadEntry, UnloadCleanup, At
<1>2. CASE /\ phase[t] = "unloading" /\ known' = known
           /\ Suspend(t, op[t], "unload_cleanup", ReleaseHooks(entry))
  <2> DEFINE f == ReleaseHooks(entry)
  <2>1. f \in EntryType /\ GoesOn("unloading", entry, "unload_cleanup", f)
    BY <1>1, ReleaseHooksFields DEF GoesOn, Unchanging
  <2> HIDE DEF f
  <2>2. Goes(op[t], phase[t], entry, "unload_cleanup", f)
    BY <1>2, <2>1 DEF Goes
  <2>3. Suspend(t, op[t], "unload_cleanup", f)
    BY <1>2 DEF f
  <2> QED
    BY <1>1, <1>2, <2>1, <2>2, <2>3, Continued DEF Phases
<1>3. CASE /\ phase[t] = "unloading"
           /\ Unloaded(t, op[t], SetState(entry, "failed_unload"), FALSE)
  <2> DEFINE f == SetState(entry, "failed_unload")
  <2>1. /\ f \in EntryType /\ f.state = "failed_unload" /\ Like(f, entry)
        /\ f.hooks = entry.hooks /\ f.handle = entry.handle /\ f.tries = 0
    BY <1>1, SetStateFields DEF States, NoResetTriesStates
  <2> HIDE DEF f
  <2>2. Unloaded(t, op[t], f, phase[t] = "unload_cleanup")
    BY <1>3 DEF f, Unloaded
  <2> QED
    BY <1>1, <1>3, <2>1, <2>2, UnloadedContinues
<1>4. CASE /\ phase[t] = "unload_cleanup"
           /\ Unloaded(t, op[t], SetState(entry, "not_loaded"), TRUE)
  <2> DEFINE f == SetState(entry, "not_loaded")
  <2>1. /\ f \in EntryType /\ f.state = "not_loaded" /\ Like(f, entry)
        /\ f.hooks = entry.hooks /\ f.handle = entry.handle /\ f.tries = 0
    BY <1>1, SetStateFields DEF States, NoResetTriesStates
  <2> HIDE DEF f
  <2>2. Unloaded(t, op[t], f, phase[t] = "unload_cleanup")
    BY <1>4 DEF f, Unloaded
  <2> QED
    BY <1>1, <1>4, <2>1, <2>2, UnloadedContinues
<1> QED
  BY <1>2, <1>3, <1>4 DEF UnloadEntry, UnloadCleanup, At

\* A caller that is cancelled while it has the lock.
LEMMA CancelContinues ==
  ASSUME Inv, NEW t \in Tasks, Cancel(t), phase[t] # "waiting"
  PROVE  Continues(t)
<1>1. entry \in EntryType /\ known' = known /\ phase[t] \in Interrupts
  BY DEF Inv, TypeOK, Cancel
<1>2. CASE At(t, "migrating") /\ Return(t, SetState(entry, "setup_error"))
  <2> DEFINE f == SetState(entry, "setup_error")
  <2>1. f \in EntryType /\ FallsShort("migrating", entry, "idle", f)
    BY <1>1, SetStateFields DEF States, NoResetTriesStates, FallsShort
  <2> HIDE DEF f
  <2>2. Goes(op[t], phase[t], entry, "idle", f)
    BY <1>1, <1>2, <2>1 DEF Goes, At
  <2>3. Return(t, f)
    BY <1>2 DEF f
  <2> QED
    BY <1>2, <2>1, <2>2, <2>3, Continued DEF Phases, At
<1>3. CASE /\ At(t, "setting_up")
           /\ Suspend(t, op[t], "cleanup", ReleaseHooks(SetState(entry, "setup_error")))
  <2> DEFINE f == ReleaseHooks(SetState(entry, "setup_error"))
  <2>1. f \in EntryType /\ BreaksOff("setting_up", entry, "cleanup", f)
    BY <1>1, SetStateFields, ReleaseHooksFields
       DEF States, NoResetTriesStates, BreaksOff, Like
  <2> HIDE DEF f
  <2>2. Goes(op[t], phase[t], entry, "cleanup", f)
    BY <1>1, <1>3, <2>1 DEF Goes, At
  <2>3. Suspend(t, op[t], "cleanup", f)
    BY <1>3 DEF f
  <2> QED
    BY <1>3, <2>1, <2>2, <2>3, Continued DEF Phases, At
<1>4. CASE /\ phase[t] \in {"loading", "cleanup", "error_cleanup", "unloading",
                            "unload_cleanup", "removing"}
           /\ At(t, phase[t])
           /\ Return(t, entry)
  <2>1. Goes(op[t], phase[t], entry, "idle", entry)
    BY <1>1, <1>4 DEF Goes, Leaves
  <2> QED
    BY <1>1, <1>4, <2>1, Continued DEF Phases, At
<1> QED
  BY <1>2, <1>3, <1>4 DEF Cancel

-----------------------------------------------------------------------------
(***************************************************************************)
(* The steps, and who waits after them                                     *)
(***************************************************************************)
\* Task t finds the lock free, or is woken.
Admitted(t, o, e) ==
  /\ owner = NoTask /\ phase[t] \in {"idle", "waiting"}
  /\ Enters(t, o, e)
  /\ \/ Asked(o, e) /\ waiters = <<>>
     \/ /\ o = op[t] /\ e = entry /\ phase[t] = "waiting"
        /\ UNCHANGED <<component, stopping>>

Queues(t, o, e) ==
  /\ Asked(o, e) /\ phase[t] = "idle"
  /\ owner # NoTask \/ waiters # <<>>
  /\ entry' = e
  /\ op' = [op EXCEPT ![t] = o]
  /\ phase' = [phase EXCEPT ![t] = "waiting"]
  /\ UNCHANGED <<owner, known>>

LeavesQueue(t) ==
  /\ "waiting" \in Interrupts /\ phase[t] = "waiting"
  /\ op' = [op EXCEPT ![t] = "none"]
  /\ phase' = [phase EXCEPT ![t] = "idle"]
  /\ UNCHANGED <<entry, owner, known, component, stopping>>

LEMMA StepKinds ==
  ASSUME Inv, Next
  PROVE  \/ Aside
         \/ \E t \in Tasks, o \in Operations \cup {"none"}, e \in EntryType :
              Admitted(t, o, e) \/ Queues(t, o, e)
         \/ \E t \in Tasks : Continues(t) \/ LeavesQueue(t)
<1>1. ASSUME NEW t \in Tasks, NEW o \in Operations, NEW e \in EntryType,
             Asked(o, e), Request(t, o, e)
      PROVE  Admitted(t, o, e) \/ Queues(t, o, e)
  <2>1. CASE owner = NoTask /\ waiters = <<>> /\ Enter(t, o, e)
    <3>1. Enters(t, o, e)
      BY <2>1, EnterEnters
    <3> QED
      BY <1>1, <2>1, <3>1 DEF Request, Admitted
  <2>2. CASE /\ owner # NoTask \/ waiters # <<>>
             /\ entry' = e
             /\ op' = [op EXCEPT ![t] = o]
             /\ phase' = [phase EXCEPT ![t] = "waiting"]
             /\ UNCHANGED <<owner, known>>
    BY <1>1, <2>2 DEF Request, Queues
  <2> QED
    BY <1>1, <2>1, <2>2 DEF Request
<1>2. ASSUME NEW t \in Tasks,
             \/ Setup(t) \/ Unload(t) \/ Reload(t) \/ SetDisabledBy(t)
             \/ RetryMigration(t) \/ Remove(t) \/ SetupComponent(t) \/ FireRetry(t)
      PROVE  \/ Aside
             \/ \E o \in Operations, e \in EntryType :
                  Admitted(t, o, e) \/ Queues(t, o, e)
  <2>1. CASE \E o \in Operations, e \in EntryType : Asked(o, e) /\ Request(t, o, e)
    BY <1>1, <2>1
  <2> QED
    BY <1>2, <2>1, CallsAsk
<1>3. ASSUME NEW t \in Tasks, Acquire(t)
      PROVE  \E o \in Operations \cup {"none"}, e \in EntryType : Admitted(t, o, e)
  <2>1. /\ entry \in EntryType /\ op[t] \in Operations \cup {"none"}
        /\ waiters \in Seq(Tasks)
    BY DEF Inv, TypeOK
  <2>2. phase[t] = "waiting"
    <3>1. 1 \in 1..Len(waiters) /\ waiters[1] = t
      BY <1>3, <2>1 DEF Acquire
    <3> QED
      BY <3>1 DEF Inv, LockOK
  <2>3. Enters(t, op[t], entry)
    BY <1>3, <2>1, EnterEnters DEF Acquire
  <2>4. Admitted(t, op[t], entry)
    BY <1>3, <2>2, <2>3 DEF Acquire, Admitted
  <2> QED
    BY <2>1, <2>4
<1>4. ASSUME NEW t \in Tasks, Work(t), ~Acquire(t)
      PROVE  Continues(t)
  BY <1>4, LoadContinues, MigrateContinues, SetupEntryContinues, CleanupContinues,
     UnloadContinues DEF Work
<1>5. ASSUME NEW t \in Tasks, Cancel(t)
      PROVE  Continues(t) \/ LeavesQueue(t)
  <2>1. CASE phase[t] = "waiting"
    BY <1>5, <2>1 DEF Cancel, LeavesQueue, At
  <2> QED
    BY <1>5, <2>1, CancelContinues
<1> QED
  BY <1>2, <1>3, <1>4, <1>5, ShutdownIsAside DEF Next

\* Does anybody wait that was called for one of the operations in S?
Waits(S) == \E t \in Tasks : phase[t] = "waiting" /\ op[t] \in S

LEMMA LandedWaits ==
  ASSUME Inv, NEW t \in Tasks, NEW o, NEW p \in Phases \ {"waiting"}, NEW f,
         Lands(t, o, p, f), NEW S \in SUBSET Operations
  PROVE  /\ Waits(S)' => Waits(S)
         /\ Waits(S) => Waits(S)' \/ (phase[t] = "waiting" /\ op[t] \in S)
BY DEF Inv, TypeOK, Lands, Waits

LEMMA QueuedWaits ==
  ASSUME Inv, NEW t \in Tasks, NEW o, NEW e, Queues(t, o, e),
         NEW S \in SUBSET Operations
  PROVE  Waits(S)' <=> Waits(S) \/ o \in S
BY DEF Inv, TypeOK, Queues, Waits

LEMMA WaitersQueue ==
  ASSUME Inv, NEW S \in SUBSET Operations, Waits(S)
  PROVE  waiters # <<>>
BY DEF Inv, TypeOK, LockOK, Waits

\* The tasks other than the one that has the lock are idle or queue for it.
LEMMA OthersWait ==
  ASSUME Inv, NEW t \in Tasks, owner \in {NoTask, t}, NEW u \in Tasks, u # t
  PROVE  phase[u] \in {"idle", "waiting"}
BY ConfigEntryAssumption DEF Inv, LockOK

-----------------------------------------------------------------------------
(***************************************************************************)
(* Failed attempts are counted                                             *)
(***************************************************************************)
CountedEntry(e) == e.tries > 0 => e.state \in NoResetTriesStates

\* _tries is zero outside the retry loop, and whoever is at work on a set-up or
\* an unload sees the state it has put the entry in.
Counted ==
  /\ CountedEntry(entry)
  /\ \A t \in Tasks :
       /\ phase[t] \in SetupPhases => entry.state = "setup_in_progress"
       /\ phase[t] \in UnloadPhases => entry.state = "unload_in_progress"

LEMMA LandsCounted ==
  ASSUME Inv, NEW t \in Tasks, NEW o, NEW p \in Phases \ {"waiting"},
         NEW f \in EntryType, Lands(t, o, p, f), owner \in {NoTask, t},
         CountedEntry(f),
         p \in SetupPhases => f.state = "setup_in_progress",
         p \in UnloadPhases => f.state = "unload_in_progress"
  PROVE  Counted'
<1>1. ASSUME NEW u \in Tasks
      PROVE  phase'[u] = IF u = t THEN p ELSE phase[u]
  BY DEF Inv, TypeOK, Lands
<1>2. ASSUME NEW u \in Tasks, u # t
      PROVE  phase'[u] \notin SetupPhases \cup UnloadPhases
  BY <1>1, <1>2, OthersWait DEF SetupPhases, UnloadPhases
<1>3. entry' = f
  BY DEF Lands
<1> QED
  BY <1>1, <1>2, <1>3 DEF Counted, CountedEntry

LEMMA AskedCounted ==
  ASSUME Inv, Counted, NEW o, NEW e, Asked(o, e)
  PROVE  /\ CountedEntry(e)
         /\ e.state = entry.state \/ (entry.state = "migration_error" /\ e.tries = 0)
BY DEF Counted, CountedEntry, Asked

LEMMA AdmittedCounted ==
  ASSUME Inv, Counted, NEW t \in Tasks, NEW o, NEW e \in EntryType,
         Admitted(t, o, e)
  PROVE  Counted'
<1>1. CountedEntry(e)
  BY AskedCounted DEF Admitted, Counted
<1>2. PICK p \in Phases \ {"waiting"}, f \in EntryType :
        Lands(t, o, p, f) /\ Outcome(o, e, p, f)
  BY DEF Admitted, Enters
<1>3. /\ CountedEntry(f)
      /\ p \in SetupPhases => f.state = "setup_in_progress"
      /\ p \in UnloadPhases => f.state = "unload_in_progress"
  <2> USE DEF CountedEntry, SetupPhases, UnloadPhases, NoResetTriesStates
  <2>1. CASE Ignores(o, e, p, f)
    BY <1>1, <2>1 DEF Ignores
  <2>2. CASE Starts(o, e, p, f)
    BY <2>2 DEF Starts
  <2>3. CASE Stops(o, e, p, f)
    BY <2>3 DEF Stops
  <2>4. CASE UnloadsOnly(o, e, p, f)
    BY <2>4 DEF UnloadsOnly, Unloads
  <2>5. CASE Removes(o, e, p, f)
    BY <1>1, <2>5 DEF Removes, Unloads
  <2> QED
    BY <1>2, <2>1, <2>2, <2>3, <2>4, <2>5 DEF Outcome
<1> QED
  BY <1>2, <1>3, LandsCounted DEF Admitted

LEMMA ContinuesCounted ==
  ASSUME Inv, Counted, NEW t \in Tasks, Continues(t)
  PROVE  Counted'
<1>1. PICK q \in Phases \ {"waiting"}, f \in EntryType :
        Lands(t, op[t], q, f) /\ Goes(op[t], phase[t], entry, q, f)
  BY DEF Continues
<1> DEFINE p == phase[t]
<1>2. /\ p \in SetupPhases => entry.state = "setup_in_progress"
      /\ p \in UnloadPhases => entry.state = "unload_in_progress"
      /\ CountedEntry(entry)
  BY DEF Counted
<1> HIDE DEF p
<1>3. /\ CountedEntry(f)
      /\ q \in SetupPhases => f.state = "setup_in_progress"
      /\ q \in UnloadPhases => f.state = "unload_in_progress"
  <2> USE DEF CountedEntry, SetupPhases, UnloadPhases, NoResetTriesStates
  <2>1. CASE FallsShort(p, entry, q, f)
    BY <2>1 DEF FallsShort
  <2>2. CASE GoesOn(p, entry, q, f)
    BY <1>2, <2>2 DEF GoesOn, Unchanging
  <2>3. CASE TriesLater(p, entry, q, f)
    BY <2>3 DEF TriesLater
  <2>4. CASE SetsUp(p, entry, q, f) \/ BreaksOff(p, entry, q, f) \/ EndsInError(p, entry, q, f)
    BY <2>4 DEF SetsUp, BreaksOff, EndsInError
  <2>5. CASE Leaves(p, entry, q, f)
    BY <1>2, <2>5 DEF Leaves
  <2>6. CASE EndsUnload(op[t], p, entry, q, f)
    BY <2>6 DEF EndsUnload
  <2> QED
    BY <1>1, <2>1, <2>2, <2>3, <2>4, <2>5, <2>6 DEF Goes, p
<1> QED
  BY <1>1, <1>3, LandsCounted DEF Continues

LEMMA QueuesCounted ==
  ASSUME Inv, Counted, NEW t \in Tasks, NEW o, NEW e, Queues(t, o, e)
  PROVE  Counted'
<1>1. ASSUME NEW u \in Tasks
      PROVE  phase'[u] = IF u = t THEN "waiting" ELSE phase[u]
  BY DEF Inv, TypeOK, Queues
<1>2. /\ CountedEntry(e)
      /\ e.state = entry.state \/ entry.state = "migration_error"
  BY AskedCounted DEF Queues
<1>3. entry' = e
  BY DEF Queues
<1> QED
  BY <1>1, <1>2, <1>3 DEF Counted, CountedEntry, SetupPhases, UnloadPhases

LEMMA StepCounted ==
  ASSUME Inv, Counted, [Next]_vars
  PROVE  Counted'
<1>1. CASE UNCHANGED vars
  BY <1>1 DEF vars, Counted, CountedEntry
<1>2. CASE Aside
  BY <1>2 DEF Aside, Counted, CountedEntry
<1>3. ASSUME NEW t \in Tasks, LeavesQueue(t)
      PROVE  Counted'
  <2>1. ASSUME NEW u \in Tasks
        PROVE  phase'[u] = IF u = t THEN "idle" ELSE phase[u]
    BY <1>3 DEF Inv, TypeOK, LeavesQueue
  <2>2. entry' = entry
    BY <1>3 DEF LeavesQueue
  <2> QED
    BY <2>1, <2>2 DEF Counted, CountedEntry, SetupPhases, UnloadPhases
<1> QED
  BY <1>1, <1>2, <1>3, StepKinds, AdmittedCounted, ContinuesCounted, QueuesCounted

LEMMA InitCounted == Init => Counted
BY DEF Init, Counted, CountedEntry, SetupPhases, UnloadPhases

LEMMA AlwaysCounted == Spec => [](Inv /\ Counted)
BY InitInv, StepInv, InitCounted, StepCounted, PTL DEF Spec

\* A retry keeps count: whoever sets up an entry that waits for one starts from
\* the attempts that failed.
LEMMA StepBackoff ==
  ASSUME Inv, Counted, Next, NEW u \in Tasks,
         entry.state = "setup_retry", phase'[u] = "loading", op'[u] = "setup"
  PROVE  entry'.tries = entry.tries
<1>1. phase[u] # "loading"
  BY DEF Counted, SetupPhases
<1>2. CASE Aside
  BY <1>1, <1>2 DEF Aside
<1>3. ASSUME NEW t \in Tasks, NEW o \in Operations \cup {"none"},
             NEW e \in EntryType, Admitted(t, o, e)
      PROVE  entry'.tries = entry.tries
  <2>1. PICK p \in Phases \ {"waiting"}, f \in EntryType :
          Lands(t, o, p, f) /\ Outcome(o, e, p, f)
    BY <1>3 DEF Admitted, Enters
  <2>2. t = u /\ p = "loading" /\ o = "setup"
    BY <1>1, <2>1 DEF Inv, TypeOK, Lands
  <2>3. f.tries = e.tries
    BY <2>1, <2>2 DEF Outcome, Ignores, Starts, Stops, UnloadsOnly, Removes
  <2>4. e.tries = entry.tries
    BY <1>3, <2>2 DEF Admitted, Asked
  <2> QED
    BY <2>1, <2>3, <2>4 DEF Lands
<1>4. ASSUME NEW t \in Tasks, NEW o, NEW e, Queues(t, o, e)
      PROVE  FALSE
  BY <1>1, <1>4 DEF Queues, Inv, TypeOK
<1>5. ASSUME NEW t \in Tasks, Continues(t)
      PROVE  FALSE
  <2>1. PICK q \in Phases \ {"waiting"}, f \in EntryType :
          Lands(t, op[t], q, f) /\ Goes(op[t], phase[t], entry, q, f)
    BY <1>5 DEF Continues
  <2>2. t = u /\ q = "loading" /\ op[t] = "setup"
    BY <1>1, <2>1 DEF Inv, TypeOK, Lands
  <2> QED
    BY <2>1, <2>2 DEF Goes, FallsShort, GoesOn, TriesLater, SetsUp, BreaksOff,
                      EndsInError, Leaves, EndsUnload
<1>6. ASSUME NEW t \in Tasks, LeavesQueue(t)
      PROVE  FALSE
  BY <1>1, <1>6 DEF LeavesQueue, Inv, TypeOK
<1> QED
  BY <1>2, <1>3, <1>4, <1>5, <1>6, StepKinds

\* The delay before the next retry grows with the attempts that failed, also when
\* calls, cancellations and overwritten retries come between them, and starts
\* over when the entry leaves the retry loop.
THEOREM RetriesBackOff == Spec => Backoff
<1>1. (Inv /\ Counted) /\ (Inv /\ Counted)' /\ [Next]_vars =>
        [/\ entry'.tries > 0 => entry'.state \in NoResetTriesStates
         /\ \A t \in Tasks :
              entry.state = "setup_retry" /\ phase'[t] = "loading" /\ op'[t] = "setup"
                => entry'.tries = entry.tries]_vars
  BY StepBackoff DEF Counted, CountedEntry
<1> QED
  BY <1>1, AlwaysCounted, PTL DEF Spec, Backoff

-----------------------------------------------------------------------------
(***************************************************************************)
(* Nobody sets up an entry before its domain                               *)
(***************************************************************************)
Reached ==
  ~component =>
    /\ entry.state = "not_loaded" /\ ~entry.handle /\ entry.orphans = 0
    /\ ~Waits({"setup", "reload"})

LEMMA StepReached ==
  ASSUME Inv, Counted, Reached, [Next]_vars
  PROVE  Reached'
<1> SUFFICES ASSUME ~component'
             PROVE  /\ entry'.state = "not_loaded" /\ ~entry'.handle
                    /\ entry'.orphans = 0
                    /\ ~Waits({"setup", "reload"})'
  BY DEF Reached
<1>1. {"setup", "reload"} \in SUBSET Operations
  BY DEF Operations
<1>2. CASE UNCHANGED vars
  BY <1>2 DEF vars, Reached, Waits
<1>3. CASE Aside
  <2>1. ~component /\ (entry.orphans > 0 => entry.orphans # 0)
    BY <1>3 DEF Aside
  <2>2. ~Waits({"setup", "reload"})'
    BY <1>3, <2>1 DEF Aside, Reached, Waits
  <2> QED
    BY <1>3, <2>1, <2>2 DEF Aside, Reached
<1>4. ASSUME ~component,
             NEW t \in Tasks, NEW p \in Phases \ {"waiting"}, NEW f, NEW o,
             Lands(t, o, p, f), f = entry
      PROVE  /\ entry'.state = "not_loaded" /\ ~entry'.handle
             /\ entry'.orphans = 0
             /\ ~Waits({"setup", "reload"})'
  BY <1>1, <1>4, LandedWaits DEF Reached, Lands
<1>5. ASSUME NEW t \in Tasks, NEW o \in Operations \cup {"none"},
             NEW e \in EntryType, Admitted(t, o, e)
      PROVE  /\ entry'.state = "not_loaded" /\ ~entry'.handle
             /\ entry'.orphans = 0
             /\ ~Waits({"setup", "reload"})'
  <2>1. ~component /\ e = entry /\ o \notin {"setup", "reload"}
    BY <1>5 DEF Admitted, Asked, Reached, Waits, Inv, TypeOK, EntryType
  <2>2. PICK p \in Phases \ {"waiting"}, f \in EntryType :
          Lands(t, o, p, f) /\ Outcome(o, e, p, f)
    BY <1>5 DEF Admitted, Enters
  <2>3. f = entry
    BY <2>1, <2>2 DEF Outcome, Ignores, Starts, Stops, UnloadsOnly, Unloads,
                      Removes, Reached
  <2> QED
    BY <1>4, <2>1, <2>2, <2>3
<1>6. ASSUME NEW t \in Tasks, NEW o, NEW e, Queues(t, o, e)
      PROVE  /\ entry'.state = "not_loaded" /\ ~entry'.handle
             /\ entry'.orphans = 0
             /\ ~Waits({"setup", "reload"})'
  <2>1. ~component /\ e = entry /\ o \notin {"setup", "reload"}
    BY <1>6 DEF Queues, Asked, Reached, Inv, TypeOK, EntryType
  <2> QED
    BY <1>1, <1>6, <2>1, QueuedWaits DEF Queues, Reached
<1>7. ASSUME NEW t \in Tasks, Continues(t)
      PROVE  /\ entry'.state = "not_loaded" /\ ~entry'.handle
             /\ entry'.orphans = 0
             /\ ~Waits({"setup", "reload"})'
  <2>1. PICK q \in Phases \ {"waiting"}, f \in EntryType :
          Lands(t, op[t], q, f) /\ Goes(op[t], phase[t], entry, q, f)
    BY <1>7 DEF Continues
  <2>2. ~component
    BY <1>7 DEF Continues
  <2>3. phase[t] \notin SetupPhases \cup UnloadPhases
    BY <2>2 DEF Reached, Counted
  <2>4. f = entry
    BY <2>1, <2>3 DEF SetupPhases, UnloadPhases, Goes, FallsShort, GoesOn,
         TriesLater, SetsUp, BreaksOff, EndsInError, Leaves, EndsUnload
  <2> QED
    BY <1>4, <2>1, <2>2, <2>4
<1>8. ASSUME NEW t \in Tasks, LeavesQueue(t)
      PROVE  /\ entry'.state = "not_loaded" /\ ~entry'.handle
             /\ entry'.orphans = 0
             /\ ~Waits({"setup", "reload"})'
  BY <1>8 DEF LeavesQueue, Reached, Waits, Inv, TypeOK
<1> QED
  BY <1>2, <1>3, <1>5, <1>6, <1>7, <1>8, StepKinds

LEMMA InitReached == Init => Reached
BY DEF Init, Reached, Waits

-----------------------------------------------------------------------------
(***************************************************************************)
(* What the entry waits for is on its way                                  *)
(***************************************************************************)
\* Nobody is cancelled where the code does not recover, or in the queue: a
\* caller that is takes what it was to do along.
Patient == SafeInterrupts /\ "waiting" \notin Interrupts

Down == {"unload", "reload", "remove"}

\* A disabled entry that is up, or will be, has a caller queued that takes it
\* down.
DisabledAttended ==
  known /\ entry.disabled
    /\ entry.state \in {"setup_in_progress", "setup_retry", "loaded", "setup_error"} =>
    Waits(Down)

\* An entry that waits for a retry has a timer, or somebody queued.
RetryAttended ==
  known /\ ~entry.disabled /\ ~stopping /\ entry.state = "setup_retry" =>
    entry.handle \/ entry.orphans > 0 \/ Waits(Operations)

\* An enabled entry that is not loaded has somebody queued, unless someone asked
\* for it to be unloaded.
EnabledAttended ==
  "unload" \notin Ops =>
    /\ \A t \in Tasks : op[t] # "unload"
    /\ known /\ component /\ ~entry.disabled /\ entry.state = "not_loaded" =>
         Waits(Operations)

Attended == DisabledAttended /\ RetryAttended /\ EnabledAttended

LEMMA AttendedAfter ==
  ASSUME entry'.disabled /\ known'
           /\ entry'.state \in {"setup_in_progress", "setup_retry", "loaded", "setup_error"}
           => Waits(Down)',
         known' /\ ~entry'.disabled /\ ~stopping' /\ entry'.state = "setup_retry" =>
           entry'.handle \/ entry'.orphans > 0 \/ Waits(Operations)',
         "unload" \notin Ops => \A u \in Tasks : op'[u] # "unload",
         "unload" \notin Ops /\ known' /\ component' /\ ~entry'.disabled
           /\ entry'.state = "not_loaded" => Waits(Operations)'
  PROVE  Attended'
BY DEF Attended, DisabledAttended, RetryAttended, EnabledAttended

LEMMA AdmittedAttended ==
  ASSUME Inv, Attended, Patient, NEW t \in Tasks,
         NEW o \in Operations \cup {"none"}, NEW e \in EntryType, Admitted(t, o, e)
  PROVE  Attended'
<1>1. PICK p \in Phases \ {"waiting"}, f \in EntryType :
        Lands(t, o, p, f) /\ Outcome(o, e, p, f)
  BY DEF Admitted, Enters
<1>2. entry.state # "setup_in_progress" /\ e.state # "setup_in_progress"
  BY FreeIsStable DEF Admitted, Patient, Stable, InProgress, Asked
<1>3. Down \in SUBSET Operations
  BY DEF Down, Operations
<1>4. stopping' = stopping /\ entry' = f
  BY <1>1 DEF Admitted, Asked, Lands
<1>5. "unload" \notin Ops => o # "unload"
  BY DEF Admitted, Asked, Attended, EnabledAttended
<1>6. "unload" \notin Ops => \A u \in Tasks : op'[u] # "unload"
  BY <1>1, <1>5 DEF Lands, Inv, TypeOK, Attended, EnabledAttended
<1>7. \/ Waits(Down)'
      \/ known' /\ f.disabled =>
           f.state \notin {"setup_in_progress", "setup_retry", "loaded", "setup_error"}
  <2>1. CASE Ignores(o, e, p, f)
    <3>1. SUFFICES ASSUME known, e.disabled,
                          e.state \in {"setup_retry", "loaded", "setup_error"}
                   PROVE  Waits(Down)'
      BY <1>2, <2>1 DEF Ignores
    <3>2. o = "setup"
      BY <2>1, <3>1 DEF Ignores, Recoverable
    <3>3. Waits(Down)
      BY <3>1, <3>2 DEF Admitted, Asked, Attended, DisabledAttended
    <3>4. waiters # <<>>
      BY <1>3, <3>3, WaitersQueue
    <3>5. op[t] \notin Down
      BY <3>2, <3>4 DEF Admitted, Down
    <3> QED
      BY <1>1, <1>3, <3>3, <3>5, LandedWaits
  <2>2. CASE ~Ignores(o, e, p, f)
    BY <1>1, <2>2 DEF Outcome, Starts, Stops, UnloadsOnly, Unloads, Removes, Like
  <2> QED
    BY <2>1, <2>2
<1>8. known' /\ ~f.disabled /\ ~stopping /\ f.state = "setup_retry" =>
        f.handle \/ f.orphans > 0 \/ Waits(Operations)'
  <2>1. CASE Ignores(o, e, p, f)
    BY <2>1 DEF Ignores, Recoverable, Admitted, Asked
  <2>2. CASE ~Ignores(o, e, p, f)
    BY <1>1, <2>2 DEF Outcome, Starts, Stops, UnloadsOnly, Unloads, Removes
  <2> QED
    BY <2>1, <2>2
<1>9. "unload" \notin Ops /\ known' /\ ~f.disabled => f.state # "not_loaded"
  <2>1. CASE Ignores(o, e, p, f)
    BY <1>5, <2>1 DEF Ignores, Recoverable
  <2>2. CASE ~Ignores(o, e, p, f)
    BY <1>1, <1>5, <2>2 DEF Outcome, Starts, Stops, UnloadsOnly, Unloads, Removes, Like
  <2> QED
    BY <2>1, <2>2
<1> QED
  BY <1>4, <1>6, <1>7, <1>8, <1>9, AttendedAfter

LEMMA QueuesAttended ==
  ASSUME Inv, Attended, NEW t \in Tasks,
         NEW o \in Operations \cup {"none"}, NEW e \in EntryType, Queues(t, o, e)
  PROVE  Attended'
<1>1. Down \in SUBSET Operations /\ Operations \in SUBSET Operations
  BY DEF Down, Operations
<1>2. o \in Operations /\ entry' = e
  BY DEF Queues, Asked, Operations
<1>3. Waits(Operations)'
  BY <1>1, <1>2, QueuedWaits
<1>4. "unload" \notin Ops => \A u \in Tasks : op'[u] # "unload"
  BY DEF Queues, Asked, Inv, TypeOK, Attended, EnabledAttended
<1>5. known' /\ e.disabled
        /\ e.state \in {"setup_in_progress", "setup_retry", "loaded", "setup_error"} =>
        Waits(Down)'
  <2>1. CASE o \in Down
    BY <1>1, <2>1, QueuedWaits
  <2>2. CASE o \notin Down
    <3>1. known' /\ e.disabled
            /\ e.state \in {"setup_in_progress", "setup_retry", "loaded", "setup_error"} =>
            Waits(Down)
      BY <2>2 DEF Queues, Asked, Down, Attended, DisabledAttended
    <3> QED
      BY <1>1, <3>1, QueuedWaits
  <2> QED
    BY <2>1, <2>2
<1> QED
  BY <1>2, <1>3, <1>4, <1>5, AttendedAfter

LEMMA ContinuesAttended ==
  ASSUME Inv, Counted, Attended, NEW t \in Tasks, Continues(t)
  PROVE  Attended'
<1>1. PICK q \in Phases \ {"waiting"}, f \in EntryType :
        Lands(t, op[t], q, f) /\ Goes(op[t], phase[t], entry, q, f)
  BY DEF Continues
<1> DEFINE p == phase[t]
<1>2. Down \in SUBSET Operations /\ Operations \in SUBSET Operations
  BY DEF Down, Operations
<1>3. /\ entry' = f /\ component' = component /\ stopping' = stopping
      /\ p # "waiting"
  BY <1>1 DEF Continues, Lands
<1>4. /\ Waits(Down) => Waits(Down)'
      /\ Waits(Operations) => Waits(Operations)'
  BY <1>1, <1>2, <1>3, LandedWaits
<1>5. /\ p \in SetupPhases => entry.state = "setup_in_progress"
      /\ p \in UnloadPhases => entry.state = "unload_in_progress"
  BY DEF Counted
<1>6. Goes(op[t], p, entry, q, f)
  BY <1>1
<1> HIDE DEF p
<1> USE DEF SetupPhases, UnloadPhases, Goes, FallsShort, GoesOn, Unchanging,
            TriesLater, SetsUp, BreaksOff, EndsInError, Leaves, EndsUnload, Like
<1>7. known' /\ f.disabled
        /\ f.state \in {"setup_in_progress", "setup_retry", "loaded", "setup_error"} =>
        Waits(Down)
  BY <1>5, <1>6 DEF Attended, DisabledAttended
<1>8. known' /\ ~f.disabled /\ ~stopping /\ f.state = "setup_retry" =>
        f.handle \/ f.orphans > 0 \/ Waits(Operations)
  BY <1>5, <1>6 DEF Attended, RetryAttended
<1>9. "unload" \notin Ops => op[t] # "unload"
  BY DEF Attended, EnabledAttended
<1>10. "unload" \notin Ops /\ known' /\ component /\ ~f.disabled
         /\ f.state = "not_loaded" => Waits(Operations)
  BY <1>5, <1>6, <1>9 DEF Attended, EnabledAttended
<1>11. "unload" \notin Ops => \A u \in Tasks : op'[u] # "unload"
  BY <1>1, <1>9 DEF Lands, Inv, TypeOK, Attended, EnabledAttended
<1> QED
  BY <1>3, <1>4, <1>7, <1>8, <1>10, <1>11, AttendedAfter

LEMMA AsideAttended ==
  ASSUME Inv, Reached, Attended, Aside
  PROVE  Attended'
<1>1. UNCHANGED <<known, op, phase>> /\ entry'.state = entry.state
  BY DEF Aside
<1>2. \A S \in SUBSET Operations : Waits(S)' <=> Waits(S)
  BY <1>1 DEF Waits
<1>3. Down \in SUBSET Operations /\ Operations \in SUBSET Operations
  BY DEF Down, Operations
<1>4. /\ Waits(Down)' <=> Waits(Down)
      /\ Waits(Operations)' <=> Waits(Operations)
  BY <1>1 DEF Waits
<1>5. entry'.disabled = entry.disabled \/ (~component /\ ~component')
  BY DEF Aside
<1> USE DEF Attended, DisabledAttended, RetryAttended, EnabledAttended, Reached
<1>6. known' /\ entry'.disabled
        /\ entry'.state \in {"setup_in_progress", "setup_retry", "loaded", "setup_error"} =>
        Waits(Down)'
  BY <1>1, <1>4, <1>5
<1>7. known' /\ ~entry'.disabled /\ ~stopping' /\ entry'.state = "setup_retry" =>
        entry'.handle \/ entry'.orphans > 0 \/ Waits(Operations)'
  BY <1>1, <1>4, <1>5 DEF Aside
<1>8. "unload" \notin Ops /\ known' /\ component' /\ ~entry'.disabled
        /\ entry'.state = "not_loaded" => Waits(Operations)'
  <2>1. CASE component
    BY <1>1, <1>4, <1>5, <2>1
  <2>2. CASE ~component
    <3>1. component' => ~known \/ entry'.disabled
      BY <2>2 DEF Aside
    <3> QED
      BY <1>1, <3>1
  <2> QED
    BY <2>1, <2>2
<1>9. "unload" \notin Ops => \A u \in Tasks : op'[u] # "unload"
  BY <1>1
<1> QED
  BY <1>6, <1>7, <1>8, <1>9, AttendedAfter

LEMMA StepAttended ==
  ASSUME Inv, Counted, Reached, Attended, Patient, [Next]_vars
  PROVE  Attended'
<1>1. CASE UNCHANGED vars
  BY <1>1 DEF vars, Attended, DisabledAttended, RetryAttended, EnabledAttended, Waits
<1>2. ASSUME NEW t \in Tasks, LeavesQueue(t)
      PROVE  FALSE
  BY <1>2 DEF Patient, LeavesQueue
<1> QED
  BY <1>1, <1>2, StepKinds, AsideAttended, AdmittedAttended, QueuesAttended,
     ContinuesAttended

LEMMA InitAttended == Init => Attended
BY DEF Init, Attended, DisabledAttended, RetryAttended, EnabledAttended

LEMMA AlwaysAttended ==
  ASSUME Patient
  PROVE  Spec => [](Inv /\ Attended)
<1>1. Init => Inv /\ Counted /\ Reached /\ Attended
  BY InitInv, InitCounted, InitReached, InitAttended
<1>2. (Inv /\ Counted /\ Reached /\ Attended) /\ [Next]_vars =>
        (Inv /\ Counted /\ Reached /\ Attended)'
  BY StepInv, StepCounted, StepReached, StepAttended
<1> QED
  BY <1>1, <1>2, PTL DEF Spec

\* An entry in SETUP_RETRY is never forgotten: its timer is armed or somebody is
\* queued for it, whatever calls cancel the retry and whatever becomes of them.
THEOREM RetriesPending ==
  ASSUME Patient
  PROVE  Spec => []RetryPending
<1>1. Inv /\ Attended => RetryPending
  <2> SUFFICES ASSUME Inv, Attended, entry.state = "setup_retry", known, ~stopping
               PROVE  entry.handle \/ entry.orphans > 0 \/ waiters # <<>>
    BY DEF RetryPending
  <2>1. Down \in SUBSET Operations /\ Operations \in SUBSET Operations
    BY DEF Down, Operations
  <2>2. CASE Waits(Down) \/ Waits(Operations)
    BY <2>1, <2>2, WaitersQueue
  <2> QED
    BY <2>2 DEF Attended, DisabledAttended, RetryAttended
<1> QED
  BY <1>1, AlwaysAttended, PTL

\* Once every reload, enabling and disabling has returned, the entry is as the
\* last disabled_by wants it, if nobody asks for it to be unloaded on its own.
THEOREM LastWordWins ==
  ASSUME Patient, "unload" \notin Ops
  PROVE  Spec => []Settled
<1>1. Inv /\ Attended => Settled
  <2> SUFFICES ASSUME Inv, Attended, waiters = <<>>, component, known
               PROVE  IF entry.disabled
                        THEN entry.state \notin {"loaded", "setup_retry", "setup_error"}
                        ELSE entry.state # "not_loaded"
    BY DEF Settled
  <2>1. Down \in SUBSET Operations /\ Operations \in SUBSET Operations
    BY DEF Down, Operations
  <2>2. ~Waits(Down) /\ ~Waits(Operations)
    BY <2>1, WaitersQueue
  <2> QED
    BY <2>2 DEF Attended, DisabledAttended, EnabledAttended
<1> QED
  BY <1>1, AlwaysAttended, PTL

-----------------------------------------------------------------------------
(***************************************************************************)
(* When failed set-ups clean up in time                                    *)
(***************************************************************************)
\* No set-up queues for the lock: a retry finds it free, because the tasks of a
\* failed set-up end before the retry is due, and the callers use neither
\* async_setup nor async_retry_migration.  async_setup_locked does not look again
\* after it waited, so behind a removal, or behind an unload that fails, it does
\* set up the entry.
Timely ==
  /\ SafeInterrupts
  /\ ~SlowCleanup
  /\ Ops \cap {"setup", "retry_migration"} = {}

\* What holds of the entry e, registered or not, while the task that has the
\* lock is at the await p, or is "idle": there is none.
InOrder(e, k, p) ==
  /\ e.state = "setup_in_progress" <=> p \in SetupPhases
  /\ e.state = "unload_in_progress" <=> p \in UnloadPhases
  /\ e.orphans = 0
  /\ e.handle => e.state = "setup_retry" /\ k
  /\ ~k => e.state \notin {"setup_in_progress", "setup_retry", "loaded",
                           "unload_in_progress"}
  /\ e.state = "setup_retry" => p \in {"idle", "cleanup"}
  /\ p = "removing" => ~k
  /\ e.hooks => \/ e.state \in {"loaded", "failed_unload"}
                \/ p \in {"setting_up", "unloading"}
  /\ p = "setting_up" => e.hooks

InTime ==
  /\ \A t \in Tasks : owner = t => InOrder(entry, known, phase[t])
  /\ owner = NoTask => InOrder(entry, known, "idle")
  /\ ~Waits({"setup"})
  /\ ~component => \A t \in Tasks :
                     phase[t] = "idle" \/ (phase[t] = "removing" /\ ~known)

LEMMA InOrderNow ==
  ASSUME Inv, InTime
  PROVE  \E p \in Phases \ {"waiting"} : InOrder(entry, known, p)
<1>1. CASE owner = NoTask
  BY <1>1 DEF InTime, Phases
<1>2. CASE owner \in Tasks
  BY <1>2, ConfigEntryAssumption DEF InTime, Inv, TypeOK, LockOK
<1> QED
  BY <1>1, <1>2 DEF Inv, TypeOK

LEMMA LandsInTime ==
  ASSUME Inv, NEW t \in Tasks, NEW o, NEW p \in Phases \ {"waiting"}, NEW f,
         Lands(t, o, p, f), ~Waits({"setup"}), owner \in {NoTask, t},
         InOrder(f, known', p),
         ~component' => /\ p = "idle" \/ (p = "removing" /\ ~known')
                        /\ \A u \in Tasks \ {t} : phase[u] = "idle"
  PROVE  InTime'
<1>1. ASSUME NEW u \in Tasks
      PROVE  phase'[u] = IF u = t THEN p ELSE phase[u]
  BY DEF Inv, TypeOK, Lands
<1>2. ~Waits({"setup"})'
  BY LandedWaits DEF Operations
<1>3. entry' = f /\ owner' = IF p = "idle" THEN NoTask ELSE t
  BY DEF Lands
<1>4. \A u \in Tasks : owner' = u => InOrder(entry', known', phase'[u])
  BY <1>1, <1>3, ConfigEntryAssumption
<1>5. owner' = NoTask => InOrder(entry', known', "idle")
  BY <1>3, ConfigEntryAssumption
<1>6. ~component' => \A u \in Tasks :
                       phase'[u] = "idle" \/ (phase'[u] = "removing" /\ ~known')
  BY <1>1
<1> QED
  BY <1>2, <1>4, <1>5, <1>6 DEF InTime

\* What a caller that gets the lock finds.
LEMMA AdmittedFinds ==
  ASSUME Inv, Reached, InTime, Timely, NEW t \in Tasks,
         NEW o \in Operations \cup {"none"}, NEW e \in EntryType, Admitted(t, o, e)
  PROVE  /\ InOrder(entry, known, "idle") /\ InOrder(e, known, "idle")
         /\ e.state = entry.state /\ e.hooks = entry.hooks
         /\ e.handle => entry.handle
         /\ o = "setup" => known /\ ~e.handle /\ e.state \in {"not_loaded", "setup_retry"}
<1>1. InOrder(entry, known, "idle")
  BY DEF Admitted, InTime
<1>2. CASE o = op[t] /\ e = entry /\ phase[t] = "waiting"
  BY <1>1, <1>2 DEF InTime, Waits
<1>3. CASE Asked(o, e)
  <2>1. entry.orphans > 0 => entry.orphans # 0
    OBVIOUS
  <2>2. "setup" \notin Ops /\ "retry_migration" \notin Ops
    BY DEF Timely
  <2>3. /\ e.state = entry.state /\ e.hooks = entry.hooks
        /\ e.handle => entry.handle
        /\ e.orphans = 0
        /\ o = "setup" => known /\ ~e.handle /\ e.state \in {"not_loaded", "setup_retry"}
    BY <1>1, <1>3, <2>1, <2>2 DEF Asked, InOrder, Reached
  <2> QED
    BY <1>1, <2>3 DEF InOrder
<1> QED
  BY <1>2, <1>3 DEF Admitted

LEMMA AdmittedInOrder ==
  ASSUME Inv, Reached, InTime, Timely, NEW t \in Tasks,
         NEW o \in Operations \cup {"none"}, NEW e \in EntryType, Admitted(t, o, e),
         NEW p, NEW f \in EntryType, Outcome(o, e, p, f)
  PROVE  InOrder(f, known', p)
<1>1. /\ InOrder(e, known, "idle")
      /\ o = "setup" => known /\ ~e.handle /\ e.state \in {"not_loaded", "setup_retry"}
  BY AdmittedFinds
<1> USE DEF InOrder, SetupPhases, UnloadPhases, Like
<1>2. CASE Ignores(o, e, p, f)
  BY <1>1, <1>2 DEF Ignores
<1>3. CASE Starts(o, e, p, f)
  BY <1>1, <1>3 DEF Starts
<1>4. CASE Stops(o, e, p, f)
  BY <1>1, <1>4 DEF Stops
<1>5. CASE UnloadsOnly(o, e, p, f)
  BY <1>1, <1>5 DEF UnloadsOnly, Unloads
<1>6. CASE Removes(o, e, p, f)
  BY <1>1, <1>6 DEF Removes, Unloads
<1> QED
  BY <1>2, <1>3, <1>4, <1>5, <1>6 DEF Outcome

LEMMA AdmittedInTime ==
  ASSUME Inv, Reached, InTime, Timely, NEW t \in Tasks,
         NEW o \in Operations \cup {"none"}, NEW e \in EntryType, Admitted(t, o, e)
  PROVE  InTime'
<1>1. PICK p \in Phases \ {"waiting"}, f \in EntryType :
        Lands(t, o, p, f) /\ Outcome(o, e, p, f)
  BY DEF Admitted, Enters
<1>2. InOrder(f, known', p)
  BY <1>1, AdmittedInOrder
<1>3. ASSUME ~component'
      PROVE  /\ p = "idle" \/ (p = "removing" /\ ~known')
             /\ \A u \in Tasks \ {t} : phase[u] = "idle"
  <2>1. ~component /\ entry.state = "not_loaded" /\ ~entry.handle
    BY <1>3 DEF Admitted, Asked, Reached
  <2>2. \A u \in Tasks : phase[u] = "idle"
    BY <2>1, ConfigEntryAssumption DEF InTime, Admitted, Inv, LockOK
  <2>3. e.state = "not_loaded" /\ o \notin {"setup", "reload"}
    BY <1>3, <2>1, <2>2 DEF Admitted, Asked, Reached, Inv, TypeOK, EntryType
  <2>4. p = "idle" \/ (p = "removing" /\ ~known')
    BY <1>1, <2>3 DEF Outcome, Ignores, Starts, Stops, UnloadsOnly, Unloads, Removes
  <2> QED
    BY <2>2, <2>4
<1> QED
  BY <1>1, <1>2, <1>3, LandsInTime DEF Admitted, InTime

\* Nobody queues to set up the entry.
LEMMA QueuesFinds ==
  ASSUME Inv, Reached, InTime, Timely, NEW t \in Tasks,
         NEW o \in Operations \cup {"none"}, NEW e \in EntryType, Queues(t, o, e)
  PROVE  /\ component /\ component' = component
         /\ o # "setup"
         /\ e.state = entry.state /\ e.hooks = entry.hooks /\ e.orphans = entry.orphans
         /\ e.handle => entry.handle
<1>1. PICK p \in Phases \ {"waiting"} : InOrder(entry, known, p)
  BY InOrderNow
<1>2. known => component
  <2>1. SUFFICES ASSUME known, ~component
                 PROVE  FALSE
    OBVIOUS
  <2>2. \A u \in Tasks : phase[u] = "idle"
    BY <2>1 DEF InTime
  <2>3. owner = NoTask
    BY <2>2, ConfigEntryAssumption DEF Inv, TypeOK, LockOK
  <2>4. waiters = <<>>
    <3>1. \A i \in 1..Len(waiters) : FALSE
      BY <2>2 DEF Inv, TypeOK, LockOK
    <3> QED
      BY <3>1 DEF Inv, TypeOK
  <2> QED
    BY <2>3, <2>4 DEF Queues
<1>3. "setup" \notin Ops /\ "retry_migration" \notin Ops /\ ~SlowCleanup
  BY DEF Timely
<1>4. ASSUME entry.handle \/ entry.orphans > 0,
             owner = NoTask => waiters = <<>>,
             \A u \in Tasks : phase[u] # "cleanup"
      PROVE  FALSE
  <2>1. entry.state = "setup_retry"
    BY <1>1, <1>4 DEF InOrder
  <2>2. owner \in Tasks /\ phase[owner] \notin {"idle", "waiting"}
    BY <1>4 DEF Queues, Inv, TypeOK, LockOK
  <2> QED
    BY <1>4, <2>1, <2>2 DEF InTime, InOrder
<1> QED
  BY <1>2, <1>3, <1>4 DEF Queues, Asked

LEMMA QueuesInTime ==
  ASSUME Inv, Reached, InTime, Timely, NEW t \in Tasks,
         NEW o \in Operations \cup {"none"}, NEW e \in EntryType, Queues(t, o, e)
  PROVE  InTime'
<1>1. /\ component' /\ o # "setup"
      /\ e.state = entry.state /\ e.hooks = entry.hooks /\ e.orphans = entry.orphans
      /\ e.handle => entry.handle
  BY QueuesFinds
<1>2. entry' = e /\ UNCHANGED <<owner, known>> /\ phase[t] = "idle"
  BY DEF Queues
<1>3. ASSUME NEW u \in Tasks, owner = u
      PROVE  phase'[u] = phase[u]
  BY <1>3, <1>2 DEF Queues, Inv, TypeOK, LockOK
<1>4. ASSUME NEW p, InOrder(entry, known, p)
      PROVE  InOrder(entry', known', p)
  BY <1>1, <1>2, <1>4 DEF InOrder
<1>5. ~Waits({"setup"})'
  <2>1. {"setup"} \in SUBSET Operations
    BY DEF Operations
  <2> QED
    BY <1>1, <2>1, QueuedWaits DEF InTime
<1>6. \A u \in Tasks : owner' = u => InOrder(entry', known', phase'[u])
  BY <1>2, <1>3, <1>4 DEF InTime
<1>7. owner' = NoTask => InOrder(entry', known', "idle")
  BY <1>2, <1>4 DEF InTime
<1> QED
  BY <1>1, <1>5, <1>6, <1>7 DEF InTime

LEMMA AsideInTime ==
  ASSUME Inv, Reached, InTime, Aside
  PROVE  InTime'
<1>1. PICK q \in Phases \ {"waiting"} : InOrder(entry, known, q)
  BY InOrderNow
<1>2. /\ UNCHANGED <<known, owner, op, phase>>
      /\ entry'.state = entry.state /\ entry'.hooks = entry.hooks
      /\ component => component'
  BY DEF Aside, lock
<1>3. entry'.handle => entry.handle
  BY DEF Aside
<1>4. entry'.orphans = 0
  <2>1. entry.orphans = 0 /\ ~(entry.orphans > 0)
    BY <1>1 DEF InOrder
  <2> QED
    BY <2>1 DEF Aside
<1>5. ASSUME NEW p, InOrder(entry, known, p)
      PROVE  InOrder(entry', known', p)
  BY <1>2, <1>3, <1>4, <1>5 DEF InOrder
<1>6. ~Waits({"setup"})'
  BY <1>2 DEF InTime, Waits
<1>7. \A u \in Tasks : owner' = u => InOrder(entry', known', phase'[u])
  BY <1>2, <1>5 DEF InTime
<1>8. owner' = NoTask => InOrder(entry', known', "idle")
  BY <1>2, <1>5 DEF InTime
<1>9. ~component' => \A u \in Tasks :
                       phase'[u] = "idle" \/ (phase'[u] = "removing" /\ ~known')
  BY <1>2 DEF InTime
<1> QED
  BY <1>6, <1>7, <1>8, <1>9 DEF InTime

LEMMA ContinuesInOrder ==
  ASSUME Timely, NEW o, NEW p, NEW q, NEW f \in EntryType,
         InOrder(entry, known, p), Goes(o, p, entry, q, f)
  PROVE  InOrder(f, known', q)
<1> USE DEF InOrder, SetupPhases, UnloadPhases, Like
<1>1. CASE known' = known /\ FallsShort(p, entry, q, f)
  BY <1>1 DEF FallsShort
<1>2. CASE known' = known /\ GoesOn(p, entry, q, f)
  BY <1>2 DEF GoesOn, Unchanging
<1>3. CASE known' = known /\ TriesLater(p, entry, q, f)
  BY <1>3 DEF TriesLater
<1>4. CASE known' = known /\ SetsUp(p, entry, q, f)
  BY <1>4 DEF SetsUp
<1>5. CASE known' = known /\ BreaksOff(p, entry, q, f)
  BY <1>5 DEF BreaksOff
<1>6. CASE known' = known /\ EndsInError(p, entry, q, f)
  BY <1>6 DEF EndsInError
<1>7. CASE known' = known /\ Leaves(p, entry, q, f)
  <2>1. p \in {"cleanup", "removing"}
    BY <1>7 DEF Leaves, Timely, SafeInterrupts
  <2> QED
    BY <1>7, <2>1 DEF Leaves
<1>8. CASE EndsUnload(o, p, entry, q, f)
  BY <1>8 DEF EndsUnload
<1> QED
  BY <1>1, <1>2, <1>3, <1>4, <1>5, <1>6, <1>7, <1>8 DEF Goes

LEMMA ContinuesInTime ==
  ASSUME Inv, InTime, Timely, NEW t \in Tasks, Continues(t)
  PROVE  InTime'
<1>1. PICK q \in Phases \ {"waiting"}, f \in EntryType :
        Lands(t, op[t], q, f) /\ Goes(op[t], phase[t], entry, q, f)
  BY DEF Continues
<1>2. owner = t /\ InOrder(entry, known, phase[t])
  BY DEF Continues, InTime
<1>3. InOrder(f, known', q)
  BY <1>1, <1>2, ContinuesInOrder
<1>4. ASSUME ~component'
      PROVE  /\ q = "idle" \/ (q = "removing" /\ ~known')
             /\ \A u \in Tasks \ {t} : phase[u] = "idle"
  <2>1. ~component
    BY <1>4 DEF Continues
  <2>2. phase[t] = "removing"
    BY <2>1 DEF InTime, Continues
  <2>3. q = "idle"
    BY <1>1, <2>2 DEF Goes, FallsShort, GoesOn, TriesLater, SetsUp, BreaksOff,
                      EndsInError, Leaves, EndsUnload
  <2>4. ASSUME NEW u \in Tasks, u # t
        PROVE  phase[u] = "idle"
    BY <1>2, <2>1, <2>4, OthersWait DEF InTime
  <2> QED
    BY <2>3, <2>4
<1> QED
  BY <1>1, <1>2, <1>3, <1>4, LandsInTime DEF InTime

LEMMA LeavesQueueInTime ==
  ASSUME Inv, InTime, NEW t \in Tasks, LeavesQueue(t)
  PROVE  InTime'
<1>1. ASSUME NEW u \in Tasks
      PROVE  /\ phase'[u] = IF u = t THEN "idle" ELSE phase[u]
             /\ op'[u] = IF u = t THEN "none" ELSE op[u]
  BY DEF LeavesQueue, Inv, TypeOK
<1>2. UNCHANGED <<entry, owner, known, component>> /\ owner # t
  BY DEF LeavesQueue, Inv, LockOK
<1>3. ~Waits({"setup"})'
  BY <1>1 DEF InTime, Waits
<1> QED
  BY <1>1, <1>2, <1>3 DEF InTime

LEMMA StepInTime ==
  ASSUME Inv, Reached, InTime, Timely, [Next]_vars
  PROVE  InTime'
<1>1. CASE UNCHANGED vars
  BY <1>1 DEF vars, lock, InTime, InOrder, Waits
<1> QED
  BY <1>1, StepKinds, AsideInTime, AdmittedInTime, QueuesInTime, ContinuesInTime,
     LeavesQueueInTime

LEMMA InitInTime == Init => InTime
BY ConfigEntryAssumption
   DEF Init, InTime, InOrder, Waits, SetupPhases, UnloadPhases

LEMMA AlwaysInTime ==
  ASSUME Timely
  PROVE  Spec => [](Inv /\ Reached /\ InTime)
<1>1. Init => Inv /\ Counted /\ Reached /\ InTime
  BY InitInv, InitCounted, InitReached, InitInTime
<1>2. (Inv /\ Counted /\ Reached /\ InTime) /\ [Next]_vars =>
        (Inv /\ Counted /\ Reached /\ InTime)'
  BY StepInv, StepCounted, StepReached, StepInTime
<1> QED
  BY <1>1, <1>2, PTL DEF Spec

\* A retry is armed only for an entry that waits for one and is still registered,
\* and the stored handle reaches it.
THEOREM RetriesWanted ==
  ASSUME Timely
  PROVE  Spec => []RetryOnlyWhileRetrying
<1>1. Inv /\ InTime => RetryOnlyWhileRetrying
  BY InOrderNow DEF RetryOnlyWhileRetrying, InOrder
<1> QED
  BY <1>1, AlwaysInTime, PTL

\* A removed entry is not set up again, by a retry or by anybody who was queued.
THEOREM RemovalIsFinal ==
  ASSUME Timely
  PROVE  Spec => []RemovedStaysDown
<1>1. Inv /\ InTime => RemovedStaysDown
  BY InOrderNow DEF RemovedStaysDown, InOrder
<1> QED
  BY <1>1, AlwaysInTime, PTL

-----------------------------------------------------------------------------
(***************************************************************************)
(* ConfigEntry implements EntryPromise                                     *)
(***************************************************************************)
LifeOf(s) ==
  CASE s = "setup_in_progress"  -> "starting"
    [] s = "loaded"             -> "up"
    [] s = "unload_in_progress" -> "stopping"
    [] s = "failed_unload"      -> "stuck"
    [] OTHER                    -> "down"

LEMMA LifeNow == Life = LifeOf(entry.state) /\ Life' = LifeOf(entry'.state)
BY DEF Life, LifeOf

LEMMA LifeTable ==
  /\ LifeOf("setup_in_progress") = "starting"
  /\ LifeOf("loaded") = "up"
  /\ LifeOf("unload_in_progress") = "stopping"
  /\ LifeOf("failed_unload") = "stuck"
  /\ \A s \in {"not_loaded", "setup_error", "setup_retry", "migration_error"} :
       LifeOf(s) = "down"
BY DEF LifeOf

\* Nothing changes that the promise is about, except that a retry may be given up.
LEMMA QuietStep ==
  ASSUME entry \in EntryType, entry' \in EntryType,
         NEW p, InOrder(entry, known, p),
         LifeOf(entry'.state) = LifeOf(entry.state), entry'.hooks = entry.hooks,
         entry'.handle => entry.handle, known' = known
  PROVE  Promise!CancelRetry \/ UNCHANGED Promise!vars
<1>1. entry.handle \in BOOLEAN /\ entry'.handle \in BOOLEAN
  BY DEF EntryType
<1>2. CASE entry'.handle = entry.handle
  BY <1>2, LifeNow DEF Promise!vars
<1>3. CASE entry.handle /\ ~entry'.handle
  <2>1. Life = "down"
    BY <1>3, LifeNow, LifeTable DEF InOrder
  <2> QED
    BY <1>1, <1>3, <2>1, LifeNow DEF Promise!CancelRetry
<1> QED
  BY <1>1, <1>2, <1>3

LEMMA AdmittedKeepsPromise ==
  ASSUME Inv, Inv', Reached, InTime, Timely, NEW t \in Tasks,
         NEW o \in Operations \cup {"none"}, NEW e \in EntryType, Admitted(t, o, e)
  PROVE  Promise!Next \/ UNCHANGED Promise!vars
<1>1. PICK p \in Phases \ {"waiting"}, f \in EntryType :
        Lands(t, o, p, f) /\ Outcome(o, e, p, f)
  BY DEF Admitted, Enters
<1>2. /\ InOrder(entry, known, "idle") /\ InOrder(e, known, "idle")
      /\ e.state = entry.state /\ e.hooks = entry.hooks
      /\ e.handle => entry.handle
      /\ o = "setup" => known /\ ~e.handle /\ e.state \in {"not_loaded", "setup_retry"}
  BY AdmittedFinds
<1>3. InOrder(f, known', p) /\ entry' = f
  BY <1>1, AdmittedInOrder DEF Lands
<1>4. /\ entry \in EntryType /\ known \in BOOLEAN
      /\ entry.handle \in BOOLEAN /\ entry.hooks \in BOOLEAN
      /\ f.handle \in BOOLEAN /\ f.hooks \in BOOLEAN
      /\ entry.state \in States /\ f.state \in States
  BY DEF Inv, TypeOK, EntryType
<1>5. CASE Ignores(o, e, p, f)
  <2>1. Promise!CancelRetry \/ UNCHANGED Promise!vars
    BY <1>2, <1>3, <1>4, <1>5, QuietStep DEF Ignores
  <2> QED
    BY <2>1 DEF Promise!Next
<1>6. CASE Starts(o, e, p, f)
  <2>1. /\ Life = "down" /\ Life' = "starting"
        /\ entry.hooks = FALSE /\ f.hooks = FALSE /\ f.handle = FALSE
        /\ known = TRUE /\ known' = TRUE
    BY <1>2, <1>3, <1>4, <1>6, LifeNow, LifeTable DEF Starts, InOrder
  <2>2. Promise!Start
    BY <1>3, <2>1 DEF Promise!Start
  <2> QED
    BY <2>2 DEF Promise!Next
<1>7. CASE Stops(o, e, p, f)
  <2>1. /\ Life = "up" /\ Life' = "stopping"
        /\ entry.hooks = f.hooks /\ f.handle = FALSE /\ entry.handle = FALSE
        /\ known' = known
    BY <1>2, <1>3, <1>4, <1>7, LifeNow, LifeTable DEF Stops, InOrder
  <2>2. Promise!Stop
    BY <1>3, <2>1 DEF Promise!Stop
  <2> QED
    BY <2>2 DEF Promise!Next
<1>8. CASE Unloads(e, f) /\ e.state = "loaded" /\ known' \in {known, FALSE}
  <2>1. /\ Life = "up" /\ Life' = "stuck"
        /\ entry.hooks = f.hooks /\ f.handle = FALSE /\ entry.handle = FALSE
    BY <1>2, <1>3, <1>4, <1>8, LifeNow, LifeTable DEF Unloads, InOrder
  <2>2. Promise!NotStopped
    BY <1>3, <1>8, <2>1 DEF Promise!NotStopped
  <2> QED
    BY <2>2 DEF Promise!Next
<1>9. CASE UnloadsOnly(o, e, p, f) /\ e.state # "loaded"
  <2>1. /\ LifeOf(f.state) = LifeOf(entry.state) /\ f.hooks = entry.hooks
        /\ ~f.handle /\ known' = known
    BY <1>2, <1>9, LifeTable DEF UnloadsOnly, Unloads
  <2>2. Promise!CancelRetry \/ UNCHANGED Promise!vars
    BY <1>2, <1>3, <1>4, <2>1, QuietStep
  <2> QED
    BY <2>2 DEF Promise!Next
<1>10. CASE Removes(o, e, p, f) /\ e.state # "loaded"
  <2>1. /\ Life \in {"down", "stuck"} /\ Life' = Life
        /\ f.hooks = entry.hooks /\ f.handle = FALSE /\ known' = FALSE
    <3>1. entry.state \notin {"setup_in_progress", "unload_in_progress", "loaded"}
      BY <1>2, <1>10 DEF InOrder, SetupPhases, UnloadPhases
    <3>2. LifeOf(entry.state) \in {"down", "stuck"}
      BY <1>4, <3>1, LifeTable DEF States
    <3>3. LifeOf(f.state) = LifeOf(entry.state)
      BY <1>2, <1>10, LifeTable DEF Removes, Unloads
    <3>4. f.hooks = entry.hooks /\ ~f.handle /\ known' = FALSE
      BY <1>2, <1>10 DEF Removes, Unloads, InOrder
    <3> QED
      BY <1>3, <1>4, <3>2, <3>3, <3>4, LifeNow
  <2>2. Promise!Remove
    BY <1>3, <2>1 DEF Promise!Remove
  <2> QED
    BY <2>2 DEF Promise!Next
<1> QED
  BY <1>1, <1>4, <1>5, <1>6, <1>7, <1>8, <1>9, <1>10 DEF Outcome, UnloadsOnly, Removes

LEMMA ContinuesKeepsPromise ==
  ASSUME Inv, InTime, Timely, NEW t \in Tasks, Continues(t)
  PROVE  Promise!Next \/ UNCHANGED Promise!vars
<1>1. PICK q \in Phases \ {"waiting"}, f \in EntryType :
        Lands(t, op[t], q, f) /\ Goes(op[t], phase[t], entry, q, f)
  BY DEF Continues
<1> DEFINE p == phase[t]
           o == op[t]
<1>2. InOrder(entry, known, p) /\ Goes(o, p, entry, q, f)
  BY <1>1 DEF InTime, Continues
<1>3. InOrder(f, known', q) /\ entry' = f
  BY <1>1, <1>2, ContinuesInOrder DEF Lands
<1>4. /\ entry \in EntryType /\ known \in BOOLEAN
      /\ entry.handle \in BOOLEAN /\ entry.hooks \in BOOLEAN
      /\ f.handle \in BOOLEAN /\ f.hooks \in BOOLEAN
      /\ entry.state \in States /\ f.state \in States
  BY DEF Inv, TypeOK, EntryType
<1> HIDE DEF p, o
<1> USE DEF InOrder, SetupPhases, UnloadPhases
<1>5. ASSUME \/ FallsShort(p, entry, q, f) \/ BreaksOff(p, entry, q, f)
             \/ EndsInError(p, entry, q, f) \/ TriesLater(p, entry, q, f),
             known' = known
      PROVE  Promise!Next
  <2>1. /\ Life = "starting" /\ Life' = "down" /\ f.hooks = FALSE
    BY <1>2, <1>3, <1>4, <1>5, LifeNow, LifeTable
       DEF FallsShort, BreaksOff, EndsInError, TriesLater
  <2>2. Promise!NotStarted
    BY <1>3, <1>4, <1>5, <2>1 DEF Promise!NotStarted
  <2> QED
    BY <2>2 DEF Promise!Next
<1>6. ASSUME GoesOn(p, entry, q, f), known' = known
      PROVE  Promise!Next \/ UNCHANGED Promise!vars
  <2>1. Life' = Life /\ f.handle = entry.handle
    BY <1>3, <1>6, LifeNow DEF GoesOn, Unchanging
  <2>2. CASE p = "loading" /\ q = "migrating" /\ f.hooks = entry.hooks
    BY <1>3, <1>6, <2>1, <2>2 DEF Promise!vars
  <2>3. CASE p \in {"loading", "migrating"} /\ f.hooks
    <3>1. Life = "starting" /\ f.hooks = TRUE
      BY <1>2, <1>4, <2>3, LifeNow, LifeTable
    <3>2. Promise!Hold
      BY <1>3, <1>6, <2>1, <3>1 DEF Promise!Hold
    <3> QED
      BY <3>2 DEF Promise!Next
  <2>4. CASE p \in {"setting_up", "unloading"} /\ ~f.hooks
    <3>1. Life \in {"starting", "stopping"} /\ f.hooks = FALSE
      BY <1>2, <1>4, <2>4, LifeNow, LifeTable
    <3>2. Promise!Release
      BY <1>3, <1>6, <2>1, <3>1 DEF Promise!Release
    <3> QED
      BY <3>2 DEF Promise!Next
  <2> QED
    BY <1>6, <2>2, <2>3, <2>4 DEF GoesOn
<1>7. ASSUME SetsUp(p, entry, q, f), known' = known
      PROVE  Promise!Next
  <2>1. /\ Life = "starting" /\ Life' = "up" /\ entry.hooks /\ f.hooks = entry.hooks
        /\ entry.handle = FALSE /\ f.handle = FALSE
    BY <1>2, <1>3, <1>4, <1>7, LifeNow, LifeTable DEF SetsUp
  <2>2. Promise!Started
    BY <1>3, <1>7, <2>1 DEF Promise!Started
  <2> QED
    BY <2>2 DEF Promise!Next
<1>8. ASSUME Leaves(p, entry, q, f), known' = known
      PROVE  UNCHANGED Promise!vars
  BY <1>3, <1>8, LifeNow DEF Leaves, Promise!vars
<1>9. ASSUME EndsUnload(o, p, entry, q, f)
      PROVE  Promise!Next
  <2>1. /\ Life = "stopping" /\ f.hooks = entry.hooks
        /\ entry.handle = FALSE /\ f.handle = FALSE
        /\ known = TRUE /\ known' \in {known, FALSE}
    BY <1>2, <1>3, <1>4, <1>9, LifeNow, LifeTable DEF EndsUnload
  <2>2. CASE p = "unloading"
    <3>1. Life' = "stuck"
      BY <1>3, <1>9, <2>2, LifeNow, LifeTable DEF EndsUnload
    <3>2. Promise!NotStopped
      BY <1>3, <2>1, <3>1 DEF Promise!NotStopped
    <3> QED
      BY <3>2 DEF Promise!Next
  <2>3. CASE p = "unload_cleanup" /\ q = "loading"
    <3>1. Life' = "starting" /\ ~entry.hooks /\ known' = known
      BY <1>2, <1>3, <1>9, <2>3, LifeNow, LifeTable DEF EndsUnload
    <3>2. Promise!Start
      BY <1>3, <2>1, <3>1 DEF Promise!Start
    <3> QED
      BY <3>2 DEF Promise!Next
  <2>4. CASE p = "unload_cleanup" /\ q # "loading"
    <3>1. Life' = "down" /\ ~entry.hooks
      BY <1>2, <1>3, <1>9, <2>4, LifeNow, LifeTable DEF EndsUnload
    <3>2. Promise!Stopped
      BY <1>3, <2>1, <3>1 DEF Promise!Stopped
    <3> QED
      BY <3>2 DEF Promise!Next
  <2> QED
    BY <1>9, <2>2, <2>3, <2>4 DEF EndsUnload
<1> QED
  BY <1>2, <1>5, <1>6, <1>7, <1>8, <1>9 DEF Goes

LEMMA StepKeepsPromise ==
  ASSUME Inv, Inv', Reached, InTime, Timely, [Next]_vars
  PROVE  [Promise!Next]_(Promise!vars)
<1>1. entry \in EntryType /\ entry' \in EntryType
  BY DEF Inv, TypeOK
<1>2. PICK p \in Phases \ {"waiting"} : InOrder(entry, known, p)
  BY InOrderNow
<1>3. CASE UNCHANGED vars
  BY <1>3, LifeNow DEF vars, Promise!vars
<1>4. CASE Aside
  <2>1. /\ entry'.state = entry.state /\ entry'.hooks = entry.hooks
        /\ entry'.handle => entry.handle
        /\ known' = known
    BY <1>4 DEF Aside
  <2>2. Promise!CancelRetry \/ UNCHANGED Promise!vars
    BY <1>1, <1>2, <2>1, QuietStep
  <2> QED
    BY <2>2 DEF Promise!Next
<1>5. ASSUME NEW t \in Tasks, NEW o \in Operations \cup {"none"}, NEW e \in EntryType,
             Queues(t, o, e)
      PROVE  [Promise!Next]_(Promise!vars)
  <2>1. /\ e.state = entry.state /\ e.hooks = entry.hooks
        /\ e.handle => entry.handle
    BY <1>5, QueuesFinds
  <2>2. entry' = e /\ known' = known
    BY <1>5 DEF Queues
  <2>3. Promise!CancelRetry \/ UNCHANGED Promise!vars
    BY <1>1, <1>2, <2>1, <2>2, QuietStep
  <2> QED
    BY <2>3 DEF Promise!Next
<1>6. ASSUME NEW t \in Tasks, LeavesQueue(t)
      PROVE  UNCHANGED Promise!vars
  BY <1>6, LifeNow DEF LeavesQueue, Promise!vars
<1> QED
  BY <1>3, <1>4, <1>5, <1>6, StepKinds, AdmittedKeepsPromise, ContinuesKeepsPromise

\* The manager keeps what it promises an integration: a set-up and an unload of
\* an entry alternate, a set-up starts only on a registered entry of which nothing
\* is left from before, and a retry is armed only while the entry is down.
THEOREM KeepsPromise ==
  ASSUME Timely
  PROVE  Spec => PromiseKept
<1>1. Init => Promise!Init
  BY LifeNow, LifeTable DEF Init, Promise!Init
<1>2. (Inv /\ Reached /\ InTime) /\ (Inv /\ Reached /\ InTime)' /\ [Next]_vars =>
        [Promise!Next]_(Promise!vars)
  BY StepKeepsPromise
<1> QED
  BY <1>1, <1>2, AlwaysInTime, PTL DEF Spec, PromiseKept, Promise!Spec
=============================================================================
