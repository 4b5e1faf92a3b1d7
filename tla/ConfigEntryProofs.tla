-------------------------- MODULE ConfigEntryProofs --------------------------
(***************************************************************************)
(* Proofs about ConfigEntry, for any set of tasks and any of its constants. *)
(*                                                                         *)
(* A task that runs with the lock ends at an await or returns.  Moved says *)
(* what both have in common; lemmas show it of each operator ConfigEntry   *)
(* builds its actions from, and MovedPreserves shows it keeps Inv.         *)
(***************************************************************************)
EXTENDS ConfigEntry, QueueLemmas

Inv == TypeOK /\ LockOK /\ (SafeInterrupts => InProgressOwned)

InProgress == {"setup_in_progress", "unload_in_progress"}

\* No set-up and no unload of e is half done.
Stable(e) == SafeInterrupts => e.state \notin InProgress

\* e is in a state that fits a task at the await p.
Fits(e, p) ==
  SafeInterrupts =>
    /\ e.state = "setup_in_progress" <=> p \in SetupPhases
    /\ e.state = "unload_in_progress" <=> p \in UnloadPhases

\* Task t, which owns the lock or just took it, is now at the await p, or has
\* returned the lock, and left the entry in a state that fits.
MovedTo(t, p) ==
  /\ phase' = [phase EXCEPT ![t] = p]
  /\ \E o \in Operations \cup {"none"} : op' = [op EXCEPT ![t] = o] /\ Suits(o, p)
  /\ owner' = IF p = "idle" THEN NoTask ELSE t
  /\ entry' \in EntryType
  /\ known' \in BOOLEAN
  /\ Fits(entry', p)

Moved(t) == \E p \in Phases \ {"waiting"} : MovedTo(t, p)

-----------------------------------------------------------------------------
(***************************************************************************)
(* The operators on the entry                                              *)
(***************************************************************************)
LEMMA SetStateType ==
  ASSUME NEW e \in EntryType, NEW s \in States
  PROVE  /\ SetState(e, s) \in EntryType
         /\ SetState(e, s).state = s
         /\ SetState(e, s).disabled = e.disabled
<1>1. (IF s \in NoResetTriesStates THEN e.tries ELSE 0) \in 0..MaxTries
  BY ConfigEntryAssumption DEF EntryType
<1> QED
  BY <1>1 DEF SetState, EntryType

LEMMA CancelRetryType ==
  ASSUME NEW e \in EntryType
  PROVE  CancelRetry(e) \in EntryType /\ CancelRetry(e).state = e.state
BY DEF CancelRetry, EntryType

LEMMA ReleaseHooksType ==
  ASSUME NEW e \in EntryType
  PROVE  ReleaseHooks(e) \in EntryType /\ ReleaseHooks(e).state = e.state
BY DEF ReleaseHooks, EntryType

LEMMA RetryLaterType ==
  ASSUME NEW e \in EntryType, e.handle => e.orphans < MaxOrphans
  PROVE  RetryLater(e) \in EntryType /\ RetryLater(e).state = "setup_retry"
<1> DEFINE f == SetState(e, "setup_retry")
<1>1. f \in EntryType /\ f.state = "setup_retry"
  BY SetStateType DEF States
<1>2. f.handle = e.handle /\ f.orphans = e.orphans
  BY DEF SetState, EntryType
<1>3. (IF e.handle THEN f.orphans + 1 ELSE f.orphans) \in 0..MaxOrphans
  BY <1>1, <1>2, ConfigEntryAssumption DEF EntryType
<1>4. (IF f.tries < MaxTries THEN f.tries + 1 ELSE f.tries) \in 0..MaxTries
  BY <1>1, ConfigEntryAssumption DEF EntryType
<1> DEFINE n == IF f.handle THEN f.orphans + 1 ELSE f.orphans
           k == IF f.tries < MaxTries THEN f.tries + 1 ELSE f.tries
<1>5. n \in 0..MaxOrphans /\ k \in 0..MaxTries
  BY <1>2, <1>3, <1>4
<1>6. RetryLater(e) = [f EXCEPT !.handle = TRUE, !.orphans = n, !.tries = k]
  BY <1>2 DEF RetryLater
<1> HIDE DEF f, n, k
<1> QED
  BY <1>1, <1>5, <1>6 DEF EntryType

LEMMA FiredType ==
  ASSUME NEW e \in EntryType, e.handle \/ e.orphans > 0
  PROVE  Fired(e) \in EntryType /\ Fired(e).state = e.state
<1>1. (IF e.handle THEN e.orphans ELSE e.orphans - 1) \in 0..MaxOrphans
  BY ConfigEntryAssumption DEF EntryType
<1> QED
  BY <1>1 DEF Fired, EntryType

-----------------------------------------------------------------------------
(***************************************************************************)
(* The operators that run with the lock                                    *)
(***************************************************************************)
LEMMA ReturnMoves ==
  ASSUME NEW t \in Tasks, NEW e \in EntryType, Stable(e),
         known' \in BOOLEAN, Return(t, e)
  PROVE  Moved(t)
<1>1. MovedTo(t, "idle")
  BY DEF MovedTo, Return, Suits, InProgress, Stable, Fits, SetupPhases, UnloadPhases
<1> QED
  BY <1>1 DEF Moved, Phases

LEMMA SuspendMoves ==
  ASSUME NEW t \in Tasks, NEW e \in EntryType, NEW o \in Operations \cup {"none"},
         NEW p \in Phases \ {"idle", "waiting"},
         Fits(e, p), Suits(o, p),
         known' \in BOOLEAN, Suspend(t, o, p, e)
  PROVE  Moved(t)
<1>1. MovedTo(t, p)
  BY DEF MovedTo, Suspend
<1> QED
  BY <1>1 DEF Moved

LEMMA BeginSetupMoves ==
  ASSUME NEW t \in Tasks, NEW e \in EntryType, NEW o \in {"setup", "reload"},
         Stable(e), known \in BOOLEAN, BeginSetup(t, o, e)
  PROVE  Moved(t)
<1>1. known' \in BOOLEAN
  BY DEF BeginSetup
<1>2. CASE Return(t, e)
  BY <1>1, <1>2, ReturnMoves
<1>3. CASE Suspend(t, o, "loading", SetState(e, "setup_in_progress"))
  <2>1. /\ SetState(e, "setup_in_progress") \in EntryType
        /\ SetState(e, "setup_in_progress").state = "setup_in_progress"
    BY SetStateType DEF States
  <2> QED
    BY <1>1, <1>3, <2>1, SuspendMoves
       DEF Operations, Suits, Fits, Phases, SetupPhases, UnloadPhases
<1> QED
  BY <1>2, <1>3 DEF BeginSetup, SetupWithContext

LEMMA UnloadedMoves ==
  ASSUME NEW t \in Tasks, NEW e \in EntryType, NEW o \in Operations,
         NEW ok \in BOOLEAN,
         Stable(e), known \in BOOLEAN, Unloaded(t, o, e, ok)
  PROVE  Moved(t)
<1>1. CASE o = "remove" /\ known' = FALSE /\ Suspend(t, o, "removing", e)
  BY <1>1, SuspendMoves
     DEF Suits, InProgress, Stable, Fits, Phases, SetupPhases, UnloadPhases
<1>2. CASE o = "reload" /\ BeginSetup(t, o, e)
  BY <1>2, BeginSetupMoves
<1>3. CASE Return(t, e) /\ UNCHANGED known
  BY <1>3, ReturnMoves
<1> QED
  BY <1>1, <1>2, <1>3 DEF Unloaded

LEMMA BeginUnloadMoves ==
  ASSUME NEW t \in Tasks, NEW e \in EntryType,
         NEW o \in {"unload", "reload", "remove"},
         Stable(e), known \in BOOLEAN, BeginUnload(t, o, e)
  PROVE  Moved(t)
<1> USE DEF Operations
<1>1. CASE \E ok \in BOOLEAN : Unloaded(t, o, e, ok)
  BY <1>1, UnloadedMoves
<1>2. CASE Unloaded(t, o, SetState(CancelRetry(e), "not_loaded"), TRUE)
  <2>1. /\ SetState(CancelRetry(e), "not_loaded") \in EntryType
        /\ SetState(CancelRetry(e), "not_loaded").state = "not_loaded"
    BY CancelRetryType, SetStateType DEF States
  <2> QED
    BY <1>2, <2>1, UnloadedMoves DEF InProgress, Stable, Fits
<1>3. CASE Unloaded(t, o, SetState(e, "failed_unload"), FALSE)
  <2>1. /\ SetState(e, "failed_unload") \in EntryType
        /\ SetState(e, "failed_unload").state = "failed_unload"
    BY SetStateType DEF States
  <2> QED
    BY <1>3, <2>1, UnloadedMoves DEF InProgress, Stable, Fits
<1>4. CASE /\ Suspend(t, o, "unloading", SetState(e, "unload_in_progress"))
           /\ UNCHANGED known
  <2>1. /\ SetState(e, "unload_in_progress") \in EntryType
        /\ SetState(e, "unload_in_progress").state = "unload_in_progress"
    BY SetStateType DEF States
  <2> QED
    BY <1>4, <2>1, SuspendMoves DEF Suits, Fits, Phases, SetupPhases, UnloadPhases
<1> QED
  BY <1>1, <1>2, <1>3, <1>4 DEF BeginUnload

LEMMA EnterMoves ==
  ASSUME NEW t \in Tasks, NEW e \in EntryType, NEW o \in Operations \cup {"none"},
         Stable(e), known \in BOOLEAN, Enter(t, o, e)
  PROVE  Moved(t)
<1>1. CASE o = "setup" /\ BeginSetup(t, o, e)
  BY <1>1, BeginSetupMoves
<1>2. CASE o \in {"unload", "reload", "remove"} /\ BeginUnload(t, o, e)
  BY <1>2, BeginUnloadMoves
<1>3. CASE Return(t, e) /\ UNCHANGED known
  BY <1>3, ReturnMoves
<1> QED
  BY <1>1, <1>2, <1>3 DEF Enter

-----------------------------------------------------------------------------
(***************************************************************************)
(* The queue of setup_lock                                                 *)
(***************************************************************************)
QueueOK ==
  /\ waiters \in Seq(Tasks)
  /\ \A t \in Tasks :
       phase[t] = "waiting" <=> \E i \in 1..Len(waiters) : waiters[i] = t
  /\ \A i, j \in 1..Len(waiters) : waiters[i] = waiters[j] => i = j

LEMMA QueueKept ==
  ASSUME QueueOK, phase \in [Tasks -> Phases], NEW t \in Tasks,
         NEW p \in Phases \ {"waiting"}, phase[t] # "waiting",
         phase' = [phase EXCEPT ![t] = p], waiters' = waiters
  PROVE  QueueOK'
<1>1. \A u \in Tasks : phase'[u] = "waiting" <=> phase[u] = "waiting"
  OBVIOUS
<1> QED
  BY <1>1 DEF QueueOK

LEMMA QueueAppend ==
  ASSUME QueueOK, phase \in [Tasks -> Phases], NEW t \in Tasks,
         phase[t] # "waiting",
         phase' = [phase EXCEPT ![t] = "waiting"], waiters' = Append(waiters, t)
  PROVE  QueueOK'
<1> USE DEF QueueOK
<1>1. /\ waiters' \in Seq(Tasks)
      /\ Len(waiters') = Len(waiters) + 1
      /\ \A i \in 1..Len(waiters) : waiters'[i] = waiters[i]
      /\ waiters'[Len(waiters) + 1] = t
      /\ Len(waiters) \in Nat
  OBVIOUS
<1>2. ASSUME NEW u \in Tasks
      PROVE  phase'[u] = "waiting" <=> \E i \in 1..Len(waiters') : waiters'[i] = u
  <2>1. CASE u = t
    BY <1>1, <2>1
  <2>2. CASE u # t
    BY <1>1, <2>2
  <2> QED
    BY <2>1, <2>2
<1>3. \A i \in 1..Len(waiters) : waiters[i] # t
  OBVIOUS
<1>4. \A i, j \in 1..Len(waiters') : waiters'[i] = waiters'[j] => i = j
  BY <1>1, <1>3
<1> QED
  BY <1>1, <1>2, <1>4

\* Both the task that takes the lock and a task that is cancelled leave a gap
\* at one position; those behind it move up.
LEMMA QueueDrop ==
  ASSUME QueueOK, phase \in [Tasks -> Phases], NEW t \in Tasks,
         NEW p \in Phases \ {"waiting"}, NEW k \in 1..Len(waiters),
         waiters[k] = t, phase' = [phase EXCEPT ![t] = p],
         waiters' \in Seq(Tasks),
         Len(waiters') = Len(waiters) - 1,
         \A i \in 1..Len(waiters') :
           waiters'[i] = IF i < k THEN waiters[i] ELSE waiters[i + 1]
  PROVE  QueueOK'
<1> USE DEF QueueOK
<1>1. Len(waiters) \in Nat /\ Len(waiters') \in Nat
  OBVIOUS
<1>2. ASSUME NEW u \in Tasks, phase'[u] = "waiting"
      PROVE  \E i \in 1..Len(waiters') : waiters'[i] = u
  <2>1. u # t /\ phase[u] = "waiting"
    BY <1>2
  <2>2. PICK j \in 1..Len(waiters) : waiters[j] = u
    BY <2>1
  <2>3. CASE j < k
    BY <1>1, <2>2, <2>3
  <2>4. CASE j > k
    <3>1. j - 1 \in 1..Len(waiters') /\ ~(j - 1 < k)
      BY <1>1, <2>4
    <3>2. waiters'[j - 1] = waiters[(j - 1) + 1]
      BY <3>1
    <3> QED
      BY <1>1, <2>2, <3>1, <3>2
  <2> QED
    BY <1>1, <2>1, <2>2, <2>3, <2>4
<1>3. ASSUME NEW u \in Tasks, NEW i \in 1..Len(waiters'), waiters'[i] = u
      PROVE  phase'[u] = "waiting"
  <2>1. PICK j \in 1..Len(waiters) : waiters[j] = u /\ j # k
    BY <1>1, <1>3
  <2>2. u # t /\ phase[u] = "waiting"
    BY <2>1
  <2> QED
    BY <2>2
<1>4. ASSUME NEW i \in 1..Len(waiters'), NEW j \in 1..Len(waiters'),
             waiters'[i] = waiters'[j]
      PROVE  i = j
  BY <1>1, <1>4
<1> QED
  BY <1>2, <1>3, <1>4

-----------------------------------------------------------------------------
(***************************************************************************)
(* Inv is inductive                                                        *)
(***************************************************************************)
LEMMA MovedPreserves ==
  ASSUME Inv, NEW t \in Tasks, Moved(t), owner \in {NoTask, t},
         component' \in BOOLEAN, stopping' \in BOOLEAN, QueueOK'
  PROVE  Inv'
<1>1. PICK p \in Phases \ {"waiting"} : MovedTo(t, p)
  BY DEF Moved
<1>2. TypeOK'
  <2>1. ASSUME NEW u \in Tasks
        PROVE  Suits(op'[u], phase'[u])
    BY <1>1 DEF MovedTo, Inv, TypeOK
  <2> QED
    BY <1>1, <2>1 DEF MovedTo, Inv, TypeOK, QueueOK
<1>3. ASSUME NEW u \in Tasks
      PROVE  owner' = u <=> phase'[u] \notin {"idle", "waiting"}
  <2>1. CASE u = t
    BY <1>1, <2>1, ConfigEntryAssumption DEF MovedTo, Inv, TypeOK
  <2>2. CASE u # t
    BY <1>1, <2>2, ConfigEntryAssumption DEF MovedTo, Inv, TypeOK, LockOK
  <2> QED
    BY <2>1, <2>2
<1>4. LockOK'
  BY <1>3 DEF LockOK, QueueOK
<1>5. ASSUME NEW u \in Tasks, u # t
      PROVE  phase'[u] \notin SetupPhases \cup UnloadPhases
  <2>1. owner' # u
    BY <1>1, <1>5, ConfigEntryAssumption DEF MovedTo
  <2> QED
    BY <1>3, <2>1 DEF SetupPhases, UnloadPhases
<1>6. phase'[t] = p
  BY <1>1 DEF MovedTo, Inv, TypeOK
<1>7. (SafeInterrupts => InProgressOwned)'
  BY <1>1, <1>5, <1>6 DEF MovedTo, Fits, InProgressOwned
<1> QED
  BY <1>2, <1>4, <1>7 DEF Inv

\* A free lock, or a task at work on something else, means nothing is half done.
LEMMA RestIsStable ==
  ASSUME Inv,
         \A t \in Tasks : phase[t] \notin SetupPhases \cup UnloadPhases
  PROVE  Stable(entry)
BY DEF Inv, InProgressOwned, InProgress, Stable

LEMMA FreeIsStable ==
  ASSUME Inv, owner = NoTask
  PROVE  Stable(entry)
<1>1. \A t \in Tasks : phase[t] \in {"idle", "waiting"}
  BY ConfigEntryAssumption DEF Inv, LockOK
<1> QED
  BY <1>1, RestIsStable DEF SetupPhases, UnloadPhases

\* The entry changes only where the queue and the phases do not look.
LEMMA EntryPreserves ==
  ASSUME Inv, entry' \in EntryType, component' \in BOOLEAN, stopping' \in BOOLEAN,
         entry'.state = entry.state, UNCHANGED <<known, lock, op, phase>>
  PROVE  Inv'
BY DEF Inv, TypeOK, LockOK, InProgressOwned, lock

LEMMA RequestPreserves ==
  ASSUME Inv, NEW t \in Tasks, NEW o \in Operations, NEW e \in EntryType,
         \/ e.state = entry.state
         \/ Stable(e) /\ Stable(entry),
         component' \in BOOLEAN, stopping' \in BOOLEAN, Request(t, o, e)
  PROVE  Inv'
<1>1. QueueOK /\ phase \in [Tasks -> Phases] /\ phase[t] # "waiting"
  BY DEF Inv, TypeOK, LockOK, QueueOK, Request
<1>2. CASE owner = NoTask /\ Enter(t, o, e) /\ UNCHANGED waiters
  <2>1. Stable(e)
    BY <1>2, FreeIsStable DEF Stable
  <2>2. Moved(t)
    BY <1>2, <2>1, EnterMoves DEF Inv, TypeOK
  <2>3. QueueOK'
    <3>1. PICK p \in Phases \ {"waiting"} : MovedTo(t, p)
      BY <2>2 DEF Moved
    <3> QED
      BY <1>1, <1>2, <3>1, QueueKept DEF MovedTo
  <2> QED
    BY <1>2, <2>2, <2>3, MovedPreserves
<1>3. CASE /\ waiters' = Append(waiters, t)
           /\ entry' = e
           /\ op' = [op EXCEPT ![t] = o]
           /\ phase' = [phase EXCEPT ![t] = "waiting"]
           /\ UNCHANGED <<owner, known>>
  <2>1. QueueOK'
    BY <1>1, <1>3, QueueAppend
  <2>2. TypeOK'
    <3>1. ASSUME NEW u \in Tasks
          PROVE  Suits(op'[u], phase'[u])
      <4>1. Suits(o, "waiting")
        BY DEF Suits, Operations, SetupPhases, UnloadPhases
      <4> QED
        BY <1>3, <4>1 DEF Inv, TypeOK
    <3> QED
      BY <1>3, <2>1, <3>1 DEF Inv, TypeOK, QueueOK, Phases
  <2>3. ASSUME NEW u \in Tasks
        PROVE  \/ phase'[u] = phase[u]
               \/ phase[u] = "idle" /\ phase'[u] = "waiting"
    BY <1>1, <1>3 DEF Request
  <2>4. LockOK'
    <3>1. \A u \in Tasks : owner' = u <=> phase'[u] \notin {"idle", "waiting"}
      BY <1>3, <2>3 DEF Inv, LockOK
    <3> QED
      BY <2>1, <3>1 DEF LockOK, QueueOK
  <2>5. SafeInterrupts =>
          /\ entry'.state = "setup_in_progress" <=> entry.state = "setup_in_progress"
          /\ entry'.state = "unload_in_progress" <=> entry.state = "unload_in_progress"
    BY <1>3 DEF InProgress, Stable
  <2>6. \A u \in Tasks :
          /\ phase'[u] \in SetupPhases <=> phase[u] \in SetupPhases
          /\ phase'[u] \in UnloadPhases <=> phase[u] \in UnloadPhases
    BY <2>3 DEF SetupPhases, UnloadPhases
  <2>7. (SafeInterrupts => InProgressOwned)'
    BY <2>5, <2>6 DEF Inv, InProgressOwned
  <2> QED
    BY <2>2, <2>4, <2>7 DEF Inv
<1> QED
  BY <1>2, <1>3 DEF Request

LEMMA AcquirePreserves ==
  ASSUME Inv, NEW t \in Tasks, Acquire(t)
  PROVE  Inv'
<1>1. Moved(t)
  BY FreeIsStable, EnterMoves DEF Inv, TypeOK, Acquire
<1>2. PICK p \in Phases \ {"waiting"} : MovedTo(t, p)
  BY <1>1 DEF Moved
<1>3. /\ waiters' \in Seq(Tasks)
      /\ Len(waiters) \in Nat /\ Len(waiters) > 0
      /\ Len(waiters') = Len(waiters) - 1
      /\ waiters[1] = t
      /\ \A i \in 1..Len(waiters') : waiters'[i] = waiters[i + 1]
  BY DEF Inv, TypeOK, Acquire
<1>4. \A i \in 1..Len(waiters') :
        waiters'[i] = IF i < 1 THEN waiters[i] ELSE waiters[i + 1]
  BY <1>3
<1>5. QueueOK /\ phase \in [Tasks -> Phases] /\ 1 \in 1..Len(waiters)
  BY <1>3 DEF Inv, TypeOK, LockOK, QueueOK
<1>6. QueueOK'
  BY <1>2, <1>3, <1>4, <1>5, QueueDrop DEF MovedTo
<1> QED
  BY <1>1, <1>6, MovedPreserves DEF Inv, TypeOK, Acquire

\* The task that owns the lock goes on.
LEMMA HolderPreserves ==
  ASSUME Inv, NEW t \in Tasks, NEW p \in Phases \ {"idle", "waiting"},
         At(t, p), Moved(t)
  PROVE  Inv'
<1>1. PICK q \in Phases \ {"waiting"} : MovedTo(t, q)
  BY DEF Moved
<1>2. QueueOK /\ phase \in [Tasks -> Phases] /\ phase[t] # "waiting"
  BY DEF Inv, TypeOK, LockOK, QueueOK, At
<1>3. QueueOK'
  BY <1>1, <1>2, QueueKept DEF MovedTo, At
<1> QED
  BY <1>3, MovedPreserves DEF At, Inv, TypeOK

LEMMA HolderIsStable ==
  ASSUME Inv, NEW t \in Tasks, owner = t,
         phase[t] \notin SetupPhases \cup UnloadPhases
  PROVE  Stable(entry)
<1>1. ASSUME NEW u \in Tasks
      PROVE  phase[u] \notin SetupPhases \cup UnloadPhases
  <2>1. CASE u = t
    BY <2>1
  <2>2. CASE u # t
    <3>1. phase[u] \in {"idle", "waiting"}
      BY <2>2 DEF Inv, LockOK
    <3> QED
      BY <3>1 DEF SetupPhases, UnloadPhases
  <2> QED
    BY <2>1, <2>2
<1> QED
  BY <1>1, RestIsStable

LEMMA StateOfHolder ==
  ASSUME Inv, NEW t \in Tasks
  PROVE  /\ phase[t] \in SetupPhases => Fits(entry, "loading")
         /\ phase[t] \in UnloadPhases => Fits(entry, "unloading")
BY DEF Inv, InProgressOwned, Fits, SetupPhases, UnloadPhases

\* A task in the middle of a set-up or an unload may go on to any part of it, and
\* one that unloads was called for something that does.
LEMMA TaskOfHolder ==
  ASSUME Inv, NEW t \in Tasks
  PROVE  /\ op[t] \in Operations \cup {"none"}
         /\ phase[t] \in SetupPhases =>
              \A p \in SetupPhases \cup {"cleanup"} : Suits(op[t], p)
         /\ phase[t] \in UnloadPhases =>
              /\ op[t] \in {"unload", "reload", "remove"}
              /\ \A p \in UnloadPhases : Suits(op[t], p)
BY DEF Inv, TypeOK, Suits, SetupPhases, UnloadPhases

LEMMA LoadPreserves ==
  ASSUME Inv, NEW t \in Tasks, Load(t)
  PROVE  Inv'
<1> USE DEF Fits, Stable, Phases, States, InProgress, SetupPhases, UnloadPhases
<1>1. /\ entry \in EntryType /\ Fits(entry, "loading")
      /\ op[t] \in Operations \cup {"none"} /\ known' \in BOOLEAN
      /\ \A p \in SetupPhases \cup {"cleanup"} : Suits(op[t], p)
  BY StateOfHolder, TaskOfHolder DEF Inv, TypeOK, Load, At
<1>2. [entry EXCEPT !.hooks = TRUE] \in EntryType
  BY <1>1 DEF EntryType
<1>3. [entry EXCEPT !.hooks = TRUE].state = entry.state
  BY <1>1 DEF EntryType
<1>4. CASE Return(t, SetState(entry, "setup_error"))
  BY <1>1, <1>4, SetStateType, ReturnMoves, HolderPreserves DEF Load
<1>5. CASE Return(t, SetState(entry, "migration_error"))
  BY <1>1, <1>5, SetStateType, ReturnMoves, HolderPreserves DEF Load
<1>6. CASE Suspend(t, op[t], "migrating", entry)
  BY <1>1, <1>6, SuspendMoves, HolderPreserves DEF Load
<1>7. CASE Suspend(t, op[t], "setting_up", [entry EXCEPT !.hooks = TRUE])
  BY <1>1, <1>2, <1>3, <1>7, SuspendMoves, HolderPreserves DEF Load
<1> QED
  BY <1>4, <1>5, <1>6, <1>7 DEF Load

LEMMA MigratePreserves ==
  ASSUME Inv, NEW t \in Tasks, Migrate(t)
  PROVE  Inv'
<1> USE DEF Fits, Stable, Phases, States, InProgress, SetupPhases, UnloadPhases
<1>1. /\ entry \in EntryType /\ Fits(entry, "loading")
      /\ op[t] \in Operations \cup {"none"} /\ known' \in BOOLEAN
      /\ \A p \in SetupPhases \cup {"cleanup"} : Suits(op[t], p)
  BY StateOfHolder, TaskOfHolder DEF Inv, TypeOK, Migrate, At
<1>2. [entry EXCEPT !.hooks = TRUE] \in EntryType
  BY <1>1 DEF EntryType
<1>3. [entry EXCEPT !.hooks = TRUE].state = entry.state
  BY <1>1 DEF EntryType
<1>4. CASE Suspend(t, op[t], "setting_up", [entry EXCEPT !.hooks = TRUE])
  BY <1>1, <1>2, <1>3, <1>4, SuspendMoves, HolderPreserves DEF Migrate
<1>5. CASE RetryFits /\ Return(t, RetryLater(entry))
  BY <1>1, <1>5, RetryLaterType, ReturnMoves, HolderPreserves DEF Migrate, RetryFits
<1>6. CASE Return(t, SetState(entry, "migration_error"))
  BY <1>1, <1>6, SetStateType, ReturnMoves, HolderPreserves DEF Migrate
<1> QED
  BY <1>4, <1>5, <1>6 DEF Migrate

LEMMA SetupEntryPreserves ==
  ASSUME Inv, NEW t \in Tasks, SetupEntry(t)
  PROVE  Inv'
<1> USE DEF Fits, Stable, Phases, States, InProgress, SetupPhases, UnloadPhases
<1>1. /\ entry \in EntryType /\ Fits(entry, "loading")
      /\ op[t] \in Operations \cup {"none"} /\ known' \in BOOLEAN
      /\ \A p \in SetupPhases \cup {"cleanup"} : Suits(op[t], p)
  BY StateOfHolder, TaskOfHolder DEF Inv, TypeOK, SetupEntry, At
<1>2. CASE Return(t, SetState(CancelRetry(entry), "loaded"))
  <2>1. /\ SetState(CancelRetry(entry), "loaded") \in EntryType
        /\ SetState(CancelRetry(entry), "loaded").state = "loaded"
    BY <1>1, CancelRetryType, SetStateType
  <2> QED
    BY <1>1, <1>2, <2>1, ReturnMoves, HolderPreserves DEF SetupEntry
<1>3. CASE RetryFits /\ Suspend(t, op[t], "cleanup", ReleaseHooks(RetryLater(entry)))
  <2>1. /\ ReleaseHooks(RetryLater(entry)) \in EntryType
        /\ ReleaseHooks(RetryLater(entry)).state = "setup_retry"
    BY <1>1, <1>3, RetryLaterType, ReleaseHooksType DEF RetryFits
  <2> QED
    BY <1>1, <1>3, <2>1, SuspendMoves, HolderPreserves DEF SetupEntry
<1>4. CASE Suspend(t, op[t], "error_cleanup", ReleaseHooks(entry))
  BY <1>1, <1>4, ReleaseHooksType, SuspendMoves, HolderPreserves DEF SetupEntry
<1> QED
  BY <1>2, <1>3, <1>4 DEF SetupEntry

LEMMA CleanupPreserves ==
  ASSUME Inv, NEW t \in Tasks, Cleanup(t)
  PROVE  Inv'
<1> USE DEF Fits, Stable, Phases, States, InProgress, SetupPhases, UnloadPhases
<1>1. entry \in EntryType /\ known' \in BOOLEAN
  BY DEF Inv, TypeOK, Cleanup
<1>2. CASE At(t, "cleanup") /\ Return(t, entry)
  <2>1. Stable(entry)
    BY <1>2, HolderIsStable DEF At
  <2> QED
    BY <1>1, <1>2, <2>1, ReturnMoves, HolderPreserves
<1>3. CASE /\ At(t, "error_cleanup")
           /\ Return(t, SetState(CancelRetry(entry), "setup_error"))
  <2>1. /\ SetState(CancelRetry(entry), "setup_error") \in EntryType
        /\ SetState(CancelRetry(entry), "setup_error").state = "setup_error"
    BY <1>1, CancelRetryType, SetStateType
  <2> QED
    BY <1>1, <1>3, <2>1, ReturnMoves, HolderPreserves
<1> QED
  BY <1>2, <1>3 DEF Cleanup

LEMMA UnloadEntryPreserves ==
  ASSUME Inv, NEW t \in Tasks, UnloadEntry(t)
  PROVE  Inv'
<1> USE DEF Fits, Stable, Phases, States, InProgress, SetupPhases, UnloadPhases
<1>1. /\ entry \in EntryType /\ Fits(entry, "unloading")
      /\ op[t] \in {"unload", "reload", "remove"} /\ known \in BOOLEAN
      /\ op[t] \in Operations /\ Suits(op[t], "unload_cleanup")
  BY StateOfHolder, TaskOfHolder DEF Inv, TypeOK, UnloadEntry, At, Operations
<1>2. CASE Suspend(t, op[t], "unload_cleanup", ReleaseHooks(entry)) /\ UNCHANGED known
  BY <1>1, <1>2, ReleaseHooksType, SuspendMoves, HolderPreserves DEF UnloadEntry
<1>3. CASE Unloaded(t, op[t], SetState(entry, "failed_unload"), FALSE)
  BY <1>1, <1>3, SetStateType, UnloadedMoves, HolderPreserves DEF UnloadEntry
<1> QED
  BY <1>2, <1>3 DEF UnloadEntry

LEMMA UnloadCleanupPreserves ==
  ASSUME Inv, NEW t \in Tasks, UnloadCleanup(t)
  PROVE  Inv'
<1> USE DEF Fits, Stable, Phases, States, InProgress
<1>1. /\ entry \in EntryType /\ op[t] \in Operations /\ known \in BOOLEAN
  BY TaskOfHolder DEF Inv, TypeOK, UnloadCleanup, At, Operations, UnloadPhases
<1> QED
  BY <1>1, SetStateType, UnloadedMoves, HolderPreserves DEF UnloadCleanup

LEMMA RemoveEntryPreserves ==
  ASSUME Inv, NEW t \in Tasks, RemoveEntry(t)
  PROVE  Inv'
<1>1. Stable(entry)
  BY HolderIsStable DEF RemoveEntry, At, SetupPhases, UnloadPhases
<1> QED
  BY <1>1, ReturnMoves, HolderPreserves DEF RemoveEntry, Inv, TypeOK, Phases

LEMMA CancelWaitingPreserves ==
  ASSUME Inv, NEW t \in Tasks,
         UNCHANGED <<entry, owner, known, component, stopping>>,
         phase[t] = "waiting",
         \E i \in 1..Len(waiters) :
           waiters[i] = t /\ waiters' = Seqs!RemoveAt(waiters, i),
         op' = [op EXCEPT ![t] = "none"],
         phase' = [phase EXCEPT ![t] = "idle"]
  PROVE  Inv'
<1>1. PICK k \in 1..Len(waiters) :
        waiters[k] = t /\ waiters' = Seqs!RemoveAt(waiters, k)
  OBVIOUS
<1>2. waiters \in Seq(Tasks) /\ Len(waiters) \in Nat
  BY DEF Inv, TypeOK
<1>3. /\ waiters' \in Seq(Tasks)
      /\ Len(waiters') = Len(waiters) - 1
      /\ \A i \in 1..Len(waiters') :
           waiters'[i] = IF i < k THEN waiters[i] ELSE waiters[i + 1]
  <2>1. waiters' \in Seq(Tasks) /\ Dropped(waiters, k, waiters')
    BY <1>1, <1>2, RemoveAtDrops DEF Seqs!RemoveAt
  <2> QED
    BY <2>1 DEF Dropped
<1>4. QueueOK'
  <2>1. QueueOK /\ phase \in [Tasks -> Phases] /\ "idle" \in Phases \ {"waiting"}
    BY DEF Inv, TypeOK, LockOK, QueueOK, Phases
  <2> QED
    BY <1>1, <1>3, <2>1, QueueDrop
<1>5. TypeOK'
  <2>1. ASSUME NEW u \in Tasks
        PROVE  Suits(op'[u], phase'[u])
    <3>1. Suits("none", "idle")
      BY DEF Suits, SetupPhases, UnloadPhases
    <3> QED
      BY <3>1 DEF Inv, TypeOK
  <2> QED
    BY <1>4, <2>1 DEF Inv, TypeOK, QueueOK, Phases
<1>6. ASSUME NEW u \in Tasks
      PROVE  \/ phase'[u] = phase[u]
             \/ phase[u] = "waiting" /\ phase'[u] = "idle"
  <2>1. phase \in [Tasks -> Phases]
    BY DEF Inv, TypeOK
  <2> QED
    BY <2>1
<1>7. \A u \in Tasks : owner' = u <=> phase'[u] \notin {"idle", "waiting"}
  BY <1>6 DEF Inv, LockOK
<1>8. LockOK'
  BY <1>4, <1>7 DEF LockOK, QueueOK
<1>9. \A u \in Tasks :
        /\ phase'[u] \in SetupPhases <=> phase[u] \in SetupPhases
        /\ phase'[u] \in UnloadPhases <=> phase[u] \in UnloadPhases
  BY <1>6 DEF SetupPhases, UnloadPhases
<1>10. (SafeInterrupts => InProgressOwned)'
  <2>1. entry' = entry
    OBVIOUS
  <2> QED
    BY <1>9, <2>1 DEF Inv, InProgressOwned
<1> QED
  BY <1>5, <1>8, <1>10 DEF Inv

LEMMA CancelPreserves ==
  ASSUME Inv, NEW t \in Tasks, Cancel(t)
  PROVE  Inv'
<1> USE DEF Fits, Stable, Phases, States, InProgress, SetupPhases, UnloadPhases
<1>1. /\ entry \in EntryType /\ op[t] \in Operations \cup {"none"}
      /\ known' \in BOOLEAN
  BY DEF Inv, TypeOK, Cancel
<1>2. CASE /\ phase[t] = "waiting"
           /\ \E i \in 1..Len(waiters) :
                waiters[i] = t /\ waiters' = Seqs!RemoveAt(waiters, i)
           /\ op' = [op EXCEPT ![t] = "none"]
           /\ phase' = [phase EXCEPT ![t] = "idle"]
           /\ UNCHANGED <<entry, owner>>
  BY <1>2, CancelWaitingPreserves DEF Cancel
<1>3. CASE At(t, "migrating") /\ Return(t, SetState(entry, "setup_error"))
  BY <1>1, <1>3, SetStateType, ReturnMoves, HolderPreserves
<1>4. CASE /\ At(t, "setting_up")
           /\ Suspend(t, op[t], "cleanup", ReleaseHooks(SetState(entry, "setup_error")))
  <2>1. /\ ReleaseHooks(SetState(entry, "setup_error")) \in EntryType
        /\ ReleaseHooks(SetState(entry, "setup_error")).state = "setup_error"
    BY <1>1, SetStateType, ReleaseHooksType
  <2>2. Suits(op[t], "cleanup")
    BY <1>4, TaskOfHolder DEF At
  <2> QED
    BY <1>1, <1>4, <2>1, <2>2, SuspendMoves, HolderPreserves
<1>5. CASE /\ phase[t] \in {"loading", "cleanup", "error_cleanup", "unloading",
                            "unload_cleanup", "removing"}
           /\ At(t, phase[t])
           /\ Return(t, entry)
  <2>1. SafeInterrupts => phase[t] \in {"cleanup", "removing"}
    BY <1>5 DEF Cancel, SafeInterrupts
  <2>2. Stable(entry)
    BY <1>5, <2>1, HolderIsStable DEF At
  <2> QED
    BY <1>1, <1>5, <2>1, <2>2, ReturnMoves, HolderPreserves
<1> QED
  BY <1>2, <1>3, <1>4, <1>5 DEF Cancel

\* The calls that start a task, and the timer.
LEMMA CallsPreserve ==
  ASSUME Inv, NEW t \in Tasks,
         \/ Setup(t) \/ Unload(t) \/ Reload(t) \/ SetDisabledBy(t)
         \/ RetryMigration(t) \/ Remove(t) \/ SetupComponent(t) \/ FireRetry(t)
  PROVE  Inv'
<1>1. entry \in EntryType /\ component \in BOOLEAN /\ stopping \in BOOLEAN
  BY DEF Inv, TypeOK
<1> USE DEF Operations, Call
<1>2. CASE Setup(t)
  BY <1>1, <1>2, RequestPreserves DEF Setup
<1>3. CASE Unload(t)
  BY <1>1, <1>3, RequestPreserves DEF Unload
<1>4. CASE Reload(t)
  BY <1>1, <1>4, CancelRetryType, RequestPreserves DEF Reload
<1>5. CASE SetDisabledBy(t)
  <2> DEFINE d == [entry EXCEPT !.disabled = ~@]
             e == CancelRetry(d)
  <2>1. d \in EntryType /\ d.state = entry.state
    BY <1>1 DEF EntryType
  <2>2. e \in EntryType /\ e.state = entry.state
    BY <2>1, CancelRetryType
  <2>3. CASE component /\ Request(t, "reload", e)
    BY <1>1, <1>5, <2>2, <2>3, RequestPreserves DEF SetDisabledBy
  <2>4. CASE entry' = e /\ UNCHANGED <<known, lock, op, phase>>
    BY <1>1, <1>5, <2>2, <2>4, EntryPreserves DEF SetDisabledBy
  <2> QED
    BY <1>5, <2>3, <2>4 DEF SetDisabledBy
<1>6. CASE RetryMigration(t)
  <2>1. /\ SetState(entry, "not_loaded") \in EntryType
        /\ SetState(entry, "not_loaded").state = "not_loaded"
    BY <1>1, SetStateType DEF States
  <2> QED
    BY <1>1, <1>6, <2>1, RequestPreserves DEF RetryMigration, InProgress, Stable, Fits
<1>7. CASE Remove(t)
  BY <1>1, <1>7, RequestPreserves DEF Remove
<1>8. CASE SetupComponent(t)
  <2>1. component' \in BOOLEAN /\ stopping' \in BOOLEAN
    BY <1>1, <1>8 DEF SetupComponent
  <2>2. CASE Request(t, "setup", entry)
    BY <1>1, <2>1, <2>2, RequestPreserves
  <2>3. CASE UNCHANGED <<entry, known, lock, op, phase>>
    BY <1>1, <2>1, <2>3, EntryPreserves
  <2> QED
    BY <1>8, <2>2, <2>3 DEF SetupComponent
<1>9. CASE FireRetry(t)
  <2>1. Fired(entry) \in EntryType /\ Fired(entry).state = entry.state
    BY <1>1, <1>9, FiredType DEF FireRetry
  <2>2. CASE Request(t, "setup", Fired(entry))
    BY <1>1, <1>9, <2>1, <2>2, RequestPreserves DEF FireRetry
  <2>3. CASE entry' = Fired(entry) /\ UNCHANGED <<known, lock, op, phase>>
    BY <1>1, <1>9, <2>1, <2>3, EntryPreserves DEF FireRetry
  <2> QED
    BY <1>9, <2>2, <2>3 DEF FireRetry
<1> QED
  BY <1>2, <1>3, <1>4, <1>5, <1>6, <1>7, <1>8, <1>9

LEMMA WorkPreserves ==
  ASSUME Inv, NEW t \in Tasks, Work(t)
  PROVE  Inv'
BY AcquirePreserves, LoadPreserves, MigratePreserves, SetupEntryPreserves,
   CleanupPreserves, UnloadEntryPreserves, UnloadCleanupPreserves,
   RemoveEntryPreserves DEF Work

LEMMA ShutdownPreserves ==
  ASSUME Inv, Shutdown
  PROVE  Inv'
<1>1. CancelRetry(entry) \in EntryType /\ CancelRetry(entry).state = entry.state
  BY CancelRetryType DEF Inv, TypeOK
<1>2. entry' \in EntryType /\ entry'.state = entry.state
  <2> DEFINE e == CancelRetry(entry)
  <2>1. entry' = [e EXCEPT !.orphans = 0] /\ 0 \in 0..MaxOrphans
    BY ConfigEntryAssumption DEF Shutdown
  <2> HIDE DEF e
  <2>2. e \in EntryType /\ e.state = entry.state
    BY <1>1 DEF e
  <2> QED
    BY <2>1, <2>2 DEF EntryType
<1> QED
  BY <1>2, EntryPreserves DEF Shutdown, Inv, TypeOK

LEMMA InitInv == Init => Inv
<1> SUFFICES ASSUME Init
             PROVE  Inv
  OBVIOUS
<1>1. TypeOK
  <2>1. "not_loaded" \in States /\ 0 \in 0..MaxOrphans /\ 0 \in 0..MaxTries
    BY ConfigEntryAssumption DEF States
  <2>2. entry \in EntryType
    BY <2>1 DEF Init, EntryType
  <2>3. waiters \in Seq(Tasks) /\ owner \in Tasks \cup {NoTask}
    BY DEF Init
  <2>4. op \in [Tasks -> Operations \cup {"none"}] /\ phase \in [Tasks -> Phases]
    BY DEF Init, Operations, Phases
  <2>5. \A t \in Tasks : Suits(op[t], phase[t])
    BY DEF Init, Suits, SetupPhases, UnloadPhases
  <2> QED
    BY <2>2, <2>3, <2>4, <2>5 DEF Init, TypeOK
<1>2. LockOK
  BY ConfigEntryAssumption DEF Init, LockOK
<1>3. InProgressOwned
  BY DEF Init, InProgressOwned, SetupPhases, UnloadPhases
<1> QED
  BY <1>1, <1>2, <1>3 DEF Inv

LEMMA StepInv == Inv /\ [Next]_vars => Inv'
<1> SUFFICES ASSUME Inv, [Next]_vars
             PROVE  Inv'
  OBVIOUS
<1>1. CASE UNCHANGED vars
  BY <1>1 DEF vars, Inv, TypeOK, LockOK, InProgressOwned
<1>2. CASE Shutdown
  BY <1>2, ShutdownPreserves
<1>3. ASSUME NEW t \in Tasks,
             \/ Setup(t) \/ Unload(t) \/ Reload(t) \/ SetDisabledBy(t)
             \/ RetryMigration(t) \/ Remove(t) \/ SetupComponent(t) \/ FireRetry(t)
      PROVE  Inv'
  BY <1>3, CallsPreserve
<1>4. ASSUME NEW t \in Tasks, Work(t) \/ Cancel(t)
      PROVE  Inv'
  BY <1>4, WorkPreserves, CancelPreserves
<1> QED
  BY <1>1, <1>2, <1>3, <1>4 DEF Next

-----------------------------------------------------------------------------
\* Whatever the calls, retries and cancellations of any number of tasks, every
\* variable keeps its type and every task is at work on what it was called for.
THEOREM TypeCorrect == Spec => []TypeOK
BY InitInv, StepInv, PTL DEF Spec, Inv

\* Set-up, unload and removal of one entry never overlap, because every one of
\* them runs between acquiring and releasing setup_lock.
THEOREM MutualExclusion == Spec => []LockOK
BY InitInv, StepInv, PTL DEF Spec, Inv

\* Unless a caller is cancelled at an await that has no handler, an entry is
\* never left in SETUP_IN_PROGRESS or UNLOAD_IN_PROGRESS with nobody at work.
THEOREM NeverAbandoned ==
  ASSUME SafeInterrupts
  PROVE  Spec => []InProgressOwned
<1>1. Inv => InProgressOwned
  BY DEF Inv
<1> QED
  BY <1>1, InitInv, StepInv, PTL DEF Spec
=============================================================================
