-------------------------------- MODULE Store --------------------------------
(***************************************************************************)
(* One file of JSON data: homeassistant/helpers/storage.py, class Store,   *)
(* with its part of _StoreManager's cache.                                 *)
(*                                                                         *)
(* Callers save at once or after a delay, remove and load.  Every write    *)
(* and removal runs in an executor thread under _write_lock, a FIFO        *)
(* asyncio.Lock; reads run in an executor thread without it.  A step is    *)
(* the code between two awaits, or the effect of a thread.                 *)
(*                                                                         *)
(* What is saved is represented by the number of the call that saved it: a *)
(* removal is numbered too, and the data of a later call is newer.         *)
(***************************************************************************)
EXTENDS Naturals, Sequences

Seqs == INSTANCE SequencesExt

CONSTANTS
  Tasks,      \* the asyncio tasks that may be busy with this store
  NoTask,     \* "nobody": the lock is free
  Ops,        \* which of Operations happen
  Delays,     \* the delays of delayed saves
  MaxDelay,   \* none is longer
  MaxCalls    \* bound: the number of calls

Operations == {"save", "delay_save", "remove", "load", "preload", "read_only",
               "stop", "fail", "cancel"}

ASSUME StoreAssumption ==
  /\ NoTask \notin Tasks
  /\ Ops \subseteq Operations
  /\ MaxDelay \in Nat
  /\ Delays \subseteq 0..MaxDelay
  /\ MaxCalls \in Nat

VARIABLES
  store,    \* the Store object, see StoreType
  cache,    \* this key in _StoreManager, see CacheType
  owner,    \* the task that holds _write_lock
  waiters,  \* the tasks queued for it, first come first served
  call,     \* what each task was started for
  job,      \* what each task has given to the executor
  threads,  \* executor jobs whose task was cancelled
  disk,     \* the file
  load,     \* the load in progress, and the result of the last one
  stage,    \* hass.state
  past      \* history: what was asked, lost and removed

lock == <<owner, waiters>>
vars == <<store, cache, lock, call, job, threads, disk, load, stage, past>>

Numbers == 0..MaxCalls

StoreType ==
  [data      : Numbers,                     \* _data, 0 for None
   handle    : {"none", "armed", "fired"},  \* _delay_handle
   left      : 0..MaxDelay,                 \* how long until it is due
   next      : 0..MaxDelay,                 \* how long until _next_write_time
   listening : BOOLEAN,                     \* _unsub_final_write_listener is set
   readOnly  : BOOLEAN]                     \* _read_only

CacheType ==
  [invalidated : BOOLEAN,                            \* the key is in _invalidated
   files       : {"unknown", "absent", "present"},   \* the key in _files
   preload     : {"none", "read", "stored", "gone"}, \* the key in _data_preload
   no          : Numbers]                            \* which data it holds

JobType == [kind : {"none", "write", "remove"}, no : Numbers]
NoJob == [kind |-> "none", no |-> 0]

CallType == [kind : {"none", "save", "delayed", "final", "remove"}, no : Numbers]
Idle == [kind |-> "none", no |-> 0]

DiskType == [no : Numbers, file : BOOLEAN]

LoadType ==
  [reading : BOOLEAN,    \* _load_future is set and a thread reads the file
   floor   : Numbers,    \* history: what was on disk or pending when it began,
                        \* or what a removal has left of it
   no      : Numbers]    \* which data the last load returned

PastType ==
  [asked   : Numbers,       \* the number of calls
   due     : 0..MaxDelay,   \* how long until the last delayed save should happen
   lost    : Numbers,       \* newest data dropped with an error or as read-only
   erase   : Numbers,       \* the last call of async_remove
   removed : Numbers,       \* the last removal that was done
   final   : Numbers]       \* what had been asked for at the final write

-----------------------------------------------------------------------------
Newest(m, n) == IF m > n THEN m ELSE n
Less(n) == IF n > 0 THEN n - 1 ELSE 0

\* _async_cleanup_delay_listener and _async_cleanup_final_write_listener.
CleanUp(s) == [s EXCEPT !.handle = "none", !.left = 0, !.listening = FALSE]

RescheduleLate(s, d) == [s EXCEPT !.handle = "armed", !.left = d + 1]

\* _async_reschedule_delayed_write
Reschedule(s, d) == [s EXCEPT !.handle = "armed", !.left = d]

\* _async_ensure_final_write_listener
EnsureFinalWrite(s) == [s EXCEPT !.listening = TRUE]

\* _StoreManager.async_invalidate
Invalidated(c) ==
  [c EXCEPT !.invalidated = TRUE, !.preload = IF @ = "stored" THEN "gone" ELSE @]

(***************************************************************************)
(* The lock and what its owner does                                        *)
(***************************************************************************)
Return(t) ==
  /\ owner' = NoTask
  /\ call' = [call EXCEPT ![t] = Idle]
  /\ job' = [job EXCEPT ![t] = NoJob]

\* The owner waits for an executor thread.
Await(t, c, j) ==
  /\ owner' = t
  /\ call' = [call EXCEPT ![t] = c]
  /\ job' = [job EXCEPT ![t] = j]

\* _async_handle_write_data, with the lock held, up to the write.
Write(t, c, s, p) ==
  /\ store' = [CleanUp(s) EXCEPT !.data = 0]
  /\ \/ /\ s.data = 0
        /\ Return(t)
        /\ past' = p
     \/ /\ s.data # 0 /\ s.readOnly
        /\ Return(t)
        /\ past' = [p EXCEPT !.lost = s.data]
     \/ /\ s.data # 0 /\ ~s.readOnly
        /\ Await(t, c, [kind |-> "write", no |-> s.data])
        /\ past' = p

\* The body of "async with self._write_lock" in _async_handle_write_data and
\* in async_remove.
Enter(t, c, s, p) ==
  /\ cache' = Invalidated(cache)
  /\ \/ /\ c.kind # "remove"
        /\ Write(t, c, s, p)
     \/ /\ c.kind = "remove"
        /\ Await(t, c, [kind |-> "remove", no |-> c.no])
        /\ store' = s
        /\ past' = p

RequestUnlocked(t, c, s, p) ==
  /\ call[t] = Idle
  /\ Enter(t, c, s, p)
  /\ UNCHANGED waiters

RequestUnlessBusy(t, c, s, p) ==
  /\ call[t] = Idle
  /\ UNCHANGED waiters
  /\ \/ owner = NoTask /\ waiters = <<>> /\ Enter(t, c, s, p)
     \/ /\ owner # NoTask \/ waiters # <<>>
        /\ store' = s
        /\ past' = p
        /\ UNCHANGED <<cache, owner, call, job>>

\* asyncio.Lock.acquire: at once if the lock is free and nobody is queued.
Request(t, c, s, p) ==
  /\ call[t] = Idle
  /\ \/ /\ owner = NoTask /\ waiters = <<>>
        /\ Enter(t, c, s, p)
        /\ UNCHANGED waiters
     \/ /\ owner # NoTask \/ waiters # <<>>
        /\ waiters' = Append(waiters, t)
        /\ call' = [call EXCEPT ![t] = c]
        /\ store' = s
        /\ past' = p
        /\ UNCHANGED <<cache, owner, job>>

\* The first waiter runs after the lock was released.
Acquire(t) ==
  /\ stage # "closed"
  /\ owner = NoTask
  /\ waiters # <<>> /\ Head(waiters) = t
  /\ waiters' = Tail(waiters)
  /\ Enter(t, call[t], store, past)
  /\ UNCHANGED <<threads, disk, load, stage>>

(***************************************************************************)
(* Calls                                                                   *)
(***************************************************************************)
Called(o) ==
  /\ o \in Ops
  /\ stage # "closed"
  /\ past.asked < MaxCalls
  /\ UNCHANGED <<threads, disk, load, stage>>

NewNo == past.asked + 1
Asked == [past EXCEPT !.asked = NewNo]

SaveIgnoresStop(t) ==
  /\ Called("save")
  /\ \/ /\ stage = "stopping"
        /\ store' = [store EXCEPT !.data = NewNo]
        /\ past' = Asked
        /\ UNCHANGED <<cache, lock, call, job>>
     \/ /\ stage # "stopping"
        /\ Request(t, [kind |-> "save", no |-> NewNo],
                   [store EXCEPT !.data = NewNo], Asked)

\* async_save
Save(t) ==
  LET s == [store EXCEPT !.data = NewNo] IN
  /\ Called("save")
  /\ \/ /\ stage = "stopping"
        /\ store' = EnsureFinalWrite(s)
        /\ past' = Asked
        /\ UNCHANGED <<cache, lock, call, job>>
     \/ /\ stage # "stopping"
        /\ Request(t, [kind |-> "save", no |-> NewNo], s, Asked)

\* Is _delay_handle set and due before the delay d has passed?  A handle that
\* has fired was due in the past.
DueBefore(d) ==
  \/ store.handle = "armed" /\ store.left < d
  \/ store.handle = "fired"

\* async_delay_save, once it has set _data.
Postpone(d, s, p) ==
  /\ past' = [p EXCEPT !.due = d]
  /\ \/ /\ DueBefore(d)
        /\ store' = [s EXCEPT !.next = d]
     \/ /\ ~DueBefore(d) /\ stage = "stopping"
        /\ store' = EnsureFinalWrite(CleanUp(s))
     \/ /\ ~DueBefore(d) /\ stage # "stopping"
        /\ store' = Reschedule(EnsureFinalWrite(CleanUp(s)), d)
  /\ UNCHANGED <<cache, lock, call, job>>

\* async_delay_save of new data.
DelaySave(d) ==
  /\ Called("delay_save")
  /\ Postpone(d, [store EXCEPT !.data = NewNo], Asked)

\* async_delay_save of what is pending already.  It has no number of its own, so
\* that nothing bounds how often a client may call it.
DelayAgain(d) ==
  /\ "delay_save" \in Ops /\ stage # "closed"
  /\ store.data # 0
  /\ Postpone(d, store, past)
  /\ UNCHANGED <<threads, disk, load, stage>>

RemoveKeepsData(t) ==
  LET n == NewNo IN
  /\ Called("remove")
  /\ Request(t, [kind |-> "remove", no |-> n], store, [Asked EXCEPT !.erase = n])

\* async_remove
Remove(t) ==
  LET n == NewNo IN
  /\ Called("remove")
  /\ Request(t, [kind |-> "remove", no |-> n],
             [CleanUp(store) EXCEPT !.data = 0], [Asked EXCEPT !.erase = n])

\* make_read_only
MakeReadOnly ==
  /\ "read_only" \in Ops /\ stage # "closed"
  /\ store' = [store EXCEPT !.readOnly = TRUE]
  /\ UNCHANGED <<cache, lock, call, job, threads, disk, load, stage, past>>

(***************************************************************************)
(* Timer and executor                                                      *)
(***************************************************************************)
FireRescheduleDrops(t) ==
  /\ store.handle = "armed" /\ store.left = 0 /\ stage # "closed"
  /\ UNCHANGED <<threads, disk, load, stage>>
  /\ \/ /\ store.next > 0
        /\ store' = [store EXCEPT !.handle = "fired"]
        /\ UNCHANGED <<cache, lock, call, job, past>>
     \/ /\ store.next = 0 /\ stage = "stopping"
        /\ store' = EnsureFinalWrite([store EXCEPT !.handle = "fired"])
        /\ UNCHANGED <<cache, lock, call, job, past>>
     \/ /\ store.next = 0 /\ stage # "stopping"
        /\ Request(t, [kind |-> "delayed", no |-> 0],
                   [store EXCEPT !.handle = "fired"], past)

FireTooEarly(t) ==
  /\ store.handle = "armed" /\ store.left = 0 /\ stage # "closed"
  /\ UNCHANGED <<threads, disk, load, stage>>
  /\ Request(t, [kind |-> "delayed", no |-> 0],
             [store EXCEPT !.handle = "fired"], past)

\* _async_schedule_callback_delayed_write, and the start of the task that it
\* creates: _async_callback_delayed_write.
Fire(t) ==
  LET fired == [store EXCEPT !.handle = "fired"] IN
  /\ store.handle = "armed" /\ store.left = 0 /\ stage # "closed"
  /\ UNCHANGED <<threads, disk, load, stage>>
  /\ \/ /\ store.next > 0
        /\ store' = Reschedule(store, store.next)
        /\ UNCHANGED <<cache, lock, call, job, past>>
     \/ /\ store.next = 0 /\ stage = "stopping"
        /\ store' = EnsureFinalWrite(fired)
        /\ UNCHANGED <<cache, lock, call, job, past>>
     \/ /\ store.next = 0 /\ stage # "stopping"
        /\ Request(t, [kind |-> "delayed", no |-> 0], fired, past)

\* A unit of time passes.  A timer that is due runs first.
Tick ==
  /\ stage # "closed"
  /\ store.handle = "armed" => store.left > 0
  /\ store' = [store EXCEPT !.left = Less(@), !.next = Less(@)]
  /\ past' = [past EXCEPT !.due = Less(@)]
  /\ UNCHANGED <<cache, lock, call, job, threads, disk, load, stage>>

\* What a thread leaves on disk: a whole new file, or none.
Effect(j) == [no |-> j.no, file |-> j.kind = "write"]

WriteDoneDropsNewer(t) ==
  /\ job[t].kind = "write" /\ stage # "closed"
  /\ disk' = Effect(job[t])
  /\ Return(t)
  /\ store' = [store EXCEPT !.data = 0]
  /\ UNCHANGED <<cache, waiters, threads, load, stage, past>>

\* The thread has replaced the file, and the task resumes.
WriteDone(t) ==
  /\ job[t].kind = "write" /\ stage # "closed"
  /\ disk' = Effect(job[t])
  /\ Return(t)
  /\ UNCHANGED <<store, cache, waiters, threads, load, stage, past>>

\* Serializing or writing failed; this is logged and the data is dropped.
WriteFails(t) ==
  /\ "fail" \in Ops
  /\ job[t].kind = "write" /\ stage # "closed"
  /\ Return(t)
  /\ past' = [past EXCEPT !.lost = Newest(@, job[t].no)]
  /\ UNCHANGED <<store, cache, waiters, threads, disk, load, stage>>

\* The thread has unlinked the file, and the task resumes.
RemoveDone(t) ==
  /\ job[t].kind = "remove" /\ stage # "closed"
  /\ disk' = Effect(job[t])
  /\ Return(t)
  /\ past' = [past EXCEPT !.removed = job[t].no]
  /\ load' = [load EXCEPT !.floor = IF @ > job[t].no THEN job[t].no ELSE @]
  /\ UNCHANGED <<store, cache, waiters, threads, stage>>

CancelKeepsLock(t) ==
  /\ "cancel" \in Ops /\ stage # "closed"
  /\ call[t].kind \in {"save", "remove"}
  /\ UNCHANGED <<owner, store, cache, disk, load, stage, past>>
  /\ call' = [call EXCEPT ![t] = Idle]
  /\ job' = [job EXCEPT ![t] = NoJob]
  /\ \/ owner = t /\ UNCHANGED <<waiters, threads>>
     \/ /\ owner # t
        /\ waiters' = SelectSeq(waiters, LAMBDA u : u # t)
        /\ UNCHANGED threads

\* os.unlink failed, and async_remove raises.
RemoveFails(t) ==
  /\ "fail" \in Ops
  /\ job[t].kind = "remove" /\ stage # "closed"
  /\ Return(t)
  /\ UNCHANGED <<store, cache, waiters, threads, disk, load, stage, past>>

\* task.cancel() on a caller.  A thread that has begun its job goes on with it;
\* a job that is still queued in the executor is dropped.
Cancel(t) ==
  /\ "cancel" \in Ops /\ stage # "closed"
  /\ call[t].kind \in {"save", "remove"}
  /\ UNCHANGED <<store, cache, disk, load, stage, past>>
  /\ \/ /\ owner = t
        /\ Return(t)
        /\ threads' \in {threads, threads \cup {job[t]}}
        /\ UNCHANGED waiters
     \/ /\ owner # t
        /\ \E i \in 1..Len(waiters) :
             waiters[i] = t /\ waiters' = Seqs!RemoveAt(waiters, i)
        /\ call' = [call EXCEPT ![t] = Idle]
        /\ UNCHANGED <<owner, job, threads>>

\* A thread whose task was cancelled ends.
ThreadDone(j) ==
  /\ j \in threads
  /\ threads' = threads \ {j}
  /\ disk' = Effect(j)
  /\ UNCHANGED <<store, cache, lock, call, job, load, stage, past>>

(***************************************************************************)
(* Load and preload                                                        *)
(***************************************************************************)
FetchIgnoresInvalidated == cache.files = "absent" \/ cache.preload = "stored"

\* _StoreManager.async_fetch: can the cache answer a load?
Fetch ==
  /\ ~cache.invalidated
  /\ \/ cache.files = "absent"
     \/ cache.files = "present" /\ cache.preload = "stored"

\* async_load, when no load is in progress, up to the read.
Load ==
  LET begun == [load EXCEPT !.floor = Newest(disk.no, store.data)] IN
  /\ "load" \in Ops /\ stage # "closed"
  /\ ~load.reading
  /\ UNCHANGED <<store, lock, call, job, threads, disk, stage, past>>
  /\ \/ /\ store.data # 0
        /\ load' = [begun EXCEPT !.no = store.data]
        /\ UNCHANGED cache
     \/ /\ store.data = 0 /\ Fetch
        /\ load' = [begun EXCEPT !.no = cache.no]
        /\ cache' = [cache EXCEPT !.preload = IF @ = "stored" THEN "gone" ELSE @]
     \/ /\ store.data = 0 /\ ~Fetch
        /\ load' = [begun EXCEPT !.reading = TRUE]
        /\ UNCHANGED cache

\* The thread has read the file, and the load returns.
LoadDone ==
  /\ load.reading /\ stage # "closed"
  /\ load' = [load EXCEPT !.reading = FALSE, !.no = disk.no]
  /\ UNCHANGED <<store, cache, lock, call, job, threads, disk, stage, past>>

\* _StoreManager.async_initialize
ListFiles ==
  /\ "preload" \in Ops /\ cache.files = "unknown"
  /\ cache' = [cache EXCEPT !.files = IF disk.file THEN "present" ELSE "absent",
                            !.no = disk.no]
  /\ UNCHANGED <<store, lock, call, job, threads, disk, load, stage, past>>

\* _StoreManager._preload in a thread: it reads the file, then it stores what
\* it has read.
PreloadRead ==
  /\ cache.files = "present" /\ cache.preload = "none" /\ disk.file
  /\ cache' = [cache EXCEPT !.preload = "read", !.no = disk.no]
  /\ UNCHANGED <<store, lock, call, job, threads, disk, load, stage, past>>

PreloadStore ==
  /\ cache.preload = "read"
  /\ cache' = [cache EXCEPT !.preload = "stored"]
  /\ UNCHANGED <<store, lock, call, job, threads, disk, load, stage, past>>

\* _StoreManager._async_cleanup
DropPreload ==
  /\ cache.preload = "stored"
  /\ cache' = [cache EXCEPT !.preload = "gone"]
  /\ UNCHANGED <<store, lock, call, job, threads, disk, load, stage, past>>

(***************************************************************************)
(* Stop                                                                    *)
(***************************************************************************)
Stop ==
  /\ "stop" \in Ops /\ stage = "running"
  /\ stage' = "stopping"
  /\ UNCHANGED <<store, cache, lock, call, job, threads, disk, load, past>>

\* EVENT_HOMEASSISTANT_FINAL_WRITE reaches _async_callback_final_write.
FinalWrite(t) ==
  LET p == [past EXCEPT !.final = past.asked] IN
  /\ stage = "stopping"
  /\ stage' = "final_write"
  /\ UNCHANGED <<threads, disk, load>>
  /\ \/ /\ store.listening
        /\ Request(t, [kind |-> "final", no |-> 0],
                   [store EXCEPT !.listening = FALSE], p)
     \/ /\ ~store.listening
        /\ past' = p
        /\ UNCHANGED <<store, cache, lock, call, job>>

\* async_block_till_done has seen all writers end; the process may exit.
Close ==
  /\ stage = "final_write"
  /\ owner = NoTask /\ waiters = <<>> /\ threads = {}
  /\ stage' = "closed"
  /\ UNCHANGED <<store, cache, lock, call, job, threads, disk, load, past>>

-----------------------------------------------------------------------------
Init ==
  /\ store = [data |-> 0, handle |-> "none", left |-> 0, next |-> 0,
              listening |-> FALSE, readOnly |-> FALSE]
  /\ cache = [invalidated |-> FALSE, files |-> "unknown", preload |-> "none",
              no |-> 0]
  /\ owner = NoTask /\ waiters = <<>>
  /\ call = [t \in Tasks |-> Idle]
  /\ job = [t \in Tasks |-> NoJob]
  /\ threads = {}
  /\ disk \in [no : {0}, file : BOOLEAN]
  /\ load = [reading |-> FALSE, floor |-> 0, no |-> 0]
  /\ stage = "running"
  /\ past = [asked |-> 0, due |-> 0, lost |-> 0, erase |-> 0,
             removed |-> 0, final |-> 0]

Work(t) ==
  \/ Acquire(t)
  \/ WriteDone(t) \/ WriteFails(t) \/ RemoveDone(t) \/ RemoveFails(t)

Next ==
  \/ \E t \in Tasks :
       \/ Save(t) \/ Remove(t) \/ Fire(t) \/ Work(t) \/ Cancel(t) \/ FinalWrite(t)
  \/ \E d \in Delays : DelaySave(d) \/ DelayAgain(d)
  \/ \E j \in threads : ThreadDone(j)
  \/ Tick \/ MakeReadOnly
  \/ Load \/ LoadDone \/ ListFiles \/ PreloadRead \/ PreloadStore \/ DropPreload
  \/ Stop \/ Close

Spec == Init /\ [][Next]_vars

\* The loop runs waiters it has woken and timers that are due, executor threads
\* end, time passes, and a stop that has begun goes on to the final write.
Fairness ==
  /\ \A t \in Tasks : WF_vars(Work(t))
  /\ WF_vars(\E t \in Tasks : Fire(t))
  /\ WF_vars(\E t \in Tasks : FinalWrite(t))
  /\ WF_vars(Tick)

FairSpec == Spec /\ Fairness

(***************************************************************************)
(* Invariants                                                              *)
(***************************************************************************)
\* Every variable has its type.
TypeOK ==
  /\ store \in StoreType /\ cache \in CacheType
  /\ owner \in Tasks \cup {NoTask}
  /\ waiters \in Seq(Tasks)
  /\ call \in [Tasks -> CallType]
  /\ job \in [Tasks -> JobType]
  /\ threads \subseteq JobType
  /\ disk \in DiskType /\ load \in LoadType
  /\ stage \in {"running", "stopping", "final_write", "closed"}
  /\ past \in PastType

\* _write_lock: a task is busy with the store exactly if it owns the lock or is
\* queued for it, once, and only the owner has a job in the executor.
LockOK ==
  /\ \A t \in Tasks :
       call[t].kind # "none" <=>
         owner = t \/ \E i \in 1..Len(waiters) : waiters[i] = t
  /\ \A i \in 1..Len(waiters) : waiters[i] # owner
  /\ \A i, j \in 1..Len(waiters) : waiters[i] = waiters[j] => i = j
  /\ \A t \in Tasks : job[t].kind # "none" <=> owner = t

\* Will the pending data be written?
HasWriter ==
  \/ store.handle = "armed"
  \/ store.listening /\ stage \in {"running", "stopping"}
  \/ \E i \in 1..Len(waiters) : call[waiters[i]].kind # "remove"

\* Where nothing is removed and nobody cancelled, what was saved last is on disk,
\* or on its way there with somebody to write it, or was dropped with an error.
NothingForgotten ==
  \/ disk.no >= past.asked
  \/ past.lost >= past.asked
  \/ \E t \in Tasks : job[t].no = past.asked
  \/ store.data = past.asked /\ (HasWriter \/ stage = "closed")

\* Once async_remove is done, only data saved after the removal was called
\* can bring the file back.
RemovedStaysRemoved == past.removed > 0 /\ disk.file => disk.no > past.removed

\* A load never returns less than what was on disk or pending when it began,
\* unless that was removed, however reads, writes and the preload overlap.
LoadNotOlder == ~load.reading => load.no >= load.floor

\* When the process exits, all that was asked for before the final write is on
\* disk, or was dropped with an error.
CleanStop ==
  stage = "closed" => disk.no >= past.final \/ past.lost >= past.final

\* A later delayed save with a shorter delay brings the write forward.
ShorterDelayWins ==
  store.data # 0 /\ past.due = 0 /\ stage = "running" /\ store.handle = "armed" =>
    store.left = 0

(***************************************************************************)
(* Action and liveness properties                                          *)
(***************************************************************************)
\* The file only ever moves on to newer data.
NoOldWrite == [][disk' # disk /\ disk'.file => disk'.no > disk.no]_vars

\* When async_save returns, its data or newer data is on disk, unless the write
\* failed or a removal was asked for in the meantime.
SaveIsDurable ==
  [][\A t \in Tasks :
       call[t].kind = "save" /\ call'[t] = Idle =>
         \/ disk'.no >= call[t].no
         \/ past'.lost >= call[t].no
         \/ past'.erase > call[t].no]_vars

\* The timer starts a write only when the last delayed save is due, however
\* often the delay was extended.
NotBeforeDue ==
  [][store.handle = "armed" /\ store'.handle = "fired" => past.due = 0]_vars

\* Every caller that waits for the store returns in the end, also when others
\* are cancelled.
CallsReturn ==
  \A t \in Tasks : call[t].kind \in {"save", "remove"} ~> call[t] = Idle

\* Pending data is taken to be written in the end, if Home Assistant does not
\* get past the final write first, provided that delayed saves stop coming: every
\* call of async_delay_save moves _next_write_time on, and a client that never
\* stops calling it puts the write off until Home Assistant stops.
PendingIsWritten ==
  <>[][\A d \in Delays : ~DelaySave(d) /\ ~DelayAgain(d)]_vars =>
    (store.data # 0 ~> store.data = 0 \/ stage \in {"final_write", "closed"})
=============================================================================
