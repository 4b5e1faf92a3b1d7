----------------------------- MODULE StoreProofs -----------------------------
(***************************************************************************)
(* Proofs about Store, for any set of tasks and any of its constants.      *)
(*                                                                         *)
(* The lock part of the invariant holds whatever happens.  The data part   *)
(* is about the numbers of the saved data and needs that no caller is      *)
(* cancelled, because a cancelled caller's thread writes without the lock. *)
(* Two smaller invariants rest on it: what the timer of delayed saves      *)
(* knows (TimerOK), and what a load in progress may return (LoadOK).       *)
(***************************************************************************)
EXTENDS Store, QueueLemmas

\* No newer than the newest call, and older than pending data.
Older(n, s, p) == n <= p.asked /\ (s.data # 0 => n < s.data)

\* Pending data s.data is the newest, all that a thread or a queued removal
\* will leave on disk is older, what is being written is newer than the file,
\* and the file is newer than the last removal.
DataOK(s, p) ==
  /\ s.data \in {0, p.asked}
  /\ Older(disk.no, s, p) /\ Older(p.removed, s, p)
  /\ \A t \in Tasks : Older(job[t].no, s, p)
  /\ \A t \in Tasks : call[t].kind = "remove" => Older(call[t].no, s, p)
  /\ \A t \in Tasks :
       job[t].kind = "write" => disk.no < job[t].no /\ p.removed < job[t].no
  /\ p.removed > 0 /\ disk.file => p.removed < disk.no

NobodyCancelled == "cancel" \notin Ops

Inv ==
  /\ TypeOK /\ LockOK
  /\ NobodyCancelled => threads = {} /\ DataOK(store, past)

\* A new value of the store and of the history that keeps the data part.
Fits(s, p) == NobodyCancelled => DataOK(s, p)

-----------------------------------------------------------------------------
(***************************************************************************)
(* The operators on the store and on the cache                             *)
(***************************************************************************)
LEMMA CleanUpType ==
  ASSUME NEW s \in StoreType
  PROVE  CleanUp(s) \in StoreType /\ CleanUp(s).data = s.data
<1>1. 0 \in 0..MaxDelay
  BY StoreAssumption
<1> QED
  BY <1>1 DEF CleanUp, StoreType

LEMMA RescheduleType ==
  ASSUME NEW s \in StoreType, NEW d \in 0..MaxDelay
  PROVE  Reschedule(s, d) \in StoreType /\ Reschedule(s, d).data = s.data
BY StoreAssumption DEF Reschedule, StoreType

LEMMA EnsureFinalWriteType ==
  ASSUME NEW s \in StoreType
  PROVE  EnsureFinalWrite(s) \in StoreType /\ EnsureFinalWrite(s).data = s.data
BY DEF EnsureFinalWrite, StoreType

LEMMA InvalidatedType ==
  ASSUME NEW c \in CacheType
  PROVE  Invalidated(c) \in CacheType
BY DEF Invalidated, CacheType

LEMMA WithDataType ==
  ASSUME NEW s \in StoreType, NEW n \in Numbers
  PROVE  [s EXCEPT !.data = n] \in StoreType /\ [s EXCEPT !.data = n].data = n
BY DEF StoreType

LEMMA LessType ==
  ASSUME NEW n \in 0..MaxDelay
  PROVE  Less(n) \in 0..MaxDelay
BY StoreAssumption DEF Less

LEMMA IdleTypes == Idle \in CallType /\ Idle.kind = "none" /\ NoJob \in JobType
                   /\ NoJob.kind = "none" /\ NoJob.no = 0 /\ 0 \in Numbers
BY StoreAssumption DEF Idle, NoJob, CallType, JobType, Numbers

-----------------------------------------------------------------------------
(***************************************************************************)
(* The data                                                                *)
(***************************************************************************)
\* A call has got the next number; it may have saved data.
LEMMA NewData ==
  ASSUME TypeOK, DataOK(store, past), NEW s, NEW p,
         p.asked = past.asked + 1, p.removed = past.removed,
         s.data \in {0, past.asked + 1}
  PROVE  DataOK(s, p) /\ Older(past.asked, s, p)
<1>1. /\ disk.no \in Nat /\ past.asked \in Nat /\ past.removed \in Nat
      /\ \A t \in Tasks : job[t].no \in Nat /\ call[t].no \in Nat
  BY DEF TypeOK, DiskType, PastType, JobType, CallType, Numbers
<1>2. ASSUME NEW n \in Nat, Older(n, store, past)
      PROVE  Older(n, s, p)
  BY <1>1, <1>2 DEF Older
<1>3. /\ Older(disk.no, s, p) /\ Older(p.removed, s, p)
      /\ \A t \in Tasks : Older(job[t].no, s, p)
      /\ \A t \in Tasks : call[t].kind = "remove" => Older(call[t].no, s, p)
  BY <1>1, <1>2 DEF DataOK
<1>4. Older(past.asked, s, p)
  BY <1>1 DEF Older
<1> QED
  BY <1>3, <1>4 DEF DataOK

\* Pending data is still there, or was taken.
LEMMA SameData ==
  ASSUME DataOK(store, past), NEW s, NEW p,
         p.asked = past.asked, p.removed = past.removed,
         s.data \in {0, store.data}
  PROVE  DataOK(s, p)
<1>1. ASSUME NEW n, Older(n, store, past)
      PROVE  Older(n, s, p)
  BY <1>1 DEF Older
<1>2. /\ Older(disk.no, s, p) /\ Older(p.removed, s, p)
      /\ \A t \in Tasks : Older(job[t].no, s, p)
      /\ \A t \in Tasks : call[t].kind = "remove" => Older(call[t].no, s, p)
  BY <1>1 DEF DataOK
<1> QED
  BY <1>2 DEF DataOK

\* A step that leaves the lock, the calls and the file alone.
LEMMA QuietPreserves ==
  ASSUME Inv, UNCHANGED <<lock, call, job, threads, disk>>,
         store' \in StoreType, cache' \in CacheType, load' \in LoadType,
         stage' \in {"running", "stopping", "final_write", "closed"},
         past' \in PastType, Fits(store', past')
  PROVE  Inv'
<1>1. TypeOK'
  BY DEF Inv, TypeOK, lock
<1>2. LockOK'
  BY DEF Inv, LockOK, lock
<1>3. NobodyCancelled => (threads = {} /\ DataOK(store, past))'
  BY DEF Inv, Fits, DataOK, Older
<1> QED
  BY <1>1, <1>2, <1>3 DEF Inv

-----------------------------------------------------------------------------
(***************************************************************************)
(* The lock                                                                *)
(***************************************************************************)
\* Task t has run with the lock up to an await of the executor, or to its end.
Ran(t) ==
  \/ /\ owner' = t
     /\ \E c \in CallType : c.kind # "none" /\ call' = [call EXCEPT ![t] = c]
     /\ \E j \in JobType : j.kind # "none" /\ job' = [job EXCEPT ![t] = j]
  \/ /\ owner' = NoTask
     /\ call' = [call EXCEPT ![t] = Idle]
     /\ job' = [job EXCEPT ![t] = NoJob]

\* The queue without t.
Unqueued(t) ==
  /\ waiters' \in Seq(Tasks)
  /\ Distinct(waiters')
  /\ \A u : Queued(waiters', u) <=> Queued(waiters, u) /\ u # t

LEMMA ReturnRan ==
  ASSUME NEW t, Return(t)
  PROVE  Ran(t)
BY DEF Return, Ran

LEMMA WriteRan ==
  ASSUME NEW t \in Tasks, NEW c \in CallType, NEW s \in StoreType,
         NEW p \in PastType, c.kind # "none", Write(t, c, s, p)
  PROVE  Ran(t) /\ store' \in StoreType /\ past' \in PastType
<1>1. store' \in StoreType
  <2>1. 0 \in Numbers /\ CleanUp(s) \in StoreType
    BY CleanUpType, IdleTypes
  <2> QED
    BY <2>1, WithDataType DEF Write
<1>2. past' \in PastType
  <2>1. s.data \in Numbers
    BY DEF StoreType
  <2>2. [p EXCEPT !.lost = s.data] \in PastType
    BY <2>1 DEF PastType
  <2> QED
    BY <2>2 DEF Write
<1>3. CASE Return(t)
  BY <1>1, <1>2, <1>3, ReturnRan
<1>4. CASE Await(t, c, [kind |-> "write", no |-> s.data])
  <2>1. [kind |-> "write", no |-> s.data] \in JobType
    BY DEF StoreType, JobType
  <2>2. Ran(t)
    BY <1>4, <2>1 DEF Await, Ran
  <2> QED
    BY <1>1, <1>2, <2>2
<1> QED
  BY <1>3, <1>4 DEF Write

LEMMA EnterRan ==
  ASSUME NEW t \in Tasks, NEW c \in CallType, NEW s \in StoreType,
         NEW p \in PastType, cache \in CacheType, c.kind # "none", Enter(t, c, s, p)
  PROVE  Ran(t) /\ store' \in StoreType /\ cache' \in CacheType /\ past' \in PastType
<1>1. cache' \in CacheType
  BY InvalidatedType DEF Enter
<1>2. CASE Write(t, c, s, p)
  BY <1>1, <1>2, WriteRan
<1>3. CASE Await(t, c, [kind |-> "remove", no |-> c.no]) /\ store' = s /\ past' = p
  <2>1. [kind |-> "remove", no |-> c.no] \in JobType
    BY DEF CallType, JobType
  <2>2. Ran(t)
    BY <1>3, <2>1 DEF Await, Ran
  <2> QED
    BY <1>1, <1>3, <2>2
<1> QED
  BY <1>2, <1>3 DEF Enter

\* The types of what a task that ran with the lock changes.
LockTyped ==
  /\ owner \in Tasks \cup {NoTask}
  /\ waiters \in Seq(Tasks)
  /\ call \in [Tasks -> CallType]
  /\ job \in [Tasks -> JobType]

LEMMA RanTyped ==
  ASSUME TypeOK, NEW t \in Tasks, Ran(t), waiters' \in Seq(Tasks)
  PROVE  LockTyped'
<1>1. call \in [Tasks -> CallType] /\ job \in [Tasks -> JobType]
  BY DEF TypeOK
<1> QED
  BY <1>1, IdleTypes DEF Ran, LockTyped

LEMMA RanLocked ==
  ASSUME TypeOK, LockOK, NEW t \in Tasks, owner \in {t, NoTask}, Ran(t), Unqueued(t)
  PROVE  LockOK'
<1>1. /\ call \in [Tasks -> CallType] /\ job \in [Tasks -> JobType]
      /\ NoTask \notin Tasks
      /\ waiters' \in Seq(Tasks)
  BY StoreAssumption DEF TypeOK, Unqueued
<1>2. /\ \A u \in Tasks \ {t} : call'[u] = call[u] /\ job'[u] = job[u]
      /\ call'[t].kind # "none" <=> owner' = t
      /\ job'[t].kind # "none" <=> owner' = t
      /\ owner' \in {t, NoTask}
  BY <1>1, IdleTypes DEF Ran
<1>3. ~Queued(waiters', t)
  BY DEF Unqueued
<1>4. \A u \in Tasks : call'[u].kind # "none" <=> owner' = u \/ Queued(waiters', u)
  <2>1. ASSUME NEW u \in Tasks \ {t}
        PROVE  call'[u].kind # "none" <=> owner' = u \/ Queued(waiters', u)
    <3>1. call[u].kind # "none" <=> owner = u \/ Queued(waiters, u)
      BY DEF LockOK, Queued
    <3>2. Queued(waiters', u) <=> Queued(waiters, u)
      BY DEF Unqueued
    <3> QED
      BY <1>1, <1>2, <3>1, <3>2
  <2> QED
    BY <1>2, <1>3, <2>1
<1>5. \A i \in 1..Len(waiters') : waiters'[i] # owner'
  <2> SUFFICES ASSUME NEW i \in 1..Len(waiters')
               PROVE  waiters'[i] # owner'
    OBVIOUS
  <2>1. waiters'[i] \in Tasks
    BY <1>1
  <2>2. waiters'[i] # t
    BY <1>3 DEF Queued
  <2> QED
    BY <1>1, <1>2, <2>1, <2>2
<1>6. \A u \in Tasks : job'[u].kind # "none" <=> owner' = u
  BY <1>1, <1>2 DEF LockOK
<1> QED
  BY <1>4, <1>5, <1>6 DEF LockOK, Queued, Unqueued, Distinct

\* The data part when a task runs with the lock, which was free.
LEMMA EnterData ==
  ASSUME TypeOK, NEW t \in Tasks, NEW c \in CallType, NEW s \in StoreType,
         NEW p \in PastType, DataOK(s, p), disk' = disk,
         c.kind = "remove" => Older(c.no, s, p),
         Enter(t, c, s, p)
  PROVE  DataOK(store, past)'
<1>1. /\ call \in [Tasks -> CallType] /\ job \in [Tasks -> JobType]
      /\ p.asked \in Nat /\ s.data \in Nat /\ p.removed \in Nat /\ disk.no \in Nat
  <2>1. Numbers \subseteq Nat
    BY DEF Numbers
  <2>2. /\ call \in [Tasks -> CallType] /\ job \in [Tasks -> JobType]
        /\ disk.no \in Numbers
    BY DEF TypeOK, DiskType
  <2>3. p.asked \in Numbers /\ p.removed \in Numbers
    BY DEF PastType
  <2>4. s.data \in Numbers
    BY DEF StoreType
  <2> QED
    BY <2>1, <2>2, <2>3, <2>4
<1>2. CASE /\ Return(t) /\ store'.data = 0
           /\ past'.asked = p.asked /\ past'.removed = p.removed
  <2>1. /\ \A u \in Tasks \ {t} : call'[u] = call[u] /\ job'[u] = job[u]
        /\ call'[t].kind = "none" /\ job'[t].kind = "none" /\ job'[t].no = 0
    BY <1>1, <1>2, IdleTypes DEF Return
  <2> QED
    BY <1>1, <1>2, <2>1 DEF DataOK, Older
<1>3. CASE /\ Await(t, c, [kind |-> "write", no |-> s.data])
           /\ s.data # 0 /\ c.kind # "remove" /\ store'.data = 0 /\ past' = p
  <2>1. /\ \A u \in Tasks \ {t} : call'[u] = call[u] /\ job'[u] = job[u]
        /\ call'[t] = c /\ job'[t].no = s.data
    BY <1>1, <1>3 DEF Await
  <2>2. /\ s.data <= p.asked /\ disk.no < s.data /\ p.removed < s.data
        /\ \A u \in Tasks : job[u].no <= p.asked
        /\ \A u \in Tasks : call[u].kind = "remove" => call[u].no <= p.asked
    BY <1>1, <1>3 DEF DataOK, Older
  <2>3. /\ Older(disk.no, store', p) /\ Older(p.removed, store', p)
        /\ \A u \in Tasks : Older(job'[u].no, store', p)
        /\ \A u \in Tasks : call'[u].kind = "remove" => Older(call'[u].no, store', p)
    BY <1>1, <1>3, <2>1, <2>2 DEF Older
  <2>4. \A u \in Tasks :
          job'[u].kind = "write" => disk.no < job'[u].no /\ p.removed < job'[u].no
    BY <1>1, <2>1, <2>2 DEF DataOK
  <2> QED
    BY <1>3, <2>3, <2>4 DEF DataOK, Older
<1>4. CASE /\ Await(t, c, [kind |-> "remove", no |-> c.no])
           /\ c.kind = "remove" /\ store' = s /\ past' = p
  <2>1. /\ \A u \in Tasks \ {t} : call'[u] = call[u] /\ job'[u] = job[u]
        /\ call'[t] = c /\ job'[t].no = c.no /\ job'[t].kind = "remove"
    BY <1>1, <1>4 DEF Await
  <2> QED
    BY <1>1, <1>4, <2>1 DEF DataOK, Older
<1>5. CASE c.kind # "remove" /\ Write(t, c, s, p)
  <2>1. store'.data = 0
    BY <1>5, CleanUpType, WithDataType, IdleTypes DEF Write
  <2>2. CASE Return(t) /\ past' = p
    BY <1>2, <2>1, <2>2
  <2>3. CASE Return(t) /\ past' = [p EXCEPT !.lost = s.data]
    <3>1. past'.asked = p.asked /\ past'.removed = p.removed
      BY <2>3 DEF PastType
    <3> QED
      BY <1>2, <2>1, <2>3, <3>1
  <2>4. CASE /\ s.data # 0 /\ past' = p
             /\ Await(t, c, [kind |-> "write", no |-> s.data])
    BY <1>3, <1>5, <2>1, <2>4
  <2> QED
    BY <1>5, <2>2, <2>3, <2>4 DEF Write
<1> QED
  BY <1>4, <1>5 DEF Enter

-----------------------------------------------------------------------------
(***************************************************************************)
(* The actions                                                             *)
(***************************************************************************)
\* What Inv' needs besides the lock and the data.
RestTyped ==
  /\ store \in StoreType /\ cache \in CacheType
  /\ threads \subseteq JobType
  /\ disk \in DiskType /\ load \in LoadType
  /\ stage \in {"running", "stopping", "final_write", "closed"}
  /\ past \in PastType

LEMMA TypedParts == TypeOK <=> LockTyped /\ RestTyped
BY DEF TypeOK, LockTyped, RestTyped

LEMMA RequestPreserves ==
  ASSUME Inv, NEW t \in Tasks, NEW c \in CallType, NEW s \in StoreType,
         NEW p \in PastType, c.kind # "none", Fits(s, p),
         NobodyCancelled /\ c.kind = "remove" => Older(c.no, s, p),
         UNCHANGED <<threads, disk, load>>,
         stage' \in {"running", "stopping", "final_write", "closed"},
         Request(t, c, s, p)
  PROVE  Inv'
<1>1. /\ TypeOK /\ LockOK /\ RestTyped /\ LockTyped
      /\ owner # t /\ ~Queued(waiters, t) /\ Distinct(waiters)
  <2>1. TypeOK /\ LockOK /\ call[t].kind = "none"
    BY IdleTypes DEF Inv, Request
  <2> QED
    BY <2>1, TypedParts DEF LockOK, Queued, Distinct
<1>2. CASE /\ owner = NoTask /\ waiters = <<>> /\ UNCHANGED waiters
           /\ Enter(t, c, s, p)
  <2>1. cache \in CacheType
    BY <1>1 DEF RestTyped
  <2>2. Ran(t) /\ store' \in StoreType /\ cache' \in CacheType /\ past' \in PastType
    BY <1>2, <2>1, EnterRan
  <2>3. Unqueued(t)
    BY <1>1, <1>2 DEF Unqueued, LockTyped
  <2>4. LockTyped' /\ LockOK'
    BY <1>1, <1>2, <2>2, <2>3, RanTyped, RanLocked DEF Unqueued
  <2>5. RestTyped'
    BY <1>1, <2>2 DEF RestTyped
  <2>6. ASSUME NobodyCancelled
        PROVE  (threads = {} /\ DataOK(store, past))'
    BY <1>1, <1>2, <2>6, EnterData DEF Inv, Fits
  <2>7. TypeOK'
    BY <2>4, <2>5 DEF TypeOK, LockTyped, RestTyped
  <2> QED
    BY <2>4, <2>6, <2>7 DEF Inv, NobodyCancelled
<1>3. CASE /\ waiters' = Append(waiters, t)
           /\ call' = [call EXCEPT ![t] = c]
           /\ store' = s /\ past' = p
           /\ UNCHANGED <<cache, owner, job>>
  <2>1. /\ waiters' \in Seq(Tasks) /\ Distinct(waiters')
        /\ \A u : Queued(waiters', u) <=> Queued(waiters, u) \/ u = t
    BY <1>1, <1>3, QueueAppended DEF LockTyped
  <2>2. /\ call' \in [Tasks -> CallType] /\ call'[t] = c
        /\ \A u \in Tasks \ {t} : call'[u] = call[u]
    BY <1>1, <1>3 DEF LockTyped
  <2>3. TypeOK'
    BY <1>1, <1>3, <2>1, <2>2 DEF TypeOK, LockTyped, RestTyped
  <2>4. \A u \in Tasks : call'[u].kind # "none" <=> owner' = u \/ Queued(waiters', u)
    <3>1. ASSUME NEW u \in Tasks \ {t}
          PROVE  call'[u].kind # "none" <=> owner' = u \/ Queued(waiters', u)
      BY <1>1, <1>3, <2>1, <2>2 DEF LockOK, Queued
    <3> QED
      BY <2>1, <2>2, <3>1
  <2>5. \A i \in 1..Len(waiters') : waiters'[i] # owner'
    <3>1. ~Queued(waiters, owner)
      BY <1>1 DEF LockOK, Queued
    <3>2. ~Queued(waiters', owner')
      BY <1>1, <1>3, <2>1, <3>1
    <3> QED
      BY <3>2 DEF Queued
  <2>6. LockOK'
    <3>1. \A u \in Tasks : job'[u].kind # "none" <=> owner' = u
      BY <1>1, <1>3 DEF LockOK
    <3> QED
      BY <2>1, <2>4, <2>5, <3>1 DEF LockOK, Queued, Distinct
  <2>7. ASSUME NobodyCancelled
        PROVE  (threads = {} /\ DataOK(store, past))'
    <3>1. DataOK(s, p) /\ threads = {} /\ (c.kind = "remove" => Older(c.no, s, p))
      BY <2>7 DEF Inv, Fits
    <3> QED
      BY <1>3, <2>2, <3>1 DEF DataOK, Older
  <2> QED
    BY <2>3, <2>6, <2>7 DEF Inv, NobodyCancelled
<1> QED
  BY <1>2, <1>3 DEF Request

\* The lock's owner is done, and the history may have been written on.
LEMMA ReturnPreserves ==
  ASSUME Inv, NEW t \in Tasks, owner = t, Return(t),
         RestTyped', UNCHANGED waiters,
         NobodyCancelled =>
           /\ threads' = {}
           /\ past'.asked = past.asked /\ store'.data = store.data
           /\ Older(disk'.no, store, past) /\ Older(past'.removed, store, past)
           /\ past'.removed > 0 /\ disk'.file => past'.removed < disk'.no
  PROVE  Inv'
<1>1. /\ TypeOK /\ LockOK /\ LockTyped
      /\ ~Queued(waiters, t) /\ Distinct(waiters)
  BY TypedParts DEF Inv, LockOK, Queued, Distinct
<1>2. Ran(t) /\ Unqueued(t)
  BY <1>1, ReturnRan DEF Unqueued, LockTyped
<1>3. LockTyped' /\ LockOK'
  BY <1>1, <1>2, RanTyped, RanLocked DEF Unqueued
<1>4. TypeOK'
  BY <1>3 DEF TypeOK, LockTyped, RestTyped
<1>5. ASSUME NobodyCancelled
      PROVE  (threads = {} /\ DataOK(store, past))'
  <2>1. /\ \A u \in Tasks \ {t} : call'[u] = call[u] /\ job'[u] = job[u]
        /\ call'[t] = Idle /\ job'[t] = NoJob
    BY <1>1 DEF Return, LockTyped
  <2>2. \A u \in Tasks : job'[u].kind # "write"
    BY <1>1, <2>1, IdleTypes DEF LockOK, Return, JobType
  <2>3. \A u \in Tasks : call'[u].kind = "remove" => Older(call'[u].no, store', past')
    BY <1>5, <2>1, IdleTypes DEF Inv, DataOK, Older
  <2>4. \A u \in Tasks : Older(job'[u].no, store', past')
    <3>1. past.asked \in Nat /\ store.data \in Nat
      BY <1>1 DEF TypeOK, StoreType, PastType, Numbers
    <3>2. Older(0, store', past')
      BY <1>5, <3>1 DEF Older
    <3> QED
      BY <1>5, <2>1, <3>2, IdleTypes DEF Inv, DataOK, Older
  <2>5. store'.data \in {0, past'.asked}
    BY <1>5 DEF Inv, DataOK
  <2> QED
    BY <1>5, <2>2, <2>3, <2>4, <2>5 DEF DataOK, Older
<1> QED
  BY <1>3, <1>4, <1>5 DEF Inv, NobodyCancelled

LEMMA AskedType ==
  ASSUME TypeOK, past.asked < MaxCalls
  PROVE  /\ NewNo \in Numbers /\ NewNo = past.asked + 1
         /\ Asked \in PastType
         /\ Asked.asked = NewNo /\ Asked.removed = past.removed
<1>1. NewNo \in Numbers /\ NewNo = past.asked + 1
  BY StoreAssumption DEF NewNo, TypeOK, PastType, Numbers
<1> QED
  BY <1>1 DEF Asked, TypeOK, PastType

LEMMA AcquirePreserves ==
  ASSUME Inv, NEW t \in Tasks, Acquire(t)
  PROVE  Inv'
<1>1. /\ TypeOK /\ LockOK /\ owner = NoTask
      /\ waiters # <<>> /\ t = Head(waiters) /\ waiters' = Tail(waiters)
      /\ Enter(t, call[t], store, past)
      /\ UNCHANGED <<threads, disk, load, stage>>
  BY DEF Inv, Acquire
<1>2. /\ store \in StoreType /\ past \in PastType /\ cache \in CacheType
      /\ call[t] \in CallType /\ waiters \in Seq(Tasks)
  BY <1>1 DEF TypeOK
<1>3. 1 \in 1..Len(waiters) /\ waiters[1] = t /\ Dropped(waiters, 1, waiters')
      /\ waiters' \in Seq(Tasks)
  BY <1>1, <1>2, TailDrops
<1>4. Unqueued(t)
  <2>1. Distinct(waiters)
    BY <1>1 DEF LockOK, Distinct
  <2> QED
    BY <1>2, <1>3, <2>1, QueueDropped DEF Unqueued
<1>5. call[t].kind # "none"
  BY <1>1, <1>3 DEF LockOK
<1>6. Ran(t) /\ store' \in StoreType /\ cache' \in CacheType /\ past' \in PastType
  BY <1>1, <1>2, <1>5, EnterRan
<1>7. LockTyped' /\ LockOK'
  BY <1>1, <1>4, <1>6, RanTyped, RanLocked DEF Unqueued
<1>8. TypeOK'
  BY <1>1, <1>6, <1>7 DEF TypeOK, LockTyped
<1>9. ASSUME NobodyCancelled
      PROVE  (threads = {} /\ DataOK(store, past))'
  <2>1. DataOK(store, past) /\ threads = {}
    BY <1>9 DEF Inv
  <2>2. call[t].kind = "remove" => Older(call[t].no, store, past)
    BY <2>1 DEF DataOK
  <2> QED
    BY <1>1, <1>2, <2>1, <2>2, EnterData
<1> QED
  BY <1>7, <1>8, <1>9 DEF Inv, NobodyCancelled

LEMMA SavePreserves ==
  ASSUME Inv, NEW t \in Tasks, Save(t)
  PROVE  Inv'
<1> DEFINE s == [store EXCEPT !.data = NewNo]
           c == [kind |-> "save", no |-> NewNo]
<1>1. /\ TypeOK /\ past.asked < MaxCalls
      /\ UNCHANGED <<threads, disk, load, stage>>
  BY DEF Inv, Save, Called
<1>2. /\ NewNo \in Numbers /\ NewNo = past.asked + 1 /\ Asked \in PastType
      /\ Asked.asked = NewNo /\ Asked.removed = past.removed
  BY <1>1, AskedType
<1>3. s \in StoreType /\ s.data = NewNo
  BY <1>1, <1>2, WithDataType DEF TypeOK
<1>4. c \in CallType /\ c.kind = "save"
  BY <1>2 DEF CallType
<1> HIDE DEF s, c
<1>5. CASE /\ store' = EnsureFinalWrite(s) /\ past' = Asked
           /\ UNCHANGED <<cache, lock, call, job>>
  <2>1. store' \in StoreType /\ store'.data = NewNo
    BY <1>3, <1>5, EnsureFinalWriteType
  <2>2. Fits(store', past')
    BY <1>1, <1>2, <1>5, <2>1, NewData DEF Inv, Fits
  <2> QED
    BY <1>1, <1>2, <1>5, <2>1, <2>2, QuietPreserves DEF TypeOK
<1>6. CASE Request(t, c, s, Asked)
  <2>1. Fits(s, Asked)
    BY <1>1, <1>2, <1>3, NewData DEF Inv, Fits
  <2> QED
    BY <1>1, <1>2, <1>3, <1>4, <1>6, <2>1, RequestPreserves DEF TypeOK
<1> QED
  BY <1>5, <1>6 DEF Save, s, c

\* What a delayed save leaves of the store s and the history p, with its data set.
LEMMA Postponed ==
  ASSUME NEW d \in Delays, NEW s \in StoreType, NEW p \in PastType,
         s.handle = store.handle, Postpone(d, s, p)
  PROVE  /\ store' \in StoreType /\ store'.data = s.data
         /\ past' \in PastType /\ past'.due = d /\ past'.asked = p.asked
         /\ past'.removed = p.removed /\ past'.lost = p.lost /\ past'.final = p.final
         /\ UNCHANGED <<cache, lock, call, job>>
         /\ \/ /\ DueBefore(d) /\ store'.handle = store.handle
               /\ store'.next = d /\ store'.listening = s.listening
            \/ stage = "stopping" /\ store'.handle = "none" /\ store'.listening
            \/ store'.handle = "armed" /\ store'.left = d /\ store'.listening
<1>1. d \in 0..MaxDelay
  BY StoreAssumption
<1>2. /\ past' \in PastType /\ past'.due = d /\ past'.asked = p.asked
      /\ past'.removed = p.removed /\ past'.lost = p.lost /\ past'.final = p.final
      /\ UNCHANGED <<cache, lock, call, job>>
  BY <1>1 DEF Postpone, PastType
<1>3. CASE DueBefore(d) /\ store' = [s EXCEPT !.next = d]
  BY <1>1, <1>2, <1>3 DEF StoreType
<1> DEFINE f == EnsureFinalWrite(CleanUp(s))
<1>4. f \in StoreType /\ f.data = s.data /\ f.handle = "none" /\ f.listening
  <2>1. /\ CleanUp(s) \in StoreType /\ CleanUp(s).data = s.data
        /\ CleanUp(s).handle = "none"
    BY CleanUpType DEF CleanUp, StoreType
  <2> QED
    BY <2>1 DEF EnsureFinalWrite, StoreType
<1> HIDE DEF f
<1>5. CASE stage = "stopping" /\ store' = f
  BY <1>2, <1>4, <1>5
<1>6. CASE store' = Reschedule(f, d)
  BY <1>1, <1>2, <1>4, <1>6 DEF Reschedule, StoreType
<1> QED
  BY <1>3, <1>5, <1>6 DEF Postpone, f

LEMMA DelaySavePreserves ==
  ASSUME Inv, NEW d \in Delays, DelaySave(d)
  PROVE  Inv'
<1> DEFINE s == [store EXCEPT !.data = NewNo]
<1>1. /\ TypeOK /\ past.asked < MaxCalls /\ Postpone(d, s, Asked)
      /\ UNCHANGED <<threads, disk, load, stage>>
  BY DEF Inv, DelaySave, Called
<1>2. /\ NewNo = past.asked + 1 /\ Asked \in PastType
      /\ Asked.asked = NewNo /\ Asked.removed = past.removed
      /\ s \in StoreType /\ s.data = NewNo /\ s.handle = store.handle
  BY <1>1, AskedType DEF TypeOK, StoreType
<1> HIDE DEF s
<1>3. /\ store' \in StoreType /\ store'.data = NewNo
      /\ past' \in PastType /\ past'.asked = NewNo /\ past'.removed = past.removed
      /\ UNCHANGED <<cache, lock, call, job>>
  BY <1>1, <1>2, Postponed
<1>4. Fits(store', past')
  BY <1>1, <1>2, <1>3, NewData DEF Inv, Fits
<1> QED
  BY <1>1, <1>3, <1>4, QuietPreserves DEF TypeOK

LEMMA DelayAgainPreserves ==
  ASSUME Inv, NEW d \in Delays, DelayAgain(d)
  PROVE  Inv'
<1>1. /\ TypeOK /\ Postpone(d, store, past)
      /\ UNCHANGED <<threads, disk, load, stage>>
  BY DEF Inv, DelayAgain
<1>2. /\ store' \in StoreType /\ store'.data = store.data
      /\ past' \in PastType /\ past'.asked = past.asked
      /\ past'.removed = past.removed
      /\ UNCHANGED <<cache, lock, call, job>>
  BY <1>1, Postponed DEF TypeOK
<1>3. Fits(store', past')
  BY <1>2 DEF Inv, Fits, DataOK, Older
<1> QED
  BY <1>1, <1>2, <1>3, QuietPreserves DEF TypeOK

LEMMA RemovePreserves ==
  ASSUME Inv, NEW t \in Tasks, Remove(t)
  PROVE  Inv'
<1> DEFINE s == [CleanUp(store) EXCEPT !.data = 0]
           p == [Asked EXCEPT !.erase = NewNo]
           c == [kind |-> "remove", no |-> NewNo]
<1>1. /\ TypeOK /\ past.asked < MaxCalls
      /\ UNCHANGED <<threads, disk, load, stage>>
      /\ Request(t, c, s, p)
  BY DEF Inv, Remove, Called
<1>2. /\ NewNo \in Numbers /\ NewNo = past.asked + 1 /\ Asked \in PastType
      /\ Asked.asked = NewNo /\ Asked.removed = past.removed
  BY <1>1, AskedType
<1>3. p \in PastType /\ p.asked = NewNo /\ p.removed = past.removed
  BY <1>2 DEF PastType
<1>4. s \in StoreType /\ s.data = 0
  BY <1>1, CleanUpType, WithDataType, IdleTypes DEF TypeOK
<1>5. c \in CallType /\ c.kind = "remove" /\ c.no = NewNo
  BY <1>2 DEF CallType
<1> HIDE DEF s, p, c
<1>6. Fits(s, p)
  BY <1>1, <1>2, <1>3, <1>4, NewData DEF Inv, Fits
<1>7. Older(c.no, s, p)
  BY <1>2, <1>3, <1>4, <1>5 DEF Older, Numbers
<1> QED
  BY <1>1, <1>3, <1>4, <1>5, <1>6, <1>7, RequestPreserves DEF TypeOK

LEMMA FirePreserves ==
  ASSUME Inv, NEW t \in Tasks, Fire(t)
  PROVE  Inv'
<1> DEFINE f == [store EXCEPT !.handle = "fired"]
           c == [kind |-> "delayed", no |-> 0]
<1>1. /\ TypeOK /\ UNCHANGED <<threads, disk, load, stage>>
      /\ store \in StoreType /\ past \in PastType /\ store.next \in 0..MaxDelay
  BY DEF Inv, Fire, TypeOK, StoreType
<1>2. f \in StoreType /\ f.data = store.data
  BY <1>1 DEF StoreType
<1>3. c \in CallType /\ c.kind = "delayed"
  BY IdleTypes DEF CallType
<1>4. ASSUME NEW s, s.data = store.data
      PROVE  Fits(s, past)
  BY <1>4, SameData DEF Inv, Fits
<1> HIDE DEF f, c
<1>5. ASSUME store' \in StoreType, store'.data = store.data,
             UNCHANGED <<cache, lock, call, job, past>>
      PROVE  Inv'
  BY <1>1, <1>4, <1>5, QuietPreserves DEF TypeOK
<1>6. CASE store' = Reschedule(store, store.next) /\ UNCHANGED <<cache, lock, call, job, past>>
  BY <1>1, <1>5, <1>6, RescheduleType
<1>7. CASE store' = EnsureFinalWrite(f) /\ UNCHANGED <<cache, lock, call, job, past>>
  BY <1>2, <1>5, <1>7, EnsureFinalWriteType
<1>8. CASE Request(t, c, f, past)
  BY <1>1, <1>2, <1>3, <1>4, <1>8, RequestPreserves DEF TypeOK
<1> QED
  BY <1>6, <1>7, <1>8 DEF Fire, f, c

LEMMA FinalWritePreserves ==
  ASSUME Inv, NEW t \in Tasks, FinalWrite(t)
  PROVE  Inv'
<1> DEFINE s == [store EXCEPT !.listening = FALSE]
           p == [past EXCEPT !.final = past.asked]
           c == [kind |-> "final", no |-> 0]
<1>1. /\ TypeOK /\ UNCHANGED <<threads, disk, load>> /\ stage' = "final_write"
      /\ store \in StoreType /\ past \in PastType
  BY DEF Inv, FinalWrite, TypeOK
<1>2. s \in StoreType /\ s.data = store.data
  BY <1>1 DEF StoreType
<1>3. p \in PastType /\ p.asked = past.asked /\ p.removed = past.removed
  BY <1>1 DEF PastType
<1>4. c \in CallType /\ c.kind = "final"
  BY IdleTypes DEF CallType
<1> HIDE DEF s, p, c
<1>5. Fits(s, p) /\ Fits(store, p)
  BY <1>2, <1>3, SameData DEF Inv, Fits
<1>6. CASE Request(t, c, s, p)
  BY <1>1, <1>2, <1>3, <1>4, <1>5, <1>6, RequestPreserves
<1>7. CASE past' = p /\ UNCHANGED <<store, cache, lock, call, job>>
  BY <1>1, <1>3, <1>5, <1>7, QuietPreserves DEF TypeOK
<1> QED
  BY <1>6, <1>7 DEF FinalWrite, s, p, c

LEMMA TickPreserves ==
  ASSUME Inv, Tick
  PROVE  Inv'
<1>1. /\ TypeOK /\ store \in StoreType /\ past \in PastType
      /\ store.left \in 0..MaxDelay /\ store.next \in 0..MaxDelay
      /\ past.due \in 0..MaxDelay
  BY DEF Inv, TypeOK, StoreType, PastType
<1>2. /\ Less(store.left) \in 0..MaxDelay /\ Less(store.next) \in 0..MaxDelay
      /\ Less(past.due) \in 0..MaxDelay
  BY <1>1, LessType
<1>3. store' \in StoreType /\ store'.data = store.data
  BY <1>1, <1>2 DEF Tick, StoreType
<1>4. past' \in PastType /\ past'.asked = past.asked /\ past'.removed = past.removed
  BY <1>1, <1>2 DEF Tick, PastType
<1>5. Fits(store', past')
  BY <1>3, <1>4, SameData DEF Inv, Fits
<1> QED
  BY <1>1, <1>3, <1>4, <1>5, QuietPreserves DEF Tick, TypeOK

LEMMA MakeReadOnlyPreserves ==
  ASSUME Inv, MakeReadOnly
  PROVE  Inv'
<1>1. TypeOK /\ store' \in StoreType /\ store'.data = store.data
  BY DEF Inv, TypeOK, MakeReadOnly, StoreType
<1>2. Fits(store', past')
  BY <1>1, SameData DEF Inv, Fits, MakeReadOnly
<1> QED
  BY <1>1, <1>2, QuietPreserves DEF MakeReadOnly, TypeOK

\* Loads and the preload change the cache and the result of a load only.
LEMMA LoadsPreserve ==
  ASSUME Inv,
         \/ Load \/ LoadDone \/ ListFiles
         \/ PreloadRead \/ PreloadStore \/ DropPreload
  PROVE  Inv'
<1>1. /\ TypeOK /\ cache \in CacheType /\ load \in LoadType
      /\ disk.no \in Numbers /\ store.data \in Numbers /\ cache.no \in Numbers
  BY DEF Inv, TypeOK, DiskType, StoreType, CacheType
<1>2. UNCHANGED <<store, lock, call, job, threads, disk, stage, past>>
  BY DEF Load, LoadDone, ListFiles, PreloadRead, PreloadStore, DropPreload
<1>3. cache' \in CacheType
  <2>1. CASE UNCHANGED cache
    BY <1>1, <2>1
  <2>2. CASE Load /\ ~UNCHANGED cache
    BY <1>1, <2>2 DEF Load, CacheType
  <2>3. CASE ListFiles
    BY <1>1, <2>3 DEF ListFiles, CacheType
  <2>4. CASE PreloadRead \/ PreloadStore \/ DropPreload
    BY <1>1, <2>4 DEF PreloadRead, PreloadStore, DropPreload, CacheType
  <2>5. LoadDone => UNCHANGED cache
    BY DEF LoadDone
  <2> QED
    BY <2>1, <2>2, <2>3, <2>4, <2>5
<1>4. load' \in LoadType
  <2>1. CASE UNCHANGED load
    BY <1>1, <2>1
  <2>2. CASE LoadDone
    BY <1>1, <2>2 DEF LoadDone, LoadType
  <2>3. CASE Load
    <3> DEFINE n == Newest(disk.no, store.data)
               b == [load EXCEPT !.floor = n]
    <3>1. n \in Numbers
      BY <1>1 DEF Newest
    <3>2. b \in LoadType
      BY <1>1, <3>1 DEF LoadType
    <3> HIDE DEF n
    <3>3. \/ load' = [b EXCEPT !.no = store.data]
          \/ load' = [b EXCEPT !.no = cache.no]
          \/ load' = [b EXCEPT !.reading = TRUE]
      BY <2>3 DEF Load, n
    <3> HIDE DEF b
    <3> QED
      BY <1>1, <3>2, <3>3 DEF LoadType
  <2>4. ListFiles \/ PreloadRead \/ PreloadStore \/ DropPreload => UNCHANGED load
    BY DEF ListFiles, PreloadRead, PreloadStore, DropPreload
  <2> QED
    BY <2>1, <2>2, <2>3, <2>4
<1>5. Fits(store', past')
  BY <1>2 DEF Inv, Fits
<1> QED
  BY <1>1, <1>2, <1>3, <1>4, <1>5, QuietPreserves DEF TypeOK

LEMMA StagePreserves ==
  ASSUME Inv, Stop \/ Close
  PROVE  Inv'
<1>1. /\ TypeOK /\ stage' \in {"running", "stopping", "final_write", "closed"}
      /\ UNCHANGED <<store, cache, lock, call, job, threads, disk, load, past>>
  BY DEF Inv, Stop, Close
<1>2. Fits(store', past')
  BY <1>1 DEF Inv, Fits
<1> QED
  BY <1>1, <1>2, QuietPreserves DEF TypeOK

LEMMA EffectType ==
  ASSUME NEW j \in JobType
  PROVE  /\ Effect(j) \in DiskType /\ Effect(j).no = j.no
         /\ Effect(j).file <=> j.kind = "write"
BY DEF Effect, DiskType, JobType

\* What a task with a job in the executor knows.
LEMMA WorkerOwns ==
  ASSUME Inv, NEW t \in Tasks, job[t].kind # "none"
  PROVE  /\ TypeOK /\ RestTyped /\ owner = t /\ job[t] \in JobType
         /\ job[t].no \in Numbers
BY DEF Inv, TypeOK, RestTyped, LockOK, JobType

LEMMA WriteDonePreserves ==
  ASSUME Inv, NEW t \in Tasks, WriteDone(t)
  PROVE  Inv'
<1>1. /\ RestTyped /\ owner = t /\ job[t] \in JobType
      /\ job[t].kind = "write" /\ Return(t) /\ disk' = Effect(job[t])
      /\ UNCHANGED <<store, cache, waiters, threads, load, stage, past>>
  BY WorkerOwns DEF WriteDone
<1>2. disk' \in DiskType /\ disk'.no = job[t].no /\ disk'.file
  BY <1>1, EffectType
<1>3. RestTyped'
  BY <1>1, <1>2 DEF RestTyped
<1>4. ASSUME NobodyCancelled
      PROVE  /\ threads = {} /\ Older(job[t].no, store, past)
             /\ Older(past.removed, store, past) /\ past.removed < job[t].no
  BY <1>1, <1>4 DEF Inv, DataOK
<1> QED
  BY <1>1, <1>2, <1>3, <1>4, ReturnPreserves

LEMMA WriteFailsPreserves ==
  ASSUME Inv, NEW t \in Tasks, WriteFails(t)
  PROVE  Inv'
<1>1. /\ RestTyped /\ owner = t /\ job[t].no \in Numbers /\ Return(t)
      /\ past' = [past EXCEPT !.lost = Newest(@, job[t].no)]
      /\ UNCHANGED <<store, cache, waiters, threads, disk, load, stage>>
  BY WorkerOwns DEF WriteFails
<1>2. past \in PastType /\ past.lost \in Numbers
  BY <1>1 DEF RestTyped, PastType
<1>3. Newest(past.lost, job[t].no) \in Numbers
  BY <1>1, <1>2 DEF Newest
<1>4. past' \in PastType /\ past'.asked = past.asked /\ past'.removed = past.removed
  BY <1>1, <1>2, <1>3 DEF PastType
<1>5. RestTyped'
  BY <1>1, <1>4 DEF RestTyped
<1>6. ASSUME NobodyCancelled
      PROVE  /\ threads = {} /\ Older(disk.no, store, past)
             /\ Older(past.removed, store, past)
             /\ past.removed > 0 /\ disk.file => past.removed < disk.no
  BY <1>6 DEF Inv, DataOK
<1> QED
  BY <1>1, <1>4, <1>5, <1>6, ReturnPreserves

LEMMA RemoveDonePreserves ==
  ASSUME Inv, NEW t \in Tasks, RemoveDone(t)
  PROVE  Inv'
<1>1. /\ RestTyped /\ owner = t /\ job[t] \in JobType /\ job[t].no \in Numbers
      /\ job[t].kind = "remove" /\ Return(t) /\ disk' = Effect(job[t])
      /\ past' = [past EXCEPT !.removed = job[t].no]
      /\ load' = [load EXCEPT !.floor = IF @ > job[t].no THEN job[t].no ELSE @]
      /\ UNCHANGED <<store, cache, waiters, threads, stage>>
  BY WorkerOwns DEF RemoveDone
<1>2. disk' \in DiskType /\ disk'.no = job[t].no /\ ~disk'.file
  <2>1. Effect(job[t]).file <=> FALSE
    BY <1>1, EffectType
  <2> QED
    BY <1>1, <2>1, EffectType
<1>3. /\ past' \in PastType /\ past'.asked = past.asked
      /\ past'.removed = job[t].no
  BY <1>1 DEF RestTyped, PastType
<1>4. load' \in LoadType
  BY <1>1 DEF RestTyped, LoadType
<1>5. RestTyped'
  BY <1>1, <1>2, <1>3, <1>4 DEF RestTyped
<1>6. ASSUME NobodyCancelled
      PROVE  threads = {} /\ Older(job[t].no, store, past)
  BY <1>6 DEF Inv, DataOK
<1> QED
  BY <1>1, <1>2, <1>3, <1>5, <1>6, ReturnPreserves

LEMMA RemoveFailsPreserves ==
  ASSUME Inv, NEW t \in Tasks, RemoveFails(t)
  PROVE  Inv'
<1>1. /\ RestTyped /\ owner = t /\ Return(t)
      /\ UNCHANGED <<store, cache, waiters, threads, disk, load, stage, past>>
  BY WorkerOwns DEF RemoveFails
<1>2. RestTyped'
  BY <1>1 DEF RestTyped
<1>3. ASSUME NobodyCancelled
      PROVE  /\ threads = {} /\ Older(disk.no, store, past)
             /\ Older(past.removed, store, past)
             /\ past.removed > 0 /\ disk.file => past.removed < disk.no
  BY <1>3 DEF Inv, DataOK
<1> QED
  BY <1>1, <1>2, <1>3, ReturnPreserves

\* A caller that waits for the lock leaves the queue.
LEMMA LeavePreserves ==
  ASSUME Inv, ~NobodyCancelled, NEW t \in Tasks, owner # t,
         NEW i \in 1..Len(waiters), waiters[i] = t,
         waiters' = Seqs!RemoveAt(waiters, i),
         call' = [call EXCEPT ![t] = Idle],
         UNCHANGED <<owner, job, store, cache, threads, disk, load, stage, past>>
  PROVE  Inv'
<1>1. /\ TypeOK /\ LockOK /\ LockTyped /\ RestTyped /\ Distinct(waiters)
  BY TypedParts DEF Inv, LockOK, Distinct
<1>2. waiters' \in Seq(Tasks) /\ Dropped(waiters, i, waiters')
  BY <1>1, RemoveAtDrops DEF LockTyped, Seqs!RemoveAt
<1>3. Unqueued(t)
  BY <1>1, <1>2, QueueDropped DEF Unqueued, LockTyped
<1>4. /\ call' \in [Tasks -> CallType] /\ call'[t].kind = "none"
      /\ \A u \in Tasks \ {t} : call'[u] = call[u]
  BY <1>1, IdleTypes DEF LockTyped
<1>5. TypeOK'
  BY <1>1, <1>2, <1>4 DEF TypeOK, LockTyped, RestTyped
<1>6. \A u \in Tasks : call'[u].kind # "none" <=> owner' = u \/ Queued(waiters', u)
  <2>1. ASSUME NEW u \in Tasks \ {t}
        PROVE  call'[u].kind # "none" <=> owner' = u \/ Queued(waiters', u)
    BY <1>1, <1>3, <1>4 DEF LockOK, Unqueued, Queued
  <2>2. ~Queued(waiters', t)
    BY <1>3 DEF Unqueued
  <2> QED
    BY <1>4, <2>1, <2>2
<1>7. \A k \in 1..Len(waiters') : waiters'[k] # owner'
  <2>1. ~Queued(waiters, owner)
    BY <1>1 DEF LockOK, Queued
  <2>2. ~Queued(waiters', owner')
    BY <1>3, <2>1 DEF Unqueued
  <2> QED
    BY <2>2 DEF Queued
<1>8. LockOK'
  <2>1. \A u \in Tasks : job'[u].kind # "none" <=> owner' = u
    BY <1>1 DEF LockOK
  <2> QED
    BY <1>3, <1>6, <1>7, <2>1 DEF LockOK, Queued, Distinct, Unqueued
<1> QED
  BY <1>5, <1>8 DEF Inv, NobodyCancelled

LEMMA CancelPreserves ==
  ASSUME Inv, NEW t \in Tasks, Cancel(t)
  PROVE  Inv'
<1>1. /\ TypeOK /\ RestTyped /\ ~NobodyCancelled
      /\ UNCHANGED <<store, cache, disk, load, stage, past>>
  BY TypedParts DEF Inv, Cancel, NobodyCancelled
<1>2. CASE /\ owner = t /\ Return(t) /\ UNCHANGED waiters
           /\ threads' \in {threads, threads \cup {job[t]}}
  <2>1. job[t] \in JobType
    BY <1>1 DEF TypeOK
  <2>2. RestTyped'
    BY <1>1, <1>2, <2>1 DEF RestTyped
  <2> QED
    BY <1>1, <1>2, <2>2, ReturnPreserves
<1>3. CASE /\ owner # t /\ call' = [call EXCEPT ![t] = Idle]
           /\ \E i \in 1..Len(waiters) :
                waiters[i] = t /\ waiters' = Seqs!RemoveAt(waiters, i)
           /\ UNCHANGED <<owner, job, threads>>
  BY <1>1, <1>3, LeavePreserves
<1> QED
  BY <1>2, <1>3 DEF Cancel

LEMMA ThreadDonePreserves ==
  ASSUME Inv, NEW j \in threads, ThreadDone(j)
  PROVE  Inv'
<1>1. /\ TypeOK /\ LockOK /\ ~NobodyCancelled /\ j \in JobType
      /\ threads' = threads \ {j} /\ disk' = Effect(j)
      /\ UNCHANGED <<store, cache, lock, call, job, load, stage, past>>
  BY DEF Inv, TypeOK, ThreadDone
<1>2. TypeOK'
  BY <1>1, EffectType DEF TypeOK, lock
<1>3. LockOK'
  BY <1>1 DEF LockOK, lock
<1> QED
  BY <1>1, <1>2, <1>3 DEF Inv, NobodyCancelled

LEMMA InitInv == Init => Inv
<1> SUFFICES ASSUME Init
             PROVE  Inv
  OBVIOUS
<1>1. 0 \in Numbers /\ 0 \in 0..MaxDelay
  BY StoreAssumption, IdleTypes
<1>2. TypeOK
  <2>1. /\ store \in StoreType /\ cache \in CacheType /\ disk \in DiskType
        /\ load \in LoadType /\ past \in PastType
    BY <1>1 DEF Init, StoreType, CacheType, DiskType, LoadType, PastType
  <2>2. waiters \in Seq(Tasks) /\ owner \in Tasks \cup {NoTask} /\ threads \subseteq JobType
    BY DEF Init
  <2>3. call \in [Tasks -> CallType] /\ job \in [Tasks -> JobType]
    BY IdleTypes DEF Init
  <2> QED
    BY <2>1, <2>2, <2>3 DEF Init, TypeOK
<1>3. LockOK
  BY StoreAssumption, IdleTypes DEF Init, LockOK
<1>4. DataOK(store, past)
  BY IdleTypes DEF Init, DataOK, Older
<1> QED
  BY <1>2, <1>3, <1>4 DEF Init, Inv

LEMMA StepInv == Inv /\ [Next]_vars => Inv'
<1> SUFFICES ASSUME Inv, [Next]_vars
             PROVE  Inv'
  OBVIOUS
<1>1. CASE UNCHANGED vars
  <2>1. /\ TypeOK /\ UNCHANGED <<lock, call, job, threads, disk>>
        /\ UNCHANGED <<store, cache, load, stage, past>>
    BY <1>1 DEF Inv, vars
  <2>2. Fits(store', past')
    BY <2>1 DEF Inv, Fits
  <2> QED
    BY <2>1, <2>2, QuietPreserves DEF TypeOK
<1>2. ASSUME NEW t \in Tasks, Save(t) \/ Remove(t) \/ Fire(t) \/ FinalWrite(t)
      PROVE  Inv'
  BY <1>2, SavePreserves, RemovePreserves, FirePreserves, FinalWritePreserves
<1>3. ASSUME NEW t \in Tasks, Work(t) \/ Cancel(t)
      PROVE  Inv'
  BY <1>3, AcquirePreserves, WriteDonePreserves, WriteFailsPreserves,
     RemoveDonePreserves, RemoveFailsPreserves, CancelPreserves DEF Work
<1>4. ASSUME NEW d \in Delays, DelaySave(d) \/ DelayAgain(d)
      PROVE  Inv'
  BY <1>4, DelaySavePreserves, DelayAgainPreserves
<1>5. ASSUME NEW j \in threads, ThreadDone(j)
      PROVE  Inv'
  BY <1>5, ThreadDonePreserves
<1>6. CASE Tick \/ MakeReadOnly \/ Stop \/ Close
  BY <1>6, TickPreserves, MakeReadOnlyPreserves, StagePreserves
<1>7. CASE \/ Load \/ LoadDone \/ ListFiles
           \/ PreloadRead \/ PreloadStore \/ DropPreload
  BY <1>7, LoadsPreserve
<1> QED
  BY <1>1, <1>2, <1>3, <1>4, <1>5, <1>6, <1>7 DEF Next

\* Only the three steps that end a thread change the file.
LEMMA FileSteps ==
  ASSUME Next, disk' # disk
  PROVE  \/ \E t \in Tasks : WriteDone(t) \/ RemoveDone(t)
         \/ \E j \in threads : ThreadDone(j)
<1>1. ASSUME NEW t \in Tasks, Save(t) \/ Remove(t) \/ Fire(t) \/ Cancel(t) \/ FinalWrite(t)
      PROVE  disk' = disk
  BY <1>1 DEF Save, Remove, Fire, Cancel, FinalWrite, Called
<1>2. ASSUME NEW t \in Tasks, Acquire(t) \/ WriteFails(t) \/ RemoveFails(t)
      PROVE  disk' = disk
  BY <1>2 DEF Acquire, WriteFails, RemoveFails
<1>3. ASSUME NEW d \in Delays, DelaySave(d) \/ DelayAgain(d)
      PROVE  disk' = disk
  BY <1>3 DEF DelaySave, DelayAgain, Called
<1>4. ASSUME \/ Tick \/ MakeReadOnly \/ Stop \/ Close \/ Load \/ LoadDone
             \/ ListFiles \/ PreloadRead \/ PreloadStore \/ DropPreload
      PROVE  disk' = disk
  BY <1>4 DEF Tick, MakeReadOnly, Stop, Close, Load, LoadDone, ListFiles,
              PreloadRead, PreloadStore, DropPreload
<1> QED
  BY <1>1, <1>2, <1>3, <1>4 DEF Next, Work

LEMMA FileMoves ==
  ASSUME Inv, NobodyCancelled, Next
  PROVE  disk' # disk /\ disk'.file => disk'.no > disk.no
<1> SUFFICES ASSUME disk' # disk, disk'.file
             PROVE  disk'.no > disk.no
  OBVIOUS
<1>1. threads = {} /\ DataOK(store, past)
  BY DEF Inv
<1>2. PICK t \in Tasks : WriteDone(t) \/ RemoveDone(t)
  BY <1>1, FileSteps
<1>3. job[t] \in JobType /\ disk' = Effect(job[t])
  BY <1>2 DEF Inv, TypeOK, WriteDone, RemoveDone
<1>4. disk'.no = job[t].no /\ job[t].kind = "write"
  BY <1>3, EffectType
<1>5. disk.no \in Nat /\ job[t].no \in Nat
  BY <1>3 DEF Inv, TypeOK, DiskType, JobType, Numbers
<1> QED
  BY <1>1, <1>4, <1>5 DEF DataOK

-----------------------------------------------------------------------------
(***************************************************************************)
(* The timer of delayed saves                                              *)
(***************************************************************************)
\* The timer, or the time that it will look at when it fires, is not before the
\* last delayed save is due.
TimerOK ==
  store.handle = "armed" => past.due <= store.left \/ past.due <= store.next

\* A new store and history in which the timer has at most been cancelled.
SameTimer(s, p) ==
  /\ s.handle \in {store.handle, "none"}
  /\ s.handle = "armed" =>
       s.left = store.left /\ s.next = store.next /\ p.due = past.due

LEMMA CleanUpTimer ==
  ASSUME NEW s \in StoreType
  PROVE  CleanUp(s).handle = "none" /\ [CleanUp(s) EXCEPT !.data = 0].handle = "none"
<1>1. CleanUp(s) \in StoreType /\ CleanUp(s).handle = "none"
  BY CleanUpType DEF CleanUp, StoreType
<1> QED
  BY <1>1 DEF StoreType

LEMMA RequestTimer ==
  ASSUME NEW t, NEW c, NEW s \in StoreType, NEW p \in PastType, SameTimer(s, p),
         Enter(t, c, s, p) \/ (store' = s /\ past' = p)
  PROVE  SameTimer(store', past')
<1>1. CASE store' = s /\ past' = p
  BY <1>1
<1>2. CASE Write(t, c, s, p)
  BY <1>2, CleanUpTimer DEF Write, SameTimer
<1> QED
  BY <1>1, <1>2 DEF Enter

\* All but the steps of the timer itself.
LEMMA TimerAlone ==
  ASSUME Inv, Next, ~Tick, \A t \in Tasks : ~Fire(t),
         \A d \in Delays : ~DelaySave(d) /\ ~DelayAgain(d)
  PROVE  SameTimer(store', past')
<1>t. TypeOK /\ store \in StoreType /\ past \in PastType /\ SameTimer(store, past)
  BY DEF Inv, TypeOK, SameTimer
<1>1. ASSUME NEW t \in Tasks, Save(t) PROVE SameTimer(store', past')
  <2> DEFINE s == [store EXCEPT !.data = NewNo]
  <2>1. /\ NewNo \in Numbers /\ Asked \in PastType /\ Asked.due = past.due
    BY <1>t, <1>1, AskedType DEF Save, Called, Asked, PastType
  <2>2. s \in StoreType /\ s.handle = store.handle /\ s.left = store.left /\ s.next = store.next
    BY <1>t, <2>1 DEF StoreType
  <2>3. \/ store' = EnsureFinalWrite(s) /\ past' = Asked
        \/ Request(t, [kind |-> "save", no |-> NewNo], s, Asked)
    BY <1>1 DEF Save
  <2> HIDE DEF s
  <2>4. SameTimer(s, Asked)
    BY <2>1, <2>2 DEF SameTimer
  <2>5. CASE store' = EnsureFinalWrite(s) /\ past' = Asked
    <3>1. /\ store'.handle = s.handle /\ store'.left = s.left /\ store'.next = s.next
      BY <2>2, <2>5 DEF EnsureFinalWrite, StoreType
    <3> QED
      BY <2>4, <2>5, <3>1 DEF SameTimer
  <2> QED
    BY <2>1, <2>2, <2>3, <2>4, <2>5, RequestTimer DEF Request
<1>2. ASSUME NEW t \in Tasks, Remove(t) PROVE SameTimer(store', past')
  <2> DEFINE s == [CleanUp(store) EXCEPT !.data = 0]
             p == [Asked EXCEPT !.erase = NewNo]
  <2>1. s \in StoreType /\ s.handle = "none"
    BY <1>t, CleanUpType, CleanUpTimer, WithDataType, IdleTypes
  <2>2. p \in PastType
    BY <1>t, <1>2, AskedType DEF Remove, Called, PastType
  <2>3. Request(t, [kind |-> "remove", no |-> NewNo], s, p)
    BY <1>2 DEF Remove
  <2> HIDE DEF s, p
  <2>4. SameTimer(s, p)
    BY <2>1 DEF SameTimer
  <2> QED
    BY <2>1, <2>2, <2>3, <2>4, RequestTimer DEF Request
<1>3. ASSUME NEW t \in Tasks, FinalWrite(t) PROVE SameTimer(store', past')
  <2> DEFINE s == [store EXCEPT !.listening = FALSE]
             p == [past EXCEPT !.final = past.asked]
  <2>1. /\ s \in StoreType /\ s.handle = store.handle /\ s.left = store.left
        /\ s.next = store.next
    BY <1>t DEF StoreType
  <2>2. p \in PastType /\ p.due = past.due
    BY <1>t DEF PastType
  <2>3. \/ Request(t, [kind |-> "final", no |-> 0], s, p)
        \/ past' = p /\ store' = store
    BY <1>3 DEF FinalWrite
  <2> HIDE DEF s, p
  <2>4. SameTimer(s, p) /\ SameTimer(store, p)
    BY <2>1, <2>2 DEF SameTimer
  <2> QED
    BY <2>1, <2>2, <2>3, <2>4, RequestTimer DEF Request
<1>4. ASSUME NEW t \in Tasks, Acquire(t) PROVE SameTimer(store', past')
  BY <1>t, <1>4, RequestTimer DEF Acquire
<1>5. ASSUME NEW t \in Tasks, WriteFails(t) \/ RemoveDone(t) PROVE SameTimer(store', past')
  <2>1. store' = store /\ past'.due = past.due
    BY <1>t, <1>5 DEF WriteFails, RemoveDone, PastType
  <2> QED
    BY <2>1 DEF SameTimer
<1>6. ASSUME MakeReadOnly PROVE SameTimer(store', past')
  <2>1. /\ store'.handle = store.handle /\ store'.left = store.left
        /\ store'.next = store.next /\ past' = past
    BY <1>t, <1>6 DEF MakeReadOnly, StoreType
  <2> QED
    BY <2>1 DEF SameTimer
<1>7. ASSUME \/ Stop \/ Close \/ Load \/ LoadDone
             \/ ListFiles \/ PreloadRead \/ PreloadStore \/ DropPreload
             \/ \E t \in Tasks : WriteDone(t) \/ RemoveFails(t) \/ Cancel(t)
             \/ \E j \in threads : ThreadDone(j)
      PROVE  SameTimer(store', past')
  <2>1. store' = store /\ past' = past
    BY <1>7 DEF Stop, Close, Load, LoadDone, ListFiles, PreloadRead, PreloadStore,
                DropPreload, WriteDone, RemoveFails, Cancel, ThreadDone
  <2> QED
    BY <1>t, <2>1
<1> QED
  BY <1>1, <1>2, <1>3, <1>4, <1>5, <1>6, <1>7 DEF Next, Work

LEMMA FireTimer ==
  ASSUME Inv, TimerOK, NEW t \in Tasks, Fire(t)
  PROVE  /\ TimerOK'
         /\ store'.handle = "fired" => past.due = 0
<1> DEFINE f == [store EXCEPT !.handle = "fired"]
<1>t. /\ store \in StoreType /\ past \in PastType
      /\ store.next \in Nat /\ past.due \in Nat
  BY StoreAssumption DEF Inv, TypeOK, StoreType, PastType
<1>1. store.handle = "armed" /\ store.left = 0
  BY DEF Fire
<1>2. CASE store.next > 0 /\ store' = Reschedule(store, store.next) /\ past' = past
  <2>1. store'.handle = "armed" /\ store'.left = store.next
    BY <1>t, <1>2 DEF Reschedule, StoreType
  <2> QED
    BY <1>t, <1>1, <1>2, <2>1 DEF TimerOK
<1>3. CASE /\ store.next = 0
           /\ \/ store' = EnsureFinalWrite(f)
              \/ Request(t, [kind |-> "delayed", no |-> 0], f, past)
  <2>1. f \in StoreType /\ f.handle = "fired"
    BY <1>t DEF StoreType
  <2> HIDE DEF f
  <2>2. past.due = 0
    BY <1>t, <1>1, <1>3 DEF TimerOK
  <2>3. store'.handle \in {"fired", "none"}
    <3>1. CASE store' = EnsureFinalWrite(f)
      BY <2>1, <3>1 DEF EnsureFinalWrite, StoreType
    <3>2. CASE store' = f
      BY <2>1, <3>2
    <3>3. CASE Write(t, [kind |-> "delayed", no |-> 0], f, past)
      BY <2>1, <3>3, CleanUpTimer DEF Write
    <3> QED
      BY <1>3, <3>1, <3>2, <3>3 DEF Request, Enter
  <2> QED
    BY <2>2, <2>3 DEF TimerOK
<1> QED
  BY <1>2, <1>3 DEF Fire

LEMMA DelayTimer ==
  ASSUME Inv, NEW d \in Delays, DelaySave(d) \/ DelayAgain(d)
  PROVE  /\ TimerOK'
         /\ store.handle = "armed" => store'.handle # "fired"
<1>t. TypeOK /\ store \in StoreType /\ past \in PastType /\ d \in Nat
  BY StoreAssumption DEF Inv, TypeOK
<1>1. PICK s \in StoreType, p \in PastType :
        s.handle = store.handle /\ Postpone(d, s, p)
  <2>1. CASE DelaySave(d)
    <3> DEFINE s == [store EXCEPT !.data = NewNo]
    <3>1. /\ Asked \in PastType /\ s \in StoreType /\ s.handle = store.handle
      BY <1>t, <2>1, AskedType DEF DelaySave, Called, StoreType
    <3> QED
      BY <2>1, <3>1 DEF DelaySave
  <2>2. CASE DelayAgain(d)
    BY <1>t, <2>2 DEF DelayAgain
  <2> QED
    BY <2>1, <2>2
<1>2. /\ past'.due = d
      /\ \/ store'.handle = store.handle /\ store'.next = d
         \/ store'.handle = "none"
         \/ store'.handle = "armed" /\ store'.left = d
  BY <1>1, Postponed
<1> QED
  BY <1>t, <1>2 DEF TimerOK

LEMMA TickTimer ==
  ASSUME Inv, TimerOK, Tick
  PROVE  TimerOK' /\ store'.handle = store.handle
<1>1. /\ store \in StoreType /\ past \in PastType
      /\ store.left \in Nat /\ store.next \in Nat /\ past.due \in Nat
  BY StoreAssumption DEF Inv, TypeOK, StoreType, PastType
<1>2. /\ store'.handle = store.handle /\ store'.left = Less(store.left)
      /\ store'.next = Less(store.next) /\ past'.due = Less(past.due)
  BY <1>1 DEF Tick, StoreType, PastType
<1>3. ASSUME NEW m \in Nat, NEW n \in Nat, m <= n PROVE Less(m) <= Less(n)
  BY <1>3 DEF Less
<1> QED
  BY <1>1, <1>2, <1>3 DEF TimerOK

LEMMA StepTimer ==
  Inv /\ TimerOK /\ [Next]_vars =>
    TimerOK' /\ [store.handle = "armed" /\ store'.handle = "fired" => past.due = 0]_vars
<1> SUFFICES ASSUME Inv, TimerOK, [Next]_vars
             PROVE  /\ TimerOK'
                    /\ store.handle = "armed" /\ store'.handle = "fired" => past.due = 0
  OBVIOUS
<1>1. CASE UNCHANGED vars
  BY <1>1 DEF vars, TimerOK
<1>2. CASE Next /\ SameTimer(store', past')
  BY <1>2 DEF SameTimer, TimerOK
<1> QED
  BY <1>1, <1>2, TimerAlone, FireTimer, DelayTimer, TickTimer

-----------------------------------------------------------------------------
(***************************************************************************)
(* Loads                                                                   *)
(***************************************************************************)
\* The file is never behind what a read must return, and neither is what the last
\* load returned; the cache answers only before the first write or removal.
LoadOK ==
  /\ load.reading => disk.no >= load.floor
  /\ ~load.reading => load.no >= load.floor
  /\ ~cache.invalidated => disk.no = 0 /\ \A t \in Tasks : job[t].kind = "none"

\* A task gets the lock, or nobody begins a job.
LEMMA EnterLoads ==
  ASSUME TypeOK, LoadOK, UNCHANGED <<disk, load>>,
         \/ \E t, c, s, p : Enter(t, c, s, p)
         \/ \E t : Return(t) /\ UNCHANGED cache
         \/ UNCHANGED <<cache, job>>
  PROVE  LoadOK'
<1>1. CASE \E t, c, s, p : Enter(t, c, s, p)
  <2>1. cache'.invalidated
    <3>1. cache' = Invalidated(cache) /\ cache \in CacheType
      BY <1>1 DEF Enter, TypeOK
    <3> QED
      BY <3>1 DEF Invalidated, CacheType
  <2> QED
    BY <2>1 DEF LoadOK
<1>2. CASE \E t : Return(t) /\ UNCHANGED cache
  <2>1. \A u \in Tasks : job'[u] \in {job[u], NoJob}
    BY <1>2 DEF Return, TypeOK
  <2> QED
    BY <1>2, <2>1, IdleTypes DEF LoadOK
<1>3. CASE UNCHANGED <<cache, job>>
  BY <1>3 DEF LoadOK
<1> QED
  BY <1>1, <1>2, <1>3

\* A thread has changed the file.
LEMMA FileLoads ==
  ASSUME Inv, NobodyCancelled, LoadOK, NEW t \in Tasks, WriteDone(t) \/ RemoveDone(t)
  PROVE  LoadOK'
<1>1. /\ DataOK(store, past) /\ job[t] \in JobType /\ load \in LoadType
      /\ disk.no \in Nat /\ job[t].no \in Nat /\ load.no \in Nat /\ load.floor \in Nat
  BY DEF Inv, TypeOK, DiskType, JobType, LoadType, Numbers
<1>2. disk'.no = job[t].no /\ cache' = cache /\ cache.invalidated
  BY <1>1, EffectType DEF WriteDone, RemoveDone, LoadOK
<1>3. CASE WriteDone(t)
  <2>1. load' = load /\ disk.no < job[t].no
    BY <1>1, <1>3 DEF WriteDone, DataOK
  <2> QED
    BY <1>1, <1>2, <2>1 DEF LoadOK
<1>4. CASE RemoveDone(t)
  <2>1. /\ load'.reading = load.reading /\ load'.no = load.no
        /\ load'.floor <= load.floor /\ load'.floor <= job[t].no /\ load'.floor \in Nat
    <3>1. load' = [load EXCEPT !.floor = IF load.floor > job[t].no THEN job[t].no ELSE load.floor]
      BY <1>4 DEF RemoveDone
    <3> QED
      BY <1>1, <3>1 DEF LoadType
  <2> QED
    BY <1>1, <1>2, <2>1 DEF LoadOK
<1> QED
  BY <1>3, <1>4

LEMMA LoadLoads ==
  ASSUME Inv, NobodyCancelled, LoadOK, Load
  PROVE  LoadOK'
<1> DEFINE n == Newest(disk.no, store.data)
           b == [load EXCEPT !.floor = n]
<1>1. /\ DataOK(store, past) /\ load \in LoadType /\ cache \in CacheType
      /\ disk.no \in Numbers /\ store.data \in Numbers /\ cache.no \in Numbers
      /\ Numbers \subseteq Nat
  BY DEF Inv, TypeOK, DiskType, StoreType, CacheType, Numbers
<1>2. n \in Nat /\ n \in Numbers /\ (store.data = 0 => n = disk.no) /\ (store.data # 0 => n = store.data)
  <2>1. store.data # 0 => disk.no < store.data
    BY <1>1 DEF DataOK, Older
  <2>2. disk.no \in Nat /\ store.data \in Nat
    BY <1>1
  <2>3. /\ n \in {disk.no, store.data}
        /\ store.data = 0 => n = disk.no
        /\ store.data # 0 => n = store.data
    BY <2>1, <2>2 DEF Newest
  <2> QED
    BY <1>1, <2>2, <2>3
<1> HIDE DEF n
<1>3. b \in LoadType /\ b.floor = n /\ b.reading = load.reading
  BY <1>1, <1>2 DEF LoadType
<1>4. /\ UNCHANGED <<store, job, disk>> /\ ~load.reading
      /\ \/ store.data # 0 /\ load' = [b EXCEPT !.no = store.data] /\ UNCHANGED cache
         \/ /\ store.data = 0 /\ ~cache.invalidated /\ load' = [b EXCEPT !.no = cache.no]
            /\ cache' = [cache EXCEPT !.preload = IF @ = "stored" THEN "gone" ELSE @]
         \/ store.data = 0 /\ load' = [b EXCEPT !.reading = TRUE] /\ UNCHANGED cache
  BY DEF Load, Fetch, n
<1> HIDE DEF b
<1>5. CASE store.data # 0 /\ load' = [b EXCEPT !.no = store.data] /\ UNCHANGED cache
  <2>1. load'.floor = n /\ load'.no = store.data /\ ~load'.reading
    BY <1>3, <1>4, <1>5 DEF LoadType
  <2> QED
    BY <1>1, <1>2, <1>4, <1>5, <2>1 DEF LoadOK
<1>6. CASE /\ store.data = 0 /\ ~cache.invalidated /\ load' = [b EXCEPT !.no = cache.no]
           /\ cache' = [cache EXCEPT !.preload = IF @ = "stored" THEN "gone" ELSE @]
  <2>1. load'.floor = n /\ load'.no = cache.no /\ ~load'.reading
    BY <1>3, <1>4, <1>6 DEF LoadType
  <2>2. n = 0 /\ cache'.invalidated = cache.invalidated
    BY <1>1, <1>2, <1>6 DEF LoadOK, CacheType
  <2> QED
    BY <1>1, <1>4, <1>6, <2>1, <2>2 DEF LoadOK
<1>7. CASE store.data = 0 /\ load' = [b EXCEPT !.reading = TRUE] /\ UNCHANGED cache
  <2>1. load'.floor = n /\ load'.reading
    BY <1>3, <1>7 DEF LoadType
  <2> QED
    BY <1>1, <1>2, <1>4, <1>7, <2>1 DEF LoadOK
<1> QED
  BY <1>4, <1>5, <1>6, <1>7

LEMMA StepLoads == Inv /\ NobodyCancelled /\ LoadOK /\ [Next]_vars => LoadOK'
<1> SUFFICES ASSUME Inv, NobodyCancelled, LoadOK, [Next]_vars PROVE LoadOK'
  OBVIOUS
<1>t. TypeOK /\ threads = {}
  BY DEF Inv
<1>1. ASSUME NEW t \in Tasks, Save(t) \/ Remove(t) \/ Fire(t) \/ FinalWrite(t) \/ Acquire(t)
      PROVE  LoadOK'
  <2>1. UNCHANGED <<disk, load>>
    BY <1>1 DEF Save, Remove, Fire, FinalWrite, Acquire, Called
  <2>2. (\E u, c, s, p : Enter(u, c, s, p)) \/ UNCHANGED <<cache, job>>
    BY <1>1 DEF Save, Remove, Fire, FinalWrite, Acquire, Request
  <2> QED
    BY <1>t, <2>1, <2>2, EnterLoads
<1>2. ASSUME NEW t \in Tasks, WriteFails(t) \/ RemoveFails(t) PROVE LoadOK'
  BY <1>t, <1>2, EnterLoads DEF WriteFails, RemoveFails
<1>3. ASSUME NEW t \in Tasks, Cancel(t) PROVE LoadOK'
  BY <1>3 DEF Cancel, NobodyCancelled
<1>4. ASSUME \/ UNCHANGED vars \/ Tick \/ MakeReadOnly \/ Stop \/ Close
             \/ \E d \in Delays : DelaySave(d) \/ DelayAgain(d)
      PROVE  LoadOK'
  <2>1. UNCHANGED <<disk, load, cache, job>>
    BY <1>4 DEF vars, Tick, MakeReadOnly, Stop, Close, DelaySave, DelayAgain,
                Postpone, Called
  <2> QED
    BY <1>t, <2>1, EnterLoads
<1>5. ASSUME LoadDone PROVE LoadOK'
  <2>1. /\ load.reading /\ load' = [load EXCEPT !.reading = FALSE, !.no = disk.no]
        /\ load \in LoadType /\ UNCHANGED <<cache, job, disk>>
    BY <1>t, <1>5 DEF LoadDone, TypeOK
  <2>2. ~load'.reading /\ load'.no = disk.no /\ load'.floor = load.floor
    BY <2>1 DEF LoadType
  <2> QED
    BY <2>1, <2>2 DEF LoadOK
<1>6. ASSUME ListFiles \/ PreloadRead \/ PreloadStore \/ DropPreload PROVE LoadOK'
  <2>1. cache'.invalidated = cache.invalidated /\ UNCHANGED <<load, job, disk>>
    BY <1>t, <1>6 DEF ListFiles, PreloadRead, PreloadStore, DropPreload, TypeOK, CacheType
  <2> QED
    BY <2>1 DEF LoadOK
<1> QED
  BY <1>t, <1>1, <1>2, <1>3, <1>4, <1>5, <1>6, FileLoads, LoadLoads DEF Next, Work

-----------------------------------------------------------------------------
\* Whatever is called, fails or is cancelled, every variable keeps its type.
THEOREM TypeCorrect == Spec => []TypeOK
BY InitInv, StepInv, PTL DEF Spec, Inv

\* A task is busy with the store exactly if it owns _write_lock or is queued for
\* it, and only the owner has a job in the executor, also when tasks are
\* cancelled at either await.
THEOREM MutualExclusion == Spec => []LockOK
BY InitInv, StepInv, PTL DEF Spec, Inv

\* While no caller is cancelled, a write of _async_handle_write_data never
\* replaces newer data with older.
THEOREM FileMovesOn ==
  ASSUME NobodyCancelled
  PROVE  Spec => NoOldWrite
<1>1. Inv /\ [Next]_vars => [disk' # disk /\ disk'.file => disk'.no > disk.no]_vars
  BY FileMoves
<1> QED
  BY <1>1, InitInv, StepInv, PTL DEF Spec, NoOldWrite

\* While no caller is cancelled, the file that async_remove deleted comes back
\* only with data saved after the removal was called.
THEOREM RemovalIsFinal ==
  ASSUME NobodyCancelled
  PROVE  Spec => []RemovedStaysRemoved
<1>1. Inv => RemovedStaysRemoved
  <2> SUFFICES ASSUME Inv
               PROVE  RemovedStaysRemoved
    OBVIOUS
  <2>1. disk.no \in Nat /\ past.removed \in Nat
    BY DEF Inv, TypeOK, DiskType, PastType, Numbers
  <2> QED
    BY <2>1 DEF Inv, DataOK, RemovedStaysRemoved
<1> QED
  BY <1>1, InitInv, StepInv, PTL DEF Spec

\* The timer of async_delay_save starts a write only when the last delayed save
\* is due, however often the delay was extended or shortened before.
THEOREM TimerWaits == Spec => NotBeforeDue
<1>1. Init => Inv /\ TimerOK
  BY InitInv DEF Init, TimerOK
<1> QED
  BY <1>1, StepInv, StepTimer, PTL DEF Spec, NotBeforeDue

\* While no caller is cancelled, async_load never returns less than what was on
\* disk or pending when it began, unless that has been removed since.
THEOREM LoadsAreFresh ==
  ASSUME NobodyCancelled
  PROVE  Spec => []LoadNotOlder
<1>1. Init => Inv /\ LoadOK
  BY InitInv, IdleTypes DEF Init, LoadOK
<1>2. LoadOK => LoadNotOlder
  BY DEF LoadOK, LoadNotOlder
<1>3. Inv /\ LoadOK /\ [Next]_vars => LoadOK'
  BY StepLoads
<1> QED
  BY <1>1, <1>2, <1>3, StepInv, PTL DEF Spec
=============================================================================
