--------------------------- MODULE StoreDurability ---------------------------
(***************************************************************************)
(* Proofs that Store loses nothing, for any set of tasks and any of its    *)
(* constants, as long as nothing is removed and nobody is cancelled.       *)
(*                                                                         *)
(* Data with number n is kept if it or newer data is on disk, was dropped  *)
(* with an error, or is being written.  The invariant says who takes care  *)
(* of pending data that is not kept yet: a timer, the final-write listener *)
(* or a writer that is queued for the lock.                                *)
(***************************************************************************)
EXTENDS StoreProofs

Undisturbed == Ops \cap {"remove", "cancel"} = {}

Kept(n, d, lost, jobs) ==
  \/ d.no >= n
  \/ lost >= n
  \/ \E t \in Tasks : jobs[t].kind = "write" /\ jobs[t].no >= n

KeptNow(n) == Kept(n, disk, past.lost, job)

OnlyWriters == \A t \in Tasks : call[t].kind # "remove" /\ job[t].kind # "remove"

Bounds == past.lost <= past.asked /\ past.final <= past.asked

\* A timer that has fired left a writer or a listener behind, and a delayed save
\* listens for the final write.
TimersOK ==
  /\ store.handle = "fired" =>
       waiters # <<>> \/ (store.listening /\ stage = "stopping")
  /\ store.handle = "armed" /\ stage \in {"running", "stopping"} => store.listening

Someone ==
  \/ store.handle = "armed"
  \/ store.listening /\ stage \in {"running", "stopping"}
  \/ waiters # <<>>

NewestKept ==
  KeptNow(past.asked) \/ (store.data = past.asked /\ (Someone \/ stage = "closed"))

\* The data of a caller of async_save is kept, or still pending while it waits.
SavesKept ==
  \A t \in Tasks :
    call[t].kind = "save" =>
      KeptNow(call[t].no) \/ (owner # t /\ store.data >= call[t].no)

FinalKept ==
  stage \in {"final_write", "closed"} =>
    KeptNow(past.final) \/ (store.data >= past.final /\ waiters # <<>>)

ClosedIsQuiet == stage = "closed" => owner = NoTask /\ waiters = <<>>

Durable ==
  /\ OnlyWriters /\ Bounds /\ TimersOK
  /\ NewestKept /\ SavesKept /\ FinalKept /\ ClosedIsQuiet

\* Nothing that is kept is lost again.
Grows == \A n \in Nat : KeptNow(n) => Kept(n, disk', past'.lost, job')

-----------------------------------------------------------------------------
LEMMA NatNumbers ==
  ASSUME TypeOK
  PROVE  /\ disk.no \in Nat /\ store.data \in Nat
         /\ past.asked \in Nat /\ past.lost \in Nat /\ past.final \in Nat
         /\ \A t \in Tasks : job[t].no \in Nat /\ call[t].no \in Nat
BY DEF TypeOK, DiskType, StoreType, PastType, JobType, CallType, Numbers

(***************************************************************************)
(* A writer gets the lock                                                  *)
(***************************************************************************)
\* s and p are a store and a history of which everything is kept or pending,
\* when the stage is g.
Ready(s, p, g) ==
  /\ s.data \in {0, p.asked}
  /\ p.lost = past.lost /\ p.lost <= p.asked /\ p.final <= p.asked
  /\ KeptNow(p.asked) \/ s.data = p.asked
  /\ \A t \in Tasks :
       call[t].kind = "save" =>
         KeptNow(call[t].no) \/ (owner # t /\ s.data >= call[t].no)
  /\ g \in {"final_write", "closed"} => KeptNow(p.final) \/ s.data >= p.final
  /\ s.handle = "armed" /\ g \in {"running", "stopping"} => s.listening
  /\ g # "closed"

\* It takes all that is pending: what is written or dropped as read-only is kept.
LEMMA WriteTakes ==
  ASSUME TypeOK, LockOK, owner = NoTask, disk' = disk,
         NEW t \in Tasks, NEW c \in CallType, NEW s \in StoreType,
         NEW p \in PastType, p.lost = past.lost, p.lost <= p.asked,
         s.data \in {0, p.asked}, Write(t, c, s, p)
  PROVE  /\ Grows
         /\ \A n \in Nat : n <= s.data => Kept(n, disk', past'.lost, job')
         /\ store'.data = 0 /\ store'.handle = "none"
         /\ past'.asked = p.asked /\ past'.final = p.final
         /\ past'.lost <= past'.asked
         /\ owner' \in {t, NoTask}
         /\ \A u \in Tasks \ {t} : call'[u] = call[u] /\ job'[u] = job[u]
         /\ call'[t] \in {c, Idle} /\ job'[t].kind # "remove"
<1>1. /\ call \in [Tasks -> CallType] /\ job \in [Tasks -> JobType]
      /\ \A u \in Tasks : job[u].kind = "none"
      /\ disk.no \in Nat /\ s.data \in Nat /\ past.lost \in Nat /\ p.asked \in Nat
  <2>1. \A u \in Tasks : job[u].kind = "none"
    BY StoreAssumption DEF LockOK
  <2>2. s.data \in Nat /\ p.asked \in Nat
    BY DEF StoreType, PastType, Numbers
  <2> QED
    BY <2>1, <2>2, NatNumbers DEF TypeOK
<1>2. store'.data = 0 /\ store'.handle = "none"
  <2>1. CleanUp(s) \in StoreType /\ CleanUp(s).handle = "none"
    BY CleanUpType DEF CleanUp, StoreType
  <2> QED
    BY <2>1 DEF Write, StoreType
<1>3. /\ past'.asked = p.asked /\ past'.final = p.final
      /\ past'.lost \in {p.lost, s.data} /\ past'.lost <= past'.asked
      /\ past'.lost >= past.lost
  <2>1. CASE past' = p
    BY <1>1, <2>1
  <2>2. CASE past' = [p EXCEPT !.lost = s.data] /\ s.data # 0
    <3>1. past'.asked = p.asked /\ past'.final = p.final /\ past'.lost = s.data
      BY <2>2 DEF PastType
    <3> QED
      BY <1>1, <2>2, <3>1
  <2> QED
    BY <2>1, <2>2 DEF Write
<1>4. CASE /\ Return(t)
           /\ s.data = 0 \/ past'.lost = s.data
  <2>1. /\ \A u \in Tasks \ {t} : call'[u] = call[u] /\ job'[u] = job[u]
        /\ call'[t] = Idle /\ job'[t].kind = "none" /\ owner' = NoTask
    BY <1>1, <1>4, IdleTypes DEF Return
  <2>2. Grows
    BY <1>1, <1>3 DEF Grows, KeptNow, Kept
  <2>3. \A n \in Nat : n <= s.data => Kept(n, disk', past'.lost, job')
    BY <1>1, <1>4 DEF Kept
  <2> QED
    BY <1>2, <1>3, <2>1, <2>2, <2>3
<1>5. CASE Await(t, c, [kind |-> "write", no |-> s.data])
  <2>1. /\ \A u \in Tasks \ {t} : call'[u] = call[u] /\ job'[u] = job[u]
        /\ call'[t] = c /\ owner' = t
        /\ job'[t].kind = "write" /\ job'[t].no = s.data
    BY <1>1, <1>5 DEF Await
  <2>2. Grows
    BY <1>1, <1>3 DEF Grows, KeptNow, Kept
  <2>3. \A n \in Nat : n <= s.data => Kept(n, disk', past'.lost, job')
    BY <2>1 DEF Kept
  <2> QED
    BY <1>2, <1>3, <2>1, <2>2, <2>3
<1>6. \/ Return(t) /\ (s.data = 0 \/ past'.lost = s.data)
      \/ Await(t, c, [kind |-> "write", no |-> s.data])
  BY DEF Write, PastType
<1> QED
  BY <1>4, <1>5, <1>6

LEMMA EnterDurable ==
  ASSUME TypeOK, LockOK, OnlyWriters, owner = NoTask, disk' = disk,
         NEW t \in Tasks, NEW c \in CallType, NEW s \in StoreType,
         NEW p \in PastType, c.kind # "remove",
         c.kind = "save" => KeptNow(c.no) \/ s.data >= c.no,
         Ready(s, p, stage'), Enter(t, c, s, p)
  PROVE  Durable'
<1>1. Write(t, c, s, p)
  BY DEF Enter
<1>2. /\ Grows
      /\ \A n \in Nat : n <= s.data => Kept(n, disk', past'.lost, job')
      /\ store'.data = 0 /\ store'.handle = "none"
      /\ past'.asked = p.asked /\ past'.final = p.final
      /\ past'.lost <= past'.asked
      /\ owner' \in {t, NoTask}
      /\ \A u \in Tasks \ {t} : call'[u] = call[u] /\ job'[u] = job[u]
      /\ call'[t] \in {c, Idle} /\ job'[t].kind # "remove"
  BY <1>1, WriteTakes DEF Ready
<1>3. /\ s.data \in Nat /\ p.asked \in Nat /\ p.final \in Nat /\ c.no \in Nat
      /\ \A u \in Tasks : call[u].no \in Nat
  BY NatNumbers DEF StoreType, PastType, CallType, Numbers
<1>4. ASSUME NEW n \in Nat, KeptNow(n) \/ s.data >= n
      PROVE  Kept(n, disk', past'.lost, job')
  BY <1>2, <1>3, <1>4 DEF Grows
<1>5. OnlyWriters'
  BY <1>2, IdleTypes DEF OnlyWriters
<1>6. Bounds' /\ TimersOK' /\ ClosedIsQuiet'
  BY <1>2 DEF Bounds, TimersOK, ClosedIsQuiet, Ready
<1>7. NewestKept'
  <2>1. KeptNow(p.asked) \/ s.data >= p.asked
    BY <1>3 DEF Ready
  <2>2. Kept(past'.asked, disk', past'.lost, job')
    BY <1>2, <1>3, <1>4, <2>1
  <2> QED
    BY <2>2 DEF NewestKept, KeptNow
<1>8. SavesKept'
  <2> SUFFICES ASSUME NEW u \in Tasks, call'[u].kind = "save"
               PROVE  Kept(call'[u].no, disk', past'.lost, job')
    BY DEF SavesKept, KeptNow
  <2>1. CASE u = t
    BY <1>2, <1>3, <1>4, <2>1, IdleTypes
  <2>2. CASE u # t
    <3>1. KeptNow(call[u].no) \/ s.data >= call[u].no
      BY <1>2, <2>2 DEF Ready
    <3> QED
      BY <1>2, <1>3, <1>4, <2>2, <3>1
  <2> QED
    BY <2>1, <2>2
<1>9. FinalKept'
  <2> SUFFICES ASSUME stage' \in {"final_write", "closed"}
               PROVE  Kept(past'.final, disk', past'.lost, job')
    BY DEF FinalKept, KeptNow
  <2>1. KeptNow(p.final) \/ s.data >= p.final
    BY DEF Ready
  <2> QED
    BY <1>2, <1>3, <1>4, <2>1
<1> QED
  BY <1>5, <1>6, <1>7, <1>8, <1>9 DEF Durable

LEMMA RequestDurable ==
  ASSUME Inv, Durable, disk' = disk,
         NEW t \in Tasks, NEW c \in CallType, NEW s \in StoreType,
         NEW p \in PastType, c.kind # "remove",
         c.kind = "save" => s.data >= c.no,
         Ready(s, p, stage'), Request(t, c, s, p)
  PROVE  Durable'
<1>1. /\ TypeOK /\ LockOK /\ OnlyWriters /\ call[t].kind = "none"
      /\ owner # t
  BY IdleTypes DEF Inv, Durable, Request, LockOK
<1>2. CASE owner = NoTask /\ Enter(t, c, s, p)
  BY <1>1, <1>2, EnterDurable
<1>3. CASE /\ waiters' = Append(waiters, t)
           /\ call' = [call EXCEPT ![t] = c]
           /\ store' = s /\ past' = p
           /\ UNCHANGED <<owner, job>>
  <2>1. waiters' # <<>>
    BY <1>1, <1>3 DEF TypeOK
  <2>2. call'[t] = c /\ \A u \in Tasks \ {t} : call'[u] = call[u]
    BY <1>1, <1>3 DEF TypeOK
  <2>3. \A n : KeptNow(n) <=> Kept(n, disk', past'.lost, job')
    BY <1>3 DEF KeptNow, Ready
  <2>4. OnlyWriters'
    BY <1>1, <1>3, <2>2 DEF OnlyWriters
  <2>5. Bounds' /\ TimersOK' /\ ClosedIsQuiet'
    BY <1>3, <2>1 DEF Bounds, TimersOK, ClosedIsQuiet, Ready
  <2>6. NewestKept'
    BY <1>3, <2>1, <2>3 DEF NewestKept, KeptNow, Someone, Ready
  <2>7. SavesKept'
    <3> SUFFICES ASSUME NEW u \in Tasks, call'[u].kind = "save"
                 PROVE  \/ Kept(call'[u].no, disk', past'.lost, job')
                        \/ owner' # u /\ store'.data >= call'[u].no
      BY DEF SavesKept, KeptNow
    <3>1. CASE u = t
      BY <1>1, <1>3, <2>2, <3>1
    <3>2. CASE u # t
      BY <1>3, <2>2, <2>3, <3>2 DEF Ready
    <3> QED
      BY <3>1, <3>2
  <2>8. FinalKept'
    BY <1>3, <2>1, <2>3 DEF FinalKept, KeptNow, Ready
  <2> QED
    BY <2>4, <2>5, <2>6, <2>7, <2>8 DEF Durable
<1> QED
  BY <1>2, <1>3 DEF Request

\* What Durable says of the store is what a writer needs to know of it.
LEMMA DurableReady ==
  ASSUME Inv, Durable, NobodyCancelled, stage # "closed"
  PROVE  Ready(store, past, stage)
BY NatNumbers DEF Inv, Durable, Ready, DataOK, Bounds, TimersOK, NewestKept,
                  SavesKept, FinalKept

LEMMA AcquireDurable ==
  ASSUME Inv, Durable, NobodyCancelled, NEW t \in Tasks, Acquire(t)
  PROVE  Durable'
<1>1. /\ TypeOK /\ LockOK /\ OnlyWriters /\ owner = NoTask
      /\ disk' = disk /\ stage' = stage /\ stage # "closed"
      /\ Enter(t, call[t], store, past)
  BY DEF Inv, Durable, Acquire
<1>2. /\ store \in StoreType /\ past \in PastType /\ call[t] \in CallType
      /\ call[t].kind # "remove"
  BY <1>1 DEF TypeOK, OnlyWriters
<1>3. Ready(store, past, stage')
  BY <1>1, DurableReady
<1>4. call[t].kind = "save" => KeptNow(call[t].no) \/ store.data >= call[t].no
  BY DEF Durable, SavesKept
<1> QED
  BY <1>1, <1>2, <1>3, <1>4, EnterDurable

(***************************************************************************)
(* A writer is done                                                        *)
(***************************************************************************)
LEMMA ReturnDurable ==
  ASSUME Inv, Durable, NEW t \in Tasks, owner = t, Return(t), Grows,
         UNCHANGED <<store, waiters, stage>>, stage # "closed",
         past'.asked = past.asked, past'.final = past.final,
         past'.lost <= past.asked
  PROVE  Durable'
<1>1. /\ TypeOK /\ NoTask \notin Tasks
      /\ call \in [Tasks -> CallType] /\ job \in [Tasks -> JobType]
  BY StoreAssumption DEF Inv, TypeOK
<1>2. /\ owner' = NoTask /\ call'[t].kind = "none" /\ job'[t].kind = "none"
      /\ \A u \in Tasks \ {t} : call'[u] = call[u] /\ job'[u] = job[u]
  BY <1>1, IdleTypes DEF Return
<1>3. /\ past.asked \in Nat /\ past.final \in Nat
      /\ \A u \in Tasks : call[u].no \in Nat
  BY <1>1, NatNumbers
<1>4. OnlyWriters' /\ Bounds' /\ TimersOK' /\ ClosedIsQuiet'
  BY <1>2 DEF Durable, OnlyWriters, Bounds, TimersOK, ClosedIsQuiet
<1>5. NewestKept'
  BY <1>3 DEF Durable, NewestKept, Someone, Grows, KeptNow
<1>6. SavesKept'
  <2> SUFFICES ASSUME NEW u \in Tasks, call'[u].kind = "save"
               PROVE  \/ Kept(call'[u].no, disk', past'.lost, job')
                      \/ owner' # u /\ store'.data >= call'[u].no
    BY DEF SavesKept, KeptNow
  <2>1. u # t /\ call'[u] = call[u]
    BY <1>2
  <2>2. KeptNow(call[u].no) \/ store.data >= call[u].no
    BY <2>1 DEF Durable, SavesKept
  <2> QED
    BY <1>1, <1>2, <1>3, <2>1, <2>2 DEF Grows
<1>7. FinalKept'
  BY <1>3 DEF Durable, FinalKept, Grows, KeptNow
<1> QED
  BY <1>4, <1>5, <1>6, <1>7 DEF Durable

LEMMA WriteDoneGrows ==
  ASSUME Inv, NobodyCancelled, NEW t \in Tasks, WriteDone(t)
  PROVE  Grows
<1>1. /\ TypeOK /\ LockOK /\ owner = t /\ job[t].kind = "write"
      /\ job[t] \in JobType /\ disk' = Effect(job[t]) /\ past' = past
  BY WorkerOwns DEF Inv, WriteDone
<1>2. disk'.no = job[t].no /\ disk.no < job[t].no
  BY <1>1, EffectType DEF Inv, DataOK
<1>3. disk.no \in Nat /\ \A u \in Tasks : job[u].no \in Nat
  BY <1>1, NatNumbers
<1> SUFFICES ASSUME NEW n \in Nat, KeptNow(n)
             PROVE  disk'.no >= n \/ past'.lost >= n
  BY DEF Grows, Kept
<1>4. CASE disk.no >= n \/ past.lost >= n
  BY <1>1, <1>2, <1>3, <1>4
<1>5. ASSUME NEW u \in Tasks, job[u].kind = "write", job[u].no >= n
      PROVE  disk'.no >= n
  BY <1>1, <1>2, <1>5 DEF LockOK
<1> QED
  BY <1>4, <1>5 DEF KeptNow, Kept

LEMMA WriteDoneDurable ==
  ASSUME Inv, Durable, NobodyCancelled, NEW t \in Tasks, WriteDone(t)
  PROVE  Durable'
<1>1. /\ owner = t /\ Return(t) /\ stage # "closed"
      /\ UNCHANGED <<store, waiters, stage, past>>
  BY WorkerOwns DEF WriteDone
<1> QED
  BY <1>1, WriteDoneGrows, ReturnDurable DEF Durable, Bounds

LEMMA FailureKept ==
  ASSUME Inv, NEW t \in Tasks, WriteFails(t)
  PROVE  /\ past'.asked = past.asked /\ past'.final = past.final
         /\ past'.lost >= past.lost /\ past'.lost >= job[t].no
         /\ past'.lost \in {past.lost, job[t].no}
<1>1. /\ past \in PastType /\ past.lost \in Nat /\ job[t].no \in Nat
      /\ past' = [past EXCEPT !.lost = Newest(@, job[t].no)]
  BY NatNumbers DEF Inv, TypeOK, WriteFails
<1>2. /\ past'.asked = past.asked /\ past'.final = past.final
      /\ past'.lost = Newest(past.lost, job[t].no)
  BY <1>1 DEF PastType
<1> QED
  BY <1>1, <1>2 DEF Newest

LEMMA WriteFailsGrows ==
  ASSUME Inv, NEW t \in Tasks, WriteFails(t)
  PROVE  Grows
<1>1. LockOK /\ owner = t /\ disk' = disk
  BY WorkerOwns DEF Inv, WriteFails
<1>2. /\ past.lost \in Nat /\ past'.lost \in Nat
      /\ \A u \in Tasks : job[u].no \in Nat
      /\ past'.lost >= past.lost /\ past'.lost >= job[t].no
  BY NatNumbers, FailureKept DEF Inv
<1> SUFFICES ASSUME NEW n \in Nat, KeptNow(n)
             PROVE  disk'.no >= n \/ past'.lost >= n
  BY DEF Grows, Kept
<1>3. CASE disk.no >= n \/ past.lost >= n
  BY <1>1, <1>2, <1>3
<1>4. ASSUME NEW u \in Tasks, job[u].kind = "write", job[u].no >= n
      PROVE  past'.lost >= n
  BY <1>1, <1>2, <1>4 DEF LockOK
<1> QED
  BY <1>3, <1>4 DEF KeptNow, Kept

LEMMA WriteFailsDurable ==
  ASSUME Inv, Durable, NobodyCancelled, NEW t \in Tasks, WriteFails(t)
  PROVE  Durable'
<1>1. /\ owner = t /\ Return(t) /\ stage # "closed"
      /\ UNCHANGED <<store, waiters, stage>>
  BY WorkerOwns DEF WriteFails
<1>2. past'.lost <= past.asked
  <2>1. job[t].no <= past.asked /\ past.lost <= past.asked
    BY DEF Inv, DataOK, Older, Durable, Bounds
  <2> QED
    BY <2>1, FailureKept
<1> QED
  BY <1>1, <1>2, FailureKept, WriteFailsGrows, ReturnDurable

(***************************************************************************)
(* Steps that leave the lock and the file alone                            *)
(***************************************************************************)
\* New data is pending, and somebody takes care of it.
LEMMA NewDataDurable ==
  ASSUME Inv, Durable, NobodyCancelled,
         UNCHANGED <<lock, call, job, disk, stage>>, stage # "closed",
         past'.asked = past.asked + 1, store'.data = past'.asked,
         past'.lost = past.lost, past'.final = past.final,
         TimersOK', Someone'
  PROVE  Durable'
<1>1. /\ past.asked \in Nat /\ past.lost \in Nat /\ past.final \in Nat
      /\ store.data \in Nat /\ \A u \in Tasks : call[u].no \in Nat
  BY NatNumbers DEF Inv
<1>2. store.data <= past.asked /\ past.lost <= past.asked /\ past.final <= past.asked
  BY <1>1 DEF Inv, DataOK, Durable, Bounds
<1>3. UNCHANGED <<owner, waiters, call, job, disk, stage>>
  BY DEF lock
<1>4. OnlyWriters' /\ Bounds' /\ ClosedIsQuiet'
  BY <1>1, <1>2, <1>3 DEF Durable, OnlyWriters, Bounds, ClosedIsQuiet
<1>5. NewestKept'
  BY DEF NewestKept
<1>6. SavesKept' /\ FinalKept'
  BY <1>1, <1>2, <1>3 DEF Durable, SavesKept, FinalKept, KeptNow
<1> QED
  BY <1>4, <1>5, <1>6 DEF Durable

\* Nothing is saved or written.
LEMMA SameDataDurable ==
  ASSUME Inv, Durable, UNCHANGED <<lock, call, job, disk, stage>>,
         store'.data = store.data,
         past'.asked = past.asked, past'.lost = past.lost, past'.final = past.final,
         TimersOK', Someone => Someone'
  PROVE  Durable'
<1>1. UNCHANGED <<owner, waiters, call, job, disk, stage>>
  BY DEF lock
<1>2. OnlyWriters' /\ Bounds' /\ ClosedIsQuiet'
  BY <1>1 DEF Durable, OnlyWriters, Bounds, ClosedIsQuiet
<1>3. NewestKept' /\ SavesKept' /\ FinalKept'
  BY <1>1 DEF Durable, NewestKept, SavesKept, FinalKept, KeptNow
<1> QED
  BY <1>2, <1>3 DEF Durable

LEMMA SaveDurable ==
  ASSUME Inv, Durable, NobodyCancelled, NEW t \in Tasks, Save(t)
  PROVE  Durable'
<1> DEFINE s == [store EXCEPT !.data = NewNo]
           c == [kind |-> "save", no |-> NewNo]
<1>1. /\ TypeOK /\ past.asked < MaxCalls /\ stage # "closed"
      /\ UNCHANGED <<disk, stage>>
      /\ store \in StoreType /\ past \in PastType
  BY DEF Inv, TypeOK, Save, Called
<1>2. /\ NewNo \in Numbers /\ NewNo = past.asked + 1 /\ Asked \in PastType
      /\ Asked.asked = NewNo /\ Asked.lost = past.lost /\ Asked.final = past.final
  BY <1>1, AskedType DEF Asked, PastType
<1>3. /\ s \in StoreType /\ s.data = NewNo /\ s.handle = store.handle
      /\ s.listening = store.listening
  BY <1>1, <1>2 DEF StoreType
<1>4. c \in CallType /\ c.kind = "save" /\ c.no = NewNo
  BY <1>2 DEF CallType
<1> HIDE DEF s, c
<1>5. CASE /\ stage = "stopping" /\ store' = EnsureFinalWrite(s) /\ past' = Asked
           /\ UNCHANGED <<cache, lock, call, job>>
  <2>1. store'.data = NewNo /\ store'.listening
    BY <1>3, <1>5 DEF EnsureFinalWrite, StoreType
  <2>2. TimersOK' /\ Someone'
    BY <1>1, <1>5, <2>1 DEF TimersOK, Someone
  <2> QED
    BY <1>1, <1>2, <1>5, <2>1, <2>2, NewDataDurable
<1>6. CASE Request(t, c, s, Asked)
  <2>1. /\ past.asked \in Nat /\ past.lost <= past.asked /\ past.final <= past.asked
        /\ past.lost \in Nat /\ past.final \in Nat
        /\ store.data \in Nat /\ store.data <= past.asked
        /\ \A u \in Tasks : call[u].no \in Nat
    BY <1>1, NatNumbers DEF Inv, DataOK, Durable, Bounds
  <2>2. \A u \in Tasks :
          call[u].kind = "save" =>
            KeptNow(call[u].no) \/ (owner # u /\ s.data >= call[u].no)
    BY <1>2, <1>3, <2>1 DEF Durable, SavesKept
  <2>3. Ready(s, Asked, stage')
    BY <1>1, <1>2, <1>3, <2>1, <2>2 DEF Ready, Durable, TimersOK
  <2>4. s.data >= c.no
    BY <1>2, <1>3, <1>4, <2>1
  <2> QED
    BY <1>1, <1>2, <1>3, <1>4, <1>6, <2>3, <2>4, RequestDurable
<1> QED
  BY <1>5, <1>6 DEF Save, s, c

\* Pending data has a timer or a listener after a delayed save.
LEMMA PostponedTimers ==
  ASSUME Durable, NEW d \in Delays, NEW s \in StoreType, NEW p \in PastType,
         s.handle = store.handle, s.listening = store.listening,
         stage' = stage, stage # "closed", Postpone(d, s, p)
  PROVE  TimersOK' /\ Someone'
<1>1. UNCHANGED <<owner, waiters, stage>>
  BY DEF Postpone, lock
<1>2. CASE /\ DueBefore(d) /\ store'.handle = store.handle
           /\ store'.listening = s.listening
  <2>1. store.handle \in {"armed", "fired"}
    BY <1>2 DEF DueBefore
  <2> QED
    BY <1>1, <1>2, <2>1 DEF Durable, TimersOK, Someone
<1>3. CASE stage = "stopping" /\ store'.handle = "none" /\ store'.listening
  BY <1>1, <1>3 DEF TimersOK, Someone
<1>4. CASE store'.handle = "armed" /\ store'.listening
  BY <1>4 DEF TimersOK, Someone
<1> QED
  BY <1>2, <1>3, <1>4, Postponed

LEMMA DelaySaveDurable ==
  ASSUME Inv, Durable, NobodyCancelled, NEW d \in Delays, DelaySave(d)
  PROVE  Durable'
<1> DEFINE s == [store EXCEPT !.data = NewNo]
<1>1. /\ TypeOK /\ past.asked < MaxCalls /\ stage # "closed"
      /\ UNCHANGED <<disk, stage>> /\ Postpone(d, s, Asked)
      /\ store \in StoreType /\ past \in PastType
  BY DEF Inv, TypeOK, DelaySave, Called
<1>2. NewNo \in Numbers /\ NewNo = past.asked + 1 /\ Asked \in PastType
  BY <1>1, AskedType
<1>3. Asked.asked = NewNo /\ Asked.lost = past.lost /\ Asked.final = past.final
  BY <1>1 DEF Asked, PastType
<1>4. /\ s \in StoreType /\ s.data = NewNo /\ s.handle = store.handle
      /\ s.listening = store.listening
  BY <1>1, <1>2 DEF StoreType
<1> HIDE DEF s
<1>5. /\ store'.data = NewNo /\ past'.asked = NewNo
      /\ past'.lost = past.lost /\ past'.final = past.final
      /\ UNCHANGED <<lock, call, job>>
  BY <1>1, <1>2, <1>3, <1>4, Postponed
<1>6. TimersOK' /\ Someone'
  BY <1>1, <1>2, <1>4, PostponedTimers
<1> QED
  BY <1>1, <1>2, <1>5, <1>6, NewDataDurable

LEMMA DelayAgainDurable ==
  ASSUME Inv, Durable, NEW d \in Delays, DelayAgain(d)
  PROVE  Durable'
<1>1. /\ stage # "closed" /\ UNCHANGED <<disk, stage>>
      /\ Postpone(d, store, past) /\ store \in StoreType /\ past \in PastType
  BY DEF Inv, TypeOK, DelayAgain
<1>2. /\ store'.data = store.data /\ past'.asked = past.asked
      /\ past'.lost = past.lost /\ past'.final = past.final
      /\ UNCHANGED <<lock, call, job>>
  BY <1>1, Postponed
<1>3. TimersOK' /\ Someone'
  BY <1>1, PostponedTimers
<1> QED
  BY <1>1, <1>2, <1>3, SameDataDurable

LEMMA FireDurable ==
  ASSUME Inv, Durable, NobodyCancelled, NEW t \in Tasks, Fire(t)
  PROVE  Durable'
<1> DEFINE f == [store EXCEPT !.handle = "fired"]
           c == [kind |-> "delayed", no |-> 0]
<1>1. /\ TypeOK /\ stage # "closed" /\ UNCHANGED <<disk, stage>>
      /\ store \in StoreType /\ past \in PastType /\ store.handle = "armed"
  BY DEF Inv, Fire, TypeOK
<1>2. /\ f \in StoreType /\ f.data = store.data /\ f.handle = "fired"
      /\ f.listening = store.listening
  BY <1>1 DEF StoreType
<1>3. c \in CallType /\ c.kind = "delayed"
  BY IdleTypes DEF CallType
<1> HIDE DEF f, c
<1>4. CASE store' = Reschedule(store, store.next) /\ UNCHANGED <<cache, lock, call, job, past>>
  <2>1. /\ store'.data = store.data /\ store'.handle = "armed"
        /\ store'.listening = store.listening
    BY <1>1, <1>4 DEF Reschedule, StoreType
  <2>2. TimersOK' /\ Someone'
    BY <1>1, <2>1 DEF Durable, TimersOK, Someone
  <2> QED
    BY <1>1, <1>4, <2>1, <2>2, SameDataDurable
<1>5. CASE /\ stage = "stopping" /\ store' = EnsureFinalWrite(f)
           /\ UNCHANGED <<cache, lock, call, job, past>>
  <2>1. store'.data = store.data /\ store'.handle = "fired" /\ store'.listening
    BY <1>2, <1>5 DEF EnsureFinalWrite, StoreType
  <2>2. TimersOK' /\ Someone'
    BY <1>1, <1>5, <2>1 DEF TimersOK, Someone
  <2> QED
    BY <1>1, <1>5, <2>1, <2>2, SameDataDurable
<1>6. CASE Request(t, c, f, past)
  <2>1. Ready(f, past, stage')
    BY <1>1, <1>2, DurableReady DEF Ready
  <2> QED
    BY <1>1, <1>2, <1>3, <1>6, <2>1, RequestDurable
<1> QED
  BY <1>4, <1>5, <1>6 DEF Fire, f, c

LEMMA FinalWriteDurable ==
  ASSUME Inv, Durable, NobodyCancelled, NEW t \in Tasks, FinalWrite(t)
  PROVE  Durable'
<1> DEFINE s == [store EXCEPT !.listening = FALSE]
           p == [past EXCEPT !.final = past.asked]
           c == [kind |-> "final", no |-> 0]
<1>1. /\ TypeOK /\ stage = "stopping" /\ stage' = "final_write" /\ disk' = disk
      /\ store \in StoreType /\ past \in PastType
      /\ past.asked \in Nat /\ store.data \in {0, past.asked}
      /\ past.lost <= past.asked
  BY NatNumbers DEF Inv, FinalWrite, TypeOK, DataOK, Durable, Bounds
<1>2. s \in StoreType /\ s.data = store.data /\ s.handle = store.handle
  BY <1>1 DEF StoreType
<1>3. /\ p \in PastType /\ p.asked = past.asked /\ p.lost = past.lost
      /\ p.final = past.asked
  BY <1>1 DEF PastType
<1>4. c \in CallType /\ c.kind = "final"
  BY IdleTypes DEF CallType
<1> HIDE DEF s, p, c
<1>5. KeptNow(past.asked) \/ store.data = past.asked
  BY <1>1 DEF Durable, NewestKept
<1>6. CASE Request(t, c, s, p)
  <2>1. \A u \in Tasks :
          call[u].kind = "save" =>
            KeptNow(call[u].no) \/ (owner # u /\ s.data >= call[u].no)
    BY <1>2 DEF Durable, SavesKept
  <2>2. Ready(s, p, stage')
    BY <1>1, <1>2, <1>3, <1>5, <2>1 DEF Ready
  <2> QED
    BY <1>1, <1>2, <1>3, <1>4, <1>6, <2>2, RequestDurable
<1>7. CASE /\ ~store.listening /\ past' = p
           /\ UNCHANGED <<store, cache, lock, call, job>>
  <2>1. UNCHANGED <<owner, waiters, call, job, disk, store>>
    BY <1>1, <1>7 DEF lock
  <2>2. store.handle # "armed" /\ (store.handle = "fired" => waiters # <<>>)
    BY <1>1, <1>7 DEF Durable, TimersOK
  <2>3. KeptNow(past.asked) \/ (store.data = past.asked /\ waiters # <<>>)
    BY <1>1, <1>7, <2>2 DEF Durable, NewestKept, Someone
  <2>4. OnlyWriters' /\ Bounds' /\ TimersOK' /\ ClosedIsQuiet'
    BY <1>1, <1>3, <1>7, <2>1, <2>2
       DEF Durable, OnlyWriters, Bounds, TimersOK, ClosedIsQuiet
  <2>5. NewestKept' /\ FinalKept'
    BY <1>1, <1>3, <1>7, <2>1, <2>3 DEF NewestKept, FinalKept, KeptNow, Someone
  <2>6. SavesKept'
    BY <1>3, <1>7, <2>1 DEF Durable, SavesKept, KeptNow
  <2> QED
    BY <2>4, <2>5, <2>6 DEF Durable
<1> QED
  BY <1>6, <1>7 DEF FinalWrite, s, p, c

LEMMA StopDurable ==
  ASSUME Inv, Durable, Stop
  PROVE  Durable'
<1>1. /\ stage = "running" /\ stage' = "stopping"
      /\ UNCHANGED <<store, owner, waiters, call, job, disk, past>>
  BY DEF Stop, lock
<1>2. OnlyWriters' /\ Bounds' /\ TimersOK' /\ ClosedIsQuiet'
  BY <1>1 DEF Durable, OnlyWriters, Bounds, TimersOK, ClosedIsQuiet
<1>3. NewestKept' /\ SavesKept' /\ FinalKept'
  BY <1>1 DEF Durable, NewestKept, SavesKept, FinalKept, KeptNow, Someone
<1> QED
  BY <1>2, <1>3 DEF Durable

LEMMA CloseDurable ==
  ASSUME Inv, Durable, Close
  PROVE  Durable'
<1>1. /\ stage = "final_write" /\ stage' = "closed"
      /\ owner = NoTask /\ waiters = <<>>
      /\ UNCHANGED <<store, owner, waiters, call, job, disk, past>>
  BY DEF Close, lock
<1>2. OnlyWriters' /\ Bounds' /\ TimersOK' /\ ClosedIsQuiet'
  BY <1>1 DEF Durable, OnlyWriters, Bounds, TimersOK, ClosedIsQuiet
<1>3. NewestKept' /\ SavesKept' /\ FinalKept'
  BY <1>1 DEF Durable, NewestKept, SavesKept, FinalKept, KeptNow, Someone
<1> QED
  BY <1>2, <1>3 DEF Durable

LEMMA QuietDurable ==
  ASSUME Inv, Durable,
         \/ Tick \/ MakeReadOnly \/ Load \/ LoadDone \/ ListFiles
         \/ PreloadRead \/ PreloadStore \/ DropPreload \/ UNCHANGED vars
  PROVE  Durable'
<1>1. store \in StoreType /\ past \in PastType
  BY DEF Inv, TypeOK
<1>2. UNCHANGED <<lock, call, job, disk, stage>>
  BY DEF Tick, MakeReadOnly, Load, LoadDone, ListFiles, PreloadRead,
         PreloadStore, DropPreload, vars
<1>3. /\ store'.data = store.data /\ store'.handle = store.handle
      /\ store'.listening = store.listening
      /\ past'.asked = past.asked /\ past'.lost = past.lost
      /\ past'.final = past.final
  <2>1. CASE Tick
    BY <1>1, <2>1 DEF Tick, StoreType, PastType
  <2>2. CASE MakeReadOnly
    BY <1>1, <2>2 DEF MakeReadOnly, StoreType
  <2>3. CASE UNCHANGED <<store, past>>
    BY <2>3
  <2>4. \/ Tick \/ MakeReadOnly \/ UNCHANGED <<store, past>>
    BY DEF Load, LoadDone, ListFiles, PreloadRead, PreloadStore, DropPreload, vars
  <2> QED
    BY <2>1, <2>2, <2>3, <2>4
<1>4. UNCHANGED <<owner, waiters, stage>>
  BY <1>2 DEF lock
<1>5. TimersOK' /\ (Someone => Someone')
  BY <1>3, <1>4 DEF Durable, TimersOK, Someone
<1> QED
  BY <1>2, <1>3, <1>5, SameDataDurable

(***************************************************************************)
(* A caller of async_save returns                                          *)
(***************************************************************************)
\* Only three steps end a save.
LEMMA SaveEnds ==
  ASSUME Inv, Durable, Undisturbed, Next, NEW t \in Tasks,
         call[t].kind = "save", call'[t] # call[t]
  PROVE  Acquire(t) \/ WriteDone(t) \/ WriteFails(t)
<1>1. call \in [Tasks -> CallType] /\ \A u \in Tasks : job[u].kind # "remove"
  BY DEF Inv, TypeOK, Durable, OnlyWriters
<1>2. ASSUME NEW u \in Tasks, NEW c, NEW s, NEW p, Enter(u, c, s, p)
      PROVE  u = t
  BY <1>1, <1>2 DEF Enter, Write, Await, Return
<1>3. ASSUME NEW u \in Tasks, NEW c, NEW s, NEW p, Request(u, c, s, p)
      PROVE  FALSE
  <2>1. call[u] = Idle /\ u # t
    BY <1>3, IdleTypes DEF Request
  <2>2. call'[t] = call[t]
    BY <1>1, <1>2, <1>3, <2>1 DEF Request
  <2> QED
    BY <2>2
<1>4. ASSUME NEW u \in Tasks, Save(u) \/ Remove(u) \/ Fire(u) \/ Cancel(u) \/ FinalWrite(u)
      PROVE  FALSE
  <2>1. CASE Save(u)
    BY <1>3, <2>1 DEF Save
  <2>2. CASE Fire(u)
    BY <1>3, <2>2 DEF Fire
  <2>3. CASE FinalWrite(u)
    BY <1>3, <2>3 DEF FinalWrite
  <2>4. CASE Remove(u) \/ Cancel(u)
    BY <2>4 DEF Remove, Called, Cancel, Undisturbed
  <2> QED
    BY <1>4, <2>1, <2>2, <2>3, <2>4
<1>5. ASSUME NEW u \in Tasks, Work(u)
      PROVE  Acquire(t) \/ WriteDone(t) \/ WriteFails(t)
  <2>1. CASE Acquire(u)
    BY <1>2, <2>1 DEF Acquire
  <2>2. CASE WriteDone(u) \/ WriteFails(u)
    BY <1>1, <2>2 DEF WriteDone, WriteFails, Return
  <2>3. CASE RemoveDone(u) \/ RemoveFails(u)
    BY <1>1, <2>3 DEF RemoveDone, RemoveFails
  <2> QED
    BY <1>5, <2>1, <2>2, <2>3 DEF Work
<1>6. ASSUME NEW d \in Delays, DelaySave(d) \/ DelayAgain(d)
      PROVE  FALSE
  BY <1>6 DEF DelaySave, DelayAgain, Postpone
<1>7. ASSUME NEW j \in threads, ThreadDone(j)
      PROVE  FALSE
  BY <1>7 DEF ThreadDone
<1>8. ASSUME \/ Tick \/ MakeReadOnly \/ Stop \/ Close \/ Load \/ LoadDone
             \/ ListFiles \/ PreloadRead \/ PreloadStore \/ DropPreload
      PROVE  FALSE
  BY <1>8 DEF Tick, MakeReadOnly, Stop, Close, Load, LoadDone, ListFiles,
              PreloadRead, PreloadStore, DropPreload
<1> QED
  BY <1>4, <1>5, <1>6, <1>7, <1>8 DEF Next

LEMMA SaveEndsKept ==
  ASSUME Inv, Durable, Inv', Undisturbed, Next, NEW t \in Tasks,
         call[t].kind = "save", call'[t] = Idle
  PROVE  disk'.no >= call[t].no \/ past'.lost >= call[t].no
<1> DEFINE n == call[t].no
<1>1. /\ TypeOK /\ LockOK /\ NobodyCancelled /\ n \in Nat
      /\ call \in [Tasks -> CallType] /\ call[t] \in CallType
  BY NatNumbers DEF Inv, TypeOK, Undisturbed, NobodyCancelled
<1>2. Acquire(t) \/ WriteDone(t) \/ WriteFails(t)
  BY SaveEnds, IdleTypes
<1>3. owner' = NoTask
  <2>1. WriteDone(t) \/ WriteFails(t) => owner' = NoTask
    BY DEF WriteDone, WriteFails, Return
  <2>2. ASSUME Acquire(t)
        PROVE  owner' = NoTask
    <3>1. Return(t) \/ owner' = t
      BY <2>2 DEF Acquire, Enter, Write, Await, Return
    <3>2. owner' # t
      <4>1. \/ Return(t)
            \/ \E j : Await(t, call[t], j)
        BY <2>2 DEF Acquire, Enter, Write
      <4>2. ~\E j : Await(t, call[t], j)
        BY <1>1, IdleTypes DEF Await
      <4> QED
        BY <4>1, <4>2, StoreAssumption DEF Return
    <3> QED
      BY <3>1, <3>2 DEF Return
  <2> QED
    BY <1>2, <2>1, <2>2
<1>4. \A u \in Tasks : job'[u].kind = "none"
  BY <1>3, StoreAssumption DEF Inv, LockOK
<1>5. Kept(n, disk', past'.lost, job')
  <2>1. KeptNow(n) \/ (owner # t /\ store.data >= n)
    BY DEF Durable, SavesKept
  <2>2. CASE WriteDone(t) \/ WriteFails(t)
    <3>1. KeptNow(n)
      BY <2>1, <2>2, WorkerOwns DEF WriteDone, WriteFails
    <3> QED
      BY <1>1, <2>2, <3>1, WriteDoneGrows, WriteFailsGrows DEF Grows
  <2>3. CASE Acquire(t)
    <3>1. /\ owner = NoTask /\ disk' = disk /\ stage # "closed"
          /\ store \in StoreType /\ past \in PastType
          /\ Write(t, call[t], store, past)
      BY <1>1, <2>3 DEF Acquire, Enter, TypeOK
    <3>2. Ready(store, past, stage)
      BY <1>1, <3>1, DurableReady
    <3>3. Grows /\ \A m \in Nat : m <= store.data => Kept(m, disk', past'.lost, job')
      BY <1>1, <3>1, <3>2, WriteTakes DEF Ready
    <3>4. store.data \in Nat
      BY <1>1, NatNumbers
    <3> QED
      BY <1>1, <2>1, <3>3, <3>4 DEF Grows
  <2> QED
    BY <1>2, <2>2, <2>3
<1> QED
  BY <1>4, <1>5 DEF Kept

-----------------------------------------------------------------------------
LEMMA InitDurable ==
  ASSUME Init
  PROVE  Durable
<1>1. Bounds /\ TimersOK /\ FinalKept /\ ClosedIsQuiet
  BY DEF Init, Bounds, TimersOK, FinalKept, ClosedIsQuiet
<1>2. OnlyWriters /\ SavesKept
  BY IdleTypes DEF Init, OnlyWriters, SavesKept
<1>3. NewestKept
  BY DEF Init, NewestKept, KeptNow, Kept
<1> QED
  BY <1>1, <1>2, <1>3 DEF Durable

LEMMA StepDurable ==
  ASSUME Undisturbed, Inv, Durable, [Next]_vars
  PROVE  Durable'
<1>1. NobodyCancelled
  BY DEF Undisturbed, NobodyCancelled
<1>2. ASSUME NEW t \in Tasks, Save(t) \/ Fire(t) \/ FinalWrite(t)
      PROVE  Durable'
  BY <1>1, <1>2, SaveDurable, FireDurable, FinalWriteDurable
<1>3. ASSUME NEW t \in Tasks, Remove(t) \/ Cancel(t)
      PROVE  FALSE
  BY <1>3 DEF Remove, Called, Cancel, Undisturbed
<1>4. ASSUME NEW t \in Tasks, Work(t)
      PROVE  Durable'
  <2>1. ~RemoveDone(t) /\ ~RemoveFails(t)
    BY DEF Durable, OnlyWriters, RemoveDone, RemoveFails
  <2> QED
    BY <1>1, <1>4, <2>1, AcquireDurable, WriteDoneDurable, WriteFailsDurable DEF Work
<1>5. ASSUME NEW d \in Delays, DelaySave(d) \/ DelayAgain(d)
      PROVE  Durable'
  BY <1>1, <1>5, DelaySaveDurable, DelayAgainDurable
<1>6. threads = {}
  BY <1>1 DEF Inv
<1>7. CASE \/ Tick \/ MakeReadOnly \/ Load \/ LoadDone \/ ListFiles
           \/ PreloadRead \/ PreloadStore \/ DropPreload \/ UNCHANGED vars
  BY <1>7, QuietDurable
<1>8. CASE Stop \/ Close
  BY <1>8, StopDurable, CloseDurable
<1> QED
  BY <1>2, <1>3, <1>4, <1>5, <1>6, <1>7, <1>8 DEF Next

LEMMA DurableNothingForgotten ==
  ASSUME Undisturbed, Inv, Durable
  PROVE  NothingForgotten
<1>1. /\ waiters \in Seq(Tasks) /\ past.asked \in Nat
      /\ \A t \in Tasks : job[t].no \in Nat /\ job[t].no <= past.asked
      /\ \A t \in Tasks : call[t].kind # "remove"
  BY NatNumbers DEF Inv, TypeOK, DataOK, Older, Undisturbed, NobodyCancelled,
                    Durable, OnlyWriters
<1>2. KeptNow(past.asked) =>
        \/ disk.no >= past.asked \/ past.lost >= past.asked
        \/ \E t \in Tasks : job[t].no = past.asked
  BY <1>1 DEF KeptNow, Kept
<1>3. Someone => HasWriter
  <2>1. waiters # <<>> => 1 \in 1..Len(waiters) /\ call[waiters[1]].kind # "remove"
    BY <1>1
  <2> QED
    BY <2>1 DEF Someone, HasWriter
<1> QED
  BY <1>2, <1>3 DEF Durable, NewestKept, NothingForgotten

LEMMA DurableCleanStop ==
  ASSUME Inv, Durable
  PROVE  CleanStop
<1> SUFFICES ASSUME stage = "closed"
             PROVE  disk.no >= past.final \/ past.lost >= past.final
  BY DEF CleanStop
<1>1. owner = NoTask /\ waiters = <<>>
  BY DEF Durable, ClosedIsQuiet
<1>2. \A t \in Tasks : job[t].kind = "none"
  BY <1>1, StoreAssumption DEF Inv, LockOK
<1>3. KeptNow(past.final)
  BY <1>1 DEF Durable, FinalKept
<1> QED
  BY <1>2, <1>3 DEF KeptNow, Kept

-----------------------------------------------------------------------------
\* What was saved last, at once or with a delay, is never lost sight of: while
\* it is in _data, a timer, the final-write listener or a queued writer will
\* take it to the file.
THEOREM Remembered ==
  ASSUME Undisturbed
  PROVE  Spec => []NothingForgotten
<1>1. Init => Inv /\ Durable
  BY InitInv, InitDurable
<1>2. Inv /\ Durable /\ [Next]_vars => (Inv /\ Durable)'
  BY StepInv, StepDurable
<1>3. Inv /\ Durable => NothingForgotten
  BY DurableNothingForgotten
<1> QED
  BY <1>1, <1>2, <1>3, PTL DEF Spec

\* When Home Assistant exits in order, all that was saved before the final-write
\* event is on disk, unless writing it failed.
THEOREM CleanStopWrites ==
  ASSUME Undisturbed
  PROVE  Spec => []CleanStop
<1>1. Init => Inv /\ Durable
  BY InitInv, InitDurable
<1>2. Inv /\ Durable /\ [Next]_vars => (Inv /\ Durable)'
  BY StepInv, StepDurable
<1>3. Inv /\ Durable => CleanStop
  BY DurableCleanStop
<1> QED
  BY <1>1, <1>2, <1>3, PTL DEF Spec

\* async_save returns only after its data, or newer data, is in the file, though
\* another task may have written it; or after writing it failed.
THEOREM SaveDurability ==
  ASSUME Undisturbed
  PROVE  Spec => SaveIsDurable
<1>1. Init => Inv /\ Durable
  BY InitInv, InitDurable
<1>2. Inv /\ Durable /\ [Next]_vars => (Inv /\ Durable)'
  BY StepInv, StepDurable
<1>3. Inv /\ Durable /\ Inv' /\ [Next]_vars =>
        [\A t \in Tasks :
           call[t].kind = "save" /\ call'[t] = Idle =>
             \/ disk'.no >= call[t].no
             \/ past'.lost >= call[t].no
             \/ past'.erase > call[t].no]_vars
  BY SaveEndsKept
<1> QED
  BY <1>1, <1>2, <1>3, PTL DEF Spec, SaveIsDurable
=============================================================================
