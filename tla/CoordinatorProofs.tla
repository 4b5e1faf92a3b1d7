-------------------------- MODULE CoordinatorProofs --------------------------
(***************************************************************************)
(* Proofs about Coordinator, for any number of tasks, listeners and states *)
(* of the device, and any options.                                         *)
(*                                                                         *)
(* A step that gets the lock passes the debouncer, the coordinator and the *)
(* history on as it has left them so far, so the parts of the invariant    *)
(* take them as parameters.                                                *)
(***************************************************************************)
EXTENDS Coordinator, QueueLemmas

-----------------------------------------------------------------------------
(***************************************************************************)
(* The inductive invariant                                                 *)
(***************************************************************************)
Types ==
  /\ deb \in DebouncerType
  /\ owner \in Tasks \cup {NoTask}
  /\ waiters \in Seq(Tasks)
  /\ coord \in CoordinatorType
  /\ task \in [Tasks -> TaskType]
  /\ device \in Versions
  /\ past \in PastType

AtWork == {"setup", "updating", "returning"}

LockOK ==
  /\ Distinct(waiters)
  /\ \A t \in Tasks : Queued(waiters, t) <=> task[t].at = "waiting"
  /\ \A t \in Tasks : owner = t <=> task[t].at \in AtWork

TimersOK(d, c) ==
  /\ ~c.polling => ~c.poll
  /\ d.down = c.down
  /\ d.down => ~d.timer
  /\ d.again => d.timer

\* Requests that were merged wait for a timer that will run them; others are
\* queued for the lock, and no timer that does nothing is in their way.
MergedOK(d, p) ==
  /\ NoTask \in p.asked => d.timer /\ d.again
  /\ p.asked # {} /\ d.timer => d.again
  /\ d.down => p.asked = {}

AskedOK(p) ==
  \A t \in Tasks :
    /\ t \in p.asked => task[t].at = "waiting" /\ task[t].kind \in Debounced
    /\ task[t].at \in {"updating", "returning"} => p.asked \subseteq {NoTask}

\* Unless it was overtaken, a refresh in progress will return what is at least
\* as new as the data, and knows what the coordinator holds.
FetchOK(c, p) ==
  /\ c.data <= device
  /\ \A t \in Tasks : task[t].at = "updating" =>
       /\ task[t].from <= device
       /\ "data" \notin p.raced => c.data <= task[t].from
       /\ p.raced = {} => task[t].was = c.data /\ task[t].prev = c.ok

InformedOK(c, p) ==
  c.listeners > 0 /\ ~p.quiet => p.seen = [data |-> c.data, ok |-> c.ok]

Inv ==
  /\ Types
  /\ LockOK
  /\ TimersOK(deb, coord)
  /\ MergedOK(deb, past)
  /\ AskedOK(past)
  /\ FetchOK(coord, past)
  /\ InformedOK(coord, past)

LEMMA VersionsAreNaturals ==
  /\ MaxVersion \in Nat \ {0} /\ MaxListeners \in Nat
  /\ Versions \subseteq Nat /\ 0 \in Versions /\ 1 \in Versions
  /\ NoTask \notin Tasks
BY CoordinatorAssumption DEF Versions, Tasks

LEMMA InvImpliesTypeOK == Inv => TypeOK
<1> SUFFICES ASSUME Inv PROVE TypeOK
  OBVIOUS
<1>1. Types /\ LockOK /\ TimersOK(deb, coord) /\ waiters \in Seq(Tasks)
  BY DEF Inv, Types
<1>2. Seqs!ToSet(waiters) = {t \in Tasks : task[t].at = "waiting"}
  <2>1. Seqs!ToSet(waiters) \subseteq Tasks
    BY <1>1 DEF Seqs!ToSet
  <2>2. \A t : t \in Seqs!ToSet(waiters) <=> Queued(waiters, t)
    BY <1>1 DEF Seqs!ToSet, Queued
  <2> QED
    BY <1>1, <2>1, <2>2 DEF LockOK
<1>3. owner = NoTask <=> \A t \in Tasks : task[t].at \in {"idle", "waiting"}
  <2>1. \A t \in Tasks : task[t].at \in {"idle", "waiting"} <=> task[t].at \notin AtWork
    BY <1>1 DEF Types, TaskType, AtWork
  <2> QED
    BY <1>1, <2>1, VersionsAreNaturals DEF LockOK, Types
<1> QED
  BY <1>1, <1>2, <1>3 DEF TypeOK, Types, TimersOK

LEMMA InvImpliesListenersInformed == Inv => ListenersInformed
BY DEF Inv, InformedOK, ListenersInformed

LEMMA InvImpliesRequestKept == Inv => RequestKept
<1> SUFFICES ASSUME Inv, past.asked # {}, ~(deb.timer /\ deb.again)
             PROVE  \E t \in Tasks : WillRefresh(t)
  BY DEF RequestKept
<1>1. past.asked \subseteq Tasks \cup {NoTask}
  BY DEF Inv, Types, PastType
<1>2. NoTask \notin past.asked /\ ~deb.timer
  BY DEF Inv, MergedOK
<1>3. PICK t \in Tasks : t \in past.asked
  BY <1>1, <1>2
<1>4. WillRefresh(t)
  BY <1>2, <1>3 DEF Inv, AskedOK, WillRefresh
<1> QED
  BY <1>4

LEMMA InitInv == Init => Inv
<1> SUFFICES ASSUME Init PROVE Inv
  OBVIOUS
<1>1. PICK o \in OptionsType :
       /\ deb = [immediate |-> o.immediate, timer |-> FALSE, again |-> FALSE,
                 down |-> FALSE]
       /\ coord = [data |-> 0, ok |-> TRUE, listeners |-> 0, poll |-> FALSE,
                   polling |-> o.polling, always |-> o.always, setup |-> TRUE,
                   down |-> FALSE, stopping |-> FALSE]
  BY CoordinatorAssumption DEF Init
<1>2. /\ owner = NoTask /\ waiters = <<>> /\ device = 1
      /\ task = [t \in Tasks |-> Idle]
      /\ past = [asked |-> {}, auth |-> FALSE, seen |-> Nothing, quiet |-> FALSE,
                 raced |-> {}]
  BY DEF Init
<1>3. Idle \in TaskType /\ Idle.at = "idle"
  BY VersionsAreNaturals DEF Idle, TaskType
<1>4. Types
  <2>1. deb \in DebouncerType
    BY <1>1 DEF DebouncerType, OptionsType
  <2>2. coord \in CoordinatorType
    BY <1>1, VersionsAreNaturals DEF CoordinatorType, OptionsType
  <2>3. past \in PastType
    BY <1>2, VersionsAreNaturals DEF PastType, Nothing, View
  <2> QED
    BY <1>2, <1>3, <2>1, <2>2, <2>3, VersionsAreNaturals DEF Types
<1>5. LockOK
  BY <1>2, <1>3, VersionsAreNaturals DEF LockOK, Distinct, Queued, AtWork
<1>6. TimersOK(deb, coord) /\ MergedOK(deb, past) /\ AskedOK(past)
  BY <1>1, <1>2, <1>3 DEF TimersOK, MergedOK, AskedOK
<1>7. coord.data = 0 /\ coord.listeners = 0
  BY <1>1
<1>8. FetchOK(coord, past)
  BY <1>2, <1>3, <1>7 DEF FetchOK
<1>9. InformedOK(coord, past)
  BY <1>7 DEF InformedOK
<1> QED
  BY <1>4, <1>5, <1>6, <1>8, <1>9 DEF Inv

-----------------------------------------------------------------------------
(***************************************************************************)
(* Timers                                                                  *)
(***************************************************************************)
LEMMA DebouncerSteps ==
  ASSUME NEW d \in DebouncerType
  PROVE  /\ CancelTimer(d) \in DebouncerType
         /\ ~CancelTimer(d).timer /\ ~CancelTimer(d).again
         /\ CancelTimer(d).down = d.down
         /\ ShutDown(d) \in DebouncerType
         /\ ~ShutDown(d).timer /\ ~ShutDown(d).again /\ ShutDown(d).down
         /\ ScheduleTimer(d) \in DebouncerType
         /\ ScheduleTimer(d).timer = ~d.down /\ ScheduleTimer(d).again = d.again
         /\ ScheduleTimer(d).down = d.down
         /\ Postpone(d) \in DebouncerType
         /\ Postpone(d).timer /\ Postpone(d).again /\ Postpone(d).down = d.down
         /\ TimerOver(d) \in DebouncerType
         /\ ~TimerOver(d).timer /\ ~TimerOver(d).again /\ TimerOver(d).down = d.down
<1>1. /\ CancelTimer(d) \in DebouncerType
      /\ ~CancelTimer(d).timer /\ ~CancelTimer(d).again
      /\ CancelTimer(d).down = d.down
  BY DEF CancelTimer, DebouncerType
<1>2. /\ ShutDown(d) \in DebouncerType
      /\ ~ShutDown(d).timer /\ ~ShutDown(d).again /\ ShutDown(d).down
  BY <1>1 DEF ShutDown, DebouncerType
<1>3. /\ ScheduleTimer(d) \in DebouncerType
      /\ ScheduleTimer(d).timer = ~d.down /\ ScheduleTimer(d).again = d.again
      /\ ScheduleTimer(d).down = d.down
  BY DEF ScheduleTimer, DebouncerType
<1>4. /\ Postpone(d) \in DebouncerType
      /\ Postpone(d).timer /\ Postpone(d).again /\ Postpone(d).down = d.down
  BY DEF Postpone, DebouncerType
<1>5. /\ TimerOver(d) \in DebouncerType
      /\ ~TimerOver(d).timer /\ ~TimerOver(d).again /\ TimerOver(d).down = d.down
  BY DEF TimerOver, DebouncerType
<1> QED
  BY <1>1, <1>2, <1>3, <1>4, <1>5

\* c is b, but for its timer.
SameButPoll(c, b) ==
  /\ c \in CoordinatorType
  /\ c.data = b.data /\ c.ok = b.ok /\ c.listeners = b.listeners
  /\ c.polling = b.polling /\ c.down = b.down /\ c.stopping = b.stopping
  /\ c.always = b.always

LEMMA PollSteps ==
  ASSUME NEW c \in CoordinatorType
  PROVE  /\ SameButPoll([c EXCEPT !.poll = FALSE], c) /\ ~[c EXCEPT !.poll = FALSE].poll
         /\ SameButPoll(ScheduleRefresh(c), c) /\ (ScheduleRefresh(c).poll = c.polling)
         /\ SameButPoll([c EXCEPT !.setup = FALSE], c) /\ ([c EXCEPT !.setup = FALSE].poll = c.poll)
BY DEF SameButPoll, CoordinatorType, ScheduleRefresh

-----------------------------------------------------------------------------
(***************************************************************************)
(* Getting the lock                                                        *)
(***************************************************************************)
\* Nobody but t can be at work, and the queue without t is that of the others.
LockOKBut(t) ==
  /\ waiters' \in Seq(Tasks) /\ Distinct(waiters') /\ ~Queued(waiters', t)
  /\ \A u \in Tasks \ {t} : /\ Queued(waiters', u) <=> task[u].at = "waiting"
                            /\ task[u].at \notin AtWork

\* t gets a new record.
LEMMA TaskMoves ==
  ASSUME Inv, NEW t \in Tasks, LockOKBut(t), NEW new \in TaskType,
         task' = [task EXCEPT ![t] = new],
         \/ new.at \in AtWork /\ owner' = t
         \/ new.at = "idle" /\ owner' = NoTask
  PROVE  /\ task' \in [Tasks -> TaskType] /\ task'[t] = new
         /\ \A u \in Tasks \ {t} : task'[u] = task[u]
         /\ owner' \in Tasks \cup {NoTask}
         /\ LockOK'
<1>1. /\ task' \in [Tasks -> TaskType] /\ task'[t] = new
      /\ \A u \in Tasks \ {t} : task'[u] = task[u]
  BY DEF Inv, Types
<1>2. ASSUME NEW u \in Tasks PROVE owner' = u <=> task'[u].at \in AtWork
  <2>1. CASE u = t
    BY <1>1, <2>1, VersionsAreNaturals DEF AtWork
  <2>2. CASE u # t
    BY <1>1, <2>2, VersionsAreNaturals DEF LockOKBut
  <2> QED
    BY <2>1, <2>2
<1>3. ASSUME NEW u \in Tasks PROVE Queued(waiters', u) <=> task'[u].at = "waiting"
  <2>1. CASE u = t
    BY <1>1, <2>1 DEF LockOKBut, AtWork
  <2>2. CASE u # t
    BY <1>1, <2>2 DEF LockOKBut
  <2> QED
    BY <2>1, <2>2
<1> QED
  BY <1>1, <1>2, <1>3 DEF LockOK, LockOKBut

LEMMA RefreshKeeps ==
  ASSUME Inv, NEW t \in Tasks, LockOKBut(t), NEW kind \in Kinds \cup {"none"},
         NEW d \in DebouncerType, NEW c \in CoordinatorType, NEW p \in PastType,
         TimersOK(d, c), InformedOK(c, p), c.data <= device,
         Refresh(t, kind, d, c, p), device' = device
  PROVE  /\ Inv'
         /\ c.down => task'[t].at = "idle"
         /\ \A u \in Tasks \ {t} : task'[u] = task[u]
         /\ coord'.data = c.data
<1> DEFINE new == IF c.down \/ (kind = "poll" /\ c.stopping) THEN Idle
                  ELSE [kind |-> kind, at |-> "updating", prev |-> c.ok, was |-> c.data,
                        from |-> device]
<1>t. Types /\ device \in Versions /\ device \in Nat
  BY VersionsAreNaturals DEF Inv, Types
<1>1. new \in TaskType
  BY <1>t, VersionsAreNaturals DEF TaskType, Idle, CoordinatorType
<1>2. /\ new.at \in {"idle", "updating"} /\ (c.down => new.at = "idle")
      /\ new.at = "updating" =>
           new.from = device /\ new.was = c.data /\ new.prev = c.ok
  BY DEF Idle
<1>3. /\ task' = [task EXCEPT ![t] = new]
      /\ owner' = IF new.at = "updating" THEN t ELSE NoTask
  BY DEF Refresh, Release, Idle
<1> HIDE DEF new
<1>4. /\ task' \in [Tasks -> TaskType] /\ task'[t] = new
      /\ \A u \in Tasks \ {t} : task'[u] = task[u]
      /\ owner' \in Tasks \cup {NoTask} /\ LockOK'
  BY <1>1, <1>2, <1>3, TaskMoves DEF AtWork
<1>5. /\ deb' \in DebouncerType /\ ~deb'.timer /\ ~deb'.again /\ deb'.down = d.down
      /\ SameButPoll(coord', c) /\ ~coord'.poll
  BY DebouncerSteps, PollSteps DEF Refresh
<1>6. /\ past' \in PastType /\ past'.asked = {} /\ past'.raced = {}
      /\ past'.seen = p.seen /\ past'.quiet = p.quiet
  BY DEF Refresh, PastType
<1>7. Types'
  BY <1>t, <1>4, <1>5, <1>6 DEF Types, LockOKBut, SameButPoll
<1>8. TimersOK(deb, coord)' /\ MergedOK(deb, past)' /\ AskedOK(past)'
  BY <1>5, <1>6 DEF TimersOK, MergedOK, AskedOK, SameButPoll
<1>9. FetchOK(coord, past)'
  <2>1. ASSUME NEW u \in Tasks, task'[u].at = "updating" PROVE u = t
    BY <1>4, <2>1 DEF LockOKBut, AtWork
  <2>2. coord'.data = c.data /\ coord'.ok = c.ok /\ c.data \in Nat
    BY <1>5, VersionsAreNaturals DEF SameButPoll, CoordinatorType
  <2> QED
    BY <1>t, <1>2, <1>4, <1>6, <2>1, <2>2 DEF FetchOK
<1>10. InformedOK(coord, past)'
  BY <1>5, <1>6 DEF InformedOK, SameButPoll
<1> QED
  BY <1>2, <1>4, <1>5, <1>7, <1>8, <1>9, <1>10 DEF Inv, SameButPoll

\* What is known of a task's requests when it gets the lock.
AskedOKBut(t, kind, p) ==
  /\ t \in p.asked => kind \in Debounced
  /\ \A u \in Tasks \ {t} :
       u \in p.asked => task[u].at = "waiting" /\ task[u].kind \in Debounced

LEMMA EnterKeeps ==
  ASSUME Inv, NEW t \in Tasks, LockOKBut(t), NEW kind \in Kinds \cup {"none"},
         NEW d \in DebouncerType, NEW c \in CoordinatorType, NEW p \in PastType,
         TimersOK(d, c), MergedOK(d, p), AskedOKBut(t, kind, p), InformedOK(c, p),
         c.data <= device,
         Enter(t, kind, d, c, p), device' = device
  PROVE  /\ Inv'
         /\ c.down => task'[t].at # "updating"
         /\ \A u \in Tasks \ {t} : task'[u] = task[u]
         /\ coord'.data = c.data
<1>t. Types /\ device \in Versions
  BY DEF Inv, Types
<1>1. CASE /\ kind \in Debounced /\ Abort(d)
           /\ Release(t)
           /\ past' = [p EXCEPT !.asked = IF t \in @ THEN (@ \ {t}) \cup {NoTask} ELSE @]
           /\ deb' = d /\ coord' = c
  <2>1. Idle \in TaskType /\ Idle.at = "idle"
    BY VersionsAreNaturals DEF Idle, TaskType
  <2>2. /\ task' \in [Tasks -> TaskType] /\ task'[t] = Idle
        /\ \A u \in Tasks \ {t} : task'[u] = task[u]
        /\ owner' \in Tasks \cup {NoTask} /\ LockOK'
    BY <1>1, <2>1, TaskMoves DEF Release
  <2>3. /\ past' \in PastType
        /\ past'.asked = IF t \in p.asked THEN (p.asked \ {t}) \cup {NoTask} ELSE p.asked
        /\ past'.raced = p.raced /\ past'.seen = p.seen /\ past'.quiet = p.quiet
    BY <1>1 DEF PastType
  <2>4. Types'
    BY <1>t, <1>1, <2>2, <2>3 DEF Types, LockOKBut
  <2>5. TimersOK(deb, coord)' /\ InformedOK(coord, past)'
    BY <1>1, <2>3 DEF TimersOK, InformedOK
  <2>6. MergedOK(deb, past)'
    BY <1>1, <2>3 DEF MergedOK, Abort
  <2>7. AskedOK(past)'
    BY <2>1, <2>2, <2>3, VersionsAreNaturals DEF AskedOK, AskedOKBut, LockOKBut, AtWork
  <2>8. FetchOK(coord, past)'
    BY <1>1, <2>1, <2>2 DEF FetchOK, LockOKBut, AtWork
  <2> QED
    BY <1>1, <2>1, <2>2, <2>4, <2>5, <2>6, <2>7, <2>8 DEF Inv
<1>2. CASE /\ kind = "first"
           /\ Release(t) \/ Works(t, kind, "setup")
           /\ deb' = d /\ coord' = c /\ past' = p
  <2>1. PICK new \in TaskType :
          /\ \/ new.at = "setup" /\ owner' = t
             \/ new.at = "idle" /\ owner' = NoTask
          /\ task' = [task EXCEPT ![t] = new]
    BY <1>2, VersionsAreNaturals DEF Idle, TaskType, Release, Works
  <2>3. /\ task' \in [Tasks -> TaskType] /\ task'[t] = new
        /\ \A u \in Tasks \ {t} : task'[u] = task[u]
        /\ owner' \in Tasks \cup {NoTask} /\ LockOK'
    BY <2>1, TaskMoves DEF AtWork
  <2>4. Types'
    BY <1>t, <1>2, <2>3 DEF Types, LockOKBut
  <2>5. TimersOK(deb, coord)' /\ InformedOK(coord, past)' /\ MergedOK(deb, past)'
    BY <1>2 DEF TimersOK, InformedOK, MergedOK
  <2>6. t \notin p.asked
    BY <1>2 DEF AskedOKBut, Debounced
  <2>7. AskedOK(past)'
    BY <1>2, <2>1, <2>3, <2>6 DEF AskedOK, AskedOKBut, LockOKBut, AtWork
  <2>8. FetchOK(coord, past)'
    BY <1>2, <2>1, <2>3 DEF FetchOK, LockOKBut, AtWork
  <2> QED
    BY <1>2, <2>1, <2>3, <2>4, <2>5, <2>7, <2>8 DEF Inv
<1>3. CASE Refresh(t, kind, d, c, p)
  BY <1>3, RefreshKeeps
<1> QED
  BY <1>1, <1>2, <1>3 DEF Enter

LEMMA TakeLockKeeps ==
  ASSUME Inv, NEW t \in Tasks, NEW kind \in Kinds,
         NEW d \in DebouncerType, NEW c \in CoordinatorType, NEW p \in PastType,
         TimersOK(d, c), MergedOK(d, p), InformedOK(c, p), FetchOK(c, p),
         t \in p.asked => kind \in Debounced /\ ~Locked,
         p.asked \subseteq past.asked \cup {t, NoTask},
         TakeLock(t, kind, d, c, p)
  PROVE  /\ Inv'
         /\ c.down => task'[t].at # "updating"
         /\ \A u \in Tasks \ {t} : task'[u] = task[u]
         /\ coord'.data = c.data
<1>t. Types /\ LockOK /\ AskedOK(past) /\ device' = device /\ task[t].at = "idle"
  BY DEF Inv, TakeLock
<1>1. CASE Free
  <2>1. Enter(t, kind, d, c, p) /\ waiters' = waiters /\ waiters = <<>> /\ owner = NoTask
    BY <1>1 DEF TakeLock, Free
  <2>2. LockOKBut(t)
    BY <1>t, <2>1, VersionsAreNaturals DEF LockOKBut, LockOK, Types, Queued, Distinct
  <2>3. AskedOKBut(t, kind, p)
    BY <1>t, VersionsAreNaturals DEF AskedOKBut, AskedOK
  <2>4. c.data <= device
    BY DEF FetchOK
  <2> QED
    BY <1>t, <2>1, <2>2, <2>3, <2>4, EnterKeeps
<1>2. CASE ~Free
  <2> DEFINE new == [Idle EXCEPT !.kind = kind, !.at = "waiting"]
  <2>1. /\ new \in TaskType /\ new.at = "waiting" /\ new.kind = kind
        /\ task' = [task EXCEPT ![t] = new]
    BY <1>2, VersionsAreNaturals DEF Idle, TaskType, TakeLock
  <2>2. /\ waiters' = Append(waiters, t) /\ owner' = owner
        /\ deb' = d /\ coord' = c /\ past' = p
    BY <1>2 DEF TakeLock
  <2> HIDE DEF new
  <2>3. /\ task' \in [Tasks -> TaskType] /\ task'[t] = new
        /\ \A u \in Tasks \ {t} : task'[u] = task[u]
    BY <1>t, <2>1 DEF Types
  <2>4. /\ waiters' \in Seq(Tasks) /\ Distinct(waiters')
        /\ \A u : Queued(waiters', u) <=> Queued(waiters, u) \/ u = t
    BY <1>t, <2>2, QueueAppended DEF LockOK, Types
  <2>5. LockOK'
    <3>1. ASSUME NEW u \in Tasks PROVE Queued(waiters', u) <=> task'[u].at = "waiting"
      BY <1>t, <2>1, <2>3, <2>4 DEF LockOK
    <3>2. ASSUME NEW u \in Tasks PROVE owner' = u <=> task'[u].at \in AtWork
      BY <1>t, <2>1, <2>2, <2>3 DEF LockOK, AtWork
    <3> QED
      BY <2>4, <3>1, <3>2 DEF LockOK
  <2>6. Types'
    BY <1>t, <2>2, <2>3, <2>4 DEF Types
  <2>7. TimersOK(deb, coord)' /\ InformedOK(coord, past)' /\ MergedOK(deb, past)'
    BY <2>2 DEF TimersOK, InformedOK, MergedOK
  <2>8. AskedOK(past)'
    <3>1. ASSUME NEW u \in Tasks, u \in p.asked
          PROVE  task'[u].at = "waiting" /\ task'[u].kind \in Debounced
      BY <1>t, <2>1, <2>3, <3>1, VersionsAreNaturals DEF AskedOK
    <3>2. ASSUME NEW u \in Tasks, task'[u].at \in {"updating", "returning"}
          PROVE  p.asked \subseteq {NoTask}
      <4>1. task[u].at \in {"updating", "returning"} /\ u # t
        BY <2>1, <2>3, <3>2
      <4>2. owner = u
        BY <1>t, <4>1 DEF LockOK, AtWork
      <4>3. Locked
        BY <4>2, VersionsAreNaturals DEF Locked
      <4> QED
        BY <1>t, <4>1, <4>3 DEF AskedOK
    <3> QED
      BY <2>2, <3>1, <3>2 DEF AskedOK
  <2>9. FetchOK(coord, past)'
    <3>1. ASSUME NEW u \in Tasks, task'[u].at = "updating"
          PROVE  task'[u] = task[u]
      BY <2>1, <2>3, <3>1
    <3> QED
      BY <1>t, <2>2, <3>1 DEF FetchOK
  <2> QED
    BY <2>1, <2>2, <2>3, <2>5, <2>6, <2>7, <2>8, <2>9 DEF Inv
<1> QED
  BY <1>1, <1>2

-----------------------------------------------------------------------------
(***************************************************************************)
(* The steps of Next.  Beside the invariant they keep what the action      *)
(* properties say of one step.                                             *)
(***************************************************************************)
StepOK ==
  /\ coord'.data < coord.data => "data" \in past.raced
  /\ coord.down => \A t \in Tasks : task'[t].at = "updating" => task[t].at = "updating"

LEMMA RequestRefreshKeeps ==
  ASSUME Inv, NEW t \in Callers, RequestRefresh(t) PROVE Inv' /\ StepOK
<1>t. /\ Types /\ LockOK /\ TimersOK(deb, coord) /\ MergedOK(deb, past) /\ AskedOK(past)
      /\ FetchOK(coord, past) /\ InformedOK(coord, past) /\ t \in Tasks
  BY DEF Inv, Tasks
<1>0. coord.data \in Nat
  BY <1>t, VersionsAreNaturals DEF Types, CoordinatorType
<1>1. CASE CallNow /\ TakeLock(t, "request", deb, coord, Asked(t))
  <2> DEFINE p == Asked(t)
  <2>1. /\ p \in PastType /\ p.asked = past.asked \cup {t}
        /\ p.raced = past.raced /\ p.seen = past.seen /\ p.quiet = past.quiet
    BY <1>t DEF Asked, Types, PastType
  <2>2. TakeLock(t, "request", deb, coord, p)
    BY <1>1
  <2> HIDE DEF p
  <2>3. MergedOK(deb, p)
    BY <1>1, <1>t, <2>1, VersionsAreNaturals DEF MergedOK, CallNow
  <2>4. InformedOK(coord, p) /\ FetchOK(coord, p)
    BY <1>t, <2>1 DEF InformedOK, FetchOK
  <2>5. "request" \in Kinds /\ "request" \in Debounced /\ ~Locked
    BY <1>1 DEF Kinds, Debounced, CallNow
  <2>6. /\ Inv' /\ (coord.down => task'[t].at # "updating")
        /\ \A u \in Tasks \ {t} : task'[u] = task[u]
        /\ coord'.data = coord.data
    BY <1>t, <2>1, <2>2, <2>3, <2>4, <2>5, TakeLockKeeps DEF Types
  <2> QED
    BY <1>0, <2>6 DEF StepOK
<1>2. CASE /\ ~deb.down /\ ~CallNow
           /\ deb' = Postpone(deb)
           /\ past' = Asked(NoTask)
           /\ UNCHANGED <<lock, coord, task, device>>
  <2>1. /\ past' \in PastType /\ past'.asked = past.asked \cup {NoTask}
        /\ past'.raced = past.raced /\ past'.seen = past.seen /\ past'.quiet = past.quiet
    BY <1>2, <1>t DEF Asked, Types, PastType
  <2>2. /\ deb' \in DebouncerType /\ deb'.timer /\ deb'.again /\ deb'.down = deb.down
    BY <1>2, <1>t, DebouncerSteps DEF Types
  <2>3. /\ owner' = owner /\ waiters' = waiters /\ coord' = coord /\ task' = task
        /\ device' = device
    BY <1>2 DEF lock
  <2>4. Types' /\ LockOK'
    BY <1>t, <2>1, <2>2, <2>3 DEF Types, LockOK
  <2>5. TimersOK(deb, coord)' /\ MergedOK(deb, past)' /\ AskedOK(past)'
    BY <1>2, <1>t, <2>1, <2>2, <2>3, VersionsAreNaturals DEF TimersOK, MergedOK, AskedOK
  <2>6. FetchOK(coord, past)' /\ InformedOK(coord, past)'
    BY <1>t, <2>1, <2>3 DEF FetchOK, InformedOK
  <2> QED
    BY <1>0, <2>3, <2>4, <2>5, <2>6 DEF Inv, StepOK
<1> QED
  BY <1>1, <1>2 DEF RequestRefresh

\* A task that takes the lock for what nobody has asked the debouncer for.
LEMMA OtherTakesKeep ==
  ASSUME Inv, NEW t \in Tasks, NEW kind \in Kinds, NEW c \in CoordinatorType,
         SameButPoll(c, coord), c.poll => coord.poll,
         TakeLock(t, kind, deb, c, past)
  PROVE  Inv' /\ StepOK
<1>t. /\ Types /\ TimersOK(deb, coord) /\ MergedOK(deb, past) /\ AskedOK(past)
      /\ FetchOK(coord, past) /\ InformedOK(coord, past)
  BY DEF Inv
<1>1. coord.data \in Nat
  BY <1>t, VersionsAreNaturals DEF Types, CoordinatorType
<1>2. TimersOK(deb, c) /\ InformedOK(c, past) /\ FetchOK(c, past)
  BY <1>t DEF TimersOK, InformedOK, FetchOK, SameButPoll
<1>3. t \notin past.asked
  BY <1>t DEF AskedOK, TakeLock
<1>4. /\ Inv' /\ (c.down => task'[t].at # "updating")
      /\ \A u \in Tasks \ {t} : task'[u] = task[u]
      /\ coord'.data = c.data
  BY <1>t, <1>2, <1>3, TakeLockKeeps DEF Types
<1> QED
  BY <1>1, <1>4 DEF StepOK, SameButPoll

LEMMA CallersKeep ==
  /\ \A t \in Callers : Inv /\ RefreshNow(t) => Inv' /\ StepOK
  /\ \A t \in Callers : Inv /\ FirstRefresh(t) => Inv' /\ StepOK
  /\ \A t \in Pollers : Inv /\ PollFires(t) => Inv' /\ StepOK
<1>1. ASSUME Inv, NEW t \in Callers, RefreshNow(t) PROVE Inv' /\ StepOK
  <2>1. coord \in CoordinatorType /\ SameButPoll(coord, coord) /\ t \in Tasks
    BY <1>1 DEF Inv, Types, SameButPoll, Tasks
  <2> QED
    BY <1>1, <2>1, OtherTakesKeep DEF RefreshNow, Kinds
<1>2. ASSUME Inv, NEW t \in Callers, FirstRefresh(t) PROVE Inv' /\ StepOK
  <2> DEFINE c == [coord EXCEPT !.setup = FALSE]
  <2>1. coord \in CoordinatorType /\ t \in Tasks
    BY <1>2 DEF Inv, Types, Tasks
  <2>2. c \in CoordinatorType /\ SameButPoll(c, coord) /\ c.poll = coord.poll
    BY <2>1, PollSteps DEF SameButPoll
  <2>3. TakeLock(t, "first", deb, c, past)
    BY <1>2 DEF FirstRefresh
  <2> HIDE DEF c
  <2> QED
    BY <1>2, <2>1, <2>2, <2>3, OtherTakesKeep DEF Kinds
<1>3. ASSUME Inv, NEW t \in Pollers, PollFires(t) PROVE Inv' /\ StepOK
  <2> DEFINE c == [coord EXCEPT !.poll = FALSE]
  <2>1. coord \in CoordinatorType /\ t \in Tasks
    BY <1>3 DEF Inv, Types, Tasks
  <2>2. c \in CoordinatorType /\ SameButPoll(c, coord) /\ ~c.poll
    BY <2>1, PollSteps DEF SameButPoll
  <2>3. TakeLock(t, "poll", deb, c, past)
    BY <1>3 DEF PollFires
  <2> HIDE DEF c
  <2> QED
    BY <1>3, <2>1, <2>2, <2>3, OtherTakesKeep DEF Kinds
<1> QED
  BY <1>1, <1>2, <1>3

LEMMA FinishersKeep ==
  ASSUME Inv, NEW t \in Finishers, ScheduleCall(t) \/ DebounceFires(t)
  PROVE  Inv' /\ StepOK
<1>t. /\ Types /\ LockOK /\ TimersOK(deb, coord) /\ MergedOK(deb, past) /\ AskedOK(past)
      /\ FetchOK(coord, past) /\ InformedOK(coord, past) /\ t \in Tasks
  BY DEF Inv, Tasks
<1>0. coord.data \in Nat
  BY <1>t, VersionsAreNaturals DEF Types, CoordinatorType
<1>d. /\ TimerOver(deb) \in DebouncerType
      /\ ~TimerOver(deb).timer /\ ~TimerOver(deb).again /\ TimerOver(deb).down = deb.down
  BY <1>t, DebouncerSteps DEF Types
<1>1. ASSUME NEW p \in PastType, p.asked = (past.asked \ {NoTask}) \cup {t},
             p.raced = past.raced, p.seen = past.seen, p.quiet = past.quiet,
             ~deb.down, ~Locked, TakeLock(t, "finish", TimerOver(deb), coord, p)
      PROVE  Inv' /\ StepOK
  <2> DEFINE d == TimerOver(deb)
  <2>1. /\ d \in DebouncerType /\ ~d.timer /\ ~d.again /\ d.down = deb.down
        /\ TakeLock(t, "finish", d, coord, p)
    BY <1>1, <1>d
  <2> HIDE DEF d
  <2>2. TimersOK(d, coord) /\ MergedOK(d, p)
    BY <1>1, <1>t, <2>1, VersionsAreNaturals DEF TimersOK, MergedOK
  <2>3. InformedOK(coord, p) /\ FetchOK(coord, p)
    BY <1>1, <1>t DEF InformedOK, FetchOK
  <2>4. "finish" \in Kinds /\ "finish" \in Debounced
    BY DEF Kinds, Debounced
  <2>5. /\ Inv' /\ (coord.down => task'[t].at # "updating")
        /\ \A u \in Tasks \ {t} : task'[u] = task[u]
        /\ coord'.data = coord.data
    BY <1>1, <1>t, <2>1, <2>2, <2>3, <2>4, TakeLockKeeps DEF Types
  <2> QED
    BY <1>0, <2>5 DEF StepOK
<1>2. CASE ScheduleCall(t)
  <2>1. /\ Asked(t) \in PastType /\ Asked(t).asked = past.asked \cup {t}
        /\ Asked(t).raced = past.raced /\ Asked(t).seen = past.seen
        /\ Asked(t).quiet = past.quiet
    BY <1>t DEF Asked, Types, PastType
  <2>2. NoTask \notin past.asked /\ ~deb.down /\ ~Locked
    BY <1>2, <1>t DEF MergedOK, ScheduleCall, CallNow
  <2>3. Asked(t).asked = (past.asked \ {NoTask}) \cup {t}
    BY <2>1, <2>2
  <2> QED
    BY <1>1, <1>2, <2>1, <2>2, <2>3 DEF ScheduleCall
<1>3. CASE DebounceFires(t)
  <2>1. deb.timer /\ ~deb.down
    BY <1>3, <1>t DEF DebounceFires, TimersOK
  <2>2. CASE deb.again /\ ~Locked
    <3> DEFINE p == [past EXCEPT !.asked = (@ \ {NoTask}) \cup {t}]
    <3>1. /\ p \in PastType /\ p.asked = (past.asked \ {NoTask}) \cup {t}
          /\ p.raced = past.raced /\ p.seen = past.seen /\ p.quiet = past.quiet
      BY <1>t DEF Types, PastType
    <3>2. TakeLock(t, "finish", TimerOver(deb), coord, p)
      BY <1>3, <2>2 DEF DebounceFires
    <3> HIDE DEF p
    <3> QED
      BY <1>1, <2>1, <2>2, <3>1, <3>2
  <2>3. CASE ~(deb.again /\ ~Locked)
    <3>1. /\ deb' = TimerOver(deb)
          /\ past' = [past EXCEPT !.asked = @ \ {NoTask}]
          /\ owner' = owner /\ waiters' = waiters /\ coord' = coord /\ task' = task
          /\ device' = device
      BY <1>3, <2>3 DEF DebounceFires, lock
    <3>2. /\ past' \in PastType /\ past'.asked = past.asked \ {NoTask}
          /\ past'.raced = past.raced /\ past'.seen = past.seen /\ past'.quiet = past.quiet
      BY <1>t, <3>1 DEF Types, PastType
    <3>3. Types' /\ LockOK'
      BY <1>t, <1>d, <3>1, <3>2 DEF Types, LockOK
    <3>4. TimersOK(deb, coord)' /\ MergedOK(deb, past)' /\ AskedOK(past)'
      BY <1>t, <1>d, <2>1, <3>1, <3>2 DEF TimersOK, MergedOK, AskedOK
    <3>5. FetchOK(coord, past)' /\ InformedOK(coord, past)'
      BY <1>t, <3>1, <3>2 DEF FetchOK, InformedOK
    <3> QED
      BY <1>0, <3>1, <3>3, <3>4, <3>5 DEF Inv, StepOK
  <2> QED
    BY <2>2, <2>3
<1> QED
  BY <1>2, <1>3

LEMMA ResumeKeeps ==
  ASSUME Inv, NEW t \in Tasks, Resume(t) PROVE Inv' /\ StepOK
<1>t. /\ Types /\ LockOK /\ TimersOK(deb, coord) /\ MergedOK(deb, past) /\ AskedOK(past)
      /\ FetchOK(coord, past) /\ InformedOK(coord, past)
  BY DEF Inv
<1>0. coord.data \in Nat
  BY <1>t, VersionsAreNaturals DEF Types, CoordinatorType
<1>1. /\ owner = NoTask /\ waiters # <<>> /\ t = Head(waiters) /\ waiters' = Tail(waiters)
      /\ device' = device
  BY DEF Resume, Locked
<1>2. /\ waiters' \in Seq(Tasks) /\ 1 \in 1..Len(waiters) /\ t = waiters[1]
      /\ Dropped(waiters, 1, waiters')
  BY <1>t, <1>1, TailDrops DEF Types
<1>3. /\ Distinct(waiters')
      /\ \A u : Queued(waiters', u) <=> Queued(waiters, u) /\ u # t
  BY <1>t, <1>2, QueueDropped DEF LockOK, Types
<1>4. LockOKBut(t)
  BY <1>t, <1>1, <1>2, <1>3, VersionsAreNaturals DEF LockOKBut, LockOK
<1> DEFINE kind == task[t].kind
<1>5. PICK k \in Kinds \cup {"none"} : k = kind
  BY <1>t DEF Types, TaskType
<1> HIDE DEF kind
<1>6. Enter(t, k, deb, coord, past)
  BY <1>5 DEF Resume, kind
<1>7. AskedOKBut(t, k, past)
  BY <1>t, <1>5 DEF AskedOKBut, AskedOK, kind
<1>8. coord.data <= device
  BY <1>t DEF FetchOK
<1>9. /\ Inv' /\ (coord.down => task'[t].at # "updating")
      /\ \A u \in Tasks \ {t} : task'[u] = task[u]
      /\ coord'.data = coord.data
  BY <1>t, <1>1, <1>4, <1>6, <1>7, <1>8, EnterKeeps DEF Types
<1> QED
  BY <1>0, <1>9 DEF StepOK

-----------------------------------------------------------------------------
\* What the listeners are told.
LEMMA ToldSteps ==
  ASSUME NEW p \in PastType, NEW c \in CoordinatorType
  PROVE  /\ Told(p, c) \in PastType /\ Told(p, c).asked = p.asked /\ Told(p, c).raced = p.raced
         /\ InformedOK(c, Told(p, c))
<1>1. [data |-> c.data, ok |-> c.ok] \in View
  BY DEF View, CoordinatorType
<1>2. CASE c.listeners = 0
  BY <1>2 DEF Told, InformedOK
<1>3. CASE c.listeners # 0
  BY <1>1, <1>3 DEF Told, InformedOK, PastType
<1> QED
  BY <1>2, <1>3

LEMMA NotToldSteps ==
  ASSUME NEW p \in PastType, NEW c \in CoordinatorType, NEW silent \in BOOLEAN
  PROVE  /\ NotTold(p, c, silent) \in PastType
         /\ NotTold(p, c, silent).asked = p.asked /\ NotTold(p, c, silent).raced = p.raced
         /\ silent => InformedOK(c, NotTold(p, c, silent))
         /\ ~silent => NotTold(p, c, silent) = p
<1>1. Nothing \in View
  BY VersionsAreNaturals DEF Nothing, View
<1>2. CASE c.listeners > 0 /\ silent
  BY <1>1, <1>2 DEF NotTold, InformedOK, PastType
<1>3. CASE ~(c.listeners > 0 /\ silent)
  BY <1>3 DEF NotTold, InformedOK
<1> QED
  BY <1>2, <1>3

LEMMA InformedKept ==
  ASSUME NEW b, NEW c, NEW p, InformedOK(b, p), SameButPoll(c, b)
  PROVE  InformedOK(c, p)
BY DEF InformedOK, SameButPoll

\* The work of a task ends, and with it the task or all but its return.
LEMMA WorkEnds ==
  ASSUME Inv, NEW t \in Tasks, task[t].at \in AtWork, waiters' = waiters,
         NEW kind \in Kinds \cup {"none"}, Release(t) \/ Works(t, kind, "returning")
  PROVE  /\ task' \in [Tasks -> TaskType] /\ LockOK' /\ owner' \in Tasks \cup {NoTask}
         /\ waiters' \in Seq(Tasks)
         /\ task'[t].at \in {"idle", "returning"}
         /\ \A u \in Tasks \ {t} : task'[u] = task[u] /\ task'[u].at \notin AtWork
<1>1. PICK new \in TaskType :
        /\ \/ new.at = "returning" /\ owner' = t
           \/ new.at = "idle" /\ owner' = NoTask
        /\ task' = [task EXCEPT ![t] = new]
  BY VersionsAreNaturals DEF Idle, TaskType, Release, Works
<1>2. owner = t /\ \A u \in Tasks \ {t} : task[u].at \notin AtWork
  BY DEF Inv, LockOK
<1>3. LockOKBut(t)
  BY <1>2 DEF Inv, Types, LockOK, LockOKBut, AtWork
<1>4. /\ task' \in [Tasks -> TaskType] /\ task'[t] = new
      /\ \A u \in Tasks \ {t} : task'[u] = task[u]
      /\ LockOK' /\ owner' \in Tasks \cup {NoTask}
  BY <1>1, <1>3, TaskMoves DEF AtWork
<1> QED
  BY <1>1, <1>2, <1>3, <1>4 DEF LockOKBut

LEMMA TaskEnds ==
  ASSUME Inv, NEW t \in Tasks, task[t].at \in AtWork, Release(t), waiters' = waiters
  PROVE  /\ task' \in [Tasks -> TaskType] /\ LockOK' /\ owner' = NoTask
         /\ waiters' \in Seq(Tasks)
         /\ \A u \in Tasks : task'[u].at \notin AtWork /\ task'[u].at # "updating"
         /\ \A u \in Tasks \ {t} : task'[u] = task[u]
<1>1. /\ task' \in [Tasks -> TaskType] /\ LockOK' /\ waiters' \in Seq(Tasks)
      /\ \A u \in Tasks \ {t} : task'[u] = task[u] /\ task'[u].at \notin AtWork
  BY WorkEnds
<1>2. task'[t].at = "idle" /\ owner' = NoTask
  BY DEF Inv, Types, Release, Idle
<1> QED
  BY <1>1, <1>2 DEF AtWork

\* Whom a refresh that has nothing to say leaves as they are, knows it.
LEMMA QuietIsRight ==
  ASSUME Inv, NEW t \in Tasks, task[t].at = "updating", past.raced = {},
         NEW c, c.listeners = coord.listeners, c.ok \in BOOLEAN,
         c.ok \/ c.data = coord.data,
         ~Notifies(t, c)
  PROVE  InformedOK(c, past)
<1>1. /\ task[t].was = coord.data /\ task[t].prev = coord.ok
      /\ task[t].prev \in BOOLEAN /\ coord.ok \in BOOLEAN
  BY DEF Inv, FetchOK, Types, TaskType, CoordinatorType
<1>2. c.ok = coord.ok /\ c.data = coord.data
  BY <1>1 DEF Notifies
<1> QED
  BY <1>2 DEF Inv, InformedOK

LEMMA EndRefreshKeeps ==
  ASSUME Inv, NEW t \in Tasks, NEW outcome \in Outcomes, NEW data \in Versions,
         data <= device,
         outcome = "ok" => task[t].from <= data,
         outcome # "ok" => data = coord.data,
         EndRefresh(t, outcome, data)
  PROVE  Inv' /\ StepOK
<1>t. /\ Types /\ LockOK /\ TimersOK(deb, coord) /\ MergedOK(deb, past) /\ AskedOK(past)
      /\ FetchOK(coord, past) /\ InformedOK(coord, past)
  BY DEF Inv
<1>1. /\ task[t].at = "updating" /\ past.asked \subseteq {NoTask}
      /\ Release(t) \/ Works(t, task[t].kind, "returning")
      /\ deb' = deb /\ waiters' = waiters /\ device' = device
  BY <1>t DEF EndRefresh, AskedOK
<1>2. /\ task' \in [Tasks -> TaskType] /\ LockOK' /\ owner' \in Tasks \cup {NoTask}
      /\ waiters' \in Seq(Tasks)
      /\ \A u \in Tasks : task'[u].at # "updating"
      /\ \A u \in Tasks \ {t} : task'[u] = task[u]
  <2>1. task[t].kind \in Kinds \cup {"none"}
    BY <1>t DEF Types, TaskType
  <2> QED
    BY <1>1, <2>1, WorkEnds DEF AtWork
<1> DEFINE c == [coord EXCEPT !.ok = outcome = "ok", !.data = data]
           a == c.listeners > 0 /\ outcome \in {"auth", "token"}
           p == [past EXCEPT !.raced = {}, !.auth = a]
           left == Leaves(task[t].kind, outcome)
<1>3. /\ c \in CoordinatorType /\ c.data = data /\ c.ok = (outcome = "ok")
      /\ c.listeners = coord.listeners /\ c.polling = coord.polling /\ c.poll = coord.poll
      /\ c.down = coord.down
  BY <1>t DEF Types, CoordinatorType
<1>4. /\ p \in PastType /\ p.asked = past.asked /\ p.raced = {}
      /\ p.seen = past.seen /\ p.quiet = past.quiet
  <2>1. a \in BOOLEAN
    OBVIOUS
  <2> QED
    BY <1>t, <2>1 DEF Types, PastType
<1>5. /\ coord' = IF PollsOn(outcome) THEN ScheduleRefresh(c) ELSE c
      /\ past' = IF ~left /\ Notifies(t, c) THEN Told(p, c)
                 ELSE NotTold(p, c, left \/ past.raced # {})
  BY DEF EndRefresh
<1>6. left \in BOOLEAN
  BY DEF Leaves
<1> HIDE DEF c, p, left, a
<1>7. /\ SameButPoll(coord', c) /\ (coord'.poll => coord'.polling)
  <2>1. SameButPoll(c, c) /\ (c.poll => c.polling)
    BY <1>t, <1>3 DEF SameButPoll, TimersOK
  <2>2. SameButPoll(ScheduleRefresh(c), c) /\ (ScheduleRefresh(c).poll = c.polling)
    BY <1>3, PollSteps
  <2> QED
    BY <1>5, <2>1, <2>2 DEF SameButPoll
<1>8. /\ past' \in PastType /\ past'.asked = past.asked /\ past'.raced = {}
      /\ InformedOK(c, past')
  <2>1. CASE ~left /\ Notifies(t, c)
    BY <1>3, <1>4, <1>5, <2>1, ToldSteps
  <2>2. CASE ~(~left /\ Notifies(t, c)) /\ (left \/ past.raced # {})
    <3>1. past' = NotTold(p, c, TRUE)
      BY <1>5, <2>2
    <3> QED
      BY <1>3, <1>4, <3>1, NotToldSteps
  <2>3. CASE ~(~left /\ Notifies(t, c)) /\ ~(left \/ past.raced # {})
    <3>1. past' = NotTold(p, c, FALSE)
      BY <1>5, <2>3
    <3>2. past' = p
      BY <1>3, <1>4, <3>1, NotToldSteps
    <3>3. past.raced = {} /\ ~Notifies(t, c)
      BY <2>3
    <3>4. c.ok \in BOOLEAN /\ (c.ok \/ c.data = coord.data)
      BY <1>3
    <3>5. InformedOK(c, past)
      BY <1>1, <1>3, <3>3, <3>4, QuietIsRight
    <3> QED
      BY <1>4, <3>2, <3>5 DEF InformedOK
  <2> QED
    BY <1>6, <2>1, <2>2, <2>3
<1>10. Types'
  BY <1>t, <1>1, <1>2, <1>7, <1>8 DEF Types, SameButPoll
<1>11. TimersOK(deb, coord)'
  BY <1>t, <1>1, <1>3, <1>7 DEF TimersOK, SameButPoll
<1>12. MergedOK(deb, past)'
  BY <1>t, <1>1, <1>8 DEF MergedOK
<1>13. AskedOK(past)'
  BY <1>1, <1>2, <1>8, VersionsAreNaturals DEF AskedOK
<1>14. FetchOK(coord, past)'
  BY <1>1, <1>2, <1>3, <1>7 DEF FetchOK, SameButPoll
<1>15. InformedOK(coord, past)'
  BY <1>7, <1>8, InformedKept
<1>16. StepOK
  <2>1. coord'.data = data /\ data \in Nat /\ coord.data \in Nat /\ task[t].from \in Nat
    BY <1>t, <1>3, <1>7, VersionsAreNaturals DEF SameButPoll, Types, CoordinatorType, TaskType
  <2>2. "data" \notin past.raced => coord.data <= task[t].from
    BY <1>t, <1>1 DEF FetchOK
  <2> QED
    BY <1>2, <2>1, <2>2 DEF StepOK
<1> QED
  BY <1>2, <1>10, <1>11, <1>12, <1>13, <1>14, <1>15, <1>16 DEF Inv

LEMMA FetchesAndFailuresKeep ==
  ASSUME Inv, NEW t \in Tasks, Fetched(t) \/ Fails(t) PROVE Inv' /\ StepOK
<1>t. /\ coord.data \in Versions /\ coord.data <= device /\ device \in Versions
  BY DEF Inv, Types, CoordinatorType, FetchOK
<1>1. CASE Fetched(t)
  <2>1. PICK v \in task[t].from..device : EndRefresh(t, "ok", v)
    BY <1>1 DEF Fetched
  <2>2. task[t].from \in Versions
    BY DEF Inv, Types, TaskType
  <2>3. v \in Versions /\ v <= device /\ task[t].from <= v
    BY <1>t, <2>2, VersionsAreNaturals DEF Versions
  <2> QED
    BY <2>1, <2>3, EndRefreshKeeps DEF Outcomes
<1>2. CASE Fails(t)
  <2>1. PICK outcome \in Outcomes \ {"ok", "cancelled"} : EndRefresh(t, outcome, coord.data)
    BY <1>2 DEF Fails
  <2> QED
    BY <1>t, <2>1, EndRefreshKeeps
<1> QED
  BY <1>1, <1>2

LEMMA ReturnKeeps ==
  ASSUME Inv, NEW t \in Tasks, Return(t) PROVE Inv' /\ StepOK
<1>t. /\ Types /\ LockOK /\ TimersOK(deb, coord) /\ MergedOK(deb, past) /\ AskedOK(past)
      /\ FetchOK(coord, past) /\ InformedOK(coord, past)
  BY DEF Inv
<1>0. coord.data \in Nat
  BY <1>t, VersionsAreNaturals DEF Types, CoordinatorType
<1>1. /\ task[t].at = "returning" /\ past.asked \subseteq {NoTask}
      /\ Release(t) /\ deb' = ScheduleTimer(deb)
      /\ waiters' = waiters /\ coord' = coord /\ device' = device /\ past' = past
  BY <1>t DEF Return, AskedOK
<1>2. /\ task' \in [Tasks -> TaskType] /\ LockOK' /\ owner' = NoTask
      /\ waiters' \in Seq(Tasks)
      /\ \A u \in Tasks : task'[u].at \notin AtWork /\ task'[u].at # "updating"
      /\ \A u \in Tasks \ {t} : task'[u] = task[u]
  BY <1>1, TaskEnds DEF AtWork
<1>3. /\ deb' \in DebouncerType /\ deb'.again = deb.again /\ deb'.down = deb.down
      /\ deb'.timer = ~deb.down
  BY <1>t, <1>1, DebouncerSteps DEF Types
<1>4. Types'
  BY <1>t, <1>1, <1>2, <1>3 DEF Types
<1>5. TimersOK(deb, coord)' /\ MergedOK(deb, past)'
  BY <1>t, <1>1, <1>3 DEF TimersOK, MergedOK
<1>6. AskedOK(past)'
  BY <1>1, <1>2, VersionsAreNaturals DEF AskedOK
<1>7. FetchOK(coord, past)' /\ InformedOK(coord, past)'
  BY <1>t, <1>1, <1>2 DEF FetchOK, InformedOK
<1> QED
  BY <1>0, <1>1, <1>2, <1>4, <1>5, <1>6, <1>7 DEF Inv, StepOK

LEMMA EndSetupKeeps ==
  ASSUME Inv, NEW t \in Tasks, EndSetup(t) PROVE Inv' /\ StepOK
<1>t. /\ Types /\ LockOK /\ TimersOK(deb, coord) /\ MergedOK(deb, past) /\ AskedOK(past)
      /\ FetchOK(coord, past) /\ InformedOK(coord, past)
  BY DEF Inv
<1>0. coord.data \in Nat /\ coord.data <= device
  BY <1>t, VersionsAreNaturals DEF Types, CoordinatorType, FetchOK
<1>1. task[t].at = "setup" /\ waiters' = waiters /\ device' = device
  BY DEF EndSetup
<1>2. CASE Refresh(t, "first", deb, coord, past)
  <2>1. owner = t
    BY <1>t, <1>1 DEF LockOK, AtWork
  <2>2. LockOKBut(t)
    BY <1>t, <1>1, <2>1 DEF LockOKBut, LockOK, Types, AtWork
  <2>3. /\ Inv' /\ (coord.down => task'[t].at = "idle")
        /\ \A u \in Tasks \ {t} : task'[u] = task[u]
        /\ coord'.data = coord.data
    BY <1>0, <1>1, <1>2, <1>t, <2>2, RefreshKeeps DEF Types, Kinds
  <2> QED
    BY <1>0, <2>3 DEF StepOK
<1>3. CASE /\ Release(t)
           /\ coord' = [coord EXCEPT !.ok = FALSE]
           /\ past' = NotTold([past EXCEPT !.raced = {}], coord, TRUE)
           /\ UNCHANGED deb
  <2>1. /\ task' \in [Tasks -> TaskType] /\ LockOK' /\ owner' = NoTask
        /\ waiters' \in Seq(Tasks)
        /\ \A u \in Tasks : task'[u].at \notin {"updating", "returning"}
        /\ \A u \in Tasks \ {t} : task'[u] = task[u]
    BY <1>1, <1>3, TaskEnds DEF AtWork
  <2> DEFINE p == [past EXCEPT !.raced = {}]
  <2>2. p \in PastType /\ p.asked = past.asked /\ p.raced = {}
    BY <1>t DEF Types, PastType
  <2>3. past' = NotTold(p, coord, TRUE)
    BY <1>3
  <2> HIDE DEF p
  <2>4. /\ past' \in PastType /\ past'.asked = past.asked /\ past'.raced = {}
    BY <1>t, <2>2, <2>3, NotToldSteps DEF Types
  <2>5. coord.listeners > 0 => past'.quiet
    BY <2>2, <2>3 DEF NotTold, PastType
  <2>6. /\ coord' \in CoordinatorType /\ coord'.data = coord.data /\ coord'.down = coord.down
        /\ coord'.listeners = coord.listeners /\ coord'.poll = coord.poll
        /\ coord'.polling = coord.polling
    BY <1>3, <1>t DEF Types, CoordinatorType
  <2>7. Types'
    BY <1>1, <1>3, <1>t, <2>1, <2>4, <2>6 DEF Types
  <2>8. TimersOK(deb, coord)' /\ MergedOK(deb, past)'
    BY <1>3, <1>t, <2>4, <2>6 DEF TimersOK, MergedOK
  <2>9. AskedOK(past)'
    <3>1. t \notin past.asked
      BY <1>1, <1>t DEF AskedOK
    <3> QED
      BY <1>t, <2>1, <2>4, <3>1 DEF AskedOK
  <2>10. FetchOK(coord, past)' /\ InformedOK(coord, past)'
    BY <1>0, <1>1, <2>1, <2>5, <2>6 DEF FetchOK, InformedOK
  <2> QED
    BY <1>0, <2>1, <2>6, <2>7, <2>8, <2>9, <2>10 DEF Inv, StepOK
<1> QED
  BY <1>2, <1>3 DEF EndSetup

LEMMA CancelKeeps ==
  ASSUME Inv, NEW t \in Tasks, Cancel(t) PROVE Inv' /\ StepOK
<1>t. /\ Types /\ LockOK /\ TimersOK(deb, coord) /\ MergedOK(deb, past) /\ AskedOK(past)
      /\ FetchOK(coord, past) /\ InformedOK(coord, past)
  BY DEF Inv
<1>0. coord.data \in Nat /\ coord.data \in Versions /\ coord.data <= device
  BY <1>t, VersionsAreNaturals DEF Types, CoordinatorType, FetchOK
<1>1. CASE /\ task[t].at = "waiting"
           /\ \E i \in 1..Len(waiters) :
                waiters[i] = t /\ waiters' = Seqs!RemoveAt(waiters, i)
           /\ task' = [task EXCEPT ![t] = Idle]
           /\ past' = [past EXCEPT !.asked = @ \ {t}]
           /\ UNCHANGED <<deb, owner, coord, device>>
  <2>1. Idle \in TaskType /\ Idle.at = "idle"
    BY VersionsAreNaturals DEF Idle, TaskType
  <2>2. /\ task' \in [Tasks -> TaskType] /\ task'[t] = Idle
        /\ \A u \in Tasks \ {t} : task'[u] = task[u]
    BY <1>1, <1>t, <2>1 DEF Types
  <2>3. PICK i \in 1..Len(waiters) :
          waiters[i] = t /\ waiters' = Seqs!RemoveAt(waiters, i)
    BY <1>1
  <2>4. waiters' \in Seq(Tasks) /\ Dropped(waiters, i, waiters')
    BY <1>t, <2>3, RemoveAtDrops DEF Types, Seqs!RemoveAt
  <2>5. /\ Distinct(waiters')
        /\ \A u : Queued(waiters', u) <=> Queued(waiters, u) /\ u # t
    BY <1>t, <2>3, <2>4, QueueDropped DEF Types, LockOK
  <2>6. LockOK'
    <3>1. ASSUME NEW u \in Tasks PROVE Queued(waiters', u) <=> task'[u].at = "waiting"
      BY <1>t, <2>1, <2>2, <2>5 DEF LockOK
    <3>2. ASSUME NEW u \in Tasks PROVE owner' = u <=> task'[u].at \in AtWork
      BY <1>1, <1>t, <2>1, <2>2 DEF LockOK, AtWork
    <3> QED
      BY <2>5, <3>1, <3>2 DEF LockOK
  <2>7. /\ past' \in PastType /\ past'.asked = past.asked \ {t}
        /\ past'.raced = past.raced /\ past'.seen = past.seen /\ past'.quiet = past.quiet
    BY <1>1, <1>t DEF Types, PastType
  <2>8. Types'
    BY <1>1, <1>t, <2>2, <2>4, <2>7 DEF Types
  <2>9. TimersOK(deb, coord)' /\ MergedOK(deb, past)' /\ InformedOK(coord, past)'
    BY <1>1, <1>t, <2>7 DEF TimersOK, MergedOK, InformedOK
  <2>10. AskedOK(past)' /\ FetchOK(coord, past)'
    BY <1>1, <1>t, <2>1, <2>2, <2>7 DEF AskedOK, FetchOK
  <2>11. StepOK
    BY <1>0, <1>1, <2>1, <2>2 DEF StepOK
  <2> QED
    BY <2>6, <2>8, <2>9, <2>10, <2>11 DEF Inv
<1>2. CASE /\ task[t].at = "setup"
           /\ Release(t)
           /\ past' = [past EXCEPT !.raced = {}]
           /\ UNCHANGED <<deb, waiters, coord, device>>
  <2>1. /\ task' \in [Tasks -> TaskType] /\ LockOK' /\ owner' = NoTask
        /\ waiters' \in Seq(Tasks)
        /\ \A u \in Tasks : task'[u].at \notin {"updating", "returning"}
        /\ \A u \in Tasks \ {t} : task'[u] = task[u]
    BY <1>2, TaskEnds DEF AtWork
  <2>2. /\ past' \in PastType /\ past'.asked = past.asked
        /\ past'.seen = past.seen /\ past'.quiet = past.quiet
    BY <1>2, <1>t DEF Types, PastType
  <2>3. Types'
    BY <1>2, <1>t, <2>1, <2>2 DEF Types
  <2>4. TimersOK(deb, coord)' /\ MergedOK(deb, past)' /\ InformedOK(coord, past)'
    BY <1>2, <1>t, <2>2 DEF TimersOK, MergedOK, InformedOK
  <2>5. AskedOK(past)' /\ FetchOK(coord, past)'
    <3>1. t \notin past.asked
      BY <1>2, <1>t DEF AskedOK
    <3> QED
      BY <1>2, <1>t, <2>1, <2>2, <3>1 DEF AskedOK, FetchOK
  <2> QED
    BY <1>0, <1>2, <2>1, <2>3, <2>4, <2>5 DEF Inv, StepOK
<1>3. CASE EndRefresh(t, "cancelled", coord.data)
  BY <1>0, <1>3, EndRefreshKeeps DEF Outcomes
<1> QED
  BY <1>1, <1>2, <1>3 DEF Cancel

-----------------------------------------------------------------------------
LEMMA ListenerStepsKeep ==
  ASSUME Inv, AddListener \/ RemoveListener PROVE Inv' /\ StepOK
<1>t. /\ Types /\ LockOK /\ TimersOK(deb, coord) /\ MergedOK(deb, past) /\ AskedOK(past)
      /\ FetchOK(coord, past) /\ InformedOK(coord, past)
  BY DEF Inv
<1>0. /\ coord.data \in Nat /\ coord.listeners \in Nat /\ MaxListeners \in Nat
      /\ coord.listeners \in 0..MaxListeners /\ coord \in CoordinatorType
  <2>1. coord \in CoordinatorType /\ coord.data \in Versions /\ coord.listeners \in 0..MaxListeners
    BY <1>t DEF Types, CoordinatorType
  <2>2. MaxListeners \in Nat /\ Versions \subseteq Nat
    BY VersionsAreNaturals
  <2>3. coord.listeners \in Nat
    BY <2>1, <2>2
  <2>4. coord.data \in Nat
    BY <2>1, <2>2
  <2> QED
    BY <2>1, <2>2, <2>3, <2>4
<1>1. owner' = owner /\ waiters' = waiters /\ task' = task /\ device' = device
  BY DEF AddListener, RemoveListener, lock
<1>2. ASSUME NEW c \in CoordinatorType, SameButPoll(coord', c), c.data = coord.data, c.ok = coord.ok,
             c.down = coord.down, coord'.poll => coord'.polling,
             deb' = deb \/ deb' = CancelTimer(deb),
             past' \in PastType, past'.raced = past.raced,
             \/ past'.asked = past.asked /\ deb' = deb
             \/ past'.asked = past.asked \ {NoTask},
             InformedOK(c, past')
      PROVE  Inv' /\ StepOK
  <2>1. /\ deb' \in DebouncerType /\ deb'.down = deb.down
        /\ (deb'.again => deb'.timer /\ deb.again) /\ (deb'.timer => deb.timer)
        /\ (deb'.timer /\ deb.again => deb'.again)
    BY <1>2, <1>t, DebouncerSteps DEF Types, TimersOK
  <2>2. Types'
    BY <1>1, <1>2, <1>t, <2>1 DEF Types, SameButPoll
  <2>3. LockOK' /\ AskedOK(past)' /\ FetchOK(coord, past)'
    BY <1>1, <1>2, <1>t DEF LockOK, AskedOK, FetchOK, SameButPoll
  <2>4. TimersOK(deb, coord)'
    BY <1>2, <1>t, <2>1 DEF TimersOK, SameButPoll
  <2>5. MergedOK(deb, past)'
    BY <1>2, <1>t, <2>1 DEF MergedOK
  <2>6. InformedOK(coord, past)'
    BY <1>2, InformedKept
  <2> QED
    BY <1>0, <1>1, <1>2, <2>2, <2>3, <2>4, <2>5, <2>6 DEF Inv, StepOK, SameButPoll
<1>3. CASE AddListener
  <2> DEFINE more == [coord EXCEPT !.listeners = @ + 1]
  <2>1. /\ more \in CoordinatorType /\ SameButPoll(more, more) /\ more.poll = coord.poll
        /\ more.data = coord.data /\ more.ok = coord.ok /\ more.down = coord.down
        /\ more.listeners = coord.listeners + 1 /\ more.polling = coord.polling
    <3>1. coord.listeners + 1 \in 0..MaxListeners
      BY <1>0, <1>3 DEF AddListener
    <3>2. more.listeners = coord.listeners + 1
      BY <1>0 DEF CoordinatorType
    <3>3. /\ more.poll = coord.poll /\ more.data = coord.data /\ more.ok = coord.ok
          /\ more.down = coord.down /\ more.polling = coord.polling
      BY <1>0 DEF CoordinatorType
    <3>4. more \in CoordinatorType
      BY <1>0, <3>1 DEF CoordinatorType
    <3> HIDE DEF more
    <3> QED
      BY <3>2, <3>3, <3>4 DEF SameButPoll
  <2>2. IF coord.listeners = 0
        THEN coord' = ScheduleRefresh(more) /\ past' = Told(past, more)
        ELSE coord' = more /\ past' = past
    BY <1>3 DEF AddListener
  <2>d. deb' = deb
    BY <1>3 DEF AddListener
  <2> HIDE DEF more
  <2>3. CASE coord.listeners = 0
    <3>1. /\ past' \in PastType /\ past'.asked = past.asked /\ past'.raced = past.raced
          /\ InformedOK(more, past')
      BY <1>t, <2>1, <2>2, <2>3, ToldSteps DEF Types
    <3>2. SameButPoll(coord', more) /\ (coord'.poll => coord'.polling)
      <4>1. SameButPoll(ScheduleRefresh(more), more) /\ (ScheduleRefresh(more).poll = more.polling)
        BY <2>1, PollSteps
      <4>2. coord' = ScheduleRefresh(more)
        BY <2>2, <2>3
      <4> QED
        BY <4>1, <4>2 DEF SameButPoll
    <3> QED
      BY <1>2, <2>1, <2>d, <3>1, <3>2
  <2>4. CASE coord.listeners # 0
    <3>1. InformedOK(more, past')
      BY <1>0, <1>t, <2>1, <2>2, <2>4 DEF InformedOK
    <3>2. SameButPoll(coord', more) /\ (coord'.poll => coord'.polling)
      BY <1>t, <2>1, <2>2, <2>4 DEF TimersOK
    <3>3. past' = past /\ past' \in PastType
      BY <1>t, <2>2, <2>4 DEF Types
    <3> QED
      BY <1>2, <2>1, <2>d, <3>1, <3>2, <3>3
  <2> QED
    BY <2>3, <2>4
<1>4. CASE RemoveListener
  <2> DEFINE fewer == [coord EXCEPT !.listeners = @ - 1]
  <2>1. /\ fewer \in CoordinatorType /\ SameButPoll(fewer, fewer) /\ fewer.poll = coord.poll
        /\ fewer.data = coord.data /\ fewer.ok = coord.ok /\ fewer.down = coord.down
        /\ fewer.listeners = coord.listeners - 1 /\ fewer.polling = coord.polling
    <3>1. coord.listeners - 1 \in 0..MaxListeners
      BY <1>0, <1>4 DEF RemoveListener
    <3>2. fewer.listeners = coord.listeners - 1
      BY <1>0 DEF CoordinatorType
    <3>3. /\ fewer.poll = coord.poll /\ fewer.data = coord.data /\ fewer.ok = coord.ok
          /\ fewer.down = coord.down /\ fewer.polling = coord.polling
      BY <1>0 DEF CoordinatorType
    <3>4. fewer \in CoordinatorType
      BY <1>0, <3>1 DEF CoordinatorType
    <3> HIDE DEF fewer
    <3> QED
      BY <3>2, <3>3, <3>4 DEF SameButPoll
  <2>2. /\ coord.listeners > 0
        /\ IF coord.listeners = 1
           THEN /\ coord' = [fewer EXCEPT !.poll = FALSE]
                /\ deb' = CancelTimer(deb)
                /\ past' = [past EXCEPT !.asked = @ \ {NoTask}, !.auth = FALSE,
                                        !.seen = Nothing, !.quiet = FALSE]
           ELSE coord' = fewer /\ deb' = deb /\ past' = past
    BY <1>4 DEF RemoveListener
  <2> HIDE DEF fewer
  <2>3. CASE coord.listeners = 1
    <3>1. Nothing \in View
      BY VersionsAreNaturals DEF Nothing, View
    <3>2. /\ past' \in PastType /\ past'.asked = past.asked \ {NoTask}
          /\ past'.raced = past.raced
      <4>1. past' = [past EXCEPT !.asked = @ \ {NoTask}, !.auth = FALSE,
                                 !.seen = Nothing, !.quiet = FALSE]
        BY <2>2, <2>3
      <4>2. past \in PastType
        BY <1>t DEF Types
      <4> QED
        BY <3>1, <4>1, <4>2 DEF PastType
    <3>3. InformedOK(fewer, past')
      BY <2>1, <2>3 DEF InformedOK
    <3>4. SameButPoll(coord', fewer) /\ (coord'.poll => coord'.polling)
      BY <2>1, <2>2, <2>3, PollSteps
    <3> QED
      BY <1>2, <2>1, <2>2, <2>3, <3>2, <3>3, <3>4
  <2>4. CASE coord.listeners # 1
    <3>1. InformedOK(fewer, past')
      BY <1>t, <2>1, <2>2, <2>4 DEF InformedOK
    <3>2. SameButPoll(coord', fewer) /\ (coord'.poll => coord'.polling)
      BY <1>t, <2>1, <2>2, <2>4 DEF TimersOK
    <3>3. past' = past /\ past' \in PastType /\ deb' = deb
      BY <1>t, <2>2, <2>4 DEF Types
    <3> QED
      BY <1>2, <2>1, <3>1, <3>2, <3>3
  <2> QED
    BY <2>3, <2>4
<1> QED
  BY <1>3, <1>4

LEMMA PushesKeep ==
  ASSUME Inv, SetUpdatedData \/ SetUpdateError PROVE Inv' /\ StepOK
<1>t. /\ Types /\ LockOK /\ TimersOK(deb, coord) /\ MergedOK(deb, past) /\ AskedOK(past)
      /\ FetchOK(coord, past) /\ InformedOK(coord, past)
  BY DEF Inv
<1>0. /\ coord.data \in Nat /\ device \in Nat /\ coord.data <= device
      /\ coord \in CoordinatorType
      /\ \A t \in Tasks : task[t].from \in Nat
  BY <1>t, VersionsAreNaturals DEF Types, CoordinatorType, FetchOK, TaskType
<1>1. owner' = owner /\ waiters' = waiters /\ task' = task
  BY DEF SetUpdatedData, SetUpdateError, lock
<1>2. ASSUME NEW t \in Tasks, task[t].at = "updating" PROVE Locked
  BY <1>2, <1>t, VersionsAreNaturals DEF LockOK, AtWork, Locked
<1>3. CASE SetUpdatedData
  <2> DEFINE raced == IF Locked THEN past.raced \cup {"data"} ELSE past.raced
             c == [coord EXCEPT !.data = device', !.ok = TRUE, !.poll = FALSE]
             p == [past EXCEPT !.asked = @ \ {NoTask}, !.auth = FALSE, !.raced = raced]
  <2>1. device' = device + 1 /\ device' \in Versions
    BY <1>0, <1>3, VersionsAreNaturals DEF SetUpdatedData, Versions
  <2>2. /\ c \in CoordinatorType /\ c.data = device' /\ ~c.poll
        /\ c.polling = coord.polling /\ c.down = coord.down /\ SameButPoll(c, c)
    BY <1>0, <2>1 DEF CoordinatorType, SameButPoll
  <2>3. raced \subseteq {"data", "error"}
    BY <1>t DEF Types, PastType
  <2>4. /\ deb' = CancelTimer(deb)
        /\ coord' = IF coord.listeners > 0 THEN ScheduleRefresh(c) ELSE c
        /\ past' = Told(p, c)
    BY <1>3 DEF SetUpdatedData
  <2>5. /\ p \in PastType /\ p.asked = past.asked \ {NoTask} /\ p.raced = raced
    <3> HIDE DEF raced
    <3> QED
      BY <1>t, <2>3 DEF Types, PastType
  <2> HIDE DEF c, p
  <2>6. /\ past' \in PastType /\ past'.asked = past.asked \ {NoTask} /\ past'.raced = raced
        /\ InformedOK(c, past')
    BY <2>2, <2>4, <2>5, ToldSteps
  <2>7. SameButPoll(coord', c) /\ (coord'.poll => coord'.polling)
    BY <2>2, <2>4, PollSteps DEF SameButPoll
  <2>8. /\ deb' \in DebouncerType /\ ~deb'.timer /\ ~deb'.again /\ deb'.down = deb.down
    BY <1>t, <2>4, DebouncerSteps DEF Types
  <2>9. Types' /\ LockOK'
    BY <1>1, <1>t, <2>1, <2>6, <2>7, <2>8 DEF Types, LockOK, SameButPoll
  <2>10. TimersOK(deb, coord)' /\ MergedOK(deb, past)'
    BY <1>t, <2>2, <2>6, <2>7, <2>8 DEF TimersOK, MergedOK, SameButPoll
  <2>11. AskedOK(past)'
    BY <1>1, <1>t, <2>6 DEF AskedOK
  <2>12. FetchOK(coord, past)'
    <3>1. ASSUME NEW t \in Tasks, task[t].at = "updating"
          PROVE  "data" \in raced /\ task[t].from <= device'
      BY <1>0, <1>2, <1>t, <2>1, <3>1 DEF FetchOK
    <3>2. coord'.data = device' /\ device' <= device'
      BY <2>1, <2>2, <2>7, <1>0 DEF SameButPoll
    <3> QED
      BY <1>1, <2>6, <3>1, <3>2 DEF FetchOK
  <2>13. InformedOK(coord, past)'
    BY <2>6, <2>7, InformedKept
  <2>14. StepOK
    BY <1>0, <1>1, <2>1, <2>2, <2>7 DEF StepOK, SameButPoll
  <2> QED
    BY <2>9, <2>10, <2>11, <2>12, <2>13, <2>14 DEF Inv
<1>4. CASE SetUpdateError
  <2> DEFINE raced == IF Locked THEN past.raced \cup {"error"} ELSE past.raced
             p == [past EXCEPT !.raced = raced]
  <2>1. raced \subseteq {"data", "error"}
    BY <1>t DEF Types, PastType
  <2>2. /\ p \in PastType /\ p.asked = past.asked /\ p.raced = raced
    <3> HIDE DEF raced
    <3> QED
      BY <1>t, <2>1 DEF Types, PastType
  <2>3. /\ coord' = [coord EXCEPT !.ok = FALSE] /\ past' = Told(p, coord')
        /\ deb' = deb /\ device' = device
    BY <1>4 DEF SetUpdateError
  <2> HIDE DEF p
  <2>4. /\ coord' \in CoordinatorType /\ coord'.data = coord.data /\ coord'.poll = coord.poll
        /\ coord'.polling = coord.polling /\ coord'.down = coord.down
    BY <1>0, <2>3 DEF CoordinatorType
  <2>5. PICK c \in CoordinatorType : c = coord'
    BY <2>4
  <2>6. /\ past' \in PastType /\ past'.asked = past.asked /\ past'.raced = raced
        /\ InformedOK(c, past')
    BY <2>2, <2>3, <2>5, ToldSteps
  <2>7. Types' /\ LockOK' /\ AskedOK(past)'
    BY <1>1, <1>t, <2>3, <2>4, <2>6 DEF Types, LockOK, AskedOK
  <2>8. TimersOK(deb, coord)' /\ MergedOK(deb, past)' /\ InformedOK(coord, past)'
    BY <1>t, <2>3, <2>4, <2>5, <2>6 DEF TimersOK, MergedOK, InformedOK
  <2>9. FetchOK(coord, past)'
    <3>1. ASSUME NEW t \in Tasks, task[t].at = "updating"
          PROVE  /\ "error" \in raced /\ task[t].from <= device
                 /\ "data" \notin raced => coord.data <= task[t].from
      BY <1>2, <1>t, <3>1 DEF FetchOK
    <3> QED
      BY <1>0, <1>1, <2>3, <2>4, <2>6, <3>1 DEF FetchOK
  <2> QED
    BY <1>0, <1>1, <2>4, <2>7, <2>8, <2>9 DEF Inv, StepOK
<1> QED
  BY <1>3, <1>4

LEMMA EnvironmentKeeps ==
  ASSUME Inv, DeviceChanges \/ Shutdown \/ Stop \/ UNCHANGED vars PROVE Inv' /\ StepOK
<1>t. /\ Types /\ LockOK /\ TimersOK(deb, coord) /\ MergedOK(deb, past) /\ AskedOK(past)
      /\ FetchOK(coord, past) /\ InformedOK(coord, past)
  BY DEF Inv
<1>0. /\ coord.data \in Nat /\ device \in Nat /\ coord.data <= device
      /\ coord \in CoordinatorType
      /\ \A t \in Tasks : task[t].from \in Nat
  BY <1>t, VersionsAreNaturals DEF Types, CoordinatorType, FetchOK, TaskType
<1>1. owner' = owner /\ waiters' = waiters /\ task' = task
  BY DEF DeviceChanges, Shutdown, Stop, vars, lock
<1>2. CASE DeviceChanges \/ UNCHANGED vars
  <2>1. /\ deb' = deb /\ coord' = coord /\ past' = past
        /\ device' \in Versions /\ device' \in Nat /\ device' >= device
    BY <1>0, <1>2, <1>t, VersionsAreNaturals DEF DeviceChanges, vars, Versions, Types
  <2>2. Types' /\ LockOK' /\ AskedOK(past)'
    BY <1>1, <1>t, <2>1 DEF Types, LockOK, AskedOK
  <2>3. TimersOK(deb, coord)' /\ MergedOK(deb, past)' /\ InformedOK(coord, past)'
    BY <1>t, <2>1 DEF TimersOK, MergedOK, InformedOK
  <2>4. FetchOK(coord, past)'
    <3>1. coord.data <= device'
      BY <1>0, <2>1
    <3>2. ASSUME NEW t \in Tasks, task[t].at = "updating" PROVE task[t].from <= device'
      BY <1>0, <1>t, <2>1, <3>2 DEF FetchOK
    <3> QED
      BY <1>1, <1>t, <2>1, <3>1, <3>2 DEF FetchOK
  <2> QED
    BY <1>0, <1>1, <2>1, <2>2, <2>3, <2>4 DEF Inv, StepOK
<1>3. CASE Shutdown
  <2>1. /\ deb' \in DebouncerType /\ ~deb'.timer /\ ~deb'.again /\ deb'.down
    BY <1>3, <1>t, DebouncerSteps DEF Shutdown, Types
  <2>2. /\ coord' \in CoordinatorType /\ coord'.down /\ ~coord'.poll
        /\ coord'.data = coord.data /\ coord'.ok = coord.ok
        /\ coord'.listeners = coord.listeners
    BY <1>0, <1>3 DEF Shutdown, CoordinatorType
  <2>3. /\ past' \in PastType /\ past'.asked = {} /\ past'.raced = past.raced
        /\ past'.seen = past.seen /\ past'.quiet = past.quiet /\ device' = device
    BY <1>3, <1>t DEF Shutdown, Types, PastType
  <2>4. Types' /\ LockOK' /\ AskedOK(past)'
    BY <1>1, <1>t, <2>1, <2>2, <2>3 DEF Types, LockOK, AskedOK
  <2>5. TimersOK(deb, coord)' /\ MergedOK(deb, past)' /\ InformedOK(coord, past)'
    BY <1>t, <2>1, <2>2, <2>3 DEF TimersOK, MergedOK, InformedOK
  <2>6. FetchOK(coord, past)'
    BY <1>1, <1>t, <2>2, <2>3 DEF FetchOK
  <2> QED
    BY <1>0, <1>1, <2>2, <2>4, <2>5, <2>6 DEF Inv, StepOK
<1>4. CASE Stop
  <2>1. /\ coord' \in CoordinatorType /\ ~coord'.poll /\ coord'.down = coord.down
        /\ coord'.data = coord.data /\ coord'.ok = coord.ok
        /\ coord'.listeners = coord.listeners
        /\ deb' = deb /\ device' = device /\ past' = past
    BY <1>0, <1>4 DEF Stop, CoordinatorType
  <2>2. Types' /\ LockOK' /\ AskedOK(past)'
    BY <1>1, <1>t, <2>1 DEF Types, LockOK, AskedOK
  <2>3. TimersOK(deb, coord)' /\ MergedOK(deb, past)' /\ InformedOK(coord, past)'
    BY <1>t, <2>1 DEF TimersOK, MergedOK, InformedOK
  <2>4. FetchOK(coord, past)'
    BY <1>1, <1>t, <2>1 DEF FetchOK
  <2> QED
    BY <1>0, <1>1, <2>1, <2>2, <2>3, <2>4 DEF Inv, StepOK
<1> QED
  BY <1>2, <1>3, <1>4

LEMMA NextInv == Inv /\ [Next]_vars => Inv' /\ StepOK
<1> SUFFICES ASSUME Inv, [Next]_vars PROVE Inv' /\ StepOK
  OBVIOUS
<1>1. CASE AddListener \/ RemoveListener
  BY <1>1, ListenerStepsKeep
<1>2. CASE SetUpdatedData \/ SetUpdateError
  BY <1>2, PushesKeep
<1>3. CASE DeviceChanges \/ Shutdown \/ Stop \/ UNCHANGED vars
  BY <1>3, EnvironmentKeeps
<1>4. ASSUME NEW t \in Callers, RequestRefresh(t) \/ RefreshNow(t) \/ FirstRefresh(t)
      PROVE  Inv' /\ StepOK
  BY <1>4, RequestRefreshKeeps, CallersKeep
<1>5. ASSUME NEW t \in Pollers, PollFires(t) PROVE Inv' /\ StepOK
  BY <1>5, CallersKeep
<1>6. ASSUME NEW t \in Finishers, ScheduleCall(t) \/ DebounceFires(t) PROVE Inv' /\ StepOK
  BY <1>6, FinishersKeep
<1>7. ASSUME NEW t \in Tasks,
             \/ Resume(t) \/ EndSetup(t) \/ Fetched(t) \/ Fails(t) \/ Return(t)
             \/ Cancel(t)
      PROVE  Inv' /\ StepOK
  BY <1>7, ResumeKeeps, EndSetupKeeps, FetchesAndFailuresKeep, ReturnKeeps, CancelKeeps
<1> QED
  BY <1>1, <1>2, <1>3, <1>4, <1>5, <1>6, <1>7 DEF Next

-----------------------------------------------------------------------------
(***************************************************************************)
(* The theorems                                                            *)
(***************************************************************************)
LEMMA Invariance == Spec => []Inv
BY InitInv, NextInv, PTL DEF Spec

\* The coordinator, its debouncer and the lock are in states the code can be
\* in: the holder of the lock is the one task at work, the queue holds the
\* tasks that wait, and after async_shutdown no timer is set.
THEOREM TypeCorrect == Spec => []TypeOK
BY Invariance, InvImpliesTypeOK, PTL

\* async_request_refresh is not forgotten, whatever interleaving of callers,
\* timers, pushes, cancellations and failures: until a refresh begins, a timer
\* that will run it is set or a task that will refresh is queued.
THEOREM RequestsKept == Spec => []RequestKept
BY Invariance, InvImpliesRequestKept, PTL

\* async_update_listeners is called for each change that a listener should
\* know of, although a refresh compares with what it read before its await.
THEOREM AllListenersInformed == Spec => []ListenersInformed
BY Invariance, InvImpliesListenersInformed, PTL

\* _async_refresh never replaces data by older data, unless
\* async_set_updated_data ran while the fetch was awaited.
THEOREM DataIsNotOld == Spec => NoOldData
<1>1. Inv /\ [Next]_vars => [coord'.data < coord.data => "data" \in past.raced]_vars
  BY NextInv DEF StepOK
<1> QED
  BY <1>1, Invariance, PTL DEF Spec, NoOldData

\* After async_shutdown no task begins an update, not even one that was queued
\* for the lock when it was called.
THEOREM SilentAfterShutdown == Spec => NoUpdateAfterShutdown
<1>1. Inv /\ [Next]_vars =>
        [coord.down =>
           \A t \in Tasks : task'[t].at = "updating" => task[t].at = "updating"]_vars
  BY NextInv DEF StepOK
<1> QED
  BY <1>1, Invariance, PTL DEF Spec, NoUpdateAfterShutdown
=============================================================================
