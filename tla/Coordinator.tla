----------------------------- MODULE Coordinator -----------------------------
(***************************************************************************)
(* homeassistant/helpers/update_coordinator.py, DataUpdateCoordinator: one *)
(* object that fetches data for many listeners, on a timer, on request     *)
(* through its Debouncer, or when an integration asks for it.              *)
(*                                                                         *)
(* Every refresh runs under the debouncer's lock.  A step is the code      *)
(* between two awaits.  The data is the number of the state the device was *)
(* in when it was fetched, 0 for None.                                     *)
(***************************************************************************)
EXTENDS Naturals, Debouncer

CONSTANTS
  Callers,      \* tasks that call the coordinator
  Pollers,      \* tasks of the refresh interval: bound on overlapping ones
  Finishers,    \* tasks of the debouncer's timer: bound on overlapping ones
  MaxListeners, \* bound: the number of listeners
  MaxVersion,   \* bound: the number of states of the device
  Options       \* the coordinators to consider, see OptionsType

OptionsType ==
  [immediate : BOOLEAN,   \* of the debouncer
   polling   : BOOLEAN,   \* there is an interval, and polling is enabled
   always    : BOOLEAN]   \* always_update

ASSUME CoordinatorAssumption ==
  /\ Options \subseteq OptionsType
  /\ NoTask \notin Callers \cup Pollers \cup Finishers
  /\ Callers \cap Pollers = {}
  /\ Callers \cap Finishers = {}
  /\ Pollers \cap Finishers = {}
  /\ MaxListeners \in Nat
  /\ MaxVersion \in Nat \ {0}

VARIABLES
  coord,    \* the coordinator, see CoordinatorType
  task,     \* where each task is, and the local variables of its refresh
  device,   \* the state the device is in
  past      \* history: what was asked and what the listeners were told

lock == <<owner, waiters>>
vars == <<deb, lock, coord, task, device, past>>

Tasks == Callers \cup Pollers \cup Finishers
Versions == 0..MaxVersion
View == [data : Versions, ok : BOOLEAN]

CoordinatorType ==
  [data      : Versions,           \* data
   ok        : BOOLEAN,            \* last_update_success
   listeners : 0..MaxListeners,    \* how many there are in _listeners
   poll      : BOOLEAN,            \* the refresh interval's timer is armed
   polling   : BOOLEAN,
   always    : BOOLEAN,
   setup     : BOOLEAN,            \* the entry's set-up may still refresh it
   down      : BOOLEAN,            \* _shutdown_requested
   stopping  : BOOLEAN]            \* hass.is_stopping

\* What a task was started for: async_request_refresh, async_refresh,
\* async_config_entry_first_refresh, _handle_refresh_interval or the
\* debouncer's _handle_timer_finish.
Kinds == {"request", "refresh", "first", "poll", "finish"}

TaskType ==
  [kind : Kinds \cup {"none"},
   at   : {"idle", "waiting", "setup", "updating", "returning"},
   prev : BOOLEAN,     \* previous_update_success
   was  : Versions,    \* previous_data
   from : Versions]    \* history: the device's state when the fetch began

Idle == [kind |-> "none", at |-> "idle", prev |-> FALSE, was |-> 0, from |-> 0]

Nothing == [data |-> 0, ok |-> TRUE]

PastType ==
  [asked  : SUBSET (Tasks \cup {NoTask}),
                          \* whose requests wait: of a waiting task, or
                          \* (NoTask) merged into the debouncer's timer
   auth   : BOOLEAN,      \* the last refresh ended in a failed authentication
   seen   : View,         \* what the listeners were last told, if any
   quiet  : BOOLEAN,      \* they were not told of a change, for a reason
   raced  : SUBSET {"data", "error"}]
                          \* set by hand under the lock, since a refresh began

TypeOK ==
  /\ deb \in DebouncerType
  /\ owner \in Tasks \cup {NoTask}
  /\ waiters \in Seq(Tasks)
  /\ coord \in CoordinatorType
  /\ task \in [Tasks -> TaskType]
  /\ device \in Versions
  /\ past \in PastType
  /\ ~coord.polling => ~coord.poll
  /\ deb.down = coord.down
  /\ deb.down => ~deb.timer
  /\ deb.again => deb.timer
  /\ owner = NoTask <=> \A t \in Tasks : task[t].at \in {"idle", "waiting"}
  /\ Seqs!ToSet(waiters) = {t \in Tasks : task[t].at = "waiting"}

Init ==
  /\ \E o \in Options :
       /\ deb = [immediate |-> o.immediate, timer |-> FALSE, again |-> FALSE,
                 down |-> FALSE]
       /\ coord = [data |-> 0, ok |-> TRUE, listeners |-> 0, poll |-> FALSE,
                   polling |-> o.polling, always |-> o.always, setup |-> TRUE,
                   down |-> FALSE, stopping |-> FALSE]
  /\ owner = NoTask
  /\ waiters = <<>>
  /\ task = [t \in Tasks |-> Idle]
  /\ device = 1
  /\ past = [asked |-> {}, auth |-> FALSE,
             seen |-> Nothing, quiet |-> FALSE, raced |-> {}]

-----------------------------------------------------------------------------
(***************************************************************************)
(* Timers and listeners                                                    *)
(***************************************************************************)
\* _schedule_refresh
ScheduleRefresh(c) == [c EXCEPT !.poll = c.polling]

\* async_update_listeners: each of them reads the data and whether it is good.
Told(p, c) ==
  IF c.listeners = 0 THEN p
  ELSE [p EXCEPT !.seen = [data |-> c.data, ok |-> c.ok], !.quiet = FALSE]

\* They are not told, which is right when nothing has changed.
NotTold(p, c, silent) ==
  IF c.listeners > 0 /\ silent THEN [p EXCEPT !.seen = Nothing, !.quiet = TRUE] ELSE p

\* async_add_listener: the first one sets up the interval.
AddListener ==
  /\ coord.listeners < MaxListeners
  /\ LET more == [coord EXCEPT !.listeners = @ + 1]
     IN IF coord.listeners = 0
        THEN /\ coord' = ScheduleRefresh(more)
             /\ past' = Told(past, more)
        ELSE coord' = more /\ UNCHANGED past
  /\ UNCHANGED <<deb, lock, task, device>>

\* __async_remove_listener_internal: the last one cancels what is scheduled.
RemoveListener ==
  /\ coord.listeners > 0
  /\ LET fewer == [coord EXCEPT !.listeners = @ - 1]
     IN IF coord.listeners = 1
        THEN /\ coord' = [fewer EXCEPT !.poll = FALSE]
             /\ deb' = CancelTimer(deb)
             /\ past' = [past EXCEPT !.asked = @ \ {NoTask}, !.auth = FALSE,
                                     !.seen = Nothing, !.quiet = FALSE]
        ELSE coord' = fewer /\ UNCHANGED <<deb, past>>
  /\ UNCHANGED <<lock, task, device>>

(***************************************************************************)
(* A task and the lock.  d, c and p are the debouncer, the coordinator and *)
(* the history as the step has left them so far.                           *)
(***************************************************************************)
\* The lock is released and the task ends.
Release(t) ==
  /\ owner' = NoTask
  /\ task' = [task EXCEPT ![t] = Idle]

\* It goes on with the lock.
Works(t, kind, place) ==
  /\ owner' = t
  /\ task' = [task EXCEPT ![t] = [Idle EXCEPT !.kind = kind, !.at = place]]

RefreshAfterShutdown(t, kind, d, c, p) ==
  /\ deb' = CancelTimer(d)
  /\ coord' = [c EXCEPT !.poll = FALSE]
  /\ past' = [p EXCEPT !.asked = {}, !.raced = {}, !.auth = FALSE]
  /\ owner' = t
  /\ task' = [task EXCEPT ![t] =
       [kind |-> kind, at |-> "updating", prev |-> c.ok, was |-> c.data, from |-> device]]

\* _async_refresh, up to the await of the data.  Also if it returns at once, for
\* a poll while Home Assistant stops, it has cancelled what the debouncer had.
Refresh(t, kind, d, c, p) ==
  /\ deb' = CancelTimer(d)
  /\ coord' = [c EXCEPT !.poll = FALSE]
  /\ past' = [p EXCEPT !.asked = {}, !.raced = {}, !.auth = FALSE]
  /\ IF c.down \/ (kind = "poll" /\ c.stopping)
     THEN Release(t)
     ELSE /\ owner' = t
          /\ task' = [task EXCEPT ![t] =
               [kind |-> kind, at |-> "updating", prev |-> c.ok,
                was |-> c.data, from |-> device]]

Debounced == {"request", "finish"}

\* The body of "async with async_lock()" up to its first await.  A debounced
\* call leaves what it stands for to the timer that was set meanwhile.
Enter(t, kind, d, c, p) ==
  \/ /\ kind \in Debounced /\ Abort(d)
     /\ Release(t)
     /\ past' = [p EXCEPT !.asked = IF t \in @ THEN (@ \ {t}) \cup {NoTask} ELSE @]
     /\ deb' = d /\ coord' = c
  \/ /\ kind = "first"
     /\ \/ Release(t)  \* the entry's set-up has ended meanwhile: ConfigEntryError
        \/ Works(t, kind, "setup")
     /\ deb' = d /\ coord' = c /\ past' = p
  \/ /\ kind # "first"
     /\ kind \in Debounced => ~Abort(d)
     /\ Refresh(t, kind, d, c, p)

\* async_lock, by a task that starts.
TakeLock(t, kind, d, c, p) ==
  /\ task[t].at = "idle"
  /\ IF Free
     THEN Enter(t, kind, d, c, p) /\ UNCHANGED waiters
     ELSE /\ waiters' = Append(waiters, t)
          /\ task' = [task EXCEPT ![t] = [Idle EXCEPT !.kind = kind, !.at = "waiting"]]
          /\ deb' = d /\ coord' = c /\ past' = p
          /\ UNCHANGED owner
  /\ UNCHANGED device

\* The task at the head of the queue runs once the lock was released.
Resume(t) ==
  /\ ~Locked /\ waiters # <<>> /\ t = Head(waiters)
  /\ waiters' = Tail(waiters)
  /\ Enter(t, task[t].kind, deb, coord, past)
  /\ UNCHANGED device

(***************************************************************************)
(* How a refresh ends                                                      *)
(***************************************************************************)
\* ok: as it should.  failed: with an error that may go away, among them a
\* CancelledError of the update itself.  error: ConfigEntryError.  auth:
\* ConfigEntryAuthFailed.  token: a token that needs a new login.  broken:
\* NotImplementedError.  cancelled: the task is cancelled.
Outcomes == {"ok", "failed", "error", "auth", "token", "broken", "cancelled"}

PollsOnAfterSuccess(outcome) ==
  outcome = "ok" /\ coord.listeners > 0 /\ ~coord.stopping

\* The finally clause schedules the next refresh.
PollsOn(outcome) ==
  /\ outcome \notin {"auth", "token"}
  /\ coord.listeners > 0
  /\ ~coord.stopping

\* The refresh leaves before the listeners are considered.
Leaves(kind, outcome) ==
  \/ outcome \in {"token", "broken", "cancelled"}
  \/ kind = "first" /\ outcome \in {"error", "auth"}

NotifiesOfData(t, c) ==
  /\ c.ok \/ task[t].prev
  /\ coord.always \/ task[t].was # c.data

\* The listeners are called: not for a second failure in a row, and otherwise
\* always, or only for a change.
Notifies(t, c) ==
  /\ c.ok \/ task[t].prev
  /\ coord.always \/ c.ok # task[t].prev \/ task[t].was # c.data

\* The rest of _async_refresh, and of the task that ran it, unless that is one of
\* the debouncer, which awaits the refresh as a task of its own.
EndRefresh(t, outcome, data) ==
  /\ task[t].at = "updating"
  /\ LET kind == task[t].kind
         left == Leaves(kind, outcome)
         c == [coord EXCEPT !.ok = outcome = "ok", !.data = data]
         p == [past EXCEPT !.raced = {},
                           !.auth = c.listeners > 0 /\ outcome \in {"auth", "token"}]
     IN /\ coord' = IF PollsOn(outcome) THEN ScheduleRefresh(c) ELSE c
        /\ past' = IF ~left /\ Notifies(t, c) THEN Told(p, c)
                   ELSE NotTold(p, c, left \/ past.raced # {})
        /\ IF kind \in Debounced THEN Works(t, kind, "returning") ELSE Release(t)
  /\ UNCHANGED <<deb, waiters, device>>

\* The debouncer resumes, cancelled or not: it keeps the next call away for the
\* cooldown.
Return(t) ==
  /\ task[t].at = "returning"
  /\ deb' = ScheduleTimer(deb)
  /\ Release(t)
  /\ UNCHANGED <<waiters, coord, device, past>>

\* The update returns what the device was at some moment since it was asked.
Fetched(t) == \E v \in task[t].from..device : EndRefresh(t, "ok", v)

Fails(t) ==
  \E outcome \in Outcomes \ {"ok", "cancelled"} : EndRefresh(t, outcome, coord.data)

\* __wrap_async_setup, of the first refresh, ends well or in any error.
EndSetup(t) ==
  /\ task[t].at = "setup"
  /\ \/ Refresh(t, "first", deb, coord, past)
     \/ /\ Release(t)
        /\ coord' = [coord EXCEPT !.ok = FALSE]
        /\ past' = NotTold([past EXCEPT !.raced = {}], coord, TRUE)
        /\ UNCHANGED deb
  /\ UNCHANGED <<waiters, device>>

(***************************************************************************)
(* Who starts a refresh                                                    *)
(***************************************************************************)
Asked(t) == [past EXCEPT !.asked = @ \cup {t}]

\* async_request_refresh, Debouncer.async_call
RequestRefresh(t) ==
  \/ CallNow /\ TakeLock(t, "request", deb, coord, Asked(t))
  \/ /\ ~deb.down /\ ~CallNow
     /\ deb' = Postpone(deb)
     /\ past' = Asked(NoTask)
     /\ UNCHANGED <<lock, coord, task, device>>

\* An integration calls Debouncer.async_schedule_call; what that postpones is
\* what RequestRefresh postpones.
ScheduleCall(t) == CallNow /\ TakeLock(t, "finish", TimerOver(deb), coord, Asked(t))

RefreshUnlocked(t) ==
  /\ task[t].at = "idle"
  /\ Refresh(t, "refresh", deb, coord, past)
  /\ UNCHANGED <<waiters, device>>

\* async_refresh
RefreshNow(t) == TakeLock(t, "refresh", deb, coord, past)

\* async_config_entry_first_refresh, once in the set-up of the config entry
FirstRefresh(t) ==
  coord.setup /\ TakeLock(t, "first", deb, [coord EXCEPT !.setup = FALSE], past)

\* The refresh interval is over: _handle_refresh_interval.
PollFires(t) ==
  coord.poll /\ TakeLock(t, "poll", deb, [coord EXCEPT !.poll = FALSE], past)

\* The debouncer's timer is over: _on_debounce, _handle_timer_finish.
DebounceFires(t) ==
  /\ deb.timer
  /\ IF deb.again /\ ~Locked
     THEN TakeLock(t, "finish", TimerOver(deb), coord,
                   [past EXCEPT !.asked = (@ \ {NoTask}) \cup {t}])
     ELSE /\ deb' = TimerOver(deb)
          /\ past' = [past EXCEPT !.asked = @ \ {NoTask}]
          /\ UNCHANGED <<lock, coord, task, device>>

(***************************************************************************)
(* What happens meanwhile                                                  *)
(***************************************************************************)
\* async_set_updated_data: the device reports its new state by itself.
SetUpdatedData ==
  /\ device < MaxVersion
  /\ device' = device + 1
  /\ deb' = CancelTimer(deb)
  /\ LET c == [coord EXCEPT !.data = device', !.ok = TRUE, !.poll = FALSE]
         p == [past EXCEPT !.asked = @ \ {NoTask},
                           !.auth = FALSE,
                           !.raced = IF Locked THEN @ \cup {"data"} ELSE @]
     IN /\ coord' = IF coord.listeners > 0 THEN ScheduleRefresh(c) ELSE c
        /\ past' = Told(p, c)
  /\ UNCHANGED <<lock, task>>

\* async_set_update_error
SetUpdateError ==
  /\ coord.ok
  /\ coord' = [coord EXCEPT !.ok = FALSE]
  /\ past' = Told([past EXCEPT !.raced = IF Locked THEN @ \cup {"error"} ELSE @], coord')
  /\ UNCHANGED <<deb, lock, task, device>>

\* The device changes without a word.
DeviceChanges ==
  /\ device < MaxVersion
  /\ device' = device + 1
  /\ UNCHANGED <<deb, lock, coord, task, past>>

\* async_shutdown: the entry is unloaded, or Home Assistant stops.
Shutdown ==
  /\ ~coord.down
  /\ deb' = ShutDown(deb)
  /\ coord' = [coord EXCEPT !.poll = FALSE, !.down = TRUE]
  /\ past' = [past EXCEPT !.asked = {}]
  /\ UNCHANGED <<lock, task, device>>

\* Home Assistant stops: the interval's timer is cancelled with the other
\* cancellable ones, the debouncer's is not.
Stop ==
  /\ ~coord.stopping
  /\ coord' = [coord EXCEPT !.stopping = TRUE, !.poll = FALSE]
  /\ UNCHANGED <<deb, lock, task, device, past>>

\* Whom a cancellation may reach: callers at any time, the entry's background
\* tasks when it is unloaded or Home Assistant stops.
Cancellable(t) == t \in Callers \/ (t \in Pollers /\ (coord.down \/ coord.stopping))

Cancel(t) ==
  /\ Cancellable(t)
  /\ \/ /\ task[t].at = "waiting"
        /\ \E i \in 1..Len(waiters) :
             waiters[i] = t /\ waiters' = Seqs!RemoveAt(waiters, i)
        /\ task' = [task EXCEPT ![t] = Idle]
        /\ past' = [past EXCEPT !.asked = @ \ {t}]
        /\ UNCHANGED <<deb, owner, coord, device>>
     \/ /\ task[t].at = "setup"
        /\ Release(t)
        /\ past' = [past EXCEPT !.raced = {}]
        /\ UNCHANGED <<deb, waiters, coord, device>>
     \/ EndRefresh(t, "cancelled", coord.data)

-----------------------------------------------------------------------------
Next ==
  \/ AddListener \/ RemoveListener \/ DeviceChanges
  \/ SetUpdatedData \/ SetUpdateError \/ Shutdown \/ Stop
  \/ \E t \in Callers : RequestRefresh(t) \/ RefreshNow(t) \/ FirstRefresh(t)
  \/ \E t \in Pollers : PollFires(t)
  \/ \E t \in Finishers : ScheduleCall(t) \/ DebounceFires(t)
  \/ \E t \in Tasks : Resume(t) \/ EndSetup(t) \/ Fetched(t) \/ Fails(t) \/ Return(t)
                     \/ Cancel(t)

Spec == Init /\ [][Next]_vars

\* The event loop runs what is ready and timers that are due; a task is not
\* cancelled time and again in the one iteration between the release of the lock
\* and its turn.  An integration's update and set-up come to an end.
Fairness ==
  /\ \A t \in Tasks : SF_vars(Resume(t))
                     /\ WF_vars(EndSetup(t) \/ Fetched(t) \/ Fails(t) \/ Return(t))
  /\ WF_vars(\E t \in Pollers : PollFires(t))
  /\ WF_vars(\E t \in Finishers : DebounceFires(t))

FairSpec == Spec /\ Fairness

-----------------------------------------------------------------------------
(***************************************************************************)
(* Properties                                                              *)
(***************************************************************************)
\* A waiting task that will refresh when its turn comes.  A first refresh may
\* not: its set-up may fail.
WillRefresh(t) ==
  /\ task[t].at = "waiting"
  /\ \/ task[t].kind = "refresh"
     \/ task[t].kind = "poll" /\ ~coord.stopping
     \/ task[t].kind \in Debounced /\ ~deb.timer

\* A request is not forgotten (Debouncer, async_request_refresh): until a
\* refresh begins, its timer is set and will run it, or a task that will
\* refresh is queued.  The exceptions are those of the code: the last listener
\* went, new data was pushed, the coordinator was shut down, a poll came while Home
\* Assistant stops, or the timer ended during a refresh and "any call is good".
RequestKept ==
  past.asked # {} =>
    \/ deb.timer /\ deb.again
    \/ \E t \in Tasks : WillRefresh(t)

\* What the listeners were last told is what the coordinator holds, unless the
\* refresh that changed it raised, or was overtaken by a push or an error set by
\* hand.
ListenersInformed ==
  coord.listeners > 0 /\ ~past.quiet => past.seen = [data |-> coord.data, ok |-> coord.ok]

\* Data never goes back to an older state of the device, unless data was pushed
\* while the refresh that returned it was in flight.
NoOldData == [][coord'.data < coord.data => "data" \in past.raced]_vars

\* Once shut down, a coordinator asks the device for nothing more.
NoUpdateAfterShutdown ==
  [][coord.down => \A t \in Tasks : task'[t].at = "updating" => task[t].at = "updating"]_vars

\* A coordinator that somebody listens to keeps asking the device.
Listened == coord.polling /\ coord.listeners > 0 /\ ~coord.down
            /\ ~coord.stopping /\ ~past.auth
KeepsPolling == Listened ~> (~Listened \/ \E t \in Tasks : task[t].at = "updating")

=============================================================================
