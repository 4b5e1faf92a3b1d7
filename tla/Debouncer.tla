------------------------------ MODULE Debouncer ------------------------------
(***************************************************************************)
(* homeassistant/helpers/debounce.py: what a Debouncer decides at each of  *)
(* its entry points, and the FIFO asyncio.Lock under which its function    *)
(* runs.  Coordinator composes it with the function it debounces.          *)
(***************************************************************************)
EXTENDS Sequences

Seqs == INSTANCE SequencesExt

CONSTANT NoTask   \* "nobody": the lock is free

VARIABLES
  deb,      \* the Debouncer object, see DebouncerType
  owner,    \* the task that holds _execute_lock
  waiters   \* the tasks queued for it, first come first served

DebouncerType ==
  [immediate : BOOLEAN,
   timer     : BOOLEAN,   \* _timer_task is set
   again     : BOOLEAN,   \* _execute_at_end_of_timer
   down      : BOOLEAN]   \* _shutdown_requested, and _job is None

\* asyncio.Lock.locked: FALSE also when it was released and its next owner has
\* yet to run.
Locked == owner # NoTask

\* asyncio.Lock.acquire returns without waiting.
Free == owner = NoTask /\ waiters = <<>>

ScheduleTimerAlways(d) == [d EXCEPT !.timer = TRUE]

\* _schedule_timer
ScheduleTimer(d) == [d EXCEPT !.timer = ~d.down]

\* async_cancel
CancelTimer(d) == [d EXCEPT !.timer = FALSE, !.again = FALSE]

\* async_shutdown
ShutDown(d) == [CancelTimer(d) EXCEPT !.down = TRUE]

\* _async_schedule_or_call_now returns True ...
CallNow == ~deb.down /\ ~deb.timer /\ deb.immediate /\ ~Locked

PostponeOnce(d) == IF d.timer THEN d ELSE [d EXCEPT !.timer = TRUE, !.again = TRUE]

\* ... or postpones the call to the end of a timer, which is set if it was not.
Postpone(d) == [d EXCEPT !.timer = TRUE, !.again = TRUE]

\* _on_debounce, up to the task that it may start.
TimerOver(d) == [d EXCEPT !.timer = FALSE, !.again = FALSE]

\* In async_call and in _handle_timer_finish, once the lock was acquired: a
\* timer was set meanwhile, or the function is gone.
Abort(d) == d.timer \/ d.down
=============================================================================
