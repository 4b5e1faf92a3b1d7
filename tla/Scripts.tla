------------------------------- MODULE Scripts -------------------------------
(***************************************************************************)
(* homeassistant/helpers/script.py: top-level scripts, their run modes,    *)
(* and how their runs start, call one another, are stopped and end.        *)
(*                                                                         *)
(* A call is one Script.async_run, made by a user or automation or by a    *)
(* step of another run that waits for it, together with the run it adds to *)
(* the script's _runs.  A step is the code between two awaits; what the    *)
(* actions of a sequence do is abstracted to ending, and to calling a      *)
(* script at most once per run.                                            *)
(***************************************************************************)
EXTENDS Naturals, Sequences, FiniteSets

Seqs == INSTANCE SequencesExt

CONSTANTS
  Scripts,
  ModesOf,   \* the modes to consider for each script
  MayCall,   \* the scripts that the sequence of each script may call
  MayUnload, \* the scripts that may be unloaded
  MaxCalls,  \* bound: calls in progress at one time
  MaxRuns    \* max_runs

Modes == {"single", "restart", "queued", "parallel"}
Calls == 1..MaxCalls
Nobody == 0   \* no call: a user's or automation's own, or a free lock

ASSUME ScriptsAssumption ==
  /\ ModesOf \in [Scripts -> SUBSET Modes]
  /\ MayCall \in [Scripts -> SUBSET Scripts]
  /\ MayUnload \subseteq Scripts
  /\ MaxCalls \in Nat
  /\ MaxRuns \in Nat \ {0}
  /\ Nobody \notin Scripts

VARIABLES
  mode,     \* script_mode of each script
  runs,     \* _runs of each script, oldest first
  call,     \* the calls and their runs, see CallType
  holder,   \* the run that holds _queue_lck of each script
  line,     \* the runs queued for it
  stopping, \* the runs that callers of async_stop wait for
  unload,   \* how far async_unload of each script is
  shutdown  \* how far the shutdown has come

vars == <<mode, runs, call, holder, line, stopping, unload, shutdown>>

CallType ==
  [at     : {"free",        \* not in use
             "restarting",  \* it waits for the runs it has stopped to end
             "queued",      \* it waits for _queue_lck
             "running",     \* it is at an action of its own
             "calling",     \* it waits for the script it has called
             "leaving",     \* it was stopped meanwhile and has cancelled it
             "ending",      \* the called script has returned
             "lost"},       \* its caller was cancelled before it started
   script : Scripts \cup {Nobody},
   parent : Calls \cup {Nobody},   \* the run that called it and waits
   stop   : BOOLEAN,               \* _stop is done
   waits  : SUBSET Calls]          \* whose end async_stop, called by it, awaits

NoCall == [at |-> "free", script |-> Nobody, parent |-> Nobody, stop |-> FALSE,
           waits |-> {}]

\* _started
Executing == {"running", "calling", "leaving", "ending"}
Started(c) == call[c].at \in Executing

RunsOf(s) == Seqs!ToSet(runs[s])

\* list.remove, if c is there.
Without(q, c) ==
  IF \E i \in 1..Len(q) : q[i] = c
  THEN Seqs!RemoveAt(q, CHOOSE i \in 1..Len(q) : q[i] = c)
  ELSE q

TypeOK ==
  /\ mode \in [Scripts -> Modes]
  /\ runs \in [Scripts -> Seq(Calls)]
  /\ call \in [Calls -> CallType]
  /\ holder \in [Scripts -> Calls \cup {Nobody}]
  /\ line \in [Scripts -> Seq(Calls)]
  /\ stopping \subseteq Calls
  /\ unload \in [Scripts -> {"loaded", "stopping", "unloaded", "failed"}]
  /\ shutdown \in {"no", "stopping", "blocked"}
  /\ \A s \in Scripts :
       /\ RunsOf(s) = {c \in Calls : call[c].script = s}
       /\ Len(runs[s]) = Cardinality(RunsOf(s))
       /\ Seqs!ToSet(line[s]) = {c \in RunsOf(s) : call[c].at = "queued"}
       /\ IF mode[s] = "queued"
          THEN {c \in RunsOf(s) : Started(c)} = {holder[s]} \ {Nobody}
          ELSE holder[s] = Nobody

Init ==
  /\ mode \in {f \in [Scripts -> Modes] : \A s \in Scripts : f[s] \in ModesOf[s]}
  /\ runs = [s \in Scripts |-> <<>>]
  /\ call = [c \in Calls |-> NoCall]
  /\ holder = [s \in Scripts |-> Nobody]
  /\ line = [s \in Scripts |-> <<>>]
  /\ stopping = {}
  /\ unload = [s \in Scripts |-> "loaded"]
  /\ shutdown = "no"

-----------------------------------------------------------------------------
(***************************************************************************)
(* Stopping runs                                                           *)
(***************************************************************************)
SetStopStarted(f, R) ==
  [c \in Calls |-> IF c \in R /\ Started(c) THEN [f[c] EXCEPT !.stop = TRUE] ELSE f[c]]

\* _ScriptRun.async_stop of every run in R.
SetStop(f, R) == [c \in Calls |-> IF c \in R THEN [f[c] EXCEPT !.stop = TRUE] ELSE f[c]]

\* ... which waits only for those that have started.
Awaited(R) == {c \in R : Started(c)}

(***************************************************************************)
(* Starting runs                                                           *)
(***************************************************************************)
Child(p) == {c \in Calls : call[c].parent = p /\ p # Nobody}

\* The runs of S are p, if it is a run, and with each its caller.
Lineage(S, p) == p \in S \cup {Nobody} /\ \A c \in S : call[c].parent \in S \cup {Nobody}

\* p, the run that called it, the run that called that one, ...
Ancestors(p) == {c \in Calls : \A S \in SUBSET Calls : Lineage(S, p) => c \in S}

\* script_stack_cv, as seen by a call that run p makes.
Stack(p) == {call[c].script : c \in Ancestors(p)}

AcceptsRecursion(s, p) ==
  /\ unload[s] = "loaded"
  /\ shutdown # "blocked"
  /\ mode[s] = "single" => runs[s] = <<>>
  /\ mode[s] \in {"queued", "parallel"} => Len(runs[s]) < MaxRuns

AcceptsAtShutdown(s, p) ==
  /\ unload[s] = "loaded"
  /\ mode[s] = "single" => runs[s] = <<>>
  /\ mode[s] \in {"queued", "parallel"} => Len(runs[s]) < MaxRuns
  /\ mode[s] \in {"restart", "queued"} => s \notin Stack(p)

\* Script.async_run adds a run to script s for a call of run p.
Accepts(s, p) ==
  /\ unload[s] = "loaded"
  /\ shutdown # "blocked"
  /\ mode[s] = "single" => runs[s] = <<>>
  /\ mode[s] \in {"queued", "parallel"} => Len(runs[s]) < MaxRuns
  /\ mode[s] \in {"restart", "queued"} => s \notin Stack(p)

\* The lowest number that is free.
FreeCall == {c \in Calls : call[c].at = "free" /\ \A d \in 1..(c - 1) : call[d].at # "free"}

\* ... and starts it, unless it has to wait.
AddRun(s, p, f, c) ==
  LET new == [NoCall EXCEPT !.script = s, !.parent = p]
      queue == mode[s] = "queued"
      free == holder[s] = Nobody /\ line[s] = <<>>
      old == IF mode[s] = "restart" THEN RunsOf(s) ELSE {}
      at == IF old # {} THEN "restarting"
            ELSE IF queue /\ ~free THEN "queued" ELSE "running"
  IN /\ runs' = [runs EXCEPT ![s] = Append(@, c)]
     /\ call' = [SetStop(f, old) EXCEPT ![c] =
                   [new EXCEPT !.at = at, !.waits = Awaited(old)]]
     /\ holder' = IF queue /\ free THEN [holder EXCEPT ![s] = c] ELSE holder
     /\ line' = IF at = "queued" THEN [line EXCEPT ![s] = Append(@, c)] ELSE line

\* A user, a trigger of an automation or a step that does not wait calls s.
Start(s) ==
  /\ Accepts(s, Nobody)
  /\ \E c \in FreeCall : AddRun(s, Nobody, call, c)
  /\ UNCHANGED <<mode, stopping, unload, shutdown>>

\* A step of run p calls s and waits for it: _async_run_long_action.
CallScript(p, s) ==
  /\ call[p].at = "running" /\ ~call[p].stop
  /\ s \in MayCall[call[p].script]
  /\ Accepts(s, p)
  /\ \E c \in FreeCall : AddRun(s, p, [call EXCEPT ![p].at = "calling"], c)
  /\ UNCHANGED <<mode, stopping, unload, shutdown>>

(***************************************************************************)
(* Ending runs                                                             *)
(***************************************************************************)
FinishKeepsLock(c) ==
  LET s == call[c].script
  IN /\ runs' = [runs EXCEPT ![s] = Without(@, c)]
     /\ line' = [line EXCEPT ![s] = Without(@, c)]
     /\ stopping' = stopping \ {c}
     /\ call' = [d \in Calls |-> IF d = c THEN NoCall
                                 ELSE [call[d] EXCEPT !.waits = @ \ {c}]]
     /\ UNCHANGED <<mode, holder, unload, shutdown>>

FinishKeepsPlace(c) ==
  LET s == call[c].script
  IN /\ runs' = [runs EXCEPT ![s] = Without(@, c)]
     /\ holder' = IF holder[s] = c THEN [holder EXCEPT ![s] = Nobody] ELSE holder
     /\ stopping' = stopping \ {c}
     /\ call' = [d \in Calls |-> IF d = c THEN NoCall
                                 ELSE [call[d] EXCEPT !.waits = @ \ {c}]]
     /\ UNCHANGED <<mode, line, unload, shutdown>>

\* _finish: the run leaves _runs and releases the lock it holds, and those that
\* wait for it to stop wake up.
Finish(c) ==
  LET s == call[c].script
  IN /\ runs' = [runs EXCEPT ![s] = Without(@, c)]
     /\ holder' = IF holder[s] = c THEN [holder EXCEPT ![s] = Nobody] ELSE holder
     /\ line' = [line EXCEPT ![s] = Without(@, c)]
     /\ stopping' = stopping \ {c}
     /\ call' = [d \in Calls |-> IF d = c THEN NoCall
                                 ELSE [call[d] EXCEPT !.waits = @ \ {c}]]
     /\ UNCHANGED <<mode, unload, shutdown>>

\* The sequence ends or fails, or the run sees between two actions, or in one
\* that it interrupts, that it was stopped.
EndRun(c) == call[c].at \in {"running", "ending"} /\ Finish(c)

EndStopped(c) == call[c].stop /\ EndRun(c)

RestartedAtOnce(c) ==
  /\ call[c].at = "restarting"
  /\ \/ call[c].stop /\ Finish(c)
     \/ /\ ~call[c].stop
        /\ call' = [call EXCEPT ![c].at = "running"]
        /\ UNCHANGED <<mode, runs, holder, line, stopping, unload, shutdown>>

\* The runs that it has stopped have ended.  A run that was itself stopped
\* meanwhile ends before its first action.
Restarted(c) ==
  /\ call[c].at = "restarting" /\ call[c].waits = {}
  /\ \/ call[c].stop /\ Finish(c)
     \/ /\ ~call[c].stop
        /\ call' = [call EXCEPT ![c].at = "running"]
        /\ UNCHANGED <<mode, runs, holder, line, stopping, unload, shutdown>>

\* A queued run gets the lock, or is told to stop while it waits.
Dequeued(c) ==
  LET s == call[c].script
  IN /\ call[c].at = "queued"
     /\ \/ call[c].stop /\ Finish(c)
        \/ /\ ~call[c].stop
           /\ holder[s] = Nobody /\ Head(line[s]) = c
           /\ holder' = [holder EXCEPT ![s] = c]
           /\ line' = [line EXCEPT ![s] = Tail(@)]
           /\ call' = [call EXCEPT ![c].at = "running"]
           /\ UNCHANGED <<mode, runs, stopping, unload, shutdown>>

CancelledUnstopped(f, c) ==
  LET run == f[c]
  IN [f EXCEPT ![c] =
       [run EXCEPT !.at = IF run.at = "restarting" THEN "lost" ELSE run.at,
                   !.waits = {},
                   !.parent = IF Started(c) THEN run.parent ELSE Nobody]]

\* What the cancellation of a call does to its run: one that waits in async_stop
\* for the others never starts; one that has started, or is queued, is stopped.
\* The caller waits only for a run that has started.
Cancelled(f, c) ==
  LET run == f[c]
  IN [f EXCEPT ![c] =
       [run EXCEPT !.at = IF run.at = "restarting" THEN "lost" ELSE run.at,
                   !.waits = {},
                   !.stop = run.stop \/ call[c].at # "restarting",
                   !.parent = IF Started(c) THEN run.parent ELSE Nobody]]

\* A stopped run interrupts the call it waits for.
Interrupt(p) ==
  /\ call[p].at = "calling" /\ call[p].stop
  /\ \E c \in Child(p) : call' = Cancelled([call EXCEPT ![p].at = "leaving"], c)
  /\ UNCHANGED <<mode, runs, holder, line, stopping, unload, shutdown>>

\* The called script has returned, to a run that goes on or to one that leaves.
Returned(p) ==
  /\ Child(p) = {}
  /\ \/ /\ call[p].at = "calling"
        /\ call' = [call EXCEPT ![p].at = "ending"]
        /\ UNCHANGED <<mode, runs, holder, line, stopping, unload, shutdown>>
     \/ call[p].at = "leaving" /\ Finish(p)

\* The caller of a call that no run waits for is cancelled.
Cancel(c) ==
  /\ call[c].at \notin {"free", "lost"} /\ call[c].parent = Nobody
  /\ call' = Cancelled(call, c)
  /\ UNCHANGED <<mode, runs, holder, line, stopping, unload, shutdown>>

(***************************************************************************)
(* Script.async_stop, async_unload and the shutdown                        *)
(***************************************************************************)
StopRuns(R) ==
  /\ call' = SetStop(call, R)
  /\ stopping' = stopping \cup Awaited(R)

\* turn_off.  Bound: one caller of async_stop waits at a time, besides those that
\* unload a script or shut down.
StopScript(s) ==
  /\ runs[s] # <<>> /\ stopping = {}
  /\ StopRuns(RunsOf(s))
  /\ UNCHANGED <<mode, runs, holder, line, unload, shutdown>>

Unload(s) ==
  /\ s \in MayUnload /\ unload[s] = "loaded"
  /\ unload' = [unload EXCEPT ![s] = "stopping"]
  /\ StopRuns(RunsOf(s))
  /\ UNCHANGED <<mode, runs, holder, line, shutdown>>

\* _async_unload, once the runs that had started have ended and the queued ones
\* have seen that they were stopped.  It raises if there are others: lost ones,
\* or one whose turn to restart has just come.
Unloaded(s) ==
  /\ unload[s] = "stopping"
  /\ \A c \in RunsOf(s) : call[c].at \in {"restarting", "lost"}
  /\ unload' = [unload EXCEPT ![s] = IF runs[s] = <<>> THEN "unloaded" ELSE "failed"]
  /\ UNCHANGED <<mode, runs, call, holder, line, stopping, shutdown>>

\* _async_stop_scripts_at_shutdown, and a minute later
\* _async_stop_scripts_after_shutdown.
Shutdown ==
  /\ shutdown # "blocked"
  /\ shutdown' = IF shutdown = "no" THEN "stopping" ELSE "blocked"
  /\ StopRuns({c \in Calls : call[c].at # "free"})
  /\ UNCHANGED <<mode, runs, holder, line, unload>>

-----------------------------------------------------------------------------
Next ==
  \/ \E s \in Scripts : Start(s) \/ StopScript(s) \/ Unload(s) \/ Unloaded(s)
  \/ \E c \in Calls : EndRun(c) \/ Restarted(c) \/ Dequeued(c) \/ Interrupt(c)
                      \/ Returned(c) \/ Cancel(c)
  \/ \E c \in Calls, s \in Scripts : CallScript(c, s)
  \/ Shutdown

Spec == Init /\ [][Next]_vars

\* The event loop runs what is ready, and an action that is interrupted ends.
\* Nothing makes a run end that is not stopped: it may wait for ever.
Fairness ==
  \A c \in Calls :
    WF_vars(EndStopped(c) \/ Restarted(c) \/ Dequeued(c) \/ Interrupt(c) \/ Returned(c))

FairSpec == Spec /\ Fairness

-----------------------------------------------------------------------------
(***************************************************************************)
(* Properties                                                              *)
(***************************************************************************)
\* Whatever overlaps, at most one run of a script executes, except in parallel
\* mode: a restarted or queued run begins only when the one before it has ended.
OneAtATime ==
  \A s \in Scripts : mode[s] # "parallel" =>
    \A c, d \in RunsOf(s) : Started(c) /\ Started(d) => c = d

\* Restart mode: every run but the newest is stopped, also when several start
\* at once.
NewestWins ==
  \A s \in Scripts : mode[s] = "restart" =>
    \A i \in 1..Len(runs[s]) - 1 : call[runs[s][i]].stop \/ call[runs[s][i]].at = "lost"

\* Runs that wait for a run of the same script to end were not called, directly
\* or through other scripts, by that run: "non-allowed recursive calls ... will
\* cause deadlocks".
NoWaitForAncestor ==
  \A c \in Calls : call[c].at \in {"restarting", "queued"} =>
    call[c].script \notin Stack(call[c].parent)

\* A queued run does not wait for a lock that no run holds any more.
WaitsForNobody(c) == call[c].at = "queued" /\ holder[call[c].script] = Nobody
QueueMoves == \A c \in Calls : WaitsForNobody(c) ~> ~WaitsForNobody(c)

\* async_stop returns, even while the runs it stops wait for one another.
StopReturns == stopping # {} ~> stopping = {}

\* Once new runs are blocked at shutdown, every run ends, but for those whose
\* caller was cancelled before they started.
EndsAfterShutdown ==
  shutdown = "blocked" ~> \A c \in Calls : call[c].at \in {"free", "lost"}

=============================================================================
