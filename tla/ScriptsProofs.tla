---------------------------- MODULE ScriptsProofs ----------------------------
(***************************************************************************)
(* Proofs about Scripts, for any scripts that call one another in any way, *)
(* in any modes, and any number of calls.                                  *)
(*                                                                         *)
(* Four kinds of steps change the runs: one that adds a run (AddRunKeeps), *)
(* one that ends a run (FinishKeeps), one that starts a waiting run, and   *)
(* those that only stop, cancel or move runs that are there (Calmer).      *)
(***************************************************************************)
EXTENDS Scripts, QueueLemmas, FiniteSetTheorems

-----------------------------------------------------------------------------
(***************************************************************************)
(* Queues as sets                                                          *)
(***************************************************************************)
LEMMA ToSetIsQueued ==
  ASSUME NEW T, NEW q \in Seq(T)
  PROVE  \A c : c \in Seqs!ToSet(q) <=> Queued(q, c)
BY DEF Seqs!ToSet, Queued

LEMMA DistinctCounts ==
  ASSUME NEW T, NEW q \in Seq(T), Distinct(q)
  PROVE  Len(q) = Cardinality(Seqs!ToSet(q))
<1>1. Len(q) \in Nat /\ DOMAIN q = 1..Len(q)
  OBVIOUS
<1>2. q \in Bijection(1..Len(q), Seqs!ToSet(q))
  <2>1. q \in [1..Len(q) -> Seqs!ToSet(q)]
    BY <1>1 DEF Seqs!ToSet
  <2>2. q \in Injection(1..Len(q), Seqs!ToSet(q))
    BY <2>1 DEF Injection, IsInjective, Distinct
  <2>3. q \in Surjection(1..Len(q), Seqs!ToSet(q))
    BY <1>1, <2>1 DEF Surjection, Seqs!ToSet
  <2> QED
    BY <2>2, <2>3 DEF Bijection
<1>3. IsFiniteSet(1..Len(q)) /\ Cardinality(1..Len(q)) = Len(q)
  BY <1>1, FS_Interval
<1> QED
  BY <1>2, <1>3, FS_Bijection DEF ExistsBijection

LEMMA WithoutDrops ==
  ASSUME NEW T, NEW q \in Seq(T), Distinct(q), NEW c
  PROVE  /\ Without(q, c) \in Seq(T)
         /\ Distinct(Without(q, c))
         /\ \A d : Queued(Without(q, c), d) <=> Queued(q, d) /\ d # c
         /\ Queued(q, c) => \E k \in 1..Len(q) : Dropped(q, k, Without(q, c))
         /\ ~Queued(q, c) => Without(q, c) = q
<1>1. CASE Queued(q, c)
  <2>1. PICK k \in 1..Len(q) : q[k] = c /\ Without(q, c) = Seqs!RemoveAt(q, k)
    BY <1>1 DEF Queued, Without
  <2>2. Without(q, c) \in Seq(T) /\ Dropped(q, k, Without(q, c))
    BY <2>1, RemoveAtDrops DEF Seqs!RemoveAt
  <2> QED
    BY <1>1, <2>1, <2>2, QueueDropped
<1>2. CASE ~Queued(q, c)
  <2>1. Without(q, c) = q
    BY <1>2 DEF Queued, Without
  <2> QED
    BY <1>2, <2>1
<1> QED
  BY <1>1, <1>2

-----------------------------------------------------------------------------
(***************************************************************************)
(* The inductive invariant                                                 *)
(***************************************************************************)
Types ==
  /\ mode \in [Scripts -> Modes]
  /\ runs \in [Scripts -> Seq(Calls)]
  /\ call \in [Calls -> CallType]
  /\ holder \in [Scripts -> Calls \cup {Nobody}]
  /\ line \in [Scripts -> Seq(Calls)]
  /\ stopping \subseteq Calls
  /\ unload \in [Scripts -> {"loaded", "stopping", "unloaded", "failed"}]
  /\ shutdown \in {"no", "stopping", "blocked"}

\* The runs, the queue and the lock of a script are those of the calls.
ScriptOK(s) ==
  /\ Distinct(runs[s]) /\ Distinct(line[s])
  /\ \A c \in Calls : Queued(runs[s], c) <=> call[c].script = s
  /\ \A c \in Calls : Queued(line[s], c) <=> call[c].script = s /\ call[c].at = "queued"
  /\ IF mode[s] = "queued"
     THEN \A c \in Calls : holder[s] = c <=> call[c].script = s /\ Started(c)
     ELSE holder[s] = Nobody

\* In single mode there is one run; in restart mode all but the newest are
\* stopped, and at most one has started.
ModeOK(s) ==
  /\ mode[s] = "single" =>
       \A c, d \in Calls : call[c].script = s /\ call[d].script = s => c = d
  /\ mode[s] = "restart" =>
       /\ \A i \in 1..Len(runs[s]) - 1 :
            call[runs[s][i]].stop \/ call[runs[s][i]].at = "lost"
       /\ \A c, d \in Calls :
            call[c].script = s /\ call[d].script = s /\ Started(c) /\ Started(d) => c = d

\* A run waits in the way of its script's mode, and one that will start after
\* those that it has stopped knows each that has started.
CallOK(c) ==
  /\ call[c].at = "free" <=> call[c].script = Nobody
  /\ call[c].at = "restarting" => mode[call[c].script] = "restart"
  /\ call[c].at = "queued" => mode[call[c].script] = "queued"
  /\ call[c].at = "restarting" /\ ~call[c].stop =>
       \A d \in Calls : call[d].script = call[c].script /\ Started(d) => d \in call[c].waits

Inv ==
  /\ Types
  /\ \A s \in Scripts : ScriptOK(s) /\ ModeOK(s)
  /\ \A c \in Calls : CallOK(c)

LEMMA CallsAreNumbers == Nobody \notin Calls /\ Nobody \notin Scripts
BY ScriptsAssumption DEF Nobody, Calls

LEMMA InvImpliesTypeOK == Inv => TypeOK
<1> SUFFICES ASSUME Inv, NEW s \in Scripts
             PROVE  /\ RunsOf(s) = {c \in Calls : call[c].script = s}
                    /\ Len(runs[s]) = Cardinality(RunsOf(s))
                    /\ Seqs!ToSet(line[s]) = {c \in RunsOf(s) : call[c].at = "queued"}
                    /\ IF mode[s] = "queued"
                       THEN {c \in RunsOf(s) : Started(c)} = {holder[s]} \ {Nobody}
                       ELSE holder[s] = Nobody
  BY DEF Inv, Types, TypeOK
<1>1. /\ runs[s] \in Seq(Calls) /\ line[s] \in Seq(Calls)
      /\ holder[s] \in Calls \cup {Nobody}
      /\ ScriptOK(s)
  BY DEF Inv, Types
<1>2. RunsOf(s) \subseteq Calls /\ Seqs!ToSet(line[s]) \subseteq Calls
  BY <1>1 DEF RunsOf, Seqs!ToSet
<1>3. RunsOf(s) = {c \in Calls : call[c].script = s}
  BY <1>1, <1>2, ToSetIsQueued DEF ScriptOK, RunsOf
<1>4. Seqs!ToSet(line[s]) = {c \in RunsOf(s) : call[c].at = "queued"}
  BY <1>1, <1>2, <1>3, ToSetIsQueued DEF ScriptOK
<1>5. Len(runs[s]) = Cardinality(RunsOf(s))
  BY <1>1, DistinctCounts DEF ScriptOK, RunsOf
<1>6. ASSUME mode[s] = "queued"
      PROVE  {c \in RunsOf(s) : Started(c)} = {holder[s]} \ {Nobody}
  BY <1>1, <1>3, <1>6, CallsAreNumbers DEF ScriptOK
<1> QED
  BY <1>1, <1>3, <1>4, <1>5, <1>6 DEF ScriptOK

LEMMA RunsAreCalls ==
  ASSUME Inv, NEW s \in Scripts
  PROVE  \A c : c \in RunsOf(s) <=> c \in Calls /\ call[c].script = s
BY InvImpliesTypeOK DEF TypeOK

LEMMA InvImpliesOneAtATime == Inv => OneAtATime
<1> SUFFICES ASSUME Inv, NEW s \in Scripts, mode[s] # "parallel",
                    NEW c \in RunsOf(s), NEW d \in RunsOf(s), Started(c), Started(d)
             PROVE  c = d
  BY DEF OneAtATime
<1>1. /\ c \in Calls /\ call[c].script = s
      /\ d \in Calls /\ call[d].script = s
  BY RunsAreCalls
<1>2. mode[s] \in {"single", "restart", "queued"} /\ ScriptOK(s) /\ ModeOK(s)
  BY DEF Inv, Types, Modes
<1>3. CASE mode[s] = "queued"
  BY <1>1, <1>2, <1>3 DEF ScriptOK
<1>4. CASE mode[s] # "queued"
  BY <1>1, <1>2, <1>4 DEF ModeOK
<1> QED
  BY <1>3, <1>4

LEMMA InvImpliesNewestWins == Inv => NewestWins
BY DEF Inv, ModeOK, NewestWins

LEMMA InitInv == Init => Inv
<1> SUFFICES ASSUME Init PROVE Inv
  OBVIOUS
<1>1. /\ mode \in [Scripts -> Modes]
      /\ \A s \in Scripts : runs[s] = <<>> /\ line[s] = <<>> /\ holder[s] = Nobody
      /\ \A c \in Calls : call[c] = NoCall
  BY DEF Init
<1>2. NoCall \in CallType
  BY DEF NoCall, CallType
<1>3. Types
  BY <1>1, <1>2 DEF Init, Types
<1>4. ASSUME NEW s \in Scripts PROVE ScriptOK(s) /\ ModeOK(s)
  <2>1. \A c : ~Queued(<<>>, c)
    BY DEF Queued
  <2>2. Distinct(<<>>)
    BY DEF Distinct
  <2>3. \A c \in Calls : call[c].script = Nobody /\ call[c].at = "free" /\ ~Started(c)
    BY <1>1 DEF NoCall, Started, Executing
  <2>4. ScriptOK(s)
    BY <1>1, <2>1, <2>2, <2>3, CallsAreNumbers DEF ScriptOK
  <2>5. ModeOK(s)
    BY <1>1, <2>3, CallsAreNumbers DEF ModeOK
  <2> QED
    BY <2>4, <2>5
<1>5. ASSUME NEW c \in Calls PROVE CallOK(c)
  BY <1>1 DEF CallOK, NoCall
<1> QED
  BY <1>3, <1>4, <1>5 DEF Inv

-----------------------------------------------------------------------------
(***************************************************************************)
(* Steps that only stop, cancel or move runs                               *)
(***************************************************************************)
\* c neither starts nor ends, and does not forget that it was stopped.
Quiet(c) ==
  /\ call'[c].script = call[c].script
  /\ Started(c)' <=> Started(c)
  /\ call'[c].at = "queued" <=> call[c].at = "queued"
  /\ call'[c].at = "free" <=> call[c].at = "free"
  /\ call'[c].at = "restarting" => call[c].at = "restarting"
  /\ call[c].stop => call'[c].stop
  /\ call[c].at = "lost" => call'[c].at = "lost"

LEMMA ScriptUntouched ==
  ASSUME Inv, NEW s \in Scripts, mode' = mode,
         runs'[s] = runs[s], line'[s] = line[s], holder'[s] = holder[s],
         \A c \in Calls : call[c].script = s \/ call'[c].script = s => Quiet(c)
  PROVE  ScriptOK(s)' /\ ModeOK(s)'
<1>1. ScriptOK(s) /\ ModeOK(s) /\ runs[s] \in Seq(Calls)
  BY DEF Inv, Types
<1>2. \A c \in Calls : call'[c].script = s <=> call[c].script = s
  BY DEF Quiet
<1>3. \A c \in Calls : call[c].script = s =>
        /\ Started(c)' <=> Started(c)
        /\ call'[c].at = "queued" <=> call[c].at = "queued"
  BY DEF Quiet
<1>4. ScriptOK(s)'
  BY <1>1, <1>2, <1>3 DEF ScriptOK
<1>5. ModeOK(s)'
  <2>1. ASSUME NEW i \in 1..Len(runs[s]) - 1
        PROVE  runs[s][i] \in Calls /\ call[runs[s][i]].script = s
    <3>1. i \in 1..Len(runs[s])
      BY <1>1
    <3> QED
      BY <1>1, <3>1 DEF ScriptOK, Queued
  <2>2. ASSUME mode[s] = "restart", NEW i \in 1..Len(runs[s]) - 1
        PROVE  call'[runs[s][i]].stop \/ call'[runs[s][i]].at = "lost"
    BY <1>1, <2>1, <2>2 DEF ModeOK, Quiet
  <2> QED
    BY <1>1, <1>2, <1>3, <2>2 DEF ModeOK
<1> QED
  BY <1>4, <1>5

LEMMA Calmer ==
  ASSUME Inv, Types', UNCHANGED <<mode, runs, holder, line>>,
         \A c \in Calls : Quiet(c),
         \A c \in Calls : call'[c].at = "restarting" => call'[c].waits = call[c].waits
  PROVE  Inv'
<1>1. \A s \in Scripts : ScriptOK(s)' /\ ModeOK(s)'
  BY ScriptUntouched
<1>2. ASSUME NEW c \in Calls PROVE CallOK(c)'
  <2>1. CallOK(c) /\ Quiet(c)
    BY DEF Inv
  <2>2. ASSUME call'[c].at = "restarting", ~call'[c].stop, NEW d \in Calls,
               call'[d].script = call'[c].script, Started(d)'
        PROVE  d \in call'[c].waits
    <3>1. call[d].script = call[c].script /\ Started(d)
      BY <2>1, <2>2 DEF Quiet
    <3>2. call[c].at = "restarting" /\ ~call[c].stop
      BY <2>1, <2>2 DEF Quiet
    <3> QED
      BY <2>1, <2>2, <3>1, <3>2 DEF CallOK
  <2>3. /\ call'[c].at = "free" <=> call'[c].script = Nobody
        /\ call'[c].at = "restarting" => mode'[call'[c].script] = "restart"
        /\ call'[c].at = "queued" => mode'[call'[c].script] = "queued"
    BY <2>1 DEF CallOK, Quiet
  <2> QED
    BY <2>2, <2>3 DEF CallOK
<1> QED
  BY <1>1, <1>2 DEF Inv

LEMMA CancelledIsCalm ==
  ASSUME Inv, NEW c \in Calls, NEW f \in [Calls -> CallType],
         UNCHANGED <<mode, runs, holder, line, stopping, unload, shutdown>>,
         call' = Cancelled(f, c),
         \A d \in Calls : \/ f[d] = call[d]
                          \/ /\ call[d].at \in Executing /\ f[d].at \in Executing
                             /\ f[d].script = call[d].script /\ f[d].stop = call[d].stop
  PROVE  Inv'
<1> DEFINE run == f[c]
           at == IF run.at = "restarting" THEN "lost" ELSE run.at
           stop == run.stop \/ call[c].at # "restarting"
           parent == IF Started(c) THEN run.parent ELSE Nobody
           new == [run EXCEPT !.at = at, !.waits = {}, !.stop = stop, !.parent = parent]
<1>1. run \in CallType
  OBVIOUS
<1>2. /\ at \in {"free", "restarting", "queued", "running", "calling", "leaving",
                 "ending", "lost"}
      /\ stop \in BOOLEAN /\ parent \in Calls \cup {Nobody}
  BY <1>1 DEF CallType
<1>3. call' = [f EXCEPT ![c] = new]
  BY DEF Cancelled
<1>4. /\ new \in CallType /\ new.script = run.script /\ new.at = at /\ new.stop = stop
  <2> HIDE DEF run, at, stop, parent
  <2> QED
    BY <1>1, <1>2 DEF CallType
<1>5. /\ call' \in [Calls -> CallType]
      /\ \A d \in Calls \ {c} : call'[d] = f[d]
      /\ call'[c].script = f[c].script
      /\ call'[c].at = IF f[c].at = "restarting" THEN "lost" ELSE f[c].at
      /\ f[c].stop => call'[c].stop
  <2> HIDE DEF new
  <2>1. call' \in [Calls -> CallType] /\ call'[c] = new /\ \A d \in Calls \ {c} : call'[d] = f[d]
    BY <1>3, <1>4
  <2> QED
    BY <1>4, <2>1
<1> HIDE DEF run, at, stop, parent, new
<1>6. ASSUME NEW d \in Calls
      PROVE  /\ Quiet(d)
             /\ call'[d].at = "restarting" => call'[d].waits = call[d].waits
  <2>1. \/ f[d] = call[d]
        \/ /\ call[d].at \in Executing /\ f[d].at \in Executing
           /\ f[d].script = call[d].script /\ f[d].stop = call[d].stop
    OBVIOUS
  <2>2. CASE d = c
    BY <1>5, <2>1, <2>2 DEF Quiet, Started, Executing
  <2>3. CASE d # c
    BY <1>5, <2>1, <2>3 DEF Quiet, Started, Executing
  <2> QED
    BY <2>2, <2>3
<1>7. Types'
  BY <1>5 DEF Inv, Types
<1> QED
  BY <1>6, <1>7, Calmer

\* call with some runs told to stop, by SetStop.
LEMMA SetStopIs ==
  ASSUME NEW f \in [Calls -> CallType], NEW R
  PROVE  /\ SetStop(f, R) \in [Calls -> CallType]
         /\ \A c \in Calls :
              /\ SetStop(f, R)[c].at = f[c].at
              /\ SetStop(f, R)[c].script = f[c].script
              /\ SetStop(f, R)[c].parent = f[c].parent
              /\ SetStop(f, R)[c].waits = f[c].waits
              /\ f[c].stop \/ c \in R => SetStop(f, R)[c].stop
              /\ c \notin R => SetStop(f, R)[c] = f[c]
<1>1. ASSUME NEW c \in Calls
      PROVE  /\ [f[c] EXCEPT !.stop = TRUE] \in CallType
             /\ [f[c] EXCEPT !.stop = TRUE].at = f[c].at
             /\ [f[c] EXCEPT !.stop = TRUE].script = f[c].script
             /\ [f[c] EXCEPT !.stop = TRUE].parent = f[c].parent
             /\ [f[c] EXCEPT !.stop = TRUE].waits = f[c].waits
             /\ [f[c] EXCEPT !.stop = TRUE].stop
  <2>1. f[c] \in CallType
    OBVIOUS
  <2> QED
    BY <2>1 DEF CallType
<1>2. \A c \in Calls :
        SetStop(f, R)[c] = IF c \in R THEN [f[c] EXCEPT !.stop = TRUE] ELSE f[c]
  BY DEF SetStop
<1>3. SetStop(f, R) \in [Calls -> CallType]
  BY <1>1 DEF SetStop
<1> QED
  BY <1>1, <1>2, <1>3

LEMMA StopRunsKeeps ==
  ASSUME Inv, NEW R, StopRuns(R),
         UNCHANGED <<mode, runs, holder, line>>,
         unload' \in [Scripts -> {"loaded", "stopping", "unloaded", "failed"}],
         shutdown' \in {"no", "stopping", "blocked"},
         R \subseteq Calls
  PROVE  Inv'
<1>1. call \in [Calls -> CallType] /\ call' = SetStop(call, R)
  BY DEF Inv, Types, StopRuns
<1>2. /\ call' \in [Calls -> CallType]
      /\ \A c \in Calls : /\ call'[c].at = call[c].at /\ call'[c].script = call[c].script
                          /\ call'[c].waits = call[c].waits
                          /\ call[c].stop => call'[c].stop
  BY <1>1, SetStopIs
<1>3. Types'
  BY <1>2 DEF Inv, Types, StopRuns, Awaited
<1>4. \A c \in Calls : Quiet(c)
  BY <1>2 DEF Quiet, Started
<1> QED
  BY <1>2, <1>3, <1>4, Calmer

\* A run that has started goes to another of its actions.
LEMMA MoveKeeps ==
  ASSUME Inv, NEW p \in Calls, NEW place \in Executing, Started(p),
         call' = [call EXCEPT ![p].at = place],
         UNCHANGED <<mode, runs, holder, line, stopping, unload, shutdown>>
  PROVE  Inv'
<1>1. call[p] \in CallType /\ call \in [Calls -> CallType]
  BY DEF Inv, Types
<1> DEFINE new == [call[p] EXCEPT !.at = place]
<1>2. new \in CallType /\ new.at = place /\ new.script = call[p].script /\ new.stop = call[p].stop
  BY <1>1 DEF CallType, Executing
<1>3. call' = [call EXCEPT ![p] = new]
  OBVIOUS
<1> HIDE DEF new
<1>4. /\ call' \in [Calls -> CallType] /\ call'[p] = new
      /\ \A c \in Calls \ {p} : call'[c] = call[c]
  BY <1>1, <1>2, <1>3
<1>5. Types'
  BY <1>4 DEF Inv, Types
<1>6. ASSUME NEW c \in Calls
      PROVE  Quiet(c) /\ (call'[c].at = "restarting" => call'[c].waits = call[c].waits)
  <2>1. CASE c = p
    BY <1>2, <1>4, <2>1 DEF Quiet, Started, Executing
  <2>2. CASE c # p
    BY <1>4, <2>2 DEF Quiet, Started
  <2> QED
    BY <2>1, <2>2
<1> QED
  BY <1>5, <1>6, Calmer

-----------------------------------------------------------------------------
(***************************************************************************)
(* The end of a run                                                        *)
(***************************************************************************)
LEMMA FinishKeeps ==
  ASSUME Inv, NEW c \in Calls, call[c].at # "free", Finish(c)
  PROVE  Inv'
<1>s. PICK s \in Scripts : s = call[c].script
  BY DEF Inv, Types, CallOK, CallType
<1>t. Types /\ runs[s] \in Seq(Calls) /\ line[s] \in Seq(Calls)
  BY DEF Inv, Types
<1>1. /\ runs' = [runs EXCEPT ![s] = Without(runs[s], c)]
      /\ line' = [line EXCEPT ![s] = Without(line[s], c)]
      /\ holder' = IF holder[s] = c THEN [holder EXCEPT ![s] = Nobody] ELSE holder
      /\ stopping' = stopping \ {c}
      /\ call' = [d \in Calls |-> IF d = c THEN NoCall
                                  ELSE [call[d] EXCEPT !.waits = call[d].waits \ {c}]]
      /\ UNCHANGED <<mode, unload, shutdown>>
  BY <1>s DEF Finish
<1>2. ScriptOK(s) /\ ModeOK(s) /\ Distinct(runs[s]) /\ Distinct(line[s])
  BY DEF Inv, ScriptOK
<1>3. /\ Without(runs[s], c) \in Seq(Calls) /\ Distinct(Without(runs[s], c))
      /\ \A d : Queued(Without(runs[s], c), d) <=> Queued(runs[s], d) /\ d # c
      /\ Queued(runs[s], c)
      /\ \E k \in 1..Len(runs[s]) : Dropped(runs[s], k, Without(runs[s], c))
  BY <1>s, <1>t, <1>2, WithoutDrops DEF ScriptOK
<1>4. /\ Without(line[s], c) \in Seq(Calls) /\ Distinct(Without(line[s], c))
      /\ \A d : Queued(Without(line[s], c), d) <=> Queued(line[s], d) /\ d # c
  BY <1>t, <1>2, WithoutDrops
<1>5. NoCall \in CallType /\ NoCall.at = "free" /\ NoCall.script = Nobody
  BY DEF NoCall, CallType
<1>6. ASSUME NEW d \in Calls
      PROVE  LET less == [call[d] EXCEPT !.waits = call[d].waits \ {c}]
             IN  /\ less \in CallType
                 /\ less.at = call[d].at /\ less.script = call[d].script
                 /\ less.stop = call[d].stop /\ less.waits = call[d].waits \ {c}
  <2>1. call[d] \in CallType
    BY <1>t DEF Types
  <2> QED
    BY <2>1 DEF CallType
<1>7. /\ call' \in [Calls -> CallType]
      /\ call'[c].at = "free" /\ call'[c].script = Nobody
      /\ \A d \in Calls \ {c} :
           /\ call'[d].at = call[d].at /\ call'[d].script = call[d].script
           /\ call'[d].stop = call[d].stop /\ call'[d].waits = call[d].waits \ {c}
  BY <1>1, <1>5, <1>6
<1>8. /\ runs' \in [Scripts -> Seq(Calls)] /\ runs'[s] = Without(runs[s], c)
      /\ line' \in [Scripts -> Seq(Calls)] /\ line'[s] = Without(line[s], c)
      /\ holder' \in [Scripts -> Calls \cup {Nobody}]
      /\ holder'[s] = IF holder[s] = c THEN Nobody ELSE holder[s]
      /\ \A r \in Scripts \ {s} :
           runs'[r] = runs[r] /\ line'[r] = line[r] /\ holder'[r] = holder[r]
  BY <1>t, <1>1, <1>3, <1>4 DEF Types
<1>9. Types'
  BY <1>t, <1>1, <1>7, <1>8 DEF Types
<1>10. \A d \in Calls \ {c} : Quiet(d)
  BY <1>7 DEF Quiet, Started
<1>11. ASSUME NEW r \in Scripts \ {s} PROVE ScriptOK(r)' /\ ModeOK(r)'
  <2>1. \A d \in Calls : call[d].script = r \/ call'[d].script = r => Quiet(d)
    BY <1>s, <1>7, <1>10, CallsAreNumbers
  <2> QED
    BY <1>1, <1>8, <2>1, ScriptUntouched
<1>n. \A d \in Calls :
        /\ call'[d].script = s <=> d # c /\ call[d].script = s
        /\ d # c => (Started(d)' <=> Started(d))
        /\ d # c => (call'[d].at = "queued" <=> call[d].at = "queued")
  <2>1. Nobody # s
    BY CallsAreNumbers
  <2> QED
    BY <1>7, <2>1 DEF Started
<1>12. ScriptOK(s)'
  <2>1. Distinct(runs'[s]) /\ Distinct(line'[s])
    BY <1>3, <1>4, <1>8
  <2>2. \A d \in Calls : Queued(runs'[s], d) <=> call'[d].script = s
    BY <1>2, <1>3, <1>8, <1>n DEF ScriptOK
  <2>3. \A d \in Calls : Queued(line'[s], d) <=> call'[d].script = s /\ call'[d].at = "queued"
    BY <1>2, <1>4, <1>8, <1>n DEF ScriptOK
  <2>4. CASE mode[s] = "queued"
    <3>1. ASSUME NEW d \in Calls PROVE holder'[s] = d <=> call'[d].script = s /\ Started(d)'
      <4>1. CASE d = c
        BY <1>8, <1>n, <4>1, CallsAreNumbers
      <4>2. CASE d # c
        <5>1. holder[s] = d <=> call[d].script = s /\ Started(d)
          BY <1>2, <2>4 DEF ScriptOK
        <5>2. holder'[s] = d <=> holder[s] = d
          BY <1>8, <4>2, CallsAreNumbers
        <5> QED
          BY <1>n, <4>2, <5>1, <5>2
      <4> QED
        BY <4>1, <4>2
    <3> QED
      BY <1>1, <2>1, <2>2, <2>3, <2>4, <3>1 DEF ScriptOK
  <2>5. CASE mode[s] # "queued"
    BY <1>1, <1>2, <1>8, <2>1, <2>2, <2>3, <2>5 DEF ScriptOK
  <2> QED
    BY <2>4, <2>5
<1>13. ModeOK(s)'
  <2>2. ASSUME mode[s] = "restart", NEW i \in 1..Len(runs'[s]) - 1
        PROVE  call'[runs'[s][i]].stop \/ call'[runs'[s][i]].at = "lost"
    <3>1. PICK k \in 1..Len(runs[s]) : Dropped(runs[s], k, runs'[s])
      BY <1>3, <1>8
    <3>2. /\ Len(runs[s]) \in Nat /\ Len(runs'[s]) = Len(runs[s]) - 1
          /\ i \in Nat /\ i \in 1..Len(runs'[s])
      BY <1>t, <3>1 DEF Dropped
    <3>3. PICK j \in 1..Len(runs[s]) - 1 : runs'[s][i] = runs[s][j]
      <4>1. runs'[s][i] = IF i < k THEN runs[s][i] ELSE runs[s][i + 1]
        BY <3>1, <3>2 DEF Dropped
      <4>2. i \in 1..Len(runs[s]) - 1 /\ i + 1 \in 1..Len(runs[s]) - 1
        BY <3>2
      <4> QED
        BY <4>1, <4>2
    <3>4. call[runs[s][j]].stop \/ call[runs[s][j]].at = "lost"
      BY <1>2, <2>2, <3>3 DEF ModeOK
    <3>5. runs'[s][i] \in Calls /\ runs'[s][i] # c
      <4>1. Queued(Without(runs[s], c), runs'[s][i])
        BY <1>8, <3>2 DEF Queued
      <4>2. runs[s][j] \in Calls
        BY <1>t, <3>2
      <4> QED
        BY <1>3, <3>3, <4>1, <4>2
    <3> QED
      BY <1>7, <3>3, <3>4, <3>5
  <2>3. ASSUME mode[s] = "restart", NEW d \in Calls, NEW e \in Calls,
               call'[d].script = s, call'[e].script = s, Started(d)', Started(e)'
        PROVE  d = e
    BY <1>2, <1>n, <2>3 DEF ModeOK
  <2>4. ASSUME mode[s] = "single", NEW d \in Calls, NEW e \in Calls,
               call'[d].script = s, call'[e].script = s
        PROVE  d = e
    BY <1>2, <1>n, <2>4 DEF ModeOK
  <2> QED
    BY <1>1, <2>2, <2>3, <2>4 DEF ModeOK
<1>14. ASSUME NEW d \in Calls PROVE CallOK(d)'
  <2>1. CASE d = c
    BY <1>7, <2>1 DEF CallOK
  <2>2. CASE d # c
    <3>1. CallOK(d)
      BY DEF Inv
    <3>2. ASSUME call'[d].at = "restarting", ~call'[d].stop, NEW e \in Calls,
                 call'[e].script = call'[d].script, Started(e)'
          PROVE  e \in call'[d].waits
      <4>1. e # c
        BY <1>7, <3>2 DEF Started, Executing
      <4>2. e \in call[d].waits
        BY <1>7, <2>2, <3>1, <3>2, <4>1 DEF CallOK, Started
      <4> QED
        BY <1>7, <2>2, <4>1, <4>2
    <3> QED
      BY <1>1, <1>7, <2>2, <3>1, <3>2 DEF CallOK
  <2> QED
    BY <2>1, <2>2
<1> QED
  BY <1>9, <1>11, <1>12, <1>13, <1>14 DEF Inv

-----------------------------------------------------------------------------
(***************************************************************************)
(* A new run                                                               *)
(***************************************************************************)
LEMMA AddRunKeeps ==
  ASSUME Inv, NEW s \in Scripts, NEW p \in Calls \cup {Nobody},
         NEW f \in [Calls -> CallType], NEW c \in FreeCall,
         \A d \in Calls : \/ f[d] = call[d]
                          \/ /\ call[d].at \in Executing /\ f[d].at \in Executing
                             /\ f[d].script = call[d].script /\ f[d].stop = call[d].stop,
         Accepts(s, p), AddRun(s, p, f, c),
         UNCHANGED <<mode, stopping, unload, shutdown>>
  PROVE  Inv'
<1> DEFINE queue == mode[s] = "queued"
           free == holder[s] = Nobody /\ line[s] = <<>>
           old == IF mode[s] = "restart" THEN RunsOf(s) ELSE {}
           place == IF old # {} THEN "restarting"
                    ELSE IF queue /\ ~free THEN "queued" ELSE "running"
           new == [NoCall EXCEPT !.script = s, !.parent = p]
           run == [new EXCEPT !.at = place, !.waits = Awaited(old)]
<1>1. /\ runs' = [runs EXCEPT ![s] = Append(runs[s], c)]
      /\ call' = [SetStop(f, old) EXCEPT ![c] = run]
      /\ holder' = IF queue /\ free THEN [holder EXCEPT ![s] = c] ELSE holder
      /\ line' = IF place = "queued" THEN [line EXCEPT ![s] = Append(line[s], c)] ELSE line
  BY DEF AddRun
<1>t. /\ Types /\ ScriptOK(s) /\ ModeOK(s)
      /\ runs[s] \in Seq(Calls) /\ line[s] \in Seq(Calls)
  BY DEF Inv, Types
<1>c. c \in Calls /\ call[c].at = "free" /\ call[c].script = Nobody
  BY DEF FreeCall, Inv, CallOK
<1>s. s # Nobody /\ c # Nobody
  BY <1>c, CallsAreNumbers
<1>2. /\ \A d : d \in RunsOf(s) <=> d \in Calls /\ call[d].script = s
      /\ old \subseteq Calls /\ c \notin old
  BY <1>c, <1>s, RunsAreCalls
<1>3. /\ place \in {"restarting", "queued", "running"}
      /\ Awaited(old) \subseteq Calls
      /\ \A d : d \in Awaited(old) <=> d \in old /\ Started(d)
  BY <1>2 DEF Awaited
<1>4. /\ run \in CallType
      /\ run.at = place /\ run.script = s /\ run.waits = Awaited(old) /\ run.stop = FALSE
  <2> HIDE DEF place, old
  <2>1. NoCall \in CallType /\ NoCall.stop = FALSE
    BY DEF NoCall, CallType
  <2>2. new \in CallType /\ new.script = s /\ new.stop = FALSE
    BY <2>1 DEF CallType
  <2> HIDE DEF new
  <2> QED
    BY <1>3, <2>2 DEF CallType
<1> HIDE DEF run, new
<1>5. /\ call' \in [Calls -> CallType]
      /\ call'[c] = run
      /\ \A d \in Calls \ {c} :
           /\ call'[d].at = f[d].at /\ call'[d].script = f[d].script
           /\ call'[d].waits = f[d].waits
           /\ f[d].stop \/ d \in old => call'[d].stop
  <2> HIDE DEF old
  <2>1. /\ call' \in [Calls -> CallType] /\ call'[c] = run
        /\ \A d \in Calls \ {c} : call'[d] = SetStop(f, old)[d]
    BY <1>1, <1>4, <1>c, SetStopIs
  <2> QED
    BY <2>1, SetStopIs
<1>6. ASSUME NEW d \in Calls \ {c}
      PROVE  /\ Quiet(d)
             /\ d \in old => call'[d].stop
             /\ call'[d].at = "restarting" => call'[d].waits = call[d].waits
  <2>1. \/ f[d] = call[d]
        \/ /\ call[d].at \in Executing /\ f[d].at \in Executing
           /\ f[d].script = call[d].script /\ f[d].stop = call[d].stop
    OBVIOUS
  <2> HIDE DEF old
  <2> QED
    BY <1>5, <2>1 DEF Quiet, Started, Executing
<1>7. Distinct(runs[s]) /\ Distinct(line[s]) /\ ~Queued(runs[s], c) /\ ~Queued(line[s], c)
  BY <1>t, <1>c, <1>s DEF ScriptOK
<1>8. /\ Append(runs[s], c) \in Seq(Calls) /\ Distinct(Append(runs[s], c))
      /\ \A d : Queued(Append(runs[s], c), d) <=> Queued(runs[s], d) \/ d = c
      /\ Append(line[s], c) \in Seq(Calls) /\ Distinct(Append(line[s], c))
      /\ \A d : Queued(Append(line[s], c), d) <=> Queued(line[s], d) \/ d = c
  BY <1>t, <1>c, <1>7, QueueAppended
<1>9. /\ runs' \in [Scripts -> Seq(Calls)] /\ runs'[s] = Append(runs[s], c)
      /\ line' \in [Scripts -> Seq(Calls)]
      /\ line'[s] = IF place = "queued" THEN Append(line[s], c) ELSE line[s]
      /\ holder' \in [Scripts -> Calls \cup {Nobody}]
      /\ holder'[s] = IF queue /\ free THEN c ELSE holder[s]
      /\ \A r \in Scripts \ {s} :
           runs'[r] = runs[r] /\ line'[r] = line[r] /\ holder'[r] = holder[r]
  <2> HIDE DEF place, free, queue
  <2> QED
    BY <1>t, <1>c, <1>1, <1>8 DEF Types
<1>10. Types'
  BY <1>t, <1>5, <1>9 DEF Types
<1>11. ASSUME NEW r \in Scripts \ {s} PROVE ScriptOK(r)' /\ ModeOK(r)'
  <2>1. r # Nobody
    BY CallsAreNumbers
  <2>2. \A d \in Calls : call[d].script = r \/ call'[d].script = r => Quiet(d)
    BY <1>4, <1>5, <1>6, <1>c, <2>1
  <2> QED
    BY <1>9, <2>2, ScriptUntouched
<1>n. \A d \in Calls :
        /\ call'[d].script = s <=> d = c \/ call[d].script = s
        /\ d # c => (Started(d)' <=> Started(d))
        /\ d # c => (call'[d].at = "queued" <=> call[d].at = "queued")
  BY <1>4, <1>5, <1>6 DEF Quiet
<1>p. call'[c].at = place /\ (Started(c)' <=> place = "running")
  BY <1>3, <1>4, <1>5 DEF Started, Executing
<1>12. ScriptOK(s)'
  <2>1. Distinct(runs'[s]) /\ Distinct(line'[s])
    BY <1>7, <1>8, <1>9
  <2>2. \A d \in Calls : Queued(runs'[s], d) <=> call'[d].script = s
    BY <1>t, <1>8, <1>9, <1>n DEF ScriptOK
  <2>3. ASSUME NEW d \in Calls
        PROVE  Queued(line'[s], d) <=> call'[d].script = s /\ call'[d].at = "queued"
    <3>1. Queued(line[s], d) <=> call[d].script = s /\ call[d].at = "queued"
      BY <1>t DEF ScriptOK
    <3>2. CASE place = "queued"
      <4>1. Queued(line'[s], d) <=> Queued(line[s], d) \/ d = c
        BY <1>8, <1>9, <3>2
      <4> HIDE DEF place
      <4> QED
        BY <1>n, <1>p, <3>1, <3>2, <4>1
    <3>3. CASE place # "queued"
      <4>1. line'[s] = line[s]
        BY <1>9, <3>3
      <4> HIDE DEF place
      <4> QED
        BY <1>7, <1>n, <1>p, <3>1, <3>3, <4>1
    <3> QED
      BY <3>2, <3>3
  <2>4. CASE queue
    <3>1. \A d \in Calls : holder[s] = d <=> call[d].script = s /\ Started(d)
      BY <1>t, <2>4 DEF ScriptOK
    <3>2. place = IF free THEN "running" ELSE "queued"
      BY <2>4
    <3>3. ASSUME NEW d \in Calls PROVE holder'[s] = d <=> call'[d].script = s /\ Started(d)'
      <4>1. CASE free
        <5>1. \A e \in Calls : ~(call[e].script = s /\ Started(e))
          BY <3>1, <4>1, CallsAreNumbers
        <5> QED
          BY <1>9, <1>n, <1>p, <2>4, <3>2, <4>1, <5>1
      <4>2. CASE ~free
        <5>1. holder'[s] = holder[s] /\ ~Started(c)' /\ ~Started(c)
          BY <1>9, <1>c, <1>p, <3>2, <4>2 DEF Started, Executing
        <5> HIDE DEF free, place
        <5> QED
          BY <1>n, <3>1, <5>1
      <4> QED
        BY <4>1, <4>2
    <3> QED
      BY <2>1, <2>2, <2>3, <2>4, <3>3 DEF ScriptOK
  <2>5. CASE ~queue
    <3>1. holder'[s] = Nobody /\ mode'[s] # "queued"
      BY <1>t, <1>9, <2>5 DEF ScriptOK
    <3> QED
      BY <2>1, <2>2, <2>3, <3>1 DEF ScriptOK
  <2> QED
    BY <2>4, <2>5
<1>13. ModeOK(s)'
  <2>1. ASSUME mode[s] = "single", NEW d \in Calls, NEW e \in Calls,
               call'[d].script = s, call'[e].script = s
        PROVE  d = e
    <3>1. runs[s] = <<>>
      BY <2>1 DEF Accepts
    <3>2. \A x \in Calls : call[x].script # s
      BY <1>t, <3>1 DEF ScriptOK, Queued
    <3> QED
      BY <1>n, <2>1, <3>2
  <2>2. ASSUME mode[s] = "restart", NEW i \in 1..Len(runs'[s]) - 1
        PROVE  call'[runs'[s][i]].stop \/ call'[runs'[s][i]].at = "lost"
    <3>1. i \in 1..Len(runs[s]) /\ runs'[s][i] = runs[s][i]
      BY <1>t, <1>9
    <3>2. runs[s][i] \in Calls /\ call[runs[s][i]].script = s
      BY <1>t, <3>1 DEF ScriptOK, Queued
    <3>3. runs[s][i] \in old /\ runs[s][i] # c
      BY <1>2, <2>2, <3>2
    <3> QED
      BY <1>6, <3>1, <3>2, <3>3
  <2>3. ASSUME mode[s] = "restart", NEW d \in Calls, NEW e \in Calls,
               call'[d].script = s, call'[e].script = s, Started(d)', Started(e)'
        PROVE  d = e
    <3>1. CASE old = {}
      <4>1. \A x \in Calls : call[x].script # s
        BY <1>2, <2>3, <3>1
      <4> QED
        BY <1>n, <2>3, <4>1
    <3>2. CASE old # {}
      <4>1. d # c /\ e # c
        BY <1>p, <2>3, <3>2
      <4> QED
        BY <1>t, <1>n, <2>3, <4>1 DEF ModeOK
    <3> QED
      BY <3>1, <3>2
  <2> QED
    BY <2>1, <2>2, <2>3 DEF ModeOK
<1>14. CallOK(c)'
  <2>1. call'[c].script = s /\ call'[c].waits = Awaited(old)
    BY <1>4, <1>5
  <2>2. call'[c].at = "restarting" => mode'[s] = "restart"
    BY <1>p
  <2>3. call'[c].at = "queued" => mode'[s] = "queued"
    BY <1>p
  <2>4. ASSUME call'[c].at = "restarting", NEW d \in Calls, call'[d].script = s, Started(d)'
        PROVE  d \in Awaited(old)
    <3>1. old # {} /\ mode[s] = "restart"
      BY <1>p, <2>4
    <3>2. d # c
      BY <1>p, <2>4
    <3>3. call[d].script = s /\ Started(d)
      BY <1>n, <2>4, <3>2
    <3> QED
      BY <1>2, <1>3, <3>1, <3>3
  <2>5. call'[c].at # "free"
    BY <1>3, <1>p
  <2> QED
    BY <1>s, <2>1, <2>2, <2>3, <2>4, <2>5 DEF CallOK
<1>15. ASSUME NEW d \in Calls \ {c} PROVE CallOK(d)'
  <2>1. CallOK(d) /\ Quiet(d)
    BY <1>6 DEF Inv
  <2>2. ASSUME call'[d].at = "restarting", ~call'[d].stop, NEW e \in Calls,
               call'[e].script = call'[d].script, Started(e)'
        PROVE  e \in call'[d].waits
    <3>1. call[d].at = "restarting" /\ ~call[d].stop /\ call'[d].waits = call[d].waits
      BY <1>6, <2>1, <2>2 DEF Quiet
    <3>2. mode[call[d].script] = "restart" /\ call'[d].script = call[d].script
      BY <2>1, <3>1 DEF CallOK, Quiet
    <3>3. e # c
      <4> SUFFICES ASSUME e = c PROVE FALSE
        OBVIOUS
      <4>1. call[d].script = s
        BY <1>4, <1>5, <2>2, <3>2
      <4>2. d \in old
        BY <1>2, <3>2, <4>1
      <4> QED
        BY <1>6, <2>2, <4>2
    <3>4. call[e].script = call[d].script /\ Started(e)
      BY <1>6, <2>2, <3>2, <3>3 DEF Quiet
    <3> QED
      BY <2>1, <3>1, <3>4 DEF CallOK
  <2>3. /\ call'[d].at = "free" <=> call'[d].script = Nobody
        /\ call'[d].at = "restarting" => mode'[call'[d].script] = "restart"
        /\ call'[d].at = "queued" => mode'[call'[d].script] = "queued"
    BY <2>1 DEF CallOK, Quiet
  <2> QED
    BY <2>2, <2>3 DEF CallOK
<1> QED
  BY <1>10, <1>11, <1>12, <1>13, <1>14, <1>15 DEF Inv

LEMMA StartKeeps ==
  ASSUME Inv, NEW s \in Scripts, Start(s)
  PROVE  Inv'
<1>1. PICK c \in FreeCall : AddRun(s, Nobody, call, c)
  BY DEF Start
<1>2. call \in [Calls -> CallType] /\ Nobody \in Calls \cup {Nobody}
  BY DEF Inv, Types
<1>3. Accepts(s, Nobody) /\ UNCHANGED <<mode, stopping, unload, shutdown>>
  BY DEF Start
<1> QED
  BY <1>1, <1>2, <1>3, AddRunKeeps

LEMMA CallScriptKeeps ==
  ASSUME Inv, NEW p \in Calls, NEW s \in Scripts, CallScript(p, s)
  PROVE  Inv'
<1> DEFINE new == [call[p] EXCEPT !.at = "calling"]
           f == [call EXCEPT ![p].at = "calling"]
<1>1. call \in [Calls -> CallType] /\ call[p] \in CallType /\ call[p].at = "running"
  BY DEF Inv, Types, CallScript
<1>2. new \in CallType /\ new.at = "calling" /\ new.script = call[p].script /\ new.stop = call[p].stop
  BY <1>1 DEF CallType
<1>3. f = [call EXCEPT ![p] = new]
  OBVIOUS
<1>4. PICK c \in FreeCall : AddRun(s, p, f, c)
  BY DEF CallScript
<1>5. Accepts(s, p) /\ UNCHANGED <<mode, stopping, unload, shutdown>>
  BY DEF CallScript
<1> HIDE DEF new, f
<1>6. f \in [Calls -> CallType] /\ f[p] = new /\ \A d \in Calls \ {p} : f[d] = call[d]
  BY <1>1, <1>2, <1>3
<1>7. \A d \in Calls : \/ f[d] = call[d]
                       \/ /\ call[d].at \in Executing /\ f[d].at \in Executing
                          /\ f[d].script = call[d].script /\ f[d].stop = call[d].stop
  BY <1>1, <1>2, <1>6 DEF Executing
<1>8. p \in Calls \cup {Nobody}
  OBVIOUS
<1> QED
  BY <1>4, <1>5, <1>6, <1>7, <1>8, AddRunKeeps

-----------------------------------------------------------------------------
(***************************************************************************)
(* A waiting run starts                                                    *)
(***************************************************************************)
\* In restart mode only the newest run is neither stopped nor lost.
LEMMA NewestIsUnique ==
  ASSUME Inv, NEW s \in Scripts, mode[s] = "restart",
         NEW c \in Calls, call[c].script = s, ~call[c].stop, call[c].at # "lost",
         NEW d \in Calls, call[d].script = s, ~call[d].stop, call[d].at # "lost"
  PROVE  c = d
<1>1. /\ ScriptOK(s) /\ ModeOK(s) /\ runs[s] \in Seq(Calls) /\ Len(runs[s]) \in Nat
  BY DEF Inv, Types
<1>2. ASSUME NEW e \in Calls, call[e].script = s, ~call[e].stop, call[e].at # "lost"
      PROVE  runs[s][Len(runs[s])] = e
  <2>1. PICK i \in 1..Len(runs[s]) : runs[s][i] = e
    BY <1>1, <1>2 DEF ScriptOK, Queued
  <2>2. i \notin 1..Len(runs[s]) - 1
    BY <1>1, <1>2, <2>1 DEF ModeOK
  <2>3. i = Len(runs[s])
    BY <1>1, <2>2
  <2> QED
    BY <2>1, <2>3
<1> QED
  BY <1>2

LEMMA BeginKeeps ==
  ASSUME Inv, NEW c \in Calls, NEW s \in Scripts, call[c].script = s, ~call[c].stop,
         call' = [call EXCEPT ![c].at = "running"],
         UNCHANGED <<mode, runs, stopping, unload, shutdown>>,
         \/ /\ call[c].at = "restarting" /\ call[c].waits = {}
            /\ UNCHANGED <<holder, line>>
         \/ /\ call[c].at = "queued"
            /\ holder[s] = Nobody /\ Head(line[s]) = c
            /\ holder' = [holder EXCEPT ![s] = c]
            /\ line' = [line EXCEPT ![s] = Tail(line[s])]
  PROVE  Inv'
<1> DEFINE new == [call[c] EXCEPT !.at = "running"]
<1>t. Types /\ ScriptOK(s) /\ ModeOK(s) /\ CallOK(c)
  BY DEF Inv
<1>1. call \in [Calls -> CallType] /\ call[c] \in CallType
  BY <1>t DEF Types
<1>2. new \in CallType /\ new.at = "running" /\ new.script = s /\ new.stop = call[c].stop
  BY <1>1 DEF CallType
<1>3. call' = [call EXCEPT ![c] = new]
  OBVIOUS
<1> HIDE DEF new
<1>4. /\ call' \in [Calls -> CallType] /\ call'[c].at = "running" /\ call'[c].script = s
      /\ \A d \in Calls \ {c} : call'[d] = call[d]
  BY <1>1, <1>2, <1>3
<1>5. /\ \A d \in Calls : call'[d].script = call[d].script
      /\ Started(c)' /\ ~Started(c) /\ call[c].at \in {"restarting", "queued"}
      /\ \A d \in Calls \ {c} : (Started(d)' <=> Started(d)) /\ Quiet(d)
  BY <1>4 DEF Started, Executing, Quiet
<1>6. /\ line' \in [Scripts -> Seq(Calls)] /\ holder' \in [Scripts -> Calls \cup {Nobody}]
      /\ \A r \in Scripts \ {s} : line'[r] = line[r] /\ holder'[r] = holder[r]
      /\ Distinct(line'[s])
      /\ \A d : Queued(line'[s], d) <=> Queued(line[s], d) /\ d # c
      /\ IF mode[s] = "queued" THEN holder[s] = Nobody /\ holder'[s] = c
                               ELSE holder'[s] = holder[s]
  <2>1. line[s] \in Seq(Calls) /\ Distinct(line[s])
    BY <1>t DEF Types, ScriptOK
  <2>2. CASE call[c].at = "restarting"
    <3>1. line' = line /\ holder' = holder
      BY <2>2
    <3>2. ~Queued(line[s], c)
      BY <1>t, <2>2 DEF ScriptOK
    <3>3. mode[s] # "queued"
      BY <1>t, <2>2 DEF CallOK
    <3> QED
      BY <1>t, <2>1, <3>1, <3>2, <3>3 DEF Types
  <2>3. CASE call[c].at = "queued"
    <3>1. /\ holder[s] = Nobody /\ Head(line[s]) = c
          /\ holder' = [holder EXCEPT ![s] = c]
          /\ line' = [line EXCEPT ![s] = Tail(line[s])]
      BY <2>3
    <3>2. Queued(line[s], c)
      BY <1>t, <2>3 DEF ScriptOK
    <3>3. line[s] # <<>>
      BY <3>2 DEF Queued
    <3>4. /\ Tail(line[s]) \in Seq(Calls) /\ Distinct(Tail(line[s]))
          /\ \A d : Queued(Tail(line[s]), d) <=> Queued(line[s], d) /\ d # c
      <4>1. /\ Tail(line[s]) \in Seq(Calls)
            /\ \E k \in 1..Len(line[s]) : line[s][k] = c /\ Dropped(line[s], k, Tail(line[s]))
        BY <2>1, <3>1, <3>3, TailDrops
      <4>2. PICK k \in 1..Len(line[s]) : line[s][k] = c /\ Dropped(line[s], k, Tail(line[s]))
        BY <4>1
      <4> DEFINE rest == Tail(line[s])
      <4>3. rest \in Seq(Calls) /\ Dropped(line[s], k, rest)
        BY <4>1, <4>2
      <4> HIDE DEF rest
      <4>4. Distinct(rest) /\ \A d : Queued(rest, d) <=> Queued(line[s], d) /\ d # c
        BY <2>1, <4>2, <4>3, QueueDropped
      <4> QED
        BY <4>3, <4>4 DEF rest
    <3>5. mode[s] = "queued"
      BY <1>t, <2>3 DEF CallOK
    <3> QED
      BY <1>t, <3>1, <3>4, <3>5 DEF Types
  <2> QED
    BY <1>5, <2>2, <2>3
<1>7. Types'
  BY <1>t, <1>4, <1>6 DEF Types
<1>8. ASSUME NEW r \in Scripts \ {s} PROVE ScriptOK(r)' /\ ModeOK(r)'
  <2>1. \A d \in Calls : call[d].script = r \/ call'[d].script = r => Quiet(d)
    BY <1>5
  <2> QED
    BY <1>6, <2>1, ScriptUntouched
<1>9. ScriptOK(s)'
  <2>1. \A d \in Calls : Queued(runs'[s], d) <=> call'[d].script = s
    BY <1>t, <1>5 DEF ScriptOK
  <2>2. \A d \in Calls : Queued(line'[s], d) <=> call'[d].script = s /\ call'[d].at = "queued"
    BY <1>t, <1>4, <1>6 DEF ScriptOK
  <2>3. CASE mode[s] = "queued"
    <3>1. \A d \in Calls : ~(call[d].script = s /\ Started(d))
      BY <1>t, <1>6, <2>3, CallsAreNumbers DEF ScriptOK
    <3>2. \A d \in Calls : holder'[s] = d <=> call'[d].script = s /\ Started(d)'
      BY <1>5, <1>6, <2>3, <3>1
    <3> QED
      BY <1>t, <1>6, <2>1, <2>2, <2>3, <3>2 DEF ScriptOK
  <2>4. CASE mode[s] # "queued"
    BY <1>t, <1>6, <2>1, <2>2, <2>4 DEF ScriptOK
  <2> QED
    BY <2>3, <2>4
<1>10. ModeOK(s)'
  <2>1. mode[s] = "single" => FALSE
    BY <1>t, <1>5 DEF CallOK
  <2>2. ASSUME mode[s] = "restart"
        PROVE  /\ \A i \in 1..Len(runs[s]) - 1 :
                    call'[runs[s][i]].stop \/ call'[runs[s][i]].at = "lost"
               /\ \A d \in Calls : call[d].script = s => ~Started(d)
    <3>1. call[c].at = "restarting" /\ call[c].waits = {}
      BY <1>t, <1>5, <2>2 DEF CallOK
    <3>2. \A d \in Calls : call[d].script = s => ~Started(d)
      BY <1>t, <3>1 DEF CallOK
    <3>3. ASSUME NEW i \in 1..Len(runs[s]) - 1
          PROVE  call'[runs[s][i]].stop \/ call'[runs[s][i]].at = "lost"
      <4>1. runs[s][i] \in Calls
        BY <1>t DEF Types
      <4>2. call[runs[s][i]].stop \/ call[runs[s][i]].at = "lost"
        BY <1>t, <2>2 DEF ModeOK
      <4>3. runs[s][i] # c
        BY <3>1, <4>2
      <4> QED
        BY <1>4, <4>1, <4>2, <4>3
    <3> QED
      BY <3>2, <3>3
  <2>3. ASSUME mode[s] = "restart", NEW d \in Calls, NEW e \in Calls,
               call'[d].script = s, call'[e].script = s, Started(d)', Started(e)'
        PROVE  d = e
    BY <1>5, <2>2, <2>3
  <2> QED
    BY <2>1, <2>2, <2>3 DEF ModeOK
<1>11. ASSUME NEW d \in Calls PROVE CallOK(d)'
  <2>1. CallOK(d)
    BY DEF Inv
  <2>2. CASE d = c
    <3>1. s # Nobody
      BY CallsAreNumbers
    <3> QED
      BY <1>4, <2>2, <3>1 DEF CallOK
  <2>3. CASE d # c
    <3>1. ASSUME call[d].at = "restarting", ~call[d].stop, NEW e \in Calls,
                 call[e].script = call[d].script, Started(e)'
          PROVE  e \in call[d].waits
      <4>1. CASE e # c
        BY <1>5, <2>1, <3>1, <4>1 DEF CallOK
      <4>2. CASE e = c
        <5>1. mode[s] = "restart" /\ call[d].script = s
          BY <2>1, <3>1, <4>2 DEF CallOK
        <5>2. call[c].at # "lost"
          BY <1>5
        <5> QED
          BY <2>3, <3>1, <5>1, <5>2, NewestIsUnique
      <4> QED
        BY <4>1, <4>2
    <3> QED
      BY <1>4, <1>5, <2>1, <2>3, <3>1 DEF CallOK
  <2> QED
    BY <2>2, <2>3
<1> QED
  BY <1>7, <1>8, <1>9, <1>10, <1>11 DEF Inv

-----------------------------------------------------------------------------
(***************************************************************************)
(* Runs and those that called them                                         *)
(***************************************************************************)
\* A run whose caller waits for it: the caller has not ended meanwhile.
CallerWaits(c) ==
  LET p == call[c].parent IN p # Nobody => call[p].at \in {"calling", "leaving"}

\* Some lineage of c's caller has no run of c's script.
NotItsOwnAncestor(c) ==
  \E S \in SUBSET Calls : /\ Lineage(S, call[c].parent)
                          /\ \A d \in S : call[d].script # call[c].script

Waiting(c) == call[c].at \in {"restarting", "queued"}

Family == \A c \in Calls : CallerWaits(c) /\ (Waiting(c) => NotItsOwnAncestor(c))

LEMMA AncestorsAreALineage ==
  ASSUME Types, NEW p \in Calls \cup {Nobody}
  PROVE  Ancestors(p) \in SUBSET Calls /\ Lineage(Ancestors(p), p)
<1>1. p # Nobody => p \in Ancestors(p)
  BY DEF Ancestors, Lineage
<1>2. ASSUME NEW c \in Ancestors(p), call[c].parent # Nobody
      PROVE  call[c].parent \in Ancestors(p)
  <2>1. c \in Calls /\ call[c].parent \in Calls
    BY <1>2 DEF Ancestors, Types, CallType
  <2>2. ASSUME NEW S \in SUBSET Calls, Lineage(S, p) PROVE call[c].parent \in S
    <3>1. c \in S
      BY <2>2 DEF Ancestors
    <3> QED
      BY <1>2, <2>2, <3>1 DEF Lineage
  <2> QED
    BY <2>1, <2>2 DEF Ancestors
<1> QED
  BY <1>1, <1>2 DEF Ancestors, Lineage

LEMMA FamilyImpliesNoWait == Inv /\ Family => NoWaitForAncestor
<1> SUFFICES ASSUME Inv, Family, NEW c \in Calls, Waiting(c)
             PROVE  call[c].script \notin Stack(call[c].parent)
  BY DEF NoWaitForAncestor, Waiting
<1>1. PICK S \in SUBSET Calls : /\ Lineage(S, call[c].parent)
                                /\ \A d \in S : call[d].script # call[c].script
  BY DEF Family, NotItsOwnAncestor
<1>2. Ancestors(call[c].parent) \subseteq S
  BY <1>1 DEF Ancestors
<1> QED
  BY <1>1, <1>2 DEF Stack

LEMMA FamilyStarts == Init => Family
<1> SUFFICES ASSUME Init, NEW c \in Calls PROVE CallerWaits(c) /\ ~Waiting(c)
  BY DEF Family
<1>1. call[c] = NoCall
  BY DEF Init
<1> QED
  BY <1>1 DEF NoCall, CallerWaits, Waiting

\* A step keeps the families if no run gets a caller, if those that some run
\* calls go on waiting, and if no run begins to wait.
LEMMA FamilyKept ==
  ASSUME Types, Types', Family,
         \A c \in Calls : /\ call'[c].parent \in {call[c].parent, Nobody}
                          /\ call'[c].script \in {call[c].script, Nobody}
                          /\ Waiting(c)' => Waiting(c) /\ call'[c].script # Nobody,
         \A c, p \in Calls : call'[c].parent = p /\ call[p].at \in {"calling", "leaving"} =>
                               call'[p].at \in {"calling", "leaving"}
  PROVE  Family'
<1>1. ASSUME NEW c \in Calls PROVE CallerWaits(c)'
  <2>1. CallerWaits(c) /\ call'[c].parent \in Calls \cup {Nobody}
    BY DEF Family, Types, CallType
  <2> QED
    BY <2>1 DEF CallerWaits
<1>2. ASSUME NEW c \in Calls, Waiting(c)' PROVE NotItsOwnAncestor(c)'
  <2>1. PICK S \in SUBSET Calls : /\ Lineage(S, call[c].parent)
                                  /\ \A d \in S : call[d].script # call[c].script
    BY <1>2 DEF Family, NotItsOwnAncestor
  <2>2. Lineage(S, call[c].parent)'
    BY <2>1 DEF Lineage
  <2>3. \A d \in S : call'[d].script # call'[c].script
    BY <1>2, <2>1
  <2> QED
    BY <2>2, <2>3 DEF NotItsOwnAncestor
<1> QED
  BY <1>1, <1>2 DEF Family

\* A run that ends is not one that waits for a run it has called.
LEMMA FinishKeepsFamily ==
  ASSUME Inv, Inv', Family, NEW c \in Calls, call[c].at # "free", Finish(c),
         \/ call[c].at \notin {"calling", "leaving"}
         \/ Child(c) = {}
  PROVE  Family'
<1>t. Types /\ Types'
  BY DEF Inv
<1>1. call' = [d \in Calls |-> IF d = c THEN NoCall
                               ELSE [call[d] EXCEPT !.waits = call[d].waits \ {c}]]
  BY DEF Finish
<1>2. NoCall.at = "free" /\ NoCall.script = Nobody /\ NoCall.parent = Nobody
  BY DEF NoCall
<1>3. ASSUME NEW d \in Calls \ {c}
      PROVE  /\ call'[d].at = call[d].at /\ call'[d].script = call[d].script
             /\ call'[d].parent = call[d].parent
  <2>1. call[d] \in CallType /\ call'[d] = [call[d] EXCEPT !.waits = call[d].waits \ {c}]
    BY <1>t, <1>1 DEF Types
  <2> QED
    BY <2>1 DEF CallType
<1>4. call'[c].at = "free" /\ call'[c].script = Nobody /\ call'[c].parent = Nobody
  BY <1>1, <1>2
<1>5. \A d \in Calls \ {c} : call[d].parent # c
  <2>1. c # Nobody
    BY CallsAreNumbers
  <2> QED
    BY <2>1 DEF Child, Family, CallerWaits
<1>6. \A d \in Calls : Waiting(d) => call[d].script # Nobody
  BY DEF Inv, CallOK, Waiting
<1> QED
  BY <1>t, <1>3, <1>4, <1>5, <1>6, CallsAreNumbers, FamilyKept DEF Waiting

LEMMA StopRunsKeepsFamily ==
  ASSUME Inv, Inv', Family, NEW R, StopRuns(R)
  PROVE  Family'
<1>t. Types /\ Types'
  BY DEF Inv
<1>1. \A c \in Calls : /\ call'[c].at = call[c].at /\ call'[c].script = call[c].script
                       /\ call'[c].parent = call[c].parent
  <2>1. call \in [Calls -> CallType] /\ call' = SetStop(call, R)
    BY <1>t DEF Types, StopRuns
  <2> QED
    BY <2>1, SetStopIs
<1>2. \A c \in Calls : Waiting(c)' => Waiting(c) /\ call'[c].script # Nobody
  BY <1>1 DEF Inv, CallOK, Waiting
<1> QED
  BY <1>t, <1>1, <1>2, FamilyKept

\* A run goes to another of its actions, or starts.
LEMMA MoveKeepsFamily ==
  ASSUME Inv, Inv', Family, NEW c \in Calls, NEW place \in {"running", "ending"},
         call' = [call EXCEPT ![c].at = place],
         call[c].at \in {"calling", "leaving"} => Child(c) = {}
  PROVE  Family'
<1>t. Types /\ Types'
  BY DEF Inv
<1> DEFINE new == [call[c] EXCEPT !.at = place]
<1>1. new.at = place /\ new.script = call[c].script /\ new.parent = call[c].parent
  BY <1>t DEF Types, CallType
<1>2. call' = [call EXCEPT ![c] = new]
  OBVIOUS
<1> HIDE DEF new
<1>3. /\ call'[c] = new
      /\ \A d \in Calls \ {c} : call'[d] = call[d]
  BY <1>t, <1>2 DEF Types
<1>4. \A d \in Calls : call'[d].script = call[d].script /\ call'[d].parent = call[d].parent
  BY <1>1, <1>3
<1>5. \A d \in Calls : Waiting(d)' => Waiting(d) /\ call'[d].script # Nobody
  BY <1>1, <1>3 DEF Inv, CallOK, Waiting
<1>6. ASSUME NEW d \in Calls, call'[d].parent = c PROVE call[c].at \notin {"calling", "leaving"}
  <2>1. c # Nobody
    BY CallsAreNumbers
  <2> QED
    BY <1>4, <1>6, <2>1 DEF Child
<1> QED
  BY <1>t, <1>3, <1>4, <1>5, <1>6, FamilyKept

LEMMA CancelledKeepsFamily ==
  ASSUME Inv, Inv', Family, NEW c \in Calls, NEW f \in [Calls -> CallType],
         call' = Cancelled(f, c),
         \A d \in Calls :
           /\ f[d].parent = call[d].parent /\ f[d].script = call[d].script
           /\ \/ f[d].at = call[d].at
              \/ f[d].at = "leaving"
  PROVE  Family'
<1>t. Types /\ Types'
  BY DEF Inv
<1> DEFINE run == f[c]
           at == IF run.at = "restarting" THEN "lost" ELSE run.at
           stop == run.stop \/ call[c].at # "restarting"
           parent == IF Started(c) THEN run.parent ELSE Nobody
           new == [run EXCEPT !.at = at, !.waits = {}, !.stop = stop, !.parent = parent]
<1>1. call' = [f EXCEPT ![c] = new]
  BY DEF Cancelled
<1>2. new.script = run.script /\ new.at = at /\ new.parent = parent
  <2> HIDE DEF at, stop, parent
  <2> QED
    BY DEF CallType
<1>3. call'[c] = new /\ \A d \in Calls \ {c} : call'[d] = f[d]
  <2> HIDE DEF new
  <2> QED
    BY <1>1
<1>4. \A d \in Calls : /\ call'[d].script = f[d].script
                       /\ call'[d].parent \in {f[d].parent, Nobody}
                       /\ call'[d].at \in {f[d].at, "lost"}
                       /\ f[d].at # "restarting" => call'[d].at = f[d].at
  <2> HIDE DEF new
  <2> QED
    BY <1>2, <1>3
<1> HIDE DEF run, at, stop, parent, new
<1>5. \A d \in Calls : Waiting(d)' => Waiting(d) /\ call'[d].script # Nobody
  BY <1>4 DEF Inv, CallOK, Waiting
<1>6. \A d \in Calls : call[d].at \in {"calling", "leaving"} =>
                       call'[d].at \in {"calling", "leaving"}
  BY <1>4
<1> QED
  BY <1>t, <1>4, <1>5, <1>6, FamilyKept

LEMMA AddRunKeepsFamily ==
  ASSUME Inv, Family, NEW s \in Scripts, NEW p \in Calls \cup {Nobody},
         NEW f \in [Calls -> CallType], NEW c \in FreeCall,
         \A d \in Calls :
           /\ f[d].parent = call[d].parent /\ f[d].script = call[d].script
           /\ f[d].at = IF d = p THEN "calling" ELSE call[d].at,
         p # Nobody => call[p].at = "running",
         Accepts(s, p), AddRun(s, p, f, c)
  PROVE  Family'
<1> DEFINE queue == mode[s] = "queued"
           free == holder[s] = Nobody /\ line[s] = <<>>
           old == IF mode[s] = "restart" THEN RunsOf(s) ELSE {}
           place == IF old # {} THEN "restarting"
                    ELSE IF queue /\ ~free THEN "queued" ELSE "running"
           new == [NoCall EXCEPT !.script = s, !.parent = p]
           run == [new EXCEPT !.at = place, !.waits = Awaited(old)]
<1>t. Types
  BY DEF Inv
<1>1. call' = [SetStop(f, old) EXCEPT ![c] = run]
  BY DEF AddRun
<1>2. run.at = place /\ run.script = s /\ run.parent = p
  <2> HIDE DEF place, old
  <2>1. NoCall \in CallType
    BY DEF NoCall, CallType
  <2>2. new \in CallType /\ new.script = s /\ new.parent = p
    BY <2>1 DEF CallType
  <2> HIDE DEF new
  <2> QED
    BY <2>2 DEF CallType
<1>3. place \in {"restarting", "queued"} => mode[s] \in {"restart", "queued"}
  OBVIOUS
<1>c. c \in Calls /\ call[c].at = "free" /\ c # p
  BY CallsAreNumbers DEF FreeCall
<1> HIDE DEF run, old, place
<1>4. /\ call'[c] = run
      /\ \A d \in Calls \ {c} :
           /\ call'[d].script = call[d].script /\ call'[d].parent = call[d].parent
           /\ call'[d].at = IF d = p THEN "calling" ELSE call[d].at
  <2>1. /\ call'[c] = run
        /\ \A d \in Calls \ {c} : call'[d] = SetStop(f, old)[d]
    BY <1>1, <1>c, SetStopIs
  <2> QED
    BY <2>1, SetStopIs
<1>5. \A d \in Calls : call[d].parent # c
  BY <1>c, CallsAreNumbers DEF Family, CallerWaits
<1>6. ASSUME NEW d \in Calls PROVE CallerWaits(d)'
  <2>1. CASE d = c
    <3>1. call'[d].parent = p /\ (p # Nobody => call'[p].at = "calling")
      BY <1>2, <1>4, <1>c, <2>1
    <3> QED
      BY <3>1 DEF CallerWaits
  <2>2. CASE d # c
    <3>1. CallerWaits(d) /\ call[d].parent \in Calls \cup {Nobody} /\ call'[d].parent = call[d].parent
      BY <1>t, <1>4, <2>2 DEF Family, Types, CallType
    <3> QED
      BY <1>4, <1>5, <3>1 DEF CallerWaits
  <2> QED
    BY <2>1, <2>2
<1>7. ASSUME NEW d \in Calls, NEW q \in Calls \cup {Nobody}, NEW S \in SUBSET Calls,
             call'[d].parent = q, q # c, Lineage(S, q),
             \A e \in S : call[e].script # call'[d].script
      PROVE  NotItsOwnAncestor(d)'
  <2> DEFINE T == S \ {c}
  <2>1. T \in SUBSET Calls
    OBVIOUS
  <2>2. Lineage(T, call[d].parent)'
    BY <1>4, <1>5, <1>7 DEF Lineage
  <2>3. \A e \in T : call'[e].script # call'[d].script
    BY <1>4, <1>7
  <2> QED
    BY <2>1, <2>2, <2>3 DEF NotItsOwnAncestor
<1>8. ASSUME NEW d \in Calls, Waiting(d)' PROVE NotItsOwnAncestor(d)'
  <2>1. CASE d = c
    <3>1. call'[d].parent = p /\ call'[d].script = s
      BY <1>2, <1>4, <2>1
    <3>2. s \notin Stack(p)
      BY <1>2, <1>3, <1>4, <1>8, <2>1 DEF Accepts, Waiting
    <3>3. Ancestors(p) \in SUBSET Calls /\ Lineage(Ancestors(p), p)
      BY <1>t, AncestorsAreALineage
    <3>4. \A e \in Ancestors(p) : call[e].script # call'[d].script
      BY <3>1, <3>2 DEF Stack
    <3> QED
      BY <1>7, <1>c, <3>1, <3>3, <3>4
  <2>2. CASE d # c
    <3>1. Waiting(d)
      BY <1>4, <1>8, <2>2 DEF Waiting
    <3>2. PICK S \in SUBSET Calls : /\ Lineage(S, call[d].parent)
                                    /\ \A e \in S : call[e].script # call[d].script
      BY <3>1 DEF Family, NotItsOwnAncestor
    <3>3. call[d].parent \in Calls \cup {Nobody} /\ call[d].parent # c
      BY <1>t, <1>5 DEF Types, CallType
    <3> QED
      BY <1>4, <1>7, <2>2, <3>2, <3>3
  <2> QED
    BY <2>1, <2>2
<1> QED
  BY <1>6, <1>8 DEF Family

LEMMA NextKeepsFamily == Inv /\ Inv' /\ Family /\ [Next]_vars => Family'
<1> SUFFICES ASSUME Inv, Inv', Family, [Next]_vars PROVE Family'
  OBVIOUS
<1>t. call \in [Calls -> CallType] /\ Types /\ Types'
  BY DEF Inv, Types
<1>1. ASSUME NEW s \in Scripts, Start(s) PROVE Family'
  <2>1. PICK c \in FreeCall : AddRun(s, Nobody, call, c)
    BY <1>1 DEF Start
  <2>2. Accepts(s, Nobody) /\ Nobody \in Calls \cup {Nobody}
    BY <1>1 DEF Start
  <2> QED
    BY <1>t, <2>1, <2>2, CallsAreNumbers, AddRunKeepsFamily
<1>2. ASSUME NEW p \in Calls, NEW s \in Scripts, CallScript(p, s) PROVE Family'
  <2> DEFINE new == [call[p] EXCEPT !.at = "calling"]
             f == [call EXCEPT ![p].at = "calling"]
  <2>1. /\ new \in CallType /\ new.at = "calling" /\ new.script = call[p].script
        /\ new.parent = call[p].parent
    BY <1>t DEF CallType
  <2>2. f = [call EXCEPT ![p] = new]
    OBVIOUS
  <2>3. PICK c \in FreeCall : AddRun(s, p, f, c)
    BY <1>2 DEF CallScript
  <2>4. Accepts(s, p) /\ call[p].at = "running" /\ p \in Calls \cup {Nobody}
    BY <1>2 DEF CallScript
  <2> HIDE DEF new, f
  <2>5. f \in [Calls -> CallType] /\ f[p] = new /\ \A d \in Calls \ {p} : f[d] = call[d]
    BY <1>t, <2>1, <2>2
  <2> QED
    BY <2>1, <2>3, <2>4, <2>5, AddRunKeepsFamily
<1>3. ASSUME NEW c \in Calls, Finish(c), call[c].at # "free",
             call[c].at \notin {"calling", "leaving"} \/ Child(c) = {}
      PROVE  Family'
  BY <1>3, FinishKeepsFamily
<1>4. ASSUME NEW c \in Calls, EndRun(c) \/ Restarted(c) \/ Dequeued(c) PROVE Family'
  <2>1. call[c].at \in {"running", "ending", "restarting", "queued"}
    BY <1>4 DEF EndRun, Restarted, Dequeued
  <2>2. Finish(c) \/ call' = [call EXCEPT ![c].at = "running"]
    BY <1>4 DEF EndRun, Restarted, Dequeued
  <2> QED
    BY <1>3, <2>1, <2>2, MoveKeepsFamily
<1>5. ASSUME NEW p \in Calls, Interrupt(p) PROVE Family'
  <2> DEFINE new == [call[p] EXCEPT !.at = "leaving"]
             f == [call EXCEPT ![p].at = "leaving"]
  <2>1. /\ new \in CallType /\ new.at = "leaving" /\ new.script = call[p].script
        /\ new.parent = call[p].parent
    BY <1>t DEF CallType
  <2>2. f = [call EXCEPT ![p] = new]
    OBVIOUS
  <2>3. PICK c \in Calls : call' = Cancelled(f, c)
    BY <1>5 DEF Interrupt, Child
  <2> HIDE DEF new, f
  <2>4. f \in [Calls -> CallType] /\ f[p] = new /\ \A d \in Calls \ {p} : f[d] = call[d]
    BY <1>t, <2>1, <2>2
  <2> QED
    BY <2>1, <2>3, <2>4, CancelledKeepsFamily
<1>6. ASSUME NEW p \in Calls, Returned(p) PROVE Family'
  BY <1>3, <1>6, MoveKeepsFamily DEF Returned
<1>7. ASSUME NEW c \in Calls, Cancel(c) PROVE Family'
  BY <1>t, <1>7, CancelledKeepsFamily DEF Cancel
<1>8. ASSUME Shutdown \/ \E s \in Scripts : StopScript(s) \/ Unload(s) PROVE Family'
  BY <1>8, StopRunsKeepsFamily DEF Shutdown, StopScript, Unload
<1>9. ASSUME UNCHANGED vars \/ \E s \in Scripts : Unloaded(s) PROVE Family'
  <2>1. call' = call
    BY <1>9 DEF vars, Unloaded
  <2>2. \A c \in Calls : Waiting(c) => call[c].script # Nobody
    BY DEF Inv, CallOK, Waiting
  <2> QED
    BY <1>t, <2>1, <2>2, FamilyKept DEF Waiting
<1> QED
  BY <1>1, <1>2, <1>4, <1>5, <1>6, <1>7, <1>8, <1>9 DEF Next

-----------------------------------------------------------------------------
(***************************************************************************)
(* Theorems                                                                *)
(***************************************************************************)
LEMMA ScriptOfCall ==
  ASSUME Inv, NEW c \in Calls, call[c].at # "free"
  PROVE  call[c].script \in Scripts
BY DEF Inv, Types, CallOK, CallType

LEMMA RunKeeps ==
  ASSUME Inv, NEW c \in Calls,
         EndRun(c) \/ Restarted(c) \/ Dequeued(c) \/ Interrupt(c) \/ Returned(c) \/ Cancel(c)
  PROVE  Inv'
<1>t. call \in [Calls -> CallType]
  BY DEF Inv, Types
<1>1. CASE EndRun(c)
  BY <1>1, FinishKeeps DEF EndRun
<1>2. CASE Restarted(c)
  <2>1. CASE Finish(c)
    BY <1>2, <2>1, FinishKeeps DEF Restarted
  <2>2. CASE ~Finish(c)
    BY <1>2, <2>2, ScriptOfCall, BeginKeeps DEF Restarted
  <2> QED
    BY <2>1, <2>2
<1>3. CASE Dequeued(c)
  <2>1. CASE Finish(c)
    BY <1>3, <2>1, FinishKeeps DEF Dequeued
  <2>2. CASE ~Finish(c)
    BY <1>3, <2>2, ScriptOfCall, BeginKeeps DEF Dequeued
  <2> QED
    BY <2>1, <2>2
<1>4. CASE Interrupt(c)
  <2> DEFINE new == [call[c] EXCEPT !.at = "leaving"]
             f == [call EXCEPT ![c].at = "leaving"]
  <2>1. PICK d \in Calls : call' = Cancelled(f, d)
    BY <1>4 DEF Interrupt, Child
  <2>2. call[c] \in CallType /\ call[c].at = "calling"
    BY <1>t, <1>4 DEF Interrupt
  <2>3. /\ new \in CallType /\ new.at = "leaving"
        /\ new.script = call[c].script /\ new.stop = call[c].stop
    BY <2>2 DEF CallType
  <2>4. f = [call EXCEPT ![c] = new]
    OBVIOUS
  <2>5. UNCHANGED <<mode, runs, holder, line, stopping, unload, shutdown>>
    BY <1>4 DEF Interrupt
  <2> HIDE DEF new, f
  <2>6. f \in [Calls -> CallType] /\ f[c] = new /\ \A e \in Calls \ {c} : f[e] = call[e]
    BY <1>t, <2>3, <2>4
  <2>7. \A e \in Calls : \/ f[e] = call[e]
                         \/ /\ call[e].at \in Executing /\ f[e].at \in Executing
                            /\ f[e].script = call[e].script /\ f[e].stop = call[e].stop
    BY <2>2, <2>3, <2>6 DEF Executing
  <2> QED
    BY <2>1, <2>5, <2>6, <2>7, CancelledIsCalm
<1>5. CASE Returned(c)
  <2>1. CASE call[c].at = "leaving" /\ Finish(c)
    BY <2>1, FinishKeeps
  <2>2. CASE /\ call[c].at = "calling"
             /\ call' = [call EXCEPT ![c].at = "ending"]
             /\ UNCHANGED <<mode, runs, holder, line, stopping, unload, shutdown>>
    <3>1. Started(c) /\ "ending" \in Executing
      BY <2>2 DEF Started, Executing
    <3> QED
      BY <2>2, <3>1, MoveKeeps
  <2> QED
    BY <1>5, <2>1, <2>2 DEF Returned
<1>6. CASE Cancel(c)
  BY <1>t, <1>6, CancelledIsCalm DEF Cancel
<1> QED
  BY <1>1, <1>2, <1>3, <1>4, <1>5, <1>6

LEMMA StopKeeps ==
  ASSUME Inv, \/ \E s \in Scripts : StopScript(s) \/ Unload(s) \/ Unloaded(s)
              \/ Shutdown
  PROVE  Inv'
<1>t. Types
  BY DEF Inv
<1>1. ASSUME NEW s \in Scripts, StopScript(s) \/ Unload(s) PROVE Inv'
  <2>1. RunsOf(s) \subseteq Calls
    BY RunsAreCalls
  <2>2. /\ StopRuns(RunsOf(s)) /\ UNCHANGED <<mode, runs, holder, line, shutdown>>
        /\ unload' \in {unload, [unload EXCEPT ![s] = "stopping"]}
    BY <1>1 DEF StopScript, Unload
  <2> QED
    BY <1>t, <2>1, <2>2, StopRunsKeeps DEF Types
<1>2. ASSUME NEW s \in Scripts, Unloaded(s) PROVE Inv'
  <2>1. UNCHANGED <<mode, runs, call, holder, line, stopping, shutdown>>
    BY <1>2 DEF Unloaded
  <2>2. Types'
    BY <1>t, <1>2, <2>1 DEF Unloaded, Types
  <2>3. \A c \in Calls : Quiet(c) /\ call'[c].waits = call[c].waits
    BY <2>1 DEF Quiet, Started
  <2> QED
    BY <2>1, <2>2, <2>3, Calmer
<1>3. ASSUME Shutdown PROVE Inv'
  <2>1. /\ StopRuns({c \in Calls : call[c].at # "free"})
        /\ UNCHANGED <<mode, runs, holder, line, unload>>
        /\ shutdown' \in {"stopping", "blocked"}
    BY <1>3 DEF Shutdown
  <2> QED
    BY <1>t, <2>1, StopRunsKeeps DEF Types
<1> QED
  BY <1>1, <1>2, <1>3

LEMMA NextInv == Inv /\ [Next]_vars => Inv'
<1> SUFFICES ASSUME Inv, [Next]_vars PROVE Inv'
  OBVIOUS
<1>1. CASE \E s \in Scripts : Start(s)
  BY <1>1, StartKeeps
<1>2. CASE \/ \E s \in Scripts : StopScript(s) \/ Unload(s) \/ Unloaded(s)
           \/ Shutdown
  BY <1>2, StopKeeps
<1>3. CASE \E c \in Calls : EndRun(c) \/ Restarted(c) \/ Dequeued(c) \/ Interrupt(c)
                            \/ Returned(c) \/ Cancel(c)
  BY <1>3, RunKeeps
<1>4. CASE \E c \in Calls, s \in Scripts : CallScript(c, s)
  BY <1>4, CallScriptKeeps
<1>5. CASE UNCHANGED vars
  <2>1. UNCHANGED <<mode, runs, call, holder, line, stopping, unload, shutdown>>
    BY <1>5 DEF vars
  <2>2. Types'
    BY <2>1 DEF Inv, Types
  <2>3. \A c \in Calls : Quiet(c) /\ call'[c].waits = call[c].waits
    BY <2>1 DEF Quiet, Started
  <2> QED
    BY <2>1, <2>2, <2>3, Calmer
<1> QED
  BY <1>1, <1>2, <1>3, <1>4, <1>5 DEF Next

\* Inv is an inductive invariant of scripts.
LEMMA InvHolds == Spec => []Inv
<1> QED
  BY InitInv, NextInv, PTL DEF Spec

\* Every variable keeps its type; _runs holds each run once, the queue holds
\* those that wait for the lock, and the lock is held by the run that executes.
THEOREM TypeCorrect == Spec => []TypeOK
<1> QED
  BY InvImpliesTypeOK, InvHolds, PTL

\* Except in parallel mode, at most one run of a script executes, however calls,
\* restarts, cancellations and stops overlap.
THEOREM RunsExclude == Spec => []OneAtATime
<1> QED
  BY InvImpliesOneAtATime, InvHolds, PTL

\* In restart mode, every run but the newest has been told to stop, or will never
\* start.
THEOREM NewestRunWins == Spec => []NewestWins
<1> QED
  BY InvImpliesNewestWins, InvHolds, PTL

\* No run waits, to restart a script or for its turn, for a run that called it,
\* directly or through others.
THEOREM NobodyWaitsForAncestor == Spec => []NoWaitForAncestor
<1>1. Spec => []Family
  BY FamilyStarts, NextKeepsFamily, InvHolds, PTL DEF Spec
<1> QED
  BY <1>1, FamilyImpliesNoWait, InvHolds, PTL
=============================================================================
