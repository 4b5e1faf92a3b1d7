--------------------------- MODULE ComponentSetup ----------------------------
(***************************************************************************)
(* homeassistant/setup.py: setting up components once, after their         *)
(* dependencies, for callers that share one future per component; with     *)
(* loader.py's resolution of dependencies and bootstrap.py's stages.       *)
(*                                                                         *)
(* A component has at most one set-up, a task that some caller, the        *)
(* current stage of the bootstrap or the set-up of a dependent has made.   *)
(* A step is the code between two awaits.  A cancelled set-up is in        *)
(* "dying" until it has raised or returned.                                *)
(***************************************************************************)
CONSTANTS
  Domains,
  Manifests, \* the dependencies to consider, see ManifestType
  Callers,   \* callers of async_setup_component other than the bootstrap
  Bootstrap, \* the bootstrap, as the owner of set-ups
  Groups     \* the domains of its early stages, STAGE_0_INTEGRATIONS and on

ManifestType ==
  [hard      : [Domains -> SUBSET Domains],  \* dependencies
   after     : [Domains -> SUBSET Domains],  \* after_dependencies
   platforms : [Domains -> SUBSET Domains]]  \* what its entries are forwarded to

Nobody == "nobody"

\* What d leads to: the smallest set that is closed under the edges.
Reached(edges, d) ==
  {e \in Domains : \A C \in SUBSET Domains :
     edges[d] \subseteq C /\ (\A x \in C : edges[x] \subseteq C) => e \in C}

\* A set with a cycle in it: each of its members has an edge that stays inside.
Entangled(edges, S) == S # {} /\ \A d \in S : edges[d] \cap S # {}

\* _resolve_integration_dependencies raises CircularDependency.
Circular(edges, d) == \E S \in SUBSET ({d} \cup Reached(edges, d)) : Entangled(edges, S)

\* ... as it comes to that: depth first, with the set of those being resolved.
Resolves(edges, d) ==
  LET resolve[resolving \in SUBSET Domains, e \in Domains] ==
        /\ e \notin resolving
        /\ \A f \in edges[e] : resolve[resolving \cup {e}, f]
  IN resolve[{}, d]

Both(m, S) == [d \in Domains |-> m.hard[d] \cup (m.after[d] \cap S)]

\* Integrations are layered: every set of them has a part that forwards entries
\* to nothing in the set and whose dependencies in the set are in that part.  So it
\* is with those of this repository, whose platforms depend on nothing that
\* forwards entries to them; the code would not notice if one did.
Layered(m) ==
  \A S \in (SUBSET Domains) \ {{}} : \E lowest \in (SUBSET S) \ {{}} : \A d \in lowest :
    /\ m.platforms[d] \cap S = {}
    /\ (m.hard[d] \cup m.after[d]) \cap S \subseteq lowest

ASSUME ComponentSetupAssumption ==
  /\ Manifests \subseteq ManifestType
  /\ \A m \in Manifests : Layered(m)
  /\ Groups \subseteq SUBSET Domains
  /\ Domains \cap Callers = {}
  /\ Bootstrap \notin Domains \cup Callers
  /\ Nobody \notin Domains \cup Callers \cup {Bootstrap}

VARIABLES
  manifest,   \* of every integration
  dependsOn,  \* integrations_after_dependencies: of what the bootstrap will load
  domains,    \* what of it is configured
  toLoad,     \* keys of _DATA_SETUP_DONE
  future,     \* the future of each set-up; in _DATA_SETUP as Held says
  at,         \* where each set-up is
  owner,      \* who has made it
  waits,      \* the components whose futures it awaits
  dying,      \* the set-ups that were cancelled
  components, \* hass.config.components
  stage,      \* the domains of the current stage of the bootstrap
  lastStage,  \* whether it has come to the last one
  ask,        \* the component that each caller waits for
  told        \* the answers that callers got, for each component

plan == <<manifest, dependsOn, domains>>
allDomains == DOMAIN dependsOn

vars == <<plan, toLoad, future, at, owner, waits, dying, components, stage, lastStage,
          ask, told>>

Results == {"true", "false", "error"}

TypeOK ==
  /\ manifest \in Manifests
  /\ allDomains \subseteq Domains
  /\ dependsOn \in [allDomains -> SUBSET Domains]
  /\ domains \subseteq allDomains
  /\ toLoad \subseteq allDomains
  /\ future \in [Domains -> {"none", "pending"} \cup Results]
  /\ at \in [Domains -> {"idle", "resolving", "waiting", "preparing", "starting",
                         "entries", "forwarding", "done"}]
  /\ owner \in [Domains -> Callers \cup Domains \cup {Bootstrap, Nobody}]
  /\ waits \in [Domains -> SUBSET Domains]
  /\ dying \subseteq Domains
  /\ components \subseteq Domains
  /\ stage \subseteq Domains
  /\ lastStage \in BOOLEAN
  /\ ask \in [Callers -> Domains \cup {Nobody}]
  /\ told \in [Domains -> SUBSET Results]
  /\ \A d \in Domains :
       /\ future[d] = "none" <=> at[d] = "idle"
       /\ future[d] \in Results <=> at[d] = "done"
       /\ future[d] = "pending" <=> owner[d] # Nobody
       /\ d \in dying => future[d] = "pending"
       /\ owner[d] \in Callers => ask[owner[d]] = d

ToLoadAnyway(m, all) == all

\* bootstrap: what takes part in no cycle, nor leads to one, of dependencies and
\* the after_dependencies that are to be set up too.
ToLoad(m, all) == {d \in all : ~Circular(Both(m, all), d)}

\* After async_set_domains_to_be_loaded, for any configured integrations.
Init ==
  /\ manifest \in Manifests
  /\ \E configured \in SUBSET {d \in Domains : ~Circular(manifest.hard, d)} :
       LET all == configured \cup UNION {Reached(manifest.hard, d) : d \in configured}
       IN /\ dependsOn = [d \in ToLoad(manifest, all) |-> Reached(Both(manifest, all), d)]
          /\ domains = configured \cap ToLoad(manifest, all)
          /\ toLoad = ToLoad(manifest, all)
  /\ future = [d \in Domains |-> "none"]
  /\ at = [d \in Domains |-> "idle"]
  /\ owner = [d \in Domains |-> Nobody]
  /\ waits = [d \in Domains |-> {}]
  /\ dying = {}
  /\ components = {}
  /\ stage = {}
  /\ lastStage = FALSE
  /\ ask = [c \in Callers |-> Nobody]
  /\ told = [d \in Domains |-> {}]

-----------------------------------------------------------------------------
(***************************************************************************)
(* Requests                                                                *)
(***************************************************************************)
\* _DATA_SETUP has the future of d: "being setup or which failed to setup".
Held(d) == future[d] \in {"pending", "false", "error"}

\* async_setup_component of every domain in S on behalf of who: those that no
\* one has asked for get a future and a task.
Request(who, S) ==
  LET new == {d \in S : ~Held(d) /\ d \notin components}
  IN /\ future' = [d \in Domains |-> IF d \in new THEN "pending" ELSE future[d]]
     /\ owner' = [d \in Domains |-> IF d \in new THEN who ELSE owner[d]]

\* The set-up of d, if it is there, goes to a place and awaits S.
Moves(d, place, S) ==
  /\ waits' = [waits EXCEPT ![d] = S]
  /\ at' = [e \in Domains |-> IF e = d THEN place
                              ELSE IF future'[e] = "pending" /\ future[e] # "pending"
                              THEN "resolving" ELSE at[e]]

Answer(c, d, result) ==
  /\ ask' = [ask EXCEPT ![c] = Nobody]
  /\ told' = [told EXCEPT ![d] = @ \cup {result}]

\* A caller finds the component set up, waits for its future or makes its set-up.
Call(c, d) ==
  /\ ask[c] = Nobody
  /\ IF d \in components
     THEN Answer(c, d, "true") /\ UNCHANGED <<future, owner, at>>
     ELSE /\ Request(c, {d})
          /\ at' = [at EXCEPT ![d] = IF Held(d) THEN @ ELSE "resolving"]
          /\ ask' = [ask EXCEPT ![c] = d]
          /\ UNCHANGED told
  /\ UNCHANGED <<plan, toLoad, waits, dying, components, stage, lastStage>>

\* wait_shared_future returns to a caller.
Answered(c) ==
  /\ ask[c] # Nobody /\ future[ask[c]] \in Results
  /\ Answer(c, ask[c], future[ask[c]])
  /\ UNCHANGED <<plan, toLoad, future, at, owner, waits, dying, components,
                 stage, lastStage>>

StageWithoutDependencies(group) == group \ components

\* What a stage sets up for a group of domains.
StageDomains(group) ==
  (UNION {{d} \cup dependsOn[d] : d \in group \ components}) \ components

\* The bootstrap begins a stage, once the one before it has ended.
Stage(group) ==
  /\ ~lastStage
  /\ \A d \in stage : future[d] # "pending"
  /\ group \ components # {}
  /\ LET S == StageDomains(group)
     IN /\ stage' = S
        /\ Request(Bootstrap, S)
        /\ at' = [d \in Domains |-> IF d \in S /\ future[d] = "none"
                                    THEN "resolving" ELSE at[d]]
  /\ UNCHANGED <<plan, toLoad, waits, dying, components, ask, told>>

\* Stages 0 and 1, configured or not; one that sets up nothing new is left out.
EarlyStage ==
  /\ \E group \in Groups :
       /\ \E d \in StageDomains(group \cap allDomains) : future[d] = "none"
       /\ Stage(group \cap allDomains)
  /\ UNCHANGED lastStage

\* Stage 2: what is configured.
LastStage == Stage(domains) /\ lastStage' = TRUE

-----------------------------------------------------------------------------
(***************************************************************************)
(* A set-up                                                                *)
(***************************************************************************)
Running(d, place) == at[d] = place /\ d \notin dying

\* _async_setup_component has returned or raised: the end of async_setup_component,
\* which gives its own caller the answer at once.
Ends(d, result) ==
  /\ future' = [future EXCEPT ![d] = result]
  /\ at' = [at EXCEPT ![d] = "done"]
  /\ owner' = [owner EXCEPT ![d] = Nobody]
  /\ waits' = [waits EXCEPT ![d] = {}]
  /\ dying' = dying \ {d}
  /\ toLoad' = toLoad \ {d}
  /\ IF owner[d] \in Callers THEN Answer(owner[d], d, result) ELSE UNCHANGED <<ask, told>>

AwaitedUnlessComponent(d) ==
  {e \in manifest.hard[d] \cup (manifest.after[d] \cap toLoad) : e \notin components}

\* _async_process_dependencies: the future of a dependency comes first, because
\* a component is in components before its entries are set up.
AwaitedBy(d) ==
  {e \in manifest.hard[d] \cup (manifest.after[d] \cap toLoad) :
     Held(e) \/ e \notin components}

\* The integration is missing, disabled or has a circular dependency, or its
\* dependencies are requested.
Resolve(d) ==
  /\ Running(d, "resolving")
  /\ UNCHANGED <<plan, components, stage, lastStage>>
  /\ \/ Ends(d, "false")
     \/ /\ ~Circular(manifest.hard, d)
        /\ Request(d, AwaitedBy(d))
        /\ Moves(d, IF AwaitedBy(d) = {} THEN "preparing" ELSE "waiting", AwaitedBy(d))
        /\ UNCHANGED <<toLoad, dying, ask, told>>

Failing(d, result) == \E e \in waits[d] : future[e] = result

\* asyncio.gather raises the first exception at once.
DependencyRaised(d) ==
  /\ Running(d, "waiting") /\ Failing(d, "error")
  /\ Ends(d, "error")
  /\ UNCHANGED <<plan, components, stage, lastStage>>

DependenciesDone(d) ==
  /\ Running(d, "waiting") /\ ~Failing(d, "error")
  /\ \A e \in waits[d] : future[e] # "pending"
  /\ UNCHANGED <<plan, components, stage, lastStage>>
  /\ \/ Failing(d, "false") /\ Ends(d, "false")
     \/ /\ ~Failing(d, "false")
        /\ at' = [at EXCEPT ![d] = "preparing"]
        /\ waits' = [waits EXCEPT ![d] = {}]
        /\ UNCHANGED <<toLoad, future, owner, dying, ask, told>>

PreparedIsComponent(d) ==
  /\ Running(d, "preparing")
  /\ UNCHANGED <<plan, stage, lastStage>>
  /\ \/ Ends(d, "false") /\ UNCHANGED components
     \/ /\ at' = [at EXCEPT ![d] = "starting"]
        /\ components' = components \cup {d}
        /\ UNCHANGED <<toLoad, future, owner, waits, dying, ask, told>>

\* Requirements are installed, the component is imported and its configuration
\* is valid, or one of them is not.
Prepared(d) ==
  /\ Running(d, "preparing")
  /\ UNCHANGED <<plan, components, stage, lastStage>>
  /\ \/ Ends(d, "false")
     \/ /\ at' = [at EXCEPT ![d] = "starting"]
        /\ UNCHANGED <<toLoad, future, owner, waits, dying, ask, told>>

StartedAddsLater(d) ==
  /\ Running(d, "starting")
  /\ UNCHANGED <<plan, stage, lastStage>>
  /\ \/ Ends(d, "false") /\ UNCHANGED components
     \/ components' = components \cup {d} /\ Ends(d, "true")
     \/ /\ at' = [at EXCEPT ![d] = "entries"]
        /\ UNCHANGED <<toLoad, future, owner, waits, dying, components, ask, told>>

\* async_setup has returned, raised or timed out.  The component is added before
\* its config entries, if it has any, are set up.
Started(d) ==
  /\ Running(d, "starting")
  /\ UNCHANGED <<plan, stage, lastStage>>
  /\ \/ Ends(d, "false") /\ UNCHANGED components
     \/ components' = components \cup {d} /\ Ends(d, "true")
     \/ /\ components' = components \cup {d}
        /\ at' = [at EXCEPT ![d] = "entries"]
        /\ UNCHANGED <<toLoad, future, owner, waits, dying, ask, told>>

\* async_setup_entry forwards the entry, to no platform or to some:
\* _async_forward_entry_setup.
Forward(d) ==
  LET new == manifest.platforms[d] \ components
  IN /\ Running(d, "entries")
     /\ Request(d, new)
     /\ Moves(d, "forwarding", new)
     /\ UNCHANGED <<plan, toLoad, dying, components, stage, lastStage, ask, told>>

\* The platforms are there and set up the entry: async_prepare_setup_platform
\* awaits the set-up of d if d is not in components.  Whatever the entry's
\* set-up came to, that of the component goes on.
Forwarded(d) ==
  /\ Running(d, "forwarding")
  /\ \A p \in waits[d] : future[p] # "pending"
  /\ d \in components
  /\ Ends(d, "true")
  /\ UNCHANGED <<plan, components, stage, lastStage>>

-----------------------------------------------------------------------------
(***************************************************************************)
(* Cancellation                                                            *)
(***************************************************************************)
\* The tasks that the cancellation of d cancels: those it has made and awaits.
Made(d) == {e \in waits[d] : owner[e] = d}
Tree(d) == {d} \cup Reached([e \in Domains |-> Made(e)], d)

CancelCallerBreaksFuture(c) ==
  /\ ask[c] # Nobody /\ future[ask[c]] = "pending" /\ owner[ask[c]] # c
  /\ ask' = [ask EXCEPT ![c] = Nobody]
  /\ future' = [future EXCEPT ![ask[c]] = "error"]
  /\ UNCHANGED <<plan, toLoad, at, owner, waits, dying, components, stage, lastStage, told>>

\* wait_shared_future: a caller that only waits leaves the future alone.
CancelCaller(c) ==
  /\ ask[c] # Nobody /\ owner[ask[c]] # c
  /\ ask' = [ask EXCEPT ![c] = Nobody]
  /\ UNCHANGED <<plan, toLoad, future, at, owner, waits, dying, components,
                 stage, lastStage, told>>

CancelOwner(c) ==
  /\ ask[c] # Nobody /\ owner[ask[c]] = c
  /\ dying' = dying \cup Tree(ask[c])
  /\ UNCHANGED <<plan, toLoad, future, at, owner, waits, components,
                 stage, lastStage, ask, told>>

\* The timeout of a stage cancels the set-ups that it has made, and stops waiting
\* for the others.
StageTimeout ==
  /\ \E d \in stage : owner[d] = Bootstrap
  /\ stage' = {d \in stage : owner[d] = Bootstrap}
  /\ dying' = dying \cup UNION {Tree(d) : d \in stage'}
  /\ UNCHANGED <<plan, toLoad, future, at, owner, waits, components, lastStage, ask, told>>

\* A cancelled set-up raises.  If async_setup was cancelled it returns False,
\* unless the cancellation came in the awaits that follow it.
Die(d) ==
  /\ d \in dying
  /\ \/ Ends(d, "error")
     \/ at[d] = "starting" /\ Ends(d, "false")
  /\ UNCHANGED <<plan, components, stage, lastStage>>

\* What _async_setup_component does not catch: the import of the component, its
\* translations or the set-up of its entries raises.
Raises(d) ==
  /\ \E place \in {"resolving", "preparing", "starting", "entries", "forwarding"} :
       Running(d, place)
  /\ Ends(d, "error")
  /\ UNCHANGED <<plan, components, stage, lastStage>>

-----------------------------------------------------------------------------
Step(d) ==
  \/ Resolve(d) \/ DependencyRaised(d) \/ DependenciesDone(d) \/ Prepared(d)
  \/ Started(d) \/ Forward(d) \/ Forwarded(d) \/ Die(d)

Next ==
  \/ \E d \in Domains : Step(d) \/ Raises(d)
  \/ \E c \in Callers : Answered(c) \/ CancelCaller(c) \/ CancelOwner(c)
  \/ \E c \in Callers, d \in Domains : Call(c, d)
  \/ EarlyStage
  \/ LastStage
  \/ StageTimeout

Spec == Init /\ [][Next]_vars

\* What a set-up awaits ends: async_setup by SLOW_SETUP_MAX_WAIT, requirements and
\* the set-up of entries by their own timeouts.  Nothing has to raise to get on.
Fairness ==
  /\ \A d \in Domains : WF_vars(Step(d))
  /\ WF_vars(LastStage)

FairSpec == Spec /\ Fairness

-----------------------------------------------------------------------------
(***************************************************************************)
(* Properties                                                              *)
(***************************************************************************)
\* A component is prepared and started only when its dependencies are set up,
\* with their entries, and the after_dependencies that were to be loaded with it
\* have ended.
DependenciesFirst ==
  \A d \in Domains : at[d] \in {"preparing", "starting"} =>
    /\ \A e \in manifest.hard[d] : e \in components /\ future[e] = "true"
    /\ manifest.after[d] \cap toLoad = {}

\* No set of set-ups wait for one another, for any dependencies,
\* after_dependencies and platforms: cycles are kept out before anyone waits.
Blocks(e, d) == e \in waits[d] /\ future[e] = "pending"
NoCircularWait ==
  \A S \in (SUBSET Domains) \ {{}} : \E d \in S : \A e \in S : ~Blocks(e, d)

\* Callers of async_setup_component are never told both that a component is set
\* up and that it is not, whoever made its set-up and whenever they called.
OneAnswer == \A d \in Domains : ~({"true", "false"} \subseteq told[d])

\* Every set-up ends and its waiters get an answer, whatever it waits for.
EverySetupEnds == \A d \in Domains : []<>(future[d] # "pending")

\* "Events are set and removed from _DATA_SETUP_DONE when async_setup_component is
\* finished, regardless of if the setup was successful or not": whoever waits in
\* async_wait_component for what stage 2 covers, configured domains and all they
\* depend on, returns, even if the dependents fail before they have asked for it.
Planned == UNION {{d} \cup dependsOn[d] : d \in domains}
WaitComponentReturns == \A d \in Domains : []<>(d \in Planned => d \notin toLoad)

\* "_DATA_SETUP_DONE is a dict, indicating components which will be setup": none stays
\* there that nobody ever sets up.
ToLoadIsSetUp == \A d \in Domains : []<>(d \notin toLoad)

=============================================================================
