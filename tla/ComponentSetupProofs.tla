------------------------ MODULE ComponentSetupProofs -------------------------
(***************************************************************************)
(* Proofs about ComponentSetup, for any set of integrations with any       *)
(* layered dependencies, and any callers.                                  *)
(*                                                                         *)
(* Every step moves the system on (Onward), and what is known of a set-up  *)
(* that it does not touch stays true (Untouched).  The end of a set-up and *)
(* a request for others have a lemma each.                                 *)
(***************************************************************************)
EXTENDS ComponentSetup, TLAPS

\* These only name variables.
USE DEF plan, allDomains

Graph == [Domains -> SUBSET Domains]

-----------------------------------------------------------------------------
(***************************************************************************)
(* Graphs                                                                  *)
(***************************************************************************)
LEMMA ReachedIsClosed ==
  ASSUME NEW edges \in Graph, NEW d \in Domains
  PROVE  /\ edges[d] \subseteq Reached(edges, d)
         /\ \A x \in Reached(edges, d) : edges[x] \subseteq Reached(edges, d)
BY DEF Reached, Graph

LEMMA ReachedGrows ==
  ASSUME NEW edges \in Graph, NEW more \in Graph, NEW d \in Domains,
         \A x \in Domains : edges[x] \subseteq more[x]
  PROVE  Reached(edges, d) \subseteq Reached(more, d)
<1>1. edges[d] \subseteq Reached(more, d)
  BY ReachedIsClosed
<1>2. \A x \in Reached(more, d) : edges[x] \subseteq Reached(more, d)
  BY ReachedIsClosed DEF Reached
<1>3. Reached(more, d) \in SUBSET Domains
  BY DEF Reached
<1> QED
  BY <1>1, <1>2, <1>3 DEF Reached

LEMMA CircularGrows ==
  ASSUME NEW edges \in Graph, NEW more \in Graph, NEW d \in Domains,
         \A x \in Domains : edges[x] \subseteq more[x],
         Circular(edges, d)
  PROVE  Circular(more, d)
<1>1. PICK S \in SUBSET ({d} \cup Reached(edges, d)) : Entangled(edges, S)
  BY DEF Circular
<1>2. S \in SUBSET ({d} \cup Reached(more, d))
  BY <1>1, ReachedGrows
<1>3. S \subseteq Domains
  BY <1>1 DEF Reached
<1>4. Entangled(more, S)
  BY <1>1, <1>3 DEF Entangled
<1> QED
  BY <1>2, <1>4 DEF Circular

\* Every member of an entangled set leads to a cycle.
LEMMA EntangledIsCircular ==
  ASSUME NEW edges \in Graph, NEW S \in SUBSET Domains, Entangled(edges, S), NEW d \in S
  PROVE  Circular(edges, d)
<1> DEFINE R == {d} \cup Reached(edges, d)
<1>1. \A x \in R : edges[x] \subseteq R
  BY ReachedIsClosed
<1>2. Entangled(edges, S \cap R)
  BY <1>1 DEF Entangled
<1> QED
  BY <1>2 DEF Circular

LEMMA BothIsGraph ==
  ASSUME NEW m \in ManifestType, NEW S \in SUBSET Domains
  PROVE  Both(m, S) \in Graph
BY DEF Both, ManifestType, Graph

LEMMA BothGrows ==
  ASSUME NEW m \in ManifestType, NEW S \in SUBSET Domains, NEW T \in SUBSET S,
         NEW d \in Domains, Circular(Both(m, T), d)
  PROVE  Circular(Both(m, S), d)
<1>1. Both(m, S) \in Graph /\ Both(m, T) \in Graph
  BY BothIsGraph
<1>2. \A x \in Domains : Both(m, T)[x] \subseteq Both(m, S)[x]
  BY DEF Both
<1> QED
  BY <1>1, <1>2, CircularGrows

-----------------------------------------------------------------------------
(***************************************************************************)
(* The inductive invariant                                                 *)
(***************************************************************************)
\* What is set up, what was told and what is to be loaded agree with the futures.
AnswersOK(d) ==
  /\ d \in components => at[d] \in {"entries", "forwarding", "done"} /\ future[d] # "false"
  /\ at[d] \in {"entries", "forwarding"} => d \in components
  /\ future[d] = "true" => d \in components
  /\ "true" \in told[d] => d \in components
  /\ "false" \in told[d] => future[d] = "false"
  /\ future[d] \in Results => d \notin toLoad

\* What a set-up waits for, and what it no longer has to wait for.
WaitsOK(d) ==
  /\ at[d] = "waiting" =>
       /\ ~Circular(manifest.hard, d)
       /\ \A e \in waits[d] :
            /\ future[e] # "none"
            /\ \/ e \in manifest.hard[d]
               \/ e \in manifest.after[d] /\ (e \in toLoad \/ future[e] \in Results)
       /\ \A e \in manifest.hard[d] : e \in waits[d] \/ future[e] = "true"
       /\ manifest.after[d] \cap toLoad \subseteq waits[d]
  /\ at[d] = "forwarding" => waits[d] \subseteq manifest.platforms[d]
  /\ at[d] \notin {"waiting", "forwarding"} => waits[d] = {}
  /\ at[d] \in {"preparing", "starting"} =>
       /\ \A e \in manifest.hard[d] : future[e] = "true"
       /\ manifest.after[d] \cap toLoad = {}

\* What will be loaded leads to no cycle in what will be loaded.
LoadOK == \A d \in toLoad : ~Circular(Both(manifest, toLoad), d)

Inv ==
  /\ TypeOK
  /\ LoadOK
  /\ \A d \in Domains : AnswersOK(d) /\ WaitsOK(d)

LEMMA ManifestIsType ==
  ASSUME TypeOK
  PROVE  manifest \in ManifestType /\ Layered(manifest)
BY ComponentSetupAssumption DEF TypeOK

LEMMA InvImpliesDependenciesFirst == Inv => DependenciesFirst
BY ManifestIsType DEF Inv, WaitsOK, AnswersOK, DependenciesFirst, TypeOK, ManifestType

LEMMA InvImpliesOneAnswer == Inv => OneAnswer
BY DEF Inv, AnswersOK, OneAnswer

LEMMA InvImpliesNoCircularWait == Inv => NoCircularWait
<1> SUFFICES ASSUME Inv,
                    NEW S \in (SUBSET Domains) \ {{}},
                    \A d \in S : \E e \in S : Blocks(e, d)
             PROVE  FALSE
  BY DEF NoCircularWait
<1>m. manifest \in ManifestType /\ Layered(manifest)
  BY ManifestIsType DEF Inv
<1>1. PICK T \in (SUBSET S) \ {{}} : \A d \in T :
        /\ manifest.platforms[d] \cap S = {}
        /\ (manifest.hard[d] \cup manifest.after[d]) \cap S \subseteq T
  BY <1>m DEF Layered
\* In the lowest layer, set-ups wait for dependencies in the lowest layer.
<1>2. ASSUME NEW d \in T
      PROVE  /\ at[d] = "waiting"
             /\ \E e \in T : \/ e \in manifest.hard[d]
                             \/ e \in manifest.after[d] /\ e \in toLoad
  <2>1. PICK e \in S : e \in waits[d] /\ future[e] = "pending"
    BY DEF Blocks
  <2>2. WaitsOK(d)
    BY DEF Inv
  <2>3. at[d] = "waiting"
    BY <1>1, <2>1, <2>2 DEF WaitsOK
  <2>4. \/ e \in manifest.hard[d]
        \/ e \in manifest.after[d] /\ e \in toLoad
    BY <2>1, <2>2, <2>3 DEF WaitsOK, Results
  <2> QED
    BY <1>1, <2>3, <2>4
<1>3. T \in SUBSET Domains /\ T # {}
  OBVIOUS
<1>4. toLoad \in SUBSET Domains
  BY DEF Inv, TypeOK
<1>5. CASE T \cap toLoad # {}
  <2>1. PICK d \in T : d \in toLoad
    BY <1>5
  <2>2. Entangled(Both(manifest, toLoad), T)
    BY <1>2, <1>3 DEF Entangled, Both
  <2>3. Circular(Both(manifest, toLoad), d)
    BY <1>m, <1>3, <1>4, <2>2, BothIsGraph, EntangledIsCircular
  <2> QED
    BY <2>1, <2>3 DEF Inv, LoadOK
<1>6. CASE T \cap toLoad = {}
  <2>1. PICK d \in T : TRUE
    BY <1>3
  <2>2. manifest.hard \in Graph
    BY <1>m DEF ManifestType, Graph
  <2>3. Entangled(manifest.hard, T)
    BY <1>2, <1>3, <1>6 DEF Entangled
  <2>4. Circular(manifest.hard, d)
    BY <1>3, <2>2, <2>3, EntangledIsCircular
  <2> QED
    BY <1>2, <2>4 DEF Inv, WaitsOK
<1> QED
  BY <1>5, <1>6

LEMMA InitInv == Init => Inv
<1> SUFFICES ASSUME Init PROVE Inv
  OBVIOUS
<1>0. PICK configured \in SUBSET Domains :
        LET all == configured \cup UNION {Reached(manifest.hard, d) : d \in configured}
        IN /\ dependsOn = [d \in ToLoad(manifest, all) |-> Reached(Both(manifest, all), d)]
           /\ domains = configured \cap ToLoad(manifest, all)
           /\ toLoad = ToLoad(manifest, all)
  BY DEF Init
<1> DEFINE all == configured \cup UNION {Reached(manifest.hard, d) : d \in configured}
<1>a. all \in SUBSET Domains
  BY DEF Reached
<1>b. /\ dependsOn = [d \in ToLoad(manifest, all) |-> Reached(Both(manifest, all), d)]
      /\ domains \subseteq ToLoad(manifest, all)
      /\ toLoad = ToLoad(manifest, all)
  BY <1>0
<1> HIDE DEF all
<1>1. TypeOK
  <2>1. /\ toLoad \subseteq Domains /\ allDomains = toLoad /\ domains \subseteq toLoad
        /\ dependsOn \in [toLoad -> SUBSET Domains]
    BY <1>a, <1>b DEF ToLoad, Reached
  <2> QED
    BY <2>1, ComponentSetupAssumption DEF Init, TypeOK, Results
<1>2. LoadOK
  <2>1. toLoad \in SUBSET all /\ \A d \in toLoad : ~Circular(Both(manifest, all), d)
    BY <1>b DEF ToLoad
  <2> QED
    BY <1>1, <1>a, <2>1, BothGrows, ManifestIsType DEF LoadOK
<1>3. ASSUME NEW d \in Domains PROVE AnswersOK(d) /\ WaitsOK(d)
  BY DEF Init, AnswersOK, WaitsOK, Results
<1> QED
  BY <1>1, <1>2, <1>3 DEF Inv

-----------------------------------------------------------------------------
(***************************************************************************)
(* Steps move on                                                           *)
(***************************************************************************)
\* Results stay, and what leaves toLoad has one.
Onward ==
  /\ manifest' = manifest
  /\ toLoad' \subseteq toLoad
  /\ \A e \in Domains :
       /\ future[e] # "none" => future'[e] # "none"
       /\ future[e] \in Results => future'[e] = future[e]
       /\ e \in toLoad \ toLoad' => future'[e] \in Results

LEMMA LoadKept ==
  ASSUME Inv, manifest' = manifest, toLoad' \subseteq toLoad
  PROVE  LoadOK'
<1>1. toLoad \in SUBSET Domains /\ manifest \in ManifestType
  BY ManifestIsType DEF Inv, TypeOK
<1> SUFFICES ASSUME NEW d \in toLoad', Circular(Both(manifest, toLoad'), d) PROVE FALSE
  BY DEF LoadOK
<1>2. Circular(Both(manifest, toLoad), d)
  BY <1>1, BothGrows
<1> QED
  BY <1>2 DEF Inv, LoadOK

LEMMA WaitsUntouched ==
  ASSUME Inv, Onward, NEW d \in Domains, at'[d] = at[d], waits'[d] = waits[d]
  PROVE  WaitsOK(d)'
<1>1. WaitsOK(d) /\ manifest \in ManifestType /\ waits[d] \in SUBSET Domains
  BY ManifestIsType DEF Inv, TypeOK
<1>2. manifest.hard[d] \subseteq Domains /\ manifest.after[d] \subseteq Domains
  BY <1>1 DEF ManifestType
<1>3. manifest' = manifest /\ toLoad' \subseteq toLoad
  BY DEF Onward
<1>4. ASSUME at[d] = "waiting", NEW e \in waits[d]
      PROVE  /\ future'[e] # "none"
             /\ \/ e \in manifest.hard[d]
                \/ e \in manifest.after[d] /\ (e \in toLoad' \/ future'[e] \in Results)
  <2>1. e \in Domains /\ future[e] # "none"
    BY <1>1, <1>4 DEF WaitsOK
  <2>2. CASE e \in manifest.hard[d]
    BY <2>1, <2>2 DEF Onward
  <2>3. CASE e \in manifest.after[d] /\ (e \in toLoad \/ future[e] \in Results)
    BY <2>1, <2>3 DEF Onward
  <2> QED
    BY <1>1, <1>4, <2>2, <2>3 DEF WaitsOK
<1>5. \A e \in Domains : future[e] = "true" => future'[e] = "true"
  BY DEF Onward, Results
<1> QED
  BY <1>1, <1>2, <1>3, <1>4, <1>5 DEF WaitsOK

LEMMA AnswersUntouched ==
  ASSUME Inv, NEW d \in Domains, at'[d] = at[d], future'[d] = future[d],
         d \in components' <=> d \in components, told'[d] = told[d],
         toLoad' \subseteq toLoad
  PROVE  AnswersOK(d)'
BY DEF Inv, AnswersOK

-----------------------------------------------------------------------------
(***************************************************************************)
(* The end of a set-up, and requests                                       *)
(***************************************************************************)
LEMMA EndsKeeps ==
  ASSUME Inv, NEW d \in Domains, NEW result \in Results,
         future[d] = "pending", Ends(d, result),
         UNCHANGED <<plan, stage, lastStage>>,
         components' \in {components, components \cup {d}},
         result = "true" => d \in components',
         result = "false" => d \notin components'
  PROVE  Inv'
<1>t. TypeOK
  BY DEF Inv
<1>1. /\ ask' \in [Callers -> Domains \cup {Nobody}]
      /\ told' \in [Domains -> SUBSET Results]
      /\ \A e \in Domains \ {d} : told'[e] = told[e]
      /\ told'[d] \in {told[d], told[d] \cup {result}}
      /\ \A c \in Callers : ask'[c] = ask[c] \/ (c = owner[d] /\ ask'[c] = Nobody)
  <2>1. CASE owner[d] \in Callers
    BY <1>t, <2>1 DEF TypeOK, Ends, Answer, Results
  <2>2. CASE owner[d] \notin Callers
    BY <1>t, <2>2 DEF TypeOK, Ends
  <2> QED
    BY <2>1, <2>2
<1>2. /\ \A e \in Domains \ {d} : /\ future'[e] = future[e] /\ at'[e] = at[e]
                                 /\ waits'[e] = waits[e] /\ owner'[e] = owner[e]
      /\ future'[d] = result /\ at'[d] = "done" /\ waits'[d] = {} /\ owner'[d] = Nobody
      /\ toLoad' = toLoad \ {d}
      /\ dying' = dying \ {d}
  BY <1>t DEF TypeOK, Ends
<1>3. TypeOK'
  <2>1. /\ manifest' \in Manifests /\ allDomains' \subseteq Domains
        /\ dependsOn' \in [allDomains' -> SUBSET Domains] /\ domains' \subseteq allDomains'
        /\ toLoad' \subseteq allDomains' /\ dying' \subseteq Domains
        /\ components' \subseteq Domains /\ stage' \subseteq Domains /\ lastStage' \in BOOLEAN
    BY <1>t, <1>2 DEF TypeOK
  <2>2. /\ future' \in [Domains -> {"none", "pending"} \cup Results]
        /\ at' \in [Domains -> {"idle", "resolving", "waiting", "preparing", "starting",
                                "entries", "forwarding", "done"}]
        /\ owner' \in [Domains -> Callers \cup Domains \cup {Bootstrap, Nobody}]
        /\ waits' \in [Domains -> SUBSET Domains]
    BY <1>t DEF TypeOK, Ends
  <2>3. ASSUME NEW e \in Domains
        PROVE  /\ future'[e] = "none" <=> at'[e] = "idle"
               /\ future'[e] \in Results <=> at'[e] = "done"
               /\ future'[e] = "pending" <=> owner'[e] # Nobody
               /\ e \in dying' => future'[e] = "pending"
    BY <1>t, <1>2 DEF TypeOK, Results
  <2>4. ASSUME NEW e \in Domains, owner'[e] \in Callers PROVE ask'[owner'[e]] = e
    <3>1. e # d /\ owner[e] = owner'[e]
      BY <1>2, <2>4, ComponentSetupAssumption
    <3>2. ask[owner[e]] = e
      BY <1>t, <2>4, <3>1 DEF TypeOK
    <3>3. owner[d] # owner[e]
      BY <1>t, <2>4, <3>1, <3>2 DEF TypeOK
    <3> QED
      BY <1>1, <2>4, <3>1, <3>2, <3>3
  <2> QED
    BY <1>1, <2>1, <2>2, <2>3, <2>4 DEF TypeOK
<1>4. Onward
  BY <1>t, <1>2 DEF Onward, TypeOK, Results
<1>5. LoadOK'
  BY <1>2, LoadKept
<1>6. ASSUME NEW e \in Domains \ {d} PROVE AnswersOK(e)' /\ WaitsOK(e)'
  BY <1>1, <1>2, <1>4, <1>6, AnswersUntouched, WaitsUntouched
<1>7. AnswersOK(d)' /\ WaitsOK(d)'
  <2>1. AnswersOK(d)
    BY DEF Inv
  <2>2. AnswersOK(d)'
    BY <1>1, <1>2, <2>1 DEF AnswersOK, Results
  <2>3. WaitsOK(d)'
    BY <1>2 DEF WaitsOK
  <2> QED
    BY <2>2, <2>3
<1> QED
  BY <1>3, <1>5, <1>6, <1>7 DEF Inv

\* A request makes set-ups that were not there.
New(S, e) == e \in S /\ future[e] = "none"

LEMMA RequestMakes ==
  ASSUME Inv, NEW S \in SUBSET Domains, NEW who, Request(who, S), NEW e \in Domains
  PROVE  /\ New(S, e) => future'[e] = "pending" /\ owner'[e] = who /\ at[e] = "idle"
         /\ ~New(S, e) => future'[e] = future[e] /\ owner'[e] = owner[e]
         /\ New(S, e) <=> future'[e] = "pending" /\ future[e] # "pending"
         /\ e \in S => future'[e] # "none"
<1>1. TypeOK /\ AnswersOK(e)
  BY DEF Inv
<1>2. New(S, e) <=> e \in S /\ ~Held(e) /\ e \notin components
  <2>1. CASE future[e] = "none"
    BY <1>1, <2>1 DEF New, Held, TypeOK, AnswersOK
  <2>2. CASE future[e] # "none"
    BY <1>1, <2>2 DEF New, Held, TypeOK, AnswersOK, Results
  <2> QED
    BY <2>1, <2>2
<1>3. /\ future'[e] = IF New(S, e) THEN "pending" ELSE future[e]
      /\ owner'[e] = IF New(S, e) THEN who ELSE owner[e]
  BY <1>2 DEF Request
<1> QED
  BY <1>1, <1>3 DEF New, TypeOK

LEMMA RequestKeeps ==
  ASSUME Inv, NEW S \in SUBSET Domains,
         NEW who \in Callers \cup Domains \cup {Bootstrap}, Request(who, S),
         UNCHANGED <<plan, toLoad, components>>
  PROVE  /\ Onward
         /\ LoadOK'
         /\ future' \in [Domains -> {"none", "pending"} \cup Results]
         /\ owner' \in [Domains -> Callers \cup Domains \cup {Bootstrap, Nobody}]
         /\ \A e \in Domains : future'[e] = "pending" <=> owner'[e] # Nobody
<1>1. TypeOK
  BY DEF Inv
<1>2. Onward
  BY <1>1, RequestMakes DEF Onward, TypeOK, New, Results
<1>3. /\ future' \in [Domains -> {"none", "pending"} \cup Results]
      /\ owner' \in [Domains -> Callers \cup Domains \cup {Bootstrap, Nobody}]
  BY <1>1 DEF Request, TypeOK
<1>4. ASSUME NEW e \in Domains PROVE future'[e] = "pending" <=> owner'[e] # Nobody
  <2>1. who # Nobody
    BY ComponentSetupAssumption
  <2>2. future[e] = "pending" <=> owner[e] # Nobody
    BY <1>1 DEF TypeOK
  <2> QED
    BY <2>1, <2>2, RequestMakes
<1> QED
  BY <1>2, <1>3, <1>4, LoadKept

\* What is known of a set-up after a request that another set-up, or no set-up, makes.
LEMMA RequestSpares ==
  ASSUME Inv, NEW S \in SUBSET Domains,
         NEW who \in Callers \cup Domains \cup {Bootstrap}, Request(who, S),
         UNCHANGED <<plan, toLoad, components>>,
         dying' = dying, NEW e \in Domains, told'[e] = told[e], waits'[e] = waits[e],
         at'[e] = IF New(S, e) THEN "resolving" ELSE at[e]
  PROVE  /\ future'[e] = "none" <=> at'[e] = "idle"
         /\ future'[e] \in Results <=> at'[e] = "done"
         /\ e \in dying' => future'[e] = "pending"
         /\ AnswersOK(e)' /\ WaitsOK(e)'
<1>1. TypeOK /\ AnswersOK(e) /\ WaitsOK(e)
  BY DEF Inv
<1>2. CASE New(S, e)
  <2>1. /\ future[e] = "none" /\ future'[e] = "pending" /\ at[e] = "idle"
        /\ at'[e] = "resolving"
    BY <1>2, RequestMakes DEF New
  <2>2. AnswersOK(e)'
    BY <1>1, <2>1 DEF AnswersOK, Results
  <2>3. WaitsOK(e)'
    BY <1>1, <2>1 DEF WaitsOK
  <2> QED
    BY <1>1, <2>1, <2>2, <2>3 DEF Results
<1>3. CASE ~New(S, e)
  <2>1. future'[e] = future[e] /\ at'[e] = at[e]
    BY <1>3, RequestMakes
  <2>2. AnswersOK(e)'
    BY <2>1, AnswersUntouched
  <2>3. WaitsOK(e)'
    BY <2>1, RequestKeeps, WaitsUntouched
  <2> QED
    BY <1>1, <2>1, <2>2, <2>3 DEF TypeOK
<1> QED
  BY <1>2, <1>3

-----------------------------------------------------------------------------
(***************************************************************************)
(* The steps of a set-up                                                   *)
(***************************************************************************)
LEMMA ResolveKeeps ==
  ASSUME Inv, NEW d \in Domains, Resolve(d)
  PROVE  Inv'
<1>t. /\ TypeOK /\ AnswersOK(d) /\ manifest \in ManifestType
      /\ at[d] = "resolving" /\ d \notin dying /\ future[d] = "pending"
      /\ d \notin components
  BY ManifestIsType DEF Inv, TypeOK, AnswersOK, Resolve, Running, Results
<1>1. CASE Ends(d, "false")
  BY <1>t, <1>1, EndsKeeps DEF Resolve, Results
<1>2. CASE /\ ~Circular(manifest.hard, d)
           /\ Request(d, AwaitedBy(d))
           /\ Moves(d, IF AwaitedBy(d) = {} THEN "preparing" ELSE "waiting", AwaitedBy(d))
           /\ UNCHANGED <<toLoad, dying, ask, told>>
  <2> DEFINE S == AwaitedBy(d)
             place == IF S = {} THEN "preparing" ELSE "waiting"
  <2>1. S \in SUBSET Domains
    BY <1>t DEF AwaitedBy, ManifestType
  <2>2. /\ UNCHANGED <<plan, toLoad, dying, components, stage, lastStage, ask, told>>
    BY <1>2 DEF Resolve
  <2>3. place \in {"preparing", "waiting"}
    OBVIOUS
  <2>4. /\ waits' \in [Domains -> SUBSET Domains]
        /\ waits'[d] = S
        /\ \A e \in Domains \ {d} : waits'[e] = waits[e]
    BY <1>t, <1>2, <2>1 DEF Moves, TypeOK
  <2>5. /\ at' \in [Domains -> {"idle", "resolving", "waiting", "preparing", "starting",
                                "entries", "forwarding", "done"}]
        /\ at'[d] = place
        /\ \A e \in Domains \ {d} : at'[e] = IF New(S, e) THEN "resolving" ELSE at[e]
    BY <1>t, <1>2, <2>1, <2>3, RequestMakes DEF Moves, TypeOK
  <2>6. /\ Onward /\ LoadOK'
        /\ future' \in [Domains -> {"none", "pending"} \cup Results]
        /\ owner' \in [Domains -> Callers \cup Domains \cup {Bootstrap, Nobody}]
        /\ \A e \in Domains : future'[e] = "pending" <=> owner'[e] # Nobody
    BY <1>2, <2>1, <2>2, RequestKeeps
  <2>7. \A e \in Domains \ {d} :
          /\ future'[e] = "none" <=> at'[e] = "idle"
          /\ future'[e] \in Results <=> at'[e] = "done"
          /\ e \in dying' => future'[e] = "pending"
          /\ AnswersOK(e)' /\ WaitsOK(e)'
    BY <1>2, <2>1, <2>2, <2>4, <2>5, RequestSpares
  <2>8. future'[d] = "pending" /\ owner'[d] = owner[d]
    BY <1>t, <1>2, <2>1, RequestMakes DEF New
  <2>9. TypeOK'
    <3>1. ASSUME NEW e \in Domains, owner'[e] \in Callers PROVE ask'[owner'[e]] = e
      <4>1. ~New(S, e)
        BY <1>2, <2>1, <3>1, RequestMakes, ComponentSetupAssumption
      <4> QED
        BY <1>t, <1>2, <2>1, <2>2, <3>1, <4>1, RequestMakes DEF TypeOK
    <3>2. /\ future'[d] = "none" <=> at'[d] = "idle"
          /\ future'[d] \in Results <=> at'[d] = "done"
      BY <2>3, <2>5, <2>8 DEF Results
    <3> QED
      BY <1>t, <2>2, <2>4, <2>5, <2>6, <2>7, <2>8, <3>1, <3>2 DEF TypeOK
  <2>10. AnswersOK(d)'
    BY <1>t, <2>2, <2>3, <2>5, <2>8 DEF AnswersOK, Results
  <2>11. WaitsOK(d)'
    <3>1. \A e \in S : /\ future'[e] # "none"
                       /\ e \in manifest.hard[d] \/ (e \in manifest.after[d] /\ e \in toLoad)
      BY <1>2, <2>1, RequestMakes DEF AwaitedBy
    \* What it does not wait for has been set up.
    <3>2. ASSUME NEW e \in manifest.hard[d] \cup (manifest.after[d] \cap toLoad), e \notin S
          PROVE  future'[e] = "true" /\ e \notin toLoad
      <4>1. e \in Domains
        BY <1>t DEF ManifestType
      <4>2. ~Held(e) /\ e \in components
        BY <3>2 DEF AwaitedBy
      <4>3. AnswersOK(e)
        BY <4>1 DEF Inv
      <4>4. future[e] = "true"
        BY <1>t, <4>1, <4>2, <4>3 DEF TypeOK, AnswersOK, Held, Results
      <4> QED
        BY <2>6, <4>1, <4>3, <4>4 DEF Onward, AnswersOK, Results
    <3>3. CASE S = {}
      BY <2>2, <2>4, <2>5, <3>2, <3>3 DEF WaitsOK
    <3>4. CASE S # {}
      <4>1. at'[d] = "waiting"
        BY <2>5, <3>4
      <4>2. \A e \in manifest.hard[d] : e \in waits'[d] \/ future'[e] = "true"
        BY <2>4, <3>2
      <4>3. manifest.after[d] \cap toLoad \subseteq waits'[d]
        BY <2>4, <3>2
      <4> QED
        BY <1>2, <2>2, <2>4, <3>1, <4>1, <4>2, <4>3 DEF WaitsOK
    <3> QED
      BY <3>3, <3>4
  <2> QED
    BY <2>6, <2>7, <2>9, <2>10, <2>11 DEF Inv
<1> QED
  BY <1>1, <1>2 DEF Resolve

LEMMA ForwardKeeps ==
  ASSUME Inv, NEW d \in Domains, Forward(d)
  PROVE  Inv'
<1>t. /\ TypeOK /\ AnswersOK(d) /\ manifest \in ManifestType
      /\ at[d] = "entries" /\ d \notin dying /\ future[d] = "pending"
  BY ManifestIsType DEF Inv, TypeOK, AnswersOK, Forward, Running, Results
<1> DEFINE S == manifest.platforms[d] \ components
<1>1. S \in SUBSET Domains
  BY <1>t DEF ManifestType
<1>2. /\ Request(d, S) /\ Moves(d, "forwarding", S)
      /\ UNCHANGED <<plan, toLoad, dying, components, stage, lastStage, ask, told>>
  BY DEF Forward
<1>3. /\ waits' \in [Domains -> SUBSET Domains]
      /\ waits'[d] = S
      /\ \A e \in Domains \ {d} : waits'[e] = waits[e]
  BY <1>t, <1>1, <1>2 DEF Moves, TypeOK
<1>4. /\ at' \in [Domains -> {"idle", "resolving", "waiting", "preparing", "starting",
                              "entries", "forwarding", "done"}]
      /\ at'[d] = "forwarding"
      /\ \A e \in Domains \ {d} : at'[e] = IF New(S, e) THEN "resolving" ELSE at[e]
  BY <1>t, <1>1, <1>2, RequestMakes DEF Moves, TypeOK
<1>5. /\ LoadOK'
      /\ future' \in [Domains -> {"none", "pending"} \cup Results]
      /\ owner' \in [Domains -> Callers \cup Domains \cup {Bootstrap, Nobody}]
      /\ \A e \in Domains : future'[e] = "pending" <=> owner'[e] # Nobody
  BY <1>1, <1>2, RequestKeeps
<1>6. \A e \in Domains \ {d} :
        /\ future'[e] = "none" <=> at'[e] = "idle"
        /\ future'[e] \in Results <=> at'[e] = "done"
        /\ e \in dying' => future'[e] = "pending"
        /\ AnswersOK(e)' /\ WaitsOK(e)'
  BY <1>1, <1>2, <1>3, <1>4, RequestSpares
<1>7. future'[d] = "pending" /\ owner'[d] = owner[d]
  BY <1>t, <1>1, <1>2, RequestMakes DEF New
<1>8. TypeOK'
  <2>1. ASSUME NEW e \in Domains, owner'[e] \in Callers PROVE ask'[owner'[e]] = e
    <3>1. ~New(S, e)
      BY <1>1, <1>2, <2>1, RequestMakes, ComponentSetupAssumption
    <3> QED
      BY <1>t, <1>1, <1>2, <2>1, <3>1, RequestMakes DEF TypeOK
  <2>2. /\ future'[d] = "none" <=> at'[d] = "idle"
        /\ future'[d] \in Results <=> at'[d] = "done"
    BY <1>4, <1>7 DEF Results
  <2> QED
    BY <1>t, <1>2, <1>3, <1>4, <1>5, <1>6, <1>7, <2>1, <2>2 DEF TypeOK
<1>9. AnswersOK(d)' /\ WaitsOK(d)'
  <2>1. AnswersOK(d)'
    BY <1>t, <1>2, <1>4, <1>7 DEF AnswersOK, Results
  <2>2. WaitsOK(d)'
    BY <1>2, <1>3, <1>4 DEF WaitsOK
  <2> QED
    BY <2>1, <2>2
<1> QED
  BY <1>5, <1>6, <1>8, <1>9 DEF Inv

\* A set-up goes to its next place, and nothing else but components changes.
LEMMA PlaceKeeps ==
  ASSUME Inv, NEW d \in Domains, future[d] = "pending",
         NEW place \in {"preparing", "starting", "entries"},
         at' = [at EXCEPT ![d] = place], waits' = [waits EXCEPT ![d] = {}],
         UNCHANGED <<plan, toLoad, future, owner, dying, stage, lastStage, ask, told>>,
         components' = IF place = "entries" THEN components \cup {d} ELSE components,
         d \notin components,
         place \in {"preparing", "starting"} =>
           /\ \A e \in manifest.hard[d] : future[e] = "true"
           /\ manifest.after[d] \cap toLoad = {}
  PROVE  Inv'
<1>t. TypeOK /\ AnswersOK(d)
  BY DEF Inv
<1>1. /\ at'[d] = place /\ waits'[d] = {}
      /\ \A e \in Domains \ {d} : at'[e] = at[e] /\ waits'[e] = waits[e]
      /\ \A e \in Domains \ {d} : e \in components' <=> e \in components
      /\ components' \subseteq Domains
  BY <1>t DEF TypeOK
<1>2. TypeOK'
  <2>1. /\ at' \in [Domains -> {"idle", "resolving", "waiting", "preparing", "starting",
                                "entries", "forwarding", "done"}]
        /\ waits' \in [Domains -> SUBSET Domains]
    BY <1>t DEF TypeOK
  <2>2. ASSUME NEW e \in Domains
        PROVE  /\ future'[e] = "none" <=> at'[e] = "idle"
               /\ future'[e] \in Results <=> at'[e] = "done"
    BY <1>t, <1>1 DEF TypeOK, Results
  <2> QED
    BY <1>t, <1>1, <2>1, <2>2 DEF TypeOK
<1>3. Onward
  BY DEF Onward
<1>4. LoadOK'
  BY LoadKept
<1>5. \A e \in Domains \ {d} : AnswersOK(e)' /\ WaitsOK(e)'
  BY <1>1, <1>3, AnswersUntouched, WaitsUntouched
<1>6. AnswersOK(d)'
  BY <1>t, <1>1 DEF AnswersOK, Results
<1>7. WaitsOK(d)'
  BY <1>1 DEF WaitsOK
<1> QED
  BY <1>2, <1>4, <1>5, <1>6, <1>7 DEF Inv

LEMMA StepKeeps ==
  ASSUME Inv, NEW d \in Domains, Step(d)
  PROVE  Inv'
<1>t. TypeOK /\ AnswersOK(d) /\ WaitsOK(d) /\ manifest \in ManifestType
  BY ManifestIsType DEF Inv
<1>1. CASE Resolve(d)
  BY <1>1, ResolveKeeps
<1>2. CASE DependencyRaised(d)
  <2>1. future[d] = "pending"
    BY <1>t, <1>2 DEF TypeOK, Results, DependencyRaised, Running
  <2> QED
    BY <1>2, <2>1, EndsKeeps DEF DependencyRaised, Results
<1>3. CASE DependenciesDone(d)
  <2>1. future[d] = "pending" /\ at[d] = "waiting" /\ d \notin components
    BY <1>t, <1>3 DEF TypeOK, Results, AnswersOK, DependenciesDone, Running
  <2>2. CASE Ends(d, "false")
    BY <1>3, <2>1, <2>2, EndsKeeps DEF DependenciesDone, Results
  <2>3. CASE ~Failing(d, "false") /\ ~Ends(d, "false")
    <3>1. \A e \in waits[d] : future[e] = "true"
      BY <1>t, <1>3, <2>1, <2>3 DEF TypeOK, WaitsOK, DependenciesDone, Failing, Results
    <3>2. \A e \in manifest.hard[d] : future[e] = "true"
      BY <1>t, <2>1, <3>1 DEF WaitsOK
    <3>3. ASSUME NEW e \in manifest.after[d] \cap toLoad PROVE FALSE
      <4>1. e \in Domains /\ e \in waits[d]
        BY <1>t, <2>1, <3>3 DEF WaitsOK, TypeOK
      <4> QED
        BY <3>1, <3>3, <4>1 DEF Inv, AnswersOK, Results
    <3> QED
      BY <1>3, <2>1, <2>3, <3>2, <3>3, PlaceKeeps DEF DependenciesDone
  <2> QED
    BY <1>3, <2>2, <2>3 DEF DependenciesDone
<1>4. CASE Prepared(d)
  <2>1. /\ future[d] = "pending" /\ at[d] = "preparing" /\ d \notin components
        /\ waits[d] = {}
    BY <1>t, <1>4 DEF TypeOK, Results, AnswersOK, WaitsOK, Prepared, Running
  <2>2. CASE Ends(d, "false")
    BY <1>4, <2>1, <2>2, EndsKeeps DEF Prepared, Results
  <2>3. CASE ~Ends(d, "false")
    <3>1. waits' = [waits EXCEPT ![d] = {}]
      BY <1>t, <1>4, <2>1, <2>3 DEF Prepared, TypeOK
    <3> QED
      BY <1>t, <1>4, <2>1, <2>3, <3>1, PlaceKeeps DEF Prepared, WaitsOK
  <2> QED
    BY <2>2, <2>3
<1>5. CASE Started(d)
  <2>1. /\ future[d] = "pending" /\ at[d] = "starting" /\ d \notin components
        /\ waits[d] = {}
    BY <1>t, <1>5 DEF TypeOK, Results, AnswersOK, WaitsOK, Started, Running
  <2>2. CASE Ends(d, "false") /\ UNCHANGED components
    BY <1>5, <2>1, <2>2, EndsKeeps DEF Started, Results
  <2>3. CASE components' = components \cup {d} /\ Ends(d, "true")
    BY <1>5, <2>1, <2>3, EndsKeeps DEF Started, Results
  <2>4. CASE /\ components' = components \cup {d}
             /\ at' = [at EXCEPT ![d] = "entries"]
             /\ UNCHANGED <<toLoad, future, owner, waits, dying, ask, told>>
    <3>1. waits' = [waits EXCEPT ![d] = {}]
      BY <1>t, <2>1, <2>4 DEF TypeOK
    <3> QED
      BY <1>5, <2>1, <2>4, <3>1, PlaceKeeps DEF Started
  <2> QED
    BY <1>5, <2>2, <2>3, <2>4 DEF Started
<1>6. CASE Forward(d)
  BY <1>6, ForwardKeeps
<1>7. CASE Forwarded(d)
  <2>1. future[d] = "pending"
    BY <1>t, <1>7 DEF TypeOK, Results, Forwarded, Running
  <2> QED
    BY <1>7, <2>1, EndsKeeps DEF Forwarded, Results
<1>8. CASE Die(d)
  <2>1. future[d] = "pending"
    BY <1>t, <1>8 DEF TypeOK, Die
  <2>2. CASE Ends(d, "error")
    BY <1>8, <2>1, <2>2, EndsKeeps DEF Die, Results
  <2>3. CASE at[d] = "starting" /\ Ends(d, "false")
    BY <1>t, <1>8, <2>1, <2>3, EndsKeeps DEF Die, Results, AnswersOK
  <2> QED
    BY <1>8, <2>2, <2>3 DEF Die
<1> QED
  BY <1>1, <1>2, <1>3, <1>4, <1>5, <1>6, <1>7, <1>8 DEF Step

LEMMA RaisesKeeps ==
  ASSUME Inv, NEW d \in Domains, Raises(d)
  PROVE  Inv'
<1>1. future[d] = "pending"
  BY DEF Inv, TypeOK, Results, Raises, Running
<1> QED
  BY <1>1, EndsKeeps DEF Raises, Results

-----------------------------------------------------------------------------
(***************************************************************************)
(* Callers, the bootstrap and cancellation                                 *)
(***************************************************************************)
LEMMA CallKeeps ==
  ASSUME Inv, NEW c \in Callers, NEW d \in Domains, Call(c, d)
  PROVE  Inv'
<1>t. TypeOK /\ AnswersOK(d)
  BY DEF Inv
<1>n. \A e \in Domains : owner[e] # c
  BY <1>t, ComponentSetupAssumption DEF TypeOK, Call
<1>1. CASE d \in components
  <2>1. /\ UNCHANGED <<plan, toLoad, future, at, owner, waits, dying, components, stage,
                    lastStage>>
        /\ ask' = [ask EXCEPT ![c] = Nobody]
        /\ told' = [told EXCEPT ![d] = @ \cup {"true"}]
    BY <1>1 DEF Call, Answer
  <2>2. TypeOK'
    BY <1>t, <1>n, <2>1 DEF TypeOK, Results
  <2>3. /\ \A e \in Domains \ {d} : told'[e] = told[e]
        /\ told'[d] = told[d] \cup {"true"}
    BY <1>t, <2>1 DEF TypeOK
  <2>4. Onward
    BY <2>1 DEF Onward
  <2>5. \A e \in Domains : WaitsOK(e)'
    BY <2>1, <2>4, WaitsUntouched
  <2>6. \A e \in Domains \ {d} : AnswersOK(e)'
    BY <2>1, <2>3, AnswersUntouched
  <2>7. AnswersOK(d)'
    BY <1>t, <1>1, <2>1, <2>3 DEF AnswersOK
  <2>8. LoadOK'
    BY <2>1, LoadKept
  <2> QED
    BY <2>2, <2>5, <2>6, <2>7, <2>8 DEF Inv
<1>2. CASE d \notin components
  <2>1. /\ Request(c, {d})
        /\ at' = [at EXCEPT ![d] = IF Held(d) THEN @ ELSE "resolving"]
        /\ ask' = [ask EXCEPT ![c] = d]
        /\ UNCHANGED <<plan, toLoad, waits, dying, components, stage, lastStage, told>>
    BY <1>2 DEF Call
  <2>2. New({d}, d) <=> ~Held(d)
    BY <1>t, <1>2 DEF New, Held, TypeOK, AnswersOK, Results
  <2>3. /\ at' \in [Domains -> {"idle", "resolving", "waiting", "preparing", "starting",
                                "entries", "forwarding", "done"}]
        /\ \A e \in Domains : at'[e] = IF New({d}, e) THEN "resolving" ELSE at[e]
    BY <1>t, <2>1, <2>2 DEF TypeOK, New
  <2>4. /\ LoadOK'
        /\ future' \in [Domains -> {"none", "pending"} \cup Results]
        /\ owner' \in [Domains -> Callers \cup Domains \cup {Bootstrap, Nobody}]
        /\ \A e \in Domains : future'[e] = "pending" <=> owner'[e] # Nobody
    BY <2>1, RequestKeeps
  <2>5. \A e \in Domains :
          /\ future'[e] = "none" <=> at'[e] = "idle"
          /\ future'[e] \in Results <=> at'[e] = "done"
          /\ e \in dying' => future'[e] = "pending"
          /\ AnswersOK(e)' /\ WaitsOK(e)'
    BY <2>1, <2>3, RequestSpares
  <2>6. TypeOK'
    <3>1. ASSUME NEW e \in Domains, owner'[e] \in Callers PROVE ask'[owner'[e]] = e
      <4>1. CASE New({d}, e)
        <5>1. e = d
          BY <4>1 DEF New
        <5>2. owner'[e] = c
          BY <2>1, <4>1, RequestMakes
        <5> QED
          BY <1>t, <2>1, <5>1, <5>2 DEF TypeOK
      <4>2. CASE ~New({d}, e)
        BY <1>t, <1>n, <2>1, <3>1, <4>2, RequestMakes DEF TypeOK
      <4> QED
        BY <4>1, <4>2
    <3> QED
      BY <1>t, <2>1, <2>3, <2>4, <2>5, <3>1 DEF TypeOK
  <2> QED
    BY <2>4, <2>5, <2>6 DEF Inv
<1> QED
  BY <1>1, <1>2

LEMMA AnsweredKeeps ==
  ASSUME Inv, NEW c \in Callers, Answered(c)
  PROVE  Inv'
<1>t. TypeOK
  BY DEF Inv
<1>d. PICK d \in Domains : ask[c] = d
  BY <1>t, ComponentSetupAssumption DEF TypeOK, Answered, Results
<1>1. /\ future[d] \in Results
      /\ UNCHANGED <<plan, toLoad, future, at, owner, waits, dying, components, stage,
                    lastStage>>
      /\ ask' = [ask EXCEPT ![c] = Nobody]
      /\ told' = [told EXCEPT ![d] = @ \cup {future[d]}]
  BY <1>d DEF Answered, Answer
<1>2. owner[d] = Nobody
  BY <1>t, <1>1 DEF TypeOK, Results
<1>3. \A e \in Domains : owner[e] # c
  BY <1>t, <1>d, <1>2, ComponentSetupAssumption DEF TypeOK
<1>4. TypeOK'
  BY <1>t, <1>1, <1>3 DEF TypeOK, Results
<1>5. /\ \A e \in Domains \ {d} : told'[e] = told[e]
      /\ told'[d] = told[d] \cup {future[d]}
  BY <1>t, <1>1 DEF TypeOK
<1>6. Onward
  BY <1>1 DEF Onward
<1>7. \A e \in Domains : WaitsOK(e)'
  BY <1>1, <1>6, WaitsUntouched
<1>8. \A e \in Domains \ {d} : AnswersOK(e)'
  BY <1>1, <1>5, AnswersUntouched
<1>9. AnswersOK(d)'
  <2>1. AnswersOK(d)
    BY <1>1 DEF Inv
  <2> QED
    BY <1>1, <1>5, <2>1 DEF AnswersOK, Results
<1>10. LoadOK'
  BY <1>1, LoadKept
<1> QED
  BY <1>4, <1>7, <1>8, <1>9, <1>10 DEF Inv

LEMMA StageKeeps ==
  ASSUME Inv, EarlyStage \/ LastStage
  PROVE  Inv'
<1>t. TypeOK
  BY DEF Inv
<1>0. PICK group \in SUBSET allDomains : Stage(group) /\ lastStage' \in BOOLEAN
  BY <1>t DEF EarlyStage, LastStage, TypeOK
<1> DEFINE S == StageDomains(group)
<1>s. S \in SUBSET Domains
  BY <1>t DEF StageDomains, TypeOK
<1>1. /\ Request(Bootstrap, S)
      /\ at' = [d \in Domains |-> IF d \in S /\ future[d] = "none" THEN "resolving" ELSE at[d]]
      /\ stage' = S
      /\ UNCHANGED <<plan, toLoad, waits, dying, components, ask, told>>
  BY <1>0 DEF Stage
<1> HIDE DEF S
<1>2. /\ at' \in [Domains -> {"idle", "resolving", "waiting", "preparing", "starting",
                              "entries", "forwarding", "done"}]
      /\ \A e \in Domains : at'[e] = IF New(S, e) THEN "resolving" ELSE at[e]
  BY <1>t, <1>1 DEF TypeOK, New
<1>3. /\ LoadOK'
      /\ future' \in [Domains -> {"none", "pending"} \cup Results]
      /\ owner' \in [Domains -> Callers \cup Domains \cup {Bootstrap, Nobody}]
      /\ \A e \in Domains : future'[e] = "pending" <=> owner'[e] # Nobody
  BY <1>1, <1>s, RequestKeeps
<1>4. \A e \in Domains :
        /\ future'[e] = "none" <=> at'[e] = "idle"
        /\ future'[e] \in Results <=> at'[e] = "done"
        /\ e \in dying' => future'[e] = "pending"
        /\ AnswersOK(e)' /\ WaitsOK(e)'
  BY <1>1, <1>2, <1>s, RequestSpares
<1>5. TypeOK'
  <2>1. ASSUME NEW e \in Domains, owner'[e] \in Callers PROVE ask'[owner'[e]] = e
    <3>1. ~New(S, e)
      BY <1>1, <1>s, <2>1, RequestMakes, ComponentSetupAssumption
    <3> QED
      BY <1>t, <1>1, <1>s, <2>1, <3>1, RequestMakes DEF TypeOK
  <2> QED
    BY <1>t, <1>0, <1>1, <1>s, <1>2, <1>3, <1>4, <2>1 DEF TypeOK
<1> QED
  BY <1>3, <1>4, <1>5 DEF Inv

\* Only set-ups whose futures are pending are cancelled.
LEMMA TreeIsPending ==
  ASSUME Inv, NEW d \in Domains, future[d] = "pending", NEW e \in Tree(d)
  PROVE  e \in Domains /\ future[e] = "pending"
<1>t. TypeOK
  BY DEF Inv
<1> DEFINE edges == [x \in Domains |-> Made(x)]
           C == {x \in Domains : future[x] = "pending"}
<1>1. \A x \in Domains : edges[x] \subseteq C
  <2> SUFFICES ASSUME NEW x \in Domains, NEW y \in Made(x)
               PROVE  y \in Domains /\ future[y] = "pending"
    OBVIOUS
  <2>1. y \in Domains /\ owner[y] = x
    BY <1>t DEF Made, TypeOK
  <2> QED
    BY <1>t, <2>1, ComponentSetupAssumption DEF TypeOK
<1>2. C \in SUBSET Domains
  OBVIOUS
<1>3. Reached(edges, d) \subseteq C
  BY <1>1, <1>2 DEF Reached
<1> QED
  BY <1>3 DEF Tree

LEMMA CancelKeeps ==
  ASSUME Inv, \/ \E c \in Callers : CancelCaller(c) \/ CancelOwner(c)
              \/ StageTimeout
  PROVE  Inv'
<1>t. TypeOK
  BY DEF Inv
<1>1. /\ UNCHANGED <<plan, toLoad, future, at, owner, waits, components, lastStage, told>>
      /\ stage' \subseteq Domains
      /\ dying' \subseteq Domains
      /\ \A d \in dying' : future[d] = "pending"
      /\ ask' \in [Callers -> Domains \cup {Nobody}]
      /\ \A d \in Domains : owner[d] \in Callers => ask'[owner[d]] = d
  <2>1. ASSUME NEW c \in Callers, CancelCaller(c) PROVE <1>1!:
    BY <1>t, <2>1 DEF TypeOK, CancelCaller
  <2>2. ASSUME NEW c \in Callers, CancelOwner(c) PROVE <1>1!:
    <3>1. ask[c] \in Domains /\ future[ask[c]] = "pending"
      BY <1>t, <2>2, ComponentSetupAssumption DEF TypeOK, CancelOwner
    <3>2. \A e \in Tree(ask[c]) : e \in Domains /\ future[e] = "pending"
      BY <3>1, TreeIsPending
    <3> QED
      BY <1>t, <2>2, <3>2 DEF TypeOK, CancelOwner
  <2>3. ASSUME StageTimeout PROVE <1>1!:
    <3>1. \A d \in stage' : d \in Domains /\ future[d] = "pending"
      BY <1>t, <2>3, ComponentSetupAssumption DEF TypeOK, StageTimeout
    <3>2. \A d \in stage' : \A e \in Tree(d) : e \in Domains /\ future[e] = "pending"
      BY <3>1, TreeIsPending
    <3> QED
      BY <1>t, <2>3, <3>1, <3>2 DEF TypeOK, StageTimeout
  <2> QED
    BY <2>1, <2>2, <2>3
<1>2. TypeOK'
  BY <1>t, <1>1 DEF TypeOK
<1>3. Onward
  BY <1>1 DEF Onward
<1>4. \A d \in Domains : AnswersOK(d)' /\ WaitsOK(d)'
  BY <1>1, <1>3, AnswersUntouched, WaitsUntouched
<1>5. LoadOK'
  BY <1>1, LoadKept
<1> QED
  BY <1>2, <1>4, <1>5 DEF Inv

LEMMA NextInv == Inv /\ [Next]_vars => Inv'
<1> SUFFICES ASSUME Inv, [Next]_vars PROVE Inv'
  OBVIOUS
<1>1. CASE \E d \in Domains : Step(d) \/ Raises(d)
  BY <1>1, StepKeeps, RaisesKeeps
<1>2. CASE \E c \in Callers : Answered(c)
  BY <1>2, AnsweredKeeps
<1>3. CASE (\E c \in Callers : CancelCaller(c) \/ CancelOwner(c)) \/ StageTimeout
  BY <1>3, CancelKeeps
<1>4. CASE \E c \in Callers, d \in Domains : Call(c, d)
  BY <1>4, CallKeeps
<1>5. CASE EarlyStage \/ LastStage
  BY <1>5, StageKeeps
<1>6. CASE UNCHANGED vars
  <2>1. Onward
    BY <1>6 DEF Onward, vars
  <2>2. \A d \in Domains : AnswersOK(d)' /\ WaitsOK(d)'
    BY <1>6, <2>1, AnswersUntouched, WaitsUntouched DEF vars
  <2>3. TypeOK'
    BY <1>6 DEF vars, Inv, TypeOK
  <2>4. LoadOK'
    BY <1>6, LoadKept DEF vars
  <2> QED
    BY <2>2, <2>3, <2>4 DEF Inv
<1> QED
  BY <1>1, <1>2, <1>3, <1>4, <1>5, <1>6 DEF Next

-----------------------------------------------------------------------------
(***************************************************************************)
(* Theorems                                                                *)
(***************************************************************************)
\* Inv is an inductive invariant of the set-up of components.
LEMMA InvHolds == Spec => []Inv
<1> QED
  BY InitInv, NextInv, PTL DEF Spec

\* Every variable keeps its type; a set-up has a future as long as it has a
\* place, an owner as long as it is pending, and its caller waits for it.
THEOREM TypeCorrect == Spec => []TypeOK
<1>1. Inv => TypeOK
  BY DEF Inv
<1> QED
  BY <1>1, InvHolds, PTL

\* _async_process_dependencies returns only when every dependency is set up with
\* its entries, and every after_dependency to be loaded with it has ended.
THEOREM DependenciesComeFirst == Spec => []DependenciesFirst
<1> QED
  BY InvImpliesDependenciesFirst, InvHolds, PTL

\* async_setup_component never gives one caller True and another, or the same
\* one later, False for the same component.
THEOREM OneAnswerForAll == Spec => []OneAnswer
<1> QED
  BY InvImpliesOneAnswer, InvHolds, PTL

\* The checks for circular dependencies, of the resolution for dependencies and
\* of async_set_domains_to_be_loaded for after_dependencies, keep set-ups from
\* waiting for one another, for any layered integrations.
THEOREM NoDeadlock == Spec => []NoCircularWait
<1> QED
  BY InvImpliesNoCircularWait, InvHolds, PTL
=============================================================================
