----------------------------- MODULE GraphPlanning -----------------------------
(***************************************************************************)
(* What the GraphRAG coordinator plans.  Every unit of an active source is *)
(* to have a graph extracted by the configured model, some sources a link  *)
(* verified by it, every graph a leaf report, and the leaf reports         *)
(* together a parent.  A result is an artifact which pins the generations  *)
(* of its sources, the versions of its children and the model; work is     *)
(* known by that dependency and is never planned twice.                    *)
(*                                                                         *)
(* One process runs the loop: scan the inputs, reconcile, plan, send.      *)
(* Each step is a transaction of the store; the process may die between    *)
(* two of them, may find the store busy, and may be started again with     *)
(* another model.  The sending itself is the module InferenceJobs.         *)
(***************************************************************************)
EXTENDS Integers, FiniteSets

CONSTANTS Source, Linked,  \* sources, and those with a link to verify
          Model,           \* models the service may be configured with
          Capacity,        \* unfinished jobs the planners fill up to
          Retries,         \* bound on the retries of a job
          MaxRevisions,    \* bound on the generations of a source
          MaxSwitches,     \* bound on starts with another model
          MaxMishaps,      \* bound on failed jobs, crashes and busy stores
          Nothing          \* no current version of an artifact

(* Artifact keys: the graph of a source's unit, the graph of its link, the *)
(* leaf report of either, and the parent report of several leaves.         *)
UnitGraph(s) == <<"unit", {s}>>
LinkGraph(s) == <<"link", {s}>>
Graphs == {UnitGraph(s) : s \in Source} \cup {LinkGraph(s) : s \in Linked}
Leaf(g) == <<"leaf", {g}>>
Parent(G) == <<"parent", G>>
Leaves == {Leaf(g) : g \in Graphs}
Parents == {Parent(G) : G \in SUBSET Graphs}
Artifact == Graphs \cup Leaves \cup Parents

(* Jobs: graphs are made of sources, leaves of graphs, parents of leaves.  *)
JobsOver(artifacts, below) ==
    [artifact : artifacts, attempt : Nat,
     dependency : [sources : SUBSET (Source \X Nat), children : SUBSET below, model : Model]]
GraphJob == JobsOver(Graphs, {})
LeafJob == JobsOver(Leaves, GraphJob)
ParentJob == JobsOver(Parents, LeafJob)
AnyJob == GraphJob \cup LeafJob \cup ParentJob

ASSUME GraphPlanningAssumption ==
    /\ IsFiniteSet(Source) /\ Linked \subseteq Source
    /\ Capacity \in Nat \ {0}
    /\ Retries \in Nat /\ MaxRevisions \in Nat \ {0}
    /\ MaxSwitches \in Nat /\ MaxMishaps \in Nat
    /\ Nothing \notin AnyJob

VARIABLES
    generation, \* sources.generation
    live,       \* sources.active
    work,       \* state of each job; a job is its artifact, dependency and attempt
    orphan,     \* jobs still leased to a process that is gone
    latest,     \* per artifact the job whose result is the current version
    saved,      \* jobs whose result is a version of their artifact
    configured, \* artifact control/model
    model,      \* the model of the running process
    seen,       \* models that have been configured
    returned,   \* has one of them been started after another was configured
    step,       \* where the loop is
    returning,  \* does this planning reactivate the results of its model
    switches, mishaps

storeVars == <<generation, live, work, orphan, latest, saved>>
modelVars == <<configured, model, seen, returned>>
planningVars == <<storeVars, modelVars, step, returning, switches, mishaps>>

Jobs == DOMAIN work
Active == {j \in Jobs : work[j] = "planned"}

PlanningInit ==
    /\ generation = [s \in Source |-> 1] /\ live = Source
    /\ work = [j \in {} |-> "planned"] /\ orphan = {}
    /\ latest = [a \in Artifact |-> Nothing] /\ saved = {}
    /\ model \in Model /\ configured = model /\ seen = {model} /\ returned = FALSE
    /\ step = "model" /\ returning = FALSE
    /\ switches = 0 /\ mishaps = 0

Mishap == mishaps < MaxMishaps /\ mishaps' = mishaps + 1
Stays == UNCHANGED <<modelVars, switches>>

-----------------------------------------------------------------------------
(* Dependencies: sources at a generation, children at a version, a model.  *)

Dependency(S, children) ==
    [sources |-> {<<s, generation[s]>> : s \in S}, children |-> children, model |-> model]
UnitDependency(s) == Dependency({s}, {})
LeafDependency(g) == Dependency(g[2], {latest[g]})

DependenciesCurrent(d) == \A p \in d.sources : p[1] \in live /\ generation[p[1]] = p[2]
ChildrenCurrent(d) == \A c \in d.children : latest[c.artifact] = c

(* The current artifacts, of these models, that rest on current sources    *)
(* and on children which do.                                               *)
On(artifacts, below, models) ==
    {a \in artifacts :
        /\ latest[a] # Nothing
        /\ DependenciesCurrent(latest[a].dependency) /\ latest[a].dependency.model \in models
        /\ \A c \in latest[a].dependency.children : latest[c.artifact] = c /\ c.artifact \in below}
Resting(models) ==
    LET graphs == On(Graphs, {}, models)
        leaves == On(Leaves, graphs, models)
    IN  graphs \cup leaves \cup On(Parents, leaves, models)

(* What reconciliation keeps, and what readers select: what is of the      *)
(* configured model throughout.                                            *)
Rests(a) == a \in Resting(Model)
Selected(a) == a \in Resting({configured})

Attempt(a, d, n) == [artifact |-> a, dependency |-> d, attempt |-> n]
Known(a, d) == \E j \in Jobs : j.artifact = a /\ j.dependency = d
Insert(new) == work' = [j \in Jobs \cup new |-> IF j \in Jobs THEN work[j] ELSE "planned"]

(* What a planner with so many places takes of the jobs it wants. *)
Taken(want, room) ==
    {new \in SUBSET want : Cardinality(new) = IF Cardinality(want) <= room
                                               THEN Cardinality(want) ELSE room}
Room == IF Cardinality(Active) < Capacity THEN Capacity - Cardinality(Active) ELSE 0

-----------------------------------------------------------------------------
(* The inputs. *)

(* A scan stores the sources it finds changed, or withdraws one. *)
ScanChanges(s) ==
    /\ step = "scan"
    /\ generation[s] < MaxRevisions
    /\ generation' = [generation EXCEPT ![s] = @ + 1]
    /\ live' \in {live \cup {s}, live \ {s}}
    /\ s \in live \/ s \in live'
    /\ step' = "reconcile"
    /\ UNCHANGED <<work, orphan, latest, saved, returning, mishaps>> /\ Stays

ScanFindsNothing ==
    /\ step = "scan"
    /\ step' = "reconcile"
    /\ UNCHANGED <<storeVars, returning, mishaps>> /\ Stays

(* Results and jobs that no longer rest on what is current are withdrawn,  *)
(* but a job that somebody holds a lease of.                               *)
ReconcileSources ==
    /\ step = "reconcile"
    /\ latest' = [a \in Artifact |-> IF Rests(a) THEN latest[a] ELSE Nothing]
    /\ work' = [j \in Jobs |->
                   IF j \in orphan \/ ( /\ DependenciesCurrent(j.dependency)
                                        /\ \A c \in j.dependency.children : latest'[c.artifact] = c )
                   THEN work[j] ELSE "obsolete"]
    /\ step' = "model"
    /\ UNCHANGED <<generation, live, orphan, saved, returning, mishaps>> /\ Stays

-----------------------------------------------------------------------------
(* The planning. *)

(* The model row is stored; that it differed is only remembered here. *)
ConfigureModel ==
    /\ step = "model"
    /\ configured' = model
    /\ seen' = seen \cup {model}
    /\ returning' = (configured # model)
    /\ step' = IF returning' THEN "recover" ELSE "retries"
    /\ UNCHANGED <<storeVars, model, returned, switches, mishaps>>

(* Results of a model are made versions of their artifacts, and current,   *)
(* graphs before what rests on them.                                       *)
Cached(a, artifacts, m, J) ==
    {j \in J : /\ j.artifact = a /\ work[j] = "completed" /\ j.dependency.model = m
               /\ DependenciesCurrent(j.dependency)
               /\ \A c \in j.dependency.children : artifacts[c.artifact] = c}
MadeCurrent(artifacts, A, m, J) ==
    [a \in Artifact |-> IF a \in A /\ Cached(a, artifacts, m, J) # {}
                        THEN CHOOSE j \in Cached(a, artifacts, m, J) : TRUE
                        ELSE artifacts[a]]
RecoverProjections(m, J) ==
    /\ LET graphs == MadeCurrent(latest, Graphs, m, J)
           leaves == MadeCurrent(graphs, Leaves, m, J) IN
        latest' = MadeCurrent(leaves, Parents, m, J)
    /\ saved' = saved \cup UNION {Cached(a, latest', m, J) : a \in Artifact}

(* All the results of a model that returns are reactivated. *)
ReactivateResults ==
    /\ step = "recover"
    /\ RecoverProjections(model, Jobs)
    /\ step' = "retries" /\ returning' = FALSE
    /\ UNCHANGED <<generation, live, work, orphan, mishaps>> /\ Stays

Retryable ==
    {j \in Jobs :
        /\ work[j] = "failed" /\ j.attempt < Retries
        /\ Attempt(j.artifact, j.dependency, j.attempt + 1) \notin Jobs
        /\ \A i \in Active : i.artifact # j.artifact
        /\ j.dependency.model = model
        /\ DependenciesCurrent(j.dependency) /\ ChildrenCurrent(j.dependency)
        /\ latest[j.artifact] = Nothing \/ latest[j.artifact].dependency # j.dependency}

(* Only requests on their way and other retries take up places here.  A    *)
(* retry may have to wait for its time.                                    *)
PlanRetries ==
    /\ step = "retries"
    /\ \E old \in SUBSET Retryable :
        LET waiting == {j \in Active : j.attempt > 0} \cup (orphan \cap Active) IN
        /\ Cardinality(old) <= Capacity - Cardinality(waiting) \/ old = {}
        /\ Insert({Attempt(j.artifact, j.dependency, j.attempt + 1) : j \in old})
        /\ step' = IF Cardinality(Active) + Cardinality(old) >= Capacity THEN "planned" ELSE "extract"
    /\ UNCHANGED <<generation, live, orphan, latest, saved, returning, mishaps>> /\ Stays

PlanExtractions ==
    /\ step = "extract"
    /\ LET units == {s \in live : ~Known(UnitGraph(s), UnitDependency(s))} IN
        \E new \in Taken({Attempt(UnitGraph(s), UnitDependency(s), 0) : s \in units}, Room) : Insert(new)
    /\ step' = "links"
    /\ UNCHANGED <<generation, live, orphan, latest, saved, returning, mishaps>> /\ Stays

(* A link that some current graph has already is not verified again. *)
PlanLinks ==
    /\ step = "links"
    /\ LET links == {s \in live \cap Linked : /\ latest[LinkGraph(s)] = Nothing
                                              /\ ~Known(LinkGraph(s), UnitDependency(s))} IN
        \E new \in Taken({Attempt(LinkGraph(s), UnitDependency(s), 0) : s \in links}, Room) : Insert(new)
    /\ step' = "communities"
    /\ UNCHANGED <<generation, live, orphan, latest, saved, returning, mishaps>> /\ Stays

(* A report that rests on the wanted dependency, as it is or restored. *)
Versions(a, d) == {j \in saved : j.artifact = a /\ j.dependency = d}
Restored(a, d) ==
    IF latest[a] # Nothing /\ latest[a].dependency = d THEN latest[a]
    ELSE IF Versions(a, d) # {} THEN CHOOSE j \in Versions(a, d) : TRUE ELSE Nothing

PlanCommunities ==
    /\ step = "communities"
    /\ step' = "planned"
    /\ LET graphs == {g \in Graphs : Selected(g)}
           leaf == [g \in graphs |-> Restored(Leaf(g), LeafDependency(g))]
           ready == {g \in graphs : leaf[g] # Nothing}
           leaves == {Attempt(Leaf(g), LeafDependency(g), 0) :
                         g \in {g \in graphs \ ready : ~Known(Leaf(g), LeafDependency(g))}}
           level == graphs = ready /\ \A s \in live : UnitGraph(s) \in graphs
           paired == level /\ Cardinality(graphs) > 1
           wanted == Dependency(UNION {g[2] : g \in graphs}, {leaf[g] : g \in graphs})
           parent == IF paired THEN Restored(Parent(graphs), wanted) ELSE Nothing
           parents == IF paired /\ parent = Nothing /\ ~Known(Parent(graphs), wanted)
                      THEN {Attempt(Parent(graphs), wanted, 0)} ELSE {}
           whole == level /\ (paired => parent # Nothing)
       IN
        IF graphs = {} THEN UNCHANGED <<work, latest>>
        ELSE /\ \E new \in Taken(leaves \cup parents, Room) : Insert(new)
             /\ latest' = [a \in Artifact |->
                    IF \E g \in graphs : a = Leaf(g) THEN leaf[CHOOSE g \in graphs : a = Leaf(g)]
                    ELSE IF a[1] = "leaf" THEN Nothing
                    ELSE IF a = Parent(graphs) /\ paired THEN parent
                    ELSE IF a[1] = "parent" /\ whole THEN Nothing
                    ELSE latest[a]]
    /\ UNCHANGED <<generation, live, orphan, saved, returning, mishaps>> /\ Stays

-----------------------------------------------------------------------------
(* The sending.  A job whose dependency is not current when it is claimed  *)
(* or when it is answered ends obsolete.                                   *)

Ticking == step \in {"planned", "tick"}

Ends(j, state) ==
    /\ Ticking /\ j \in Active
    /\ work' = [work EXCEPT ![j] = state]
    /\ orphan' = orphan \ {j}
    /\ step' = "tick"
    /\ UNCHANGED <<generation, live, returning>> /\ Stays

Superseded(j) == ~DependenciesCurrent(j.dependency) \/ j.dependency.model # model

Obsolete(j) ==
    /\ Superseded(j) \/ ~ChildrenCurrent(j.dependency)
    /\ Ends(j, "obsolete")
    /\ UNCHANGED <<latest, saved, mishaps>>

Complete(j) ==
    /\ ~Superseded(j) /\ ChildrenCurrent(j.dependency)
    /\ Ends(j, "completed")
    /\ latest' = [latest EXCEPT ![j.artifact] = j]
    /\ saved' = saved \cup {j}
    /\ UNCHANGED mishaps

Fail(j, state) ==
    /\ ~Superseded(j)
    /\ Mishap
    /\ state \in {"failed", "refused"}
    /\ Ends(j, state)
    /\ UNCHANGED <<latest, saved>>

TickEnds ==
    /\ Ticking
    /\ step' \in {"scan", "model"}
    /\ UNCHANGED <<storeVars, returning, mishaps>> /\ Stays

-----------------------------------------------------------------------------
(* The process. *)

(* Dies between storing an answer with its job and making it a version. *)
AnswerUnsaved(j) ==
    /\ Ticking /\ ~Superseded(j) /\ ChildrenCurrent(j.dependency)
    /\ Mishap
    /\ work' = [work EXCEPT ![j] = "completed"]
    /\ orphan' \in {(orphan \ {j}) \cup others : others \in {{}} \cup {{i} : i \in Active \ {j}}}
    /\ step' = "gone"
    /\ UNCHANGED <<generation, live, latest, saved, returning>> /\ Stays

(* Dies, in a tick with jobs under lease. *)
PlannerDies ==
    /\ Mishap
    /\ step # "gone"
    /\ step' = "gone" /\ returning' = FALSE
    /\ orphan' \in {orphan} \cup (IF Ticking THEN {orphan \cup {j} : j \in Active} ELSE {})
    /\ UNCHANGED <<generation, live, work, latest, saved>> /\ Stays

(* The store is busy: this planning is given up, the next one starts over, *)
(* with a scan if it is time for one.                                      *)
StoreBusy ==
    /\ Mishap
    /\ step \in {"model", "recover", "retries", "extract", "links", "communities"}
    /\ step' \in {"scan", "model"} /\ returning' = FALSE
    /\ UNCHANGED storeVars /\ Stays

(* Ends between two ticks, to be started with another model. *)
Stop ==
    /\ Ticking /\ switches < MaxSwitches
    /\ step' = "gone"
    /\ UNCHANGED <<storeVars, returning, mishaps>> /\ Stays

(* Mutant: an answer that was not made a version is left to the job. *)
StartUnrecovered(m) ==
    /\ step = "gone"
    /\ m = model \/ switches < MaxSwitches
    /\ switches' = IF m = model THEN switches ELSE switches + 1
    /\ model' = m
    /\ returned' = (returned \/ m \in seen \ {configured})
    /\ step' = "scan"
    /\ UNCHANGED <<storeVars, configured, seen, returning, mishaps>>

(* What the model answered that is not a version yet is made one. *)
Start(m) ==
    /\ step = "gone"
    /\ m = model \/ switches < MaxSwitches
    /\ switches' = IF m = model THEN switches ELSE switches + 1
    /\ model' = m
    /\ returned' = (returned \/ m \in seen \ {configured})
    /\ RecoverProjections(m, Jobs \ saved)
    /\ step' = "scan"
    /\ UNCHANGED <<generation, live, work, orphan, configured, seen, returning, mishaps>>

PlanningNext ==
    \/ \E s \in Source : ScanChanges(s)
    \/ ScanFindsNothing \/ ReconcileSources
    \/ ConfigureModel \/ ReactivateResults \/ PlanRetries
    \/ PlanExtractions \/ PlanLinks \/ PlanCommunities
    \/ \E j \in Active : Obsolete(j) \/ Complete(j) \/ AnswerUnsaved(j)
    \/ \E j \in Active, state \in {"failed", "refused"} : Fail(j, state)
    \/ TickEnds \/ PlannerDies \/ StoreBusy \/ Stop
    \/ \E m \in Model : Start(m)

PlanningSpec == PlanningInit /\ [][PlanningNext]_planningVars

-----------------------------------------------------------------------------
(* The planning has come to its end with nothing to wait for. *)
AllPlanned == step = "planned" /\ Active = {} /\ Retryable = {}

Failed(a, d) == \E j \in Jobs : j.artifact = a /\ j.dependency = d /\ work[j] \in {"failed", "refused"}

UnitsCovered == \A s \in live : Selected(UnitGraph(s)) \/ Failed(UnitGraph(s), UnitDependency(s))
LinksCovered == \A s \in live \cap Linked : Selected(LinkGraph(s)) \/ Failed(LinkGraph(s), UnitDependency(s))
ReportsCovered ==
    LET graphs == {g \in Graphs : Selected(g)} IN
    /\ \A g \in graphs : Selected(Leaf(g)) \/ Failed(Leaf(g), LeafDependency(g))
    /\ ( /\ Cardinality(graphs) > 1 /\ \A g \in graphs : Selected(Leaf(g))
         /\ \A s \in live : UnitGraph(s) \in graphs ) =>
            \/ Selected(Parent(graphs))
            \/ Failed(Parent(graphs), Dependency(UNION {g[2] : g \in graphs},
                                                 {latest[Leaf(g)] : g \in graphs}))

(* Nothing is forgotten, whatever sources change, attempts fail, and where *)
(* the process dies: when nothing is left to do, what the configured model *)
(* is to give has been given or has failed for good.  Links only as long   *)
(* as one model was in use, the rest only until a model returns.           *)
NothingForgotten ==
    AllPlanned =>
        /\ ~returned => UnitsCovered /\ ReportsCovered
        /\ seen = {model} => LinksCovered

(* Work of one dependency is not done twice: one attempt is under way, and *)
(* none once an attempt has completed.                                     *)
OneAttempt ==
    \A i \in Active : \A j \in Jobs \ {i} :
        i.artifact = j.artifact /\ i.dependency = j.dependency => work[j] \in {"failed", "obsolete"}

(* A missing graph leaves no report of it to be searched: after a planning *)
(* that saw any graph, every leaf rests on a graph that can be selected.   *)
ReportsFollowGraphs ==
    step = "planned" /\ (\E g \in Graphs : Selected(g)) /\ Cardinality(Active) < Capacity =>
        \A g \in Graphs : Selected(Leaf(g)) \/ latest[Leaf(g)] = Nothing

PlanningInv == NothingForgotten /\ OneAttempt /\ ReportsFollowGraphs

(* "Bound the pending queue and gradually cover every active source unit." *)
EveryUnitCovered == AllPlanned => UnitsCovered
=============================================================================
