----------------------------- MODULE PlanningProofs -----------------------------
(***************************************************************************)
(* Proofs about what the coordinator plans: nothing is forgotten, done     *)
(* twice or left without what it rests on, for any sources, links, models, *)
(* capacity and retries, and any number of revisions, switches of the      *)
(* model, failed jobs, deaths and busy stores.                             *)
(*                                                                         *)
(* PlanningInv speaks of the end of a planning only.  PlanningIInv says    *)
(* why it holds there: jobs are made of saved versions of the same model;  *)
(* attempts follow each other without a gap, each after a failed one; work *)
(* of the configured model on sources as they are is never withdrawn and   *)
(* its results are the current ones, until a model returns; an answer is   *)
(* a version as long as the process lives, and one whose process died in   *)
(* between is by the time the next one plans; and what each step of the    *)
(* loop leaves for the next.                                               *)
(***************************************************************************)
EXTENDS GraphPlanning, FiniteSetTheorems, TLAPS

(* A job is made of what its artifact is about: a graph of one source, a   *)
(* leaf of one graph and its source, and nothing of less than its children *)
(* or of another model.                                                    *)
Shape(j) ==
    /\ j \in AnyJob
    /\ \A c \in j.dependency.children :
        /\ c.dependency.sources \subseteq j.dependency.sources
        /\ c.dependency.model = j.dependency.model
    /\ j \in GraphJob =>
        \E p \in j.dependency.sources : j.artifact[2] = {p[1]} /\ j.dependency.sources = {p}
    /\ j \in LeafJob =>
        \E c \in j.dependency.children :
                 /\ j.dependency.children = {c} /\ j.artifact = Leaf(c.artifact)
                 /\ c.dependency.sources = j.dependency.sources

(* Jobs of seen models only, of no later generation than the sources, and  *)
(* over saved versions.                                                    *)
JobsMade ==
    \A j \in Jobs :
        /\ Shape(j)
        /\ j.dependency.model \in seen
        /\ \A p \in j.dependency.sources : p[2] <= generation[p[1]]
        /\ j.dependency.children \subseteq saved

(* The type invariant. *)
PlanningTypeOK ==
    /\ generation \in [Source -> Nat] /\ live \subseteq Source
    /\ model \in Model /\ seen \subseteq Model /\ configured \in seen /\ returned \in BOOLEAN
    /\ IsFiniteSet(Jobs)
    /\ work \in [Jobs -> {"planned", "completed", "failed", "refused", "obsolete"}]
    /\ DOMAIN latest = Artifact

(* Versions are of completed jobs, and what is current is a version. *)
VersionsSaved ==
    /\ saved \subseteq {j \in Jobs : work[j] \in {"completed", "obsolete"}}
    /\ \A a \in Artifact : latest[a] # Nothing => latest[a] \in saved /\ latest[a].artifact = a

(* Attempts at the same work. *)
Alike(i, j) == i.artifact = j.artifact /\ i.dependency = j.dependency
(* Attempts follow each other without a gap, each after a failed one. *)
AttemptsInOrder ==
    /\ \A j \in Jobs : \A n \in 0 .. j.attempt : Attempt(j.artifact, j.dependency, n) \in Jobs
    /\ \A i, j \in Jobs : Alike(i, j) /\ i.attempt < j.attempt => work[i] \in {"failed", "obsolete"}

(* Work of the configured model on sources as they are. *)
Current(j) == j.dependency.model = configured /\ DependenciesCurrent(j.dependency)
(* Until a model returns, work of the configured model on sources as they  *)
(* are is not withdrawn, and a graph or leaf it gave is the current one.   *)
CurrentStands ==
    ~returned => \A j \in Jobs : Current(j) =>
        /\ work[j] # "obsolete"
        /\ j \in saved /\ j \in GraphJob \cup LeafJob => latest[j.artifact] = j

(* Until a model returns, an answer of the running model that is not a     *)
(* version, because the process died in between, is made one by the next.  *)
AnswersSaved ==
    ~returned /\ configured = model /\ step # "gone" =>
        \A j \in Jobs : Current(j) /\ work[j] = "completed" => j \in saved

(* What the steps of the loop have established. *)
StepsInOrder ==
    /\ step \in {"model", "recover", "retries", "extract", "links", "communities", "planned", "tick"} =>
        \A g \in Graphs : latest[g] # Nothing => DependenciesCurrent(latest[g].dependency)
    /\ step \in {"recover", "retries", "extract", "links", "communities", "planned", "tick"} =>
        configured = model
    /\ step = "recover" /\ ~returned => \A j \in Jobs : j.dependency.model # model
    /\ step # "gone" /\ ~returned => model = configured \/ model \notin seen
    /\ returned => \E m, n \in seen : m # n

(* What the planners have seen to, when nothing is under way. *)
WantedKnown ==
    /\ step \in {"links", "communities"} /\ Active = {} =>
        \A s \in live : Known(UnitGraph(s), UnitDependency(s))
    /\ step = "communities" /\ Active = {} =>
        \A s \in live \cap Linked :
            latest[LinkGraph(s)] # Nothing \/ Known(LinkGraph(s), UnitDependency(s))

(* And what has come of it at the end of the planning. *)
AllCovered ==
    step = "planned" /\ Active = {} =>
        /\ ~returned => UnitsCovered /\ ReportsCovered
        /\ seen = {model} => LinksCovered

(* The inductive invariant: what holds of the store, and of the loop. *)
StoreInOrder ==
    PlanningTypeOK /\ JobsMade /\ VersionsSaved /\ AttemptsInOrder /\ CurrentStands
PlanningIInv ==
    /\ StoreInOrder /\ AnswersSaved /\ StepsInOrder /\ WantedKnown /\ AllCovered /\ ReportsFollowGraphs

-----------------------------------------------------------------------------
(* Artifacts of the three kinds are distinct, and a leaf and a parent tell *)
(* what they are about.                                                    *)
LEMMA ArtifactKinds ==
    /\ \A a \in Graphs : a[1] \in {"unit", "link"}
    /\ \A a \in Leaves : a[1] = "leaf"
    /\ \A a \in Parents : a[1] = "parent"
    /\ \A g \in Graphs : Leaf(g) \in Leaves
    /\ \A g, h : Leaf(g) = Leaf(h) => g = h
    /\ \A G \in SUBSET Graphs : Parent(G) \in Parents
    /\ \A s \in Source : UnitGraph(s) \in Graphs
    /\ \A s \in Linked : LinkGraph(s) \in Graphs
    /\ \A s, t : UnitGraph(s) = UnitGraph(t) => s = t
    /\ \A s, t : LinkGraph(s) = LinkGraph(t) => s = t
    /\ \A g \in Graphs : \E s \in Source : g[2] = {s}
<1>1. \A g, h : Leaf(g) = Leaf(h) => g = h
  <2> SUFFICES ASSUME NEW g, NEW h, Leaf(g) = Leaf(h) PROVE g = h
    OBVIOUS
  <2>1. Leaf(g)[2] = {g} /\ Leaf(h)[2] = {h}
    BY DEF Leaf
  <2>2. {g} = {h}
    BY <2>1
  <2> QED BY <2>2
<1>2. \A s, t : UnitGraph(s) = UnitGraph(t) => s = t
  <2> SUFFICES ASSUME NEW s, NEW t, UnitGraph(s) = UnitGraph(t) PROVE s = t
    OBVIOUS
  <2>1. UnitGraph(s)[2] = {s} /\ UnitGraph(t)[2] = {t}
    BY DEF UnitGraph
  <2>2. {s} = {t}
    BY <2>1
  <2> QED BY <2>2
<1>3. \A s, t : LinkGraph(s) = LinkGraph(t) => s = t
  <2> SUFFICES ASSUME NEW s, NEW t, LinkGraph(s) = LinkGraph(t) PROVE s = t
    OBVIOUS
  <2>1. LinkGraph(s)[2] = {s} /\ LinkGraph(t)[2] = {t}
    BY DEF LinkGraph
  <2>2. {s} = {t}
    BY <2>1
  <2> QED BY <2>2
<1>4. \A g \in Graphs : g[1] \in {"unit", "link"} /\ \E s \in Source : g[2] = {s}
  BY GraphPlanningAssumption DEF Graphs, UnitGraph, LinkGraph
<1>5. \A a \in Leaves : a[1] = "leaf"
  BY DEF Leaves, Leaf
<1>6. \A a \in Parents : a[1] = "parent"
  BY DEF Parents, Parent
<1>7. \A g \in Graphs : Leaf(g) \in Leaves
  BY DEF Leaves
<1>8. \A G \in SUBSET Graphs : Parent(G) \in Parents
  BY DEF Parents
<1>9. /\ \A s \in Source : UnitGraph(s) \in Graphs
      /\ \A s \in Linked : LinkGraph(s) \in Graphs
  BY DEF Graphs
<1> QED BY <1>1, <1>2, <1>3, <1>4, <1>5, <1>6, <1>7, <1>8, <1>9

(* The image of a finite set, under a function. *)
LEMMA ImageIsFinite ==
    ASSUME NEW S, IsFiniteSet(S), NEW h
    PROVE  IsFiniteSet({h[x] : x \in S})
<1> DEFINE T == {h[x] : x \in S}
           g == [x \in S |-> h[x]]
<1>1. g \in Surjection(S, T)
  BY DEF Surjection
<1> QED BY <1>1, FS_Surjection

(* There are finitely many graphs. *)
LEMMA GraphsFinite == IsFiniteSet(Graphs)
<1> DEFINE hu == [s \in Source |-> UnitGraph(s)]
           hl == [s \in Linked |-> LinkGraph(s)]
<1>1. IsFiniteSet(Source) /\ IsFiniteSet(Linked)
  BY GraphPlanningAssumption, FS_Subset
<1>2. IsFiniteSet({hu[s] : s \in Source})
  <2> HIDE DEF hu
  <2> QED BY <1>1, ImageIsFinite
<1>3. IsFiniteSet({hl[s] : s \in Linked})
  <2> HIDE DEF hl
  <2> QED BY <1>1, ImageIsFinite
<1>4. {hu[s] : s \in Source} = {UnitGraph(s) : s \in Source}
  OBVIOUS
<1>5. {hl[s] : s \in Linked} = {LinkGraph(s) : s \in Linked}
  OBVIOUS
<1>6. \A S, T : IsFiniteSet(S) /\ IsFiniteSet(T) => IsFiniteSet(S \cup T)
  BY FS_Union
<1> HIDE DEF hu, hl
<1>7. IsFiniteSet({UnitGraph(s) : s \in Source}) /\ IsFiniteSet({LinkGraph(s) : s \in Linked})
  BY <1>2, <1>3, <1>4, <1>5
<1> QED BY <1>6, <1>7 DEF Graphs

(* What the fields of a job are, and that they tell it.                    *)
LEMMA JobFacts ==
    /\ \A j \in AnyJob :
        /\ j.artifact \in Artifact /\ j.attempt \in Nat
        /\ j.dependency.sources \subseteq Source \X Nat
        /\ j.dependency.children \subseteq GraphJob \cup LeafJob
        /\ j.dependency.model \in Model
        /\ j = Attempt(j.artifact, j.dependency, j.attempt)
        /\ j \in GraphJob <=> j.artifact \in Graphs
        /\ j \in LeafJob <=> j.artifact \in Leaves
        /\ j \in ParentJob <=> j.artifact \in Parents
    /\ \A j \in GraphJob : j.dependency.children = {}
    /\ \A j \in LeafJob : j.dependency.children \subseteq GraphJob
    /\ \A j \in ParentJob : j.dependency.children \subseteq LeafJob
<1>1. \A A, B : \A j \in JobsOver(A, B) :
        /\ j.artifact \in A /\ j.attempt \in Nat
        /\ j.dependency.sources \subseteq Source \X Nat
        /\ j.dependency.children \subseteq B
        /\ j.dependency.model \in Model
        /\ j = Attempt(j.artifact, j.dependency, j.attempt)
  BY DEF JobsOver, Attempt
<1>2. /\ \A j \in GraphJob : j \in JobsOver(Graphs, {})
      /\ \A j \in LeafJob : j \in JobsOver(Leaves, GraphJob)
      /\ \A j \in ParentJob : j \in JobsOver(Parents, LeafJob)
  BY DEF GraphJob, LeafJob, ParentJob
<1>3. \A a : /\ ~(a \in Graphs /\ a \in Leaves)
             /\ ~(a \in Graphs /\ a \in Parents)
             /\ ~(a \in Leaves /\ a \in Parents)
  <2> SUFFICES ASSUME NEW a PROVE /\ ~(a \in Graphs /\ a \in Leaves)
                                  /\ ~(a \in Graphs /\ a \in Parents)
                                  /\ ~(a \in Leaves /\ a \in Parents)
    OBVIOUS
  <2> QED BY ArtifactKinds
<1>4. \A j \in AnyJob : j \in GraphJob \/ j \in LeafJob \/ j \in ParentJob
  BY DEF AnyJob
<1>5. \A j \in GraphJob : /\ j.artifact \in Graphs
                          /\ j.dependency.children = {}
  BY <1>1, <1>2
<1>6. \A j \in LeafJob : /\ j.artifact \in Leaves
                         /\ j.dependency.children \subseteq GraphJob
  BY <1>1, <1>2
<1>7. \A j \in ParentJob : /\ j.artifact \in Parents
                           /\ j.dependency.children \subseteq LeafJob
  BY <1>1, <1>2
<1>8. SUFFICES ASSUME NEW j \in AnyJob
      PROVE  /\ j.artifact \in Artifact /\ j.attempt \in Nat
             /\ j.dependency.sources \subseteq Source \X Nat
             /\ j.dependency.children \subseteq GraphJob \cup LeafJob
             /\ j.dependency.model \in Model
             /\ j = Attempt(j.artifact, j.dependency, j.attempt)
             /\ j \in GraphJob <=> j.artifact \in Graphs
             /\ j \in LeafJob <=> j.artifact \in Leaves
             /\ j \in ParentJob <=> j.artifact \in Parents
  BY <1>5, <1>6, <1>7
<1>9. /\ j \in GraphJob <=> j.artifact \in Graphs
      /\ j \in LeafJob <=> j.artifact \in Leaves
      /\ j \in ParentJob <=> j.artifact \in Parents
  BY <1>3, <1>4, <1>5, <1>6, <1>7
<1>10. j.artifact \in Artifact
  BY <1>4, <1>5, <1>6, <1>7 DEF Artifact
<1>11. j.dependency.children \subseteq GraphJob \cup LeafJob
  BY <1>4, <1>5, <1>6, <1>7
<1>12. /\ j.attempt \in Nat
       /\ j.dependency.sources \subseteq Source \X Nat
       /\ j.dependency.model \in Model
       /\ j = Attempt(j.artifact, j.dependency, j.attempt)
  BY <1>1, <1>2, <1>4
<1> QED BY <1>9, <1>10, <1>11, <1>12

(* A later attempt has the shape of the first. *)
LEMMA AttemptShape ==
    ASSUME NEW j, Shape(j), NEW n \in Nat
    PROVE  Shape(Attempt(j.artifact, j.dependency, n))
<1> DEFINE k == Attempt(j.artifact, j.dependency, n)
<1>1. k.artifact = j.artifact /\ k.dependency = j.dependency
  BY DEF Attempt
<1>2. \A A, B : j \in JobsOver(A, B) => k \in JobsOver(A, B)
  BY DEF JobsOver, Attempt
<1>3. j \in AnyJob
  BY DEF Shape
<1>4. k \in AnyJob
  BY <1>2, <1>3 DEF AnyJob, GraphJob, LeafJob, ParentJob
<1>5. /\ k \in GraphJob <=> j \in GraphJob
      /\ k \in LeafJob <=> j \in LeafJob
  BY <1>1, <1>3, <1>4, JobFacts
<1> HIDE DEF k
<1>6. Shape(k)
  BY <1>1, <1>4, <1>5 DEF Shape
<1> QED BY <1>6 DEF k

(* What each kind of artifact rests on. *)
Below(a, b) == (a \in Leaves /\ b \in Graphs) \/ (a \in Parents /\ b \in Leaves)
RestsOn(a, models) ==
    /\ latest[a] # Nothing
    /\ DependenciesCurrent(latest[a].dependency) /\ latest[a].dependency.model \in models
    /\ \A c \in latest[a].dependency.children :
        latest[c.artifact] = c /\ Below(a, c.artifact) /\ c.artifact \in Resting(models)

(* The layers by which Resting is built add up to one condition. *)
LEMMA RestingLayers ==
    ASSUME NEW models, NEW a \in Artifact
    PROVE  a \in Resting(models) <=> RestsOn(a, models)
<1> DEFINE graphs == On(Graphs, {}, models)
           leaves == On(Leaves, graphs, models)
           parents == On(Parents, leaves, models)
<1>1. Resting(models) = graphs \cup leaves \cup parents
  BY DEF Resting
<1>2. graphs \subseteq Graphs /\ leaves \subseteq Leaves /\ parents \subseteq Parents
  BY DEF On
<1>3. \A b : /\ ~(b \in Graphs /\ b \in Leaves)
             /\ ~(b \in Graphs /\ b \in Parents)
             /\ ~(b \in Leaves /\ b \in Parents)
  <2> SUFFICES ASSUME NEW b PROVE /\ ~(b \in Graphs /\ b \in Leaves)
                                  /\ ~(b \in Graphs /\ b \in Parents)
                                  /\ ~(b \in Leaves /\ b \in Parents)
    OBVIOUS
  <2> QED BY ArtifactKinds
<1>4. \A b : /\ b \in Graphs => (b \in Resting(models) <=> b \in graphs)
             /\ b \in Leaves => (b \in Resting(models) <=> b \in leaves)
             /\ b \in Parents => (b \in Resting(models) <=> b \in parents)
  <2> HIDE DEF graphs, leaves, parents
  <2> QED BY <1>1, <1>2, <1>3
<1> DEFINE Base == /\ latest[a] # Nothing
                   /\ DependenciesCurrent(latest[a].dependency)
                   /\ latest[a].dependency.model \in models
<1>5. RestsOn(a, models) <=>
        /\ Base
        /\ \A c \in latest[a].dependency.children :
            latest[c.artifact] = c /\ Below(a, c.artifact) /\ c.artifact \in Resting(models)
  BY DEF RestsOn
<1>6. CASE a \in Graphs
  <2>1. a \in graphs <=> Base /\ \A c \in latest[a].dependency.children :
                                    latest[c.artifact] = c /\ c.artifact \in {}
    BY <1>6 DEF On
  <2>2. \A b : ~Below(a, b)
    BY <1>3, <1>6 DEF Below
  <2> HIDE DEF Base, graphs
  <2> QED BY <1>4, <1>5, <1>6, <2>1, <2>2
<1>7. CASE a \in Leaves
  <2>1. a \in leaves <=> Base /\ \A c \in latest[a].dependency.children :
                                    latest[c.artifact] = c /\ c.artifact \in graphs
    <3> HIDE DEF graphs
    <3> QED BY <1>7 DEF On
  <2>2. \A b : Below(a, b) <=> b \in Graphs
    BY <1>3, <1>7 DEF Below
  <2> HIDE DEF Base, graphs, leaves
  <2> QED BY <1>2, <1>4, <1>5, <1>7, <2>1, <2>2
<1>8. CASE a \in Parents
  <2>1. a \in parents <=> Base /\ \A c \in latest[a].dependency.children :
                                    latest[c.artifact] = c /\ c.artifact \in leaves
    <3> HIDE DEF leaves
    <3> QED BY <1>8 DEF On
  <2>2. \A b : Below(a, b) <=> b \in Leaves
    BY <1>3, <1>8 DEF Below
  <2> HIDE DEF Base, leaves, parents
  <2> QED BY <1>2, <1>4, <1>5, <1>8, <2>1, <2>2
<1> QED BY <1>6, <1>7, <1>8 DEF Artifact

(* What is saved was made, and what was made is an artifact's version. *)
LEMMA VersionFacts ==
    ASSUME PlanningTypeOK, JobsMade, VersionsSaved
    PROVE  /\ \A j \in Jobs : Shape(j) /\ j \in AnyJob /\ j # Nothing
           /\ \A j \in saved : j \in Jobs /\ work[j] \in {"completed", "obsolete"}
           /\ \A a \in Artifact : latest[a] # Nothing =>
                /\ latest[a] \in saved /\ latest[a] \in Jobs /\ latest[a] \in AnyJob
                /\ latest[a].artifact = a
                /\ latest[a] \in GraphJob <=> a \in Graphs
                /\ latest[a] \in LeafJob <=> a \in Leaves
<1>1. \A j \in Jobs : Shape(j) /\ j \in AnyJob /\ j # Nothing
  BY GraphPlanningAssumption DEF JobsMade, Shape
<1>2. \A j \in saved : j \in Jobs /\ work[j] \in {"completed", "obsolete"}
  BY DEF VersionsSaved
<1>3. \A a \in Artifact : latest[a] # Nothing => latest[a] \in saved /\ latest[a].artifact = a
  BY DEF VersionsSaved
<1> QED BY <1>1, <1>2, <1>3, JobFacts

(* The children of a current job are current as well. *)
LEMMA CurrentChildren ==
    ASSUME PlanningTypeOK, JobsMade, VersionsSaved, CurrentStands, ~returned,
           NEW j \in Jobs, Current(j)
    PROVE  \A c \in j.dependency.children :
            /\ c \in Jobs /\ Current(c) /\ c \in saved /\ latest[c.artifact] = c
            /\ c \in GraphJob \cup LeafJob
<1> SUFFICES ASSUME NEW c \in j.dependency.children
             PROVE  /\ c \in Jobs /\ Current(c) /\ c \in saved /\ latest[c.artifact] = c
                    /\ c \in GraphJob \cup LeafJob
  OBVIOUS
<1>1. Shape(j) /\ j \in AnyJob /\ c \in saved
  BY VersionFacts DEF JobsMade
<1>2. c \in Jobs
  BY <1>1, VersionFacts
<1>3. c \in GraphJob \cup LeafJob
  BY <1>1, JobFacts
<1>4. /\ c.dependency.sources \subseteq j.dependency.sources
      /\ c.dependency.model = j.dependency.model
  BY <1>1 DEF Shape
<1>5. Current(c)
  BY <1>4 DEF Current, DependenciesCurrent
<1>6. latest[c.artifact] = c
  BY <1>1, <1>2, <1>3, <1>5 DEF CurrentStands
<1> QED BY <1>1, <1>2, <1>3, <1>5, <1>6

(* So a current graph or leaf of the configured model that is there can be *)
(* selected, and reconciliation keeps it.                                  *)
LEMMA CurrentRests ==
    ASSUME PlanningTypeOK, JobsMade, VersionsSaved, CurrentStands, ~returned,
           NEW models, configured \in models,
           NEW j \in Jobs, Current(j), j \in saved, j \in GraphJob \cup LeafJob
    PROVE  latest[j.artifact] = j /\ j.artifact \in Resting(models)
<1>1. \A i \in Jobs : Current(i) /\ i \in saved /\ i \in GraphJob \cup LeafJob =>
          /\ i \in AnyJob /\ i # Nothing /\ i.artifact \in Artifact
          /\ latest[i.artifact] = i /\ DependenciesCurrent(i.dependency)
          /\ i.dependency.model \in models
  BY VersionFacts, JobFacts DEF CurrentStands, Current
<1>2. ASSUME NEW i \in Jobs, Current(i), i \in saved, i \in GraphJob
      PROVE  i.artifact \in Resting(models)
  <2>1. i.dependency.children = {}
    BY <1>2, JobFacts
  <2>2. RestsOn(i.artifact, models)
    BY <1>1, <1>2, <2>1 DEF RestsOn
  <2> QED BY <1>1, <1>2, <2>2, RestingLayers
<1>3. CASE j \in GraphJob
  BY <1>1, <1>2, <1>3
<1>4. CASE j \in LeafJob
  <2>1. /\ j \in AnyJob /\ j.artifact \in Leaves
        /\ \A c \in j.dependency.children : c \in GraphJob
    BY <1>1, <1>4, JobFacts
  <2>2. \A c \in j.dependency.children :
            c \in Jobs /\ Current(c) /\ c \in saved /\ latest[c.artifact] = c
    BY CurrentChildren
  <2>3. \A c \in j.dependency.children : c.artifact \in Resting(models) /\ c.artifact \in Graphs
    BY <1>1, <1>2, <2>1, <2>2, JobFacts
  <2>4. RestsOn(j.artifact, models)
    BY <1>1, <1>4, <2>1, <2>2, <2>3 DEF RestsOn, Below
  <2> QED BY <1>1, <1>4, <2>4, RestingLayers
<1> QED BY <1>3, <1>4

-----------------------------------------------------------------------------
(* What a planner may insert: work that is not known, over what is there,  *)
(* or the next attempt of what has failed.                                 *)
Plannable(k) ==
    /\ Shape(k) /\ k.dependency.model = model
    /\ \A p \in k.dependency.sources : p[2] <= generation[p[1]]
    /\ k.dependency.children \subseteq saved
    /\ \/ k.attempt = 0 /\ ~Known(k.artifact, k.dependency)
       \/ k \notin Jobs /\ \E i \in Jobs : Alike(i, k) /\ work[i] = "failed" /\ k.attempt = i.attempt + 1

(* Inserting it keeps the store in order. *)
LEMMA InsertStep ==
    ASSUME PlanningTypeOK, JobsMade, VersionsSaved, AttemptsInOrder, CurrentStands,
           configured = model,
           NEW new, IsFiniteSet(new), \A k \in new : Plannable(k),
           \A i, k \in new : Alike(i, k) => i = k,
           Insert(new), UNCHANGED <<generation, live, saved, modelVars>>,
           DOMAIN latest' = Artifact,
           \A a \in Artifact : latest'[a] # Nothing => latest'[a] \in saved /\ latest'[a].artifact = a,
           ~returned => \A j \in Jobs :
                Current(j) /\ j \in saved /\ j \in GraphJob \cup LeafJob => latest'[j.artifact] = j
    PROVE  /\ PlanningTypeOK' /\ JobsMade' /\ VersionsSaved' /\ AttemptsInOrder' /\ CurrentStands'
           /\ Jobs' = Jobs \cup new /\ Active' = Active \cup new /\ new \cap Jobs = {}
           /\ \A j \in Jobs : work'[j] = work[j]
<1> DEFINE States == {"planned", "completed", "failed", "refused", "obsolete"}
<1>1. /\ generation \in [Source -> Nat] /\ live \subseteq Source
      /\ model \in Model /\ seen \subseteq Model /\ configured \in seen /\ returned \in BOOLEAN
      /\ IsFiniteSet(Jobs) /\ work \in [Jobs -> States]
  BY DEF PlanningTypeOK
<1>2. /\ UNCHANGED <<generation, live, saved, configured, model, seen, returned>>
      /\ work' = [j \in Jobs \cup new |-> IF j \in Jobs THEN work[j] ELSE "planned"]
  BY DEF modelVars, Insert
<1>3. \A k \in new : k \notin Jobs
  <2> SUFFICES ASSUME NEW k \in new, k \in Jobs PROVE FALSE
    OBVIOUS
  <2>1. Known(k.artifact, k.dependency)
    BY DEF Known
  <2> QED BY <2>1 DEF Plannable
<1>4. /\ Jobs' = Jobs \cup new
      /\ \A j \in Jobs : work'[j] = work[j]
      /\ \A j \in new : work'[j] = "planned"
  BY <1>2, <1>3 DEF Jobs
<1>5. work' \in [Jobs' -> States]
  BY <1>1, <1>2, <1>4
<1>6. IsFiniteSet(Jobs')
  <2>1. \A S, T : IsFiniteSet(S) /\ IsFiniteSet(T) => IsFiniteSet(S \cup T)
    BY FS_Union
  <2> QED BY <1>1, <1>4, <2>1
<1>7. PlanningTypeOK'
  BY <1>1, <1>2, <1>5, <1>6 DEF PlanningTypeOK
<1>8. Active' = Active \cup new
  BY <1>3, <1>4 DEF Active
<1>9. /\ \A j \in Jobs : Shape(j) /\ j \in AnyJob
      /\ \A k \in new : Shape(k) /\ k \in AnyJob
  BY VersionFacts DEF Plannable, Shape
<1>10. JobsMade'
  <2> SUFFICES ASSUME NEW j \in Jobs \cup new
               PROVE  /\ Shape(j) /\ j.dependency.model \in seen
                      /\ \A p \in j.dependency.sources : p[2] <= generation[p[1]]
                      /\ j.dependency.children \subseteq saved
    BY <1>2, <1>4 DEF JobsMade
  <2>1. CASE j \in Jobs
    BY <2>1 DEF JobsMade
  <2>2. CASE j \in new
    BY <1>1, <2>2 DEF Plannable
  <2> QED BY <2>1, <2>2
<1>11. VersionsSaved'
  <2>1. saved \subseteq {j \in Jobs : work[j] \in {"completed", "obsolete"}}
    BY DEF VersionsSaved
  <2>2. saved \subseteq {j \in Jobs' : work'[j] \in {"completed", "obsolete"}}
    BY <1>4, <2>1
  <2> QED BY <1>2, <2>2 DEF VersionsSaved
<1>12. \A i, j : i \in AnyJob /\ j \in AnyJob /\ Alike(i, j) /\ i.attempt = j.attempt => i = j
  BY JobFacts DEF Alike
<1>13. \A j \in Jobs : \A n \in 0 .. j.attempt : Attempt(j.artifact, j.dependency, n) \in Jobs
  BY DEF AttemptsInOrder
<1>14. ASSUME NEW k \in new, NEW n \in 0 .. k.attempt
       PROVE  Attempt(k.artifact, k.dependency, n) \in Jobs \cup new
  <2>1. k.attempt \in Nat /\ k = Attempt(k.artifact, k.dependency, k.attempt)
    BY <1>9, JobFacts
  <2>2. CASE n = k.attempt
    BY <2>1, <2>2
  <2>3. CASE n # k.attempt
    <3>1. PICK i \in Jobs : Alike(i, k) /\ k.attempt = i.attempt + 1
      BY <2>1, <2>3 DEF Plannable
    <3>2. i.attempt \in Nat
      BY <1>9, JobFacts
    <3>3. n \in 0 .. i.attempt
      BY <2>1, <2>3, <3>1, <3>2
    <3> QED BY <1>13, <3>1, <3>3 DEF Alike
  <2> QED BY <2>2, <2>3
<1>15. ASSUME NEW i \in Jobs \cup new, NEW j \in Jobs \cup new, Alike(i, j), i.attempt < j.attempt
       PROVE  work'[i] \in {"failed", "obsolete"}
  <2>1. /\ i \in AnyJob /\ j \in AnyJob /\ i.attempt \in Nat /\ j.attempt \in Nat
        /\ i = Attempt(i.artifact, i.dependency, i.attempt)
    BY <1>9, JobFacts
  <2>2. CASE i \in Jobs /\ j \in Jobs
    BY <1>4, <1>15, <2>2 DEF AttemptsInOrder
  <2>3. CASE i \in Jobs /\ j \in new
    <3>1. PICK h \in Jobs : Alike(h, j) /\ work[h] = "failed" /\ j.attempt = h.attempt + 1
      BY <1>15, <2>1, <2>3 DEF Plannable
    <3>2. h \in AnyJob /\ h.attempt \in Nat /\ Alike(i, h)
      BY <1>9, <1>15, <3>1, JobFacts DEF Alike
    <3>3. CASE i.attempt = h.attempt
      BY <1>4, <1>12, <2>1, <2>3, <3>1, <3>2, <3>3
    <3>4. CASE i.attempt # h.attempt
      <4>1. i.attempt < h.attempt
        BY <1>15, <2>1, <3>1, <3>2, <3>4
      <4>2. work[i] \in {"failed", "obsolete"}
        BY <2>3, <3>2, <4>1 DEF AttemptsInOrder
      <4> QED BY <1>4, <2>3, <4>2
    <3> QED BY <3>3, <3>4
  <2>4. CASE i \in new /\ j \in Jobs
    <3>1. i.attempt \in 0 .. j.attempt
      BY <1>15, <2>1
    <3>2. Attempt(j.artifact, j.dependency, i.attempt) \in Jobs
      BY <1>13, <2>4, <3>1
    <3>3. i \in Jobs
      BY <1>15, <2>1, <3>2 DEF Alike
    <3> QED BY <1>3, <2>4, <3>3
  <2>5. CASE i \in new /\ j \in new
    BY <1>15, <2>1, <2>5
  <2> QED BY <2>2, <2>3, <2>4, <2>5
<1>16. AttemptsInOrder'
  BY <1>4, <1>13, <1>14, <1>15 DEF AttemptsInOrder
<1>17. CurrentStands'
  <2>3. \A j : Current(j)' <=> Current(j)
    BY <1>2 DEF Current, DependenciesCurrent
  <2> SUFFICES ASSUME ~returned, NEW j \in Jobs \cup new, Current(j)
               PROVE  /\ work'[j] # "obsolete"
                      /\ j \in saved /\ j \in GraphJob \cup LeafJob => latest'[j.artifact] = j
    BY <1>2, <1>4, <2>3 DEF CurrentStands
  <2>1. CASE j \in Jobs
    BY <1>4, <2>1 DEF CurrentStands
  <2>2. CASE j \in new
    BY <1>4, <2>2, VersionFacts
  <2> QED BY <2>1, <2>2
<1> QED BY <1>3, <1>4, <1>7, <1>8, <1>10, <1>11, <1>16, <1>17

(* The dependency of a current graph or leaf is the one planners want now. *)
LEMMA CurrentDependency ==
    ASSUME PlanningTypeOK, JobsMade, VersionsSaved, NEW j \in Jobs,
           DependenciesCurrent(j.dependency), ChildrenCurrent(j.dependency),
           j.dependency.model = model
    PROVE  /\ \A s : j \in GraphJob /\ j.artifact[2] = {s} => j.dependency = UnitDependency(s)
           /\ \A g : j \in LeafJob /\ j.artifact = Leaf(g) => j.dependency = LeafDependency(g)
<1>1. Shape(j) /\ j \in AnyJob /\ \A c \in j.dependency.children : Shape(c)
  BY VersionFacts DEF JobsMade
<1>2. j.dependency = [sources |-> j.dependency.sources, children |-> j.dependency.children,
                      model |-> j.dependency.model]
  BY <1>1 DEF AnyJob, GraphJob, LeafJob, ParentJob, JobsOver
<1>3. ASSUME NEW i, Shape(i), i \in GraphJob, DependenciesCurrent(i.dependency)
      PROVE  \E s \in Source : i.artifact[2] = {s} /\ i.dependency.sources = {<<s, generation[s]>>}
  <2>1. PICK p \in i.dependency.sources : i.artifact[2] = {p[1]} /\ i.dependency.sources = {p}
    BY <1>3 DEF Shape
  <2>2. p \in Source \X Nat
    BY <1>3, JobFacts DEF Shape
  <2>3. p = <<p[1], generation[p[1]]>> /\ p[1] \in Source
    BY <1>3, <2>1, <2>2 DEF DependenciesCurrent
  <2> QED BY <2>1, <2>3
<1>4. \A s : Dependency({s}, {}) = [sources |-> {<<s, generation[s]>>}, children |-> {}, model |-> model]
  BY DEF Dependency
<1>5. ASSUME NEW s, j \in GraphJob, j.artifact[2] = {s}
      PROVE  j.dependency = UnitDependency(s)
  <2>1. j.dependency.children = {}
    BY <1>5, JobFacts
  <2>2. j.dependency.sources = {<<s, generation[s]>>}
    BY <1>1, <1>3, <1>5
  <2> QED BY <1>2, <1>4, <2>1, <2>2 DEF UnitDependency
<1>6. ASSUME NEW g, j \in LeafJob, j.artifact = Leaf(g)
      PROVE  j.dependency = LeafDependency(g)
  <2>1. PICK c \in j.dependency.children :
            /\ j.dependency.children = {c} /\ j.artifact = Leaf(c.artifact)
            /\ c.dependency.sources = j.dependency.sources
    BY <1>1, <1>6 DEF Shape
  <2>2. c.artifact = g /\ latest[g] = c
    BY <1>6, <2>1, ArtifactKinds DEF ChildrenCurrent
  <2>3. c \in GraphJob /\ Shape(c) /\ DependenciesCurrent(c.dependency)
    BY <1>1, <1>6, <2>1, JobFacts DEF DependenciesCurrent
  <2>4. PICK s \in Source : g[2] = {s} /\ c.dependency.sources = {<<s, generation[s]>>}
    BY <1>3, <2>2, <2>3
  <2>5. Dependency(g[2], {latest[g]}) =
            [sources |-> {<<s, generation[s]>>}, children |-> {c}, model |-> model]
    BY <2>2, <2>4 DEF Dependency
  <2> QED BY <1>2, <2>1, <2>4, <2>5 DEF LeafDependency
<1> QED BY <1>5, <1>6

(* A graph, or a leaf over the same versions, is answered once. *)
LEMMA OneResult ==
    ASSUME PlanningTypeOK, JobsMade, VersionsSaved, AttemptsInOrder,
           NEW j \in Jobs, NEW k \in Jobs, j.artifact = k.artifact,
           j \in GraphJob \cup LeafJob, j.dependency.model = k.dependency.model,
           DependenciesCurrent(j.dependency), DependenciesCurrent(k.dependency),
           NEW L, \A c \in j.dependency.children : L[c.artifact] = c,
           \A c \in k.dependency.children : L[c.artifact] = c,
           work[j] \in {"planned", "completed"}, work[k] \in {"planned", "completed"}
    PROVE  j = k
<1>1. Shape(j) /\ j \in AnyJob /\ Shape(k) /\ k \in AnyJob
  BY VersionFacts
<1>2. /\ j \in GraphJob <=> k \in GraphJob
      /\ j \in LeafJob <=> k \in LeafJob
  BY <1>1, JobFacts
<1>3. /\ j.dependency = [sources |-> j.dependency.sources, children |-> j.dependency.children,
                         model |-> j.dependency.model]
      /\ k.dependency = [sources |-> k.dependency.sources, children |-> k.dependency.children,
                         model |-> k.dependency.model]
  BY <1>1 DEF AnyJob, GraphJob, LeafJob, ParentJob, JobsOver
<1>4. j.dependency.sources = k.dependency.sources /\ j.dependency.children = k.dependency.children
  <2>1. CASE j \in GraphJob
    <3>1. PICK p \in j.dependency.sources : j.artifact[2] = {p[1]} /\ j.dependency.sources = {p}
      BY <1>1, <2>1 DEF Shape
    <3>2. PICK q \in k.dependency.sources : k.artifact[2] = {q[1]} /\ k.dependency.sources = {q}
      BY <1>1, <1>2, <2>1 DEF Shape
    <3>3. p[1] = q[1] /\ p[2] = generation[p[1]] /\ q[2] = generation[q[1]]
      BY <3>1, <3>2 DEF DependenciesCurrent
    <3>4. p \in Source \X Nat /\ q \in Source \X Nat
      BY <1>1, JobFacts
    <3>5. p = q
      BY <3>3, <3>4
    <3>6. j.dependency.children = {} /\ k.dependency.children = {}
      BY <1>1, <1>2, <2>1, JobFacts
    <3> QED BY <3>1, <3>2, <3>5, <3>6
  <2>2. CASE j \in LeafJob
    <3>1. PICK c \in j.dependency.children :
              /\ j.dependency.children = {c} /\ j.artifact = Leaf(c.artifact)
              /\ c.dependency.sources = j.dependency.sources
      BY <1>1, <2>2 DEF Shape
    <3>2. PICK d \in k.dependency.children :
              /\ k.dependency.children = {d} /\ k.artifact = Leaf(d.artifact)
              /\ d.dependency.sources = k.dependency.sources
      BY <1>1, <1>2, <2>2 DEF Shape
    <3>3. c.artifact = d.artifact
      <4>1. \A g, h : Leaf(g) = Leaf(h) => g = h
        BY ArtifactKinds
      <4>2. Leaf(c.artifact) = Leaf(d.artifact)
        BY <3>1, <3>2
      <4> QED BY <4>1, <4>2
    <3>4. c = d
      BY <3>1, <3>2, <3>3
    <3> QED BY <3>1, <3>2, <3>4
  <2> QED BY <2>1, <2>2
<1>5. Alike(j, k) /\ Alike(k, j)
  BY <1>3, <1>4 DEF Alike
<1>6. ~(j.attempt < k.attempt) /\ ~(k.attempt < j.attempt)
  BY <1>5 DEF AttemptsInOrder
<1>7. j.attempt \in Nat /\ k.attempt \in Nat
  BY <1>1, JobFacts
<1>8. j.attempt = k.attempt
  BY <1>6, <1>7
<1> QED BY <1>1, <1>5, <1>8, JobFacts DEF Alike

(* The end of a job keeps the store in order, also if its answer is not a  *)
(* version yet.                                                            *)
LEMMA EndsStep ==
    ASSUME PlanningTypeOK, JobsMade, VersionsSaved, AttemptsInOrder, CurrentStands,
           configured = model,
           NEW j \in Active, NEW end \in {"completed", "failed", "refused", "obsolete"},
           work' = [work EXCEPT ![j] = end], UNCHANGED <<generation, live, modelVars>>,
           end = "completed" => ~Superseded(j) /\ ChildrenCurrent(j.dependency),
           \/ /\ end = "completed" /\ latest' = [latest EXCEPT ![j.artifact] = j]
              /\ saved' = saved \cup {j}
           \/ UNCHANGED <<latest, saved>>,
           end = "obsolete" => Superseded(j) \/ ~ChildrenCurrent(j.dependency)
    PROVE  PlanningTypeOK' /\ JobsMade' /\ VersionsSaved' /\ AttemptsInOrder' /\ CurrentStands'
<1> DEFINE States == {"planned", "completed", "failed", "refused", "obsolete"}
<1>1. /\ generation \in [Source -> Nat] /\ live \subseteq Source
      /\ model \in Model /\ seen \subseteq Model /\ configured \in seen /\ returned \in BOOLEAN
      /\ IsFiniteSet(Jobs) /\ work \in [Jobs -> States] /\ DOMAIN latest = Artifact
  BY DEF PlanningTypeOK
<1>2. UNCHANGED <<generation, live, configured, model, seen, returned>>
  BY DEF modelVars
<1>3. j \in Jobs /\ work[j] = "planned" /\ j \in AnyJob /\ j # Nothing /\ j.artifact \in Artifact
  BY VersionFacts, JobFacts DEF Active
<1>4. /\ Jobs' = Jobs /\ work' \in [Jobs -> States] /\ work'[j] = end
      /\ \A k \in Jobs : k # j => work'[k] = work[k]
  BY <1>1, <1>3 DEF Jobs
<1>5. DOMAIN latest' = Artifact
  BY <1>1
<1>6. PlanningTypeOK'
  BY <1>1, <1>2, <1>4, <1>5 DEF PlanningTypeOK
<1>7. saved \subseteq saved'
  BY <1>1
<1>8. JobsMade'
  BY <1>2, <1>4, <1>7 DEF JobsMade
<1>9. /\ saved \subseteq {k \in Jobs : work[k] \in {"completed", "obsolete"}}
      /\ \A a \in Artifact : latest[a] # Nothing => latest[a] \in saved /\ latest[a].artifact = a
  BY DEF VersionsSaved
<1>13. j \notin saved
  BY <1>3, <1>9
<1> DEFINE Saves == /\ end = "completed" /\ latest' = [latest EXCEPT ![j.artifact] = j]
                    /\ saved' = saved \cup {j}
<1>10. VersionsSaved'
  <2>1. CASE Saves
    <3>1. \A a \in Artifact : latest'[a] = IF a = j.artifact THEN j ELSE latest[a]
      BY <1>1, <2>1
    <3>2. saved' = saved \cup {j}
      BY <2>1
    <3>3. \A a \in Artifact : latest'[a] # Nothing => latest'[a] \in saved' /\ latest'[a].artifact = a
      BY <1>9, <3>1, <3>2
    <3>4. saved' \subseteq {k \in Jobs : work'[k] \in {"completed", "obsolete"}}
      BY <1>3, <1>4, <1>9, <2>1, <3>2
    <3> QED BY <1>4, <3>3, <3>4 DEF VersionsSaved
  <2>2. CASE UNCHANGED <<latest, saved>>
    <3>1. saved' \subseteq {k \in Jobs : work'[k] \in {"completed", "obsolete"}}
      BY <1>3, <1>4, <1>9, <2>2
    <3> QED BY <1>4, <1>9, <2>2, <3>1 DEF VersionsSaved
  <2> QED BY <2>1, <2>2
<1>11. AttemptsInOrder'
  <2>1. \A i, k \in Jobs : Alike(i, k) /\ i.attempt < k.attempt => i # j /\ work'[i] \in {"failed", "obsolete"}
    BY <1>3, <1>4 DEF AttemptsInOrder
  <2> QED BY <1>4, <2>1 DEF AttemptsInOrder
<1>12. CurrentStands'
  <2> SUFFICES ASSUME ~returned, NEW k \in Jobs, Current(k)
               PROVE  /\ work'[k] # "obsolete"
                      /\ k \in saved' /\ k \in GraphJob \cup LeafJob => latest'[k.artifact] = k
    BY <1>2, <1>4 DEF CurrentStands, Current, DependenciesCurrent
  <2>1. /\ work[k] # "obsolete"
        /\ k \in saved /\ k \in GraphJob \cup LeafJob => latest[k.artifact] = k
    BY DEF CurrentStands
  <2>2. ChildrenCurrent(k.dependency)
    BY CurrentChildren DEF ChildrenCurrent
  <2>3. k.dependency.model = model /\ DependenciesCurrent(k.dependency)
    BY DEF Current
  <2>4. work'[k] # "obsolete"
    BY <1>3, <1>4, <2>1, <2>2, <2>3 DEF Superseded
  <2>5. CASE UNCHANGED <<latest, saved>>
    BY <2>1, <2>4, <2>5
  <2>6. CASE Saves
    <3> SUFFICES ASSUME k \in saved', k \in GraphJob \cup LeafJob
                 PROVE  latest'[k.artifact] = k
      BY <2>4
    <3>1. \A a \in Artifact : latest'[a] = IF a = j.artifact THEN j ELSE latest[a]
      BY <1>1, <2>6
    <3>2. k \in AnyJob /\ k.artifact \in Artifact
      BY VersionFacts, JobFacts
    <3>3. CASE k = j
      BY <1>3, <3>1, <3>3
    <3>4. CASE k # j
      <4>1. k \in saved /\ work[k] = "completed" /\ latest[k.artifact] = k
        BY <1>9, <2>1, <2>6, <3>4
      <4>2. ASSUME k.artifact = j.artifact PROVE FALSE
        <5>1. /\ DependenciesCurrent(j.dependency) /\ j.dependency.model = model
              /\ \A c \in j.dependency.children : latest[c.artifact] = c
          BY <2>6 DEF Superseded, ChildrenCurrent
        <5>2. k = j
          BY <1>3, <2>2, <2>3, <4>1, <4>2, <5>1, OneResult DEF ChildrenCurrent
        <5> QED BY <3>4, <5>2
      <4> QED BY <3>1, <3>2, <4>1, <4>2
    <3> QED BY <3>3, <3>4
  <2> QED BY <2>5, <2>6
<1> QED BY <1>6, <1>8, <1>10, <1>11, <1>12

-----------------------------------------------------------------------------
(* What holds of the last steps of a planning says nothing elsewhere. *)
LEMMA Elsewhere ==
    ASSUME step' \notin {"links", "communities", "planned"}
    PROVE  WantedKnown' /\ AllCovered' /\ ReportsFollowGraphs'
BY DEF WantedKnown, AllCovered, ReportsFollowGraphs

(* Answers that become versions at once, or whose process dies, owe nothing. *)
LEMMA AnswersKept ==
    ASSUME AnswersSaved, step # "gone" \/ step' = "gone",
           UNCHANGED <<configured, model, returned>>, saved \subseteq saved',
           \A j \in Jobs' : work'[j] = "completed" =>
                (j \in Jobs /\ work[j] = "completed") \/ j \in saved' \/ step' = "gone",
           \A j \in Jobs : DependenciesCurrent(j.dependency)' => DependenciesCurrent(j.dependency)
    PROVE  AnswersSaved'
BY DEF AnswersSaved, Current

(* Nor does planned work. *)
LEMMA AnswersPlanned ==
    ASSUME AnswersSaved, step # "gone", NEW new, Insert(new),
           UNCHANGED <<generation, live, saved, modelVars>>
    PROVE  AnswersSaved'
<1>1. Jobs' = Jobs \cup new
  BY DEF Insert, Jobs
<1>2. \A j \in Jobs' : work'[j] = IF j \in Jobs THEN work[j] ELSE "planned"
  BY <1>1 DEF Insert
<1>3. \A d : DependenciesCurrent(d)' <=> DependenciesCurrent(d)
  BY DEF DependenciesCurrent
<1>4. UNCHANGED <<configured, model, returned>>
  BY DEF modelVars
<1> QED BY <1>1, <1>2, <1>3, <1>4, AnswersKept

(* Between planning and sending, graphs change to current ones only. *)
LEMMA StepsKept ==
    ASSUME StepsInOrder,
           step \in {"retries", "extract", "links", "communities", "planned", "tick"},
           step' \in {"retries", "extract", "links", "communities", "planned", "tick"},
           UNCHANGED <<generation, live, modelVars>>,
           \A g \in Graphs : \/ latest'[g] = latest[g]
                             \/ DependenciesCurrent(latest'[g].dependency)
    PROVE  StepsInOrder'
<1>1. UNCHANGED <<generation, live, configured, model, seen, returned>>
  BY DEF modelVars
<1>2. \A g \in Graphs : latest[g] # Nothing => DependenciesCurrent(latest[g].dependency)
  BY DEF StepsInOrder
<1>3. \A g \in Graphs : latest'[g] # Nothing => DependenciesCurrent(latest'[g].dependency)
  BY <1>2
<1>4. configured = model /\ (returned => \E m, n \in seen : m # n)
  BY DEF StepsInOrder
<1>5. \A d : DependenciesCurrent(d)' <=> DependenciesCurrent(d)
  BY <1>1 DEF DependenciesCurrent
<1> QED BY <1>1, <1>3, <1>4, <1>5 DEF StepsInOrder

(* A step of the loop that leaves the store alone. *)
LEMMA IdleStep ==
    ASSUME PlanningIInv,
           UNCHANGED <<generation, live, work, latest, saved, configured, model, seen, returned>>,
           step' \in {"scan", "reconcile", "model", "gone"}, step # "gone" \/ step' = "gone",
           step' = "model" =>
                step \in {"model", "recover", "retries", "extract", "links", "communities", "planned", "tick"}
    PROVE  PlanningIInv'
<1>1. WantedKnown' /\ AllCovered' /\ ReportsFollowGraphs'
  BY Elsewhere
<1>2. StepsInOrder'
  <2>1. StepsInOrder
    BY DEF PlanningIInv
  <2>2. \A d : DependenciesCurrent(d)' <=> DependenciesCurrent(d)
    BY DEF DependenciesCurrent
  <2>3. step' = "model" =>
          \A g \in Graphs : latest[g] # Nothing => DependenciesCurrent(latest[g].dependency)
    BY <2>1 DEF StepsInOrder
  <2> QED BY <2>1, <2>2, <2>3 DEF StepsInOrder
<1>3. PlanningTypeOK'
  BY DEF PlanningIInv, StoreInOrder, PlanningTypeOK, Jobs
<1>4. JobsMade' /\ VersionsSaved' /\ AttemptsInOrder'
  BY DEF PlanningIInv, StoreInOrder, JobsMade, VersionsSaved, AttemptsInOrder, Jobs
<1>5. CurrentStands'
  BY DEF PlanningIInv, StoreInOrder, CurrentStands, Current, DependenciesCurrent, Jobs
<1>6. AnswersSaved'
  BY DEF PlanningIInv, AnswersSaved, Current, DependenciesCurrent, Jobs
<1> QED BY <1>1, <1>2, <1>3, <1>4, <1>5, <1>6 DEF PlanningIInv, StoreInOrder

(* A scan: what is current afterwards was current before. *)
LEMMA ScanStep ==
    ASSUME PlanningIInv, NEW s \in Source, ScanChanges(s)
    PROVE  PlanningIInv'
<1>1. PlanningTypeOK /\ JobsMade /\ VersionsSaved /\ AttemptsInOrder /\ CurrentStands /\ StepsInOrder
  BY DEF PlanningIInv, StoreInOrder
<1>2. /\ generation' = [generation EXCEPT ![s] = generation[s] + 1]
      /\ live' \in {live \cup {s}, live \ {s}} /\ step' = "reconcile"
      /\ UNCHANGED <<work, latest, saved, configured, model, seen, returned>>
  BY DEF ScanChanges, Stays, modelVars
<1>3. /\ generation \in [Source -> Nat] /\ live \subseteq Source
      /\ generation[s] \in Nat
  BY <1>1 DEF PlanningTypeOK
<1>4. /\ \A t \in Source : generation'[t] = IF t = s THEN generation[s] + 1 ELSE generation[t]
      /\ generation' \in [Source -> Nat] /\ live' \subseteq Source
      /\ \A t \in Source : t # s => (t \in live' <=> t \in live)
  BY <1>2, <1>3
<1>5. PlanningTypeOK'
  BY <1>1, <1>2, <1>4 DEF PlanningTypeOK, Jobs
<1>6. Jobs' = Jobs
  BY <1>2 DEF Jobs
<1>7. \A j \in Jobs : j.dependency.sources \subseteq Source \X Nat
  BY <1>1, VersionFacts, JobFacts
<1>8. \A j \in Jobs : \A p \in j.dependency.sources :
            p[1] \in Source /\ p[2] \in Nat /\ p[2] <= generation[p[1]]
  BY <1>1, <1>7 DEF JobsMade
<1>9. \A j \in Jobs : \A p \in j.dependency.sources : p[2] <= generation'[p[1]]
  BY <1>3, <1>4, <1>8
<1>10. JobsMade'
  BY <1>1, <1>2, <1>6, <1>9 DEF JobsMade
<1>11. VersionsSaved' /\ AttemptsInOrder'
  BY <1>1, <1>2, <1>6 DEF VersionsSaved, AttemptsInOrder
<1>12. ASSUME NEW j \in Jobs, DependenciesCurrent(j.dependency)'
       PROVE  DependenciesCurrent(j.dependency)
  <2>1. \A p \in j.dependency.sources : p[1] \in live' /\ generation'[p[1]] = p[2]
    BY <1>12 DEF DependenciesCurrent
  <2> SUFFICES ASSUME NEW p \in j.dependency.sources
               PROVE  p[1] \in live /\ generation[p[1]] = p[2]
    BY DEF DependenciesCurrent
  <2>2. p[1] # s
    BY <1>3, <1>4, <1>8, <2>1
  <2> QED BY <1>4, <1>8, <2>1, <2>2
<1>13. CurrentStands'
  BY <1>1, <1>2, <1>6, <1>12 DEF CurrentStands, Current
<1>14. StepsInOrder'
  BY <1>1, <1>2 DEF StepsInOrder, ScanChanges
<1>15. WantedKnown' /\ AllCovered' /\ ReportsFollowGraphs'
  BY <1>2, Elsewhere
<1>16. AnswersSaved'
  <2>1. AnswersSaved /\ step = "scan"
    BY DEF PlanningIInv, ScanChanges
  <2> QED BY <1>2, <1>6, <1>12, <2>1, AnswersKept
<1> QED BY <1>5, <1>10, <1>11, <1>13, <1>14, <1>15, <1>16 DEF PlanningIInv, StoreInOrder

(* Reconciliation keeps what is current. *)
LEMMA ReconcileStep ==
    ASSUME PlanningIInv, ReconcileSources
    PROVE  PlanningIInv'
<1> DEFINE Keeps(j) == \/ j \in orphan
                      \/ /\ DependenciesCurrent(j.dependency)
                         /\ \A c \in j.dependency.children : latest'[c.artifact] = c
<1>1. PlanningTypeOK /\ JobsMade /\ VersionsSaved /\ AttemptsInOrder /\ CurrentStands /\ StepsInOrder
  BY DEF PlanningIInv, StoreInOrder
<1>2. /\ latest' = [a \in Artifact |-> IF a \in Resting(Model) THEN latest[a] ELSE Nothing]
      /\ work' = [j \in Jobs |-> IF Keeps(j) THEN work[j] ELSE "obsolete"]
      /\ step' = "model"
      /\ UNCHANGED <<generation, live, saved, configured, model, seen, returned>>
  BY DEF ReconcileSources, Stays, modelVars, Rests
<1>3. /\ configured \in Model /\ IsFiniteSet(Jobs)
      /\ work \in [Jobs -> {"planned", "completed", "failed", "refused", "obsolete"}]
  BY <1>1 DEF PlanningTypeOK
<1>4. /\ Jobs' = Jobs
      /\ \A j \in Jobs : work'[j] = work[j] \/ work'[j] = "obsolete"
      /\ \A j \in Jobs : Keeps(j) => work'[j] = work[j]
      /\ work' \in [Jobs -> {"planned", "completed", "failed", "refused", "obsolete"}]
  <2> HIDE DEF Keeps
  <2> QED BY <1>2, <1>3 DEF Jobs
<1>5. /\ DOMAIN latest' = Artifact
      /\ \A a \in Artifact : latest'[a] = IF a \in Resting(Model) THEN latest[a] ELSE Nothing
  BY <1>2
<1>6. PlanningTypeOK'
  BY <1>1, <1>2, <1>4, <1>5 DEF PlanningTypeOK
<1>7. JobsMade'
  BY <1>1, <1>2, <1>4 DEF JobsMade
<1>8. VersionsSaved'
  <2>1. /\ saved \subseteq {j \in Jobs : work[j] \in {"completed", "obsolete"}}
        /\ \A a \in Artifact : latest[a] # Nothing => latest[a] \in saved /\ latest[a].artifact = a
    BY <1>1 DEF VersionsSaved
  <2>2. saved \subseteq {j \in Jobs : work'[j] \in {"completed", "obsolete"}}
    BY <1>4, <2>1
  <2>3. \A a \in Artifact : latest'[a] # Nothing => latest'[a] \in saved /\ latest'[a].artifact = a
    BY <1>5, <2>1
  <2> QED BY <1>2, <1>4, <2>2, <2>3 DEF VersionsSaved
<1>9. AttemptsInOrder'
  BY <1>1, <1>4 DEF AttemptsInOrder
<1>10. CurrentStands'
  <2> SUFFICES ASSUME ~returned, NEW j \in Jobs, Current(j)
               PROVE  /\ work'[j] # "obsolete"
                      /\ j \in saved /\ j \in GraphJob \cup LeafJob => latest'[j.artifact] = j
    BY <1>2, <1>4 DEF CurrentStands, Current, DependenciesCurrent
  <2>1. work[j] # "obsolete"
    BY <1>1 DEF CurrentStands
  <2>2. ASSUME NEW c \in j.dependency.children PROVE latest'[c.artifact] = c
    <3>1. c \in Jobs /\ Current(c) /\ c \in saved /\ c \in GraphJob \cup LeafJob
      BY <1>1, CurrentChildren
    <3>2. latest[c.artifact] = c /\ c.artifact \in Resting(Model)
      BY <1>1, <1>3, <3>1, CurrentRests
    <3>3. c.artifact \in Artifact
      BY <1>1, <3>1, VersionFacts, JobFacts
    <3> QED BY <1>5, <3>2, <3>3
  <2>3. work'[j] = work[j]
    <3>1. Keeps(j)
      BY <2>2 DEF Current
    <3> HIDE DEF Keeps
    <3> QED BY <1>4, <3>1
  <2>4. ASSUME j \in saved, j \in GraphJob \cup LeafJob PROVE latest'[j.artifact] = j
    <3>1. latest[j.artifact] = j /\ j.artifact \in Resting(Model)
      BY <1>1, <1>3, <2>4, CurrentRests
    <3>2. j.artifact \in Artifact
      BY <1>1, VersionFacts, JobFacts
    <3> QED BY <1>5, <3>1, <3>2
  <2> QED BY <2>1, <2>3, <2>4
<1>11. StepsInOrder'
  <2>1. ASSUME NEW g \in Graphs, latest'[g] # Nothing PROVE DependenciesCurrent(latest'[g].dependency)
    <3>1. g \in Artifact
      BY DEF Artifact
    <3>2. g \in Resting(Model) /\ latest'[g] = latest[g]
      BY <1>5, <2>1, <3>1
    <3> QED BY <3>1, <3>2, RestingLayers DEF RestsOn
  <2>2. /\ returned => \E m, n \in seen : m # n
        /\ ~returned => model = configured \/ model \notin seen
    BY <1>1 DEF StepsInOrder, ReconcileSources
  <2> QED BY <1>2, <2>1, <2>2 DEF StepsInOrder, DependenciesCurrent
<1>13. AnswersSaved'
  <2>1. AnswersSaved /\ step = "reconcile"
    BY DEF PlanningIInv, ReconcileSources
  <2>2. \A j \in Jobs : DependenciesCurrent(j.dependency)' <=> DependenciesCurrent(j.dependency)
    BY <1>2 DEF DependenciesCurrent
  <2>3. \A j \in Jobs' : work'[j] = "completed" => j \in Jobs /\ work[j] = "completed"
    BY <1>4
  <2> QED BY <1>2, <2>1, <2>2, <2>3, AnswersKept
<1>12. WantedKnown' /\ AllCovered' /\ ReportsFollowGraphs'
  BY <1>2, Elsewhere
<1> QED BY <1>6, <1>7, <1>8, <1>9, <1>10, <1>11, <1>12, <1>13 DEF PlanningIInv, StoreInOrder

(* A model that was never configured has no jobs. *)
LEMMA ConfigureStep ==
    ASSUME PlanningIInv, ConfigureModel
    PROVE  PlanningIInv'
<1>1. PlanningTypeOK /\ JobsMade /\ VersionsSaved /\ AttemptsInOrder /\ CurrentStands /\ StepsInOrder
  BY DEF PlanningIInv, StoreInOrder
<1>2. /\ step = "model" /\ configured' = model
      /\ seen' = seen \cup {model}
      /\ step' = IF configured # model THEN "recover" ELSE "retries"
      /\ UNCHANGED <<generation, live, work, latest, saved, model, returned>>
  BY DEF ConfigureModel, storeVars
<1>3. model \in Model /\ seen \subseteq Model /\ configured \in seen /\ returned \in BOOLEAN
  BY <1>1 DEF PlanningTypeOK
<1>4. Jobs' = Jobs
  BY <1>2 DEF Jobs
<1>5. PlanningTypeOK'
  BY <1>1, <1>2, <1>3, <1>4 DEF PlanningTypeOK
<1>6. JobsMade'
  BY <1>1, <1>2, <1>4 DEF JobsMade
<1>7. VersionsSaved' /\ AttemptsInOrder'
  BY <1>1, <1>2, <1>4 DEF VersionsSaved, AttemptsInOrder
<1>8. model \notin seen => \A j \in Jobs : j.dependency.model # model
  BY <1>1 DEF JobsMade
<1>12. ASSUME ~returned, NEW j \in Jobs, Current(j)' PROVE configured = model /\ Current(j)
  <2>1. j.dependency.model = model /\ DependenciesCurrent(j.dependency)
    BY <1>2, <1>12 DEF Current, DependenciesCurrent
  <2>2. model = configured \/ model \notin seen
    BY <1>1, <1>2, <1>12 DEF StepsInOrder
  <2> QED BY <1>8, <2>1, <2>2 DEF Current
<1>9. CurrentStands'
  BY <1>1, <1>2, <1>4, <1>12 DEF CurrentStands
<1>13. AnswersSaved'
  <2>1. AnswersSaved
    BY DEF PlanningIInv
  <2> QED BY <1>2, <1>4, <1>12, <2>1 DEF AnswersSaved
<1>10. StepsInOrder'
  <2>1. \A g \in Graphs : latest[g] # Nothing => DependenciesCurrent(latest[g].dependency)
    BY <1>1, <1>2 DEF StepsInOrder
  <2>2. returned' => \E m, n \in seen' : m # n
    BY <1>1, <1>2, <1>3 DEF StepsInOrder
  <2>3. step' = "recover" /\ ~returned' => \A j \in Jobs : j.dependency.model # model
    BY <1>1, <1>2, <1>8 DEF StepsInOrder
  <2> QED BY <1>2, <1>4, <2>1, <2>2, <2>3 DEF StepsInOrder, DependenciesCurrent
<1>11. WantedKnown' /\ AllCovered' /\ ReportsFollowGraphs'
  BY <1>2, Elsewhere
<1> QED BY <1>5, <1>6, <1>7, <1>9, <1>10, <1>11, <1>13 DEF PlanningIInv, StoreInOrder

(* What is recovered for an artifact is current, and becomes a version. *)
LEMMA ProjectionFacts ==
    ASSUME PlanningTypeOK, JobsMade, VersionsSaved, NEW m, NEW J, J \subseteq Jobs, RecoverProjections(m, J)
    PROVE  /\ DOMAIN latest' = Artifact
           /\ \A a \in Artifact : \/ latest'[a] = latest[a] /\ Cached(a, latest', m, J) = {}
                                  \/ latest'[a] \in Cached(a, latest', m, J)
           /\ saved' = saved \cup UNION {Cached(a, latest', m, J) : a \in Artifact}
<1> DEFINE graphs == MadeCurrent(latest, Graphs, m, J)
           leaves == MadeCurrent(graphs, Leaves, m, J)
<1>1. latest' = MadeCurrent(leaves, Parents, m, J)
  BY DEF RecoverProjections
<1>2. ASSUME NEW L, NEW A
      PROVE  /\ DOMAIN MadeCurrent(L, A, m, J) = Artifact
             /\ \A a \in Artifact \ A : MadeCurrent(L, A, m, J)[a] = L[a]
             /\ \A a \in Artifact \cap A :
                    \/ MadeCurrent(L, A, m, J)[a] = L[a] /\ Cached(a, L, m, J) = {}
                    \/ MadeCurrent(L, A, m, J)[a] \in Cached(a, L, m, J)
  <2>1. \A a : Cached(a, L, m, J) # {} => (CHOOSE j \in Cached(a, L, m, J) : TRUE) \in Cached(a, L, m, J)
    OBVIOUS
  <2> QED BY <2>1 DEF MadeCurrent
<1>3. \A a \in Artifact : /\ a \in Graphs => a \notin Leaves /\ a \notin Parents
                          /\ a \in Leaves => a \notin Parents
  BY ArtifactKinds
<1>4. \A a \in Artifact : /\ a \notin Graphs => graphs[a] = latest[a]
                          /\ a \notin Leaves => leaves[a] = graphs[a]
                          /\ a \notin Parents => latest'[a] = leaves[a]
  BY <1>1, <1>2
<1>5. \A j \in J : j \in AnyJob /\ j \in Jobs
  BY VersionFacts
<1>6. ASSUME NEW a \in Graphs, NEW L PROVE Cached(a, L, m, J) = Cached(a, latest', m, J)
  <2>1. \A j \in J : j.artifact = a => j.dependency.children = {}
    BY <1>5, JobFacts
  <2> QED BY <2>1 DEF Cached
<1>7. ASSUME NEW a \in Leaves PROVE Cached(a, graphs, m, J) = Cached(a, latest', m, J)
  <2>1. \A j \in J : j.artifact = a => \A c \in j.dependency.children : c \in GraphJob
    BY <1>5, JobFacts
  <2>2. \A c \in GraphJob : c.artifact \in Graphs /\ c.artifact \in Artifact
    BY JobFacts DEF Artifact, AnyJob
  <2>3. \A c \in GraphJob : latest'[c.artifact] = graphs[c.artifact]
    BY <1>3, <1>4, <2>2
  <2> HIDE DEF graphs
  <2> QED BY <2>1, <2>3 DEF Cached
<1>8. ASSUME NEW a \in Parents PROVE Cached(a, leaves, m, J) = Cached(a, latest', m, J)
  <2>1. \A j \in J : j.artifact = a => \A c \in j.dependency.children : c \in LeafJob
    BY <1>5, JobFacts
  <2>2. \A c \in LeafJob : c.artifact \in Leaves /\ c.artifact \in Artifact
    BY JobFacts DEF Artifact, AnyJob
  <2>3. \A c \in LeafJob : latest'[c.artifact] = leaves[c.artifact]
    BY <1>3, <1>4, <2>2
  <2> HIDE DEF leaves
  <2> QED BY <2>1, <2>3 DEF Cached
<1>9. ASSUME NEW a \in Artifact
      PROVE  \/ latest'[a] = latest[a] /\ Cached(a, latest', m, J) = {}
             \/ latest'[a] \in Cached(a, latest', m, J)
  <2>1. CASE a \in Graphs
    BY <1>2, <1>3, <1>4, <1>6, <2>1
  <2>2. CASE a \in Leaves
    <3>1. graphs[a] = latest[a] /\ latest'[a] = leaves[a]
      BY <1>3, <1>4, <2>2
    <3>2. \/ leaves[a] = graphs[a] /\ Cached(a, graphs, m, J) = {}
          \/ leaves[a] \in Cached(a, graphs, m, J)
      BY <1>2, <2>2
    <3> HIDE DEF graphs, leaves
    <3> QED BY <1>7, <2>2, <3>1, <3>2
  <2>3. CASE a \in Parents
    <3>1. leaves[a] = latest[a]
      BY <1>3, <1>4, <2>3
    <3>2. \/ latest'[a] = leaves[a] /\ Cached(a, leaves, m, J) = {}
          \/ latest'[a] \in Cached(a, leaves, m, J)
      BY <1>1, <1>2, <2>3
    <3> HIDE DEF graphs, leaves
    <3> QED BY <1>8, <2>3, <3>1, <3>2
  <2> QED BY <2>1, <2>2, <2>3 DEF Artifact
<1>10. DOMAIN latest' = Artifact
  BY <1>1, <1>2
<1> QED BY <1>9, <1>10 DEF RecoverProjections

(* Recovered or not, what is a version was made and is completed. *)
LEMMA ProjectionStep ==
    ASSUME PlanningTypeOK, JobsMade, VersionsSaved, AttemptsInOrder,
           NEW m, NEW J, J \subseteq Jobs, RecoverProjections(m, J),
           UNCHANGED <<generation, live, work, configured, seen>>
    PROVE  /\ Jobs' = Jobs /\ JobsMade' /\ VersionsSaved' /\ AttemptsInOrder' /\ saved \subseteq saved'
           /\ \A a : \A j \in Cached(a, latest', m, J) :
                /\ j \in J /\ j \in Jobs /\ j.artifact = a /\ work[j] = "completed" /\ j.dependency.model = m
                /\ DependenciesCurrent(j.dependency)
                /\ \A c \in j.dependency.children : latest'[c.artifact] = c
<1>1. /\ \A a \in Artifact : latest'[a] = latest[a] \/ latest'[a] \in Cached(a, latest', m, J)
      /\ saved' = saved \cup UNION {Cached(a, latest', m, J) : a \in Artifact}
  BY ProjectionFacts
<1>2. \A a : \A j \in Cached(a, latest', m, J) :
          /\ j \in J /\ j \in Jobs /\ j.artifact = a /\ work[j] = "completed" /\ j.dependency.model = m
          /\ DependenciesCurrent(j.dependency)
          /\ \A c \in j.dependency.children : latest'[c.artifact] = c
  BY DEF Cached
<1>3. Jobs' = Jobs
  BY DEF Jobs
<1>4. \A j \in saved' : j \in Jobs /\ work[j] \in {"completed", "obsolete"}
  BY <1>1, <1>2, VersionFacts
<1>5. ASSUME NEW a \in Artifact, latest'[a] # Nothing PROVE latest'[a] \in saved' /\ latest'[a].artifact = a
  BY <1>1, <1>2, <1>5, VersionFacts
<1>6. VersionsSaved'
  BY <1>3, <1>4, <1>5 DEF VersionsSaved
<1>7. JobsMade'
  BY <1>1, <1>3 DEF JobsMade
<1>8. AttemptsInOrder'
  BY <1>3 DEF AttemptsInOrder
<1> QED BY <1>1, <1>2, <1>3, <1>6, <1>7, <1>8

(* A version that is made current again was saved and is current. *)
LEMMA ReactivateStep ==
    ASSUME PlanningIInv, ReactivateResults
    PROVE  PlanningIInv'
<1>1. PlanningTypeOK /\ JobsMade /\ VersionsSaved /\ AttemptsInOrder /\ CurrentStands /\ StepsInOrder
  BY DEF PlanningIInv, StoreInOrder
<1>2. /\ step = "recover" /\ step' = "retries" /\ RecoverProjections(model, Jobs)
      /\ UNCHANGED <<generation, live, work, configured, model, seen, returned>>
  BY DEF ReactivateResults, Stays, modelVars
<1>3. /\ DOMAIN latest' = Artifact
      /\ \A a \in Artifact : latest'[a] = latest[a] \/ latest'[a] \in Cached(a, latest', model, Jobs)
      /\ saved' = saved \cup UNION {Cached(a, latest', model, Jobs) : a \in Artifact}
  BY <1>1, <1>2, ProjectionFacts
<1>4. /\ Jobs' = Jobs /\ JobsMade' /\ VersionsSaved' /\ AttemptsInOrder' /\ saved \subseteq saved'
      /\ \A a : \A j \in Cached(a, latest', model, Jobs) :
            j \in Jobs /\ j.dependency.model = model /\ DependenciesCurrent(j.dependency)
  BY <1>1, <1>2, ProjectionStep
<1>5. PlanningTypeOK'
  BY <1>1, <1>2, <1>3, <1>4 DEF PlanningTypeOK
<1>6. ~returned => saved' = saved /\ \A a \in Artifact : latest'[a] = latest[a]
  <2>1. ~returned => \A a : Cached(a, latest', model, Jobs) = {}
    BY <1>1, <1>2, <1>4 DEF StepsInOrder
  <2> QED BY <1>3, <2>1
<1>7. CurrentStands'
  <2> SUFFICES ASSUME ~returned, NEW j \in Jobs, Current(j)
               PROVE  /\ work[j] # "obsolete"
                      /\ j \in saved /\ j \in GraphJob \cup LeafJob => latest'[j.artifact] = j
    BY <1>2, <1>4, <1>6 DEF CurrentStands, Current, DependenciesCurrent
  <2>1. j.artifact \in Artifact
    BY <1>1, VersionFacts, JobFacts
  <2> QED BY <1>1, <1>6, <2>1 DEF CurrentStands
<1>8. AnswersSaved'
  <2>1. AnswersSaved
    BY DEF PlanningIInv
  <2> QED BY <1>2, <1>4, <2>1 DEF AnswersSaved, Current, DependenciesCurrent
<1>9. StepsInOrder'
  <2>1. ASSUME NEW g \in Graphs, latest'[g] # Nothing PROVE DependenciesCurrent(latest'[g].dependency)
    <3>1. g \in Artifact
      BY DEF Artifact
    <3>2. latest[g] # Nothing => DependenciesCurrent(latest[g].dependency)
      BY <1>1, <1>2 DEF StepsInOrder
    <3> QED BY <1>3, <1>4, <2>1, <3>1, <3>2
  <2>2. configured = model /\ (returned => \E m, n \in seen : m # n)
    BY <1>1, <1>2 DEF StepsInOrder
  <2> QED BY <1>2, <2>1, <2>2 DEF StepsInOrder, DependenciesCurrent
<1>10. WantedKnown' /\ AllCovered' /\ ReportsFollowGraphs'
  BY <1>2, Elsewhere
<1> QED BY <1>4, <1>5, <1>7, <1>8, <1>9, <1>10 DEF PlanningIInv, StoreInOrder

(* A process that is started makes versions of what its model answered     *)
(* last: of all of it, unless the model returns.                           *)
LEMMA StartStep ==
    ASSUME PlanningIInv, NEW m \in Model, Start(m)
    PROVE  PlanningIInv'
<1> DEFINE J == Jobs \ saved
<1>1. PlanningTypeOK /\ JobsMade /\ VersionsSaved /\ AttemptsInOrder /\ CurrentStands /\ StepsInOrder
  BY DEF PlanningIInv, StoreInOrder
<1>2. /\ step' = "scan" /\ model' = m /\ RecoverProjections(m, J)
      /\ returned' = (returned \/ m \in seen \ {configured})
      /\ UNCHANGED <<generation, live, work, configured, seen>>
  BY DEF Start
<1>3. J \subseteq Jobs
  OBVIOUS
<1> HIDE DEF J
<1>4. /\ DOMAIN latest' = Artifact
      /\ \A a \in Artifact : \/ latest'[a] = latest[a] /\ Cached(a, latest', m, J) = {}
                             \/ latest'[a] \in Cached(a, latest', m, J)
      /\ saved' = saved \cup UNION {Cached(a, latest', m, J) : a \in Artifact}
  BY <1>1, <1>2, <1>3, ProjectionFacts
<1>5. /\ Jobs' = Jobs /\ JobsMade' /\ VersionsSaved' /\ AttemptsInOrder' /\ saved \subseteq saved'
      /\ \A a : \A j \in Cached(a, latest', m, J) :
            /\ j \in J /\ j \in Jobs /\ j.artifact = a /\ work[j] = "completed" /\ j.dependency.model = m
            /\ DependenciesCurrent(j.dependency)
            /\ \A c \in j.dependency.children : latest'[c.artifact] = c
  BY <1>1, <1>2, <1>3, ProjectionStep
<1>6. PlanningTypeOK'
  BY <1>1, <1>2, <1>4, <1>5 DEF PlanningTypeOK
<1>7. \A j \in Jobs : j \in AnyJob /\ j.artifact \in Artifact /\ j.dependency.model \in seen
  BY <1>1, VersionFacts, JobFacts DEF JobsMade
\* Unless a model returns, what is recovered is of the configured one.
<1>8. ASSUME ~returned', NEW a, NEW k \in Cached(a, latest', m, J) PROVE m = configured /\ ~returned
  <2>1. k \in Jobs /\ k.dependency.model = m
    BY <1>5
  <2>2. k.dependency.model \in seen
    BY <1>7, <2>1
  <2> QED BY <1>2, <1>8, <2>1, <2>2
<1>9. ASSUME ~returned', NEW j \in Jobs, Current(j), j \in saved',
             j \in GraphJob \cup LeafJob, \A c \in j.dependency.children : latest'[c.artifact] = c
      PROVE  latest'[j.artifact] = j
  <2>1. j.artifact \in Artifact /\ ~returned /\ work[j] # "obsolete"
    BY <1>1, <1>2, <1>7, <1>9 DEF CurrentStands
  <2>2. CASE latest'[j.artifact] = latest[j.artifact] /\ Cached(j.artifact, latest', m, J) = {}
    <3>1. j \in saved
      BY <1>4, <1>5, <1>9, <2>2
    <3> QED BY <1>1, <1>9, <2>1, <2>2, <3>1 DEF CurrentStands
  <2>3. CASE latest'[j.artifact] \in Cached(j.artifact, latest', m, J)
    <3>1. PICK k \in Cached(j.artifact, latest', m, J) : k = latest'[j.artifact]
      BY <2>3
    <3>2. /\ k \in Jobs /\ k.artifact = j.artifact /\ work[k] = "completed" /\ k.dependency.model = configured
          /\ DependenciesCurrent(k.dependency) /\ \A c \in k.dependency.children : latest'[c.artifact] = c
      BY <1>5, <1>8, <1>9
    <3>3. work[j] = "completed"
      <4>1. j \in saved \/ work[j] = "completed"
        BY <1>4, <1>5, <1>9
      <4> QED BY <1>1, <2>1, <4>1, VersionFacts
    <3>4. j = k
      BY <1>1, <1>9, <3>2, <3>3, OneResult DEF Current
    <3> QED BY <3>1, <3>4
  <2> QED BY <1>4, <2>1, <2>2, <2>3
<1>10. ASSUME ~returned', NEW j \in Jobs, Current(j), NEW c \in j.dependency.children
       PROVE  latest'[c.artifact] = c
  <2>1. ~returned
    BY <1>2, <1>10
  <2>2. c \in Jobs /\ Current(c) /\ c \in saved' /\ c \in GraphJob \cup LeafJob
    BY <1>1, <1>5, <1>10, <2>1, CurrentChildren
  <2>3. ASSUME NEW d \in c.dependency.children PROVE latest'[d.artifact] = d
    <3>1. d \in Jobs /\ Current(d) /\ d \in saved' /\ d \in GraphJob
      BY <1>1, <1>5, <1>7, <2>1, <2>2, <2>3, CurrentChildren, JobFacts
    <3>2. d.dependency.children = {}
      BY <1>7, <3>1, JobFacts
    <3> QED BY <1>9, <1>10, <3>1, <3>2
  <2> QED BY <1>9, <1>10, <2>2, <2>3
<1>11. CurrentStands'
  <2>1. \A j \in Jobs : Current(j)' <=> Current(j)
    BY <1>2 DEF Current, DependenciesCurrent
  <2> SUFFICES ASSUME ~returned', NEW j \in Jobs, Current(j)
               PROVE  /\ work[j] # "obsolete"
                      /\ j \in saved' /\ j \in GraphJob \cup LeafJob => latest'[j.artifact] = j
    BY <1>2, <1>5, <2>1 DEF CurrentStands
  <2>2. work[j] # "obsolete"
    BY <1>1, <1>2 DEF CurrentStands
  <2> QED BY <1>9, <1>10, <2>2
<1>12. AnswersSaved'
  <2>1. \A j \in Jobs : Current(j)' <=> Current(j)
    BY <1>2 DEF Current, DependenciesCurrent
  <2> SUFFICES ASSUME ~returned', configured = m, NEW j \in Jobs, Current(j), work[j] = "completed"
               PROVE  j \in saved'
    BY <1>2, <1>5, <2>1 DEF AnswersSaved
  <2>2. CASE j \in saved
    BY <1>5, <2>2
  <2>3. CASE j \notin saved
    <3>1. \A c \in j.dependency.children : latest'[c.artifact] = c
      BY <1>10
    <3>2. j \in Cached(j.artifact, latest', m, J)
      BY <2>3, <3>1 DEF Cached, Current, J
    <3> QED BY <1>4, <1>7, <3>2
  <2> QED BY <2>2, <2>3
<1>13. StepsInOrder'
  <2>1. configured \in seen
    BY <1>1 DEF PlanningTypeOK
  <2> QED BY <1>1, <1>2, <2>1 DEF StepsInOrder
<1>14. WantedKnown' /\ AllCovered' /\ ReportsFollowGraphs'
  BY <1>2, Elsewhere
<1> QED BY <1>5, <1>6, <1>11, <1>12, <1>13, <1>14 DEF PlanningIInv, StoreInOrder

-----------------------------------------------------------------------------
(* A planner with room takes nothing only when it wants nothing. *)
LEMMA TakenFacts ==
    ASSUME NEW want, IsFiniteSet(want), NEW room \in Nat, NEW new \in Taken(want, room)
    PROVE  /\ new \subseteq want /\ IsFiniteSet(new)
           /\ room # 0 /\ new = {} => want = {}
<1>1. /\ new \in SUBSET want
      /\ Cardinality(new) = IF Cardinality(want) <= room THEN Cardinality(want) ELSE room
  BY DEF Taken
<1>2. IsFiniteSet(new)
  BY <1>1, FS_Subset
<1>3. Cardinality(want) \in Nat
  BY FS_CardinalityType
<1>4. ASSUME room # 0, new = {} PROVE want = {}
  <2>1. Cardinality(want) = 0
    BY <1>1, <1>3, <1>4, FS_EmptySet
  <2> QED BY <2>1, FS_EmptySet
<1> QED BY <1>1, <1>2, <1>4

(* A planner has room as long as nothing is under way. *)
LEMMA RoomFacts ==
    ASSUME PlanningTypeOK
    PROVE  /\ IsFiniteSet(Active) /\ Cardinality(Active) \in Nat /\ Room \in Nat
           /\ Active = {} => Room # 0
<1>1. Active \in SUBSET Jobs /\ IsFiniteSet(Jobs)
  BY DEF Active, PlanningTypeOK
<1>2. IsFiniteSet(Active)
  BY <1>1, FS_Subset
<1>3. Cardinality(Active) \in Nat /\ (Active = {} => Cardinality(Active) = 0)
  BY <1>2, FS_CardinalityType, FS_EmptySet
<1> QED BY <1>2, <1>3, GraphPlanningAssumption DEF Room

(* The graph of a source that is not known may be planned. *)
LEMMA GraphPlannable ==
    ASSUME PlanningTypeOK, NEW s \in Source, NEW g \in Graphs, g[2] = {s},
           ~Known(g, UnitDependency(s))
    PROVE  Plannable(Attempt(g, UnitDependency(s), 0))
<1> DEFINE d == UnitDependency(s)
           k == Attempt(g, d, 0)
<1>1. generation[s] \in Nat /\ model \in Model
  BY DEF PlanningTypeOK
<1>2. d = [sources |-> {<<s, generation[s]>>}, children |-> {}, model |-> model]
  BY DEF UnitDependency, Dependency
<1>3. k.artifact = g /\ k.dependency = d /\ k.attempt = 0
  BY DEF Attempt
<1>4. k \in GraphJob
  BY <1>1, <1>2 DEF Attempt, GraphJob, JobsOver
<1>5. k \in AnyJob /\ k \notin LeafJob
  <2>1. k \in AnyJob
    BY <1>4 DEF AnyJob
  <2>2. g \notin Leaves
    BY ArtifactKinds
  <2> HIDE DEF k
  <2> QED BY <1>3, <2>1, <2>2, JobFacts
<1>6. d.sources = {<<s, generation[s]>>} /\ d.children = {} /\ d.model = model
  BY <1>2
<1> HIDE DEF d, k
<1>7. Shape(k)
  BY <1>3, <1>5, <1>6 DEF Shape
<1>8. Plannable(k)
  BY <1>1, <1>3, <1>6, <1>7 DEF Plannable, d
<1> QED BY <1>8 DEF k, d

(* Graphs that are wanted of some sources are planned. *)
LEMMA GraphsStep ==
    ASSUME StoreInOrder, configured = model, NEW S, S \subseteq Source,
           NEW h, \A s \in S : /\ h[s] \in Graphs /\ h[s][2] = {s}
                               /\ ~Known(h[s], UnitDependency(s)),
           NEW want, \A k : k \in want <=> \E s \in S : k = Attempt(h[s], UnitDependency(s), 0),
           NEW new \in Taken(want, Room),
           Insert(new), UNCHANGED <<generation, live, latest, saved, modelVars>>
    PROVE  /\ StoreInOrder' /\ Jobs' = Jobs \cup new /\ Active' = Active \cup new
           /\ Active' = {} => S = {}
<1> DEFINE f == [s \in S |-> Attempt(h[s], UnitDependency(s), 0)]
<1>1. PlanningTypeOK /\ JobsMade /\ VersionsSaved /\ AttemptsInOrder /\ CurrentStands
  BY DEF StoreInOrder
<1>2. IsFiniteSet(want)
  <2>1. IsFiniteSet(S)
    BY GraphPlanningAssumption, FS_Subset
  <2>2. want = {f[s] : s \in S}
    OBVIOUS
  <2> HIDE DEF f
  <2> QED BY <2>1, <2>2, ImageIsFinite
<1>3. Room \in Nat /\ (Active = {} => Room # 0)
  BY <1>1, RoomFacts
<1>4. new \subseteq want /\ IsFiniteSet(new) /\ (Room # 0 /\ new = {} => want = {})
  BY <1>2, <1>3, TakenFacts
<1>5. ASSUME NEW k \in new
      PROVE  \E s \in S : k = Attempt(h[s], UnitDependency(s), 0)
  BY <1>4
<1>6. \A k \in new : Plannable(k)
  <2> SUFFICES ASSUME NEW k \in new PROVE Plannable(k)
    OBVIOUS
  <2>1. PICK s \in S : k = Attempt(h[s], UnitDependency(s), 0)
    BY <1>5
  <2> QED BY <1>1, <2>1, GraphPlannable
<1>7. \A i, k \in new : Alike(i, k) => i = k
  <2> SUFFICES ASSUME NEW i \in new, NEW k \in new, Alike(i, k) PROVE i = k
    OBVIOUS
  <2>1. PICK s \in S : i = Attempt(h[s], UnitDependency(s), 0)
    BY <1>5
  <2>2. PICK t \in S : k = Attempt(h[t], UnitDependency(t), 0)
    BY <1>5
  <2> QED BY <2>1, <2>2 DEF Alike, Attempt
<1>8. DOMAIN latest' = Artifact
  BY <1>1 DEF PlanningTypeOK
<1>9. \A a \in Artifact : latest'[a] # Nothing => latest'[a] \in saved /\ latest'[a].artifact = a
  BY <1>1 DEF VersionsSaved
<1>10. ~returned => \A j \in Jobs :
          Current(j) /\ j \in saved /\ j \in GraphJob \cup LeafJob => latest'[j.artifact] = j
  BY <1>1 DEF CurrentStands
<1>11. /\ PlanningTypeOK' /\ JobsMade' /\ VersionsSaved' /\ AttemptsInOrder' /\ CurrentStands'
       /\ Jobs' = Jobs \cup new /\ Active' = Active \cup new
  BY <1>1, <1>4, <1>6, <1>7, <1>8, <1>9, <1>10, InsertStep
<1>12. Active' = {} => S = {}
  <2>1. want = {} => S = {}
    OBVIOUS
  <2> QED BY <1>3, <1>4, <1>11, <2>1
<1> QED BY <1>11, <1>12 DEF StoreInOrder

(* After the extractions every live unit is known, or something is under way. *)
LEMMA ExtractStep ==
    ASSUME PlanningIInv, PlanExtractions
    PROVE  PlanningIInv'
<1> DEFINE S == {s \in live : ~Known(UnitGraph(s), UnitDependency(s))}
           h == [s \in Source |-> UnitGraph(s)]
<1>1. /\ StoreInOrder /\ StepsInOrder /\ PlanningTypeOK
      /\ step = "extract" /\ step' = "links"
      /\ UNCHANGED <<generation, live, latest, saved, modelVars>>
  BY DEF PlanningIInv, StoreInOrder, PlanExtractions, Stays
<1> DEFINE want == {Attempt(UnitGraph(s), UnitDependency(s), 0) : s \in S}
<1>2. PICK new \in Taken(want, Room) : Insert(new)
  BY DEF PlanExtractions
<1>3. configured = model /\ S \subseteq Source
  BY <1>1 DEF StepsInOrder, PlanningTypeOK
<1>4. \A s \in S : h[s] = UnitGraph(s)
  BY <1>3
<1>5. \A s \in S : h[s] \in Graphs /\ h[s][2] = {s} /\ ~Known(h[s], UnitDependency(s))
  <2>1. \A s \in Source : UnitGraph(s) \in Graphs /\ UnitGraph(s)[2] = {s}
    BY ArtifactKinds DEF UnitGraph
  <2> HIDE DEF h
  <2> QED BY <1>3, <1>4, <2>1
<1>6. \A k : k \in want <=> \E s \in S : k = Attempt(h[s], UnitDependency(s), 0)
  <2> HIDE DEF h
  <2> QED BY <1>4
<1> HIDE DEF h, want
<1>7. /\ StoreInOrder' /\ Jobs' = Jobs \cup new /\ Active' = Active \cup new
      /\ Active' = {} => S = {}
  <2> HIDE DEF S
  <2> QED BY <1>1, <1>2, <1>3, <1>5, <1>6, GraphsStep
<1>8. StepsInOrder'
  BY <1>1, StepsKept
<1>9. WantedKnown'
  <2> SUFFICES ASSUME Active' = {}, NEW s \in live PROVE Known(UnitGraph(s), UnitDependency(s))'
    BY <1>1 DEF WantedKnown
  <2>1. Known(UnitGraph(s), UnitDependency(s))
    BY <1>7
  <2>2. UnitDependency(s)' = UnitDependency(s)
    BY <1>1 DEF UnitDependency, Dependency, modelVars
  <2> QED BY <1>7, <2>1, <2>2 DEF Known
<1>10. AllCovered' /\ ReportsFollowGraphs'
  BY <1>1 DEF AllCovered, ReportsFollowGraphs
<1>11. AnswersSaved'
  BY <1>1, <1>2, AnswersPlanned DEF PlanningIInv
<1> QED BY <1>7, <1>8, <1>9, <1>10, <1>11 DEF PlanningIInv

(* After the links so is every link that no current graph has. *)
LEMMA LinksStep ==
    ASSUME PlanningIInv, PlanLinks
    PROVE  PlanningIInv'
<1> DEFINE S == {s \in live \cap Linked : /\ latest[LinkGraph(s)] = Nothing
                                          /\ ~Known(LinkGraph(s), UnitDependency(s))}
           h == [s \in Source |-> LinkGraph(s)]
<1>1. /\ StoreInOrder /\ StepsInOrder /\ PlanningTypeOK /\ WantedKnown
      /\ step = "links" /\ step' = "communities"
      /\ UNCHANGED <<generation, live, latest, saved, modelVars>>
  BY DEF PlanningIInv, StoreInOrder, PlanLinks, Stays
<1> DEFINE want == {Attempt(LinkGraph(s), UnitDependency(s), 0) : s \in S}
<1>2. PICK new \in Taken(want, Room) : Insert(new)
  BY DEF PlanLinks
<1>3. configured = model /\ S \subseteq Source /\ S \subseteq Linked
  BY <1>1 DEF StepsInOrder, PlanningTypeOK
<1>4. \A s \in S : h[s] = LinkGraph(s)
  BY <1>3
<1>5. \A s \in S : h[s] \in Graphs /\ h[s][2] = {s} /\ ~Known(h[s], UnitDependency(s))
  <2>1. \A s \in Linked : LinkGraph(s) \in Graphs /\ LinkGraph(s)[2] = {s}
    BY ArtifactKinds DEF LinkGraph
  <2> HIDE DEF h
  <2> QED BY <1>3, <1>4, <2>1
<1>6. \A k : k \in want <=> \E s \in S : k = Attempt(h[s], UnitDependency(s), 0)
  <2> HIDE DEF h
  <2> QED BY <1>4
<1> HIDE DEF h, want
<1>7. /\ StoreInOrder' /\ Jobs' = Jobs \cup new /\ Active' = Active \cup new
      /\ Active' = {} => S = {}
  <2>1. /\ StoreInOrder /\ configured = model /\ S \subseteq Source
        /\ UNCHANGED <<generation, live, latest, saved, modelVars>>
    BY <1>1, <1>3
  <2> HIDE DEF S
  <2> QED BY <1>2, <1>5, <1>6, <2>1, GraphsStep
<1>8. StepsInOrder'
  BY <1>1, StepsKept
<1>9. ASSUME NEW a, NEW s, Known(a, UnitDependency(s)) PROVE Known(a, UnitDependency(s))'
  <2>1. UnitDependency(s)' = UnitDependency(s)
    BY <1>1 DEF UnitDependency, Dependency, modelVars
  <2> QED BY <1>7, <1>9, <2>1 DEF Known
<1>10. WantedKnown'
  <2> SUFFICES ASSUME Active' = {}
               PROVE  /\ \A s \in live : Known(UnitGraph(s), UnitDependency(s))'
                      /\ \A s \in live \cap Linked :
                           latest[LinkGraph(s)] # Nothing \/ Known(LinkGraph(s), UnitDependency(s))'
    BY <1>1 DEF WantedKnown
  <2>1. \A s \in live : Known(UnitGraph(s), UnitDependency(s))
    BY <1>1, <1>7 DEF WantedKnown
  <2>2. \A s \in live \cap Linked :
            latest[LinkGraph(s)] # Nothing \/ Known(LinkGraph(s), UnitDependency(s))
    BY <1>7
  <2> QED BY <1>9, <2>1, <2>2
<1>11. AllCovered' /\ ReportsFollowGraphs'
  BY <1>1 DEF AllCovered, ReportsFollowGraphs
<1>12. AnswersSaved'
  BY <1>1, <1>2, AnswersPlanned DEF PlanningIInv
<1> QED BY <1>7, <1>8, <1>10, <1>11, <1>12 DEF PlanningIInv

(* Retries may fill the capacity, and then something is under way. *)
LEMMA RetriesStep ==
    ASSUME PlanningIInv, PlanRetries
    PROVE  PlanningIInv'
<1> DEFINE next(j) == Attempt(j.artifact, j.dependency, j.attempt + 1)
<1>1. /\ StoreInOrder /\ StepsInOrder
      /\ PlanningTypeOK /\ JobsMade /\ VersionsSaved /\ AttemptsInOrder /\ CurrentStands
      /\ step = "retries" /\ UNCHANGED <<generation, live, latest, saved, modelVars>>
  BY DEF PlanningIInv, StoreInOrder, PlanRetries, Stays
<1>2. PICK old \in SUBSET Retryable :
        /\ Insert({next(j) : j \in old})
        /\ step' = IF Cardinality(Active) + Cardinality(old) >= Capacity THEN "planned" ELSE "extract"
  BY DEF PlanRetries
<1> DEFINE new == {next(j) : j \in old}
           h == [j \in old |-> next(j)]
<1>3. configured = model
  BY <1>1 DEF StepsInOrder
<1>4. \A j \in old : /\ j \in Jobs /\ work[j] = "failed" /\ next(j) \notin Jobs
                     /\ j.dependency.model = model
                     /\ Shape(j) /\ j \in AnyJob /\ j.attempt \in Nat
                     /\ j = Attempt(j.artifact, j.dependency, j.attempt)
  <2>1. \A j \in old : /\ j \in Jobs /\ work[j] = "failed" /\ next(j) \notin Jobs
                       /\ j.dependency.model = model
    BY DEF Retryable
  <2> HIDE DEF next
  <2> QED BY <1>1, <2>1, VersionFacts, JobFacts
<1>5. \A j : /\ next(j).artifact = j.artifact /\ next(j).dependency = j.dependency
             /\ next(j).attempt = j.attempt + 1
  BY DEF Attempt
<1>6. IsFiniteSet(old) /\ IsFiniteSet(new) /\ Cardinality(old) <= Cardinality(new)
  <2>1. old \in SUBSET Jobs /\ IsFiniteSet(Jobs)
    BY <1>1, <1>4 DEF PlanningTypeOK
  <2>2. IsFiniteSet(old)
    BY <2>1, FS_Subset
  <2>3. new = {h[j] : j \in old}
    OBVIOUS
  <2>4. h \in [old -> new]
    OBVIOUS
  <2>5. ASSUME NEW i \in old, NEW j \in old, h[i] = h[j] PROVE i = j
    <3>1. next(i) = next(j)
      BY <2>5
    <3>2. i.artifact = j.artifact /\ i.dependency = j.dependency /\ i.attempt + 1 = j.attempt + 1
      <4> HIDE DEF next, h, new
      <4> QED BY <1>5, <3>1
    <3>3. i.attempt = j.attempt
      BY <1>4, <3>2
    <3>4. i = Attempt(i.artifact, i.dependency, i.attempt) /\ j = Attempt(j.artifact, j.dependency, j.attempt)
      BY <1>4
    <3> QED BY <3>2, <3>3, <3>4
  <2> HIDE DEF h, new
  <2>6. IsFiniteSet(new)
    BY <2>2, <2>3, ImageIsFinite
  <2>7. h \in Injection(old, new)
    BY <2>4, <2>5 DEF Injection, IsInjective
  <2> QED BY <2>2, <2>6, <2>7, FS_Injection
<1>7. ASSUME NEW k \in new PROVE \E j \in old : k = next(j)
  OBVIOUS
<1> HIDE DEF new, h
<1>8. \A k \in new : Plannable(k)
  <2> SUFFICES ASSUME NEW k \in new PROVE Plannable(k)
    OBVIOUS
  <2>1. PICK j \in old : k = next(j)
    BY <1>7
  <2>2. Shape(k)
    BY <1>4, <2>1, AttemptShape
  <2>3. Alike(j, k) /\ k.attempt = j.attempt + 1 /\ k \notin Jobs /\ j \in Jobs /\ work[j] = "failed"
    BY <1>4, <1>5, <2>1 DEF Alike
  <2>4. /\ k.dependency = j.dependency /\ k.dependency.model = model
        /\ \A p \in j.dependency.sources : p[2] <= generation[p[1]]
        /\ j.dependency.children \subseteq saved
    BY <1>1, <1>4, <1>5, <2>1 DEF JobsMade
  <2> QED BY <2>2, <2>3, <2>4 DEF Plannable
<1>9. \A i, k \in new : Alike(i, k) => i = k
  <2> SUFFICES ASSUME NEW i \in new, NEW k \in new, Alike(i, k) PROVE i = k
    OBVIOUS
  <2>1. PICK i0 \in old : i = next(i0)
    BY <1>7
  <2>2. PICK k0 \in old : k = next(k0)
    BY <1>7
  <2>3. i0.artifact = k0.artifact /\ i0.dependency = k0.dependency
    BY <1>5, <2>1, <2>2 DEF Alike
  <2>4. \A m, n \in old : m.artifact = n.artifact /\ m.dependency = n.dependency => ~(m.attempt < n.attempt)
    <3> SUFFICES ASSUME NEW m \in old, NEW n \in old, m.artifact = n.artifact,
                        m.dependency = n.dependency, m.attempt < n.attempt
                 PROVE  FALSE
      OBVIOUS
    <3>1. m.attempt + 1 \in 0 .. n.attempt
      BY <1>4
    <3>2. Attempt(n.artifact, n.dependency, m.attempt + 1) \in Jobs
      BY <1>1, <1>4, <3>1 DEF AttemptsInOrder
    <3> QED BY <1>4, <3>2
  <2>5. i0.attempt = k0.attempt
    BY <1>4, <2>3, <2>4
  <2> QED BY <2>1, <2>2, <2>3, <2>5
<1>10. /\ DOMAIN latest' = Artifact
       /\ \A a \in Artifact : latest'[a] # Nothing => latest'[a] \in saved /\ latest'[a].artifact = a
       /\ ~returned => \A j \in Jobs :
            Current(j) /\ j \in saved /\ j \in GraphJob \cup LeafJob => latest'[j.artifact] = j
  BY <1>1 DEF PlanningTypeOK, VersionsSaved, CurrentStands
<1>11. Insert(new)
  BY <1>2 DEF new
<1>12. /\ PlanningTypeOK' /\ JobsMade' /\ VersionsSaved' /\ AttemptsInOrder' /\ CurrentStands'
       /\ Active' = Active \cup new /\ new \cap Jobs = {}
  BY <1>1, <1>3, <1>6, <1>8, <1>9, <1>10, <1>11, InsertStep
<1>13. StepsInOrder'
  BY <1>1, <1>2, StepsKept
<1>14. step' = "planned" => Cardinality(Active') >= Capacity /\ Active' # {}
  <2>1. /\ IsFiniteSet(Active) /\ Cardinality(Active) \in Nat
        /\ Cardinality(old) \in Nat /\ Cardinality(new) \in Nat
    BY <1>1, <1>6, RoomFacts, FS_CardinalityType
  <2>2. Active \cap new = {}
    BY <1>12 DEF Active
  <2>3. Cardinality(Active \cup new) = Cardinality(Active) + Cardinality(new) - Cardinality(Active \cap new)
    BY <1>6, <2>1, FS_Union
  <2>4. Cardinality({}) = 0 /\ Capacity \in Nat \ {0}
    BY FS_EmptySet, GraphPlanningAssumption
  <2>5. Cardinality(Active') = Cardinality(Active) + Cardinality(new)
    <3>1. Cardinality(Active \cap new) = 0 /\ Active' = Active \cup new
      BY <1>12, <2>2, <2>4
    <3> QED BY <2>1, <2>3, <3>1
  <2>6. step' = "planned" => Cardinality(Active') >= Capacity
    BY <1>2, <1>6, <2>1, <2>4, <2>5
  <2> QED BY <2>4, <2>6
<1>15. WantedKnown' /\ AllCovered'
  BY <1>2, <1>14 DEF WantedKnown, AllCovered
<1>16. ReportsFollowGraphs'
  <2>1. step' = "planned" => ~(Cardinality(Active') < Capacity)
    <3>1. Cardinality(Active') \in Nat
      <4>1. IsFiniteSet(Active')
        <5>1. \A S, T : IsFiniteSet(S) /\ IsFiniteSet(T) => IsFiniteSet(S \cup T)
          BY FS_Union
        <5> QED BY <1>1, <1>6, <1>12, <5>1, RoomFacts
      <4> QED BY <4>1, FS_CardinalityType
    <3> QED BY <1>14, <3>1, GraphPlanningAssumption
  <2> QED BY <2>1 DEF ReportsFollowGraphs
<1>17. AnswersSaved'
  BY <1>1, <1>11, AnswersPlanned DEF PlanningIInv
<1> QED BY <1>12, <1>13, <1>15, <1>16, <1>17 DEF PlanningIInv, StoreInOrder

(* Jobs end in a tick, where the model row is that of the process. *)
LEMMA TickStep ==
    ASSUME PlanningIInv, NEW j \in Active,
           NEW end \in {"completed", "failed", "refused", "obsolete"},
           Ends(j, end),
           end = "completed" => /\ ~Superseded(j) /\ ChildrenCurrent(j.dependency)
                                /\ latest' = [latest EXCEPT ![j.artifact] = j]
                                /\ saved' = saved \cup {j},
           end # "completed" => UNCHANGED <<latest, saved>>,
           end = "obsolete" => Superseded(j) \/ ~ChildrenCurrent(j.dependency)
    PROVE  PlanningIInv'
<1>1. /\ PlanningTypeOK /\ JobsMade /\ VersionsSaved /\ AttemptsInOrder /\ CurrentStands
      /\ StepsInOrder
  BY DEF PlanningIInv, StoreInOrder
<1>2. /\ step \in {"planned", "tick"} /\ step' = "tick"
      /\ work' = [work EXCEPT ![j] = end] /\ UNCHANGED <<generation, live, modelVars>>
  BY DEF Ends, Ticking, Stays
<1>3. configured = model
  BY <1>1, <1>2 DEF StepsInOrder
<1>4. PlanningTypeOK' /\ JobsMade' /\ VersionsSaved' /\ AttemptsInOrder' /\ CurrentStands'
  BY <1>1, <1>2, <1>3, EndsStep
<1>5. \A g \in Graphs : latest'[g] = latest[g] \/ DependenciesCurrent(latest'[g].dependency)
  <2>1. CASE end = "completed"
    <3>1. \A g \in Graphs : g \in DOMAIN latest
      BY <1>1 DEF PlanningTypeOK, Artifact
    <3>2. \A g \in Graphs : latest'[g] = IF g = j.artifact THEN j ELSE latest[g]
      BY <2>1, <3>1
    <3> QED BY <2>1, <3>2 DEF Superseded
  <2>2. CASE end # "completed"
    BY <2>2
  <2> QED BY <2>1, <2>2
<1>6. StepsInOrder'
  BY <1>1, <1>2, <1>5, StepsKept
<1>7. WantedKnown' /\ AllCovered' /\ ReportsFollowGraphs'
  BY <1>2, Elsewhere
<1>8. AnswersSaved'
  <2>1. AnswersSaved /\ UNCHANGED <<configured, model, returned>> /\ j \in Jobs
    BY <1>2 DEF PlanningIInv, modelVars, Active
  <2>2. /\ Jobs' = Jobs /\ saved \subseteq saved'
        /\ \A k \in Jobs : work'[k] = IF k = j THEN end ELSE work[k]
    BY <1>1, <1>2, <2>1 DEF Jobs, PlanningTypeOK
  <2>3. \A d : DependenciesCurrent(d)' <=> DependenciesCurrent(d)
    BY <1>2 DEF DependenciesCurrent
  <2>4. end = "completed" => j \in saved'
    OBVIOUS
  <2> QED BY <1>2, <2>1, <2>2, <2>3, <2>4, AnswersKept
<1> QED BY <1>4, <1>6, <1>7, <1>8 DEF PlanningIInv, StoreInOrder

(* Or its answer is stored, and the process dies before it is a version. *)
LEMMA UnsavedStep ==
    ASSUME PlanningIInv, NEW j \in Active, AnswerUnsaved(j)
    PROVE  PlanningIInv'
<1>1. /\ PlanningTypeOK /\ JobsMade /\ VersionsSaved /\ AttemptsInOrder /\ CurrentStands
      /\ StepsInOrder /\ AnswersSaved
  BY DEF PlanningIInv, StoreInOrder
<1>2. /\ step \in {"planned", "tick"} /\ step' = "gone"
      /\ work' = [work EXCEPT ![j] = "completed"]
      /\ UNCHANGED <<generation, live, modelVars>> /\ UNCHANGED <<latest, saved>>
      /\ ~Superseded(j) /\ ChildrenCurrent(j.dependency)
  BY DEF AnswerUnsaved, Ticking, Stays
<1>3. configured = model
  BY <1>1, <1>2 DEF StepsInOrder
<1>4. PlanningTypeOK' /\ JobsMade' /\ VersionsSaved' /\ AttemptsInOrder' /\ CurrentStands'
  BY <1>1, <1>2, <1>3, EndsStep
<1>5. StepsInOrder'
  <2>1. UNCHANGED <<seen, returned>>
    BY <1>2 DEF modelVars
  <2> QED BY <1>1, <1>2, <2>1 DEF StepsInOrder
<1>6. AnswersSaved'
  BY <1>2 DEF AnswersSaved
<1>7. WantedKnown' /\ AllCovered' /\ ReportsFollowGraphs'
  BY <1>2, Elsewhere
<1> QED BY <1>4, <1>5, <1>6, <1>7 DEF PlanningIInv, StoreInOrder

-----------------------------------------------------------------------------
(* Selection as one condition, now and after a step. *)
ChosenOn(a) ==
    /\ latest[a] # Nothing
    /\ DependenciesCurrent(latest[a].dependency) /\ latest[a].dependency.model = configured
    /\ \A c \in latest[a].dependency.children :
        latest[c.artifact] = c /\ Below(a, c.artifact) /\ Selected(c.artifact)

(* The condition, in one state. *)
LEMMA SelectedLayers ==
    ASSUME NEW a \in Artifact
    PROVE  Selected(a) <=> ChosenOn(a)
<1>1. PICK K : K = configured
  OBVIOUS
<1>2. \A b : Selected(b) <=> b \in Resting({K})
  BY <1>1 DEF Selected
<1>3. a \in Resting({K}) <=> RestsOn(a, {K})
  BY RestingLayers
<1> QED BY <1>1, <1>2, <1>3 DEF RestsOn, ChosenOn

(* And in the next. *)
LEMMA SelectedLayersNext ==
    ASSUME NEW a \in Artifact
    PROVE  Selected(a)' <=> ChosenOn(a)'
<1>1. Selected(a) <=> ChosenOn(a)
  BY SelectedLayers
<1> QED BY <1>1, PTL

(* What a graph that can be selected rests on. *)
LEMMA SelectedGraph ==
    ASSUME StoreInOrder, configured = model, NEW g \in Graphs, Selected(g)
    PROVE  /\ latest[g] # Nothing /\ latest[g] \in saved /\ latest[g] \in GraphJob
           /\ latest[g].artifact = g /\ latest[g].dependency.model = model
           /\ \E s \in live : /\ g[2] = {s} /\ latest[g].dependency.sources = {<<s, generation[s]>>}
                              /\ LeafDependency(g) = [sources |-> {<<s, generation[s]>>},
                                                      children |-> {latest[g]}, model |-> model]
<1>1. PlanningTypeOK /\ JobsMade /\ VersionsSaved
  BY DEF StoreInOrder
<1>2. g \in Artifact
  BY DEF Artifact
<1>3. /\ latest[g] # Nothing /\ DependenciesCurrent(latest[g].dependency)
      /\ latest[g].dependency.model = model
  BY <1>2, SelectedLayers DEF ChosenOn
<1>4. /\ latest[g] \in saved /\ latest[g] \in Jobs /\ latest[g] \in GraphJob /\ latest[g].artifact = g
      /\ Shape(latest[g])
  BY <1>1, <1>2, <1>3, VersionFacts
<1>5. PICK p \in latest[g].dependency.sources : g[2] = {p[1]} /\ latest[g].dependency.sources = {p}
  BY <1>4 DEF Shape
<1>6. p \in Source \X Nat
  BY <1>4, JobFacts DEF Shape
<1>7. p = <<p[1], generation[p[1]]>> /\ p[1] \in live
  BY <1>3, <1>5, <1>6 DEF DependenciesCurrent
<1>8. LeafDependency(g) = [sources |-> {<<p[1], generation[p[1]]>>},
                           children |-> {latest[g]}, model |-> model]
  BY <1>5 DEF LeafDependency, Dependency
<1> QED BY <1>3, <1>4, <1>5, <1>7, <1>8

(* A report that is restored is a saved version of what is wanted. *)
LEMMA RestoredFacts ==
    ASSUME StoreInOrder, NEW a \in Artifact, NEW d
    PROVE  /\ Restored(a, d) # Nothing =>
                /\ Restored(a, d) \in saved /\ Restored(a, d) \in AnyJob
                /\ Restored(a, d).artifact = a /\ Restored(a, d).dependency = d
           /\ Restored(a, d) = Nothing => Versions(a, d) = {}
           /\ latest[a] # Nothing /\ latest[a].dependency = d => Restored(a, d) = latest[a]
<1>1. PlanningTypeOK /\ JobsMade /\ VersionsSaved
  BY DEF StoreInOrder
<1>2. \A j \in saved : j \in AnyJob /\ j # Nothing
  BY <1>1, VersionFacts
<1>3. latest[a] # Nothing => latest[a] \in saved /\ latest[a].artifact = a
  BY <1>1, VersionFacts
<1>4. \A j \in Versions(a, d) : j \in saved /\ j.artifact = a /\ j.dependency = d
  BY DEF Versions
<1>5. Versions(a, d) # {} => (CHOOSE j \in Versions(a, d) : TRUE) \in Versions(a, d)
  OBVIOUS
<1> QED BY <1>2, <1>3, <1>4, <1>5 DEF Restored

(* Known work of the configured model that is not under way and gave no    *)
(* version has failed.                                                     *)
LEMMA KnownFails ==
    ASSUME StoreInOrder, AnswersSaved, configured = model, step # "gone",
           ~returned, Active = {}, NEW a, NEW d, Known(a, d),
           d.model = configured, DependenciesCurrent(d)
    PROVE  Failed(a, d) \/ \E j \in Jobs : j \in Versions(a, d) /\ Current(j)
<1>1. PlanningTypeOK /\ CurrentStands
  BY DEF StoreInOrder
<1>2. PICK j \in Jobs : j.artifact = a /\ j.dependency = d
  BY DEF Known
<1>3. Current(j)
  BY <1>2 DEF Current
<1>4. work[j] \in {"completed", "failed", "refused"}
  BY <1>1, <1>3 DEF PlanningTypeOK, CurrentStands, Active
<1>5. CASE work[j] = "completed"
  BY <1>2, <1>3, <1>5 DEF AnswersSaved, Versions
<1>6. CASE work[j] # "completed"
  BY <1>2, <1>4, <1>6 DEF Failed
<1> QED BY <1>5, <1>6

(* Units and links are covered before the reports are planned. *)
LEMMA GraphsCovered ==
    ASSUME PlanningIInv, step = "communities", Active = {}
    PROVE  (~returned => UnitsCovered) /\ (seen = {model} => LinksCovered)
<1>1. /\ StoreInOrder /\ StepsInOrder /\ WantedKnown /\ AnswersSaved
      /\ PlanningTypeOK /\ JobsMade /\ VersionsSaved /\ CurrentStands
  BY DEF PlanningIInv, StoreInOrder
<1>2. configured = model /\ live \subseteq Source
  BY <1>1 DEF StepsInOrder, PlanningTypeOK
<1>3. ASSUME ~returned, NEW s \in live, NEW g \in Graphs, Known(g, UnitDependency(s))
      PROVE  Selected(g) \/ Failed(g, UnitDependency(s))
  <2> DEFINE d == UnitDependency(s)
  <2>1. d = [sources |-> {<<s, generation[s]>>}, children |-> {}, model |-> model]
    BY DEF UnitDependency, Dependency
  <2>2. d.model = configured /\ DependenciesCurrent(d)
    BY <1>2, <2>1 DEF DependenciesCurrent
  <2> HIDE DEF d
  <2>3. Failed(g, d) \/ \E j \in Jobs : j \in Versions(g, d) /\ Current(j)
    BY <1>1, <1>2, <1>3, <2>2, KnownFails DEF d
  <2>4. ASSUME NEW j \in Jobs, j \in Versions(g, d), Current(j)
        PROVE  Selected(g)
    <3>1. j.artifact = g /\ j \in AnyJob /\ j \in saved
      BY <1>1, <2>4, VersionFacts DEF Versions
    <3>2. j \in GraphJob \cup LeafJob
      BY <3>1, JobFacts
    <3>3. PICK K : K = configured
      OBVIOUS
    <3>4. j.artifact \in Resting({K})
      BY <1>1, <1>3, <2>4, <3>1, <3>2, <3>3, CurrentRests
    <3> QED BY <3>1, <3>3, <3>4 DEF Selected
  <2> QED BY <2>3, <2>4 DEF d
<1>4. ~returned => UnitsCovered
  BY <1>1, <1>2, <1>3, ArtifactKinds DEF WantedKnown, UnitsCovered
<1>5. ASSUME seen = {model} PROVE LinksCovered
  <2>1. ~returned
    BY <1>1, <1>5 DEF StepsInOrder
  <2> SUFFICES ASSUME NEW s \in live \cap Linked
               PROVE  Selected(LinkGraph(s)) \/ Failed(LinkGraph(s), UnitDependency(s))
    BY DEF LinksCovered
  <2>2. LinkGraph(s) \in Graphs /\ LinkGraph(s) \in Artifact
    BY ArtifactKinds DEF Artifact
  <2>3. CASE latest[LinkGraph(s)] # Nothing
    <3> DEFINE j == latest[LinkGraph(s)]
    <3>1. j \in Jobs /\ j \in GraphJob
      BY <1>1, <2>2, <2>3, VersionFacts
    <3>2. j.dependency.model = configured /\ j.dependency.children = {}
      BY <1>1, <1>2, <1>5, <3>1, JobFacts DEF JobsMade
    <3>3. DependenciesCurrent(j.dependency)
      BY <1>1, <2>2, <2>3 DEF StepsInOrder
    <3>4. ChosenOn(LinkGraph(s))
      BY <2>3, <3>2, <3>3 DEF ChosenOn
    <3> QED BY <2>2, <3>4, SelectedLayers
  <2>4. CASE latest[LinkGraph(s)] = Nothing
    BY <1>1, <1>3, <2>1, <2>2, <2>4 DEF WantedKnown
  <2> QED BY <2>3, <2>4
<1> QED BY <1>4, <1>5

(* The reports that PlanCommunities sees, wants and makes current. *)
SeenGraphs == {g \in Graphs : Selected(g)}
SeenLeaf(g) == Restored(Leaf(g), LeafDependency(g))
Level == (\A g \in SeenGraphs : SeenLeaf(g) # Nothing) /\ \A s \in live : UnitGraph(s) \in SeenGraphs
Paired == Level /\ Cardinality(SeenGraphs) > 1
WantedLeaf(g) == SeenLeaf(g) = Nothing /\ ~Known(Leaf(g), LeafDependency(g))
WantedDependency ==
    Dependency(UNION {g[2] : g \in SeenGraphs}, {SeenLeaf(g) : g \in SeenGraphs})
SeenParent == Restored(Parent(SeenGraphs), WantedDependency)
WantedParent == Paired /\ SeenParent = Nothing /\ ~Known(Parent(SeenGraphs), WantedDependency)
WantedReports ==
    {Attempt(Leaf(g), LeafDependency(g), 0) : g \in {g \in SeenGraphs : WantedLeaf(g)}}
    \cup (IF WantedParent THEN {Attempt(Parent(SeenGraphs), WantedDependency, 0)} ELSE {})

(* What PlanCommunities does, in these terms. *)
LEMMA CommunitiesAction ==
    ASSUME PlanningTypeOK, PlanCommunities
    PROVE  /\ step = "communities" /\ step' = "planned"
           /\ UNCHANGED <<generation, live, saved, modelVars>>
           /\ SeenGraphs = {} => UNCHANGED <<work, latest>>
           /\ SeenGraphs # {} => \E new \in Taken(WantedReports, Room) : Insert(new)
           /\ DOMAIN latest' = Artifact
           /\ \A g \in Graphs : latest'[g] = latest[g]
           /\ SeenGraphs # {} => \A g \in Graphs :
                latest'[Leaf(g)] = IF g \in SeenGraphs THEN SeenLeaf(g) ELSE Nothing
           /\ SeenGraphs # {} /\ Paired => latest'[Parent(SeenGraphs)] = SeenParent
           /\ \A a \in Parents : latest'[a] \in {latest[a], Nothing} \/ (a = Parent(SeenGraphs) /\ latest'[a] = SeenParent)
<1> DEFINE graphs == {g \in Graphs : Selected(g)}
           leaf == [g \in graphs |-> Restored(Leaf(g), LeafDependency(g))]
           ready == {g \in graphs : leaf[g] # Nothing}
           leaves == {Attempt(Leaf(g), LeafDependency(g), 0) :
                         g \in {g \in graphs \ ready : ~Known(Leaf(g), LeafDependency(g))}}
           level == graphs = ready /\ \A s \in live : UnitGraph(s) \in graphs
           paired == level /\ Cardinality(graphs) > 1
           wanted == Dependency(UNION {g[2] : g \in graphs}, {leaf[g] : g \in graphs})
           parent == IF paired THEN Restored(Parent(graphs), wanted) ELSE Nothing
           parents == IF paired /\ parent = Nothing /\ ~Known(Parent(graphs), wanted)
                      THEN {Attempt(Parent(graphs), wanted, 0)} ELSE {}
           whole == level /\ (paired => parent # Nothing)
<1>1. /\ step = "communities" /\ step' = "planned"
      /\ UNCHANGED <<generation, live, saved, modelVars>>
      /\ graphs = {} => UNCHANGED <<work, latest>>
      /\ graphs # {} =>
            /\ \E new \in Taken(leaves \cup parents, Room) : Insert(new)
            /\ latest' = [a \in Artifact |->
                    IF \E g \in graphs : a = Leaf(g) THEN leaf[CHOOSE g \in graphs : a = Leaf(g)]
                    ELSE IF a[1] = "leaf" THEN Nothing
                    ELSE IF a = Parent(graphs) /\ paired THEN parent
                    ELSE IF a[1] = "parent" /\ whole THEN Nothing
                    ELSE latest[a]]
  BY DEF PlanCommunities, Stays
<1>2. graphs = SeenGraphs
  BY DEF SeenGraphs
<1>3. \A g \in graphs : leaf[g] = SeenLeaf(g)
  BY DEF SeenLeaf
<1>4. graphs \subseteq Graphs
  OBVIOUS
<1> HIDE DEF graphs, leaf
<1>5. /\ {leaf[g] : g \in graphs} = {SeenLeaf(g) : g \in graphs}
      /\ \A g \in graphs : g \in ready <=> SeenLeaf(g) # Nothing
  BY <1>3
<1>6. wanted = WantedDependency
  BY <1>2, <1>5 DEF WantedDependency
<1>7. graphs = ready <=> \A g \in graphs : SeenLeaf(g) # Nothing
  BY <1>5
<1>8. paired <=> Paired
  BY <1>2, <1>7 DEF Paired, Level
<1> HIDE DEF level, wanted, paired
<1>9. paired => parent = SeenParent
  BY <1>2, <1>6 DEF SeenParent
<1>10. parents = IF WantedParent THEN {Attempt(Parent(SeenGraphs), WantedDependency, 0)} ELSE {}
  BY <1>2, <1>6, <1>8, <1>9 DEF WantedParent
<1>11. leaves = {Attempt(Leaf(g), LeafDependency(g), 0) : g \in {g \in SeenGraphs : WantedLeaf(g)}}
  <2>1. {g \in graphs \ ready : ~Known(Leaf(g), LeafDependency(g))} = {g \in SeenGraphs : WantedLeaf(g)}
    BY <1>2, <1>5 DEF WantedLeaf
  <2> QED BY <2>1
<1>12. leaves \cup parents = WantedReports
  BY <1>10, <1>11 DEF WantedReports
<1> HIDE DEF leaves, parents, parent, ready, whole
<1>13. graphs # {} =>
            /\ DOMAIN latest' = Artifact
            /\ \A a \in Artifact : latest'[a] =
                    IF \E g \in graphs : a = Leaf(g) THEN leaf[CHOOSE g \in graphs : a = Leaf(g)]
                    ELSE IF a[1] = "leaf" THEN Nothing
                    ELSE IF a = Parent(graphs) /\ paired THEN parent
                    ELSE IF a[1] = "parent" /\ whole THEN Nothing
                    ELSE latest[a]
  BY <1>1
<1>14. \A g \in Graphs : g \in Artifact /\ Leaf(g) \in Artifact /\ Parent(graphs) \in Artifact
  BY <1>4, ArtifactKinds DEF Artifact
<1>15. ASSUME graphs # {}, NEW g \in Graphs PROVE latest'[g] = latest[g]
  <2>1. g[1] # "leaf" /\ g[1] # "parent" /\ \A h : g # Leaf(h) /\ g # Parent(h)
    <3>1. g[1] \in {"unit", "link"}
      BY ArtifactKinds
    <3>2. \A h : Leaf(h)[1] = "leaf" /\ Parent(h)[1] = "parent"
      BY DEF Leaf, Parent
    <3> QED BY <3>1, <3>2
  <2> QED BY <1>13, <1>14, <1>15, <2>1
<1>16. ASSUME graphs # {}, NEW g \in Graphs
       PROVE  latest'[Leaf(g)] = IF g \in graphs THEN SeenLeaf(g) ELSE Nothing
  <2>1. Leaf(g)[1] = "leaf" /\ Leaf(g) \in Artifact
    BY <1>14 DEF Leaf
  <2>2. CASE g \in graphs
    <3>1. (CHOOSE h \in graphs : Leaf(g) = Leaf(h)) = g
      BY <2>2, ArtifactKinds
    <3>2. latest'[Leaf(g)] = leaf[CHOOSE h \in graphs : Leaf(g) = Leaf(h)]
      BY <1>13, <1>16, <2>1, <2>2
    <3> QED BY <1>3, <2>2, <3>1, <3>2
  <2>3. CASE g \notin graphs
    <3>1. ~\E h \in graphs : Leaf(g) = Leaf(h)
      BY <2>3, ArtifactKinds
    <3> QED BY <1>13, <1>16, <2>1, <2>3, <3>1
  <2> QED BY <2>2, <2>3
<1>17. ASSUME graphs # {}, NEW a \in Parents
       PROVE  /\ latest'[a] \in {latest[a], Nothing} \/ (a = Parent(graphs) /\ latest'[a] = SeenParent)
              /\ a = Parent(graphs) /\ paired => latest'[a] = SeenParent
  <2>1. a[1] = "parent" /\ a \in Artifact /\ ~\E g \in graphs : a = Leaf(g)
    <3>1. a[1] = "parent" /\ \A g : Leaf(g)[1] = "leaf"
      BY ArtifactKinds DEF Leaf
    <3> QED BY <3>1 DEF Artifact
  <2>2. latest'[a] = IF a = Parent(graphs) /\ paired THEN parent
                     ELSE IF whole THEN Nothing ELSE latest[a]
    BY <1>13, <1>17, <2>1
  <2> QED BY <1>9, <2>2
<1>18. Parent(graphs) \in Parents
  BY <1>4, ArtifactKinds
<1>19. DOMAIN latest' = Artifact
  BY <1>1, <1>13 DEF PlanningTypeOK
<1>20. \A g \in Graphs : latest'[g] = latest[g]
  BY <1>1, <1>15
<1>21. \A a \in Parents : latest'[a] \in {latest[a], Nothing} \/ (a = Parent(graphs) /\ latest'[a] = SeenParent)
  BY <1>1, <1>17
<1>22. graphs # {} => \E new \in Taken(WantedReports, Room) : Insert(new)
  BY <1>1, <1>12
<1> QED BY <1>1, <1>2, <1>8, <1>16, <1>17, <1>18, <1>19, <1>20, <1>21, <1>22

(* The reports that are planned may be. *)
LEMMA ReportsPlannable ==
    ASSUME StoreInOrder, configured = model
    PROVE  /\ IsFiniteSet(WantedReports)
           /\ \A k \in WantedReports : Plannable(k)
           /\ \A i, k \in WantedReports : Alike(i, k) => i = k
<1> DEFINE G == {g \in SeenGraphs : WantedLeaf(g)}
           h == [g \in G |-> Attempt(Leaf(g), LeafDependency(g), 0)]
           leaves == {Attempt(Leaf(g), LeafDependency(g), 0) : g \in G}
           P == Attempt(Parent(SeenGraphs), WantedDependency, 0)
           parents == IF WantedParent THEN {P} ELSE {}
<1>1. PlanningTypeOK /\ JobsMade /\ VersionsSaved
  BY DEF StoreInOrder
<1>2. WantedReports = leaves \cup parents
  BY DEF WantedReports
<1>3. \A g \in SeenGraphs : g \in Graphs /\ Selected(g)
  BY DEF SeenGraphs
<1>4. IsFiniteSet(WantedReports)
  <2>1. IsFiniteSet(G)
    BY <1>3, GraphsFinite, FS_Subset
  <2>2. leaves = {h[g] : g \in G}
    OBVIOUS
  <2>3. IsFiniteSet({h[g] : g \in G})
    <3> HIDE DEF h, G
    <3> QED BY <2>1, ImageIsFinite
  <2>4. IsFiniteSet(parents)
    BY FS_EmptySet, FS_Singleton
  <2>5. \A S, T : IsFiniteSet(S) /\ IsFiniteSet(T) => IsFiniteSet(S \cup T)
    BY FS_Union
  <2> HIDE DEF leaves, parents, h
  <2> QED BY <1>2, <2>2, <2>3, <2>4, <2>5
<1>5. \A j \in saved : j \in Jobs /\ j \in AnyJob /\ Shape(j)
  BY <1>1, VersionFacts
<1>6. \A s \in live : s \in Source /\ generation[s] \in Nat /\ model \in Model
  BY <1>1 DEF PlanningTypeOK
<1>7. ASSUME NEW g \in G PROVE Plannable(Attempt(Leaf(g), LeafDependency(g), 0))
  <2> DEFINE d == LeafDependency(g)
             k == Attempt(Leaf(g), d, 0)
             c == latest[g]
  <2>1. /\ g \in Graphs /\ Selected(g) /\ ~Known(Leaf(g), d)
    BY <1>3 DEF WantedLeaf
  <2>2. c \in saved /\ c \in GraphJob /\ c.artifact = g /\ c.dependency.model = model
    BY <2>1, SelectedGraph
  <2>3. PICK s \in live : /\ c.dependency.sources = {<<s, generation[s]>>}
                          /\ d = [sources |-> {<<s, generation[s]>>}, children |-> {c}, model |-> model]
    BY <2>1, SelectedGraph
  <2>4. Leaf(g) \in Leaves
    BY <2>1, ArtifactKinds
  <2>5. k.artifact = Leaf(g) /\ k.dependency = d /\ k.attempt = 0
    BY DEF Attempt
  <2> HIDE DEF c
  <2>6. k \in LeafJob
    BY <1>6, <2>2, <2>3, <2>4 DEF Attempt, LeafJob, JobsOver
  <2>7. d.sources = {<<s, generation[s]>>} /\ d.children = {c} /\ d.model = model
    BY <2>3
  <2> HIDE DEF d, k
  <2>8. k \in AnyJob /\ k \notin GraphJob
    <3>1. k \in AnyJob
      BY <2>6 DEF AnyJob
    <3>2. Leaf(g) \notin Graphs
      BY <2>4, ArtifactKinds
    <3> QED BY <2>5, <3>1, <3>2, JobFacts
  <2>9. Shape(k)
    BY <2>2, <2>3, <2>5, <2>7, <2>8 DEF Shape
  <2>10. Plannable(k)
    BY <1>6, <2>1, <2>2, <2>5, <2>7, <2>9 DEF Plannable, d
  <2> QED BY <2>10 DEF k, d
<1>8. ASSUME WantedParent PROVE Plannable(P)
  <2> DEFINE d == WantedDependency
             children == {SeenLeaf(g) : g \in SeenGraphs}
             sources == {<<s, generation[s]>> : s \in UNION {g[2] : g \in SeenGraphs}}
  <2>1. d = [sources |-> sources, children |-> children, model |-> model]
    BY DEF WantedDependency, Dependency
  <2>2. ASSUME NEW g \in SeenGraphs
        PROVE  /\ SeenLeaf(g) \in saved /\ SeenLeaf(g) \in LeafJob
               /\ SeenLeaf(g).dependency.model = model
               /\ SeenLeaf(g).dependency.sources \subseteq sources
               /\ g[2] \subseteq live
    <3>1. SeenLeaf(g) # Nothing /\ g \in Graphs /\ Selected(g)
      BY <1>3, <1>8 DEF WantedParent, Paired, Level
    <3>2. Leaf(g) \in Leaves /\ Leaf(g) \in Artifact
      BY <3>1, ArtifactKinds DEF Artifact
    <3>3. /\ SeenLeaf(g) \in saved /\ SeenLeaf(g) \in AnyJob
          /\ SeenLeaf(g).artifact = Leaf(g) /\ SeenLeaf(g).dependency = LeafDependency(g)
      BY <3>1, <3>2, RestoredFacts DEF SeenLeaf
    <3>4. PICK s \in live : /\ g[2] = {s}
                            /\ LeafDependency(g) = [sources |-> {<<s, generation[s]>>},
                                                    children |-> {latest[g]}, model |-> model]
      BY <3>1, SelectedGraph
    <3>5. LeafDependency(g).sources = {<<s, generation[s]>>} /\ LeafDependency(g).model = model
      BY <3>4
    <3>6. <<s, generation[s]>> \in sources
      BY <3>4
    <3> HIDE DEF sources
    <3> QED BY <3>2, <3>3, <3>4, <3>5, <3>6, JobFacts
  <2>3. /\ children \subseteq saved /\ children \subseteq LeafJob
        /\ \A c \in children : c.dependency.model = model /\ c.dependency.sources \subseteq sources
    <3> HIDE DEF sources
    <3> QED BY <2>2
  <2>4. \A p \in sources : p \in Source \X Nat /\ p[2] <= generation[p[1]]
    BY <1>6, <2>2
  <2>5. Parent(SeenGraphs) \in Parents
    BY <1>3, ArtifactKinds
  <2>6. P.artifact = Parent(SeenGraphs) /\ P.dependency = d /\ P.attempt = 0
    BY DEF Attempt
  <2>7. model \in Model
    BY <1>1 DEF PlanningTypeOK
  <2> HIDE DEF children, sources
  <2>8. P \in ParentJob
    BY <2>1, <2>3, <2>4, <2>5, <2>7 DEF Attempt, ParentJob, JobsOver
  <2>9. d.sources = sources /\ d.children = children /\ d.model = model
    BY <2>1
  <2> HIDE DEF P, d
  <2>10. P \in AnyJob /\ P \notin GraphJob /\ P \notin LeafJob
    <3>1. P \in AnyJob
      BY <2>8 DEF AnyJob
    <3>2. Parent(SeenGraphs) \notin Graphs /\ Parent(SeenGraphs) \notin Leaves
      BY <2>5, ArtifactKinds
    <3> QED BY <2>6, <3>1, <3>2, JobFacts
  <2>11. Shape(P)
    BY <2>3, <2>6, <2>9, <2>10 DEF Shape
  <2>12. ~Known(Parent(SeenGraphs), d)
    BY <1>8 DEF WantedParent, d
  <2> QED BY <2>3, <2>4, <2>6, <2>9, <2>11, <2>12 DEF Plannable
<1>9. \A k \in WantedReports : \/ \E g \in G : k = Attempt(Leaf(g), LeafDependency(g), 0)
                               \/ WantedParent /\ k = P
  <2> HIDE DEF G, P
  <2> QED BY <1>2
<1>10. \A k \in WantedReports : Plannable(k)
  <2> HIDE DEF G, P
  <2> QED BY <1>7, <1>8, <1>9
<1>11. ASSUME NEW i \in WantedReports, NEW k \in WantedReports, Alike(i, k) PROVE i = k
  <2>1. \A g, f : Attempt(Leaf(g), LeafDependency(g), 0).artifact = Leaf(g)
                  /\ P.artifact = Parent(SeenGraphs) /\ Leaf(g) # Parent(f)
    <3>1. \A g, f : Leaf(g)[1] = "leaf" /\ Parent(f)[1] = "parent"
      BY DEF Leaf, Parent
    <3>2. \A g, f : Leaf(g) # Parent(f)
      BY <3>1
    <3> QED BY <3>2 DEF Attempt
  <2>2. i.artifact = k.artifact
    BY <1>11 DEF Alike
  <2> HIDE DEF G, P
  <2>3. CASE \E g \in G : i = Attempt(Leaf(g), LeafDependency(g), 0)
    <3>1. PICK g \in G : i = Attempt(Leaf(g), LeafDependency(g), 0)
      BY <2>3
    <3>2. PICK f \in G : k = Attempt(Leaf(f), LeafDependency(f), 0)
      BY <1>9, <2>1, <2>2, <3>1
    <3>3. Leaf(g) = Leaf(f)
      BY <2>1, <2>2, <3>1, <3>2
    <3>4. g = f
      BY <3>3, ArtifactKinds
    <3> QED BY <3>1, <3>2, <3>4
  <2>4. CASE i = P
    BY <1>9, <2>1, <2>2, <2>4
  <2> QED BY <1>9, <2>3, <2>4
<1> QED BY <1>4, <1>10, <1>11

(* A current leaf is the one its graph wants. *)
LEMMA CurrentLeafSeen ==
    ASSUME StoreInOrder, configured = model, ~returned,
           NEW j \in Jobs, Current(j), j \in saved, j \in LeafJob
    PROVE  \E g \in SeenGraphs : j.artifact = Leaf(g) /\ SeenLeaf(g) = j
<1>1. PlanningTypeOK /\ JobsMade /\ VersionsSaved /\ CurrentStands
  BY DEF StoreInOrder
<1>2. Shape(j) /\ j \in AnyJob /\ j # Nothing /\ j.artifact \in Artifact
  BY <1>1, VersionFacts, JobFacts
<1>3. PICK c \in j.dependency.children : j.artifact = Leaf(c.artifact)
  BY <1>2 DEF Shape
<1>4. /\ c \in Jobs /\ Current(c) /\ c \in saved /\ c \in GraphJob
      /\ \A i \in j.dependency.children : latest[i.artifact] = i
  BY <1>1, <1>3, CurrentChildren, JobFacts
<1>5. PICK K : K = configured
  OBVIOUS
<1>6. c.artifact \in Resting({K})
  BY <1>1, <1>4, <1>5, CurrentRests
<1>7. c.artifact \in SeenGraphs
  BY <1>1, <1>4, <1>5, <1>6, VersionFacts, JobFacts DEF SeenGraphs, Selected
<1>8. latest[j.artifact] = j
  BY <1>1 DEF CurrentStands
<1>9. j.dependency = LeafDependency(c.artifact)
  BY <1>1, <1>3, <1>4, CurrentDependency DEF Current, ChildrenCurrent
<1>10. SeenLeaf(c.artifact) = j
  BY <1>2, <1>3, <1>8, <1>9, RestoredFacts DEF SeenLeaf
<1> QED BY <1>3, <1>7, <1>10

(* The end of a planning: reports rest on what can be selected, and what is *)
(* wanted and not under way is there or has failed.                        *)
LEMMA CommunitiesStep ==
    ASSUME PlanningIInv, PlanCommunities
    PROVE  PlanningIInv'
<1>1. /\ StoreInOrder /\ StepsInOrder
      /\ PlanningTypeOK /\ JobsMade /\ VersionsSaved /\ AttemptsInOrder /\ CurrentStands
  BY DEF PlanningIInv, StoreInOrder
<1>2. /\ step = "communities" /\ step' = "planned"
      /\ UNCHANGED <<generation, live, saved, modelVars>>
      /\ SeenGraphs = {} => UNCHANGED <<work, latest>>
      /\ SeenGraphs # {} => \E new \in Taken(WantedReports, Room) : Insert(new)
      /\ DOMAIN latest' = Artifact
      /\ \A g \in Graphs : latest'[g] = latest[g]
      /\ SeenGraphs # {} => \A g \in Graphs :
            latest'[Leaf(g)] = IF g \in SeenGraphs THEN SeenLeaf(g) ELSE Nothing
      /\ SeenGraphs # {} /\ Paired => latest'[Parent(SeenGraphs)] = SeenParent
      /\ \A a \in Parents : latest'[a] \in {latest[a], Nothing} \/ (a = Parent(SeenGraphs) /\ latest'[a] = SeenParent)
  BY <1>1, CommunitiesAction
<1>3. configured = model
  BY <1>1, <1>2 DEF StepsInOrder
<1>4. /\ \A g \in Graphs : /\ g \in Artifact /\ Leaf(g) \in Leaves /\ Leaf(g) \in Artifact
      /\ SeenGraphs \subseteq Graphs
      /\ Parent(SeenGraphs) \in Parents /\ Parent(SeenGraphs) \in Artifact
  BY ArtifactKinds DEF Artifact, SeenGraphs
<1>5. /\ IsFiniteSet(WantedReports) /\ \A k \in WantedReports : Plannable(k)
      /\ \A i, k \in WantedReports : Alike(i, k) => i = k
  BY <1>1, <1>3, ReportsPlannable
<1>6. Room \in Nat /\ (Active = {} => Room # 0)
  BY <1>1, RoomFacts
<1>7. PICK new : /\ new \subseteq WantedReports /\ IsFiniteSet(new) /\ Insert(new)
                 /\ SeenGraphs # {} /\ Active = {} /\ new = {} => WantedReports = {}
  <2>1. CASE SeenGraphs = {}
    <3>1. Insert({})
      <4>1. work = [j \in Jobs |-> work[j]] /\ Jobs \cup {} = Jobs
        BY <1>1 DEF PlanningTypeOK
      <4>2. [j \in Jobs \cup {} |-> IF j \in Jobs THEN work[j] ELSE "planned"] = [j \in Jobs |-> work[j]]
        BY <4>1
      <4> QED BY <1>2, <2>1, <4>1, <4>2 DEF Insert
    <3> QED BY <2>1, <3>1, FS_EmptySet
  <2>2. CASE SeenGraphs # {}
    <3>1. PICK new \in Taken(WantedReports, Room) : Insert(new)
      BY <1>2, <2>2
    <3>2. new \subseteq WantedReports /\ IsFiniteSet(new) /\ (Room # 0 /\ new = {} => WantedReports = {})
      BY <1>5, <1>6, TakenFacts
    <3> QED BY <1>6, <3>1, <3>2
  <2> QED BY <2>1, <2>2
<1>8. \A a \in Artifact : latest'[a] # Nothing => latest'[a] \in saved /\ latest'[a].artifact = a
  <2> SUFFICES ASSUME NEW a \in Artifact, latest'[a] # Nothing
               PROVE  latest'[a] \in saved /\ latest'[a].artifact = a
    OBVIOUS
  <2>1. latest[a] # Nothing => latest[a] \in saved /\ latest[a].artifact = a
    BY <1>1 DEF VersionsSaved
  <2>2. CASE latest'[a] = latest[a]
    BY <2>1, <2>2
  <2>3. CASE a \in Leaves /\ latest'[a] # latest[a]
    <3>1. PICK g \in Graphs : a = Leaf(g)
      BY <2>3 DEF Leaves
    <3>2. latest'[a] = SeenLeaf(g)
      BY <1>2, <2>3, <3>1
    <3> QED BY <1>1, <3>1, <3>2, RestoredFacts DEF SeenLeaf
  <2>4. CASE a \in Parents /\ latest'[a] # latest[a]
    <3>1. a = Parent(SeenGraphs) /\ latest'[a] = SeenParent
      BY <1>2, <2>4
    <3> QED BY <1>1, <3>1, RestoredFacts DEF SeenParent
  <2> QED BY <1>2, <2>2, <2>3, <2>4 DEF Artifact
<1>9. ASSUME ~returned, NEW j \in Jobs, Current(j), j \in saved, j \in GraphJob \cup LeafJob
      PROVE  latest'[j.artifact] = j
  <2>1. latest[j.artifact] = j /\ j \in AnyJob
    BY <1>1, <1>9, VersionFacts DEF CurrentStands
  <2>2. CASE j \in GraphJob
    BY <1>2, <2>1, <2>2, JobFacts
  <2>3. CASE j \in LeafJob
    <3>1. PICK g \in SeenGraphs : j.artifact = Leaf(g) /\ SeenLeaf(g) = j
      BY <1>1, <1>3, <1>9, <2>3, CurrentLeafSeen
    <3> QED BY <1>2, <1>4, <3>1
  <2> QED BY <1>9, <2>2, <2>3
<1>10. /\ PlanningTypeOK' /\ JobsMade' /\ VersionsSaved' /\ AttemptsInOrder' /\ CurrentStands'
       /\ Jobs' = Jobs \cup new /\ Active' = Active \cup new
       /\ \A j \in Jobs : work'[j] = work[j]
  <2>1. \A k \in new : Plannable(k)
    BY <1>5, <1>7
  <2>2. \A i, k \in new : Alike(i, k) => i = k
    BY <1>5, <1>7
  <2> QED BY <1>1, <1>2, <1>3, <1>7, <1>8, <1>9, <2>1, <2>2, InsertStep
<1>11. StepsInOrder'
  BY <1>1, <1>2, StepsKept
<1>12. WantedKnown'
  BY <1>2 DEF WantedKnown
<1>13. /\ UNCHANGED <<generation, live, configured, model, seen, returned>>
       /\ \A d : DependenciesCurrent(d)' <=> DependenciesCurrent(d)
  BY <1>2 DEF modelVars, DependenciesCurrent
\* What can be selected afterwards: the same graphs, and the reports restored.
<1>14. \A a \in Artifact : Selected(a)' <=> ChosenOn(a)'
  BY SelectedLayersNext
<1>15. \A g \in Graphs : Selected(g)' <=> Selected(g)
  <2> SUFFICES ASSUME NEW g \in Graphs PROVE Selected(g)' <=> Selected(g)
    OBVIOUS
  <2>1. latest[g] # Nothing => latest[g].dependency.children = {}
    BY <1>1, <1>4, VersionFacts, JobFacts
  <2>2. ChosenOn(g)' <=> ChosenOn(g)
    BY <1>2, <1>13, <2>1 DEF ChosenOn
  <2> QED BY <1>4, <1>14, <2>2, SelectedLayers
<1>16. ASSUME NEW g \in SeenGraphs
       PROVE  /\ g \in Graphs /\ Selected(g) /\ LeafDependency(g)' = LeafDependency(g)
              /\ LeafDependency(g).model = model /\ DependenciesCurrent(LeafDependency(g))
              /\ LeafDependency(g).children = {latest[g]} /\ latest[g].artifact = g
              /\ \E s \in live : g[2] = {s}
  <2>1. g \in Graphs /\ Selected(g)
    BY DEF SeenGraphs
  <2>2. PICK s \in live : /\ g[2] = {s}
                          /\ LeafDependency(g) = [sources |-> {<<s, generation[s]>>},
                                                  children |-> {latest[g]}, model |-> model]
    BY <1>1, <1>3, <2>1, SelectedGraph
  <2>3. latest[g].artifact = g
    BY <1>1, <1>3, <2>1, SelectedGraph
  <2>4. LeafDependency(g)' = LeafDependency(g)
    BY <1>2, <1>13, <2>1 DEF LeafDependency, Dependency
  <2>5. /\ LeafDependency(g).sources = {<<s, generation[s]>>} /\ LeafDependency(g).model = model
        /\ LeafDependency(g).children = {latest[g]}
    BY <2>2
  <2>6. DependenciesCurrent(LeafDependency(g))
    BY <2>5 DEF DependenciesCurrent
  <2> QED BY <2>1, <2>2, <2>3, <2>4, <2>5, <2>6
<1>17. ASSUME NEW g \in SeenGraphs, SeenLeaf(g) # Nothing
       PROVE  Selected(Leaf(g))' /\ latest'[Leaf(g)] = SeenLeaf(g)
  <2>1. latest'[Leaf(g)] = SeenLeaf(g)
    BY <1>2, <1>4
  <2>2. SeenLeaf(g).dependency = LeafDependency(g)
    BY <1>1, <1>4, <1>17, RestoredFacts DEF SeenLeaf
  <2>3. Selected(g)' /\ Below(Leaf(g), g) /\ latest'[g] = latest[g]
    BY <1>2, <1>4, <1>15, <1>16 DEF Below
  <2>4. ChosenOn(Leaf(g))'
    BY <1>3, <1>13, <1>16, <1>17, <2>1, <2>2, <2>3 DEF ChosenOn
  <2> QED BY <1>4, <1>14, <2>1, <2>4
<1>18. ReportsFollowGraphs'
  <2> SUFFICES ASSUME NEW f \in Graphs, Selected(f)', NEW g \in Graphs
               PROVE  Selected(Leaf(g))' \/ latest'[Leaf(g)] = Nothing
    BY DEF ReportsFollowGraphs
  <2>1. SeenGraphs # {}
    BY <1>15 DEF SeenGraphs
  <2> QED BY <1>2, <1>17, <2>1
\* What is covered afterwards, when there is nothing to wait for.
<1>19. \A a, d : Failed(a, d) => Failed(a, d)'
  BY <1>10 DEF Failed
<1>20. \A s : UnitDependency(s)' = UnitDependency(s)
  BY <1>13 DEF UnitDependency, Dependency
<1>21. ASSUME Active' = {} PROVE (~returned => UnitsCovered') /\ (seen = {model} => LinksCovered')
  <2>1. (~returned => UnitsCovered) /\ (seen = {model} => LinksCovered)
    BY <1>2, <1>10, <1>21, GraphsCovered
  <2>2. live \subseteq Source
    BY <1>1 DEF PlanningTypeOK
  <2>3. UnitsCovered => UnitsCovered'
    BY <1>13, <1>15, <1>19, <1>20, <2>2, ArtifactKinds DEF UnitsCovered
  <2>4. LinksCovered => LinksCovered'
    BY <1>13, <1>15, <1>19, <1>20, <2>2, ArtifactKinds DEF LinksCovered
  <2> QED BY <2>1, <2>3, <2>4
<1>22. ASSUME Active' = {}, ~returned, SeenGraphs # {} PROVE ReportsCovered'
  <2>1. Active = {} /\ WantedReports = {}
    BY <1>7, <1>10, <1>22
  <2>2. {g \in Graphs : Selected(g)'} = SeenGraphs
    BY <1>15 DEF SeenGraphs
  <2>3. ASSUME NEW a, NEW d, Known(a, d), Versions(a, d) = {}, d.model = model, DependenciesCurrent(d)
        PROVE  Failed(a, d)'
    <3>1. AnswersSaved
      BY DEF PlanningIInv
    <3> QED BY <1>1, <1>2, <1>3, <1>19, <1>22, <2>1, <2>3, <3>1, KnownFails
  <2>4. ASSUME NEW g \in SeenGraphs
        PROVE  Selected(Leaf(g))' \/ Failed(Leaf(g), LeafDependency(g))'
    <3>1. CASE SeenLeaf(g) # Nothing
      BY <1>17, <3>1
    <3>2. CASE SeenLeaf(g) = Nothing
      <4>1. Known(Leaf(g), LeafDependency(g))
        BY <2>1, <3>2 DEF WantedReports, WantedLeaf
      <4>2. Versions(Leaf(g), LeafDependency(g)) = {}
        BY <1>1, <1>4, <3>2, RestoredFacts DEF SeenLeaf
      <4>3. PICK d : d = LeafDependency(g)
        OBVIOUS
      <4>4. Failed(Leaf(g), d)'
        BY <1>16, <2>3, <4>1, <4>2, <4>3
      <4>5. LeafDependency(g)' = d
        BY <1>16, <4>3
      <4> QED BY <4>4, <4>5
    <3> QED BY <3>1, <3>2
  <2>5. ASSUME Cardinality(SeenGraphs) > 1, \A g \in SeenGraphs : Selected(Leaf(g))',
               \A s \in live : UnitGraph(s) \in SeenGraphs,
               NEW P, P = Parent(SeenGraphs), NEW d, d = WantedDependency
        PROVE  Selected(P)' \/ Failed(P, d)'
    <3>1. \A g \in SeenGraphs : SeenLeaf(g) # Nothing /\ latest'[Leaf(g)] = SeenLeaf(g)
      BY <1>2, <1>4, <1>14, <1>22, <2>5 DEF ChosenOn
    <3>2. Paired /\ latest'[P] = SeenParent /\ P \in Artifact /\ P \in Parents
      BY <1>2, <1>4, <1>22, <2>5, <3>1 DEF Paired, Level
    <3>3. d.model = model /\ d.children = {SeenLeaf(g) : g \in SeenGraphs} /\ DependenciesCurrent(d)
      <4>1. \A s \in UNION {g[2] : g \in SeenGraphs} : s \in live
        BY <1>16
      <4>2. d.sources = {<<s, generation[s]>> : s \in UNION {g[2] : g \in SeenGraphs}}
        BY <2>5 DEF WantedDependency, Dependency
      <4>3. d.model = model /\ d.children = {SeenLeaf(g) : g \in SeenGraphs}
        BY <2>5 DEF WantedDependency, Dependency
      <4> QED BY <4>1, <4>2, <4>3 DEF DependenciesCurrent
    <3>4. CASE SeenParent # Nothing
      <4>1. SeenParent.dependency = d
        BY <1>1, <1>4, <2>5, <3>4, RestoredFacts DEF SeenParent
      <4>2. ASSUME NEW c \in d.children
            PROVE  latest'[c.artifact] = c /\ Below(P, c.artifact) /\ Selected(c.artifact)'
        <5>1. PICK g \in SeenGraphs : c = SeenLeaf(g)
          BY <3>3, <4>2
        <5>2. c.artifact = Leaf(g)
          BY <1>1, <1>4, <3>1, <5>1, RestoredFacts DEF SeenLeaf
        <5> QED BY <1>4, <2>5, <3>1, <3>2, <5>1, <5>2 DEF Below
      <4>3. ChosenOn(P)'
        BY <1>3, <1>13, <3>2, <3>3, <3>4, <4>1, <4>2 DEF ChosenOn
      <4> QED BY <1>14, <3>2, <4>3
    <3>5. CASE SeenParent = Nothing
      <4>1. Known(P, d)
        BY <2>1, <2>5, <3>2, <3>5 DEF WantedReports, WantedParent
      <4>2. Versions(P, d) = {}
        BY <1>1, <1>4, <2>5, <3>5, RestoredFacts DEF SeenParent
      <4> QED BY <2>3, <3>3, <4>1, <4>2
    <3> QED BY <3>4, <3>5
  <2>6. PICK G, P, d : G = SeenGraphs /\ P = Parent(SeenGraphs) /\ d = WantedDependency
    OBVIOUS
  <2>7. ASSUME \A g \in G : Selected(Leaf(g))'
        PROVE  Dependency(UNION {g[2] : g \in G}, {latest[Leaf(g)] : g \in G})' = d
    <3>1. \A g \in G : latest'[Leaf(g)] = SeenLeaf(g)
      BY <1>2, <1>4, <1>22, <2>6
    <3>2. {latest'[Leaf(g)] : g \in G} = {SeenLeaf(g) : g \in SeenGraphs}
      BY <2>6, <3>1
    <3> QED BY <1>13, <2>6, <3>2 DEF Dependency, WantedDependency
  <2>8. /\ \A g \in G : Selected(Leaf(g))' \/ Failed(Leaf(g), LeafDependency(g))'
        /\ ( /\ Cardinality(G) > 1 /\ \A g \in G : Selected(Leaf(g))'
             /\ \A s \in live : UnitGraph(s) \in G ) => Selected(P)' \/ Failed(P, d)'
    BY <2>4, <2>5, <2>6
  <2> QED BY <1>13, <2>2, <2>6, <2>7, <2>8 DEF ReportsCovered
<1>23. ASSUME SeenGraphs = {} PROVE ReportsCovered'
  <2>1. {g \in Graphs : Selected(g)'} = {}
    BY <1>15, <1>23 DEF SeenGraphs
  <2>2. Cardinality({}) = 0
    BY FS_EmptySet
  <2> QED BY <2>1, <2>2 DEF ReportsCovered
<1>24. AllCovered'
  BY <1>2, <1>13, <1>21, <1>22, <1>23 DEF AllCovered
<1>25. AnswersSaved'
  BY <1>2, <1>7, AnswersPlanned DEF PlanningIInv
<1> QED BY <1>10, <1>11, <1>12, <1>18, <1>24, <1>25 DEF PlanningIInv, StoreInOrder

-----------------------------------------------------------------------------
(* The invariant holds at the start. *)
LEMMA PlanningStarts == PlanningInit => PlanningIInv
<1> SUFFICES ASSUME PlanningInit PROVE PlanningIInv
  OBVIOUS
<1>1. /\ generation = [s \in Source |-> 1] /\ live = Source /\ work = [j \in {} |-> "planned"]
      /\ latest = [a \in Artifact |-> Nothing] /\ saved = {}
      /\ model \in Model /\ configured = model /\ seen = {model} /\ returned = FALSE /\ step = "model"
  BY DEF PlanningInit
<1>2. Jobs = {} /\ work \in [Jobs -> {"planned", "completed", "failed", "refused", "obsolete"}]
  BY <1>1 DEF Jobs
<1>3. PlanningTypeOK
  BY <1>1, <1>2, FS_EmptySet DEF PlanningTypeOK
<1>4. JobsMade /\ VersionsSaved /\ AttemptsInOrder /\ CurrentStands /\ AnswersSaved
  BY <1>1, <1>2 DEF JobsMade, VersionsSaved, AttemptsInOrder, CurrentStands, AnswersSaved
<1>5. \A g \in Graphs : latest[g] = Nothing
  BY <1>1 DEF Artifact
<1>6. StepsInOrder /\ WantedKnown /\ AllCovered /\ ReportsFollowGraphs
  BY <1>1, <1>5 DEF StepsInOrder, WantedKnown, AllCovered, ReportsFollowGraphs
<1> QED BY <1>3, <1>4, <1>6 DEF PlanningIInv, StoreInOrder

(* Nothing of it changes while nothing changes. *)
LEMMA PlanningStutters ==
    ASSUME PlanningIInv, UNCHANGED planningVars
    PROVE  PlanningIInv'
<1>1. UNCHANGED <<generation, live, work, orphan, latest, saved, configured, model, seen, returned, step>>
  BY DEF planningVars, storeVars, modelVars
<1>2. /\ Jobs' = Jobs /\ Active' = Active
      /\ \A d : DependenciesCurrent(d)' <=> DependenciesCurrent(d)
      /\ \A s : UnitDependency(s)' = UnitDependency(s)
      /\ \A g : LeafDependency(g)' = LeafDependency(g)
      /\ \A a, d : Known(a, d)' <=> Known(a, d)
      /\ \A a, d : Failed(a, d)' <=> Failed(a, d)
  BY <1>1 DEF Jobs, Active, DependenciesCurrent, UnitDependency, LeafDependency, Dependency, Known, Failed
<1>3. PlanningTypeOK /\ JobsMade /\ VersionsSaved
  BY DEF PlanningIInv, StoreInOrder
<1>4. StoreInOrder'
  <2>1. PlanningTypeOK' /\ JobsMade' /\ VersionsSaved' /\ AttemptsInOrder'
    BY <1>1, <1>2 DEF PlanningIInv, StoreInOrder, PlanningTypeOK, JobsMade, VersionsSaved, AttemptsInOrder
  <2>2. CurrentStands'
    BY <1>1, <1>2 DEF PlanningIInv, StoreInOrder, CurrentStands, Current
  <2> QED BY <2>1, <2>2 DEF StoreInOrder
<1>15. AnswersSaved'
  BY <1>1, <1>2 DEF PlanningIInv, AnswersSaved, Current
<1>5. StepsInOrder'
  BY <1>1, <1>2 DEF PlanningIInv, StepsInOrder
<1>6. ASSUME NEW a, NEW s, Known(a, UnitDependency(s)) PROVE Known(a, UnitDependency(s))'
  BY <1>2, <1>6 DEF Known
<1>7. WantedKnown'
  <2>1. /\ step' \in {"links", "communities"} /\ Active' = {} =>
            \A s \in live' : Known(UnitGraph(s), UnitDependency(s))
        /\ step' = "communities" /\ Active' = {} =>
            \A s \in live' \cap Linked :
                latest'[LinkGraph(s)] # Nothing \/ Known(LinkGraph(s), UnitDependency(s))
    BY <1>1, <1>2 DEF PlanningIInv, WantedKnown
  <2> QED BY <1>6, <2>1 DEF WantedKnown
<1>8. \A a \in Artifact : Selected(a)' <=> Selected(a)
  <2>1. \A a \in Artifact : Selected(a)' <=> ChosenOn(a)'
    BY SelectedLayersNext
  <2>2. ASSUME NEW a \in Artifact, latest[a] # Nothing =>
                  \A c \in latest[a].dependency.children : Selected(c.artifact)' <=> Selected(c.artifact)
        PROVE  Selected(a)' <=> Selected(a)
    <3>1. ChosenOn(a)' <=> ChosenOn(a)
      BY <1>1, <1>2, <2>2 DEF ChosenOn
    <3> QED BY <2>1, <3>1, SelectedLayers
  <2>3. \A a \in Artifact : latest[a] # Nothing => latest[a] \in AnyJob /\ latest[a].artifact = a
    BY <1>3, VersionFacts
  <2>4. ASSUME NEW a \in Graphs PROVE Selected(a)' <=> Selected(a)
    BY <2>2, <2>3, <2>4, JobFacts DEF Artifact
  <2>5. ASSUME NEW a \in Leaves PROVE Selected(a)' <=> Selected(a)
    <3>1. latest[a] # Nothing => \A c \in latest[a].dependency.children : c \in GraphJob /\ c \in AnyJob
      BY <2>3, JobFacts DEF Artifact, AnyJob
    <3>2. latest[a] # Nothing => \A c \in latest[a].dependency.children : c.artifact \in Graphs
      BY <3>1, JobFacts
    <3> QED BY <2>2, <2>4, <3>2 DEF Artifact
  <2>6. ASSUME NEW a \in Parents PROVE Selected(a)' <=> Selected(a)
    <3>1. latest[a] # Nothing => \A c \in latest[a].dependency.children : c \in LeafJob /\ c \in AnyJob
      BY <2>3, JobFacts DEF Artifact, AnyJob
    <3>2. latest[a] # Nothing => \A c \in latest[a].dependency.children : c.artifact \in Leaves
      BY <3>1, JobFacts
    <3> QED BY <2>2, <2>5, <3>2 DEF Artifact
  <2> QED BY <2>4, <2>5, <2>6 DEF Artifact
<1>9. \A g \in Graphs : Selected(g)' <=> Selected(g)
  BY <1>8 DEF Artifact
<1>10. ReportsFollowGraphs'
  <2>1. \A g \in Graphs : Selected(Leaf(g))' <=> Selected(Leaf(g))
    BY <1>8, ArtifactKinds DEF Artifact
  <2> QED BY <1>1, <1>2, <1>9, <2>1 DEF PlanningIInv, ReportsFollowGraphs
<1>11. UnitsCovered => UnitsCovered'
  BY <1>1, <1>2, <1>3, <1>9, ArtifactKinds DEF UnitsCovered, PlanningTypeOK
<1>12. LinksCovered => LinksCovered'
  BY <1>1, <1>2, <1>3, <1>9, ArtifactKinds DEF LinksCovered, PlanningTypeOK
<1>13. ReportsCovered => ReportsCovered'
  <2>1. PICK G, d : /\ G = SeenGraphs
                    /\ d = Dependency(UNION {g[2] : g \in G}, {latest[Leaf(g)] : g \in G})
    OBVIOUS
  <2>2. {g \in Graphs : Selected(g)} = G /\ {g \in Graphs : Selected(g)'} = G
    BY <1>9, <2>1 DEF SeenGraphs
  <2>3. Dependency(UNION {g[2] : g \in G}, {latest[Leaf(g)] : g \in G})' = d
    BY <1>1, <2>1 DEF Dependency
  <2>4. G \subseteq Graphs
    BY <2>2
  <2>5. \A g \in G : Selected(Leaf(g))' <=> Selected(Leaf(g))
    BY <1>8, <2>4, ArtifactKinds DEF Artifact
  <2>6. Selected(Parent(G))' <=> Selected(Parent(G))
    BY <1>8, <2>4, ArtifactKinds DEF Artifact
  <2> SUFFICES ASSUME ReportsCovered PROVE ReportsCovered'
    OBVIOUS
  <2>7. /\ \A g \in G : Selected(Leaf(g)) \/ Failed(Leaf(g), LeafDependency(g))
        /\ ( /\ Cardinality(G) > 1 /\ \A g \in G : Selected(Leaf(g))
             /\ \A s \in live : UnitGraph(s) \in G ) => Selected(Parent(G)) \/ Failed(Parent(G), d)
    BY <2>1, <2>2 DEF ReportsCovered
  <2>8. ASSUME NEW a, NEW g, Failed(a, LeafDependency(g)) PROVE Failed(a, LeafDependency(g))'
    BY <1>2, <2>8 DEF Failed
  <2>9. /\ \A g \in G : Selected(Leaf(g))' \/ Failed(Leaf(g), LeafDependency(g))'
        /\ ( /\ Cardinality(G) > 1 /\ \A g \in G : Selected(Leaf(g))'
             /\ \A s \in live' : UnitGraph(s) \in G ) => Selected(Parent(G))' \/ Failed(Parent(G), d)'
    BY <1>1, <1>2, <2>5, <2>6, <2>7, <2>8
  <2> QED BY <2>2, <2>3, <2>9 DEF ReportsCovered
<1>14. AllCovered'
  BY <1>1, <1>2, <1>11, <1>12, <1>13 DEF PlanningIInv, AllCovered
<1> QED BY <1>4, <1>5, <1>7, <1>10, <1>14, <1>15 DEF PlanningIInv

(* Every step keeps the invariant. *)
LEMMA PlanningGoesOn == PlanningIInv /\ [PlanningNext]_planningVars => PlanningIInv'
<1> SUFFICES ASSUME PlanningIInv, [PlanningNext]_planningVars PROVE PlanningIInv'
  OBVIOUS
<1>2. CASE \E s \in Source : ScanChanges(s)
  BY <1>2, ScanStep
<1>3. CASE ScanFindsNothing \/ TickEnds \/ StoreBusy \/ Stop \/ PlannerDies
  <2>1. /\ UNCHANGED <<generation, live, work, latest, saved, configured, model, seen, returned>>
        /\ step' \in {"scan", "reconcile", "model", "gone"}
        /\ step # "gone" \/ step' = "gone"
        /\ step' = "model" =>
              step \in {"model", "recover", "retries", "extract", "links", "communities", "planned", "tick"}
    BY <1>3 DEF ScanFindsNothing, TickEnds, StoreBusy, Stop, PlannerDies, Ticking, Mishap, Stays,
                storeVars, modelVars
  <2> QED BY <2>1, IdleStep
<1>4. CASE \E m \in Model : Start(m)
  BY <1>4, StartStep
<1>5. CASE ReconcileSources
  BY <1>5, ReconcileStep
<1>6. CASE ConfigureModel
  BY <1>6, ConfigureStep
<1>7. CASE ReactivateResults
  BY <1>7, ReactivateStep
<1>8. CASE PlanRetries
  BY <1>8, RetriesStep
<1>9. CASE PlanExtractions
  BY <1>9, ExtractStep
<1>10. CASE PlanLinks
  BY <1>10, LinksStep
<1>11. CASE PlanCommunities
  BY <1>11, CommunitiesStep
<1>12. ASSUME NEW j \in Active, Obsolete(j) PROVE PlanningIInv'
  BY <1>12, TickStep DEF Obsolete
<1>13. ASSUME NEW j \in Active, Complete(j) PROVE PlanningIInv'
  BY <1>13, TickStep DEF Complete
<1>14. ASSUME NEW j \in Active, NEW end \in {"failed", "refused"}, Fail(j, end) PROVE PlanningIInv'
  BY <1>14, TickStep DEF Fail
<1>15. CASE UNCHANGED planningVars
  BY <1>15, PlanningStutters
<1>16. ASSUME NEW j \in Active, AnswerUnsaved(j) PROVE PlanningIInv'
  BY <1>16, UnsavedStep
<1> QED BY <1>2, <1>3, <1>4, <1>5, <1>6, <1>7, <1>8, <1>9, <1>10, <1>11, <1>12, <1>13, <1>14, <1>15, <1>16
        DEF PlanningNext

(* And it implies what is promised. *)
LEMMA PlanningSays == PlanningIInv => PlanningInv
<1> SUFFICES ASSUME PlanningIInv PROVE PlanningInv
  OBVIOUS
<1>1. PlanningTypeOK /\ JobsMade /\ VersionsSaved /\ AttemptsInOrder /\ AllCovered /\ ReportsFollowGraphs
  BY DEF PlanningIInv, StoreInOrder
<1>2. NothingForgotten
  BY <1>1 DEF NothingForgotten, AllPlanned, AllCovered
<1>3. OneAttempt
  <2> SUFFICES ASSUME NEW i \in Active, NEW j \in Jobs \ {i}, Alike(i, j)
               PROVE  work[j] \in {"failed", "obsolete"}
    BY DEF OneAttempt, Alike
  <2>1. /\ i \in Jobs /\ work[i] = "planned" /\ i.attempt \in Nat /\ j.attempt \in Nat
        /\ i = Attempt(i.artifact, i.dependency, i.attempt)
        /\ j = Attempt(j.artifact, j.dependency, j.attempt)
    BY <1>1, VersionFacts, JobFacts DEF Active
  <2>2. i.attempt # j.attempt
    BY <2>1 DEF Alike
  <2>3. CASE i.attempt < j.attempt
    BY <1>1, <2>1, <2>3 DEF AttemptsInOrder
  <2>4. CASE j.attempt < i.attempt
    BY <1>1, <2>1, <2>4 DEF AttemptsInOrder, Alike
  <2> QED BY <2>1, <2>2, <2>3, <2>4
<1> QED BY <1>1, <1>2, <1>3 DEF PlanningInv

(* For any sources, links and models, any capacity and number of retries,  *)
(* and any number of revisions, switches of the model, failed jobs, deaths *)
(* and busy stores: when a planning ends with nothing under way, what the  *)
(* configured model is to give has been given or has failed for good; work *)
(* of one dependency is not done twice; and no report outlives its graph.  *)
THEOREM PlanningHolds == PlanningSpec => []PlanningInv
<1>1. PlanningInit => PlanningIInv
  BY PlanningStarts
<1>2. PlanningIInv /\ [PlanningNext]_planningVars => PlanningIInv'
  BY PlanningGoesOn
<1>3. PlanningIInv => PlanningInv
  BY PlanningSays
<1> QED BY <1>1, <1>2, <1>3, PTL DEF PlanningSpec
=============================================================================
