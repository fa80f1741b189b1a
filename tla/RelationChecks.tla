---------------------------- MODULE RelationChecks ----------------------------
(***************************************************************************)
(* Relations that the factory asks the model to verify, one at a time: a   *)
(* bill merged into an alternative, a bill and the policy it is about, an  *)
(* actor's role in an activity, the president's chair of a body by virtue  *)
(* of office, and an office that the extraction of a unit missed.  Sources *)
(* offer the candidate; the question is a yes or no on fixed passages; the *)
(* answer becomes a graph of two nodes, with or without the edge.          *)
(*                                                                         *)
(* The module follows one candidate.  A revision of its sources may offer  *)
(* it or not, and graphs extracted elsewhere may hold the same edge.  The  *)
(* answer is stored with the job and then projected, and the process may   *)
(* die in between.                                                         *)
(***************************************************************************)
EXTENDS Integers

CONSTANTS Relation,  \* kinds of relation that are verified
          LastIssue, \* bound on the generations of a source
          MaxMisses, \* bound on deaths of the process and failed answers
          NoGraph

ASSUME RelationAssumption ==
    /\ Relation \subseteq {"lineage", "policy", "activity", "chair", "office"}
    /\ LastIssue \in Nat \ {0} /\ MaxMisses \in Nat

VARIABLES
    relation,  \* kind of the candidate
    issue,     \* generation of its sources
    says,      \* what the current revision of each of them says
    checks,    \* per dependency the job: its state, and the edge it verified
    graph,     \* current graph of the check
    unit,      \* current graph extracted from the passage
    elsewhere, \* does a graph of another source hold the edge
    loop,      \* scan, reconcile, plan, planned, full, tick, gone
    misses

relationVars == <<relation, issue, says, checks, graph, unit, elsewhere, loop, misses>>

(* A chair takes the record of the president and the rule of the body. *)
Sources == IF relation = "chair" THEN {"record", "rule"} ELSE {"record"}

(* A revision offers the candidate, binds its ends (identifies the policy, *)
(* names the actor in the passage), and may be used, as far as the kind    *)
(* asks; one that is withdrawn offers nothing.                             *)
Says == [offers : BOOLEAN,
         binds : IF relation \in {"policy", "activity"} THEN BOOLEAN ELSE {TRUE},
         licensed : IF relation = "policy" THEN BOOLEAN ELSE {TRUE}]

RelationInit ==
    /\ relation \in Relation
    /\ issue = [s \in Sources |-> 1]
    /\ says \in [Sources -> Says]
    /\ checks = [d \in {} |-> NoGraph]
    /\ graph = NoGraph /\ unit = NoGraph /\ elsewhere = FALSE
    /\ loop = "plan" /\ misses = 0

Miss == misses < MaxMisses /\ misses' = misses + 1

-----------------------------------------------------------------------------
(* A scan stores a revision under the next generation. *)
ScanStores(s) ==
    /\ loop = "scan" /\ issue[s] < LastIssue
    /\ issue' = [issue EXCEPT ![s] = @ + 1]
    /\ \E new \in Says : says' = [says EXCEPT ![s] = new]
    /\ loop' = "reconcile"
    /\ UNCHANGED <<relation, checks, graph, unit, elsewhere, misses>>

ScanFindsSame ==
    /\ loop = "scan"
    /\ loop' = "reconcile"
    /\ UNCHANGED <<relation, issue, says, checks, graph, unit, elsewhere, misses>>

(* What rests on an earlier generation is withdrawn, here and elsewhere. *)
Kept(g) == IF g # NoGraph /\ g.issue = issue THEN g ELSE NoGraph
ReconcileChecks ==
    /\ loop = "reconcile"
    /\ checks' = [d \in DOMAIN checks |->
                     IF d = issue THEN checks[d]
                     ELSE [state |-> "obsolete", result |-> checks[d].result]]
    /\ graph' = Kept(graph) /\ unit' = Kept(unit)
    /\ elsewhere' \in {FALSE, elsewhere}
    /\ loop' = "plan"
    /\ UNCHANGED <<relation, issue, says, misses>>

-----------------------------------------------------------------------------
(* The candidate is offered by all its sources; an office only next to the *)
(* current extraction of its passage.                                      *)
LinkOffered ==
    /\ \A s \in Sources : says[s].offers
    /\ relation = "office" => unit # NoGraph

(* An answer that no process has projected yet. *)
Projected ==
    IF issue \in DOMAIN checks /\ checks[issue].state = "completed"
    THEN checks[issue].result ELSE graph

(* A graph with this edge: its own, the passage's or another source's.     *)
(* Roles in activities and chairs are verified regardless.                 *)
Holds(g) == g # NoGraph /\ g.edge
Existing(own) ==
    /\ relation \in {"lineage", "policy", "office"}
    /\ Holds(own) \/ Holds(unit) \/ elsewhere

Planned == [state |-> "planned", result |-> NoGraph]

(* One planning: failed checks are tried again as far as there is room.  It *)
(* does not get to the candidate when the queue is full, when the          *)
(* candidates before it take the room that is left, or when the last look  *)
(* at the offices is less than a minute old; if it does, a check of these  *)
(* generations is planned.                                                 *)
PlanChecks ==
    /\ loop = "plan"
    /\ \E again \in BOOLEAN, looked \in BOOLEAN :
        /\ checks' = IF issue \in DOMAIN checks
                     THEN IF checks[issue].state = "failed" /\ again
                          THEN [checks EXCEPT ![issue] = Planned] ELSE checks
                     ELSE IF looked /\ LinkOffered /\ ~Existing(graph)
                          THEN [d \in DOMAIN checks \cup {issue} |->
                                   IF d = issue THEN Planned ELSE checks[d]]
                          ELSE checks
        /\ loop' = IF looked THEN "planned" ELSE "full"
    /\ UNCHANGED <<relation, issue, says, graph, unit, elsewhere, misses>>

-----------------------------------------------------------------------------
Ticks == loop \in {"planned", "full", "tick"}

(* As a mutant: whether the passage may be used is not asked. *)
DecisionUnlicensed == IF relation = "policy" /\ \A s \in Sources : says[s].binds
                      THEN "approved" ELSE "pending"

(* Links of a general kind advance by themselves, once both ends are       *)
(* identified and the passage may be used; an activity has no identifier.  *)
Decision == IF relation = "policy" /\ \A s \in Sources : says[s].binds /\ says[s].licensed
            THEN "approved" ELSE "pending"

(* The answer is checked against the sources as they are; a role whose     *)
(* actor the passage does not name is no answer.                           *)
Proven(d, supported) ==
    /\ d = issue
    /\ \A s \in Sources : says[s].offers
    /\ relation = "activity" /\ supported => says["record"].binds
Verified(d, supported) ==
    [state |-> "completed",
     result |-> [issue |-> d, edge |-> supported,
                 decision |-> IF supported THEN Decision ELSE "none"]]

AnswerCheck(d, supported) ==
    /\ Ticks /\ checks[d].state = "planned"
    /\ Proven(d, supported)
    /\ checks' = [checks EXCEPT ![d] = Verified(d, supported)]
    /\ \/ graph' = checks'[d].result /\ loop' = "tick" /\ UNCHANGED misses
       \/ Miss /\ loop' = "gone" /\ UNCHANGED graph
    /\ UNCHANGED <<relation, issue, says, unit, elsewhere>>

CheckFails(d) ==
    /\ Ticks /\ checks[d].state = "planned"
    /\ Miss
    /\ checks' = [checks EXCEPT ![d] = [state |-> "failed", result |-> NoGraph]]
    /\ loop' = "tick"
    /\ UNCHANGED <<relation, issue, says, graph, unit, elsewhere>>

(* Extractions are answered in the same ticks. *)
ExtractUnit ==
    /\ Ticks /\ unit = NoGraph
    /\ unit' \in [issue : {issue}, edge : BOOLEAN, decision : {"pending"}]
    /\ loop' = "tick"
    /\ UNCHANGED <<relation, issue, says, checks, graph, elsewhere, misses>>

ExtractElsewhere ==
    /\ Ticks /\ ~elsewhere
    /\ elsewhere' = TRUE
    /\ loop' = "tick"
    /\ UNCHANGED <<relation, issue, says, checks, graph, unit, misses>>

TickOver ==
    /\ Ticks
    /\ loop' \in {"scan", "plan"}
    /\ UNCHANGED <<relation, issue, says, checks, graph, unit, elsewhere, misses>>

CheckerDies ==
    /\ loop # "gone" /\ Miss
    /\ loop' = "gone"
    /\ UNCHANGED <<relation, issue, says, checks, graph, unit, elsewhere>>

(* Answers without a graph are projected when the process starts. *)
CheckerStarts ==
    /\ loop = "gone"
    /\ graph' = Projected
    /\ loop' = "scan"
    /\ UNCHANGED <<relation, issue, says, checks, unit, elsewhere, misses>>

RelationNext ==
    \/ \E s \in Sources : ScanStores(s)
    \/ ScanFindsSame \/ ReconcileChecks \/ PlanChecks
    \/ \E d \in DOMAIN checks, supported \in BOOLEAN : AnswerCheck(d, supported)
    \/ \E d \in DOMAIN checks : CheckFails(d)
    \/ ExtractUnit \/ ExtractElsewhere \/ TickOver \/ CheckerDies \/ CheckerStarts

RelationSpec == RelationInit /\ [][RelationNext]_relationVars

-----------------------------------------------------------------------------
(* What readers select of a verified edge, which is only what rests on the *)
(* sources as they are: they offer it, and if it advanced without a human  *)
(* they identify and license it now.                                       *)
EdgesRest ==
    graph # NoGraph /\ graph.issue = issue /\ graph.edge =>
        /\ \A s \in Sources : says[s].offers
        /\ graph.decision = "approved" =>
               relation = "policy" /\ \A s \in Sources : says[s].licensed /\ says[s].binds

(* No answer is lost: as long as a process runs, the answer to a question  *)
(* about the current generations is in the graph, whenever the process     *)
(* before it died.                                                         *)
AnswersProjected ==
    loop # "gone" /\ issue \in DOMAIN checks /\ checks[issue].state = "completed" =>
        graph = checks[issue].result

(* Once a planning got to an offered candidate, its edge is in a graph or  *)
(* has been asked about, even when the graph that once held it is gone.    *)
CandidateAsked ==
    loop = "planned" /\ LinkOffered => issue \in DOMAIN checks \/ Existing(graph)

RelationInv == EdgesRest /\ AnswersProjected /\ CandidateAsked
=============================================================================
