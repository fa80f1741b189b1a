---------------------------- MODULE MCGraphPlanning ----------------------------
(* What the coordinator plans, for TLC: GraphPlanning, RetryLadder,         *)
(* Questions and RelationChecks.  They share no state: one of them is       *)
(* chosen and runs, the others stay as one of their beginnings.  The models *)
(* are interchangeable: it does not matter which of them is the first; and  *)
(* so are the threads of the API.                                           *)
EXTENDS GraphPlanning, RetryLadder, Questions, RelationChecks, FiniteSetsExt, TLC

VARIABLE part

allVars == <<part, planningVars, ladderVars, questionVars, relationVars>>

PlanningAlone ==
    /\ PlanningInit
    /\ model = CHOOSE m \in Model : TRUE
LadderAlone ==
    /\ LadderInit
    /\ part = "ladder" \/ (task = "extract" /\ ~sourced)
QuestionsAlone ==
    /\ QuestionsInit
    /\ \/ part = "questions"
       \/ /\ mode = "global" /\ reports = {}
          /\ wanted = CHOOSE kinds \in Naming : TRUE
RelationAlone ==
    /\ RelationInit
    /\ \/ part = "relation"
       \/ relation = "lineage" /\ \A s \in Sources : ~says[s].offers

AllInit ==
    /\ part \in {"planning", "ladder", "questions", "relation"}
    /\ PlanningAlone /\ LadderAlone /\ QuestionsAlone /\ RelationAlone

(* Revisions, other models, odd claims and mishaps: two of them at a time. *)
TwoChanges ==
    FoldSet(LAMBDA s, n : n + generation[s] - 1, switches + mishaps, Source) <= 2
OddClaims == UNION {{c \in tasks[k].claims : c[3] # "plain"} : k \in DOMAIN tasks}
TwoOddities == Cardinality(OddClaims) + troubles + revision - 1 <= 2

AllNext ==
    /\ part' = part
    /\ \/ /\ part = "planning" /\ PlanningNext /\ TwoChanges'
          /\ UNCHANGED <<ladderVars, questionVars, relationVars>>
       \/ part = "ladder" /\ LadderNext /\ UNCHANGED <<planningVars, questionVars, relationVars>>
       \/ /\ part = "questions" /\ QuestionsNext /\ TwoOddities'
          /\ UNCHANGED <<planningVars, ladderVars, relationVars>>
       \/ part = "relation" /\ RelationNext /\ UNCHANGED <<planningVars, ladderVars, questionVars>>

AllSpec == AllInit /\ [][AllNext]_allVars

Symmetry == Permutations(Asker)
=============================================================================
