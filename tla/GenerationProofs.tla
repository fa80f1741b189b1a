----------------------------- MODULE GenerationProofs -----------------------------
(***************************************************************************)
(* Proofs about what the coordinator generates.                             *)
(*                                                                         *)
(* RetryLadder: the two functions that choose the retry of a piece of work *)
(* agree for every set of kinds of work and any number of attempts.        *)
(* LadderInv is not inductive: a contract that does not belong to the work *)
(* could be copied into a retry.  LadderIInv adds which contracts the      *)
(* retries of a kind of work ever have.                                    *)
(*                                                                         *)
(* RelationChecks: what readers select of a verified edge rests on the     *)
(* sources as they are, and no answer is lost, for any kinds of relation,  *)
(* any number of revisions and any number of deaths and failures.          *)
(* RelationInv says nothing of answers that are stored and not projected   *)
(* yet, nor of what is kept under earlier generations, which a revision    *)
(* must not bring back.  RelationIInv adds both: no check and no graph is  *)
(* of a later generation than the sources, and whatever is of the current  *)
(* one is what was verified against them.                                  *)
(*                                                                         *)
(* InferenceJobs: what the factory promises of paid requests, for any      *)
(* number of jobs, any concurrency and daily limit and any number of       *)
(* changes and faults.                                                     *)
(*                                                                         *)
(* Questions: nothing is waited for in vain or planned twice, and what is  *)
(* fit to be said is carried on until it is said, for any threads, units,  *)
(* reports, sizes of requests and number of rounds.                        *)
(* QuestionsInv does not say where rounds come from.  QuestionsIInv does:  *)
(* a round that is there is there as a whole and as it would be planned    *)
(* again, the first from the evidence and each later one from the answers  *)
(* of the round before it, which are all in and do not change; what is     *)
(* offered later was said, and was fit, in the first round; and while the  *)
(* question names several kinds of documents that were spoken of, later    *)
(* rounds select among claims and lose none of the kinds.                  *)
(***************************************************************************)
EXTENDS RetryLadder, RelationChecks, InferenceJobs, Questions, FiniteSetTheorems, TLAPS

(* The contracts that a kind of work may have, its retries included. *)
Rung(t, c) ==
    /\ t = "community" =>
           c \in {"output", "short", "options", "complete", "precise", "assignment"}
    /\ t = "enrichment" => c = "selection"
    /\ t = "extract" => c \in {"output", "directional"}
    /\ t = "compact" => c \in {"compact", "directional"}
    /\ t = "old answer" => c \in {"legacy", "answer"}
    /\ t \in {"answer", "claims", "relation", "activity"} => c = t

LadderTypeOK ==
    /\ task \in Communal \cup Answers \cup Extracting
    /\ sourced \in BOOLEAN
    /\ attempt \in Nat
    /\ progress \in {"active", "failed", "completed", "raised"}

(* Each kind of work is on a rung of its own; the first attempt at a       *)
(* report is on the lowest one.                                            *)
OwnRung ==
    /\ Rung(task, contract)
    /\ task = "community" /\ attempt = 0 => contract = "output"

LadderIInv == LadderTypeOK /\ OwnRung /\ LadderInv

(* Each contract is decoded by its own schema. *)
LEMMA SchemaOfRung ==
    /\ Schema["output"] = "graph" /\ Schema["short"] = "short"
    /\ Schema["options"] = "options" /\ Schema["complete"] = "complete"
    /\ Schema["precise"] = "precise" /\ Schema["assignment"] = "assignment"
    /\ Schema["compact"] = "compact" /\ Schema["directional"] = "directional"
    /\ Schema["selection"] = "selection" /\ Schema["answer"] = "answer"
    /\ Schema["legacy"] = "legacy" /\ Schema["claims"] = "claims"
    /\ Schema["relation"] = "relation" /\ Schema["activity"] = "activity"
BY DEF Schema

LEMMA LadderStarts == LadderInit => LadderIInv
<1> SUFFICES ASSUME LadderInit PROVE LadderIInv
  OBVIOUS
<1>1. LadderTypeOK
  BY RetryLadderAssumption DEF LadderInit, LadderTypeOK
<1>2. Rung(task, contract) /\ (task = "community" => contract = "output")
  BY <1>1 DEF LadderInit, LadderTypeOK, Rung, FirstContract, Communal, Answers, Extracting
<1> QED
  BY <1>1, <1>2 DEF LadderInit, LadderIInv, OwnRung, LadderInv

(* A request that planning copies is one that some contract asks for. *)
LEMMA CopyIsTotal ==
    ASSUME NEW c \in DOMAIN Schema
    PROVE  Schema[c] \in DOMAIN Copy /\ Copy[Schema[c]] = Schema[c]
BY DEF Copy

(* What planning does with a failed attempt at a report: whichever rung it *)
(* is on, the builder of the next rung either understands the request, and *)
(* writes the schema of the contract chosen, or the request was an         *)
(* assignment.                                                             *)
LEMMA CommunityRetries ==
    ASSUME LadderIInv, task = "community", NEW a, a = attempt + 1
    PROVE  /\ Rung("community", RetryContract(a))
           /\ request \in DOMAIN Builder(a) => Builder(a)[request] = Schema[RetryContract(a)]
           /\ request \notin DOMAIN Builder(a) => request = "assignment"
<1> USE SchemaOfRung DEF LadderIInv, LadderTypeOK, OwnRung, LadderInv
<1>1. contract \in {"output", "short", "options", "complete", "precise", "assignment"}
  BY DEF Rung, Communal
<1>2. request \in Grouped \cup {"assignment"} /\ (request = "assignment" <=> contract = "assignment")
  BY <1>1 DEF Grouped
<1>3. \A c : Rung("community", c) <=>
            c \in {"output", "short", "options", "complete", "precise", "assignment"}
  BY DEF Rung
<1>4. "community" \notin Extracting /\ "community" \notin Answers
  BY DEF Extracting, Answers
<1>5. CASE ShortQuoteRetry(a)
  <2>1. RetryContract(a) = "short" /\ Builder(a) = ShortQuoteCommunity
    BY <1>5 DEF RetryContract, Builder
  <2>2. request = "graph"
    BY <1>5 DEF ShortQuoteRetry
  <2> QED
    BY <2>1, <2>2, <1>3 DEF ShortQuoteCommunity
<1>6. CASE ~ShortQuoteRetry(a) /\ QuoteOptionsRetry(a)
  <2>1. RetryContract(a) = "options" /\ Builder(a) = QuoteOptionsCommunity
    BY <1>6 DEF RetryContract, Builder
  <2> QED
    BY <2>1, <1>2, <1>3 DEF QuoteOptionsCommunity, Grouped
<1>7. CASE ~ShortQuoteRetry(a) /\ ~QuoteOptionsRetry(a) /\ AssignmentRetry(a)
  <2>1. RetryContract(a) = "assignment" /\ Builder(a) = AssignmentCommunity
    BY <1>7, <1>4 DEF RetryContract, Builder
  <2> QED
    BY <2>1, <1>2, <1>3 DEF AssignmentCommunity
<1>8. CASE ~ShortQuoteRetry(a) /\ ~QuoteOptionsRetry(a) /\ ~AssignmentRetry(a)
  <2>1. CASE a >= 4
    <3>1. RetryContract(a) = "precise" /\ Builder(a) = PreciseCommunity
      BY <1>8, <1>4, <2>1 DEF RetryContract, Builder
    <3> QED
      BY <3>1, <1>2, <1>3 DEF PreciseCommunity
  <2>2. CASE ~(a >= 4) /\ a >= 2
    <3>1. RetryContract(a) = "complete" /\ Builder(a) = CompleteCommunity
      BY <1>8, <1>4, <2>2 DEF RetryContract, Builder
    <3> QED
      BY <3>1, <1>2, <1>3 DEF CompleteCommunity
  <2>3. CASE ~(a >= 4) /\ ~(a >= 2)
    <3>1. RetryContract(a) = contract /\ Builder(a) = Copy
      BY <1>8, <1>4, <2>3 DEF RetryContract, Builder
    <3>2. contract \in DOMAIN Schema
      BY <1>1 DEF Schema
    <3> QED
      BY <3>1, <3>2, <1>1, <1>3, CopyIsTotal
  <2> QED
    BY <2>1, <2>2, <2>3
<1> QED
  BY <1>5, <1>6, <1>7, <1>8

(* The same of all other work: the only request that planning does not     *)
(* understand is that of an activity check.                                *)
LEMMA OtherRetries ==
    ASSUME LadderIInv, task # "community", NEW a, a = attempt + 1
    PROVE  /\ request \in DOMAIN Builder(a) =>
                  /\ Rung(task, RetryContract(a))
                  /\ Builder(a)[request] = Schema[RetryContract(a)]
           /\ request \notin DOMAIN Builder(a) => task = "activity"
<1> USE SchemaOfRung DEF LadderIInv, LadderTypeOK, OwnRung, LadderInv
<1>1. ~ShortQuoteRetry(a) /\ ~QuoteOptionsRetry(a) /\ ~AssignmentRetry(a)
  BY DEF ShortQuoteRetry, QuoteOptionsRetry, AssignmentRetry
<1>2. CASE task \in {"enrichment", "relation"}
  <2>1. contract = IF task = "enrichment" THEN "selection" ELSE "relation"
    BY <1>2 DEF Rung, Communal, Extracting
  <2>2. RetryContract(a) = contract /\ Builder(a) = Copy
    BY <1>1, <1>2, <2>1 DEF RetryContract, Builder, Answers, Extracting
  <2>3. contract \in DOMAIN Schema
    BY <2>1 DEF Schema
  <2> QED
    BY <2>2, <2>3, CopyIsTotal
<1>3. CASE task \in {"extract", "compact", "activity"}
  <2>1. /\ task = "extract" => contract \in {"output", "directional"}
        /\ task = "compact" => contract \in {"compact", "directional"}
        /\ task = "activity" => contract = "activity"
    BY <1>3 DEF Rung, Extracting
  <2>2. CASE a >= 2
    <3>1. RetryContract(a) = "directional" /\ Builder(a) = DirectionalExtraction
      BY <1>1, <1>3, <2>2 DEF RetryContract, Builder, Extracting
    <3>2. DOMAIN Builder(a) = {"graph", "compact", "directional"}
      BY <3>1 DEF DirectionalExtraction
    <3>3. request \in DOMAIN Builder(a) => Builder(a)[request] = "directional"
      BY <3>1, <3>2 DEF DirectionalExtraction
    <3>4. task = "activity" => request \notin DOMAIN Builder(a)
      BY <2>1, <3>2
    <3>5. task # "activity" => Rung(task, "directional") /\ request \in DOMAIN Builder(a)
      BY <1>3, <2>1, <3>2 DEF Rung, Extracting
    <3> QED
      BY <3>1, <3>3, <3>4, <3>5
  <2>3. CASE ~(a >= 2)
    <3>1. RetryContract(a) = contract /\ Builder(a) = Copy
      BY <1>1, <1>3, <2>3 DEF RetryContract, Builder, Answers, Extracting
    <3>2. contract \in DOMAIN Schema
      BY <1>3, <2>1 DEF Schema
    <3> QED
      BY <3>1, <3>2, CopyIsTotal
  <2> QED
    BY <2>2, <2>3
<1>4. CASE task \in Answers
  <2>1. /\ task \in {"answer", "claims"} => contract = task
        /\ task = "old answer" => contract \in {"legacy", "answer"}
    BY <1>4 DEF Rung, Answers
  <2>2. RetryContract(a) = IF task = "claims" THEN contract ELSE "answer"
    BY <1>1, <1>4 DEF RetryContract, Answers, Extracting
  <2>3. Builder(a) = IF task = "claims" THEN SelectionRetry ELSE AnswerSelector
    BY <1>1, <1>4 DEF Builder, Answers, Extracting
  <2>4. CASE task = "claims"
    BY <2>1, <2>2, <2>3, <2>4 DEF SelectionRetry
  <2>5. CASE task # "claims"
    <3>1. Rung(task, "answer")
      BY <1>4, <2>5 DEF Rung, Answers
    <3>2. request \in {"answer", "legacy"}
      BY <1>4, <2>1, <2>5 DEF Answers
    <3>3. RetryContract(a) = "answer" /\ Builder(a) = AnswerSelector
      BY <2>2, <2>3, <2>5
    <3>4. Builder(a)[request] = "answer" /\ request \in DOMAIN Builder(a)
      BY <3>2, <3>3 DEF AnswerSelector
    <3> QED
      BY <3>1, <3>3, <3>4
  <2> QED
    BY <2>4, <2>5
<1> QED
  BY <1>2, <1>3, <1>4 DEF Communal, Extracting

LEMMA LadderSteps == LadderIInv /\ [LadderNext]_ladderVars => LadderIInv'
<1> SUFFICES ASSUME LadderIInv, [LadderNext]_ladderVars PROVE LadderIInv'
  OBVIOUS
<1> USE DEF LadderIInv, LadderTypeOK, OwnRung, LadderInv
<1>1. CASE UNCHANGED ladderVars
  BY <1>1 DEF ladderVars
<1>2. CASE Decoded
  BY <1>2 DEF Decoded
<1>3. CASE AttemptFails
  BY <1>3 DEF AttemptFails
<1>4. CASE PlanRetry
  <2> DEFINE a == attempt + 1
  <2>1. CASE request \in DOMAIN Builder(a)
    <3>1. /\ attempt' = a /\ contract' = RetryContract(a) /\ request' = Builder(a)[request]
          /\ progress' = "active" /\ task' = task /\ sourced' = sourced
      BY <1>4, <2>1 DEF PlanRetry
    <3>2. Rung(task, RetryContract(a)) /\ Builder(a)[request] = Schema[RetryContract(a)]
      BY <2>1, CommunityRetries, OtherRetries
    <3>3. attempt' \in Nat /\ attempt' # 0
      BY <3>1
    <3> HIDE DEF a
    <3> QED
      BY <3>1, <3>2, <3>3
  <2>2. CASE request \notin DOMAIN Builder(a)
    <3>1. progress' = "raised" /\ UNCHANGED <<task, sourced, attempt, contract, request>>
      BY <1>4, <2>2 DEF PlanRetry
    <3>2. task = "activity" \/ request = "assignment"
      BY <2>2, CommunityRetries, OtherRetries
    <3> QED
      BY <3>1, <3>2
  <2> QED
    BY <2>1, <2>2
<1>5. CASE WorkerRestarted
  BY <1>5 DEF WorkerRestarted
<1>6. CASE RepairClaims
  BY <1>6 DEF RepairClaims
<1>7. CASE Enrich
  <2>1. /\ task' = "enrichment" /\ contract' = "selection" /\ request' = "selection"
        /\ attempt' = 0 /\ progress' = "active" /\ sourced' = sourced
    BY <1>7, SchemaOfRung DEF Enrich, FirstContract, Communal
  <2>2. Rung("enrichment", "selection")
    BY DEF Rung, Communal
  <2> QED
    BY <2>1, <2>2, SchemaOfRung DEF Communal
<1> QED
  BY <1>1, <1>2, <1>3, <1>4, <1>5, <1>6, <1>7 DEF LadderNext

(* For any number of attempts and whatever they fail with, the request     *)
(* asks for the schema its contract decodes (retry_output_contract and     *)
(* retry_request_builder agree), and planning raises for nothing but       *)
(* activity checks and assignments.                                        *)
THEOREM LadderHolds == LadderSpec => []LadderInv
<1>1. LadderIInv => LadderInv
  BY DEF LadderIInv
<1> QED
  BY LadderStarts, LadderSteps, <1>1, PTL DEF LadderSpec

-----------------------------------------------------------------------------
(* Relation checks.                                                        *)

Loops == {"scan", "reconcile", "plan", "planned", "full", "tick", "gone"}

(* A vector of generations that the sources have reached. *)
Reached(d) == d \in [Sources -> Nat] /\ \A s \in Sources : d[s] <= issue[s]

(* A result that holds of the sources as they are. *)
Rests(g) ==
    g.edge =>
        /\ \A s \in Sources : says[s].offers
        /\ g.decision = "approved" =>
               relation = "policy" /\ \A s \in Sources : says[s].licensed /\ says[s].binds

ChecksOK == \A d \in DOMAIN checks :
    /\ Reached(d)
    /\ checks[d].state = "completed" => checks[d].result.issue = d
    /\ checks[d].state = "completed" /\ d = issue => Rests(checks[d].result)

GraphOK == graph # NoGraph => Reached(graph.issue) /\ (graph.issue = issue => Rests(graph))

RelationIInv ==
    /\ loop \in Loops
    /\ Reached(issue)
    /\ ChecksOK /\ GraphOK
    /\ RelationInv

LEMMA ChecksStart == RelationInit => RelationIInv
<1> SUFFICES ASSUME RelationInit PROVE RelationIInv
  OBVIOUS
<1> USE DEF RelationInit
<1>1. Reached(issue)
  BY DEF Reached
<1>2. DOMAIN checks = {}
  OBVIOUS
<1> QED
  BY <1>1, <1>2 DEF RelationIInv, Loops, ChecksOK, GraphOK, AnswersProjected, RelationInv,
     EdgesRest, CandidateAsked

(* Where neither the sources nor what is kept changes, the invariant does  *)
(* not either, as long as no planning is pretended.                        *)
LEMMA ChecksFrame ==
    ASSUME RelationIInv, UNCHANGED <<relation, issue, says, checks, graph>>,
           loop' \in Loops \ {"planned", "full"}, loop # "gone" \/ loop' = "gone"
    PROVE  RelationIInv'
<1> USE DEF RelationIInv, Loops
<1>1. Reached(issue)' /\ ChecksOK' /\ GraphOK' /\ EdgesRest'
  BY DEF Reached, Sources, ChecksOK, GraphOK, Rests, RelationInv, EdgesRest
<1>2. AnswersProjected'
  BY DEF AnswersProjected, RelationInv
<1>3. CandidateAsked'
  BY DEF CandidateAsked
<1> QED
  BY <1>1, <1>2, <1>3 DEF RelationInv

LEMMA RevisionKeepsChecks ==
    ASSUME RelationIInv, NEW s \in Sources, ScanStores(s) PROVE RelationIInv'
<1> USE DEF RelationIInv, ScanStores
<1>1. Sources' = Sources
  BY DEF Sources
<1>2. issue \in [Sources -> Nat]
  BY DEF Reached
<1>3. issue' \in [Sources -> Nat] /\ issue'[s] = issue[s] + 1
      /\ \A t \in Sources : issue[t] <= issue'[t]
  BY <1>2
<1>4. \A d : Reached(d) => Reached(d)' /\ d # issue'
  <2> SUFFICES ASSUME NEW d, Reached(d) PROVE Reached(d)' /\ d # issue'
    OBVIOUS
  <2>1. d \in [Sources -> Nat] /\ \A t \in Sources : d[t] <= issue[t]
    BY DEF Reached
  <2>2. \A t \in Sources : d[t] <= issue'[t]
    BY <2>1, <1>2, <1>3
  <2>3. d[s] # issue'[s]
    BY <2>1, <1>2, <1>3
  <2> QED
    BY <2>1, <2>2, <2>3, <1>1 DEF Reached
<1>5. Reached(issue)'
  BY <1>1, <1>3 DEF Reached
<1>6. checks' = checks /\ graph' = graph /\ loop' = "reconcile"
  OBVIOUS
<1>7. ChecksOK'
  BY <1>4, <1>6 DEF ChecksOK
<1>8. GraphOK'
  BY <1>4, <1>6 DEF GraphOK
<1>9. issue' \notin DOMAIN checks'
  BY <1>4, <1>6 DEF ChecksOK
<1>10. EdgesRest'
  BY <1>4, <1>6 DEF EdgesRest, GraphOK
<1> QED
  BY <1>5, <1>6, <1>7, <1>8, <1>9, <1>10 DEF Loops, AnswersProjected, RelationInv, CandidateAsked

LEMMA ReconcileKeepsChecks ==
    ASSUME RelationIInv, ReconcileChecks PROVE RelationIInv'
<1> USE DEF RelationIInv, ReconcileChecks
<1>1. /\ DOMAIN checks' = DOMAIN checks /\ loop' = "plan"
      /\ UNCHANGED <<relation, issue, says>>
  OBVIOUS
<1>2. issue \in DOMAIN checks => checks'[issue] = checks[issue]
  OBVIOUS
<1>3. \A d \in DOMAIN checks : d # issue =>
            checks'[d] = [state |-> "obsolete", result |-> checks[d].result]
  OBVIOUS
<1>4. \A d : Reached(d)' <=> Reached(d)
  BY <1>1 DEF Reached, Sources
<1>5. \A g : Rests(g)' <=> Rests(g)
  BY <1>1 DEF Rests, Sources
<1>6. graph' = NoGraph \/ (graph' = graph /\ graph # NoGraph /\ graph.issue = issue)
  BY DEF Kept
<1>7. \A d \in DOMAIN checks : d # issue => checks'[d].state # "completed"
  BY <1>3
<1>8. Reached(issue)'
  BY <1>1, <1>4
<1>9. ChecksOK'
  <2> SUFFICES ASSUME NEW d \in DOMAIN checks
               PROVE  (/\ Reached(d)
                       /\ checks[d].state = "completed" =>
                              /\ checks[d].result.issue = d
                              /\ d = issue => Rests(checks[d].result))'
    BY <1>1 DEF ChecksOK
  <2> QED
    BY <1>1, <1>2, <1>4, <1>5, <1>7 DEF ChecksOK, Rests, Sources
<1>10. GraphOK'
  BY <1>1, <1>4, <1>5, <1>6 DEF GraphOK
<1>11. EdgesRest'
  BY <1>1, <1>5, <1>6 DEF GraphOK, EdgesRest, Rests
<1>12. AnswersProjected'
  <2> SUFFICES ASSUME issue \in DOMAIN checks, checks'[issue].state = "completed"
               PROVE  graph' = checks'[issue].result
    BY <1>1 DEF AnswersProjected
  <2>0. loop # "gone"
    OBVIOUS
  <2>1. graph = checks[issue].result /\ checks[issue].result.issue = issue
    BY <1>2, <2>0 DEF AnswersProjected, ChecksOK, RelationInv
  <2> QED
    BY <2>1, <1>2 DEF Kept
<1> QED
  BY <1>1, <1>8, <1>9, <1>10, <1>11, <1>12 DEF Loops, RelationInv, CandidateAsked

LEMMA PlanningKeepsChecks ==
    ASSUME RelationIInv, PlanChecks PROVE RelationIInv'
<1> USE DEF RelationIInv
<1>1. /\ UNCHANGED <<relation, issue, says, graph, unit, elsewhere>>
      /\ loop = "plan" /\ loop' \in {"planned", "full"}
  BY DEF PlanChecks
<1>2. \A d : Reached(d)' <=> Reached(d)
  BY <1>1 DEF Reached, Sources
<1>3. \A g : Rests(g)' <=> Rests(g)
  BY <1>1 DEF Rests, Sources
<1>5. GraphOK'
  BY <1>1, <1>2, <1>3 DEF GraphOK
<1>6. EdgesRest'
  BY <1>1, <1>3, <1>5 DEF GraphOK, EdgesRest, Rests
<1>7. DOMAIN checks \subseteq DOMAIN checks' /\ DOMAIN checks' \subseteq DOMAIN checks \cup {issue}
  BY DEF PlanChecks
<1>8. \A d \in DOMAIN checks' : checks'[d].state # "planned" =>
          d \in DOMAIN checks /\ checks'[d] = checks[d]
  BY DEF PlanChecks, Planned
<1>9. ChecksOK'
  <2> SUFFICES ASSUME NEW d \in DOMAIN checks'
               PROVE  (/\ Reached(d)
                       /\ checks[d].state = "completed" =>
                              /\ checks[d].result.issue = d
                              /\ d = issue => Rests(checks[d].result))'
    BY <1>1 DEF ChecksOK
  <2> QED
    BY <1>1, <1>2, <1>3, <1>7, <1>8 DEF ChecksOK, Rests, Sources
<1>10. issue \in DOMAIN checks' /\ checks'[issue].state = "completed" =>
           graph' = checks'[issue].result
  <2> SUFFICES ASSUME issue \in DOMAIN checks', checks'[issue].state = "completed"
               PROVE  graph' = checks'[issue].result
    OBVIOUS
  <2>1. issue \in DOMAIN checks /\ checks'[issue] = checks[issue]
    BY <1>8
  <2> QED
    BY <2>1, <1>1 DEF AnswersProjected, RelationInv
<1>11. loop' = "planned" /\ LinkOffered => issue \in DOMAIN checks' \/ Existing(graph')
  BY <1>7 DEF PlanChecks
<1>12. LinkOffered' <=> LinkOffered
  BY <1>1 DEF LinkOffered, Sources
<1>13. Existing(graph)' <=> Existing(graph')
  BY <1>1 DEF Existing, Holds
<1>14. Reached(issue)'
  BY <1>1, <1>2
<1>15. AnswersProjected' /\ CandidateAsked'
  BY <1>1, <1>10, <1>11, <1>12, <1>13 DEF AnswersProjected, CandidateAsked
<1> QED
  BY <1>1, <1>5, <1>6, <1>9, <1>14, <1>15 DEF Loops, RelationInv

LEMMA AnswerKeepsChecks ==
    ASSUME RelationIInv, NEW d \in DOMAIN checks, NEW supported \in BOOLEAN,
           AnswerCheck(d, supported)
    PROVE  RelationIInv'
<1> USE DEF RelationIInv
<1>1. /\ UNCHANGED <<relation, issue, says>>
      /\ d = issue /\ checks[d].state = "planned"
      /\ \/ graph' = checks'[d].result /\ loop' = "tick"
         \/ graph' = graph /\ loop' = "gone"
  BY DEF AnswerCheck, Proven
<1>2. /\ DOMAIN checks' = DOMAIN checks
      /\ checks'[d] = Verified(d, supported)
      /\ \A e \in DOMAIN checks : e # d => checks'[e] = checks[e]
  BY DEF AnswerCheck
<1>3. \A e : Reached(e)' <=> Reached(e)
  BY <1>1 DEF Reached, Sources
<1>4. \A g : Rests(g)' <=> Rests(g)
  BY <1>1 DEF Rests, Sources
<1>5. checks'[d].state = "completed" /\ checks'[d].result.issue = d
  BY <1>2 DEF Verified
<1>6. Rests(checks'[d].result)
  <2>1. /\ checks'[d].result.edge = supported
        /\ checks'[d].result.decision = IF supported THEN Decision ELSE "none"
    BY <1>2 DEF Verified
  <2>2. \A s \in Sources : says[s].offers
    BY DEF AnswerCheck, Proven
  <2> QED
    BY <2>1, <2>2 DEF Rests, Decision
<1>7. ChecksOK'
  <2> SUFFICES ASSUME NEW e \in DOMAIN checks
               PROVE  (/\ Reached(e)
                       /\ checks[e].state = "completed" =>
                              /\ checks[e].result.issue = e
                              /\ e = issue => Rests(checks[e].result))'
    BY <1>1, <1>2 DEF ChecksOK
  <2>1. CASE e = d
    BY <2>1, <1>1, <1>3, <1>4, <1>5, <1>6 DEF ChecksOK, Rests, Sources
  <2>2. CASE e # d
    BY <2>2, <1>1, <1>2, <1>3, <1>4 DEF ChecksOK, Rests, Sources
  <2> QED
    BY <2>1, <2>2
<1>8. GraphOK'
  BY <1>1, <1>3, <1>4, <1>5, <1>6 DEF GraphOK
<1>9. EdgesRest'
  BY <1>1, <1>4, <1>8 DEF GraphOK, EdgesRest, Rests
<1>10. AnswersProjected'
  BY <1>1 DEF AnswersProjected
<1>11. Reached(issue)'
  BY <1>1, <1>3
<1> QED
  BY <1>1, <1>7, <1>8, <1>9, <1>10, <1>11 DEF Loops, RelationInv, CandidateAsked

LEMMA FailureKeepsChecks ==
    ASSUME RelationIInv, NEW d \in DOMAIN checks, CheckFails(d) PROVE RelationIInv'
<1> USE DEF RelationIInv
<1>1. UNCHANGED <<relation, issue, says, graph>> /\ loop' = "tick" /\ loop # "gone"
  BY DEF CheckFails, Ticks
<1>2. /\ DOMAIN checks' = DOMAIN checks
      /\ checks'[d].state = "failed"
      /\ \A e \in DOMAIN checks : e # d => checks'[e] = checks[e]
  BY DEF CheckFails
<1>3. Reached(issue)' /\ GraphOK' /\ EdgesRest'
  BY <1>1 DEF Reached, Sources, GraphOK, Rests, EdgesRest, RelationInv
<1>4. (\A e : Reached(e)' <=> Reached(e)) /\ (\A g : Rests(g)' <=> Rests(g))
  BY <1>1 DEF Reached, Rests, Sources
<1>5. ChecksOK'
  BY <1>1, <1>2, <1>4 DEF ChecksOK
<1>6. AnswersProjected'
  BY <1>1, <1>2 DEF AnswersProjected, RelationInv
<1> QED
  BY <1>1, <1>3, <1>5, <1>6 DEF Loops, RelationInv, CandidateAsked

LEMMA StartKeepsChecks == ASSUME RelationIInv, CheckerStarts PROVE RelationIInv'
<1> USE DEF RelationIInv
<1>1. UNCHANGED <<relation, issue, says, checks, unit, elsewhere>> /\ loop' = "scan"
  BY DEF CheckerStarts
<1>2. \/ graph' = graph /\ ~(issue \in DOMAIN checks /\ checks[issue].state = "completed")
      \/ /\ issue \in DOMAIN checks /\ checks[issue].state = "completed"
         /\ graph' = checks[issue].result
  BY DEF CheckerStarts, Projected
<1>3. (\A d : Reached(d)' <=> Reached(d)) /\ (\A g : Rests(g)' <=> Rests(g))
  BY <1>1 DEF Reached, Rests, Sources
<1>4. Reached(issue)'
  BY <1>1, <1>3
<1>5. ChecksOK'
  BY <1>1, <1>3 DEF ChecksOK, Rests, Sources
<1>6. GraphOK'
  BY <1>1, <1>2, <1>3 DEF GraphOK, ChecksOK
<1>7. EdgesRest'
  BY <1>1, <1>3, <1>6 DEF GraphOK, EdgesRest, Rests
<1>8. AnswersProjected' /\ CandidateAsked'
  BY <1>1, <1>2 DEF AnswersProjected, CandidateAsked
<1> QED
  BY <1>1, <1>4, <1>5, <1>6, <1>7, <1>8 DEF Loops, RelationInv

LEMMA ChecksStep == RelationIInv /\ [RelationNext]_relationVars => RelationIInv'
<1> SUFFICES ASSUME RelationIInv, [RelationNext]_relationVars PROVE RelationIInv'
  OBVIOUS
<1>1. CASE UNCHANGED relationVars
  BY <1>1 DEF relationVars, RelationIInv, Reached, Sources, ChecksOK, GraphOK, Rests,
     AnswersProjected, RelationInv, EdgesRest, CandidateAsked, LinkOffered, Existing, Holds
<1>2. CASE \E s \in Sources : ScanStores(s)
  BY <1>2, RevisionKeepsChecks
<1>3. CASE ScanFindsSame
  BY <1>3, ChecksFrame DEF ScanFindsSame, Loops
<1>4. CASE ReconcileChecks
  BY <1>4, ReconcileKeepsChecks
<1>5. CASE PlanChecks
  BY <1>5, PlanningKeepsChecks
<1>6. CASE \E d \in DOMAIN checks, supported \in BOOLEAN : AnswerCheck(d, supported)
  BY <1>6, AnswerKeepsChecks
<1>7. CASE \E d \in DOMAIN checks : CheckFails(d)
  BY <1>7, FailureKeepsChecks
<1>8. CASE ExtractUnit
  BY <1>8, ChecksFrame DEF ExtractUnit, Ticks, Loops
<1>9. CASE ExtractElsewhere
  BY <1>9, ChecksFrame DEF ExtractElsewhere, Ticks, Loops
<1>10. CASE TickOver
  BY <1>10, ChecksFrame DEF TickOver, Ticks, Loops
<1>11. CASE CheckerDies
  BY <1>11, ChecksFrame DEF CheckerDies, Loops
<1>12. CASE CheckerStarts
  BY <1>12, StartKeepsChecks
<1> QED
  BY <1>1, <1>2, <1>3, <1>4, <1>5, <1>6, <1>7, <1>8, <1>9, <1>10, <1>11, <1>12 DEF RelationNext

(* For any relations, revisions, deaths and failures: a verified edge that *)
(* readers may select is offered by its sources as they are now, licensed  *)
(* and identified by them if it advanced by itself; as long as a process   *)
(* runs, the answer to a question about the current generations is in the  *)
(* graph; and a candidate that a planning got to is in a graph or has been *)
(* asked about (recover_projections, plan_factory and the planners it      *)
(* calls, the projection of a relation).                                   *)
THEOREM RelationsRest == RelationSpec => []RelationInv
<1>1. RelationIInv => RelationInv
  BY DEF RelationIInv
<1> QED
  BY ChecksStart, ChecksStep, <1>1, PTL DEF RelationSpec

-----------------------------------------------------------------------------
(* In the initial state there are no jobs yet (InferenceJobs.Init). *)
LEMMA InitIInv == Init => IInv
BY FactoryAssumption DEF Init, IInv, TypeOK, MarksByState, WaveByStep, RefusedUnaccepted,
   RecoveryByStep, AcceptanceRemembered, PauseNamesWork, Runnable, Received, Errors

(* Planning, scans, time and the operator do not disturb a wave or a       *)
(* recovery under way (IInv).                                              *)
LEMMA EnvironmentIInv ==
    ASSUME IInv,
           \/ \E j \in Job : Enqueue(j) \/ Expire(j) \/ LoseLease(j)
           \/ \E changed \in SUBSET Job : Scan(changed)
           \/ Reconcile \/ NewDay \/ Resume
    PROVE  IInv'
<1> USE FactoryAssumption
        DEF IInv, TypeOK, MarksByState, WaveByStep, RefusedUnaccepted, RecoveryByStep,
            AcceptanceRemembered, PauseNamesWork, AtService, Unknown,
            Runnable, Received, Errors, jobVars, execVars
<1>1. CASE \E j \in Job : Enqueue(j)
  BY <1>1 DEF Enqueue
<1>2. CASE \E j \in Job : Expire(j)
  BY <1>2 DEF Expire
<1>3. CASE \E j \in Job : LoseLease(j)
  BY <1>3 DEF LoseLease, Fault
<1>4. CASE \E changed \in SUBSET Job : Scan(changed)
  BY <1>4 DEF Scan, Change
<1>5. CASE Reconcile
  BY <1>5 DEF Reconcile, Retired
<1>6. CASE NewDay
  BY <1>6 DEF NewDay, Today
<1>7. CASE Resume
  BY <1>7 DEF Resume, Change
<1> QED
  BY <1>1, <1>2, <1>3, <1>4, <1>5, <1>6, <1>7

(* Claiming a wave and preparing it mark what will be submitted before the *)
(* first call (IInv).                                                      *)
LEMMA PrepareIInv ==
    ASSUME IInv,
           \/ \E jobs \in SUBSET Job : Claim(jobs)
           \/ \E j \in Job : DeferUnknown(j)
           \/ PauseUnknown
           \/ \E jobs \in SUBSET Candidates : Prepare(jobs)
           \/ PrepareStale
    PROVE  IInv'
<1> USE FactoryAssumption
        DEF IInv, TypeOK, MarksByState, WaveByStep, RefusedUnaccepted, RecoveryByStep,
            AcceptanceRemembered, PauseNamesWork, AtService, Unknown,
            Runnable, Received, Errors, jobVars, execVars
<1>1. CASE \E jobs \in SUBSET Job : Claim(jobs)
  BY <1>1 DEF Claim, Due
<1>2. CASE \E j \in Job : DeferUnknown(j)
  BY <1>2 DEF DeferUnknown, Unresolved
<1>3. CASE PauseUnknown
  BY <1>3 DEF PauseUnknown, Idle
<1>4. ASSUME NEW jobs \in SUBSET Candidates, Prepare(jobs)
      PROVE  IInv'
  BY <1>4 DEF Prepare, Idle, Unresolved, Outdated, Polls, Candidates
<1>5. CASE PrepareStale
  BY <1>5 DEF PrepareStale, Abandon, Idle
<1> QED
  BY <1>1, <1>2, <1>3, <1>4, <1>5

(* A call is made for a job that is marked; what it tells of an acceptance *)
(* is what the service did (IInv).                                         *)
LEMMA CallIInv ==
    ASSUME IInv, NEW j \in Job,
           \/ \E a \in Received : Submit(j, a) \/ Poll(j, a)
           \/ \E a \in Errors : CallRaises(j, a)
    PROVE  IInv'
<1> USE FactoryAssumption DEF IInv, Received, Errors
<1>1. PICK a \in Received \cup Errors :
          /\ answer[j] = None /\ answer' = [answer EXCEPT ![j] = a]
          /\ a = "lost" \/ a = "broken" \/ a \in Received \/ accepted' = accepted
  BY DEF Submit, Poll, CallRaises, Calling, Answered
<1>2. /\ pc = "call" /\ j \in wave /\ j \in remote \cup uncertain
      /\ UNCHANGED <<jobVars, stale, pause, pc, wave, hand, fresh, changes>>
      /\ faults' \in Nat
      /\ accepted' \in {accepted, accepted \cup {j}}
  BY DEF Submit, Poll, CallRaises, Calling, CallRest, Fault, TypeOK, WaveByStep, AtService
<1>3. a # None /\ answer \in [Job -> Received \cup Errors \cup {None}]
  BY <1>1 DEF TypeOK
<1>4. TypeOK'
  BY <1>1, <1>2, <1>3 DEF TypeOK, jobVars
<1>5. RefusedUnaccepted'
  <2> SUFFICES ASSUME NEW i \in wave \ remote, i \in accepted'
               PROVE  answer'[i] \notin {None, "busy", "refused", "rejected"}
    BY <1>2 DEF RefusedUnaccepted, jobVars
  <2>1. i \in Job
    BY DEF TypeOK
  <2>2. CASE i = j
    BY <1>1, <1>2, <1>3, <2>1, <2>2 DEF RefusedUnaccepted
  <2>3. CASE i # j
    BY <1>1, <1>2, <1>3, <2>1, <2>3 DEF RefusedUnaccepted
  <2> QED
    BY <2>2, <2>3
<1>6. WaveByStep' /\ RecoveryByStep'
  BY <1>2 DEF WaveByStep, RecoveryByStep, AtService, Unknown, jobVars
<1>7. MarksByState' /\ AcceptanceRemembered' /\ PauseNamesWork'
  BY <1>2 DEF MarksByState, AcceptanceRemembered, PauseNamesWork, jobVars
<1> QED
  BY <1>4, <1>5, <1>6, <1>7

(* Receipts make marked requests known ones, and outcomes keep the mark of *)
(* those whose answer was lost (IInv).                                     *)
LEMMA ReceiptsIInv ==
    ASSUME IInv, SaveReceipts \/ ReceiptsStale \/ OutcomesStale
    PROVE  IInv'
<1> USE FactoryAssumption DEF Runnable, Received, Errors
<1>1. CASE SaveReceipts
  BY <1>1 DEF SaveReceipts, WaveAnswered, AnsweredBy,
       IInv, TypeOK, MarksByState, WaveByStep, RefusedUnaccepted, RecoveryByStep,
       AcceptanceRemembered, PauseNamesWork, AtService, Unknown
<1>2. CASE ReceiptsStale
  BY <1>2 DEF ReceiptsStale, Abandon, Idle, jobVars,
       IInv, TypeOK, MarksByState, WaveByStep, RefusedUnaccepted, RecoveryByStep,
       AcceptanceRemembered, PauseNamesWork, AtService, Unknown
<1>3. CASE OutcomesStale
  <2>1. /\ Idle /\ fresh' \in BOOLEAN /\ lease' \in [Job -> {"none", "held", "orphan", "expired"}]
        /\ UNCHANGED <<state, remote, uncertain, reserved, stale, pause, accepted, changes, faults>>
    BY <1>3 DEF OutcomesStale, WaveEnds, IInv, TypeOK
  <2> QED
    BY <2>1 DEF Idle,
       IInv, TypeOK, MarksByState, WaveByStep, RefusedUnaccepted, RecoveryByStep,
       AcceptanceRemembered, PauseNamesWork, AtService, Unknown
<1> QED
  BY <1>1, <1>2, <1>3

LEMMA ApplyIInv ==
    ASSUME IInv, NEW result \in [AnsweredBy({"completed"}) -> Results], Apply(result)
    PROVE  IInv'
<1> USE FactoryAssumption DEF IInv
<1>1. /\ Idle /\ fresh' \in BOOLEAN /\ lease' \in [Job -> {"none", "held", "orphan", "expired"}]
      /\ UNCHANGED <<remote, reserved, stale, accepted, changes, faults>>
      /\ uncertain' = (uncertain \ Failing) \cup AnsweredBy({"lost"})
      /\ pause' \in PauseAfter(result)
  BY DEF Apply, WaveEnds, UnknownAfter, TypeOK
<1>2. pc = "apply" /\ pause = None /\ wave \subseteq Job
  BY DEF Apply, WaveByStep, TypeOK
<1>3. ASSUME NEW j \in Job
      PROVE  /\ state'[j] \in Runnable \cup {"none", "completed", "failed", "obsolete"}
             /\ state[j] \in {"none", "planned"} => state'[j] = state[j]
             /\ state'[j] = "polling" => state[j] = "polling"
             /\ state'[j] \in {"none", "planned"} => state[j] = state'[j]
             /\ j \in AnsweredBy({"lost"}) => state'[j] = "deferred"
  BY <1>2, <1>3 DEF Apply, AnsweredBy, WaveByStep, AtService, TypeOK, Errors, Runnable
<1>4. ASSUME NEW j \in AnsweredBy({"lost"})
      PROVE  j \in Job /\ AtService(j)
  BY <1>2, <1>4 DEF AnsweredBy, WaveByStep, Errors
<1>5. pause' \in {None, "configuration"} \cup (AnsweredBy({"lost"}) \ remote)
  BY <1>1, <1>2 DEF PauseAfter
<1>6. TypeOK'
  <2>1. state' \in [Job -> Runnable \cup {"none", "completed", "failed", "obsolete"}]
    BY <1>3 DEF Apply
  <2>2. uncertain' \subseteq Job /\ pause' \in Job \cup {None, "configuration"}
    BY <1>1, <1>4, <1>5 DEF TypeOK
  <2> QED
    BY <1>1, <2>1, <2>2 DEF TypeOK, Idle
<1>7. MarksByState'
  BY <1>1, <1>3, <1>4 DEF MarksByState, AtService
<1>8. AcceptanceRemembered'
  BY <1>1, <1>2 DEF AcceptanceRemembered, RefusedUnaccepted, Failing, AnsweredBy
<1>9. PauseNamesWork'
  BY <1>1, <1>3, <1>4, <1>5 DEF PauseNamesWork
<1>10. WaveByStep' /\ RefusedUnaccepted' /\ RecoveryByStep'
  BY <1>1 DEF WaveByStep, RefusedUnaccepted, RecoveryByStep, Idle
<1> QED
  BY <1>6, <1>7, <1>8, <1>9, <1>10

(* A recovery holds unknown acceptances only, and the executor may die at  *)
(* any moment (IInv).                                                      *)
LEMMA RecoveryIInv ==
    ASSUME IInv,
           \/ \E j \in Job : Recover(j)
           \/ FinishRecovery \/ NothingToRecover \/ NotReady \/ Resubmit \/ ResubmitRaises
           \/ RecordAcceptance \/ ClearPause \/ PauseRemaining \/ Crash
    PROVE  IInv'
<1> USE FactoryAssumption
        DEF IInv, TypeOK, MarksByState, WaveByStep, RefusedUnaccepted, RecoveryByStep,
            AcceptanceRemembered, PauseNamesWork, AtService, Unknown,
            Runnable, Received, Errors, jobVars, execVars
<1>1. CASE \E j \in Job : Recover(j)
  BY <1>1 DEF Recover, RecoveryDue, Uncertain, RecoverRest
<1>2. CASE FinishRecovery
  BY <1>2 DEF FinishRecovery, RecoveryDue, Uncertain, RecoverRest
<1>3. CASE NothingToRecover \/ NotReady
  <2>1. fresh' = FALSE /\ faults' \in Nat
    BY <1>3 DEF NothingToRecover, NotReady, Fault
  <2>2. UNCHANGED <<jobVars, stale, accepted, answer, changes, pause, pc, wave, hand>>
    BY <1>3 DEF NothingToRecover, NotReady, RecoverRest
  <2>3. TypeOK'
    BY <2>1, <2>2
  <2>4. MarksByState' /\ WaveByStep' /\ RefusedUnaccepted'
    BY <2>2
  <2>5. RecoveryByStep' /\ AcceptanceRemembered' /\ PauseNamesWork'
    BY <2>2
  <2> QED
    BY <2>3, <2>4, <2>5
<1>4. CASE Resubmit
  BY <1>4 DEF Resubmit
<1>5. CASE ResubmitRaises
  <2>1. /\ Idle /\ fresh' = FALSE /\ faults' \in Nat
        /\ UNCHANGED <<jobVars, stale, pause, changes>>
    BY <1>5 DEF ResubmitRaises, Fault
  <2>2. accepted' \subseteq accepted \cup {hand} /\ hand \in uncertain
    BY <1>5 DEF ResubmitRaises
  <2> QED
    BY <2>1, <2>2 DEF Idle
<1>6. CASE RecordAcceptance
  BY <1>6 DEF RecordAcceptance
<1>7. CASE ClearPause
  BY <1>7 DEF ClearPause
<1>8. CASE PauseRemaining
  BY <1>8 DEF PauseRemaining, Idle
<1>9. CASE Crash
  BY <1>9 DEF Crash, Fault, Die, Idle
<1> QED
  BY <1>1, <1>2, <1>3, <1>4, <1>5, <1>6, <1>7, <1>8, <1>9

(* The invariant is inductive (InferenceJobs.Next). *)
LEMMA NextIInv == IInv /\ [Next]_vars => IInv'
<1> SUFFICES ASSUME IInv, [Next]_vars PROVE IInv'
  OBVIOUS
<1>1. CASE UNCHANGED vars
  BY <1>1 DEF vars, jobVars, execVars, IInv, TypeOK, MarksByState, WaveByStep, RefusedUnaccepted,
     RecoveryByStep, AcceptanceRemembered, PauseNamesWork, AtService, Unknown
<1>2. CASE ExecutorStep
  BY <1>2, EnvironmentIInv, PrepareIInv, CallIInv, ReceiptsIInv, ApplyIInv, RecoveryIInv
     DEF ExecutorStep, Call
<1>3. CASE Interruption
  BY <1>3, EnvironmentIInv, CallIInv, RecoveryIInv DEF Interruption
<1> QED
  BY <1>1, <1>2, <1>3, EnvironmentIInv, PrepareIInv DEF Next

(* The inductive invariant of the factory holds in every reachable state. *)
THEOREM InvariantHolds == Spec => []IInv
BY InitIInv, NextIInv, PTL DEF Spec

(* Every reachable state of the factory is well typed. *)
THEOREM TypeCorrect == Spec => []TypeOK
<1>1. IInv => TypeOK
  BY DEF IInv
<1> QED
  BY <1>1, InvariantHolds, PTL

(* A request the service accepted is never forgotten: a crash, a lost      *)
(* answer or a lease that ran out leaves its remote id or the mark that it *)
(* may have been accepted.                                                 *)
THEOREM AcceptanceIsRemembered == Spec => []AcceptanceRemembered
<1>1. IInv => AcceptanceRemembered
  BY DEF IInv
<1> QED
  BY <1>1, InvariantHolds, PTL

(* No wave submits a request the service has accepted already. *)
THEOREM PaidOnce == Spec => []NoBlindResubmit
<1>1. IInv => NoBlindResubmit
  BY DEF IInv, RefusedUnaccepted, NoBlindResubmit, Calling
<1> QED
  BY <1>1, InvariantHolds, PTL

(* A pause for an unknown acceptance names a job that can be recovered,    *)
(* has been, or was given up with its sources.                             *)
THEOREM PauseIsUseful == Spec => []PauseNamesWork
<1>1. IInv => PauseNamesWork
  BY DEF IInv
<1> QED
  BY <1>1, InvariantHolds, PTL

-----------------------------------------------------------------------------
(* The service's slots and the day's limit.                                *)

(* A union has no more elements than its parts together. *)
LEMMA UnionAtMost ==
    ASSUME NEW S, NEW T, IsFiniteSet(S), IsFiniteSet(T)
    PROVE  Cardinality(S \cup T) <= Cardinality(S) + Cardinality(T)
<1>1. Cardinality(S \cup T) = Cardinality(S) + Cardinality(T) - Cardinality(S \cap T)
  BY FS_Union
<1>2. IsFiniteSet(S \cap T)
  BY FS_Subset, S \cap T \subseteq S
<1>3. Cardinality(S) \in Nat /\ Cardinality(T) \in Nat /\ Cardinality(S \cap T) \in Nat
  BY <1>2, FS_CardinalityType
<1> QED
  BY <1>1, <1>3

(* The jobs that take a slot of the service. *)
Held == {j \in Job : SlotHeld(j)}

(* A wave's reservations keep both limits (InferenceJobs.Prepare).         *)
LEMMA PrepareLimits ==
    ASSUME IInv, NEW jobs \in SUBSET Candidates, Prepare(jobs), SlotsBounded, DailyLimit
    PROVE  SlotsBounded' /\ DailyLimit'
<1> USE FactoryAssumption
<1>1. wave \subseteq Job /\ jobs \subseteq Job /\ Fits(jobs) /\ jobs \cap Outdated = {}
  BY DEF Prepare, Candidates, Outdated, IInv, TypeOK
<1>2. IsFiniteSet(Held) /\ IsFiniteSet(Held \ Outdated) /\ IsFiniteSet(jobs) /\ IsFiniteSet(Today)
  BY <1>1, FS_Subset DEF Held, Today
<1>3. SlotsBounded'
  <2>1. Held' \subseteq (Held \ Outdated) \cup jobs
    BY <1>1 DEF Held, SlotHeld, Prepare, IInv, TypeOK, MarksByState
  <2>2. Cardinality(Held') <= Cardinality((Held \ Outdated) \cup jobs)
    BY <1>2, <2>1, FS_Union, FS_Subset
  <2>3. Cardinality((Held \ Outdated) \cup jobs) <= Cardinality(Held \ Outdated) + Cardinality(jobs)
    BY <1>2, UnionAtMost
  <2>4. CASE jobs = {}
    <3>1. Held' \subseteq Held
      BY <2>1, <2>4
    <3>2. Cardinality(Held') <= Cardinality(Held) /\ Cardinality(Held') \in Nat
      BY <3>1, <1>2, FS_Subset, FS_CardinalityType
    <3> QED
      BY <3>2, <1>2, FS_CardinalityType DEF SlotsBounded, Held
  <2>5. CASE jobs # {}
    <3>1. Cardinality(Held \ Outdated) + Cardinality(jobs) <= Concurrency
      <4>1. {j \in Job : SlotHeld(j) /\ j \notin Outdated} = Held \ Outdated
        BY DEF Held
      <4> QED
        BY <1>1, <2>5, <4>1 DEF Fits
    <3>2. /\ Cardinality(Held') \in Nat /\ Cardinality((Held \ Outdated) \cup jobs) \in Nat
          /\ Cardinality(Held \ Outdated) \in Nat /\ Cardinality(jobs) \in Nat
      BY <1>2, <2>1, FS_Union, FS_Subset, FS_CardinalityType
    <3> QED
      BY <2>2, <2>3, <3>1, <3>2 DEF SlotsBounded, Held
  <2> QED
    BY <2>4, <2>5
<1>4. DailyLimit'
  <2> DEFINE unpaid == {j \in jobs : reserved[j] = "never"}
  <2>1. Today' = Today \cup unpaid /\ unpaid \subseteq jobs
    BY <1>1 DEF Today, Prepare, IInv, TypeOK
  <2>2. IsFiniteSet(unpaid)
    BY <1>2, <2>1, FS_Subset
  <2>3. CASE unpaid = {}
    BY <2>1, <2>3 DEF DailyLimit
  <2>4. CASE unpaid # {}
    <3>1. DailyJobs = 0 \/ Cardinality(Today) + Cardinality(unpaid) <= DailyJobs
      BY <1>1, <2>4 DEF Fits
    <3>2. Cardinality(Today \cup unpaid) <= Cardinality(Today) + Cardinality(unpaid)
      BY <1>2, <2>2, UnionAtMost
    <3>3. /\ Cardinality(Today \cup unpaid) \in Nat
          /\ Cardinality(Today) \in Nat /\ Cardinality(unpaid) \in Nat
      BY <1>2, <2>2, FS_Union, FS_CardinalityType
    <3> QED
      BY <2>1, <3>1, <3>2, <3>3 DEF DailyLimit
  <2> QED
    BY <2>3, <2>4
<1> QED
  BY <1>3, <1>4

(* No other step takes a slot or reserves anything.                        *)
LEMMA OthersTakeNothing ==
    ASSUME IInv, [Next]_vars, ~ \E jobs \in SUBSET Candidates : Prepare(jobs)
    PROVE  Held' \subseteq Held /\ Today' \subseteq Today
<1> USE DEF IInv, TypeOK, MarksByState, WaveByStep, RecoveryByStep, AtService, Unknown,
            Runnable, Received, Errors, Held, Today, SlotHeld
<1>1. CASE ExecutorStep
  <2>1. CASE Reconcile
    BY <2>1 DEF Reconcile
  <2>2. CASE \E j \in Job : DeferUnknown(j)
    BY <2>2 DEF DeferUnknown, Unresolved
  <2>3. CASE SaveReceipts
    BY <2>3 DEF SaveReceipts, WaveAnswered, AnsweredBy
  <2>4. ASSUME NEW result \in [AnsweredBy({"completed"}) -> Results], Apply(result)
        PROVE  Held' \subseteq Held /\ Today' \subseteq Today
    BY <2>4 DEF Apply, UnknownAfter, AnsweredBy, Failing
  <2>5. CASE RecordAcceptance
    BY <2>5 DEF RecordAcceptance
  <2>6. ASSUME \/ PauseUnknown \/ PrepareStale \/ ReceiptsStale \/ OutcomesStale
               \/ \E j \in Job : Call(j) \/ Recover(j)
               \/ FinishRecovery \/ NothingToRecover \/ Resubmit \/ ClearPause \/ PauseRemaining
        PROVE  UNCHANGED <<state, remote, uncertain, reserved>>
    BY <2>6 DEF PauseUnknown, PrepareStale, ReceiptsStale, OutcomesStale, Abandon, Call, Submit,
       Poll, CallRest, Recover, RecoverRest, FinishRecovery, NothingToRecover, Resubmit,
       ClearPause, PauseRemaining, jobVars
  <2> QED
    BY <1>1, <2>1, <2>2, <2>3, <2>4, <2>5, <2>6 DEF ExecutorStep
<1>2. CASE \E j \in Job : Enqueue(j)
  BY <1>2 DEF Enqueue
<1>3. CASE NewDay
  BY <1>3 DEF NewDay
<1>4. ASSUME \/ Interruption \/ Resume \/ UNCHANGED vars
             \/ \E j \in Job : Expire(j)
             \/ \E changed \in SUBSET Job : Scan(changed)
             \/ \E jobs \in SUBSET Job : Claim(jobs)
      PROVE  UNCHANGED <<state, remote, uncertain, reserved>>
  BY <1>4 DEF Interruption, LoseLease, CallRaises, CallRest, NotReady, RecoverRest,
     ResubmitRaises, Crash, Resume, Expire, Scan, Claim, vars, jobVars
<1> QED
  BY <1>1, <1>2, <1>3, <1>4 DEF Next

(* The service is never asked for more than it takes at once, and no day   *)
(* sees more new requests than its limit, whatever is lost or repeated.    *)
LEMMA NextLimits ==
    IInv /\ SlotsBounded /\ DailyLimit /\ [Next]_vars => SlotsBounded' /\ DailyLimit'
<1> SUFFICES ASSUME IInv, SlotsBounded, DailyLimit, [Next]_vars
             PROVE  SlotsBounded' /\ DailyLimit'
  OBVIOUS
<1>1. CASE \E jobs \in SUBSET Candidates : Prepare(jobs)
  BY <1>1, PrepareLimits
<1>2. CASE ~ \E jobs \in SUBSET Candidates : Prepare(jobs)
  <2>1. IsFiniteSet(Held) /\ IsFiniteSet(Today)
    BY FactoryAssumption, FS_Subset DEF Held, Today
  <2>2. Cardinality(Held') <= Cardinality(Held) /\ Cardinality(Today') <= Cardinality(Today)
    BY <1>2, <2>1, OthersTakeNothing, FS_Subset
  <2>3. /\ Cardinality(Held) \in Nat /\ Cardinality(Today) \in Nat
        /\ Cardinality(Held') \in Nat /\ Cardinality(Today') \in Nat
    BY <1>2, <2>1, OthersTakeNothing, FS_Subset, FS_CardinalityType
  <2> QED
    BY <2>2, <2>3, FactoryAssumption DEF SlotsBounded, DailyLimit, Held
<1> QED
  BY <1>1, <1>2

LEMMA InitLimits == Init => SlotsBounded /\ DailyLimit
<1> SUFFICES ASSUME Init PROVE SlotsBounded /\ DailyLimit
  OBVIOUS
<1>1. {j \in Job : SlotHeld(j)} = {} /\ Today = {}
  BY DEF Init, SlotHeld, Today
<1> QED
  BY <1>1, FS_EmptySet, FactoryAssumption DEF SlotsBounded, DailyLimit

(* The unfinished requests at the service, orphans and unknown acceptances *)
(* included, never exceed the configured concurrency.                      *)
THEOREM SlotsAreBounded == Spec => []SlotsBounded
BY InitLimits, NextLimits, InvariantHolds, PTL DEF Spec

(* No day sees more new requests than allowed. *)
THEOREM DayIsLimited == Spec => []DailyLimit
BY InitLimits, NextLimits, InvariantHolds, PTL DEF Spec

(* Requests under way and the day's new requests stay within both limits *)
(* of the executor, for any number of jobs.                              *)
THEOREM LimitsAlwaysHold == Spec => []LimitsHold
BY SlotsAreBounded, DayIsLimited, PTL DEF LimitsHold

-----------------------------------------------------------------------------
(* No step asks the store for a transition it refuses: a refusal would end *)
(* a wave after its requests were sent (store_schema.py, TRANSITIONS).     *)
LEMMA StepLegal ==
    ASSUME IInv, [Next]_vars, NEW j \in Job, state'[j] # state[j]
    PROVE  state'[j] \in Transitions[state[j]]
<1> USE DEF IInv, TypeOK, MarksByState, WaveByStep, RecoveryByStep, AtService, Unknown,
            Runnable, Received, Errors, Transitions
<1>1. CASE ExecutorStep
  <2>1. CASE Reconcile
    BY <2>1 DEF Reconcile, Retired
  <2>2. CASE \E i \in Job : DeferUnknown(i)
    BY <2>2 DEF DeferUnknown, Unresolved
  <2>3. ASSUME NEW jobs \in SUBSET Candidates, Prepare(jobs)
        PROVE  state'[j] \in Transitions[state[j]]
    BY <2>3 DEF Prepare, Candidates, Outdated
  <2>4. CASE SaveReceipts
    BY <2>4 DEF SaveReceipts, WaveAnswered, AnsweredBy
  <2>5. ASSUME NEW result \in [AnsweredBy({"completed"}) -> Results], Apply(result)
        PROVE  state'[j] \in Transitions[state[j]]
    BY <2>5 DEF Apply, AnsweredBy
  <2>6. CASE RecordAcceptance
    BY <2>6 DEF RecordAcceptance
  <2>7. ASSUME \/ PauseUnknown \/ PrepareStale \/ ReceiptsStale \/ OutcomesStale
               \/ \E i \in Job : Call(i) \/ Recover(i)
               \/ FinishRecovery \/ NothingToRecover \/ Resubmit \/ ClearPause \/ PauseRemaining
        PROVE  UNCHANGED state
    BY <2>7 DEF PauseUnknown, PrepareStale, ReceiptsStale, OutcomesStale, Abandon, Call, Submit,
       Poll, CallRest, Recover, RecoverRest, FinishRecovery, NothingToRecover, Resubmit,
       ClearPause, PauseRemaining, jobVars
  <2> QED
    BY <1>1, <2>1, <2>2, <2>3, <2>4, <2>5, <2>6, <2>7 DEF ExecutorStep
<1>2. CASE \E i \in Job : Enqueue(i)
  BY <1>2 DEF Enqueue
<1>3. ASSUME \/ Interruption \/ NewDay \/ Resume \/ UNCHANGED vars
             \/ \E i \in Job : Expire(i)
             \/ \E changed \in SUBSET Job : Scan(changed)
             \/ \E jobs \in SUBSET Job : Claim(jobs)
      PROVE  UNCHANGED state
  BY <1>3 DEF Interruption, LoseLease, CallRaises, CallRest, NotReady, RecoverRest,
     ResubmitRaises, Crash, NewDay, Resume, Expire, Scan, Claim, vars, jobVars
<1> QED
  BY <1>1, <1>2, <1>3 DEF Next

(* The store accepts every transition that is asked of it. *)
THEOREM TransitionsAreLegal == Spec => LegalTransitions
<1>1. IInv /\ [Next]_vars
        => [\A j \in Job : state'[j] # state[j] => state'[j] \in Transitions[state[j]]]_vars
  BY StepLegal
<1> QED
  BY <1>1, InvariantHolds, PTL DEF Spec, LegalTransitions

-----------------------------------------------------------------------------
(* Questions: pieces of a set, and what a round offers. *)

(* A set listed by SetToSeq, each of its elements once. *)
LEMMA ListedOnce ==
    ASSUME NEW S, IsFiniteSet(S)
    PROVE  /\ Cardinality(S) \in Nat
           /\ SetToSeq(S) \in [1 .. Cardinality(S) -> S]
           /\ \A m, n \in 1 .. Cardinality(S) : SetToSeq(S)[m] = SetToSeq(S)[n] => m = n
           /\ \A x \in S : \E n \in 1 .. Cardinality(S) : SetToSeq(S)[n] = x
<1>1. Cardinality(S) \in Nat /\ ExistsBijection(1 .. Cardinality(S), S)
  BY FS_CardinalityType
<1>2. PICK f \in Bijection(1 .. Cardinality(S), S) : TRUE
  BY <1>1 DEF ExistsBijection
<1>3. f \in [1 .. Cardinality(S) -> S] /\ IsInjective(f)
  BY <1>2 DEF Bijection, Injection, Surjection, IsInjective
<1> DEFINE s == SetToSeq(S)
<1>4. s \in [1 .. Cardinality(S) -> S] /\ IsInjective(s)
  BY <1>3 DEF SetToSeq
<1> HIDE DEF s
<1>5. \A m, n \in 1 .. Cardinality(S) : s[m] = s[n] => m = n
  BY <1>4 DEF IsInjective
<1>6. \A x \in S : \E n \in 1 .. Cardinality(S) : s[n] = x
  <2>1. IsFiniteSet(1 .. Cardinality(S)) /\ Cardinality(1 .. Cardinality(S)) = Cardinality(S)
    BY <1>1, FS_Interval
  <2>2. s \in Injection(1 .. Cardinality(S), S)
    BY <1>4, <1>5 DEF Injection
  <2>3. s \in Surjection(1 .. Cardinality(S), S)
    BY <2>1, <2>2, FS_Injection
  <2> QED BY <2>3 DEF Surjection
<1> QED BY <1>1, <1>4, <1>5, <1>6 DEF s

(* The place of the n-th element among pieces of a size. *)
LEMMA PlaceOf ==
    ASSUME NEW n \in Nat \ {0}, NEW L \in Nat, n <= L, NEW size \in Nat \ {0}
    PROVE  \E i \in 1 .. (L + size - 1) \div size : (i - 1) * size < n /\ n <= i * size
<1> DEFINE i == (n + size - 1) \div size
           N == (L + size - 1) \div size
<1>1. i \in Int /\ N \in Int
  OBVIOUS
<1>2. size * i <= n + size - 1 /\ n + size - 1 < size * i + size
  OBVIOUS
<1>3. size * N <= L + size - 1 /\ L + size - 1 < size * N + size
  OBVIOUS
<1> HIDE DEF i, N
<1>4. i >= 1
  BY <1>1, <1>2
<1>5. i <= N
  BY <1>1, <1>2, <1>3
<1>6. (i - 1) * size < n /\ n <= i * size
  BY <1>1, <1>2
<1> QED BY <1>1, <1>4, <1>5, <1>6 DEF N

(* No element lies in two pieces. *)
LEMMA OnePlace ==
    ASSUME NEW n \in Nat, NEW size \in Nat \ {0}, NEW i \in Nat, NEW j \in Nat,
           (i - 1) * size < n, n <= i * size, (j - 1) * size < n, n <= j * size
    PROVE  i = j
OBVIOUS

(* The pieces of a finite set are a sequence of disjoint sets that make it. *)
LEMMA PiecesFacts ==
    ASSUME NEW S, IsFiniteSet(S), NEW size \in Nat \ {0}
    PROVE  /\ Pieces(S, size) \in Seq(SUBSET S)
           /\ IsFiniteSet(DOMAIN Pieces(S, size))
           /\ UNION {Pieces(S, size)[i] : i \in DOMAIN Pieces(S, size)} = S
           /\ \A i, j \in DOMAIN Pieces(S, size) :
                i # j => Pieces(S, size)[i] \cap Pieces(S, size)[j] = {}
<1> DEFINE s == SetToSeq(S)
           L == Cardinality(S)
           N == (L + size - 1) \div size
           P == Pieces(S, size)
           In(i) == {n \in 1 .. L : (i - 1) * size < n /\ n <= i * size}
<1>1. /\ L \in Nat /\ s \in [1 .. L -> S]
      /\ \A m, n \in 1 .. L : s[m] = s[n] => m = n
      /\ \A x \in S : \E n \in 1 .. L : s[n] = x
  BY ListedOnce
<1>4. P = [i \in 1 .. N |-> {s[n] : n \in In(i)}]
  BY DEF Pieces
<1> HIDE DEF s, L, P
<1>2. N \in Int /\ size * N <= L + size - 1 /\ L + size - 1 < size * N + size
  BY <1>1
<1>3. N \in Nat
  BY <1>1, <1>2
<1>5. \A x \in S : \E i \in 1 .. N : \E n \in In(i) : s[n] = x
  <2> SUFFICES ASSUME NEW x \in S PROVE \E i \in 1 .. N : \E n \in In(i) : s[n] = x
    OBVIOUS
  <2>1. PICK n \in 1 .. L : s[n] = x
    BY <1>1
  <2>2. n \in Nat \ {0} /\ n <= L
    BY <1>1, <2>1
  <2>3. PICK i \in 1 .. N : (i - 1) * size < n /\ n <= i * size
    BY <1>1, <2>2, PlaceOf
  <2> QED BY <2>1, <2>3
<1>6. \A i, j \in 1 .. N : \A m \in In(i), n \in In(j) : s[m] = s[n] => i = j
  <2> SUFFICES ASSUME NEW i \in 1 .. N, NEW j \in 1 .. N, NEW m \in In(i), NEW n \in In(j), s[m] = s[n]
               PROVE  i = j
    OBVIOUS
  <2>1. m = n /\ n \in Nat
    BY <1>1
  <2>2. i \in Nat /\ j \in Nat
    BY <1>3
  <2>3. (i - 1) * size < n /\ n <= i * size /\ (j - 1) * size < n /\ n <= j * size
    BY <2>1
  <2> QED BY <2>1, <2>2, <2>3, OnePlace
<1>7. \A i \in 1 .. N : In(i) \subseteq 1 .. L
  OBVIOUS
<1> HIDE DEF N, In
<1>8. P \in [1 .. N -> SUBSET S] /\ DOMAIN P = 1 .. N /\ \A i \in 1 .. N : P[i] = {s[n] : n \in In(i)}
  BY <1>1, <1>4, <1>7
<1>9. P \in Seq(SUBSET S)
  BY <1>3, <1>8
<1>10. IsFiniteSet(DOMAIN P)
  BY <1>3, <1>8, FS_Interval
<1>11. UNION {P[i] : i \in DOMAIN P} = S
  <2>1. ASSUME NEW x \in S PROVE x \in UNION {P[i] : i \in DOMAIN P}
    <3>1. PICK i \in 1 .. N : \E n \in In(i) : s[n] = x
      BY <1>5
    <3>2. x \in P[i]
      BY <1>8, <3>1
    <3> QED BY <1>8, <3>2
  <2>2. ASSUME NEW x \in UNION {P[i] : i \in DOMAIN P} PROVE x \in S
    BY <1>8
  <2> QED BY <2>1, <2>2
<1>12. \A i, j \in DOMAIN P : i # j => P[i] \cap P[j] = {}
  BY <1>6, <1>8
<1> QED BY <1>9, <1>10, <1>11, <1>12 DEF P

(* A sequence that divides a set into parts with nothing in common. *)
Divides(s, S) ==
    /\ s \in Seq(SUBSET S) /\ IsFiniteSet(DOMAIN s)
    /\ UNION {s[i] : i \in DOMAIN s} = S
    /\ \A i, j \in DOMAIN s : i # j => s[i] \cap s[j] = {}

(* Two such sequences, of sets with nothing in common, one after the other.*)
LEMMA JoinedFacts ==
    ASSUME NEW A, NEW B, A \cap B = {}, NEW s, NEW t, Divides(s, A), Divides(t, B)
    PROVE  Divides(s \o t, A \cup B)
<1> DEFINE P == s \o t
<1>10. /\ s \in Seq(SUBSET A) /\ UNION {s[i] : i \in DOMAIN s} = A
       /\ t \in Seq(SUBSET B) /\ UNION {t[i] : i \in DOMAIN t} = B
       /\ \A i, j \in DOMAIN s : i # j => s[i] \cap s[j] = {}
       /\ \A i, j \in DOMAIN t : i # j => t[i] \cap t[j] = {}
  BY DEF Divides
<1>1. s \in Seq(SUBSET (A \cup B)) /\ t \in Seq(SUBSET (A \cup B))
  <2>1. SUBSET A \subseteq SUBSET (A \cup B) /\ SUBSET B \subseteq SUBSET (A \cup B)
    OBVIOUS
  <2>2. /\ Len(s) \in Nat /\ s \in [1 .. Len(s) -> SUBSET A]
        /\ Len(t) \in Nat /\ t \in [1 .. Len(t) -> SUBSET B]
    BY <1>10
  <2> QED BY <2>1, <2>2
<1>2. P \in Seq(SUBSET (A \cup B)) /\ DOMAIN P = 1 .. Len(s) + Len(t) /\ Len(s) \in Nat /\ Len(t) \in Nat
  BY <1>1
<1>3. \A i \in DOMAIN s : i \in DOMAIN P /\ P[i] = s[i]
  BY <1>1
<1>4. \A i \in DOMAIN t : i + Len(s) \in DOMAIN P /\ P[i + Len(s)] = t[i]
  BY <1>1
<1>5. ASSUME NEW i \in DOMAIN P
      PROVE  \/ i \in DOMAIN s /\ P[i] = s[i]
             \/ i - Len(s) \in DOMAIN t /\ P[i] = t[i - Len(s)] /\ i = i - Len(s) + Len(s)
  BY <1>1, <1>2
<1>6. IsFiniteSet(DOMAIN P)
  <2>1. PICK N \in Int : N = Len(s) + Len(t) /\ DOMAIN P = 1 .. N
    BY <1>2
  <2> QED BY <2>1, FS_Interval
<1>7. (\A i \in DOMAIN s : s[i] \subseteq A) /\ (\A i \in DOMAIN t : t[i] \subseteq B)
  BY <1>10
<1>8. UNION {P[i] : i \in DOMAIN P} = A \cup B
  <2>1. ASSUME NEW x \in A PROVE x \in UNION {P[i] : i \in DOMAIN P}
    <3>1. PICK i \in DOMAIN s : x \in s[i]
      BY <1>10
    <3> QED BY <1>3, <3>1
  <2>2. ASSUME NEW x \in B PROVE x \in UNION {P[i] : i \in DOMAIN P}
    <3>1. PICK i \in DOMAIN t : x \in t[i]
      BY <1>10
    <3> QED BY <1>4, <3>1
  <2>3. ASSUME NEW i \in DOMAIN P PROVE P[i] \subseteq A \cup B
    BY <1>5, <1>7
  <2> QED BY <2>1, <2>2, <2>3
<1>9. ASSUME NEW i \in DOMAIN P, NEW j \in DOMAIN P, i # j PROVE P[i] \cap P[j] = {}
  <2>1. CASE i \in DOMAIN s /\ P[i] = s[i] /\ j \in DOMAIN s /\ P[j] = s[j]
    BY <1>9, <1>10, <2>1
  <2>2. CASE (P[i] \subseteq A /\ P[j] \subseteq B) \/ (P[i] \subseteq B /\ P[j] \subseteq A)
    BY <2>2
  <2>3. CASE /\ i - Len(s) \in DOMAIN t /\ P[i] = t[i - Len(s)] /\ i = i - Len(s) + Len(s)
             /\ j - Len(s) \in DOMAIN t /\ P[j] = t[j - Len(s)] /\ j = j - Len(s) + Len(s)
    <3>1. i - Len(s) # j - Len(s)
      BY <1>9, <2>3
    <3> QED BY <1>10, <2>3, <3>1
  <2> QED BY <1>5, <1>7, <2>1, <2>2, <2>3
<1> QED BY <1>2, <1>6, <1>8, <1>9 DEF Divides

(* Batches, unless the first claim is oversize, divide the claims. *)
LEMMA BatchesFacts ==
    ASSUME NEW S, IsFiniteSet(S), NEW size \in Nat \ {0}, NEW manner,
           Batches(S, manner, size) # <<>>
    PROVE  Divides(Batches(S, manner, size), S)
<1> DEFINE large == {c \in S : Oversize(c, manner)}
           rest == S \ large
<1>1. Batches(S, manner, size) = Pieces(rest, size) \o Pieces(large, 1)
  BY DEF Batches
<1>2. rest \cup large = S /\ rest \cap large = {} /\ rest \in SUBSET S /\ large \in SUBSET S
  OBVIOUS
<1> HIDE DEF large, rest
<1>3. IsFiniteSet(rest) /\ IsFiniteSet(large)
  BY <1>2, FS_Subset
<1>4. Divides(Pieces(rest, size), rest)
  BY <1>3, PiecesFacts DEF Divides
<1>5. Divides(Pieces(large, 1), large)
  <2>1. 1 \in Nat \ {0}
    OBVIOUS
  <2> QED BY <1>3, <2>1, PiecesFacts DEF Divides
<1>6. Divides(Pieces(rest, size) \o Pieces(large, 1), rest \cup large)
  BY <1>2, <1>4, <1>5, JoinedFacts
<1> QED BY <1>1, <1>2, <1>6

(* The image of a finite set, under a function. *)
LEMMA ImageIsFinite ==
    ASSUME NEW S, IsFiniteSet(S), NEW h
    PROVE  IsFiniteSet({h[x] : x \in S})
<1> DEFINE T == {h[x] : x \in S}
           g == [x \in S |-> h[x]]
<1>1. g \in Surjection(S, T)
  BY DEF Surjection
<1> QED BY <1>1, FS_Surjection

(* The jobs of a round, by the place of their part. *)
LEMMA RoundFacts ==
    ASSUME NEW r, NEW n, NEW kind, NEW manner, NEW parts
    PROVE  LET new == RoundJobs(r, n, kind, manner, parts) IN
           /\ \A k \in DOMAIN new :
                /\ k[1] = r /\ k[2] = n /\ k[3] = kind /\ k[4] = manner
                /\ k[5] \in DOMAIN parts /\ new[k] = parts[k[5]]
                /\ k = Key(r, n, kind, manner, k[5])
           /\ \A i \in DOMAIN parts :
                /\ Key(r, n, kind, manner, i) \in DOMAIN new
                /\ new[Key(r, n, kind, manner, i)] = parts[i]
           /\ IsFiniteSet(DOMAIN parts) => IsFiniteSet(DOMAIN new)
<1> DEFINE new == RoundJobs(r, n, kind, manner, parts)
           h == [i \in DOMAIN parts |-> Key(r, n, kind, manner, i)]
<1>1. DOMAIN new = {Key(r, n, kind, manner, i) : i \in DOMAIN parts}
  BY DEF RoundJobs
<1>2. ASSUME NEW k \in DOMAIN new
      PROVE  /\ k[1] = r /\ k[2] = n /\ k[3] = kind /\ k[4] = manner
             /\ k[5] \in DOMAIN parts /\ new[k] = parts[k[5]]
             /\ k = Key(r, n, kind, manner, k[5])
  <2>1. PICK i \in DOMAIN parts : k = Key(r, n, kind, manner, i)
    BY <1>1
  <2>2. k[1] = r /\ k[2] = n /\ k[3] = kind /\ k[4] = manner /\ k[5] = i
    BY <2>1 DEF Key
  <2>3. new[k] = parts[k[5]]
    BY <1>1 DEF RoundJobs
  <2> QED BY <2>1, <2>2, <2>3
<1>3. ASSUME NEW i \in DOMAIN parts
      PROVE  /\ Key(r, n, kind, manner, i) \in DOMAIN new
             /\ new[Key(r, n, kind, manner, i)] = parts[i]
  <2>1. Key(r, n, kind, manner, i) \in DOMAIN new
    BY <1>1
  <2>2. Key(r, n, kind, manner, i)[5] = i
    BY DEF Key
  <2> QED BY <1>2, <2>1, <2>2
<1>4. ASSUME IsFiniteSet(DOMAIN parts) PROVE IsFiniteSet(DOMAIN new)
  <2>1. IsFiniteSet({h[i] : i \in DOMAIN parts})
    BY <1>4, ImageIsFinite
  <2>2. {h[i] : i \in DOMAIN parts} = DOMAIN new
    BY <1>1
  <2> QED BY <2>1, <2>2
<1> HIDE DEF new, h
<1> QED BY <1>2, <1>3, <1>4 DEF new

(* The jobs that reduce a round divide its claims, one for each part. *)
NextOK(new, r, n, K) ==
    LET parts == Parts(K).parts IN
    /\ IsFiniteSet(DOMAIN new) /\ Cardinality(DOMAIN new) <= Len(parts) /\ Len(parts) \in Nat
    /\ \A k \in DOMAIN new :
         /\ k[1] = r /\ k[2] = n + 1 /\ k[4] = Parts(K).manner /\ new[k] \subseteq Points(K)
         /\ k[3] \in {"map", "reduce"} /\ (k[3] = "reduce" <=> Len(parts) = 1)
         /\ k[3] = "reduce" => DOMAIN new = {k}
    /\ \A j, k \in DOMAIN new : j[3] = k[3] /\ j[4] = k[4]
    /\ \A j, k \in DOMAIN new : j # k => new[j] \cap new[k] = {}
    /\ UNION {new[k] : k \in DOMAIN new} = Points(K)

LEMMA NextFacts ==
    ASSUME NEW r, NEW n, NEW K, IsFiniteSet(Points(K)), Parts(K).parts # <<>>
    PROVE  NextOK(NextJobs(r, n, K), r, n, K)
<1> DEFINE p == Parts(K)
           kind == IF Len(p.parts) = 1 THEN "reduce" ELSE "map"
           new == NextJobs(r, n, K)
           P == p.parts
<1>1. PICK how \in {"pick", "write"} : \E size \in Nat \ {0} : P = Batches(Points(K), how, size)
  BY QuestionsAssumption DEF Parts
<1>17. PICK size \in Nat \ {0} : P = Batches(Points(K), how, size)
  BY <1>1
<1>2. /\ P \in Seq(SUBSET Points(K)) /\ IsFiniteSet(DOMAIN P)
      /\ UNION {P[i] : i \in DOMAIN P} = Points(K)
      /\ \A i, j \in DOMAIN P : i # j => P[i] \cap P[j] = {}
  <2>1. P # <<>>
    OBVIOUS
  <2>2. Divides(P, Points(K))
    BY <1>17, <2>1, BatchesFacts
  <2> QED BY <2>2 DEF Divides
<1>3. new = RoundJobs(r, n + 1, kind, p.manner, P)
  BY DEF NextJobs
<1> DEFINE manner == p.manner
           m == n + 1
<1>4. new = RoundJobs(r, m, kind, manner, P)
  BY <1>3
<1>12. kind \in {"map", "reduce"} /\ (kind = "reduce" <=> Len(P) = 1)
  OBVIOUS
<1> HIDE DEF p, kind, new, P, manner, m
<1>5. /\ \A k \in DOMAIN new :
           /\ k[1] = r /\ k[2] = m /\ k[3] = kind /\ k[4] = manner
           /\ k[5] \in DOMAIN P /\ new[k] = P[k[5]]
           /\ k = Key(r, m, kind, manner, k[5])
      /\ \A i \in DOMAIN P :
           /\ Key(r, m, kind, manner, i) \in DOMAIN new
           /\ new[Key(r, m, kind, manner, i)] = P[i]
      /\ IsFiniteSet(DOMAIN new)
  BY <1>2, <1>4, RoundFacts
<1>6. \A i \in DOMAIN P : P[i] \subseteq Points(K)
  BY <1>2
<1>7. \A k \in DOMAIN new : k[1] = r /\ k[2] = m /\ k[4] = manner /\ new[k] \subseteq Points(K)
  BY <1>5, <1>6
<1>8. \A j, k \in DOMAIN new : j[3] = k[3] /\ j[4] = k[4]
  BY <1>5
<1>9. ASSUME NEW j \in DOMAIN new, NEW k \in DOMAIN new, j # k PROVE new[j] \cap new[k] = {}
  <2>1. j[5] # k[5]
    BY <1>5, <1>9
  <2> QED BY <1>2, <1>5, <2>1
<1>10. UNION {new[k] : k \in DOMAIN new} = Points(K)
  <2>1. ASSUME NEW c \in Points(K) PROVE c \in UNION {new[k] : k \in DOMAIN new}
    <3>1. PICK i \in DOMAIN P : c \in P[i]
      BY <1>2
    <3> QED BY <1>5, <3>1
  <2> QED BY <1>7, <2>1
<1>11. m = n + 1
  BY DEF m
<1>13. Len(P) \in Nat /\ DOMAIN P = 1 .. Len(P)
  BY <1>2
<1>14. Cardinality(DOMAIN new) <= Len(P)
  <2> DEFINE h == [i \in DOMAIN P |-> Key(r, m, kind, manner, i)]
  <2>1. h \in Surjection(DOMAIN P, DOMAIN new)
    BY <1>5 DEF Surjection
  <2>2. Cardinality(DOMAIN P) = Len(P)
    <3>1. PICK N \in Nat : N = Len(P) /\ DOMAIN P = 1 .. N
      BY <1>13
    <3>2. 1 \in Int /\ N \in Int
      OBVIOUS
    <3>3. Cardinality(1 .. N) = IF 1 > N THEN 0 ELSE N - 1 + 1
      BY <3>2, FS_Interval
    <3>4. Cardinality(1 .. N) = N
      BY <3>3
    <3> QED BY <3>1, <3>4
  <2> HIDE DEF h
  <2> QED BY <1>2, <2>1, <2>2, FS_Surjection
<1>15. ASSUME NEW k \in DOMAIN new, k[3] = "reduce" PROVE DOMAIN new = {k}
  <2>1. DOMAIN P = {1}
    BY <1>5, <1>12, <1>13, <1>15
  <2>2. \A j \in DOMAIN new : j = k
    BY <1>5, <2>1
  <2> QED BY <2>2
<1>16. \A k \in DOMAIN new : k[3] \in {"map", "reduce"} /\ (k[3] = "reduce" <=> Len(P) = 1)
  BY <1>5, <1>12
<1> QED BY <1>5, <1>7, <1>8, <1>9, <1>10, <1>11, <1>13, <1>14, <1>15, <1>16 DEF NextOK, new, P, p, manner

(* The reports quote units, and there are finitely many of them. *)
ReportsOK ==
    /\ mode \in {"local", "global"} /\ found \subseteq Unit
    /\ IsFiniteSet(reports) /\ \A p \in reports : p.claims \subseteq Unit

(* Safe claims are about safe units. *)
LEMMA SafeClaimsFacts ==
    ASSUME ReportsOK, NEW p \in reports
    PROVE  IsFiniteSet(SafeClaims(p)) /\ SafeClaims(p) \subseteq Unit \ Sensitive
<1>1. SafeClaims(p) \subseteq Unit \ Sensitive
  BY DEF ReportsOK, SafeClaims
<1>2. SafeClaims(p) \in SUBSET Unit
  BY <1>1
<1> QED BY <1>1, <1>2, FS_Subset, QuestionsAssumption

(* The parts of the reports are finitely many, about safe units, and none of*)
(* them has the place of a unit.                                           *)
LEMMA ReportPartsFacts ==
    ASSUME ReportsOK, NEW R, R \subseteq reports
    PROVE  /\ IsFiniteSet(ReportParts(R))
           /\ \A x \in ReportParts(R) :
                /\ Pieces(SafeClaims(x[1]), WriteSize)[x[2]] \subseteq Unit \ Sensitive
                /\ \A u : x # <<u>>
<1> DEFINE P(p) == Pieces(SafeClaims(p), WriteSize)
           X(p) == {<<p, i>> : i \in DOMAIN P(p)}
           F == Frontier(R)
<1>1. F \subseteq reports
  BY DEF Frontier
<1>2. IsFiniteSet(F)
  BY <1>1, FS_Subset DEF ReportsOK
<1>3. ASSUME NEW p \in F
      PROVE  /\ P(p) \in Seq(SUBSET (Unit \ Sensitive)) /\ IsFiniteSet(DOMAIN P(p))
             /\ \A i \in DOMAIN P(p) : P(p)[i] \subseteq Unit \ Sensitive
  <2>1. IsFiniteSet(SafeClaims(p)) /\ SafeClaims(p) \subseteq Unit \ Sensitive
    BY <1>1, SafeClaimsFacts
  <2>2. WriteSize \in Nat \ {0}
    BY QuestionsAssumption
  <2>3. P(p) \in Seq(SUBSET SafeClaims(p)) /\ IsFiniteSet(DOMAIN P(p))
    BY <2>1, <2>2, PiecesFacts
  <2> HIDE DEF P
  <2>4. \A i \in DOMAIN P(p) : P(p)[i] \subseteq SafeClaims(p)
    BY <2>3
  <2> QED BY <2>1, <2>3, <2>4
<1>4. ASSUME NEW p \in F PROVE IsFiniteSet(X(p))
  <2> DEFINE h == [i \in DOMAIN P(p) |-> <<p, i>>]
  <2>1. IsFiniteSet({h[i] : i \in DOMAIN P(p)})
    BY <1>3, ImageIsFinite
  <2>2. {h[i] : i \in DOMAIN P(p)} = X(p)
    OBVIOUS
  <2> QED BY <2>1, <2>2
<1>5. IsFiniteSet({X(p) : p \in F})
  <2> DEFINE h == [p \in F |-> X(p)]
  <2>1. IsFiniteSet({h[p] : p \in F})
    BY <1>2, ImageIsFinite
  <2>2. {h[p] : p \in F} = {X(p) : p \in F}
    BY Zenon
  <2> QED BY <2>1, <2>2
<1>6. ReportParts(R) = UNION {X(p) : p \in F}
  BY DEF ReportParts
<1>7. IsFiniteSet(ReportParts(R))
  <2> DEFINE T == {X(p) : p \in F}
  <2>1. \A U \in T : IsFiniteSet(U)
    BY <1>4
  <2>2. IsFiniteSet(T)
    BY <1>5
  <2>3. ReportParts(R) = UNION T
    BY <1>6
  <2> HIDE DEF T
  <2> QED BY <2>1, <2>2, <2>3, FS_UNION
<1>8. ASSUME NEW x \in ReportParts(R)
      PROVE  /\ Pieces(SafeClaims(x[1]), WriteSize)[x[2]] \subseteq Unit \ Sensitive
             /\ \A u : x # <<u>>
  <2>1. PICK p \in F : \E i \in DOMAIN P(p) : x = <<p, i>>
    BY <1>6, <1>8
  <2>2. PICK i \in DOMAIN P(p) : x = <<p, i>>
    BY <2>1
  <2>3. x[1] = p /\ x[2] = i /\ Len(x) = 2
    BY <2>2
  <2>4. \A u : Len(<<u>>) = 1
    OBVIOUS
  <2> QED BY <1>3, <2>3, <2>4
<1> QED BY <1>7, <1>8

(* The first round is over safe units only, and over every one of them if  *)
(* the question is global.                                                 *)
LEMMA EvidenceFacts ==
    ASSUME ReportsOK, NEW r
    PROVE  /\ IsFiniteSet(DOMAIN Evidence(r))
           /\ \A p \in DOMAIN Evidence(r) : Evidence(r)[p] \subseteq Unit \ Sensitive
           /\ mode = "local" => \A p \in DOMAIN Evidence(r) : Evidence(r)[p] = found \ Sensitive
           /\ mode = "global" =>
                \A u \in Unit \ Sensitive : <<u>> \in DOMAIN Evidence(r) /\ Evidence(r)[<<u>>] = {u}
<1> DEFINE e == Evidence(r)
           X == ReportParts(IF r = 1 THEN reports ELSE {})
           Y == {<<u>> : u \in Unit \ Sensitive}
<1>1. CASE mode = "local"
  <2>1. e = [p \in IF found \ Sensitive = {} THEN {} ELSE {<<"found">>} |-> found \ Sensitive]
    BY <1>1 DEF Evidence
  <2>2. DOMAIN e \subseteq {<<"found">>} /\ \A p \in DOMAIN e : e[p] = found \ Sensitive
    BY <2>1
  <2>3. IsFiniteSet(DOMAIN e)
    BY <2>2, FS_Singleton, FS_Subset
  <2>4. found \ Sensitive \subseteq Unit \ Sensitive
    BY DEF ReportsOK
  <2> QED BY <1>1, <2>2, <2>3, <2>4
<1>2. CASE mode = "global"
  <2>1. e = [p \in X \cup Y |-> IF p \in X THEN Pieces(SafeClaims(p[1]), WriteSize)[p[2]] ELSE {p[1]}]
    BY <1>2 DEF Evidence
  <2>2. (IF r = 1 THEN reports ELSE {}) \subseteq reports
    OBVIOUS
  <2>3. /\ IsFiniteSet(X)
        /\ \A x \in X : /\ Pieces(SafeClaims(x[1]), WriteSize)[x[2]] \subseteq Unit \ Sensitive
                        /\ \A u : x # <<u>>
    BY <2>2, ReportPartsFacts
  <2>4. IsFiniteSet(Y)
    <3> DEFINE h == [u \in Unit \ Sensitive |-> <<u>>]
    <3>1. IsFiniteSet(Unit \ Sensitive)
      BY FS_Subset, QuestionsAssumption
    <3>2. IsFiniteSet({h[u] : u \in Unit \ Sensitive})
      BY <3>1, ImageIsFinite
    <3>3. {h[u] : u \in Unit \ Sensitive} = Y
      OBVIOUS
    <3> QED BY <3>2, <3>3
  <2> HIDE DEF X, e
  <2>5. IsFiniteSet(DOMAIN e)
    BY <2>1, <2>3, <2>4, FS_Union
  <2>6. ASSUME NEW p \in DOMAIN e PROVE e[p] \subseteq Unit \ Sensitive
    <3>1. CASE p \in X
      BY <2>1, <2>3, <3>1
    <3>2. CASE p \notin X
      <4>1. PICK u \in Unit \ Sensitive : p = <<u>>
        BY <2>1, <3>2
      <4>2. e[p] = {u}
        BY <2>1, <3>2, <4>1
      <4> QED BY <4>2
    <3> QED BY <3>1, <3>2
  <2>7. ASSUME NEW u \in Unit \ Sensitive PROVE <<u>> \in DOMAIN e /\ e[<<u>>] = {u}
    <3>1. <<u>> \notin X /\ <<u>> \in Y
      BY <2>3
    <3> QED BY <2>1, <3>1
  <2> QED BY <1>2, <2>5, <2>6, <2>7 DEF e
<1> QED BY <1>1, <1>2 DEF ReportsOK

(* The jobs of the first round: one for every safe unit if the question is *)
(* global, and about no sensitive one.                                     *)
LEMMA FirstFacts ==
    ASSUME ReportsOK, NEW r
    PROVE  /\ IsFiniteSet(DOMAIN FirstJobs(r))
           /\ \A k \in DOMAIN FirstJobs(r) :
                /\ k[1] = r /\ k[2] = 0
                /\ k[3] = IF mode = "local" THEN "local" ELSE "map"
                /\ k[4] = "write"
                /\ IsFiniteSet(FirstJobs(r)[k])
                /\ Firsts(FirstJobs(r)[k]) \subseteq Unit \ Sensitive
                /\ mode = "local" => Firsts(FirstJobs(r)[k]) \subseteq found \ Sensitive
           /\ mode = "global" =>
                \A u \in Unit \ Sensitive : \E k \in DOMAIN FirstJobs(r) : <<u, <<>>, "plain">> \in FirstJobs(r)[k]
<1> DEFINE e == Evidence(r)
           kind == IF mode = "local" THEN "local" ELSE "map"
           parts == [i \in DOMAIN e |-> Offered(e[i])]
           new == FirstJobs(r)
<1>1. new = RoundJobs(r, 0, kind, "write", parts)
  BY DEF FirstJobs
<1>2. /\ IsFiniteSet(DOMAIN e)
      /\ \A p \in DOMAIN e : e[p] \subseteq Unit \ Sensitive
      /\ mode = "local" => \A p \in DOMAIN e : e[p] = found \ Sensitive
      /\ mode = "global" => \A u \in Unit \ Sensitive : <<u>> \in DOMAIN e /\ e[<<u>>] = {u}
  BY EvidenceFacts
<1>3. DOMAIN parts = DOMAIN e /\ \A i \in DOMAIN e : parts[i] = Offered(e[i])
  OBVIOUS
<1> HIDE DEF e, kind, parts, new
<1>4. /\ \A k \in DOMAIN new :
           /\ k[1] = r /\ k[2] = 0 /\ k[3] = kind /\ k[4] = "write"
           /\ k[5] \in DOMAIN parts /\ new[k] = parts[k[5]]
      /\ \A i \in DOMAIN parts :
           /\ Key(r, 0, kind, "write", i) \in DOMAIN new
           /\ new[Key(r, 0, kind, "write", i)] = parts[i]
      /\ IsFiniteSet(DOMAIN new)
  BY <1>1, <1>2, <1>3, RoundFacts
<1>5. ASSUME NEW i \in DOMAIN e
      PROVE  /\ IsFiniteSet(Offered(e[i])) /\ Firsts(Offered(e[i])) \subseteq Unit \ Sensitive
             /\ mode = "local" => Firsts(Offered(e[i])) \subseteq found \ Sensitive
  <2> DEFINE h == [u \in e[i] |-> <<u, <<>>, "plain">>]
  <2>1. e[i] \in SUBSET Unit /\ e[i] \subseteq Unit \ Sensitive
    BY <1>2
  <2>2. IsFiniteSet(e[i])
    BY <2>1, FS_Subset, QuestionsAssumption
  <2>3. IsFiniteSet({h[u] : u \in e[i]})
    BY <2>2, ImageIsFinite
  <2>4. {h[u] : u \in e[i]} = Offered(e[i])
    BY DEF Offered
  <2>5. Firsts(Offered(e[i])) \subseteq e[i]
    <3> SUFFICES ASSUME NEW c \in Offered(e[i]) PROVE c[1] \in e[i]
      BY DEF Firsts
    <3>1. PICK u \in e[i] : c = <<u, <<>>, "plain">>
      BY DEF Offered
    <3> QED BY <3>1
  <2> QED BY <1>2, <2>1, <2>3, <2>4, <2>5
<1>6. ASSUME NEW k \in DOMAIN new
      PROVE  /\ IsFiniteSet(new[k]) /\ Firsts(new[k]) \subseteq Unit \ Sensitive
             /\ mode = "local" => Firsts(new[k]) \subseteq found \ Sensitive
  <2>1. k[5] \in DOMAIN e /\ new[k] = Offered(e[k[5]])
    BY <1>3, <1>4
  <2> QED BY <1>5, <2>1
<1>7. ASSUME mode = "global", NEW u \in Unit \ Sensitive
      PROVE  \E k \in DOMAIN new : <<u, <<>>, "plain">> \in new[k]
  <2>1. <<u>> \in DOMAIN e /\ e[<<u>>] = {u}
    BY <1>2, <1>7
  <2>2. <<u, <<>>, "plain">> \in Offered(e[<<u>>])
    BY <2>1 DEF Offered
  <2> DEFINE p == <<u>>
  <2>3. p \in DOMAIN parts /\ parts[p] = Offered(e[p])
    BY <1>3, <2>1
  <2>4. <<u, <<>>, "plain">> \in Offered(e[p])
    BY <2>2
  <2> HIDE DEF p
  <2>5. /\ Key(r, 0, kind, "write", p) \in DOMAIN new
        /\ new[Key(r, 0, kind, "write", p)] = parts[p]
    BY <1>4, <2>3
  <2> QED BY <2>3, <2>4, <2>5
<1> QED BY <1>4, <1>6, <1>7 DEF new, kind

-----------------------------------------------------------------------------
(* A job that selects claims answers with some of those it was offered,    *)
(* about all the kinds of documents among those.                           *)
Selects(offered, claims) ==
    /\ claims \subseteq offered
    /\ \A kind \in wanted : kind \cap Firsts(offered) # {} => kind \cap Firsts(claims) # {}

TaskOK(k) ==
    /\ k[1] \in 1 .. revision /\ k[2] \in Nat /\ (k[2] > 0 => mode = "global")
    /\ tasks[k].state \in {"planned", "completed", "failed", "obsolete"}
    /\ IsFiniteSet(tasks[k].offered) /\ IsFiniteSet(tasks[k].claims)
    /\ tasks[k].state # "completed" => tasks[k].claims = {}
    /\ \A c \in tasks[k].claims : \E d \in tasks[k].offered : c[1] = d[1]
    /\ k[4] = "pick" /\ tasks[k].state = "completed" => Selects(tasks[k].offered, tasks[k].claims)

QuestionsTypeOK ==
    /\ ReportsOK
    /\ revision \in Revisions /\ worker \in {"loop", "reconcile", "raised"}
    /\ asker \in [Asker -> [at : {"idle", "enqueue", "store", "done"}, pinned : 1 .. revision]]
    /\ DOMAIN asked = Revisions /\ DOMAIN answers = Revisions
    /\ tasks = [k \in DOMAIN tasks |-> tasks[k]] /\ IsFiniteSet(DOMAIN tasks)
    /\ \A k \in DOMAIN tasks : TaskOK(k)

(* The first round of a revision is there as a whole, or not at all, and a *)
(* thread that is about to store the question has put it there.            *)
FirstRoundStored ==
    \A k \in DOMAIN tasks : k[2] = 0 =>
        /\ k \in DOMAIN FirstJobs(k[1]) /\ tasks[k].offered = FirstJobs(k[1])[k]
        /\ DOMAIN FirstJobs(k[1]) \subseteq DOMAIN tasks
StoresKnown ==
    \A a \in Asker : asker[a].at = "store" => DOMAIN FirstJobs(asker[a].pinned) \subseteq DOMAIN tasks

(* What a question names is a whole round.                                 *)
QuestionOK(r, q) ==
    /\ r \in 1 .. revision
    /\ q = [state |-> q.state, round |-> q.round, jobs |-> q.jobs]
    /\ q.round \in Nat /\ q.jobs = Before(r, q.round)
    /\ q.round = 0 => q.jobs = DOMAIN FirstJobs(r)
    /\ q.round > 0 \/ q.state = "queued" => q.jobs # {}
QuestionsOK ==
    /\ \A r \in Revisions : asked[r] # NoQuestion => QuestionOK(r, asked[r])
    /\ \A p \in pending :
        /\ p.of = revision /\ QuestionOK(p.of, p.question) /\ p.question.round > 0
        /\ worker = "loop"

(* A later round of the current revision is what the answers of the round  *)
(* before it, all of them in, divide into.                                 *)
Reduces(n) ==
    /\ Before(revision, n) # {}
    /\ \A k \in Before(revision, n) : tasks[k].state = "completed"
    /\ Before(revision, n + 1) = DOMAIN NextJobs(revision, n, Before(revision, n))
    /\ \A k \in Before(revision, n + 1) :
        tasks[k].offered = NextJobs(revision, n, Before(revision, n))[k]
RoundsReduce == \A n \in Nat : Before(revision, n + 1) # {} => Reduces(n)

(* An answer that is not one of several is the answer of the question.     *)
AnswersStored ==
    \A k \in DOMAIN tasks :
        k[1] = revision /\ k[3] # "map" /\ tasks[k].state = "completed" => answers[revision] # {}

(* What is said in the first round, and is fit; the kinds of documents it is*)
(* about, when all of it is in; and whether there are several.             *)
Said(r, u) ==
    \E k \in DOMAIN tasks : k[1] = r /\ k[2] = 0 /\ \E c \in tasks[k].claims : c[1] = u /\ c[3] # "unfit"
FirstSettled(r) == Before(r, 0) # {} /\ \A k \in Before(r, 0) : tasks[k].state = "completed"
Named(r) == Covered(Points(Before(r, 0)))
Several(r) == \E one, other \in Named(r) : one # other

(* A later round comes after a first one that is settled.  It is over fit   *)
(* claims only, about what was said in the first round and, if that was    *)
(* about several named kinds, to select claims among some about each; and  *)
(* it is smaller than the round before it, unless it is a single request.  *)
LaterOK(k) ==
    /\ FirstSettled(revision)
    /\ \A c \in tasks[k].offered : c[3] # "unfit" /\ Said(revision, c[1])
    /\ Several(revision) =>
        /\ k[4] = "pick"
        /\ \A kind \in Named(revision) :
            \E j \in Before(revision, k[2]) : \E c \in tasks[j].offered : c[1] \in kind
    /\ \/ k[3] = "reduce"
       \/ Cardinality(Before(revision, k[2])) < Cardinality(Before(revision, k[2] - 1))
    /\ k[3] \in {"map", "reduce"} /\ (k[3] = "reduce" => Before(revision, k[2]) = {k})
LaterRounds == \A k \in DOMAIN tasks : k[1] = revision /\ k[2] > 0 => LaterOK(k)

(* Answers rest on the evidence found, or on what was said.                *)
AnswerOK(r, claims) ==
    /\ mode = "local" => Firsts(claims) \subseteq found \ Sensitive
    /\ mode = "global" =>
        /\ FirstSettled(r) /\ \A c \in claims : Said(r, c[1])
        /\ Several(r) => Named(r) \subseteq Covered(claims)
AnswersSaid ==
    \A r \in Revisions : \A claims \in answers[r] :
        (r = revision \/ worker = "reconcile") /\ AnswerOK(r, claims)

(* What ends the worker is one oversize claim of the round at hand, and it *)
(* ends with it until the sources change.                                  *)
RaisedOK ==
    worker = "raised" =>
        /\ pending = {} /\ \A a \in Asker : asker[a].at \in {"idle", "done"}
        /\ Reducible(revision) /\ Unbuildable(asked[revision].jobs)

(* What was answered of earlier sources is withdrawn before work goes on. *)
OldWithdrawn ==
    worker = "loop" => \A k \in DOMAIN tasks : tasks[k].state = "completed" => k[1] = revision

QuestionsIInv ==
    /\ QuestionsTypeOK /\ FirstRoundStored /\ StoresKnown /\ QuestionsOK /\ RoundsReduce
    /\ OldWithdrawn /\ AnswersStored /\ LaterRounds /\ AnswersSaid /\ RoundsPlannedOnce
    /\ RaisedOK

(* What the first round asks depends on nothing that changes. *)
LEMMA FirstSame ==
    ASSUME UNCHANGED <<mode, found, wanted, reports>>, NEW r
    PROVE  FirstJobs(r)' = FirstJobs(r)
BY DEF FirstJobs, Evidence

(* What a round is reduced to depends on its answers alone. *)
LEMMA NextSame ==
    ASSUME NEW r, NEW n, NEW K, Points(K)' = Points(K), wanted' = wanted
    PROVE  NextJobs(r, n, K)' = NextJobs(r, n, K) /\ Parts(K)' = Parts(K)
BY DEF NextJobs, Parts, Covered

(* The same jobs that said the same. *)
LEMMA PointsSame ==
    ASSUME NEW K, \A k \in K : tasks'[k] = tasks[k]
    PROVE  Points(K)' = Points(K)
<1>1. Claims(K)' = Claims(K)
  BY DEF Claims
<1> QED BY <1>1 DEF Points

(* A kind is covered by claims one of which is about it. *)
LEMMA CoveredBy ==
    ASSUME NEW S, NEW kind
    PROVE  kind \in Covered(S) <=> kind \in wanted /\ \E c \in S : c[1] \in kind
BY DEF Covered, Firsts

(* A first round that is settled stays as it is. *)
LEMMA SettledFacts ==
    ASSUME NEW r, FirstSettled(r), Before(r, 0)' = Before(r, 0), wanted' = wanted,
           \A k \in Before(r, 0) : tasks'[k] = tasks[k]
    PROVE  FirstSettled(r)' /\ Named(r)' = Named(r) /\ (Several(r)' <=> Several(r))
<1>1. PICK K : K = Before(r, 0)
  OBVIOUS
<1>2. Points(K)' = Points(K)
  BY <1>1, PointsSame
<1>3. Covered(Points(K))' = Covered(Points(K))
  BY <1>2 DEF Covered
<1>4. Named(r)' = Named(r)
  BY <1>1, <1>3 DEF Named
<1>5. FirstSettled(r)'
  BY DEF FirstSettled
<1>6. Several(r)' <=> Several(r)
  BY <1>4 DEF Several
<1> QED BY <1>4, <1>5, <1>6

(* There is a next round only if there are batches. *)
LEMMA NextNeedsParts ==
    ASSUME NEW r, NEW n, NEW K, DOMAIN NextJobs(r, n, K) # {}
    PROVE  Parts(K).parts # <<>>
<1> DEFINE p == Parts(K)
           kind == IF Len(p.parts) = 1 THEN "reduce" ELSE "map"
           P == p.parts
           m == n + 1
           new == RoundJobs(r, m, kind, p.manner, P)
<1>1. NextJobs(r, n, K) = new
  BY DEF NextJobs
<1> HIDE DEF p, kind, P, m
<1>2. PICK k \in DOMAIN new : TRUE
  BY <1>1
<1>3. k[5] \in DOMAIN P
  BY RoundFacts
<1>4. DOMAIN <<>> = {}
  OBVIOUS
<1> QED BY <1>3, <1>4 DEF P, p

(* What any jobs said is finite. *)
LEMMA PointsFinite ==
    ASSUME QuestionsTypeOK, NEW K, K \subseteq DOMAIN tasks
    PROVE  IsFiniteSet(Points(K))
<1> DEFINE h == [k \in K |-> tasks[k].claims]
           T == {h[k] : k \in K}
<1>1. IsFiniteSet(K)
  BY FS_Subset DEF QuestionsTypeOK
<1>2. IsFiniteSet(T)
  BY <1>1, ImageIsFinite
<1>3. \A U \in T : IsFiniteSet(U)
  BY DEF QuestionsTypeOK, TaskOK
<1>4. Claims(K) = UNION T
  BY DEF Claims
<1> HIDE DEF T
<1>5. IsFiniteSet(Claims(K)) /\ Points(K) \in SUBSET Claims(K)
  BY <1>2, <1>3, <1>4, FS_UNION DEF Points
<1> QED BY <1>5, FS_Subset

(* If no job of a waiting question is planned, all are answered, and were    *)
(* maps, as the answer of any other would be the question's.               *)
LEMMA QuestionIsNotStuck ==
    ASSUME QuestionsIInv
    PROVE  NoQuestionStuck
<1> USE DEF QuestionsIInv
<1>1. worker = "raised" => Reducible(revision) /\ Unbuildable(asked[revision].jobs)
  BY DEF RaisedOK
<1>2. \A a \in Asker : asker[a].at # "refused"
  BY DEF QuestionsTypeOK
<1>3. ASSUME NEW r \in Revisions, Status(r) = "queued", \A k \in asked[r].jobs : State(k) # "planned"
      PROVE  Reducible(r)
  <2>1. /\ asked[r] # NoQuestion /\ r = revision /\ answers[r] = {}
        /\ \A k \in asked[r].jobs : State(k) # "failed" /\ State(k) # "obsolete"
        /\ asked[r].state = "queued"
    BY <1>3 DEF Status
  <2>2. QuestionOK(r, asked[r])
    BY <2>1 DEF QuestionsOK
  <2>3. asked[r].jobs # {} /\ asked[r].jobs \subseteq DOMAIN tasks
    BY <2>1, <2>2 DEF QuestionOK, Before
  <2>4. \A k \in asked[r].jobs : tasks[k].state = "completed" /\ k[1] = r
    BY <1>3, <2>1, <2>2, <2>3 DEF QuestionsTypeOK, TaskOK, State, QuestionOK, Before
  <2>5. PICK k \in asked[r].jobs : TRUE
    BY <2>3
  <2>6. k[3] = "map"
    BY <2>1, <2>3, <2>4, <2>5 DEF AnswersStored
  <2>7. mode = "global"
    <3>1. ReportsOK /\ TaskOK(k)
      BY <2>3, <2>5 DEF QuestionsTypeOK
    <3>2. CASE k[2] > 0
      BY <3>1, <3>2 DEF TaskOK
    <3>3. CASE k[2] = 0
      <4>1. k \in DOMAIN FirstJobs(k[1])
        BY <2>3, <2>5, <3>3 DEF FirstRoundStored
      <4>2. k[3] = IF mode = "local" THEN "local" ELSE "map"
        BY <3>1, <4>1, FirstFacts
      <4> QED BY <2>6, <3>1, <4>2 DEF ReportsOK
    <3> QED BY <3>1, <3>2, <3>3 DEF TaskOK
  <2> QED BY <2>1, <2>3, <2>4, <2>7 DEF Reducible, State
<1> QED BY <1>1, <1>2, <1>3 DEF NoQuestionStuck

(* A first round is its question's evidence, a later one the batches of    *)
(* what the round before said.                                             *)
LEMMA RoundsDoDivide ==
    ASSUME QuestionsIInv
    PROVE  RoundsDivide
<1> SUFFICES ASSUME asked[revision] # NoQuestion
    PROVE  LET jobs == asked[revision].jobs
               offers == UNION {tasks[k].offered : k \in jobs}
               earlier == Before(revision, asked[revision].round - 1) IN
        IF asked[revision].round = 0
        THEN /\ mode = "global" => Firsts(offers) = Unit \ Sensitive
             /\ Firsts(offers) \cap Sensitive = {}
        ELSE /\ offers = {c \in Claims(earlier) : c[3] # "unfit"}
             /\ \A j, k \in jobs : j # k => tasks[j].offered \cap tasks[k].offered = {}
             /\ \/ Cardinality(jobs) < Cardinality(earlier)
                \/ \E k \in jobs : jobs = {k} /\ k[3] = "reduce"
  BY DEF RoundsDivide
<1> DEFINE r == revision
           q == asked[r]
           offers == {tasks[k].offered : k \in q.jobs}
<1>1. QuestionOK(r, q) /\ QuestionsTypeOK
  BY DEF QuestionsIInv, QuestionsOK, QuestionsTypeOK
<1>2. q.jobs \subseteq DOMAIN tasks
  BY <1>1 DEF QuestionOK, Before
<1>3. CASE q.round = 0
  <2> DEFINE first == FirstJobs(r)
  <2>1. q.jobs = DOMAIN first
    BY <1>1, <1>3 DEF QuestionOK
  <2>2. \A k \in q.jobs : tasks[k].offered = first[k]
    BY <1>1, <1>2, <1>3 DEF QuestionOK, QuestionsIInv, FirstRoundStored, Before
  <2>3. /\ \A k \in DOMAIN first : Firsts(first[k]) \subseteq Unit \ Sensitive
        /\ mode = "global" => \A u \in Unit \ Sensitive : \E k \in DOMAIN first : <<u, <<>>, "plain">> \in first[k]
    BY <1>1, FirstFacts DEF QuestionsTypeOK
  <2> HIDE DEF first
  <2>4. ASSUME NEW c \in UNION offers PROVE c[1] \in Unit \ Sensitive
    <3>1. PICK k \in q.jobs : c \in tasks[k].offered
      BY <2>4
    <3> QED BY <2>1, <2>2, <2>3, <3>1 DEF Firsts
  <2>5. ASSUME mode = "global", NEW u \in Unit \ Sensitive PROVE u \in Firsts(UNION offers)
    <3>1. PICK k \in DOMAIN first : <<u, <<>>, "plain">> \in first[k]
      BY <2>3, <2>5
    <3>2. <<u, <<>>, "plain">> \in UNION offers
      BY <2>1, <2>2, <3>1
    <3>3. <<u, <<>>, "plain">>[1] = u
      OBVIOUS
    <3> QED BY <3>2, <3>3 DEF Firsts
  <2>6. mode = "global" => Firsts(UNION offers) = Unit \ Sensitive
    BY <2>4, <2>5 DEF Firsts
  <2>7. Firsts(UNION offers) \cap Sensitive = {}
    BY <2>4 DEF Firsts
  <2> QED BY <1>3, <2>6, <2>7
<1>4. CASE q.round # 0
  <2> DEFINE n == q.round - 1
             K == Before(r, n)
             next == NextJobs(r, n, K)
  <2>1. n \in Nat /\ q.round = n + 1 /\ q.jobs = Before(r, n + 1) /\ q.jobs # {}
    BY <1>1, <1>4 DEF QuestionOK
  <2>2. q.jobs = DOMAIN next /\ \A k \in q.jobs : tasks[k].offered = next[k]
    <3> HIDE DEF n
    <3>1. Reduces(n)
      BY <2>1 DEF QuestionsIInv, RoundsReduce
    <3> QED BY <2>1, <3>1 DEF Reduces
  <2>3. K \subseteq DOMAIN tasks
    BY DEF Before
  <2>4. IsFiniteSet(Points(K)) /\ Parts(K).parts # <<>>
    BY <1>1, <2>1, <2>2, <2>3, PointsFinite, NextNeedsParts
  <2>5. /\ \A j, k \in DOMAIN next : j # k => next[j] \cap next[k] = {}
        /\ UNION {next[k] : k \in DOMAIN next} = Points(K)
    <3>1. NextOK(next, r, n, K)
      BY <2>4, NextFacts
    <3> QED BY <3>1 DEF NextOK
  <2> HIDE DEF next
  <2>6. offers = {next[k] : k \in DOMAIN next}
    BY <2>2
  <2>7. UNION offers = {c \in Claims(K) : c[3] # "unfit"}
    BY <2>5, <2>6 DEF Points
  <2>8. \A j, k \in q.jobs : j # k => tasks[j].offered \cap tasks[k].offered = {}
    BY <2>2, <2>5
  <2>9. \/ Cardinality(q.jobs) < Cardinality(K)
        \/ \E k \in q.jobs : q.jobs = {k} /\ k[3] = "reduce"
    <3>1. PICK k \in q.jobs : TRUE
      BY <2>1
    <3>2. k \in DOMAIN tasks /\ k[1] = revision /\ k[2] = n + 1
      BY <2>1, <3>1 DEF Before
    <3>3. LaterOK(k)
      BY <2>1, <3>2 DEF QuestionsIInv, LaterRounds
    <3>4. k[2] - 1 = n
      BY <2>1, <3>2
    <3> HIDE DEF n
    <3> QED BY <2>1, <3>1, <3>2, <3>3, <3>4 DEF LaterOK
  <2> QED BY <1>4, <2>7, <2>8, <2>9
<1> QED BY <1>3, <1>4

(* What an answer says was found, or said in the first round. *)
LEMMA AnswersDoRest ==
    ASSUME QuestionsIInv
    PROVE  AnswersRest
<1> SUFFICES ASSUME NEW r \in Revisions, NEW claims \in answers[r]
             PROVE  /\ r = revision \/ worker = "reconcile"
                    /\ Firsts(claims) \subseteq IF mode = "local" THEN found \ Sensitive
                                                ELSE Firsts(Points(Before(r, 0)))
  BY DEF AnswersRest
<1>1. (r = revision \/ worker = "reconcile") /\ AnswerOK(r, claims) /\ mode \in {"local", "global"}
  BY DEF QuestionsIInv, AnswersSaid, QuestionsTypeOK, ReportsOK
<1>2. CASE mode = "local"
  BY <1>1, <1>2 DEF AnswerOK
<1>3. CASE mode = "global"
  <2>1. ASSUME NEW c \in claims
        PROVE  c[1] \in Firsts(Points(Before(r, 0)))
    <3>1. Said(r, c[1])
      BY <1>1, <1>3, <2>1 DEF AnswerOK
    <3>2. PICK k \in Before(r, 0) : \E d \in tasks[k].claims : d[1] = c[1] /\ d[3] # "unfit"
      BY <3>1 DEF Said, Before
    <3>3. PICK d \in Points(Before(r, 0)) : d[1] = c[1]
      BY <3>2 DEF Points, Claims
    <3> QED BY <3>3 DEF Firsts
  <2> QED BY <1>1, <1>3, <2>1 DEF Firsts
<1> QED BY <1>1, <1>2, <1>3

(* No kind of document gets lost between the first round and the answer. *)
LEMMA KindsAreKept ==
    ASSUME QuestionsIInv
    PROVE  KindsKept
BY DEF QuestionsIInv, AnswersSaid, AnswerOK, Several, Named, KindsKept

(* The reports that may be there at first. *)
LEMMA ReportsStart ==
    ASSUME mode \in {"local", "global"}, found \subseteq Unit,
           NEW leaves \in SUBSET Unit, NEW quoted \in SUBSET leaves,
           \/ reports = {}
           \/ reports = {LeafOn(u) : u \in leaves}
                         \cup (IF Cardinality(leaves) < 2 THEN {} ELSE {Over(leaves, quoted)})
    PROVE  ReportsOK
<1> DEFINE top == IF Cardinality(leaves) < 2 THEN {} ELSE {Over(leaves, quoted)}
           h == [u \in leaves |-> LeafOn(u)]
           low == {LeafOn(u) : u \in leaves}
<1>1. IsFiniteSet(low)
  <2>1. IsFiniteSet(leaves)
    BY FS_Subset, QuestionsAssumption
  <2>2. IsFiniteSet({h[u] : u \in leaves})
    BY <2>1, ImageIsFinite
  <2>3. {h[u] : u \in leaves} = low
    OBVIOUS
  <2> QED BY <2>2, <2>3
<1>2. top \subseteq {Over(leaves, quoted)}
  OBVIOUS
<1>3. IsFiniteSet(top)
  BY <1>2, FS_Singleton, FS_Subset
<1>4. \A p \in low : p.claims \subseteq Unit
  BY DEF LeafOn
<1>5. \A p \in top : p.claims \subseteq Unit
  BY <1>2 DEF Over
<1>6. reports = {} \/ reports = low \cup top
  OBVIOUS
<1> HIDE DEF low, top
<1>7. IsFiniteSet(low \cup top) /\ IsFiniteSet({})
  BY <1>1, <1>3, FS_Union, FS_EmptySet
<1>8. IsFiniteSet(reports)
  BY <1>6, <1>7
<1>9. \A p \in reports : p.claims \subseteq Unit
  BY <1>4, <1>5, <1>6
<1> QED BY <1>8, <1>9 DEF ReportsOK

(* Before anything is asked. *)
LEMMA QuestionsStart == QuestionsInit => QuestionsIInv
<1> SUFFICES ASSUME QuestionsInit PROVE QuestionsIInv
  OBVIOUS
<1> USE DEF QuestionsInit
<1>1. DOMAIN tasks = {} /\ 1 \in Revisions
  BY QuestionsAssumption DEF Revisions
<1>2. ReportsOK
  <2>1. mode \in {"local", "global"} /\ found \subseteq Unit
    OBVIOUS
  <2>2. PICK leaves \in Reported : \E quoted \in SUBSET leaves :
          reports = IF mode = "local" THEN {}
                    ELSE {LeafOn(u) : u \in leaves}
                         \cup (IF Cardinality(leaves) < 2 THEN {} ELSE {Over(leaves, quoted)})
    OBVIOUS
  <2>3. PICK quoted \in SUBSET leaves :
          reports = IF mode = "local" THEN {}
                    ELSE {LeafOn(u) : u \in leaves}
                         \cup (IF Cardinality(leaves) < 2 THEN {} ELSE {Over(leaves, quoted)})
    BY <2>2
  <2>4. \/ reports = {}
        \/ reports = {LeafOn(u) : u \in leaves}
                      \cup (IF Cardinality(leaves) < 2 THEN {} ELSE {Over(leaves, quoted)})
    BY <2>3
  <2>5. leaves \subseteq Unit
    BY QuestionsAssumption
  <2> QED BY <2>1, <2>4, <2>5, ReportsStart
<1>3. asker \in [Asker -> [at : {"idle", "enqueue", "store", "done"}, pinned : 1 .. revision]]
  OBVIOUS
<1>4. QuestionsTypeOK
  <2>1. DOMAIN asked = Revisions /\ DOMAIN answers = Revisions
    OBVIOUS
  <2>2. tasks = [k \in DOMAIN tasks |-> tasks[k]] /\ IsFiniteSet(DOMAIN tasks)
    BY <1>1, FS_EmptySet
  <2> QED BY <1>1, <1>2, <1>3, <2>1, <2>2 DEF QuestionsTypeOK
<1>5. /\ FirstRoundStored /\ StoresKnown /\ AnswersStored /\ OldWithdrawn
      /\ LaterRounds /\ AnswersSaid /\ RoundsPlannedOnce /\ RaisedOK
  BY <1>1 DEF OldWithdrawn, FirstRoundStored, StoresKnown, AnswersStored, LaterRounds, AnswersSaid,
     RoundsPlannedOnce, RaisedOK
<1>6. QuestionsOK
  BY DEF QuestionsOK
<1>7. RoundsReduce
  BY <1>1 DEF RoundsReduce, Before
<1> QED BY <1>4, <1>5, <1>6, <1>7 DEF QuestionsIInv

(* Steps that leave the jobs there are, what each was offered, and the     *)
(* answers of the current revision.                                        *)
JobsKept ==
    /\ UNCHANGED <<mode, found, wanted, reports, revision>>
    /\ tasks' = [k \in DOMAIN tasks |-> tasks'[k]]
    /\ \A k \in DOMAIN tasks :
        /\ tasks'[k].offered = tasks[k].offered
        /\ tasks'[k].state \in {"planned", "completed", "failed", "obsolete"}
        /\ IsFiniteSet(tasks'[k].claims)
        /\ tasks'[k].state # "completed" => tasks'[k].claims = {}
        /\ \A c \in tasks'[k].claims : \E d \in tasks[k].offered : c[1] = d[1]
        /\ k[4] = "pick" /\ tasks'[k].state = "completed" => Selects(tasks[k].offered, tasks'[k].claims)
        /\ k[1] = revision /\ tasks[k].state = "completed" => tasks'[k] = tasks[k]

(* What such steps keep of the invariant. *)
JobsOK ==
    /\ ReportsOK /\ revision \in Revisions
    /\ tasks = [k \in DOMAIN tasks |-> tasks[k]] /\ IsFiniteSet(DOMAIN tasks)
    /\ \A k \in DOMAIN tasks : TaskOK(k)
    /\ FirstRoundStored /\ RoundsReduce /\ LaterRounds /\ RoundsPlannedOnce

(* The reports do not change. *)
LEMMA ReportsSame ==
    ASSUME UNCHANGED <<mode, found, wanted, reports>>, ReportsOK
    PROVE  ReportsOK'
BY DEF ReportsOK

(* Rounds depend on answers that are in, and those stay. *)
LEMMA KeptFacts ==
    ASSUME QuestionsIInv, JobsKept
    PROVE  /\ JobsOK' /\ DOMAIN tasks' = DOMAIN tasks
           /\ \A r, q : QuestionOK(r, q) => QuestionOK(r, q)'
           /\ \A u : Said(revision, u) => Said(revision, u)'
           /\ FirstSettled(revision) =>
                FirstSettled(revision)' /\ Named(revision)' = Named(revision) /\ (Several(revision)' <=> Several(revision))
<1>1. /\ DOMAIN tasks' = DOMAIN tasks /\ revision' = revision /\ mode' = mode /\ wanted' = wanted
      /\ \A k \in DOMAIN tasks : tasks'[k].offered = tasks[k].offered
      /\ \A k \in DOMAIN tasks : k[1] = revision /\ tasks[k].state = "completed" => tasks'[k] = tasks[k]
  BY DEF JobsKept
<1>2. \A r : FirstJobs(r)' = FirstJobs(r)
  BY FirstSame DEF JobsKept
<1>3. \A r, n : Before(r, n)' = Before(r, n)
  BY <1>1 DEF Before
<1>4. \A k \in DOMAIN tasks' : TaskOK(k)'
  BY <1>1 DEF JobsKept, QuestionsIInv, QuestionsTypeOK, TaskOK, Selects
<1>5. FirstRoundStored'
  BY <1>1, <1>2 DEF QuestionsIInv, FirstRoundStored
<1>6. \A r, q : QuestionOK(r, q) => QuestionOK(r, q)'
  BY <1>1, <1>2, <1>3 DEF QuestionOK
<1>7. \A u : Said(revision, u) => Said(revision, u)'
  <2> SUFFICES ASSUME NEW u, Said(revision, u) PROVE Said(revision, u)'
    OBVIOUS
  <2>1. PICK k \in DOMAIN tasks : k[1] = revision /\ k[2] = 0 /\ \E c \in tasks[k].claims : c[1] = u /\ c[3] # "unfit"
    BY DEF Said
  <2>2. tasks'[k] = tasks[k]
    BY <1>1, <2>1 DEF QuestionsIInv, QuestionsTypeOK, TaskOK
  <2> QED BY <1>1, <2>1, <2>2 DEF Said
<1>14. ASSUME FirstSettled(revision)
       PROVE  /\ FirstSettled(revision)' /\ Named(revision)' = Named(revision)
              /\ Several(revision)' <=> Several(revision)
  <2>1. PICK r : r = revision
    OBVIOUS
  <2>2. \A k \in Before(r, 0) : tasks'[k] = tasks[k]
    BY <1>1, <1>14, <2>1 DEF FirstSettled, Before
  <2>3. FirstSettled(r)' /\ Named(r)' = Named(r) /\ (Several(r)' <=> Several(r))
    BY <1>1, <1>3, <1>14, <2>1, <2>2, SettledFacts
  <2>4. r = revision'
    BY <1>1, <2>1
  <2> QED BY <2>1, <2>3, <2>4 DEF FirstSettled, Named, Several
<1>8. LaterRounds'
  <2> SUFFICES ASSUME NEW k \in DOMAIN tasks, k[1] = revision, k[2] > 0
               PROVE  LaterOK(k)'
    BY <1>1 DEF LaterRounds
  <2>1. LaterOK(k)
    BY DEF QuestionsIInv, LaterRounds
  <2>2. PICK r : r = revision /\ r = revision'
    BY <1>1
  <2>3. /\ FirstSettled(r)' /\ Named(r)' = Named(r) /\ (Several(r)' <=> Several(r))
        /\ \A u : Said(r, u) => Said(r, u)'
    BY <1>7, <1>14, <2>1, <2>2 DEF LaterOK
  <2>4. \A n : Before(r, n)' = Before(r, n)
    BY <1>3
  <2>5. \A n : \A j \in Before(r, n) : tasks'[j].offered = tasks[j].offered
    BY <1>1 DEF Before
  <2> QED BY <1>1, <2>1, <2>2, <2>3, <2>4, <2>5 DEF LaterOK
<1>9. RoundsPlannedOnce'
  BY <1>1 DEF QuestionsIInv, RoundsPlannedOnce
<1>10. RoundsReduce'
  <2> SUFFICES ASSUME NEW n \in Nat, Before(revision, n + 1)' # {} PROVE Reduces(n)'
    BY DEF RoundsReduce
  <2>1. PICK K : K = Before(revision, n)
    OBVIOUS
  <2>2. PICK r : r = revision
    OBVIOUS
  <2>3. Before(r, n + 1) # {}
    BY <1>3, <2>2, <1>1
  <2>4. Reduces(n)
    BY <2>2, <2>3 DEF QuestionsIInv, RoundsReduce
  <2>5. /\ K # {} /\ K = Before(r, n)
        /\ \A k \in K : tasks[k].state = "completed" /\ k \in DOMAIN tasks /\ k[1] = revision
        /\ Before(r, n + 1) = DOMAIN NextJobs(r, n, K)
        /\ \A k \in Before(r, n + 1) : tasks[k].offered = NextJobs(r, n, K)[k]
    BY <2>1, <2>2, <2>4 DEF Reduces, Before
  <2>6. \A k \in K : tasks'[k] = tasks[k]
    BY <1>1, <2>5
  <2>7. Points(K)' = Points(K)
    BY <2>6, PointsSame
  <2>8. NextJobs(r, n, K)' = NextJobs(r, n, K)
    BY <1>1, <2>7, NextSame
  <2>9. r' = revision' /\ K = Before(r, n)' /\ Before(r, n + 1)' = Before(r, n + 1)
    BY <1>1, <1>3, <2>1, <2>2
  <2>10. \A k \in K : tasks'[k].state = "completed"
    BY <2>5, <2>6
  <2>11. \A k \in Before(r, n + 1) : tasks'[k].offered = NextJobs(r, n, K)[k]
    BY <1>1, <2>5 DEF Before
  <2> QED BY <1>1, <2>2, <2>5, <2>8, <2>9, <2>10, <2>11 DEF Reduces
<1>11. ReportsOK'
  BY ReportsSame DEF JobsKept, QuestionsIInv, QuestionsTypeOK
<1>12. revision' \in Revisions /\ IsFiniteSet(DOMAIN tasks')
  BY <1>1 DEF QuestionsIInv, QuestionsTypeOK
<1>13. tasks' = [k \in DOMAIN tasks' |-> tasks'[k]]
  BY <1>1 DEF JobsKept
<1> QED BY <1>1, <1>4, <1>5, <1>6, <1>7, <1>8, <1>9, <1>10, <1>11, <1>12, <1>13, <1>14 DEF JobsOK

(* A step that changes no job is such a step. *)
LEMMA Unmoved ==
    ASSUME QuestionsIInv, UNCHANGED <<mode, found, wanted, reports, revision, tasks>>
    PROVE  JobsKept
BY DEF JobsKept, QuestionsIInv, QuestionsTypeOK, TaskOK

(* Jobs are enqueued as whole rounds: the first one of a revision, or the  *)
(* one a round of answers is reduced to.  Whether the round is new or was  *)
(* there already, it is there afterwards as it was planned.                *)
RoundToPlan(r, n, new) ==
    /\ r \in 1 .. revision /\ n \in Nat
    /\ IsFiniteSet(DOMAIN new)
    /\ \A k \in DOMAIN new : k[1] = r /\ k[2] = n /\ IsFiniteSet(new[k])
    /\ \A j, k \in DOMAIN new : j[3] = k[3] /\ j[4] = k[4]
    /\ Before(r, n) = {} \/ Before(r, n) = DOMAIN new
    /\ \A k \in DOMAIN new \cap DOMAIN tasks : tasks[k].offered = new[k]
    /\ n = 0 => new = FirstJobs(r)
    /\ n > 0 =>
        /\ mode = "global" /\ r = revision /\ FirstSettled(r)
        /\ \A k \in DOMAIN new : \A c \in new[k] : c[3] # "unfit" /\ Said(r, c[1])
        /\ Several(r) =>
            /\ \A k \in DOMAIN new : k[4] = "pick"
            /\ \A kind \in Named(r) : \E j \in DOMAIN new : \E c \in new[j] : c[1] \in kind
        /\ \A k \in DOMAIN new : k[3] \in {"map", "reduce"} /\ (k[3] = "reduce" => DOMAIN new = {k})
        /\ \E m \in Nat :
            /\ n = m + 1 /\ Before(r, m) # {}
            /\ \A k \in Before(r, m) : tasks[k].state = "completed"
            /\ new = NextJobs(r, m, Before(r, m))
            /\ \/ Cardinality(DOMAIN new) < Cardinality(Before(r, m))
               \/ \A k \in DOMAIN new : k[3] = "reduce"

(* A planned round leaves all others as they were. *)
LEMMA EnqueuedFacts ==
    ASSUME QuestionsIInv, UNCHANGED <<mode, found, wanted, reports, revision>>,
           NEW r, NEW n, NEW new, RoundToPlan(r, n, new), tasks' = Enqueued(new)
    PROVE  /\ JobsOK'
           /\ Before(r, n)' = DOMAIN new
           /\ DOMAIN tasks \subseteq DOMAIN tasks' /\ \A k \in DOMAIN tasks : tasks'[k] = tasks[k]
           /\ \A k \in DOMAIN tasks' : k \in DOMAIN tasks \/ tasks'[k].state = "planned"
           /\ \A s, u : Said(s, u) => Said(s, u)'
           /\ \A s, q : QuestionOK(s, q) => QuestionOK(s, q)'
           /\ \A s, m : Before(s, m) # {} => Before(s, m)' = Before(s, m)
<1> USE DEF RoundToPlan
<1>1. /\ DOMAIN tasks' = DOMAIN tasks \cup DOMAIN new
      /\ \A k \in DOMAIN tasks : tasks'[k] = tasks[k]
      /\ \A k \in DOMAIN new \ DOMAIN tasks :
            tasks'[k] = [offered |-> new[k], attempt |-> 0, state |-> "planned", claims |-> {}]
      /\ tasks' = [k \in DOMAIN tasks' |-> tasks'[k]]
  BY DEF Enqueued
<1>2. \A k \in DOMAIN new : k \in DOMAIN tasks' /\ tasks'[k].offered = new[k]
  BY <1>1
<1>3. \A k \in DOMAIN new \ DOMAIN tasks : tasks'[k].state = "planned" /\ tasks'[k].claims = {}
  BY <1>1
<1>4. \A s : FirstJobs(s)' = FirstJobs(s)
  BY FirstSame
<1>5. Before(r, n)' = DOMAIN new
  BY <1>1 DEF Before
<1>6. \A s, m : s # r \/ m # n => Before(s, m)' = Before(s, m)
  BY <1>1 DEF Before
<1>7. \A s, m : Before(s, m) # {} => Before(s, m)' = Before(s, m)
  BY <1>5, <1>6
<1>8. \A s, u : Said(s, u) => Said(s, u)'
  <2> SUFFICES ASSUME NEW s, NEW u, Said(s, u) PROVE Said(s, u)'
    OBVIOUS
  <2>1. PICK k \in DOMAIN tasks : k[1] = s /\ k[2] = 0 /\ \E c \in tasks[k].claims : c[1] = u /\ c[3] # "unfit"
    BY DEF Said
  <2> QED BY <1>1, <2>1 DEF Said
<1>9. \A s, q : QuestionOK(s, q) => QuestionOK(s, q)'
  <2> SUFFICES ASSUME NEW s, NEW q, QuestionOK(s, q) PROVE QuestionOK(s, q)'
    OBVIOUS
  <2>1. q.jobs = Before(s, q.round)'
    <3>1. CASE q.jobs # {}
      BY <1>7, <3>1 DEF QuestionOK
    <3>2. CASE q.jobs = {}
      <4>1. q.round = 0 /\ DOMAIN FirstJobs(s) = {}
        BY <3>2 DEF QuestionOK
      <4>2. CASE s = r /\ n = 0
        BY <1>5, <3>2, <4>1, <4>2
      <4>3. CASE ~(s = r /\ n = 0)
        BY <1>6, <4>1, <4>3 DEF QuestionOK
      <4> QED BY <4>2, <4>3
    <3> QED BY <3>1, <3>2
  <2>2. q.round = 0 => q.jobs = DOMAIN FirstJobs(s)'
    BY <1>4 DEF QuestionOK
  <2> QED BY <2>1, <2>2 DEF QuestionOK
<1>10. \A k \in DOMAIN tasks' : TaskOK(k)'
  <2>1. ASSUME NEW k \in DOMAIN tasks PROVE TaskOK(k)'
    BY <1>1 DEF QuestionsIInv, QuestionsTypeOK, TaskOK, Selects
  <2>2. ASSUME NEW k \in DOMAIN new \ DOMAIN tasks PROVE TaskOK(k)'
    <3>1. k[1] \in 1 .. revision' /\ k[2] \in Nat /\ (k[2] > 0 => mode' = "global")
      OBVIOUS
    <3>2. IsFiniteSet(tasks'[k].offered) /\ IsFiniteSet(tasks'[k].claims)
      BY <1>2, <1>3, FS_EmptySet
    <3> QED BY <1>3, <3>1, <3>2 DEF TaskOK
  <2> QED BY <1>1, <2>1, <2>2
<1>11. FirstRoundStored'
  <2> SUFFICES ASSUME NEW k \in DOMAIN tasks', k[2] = 0
               PROVE  /\ k \in DOMAIN FirstJobs(k[1]) /\ tasks'[k].offered = FirstJobs(k[1])[k]
                      /\ DOMAIN FirstJobs(k[1]) \subseteq DOMAIN tasks'
    BY <1>4 DEF FirstRoundStored
  <2>1. CASE k \in DOMAIN tasks
    BY <1>1, <2>1 DEF QuestionsIInv, FirstRoundStored
  <2>2. CASE k \in DOMAIN new
    BY <1>1, <1>2, <2>2
  <2> QED BY <1>1, <2>1, <2>2
<1>12. LaterRounds'
  <2> SUFFICES ASSUME NEW k \in DOMAIN tasks', k[1] = revision, k[2] > 0
               PROVE  LaterOK(k)'
    BY DEF LaterRounds
  <2>1. PICK s : s = revision /\ s = revision'
    OBVIOUS
  <2>2. PICK l : l = k[2]
    OBVIOUS
  <2>3. l \in Nat /\ l > 0
    BY <1>10, <2>2 DEF TaskOK
  <2>4. ASSUME FirstSettled(s)
        PROVE  FirstSettled(s)' /\ Named(s)' = Named(s) /\ (Several(s)' <=> Several(s))
    <3>1. Before(s, 0)' = Before(s, 0)
      BY <1>7, <2>4 DEF FirstSettled
    <3>2. \A j \in Before(s, 0) : tasks'[j] = tasks[j]
      BY <1>1 DEF Before
    <3> QED BY <2>4, <3>1, <3>2, SettledFacts
  <2>5. CASE k \in DOMAIN tasks
    <3>1. LaterOK(k)
      BY <2>1, <2>5 DEF QuestionsIInv, LaterRounds
    <3>2. k \in Before(s, l)
      BY <2>1, <2>2, <2>5 DEF Before
    <3>3. Before(s, l)' = Before(s, l)
      BY <1>7, <3>2
    <3>4. Before(s, l - 1)' = Before(s, l - 1)
      <4>1. PICK m \in Nat : l = m + 1 /\ l - 1 = m
        BY <2>3
      <4>2. Reduces(m)
        BY <2>1, <3>2, <4>1 DEF QuestionsIInv, RoundsReduce
      <4> QED BY <1>7, <2>1, <4>1, <4>2 DEF Reduces
    <3>5. \A j \in Before(s, l) : tasks'[j] = tasks[j]
      BY <1>1 DEF Before
    <3>6. tasks'[k] = tasks[k]
      BY <1>1, <2>5
    <3>7. FirstSettled(s)' /\ Named(s)' = Named(s) /\ (Several(s)' <=> Several(s))
      BY <2>1, <2>4, <3>1 DEF LaterOK
    <3> QED BY <1>8, <2>1, <2>2, <3>1, <3>3, <3>4, <3>5, <3>6, <3>7 DEF LaterOK
  <2>6. CASE k \in DOMAIN new
    <3>1. n = l /\ n > 0 /\ r = s
      BY <2>1, <2>2, <2>3, <2>6
    <3>2. FirstSettled(s)' /\ Named(s)' = Named(s) /\ (Several(s)' <=> Several(s))
      BY <2>4, <3>1
    <3>3. Before(s, l)' = DOMAIN new
      BY <1>5, <3>1
    <3>4. PICK m \in Nat :
            /\ n = m + 1 /\ Before(r, m) # {}
            /\ \/ Cardinality(DOMAIN new) < Cardinality(Before(r, m))
               \/ \A j \in DOMAIN new : j[3] = "reduce"
      BY <3>1
    <3>5. m = l - 1 /\ Before(s, l - 1)' = Before(r, m)
      BY <1>7, <3>1, <3>4
    <3>6. \/ k[3] = "reduce"
          \/ Cardinality(Before(s, l)') < Cardinality(Before(s, l - 1)')
      BY <2>6, <3>3, <3>4, <3>5
    <3>7. k[3] \in {"map", "reduce"} /\ (k[3] = "reduce" => Before(s, l)' = {k})
      BY <2>6, <3>1, <3>3
    <3>8. \A c \in tasks'[k].offered : c[3] # "unfit" /\ Said(s, c[1])'
      BY <1>2, <1>8, <2>6, <3>1
    <3>9. Several(s) => /\ k[4] = "pick"
                        /\ \A kind \in Named(s) : \E j \in Before(s, l)' : \E c \in tasks'[j].offered : c[1] \in kind
      BY <1>2, <2>6, <3>1, <3>3
    <3> HIDE DEF RoundToPlan
    <3> QED BY <2>1, <2>2, <3>2, <3>6, <3>7, <3>8, <3>9 DEF LaterOK
  <2> QED BY <1>1, <2>5, <2>6
<1>13. RoundsPlannedOnce'
  <2> SUFFICES ASSUME NEW j \in DOMAIN tasks', NEW k \in DOMAIN tasks', j[1] = k[1], j[2] = k[2]
               PROVE  j[3] = k[3] /\ j[4] = k[4]
    BY DEF RoundsPlannedOnce
  <2>1. CASE j[1] = r /\ j[2] = n
    <3>1. j \in DOMAIN new /\ k \in DOMAIN new
      BY <1>5, <2>1 DEF Before
    <3> QED BY <3>1
  <2>2. CASE ~(j[1] = r /\ j[2] = n)
    <3>1. j \in DOMAIN tasks /\ k \in DOMAIN tasks
      BY <1>1, <2>2
    <3> QED BY <3>1 DEF QuestionsIInv, RoundsPlannedOnce
  <2> QED BY <2>1, <2>2
<1>14. RoundsReduce'
  <2> SUFFICES ASSUME NEW m \in Nat, Before(revision, m + 1)' # {} PROVE Reduces(m)'
    BY DEF RoundsReduce
  <2>1. PICK K : K = Before(revision, m)
    OBVIOUS
  <2>2. PICK s : s = revision
    OBVIOUS
  <2>3. ASSUME K # {}, \A k \in K : tasks[k].state = "completed",
               NEW next, next = NextJobs(s, m, K),
               Before(s, m + 1)' = DOMAIN next,
               \A k \in DOMAIN next : tasks'[k].offered = next[k]
        PROVE  Reduces(m)'
    <3>1. \A k \in K : tasks'[k] = tasks[k]
      BY <1>1, <2>1 DEF Before
    <3>2. Points(K)' = Points(K)
      BY <3>1, PointsSame
    <3>3. NextJobs(s, m, K)' = next
      BY <2>3, <3>2, NextSame
    <3>4. s = revision' /\ K = Before(s, m)'
      BY <1>7, <2>1, <2>2, <2>3
    <3>5. \A k \in K : tasks'[k].state = "completed"
      BY <2>3, <3>1
    <3> QED BY <2>2, <2>3, <3>3, <3>4, <3>5 DEF Reduces
  <2>4. CASE s = r /\ m + 1 = n
    <3>1. PICK l \in Nat :
            /\ n = l + 1 /\ Before(r, l) # {}
            /\ \A k \in Before(r, l) : tasks[k].state = "completed"
            /\ new = NextJobs(r, l, Before(r, l))
      BY <2>4
    <3>2. l = m
      BY <2>4, <3>1
    <3>3. new = NextJobs(s, m, K)
      BY <2>1, <2>2, <2>4, <3>1, <3>2
    <3>4. K # {} /\ \A k \in K : tasks[k].state = "completed"
      BY <2>1, <2>2, <2>4, <3>1, <3>2
    <3>5. Before(s, m + 1)' = DOMAIN new
      BY <1>5, <2>4
    <3> QED BY <1>2, <2>3, <3>3, <3>4, <3>5
  <2>5. CASE ~(s = r /\ m + 1 = n)
    <3>1. Before(s, m + 1)' = Before(s, m + 1) /\ Before(s, m + 1) # {}
      BY <1>6, <2>2, <2>5
    <3>2. Reduces(m)
      BY <2>2, <3>1 DEF QuestionsIInv, RoundsReduce
    <3>3. PICK next : next = NextJobs(s, m, K)
      OBVIOUS
    <3>4. /\ K # {} /\ \A k \in K : tasks[k].state = "completed"
          /\ Before(s, m + 1) = DOMAIN next
          /\ \A k \in Before(s, m + 1) : tasks[k].offered = next[k]
      BY <2>1, <2>2, <3>2, <3>3 DEF Reduces
    <3>5. \A k \in DOMAIN next : tasks'[k].offered = next[k]
      BY <1>1, <3>4 DEF Before
    <3> QED BY <2>3, <3>1, <3>3, <3>4, <3>5
  <2> QED BY <2>4, <2>5
<1>15. ReportsOK' /\ revision' \in Revisions
  BY ReportsSame DEF QuestionsIInv, QuestionsTypeOK
<1>16. IsFiniteSet(DOMAIN tasks')
  <2>1. IsFiniteSet(DOMAIN tasks) /\ IsFiniteSet(DOMAIN new)
    BY DEF QuestionsIInv, QuestionsTypeOK
  <2>2. \A S, T : IsFiniteSet(S) /\ IsFiniteSet(T) => IsFiniteSet(S \cup T)
    BY FS_Union
  <2>3. IsFiniteSet(DOMAIN tasks \cup DOMAIN new)
    BY <2>1, <2>2
  <2> QED BY <1>1, <2>3
<1> HIDE DEF RoundToPlan
<1>17. JobsOK'
  BY <1>1, <1>10, <1>11, <1>12, <1>13, <1>14, <1>15, <1>16 DEF JobsOK
<1>18. DOMAIN tasks \subseteq DOMAIN tasks' /\ \A k \in DOMAIN tasks' : k \in DOMAIN tasks \/ tasks'[k].state = "planned"
  BY <1>1, <1>3
<1> QED BY <1>1, <1>5, <1>7, <1>8, <1>9, <1>17, <1>18

(* Steps that change no job that is there, nor an answer. *)
Grows ==
    /\ JobsOK' /\ UNCHANGED <<mode, found, wanted, reports, revision, answers, worker>>
    /\ DOMAIN tasks \subseteq DOMAIN tasks' /\ \A k \in DOMAIN tasks : tasks'[k] = tasks[k]
    /\ \A k \in DOMAIN tasks' : k \in DOMAIN tasks \/ tasks'[k].state = "planned"
    /\ \A s, u : Said(s, u) => Said(s, u)'
    /\ \A s, q : QuestionOK(s, q) => QuestionOK(s, q)'
    /\ \A s, m : Before(s, m) # {} => Before(s, m)' = Before(s, m)

(* A step that changes no job is such a step. *)
LEMMA StillGrows ==
    ASSUME QuestionsIInv, UNCHANGED <<mode, found, wanted, reports, revision, tasks, answers, worker>>
    PROVE  Grows
<1>1. /\ JobsOK' /\ \A r, q : QuestionOK(r, q) => QuestionOK(r, q)'
  BY Unmoved, KeptFacts
<1>2. \A s, u : Said(s, u) => Said(s, u)'
  BY DEF Said
<1>3. \A s, m : Before(s, m)' = Before(s, m)
  BY DEF Before
<1> QED BY <1>1, <1>2, <1>3 DEF Grows

(* Answers rest on first rounds that do not change. *)
LEMMA AnswersGrow ==
    ASSUME QuestionsIInv, Grows
    PROVE  AnswersSaid'
<1> SUFFICES ASSUME NEW r \in Revisions, NEW claims \in answers[r]
             PROVE  (r = revision \/ worker = "reconcile") /\ AnswerOK(r, claims)'
  BY DEF AnswersSaid, Grows
<1>1. (r = revision \/ worker = "reconcile") /\ AnswerOK(r, claims)
  BY DEF QuestionsIInv, AnswersSaid
<1>2. UNCHANGED <<mode, found, wanted>>
  BY DEF Grows
<1>3. ASSUME FirstSettled(r)
      PROVE  FirstSettled(r)' /\ Named(r)' = Named(r) /\ (Several(r)' <=> Several(r))
  <2>1. Before(r, 0)' = Before(r, 0)
    BY <1>3 DEF Grows, FirstSettled
  <2>2. \A k \in Before(r, 0) : tasks'[k] = tasks[k]
    BY DEF Before, Grows
  <2> QED BY <1>2, <1>3, <2>1, <2>2, SettledFacts
<1>4. \A u : Said(r, u) => Said(r, u)'
  BY DEF Grows
<1>5. Covered(claims)' = Covered(claims)
  BY <1>2 DEF Covered
<1> QED BY <1>1, <1>2, <1>3, <1>4, <1>5 DEF AnswerOK

(* After such a step it remains to look at the threads and the questions. *)
LEMMA GrowsFacts ==
    ASSUME QuestionsIInv, Grows, DOMAIN asked' = Revisions, QuestionsOK', RaisedOK',
           asker' \in [Asker -> [at : {"idle", "enqueue", "store", "done"}, pinned : 1 .. revision]],
           \A a \in Asker : asker'[a].at = "store" =>
                DOMAIN FirstJobs(asker'[a].pinned) \subseteq DOMAIN tasks'
    PROVE  QuestionsIInv'
<1>1. QuestionsTypeOK'
  BY DEF Grows, JobsOK, QuestionsIInv, QuestionsTypeOK
<1>2. StoresKnown'
  <2>1. \A r : FirstJobs(r)' = FirstJobs(r)
    BY FirstSame DEF Grows
  <2> QED BY <2>1 DEF StoresKnown
<1>3. AnswersStored'
  BY DEF Grows, QuestionsIInv, AnswersStored
<1>4. AnswersSaid'
  BY AnswersGrow
<1>5. OldWithdrawn'
  BY DEF Grows, QuestionsIInv, OldWithdrawn
<1> QED BY <1>1, <1>2, <1>3, <1>4, <1>5 DEF QuestionsIInv, Grows, JobsOK

(* Questions stay, and what is not stored yet may be forgotten. *)
LEMMA QuestionsSame ==
    ASSUME QuestionsIInv, Grows, asked' = asked, pending' = pending \/ pending' = {}
    PROVE  QuestionsOK'
BY DEF Grows, QuestionsIInv, QuestionsOK

(* What a thread is given to do. *)
LEMMA AsksFacts ==
    ASSUME QuestionsIInv, NEW a \in Asker, NEW r \in 1 .. revision,
           NEW at \in {"idle", "enqueue", "store", "done"}, Asks(a, at, r)
    PROVE  /\ asker' \in [Asker -> [at : {"idle", "enqueue", "store", "done"}, pinned : 1 .. revision]]
           /\ asker'[a] = [at |-> at, pinned |-> r]
           /\ \A b \in Asker \ {a} : asker'[b] = asker[b]
BY DEF Asks, QuestionsIInv, QuestionsTypeOK

(* A worker that ended in a planning left no thread at work and nothing     *)
(* planned, and the question of these sources waits.                       *)
LEMMA NotRaised ==
    ASSUME QuestionsIInv, Grows,
           \/ pending # {} \/ asked[revision] = NoQuestion
           \/ \E a \in Asker : asker[a].at \notin {"idle", "done"}
    PROVE  RaisedOK'
BY DEF QuestionsIInv, RaisedOK, Reducible, Grows

(* A thread that is not about to store leaves the others as they were. *)
LEMMA AskerMoves ==
    ASSUME QuestionsIInv, Grows, asked' = asked, pending' = pending, RaisedOK',
           NEW a \in Asker, NEW r \in 1 .. revision,
           NEW at \in {"idle", "enqueue", "store", "done"}, Asks(a, at, r),
           at = "store" => DOMAIN FirstJobs(r) \subseteq DOMAIN tasks'
    PROVE  QuestionsIInv'
<1>1. /\ asker' \in [Asker -> [at : {"idle", "enqueue", "store", "done"}, pinned : 1 .. revision]]
      /\ asker'[a] = [at |-> at, pinned |-> r]
      /\ \A b \in Asker \ {a} : asker'[b] = asker[b]
  BY AsksFacts
<1>2. asker'[a].at = at /\ asker'[a].pinned = r
  BY <1>1
<1>3. ASSUME NEW b \in Asker, asker'[b].at = "store"
      PROVE  DOMAIN FirstJobs(asker'[b].pinned) \subseteq DOMAIN tasks'
  <2>1. CASE b = a
    BY <1>2, <1>3, <2>1
  <2>2. CASE b # a
    <3>1. asker'[b] = asker[b]
      BY <1>1, <2>2
    <3>2. DOMAIN FirstJobs(asker[b].pinned) \subseteq DOMAIN tasks
      BY <1>3, <3>1 DEF QuestionsIInv, StoresKnown
    <3> QED BY <3>1, <3>2 DEF Grows
  <2> QED BY <2>1, <2>2
<1>4. DOMAIN asked' = Revisions
  BY DEF QuestionsIInv, QuestionsTypeOK
<1>5. QuestionsOK'
  BY QuestionsSame
<1> QED BY <1>1, <1>3, <1>4, <1>5, GrowsFacts

(* A thread pins the revision there is. *)
LEMMA StepAsk ==
    ASSUME QuestionsIInv, NEW a \in Asker, Ask(a)
    PROVE  QuestionsIInv'
<1>1. Grows
  BY StillGrows DEF Ask
<1>2. revision \in 1 .. revision
  BY QuestionsAssumption DEF QuestionsIInv, QuestionsTypeOK, Revisions
<1>3. RaisedOK'
  BY <1>1, NotRaised DEF Ask
<1> QED BY <1>1, <1>2, <1>3, AskerMoves DEF Ask

(* Whoever enqueues the first round finds it whole or not at all, and as   *)
(* it would be planned again.                                              *)
LEMMA FirstRoundToPlan ==
    ASSUME QuestionsIInv, NEW r \in 1 .. revision
    PROVE  RoundToPlan(r, 0, FirstJobs(r))
<1> DEFINE new == FirstJobs(r)
<1>1. /\ IsFiniteSet(DOMAIN new)
      /\ \A k \in DOMAIN new :
            /\ k[1] = r /\ k[2] = 0
            /\ k[3] = IF mode = "local" THEN "local" ELSE "map"
            /\ k[4] = "write" /\ IsFiniteSet(new[k])
  BY FirstFacts DEF QuestionsIInv, QuestionsTypeOK
<1>2. /\ \A k \in Before(r, 0) : k \in DOMAIN new /\ tasks[k].offered = new[k]
      /\ Before(r, 0) # {} => DOMAIN new \subseteq DOMAIN tasks
  BY DEF Before, QuestionsIInv, FirstRoundStored
<1> HIDE DEF new
<1>3. \A k \in DOMAIN new \cap DOMAIN tasks : k \in Before(r, 0)
  BY <1>1 DEF Before
<1>4. Before(r, 0) = {} \/ Before(r, 0) = DOMAIN new
  BY <1>2, <1>3
<1>5. \A j, k \in DOMAIN new : j[3] = k[3] /\ j[4] = k[4]
  BY <1>1
<1>6. \A k \in DOMAIN new : k[1] = r /\ k[2] = 0 /\ IsFiniteSet(new[k])
  BY <1>1
<1>7. IsFiniteSet(DOMAIN new)
  BY <1>1
<1>8. \A k \in DOMAIN new \cap DOMAIN tasks : tasks[k].offered = new[k]
  BY <1>2, <1>3
<1> QED BY <1>4, <1>5, <1>6, <1>7, <1>8 DEF RoundToPlan, new

(* Planning a round never finds a job that is not the same. *)
LEMMA PlannedGrows ==
    ASSUME QuestionsIInv, UNCHANGED <<mode, found, wanted, reports, revision, answers, worker>>,
           NEW r, NEW n, NEW new, RoundToPlan(r, n, new), tasks' = Enqueued(new)
    PROVE  Grows /\ ~Conflict(new) /\ Before(r, n)' = DOMAIN new
<1>1. Grows /\ Before(r, n)' = DOMAIN new
  BY EnqueuedFacts DEF Grows
<1>2. ~Conflict(new)
  BY DEF Conflict, RoundToPlan
<1> QED BY <1>1, <1>2

(* A thread enqueues the first round of the revision it pinned, which may be*)
(* an old one by now.                                                      *)
LEMMA StepEnqueueQuestion ==
    ASSUME QuestionsIInv, NEW a \in Asker, EnqueueQuestion(a)
    PROVE  QuestionsIInv'
<1>1. PICK r \in 1 .. revision : r = asker[a].pinned
  BY DEF QuestionsIInv, QuestionsTypeOK
<1>2. PICK new : new = FirstJobs(r)
  OBVIOUS
<1>3. RoundToPlan(r, 0, new)
  BY <1>1, <1>2, FirstRoundToPlan
<1>4. ~Conflict(new)
  BY <1>3 DEF Conflict, RoundToPlan
<1>5. Asks(a, "store", r) /\ tasks' = Enqueued(new)
  BY <1>1, <1>2, <1>4 DEF EnqueueQuestion
<1>6. Grows /\ Before(r, 0)' = DOMAIN new
  BY <1>3, <1>5, PlannedGrows DEF EnqueueQuestion
<1>7. DOMAIN FirstJobs(r) \subseteq DOMAIN tasks'
  BY <1>2, <1>6 DEF Before
<1>8. RaisedOK'
  BY <1>6, NotRaised DEF EnqueueQuestion
<1> QED BY <1>1, <1>5, <1>6, <1>7, <1>8, AskerMoves DEF EnqueueQuestion

(* A thread gives up, and may ask again. *)
LEMMA StepAskFails ==
    ASSUME QuestionsIInv, NEW a \in Asker, AskFails(a)
    PROVE  QuestionsIInv'
<1>1. Grows
  BY StillGrows DEF AskFails
<1>2. 1 \in 1 .. revision
  BY QuestionsAssumption DEF QuestionsIInv, QuestionsTypeOK, Revisions
<1>3. RaisedOK'
  BY <1>1, NotRaised DEF AskFails
<1> QED BY <1>1, <1>2, <1>3, AskerMoves DEF AskFails

(* A question takes the state another one gives it. *)
LEMMA Replaced ==
    ASSUME QuestionsIInv, Grows, NEW r \in Revisions, NEW q, QuestionOK(r, q)',
           asked' = [asked EXCEPT ![r] = q]
    PROVE  /\ DOMAIN asked' = Revisions
           /\ \A s \in Revisions : asked'[s] # NoQuestion => QuestionOK(s, asked[s])'
<1>1. asked'[r] = q /\ DOMAIN asked' = Revisions /\ \A s \in Revisions \ {r} : asked'[s] = asked[s]
  BY DEF QuestionsIInv, QuestionsTypeOK
<1>2. ASSUME NEW s \in Revisions, asked'[s] # NoQuestion PROVE QuestionOK(s, asked[s])'
  <2>1. CASE s = r
    BY <1>1, <2>1 DEF QuestionOK
  <2>2. CASE s # r
    <3>1. QuestionOK(s, asked[s]) /\ asked'[s] = asked[s]
      BY <1>1, <1>2, <2>2 DEF QuestionsIInv, QuestionsOK
    <3>2. PICK p : p = asked[s]
      OBVIOUS
    <3>3. QuestionOK(s, p)'
      BY <3>1, <3>2 DEF Grows
    <3> QED BY <3>1, <3>2, <3>3 DEF QuestionOK
  <2> QED BY <2>1, <2>2
<1> QED BY <1>1, <1>2

(* A thread stores the question with its first round, perhaps over one that*)
(* is further on.                                                          *)
LEMMA StepStoreQuestion ==
    ASSUME QuestionsIInv, NEW a \in Asker, StoreQuestion(a)
    PROVE  QuestionsIInv'
<1>1. Grows
  BY StillGrows DEF StoreQuestion
<1>2. PICK r \in 1 .. revision : r = asker[a].pinned
  BY DEF QuestionsIInv, QuestionsTypeOK
<1>3. PICK first : first = DOMAIN FirstJobs(r)
  OBVIOUS
<1>4. first \subseteq DOMAIN tasks
  BY <1>2, <1>3 DEF StoreQuestion, QuestionsIInv, StoresKnown
<1> DEFINE q == [state |-> IF first = {} THEN "insufficient" ELSE "queued", round |-> 0, jobs |-> first]
<1>5. asked' = [asked EXCEPT ![r] = q]
  BY <1>2, <1>3 DEF StoreQuestion
<1>6. q.round = 0 /\ q.jobs = first /\ (q.state = "queued" => first # {})
  OBVIOUS
<1>7. q = [state |-> q.state, round |-> q.round, jobs |-> q.jobs]
  OBVIOUS
<1> HIDE DEF q
<1>8. Before(r, 0) = first
  <2>1. \A k \in first : k[1] = r /\ k[2] = 0
    BY <1>3, FirstFacts DEF QuestionsIInv, QuestionsTypeOK
  <2>2. \A k \in Before(r, 0) : k \in first
    BY <1>3 DEF Before, QuestionsIInv, FirstRoundStored
  <2> QED BY <1>4, <2>1, <2>2 DEF Before
<1>9. QuestionOK(r, q)
  BY <1>3, <1>6, <1>7, <1>8 DEF QuestionOK
<1>10. r \in Revisions
  BY QuestionsAssumption DEF QuestionsIInv, QuestionsTypeOK, Revisions
<1>11. QuestionOK(r, q)'
  BY <1>1, <1>9 DEF Grows
<1>12. /\ DOMAIN asked' = Revisions
       /\ \A s \in Revisions : asked'[s] # NoQuestion => QuestionOK(s, asked[s])'
  BY <1>1, <1>5, <1>10, <1>11, Replaced
<1>16. QuestionsOK'
  <2>1. ASSUME NEW p \in pending'
        PROVE  p.of = revision' /\ QuestionOK(p.of, p.question)' /\ p.question.round > 0 /\ worker' = "loop"
    BY <1>1, <2>1 DEF Grows, StoreQuestion, QuestionsIInv, QuestionsOK
  <2> QED BY <1>12, <2>1 DEF QuestionsOK
<1>13. 1 \in 1 .. revision
  BY QuestionsAssumption DEF QuestionsIInv, QuestionsTypeOK, Revisions
<1>14. /\ asker' \in [Asker -> [at : {"idle", "enqueue", "store", "done"}, pinned : 1 .. revision]]
       /\ asker'[a] = [at |-> "done", pinned |-> 1]
       /\ \A b \in Asker \ {a} : asker'[b] = asker[b]
  BY <1>13, AsksFacts DEF StoreQuestion
<1>15. \A b \in Asker : asker'[b].at = "store" =>
         DOMAIN FirstJobs(asker'[b].pinned) \subseteq DOMAIN tasks'
  BY <1>1, <1>14 DEF Grows, QuestionsIInv, StoresKnown
<1>17. RaisedOK'
  BY <1>1, NotRaised DEF StoreQuestion
<1> QED BY <1>1, <1>12, <1>14, <1>15, <1>16, <1>17, GrowsFacts

(* What is known of a round that waits to be reduced stays so. *)
LEMMA StillReducible ==
    ASSUME UNCHANGED <<mode, revision, asked, tasks, answers, wanted>>
    PROVE  /\ Reducible(revision)' <=> Reducible(revision)
           /\ Unbuildable(asked[revision].jobs)' <=> Unbuildable(asked[revision].jobs)
BY DEF Reducible, State, Unbuildable, Parts, Points, Claims, Covered

(* Threads at rest, or that start again, are about to store nothing. *)
LEMMA StepProcessDies ==
    ASSUME QuestionsIInv, ProcessDies
    PROVE  QuestionsIInv'
<1>1. Grows
  BY StillGrows DEF ProcessDies
<1>2. QuestionsOK' /\ DOMAIN asked' = Revisions
  BY <1>1, QuestionsSame DEF ProcessDies, QuestionsIInv, QuestionsTypeOK
<1>3. 1 \in 1 .. revision
  BY QuestionsAssumption DEF QuestionsIInv, QuestionsTypeOK, Revisions
<1>4. asker' = [a \in Asker |-> IF asker[a].at = "done" THEN asker[a] ELSE [at |-> "idle", pinned |-> 1]]
  BY DEF ProcessDies, AskersEnd
<1>5. ASSUME NEW a \in Asker
      PROVE  /\ asker'[a] \in [at : {"idle", "enqueue", "store", "done"}, pinned : 1 .. revision]
             /\ asker'[a].at # "store" /\ asker'[a].at \in {"idle", "done"}
  BY <1>3, <1>4 DEF QuestionsIInv, QuestionsTypeOK
<1>6. asker' \in [Asker -> [at : {"idle", "enqueue", "store", "done"}, pinned : 1 .. revision]]
  BY <1>4, <1>5
<1>7. RaisedOK'
  BY <1>5, StillReducible DEF ProcessDies, QuestionsIInv, RaisedOK
<1> QED BY <1>1, <1>2, <1>5, <1>6, <1>7, GrowsFacts

(* Threads that do nothing stay as they are. *)
LEMMA AskersSame ==
    ASSUME QuestionsIInv, Grows, asker' = asker
    PROVE  /\ asker' \in [Asker -> [at : {"idle", "enqueue", "store", "done"}, pinned : 1 .. revision]]
           /\ \A a \in Asker : asker'[a].at = "store" =>
                DOMAIN FirstJobs(asker'[a].pinned) \subseteq DOMAIN tasks'
BY DEF QuestionsIInv, QuestionsTypeOK, StoresKnown, Grows

(* A plan that is not stored is forgotten; its jobs are there. *)
LEMMA StepPlanFails ==
    ASSUME QuestionsIInv, PlanFails
    PROVE  QuestionsIInv'
<1>1. Grows
  BY StillGrows DEF PlanFails
<1>2. QuestionsOK' /\ DOMAIN asked' = Revisions
  BY <1>1, QuestionsSame DEF PlanFails, QuestionsIInv, QuestionsTypeOK
<1>3. RaisedOK'
  BY <1>1, NotRaised DEF PlanFails
<1> QED BY <1>1, <1>2, <1>3, AskersSame, GrowsFacts DEF PlanFails

(* A planned round takes the place of the one before it. *)
LEMMA StepStorePlan ==
    ASSUME QuestionsIInv, StorePlan
    PROVE  QuestionsIInv'
<1>1. Grows
  BY StillGrows DEF StorePlan
<1>2. PICK p \in pending : asked' = [asked EXCEPT ![p.of] = p.question]
  BY DEF StorePlan
<1>3. PICK r, q : r = p.of /\ q = p.question
  OBVIOUS
<1>4. r \in Revisions /\ QuestionOK(r, q)
  BY <1>2, <1>3 DEF QuestionsIInv, QuestionsTypeOK, QuestionsOK
<1>5. QuestionOK(r, q)'
  BY <1>1, <1>4 DEF Grows
<1>6. asked' = [asked EXCEPT ![r] = q]
  BY <1>2, <1>3
<1>7. /\ DOMAIN asked' = Revisions
      /\ \A s \in Revisions : asked'[s] # NoQuestion => QuestionOK(s, asked[s])'
  BY <1>1, <1>4, <1>5, <1>6, Replaced
<1>8. QuestionsOK'
  BY <1>7 DEF QuestionsOK, StorePlan
<1>9. RaisedOK'
  BY <1>1, <1>2, NotRaised DEF StorePlan
<1> QED BY <1>1, <1>7, <1>8, <1>9, AskersSame, GrowsFacts DEF StorePlan

(* A round that is reduced belongs to the question as it is asked now.      *)
LEMMA RoundToReduce ==
    ASSUME QuestionsIInv, Working, NEW r \in Revisions, Reducible(r)
    PROVE  /\ r = revision /\ QuestionOK(r, asked[r]) /\ mode = "global"
           /\ asked[r].jobs # {} /\ asked[r].jobs \subseteq DOMAIN tasks
           /\ \A k \in asked[r].jobs : tasks[k].state = "completed"
<1>1. PICK q : q = asked[r]
  OBVIOUS
<1>2. QuestionOK(r, q) /\ q.jobs # {} /\ mode = "global"
  BY <1>1 DEF QuestionsIInv, QuestionsOK, Reducible
<1>3. q.jobs \subseteq DOMAIN tasks /\ \A k \in q.jobs : k[1] = r
  BY <1>2 DEF QuestionOK, Before
<1>4. \A k \in q.jobs : tasks[k].state = "completed"
  BY <1>1 DEF Reducible, State
<1>5. r = revision
  BY <1>2, <1>3, <1>4 DEF QuestionsIInv, OldWithdrawn, Working
<1> QED BY <1>1, <1>2, <1>3, <1>4, <1>5

(* What a round says that is settled and is not the first: fit claims      *)
(* selected among those it was offered, about all the kinds they are about.*)
LEMMA NamedAreSaid ==
    ASSUME QuestionsIInv, NEW n \in Nat, NEW K, K = Before(revision, n), K # {},
           \A k \in K : tasks[k].state = "completed"
    PROVE  /\ FirstSettled(revision)
           /\ \A c \in Points(K) : Said(revision, c[1])
           /\ Several(revision) =>
                \A kind \in Named(revision) : \E c \in Points(K) : c[1] \in kind
<1>1. \A k \in K : k \in DOMAIN tasks /\ k[1] = revision /\ k[2] = n /\ TaskOK(k)
  BY DEF Before, QuestionsIInv, QuestionsTypeOK
<1>2. CASE n = 0
  <2>1. FirstSettled(revision)
    BY <1>2 DEF FirstSettled
  <2>2. ASSUME NEW c \in Points(K) PROVE Said(revision, c[1])
    <3>1. PICK k \in K : c \in tasks[k].claims /\ c[3] # "unfit"
      BY <2>2 DEF Points, Claims
    <3> QED BY <1>1, <1>2, <3>1 DEF Said
  <2>3. \A kind \in Named(revision) : \E c \in Points(K) : c[1] \in kind
    BY <1>2, CoveredBy DEF Named
  <2> QED BY <2>1, <2>2, <2>3
<1>3. CASE n # 0
  <2>1. \A k \in K : LaterOK(k)
    BY <1>1, <1>3 DEF QuestionsIInv, LaterRounds
  <2>2. FirstSettled(revision)
    BY <2>1 DEF LaterOK
  <2>3. ASSUME NEW c \in Points(K) PROVE Said(revision, c[1])
    <3>1. PICK k \in K : c \in tasks[k].claims
      BY <2>3 DEF Points, Claims
    <3>2. PICK d \in tasks[k].offered : c[1] = d[1]
      BY <1>1, <3>1 DEF TaskOK
    <3> QED BY <2>1, <3>2 DEF LaterOK
  <2>4. ASSUME Several(revision), NEW kind \in Named(revision) PROVE \E c \in Points(K) : c[1] \in kind
    <3>1. PICK k \in K : k[2] = n
      BY <1>1
    <3>2. PICK j \in K : \E c \in tasks[j].offered : c[1] \in kind
      BY <2>1, <2>4, <3>1 DEF LaterOK
    <3>3. j[4] = "pick"
      BY <2>1, <2>4 DEF LaterOK
    <3>4. Selects(tasks[j].offered, tasks[j].claims)
      BY <1>1, <3>3 DEF TaskOK
    <3>5. kind \in wanted /\ kind \cap Firsts(tasks[j].offered) # {}
      BY <2>4, <3>2 DEF Named, Covered, Firsts
    <3>6. PICK c \in tasks[j].claims : c[1] \in kind
      BY <3>4, <3>5 DEF Selects, Firsts
    <3>7. c \in tasks[j].offered
      BY <3>4, <3>6 DEF Selects
    <3>8. c[3] # "unfit"
      BY <2>1, <3>7 DEF LaterOK
    <3>9. c \in Points(K)
      BY <3>6, <3>8 DEF Points, Claims
    <3> QED BY <3>6, <3>9
  <2> QED BY <2>2, <2>3, <2>4
<1> QED BY <1>2, <1>3

(* A round that is planned divides what was said before, and is smaller.   *)
LEMMA NextRoundToPlan ==
    ASSUME QuestionsIInv, Working, NEW r \in Revisions, Reducible(r), Contracts(r)
    PROVE  /\ RoundToPlan(r, asked[r].round + 1, NextJobs(r, asked[r].round, asked[r].jobs))
           /\ Points(asked[r].jobs) # {} => DOMAIN NextJobs(r, asked[r].round, asked[r].jobs) # {}
<1>1. PICK q : q = asked[r]
  OBVIOUS
<1>2. r = revision /\ QuestionOK(r, q) /\ q.jobs # {} /\ mode = "global"
  BY <1>1, RoundToReduce
<1>3. PICK n, K : n = q.round /\ K = q.jobs
  OBVIOUS
<1>4. n \in Nat /\ K = Before(r, n) /\ K \subseteq DOMAIN tasks /\ K # {}
  BY <1>2, <1>3 DEF QuestionOK, Before
<1>5. \A k \in K : tasks[k].state = "completed"
  BY <1>1, <1>3, RoundToReduce
<1>6. /\ Parts(K).parts # <<>>
      /\ Len(Parts(K).parts) < Cardinality(K) \/ Len(Parts(K).parts) = 1
  BY <1>1, <1>3 DEF Contracts
<1>7. PICK new : new = NextJobs(r, n, K)
  OBVIOUS
<1>8. IsFiniteSet(Points(K)) /\ IsFiniteSet(K)
  BY <1>4, PointsFinite, FS_Subset DEF QuestionsIInv, QuestionsTypeOK
<1>9. /\ IsFiniteSet(DOMAIN new) /\ Cardinality(DOMAIN new) <= Len(Parts(K).parts) /\ Len(Parts(K).parts) \in Nat
      /\ \A k \in DOMAIN new :
            /\ k[1] = r /\ k[2] = n + 1 /\ k[4] = Parts(K).manner /\ new[k] \subseteq Points(K)
            /\ k[3] \in {"map", "reduce"} /\ (k[3] = "reduce" <=> Len(Parts(K).parts) = 1)
            /\ k[3] = "reduce" => DOMAIN new = {k}
      /\ \A j, k \in DOMAIN new : j[3] = k[3] /\ j[4] = k[4]
      /\ UNION {new[k] : k \in DOMAIN new} = Points(K)
  <2>1. NextOK(new, r, n, K)
    BY <1>6, <1>7, <1>8, NextFacts
  <2> QED BY <2>1 DEF NextOK
<1>10. \A k \in DOMAIN new : IsFiniteSet(new[k])
  BY <1>8, <1>9, FS_Subset
<1>11. Before(r, n + 1) # {} => Reduces(n)
  BY <1>2, <1>4 DEF QuestionsIInv, RoundsReduce
<1>12. Before(r, n + 1) = {} \/ Before(r, n + 1) = DOMAIN new
  BY <1>2, <1>4, <1>7, <1>11 DEF Reduces
<1>13. ASSUME NEW k \in DOMAIN new \cap DOMAIN tasks PROVE tasks[k].offered = new[k]
  <2>1. k \in Before(r, n + 1)
    BY <1>9 DEF Before
  <2> QED BY <1>2, <1>4, <1>7, <1>11, <2>1 DEF Reduces
<1>14. /\ FirstSettled(r)
       /\ \A c \in Points(K) : Said(r, c[1])
       /\ Several(r) => \A kind \in Named(r) : \E c \in Points(K) : c[1] \in kind
  BY <1>2, <1>4, <1>5, NamedAreSaid
<1>15. r \in 1 .. revision /\ n + 1 \in Nat /\ n + 1 # 0
  BY <1>2, <1>4 DEF QuestionOK
<1>16. \A k \in DOMAIN new : \A c \in new[k] : c[3] # "unfit" /\ Said(r, c[1])
  BY <1>9, <1>14 DEF Points
<1>18. ASSUME Several(r)
       PROVE  /\ \A k \in DOMAIN new : k[4] = "pick"
              /\ \A kind \in Named(r) : \E j \in DOMAIN new : \E c \in new[j] : c[1] \in kind
  <2>1. PICK one, other \in Named(r) : one # other
    BY <1>18 DEF Several
  <2>2. one \in Covered(Points(K)) /\ other \in Covered(Points(K))
    BY <1>14, <1>18, <2>1, CoveredBy DEF Named
  <2>3. Parts(K).manner = "pick"
    BY <2>1, <2>2 DEF Parts
  <2>4. ASSUME NEW kind \in Named(r) PROVE \E j \in DOMAIN new : \E c \in new[j] : c[1] \in kind
    <3>1. PICK c \in Points(K) : c[1] \in kind
      BY <1>14, <1>18
    <3> QED BY <1>9, <3>1
  <2> QED BY <1>9, <2>3, <2>4
<1>19. Cardinality(DOMAIN new) < Cardinality(K) \/ \A k \in DOMAIN new : k[3] = "reduce"
  <2>1. Cardinality(DOMAIN new) \in Nat /\ Cardinality(K) \in Nat
    BY <1>8, <1>9, FS_CardinalityType
  <2>2. Cardinality(DOMAIN new) <= Len(Parts(K).parts) /\ Len(Parts(K).parts) \in Nat
    BY <1>9
  <2>3. CASE Len(Parts(K).parts) < Cardinality(K)
    BY <2>1, <2>2, <2>3
  <2>4. CASE Len(Parts(K).parts) = 1
    BY <1>9, <2>4
  <2> QED BY <1>6, <2>3, <2>4
<1>17. RoundToPlan(r, n + 1, new)
  <2>1. \E m \in Nat :
            /\ n + 1 = m + 1 /\ Before(r, m) # {}
            /\ \A k \in Before(r, m) : tasks[k].state = "completed"
            /\ new = NextJobs(r, m, Before(r, m))
            /\ \/ Cardinality(DOMAIN new) < Cardinality(Before(r, m))
               \/ \A k \in DOMAIN new : k[3] = "reduce"
    BY <1>4, <1>5, <1>7, <1>19
  <2>2. PICK m : m = n + 1
    OBVIOUS
  <2>3. \A k \in DOMAIN new : k[1] = r /\ k[2] = m /\ IsFiniteSet(new[k])
                                /\ k[3] \in {"map", "reduce"} /\ (k[3] = "reduce" => DOMAIN new = {k})
    BY <1>9, <1>10, <2>2
  <2>4. RoundToPlan(r, m, new)
    BY <1>2, <1>9, <1>12, <1>13, <1>14, <1>15, <1>16, <1>18, <2>1, <2>2, <2>3 DEF RoundToPlan
  <2> QED BY <2>2, <2>4
<1>20. Points(K) # {} => DOMAIN new # {}
  BY <1>9
<1> QED BY <1>1, <1>3, <1>7, <1>17, <1>20

(* The worker ends in a planning: its threads end, and nothing is written. *)
LEMMA WorkerEnds ==
    ASSUME QuestionsIInv, Working, Raises, Reducible(revision), Unbuildable(asked[revision].jobs),
           UNCHANGED <<mode, found, wanted, reports, revision, answers>>
    PROVE  QuestionsIInv'
<1>1. /\ worker' = "raised" /\ UNCHANGED <<asked, tasks, pending>> /\ worker = "loop" /\ pending = {}
      /\ asker' = [a \in Asker |-> IF asker[a].at = "done" THEN asker[a] ELSE [at |-> "idle", pinned |-> 1]]
  BY DEF Working, Raises, AskersEnd
<1>2. 1 \in 1 .. revision
  BY QuestionsAssumption DEF QuestionsIInv, QuestionsTypeOK, Revisions
<1>3. ASSUME NEW a \in Asker
      PROVE  /\ asker'[a] \in [at : {"idle", "enqueue", "store", "done"}, pinned : 1 .. revision]
             /\ asker'[a].at \in {"idle", "done"}
  BY <1>1, <1>2 DEF QuestionsIInv, QuestionsTypeOK
<1>4. asker' \in [Asker -> [at : {"idle", "enqueue", "store", "done"}, pinned : 1 .. revision]]
  BY <1>1, <1>3
<1>5. JobsOK' /\ \A r, q : QuestionOK(r, q) => QuestionOK(r, q)'
  BY <1>1, Unmoved, KeptFacts
<1>6. QuestionsTypeOK'
  BY <1>1, <1>4, <1>5 DEF JobsOK, QuestionsIInv, QuestionsTypeOK
<1>7. StoresKnown' /\ OldWithdrawn'
  BY <1>1, <1>3 DEF StoresKnown, OldWithdrawn
<1>8. QuestionsOK'
  <2> SUFFICES ASSUME NEW r \in Revisions, asked[r] # NoQuestion PROVE QuestionOK(r, asked[r])'
    BY <1>1 DEF QuestionsOK
  <2>1. PICK q : q = asked[r]
    OBVIOUS
  <2>2. QuestionOK(r, q)'
    BY <1>5, <2>1 DEF QuestionsIInv, QuestionsOK
  <2> QED BY <1>1, <2>1, <2>2 DEF QuestionOK
<1>9. AnswersStored'
  BY <1>1 DEF QuestionsIInv, AnswersStored
<1>10. AnswersSaid'
  <2> SUFFICES ASSUME NEW r \in Revisions, NEW claims \in answers[r]
               PROVE  r = revision /\ AnswerOK(r, claims)'
    BY <1>1 DEF AnswersSaid
  <2>1. r = revision /\ AnswerOK(r, claims)
    BY <1>1 DEF QuestionsIInv, AnswersSaid
  <2>2. Points(Before(r, 0))' = Points(Before(r, 0)) /\ Before(r, 0)' = Before(r, 0)
    BY <1>1 DEF Points, Claims, Before
  <2> QED BY <1>1, <2>1, <2>2 DEF AnswerOK, FirstSettled, Said, Several, Named, Covered
<1>11. RaisedOK'
  BY <1>1, <1>3, StillReducible DEF RaisedOK
<1> QED BY <1>5, <1>6, <1>7, <1>8, <1>9, <1>10, <1>11 DEF QuestionsIInv, JobsOK

(* Reduction closes the question or plans its next round. *)
LEMMA StepPlanReduction ==
    ASSUME QuestionsIInv, NEW r \in Revisions, PlanReduction(r)
    PROVE  QuestionsIInv'
<1>1. PICK q, new : q = asked[r] /\ new = NextJobs(r, q.round, q.jobs)
  OBVIOUS
<1>2. Working /\ Reducible(r)
  BY DEF PlanReduction
<1>3. r = revision /\ QuestionOK(r, q)
  BY <1>1, <1>2, RoundToReduce
<1>10. Contracts(r) =>
         /\ RoundToPlan(r, q.round + 1, new)
         /\ Points(q.jobs) # {} => DOMAIN new # {}
  BY <1>1, <1>2, NextRoundToPlan
<1>11. worker' = worker => RaisedOK'
  BY <1>2 DEF Working, RaisedOK
<1>4. ASSUME NEW ending \in {"insufficient", "limited"}, Closes(r, ending), UNCHANGED <<asker, tasks, worker, pending>>
      PROVE  QuestionsIInv'
  <2>1. Grows
    BY <1>4, StillGrows DEF PlanReduction
  <2> DEFINE p == [state |-> ending, round |-> q.round, jobs |-> q.jobs]
  <2>2. q = [state |-> q.state, round |-> q.round, jobs |-> q.jobs]
    BY <1>3 DEF QuestionOK
  <2>3. [q EXCEPT !.state = ending] = p
    BY <2>2
  <2>4. asked' = [asked EXCEPT ![r] = p]
    BY <1>1, <1>4, <2>3 DEF Closes
  <2>5. p.state = ending /\ p.round = q.round /\ p.jobs = q.jobs
    OBVIOUS
  <2>6. p = [state |-> p.state, round |-> p.round, jobs |-> p.jobs]
    OBVIOUS
  <2> HIDE DEF p
  <2>7. QuestionOK(r, p)
    BY <1>3, <1>4, <2>5, <2>6 DEF QuestionOK
  <2>8. QuestionOK(r, p)'
    BY <2>1, <2>7 DEF Grows
  <2>9. /\ DOMAIN asked' = Revisions
        /\ \A s \in Revisions : asked'[s] # NoQuestion => QuestionOK(s, asked[s])'
    BY <2>1, <2>4, <2>8, Replaced
  <2>10. pending' = {}
    BY <1>2, <1>4 DEF Working
  <2>11. QuestionsOK'
    BY <2>9, <2>10 DEF QuestionsOK
  <2> QED BY <1>4, <1>11, <2>1, <2>9, <2>11, AskersSame, GrowsFacts
<1>5. ASSUME Points(q.jobs) # {}, Contracts(r), tasks' = Enqueued(new), UNCHANGED <<asker, asked, worker>>,
             pending' = {[of |-> r, question |-> [state |-> "queued", round |-> q.round + 1, jobs |-> DOMAIN new]]}
      PROVE  QuestionsIInv'
  <2>1. PICK n : n = q.round + 1
    OBVIOUS
  <2>2. Grows /\ Before(r, n)' = DOMAIN new
    BY <1>5, <1>10, <2>1, PlannedGrows DEF PlanReduction
  <2> DEFINE p == [state |-> "queued", round |-> n, jobs |-> DOMAIN new]
             o == [of |-> r, question |-> p]
  <2>3. pending' = {o}
    BY <1>5, <2>1
  <2>4. p.state = "queued" /\ p.round = n /\ p.jobs = DOMAIN new
    OBVIOUS
  <2>5. p = [state |-> p.state, round |-> p.round, jobs |-> p.jobs]
    OBVIOUS
  <2>6. o.of = r /\ o.question = p
    OBVIOUS
  <2> HIDE DEF p, o
  <2>7. n \in Nat /\ n > 0 /\ r \in 1 .. revision'
    BY <1>3, <2>1, <2>2 DEF QuestionOK, Grows
  <2>8. QuestionOK(r, p)'
    BY <1>3, <1>5, <1>10, <2>2, <2>4, <2>5, <2>7 DEF QuestionOK
  <2>9. QuestionOK(o.of, o.question)'
    BY <2>6, <2>8
  <2>10. worker' = "loop" /\ revision' = revision
    BY <1>2, <1>5 DEF Working, PlanReduction
  <2>11. ASSUME NEW s \in Revisions, asked'[s] # NoQuestion PROVE QuestionOK(s, asked[s])'
    <3>1. PICK x : x = asked[s]
      OBVIOUS
    <3>2. QuestionOK(s, x) /\ asked'[s] = x
      BY <1>5, <2>11, <3>1 DEF QuestionsIInv, QuestionsOK
    <3>3. QuestionOK(s, x)'
      BY <2>2, <3>2 DEF Grows
    <3> QED BY <3>2, <3>3 DEF QuestionOK
  <2>12. QuestionsOK'
    BY <1>3, <2>3, <2>4, <2>6, <2>7, <2>8, <2>10, <2>11 DEF QuestionsOK, QuestionOK
  <2>13. DOMAIN asked' = Revisions
    BY <1>5 DEF QuestionsIInv, QuestionsTypeOK
  <2> QED BY <1>5, <1>11, <2>2, <2>12, <2>13, AskersSame, GrowsFacts
<1>6. Contracts(r) => ~Conflict(new)
  BY <1>10 DEF Conflict, RoundToPlan
<1>12. ASSUME Unbuildable(q.jobs), Raises PROVE QuestionsIInv'
  BY <1>1, <1>2, <1>3, <1>12, WorkerEnds DEF PlanReduction
<1>7. CASE Points(q.jobs) = {}
  BY <1>1, <1>4, <1>7 DEF PlanReduction
<1>8. CASE Points(q.jobs) # {} /\ ~Contracts(r)
  BY <1>1, <1>4, <1>8 DEF PlanReduction
<1>9. CASE Points(q.jobs) # {} /\ Contracts(r) /\ ~Unbuildable(q.jobs)
  BY <1>1, <1>5, <1>6, <1>9 DEF PlanReduction
<1>13. CASE Points(q.jobs) # {} /\ Contracts(r) /\ Unbuildable(q.jobs)
  BY <1>1, <1>12, <1>13 DEF PlanReduction
<1> QED BY <1>7, <1>8, <1>9, <1>13

(* An answer is about units it was offered, and a selection is one. *)
LEMMA PossibleFacts ==
    ASSUME QuestionsIInv, NEW k \in DOMAIN tasks, NEW claims \in Possible(k)
    PROVE  /\ IsFiniteSet(claims) /\ \A c \in claims : \E d \in tasks[k].offered : c[1] = d[1]
           /\ k[4] = "pick" => Selects(tasks[k].offered, claims)
<1> DEFINE offered == tasks[k].offered
           about == Firsts(offered)
<1>1. IsFiniteSet(offered)
  BY DEF QuestionsIInv, QuestionsTypeOK, TaskOK
<1>2. IsFiniteSet(about)
  <2> DEFINE h == [c \in offered |-> c[1]]
  <2>1. IsFiniteSet({h[c] : c \in offered})
    BY <1>1, ImageIsFinite
  <2>2. {h[c] : c \in offered} = about
    BY DEF Firsts
  <2> QED BY <2>1, <2>2
<1>3. ASSUME NEW manner PROVE IsFiniteSet({<<u, k, manner>> : u \in about})
  <2> DEFINE h == [u \in about |-> <<u, k, manner>>]
  <2>1. IsFiniteSet({h[u] : u \in about})
    BY <1>2, ImageIsFinite
  <2>2. {h[u] : u \in about} = {<<u, k, manner>> : u \in about}
    OBVIOUS
  <2> QED BY <2>1, <2>2
<1> DEFINE X(manner) == {<<u, k, manner>> : u \in about}
<1>4. IsFiniteSet(X("plain") \cup X("unfit") \cup X("bulky") \cup X("huge"))
  BY <1>3, FS_Union
<1>5. Words(k) \subseteq X("plain") \cup X("unfit") \cup X("bulky") \cup X("huge")
  BY DEF Words
<1>6. \A c \in Words(k) : c[1] \in about
  BY <1>5
<1>7. \A u \in about : \E d \in offered : u = d[1]
  BY DEF Firsts
<1>8. CASE k[4] = "pick"
  <2>1. claims \in SUBSET offered /\ Covered(offered) \subseteq Covered(claims)
    BY <1>8 DEF Possible
  <2>2. Selects(offered, claims)
    BY <2>1 DEF Selects, Covered
  <2>3. IsFiniteSet(claims)
    BY <1>1, <2>1, FS_Subset
  <2> QED BY <2>1, <2>2, <2>3
<1>9. CASE k[4] # "pick"
  <2> HIDE DEF X
  <2>1. claims \in SUBSET Words(k)
    BY <1>9 DEF Possible
  <2>2. claims \in SUBSET (X("plain") \cup X("unfit") \cup X("bulky") \cup X("huge"))
    BY <1>5, <2>1
  <2>3. IsFiniteSet(claims)
    BY <1>4, <2>2, FS_Subset
  <2> QED BY <1>6, <1>7, <1>9, <2>1, <2>3
<1> QED BY <1>8, <1>9

(* An answer to the current question still rests on what it rested on. *)
LEMMA AnswerKept ==
    ASSUME QuestionsIInv, JobsKept, NEW claims, AnswerOK(revision, claims)
    PROVE  AnswerOK(revision, claims)'
<1>1. PICK r : r = revision /\ r = revision'
  BY DEF JobsKept
<1>2. /\ \A u : Said(r, u) => Said(r, u)'
      /\ FirstSettled(r) => FirstSettled(r)' /\ Named(r)' = Named(r) /\ (Several(r)' <=> Several(r))
  BY <1>1, KeptFacts DEF Said, FirstSettled, Several, Named
<1>3. UNCHANGED <<mode, found, wanted>>
  BY DEF JobsKept
<1>4. Covered(claims)' = Covered(claims)
  BY <1>3 DEF Covered
<1> QED BY <1>1, <1>2, <1>3, <1>4 DEF AnswerOK

(* A step of the worker on some of the jobs, none of them settled. *)
LEMMA KeptSteps ==
    ASSUME QuestionsIInv, JobsKept, Working, UNCHANGED <<asker, asked, worker, pending>>,
           \A k \in DOMAIN tasks : tasks'[k].state = "completed" => k[1] = revision,
           DOMAIN answers' = Revisions, AnswersStored',
           \A r \in Revisions : \A claims \in answers'[r] :
                claims \in answers[r] \/ (r = revision /\ AnswerOK(revision, claims)')
    PROVE  QuestionsIInv'
<1>1. /\ JobsOK' /\ DOMAIN tasks' = DOMAIN tasks
      /\ \A r, q : QuestionOK(r, q) => QuestionOK(r, q)'
  BY KeptFacts
<1>2. revision' = revision /\ UNCHANGED <<mode, found, wanted, reports>>
  BY DEF JobsKept
<1>3. QuestionsTypeOK'
  BY <1>1, <1>2 DEF JobsOK, QuestionsIInv, QuestionsTypeOK
<1>4. StoresKnown'
  <2>1. \A r : FirstJobs(r)' = FirstJobs(r)
    BY <1>2, FirstSame
  <2> QED BY <1>1, <2>1 DEF QuestionsIInv, StoresKnown
<1>5. QuestionsOK'
  BY <1>1, <1>2 DEF QuestionsIInv, QuestionsOK
<1>6. OldWithdrawn'
  BY <1>1, <1>2 DEF OldWithdrawn
<1>7. AnswersSaid'
  <2> SUFFICES ASSUME NEW r \in Revisions, NEW claims \in answers'[r]
               PROVE  r = revision /\ AnswerOK(revision, claims)'
    BY <1>2 DEF AnswersSaid
  <2>1. CASE claims \in answers[r]
    <3>1. r = revision /\ AnswerOK(revision, claims)
      BY <2>1 DEF Working, QuestionsIInv, AnswersSaid
    <3> QED BY <3>1, AnswerKept
  <2> QED BY <2>1
<1>8. RaisedOK'
  BY DEF Working, RaisedOK
<1> QED BY <1>1, <1>3, <1>4, <1>5, <1>6, <1>7, <1>8 DEF QuestionsIInv, JobsOK

(* One job that is not settled ends, or starts again. *)
LEMMA OneChanged ==
    ASSUME QuestionsIInv, UNCHANGED <<mode, found, wanted, reports, revision>>,
           NEW k \in DOMAIN tasks, tasks[k].state # "completed",
           NEW x, tasks' = [tasks EXCEPT ![k] = x],
           x.offered = tasks[k].offered, x.state \in {"planned", "completed", "failed", "obsolete"},
           x.state # "completed" => x.claims = {},
           (x.state # "completed" /\ x.claims = {}) \/ x.claims \in Possible(k)
    PROVE  JobsKept /\ tasks'[k] = x /\ \A j \in DOMAIN tasks \ {k} : tasks'[j] = tasks[j]
<1>1. /\ tasks' = [j \in DOMAIN tasks |-> tasks'[j]] /\ tasks'[k] = x
      /\ \A j \in DOMAIN tasks \ {k} : tasks'[j] = tasks[j]
  BY DEF QuestionsIInv, QuestionsTypeOK
<1>2. PICK claims : claims = x.claims
  OBVIOUS
<1>3. /\ IsFiniteSet(claims) /\ \A c \in claims : \E d \in tasks[k].offered : c[1] = d[1]
      /\ k[4] = "pick" /\ x.state = "completed" => Selects(tasks[k].offered, claims)
  BY <1>2, PossibleFacts, FS_EmptySet
<1>4. ASSUME NEW j \in DOMAIN tasks
      PROVE  /\ tasks'[j].offered = tasks[j].offered
             /\ tasks'[j].state \in {"planned", "completed", "failed", "obsolete"}
             /\ IsFiniteSet(tasks'[j].claims)
             /\ tasks'[j].state # "completed" => tasks'[j].claims = {}
             /\ \A c \in tasks'[j].claims : \E d \in tasks[j].offered : c[1] = d[1]
             /\ j[4] = "pick" /\ tasks'[j].state = "completed" => Selects(tasks[j].offered, tasks'[j].claims)
             /\ j[1] = revision /\ tasks[j].state = "completed" => tasks'[j] = tasks[j]
  <2>1. CASE j = k
    BY <1>1, <1>2, <1>3, <2>1
  <2>2. CASE j # k
    BY <1>1, <2>2 DEF QuestionsIInv, QuestionsTypeOK, TaskOK
  <2> QED BY <2>1, <2>2
<1> QED BY <1>1, <1>4 DEF JobsKept

(* A job that ends without an answer, or is tried again. *)
LEMMA Unanswered ==
    ASSUME QuestionsIInv, Working, UNCHANGED <<mode, found, wanted, reports, revision, asker, asked, answers, worker, pending>>,
           NEW k \in DOMAIN tasks, tasks[k].state # "completed",
           NEW x, tasks' = [tasks EXCEPT ![k] = x],
           x.offered = tasks[k].offered, x.state \in {"planned", "failed", "obsolete"}, x.claims = {}
    PROVE  QuestionsIInv'
<1>1. JobsKept /\ tasks'[k] = x /\ \A j \in DOMAIN tasks \ {k} : tasks'[j] = tasks[j]
  BY OneChanged
<1>2. \A j \in DOMAIN tasks : tasks'[j].state = "completed" => tasks[j].state = "completed"
  BY <1>1
<1>3. \A j \in DOMAIN tasks : tasks'[j].state = "completed" => j[1] = revision
  BY <1>2 DEF QuestionsIInv, OldWithdrawn, Working
<1>4. DOMAIN tasks' = DOMAIN tasks
  BY <1>1 DEF JobsKept
<1>5. AnswersStored'
  BY <1>2, <1>4 DEF QuestionsIInv, AnswersStored
<1>6. DOMAIN answers' = Revisions
  BY DEF QuestionsIInv, QuestionsTypeOK
<1> QED BY <1>1, <1>3, <1>5, <1>6, KeptSteps

(* A job fails. *)
LEMMA StepFailTask ==
    ASSUME QuestionsIInv, NEW k \in DOMAIN tasks, FailTask(k)
    PROVE  QuestionsIInv'
<1> DEFINE x == Ended(k, "failed", {})
<1>1. x.offered = tasks[k].offered /\ x.state = "failed" /\ x.claims = {}
  BY DEF Ended
<1>2. tasks' = [tasks EXCEPT ![k] = x] /\ tasks[k].state # "completed"
  BY DEF FailTask, State
<1> HIDE DEF x
<1> QED BY <1>1, <1>2, Unanswered DEF FailTask

(* A job of an old revision ends. *)
LEMMA StepObsoleteTask ==
    ASSUME QuestionsIInv, NEW k \in DOMAIN tasks, ObsoleteTask(k)
    PROVE  QuestionsIInv'
<1> DEFINE x == Ended(k, "obsolete", {})
<1>1. x.offered = tasks[k].offered /\ x.state = "obsolete" /\ x.claims = {}
  BY DEF Ended
<1>2. tasks' = [tasks EXCEPT ![k] = x] /\ tasks[k].state # "completed"
  BY DEF ObsoleteTask, State
<1> HIDE DEF x
<1> QED BY <1>1, <1>2, Unanswered DEF ObsoleteTask

(* A failed job starts again. *)
LEMMA StepRetryTask ==
    ASSUME QuestionsIInv, NEW k \in DOMAIN tasks, RetryTask(k)
    PROVE  QuestionsIInv'
<1> DEFINE x == [offered |-> tasks[k].offered, attempt |-> tasks[k].attempt + 1,
                 state |-> "planned", claims |-> {}]
<1>1. x.offered = tasks[k].offered /\ x.state = "planned" /\ x.claims = {}
  OBVIOUS
<1>2. tasks' = [tasks EXCEPT ![k] = x] /\ tasks[k].state # "completed"
  BY DEF RetryTask, State
<1> HIDE DEF x
<1> QED BY <1>1, <1>2, Unanswered DEF RetryTask

(* A job that is not one of several answers the question. *)
LEMMA StepCompleteAnswer ==
    ASSUME QuestionsIInv, NEW k \in DOMAIN tasks, CompleteAnswer(k)
    PROVE  QuestionsIInv'
<1>1. PICK claims \in Possible(k) : /\ tasks' = [tasks EXCEPT ![k] = Ended(k, "completed", claims)]
                                    /\ answers' = [answers EXCEPT ![revision] = {claims}]
  BY DEF CompleteAnswer
<1> DEFINE x == Ended(k, "completed", claims)
<1>2. x.offered = tasks[k].offered /\ x.state = "completed" /\ x.claims = claims
  BY DEF Ended
<1>3. tasks' = [tasks EXCEPT ![k] = x]
  BY <1>1
<1> HIDE DEF x
<1>4. tasks[k].state # "completed" /\ k[1] = revision /\ Working
  BY DEF CompleteAnswer, State
<1>5. JobsKept /\ tasks'[k] = x /\ \A j \in DOMAIN tasks \ {k} : tasks'[j] = tasks[j]
  BY <1>2, <1>3, <1>4, OneChanged DEF CompleteAnswer
<1>6. \A j \in DOMAIN tasks : tasks'[j].state = "completed" => j[1] = revision
  BY <1>4, <1>5 DEF QuestionsIInv, OldWithdrawn, Working
<1>7. revision \in Revisions /\ revision' = revision
  BY DEF CompleteAnswer, QuestionsIInv, QuestionsTypeOK
<1>8. /\ DOMAIN answers' = Revisions /\ answers'[revision] = {claims}
      /\ \A r \in Revisions \ {revision} : answers'[r] = answers[r]
  BY <1>1, <1>7 DEF QuestionsIInv, QuestionsTypeOK
<1>9. AnswersStored'
  BY <1>7, <1>8 DEF AnswersStored
<1>10. AnswerOK(revision, claims)
  <2>1. /\ \A c \in claims : \E d \in tasks[k].offered : c[1] = d[1]
        /\ k[4] = "pick" => Selects(tasks[k].offered, claims)
    BY PossibleFacts
  <2>2. k[2] \in Nat /\ (k[2] > 0 => mode = "global") /\ k[3] # "map" /\ ReportsOK
    BY DEF CompleteAnswer, QuestionsIInv, QuestionsTypeOK, TaskOK
  <2>3. CASE mode = "local"
    <3>1. k[2] = 0
      BY <2>2, <2>3
    <3>2. k \in DOMAIN FirstJobs(k[1]) /\ tasks[k].offered = FirstJobs(k[1])[k]
      BY <3>1 DEF QuestionsIInv, FirstRoundStored
    <3>3. Firsts(tasks[k].offered) \subseteq found \ Sensitive
      BY <2>2, <2>3, <3>2, FirstFacts
    <3> QED BY <2>1, <2>3, <3>3 DEF AnswerOK, Firsts
  <2>4. CASE mode = "global"
    <3>1. k[2] # 0
      <4> SUFFICES ASSUME k[2] = 0 PROVE FALSE
        OBVIOUS
      <4>1. k \in DOMAIN FirstJobs(k[1])
        BY DEF QuestionsIInv, FirstRoundStored
      <4>2. k[3] = "map"
        BY <2>2, <2>4, <4>1, FirstFacts
      <4> QED BY <2>2, <4>2
    <3>2. LaterOK(k)
      BY <1>4, <2>2, <3>1 DEF QuestionsIInv, LaterRounds
    <3>3. \A c \in claims : Said(revision, c[1])
      BY <2>1, <3>2 DEF LaterOK
    <3>4. k[3] = "reduce" /\ Before(revision, k[2]) = {k}
      <4>1. k \in Before(revision, k[2])
        BY <1>4 DEF Before
      <4> QED BY <2>2, <3>1, <3>2 DEF LaterOK
    <3>5. ASSUME Several(revision), NEW kind \in Named(revision) PROVE kind \in Covered(claims)
      <4>1. k[4] = "pick" /\ \E c \in tasks[k].offered : c[1] \in kind
        BY <3>2, <3>4, <3>5 DEF LaterOK
      <4>2. kind \in wanted /\ kind \cap Firsts(tasks[k].offered) # {}
        BY <3>5, <4>1 DEF Named, Covered, Firsts
      <4> QED BY <2>1, <4>1, <4>2 DEF Selects, Covered
    <3> QED BY <2>4, <3>2, <3>3, <3>5 DEF AnswerOK, LaterOK
  <2> QED BY <2>2, <2>3, <2>4 DEF ReportsOK
<1>11. AnswerOK(revision, claims)'
  BY <1>5, <1>10, AnswerKept
<1>12. \A r \in Revisions : \A d \in answers'[r] :
          d \in answers[r] \/ (r = revision /\ AnswerOK(revision, d)')
  <2> SUFFICES ASSUME NEW r \in Revisions, NEW d \in answers'[r], d \notin answers[r]
               PROVE  r = revision /\ AnswerOK(revision, d)'
    OBVIOUS
  <2>1. r = revision /\ d = claims
    BY <1>8
  <2> QED BY <1>11, <2>1
<1> QED BY <1>4, <1>5, <1>6, <1>8, <1>9, <1>12, KeptSteps DEF CompleteAnswer

(* Some jobs of a round are answered together. *)
LEMMA StepCompleteMaps ==
    ASSUME QuestionsIInv, NEW K \in SUBSET DOMAIN tasks, CompleteMaps(K)
    PROVE  QuestionsIInv'
<1>1. PICK claims \in [K -> UNION {Possible(k) : k \in K}] :
        /\ \A k \in K : claims[k] \in Possible(k)
        /\ tasks' = [k \in DOMAIN tasks |-> IF k \in K THEN Ended(k, "completed", claims[k]) ELSE tasks[k]]
  BY DEF CompleteMaps
<1>2. \A k \in K : k[3] = "map" /\ tasks[k].state = "planned" /\ k[1] = revision
  BY DEF CompleteMaps, State
<1>3. ASSUME NEW k \in K
      PROVE  /\ tasks'[k].offered = tasks[k].offered /\ tasks'[k].state = "completed"
             /\ tasks'[k].claims = claims[k] /\ IsFiniteSet(claims[k])
             /\ \A c \in claims[k] : \E d \in tasks[k].offered : c[1] = d[1]
             /\ k[4] = "pick" => Selects(tasks[k].offered, claims[k])
  <2>1. tasks'[k] = Ended(k, "completed", claims[k])
    BY <1>1
  <2>2. PICK said \in Possible(k) : said = claims[k]
    BY <1>1
  <2>3. /\ IsFiniteSet(said) /\ \A c \in said : \E d \in tasks[k].offered : c[1] = d[1]
        /\ k[4] = "pick" => Selects(tasks[k].offered, said)
    BY PossibleFacts
  <2> QED BY <2>1, <2>2, <2>3 DEF Ended
<1>4. DOMAIN tasks' = DOMAIN tasks /\ \A k \in DOMAIN tasks \ K : tasks'[k] = tasks[k]
  BY <1>1
<1>5. tasks' = [k \in DOMAIN tasks |-> tasks'[k]]
  BY <1>1
<1>6. ASSUME NEW j \in DOMAIN tasks
      PROVE  /\ tasks'[j].offered = tasks[j].offered
             /\ tasks'[j].state \in {"planned", "completed", "failed", "obsolete"}
             /\ IsFiniteSet(tasks'[j].claims)
             /\ tasks'[j].state # "completed" => tasks'[j].claims = {}
             /\ \A c \in tasks'[j].claims : \E d \in tasks[j].offered : c[1] = d[1]
             /\ j[4] = "pick" /\ tasks'[j].state = "completed" => Selects(tasks[j].offered, tasks'[j].claims)
             /\ j[1] = revision /\ tasks[j].state = "completed" => tasks'[j] = tasks[j]
  <2>1. CASE j \in K
    BY <1>2, <1>3, <2>1
  <2>2. CASE j \notin K
    BY <1>4, <2>2 DEF QuestionsIInv, QuestionsTypeOK, TaskOK
  <2> QED BY <2>1, <2>2
<1>7. JobsKept
  BY <1>5, <1>6 DEF JobsKept, CompleteMaps
<1>8. Working
  BY DEF CompleteMaps
<1>9. \A k \in DOMAIN tasks : tasks'[k].state = "completed" => k[1] = revision
  BY <1>2, <1>4, <1>8 DEF QuestionsIInv, OldWithdrawn, Working
<1>10. AnswersStored'
  BY <1>2, <1>4 DEF CompleteMaps, QuestionsIInv, AnswersStored
<1>11. DOMAIN answers' = Revisions /\ answers' = answers
  BY DEF CompleteMaps, QuestionsIInv, QuestionsTypeOK
<1> QED BY <1>7, <1>8, <1>9, <1>10, <1>11, KeptSteps DEF CompleteMaps

(* What rests on old revisions is withdrawn. *)
LEMMA StepReconcileQuestions ==
    ASSUME QuestionsIInv, ReconcileQuestions
    PROVE  QuestionsIInv'
<1>1. tasks' = [k \in DOMAIN tasks |-> IF k[1] = revision THEN tasks[k] ELSE Ended(k, "obsolete", {})]
  BY DEF ReconcileQuestions
<1>2. ASSUME NEW k \in DOMAIN tasks
      PROVE  /\ tasks'[k].offered = tasks[k].offered
             /\ tasks'[k].state \in {"planned", "completed", "failed", "obsolete"}
             /\ IsFiniteSet(tasks'[k].claims)
             /\ tasks'[k].state # "completed" => tasks'[k].claims = {}
             /\ \A c \in tasks'[k].claims : \E d \in tasks[k].offered : c[1] = d[1]
             /\ k[4] = "pick" /\ tasks'[k].state = "completed" => Selects(tasks[k].offered, tasks'[k].claims)
             /\ k[1] = revision => tasks'[k] = tasks[k]
             /\ k[1] # revision => tasks'[k].state = "obsolete"
  <2>1. CASE k[1] = revision
    BY <1>1, <2>1 DEF QuestionsIInv, QuestionsTypeOK, TaskOK
  <2>2. CASE k[1] # revision
    BY <1>1, <2>2, FS_EmptySet DEF Ended
  <2> QED BY <2>1, <2>2
<1>3. tasks' = [k \in DOMAIN tasks |-> tasks'[k]] /\ DOMAIN tasks' = DOMAIN tasks
  BY <1>1
<1>4. JobsKept
  BY <1>2, <1>3 DEF JobsKept, ReconcileQuestions
<1>5. /\ JobsOK'
      /\ \A r, q : QuestionOK(r, q) => QuestionOK(r, q)'
  BY <1>4, KeptFacts
<1>6. /\ revision' = revision /\ UNCHANGED <<mode, found, wanted, reports>> /\ worker' = "loop"
      /\ answers' = [r \in Revisions |-> IF r = revision THEN answers[r] ELSE {}]
      /\ asker' = asker /\ asked' = asked /\ pending' = pending
  BY DEF ReconcileQuestions
<1>7. QuestionsTypeOK'
  BY <1>5, <1>6 DEF JobsOK, QuestionsIInv, QuestionsTypeOK
<1>8. StoresKnown'
  <2>1. \A r : FirstJobs(r)' = FirstJobs(r)
    BY <1>6, FirstSame
  <2> QED BY <1>3, <1>6, <2>1 DEF QuestionsIInv, StoresKnown
<1>9. QuestionsOK'
  BY <1>5, <1>6 DEF QuestionsIInv, QuestionsOK
<1>10. OldWithdrawn'
  BY <1>2, <1>3, <1>6 DEF OldWithdrawn
<1>11. revision \in Revisions
  BY DEF QuestionsIInv, QuestionsTypeOK
<1>12. AnswersStored'
  BY <1>2, <1>3, <1>6, <1>11 DEF QuestionsIInv, AnswersStored
<1>13. AnswersSaid'
  <2> SUFFICES ASSUME NEW r \in Revisions, NEW claims \in answers'[r]
               PROVE  r = revision /\ AnswerOK(revision, claims)'
    BY <1>6 DEF AnswersSaid
  <2>1. r = revision /\ claims \in answers[r]
    BY <1>6
  <2>2. AnswerOK(revision, claims)
    BY <2>1 DEF QuestionsIInv, AnswersSaid
  <2> QED BY <1>4, <2>1, <2>2, AnswerKept
<1>14. RaisedOK'
  BY <1>6 DEF RaisedOK
<1> QED BY <1>5, <1>7, <1>8, <1>9, <1>10, <1>12, <1>13, <1>14 DEF QuestionsIInv, JobsOK

(* The revision that comes has no work yet. *)
LEMMA StepSourcesChange ==
    ASSUME QuestionsIInv, SourcesChange
    PROVE  QuestionsIInv'
<1>1. /\ revision' = revision + 1 /\ worker' = "reconcile" /\ pending' = {}
      /\ UNCHANGED <<mode, found, wanted, reports, asker, asked, tasks, answers>>
  BY DEF SourcesChange, Working, QuestionsIInv, RaisedOK
<1>2. revision \in Nat /\ revision \in Revisions /\ revision' \in Revisions
  BY <1>1, QuestionsAssumption DEF SourcesChange, QuestionsIInv, QuestionsTypeOK, Revisions
<1>3. ReportsOK' /\ \A r : FirstJobs(r)' = FirstJobs(r)
  BY <1>1, ReportsSame, FirstSame DEF QuestionsIInv, QuestionsTypeOK
<1>4. \A k \in DOMAIN tasks : TaskOK(k)' /\ k[1] # revision'
  BY <1>1, <1>2 DEF QuestionsIInv, QuestionsTypeOK, TaskOK, Selects
<1>5. 1 .. revision \subseteq 1 .. revision'
  BY <1>1, <1>2
<1>6. asker' \in [Asker -> [at : {"idle", "enqueue", "store", "done"}, pinned : 1 .. revision']]
  <2>1. asker \in [Asker -> [at : {"idle", "enqueue", "store", "done"}, pinned : 1 .. revision]]
    BY DEF QuestionsIInv, QuestionsTypeOK
  <2>2. ASSUME NEW a \in Asker
        PROVE  asker[a] \in [at : {"idle", "enqueue", "store", "done"}, pinned : 1 .. revision']
    BY <1>5, <2>1
  <2>3. asker = [a \in Asker |-> asker[a]]
    BY <2>1
  <2> QED BY <1>1, <2>2, <2>3
<1>7. QuestionsTypeOK'
  BY <1>1, <1>2, <1>3, <1>4, <1>6 DEF QuestionsIInv, QuestionsTypeOK
<1>8. FirstRoundStored' /\ StoresKnown'
  BY <1>1, <1>3 DEF QuestionsIInv, FirstRoundStored, StoresKnown
<1>9. \A r, n : Before(r, n)' = Before(r, n)
  BY <1>1 DEF Before
<1>10. \A r, q : QuestionOK(r, q) => QuestionOK(r, q)'
  BY <1>3, <1>5, <1>9 DEF QuestionOK
<1>11. QuestionsOK'
  <2> SUFFICES ASSUME NEW r \in Revisions, asked[r] # NoQuestion PROVE QuestionOK(r, asked[r])'
    BY <1>1 DEF QuestionsOK
  <2>1. PICK q : q = asked[r]
    OBVIOUS
  <2>2. QuestionOK(r, q)'
    BY <1>10, <2>1 DEF QuestionsIInv, QuestionsOK
  <2> QED BY <1>1, <2>1, <2>2 DEF QuestionOK
<1>12. RoundsReduce'
  BY <1>1, <1>4 DEF RoundsReduce, Before
<1>13. AnswersStored' /\ LaterRounds' /\ OldWithdrawn' /\ RaisedOK'
  BY <1>1, <1>4 DEF AnswersStored, LaterRounds, OldWithdrawn, RaisedOK
<1>14. \A r, claims : AnswerOK(r, claims) => AnswerOK(r, claims)'
  <2> SUFFICES ASSUME NEW r, NEW claims, AnswerOK(r, claims) PROVE AnswerOK(r, claims)'
    OBVIOUS
  <2>1. Points(Before(r, 0))' = Points(Before(r, 0)) /\ Before(r, 0)' = Before(r, 0)
    BY <1>1, <1>9 DEF Points, Claims, Before
  <2> QED BY <1>1, <2>1 DEF AnswerOK, FirstSettled, Said, Several, Named, Covered
<1>15. AnswersSaid' /\ RoundsPlannedOnce'
  BY <1>1, <1>14 DEF QuestionsIInv, AnswersSaid, RoundsPlannedOnce
<1> QED BY <1>7, <1>8, <1>11, <1>12, <1>13, <1>15 DEF QuestionsIInv

(* Every step keeps the invariant. *)
LEMMA QuestionsStep == QuestionsIInv /\ [QuestionsNext]_questionVars => QuestionsIInv'
<1> SUFFICES ASSUME QuestionsIInv, [QuestionsNext]_questionVars PROVE QuestionsIInv'
  OBVIOUS
<1>1. CASE UNCHANGED questionVars
  <2>1. Grows
    BY <1>1, StillGrows DEF questionVars
  <2>2. QuestionsOK' /\ DOMAIN asked' = Revisions
    BY <1>1, <2>1, QuestionsSame DEF questionVars, QuestionsIInv, QuestionsTypeOK
  <2>3. RaisedOK'
    BY <1>1, StillReducible DEF questionVars, QuestionsIInv, RaisedOK
  <2> QED BY <1>1, <2>1, <2>2, <2>3, AskersSame, GrowsFacts DEF questionVars
<1>2. ASSUME NEW a \in Asker, Ask(a) \/ ApiStep(a) \/ AskFails(a) PROVE QuestionsIInv'
  BY <1>2, StepAsk, StepEnqueueQuestion, StepStoreQuestion, StepAskFails DEF ApiStep
<1>3. ASSUME WorkerStep PROVE QuestionsIInv'
  BY <1>3, StepReconcileQuestions, StepStorePlan, StepPlanReduction, StepCompleteMaps,
     StepCompleteAnswer, StepObsoleteTask DEF WorkerStep
<1>4. ASSUME SourcesChange \/ PlanFails \/ ProcessDies PROVE QuestionsIInv'
  BY <1>4, StepSourcesChange, StepPlanFails, StepProcessDies
<1>5. ASSUME NEW k \in DOMAIN tasks, FailTask(k) \/ RetryTask(k) PROVE QuestionsIInv'
  BY <1>5, StepFailTask, StepRetryTask
<1> QED BY <1>1, <1>2, <1>3, <1>4, <1>5 DEF QuestionsNext

(* Whoever asks, in whatever order, and whatever fails or dies: a question *)
(* that waits has work to wait for or can be reduced, and planning ends    *)
(* the worker for an oversize claim only; every round divides the fit      *)
(* claims of the one before it, and is smaller unless its answer is the    *)
(* question's; a round is planned once; and an answer rests on the sources *)
(* as they are and on what was fit in the first round, about each kind of  *)
(* documents that the question names and that round spoke of, if it spoke  *)
(* of several.                                                             *)
THEOREM QuestionsHold == QuestionsSpec => []QuestionsInv
<1>1. QuestionsInit => QuestionsIInv
  BY QuestionsStart
<1>2. QuestionsIInv /\ [QuestionsNext]_questionVars => QuestionsIInv'
  BY QuestionsStep
<1>3. QuestionsIInv => QuestionsInv
  BY QuestionIsNotStuck, RoundsDoDivide, AnswersDoRest, KindsAreKept DEF QuestionsInv, QuestionsIInv
<1> QED BY <1>1, <1>2, <1>3, PTL DEF QuestionsSpec
=============================================================================
