------------------------------ MODULE RetryLadder ------------------------------
(***************************************************************************)
(* The retries of one logical piece of inference work.  A failed attempt   *)
(* is never changed: planning adds another attempt whose output contract   *)
(* is chosen from the work, the number of the attempt and what the last    *)
(* one failed with, and whose request is built from the last one's.        *)
(*                                                                         *)
(* A contract says how the answer will be decoded, a request carries the   *)
(* schema the service must answer in.  They are chosen by two functions,   *)
(* and a builder only understands the requests it was written for: given   *)
(* another it raises, and with it the planning of all work.                *)
(***************************************************************************)
EXTENDS Integers

CONSTANTS Task,      \* kinds of work that are tried
          MaxAttempt \* bound on the retries of one piece of work

Communal == {"community", "enrichment"}
Answers == {"answer", "old answer", "claims"}
Extracting == {"extract", "compact", "relation", "activity"}

ASSUME RetryLadderAssumption ==
    /\ Task \subseteq Communal \cup Answers \cup Extracting
    /\ MaxAttempt \in Nat

VARIABLES task,     \* what is asked of the model
          sourced,  \* has the request units of sources to quote from
          attempt,  \* context.retry_attempt
          contract, \* context.output_contract
          request,  \* the schema the stored request asks for
          progress, \* active, failed, completed, or raised: planning has raised
          failure   \* error and validation reason of the failed attempt

ladderVars == <<task, sourced, attempt, contract, request, progress, failure>>

(* The schema an answer must have for the contract's decoder. *)
Schema ==
    [output |-> "graph", short |-> "short", options |-> "options",
     complete |-> "complete", precise |-> "precise", assignment |-> "assignment",
     compact |-> "compact", directional |-> "directional", selection |-> "selection",
     answer |-> "answer", legacy |-> "legacy", claims |-> "claims",
     relation |-> "relation", activity |-> "activity"]

FirstContract ==
    [t \in Communal \cup Answers \cup Extracting |->
        IF t \in {"community", "extract"} THEN "output"
        ELSE IF t = "enrichment" THEN "selection"
        ELSE IF t = "old answer" THEN "legacy" ELSE t]

(* Errors of an attempt.  The context limit is retried for communities,    *)
(* the refusals ("refused") of no work are.                                *)
Failures(t) ==
    {"length", "invalid", "content", "remote", "refused"}
        \cup (IF t \in Communal THEN {"quote", "members", "context"} ELSE {})
Retried == {"length", "invalid", "content", "remote", "quote", "members", "context"}

-----------------------------------------------------------------------------
(* The choice of a contract: what failed decides, then how often. *)

ShortQuoteRetry(a) ==
    task = "community" /\ a = 1 /\ failure = "length"
QuoteOptionsRetry(a) ==
    /\ task = "community" /\ a = 2
    /\ contract = "short" /\ sourced
    /\ failure \in {"length", "quote"}
AssignmentRetry(a) ==
    /\ task = "community"
    /\ \/ a >= 6
       \/ failure = "context"
       \/ a >= 5 /\ failure = "members"
       \/ a >= 3 /\ contract = "options"

RetryContract(a) ==
    IF task = "enrichment" THEN "selection"
    ELSE IF ShortQuoteRetry(a) THEN "short"
    ELSE IF QuoteOptionsRetry(a) THEN "options"
    ELSE IF task \in Extracting \ {"relation"} /\ a >= 2 THEN "directional"
    ELSE IF AssignmentRetry(a) THEN "assignment"
    ELSE IF task = "community" /\ a >= 4 THEN "precise"
    ELSE IF task = "community" /\ a >= 2 THEN "complete"
    ELSE IF task \in Answers \ {"claims"} THEN "answer"
    ELSE contract

(* The builders, each defined on the requests it does not raise for. *)
Grouped == {"graph", "short", "options", "precise", "complete"}
CompleteCommunity == [r \in Grouped |-> "complete"]
ShortQuoteCommunity == [r \in {"graph", "complete"} |-> "short"]
QuoteOptionsCommunity == [r \in Grouped |-> "options"]
PreciseCommunity == [r \in Grouped |-> "precise"]
AssignmentCommunity == [r \in Grouped \cup {"assignment"} |-> "assignment"]
DirectionalExtraction == [r \in {"graph", "compact", "directional"} |-> "directional"]
AnswerSelector == [r \in {"answer", "legacy"} |-> "answer"]
SelectionRetry == [r \in {"claims"} |-> "claims"]
Copy == [r \in {Schema[c] : c \in DOMAIN Schema} |-> r]

(* As a mutant: without the constraint to fixed quotes, which the contract *)
(* chooser applies.                                                        *)
BuilderWithoutOptions(a) ==
    IF task \in {"enrichment", "relation"} THEN Copy
    ELSE IF ShortQuoteRetry(a) THEN ShortQuoteCommunity
    ELSE IF task \in Extracting /\ a >= 2 THEN DirectionalExtraction
    ELSE IF AssignmentRetry(a) THEN AssignmentCommunity
    ELSE IF task = "community" /\ a >= 4 THEN PreciseCommunity
    ELSE IF task = "community" /\ a >= 2 THEN CompleteCommunity
    ELSE IF task = "claims" THEN SelectionRetry
    ELSE IF task \in Answers THEN AnswerSelector
    ELSE Copy

Builder(a) ==
    IF task \in {"enrichment", "relation"} THEN Copy
    ELSE IF ShortQuoteRetry(a) THEN ShortQuoteCommunity
    ELSE IF QuoteOptionsRetry(a) THEN QuoteOptionsCommunity
    ELSE IF task \in Extracting /\ a >= 2 THEN DirectionalExtraction
    ELSE IF AssignmentRetry(a) THEN AssignmentCommunity
    ELSE IF task = "community" /\ a >= 4 THEN PreciseCommunity
    ELSE IF task = "community" /\ a >= 2 THEN CompleteCommunity
    ELSE IF task = "claims" THEN SelectionRetry
    ELSE IF task \in Answers THEN AnswerSelector
    ELSE Copy

-----------------------------------------------------------------------------
LadderInit ==
    /\ task \in Task
    /\ sourced \in BOOLEAN
    /\ attempt = 0
    /\ contract = FirstContract[task]
    /\ request = Schema[contract]
    /\ progress = "active"
    /\ failure = "none"

(* The answer is decoded as the contract says, or the attempt fails. *)
Decoded ==
    /\ progress = "active"
    /\ progress' = "completed"
    /\ UNCHANGED <<task, sourced, attempt, contract, request, failure>>

AttemptFails ==
    /\ progress = "active"
    /\ progress' = "failed"
    /\ failure' \in Failures(task)
    /\ UNCHANGED <<task, sourced, attempt, contract, request>>

(* plan_output_retries for the failed attempt. *)
PlanRetry ==
    /\ progress = "failed" /\ failure \in Retried
    /\ attempt < MaxAttempt
    /\ LET a == attempt + 1 IN
        IF request \in DOMAIN Builder(a)
        THEN /\ attempt' = a
             /\ contract' = RetryContract(a)
             /\ request' = Builder(a)[request]
             /\ progress' = "active" /\ failure' = "none"
             /\ UNCHANGED <<task, sourced>>
        ELSE /\ progress' = "raised"
             /\ UNCHANGED <<task, sourced, attempt, contract, request, failure>>

(* The worker has ended with the error; the service manager starts it again. *)
WorkerRestarted ==
    /\ progress = "raised"
    /\ progress' = "failed"
    /\ UNCHANGED <<task, sourced, attempt, contract, request, failure>>

(* A report with claims of doubtful quality is written again, from the     *)
(* request and with the context of the attempt that wrote it.              *)
RepairClaims ==
    /\ progress = "completed" /\ task = "community"
    /\ contract # "assignment"
    /\ progress' = "active"
    /\ UNCHANGED <<task, sourced, attempt, contract, request, failure>>

(* A report without claims is given those of its children, by new work. *)
Enrich ==
    /\ progress = "completed" /\ task = "community"
    /\ task' = "enrichment" /\ contract' = FirstContract["enrichment"]
    /\ request' = Schema["selection"]
    /\ attempt' = 0 /\ progress' = "active" /\ failure' = "none"
    /\ UNCHANGED sourced

LadderNext == Decoded \/ AttemptFails \/ PlanRetry \/ WorkerRestarted \/ RepairClaims \/ Enrich

LadderSpec == LadderInit /\ [][LadderNext]_ladderVars

-----------------------------------------------------------------------------
(* The stored request asks for the schema which the declared contract will *)
(* decode, whatever the attempts failed with; and planning raises for no   *)
(* work but the two kinds of the next property.                            *)
LadderInv ==
    /\ request = Schema[contract]
    /\ progress = "raised" => task = "activity" \/ request = "assignment"

(* "Schedule eligible failed logical work": planning never raises.  It     *)
(* does for the second retry of an activity check, whose request is no     *)
(* extraction, and when the attempt after an assignment is of an earlier   *)
(* rung again.                                                             *)
EligibleWorkScheduled == progress # "raised"
=============================================================================
