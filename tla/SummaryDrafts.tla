----------------------------- MODULE SummaryDrafts -----------------------------
(***************************************************************************)
(* Paid explanation drafts of government documents.                        *)
(*                                                                         *)
(*   prepare_summary --> looks for the pointer file of the request         *)
(*   ReviewLedger    --> reserves the estimate in the month's budget       *)
(*   provider        --> one paid HTTP call, measured when it says so      *)
(*   ReviewLedger    --> replaces the reservation by the measured cost     *)
(*   prepare_summary --> writes the draft file, then the pointer file      *)
(*                                                                         *)
(* Runs of "collect --prepare-summary" share one sqlite ledger and one     *)
(* output directory.  They may overlap, and each can die between any two   *)
(* of its steps.  A document stands for one version of one original with   *)
(* the configuration that its cache key binds.  ReviewLedger.approve and   *)
(* record_cost are called by no command and are left out.                  *)
(***************************************************************************)
EXTENDS Integers, Sequences, FiniteSets

CONSTANTS Document,     \* documents with a body and permission to reuse it
          Preparer,     \* processes that run the command
          Budget,       \* ReviewLedger.monthly_budget
          Estimate,     \* what provider.estimate_krw reserves for a request
          Charge,       \* what the provider can charge for one call
          Month,        \* months in which documents are collected
          MaxRequests   \* bound on paid calls

ASSUME DraftAssumption ==
    /\ IsFiniteSet(Preparer)
    /\ Budget \in Nat
    /\ Estimate \in Nat
    /\ Charge \subseteq Nat
    /\ MaxRequests \in Nat

VARIABLES
    costs,      \* table costs: amount per month
    requests,   \* table provider_requests, in the order of their reservation
    billed,     \* what the provider charged for each request
    preparing,  \* per process: its step and what it has in hand
    drafts,     \* <<document, request>>: draft files that are complete
    pointers    \* <<document, request>>: pointer files; request 0: cut short

ledgerVars == <<costs, requests>>
fileVars == <<drafts, pointers>>
draftVars == <<ledgerVars, billed, preparing, fileVars>>

Unmeasured == -1
Torn == 0

Request == [month : Month, reserved : Nat, actual : Nat \cup {Unmeasured},
            status : {"reserved", "settled", "overrun"}]
Resting == [step |-> "idle"]
PreparerState ==
    {Resting} \cup
    [step : {"reserve"}, doc : Document, month : Month] \cup
    [step : {"call", "draft", "pointer"}, doc : Document, request : Nat \ {0}] \cup
    [step : {"settle"}, doc : Document, request : Nat \ {0}, cost : Nat]

DraftTypeOK ==
    /\ costs \in [Month -> Nat]
    /\ requests \in Seq(Request)
    /\ billed \in Seq(Nat)
    /\ preparing \in [Preparer -> PreparerState]
    /\ drafts \subseteq Document \X (Nat \ {0})
    /\ pointers \subseteq Document \X Nat

DraftInit ==
    /\ costs = [m \in Month |-> 0]
    /\ requests = <<>>
    /\ billed = <<>>
    /\ preparing = [p \in Preparer |-> Resting]
    /\ drafts = {}
    /\ pointers = {}

At(p, step) == preparing[p].step = step
Goes(p, state) == preparing' = [preparing EXCEPT ![p] = state]
Indexed(d) == \E q \in 0 .. Len(requests) : <<d, q>> \in pointers

(* The collection of the document dates the request; then no pointer file  *)
(* is found.  With a complete one the run returns that draft; a pointer    *)
(* that was cut short is an error.  Neither changes anything.              *)
LookUp(p, d, m) ==
    /\ At(p, "idle")
    /\ ~Indexed(d)
    /\ Goes(p, [step |-> "reserve", doc |-> d, month |-> m])
    /\ UNCHANGED <<ledgerVars, billed, fileVars>>

OverrunIn(m) == \E q \in 1 .. Len(requests) :
    requests[q].month = m /\ requests[q].status = "overrun"
Affordable(m) == costs[m] + Estimate <= Budget

(* Mutant: an overrun of the month no longer blocks reservations. *)
MayReserveOverrun(m) == Affordable(m)

MayReserve(m) == ~OverrunIn(m) /\ Affordable(m)

(* One BEGIN IMMEDIATE transaction: the month's amount and the request.    *)
Reserve(p) ==
    /\ At(p, "reserve")
    /\ Len(requests) < MaxRequests
    /\ LET m == preparing[p].month IN
         /\ MayReserve(m)
         /\ costs' = [costs EXCEPT ![m] = @ + Estimate]
         /\ requests' = Append(requests, [month |-> m, reserved |-> Estimate,
                                          actual |-> Unmeasured, status |-> "reserved"])
    /\ billed' = Append(billed, 0)
    /\ Goes(p, [step |-> "call", doc |-> preparing[p].doc, request |-> Len(requests) + 1])
    /\ UNCHANGED fileVars

(* The ledger raises: nothing is reserved and nothing is called. *)
ReserveRefused(p) ==
    /\ At(p, "reserve")
    /\ ~MayReserve(preparing[p].month)
    /\ Goes(p, Resting)
    /\ UNCHANGED <<ledgerVars, billed, fileVars>>

(* The call is answered with a draft, grounded or blocked, and its usage   *)
(* or not.  The usage is charged at the configured rates.                  *)
Answer(p) ==
    /\ At(p, "call")
    /\ LET d == preparing[p].doc
           q == preparing[p].request IN
         \E charge \in Charge :
           /\ billed' = [billed EXCEPT ![q] = charge]
           /\ \/ Goes(p, [step |-> "settle", doc |-> d, request |-> q, cost |-> charge])
              \/ Goes(p, [step |-> "draft", doc |-> d, request |-> q])
    /\ UNCHANGED <<ledgerVars, fileVars>>

(* Refused, redirected, too large, too late or malformed: the run ends and *)
(* the reservation stays, whether or not the call was charged.             *)
CallFails(p) ==
    /\ At(p, "call")
    /\ \/ UNCHANGED billed
       \/ \E charge \in Charge : billed' = [billed EXCEPT ![preparing[p].request] = charge]
    /\ Goes(p, Resting)
    /\ UNCHANGED <<ledgerVars, fileVars>>

SettledAmount(q, cost) == costs[requests[q].month] - requests[q].reserved + cost

IsOverrun(q, cost) == cost > requests[q].reserved \/ SettledAmount(q, cost) > Budget

(* The measured cost replaces the reservation; after an overrun the call   *)
(* raises, and the answer that was paid for is dropped.                    *)
Settle(p) ==
    /\ At(p, "settle")
    /\ LET q == preparing[p].request
           cost == preparing[p].cost
           over == IsOverrun(q, cost) IN
         /\ costs' = [costs EXCEPT ![requests[q].month] = SettledAmount(q, cost)]
         /\ requests' = [requests EXCEPT
              ![q] = [@ EXCEPT !.actual = cost,
                               !.status = IF over THEN "overrun" ELSE "settled"]]
         /\ Goes(p, IF over THEN Resting
                    ELSE [step |-> "draft", doc |-> preparing[p].doc, request |-> q])
    /\ UNCHANGED <<billed, fileVars>>

(* The draft file is named by its content, which holds the response's id. *)
WriteDraft(p) ==
    /\ At(p, "draft")
    /\ drafts' = drafts \cup {<<preparing[p].doc, preparing[p].request>>}
    /\ Goes(p, [preparing[p] EXCEPT !.step = "pointer"])
    /\ UNCHANGED <<ledgerVars, billed, pointers>>

(* Exclusive creation: the second of two overlapping runs fails here. *)
WritePointer(p) ==
    /\ At(p, "pointer")
    /\ pointers' = IF Indexed(preparing[p].doc) THEN pointers
                   ELSE pointers \cup {<<preparing[p].doc, preparing[p].request>>}
    /\ Goes(p, Resting)
    /\ UNCHANGED <<ledgerVars, billed, drafts>>

(* The process dies.  A pointer file it had just created stays, cut short. *)
Interrupted(p) ==
    /\ ~At(p, "idle")
    /\ \/ UNCHANGED pointers
       \/ /\ At(p, "pointer")
          /\ ~Indexed(preparing[p].doc)
          /\ pointers' = pointers \cup {<<preparing[p].doc, Torn>>}
    /\ Goes(p, Resting)
    /\ UNCHANGED <<ledgerVars, billed, drafts>>

PreparerStep(p) ==
    \/ \E d \in Document, m \in Month : LookUp(p, d, m)
    \/ Reserve(p) \/ ReserveRefused(p)
    \/ Answer(p) \/ CallFails(p)
    \/ Settle(p) \/ WriteDraft(p) \/ WritePointer(p)
    \/ Interrupted(p)

DraftNext == \E p \in Preparer : PreparerStep(p)
DraftSpec == DraftInit /\ [][DraftNext]_draftVars

-----------------------------------------------------------------------------
Of(m) == {q \in DOMAIN requests : requests[q].month = m}
Accounted == [q \in DOMAIN requests |->
    IF requests[q].actual = Unmeasured THEN requests[q].reserved ELSE requests[q].actual]
WithinEstimate == [q \in DOMAIN requests |->
    IF billed[q] < requests[q].reserved THEN billed[q] ELSE requests[q].reserved]

(* The sum of the amounts of some requests, by counting: an element for    *)
(* every won.                                                              *)
Won(amount, S) == UNION {{q} \X (1 .. amount[q]) : q \in S}
Total(amount, S) == Cardinality(Won(amount, S))

Overruns(m) == {q \in Of(m) : requests[q].status = "overrun"}
UnderWay(m) == {p \in Preparer :
    preparing[p].step \in {"call", "settle"} /\ preparing[p].request \in Of(m)}

(* The month's amount is always the measured cost of its settled requests  *)
(* and the reservation of every other one, whatever overlapped or died:    *)
(* the two tables are only changed together.                               *)
LedgerBalances == \A m \in Month : costs[m] = Total(Accounted, Of(m))

(* What is billed in a month, up to the estimate of each request, stays    *)
(* within the budget, the calls that failed after they were charged        *)
(* included: only a wrong estimate can spend more.                         *)
SpendWithinEstimates == \A m \in Month : Total(WithinEstimate, Of(m)) <= Budget

(* An overrun stops its month: beside it only calls that were under way    *)
(* when it was found can overrun, at most one for every other process.     *)
OverrunsBounded == \A m \in Month :
    Overruns(m) # {} => Cardinality(Overruns(m)) + Cardinality(UnderWay(m))
                          <= Cardinality(Preparer)

(* A pointer file that can be read names a draft that is complete, at      *)
(* every point at which a run can die: a retry returns it and never pays   *)
(* for it again.                                                           *)
PointerNamesDraft == \A x \in pointers : x[2] = Torn \/ x \in drafts

(* The state is well typed, and the ledger of storage.reserve and settle   *)
(* keeps a month's money: it balances, bounds what can be billed and lets  *)
(* no overrun lead to further requests.                                    *)
DraftInv == DraftTypeOK /\ PointerNamesDraft /\ LedgerBalances /\ SpendWithinEstimates /\ OverrunsBounded
=============================================================================
