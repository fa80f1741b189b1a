------------------------------- MODULE Publication -------------------------------
(***************************************************************************)
(* Review and publication of activities, and the feed that shows them.     *)
(*                                                                         *)
(*   importDraft             --> a version of an event waits for review     *)
(*   KnowledgeRepository     --> a batch brings several versions, bound to  *)
(*                               it by a context, and is reviewed whole     *)
(*   publish, reject         --> one version at a time, unless a batch      *)
(*                               binds it; explanations have a daily budget *)
(*   feed                    --> the latest published versions, page by     *)
(*                               page, newest review first                  *)
(*                                                                         *)
(* Every write is one transaction that holds the rows of its batch and its *)
(* events, so it is one step here.  A version id stands for its facts: the *)
(* backend derives those of a batch from them.  The tables of documents,   *)
(* extractions and evidence are written first-wins and are left out.       *)
(***************************************************************************)
EXTENDS Integers, FiniteSets

CONSTANTS Events,       \* number of events; their ids are ordered
          Fact,         \* what a version can say
          Derived,      \* facts that come in batches
          Explained,    \* facts with a summary, which uses up the review budget
          Batch,
          ReviewLimit,  \* explanations per day; 3 in the code
          LastDay, LastTime     \* bounds on the clocks

ASSUME PublicationAssumption ==
    /\ Events \in Nat
    /\ IsFiniteSet(Fact) /\ Derived \subseteq Fact /\ Explained \subseteq Fact
    /\ ReviewLimit \in Nat /\ LastDay \in Nat \ {0} /\ LastTime \in Nat \ {0}
    /\ "unbound" \notin Batch

VARIABLES
    reviewState,    \* per version: "none" before its import
    boundTo,        \* per version: the batch of its knowledge_context
    reviewedAt, reviewDay, corrected,   \* per version, when published
    latestVersion,  \* per event: tracking_event.latest_version
    batchState, batchContent,
    reviewCount,    \* per day: tracking_review_budget
    today, clock,
    reader          \* a client that pages through the feed

versionVars == <<reviewState, boundTo>>
reviewVars == <<reviewedAt, reviewDay, corrected, latestVersion, reviewCount>>
batchVars == <<batchState, batchContent>>
publicationVars == <<versionVars, reviewVars, batchVars, today, clock, reader>>

Event == 1 .. Events
EventVersion == Event \X Fact
Unbound == "unbound"
NoVersion == <<0, "none">>
Top == <<LastTime + 1, 0>>

(* A batch has one version of each of its events. *)
Contents == {S \in SUBSET (Event \X Derived) :
    S # {} /\ \A v, w \in S : v[1] = w[1] => v = w}

PublicationTypeOK ==
    /\ reviewState \in [EventVersion -> {"none", "draft", "published", "rejected"}]
    /\ boundTo \in [EventVersion -> Batch \cup {Unbound}]
    /\ reviewedAt \in [EventVersion -> 0 .. LastTime]
    /\ reviewDay \in [EventVersion -> 0 .. LastDay]
    /\ corrected \in [EventVersion -> BOOLEAN]
    /\ latestVersion \in [Event -> EventVersion \cup {NoVersion}]
    /\ batchState \in [Batch -> {"none", "draft", "published", "rejected"}]
    /\ batchContent \in [Batch -> SUBSET (Event \X Derived)]
    /\ reviewCount \in [1 .. LastDay -> 0 .. ReviewLimit]
    /\ today \in 1 .. LastDay /\ clock \in 1 .. LastTime
    /\ reader \in [step : {"off", "reading", "done"}, cursor : (0 .. LastTime + 1) \X (0 .. Events),
                   before : SUBSET EventVersion, seen : SUBSET EventVersion]

PublicationInit ==
    /\ reviewState = [v \in EventVersion |-> "none"]
    /\ boundTo = [v \in EventVersion |-> Unbound]
    /\ reviewedAt = [v \in EventVersion |-> 0]
    /\ reviewDay = [v \in EventVersion |-> 0]
    /\ corrected = [v \in EventVersion |-> FALSE]
    /\ latestVersion = [e \in Event |-> NoVersion]
    /\ batchState = [b \in Batch |-> "none"]
    /\ batchContent = [b \in Batch |-> {}]
    /\ reviewCount = [d \in 1 .. LastDay |-> 0]
    /\ today = 1 /\ clock = 1
    /\ reader = [step |-> "off", cursor |-> Top, before |-> {}, seen |-> {}]

NextDay ==
    /\ today < LastDay
    /\ today' = today + 1
    /\ UNCHANGED <<versionVars, reviewVars, batchVars, clock, reader>>

ClockTicks ==
    /\ clock < LastTime
    /\ clock' = clock + 1
    /\ UNCHANGED <<versionVars, reviewVars, batchVars, today, reader>>

-----------------------------------------------------------------------------
(* Import.  A version that exists must have the same payload, the time of  *)
(* its collection included: another one is refused, with its whole batch.  *)

ImportDraft(v) ==
    /\ v[2] \notin Derived
    /\ reviewState[v] = "none"
    /\ reviewState' = [reviewState EXCEPT ![v] = "draft"]
    /\ UNCHANGED <<boundTo, reviewVars, batchVars, today, clock, reader>>

(* Mutant: the context of a version follows its last import. *)
BoundAnew(v, b) == b
(* The context of the batch that brought a version first stays. *)
Bound(v, b) == IF boundTo[v] = Unbound THEN b ELSE boundTo[v]

ImportBatch(b, S) ==
    /\ batchState[b] = "none"
    /\ batchState' = [batchState EXCEPT ![b] = "draft"]
    /\ batchContent' = [batchContent EXCEPT ![b] = S]
    /\ reviewState' = [v \in EventVersion |-> IF v \in S /\ reviewState[v] = "none" THEN "draft" ELSE reviewState[v]]
    /\ boundTo' = [v \in EventVersion |-> IF v \in S THEN Bound(v, b) ELSE boundTo[v]]
    /\ UNCHANGED <<reviewVars, today, clock, reader>>

-----------------------------------------------------------------------------
(* Review.                                                                 *)

Drafts(S) == {v \in S : reviewState[v] = "draft"}

(* The time of a review: taken while the event's row is locked, then the   *)
(* transaction may wait for the budget's row.                              *)
Stamps(v) == {t \in {clock - 1, clock} \ {0} :
    latestVersion[v[1]] = NoVersion \/ t > reviewedAt[latestVersion[v[1]]]}

Costs(S) == Cardinality({v \in Drafts(S) : v[2] \in Explained})
WithinBudget(S) == reviewCount[today] + Costs(S) <= ReviewLimit

Corrects(v) == latestVersion[v[1]] \notin {NoVersion, v}

(* The drafts of S are published; versions that were published before are  *)
(* replays.  A correction needs a reason, which the reviewer gives.        *)
PublishAll(S) ==
    /\ \A v \in S : reviewState[v] \in {"draft", "published"}
    /\ WithinBudget(S)
    /\ \E at \in [Drafts(S) -> 1 .. LastTime] :
         /\ \A v \in Drafts(S) : at[v] \in Stamps(v)
         /\ reviewedAt' = [v \in EventVersion |->
                              IF v \in Drafts(S) THEN at[v] ELSE reviewedAt[v]]
    /\ reviewState' = [v \in EventVersion |-> IF v \in S THEN "published" ELSE reviewState[v]]
    /\ reviewDay' = [v \in EventVersion |-> IF v \in Drafts(S) THEN today ELSE reviewDay[v]]
    /\ corrected' = [v \in EventVersion |->
                        IF v \in Drafts(S) THEN Corrects(v) ELSE corrected[v]]
    /\ latestVersion' = [e \in Event |->
                            IF \E v \in Drafts(S) : v[1] = e
                            THEN CHOOSE v \in Drafts(S) : v[1] = e ELSE latestVersion[e]]
    /\ reviewCount' = [reviewCount EXCEPT ![today] = @ + Costs(S)]
    /\ UNCHANGED <<boundTo, today, clock, reader>>

RejectAll(S) ==
    /\ \A v \in S : reviewState[v] = "draft"
    /\ reviewState' = [v \in EventVersion |-> IF v \in S THEN "rejected" ELSE reviewState[v]]
    /\ UNCHANGED <<boundTo, reviewVars, today, clock, reader>>

(* "knowledge batch review required" *)
Reviewable(v) == boundTo[v] = Unbound

Publish(v) ==
    /\ reviewState[v] = "draft"
    /\ Reviewable(v)
    /\ PublishAll({v})
    /\ UNCHANGED batchVars

Reject(v) ==
    /\ Reviewable(v)
    /\ RejectAll({v})
    /\ UNCHANGED batchVars

(* "knowledge batch context mismatch" otherwise *)
Owned(b) == \A v \in batchContent[b] : boundTo[v] = b
Decide(b, decision) ==
    /\ batchState' = [batchState EXCEPT ![b] = decision]
    /\ UNCHANGED batchContent

(* Validation or the registration of its people can refuse a publication,  *)
(* which then leaves no trace.                                             *)
PublishBatch(b) ==
    /\ batchState[b] = "draft"
    /\ Owned(b)
    /\ PublishAll(batchContent[b])
    /\ Decide(b, "published")

RejectBatch(b) ==
    /\ batchState[b] = "draft"
    /\ Owned(b)
    /\ RejectAll(batchContent[b])
    /\ Decide(b, "rejected")

-----------------------------------------------------------------------------
(* The feed, with one activity per page.                                   *)

Gate(v) == boundTo[v] = Unbound \/ batchState[boundTo[v]] = "published"
Shown == {v \in EventVersion :
    latestVersion[v[1]] = v /\ reviewState[v] = "published" /\ Gate(v)}

Position(v) == <<reviewedAt[v], v[1]>>
(* Mutant: activities that were reviewed at one time are on one page. *)
BelowTime(p, q) == p[1] < q[1]
Below(p, q) == p[1] < q[1] \/ (p[1] = q[1] /\ p[2] < q[2])
Rest(cursor) == {v \in Shown : Below(Position(v), cursor)}
Newest(cursor) == CHOOSE w \in Rest(cursor) : \A x \in Rest(cursor) : ~Below(Position(w), Position(x))

StartReading ==
    /\ reader.step = "off"
    /\ reader' = [step |-> "reading", cursor |-> Top, before |-> Shown, seen |-> {}]
    /\ UNCHANGED <<versionVars, reviewVars, batchVars, today, clock>>

ReadPage ==
    /\ reader.step = "reading"
    /\ IF Rest(reader.cursor) = {}
       THEN reader' = [reader EXCEPT !.step = "done"]
       ELSE reader' = [step |-> IF Rest(reader.cursor) = {Newest(reader.cursor)} THEN "done" ELSE "reading",
                       cursor |-> Position(Newest(reader.cursor)),
                       before |-> reader.before,
                       seen |-> reader.seen \cup {Newest(reader.cursor)}]
    /\ UNCHANGED <<versionVars, reviewVars, batchVars, today, clock>>

PublicationNext ==
    \/ \E v \in EventVersion : ImportDraft(v) \/ Publish(v) \/ Reject(v)
    \/ \E b \in Batch :
         \/ PublishBatch(b) \/ RejectBatch(b)
         \/ \E S \in Contents : ImportBatch(b, S)
    \/ NextDay \/ ClockTicks
    \/ StartReading \/ ReadPage

PublicationSpec == PublicationInit /\ [][PublicationNext]_publicationVars

-----------------------------------------------------------------------------
(* The versions that a batch binds share its decision: no path reviews one *)
(* of them alone, and no two batches decide about the same version.        *)
BatchWhole == \A v \in EventVersion :
    boundTo[v] # Unbound => /\ v \in batchContent[boundTo[v]]
                            /\ reviewState[v] = batchState[boundTo[v]]

(* Explanations published on a day stay within its budget, whether they    *)
(* were reviewed one by one or in batches, and refused reviews use none.   *)
Explanations(d) == {v \in EventVersion :
    reviewState[v] = "published" /\ v[2] \in Explained /\ reviewDay[v] = d}
BudgetExact == \A d \in 1 .. LastDay :
    reviewCount[d] = Cardinality(Explanations(d)) /\ reviewCount[d] <= ReviewLimit

(* An event shows the version that was reviewed last, and exactly the      *)
(* version that was reviewed first is not marked as a correction.          *)
CorrectionsVisible == \A v \in EventVersion : reviewState[v] = "published" =>
    LET before == {w \in EventVersion : /\ w[1] = v[1] /\ reviewState[w] = "published"
                                        /\ reviewedAt[w] < reviewedAt[v]} IN
      /\ corrected[v] <=> before # {}
      /\ reviewedAt[latestVersion[v[1]]] >= reviewedAt[v]

(* A client that follows the cursor to the end has seen every activity     *)
(* that was shown when it began and was not corrected since.               *)
PassMissesNothing == reader.step = "done" =>
    \A v \in reader.before : latestVersion[v[1]] = v => v \in reader.seen

(* It sees no event twice, although corrections move events to the top.    *)
PassRepeatsNothing == \A v, w \in reader.seen : v[1] = w[1] => v = w

(* Following the cursor to its end misses nothing and repeats nothing.     *)
PassExact == PassMissesNothing /\ PassRepeatsNothing

(* Batches are decided as a whole, the daily budget counts what was        *)
(* published, and corrections are visible.                                 *)
ReviewsExact == PublicationTypeOK /\ CorrectionsVisible /\ BatchWhole /\ BudgetExact

(* What reviewers decide and what a client reads agree with one another.   *)
PublicationInv == ReviewsExact /\ PassExact
=============================================================================
