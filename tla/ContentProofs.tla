---------------------------- MODULE ContentProofs ----------------------------
(***************************************************************************)
(* Proofs about Publication: what reviews, batches and budgets promise, and *)
(* that a pass through the feed is exact, for any number of events, facts,  *)
(* batches, days and clock ticks.                                           *)
(*                                                                         *)
(* The invariant adds to ReviewsExact what its parts lean on: a batch has *)
(* one version of each of its events, a derived version has no state before *)
(* a batch binds it, the latest version of an event is a published one, and *)
(* everything that a reader still has to see lies below its cursor.         *)
(*                                                                         *)
(* And about KnowledgePilot: rows, originals, copies, reports and batches of *)
(* a job that is run again agree, for any number of jobs, processes and     *)
(* documents.  The two modules share no state.                              *)
(***************************************************************************)
EXTENDS Publication, KnowledgePilot, FiniteSetTheorems, TLAPS

Published(v) == reviewState[v] = "published"

(* A batch that does not exist is empty, and every batch has at most one    *)
(* version of an event.                                                     *)
BatchesOneEach == \A b \in Batch :
    /\ batchState[b] = "none" => batchContent[b] = {}
    /\ \A v, w \in batchContent[b] : v[1] = w[1] => v = w

(* Derived versions are known only through the batch that binds them.       *)
DerivedBound == \A v \in EventVersion :
    v[2] \in Derived /\ boundTo[v] = Unbound => reviewState[v] = "none"

(* The latest version is a published version of its event, an event with a  *)
(* published version has one, and it was reviewed no earlier than any other. *)
LatestPublished ==
    /\ \A e \in Event : latestVersion[e] # NoVersion =>
         latestVersion[e][1] = e /\ Published(latestVersion[e])
    /\ \A v \in EventVersion : Published(v) =>
         /\ latestVersion[v[1]] # NoVersion
         /\ reviewedAt[latestVersion[v[1]]] >= reviewedAt[v]

(* A version is marked as a correction when an older review of the event    *)
(* was published.                                                           *)
MarkedCorrections == \A v \in EventVersion : Published(v) =>
    (corrected[v] <=> \E w \in EventVersion :
        w[1] = v[1] /\ Published(w) /\ reviewedAt[w] < reviewedAt[v])

(* What a reader has seen lies at its cursor or above, and what it must     *)
(* still see is shown below its cursor.                                     *)
ReaderOnTrack ==
    /\ \A v \in reader.seen : Published(v) /\ ~Below(Position(v), reader.cursor)
    /\ \A v \in reader.before : Published(v) /\ Gate(v)
    /\ \A v \in reader.before : latestVersion[v[1]] = v =>
         v \in reader.seen \/ (reader.step = "reading" /\ Below(Position(v), reader.cursor))

PublicationIInv ==
    /\ PublicationTypeOK /\ BatchWhole /\ BatchesOneEach /\ DerivedBound
    /\ BudgetExact /\ LatestPublished /\ MarkedCorrections
    /\ ReaderOnTrack /\ PassRepeatsNothing
-----------------------------------------------------------------------------
(* The operators of the model.                                             *)

LEMMA VersionFacts ==
    /\ \A v \in EventVersion : v[1] \in Event
    /\ NoVersion \notin EventVersion
BY PublicationAssumption DEF EventVersion, Event, NoVersion

LEMMA VersionsFinite == IsFiniteSet(EventVersion)
<1>1. IsFiniteSet(Event)
  BY PublicationAssumption, FS_Interval DEF Event
<1> QED BY <1>1, PublicationAssumption, FS_Product DEF EventVersion

LEMMA BatchVersions ==
    ASSUME PublicationTypeOK, NEW b \in Batch
    PROVE  batchContent[b] \subseteq EventVersion
<1>1. batchContent[b] \in SUBSET (Event \X Derived)
  BY DEF PublicationTypeOK
<1> QED BY <1>1, PublicationAssumption DEF EventVersion

(* The drafts of a review are counted once against the budget of its day.  *)
LEMMA CostsCounted ==
    ASSUME NEW S \in SUBSET EventVersion
    PROVE  /\ IsFiniteSet({v \in Drafts(S) : v[2] \in Explained})
           /\ Costs(S) \in Nat
<1>1. {v \in Drafts(S) : v[2] \in Explained} \subseteq EventVersion
  BY DEF Drafts
<1> QED BY <1>1, VersionsFinite, FS_Subset, FS_CardinalityType DEF Costs

-----------------------------------------------------------------------------
(* Steps that publish nothing.                                             *)

LEMMA QuietReviews ==
    ASSUME PublicationIInv, UNCHANGED reviewVars,
           \A v \in EventVersion : reviewState'[v] = "published" <=> reviewState[v] = "published"
    PROVE  BudgetExact' /\ LatestPublished' /\ MarkedCorrections'
<1> USE DEF PublicationIInv
<1>0. /\ reviewedAt' = reviewedAt /\ reviewDay' = reviewDay /\ corrected' = corrected
      /\ latestVersion' = latestVersion /\ reviewCount' = reviewCount
  BY DEF reviewVars
<1>1. \A d : Explanations(d)' = Explanations(d)
  BY <1>0 DEF Explanations
<1>2. BudgetExact'
  BY <1>0, <1>1 DEF BudgetExact
<1>3. LatestPublished'
  <2>1. \A e \in Event : latestVersion[e] # NoVersion => latestVersion[e] \in EventVersion
    BY DEF PublicationTypeOK
  <2> QED BY <1>0, <2>1 DEF LatestPublished, Published
<1>4. MarkedCorrections'
  BY <1>0 DEF MarkedCorrections, Published
<1> QED BY <1>2, <1>3, <1>4

(* What is published stays published and keeps its place; a batch that is   *)
(* published stays so; an event changes its latest version only to one that *)
(* was not published.  Then readers lose nothing.                           *)
LEMMA ReaderUndisturbed ==
    ASSUME PublicationIInv, reader' = reader,
           \A v \in EventVersion : Published(v) =>
               reviewState'[v] = "published" /\ reviewedAt'[v] = reviewedAt[v] /\ boundTo'[v] = boundTo[v],
           \A b \in Batch : batchState[b] = "published" => batchState'[b] = "published",
           \A e \in Event : latestVersion'[e] = latestVersion[e] \/ ~Published(latestVersion'[e])
    PROVE  ReaderOnTrack' /\ PassRepeatsNothing'
<1> USE DEF PublicationIInv
<1>0. /\ reader.seen \subseteq EventVersion /\ reader.before \subseteq EventVersion
      /\ \A v \in EventVersion : boundTo[v] \in Batch \cup {Unbound}
  BY DEF PublicationTypeOK
<1>1. PassRepeatsNothing'
  BY DEF PassRepeatsNothing
<1>2. \A v \in reader.seen : reviewState'[v] = "published" /\ ~Below(<<reviewedAt'[v], v[1]>>, reader.cursor)
  BY <1>0 DEF ReaderOnTrack, Position
<1>3. \A v \in reader.before : reviewState'[v] = "published" /\ (boundTo'[v] = Unbound \/ batchState'[boundTo'[v]] = "published")
  BY <1>0 DEF ReaderOnTrack, Gate
<1>4. ASSUME NEW v \in reader.before, latestVersion'[v[1]] = v
      PROVE  v \in reader.seen \/ (reader.step = "reading" /\ Below(<<reviewedAt'[v], v[1]>>, reader.cursor))
  <2>1. v \in EventVersion /\ Published(v)
    BY <1>0 DEF ReaderOnTrack
  <2>2. latestVersion[v[1]] = v
    BY <2>1, <1>4, VersionFacts
  <2> QED BY <2>1, <2>2 DEF ReaderOnTrack, Position
<1>5. ReaderOnTrack'
  BY <1>2, <1>3, <1>4 DEF ReaderOnTrack, Position, Published, Gate, Below
<1> QED BY <1>1, <1>5
-----------------------------------------------------------------------------
(* The drafts of S are published, at most one of each event.                *)

LEMMA PublishedAfter ==
    ASSUME PublicationIInv, NEW S \in SUBSET EventVersion, PublishAll(S)
    PROVE  /\ \A v \in EventVersion : reviewState'[v] = "published" <=> Published(v) \/ v \in Drafts(S)
           /\ \A v \in Drafts(S) : v \in EventVersion /\ reviewState[v] = "draft" /\ ~Published(v)
BY DEF PublishAll, Drafts, Published

LEMMA PublishAllTimes ==
    ASSUME PublicationIInv, NEW S \in SUBSET EventVersion, PublishAll(S)
    PROVE  /\ \A v \in EventVersion \ Drafts(S) : reviewedAt'[v] = reviewedAt[v]
           /\ \A v \in Drafts(S) : /\ reviewedAt'[v] \in 1 .. LastTime
                                   /\ latestVersion[v[1]] = NoVersion
                                      \/ reviewedAt'[v] > reviewedAt[latestVersion[v[1]]]
           /\ reviewedAt' \in [EventVersion -> 0 .. LastTime]
<1>1. PICK at \in [Drafts(S) -> 1 .. LastTime] :
          /\ \A v \in Drafts(S) : at[v] \in Stamps(v)
          /\ reviewedAt' = [v \in EventVersion |-> IF v \in Drafts(S) THEN at[v] ELSE reviewedAt[v]]
  BY DEF PublishAll
<1>2. Drafts(S) \subseteq EventVersion
  BY DEF Drafts
<1>3. reviewedAt \in [EventVersion -> 0 .. LastTime]
  BY DEF PublicationIInv, PublicationTypeOK
<1>4. \A v \in Drafts(S) : latestVersion[v[1]] = NoVersion \/ at[v] > reviewedAt[latestVersion[v[1]]]
  BY <1>1 DEF Stamps
<1>5. \A v \in Drafts(S) : reviewedAt'[v] = at[v] /\ at[v] \in 1 .. LastTime
  BY <1>1, <1>2
<1>6. reviewedAt' \in [EventVersion -> 0 .. LastTime]
  BY <1>1, <1>3, PublicationAssumption
<1> QED BY <1>1, <1>4, <1>5, <1>6

LEMMA PublishAllLatest ==
    ASSUME PublicationIInv, NEW S \in SUBSET EventVersion, PublishAll(S),
           \A v, w \in S : v[1] = w[1] => v = w
    PROVE  /\ \A v \in Drafts(S) : latestVersion'[v[1]] = v
           /\ \A e \in Event : (\A v \in Drafts(S) : v[1] # e) => latestVersion'[e] = latestVersion[e]
           /\ latestVersion' \in [Event -> EventVersion \cup {NoVersion}]
<1>1. latestVersion' = [e \in Event |->
          IF \E v \in Drafts(S) : v[1] = e THEN CHOOSE v \in Drafts(S) : v[1] = e ELSE latestVersion[e]]
  BY DEF PublishAll
<1>2. Drafts(S) \subseteq S
  BY DEF Drafts
<1>3. latestVersion \in [Event -> EventVersion \cup {NoVersion}]
  BY DEF PublicationIInv, PublicationTypeOK
<1>4. ASSUME NEW v \in Drafts(S) PROVE latestVersion'[v[1]] = v
  <2>1. v[1] \in Event
    BY <1>2, VersionFacts
  <2>2. (CHOOSE w \in Drafts(S) : w[1] = v[1]) = v
    BY <1>2
  <2> QED BY <1>1, <2>1, <2>2
<1>5. ASSUME NEW e \in Event, \A v \in Drafts(S) : v[1] # e
      PROVE  latestVersion'[e] = latestVersion[e]
  BY <1>1, <1>5
<1>6. \A e \in Event : latestVersion'[e] \in EventVersion \cup {NoVersion}
  BY <1>2, <1>3, <1>4, <1>5
<1>7. latestVersion' \in [Event -> EventVersion \cup {NoVersion}]
  BY <1>1, <1>6
<1> QED BY <1>4, <1>5, <1>7

LEMMA PublishAllTyped ==
    ASSUME PublicationIInv, NEW S \in SUBSET EventVersion, PublishAll(S)
    PROVE  /\ reviewState' \in [EventVersion -> {"none", "draft", "published", "rejected"}]
           /\ reviewDay' \in [EventVersion -> 0 .. LastDay]
           /\ corrected' \in [EventVersion -> BOOLEAN]
           /\ reviewCount' \in [1 .. LastDay -> 0 .. ReviewLimit]
<1> USE DEF PublicationIInv, PublicationTypeOK
<1>1. reviewState' \in [EventVersion -> {"none", "draft", "published", "rejected"}]
  BY DEF PublishAll
<1>2. reviewDay' \in [EventVersion -> 0 .. LastDay]
  BY PublicationAssumption DEF PublishAll
<1>3. corrected' \in [EventVersion -> BOOLEAN]
  <2>1. \A v \in EventVersion : Corrects(v) \in BOOLEAN
    BY Zenon DEF Corrects
  <2>2. corrected' = [v \in EventVersion |-> IF v \in Drafts(S) THEN Corrects(v) ELSE corrected[v]]
    BY DEF PublishAll
  <2> QED BY <2>1, <2>2, Zenon
<1>4. reviewCount' \in [1 .. LastDay -> 0 .. ReviewLimit]
  <2>1. /\ reviewCount' = [reviewCount EXCEPT ![today] = reviewCount[today] + Costs(S)]
        /\ reviewCount[today] + Costs(S) <= ReviewLimit
    BY DEF PublishAll, WithinBudget
  <2>2. reviewCount[today] \in 0 .. ReviewLimit /\ Costs(S) \in Nat
    BY CostsCounted
  <2>3. reviewCount[today] + Costs(S) \in 0 .. ReviewLimit
    BY <2>1, <2>2, PublicationAssumption
  <2> QED BY <2>1, <2>3
<1> QED BY <1>1, <1>2, <1>3, <1>4

LEMMA PublishAllBudget ==
    ASSUME PublicationIInv, NEW S \in SUBSET EventVersion, PublishAll(S)
    PROVE  BudgetExact'
<1> USE DEF PublicationIInv
<1> DEFINE New == {v \in Drafts(S) : v[2] \in Explained}
<1>1. /\ \A d \in 1 .. LastDay : reviewCount[d] = Cardinality(Explanations(d)) /\ reviewCount[d] \in 0 .. ReviewLimit
      /\ today \in 1 .. LastDay
  BY DEF BudgetExact, PublicationTypeOK
<1>2. /\ reviewCount' = [reviewCount EXCEPT ![today] = @ + Costs(S)]
      /\ reviewCount[today] + Costs(S) <= ReviewLimit
      /\ DOMAIN reviewCount = 1 .. LastDay
  BY DEF PublishAll, WithinBudget, PublicationTypeOK
<1>3. \A v \in EventVersion : reviewDay'[v] = IF v \in Drafts(S) THEN today ELSE reviewDay[v]
  BY DEF PublishAll
<1>4. Explanations(today)' = Explanations(today) \cup New
  BY <1>3, PublishedAfter DEF Explanations, Published, PublishAll
<1>5. \A d \in 1 .. LastDay : d # today => Explanations(d)' = Explanations(d)
  BY <1>3, PublishedAfter DEF Explanations, Published
<1>6. Explanations(today) \cap New = {}
  BY PublishedAfter DEF Explanations, Published
<1>7. Cardinality(Explanations(today) \cup New) = Cardinality(Explanations(today)) + Cardinality(New)
  <2>1. IsFiniteSet(Explanations(today)) /\ IsFiniteSet(New)
    <3>1. Explanations(today) \subseteq EventVersion
      BY DEF Explanations
    <3> QED BY <3>1, VersionsFinite, FS_Subset, CostsCounted
  <2>2. Cardinality(Explanations(today)) \in Nat /\ Cardinality(New) \in Nat
    BY <2>1, FS_CardinalityType
  <2>3. Cardinality(Explanations(today) \cap New) = 0
    BY <1>6, FS_EmptySet
  <2> HIDE DEF New
  <2>4. Cardinality(Explanations(today) \cup New) =
            Cardinality(Explanations(today)) + Cardinality(New) - Cardinality(Explanations(today) \cap New)
    BY <2>1, FS_Union
  <2> QED BY <2>2, <2>3, <2>4
<1>8. Costs(S) = Cardinality(New) /\ Costs(S) \in Nat
  BY CostsCounted DEF Costs
<1>9. \A d \in 1 .. LastDay : reviewCount'[d] = Cardinality(Explanations(d)') /\ reviewCount'[d] <= ReviewLimit
  <2> HIDE DEF New
  <2>0. today' = today
    BY DEF PublishAll
  <2>1. \A d \in 1 .. LastDay : d = today =>
            reviewCount'[d] = Cardinality(Explanations(d)') /\ reviewCount'[d] <= ReviewLimit
    BY <1>1, <1>2, <1>4, <1>7, <1>8, <2>0
  <2>2. \A d \in 1 .. LastDay : d # today =>
            reviewCount'[d] = Cardinality(Explanations(d)') /\ reviewCount'[d] <= ReviewLimit
    BY <1>1, <1>2, <1>5
  <2> QED BY <2>1, <2>2
<1> QED BY <1>9 DEF BudgetExact, Explanations

LEMMA PublishAllReviews ==
    ASSUME PublicationIInv, NEW S \in SUBSET EventVersion, PublishAll(S),
           \A v, w \in S : v[1] = w[1] => v = w
    PROVE  LatestPublished' /\ MarkedCorrections'
<1> USE DEF PublicationIInv
<1>1. /\ reviewedAt \in [EventVersion -> 0 .. LastTime]
      /\ \A e \in Event : latestVersion[e] # NoVersion => latestVersion[e] \in EventVersion
  BY DEF PublicationTypeOK
<1>2. \A v \in Drafts(S), w \in EventVersion : v[1] = w[1] /\ Published(w) => reviewedAt[w] < reviewedAt'[v]
  BY <1>1, PublishAllTimes, VersionFacts DEF LatestPublished
<1>3. \A v, w \in Drafts(S) : v[1] = w[1] => v = w
  BY DEF Drafts
<1>4. LatestPublished'
  <2>1. ASSUME NEW e \in Event, latestVersion'[e] # NoVersion
        PROVE  latestVersion'[e][1] = e /\ reviewState'[latestVersion'[e]] = "published"
    BY <1>1, <2>1, PublishAllLatest, PublishedAfter DEF LatestPublished
  <2>2. ASSUME NEW v \in EventVersion, reviewState'[v] = "published"
        PROVE  /\ latestVersion'[v[1]] # NoVersion
               /\ reviewedAt'[latestVersion'[v[1]]] >= reviewedAt'[v]
    <3>1. CASE \E w \in Drafts(S) : w[1] = v[1]
      <4>1. PICK w \in Drafts(S) : w[1] = v[1]
        BY <3>1
      <4>2. latestVersion'[v[1]] = w /\ w # NoVersion
        BY <4>1, PublishAllLatest, PublishedAfter, VersionFacts
      <4>3. w = v \/ (Published(v) /\ v \notin Drafts(S))
        BY <4>1, <1>3, <2>2, PublishedAfter
      <4>4. reviewedAt'[w] >= reviewedAt'[v]
        BY <4>1, <4>3, <1>1, <1>2, PublishAllTimes
      <4> QED BY <4>2, <4>4
    <3>2. CASE \A w \in Drafts(S) : w[1] # v[1]
      <4>1. Published(v) /\ v \notin Drafts(S) /\ latestVersion'[v[1]] = latestVersion[v[1]]
        BY <3>2, <2>2, PublishedAfter, PublishAllLatest, VersionFacts
      <4>2. /\ latestVersion[v[1]] # NoVersion
            /\ latestVersion[v[1]] \in EventVersion \ Drafts(S)
            /\ reviewedAt[latestVersion[v[1]]] >= reviewedAt[v]
        BY <4>1, <1>1, VersionFacts, PublishedAfter DEF LatestPublished
      <4> QED BY <4>1, <4>2, PublishAllTimes
    <3> QED BY <3>1, <3>2
  <2> QED BY <2>1, <2>2 DEF LatestPublished, Published
<1>5. MarkedCorrections'
  <2>1. \A v \in EventVersion : corrected'[v] = IF v \in Drafts(S) THEN Corrects(v) ELSE corrected[v]
    BY DEF PublishAll
  <2>2. ASSUME NEW v \in EventVersion, v \in Drafts(S)
        PROVE  corrected'[v] <=> \E w \in EventVersion :
                   w[1] = v[1] /\ reviewState'[w] = "published" /\ reviewedAt'[w] < reviewedAt'[v]
    <3>1. corrected'[v] <=> latestVersion[v[1]] # NoVersion
      <4>1. latestVersion[v[1]] # v
        BY <2>2, VersionFacts, PublishedAfter DEF LatestPublished
      <4> QED BY <4>1, <2>1, <2>2 DEF Corrects
    <3>2. ASSUME latestVersion[v[1]] # NoVersion
          PROVE  \E w \in EventVersion :
                   w[1] = v[1] /\ reviewState'[w] = "published" /\ reviewedAt'[w] < reviewedAt'[v]
      <4>1. /\ latestVersion[v[1]] \in EventVersion /\ latestVersion[v[1]][1] = v[1]
            /\ Published(latestVersion[v[1]])
        BY <3>2, <1>1, VersionFacts DEF LatestPublished
      <4> QED BY <4>1, <1>2, <2>2, PublishedAfter, PublishAllTimes
    <3>3. ASSUME latestVersion[v[1]] = NoVersion, NEW w \in EventVersion,
                 w[1] = v[1], reviewState'[w] = "published"
          PROVE  ~(reviewedAt'[w] < reviewedAt'[v])
      <4>1. w \in Drafts(S)
        BY <3>3, PublishedAfter DEF LatestPublished
      <4>2. w = v
        BY <4>1, <1>3, <2>2, <3>3
      <4> QED BY <4>2, <2>2, PublishAllTimes
    <3> QED BY <3>1, <3>2, <3>3
  <2>3. ASSUME NEW v \in EventVersion, v \notin Drafts(S), reviewState'[v] = "published"
        PROVE  corrected'[v] <=> \E w \in EventVersion :
                   w[1] = v[1] /\ reviewState'[w] = "published" /\ reviewedAt'[w] < reviewedAt'[v]
    <3>1. Published(v) /\ reviewedAt'[v] = reviewedAt[v]
      BY <2>3, PublishedAfter, PublishAllTimes
    <3>2. \A w \in EventVersion : w[1] = v[1] =>
              ((reviewState'[w] = "published" /\ reviewedAt'[w] < reviewedAt'[v])
               <=> (Published(w) /\ reviewedAt[w] < reviewedAt[v]))
      <4>1. ASSUME NEW w \in Drafts(S), w[1] = v[1] PROVE ~(reviewedAt'[w] < reviewedAt'[v])
        BY <4>1, <3>1, <1>1, <1>2, PublishAllTimes
      <4>2. \A w \in EventVersion \ Drafts(S) : reviewedAt'[w] = reviewedAt[w]
                                                /\ (reviewState'[w] = "published" <=> Published(w))
        BY PublishedAfter, PublishAllTimes
      <4> QED BY <4>1, <4>2, <3>1, PublishedAfter
    <3> QED BY <3>1, <3>2, <2>1, <2>3 DEF MarkedCorrections
  <2> QED BY <2>2, <2>3 DEF MarkedCorrections, Published
<1> QED BY <1>4, <1>5
-----------------------------------------------------------------------------
(* Binding.  A version outside batches is reviewed alone, the versions of a *)
(* batch are reviewed with it.                                              *)

LEMMA Alone ==
    ASSUME PublicationIInv, UNCHANGED <<boundTo, batchVars>>,
           NEW v \in EventVersion, boundTo[v] = Unbound,
           v[2] \in Derived => reviewState[v] # "none",
           \A w \in EventVersion \ {v} : reviewState'[w] = reviewState[w]
    PROVE  BatchWhole' /\ BatchesOneEach' /\ DerivedBound'
<1> USE DEF PublicationIInv
<1>0. boundTo' = boundTo /\ batchState' = batchState /\ batchContent' = batchContent
  BY DEF batchVars
<1>1. BatchWhole'
  BY <1>0 DEF BatchWhole
<1>2. BatchesOneEach'
  BY <1>0 DEF BatchesOneEach
<1>3. DerivedBound'
  BY <1>0 DEF DerivedBound
<1> QED BY <1>1, <1>2, <1>3

LEMMA Together ==
    ASSUME PublicationIInv, NEW b \in Batch, Owned(b), boundTo' = boundTo,
           NEW decision \in {"published", "rejected"}, Decide(b, decision),
           \A v \in EventVersion :
               reviewState'[v] = IF v \in batchContent[b] THEN decision ELSE reviewState[v]
    PROVE  BatchWhole' /\ BatchesOneEach' /\ DerivedBound'
<1> USE DEF PublicationIInv
<1>0. /\ batchContent' = batchContent
      /\ batchState' = [batchState EXCEPT ![b] = decision]
      /\ batchState \in [Batch -> {"none", "draft", "published", "rejected"}]
      /\ \A v \in EventVersion : boundTo[v] \in Batch \cup {Unbound}
  BY DEF Decide, PublicationTypeOK
<1>1. \A v \in batchContent[b] : boundTo[v] = b /\ b # Unbound
  BY PublicationAssumption DEF Owned, Unbound
<1>2. BatchWhole'
  BY <1>0, <1>1 DEF BatchWhole
<1>3. BatchesOneEach'
  BY <1>0 DEF BatchesOneEach
<1>4. DerivedBound'
  BY <1>1 DEF DerivedBound
<1> QED BY <1>2, <1>3, <1>4

-----------------------------------------------------------------------------
(* Imports.                                                                *)

LEMMA ImportDraftStep ==
    ASSUME PublicationIInv, NEW v \in EventVersion, ImportDraft(v)
    PROVE  PublicationIInv'
<1>0. /\ reviewState' = [reviewState EXCEPT ![v] = "draft"] /\ reviewState[v] = "none"
      /\ UNCHANGED <<boundTo, reviewVars, batchVars, today, clock, reader>>
      /\ v[2] \notin Derived
  BY DEF ImportDraft
<1>1. PublicationTypeOK'
  BY <1>0 DEF PublicationIInv, PublicationTypeOK, reviewVars, batchVars
<1>2. \A w \in EventVersion : reviewState'[w] = IF w = v THEN "draft" ELSE reviewState[w]
  BY <1>0 DEF PublicationIInv, PublicationTypeOK
<1>3. BudgetExact' /\ LatestPublished' /\ MarkedCorrections'
  BY <1>0, <1>2, QuietReviews
<1>4. ReaderOnTrack' /\ PassRepeatsNothing'
  BY <1>0, <1>2, ReaderUndisturbed DEF Published, reviewVars, batchVars
<1>5. boundTo[v] = Unbound
  BY <1>0 DEF PublicationIInv, PublicationTypeOK, BatchWhole, BatchesOneEach
<1>6. BatchWhole' /\ BatchesOneEach' /\ DerivedBound'
  BY <1>0, <1>2, <1>5, Alone
<1> QED BY <1>1, <1>3, <1>4, <1>6 DEF PublicationIInv

LEMMA ImportBatchStep ==
    ASSUME PublicationIInv, NEW b \in Batch, NEW S \in Contents, ImportBatch(b, S)
    PROVE  PublicationIInv'
<1>0. /\ batchState[b] = "none"
      /\ batchState' = [batchState EXCEPT ![b] = "draft"]
      /\ batchContent' = [batchContent EXCEPT ![b] = S]
      /\ UNCHANGED <<reviewVars, today, clock, reader>>
      /\ b # Unbound
  BY PublicationAssumption DEF ImportBatch, Unbound
<1>1. /\ S \in SUBSET (Event \X Derived) /\ S \subseteq EventVersion
      /\ \A v, w \in S : v[1] = w[1] => v = w
      /\ \A v \in S : v[2] \in Derived
  BY PublicationAssumption DEF Contents, EventVersion
<1>2. /\ \A v \in EventVersion : reviewState'[v] =
             IF v \in S /\ reviewState[v] = "none" THEN "draft" ELSE reviewState[v]
      /\ \A v \in EventVersion : boundTo'[v] =
             IF v \in S /\ boundTo[v] = Unbound THEN b ELSE boundTo[v]
  BY DEF ImportBatch, Bound
<1>3. PublicationTypeOK'
  <2>1. reviewState' \in [EventVersion -> {"none", "draft", "published", "rejected"}]
    BY DEF ImportBatch, PublicationIInv, PublicationTypeOK
  <2>2. boundTo' \in [EventVersion -> Batch \cup {Unbound}]
    BY DEF ImportBatch, Bound, PublicationIInv, PublicationTypeOK
  <2>3. /\ batchState' \in [Batch -> {"none", "draft", "published", "rejected"}]
        /\ batchContent' \in [Batch -> SUBSET (Event \X Derived)]
    BY <1>0, <1>1 DEF PublicationIInv, PublicationTypeOK
  <2> QED BY <1>0, <2>1, <2>2, <2>3 DEF PublicationIInv, PublicationTypeOK, reviewVars
<1>4. BudgetExact' /\ LatestPublished' /\ MarkedCorrections'
  BY <1>0, <1>2, QuietReviews
<1>5. \A v \in EventVersion : v \in S /\ boundTo[v] = Unbound => reviewState[v] = "none"
  BY <1>1 DEF PublicationIInv, DerivedBound
<1>6. /\ \A c \in Batch : batchState'[c] = IF c = b THEN "draft" ELSE batchState[c]
      /\ \A c \in Batch : batchContent'[c] = IF c = b THEN S ELSE batchContent[c]
      /\ \A v \in EventVersion : boundTo[v] \in Batch \cup {Unbound}
  BY <1>0 DEF PublicationIInv, PublicationTypeOK
<1>7. ReaderOnTrack' /\ PassRepeatsNothing'
  <2>1. \A v \in EventVersion : Published(v) =>
            reviewState'[v] = "published" /\ reviewedAt'[v] = reviewedAt[v] /\ boundTo'[v] = boundTo[v]
    BY <1>0, <1>2, <1>5 DEF Published, reviewVars
  <2>2. \A c \in Batch : batchState[c] = "published" => batchState'[c] = "published"
    BY <1>0, <1>6
  <2> QED BY <1>0, <2>1, <2>2, ReaderUndisturbed DEF reviewVars
<1>8. BatchWhole'
  <2>1. ASSUME NEW v \in EventVersion, boundTo'[v] # Unbound
        PROVE  v \in batchContent'[boundTo'[v]] /\ reviewState'[v] = batchState'[boundTo'[v]]
    <3>1. CASE boundTo[v] = Unbound
      BY <3>1, <2>1, <1>0, <1>2, <1>5, <1>6
    <3>2. CASE boundTo[v] # Unbound
      <4>1. /\ boundTo'[v] = boundTo[v] /\ boundTo[v] \in Batch
            /\ v \in batchContent[boundTo[v]] /\ reviewState[v] = batchState[boundTo[v]]
        BY <3>2, <1>2, <1>6 DEF PublicationIInv, BatchWhole
      <4>2. reviewState[v] # "none" /\ boundTo[v] # b
        BY <4>1, <1>0 DEF PublicationIInv, BatchesOneEach
      <4> QED BY <4>1, <4>2, <1>2, <1>6
    <3> QED BY <3>1, <3>2
  <2> QED BY <2>1 DEF BatchWhole
<1>9. BatchesOneEach'
  BY <1>1, <1>6 DEF PublicationIInv, BatchesOneEach
<1>10. DerivedBound'
  BY <1>0, <1>2 DEF PublicationIInv, DerivedBound
<1> QED BY <1>3, <1>4, <1>7, <1>8, <1>9, <1>10 DEF PublicationIInv
-----------------------------------------------------------------------------
(* Reviews.                                                                *)

LEMMA RejectAllKeeps ==
    ASSUME PublicationIInv, NEW S \in SUBSET EventVersion, RejectAll(S),
           batchState' \in [Batch -> {"none", "draft", "published", "rejected"}],
           \A b \in Batch : batchState[b] = "published" => batchState'[b] = "published",
           batchContent' = batchContent
    PROVE  /\ PublicationTypeOK'
           /\ BudgetExact' /\ LatestPublished' /\ MarkedCorrections'
           /\ ReaderOnTrack' /\ PassRepeatsNothing'
<1>0. /\ \A v \in S : reviewState[v] = "draft"
      /\ \A v \in EventVersion : reviewState'[v] = IF v \in S THEN "rejected" ELSE reviewState[v]
      /\ UNCHANGED <<boundTo, reviewVars, today, clock, reader>>
  BY DEF RejectAll
<1>1. reviewState' \in [EventVersion -> {"none", "draft", "published", "rejected"}]
  BY DEF RejectAll, PublicationIInv, PublicationTypeOK
<1>2. PublicationTypeOK'
  BY <1>0, <1>1 DEF PublicationIInv, PublicationTypeOK, reviewVars
<1>3. BudgetExact' /\ LatestPublished' /\ MarkedCorrections'
  BY <1>0, QuietReviews
<1>4. ReaderOnTrack' /\ PassRepeatsNothing'
  BY <1>0, ReaderUndisturbed DEF Published, reviewVars
<1> QED BY <1>2, <1>3, <1>4

LEMMA RejectStep ==
    ASSUME PublicationIInv, NEW v \in EventVersion, Reject(v)
    PROVE  PublicationIInv'
<1>0. RejectAll({v}) /\ UNCHANGED batchVars /\ boundTo[v] = Unbound /\ boundTo' = boundTo
  BY DEF Reject, Reviewable, RejectAll
<1>1. /\ PublicationTypeOK'
      /\ BudgetExact' /\ LatestPublished' /\ MarkedCorrections'
      /\ ReaderOnTrack' /\ PassRepeatsNothing'
  BY <1>0, RejectAllKeeps DEF PublicationIInv, PublicationTypeOK, batchVars
<1>2. BatchWhole' /\ BatchesOneEach' /\ DerivedBound'
  BY <1>0, Alone DEF RejectAll
<1> QED BY <1>1, <1>2 DEF PublicationIInv

LEMMA RejectBatchStep ==
    ASSUME PublicationIInv, NEW b \in Batch, RejectBatch(b)
    PROVE  PublicationIInv'
<1>0. /\ RejectAll(batchContent[b]) /\ Decide(b, "rejected") /\ Owned(b)
      /\ batchState[b] = "draft" /\ boundTo' = boundTo
  BY DEF RejectBatch, RejectAll
<1>1. batchContent[b] \subseteq EventVersion
  BY BatchVersions DEF PublicationIInv
<1>2. /\ PublicationTypeOK'
      /\ BudgetExact' /\ LatestPublished' /\ MarkedCorrections'
      /\ ReaderOnTrack' /\ PassRepeatsNothing'
  BY <1>0, <1>1, RejectAllKeeps DEF PublicationIInv, PublicationTypeOK, Decide
<1>3. BatchWhole' /\ BatchesOneEach' /\ DerivedBound'
  BY <1>0, Together DEF RejectAll
<1> QED BY <1>2, <1>3 DEF PublicationIInv

LEMMA PublishAllKeeps ==
    ASSUME PublicationIInv, NEW S \in SUBSET EventVersion, PublishAll(S),
           \A v, w \in S : v[1] = w[1] => v = w,
           batchState' \in [Batch -> {"none", "draft", "published", "rejected"}],
           \A b \in Batch : batchState[b] = "published" => batchState'[b] = "published",
           batchContent' = batchContent
    PROVE  /\ PublicationTypeOK'
           /\ BudgetExact' /\ LatestPublished' /\ MarkedCorrections'
           /\ ReaderOnTrack' /\ PassRepeatsNothing'
<1>0. UNCHANGED <<boundTo, today, clock, reader>>
  BY DEF PublishAll
<1>1. PublicationTypeOK'
  BY <1>0, PublishAllTyped, PublishAllTimes, PublishAllLatest DEF PublicationIInv, PublicationTypeOK
<1>2. BudgetExact' /\ LatestPublished' /\ MarkedCorrections'
  BY PublishAllBudget, PublishAllReviews
<1>3. \A v \in EventVersion : Published(v) =>
          reviewState'[v] = "published" /\ reviewedAt'[v] = reviewedAt[v] /\ boundTo'[v] = boundTo[v]
  BY <1>0, PublishedAfter, PublishAllTimes
<1>4. \A e \in Event : latestVersion'[e] = latestVersion[e] \/ ~Published(latestVersion'[e])
  BY PublishAllLatest, PublishedAfter
<1>5. ReaderOnTrack' /\ PassRepeatsNothing'
  BY <1>0, <1>3, <1>4, ReaderUndisturbed
<1> QED BY <1>1, <1>2, <1>5

LEMMA PublishStep ==
    ASSUME PublicationIInv, NEW v \in EventVersion, Publish(v)
    PROVE  PublicationIInv'
<1>0. /\ PublishAll({v}) /\ UNCHANGED batchVars /\ boundTo[v] = Unbound /\ boundTo' = boundTo
      /\ reviewState[v] = "draft"
  BY DEF Publish, Reviewable, PublishAll
<1>1. /\ PublicationTypeOK'
      /\ BudgetExact' /\ LatestPublished' /\ MarkedCorrections'
      /\ ReaderOnTrack' /\ PassRepeatsNothing'
  BY <1>0, PublishAllKeeps DEF PublicationIInv, PublicationTypeOK, batchVars
<1>2. BatchWhole' /\ BatchesOneEach' /\ DerivedBound'
  BY <1>0, Alone DEF PublishAll
<1> QED BY <1>1, <1>2 DEF PublicationIInv

LEMMA PublishBatchStep ==
    ASSUME PublicationIInv, NEW b \in Batch, PublishBatch(b)
    PROVE  PublicationIInv'
<1>0. /\ PublishAll(batchContent[b]) /\ Decide(b, "published") /\ Owned(b)
      /\ batchState[b] = "draft" /\ boundTo' = boundTo
  BY DEF PublishBatch, PublishAll
<1>1. batchContent[b] \subseteq EventVersion /\ \A v, w \in batchContent[b] : v[1] = w[1] => v = w
  BY BatchVersions DEF PublicationIInv, BatchesOneEach
<1>2. /\ PublicationTypeOK'
      /\ BudgetExact' /\ LatestPublished' /\ MarkedCorrections'
      /\ ReaderOnTrack' /\ PassRepeatsNothing'
  BY <1>0, <1>1, PublishAllKeeps DEF PublicationIInv, PublicationTypeOK, Decide
<1>3. BatchWhole' /\ BatchesOneEach' /\ DerivedBound'
  BY <1>0, Together DEF PublishAll
<1> QED BY <1>2, <1>3 DEF PublicationIInv

-----------------------------------------------------------------------------
(* The feed.                                                               *)

(* Sets of naturals have a least element.                                  *)
LEMMA LeastNatural ==
    ASSUME NEW T \in SUBSET Nat, T # {}
    PROVE  \E m \in T : \A n \in T : m <= n
<1> DEFINE U == {1 .. n : n \in T}
           R == StrictSubsetOrdering(Nat)
<1>1. U # {} /\ U \subseteq FiniteSubsetsOf(Nat)
  <2>1. \A n \in T : 1 .. n \subseteq Nat /\ IsFiniteSet(1 .. n)
    BY FS_Interval
  <2> QED BY <2>1 DEF FiniteSubsetsOf
<1>2. IsWellFoundedOn(R, FiniteSubsetsOf(Nat))
  BY FS_StrictSubsetOrderingWellFounded
<1>3. PICK X \in U : \A Y \in U : ~(<<Y, X>> \in R)
  <2> HIDE DEF U, R
  <2> QED BY <1>1, <1>2, WFMin
<1>4. PICK m \in T : X = 1 .. m
  BY <1>3
<1>5. ASSUME NEW n \in T, n < m PROVE FALSE
  <2>1. 1 .. n \subseteq 1 .. m /\ 1 .. n # 1 .. m
    <3>1. m \in 1 .. m /\ m \notin 1 .. n
      BY <1>5
    <3> QED BY <3>1, <1>5
  <2>2. 1 .. n \subseteq Nat /\ 1 .. m \subseteq Nat
    OBVIOUS
  <2>3. 1 .. n \in U
    OBVIOUS
  <2> QED BY <2>1, <2>2, <2>3, <1>3, <1>4 DEF StrictSubsetOrdering
<1> QED BY <1>5, <1>4

(* The activities below a cursor have a newest one: among those with the    *)
(* latest time of review, the one of the largest event.                     *)
LEMMA NewestExists ==
    ASSUME PublicationIInv, NEW c, Rest(c) # {}
    PROVE  /\ Newest(c) \in Rest(c)
           /\ \A x \in Rest(c) : ~Below(Position(Newest(c)), Position(x))
<1> DEFINE Ages == {LastTime - reviewedAt[v] : v \in Rest(c)}
<1>1. \A v \in Rest(c) : /\ v \in EventVersion
                         /\ reviewedAt[v] \in 0 .. LastTime
                         /\ v[1] \in 1 .. Events
  BY VersionFacts DEF Rest, Shown, PublicationIInv, PublicationTypeOK, Event
<1>2. Ages \in SUBSET Nat /\ Ages # {}
  BY <1>1, PublicationAssumption
<1>3. PICK age \in Ages : \A a \in Ages : age <= a
  <2> HIDE DEF Ages
  <2> QED BY <1>2, LeastNatural
<1> DEFINE Youngest == {v \in Rest(c) : LastTime - reviewedAt[v] = age}
           Numbers == {Events - v[1] : v \in Youngest}
<1>4. Numbers \in SUBSET Nat /\ Numbers # {}
  BY <1>1, <1>3, PublicationAssumption
<1>5. PICK number \in Numbers : \A n \in Numbers : number <= n
  <2> HIDE DEF Numbers
  <2> QED BY <1>4, LeastNatural
<1>6. PICK w \in Youngest : number = Events - w[1]
  BY <1>5
<1>7. ASSUME NEW x \in Rest(c) PROVE ~Below(Position(w), Position(x))
  <2>1. reviewedAt[x] <= reviewedAt[w]
    <3>1. LastTime - reviewedAt[x] \in Ages
      OBVIOUS
    <3>2. age <= LastTime - reviewedAt[x] /\ age = LastTime - reviewedAt[w]
      BY <3>1, <1>3
    <3> QED BY <3>2, <1>1, PublicationAssumption
  <2>2. reviewedAt[x] = reviewedAt[w] => x[1] <= w[1]
    <3>1. ASSUME reviewedAt[x] = reviewedAt[w] PROVE Events - x[1] \in Numbers
      BY <3>1
    <3>2. w \in Rest(c) /\ Events \in Nat
      BY PublicationAssumption
    <3> HIDE DEF Numbers, Youngest
    <3>3. ASSUME reviewedAt[x] = reviewedAt[w] PROVE Events - w[1] <= Events - x[1]
      BY <3>1, <3>3, <1>5, <1>6
    <3> QED BY <3>2, <3>3, <1>1
  <2> QED BY <2>1, <2>2, <1>1 DEF Below, Position
<1>8. w \in Rest(c)
  OBVIOUS
<1> HIDE DEF Youngest, Numbers, Ages
<1> QED BY <1>7, <1>8 DEF Newest
LEMMA ReadPageStep ==
    ASSUME PublicationIInv, ReadPage
    PROVE  PublicationIInv'
<1>0. /\ reader.step = "reading"
      /\ UNCHANGED <<versionVars, reviewVars, batchVars, today, clock>>
      /\ reader \in [step : {"off", "reading", "done"}, cursor : (0 .. LastTime + 1) \X (0 .. Events),
                     before : SUBSET EventVersion, seen : SUBSET EventVersion]
  BY DEF ReadPage, PublicationIInv, PublicationTypeOK
<1>1. /\ reviewState' = reviewState /\ boundTo' = boundTo /\ reviewedAt' = reviewedAt
      /\ latestVersion' = latestVersion /\ batchState' = batchState
  BY <1>0 DEF versionVars, reviewVars, batchVars
<1>2. /\ BatchWhole' /\ BatchesOneEach' /\ DerivedBound'
      /\ BudgetExact' /\ LatestPublished' /\ MarkedCorrections'
  <2>1. BudgetExact' /\ LatestPublished' /\ MarkedCorrections'
    BY <1>0, <1>1, QuietReviews
  <2>2. BatchWhole' /\ BatchesOneEach' /\ DerivedBound'
    BY <1>0 DEF versionVars, batchVars, PublicationIInv, BatchWhole, BatchesOneEach, DerivedBound
  <2> QED BY <2>1, <2>2
<1>3. \A v \in reader.before : Published(v) /\ Gate(v)
  BY DEF PublicationIInv, ReaderOnTrack
<1>4. \A v \in EventVersion : reviewedAt[v] \in 0 .. LastTime /\ v[1] \in 1 .. Events
  BY VersionFacts DEF PublicationIInv, PublicationTypeOK, Event
<1>5. reader.cursor[1] \in Nat /\ reader.cursor[2] \in Nat
  BY <1>0, PublicationAssumption
<1>6. \A v \in reader.before : latestVersion[v[1]] = v /\ v \notin reader.seen => v \in Rest(reader.cursor)
  BY <1>0, <1>3 DEF PublicationIInv, ReaderOnTrack, Rest, Shown, Published
<1>7. CASE Rest(reader.cursor) = {}
  <2>1. /\ reader' \in [step : {"off", "reading", "done"}, cursor : (0 .. LastTime + 1) \X (0 .. Events),
                        before : SUBSET EventVersion, seen : SUBSET EventVersion]
        /\ reader'.before = reader.before /\ reader'.seen = reader.seen /\ reader'.cursor = reader.cursor
    BY <1>0, <1>7 DEF ReadPage
  <2>2. PublicationTypeOK'
    BY <1>0, <2>1 DEF versionVars, reviewVars, batchVars, PublicationIInv, PublicationTypeOK
  <2>3. ReaderOnTrack'
    BY <2>1, <1>1, <1>6, <1>7 DEF PublicationIInv, ReaderOnTrack, Published, Gate, Position, Below
  <2>4. PassRepeatsNothing'
    BY <2>1 DEF PublicationIInv, PassRepeatsNothing
  <2> QED BY <1>2, <2>2, <2>3, <2>4 DEF PublicationIInv
<1>8. CASE Rest(reader.cursor) # {}
  <2> DEFINE new == Newest(reader.cursor)
  <2>1. reader' = [step |-> IF Rest(reader.cursor) = {new} THEN "done" ELSE "reading",
                   cursor |-> Position(new), before |-> reader.before, seen |-> reader.seen \cup {new}]
    BY <1>8 DEF ReadPage
  <2>2. /\ new \in Rest(reader.cursor)
        /\ \A x \in Rest(reader.cursor) : ~Below(Position(new), Position(x))
    BY <1>8, NewestExists
  <2> HIDE DEF new
  <2>3. /\ new \in EventVersion /\ Published(new) /\ latestVersion[new[1]] = new
        /\ Below(Position(new), reader.cursor)
    BY <2>2 DEF Rest, Shown, Published
  <2>4. /\ reader'.cursor = Position(new) /\ reader'.before = reader.before
        /\ reader'.seen = reader.seen \cup {new}
        /\ reader'.step = IF Rest(reader.cursor) = {new} THEN "done" ELSE "reading"
    BY <2>1
  <2>5. PublicationTypeOK'
    <3>1. Position(new) \in (0 .. LastTime + 1) \X (0 .. Events)
      BY <2>3, <1>4, PublicationAssumption DEF Position
    <3>2. reader' \in [step : {"off", "reading", "done"}, cursor : (0 .. LastTime + 1) \X (0 .. Events),
                       before : SUBSET EventVersion, seen : SUBSET EventVersion]
      BY <2>1, <2>3, <3>1, <1>0
    <3> QED BY <3>2, <1>0 DEF versionVars, reviewVars, batchVars, PublicationIInv, PublicationTypeOK
  <2>6. \A v \in reader.seen \cup {new} : Published(v) /\ ~Below(Position(v), Position(new))
    <3>1. ASSUME NEW v \in reader.seen PROVE ~Below(Position(v), Position(new))
      <4>1. v \in EventVersion /\ ~Below(Position(v), reader.cursor)
        BY <1>0 DEF PublicationIInv, ReaderOnTrack
      <4> QED BY <4>1, <2>3, <1>4, <1>5 DEF Below, Position
    <3>2. ~Below(Position(new), Position(new))
      BY <2>3, <1>4 DEF Below, Position
    <3> QED BY <3>1, <3>2, <2>3 DEF PublicationIInv, ReaderOnTrack
  <2>7. ASSUME NEW v \in reader.before, latestVersion[v[1]] = v
        PROVE  v \in reader.seen \cup {new} \/ (reader'.step = "reading" /\ Below(Position(v), Position(new)))
    <3>1. CASE v \in reader.seen \cup {new}
      BY <3>1
    <3>2. CASE v \notin reader.seen \cup {new}
      <4>1. v \in Rest(reader.cursor) /\ v # new
        BY <3>2, <2>7, <1>6
      <4>2. v[1] # new[1]
        BY <4>1, <2>3, <2>7
      <4>3. Below(Position(v), Position(new))
        <5>1. v \in EventVersion /\ ~Below(Position(new), Position(v))
          BY <4>1, <2>2, <1>0
        <5> QED BY <5>1, <4>2, <2>3, <1>4 DEF Below, Position
      <4> QED BY <4>1, <4>3, <2>4
    <3> QED BY <3>1, <3>2
  <2>8. ReaderOnTrack'
    BY <2>4, <2>6, <2>7, <1>1, <1>3 DEF ReaderOnTrack, Published, Gate, Position, Below
  <2>9. PassRepeatsNothing'
    <3>1. ASSUME NEW v \in reader.seen, v[1] = new[1] PROVE v = new
      <4>1. /\ v \in EventVersion /\ Published(v) /\ ~Below(Position(v), reader.cursor)
            /\ reviewedAt[new] >= reviewedAt[v]
        BY <1>0, <2>3, <3>1 DEF PublicationIInv, ReaderOnTrack, LatestPublished
      <4> QED BY <4>1, <3>1, <2>3, <1>4, <1>5 DEF Below, Position
    <3> QED BY <3>1, <2>4 DEF PublicationIInv, PassRepeatsNothing
  <2> QED BY <1>2, <2>5, <2>8, <2>9 DEF PublicationIInv
<1> QED BY <1>7, <1>8

LEMMA StartReadingStep ==
    ASSUME PublicationIInv, StartReading
    PROVE  PublicationIInv'
<1>0. /\ UNCHANGED <<versionVars, reviewVars, batchVars, today, clock>>
      /\ reader' = [step |-> "reading", cursor |-> Top, before |-> Shown, seen |-> {}]
  BY DEF StartReading
<1>1. BudgetExact' /\ LatestPublished' /\ MarkedCorrections'
  BY <1>0, QuietReviews DEF versionVars
<1>2. BatchWhole' /\ BatchesOneEach' /\ DerivedBound'
  BY <1>0 DEF versionVars, batchVars, PublicationIInv, BatchWhole, BatchesOneEach, DerivedBound
<1>3. PublicationTypeOK'
  <2>1. Shown \subseteq EventVersion /\ Top \in (0 .. LastTime + 1) \X (0 .. Events)
    BY PublicationAssumption DEF Shown, Top
  <2> QED BY <2>1, <1>0 DEF versionVars, reviewVars, batchVars, PublicationIInv, PublicationTypeOK
<1>4. ReaderOnTrack'
  <2>1. \A v \in Shown : Published(v) /\ Gate(v) /\ Below(Position(v), Top)
    <3>1. \A v \in Shown : v \in EventVersion /\ reviewedAt[v] \in 0 .. LastTime
      BY DEF Shown, PublicationIInv, PublicationTypeOK
    <3> QED BY <3>1, PublicationAssumption DEF Shown, Published, Below, Position, Top
  <2> QED BY <2>1, <1>0 DEF versionVars, reviewVars, batchVars, ReaderOnTrack, Published, Gate, Position, Below
<1>5. PassRepeatsNothing'
  BY <1>0 DEF PassRepeatsNothing
<1> QED BY <1>1, <1>2, <1>3, <1>4, <1>5 DEF PublicationIInv

LEMMA ClockStep ==
    ASSUME PublicationIInv, NextDay \/ ClockTicks \/ UNCHANGED publicationVars
    PROVE  PublicationIInv'
<1>0. /\ UNCHANGED <<versionVars, reviewVars, batchVars, reader>>
      /\ today' \in 1 .. LastDay /\ clock' \in 1 .. LastTime
  <2>1. today \in 1 .. LastDay /\ clock \in 1 .. LastTime
    BY DEF PublicationIInv, PublicationTypeOK
  <2>2. CASE NextDay
    BY <2>1, <2>2, PublicationAssumption DEF NextDay
  <2>3. CASE ClockTicks
    BY <2>1, <2>3, PublicationAssumption DEF ClockTicks
  <2>4. CASE UNCHANGED publicationVars
    BY <2>1, <2>4 DEF publicationVars
  <2> QED BY <2>2, <2>3, <2>4
<1>1. BudgetExact' /\ LatestPublished' /\ MarkedCorrections'
  BY <1>0, QuietReviews DEF versionVars
<1>2. BatchWhole' /\ BatchesOneEach' /\ DerivedBound'
  BY <1>0 DEF versionVars, batchVars, PublicationIInv, BatchWhole, BatchesOneEach, DerivedBound
<1>3. PublicationTypeOK'
  BY <1>0 DEF versionVars, reviewVars, batchVars, PublicationIInv, PublicationTypeOK
<1>4. ReaderOnTrack' /\ PassRepeatsNothing'
  BY <1>0, ReaderUndisturbed DEF versionVars, reviewVars, batchVars, Published
<1> QED BY <1>1, <1>2, <1>3, <1>4 DEF PublicationIInv

-----------------------------------------------------------------------------
(* The invariant holds.                                                    *)

LEMMA PublicationStart == PublicationInit => PublicationIInv
<1> SUFFICES ASSUME PublicationInit PROVE PublicationIInv
  OBVIOUS
<1> USE DEF PublicationInit
<1>1. PublicationTypeOK
  <2>1. Top \in (0 .. LastTime + 1) \X (0 .. Events)
    BY PublicationAssumption DEF Top
  <2> QED BY <2>1, PublicationAssumption DEF PublicationTypeOK
<1>2. BudgetExact
  <2>1. \A d \in 1 .. LastDay : Explanations(d) = {} /\ reviewCount[d] = 0
    BY DEF Explanations
  <2>2. Cardinality({}) = 0 /\ 0 <= ReviewLimit
    BY FS_EmptySet, PublicationAssumption
  <2> QED BY <2>1, <2>2 DEF BudgetExact
<1>3. BatchWhole /\ BatchesOneEach /\ DerivedBound
  BY DEF BatchWhole, BatchesOneEach, DerivedBound
<1>4. LatestPublished /\ MarkedCorrections
  BY DEF LatestPublished, MarkedCorrections, Published
<1>5. ReaderOnTrack /\ PassRepeatsNothing
  BY DEF ReaderOnTrack, PassRepeatsNothing
<1> QED BY <1>1, <1>2, <1>3, <1>4, <1>5 DEF PublicationIInv

LEMMA PublicationKept == PublicationIInv /\ [PublicationNext]_publicationVars => PublicationIInv'
<1> SUFFICES ASSUME PublicationIInv, [PublicationNext]_publicationVars PROVE PublicationIInv'
  OBVIOUS
<1>1. ASSUME NEW v \in EventVersion, ImportDraft(v) PROVE PublicationIInv'
  BY <1>1, ImportDraftStep
<1>2. ASSUME NEW v \in EventVersion, Publish(v) PROVE PublicationIInv'
  BY <1>2, PublishStep
<1>3. ASSUME NEW v \in EventVersion, Reject(v) PROVE PublicationIInv'
  BY <1>3, RejectStep
<1>4. ASSUME NEW b \in Batch, PublishBatch(b) PROVE PublicationIInv'
  BY <1>4, PublishBatchStep
<1>5. ASSUME NEW b \in Batch, RejectBatch(b) PROVE PublicationIInv'
  BY <1>5, RejectBatchStep
<1>6. ASSUME NEW b \in Batch, NEW S \in Contents, ImportBatch(b, S) PROVE PublicationIInv'
  BY <1>6, ImportBatchStep
<1>7. CASE NextDay \/ ClockTicks \/ UNCHANGED publicationVars
  BY <1>7, ClockStep
<1>8. CASE StartReading
  BY <1>8, StartReadingStep
<1>9. CASE ReadPage
  BY <1>9, ReadPageStep
<1> QED BY <1>1, <1>2, <1>3, <1>4, <1>5, <1>6, <1>7, <1>8, <1>9 DEF PublicationNext
(* What the parts of the invariant say of the feed and of corrections.      *)
LEMMA CorrectionsFollow == PublicationIInv => ReviewsExact
<1> SUFFICES ASSUME PublicationIInv, NEW v \in EventVersion, reviewState[v] = "published"
             PROVE  /\ corrected[v] <=> {w \in EventVersion :
                           /\ w[1] = v[1] /\ reviewState[w] = "published"
                           /\ reviewedAt[w] < reviewedAt[v]} # {}
                    /\ reviewedAt[latestVersion[v[1]]] >= reviewedAt[v]
  BY DEF PublicationIInv, ReviewsExact, CorrectionsVisible
<1> QED BY DEF PublicationIInv, LatestPublished, MarkedCorrections, Published

LEMMA PassFollows == PublicationIInv => PassExact
<1> SUFFICES ASSUME PublicationIInv, reader.step = "done",
                    NEW v \in reader.before, latestVersion[v[1]] = v
             PROVE  v \in reader.seen
  BY DEF PublicationIInv, PassExact, PassMissesNothing
<1> QED BY DEF PublicationIInv, ReaderOnTrack

(* A batch is decided as a whole, the daily budget counts exactly what was  *)
(* published within it, and corrections are marked and visible, for every   *)
(* number of events, facts, batches and reviewers' clocks.                  *)
THEOREM PublicationHolds == PublicationSpec => []PublicationInv
<1>1. PublicationSpec => []PublicationIInv
  BY PublicationStart, PublicationKept, PTL DEF PublicationSpec
<1>2. PublicationIInv => PublicationInv
  BY CorrectionsFollow, PassFollows DEF PublicationInv
<1> QED BY <1>1, <1>2, PTL

(* A client that follows the cursor of the feed to its end misses nothing   *)
(* that was shown and not corrected, and sees no event twice.               *)
THEOREM FeedExact == PublicationSpec => []PassExact
<1>1. PublicationSpec => []PublicationIInv
  BY PublicationStart, PublicationKept, PTL DEF PublicationSpec
<1> QED BY <1>1, PassFollows, PTL

-----------------------------------------------------------------------------
(* The knowledge pilot.                                                     *)

Busy(p) == pilot[p] # NoPilot
RowFor(rows, job, d, i) == rows[i].job = job /\ rows[i].doc = d
HasRow(rows, job, d) == \E i \in DOMAIN rows : RowFor(rows, job, d, i)

(* One process holds the lock, and it has in memory what is on disk.        *)
OneHolder ==
    /\ \A p \in Pilot : p \in holders <=> Busy(p)
    /\ \A p, q \in holders : p = q
    /\ \A p \in Pilot : Busy(p) => pilot[p].rows = disk

(* A document that is being collected has no row yet, and a page in hand.   *)
InHandOf(p) == Busy(p) =>
    /\ pilot[p].step \in {"original", "row", "failure"} => ~HasRow(disk, pilot[p].job, pilot[p].doc)
    /\ pilot[p].step \in {"original", "row", "copy"} => pilot[p].got # NoContent
    /\ pilot[p].step = "row" => Doing(p) \in originals
    /\ pilot[p].step = "copy" =>
         \E i \in DOMAIN disk : /\ RowFor(disk, pilot[p].job, pilot[p].doc, i)
                                /\ disk[i].version = pilot[p].got
InHand == \A p \in Pilot : InHandOf(p)

(* Documents that a run has passed have their row, and with --s3 their copy. *)
Passed(p) == {d \in PilotDoc : \/ pilot[p].step = "report"
                               \/ pilot[p].step # "prepare" /\ d < pilot[p].doc}
Copied(job, d) == \A i \in DOMAIN disk :
    RowFor(disk, job, d, i) /\ disk[i].version # NoContent => <<d, disk[i].version>> \in copies
PassedOf(p) == Busy(p) => \A d \in Passed(p) : HasRow(disk, pilot[p].job, d) /\ (pilot[p].s3 => Copied(pilot[p].job, d))
PassedDone == \A p \in Pilot : PassedOf(p)

(* A page that was collected has a row, up to now, at which it changed.     *)
HasChange(rows, i) == \E j \in Successes(rows, rows[i].doc) : rows[j].changed /\ j <= i
Dated == \A i \in DOMAIN disk : disk[i].version # NoContent => HasChange(disk, i)

(* A job with a report or a batch, or that was preserved, has a row of every *)
(* document.                                                                *)
FinishedSeen == \A j \in PilotJob :
    reports[j] # {} \/ batches[j] # {} \/ j \in preserved => AllSeen(disk, j)

PilotIInv ==
    /\ PilotConsistent /\ VersionsDated /\ OneHolder /\ InHand /\ PassedDone /\ Dated /\ FinishedSeen

-----------------------------------------------------------------------------
(* Rows by their sequence.                                                  *)

LEMMA LatestExists ==
    ASSUME NEW n \in Nat, NEW S \in SUBSET (1 .. n), S # {}
    PROVE  Latest(S) \in S /\ \A j \in S : j <= Latest(S)
<1> DEFINE Distances == {n - i : i \in S}
<1>0. \A i \in S : i \in Int /\ n - i \in Nat
  OBVIOUS
<1>1. Distances \in SUBSET Nat /\ Distances # {}
  BY <1>0
<1>2. PICK m \in Distances : \A k \in Distances : m <= k
  <2> HIDE DEF Distances
  <2> QED BY <1>1, LeastNatural
<1>3. PICK t \in S : m = n - t
  BY <1>2
<1>4. ASSUME NEW j \in S PROVE j <= t
  <2>1. m <= n - j
    BY <1>2
  <2> QED BY <1>0, <1>3, <2>1
<1> QED BY <1>3, <1>4 DEF Latest

LEMMA LatestIs ==
    ASSUME NEW n \in Nat, NEW S \in SUBSET (1 .. n), NEW t \in S, \A j \in S : j <= t
    PROVE  Latest(S) = t
<1>1. Latest(S) \in S /\ \A j \in S : j <= Latest(S)
  BY LatestExists
<1>2. t <= Latest(S) /\ Latest(S) <= t
  BY <1>1
<1>3. \A j \in S : j \in Int
  OBVIOUS
<1>4. t \in Int /\ Latest(S) \in Int
  BY <1>1, <1>3
<1> QED BY <1>2, <1>4

LEMMA SuccessRows ==
    ASSUME NEW rows \in Seq(PilotRow), NEW d
    PROVE  /\ Successes(rows, d) \in SUBSET (1 .. Len(rows)) /\ Len(rows) \in Nat
           /\ DOMAIN rows = 1 .. Len(rows)
           /\ \A i \in DOMAIN rows : rows[i] \in PilotRow
BY DEF Successes

(* The first row of a version of a page.                                    *)
IsFirst(rows, i, j) ==
    /\ j \in Successes(rows, rows[i].doc) /\ rows[j].version = rows[i].version
    /\ \A k \in Successes(rows, rows[i].doc) : rows[k].version = rows[i].version => j <= k

LEMMA FirstSeenExists ==
    ASSUME NEW rows \in Seq(PilotRow), NEW i \in DOMAIN rows, rows[i].version # NoContent
    PROVE  IsFirst(rows, i, FirstSeen(rows, i))
<1> DEFINE Same == {j \in Successes(rows, rows[i].doc) : rows[j].version = rows[i].version}
<1>1. Same \in SUBSET Nat /\ Same # {}
  <2>1. i \in Same
    BY DEF Successes
  <2> QED BY <2>1, SuccessRows
<1>2. PICK m \in Same : \A k \in Same : m <= k
  <2> HIDE DEF Same
  <2> QED BY <1>1, LeastNatural
<1>3. IsFirst(rows, i, m)
  BY <1>2 DEF IsFirst
<1>4. m \in Successes(rows, rows[i].doc) /\ IsFirst(rows, i, m)
  BY <1>3 DEF IsFirst
<1> QED BY <1>4 DEF FirstSeen, IsFirst

LEMMA FirstSeenIs ==
    ASSUME NEW rows \in Seq(PilotRow), NEW i \in DOMAIN rows, rows[i].version # NoContent,
           NEW m, IsFirst(rows, i, m)
    PROVE  FirstSeen(rows, i) = m
<1>1. IsFirst(rows, i, FirstSeen(rows, i))
  BY FirstSeenExists
<1>2. m \in Nat /\ FirstSeen(rows, i) \in Nat
  BY <1>1, SuccessRows DEF IsFirst
<1>3. m <= FirstSeen(rows, i) /\ FirstSeen(rows, i) <= m
  BY <1>1 DEF IsFirst
<1> QED BY <1>2, <1>3

(* What one more row leaves as it was.                                      *)
Adds(rows, new, more) == more = Append(rows, new)

LEMMA OneMore ==
    ASSUME NEW rows \in Seq(PilotRow), NEW new \in PilotRow, NEW more, Adds(rows, new, more)
    PROVE  /\ more \in Seq(PilotRow) /\ Len(more) = Len(rows) + 1 /\ Len(rows) \in Nat
           /\ DOMAIN rows = 1 .. Len(rows) /\ DOMAIN more = 1 .. Len(rows) + 1
           /\ \A i \in DOMAIN rows : i \in DOMAIN more /\ more[i] = rows[i]
           /\ more[Len(rows) + 1] = new
           /\ \A d, j : j \in Successes(more, d) <=>
                \/ j \in Successes(rows, d)
                \/ j = Len(rows) + 1 /\ new.doc = d /\ new.version # NoContent
<1>1. /\ more \in Seq(PilotRow) /\ Len(more) = Len(rows) + 1 /\ Len(rows) \in Nat
      /\ DOMAIN rows = 1 .. Len(rows) /\ DOMAIN more = 1 .. Len(rows) + 1
      /\ \A i \in DOMAIN rows : more[i] = rows[i]
      /\ more[Len(rows) + 1] = new
  BY DEF Adds
<1>2. \A i \in DOMAIN rows : i \in DOMAIN more
  BY <1>1
<1>3. \A j : j \in DOMAIN more <=> j \in DOMAIN rows \/ j = Len(rows) + 1
  BY <1>1
<1>4. Len(rows) + 1 \notin DOMAIN rows
  BY <1>1
<1> QED BY <1>1, <1>2, <1>3, <1>4 DEF Successes

LEMMA TransitionExists ==
    ASSUME NEW rows \in Seq(PilotRow), NEW i \in DOMAIN rows, HasChange(rows, i)
    PROVE  /\ Transition(rows, i) \in Successes(rows, rows[i].doc)
           /\ rows[Transition(rows, i)].changed
           /\ Transition(rows, i) <= i
           /\ \A j \in Successes(rows, rows[i].doc) : rows[j].changed /\ j <= i => j <= Transition(rows, i)
<1> DEFINE S == {j \in Successes(rows, rows[i].doc) : rows[j].changed /\ j <= i}
<1>1. S \in SUBSET (1 .. Len(rows)) /\ S # {} /\ Len(rows) \in Nat
  BY SuccessRows DEF HasChange
<1>2. Latest(S) \in S /\ \A j \in S : j <= Latest(S)
  <2> HIDE DEF S
  <2> QED BY <1>1, LatestExists
<1>3. Transition(rows, i) = Latest(S)
  BY DEF Transition
<1> QED BY <1>2, <1>3

LEMMA TransitionKept ==
    ASSUME NEW rows \in Seq(PilotRow), NEW new \in PilotRow, NEW more, Adds(rows, new, more),
           NEW i \in DOMAIN rows
    PROVE  /\ Transition(more, i) = Transition(rows, i)
           /\ HasChange(rows, i) => HasChange(more, i)
<1>1. /\ more[i] = rows[i] /\ i < Len(rows) + 1 /\ i \in Nat
      /\ \A j : j \in Successes(more, rows[i].doc) /\ j <= i <=>
                j \in Successes(rows, rows[i].doc) /\ j <= i
      /\ \A j \in Successes(rows, rows[i].doc) : more[j] = rows[j]
  <2>1. i \in 1 .. Len(rows) /\ Len(rows) \in Nat /\ more[i] = rows[i]
    BY OneMore
  <2>2. \A j \in Successes(rows, rows[i].doc) : more[j] = rows[j]
    BY OneMore DEF Successes
  <2>3. ~(Len(rows) + 1 <= i)
    BY <2>1
  <2>4. i < Len(rows) + 1 /\ i \in Nat
    BY <2>1
  <2>5. \A d, j : j \in Successes(more, d) <=>
                \/ j \in Successes(rows, d)
                \/ j = Len(rows) + 1 /\ new.doc = d /\ new.version # NoContent
    BY OneMore
  <2> QED BY <2>1, <2>2, <2>3, <2>4, <2>5
<1>2. {j \in Successes(more, more[i].doc) : more[j].changed /\ j <= i}
      = {j \in Successes(rows, rows[i].doc) : rows[j].changed /\ j <= i}
  BY <1>1
<1>3. Transition(more, i) = Transition(rows, i)
  BY <1>2 DEF Transition
<1>4. HasChange(rows, i) => HasChange(more, i)
  BY <1>1 DEF HasChange
<1> QED BY <1>3, <1>4

LEMMA FirstSeenKept ==
    ASSUME NEW rows \in Seq(PilotRow), NEW new \in PilotRow, NEW more, Adds(rows, new, more),
           NEW i \in DOMAIN rows, rows[i].version # NoContent
    PROVE  FirstSeen(more, i) = FirstSeen(rows, i)
<1> DEFINE m == FirstSeen(rows, i)
<1>1. IsFirst(rows, i, m)
  BY FirstSeenExists
<1> HIDE DEF m
<1>2. /\ more \in Seq(PilotRow) /\ i \in DOMAIN more /\ more[i] = rows[i]
      /\ \A k \in Successes(rows, rows[i].doc) : more[k] = rows[k]
  BY OneMore DEF Successes
<1>3. m \in 1 .. Len(rows) /\ Len(rows) \in Nat
  BY <1>1, SuccessRows DEF IsFirst
<1>4. IsFirst(more, i, m)
  <2>5. \A d, j : j \in Successes(more, d) <=>
                \/ j \in Successes(rows, d)
                \/ j = Len(rows) + 1 /\ new.doc = d /\ new.version # NoContent
    BY OneMore
  <2>3. \A j : j \in Successes(more, rows[i].doc) =>
           j \in Successes(rows, rows[i].doc) \/ j = Len(rows) + 1
    BY <2>5
  <2>4. \A j : j \in Successes(rows, rows[i].doc) => j \in Successes(more, rows[i].doc)
    BY OneMore
  <2>1. m \in Successes(more, more[i].doc) /\ more[m].version = more[i].version
    BY <1>1, <1>2, <2>4 DEF IsFirst
  <2>2. ASSUME NEW k \in Successes(more, more[i].doc), more[k].version = more[i].version
        PROVE  m <= k
    <3>1. CASE k \in Successes(rows, rows[i].doc)
      BY <1>1, <1>2, <2>2, <3>1 DEF IsFirst
    <3>2. CASE k = Len(rows) + 1
      BY <1>3, <3>2
    <3> QED BY <1>2, <2>3, <3>1, <3>2
  <2> QED BY <2>1, <2>2 DEF IsFirst
<1> QED BY <1>2, <1>4, FirstSeenIs DEF m

(* The rows and the batch of a job do not change when another one adds a row. *)
Unique(rows) == \A i, j \in DOMAIN rows :
    rows[i].job = rows[j].job /\ rows[i].doc = rows[j].doc => i = j

LEMMA RowOfIs ==
    ASSUME NEW rows, Unique(rows), NEW job, NEW d, NEW i \in DOMAIN rows, RowFor(rows, job, d, i)
    PROVE  RowOf(rows, job, d) = i
<1>1. RowOf(rows, job, d) \in DOMAIN rows /\ RowFor(rows, job, d, RowOf(rows, job, d))
  BY DEF RowOf, RowFor
<1> QED BY <1>1 DEF Unique, RowFor

LEMMA JobKept ==
    ASSUME NEW rows \in Seq(PilotRow), NEW new \in PilotRow, NEW more, Adds(rows, new, more),
           Unique(more), NEW job, new.job # job
    PROVE  /\ RowsOf(more, job) = RowsOf(rows, job)
           /\ AllSeen(rows, job) => AllSeen(more, job) /\ BatchOf(more, job) = BatchOf(rows, job)
<1>1. /\ DOMAIN rows = 1 .. Len(rows) /\ DOMAIN more = 1 .. Len(rows) + 1 /\ Len(rows) \in Nat
      /\ \A i \in DOMAIN rows : i \in DOMAIN more /\ more[i] = rows[i]
      /\ more[Len(rows) + 1] = new
  BY OneMore
<1>2. \A i : i \in DOMAIN more <=> i \in DOMAIN rows \/ i = Len(rows) + 1
  BY <1>1
<1>3. {k \in DOMAIN more : more[k].job = job} = {k \in DOMAIN rows : rows[k].job = job}
  BY <1>1, <1>2
<1>4. RowsOf(more, job) = RowsOf(rows, job)
  BY <1>1, <1>3 DEF RowsOf
<1>5. Unique(rows)
  BY <1>1 DEF Unique
<1>6. ASSUME AllSeen(rows, job) PROVE AllSeen(more, job) /\ BatchOf(more, job) = BatchOf(rows, job)
  <2>1. AllSeen(more, job)
    BY <1>1, <1>6 DEF AllSeen
  <2>2. ASSUME NEW d \in PilotDoc
        PROVE  /\ RowOf(more, job, d) = RowOf(rows, job, d)
               /\ RowOf(rows, job, d) \in DOMAIN rows
    <3>1. PICK i \in DOMAIN rows : RowFor(rows, job, d, i)
      BY <1>6 DEF AllSeen, RowFor
    <3>2. i \in DOMAIN more /\ RowFor(more, job, d, i)
      BY <1>1, <3>1 DEF RowFor
    <3>3. RowOf(rows, job, d) = i /\ RowOf(more, job, d) = i
      BY <1>5, <3>1, <3>2, RowOfIs
    <3> QED BY <3>3
  <2>3. ASSUME NEW i \in DOMAIN rows, rows[i].version # NoContent
        PROVE  /\ FirstSeen(more, i) = FirstSeen(rows, i)
               /\ Transition(more, i) = Transition(rows, i)
    <3>1. FirstSeen(more, i) = FirstSeen(rows, i)
      BY <2>3, FirstSeenKept
    <3>2. Transition(more, i) = Transition(rows, i)
      BY TransitionKept
    <3> QED BY <3>1, <3>2
  <2> QED BY <1>1, <2>1, <2>2, <2>3 DEF BatchOf
<1> QED BY <1>4, <1>6

(* A row that was dated exactly stays so, and a new row is, if it is marked *)
(* as a change when the last success before it showed another version.      *)
LEMMA ExactKept ==
    ASSUME NEW rows \in Seq(PilotRow), NEW new \in PilotRow, NEW more, Adds(rows, new, more),
           NEW i \in DOMAIN rows, HasChange(rows, i), ExactlyDated(rows, i)
    PROVE  ExactlyDated(more, i)
<1> DEFINE d == rows[i].doc
           t == Transition(rows, i)
           before == {j \in Successes(rows, d) : j < t}
<1>1. Transition(more, i) = t
  BY TransitionKept
<1>2. t <= i /\ t \in Successes(rows, d)
  BY TransitionExists
<1>3. /\ more[i] = rows[i] /\ i \in 1 .. Len(rows) /\ Len(rows) \in Nat
      /\ \A j \in Successes(rows, d) : more[j] = rows[j]
  BY OneMore DEF Successes
<1>4. \A j : j \in Successes(more, d) /\ j <= i <=> j \in Successes(rows, d) /\ j <= i
  <2>1. ~(Len(rows) + 1 <= i)
    BY <1>3
  <2>2. \A e, j : j \in Successes(more, e) <=>
                \/ j \in Successes(rows, e)
                \/ j = Len(rows) + 1 /\ new.doc = e /\ new.version # NoContent
    BY OneMore
  <2> QED BY <2>1, <2>2
<1>5. \A j : j \in Successes(rows, d) \/ j \in Successes(more, d) => j \in Int
  BY OneMore DEF Successes
<1>6. t \in Int /\ i \in Int
  BY <1>2, <1>3, <1>5
<1>7. {j \in Successes(more, d) : j < t} = before
  BY <1>2, <1>4, <1>5, <1>6
<1>8. before # {} => more[Latest(before)] = rows[Latest(before)]
  <2>1. before \in SUBSET (1 .. Len(rows))
    BY SuccessRows
  <2>2. before # {} => Latest(before) \in before
    <3> HIDE DEF before
    <3> QED BY <1>3, <2>1, LatestExists
  <2> QED BY <1>3, <2>2
<1>9. /\ \A j \in Successes(rows, d) : t <= j /\ j <= i => rows[j].version = rows[i].version
      /\ before # {} => rows[Latest(before)].version # rows[i].version
  BY DEF ExactlyDated
<1>10. \A j \in Successes(more, d) : t <= j /\ j <= i => more[j].version = more[i].version
  BY <1>3, <1>4, <1>9
<1> HIDE DEF before, t, d
<1>11. before # {} => more[Latest(before)].version # more[i].version
  BY <1>3, <1>8, <1>9
<1>12. more[i].doc = d
  BY <1>3 DEF d
<1> QED BY <1>1, <1>7, <1>10, <1>11, <1>12 DEF ExactlyDated

LEMMA ExactNew ==
    ASSUME NEW rows \in Seq(PilotRow), NEW new \in PilotRow, NEW more, Adds(rows, new, more),
           \A i \in DOMAIN rows : rows[i].version # NoContent => HasChange(rows, i) /\ ExactlyDated(rows, i)
    PROVE  new.version # NoContent /\ (new.changed <=> ChangedFromLast(rows, new.doc, new.version))
           => HasChange(more, Len(rows) + 1) /\ ExactlyDated(more, Len(rows) + 1)
<1>0. \A d, j : j \in Successes(more, d) <=>
                \/ j \in Successes(rows, d)
                \/ j = Len(rows) + 1 /\ new.doc = d /\ new.version # NoContent
  BY OneMore
<1> SUFFICES ASSUME new.version # NoContent,
                    new.changed <=> ChangedFromLast(rows, new.doc, new.version)
             PROVE  HasChange(more, Len(rows) + 1) /\ ExactlyDated(more, Len(rows) + 1)
  OBVIOUS
<1> DEFINE n == Len(rows) + 1
           seen == Successes(rows, new.doc)
           seenNow == Successes(more, new.doc)
<1>1. /\ n \in Nat /\ more[n] = new /\ n \in DOMAIN more /\ DOMAIN more = 1 .. n
      /\ DOMAIN rows = 1 .. Len(rows) /\ Len(rows) \in Nat
      /\ \A j \in DOMAIN rows : more[j] = rows[j] /\ j < n /\ j \in Int
  BY OneMore
<1>2. \A j : j \in seenNow <=> j \in seen \/ j = n
  BY <1>0
<1>3. \A j \in seen : /\ j \in DOMAIN rows /\ more[j] = rows[j] /\ rows[j].doc = new.doc
                      /\ rows[j].version # NoContent
  BY <1>1 DEF Successes
<1>4. seen \in SUBSET (1 .. Len(rows)) /\ seenNow \in SUBSET (1 .. n)
  BY <1>1 DEF Successes
<1> HIDE DEF n, seen, seenNow
<1>5. CASE new.changed
  <2> DEFINE changes == {j \in seenNow : more[j].changed /\ j <= n}
  <2>1. n \in changes /\ changes \in SUBSET (1 .. n) /\ \A j \in changes : j <= n
    <3>1. n \in changes
      BY <1>1, <1>2, <1>5
    <3>2. changes \in SUBSET (1 .. n)
      BY <1>4
    <3> QED BY <3>1, <3>2
  <2>2. Transition(more, n) = Latest(changes)
    BY <1>1 DEF Transition, seenNow
  <2>3. Latest(changes) = n
    <3> HIDE DEF changes
    <3> QED BY <1>1, <2>1, LatestIs
  <2>4. HasChange(more, n)
    BY <1>1, <2>1 DEF HasChange, seenNow
  <2>5. {j \in seenNow : j < n} = seen
    BY <1>1, <1>2, <1>3
  <2>6. seen # {} => more[Latest(seen)].version # more[n].version
    <3>1. seen # {} => Latest(seen) \in seen
      BY <1>1, <1>4, LatestExists
    <3>2. seen # {} => rows[Latest(seen)].version # new.version
      BY <1>5 DEF ChangedFromLast, seen
    <3> QED BY <1>1, <1>3, <3>1, <3>2
  <2>7. \A j \in seenNow : n <= j /\ j <= n => more[j].version = more[n].version
    <3>1. \A j \in seenNow : j \in Int
      BY <1>4
    <3> QED BY <1>1, <3>1
  <2>8. more[n].doc = new.doc
    BY <1>1
  <2> HIDE DEF changes
  <2>9. ExactlyDated(more, n)
    <3> DEFINE now == {j \in seenNow : j < n}
    <3>1. now # {} => more[Latest(now)].version # more[n].version
      BY <2>5, <2>6
    <3>2. Transition(more, n) = n
      BY <2>2, <2>3
    <3> HIDE DEF now
    <3> QED BY <2>7, <2>8, <3>1, <3>2 DEF ExactlyDated, seenNow, now
  <2> QED BY <2>4, <2>9 DEF n
<1>6. CASE ~new.changed
  <2> DEFINE last == Latest(seen)
  <2>1. seen # {} /\ rows[last].version = new.version
    BY <1>6 DEF ChangedFromLast, seen
  <2>2. last \in seen /\ \A j \in seen : j <= last
    BY <1>1, <1>4, <2>1, LatestExists
  <2> HIDE DEF last
  <2>3. /\ last \in DOMAIN rows /\ last < n /\ last \in Int /\ rows[last].doc = new.doc
        /\ HasChange(rows, last) /\ ExactlyDated(rows, last)
    BY <1>1, <1>3, <2>2
  <2> DEFINE t == Transition(rows, last)
  <2>4. t \in seen /\ rows[t].changed /\ t <= last
    BY <2>3, TransitionExists DEF seen
  <2>5. {j \in seenNow : more[j].changed /\ j <= n} = {j \in seen : rows[j].changed /\ j <= last}
    BY <1>1, <1>2, <1>3, <1>6, <2>2
  <2>6. Transition(more, n) = t
    BY <1>1, <2>3, <2>5 DEF Transition, seenNow, seen
  <2> HIDE DEF t
  <2>7. HasChange(more, n)
    <3>1. t \in seenNow /\ more[t].changed /\ t <= n
      BY <1>1, <1>2, <1>3, <2>3, <2>4
    <3> QED BY <1>1, <3>1 DEF HasChange, seenNow
  <2>8. {j \in seenNow : j < t} = {j \in seen : j < t}
    <3>1. t \in Int /\ ~(n < t)
      BY <1>1, <1>3, <2>3, <2>4
    <3> QED BY <1>2, <1>1, <3>1
  <2> DEFINE before == {j \in seen : j < t}
  <2>9. /\ \A j \in seen : t <= j /\ j <= last => rows[j].version = rows[last].version
        /\ before # {} => rows[Latest(before)].version # rows[last].version
    BY <2>3 DEF ExactlyDated, seen, t
  <2>10. before # {} => more[Latest(before)] = rows[Latest(before)]
    <3>1. before \in SUBSET (1 .. Len(rows))
      BY <1>4
    <3>2. before # {} => Latest(before) \in before
      <4> HIDE DEF before
      <4> QED BY <1>1, <3>1, LatestExists
    <3> QED BY <1>3, <3>2
  <2>11. \A j \in seenNow : t <= j /\ j <= n => more[j].version = more[n].version
    BY <1>1, <1>2, <1>3, <2>1, <2>2, <2>9
  <2>12. before # {} => more[Latest(before)].version # more[n].version
    <3> HIDE DEF before
    <3> QED BY <1>1, <2>1, <2>9, <2>10
  <2>13. more[n].doc = new.doc
    BY <1>1
  <2>14. ExactlyDated(more, n)
    <3> DEFINE now == {j \in seenNow : j < t}
    <3>1. now = before
      BY <2>8
    <3> HIDE DEF now, before
    <3>2. now # {} => more[Latest(now)].version # more[n].version
      BY <2>12, <3>1
    <3> QED BY <2>6, <2>11, <2>13, <3>2 DEF ExactlyDated, seenNow, now
  <2> QED BY <2>7, <2>14 DEF n
<1> QED BY <1>5, <1>6

-----------------------------------------------------------------------------
(* Processes.                                                               *)

PilotSteps == {"document", "original", "row", "failure", "copy", "report", "prepare"}

LEMMA PilotFields ==
    ASSUME PilotTypeOK, NEW p \in Pilot, pilot[p].step # "off"
    PROVE  /\ Busy(p) /\ pilot[p].step \in PilotSteps /\ pilot[p].job \in PilotJob
           /\ pilot[p].doc \in PilotDoc /\ pilot[p].got \in PageVersion \cup {NoContent}
           /\ pilot[p].rows \in Seq(PilotRow) /\ pilot[p].s3 \in BOOLEAN
<1>1. pilot[p] \in {NoPilot} \cup Collecting
  BY DEF PilotTypeOK
<1>2. pilot[p] # NoPilot
  BY DEF NoPilot
<1>3. pilot[p] \in Collecting
  BY <1>1, <1>2
<1> QED BY <1>2, <1>3 DEF Busy, Collecting, PilotSteps

LEMMA GoesTo ==
    ASSUME PilotTypeOK, NEW p \in Pilot, pilot[p].step # "off", NEW step \in PilotSteps,
           NEW doc \in PilotDoc, NEW got \in PageVersion \cup {NoContent},
           NEW rows \in Seq(PilotRow), PilotGoes(p, step, doc, got, rows)
    PROVE  /\ pilot' \in [Pilot -> {NoPilot} \cup Collecting] /\ Busy(p)'
           /\ pilot'[p].step = step /\ pilot'[p].job = pilot[p].job /\ pilot'[p].doc = doc
           /\ pilot'[p].got = got /\ pilot'[p].rows = rows /\ pilot'[p].s3 = pilot[p].s3
           /\ \A q \in Pilot \ {p} : pilot'[q] = pilot[q]
<1> DEFINE now == [step |-> step, job |-> pilot[p].job, s3 |-> pilot[p].s3, doc |-> doc,
                   got |-> got, rows |-> rows]
<1>1. pilot \in [Pilot -> {NoPilot} \cup Collecting] /\ pilot' = [pilot EXCEPT ![p] = now]
  BY DEF PilotTypeOK, PilotGoes
<1>2. now \in Collecting
  BY PilotFields DEF Collecting, PilotSteps
<1>3. now.step # "off" /\ NoPilot.step = "off"
  BY DEF PilotSteps, NoPilot
<1>4. /\ now.step = step /\ now.job = pilot[p].job /\ now.doc = doc /\ now.got = got
      /\ now.rows = rows /\ now.s3 = pilot[p].s3
  OBVIOUS
<1> HIDE DEF now
<1>5. /\ pilot' \in [Pilot -> {NoPilot} \cup Collecting] /\ pilot'[p] = now
      /\ \A q \in Pilot \ {p} : pilot'[q] = pilot[q]
  BY <1>1, <1>2
<1>6. Busy(p)'
  BY <1>3, <1>5 DEF Busy
<1> QED BY <1>4, <1>5, <1>6

(* While one process works no other does.                                   *)
LEMMA OneWorks ==
    ASSUME PilotIInv, NEW p \in Pilot, Busy(p)
    PROVE  /\ holders = {p} /\ pilot[p].rows = disk
           /\ \A q \in Pilot \ {p} : ~Busy(q)
<1>1. OneHolder /\ holders \subseteq Pilot
  BY DEF PilotIInv, PilotConsistent, PilotTypeOK
<1> QED BY <1>1 DEF OneHolder

(* What the rows on disk promise stays while only files are added.          *)
LEMMA DiskSame ==
    ASSUME PilotIInv, UNCHANGED <<disk, reports, batches, preserved>>,
           originals \subseteq originals', copies \subseteq copies'
    PROVE  /\ (RowsSupported /\ ReportsHold /\ ReportedCopied /\ VersionsDated /\ Dated
               /\ FinishedSeen)'
<1> USE DEF PilotIInv, PilotConsistent
<1>1. RowsSupported' /\ ReportsHold'
  BY DEF RowsSupported, ReportsHold
<1>2. ReportedCopied'
  BY DEF ReportedCopied
<1>3. VersionsDated'
  BY DEF VersionsDated, TransitionsExact, BatchesRepeat
<1>4. (Dated /\ FinishedSeen)'
  BY DEF Dated, FinishedSeen
<1> QED BY <1>1, <1>2, <1>3, <1>4

(* A process moves on with what is on disk.                                 *)
LEMMA Moves ==
    ASSUME PilotIInv, NEW p \in Pilot, pilot[p].step # "off",
           NEW step \in PilotSteps, NEW doc \in PilotDoc,
           NEW got \in PageVersion \cup {NoContent}, PilotGoes(p, step, doc, got, pilot[p].rows),
           UNCHANGED <<shows, disk, holders, reports, batches, preserved>>,
           originals \subseteq originals', originals' \subseteq PilotDoc \X PageVersion,
           copies \subseteq copies', copies' \subseteq PilotDoc \X PageVersion,
           pilotFaults' \in 0 .. PilotFaults, InHandOf(p)', PassedOf(p)'
    PROVE  PilotIInv'
<1> USE DEF PilotIInv, PilotConsistent
<1>1. Busy(p) /\ pilot[p].rows \in Seq(PilotRow)
  BY PilotFields
<1>2. /\ pilot' \in [Pilot -> {NoPilot} \cup Collecting] /\ Busy(p)' /\ pilot'[p].rows = pilot[p].rows
      /\ \A q \in Pilot \ {p} : pilot'[q] = pilot[q]
  BY <1>1, GoesTo
<1>3. holders = {p} /\ pilot[p].rows = disk /\ \A q \in Pilot \ {p} : ~Busy(q)
  BY <1>1, OneWorks
<1>4. \A q \in Pilot \ {p} : ~Busy(q)'
  BY <1>2, <1>3 DEF Busy
<1>5. OneHolder'
  BY <1>2, <1>3, <1>4 DEF OneHolder
<1>6. (InHand /\ PassedDone)'
  BY <1>4 DEF InHand, PassedDone, InHandOf, PassedOf
<1>7. PilotTypeOK'
  BY <1>2 DEF PilotTypeOK
<1> QED BY <1>5, <1>6, <1>7, DiskSame

(* A process ends, and with it its memory and its lock.                     *)
LEMMA EndsAlone ==
    ASSUME PilotIInv, NEW p \in Pilot, pilot[p].step # "off", PilotEnds(p)
    PROVE  /\ pilot' \in [Pilot -> {NoPilot} \cup Collecting] /\ holders' = {}
           /\ (OneHolder /\ InHand /\ PassedDone)'
<1>1. Busy(p) /\ pilot \in [Pilot -> {NoPilot} \cup Collecting]
  BY PilotFields DEF PilotIInv, PilotConsistent, PilotTypeOK
<1>2. holders = {p} /\ \A q \in Pilot \ {p} : ~Busy(q)
  BY <1>1, OneWorks
<1>3. pilot' \in [Pilot -> {NoPilot} \cup Collecting] /\ \A q \in Pilot : ~Busy(q)'
  BY <1>1, <1>2 DEF PilotEnds, Busy
<1>4. holders' = {}
  BY <1>2 DEF PilotEnds
<1> QED BY <1>3, <1>4 DEF OneHolder, InHand, PassedDone, InHandOf, PassedOf

LEMMA PilotInitHolds == ASSUME PilotAssumption PROVE PilotInit => PilotIInv
<1> SUFFICES ASSUME PilotInit PROVE PilotIInv
  OBVIOUS
<1> USE DEF PilotInit
<1>1. PilotTypeOK
  BY DEF PilotTypeOK, PilotAssumption
<1>2. \A p \in Pilot : ~Busy(p)
  BY DEF Busy
<1>3. RowsSupported /\ ReportsHold /\ ReportedCopied /\ VersionsDated /\ Dated /\ FinishedSeen
  BY DEF RowsSupported, ReportsHold, ReportedCopied, VersionsDated, TransitionsExact,
     BatchesRepeat, Dated, FinishedSeen
<1> QED BY <1>1, <1>2, <1>3
     DEF PilotIInv, PilotConsistent, OneHolder, InHand, PassedDone, InHandOf, PassedOf

LEMMA PageReplacedHolds ==
    ASSUME PilotIInv, NEW d \in PilotDoc, PageReplaced(d) PROVE PilotIInv'
<1> USE DEF PilotIInv, PilotConsistent
<1>1. UNCHANGED <<disk, pilot, holders, originals, copies, reports, batches, preserved, pilotFaults>>
  BY DEF PageReplaced, outputs
<1>2. PilotTypeOK'
  BY <1>1 DEF PageReplaced, PilotTypeOK
<1>3. (OneHolder /\ InHand /\ PassedDone)'
  BY <1>1 DEF OneHolder, InHand, PassedDone, InHandOf, PassedOf, Busy, Passed, Copied, HasRow, Doing
<1> QED BY <1>1, <1>2, <1>3, DiskSame

LEMMA OpenHolds ==
    ASSUME PilotIInv, PilotAssumption, NEW p \in Pilot, NEW job \in PilotJob,
           NEW step \in {"document", "prepare"}, NEW s3 \in BOOLEAN, OpenStore(p, job, step, s3)
    PROVE  PilotIInv'
<1> USE DEF PilotIInv, PilotConsistent
<1> DEFINE new == [step |-> step, job |-> job, s3 |-> s3, doc |-> 1, got |-> NoContent,
                   rows |-> disk]
<1>1. UNCHANGED <<shows, disk, originals, copies, reports, batches, preserved, pilotFaults>>
  BY DEF OpenStore, outputs
<1>2. /\ holders = {} /\ holders' = {p} /\ pilot' = [pilot EXCEPT ![p] = new]
      /\ pilot \in [Pilot -> {NoPilot} \cup Collecting]
  BY DEF OpenStore, StoreFree, PilotTypeOK
<1>3. new \in Collecting /\ new # NoPilot
  BY DEF Collecting, PilotTypeOK, PilotDoc, PilotAssumption, NoPilot
<1>4. new.step = step /\ new.rows = disk /\ new.doc = 1 /\ new.job = job
  OBVIOUS
<1> HIDE DEF new
<1>5. /\ pilot' \in [Pilot -> {NoPilot} \cup Collecting] /\ pilot'[p] = new
      /\ \A q \in Pilot \ {p} : pilot'[q] = pilot[q]
  BY <1>2, <1>3
<1>6. \A q \in Pilot \ {p} : ~Busy(q)'
  BY <1>2, <1>5 DEF OneHolder, Busy
<1>7. Busy(p)'
  BY <1>3, <1>5 DEF Busy
<1>8. PilotTypeOK'
  BY <1>1, <1>2, <1>5 DEF PilotTypeOK
<1>9. OneHolder'
  BY <1>1, <1>2, <1>4, <1>5, <1>6, <1>7 DEF OneHolder
<1>10. InHand'
  BY <1>4, <1>5, <1>6 DEF InHand, InHandOf
<1>11. Passed(p)' = {}
  BY <1>4, <1>5 DEF Passed, PilotDoc
<1>12. PassedDone'
  BY <1>6, <1>11 DEF PassedDone, PassedOf
<1> QED BY <1>1, <1>8, <1>9, <1>10, <1>12, DiskSame

LEMMA NextGoes ==
    ASSUME PilotTypeOK, PilotAssumption, NEW p \in Pilot, pilot[p].step # "off", NextDocument(p)
    PROVE  /\ pilot'[p].step = IF pilot[p].doc = Docs THEN "report" ELSE "document"
           /\ pilot'[p].job = pilot[p].job /\ pilot'[p].s3 = pilot[p].s3
           /\ pilot'[p].doc = IF pilot[p].doc = Docs THEN pilot[p].doc ELSE pilot[p].doc + 1
<1>1. pilot' = [pilot EXCEPT ![p] =
          [step |-> IF pilot[p].doc = Docs THEN "report" ELSE "document", job |-> pilot[p].job,
           s3 |-> pilot[p].s3,
           doc |-> IF pilot[p].doc = Docs THEN pilot[p].doc ELSE pilot[p].doc + 1,
           got |-> NoContent, rows |-> pilot[p].rows]]
  <2>1. CASE pilot[p].doc = Docs
    BY <2>1 DEF NextDocument, PilotGoes
  <2>2. CASE pilot[p].doc # Docs
    BY <2>2 DEF NextDocument, PilotGoes
  <2> QED BY <2>1, <2>2
<1>2. p \in DOMAIN pilot
  BY DEF PilotTypeOK
<1>3. pilot'[p] = [step |-> IF pilot[p].doc = Docs THEN "report" ELSE "document",
           job |-> pilot[p].job, s3 |-> pilot[p].s3,
           doc |-> IF pilot[p].doc = Docs THEN pilot[p].doc ELSE pilot[p].doc + 1,
           got |-> NoContent, rows |-> pilot[p].rows]
  BY <1>1, <1>2
<1> QED BY <1>3

(* The documents up to the one that is done are passed.                     *)
LEMMA NextHolds ==
    ASSUME PilotIInv, PilotAssumption, NEW p \in Pilot, pilot[p].step \in {"document", "copy"},
           NextDocument(p), UNCHANGED <<shows, disk, holders, reports, batches, preserved, originals>>,
           copies \subseteq copies', copies' \subseteq PilotDoc \X PageVersion,
           pilotFaults' \in 0 .. PilotFaults,
           NEW job, NEW here, job = pilot[p].job, here = pilot[p].doc,
           HasRow(disk, job, here), pilot[p].s3 => Copied(job, here)'
    PROVE  PilotIInv'
<1>0. PilotTypeOK /\ PassedDone
  BY DEF PilotIInv, PilotConsistent
<1> DEFINE last == pilot[p].doc = Docs
           step == IF last THEN "report" ELSE "document"
           doc == IF last THEN pilot[p].doc ELSE pilot[p].doc + 1
<1>1. /\ pilot[p].doc \in PilotDoc /\ Busy(p) /\ pilot[p].rows \in Seq(PilotRow)
      /\ pilot[p].step # "off" /\ pilot[p].step \notin {"prepare", "report"}
  BY <1>0, PilotFields
<1>2. step \in PilotSteps /\ doc \in PilotDoc /\ PilotGoes(p, step, doc, NoContent, pilot[p].rows)
      /\ NoContent \in PageVersion \cup {NoContent}
  BY <1>1 DEF NextDocument, PilotSteps, PilotDoc, PilotAssumption
<1>3. \A d \in PilotDoc : step = "report" \/ d < doc => d < pilot[p].doc \/ d = pilot[p].doc
  BY <1>1 DEF PilotDoc, PilotAssumption
<1>4. step \in {"report", "document"}
  OBVIOUS
<1> HIDE DEF step, doc, last
<1>5. /\ pilot'[p].step = step /\ pilot'[p].job = pilot[p].job /\ pilot'[p].doc = doc
      /\ pilot'[p].s3 = pilot[p].s3
  BY <1>0, <1>1, NextGoes DEF step, doc, last
<1>6. InHandOf(p)'
  BY <1>4, <1>5 DEF InHandOf
<1>7. \A d \in Passed(p)' : d \in Passed(p) \/ d = here
  BY <1>1, <1>3, <1>5 DEF Passed
<1>8. \A d \in Passed(p) : HasRow(disk, job, d) /\ (pilot[p].s3 => Copied(job, d))
  BY <1>0, <1>1 DEF PassedDone, PassedOf
<1>9. \A d \in PilotDoc : Copied(job, d) => Copied(job, d)'
  BY DEF Copied
<1>10. \A d \in Passed(p)' : HasRow(disk, job, d) /\ (pilot[p].s3 => Copied(job, d)')
  <2>1. \A d \in Passed(p) : d \in PilotDoc
    BY DEF Passed
  <2> QED BY <1>7, <1>8, <1>9, <2>1
<1>11. PassedOf(p)'
  BY <1>5, <1>10 DEF PassedOf, Copied
<1>12. originals' \subseteq PilotDoc \X PageVersion
  BY <1>0 DEF PilotTypeOK
<1> QED BY <1>1, <1>2, <1>6, <1>11, <1>12, Moves

(* The row of a document is the only one, and it has its original.          *)
LEMMA ReplayHolds ==
    ASSUME PilotIInv, PilotAssumption, NEW p \in Pilot, Replay(p) PROVE PilotIInv'
<1>1. PilotTypeOK /\ RowsSupported /\ pilot[p].step = "document" /\ pilot[p].step # "off"
  BY DEF PilotIInv, PilotConsistent, Replay, PilotAt
<1>2. Busy(p) /\ pilot[p].doc \in PilotDoc /\ pilot[p].job \in PilotJob /\ pilot[p].rows \in Seq(PilotRow)
  BY <1>1, PilotFields
<1>3. pilot[p].rows = disk
  BY <1>2, OneWorks
<1>4. UNCHANGED <<shows, disk, holders, originals, copies, reports, batches, preserved, pilotFaults>>
  BY DEF Replay, outputs
<1>5. /\ originals' \subseteq PilotDoc \X PageVersion /\ copies' \subseteq PilotDoc \X PageVersion
      /\ pilotFaults' \in 0 .. PilotFaults
  BY <1>1, <1>4 DEF PilotTypeOK
<1>6. PICK i \in Prior(p) :
        IF pilot[p].rows[i].version = NoContent \/ ~pilot[p].s3 THEN NextDocument(p)
        ELSE PilotGoes(p, "copy", pilot[p].doc, pilot[p].rows[i].version, pilot[p].rows)
  BY DEF Replay, ReplayStep
<1>7. i \in DOMAIN disk /\ RowFor(disk, pilot[p].job, pilot[p].doc, i) /\ disk[i] \in PilotRow
  BY <1>1, <1>3 DEF Prior, RowFor, PilotTypeOK
<1>8. CASE disk[i].version = NoContent \/ ~pilot[p].s3
  <2>1. PICK job, here : job = pilot[p].job /\ here = pilot[p].doc
    OBVIOUS
  <2>2. NextDocument(p) /\ HasRow(disk, job, here)
    BY <1>3, <1>6, <1>7, <1>8, <2>1 DEF HasRow
  <2>3. pilot[p].s3 => Copied(job, here)'
    BY <1>1, <1>4, <1>7, <1>8, <2>1 DEF Copied, RowFor, RowsSupported
  <2> QED BY <1>1, <1>4, <1>5, <2>1, <2>2, <2>3, NextHolds
<1>9. CASE disk[i].version # NoContent /\ pilot[p].s3
  <2>1. PICK version \in PageVersion : disk[i].version = version
    BY <1>7, <1>9 DEF PilotRow
  <2>2. PilotGoes(p, "copy", pilot[p].doc, version, pilot[p].rows)
    BY <1>3, <1>6, <1>9, <2>1
  <2>3. /\ pilot'[p].step = "copy" /\ pilot'[p].job = pilot[p].job /\ pilot'[p].doc = pilot[p].doc
        /\ pilot'[p].got = version /\ pilot'[p].s3 = pilot[p].s3
    BY <1>1, <1>2, <2>2, GoesTo DEF PilotSteps
  <2>4. version # NoContent
    BY <1>9, <2>1
  <2>5. InHandOf(p)'
    BY <1>4, <1>7, <2>1, <2>3, <2>4 DEF InHandOf, RowFor
  <2>6. PassedOf(p)'
    <3>1. Passed(p)' = Passed(p)
      BY <1>1, <2>3 DEF Passed
    <3> QED BY <1>2, <1>4, <2>3, <3>1 DEF PilotIInv, PassedDone, PassedOf, Copied
  <2> QED BY <1>1, <1>2, <1>4, <1>5, <2>2, <2>5, <2>6, Moves DEF PilotSteps
<1> QED BY <1>8, <1>9

(* Fetching, failing and saving change what is in hand, not the rows.       *)
LEMMA InHandMoves ==
    ASSUME PilotIInv, NEW p \in Pilot, pilot[p].step \in {"document", "original"},
           NEW step \in {"original", "row", "failure"},
           NEW got \in PageVersion \cup {NoContent}, step # "failure" => got # NoContent,
           PilotGoes(p, step, pilot[p].doc, got, pilot[p].rows),
           ~HasRow(disk, pilot[p].job, pilot[p].doc),
           step = "row" => <<pilot[p].doc, got>> \in originals',
           UNCHANGED <<shows, disk, holders, copies, reports, batches, preserved>>,
           originals \subseteq originals', originals' \subseteq PilotDoc \X PageVersion,
           pilotFaults' \in 0 .. PilotFaults
    PROVE  PilotIInv'
<1>1. PilotTypeOK /\ pilot[p].step # "off"
  BY DEF PilotIInv, PilotConsistent
<1>2. Busy(p) /\ pilot[p].doc \in PilotDoc /\ pilot[p].job \in PilotJob /\ pilot[p].rows \in Seq(PilotRow)
  BY <1>1, PilotFields
<1>3. /\ pilot'[p].step = step /\ pilot'[p].job = pilot[p].job /\ pilot'[p].doc = pilot[p].doc
      /\ pilot'[p].got = got /\ pilot'[p].s3 = pilot[p].s3
  BY <1>1, <1>2, GoesTo DEF PilotSteps
<1>4. InHandOf(p)'
  BY <1>3 DEF InHandOf, HasRow, RowFor, Doing
<1>5. PassedOf(p)'
  <2>1. Passed(p)' = Passed(p)
    BY <1>3 DEF Passed
  <2> QED BY <1>2, <1>3, <2>1 DEF PilotIInv, PassedDone, PassedOf, Copied, HasRow, RowFor
<1>6. copies' \subseteq PilotDoc \X PageVersion
  BY <1>1 DEF PilotTypeOK
<1> QED BY <1>1, <1>2, <1>4, <1>5, <1>6, Moves DEF PilotSteps

LEMMA FaultTyped ==
    ASSUME PilotIInv, PilotAssumption, PilotFault PROVE pilotFaults' \in 0 .. PilotFaults
BY DEF PilotIInv, PilotConsistent, PilotTypeOK, PilotFault, PilotAssumption

LEMMA FetchHolds ==
    ASSUME PilotIInv, PilotAssumption, NEW p \in Pilot, FetchPage(p) PROVE PilotIInv'
<1>1. PilotTypeOK /\ pilot[p].step = "document" /\ pilot[p].step # "off"
  BY DEF PilotIInv, PilotConsistent, FetchPage, PilotAt
<1>2. /\ Busy(p) /\ pilot[p].doc \in PilotDoc /\ pilot[p].rows \in Seq(PilotRow)
      /\ pilot[p].got \in PageVersion \cup {NoContent}
  BY <1>1, PilotFields
<1>3. pilot[p].rows = disk
  BY <1>2, OneWorks
<1>4. ~HasRow(disk, pilot[p].job, pilot[p].doc)
  BY <1>3 DEF FetchPage, Prior, HasRow, RowFor
<1>5. UNCHANGED <<shows, disk, holders, originals, copies, reports, batches, preserved>>
  BY DEF FetchPage, outputs
<1>6. originals' \subseteq PilotDoc \X PageVersion
  BY <1>1, <1>5 DEF PilotTypeOK
<1>7. CASE PilotGoes(p, "original", pilot[p].doc, shows[pilot[p].doc], pilot[p].rows)
           /\ UNCHANGED pilotFaults
  <2>1. PICK got \in PageVersion : shows[pilot[p].doc] = got
    BY <1>1, <1>2 DEF PilotTypeOK
  <2>2. got # NoContent /\ got \in PageVersion \cup {NoContent}
    BY DEF PilotAssumption, NoContent
  <2>3. PilotGoes(p, "original", pilot[p].doc, got, pilot[p].rows)
    BY <1>7, <2>1
  <2>4. pilotFaults' \in 0 .. PilotFaults
    BY <1>1, <1>7 DEF PilotTypeOK
  <2> QED BY <1>1, <1>4, <1>5, <1>6, <2>2, <2>3, <2>4, InHandMoves
<1>8. CASE PilotFault /\ PilotTurns(p, "failure")
  <2>1. PilotGoes(p, "failure", pilot[p].doc, pilot[p].got, pilot[p].rows)
    BY <1>8 DEF PilotTurns
  <2>2. pilotFaults' \in 0 .. PilotFaults
    BY <1>8, FaultTyped
  <2> QED BY <1>1, <1>2, <1>4, <1>5, <1>6, <2>1, <2>2, InHandMoves
<1> QED BY <1>7, <1>8 DEF FetchPage

LEMMA SaveOriginalHolds ==
    ASSUME PilotIInv, PilotAssumption, NEW p \in Pilot, SaveOriginal(p) \/ OriginalRefused(p)
    PROVE  PilotIInv'
<1>1. PilotTypeOK /\ InHand /\ pilot[p].step = "original" /\ pilot[p].step # "off"
  BY DEF PilotIInv, PilotConsistent, SaveOriginal, OriginalRefused, PilotAt
<1>2. /\ Busy(p) /\ pilot[p].doc \in PilotDoc /\ pilot[p].got \in PageVersion \cup {NoContent}
  BY <1>1, PilotFields
<1>3. pilot[p].got # NoContent /\ ~HasRow(disk, pilot[p].job, pilot[p].doc)
  BY <1>1, <1>2 DEF InHand, InHandOf
<1>4. UNCHANGED <<shows, disk, holders, copies, reports, batches, preserved>>
  BY DEF SaveOriginal, OriginalRefused, outputs
<1>5. CASE SaveOriginal(p)
  <2>1. PilotGoes(p, "row", pilot[p].doc, pilot[p].got, pilot[p].rows)
    BY <1>5 DEF SaveOriginal, PilotTurns
  <2>2. originals' = originals \cup {<<pilot[p].doc, pilot[p].got>>}
    BY <1>5 DEF SaveOriginal, StoreOriginal, Doing
  <2>3. /\ originals' \subseteq PilotDoc \X PageVersion /\ originals \subseteq originals'
        /\ pilotFaults' \in 0 .. PilotFaults /\ <<pilot[p].doc, pilot[p].got>> \in originals'
    BY <1>1, <1>2, <1>3, <1>5, <2>2 DEF PilotTypeOK, SaveOriginal
  <2> QED BY <1>1, <1>2, <1>3, <1>4, <2>1, <2>3, InHandMoves
<1>6. CASE OriginalRefused(p)
  <2>1. PilotGoes(p, "failure", pilot[p].doc, pilot[p].got, pilot[p].rows)
    BY <1>6 DEF OriginalRefused, PilotTurns
  <2>2. originals' = originals /\ originals \subseteq PilotDoc \X PageVersion
    BY <1>1, <1>6 DEF PilotTypeOK, OriginalRefused, outputs
  <2>3. pilotFaults' \in 0 .. PilotFaults
    BY <1>6, FaultTyped DEF OriginalRefused
  <2> QED BY <1>1, <1>2, <1>3, <1>4, <2>1, <2>2, <2>3, InHandMoves
<1> QED BY <1>5, <1>6

LEMMA CopyHolds ==
    ASSUME PilotIInv, PilotAssumption, NEW p \in Pilot, CopyOriginal(p) PROVE PilotIInv'
<1>1. PilotTypeOK /\ InHand /\ RowsSupported /\ pilot[p].step = "copy" /\ pilot[p].step # "off"
  BY DEF PilotIInv, PilotConsistent, CopyOriginal, PilotAt
<1>2. Busy(p) /\ pilot[p].doc \in PilotDoc /\ pilot[p].got \in PageVersion \cup {NoContent}
  BY <1>1, PilotFields
<1>3. pilot[p].got # NoContent
  BY <1>1, <1>2 DEF InHand, InHandOf
<1>4. PICK job, here : job = pilot[p].job /\ here = pilot[p].doc
  OBVIOUS
<1>5. PICK i \in DOMAIN disk : RowFor(disk, job, here, i) /\ disk[i].version = pilot[p].got
  BY <1>1, <1>2, <1>4 DEF InHand, InHandOf
<1>6. UNCHANGED <<shows, disk, holders, originals, reports, batches, preserved, pilotFaults>>
      /\ NextDocument(p) /\ copies' = copies \cup {<<here, pilot[p].got>>}
  BY <1>4 DEF CopyOriginal, Doing
<1>7. copies' \subseteq PilotDoc \X PageVersion /\ copies \subseteq copies' /\ pilotFaults' \in 0 .. PilotFaults
  BY <1>1, <1>2, <1>3, <1>4, <1>6 DEF PilotTypeOK
<1>8. HasRow(disk, job, here)
  BY <1>5 DEF HasRow
<1>9. Copied(job, here)'
  BY <1>1, <1>5, <1>6 DEF Copied, RowFor, RowsSupported
<1> QED BY <1>1, <1>4, <1>6, <1>7, <1>8, <1>9, NextHolds

(* A new row, of a document that the job had none of.                       *)
LEMMA RowAdded ==
    ASSUME PilotIInv, NEW new \in PilotRow, NEW more, Adds(disk, new, more), disk' = more,
           ~HasRow(disk, new.job, new.doc),
           new.version # NoContent => <<new.doc, new.version>> \in originals,
           UNCHANGED <<originals, copies, reports, batches, preserved>>
    PROVE  (new.version # NoContent =>
              (new.changed <=> ChangedFromLast(disk, new.doc, new.version)))
           => (RowsSupported /\ ReportsHold /\ ReportedCopied /\ VersionsDated /\ Dated
               /\ FinishedSeen)'
<1>1. /\ disk \in Seq(PilotRow) /\ RowsSupported /\ ReportsHold /\ ReportedCopied
      /\ TransitionsExact /\ BatchesRepeat /\ Dated /\ FinishedSeen
  BY DEF PilotIInv, PilotConsistent, VersionsDated, PilotTypeOK
<1> DEFINE n == Len(disk) + 1
<1>2. /\ Len(disk) \in Nat /\ DOMAIN disk = 1 .. Len(disk) /\ DOMAIN more = 1 .. n
      /\ \A i \in DOMAIN disk : i \in DOMAIN more /\ more[i] = disk[i]
      /\ more[n] = new
  BY <1>1, OneMore
<1>3. \A i \in DOMAIN more : i \in DOMAIN disk \/ i = n
  BY <1>2
<1> HIDE DEF n
<1>4. Unique(more)
  BY <1>1, <1>2, <1>3 DEF Unique, RowsSupported, HasRow, RowFor
<1>5. RowsSupported'
  <2>1. \A i \in DOMAIN more : more[i].version # NoContent =>
          <<more[i].doc, more[i].version>> \in originals'
    BY <1>1, <1>2, <1>3 DEF RowsSupported
  <2> QED BY <1>4, <2>1 DEF RowsSupported, Unique
<1>6. \A j : AllSeen(disk, j) => j # new.job
  BY DEF AllSeen, HasRow, RowFor, PilotRow
<1>7. \A j : j # new.job => /\ RowsOf(more, j) = RowsOf(disk, j)
                            /\ AllSeen(disk, j) => AllSeen(more, j)
                                                   /\ BatchOf(more, j) = BatchOf(disk, j)
  <2> SUFFICES ASSUME NEW j, new.job # j
               PROVE  /\ RowsOf(more, j) = RowsOf(disk, j)
                      /\ AllSeen(disk, j) => AllSeen(more, j) /\ BatchOf(more, j) = BatchOf(disk, j)
    OBVIOUS
  <2> QED BY <1>1, <1>4, JobKept
<1>8. \A j \in PilotJob : reports[j] # {} \/ batches[j] # {} \/ j \in preserved =>
        j # new.job /\ AllSeen(disk, j)
  BY <1>1, <1>6 DEF FinishedSeen
<1>9. ReportsHold'
  <2> SUFFICES ASSUME NEW j \in PilotJob, reports[j] # {} PROVE reports[j] \subseteq {RowsOf(more, j)}
    BY DEF ReportsHold
  <2> QED BY <1>1, <1>7, <1>8 DEF ReportsHold
<1>10. ReportedCopied'
  <2> SUFFICES ASSUME NEW j \in preserved, NEW i \in DOMAIN more,
                      more[i].job = j, more[i].version # NoContent
               PROVE  <<more[i].doc, more[i].version>> \in copies
    BY DEF ReportedCopied
  <2>0. j \in PilotJob
    BY DEF PilotIInv, PilotConsistent, PilotTypeOK
  <2>1. i \in DOMAIN disk /\ more[i] = disk[i]
    BY <1>2, <1>3, <1>8, <2>0
  <2> QED BY <1>1, <2>1 DEF ReportedCopied
<1>11. FinishedSeen'
  BY <1>7, <1>8 DEF FinishedSeen
<1>12. BatchesRepeat'
  <2> SUFFICES ASSUME NEW j \in PilotJob, NEW b \in batches[j] PROVE b = BatchOf(more, j)
    BY DEF BatchesRepeat
  <2> QED BY <1>1, <1>7, <1>8 DEF BatchesRepeat
<1> SUFFICES ASSUME new.version # NoContent =>
                      (new.changed <=> ChangedFromLast(disk, new.doc, new.version))
             PROVE  (VersionsDated /\ Dated)'
  BY <1>5, <1>9, <1>10, <1>11
<1>13. \A i \in DOMAIN disk : disk[i].version # NoContent => HasChange(disk, i) /\ ExactlyDated(disk, i)
  BY <1>1 DEF Dated, TransitionsExact
<1>14. \A i \in DOMAIN more : more[i].version # NoContent => HasChange(more, i) /\ ExactlyDated(more, i)
  <2> SUFFICES ASSUME NEW i \in DOMAIN more, more[i].version # NoContent
               PROVE  HasChange(more, i) /\ ExactlyDated(more, i)
    OBVIOUS
  <2>1. CASE i \in DOMAIN disk
    <3>1. HasChange(disk, i) /\ ExactlyDated(disk, i)
      BY <1>2, <1>13, <2>1
    <3>2. HasChange(more, i)
      BY <1>1, <2>1, <3>1, TransitionKept
    <3>3. ExactlyDated(more, i)
      BY <1>1, <2>1, <3>1, ExactKept
    <3> QED BY <3>2, <3>3
  <2>2. CASE i = n
    <3>1. new.version # NoContent
      BY <1>2, <2>2
    <3>2. HasChange(more, Len(disk) + 1) /\ ExactlyDated(more, Len(disk) + 1)
      BY <1>1, <1>13, <3>1, ExactNew
    <3> QED BY <2>2, <3>2 DEF n
  <2> QED BY <1>3, <2>1, <2>2
<1>15. (Dated /\ TransitionsExact)'
  <2>1. \A i \in DOMAIN disk' : disk'[i].version # NoContent =>
          HasChange(disk', i) /\ ExactlyDated(disk', i)
    BY <1>14
  <2>2. Dated'
    BY <2>1 DEF Dated
  <2>3. TransitionsExact'
    BY <2>1 DEF TransitionsExact
  <2> QED BY <2>2, <2>3
<1> QED BY <1>12, <1>15 DEF VersionsDated

LEMMA InsertHolds ==
    ASSUME PilotIInv, PilotAssumption, NEW p \in Pilot, Observe(p) \/ RecordFailure(p)
    PROVE  PilotIInv'
<1>1. PilotTypeOK /\ InHand /\ PassedDone /\ pilot[p].step \in {"row", "failure"}
      /\ pilot[p].step # "off"
  BY DEF PilotIInv, PilotConsistent, Observe, RecordFailure, PilotAt
<1>2. /\ Busy(p) /\ pilot[p].doc \in PilotDoc /\ pilot[p].job \in PilotJob
      /\ pilot[p].rows \in Seq(PilotRow) /\ pilot[p].got \in PageVersion \cup {NoContent}
  BY <1>1, PilotFields
<1>3. pilot[p].rows = disk /\ holders = {p} /\ \A q \in Pilot \ {p} : ~Busy(q)
  BY <1>2, OneWorks
<1>4. ~HasRow(disk, pilot[p].job, pilot[p].doc)
  BY <1>1, <1>2 DEF InHand, InHandOf
<1>5. UNCHANGED <<shows, holders, originals, copies, reports, batches, preserved, pilotFaults>>
  BY DEF Observe, RecordFailure, outputs
<1>6. PICK version \in PageVersion \cup {NoContent}, step \in {"copy", "document"} :
        /\ InsertRow(p, version, step)
        /\ version # NoContent => version = pilot[p].got /\ <<pilot[p].doc, version>> \in originals
        /\ step = "copy" => version # NoContent
  <2>1. CASE Observe(p)
    <3>1. /\ pilot[p].step = "row"
          /\ InsertRow(p, pilot[p].got, IF pilot[p].s3 THEN "copy" ELSE "document")
      BY <2>1 DEF Observe, PilotAt
    <3>2. pilot[p].got # NoContent /\ <<pilot[p].doc, pilot[p].got>> \in originals
      BY <1>1, <1>2, <3>1 DEF InHand, InHandOf, Doing
    <3> QED BY <1>2, <3>1, <3>2
  <2>2. CASE RecordFailure(p)
    BY <2>2 DEF RecordFailure
  <2> QED BY <2>1, <2>2
<1> DEFINE new == [doc |-> pilot[p].doc, job |-> pilot[p].job, version |-> version,
                   changed |-> version # NoContent
                               /\ ChangedFromLast(pilot[p].rows, pilot[p].doc, version)]
           more == Append(disk, new)
<1>7. new \in PilotRow
  BY <1>2 DEF PilotRow
<1>8. /\ new.doc = pilot[p].doc /\ new.job = pilot[p].job /\ new.version = version
      /\ version # NoContent =>
           (new.changed <=> ChangedFromLast(disk, new.doc, new.version))
  BY <1>3
<1>9. disk' = more /\ PilotGoes(p, step, pilot[p].doc, pilot[p].got, more)
  BY <1>3, <1>6 DEF InsertRow
<1> HIDE DEF new
<1>10. /\ more \in Seq(PilotRow)
       /\ \A i \in DOMAIN disk : i \in DOMAIN more /\ more[i] = disk[i]
       /\ Len(disk) + 1 \in DOMAIN more /\ more[Len(disk) + 1] = new
       /\ \A i \in DOMAIN more : i \in DOMAIN disk \/ i = Len(disk) + 1
  <2>1. disk \in Seq(PilotRow)
    BY <1>1 DEF PilotTypeOK
  <2>2. Adds(disk, new, more)
    BY DEF Adds
  <2> QED BY <1>7, <2>1, <2>2, OneMore
<1> HIDE DEF more
<1>11. (RowsSupported /\ ReportsHold /\ ReportedCopied /\ VersionsDated /\ Dated /\ FinishedSeen)'
  <2>1. Adds(disk, new, more)
    BY DEF Adds, more
  <2> QED BY <1>4, <1>5, <1>6, <1>7, <1>8, <1>9, <2>1, RowAdded
<1>12. /\ pilot' \in [Pilot -> {NoPilot} \cup Collecting] /\ Busy(p)'
       /\ pilot'[p].step = step /\ pilot'[p].job = pilot[p].job /\ pilot'[p].doc = pilot[p].doc
       /\ pilot'[p].got = pilot[p].got /\ pilot'[p].rows = more /\ pilot'[p].s3 = pilot[p].s3
       /\ \A q \in Pilot \ {p} : pilot'[q] = pilot[q]
  <2>1. step \in PilotSteps
    BY DEF PilotSteps
  <2>2. ASSUME NEW rows \in Seq(PilotRow), PilotGoes(p, step, pilot[p].doc, pilot[p].got, rows)
        PROVE  /\ pilot' \in [Pilot -> {NoPilot} \cup Collecting] /\ Busy(p)'
               /\ pilot'[p].step = step /\ pilot'[p].job = pilot[p].job /\ pilot'[p].doc = pilot[p].doc
               /\ pilot'[p].got = pilot[p].got /\ pilot'[p].rows = rows /\ pilot'[p].s3 = pilot[p].s3
               /\ \A q \in Pilot \ {p} : pilot'[q] = pilot[q]
    BY <1>1, <1>2, <2>1, <2>2, GoesTo
  <2> QED BY <1>9, <1>10, <2>2
<1>13. \A q \in Pilot \ {p} : ~Busy(q)'
  BY <1>3, <1>12 DEF Busy
<1>14. OneHolder'
  BY <1>3, <1>5, <1>9, <1>12, <1>13 DEF OneHolder
<1>15. PilotTypeOK'
  <2>1. reports' \in [PilotJob -> SUBSET {RowsOf(disk', j) : j \in PilotJob}]
    <3>1. reports' = [j \in PilotJob |-> reports'[j]]
      BY <1>1, <1>5 DEF PilotTypeOK
    <3>2. \A j \in PilotJob : reports'[j] \subseteq {RowsOf(disk', j)}
      BY <1>11 DEF ReportsHold
    <3> QED BY <3>1, <3>2
  <2> QED BY <1>1, <1>5, <1>9, <1>10, <1>12, <2>1 DEF PilotTypeOK
<1>16. InHand'
  <2>1. InHandOf(p)'
    <3>1. step = "copy" => \E i \in DOMAIN more : /\ RowFor(more, pilot[p].job, pilot[p].doc, i)
                                                  /\ more[i].version = pilot[p].got
      BY <1>6, <1>8, <1>10 DEF RowFor
    <3>2. step = "copy" => pilot[p].got # NoContent
      BY <1>6
    <3> QED BY <1>9, <1>12, <3>1, <3>2 DEF InHandOf, RowFor
  <2> QED BY <1>13, <2>1 DEF InHand, InHandOf
<1>17. PassedDone'
  <2>1. Passed(p)' = Passed(p) /\ \A d \in Passed(p) : d # pilot[p].doc
    <3>1. pilot[p].doc \in Int
      BY <1>2 DEF PilotDoc
    <3> QED BY <1>1, <1>12, <3>1 DEF Passed
  <2>2. PICK job : job = pilot[p].job
    OBVIOUS
  <2>3. ASSUME NEW d \in Passed(p)
        PROVE  HasRow(more, job, d) /\ (pilot[p].s3 => Copied(job, d)')
    <3>1. HasRow(disk, job, d) /\ (pilot[p].s3 => Copied(job, d))
      BY <1>1, <1>2, <2>2 DEF PassedDone, PassedOf
    <3>2. HasRow(more, job, d)
      BY <1>10, <3>1 DEF HasRow, RowFor
    <3>3. \A i \in DOMAIN more : RowFor(more, job, d, i) => i \in DOMAIN disk /\ more[i] = disk[i]
      BY <1>8, <1>10, <2>1 DEF RowFor
    <3>4. pilot[p].s3 => Copied(job, d)'
      BY <1>5, <1>9, <3>1, <3>3 DEF Copied, RowFor
    <3> QED BY <3>2, <3>4
  <2>4. PassedOf(p)'
    BY <1>9, <1>12, <2>1, <2>2, <2>3 DEF PassedOf
  <2> QED BY <1>13, <2>4 DEF PassedDone, PassedOf
<1> QED BY <1>11, <1>14, <1>15, <1>16, <1>17 DEF PilotIInv, PilotConsistent

LEMMA ReportHolds ==
    ASSUME PilotIInv, PilotAssumption, NEW p \in Pilot, WriteReport(p) PROVE PilotIInv'
<1> USE DEF PilotIInv, PilotConsistent
<1>1. pilot[p].step = "report" /\ pilot[p].step # "off" /\ PilotTypeOK
  BY DEF WriteReport, PilotAt
<1>2. Busy(p) /\ pilot[p].job \in PilotJob
  BY <1>1, PilotFields
<1>3. pilot[p].rows = disk
  BY <1>2, OneWorks
<1> DEFINE job == pilot[p].job
<1>4. UNCHANGED <<shows, disk, originals, copies, batches, pilotFaults>>
  BY DEF WriteReport
<1>5. /\ pilot' \in [Pilot -> {NoPilot} \cup Collecting] /\ holders' = {}
      /\ (OneHolder /\ InHand /\ PassedDone)'
  BY <1>1, EndsAlone DEF WriteReport
<1>6. /\ reports' = [j \in PilotJob |-> reports'[j]]
      /\ \A j \in PilotJob : \/ reports'[j] = reports[j]
                             \/ j = job /\ reports'[j] = {RowsOf(disk, job)}
  <2>1. reports \in [PilotJob -> SUBSET {RowsOf(disk, j) : j \in PilotJob}]
    BY DEF PilotTypeOK
  <2>2. reports' = [reports EXCEPT ![job] = IF @ = {} THEN {RowsOf(disk, job)} ELSE @]
    BY <1>3 DEF WriteReport
  <2> QED BY <1>2, <2>1, <2>2
<1>7. \A d \in PilotDoc : HasRow(disk, job, d) /\ (pilot[p].s3 => Copied(job, d))
  <2>1. Passed(p) = PilotDoc
    BY <1>1 DEF Passed
  <2> QED BY <1>2, <2>1 DEF PassedDone, PassedOf
<1>8. RowsSupported'
  BY <1>4 DEF RowsSupported
<1>9. ReportsHold'
  BY <1>4, <1>6 DEF ReportsHold
<1>10. ReportedCopied'
  <2> SUFFICES ASSUME NEW j \in preserved', NEW i \in DOMAIN disk,
                      disk[i].job = j, disk[i].version # NoContent
               PROVE  <<disk[i].doc, disk[i].version>> \in copies
    BY <1>4 DEF ReportedCopied
  <2>1. CASE j \in preserved
    BY <2>1 DEF ReportedCopied
  <2>2. CASE j = job /\ pilot[p].s3
    <3>1. disk[i].doc \in PilotDoc
      <4>1. disk \in Seq(PilotRow)
        BY DEF PilotTypeOK
      <4>2. disk[i] \in PilotRow
        BY <4>1
      <4> QED BY <4>2 DEF PilotRow
    <3> QED BY <1>7, <2>2, <3>1 DEF Copied, RowFor
  <2> QED BY <2>1, <2>2 DEF WriteReport
<1>11. (VersionsDated /\ Dated)'
  BY <1>4 DEF VersionsDated, TransitionsExact, BatchesRepeat, Dated
<1>12. FinishedSeen'
  <2>1. AllSeen(disk, job)
    BY <1>7 DEF AllSeen, HasRow, RowFor
  <2>2. \A j \in preserved' : j \in preserved \/ j = job
    BY DEF WriteReport
  <2> QED BY <1>4, <1>6, <2>1, <2>2 DEF FinishedSeen
<1>13. PilotTypeOK'
  <2>1. reports' \in [PilotJob -> SUBSET {RowsOf(disk', j) : j \in PilotJob}]
    BY <1>6, <1>9 DEF ReportsHold
  <2>2. preserved' \subseteq PilotJob
    BY <1>2 DEF WriteReport, PilotTypeOK
  <2> QED BY <1>4, <1>5, <2>1, <2>2 DEF PilotTypeOK
<1> QED BY <1>5, <1>8, <1>9, <1>10, <1>11, <1>12, <1>13

LEMMA BatchTyped ==
    ASSUME PilotIInv, NEW job \in PilotJob, AllSeen(disk, job)
    PROVE  BatchOf(disk, job) \in [PilotDoc -> {<<>>} \cup (PageVersion \X Nat \X Nat)]
<1> SUFFICES ASSUME NEW d \in PilotDoc
             PROVE  LET i == RowOf(disk, job, d) IN
               (IF disk[i].version = NoContent THEN <<>>
                ELSE <<disk[i].version, FirstSeen(disk, i), Transition(disk, i)>>)
               \in {<<>>} \cup (PageVersion \X Nat \X Nat)
  BY DEF BatchOf
<1>1. disk \in Seq(PilotRow) /\ RowsSupported /\ Dated
  BY DEF PilotIInv, PilotConsistent, PilotTypeOK
<1>2. PICK i \in DOMAIN disk : RowFor(disk, job, d, i)
  BY DEF AllSeen, RowFor
<1>3. RowOf(disk, job, d) = i
  BY <1>1, <1>2, RowOfIs DEF RowsSupported, Unique
<1>4. disk[i] \in PilotRow /\ \A e : Successes(disk, e) \subseteq Nat
  BY <1>1, SuccessRows
<1>5. ASSUME disk[i].version # NoContent
      PROVE  /\ disk[i].version \in PageVersion
             /\ FirstSeen(disk, i) \in Nat /\ Transition(disk, i) \in Nat
  <2>1. FirstSeen(disk, i) \in Nat
    BY <1>1, <1>4, <1>5, FirstSeenExists DEF IsFirst
  <2>2. Transition(disk, i) \in Nat
    BY <1>1, <1>4, <1>5, TransitionExists DEF Dated
  <2> QED BY <1>4, <1>5, <2>1, <2>2 DEF PilotRow
<1> QED BY <1>3, <1>5

LEMMA PrepareHolds ==
    ASSUME PilotIInv, PilotAssumption, NEW p \in Pilot, Prepare(p) PROVE PilotIInv'
<1> USE DEF PilotIInv, PilotConsistent
<1>1. pilot[p].step # "off" /\ PilotTypeOK
  BY DEF Prepare, PilotAt
<1>2. Busy(p) /\ pilot[p].job \in PilotJob
  BY <1>1, PilotFields
<1>3. pilot[p].rows = disk
  BY <1>2, OneWorks
<1> DEFINE job == pilot[p].job
<1>4. UNCHANGED <<shows, disk, originals, copies, reports, preserved, pilotFaults>>
  BY DEF Prepare
<1>5. /\ pilot' \in [Pilot -> {NoPilot} \cup Collecting] /\ holders' = {}
      /\ (OneHolder /\ InHand /\ PassedDone)'
  BY <1>1, EndsAlone DEF Prepare
<1>6. /\ batches' = [j \in PilotJob |-> batches'[j]]
      /\ \A j \in PilotJob : \/ batches'[j] = batches[j]
                             \/ j = job /\ batches'[j] = {BatchOf(disk, job)} /\ AllSeen(disk, job)
  <2>1. batches = [j \in PilotJob |-> batches[j]]
    BY DEF PilotTypeOK
  <2>2. batches' = [batches EXCEPT ![job] =
           IF @ = {} /\ AllSeen(disk, job) THEN {BatchOf(disk, job)} ELSE @]
    BY <1>3 DEF Prepare
  <2> QED BY <1>2, <2>1, <2>2
<1>7. (RowsSupported /\ ReportsHold /\ ReportedCopied /\ TransitionsExact /\ Dated)'
  BY <1>4 DEF RowsSupported, ReportsHold, ReportedCopied, VersionsDated, TransitionsExact, Dated
<1>8. BatchesRepeat'
  BY <1>4, <1>6 DEF BatchesRepeat, VersionsDated
<1>9. FinishedSeen'
  BY <1>4, <1>6 DEF FinishedSeen
<1>10. PilotTypeOK'
  <2> DEFINE Batches == [PilotDoc -> {<<>>} \cup (PageVersion \X Nat \X Nat)]
  <2>1. \A j \in PilotJob : batches'[j] \subseteq Batches
    <3>1. \A j \in PilotJob : batches[j] \subseteq Batches
      BY DEF PilotTypeOK
    <3>2. AllSeen(disk, job) => BatchOf(disk, job) \in Batches
      BY <1>2, BatchTyped
    <3> HIDE DEF Batches
    <3> QED BY <1>6, <3>1, <3>2
  <2>2. batches' \in [PilotJob -> SUBSET Batches]
    <3> HIDE DEF Batches
    <3> QED BY <1>6, <2>1
  <2> QED BY <1>4, <1>5, <2>2 DEF PilotTypeOK
<1> QED BY <1>5, <1>7, <1>8, <1>9, <1>10 DEF VersionsDated

LEMMA PilotDiesHolds ==
    ASSUME PilotIInv, PilotAssumption, NEW p \in Pilot, PilotDies(p) PROVE PilotIInv'
<1>1. pilot[p].step # "off" /\ PilotTypeOK
  BY DEF PilotDies, PilotAt, PilotIInv, PilotConsistent
<1>2. UNCHANGED <<shows, disk, originals, copies, reports, batches, preserved>>
  BY DEF PilotDies, outputs
<1>3. /\ pilot' \in [Pilot -> {NoPilot} \cup Collecting] /\ holders' = {}
      /\ (OneHolder /\ InHand /\ PassedDone)'
  BY <1>1, EndsAlone DEF PilotDies
<1>4. pilotFaults' \in 0 .. PilotFaults
  BY FaultTyped DEF PilotDies
<1>5. PilotTypeOK'
  BY <1>1, <1>2, <1>3, <1>4 DEF PilotTypeOK
<1>6. (RowsSupported /\ ReportsHold /\ ReportedCopied /\ VersionsDated /\ Dated /\ FinishedSeen)'
  BY <1>2, DiskSame
<1> QED BY <1>3, <1>5, <1>6 DEF PilotIInv, PilotConsistent

LEMMA PilotStepHolds ==
    ASSUME PilotIInv, PilotAssumption, [PilotNext]_pilotVars PROVE PilotIInv'
<1>1. ASSUME NEW p \in Pilot, PilotStep(p) PROVE PilotIInv'
  <2>1. CASE \/ \E job \in PilotJob, s3 \in BOOLEAN : OpenStore(p, job, "document", s3)
             \/ \E job \in PilotJob : OpenStore(p, job, "prepare", FALSE)
    BY <2>1, OpenHolds
  <2>2. CASE Replay(p) \/ FetchPage(p) \/ SaveOriginal(p) \/ OriginalRefused(p) \/ CopyOriginal(p)
    BY <2>2, ReplayHolds, FetchHolds, SaveOriginalHolds, CopyHolds
  <2>3. CASE Observe(p) \/ RecordFailure(p)
    BY <2>3, InsertHolds
  <2>4. CASE WriteReport(p) \/ Prepare(p) \/ PilotDies(p)
    BY <2>4, ReportHolds, PrepareHolds, PilotDiesHolds
  <2> QED BY <1>1, <2>1, <2>2, <2>3, <2>4 DEF PilotStep
<1>2. CASE UNCHANGED pilotVars
  <2>1. UNCHANGED <<shows, disk, pilot, holders, originals, copies, reports, batches, preserved, pilotFaults>>
    BY <1>2 DEF pilotVars, outputs
  <2>2. (RowsSupported /\ ReportsHold /\ ReportedCopied /\ VersionsDated /\ Dated /\ FinishedSeen)'
    BY <2>1, DiskSame
  <2>3. (PilotTypeOK /\ OneHolder /\ InHand /\ PassedDone)'
    BY <2>1 DEF PilotIInv, PilotConsistent, PilotTypeOK, OneHolder, InHand, PassedDone, InHandOf,
       PassedOf, Busy, Passed, Copied, Doing
  <2> QED BY <2>2, <2>3 DEF PilotIInv, PilotConsistent
<1> QED BY <1>1, <1>2, PageReplacedHolds DEF PilotNext

LEMMA PilotAlways == PilotSpec => []PilotIInv
<1>1. PilotInit => PilotIInv
  BY PilotInitHolds, PilotAssumption
<1>2. PilotIInv /\ [PilotNext]_pilotVars => PilotIInv'
  BY PilotStepHolds, PilotAssumption
<1> QED BY <1>1, <1>2, PTL DEF PilotSpec

(* Wherever a run of the pilot stops and is run again, its rows have their  *)
(* originals and do not repeat, and its report stays what the store knows.  *)
THEOREM PilotHolds == PilotSpec => []PilotInv
<1>1. PilotIInv => PilotInv
  BY DEF PilotIInv, PilotInv
<1> QED BY <1>1, PilotAlways, PTL

(* A version of a page is dated by the row at which the page last came to   *)
(* show it, and a batch prepared again is the same batch.                   *)
THEOREM DatesExact == PilotSpec => []VersionsDated
<1>1. PilotIInv => VersionsDated
  BY DEF PilotIInv
<1> QED BY <1>1, PilotAlways, PTL
=============================================================================
