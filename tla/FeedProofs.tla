----------------------------- MODULE FeedProofs -----------------------------
(***************************************************************************)
(* Proofs about the two collections that feed the GraphRAG worker, for any *)
(* sources, texts and page sizes and any number of cycles, changes,        *)
(* curators' batches, faults and deaths.                                   *)
(*                                                                         *)
(* RosterRefresh: RosterInv speaks of complete runs and of lists that did  *)
(* not move.  RosterIInv adds what makes a run complete (RunSoFar), that a *)
(* refresh writes nothing older than what is staged (TodoNewer) and, for   *)
(* refreshes in order, what is still to be written and what is shown       *)
(* already (InOrder).                                                      *)
(*                                                                         *)
(* BillFeed: FeedInv speaks of the staged batches and of the pages behind  *)
(* the cursor.  FeedIInv says of every cycle under way what it has read:   *)
(* nobody else observes at its time (OwnTime), what it found changed is    *)
(* one observation of each bill and rests on a page that was kept          *)
(* (ChangedOnce), what curators had put there before it began is known to  *)
(* it (CuratedKnown), and over a quiet board every bill of the pages it    *)
(* sweeps is still to be looked at, settled or among the changed (Quiet).  *)
(***************************************************************************)
EXTENDS BillFeed, RosterRefresh, FiniteSetTheorems, FunctionTheorems, WellFoundedInduction, TLAPS

-----------------------------------------------------------------------------
(* The watched inputs.                                                     *)

(* A non-empty set of numbers has a least one. *)
LEMMA LeastNumber ==
    ASSUME NEW T \in SUBSET Nat, T # {}
    PROVE  \E m \in T : \A n \in T : m <= n
<1> DEFINE U == {1 .. n : n \in T}
           R == StrictSubsetOrdering(Nat)
<1>1. U # {} /\ U \subseteq FiniteSubsetsOf(Nat)
  <2>1. \A n \in T : 1 .. n \subseteq Nat /\ IsFiniteSet(1 .. n)
    BY FS_Interval
  <2> QED BY <2>1 DEF FiniteSubsetsOf
<1>2. IsWellFoundedOn(R, FiniteSubsetsOf(Nat))
  BY FS_StrictSubsetOrderingWellFounded
<1>3. PICK X \in U : \A Y \in U : ~(<<Y, X>> \in R)
  <2> HIDE DEF U, R
  <2> QED BY <1>1, <1>2, WFMin
<1>4. PICK m \in T : X = 1 .. m
  BY <1>3
<1>5. ASSUME NEW n \in T, n < m PROVE FALSE
  <2>1. 1 .. n \subseteq 1 .. m /\ 1 .. n # 1 .. m
    <3>1. m \in 1 .. m /\ m \notin 1 .. n
      BY <1>5
    <3> QED BY <3>1, <1>5
  <2>2. 1 .. n \subseteq Nat /\ 1 .. m \subseteq Nat /\ 1 .. n \in U
    OBVIOUS
  <2> QED BY <2>1, <2>2, <1>3, <1>4 DEF StrictSubsetOrdering
<1> QED BY <1>5

(* Of every source that is observed one observation is the newest. *)
LEMMA NewestExists ==
    ASSUME NEW O, NEW last \in Nat, \A o \in O : o.at \in Nat /\ o.at <= last, NEW p \in O
    PROVE  \E o \in Selected(O) : o.scope = p.scope /\ p.at <= o.at
<1> DEFINE Ages == {last - o.at : o \in {q \in O : q.scope = p.scope}}
<1>1. Ages \in SUBSET Nat /\ Ages # {}
  OBVIOUS
<1>2. PICK age \in Ages : \A a \in Ages : age <= a
  <2> HIDE DEF Ages
  <2> QED BY <1>1, LeastNumber
<1>3. PICK o \in O : o.scope = p.scope /\ age = last - o.at
  BY <1>2
<1>4. \A q \in O : q.scope = p.scope => q.at <= o.at
  <2> SUFFICES ASSUME NEW q \in O, q.scope = p.scope PROVE q.at <= o.at
    OBVIOUS
  <2>1. last - q.at \in Ages
    OBVIOUS
  <2>2. last - o.at <= last - q.at
    BY <2>1, <1>2, <1>3
  <2> QED BY <2>2
<1> QED BY <1>3, <1>4 DEF Selected

(* Lists of sources: every length is a number, and no source comes twice.  *)
LEMMA ListOfSources ==
    ASSUME NEW list \in Lists
    PROVE  /\ Len(list) \in Nat /\ DOMAIN list = 1 .. Len(list)
           /\ \A i \in DOMAIN list : list[i] \in Scope
           /\ \A i, j \in DOMAIN list : list[i] = list[j] => i = j
<1>1. PICK n \in 0 .. Cardinality(Scope) : list \in [1 .. n -> Scope]
  BY DEF Lists
<1>2. n \in Nat
  BY <1>1, FS_CardinalityType, GraphInputsAssumption
<1>3. list \in Seq(Scope) /\ Len(list) = n
  BY <1>1, <1>2
<1> QED
  BY <1>1, <1>2, <1>3 DEF Lists

-----------------------------------------------------------------------------
(* The roster.                                                             *)

CompleteRuns == {r.records : r \in {q \in receipts : q.complete}}
Sightings == Staged \cup collect.records \cup UNION {r.records : r \in receipts}

(* Whoever is seen at one time is seen with one text. *)
Timed ==
    /\ reviewed = {}
    /\ \A o \in Sightings : o.at <= stamp /\ o.by = "collector"
    /\ \A o, p \in Sightings : o.scope = p.scope /\ o.at = p.at => o.text = p.text

(* What the run under way has collected. *)
RunSoFar ==
    /\ \A o, p \in collect.records : o.scope = p.scope => o = p
    /\ undisturbed => Says(collect.records) \subseteq ListSays

(* Only complete runs are refreshed from. *)
FromRuns ==
    /\ base \in CompleteRuns /\ half \subseteq CompleteRuns
    /\ refresh.step = "write" => half = {refresh.run} /\ refresh.todo \subseteq refresh.run

(* What is still to be written will be the newest of its source. *)
TodoNewer ==
    refresh.step = "write" =>
        \A o \in refresh.todo, p \in Selected(Staged) :
            p.scope = o.scope /\ p.text # o.text => p.at < o.at

(* In order: what is not shown is in the plan that must be done again, and *)
(* what the refresh under way has not to write any more is shown.          *)
Pending(r) == \E c \in half : \E o \in Plan(base, c) : o.scope = r.scope
InOrder == ordered =>
    /\ \A r \in base : ShowsRecord(r) \/ Pending(r)
    /\ refresh.step = "write" =>
         /\ refresh.todo \subseteq Plan(base, refresh.run)
         /\ \A r \in refresh.run : r \in refresh.todo \/ ShowsRecord(r)

RosterIInv ==
    /\ RosterTypeOK /\ CompleteIsExact /\ Timed /\ RunSoFar /\ FromRuns /\ TodoNewer /\ InOrder

(* The records of a run are observations of the past, one of each source.  *)
LEMMA RunFacts ==
    ASSUME RosterIInv, NEW c \in CompleteRuns
    PROVE  /\ c \subseteq Sightings /\ c \subseteq Observation
           /\ \A o, p \in c : o.scope = p.scope => o = p
BY DEF RosterIInv, CompleteRuns, CompleteIsExact, Sightings, RosterTypeOK

(* What steps that do not refresh leave. *)
LEMMA RefreshStays ==
    ASSUME RosterIInv, UNCHANGED <<files, refresh, stagedVars>>, CompleteRuns \subseteq CompleteRuns'
    PROVE  FromRuns' /\ TodoNewer' /\ InOrder'
<1>1. Staged' = Staged
  BY DEF Staged
<1>2. UNCHANGED <<files, refresh, base, half, held, ordered>>
  BY DEF stagedVars
<1>3. \A r : ShowsRecord(r)' <=> ShowsRecord(r)
  BY <1>1, <1>2 DEF ShowsRecord
<1>4. \A r : Pending(r)' <=> Pending(r)
  BY <1>2 DEF Pending
<1>5. FromRuns'
  BY <1>2 DEF RosterIInv, FromRuns
<1>6. TodoNewer'
  BY <1>1, <1>2 DEF RosterIInv, TodoNewer
<1>7. InOrder'
  BY <1>2, <1>3, <1>4 DEF RosterIInv, InOrder
<1> QED BY <1>5, <1>6, <1>7

(* Nothing new is seen. *)
LEMMA TimedStays ==
    ASSUME RosterIInv, UNCHANGED <<stamp, reviewed>>, Sightings' \subseteq Sightings
    PROVE  Timed'
BY DEF RosterIInv, Timed

(* The list changes while nobody writes. *)
LEMMA ListMovesKeep ==
    ASSUME RosterIInv,
           \/ \E list \in Lists : ListChanges(list)
           \/ \E s \in Scope, t \in Text : HolderChanges(s, t)
    PROVE  RosterIInv'
<1>1. /\ roster' \in Lists /\ holder' \in [Scope -> Text] /\ undisturbed' = FALSE
      /\ UNCHANGED <<inputVars, collect, receipts, refresh, stagedVars, rosterFaults>>
      /\ rosterMoves' \in Nat
  BY DEF RosterIInv, RosterTypeOK, ListChanges, HolderChanges, ListMoves
<1>2. UNCHANGED <<stamp, files, reviewed, graph, collect, receipts, refresh, base, half, held,
                  ordered, rosterFaults>>
  BY <1>1 DEF inputVars, stagedVars
<1>3. RosterTypeOK'
  BY <1>1, <1>2 DEF RosterIInv, RosterTypeOK, InputsTypeOK
<1>4. CompleteRuns' = CompleteRuns /\ Sightings' = Sightings /\ CompleteIsExact'
  BY <1>2 DEF RosterIInv, CompleteRuns, Sightings, Staged, CompleteIsExact
<1>5. RunSoFar'
  BY <1>1, <1>2 DEF RosterIInv, RunSoFar
<1>6. FromRuns' /\ TodoNewer' /\ InOrder'
  BY <1>1, <1>4, RefreshStays DEF inputVars
<1>7. Timed'
  BY <1>2, <1>4, TimedStays
<1> QED BY <1>3, <1>4, <1>5, <1>6, <1>7 DEF RosterIInv

(* A run that begins, or ends without having read to the end. *)
LEMMA RunEndsKeep ==
    ASSUME RosterIInv, BeginRun \/ PageRequestFails \/ RunDies
    PROVE  RosterIInv'
<1> USE DEF RosterIInv, RunOnly, RosterFault, Receipt
<1>1. /\ UNCHANGED <<stamp, files, reviewed, graph, roster, holder, rosterMoves, refresh, stagedVars>>
      /\ collect'.records = {} /\ collect' \in [step : {"off", "page"}, page : Nat \ {0}, expected : Nat,
                    records : SUBSET Observation]
      /\ undisturbed' \in BOOLEAN /\ rosterFaults' \in Nat
  <2>1. collect.records \subseteq Observation /\ undisturbed \in BOOLEAN /\ rosterFaults \in Nat
    BY DEF RosterTypeOK
  <2>2. /\ UNCHANGED <<stamp, files, reviewed, graph, roster, holder, rosterMoves, refresh, stagedVars>>
        /\ undisturbed' \in BOOLEAN /\ rosterFaults' \in Nat
        /\ \/ collect' = NoRun
           \/ collect' = [step |-> "page", page |-> 1, expected |-> 0, records |-> {}]
    <3>1. CASE BeginRun
      BY <2>1, <3>1 DEF BeginRun
    <3>2. CASE PageRequestFails
      BY <2>1, <3>2 DEF PageRequestFails
    <3>3. CASE RunDies
      BY <2>1, <3>3 DEF RunDies
    <3> QED BY <3>1, <3>2, <3>3
  <2> QED BY <2>2 DEF NoRun
<1>2. \/ receipts' = receipts
      \/ \E e \in BOOLEAN : receipts' = receipts \cup
             {[complete |-> FALSE, exact |-> e, records |-> collect.records]}
  BY DEF BeginRun, PageRequestFails, RunDies
<1>3. RosterTypeOK'
  <2>1. \A e \in BOOLEAN : [complete |-> FALSE, exact |-> e, records |-> collect.records]
                              \in [complete : BOOLEAN, exact : BOOLEAN, records : SUBSET Observation]
    BY DEF RosterTypeOK
  <2>2. receipts' \subseteq [complete : BOOLEAN, exact : BOOLEAN, records : SUBSET Observation]
    BY <1>2, <2>1 DEF RosterTypeOK
  <2> QED BY <1>1, <2>2 DEF RosterTypeOK, InputsTypeOK, stagedVars
<1>4. CompleteRuns' = CompleteRuns
  BY <1>2 DEF CompleteRuns
<1>5. Sightings' \subseteq Sightings
  BY <1>1, <1>2 DEF Sightings, Staged
<1>6. CompleteIsExact'
  BY <1>2 DEF CompleteIsExact
<1>7. RunSoFar'
  BY <1>1 DEF RunSoFar, Says
<1>8. FromRuns' /\ TodoNewer' /\ InOrder'
  BY <1>1, <1>4, RefreshStays
<1>9. Timed'
  BY <1>1, <1>5, TimedStays
<1> QED BY <1>3, <1>6, <1>7, <1>8, <1>9

(* A page that is read adds observations of now, none of a source that the *)
(* run has already.                                                        *)
LEMMA PageFacts ==
    ASSUME RosterIInv, ReadRosterPage
    PROVE  /\ stamp' = stamp + 1 /\ stamp' \in Nat
           /\ \A o \in PageRecords : /\ o \in Observation /\ o.at = stamp' /\ o.by = "collector"
                                     /\ \E i \in DOMAIN roster : /\ i \in Rows /\ o.scope = roster[i]
                                                                 /\ o.text = holder[roster[i]]
           /\ ~Doubled => \A o, p \in WithPage : o.scope = p.scope => o = p
           /\ undisturbed => Says(WithPage) \subseteq ListSays
<1>1. stamp \in Nat /\ stamp' = stamp + 1 /\ stamp' \in Nat
  BY DEF RosterIInv, RosterTypeOK, InputsTypeOK, ReadRosterPage
<1>2. roster \in Lists /\ holder \in [Scope -> Text]
  BY DEF RosterIInv, RosterTypeOK
<1>3. Rows \subseteq DOMAIN roster
  BY DEF Rows
<1>4. \A i \in DOMAIN roster : roster[i] \in Scope /\ holder[roster[i]] \in Text
  BY <1>2, ListOfSources
<1>5. \A o \in PageRecords : /\ o \in Observation /\ o.at = stamp' /\ o.by = "collector"
                             /\ \E i \in DOMAIN roster : /\ i \in Rows /\ o.scope = roster[i]
                                                         /\ o.text = holder[roster[i]]
  BY <1>1, <1>3, <1>4 DEF PageRecords, Sighting, Observation
<1>6. ASSUME ~Doubled, NEW o \in WithPage, NEW p \in WithPage, o.scope = p.scope PROVE o = p
  <2>1. CASE o \in collect.records /\ p \in collect.records
    BY <1>6, <2>1 DEF RosterIInv, RunSoFar
  <2>2. CASE o \in PageRecords /\ p \in PageRecords
    <3>1. PICK i, j \in Rows : /\ o = Sighting(roster[i], holder[roster[i]], stamp')
                               /\ p = Sighting(roster[j], holder[roster[j]], stamp')
      BY <2>2 DEF PageRecords
    <3> QED BY <1>6, <3>1 DEF Sighting
  <2>3. \A q \in collect.records, r \in PageRecords : q.scope # r.scope
    BY <1>5, <1>6 DEF Doubled
  <2> QED BY <1>6, <2>1, <2>2, <2>3 DEF WithPage
<1>7. ASSUME undisturbed PROVE Says(WithPage) \subseteq ListSays
  <2>1. \A o \in collect.records : <<o.scope, o.text>> \in ListSays
    BY <1>7 DEF RosterIInv, RunSoFar, Says
  <2>2. \A o \in PageRecords : <<o.scope, o.text>> \in ListSays
    BY <1>5 DEF ListSays
  <2> QED BY <2>1, <2>2 DEF WithPage, Says
<1> QED BY <1>1, <1>5, <1>6, <1>7

(* As many records as the list has, of different sources and each of the   *)
(* list, are the list.                                                     *)
LEMMA CountedIsExact ==
    ASSUME roster \in Lists, NEW O, \A o, p \in O : o.scope = p.scope => o = p,
           Says(O) \subseteq ListSays, Cardinality(O) = Len(roster)
    PROVE  Says(O) = ListSays
<1> DEFINE N == DOMAIN roster
           f == [o \in O |-> CHOOSE i \in N : o.scope = roster[i] /\ o.text = holder[roster[i]]]
<1>1. N = 1 .. Len(roster) /\ Len(roster) \in Nat
  BY ListOfSources
<1>2. IsFiniteSet(N) /\ Cardinality(N) = Len(roster)
  <2> HIDE DEF N
  <2>1. IsFiniteSet(1 .. Len(roster))
        /\ Cardinality(1 .. Len(roster)) = IF 1 > Len(roster) THEN 0 ELSE Len(roster) - 1 + 1
    <3>1. 1 \in Int /\ Len(roster) \in Int
      BY <1>1
    <3> QED BY <3>1, FS_Interval
  <2> QED BY <1>1, <2>1
<1>3. \A o \in O : \E i \in N : o.scope = roster[i] /\ o.text = holder[roster[i]]
  <2> SUFFICES ASSUME NEW o \in O PROVE \E i \in N : o.scope = roster[i] /\ o.text = holder[roster[i]]
    OBVIOUS
  <2>1. <<o.scope, o.text>> \in ListSays
    BY DEF Says
  <2> QED BY <2>1 DEF ListSays
<1>4. \A o \in O : f[o] \in N /\ o.scope = roster[f[o]] /\ o.text = holder[roster[f[o]]]
  BY <1>3
<1>5. f \in Injection(O, N)
  <2>1. f \in [O -> N]
    BY <1>4
  <2>2. \A o, p \in O : f[o] = f[p] => o = p
    BY <1>4
  <2> HIDE DEF f, N
  <2> QED BY <2>1, <2>2 DEF Injection, IsInjective
<1>6. f \in Surjection(O, N)
  <2> HIDE DEF f, N
  <2> QED BY <1>2, <1>5, FS_Injection
<1>7. \A i \in N : \E o \in O : f[o] = i
  BY <1>6 DEF Surjection
<1>8. \A i \in N : <<roster[i], holder[roster[i]]>> \in Says(O)
  BY <1>4, <1>7 DEF Says
<1> QED BY <1>8 DEF ListSays

(* A page that is read. *)
LEMMA PageKeeps ==
    ASSUME RosterIInv, ReadRosterPage
    PROVE  RosterIInv'
<1>1. /\ UNCHANGED <<files, reviewed, graph, roster, holder, rosterMoves, refresh, stagedVars,
                     undisturbed, rosterFaults>>
      /\ stamp' = stamp + 1 /\ stamp \in Nat /\ collect.step = "page"
  BY PageFacts DEF ReadRosterPage, RunOnly, RosterIInv, RosterTypeOK, InputsTypeOK
<1>2. /\ collect.page \in Nat \ {0} /\ collect.expected \in Nat /\ collect.records \in SUBSET Observation
      /\ roster \in Lists /\ Len(roster) \in Nat /\ undisturbed \in BOOLEAN
  BY ListOfSources DEF RosterIInv, RosterTypeOK
<1>3. Expected \in Nat
  BY <1>2 DEF Expected
<1>4. PageRecords \subseteq Observation /\ WithPage \in SUBSET Observation
  BY <1>2, PageFacts DEF WithPage
<1> DEFINE Ended(complete, O) == [complete |-> complete, records |-> O,
                                  exact |-> undisturbed => Says(O) = ListSays]
<1>5. \/ /\ receipts' = receipts \cup {Ended(FALSE, collect.records)}
         /\ collect' = NoRun
      \/ /\ receipts' = receipts \cup {Ended(Cardinality(WithPage) = Expected, WithPage)}
         /\ collect' = NoRun /\ ~Doubled /\ Len(roster) = Expected
      \/ /\ receipts' = receipts /\ ~Doubled
         /\ collect' = [step |-> "page", page |-> collect.page + 1, expected |-> Expected,
                        records |-> WithPage]
  BY DEF ReadRosterPage, Receipt
<1>6. RosterTypeOK'
  <2>1. \A complete \in BOOLEAN, O \in SUBSET Observation :
            Ended(complete, O) \in [complete : BOOLEAN, exact : BOOLEAN, records : SUBSET Observation]
    OBVIOUS
  <2>2. receipts' \subseteq [complete : BOOLEAN, exact : BOOLEAN, records : SUBSET Observation]
    <3>1. receipts \subseteq [complete : BOOLEAN, exact : BOOLEAN, records : SUBSET Observation]
      BY DEF RosterIInv, RosterTypeOK
    <3>2. /\ Ended(FALSE, collect.records) \in
               [complete : BOOLEAN, exact : BOOLEAN, records : SUBSET Observation]
          /\ Ended(Cardinality(WithPage) = Expected, WithPage)
                 \in [complete : BOOLEAN, exact : BOOLEAN, records : SUBSET Observation]
      BY <2>1, <1>2, <1>4
    <3> HIDE DEF Ended
    <3> QED BY <3>1, <3>2, <1>5
  <2>3. collect' \in [step : {"off", "page"}, page : Nat \ {0}, expected : Nat,
                      records : SUBSET Observation]
    <3>1. CASE collect' = NoRun
      BY <3>1 DEF NoRun
    <3>2. CASE collect' = [step |-> "page", page |-> collect.page + 1, expected |-> Expected,
                           records |-> WithPage]
      <4>1. collect.page + 1 \in Nat \ {0}
        BY <1>2
      <4> QED BY <3>2, <4>1, <1>3, <1>4
    <3> QED BY <3>1, <3>2, <1>5
  <2> HIDE DEF Ended
  <2> QED BY <2>2, <2>3, <1>1 DEF RosterIInv, RosterTypeOK, InputsTypeOK, stagedVars
<1>7. \A r \in receipts' : r \in receipts \/ r = Ended(FALSE, collect.records)
                           \/ (~Doubled /\ Len(roster) = Expected
                               /\ r = Ended(Cardinality(WithPage) = Expected, WithPage))
  <2> HIDE DEF Ended
  <2> QED BY <1>5
<1>8. receipts \subseteq receipts'
  <2> HIDE DEF Ended
  <2> QED BY <1>5
<1>9. CompleteIsExact'
  <2> SUFFICES ASSUME NEW r \in receipts', r.complete
               PROVE  r.exact /\ \A o, p \in r.records : o.scope = p.scope => o = p
    BY DEF CompleteIsExact
  <2>1. CASE r \in receipts
    BY <2>1 DEF RosterIInv, CompleteIsExact
  <2>2. CASE r = Ended(FALSE, collect.records)
    BY <2>2
  <2>3. CASE /\ ~Doubled /\ Len(roster) = Expected
             /\ r = Ended(Cardinality(WithPage) = Expected, WithPage)
    <3>1. Cardinality(WithPage) = Len(roster) /\ r.records = WithPage
      BY <2>3
    <3>2. \A o, p \in WithPage : o.scope = p.scope => o = p
      BY <2>3, PageFacts
    <3>3. undisturbed => Says(WithPage) = ListSays
      BY <3>1, <3>2, <1>2, PageFacts, CountedIsExact
    <3>4. r.exact
      BY <3>3, <2>3
    <3> QED BY <3>1, <3>2, <3>4
  <2> QED BY <1>7, <2>1, <2>2, <2>3
<1>10. CompleteRuns \subseteq CompleteRuns'
  <2> HIDE DEF Ended
  <2> QED BY <1>8 DEF CompleteRuns
<1>11. collect'.records = {} \/ (collect'.records = WithPage /\ ~Doubled)
  <2>1. CASE collect' = NoRun
    BY <2>1 DEF NoRun
  <2>2. CASE ~Doubled /\ collect' = [step |-> "page", page |-> collect.page + 1,
                                    expected |-> Expected, records |-> WithPage]
    BY <2>2
  <2> QED BY <2>1, <2>2, <1>5
<1>12. Sightings' \subseteq Sightings \cup PageRecords
  <2>1. collect.records \subseteq Sightings /\ WithPage \subseteq Sightings \cup PageRecords
    BY DEF Sightings, WithPage
  <2>2. Staged' = Staged
    BY <1>1 DEF Staged
  <2>3. \A r \in receipts' : r.records \subseteq Sightings \cup PageRecords
    <3>1. \A r \in receipts : r.records \subseteq Sightings
      BY DEF Sightings
    <3>2. Ended(FALSE, collect.records).records = collect.records
          /\ Ended(Cardinality(WithPage) = Expected, WithPage).records = WithPage
      OBVIOUS
    <3> HIDE DEF Ended
    <3> QED BY <3>1, <3>2, <2>1, <1>7
  <2>4. Staged \subseteq Sightings
    BY DEF Sightings
  <2> HIDE DEF Ended
  <2> QED BY <2>1, <2>2, <2>3, <2>4, <1>11 DEF Sightings
<1>13. Timed'
  <2>1. /\ \A o \in Sightings : o.at <= stamp /\ o.by = "collector"
        /\ \A o, p \in Sightings : o.scope = p.scope /\ o.at = p.at => o.text = p.text
    BY DEF RosterIInv, Timed
  <2>2. \A o \in Sightings : o.at \in Nat
    BY DEF RosterIInv, RosterTypeOK, InputsTypeOK, Sightings, Staged, Observation
  <2>3. \A o \in PageRecords : /\ o.at = stamp + 1 /\ o.by = "collector"
                               /\ o.text = holder[o.scope]
    BY <1>1, PageFacts
  <2>4. \A o \in Sightings : o.at # stamp + 1 /\ o.at <= stamp + 1
    BY <2>1, <2>2, <1>1
  <2>5. \A o \in Sightings' : o.at <= stamp' /\ o.by = "collector"
    BY <2>1, <2>3, <2>4, <1>1, <1>12
  <2>6. \A o, p \in Sightings' : o.scope = p.scope /\ o.at = p.at => o.text = p.text
    BY <2>1, <2>3, <2>4, <1>12
  <2>7. reviewed' = {}
    BY <1>1 DEF RosterIInv, Timed
  <2> QED BY <2>5, <2>6, <2>7 DEF Timed
<1>14. RunSoFar'
  <2>1. \A o, p \in collect'.records : o.scope = p.scope => o = p
    BY <1>11, PageFacts
  <2>2. undisturbed' => Says(collect'.records) \subseteq ListSays
    BY <1>1, <1>11, PageFacts DEF Says
  <2>3. ListSays' = ListSays
    BY <1>1 DEF ListSays
  <2> QED BY <2>1, <2>2, <2>3 DEF RunSoFar, Says
<1>15. FromRuns' /\ TodoNewer' /\ InOrder'
  BY <1>1, <1>10, RefreshStays
<1> QED BY <1>6, <1>9, <1>13, <1>14, <1>15 DEF RosterIInv

(* A refresh that begins. *)
LEMMA BeginRefreshKeeps ==
    ASSUME RosterIInv, NEW previous \in receipts, NEW run \in receipts, BeginRefresh(previous, run)
    PROVE  RosterIInv'
<1> DEFINE before == previous.records
           now == run.records
<1>1. /\ UNCHANGED <<stamp, files, reviewed, graph, listVars, collect, receipts, base, rosterFaults>>
      /\ refresh' = [step |-> "write", run |-> now, todo |-> Plan(before, now)]
      /\ ~Stale(Plan(before, now))
      /\ half' = {now} /\ held' = held \cup {o.scope : o \in Renamed(before, now)}
      /\ before \in CompleteRuns /\ now \in CompleteRuns
      /\ ordered' = (ordered /\ before = base /\ half \subseteq {now})
  BY DEF BeginRefresh, inputVars, CompleteRuns
<1>2. UNCHANGED <<roster, holder, undisturbed, rosterMoves>>
  BY <1>1 DEF listVars
<1>3. /\ before \subseteq Observation /\ now \subseteq Observation
      /\ \A o, p \in before : o.scope = p.scope => o = p
      /\ \A o, p \in now : o.scope = p.scope => o = p
  BY <1>1, RunFacts
<1> HIDE DEF before, now
<1>4. Plan(before, now) \subseteq now /\ Renamed(before, now) \subseteq now
  BY DEF Plan, Renamed
<1>5. {o.scope : o \in Renamed(before, now)} \subseteq Scope
  BY <1>3, <1>4 DEF Observation
<1>6. RosterTypeOK'
  <2>1. refresh' \in [step : {"off", "write"}, run : SUBSET Observation, todo : SUBSET Observation]
    BY <1>1, <1>3, <1>4
  <2>2. held' \subseteq Scope /\ half' \subseteq SUBSET Observation /\ ordered' \in BOOLEAN
    BY <1>1, <1>3, <1>5 DEF RosterIInv, RosterTypeOK
  <2> QED BY <2>1, <2>2, <1>1, <1>2 DEF RosterIInv, RosterTypeOK, InputsTypeOK
<1>7. CompleteRuns' = CompleteRuns /\ Sightings' = Sightings /\ Staged' = Staged
  BY <1>1 DEF CompleteRuns, Sightings, Staged
<1>8. CompleteIsExact' /\ RunSoFar'
  BY <1>1, <1>2 DEF RosterIInv, CompleteIsExact, RunSoFar, Says, ListSays
<1>9. Timed'
  BY <1>1, <1>7, TimedStays
<1>10. FromRuns'
  BY <1>1, <1>4, <1>7 DEF RosterIInv, FromRuns
<1>11. TodoNewer'
  <2>1. ASSUME NEW o \in Plan(before, now), NEW p \in Selected(Staged),
               p.scope = o.scope, p.text # o.text
        PROVE  p.at < o.at
    <3>1. ~(o.at <= p.at)
      BY <2>1, <1>1 DEF Stale
    <3>2. o.at \in Nat /\ p.at \in Nat
      BY <1>3, <1>4 DEF RosterIInv, RosterTypeOK, InputsTypeOK, Selected, Staged, Observation
    <3> QED BY <3>1, <3>2
  <2> QED BY <2>1, <1>1, <1>7 DEF TodoNewer
<1>12. InOrder'
  <2> SUFFICES ASSUME ordered' PROVE
          /\ \A r \in base : ShowsRecord(r)' \/ Pending(r)'
          /\ Plan(before, now) \subseteq Plan(base, now)
          /\ \A r \in now : r \in Plan(before, now) \/ ShowsRecord(r)'
    BY <1>1 DEF InOrder
  <2>1. ordered /\ before = base /\ half \subseteq {now}
    BY <1>1
  <2>2. \A r : ShowsRecord(r) => ShowsRecord(r)'
    BY <1>1, <1>7 DEF ShowsRecord
  <2>3. \A r : Pending(r) => Pending(r)'
    BY <1>1, <2>1 DEF Pending
  <2>4. \A r \in base : ShowsRecord(r) \/ Pending(r)
    BY <2>1 DEF RosterIInv, InOrder
  <2>5. ASSUME NEW r \in now, r \notin Plan(base, now) PROVE ShowsRecord(r)'
    <3>1. PICK p \in base : p.scope = r.scope /\ ~(SameName(p, r) /\ p.text # r.text)
      BY <2>5 DEF Plan, SameName
    <3>2. CASE ~SameName(p, r)
      <4>1. r \in Renamed(base, now)
        BY <3>1, <3>2 DEF Renamed, SameName
      <4>2. r.scope \in held'
        BY <4>1, <1>1, <2>1
      <4> QED BY <4>2 DEF ShowsRecord
    <3>3. CASE p.text = r.text
      <4>1. ~Pending(p)
        <5> SUFFICES ASSUME NEW c \in half, NEW o \in Plan(base, c), o.scope = p.scope PROVE FALSE
          BY DEF Pending
        <5>1. c = now
          BY <2>1
        <5>2. o \in now
          BY <5>1 DEF Plan
        <5>3. o = r
          <6>1. o.scope = r.scope
            BY <3>1
          <6> QED BY <5>2, <6>1, <1>3
        <5> QED BY <5>1, <5>3, <2>5
      <4>2. ShowsRecord(p)
        BY <4>1, <2>4
      <4>3. ShowsRecord(r)
        BY <4>2, <3>1, <3>3 DEF ShowsRecord
      <4> QED BY <4>3, <2>2
    <3> QED BY <3>1, <3>2, <3>3
  <2> QED BY <2>1, <2>2, <2>3, <2>4, <2>5
<1> QED BY <1>6, <1>8, <1>9, <1>10, <1>11, <1>12 DEF RosterIInv

(* A record that is written is the newest of its source, or another of the *)
(* same text is.                                                           *)
LEMMA WrittenShows ==
    ASSUME RosterIInv, NEW o \in refresh.todo, WriteRecord(o)
    PROVE  /\ Staged' = Staged \cup {o} /\ o \in Sightings /\ o \in Observation
           /\ \E q \in Selected(Staged') : q.scope = o.scope /\ q.text = o.text
           /\ \A q : q.scope # o.scope => (q \in Selected(Staged') <=> q \in Selected(Staged))
<1>1. files' = files \cup {{o}} /\ refresh.step = "write"
  BY DEF WriteRecord
<1>2. Staged' = Staged \cup {o}
  BY <1>1 DEF Staged
<1>3. refresh.run \in CompleteRuns /\ o \in refresh.run
  BY <1>1 DEF RosterIInv, FromRuns
<1>4. o \in Sightings /\ o \in Observation
  BY <1>3, RunFacts
<1>5. stamp \in Nat /\ \A q \in Staged : q \in Observation /\ q \in Sightings
  BY DEF RosterIInv, RosterTypeOK, InputsTypeOK, Staged, Sightings
<1>6. \A q \in Staged : q.at \in Nat /\ q.at <= stamp
  BY <1>5 DEF Observation, RosterIInv, Timed
<1>7. o.at \in Nat
  BY <1>4 DEF Observation
<1>8. \E q \in Selected(Staged') : q.scope = o.scope /\ q.text = o.text
  <2>1. CASE \A p \in Staged : p.scope = o.scope => p.at <= o.at
    BY <2>1, <1>2, <1>7 DEF Selected
  <2>2. CASE \E p \in Staged : p.scope = o.scope /\ ~(p.at <= o.at)
    <3>1. PICK p \in Staged : p.scope = o.scope /\ ~(p.at <= o.at)
      BY <2>2
    <3>2. PICK q \in Selected(Staged) : q.scope = p.scope /\ p.at <= q.at
      BY <1>5, <1>6, NewestExists
    <3>3. q \in Staged /\ q.scope = o.scope /\ o.at < q.at
      <4>1. q \in Staged
        BY <3>2 DEF Selected
      <4> QED BY <4>1, <3>1, <3>2, <1>6, <1>7
    <3>4. q.text = o.text
      <4>1. q.text # o.text => q.at < o.at
        BY <1>1, <3>2, <3>3 DEF RosterIInv, TodoNewer
      <4> QED BY <4>1, <3>3, <1>6, <1>7
    <3>5. q \in Selected(Staged')
      <4>1. \A r \in Staged : r.scope = q.scope => r.at <= q.at
        BY <3>2 DEF Selected
      <4>2. o.at <= q.at
        BY <3>3, <1>6, <1>7
      <4> QED BY <4>1, <4>2, <3>3, <1>2 DEF Selected
    <3> QED BY <3>3, <3>4, <3>5
  <2> QED BY <2>1, <2>2
<1>9. \A q : q.scope # o.scope => (q \in Selected(Staged') <=> q \in Selected(Staged))
  BY <1>2 DEF Selected
<1> QED BY <1>2, <1>4, <1>8, <1>9

(* A record is written. *)
LEMMA WriteKeeps ==
    ASSUME RosterIInv, NEW o \in refresh.todo, WriteRecord(o)
    PROVE  RosterIInv'
<1>1. /\ UNCHANGED <<stamp, reviewed, graph, listVars, collect, receipts, base, half, ordered,
                     rosterFaults>>
      /\ files' = files \cup {{o}} /\ refresh.step = "write"
      /\ refresh' = [step |-> "write", run |-> refresh.run, todo |-> refresh.todo \ {o}]
      /\ held' = held \ {o.scope}
  BY DEF WriteRecord
<1>2. UNCHANGED <<roster, holder, undisturbed, rosterMoves>>
  BY <1>1 DEF listVars
<1>3. /\ half = {refresh.run} /\ refresh.todo \subseteq refresh.run /\ refresh.run \in CompleteRuns
      /\ refresh.run \in SUBSET Observation /\ refresh.todo \in SUBSET Observation
  BY <1>1 DEF RosterIInv, FromRuns, RosterTypeOK
<1>4. \A q, r \in refresh.run : q.scope = r.scope => q = r
  BY <1>3, RunFacts
<1>5. CompleteRuns' = CompleteRuns
  BY <1>1 DEF CompleteRuns
<1>6. RosterTypeOK'
  <2>1. files' \subseteq SUBSET Observation
    BY <1>1, WrittenShows DEF RosterIInv, RosterTypeOK, InputsTypeOK
  <2>2. refresh' \in [step : {"off", "write"}, run : SUBSET Observation, todo : SUBSET Observation]
    BY <1>1, <1>3
  <2> QED BY <2>1, <2>2, <1>1, <1>2 DEF RosterIInv, RosterTypeOK, InputsTypeOK
<1>7. CompleteIsExact' /\ RunSoFar'
  BY <1>1, <1>2 DEF RosterIInv, CompleteIsExact, RunSoFar, Says, ListSays
<1>8. Timed'
  <2>1. Sightings' \subseteq Sightings
    BY <1>1, WrittenShows DEF Sightings
  <2> QED BY <2>1, <1>1, TimedStays
<1>9. FromRuns'
  BY <1>1, <1>3, <1>5 DEF RosterIInv, FromRuns
<1>10. TodoNewer'
  <2> SUFFICES ASSUME NEW q \in refresh.todo, q # o, NEW p \in Selected(Staged'),
                      p.scope = q.scope, p.text # q.text
               PROVE  p.at < q.at
    BY <1>1 DEF TodoNewer
  <2>1. q.scope # o.scope
    BY <1>3, <1>4
  <2>2. p \in Selected(Staged)
    BY <2>1, WrittenShows
  <2> QED BY <2>2, <1>1 DEF RosterIInv, TodoNewer
<1>11. ASSUME NEW r, ShowsRecord(r), r.scope # o.scope PROVE ShowsRecord(r)'
  <2>1. CASE r.scope \in held
    BY <2>1, <1>1, <1>11 DEF ShowsRecord
  <2>2. CASE \E q \in Selected(Staged) : q.scope = r.scope /\ q.text = r.text
    BY <2>2, <1>11, WrittenShows DEF ShowsRecord
  <2> QED BY <2>1, <2>2, <1>11 DEF ShowsRecord
<1>12. ShowsRecord(o)'
  BY WrittenShows DEF ShowsRecord
<1>13. \A r : Pending(r)' <=> Pending(r)
  BY <1>1 DEF Pending
<1>14. InOrder'
  <2> SUFFICES ASSUME ordered
               PROVE  /\ \A r \in base : ShowsRecord(r)' \/ Pending(r)
                      /\ refresh.todo \ {o} \subseteq Plan(base, refresh.run)
                      /\ \A r \in refresh.run : r \in refresh.todo \ {o} \/ ShowsRecord(r)'
    BY <1>1, <1>13 DEF InOrder
  <2>1. /\ \A r \in base : ShowsRecord(r) \/ Pending(r)
        /\ refresh.todo \subseteq Plan(base, refresh.run)
        /\ \A r \in refresh.run : r \in refresh.todo \/ ShowsRecord(r)
    BY <1>1 DEF RosterIInv, InOrder
  <2>2. ASSUME NEW r \in base PROVE ShowsRecord(r)' \/ Pending(r)
    <3>1. CASE r.scope = o.scope
      BY <3>1, <2>1, <1>3 DEF Pending
    <3> QED BY <3>1, <2>1, <1>11
  <2>3. ASSUME NEW r \in refresh.run PROVE r \in refresh.todo \ {o} \/ ShowsRecord(r)'
    <3>1. CASE r.scope = o.scope
      <4>1. r = o
        BY <3>1, <1>3, <1>4
      <4> QED BY <4>1, <1>12
    <3>2. CASE r.scope # o.scope
      <4>1. r # o
        BY <3>2
      <4> QED BY <4>1, <3>2, <2>1, <1>11
    <3> QED BY <3>1, <3>2
  <2> QED BY <2>1, <2>2, <2>3
<1> QED BY <1>6, <1>7, <1>8, <1>9, <1>10, <1>14 DEF RosterIInv

(* A refresh that ends, or is cut short. *)
LEMMA RefreshEndsKeep ==
    ASSUME RosterIInv, (\E o \in refresh.todo : WriteConflicts(o)) \/ EndRefresh \/ RefreshDies
    PROVE  RosterIInv'
<1>1. /\ UNCHANGED <<inputVars, listVars, collect, receipts, held, ordered>>
      /\ refresh' = NoRefresh /\ refresh.step = "write"
  BY DEF WriteConflicts, EndRefresh, RefreshDies, stagedVars
<1>2. \/ refresh.todo = {} /\ base' = refresh.run /\ half' = {}
      \/ base' = base /\ half' = half
  BY DEF WriteConflicts, EndRefresh, RefreshDies, stagedVars
<1>3. rosterFaults' \in Nat
  BY DEF RosterIInv, RosterTypeOK, WriteConflicts, EndRefresh, RefreshDies, RosterFault
<1>4. UNCHANGED <<stamp, files, reviewed, graph, roster, holder, undisturbed, rosterMoves>>
  BY <1>1 DEF inputVars, listVars
<1>5. half = {refresh.run} /\ refresh.run \in CompleteRuns /\ refresh.run \in SUBSET Observation
  BY <1>1 DEF RosterIInv, FromRuns, RosterTypeOK
<1>6. refresh' \in [step : {"off", "write"}, run : SUBSET Observation, todo : SUBSET Observation]
      /\ refresh'.step = "off"
  BY <1>1 DEF NoRefresh
<1>7. RosterTypeOK'
  <2>1. base' \subseteq Observation /\ half' \subseteq SUBSET Observation
    BY <1>2, <1>5 DEF RosterIInv, RosterTypeOK
  <2> QED BY <2>1, <1>1, <1>3, <1>4, <1>6 DEF RosterIInv, RosterTypeOK, InputsTypeOK
<1>8. CompleteRuns' = CompleteRuns /\ Sightings' = Sightings /\ Staged' = Staged
  BY <1>1, <1>4 DEF CompleteRuns, Sightings, Staged
<1>9. CompleteIsExact' /\ RunSoFar' /\ TodoNewer'
  BY <1>1, <1>4, <1>6 DEF RosterIInv, CompleteIsExact, RunSoFar, Says, ListSays, TodoNewer
<1>10. Timed'
  BY <1>4, <1>8, TimedStays
<1>11. FromRuns'
  BY <1>2, <1>5, <1>6, <1>8 DEF RosterIInv, FromRuns
<1>12. InOrder'
  <2>1. \A r : ShowsRecord(r)' <=> ShowsRecord(r)
    BY <1>1, <1>8 DEF ShowsRecord
  <2>2. CASE base' = base /\ half' = half
    <3>1. \A r : Pending(r)' <=> Pending(r)
      BY <2>2 DEF Pending
    <3> QED BY <3>1, <2>1, <2>2, <1>1, <1>6 DEF RosterIInv, InOrder
  <2>3. CASE refresh.todo = {} /\ base' = refresh.run /\ half' = {}
    BY <2>1, <2>3, <1>1, <1>6 DEF RosterIInv, InOrder
  <2> QED BY <2>2, <2>3, <1>2
<1> QED BY <1>7, <1>9, <1>10, <1>11, <1>12 DEF RosterIInv

(* What is there before the first run. *)
LEMMA RosterStart == RosterInit => RosterIInv
<1> SUFFICES ASSUME RosterInit PROVE RosterIInv
  OBVIOUS
<1>1. PICK some \in SUBSET Scope, said \in [Scope -> Text] :
          base = {Sighting(s, said[s], 1) : s \in some}
  BY DEF RosterInit
<1>2. base \subseteq Observation
      /\ \A o \in base : o.at = 1 /\ o.by = "collector" /\ o.text = said[o.scope]
  BY <1>1 DEF Sighting, Observation
<1>3. \A o, p \in base : o.scope = p.scope => o = p
  BY <1>1 DEF Sighting
<1>4. /\ stamp = 1 /\ reviewed = {} /\ graph = {} /\ files = {{o} : o \in base}
      /\ receipts = {[complete |-> TRUE, exact |-> TRUE, records |-> base]}
      /\ collect = NoRun /\ refresh = NoRefresh
      /\ half = {} /\ held = {} /\ ordered = TRUE /\ undisturbed = TRUE
      /\ rosterMoves = 0 /\ rosterFaults = 0 /\ roster \in Lists /\ holder \in [Scope -> Text]
  BY DEF RosterInit
<1>5. Staged = base
  BY <1>4 DEF Staged
<1>6. collect.records = {} /\ refresh.step = "off"
  BY <1>4 DEF NoRun, NoRefresh
<1>7. RosterTypeOK
  <2>1. files \subseteq SUBSET Observation
    BY <1>2, <1>4
  <2>2. collect \in [step : {"off", "page"}, page : Nat \ {0}, expected : Nat,
                     records : SUBSET Observation]
    BY <1>4 DEF NoRun
  <2>3. refresh \in [step : {"off", "write"}, run : SUBSET Observation, todo : SUBSET Observation]
    BY <1>4 DEF NoRefresh
  <2>4. receipts \subseteq [complete : BOOLEAN, exact : BOOLEAN, records : SUBSET Observation]
    BY <1>2, <1>4
  <2> QED BY <2>1, <2>2, <2>3, <2>4, <1>2, <1>4 DEF RosterTypeOK, InputsTypeOK
<1>8. CompleteIsExact /\ CompleteRuns = {base}
  <2>1. \A r \in receipts : r.complete = TRUE /\ r.exact = TRUE /\ r.records = base
    BY <1>4
  <2>2. \E r \in receipts : r.complete = TRUE /\ r.records = base
    BY <1>4
  <2>3. CompleteIsExact
    BY <1>3, <2>1 DEF CompleteIsExact
  <2>4. CompleteRuns = {base}
    BY <2>1, <2>2 DEF CompleteRuns
  <2> QED BY <2>3, <2>4
<1>9. Sightings = base
  BY <1>4, <1>5, <1>6 DEF Sightings
<1>10. Timed
  BY <1>2, <1>4, <1>9 DEF Timed
<1>11. RunSoFar
  BY <1>6 DEF RunSoFar, Says
<1>12. FromRuns /\ TodoNewer
  BY <1>4, <1>6, <1>8 DEF FromRuns, TodoNewer
<1>13. \A r \in base : ShowsRecord(r)
  <2>1. \A r \in base : r \in Selected(base)
    BY <1>2 DEF Selected
  <2> QED BY <2>1, <1>5 DEF ShowsRecord
<1>14. InOrder
  BY <1>6, <1>13 DEF InOrder
<1> QED BY <1>7, <1>8, <1>10, <1>11, <1>12, <1>14 DEF RosterIInv

(* Every step of the two commands and of the list, by those above. *)
LEMMA RosterStays == RosterIInv /\ [RosterNext]_rosterVars => RosterIInv'
<1> SUFFICES ASSUME RosterIInv, [RosterNext]_rosterVars PROVE RosterIInv'
  OBVIOUS
<1>1. CASE UNCHANGED rosterVars
  <2>1. UNCHANGED <<stamp, files, reviewed, graph, roster, holder, undisturbed, rosterMoves, collect,
                    receipts, refresh, stagedVars, rosterFaults>>
    BY <1>1 DEF rosterVars, inputVars, listVars
  <2>2. RosterTypeOK'
    BY <2>1 DEF stagedVars, RosterIInv, RosterTypeOK, InputsTypeOK
  <2>3. CompleteRuns' = CompleteRuns /\ Sightings' = Sightings
    BY <2>1 DEF CompleteRuns, Sightings, Staged
  <2>4. CompleteIsExact' /\ RunSoFar'
    BY <2>1 DEF RosterIInv, CompleteIsExact, RunSoFar, Says, ListSays
  <2>5. FromRuns' /\ TodoNewer' /\ InOrder'
    BY <2>1, <2>3, RefreshStays
  <2>6. Timed'
    BY <2>1, <2>3, TimedStays
  <2> QED BY <2>2, <2>4, <2>5, <2>6 DEF RosterIInv
<1>2. CASE RosterNext
  BY <1>2, ListMovesKeep, RunEndsKeep, PageKeeps, BeginRefreshKeeps, WriteKeeps, RefreshEndsKeep
     DEF RosterNext
<1> QED BY <1>1, <1>2

(* RosterInv (RosterRefresh): a complete run over an undisturbed list is    *)
(* the list, and refreshes in order leave no change of a run unstaged.      *)
THEOREM RosterHolds == RosterSpec => []RosterInv
<1>1. ASSUME RosterIInv PROVE RosterInv
  <2>1. RefreshReaches
    BY <1>1 DEF RosterIInv, InOrder, RefreshReaches, Pending
  <2>2. Readable(Inputs)
    <3>1. Inputs \subseteq Sightings
      BY <1>1 DEF Inputs, Sightings, RosterIInv, Timed
    <3> QED BY <1>1, <3>1 DEF RosterIInv, Timed, Readable, SaysSame
  <2> QED BY <1>1, <2>1, <2>2 DEF RosterIInv, RosterInv
<1> QED BY <1>1, RosterStart, RosterStays, PTL DEF RosterSpec

-----------------------------------------------------------------------------
(* The bills.                                                              *)

CycleState == [step : {"off", "first", "pages", "details", "cursor"},
               at : Nat, start : Nat \ {0, 1}, onward : BOOLEAN, pages : SUBSET Nat,
               last : Nat \ {0}, rows : SUBSET Scope, known : SUBSET Observation,
               changed : SUBSET Observation, failed : BOOLEAN]
Active(c) == cycle[c].step # "off"

(* Observations are of the past, and those of the time of a cycle are its  *)
(* own batch.                                                              *)
Stamped ==
    /\ \A o \in Inputs : o.at <= stamp
    /\ \A o \in reviewed : o.by = "curator"
    /\ graph \subseteq Inputs
    /\ \A c, d \in Cycle : Active(c) /\ Active(d) /\ cycle[c].at = cycle[d].at => c = d
OwnTime(c) ==
    Active(c) => /\ cycle[c].at <= stamp
                 /\ \A o \in Inputs : o.at = cycle[c].at => cycle[c].step = "cursor"

(* What a cycle has found changed: of each bill once, and the page kept.   *)
ChangedOnce(c) ==
    /\ cycle[c].known \subseteq Inputs
    /\ cycle[c].step \in {"off", "first", "pages"} => cycle[c].changed = {}
    /\ \A o \in cycle[c].changed :
         /\ o.at = cycle[c].at /\ o.by = "collector" /\ o.scope \notin cycle[c].rows
         /\ <<o.scope, o.text>> \in raws
         /\ \A p \in cycle[c].changed : p.scope = o.scope => p = o

(* Whatever a curator put there before a cycle began the cycle knows of,   *)
(* and what it changes nobody had curated then.                            *)
CuratedKnown(c) ==
    cycle[c].step = "details" =>
        /\ \A k \in Staged : k.by = "curator" /\ k.at < cycle[c].at =>
             \E o \in cycle[c].known : o.scope = k.scope /\ o.by = "curator"
        /\ \A o \in cycle[c].changed, k \in Staged :
             k.by = "curator" /\ k.scope = o.scope => o.at < k.at

(* A cycle that began after the board was last changed. *)
Swept(c) == {p \in 2 .. cycle[c].last : cycle[c].start <= p /\ p < cycle[c].start + SweepPages}
UpToDate(o) == o.by = "curator" \/ o.text = says[o.scope]
QuietReads(c) ==
    /\ \A o \in cycle[c].changed : UpToDate(o)
    /\ \A o \in Inputs : o.at >= cycle[c].at => UpToDate(o)
    /\ cycle[c].step \notin {"off", "first"} => cycle[c].last = LastPage
    /\ cycle[c].step = "details" => \A o \in cycle[c].known : UpToDate(o) => Settled(o.scope)
QuietSweep(c) ==
    /\ cycle[c].onward = TRUE => \A p \in 2 .. cycle[c].start - 1 : \A b \in Page(p) : Settled(b)
    /\ cycle[c].failed = FALSE => \A p \in Swept(c) :
         /\ cycle[c].step = "pages" => p \in cycle[c].pages \/ Page(p) \subseteq cycle[c].rows
         /\ cycle[c].step = "details" => \A b \in Page(p) :
              b \in cycle[c].rows \/ Settled(b) \/ \E o \in cycle[c].changed : o.scope = b
         /\ cycle[c].step = "cursor" => \A b \in Page(p) : Settled(b)
Quiet(c) == quiet /\ Active(c) => QuietReads(c) /\ QuietSweep(c)

CycleOK(c) == OwnTime(c) /\ ChangedOnce(c) /\ CuratedKnown(c) /\ Quiet(c)

FeedIInv ==
    /\ BillFeedTypeOK /\ Stamped
    /\ \A c \in Cycle : CycleOK(c)
    /\ PagesKept /\ CuratedStays /\ Readable(Inputs) /\ SweepReaches

(* The types in the terms of the proofs. *)
LEMMA FeedTyped ==
    ASSUME BillFeedTypeOK
    PROVE  /\ stamp \in Nat /\ files \subseteq SUBSET Observation
           /\ Inputs \subseteq Observation /\ Staged \subseteq Inputs /\ reviewed \subseteq Inputs
           /\ cycle \in [Cycle -> CycleState]
           /\ \A i \in DOMAIN board : board[i] \in Scope
           /\ \A p \in Nat : Page(p) \subseteq Scope
           /\ LastPage \in Nat \ {0}
<1>1. stamp \in Nat /\ files \subseteq SUBSET Observation /\ reviewed \subseteq Observation
  BY DEF BillFeedTypeOK, InputsTypeOK
<1>2. Inputs \subseteq Observation /\ Staged \subseteq Inputs /\ reviewed \subseteq Inputs
  BY <1>1 DEF Inputs, Staged
<1>3. cycle \in [Cycle -> CycleState]
  BY DEF BillFeedTypeOK, CycleState
<1>4. PICK n \in 0 .. Cardinality(Scope) : board \in [1 .. n -> Scope]
  BY DEF BillFeedTypeOK, Boards
<1>5. n \in Nat
  BY <1>4, FS_CardinalityType, GraphInputsAssumption
<1>6. board \in Seq(Scope) /\ Len(board) \in Nat /\ DOMAIN board = 1 .. Len(board)
  BY <1>4, <1>5
<1>7. \A i \in DOMAIN board : board[i] \in Scope
  BY <1>6
<1>8. \A p \in Nat : Page(p) \subseteq Scope
  BY <1>6, <1>7 DEF Page
<1>9. LastPage \in Nat \ {0}
  <2>1. ASSUME NEW rows \in Nat \ {0} PROVE (rows + PageRows - 1) \div PageRows \in Nat \ {0}
    BY BillFeedAssumption
  <2> QED BY <1>6, <2>1 DEF LastPage
<1> QED BY <1>1, <1>2, <1>3, <1>7, <1>8, <1>9

(* A step of a cycle that reads. *)
Frame == UNCHANGED <<inputVars, boardVars, cursor, quiet>>

(* It leaves the board and the inputs as they are. *)
LEMMA FrameKeeps ==
    ASSUME Frame
    PROVE  /\ UNCHANGED <<stamp, files, reviewed, graph, board, says, moves, cursor, quiet>>
           /\ Inputs' = Inputs /\ Staged' = Staged /\ LastPage' = LastPage
           /\ \A b : Settled(b)' <=> Settled(b)
           /\ \A p : Page(p)' = Page(p)
           /\ \A o : UpToDate(o)' <=> UpToDate(o)
<1>1. UNCHANGED <<stamp, files, reviewed, graph, board, says, moves, cursor, quiet>>
  BY DEF Frame, inputVars, boardVars
<1>2. Inputs' = Inputs /\ Staged' = Staged
  BY <1>1 DEF Inputs, Staged
<1>3. \A b : Settled(b)' <=> Settled(b)
  BY <1>1, <1>2 DEF Settled
<1>4. LastPage' = LastPage /\ \A p : Page(p)' = Page(p)
  BY <1>1 DEF LastPage, Page
<1> QED BY <1>1, <1>2, <1>3, <1>4 DEF UpToDate

(* Other cycles do not notice it. *)
LEMMA OthersStay ==
    ASSUME FeedIInv, Frame, raws \subseteq raws', NEW d \in Cycle, cycle'[d] = cycle[d]
    PROVE  CycleOK(d)'
<1>0. CycleOK(d)
  BY DEF FeedIInv
<1>1. OwnTime(d)'
  BY <1>0, FrameKeeps DEF CycleOK, OwnTime, Active
<1>2. ChangedOnce(d)'
  BY <1>0, FrameKeeps DEF CycleOK, ChangedOnce
<1>3. CuratedKnown(d)'
  BY <1>0, FrameKeeps DEF CycleOK, CuratedKnown
<1>4. QuietReads(d) => QuietReads(d)'
  BY FrameKeeps DEF QuietReads
<1>5. QuietSweep(d) => QuietSweep(d)'
  <2>1. Swept(d)' = Swept(d)
    BY DEF Swept
  <2> QED BY <2>1, FrameKeeps DEF QuietSweep
<1>6. Quiet(d)'
  BY <1>0, <1>4, <1>5, FrameKeeps DEF CycleOK, Quiet, Active
<1> QED BY <1>1, <1>2, <1>3, <1>6 DEF CycleOK

(* So only what it says of its own cycle is left to show. *)
LEMMA ReadingKeeps ==
    ASSUME FeedIInv, Frame, NEW c \in Cycle, NEW new \in CycleState,
           cycle' = [cycle EXCEPT ![c] = new],
           raws \subseteq raws', raws' \subseteq Scope \X Text, feedFaults' \in Nat,
           new.step = "off" \/ (new.at = cycle[c].at /\ Active(c)),
           CycleOK(c)'
    PROVE  FeedIInv'
<1>1. cycle \in [Cycle -> CycleState]
  BY FeedTyped DEF FeedIInv
<1>2. cycle' \in [Cycle -> CycleState] /\ cycle'[c] = new
      /\ \A d \in Cycle \ {c} : cycle'[d] = cycle[d]
  BY <1>1
<1>3. \A d \in Cycle : CycleOK(d)'
  BY <1>2, OthersStay
<1>4. BillFeedTypeOK'
  BY <1>2, FrameKeeps DEF FeedIInv, BillFeedTypeOK, InputsTypeOK, CycleState
<1>5. Stamped'
  BY <1>2, FrameKeeps DEF FeedIInv, Stamped, Active
<1>6. PagesKept' /\ CuratedStays' /\ Readable(Inputs)' /\ SweepReaches'
  BY FrameKeeps DEF FeedIInv, PagesKept, CuratedStays, Readable, SweepReaches
<1> QED BY <1>3, <1>4, <1>5, <1>6 DEF FeedIInv

(* A cycle that ends, or is given up. *)
LEMMA IdleFacts ==
    /\ Idle \in CycleState /\ Idle.step = "off" /\ Idle.known = {} /\ Idle.changed = {}
    /\ \A c : cycle'[c] = Idle => CycleOK(c)'
<1>1. /\ Idle \in CycleState /\ Idle.step = "off" /\ Idle.known = {} /\ Idle.changed = {}
  BY DEF Idle, CycleState
<1>2. ASSUME NEW c, cycle'[c] = Idle PROVE CycleOK(c)'
  BY <1>1, <1>2 DEF CycleOK, OwnTime, ChangedOnce, CuratedKnown, Quiet, Active
<1> QED BY <1>1, <1>2

(* FirstFails and CycleDies. *)
LEMMA EndsKeep ==
    ASSUME FeedIInv, NEW c \in Cycle, FirstFails(c) \/ CycleDies(c)
    PROVE  FeedIInv'
<1>1. Frame /\ raws' = raws /\ cycle' = [cycle EXCEPT ![c] = Idle]
  BY DEF FirstFails, CycleDies, ReadsOnly, Continues, Frame
<1>2. feedFaults' \in Nat /\ raws \subseteq Scope \X Text
  BY DEF FirstFails, CycleDies, FeedFault, FeedIInv, BillFeedTypeOK
<1>3. CycleOK(c)'
  BY <1>1, FeedTyped, IdleFacts DEF FeedIInv
<1> QED BY <1>1, <1>2, <1>3, IdleFacts, ReadingKeeps

(* What a step of a cycle under way may change of it, field by field. *)
LEMMA ReadingStep ==
    ASSUME FeedIInv, NEW c \in Cycle, NEW new \in CycleState, Frame,
           cycle' = [cycle EXCEPT ![c] = new], Active(c), new.at = cycle[c].at,
           new.step \notin {"off", "cursor"}, cycle[c].step # "cursor"
    PROVE  cycle'[c] = new /\ OwnTime(c)'
<1>1. cycle'[c] = new
  BY FeedTyped DEF FeedIInv
<1> QED BY <1>1, FrameKeeps DEF FeedIInv, CycleOK, OwnTime, Active

(* ReadFirst: the pages of the sweep are all still to be read. *)
LEMMA FirstKeeps ==
    ASSUME FeedIInv, NEW c \in Cycle, ReadFirst(c)
    PROVE  FeedIInv'
<1> DEFINE old == cycle[c]
           start == IF old.start > LastPage THEN 2 ELSE old.start
           pages == {p \in 2 .. LastPage : p <= HotPages \/ (start <= p /\ p < start + SweepPages)}
           new == [old EXCEPT !.step = "pages", !.start = start, !.last = LastPage,
                              !.rows = Page(1), !.pages = pages]
<1>1. /\ Frame /\ raws' = raws /\ cycle' = [cycle EXCEPT ![c] = new] /\ old.step = "first"
      /\ feedFaults' = feedFaults
  BY DEF ReadFirst, ReadsOnly, Continues, Frame, InStep
<1>2. old \in CycleState /\ Page(1) \subseteq Scope /\ LastPage \in Nat \ {0}
  BY FeedTyped DEF FeedIInv
<1>3. start \in Nat \ {0, 1} /\ pages \subseteq Nat
  BY <1>2 DEF CycleState
<1> HIDE DEF start, pages
<1>4. /\ new \in CycleState /\ new.step = "pages" /\ new.start = start /\ new.last = LastPage
      /\ new.rows = Page(1) /\ new.pages = pages /\ new.at = old.at /\ new.known = old.known
      /\ new.changed = old.changed /\ new.onward = old.onward
  BY <1>2, <1>3 DEF CycleState
<1> HIDE DEF new
<1>5. cycle'[c] = new /\ OwnTime(c)'
  BY <1>1, <1>4, ReadingStep DEF Active
<1>6. CycleOK(c)
  BY DEF FeedIInv
<1>7. old.changed = {}
  BY <1>1, <1>6 DEF CycleOK, ChangedOnce
<1>8. ChangedOnce(c)' /\ CuratedKnown(c)'
  BY <1>1, <1>4, <1>5, <1>6, <1>7, FrameKeeps DEF CycleOK, ChangedOnce, CuratedKnown
<1>9. ASSUME quiet PROVE QuietReads(c)'
  BY <1>1, <1>4, <1>5, <1>6, <1>7, <1>9, FrameKeeps DEF CycleOK, Quiet, QuietReads, Active
<1>10. ASSUME quiet PROVE QuietSweep(c)'
  <2>1. ASSUME old.onward = TRUE PROVE \A p \in 2 .. start - 1 : \A b \in Page(p) : Settled(b)
    BY <1>1, <1>6, <1>10, <2>1 DEF CycleOK, Quiet, QuietSweep, Active, start
  <2>2. \A p \in 2 .. LastPage : start <= p /\ p < start + SweepPages => p \in pages
    BY DEF pages
  <2>3. Swept(c)' = {p \in 2 .. LastPage : start <= p /\ p < start + SweepPages}
    BY <1>4, <1>5 DEF Swept
  <2>4. cycle'[c].onward = TRUE => \A p \in 2 .. cycle'[c].start - 1 : \A b \in Page(p) : Settled(b)
    BY <2>1, <1>4, <1>5
  <2>5. cycle'[c].step = "pages" /\ \A p \in Swept(c)' : p \in cycle'[c].pages
    BY <2>2, <2>3, <1>4, <1>5
  <2> QED BY <2>4, <2>5, <1>1, FrameKeeps DEF QuietSweep
<1>11. CycleOK(c)'
  BY <1>1, <1>5, <1>8, <1>9, <1>10, FrameKeeps DEF CycleOK, Quiet
<1> QED BY <1>1, <1>4, <1>11, ReadingKeeps DEF FeedIInv, BillFeedTypeOK, Active

(* A page is left out, or all its rows are taken, unless it failed. *)
LEMMA BoardPageKeeps ==
    ASSUME FeedIInv, NEW c \in Cycle, NEW p \in cycle[c].pages,
           PageFails(c, p) \/ \E skipped \in SUBSET Page(p) : ReadBoardPage(c, p, skipped)
    PROVE  FeedIInv'
<1> DEFINE old == cycle[c]
<1>1. old \in CycleState /\ p \in Nat /\ Page(p) \subseteq Scope /\ old.step = "pages"
  BY FeedTyped DEF FeedIInv, PageFails, ReadBoardPage, ToRead, InStep, CycleState
<1>2. Frame /\ raws' = raws /\ feedFaults' \in Nat
  <2>1. feedFaults \in Nat
    BY DEF FeedIInv, BillFeedTypeOK
  <2>2. CASE PageFails(c, p)
    BY <2>1, <2>2 DEF PageFails, ReadsOnly, Frame, FeedFault
  <2>3. CASE \E skipped \in SUBSET Page(p) : ReadBoardPage(c, p, skipped)
    <3>1. PICK skipped \in SUBSET Page(p) : ReadBoardPage(c, p, skipped)
      BY <2>3
    <3>2. /\ IF skipped = {} THEN UNCHANGED feedFaults ELSE FeedFault
          /\ ReadsOnly
      BY <3>1 DEF ReadBoardPage
    <3> QED BY <3>2, <2>1 DEF ReadsOnly, Frame, FeedFault
  <2> QED BY <2>2, <2>3
<1>3. PICK new \in CycleState :
        /\ cycle' = [cycle EXCEPT ![c] = new]
        /\ new.step = "pages" /\ new.start = old.start /\ new.last = old.last /\ new.at = old.at
        /\ new.known = old.known /\ new.changed = old.changed /\ new.onward = old.onward
        /\ new.pages = old.pages \ {p} /\ old.rows \subseteq new.rows
        /\ new.failed = FALSE => old.failed = FALSE /\ Page(p) \subseteq new.rows
  <2>1. CASE PageFails(c, p)
    <3> DEFINE new == [old EXCEPT !.pages = @ \ {p}, !.failed = TRUE]
    <3>1. cycle' = [cycle EXCEPT ![c] = new]
      BY <2>1 DEF PageFails, Continues
    <3>2. /\ new \in CycleState
          /\ new.step = "pages" /\ new.start = old.start /\ new.last = old.last /\ new.at = old.at
          /\ new.known = old.known /\ new.changed = old.changed /\ new.onward = old.onward
          /\ new.pages = old.pages \ {p} /\ new.rows = old.rows /\ new.failed = TRUE
      BY <1>1 DEF CycleState
    <3> HIDE DEF new
    <3> QED BY <3>1, <3>2
  <2>2. CASE \E skipped \in SUBSET Page(p) : ReadBoardPage(c, p, skipped)
    <3>1. PICK skipped \in SUBSET Page(p) : ReadBoardPage(c, p, skipped)
      BY <2>2
    <3> DEFINE new == [old EXCEPT !.pages = @ \ {p}, !.rows = @ \cup (Page(p) \ skipped),
                                  !.failed = @ \/ skipped # {}]
    <3>2. cycle' = [cycle EXCEPT ![c] = new]
      BY <3>1 DEF ReadBoardPage, Continues
    <3>3. /\ new \in CycleState
          /\ new.step = "pages" /\ new.start = old.start /\ new.last = old.last /\ new.at = old.at
          /\ new.known = old.known /\ new.changed = old.changed /\ new.onward = old.onward
          /\ new.pages = old.pages \ {p} /\ new.rows = old.rows \cup (Page(p) \ skipped)
          /\ new.failed = (old.failed \/ skipped # {})
      BY <1>1 DEF CycleState
    <3>4. old.failed \in BOOLEAN
      BY <1>1 DEF CycleState
    <3> HIDE DEF new
    <3> QED BY <3>2, <3>3, <3>4
  <2> QED BY <2>1, <2>2
<1>4. cycle'[c] = new /\ OwnTime(c)'
  BY <1>1, <1>2, <1>3, ReadingStep DEF Active
<1>5. CycleOK(c)
  BY DEF FeedIInv
<1>6. old.changed = {}
  BY <1>1, <1>5 DEF CycleOK, ChangedOnce
<1>7. ChangedOnce(c)' /\ CuratedKnown(c)'
  BY <1>1, <1>2, <1>3, <1>4, <1>5, <1>6, FrameKeeps DEF CycleOK, ChangedOnce, CuratedKnown
<1>8. ASSUME quiet PROVE QuietReads(c)'
  BY <1>1, <1>2, <1>3, <1>4, <1>5, <1>6, <1>8, FrameKeeps DEF CycleOK, Quiet, QuietReads, Active
<1>9. ASSUME quiet PROVE QuietSweep(c)'
  <2>1. QuietSweep(c)
    BY <1>1, <1>5, <1>9 DEF CycleOK, Quiet, Active
  <2>2. Swept(c)' = Swept(c)
    BY <1>3, <1>4 DEF Swept
  <2>3. ASSUME new.failed = FALSE, NEW q \in Swept(c)
        PROVE  q \in new.pages \/ Page(q) \subseteq new.rows
    <3>1. q \in old.pages \/ Page(q) \subseteq old.rows
      BY <2>1, <2>3, <1>1, <1>3 DEF QuietSweep
    <3> QED BY <3>1, <2>3, <1>3
  <2>4. cycle'[c].onward = TRUE => \A q \in 2 .. cycle'[c].start - 1 : \A b \in Page(q) : Settled(b)
    BY <2>1, <1>3, <1>4 DEF QuietSweep
  <2>5. /\ cycle'[c].step = "pages"
        /\ cycle'[c].failed = FALSE =>
             \A q \in Swept(c)' : q \in cycle'[c].pages \/ Page(q) \subseteq cycle'[c].rows
    BY <2>2, <2>3, <1>3, <1>4
  <2> QED BY <2>4, <2>5, <1>2, FrameKeeps DEF QuietSweep
<1>10. CycleOK(c)'
  BY <1>2, <1>4, <1>7, <1>8, <1>9, FrameKeeps DEF CycleOK, Quiet
<1> QED BY <1>1, <1>2, <1>3, <1>10, ReadingKeeps DEF FeedIInv, BillFeedTypeOK, Active

(* Comparing with what is known: whatever a curator has put into the       *)
(* directory before is found, and what is known and up to date is settled. *)
LEMMA KnownKeeps ==
    ASSUME FeedIInv, NEW c \in Cycle, ReadKnown(c)
    PROVE  FeedIInv'
<1> DEFINE old == cycle[c]
           known == {g \in old.known : \A o \in Staged : o.scope # g.scope} \cup Selected(Staged)
           new == [old EXCEPT !.step = "details", !.known = known]
<1>1. /\ Frame /\ raws' = raws /\ feedFaults' = feedFaults
      /\ old.step = "pages" /\ old.pages = {} /\ Readable(Staged)
      /\ cycle' = [cycle EXCEPT ![c] = new]
  BY DEF ReadKnown, ReadsOnly, Continues, Frame, InStep
<1>2. old \in CycleState /\ Inputs \subseteq Observation /\ Staged \subseteq Inputs
  BY FeedTyped DEF FeedIInv
<1>3. CycleOK(c)
  BY DEF FeedIInv
<1>4. known \subseteq Inputs
  BY <1>2, <1>3 DEF CycleOK, ChangedOnce, Selected
<1> HIDE DEF known
<1>5. /\ new \in CycleState /\ new.step = "details" /\ new.known = known
      /\ new.start = old.start /\ new.last = old.last /\ new.at = old.at
      /\ new.changed = old.changed /\ new.onward = old.onward /\ new.rows = old.rows
      /\ new.failed = old.failed
  BY <1>2, <1>4 DEF CycleState
<1> HIDE DEF new
<1>6. cycle'[c] = new /\ OwnTime(c)'
  BY <1>1, <1>5, ReadingStep DEF Active
<1>7. old.changed = {}
  BY <1>1, <1>3 DEF CycleOK, ChangedOnce
<1>8. ChangedOnce(c)'
  BY <1>4, <1>5, <1>6, <1>7, <1>1, FrameKeeps DEF ChangedOnce
<1>9. /\ stamp \in Nat /\ \A o \in Inputs : o.at \in Nat /\ o.at <= stamp
  BY <1>2, FeedTyped DEF FeedIInv, Stamped, Observation
<1>10. CuratedKnown(c)'
  <2>1. ASSUME NEW k \in Staged, k.by = "curator"
        PROVE  \E o \in known : o.scope = k.scope /\ o.by = "curator"
    <3>1. PICK o \in Selected(Staged) : o.scope = k.scope /\ k.at <= o.at
      BY <1>2, <1>9, NewestExists
    <3>2. o \in Staged /\ o \in known
      BY <3>1 DEF known, Selected
    <3>3. o.by \in {"collector", "curator"} /\ o.at \in Nat /\ k.at \in Nat
      BY <3>2, <1>2, <1>9 DEF Observation
    <3>4. o.by # "collector"
      BY <2>1, <3>1, <3>2, <3>3 DEF FeedIInv, CuratedStays
    <3> QED BY <3>1, <3>2, <3>3, <3>4
  <2> QED BY <2>1, <1>1, <1>5, <1>6, <1>7, FrameKeeps DEF CuratedKnown
<1>11. ASSUME NEW o \in known, UpToDate(o) PROVE Settled(o.scope)
  <2>1. o \in Inputs
    BY <1>4
  <2>2. PICK s \in Selected(Inputs) : s.scope = o.scope /\ o.at <= s.at
    BY <2>1, <1>9, NewestExists
  <2>3. s \in Inputs /\ s.by \in {"collector", "curator"}
    BY <2>2, <1>2 DEF Selected, Observation
  <2>4. CASE s.by = "curator"
    BY <2>2, <2>4 DEF Settled
  <2>5. CASE s.by = "collector"
    <3>1. s \in Staged
      BY <2>3, <2>5 DEF Inputs, FeedIInv, Stamped
    <3>2. o \in Selected(Staged)
      BY <3>1, <2>2 DEF known
    <3>3. s.at <= o.at
      BY <3>1, <3>2, <2>2 DEF Selected
    <3>4. s.at = o.at
      BY <3>3, <2>1, <2>2, <2>3, <1>9
    <3>5. SaysSame(s, o)
      BY <3>4, <2>1, <2>2, <2>3 DEF FeedIInv, Readable
    <3>6. s.text = says[o.scope]
      BY <3>5, <2>5, <1>11 DEF SaysSame, UpToDate
    <3> QED BY <3>6, <2>2 DEF Settled
  <2> QED BY <2>3, <2>4, <2>5
<1>12. ASSUME quiet PROVE QuietReads(c)' /\ QuietSweep(c)'
  <2>1. QuietReads(c) /\ QuietSweep(c)
    BY <1>1, <1>3, <1>12 DEF CycleOK, Quiet, Active
  <2>2. QuietReads(c)'
    BY <2>1, <1>1, <1>5, <1>6, <1>7, <1>11, FrameKeeps DEF QuietReads
  <2>3. Swept(c)' = Swept(c)
    BY <1>5, <1>6 DEF Swept
  <2>4. cycle'[c].onward = TRUE => \A q \in 2 .. cycle'[c].start - 1 : \A b \in Page(q) : Settled(b)
    BY <2>1, <1>5, <1>6 DEF QuietSweep
  <2>5. /\ cycle'[c].step = "details"
        /\ cycle'[c].failed = FALSE => \A q \in Swept(c)' : Page(q) \subseteq cycle'[c].rows
    BY <2>1, <2>3, <1>1, <1>5, <1>6 DEF QuietSweep
  <2>6. QuietSweep(c)'
    BY <2>4, <2>5, <1>1, FrameKeeps DEF QuietSweep
  <2> QED BY <2>2, <2>6
<1>13. CycleOK(c)'
  BY <1>1, <1>6, <1>8, <1>10, <1>12, FrameKeeps DEF CycleOK, Quiet
<1> QED BY <1>1, <1>5, <1>13, ReadingKeeps DEF FeedIInv, BillFeedTypeOK, Active

(* A bill whose page is read, or could not be. *)
LEMMA DetailKeeps ==
    ASSUME FeedIInv, NEW c \in Cycle, NEW b \in cycle[c].rows, ReadDetail(c, b) \/ DetailFails(c, b)
    PROVE  FeedIInv'
<1> DEFINE old == cycle[c]
           Unchanged == \E o \in Known(c, b) : o.by = "curator" \/ o.text = says[b]
<1>1. /\ old \in CycleState /\ old.step = "details" /\ b \in Scope /\ says[b] \in Text
      /\ Inputs \subseteq Observation /\ Staged \subseteq Inputs
  BY FeedTyped DEF FeedIInv, ReadDetail, DetailFails, InStep, CycleState, BillFeedTypeOK
<1>2. Detail(c, b) \in Observation /\ Detail(c, b).scope = b /\ Detail(c, b).text = says[b]
      /\ Detail(c, b).at = old.at /\ Detail(c, b).by = "collector"
  BY <1>1 DEF Detail, Observation, CycleState
<1>3. Frame /\ feedFaults' \in Nat
  <2>1. feedFaults \in Nat
    BY DEF FeedIInv, BillFeedTypeOK
  <2>2. CASE ReadDetail(c, b)
    BY <2>1, <2>2 DEF ReadDetail, Frame
  <2>3. CASE DetailFails(c, b)
    BY <2>1, <2>3 DEF DetailFails, ReadsOnly, Frame, FeedFault
  <2> QED BY <2>2, <2>3
<1> HIDE DEF Unchanged
<1>4. PICK new \in CycleState :
        /\ cycle' = [cycle EXCEPT ![c] = new]
        /\ new.step = "details" /\ new.start = old.start /\ new.last = old.last /\ new.at = old.at
        /\ new.known = old.known /\ new.onward = old.onward /\ new.rows = old.rows \ {b}
        /\ new.failed = FALSE => old.failed = FALSE
        /\ \/ new.failed = TRUE /\ new.changed = old.changed /\ raws' = raws
           \/ Unchanged /\ new.changed = old.changed /\ raws' = raws
           \/ /\ ~Unchanged /\ new.changed = old.changed \cup {Detail(c, b)}
              /\ raws' = raws \cup {<<b, says[b]>>}
  <2>1. CASE DetailFails(c, b)
    <3> DEFINE new == [old EXCEPT !.rows = @ \ {b}, !.failed = TRUE]
    <3>1. cycle' = [cycle EXCEPT ![c] = new] /\ raws' = raws
      BY <2>1 DEF DetailFails, Continues, ReadsOnly
    <3>2. /\ new \in CycleState
          /\ new.step = "details" /\ new.start = old.start /\ new.last = old.last /\ new.at = old.at
          /\ new.known = old.known /\ new.onward = old.onward /\ new.rows = old.rows \ {b}
          /\ new.changed = old.changed /\ new.failed = TRUE
      BY <1>1 DEF CycleState
    <3> HIDE DEF new
    <3> QED BY <3>1, <3>2
  <2>2. CASE ReadDetail(c, b) /\ Unchanged
    <3> DEFINE new == [old EXCEPT !.rows = @ \ {b}]
    <3>1. cycle' = [cycle EXCEPT ![c] = new] /\ raws' = raws
      BY <2>2 DEF ReadDetail, Continues, Unchanged
    <3>2. /\ new \in CycleState
          /\ new.step = "details" /\ new.start = old.start /\ new.last = old.last /\ new.at = old.at
          /\ new.known = old.known /\ new.onward = old.onward /\ new.rows = old.rows \ {b}
          /\ new.changed = old.changed /\ new.failed = old.failed
      BY <1>1 DEF CycleState
    <3> HIDE DEF new
    <3> QED BY <2>2, <3>1, <3>2
  <2>3. CASE ReadDetail(c, b) /\ ~Unchanged
    <3> DEFINE new == [old EXCEPT !.rows = @ \ {b}, !.changed = @ \cup {Detail(c, b)}]
    <3>1. cycle' = [cycle EXCEPT ![c] = new] /\ raws' = raws \cup {<<b, says[b]>>}
      BY <2>3 DEF ReadDetail, Continues, Unchanged
    <3>2. /\ new \in CycleState
          /\ new.step = "details" /\ new.start = old.start /\ new.last = old.last /\ new.at = old.at
          /\ new.known = old.known /\ new.onward = old.onward /\ new.rows = old.rows \ {b}
          /\ new.changed = old.changed \cup {Detail(c, b)} /\ new.failed = old.failed
      BY <1>1, <1>2 DEF CycleState
    <3> HIDE DEF new
    <3> QED BY <2>3, <3>1, <3>2
  <2> QED BY <2>1, <2>2, <2>3
<1>5. raws \subseteq raws' /\ raws' \subseteq Scope \X Text
  BY <1>1, <1>4 DEF FeedIInv, BillFeedTypeOK
<1>6. cycle'[c] = new /\ OwnTime(c)'
  BY <1>1, <1>3, <1>4, ReadingStep DEF Active
<1>7. CycleOK(c)
  BY DEF FeedIInv
<1>8. new.changed = old.changed \/ (~Unchanged /\ new.changed = old.changed \cup {Detail(c, b)}
                                    /\ <<b, says[b]>> \in raws')
  BY <1>4
<1>9. ChangedOnce(c)'
  <2>1. new.known \subseteq Inputs
    BY <1>4, <1>7 DEF CycleOK, ChangedOnce
  <2>2. ASSUME NEW o \in new.changed
        PROVE  /\ o.at = new.at /\ o.by = "collector" /\ o.scope \notin new.rows
               /\ <<o.scope, o.text>> \in raws'
               /\ \A p \in new.changed : p.scope = o.scope => p = o
    <3>1. \A p \in old.changed : /\ p.at = old.at /\ p.by = "collector" /\ p.scope \notin old.rows
                                 /\ <<p.scope, p.text>> \in raws /\ p.scope # b
      BY <1>7 DEF CycleOK, ChangedOnce
    <3>2. \A p, q \in old.changed : p.scope = q.scope => p = q
      BY <1>7 DEF CycleOK, ChangedOnce
    <3>3. \A p \in new.changed : p \in old.changed \/ p = Detail(c, b)
      BY <1>8
    <3>4. o \in old.changed \/ (o = Detail(c, b) /\ <<b, says[b]>> \in raws')
      BY <1>8
    <3>5. new.at = old.at /\ new.rows = old.rows \ {b}
      BY <1>4
    <3>6. CASE o \in old.changed
      <4>1. ASSUME NEW p \in new.changed, p.scope = o.scope PROVE p = o
        BY <3>1, <3>2, <3>3, <3>6, <4>1, <1>2
      <4> QED BY <3>1, <3>5, <3>6, <4>1, <1>5
    <3>7. CASE o = Detail(c, b)
      <4>1. ASSUME NEW p \in new.changed, p.scope = o.scope PROVE p = o
        BY <3>1, <3>3, <3>7, <4>1, <1>2
      <4>2. o \notin old.changed
        BY <3>1, <3>7, <1>2
      <4>3. <<b, says[b]>> \in raws'
        BY <3>4, <4>2
      <4> QED BY <3>5, <3>7, <4>1, <4>3, <1>2
    <3> QED BY <3>4, <3>6, <3>7
  <2>3. cycle'[c] = new /\ new.step = "details" /\ Inputs' = Inputs
    BY <1>3, <1>4, <1>6, FrameKeeps
  <2> QED BY <2>1, <2>2, <2>3 DEF ChangedOnce
<1>10. CuratedKnown(c)'
  <2>1. /\ \A k \in Staged : k.by = "curator" /\ k.at < old.at =>
             \E o \in old.known : o.scope = k.scope /\ o.by = "curator"
        /\ \A o \in old.changed, k \in Staged :
             k.by = "curator" /\ k.scope = o.scope => o.at < k.at
    BY <1>1, <1>7 DEF CycleOK, CuratedKnown
  <2>2. ASSUME ~Unchanged, NEW k \in Staged, k.by = "curator", k.scope = b PROVE old.at < k.at
    <3>1. ~(k.at < old.at)
      BY <2>1, <2>2 DEF Unchanged, Known
    <3>2. k.at # old.at
      BY <1>1, <1>7 DEF CycleOK, OwnTime, Active
    <3>3. k.at \in Nat /\ old.at \in Nat
      BY <1>1 DEF Observation, CycleState
    <3> QED BY <3>1, <3>2, <3>3
  <2>3. \A o \in new.changed, k \in Staged : k.by = "curator" /\ k.scope = o.scope => o.at < k.at
    BY <2>1, <2>2, <1>2, <1>8
  <2> QED BY <2>1, <2>3, <1>3, <1>4, <1>6, FrameKeeps DEF CuratedKnown
<1>11. ASSUME quiet PROVE QuietReads(c)' /\ QuietSweep(c)'
  <2>1. QuietReads(c) /\ QuietSweep(c)
    BY <1>1, <1>7, <1>11 DEF CycleOK, Quiet, Active
  <2>2. \A o \in new.changed : UpToDate(o)
    BY <2>1, <1>2, <1>8 DEF QuietReads, UpToDate
  <2>3. QuietReads(c)'
    BY <2>1, <2>2, <1>1, <1>3, <1>4, <1>6, FrameKeeps DEF QuietReads
  <2>4. Swept(c)' = Swept(c)
    BY <1>4, <1>6 DEF Swept
  <2>5. cycle'[c].onward = TRUE => \A q \in 2 .. cycle'[c].start - 1 : \A e \in Page(q) : Settled(e)
    BY <2>1, <1>4, <1>6 DEF QuietSweep
  <2>6. ASSUME new.failed = FALSE, NEW q \in Swept(c), NEW e \in Page(q)
        PROVE  e \in new.rows \/ Settled(e) \/ \E o \in new.changed : o.scope = e
    <3>1. e \in old.rows \/ Settled(e) \/ \E o \in old.changed : o.scope = e
      BY <2>1, <2>6, <1>1, <1>4 DEF QuietSweep
    <3>2. Unchanged => Settled(b)
      BY <2>1, <1>1 DEF QuietReads, Unchanged, Known, UpToDate
    <3>3. Settled(b) \/ \E o \in new.changed : o.scope = b
      BY <3>2, <2>6, <1>2, <1>4
    <3>4. old.changed \subseteq new.changed
      BY <1>8
    <3> QED BY <3>1, <3>3, <3>4, <1>4
  <2>7. /\ cycle'[c].step = "details"
        /\ cycle'[c].failed = FALSE => \A q \in Swept(c)' : \A e \in Page(q) :
              e \in cycle'[c].rows \/ Settled(e) \/ \E o \in cycle'[c].changed : o.scope = e
    BY <2>4, <2>6, <1>4, <1>6
  <2>8. QuietSweep(c)'
    BY <2>5, <2>7, <1>3, FrameKeeps DEF QuietSweep
  <2> QED BY <2>3, <2>8
<1>12. CycleOK(c)'
  BY <1>3, <1>6, <1>9, <1>10, <1>11, FrameKeeps DEF CycleOK, Quiet
<1> QED BY <1>1, <1>3, <1>4, <1>5, <1>12, ReadingKeeps DEF Active

(* What settles a bill stays: whatever is put into the inputs beside it    *)
(* settles it anew.                                                        *)
LEMMA SettledStays ==
    ASSUME NEW N, Inputs \cup N \subseteq Observation, Inputs' = Inputs \cup N, says' = says,
           \A n \in N : UpToDate(n), \A n, m \in N : n.scope = m.scope => n = m,
           NEW b, Settled(b)
    PROVE  Settled(b)'
<1>1. PICK o \in Selected(Inputs) : o.scope = b /\ (o.by = "curator" \/ o.text = says[b])
  BY DEF Settled
<1>2. \A p \in Inputs \cup N : p.at \in Nat
  BY DEF Observation
<1>3. o \in Inputs /\ \A p \in Inputs : p.scope = b => p.at <= o.at
  BY <1>1 DEF Selected
<1>4. CASE \A n \in N : n.scope = b => n.at <= o.at
  <2>1. o \in Selected(Inputs)'
    BY <1>1, <1>3, <1>4 DEF Selected
  <2> QED BY <2>1, <1>1 DEF Settled
<1>5. CASE \E n \in N : n.scope = b /\ ~(n.at <= o.at)
  <2>1. PICK n \in N : n.scope = b /\ ~(n.at <= o.at)
    BY <1>5
  <2>2. \A p \in Inputs : p.scope = b => p.at <= n.at
    BY <2>1, <1>2, <1>3
  <2>3. \A p \in N : p.scope = b => p.at <= n.at
    BY <2>1, <1>2
  <2>4. n \in Selected(Inputs)'
    BY <2>1, <2>2, <2>3 DEF Selected
  <2>5. n.by = "curator" \/ n.text = says'[b]
    BY <2>1 DEF UpToDate
  <2> QED BY <2>1, <2>4, <2>5 DEF Settled
<1> QED BY <1>4, <1>5

(* So a quiet cycle does not notice what others put into the inputs. *)
LEMMA GrowingStays ==
    ASSUME NEW N, Inputs \cup N \subseteq Observation, Inputs' = Inputs \cup N,
           UNCHANGED <<board, says>>,
           \A n \in N : UpToDate(n), \A n, m \in N : n.scope = m.scope => n = m,
           NEW d, cycle'[d] = cycle[d]
    PROVE  /\ QuietReads(d) => QuietReads(d)'
           /\ QuietSweep(d) => QuietSweep(d)'
<1>1. \A b : Settled(b) => Settled(b)'
  BY SettledStays
<1>2. LastPage' = LastPage /\ \A p : Page(p)' = Page(p)
  BY DEF LastPage, Page
<1>3. \A o : UpToDate(o)' <=> UpToDate(o)
  BY DEF UpToDate
<1>4. QuietReads(d) => QuietReads(d)'
  BY <1>1, <1>2, <1>3 DEF QuietReads
<1>5. Swept(d)' = Swept(d)
  BY DEF Swept
<1>6. QuietSweep(d) => QuietSweep(d)'
  BY <1>1, <1>2, <1>5 DEF QuietSweep
<1> QED BY <1>4, <1>6

(* A cycle begins: nothing in the inputs is of its time.                   *)
LEMMA BeginKeeps ==
    ASSUME FeedIInv, NEW c \in Cycle, NEW page \in {cursor} \cup 2 .. LastPage, BeginCycle(c, page)
    PROVE  FeedIInv'
<1> DEFINE onward == (page = cursor)
           new == [Idle EXCEPT !.step = "first", !.at = stamp + 1, !.start = page,
                               !.onward = onward, !.known = graph]
<1>1. /\ stamp' = stamp + 1 /\ cycle' = [cycle EXCEPT ![c] = new] /\ cycle[c].step = "off"
      /\ UNCHANGED <<files, reviewed, graph, board, says, moves, cursor, raws, quiet, feedFaults>>
  BY DEF BeginCycle, Continues, InStep, boardVars
<1>2. /\ stamp \in Nat /\ cycle \in [Cycle -> CycleState] /\ Inputs \subseteq Observation
      /\ page \in Nat \ {0, 1} /\ graph \subseteq Observation
  BY FeedTyped DEF FeedIInv, BillFeedTypeOK, InputsTypeOK
<1>31. onward \in BOOLEAN
  OBVIOUS
<1>32. onward = TRUE => page = cursor
  OBVIOUS
<1> HIDE DEF onward
<1>3. /\ new \in CycleState /\ new.step = "first" /\ new.at = stamp + 1 /\ new.start = page
      /\ new.onward = onward /\ new.known = graph /\ new.changed = {}
  <2>1. Idle \in CycleState /\ Idle.changed = {} /\ stamp + 1 \in Nat
    BY <1>2, IdleFacts
  <2> QED BY <2>1, <1>2, <1>31 DEF CycleState
<1> HIDE DEF new
<1>4. cycle' \in [Cycle -> CycleState] /\ cycle'[c] = new
      /\ \A d \in Cycle \ {c} : cycle'[d] = cycle[d]
  BY <1>1, <1>2, <1>3
<1>5. /\ Inputs' = Inputs /\ Staged' = Staged /\ LastPage' = LastPage
      /\ \A b : Settled(b)' <=> Settled(b)
      /\ \A p : Page(p)' = Page(p)
      /\ \A o : UpToDate(o)' <=> UpToDate(o)
  BY <1>1 DEF Inputs, Staged, LastPage, Settled, Page, UpToDate
<1>6. \A o \in Inputs : o.at \in Nat /\ o.at <= stamp
  BY <1>2 DEF FeedIInv, Stamped, Observation
<1>7. \A d \in Cycle : CycleOK(d) /\ cycle[d].at \in Nat
  BY <1>2 DEF FeedIInv, CycleState
<1>8. \A d \in Cycle : Active(d) => cycle[d].at <= stamp
  BY <1>7 DEF CycleOK, OwnTime
<1>9. BillFeedTypeOK'
  BY <1>1, <1>2, <1>4 DEF FeedIInv, BillFeedTypeOK, InputsTypeOK, CycleState
<1>10. Stamped'
  <2>1. \A o \in Inputs' : o.at <= stamp'
    BY <1>1, <1>2, <1>5, <1>6
  <2>2. ASSUME NEW d \in Cycle, NEW e \in Cycle, Active(d)', Active(e)', cycle'[d].at = cycle'[e].at
        PROVE  d = e
    BY <2>2, <1>1, <1>2, <1>3, <1>4, <1>7, <1>8 DEF Active, FeedIInv, Stamped
  <2> QED BY <2>1, <2>2, <1>1, <1>5 DEF FeedIInv, Stamped
<1>11. CycleOK(c)'
  <2>1. OwnTime(c)'
    BY <1>1, <1>2, <1>3, <1>4, <1>5, <1>6 DEF OwnTime
  <2>2. ChangedOnce(c)' /\ CuratedKnown(c)'
    BY <1>3, <1>4, <1>5 DEF ChangedOnce, CuratedKnown, FeedIInv, Stamped
  <2>3. QuietReads(c)'
    BY <1>2, <1>3, <1>4, <1>5, <1>6 DEF QuietReads
  <2>4. ASSUME quiet PROVE QuietSweep(c)'
    <3>1. onward = TRUE => \A p \in 2 .. page - 1 : \A b \in Page(p) : Settled(b)
      BY <2>4, <1>32 DEF FeedIInv, SweepReaches
    <3>2. cycle'[c].onward = TRUE => \A p \in 2 .. cycle'[c].start - 1 : \A b \in Page(p) : Settled(b)
      BY <3>1, <1>3, <1>4
    <3> QED BY <3>2, <1>3, <1>4, <1>5 DEF QuietSweep
  <2> QED BY <2>1, <2>2, <2>3, <2>4, <1>1 DEF CycleOK, Quiet
<1>12. ASSUME NEW d \in Cycle, d # c PROVE CycleOK(d)'
  <2>1. OwnTime(d)'
    BY <1>1, <1>2, <1>4, <1>5, <1>7, <1>8, <1>12 DEF CycleOK, OwnTime, Active
  <2>2. ChangedOnce(d)' /\ CuratedKnown(d)'
    BY <1>1, <1>4, <1>5, <1>7, <1>12 DEF CycleOK, ChangedOnce, CuratedKnown
  <2>3. QuietReads(d) => QuietReads(d)'
    BY <1>4, <1>5, <1>12 DEF QuietReads
  <2>4. QuietSweep(d) => QuietSweep(d)'
    <3>1. Swept(d)' = Swept(d)
      BY <1>4, <1>12 DEF Swept
    <3> QED BY <3>1, <1>4, <1>5, <1>12 DEF QuietSweep
  <2>5. Quiet(d)'
    BY <2>3, <2>4, <1>1, <1>4, <1>7, <1>12 DEF CycleOK, Quiet, Active
  <2> QED BY <2>1, <2>2, <2>5 DEF CycleOK
<1>13. PagesKept' /\ CuratedStays' /\ Readable(Inputs)' /\ SweepReaches'
  BY <1>1, <1>5 DEF FeedIInv, PagesKept, CuratedStays, Readable, SweepReaches
<1> QED BY <1>9, <1>10, <1>11, <1>12, <1>13 DEF FeedIInv

(* The batch of a cycle: it says of each bill one thing, at the time of    *)
(* the cycle, and whatever a curator had put there before is not in it.    *)
LEMMA BatchKeeps ==
    ASSUME FeedIInv, NEW c \in Cycle, WriteBatch(c)
    PROVE  FeedIInv'
<1> DEFINE old == cycle[c]
           new == [old EXCEPT !.step = "cursor"]
           batch == old.changed
<1>1. /\ old.step = "details" /\ old.rows = {} /\ files' = files \cup Merged(batch)
      /\ cycle' = [cycle EXCEPT ![c] = new]
      /\ UNCHANGED <<stamp, reviewed, graph, board, says, moves, cursor, raws, quiet, feedFaults>>
  BY DEF WriteBatch, Continues, InStep, boardVars
<1>2. /\ old \in CycleState /\ cycle \in [Cycle -> CycleState] /\ stamp \in Nat
      /\ Inputs \subseteq Observation /\ files \subseteq SUBSET Observation
      /\ Staged \subseteq Inputs /\ reviewed \subseteq Inputs
  BY FeedTyped DEF FeedIInv
<1>3. /\ new \in CycleState /\ new.step = "cursor" /\ new.changed = batch /\ new.known = old.known
      /\ new.start = old.start /\ new.last = old.last /\ new.at = old.at
      /\ new.onward = old.onward /\ new.rows = old.rows /\ new.failed = old.failed
      /\ batch \subseteq Observation
  BY <1>2 DEF CycleState
<1> HIDE DEF new
<1>4. cycle' \in [Cycle -> CycleState] /\ cycle'[c] = new
      /\ \A d \in Cycle \ {c} : cycle'[d] = cycle[d]
  BY <1>1, <1>2, <1>3
<1>5. Staged' = Staged \cup batch /\ Inputs' = Inputs \cup batch
  BY <1>1 DEF Staged, Inputs, Merged
<1>6. \A d \in Cycle : CycleOK(d)
  BY DEF FeedIInv
<1>7. /\ \A o \in batch : /\ o.at = old.at /\ o.by = "collector" /\ <<o.scope, o.text>> \in raws
      /\ \A o, p \in batch : o.scope = p.scope => o = p
  BY <1>6 DEF CycleOK, ChangedOnce
<1>8. old.at <= stamp /\ \A o \in Inputs : o.at # old.at
  BY <1>1, <1>6 DEF CycleOK, OwnTime, Active
<1>9. \A k \in Staged' : k.by = "curator" => k \in Staged
  BY <1>5, <1>7
<1>10. \A o \in batch, k \in Staged : k.by = "curator" /\ k.scope = o.scope => o.at < k.at
  BY <1>1, <1>6 DEF CycleOK, CuratedKnown
<1>11. quiet => QuietReads(c) /\ QuietSweep(c)
  BY <1>1, <1>6 DEF CycleOK, Quiet, Active
<1>12. quiet => \A o \in batch : UpToDate(o)
  BY <1>11 DEF QuietReads
<1> HIDE DEF batch
<1>13. BillFeedTypeOK'
  <2>1. files' \subseteq SUBSET Observation
    BY <1>1, <1>2, <1>3 DEF Merged
  <2> QED BY <2>1, <1>1, <1>4 DEF FeedIInv, BillFeedTypeOK, InputsTypeOK, CycleState
<1>14. Stamped'
  <2>1. \A o \in Inputs' : o.at <= stamp'
    BY <1>1, <1>5, <1>7, <1>8 DEF FeedIInv, Stamped
  <2>2. ASSUME NEW d \in Cycle, NEW e \in Cycle, Active(d)', Active(e)', cycle'[d].at = cycle'[e].at
        PROVE  d = e
    BY <2>2, <1>1, <1>3, <1>4 DEF Active, FeedIInv, Stamped
  <2> QED BY <2>1, <2>2, <1>1, <1>5 DEF FeedIInv, Stamped
<1>15. \A b : quiet /\ Settled(b) => Settled(b)'
  BY <1>1, <1>2, <1>3, <1>5, <1>7, <1>12, SettledStays
<1>16. LastPage' = LastPage /\ (\A p : Page(p)' = Page(p)) /\ (\A o : UpToDate(o)' <=> UpToDate(o))
  BY <1>1 DEF LastPage, Page, UpToDate
<1>17. CycleOK(c)'
  <2>1. OwnTime(c)'
    BY <1>1, <1>3, <1>4, <1>8 DEF OwnTime
  <2>2. ChangedOnce(c)' /\ CuratedKnown(c)'
    BY <1>1, <1>3, <1>4, <1>5, <1>6 DEF CycleOK, ChangedOnce, CuratedKnown, batch
  <2>3. ASSUME quiet PROVE QuietReads(c)' /\ QuietSweep(c)'
    <3>1. \A o \in Inputs' : o.at >= old.at => UpToDate(o)
      BY <2>3, <1>5, <1>11, <1>12 DEF QuietReads
    <3>2. QuietReads(c)'
      BY <3>1, <2>3, <1>1, <1>3, <1>4, <1>11, <1>12, <1>16 DEF QuietReads
    <3>3. Swept(c)' = Swept(c)
      BY <1>3, <1>4 DEF Swept
    <3>4. cycle'[c].onward = TRUE => \A p \in 2 .. cycle'[c].start - 1 : \A b \in Page(p) : Settled(b)'
      BY <2>3, <1>3, <1>4, <1>11, <1>15 DEF QuietSweep
    <3>5. ASSUME NEW o \in batch PROVE Settled(o.scope)'
      <4>1. o \in Inputs' /\ Inputs' \subseteq Observation
        BY <1>2, <1>3, <1>5
      <4>2. \A p \in Inputs' : p.at \in Nat /\ p.at <= stamp
        BY <4>1, <1>1, <1>14 DEF Stamped, Observation
      <4>3. PICK s \in Selected(Inputs') : s.scope = o.scope /\ o.at <= s.at
        BY <4>1, <4>2, <1>2, NewestExists
      <4>4. s \in Inputs' /\ s.at >= old.at
        BY <4>1, <4>2, <4>3, <1>7 DEF Selected
      <4>5. UpToDate(s)'
        BY <4>4, <3>1, <1>16
      <4> QED BY <4>3, <4>5 DEF Settled, UpToDate
    <3>6. ASSUME new.failed = FALSE, NEW p \in Swept(c), NEW b \in Page(p) PROVE Settled(b)'
      <4>1. Settled(b) \/ \E o \in batch : o.scope = b
        BY <3>6, <1>1, <1>3, <1>11, <2>3 DEF QuietSweep, batch
      <4> QED BY <4>1, <3>5, <2>3, <1>15
    <3>7. /\ cycle'[c].step = "cursor"
          /\ cycle'[c].failed = FALSE => \A p \in Swept(c)' : \A b \in Page(p) : Settled(b)'
      BY <3>3, <3>6, <1>3, <1>4
    <3>8. QuietSweep(c)'
      BY <3>4, <3>7, <1>16 DEF QuietSweep
    <3> QED BY <3>2, <3>8
  <2> QED BY <2>1, <2>2, <2>3, <1>1 DEF CycleOK, Quiet
<1>18. ASSUME NEW d \in Cycle, d # c PROVE CycleOK(d)'
  <2>1. cycle'[d] = cycle[d] /\ CycleOK(d)
    BY <1>4, <1>6, <1>18
  <2>2. OwnTime(d)'
    <3>1. Active(d) => cycle[d].at # old.at
      BY <1>1, <1>18 DEF FeedIInv, Stamped, Active
    <3> QED BY <3>1, <2>1, <1>1, <1>5, <1>7 DEF CycleOK, OwnTime, Active
  <2>3. ChangedOnce(d)'
    BY <2>1, <1>1, <1>5 DEF CycleOK, ChangedOnce
  <2>4. CuratedKnown(d)'
    BY <2>1, <1>9 DEF CycleOK, CuratedKnown
  <2>5. quiet => (QuietReads(d) => QuietReads(d)') /\ (QuietSweep(d) => QuietSweep(d)')
    BY <2>1, <1>1, <1>2, <1>3, <1>5, <1>7, <1>12, GrowingStays
  <2>6. Quiet(d)'
    BY <2>1, <2>5, <1>1 DEF CycleOK, Quiet, Active
  <2> QED BY <2>2, <2>3, <2>4, <2>6 DEF CycleOK
<1>19. PagesKept'
  BY <1>1, <1>5, <1>7 DEF FeedIInv, PagesKept
<1>20. CuratedStays'
  BY <1>5, <1>9, <1>10 DEF FeedIInv, CuratedStays
<1>21. Readable(Inputs)'
  BY <1>5, <1>7, <1>8 DEF FeedIInv, Readable, SaysSame
<1>22. SweepReaches'
  BY <1>1, <1>15, <1>16 DEF FeedIInv, SweepReaches
<1> QED BY <1>13, <1>14, <1>17, <1>18, <1>19, <1>20, <1>21, <1>22 DEF FeedIInv

(* What all but the board, the inputs and a cycle's own steps depend on. *)
LEMMA StillKeeps ==
    ASSUME FeedIInv, UNCHANGED <<stamp, files, reviewed, board, says, raws>>
    PROVE  /\ Inputs' = Inputs /\ Staged' = Staged /\ LastPage' = LastPage
           /\ \A b : Settled(b)' <=> Settled(b)
           /\ \A p : Page(p)' = Page(p)
           /\ \A o : UpToDate(o)' <=> UpToDate(o)
           /\ \A d \in Cycle : cycle'[d] = cycle[d] =>
                /\ OwnTime(d)' /\ ChangedOnce(d)' /\ CuratedKnown(d)'
                /\ QuietReads(d) => QuietReads(d)'
                /\ QuietSweep(d) => QuietSweep(d)'
           /\ PagesKept' /\ CuratedStays' /\ Readable(Inputs)'
<1>1. /\ Inputs' = Inputs /\ Staged' = Staged /\ LastPage' = LastPage
      /\ \A b : Settled(b)' <=> Settled(b)
      /\ \A p : Page(p)' = Page(p)
      /\ \A o : UpToDate(o)' <=> UpToDate(o)
  BY DEF Inputs, Staged, LastPage, Settled, Page, UpToDate
<1>2. ASSUME NEW d \in Cycle, cycle'[d] = cycle[d]
      PROVE  /\ OwnTime(d)' /\ ChangedOnce(d)' /\ CuratedKnown(d)'
             /\ QuietReads(d) => QuietReads(d)'
             /\ QuietSweep(d) => QuietSweep(d)'
  <2>1. CycleOK(d)
    BY DEF FeedIInv
  <2>2. OwnTime(d)'
    BY <2>1, <1>1, <1>2 DEF CycleOK, OwnTime, Active
  <2>3. ChangedOnce(d)' /\ CuratedKnown(d)'
    BY <2>1, <1>1, <1>2 DEF CycleOK, ChangedOnce, CuratedKnown
  <2>4. QuietReads(d) => QuietReads(d)'
    BY <1>1, <1>2 DEF QuietReads
  <2>5. Swept(d)' = Swept(d)
    BY <1>2 DEF Swept
  <2>6. QuietSweep(d) => QuietSweep(d)'
    BY <2>5, <1>1, <1>2 DEF QuietSweep
  <2> QED BY <2>2, <2>3, <2>4, <2>6
<1>3. PagesKept' /\ CuratedStays' /\ Readable(Inputs)'
  BY <1>1 DEF FeedIInv, PagesKept, CuratedStays, Readable
<1> QED BY <1>1, <1>2, <1>3

(* The cursor moves behind pages that are settled, or to the beginning.    *)
LEMMA CursorKeeps ==
    ASSUME FeedIInv, NEW c \in Cycle, WriteCursor(c)
    PROVE  FeedIInv'
<1> DEFINE old == cycle[c]
           others == \A d \in Cycle \ {c} : ~Active(d)
<1>1. /\ old.step = "cursor" /\ cycle' = [cycle EXCEPT ![c] = Idle]
      /\ UNCHANGED <<stamp, files, reviewed, graph, board, says, moves, raws, feedFaults>>
      /\ cursor' = IF old.onward /\ ~old.failed THEN NextSweep(c) ELSE cursor
      /\ quiet' = (quiet \/ (cursor' = 2 /\ others))
  BY DEF WriteCursor, Continues, InStep, inputVars, boardVars, Active
<1>2. /\ old \in CycleState /\ cycle \in [Cycle -> CycleState]
      /\ cursor \in Nat \ {0, 1} /\ quiet \in BOOLEAN
  BY FeedTyped DEF FeedIInv, BillFeedTypeOK
<1>3. old.start \in Nat \ {0, 1} /\ old.last \in Nat /\ SweepPages \in Nat
  BY <1>2, BillFeedAssumption DEF CycleState
<1>4. cursor' \in Nat \ {0, 1}
  BY <1>1, <1>2, <1>3 DEF NextSweep
<1>5. quiet' \in BOOLEAN
  BY <1>1
<1>6. quiet' => quiet \/ (cursor' = 2 /\ others)
  BY <1>1
<1>7. cycle' \in [Cycle -> CycleState] /\ cycle'[c] = Idle
      /\ \A d \in Cycle \ {c} : cycle'[d] = cycle[d]
  BY <1>1, <1>2, IdleFacts
<1>8. CycleOK(c) /\ \A d \in Cycle : CycleOK(d)
  BY DEF FeedIInv
<1>9. BillFeedTypeOK'
  BY <1>1, <1>4, <1>5, <1>7 DEF FeedIInv, BillFeedTypeOK, InputsTypeOK, CycleState
<1>10. Stamped'
  <2>1. \A d \in Cycle : Active(d)' => d # c /\ Active(d)
    BY <1>7, IdleFacts DEF Active
  <2>2. ASSUME NEW d \in Cycle, NEW e \in Cycle, Active(d)', Active(e)', cycle'[d].at = cycle'[e].at
        PROVE  d = e
    BY <2>1, <2>2, <1>7 DEF FeedIInv, Stamped
  <2> QED BY <2>2, <1>1, StillKeeps DEF FeedIInv, Stamped
<1>11. ASSUME NEW d \in Cycle PROVE CycleOK(d)'
  <2>1. CASE d = c
    BY <2>1, <1>7, IdleFacts
  <2>2. CASE d # c
    <3>1. cycle'[d] = cycle[d] /\ CycleOK(d)
      BY <2>2, <1>7, <1>8
    <3>2. quiet' /\ Active(d) => quiet
      BY <2>2, <1>6
    <3>3. Quiet(d)'
      BY <3>1, <3>2, <1>1, StillKeeps DEF CycleOK, Quiet, Active
    <3> QED BY <3>1, <3>3, <1>1, StillKeeps DEF CycleOK
  <2> QED BY <2>1, <2>2
<1>12. SweepReaches'
  <2>0. SUFFICES ASSUME quiet' PROVE \A p \in 2 .. cursor' - 1 : \A b \in Page(p)' : Settled(b)'
    BY DEF SweepReaches
  <2>21. \A p \in 2 .. cursor' - 1 : p \in Nat /\ 2 <= p /\ p < cursor'
    <3>1. \A n \in Nat : \A p \in 2 .. n - 1 : p \in Nat /\ 2 <= p /\ p < n
      OBVIOUS
    <3> QED BY <3>1, <1>4
  <2>1. SUFFICES ASSUME NEW p \in Nat, 2 <= p, p < cursor', NEW b \in Page(p)' PROVE Settled(b)'
    BY <2>21
  <2>2. quiet /\ 2 <= p /\ p < cursor' /\ p \in Nat
    <3>1. 2 <= p /\ p < cursor' /\ p \in Nat
      BY <2>1
    <3>2. cursor' # 2
      BY <3>1
    <3> QED BY <2>0, <3>1, <3>2, <1>6
  <2>3. b \in Page(p) /\ (Settled(b) => Settled(b)')
    BY <1>1, StillKeeps
  <2>4. QuietSweep(c)
    BY <2>2, <1>1, <1>8 DEF CycleOK, Quiet, Active
  <2>5. CASE ~(old.onward /\ ~old.failed)
    BY <2>2, <2>3, <2>5, <1>1, <1>2 DEF FeedIInv, SweepReaches
  <2>6. CASE old.onward /\ ~old.failed
    <3>1. cursor' = old.start + SweepPages /\ old.start + SweepPages <= old.last
      BY <2>2, <2>6, <1>1, <1>3 DEF NextSweep
    <3>2. old.onward = TRUE /\ old.failed = FALSE
      BY <2>6, <1>2 DEF CycleState
    <3>3. CASE p < old.start
      BY <2>2, <2>3, <2>4, <3>2, <3>3, <1>3 DEF QuietSweep
    <3>4. CASE ~(p < old.start)
      <4>1. p \in Swept(c)
        BY <3>1, <3>4, <2>2, <1>3 DEF Swept
      <4> QED BY <4>1, <3>2, <2>3, <2>4, <1>1 DEF QuietSweep
    <3> QED BY <3>3, <3>4
  <2> QED BY <2>5, <2>6
<1> QED BY <1>1, <1>9, <1>10, <1>11, <1>12, StillKeeps DEF FeedIInv

(* A curator's observation is newer than all others, and up to date. *)
LEMMA CurateKeeps ==
    ASSUME FeedIInv, NEW b \in Scope, NEW t \in Text, NEW apart \in BOOLEAN, Curate(b, t, apart)
    PROVE  FeedIInv'
<1> DEFINE o == [scope |-> b, text |-> t, at |-> stamp + 1, by |-> "curator"]
<1>1. /\ stamp' = stamp + 1
      /\ IF apart THEN reviewed' = reviewed \cup {o} /\ files' = files
                  ELSE files' = files \cup {{o}} /\ reviewed' = reviewed
      /\ UNCHANGED <<graph, board, says, moves, cursor, cycle, raws, quiet, feedFaults>>
  BY DEF Curate, boardVars
<1>2. /\ stamp \in Nat /\ Inputs \subseteq Observation /\ files \subseteq SUBSET Observation
      /\ reviewed \subseteq Observation /\ cycle \in [Cycle -> CycleState]
      /\ Staged \subseteq Inputs
  BY FeedTyped DEF FeedIInv, BillFeedTypeOK, InputsTypeOK
<1>3. o \in Observation /\ o.at = stamp + 1 /\ o.by = "curator" /\ o.text = t /\ o.scope = b
  BY <1>2 DEF Observation
<1> HIDE DEF o
<1>4. /\ Inputs' = Inputs \cup {o}
      /\ Staged' = Staged \cup {o} \/ Staged' = Staged
      /\ \A r \in reviewed' : r.by = "curator"
  BY <1>1, <1>3 DEF Inputs, Staged, FeedIInv, Stamped
<1>5. \A p \in Inputs : p.at \in Nat /\ p.at <= stamp
  BY <1>2 DEF FeedIInv, Stamped, Observation
<1>6. \A d \in Cycle : CycleOK(d) /\ cycle[d].at \in Nat
  BY <1>2 DEF FeedIInv, CycleState
<1>7. \A d \in Cycle : Active(d) => cycle[d].at <= stamp
  BY <1>6 DEF CycleOK, OwnTime
<1>8. BillFeedTypeOK'
  <2>1. files' \subseteq SUBSET Observation /\ reviewed' \subseteq Observation
    BY <1>1, <1>2, <1>3
  <2> QED BY <2>1, <1>1, <1>2 DEF FeedIInv, BillFeedTypeOK, InputsTypeOK
<1>9. Stamped'
  <2>1. \A p \in Inputs' : p.at <= stamp'
    BY <1>1, <1>2, <1>3, <1>4, <1>5
  <2>2. ASSUME NEW d \in Cycle, NEW e \in Cycle, Active(d)', Active(e)', cycle'[d].at = cycle'[e].at
        PROVE  d = e
    BY <2>2, <1>1 DEF Active, FeedIInv, Stamped
  <2> QED BY <2>1, <2>2, <1>1, <1>4 DEF FeedIInv, Stamped
<1>10. /\ \A n \in {o} : UpToDate(n)
       /\ \A n, m \in {o} : n.scope = m.scope => n = m
       /\ Inputs \cup {o} \subseteq Observation
  BY <1>2, <1>3 DEF UpToDate
<1>11. \A e : Settled(e) => Settled(e)'
  BY <1>1, <1>4, <1>10, SettledStays
<1>12. ASSUME NEW d \in Cycle PROVE CycleOK(d)'
  <2>1. cycle'[d] = cycle[d] /\ CycleOK(d)
    BY <1>1, <1>6
  <2>2. OwnTime(d)'
    BY <2>1, <1>1, <1>2, <1>3, <1>4, <1>6, <1>7 DEF CycleOK, OwnTime, Active
  <2>3. ChangedOnce(d)'
    BY <2>1, <1>1, <1>4 DEF CycleOK, ChangedOnce
  <2>4. CuratedKnown(d)'
    <3>1. ASSUME cycle[d].step = "details" PROVE cycle[d].at < o.at
      BY <3>1, <1>2, <1>3, <1>6, <1>7 DEF Active
    <3>2. \A p \in cycle[d].changed : p.at = cycle[d].at
      BY <2>1 DEF CycleOK, ChangedOnce
    <3>3. ASSUME cycle[d].step = "details", NEW k \in Staged', k.by = "curator", k.at < cycle[d].at
          PROVE  \E p \in cycle[d].known : p.scope = k.scope /\ p.by = "curator"
      <4>1. k \in Staged
        BY <3>1, <3>3, <1>2, <1>3, <1>4, <1>6
      <4> QED BY <4>1, <3>3, <2>1 DEF CycleOK, CuratedKnown
    <3>4. ASSUME cycle[d].step = "details", NEW p \in cycle[d].changed, NEW k \in Staged',
                 k.by = "curator", k.scope = p.scope
          PROVE  p.at < k.at
      BY <3>1, <3>2, <3>4, <2>1, <1>4 DEF CycleOK, CuratedKnown
    <3> QED BY <3>3, <3>4, <2>1 DEF CuratedKnown
  <2>5. (QuietReads(d) => QuietReads(d)') /\ (QuietSweep(d) => QuietSweep(d)')
    BY <2>1, <1>1, <1>4, <1>10, GrowingStays
  <2>6. Quiet(d)'
    BY <2>1, <2>5, <1>1 DEF CycleOK, Quiet, Active
  <2> QED BY <2>2, <2>3, <2>4, <2>6 DEF CycleOK
<1>13. PagesKept'
  BY <1>1, <1>3, <1>4 DEF FeedIInv, PagesKept
<1>14. CuratedStays'
  <2>1. \A p \in Staged : p.at < o.at
    BY <1>2, <1>3, <1>5
  <2>2. \A p \in Staged' : p \in Staged \/ p = o
    BY <1>4
  <2> QED BY <2>1, <2>2, <1>3 DEF FeedIInv, CuratedStays
<1>15. Readable(Inputs)'
  <2>1. \A p \in Inputs : p.at # o.at
    BY <1>2, <1>3, <1>5
  <2> QED BY <2>1, <1>4 DEF FeedIInv, Readable, SaysSame
<1>16. SweepReaches'
  <2>1. \A p : Page(p)' = Page(p)
    BY <1>1 DEF Page
  <2> QED BY <2>1, <1>1, <1>11 DEF FeedIInv, SweepReaches
<1> QED BY <1>8, <1>9, <1>12, <1>13, <1>14, <1>15, <1>16 DEF FeedIInv

(* The worker's scan stores nothing but what is in the inputs. *)
LEMMA ScanKeeps ==
    ASSUME FeedIInv, ScanInputs, UNCHANGED <<boardVars, cursor, cycle, raws, quiet, feedFaults>>
    PROVE  FeedIInv'
<1>1. UNCHANGED <<stamp, files, reviewed, board, says, moves, cursor, cycle, raws, quiet, feedFaults>>
  BY DEF ScanInputs, boardVars
<1>2. graph' \subseteq Inputs
  BY DEF ScanInputs, Changes, Reobserved, Selected, FeedIInv, Stamped
<1>3. graph' \subseteq Observation
  BY <1>2, FeedTyped DEF FeedIInv
<1>4. BillFeedTypeOK'
  BY <1>1, <1>3 DEF FeedIInv, BillFeedTypeOK, InputsTypeOK
<1>5. Stamped'
  BY <1>1, <1>2, StillKeeps DEF FeedIInv, Stamped, Active
<1>6. \A d \in Cycle : CycleOK(d)'
  BY <1>1, StillKeeps DEF FeedIInv, CycleOK, Quiet, Active
<1>7. SweepReaches'
  BY <1>1, StillKeeps DEF FeedIInv, SweepReaches
<1> QED BY <1>1, <1>4, <1>5, <1>6, <1>7, StillKeeps DEF FeedIInv

(* When the board changes nothing is claimed of it until a sweep begins.   *)
LEMMA BoardKeeps ==
    ASSUME FeedIInv,
           \/ \E list \in Boards : BoardChanges(list)
           \/ \E b \in Scope, t \in Text : BillChanges(b, t)
    PROVE  FeedIInv'
<1>1. /\ UNCHANGED <<stamp, files, reviewed, graph, cursor, cycle, raws, feedFaults>>
      /\ quiet' = FALSE /\ moves' = moves + 1
      /\ board' \in Boards /\ says' \in [Scope -> Text]
  BY DEF BoardChanges, BillChanges, BoardMoves, StaysPut, inputVars, FeedIInv, BillFeedTypeOK
<1>2. Inputs' = Inputs /\ Staged' = Staged
  BY <1>1 DEF Inputs, Staged
<1>3. BillFeedTypeOK'
  <2>1. Boards' = Boards
    BY DEF Boards
  <2>2. moves \in Nat
    BY DEF FeedIInv, BillFeedTypeOK
  <2>3. moves' \in Nat
    BY <2>2, <1>1
  <2>4. moves' \in Nat /\ quiet' \in BOOLEAN
    BY <2>3, <1>1
  <2>5. board' \in Boards'
    BY <2>1, <1>1
  <2> QED BY <2>4, <2>5, <1>1 DEF FeedIInv, BillFeedTypeOK, InputsTypeOK
<1>4. Stamped'
  BY <1>1, <1>2 DEF FeedIInv, Stamped, Active
<1>5. ASSUME NEW d \in Cycle PROVE CycleOK(d)'
  BY <1>1, <1>2 DEF FeedIInv, CycleOK, OwnTime, ChangedOnce, CuratedKnown, Quiet, Active
<1>6. PagesKept' /\ CuratedStays' /\ Readable(Inputs)' /\ SweepReaches'
  BY <1>1, <1>2 DEF FeedIInv, PagesKept, CuratedStays, Readable, SweepReaches
<1> QED BY <1>3, <1>4, <1>5, <1>6 DEF FeedIInv

(* Before the first cycle. *)
LEMMA FeedStart ==
    ASSUME BillFeedInit
    PROVE  FeedIInv
<1>1. Inputs = {} /\ Staged = {} /\ reviewed = {} /\ graph = {}
  BY DEF BillFeedInit, InputsInit, Inputs, Staged
<1>2. \A c \in Cycle : cycle[c] = Idle
  BY DEF BillFeedInit
<1>3. BillFeedTypeOK
  BY IdleFacts DEF BillFeedInit, InputsInit, BillFeedTypeOK, InputsTypeOK, CycleState
<1>4. Stamped
  BY <1>1, <1>2, IdleFacts DEF Stamped, Active
<1>5. \A c \in Cycle : CycleOK(c)
  BY <1>2, IdleFacts DEF CycleOK, OwnTime, ChangedOnce, CuratedKnown, Quiet, Active
<1>6. PagesKept /\ CuratedStays /\ Readable(Inputs)
  BY <1>1 DEF PagesKept, CuratedStays, Readable
<1>7. SweepReaches
  BY DEF BillFeedInit, SweepReaches
<1> QED BY <1>3, <1>4, <1>5, <1>6, <1>7 DEF FeedIInv

(* Every step of the cycles, the curators, the board and the scan. *)
LEMMA FeedStays ==
    ASSUME FeedIInv, [BillFeedNext]_feedVars
    PROVE  FeedIInv'
<1>1. CASE UNCHANGED feedVars
  <2>1. UNCHANGED <<stamp, files, reviewed, graph, board, says, moves, cursor, cycle, raws,
                    quiet, feedFaults>>
    BY <1>1 DEF feedVars, inputVars, boardVars
  <2>2. BillFeedTypeOK'
    BY <2>1 DEF FeedIInv, BillFeedTypeOK, InputsTypeOK, Boards
  <2>3. Stamped' /\ SweepReaches' /\ \A d \in Cycle : CycleOK(d)'
    BY <2>1, StillKeeps DEF FeedIInv, Stamped, SweepReaches, CycleOK, Quiet, Active
  <2> QED BY <2>1, <2>2, <2>3, StillKeeps DEF FeedIInv
<1>2. CASE \/ \E list \in Boards : BoardChanges(list)
           \/ \E b \in Scope, t \in Text : BillChanges(b, t)
  BY <1>2, BoardKeeps
<1>3. CASE \E b \in Scope, t \in Text, apart \in BOOLEAN : Curate(b, t, apart)
  BY <1>3, CurateKeeps
<1>4. CASE ScanInputs /\ UNCHANGED <<boardVars, cursor, cycle, raws, quiet, feedFaults>>
  BY <1>4, ScanKeeps
<1>5. ASSUME NEW c \in Cycle, NEW page \in {cursor} \cup 2 .. LastPage, BeginCycle(c, page)
      PROVE  FeedIInv'
  BY <1>5, BeginKeeps
<1>6. ASSUME NEW c \in Cycle,
             \/ ReadFirst(c) \/ FirstFails(c) \/ ReadKnown(c)
             \/ WriteBatch(c) \/ WriteCursor(c) \/ CycleDies(c)
      PROVE  FeedIInv'
  BY <1>6, FirstKeeps, EndsKeep, KnownKeeps, BatchKeeps, CursorKeeps
<1>7. ASSUME NEW c \in Cycle, NEW p \in cycle[c].pages,
             PageFails(c, p) \/ ReadBoardPage(c, p, {}) \/ \E b \in Page(p) : ReadBoardPage(c, p, {b})
      PROVE  FeedIInv'
  <2>1. PageFails(c, p) \/ \E skipped \in SUBSET Page(p) : ReadBoardPage(c, p, skipped)
    BY <1>7
  <2> QED BY <2>1, BoardPageKeeps
<1>8. ASSUME NEW c \in Cycle, NEW b \in cycle[c].rows, ReadDetail(c, b) \/ DetailFails(c, b)
      PROVE  FeedIInv'
  BY <1>8, DetailKeeps
<1> QED BY <1>1, <1>2, <1>3, <1>4, <1>5, <1>6, <1>7, <1>8 DEF BillFeedNext

(* FeedInv (BillFeed): while the board does not change the cursor passes no *)
(* bill whose change is not in the inputs, whatever fails and however many *)
(* cycles overlap; batches rest on pages that were kept, never overrule a  *)
(* curator's batch, and never make the inputs unreadable.                  *)
THEOREM FeedHolds == BillFeedSpec => []FeedInv
<1>1. BillFeedInit => FeedIInv
  BY FeedStart
<1>2. FeedIInv /\ [BillFeedNext]_feedVars => FeedIInv'
  BY FeedStays
<1>3. FeedIInv => FeedInv
  BY DEF FeedIInv, FeedInv
<1> QED BY <1>1, <1>2, <1>3, PTL DEF BillFeedSpec
=============================================================================
