--------------------------- MODULE DocumentProofs ---------------------------
(***************************************************************************)
(* The events of government articles can be traced and are the same at     *)
(* every import, for any articles, editions, number of runs and deaths.    *)
(*                                                                         *)
(* RawInv is about events that are imported.  RawIInv says the same of the *)
(* events that runs have in hand, and where it comes from: the index holds *)
(* an original once and only grows, metadata once written stays because    *)
(* only the run that created the file writes it, and a run stores before   *)
(* it builds.                                                              *)
(*                                                                         *)
(* And about SummaryDrafts: the ledger of paid drafts balances and bounds  *)
(* what is spent.  DraftIInv says who holds which request, and sums, for   *)
(* every month, the most that its requests may be billed within their      *)
(* estimates.  The two modules share no state.                             *)
(***************************************************************************)
EXTENDS RawDocuments, SummaryDrafts, FiniteSetTheorems, SequenceTheorems, TLAPS

(* An original is marked as a correction when its article was indexed      *)
(* before it.                                                              *)
Follows(o) ==
    \E i, j \in DOMAIN rawIndex : i < j /\ rawIndex[j] = o /\ rawIndex[i][1] = o[1]

Backed(e) ==
    /\ rawFile[e.original] = "whole"
    /\ metaFile[e.original] = e.collectedAt
    /\ IsIndexed(e.original)
    /\ e.corrected <=> Follows(e.original)

IndexedOnce == \A i, j \in DOMAIN rawIndex : rawIndex[i] = rawIndex[j] => i = j

DocumentSteps == {"raw", "rawOpen", "meta", "metaOpen", "index", "event"}

(* What a run has in hand is stored as far as its step says. *)
RunOK(c) ==
    /\ run[c].step \in DocumentSteps => run[c].todo # <<>>
    /\ run[c].step \in {"import", "upload"} => run[c].done # <<>>
    /\ run[c].step \in {"meta", "metaOpen", "index", "event"} => rawFile[Current(c)] = "whole"
    /\ run[c].step = "metaOpen" => metaFile[Current(c)] = Partial
    /\ run[c].step \in {"index", "event"} => metaFile[Current(c)] # Absent
    /\ run[c].step = "event" => IsIndexed(Current(c))
    /\ run[c].step # "off" => \A i \in DOMAIN run[c].events : Backed(run[c].events[i])

OneWriter == \A c, d \in Collector :
    run[c].step = "metaOpen" /\ run[d].step = "metaOpen" /\ Current(c) = Current(d) => c = d

RawIInv ==
    /\ RawTypeOK
    /\ IndexedOnce
    /\ \A c \in Collector : RunOK(c)
    /\ OneWriter
    /\ \A e \in imported : Backed(e)

-----------------------------------------------------------------------------
(* The number of a version exceeds one exactly when the article was there  *)
(* before (RawSourceVersion: count of rows up to the sequence of its own). *)
LEMMA VersionNumberCounts ==
    ASSUME RawTypeOK, IndexedOnce, NEW o \in Original, IsIndexed(o)
    PROVE  VersionNumber(o) > 1 <=> Follows(o)
<1> DEFINE Upto == {i \in VersionsOf(o[1]) : \E j \in DOMAIN rawIndex : rawIndex[j] = o /\ i <= j}
<1>1. rawIndex \in Seq(Original) /\ DOMAIN rawIndex = 1 .. Len(rawIndex) /\ Len(rawIndex) \in Nat
  BY DEF RawTypeOK
<1>2. PICK k \in DOMAIN rawIndex : rawIndex[k] = o
  BY DEF IsIndexed
<1>3. k \in Upto
  BY <1>1, <1>2 DEF VersionsOf
<1>4. IsFiniteSet(Upto)
  <2>1. IsFiniteSet(1 .. Len(rawIndex))
    BY <1>1, FS_Interval
  <2>2. Upto \subseteq 1 .. Len(rawIndex)
    BY <1>1 DEF VersionsOf
  <2> QED
    BY <2>1, <2>2, FS_Subset
<1>5. Cardinality(Upto) \in Nat /\ Cardinality(Upto) # 0
  BY <1>3, <1>4, FS_CardinalityType, FS_EmptySet
<1>6. Cardinality(Upto) = 1 <=> Upto = {k}
  BY <1>3, <1>4, FS_Singleton
<1>7. Upto = {k} <=> ~Follows(o)
  <2>1. ASSUME Upto # {k} PROVE Follows(o)
    <3>1. PICK i \in Upto : i # k
      BY <1>3, <2>1
    <3>2. PICK j \in DOMAIN rawIndex : rawIndex[j] = o /\ i <= j
      BY <3>1
    <3>3. j = k
      BY <1>2, <3>2 DEF IndexedOnce
    <3>4. i \in DOMAIN rawIndex /\ rawIndex[i][1] = o[1] /\ i < k
      BY <1>1, <3>1, <3>2, <3>3 DEF VersionsOf
    <3> QED
      BY <1>2, <3>4 DEF Follows
  <2>2. ASSUME Follows(o) PROVE Upto # {k}
    <3>1. PICK i, j \in DOMAIN rawIndex : i < j /\ rawIndex[j] = o /\ rawIndex[i][1] = o[1]
      BY <2>2 DEF Follows
    <3>2. i \in Upto
      BY <1>1, <3>1 DEF VersionsOf
    <3>3. j = k
      BY <1>2, <3>1 DEF IndexedOnce
    <3> QED
      BY <1>1, <3>1, <3>2, <3>3
  <2> QED
    BY <2>1, <2>2
<1> QED
  BY <1>5, <1>6, <1>7 DEF VersionNumber

(* Stores only grow: whole files stay, metadata that was written stays and *)
(* the index is at most appended to, by an original it does not hold.      *)
StoresGrow ==
    /\ \A o \in Original : rawFile[o] = "whole" => rawFile'[o] = "whole"
    /\ \A o \in Original : metaFile[o] \in Sight => metaFile'[o] = metaFile[o]
    /\ rawIndex' = rawIndex
       \/ \E o \in Original : ~IsIndexed(o) /\ rawIndex' = Append(rawIndex, o)

LEMMA IndexGrows ==
    ASSUME RawTypeOK, IndexedOnce, StoresGrow
    PROVE  /\ IndexedOnce' /\ rawIndex' \in Seq(Original)
           /\ \A o \in Original : IsIndexed(o) => IsIndexed(o)'
           /\ \A o \in Original : IsIndexed(o) => (Follows(o)' <=> Follows(o))
<1>1. rawIndex \in Seq(Original) /\ DOMAIN rawIndex = 1 .. Len(rawIndex) /\ Len(rawIndex) \in Nat
  BY DEF RawTypeOK
<1>2. CASE rawIndex' = rawIndex
  BY <1>1, <1>2 DEF IndexedOnce, IsIndexed, Follows
<1>3. CASE \E o \in Original : ~IsIndexed(o) /\ rawIndex' = Append(rawIndex, o)
  <2>1. PICK n \in Original : ~IsIndexed(n) /\ rawIndex' = Append(rawIndex, n)
    BY <1>3
  <2>2. /\ rawIndex' \in Seq(Original)
        /\ DOMAIN rawIndex' = DOMAIN rawIndex \cup {Len(rawIndex) + 1}
        /\ rawIndex'[Len(rawIndex) + 1] = n
        /\ \A i \in DOMAIN rawIndex : rawIndex'[i] = rawIndex[i]
    BY <1>1, <2>1
  <2>3. \A i \in DOMAIN rawIndex : rawIndex[i] # n /\ i < Len(rawIndex) + 1
    BY <1>1, <2>1 DEF IsIndexed
  <2>4. IndexedOnce'
    BY <2>2, <2>3 DEF IndexedOnce
  <2>5. \A o \in Original : IsIndexed(o) => IsIndexed(o)' /\ o # n
    BY <2>2, <2>3 DEF IsIndexed
  <2>6. ASSUME NEW o \in Original, IsIndexed(o) PROVE Follows(o)' <=> Follows(o)
    <3>1. Follows(o) => Follows(o)'
      BY <2>2 DEF Follows
    <3>2. ASSUME Follows(o)' PROVE Follows(o)
      <4>1. PICK i, j \in DOMAIN rawIndex' : i < j /\ rawIndex'[j] = o /\ rawIndex'[i][1] = o[1]
        BY <3>2 DEF Follows
      <4>2. j \in DOMAIN rawIndex
        BY <2>2, <2>5, <2>6, <4>1
      <4>3. i \in DOMAIN rawIndex
        BY <1>1, <2>2, <4>1, <4>2
      <4> QED
        BY <2>2, <4>1, <4>2, <4>3 DEF Follows
    <3> QED
      BY <3>1, <3>2
  <2> QED
    BY <2>2, <2>4, <2>5, <2>6
<1> QED
  BY <1>2, <1>3 DEF StoresGrow

(* What an event rests on stays. *)
LEMMA BackedStays ==
    ASSUME RawTypeOK, IndexedOnce, StoresGrow, NEW e \in RawEvent, Backed(e)
    PROVE  Backed(e)'
<1>1. e.original \in Original /\ e.collectedAt \in Sight
  BY DEF RawEvent
<1> QED
  BY <1>1, IndexGrows DEF Backed, StoresGrow

-----------------------------------------------------------------------------
(* A run at work, typed. *)
Working(c) ==
    /\ run[c].step \in DocumentSteps \cup {"import", "upload"}
    /\ run[c].at \in Sight /\ run[c].todo \in Seq(Original) /\ run[c].done \in Seq(Original)
    /\ run[c].events \in Seq(RawEvent)

LEMMA RunTyped ==
    ASSUME RawTypeOK, NEW c \in Collector
    PROVE  run[c].step # "off" => Working(c)
<1>1. run[c] \in RunState
  BY DEF RawTypeOK
<1>2. CASE run[c] = Unused
  <2>1. run[c].step = "off"
    BY <1>2 DEF Unused
  <2> QED
    BY <2>1
<1>3. CASE run[c] # Unused
  BY <1>1, <1>3 DEF RunState, Working, DocumentSteps
<1> QED
  BY <1>2, <1>3

LEMMA CurrentTyped ==
    ASSUME RawIInv, NEW c \in Collector, run[c].step \in DocumentSteps
    PROVE  Current(c) \in Original /\ Tail(run[c].todo) \in Seq(Original)
<1>1. run[c].todo \in Seq(Original) /\ run[c].todo # <<>>
  BY RunTyped DEF RawIInv, RunOK, DocumentSteps, Working
<1> QED
  BY <1>1 DEF Current

(* What Holding gives the run and leaves to the others. *)
LEMMA HoldingRun ==
    ASSUME RawTypeOK, NEW c \in Collector, NEW step, NEW todo, NEW done, NEW events,
           Holding(c, step, todo, done, events)
    PROVE  /\ run'[c].step = step /\ run'[c].todo = todo
           /\ run'[c].done = done /\ run'[c].events = events
           /\ \A d \in Collector : d # c => run'[d] = run[d]
BY DEF Holding, Becomes, RawTypeOK

LEMMA HoldingTyped ==
    ASSUME RawTypeOK, NEW c \in Collector, run[c].step # "off",
           NEW step \in DocumentSteps \cup {"import", "upload"}, NEW todo \in Seq(Original),
           NEW done \in Seq(Original), NEW events \in Seq(RawEvent),
           Holding(c, step, todo, done, events)
    PROVE  run' \in [Collector -> RunState]
<1>1. run[c].at \in Sight
  BY RunTyped DEF Working
<1> QED
  BY <1>1 DEF Holding, Becomes, RawTypeOK, RunState, DocumentSteps

LEMMA UnusedTyped ==
    ASSUME RawTypeOK, NEW c \in Collector, Becomes(c, Unused)
    PROVE  /\ run' \in [Collector -> RunState] /\ run'[c].step = "off"
           /\ \A d \in Collector : d # c => run'[d] = run[d]
BY DEF Becomes, RawTypeOK, RunState, Unused

(* Nothing a run does disturbs another, unless it writes metadata that the *)
(* other one has open; and OneWriter excludes that.                        *)
OthersKept(c) ==
    /\ StoresGrow
    /\ \A o \in Original : metaFile[o] # Absent => metaFile'[o] # Absent
    /\ \A o \in Original : metaFile[o] = Partial =>
           metaFile'[o] = Partial \/ (run[c].step = "metaOpen" /\ o = Current(c))
    /\ \A d \in Collector : d # c => run'[d] = run[d]

LEMMA EventsStay ==
    ASSUME RawIInv, StoresGrow, NEW events \in Seq(RawEvent),
           \A i \in DOMAIN events : Backed(events[i])
    PROVE  \A i \in DOMAIN events : Backed(events[i])'
<1> SUFFICES ASSUME NEW i \in DOMAIN events PROVE Backed(events[i])'
  OBVIOUS
<1>1. events[i] \in RawEvent /\ Backed(events[i])
  OBVIOUS
<1> QED
  BY <1>1, BackedStays DEF RawIInv

LEMMA OtherRuns ==
    ASSUME RawIInv, NEW c \in Collector, OthersKept(c), NEW d \in Collector, d # c
    PROVE  RunOK(d)'
<1>1. run'[d] = run[d] /\ StoresGrow
  BY DEF OthersKept
<1>2. CASE run[d].step = "off"
  BY <1>1, <1>2 DEF RunOK, DocumentSteps
<1>3. CASE run[d].step # "off"
  <2>1. Working(d) /\ RunOK(d)
    BY <1>3, RunTyped DEF RawIInv
  <2>2. run[d].step \in DocumentSteps => Current(d) \in Original /\ Current(d)' = Current(d)
    BY <1>1, CurrentTyped DEF Current
  <2>3. \A i \in DOMAIN run[d].events : Backed(run[d].events[i])'
    BY <1>1, <1>3, <2>1, EventsStay DEF Working, RunOK
  <2>4. (\A i \in DOMAIN run[d].events : Backed(run[d].events[i]))'
    BY <1>1, <2>3 DEF Backed
  <2>5. /\ run[d].step \in {"meta", "metaOpen", "index", "event"} => rawFile'[Current(d)] = "whole"
        /\ run[d].step = "metaOpen" => metaFile'[Current(d)] = Partial
        /\ run[d].step \in {"index", "event"} => metaFile'[Current(d)] # Absent
    BY <1>1, <2>1, <2>2 DEF RunOK, OthersKept, StoresGrow, RawIInv, OneWriter, DocumentSteps
  <2>6. run[d].step = "event" => IsIndexed(Current(d))'
    <3>1. run[d].step = "event" => IsIndexed(Current(d)) /\ Current(d) \in Original
      BY <2>1, <2>2 DEF RunOK, DocumentSteps
    <3>2. \A o \in Original : IsIndexed(o) => (\E i \in DOMAIN rawIndex' : rawIndex'[i] = o)
      BY <1>1, IndexGrows DEF RawIInv, IsIndexed
    <3> QED
      BY <2>2, <3>1, <3>2 DEF IsIndexed, DocumentSteps
  <2> QED
    BY <1>1, <2>1, <2>2, <2>4, <2>5, <2>6 DEF RunOK, DocumentSteps
<1> QED
  BY <1>2, <1>3

(* The invariant after a step of run c, which imports what is backed.      *)
LEMMA StepOfRun ==
    ASSUME RawIInv, NEW c \in Collector, OthersKept(c), RawTypeOK', RunOK(c)',
           \A d \in Collector : d # c /\ run'[c].step = "metaOpen" /\ run[d].step = "metaOpen"
                                => Current(c)' # Current(d),
           \A e \in imported' : e \in imported \/ (e \in RawEvent /\ Backed(e))
    PROVE  RawIInv'
<1>1. StoresGrow /\ \A d \in Collector : d # c => run'[d] = run[d]
  BY DEF OthersKept
<1>2. IndexedOnce'
  BY <1>1, IndexGrows DEF RawIInv
<1>3. \A d \in Collector : RunOK(d)'
  BY OtherRuns
<1>4. OneWriter'
  <2> SUFFICES ASSUME NEW d \in Collector, NEW e \in Collector, run'[d].step = "metaOpen",
                      run'[e].step = "metaOpen", Current(d)' = Current(e)', d # e
               PROVE  FALSE
    BY DEF OneWriter
  <2>1. \A f \in Collector : f # c => Current(f)' = Current(f)
    BY <1>1 DEF Current
  <2> QED
    BY <1>1, <2>1 DEF RawIInv, OneWriter
<1>5. \A e \in imported' : Backed(e)'
  <2> SUFFICES ASSUME NEW e \in imported' PROVE Backed(e)'
    OBVIOUS
  <2>1. e \in RawEvent /\ Backed(e)
    BY DEF RawIInv, RawTypeOK
  <2> QED
    BY <1>1, <2>1, BackedStays DEF RawIInv
<1>6. (\A e \in imported : Backed(e))'
  BY <1>5 DEF Backed
<1> QED
  BY <1>2, <1>3, <1>4, <1>6 DEF RawIInv

-----------------------------------------------------------------------------
(* Steps that leave the stores as they are. *)
LEMMA StoresKept ==
    ASSUME UNCHANGED storeVars, NEW c \in Collector,
           \A d \in Collector : d # c => run'[d] = run[d]
    PROVE  OthersKept(c) /\ (\A e : Backed(e)' <=> Backed(e)) /\ (\A o : IsIndexed(o)' <=> IsIndexed(o))
BY DEF storeVars, OthersKept, StoresGrow, Backed, IsIndexed, Follows

(* A run that ends, whatever it was at. *)
LEMMA RunEnds ==
    ASSUME RawIInv, NEW c \in Collector, Becomes(c, Unused), UNCHANGED <<page, now, storeVars>>,
           deaths' \in 0 .. MaxDeaths, bucket' \subseteq Original,
           \A e \in imported' : e \in imported \/ (e \in RawEvent /\ Backed(e))
    PROVE  RawIInv'
<1>1. /\ run' \in [Collector -> RunState] /\ run'[c].step = "off"
      /\ \A d \in Collector : d # c => run'[d] = run[d]
  BY UnusedTyped DEF RawIInv
<1>2. RawTypeOK'
  BY <1>1 DEF RawIInv, RawTypeOK, storeVars
<1>3. RunOK(c)'
  BY <1>1 DEF RunOK, DocumentSteps
<1>4. OthersKept(c)
  BY <1>1, StoresKept
<1> QED
  BY <1>1, <1>2, <1>3, <1>4, StepOfRun

(* A run that stores a document. *)
LEMMA DocumentStep ==
    ASSUME RawIInv, NEW c \in Collector, NEW next \in DocumentSteps,
           run[c].step \in DocumentSteps, Moves(c, next), UNCHANGED <<page, now, outVars, deaths>>,
           rawFile' \in [Original -> {"none", "partial", "whole"}],
           metaFile' \in [Original -> Sight \cup {Absent, Partial}],
           OthersKept(c),
           next \in {"meta", "metaOpen", "index", "event"} => rawFile'[Current(c)] = "whole",
           next = "metaOpen" => metaFile'[Current(c)] = Partial /\ metaFile[Current(c)] = Absent,
           next \in {"index", "event"} => metaFile'[Current(c)] # Absent,
           next = "event" => \E i \in DOMAIN rawIndex' : rawIndex'[i] = Current(c)
    PROVE  RawIInv'
<1>1. RawTypeOK /\ Working(c) /\ RunOK(c) /\ StoresGrow
  BY RunTyped DEF RawIInv, DocumentSteps, OthersKept
<1>2. Holding(c, next, run[c].todo, run[c].done, run[c].events)
  BY DEF Moves
<1>3. /\ run'[c].step = next /\ run'[c].todo = run[c].todo
      /\ run'[c].done = run[c].done /\ run'[c].events = run[c].events
  BY <1>1, <1>2, HoldingRun
<1>4. run' \in [Collector -> RunState]
  BY <1>1, <1>2, HoldingTyped DEF Working, DocumentSteps
<1>5. rawIndex' \in Seq(Original)
  BY <1>1, IndexGrows DEF RawIInv
<1>6. RawTypeOK'
  BY <1>1, <1>4, <1>5 DEF RawTypeOK, outVars
<1>7. Current(c)' = Current(c) /\ Current(c) \in Original
  BY <1>3, CurrentTyped DEF Current
<1>e. PICK ev : ev = run[c].events
  OBVIOUS
<1>8. \A i \in DOMAIN ev : Backed(ev[i])'
  <2>1. \A i \in DOMAIN ev : Backed(ev[i])
    BY <1>1, <1>e DEF RunOK, DocumentSteps
  <2>2. ev \in Seq(RawEvent)
    BY <1>1, <1>e DEF Working
  <2> QED
    BY <1>1, <2>1, <2>2, EventsStay
<1>9. (\A i \in DOMAIN run[c].events : Backed(run[c].events[i]))'
  BY <1>3, <1>e, <1>8 DEF Backed
<1>10. RunOK(c)'
  <2>1. run[c].todo # <<>>
    BY <1>1 DEF RunOK
  <2> QED
    BY <2>1, <1>3, <1>7, <1>9 DEF RunOK, IsIndexed, DocumentSteps
<1>11. \A d \in Collector : d # c /\ run'[c].step = "metaOpen" /\ run[d].step = "metaOpen"
                              => Current(c)' # Current(d)
  BY <1>3, <1>7 DEF RawIInv, RunOK, Absent, Partial
<1>12. imported' = imported
  BY DEF outVars
<1> QED
  BY <1>6, <1>10, <1>11, <1>12, StepOfRun

LEMMA CollectStep == ASSUME RawIInv, NEW c \in Collector, Collect(c) PROVE RawIInv'
<1>1. PICK docs \in Collected :
          Becomes(c, [step |-> "raw", at |-> now, todo |-> docs, done |-> <<>>, events |-> <<>>])
  BY DEF Collect
<1>2. docs \in Seq(Original) /\ docs # <<>>
  <2>1. PICK n \in 1 .. Cardinality(Article) : docs \in [1 .. n -> Original]
    BY DEF Collected
  <2> QED
    BY <2>1
<1>3. /\ run'[c] = [step |-> "raw", at |-> now, todo |-> docs, done |-> <<>>, events |-> <<>>]
      /\ \A d \in Collector : d # c => run'[d] = run[d]
  BY <1>1 DEF Becomes, RawIInv, RawTypeOK
<1>4. run'[c] \in RunState
  BY <1>2, <1>3 DEF RunState, RawIInv, RawTypeOK
<1>5. run' \in [Collector -> RunState]
  BY <1>1, <1>3, <1>4 DEF Becomes, RawIInv, RawTypeOK
<1>6. RawTypeOK'
  BY <1>5 DEF Collect, RawIInv, RawTypeOK, storeVars, outVars
<1>7. RunOK(c)'
  BY <1>2, <1>3 DEF RunOK, DocumentSteps
<1>8. OthersKept(c) /\ imported' = imported
  BY <1>3, StoresKept DEF Collect, outVars
<1> QED
  BY <1>3, <1>6, <1>7, <1>8, StepOfRun

LEMMA StoreSteps ==
    ASSUME RawIInv, NEW c \in Collector,
           OpenRaw(c) \/ FillRaw(c) \/ OpenMeta(c) \/ FillMeta(c) \/ Index(c)
    PROVE  RawIInv'
<1> DEFINE o == Current(c)
<1>1. RawTypeOK /\ RunOK(c)
  BY DEF RawIInv
<1>2. run[c].step \in DocumentSteps
  BY DEF OpenRaw, FillRaw, OpenMeta, FillMeta, Index, AtStep, DocumentSteps
<1>3. o \in Original
  BY <1>2, CurrentTyped
<1>4. \E next : Moves(c, next) /\ \A d \in Collector : d # c => run'[d] = run[d]
  BY <1>1, HoldingRun DEF OpenRaw, FillRaw, OpenMeta, FillMeta, Index, Moves
<1>5. \A d \in Collector : d # c => run'[d] = run[d]
  BY <1>4
<1>6. /\ rawFile \in [Original -> {"none", "partial", "whole"}]
      /\ metaFile \in [Original -> Sight \cup {Absent, Partial}]
      /\ rawIndex \in Seq(Original)
  BY <1>1 DEF RawTypeOK
<1> HIDE DEF o
<1>7. CASE OpenRaw(c)
  <2>1. CASE rawFile[o] = "none"
    <3>1. rawFile' = [rawFile EXCEPT ![o] = "partial"] /\ Moves(c, "rawOpen")
          /\ UNCHANGED <<metaFile, rawIndex, page, now, outVars, deaths>>
      BY <1>7, <2>1 DEF OpenRaw, o
    <3>2. OthersKept(c)
      BY <3>1, <2>1, <1>3, <1>5, <1>6 DEF OthersKept, StoresGrow
    <3> QED
      BY <3>1, <3>2, <1>2, <1>3, <1>6, DocumentStep DEF DocumentSteps
  <2>2. CASE rawFile[o] # "none"
    <3>1. UNCHANGED <<storeVars, page, now, outVars, deaths>> /\ Moves(c, "meta")
      BY <1>7, <2>2 DEF OpenRaw, o, storeVars
    <3>2. rawFile[o] = "whole"
      BY <1>3, <1>6, <1>7, <2>2 DEF OpenRaw, RawConflict, o
    <3>3. OthersKept(c)
      BY <3>1, <1>5, StoresKept
    <3> QED
      BY <3>1, <3>2, <3>3, <1>2, <1>6, DocumentStep DEF DocumentSteps, storeVars, o
  <2> QED
    BY <2>1, <2>2
<1>8. CASE FillRaw(c)
  <2>1. rawFile' = [rawFile EXCEPT ![o] = "whole"] /\ Moves(c, "meta")
        /\ UNCHANGED <<metaFile, rawIndex, page, now, outVars, deaths>>
    BY <1>8 DEF FillRaw, o
  <2>2. OthersKept(c)
    BY <2>1, <1>3, <1>5, <1>6 DEF OthersKept, StoresGrow
  <2>3. rawFile'[o] = "whole"
    BY <2>1, <1>3, <1>6
  <2> QED
    BY <2>1, <2>2, <2>3, <1>2, <1>3, <1>6, DocumentStep DEF DocumentSteps, o
<1>9. CASE OpenMeta(c)
  <2>1. rawFile[o] = "whole"
    BY <1>1, <1>9 DEF OpenMeta, AtStep, RunOK, o
  <2>2. CASE metaFile[o] = Absent
    <3>1. metaFile' = [metaFile EXCEPT ![o] = Partial] /\ Moves(c, "metaOpen")
          /\ UNCHANGED <<rawFile, rawIndex, page, now, outVars, deaths>>
      BY <1>9, <2>2 DEF OpenMeta, o
    <3>2. OthersKept(c)
      BY <3>1, <2>2, <1>3, <1>5, <1>6 DEF OthersKept, StoresGrow, Absent, Partial, Sight
    <3>3. metaFile'[o] = Partial
      BY <3>1, <1>3, <1>6
    <3> QED
      BY <3>1, <3>2, <3>3, <2>1, <2>2, <1>2, <1>3, <1>6, DocumentStep DEF DocumentSteps, o
  <2>3. CASE metaFile[o] # Absent
    <3>1. UNCHANGED <<storeVars, page, now, outVars, deaths>> /\ Moves(c, "index")
      BY <1>9, <2>3 DEF OpenMeta, o, storeVars
    <3>2. OthersKept(c)
      BY <3>1, <1>5, StoresKept
    <3> QED
      BY <3>1, <3>2, <2>1, <2>3, <1>2, <1>6, DocumentStep DEF DocumentSteps, storeVars, o
  <2> QED
    BY <2>2, <2>3
<1>10. CASE FillMeta(c)
  <2>1. metaFile' = [metaFile EXCEPT ![o] = run[c].at] /\ Moves(c, "index")
        /\ run[c].step = "metaOpen"
        /\ UNCHANGED <<rawFile, rawIndex, page, now, outVars, deaths>>
    BY <1>10 DEF FillMeta, AtStep, o
  <2>2. run[c].at \in Sight /\ metaFile[o] = Partial /\ rawFile[o] = "whole"
    BY <2>1, <1>1, RunTyped DEF Working, RunOK, o
  <2>3. metaFile' \in [Original -> Sight \cup {Absent, Partial}]
    BY <2>1, <2>2, <1>3, <1>6
  <2>4. run[c].at # Absent /\ run[c].at # Partial
    BY <2>2 DEF Sight, Absent, Partial
  <2>5. metaFile'[o] # Absent
    BY <2>1, <2>4, <1>3, <1>6
  <2>6. Partial \notin Sight
    BY DEF Sight, Partial
  <2>7. OthersKept(c)
    BY <2>1, <2>2, <2>4, <2>6, <1>3, <1>5, <1>6 DEF OthersKept, StoresGrow, o
  <2> QED
    BY <2>1, <2>2, <2>3, <2>5, <2>7, <1>2, <1>6, DocumentStep DEF DocumentSteps, o
<1>11. CASE Index(c)
  <2>1. rawIndex' = (IF IsIndexed(o) THEN rawIndex ELSE Append(rawIndex, o)) /\ Moves(c, "event")
        /\ run[c].step = "index"
        /\ UNCHANGED <<rawFile, metaFile, page, now, outVars, deaths>>
    BY <1>11 DEF Index, AtStep, o
  <2>2. rawFile[o] = "whole" /\ metaFile[o] # Absent
    BY <2>1, <1>1 DEF RunOK, o
  <2>3. OthersKept(c)
    BY <2>1, <1>3, <1>5 DEF OthersKept, StoresGrow
  <2>4. \E i \in DOMAIN rawIndex' : rawIndex'[i] = o
    <3>1. CASE IsIndexed(o)
      BY <2>1, <3>1 DEF IsIndexed
    <3>2. CASE ~IsIndexed(o)
      <4>1. rawIndex' = Append(rawIndex, o)
        BY <2>1, <3>2
      <4>2. Len(rawIndex) + 1 \in DOMAIN rawIndex' /\ rawIndex'[Len(rawIndex) + 1] = o
        BY <4>1, <1>3, <1>6
      <4> QED
        BY <4>2
    <3> QED
      BY <3>1, <3>2
  <2> QED
    BY <2>1, <2>2, <2>3, <2>4, <1>2, <1>6, DocumentStep DEF DocumentSteps, o
<1> QED
  BY <1>7, <1>8, <1>9, <1>10, <1>11

(* The event that is built is backed. *)
LEMMA BuildStep == ASSUME RawIInv, NEW c \in Collector, BuildEvent(c) PROVE RawIInv'
<1> DEFINE o == Current(c)
           todo == Tail(run[c].todo)
           step == IF todo = <<>> THEN "import" ELSE "raw"
           done == Append(run[c].done, o)
           events == IF o[2] \in Withheld THEN run[c].events
                     ELSE Append(run[c].events, EventOf(o))
<1>1. /\ RawTypeOK /\ RunOK(c) /\ run[c].step = "event" /\ metaFile[o] # Partial
      /\ Holding(c, step, todo, done, events)
      /\ UNCHANGED <<page, now, storeVars, outVars, deaths>>
  BY DEF RawIInv, BuildEvent, AtStep, MetaReadable
<1>2. Working(c) /\ o \in Original /\ todo \in Seq(Original)
  BY <1>1, RunTyped, CurrentTyped DEF DocumentSteps
<1>3. done \in Seq(Original) /\ done # <<>>
  <2>1. run[c].done \in Seq(Original)
    BY <1>2 DEF Working
  <2> HIDE DEF o
  <2>2. done \in Seq(Original) /\ Len(done) = Len(run[c].done) + 1 /\ Len(run[c].done) \in Nat
    BY <1>2, <2>1
  <2>3. Len(<<>>) = 0
    OBVIOUS
  <2> HIDE DEF done
  <2> QED
    BY <2>2, <2>3
<1>4. EventOf(o) \in RawEvent /\ Backed(EventOf(o))
  <2>1. metaFile[o] \in Sight
    BY <1>1, <1>2 DEF RunOK, RawTypeOK
  <2>2. rawFile[o] = "whole" /\ IsIndexed(o)
    BY <1>1 DEF RunOK
  <2>3. VersionNumber(o) > 1 <=> Follows(o)
    BY <1>1, <1>2, <2>2, VersionNumberCounts DEF RawIInv
  <2> HIDE DEF o
  <2>4. /\ EventOf(o).original = o /\ EventOf(o).collectedAt = metaFile[o]
        /\ EventOf(o).corrected <=> VersionNumber(o) > 1
    <3>1. EventOf(o).original = o /\ EventOf(o).collectedAt = metaFile[o]
      BY DEF EventOf
    <3>2. EventOf(o).corrected = (VersionNumber(o) > 1)
      BY DEF EventOf
    <3> QED
      BY <3>1, <3>2
  <2>5. EventOf(o) \in RawEvent
    BY <1>2, <2>1 DEF EventOf, RawEvent
  <2> QED
    BY <2>2, <2>3, <2>4, <2>5 DEF Backed
<1>5. \A i \in DOMAIN run[c].events : Backed(run[c].events[i])
  BY <1>1 DEF RunOK
<1>6. events \in Seq(RawEvent) /\ \A i \in DOMAIN events : Backed(events[i])
  <2> HIDE DEF o
  <2>1. CASE o[2] \in Withheld
    BY <1>2, <1>5, <2>1 DEF Working
  <2>2. CASE o[2] \notin Withheld
    <3>1. events = Append(run[c].events, EventOf(o))
      BY <2>2
    <3>2. run[c].events \in Seq(RawEvent)
      BY <1>2 DEF Working
    <3>3. \A i \in DOMAIN events :
              \/ i \in DOMAIN run[c].events /\ events[i] = run[c].events[i]
              \/ events[i] = EventOf(o)
      BY <3>1, <3>2, <1>4
    <3> QED
      BY <3>1, <3>2, <3>3, <1>4, <1>5
  <2> QED
    BY <2>1, <2>2
<1>7. step \in DocumentSteps \cup {"import", "upload"}
  BY DEF DocumentSteps
<1> HIDE DEF o, todo, step, done, events
<1>8. /\ run'[c].step = step /\ run'[c].todo = todo
      /\ run'[c].done = done /\ run'[c].events = events
      /\ \A d \in Collector : d # c => run'[d] = run[d]
  BY <1>1, HoldingRun
<1>9. run' \in [Collector -> RunState]
  BY <1>1, <1>2, <1>3, <1>6, <1>7, HoldingTyped
<1>10. RawTypeOK'
  BY <1>1, <1>9 DEF RawTypeOK, storeVars, outVars
<1>11. OthersKept(c) /\ \A e : Backed(e)' <=> Backed(e)
  BY <1>1, <1>8, StoresKept
<1>12. (\A i \in DOMAIN run[c].events : Backed(run[c].events[i]))'
  <2>1. PICK ev : ev = events
    OBVIOUS
  <2>2. \A i \in DOMAIN ev : Backed(ev[i])'
    BY <1>6, <1>11, <2>1
  <2>3. run'[c].events = ev
    BY <1>8, <2>1
  <2> QED
    BY <2>2, <2>3 DEF Backed
<1>13. RunOK(c)'
  <2>1. \/ step = "raw" /\ todo # <<>>
        \/ step = "import" /\ todo = <<>>
    BY DEF step
  <2> QED
    BY <2>1, <1>3, <1>8, <1>12 DEF RunOK, DocumentSteps
<1>14. run'[c].step # "metaOpen" /\ imported' = imported
  BY <1>1, <1>8 DEF step, outVars
<1> QED
  BY <1>10, <1>11, <1>13, <1>14, StepOfRun

(* What is left of the work of a run: events to import, documents to       *)
(* upload.                                                                 *)
LEMMA OutStep ==
    ASSUME RawIInv, NEW c \in Collector, run[c].step \in {"import", "upload"},
           NEW step \in {"import", "upload"}, NEW done \in Seq(Original), done # <<>>,
           NEW events \in Seq(RawEvent), \A i \in DOMAIN events : Backed(events[i]),
           Holding(c, step, run[c].todo, done, events),
           UNCHANGED <<page, now, storeVars, deaths>>, bucket' \subseteq Original,
           \A e \in imported' : e \in imported \/ (e \in RawEvent /\ Backed(e))
    PROVE  RawIInv'
<1>1. RawTypeOK /\ Working(c)
  BY RunTyped DEF RawIInv
<1>2. /\ run'[c].step = step /\ run'[c].done = done /\ run'[c].events = events
      /\ \A d \in Collector : d # c => run'[d] = run[d]
  BY <1>1, HoldingRun
<1>3. run' \in [Collector -> RunState]
  BY <1>1, HoldingTyped DEF Working
<1>4. RawTypeOK'
  BY <1>1, <1>3 DEF RawTypeOK, storeVars
<1>5. OthersKept(c) /\ \A e : Backed(e)' <=> Backed(e)
  BY <1>2, StoresKept
<1>6. (\A i \in DOMAIN run[c].events : Backed(run[c].events[i]))'
  <2>1. \A i \in DOMAIN events : Backed(events[i])'
    BY <1>5
  <2> QED
    BY <2>1, <1>2 DEF Backed
<1>7. RunOK(c)'
  BY <1>2, <1>6 DEF RunOK, DocumentSteps
<1> QED
  BY <1>2, <1>4, <1>5, <1>7, StepOfRun

LEMMA OutSteps ==
    ASSUME RawIInv, NEW c \in Collector, Import(c) \/ Imported(c) \/ Upload(c)
    PROVE  RawIInv'
<1>1. run[c].step \in {"import", "upload"}
  BY DEF Import, Imported, Upload, AtStep
<1>2. /\ RawTypeOK /\ RunOK(c) /\ Working(c)
      /\ run[c].done \in Seq(Original) /\ run[c].done # <<>> /\ run[c].events \in Seq(RawEvent)
      /\ \A i \in DOMAIN run[c].events : Backed(run[c].events[i])
  BY <1>1, RunTyped DEF RawIInv, RunOK, Working
<1>3. CASE Import(c)
  <2>1. run[c].events # <<>> /\ UNCHANGED <<page, now, storeVars, bucket, deaths>>
    BY <1>3 DEF Import
  <2>2. Head(run[c].events) \in RawEvent /\ Backed(Head(run[c].events))
        /\ Tail(run[c].events) \in Seq(RawEvent)
    BY <1>2, <2>1
  <2>3. \A i \in DOMAIN Tail(run[c].events) : Backed(Tail(run[c].events)[i])
    <3>1. \A i \in DOMAIN Tail(run[c].events) :
              i + 1 \in DOMAIN run[c].events /\ Tail(run[c].events)[i] = run[c].events[i + 1]
      BY <1>2, <2>1
    <3> QED
      BY <3>1, <1>2
  <2>4. imported' \subseteq imported \cup {Head(run[c].events)}
    BY <1>3 DEF Import
  <2>5. \A e \in imported' : e \in imported \/ (e \in RawEvent /\ Backed(e))
    BY <2>2, <2>4
  <2>6. bucket' \subseteq Original /\ deaths' \in 0 .. MaxDeaths
    BY <2>1, <1>2 DEF RawTypeOK
  <2>7. CASE Holding(c, "import", run[c].todo, run[c].done, Tail(run[c].events))
    BY <2>1, <2>2, <2>3, <2>5, <2>6, <2>7, <1>1, <1>2, OutStep
  <2>8. CASE Becomes(c, Unused)
    BY <2>1, <2>5, <2>6, <2>8, RunEnds
  <2> QED
    BY <1>3, <2>7, <2>8 DEF Import
<1>4. CASE Imported(c)
  <2>1. /\ Holding(c, "upload", run[c].todo, run[c].done, run[c].events)
        /\ UNCHANGED <<page, now, storeVars, outVars, deaths>>
    BY <1>4 DEF Imported, Moves
  <2>2. bucket' \subseteq Original /\ imported' = imported
    BY <2>1, <1>2 DEF RawTypeOK, outVars
  <2> QED
    BY <2>1, <2>2, <1>1, <1>2, OutStep
<1>5. CASE Upload(c)
  <2>1. /\ bucket' = bucket \cup {Head(run[c].done)} /\ imported' = imported
        /\ UNCHANGED <<page, now, storeVars, deaths>>
    BY <1>5 DEF Upload
  <2>2. bucket' \subseteq Original /\ deaths' \in 0 .. MaxDeaths
    BY <2>1, <1>2 DEF RawTypeOK
  <2>3. CASE Len(run[c].done) = 1
    <3>1. Becomes(c, Unused)
      BY <1>5, <2>3 DEF Upload
    <3> QED
      BY <2>1, <2>2, <3>1, RunEnds
  <2>4. CASE Len(run[c].done) # 1
    <3>1. Holding(c, "upload", run[c].todo, Tail(run[c].done), run[c].events)
      BY <1>5, <2>4 DEF Upload
    <3>2. Tail(run[c].done) \in Seq(Original) /\ Tail(run[c].done) # <<>>
      <4>1. Len(run[c].done) \in Nat /\ Len(run[c].done) # 0
        BY <1>2
      <4>2. Tail(run[c].done) \in Seq(Original) /\ Len(Tail(run[c].done)) = Len(run[c].done) - 1
        BY <1>2, <4>1
      <4>3. Len(Tail(run[c].done)) # 0
        BY <2>4, <4>1, <4>2
      <4>4. Len(<<>>) = 0
        OBVIOUS
      <4>5. Tail(run[c].done) # <<>>
        BY <4>3, <4>4, Zenon
      <4> QED
        BY <4>2, <4>5
    <3> QED
      BY <2>1, <2>2, <3>1, <3>2, <1>1, <1>2, OutStep
  <2> QED
    BY <2>3, <2>4
<1> QED
  BY <1>3, <1>4, <1>5

LEMMA EndSteps ==
    ASSUME RawIInv, NEW c \in Collector, RawRefused(c) \/ MetaUnreadable(c) \/ Dies(c)
    PROVE  RawIInv'
<1>1. /\ Becomes(c, Unused) /\ UNCHANGED <<page, now, storeVars, outVars>>
      /\ deaths' \in 0 .. MaxDeaths
  BY RawAssumption DEF RawRefused, MetaUnreadable, Dies, RawIInv, RawTypeOK
<1>2. bucket' \subseteq Original /\ imported' = imported
  BY <1>1 DEF outVars, RawIInv, RawTypeOK
<1> QED
  BY <1>1, <1>2, RunEnds

LEMMA WorldSteps ==
    ASSUME RawIInv, (\E a \in Article : PageChanges(a)) \/ TimePasses \/ UNCHANGED rawVars
    PROVE  RawIInv'
<1>1. UNCHANGED <<storeVars, run, outVars, deaths>>
  BY DEF PageChanges, TimePasses, rawVars
<1>2. page' \in [Article -> Edition] /\ now' \in Sight
  <2>1. page \in [Article -> Edition] /\ now \in Sight
    BY DEF RawIInv, RawTypeOK
  <2>2. ASSUME NEW a \in Article, PageChanges(a) PROVE page' \in [Article -> Edition] /\ now' = now
    BY <2>1, <2>2 DEF PageChanges
  <2>3. CASE TimePasses
    BY <2>1, <2>3, RawAssumption DEF TimePasses, Sight
  <2>4. CASE UNCHANGED rawVars
    BY <2>1, <2>4 DEF rawVars
  <2> QED
    BY <2>1, <2>2, <2>3, <2>4
<1>3. RawTypeOK'
  BY <1>1, <1>2 DEF RawIInv, RawTypeOK, storeVars, outVars
<1> QED
  BY <1>1, <1>3 DEF RawIInv, IndexedOnce, RunOK, OneWriter, Backed, IsIndexed, Follows, Current,
     storeVars, outVars

LEMMA DocumentsKeep == RawIInv /\ [RawNext]_rawVars => RawIInv'
<1> SUFFICES ASSUME RawIInv, [RawNext]_rawVars PROVE RawIInv'
  OBVIOUS
<1>1. ASSUME NEW c \in Collector, CollectorStep(c) PROVE RawIInv'
  BY <1>1, CollectStep, StoreSteps, BuildStep, OutSteps, EndSteps DEF CollectorStep
<1> QED
  BY <1>1, WorldSteps DEF RawNext

LEMMA DocumentsStart == RawInit => RawIInv
<1> SUFFICES ASSUME RawInit PROVE RawIInv
  OBVIOUS
<1>1. RawTypeOK
  BY RawAssumption DEF RawInit, RawTypeOK, RunState, Sight
<1>2. \A c \in Collector : run[c].step = "off"
  BY DEF RawInit, Unused
<1>3. rawIndex = <<>> /\ imported = {}
  BY DEF RawInit
<1> QED
  BY <1>1, <1>2, <1>3 DEF RawIInv, IndexedOnce, RunOK, OneWriter, DocumentSteps

LEMMA DocumentsTraced == RawIInv => RawInv
<1> SUFFICES ASSUME RawIInv PROVE RawInv
  OBVIOUS
<1>1. \A e \in imported : Backed(e) /\ e \in RawEvent
  BY DEF RawIInv, RawTypeOK
<1>2. CorrectionsMarked
  BY <1>1 DEF CorrectionsMarked, Backed, Follows
<1>3. OneEventPerOriginal
  <2> SUFFICES ASSUME NEW e \in imported, NEW f \in imported, e.original = f.original
               PROVE  e = f
    BY DEF OneEventPerOriginal
  <2>1. e.collectedAt = f.collectedAt /\ (e.corrected <=> f.corrected)
    BY <1>1 DEF Backed
  <2> QED
    BY <1>1, <2>1 DEF RawEvent
<1>4. EvidenceBeforeEvent
  BY <1>1 DEF EvidenceBeforeEvent, Backed, RawEvent
<1> QED
  BY <1>2, <1>3, <1>4 DEF RawInv, RawIInv

(* For any articles, editions, overlapping runs and deaths: an imported    *)
(* event is the only one of its original, so that a repeated import is a   *)
(* replay; its original, metadata and row are there; and it is marked as a *)
(* correction exactly when its article was indexed before.                 *)
THEOREM EventsTraced == RawSpec => []RawInv
  BY DocumentsStart, DocumentsKeep, DocumentsTraced, PTL DEF RawSpec

-----------------------------------------------------------------------------
(* Drafts: what a process has in hand, and what is measured. *)

HeldSteps == {"call", "settle", "draft", "pointer"}

(* A request is in the hands of one process, unmeasured until it is settled. *)
InHand ==
    /\ \A p \in Preparer : preparing[p].step \in HeldSteps =>
        /\ preparing[p].request \in DOMAIN requests
        /\ preparing[p].step \in {"call", "settle"} =>
             requests[preparing[p].request].actual = Unmeasured
        /\ preparing[p].step = "settle" =>
             preparing[p].cost = billed[preparing[p].request]
        /\ preparing[p].step = "pointer" =>
             <<preparing[p].doc, preparing[p].request>> \in drafts
    /\ \A p, r \in Preparer :
        /\ preparing[p].step \in HeldSteps /\ preparing[r].step \in HeldSteps
        /\ preparing[p].request = preparing[r].request
        => p = r

(* What is measured is what was billed, and settled only within the estimate. *)
Measured ==
    /\ Len(billed) = Len(requests)
    /\ \A q \in DOMAIN requests :
        /\ requests[q].status = "reserved" <=> requests[q].actual = Unmeasured
        /\ requests[q].actual # Unmeasured => requests[q].actual = billed[q]
        /\ requests[q].status = "settled" => requests[q].actual <= requests[q].reserved

(* What a month may still be billed within the estimates of its requests. *)
Committed == [q \in DOMAIN requests |->
    IF requests[q].actual = Unmeasured THEN requests[q].reserved ELSE WithinEstimate[q]]
CommittedWithinBudget == \A m \in Month : Total(Committed, Of(m)) <= Budget

DraftIInv ==
    /\ DraftTypeOK /\ InHand /\ Measured /\ PointerNamesDraft
    /\ LedgerBalances /\ CommittedWithinBudget /\ OverrunsBounded

(* The sum of naturals over a finite set is a natural: the won that it     *)
(* counts are finitely many.                                               *)
LEMMA TotalIsNat ==
    ASSUME NEW S, IsFiniteSet(S), NEW f, \A q \in S : f[q] \in Nat
    PROVE  IsFiniteSet(Won(f, S)) /\ Total(f, S) \in Nat
<1> DEFINE T == {{q} \X (1 .. f[q]) : q \in S}
           h == [q \in S |-> {q} \X (1 .. f[q])]
<1>1. h \in Surjection(S, T)
  BY DEF Surjection
<1>2. IsFiniteSet(T)
  BY <1>1, FS_Surjection
<1>3. \A U \in T : IsFiniteSet(U)
  <2>1. ASSUME NEW q \in S PROVE IsFiniteSet({q} \X (1 .. f[q]))
    <3>1. IsFiniteSet(1 .. f[q])
      BY FS_Interval
    <3> QED BY <3>1, FS_Singleton, FS_Product
  <2> QED BY <2>1
<1>4. IsFiniteSet(Won(f, S))
  BY <1>2, <1>3, FS_UNION DEF Won
<1> QED BY <1>4, FS_CardinalityType DEF Total

(* One more summand. *)
LEMMA TotalOfOneMore ==
    ASSUME NEW S, IsFiniteSet(S), NEW f, \A q \in S : f[q] \in Nat,
           NEW r, r \notin S, f[r] \in Nat
    PROVE  Total(f, S \cup {r}) = Total(f, S) + f[r]
<1> DEFINE more == {r} \X (1 .. f[r])
<1>1. /\ IsFiniteSet(1 .. f[r]) /\ Cardinality(1 .. f[r]) = f[r]
  BY FS_Interval
<1>2. IsFiniteSet(more) /\ Cardinality(more) = f[r]
  <2>1. IsFiniteSet({r}) /\ Cardinality({r}) = 1
    BY FS_Singleton
  <2>2. IsFiniteSet(more) /\ Cardinality(more) = Cardinality({r}) * Cardinality(1 .. f[r])
    BY <1>1, <2>1, FS_Product
  <2> HIDE DEF more
  <2>3. 1 * f[r] = f[r]
    OBVIOUS
  <2> QED BY <1>1, <2>1, <2>2, <2>3
<1>3. Won(f, S \cup {r}) = Won(f, S) \cup more
  BY DEF Won
<1>4. Won(f, S) \cap more = {}
  BY DEF Won
<1>5. IsFiniteSet(Won(f, S)) /\ Total(f, S) \in Nat
  BY TotalIsNat
<1> HIDE DEF more
<1>6. Cardinality(Won(f, S) \cup more)
        = Cardinality(Won(f, S)) + Cardinality(more) - Cardinality(Won(f, S) \cap more)
  BY <1>2, <1>5, FS_Union
<1>7. Total(f, S \cup {r}) = Total(f, S) + f[r] - 0
  BY <1>2, <1>3, <1>4, <1>6, FS_EmptySet DEF Total
<1> QED BY <1>5, <1>7

(* A summand apart. *)
LEMMA TotalApart ==
    ASSUME NEW S, IsFiniteSet(S), NEW f, \A q \in S : f[q] \in Nat, NEW r \in S
    PROVE  /\ Total(f, S) = Total(f, S \ {r}) + f[r]
           /\ Total(f, S \ {r}) \in Nat
<1> DEFINE others == S \ {r}
<1>1. IsFiniteSet(others)
  BY FS_RemoveElement
<1>2. S = others \cup {r} /\ r \notin others /\ \A q \in others : f[q] \in Nat
  OBVIOUS
<1>3. f[r] \in Nat
  OBVIOUS
<1> HIDE DEF others
<1>4. Total(f, others \cup {r}) = Total(f, others) + f[r]
  BY <1>1, <1>2, <1>3, TotalOfOneMore
<1>5. Total(f, others) \in Nat
  BY <1>1, <1>2, TotalIsNat
<1> QED BY <1>2, <1>4, <1>5 DEF others

(* Equal summands have equal sums, and smaller ones no larger ones. *)
LEMMA TotalSame ==
    ASSUME NEW S, NEW f, NEW g, \A q \in S : f[q] = g[q]
    PROVE  Total(f, S) = Total(g, S)
<1>1. Won(f, S) = Won(g, S)
  BY DEF Won
<1> QED BY <1>1 DEF Total

LEMMA TotalLeq ==
    ASSUME NEW S, IsFiniteSet(S), NEW f, NEW g,
           \A q \in S : f[q] \in Nat /\ g[q] \in Nat /\ f[q] <= g[q]
    PROVE  Total(f, S) <= Total(g, S)
<1>1. Won(f, S) \subseteq Won(g, S)
  <2>1. ASSUME NEW q \in S PROVE 1 .. f[q] \subseteq 1 .. g[q]
    OBVIOUS
  <2> QED BY <2>1 DEF Won
<1>2. IsFiniteSet(Won(g, S))
  BY TotalIsNat
<1> QED BY <1>1, <1>2, FS_Subset DEF Total

(* What a request and a process's state hold. *)
LEMMA RequestFacts ==
    ASSUME DraftTypeOK
    PROVE  /\ DOMAIN requests = 1 .. Len(requests) /\ Len(requests) \in Nat
           /\ \A q \in DOMAIN requests :
                /\ requests[q] \in Request
                /\ requests[q].month \in Month /\ requests[q].reserved \in Nat
                /\ requests[q].actual \in Nat \cup {Unmeasured}
                /\ requests[q].status \in {"reserved", "settled", "overrun"}
           /\ \A m : IsFiniteSet(Of(m))
<1>1. DOMAIN requests = 1 .. Len(requests) /\ Len(requests) \in Nat
  BY DEF DraftTypeOK
<1>2. ASSUME NEW q \in DOMAIN requests
      PROVE  /\ requests[q] \in Request
             /\ requests[q].month \in Month /\ requests[q].reserved \in Nat
             /\ requests[q].actual \in Nat \cup {Unmeasured}
             /\ requests[q].status \in {"reserved", "settled", "overrun"}
  <2>1. requests[q] \in Request
    BY <1>1 DEF DraftTypeOK
  <2> QED BY <2>1 DEF Request
<1>3. ASSUME NEW m PROVE IsFiniteSet(Of(m))
  <2>1. IsFiniteSet(1 .. Len(requests))
    BY <1>1, FS_Interval
  <2>2. Of(m) \in SUBSET (1 .. Len(requests))
    BY <1>1 DEF Of
  <2> QED BY <2>1, <2>2, FS_Subset
<1> QED BY <1>1, <1>2, <1>3

LEMMA StateFacts ==
    ASSUME DraftTypeOK, NEW p \in Preparer
    PROVE  /\ preparing[p] \in PreparerState
           /\ preparing[p].step \in {"idle", "reserve"} \cup HeldSteps
           /\ preparing[p].step = "reserve" =>
                preparing[p].doc \in Document /\ preparing[p].month \in Month
           /\ preparing[p].step \in HeldSteps =>
                preparing[p].doc \in Document /\ preparing[p].request \in Nat \ {0}
           /\ preparing[p].step = "settle" => preparing[p].cost \in Nat
<1>1. preparing[p] \in PreparerState
  BY DEF DraftTypeOK
<1> QED BY <1>1 DEF PreparerState, Resting, HeldSteps

(* The amounts that are summed are naturals. *)
LEMMA AmountsNat ==
    ASSUME DraftTypeOK, Measured
    PROVE  \A q \in DOMAIN requests :
             /\ billed[q] \in Nat
             /\ Accounted[q] \in Nat /\ WithinEstimate[q] \in Nat /\ Committed[q] \in Nat
             /\ WithinEstimate[q] <= Committed[q]
             /\ WithinEstimate[q] <= requests[q].reserved
             /\ requests[q].status # "overrun" => Committed[q] = Accounted[q]
<1> SUFFICES ASSUME NEW q \in DOMAIN requests
             PROVE  /\ billed[q] \in Nat
                    /\ Accounted[q] \in Nat /\ WithinEstimate[q] \in Nat /\ Committed[q] \in Nat
                    /\ WithinEstimate[q] <= Committed[q]
                    /\ WithinEstimate[q] <= requests[q].reserved
                    /\ requests[q].status # "overrun" => Committed[q] = Accounted[q]
  OBVIOUS
<1>1. billed[q] \in Nat
  BY RequestFacts DEF DraftTypeOK, Measured
<1>2. /\ requests[q].reserved \in Nat
      /\ requests[q].actual \in Nat \cup {Unmeasured}
      /\ requests[q].status \in {"reserved", "settled", "overrun"}
  BY RequestFacts
<1>3. /\ requests[q].status = "reserved" <=> requests[q].actual = Unmeasured
      /\ requests[q].actual # Unmeasured => requests[q].actual = billed[q]
      /\ requests[q].status = "settled" => requests[q].actual <= requests[q].reserved
  BY DEF Measured
<1> QED BY <1>1, <1>2, <1>3 DEF Accounted, WithinEstimate, Committed, Unmeasured

(* A process that moves leaves the others where they are. *)
LEMMA OneMoves ==
    ASSUME DraftTypeOK, NEW p \in Preparer, NEW s, Goes(p, s)
    PROVE  /\ preparing'[p] = s
           /\ \A r \in Preparer \ {p} : preparing'[r] = preparing[r]
           /\ s \in PreparerState => preparing' \in [Preparer -> PreparerState]
<1>1. preparing \in [Preparer -> PreparerState] /\ preparing' = [preparing EXCEPT ![p] = s]
  BY DEF DraftTypeOK, Goes
<1> QED BY <1>1

(* Fewer calls under way leave the bound on overruns as it is. *)
LEMMA FewerUnderWay ==
    ASSUME NEW O, IsFiniteSet(O), NEW U, U \subseteq Preparer, NEW V, V \subseteq U,
           Cardinality(O) + Cardinality(U) <= Cardinality(Preparer)
    PROVE  Cardinality(O) + Cardinality(V) <= Cardinality(Preparer)
<1>1. IsFiniteSet(U)
  BY FS_Subset, DraftAssumption
<1>2. IsFiniteSet(V) /\ Cardinality(V) <= Cardinality(U)
  BY <1>1, FS_Subset
<1>3. /\ Cardinality(O) \in Nat /\ Cardinality(U) \in Nat /\ Cardinality(V) \in Nat
      /\ Cardinality(Preparer) \in Nat
  BY <1>1, <1>2, FS_CardinalityType, DraftAssumption
<1> QED BY <1>2, <1>3

(* A step that leaves the ledger alone, and what was billed for measured    *)
(* requests, and starts no call, keeps what the ledger promises.           *)
LEMMA LedgerStays ==
    ASSUME DraftIInv, requests' = requests, costs' = costs,
           Len(billed') = Len(billed), billed' \in Seq(Nat),
           \A q \in DOMAIN requests : requests[q].actual # Unmeasured => billed'[q] = billed[q],
           \A r \in Preparer : preparing'[r].step \in {"call", "settle"} =>
               /\ preparing[r].step \in {"call", "settle"}
               /\ preparing'[r].request = preparing[r].request
    PROVE  Measured' /\ LedgerBalances' /\ CommittedWithinBudget' /\ OverrunsBounded'
<1>0. DraftTypeOK /\ Measured
  BY DEF DraftIInv
<1>1. Measured'
  BY DEF Measured, DraftIInv
<1>2. \A m : Of(m)' = Of(m) /\ Overruns(m)' = Overruns(m)
  BY DEF Of, Overruns
<1>3. Accounted' = Accounted
  BY DEF Accounted
<1>4. LedgerBalances'
  <2>1. \A m \in Month : costs[m] = Total(Accounted, Of(m))
    BY DEF DraftIInv, LedgerBalances
  <2>2. \A m \in Month : costs'[m] = Total(Accounted, Of(m))
    BY <2>1
  <2> QED BY <1>2, <1>3, <2>2 DEF LedgerBalances
<1>5. CommittedWithinBudget'
  <2>1. ASSUME NEW q \in DOMAIN requests PROVE Committed'[q] = Committed[q]
    BY <2>1 DEF Committed, WithinEstimate
  <2>2. Committed' = Committed
    BY <2>1 DEF Committed
  <2>3. \A m \in Month : Total(Committed, Of(m)) <= Budget
    BY DEF DraftIInv, CommittedWithinBudget
  <2> QED BY <1>2, <2>2, <2>3 DEF CommittedWithinBudget
<1>6. OverrunsBounded'
  <2> SUFFICES ASSUME NEW m \in Month, Overruns(m)' # {}
               PROVE  Cardinality(Overruns(m)') + Cardinality(UnderWay(m)') <= Cardinality(Preparer)
    BY DEF OverrunsBounded
  <2>1. Cardinality(Overruns(m)) + Cardinality(UnderWay(m)) <= Cardinality(Preparer)
    BY <1>2 DEF DraftIInv, OverrunsBounded
  <2>2. UnderWay(m)' \subseteq UnderWay(m)
    BY <1>2 DEF UnderWay
  <2>3. UnderWay(m) \subseteq Preparer /\ Overruns(m) \subseteq Of(m)
    BY DEF UnderWay, Overruns
  <2>4. IsFiniteSet(Overruns(m))
    BY <1>0, <2>3, RequestFacts, FS_Subset
  <2> QED BY <1>2, <2>1, <2>2, <2>3, <2>4, FewerUnderWay
<1> QED BY <1>1, <1>4, <1>5, <1>6

(* A process that ends or begins without a request takes none from others. *)
LEMMA HandStays ==
    ASSUME DraftIInv, NEW p \in Preparer, NEW s, Goes(p, s), s.step \notin HeldSteps,
           requests' = requests, drafts \subseteq drafts',
           \A q \in DOMAIN requests :
               (preparing[p].step \in HeldSteps => q # preparing[p].request) => billed'[q] = billed[q]
    PROVE  InHand'
<1>1. /\ preparing'[p] = s
      /\ \A r \in Preparer \ {p} : preparing'[r] = preparing[r]
  BY OneMoves DEF DraftIInv
<1>2. InHand
  BY DEF DraftIInv
<1>3. ASSUME NEW r \in Preparer, preparing'[r].step \in HeldSteps
      PROVE  /\ preparing'[r].request \in DOMAIN requests'
             /\ preparing'[r].step \in {"call", "settle"} =>
                  requests'[preparing'[r].request].actual = Unmeasured
             /\ preparing'[r].step = "settle" =>
                  preparing'[r].cost = billed'[preparing'[r].request]
             /\ preparing'[r].step = "pointer" =>
                  <<preparing'[r].doc, preparing'[r].request>> \in drafts'
  <2>1. r # p /\ preparing'[r] = preparing[r]
    BY <1>1, <1>3
  <2>2. preparing[p].step \in HeldSteps => preparing[r].request # preparing[p].request
    BY <1>2, <1>3, <2>1 DEF InHand
  <2>3. /\ preparing[r].request \in DOMAIN requests
        /\ preparing[r].step \in {"call", "settle"} =>
             requests[preparing[r].request].actual = Unmeasured
        /\ preparing[r].step = "settle" => preparing[r].cost = billed[preparing[r].request]
        /\ preparing[r].step = "pointer" => <<preparing[r].doc, preparing[r].request>> \in drafts
    BY <1>2, <1>3, <2>1 DEF InHand
  <2>4. billed'[preparing[r].request] = billed[preparing[r].request]
    BY <2>2, <2>3
  <2> QED BY <2>1, <2>3, <2>4
<1>4. ASSUME NEW r \in Preparer, NEW w \in Preparer,
             preparing'[r].step \in HeldSteps, preparing'[w].step \in HeldSteps,
             preparing'[r].request = preparing'[w].request
      PROVE  r = w
  BY <1>1, <1>2, <1>4 DEF InHand
<1> QED BY <1>3, <1>4 DEF InHand

(* A pointer names a draft for as long as drafts stay and only such        *)
(* pointers are added.                                                     *)
LEMMA PointersStay ==
    ASSUME DraftIInv, pointers' = pointers, drafts \subseteq drafts'
    PROVE  PointerNamesDraft'
BY DEF DraftIInv, PointerNamesDraft

LEMMA LookUpInv ==
    ASSUME DraftIInv, NEW p \in Preparer, NEW d \in Document, NEW m \in Month, LookUp(p, d, m)
    PROVE  DraftIInv'
<1> DEFINE s == [step |-> "reserve", doc |-> d, month |-> m]
<1>1. /\ Goes(p, s) /\ requests' = requests /\ costs' = costs /\ billed' = billed
      /\ drafts' = drafts /\ pointers' = pointers
  BY DEF LookUp, ledgerVars, fileVars
<1>2. s.step = "reserve" /\ s \in PreparerState
  BY DEF PreparerState
<1> HIDE DEF s
<1>3. /\ preparing'[p] = s
      /\ \A r \in Preparer \ {p} : preparing'[r] = preparing[r]
      /\ preparing' \in [Preparer -> PreparerState]
  BY <1>1, <1>2, OneMoves DEF DraftIInv
<1>4. DraftTypeOK'
  BY <1>1, <1>3 DEF DraftIInv, DraftTypeOK
<1>5. InHand'
  BY <1>1, <1>2, HandStays DEF HeldSteps
<1>6. Measured' /\ LedgerBalances' /\ CommittedWithinBudget' /\ OverrunsBounded'
  <2>1. billed' \in Seq(Nat) /\ Len(billed') = Len(billed)
    BY <1>1 DEF DraftIInv, DraftTypeOK
  <2> QED BY <1>1, <1>2, <1>3, <2>1, LedgerStays
<1> QED BY <1>1, <1>4, <1>5, <1>6, PointersStay DEF DraftIInv

LEMMA ReserveRefusedInv ==
    ASSUME DraftIInv, NEW p \in Preparer, ReserveRefused(p)
    PROVE  DraftIInv'
<1>1. /\ Goes(p, Resting) /\ requests' = requests /\ costs' = costs /\ billed' = billed
      /\ drafts' = drafts /\ pointers' = pointers
  BY DEF ReserveRefused, ledgerVars, fileVars
<1>2. Resting.step = "idle" /\ Resting \in PreparerState
  BY DEF PreparerState, Resting
<1>3. /\ preparing'[p] = Resting
      /\ \A r \in Preparer \ {p} : preparing'[r] = preparing[r]
      /\ preparing' \in [Preparer -> PreparerState]
  BY <1>1, <1>2, OneMoves DEF DraftIInv
<1>4. DraftTypeOK'
  BY <1>1, <1>3 DEF DraftIInv, DraftTypeOK
<1>5. InHand'
  BY <1>1, <1>2, HandStays DEF HeldSteps
<1>6. Measured' /\ LedgerBalances' /\ CommittedWithinBudget' /\ OverrunsBounded'
  <2>1. billed' \in Seq(Nat) /\ Len(billed') = Len(billed)
    BY <1>1 DEF DraftIInv, DraftTypeOK
  <2> QED BY <1>1, <1>2, <1>3, <2>1, LedgerStays
<1> QED BY <1>1, <1>4, <1>5, <1>6, PointersStay DEF DraftIInv

(* A call is charged to its own request, which is not measured yet. *)
LEMMA ChargedOwn ==
    ASSUME DraftIInv, NEW p \in Preparer, preparing[p].step = "call",
           NEW charge \in Nat, billed' = [billed EXCEPT ![preparing[p].request] = charge]
    PROVE  /\ billed' \in Seq(Nat) /\ Len(billed') = Len(billed)
           /\ preparing[p].request \in DOMAIN requests
           /\ billed'[preparing[p].request] = charge
           /\ \A q \in DOMAIN requests : q # preparing[p].request => billed'[q] = billed[q]
           /\ \A q \in DOMAIN requests : requests[q].actual # Unmeasured => billed'[q] = billed[q]
<1> DEFINE q0 == preparing[p].request
<1>1. q0 \in DOMAIN requests /\ requests[q0].actual = Unmeasured
  BY DEF DraftIInv, InHand, HeldSteps
<1>2. billed \in Seq(Nat) /\ Len(billed) = Len(requests) /\ DOMAIN requests = 1 .. Len(requests)
  BY RequestFacts DEF DraftIInv, DraftTypeOK, Measured
<1>3. billed' = [billed EXCEPT ![q0] = charge] /\ q0 \in 1 .. Len(billed)
  BY <1>1, <1>2
<1> HIDE DEF q0
<1>4. /\ billed' \in Seq(Nat) /\ Len(billed') = Len(billed)
      /\ \A q \in 1 .. Len(billed) : billed'[q] = IF q = q0 THEN charge ELSE billed[q]
  <2>1. billed \in Seq(Nat) /\ q0 \in 1 .. Len(billed)
    BY <1>2, <1>3
  <2> DEFINE t == [billed EXCEPT ![q0] = charge]
  <2>2. /\ t \in Seq(Nat) /\ Len(t) = Len(billed)
        /\ \A q \in 1 .. Len(billed) : t[q] = IF q = q0 THEN charge ELSE billed[q]
    BY <2>1, ExceptSeq
  <2> HIDE DEF t
  <2>3. billed' = t
    BY <1>3 DEF t
  <2> QED BY <2>2, <2>3
<1>5. \A q \in DOMAIN requests : q # q0 => billed'[q] = billed[q]
  BY <1>2, <1>4
<1>6. \A q \in DOMAIN requests : requests[q].actual # Unmeasured => billed'[q] = billed[q]
  BY <1>1, <1>5
<1> QED BY <1>1, <1>3, <1>4, <1>5, <1>6 DEF q0

LEMMA CallFailsInv ==
    ASSUME DraftIInv, NEW p \in Preparer, CallFails(p)
    PROVE  DraftIInv'
<1>1. /\ Goes(p, Resting) /\ requests' = requests /\ costs' = costs
      /\ drafts' = drafts /\ pointers' = pointers /\ preparing[p].step = "call"
  BY DEF CallFails, ledgerVars, fileVars, At
<1>2. Resting.step = "idle" /\ Resting \in PreparerState
  BY DEF PreparerState, Resting
<1>3. /\ preparing'[p] = Resting
      /\ \A r \in Preparer \ {p} : preparing'[r] = preparing[r]
      /\ preparing' \in [Preparer -> PreparerState]
  BY <1>1, <1>2, OneMoves DEF DraftIInv
<1>4. /\ billed' \in Seq(Nat) /\ Len(billed') = Len(billed)
      /\ \A q \in DOMAIN requests : q # preparing[p].request => billed'[q] = billed[q]
      /\ \A q \in DOMAIN requests : requests[q].actual # Unmeasured => billed'[q] = billed[q]
  <2>1. CASE UNCHANGED billed
    BY <2>1 DEF DraftIInv, DraftTypeOK
  <2>2. CASE \E charge \in Charge : billed' = [billed EXCEPT ![preparing[p].request] = charge]
    <3>1. PICK charge \in Charge : billed' = [billed EXCEPT ![preparing[p].request] = charge]
      BY <2>2
    <3>2. charge \in Nat
      BY DraftAssumption
    <3> QED BY <1>1, <3>1, <3>2, ChargedOwn
  <2> QED BY <2>1, <2>2 DEF CallFails
<1>5. DraftTypeOK'
  BY <1>1, <1>3, <1>4 DEF DraftIInv, DraftTypeOK
<1>6. InHand'
  BY <1>1, <1>2, <1>4, HandStays DEF HeldSteps
<1>7. Measured' /\ LedgerBalances' /\ CommittedWithinBudget' /\ OverrunsBounded'
  BY <1>1, <1>2, <1>3, <1>4, LedgerStays
<1> QED BY <1>1, <1>5, <1>6, <1>7, PointersStay DEF DraftIInv

LEMMA WritePointerInv ==
    ASSUME DraftIInv, NEW p \in Preparer, WritePointer(p)
    PROVE  DraftIInv'
<1>1. /\ Goes(p, Resting) /\ requests' = requests /\ costs' = costs /\ billed' = billed
      /\ drafts' = drafts /\ preparing[p].step = "pointer"
      /\ pointers' \subseteq pointers \cup {<<preparing[p].doc, preparing[p].request>>}
  BY DEF WritePointer, ledgerVars, At
<1>2. Resting.step = "idle" /\ Resting \in PreparerState
  BY DEF PreparerState, Resting
<1>3. /\ preparing'[p] = Resting
      /\ \A r \in Preparer \ {p} : preparing'[r] = preparing[r]
      /\ preparing' \in [Preparer -> PreparerState]
  BY <1>1, <1>2, OneMoves DEF DraftIInv
<1>4. <<preparing[p].doc, preparing[p].request>> \in drafts
  BY <1>1 DEF DraftIInv, InHand, HeldSteps
<1>5. DraftTypeOK'
  <2>1. drafts \subseteq Document \X (Nat \ {0}) /\ pointers \subseteq Document \X Nat
    BY DEF DraftIInv, DraftTypeOK
  <2>2. pointers' \subseteq Document \X Nat
    BY <1>1, <1>4, <2>1
  <2> QED BY <1>1, <1>3, <2>2 DEF DraftIInv, DraftTypeOK
<1>6. InHand'
  BY <1>1, <1>2, HandStays DEF HeldSteps
<1>7. Measured' /\ LedgerBalances' /\ CommittedWithinBudget' /\ OverrunsBounded'
  <2>1. billed' \in Seq(Nat) /\ Len(billed') = Len(billed)
    BY <1>1 DEF DraftIInv, DraftTypeOK
  <2> QED BY <1>1, <1>2, <1>3, <2>1, LedgerStays
<1>8. PointerNamesDraft'
  BY <1>1, <1>4 DEF DraftIInv, PointerNamesDraft
<1> QED BY <1>5, <1>6, <1>7, <1>8 DEF DraftIInv

LEMMA InterruptedInv ==
    ASSUME DraftIInv, NEW p \in Preparer, Interrupted(p)
    PROVE  DraftIInv'
<1>1. /\ Goes(p, Resting) /\ requests' = requests /\ costs' = costs /\ billed' = billed
      /\ drafts' = drafts
      /\ \/ pointers' = pointers
         \/ /\ preparing[p].step = "pointer"
            /\ pointers' = pointers \cup {<<preparing[p].doc, Torn>>}
  BY DEF Interrupted, ledgerVars, At
<1>2. Resting.step = "idle" /\ Resting \in PreparerState
  BY DEF PreparerState, Resting
<1>3. /\ preparing'[p] = Resting
      /\ \A r \in Preparer \ {p} : preparing'[r] = preparing[r]
      /\ preparing' \in [Preparer -> PreparerState]
  BY <1>1, <1>2, OneMoves DEF DraftIInv
<1>5. DraftTypeOK'
  <2>1. pointers \subseteq Document \X Nat
    BY DEF DraftIInv, DraftTypeOK
  <2>2. preparing[p].step = "pointer" => preparing[p].doc \in Document
    BY StateFacts DEF DraftIInv, HeldSteps
  <2>3. pointers' \subseteq Document \X Nat
    BY <1>1, <2>1, <2>2 DEF Torn
  <2> QED BY <1>1, <1>3, <2>3 DEF DraftIInv, DraftTypeOK
<1>6. InHand'
  BY <1>1, <1>2, HandStays DEF HeldSteps
<1>7. Measured' /\ LedgerBalances' /\ CommittedWithinBudget' /\ OverrunsBounded'
  <2>1. billed' \in Seq(Nat) /\ Len(billed') = Len(billed)
    BY <1>1 DEF DraftIInv, DraftTypeOK
  <2> QED BY <1>1, <1>2, <1>3, <2>1, LedgerStays
<1>8. PointerNamesDraft'
  BY <1>1 DEF DraftIInv, PointerNamesDraft
<1> QED BY <1>5, <1>6, <1>7, <1>8 DEF DraftIInv

(* A process that goes on with its request takes none from others. *)
LEMMA HandGoesOn ==
    ASSUME DraftIInv, NEW p \in Preparer, NEW s, Goes(p, s), preparing[p].step \in HeldSteps,
           s.step \in HeldSteps => s.request = preparing[p].request,
           s.step \in {"call", "settle"} => requests'[preparing[p].request].actual = Unmeasured,
           s.step = "settle" => s.cost = billed'[preparing[p].request],
           s.step = "pointer" => <<s.doc, preparing[p].request>> \in drafts',
           DOMAIN requests' = DOMAIN requests, drafts \subseteq drafts',
           \A q \in DOMAIN requests : q # preparing[p].request =>
               requests'[q] = requests[q] /\ billed'[q] = billed[q]
    PROVE  InHand'
<1>1. /\ preparing'[p] = s
      /\ \A r \in Preparer \ {p} : preparing'[r] = preparing[r]
  BY OneMoves DEF DraftIInv
<1>2. InHand
  BY DEF DraftIInv
<1>3. ASSUME NEW r \in Preparer, preparing'[r].step \in HeldSteps
      PROVE  /\ preparing'[r].request \in DOMAIN requests'
             /\ preparing'[r].step \in {"call", "settle"} =>
                  requests'[preparing'[r].request].actual = Unmeasured
             /\ preparing'[r].step = "settle" =>
                  preparing'[r].cost = billed'[preparing'[r].request]
             /\ preparing'[r].step = "pointer" =>
                  <<preparing'[r].doc, preparing'[r].request>> \in drafts'
  <2>1. CASE r = p
    <3>1. preparing[p].request \in DOMAIN requests
      BY <1>2 DEF InHand
    <3> QED BY <1>1, <1>3, <2>1, <3>1
  <2>2. CASE r # p
    <3>1. preparing'[r] = preparing[r]
      BY <1>1, <2>2
    <3>2. preparing[r].request # preparing[p].request
      BY <1>2, <1>3, <2>2, <3>1 DEF InHand
    <3>3. /\ preparing[r].request \in DOMAIN requests
          /\ preparing[r].step \in {"call", "settle"} =>
               requests[preparing[r].request].actual = Unmeasured
          /\ preparing[r].step = "settle" => preparing[r].cost = billed[preparing[r].request]
          /\ preparing[r].step = "pointer" => <<preparing[r].doc, preparing[r].request>> \in drafts
      BY <1>2, <1>3, <3>1 DEF InHand
    <3>4. /\ requests'[preparing[r].request] = requests[preparing[r].request]
          /\ billed'[preparing[r].request] = billed[preparing[r].request]
      BY <3>2, <3>3
    <3> QED BY <3>1, <3>3, <3>4
  <2> QED BY <2>1, <2>2
<1>4. ASSUME NEW r \in Preparer, NEW w \in Preparer,
             preparing'[r].step \in HeldSteps, preparing'[w].step \in HeldSteps,
             preparing'[r].request = preparing'[w].request
      PROVE  r = w
  <2>1. /\ preparing[r].step \in HeldSteps /\ preparing'[r].request = preparing[r].request
        /\ preparing[w].step \in HeldSteps /\ preparing'[w].request = preparing[w].request
    BY <1>1, <1>4
  <2> QED BY <1>2, <1>4, <2>1 DEF InHand
<1> QED BY <1>3, <1>4 DEF InHand

LEMMA AnswerInv ==
    ASSUME DraftIInv, NEW p \in Preparer, Answer(p)
    PROVE  DraftIInv'
<1> DEFINE d == preparing[p].doc
           q0 == preparing[p].request
<1>1. /\ requests' = requests /\ costs' = costs
      /\ drafts' = drafts /\ pointers' = pointers /\ preparing[p].step = "call"
  BY DEF Answer, ledgerVars, fileVars, At
<1>2. PICK charge \in Charge :
        /\ billed' = [billed EXCEPT ![q0] = charge]
        /\ \/ Goes(p, [step |-> "settle", doc |-> d, request |-> q0, cost |-> charge])
           \/ Goes(p, [step |-> "draft", doc |-> d, request |-> q0])
  BY DEF Answer
<1>3. charge \in Nat
  BY DraftAssumption
<1>4. d \in Document /\ q0 \in Nat \ {0}
  BY <1>1, StateFacts DEF DraftIInv, HeldSteps
<1>5. /\ billed' \in Seq(Nat) /\ Len(billed') = Len(billed)
      /\ q0 \in DOMAIN requests
      /\ billed'[q0] = charge
      /\ \A q \in DOMAIN requests : q # q0 => billed'[q] = billed[q]
      /\ \A q \in DOMAIN requests : requests[q].actual # Unmeasured => billed'[q] = billed[q]
  BY <1>1, <1>2, <1>3, ChargedOwn
<1>6. requests[q0].actual = Unmeasured
  BY <1>1 DEF DraftIInv, InHand, HeldSteps
<1>7. PICK s : /\ Goes(p, s) /\ s \in PreparerState /\ s.request = q0
               /\ s.step \in {"settle", "draft"}
               /\ s.step = "settle" => s.cost = charge
  <2>1. CASE Goes(p, [step |-> "settle", doc |-> d, request |-> q0, cost |-> charge])
    <3>1. [step |-> "settle", doc |-> d, request |-> q0, cost |-> charge] \in PreparerState
      BY <1>3, <1>4 DEF PreparerState
    <3> HIDE DEF d, q0
    <3> QED BY <2>1, <3>1
  <2>2. CASE Goes(p, [step |-> "draft", doc |-> d, request |-> q0])
    <3>1. [step |-> "draft", doc |-> d, request |-> q0] \in PreparerState
      BY <1>4 DEF PreparerState
    <3> HIDE DEF d, q0
    <3> QED BY <2>2, <3>1
  <2> QED BY <1>2, <2>1, <2>2
<1>8. /\ preparing'[p] = s
      /\ \A r \in Preparer \ {p} : preparing'[r] = preparing[r]
      /\ preparing' \in [Preparer -> PreparerState]
  BY <1>7, OneMoves DEF DraftIInv
<1>9. DraftTypeOK'
  BY <1>1, <1>5, <1>8 DEF DraftIInv, DraftTypeOK
<1>10. InHand'
  <2>1. preparing[p].step \in HeldSteps /\ s.step # "pointer"
    BY <1>1, <1>7 DEF HeldSteps
  <2>2. \A q \in DOMAIN requests : q # q0 => requests'[q] = requests[q] /\ billed'[q] = billed[q]
    BY <1>1, <1>5
  <2>3. requests'[q0].actual = Unmeasured /\ DOMAIN requests' = DOMAIN requests
    BY <1>1, <1>6
  <2>4. s.step = "settle" => s.cost = billed'[q0]
    BY <1>5, <1>7
  <2> QED BY <1>1, <1>7, <2>1, <2>2, <2>3, <2>4, HandGoesOn
<1>11. Measured' /\ LedgerBalances' /\ CommittedWithinBudget' /\ OverrunsBounded'
  <2>1. \A r \in Preparer : preparing'[r].step \in {"call", "settle"} =>
          /\ preparing[r].step \in {"call", "settle"}
          /\ preparing'[r].request = preparing[r].request
    BY <1>1, <1>7, <1>8
  <2> QED BY <1>1, <1>5, <2>1, LedgerStays
<1> QED BY <1>1, <1>9, <1>10, <1>11, PointersStay DEF DraftIInv

LEMMA WriteDraftInv ==
    ASSUME DraftIInv, NEW p \in Preparer, WriteDraft(p)
    PROVE  DraftIInv'
<1> DEFINE d == preparing[p].doc
           q0 == preparing[p].request
           s == [preparing[p] EXCEPT !.step = "pointer"]
<1>1. /\ requests' = requests /\ costs' = costs /\ billed' = billed
      /\ drafts' = drafts \cup {<<d, q0>>} /\ pointers' = pointers
      /\ preparing[p].step = "draft" /\ Goes(p, s)
  BY DEF WriteDraft, ledgerVars, At
<1>2. /\ d \in Document /\ q0 \in Nat \ {0}
      /\ preparing[p] \in [step : {"call", "draft", "pointer"}, doc : Document, request : Nat \ {0}]
  BY <1>1, StateFacts DEF DraftIInv, HeldSteps, PreparerState, Resting
<1>3. /\ s \in [step : {"call", "draft", "pointer"}, doc : Document, request : Nat \ {0}]
      /\ s.step = "pointer" /\ s.doc = d /\ s.request = q0
  BY <1>2
<1>4. s \in PreparerState
  BY <1>3 DEF PreparerState
<1> HIDE DEF s, d, q0
<1>5. /\ preparing'[p] = s
      /\ \A r \in Preparer \ {p} : preparing'[r] = preparing[r]
      /\ preparing' \in [Preparer -> PreparerState]
  BY <1>1, <1>4, OneMoves DEF DraftIInv
<1>6. DraftTypeOK'
  BY <1>1, <1>2, <1>5 DEF DraftIInv, DraftTypeOK
<1>7. InHand'
  <2>1. preparing[p].step \in HeldSteps /\ s.step \notin {"call", "settle"}
    BY <1>1, <1>3 DEF HeldSteps
  <2>2. s.request = preparing[p].request /\ <<s.doc, preparing[p].request>> \in drafts'
    BY <1>1, <1>3 DEF d, q0
  <2>3. DOMAIN requests' = DOMAIN requests /\ drafts \subseteq drafts' /\ s.step # "settle"
    BY <1>1, <1>3
  <2>4. \A q \in DOMAIN requests : q # preparing[p].request =>
          requests'[q] = requests[q] /\ billed'[q] = billed[q]
    BY <1>1
  <2> QED BY <1>1, <2>1, <2>2, <2>3, <2>4, HandGoesOn
<1>8. Measured' /\ LedgerBalances' /\ CommittedWithinBudget' /\ OverrunsBounded'
  <2>1. billed' \in Seq(Nat) /\ Len(billed') = Len(billed)
    BY <1>1 DEF DraftIInv, DraftTypeOK
  <2> QED BY <1>1, <1>3, <1>5, <2>1, LedgerStays
<1> QED BY <1>1, <1>6, <1>7, <1>8, PointersStay DEF DraftIInv

(* A reservation appends an unmeasured request, which is its month's last. *)
LEMMA Reserved ==
    ASSUME DraftIInv, NEW p \in Preparer, Reserve(p),
           NEW m \in Month, preparing[p].month = m, NEW n \in Nat, n = Len(requests) + 1
    PROVE  /\ requests' \in Seq(Request) /\ billed' \in Seq(Nat)
           /\ Len(requests') = n /\ Len(billed') = n
           /\ DOMAIN requests' = DOMAIN requests \cup {n} /\ n \notin DOMAIN requests
           /\ \A q \in DOMAIN requests : requests'[q] = requests[q] /\ billed'[q] = billed[q]
           /\ requests'[n].month = m /\ requests'[n].reserved = Estimate
           /\ requests'[n].actual = Unmeasured /\ requests'[n].status = "reserved"
           /\ billed'[n] = 0
           /\ n \in Nat \ {0}
<1> DEFINE new == [month |-> m, reserved |-> Estimate, actual |-> Unmeasured, status |-> "reserved"]
<1>1. requests' = Append(requests, new) /\ billed' = Append(billed, 0)
  BY DEF Reserve
<1>2. /\ new \in Request
      /\ new.month = m /\ new.reserved = Estimate
      /\ new.actual = Unmeasured /\ new.status = "reserved"
  BY DraftAssumption DEF Request
<1> HIDE DEF new
<1>3. /\ requests \in Seq(Request) /\ billed \in Seq(Nat) /\ Len(billed) = Len(requests)
      /\ DOMAIN requests = 1 .. Len(requests) /\ Len(requests) \in Nat
  BY RequestFacts DEF DraftIInv, DraftTypeOK, Measured
<1>4. /\ requests' \in Seq(Request) /\ Len(requests') = Len(requests) + 1
      /\ \A q \in 1 .. Len(requests) : requests'[q] = requests[q]
      /\ requests'[Len(requests) + 1] = new
  BY <1>1, <1>2, <1>3, AppendProperties
<1>5. /\ billed' \in Seq(Nat) /\ Len(billed') = Len(billed) + 1
      /\ \A q \in 1 .. Len(billed) : billed'[q] = billed[q]
      /\ billed'[Len(billed) + 1] = 0
  BY <1>1, <1>3, AppendProperties
<1>6. DOMAIN requests' = 1 .. n /\ n \in Nat \ {0}
  BY <1>3, <1>4
<1>7. 1 .. n = (1 .. Len(requests)) \cup {n} /\ n \notin 1 .. Len(requests)
  BY <1>3
<1> QED BY <1>2, <1>3, <1>4, <1>5, <1>6, <1>7

LEMMA ReserveInv ==
    ASSUME DraftIInv, NEW p \in Preparer, Reserve(p)
    PROVE  DraftIInv'
<1>1. preparing[p].step = "reserve" /\ preparing[p].doc \in Document /\ preparing[p].month \in Month
  BY StateFacts DEF Reserve, At, DraftIInv
<1>2. PICK m \in Month : m = preparing[p].month
  BY <1>1
<1>3. PICK n \in Nat : n = Len(requests) + 1
  BY RequestFacts DEF DraftIInv
<1> DEFINE s == [step |-> "call", doc |-> preparing[p].doc, request |-> n]
<1>4. /\ costs' = [costs EXCEPT ![m] = costs[m] + Estimate]
      /\ MayReserve(m) /\ Goes(p, s)
      /\ drafts' = drafts /\ pointers' = pointers
  BY <1>2, <1>3 DEF Reserve, fileVars
<1>5. /\ requests' \in Seq(Request) /\ billed' \in Seq(Nat)
      /\ Len(requests') = n /\ Len(billed') = n
      /\ DOMAIN requests' = DOMAIN requests \cup {n} /\ n \notin DOMAIN requests
      /\ \A q \in DOMAIN requests : requests'[q] = requests[q] /\ billed'[q] = billed[q]
      /\ requests'[n].month = m /\ requests'[n].reserved = Estimate
      /\ requests'[n].actual = Unmeasured /\ requests'[n].status = "reserved"
      /\ billed'[n] = 0
      /\ n \in Nat \ {0}
  <2>1. preparing[p].month = m
    BY <1>2
  <2> QED BY <1>3, <2>1, Reserved
<1>6. s \in PreparerState /\ s.step = "call" /\ s.request = n
  BY <1>1, <1>5 DEF PreparerState
<1> HIDE DEF s
<1>7. /\ preparing'[p] = s
      /\ \A r \in Preparer \ {p} : preparing'[r] = preparing[r]
      /\ preparing' \in [Preparer -> PreparerState]
  BY <1>4, <1>6, OneMoves DEF DraftIInv
<1>8. /\ DraftTypeOK /\ Measured /\ InHand /\ costs \in [Month -> Nat]
      /\ DOMAIN requests = 1 .. Len(requests)
  BY RequestFacts DEF DraftIInv, DraftTypeOK
<1>9. DraftTypeOK'
  <2>1. costs' \in [Month -> Nat]
    BY <1>4, <1>8, DraftAssumption
  <2> QED BY <1>4, <1>5, <1>7, <1>8, <2>1 DEF DraftTypeOK
<1>10. InHand'
  <2>1. ASSUME NEW r \in Preparer, preparing'[r].step \in HeldSteps
        PROVE  /\ preparing'[r].request \in DOMAIN requests'
               /\ preparing'[r].step \in {"call", "settle"} =>
                    requests'[preparing'[r].request].actual = Unmeasured
               /\ preparing'[r].step = "settle" =>
                    preparing'[r].cost = billed'[preparing'[r].request]
               /\ preparing'[r].step = "pointer" =>
                    <<preparing'[r].doc, preparing'[r].request>> \in drafts'
    <3>1. CASE r = p
      BY <1>5, <1>6, <1>7, <3>1
    <3>2. CASE r # p
      <4>1. preparing'[r] = preparing[r]
        BY <1>7, <3>2
      <4>2. /\ preparing[r].request \in DOMAIN requests
            /\ preparing[r].step \in {"call", "settle"} =>
                 requests[preparing[r].request].actual = Unmeasured
            /\ preparing[r].step = "settle" => preparing[r].cost = billed[preparing[r].request]
            /\ preparing[r].step = "pointer" =>
                 <<preparing[r].doc, preparing[r].request>> \in drafts
        BY <1>8, <2>1, <4>1 DEF InHand
      <4> QED BY <1>4, <1>5, <4>1, <4>2
    <3> QED BY <3>1, <3>2
  <2>2. ASSUME NEW r \in Preparer, r # p, preparing'[r].step \in HeldSteps
        PROVE  preparing'[r].request # n
    <3>1. preparing'[r] = preparing[r] /\ preparing[r].request \in DOMAIN requests
      BY <1>7, <1>8, <2>2 DEF InHand
    <3> QED BY <1>5, <3>1
  <2>3. ASSUME NEW r \in Preparer, NEW w \in Preparer,
               preparing'[r].step \in HeldSteps, preparing'[w].step \in HeldSteps,
               preparing'[r].request = preparing'[w].request
        PROVE  r = w
    <3>1. CASE r = p \/ w = p
      BY <1>6, <1>7, <2>2, <2>3, <3>1
    <3>2. CASE r # p /\ w # p
      BY <1>7, <1>8, <2>3, <3>2 DEF InHand
    <3> QED BY <3>1, <3>2
  <2> QED BY <2>1, <2>3 DEF InHand
<1>11. Measured'
  <2>1. Len(billed') = Len(requests')
    BY <1>5
  <2>2. ASSUME NEW q \in DOMAIN requests'
        PROVE  /\ requests'[q].status = "reserved" <=> requests'[q].actual = Unmeasured
               /\ requests'[q].actual # Unmeasured => requests'[q].actual = billed'[q]
               /\ requests'[q].status = "settled" => requests'[q].actual <= requests'[q].reserved
    <3>1. CASE q = n
      BY <1>5, <3>1
    <3>2. CASE q # n
      <4>1. q \in DOMAIN requests /\ requests'[q] = requests[q] /\ billed'[q] = billed[q]
        BY <1>5, <3>2
      <4> QED BY <1>8, <4>1 DEF Measured
    <3> QED BY <3>1, <3>2
  <2> QED BY <2>1, <2>2 DEF Measured
<1>12. ASSUME NEW k
       PROVE  /\ Of(k)' = IF k = m THEN Of(k) \cup {n} ELSE Of(k)
              /\ Of(k) \subseteq DOMAIN requests /\ n \notin Of(k) /\ IsFiniteSet(Of(k))
  <2>1. Of(k) \subseteq DOMAIN requests /\ n \notin Of(k)
    BY <1>5 DEF Of
  <2>2. ASSUME NEW q \in DOMAIN requests PROVE q \in Of(k)' <=> q \in Of(k)
    BY <1>5 DEF Of
  <2>3. n \in Of(k)' <=> k = m
    BY <1>5 DEF Of
  <2>4. Of(k)' \subseteq DOMAIN requests \cup {n}
    BY <1>5 DEF Of
  <2>5. IsFiniteSet(Of(k))
    BY <1>8, RequestFacts
  <2>6. Of(k)' = IF k = m THEN Of(k) \cup {n} ELSE Of(k)
    BY <2>1, <2>2, <2>3, <2>4
  <2> QED BY <2>1, <2>5, <2>6
<1>13. /\ \A q \in DOMAIN requests : Accounted'[q] = Accounted[q] /\ Committed'[q] = Committed[q]
       /\ Accounted'[n] = Estimate /\ Committed'[n] = Estimate
  BY <1>5 DEF Accounted, Committed, WithinEstimate
<1>14. /\ Estimate \in Nat /\ Budget \in Nat
       /\ \A q \in DOMAIN requests :
            /\ Accounted[q] \in Nat /\ Committed[q] \in Nat
            /\ requests[q].status # "overrun" => Committed[q] = Accounted[q]
  BY <1>8, AmountsNat, DraftAssumption
<1>15. LedgerBalances'
  <2>1. ASSUME NEW k \in Month PROVE costs'[k] = Total(Accounted', Of(k)')
    <3>1. costs[k] = Total(Accounted, Of(k)) /\ costs[k] \in Nat
      BY <1>8 DEF DraftIInv, LedgerBalances
    <3>2. Total(Accounted', Of(k)) = Total(Accounted, Of(k))
      BY <1>12, <1>13, TotalSame
    <3>3. CASE k = m
      <4>1. \A q \in Of(k) : Accounted'[q] \in Nat
        BY <1>12, <1>13, <1>14
      <4>2. Total(Accounted', Of(k) \cup {n}) = Total(Accounted', Of(k)) + Estimate
        BY <1>12, <1>13, <1>14, <4>1, TotalOfOneMore
      <4> QED BY <1>4, <1>8, <1>12, <3>1, <3>2, <3>3, <4>2
    <3>4. CASE k # m
      BY <1>4, <1>8, <1>12, <3>1, <3>2, <3>4
    <3> QED BY <3>3, <3>4
  <2> QED BY <2>1 DEF LedgerBalances
<1>16. \A q \in Of(m) : requests[q].status # "overrun"
  BY <1>4, <1>8 DEF MayReserve, OverrunIn, Of
<1>17. CommittedWithinBudget'
  <2>1. ASSUME NEW k \in Month PROVE Total(Committed', Of(k)') <= Budget
    <3>1. Total(Committed, Of(k)) <= Budget
      BY DEF DraftIInv, CommittedWithinBudget
    <3>2. Total(Committed', Of(k)) = Total(Committed, Of(k))
      BY <1>12, <1>13, TotalSame
    <3>3. CASE k = m
      <4>1. \A q \in Of(k) : Committed'[q] \in Nat
        BY <1>12, <1>13, <1>14
      <4>2. Total(Committed', Of(k) \cup {n}) = Total(Committed', Of(k)) + Estimate
        BY <1>12, <1>13, <1>14, <4>1, TotalOfOneMore
      <4>3. Total(Committed, Of(k)) = Total(Accounted, Of(k))
        BY <1>12, <1>14, <1>16, <3>3, TotalSame
      <4>4. costs[k] = Total(Accounted, Of(k)) /\ costs[k] + Estimate <= Budget
        BY <1>4, <3>3 DEF DraftIInv, LedgerBalances, MayReserve, Affordable
      <4> QED BY <1>12, <3>2, <3>3, <4>2, <4>3, <4>4
    <3>4. CASE k # m
      BY <1>12, <3>1, <3>2, <3>4
    <3> QED BY <3>3, <3>4
  <2> QED BY <2>1 DEF CommittedWithinBudget
<1>18. OverrunsBounded'
  <2> SUFFICES ASSUME NEW k \in Month, Overruns(k)' # {}
               PROVE  Cardinality(Overruns(k)') + Cardinality(UnderWay(k)') <= Cardinality(Preparer)
    BY DEF OverrunsBounded
  <2>1. Overruns(k)' = Overruns(k)
    <3>1. ASSUME NEW q \in Overruns(k)' PROVE q \in Overruns(k)
      BY <1>5, <1>12 DEF Overruns
    <3>2. ASSUME NEW q \in Overruns(k) PROVE q \in Overruns(k)'
      BY <1>5, <1>12 DEF Overruns
    <3> QED BY <3>1, <3>2
  <2>2. k # m
    BY <1>16, <2>1 DEF Overruns
  <2>3. UnderWay(k)' \subseteq UnderWay(k)
    <3> SUFFICES ASSUME NEW r \in UnderWay(k)' PROVE r \in UnderWay(k)
      OBVIOUS
    <3>1. r \in Preparer /\ preparing'[r].step \in {"call", "settle"} /\ preparing'[r].request \in Of(k)
      BY <1>12, <2>2 DEF UnderWay
    <3>2. r # p
      BY <1>6, <1>7, <1>12, <3>1
    <3> QED BY <1>7, <3>1, <3>2 DEF UnderWay
  <2>4. Cardinality(Overruns(k)) + Cardinality(UnderWay(k)) <= Cardinality(Preparer)
    BY <2>1 DEF DraftIInv, OverrunsBounded
  <2>5. UnderWay(k) \subseteq Preparer /\ Overruns(k) \subseteq Of(k)
    BY DEF UnderWay, Overruns
  <2>6. IsFiniteSet(Overruns(k))
    BY <1>12, <2>5, FS_Subset
  <2> QED BY <2>1, <2>3, <2>4, <2>5, <2>6, FewerUnderWay
<1> QED BY <1>4, <1>9, <1>10, <1>11, <1>15, <1>17, <1>18, PointersStay DEF DraftIInv

(* A settlement measures the request of the process and no other. *)
LEMMA Settled ==
    ASSUME DraftIInv, NEW p \in Preparer, Settle(p),
           NEW r \in Nat, r = preparing[p].request
    PROVE  /\ requests' \in Seq(Request) /\ Len(requests') = Len(requests)
           /\ r \in DOMAIN requests /\ DOMAIN requests' = DOMAIN requests
           /\ \A q \in DOMAIN requests : q # r => requests'[q] = requests[q]
           /\ requests'[r].month = requests[r].month /\ requests'[r].reserved = requests[r].reserved
           /\ requests'[r].actual = billed[r] /\ billed[r] \in Nat
           /\ requests'[r].status = IF IsOverrun(r, billed[r]) THEN "overrun" ELSE "settled"
           /\ requests[r].actual = Unmeasured /\ requests[r].status = "reserved"
<1>1. preparing[p].step = "settle"
  BY DEF Settle, At
<1>2. /\ r \in DOMAIN requests /\ requests[r].actual = Unmeasured
      /\ preparing[p].cost = billed[r]
  BY <1>1 DEF DraftIInv, InHand, HeldSteps
<1>3. /\ DOMAIN requests = 1 .. Len(requests) /\ Len(requests) \in Nat
      /\ requests \in Seq(Request) /\ requests[r] \in Request
      /\ billed[r] \in Nat /\ requests[r].status = "reserved"
  BY <1>2, RequestFacts, AmountsNat DEF DraftIInv, DraftTypeOK, Measured
<1> DEFINE status == IF IsOverrun(r, billed[r]) THEN "overrun" ELSE "settled"
           new == [requests[r] EXCEPT !.actual = billed[r], !.status = status]
           t == [requests EXCEPT ![r] = new]
<1>4. requests' = t
  BY <1>2 DEF Settle
<1>5. status \in {"settled", "overrun"}
  OBVIOUS
<1>6. /\ new \in Request /\ new.month = requests[r].month /\ new.reserved = requests[r].reserved
      /\ new.actual = billed[r] /\ new.status = status
  <2> HIDE DEF status
  <2> QED BY <1>3, <1>5 DEF Request
<1> HIDE DEF new
<1>7. /\ t \in Seq(Request) /\ Len(t) = Len(requests)
      /\ \A q \in 1 .. Len(requests) : t[q] = IF q = r THEN new ELSE requests[q]
  BY <1>2, <1>3, <1>6, ExceptSeq
<1> HIDE DEF t
<1>8. DOMAIN requests' = DOMAIN requests
  BY <1>3, <1>4, <1>7
<1>9. requests'[r] = new /\ \A q \in DOMAIN requests : q # r => requests'[q] = requests[q]
  BY <1>2, <1>3, <1>4, <1>7
<1>10. new.status = IF IsOverrun(r, billed[r]) THEN "overrun" ELSE "settled"
  BY <1>6
<1> HIDE DEF status
<1> QED BY <1>2, <1>3, <1>4, <1>6, <1>7, <1>8, <1>9, <1>10

LEMMA SettleInv ==
    ASSUME DraftIInv, NEW p \in Preparer, Settle(p)
    PROVE  DraftIInv'
<1>1. preparing[p].step = "settle"
  BY DEF Settle, At
<1>2. PICK r \in Nat : r = preparing[p].request /\ r \in DOMAIN requests
  <2>1. preparing[p].request \in Nat /\ preparing[p].request \in DOMAIN requests
    BY <1>1, StateFacts DEF DraftIInv, InHand, HeldSteps
  <2> QED BY <2>1
<1>3. /\ requests' \in Seq(Request) /\ Len(requests') = Len(requests)
      /\ DOMAIN requests' = DOMAIN requests
      /\ \A q \in DOMAIN requests : q # r => requests'[q] = requests[q]
      /\ requests'[r].month = requests[r].month /\ requests'[r].reserved = requests[r].reserved
      /\ requests'[r].actual = billed[r] /\ billed[r] \in Nat
      /\ requests'[r].status = IF IsOverrun(r, billed[r]) THEN "overrun" ELSE "settled"
      /\ requests[r].actual = Unmeasured /\ requests[r].status = "reserved"
  BY <1>2, Settled
<1>4. PICK m \in Month : m = requests[r].month
  BY <1>2, RequestFacts DEF DraftIInv
<1>5. /\ DraftTypeOK /\ Measured /\ InHand /\ costs \in [Month -> Nat]
      /\ requests[r].reserved \in Nat
  BY <1>2, RequestFacts DEF DraftIInv, DraftTypeOK
<1>6. /\ billed' = billed /\ drafts' = drafts /\ pointers' = pointers
      /\ costs' = [costs EXCEPT ![m] = costs[m] - requests[r].reserved + billed[r]]
  <2>1. preparing[p].cost = billed[r]
    BY <1>1, <1>2 DEF DraftIInv, InHand, HeldSteps
  <2> QED BY <1>2, <1>4, <2>1 DEF Settle, SettledAmount, fileVars
<1>7. requests'[r].status = "settled" => billed[r] <= requests[r].reserved
  BY <1>3, <1>5 DEF IsOverrun
<1>8. PICK s : /\ Goes(p, s) /\ s \in PreparerState /\ s.step \in {"idle", "draft"}
               /\ s.step = "draft" => s.request = r
  <2> DEFINE d == preparing[p].doc
             s == IF IsOverrun(r, preparing[p].cost) THEN Resting
                  ELSE [step |-> "draft", doc |-> d, request |-> r]
  <2>1. Goes(p, s)
    BY <1>2 DEF Settle
  <2>2. d \in Document /\ r \in Nat \ {0}
    BY <1>1, <1>2, StateFacts DEF DraftIInv, HeldSteps
  <2> HIDE DEF d
  <2>3. [step |-> "draft", doc |-> d, request |-> r] \in PreparerState /\ Resting \in PreparerState
    BY <2>2 DEF PreparerState
  <2>4. s \in PreparerState /\ s.step \in {"idle", "draft"} /\ (s.step = "draft" => s.request = r)
    BY <2>3 DEF Resting
  <2> HIDE DEF s
  <2> QED BY <2>1, <2>4
<1>9. /\ preparing'[p] = s
      /\ \A w \in Preparer \ {p} : preparing'[w] = preparing[w]
      /\ preparing' \in [Preparer -> PreparerState]
  BY <1>8, OneMoves DEF DraftIInv
<1>10. InHand'
  <2>1. /\ preparing[p].step \in HeldSteps /\ s.step \notin {"call", "settle", "pointer"}
        /\ s.step \in HeldSteps => s.request = preparing[p].request
    BY <1>1, <1>2, <1>8 DEF HeldSteps
  <2>2. \A q \in DOMAIN requests : q # preparing[p].request =>
          requests'[q] = requests[q] /\ billed'[q] = billed[q]
    BY <1>2, <1>3, <1>6
  <2>3. s.step # "settle" /\ s.step # "pointer" /\ drafts \subseteq drafts'
    BY <1>6, <2>1
  <2> QED BY <1>3, <1>8, <2>1, <2>2, <2>3, HandGoesOn
<1>11. Measured'
  <2>1. Len(billed') = Len(requests')
    BY <1>3, <1>5, <1>6 DEF Measured
  <2>2. ASSUME NEW q \in DOMAIN requests'
        PROVE  /\ requests'[q].status = "reserved" <=> requests'[q].actual = Unmeasured
               /\ requests'[q].actual # Unmeasured => requests'[q].actual = billed'[q]
               /\ requests'[q].status = "settled" => requests'[q].actual <= requests'[q].reserved
    <3>1. CASE q = r
      <4>1. requests'[r].status # "reserved" /\ requests'[r].actual # Unmeasured
        BY <1>3 DEF Unmeasured
      <4> QED BY <1>3, <1>6, <1>7, <3>1, <4>1
    <3>2. CASE q # r
      <4>1. q \in DOMAIN requests /\ requests'[q] = requests[q] /\ billed'[q] = billed[q]
        BY <1>3, <1>6, <3>2
      <4> QED BY <1>5, <4>1 DEF Measured
    <3> QED BY <3>1, <3>2
  <2> QED BY <2>1, <2>2 DEF Measured
<1>12. ASSUME NEW k
       PROVE  /\ Of(k)' = Of(k) /\ Of(k) \subseteq DOMAIN requests /\ IsFiniteSet(Of(k))
              /\ r \in Of(k) <=> k = m
  <2>1. \A q \in DOMAIN requests : requests'[q].month = requests[q].month
    BY <1>3
  <2>2. Of(k)' = Of(k) /\ Of(k) \subseteq DOMAIN requests /\ (r \in Of(k) <=> k = m)
    BY <1>2, <1>3, <1>4, <2>1 DEF Of
  <2> QED BY <1>5, <2>2, RequestFacts
<1>13. /\ \A q \in DOMAIN requests : q # r =>
             Accounted'[q] = Accounted[q] /\ Committed'[q] = Committed[q]
       /\ Accounted[r] = requests[r].reserved /\ Accounted'[r] = billed[r]
       /\ Committed[r] = requests[r].reserved
       /\ Committed'[r] \in Nat /\ Committed'[r] <= requests[r].reserved
  BY <1>2, <1>3, <1>5, <1>6 DEF Accounted, Committed, WithinEstimate, Unmeasured
<1>14. \A q \in DOMAIN requests : Accounted[q] \in Nat /\ Committed[q] \in Nat
  BY <1>5, AmountsNat
<1>15. costs'[m] = Total(Accounted', Of(m)) /\ costs'[m] \in Nat
  <2>1. costs[m] = Total(Accounted, Of(m))
    BY DEF DraftIInv, LedgerBalances
  <2>2. r \in Of(m) /\ IsFiniteSet(Of(m)) /\ Of(m) \subseteq DOMAIN requests
    BY <1>12
  <2>3. \A q \in Of(m) : Accounted[q] \in Nat /\ Accounted'[q] \in Nat
    BY <1>3, <1>13, <1>14, <2>2
  <2>4. /\ Total(Accounted, Of(m)) = Total(Accounted, Of(m) \ {r}) + Accounted[r]
        /\ Total(Accounted, Of(m) \ {r}) \in Nat
    BY <2>2, <2>3, TotalApart
  <2>5. Total(Accounted', Of(m)) = Total(Accounted', Of(m) \ {r}) + Accounted'[r]
    BY <2>2, <2>3, TotalApart
  <2>6. Total(Accounted', Of(m) \ {r}) = Total(Accounted, Of(m) \ {r})
    BY <1>13, <2>2, TotalSame
  <2>7. costs'[m] = costs[m] - requests[r].reserved + billed[r]
    BY <1>5, <1>6
  <2> QED BY <1>3, <1>5, <1>13, <2>1, <2>4, <2>5, <2>6, <2>7
<1>16. LedgerBalances'
  <2>1. ASSUME NEW k \in Month, k # m PROVE costs'[k] = Total(Accounted', Of(k))
    <3>1. costs'[k] = costs[k] /\ costs[k] = Total(Accounted, Of(k))
      BY <1>5, <1>6, <2>1 DEF DraftIInv, LedgerBalances
    <3>2. Total(Accounted', Of(k)) = Total(Accounted, Of(k))
      BY <1>12, <1>13, <2>1, TotalSame
    <3> QED BY <3>1, <3>2
  <2>2. \A k \in Month : costs'[k] = Total(Accounted', Of(k)')
    BY <1>12, <1>15, <2>1
  <2> QED BY <2>2 DEF LedgerBalances
<1>17. CommittedWithinBudget'
  <2>1. ASSUME NEW k \in Month PROVE Total(Committed', Of(k)') <= Budget
    <3>1. \A q \in Of(k) : Committed[q] \in Nat /\ Committed'[q] \in Nat /\ Committed'[q] <= Committed[q]
      BY <1>12, <1>13, <1>14
    <3>2. Total(Committed', Of(k)) <= Total(Committed, Of(k))
      BY <1>12, <3>1, TotalLeq
    <3>3. Total(Committed, Of(k)) \in Nat /\ Total(Committed', Of(k)) \in Nat
      BY <1>12, <3>1, TotalIsNat
    <3>4. Total(Committed, Of(k)) <= Budget
      BY DEF DraftIInv, CommittedWithinBudget
    <3> QED BY <1>12, <3>2, <3>3, <3>4, DraftAssumption
  <2> QED BY <2>1 DEF CommittedWithinBudget
<1>18. OverrunsBounded'
  <2> SUFFICES ASSUME NEW k \in Month, Overruns(k)' # {}
               PROVE  Cardinality(Overruns(k)') + Cardinality(UnderWay(k)') <= Cardinality(Preparer)
    BY DEF OverrunsBounded
  <2>1. UnderWay(k)' \subseteq UnderWay(k) \ {p}
    <3> SUFFICES ASSUME NEW w \in UnderWay(k)' PROVE w \in UnderWay(k) \ {p}
      OBVIOUS
    <3>1. w \in Preparer /\ preparing'[w].step \in {"call", "settle"} /\ preparing'[w].request \in Of(k)
      BY <1>12 DEF UnderWay
    <3>2. w # p
      BY <1>8, <1>9, <3>1
    <3> QED BY <1>9, <3>1, <3>2 DEF UnderWay
  <2>2. UnderWay(k) \subseteq Preparer /\ Overruns(k) \subseteq Of(k)
    BY DEF UnderWay, Overruns
  <2>3. IsFiniteSet(Overruns(k)) /\ IsFiniteSet(UnderWay(k)) /\ IsFiniteSet(Preparer)
    BY <1>12, <2>2, FS_Subset, DraftAssumption
  <2>4. /\ Cardinality(Overruns(k)) \in Nat /\ Cardinality(UnderWay(k)) \in Nat
        /\ Cardinality(Preparer) \in Nat /\ Cardinality(UnderWay(k)) <= Cardinality(Preparer)
    BY <2>2, <2>3, FS_CardinalityType, FS_Subset
  <2>5. Overruns(k) # {} => Cardinality(Overruns(k)) + Cardinality(UnderWay(k)) <= Cardinality(Preparer)
    BY DEF DraftIInv, OverrunsBounded
  <2>6. r \notin Overruns(k)
    BY <1>3 DEF Overruns
  <2>7. \A q : q # r => (q \in Overruns(k)' <=> q \in Overruns(k))
    BY <1>3, <1>12 DEF Overruns
  <2>8. CASE r \notin Overruns(k)'
    <3>1. Overruns(k)' = Overruns(k)
      BY <2>6, <2>7, <2>8
    <3> QED BY <2>1, <2>2, <2>3, <2>5, <3>1, FewerUnderWay
  <2>9. CASE r \in Overruns(k)'
    <3>1. Overruns(k)' = Overruns(k) \cup {r}
      BY <2>6, <2>7, <2>9
    <3>2. Cardinality(Overruns(k)') = Cardinality(Overruns(k)) + 1
      BY <2>3, <2>6, <3>1, FS_AddElement
    <3>3. p \in UnderWay(k)
      <4>1. r \in Of(k)
        BY <1>12, <2>9 DEF Overruns
      <4> QED BY <1>1, <1>2, <4>1 DEF UnderWay
    <3>4. /\ IsFiniteSet(UnderWay(k) \ {p})
          /\ Cardinality(UnderWay(k) \ {p}) = Cardinality(UnderWay(k)) - 1
      BY <2>3, <3>3, FS_RemoveElement
    <3>5. Cardinality(UnderWay(k)') <= Cardinality(UnderWay(k)) - 1
      BY <2>1, <3>4, FS_Subset
    <3>6. Cardinality(UnderWay(k)') \in Nat
      BY <2>1, <3>4, FS_Subset, FS_CardinalityType
    <3>7. Overruns(k) = {} => Cardinality(Overruns(k)) = 0
      BY FS_EmptySet
    <3> QED BY <2>4, <2>5, <3>2, <3>5, <3>6, <3>7
  <2> QED BY <2>8, <2>9
<1>19. DraftTypeOK'
  <2>1. costs' \in [Month -> Nat]
    BY <1>5, <1>6, <1>15
  <2> QED BY <1>3, <1>5, <1>6, <1>9, <2>1 DEF DraftTypeOK
<1> QED BY <1>6, <1>10, <1>11, <1>16, <1>17, <1>18, <1>19, PointersStay DEF DraftIInv

LEMMA DraftInitHolds == DraftInit => DraftIInv
<1> SUFFICES ASSUME DraftInit PROVE DraftIInv
  OBVIOUS
<1>1. /\ costs = [m \in Month |-> 0] /\ requests = <<>> /\ billed = <<>>
      /\ preparing = [p \in Preparer |-> Resting] /\ drafts = {} /\ pointers = {}
  BY DEF DraftInit
<1>2. DraftTypeOK
  <2>1. preparing \in [Preparer -> PreparerState]
    BY <1>1 DEF PreparerState
  <2> QED BY <1>1, <2>1 DEF DraftTypeOK
<1>3. InHand /\ Measured /\ PointerNamesDraft
  <2>1. \A p \in Preparer : preparing[p].step = "idle"
    BY <1>1 DEF Resting
  <2>2. DOMAIN requests = {} /\ Len(billed) = Len(requests)
    BY <1>1
  <2> QED BY <1>1, <2>1, <2>2 DEF InHand, Measured, PointerNamesDraft, HeldSteps
<1>4. ASSUME NEW m PROVE Of(m) = {}
  BY <1>1 DEF Of
<1>5. ASSUME NEW f PROVE Total(f, {}) = 0
  BY FS_EmptySet DEF Total, Won
<1>6. LedgerBalances /\ CommittedWithinBudget
  <2>1. ASSUME NEW m \in Month PROVE Total(Accounted, Of(m)) = 0 /\ Total(Committed, Of(m)) = 0
    BY <1>4, <1>5
  <2>2. \A m \in Month : costs[m] = 0
    BY <1>1
  <2> QED BY <2>1, <2>2, DraftAssumption DEF LedgerBalances, CommittedWithinBudget
<1>7. OverrunsBounded
  BY <1>4 DEF OverrunsBounded, Overruns
<1> QED BY <1>2, <1>3, <1>6, <1>7 DEF DraftIInv

(* Every step, or none. *)
LEMMA DraftStepHolds == DraftIInv /\ [DraftNext]_draftVars => DraftIInv'
<1> SUFFICES ASSUME DraftIInv, [DraftNext]_draftVars PROVE DraftIInv'
  OBVIOUS
<1>1. ASSUME NEW p \in Preparer, PreparerStep(p) PROVE DraftIInv'
  BY <1>1, LookUpInv, ReserveInv, ReserveRefusedInv, AnswerInv, CallFailsInv, SettleInv,
     WriteDraftInv, WritePointerInv, InterruptedInv DEF PreparerStep
<1>2. CASE UNCHANGED draftVars
  <2>1. /\ costs' = costs /\ requests' = requests /\ billed' = billed /\ preparing' = preparing
        /\ drafts' = drafts /\ pointers' = pointers
    BY <1>2 DEF draftVars, ledgerVars, fileVars
  <2>2. DraftTypeOK' /\ InHand' /\ PointerNamesDraft'
    BY <2>1 DEF DraftIInv, DraftTypeOK, InHand, PointerNamesDraft
  <2>3. billed' \in Seq(Nat) /\ Len(billed') = Len(billed)
    BY <2>1 DEF DraftIInv, DraftTypeOK
  <2>4. Measured' /\ LedgerBalances' /\ CommittedWithinBudget' /\ OverrunsBounded'
    BY <2>1, <2>3, LedgerStays
  <2> QED BY <2>2, <2>4 DEF DraftIInv
<1> QED BY <1>1, <1>2 DEF DraftNext

(* What was billed within the estimates is part of what is committed. *)
LEMMA SpendIsCommitted == DraftIInv => SpendWithinEstimates
<1> SUFFICES ASSUME DraftIInv, NEW m \in Month PROVE Total(WithinEstimate, Of(m)) <= Budget
  BY DEF SpendWithinEstimates
<1>1. DraftTypeOK /\ Measured
  BY DEF DraftIInv
<1>2. IsFiniteSet(Of(m)) /\ Of(m) \subseteq DOMAIN requests
  BY <1>1, RequestFacts DEF Of
<1>3. \A q \in Of(m) : /\ WithinEstimate[q] \in Nat /\ Committed[q] \in Nat
                       /\ WithinEstimate[q] <= Committed[q]
  BY <1>1, <1>2, AmountsNat
<1>4. Total(WithinEstimate, Of(m)) <= Total(Committed, Of(m))
  BY <1>2, <1>3, TotalLeq
<1>5. Total(WithinEstimate, Of(m)) \in Nat /\ Total(Committed, Of(m)) \in Nat
  BY <1>2, <1>3, TotalIsNat
<1>6. Total(Committed, Of(m)) <= Budget
  BY DEF DraftIInv, CommittedWithinBudget
<1> QED BY <1>4, <1>5, <1>6, DraftAssumption

(* The ledger of paid drafts balances, keeps what is billed within the     *)
(* estimates below the budget, lets no overrun lead to further requests,   *)
(* and a pointer names a complete draft, for any documents, processes,     *)
(* months, charges and number of requests.                                 *)
THEOREM DraftsHold == DraftSpec => []DraftInv
<1>1. DraftInit => DraftIInv
  BY DraftInitHolds
<1>2. DraftIInv /\ [DraftNext]_draftVars => DraftIInv'
  BY DraftStepHolds
<1>3. DraftIInv => DraftInv
  BY SpendIsCommitted DEF DraftIInv, DraftInv
<1> QED BY <1>1, <1>2, <1>3, PTL DEF DraftSpec
=============================================================================
