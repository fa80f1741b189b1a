------------------------------ MODULE RawDocuments ------------------------------
(***************************************************************************)
(* Government articles: collected, kept as originals, imported as events.   *)
(*                                                                         *)
(*   collect           --> the articles that the list and its pages show    *)
(*   LocalRawStore     --> raw file, metadata file, row of the raw index    *)
(*   process_documents --> one structural event per original                *)
(*   BackendPublisher  --> imports each event; S3RawStore uploads originals *)
(*                                                                         *)
(* Runs of "collect --output --publish --s3" share one directory; they may *)
(* overlap, and each can die between any two of its steps.  A file is      *)
(* created exclusively first and written then.  An original is an edition  *)
(* of an article, content addressed; the listing's fields are part of it.  *)
(***************************************************************************)
EXTENDS Integers, Sequences, FiniteSets

CONSTANTS Article,
          Edition,      \* what an article's page can show
          Withheld,     \* editions without permission or publication date
          Collector,    \* processes that run the command
          LastSight,    \* bound on the times of collection
          MaxDeaths     \* bound on processes that die

ASSUME RawAssumption ==
    /\ Withheld \subseteq Edition
    /\ LastSight \in Nat \ {0}
    /\ MaxDeaths \in Nat

VARIABLES
    page,       \* per article: the edition its page shows
    now,        \* the time, 1 first
    rawFile,    \* per original: "none", "partial" or "whole"
    metaFile,   \* per original: Absent, Partial, or the time it was first seen
    rawIndex,   \* rows of raw_versions in the order of their sequence
    run,        \* per process: its step and what it has in hand
    imported,   \* events in the backend's review queue
    bucket,     \* originals in the S3 bucket
    deaths

storeVars == <<rawFile, metaFile, rawIndex>>
outVars == <<imported, bucket>>
rawVars == <<page, now, storeVars, run, outVars, deaths>>

Original == Article \X Edition
Absent == -1
Partial == 0
Sight == 1 .. LastSight
RawEvent == [original : Original, collectedAt : Sight, corrected : BOOLEAN]

Unused == [step |-> "off"]
RunState == {Unused} \cup
    [step : {"raw", "rawOpen", "meta", "metaOpen", "index", "event", "import", "upload"},
     at : Sight, todo : Seq(Original), done : Seq(Original), events : Seq(RawEvent)]

RawTypeOK ==
    /\ page \in [Article -> Edition]
    /\ now \in Sight
    /\ rawFile \in [Original -> {"none", "partial", "whole"}]
    /\ metaFile \in [Original -> Sight \cup {Absent, Partial}]
    /\ rawIndex \in Seq(Original)
    /\ run \in [Collector -> RunState]
    /\ imported \subseteq RawEvent
    /\ bucket \subseteq Original
    /\ deaths \in 0 .. MaxDeaths

RawInit ==
    /\ page \in [Article -> Edition]
    /\ now = 1
    /\ rawFile = [o \in Original |-> "none"]
    /\ metaFile = [o \in Original |-> Absent]
    /\ rawIndex = <<>>
    /\ run = [c \in Collector |-> Unused]
    /\ imported = {}
    /\ bucket = {}
    /\ deaths = 0

(* The ministry replaces the page of an article, possibly by an old text. *)
PageChanges(a) ==
    /\ \E e \in Edition \ {page[a]} : page' = [page EXCEPT ![a] = e]
    /\ UNCHANGED <<now, storeVars, run, outVars, deaths>>

TimePasses ==
    /\ now < LastSight
    /\ now' = now + 1
    /\ UNCHANGED <<page, storeVars, run, outVars, deaths>>

AtStep(c, step) == run[c].step = step
Current(c) == Head(run[c].todo)
Becomes(c, state) == run' = [run EXCEPT ![c] = state]
Holding(c, step, todo, done, events) ==
    Becomes(c, [step |-> step, at |-> run[c].at, todo |-> todo, done |-> done, events |-> events])
Moves(c, step) == Holding(c, step, run[c].todo, run[c].done, run[c].events)

(* Articles of the window, each at most once, up to the record limit; a    *)
(* page that cannot be read is reported and left out.                      *)
Collected == {docs \in UNION {[1 .. n -> Original] : n \in 1 .. Cardinality(Article)} :
    /\ \A i \in DOMAIN docs : docs[i][2] = page[docs[i][1]]
    /\ \A i, j \in DOMAIN docs : i # j => docs[i][1] # docs[j][1]}

Collect(c) ==
    /\ AtStep(c, "off")
    /\ \E docs \in Collected :
         Becomes(c, [step |-> "raw", at |-> now, todo |-> docs, done |-> <<>>, events |-> <<>>])
    /\ UNCHANGED <<page, now, storeVars, outVars, deaths>>

(* A file that exists must hold the bytes of the original. *)
RawConflict(c) == rawFile[Current(c)] = "partial"

OpenRaw(c) ==
    /\ AtStep(c, "raw")
    /\ ~RawConflict(c)
    /\ IF rawFile[Current(c)] = "none"
       THEN /\ rawFile' = [rawFile EXCEPT ![Current(c)] = "partial"]
            /\ Moves(c, "rawOpen")
       ELSE /\ Moves(c, "meta")
            /\ UNCHANGED rawFile
    /\ UNCHANGED <<page, now, metaFile, rawIndex, outVars, deaths>>

(* "immutable raw version conflict" ends the run: nothing is published. *)
RawRefused(c) ==
    /\ AtStep(c, "raw")
    /\ RawConflict(c)
    /\ Becomes(c, Unused)
    /\ UNCHANGED <<page, now, storeVars, outVars, deaths>>

FillRaw(c) ==
    /\ AtStep(c, "rawOpen")
    /\ rawFile' = [rawFile EXCEPT ![Current(c)] = "whole"]
    /\ Moves(c, "meta")
    /\ UNCHANGED <<page, now, metaFile, rawIndex, outVars, deaths>>

(* Mutant: each observation writes its own metadata. *)
OpenMetaAnew(c) ==
    /\ AtStep(c, "meta")
    /\ metaFile' = [metaFile EXCEPT ![Current(c)] = Partial]
    /\ Moves(c, "metaOpen")
    /\ UNCHANGED <<page, now, rawFile, rawIndex, outVars, deaths>>

(* The metadata of the first observation stays as it is. *)
OpenMeta(c) ==
    /\ AtStep(c, "meta")
    /\ IF metaFile[Current(c)] = Absent
       THEN /\ metaFile' = [metaFile EXCEPT ![Current(c)] = Partial]
            /\ Moves(c, "metaOpen")
       ELSE /\ Moves(c, "index")
            /\ UNCHANGED metaFile
    /\ UNCHANGED <<page, now, rawFile, rawIndex, outVars, deaths>>

FillMeta(c) ==
    /\ AtStep(c, "metaOpen")
    /\ metaFile' = [metaFile EXCEPT ![Current(c)] = run[c].at]
    /\ Moves(c, "index")
    /\ UNCHANGED <<page, now, rawFile, rawIndex, outVars, deaths>>

IsIndexed(o) == \E i \in DOMAIN rawIndex : rawIndex[i] = o

(* INSERT OR IGNORE: an original keeps the sequence of its first row. *)
Index(c) ==
    /\ AtStep(c, "index")
    /\ rawIndex' = IF IsIndexed(Current(c)) THEN rawIndex ELSE Append(rawIndex, Current(c))
    /\ Moves(c, "event")
    /\ UNCHANGED <<page, now, rawFile, metaFile, outVars, deaths>>

VersionsOf(a) == {i \in DOMAIN rawIndex : rawIndex[i][1] = a}

VersionNumber(o) ==
    Cardinality({i \in VersionsOf(o[1]) : \E j \in DOMAIN rawIndex : rawIndex[j] = o /\ i <= j})

(* The event of the original, dated by its first observation; an original  *)
(* that may not be reused only enters the report.                          *)
EventOf(o) == [original |-> o, collectedAt |-> metaFile[o], corrected |-> VersionNumber(o) > 1]

MetaReadable(c) == metaFile[Current(c)] # Partial

BuildEvent(c) ==
    /\ AtStep(c, "event")
    /\ MetaReadable(c)
    /\ LET o == Current(c)
           todo == Tail(run[c].todo) IN
         Holding(c, IF todo = <<>> THEN "import" ELSE "raw", todo, Append(run[c].done, o),
                 IF o[2] \in Withheld THEN run[c].events ELSE Append(run[c].events, EventOf(o)))
    /\ UNCHANGED <<page, now, storeVars, outVars, deaths>>

(* Metadata that was cut short, or is being written, cannot be parsed. *)
MetaUnreadable(c) ==
    /\ AtStep(c, "event")
    /\ ~MetaReadable(c)
    /\ Becomes(c, Unused)
    /\ UNCHANGED <<page, now, storeVars, outVars, deaths>>

(* One POST per event.  A refusal ends the run, whether or not the backend *)
(* had stored the event.                                                   *)
Import(c) ==
    /\ AtStep(c, "import")
    /\ run[c].events # <<>>
    /\ \/ /\ imported' = imported \cup {Head(run[c].events)}
          /\ Holding(c, "import", run[c].todo, run[c].done, Tail(run[c].events))
       \/ /\ imported' \in {imported, imported \cup {Head(run[c].events)}}
          /\ Becomes(c, Unused)
    /\ UNCHANGED <<page, now, storeVars, bucket, deaths>>

Imported(c) ==
    /\ AtStep(c, "import")
    /\ run[c].events = <<>>
    /\ Moves(c, "upload")
    /\ UNCHANGED <<page, now, storeVars, outVars, deaths>>

(* A conditional write per original; the last one ends the run. *)
Upload(c) ==
    /\ AtStep(c, "upload")
    /\ bucket' = bucket \cup {Head(run[c].done)}
    /\ IF Len(run[c].done) = 1 THEN Becomes(c, Unused)
       ELSE Holding(c, "upload", run[c].todo, Tail(run[c].done), run[c].events)
    /\ UNCHANGED <<page, now, storeVars, imported, deaths>>

Dies(c) ==
    /\ ~AtStep(c, "off")
    /\ deaths < MaxDeaths
    /\ deaths' = deaths + 1
    /\ Becomes(c, Unused)
    /\ UNCHANGED <<page, now, storeVars, outVars>>

CollectorStep(c) ==
    \/ Collect(c)
    \/ OpenRaw(c) \/ RawRefused(c) \/ FillRaw(c)
    \/ OpenMeta(c) \/ FillMeta(c) \/ Index(c)
    \/ BuildEvent(c) \/ MetaUnreadable(c)
    \/ Import(c) \/ Imported(c) \/ Upload(c) \/ Dies(c)

RawNext ==
    \/ \E a \in Article : PageChanges(a)
    \/ TimePasses
    \/ \E c \in Collector : CollectorStep(c)

RawSpec == RawInit /\ [][RawNext]_rawVars

-----------------------------------------------------------------------------
(* However often an original is collected, by overlapping runs, after      *)
(* deaths and after its page came back to an old text, its event is the    *)
(* same one, so that the backend takes a repeated import for a replay.     *)
OneEventPerOriginal ==
    \A e, f \in imported : e.original = f.original => e = f

(* An event is in the review queue only when the original it cites is kept *)
(* whole, with its metadata and its row.                                   *)
EvidenceBeforeEvent == \A e \in imported :
    /\ rawFile[e.original] = "whole"
    /\ metaFile[e.original] \in Sight
    /\ IsIndexed(e.original)

(* Of an article exactly the original that was indexed first is imported   *)
(* as an uncorrected event.                                                *)
CorrectionsMarked == \A e \in imported :
    e.corrected <=>
        \E i, j \in DOMAIN rawIndex :
            i < j /\ rawIndex[j] = e.original /\ rawIndex[i][1] = e.original[1]

(* The state is well typed, and every event the backend holds can be       *)
(* traced: it is the only one of its original, and the original is there.  *)
RawInv == RawTypeOK /\ CorrectionsMarked /\ OneEventPerOriginal /\ EvidenceBeforeEvent
=============================================================================
