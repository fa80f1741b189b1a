----------------------------- MODULE KnowledgePilot -----------------------------
(***************************************************************************)
(* The knowledge pilot: selected official pages, collected job by job.      *)
(*                                                                         *)
(*   collect_manifest --> for each document: the row of this job again, or  *)
(*                        a fetch, the original and a row; and with --s3    *)
(*                        a copy in S3                                      *)
(*   PilotStore       --> rows in memory, one file replaced at each commit  *)
(*   run              --> a report of the job, written once                 *)
(*   prepare_batch    --> a batch of the documents that the job has seen    *)
(*                                                                         *)
(* A process loads the rows when it opens the store and holds its lock to   *)
(* the end.  A job may be run again after it failed or died.  Files are     *)
(* linked or replaced whole; extraction is a function of an original.       *)
(***************************************************************************)
EXTENDS Integers, Sequences, FiniteSets

CONSTANTS Docs,         \* number of documents of the manifest
          PageVersion,      \* what a page can show
          PilotJob,     \* job ids
          Pilot,        \* processes that run the command
          PilotFaults   \* bound on failed calls and deaths

ASSUME PilotAssumption ==
    /\ Docs \in Nat \ {0} /\ PilotFaults \in Nat
    /\ "failed" \notin PageVersion

VARIABLES
    shows,      \* per document: the version at its source
    disk,       \* rows in pilot.sqlite3, in the order of their sequence
    pilot,      \* per process: its step, job, document and rows in memory
    holders,    \* processes that hold the lock of pilot.sqlite3
    originals,  \* <<document, version>>: files under raw/
    copies,     \* <<document, version>>: objects in S3
    reports,    \* per job: the rows in runs/<job>.json, if it is there
    batches,    \* per job: the batch file prepared from it, if any
    preserved,  \* jobs that a run with --s3 has taken to its report
    pilotFaults

outputs == <<originals, copies, reports, batches, preserved>>
pilotVars == <<shows, disk, pilot, holders, outputs, pilotFaults>>

PilotDoc == 1 .. Docs
NoContent == "failed"
PilotRow == [doc : PilotDoc, job : PilotJob, version : PageVersion \cup {NoContent}, changed : BOOLEAN]
NoPilot == [step |-> "off"]
Collecting ==
    [step : {"document", "original", "row", "failure", "copy", "report", "prepare"},
     job : PilotJob, s3 : BOOLEAN,
     doc : PilotDoc, got : PageVersion \cup {NoContent}, rows : Seq(PilotRow)]

(* The rows of a job, by their sequence. *)
RowsOf(rows, job) == [i \in {k \in DOMAIN rows : rows[k].job = job} |-> rows[i]]

PilotTypeOK ==
    /\ shows \in [PilotDoc -> PageVersion]
    /\ disk \in Seq(PilotRow)
    /\ pilot \in [Pilot -> {NoPilot} \cup Collecting]
    /\ holders \subseteq Pilot
    /\ originals \subseteq PilotDoc \X PageVersion /\ copies \subseteq PilotDoc \X PageVersion
    /\ reports \in [PilotJob -> SUBSET {RowsOf(disk, j) : j \in PilotJob}]
    /\ batches \in [PilotJob -> SUBSET [PilotDoc -> {<<>>} \cup (PageVersion \X Nat \X Nat)]]
    /\ preserved \subseteq PilotJob
    /\ pilotFaults \in 0 .. PilotFaults

PilotInit ==
    /\ shows \in [PilotDoc -> PageVersion]
    /\ disk = <<>>
    /\ pilot = [p \in Pilot |-> NoPilot]
    /\ holders = {}
    /\ originals = {} /\ copies = {}
    /\ reports = [j \in PilotJob |-> {}]
    /\ batches = [j \in PilotJob |-> {}]
    /\ preserved = {}
    /\ pilotFaults = 0

PageReplaced(d) ==
    /\ \E v \in PageVersion \ {shows[d]} : shows' = [shows EXCEPT ![d] = v]
    /\ UNCHANGED <<disk, pilot, holders, outputs, pilotFaults>>

-----------------------------------------------------------------------------
PilotFault == pilotFaults < PilotFaults /\ pilotFaults' = pilotFaults + 1
PilotAt(p, step) == pilot[p].step = step
PilotGoes(p, step, doc, got, rows) == pilot' = [pilot EXCEPT ![p] =
    [step |-> step, job |-> pilot[p].job, s3 |-> pilot[p].s3, doc |-> doc, got |-> got, rows |-> rows]]
PilotTurns(p, step) == PilotGoes(p, step, pilot[p].doc, pilot[p].got, pilot[p].rows)
PilotEnds(p) == pilot' = [pilot EXCEPT ![p] = NoPilot] /\ holders' = holders \ {p}
Doing(p) == <<pilot[p].doc, pilot[p].got>>

(* "pilot store busy" *)
StoreFree(p) == holders = {}

(* --s3 is given to a run or not, whatever earlier runs of the job had. *)
OpenStore(p, job, step, s3) ==
    /\ PilotAt(p, "off")
    /\ StoreFree(p)
    /\ holders' = holders \cup {p}
    /\ pilot' = [pilot EXCEPT ![p] =
           [step |-> step, job |-> job, s3 |-> s3, doc |-> 1, got |-> NoContent, rows |-> disk]]
    /\ UNCHANGED <<shows, disk, outputs, pilotFaults>>

Prior(p) == {i \in DOMAIN pilot[p].rows :
    pilot[p].rows[i].job = pilot[p].job /\ pilot[p].rows[i].doc = pilot[p].doc}

NextDocument(p) ==
    IF pilot[p].doc = Docs THEN PilotGoes(p, "report", pilot[p].doc, NoContent, pilot[p].rows)
    ELSE PilotGoes(p, "document", pilot[p].doc + 1, NoContent, pilot[p].rows)

(* A document that the job has a row for is not fetched again, failed or   *)
(* not; with --s3 the copy of its original is made, or made once more.     *)
ReplayStep(p) == \E i \in Prior(p) :
    IF pilot[p].rows[i].version = NoContent \/ ~pilot[p].s3 THEN NextDocument(p)
    ELSE PilotGoes(p, "copy", pilot[p].doc, pilot[p].rows[i].version, pilot[p].rows)

Replay(p) ==
    /\ PilotAt(p, "document") /\ Prior(p) # {}
    /\ ReplayStep(p)
    /\ UNCHANGED <<shows, disk, holders, outputs, pilotFaults>>

FetchPage(p) ==
    /\ PilotAt(p, "document") /\ Prior(p) = {}
    /\ \/ /\ PilotGoes(p, "original", pilot[p].doc, shows[pilot[p].doc], pilot[p].rows)
          /\ UNCHANGED pilotFaults
       \/ /\ PilotFault
          /\ PilotTurns(p, "failure")
    /\ UNCHANGED <<shows, disk, holders, outputs>>

(* Mutant: the row is stored first. *)
StoreOriginalLate(p) == UNCHANGED originals
StoreOriginal(p) == originals' = originals \cup {Doing(p)}

SaveOriginal(p) ==
    /\ PilotAt(p, "original")
    /\ StoreOriginal(p)
    /\ PilotTurns(p, "row")
    /\ UNCHANGED <<shows, disk, holders, copies, reports, batches, preserved, pilotFaults>>

(* The disk refuses the original: the job has failed for this document. *)
OriginalRefused(p) ==
    /\ PilotAt(p, "original")
    /\ PilotFault
    /\ PilotTurns(p, "failure")
    /\ UNCHANGED <<shows, disk, holders, outputs>>

Successes(rows, d) == {i \in DOMAIN rows : rows[i].doc = d /\ rows[i].version # NoContent}
Latest(S) == CHOOSE i \in S : \A j \in S : j <= i

ChangedFromLast(rows, d, v) ==
    Successes(rows, d) = {} \/ rows[Latest(Successes(rows, d))].version # v

(* Commit in memory, then the file is replaced. *)
InsertRow(p, version, step) ==
    LET new == [doc |-> pilot[p].doc, job |-> pilot[p].job, version |-> version,
                changed |-> version # NoContent
                            /\ ChangedFromLast(pilot[p].rows, pilot[p].doc, version)] IN
      /\ disk' = Append(pilot[p].rows, new)
      /\ PilotGoes(p, step, pilot[p].doc, pilot[p].got, Append(pilot[p].rows, new))

Observe(p) ==
    /\ PilotAt(p, "row")
    /\ InsertRow(p, pilot[p].got, IF pilot[p].s3 THEN "copy" ELSE "document")
    /\ UNCHANGED <<shows, holders, outputs, pilotFaults>>

RecordFailure(p) ==
    /\ PilotAt(p, "failure")
    /\ InsertRow(p, NoContent, "document")
    /\ UNCHANGED <<shows, holders, outputs, pilotFaults>>

CopyOriginal(p) ==
    /\ PilotAt(p, "copy")
    /\ copies' = copies \cup {Doing(p)}
    /\ NextDocument(p)
    /\ UNCHANGED <<shows, disk, holders, originals, reports, batches, preserved, pilotFaults>>

(* A report of the job that differs from what is there is a conflict. *)
WriteReport(p) ==
    /\ PilotAt(p, "report")
    /\ reports' = [reports EXCEPT ![pilot[p].job] =
           IF @ = {} THEN {RowsOf(pilot[p].rows, pilot[p].job)} ELSE @]
    /\ preserved' = IF pilot[p].s3 THEN preserved \cup {pilot[p].job} ELSE preserved
    /\ PilotEnds(p)
    /\ UNCHANGED <<shows, disk, originals, copies, batches, pilotFaults>>

(* A write, the copy or the file of the store fails and ends the run, or   *)
(* the process dies; its memory and its lock go.                           *)
PilotDies(p) ==
    /\ ~PilotAt(p, "off")
    /\ PilotFault
    /\ PilotEnds(p)
    /\ UNCHANGED <<shows, disk, outputs>>

-----------------------------------------------------------------------------
RowOf(rows, job, d) == CHOOSE i \in DOMAIN rows : rows[i].job = job /\ rows[i].doc = d
FirstSeen(rows, i) == CHOOSE j \in Successes(rows, rows[i].doc) :
    /\ rows[j].version = rows[i].version
    /\ \A k \in Successes(rows, rows[i].doc) : rows[k].version = rows[i].version => j <= k

(* Mutant: the latest change of the document, whichever row it is asked for. *)
TransitionLatest(rows, i) == Latest({j \in Successes(rows, rows[i].doc) : rows[j].changed})
(* The last change of the document up to this row. *)
Transition(rows, i) == Latest({j \in Successes(rows, rows[i].doc) : rows[j].changed /\ j <= i})

(* What identifies a batch: per document that was collected its version,   *)
(* the row that saw the version first, and the row that saw it come.       *)
BatchOf(rows, job) == [d \in PilotDoc |->
    LET i == RowOf(rows, job, d) IN
      IF rows[i].version = NoContent THEN <<>>
      ELSE <<rows[i].version, FirstSeen(rows, i), Transition(rows, i)>>]

AllSeen(rows, job) == \A d \in PilotDoc : \E i \in DOMAIN rows : rows[i].job = job /\ rows[i].doc = d

(* The batch file is written once; another batch of the job is a conflict. *)
Prepare(p) ==
    /\ PilotAt(p, "prepare")
    /\ batches' = [batches EXCEPT ![pilot[p].job] =
           IF @ = {} /\ AllSeen(pilot[p].rows, pilot[p].job)
           THEN {BatchOf(pilot[p].rows, pilot[p].job)} ELSE @]
    /\ PilotEnds(p)
    /\ UNCHANGED <<shows, disk, originals, copies, reports, preserved, pilotFaults>>

PilotStep(p) ==
    \/ \E job \in PilotJob, s3 \in BOOLEAN : OpenStore(p, job, "document", s3)
    \/ \E job \in PilotJob : OpenStore(p, job, "prepare", FALSE)
    \/ Replay(p) \/ FetchPage(p) \/ SaveOriginal(p) \/ OriginalRefused(p)
    \/ Observe(p) \/ RecordFailure(p) \/ CopyOriginal(p) \/ WriteReport(p)
    \/ Prepare(p) \/ PilotDies(p)

PilotNext ==
    \/ \E d \in PilotDoc : PageReplaced(d)
    \/ \E p \in Pilot : PilotStep(p)

PilotSpec == PilotInit /\ [][PilotNext]_pilotVars

-----------------------------------------------------------------------------
(* Every row of a collected page has its original, and rows of one job and *)
(* document do not repeat, wherever a run stopped and was run again.       *)
RowsSupported ==
    /\ \A i \in DOMAIN disk :
         disk[i].version # NoContent => <<disk[i].doc, disk[i].version>> \in originals
    /\ \A i, j \in DOMAIN disk :
         disk[i].job = disk[j].job /\ disk[i].doc = disk[j].doc => i = j

(* A version is dated by the row at which the page last came to show it:   *)
(* from there to the row in question the page never showed another, and    *)
(* before it showed another, also when an old text came back.              *)
ExactlyDated(rows, i) ==
    LET t == Transition(rows, i)
        seen == Successes(rows, rows[i].doc)
        before == {j \in seen : j < t} IN
      /\ \A j \in seen : t <= j /\ j <= i => rows[j].version = rows[i].version
      /\ before # {} => rows[Latest(before)].version # rows[i].version
TransitionsExact == \A i \in DOMAIN disk :
    disk[i].version # NoContent => ExactlyDated(disk, i)

(* What a finished job reported stays what the store knows of it: no later *)
(* run, of this job or another, loses or rewrites a row.                   *)
ReportsHold == \A j \in PilotJob : reports[j] \subseteq {RowsOf(disk, j)}

(* A batch that is prepared again from the same job is the same batch,     *)
(* whatever other jobs have seen in between.                               *)
BatchesRepeat == \A j \in PilotJob : \A b \in batches[j] : b = BatchOf(disk, j)

(* The originals of a job that a run with --s3 has taken to its report are *)
(* in S3, also those that earlier runs, without it or cut short, fetched.  *)
ReportedCopied == \A j \in preserved :
    \A i \in DOMAIN disk : disk[i].job = j /\ disk[i].version # NoContent =>
        <<disk[i].doc, disk[i].version>> \in copies

(* A job that is run again agrees with what its earlier runs left behind:  *)
(* rows, originals, copies and report.                                     *)
PilotConsistent == PilotTypeOK /\ RowsSupported /\ ReportsHold /\ ReportedCopied

(* A version is dated by its last appearance, also in a batch prepared     *)
(* later from an older job.                                                *)
VersionsDated == TransitionsExact /\ BatchesRepeat

(* Runs of a job agree with one another, and every version they dated is   *)
(* dated by its last appearance.                                           *)
PilotInv == PilotConsistent /\ VersionsDated
=============================================================================
