------------------------------- MODULE PageSync -------------------------------
(***************************************************************************)
(* ParliamentIngestionService on one source of the National Assembly API:  *)
(* a list of rows read page by page, saved with a checkpoint per page.     *)
(*                                                                         *)
(*   /run        saves every row from the checkpoint's page on             *)
(*   /sync       resets the checkpoint, reads every page, saves the rows   *)
(*               that changed and stamps every row it saw                  *)
(*   /reconcile  the same for a source without parameters                  *)
(*                                                                         *)
(* A complete sync of an authoritative list removes the records it did not *)
(* see.  The list may change between two fetches; a job may fail at any    *)
(* call or die with its process, and the process-wide guard lets one job   *)
(* run at a time.                                                          *)
(***************************************************************************)
EXTENDS Integers, Sequences, FiniteSets

CONSTANTS Record, Hash,   \* record keys; payload hashes
          Jobs,           \* the endpoints in use: of {"run", "sync", "reconcile"}
          PageSize,       \* the page sizes requests ask for
          PageCap,        \* maxPages of a request
          Authoritative,  \* is the source one of AUTHORITATIVE_SNAPSHOT_SOURCES
          Synced,         \* does the source start with a successful sync behind it
          MaxLength,      \* bound on the length of the list
          MaxMoves,       \* bound on changes of the list
          MaxFaults,      \* bound on failed calls and crashes
          None            \* no hash, no job

ASSUME PageSyncAssumption ==
    /\ Jobs \subseteq {"run", "sync", "reconcile"}
    /\ PageSize \subseteq Nat \ {0}
    /\ PageCap \in Nat \ {0}
    /\ Authoritative \in BOOLEAN /\ Synced \in BOOLEAN
    /\ MaxLength \in Nat /\ MaxMoves \in Nat /\ MaxFaults \in Nat
    /\ None \notin Hash

Item == Record \X Hash

VARIABLES
    upstream,   \* the API's list: a sequence of items, one per record
    stored,     \* parliament_source_record.payload_hash per record
    seen,       \* records whose last_seen_at is not before the start of this job
    checkpoint, \* parliament_ingestion_checkpoint
    sync,       \* parliament_source_sync_state; is its watermark not NULL
    job,        \* the job that holds the guard
    quiet,      \* history: the list did not change since the checkpoint was reset
    moves,      \* changes of the list so far
    faults      \* failed calls and crashes so far

dbVars == <<stored, seen, checkpoint, sync>>
listVars == <<upstream, quiet, moves>>
vars == <<dbVars, listVars, job, faults>>

(* What the API may list: no record twice. *)
Lists == {list \in UNION {[1..n -> Item] : n \in 0..MaxLength} :
              \A i, j \in DOMAIN list : list[i][1] = list[j][1] => i = j}

RecordsOf(list) == {list[i][1] : i \in DOMAIN list}
Listed == RecordsOf(upstream)

Steps == {"watermark", "start", "reset", "fetch", "save", "finalize", "done", "fail"}

TypeOK ==
    /\ upstream \in Lists
    /\ stored \in [Record -> Hash \cup {None}]
    /\ seen \subseteq Record
    /\ checkpoint \in [page : Nat \ {0}, complete : BOOLEAN]
    /\ sync \in [status : {"none", "RUNNING", "COMPLETE", "FAILED"}, watermark : BOOLEAN]
    /\ job \in [kind : Jobs, step : Steps, size : PageSize, page : Nat \ {0}, pages : Nat,
                rows : SUBSET Item, last : BOOLEAN] \cup {None}
    /\ quiet \in BOOLEAN
    /\ moves \in Nat
    /\ faults \in Nat

(* The checkpoint of a source without a row, and after a reset. *)
FirstPage == [page |-> 1, complete |-> FALSE]

Init ==
    /\ upstream \in Lists
    /\ stored = [r \in Record |-> None]
    /\ seen = {}
    /\ checkpoint = FirstPage
    /\ sync = [status |-> IF Synced THEN "COMPLETE" ELSE "none", watermark |-> Synced]
    /\ job = None
    /\ quiet = TRUE
    /\ moves = 0
    /\ faults = 0

-----------------------------------------------------------------------------
(* Rows of the list are added, leave, move or get a new payload.           *)
Move ==
    /\ moves < MaxMoves
    /\ moves' = moves + 1
    /\ upstream' \in Lists \ {upstream}
    /\ quiet' = FALSE
    /\ UNCHANGED <<dbVars, job, faults>>

-----------------------------------------------------------------------------
(* Jobs.                                                                   *)

At(step) == job # None /\ job.step = step
GoTo(step) == job' = [job EXCEPT !.step = step]
Syncing == job.kind \in {"sync", "reconcile"}

(* A job takes the guard; nothing has been seen since its start. *)
NewJob(kind, step, size, page) ==
    /\ job = None
    /\ job' = [kind |-> kind, step |-> step, size |-> size, page |-> page, pages |-> 0,
               rows |-> {}, last |-> FALSE]
    /\ seen' = {}
    /\ UNCHANGED <<stored, checkpoint, sync, upstream, quiet, moves, faults>>

(* /run goes on from the checkpoint; with a complete one it has no work. *)
StartRun(size) ==
    /\ "run" \in Jobs
    /\ ~checkpoint.complete
    /\ NewJob("run", "fetch", size, checkpoint.page)

StartSync(kind, size) ==
    /\ kind \in Jobs \ {"run"}
    /\ NewJob(kind, "watermark", size, 1)

(* lastSuccessfulSyncAt: a row whose watermark is still NULL is an error,  *)
(* since the mapping of a result row must not return null.                 *)
ReadWatermark ==
    /\ At("watermark")
    /\ GoTo(IF sync.status # "none" /\ ~sync.watermark THEN "fail" ELSE "start")
    /\ UNCHANGED <<dbVars, listVars, faults>>

MarkSyncStarted ==
    /\ At("start")
    /\ sync' = [sync EXCEPT !.status = "RUNNING"]
    /\ GoTo("reset")
    /\ UNCHANGED <<stored, seen, checkpoint, listVars, faults>>

(* Mutant: a sync goes on from the checkpoint, as a run does. *)
ResetCheckpointForgotten ==
    /\ At("reset")
    /\ job' = [job EXCEPT !.step = "fetch", !.page = checkpoint.page]
    /\ UNCHANGED <<dbVars, listVars, faults>>

ResetCheckpoint ==
    /\ At("reset")
    /\ checkpoint' = FirstPage
    /\ quiet' = TRUE
    /\ GoTo("fetch")
    /\ UNCHANGED <<stored, seen, sync, upstream, moves, faults>>

PageRows == {upstream[i] : i \in {j \in DOMAIN upstream :
                (job.page - 1) * job.size < j /\ j <= job.page * job.size}}

(* Mutant: a full page counts as a short one. *)
IsCompleteOffByOne == Cardinality(PageRows) <= job.size

(* A short page is the last one, and so is one that reaches the total. *)
IsComplete ==
    \/ Len(upstream) < job.page * job.size
    \/ Len(upstream) > 0 /\ job.page * job.size >= Len(upstream)

(* Mutant: the checkpoint moves when the page is fetched. *)
FetchMovesCheckpoint ==
    /\ At("fetch")
    /\ job' = [job EXCEPT !.step = "save", !.rows = PageRows, !.last = IsComplete]
    /\ checkpoint' = [page |-> job.page + 1, complete |-> IsComplete]
    /\ UNCHANGED <<stored, seen, sync, listVars, faults>>

Fetch ==
    /\ At("fetch")
    /\ job' = [job EXCEPT !.step = "save", !.rows = PageRows, !.last = IsComplete]
    /\ UNCHANGED <<dbVars, listVars, faults>>

Fetched == {row[1] : row \in job.rows}
HashOf(r) == CHOOSE h \in Hash : <<r, h>> \in job.rows

(* Mutant: a row that did not change is not stamped. *)
SaveRowsChangedOnly ==
    /\ stored' = [r \in Record |-> IF r \in Fetched THEN HashOf(r) ELSE stored[r]]
    /\ seen' = seen \cup {r \in Fetched : stored[r] # HashOf(r)}

(* New and changed rows are saved, unchanged rows are stamped as seen. *)
SaveRows ==
    /\ stored' = [r \in Record |-> IF r \in Fetched THEN HashOf(r) ELSE stored[r]]
    /\ seen' = seen \cup Fetched

NextPage == IF job.last THEN job.page ELSE job.page + 1

(* One transaction: the rows of the page and its checkpoint. *)
CommitPage ==
    /\ SaveRows
    /\ checkpoint' = [page |-> NextPage, complete |-> job.last]
    /\ UNCHANGED sync

AfterPage ==
    IF job.last THEN IF Syncing /\ Authoritative THEN "finalize" ELSE "done"
    ELSE IF job.pages + 1 < PageCap THEN "fetch"
    ELSE IF Syncing THEN "fail" ELSE "done"

SavePage ==
    /\ At("save")
    /\ CommitPage
    /\ job' = [job EXCEPT !.step = AfterPage, !.rows = {}, !.page = NextPage, !.pages = @ + 1]
    /\ UNCHANGED <<listVars, faults>>

(* finalizeSourceSnapshot, one transaction: what this sync did not see goes. *)
RemoveUnseen ==
    /\ stored' = [r \in Record |-> IF r \in seen THEN stored[r] ELSE None]
    /\ UNCHANGED <<seen, checkpoint, sync>>

Finalize ==
    /\ At("finalize")
    /\ RemoveUnseen
    /\ GoTo("done")
    /\ UNCHANGED <<listVars, faults>>

Completed ==
    /\ sync' = [status |-> "COMPLETE", watermark |-> TRUE]
    /\ UNCHANGED <<stored, seen, checkpoint>>

(* The guard is released. *)
EndJob == job' = None /\ UNCHANGED listVars

RunDone ==
    /\ At("done") /\ ~Syncing
    /\ EndJob
    /\ UNCHANGED <<dbVars, faults>>

MarkSyncCompleted ==
    /\ At("done") /\ Syncing
    /\ Completed
    /\ EndJob
    /\ UNCHANGED faults

(* An UPDATE: there is nothing to mark when the source has no row yet. *)
MarkSyncFailed ==
    /\ At("fail")
    /\ sync' = [sync EXCEPT !.status = IF @ = "none" THEN @ ELSE "FAILED"]
    /\ EndJob
    /\ UNCHANGED <<stored, seen, checkpoint, faults>>

(* A call to the API or the database raises, a database call with or       *)
(* without its effect.  A sync goes on to mark itself failed, and drops    *)
(* the error when that fails too; a run's report is all there is.          *)
CallRaises ==
    /\ job # None
    /\ faults < MaxFaults /\ faults' = faults + 1
    /\ \/ UNCHANGED dbVars
       \/ At("save") /\ CommitPage
       \/ At("finalize") /\ RemoveUnseen
       \/ At("done") /\ Syncing /\ Completed
    /\ IF Syncing /\ job.step # "fail"
       THEN job' = [job EXCEPT !.step = "fail", !.rows = {}] /\ UNCHANGED listVars
       ELSE EndJob

(* The process dies, and the guard with it. *)
Crash ==
    /\ job # None
    /\ faults < MaxFaults /\ faults' = faults + 1
    /\ EndJob
    /\ UNCHANGED dbVars

-----------------------------------------------------------------------------
JobStep ==
    \/ ReadWatermark
    \/ MarkSyncStarted
    \/ ResetCheckpoint
    \/ Fetch
    \/ SavePage
    \/ Finalize
    \/ RunDone
    \/ MarkSyncCompleted
    \/ MarkSyncFailed

Start ==
    \/ \E size \in PageSize : StartRun(size)
    \/ \E kind \in Jobs, size \in PageSize : StartSync(kind, size)

Next == Move \/ Start \/ JobStep \/ CallRaises \/ Crash

Spec == Init /\ [][Next]_vars

(* The scheduler starts a sync again and again, and a job goes on. *)
Fairness ==
    /\ WF_vars(JobStep)
    /\ \A size \in PageSize : WF_vars(StartSync("sync", size))

FairSpec == Spec /\ Fairness

-----------------------------------------------------------------------------
Covered(n) == \A i \in DOMAIN upstream : i <= n => stored[upstream[i][1]] = upstream[i][2]

(* Requests do not disagree on the page size. *)
OnePageSize == \A a, b \in PageSize : a = b

(* While the list stays as it was when the checkpoint was reset, every row *)
(* of the pages before the checkpoint is stored with its payload, and a    *)
(* complete checkpoint means the whole list is: resuming /run after any    *)
(* interruption skips nothing, as long as requests have one page size.     *)
CheckpointCovers ==
    quiet => \A size \in PageSize :
        /\ Covered((checkpoint.page - 1) * size)
        /\ checkpoint.complete => Covered(Len(upstream))

(* A sync that completes over a quiet list leaves the store equal to it:   *)
(* every row with its payload, and no other record of an authoritative one.*)
SyncedMeansExact ==
    quiet /\ At("done") /\ Syncing =>
        /\ Covered(Len(upstream))
        /\ Authoritative => \A r \in Record \ Listed : stored[r] = None

(* The inductive invariant behind them: over a quiet list a job carries    *)
(* the page it fetched, its checkpoint is its own, and a sync has seen the *)
(* rows before its page and nothing that is not listed.                    *)
OwnCheckpoint ==
    /\ At("watermark") \/ At("start") \/ At("reset") => job.page = 1
    /\ At("fetch") \/ At("save") => job.page = checkpoint.page

HoldsPage == quiet /\ At("save") => job.rows = PageRows /\ job.last = IsComplete

SeenBefore(n) == \A i \in DOMAIN upstream : i <= n => upstream[i][1] \in seen

SeenByStep ==
    /\ At("watermark") \/ At("start") \/ At("reset") => seen = {}
    /\ quiet /\ (At("fetch") \/ At("save")) /\ Syncing =>
           seen \subseteq Listed /\ SeenBefore((job.page - 1) * job.size)
    /\ quiet /\ At("finalize") =>
           /\ seen \subseteq Listed /\ SeenBefore(Len(upstream))
           /\ Syncing /\ Covered(Len(upstream))

IInv ==
    /\ TypeOK
    /\ CheckpointCovers
    /\ OwnCheckpoint
    /\ HoldsPage
    /\ SeenByStep
    /\ SyncedMeansExact

(* Over a quiet list no record that is still listed is ever removed.       *)
QuietRemoval ==
    [][\A r \in Record : quiet /\ stored[r] # None /\ stored'[r] = None => r \notin Listed]_vars

(* Once the list stops changing and calls stop failing, the scheduled sync *)
(* brings the store up to date with it for good.                           *)
CatchesUp == <>[](Covered(Len(upstream)))

-----------------------------------------------------------------------------
(* A statement of the documentation the code does not keep.                *)

(* README.md:117 "/reconcile compares every parent whatever the            *)
(* watermark": it does not fail for what the watermark is.                 *)
ReconcileIgnoresWatermark ==
    [][At("watermark") /\ job.kind = "reconcile" /\ job' # None /\ faults' = faults
          => job'.step # "fail"]_vars
=============================================================================
