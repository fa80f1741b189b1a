------------------------------ MODULE IngestionRuns ------------------------------
(***************************************************************************)
(* Jobs over several sources: a list of parents (bills) and the child      *)
(* sources that are asked once per parent (its reviews, its votes).        *)
(*                                                                         *)
(*   scheduler, controller     --> take the guard, start a run              *)
(*   ParliamentIngestionService--> one source after the other, parents      *)
(*                                 first, each with a row of the history    *)
(*   ParameterResolver         --> the parents a child source asks about    *)
(*   ParliamentDashboardService--> the state of the latest rows             *)
(*                                                                         *)
(* PageSync has the pages of one source; here a page or a variant is one   *)
(* step.  The guard lives in the process, the history in the database.     *)
(***************************************************************************)
EXTENDS Integers, Sequences, FiniteSets

CONSTANTS Bill,         \* identifiers of the parent list
          Child,        \* sources asked once per parent
          Refreshing,   \* CHILD_REFRESH_SOURCES among them
          Decided,      \* parents whose procedure has a result
          ScheduleOk,   \* does every scheduled request pass its validation
          Kinds,        \* the endpoints in use: of {"run", "sync", "reconcile"}
          MaxVersion,   \* bound on versions of a parent
          LastTick,     \* bound on the clock
          MaxRuns,      \* bound on runs
          MaxErrors     \* bound on failed calls and crashes

ASSUME RunsAssumption ==
    /\ "bills" \notin Child /\ IsFiniteSet(Child)
    /\ Refreshing \subseteq Child
    /\ Decided \subseteq Bill
    /\ ScheduleOk \in BOOLEAN
    /\ Kinds \subseteq {"run", "sync", "reconcile"}
    /\ MaxVersion \in Nat /\ LastTick \in Nat /\ MaxRuns \in Nat /\ MaxErrors \in Nat

VARIABLES
    tick,       \* the clock of the application and the database
    listed,     \* per parent: its version at the API; 0: not listed yet
    saved,      \* per parent: the version stored
    changedAt,  \* per parent: content_changed_at
    asked,      \* per child source and parent: the version it was last asked for
    marks,      \* per source: its row of parliament_source_sync_state
    complete,   \* <<source, parent>>: pages and variants with a complete checkpoint
    history,    \* runs with the outcome of each of their sources
    guard,      \* ParliamentJobGuard.running
    work,       \* the job under way
    errors

dataVars == <<listed, saved, changedAt, asked, complete>>
runsVars == <<tick, dataVars, marks, history, guard, work, errors>>

Source == {"bills"} \cup Child
NoRow == -2
NullMark == -1
Succeeded == {"SUCCESS", "SKIPPED_NO_PARENT_CHANGES"}
Outcome == {"SCHEDULED", "RUNNING", "FAILED"} \cup Succeeded
NoWork == [step |-> "none"]
Refused == [step |-> "refused"]
Work == {NoWork, Refused} \cup
    [step : {"begin", "resolve", "visit", "finish", "record", "close", "verify"},
     kind : Kinds, automatic : BOOLEAN, todo : Seq(Source), marker : 0 .. LastTick,
     variants : SUBSET Bill, outcome : Outcome]

Runs == [kind : Kinds, status : {"RUNNING", "SUCCESS", "PARTIAL", "FAILED"},
         rows : UNION {[S -> Outcome] : S \in SUBSET Source}]

RunsTypeOK ==
    /\ tick \in 0 .. LastTick
    /\ listed \in [Bill -> 0 .. MaxVersion] /\ saved \in [Bill -> 0 .. MaxVersion]
    /\ changedAt \in [Bill -> 0 .. LastTick]
    /\ asked \in [Child -> [Bill -> 0 .. MaxVersion]]
    /\ marks \in [Source -> {NoRow, NullMark} \cup 0 .. LastTick]
    /\ complete \subseteq Source \X Bill
    /\ history \in Seq(Runs)
    /\ guard \in BOOLEAN
    /\ work \in Work
    /\ errors \in 0 .. MaxErrors

RunsInit ==
    /\ tick = 0
    /\ listed = [b \in Bill |-> 0] /\ saved = [b \in Bill |-> 0]
    /\ changedAt = [b \in Bill |-> 0]
    /\ asked = [c \in Child |-> [b \in Bill |-> 0]]
    /\ marks = [s \in Source |-> NoRow]
    /\ complete = {}
    /\ history = <<>>
    /\ guard = FALSE
    /\ work = NoWork
    /\ errors = 0

BillChanges(b) ==
    /\ listed[b] < MaxVersion
    /\ listed' = [listed EXCEPT ![b] = @ + 1]
    /\ UNCHANGED <<tick, saved, changedAt, asked, complete, marks, history, guard, work, errors>>

Ticks ==
    /\ tick < LastTick
    /\ tick' = tick + 1
    /\ UNCHANGED <<dataVars, marks, history, guard, work, errors>>

-----------------------------------------------------------------------------
(* Starting and ending a job.                                              *)

(* Mutant: the sources keep the order of the request. *)
AnyOrder(order) == TRUE
(* Sources that depend on the records of others come last. *)
ParentsFirst(order) == \A i \in DOMAIN order : order[i] = "bills" => i = 1

Orders(S) == {o \in [1 .. Cardinality(S) -> S] : {o[i] : i \in DOMAIN o} = S}

(* The guard is taken, and the run and a SCHEDULED row per source stored.  *)
LaunchRun(kind, automatic, S) ==
    /\ ~guard /\ kind \in Kinds
    /\ automatic => kind # "run"
    /\ Len(history) < MaxRuns
    /\ guard' = TRUE
    /\ history' = Append(history, [kind |-> kind, status |-> "RUNNING",
                                   rows |-> [s \in S |-> "SCHEDULED"]])
    /\ \E order \in Orders(S) :
         /\ ParentsFirst(order)
         /\ work' = [step |-> "begin", kind |-> kind, automatic |-> automatic, todo |-> order,
                     marker |-> 0, variants |-> {}, outcome |-> "RUNNING"]
    /\ UNCHANGED <<tick, dataVars, marks, errors>>

(* The scheduler takes the guard; its request is refused by a validation   *)
(* that throws, before the job that would release the guard exists.        *)
Misfire ==
    /\ ~guard /\ ~ScheduleOk
    /\ guard' = TRUE
    /\ work' = Refused
    /\ UNCHANGED <<tick, dataVars, marks, history, errors>>

Step(step) == work.step = step
Current == Head(work.todo)
This == Len(history)
Syncs == work.kind \in {"sync", "reconcile"}
Goes(step, todo, marker, variants, outcome) ==
    work' = [step |-> step, kind |-> work.kind, automatic |-> work.automatic, todo |-> todo,
             marker |-> marker, variants |-> variants, outcome |-> outcome]
Row(outcome) == history' = [history EXCEPT ![This].rows[Current] = outcome]
(* Mutant: the guard is not let go. *)
EndKeepsGuard == work' = NoWork /\ UNCHANGED guard
End == work' = NoWork /\ guard' = FALSE

Begin ==
    /\ Step("begin")
    /\ Row("RUNNING")
    /\ Goes("resolve", work.todo, work.marker, work.variants, "RUNNING")
    /\ UNCHANGED <<tick, dataVars, marks, guard, errors>>

-----------------------------------------------------------------------------
(* What a source asks for.                                                 *)

Stored == {b \in Bill : saved[b] > 0}
(* Mutant: strictly after the watermark. *)
ChangedAfter(c, mark) == {b \in Stored : changedAt[b] > mark}
(* Parents that changed since the watermark, and for some sources also     *)
(* those whose procedure is still open.                                    *)
Changed(c, mark) ==
    {b \in Stored : changedAt[b] >= mark \/ (c \in Refreshing /\ b \notin Decided)}

FullRefresh == work.kind = "reconcile" \/ marks[Current] = NoRow

ToVisit ==
    IF work.kind = "run"
    THEN {b \in (IF Current = "bills" THEN Bill ELSE Stored) : <<Current, b>> \notin complete}
    ELSE IF Current = "bills" THEN Bill
    ELSE IF FullRefresh THEN Stored ELSE Changed(Current, marks[Current])

(* A child without any parent value is an error, unless it only asks for   *)
(* changes; a source that was started and never completed has a NULL       *)
(* watermark, which cannot be read.                                        *)
CannotResolve ==
    \/ Syncs /\ marks[Current] = NullMark
    \/ Current # "bills" /\ Stored = {} /\ (~Syncs \/ FullRefresh)

(* The start of the sync is its marker; a source that has no row gets one. *)
StartsRow == marks' = [marks EXCEPT ![Current] = IF @ = NoRow /\ Syncs THEN NullMark ELSE @]

Resolve ==
    /\ Step("resolve")
    /\ IF CannotResolve
       THEN /\ Goes("record", work.todo, work.marker, work.variants, "FAILED")
            /\ UNCHANGED complete
       ELSE /\ Goes(IF ToVisit = {} THEN "finish" ELSE "visit", work.todo, tick, ToVisit,
                    IF ToVisit = {} /\ Current # "bills" /\ Syncs
                    THEN "SKIPPED_NO_PARENT_CHANGES" ELSE "SUCCESS")
            /\ complete' = IF Syncs THEN complete \ ({Current} \X ToVisit) ELSE complete
    /\ StartsRow
    /\ UNCHANGED <<tick, listed, saved, changedAt, asked, history, guard, errors>>

Left(b) == work.variants \ {b}
VisitsOn(left, outcome) ==
    Goes(IF left = {} THEN "finish" ELSE "visit", work.todo, work.marker, left, outcome)

(* A page of the parent list: content_changed_at is the time of the save. *)
SaveBill(b) ==
    /\ Step("visit") /\ Current = "bills" /\ b \in work.variants
    /\ saved' = [saved EXCEPT ![b] = listed[b]]
    /\ changedAt' = [changedAt EXCEPT ![b] = IF saved[b] = listed[b] THEN @ ELSE tick]
    /\ complete' = complete \cup {<<Current, b>>}
    /\ VisitsOn(Left(b), work.outcome)
    /\ UNCHANGED <<tick, listed, asked, marks, history, guard, errors>>

AskChild(b) ==
    /\ Step("visit") /\ Current # "bills" /\ b \in work.variants
    /\ asked' = [asked EXCEPT ![Current][b] = saved[b]]
    /\ complete' = complete \cup {<<Current, b>>}
    /\ VisitsOn(Left(b), work.outcome)
    /\ UNCHANGED <<tick, listed, saved, changedAt, marks, history, guard, errors>>

(* A variant that fails, or that needs more than maxPages: a sync goes on  *)
(* with the other variants, a run gives the source up.                     *)
VisitFails(b) ==
    /\ Step("visit") /\ b \in work.variants
    /\ errors < MaxErrors /\ errors' = errors + 1
    /\ VisitsOn(IF Syncs /\ Current # "bills" THEN Left(b) ELSE {}, "FAILED")
    /\ UNCHANGED <<tick, dataVars, marks, history, guard>>

(* A complete sync moves the watermark to its own start. *)
Watermark == marks' = [marks EXCEPT ![Current] =
    IF Syncs /\ work.outcome \in Succeeded THEN work.marker ELSE @]

Finish ==
    /\ Step("finish")
    /\ Watermark
    /\ Goes("record", work.todo, work.marker, work.variants, work.outcome)
    /\ UNCHANGED <<tick, dataVars, history, guard, errors>>

RecordOutcome ==
    /\ Step("record")
    /\ Row(work.outcome)
    /\ Goes(IF Len(work.todo) = 1 THEN "close" ELSE "begin", Tail(work.todo), 0, {}, "RUNNING")
    /\ UNCHANGED <<tick, dataVars, marks, guard, errors>>

Good(rows) == {s \in DOMAIN rows : rows[s] \in Succeeded}
(* Mutant: one source that succeeded is enough. *)
StatusLenient(rows) == IF Good(rows) # {} THEN "SUCCESS" ELSE "FAILED"
Status(rows) ==
    IF Good(rows) = DOMAIN rows THEN "SUCCESS" ELSE IF Good(rows) = {} THEN "FAILED" ELSE "PARTIAL"

Close ==
    /\ Step("close")
    /\ history' = [history EXCEPT ![This].status = Status(history[This].rows)]
    /\ IF work.automatic
       THEN Goes("verify", work.todo, work.marker, work.variants, work.outcome) /\ UNCHANGED guard
       ELSE End
    /\ UNCHANGED <<tick, dataVars, marks, errors>>

(* Scheduled jobs verify social accounts before they let the guard go. *)
Verify ==
    /\ Step("verify")
    /\ End
    /\ UNCHANGED <<tick, dataVars, marks, history, errors>>

(* A call to the database raises between two sources: the run is closed as *)
(* FAILED, if the database allows it; rows of sources that were not        *)
(* reached stay as they are.                                               *)
Abort ==
    /\ Step("begin") \/ Step("record") \/ Step("close")
    /\ errors < MaxErrors /\ errors' = errors + 1
    /\ history' \in {history, [history EXCEPT ![This].status = "FAILED"]}
    /\ End
    /\ UNCHANGED <<tick, dataVars, marks>>

(* It raises inside a source, with or without its effect on the watermark: *)
(* the source fails and the run goes on.                                   *)
SourceFails ==
    /\ Step("resolve") \/ Step("finish")
    /\ errors < MaxErrors /\ errors' = errors + 1
    /\ Goes("record", work.todo, work.marker, {}, "FAILED")
    /\ \/ UNCHANGED marks
       \/ Step("resolve") /\ Syncs /\ marks[Current] = NoRow
          /\ marks' = [marks EXCEPT ![Current] = NullMark]
       \/ Step("finish") /\ Watermark
    /\ UNCHANGED <<tick, dataVars, history, guard>>

(* The process dies, and its guard with it. *)
ProcessDies ==
    /\ guard
    /\ errors < MaxErrors /\ errors' = errors + 1
    /\ work' = NoWork /\ guard' = FALSE
    /\ UNCHANGED <<tick, dataVars, marks, history>>

SourceStep ==
    \/ Begin \/ Resolve
    \/ \E b \in Bill : SaveBill(b) \/ AskChild(b) \/ VisitFails(b)
    \/ Finish \/ RecordOutcome \/ Close \/ Verify
    \/ Abort \/ SourceFails

RunsNext ==
    \/ \E b \in Bill : BillChanges(b)
    \/ Ticks
    \/ \E kind \in Kinds, automatic \in BOOLEAN, S \in (SUBSET Source) \ {{}} :
         LaunchRun(kind, automatic, S)
    \/ Misfire
    \/ SourceStep \/ ProcessDies

RunsSpec == RunsInit /\ [][RunsNext]_runsVars

(* A job goes on: its calls return or fail. *)
RunsFairSpec == RunsSpec /\ WF_runsVars(SourceStep)

-----------------------------------------------------------------------------
(* The dashboard.                                                          *)

Latest(s) == LET runs == {r \in DOMAIN history : s \in DOMAIN history[r].rows} IN
    IF runs = {} THEN "SCHEDULED"
    ELSE history[CHOOSE r \in runs : \A q \in runs : q <= r].rows[s]

-----------------------------------------------------------------------------
(* What the next sync of a child source will not ask about again is up to  *)
(* date: for every parent whose change is older than the watermark, the    *)
(* child was asked for the version that is stored, whichever variants      *)
(* failed and wherever the process died.                                   *)
ChildrenCaughtUp == \A c \in Child, b \in Bill :
    /\ marks[c] >= 0
    /\ saved[b] > 0
    /\ changedAt[b] < marks[c]
    => asked[c][b] = saved[b]

(* A sync or reconciliation that reports success for the parents and a     *)
(* child in one run has left the child in step with what it just stored:   *)
(* the parents were read first.                                            *)
SuccessCovers ==
    /\ history # <<>>
    /\ work \in {NoWork, Refused}
    /\ history[This].kind # "run"
    /\ history[This].status = "SUCCESS"
    /\ "bills" \in DOMAIN history[This].rows
    => \A c \in Child \cap DOMAIN history[This].rows, b \in Stored :
         asked[c][b] = saved[b]

(* The status of a run agrees with the rows of its sources, also when the  *)
(* run was cut short: success means every source succeeded, a partial run  *)
(* has sources of both kinds and none that is open.                        *)
HistoryAgrees == \A r \in DOMAIN history :
    LET shown == {history[r].rows[s] : s \in DOMAIN history[r].rows} IN
      /\ history[r].status = "SUCCESS" => shown \subseteq Succeeded
      /\ history[r].status = "PARTIAL" =>
           "FAILED" \in shown /\ shown \cap Succeeded # {}
           /\ shown \subseteq Succeeded \cup {"FAILED"}

(* Whenever a request is told "already running", a job is under way or a   *)
(* scheduled request was refused: the guard is let go on every other path. *)
ConflictMeansRunning == guard <=> work # NoWork

(* README.md on the state RUNNING of a source: it is being ingested now.   *)
RunningMeansRunning == \A s \in Source : Latest(s) = "RUNNING" => work # NoWork

(* Every job lets the guard go in the end, so that a later one can start.  *)
GuardReleased == guard ~> ~guard

(* The state is well typed, the status of every run agrees with its        *)
(* sources, and a conflict is only reported while a job is under way.      *)
RunsInv == RunsTypeOK /\ HistoryAgrees /\ ConflictMeansRunning
=============================================================================
