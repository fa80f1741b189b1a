---------------------------- MODULE VersionPipeline ----------------------------
(***************************************************************************)
(* From a changed National Assembly record to its archived original.       *)
(*                                                                         *)
(*   Java page transaction --> version table + outbox (MySQL)              *)
(*   SqsOutboxRelay        --> reads the outbox, sends to SQS, marks rows  *)
(*   SqsVersionConsumer    --> receives, archives files, commits its       *)
(*                             sqlite ledger, deletes the message          *)
(*                                                                         *)
(* A version is a record key with the hash of one observed payload.  The   *)
(* relay and the consumers are processes that can be interrupted between   *)
(* any two of their steps; every transient fault (crash, network or disk   *)
(* error) is counted in "faults" and bounded by MaxFaults.                 *)
(***************************************************************************)
EXTENDS Integers, FiniteSets

CONSTANTS Record, Hash,    \* record keys of one source; payload hashes
          Relay, Consumer, \* worker processes
          RelayLimit,      \* rows read by one relay run (--limit)
          MaxAttempts,     \* outbox rows with this many attempts are left to the operator
          BatchSize,       \* messages taken by one receive_message call
          MaxReceives,     \* SQS maxReceiveCount before the dead-letter queue
          MaxFaults,       \* bound on transient faults
          None             \* no hash, row, message or process

ASSUME PipelineAssumption ==
    /\ RelayLimit \in Nat \ {0}
    /\ MaxAttempts \in Nat \ {0}
    /\ BatchSize \in Nat \ {0}
    /\ MaxReceives \in Nat \ {0}
    /\ MaxFaults \in Nat
    /\ None \notin Hash \cup Consumer

Version == Record \X Hash
MessageId == Version \X (Nat \ {0})

VARIABLES
    current,   \* parliament_source_record: latest payload hash per record
    versions,  \* parliament_source_record_version: rows are never removed
    outbox,    \* parliament_processing_outbox: one row per version
    sends,     \* messages SQS has accepted per version
    queue,     \* messages in the processing queue, received or not
    dead,      \* versions that have a message in the dead-letter queue
    relay,     \* per relay: step, rows of the batch still to do, row in hand
    consumer,  \* per consumer: step, messages still to do, message in hand
    writer,    \* the consumer inside BEGIN IMMEDIATE on the shared ledger
    ledger,    \* processed_versions
    raw,       \* raw/java/<identity>/<hash>.json
    derived,   \* processed/<identity>/<digest>.json
    faults     \* transient faults so far

dbVars == <<current, versions, outbox>>
sqsVars == <<sends, queue, dead>>
fileVars == <<raw, derived>>
vars == <<dbVars, sqsVars, relay, consumer, writer, ledger, fileVars, faults>>

Status == {"PENDING", "SENT", "FAILED"}
FileState == {"none", "partial", "full"}
Row == [id : Nat, status : Status, attempts : Nat]
Message == [v : Version, n : Nat \ {0}, receives : Nat, visible : BOOLEAN]
RelayState ==
    [step : {"idle", "batch"}, todo : SUBSET Version, row : {None}] \cup
    [step : {"sent", "failing"}, todo : SUBSET Version, row : Version]
ConsumerState ==
    [step : {"idle", "batch"}, todo : SUBSET MessageId, msg : {None}] \cup
    [step : {"raw", "derived", "commit", "delete"}, todo : SUBSET MessageId, msg : MessageId]

TypeOK ==
    /\ current \in [Record -> Hash \cup {None}]
    /\ versions \subseteq Version /\ IsFiniteSet(versions)
    /\ outbox \in [versions -> Row]
    /\ sends \in [Version -> Nat]
    /\ queue \subseteq Message
    /\ dead \subseteq Version
    /\ relay \in [Relay -> RelayState]
    /\ consumer \in [Consumer -> ConsumerState]
    /\ writer \in Consumer \cup {None}
    /\ ledger \subseteq Version
    /\ raw \in [Version -> FileState]
    /\ derived \in [Version -> FileState]
    /\ faults \in Nat

IdleRelay == [step |-> "idle", todo |-> {}, row |-> None]
IdleConsumer == [step |-> "idle", todo |-> {}, msg |-> None]

Init ==
    /\ current = [r \in Record |-> None]
    /\ versions = {}
    /\ outbox = [v \in {} |-> [id |-> 0, status |-> "PENDING", attempts |-> 0]]
    /\ sends = [v \in Version |-> 0]
    /\ queue = {}
    /\ dead = {}
    /\ relay = [r \in Relay |-> IdleRelay]
    /\ consumer = [c \in Consumer |-> IdleConsumer]
    /\ writer = None
    /\ ledger = {}
    /\ raw = [v \in Version |-> "none"]
    /\ derived = [v \in Version |-> "none"]
    /\ faults = 0

(* One transient fault of the environment. *)
Fault == faults < MaxFaults /\ faults' = faults + 1

-----------------------------------------------------------------------------
(* The Java writer.  archive() runs inside the page transaction; both of   *)
(* its inserts leave an existing row alone.                                *)

NewRow == [id |-> Cardinality(versions) + 1, status |-> "PENDING", attempts |-> 0]

Archive(v) ==
    /\ versions' = versions \cup {v}
    /\ outbox' = [w \in versions \cup {v} |->
                    IF w \in versions THEN outbox[w] ELSE NewRow]

(* A page that carries record r with payload h commits.  A sync page skips *)
(* a record whose hash is unchanged, an initial-load page saves it again.  *)
SaveRecord(r, h) ==
    /\ Archive(<<r, h>>)
    /\ current' = [current EXCEPT ![r] = h]
    /\ UNCHANGED <<sqsVars, relay, consumer, writer, ledger, fileVars, faults>>

-----------------------------------------------------------------------------
(* SqsOutboxRelay over MySqlOutbox.                                        *)

(* Mutants: the selection forgets FAILED rows, or the status altogether. *)
EligiblePendingOnly == {v \in versions : outbox[v].status = "PENDING"}

Eligible == {v \in versions : /\ outbox[v].status \in {"PENDING", "FAILED"}
                              /\ outbox[v].attempts < MaxAttempts}

(* The oldest RelayLimit eligible rows. *)
PendingRows ==
    {v \in Eligible :
        Cardinality({w \in Eligible : outbox[w].id < outbox[v].id}) < RelayLimit}

Mark(v, status) ==
    outbox' = [outbox EXCEPT ![v] =
                  [id |-> @.id, status |-> status, attempts |-> @.attempts + 1]]

NextRow(p) == relay' = [relay EXCEPT ![p] =
    [step |-> IF @.todo = {} THEN "idle" ELSE "batch", todo |-> @.todo, row |-> None]]
RelayAt(p, step) == relay' = [relay EXCEPT ![p].step = step]
RelayRest == <<current, versions, consumer, writer, ledger, fileVars>>

ReadPending(p) ==
    /\ relay[p].step = "idle"
    /\ PendingRows # {}
    /\ relay' = [relay EXCEPT ![p] = [step |-> "batch", todo |-> PendingRows,
                                      row |-> None]]
    /\ UNCHANGED <<RelayRest, outbox, sqsVars, faults>>

(* SQS stores the message: the n-th one for its version. *)
Accept(v) ==
    /\ sends' = [sends EXCEPT ![v] = @ + 1]
    /\ queue' = queue \cup {[v |-> v, n |-> sends[v] + 1, receives |-> 0, visible |-> TRUE]}
    /\ UNCHANGED dead

TakeRow(p, v, step) ==
    /\ relay[p].step = "batch"
    /\ v \in relay[p].todo
    /\ relay' = [relay EXCEPT ![p] = [step |-> step, todo |-> @.todo \ {v}, row |-> v]]
    /\ UNCHANGED <<RelayRest, outbox>>

SendMessage(p, v) == TakeRow(p, v, "sent") /\ Accept(v) /\ UNCHANGED faults

(* Mutant: the exception of send_message is swallowed. *)
SendRaisesSwallowed(p, v) ==
    /\ TakeRow(p, v, "sent")
    /\ Fault
    /\ Accept(v) \/ UNCHANGED sqsVars

(* send_message raises; the queue may or may not have stored the message. *)
SendRaises(p, v) ==
    /\ TakeRow(p, v, "failing")
    /\ Fault
    /\ Accept(v) \/ UNCHANGED sqsVars

MarkSent(p) ==
    /\ relay[p].step = "sent"
    /\ Mark(relay[p].row, "SENT")
    /\ NextRow(p)
    /\ UNCHANGED <<RelayRest, sqsVars, faults>>

(* mark_sent raises with or without its autocommitted update applied. *)
MarkSentRaises(p) ==
    /\ relay[p].step = "sent"
    /\ Fault
    /\ Mark(relay[p].row, "SENT") \/ UNCHANGED outbox
    /\ RelayAt(p, "failing")
    /\ UNCHANGED <<RelayRest, sqsVars>>

MarkFailed(p) ==
    /\ relay[p].step = "failing"
    /\ Mark(relay[p].row, "FAILED")
    /\ NextRow(p)
    /\ UNCHANGED <<RelayRest, sqsVars, faults>>

(* The process dies, or mark_failed itself raises and ends the run. *)
RelayStops(p) ==
    /\ relay[p].step # "idle"
    /\ Fault
    /\ relay' = [relay EXCEPT ![p] = IdleRelay]
    /\ UNCHANGED <<RelayRest, outbox, sqsVars>>

-----------------------------------------------------------------------------
(* SqsVersionConsumer with VersionArchive.process as its callback.         *)

IdOf(m) == <<m.v, m.n>>
Received(m) == [v |-> m.v, n |-> m.n, receives |-> m.receives + 1, visible |-> FALSE]
ConsumerRest == <<dbVars, sends, relay>>
InHand(c) == consumer[c].msg[1]

(* Leave the message in hand and go on with the rest of the batch. *)
NextMessage(c) ==
    consumer' = [consumer EXCEPT ![c] =
        [step |-> IF @.todo = {} THEN "idle" ELSE "batch", todo |-> @.todo, msg |-> None]]
ConsumerAt(c, step) == consumer' = [consumer EXCEPT ![c].step = step]

(* receive_message: any nonempty choice of visible messages becomes        *)
(* invisible to others for the visibility timeout.                         *)
Receive(c, got) ==
    /\ consumer[c].step = "idle"
    /\ got # {} /\ Cardinality(got) <= BatchSize
    /\ \A m \in got : m.visible /\ m.receives < MaxReceives
    /\ queue' = (queue \ got) \cup {Received(m) : m \in got}
    /\ consumer' = [consumer EXCEPT ![c] = [step |-> "batch", msg |-> None,
                                            todo |-> {IdOf(m) : m \in got}]]
    /\ UNCHANGED <<ConsumerRest, dead, writer, ledger, fileVars, faults>>

(* The visibility timeout of a received message runs out. *)
VisibilityTimeout(m) ==
    /\ m \in queue /\ ~m.visible
    /\ queue' = (queue \ {m}) \cup {[m EXCEPT !.visible = TRUE]}
    /\ UNCHANGED <<ConsumerRest, dead, consumer, writer, ledger, fileVars, faults>>

(* SQS moves a message received MaxReceives times to the dead-letter queue. *)
Redrive(m) ==
    /\ m \in queue /\ m.visible /\ m.receives >= MaxReceives
    /\ queue' = queue \ {m}
    /\ dead' = dead \cup {m.v}
    /\ UNCHANGED <<ConsumerRest, consumer, writer, ledger, fileVars, faults>>

TakeMessage(c, id, step) ==
    /\ consumer[c].step = "batch"
    /\ id \in consumer[c].todo
    /\ consumer' = [consumer EXCEPT ![c] = [step |-> step, todo |-> @.todo \ {id}, msg |-> id]]

(* Mutant: the lookup runs outside BEGIN IMMEDIATE. *)
BeginUnlocked(c, id) ==
    /\ id[1] \notin ledger
    /\ TakeMessage(c, id, "raw")
    /\ writer' = c
    /\ UNCHANGED <<ConsumerRest, queue, dead, ledger, fileVars, faults>>

(* BEGIN IMMEDIATE and the ledger lookup.  A version already in the ledger *)
(* is only committed (nothing to write) and acknowledged again.            *)
BeginNew(c, id) ==
    /\ writer = None
    /\ id[1] \notin ledger
    /\ TakeMessage(c, id, "raw")
    /\ writer' = c
    /\ UNCHANGED <<ConsumerRest, queue, dead, ledger, fileVars, faults>>

BeginKnown(c, id) ==
    /\ writer = None
    /\ id[1] \in ledger
    /\ TakeMessage(c, id, "delete")
    /\ UNCHANGED <<ConsumerRest, queue, dead, writer, ledger, fileVars, faults>>

(* Another consumer holds the ledger past sqlite's busy timeout: the       *)
(* exception handler leaves the message unacknowledged.                    *)
BeginBusy(c, id) ==
    /\ writer \notin {None, c}
    /\ consumer[c].step = "batch"
    /\ id \in consumer[c].todo
    /\ consumer' = [consumer EXCEPT ![c] =
            [step |-> IF @.todo = {id} THEN "idle" ELSE "batch", todo |-> @.todo \ {id},
             msg |-> None]]
    /\ UNCHANGED <<ConsumerRest, queue, dead, writer, ledger, fileVars, faults>>

(* Mutant: an existing file is taken for the archived one unread. *)
WriteFileUnchecked(file, v) ==
    file' = [file EXCEPT ![v] = IF @ = "none" THEN "full" ELSE @]

(* The file exists in full, or is created exclusively and written. *)
WriteFile(file, v) ==
    /\ file[v] # "partial"
    /\ file' = [file EXCEPT ![v] = "full"]

WriteRaw(c) ==
    /\ consumer[c].step = "raw"
    /\ WriteFile(raw, InHand(c))
    /\ ConsumerAt(c, "derived")
    /\ UNCHANGED <<ConsumerRest, queue, dead, writer, ledger, derived, faults>>

WriteDerived(c) ==
    /\ consumer[c].step = "derived"
    /\ WriteFile(derived, InHand(c))
    /\ ConsumerAt(c, "commit")
    /\ UNCHANGED <<ConsumerRest, queue, dead, writer, ledger, raw, faults>>

(* Mutants: the ledger keeps one identity only; the delete of the message  *)
(* does not wait for the ledger.                                           *)
CommitLatestOnly(c) ==
    /\ consumer[c].step = "commit"
    /\ ledger' = {InHand(c)}
    /\ writer' = None
    /\ ConsumerAt(c, "delete")
    /\ UNCHANGED <<ConsumerRest, queue, dead, fileVars, faults>>

CommitForgotten(c) ==
    /\ consumer[c].step = "commit"
    /\ UNCHANGED ledger
    /\ writer' = None
    /\ ConsumerAt(c, "delete")
    /\ UNCHANGED <<ConsumerRest, queue, dead, fileVars, faults>>

Commit(c) ==
    /\ consumer[c].step = "commit"
    /\ ledger' = ledger \cup {InHand(c)}
    /\ writer' = None
    /\ ConsumerAt(c, "delete")
    /\ UNCHANGED <<ConsumerRest, queue, dead, fileVars, faults>>

DeleteMessage(c) ==
    /\ consumer[c].step = "delete"
    /\ queue' = {m \in queue : IdOf(m) # consumer[c].msg}
    /\ NextMessage(c)
    /\ UNCHANGED <<ConsumerRest, dead, writer, ledger, fileVars, faults>>

(* Release the ledger if this consumer holds it. *)
Rollback(c) == writer' = IF writer = c THEN None ELSE writer

(* What an interruption leaves of the file being written: an exclusive     *)
(* create followed by a write can stop with the file there but incomplete. *)
Torn(c) ==
    \/ UNCHANGED fileVars
    \/ /\ consumer[c].step = "raw" /\ raw[InHand(c)] = "none"
       /\ raw' = [raw EXCEPT ![InHand(c)] = "partial"]
       /\ UNCHANGED derived
    \/ /\ consumer[c].step = "derived" /\ derived[InHand(c)] = "none"
       /\ derived' = [derived EXCEPT ![InHand(c)] = "partial"]
       /\ UNCHANGED raw

(* The callback finds the remains of an interrupted write and raises:      *)
(* "immutable original version conflict", or unreadable derived JSON.      *)
ProcessConflict(c) ==
    /\ \/ consumer[c].step = "raw" /\ raw[InHand(c)] = "partial"
       \/ consumer[c].step = "derived" /\ derived[InHand(c)] = "partial"
    /\ Rollback(c)
    /\ NextMessage(c)
    /\ UNCHANGED <<ConsumerRest, queue, dead, ledger, fileVars, faults>>

(* A database, disk or network error: roll back, keep the message. *)
ProcessRaises(c) ==
    /\ consumer[c].step \notin {"idle", "batch"}
    /\ Fault
    /\ Torn(c)
    /\ Rollback(c)
    /\ NextMessage(c)
    /\ UNCHANGED <<ConsumerRest, queue, dead, ledger>>

(* The container dies: the open transaction and the rest of the batch go. *)
ConsumerStops(c) ==
    /\ consumer[c].step # "idle"
    /\ Fault
    /\ Torn(c)
    /\ Rollback(c)
    /\ consumer' = [consumer EXCEPT ![c] = IdleConsumer]
    /\ UNCHANGED <<ConsumerRest, queue, dead, ledger>>

-----------------------------------------------------------------------------
RelayStep(p) ==
    \/ ReadPending(p)
    \/ \E v \in Version : SendMessage(p, v)
    \/ MarkSent(p)
    \/ MarkFailed(p)

ConsumerStep(c) ==
    \/ \E id \in consumer[c].todo : BeginNew(c, id) \/ BeginKnown(c, id) \/ BeginBusy(c, id)
    \/ WriteRaw(c)
    \/ WriteDerived(c)
    \/ Commit(c)
    \/ DeleteMessage(c)
    \/ ProcessConflict(c)

Interruption ==
    \/ \E p \in Relay : \/ \E v \in Version : SendRaises(p, v)
                        \/ MarkSentRaises(p)
                        \/ RelayStops(p)
    \/ \E c \in Consumer : ProcessRaises(c) \/ ConsumerStops(c)

Next ==
    \/ \E r \in Record, h \in Hash : SaveRecord(r, h)
    \/ \E p \in Relay : RelayStep(p)
    \/ \E c \in Consumer, got \in SUBSET queue : Receive(c, got)
    \/ \E m \in queue : VisibilityTimeout(m) \/ Redrive(m)
    \/ \E c \in Consumer : ConsumerStep(c)
    \/ Interruption

Spec == Init /\ [][Next]_vars

(* Worker runs are started again by their timers, so a step that stays     *)
(* possible is taken; SQS redelivers and redrives.  Saving a page and the  *)
(* faults are not required to happen.                                      *)
Fairness ==
    /\ \A p \in Relay : WF_vars(RelayStep(p))
    /\ \A c \in Consumer : WF_vars(ConsumerStep(c))
    /\ WF_vars(\E c \in Consumer, got \in SUBSET queue : Receive(c, got))
    /\ WF_vars(\E m \in queue : VisibilityTimeout(m))
    /\ WF_vars(\E m \in queue : Redrive(m))

FairSpec == Spec /\ Fairness

-----------------------------------------------------------------------------
(* Every observed version stays owed to the archive: it is in the ledger,  *)
(* or its row will be dispatched or is kept for the operator as FAILED, or *)
(* a message for it is still in the queue or the dead-letter queue.        *)
InQueue(v) == \E m \in queue : m.v = v

NoVersionLost ==
    \A v \in versions : \/ v \in ledger
                        \/ outbox[v].status \in {"PENDING", "FAILED"}
                        \/ InQueue(v)
                        \/ v \in dead

(* A version the ledger calls processed has both its files complete, so an *)
(* acknowledged message never stands for a missing or torn archive.        *)
LedgerMeansArchived ==
    \A v \in ledger : raw[v] = "full" /\ derived[v] = "full"

(* Evidence is stored before anything refers to it: the current payload,   *)
(* every message, dead letter and ledger entry names a stored version, so  *)
(* MySqlOutbox.version() never meets a missing row.                        *)
EvidenceFirst ==
    /\ \A r \in Record : current[r] # None => <<r, current[r]>> \in versions
    /\ \A m \in queue : m.v \in versions
    /\ dead \cup ledger \subseteq versions

(* Redelivery never runs the callback for a version the ledger holds, and  *)
(* two consumers never archive at the same time.                           *)
Archiving(c) == consumer[c].step \in {"raw", "derived", "commit"}

ArchivedOnce ==
    \A c \in Consumer : Archiving(c) =>
        /\ InHand(c) \notin ledger
        /\ \A d \in Consumer \ {c} : ~Archiving(d)

(* The inductive invariant behind the three safety properties above: what  *)
(* each process carries between its steps is backed by the stored state.   *)
HeldVersionsStored ==
    /\ \A p \in Relay : /\ relay[p].todo \subseteq versions
                        /\ relay[p].step \in {"sent", "failing"} => relay[p].row \in versions
    /\ \A c \in Consumer :
        /\ \A id \in consumer[c].todo : id[1] \in versions
        /\ consumer[c].step \notin {"idle", "batch"} => InHand(c) \in versions

WriterHoldsLedger ==
    \A c \in Consumer : Archiving(c) => writer = c /\ InHand(c) \notin ledger

FilesBeforeLedger ==
    \A c \in Consumer :
        /\ consumer[c].step \in {"derived", "commit"} => raw[InHand(c)] = "full"
        /\ consumer[c].step = "commit" => derived[InHand(c)] = "full"
        /\ consumer[c].step = "delete" => InHand(c) \in ledger

SentIsAccepted ==
    \A p \in Relay : relay[p].step = "sent" =>
        relay[p].row \in ledger \cup dead \/ InQueue(relay[p].row)

IInv ==
    /\ TypeOK
    /\ EvidenceFirst
    /\ HeldVersionsStored
    /\ WriterHoldsLedger
    /\ FilesBeforeLedger
    /\ LedgerMeansArchived
    /\ SentIsAccepted
    /\ NoVersionLost

(* With one relay a version is sent once, and once more at most for every  *)
(* fault: duplicates come from faults only.                                *)
DuplicatesNeedFaults == \A v \in Version : sends[v] <= 1 + faults

(* With one consumer and no fault nothing is dead-lettered unarchived,     *)
(* however often a slow batch outlives its visibility timeout.             *)
DeadOnlyAfterFault == faults = 0 => dead \subseteq ledger

(* Left to the operator: dead-lettered, or FAILED with no attempt left. *)
Parked(v) ==
    \/ v \in dead
    \/ v \in versions /\ outbox[v].status = "FAILED" /\ outbox[v].attempts >= MaxAttempts

(* Every observed version is archived or ends where the operator looks. *)
EventuallyArchivedOrParked ==
    \A v \in Version : v \in versions ~> v \in ledger \/ Parked(v)

(* What the pipeline promises, as its abstract specification states it. *)
Delivery == INSTANCE VersionDelivery WITH
    owed <- versions \ ledger,
    archived <- ledger,
    parked <- {v \in versions \ ledger : Parked(v)}

Delivers == Delivery!FairSpec

-----------------------------------------------------------------------------
(* Statements of the documentation the code does not keep.                 *)

(* versions.py:37 "Archive one exact identity/version idempotently before  *)
(* acknowledgement": the retry of an interrupted archive completes it.     *)
InterruptedArchiveCompletes ==
    \A v \in Version : raw[v] = "partial" ~> raw[v] = "full"

(* README.md:117: a changed original and its processing job are stored in  *)
(* the page's transaction, so a change leaves a row to dispatch.           *)
ChangeQueuesJob ==
    [][\A r \in Record : current'[r] # current[r] =>
          outbox'[<<r, current'[r]>>].status # "SENT"]_vars
=============================================================================
