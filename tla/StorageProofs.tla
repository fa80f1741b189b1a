----------------------------- MODULE StorageProofs -----------------------------
(***************************************************************************)
(* Proofs about what is kept: the archive of versions and the backups.     *)
(*                                                                         *)
(* VersionPipeline: no version is lost, for any number of records,         *)
(* payloads, relays and consumers and any bounds.  The invariant IInv is   *)
(* inductive: what each process carries between two steps is backed by     *)
(* stored state.                                                           *)
(*                                                                         *)
(* DatabaseBackup and WorkerBackup: the database's dumps and the worker's  *)
(* snapshots, for any number of backups, jobs, files, days and faults.     *)
(* DatabaseBackupInv does not say whose files a backup under way has.      *)
(* BackupIInv adds it: from creating its dump until its manifest is        *)
(* written the dump of its second is its own and has no manifest, so that  *)
(* what a failed backup removes was never anyone's pair; and a manifest    *)
(* has a dump beside it.  SnapshotIInv does the same for the worker: who   *)
(* holds the lock, how far a job has written its files in order, that what *)
(* was copied under the lock is still what the files hold, and that a day  *)
(* has one snapshot.                                                       *)
(***************************************************************************)
EXTENDS VersionPipeline, DatabaseBackup, WorkerBackup, FiniteSetTheorems, TLAPS

-----------------------------------------------------------------------------
(* VersionPipeline *)

(* The system starts well typed. *)
LEMMA InitTypeOK == Init => TypeOK
  BY PipelineAssumption, FS_EmptySet
  DEF Init, TypeOK, IdleRelay, IdleConsumer, RelayState, ConsumerState, Row, Status,
      FileState, Message

(* Marking a row keeps the outbox a table of rows. *)
LEMMA MarkType ==
  ASSUME outbox \in [versions -> Row], NEW v, NEW s \in Status, Mark(v, s)
  PROVE  outbox' \in [versions -> Row]
  <1>1. ASSUME NEW w \in versions
        PROVE [id |-> outbox[w].id, status |-> s, attempts |-> outbox[w].attempts + 1] \in Row
    <2>1. outbox[w] \in Row
      OBVIOUS
    <2>2. outbox[w].attempts + 1 \in Nat
      BY <2>1 DEF Row
    <2> QED BY <2>1, <2>2 DEF Row
  <1> QED BY <1>1 DEF Mark

(* An accepted message is a message of the queue. *)
LEMMA AcceptType ==
  ASSUME TypeOK, NEW v \in Version, Accept(v)
  PROVE  sends' \in [Version -> Nat] /\ queue' \subseteq Message
  <1>1. sends[v] \in Nat /\ sends[v] + 1 \in Nat \ {0}
    BY DEF TypeOK
  <1>2. sends' \in [Version -> Nat]
    BY <1>1 DEF Accept, TypeOK
  <1>3. [v |-> v, n |-> sends[v] + 1, receives |-> 0, visible |-> TRUE] \in Message
    BY <1>1 DEF Message
  <1> QED BY <1>2, <1>3 DEF Accept, TypeOK

(* The type invariant: every variable keeps its shape under every step. *)
LEMMA NextTypeOK == TypeOK /\ [Next]_vars => TypeOK'
  <1> SUFFICES ASSUME TypeOK, [Next]_vars PROVE TypeOK'
    OBVIOUS
  <1> USE DEF TypeOK, sqsVars, fileVars
  <1>1. ASSUME NEW r \in Record, NEW h \in Hash, SaveRecord(r, h) PROVE TypeOK'
    <2>1. Cardinality(versions) + 1 \in Nat /\ IsFiniteSet(versions \cup {<<r, h>>})
      <3>1. IsFiniteSet(versions)
        OBVIOUS
      <3> HIDE DEF TypeOK
      <3>2. Cardinality(versions) \in Nat /\ IsFiniteSet(versions \cup {<<r, h>>})
        BY <3>1, FS_CardinalityType, FS_AddElement
      <3> QED BY <3>2
    <2>2. NewRow \in Row
      BY <2>1 DEF NewRow, Row, Status
    <2>3. versions' \subseteq Version
      BY <1>1 DEF SaveRecord, Archive, Version
    <2>4. outbox' \in [versions' -> Row]
      BY <1>1, <2>2 DEF SaveRecord, Archive
    <2> QED BY <1>1, <2>1, <2>3, <2>4 DEF SaveRecord, Archive
  <1>2. ASSUME NEW p \in Relay, RelayStep(p) PROVE TypeOK'
    <2> USE DEF RelayRest
    <2>1. CASE ReadPending(p)
      <3>1. relay' \in [Relay -> RelayState]
        BY <2>1 DEF ReadPending, PendingRows, Eligible, RelayState
      <3> QED BY <2>1, <3>1 DEF ReadPending
    <2>2. ASSUME NEW v \in Version, SendMessage(p, v) PROVE TypeOK'
      <3>1. relay' \in [Relay -> RelayState]
        BY <2>2 DEF SendMessage, TakeRow, RelayState
      <3>2. sends' \in [Version -> Nat]
        BY <2>2 DEF SendMessage, Accept
      <3>3. queue' \subseteq Message
        BY <2>2, AcceptType DEF SendMessage
      <3> QED BY <2>2, <3>1, <3>2, <3>3 DEF SendMessage, TakeRow, Accept
    <2>3. CASE MarkSent(p)
      <3>1. outbox' \in [versions' -> Row]
        BY <2>3, MarkType DEF MarkSent, RelayRest, Status
      <3>2. relay' \in [Relay -> RelayState]
        BY <2>3 DEF MarkSent, NextRow, RelayState
      <3> QED BY <2>3, <3>1, <3>2 DEF MarkSent
    <2>4. CASE MarkFailed(p)
      <3>1. outbox' \in [versions' -> Row]
        BY <2>4, MarkType DEF MarkFailed, RelayRest, Status
      <3>2. relay' \in [Relay -> RelayState]
        BY <2>4 DEF MarkFailed, NextRow, RelayState
      <3> QED BY <2>4, <3>1, <3>2 DEF MarkFailed
    <2> QED BY <1>2, <2>1, <2>2, <2>3, <2>4 DEF RelayStep
  <1>3. ASSUME NEW c \in Consumer, NEW got \in SUBSET queue, Receive(c, got) PROVE TypeOK'
    <2>1. ASSUME NEW m \in got
          PROVE  Received(m) \in Message /\ IdOf(m) \in MessageId
      <3>1. m \in Message
        OBVIOUS
      <3> HIDE DEF TypeOK
      <3>2. m.v \in Version /\ m.n \in Nat \ {0} /\ m.receives + 1 \in Nat
        BY <3>1 DEF Message
      <3> QED BY <3>2 DEF Message, Received, IdOf, MessageId
    <2>2. queue' \subseteq Message
      BY <1>3, <2>1 DEF Receive
    <2>3. consumer' \in [Consumer -> ConsumerState]
      BY <1>3, <2>1 DEF Receive, ConsumerState
    <2> QED BY <1>3, <2>2, <2>3 DEF Receive, ConsumerRest, dbVars
  <1>4. ASSUME NEW m \in queue, VisibilityTimeout(m) \/ Redrive(m) PROVE TypeOK'
    <2>1. [m EXCEPT !.visible = TRUE] \in Message /\ m.v \in Version
      BY DEF Message
    <2> QED BY <1>4, <2>1 DEF VisibilityTimeout, Redrive, ConsumerRest, dbVars
  <1>5. ASSUME NEW c \in Consumer, ConsumerStep(c) PROVE TypeOK'
    <2> USE DEF ConsumerRest, dbVars
    <2>1. ASSUME NEW id \in consumer[c].todo, BeginNew(c, id) \/ BeginKnown(c, id) PROVE TypeOK'
      <3>1. consumer' \in [Consumer -> ConsumerState]
        BY <2>1 DEF BeginNew, BeginKnown, TakeMessage, ConsumerState
      <3> QED BY <2>1, <3>1 DEF BeginNew, BeginKnown
    <2>2. ASSUME NEW id \in consumer[c].todo, BeginBusy(c, id) PROVE TypeOK'
      <3>1. consumer' \in [Consumer -> ConsumerState]
        BY <2>2 DEF BeginBusy, ConsumerState
      <3> QED BY <2>2, <3>1 DEF BeginBusy
    <2>3. CASE WriteRaw(c)
      <3>1. consumer' \in [Consumer -> ConsumerState]
        BY <2>3 DEF WriteRaw, ConsumerAt, ConsumerState
      <3> QED BY <2>3, <3>1 DEF WriteRaw, WriteFile, FileState
    <2>4. CASE WriteDerived(c)
      <3>1. consumer' \in [Consumer -> ConsumerState]
        BY <2>4 DEF WriteDerived, ConsumerAt, ConsumerState
      <3> QED BY <2>4, <3>1 DEF WriteDerived, WriteFile, FileState
    <2>5. CASE Commit(c)
      <3>1. consumer' \in [Consumer -> ConsumerState]
        BY <2>5 DEF Commit, ConsumerAt, ConsumerState
      <3>2. InHand(c) \in Version
        BY <2>5 DEF Commit, InHand, ConsumerState, MessageId
      <3> QED BY <2>5, <3>1, <3>2 DEF Commit
    <2>6. CASE DeleteMessage(c)
      <3>1. consumer' \in [Consumer -> ConsumerState]
        BY <2>6 DEF DeleteMessage, NextMessage, ConsumerState
      <3> QED BY <2>6, <3>1 DEF DeleteMessage
    <2>7. CASE ProcessConflict(c)
      <3>1. consumer' \in [Consumer -> ConsumerState]
        BY <2>7 DEF ProcessConflict, NextMessage, ConsumerState
      <3> QED BY <2>7, <3>1 DEF ProcessConflict, Rollback
    <2> QED BY <1>5, <2>1, <2>2, <2>3, <2>4, <2>5, <2>6, <2>7 DEF ConsumerStep
  <1>6. CASE Interruption
    <2> USE DEF RelayRest, ConsumerRest, dbVars, Fault
    <2>1. ASSUME NEW p \in Relay, NEW v \in Version, SendRaises(p, v) PROVE TypeOK'
      <3>1. relay' \in [Relay -> RelayState]
        BY <2>1 DEF SendRaises, TakeRow, RelayState
      <3>2. sends' \in [Version -> Nat] /\ queue' \subseteq Message /\ dead' = dead
        BY <2>1, AcceptType DEF SendRaises, Accept
      <3> QED BY <2>1, <3>1, <3>2 DEF SendRaises, TakeRow
    <2>2. ASSUME NEW p \in Relay, MarkSentRaises(p) PROVE TypeOK'
      <3>1. outbox' \in [versions' -> Row]
        BY <2>2, MarkType DEF MarkSentRaises, Status
      <3>2. relay' \in [Relay -> RelayState]
        BY <2>2 DEF MarkSentRaises, RelayAt, RelayState
      <3> QED BY <2>2, <3>1, <3>2 DEF MarkSentRaises
    <2>3. ASSUME NEW p \in Relay, RelayStops(p) PROVE TypeOK'
      BY <2>3 DEF RelayStops, IdleRelay, RelayState
    <2>4. ASSUME NEW c \in Consumer, Torn(c)
          PROVE raw' \in [Version -> FileState] /\ derived' \in [Version -> FileState]
      BY <2>4 DEF Torn, FileState
    <2>5. ASSUME NEW c \in Consumer, ProcessRaises(c) PROVE TypeOK'
      <3>1. consumer' \in [Consumer -> ConsumerState]
        BY <2>5 DEF ProcessRaises, NextMessage, ConsumerState
      <3> QED BY <2>5, <2>4, <3>1 DEF ProcessRaises, Rollback
    <2>6. ASSUME NEW c \in Consumer, ConsumerStops(c) PROVE TypeOK'
      <3>1. consumer' \in [Consumer -> ConsumerState]
        BY <2>6 DEF ConsumerStops, IdleConsumer, ConsumerState
      <3> QED BY <2>6, <2>4, <3>1 DEF ConsumerStops, Rollback
    <2> QED BY <1>6, <2>1, <2>2, <2>3, <2>5, <2>6 DEF Interruption
  <1>7. CASE UNCHANGED vars
    BY <1>7 DEF vars, dbVars
  <1> QED BY <1>1, <1>2, <1>3, <1>4, <1>5, <1>6, <1>7 DEF Next
(* Every variable always has its type. *)
THEOREM TypeCorrect == Spec => []TypeOK
  BY InitTypeOK, NextTypeOK, PTL DEF Spec

-----------------------------------------------------------------------------
(* Nothing is observed, in flight or archived at the start. *)
LEMMA InitIInv == Init => IInv
  <1> SUFFICES ASSUME Init PROVE IInv
    OBVIOUS
  <1>1. TypeOK
    BY InitTypeOK
  <1> QED BY <1>1 DEF Init, IInv, IdleRelay, IdleConsumer, EvidenceFirst, HeldVersionsStored,
             WriterHoldsLedger, Archiving, FilesBeforeLedger, LedgerMeansArchived,
             SentIsAccepted, NoVersionLost

(* What a step of the relay side leaves alone, as long as it only adds     *)
(* messages of stored versions.                                            *)
LEMMA RelaySideFrame ==
  ASSUME IInv, UNCHANGED <<RelayRest, dead>>, \A m \in queue' : m.v \in versions
  PROVE  EvidenceFirst' /\ WriterHoldsLedger' /\ FilesBeforeLedger' /\ LedgerMeansArchived'
  BY DEF IInv, RelayRest, EvidenceFirst, WriterHoldsLedger, Archiving, InHand, FilesBeforeLedger,
         LedgerMeansArchived, fileVars

(* The relay's rows stay stored, whatever step its record takes. *)
LEMMA RelayRowsStored ==
  ASSUME IInv, NEW p \in Relay, UNCHANGED <<versions, consumer>>,
         NEW s \in RelayState, relay' = [relay EXCEPT ![p] = s],
         s.todo \subseteq versions, s.step \in {"sent", "failing"} => s.row \in versions
  PROVE  HeldVersionsStored'
  BY DEF IInv, HeldVersionsStored, InHand, TypeOK

(* What a step of SQS or of a consumer leaves alone, as long as a version  *)
(* only leaves the queue archived or dead-lettered.                        *)
LEMMA ConsumerSideFrame ==
  ASSUME IInv, UNCHANGED <<dbVars, relay>>, ledger \subseteq ledger', dead \subseteq dead',
         \A v \in Version : InQueue(v) => InQueue(v)' \/ v \in ledger' \cup dead'
  PROVE  SentIsAccepted' /\ NoVersionLost'
  <1>1. \A p \in Relay : relay[p].step = "sent" => relay[p].row \in Version
    BY DEF IInv, TypeOK, RelayState
  <1>2. versions \subseteq Version
    BY DEF IInv, TypeOK
  <1> QED BY <1>1, <1>2 DEF IInv, SentIsAccepted, NoVersionLost, dbVars

(* A consumer that leaves its message, keeping part of its batch, disturbs *)
(* nothing if it touches neither the ledger nor a complete file and only   *)
(* gives up a ledger lock of its own.                                      *)
LEMMA ConsumerLeavesFrame ==
  ASSUME IInv, NEW c \in Consumer, UNCHANGED <<dbVars, relay, ledger>>,
         \A m \in queue' : m \in queue, UNCHANGED dead,
         \A v \in Version : raw[v] = "full" => raw'[v] = "full",
         \A v \in Version : derived[v] = "full" => derived'[v] = "full",
         \A d \in Consumer \ {c} : consumer'[d] = consumer[d],
         consumer'[c].step \in {"idle", "batch"},
         consumer'[c].todo \subseteq consumer[c].todo,
         \A d \in Consumer \ {c} : writer = d => writer' = d
  PROVE  EvidenceFirst' /\ HeldVersionsStored' /\ WriterHoldsLedger' /\ FilesBeforeLedger'
         /\ LedgerMeansArchived'
  <1>1. /\ EvidenceFirst /\ HeldVersionsStored /\ WriterHoldsLedger /\ FilesBeforeLedger
        /\ LedgerMeansArchived /\ ledger \subseteq Version
    BY DEF IInv, TypeOK
  <1>2. \A d \in Consumer : consumer[d].step \notin {"idle", "batch"} => InHand(d) \in Version
    BY DEF IInv, TypeOK, ConsumerState, MessageId, InHand
  <1>3. EvidenceFirst' /\ LedgerMeansArchived'
    BY <1>1 DEF EvidenceFirst, LedgerMeansArchived, dbVars
  <1>4. HeldVersionsStored'
    BY <1>1 DEF HeldVersionsStored, InHand, dbVars
  <1>5. WriterHoldsLedger'
    BY <1>1 DEF WriterHoldsLedger, Archiving, InHand
  <1>6. FilesBeforeLedger'
    BY <1>1, <1>2 DEF FilesBeforeLedger, InHand
  <1> QED BY <1>3, <1>4, <1>5, <1>6

(* IInv is inductive. *)
LEMMA NextIInv == IInv /\ TypeOK' /\ [Next]_vars => IInv'
  <1> SUFFICES ASSUME IInv, TypeOK', [Next]_vars PROVE IInv'
    OBVIOUS
  <1>1. ASSUME NEW r \in Record, NEW h \in Hash, SaveRecord(r, h) PROVE IInv'
    <2>1. /\ versions' = versions \cup {<<r, h>>}
          /\ UNCHANGED <<sqsVars, relay, consumer, writer, ledger, fileVars>>
          /\ current' = [current EXCEPT ![r] = h]
          /\ \A v \in versions : outbox'[v] = outbox[v]
          /\ <<r, h>> \notin versions => outbox'[<<r, h>>].status = "PENDING"
      BY <1>1 DEF SaveRecord, Archive, NewRow
    <2>2. EvidenceFirst'
      BY <2>1 DEF IInv, TypeOK, EvidenceFirst, sqsVars
    <2>3. HeldVersionsStored'
      <3>1. versions \subseteq versions' /\ relay' = relay /\ consumer' = consumer
        BY <2>1
      <3>2. HeldVersionsStored
        BY DEF IInv
      <3> QED BY <3>1, <3>2 DEF HeldVersionsStored, InHand
    <2>4. WriterHoldsLedger' /\ FilesBeforeLedger' /\ LedgerMeansArchived' /\ SentIsAccepted'
      BY <2>1 DEF IInv, WriterHoldsLedger, Archiving, InHand, FilesBeforeLedger,
                  LedgerMeansArchived, SentIsAccepted, InQueue, sqsVars, fileVars
    <2>5. NoVersionLost'
      BY <2>1 DEF IInv, NoVersionLost, InQueue, sqsVars
    <2> QED BY <2>2, <2>3, <2>4, <2>5 DEF IInv
  <1>2. ASSUME NEW p \in Relay, ReadPending(p) PROVE IInv'
    <2>1. relay' = [relay EXCEPT ![p] = [step |-> "batch", todo |-> PendingRows, row |-> None]]
          /\ PendingRows \subseteq versions /\ UNCHANGED <<RelayRest, outbox, sqsVars>>
      BY <1>2 DEF ReadPending, PendingRows, Eligible
    <2>2. HeldVersionsStored'
      <3>1. [step |-> "batch", todo |-> PendingRows, row |-> None] \in RelayState
        BY <2>1 DEF IInv, TypeOK, RelayState
      <3> QED BY <2>1, <3>1, RelayRowsStored DEF RelayRest
    <2>3. SentIsAccepted' /\ NoVersionLost'
      BY <2>1 DEF IInv, TypeOK, SentIsAccepted, NoVersionLost, InQueue, RelayRest, sqsVars
    <2> QED BY <2>1, <2>2, <2>3, RelaySideFrame DEF IInv, sqsVars, EvidenceFirst
  <1>3. ASSUME NEW p \in Relay, NEW v \in Version, NEW step \in {"sent", "failing"},
               TakeRow(p, v, step),
               Accept(v) \/ (step = "failing" /\ UNCHANGED sqsVars)
        PROVE  IInv'
    <2>1. /\ relay' = [relay EXCEPT ![p] =
                          [step |-> step, todo |-> relay[p].todo \ {v}, row |-> v]]
          /\ v \in versions /\ relay[p].todo \subseteq versions
          /\ UNCHANGED <<RelayRest, outbox, dead>>
      <3>1. HeldVersionsStored
        BY DEF IInv
      <3>2. v \in versions /\ relay[p].todo \subseteq versions
        BY <1>3, <3>1 DEF TakeRow, HeldVersionsStored
      <3> QED BY <1>3, <3>2 DEF TakeRow, Accept, sqsVars
    <2>2. /\ \A m \in queue' : m.v \in versions
          /\ \A w \in Version : InQueue(w) => InQueue(w)'
          /\ step = "sent" => InQueue(v)'
      <3>1. \A m \in queue : m.v \in versions
        BY DEF IInv, EvidenceFirst
      <3>2. CASE Accept(v)
        <4> DEFINE m == [v |-> v, n |-> sends[v] + 1, receives |-> 0, visible |-> TRUE]
        <4>1. queue' = queue \cup {m} /\ m.v = v
          BY <3>2 DEF Accept
        <4> HIDE DEF m
        <4> QED BY <4>1, <2>1, <3>1 DEF InQueue, RelayRest
      <3>3. CASE step = "failing" /\ UNCHANGED sqsVars
        BY <3>3, <3>1, <2>1 DEF InQueue, sqsVars
      <3> QED BY <1>3, <3>2, <3>3
    <2>3. HeldVersionsStored'
      <3>1. [step |-> step, todo |-> relay[p].todo \ {v}, row |-> v] \in RelayState
        BY <2>1 DEF IInv, TypeOK, RelayState
      <3> QED BY <2>1, <3>1, RelayRowsStored DEF RelayRest
    <2>4. SentIsAccepted' /\ NoVersionLost'
      <3>1. relay'[p].row = v /\ relay'[p].step = step
            /\ \A q \in Relay \ {p} : relay'[q] = relay[q]
        BY <2>1 DEF IInv, TypeOK
      <3>2. versions \subseteq Version
            /\ \A q \in Relay : relay[q].step = "sent" => relay[q].row \in Version
        BY DEF IInv, TypeOK, RelayState
      <3> QED BY <2>1, <2>2, <3>1, <3>2 DEF IInv, SentIsAccepted, NoVersionLost, RelayRest
    <2> QED BY <2>1, <2>2, <2>3, <2>4, RelaySideFrame DEF IInv
  <1>4. ASSUME NEW p \in Relay, NEW status \in Status,
               relay[p].step \in {"sent", "failing"},
               status = "SENT" => relay[p].step = "sent",
               Mark(relay[p].row, status) \/ UNCHANGED outbox,
               NextRow(p) \/ RelayAt(p, "failing"),
               UNCHANGED <<RelayRest, sqsVars>>
        PROVE  IInv'
    <2>1. HeldVersionsStored'
      <3>1. PICK s : s = relay'[p]
        OBVIOUS
      <3>2. relay' = [relay EXCEPT ![p] = s] /\ s \in RelayState
        BY <1>4, <3>1 DEF NextRow, RelayAt, IInv, TypeOK
      <3>3. s.todo = relay[p].todo /\ (s.step \in {"sent", "failing"} => s.row = relay[p].row)
        BY <1>4, <3>1 DEF NextRow, RelayAt, IInv, TypeOK, RelayState
      <3>4. relay[p].todo \subseteq versions /\ relay[p].row \in versions
        BY <1>4 DEF IInv, HeldVersionsStored
      <3> QED BY <1>4, <3>2, <3>3, <3>4, RelayRowsStored DEF RelayRest
    <2>2. SentIsAccepted'
      <3>1. relay'[p].step # "sent" /\ \A q \in Relay \ {p} : relay'[q] = relay[q]
        BY <1>4 DEF NextRow, RelayAt, IInv, TypeOK, RelayState
      <3> QED BY <1>4, <3>1 DEF IInv, SentIsAccepted, InQueue, RelayRest, sqsVars
    <2>3. NoVersionLost'
      BY <1>4 DEF IInv, TypeOK, NoVersionLost, SentIsAccepted, InQueue, Mark, RelayRest, sqsVars,
                  Status
    <2> QED BY <1>4, <2>1, <2>2, <2>3, RelaySideFrame DEF IInv, EvidenceFirst, sqsVars
  <1>5. ASSUME NEW p \in Relay, RelayStops(p) PROVE IInv'
    <2>1. relay' = [relay EXCEPT ![p] = IdleRelay] /\ IdleRelay \in RelayState
          /\ UNCHANGED <<RelayRest, outbox, sqsVars>>
      BY <1>5 DEF RelayStops, IdleRelay, RelayState
    <2>2. HeldVersionsStored'
      BY <2>1, RelayRowsStored DEF RelayRest, IdleRelay
    <2>3. SentIsAccepted' /\ NoVersionLost'
      BY <2>1 DEF IInv, TypeOK, SentIsAccepted, NoVersionLost, InQueue, RelayRest, sqsVars,
                  IdleRelay
    <2> QED BY <2>1, <2>2, <2>3, RelaySideFrame DEF IInv, sqsVars, EvidenceFirst
  <1>6. ASSUME NEW c \in Consumer, NEW got \in SUBSET queue, Receive(c, got) PROVE IInv'
    <2>1. /\ queue' = (queue \ got) \cup {Received(m) : m \in got}
          /\ \A m \in got : Received(m).v = m.v /\ IdOf(m)[1] = m.v /\ IdOf(m) \in MessageId
      BY <1>6 DEF Receive, Received, IdOf, IInv, TypeOK, Message, MessageId
    <2>2. \A v : InQueue(v)' <=> InQueue(v)
      BY <2>1 DEF InQueue
    <2>3. \A m \in queue : m.v \in versions
      BY DEF IInv, EvidenceFirst
    <2>4. EvidenceFirst' /\ LedgerMeansArchived'
      BY <1>6, <2>1, <2>3 DEF Receive, IInv, EvidenceFirst, LedgerMeansArchived, ConsumerRest,
                              dbVars, fileVars
    <2>5. SentIsAccepted' /\ NoVersionLost'
      BY <1>6, <2>2, ConsumerSideFrame DEF Receive, ConsumerRest
    <2>6. /\ consumer'[c].step = "batch" /\ \A id \in consumer'[c].todo : id[1] \in versions
          /\ \A d \in Consumer \ {c} : consumer'[d] = consumer[d]
      BY <1>6, <2>1, <2>3 DEF Receive, IInv, TypeOK
    <2>7. HeldVersionsStored' /\ WriterHoldsLedger' /\ FilesBeforeLedger'
      BY <1>6, <2>6 DEF Receive, IInv, HeldVersionsStored, WriterHoldsLedger, Archiving, InHand,
                        FilesBeforeLedger, ConsumerRest, dbVars, fileVars
    <2> QED BY <2>4, <2>5, <2>7 DEF IInv
  <1>7. ASSUME NEW m \in queue, VisibilityTimeout(m) \/ Redrive(m) PROVE IInv'
    <2>1. [m EXCEPT !.visible = TRUE].v = m.v
      <3>1. m \in Message
        BY DEF IInv, TypeOK
      <3> QED BY <3>1 DEF Message
    <2>2. /\ \A k \in queue' : k.v \in versions
          /\ dead' \subseteq versions /\ dead \subseteq dead'
          /\ \A v : InQueue(v) => InQueue(v)' \/ v \in dead'
      BY <1>7, <2>1 DEF VisibilityTimeout, Redrive, IInv, EvidenceFirst, InQueue
    <2>3. UNCHANGED <<ConsumerRest, consumer, writer, ledger, fileVars>>
      BY <1>7 DEF VisibilityTimeout, Redrive
    <2>4. SentIsAccepted' /\ NoVersionLost'
      BY <2>2, <2>3, ConsumerSideFrame DEF ConsumerRest
    <2>5. EvidenceFirst'
      BY <2>2, <2>3 DEF IInv, EvidenceFirst, ConsumerRest, dbVars
    <2>6. HeldVersionsStored' /\ WriterHoldsLedger' /\ FilesBeforeLedger' /\ LedgerMeansArchived'
      BY <2>3 DEF IInv, HeldVersionsStored, WriterHoldsLedger, Archiving, InHand,
                  FilesBeforeLedger, LedgerMeansArchived, ConsumerRest, dbVars, fileVars
    <2> QED BY <2>4, <2>5, <2>6 DEF IInv
  <1>8. ASSUME NEW c \in Consumer, NEW id \in consumer[c].todo, BeginNew(c, id) PROVE IInv'
    <2>1. /\ consumer'[c].step = "raw" /\ consumer'[c].msg = id
          /\ consumer'[c].todo = consumer[c].todo \ {id}
          /\ \A d \in Consumer \ {c} : consumer'[d] = consumer[d]
      BY <1>8 DEF BeginNew, TakeMessage, IInv, TypeOK
    <2>2. \A d \in Consumer : ~Archiving(d)
      BY <1>8, PipelineAssumption DEF BeginNew, IInv, WriterHoldsLedger
    <2>3. SentIsAccepted' /\ NoVersionLost'
      BY <1>8, ConsumerSideFrame DEF BeginNew, ConsumerRest, InQueue
    <2>4. EvidenceFirst' /\ LedgerMeansArchived'
      BY <1>8 DEF BeginNew, IInv, EvidenceFirst, LedgerMeansArchived, ConsumerRest, dbVars, fileVars
    <2>5. HeldVersionsStored'
      BY <1>8, <2>1 DEF BeginNew, IInv, HeldVersionsStored, InHand, ConsumerRest, dbVars
    <2>6. WriterHoldsLedger' /\ FilesBeforeLedger'
      BY <1>8, <2>1, <2>2 DEF BeginNew, IInv, WriterHoldsLedger, Archiving, InHand,
                              FilesBeforeLedger, fileVars
    <2> QED BY <2>3, <2>4, <2>5, <2>6 DEF IInv
  <1>9. ASSUME NEW c \in Consumer, NEW id \in consumer[c].todo, BeginKnown(c, id) PROVE IInv'
    <2>1. /\ consumer'[c].step = "delete" /\ consumer'[c].msg = id
          /\ consumer'[c].todo = consumer[c].todo \ {id}
          /\ \A d \in Consumer \ {c} : consumer'[d] = consumer[d]
      BY <1>9 DEF BeginKnown, TakeMessage, IInv, TypeOK
    <2>2. SentIsAccepted' /\ NoVersionLost'
      BY <1>9, ConsumerSideFrame DEF BeginKnown, ConsumerRest, InQueue
    <2>3. EvidenceFirst' /\ LedgerMeansArchived'
      BY <1>9 DEF BeginKnown, IInv, EvidenceFirst, LedgerMeansArchived, ConsumerRest, dbVars,
                  fileVars
    <2>4. HeldVersionsStored'
      BY <1>9, <2>1 DEF BeginKnown, IInv, HeldVersionsStored, InHand, ConsumerRest, dbVars
    <2>5. WriterHoldsLedger' /\ FilesBeforeLedger'
      BY <1>9, <2>1 DEF BeginKnown, IInv, WriterHoldsLedger, Archiving, InHand,
                        FilesBeforeLedger, fileVars
    <2> QED BY <2>2, <2>3, <2>4, <2>5 DEF IInv
  <1>10. ASSUME NEW c \in Consumer, WriteRaw(c) \/ WriteDerived(c) PROVE IInv'
    <2>1. /\ consumer[c].step \in {"raw", "derived"} /\ consumer'[c].msg = consumer[c].msg
          /\ consumer'[c].step = IF consumer[c].step = "raw" THEN "derived" ELSE "commit"
          /\ consumer'[c].todo = consumer[c].todo
          /\ \A d \in Consumer \ {c} : consumer'[d] = consumer[d]
      BY <1>10 DEF WriteRaw, WriteDerived, ConsumerAt, IInv, TypeOK, ConsumerState
    <2>2. UNCHANGED <<ConsumerRest, queue, dead, writer, ledger>>
      BY <1>10 DEF WriteRaw, WriteDerived
    <2>3. /\ \A v \in Version : raw[v] = "full" => raw'[v] = "full"
          /\ \A v \in Version : derived[v] = "full" => derived'[v] = "full"
          /\ consumer[c].step = "raw" => raw'[InHand(c)] = "full"
          /\ consumer[c].step = "derived" => derived'[InHand(c)] = "full"
      <3>1. InHand(c) \in Version
        BY <2>1 DEF IInv, TypeOK, ConsumerState, MessageId, InHand
      <3> QED BY <1>10, <3>1 DEF WriteRaw, WriteDerived, WriteFile, IInv, TypeOK
    <2>4. SentIsAccepted' /\ NoVersionLost'
      BY <2>2, ConsumerSideFrame DEF ConsumerRest, InQueue
    <2>5. EvidenceFirst' /\ HeldVersionsStored'
      BY <2>1, <2>2 DEF IInv, EvidenceFirst, HeldVersionsStored, InHand, ConsumerRest, dbVars
    <2>6. LedgerMeansArchived'
      BY <2>2, <2>3 DEF IInv, TypeOK, LedgerMeansArchived
    <2>7. WriterHoldsLedger'
      BY <2>1, <2>2 DEF IInv, WriterHoldsLedger, Archiving, InHand
    <2>8. FilesBeforeLedger'
      <3>1. \A d \in Consumer : consumer[d].step \notin {"idle", "batch"} => InHand(d) \in Version
        BY DEF IInv, TypeOK, ConsumerState, MessageId, InHand
      <3> QED BY <2>1, <2>2, <2>3, <3>1 DEF IInv, FilesBeforeLedger, InHand
    <2> QED BY <2>4, <2>5, <2>6, <2>7, <2>8 DEF IInv
  <1>11. ASSUME NEW c \in Consumer, Commit(c) PROVE IInv'
    <2>1. /\ consumer[c].step = "commit" /\ consumer'[c].step = "delete"
          /\ consumer'[c].msg = consumer[c].msg /\ consumer'[c].todo = consumer[c].todo
          /\ \A d \in Consumer \ {c} : consumer'[d] = consumer[d]
          /\ ledger' = ledger \cup {InHand(c)}
          /\ UNCHANGED <<ConsumerRest, queue, dead, fileVars>>
      BY <1>11 DEF Commit, ConsumerAt, IInv, TypeOK, ConsumerState
    <2>2. InHand(c) \in versions /\ raw[InHand(c)] = "full" /\ derived[InHand(c)] = "full"
      BY <2>1 DEF IInv, HeldVersionsStored, FilesBeforeLedger
    <2>3. \A d \in Consumer \ {c} : ~Archiving(d)
      BY <2>1 DEF IInv, WriterHoldsLedger, Archiving
    <2>4. SentIsAccepted' /\ NoVersionLost'
      BY <2>1, ConsumerSideFrame DEF ConsumerRest, InQueue
    <2>5. EvidenceFirst' /\ LedgerMeansArchived'
      BY <2>1, <2>2 DEF IInv, EvidenceFirst, LedgerMeansArchived, ConsumerRest, dbVars, fileVars
    <2>6. HeldVersionsStored' /\ WriterHoldsLedger' /\ FilesBeforeLedger'
      BY <2>1, <2>3 DEF IInv, HeldVersionsStored, WriterHoldsLedger, Archiving, FilesBeforeLedger,
                        InHand, ConsumerRest, dbVars, fileVars
    <2> QED BY <2>4, <2>5, <2>6 DEF IInv
  <1>12. ASSUME NEW c \in Consumer, NEW id \in consumer[c].todo, BeginBusy(c, id) PROVE IInv'
    <2>1. /\ consumer'[c].step \in {"idle", "batch"} /\ consumer'[c].todo \subseteq consumer[c].todo
          /\ \A d \in Consumer \ {c} : consumer'[d] = consumer[d]
          /\ UNCHANGED <<ConsumerRest, queue, dead, writer, ledger, fileVars>>
      BY <1>12 DEF BeginBusy, IInv, TypeOK
    <2>2. SentIsAccepted' /\ NoVersionLost'
      BY <2>1, ConsumerSideFrame DEF ConsumerRest, InQueue
    <2> QED BY <2>1, <2>2, ConsumerLeavesFrame DEF IInv, ConsumerRest, fileVars
  <1>13. ASSUME NEW c \in Consumer, DeleteMessage(c) PROVE IInv'
    <2>1. /\ consumer'[c].step \in {"idle", "batch"} /\ consumer'[c].todo = consumer[c].todo
          /\ \A d \in Consumer \ {c} : consumer'[d] = consumer[d]
          /\ UNCHANGED <<ConsumerRest, dead, writer, ledger, fileVars>>
          /\ queue' = {m \in queue : IdOf(m) # consumer[c].msg}
          /\ InHand(c) \in ledger
      BY <1>13 DEF DeleteMessage, NextMessage, IInv, TypeOK, FilesBeforeLedger
    <2>2. \A v : InQueue(v) => InQueue(v)' \/ v \in ledger
      <3>1. \A m \in queue : IdOf(m) = consumer[c].msg => m.v = InHand(c)
        BY DEF IdOf, InHand
      <3> QED BY <2>1, <3>1 DEF InQueue
    <2>3. SentIsAccepted' /\ NoVersionLost'
      BY <2>1, <2>2, ConsumerSideFrame DEF ConsumerRest
    <2> QED BY <2>1, <2>3, ConsumerLeavesFrame DEF IInv, ConsumerRest, fileVars
  <1>14. ASSUME NEW c \in Consumer, ProcessConflict(c) \/ ProcessRaises(c) \/ ConsumerStops(c)
         PROVE  IInv'
    <2>1. /\ consumer'[c].step \in {"idle", "batch"} /\ consumer'[c].todo \subseteq consumer[c].todo
          /\ \A d \in Consumer \ {c} : consumer'[d] = consumer[d]
      BY <1>14 DEF ProcessConflict, ProcessRaises, ConsumerStops, NextMessage, IdleConsumer,
                   IInv, TypeOK
    <2>2. /\ UNCHANGED <<ConsumerRest, queue, dead, ledger>>
          /\ \A d \in Consumer \ {c} : writer = d => writer' = d
      BY <1>14 DEF ProcessConflict, ProcessRaises, ConsumerStops, Rollback
    <2>3. /\ \A v \in Version : raw[v] = "full" => raw'[v] = "full"
          /\ \A v \in Version : derived[v] = "full" => derived'[v] = "full"
      <3>1. UNCHANGED fileVars \/ Torn(c)
        BY <1>14 DEF ProcessConflict, ProcessRaises, ConsumerStops
      <3>2. raw \in [Version -> FileState] /\ derived \in [Version -> FileState]
        BY DEF IInv, TypeOK
      <3> QED BY <3>1, <3>2 DEF Torn, fileVars
    <2>4. SentIsAccepted' /\ NoVersionLost'
      BY <2>2, ConsumerSideFrame DEF ConsumerRest, InQueue
    <2> QED BY <2>1, <2>2, <2>3, <2>4, ConsumerLeavesFrame DEF IInv, ConsumerRest
  <1>15. CASE UNCHANGED vars
    BY <1>15 DEF vars, dbVars, sqsVars, fileVars, IInv, EvidenceFirst, HeldVersionsStored,
                 WriterHoldsLedger, Archiving, FilesBeforeLedger, LedgerMeansArchived,
                 SentIsAccepted, NoVersionLost, InQueue, InHand
  <1>16. ASSUME NEW p \in Relay, RelayStep(p) PROVE IInv'
    <2>1. ASSUME NEW v \in Version, SendMessage(p, v) PROVE IInv'
      BY <2>1, <1>3 DEF SendMessage
    <2>2. CASE MarkSent(p)
      BY <2>2, <1>4 DEF MarkSent, Status
    <2>3. CASE MarkFailed(p)
      BY <2>3, <1>4 DEF MarkFailed, Status
    <2> QED BY <1>16, <1>2, <2>1, <2>2, <2>3 DEF RelayStep
  <1>17. CASE Interruption
    <2>1. ASSUME NEW p \in Relay, NEW v \in Version, SendRaises(p, v) PROVE IInv'
      BY <2>1, <1>3 DEF SendRaises
    <2>2. ASSUME NEW p \in Relay, MarkSentRaises(p) PROVE IInv'
      BY <2>2, <1>4 DEF MarkSentRaises, Status
    <2> QED BY <1>17, <2>1, <2>2, <1>5, <1>14 DEF Interruption
  <1> QED BY <1>1, <1>16, <1>6, <1>7, <1>8, <1>9, <1>10, <1>11, <1>12, <1>13, <1>14, <1>15, <1>17
          DEF Next, ConsumerStep

(* The inductive invariant holds in every reachable state. *)
THEOREM InvariantHolds == Spec => []IInv
  BY InitIInv, NextIInv, TypeCorrect, PTL DEF Spec

(* An observed version is never lost between the database and the archive, *)
(* whatever is interrupted, redelivered or dead-lettered on the way.       *)
THEOREM NothingLost == Spec => []NoVersionLost
  <1>1. IInv => NoVersionLost
    BY DEF IInv
  <1> QED BY <1>1, InvariantHolds, PTL

(* A ledger entry, hence an acknowledged message, means both files exist   *)
(* in full.                                                                *)
THEOREM AcknowledgedIsArchived == Spec => []LedgerMeansArchived
  <1>1. IInv => LedgerMeansArchived
    BY DEF IInv
  <1> QED BY <1>1, InvariantHolds, PTL

(* No dangling job: what is queued or archived has its evidence stored. *)
THEOREM EvidenceIsFirst == Spec => []EvidenceFirst
  <1>1. IInv => EvidenceFirst
    BY DEF IInv
  <1> QED BY <1>1, InvariantHolds, PTL

(* Consumers sharing one ledger archive each version once, one at a time. *)
THEOREM OneArchiver == Spec => []ArchivedOnce
  <1>1. IInv => ArchivedOnce
    BY DEF IInv, WriterHoldsLedger, ArchivedOnce
  <1> QED BY <1>1, InvariantHolds, PTL

-----------------------------------------------------------------------------
(* One relay: the rows of its batch stay eligible until it sends them, and *)
(* a version is sent again only at the price of a fault.                   *)
OneRelay == \A p, q \in Relay : p = q

BatchOpen ==
    \A p \in Relay :
        /\ relay[p].todo \subseteq Eligible
        /\ relay[p].step = "sent" => relay[p].row \in Eligible
        /\ relay[p].step \in {"sent", "failing"} => relay[p].row \notin relay[p].todo

InSend(v) == \E p \in Relay : relay[p].step = "sent" /\ relay[p].row = v

SendsPaid ==
    /\ \A p \in Relay : relay[p].step = "failing" => sends[relay[p].row] <= faults
    /\ \A v \in Version :
        /\ sends[v] <= 1 + faults
        /\ ~InSend(v) /\ (v \in versions => outbox[v].status # "SENT") => sends[v] <= faults

RelayIInv == BatchOpen /\ SendsPaid

(* Nothing has been sent at the start. *)
LEMMA InitRelayIInv == Init => RelayIInv
  BY DEF Init, RelayIInv, BatchOpen, SendsPaid, IdleRelay

(* What a number of faults has paid for, a greater one has. *)
LEMMA StillPaid ==
  ASSUME NEW few \in Nat, NEW many \in Nat, few <= many
  PROVE  \A n \in Nat : (n <= few => n <= many) /\ (n <= 1 + few => n <= 1 + many)
  OBVIOUS

(* A step that leaves the relay and its rows alone keeps what it relies on. *)
LEMMA RelayUndisturbed ==
  ASSUME IInv, TypeOK', RelayIInv, UNCHANGED <<versions, outbox, sends, relay>>, faults <= faults'
  PROVE  RelayIInv'
  <1>1. BatchOpen /\ SendsPaid /\ faults \in Nat /\ faults' \in Nat /\ sends \in [Version -> Nat]
    BY DEF IInv, TypeOK, RelayIInv
  <1>2. BatchOpen'
    BY <1>1 DEF BatchOpen, Eligible
  <1>3. \A v \in Version : InSend(v)' <=> InSend(v)
    BY DEF InSend
  <1>4. \A n \in Nat : (n <= faults => n <= faults') /\ (n <= 1 + faults => n <= 1 + faults')
    BY <1>1, StillPaid
  <1>5. \A p \in Relay : relay[p].step = "failing" => relay[p].row \in Version
    BY DEF IInv, TypeOK, RelayState
  <1>6. SendsPaid'
    <2>1. \A v \in Version : sends[v] \in Nat
      BY <1>1
    <2> QED BY <1>1, <1>3, <1>4, <1>5, <2>1 DEF SendsPaid
  <1> QED BY <1>2, <1>6 DEF RelayIInv

(* A new row is eligible and a row that is there stays as it is. *)
LEMMA SaveKeepsRelay ==
  ASSUME IInv, RelayIInv, NEW r \in Record, NEW h \in Hash, SaveRecord(r, h)
  PROVE  RelayIInv'
  <1>1. /\ versions' = versions \cup {<<r, h>>} /\ UNCHANGED <<sends, relay, faults>>
        /\ \A v \in versions : outbox'[v] = outbox[v]
    BY DEF SaveRecord, Archive, sqsVars
  <1>2. BatchOpen /\ SendsPaid
    BY DEF RelayIInv
  <1>3. Eligible \subseteq Eligible'
    BY <1>1 DEF Eligible
  <1>4. BatchOpen'
    BY <1>1, <1>2, <1>3 DEF BatchOpen
  <1>5. SendsPaid'
    BY <1>1, <1>2 DEF SendsPaid, InSend
  <1> QED BY <1>4, <1>5 DEF RelayIInv

(* What the only relay does next decides what is known of its batch.       *)
LEMMA OneRelayMoves ==
  ASSUME OneRelay, NEW p \in Relay,
         relay'[p].todo \subseteq Eligible',
         relay'[p].step = "sent" => relay'[p].row \in Eligible',
         relay'[p].step \in {"sent", "failing"} => relay'[p].row \notin relay'[p].todo,
         relay'[p].step = "failing" => sends'[relay'[p].row] <= faults',
         \A v \in Version :
             /\ sends'[v] <= 1 + faults'
             /\ \/ relay'[p].step = "sent" /\ relay'[p].row = v
                \/ v \in versions' /\ outbox'[v].status = "SENT"
                \/ sends'[v] <= faults'
  PROVE  RelayIInv'
  <1>1. \A q \in Relay : q = p
    BY DEF OneRelay
  <1> QED BY <1>1 DEF RelayIInv, BatchOpen, SendsPaid, InSend

(* What is known of the version in hand and of the others. *)
LEMMA OneRelayKnows ==
  ASSUME OneRelay, IInv, RelayIInv, NEW p \in Relay
  PROVE  /\ relay[p].todo \subseteq Eligible /\ Eligible \subseteq versions
         /\ versions \subseteq Version
         /\ relay[p].step = "sent" => relay[p].row \in Eligible
         /\ relay[p].step \in {"sent", "failing"} => /\ relay[p].row \notin relay[p].todo
                                                     /\ relay[p].row \in versions
         /\ relay[p].step = "failing" => sends[relay[p].row] <= faults
         /\ \A v \in Version :
             /\ sends[v] \in Nat /\ sends[v] <= 1 + faults
             /\ \/ relay[p].step = "sent" /\ relay[p].row = v
                \/ v \in versions /\ outbox[v].status = "SENT"
                \/ sends[v] <= faults
         /\ faults \in Nat
  <1>1. \A q \in Relay : q = p
    BY DEF OneRelay
  <1>2. BatchOpen /\ SendsPaid /\ TypeOK /\ HeldVersionsStored
    BY DEF IInv, RelayIInv
  <1>3. Eligible \subseteq versions
    BY DEF Eligible
  <1>4. /\ versions \subseteq Version /\ faults \in Nat /\ \A v \in Version : sends[v] \in Nat
    BY <1>2 DEF TypeOK
  <1>5. \A v \in Version :
             /\ sends[v] <= 1 + faults
             /\ \/ relay[p].step = "sent" /\ relay[p].row = v
                \/ v \in versions /\ outbox[v].status = "SENT"
                \/ sends[v] <= faults
    BY <1>1, <1>2 DEF SendsPaid, InSend
  <1>6. relay[p].step = "failing" => sends[relay[p].row] <= faults
    BY <1>2 DEF SendsPaid
  <1>7. relay[p].step \in {"sent", "failing"} => relay[p].row \in versions
    BY <1>2 DEF HeldVersionsStored
  <1> QED BY <1>2, <1>3, <1>4, <1>5, <1>6, <1>7 DEF BatchOpen

(* The rows of a batch are eligible; a relay that begins one has none in   *)
(* hand.                                                                   *)
LEMMA ReadKeepsRelay ==
  ASSUME OneRelay, IInv, RelayIInv, NEW p \in Relay, ReadPending(p) PROVE RelayIInv'
  <1>1. /\ relay[p].step = "idle" /\ relay'[p].step = "batch" /\ relay'[p].todo = PendingRows
        /\ UNCHANGED <<versions, outbox, sends, faults>>
    BY DEF ReadPending, RelayRest, sqsVars, IInv, TypeOK
  <1>2. PendingRows \subseteq Eligible /\ Eligible' = Eligible
    BY <1>1 DEF PendingRows, Eligible
  <1> QED BY <1>1, <1>2, OneRelayKnows, OneRelayMoves

(* Sending takes an eligible row out of the batch: at most as many sends   *)
(* as faults were before.                                                  *)
LEMMA SendKeepsRelay ==
  ASSUME OneRelay, IInv, RelayIInv, NEW p \in Relay, NEW v \in Version,
         NEW step \in {"sent", "failing"}, TakeRow(p, v, step), UNCHANGED <<outbox, versions>>,
         faults' = IF step = "failing" THEN faults + 1 ELSE faults,
         sends' = [sends EXCEPT ![v] = @ + 1] \/ (step = "failing" /\ sends' = sends)
  PROVE  RelayIInv'
  <1>1. /\ relay[p].step = "batch" /\ v \in relay[p].todo /\ relay'[p].step = step
        /\ relay'[p].todo = relay[p].todo \ {v} /\ relay'[p].row = v
    BY DEF TakeRow, IInv, TypeOK
  <1>2. Eligible' = Eligible
    BY DEF Eligible
  <1>3. v \in Eligible /\ outbox[v].status # "SENT"
    BY <1>1, OneRelayKnows DEF Eligible
  <1>4. sends[v] <= faults /\ sends[v] \in Nat /\ faults \in Nat /\ sends \in [Version -> Nat]
    BY <1>1, <1>3, OneRelayKnows DEF IInv, TypeOK
  <1>5. /\ sends'[v] <= sends[v] + 1 /\ sends'[v] \in Nat
        /\ step = "failing" => sends'[v] <= faults' /\ sends'[v] <= 1 + faults'
        /\ step = "sent" => sends'[v] <= 1 + faults'
    BY <1>4
  <1>6. \A w \in Version \ {v} : sends'[w] = sends[w]
    BY <1>4
  <1>7. \A n \in Nat : (n <= faults => n <= faults') /\ (n <= 1 + faults => n <= 1 + faults')
    BY <1>4
  <1>8. \A w \in Version \ {v} :
             /\ sends'[w] <= 1 + faults'
             /\ \/ w \in versions' /\ outbox'[w].status = "SENT"
                \/ sends'[w] <= faults'
    BY <1>1, <1>6, <1>7, OneRelayKnows
  <1>9. relay'[p].todo \subseteq Eligible'
    BY <1>1, <1>2, OneRelayKnows
  <1>10. \A w \in Version :
             /\ sends'[w] <= 1 + faults'
             /\ \/ relay'[p].step = "sent" /\ relay'[p].row = w
                \/ w \in versions' /\ outbox'[w].status = "SENT"
                \/ sends'[w] <= faults'
    BY <1>1, <1>5, <1>8
  <1> QED BY <1>1, <1>2, <1>3, <1>5, <1>9, <1>10, OneRelayMoves

(* Marking a row disturbs no other row. *)
LEMMA MarksOne ==
  ASSUME IInv, NEW v \in versions, NEW status, Mark(v, status)
  PROVE  /\ outbox'[v].status = status /\ outbox'[v].attempts = outbox[v].attempts + 1
         /\ \A w \in versions \ {v} : outbox'[w] = outbox[w]
  BY DEF IInv, TypeOK, Mark

(* The mark of the row in hand, made or failed. *)
LEMMA MarkKeepsRelay ==
  ASSUME OneRelay, IInv, RelayIInv, NEW p \in Relay, NEW status \in {"SENT", "FAILED"},
         relay[p].step \in {"sent", "failing"}, status = "FAILED" => relay[p].step = "failing",
         UNCHANGED <<versions, sends>>,
         \/ /\ Mark(relay[p].row, status) /\ relay'[p].step \notin {"sent", "failing"}
            /\ faults' = faults
         \/ /\ Mark(relay[p].row, status) \/ UNCHANGED outbox
            /\ relay'[p].step = "failing" /\ relay'[p].row = relay[p].row /\ faults' = faults + 1,
         relay'[p].todo = relay[p].todo
  PROVE  RelayIInv'
  <1> DEFINE row == relay[p].row
  <1>1. row \in versions /\ row \in Version /\ row \notin relay[p].todo
    BY OneRelayKnows
  <1>2. /\ \A w \in versions \ {row} : outbox'[w] = outbox[w]
        /\ outbox'[row].status \in {status, outbox[row].status}
        /\ relay'[p].step # "failing" => outbox'[row].status = status
    BY <1>1, MarksOne
  <1>3. Eligible \ {row} \subseteq Eligible'
    BY <1>2 DEF Eligible
  <1>4. relay'[p].todo \subseteq Eligible'
    BY <1>1, <1>3, OneRelayKnows
  <1>5. \A n \in Nat : (n <= faults => n <= faults') /\ (n <= 1 + faults => n <= 1 + faults')
                       /\ (n <= 1 + faults /\ faults' = faults + 1 => n <= faults')
    BY OneRelayKnows
  <1>6. \A w \in Version \ {row} :
             /\ sends'[w] <= 1 + faults'
             /\ \/ w \in versions' /\ outbox'[w].status = "SENT"
                \/ sends'[w] <= faults'
    BY <1>2, <1>5, OneRelayKnows
  <1>7. sends[row] \in Nat /\ sends[row] <= 1 + faults /\ sends'[row] = sends[row]
        /\ (relay[p].step = "failing" => sends[row] <= faults)
    BY <1>1, OneRelayKnows
  <1>8. /\ sends'[row] <= 1 + faults'
        /\ relay'[p].step = "failing" => sends'[row] <= faults'
        /\ outbox'[row].status = "SENT" \/ sends'[row] <= faults'
    BY <1>2, <1>5, <1>7
  <1>9. \A w \in Version :
             /\ sends'[w] <= 1 + faults'
             /\ \/ relay'[p].step = "sent" /\ relay'[p].row = w
                \/ w \in versions' /\ outbox'[w].status = "SENT"
                \/ sends'[w] <= faults'
    BY <1>1, <1>6, <1>8
  <1>10. /\ relay'[p].step # "sent"
         /\ relay'[p].step = "failing" => relay'[p].row = row
    OBVIOUS
  <1> HIDE DEF row
  <1> QED BY <1>1, <1>4, <1>8, <1>9, <1>10, OneRelayMoves

(* A relay that dies has paid for the message it may have sent. *)
LEMMA StopKeepsRelay ==
  ASSUME OneRelay, IInv, RelayIInv, NEW p \in Relay, RelayStops(p) PROVE RelayIInv'
  <1>1. /\ relay'[p].step = "idle" /\ relay'[p].todo = {} /\ faults' = faults + 1
        /\ UNCHANGED <<versions, outbox, sends>>
    BY DEF RelayStops, Fault, RelayRest, sqsVars, IdleRelay, IInv, TypeOK
  <1>2. \A n \in Nat : n <= 1 + faults => n <= faults' /\ n <= 1 + faults'
    BY <1>1, OneRelayKnows
  <1> QED BY <1>1, <1>2, OneRelayKnows, OneRelayMoves

(* RelayIInv is inductive. *)
LEMMA NextRelayIInv ==
  ASSUME OneRelay, IInv, TypeOK', RelayIInv, [Next]_vars PROVE RelayIInv'
  <1>1. ASSUME NEW r \in Record, NEW h \in Hash, SaveRecord(r, h) PROVE RelayIInv'
    BY <1>1, SaveKeepsRelay
  <1>2. ASSUME NEW p \in Relay, RelayStep(p) PROVE RelayIInv'
    <2>1. CASE ReadPending(p)
      BY <2>1, ReadKeepsRelay
    <2>2. ASSUME NEW v \in Version, SendMessage(p, v) PROVE RelayIInv'
      <3>1. /\ TakeRow(p, v, "sent") /\ UNCHANGED <<outbox, versions, faults>>
            /\ sends' = [sends EXCEPT ![v] = @ + 1]
        BY <2>2 DEF SendMessage, TakeRow, Accept, RelayRest
      <3> QED BY <3>1, SendKeepsRelay
    <2>3. CASE MarkSent(p)
      <3>1. /\ relay[p].step = "sent" /\ Mark(relay[p].row, "SENT")
            /\ UNCHANGED <<versions, sends, faults>>
            /\ relay'[p].step \notin {"sent", "failing"} /\ relay'[p].todo = relay[p].todo
        BY <2>3 DEF MarkSent, NextRow, RelayRest, sqsVars, IInv, TypeOK
      <3> QED BY <3>1, MarkKeepsRelay
    <2>4. CASE MarkFailed(p)
      <3>1. /\ relay[p].step = "failing" /\ Mark(relay[p].row, "FAILED")
            /\ UNCHANGED <<versions, sends, faults>>
            /\ relay'[p].step \notin {"sent", "failing"} /\ relay'[p].todo = relay[p].todo
        BY <2>4 DEF MarkFailed, NextRow, RelayRest, sqsVars, IInv, TypeOK
      <3> QED BY <3>1, MarkKeepsRelay
    <2> QED BY <1>2, <2>1, <2>2, <2>3, <2>4 DEF RelayStep
  <1>3. faults \in Nat /\ faults <= faults /\ faults <= faults + 1
    BY DEF IInv, TypeOK
  <1>4. ASSUME NEW c \in Consumer, NEW got \in SUBSET queue, Receive(c, got) PROVE RelayIInv'
    BY <1>3, <1>4, RelayUndisturbed DEF Receive, ConsumerRest, dbVars
  <1>5. ASSUME NEW m \in queue, VisibilityTimeout(m) \/ Redrive(m) PROVE RelayIInv'
    BY <1>3, <1>5, RelayUndisturbed DEF VisibilityTimeout, Redrive, ConsumerRest, dbVars
  <1>6. ASSUME NEW c \in Consumer, ConsumerStep(c) PROVE RelayIInv'
    <2>1. UNCHANGED <<versions, outbox, sends, relay, faults>>
      BY <1>6 DEF ConsumerStep, BeginNew, BeginKnown, BeginBusy, WriteRaw, WriteDerived, Commit,
                  DeleteMessage, ProcessConflict, ConsumerRest, dbVars
    <2> QED BY <1>3, <2>1, RelayUndisturbed
  <1>7. CASE Interruption
    <2>1. ASSUME NEW p \in Relay, NEW v \in Version, SendRaises(p, v) PROVE RelayIInv'
      <3>1. /\ TakeRow(p, v, "failing") /\ UNCHANGED <<outbox, versions>> /\ faults' = faults + 1
            /\ sends' = [sends EXCEPT ![v] = @ + 1] \/ sends' = sends
        BY <2>1 DEF SendRaises, TakeRow, Accept, Fault, RelayRest, sqsVars
      <3> QED BY <3>1, SendKeepsRelay
    <2>2. ASSUME NEW p \in Relay, MarkSentRaises(p) PROVE RelayIInv'
      <3>1. /\ relay[p].step = "sent"
            /\ Mark(relay[p].row, "SENT") \/ UNCHANGED outbox
            /\ UNCHANGED <<versions, sends>> /\ faults' = faults + 1
            /\ relay' = [relay EXCEPT ![p].step = "failing"]
        BY <2>2 DEF MarkSentRaises, RelayAt, RelayRest, sqsVars, Fault
      <3>2. relay[p] \in RelayState /\ relay \in [Relay -> RelayState]
        BY DEF IInv, TypeOK
      <3>3. /\ relay'[p].todo = relay[p].todo
            /\ relay'[p].step = "failing" /\ relay'[p].row = relay[p].row
        BY <3>1, <3>2 DEF RelayState
      <3> QED BY <3>1, <3>3, MarkKeepsRelay
    <2>3. ASSUME NEW p \in Relay, RelayStops(p) PROVE RelayIInv'
      BY <2>3, StopKeepsRelay
    <2>4. ASSUME NEW c \in Consumer, ProcessRaises(c) \/ ConsumerStops(c) PROVE RelayIInv'
      BY <1>3, <2>4, RelayUndisturbed DEF ProcessRaises, ConsumerStops, Fault, ConsumerRest, dbVars
    <2> QED BY <1>7, <2>1, <2>2, <2>3, <2>4 DEF Interruption
  <1>8. CASE UNCHANGED vars
    BY <1>3, <1>8, RelayUndisturbed DEF vars, dbVars, sqsVars
  <1> QED BY <1>1, <1>2, <1>4, <1>5, <1>6, <1>7, <1>8 DEF Next

(* With one relay, what it relies on always holds. *)
LEMMA RelayAlways ==
  ASSUME OneRelay PROVE Spec => []RelayIInv
  <1>1. Init => RelayIInv
    BY InitRelayIInv
  <1>2. IInv /\ TypeOK' /\ RelayIInv /\ [Next]_vars => RelayIInv'
    BY NextRelayIInv
  <1> QED BY <1>1, <1>2, InvariantHolds, TypeCorrect, PTL DEF Spec

(* With one relay a version is sent once, and once more at most for every  *)
(* fault, whatever the limits of a run and however it is interrupted.      *)
THEOREM DuplicatesArePaid ==
  ASSUME OneRelay PROVE Spec => []DuplicatesNeedFaults
  <1>1. RelayIInv => DuplicatesNeedFaults
    BY DEF RelayIInv, SendsPaid, DuplicatesNeedFaults
  <1> QED BY <1>1, RelayAlways, PTL

-----------------------------------------------------------------------------
(* The pipeline with one relay implements VersionDelivery: each step takes *)
(* a version where the promise lets it go, or leaves it where it was.      *)

(* Nothing is owed, archived or parked at the start. *)
LEMMA InitMaps == Init => Delivery!Init
  BY DEF Init, Delivery!Init

(* Only the observed, archived and parked versions matter. *)
LEMMA StutterMaps ==
  ASSUME UNCHANGED <<versions, outbox, ledger, dead>> PROVE UNCHANGED Delivery!vars
  BY DEF Delivery!vars, Parked

(* A page observes a new version or none. *)
LEMMA SaveMaps ==
  ASSUME IInv, NEW r \in Record, NEW h \in Hash, SaveRecord(r, h)
  PROVE  Delivery!Observe(<<r, h>>) \/ UNCHANGED Delivery!vars
  <1>1. /\ versions' = versions \cup {<<r, h>>} /\ UNCHANGED <<ledger, dead>>
        /\ \A v \in versions : outbox'[v] = outbox[v]
        /\ <<r, h>> \notin versions => outbox'[<<r, h>>].status = "PENDING"
    BY DEF SaveRecord, Archive, NewRow, sqsVars
  <1>2. dead \cup ledger \subseteq versions
    BY DEF IInv, EvidenceFirst
  <1>3. \A v \in versions : Parked(v)' <=> Parked(v)
    BY <1>1 DEF Parked
  <1>4. CASE <<r, h>> \in versions
    BY <1>1, <1>3, <1>4 DEF Delivery!vars
  <1>5. CASE <<r, h>> \notin versions
    <2>1. ~Parked(<<r, h>>)'
      BY <1>1, <1>2, <1>5 DEF Parked
    <2> QED BY <1>1, <1>2, <1>3, <1>5, <2>1 DEF Delivery!Observe
  <1> QED BY <1>4, <1>5

(* One more version is parked, or none if it is parked or archived already. *)
LEMMA ParkMaps ==
  ASSUME IInv, NEW v \in versions, UNCHANGED <<versions, ledger>>,
         \A w \in versions \ {v} : Parked(w)' <=> Parked(w), Parked(v) => Parked(v)'
  PROVE  Delivery!Park(v) \/ UNCHANGED Delivery!vars
  <1>1. CASE v \in ledger \/ Parked(v) \/ ~Parked(v)'
    BY <1>1 DEF Delivery!vars
  <1>2. CASE ~(v \in ledger \/ Parked(v) \/ ~Parked(v)')
    BY <1>2 DEF Delivery!Park
  <1> QED BY <1>1, <1>2

(* The mark of a row parks its version or leaves it; a row that is marked  *)
(* as sent had attempts left, so no version is taken back.                 *)
LEMMA MarkMaps ==
  ASSUME IInv, NEW v \in versions, NEW status \in {"SENT", "FAILED"}, Mark(v, status),
         status = "SENT" => v \in Eligible, UNCHANGED <<versions, ledger, dead>>
  PROVE  Delivery!Park(v) \/ UNCHANGED Delivery!vars
  <1>1. /\ outbox'[v].status = status /\ outbox'[v].attempts = outbox[v].attempts + 1
        /\ \A w \in versions \ {v} : outbox'[w] = outbox[w]
    BY MarksOne
  <1>2. outbox[v].attempts \in Nat /\ MaxAttempts \in Nat
    BY PipelineAssumption DEF IInv, TypeOK, Row
  <1>3. \A w \in versions \ {v} : Parked(w)' <=> Parked(w)
    BY <1>1 DEF Parked
  <1>4. Parked(v) => Parked(v)'
    <2>1. CASE v \in dead
      BY <2>1 DEF Parked
    <2>2. CASE v \notin dead /\ Parked(v)
      <3>1. outbox[v].status = "FAILED" /\ outbox[v].attempts >= MaxAttempts
        BY <2>2 DEF Parked
      <3>2. status = "FAILED"
        BY <1>2, <3>1 DEF Eligible
      <3>3. outbox[v].attempts + 1 >= MaxAttempts
        BY <1>2, <3>1
      <3> QED BY <1>1, <3>2, <3>3 DEF Parked
    <2> QED BY <2>1, <2>2
  <1> QED BY <1>3, <1>4, ParkMaps

(* Committing the ledger archives a version that was owed. *)
LEMMA CommitMaps ==
  ASSUME IInv, NEW c \in Consumer, Commit(c) PROVE Delivery!Archive(InHand(c))
  <1>1. /\ InHand(c) \in versions \ ledger /\ ledger' = ledger \cup {InHand(c)}
        /\ UNCHANGED <<versions, outbox, dead>>
    BY DEF IInv, Commit, HeldVersionsStored, WriterHoldsLedger, Archiving, ConsumerRest, dbVars
  <1>2. \A w : Parked(w)' <=> Parked(w)
    BY <1>1 DEF Parked
  <1> QED BY <1>1, <1>2 DEF Delivery!Archive

(* Every step of the pipeline is a step of the promise or a stutter. *)
LEMMA StepMaps ==
  ASSUME OneRelay, IInv, RelayIInv, [Next]_vars PROVE [Delivery!Next]_(Delivery!vars)
  <1>1. versions \subseteq Version
    BY DEF IInv, TypeOK
  <1>2. ASSUME NEW r \in Record, NEW h \in Hash, SaveRecord(r, h)
        PROVE  [Delivery!Next]_(Delivery!vars)
    <2>1. <<r, h>> \in Version
      BY DEF Version
    <2> QED BY <1>2, <2>1, SaveMaps DEF Delivery!Next
  <1>3. ASSUME NEW p \in Relay, ReadPending(p) \/ RelayStops(p)
        PROVE  [Delivery!Next]_(Delivery!vars)
    BY <1>3, StutterMaps DEF ReadPending, RelayStops, RelayRest, sqsVars
  <1>4. ASSUME NEW p \in Relay, NEW v \in Version, SendMessage(p, v) \/ SendRaises(p, v)
        PROVE  [Delivery!Next]_(Delivery!vars)
    BY <1>4, StutterMaps DEF SendMessage, SendRaises, TakeRow, Accept, RelayRest, sqsVars
  <1>5. ASSUME NEW p \in Relay, MarkSent(p) \/ MarkSentRaises(p) \/ MarkFailed(p)
        PROVE  [Delivery!Next]_(Delivery!vars)
    <2>1. /\ UNCHANGED <<versions, ledger, dead>> /\ relay[p].step \in {"sent", "failing"}
          /\ \/ Mark(relay[p].row, "SENT") /\ relay[p].step = "sent"
             \/ Mark(relay[p].row, "FAILED")
             \/ UNCHANGED outbox
      BY <1>5 DEF MarkSent, MarkSentRaises, MarkFailed, RelayRest, sqsVars
    <2>2. relay[p].row \in versions /\ (relay[p].step = "sent" => relay[p].row \in Eligible)
      BY <2>1, OneRelayKnows
    <2>3. CASE UNCHANGED outbox
      BY <2>1, <2>3, StutterMaps
    <2>4. CASE Mark(relay[p].row, "SENT") /\ relay[p].step = "sent"
      <3>1. Delivery!Park(relay[p].row) \/ UNCHANGED Delivery!vars
        BY <2>1, <2>2, <2>4, MarkMaps
      <3> QED BY <1>1, <2>2, <3>1 DEF Delivery!Next
    <2>5. CASE Mark(relay[p].row, "FAILED")
      <3>1. Delivery!Park(relay[p].row) \/ UNCHANGED Delivery!vars
        BY <2>1, <2>2, <2>5, MarkMaps
      <3> QED BY <1>1, <2>2, <3>1 DEF Delivery!Next
    <2> QED BY <2>1, <2>3, <2>4, <2>5
  <1>6. ASSUME NEW c \in Consumer, NEW got \in SUBSET queue, Receive(c, got)
        PROVE  [Delivery!Next]_(Delivery!vars)
    BY <1>6, StutterMaps DEF Receive, ConsumerRest, dbVars
  <1>7. ASSUME NEW m \in queue, VisibilityTimeout(m) PROVE [Delivery!Next]_(Delivery!vars)
    BY <1>7, StutterMaps DEF VisibilityTimeout, ConsumerRest, dbVars
  <1>8. ASSUME NEW m \in queue, Redrive(m) PROVE [Delivery!Next]_(Delivery!vars)
    <2>1. /\ UNCHANGED <<versions, outbox, ledger>> /\ dead' = dead \cup {m.v}
          /\ m.v \in versions
      BY <1>8 DEF Redrive, ConsumerRest, dbVars, IInv, EvidenceFirst
    <2>2. Delivery!Park(m.v) \/ UNCHANGED Delivery!vars
      BY <2>1, ParkMaps DEF Parked
    <2> QED BY <1>1, <2>1, <2>2 DEF Delivery!Next
  <1>9. ASSUME NEW c \in Consumer, Commit(c) PROVE [Delivery!Next]_(Delivery!vars)
    <2>1. InHand(c) \in versions
      BY <1>9 DEF IInv, HeldVersionsStored, Commit
    <2> QED BY <1>1, <1>9, <2>1, CommitMaps DEF Delivery!Next
  <1>10. ASSUME NEW c \in Consumer, ConsumerStep(c) PROVE [Delivery!Next]_(Delivery!vars)
    <2>1. Commit(c) \/ UNCHANGED <<versions, outbox, ledger, dead>>
      BY <1>10 DEF ConsumerStep, BeginNew, BeginKnown, BeginBusy, WriteRaw, WriteDerived,
                   DeleteMessage, ProcessConflict, ConsumerRest, dbVars
    <2> QED BY <1>9, <2>1, StutterMaps
  <1>11. ASSUME NEW c \in Consumer, ProcessRaises(c) \/ ConsumerStops(c)
         PROVE  [Delivery!Next]_(Delivery!vars)
    BY <1>11, StutterMaps DEF ProcessRaises, ConsumerStops, ConsumerRest, dbVars
  <1>12. CASE UNCHANGED vars
    BY <1>12, StutterMaps DEF vars, dbVars, sqsVars
  <1> QED BY <1>2, <1>3, <1>4, <1>5, <1>6, <1>7, <1>8, <1>10, <1>11, <1>12
          DEF Next, RelayStep, Interruption

(* The pipeline with one relay keeps the promise of VersionDelivery: owed  *)
(* until archived, archived once and for good, parked instead of forgotten.*)
THEOREM PipelineDelivers ==
  ASSUME OneRelay PROVE Spec => Delivery!Spec
  <1>1. IInv /\ RelayIInv /\ [Next]_vars => [Delivery!Next]_(Delivery!vars)
    BY StepMaps
  <1> QED BY <1>1, InitMaps, InvariantHolds, RelayAlways, PTL DEF Spec, Delivery!Spec

-----------------------------------------------------------------------------
(* One consumer without faults: a message is handed out a second time only *)
(* when the only consumer has finished with it.  One that was received and *)
(* is not archived is in its hands, received for the first time.           *)
OneConsumer == \A c, d \in Consumer : c = d

Handled(m) == \E c \in Consumer :
    \/ IdOf(m) \in consumer[c].todo
    \/ consumer[c].step \notin {"idle", "batch"} /\ consumer[c].msg = IdOf(m)

ReceivedOnce == \A m \in queue : m.receives = 0 \/ m.v \in ledger \/ (m.receives = 1 /\ Handled(m))
IdleHasNone == \A c \in Consumer : consumer[c].step = "idle" => consumer[c].todo = {}
Whole == \A v \in Version : raw[v] # "partial" /\ derived[v] # "partial"

FaultlessIInv == IdleHasNone /\ (faults = 0 => Whole /\ ReceivedOnce /\ dead \subseteq ledger)

(* An empty queue and an idle consumer. *)
LEMMA InitFaultless == Init => FaultlessIInv
  BY DEF Init, FaultlessIInv, IdleHasNone, Whole, ReceivedOnce, IdleConsumer

(* New messages have not been received. *)
LEMMA QueueGrows ==
  ASSUME FaultlessIInv, UNCHANGED <<consumer, ledger, dead, fileVars, faults>>,
         \A m \in queue' : m \in queue \/ m.receives = 0
  PROVE  FaultlessIInv'
  BY DEF FaultlessIInv, IdleHasNone, Whole, ReceivedOnce, Handled, fileVars

(* Without a consumer's step nothing is handed out. *)
LEMMA SourceKeepsFaultless ==
  ASSUME FaultlessIInv,
         \/ \E r \in Record, h \in Hash : SaveRecord(r, h)
         \/ \E p \in Relay : RelayStep(p)
         \/ UNCHANGED vars
  PROVE  FaultlessIInv'
  <1>1. UNCHANGED <<consumer, ledger, dead, fileVars, faults>>
    BY DEF SaveRecord, RelayStep, ReadPending, SendMessage, MarkSent, MarkFailed, TakeRow, Accept,
           RelayRest, sqsVars, vars
  <1>2. \A m \in queue' : m \in queue \/ m.receives = 0
    <2>1. ASSUME NEW p \in Relay, NEW v \in Version, SendMessage(p, v)
          PROVE  \A m \in queue' : m \in queue \/ m.receives = 0
      BY <2>1 DEF SendMessage, Accept
    <2>2. CASE queue' = queue
      BY <2>2
    <2> QED BY <2>1, <2>2 DEF SaveRecord, RelayStep, ReadPending, MarkSent, MarkFailed, sqsVars, vars
  <1> QED BY <1>1, <1>2, QueueGrows

(* After a fault nothing is claimed but that an idle consumer has no batch. *)
LEMMA FaultKeepsFaultless ==
  ASSUME IInv, FaultlessIInv, Interruption PROVE FaultlessIInv'
  <1>1. faults \in Nat /\ faults' = faults + 1
    BY DEF IInv, TypeOK, Interruption, SendRaises, MarkSentRaises, RelayStops, ProcessRaises,
           ConsumerStops, Fault
  <1>2. IdleHasNone'
    <2>1. CASE consumer' = consumer
      BY <2>1 DEF FaultlessIInv, IdleHasNone
    <2>2. ASSUME NEW c \in Consumer, ProcessRaises(c) \/ ConsumerStops(c) PROVE IdleHasNone'
      <3>1. /\ consumer'[c].step = "idle" => consumer'[c].todo = {}
            /\ \A d \in Consumer \ {c} : consumer'[d] = consumer[d]
        BY <2>2 DEF ProcessRaises, ConsumerStops, NextMessage, IdleConsumer, IInv, TypeOK
      <3> QED BY <3>1 DEF FaultlessIInv, IdleHasNone
    <2> QED BY <2>1, <2>2 DEF Interruption, SendRaises, MarkSentRaises, RelayStops, TakeRow,
                              RelayRest
  <1> QED BY <1>1, <1>2 DEF FaultlessIInv

(* What the only consumer does with its batch. *)
LEMMA OneConsumerMoves ==
  ASSUME OneConsumer, IInv, FaultlessIInv, NEW c \in Consumer, UNCHANGED <<dead, faults>>,
         ledger \subseteq ledger', queue' \subseteq queue,
         consumer'[c].step = "idle" => consumer'[c].todo = {},
         \A m \in queue' : Handled(m) => Handled(m)' \/ m.v \in ledger',
         faults = 0 => Whole'
  PROVE  FaultlessIInv'
  <1>1. \A d \in Consumer : d = c
    BY DEF OneConsumer
  <1>2. IdleHasNone'
    BY <1>1 DEF IdleHasNone
  <1>3. faults = 0 => ReceivedOnce'
    BY DEF FaultlessIInv, ReceivedOnce
  <1> QED BY <1>2, <1>3 DEF FaultlessIInv

(* A consumer that is free holds nothing, so what it is handed was not     *)
(* received before or is archived.                                         *)
LEMMA ReceiveKeepsFaultless ==
  ASSUME OneConsumer, IInv, FaultlessIInv, NEW c \in Consumer, NEW got \in SUBSET queue,
         Receive(c, got)
  PROVE  FaultlessIInv'
  <1>1. /\ consumer[c].step = "idle" /\ consumer'[c].step = "batch"
        /\ consumer'[c].todo = {IdOf(m) : m \in got}
        /\ queue' = (queue \ got) \cup {Received(m) : m \in got}
        /\ UNCHANGED <<dead, ledger, fileVars, faults>>
    BY DEF Receive, IInv, TypeOK
  <1>2. \A d \in Consumer : d = c
    BY DEF OneConsumer
  <1>3. \A m \in queue : ~Handled(m)
    BY <1>1, <1>2 DEF FaultlessIInv, IdleHasNone, Handled
  <1>4. ASSUME faults = 0, NEW m \in got
        PROVE  Received(m).v \in ledger \/ (Received(m).receives = 1 /\ Handled(Received(m))')
    <2>1. m.receives = 0 \/ m.v \in ledger
      BY <1>3, <1>4 DEF FaultlessIInv, ReceivedOnce
    <2>2. IdOf(Received(m)) = IdOf(m) /\ Received(m).v = m.v
      BY DEF IdOf, Received
    <2>3. m.receives = 0 => Received(m).receives = 1
      BY DEF Received
    <2>4. IdOf(Received(m)) \in consumer'[c].todo
      BY <1>1, <2>2
    <2>5. Handled(Received(m))'
      BY <2>4 DEF Handled, IdOf
    <2> QED BY <2>1, <2>2, <2>3, <2>5
  <1>5. faults = 0 => ReceivedOnce'
    <2>1. \A m \in queue \ got : faults = 0 => m.receives = 0 \/ m.v \in ledger
      BY <1>3 DEF FaultlessIInv, ReceivedOnce
    <2> QED BY <1>1, <1>4, <2>1 DEF ReceivedOnce
  <1> QED BY <1>1, <1>2, <1>5 DEF FaultlessIInv, IdleHasNone, Whole, fileVars

(* A message that is visible again is the same one; one that has been      *)
(* received twice is archived when it goes to the dead-letter queue.       *)
LEMMA QueueKeepsFaultless ==
  ASSUME MaxReceives > 1, IInv, FaultlessIInv, NEW m \in queue,
         VisibilityTimeout(m) \/ Redrive(m)
  PROVE  FaultlessIInv'
  <1>1. UNCHANGED <<consumer, ledger, fileVars, faults>>
    BY DEF VisibilityTimeout, Redrive
  <1>2. CASE VisibilityTimeout(m)
    <2>1. PICK seen : seen = [m EXCEPT !.visible = TRUE]
      OBVIOUS
    <2>2. seen.v = m.v /\ seen.n = m.n /\ seen.receives = m.receives
      <3>1. m \in Message
        BY DEF IInv, TypeOK
      <3> QED BY <2>1, <3>1 DEF Message
    <2>3. queue' = (queue \ {m}) \cup {seen} /\ dead' = dead
      BY <1>2, <2>1 DEF VisibilityTimeout
    <2>4. \A k : Handled(k)' <=> Handled(k)
      BY <1>1 DEF Handled
    <2>5. Handled(seen) <=> Handled(m)
      BY <2>2 DEF Handled, IdOf
    <2>6. faults = 0 => ReceivedOnce'
      BY <1>1, <2>2, <2>3, <2>4, <2>5 DEF FaultlessIInv, ReceivedOnce
    <2> QED BY <1>1, <2>3, <2>6 DEF FaultlessIInv, IdleHasNone, Whole, fileVars
  <1>3. CASE Redrive(m)
    <2>1. m.receives \in Nat /\ m.receives >= MaxReceives /\ MaxReceives \in Nat
      BY <1>3, PipelineAssumption DEF Redrive, IInv, TypeOK, Message
    <2>2. m.receives # 0 /\ m.receives # 1
      BY <2>1
    <2>3. faults = 0 => m.v \in ledger
      BY <2>2 DEF FaultlessIInv, ReceivedOnce
    <2>4. queue' \subseteq queue /\ dead' = dead \cup {m.v}
      BY <1>3 DEF Redrive
    <2>5. faults = 0 => ReceivedOnce' /\ dead' \subseteq ledger'
      BY <1>1, <2>3, <2>4 DEF FaultlessIInv, ReceivedOnce, Handled
    <2> QED BY <1>1, <2>5 DEF FaultlessIInv, IdleHasNone, Whole, fileVars
  <1> QED BY <1>2, <1>3

(* A message stays in the consumer's hands until its version is archived.  *)
LEMMA ConsumerKeepsFaultless ==
  ASSUME OneConsumer, IInv, FaultlessIInv, NEW c \in Consumer, ConsumerStep(c)
  PROVE  FaultlessIInv'
  <1>1. \A d \in Consumer : d = c
    BY DEF OneConsumer
  <1>2. UNCHANGED <<dead, faults>>
    BY DEF ConsumerStep, BeginNew, BeginKnown, BeginBusy, WriteRaw, WriteDerived, Commit,
           DeleteMessage, ProcessConflict
  <1>3. ASSUME NEW id \in consumer[c].todo, BeginNew(c, id) \/ BeginKnown(c, id)
        PROVE  FaultlessIInv'
    <2>1. /\ consumer'[c].step \in {"raw", "delete"} /\ consumer'[c].msg = id
          /\ consumer'[c].todo = consumer[c].todo \ {id} /\ consumer[c].step = "batch"
          /\ UNCHANGED <<ledger, queue, fileVars>>
      BY <1>3 DEF BeginNew, BeginKnown, TakeMessage, IInv, TypeOK
    <2>2. \A m \in queue' : Handled(m) => Handled(m)'
      BY <1>1, <2>1 DEF Handled, IdOf
    <2> QED BY <1>2, <2>1, <2>2, OneConsumerMoves DEF FaultlessIInv, Whole, fileVars
  <1>4. ASSUME NEW id \in consumer[c].todo, BeginBusy(c, id) PROVE FaultlessIInv'
    BY <1>1, <1>4 DEF BeginBusy, IInv, TypeOK
  <1>5. CASE WriteRaw(c) \/ WriteDerived(c)
    <2>1. /\ consumer[c].step \in {"raw", "derived"} /\ consumer'[c].msg = consumer[c].msg
          /\ consumer'[c].step \in {"derived", "commit"} /\ consumer'[c].todo = consumer[c].todo
          /\ UNCHANGED <<ledger, queue>>
      BY <1>5 DEF WriteRaw, WriteDerived, ConsumerAt, IInv, TypeOK, ConsumerState
    <2>2. \A m \in queue' : Handled(m) => Handled(m)'
      BY <1>1, <2>1 DEF Handled, IdOf
    <2>3. Whole => Whole'
      BY <1>5 DEF Whole, WriteRaw, WriteDerived, WriteFile, IInv, TypeOK
    <2> QED BY <1>2, <2>1, <2>2, <2>3, OneConsumerMoves DEF FaultlessIInv
  <1>6. CASE Commit(c)
    <2>1. /\ consumer[c].step = "commit" /\ consumer'[c].msg = consumer[c].msg
          /\ consumer'[c].step = "delete" /\ consumer'[c].todo = consumer[c].todo
          /\ UNCHANGED <<queue, fileVars>> /\ ledger \subseteq ledger'
      BY <1>6 DEF Commit, ConsumerAt, IInv, TypeOK, ConsumerState
    <2>2. \A m \in queue' : Handled(m) => Handled(m)'
      BY <1>1, <2>1 DEF Handled, IdOf
    <2> QED BY <1>2, <2>1, <2>2, OneConsumerMoves DEF FaultlessIInv, Whole, fileVars
  <1>7. CASE DeleteMessage(c)
    <2>1. /\ consumer[c].step = "delete" /\ consumer'[c].todo = consumer[c].todo
          /\ consumer'[c].step = "idle" => consumer'[c].todo = {}
          /\ queue' = {m \in queue : IdOf(m) # consumer[c].msg}
          /\ UNCHANGED <<ledger, fileVars>>
      BY <1>7 DEF DeleteMessage, NextMessage, IInv, TypeOK
    <2>2. \A m \in queue' : Handled(m) => Handled(m)'
      BY <1>1, <2>1 DEF Handled, IdOf
    <2> QED BY <1>2, <2>1, <2>2, OneConsumerMoves DEF FaultlessIInv, Whole, fileVars
  <1>8. CASE ProcessConflict(c)
    <2>1. /\ consumer'[c].step = "idle" => consumer'[c].todo = {}
          /\ raw[InHand(c)] = "partial" \/ derived[InHand(c)] = "partial"
          /\ consumer[c].step \in {"raw", "derived"}
      BY <1>8 DEF ProcessConflict, NextMessage, IInv, TypeOK
    <2>2. InHand(c) \in Version
      BY <2>1 DEF IInv, TypeOK, ConsumerState, MessageId, InHand
    <2>3. faults # 0
      BY <2>1, <2>2 DEF FaultlessIInv, Whole
    <2> QED BY <1>1, <1>2, <2>1, <2>3 DEF FaultlessIInv, IdleHasNone
  <1> QED BY <1>3, <1>4, <1>5, <1>6, <1>7, <1>8 DEF ConsumerStep

(* With one consumer and a second chance per message, nothing is given up  *)
(* unarchived unless something failed: a slow batch alone cannot do it.    *)
THEOREM DeadNeedsFault ==
  ASSUME OneConsumer, MaxReceives > 1 PROVE Spec => []DeadOnlyAfterFault
  <1>1. IInv /\ FaultlessIInv /\ [Next]_vars => FaultlessIInv'
    BY SourceKeepsFaultless, FaultKeepsFaultless, ReceiveKeepsFaultless, QueueKeepsFaultless,
       ConsumerKeepsFaultless DEF Next
  <1>2. FaultlessIInv => DeadOnlyAfterFault
    BY DEF FaultlessIInv, DeadOnlyAfterFault
  <1> QED BY <1>1, <1>2, InitFaultless, InvariantHolds, PTL DEF Spec

-----------------------------------------------------------------------------
(* DatabaseBackup and WorkerBackup *)

(* What a backup under way has written. *)
OwnFiles == \A d \in Dumper :
    /\ dumper[d].step \in {"fill", "manifest"} =>
         /\ dumps[dumper[d].stamp] # NoFile
         /\ dumps[dumper[d].stamp].by = d
         /\ dumpManifests[dumper[d].stamp] = NoFile
    /\ dumper[d].step = "manifest" =>
         /\ dumps[dumper[d].stamp].state \in {"whole", "damaged"}
         /\ dumps[dumper[d].stamp].state = "whole" =>
                dumps[dumper[d].stamp].rows = dumper[d].rows
    /\ dumper[d].step = "upload" => Complete(dumper[d].stamp)

ManifestHasDump == \A s \in Second : dumps[s] = NoFile => dumpManifests[s] = NoFile

(* The pair that is being restored was complete when it was checked. *)
RestoresPair == verifying.step \in {"checked", "loaded"} => Complete(verifying.stamp)

BackupIInv == OwnFiles /\ ManifestHasDump /\ RestoresPair /\ DatabaseBackupInv

(* What an action of the backup does to the state, in the terms of the     *)
(* invariant.                                                              *)
LEMMA Off == NoFile.state = "absent" /\ NotDumping.step = "off" /\ NoRestore.step = "off"
BY DEF NoFile, NotDumping, NoRestore

LEMMA BackupStarts == DatabaseBackupInit => BackupIInv
<1> SUFFICES ASSUME DatabaseBackupInit PROVE BackupIInv
  OBVIOUS
<1> USE DatabaseBackupAssumption, Off DEF DatabaseBackupInit
<1>1. DatabaseBackupTypeOK
  BY DEF DatabaseBackupTypeOK, DumpFile
<1>2. OwnFiles /\ ManifestHasDump /\ RestoresPair
  BY DEF OwnFiles, ManifestHasDump, RestoresPair
<1>3. PairsMatch /\ ProofsHold
  BY DEF PairsMatch, ProofsHold
<1> QED
  BY <1>1, <1>2, <1>3 DEF BackupIInv, DatabaseBackupInv

(* Facts about the types that the steps use. *)
LEMMA DumperTyped ==
    ASSUME DatabaseBackupTypeOK, NEW d \in Dumper, dumper[d].step # "off"
    PROVE  dumper[d].stamp \in Second /\ dumper[d].rows \in 0 .. MaxRows
BY Off DEF DatabaseBackupTypeOK

LEMMA BackupTyped == BackupIInv /\ DatabaseBackupNext => DatabaseBackupTypeOK'
<1> SUFFICES ASSUME BackupIInv, DatabaseBackupNext PROVE DatabaseBackupTypeOK'
  OBVIOUS
<1> USE DatabaseBackupAssumption, Off DEF BackupIInv, DatabaseBackupInv, DatabaseBackupTypeOK, fileState
<1>1. CASE RowAdded
  BY <1>1 DEF RowAdded
<1> DEFINE WellStamped(d) == dumper[d].stamp \in Second /\ dumper[d].rows \in 0 .. MaxRows
<1>2. \A d \in Dumper : dumper[d].step # "off" => WellStamped(d)
  BY DumperTyped
<1>3. ASSUME NEW d \in Dumper, Dump(d) PROVE DatabaseBackupTypeOK'
  BY <1>3 DEF Dump
<1>4. ASSUME NEW d \in Dumper, CreateDump(d) PROVE DatabaseBackupTypeOK'
  BY <1>2, <1>4 DEF CreateDump, DumperAt, DumperGoes, WrittenBy, DumpFile
<1>5. ASSUME NEW d \in Dumper, FillDump(d) PROVE DatabaseBackupTypeOK'
  BY <1>2, <1>5 DEF FillDump, DumperAt, DumperGoes, WrittenBy, DumpFile
<1>6. ASSUME NEW d \in Dumper, WriteDumpManifest(d) PROVE DatabaseBackupTypeOK'
  BY <1>2, <1>6 DEF WriteDumpManifest, DumperAt, DumperGoes, WrittenBy, DumpFile
<1>7. ASSUME NEW d \in Dumper, UploadDump(d) PROVE DatabaseBackupTypeOK'
  BY <1>2, <1>7 DEF UploadDump, DumperAt, DumperOff
<1>8. ASSUME NEW d \in Dumper, DumpFails(d) PROVE DatabaseBackupTypeOK'
  BY <1>2, <1>8 DEF DumpFails, DumperAt, DumperOff, DumpFile
<1>9. ASSUME NEW d \in Dumper, DumpKilled(d) PROVE DatabaseBackupTypeOK'
  BY <1>2, <1>9 DEF DumpKilled, DumperAt, DumperOff, DumpFile, WrittenBy, DumpFault
<1>10. ASSUME NEW s \in Second, DumpDamaged(s) PROVE DatabaseBackupTypeOK'
  <2>1. dumps[s] \in [state : {"partial", "whole", "damaged"}, rows : 0 .. MaxRows, by : Dumper]
    BY <1>10 DEF DumpDamaged, DumpFile
  <2> QED
    BY <1>10, <2>1 DEF DumpDamaged, DumpFile, DumpFault
<1>11. ASSUME NEW s \in Second, VerifyDump(s) PROVE DatabaseBackupTypeOK'
  BY <1>11 DEF VerifyDump
<1>12. CASE LoadDump
  <2>1. verifying.stamp \in Second
    BY <1>12 DEF LoadDump
  <2>2. dumps[verifying.stamp].rows \in 0 .. MaxRows
    BY <2>1 DEF DumpFile, NoFile
  <2> QED
    BY <1>12, <2>1, <2>2 DEF LoadDump
<1>13. CASE ProveRestore
  BY <1>13 DEF ProveRestore
<1>14. CASE RestoreFails
  BY <1>14 DEF RestoreFails
<1> QED
  BY <1>1, <1>3, <1>4, <1>5, <1>6, <1>7, <1>8, <1>9, <1>10, <1>11, <1>12, <1>13, <1>14
  DEF DatabaseBackupNext

(* Removing an own file takes it from nobody else. *)
LEMMA FailureRemovesOwn ==
    ASSUME BackupIInv, NEW d \in Dumper, DumpFails(d)
    PROVE  /\ \A e \in Dumper : e # d => dumper'[e] = dumper[e]
           /\ dumper'[d].step = "off"
           /\ dumpManifests' = dumpManifests
           /\ \A s \in Second :
                  dumps'[s] = dumps[s] \/ (/\ dumps'[s] = NoFile /\ s = dumper[d].stamp
                                          /\ dumps[s] # NoFile /\ dumps[s].by = d
                                          /\ dumper[d].step \in {"fill", "manifest"})
<1> USE Off DEF BackupIInv, DatabaseBackupInv
<1>1. (\A e \in Dumper : e # d => dumper'[e] = dumper[e]) /\ dumper'[d].step = "off"
  BY DEF DumpFails, DumperOff, DatabaseBackupTypeOK
<1>2. dumper[d].stamp \in Second
  BY DumperTyped DEF DumpFails, DumperAt
<1>3. ~OwnedFile(d, dumpManifests[dumper[d].stamp])
  BY <1>2 DEF OwnedFile, OwnFiles
<1>4. dumpManifests' = dumpManifests
  BY <1>2, <1>3 DEF DumpFails, DatabaseBackupTypeOK
<1>5. \A s \in Second :
          dumps'[s] = IF s = dumper[d].stamp /\ OwnedFile(d, dumps[s]) THEN NoFile ELSE dumps[s]
  BY <1>2 DEF DumpFails, DatabaseBackupTypeOK
<1> QED
  BY <1>1, <1>4, <1>5 DEF OwnedFile

LEMMA BackupSteps == BackupIInv /\ DatabaseBackupNext =>
    /\ OwnFiles' /\ ManifestHasDump' /\ RestoresPair' /\ PairsMatch' /\ ProofsHold'
    /\ \A s \in Second : Complete(s) => dumpManifests'[s] = dumpManifests[s] /\ dumps'[s] # NoFile
<1> DEFINE Goal == /\ OwnFiles' /\ ManifestHasDump' /\ RestoresPair' /\ PairsMatch' /\ ProofsHold'
                   /\ \A s \in Second : Complete(s) =>
                          dumpManifests'[s] = dumpManifests[s] /\ dumps'[s] # NoFile
<1> SUFFICES ASSUME BackupIInv, DatabaseBackupNext PROVE Goal
  OBVIOUS
<1> USE Off DEF BackupIInv, DatabaseBackupInv, OwnFiles, ManifestHasDump, RestoresPair,
        PairsMatch, ProofsHold, Complete, fileState
<1>t. /\ dumper = [d \in Dumper |-> dumper[d]] /\ dumps = [s \in Second |-> dumps[s]]
      /\ dumpManifests = [s \in Second |-> dumpManifests[s]]
      /\ proofs = [s \in Second |-> proofs[s]]
  BY DEF DatabaseBackupTypeOK
<1>1. CASE RowAdded
  BY <1>1 DEF RowAdded
<1>2. \A d \in Dumper : dumper[d].step # "off" => dumper[d].stamp \in Second
  BY DumperTyped
<1>v. verifying.step \in {"checked", "loaded"} => verifying.stamp \in Second
  BY DEF DatabaseBackupTypeOK
<1>3. ASSUME NEW d \in Dumper, Dump(d) PROVE Goal
  <2>1. /\ dumper'[d].step = "create"
        /\ \A e \in Dumper : e # d => dumper'[e] = dumper[e]
        /\ UNCHANGED <<dumps, dumpManifests, dumpsSent, verifying, proofs>>
    BY <1>3, <1>t DEF Dump
  <2> QED
    BY <2>1
<1>4. ASSUME NEW d \in Dumper, CreateDump(d) PROVE Goal
  <2> DEFINE s == dumper[d].stamp
  <2>1. s \in Second /\ dumps[s] = NoFile
    BY <1>2, <1>4 DEF CreateDump, DumperAt, MayCreate
  <2>2. /\ dumper'[d].step = "fill" /\ dumper'[d].stamp = s
        /\ \A e \in Dumper : e # d => dumper'[e] = dumper[e]
        /\ UNCHANGED <<dumpManifests, dumpsSent, verifying, proofs>>
    BY <1>4, <1>t DEF CreateDump, DumperGoes
  <2>3. /\ dumps'[s].state = "partial" /\ dumps'[s].by = d
        /\ \A t \in Second : t # s => dumps'[t] = dumps[t]
    BY <1>4, <1>t, <2>1 DEF CreateDump, WrittenBy
  <2>4. dumpManifests[s] = NoFile /\ dumps'[s] # NoFile
    BY <2>1, <2>3
  <2> HIDE DEF s
  <2>10. OwnFiles'
    BY <2>1, <2>2, <2>3, <2>4, <1>2
  <2>11. ManifestHasDump' /\ RestoresPair'
    BY <2>1, <2>2, <2>3, <2>4, <1>2
  <2>12. PairsMatch'
    BY <2>1, <2>2, <2>3, <2>4, <1>2
  <2>13. ProofsHold'
    BY <2>1, <2>2, <2>3, <2>4, <1>2
  <2>14. \A t \in Second : Complete(t) => dumpManifests'[t] = dumpManifests[t] /\ dumps'[t] # NoFile
    BY <2>1, <2>2, <2>3, <2>4, <1>2
  <2> QED
    BY <2>10, <2>11, <2>12, <2>13, <2>14
<1>5. ASSUME NEW d \in Dumper, FillDump(d) PROVE Goal
  <2> DEFINE s == dumper[d].stamp
  <2>1. s \in Second /\ dumper[d].step = "fill"
    BY <1>2, <1>5 DEF FillDump, DumperAt
  <2>2. /\ dumper'[d].step = "manifest" /\ dumper'[d].stamp = s /\ dumper'[d].rows = dumper[d].rows
        /\ \A e \in Dumper : e # d => dumper'[e] = dumper[e]
        /\ UNCHANGED <<dumpManifests, dumpsSent, verifying, proofs>>
    BY <1>5, <1>t DEF FillDump, DumperGoes
  <2>3. /\ dumps'[s].state = "whole" /\ dumps'[s].by = d /\ dumps'[s].rows = dumper[d].rows
        /\ \A t \in Second : t # s => dumps'[t] = dumps[t]
    BY <1>5, <1>t, <2>1 DEF FillDump, WrittenBy
  <2>4. dumpManifests[s] = NoFile /\ dumps'[s] # NoFile
    BY <2>1, <2>3
  <2>5. \A e \in Dumper : e # d /\ dumper[e].step \in {"fill", "manifest"} => dumper[e].stamp # s
    BY <2>1
  <2> HIDE DEF s
  <2>10. OwnFiles'
    BY <2>1, <2>2, <2>3, <2>4, <2>5, <1>2
  <2>11. ManifestHasDump' /\ RestoresPair'
    BY <2>1, <2>2, <2>3, <2>4, <2>5, <1>2
  <2>12. PairsMatch'
    BY <2>1, <2>2, <2>3, <2>4, <2>5, <1>2
  <2>13. ProofsHold'
    BY <2>1, <2>2, <2>3, <2>4, <2>5, <1>2
  <2>14. \A t \in Second : Complete(t) => dumpManifests'[t] = dumpManifests[t] /\ dumps'[t] # NoFile
    BY <2>1, <2>2, <2>3, <2>4, <2>5, <1>2
  <2> QED
    BY <2>10, <2>11, <2>12, <2>13, <2>14
<1>6. ASSUME NEW d \in Dumper, WriteDumpManifest(d) PROVE Goal
  <2> DEFINE s == dumper[d].stamp
  <2>1. s \in Second /\ dumper[d].step = "manifest" /\ dumpManifests[s] = NoFile
    BY <1>2, <1>6 DEF WriteDumpManifest, DumperAt, MayCreate
  <2>2. /\ dumper'[d].step = "upload" /\ dumper'[d].stamp = s
        /\ \A e \in Dumper : e # d => dumper'[e] = dumper[e]
        /\ UNCHANGED <<dumps, dumpsSent, verifying, proofs>>
    BY <1>6, <1>t DEF WriteDumpManifest, DumperGoes
  <2>3. /\ dumpManifests'[s].state = "whole" /\ dumpManifests'[s].by = d
        /\ dumpManifests'[s].rows = dumper[d].rows
        /\ \A t \in Second : t # s => dumpManifests'[t] = dumpManifests[t]
    BY <1>6, <1>t, <2>1 DEF WriteDumpManifest, WrittenBy
  <2>4. \A e \in Dumper : e # d /\ dumper[e].step \in {"fill", "manifest"} => dumper[e].stamp # s
    BY <2>1
  <2>5. /\ dumps[s] # NoFile /\ dumps[s].by = d
        /\ dumps[s].state = "whole" => dumps[s].rows = dumper[d].rows
    BY <2>1
  <2> HIDE DEF s
  <2>10. OwnFiles'
    BY <2>1, <2>2, <2>3, <2>4, <2>5, <1>2, <1>v
  <2>11. ManifestHasDump' /\ RestoresPair'
    BY <2>1, <2>2, <2>3, <2>4, <2>5, <1>2, <1>v
  <2>12. PairsMatch'
    BY <2>1, <2>2, <2>3, <2>4, <2>5, <1>2, <1>v
  <2>13. ProofsHold'
    BY <2>1, <2>2, <2>3, <2>4, <2>5, <1>2, <1>v
  <2>14. \A t \in Second : Complete(t) => dumpManifests'[t] = dumpManifests[t] /\ dumps'[t] # NoFile
    BY <2>1, <2>2, <2>3, <2>4, <2>5, <1>2, <1>v
  <2> QED
    BY <2>10, <2>11, <2>12, <2>13, <2>14
<1>7. ASSUME NEW d \in Dumper, UploadDump(d) PROVE Goal
  <2>1. /\ dumper'[d].step = "off" /\ dumper[d].step = "upload"
        /\ \A e \in Dumper : e # d => dumper'[e] = dumper[e]
        /\ dumpsSent' = dumpsSent \cup {dumper[d].stamp}
        /\ UNCHANGED <<dumps, dumpManifests, verifying, proofs>>
    BY <1>7, <1>t DEF UploadDump, DumperOff, DumperAt
  <2> QED
    BY <2>1
<1>8. ASSUME NEW d \in Dumper, DumpFails(d) PROVE Goal
  <2>1. UNCHANGED <<dumpsSent, verifying, proofs>>
    BY <1>8 DEF DumpFails
  <2>2. \A s \in Second : dumpManifests[s] # NoFile => dumps'[s] = dumps[s]
    BY <1>8, FailureRemovesOwn
  <2>3. \A e \in Dumper : e # d /\ dumper[e].step \in {"fill", "manifest"} =>
            dumps'[dumper[e].stamp] = dumps[dumper[e].stamp]
    BY <1>2, <1>8, FailureRemovesOwn
  <2>4. dumpManifests' = dumpManifests /\ dumper'[d].step = "off"
        /\ \A e \in Dumper : e # d => dumper'[e] = dumper[e]
    BY <1>8, FailureRemovesOwn
  <2> QED
    BY <2>1, <2>2, <2>3, <2>4
<1>9. ASSUME NEW d \in Dumper, DumpKilled(d) PROVE Goal
  <2> DEFINE s == dumper[d].stamp
  <2>1. /\ dumper'[d].step = "off" /\ s \in Second
        /\ \A e \in Dumper : e # d => dumper'[e] = dumper[e]
        /\ UNCHANGED <<dumps, dumpsSent, verifying, proofs>>
    BY <1>2, <1>9, <1>t DEF DumpKilled, DumperOff, DumperAt
  <2>2. CASE UNCHANGED dumpManifests
    BY <2>1, <2>2
  <2>3. CASE /\ dumper[d].step = "manifest" /\ dumpManifests[s] = NoFile
             /\ dumpManifests' = [dumpManifests EXCEPT ![s] = WrittenBy(d, "partial")]
    <3>1. /\ dumpManifests'[s].state = "partial"
          /\ \A t \in Second : t # s => dumpManifests'[t] = dumpManifests[t]
      BY <2>1, <2>3, <1>t DEF WrittenBy
    <3>2. \A e \in Dumper : e # d /\ dumper[e].step \in {"fill", "manifest"} => dumper[e].stamp # s
      BY <2>3
    <3>3. dumps[s] # NoFile
      BY <2>3
    <3> HIDE DEF s
    <3>10. OwnFiles'
      BY <2>1, <2>3, <3>1, <3>2, <3>3, <1>2, <1>v
    <3>11. ManifestHasDump' /\ RestoresPair'
      BY <2>1, <2>3, <3>1, <3>2, <3>3, <1>2, <1>v
    <3>12. PairsMatch'
      BY <2>1, <2>3, <3>1, <3>2, <3>3, <1>2, <1>v
    <3>13. ProofsHold'
      BY <2>1, <2>3, <3>1, <3>2, <3>3, <1>2, <1>v
    <3>14. \A t \in Second : Complete(t) => dumpManifests'[t] = dumpManifests[t] /\ dumps'[t] # NoFile
      BY <2>1, <2>3, <3>1, <3>2, <3>3, <1>2, <1>v
    <3> QED
      BY <3>10, <3>11, <3>12, <3>13, <3>14
  <2> QED
    BY <1>9, <2>2, <2>3 DEF DumpKilled, DumperAt, MayCreate
<1>10. ASSUME NEW s \in Second, DumpDamaged(s) PROVE Goal
  <2>1. /\ dumps'[s].state = "damaged" /\ dumps'[s].by = dumps[s].by /\ dumps[s] # NoFile
        /\ \A t \in Second : t # s => dumps'[t] = dumps[t]
        /\ UNCHANGED <<dumper, dumpManifests, dumpsSent, verifying, proofs>>
    BY <1>10, <1>t DEF DumpDamaged
  <2> QED
    BY <2>1, <1>2
<1>11. ASSUME NEW s \in Second, VerifyDump(s) PROVE Goal
  <2>1. /\ verifying'.stamp = s /\ dumpManifests[s].state = "whole"
        /\ UNCHANGED <<dumper, dumps, dumpManifests, dumpsSent, proofs>>
    BY <1>11 DEF VerifyDump, Matches
  <2> QED
    BY <2>1
<1>12. CASE LoadDump
  <2>1. /\ verifying'.stamp = verifying.stamp /\ verifying.step = "checked"
        /\ UNCHANGED <<dumper, dumps, dumpManifests, dumpsSent, proofs>>
    BY <1>12 DEF LoadDump
  <2> QED
    BY <2>1
<1>13. CASE ProveRestore
  <2>1. verifying.stamp \in Second
    BY <1>13 DEF ProveRestore, DatabaseBackupTypeOK
  <2>2. /\ proofs'[verifying.stamp] = dumpManifests[verifying.stamp].rows
        /\ \A t \in Second : t # verifying.stamp => proofs'[t] = proofs[t]
        /\ Complete(verifying.stamp) /\ verifying' = NoRestore
        /\ UNCHANGED <<dumper, dumps, dumpManifests, dumpsSent>>
    BY <1>13, <1>t, <2>1 DEF ProveRestore, CountsAgree
  <2> QED
    BY <2>2
<1>14. CASE RestoreFails
  BY <1>14 DEF RestoreFails
<1> QED
  BY <1>1, <1>3, <1>4, <1>5, <1>6, <1>7, <1>8, <1>9, <1>10, <1>11, <1>12, <1>13, <1>14
  DEF DatabaseBackupNext

LEMMA BackupKeeps == BackupIInv /\ [DatabaseBackupNext]_dumpVars => BackupIInv'
<1>1. BackupIInv /\ DatabaseBackupNext => BackupIInv'
  BY BackupTyped, BackupSteps DEF BackupIInv, DatabaseBackupInv
<1>2. BackupIInv /\ UNCHANGED dumpVars => BackupIInv'
  BY DEF dumpVars, fileState, BackupIInv, OwnFiles, ManifestHasDump, RestoresPair,
     DatabaseBackupInv, DatabaseBackupTypeOK, PairsMatch, ProofsHold, Complete
<1> QED
  BY <1>1, <1>2

(* A dump and its manifest come from one backup, what is in S3 is such a   *)
(* pair, and a proof of a restore stands for all rows of the manifest      *)
(* (database_backup.py: backup, verify_restore).                           *)
THEOREM BackupsHold == DatabaseBackupSpec => []DatabaseBackupInv
<1>1. BackupIInv => DatabaseBackupInv
  BY DEF BackupIInv
<1> QED
  BY BackupStarts, BackupKeeps, <1>1, PTL DEF DatabaseBackupSpec

(* No backup, failed or killed, takes a complete pair away                 *)
(* (database_backup.py: owned_dump, owned_manifest).                       *)
THEOREM CompleteDumpsKept == DatabaseBackupSpec => DumpsKept
<1> DEFINE Kept == \A s \in Second : Complete(s) =>
               dumpManifests'[s] = dumpManifests[s] /\ dumps'[s] # NoFile
<1>1. BackupIInv /\ [DatabaseBackupNext]_dumpVars => [Kept]_dumpVars
  BY BackupSteps
<1> QED
  BY BackupStarts, BackupKeeps, <1>1, PTL DEF DatabaseBackupSpec, DumpsKept

-----------------------------------------------------------------------------
(* The worker's lock, its snapshots and their restores.                     *)

(* Who holds the lock works, one at a time.  A container may work without   *)
(* the lock; a backup that began while none did meets none.                 *)
OneHolder ==
    /\ \A k \in Job : k \in lock => Working(k)
    /\ "backup" \in lock <=> backup.step \notin {"off", "waiting"}
    /\ \A x, y \in lock : x = y
    /\ "backup" \in lock /\ backup.alone => \A k \in Job : ~Working(k)

(* Every container, alone or beside others, writes its run into the files   *)
(* in their order.                                                          *)
WrittenInOrder ==
    /\ Consistent(data)
    /\ \A k \in Job : Working(k) => \A f \in File : f < job[k].next => job[k].run \in data[f]

(* What a backup that meets no container has copied is still what the files *)
(* hold.                                                                    *)
CopiesCurrent ==
    /\ backup.step \in {"off", "waiting"} => backup.copied = Nothing
    /\ backup.step = "copy" /\ backup.alone =>
         \A f \in File : backup.copied[f] \in {NotThere, data[f]}

Sound(snapshot) == snapshot.alone => Consistent(snapshot.files)
SnapshotsConsistent ==
    /\ \A d \in 1 .. Days : Sound(archives[d].snapshot)
    /\ Sound(stage) /\ Sound(target)

(* A day's snapshot is made once: until its manifest is whole, the archive  *)
(* and the manifest of the day are those of the backup under way.           *)
OnePerDay ==
    /\ due => backup.step = "off"
    /\ due \/ backup.step \in {"waiting", "copy", "archive"} => manifests[day] = "absent"
    /\ backup.step = "archive" => archives[day].state = "partial"
    /\ backup.step = "manifest" => manifests[day] # "whole"
    /\ backup.step = "discard" => archives[day].state = "absent"
    /\ \A d \in 1 .. Days : d > day => manifests[d] = "absent"

(* Nothing of a day is sent before its snapshot is settled, and then the    *)
(* archive first.                                                           *)
SentLate == \A d \in 1 .. Days, kind \in {"archive", "manifest"} :
    \/ d > day
    \/ d = day /\ (due \/ backup.step \notin {"off", "upload", "uploadManifest"})
    => <<kind, d>> \notin sent
ArchiveFirst == backup.step = "uploadManifest" => <<"archive", day>> \in sent
SendsInOrder == SentLate /\ ArchiveFirst /\ SentInPairs

SnapshotIInv ==
    /\ WorkerBackupTypeOK /\ OneHolder /\ WrittenInOrder /\ CopiesCurrent
    /\ SnapshotsConsistent /\ OnePerDay /\ SendsInOrder
-----------------------------------------------------------------------------
(* Each part of the invariant, action by action.                            *)

(* The shapes of the records.                                               *)
Jobs == [next : File, run : Run] \cup {NoJob}
Backups == [step : {"off", "waiting", "copy", "archive", "manifest", "cleanup", "discard",
                    "upload", "uploadManifest"},
            copied : [File -> (SUBSET Run) \cup {NotThere}], alone : BOOLEAN]
Archives == [state : {"absent", "partial", "whole", "damaged"}, snapshot : Snapshot]

LEMMA BackupMoves ==
    ASSUME backup \in Backups,
           NEW step \in {"off", "waiting", "copy", "archive", "manifest", "cleanup", "discard",
                         "upload", "uploadManifest"}
    PROVE  /\ [backup EXCEPT !.step = step] \in Backups
           /\ NoBackup \in Backups
BY DEF Backups, NoBackup, Nothing
LEMMA SnapshotTyped == SnapshotIInv /\ WorkerBackupNext => WorkerBackupTypeOK'
<1> SUFFICES ASSUME SnapshotIInv, WorkerBackupNext PROVE WorkerBackupTypeOK'
  OBVIOUS
<1>t. /\ lock \subseteq Job \cup {"backup"} /\ data \in Content
      /\ job \in [Job -> Jobs] /\ jobs \in 0 .. MaxJobs
      /\ day \in 1 .. Days /\ due \in BOOLEAN /\ backup \in Backups
      /\ archives \in [1 .. Days -> Archives] /\ manifests \in [1 .. Days -> {"absent", "partial", "whole"}]
      /\ sent \subseteq {"archive", "manifest"} \X (1 .. Days)
      /\ stage \in Snapshot /\ target \in Snapshot /\ backupFaults \in 0 .. BackupFaults
      /\ MaxJobs \in Nat /\ BackupFaults \in Nat /\ Files \in Nat \ {0} /\ Days \in Nat
  BY WorkerBackupAssumption DEF SnapshotIInv, WorkerBackupTypeOK, WorkerBackupAssumption, Jobs, Backups, Archives
<1>u. SUFFICES /\ lock' \subseteq Job \cup {"backup"} /\ data' \in Content
      /\ job' \in [Job -> Jobs] /\ jobs' \in 0 .. MaxJobs
      /\ day' \in 1 .. Days /\ due' \in BOOLEAN /\ backup' \in Backups
      /\ archives' \in [1 .. Days -> Archives] /\ manifests' \in [1 .. Days -> {"absent", "partial", "whole"}]
      /\ sent' \subseteq {"archive", "manifest"} \X (1 .. Days)
      /\ stage' \in Snapshot /\ target' \in Snapshot /\ backupFaults' \in 0 .. BackupFaults
  BY DEF WorkerBackupTypeOK, Jobs, Backups, Archives
<1>n. NoArchive \in Archives /\ NoSnapshot \in Snapshot /\ NoJob \in Jobs
  BY DEF NoArchive, NoSnapshot, Archives, Snapshot, Jobs
<1>m. \A step \in {"off", "waiting", "copy", "archive", "manifest", "cleanup", "discard",
                   "upload", "uploadManifest"} : [backup EXCEPT !.step = step] \in Backups
  BY <1>t, BackupMoves
<1>o. NoBackup \in Backups
  BY <1>t, BackupMoves
<1> DEFINE Typed == /\ lock' \subseteq Job \cup {"backup"} /\ data' \in Content
      /\ job' \in [Job -> Jobs] /\ jobs' \in 0 .. MaxJobs
      /\ day' \in 1 .. Days /\ due' \in BOOLEAN /\ backup' \in Backups
      /\ archives' \in [1 .. Days -> Archives] /\ manifests' \in [1 .. Days -> {"absent", "partial", "whole"}]
      /\ sent' \subseteq {"archive", "manifest"} \X (1 .. Days)
      /\ stage' \in Snapshot /\ target' \in Snapshot /\ backupFaults' \in 0 .. BackupFaults
<1> USE <1>t DEF workVars, dayVars, artifactVars, restoreVars, BackupFault, BackupAt, BackupGoes, BackupOver
<1>1. ASSUME NEW k \in Job, StartJob(k) PROVE Typed
  <2>1. job' \in [Job -> Jobs]
    <3>1. [next |-> 1, run |-> jobs + 1] \in Jobs
      BY <1>1 DEF StartJob, Jobs, File, Run
    <3> QED BY <1>1, <3>1 DEF StartJob
  <2> QED BY <1>1, <2>1 DEF StartJob
<1>2. ASSUME NEW k \in Job, JobWrites(k) PROVE Typed
  <2>1. job[k] \in [next : File, run : Run]
    BY <1>2 DEF JobWrites, Working, Jobs
  <2>2. data' \in Content
    BY <1>2, <2>1 DEF JobWrites, Content
  <2>3. job' \in [Job -> Jobs] /\ lock' \subseteq Job \cup {"backup"}
    <3>1. CASE job[k].next = Files
      BY <1>2, <1>n, <3>1 DEF JobWrites, JobOver
    <3>2. CASE job[k].next # Files
      <4>0. job[k].next + 1 \in File /\ Files \in Nat
        BY <2>1, <3>2 DEF File
      <4>1. [job[k] EXCEPT !.next = @ + 1] \in Jobs
        <5>1. [job[k] EXCEPT !.next = @ + 1] \in [next : File, run : Run]
          BY <2>1, <4>0
        <5> QED BY <5>1 DEF Jobs
      <4>2. job' = [job EXCEPT ![k] = [job[k] EXCEPT !.next = @ + 1]] /\ lock' = lock
        BY <1>2, <3>2 DEF JobWrites
      <4> QED BY <4>1, <4>2
    <3> QED BY <3>1, <3>2
  <2> QED BY <1>2, <2>2, <2>3 DEF JobWrites
<1>3. ASSUME NEW k \in Job, JobEnds(k) PROVE Typed
  BY <1>3, <1>n DEF JobEnds, JobOver
<1>4. ASSUME NEW k \in Job, ClientKilled(k) PROVE Typed
  BY <1>4 DEF ClientKilled
<1>5. CASE NextBackupDay
  BY <1>5 DEF NextBackupDay
<1>6. CASE StartBackup
  BY <1>6, <1>m DEF StartBackup
<1>7. CASE TakeLock
  <2>1. backup' \in Backups
    BY <1>7 DEF TakeLock, Backups
  <2> QED BY <1>7, <2>1 DEF TakeLock
<1>8. CASE GiveUpWaiting
  BY <1>8, <1>o DEF GiveUpWaiting
<1>9. ASSUME NEW f \in File, CopyFile(f) PROVE Typed
  <2>1. backup' \in Backups
    BY <1>9 DEF CopyFile, Backups, Content
  <2> QED BY <1>9, <2>1 DEF CopyFile
<1>10. CASE CreateArchive
  <2>1. backup.copied \in Content /\ backup.alone \in BOOLEAN
    BY <1>10 DEF CreateArchive, AllCopied, Backups, Content
  <2>2. [state |-> "partial", snapshot |-> [files |-> backup.copied, alone |-> backup.alone]] \in Archives
    BY <2>1 DEF Archives, Snapshot
  <2> QED BY <1>10, <1>m, <2>2 DEF CreateArchive
<1>11. CASE FillArchive
  <2>1. [archives[day] EXCEPT !.state = "whole"] \in Archives
    BY DEF Archives
  <2> QED BY <1>11, <1>m, <2>1 DEF FillArchive
<1>12. CASE WriteManifest
  BY <1>12, <1>m DEF WriteManifest
<1>13. CASE RemoveStage
  BY <1>13, <1>m DEF RemoveStage
<1>14. CASE Send
  <2>1. sent' \subseteq {"archive", "manifest"} \X (1 .. Days)
    BY <1>14 DEF Send, UploadOrder
  <2> QED BY <1>14, <1>m, <1>o, <2>1 DEF Send
<1>15. CASE BackupFails
  <2>1. archives' \in [1 .. Days -> Archives]
    BY <1>15, <1>n DEF BackupFails
  <2>2. /\ manifests' \in [1 .. Days -> {"absent", "partial", "whole"}]
        /\ backup' \in Backups /\ lock' \subseteq Job \cup {"backup"}
    BY <1>15, <1>m, <1>o DEF BackupFails
  <2> QED BY <1>15, <2>1, <2>2 DEF BackupFails
<1>16. CASE DiscardManifest
  BY <1>16, <1>o DEF DiscardManifest
<1>17. CASE BackupKilled
  BY <1>17, <1>o DEF BackupKilled
<1>18. ASSUME NEW d \in 1 .. Days, ArchiveDamaged(d) PROVE Typed
  <2>1. [state |-> "damaged", snapshot |-> NoSnapshot] \in Archives
    BY <1>n DEF Archives
  <2> QED BY <1>18, <2>1 DEF ArchiveDamaged
<1>19. ASSUME NEW d \in 1 .. Days, Extract(d) PROVE Typed
  <2>1. archives[d].snapshot \in Snapshot
    BY DEF Archives
  <2> QED BY <1>19, <2>1 DEF Extract
<1>20. CASE PublishRestore
  BY <1>20, <1>n DEF PublishRestore
<1> QED
  BY <1>1, <1>2, <1>3, <1>4, <1>5, <1>6, <1>7, <1>8, <1>9, <1>10,
     <1>11, <1>12, <1>13, <1>14, <1>15, <1>16, <1>17, <1>18, <1>19, <1>20 DEF WorkerBackupNext

LEMMA HolderKept == SnapshotIInv /\ WorkerBackupNext => OneHolder'
<1> SUFFICES ASSUME SnapshotIInv, WorkerBackupNext PROVE OneHolder'
  OBVIOUS
<1>t. /\ job \in [Job -> [next : File, run : Run] \cup {NoJob}] /\ Files \in Nat /\ "backup" \notin Job
      /\ lock \subseteq Job \cup {"backup"} /\ \A k \in Job : NoJob.next = 0
  BY WorkerBackupAssumption DEF SnapshotIInv, WorkerBackupTypeOK, WorkerBackupAssumption, NoJob
<1>b. backup \in Backups
  BY DEF SnapshotIInv, WorkerBackupTypeOK, Backups
<1>h. OneHolder
  BY DEF SnapshotIInv
<1> USE DEF OneHolder, workVars, dayVars, artifactVars, restoreVars,
       BackupFault, BackupAt, BackupGoes, BackupOver, NoBackup, Working
<1>1. ASSUME NEW k \in Job, StartJob(k) PROVE OneHolder'
  <2>1. lock = {} /\ lock' = {k} /\ backup' = backup
    BY <1>1 DEF StartJob, LockFree
  <2>2. job'[k] = [next |-> 1, run |-> jobs + 1] /\ job'[k].next = 1
    BY <1>t, <1>1 DEF StartJob
  <2>3. job'[k] # NoJob
    BY <1>t, <2>2
  <2> QED BY <1>h, <1>t, <2>1, <2>3
<1>2. ASSUME NEW k \in Job, JobWrites(k) PROVE OneHolder'
  <2>1. \A l \in Job \ {k} : job'[l] = job[l]
    BY <1>2, <1>t DEF JobWrites, JobOver
  <2>2. CASE job[k].next = Files
    BY <1>2, <1>h, <1>t, <2>1, <2>2 DEF JobWrites, JobOver
  <2>3. CASE job[k].next # Files
    <3>1. job[k] \in [next : File, run : Run] /\ job' = [job EXCEPT ![k].next = @ + 1]
      BY <1>2, <1>t, <2>3 DEF JobWrites
    <3>2. job'[k].next = job[k].next + 1 /\ job[k].next \in 1 .. Files
      BY <1>t, <3>1 DEF File
    <3>3. job'[k] # NoJob
      BY <1>t, <3>2
    <3>4. ~("backup" \in lock /\ backup.alone) /\ lock' = lock /\ backup' = backup
      BY <1>2, <1>h, <2>3 DEF JobWrites
    <3> QED BY <1>h, <2>1, <3>3, <3>4
  <2> QED BY <2>2, <2>3
<1>3. ASSUME NEW k \in Job, JobEnds(k) PROVE OneHolder'
  BY <1>3, <1>h, <1>t DEF JobEnds, JobOver
<1>4. ASSUME NEW k \in Job, ClientKilled(k) PROVE OneHolder'
  BY <1>4, <1>h, <1>t DEF ClientKilled
<1>5. CASE NextBackupDay
  BY <1>5, <1>b, <1>h, <1>t DEF NextBackupDay, Backups
<1>6. CASE StartBackup
  BY <1>6, <1>b, <1>h, <1>t DEF StartBackup, Backups
<1>7. CASE TakeLock
  <2>1. lock' = {"backup"} /\ backup'.step = "copy" /\ job' = job
        /\ (backup'.alone <=> \A k \in Job : ~Working(k))
    BY <1>7, <1>b DEF TakeLock, Backups
  <2> QED BY <1>t, <2>1
<1>8. CASE GiveUpWaiting
  BY <1>8, <1>b, <1>h, <1>t DEF GiveUpWaiting, Backups
<1>9. ASSUME NEW f \in File, CopyFile(f) PROVE OneHolder'
  BY <1>9, <1>b, <1>h, <1>t DEF CopyFile, Backups
<1>10. CASE CreateArchive
  BY <1>10, <1>b, <1>h, <1>t DEF CreateArchive, Backups
<1>11. CASE FillArchive
  BY <1>11, <1>b, <1>h, <1>t DEF FillArchive, Backups
<1>12. CASE WriteManifest
  BY <1>12, <1>b, <1>h, <1>t DEF WriteManifest, Backups
<1>13. CASE RemoveStage
  BY <1>13, <1>b, <1>h, <1>t DEF RemoveStage, Backups
<1>14. CASE Send
  BY <1>14, <1>b, <1>h, <1>t DEF Send, Backups
<1>15. CASE BackupFails
  BY <1>15, <1>b, <1>h, <1>t DEF BackupFails, Backups
<1>16. CASE DiscardManifest
  BY <1>16, <1>b, <1>h, <1>t DEF DiscardManifest, Backups
<1>17. CASE BackupKilled
  BY <1>17, <1>b, <1>h, <1>t DEF BackupKilled, Backups
<1>18. ASSUME NEW d \in 1 .. Days, ArchiveDamaged(d) PROVE OneHolder'
  BY <1>18, <1>b, <1>h, <1>t DEF ArchiveDamaged, Backups
<1>19. ASSUME NEW d \in 1 .. Days, Extract(d) PROVE OneHolder'
  BY <1>19, <1>b, <1>h, <1>t DEF Extract, Backups
<1>20. CASE PublishRestore
  BY <1>20, <1>b, <1>h, <1>t DEF PublishRestore, Backups
<1> QED
  BY <1>1, <1>2, <1>3, <1>4, <1>5, <1>6, <1>7, <1>8, <1>9, <1>10,
     <1>11, <1>12, <1>13, <1>14, <1>15, <1>16, <1>17, <1>18, <1>19, <1>20 DEF WorkerBackupNext

LEMMA WrittenKept == SnapshotIInv /\ WorkerBackupNext => WrittenInOrder'
<1> SUFFICES ASSUME SnapshotIInv, WorkerBackupNext PROVE WrittenInOrder'
  OBVIOUS
<1>t. /\ job \in [Job -> [next : File, run : Run] \cup {NoJob}] /\ Files \in Nat /\ data \in Content /\ "backup" \notin Job
      /\ lock \subseteq Job \cup {"backup"} /\ \A k \in Job : NoJob.next = 0
  BY WorkerBackupAssumption DEF SnapshotIInv, WorkerBackupTypeOK, WorkerBackupAssumption, NoJob
<1>w. WrittenInOrder
  BY DEF SnapshotIInv
<1> USE DEF WrittenInOrder, Consistent, Working, workVars, dayVars, artifactVars, restoreVars,
       BackupFault, BackupAt, BackupGoes, BackupOver, NoBackup
<1>1. ASSUME NEW k \in Job, StartJob(k) PROVE WrittenInOrder'
  <2>1. job'[k].next = 1 /\ \A l \in Job \ {k} : job'[l] = job[l]
    BY <1>1, <1>t DEF StartJob
  <2>2. data' = data /\ \A f \in File : ~(f < 1)
    BY <1>1 DEF StartJob, File
  <2> QED BY <1>w, <2>1, <2>2
<1>2. ASSUME NEW k \in Job, JobWrites(k) PROVE WrittenInOrder'
  <2>1. /\ job[k].next \in 1 .. Files /\ Working(k)
        /\ data' = [data EXCEPT ![job[k].next] = @ \cup {job[k].run}]
    BY <1>2, <1>t DEF JobWrites, File
  <2>2. \A f \in File : data'[f] = IF f = job[k].next THEN data[f] \cup {job[k].run} ELSE data[f]
    BY <1>t, <2>1 DEF Content, File
  <2>3. ASSUME NEW f \in File, NEW g \in File, f < g PROVE data'[g] \subseteq data'[f]
    <3>1. data[g] \subseteq data[f]
      BY <1>w, <2>3
    <3>2. CASE g = job[k].next
      <4>1. job[k].run \in data[f]
        BY <1>w, <2>1, <2>3, <3>2
      <4> QED BY <2>2, <3>1, <3>2, <4>1
    <3>3. CASE g # job[k].next
      BY <2>2, <3>1, <3>3
    <3> QED BY <3>2, <3>3
  <2>4. ASSUME NEW l \in Job, job'[l] # NoJob, NEW f \in File, f < job'[l].next
        PROVE  job'[l].run \in data'[f]
    <3>1. CASE l # k
      <4>1. job'[l] = job[l]
        BY <1>2, <1>t, <3>1 DEF JobWrites, JobOver
      <4>2. job[l].run \in data[f]
        BY <1>w, <2>4, <4>1
      <4> QED BY <2>2, <4>1, <4>2
    <3>2. CASE l = k
      <4>1. job[k].next # Files /\ job[k] \in [next : File, run : Run]
        BY <1>2, <1>t, <2>1, <2>4, <3>2 DEF JobWrites, JobOver
      <4>2. job'[k].next = job[k].next + 1 /\ job'[k].run = job[k].run
        BY <1>2, <1>t, <4>1 DEF JobWrites
      <4>3. f < job[k].next \/ f = job[k].next
        BY <2>1, <2>4, <3>2, <4>2 DEF File
      <4>4. f < job[k].next => job[k].run \in data[f]
        BY <1>w, <2>1
      <4> QED BY <2>2, <3>2, <4>2, <4>3, <4>4
    <3> QED BY <3>1, <3>2
  <2> QED BY <2>3, <2>4
<1>3. ASSUME NEW k \in Job, JobEnds(k) PROVE WrittenInOrder'
  <2>1. \A l \in Job : job'[l] # NoJob => job'[l] = job[l]
    BY <1>3, <1>t DEF JobEnds, JobOver
  <2>2. data' = data
    BY <1>3 DEF JobEnds
  <2> QED BY <1>w, <2>1, <2>2
<1>4. ASSUME NEW k \in Job, ClientKilled(k) PROVE WrittenInOrder'
  BY <1>4, <1>w, <1>t DEF ClientKilled
<1>5. CASE NextBackupDay
  BY <1>5, <1>w, <1>t DEF NextBackupDay
<1>6. CASE StartBackup
  BY <1>6, <1>w, <1>t DEF StartBackup
<1>7. CASE TakeLock
  BY <1>7, <1>w, <1>t DEF TakeLock
<1>8. CASE GiveUpWaiting
  BY <1>8, <1>w, <1>t DEF GiveUpWaiting
<1>9. ASSUME NEW f \in File, CopyFile(f) PROVE WrittenInOrder'
  BY <1>9, <1>w, <1>t DEF CopyFile
<1>10. CASE CreateArchive
  BY <1>10, <1>w, <1>t DEF CreateArchive
<1>11. CASE FillArchive
  BY <1>11, <1>w, <1>t DEF FillArchive
<1>12. CASE WriteManifest
  BY <1>12, <1>w, <1>t DEF WriteManifest
<1>13. CASE RemoveStage
  BY <1>13, <1>w, <1>t DEF RemoveStage
<1>14. CASE Send
  BY <1>14, <1>w, <1>t DEF Send
<1>15. CASE BackupFails
  BY <1>15, <1>w, <1>t DEF BackupFails
<1>16. CASE DiscardManifest
  BY <1>16, <1>w, <1>t DEF DiscardManifest
<1>17. CASE BackupKilled
  BY <1>17, <1>w, <1>t DEF BackupKilled
<1>18. ASSUME NEW d \in 1 .. Days, ArchiveDamaged(d) PROVE WrittenInOrder'
  BY <1>18, <1>w, <1>t DEF ArchiveDamaged
<1>19. ASSUME NEW d \in 1 .. Days, Extract(d) PROVE WrittenInOrder'
  BY <1>19, <1>w, <1>t DEF Extract
<1>20. CASE PublishRestore
  BY <1>20, <1>w, <1>t DEF PublishRestore
<1> QED
  BY <1>1, <1>2, <1>3, <1>4, <1>5, <1>6, <1>7, <1>8, <1>9, <1>10,
     <1>11, <1>12, <1>13, <1>14, <1>15, <1>16, <1>17, <1>18, <1>19, <1>20 DEF WorkerBackupNext

LEMMA CopiesKept == SnapshotIInv /\ WorkerBackupNext => CopiesCurrent'
<1> SUFFICES ASSUME SnapshotIInv, WorkerBackupNext PROVE CopiesCurrent'
  OBVIOUS
<1>b. backup \in Backups
  BY DEF SnapshotIInv, WorkerBackupTypeOK, Backups
<1>h. OneHolder
  BY DEF SnapshotIInv
<1>c. CopiesCurrent
  BY DEF SnapshotIInv
<1> USE DEF CopiesCurrent, workVars, dayVars, artifactVars, restoreVars,
       BackupFault, BackupAt, BackupGoes, BackupOver, NoBackup
<1>1. ASSUME NEW k \in Job, StartJob(k) PROVE CopiesCurrent'
  BY <1>1, <1>c DEF StartJob
<1>2. ASSUME NEW k \in Job, JobWrites(k) PROVE CopiesCurrent'
  <2>1. ~("backup" \in lock /\ backup.alone) /\ backup' = backup
    BY <1>2, <1>h DEF JobWrites, OneHolder
  <2> QED BY <1>c, <1>h, <2>1 DEF OneHolder
<1>3. ASSUME NEW k \in Job, JobEnds(k) PROVE CopiesCurrent'
  BY <1>3, <1>c DEF JobEnds
<1>4. ASSUME NEW k \in Job, ClientKilled(k) PROVE CopiesCurrent'
  BY <1>4, <1>c DEF ClientKilled
<1>5. CASE NextBackupDay
  BY <1>5, <1>c DEF NextBackupDay
<1>6. CASE StartBackup
  BY <1>6, <1>b, <1>c DEF StartBackup, Backups
<1>7. CASE TakeLock
  <2>1. backup.copied = Nothing /\ backup'.copied = backup.copied /\ backup'.step = "copy"
    BY <1>7, <1>b, <1>c DEF TakeLock, Backups
  <2> QED BY <2>1 DEF Nothing
<1>8. CASE GiveUpWaiting
  BY <1>8, <1>c DEF GiveUpWaiting
<1>9. ASSUME NEW f \in File, CopyFile(f) PROVE CopiesCurrent'
  <2>1. /\ backup.step = "copy" /\ backup'.step = "copy" /\ backup'.alone = backup.alone /\ data' = data
        /\ \A g \in File : backup'.copied[g] = IF g = f THEN data[f] ELSE backup.copied[g]
    BY <1>9, <1>b DEF CopyFile, Backups
  <2> QED BY <1>c, <2>1
<1>10. CASE CreateArchive
  BY <1>10, <1>b, <1>c DEF CreateArchive, Backups
<1>11. CASE FillArchive
  BY <1>11, <1>b, <1>c DEF FillArchive, Backups
<1>12. CASE WriteManifest
  BY <1>12, <1>b, <1>c DEF WriteManifest, Backups
<1>13. CASE RemoveStage
  BY <1>13, <1>b, <1>c DEF RemoveStage, Backups
<1>14. CASE Send
  BY <1>14, <1>b, <1>c DEF Send, Backups
<1>15. CASE BackupFails
  BY <1>15, <1>b, <1>c DEF BackupFails, Backups
<1>16. CASE DiscardManifest
  BY <1>16, <1>c DEF DiscardManifest
<1>17. CASE BackupKilled
  BY <1>17, <1>c DEF BackupKilled
<1>18. ASSUME NEW d \in 1 .. Days, ArchiveDamaged(d) PROVE CopiesCurrent'
  BY <1>18, <1>c DEF ArchiveDamaged
<1>19. ASSUME NEW d \in 1 .. Days, Extract(d) PROVE CopiesCurrent'
  BY <1>19, <1>c DEF Extract
<1>20. CASE PublishRestore
  BY <1>20, <1>c DEF PublishRestore
<1> QED
  BY <1>1, <1>2, <1>3, <1>4, <1>5, <1>6, <1>7, <1>8, <1>9, <1>10,
     <1>11, <1>12, <1>13, <1>14, <1>15, <1>16, <1>17, <1>18, <1>19, <1>20 DEF WorkerBackupNext

LEMMA SnapshotsKept == SnapshotIInv /\ WorkerBackupNext => SnapshotsConsistent'
<1> SUFFICES ASSUME SnapshotIInv, WorkerBackupNext PROVE SnapshotsConsistent'
  OBVIOUS
<1>t. archives \in [1 .. Days -> Archives] /\ day \in 1 .. Days
  BY DEF SnapshotIInv, WorkerBackupTypeOK, Archives
<1>s. SnapshotsConsistent
  BY DEF SnapshotIInv
<1>n. Sound(NoSnapshot)
  BY DEF Sound, NoSnapshot, Nothing, Consistent
<1> USE DEF SnapshotsConsistent, workVars, dayVars, artifactVars, restoreVars,
       BackupFault, BackupAt, BackupGoes, BackupOver, NoBackup
<1>1. ASSUME NEW k \in Job, StartJob(k) PROVE SnapshotsConsistent'
  BY <1>1, <1>s, <1>t DEF StartJob
<1>2. ASSUME NEW k \in Job, JobWrites(k) PROVE SnapshotsConsistent'
  BY <1>2, <1>s, <1>t DEF JobWrites
<1>3. ASSUME NEW k \in Job, JobEnds(k) PROVE SnapshotsConsistent'
  BY <1>3, <1>s, <1>t DEF JobEnds
<1>4. ASSUME NEW k \in Job, ClientKilled(k) PROVE SnapshotsConsistent'
  BY <1>4, <1>s, <1>t DEF ClientKilled
<1>5. CASE NextBackupDay
  BY <1>5, <1>s, <1>t DEF NextBackupDay
<1>6. CASE StartBackup
  BY <1>6, <1>s, <1>t DEF StartBackup
<1>7. CASE TakeLock
  BY <1>7, <1>s, <1>t DEF TakeLock
<1>8. CASE GiveUpWaiting
  BY <1>8, <1>s, <1>t DEF GiveUpWaiting
<1>9. ASSUME NEW f \in File, CopyFile(f) PROVE SnapshotsConsistent'
  BY <1>9, <1>s, <1>t DEF CopyFile
<1>10. CASE CreateArchive
  <2>1. backup.alone => Consistent(backup.copied)
    <3>1. backup.alone => \A f \in File : backup.copied[f] = data[f]
      BY <1>10 DEF CreateArchive, AllCopied, SnapshotIInv, CopiesCurrent
    <3> QED BY <3>1 DEF SnapshotIInv, WrittenInOrder, Consistent
  <2>2. \A d \in 1 .. Days : archives'[d].snapshot =
          IF d = day THEN [files |-> backup.copied, alone |-> backup.alone] ELSE archives[d].snapshot
    BY <1>10, <1>t DEF CreateArchive
  <2> QED BY <1>10, <1>s, <2>1, <2>2 DEF CreateArchive, Sound
<1>11. CASE FillArchive
  <2>1. \A d \in 1 .. Days : archives'[d].snapshot = archives[d].snapshot
    BY <1>11, <1>t DEF FillArchive, Archives
  <2> QED BY <1>11, <1>s, <2>1 DEF FillArchive
<1>12. CASE WriteManifest
  BY <1>12, <1>s, <1>t DEF WriteManifest
<1>13. CASE RemoveStage
  BY <1>13, <1>s, <1>t DEF RemoveStage
<1>14. CASE Send
  BY <1>14, <1>s, <1>t DEF Send
<1>15. CASE BackupFails
  <2>1. \A d \in 1 .. Days : archives'[d].snapshot \in {NoSnapshot, archives[d].snapshot}
    <3>1. NoArchive.snapshot = NoSnapshot
      BY DEF NoArchive
    <3>2. \A d \in 1 .. Days : archives'[d] \in {NoArchive, archives[d]}
      BY <1>15, <1>t DEF BackupFails
    <3> QED BY <3>1, <3>2
  <2> QED BY <1>15, <1>s, <1>n, <2>1 DEF BackupFails
<1>16. CASE DiscardManifest
  BY <1>16, <1>s, <1>t DEF DiscardManifest
<1>17. CASE BackupKilled
  BY <1>17, <1>s, <1>t DEF BackupKilled
<1>18. ASSUME NEW d \in 1 .. Days, ArchiveDamaged(d) PROVE SnapshotsConsistent'
  <2>1. \A e \in 1 .. Days : archives'[e].snapshot \in {NoSnapshot, archives[e].snapshot}
    BY <1>18, <1>t DEF ArchiveDamaged
  <2> QED BY <1>18, <1>s, <1>n, <2>1 DEF ArchiveDamaged
<1>19. ASSUME NEW d \in 1 .. Days, Extract(d) PROVE SnapshotsConsistent'
  BY <1>19, <1>s, <1>t DEF Extract
<1>20. CASE PublishRestore
  BY <1>20, <1>s, <1>n DEF PublishRestore
<1> QED
  BY <1>1, <1>2, <1>3, <1>4, <1>5, <1>6, <1>7, <1>8, <1>9, <1>10,
     <1>11, <1>12, <1>13, <1>14, <1>15, <1>16, <1>17, <1>18, <1>19, <1>20 DEF WorkerBackupNext

LEMMA OnePerDayKept == SnapshotIInv /\ WorkerBackupNext => OnePerDay'
<1> SUFFICES ASSUME SnapshotIInv, WorkerBackupNext PROVE OnePerDay'
  OBVIOUS
<1>t. /\ archives \in [1 .. Days -> Archives] /\ day \in 1 .. Days /\ backup \in Backups
      /\ manifests \in [1 .. Days -> {"absent", "partial", "whole"}] /\ Days \in Nat
  BY WorkerBackupAssumption DEF SnapshotIInv, WorkerBackupTypeOK, WorkerBackupAssumption, Archives, Backups
<1>p. OnePerDay
  BY DEF SnapshotIInv
<1> USE DEF OnePerDay, workVars, dayVars, artifactVars, restoreVars,
       BackupFault, BackupAt, BackupGoes, BackupOver, NoBackup
<1>1. ASSUME NEW k \in Job, StartJob(k) PROVE OnePerDay'
  BY <1>1, <1>p, <1>t DEF StartJob
<1>2. ASSUME NEW k \in Job, JobWrites(k) PROVE OnePerDay'
  BY <1>2, <1>p, <1>t DEF JobWrites
<1>3. ASSUME NEW k \in Job, JobEnds(k) PROVE OnePerDay'
  BY <1>3, <1>p, <1>t DEF JobEnds
<1>4. ASSUME NEW k \in Job, ClientKilled(k) PROVE OnePerDay'
  BY <1>4, <1>p, <1>t DEF ClientKilled
<1>5. CASE NextBackupDay
  <2>1. /\ day' = day + 1 /\ day \in 1 .. Days /\ day < Days /\ Days \in Int
        /\ backup' = backup /\ backup.step = "off" /\ manifests' = manifests
    BY <1>5, <1>t DEF NextBackupDay
  <2>2. manifests[day'] = "absent" /\ \A d \in 1 .. Days : d > day' => manifests[d] = "absent"
    BY <1>p, <2>1
  <2> QED BY <2>1, <2>2
<1>6. CASE StartBackup
  BY <1>6, <1>p, <1>t DEF StartBackup, Backups
<1>7. CASE TakeLock
  BY <1>7, <1>p, <1>t DEF TakeLock, Backups
<1>8. CASE GiveUpWaiting
  BY <1>8, <1>p, <1>t DEF GiveUpWaiting
<1>9. ASSUME NEW f \in File, CopyFile(f) PROVE OnePerDay'
  BY <1>9, <1>p, <1>t DEF CopyFile, Backups
<1>10. CASE CreateArchive
  BY <1>10, <1>p, <1>t DEF CreateArchive, Backups
<1>11. CASE FillArchive
  <2>1. backup'.step = "manifest" /\ UNCHANGED <<manifests, due, day>> /\ manifests[day] = "absent"
    BY <1>11, <1>p, <1>t DEF FillArchive, Backups
  <2>2. due' => FALSE
    BY <1>11, <1>p, <2>1 DEF FillArchive
  <2> QED BY <1>p, <2>1, <2>2
<1>12. CASE WriteManifest
  BY <1>12, <1>p, <1>t DEF WriteManifest, Backups
<1>13. CASE RemoveStage
  BY <1>13, <1>p, <1>t DEF RemoveStage, Backups
<1>14. CASE Send
  BY <1>14, <1>p, <1>t DEF Send, Backups
<1>15. CASE BackupFails
  <2>1. CASE Owns /\ manifests[day] = "whole"
    <3>1. /\ backup'.step = "discard" /\ UNCHANGED <<day, due, manifests>>
          /\ archives'[day] = NoArchive /\ NoArchive.state = "absent"
      BY <1>15, <1>t, <2>1 DEF BackupFails, Backups, NoArchive
    <3>2. ~due
      BY <1>p, <2>1 DEF Owns
    <3> QED BY <1>p, <3>1, <3>2
  <2>2. CASE ~(Owns /\ manifests[day] = "whole")
    <3>1. backup'.step = "off" /\ UNCHANGED <<day, due>>
      BY <1>15, <2>2 DEF BackupFails
    <3>2. \A d \in 1 .. Days : manifests'[d] \in {"absent", manifests[d]}
      BY <1>15, <1>t, <2>2 DEF BackupFails
    <3>3. ~due
      BY <1>15, <1>p DEF BackupFails
    <3> QED BY <1>p, <1>t, <3>1, <3>2, <3>3
  <2> QED BY <2>1, <2>2
<1>16. CASE DiscardManifest
  BY <1>16, <1>p, <1>t DEF DiscardManifest
<1>17. CASE BackupKilled
  BY <1>17, <1>p, <1>t DEF BackupKilled
<1>18. ASSUME NEW d \in 1 .. Days, ArchiveDamaged(d) PROVE OnePerDay'
  BY <1>18, <1>p, <1>t DEF ArchiveDamaged
<1>19. ASSUME NEW d \in 1 .. Days, Extract(d) PROVE OnePerDay'
  BY <1>19, <1>p, <1>t DEF Extract
<1>20. CASE PublishRestore
  BY <1>20, <1>p, <1>t DEF PublishRestore
<1> QED
  BY <1>1, <1>2, <1>3, <1>4, <1>5, <1>6, <1>7, <1>8, <1>9, <1>10,
     <1>11, <1>12, <1>13, <1>14, <1>15, <1>16, <1>17, <1>18, <1>19, <1>20 DEF WorkerBackupNext

LEMMA PairsKept == SnapshotIInv /\ WorkerBackupNext => SendsInOrder'
<1> SUFFICES ASSUME SnapshotIInv, WorkerBackupNext PROVE SendsInOrder'
  OBVIOUS
<1>t. day \in 1 .. Days /\ backup \in Backups /\ Days \in Nat
  BY WorkerBackupAssumption DEF SnapshotIInv, WorkerBackupTypeOK, WorkerBackupAssumption, Backups
<1>p. SendsInOrder /\ (due => backup.step = "off")
  BY DEF SnapshotIInv, OnePerDay
<1> USE DEF SendsInOrder, SentLate, ArchiveFirst, SentInPairs, workVars, dayVars, artifactVars, restoreVars,
       BackupFault, BackupAt, BackupGoes, BackupOver, NoBackup
<1>1. ASSUME NEW k \in Job, StartJob(k) PROVE SendsInOrder'
  BY <1>1, <1>p, <1>t DEF StartJob
<1>2. ASSUME NEW k \in Job, JobWrites(k) PROVE SendsInOrder'
  BY <1>2, <1>p, <1>t DEF JobWrites
<1>3. ASSUME NEW k \in Job, JobEnds(k) PROVE SendsInOrder'
  BY <1>3, <1>p, <1>t DEF JobEnds
<1>4. ASSUME NEW k \in Job, ClientKilled(k) PROVE SendsInOrder'
  BY <1>4, <1>p, <1>t DEF ClientKilled
<1>5. CASE NextBackupDay
  <2>1. /\ day' = day + 1 /\ day \in 1 .. Days /\ Days \in Int /\ sent' = sent
        /\ backup' = backup /\ backup.step = "off"
    BY <1>5, <1>t DEF NextBackupDay
  <2>2. \A d \in 1 .. Days : d > day' \/ d = day' => d > day
    BY <2>1
  <2> QED BY <1>p, <2>1, <2>2
<1>6. CASE StartBackup
  BY <1>6, <1>p, <1>t DEF StartBackup, Backups
<1>7. CASE TakeLock
  BY <1>7, <1>p, <1>t DEF TakeLock, Backups
<1>8. CASE GiveUpWaiting
  BY <1>8, <1>p, <1>t DEF GiveUpWaiting
<1>9. ASSUME NEW f \in File, CopyFile(f) PROVE SendsInOrder'
  BY <1>9, <1>p, <1>t DEF CopyFile, Backups
<1>10. CASE CreateArchive
  BY <1>10, <1>p, <1>t DEF CreateArchive, Backups
<1>11. CASE FillArchive
  BY <1>11, <1>p, <1>t DEF FillArchive, Backups
<1>12. CASE WriteManifest
  BY <1>12, <1>p, <1>t DEF WriteManifest, Backups
<1>13. CASE RemoveStage
  BY <1>13, <1>p, <1>t DEF RemoveStage, Backups
<1>14. CASE Send
  <2>0. ~due /\ day' = day /\ due' = due /\ day \in 1 .. Days
    BY <1>14, <1>p, <1>t DEF Send
  <2>1. CASE BackupAt("upload")
    <3>1. sent' = sent \cup {<<"archive", day>>} /\ backup'.step = "uploadManifest"
      BY <1>14, <1>t, <2>1 DEF Send, UploadOrder, Backups
    <3> QED BY <1>p, <2>0, <3>1
  <2>2. CASE BackupAt("uploadManifest")
    <3>1. /\ sent' = sent \cup {<<"manifest", day>>} /\ <<"archive", day>> \in sent
          /\ backup'.step = "off"
      BY <1>14, <1>p, <2>2 DEF Send, UploadOrder
    <3> QED BY <1>p, <2>0, <3>1
  <2> QED BY <1>14, <2>1, <2>2 DEF Send
<1>15. CASE BackupFails
  <2>1. backup'.step \in {"discard", "off"} /\ UNCHANGED <<day, due, sent>> /\ backup.step \notin {"off", "waiting", "discard"}
    BY <1>15, <1>t DEF BackupFails, Backups
  <2>2. CASE Owns /\ manifests[day] = "whole"
    <3>1. ~due /\ backup.step \notin {"off", "upload", "uploadManifest"}
      BY <1>p, <2>2 DEF Owns
    <3> QED BY <1>p, <2>1, <3>1
  <2>3. CASE ~(Owns /\ manifests[day] = "whole")
    <3>1. backup'.step = "off" /\ ~due
      BY <1>15, <1>p, <2>1, <2>3 DEF BackupFails
    <3>2. \A d \in 1 .. Days, kind \in {"archive", "manifest"} : d > day => <<kind, d>> \notin sent
      BY <1>p
    <3>3. ~(day > day)
      BY <1>t
    <3> QED BY <1>p, <2>1, <3>1, <3>2
  <2> QED BY <2>2, <2>3
<1>16. CASE DiscardManifest
  BY <1>16, <1>p, <1>t DEF DiscardManifest
<1>17. CASE BackupKilled
  BY <1>17, <1>p, <1>t DEF BackupKilled
<1>18. ASSUME NEW d \in 1 .. Days, ArchiveDamaged(d) PROVE SendsInOrder'
  BY <1>18, <1>p, <1>t DEF ArchiveDamaged
<1>19. ASSUME NEW d \in 1 .. Days, Extract(d) PROVE SendsInOrder'
  BY <1>19, <1>p, <1>t DEF Extract
<1>20. CASE PublishRestore
  BY <1>20, <1>p, <1>t DEF PublishRestore
<1> QED
  BY <1>1, <1>2, <1>3, <1>4, <1>5, <1>6, <1>7, <1>8, <1>9, <1>10,
     <1>11, <1>12, <1>13, <1>14, <1>15, <1>16, <1>17, <1>18, <1>19, <1>20 DEF WorkerBackupNext

-----------------------------------------------------------------------------
LEMMA SnapshotsStart == WorkerBackupInit => SnapshotIInv
<1> SUFFICES ASSUME WorkerBackupInit PROVE SnapshotIInv
  OBVIOUS
<1> USE WorkerBackupAssumption DEF WorkerBackupAssumption, WorkerBackupInit
<1>1. WorkerBackupTypeOK
  <2>1. NoSnapshot \in Snapshot
    BY DEF NoSnapshot, Snapshot
  <2>2. NoArchive \in [state : {"absent", "partial", "whole", "damaged"}, snapshot : Snapshot]
    BY <2>1 DEF NoArchive
  <2>3. data \in Content
    BY DEF Content
  <2>4. 1 \in 1 .. Days /\ 0 \in 0 .. MaxJobs /\ 0 \in 0 .. BackupFaults
    OBVIOUS
  <2>5. NoBackup \in [step : {"off", "waiting", "copy", "archive", "manifest", "cleanup", "discard",
                              "upload", "uploadManifest"},
                      copied : [File -> (SUBSET Run) \cup {NotThere}], alone : BOOLEAN]
    BY DEF NoBackup, Nothing
  <2> QED BY <2>1, <2>2, <2>3, <2>4, <2>5 DEF WorkerBackupTypeOK
<1>2. OneHolder /\ WrittenInOrder /\ CopiesCurrent
  BY DEF OneHolder, WrittenInOrder, Consistent, CopiesCurrent, NoBackup, Working
<1>3. OnePerDay /\ SendsInOrder
  BY DEF OnePerDay, SendsInOrder, SentLate, ArchiveFirst, SentInPairs, NoBackup
<1>4. SnapshotsConsistent
  BY DEF SnapshotsConsistent, Sound, Consistent, NoArchive, NoSnapshot, Nothing
<1> QED BY <1>1, <1>2, <1>3, <1>4 DEF SnapshotIInv

LEMMA SnapshotsStay == SnapshotIInv /\ [WorkerBackupNext]_workerBackupVars => SnapshotIInv'
<1> SUFFICES ASSUME SnapshotIInv, [WorkerBackupNext]_workerBackupVars PROVE SnapshotIInv'
  OBVIOUS
<1>1. CASE WorkerBackupNext
  BY <1>1, SnapshotTyped, HolderKept, WrittenKept, CopiesKept, SnapshotsKept, OnePerDayKept, PairsKept
     DEF SnapshotIInv
<1>2. CASE UNCHANGED workerBackupVars
  <2> USE <1>2 DEF SnapshotIInv, workerBackupVars, workVars, dayVars, artifactVars, restoreVars
  <2>1. WorkerBackupTypeOK' /\ OneHolder' /\ WrittenInOrder' /\ CopiesCurrent'
    BY DEF WorkerBackupTypeOK, OneHolder, WrittenInOrder, Consistent, CopiesCurrent, Working
  <2>2. SnapshotsConsistent' /\ OnePerDay' /\ SendsInOrder'
    BY DEF SnapshotsConsistent, Sound, Consistent, OnePerDay, SendsInOrder, SentLate, ArchiveFirst,
       SentInPairs
  <2> QED BY <2>1, <2>2
<1> QED BY <1>1, <1>2

(* Only the backup that makes a complete pair can remove it, before any of  *)
(* it is sent.                                                              *)
LEMMA PairStays == SnapshotIInv /\ WorkerBackupNext => \A d \in 1 .. Days : PairKept(d)
<1> SUFFICES ASSUME SnapshotIInv, WorkerBackupNext, NEW e \in 1 .. Days,
                    CompletePair(e), ~Unsettled(e)
             PROVE  CompletePair(e)'
  BY DEF PairKept
<1>t. /\ archives \in [1 .. Days -> Archives] /\ day \in 1 .. Days /\ backup \in Backups
      /\ manifests \in [1 .. Days -> {"absent", "partial", "whole"}]
  BY DEF SnapshotIInv, WorkerBackupTypeOK, Archives, Backups
<1>p. OnePerDay /\ SentLate
  BY DEF SnapshotIInv, SendsInOrder
<1>c. archives[e].state \in {"whole", "damaged"} /\ manifests[e] = "whole"
  BY DEF CompletePair
<1> USE <1>c DEF CompletePair, workVars, dayVars, artifactVars, restoreVars, BackupFault, BackupAt
<1>1. ASSUME NEW k \in Job, StartJob(k) PROVE CompletePair(e)'
  BY <1>1, <1>t DEF StartJob
<1>2. ASSUME NEW k \in Job, JobWrites(k) PROVE CompletePair(e)'
  BY <1>2, <1>t DEF JobWrites
<1>3. ASSUME NEW k \in Job, JobEnds(k) PROVE CompletePair(e)'
  BY <1>3, <1>t DEF JobEnds
<1>4. ASSUME NEW k \in Job, ClientKilled(k) PROVE CompletePair(e)'
  BY <1>4, <1>t DEF ClientKilled
<1>5. CASE NextBackupDay
  BY <1>5, <1>t DEF NextBackupDay
<1>6. CASE StartBackup
  BY <1>6, <1>t DEF StartBackup
<1>7. CASE TakeLock
  BY <1>7, <1>t DEF TakeLock
<1>8. CASE GiveUpWaiting
  BY <1>8, <1>t DEF GiveUpWaiting
<1>9. ASSUME NEW f \in File, CopyFile(f) PROVE CompletePair(e)'
  BY <1>9, <1>t DEF CopyFile
<1>10. CASE CreateArchive
  BY <1>10, <1>t, <1>p DEF CreateArchive, OnePerDay
<1>11. CASE FillArchive
  BY <1>11, <1>t, <1>p DEF FillArchive, Archives
<1>12. CASE WriteManifest
  BY <1>12, <1>t, <1>p DEF WriteManifest, OnePerDay
<1>13. CASE RemoveStage
  BY <1>13, <1>t DEF RemoveStage
<1>14. CASE Send
  BY <1>14, <1>t DEF Send
<1>15. CASE BackupFails
  <2>1. CASE ~Owns
    BY <1>15, <2>1 DEF BackupFails
  <2>2. CASE Owns
    <3>1. e # day
      <4>1. SUFFICES ASSUME e = day PROVE FALSE
        OBVIOUS
      <4>2. backup.step = "cleanup"
        BY <1>p, <2>2, <4>1 DEF Owns, OnePerDay
      <4>3. ~due /\ \A kind \in {"archive", "manifest"} : <<kind, e>> \notin sent
        BY <1>p, <4>1, <4>2 DEF OnePerDay, SentLate
      <4> QED BY <4>1, <4>2, <4>3 DEF Unsettled
    <3>2. archives'[e] = archives[e] /\ manifests'[e] = manifests[e]
      BY <1>15, <1>t, <2>2, <3>1 DEF BackupFails
    <3> QED BY <3>2
  <2> QED BY <2>1, <2>2
<1>16. CASE DiscardManifest
  BY <1>16, <1>t, <1>p DEF DiscardManifest, OnePerDay
<1>17. CASE BackupKilled
  BY <1>17, <1>t DEF BackupKilled
<1>18. ASSUME NEW d \in 1 .. Days, ArchiveDamaged(d) PROVE CompletePair(e)'
  BY <1>18, <1>t DEF ArchiveDamaged
<1>19. ASSUME NEW d \in 1 .. Days, Extract(d) PROVE CompletePair(e)'
  BY <1>19, <1>t DEF Extract
<1>20. CASE PublishRestore
  BY <1>20, <1>t DEF PublishRestore
<1> QED
  BY <1>1, <1>2, <1>3, <1>4, <1>5, <1>6, <1>7, <1>8, <1>9, <1>10,
     <1>11, <1>12, <1>13, <1>14, <1>15, <1>16, <1>17, <1>18, <1>19, <1>20 DEF WorkerBackupNext

(* Every restore of a snapshot that met no stray container is a state of    *)
(* the worker between two writes of its jobs, and S3 never holds a manifest *)
(* without its archive, for any number of files, containers, days, faults.  *)
THEOREM SnapshotsHold == WorkerBackupSpec => []WorkerBackupInv
<1>1. SnapshotIInv => WorkerBackupInv
  BY DEF SnapshotIInv, SnapshotsConsistent, Sound, SendsInOrder, WorkerBackupInv, RestoredConsistent
<1> QED BY <1>1, SnapshotsStart, SnapshotsStay, PTL DEF WorkerBackupSpec

(* A complete snapshot whose temporary directory is gone is never removed:  *)
(* not by a failed upload, not by a later backup; nor is one of which       *)
(* anything was sent.                                                       *)
THEOREM SnapshotsKeptForGood == WorkerBackupSpec => LocalCopyKept
<1>1. SnapshotIInv /\ [WorkerBackupNext]_workerBackupVars
          => [\A d \in 1 .. Days : PairKept(d)]_workerBackupVars
  BY PairStays
<1> QED BY <1>1, SnapshotsStart, SnapshotsStay, PTL DEF WorkerBackupSpec, LocalCopyKept
=============================================================================
