------------------------------- MODULE WorkerBackup -------------------------------
(***************************************************************************)
(* The shared lock of the worker's jobs, daily snapshots and restores.     *)
(*                                                                         *)
(*   timers            --> flock --nonblock a job, flock --wait the backup  *)
(*   run_worker.sh     --> a job: changes several files, one after another  *)
(*   worker_backup     --> copies the files, writes the archive, then its   *)
(*                         manifest, then uploads both in this order        *)
(*   restore           --> checks a snapshot, publishes it by one rename    *)
(*                                                                         *)
(* A job changes the files in a fixed order, originals before the ledger   *)
(* that names them; a snapshot may copy them in any other order.  What a   *)
(* file holds is the set of the runs that have written to it.  Any process *)
(* can be killed, by the service's timeout too, and then cleans nothing    *)
(* up.  A job runs in a container of the Docker daemon, its lock is held by *)
(* the client that started it: the container may outlive client and lock.  *)
(***************************************************************************)
EXTENDS Integers, FiniteSets

CONSTANTS Job,          \* containers of worker jobs that there can be at a time
          Files,        \* number of files; file 1 is written first
          Days,         \* bound on days
          MaxJobs,      \* bound on jobs that are started
          BackupFaults  \* bound on failed calls, kills and damaged archives

ASSUME WorkerBackupAssumption ==
    /\ "backup" \notin Job
    /\ Files \in Nat \ {0} /\ Days \in Nat \ {0} /\ MaxJobs \in Nat /\ BackupFaults \in Nat

VARIABLES
    lock,       \* holders of /run/parliament-worker.lock
    data,       \* per file of .local/worker: the runs that wrote to it
    job,        \* per container: its run and the next file it writes; 0: none
    jobs,       \* jobs started
    day, due,   \* the day, and whether its backup is still to be started
    backup,     \* the backup under way
    archives,   \* per day: the snapshot file in .local/worker-backups
    manifests,  \* per day: its manifest
    sent,       \* <<kind, day>>: objects under backups/ in S3
    stage,      \* snapshot that a restore extracted, before it publishes it
    target,     \* the directory a restore publishes
    backupFaults

workVars == <<data, job, jobs>>
dayVars == <<day, due>>
artifactVars == <<archives, manifests>>
restoreVars == <<stage, target>>
workerBackupVars == <<lock, workVars, dayVars, backup, artifactVars, sent, restoreVars, backupFaults>>

File == 1 .. Files
Run == 1 .. MaxJobs
NotThere == {0}
Content == [File -> SUBSET Run]
Nothing == [f \in File |-> NotThere]
NoJob == [next |-> 0, run |-> 0]
(* "alone" is history: whether the snapshot was copied while no container  *)
(* that had outlived its lock was at work.                                 *)
Snapshot == [files : Content \cup {Nothing}, alone : BOOLEAN]
NoSnapshot == [files |-> Nothing, alone |-> TRUE]
NoArchive == [state |-> "absent", snapshot |-> NoSnapshot]
NoBackup == [step |-> "off", copied |-> Nothing, alone |-> TRUE]

WorkerBackupTypeOK ==
    /\ lock \subseteq Job \cup {"backup"}
    /\ data \in Content
    /\ job \in [Job -> [next : File, run : Run] \cup {NoJob}] /\ jobs \in 0 .. MaxJobs
    /\ day \in 1 .. Days /\ due \in BOOLEAN
    /\ backup \in [step : {"off", "waiting", "copy", "archive", "manifest", "cleanup", "discard",
                            "upload", "uploadManifest"},
                   copied : [File -> (SUBSET Run) \cup {NotThere}], alone : BOOLEAN]
    /\ archives \in [1 .. Days -> [state : {"absent", "partial", "whole", "damaged"},
                                   snapshot : Snapshot]]
    /\ manifests \in [1 .. Days -> {"absent", "partial", "whole"}]
    /\ sent \subseteq {"archive", "manifest"} \X (1 .. Days)
    /\ stage \in Snapshot /\ target \in Snapshot
    /\ backupFaults \in 0 .. BackupFaults

WorkerBackupInit ==
    /\ lock = {}
    /\ data = [f \in File |-> {}]
    /\ job = [k \in Job |-> NoJob]
    /\ jobs = 0
    /\ day = 1 /\ due = TRUE
    /\ backup = NoBackup
    /\ archives = [d \in 1 .. Days |-> NoArchive]
    /\ manifests = [d \in 1 .. Days |-> "absent"]
    /\ sent = {}
    /\ stage = NoSnapshot /\ target = NoSnapshot
    /\ backupFaults = 0

BackupFault == backupFaults < BackupFaults /\ backupFaults' = backupFaults + 1

-----------------------------------------------------------------------------
(* Jobs.                                                                   *)

(* Mutant: a job does not ask for the lock. *)
LockFreeIgnored == TRUE
LockFree == lock = {}

Working(k) == job[k] # NoJob

(* A timer that finds the lock taken gives up until it fires again. *)
StartJob(k) ==
    /\ ~Working(k) /\ jobs < MaxJobs
    /\ LockFree
    /\ lock' = lock \cup {k}
    /\ job' = [job EXCEPT ![k] = [next |-> 1, run |-> jobs + 1]]
    /\ jobs' = jobs + 1
    /\ UNCHANGED <<data, dayVars, backup, artifactVars, sent, restoreVars, backupFaults>>

JobOver(k) == job' = [job EXCEPT ![k] = NoJob] /\ lock' = lock \ {k}

JobWrites(k) ==
    /\ Working(k)
    /\ data' = [data EXCEPT ![job[k].next] = @ \cup {job[k].run}]
    /\ IF job[k].next = Files THEN JobOver(k)
       ELSE job' = [job EXCEPT ![k].next = @ + 1] /\ UNCHANGED lock
    /\ UNCHANGED <<jobs, dayVars, backup, artifactVars, sent, restoreVars, backupFaults>>

(* It fails or is killed, and the container ends with it. *)
JobEnds(k) ==
    /\ Working(k)
    /\ BackupFault
    /\ JobOver(k)
    /\ UNCHANGED <<data, jobs, dayVars, backup, artifactVars, sent, restoreVars>>

(* The service's client and its flock are killed, after ten minutes or by  *)
(* an operator, and the container goes on without the lock.                *)
ClientKilled(k) ==
    /\ Working(k) /\ k \in lock
    /\ BackupFault
    /\ lock' = lock \ {k}
    /\ UNCHANGED <<workVars, dayVars, backup, artifactVars, sent, restoreVars>>

-----------------------------------------------------------------------------
(* The daily backup.                                                       *)

BackupAt(step) == backup.step = step
BackupGoes(step) == backup' = [backup EXCEPT !.step = step]
BackupOver == backup' = NoBackup /\ lock' = lock \ {"backup"}

NextBackupDay ==
    /\ day < Days /\ ~due /\ BackupAt("off")
    /\ day' = day + 1 /\ due' = TRUE
    /\ UNCHANGED <<lock, workVars, backup, artifactVars, sent, restoreVars, backupFaults>>

StartBackup ==
    /\ due /\ BackupAt("off")
    /\ due' = FALSE
    /\ BackupGoes("waiting")
    /\ UNCHANGED <<lock, workVars, day, artifactVars, sent, restoreVars, backupFaults>>

TakeLock ==
    /\ BackupAt("waiting") /\ lock = {}
    /\ lock' = {"backup"}
    /\ backup' = [backup EXCEPT !.step = "copy", !.alone = \A k \in Job : ~Working(k)]
    /\ UNCHANGED <<workVars, dayVars, artifactVars, sent, restoreVars, backupFaults>>

(* After 120 seconds; a job may hold the lock for ten minutes. *)
GiveUpWaiting ==
    /\ BackupAt("waiting") /\ lock # {}
    /\ backup' = NoBackup
    /\ UNCHANGED <<lock, workVars, dayVars, artifactVars, sent, restoreVars, backupFaults>>

(* Each file is copied, a database by its own backup call, into a stage. *)
CopyFile(f) ==
    /\ BackupAt("copy") /\ backup.copied[f] = NotThere
    /\ backup' = [backup EXCEPT !.copied[f] = data[f]]
    /\ UNCHANGED <<lock, workVars, dayVars, artifactVars, sent, restoreVars, backupFaults>>

AllCopied == \A f \in File : backup.copied[f] # NotThere

CreateArchive ==
    /\ BackupAt("copy") /\ AllCopied
    /\ archives' = [archives EXCEPT ![day] =
           [state |-> "partial", snapshot |-> [files |-> backup.copied, alone |-> backup.alone]]]
    /\ BackupGoes("archive")
    /\ UNCHANGED <<lock, workVars, dayVars, manifests, sent, restoreVars, backupFaults>>

FillArchive ==
    /\ BackupAt("archive")
    /\ archives' = [archives EXCEPT ![day].state = "whole"]
    /\ BackupGoes("manifest")
    /\ UNCHANGED <<lock, workVars, dayVars, manifests, sent, restoreVars, backupFaults>>

WriteManifest ==
    /\ BackupAt("manifest")
    /\ IF manifests[day] = "absent"
       THEN manifests' = [manifests EXCEPT ![day] = "partial"] /\ UNCHANGED backup
       ELSE manifests' = [manifests EXCEPT ![day] = "whole"] /\ BackupGoes("cleanup")
    /\ UNCHANGED <<lock, workVars, dayVars, archives, sent, restoreVars, backupFaults>>

(* The temporary directory goes; only then the snapshot is there to stay. *)
RemoveStage ==
    /\ BackupAt("cleanup")
    /\ BackupGoes("upload")
    /\ UNCHANGED <<lock, workVars, dayVars, artifactVars, sent, restoreVars, backupFaults>>

UploadOrder == IF BackupAt("upload") THEN "archive" ELSE "manifest"

Send ==
    /\ BackupAt("upload") \/ BackupAt("uploadManifest")
    /\ sent' = sent \cup {<<UploadOrder, day>>}
    /\ IF BackupAt("upload") THEN BackupGoes("uploadManifest") /\ UNCHANGED lock ELSE BackupOver
    /\ UNCHANGED <<workVars, dayVars, artifactVars, restoreVars, backupFaults>>

(* Mutant: what is owned is given up only after the upload. *)
OwnsAlways == TRUE
(* What a failure before the temporary directory is gone removes again. *)
Owns == backup.step \in {"archive", "manifest", "cleanup"}

(* A manifest that is being written removes itself; one that is complete   *)
(* is removed after the archive, in a step of its own.                     *)
BackupFails ==
    /\ ~BackupAt("off") /\ ~BackupAt("waiting") /\ ~BackupAt("discard")
    /\ BackupFault
    /\ IF Owns THEN archives' = [archives EXCEPT ![day] = NoArchive] ELSE UNCHANGED archives
    /\ IF Owns /\ manifests[day] = "whole"
       THEN UNCHANGED manifests /\ BackupGoes("discard") /\ UNCHANGED lock
       ELSE /\ manifests' = IF Owns THEN [manifests EXCEPT ![day] = "absent"] ELSE manifests
            /\ BackupOver
    /\ UNCHANGED <<workVars, dayVars, sent, restoreVars>>

DiscardManifest ==
    /\ BackupAt("discard")
    /\ manifests' = [manifests EXCEPT ![day] = "absent"]
    /\ BackupOver
    /\ UNCHANGED <<workVars, dayVars, archives, sent, restoreVars, backupFaults>>

BackupKilled ==
    /\ ~BackupAt("off")
    /\ BackupFault
    /\ BackupOver
    /\ UNCHANGED <<workVars, dayVars, artifactVars, sent, restoreVars>>

ArchiveDamaged(d) ==
    /\ archives[d].state = "whole"
    /\ BackupFault
    /\ archives' = [archives EXCEPT ![d] = [state |-> "damaged", snapshot |-> NoSnapshot]]
    /\ UNCHANGED <<lock, workVars, dayVars, backup, manifests, sent, restoreVars>>

-----------------------------------------------------------------------------
(* Restores.                                                               *)

(* A manifest that can be read, and the checksum it gives. *)
Verified(d) == manifests[d] = "whole" /\ archives[d].state = "whole"

Extract(d) ==
    /\ stage = NoSnapshot /\ target = NoSnapshot
    /\ Verified(d)
    /\ stage' = archives[d].snapshot
    /\ UNCHANGED <<lock, workVars, dayVars, backup, artifactVars, sent, target, backupFaults>>

(* One rename, if the target is still missing or empty; a restore that     *)
(* fails or is killed before it leaves the target as it was.               *)
PublishRestore ==
    /\ stage # NoSnapshot
    /\ \/ target' = stage
       \/ UNCHANGED target
    /\ stage' = NoSnapshot
    /\ UNCHANGED <<lock, workVars, dayVars, backup, artifactVars, sent, backupFaults>>

WorkerBackupNext ==
    \/ \E k \in Job : StartJob(k) \/ JobWrites(k) \/ JobEnds(k) \/ ClientKilled(k)
    \/ NextBackupDay \/ StartBackup \/ TakeLock \/ GiveUpWaiting
    \/ \E f \in File : CopyFile(f)
    \/ CreateArchive \/ FillArchive \/ WriteManifest \/ RemoveStage \/ Send
    \/ BackupFails \/ DiscardManifest \/ BackupKilled
    \/ \E d \in 1 .. Days : ArchiveDamaged(d) \/ Extract(d)
    \/ PublishRestore

WorkerBackupSpec == WorkerBackupInit /\ [][WorkerBackupNext]_workerBackupVars

-----------------------------------------------------------------------------
(* A file never holds the work of a run that the files written before it   *)
(* lack: the ledger of a snapshot never names an original it has not got.  *)
Consistent(files) == \A f, g \in File : f < g => files[g] \subseteq files[f]

(* Whatever is restored was a state of the worker between two writes of    *)
(* its jobs, although its files were copied one by one; except that of a   *)
(* snapshot copied while a container that outlived its lock was at work.   *)
RestoredConsistent == target.alone => Consistent(target.files)

(* A manifest in S3 is there with the archive it describes: who downloads  *)
(* the two while the upload is under way finds a pair or no manifest.      *)
SentInPairs == \A d \in 1 .. Days :
    <<"manifest", d>> \in sent => <<"archive", d>> \in sent

(* A snapshot that is complete is never removed, neither when its upload   *)
(* fails nor by a later backup; only the backup that makes it removes it,  *)
(* if it cannot remove its temporary directory, and before anything is     *)
(* sent: a snapshot in S3 keeps its copy here.                             *)
CompletePair(d) == archives[d].state \in {"whole", "damaged"} /\ manifests[d] = "whole"
Unsettled(d) == d = day /\ BackupAt("cleanup") /\ \A kind \in {"archive", "manifest"} : <<kind, d>> \notin sent
PairKept(d) == CompletePair(d) /\ ~Unsettled(d) => CompletePair(d)'
LocalCopyKept == [][\A d \in 1 .. Days : PairKept(d)]_workerBackupVars

(* The state is well typed, a restore is consistent unless its snapshot    *)
(* met a stray container, and S3 holds no manifest without its archive.    *)
WorkerBackupInv == WorkerBackupTypeOK /\ RestoredConsistent /\ SentInPairs
=============================================================================
