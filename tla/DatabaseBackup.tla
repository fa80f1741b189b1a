------------------------------ MODULE DatabaseBackup ------------------------------
(***************************************************************************)
(* Dumps of the database and the test that restores them.                  *)
(*                                                                         *)
(*   backup         --> mysqldump in one transaction, the dump file, its    *)
(*                      inspection, its manifest, the upload of both        *)
(*   verify_restore --> checks the pair, loads it into a container of its   *)
(*                      own, counts every table, leaves a proof beside it   *)
(*                                                                         *)
(* The timer and operators run it without a lock; the name of a dump is    *)
(* the second in which its backup began, and files are created exclusively.*)
(***************************************************************************)
EXTENDS Integers, FiniteSets

CONSTANTS Dumper,       \* processes that back up
          Second,       \* seconds in which backups begin
          MaxRows,      \* bound on rows the database has
          DumpFaults    \* bound on kills and damaged dumps

ASSUME DatabaseBackupAssumption ==
    /\ MaxRows \in Nat /\ DumpFaults \in Nat

VARIABLES
    rows,           \* rows in the database
    dumper,         \* per process: its step, stamp and the rows it read
    dumps,          \* per stamp: the dump file, with its writer
    dumpManifests,  \* per stamp: its manifest, with its writer
    dumpsSent,      \* stamps whose dump and manifest are in S3
    verifying,      \* the restore under way, and the rows in its container
    proofs,         \* per stamp: rows restored when *.restore.json was written; -1: none
    dumpFaults

fileState == <<dumps, dumpManifests>>
dumpVars == <<rows, dumper, fileState, dumpsSent, verifying, proofs, dumpFaults>>

NoFile == [state |-> "absent", rows |-> 0]
NoRestore == [step |-> "off"]
DumpFile == {NoFile} \cup [state : {"partial", "whole", "damaged"}, rows : 0 .. MaxRows, by : Dumper]
NotDumping == [step |-> "off"]

DatabaseBackupTypeOK ==
    /\ rows \in 0 .. MaxRows
    /\ dumper \in [Dumper -> {NotDumping} \cup
         [step : {"create", "fill", "manifest", "upload"}, stamp : Second, rows : 0 .. MaxRows]]
    /\ dumps \in [Second -> DumpFile] /\ dumpManifests \in [Second -> DumpFile]
    /\ dumpsSent \subseteq Second
    /\ verifying \in {NoRestore} \cup
         [step : {"checked", "loaded"}, stamp : Second, rows : 0 .. MaxRows]
    /\ proofs \in [Second -> -1 .. MaxRows]
    /\ dumpFaults \in 0 .. DumpFaults

DatabaseBackupInit ==
    /\ rows = 0
    /\ dumper = [d \in Dumper |-> NotDumping]
    /\ dumps = [s \in Second |-> NoFile] /\ dumpManifests = [s \in Second |-> NoFile]
    /\ dumpsSent = {}
    /\ verifying = NoRestore
    /\ proofs = [s \in Second |-> -1]
    /\ dumpFaults = 0

DumpFault == dumpFaults < DumpFaults /\ dumpFaults' = dumpFaults + 1
DumperAt(d, step) == dumper[d].step = step
DumperGoes(d, step) == dumper' = [dumper EXCEPT
    ![d] = [step |-> step, stamp |-> @.stamp, rows |-> @.rows]]
DumperOff(d) == dumper' = [dumper EXCEPT ![d] = NotDumping]
WrittenBy(d, state) == [state |-> state, rows |-> dumper[d].rows, by |-> d]

RowAdded ==
    /\ rows < MaxRows
    /\ rows' = rows + 1
    /\ UNCHANGED <<dumper, fileState, dumpsSent, verifying, proofs, dumpFaults>>

(* mysqldump --single-transaction, into a file without a name *)
Dump(d) ==
    /\ DumperAt(d, "off")
    /\ \E s \in Second : dumper' = [dumper EXCEPT
            ![d] = [step |-> "create", stamp |-> s, rows |-> rows]]
    /\ UNCHANGED <<rows, fileState, dumpsSent, verifying, proofs, dumpFaults>>

(* Mutant: an existing file is overwritten. *)
MayCreateAnyway(file) == TRUE
(* O_EXCL *)
MayCreate(file) == file = NoFile

CreateDump(d) ==
    /\ DumperAt(d, "create")
    /\ MayCreate(dumps[dumper[d].stamp])
    /\ dumps' = [dumps EXCEPT ![dumper[d].stamp] = WrittenBy(d, "partial")]
    /\ DumperGoes(d, "fill")
    /\ UNCHANGED <<rows, dumpManifests, dumpsSent, verifying, proofs, dumpFaults>>

(* The inspection reads the file that was written. *)
FillDump(d) ==
    /\ DumperAt(d, "fill")
    /\ dumps' = [dumps EXCEPT ![dumper[d].stamp] = WrittenBy(d, "whole")]
    /\ DumperGoes(d, "manifest")
    /\ UNCHANGED <<rows, dumpManifests, dumpsSent, verifying, proofs, dumpFaults>>

WriteDumpManifest(d) ==
    /\ DumperAt(d, "manifest")
    /\ MayCreate(dumpManifests[dumper[d].stamp])
    /\ dumpManifests' = [dumpManifests EXCEPT ![dumper[d].stamp] = WrittenBy(d, "whole")]
    /\ DumperGoes(d, "upload")
    /\ UNCHANGED <<rows, dumps, dumpsSent, verifying, proofs, dumpFaults>>

UploadDump(d) ==
    /\ DumperAt(d, "upload")
    /\ dumpsSent' = dumpsSent \cup {dumper[d].stamp}
    /\ DumperOff(d)
    /\ UNCHANGED <<rows, fileState, verifying, proofs, dumpFaults>>

(* Mutant: the files of the stamp are removed, whoever wrote them. *)
OwnedAny(d, file) == dumper[d].step # "upload"
(* owned_dump, owned_manifest *)
OwnedFile(d, file) == dumper[d].step \in {"fill", "manifest"} /\ file # NoFile /\ file.by = d

(* Any step fails, creating a file that exists included. *)
DumpFails(d) ==
    /\ ~DumperAt(d, "off")
    /\ LET s == dumper[d].stamp IN
         /\ dumps' = [dumps EXCEPT ![s] = IF OwnedFile(d, @) THEN NoFile ELSE @]
         /\ dumpManifests' = [dumpManifests EXCEPT ![s] = IF OwnedFile(d, @) THEN NoFile ELSE @]
    /\ DumperOff(d)
    /\ UNCHANGED <<rows, dumpsSent, verifying, proofs, dumpFaults>>

(* A kill leaves what is written, a manifest that was cut short included. *)
DumpKilled(d) ==
    /\ ~DumperAt(d, "off")
    /\ DumpFault
    /\ LET s == dumper[d].stamp IN
         \/ UNCHANGED dumpManifests
         \/ /\ DumperAt(d, "manifest") /\ MayCreate(dumpManifests[s])
            /\ dumpManifests' = [dumpManifests EXCEPT ![s] = WrittenBy(d, "partial")]
    /\ DumperOff(d)
    /\ UNCHANGED <<rows, dumps, dumpsSent, verifying, proofs>>

DumpDamaged(s) ==
    /\ dumps[s].state = "whole"
    /\ DumpFault
    /\ \E left \in 0 .. dumps[s].rows :
         dumps' = [dumps EXCEPT ![s] = [state |-> "damaged", rows |-> left, by |-> @.by]]
    /\ UNCHANGED <<rows, dumper, dumpManifests, dumpsSent, verifying, proofs>>

(* Checksum and row counts of the file agree with the manifest. *)
Matches(s) ==
    /\ dumps[s].state = "whole" /\ dumpManifests[s].state = "whole"
    /\ dumps[s].by = dumpManifests[s].by /\ dumps[s].rows = dumpManifests[s].rows

VerifyDump(s) ==
    /\ verifying = NoRestore
    /\ Matches(s)
    /\ verifying' = [step |-> "checked", stamp |-> s, rows |-> 0]
    /\ UNCHANGED <<rows, dumper, fileState, dumpsSent, proofs, dumpFaults>>

(* The container is up; the file is read once more, as it is now. *)
LoadDump ==
    /\ verifying.step = "checked"
    /\ verifying' = [step |-> "loaded", stamp |-> verifying.stamp,
                      rows |-> dumps[verifying.stamp].rows]
    /\ UNCHANGED <<rows, dumper, fileState, dumpsSent, proofs, dumpFaults>>

(* Every table has as many rows as the manifest gives. *)
CountsAgree == verifying.rows = dumpManifests[verifying.stamp].rows

(* The proof is created exclusively. *)
ProveRestore ==
    /\ verifying.step = "loaded"
    /\ CountsAgree
    /\ proofs[verifying.stamp] = -1
    /\ proofs' = [proofs EXCEPT ![verifying.stamp] = verifying.rows]
    /\ verifying' = NoRestore
    /\ UNCHANGED <<rows, dumper, fileState, dumpsSent, dumpFaults>>

(* It fails, or is killed; its container is no part of anything else. *)
RestoreFails ==
    /\ verifying # NoRestore
    /\ verifying' = NoRestore
    /\ UNCHANGED <<rows, dumper, fileState, dumpsSent, proofs, dumpFaults>>

DatabaseBackupNext ==
    \/ RowAdded
    \/ \E d \in Dumper : \/ Dump(d) \/ CreateDump(d) \/ FillDump(d) \/ WriteDumpManifest(d)
                         \/ UploadDump(d) \/ DumpFails(d) \/ DumpKilled(d)
    \/ \E s \in Second : DumpDamaged(s) \/ VerifyDump(s)
    \/ LoadDump \/ ProveRestore \/ RestoreFails

DatabaseBackupSpec == DatabaseBackupInit /\ [][DatabaseBackupNext]_dumpVars

-----------------------------------------------------------------------------
(* A dump and the manifest beside it come from one backup, and what was    *)
(* sent is such a pair, when two backups begin in the same second too.     *)
PairsMatch == \A s \in Second :
    /\ dumpManifests[s].state = "whole" =>
         /\ dumps[s] # NoFile /\ dumps[s].by = dumpManifests[s].by
         /\ dumps[s].state = "whole" => dumps[s].rows = dumpManifests[s].rows
    /\ s \in dumpsSent => dumpManifests[s].state = "whole"

(* A backup that fails removes its own files and nobody else's: a pair     *)
(* that is complete stays.                                                 *)
Complete(s) == dumpManifests[s].state = "whole"
DumpsKept == [][\A s \in Second : Complete(s) =>
    dumpManifests'[s] = dumpManifests[s] /\ dumps'[s] # NoFile]_dumpVars

(* A proof stands for a restore that brought back every row the manifest   *)
(* gives, although the dump is read again after it was checked.            *)
ProofsHold == \A s \in Second :
    proofs[s] # -1 => Complete(s) /\ proofs[s] = dumpManifests[s].rows

(* The state is well typed, dumps and manifests match and a proof of a     *)
(* restore is worth what it says.                                          *)
DatabaseBackupInv == DatabaseBackupTypeOK /\ PairsMatch /\ ProofsHold
=============================================================================
