------------------------------ MODULE MCIngestion ------------------------------
(* PageSync, IngestionRuns and DatabaseBackup for TLC: how the database is  *)
(* filled and how it is dumped.  They share no state: one of them is chosen *)
(* and runs.  Any naming of payload hashes and of backups is as good as     *)
(* another.                                                                 *)
EXTENDS PageSync, IngestionRuns, DatabaseBackup, TLC

VARIABLE part

IngestionInit ==
    /\ part \in {"pages", "sources", "dumps"}
    /\ Init /\ RunsInit /\ DatabaseBackupInit
    /\ part = "pages" \/ upstream = <<>>

IngestionNext ==
    \/ part = "pages" /\ Next /\ UNCHANGED <<part, runsVars, dumpVars>>
    \/ part = "sources" /\ RunsNext /\ UNCHANGED <<part, vars, dumpVars>>
    \/ part = "dumps" /\ DatabaseBackupNext /\ UNCHANGED <<part, vars, runsVars>>

IngestionSpec == IngestionInit /\ [][IngestionNext]_<<part, vars, runsVars, dumpVars>>

Symmetry == Permutations(Record) \cup Permutations(Hash) \cup Permutations(Dumper)
=============================================================================
