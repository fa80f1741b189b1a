------------------------------- MODULE MCContent -------------------------------
(* RawDocuments, SummaryDrafts, Publication, KnowledgePilot and             *)
(* WorkerBackup for TLC.  They share no state: one of them is chosen and    *)
(* runs, the others stay at one initial state.  Processes, containers,      *)
(* documents, batches and job ids are interchangeable.                      *)
EXTENDS RawDocuments, SummaryDrafts, Publication, KnowledgePilot, WorkerBackup, TLC

VARIABLE part

documentVars == <<rawVars, draftVars, publicationVars, pilotVars>>
contentVars == <<part, documentVars, workerBackupVars>>

ContentInit ==
    /\ part \in {"originals", "drafts", "publication", "pilot", "snapshots"}
    /\ RawInit /\ DraftInit /\ PublicationInit /\ PilotInit /\ WorkerBackupInit
    /\ part = "originals" \/ page = CHOOSE f \in [Article -> Edition] : TRUE
    /\ part = "pilot" \/ shows = CHOOSE f \in [PilotDoc -> PageVersion] : TRUE

ContentNext ==
    /\ part' = part
    /\ \/ /\ part = "originals" /\ RawNext
          /\ UNCHANGED <<draftVars, publicationVars, pilotVars, workerBackupVars>>
       \/ /\ part = "drafts" /\ DraftNext
          /\ UNCHANGED <<rawVars, publicationVars, pilotVars, workerBackupVars>>
       \/ /\ part = "publication" /\ PublicationNext
          /\ UNCHANGED <<rawVars, draftVars, pilotVars, workerBackupVars>>
       \/ /\ part = "pilot" /\ PilotNext
          /\ UNCHANGED <<rawVars, draftVars, publicationVars, workerBackupVars>>
       \/ part = "snapshots" /\ WorkerBackupNext /\ UNCHANGED documentVars

ContentSpec == ContentInit /\ [][ContentNext]_contentVars

Symmetry == Permutations(Collector) \cup Permutations(Preparer) \cup Permutations(Document)
            \cup Permutations(Batch) \cup Permutations(Pilot) \cup Permutations(PilotJob)
            \cup Permutations(Job)
=============================================================================
