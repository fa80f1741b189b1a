-------------------------- MODULE MCBackendLiveness --------------------------
(***************************************************************************)
(* What must happen in the end to pages, to jobs over sources and to queued*)
(* mails, for TLC. The three parts share neither state nor processes, so   *)
(* one of them is chosen and runs alone: a behaviour of all of them at once*)
(* is fair exactly when each of its parts is.                              *)
(***************************************************************************)
EXTENDS Integers, Sequences, FiniteSets

CONSTANT None

VARIABLES
    part,   \* the part that runs
    upstream, stored, seen, checkpoint, sync, job, quiet, moves, pageFaults,
    tick, listed, saved, changedAt, asked, marks, complete, history, guard, work,
    errors,
    user, version, told, letter, status, token, lock, mailPc, batch, mailCurrent,
    send, building, attempts, mailAccepted, mailChanges, mailFaults

pageVars == <<upstream, stored, seen, checkpoint, sync, job, quiet, moves, pageFaults>>
sourceVars == <<tick, listed, saved, changedAt, asked, marks, complete, history, guard, work,
                errors>>
mailVars == <<user, version, told, letter, status, token, lock, mailPc, batch, mailCurrent,
              send, building, attempts, mailAccepted, mailChanges, mailFaults>>
liveVars == <<part, pageVars, sourceVars, mailVars>>

Pages == INSTANCE PageSync WITH
    Record <- {"r1", "r2"}, Hash <- {"h1", "h2"}, PageCap <- 3, MaxLength <- 2,
    Jobs <- {"run", "sync"}, PageSize <- {1}, Authoritative <- FALSE, Synced <- TRUE,
    MaxMoves <- 1, MaxFaults <- 1, faults <- pageFaults

Sources == INSTANCE IngestionRuns WITH
    Bill <- {"b1"}, Child <- {"reviews"}, Refreshing <- {}, Decided <- {},
    ScheduleOk <- TRUE, Kinds <- {"run", "sync"}, MaxVersion <- 1,
    LastTick <- 0, MaxRuns <- 2, MaxErrors <- 1

Mails == INSTANCE MailDelivery WITH
    User <- {"u1"}, Version <- {"v1"}, Worker <- {"w1"}, Builder <- {"b1"},
    Subscriber <- {"u1"}, MaxMails <- 2, Limit <- 1, MaxChanges <- 1, MaxFaults <- 2,
    Severed <- TRUE, pc <- mailPc, current <- mailCurrent, accepted <- mailAccepted,
    changes <- mailChanges, faults <- mailFaults

LiveInit ==
    /\ part \in {"pages", "sources", "mails"}
    /\ Pages!Init /\ Sources!RunsInit /\ Mails!Init
    /\ part = "pages" \/ upstream = <<>>

LiveNext ==
    \/ part = "pages" /\ Pages!Next /\ UNCHANGED <<part, sourceVars, mailVars>>
    \/ part = "sources" /\ Sources!RunsNext /\ UNCHANGED <<part, pageVars, mailVars>>
    \/ part = "mails" /\ Mails!Next /\ UNCHANGED <<part, pageVars, sourceVars>>

(* The fairness that each module states, for the part that runs. *)
LiveFairness ==
    /\ WF_pageVars(part = "pages" /\ Pages!JobStep)
    /\ WF_pageVars(part = "pages" /\ Pages!StartSync("sync", 1))
    /\ WF_sourceVars(part = "sources" /\ Sources!SourceStep)
    /\ SF_mailVars(part = "mails" /\ Mails!BuildStep("b1"))
    /\ SF_mailVars(part = "mails" /\ Mails!WorkerStep("w1"))
    /\ SF_mailVars(part = "mails" /\ Mails!ReadPending("w1") /\ send'["w1"])

LiveSpec == LiveInit /\ [][LiveNext]_liveVars /\ LiveFairness

-----------------------------------------------------------------------------
(* Each property is stated and explained in the module of its part. *)

(* Once the list stays as it is, syncs store all of it. *)
CatchesUp == part = "pages" => Pages!CatchesUp
(* Every job over the sources lets the guard go. *)
GuardReleased == Sources!GuardReleased
(* Every queued mail leaves the queue. *)
QueueDrains == Mails!QueueDrains
=============================================================================
