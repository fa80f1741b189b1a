-------------------------- MODULE MCWorkerLiveness --------------------------
(***************************************************************************)
(* What must happen in the end to archived versions and to submissions of  *)
(* the GraphRAG factory, for TLC. The two parts share neither state nor    *)
(* processes, so one of them is chosen and runs alone: a behaviour of both *)
(* at once is fair exactly when each of its parts is.                      *)
(***************************************************************************)
EXTENDS Integers, Sequences, FiniteSets

CONSTANT None

VARIABLES
    part,   \* the part that runs
    pipeCurrent, versions, outbox, sends, queue, dead, relay, consumer, writer,
    ledger, raw, derived, pipeFaults,
    state, remote, uncertain, lease, reserved, stale, pause, jobAccepted, jobPc,
    wave, answer, hand, fresh, jobChanges, jobFaults

pipeVars == <<pipeCurrent, versions, outbox, sends, queue, dead, relay, consumer, writer,
              ledger, raw, derived, pipeFaults>>
factoryVars == <<state, remote, uncertain, lease, reserved, stale, pause, jobAccepted, jobPc,
                 wave, answer, hand, fresh, jobChanges, jobFaults>>
liveVars == <<part, pipeVars, factoryVars>>

Pipe == INSTANCE VersionPipeline WITH
    Record <- {"r1"}, Hash <- {"h1", "h2"}, Relay <- {"p1"}, Consumer <- {"c1"},
    RelayLimit <- 2, MaxAttempts <- 2, BatchSize <- 2, MaxReceives <- 2, MaxFaults <- 1,
    current <- pipeCurrent, faults <- pipeFaults

Factory == INSTANCE InferenceJobs WITH
    Job <- {"j1", "j2"}, Concurrency <- 2, DailyJobs <- 0, MaxChanges <- 1, MaxFaults <- 1,
    accepted <- jobAccepted, pc <- jobPc, changes <- jobChanges, faults <- jobFaults

LiveInit == part \in {"pipe", "factory"} /\ Pipe!Init /\ Factory!Init

(* Payloads are interchangeable and jobs are, but symmetry is not for      *)
(* temporal properties: the first payload and the first job to change are  *)
(* called by their names instead.  No fairness is about these steps.       *)
FirstPayload == versions = {} => versions' \subseteq {<<"r1", "h1">>}
FirstChange == "j2" \in stale' => "j1" \in stale'

LiveNext ==
    \/ part = "pipe" /\ Pipe!Next /\ FirstPayload /\ UNCHANGED <<part, factoryVars>>
    \/ part = "factory" /\ Factory!Next /\ FirstChange /\ UNCHANGED <<part, pipeVars>>

(* The fairness that each module states, for the part that runs.  A        *)
(* pipeline that holds nothing has no step to be fair to.                  *)
LiveFairness ==
    /\ Pipe!Fairness
    /\ WF_factoryVars(part = "factory" /\ Factory!ExecutorStep)
    /\ \A j \in {"j1", "j2"} :
         /\ WF_factoryVars(part = "factory" /\ Factory!Expire(j))
         /\ SF_factoryVars(part = "factory" /\
                \E jobs \in SUBSET {"j1", "j2"} : j \in jobs /\ Factory!Claim(jobs))

LiveSpec == LiveInit /\ [][LiveNext]_liveVars /\ LiveFairness

-----------------------------------------------------------------------------
(* Each property is stated and explained in the module of its part. *)

(* Every observed version is archived or ends where the operator looks;    *)
(* and without a fault none is sent twice or dead-lettered unprocessed.    *)
EventuallyArchivedOrParked ==
    /\ Pipe!EventuallyArchivedOrParked
    /\ [](Pipe!DeadOnlyAfterFault /\ Pipe!DuplicatesNeedFaults)
(* The pipeline implements VersionDelivery. *)
Delivers == Pipe!Delivers
(* A submission whose acceptance is unknown is resolved, or waits for the  *)
(* operator.                                                               *)
UnknownResolved == Factory!UnknownResolved
=============================================================================
