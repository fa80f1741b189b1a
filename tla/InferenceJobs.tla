----------------------------- MODULE InferenceJobs -----------------------------
(***************************************************************************)
(* The GraphRAG factory: jobs in a private sqlite store, sent to a remote  *)
(* inference service in waves.                                             *)
(*                                                                         *)
(*   claim      leases due jobs to the executor                            *)
(*   _prepare   reserves the day's limit and the service's slots, and      *)
(*              marks what is about to be submitted as uncertain           *)
(*   call       submits or polls every job of the wave                     *)
(*   receipts   saves what was answered, if the leases still stand         *)
(*   outcomes   completes, defers or fails jobs in one batch               *)
(*                                                                         *)
(* A submission whose answer was lost pauses the factory until recovery    *)
(* has submitted it again under its idempotency key.  One executor works   *)
(* at a time; every transaction of the store is one step, and it may die   *)
(* between any two of them.                                                *)
(***************************************************************************)
EXTENDS Integers, FiniteSets

CONSTANTS Job,
          Concurrency, \* unfinished requests at the service, and calls of a wave
          DailyJobs,   \* new requests of a day, 0 for no limit
          MaxChanges,  \* bound on source changes and resumptions by the operator
          MaxFaults,   \* bound on failed calls, lost leases and crashes
          None         \* no job, no answer, no pause

Runnable == {"planned", "submitting", "polling", "deferred"}
Received == {"running", "completed", "failed"}
Errors == {"lost", "busy", "refused", "rejected", "broken"}

ASSUME FactoryAssumption ==
    /\ IsFiniteSet(Job)
    /\ Concurrency \in Nat \ {0}
    /\ DailyJobs \in Nat /\ MaxChanges \in Nat /\ MaxFaults \in Nat
    /\ "configuration" \notin Job
    /\ None \notin Job \cup Received \cup Errors \cup {"configuration"}

VARIABLES
    state,     \* jobs.state, "none" before the job exists
    remote,    \* jobs with a remote_id
    uncertain, \* jobs with metadata.completion_uncertain
    lease,     \* per job: none, held by the executor, orphan of a dead one, expired
    reserved,  \* per job: was it first submitted today, earlier, never
    stale,     \* jobs whose sources have changed since they were planned
    pause,     \* artifact control/pause: the uncertain job it names, or another reason
    accepted,  \* jobs whose request the service has accepted
    pc,        \* where the executor is
    wave,      \* the jobs it works on
    answer,    \* what the service answered for each of them
    hand,      \* the job in its hands in a pause or a recovery
    fresh,     \* will the loop look for unknown acceptances although unpaused
    changes,   \* source changes and resumptions so far
    faults     \* failed calls, lost leases and crashes so far

jobVars == <<state, remote, uncertain, lease, reserved>>
execVars == <<pc, wave, answer, hand, fresh>>
vars == <<jobVars, stale, pause, accepted, execVars, changes, faults>>

TypeOK ==
    /\ state \in [Job -> Runnable \cup {"none", "completed", "failed", "obsolete"}]
    /\ remote \subseteq Job /\ uncertain \subseteq Job
    /\ lease \in [Job -> {"none", "held", "orphan", "expired"}]
    /\ reserved \in [Job -> {"never", "today", "earlier"}]
    /\ stale \subseteq Job
    /\ pause \in Job \cup {None, "configuration"}
    /\ accepted \subseteq Job
    /\ pc \in {"idle", "reconcile", "prepare", "pausing", "call", "apply",
               "resubmit", "record", "clear", "remain"}
    /\ wave \subseteq Job
    /\ answer \in [Job -> Received \cup Errors \cup {None}]
    /\ \A j \in Job \ wave : answer[j] = None
    /\ hand \in Job \cup {None}
    /\ pc \in {"pausing", "resubmit", "record"} => hand \in Job
    /\ fresh \in BOOLEAN
    /\ changes \in Nat
    /\ faults \in Nat

Init ==
    /\ state = [j \in Job |-> "none"]
    /\ remote = {} /\ uncertain = {}
    /\ lease = [j \in Job |-> "none"]
    /\ reserved = [j \in Job |-> "never"]
    /\ stale = {}
    /\ pause = None
    /\ accepted = {}
    /\ pc = "idle" /\ wave = {} /\ answer = [j \in Job |-> None] /\ hand = None
    /\ fresh = TRUE
    /\ changes = 0
    /\ faults = 0

Fault == faults < MaxFaults /\ faults' = faults + 1
Change == changes < MaxChanges /\ changes' = changes + 1

(* The executor goes back to its loop. *)
Idle == pc' = "idle" /\ wave' = {} /\ answer' = [j \in Job |-> None] /\ hand' = None

(* Jobs that count against the service's concurrency. *)
SlotHeld(j) == state[j] \in {"submitting", "polling", "deferred"} /\ j \in remote \cup uncertain
Today == {j \in Job : reserved[j] = "today"}

-----------------------------------------------------------------------------
(* Planning, sources and time. *)

Enqueue(j) ==
    /\ state[j] = "none"
    /\ state' = [state EXCEPT ![j] = "planned"]
    /\ UNCHANGED <<remote, uncertain, lease, reserved, stale, pause, accepted, execVars,
                   changes, faults>>

(* A scan finds new revisions of sources; retiring what depended on them   *)
(* is a transaction of its own, and every scan does it.                    *)
Scan(changed) ==
    /\ pc = "idle"
    /\ Change
    /\ stale' = stale \cup changed
    /\ pc' = "reconcile"
    /\ UNCHANGED <<jobVars, pause, accepted, wave, answer, hand, fresh, faults>>

Retired == {j \in stale : state[j] # "none" /\ lease[j] = "none"}

Reconcile ==
    /\ \/ pc = "reconcile"
       \/ pc = "idle" /\ \E j \in Retired : state[j] # "obsolete"
    /\ state' = [j \in Job |-> IF j \in Retired THEN "obsolete" ELSE state[j]]
    /\ pc' = "idle"
    /\ UNCHANGED <<remote, uncertain, lease, reserved, stale, pause, accepted, wave, answer,
                   hand, fresh, changes, faults>>

NewDay ==
    /\ Today # {}
    /\ reserved' = [j \in Job |-> IF j \in Today THEN "earlier" ELSE reserved[j]]
    /\ UNCHANGED <<state, remote, uncertain, lease, stale, pause, accepted, execVars,
                   changes, faults>>

(* A wave that takes longer than its lease: the machine stalls. *)
LoseLease(j) ==
    /\ Fault
    /\ lease[j] = "held" /\ j \in wave
    /\ lease' = [lease EXCEPT ![j] = "expired"]
    /\ UNCHANGED <<state, remote, uncertain, reserved, stale, pause, accepted, execVars, changes>>

(* The lease of a dead executor, or of an abandoned wave, runs out. *)
Expire(j) ==
    /\ \/ lease[j] = "orphan"
       \/ lease[j] = "held" /\ j \notin wave
    /\ lease' = [lease EXCEPT ![j] = "expired"]
    /\ UNCHANGED <<state, remote, uncertain, reserved, stale, pause, accepted, execVars,
                   changes, faults>>

(* The operator's resume command. *)
Resume ==
    /\ pause # None
    /\ Change
    /\ pause' = None
    /\ UNCHANGED <<jobVars, stale, accepted, execVars, faults>>

-----------------------------------------------------------------------------
(* A wave: claim, prepare, call, receipts, outcomes.                       *)

Due(j) == state[j] \in Runnable /\ lease[j] \in {"none", "expired"}

(* Which jobs are due depends on next_poll, and so on time. *)
Claim(jobs) ==
    /\ pc = "idle"
    /\ pause = None
    /\ jobs # {} /\ Cardinality(jobs) <= Concurrency
    /\ \A j \in jobs : Due(j)
    /\ lease' = [j \in Job |-> IF j \in jobs THEN "held" ELSE lease[j]]
    /\ pc' = "prepare"
    /\ wave' = jobs
    /\ UNCHANGED <<state, remote, uncertain, reserved, stale, pause, accepted, answer, hand,
                   fresh, changes, faults>>

Leased(jobs) == \A j \in jobs : lease[j] = "held"
Unresolved == {j \in wave : j \notin remote /\ j \in uncertain}

(* Nothing of a wave is written when one of its leases is lost. *)
Abandon ==
    /\ Idle
    /\ UNCHANGED <<jobVars, stale, pause, accepted, fresh, changes, faults>>

(* A job whose acceptance is unknown is deferred and its wave given back.  *)
DeferUnknown(j) ==
    /\ pc = "prepare" /\ j \in Unresolved
    /\ Leased(wave)
    /\ state' = [state EXCEPT ![j] = "deferred"]
    /\ lease' = [i \in Job |-> IF i \in wave THEN "none" ELSE lease[i]]
    /\ pc' = "pausing" /\ wave' = {} /\ hand' = j
    /\ UNCHANGED <<remote, uncertain, reserved, stale, pause, accepted, answer, fresh,
                   changes, faults>>

PauseUnknown ==
    /\ pc = "pausing"
    /\ pause' = hand
    /\ Idle
    /\ UNCHANGED <<jobVars, stale, accepted, fresh, changes, faults>>

Outdated == wave \cap stale
Polls == {j \in wave : j \in remote /\ j \notin stale}
Candidates == {j \in wave : j \notin remote /\ j \notin stale}

(* Mutants: a wave's reservations do not see each other, or the requests   *)
(* of earlier waves.                                                       *)
FitsOneByOne(jobs) ==
    DailyJobs = 0 \/ Cardinality(Today) + 1 <= DailyJobs \/ jobs = {}

(* What may be submitted beside the requests already at the service. *)
Fits(jobs) ==
    LET running == Cardinality({j \in Job : SlotHeld(j) /\ j \notin Outdated})
        unpaid == {j \in jobs : reserved[j] = "never"}
    IN  /\ jobs = {} \/ running + Cardinality(jobs) <= Concurrency
        /\ DailyJobs = 0 \/ unpaid = {} \/ Cardinality(Today) + Cardinality(unpaid) <= DailyJobs

(* Mutants: the intent to submit is not written before the call, or the    *)
(* job is not marked as being submitted.                                   *)
PrepareUnmarked(jobs) ==
    /\ pc = "prepare" /\ Unresolved = {}
    /\ Fits(jobs) /\ \A j \in Candidates \ jobs : ~Fits(jobs \cup {j})
    /\ pc' = "call" /\ wave' = Polls \cup jobs
    /\ UNCHANGED <<jobVars, stale, pause, accepted, answer, hand, fresh, changes, faults>>

(* The reservations of a wave, one transaction: as many as fit. *)
Prepare(jobs) ==
    /\ pc = "prepare" /\ Unresolved = {}
    /\ Leased(wave \ Polls)
    /\ Fits(jobs) /\ \A j \in Candidates \ jobs : ~Fits(jobs \cup {j})
    /\ state' = [j \in Job |-> IF j \in Outdated THEN "obsolete"
                               ELSE IF j \in jobs THEN "submitting" ELSE state[j]]
    /\ uncertain' = uncertain \cup jobs
    /\ reserved' = [j \in Job |-> IF j \in jobs /\ reserved[j] = "never" THEN "today"
                                  ELSE reserved[j]]
    /\ lease' = [j \in Job |-> IF j \in wave \ (Polls \cup jobs) THEN "none" ELSE lease[j]]
    /\ IF Polls \cup jobs = {}
       THEN Idle
       ELSE pc' = "call" /\ wave' = Polls \cup jobs /\ UNCHANGED <<answer, hand>>
    /\ UNCHANGED <<remote, stale, pause, accepted, fresh, changes, faults>>

PrepareStale ==
    /\ pc = "prepare"
    /\ ~Leased(IF Unresolved = {} THEN wave \ Polls ELSE wave)
    /\ Abandon

Calling(j) == pc = "call" /\ j \in wave /\ answer[j] = None
Answered(j, a) == answer' = [answer EXCEPT ![j] = a]
CallRest == <<jobVars, stale, pause, pc, wave, hand, fresh, changes>>

(* The service takes the request, or has it already, and says so. *)
Submit(j, a) ==
    /\ Calling(j) /\ j \notin remote
    /\ a \in Received
    /\ accepted' = accepted \cup {j}
    /\ Answered(j, a)
    /\ UNCHANGED <<CallRest, faults>>

Poll(j, a) ==
    /\ Calling(j) /\ j \in remote
    /\ a \in Received
    /\ Answered(j, a)
    /\ UNCHANGED <<CallRest, accepted, faults>>

(* A call that fails: its answer is lost or it breaks in the client, with  *)
(* or without the request having been accepted; or the service is busy, or *)
(* refuses the request or the caller.                                      *)
CallRaises(j, a) ==
    /\ Calling(j)
    /\ Fault
    /\ a \in Errors
    /\ \/ accepted' = accepted
       \/ accepted' = accepted \cup {j} /\ a \in {"lost", "broken"}
    /\ Answered(j, a)
    /\ UNCHANGED CallRest

AnsweredBy(answers) == {j \in wave : answer[j] \in answers}
WaveAnswered == pc = "call" /\ \A j \in wave : answer[j] # None

(* The process ends: its leases stay until they run out. *)
Die ==
    /\ lease' = [j \in Job |-> IF lease[j] = "held" THEN "orphan" ELSE lease[j]]
    /\ Idle
    /\ fresh' = TRUE

(* The end of a wave: an error nobody expected ends the process. *)
WaveEnds(leases) ==
    IF AnsweredBy({"broken"}) = {}
    THEN lease' = leases /\ Idle /\ UNCHANGED fresh
    ELSE /\ lease' = [j \in Job |-> IF leases[j] = "held" THEN "orphan" ELSE leases[j]]
         /\ Idle /\ fresh' = TRUE

(* Every answer's identity is saved before any content is looked at;       *)
(* completed jobs stay leased for that.                                    *)
SaveReceipts ==
    /\ WaveAnswered
    /\ Leased(AnsweredBy(Received))
    /\ remote' = remote \cup AnsweredBy(Received)
    /\ uncertain' = uncertain \ AnsweredBy(Received)
    /\ state' = [j \in Job |-> IF j \in AnsweredBy({"running"}) THEN "polling"
                               ELSE IF j \in AnsweredBy({"failed"}) THEN "failed" ELSE state[j]]
    /\ lease' = [j \in Job |-> IF j \in AnsweredBy({"running", "failed"}) THEN "none" ELSE lease[j]]
    /\ pc' = "apply"
    /\ UNCHANGED <<reserved, stale, pause, accepted, wave, answer, hand, fresh, changes, faults>>

ReceiptsStale ==
    /\ WaveAnswered
    /\ ~Leased(AnsweredBy(Received))
    /\ Abandon

Failing == AnsweredBy({"lost", "busy", "refused", "rejected"})
Outcomes == AnsweredBy({"completed"}) \cup Failing
Results == {"completed", "invalid", "mismatch", "superseded"}

Mismatched(result) == {j \in AnsweredBy({"completed"}) : result[j] = "mismatch"}

(* Mutant: a lost poll pauses the factory like a lost submission. *)
PauseAfterPoll(result) == IF AnsweredBy({"lost"}) = {} THEN {pause} ELSE AnsweredBy({"lost"})

(* What the factory is paused for after a wave: the last reason is kept. *)
PauseAfter(result) ==
    IF Mismatched(result) # {} THEN {"configuration"}
    ELSE LET reasons == (AnsweredBy({"lost"}) \ remote) \cup
                        {"configuration" : j \in AnsweredBy({"rejected"})}
         IN  IF reasons = {} THEN {pause} ELSE reasons

(* Mutant: a failed call tells nothing of its acceptance. *)
UnknownForgotten == uncertain \ Failing

(* Which acceptances are unknown after a wave: a lost answer leaves one.   *)
UnknownAfter == (uncertain \ Failing) \cup AnsweredBy({"lost"})

(* The outcomes of a wave, one batch: failed calls are deferred or failed, *)
(* contents are validated, their results saved and projected.              *)
Apply(result) ==
    /\ pc = "apply"
    /\ Leased(Outcomes)
    /\ state' = [j \in Job |->
                    IF j \in AnsweredBy({"lost", "busy"}) THEN "deferred"
                    ELSE IF j \in AnsweredBy({"refused", "rejected"}) THEN "failed"
                    ELSE IF j \notin AnsweredBy({"completed"}) THEN state[j]
                    ELSE IF result[j] = "completed" THEN "completed"
                    ELSE IF result[j] = "superseded" THEN "obsolete" ELSE "failed"]
    /\ uncertain' = UnknownAfter
    /\ pause' \in PauseAfter(result)
    /\ WaveEnds([j \in Job |-> IF j \in Outcomes THEN "none" ELSE lease[j]])
    /\ UNCHANGED <<remote, reserved, stale, accepted, changes, faults>>

OutcomesStale ==
    /\ pc = "apply"
    /\ ~Leased(Outcomes)
    /\ WaveEnds(lease)
    /\ UNCHANGED <<state, remote, uncertain, reserved, stale, pause, accepted, changes, faults>>

Crash ==
    /\ Fault
    /\ Die
    /\ UNCHANGED <<state, remote, uncertain, reserved, stale, pause, accepted, changes>>

-----------------------------------------------------------------------------
(* Recovery of submissions whose acceptance is unknown.                    *)

(* Mutant: polls whose answer was lost are taken for lost submissions.     *)
UncertainPolls == {j \in Job : /\ state[j] = "deferred" /\ j \in uncertain
                               /\ lease[j] \in {"none", "expired"}}

Uncertain == {j \in Job : /\ state[j] = "deferred" /\ j \in uncertain \ remote
                          /\ lease[j] \in {"none", "expired"}}

(* Mutant: unknown acceptances are looked for at the start only. *)
RecoveryDueOnce == pc = "idle" /\ fresh

(* The loop looks for them when it starts and while the factory is paused. *)
RecoveryDue == pc = "idle" /\ (pause # None \/ fresh)
RecoverRest == <<jobVars, stale, accepted, answer, changes>>

(* The job the pause names is resubmitted first; unpaused, any of them,    *)
(* and the pause is set before.  The list is read once.                    *)
Recover(j) ==
    /\ RecoveryDue
    /\ j \in Uncertain /\ pause \in {None, j}
    /\ pause' = j
    /\ pc' = "resubmit" /\ hand' = j /\ wave' = Uncertain \ {j}
    /\ UNCHANGED <<RecoverRest, fresh, faults>>

(* The job the pause names was recovered before the process died. *)
FinishRecovery ==
    /\ RecoveryDue
    /\ pause \in Job \cap remote /\ state[pause] = "polling"
    /\ pc' = "clear" /\ hand' = pause /\ wave' = Uncertain
    /\ UNCHANGED <<RecoverRest, pause, fresh, faults>>

(* Nothing to recover, or another reason for the pause. *)
NothingToRecover ==
    /\ RecoveryDue /\ fresh
    /\ IF pause = None THEN Uncertain = {}
       ELSE pause \notin Uncertain /\ ~(pause \in remote /\ state[pause] = "polling")
    /\ fresh' = FALSE
    /\ UNCHANGED <<RecoverRest, pause, pc, wave, hand, faults>>

(* The service is not ready, or not with this model. *)
NotReady ==
    /\ RecoveryDue
    /\ Uncertain # {} /\ (pause = None \/ pause \in Uncertain)
    /\ Fault
    /\ fresh' = FALSE
    /\ UNCHANGED <<RecoverRest, pause, pc, wave, hand>>

(* The original request under its original key: the service knows it. *)
Resubmit ==
    /\ pc = "resubmit"
    /\ accepted' = accepted \cup {hand}
    /\ pc' = "record"
    /\ UNCHANGED <<jobVars, stale, pause, wave, answer, hand, fresh, changes, faults>>

ResubmitRaises ==
    /\ pc = "resubmit"
    /\ Fault
    /\ accepted' \in {accepted, accepted \cup {hand}}
    /\ Idle
    /\ fresh' = FALSE
    /\ UNCHANGED <<jobVars, stale, pause, changes>>

RecordAcceptance ==
    /\ pc = "record"
    /\ state' = [state EXCEPT ![hand] = "polling"]
    /\ remote' = remote \cup {hand}
    /\ uncertain' = uncertain \ {hand}
    /\ pc' = "clear"
    /\ UNCHANGED <<lease, reserved, stale, pause, accepted, wave, answer, hand, fresh,
                   changes, faults>>

ClearPause ==
    /\ pc = "clear"
    /\ pause' = None
    /\ pc' = "remain"
    /\ UNCHANGED <<jobVars, stale, accepted, wave, answer, hand, fresh, changes, faults>>

(* The next unknown acceptance takes the place of the one recovered. *)
PauseRemaining ==
    /\ pc = "remain"
    /\ pause' \in IF wave = {} THEN {pause} ELSE wave
    /\ Idle
    /\ fresh' = TRUE
    /\ UNCHANGED <<jobVars, stale, accepted, changes, faults>>

-----------------------------------------------------------------------------
Call(j) == \E a \in Received : Submit(j, a) \/ Poll(j, a)

ExecutorStep ==
    \/ Reconcile
    \/ \E j \in Job : DeferUnknown(j)
    \/ PauseUnknown
    \/ \E jobs \in SUBSET Candidates : Prepare(jobs)
    \/ PrepareStale
    \/ \E j \in Job : Call(j)
    \/ SaveReceipts
    \/ ReceiptsStale
    \/ \E result \in [AnsweredBy({"completed"}) -> Results] : Apply(result)
    \/ OutcomesStale
    \/ \E j \in Job : Recover(j)
    \/ FinishRecovery
    \/ NothingToRecover
    \/ Resubmit
    \/ RecordAcceptance
    \/ ClearPause
    \/ PauseRemaining

Interruption ==
    \/ \E j \in Job : LoseLease(j)
    \/ \E j \in Job, a \in Errors : CallRaises(j, a)
    \/ NotReady
    \/ ResubmitRaises
    \/ Crash

Next ==
    \/ \E j \in Job : Enqueue(j) \/ Expire(j)
    \/ \E changed \in SUBSET Job : Scan(changed)
    \/ NewDay
    \/ Resume
    \/ \E jobs \in SUBSET Job : Claim(jobs)
    \/ ExecutorStep
    \/ Interruption

Spec == Init /\ [][Next]_vars

(* The service is started again when it dies, its loop goes on, leases run *)
(* out, and a due job is claimed in the end: an unresolved job holds one   *)
(* of the slots, so that the others do not fill every wave.                *)
Fairness ==
    /\ WF_vars(ExecutorStep)
    /\ \A j \in Job : /\ WF_vars(Expire(j))
                       /\ SF_vars(\E jobs \in SUBSET Job : j \in jobs /\ Claim(jobs))

FairSpec == Spec /\ Fairness

-----------------------------------------------------------------------------
(* The service is asked again for a request it has accepted only by the    *)
(* recovery, under its key: a wave submits nothing that was accepted.      *)
NoBlindResubmit == \A j \in Job : Calling(j) /\ j \notin remote => j \notin accepted

(* A request the service accepted is known by its remote id, or marked as  *)
(* uncertain, in every state the store can be found in after a crash.      *)
AcceptanceRemembered == accepted \subseteq remote \cup uncertain

(* No more requests are at the service, or may be, than it takes at once.  *)
SlotsBounded == Cardinality({j \in Job : SlotHeld(j)}) <= Concurrency

(* No more new requests on one day than allowed, whatever is retried.      *)
DailyLimit == DailyJobs = 0 \/ Cardinality(Today) <= DailyJobs

(* Both limits of execute_wave hold at once, whatever is lost or dies. *)
LimitsHold == SlotsBounded /\ DailyLimit

(* No step asks for a transition the store refuses.                        *)
Transitions ==
    [none |-> {"planned"},
     planned |-> {"submitting", "deferred", "failed", "obsolete"},
     deferred |-> {"planned", "submitting", "polling", "completed", "failed", "obsolete"},
     submitting |-> {"polling", "completed", "deferred", "failed", "obsolete"},
     polling |-> {"completed", "deferred", "failed", "obsolete"},
     completed |-> {"obsolete"}, failed |-> {"obsolete"}, obsolete |-> {}]

LegalTransitions ==
    [][\A j \in Job : state'[j] # state[j] => state'[j] \in Transitions[state[j]]]_vars

(* A pause for an unknown acceptance names a job that recovery can resume, *)
(* or has just resumed, or one whose sources changed in the meantime.      *)
PauseNamesWork ==
    pause \in Job => \/ state[pause] = "deferred" /\ pause \in uncertain \ remote
                     \/ state[pause] = "polling" /\ pause \in remote
                     \/ state[pause] = "obsolete"

(* The inductive invariant behind them.  A job has a remote id when it is  *)
(* polled, and neither that nor a mark before it is first submitted; what  *)
(* is called is marked, what a call refused was not accepted, and nothing  *)
(* pauses the factory within a wave; a recovery holds unknown acceptances. *)
MarksByState ==
    \A j \in Job : /\ state[j] = "polling" => j \in remote
                   /\ state[j] \in {"none", "planned"} => j \notin remote \cup uncertain

AtService(j) == state[j] \in {"submitting", "polling", "deferred"} /\ j \in remote \cup uncertain

WaveByStep ==
    /\ pc \in {"idle", "reconcile"} => wave = {}
    /\ pc \notin {"call", "apply"} => \A j \in Job : answer[j] = None
    /\ pc = "prepare" => \A j \in wave : state[j] \in Runnable
    /\ pc = "call" => \A j \in wave : AtService(j)
    /\ pc = "apply" => \A j \in wave : answer[j] \in Errors \cup {"completed"} => AtService(j)
    /\ pc \in {"prepare", "pausing", "call", "apply"} => pause = None

RefusedUnaccepted ==
    pc \in {"call", "apply"} =>
        \A j \in wave \ remote :
            j \in accepted => answer[j] \notin {None, "busy", "refused", "rejected"}

Unknown(j) == state[j] = "deferred" /\ j \in uncertain \ remote

RecoveryByStep ==
    /\ pc \in {"pausing", "resubmit", "record"} => Unknown(hand)
    /\ pc \in {"resubmit", "record"} => pause \in {None, hand} /\ hand \notin wave
    /\ pc \in {"resubmit", "record", "clear", "remain"} => \A j \in wave : Unknown(j)

IInv ==
    /\ TypeOK
    /\ MarksByState
    /\ WaveByStep
    /\ RefusedUnaccepted
    /\ RecoveryByStep
    /\ AcceptanceRemembered
    /\ PauseNamesWork

(* Is it known whether the service has the request, or no longer of use? *)
Settled(j) == j \notin uncertain \/ j \in remote \/ state[j] = "obsolete"

(* An unknown acceptance is resolved in the end, unless the factory waits  *)
(* for its operator.                                                       *)
UnknownResolved ==
    \A j \in Job : ~Settled(j) ~> \/ Settled(j) \/ pause = "configuration"
                                  \/ pause \in Job /\ state[pause] = "obsolete"

-----------------------------------------------------------------------------
(* A statement of the tests the code does not keep.                        *)

(* test_graphrag_acceptance_recovery.py:84 "must not lose earlier unknown  *)
(* acceptances behind one pause key": while the service is reachable and   *)
(* there is no other reason to pause, each of them is resolved.            *)
NoAcceptanceLost ==
    \A j \in Job : ~Settled(j) ~> Settled(j) \/ pause = "configuration"
=============================================================================
