------------------------------- MODULE Questions -------------------------------
(***************************************************************************)
(* Questions asked of the private graph.  A thread of the operator API     *)
(* pins a question to the sources and reports of one revision and plans    *)
(* its work: for a local question one request over the evidence found, for *)
(* a global one a request over every report and every source unit.  When   *)
(* all answers of a round are in, the worker drops the claims that are     *)
(* not fit to be an answer, and divides the others among the requests of   *)
(* the next round, until one request can hold them all.  A claim is the    *)
(* unit it is about, the job that wrote it, and its manner.                *)
(*                                                                         *)
(* Jobs and the question are written in separate transactions, by threads  *)
(* that may be asked the same question at the same time, may find the      *)
(* store busy, or die.  A job is known by its question, round and place,   *)
(* and planning it again must find it as it is.                            *)
(***************************************************************************)
EXTENDS Integers, FiniteSets, Sequences, SequencesExt

CONSTANTS Asker,        \* threads of the operator API
          Unit,         \* units of the sources
          Sensitive,    \* units with contact data
          Flagged,      \* units which reports misquote
          Reported,     \* the sets of units that may have reports at first
          Unfit, Bulky, Huge, \* units about which a claim may be written that is not
                        \* fit, fits no request with its proof, or fits none at all
          Naming,       \* sets of document kinds that a question may name, as their units
          Local,        \* whether questions may be local, and global
          Global,
          WriteSize,    \* claims that fit a request with their full proofs
          PickSize,     \* claims that fit a request to select among them
          MaxRounds,    \* rounds of reduction, 8 in the code
          LastRevision, \* bound on revisions of the sources
          MaxAttempts,  \* bound on attempts of one job
          MaxTroubles,  \* bound on failed jobs, busy stores and deaths
          NoQuestion    \* what is stored before a question is asked

ASSUME QuestionsAssumption ==
    /\ IsFiniteSet(Unit) /\ Sensitive \subseteq Unit /\ Flagged \subseteq Unit
    /\ Reported \subseteq SUBSET Unit /\ Reported # {}
    /\ Unfit \subseteq Unit /\ Bulky \subseteq Unit /\ Huge \subseteq Unit
    /\ Naming \subseteq SUBSET SUBSET Unit /\ Naming # {}
    /\ Local \in BOOLEAN /\ Global \in BOOLEAN /\ (Local \/ Global)
    /\ WriteSize \in Nat \ {0} /\ PickSize \in Nat \ {0}
    /\ MaxRounds \in Nat /\ LastRevision \in Nat \ {0}
    /\ MaxAttempts \in Nat \ {0} /\ MaxTroubles \in Nat

VARIABLES
    mode,     \* local or global
    found,    \* units that retrieval ranks for a local question
    wanted,   \* kinds of documents that a global question names
    reports,  \* community reports of the first revision
    revision, \* of the sources
    asker,    \* what each thread does: its place and the revision it pinned
    asked,    \* per revision the question artifact: state, round and jobs
    tasks,    \* the jobs, by revision, round, kind, manner and place
    answers,  \* per revision the claims of the current answer artifact, if there is one
    worker,   \* loop, reconcile, or raised
    pending,  \* planned jobs of a question that is not stored yet
    troubles

questionVars == <<mode, found, wanted, reports, revision, asker, asked, tasks, answers,
                  worker, pending, troubles>>

(* A leaf report quotes one unit, their parent those of some of its leaves. *)
LeafOn(u) == [level |-> 0, children |-> {}, claims |-> {u}]
Over(U, quoted) == [level |-> 1, children |-> {LeafOn(u) : u \in U}, claims |-> quoted]

Revisions == 1 .. LastRevision

QuestionsInit ==
    /\ mode \in (IF Local THEN {"local"} ELSE {}) \cup (IF Global THEN {"global"} ELSE {})
    /\ found \in IF mode = "local" THEN SUBSET Unit ELSE {{}}
    /\ wanted \in IF mode = "local" THEN {{}} ELSE Naming
    /\ \E leaves \in Reported : \E quoted \in SUBSET leaves :
        reports = IF mode = "local" THEN {}
                  ELSE {LeafOn(u) : u \in leaves}
                       \cup (IF Cardinality(leaves) < 2 THEN {} ELSE {Over(leaves, quoted)})
    /\ revision = 1
    /\ asker = [a \in Asker |-> [at |-> "idle", pinned |-> 1]]
    /\ asked = [r \in Revisions |-> NoQuestion]
    /\ tasks = [k \in {} |-> {}]
    /\ answers = [r \in Revisions |-> {}]
    /\ worker = "loop" /\ pending = {} /\ troubles = 0

Trouble == troubles < MaxTroubles /\ troubles' = troubles + 1

-----------------------------------------------------------------------------
(* What a question is asked over. *)

(* Claims a report may seed an answer with. *)
SafeClaims(r) == r.claims \ (Sensitive \cup Flagged)

(* The frontier of the hierarchy: a parent with safe claims stands for its *)
(* children, one without stands for nothing.                               *)
Frontier(R) ==
    LET parents == {r \in R : r.level > 0 /\ SafeClaims(r) # {}} IN
    {r \in R : /\ \A p \in parents : r \notin p.children
               /\ r.level = 0 \/ r \in parents}

(* A set cut into pieces of a size, in an order that is always the same. *)
Pieces(S, size) ==
    LET s == SetToSeq(S) IN
    [i \in 1 .. (Cardinality(S) + size - 1) \div size |->
        {s[n] : n \in {n \in 1 .. Cardinality(S) : (i - 1) * size < n /\ n <= i * size}}]

(* Evidence of the requests in the first round, by their place: the part of *)
(* a report, or a unit.                                                    *)
ReportParts(R) ==
    UNION {{<<r, i>> : i \in DOMAIN Pieces(SafeClaims(r), WriteSize)} : r \in Frontier(R)}
Evidence(r) ==
    LET overReports == ReportParts(IF r = 1 THEN reports ELSE {}) IN
    IF mode = "local"
    THEN [p \in IF found \ Sensitive = {} THEN {} ELSE {<<"found">>} |-> found \ Sensitive]
    ELSE [p \in overReports \cup {<<u>> : u \in Unit \ Sensitive} |->
             IF p \in overReports THEN Pieces(SafeClaims(p[1]), WriteSize)[p[2]] ELSE {p[1]}]
(* Nobody wrote the claims of the first round. *)
Offered(units) == {<<u, <<>>, "plain">> : u \in units}

(* Jobs of a round over these parts. *)
Key(r, round, kind, manner, i) == <<r, round, kind, manner, i>>
RoundJobs(r, round, kind, manner, parts) ==
    [k \in {Key(r, round, kind, manner, i) : i \in DOMAIN parts} |-> parts[k[5]]]
FirstJobs(r) ==
    LET e == Evidence(r) IN
    RoundJobs(r, 0, IF mode = "local" THEN "local" ELSE "map", "write", [i \in DOMAIN e |-> Offered(e[i])])

(* enqueue_many: a known job must be the same. *)
Conflict(new) == \E k \in DOMAIN new \cap DOMAIN tasks : tasks[k].offered # new[k]
Enqueued(new) ==
    [k \in DOMAIN tasks \cup DOMAIN new |->
        IF k \in DOMAIN tasks THEN tasks[k]
        ELSE [offered |-> new[k], attempt |-> 0, state |-> "planned", claims |-> {}]]

-----------------------------------------------------------------------------
(* The operator API. *)

Asks(a, at, r) == asker' = [asker EXCEPT ![a] = [at |-> at, pinned |-> r]]

(* The snapshot is one transaction, and a question known for it is told of. *)
Ask(a) ==
    /\ asker[a].at = "idle"
    /\ asked[revision] = NoQuestion
    /\ Asks(a, "enqueue", revision)
    /\ UNCHANGED <<mode, found, wanted, reports, revision, asked, tasks, answers, worker, pending, troubles>>

EnqueueQuestion(a) ==
    /\ asker[a].at = "enqueue"
    /\ LET new == FirstJobs(asker[a].pinned) IN
        IF Conflict(new) THEN Asks(a, "refused", 1) /\ UNCHANGED tasks
        ELSE Asks(a, "store", asker[a].pinned) /\ tasks' = Enqueued(new)
    /\ UNCHANGED <<mode, found, wanted, reports, revision, asked, answers, worker, pending, troubles>>

StoreQuestion(a) ==
    /\ asker[a].at = "store"
    /\ LET r == asker[a].pinned
           first == DOMAIN FirstJobs(r) IN
        asked' = [asked EXCEPT ![r] = [state |-> IF first = {} THEN "insufficient" ELSE "queued",
                                       round |-> 0, jobs |-> first]]
    /\ Asks(a, "done", 1)
    /\ UNCHANGED <<mode, found, wanted, reports, revision, tasks, answers, worker, pending, troubles>>

(* The store is busy, and the caller may ask again. *)
AskFails(a) ==
    /\ asker[a].at \in {"enqueue", "store"}
    /\ Trouble
    /\ Asks(a, "idle", 1)
    /\ UNCHANGED <<mode, found, wanted, reports, revision, asked, tasks, answers, worker, pending>>

-----------------------------------------------------------------------------
(* The worker: one thread that scans, plans and sends. *)

Working == worker = "loop" /\ pending = {}

(* A worker that ended in a planning scans when it is started again. *)
SourcesChange ==
    /\ Working \/ worker = "raised"
    /\ revision < LastRevision
    /\ revision' = revision + 1
    /\ worker' = "reconcile"
    /\ UNCHANGED <<mode, found, wanted, reports, asker, asked, tasks, answers, pending, troubles>>

(* The latest attempt of a job, whichever the question remembers; those    *)
(* before it have failed.                                                  *)
State(k) == tasks[k].state
Ended(k, state, claims) ==
    [offered |-> tasks[k].offered, attempt |-> tasks[k].attempt, state |-> state, claims |-> claims]

(* Questions pin all sources: whatever rests on an old revision goes.  The *)
(* claims of its jobs stay in the store, but nothing reads them again.     *)
ReconcileQuestions ==
    /\ worker = "reconcile"
    /\ worker' = "loop"
    /\ answers' = [r \in Revisions |-> IF r = revision THEN answers[r] ELSE {}]
    /\ tasks' = [k \in DOMAIN tasks |->
                    IF k[1] = revision THEN tasks[k] ELSE Ended(k, "obsolete", {})]
    /\ UNCHANGED <<mode, found, wanted, reports, revision, asker, asked, pending, troubles>>

(* The units that claims are about, and the kinds of documents among those *)
(* the question names.                                                     *)
Firsts(claims) == {c[1] : c \in claims}
Covered(claims) == {kind \in wanted : kind \cap Firsts(claims) # {}}

(* Claims an answer may hold: in its own words on what it was offered, or  *)
(* some of those it was offered, about every named kind that is among them.*)
Words(k) ==
    LET about == Firsts(tasks[k].offered) IN
    {<<u, k, "plain">> : u \in about} \cup {<<u, k, "unfit">> : u \in about \cap Unfit}
    \cup {<<u, k, "bulky">> : u \in about \cap Bulky} \cup {<<u, k, "huge">> : u \in about \cap Huge}
Possible(k) ==
    IF k[4] = "pick"
    THEN {some \in SUBSET tasks[k].offered : Covered(tasks[k].offered) \subseteq Covered(some)}
    ELSE SUBSET Words(k)

(* The answered maps of a wave are saved together. *)
CompleteMaps(K) ==
    /\ Working
    /\ \A k \in K : k[3] = "map" /\ State(k) = "planned" /\ k[1] = revision
    /\ \E claims \in [K -> UNION {Possible(k) : k \in K}] :
        /\ \A k \in K : claims[k] \in Possible(k)
        /\ tasks' = [k \in DOMAIN tasks |->
                        IF k \in K THEN Ended(k, "completed", claims[k])
                        ELSE tasks[k]]
    /\ UNCHANGED <<mode, found, wanted, reports, revision, asker, asked, answers, worker, pending, troubles>>

CompleteAnswer(k) ==
    /\ Working
    /\ k[3] # "map" /\ State(k) = "planned" /\ k[1] = revision
    /\ \E claims \in Possible(k) :
        /\ tasks' = [tasks EXCEPT ![k] = Ended(k, "completed", claims)]
        /\ answers' = [answers EXCEPT ![revision] = {claims}]
    /\ UNCHANGED <<mode, found, wanted, reports, revision, asker, asked, worker, pending, troubles>>

ObsoleteTask(k) ==
    /\ Working
    /\ State(k) = "planned" /\ k[1] # revision
    /\ tasks' = [tasks EXCEPT ![k] = Ended(k, "obsolete", {})]
    /\ UNCHANGED <<mode, found, wanted, reports, revision, asker, asked, answers, worker, pending, troubles>>

FailTask(k) ==
    /\ Working
    /\ State(k) = "planned"
    /\ Trouble
    /\ tasks' = [tasks EXCEPT ![k] = Ended(k, "failed", {})]
    /\ UNCHANGED <<mode, found, wanted, reports, revision, asker, asked, answers, worker, pending>>

(* The question goes on naming the first attempt. *)
RetryTask(k) ==
    /\ Working
    /\ State(k) = "failed" /\ k[1] = revision
    /\ tasks[k].attempt + 1 < MaxAttempts
    /\ tasks' = [tasks EXCEPT ![k] = [offered |-> tasks[k].offered, attempt |-> tasks[k].attempt + 1,
                                      state |-> "planned", claims |-> {}]]
    /\ UNCHANGED <<mode, found, wanted, reports, revision, asker, asked, answers, worker, pending, troubles>>

(* As a mutant: a round is reduced as soon as part of it is in. *)
ReducibleEarly(r) ==
    /\ mode = "global" /\ asked[r] # NoQuestion /\ answers[r] = {}
    /\ asked[r].state = "queued" /\ asked[r].jobs # {}
    /\ \E k \in asked[r].jobs : State(k) = "completed"

(* A round is reduced when all of it is in. *)
Reducible(r) ==
    /\ mode = "global" /\ asked[r] # NoQuestion /\ answers[r] = {}
    /\ asked[r].state = "queued" /\ asked[r].jobs # {}
    /\ \A k \in asked[r].jobs : State(k) = "completed"

Claims(K) == UNION {tasks[k].claims : k \in K}

(* As a mutant: nobody looks at the wording of a claim again. *)
PointsUnjudged(K) == Claims(K)

(* Claims are carried on, but not what its source does not bear out, and   *)
(* no contact data.                                                        *)
Points(K) == {c \in Claims(K) : c[3] # "unfit"}

(* Some claims do not fit a request with their proofs, not even alone, and *)
(* some not even without.                                                  *)
Oversize(c, manner) == c[3] = "huge" \/ (c[3] = "bulky" /\ manner = "write")

(* Batches of a size.  An oversize claim is noticed when it is the first of *)
(* all; any other gets a batch of its own, unseen.  The claims that fit come*)
(* before those.                                                           *)
Batches(points, manner, size) ==
    LET large == {c \in points : Oversize(c, manner)} IN
    IF points # {} /\ SetToSeq(points)[1] \in large THEN <<>>
    ELSE Pieces(points \ large, size) \o Pieces(large, 1)

(* As a mutant: that the question names several kinds is not asked. *)
PartsUnnamed(K) ==
    LET n == Cardinality(K)
        written == Batches(Points(K), "write", WriteSize)
    IN  IF \/ written = <<>>
           \/ n > 1 /\ Len(written) > n \div 2
        THEN [manner |-> "pick", parts |-> Batches(Points(K), "pick", PickSize)]
        ELSE [manner |-> "write", parts |-> written]

(* Requests with the full proofs; or to select claims, if there are claims *)
(* about several kinds that the question names, if the proofs do not fit,  *)
(* or if they would hardly shrink the round.                               *)
Parts(K) ==
    LET n == Cardinality(K)
        written == Batches(Points(K), "write", WriteSize)
    IN  IF \/ \E one, other \in Covered(Points(K)) : one # other
           \/ written = <<>>
           \/ n > 1 /\ Len(written) > n \div 2
        THEN [manner |-> "pick", parts |-> Batches(Points(K), "pick", PickSize)]
        ELSE [manner |-> "write", parts |-> written]

Contracts(r) ==
    LET parts == Parts(asked[r].jobs).parts IN
    /\ parts # <<>>
    /\ asked[r].round < MaxRounds
    /\ Len(parts) < Cardinality(asked[r].jobs) \/ Len(parts) = 1

(* The request of an oversize claim cannot be built. *)
Unbuildable(K) == \E c \in Points(K) : Oversize(c, Parts(K).manner)

NextJobs(r, round, K) ==
    LET p == Parts(K) IN
    RoundJobs(r, round + 1, IF Len(p.parts) = 1 THEN "reduce" ELSE "map", p.manner, p.parts)

Closes(r, state) == asked' = [asked EXCEPT ![r].state = state]

(* The API runs in the worker's process, and ends with it. *)
AskersEnd ==
    asker' = [a \in Asker |-> IF asker[a].at = "done" THEN asker[a]
                              ELSE [at |-> "idle", pinned |-> 1]]

(* The requests are built before any of them is stored.  What is raised    *)
(* ends the process, again whenever it is started and plans.               *)
Raises == worker' = "raised" /\ AskersEnd /\ UNCHANGED <<asked, tasks, pending>>

PlanReduction(r) ==
    /\ Working /\ Reducible(r)
    /\ IF Points(asked[r].jobs) = {}
       THEN Closes(r, "insufficient") /\ UNCHANGED <<asker, tasks, worker, pending>>
       ELSE IF ~Contracts(r)
       THEN Closes(r, "limited") /\ UNCHANGED <<asker, tasks, worker, pending>>
       ELSE LET new == NextJobs(r, asked[r].round, asked[r].jobs) IN
            IF Unbuildable(asked[r].jobs) \/ Conflict(new) THEN Raises
            ELSE /\ tasks' = Enqueued(new)
                 /\ pending' = {[of |-> r, question |-> [state |-> "queued", round |-> asked[r].round + 1,
                                                        jobs |-> DOMAIN new]]}
                 /\ UNCHANGED <<asker, asked, worker>>
    /\ UNCHANGED <<mode, found, wanted, reports, revision, answers, troubles>>

StorePlan ==
    /\ \E p \in pending : asked' = [asked EXCEPT ![p.of] = p.question]
    /\ pending' = {}
    /\ UNCHANGED <<mode, found, wanted, reports, revision, asker, tasks, answers, worker, troubles>>

(* The store is busy for the planner, which plans again. *)
PlanFails ==
    /\ pending # {} /\ Trouble
    /\ pending' = {}
    /\ UNCHANGED <<mode, found, wanted, reports, revision, asker, asked, tasks, answers, worker>>

ProcessDies ==
    /\ Trouble
    /\ pending' = {}
    /\ AskersEnd
    /\ UNCHANGED <<mode, found, wanted, reports, revision, asked, tasks, answers, worker>>

ApiStep(a) == EnqueueQuestion(a) \/ StoreQuestion(a)
WorkerStep ==
    \/ ReconcileQuestions \/ StorePlan
    \/ \E r \in Revisions : PlanReduction(r)
    \/ \E K \in SUBSET DOMAIN tasks \ {{}} : CompleteMaps(K)
    \/ \E k \in DOMAIN tasks : CompleteAnswer(k) \/ ObsoleteTask(k)

QuestionsNext ==
    \/ \E a \in Asker : Ask(a) \/ ApiStep(a) \/ AskFails(a)
    \/ WorkerStep \/ SourcesChange \/ PlanFails \/ ProcessDies
    \/ \E k \in DOMAIN tasks : FailTask(k) \/ RetryTask(k)

QuestionsSpec == QuestionsInit /\ [][QuestionsNext]_questionVars

-----------------------------------------------------------------------------
(* What question_status tells. *)
Status(r) ==
    IF asked[r] = NoQuestion THEN "unknown"
    ELSE IF r # revision THEN "obsolete"
    ELSE IF answers[r] # {} THEN IF answers[r] = {{}} THEN "insufficient" ELSE "completed"
    ELSE IF \E k \in asked[r].jobs : State(k) = "failed" THEN "failed"
    ELSE IF \E k \in asked[r].jobs : State(k) = "obsolete" THEN "obsolete"
    ELSE asked[r].state

(* A question that waits has work to wait for, or is about to be given it, *)
(* whoever died or asked it again; and planning ends the worker for one    *)
(* reason only, an oversize claim of the round at hand.                    *)
NoQuestionStuck ==
    /\ worker = "raised" => Reducible(revision) /\ Unbuildable(asked[revision].jobs)
    /\ \A a \in Asker : asker[a].at # "refused"
    /\ \A r \in Revisions :
        Status(r) = "queued" =>
            \/ pending # {} \/ worker = "reconcile" \/ Reducible(r)
            \/ \E k \in asked[r].jobs : State(k) = "planned"

(* The first round considers every safe unit and no sensitive one.  Every  *)
(* round after it considers each claim of the one before that is fit, once,*)
(* and none that is not; and it is smaller, unless it is a single request  *)
(* whose answer is the question's.                                         *)
Before(r, round) == {k \in DOMAIN tasks : k[1] = r /\ k[2] = round}
RoundsDivide ==
    \A r \in {r \in Revisions : asked[r] # NoQuestion /\ r = revision} :
        LET jobs == asked[r].jobs
            offers == UNION {tasks[k].offered : k \in jobs}
            earlier == Before(r, asked[r].round - 1) IN
        IF asked[r].round = 0
        THEN /\ mode = "global" => Firsts(offers) = Unit \ Sensitive
             /\ Firsts(offers) \cap Sensitive = {}
        ELSE /\ offers = {c \in Claims(earlier) : c[3] # "unfit"}
             /\ \A j, k \in jobs : j # k => tasks[j].offered \cap tasks[k].offered = {}
             /\ \/ Cardinality(jobs) < Cardinality(earlier)
                \/ \E k \in jobs : jobs = {k} /\ k[3] = "reduce"

(* A round is planned once: asking again and planning again after a crash  *)
(* find the jobs that are there, and nothing is paid for twice.            *)
RoundsPlannedOnce ==
    \A j, k \in DOMAIN tasks :
        j[1] = k[1] /\ j[2] = k[2] => j[3] = k[3] /\ j[4] = k[4]

(* An answer rests on the sources as they are.  What it says rests on the  *)
(* evidence found, or on what was said, and was fit, in the first round.   *)
AnswersRest ==
    \A r \in Revisions : \A claims \in answers[r] :
        /\ r = revision \/ worker = "reconcile"
        /\ Firsts(claims) \subseteq IF mode = "local" THEN found \ Sensitive
                                    ELSE Firsts(Points(Before(r, 0)))

(* If the first round has fit claims about several kinds of documents that *)
(* the question names, its answer has one about each of them, however many *)
(* rounds come between.                                                    *)
KindsKept ==
    \A r \in Revisions : \A claims \in answers[r] :
        mode = "global" =>
            \A one, other \in Covered(Points(Before(r, 0))) :
                one # other => {one, other} \subseteq Covered(claims)

QuestionsInv == NoQuestionStuck /\ RoundsDivide /\ RoundsPlannedOnce /\ AnswersRest /\ KindsKept

(* Large proofs still end in a request to select claims, as the test of    *)
(* the reduction says; no claim of a completed answer ends the worker.     *)
LargeProofsSelected == worker # "raised"
=============================================================================
