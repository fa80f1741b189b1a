---------------------------- MODULE IngestionProofs ----------------------------
(***************************************************************************)
(* Safety of PageSync for every list, page size and bound: a resumed run   *)
(* skips nothing, and a sync over a quiet list leaves the store exact and  *)
(* removes no record that is still listed.  Safety of IngestionRuns for    *)
(* every set of sources and parents: no watermark passes a change its      *)
(* source was not asked about.  The two modules share no state.            *)
(***************************************************************************)
EXTENDS PageSync, IngestionRuns, SequenceTheorems, FiniteSetTheorems, TLAPS

(* A list is a sequence: its rows are numbered from one to its length. *)
LEMMA ListIsSeq ==
    ASSUME NEW list \in Lists
    PROVE  /\ Len(list) \in Nat /\ DOMAIN list = 1..Len(list)
           /\ \A i \in DOMAIN list : list[i] \in Item
           /\ \A i, j \in DOMAIN list : list[i][1] = list[j][1] => i = j
<1>1. PICK n \in 0..MaxLength : list \in [1..n -> Item]
  BY DEF Lists
<1>2. n \in Nat
  BY <1>1, PageSyncAssumption
<1>3. list \in Seq(Item) /\ Len(list) = n
  BY <1>1, <1>2
<1> QED
  BY <1>1, <1>2, <1>3 DEF Lists

(* A source begins well typed. *)
LEMMA InitTypeOK == Init => TypeOK
  BY PageSyncAssumption DEF Init, TypeOK, FirstPage, Steps

(* The rows of a page are items of the list. *)
LEMMA PageRowsType ==
    ASSUME TypeOK
    PROVE  PageRows \subseteq Item
  BY ListIsSeq DEF TypeOK, PageRows

(* The transaction of a page keeps the store, the stamps and the           *)
(* checkpoint well typed.                                                  *)
LEMMA CommitPageType ==
    ASSUME TypeOK, job # None, CommitPage
    PROVE  /\ stored' \in [Record -> Hash \cup {None}]
           /\ seen' \subseteq Record
           /\ checkpoint' \in [page : Nat \ {0}, complete : BOOLEAN]
           /\ NextPage \in Nat \ {0}
<1>1. job.rows \subseteq Record \X Hash /\ job.page \in Nat \ {0} /\ job.last \in BOOLEAN
  BY DEF TypeOK, Item
<1>2. Fetched \subseteq Record
  BY <1>1 DEF Fetched
<1>3. ASSUME NEW r \in Fetched PROVE HashOf(r) \in Hash
  <2>1. PICK row \in job.rows : row[1] = r
    BY DEF Fetched
  <2>2. row[2] \in Hash /\ <<r, row[2]>> \in job.rows
    BY <1>1, <2>1
  <2> QED
    BY <2>2 DEF HashOf
<1>4. NextPage \in Nat \ {0}
  BY <1>1 DEF NextPage
<1>5. stored' \in [Record -> Hash \cup {None}]
  BY <1>3 DEF CommitPage, SaveRows, TypeOK
<1>6. seen' \subseteq Record
  BY <1>2 DEF CommitPage, SaveRows, TypeOK
<1> QED
  BY <1>1, <1>4, <1>5, <1>6 DEF CommitPage

(* The steps of every action keep the types (PageSync.TypeOK). *)
LEMMA NextTypeOK == TypeOK /\ [Next]_vars => TypeOK'
<1> SUFFICES ASSUME TypeOK, [Next]_vars PROVE TypeOK'
  OBVIOUS
<1> USE PageSyncAssumption
<1>1. CASE Move
  <2>2. upstream' \in Lists /\ quiet' \in BOOLEAN
    BY <1>1 DEF Move
  <2>4. moves \in Nat /\ moves' = moves + 1
    BY <1>1 DEF Move, TypeOK
  <2>3. UNCHANGED <<stored, seen, checkpoint, sync, job, faults>>
    BY <1>1 DEF Move, dbVars
  <2> QED
    BY <2>2, <2>3, <2>4 DEF TypeOK
<1>2. CASE Start
  <2>1. PICK kind \in Jobs, step \in {"fetch", "watermark"}, size \in PageSize,
             page \in Nat \ {0} : NewJob(kind, step, size, page)
    BY <1>2 DEF Start, StartRun, StartSync, TypeOK
  <2> QED
    BY <2>1 DEF NewJob, TypeOK, Steps
<1>3. CASE ReadWatermark
  BY <1>3 DEF ReadWatermark, At, GoTo, dbVars, listVars, TypeOK, Steps
<1>4. CASE MarkSyncStarted
  BY <1>4 DEF MarkSyncStarted, At, GoTo, listVars, TypeOK, Steps
<1>5. CASE ResetCheckpoint
  BY <1>5 DEF ResetCheckpoint, At, GoTo, TypeOK, Steps, FirstPage
<1>6. CASE Fetch
  <2>1. PageRows \subseteq Item /\ IsComplete \in BOOLEAN
    BY PageRowsType DEF IsComplete
  <2> QED
    BY <1>6, <2>1 DEF Fetch, At, dbVars, listVars, TypeOK, Steps
<1>7. CASE SavePage
  <2>1. job # None /\ CommitPage
    BY <1>7 DEF SavePage, At
  <2>2. AfterPage \in Steps
    BY DEF AfterPage, Steps
  <2>3. job' \in [kind : Jobs, step : Steps, size : PageSize, page : Nat \ {0}, pages : Nat,
                  rows : SUBSET Item, last : BOOLEAN]
    <3> DEFINE J == [kind : Jobs, step : Steps, size : PageSize, page : Nat \ {0},
                     pages : Nat, rows : SUBSET Item, last : BOOLEAN]
    <3>1. job \in J /\ NextPage \in Nat \ {0} /\ job.pages + 1 \in Nat
      BY <2>1, CommitPageType DEF TypeOK
    <3> QED
      BY <1>7, <2>2, <3>1 DEF SavePage
  <2> QED
    BY <1>7, <2>1, <2>3, CommitPageType DEF SavePage, CommitPage, listVars, TypeOK
<1>8. CASE Finalize
  BY <1>8 DEF Finalize, RemoveUnseen, At, GoTo, listVars, TypeOK, Steps
<1>9. CASE RunDone \/ MarkSyncCompleted \/ MarkSyncFailed \/ Crash
  <2>1. EndJob /\ faults' \in Nat /\ UNCHANGED <<stored, seen, checkpoint>>
    BY <1>9 DEF RunDone, MarkSyncCompleted, MarkSyncFailed, Crash, Completed, dbVars, TypeOK
  <2>2. sync' \in [status : {"none", "RUNNING", "COMPLETE", "FAILED"}, watermark : BOOLEAN]
    <3>1. CASE MarkSyncFailed
      BY <3>1 DEF MarkSyncFailed, TypeOK
    <3>2. CASE MarkSyncCompleted
      BY <3>2 DEF MarkSyncCompleted, Completed
    <3>3. CASE RunDone \/ Crash
      BY <3>3 DEF RunDone, Crash, dbVars, TypeOK
    <3> QED
      BY <1>9, <3>1, <3>2, <3>3
  <2> QED
    BY <2>1, <2>2 DEF EndJob, listVars, TypeOK
<1>10. CASE CallRaises
  <2>1. /\ stored' \in [Record -> Hash \cup {None}]
        /\ seen' \subseteq Record
        /\ checkpoint' \in [page : Nat \ {0}, complete : BOOLEAN]
        /\ sync' \in [status : {"none", "RUNNING", "COMPLETE", "FAILED"}, watermark : BOOLEAN]
    <3>1. CASE UNCHANGED dbVars
      BY <3>1 DEF dbVars, TypeOK
    <3>2. CASE CommitPage
      BY <1>10, <3>2, CommitPageType DEF CallRaises, CommitPage, TypeOK
    <3>3. CASE RemoveUnseen
      BY <3>3 DEF RemoveUnseen, TypeOK
    <3>4. CASE Completed
      BY <3>4 DEF Completed, TypeOK
    <3> QED
      BY <1>10, <3>1, <3>2, <3>3, <3>4 DEF CallRaises
  <2>2. faults' \in Nat
    BY <1>10 DEF CallRaises, TypeOK
  <2>3. CASE EndJob
    BY <2>1, <2>2, <2>3 DEF EndJob, listVars, TypeOK
  <2>4. CASE job' = [job EXCEPT !.step = "fail", !.rows = {}] /\ UNCHANGED listVars
    BY <1>10, <2>1, <2>2, <2>4 DEF CallRaises, listVars, TypeOK, Steps
  <2> QED
    BY <1>10, <2>3, <2>4 DEF CallRaises
<1>11. CASE UNCHANGED vars
  BY <1>11 DEF vars, dbVars, listVars, TypeOK
<1> QED
  BY <1>1, <1>2, <1>3, <1>4, <1>5, <1>6, <1>7, <1>8, <1>9, <1>10, <1>11 DEF Next, JobStep

(* Every reachable state is well typed. *)
THEOREM TypeCorrect == Spec => []TypeOK
  BY InitTypeOK, NextTypeOK, PTL DEF Spec

-----------------------------------------------------------------------------
(* Over a quiet list the payload saved for a fetched record is the listed  *)
(* one.                                                                    *)
LEMMA HashOfListed ==
    ASSUME TypeOK, HoldsPage, quiet, At("save"),
           NEW i \in DOMAIN upstream, upstream[i][1] \in Fetched
    PROVE  HashOf(upstream[i][1]) = upstream[i][2]
<1>1. job.rows = PageRows
  BY DEF HoldsPage
<1>2. upstream \in Lists
  BY DEF TypeOK
<1>3. ASSUME NEW h, <<upstream[i][1], h>> \in job.rows PROVE h = upstream[i][2]
  <2>1. PICK k \in DOMAIN upstream : upstream[k] = <<upstream[i][1], h>>
    BY <1>1, <1>3 DEF PageRows
  <2> QED
    BY <1>2, <2>1, ListIsSeq
<1>4. PICK row \in job.rows : row[1] = upstream[i][1]
  BY DEF Fetched
<1>5. row[2] \in Hash /\ row = <<upstream[i][1], row[2]>>
  BY <1>4 DEF TypeOK, At, Item
<1> QED
  BY <1>3, <1>4, <1>5 DEF HashOf

(* The last page of a quiet list reaches its end. *)
LEMMA LastPage ==
    ASSUME IInv, quiet, At("save"), job.last
    PROVE  Len(upstream) <= job.page * job.size
<1>1. job.last = IsComplete
  BY DEF IInv, HoldsPage
<1>2. IsComplete
  BY <1>1
<1>3. Len(upstream) \in Nat /\ job.page * job.size \in Nat
  <2>1. job.page \in Nat /\ job.size \in Nat /\ upstream \in Lists
    BY PageSyncAssumption DEF IInv, TypeOK, At
  <2> QED
    BY <2>1, ListIsSeq
<1> QED
  BY <1>2, <1>3 DEF IsComplete

(* The transaction of a page over a quiet list stores the rows up to the   *)
(* end of the page, and the whole list when the page is the last.          *)
LEMMA PageCommitted ==
    ASSUME IInv, quiet, At("save"), SaveRows
    PROVE  \A i \in DOMAIN upstream :
               i <= job.page * job.size \/ job.last =>
                   stored'[upstream[i][1]] = upstream[i][2]
<1>1. upstream \in Lists /\ job.size \in PageSize /\ job.page \in Nat /\ job.size \in Nat
  BY PageSyncAssumption DEF IInv, TypeOK, At
<1>2. Len(upstream) \in Nat /\ DOMAIN upstream = 1..Len(upstream)
  BY <1>1, ListIsSeq
<1>3. SUFFICES ASSUME NEW i \in DOMAIN upstream, i <= job.page * job.size \/ job.last
               PROVE  stored'[upstream[i][1]] = upstream[i][2]
  OBVIOUS
<1>4. job.page * job.size \in Nat
  BY <1>1
<1>5. i <= job.page * job.size
  BY <1>2, <1>3, <1>4, LastPage
<1>6. upstream[i][1] \in Record
  BY <1>1, ListIsSeq DEF Item
<1>7. CASE upstream[i][1] \in Fetched
  <2>1. HashOf(upstream[i][1]) = upstream[i][2]
    BY <1>7, HashOfListed DEF IInv
  <2> QED
    BY <1>6, <1>7, <2>1 DEF SaveRows
<1>8. CASE upstream[i][1] \notin Fetched
  <2>1. ~((job.page - 1) * job.size < i)
    BY <1>5, <1>8 DEF IInv, HoldsPage, PageRows, Fetched
  <2>2. (job.page - 1) * job.size \in Int
    BY <1>1
  <2>3. i <= (checkpoint.page - 1) * job.size
    BY <1>2, <2>1, <2>2 DEF IInv, OwnCheckpoint
  <2>4. stored[upstream[i][1]] = upstream[i][2]
    BY <1>1, <2>3 DEF IInv, CheckpointCovers, Covered
  <2> QED
    BY <1>6, <1>8, <2>4 DEF SaveRows
<1> QED
  BY <1>7, <1>8

(* It also stamps those rows, and no record outside the list.              *)
LEMMA PageSeen ==
    ASSUME IInv, quiet, At("save"), SaveRows, Syncing
    PROVE  /\ seen' \subseteq Listed
           /\ \A i \in DOMAIN upstream :
                  i <= job.page * job.size \/ job.last => upstream[i][1] \in seen'
<1>1. upstream \in Lists /\ job.page \in Nat /\ job.size \in Nat
  BY PageSyncAssumption DEF IInv, TypeOK, At
<1>2. Len(upstream) \in Nat /\ DOMAIN upstream = 1..Len(upstream)
  BY <1>1, ListIsSeq
<1>3. job.rows = PageRows /\ seen \subseteq Listed /\ SeenBefore((job.page - 1) * job.size)
  BY DEF IInv, HoldsPage, SeenByStep
<1>4. seen' \subseteq Listed
  BY <1>3 DEF SaveRows, Fetched, PageRows, Listed, RecordsOf
<1>5. ASSUME NEW i \in DOMAIN upstream, i <= job.page * job.size \/ job.last
      PROVE  upstream[i][1] \in seen'
  <2>1. job.page * job.size \in Nat /\ (job.page - 1) * job.size \in Int
    BY <1>1
  <2>2. i <= job.page * job.size
    BY <1>2, <1>5, <2>1, LastPage
  <2>3. CASE i <= (job.page - 1) * job.size
    BY <1>3, <2>3 DEF SeenBefore, SaveRows
  <2>4. CASE (job.page - 1) * job.size < i
    BY <1>3, <2>2, <2>4 DEF PageRows, Fetched, SaveRows
  <2> QED
    BY <1>2, <2>1, <2>3, <2>4
<1> QED
  BY <1>4, <1>5

(* The checkpoint covers the list if its page does and nothing moved.      *)
LEMMA CoverFrame ==
    ASSUME IInv, UNCHANGED <<upstream, stored, checkpoint>>, quiet' => quiet
    PROVE  CheckpointCovers'
  BY DEF IInv, CheckpointCovers, Covered

(* What the page transaction leaves is covered by its checkpoint.          *)
LEMMA CommitCovers ==
    ASSUME IInv, OnePageSize, At("save"), CommitPage, UNCHANGED <<upstream, quiet>>
    PROVE  CheckpointCovers'
<1> SUFFICES ASSUME quiet, NEW size \in PageSize
             PROVE  /\ \A i \in DOMAIN upstream : i <= (checkpoint'.page - 1) * size =>
                           stored'[upstream[i][1]] = upstream[i][2]
                    /\ checkpoint'.complete => \A i \in DOMAIN upstream :
                           i <= Len(upstream) => stored'[upstream[i][1]] = upstream[i][2]
  BY DEF CheckpointCovers, Covered
<1>1. /\ job.size \in Nat /\ job.page \in Nat \ {0} /\ size = job.size
      /\ job.last \in BOOLEAN /\ upstream \in Lists
  BY PageSyncAssumption DEF IInv, TypeOK, At, OnePageSize
<1>2. checkpoint'.page = NextPage /\ checkpoint'.complete = job.last
  BY DEF CommitPage
<1>3. \A i \in DOMAIN upstream : i <= job.page * job.size \/ job.last =>
          stored'[upstream[i][1]] = upstream[i][2]
  BY PageCommitted DEF CommitPage
<1>4. ASSUME NEW i \in DOMAIN upstream, i <= (checkpoint'.page - 1) * size
      PROVE  i <= job.page * job.size \/ job.last
  <2>1. CASE job.last
    BY <2>1
  <2>2. CASE ~job.last
    <3>1. checkpoint'.page - 1 = job.page
      BY <1>1, <1>2, <2>2 DEF NextPage
    <3> QED
      BY <1>1, <1>4, <3>1
  <2> QED
    BY <2>1, <2>2
<1> QED
  BY <1>2, <1>3, <1>4

(* Removing what a complete sync did not see leaves a quiet list covered,  *)
(* and nothing else when the list is authoritative.                        *)
LEMMA RemovalCovers ==
    ASSUME IInv, At("finalize"), RemoveUnseen, UNCHANGED <<upstream, quiet>>
    PROVE  /\ CheckpointCovers'
           /\ quiet => /\ Covered(Len(upstream))'
                       /\ \A r \in Record \ Listed : stored'[r] = None
<1>1. CASE ~quiet
  BY <1>1 DEF CheckpointCovers
<1>2. CASE quiet
  <2>1. seen \subseteq Listed /\ SeenBefore(Len(upstream)) /\ Covered(Len(upstream))
    BY <1>2 DEF IInv, SeenByStep
  <2>2. upstream \in Lists
    BY DEF IInv, TypeOK
  <2>3. ASSUME NEW i \in DOMAIN upstream
        PROVE  stored'[upstream[i][1]] = upstream[i][2]
    <3>1. upstream[i][1] \in Record /\ i <= Len(upstream)
      BY <2>2, ListIsSeq DEF Item
    <3> QED
      BY <2>1, <3>1 DEF SeenBefore, Covered, RemoveUnseen
  <2>4. CheckpointCovers'
    BY <2>3 DEF CheckpointCovers, Covered
  <2>5. Covered(Len(upstream))'
    BY <2>3 DEF Covered
  <2>6. \A r \in Record \ Listed : stored'[r] = None
    BY <2>1 DEF RemoveUnseen
  <2> QED
    BY <2>4, <2>5, <2>6
<1> QED
  BY <1>1, <1>2

(* An empty store and a first-page checkpoint claim nothing. *)
LEMMA InitIInv == Init => IInv
<1> SUFFICES ASSUME Init PROVE IInv
  OBVIOUS
<1>1. TypeOK /\ upstream \in Lists
  BY InitTypeOK DEF TypeOK
<1>2. \A i \in DOMAIN upstream : i \in Nat /\ i > 0
  BY <1>1, ListIsSeq
<1>3. CheckpointCovers
  <2> SUFFICES ASSUME NEW size \in PageSize
               PROVE  Covered((checkpoint.page - 1) * size) /\ ~checkpoint.complete
    BY DEF CheckpointCovers
  <2>1. (checkpoint.page - 1) * size = 0 /\ ~checkpoint.complete
    BY PageSyncAssumption DEF Init, FirstPage
  <2> QED
    BY <1>2, <2>1 DEF Covered
<1> QED
  BY <1>1, <1>3 DEF Init, IInv, OwnCheckpoint, HoldsPage, SeenByStep, SyncedMeansExact, At

(* Every step keeps the inductive invariant, when requests agree on the    *)
(* page size: a job's pages are then the checkpoint's pages.               *)
LEMMA NextIInv == OnePageSize /\ IInv /\ [Next]_vars => IInv'
<1> SUFFICES ASSUME OnePageSize, IInv, [Next]_vars PROVE IInv'
  OBVIOUS
<1> DEFINE Rest == OwnCheckpoint /\ HoldsPage /\ SeenByStep /\ SyncedMeansExact
<1>1. TypeOK'
  BY NextTypeOK DEF IInv
<1> SUFFICES CheckpointCovers' /\ Rest'
  BY <1>1 DEF IInv
<1>2. CASE Move
  <2>1. CheckpointCovers'
    BY <1>2 DEF Move, CheckpointCovers
  <2>2. ~quiet' /\ UNCHANGED <<job, checkpoint, seen>>
    BY <1>2 DEF Move, dbVars
  <2> QED
    BY <2>1, <2>2 DEF IInv, OwnCheckpoint, HoldsPage, SeenByStep, SyncedMeansExact, At
<1>3. CASE Start
  <2>1. CheckpointCovers'
    BY <1>3, CoverFrame DEF Start, StartRun, StartSync, NewJob
  <2>2. seen' = {} /\ UNCHANGED checkpoint
    BY <1>3 DEF Start, StartRun, StartSync, NewJob
  <2>3. \/ job'.step = "fetch" /\ job'.kind = "run" /\ job'.page = checkpoint.page
        \/ job'.step = "watermark" /\ job'.page = 1
    <3>1. CASE \E size \in PageSize : StartRun(size)
      BY <3>1 DEF StartRun, NewJob
    <3>2. CASE \E kind \in Jobs, size \in PageSize : StartSync(kind, size)
      BY <3>2 DEF StartSync, NewJob
    <3> QED
      BY <1>3, <3>1, <3>2 DEF Start
  <2> QED
    BY <2>1, <2>2, <2>3 DEF OwnCheckpoint, HoldsPage, SeenByStep, SyncedMeansExact, At, Syncing
<1>4. CASE ReadWatermark \/ MarkSyncStarted
  <2>1. UNCHANGED <<upstream, stored, seen, checkpoint, quiet>>
    BY <1>4 DEF ReadWatermark, MarkSyncStarted, dbVars, listVars
  <2>2. /\ seen = {} /\ job.page = 1 /\ job'.page = job.page
        /\ job'.step \in {"start", "reset", "fail"}
    BY <1>4 DEF ReadWatermark, MarkSyncStarted, GoTo, At, IInv, TypeOK, OwnCheckpoint, SeenByStep
  <2> QED
    BY <2>1, <2>2, CoverFrame
       DEF OwnCheckpoint, HoldsPage, SeenByStep, SyncedMeansExact, At
<1>5. CASE ResetCheckpoint
  <2>1. /\ checkpoint' = FirstPage /\ seen = {} /\ UNCHANGED <<upstream, seen>>
        /\ job'.page = 1 /\ job'.step = "fetch" /\ job'.size \in PageSize
    BY <1>5 DEF ResetCheckpoint, GoTo, At, IInv, TypeOK, OwnCheckpoint, SeenByStep
  <2>2. \A i \in DOMAIN upstream : i \in Nat /\ i > 0
    BY ListIsSeq DEF IInv, TypeOK
  <2>3. \A size \in PageSize : (1 - 1) * size = 0
    BY PageSyncAssumption
  <2>4. CheckpointCovers'
    BY <2>1, <2>2, <2>3 DEF CheckpointCovers, Covered, FirstPage
  <2>5. SeenBefore((job.page - 1) * job.size)'
    BY <2>1, <2>2, <2>3 DEF SeenBefore
  <2> QED
    BY <2>1, <2>4, <2>5
       DEF OwnCheckpoint, HoldsPage, SeenByStep, SyncedMeansExact, At, FirstPage
<1>6. CASE Fetch
  <2>1. UNCHANGED <<upstream, stored, seen, checkpoint, quiet>>
    BY <1>6 DEF Fetch, dbVars, listVars
  <2>2. /\ job # None /\ job.step = "fetch" /\ job'.step = "save"
        /\ job'.kind = job.kind /\ job'.page = job.page /\ job'.size = job.size
        /\ job'.rows = PageRows /\ job'.last = IsComplete
    BY <1>6 DEF Fetch, At, IInv, TypeOK
  <2>3. HoldsPage'
    BY <2>1, <2>2 DEF HoldsPage, PageRows, IsComplete
  <2>4. SeenByStep'
    BY <2>1, <2>2 DEF IInv, SeenByStep, At, Syncing, Listed, RecordsOf, SeenBefore
  <2> QED
    BY <2>1, <2>2, <2>3, <2>4, CoverFrame DEF IInv, OwnCheckpoint, SyncedMeansExact, At
<1>7. CASE SavePage
  <2>1. At("save") /\ CommitPage /\ SaveRows /\ UNCHANGED <<upstream, quiet>>
    BY <1>7 DEF SavePage, CommitPage, listVars
  <2>2. /\ job'.step = AfterPage /\ job'.kind = job.kind
        /\ job'.page = NextPage /\ job'.size = job.size /\ checkpoint'.page = NextPage
        /\ job.page \in Nat \ {0} /\ job.size \in Nat /\ upstream \in Lists
    <3>1. job \in [kind : Jobs, step : Steps, size : PageSize, page : Nat \ {0}, pages : Nat,
                   rows : SUBSET Item, last : BOOLEAN]
      BY <2>1 DEF At, IInv, TypeOK
    <3>2. job' = [job EXCEPT !.step = AfterPage, !.rows = {}, !.page = NextPage, !.pages = @ + 1]
      BY <1>7 DEF SavePage
    <3>3. job'.step = AfterPage
      BY <3>1, <3>2
    <3>4. job'.kind = job.kind /\ job'.size = job.size
      BY <3>1, <3>2
    <3>5. job'.page = NextPage
      BY <3>1, <3>2
    <3>6. checkpoint'.page = NextPage /\ upstream \in Lists
      BY <2>1 DEF CommitPage, IInv, TypeOK
    <3>7. job.page \in Nat \ {0} /\ job.size \in Nat
      BY <3>1, PageSyncAssumption
    <3> QED
      BY <3>3, <3>4, <3>5, <3>6, <3>7
  <2>3. CheckpointCovers'
    BY <2>1, CommitCovers
  <2>4. OwnCheckpoint' /\ HoldsPage'
    BY <2>2 DEF OwnCheckpoint, HoldsPage, At, AfterPage
  <2>5. ASSUME quiet, job.last
        PROVE  Covered(Len(upstream))' /\ (Syncing => seen' \subseteq Listed /\ SeenBefore(Len(upstream))')
    BY <2>1, <2>5, PageCommitted, PageSeen DEF Covered, SeenBefore
  <2>6. ASSUME quiet, ~job.last, Syncing
        PROVE  seen' \subseteq Listed /\ SeenBefore((job.page - 1) * job.size)'
    <3>1. job'.page - 1 = job.page
      BY <2>2, <2>6 DEF NextPage
    <3> QED
      BY <2>1, <2>2, <2>6, <3>1, PageSeen DEF SeenBefore
  <2>7. Listed' = Listed /\ (Syncing' <=> Syncing)
    BY <2>1, <2>2 DEF Listed, Syncing
  <2>8. SeenByStep'
    <3>1. job'.step = "finalize" => job.last /\ Syncing
      BY <2>2 DEF AfterPage
    <3>2. job'.step \in {"fetch", "save"} => ~job.last
      BY <2>2 DEF AfterPage
    <3>3. job'.step \notin {"watermark", "start", "reset"}
      BY <2>2 DEF AfterPage
    <3> QED
      BY <2>1, <2>5, <2>6, <2>7, <3>1, <3>2, <3>3 DEF SeenByStep, At
  <2>9. SyncedMeansExact'
    <3>1. job'.step = "done" /\ Syncing => job.last /\ ~Authoritative
      BY <2>2 DEF AfterPage, Syncing
    <3> QED
      BY <2>1, <2>5, <2>7, <3>1 DEF SyncedMeansExact, At
  <2> QED
    BY <2>3, <2>4, <2>8, <2>9
<1>8. CASE Finalize
  <2>1. At("finalize") /\ RemoveUnseen /\ UNCHANGED <<upstream, quiet>>
    BY <1>8 DEF Finalize, listVars
  <2>2. job'.step = "done"
    BY <1>8 DEF Finalize, GoTo, At, IInv, TypeOK
  <2>3. Listed' = Listed
    BY <2>1 DEF Listed
  <2> QED
    BY <2>1, <2>2, <2>3, RemovalCovers
       DEF OwnCheckpoint, HoldsPage, SeenByStep, SyncedMeansExact, At
<1>9. CASE RunDone \/ MarkSyncCompleted \/ MarkSyncFailed \/ Crash
  <2>1. job' = None /\ UNCHANGED <<upstream, stored, checkpoint, quiet>>
    BY <1>9 DEF RunDone, MarkSyncCompleted, MarkSyncFailed, Crash, EndJob, Completed, dbVars, listVars
  <2> QED
    BY <2>1, CoverFrame DEF OwnCheckpoint, HoldsPage, SeenByStep, SyncedMeansExact, At
<1>10. CASE CallRaises
  <2>1. UNCHANGED <<upstream, quiet>> /\ (job' = None \/ job'.step = "fail")
    BY <1>1, <1>10 DEF CallRaises, EndJob, listVars, IInv, TypeOK
  <2>2. CheckpointCovers'
    <3>1. CASE UNCHANGED dbVars
      BY <2>1, <3>1, CoverFrame DEF dbVars
    <3>2. CASE At("save") /\ CommitPage
      BY <2>1, <3>2, CommitCovers
    <3>3. CASE At("finalize") /\ RemoveUnseen
      BY <2>1, <3>3, RemovalCovers
    <3>4. CASE Completed
      BY <2>1, <3>4, CoverFrame DEF Completed
    <3> QED
      BY <1>10, <3>1, <3>2, <3>3, <3>4 DEF CallRaises
  <2> QED
    BY <2>1, <2>2 DEF OwnCheckpoint, HoldsPage, SeenByStep, SyncedMeansExact, At
<1>11. CASE UNCHANGED vars
  <2>1. UNCHANGED <<upstream, stored, seen, checkpoint, quiet, job>>
    BY <1>11 DEF vars, dbVars, listVars
  <2>2. Rest'
    BY <2>1 DEF IInv, OwnCheckpoint, HoldsPage, SeenByStep, SyncedMeansExact, At, Syncing,
                PageRows, IsComplete, Listed, RecordsOf, SeenBefore, Covered
  <2> QED
    BY <2>1, <2>2, CoverFrame
<1> QED
  BY <1>2, <1>3, <1>4, <1>5, <1>6, <1>7, <1>8, <1>9, <1>10, <1>11 DEF Next, JobStep

(* The inductive invariant holds, when requests agree on the page size.    *)
THEOREM InvariantHolds ==
    ASSUME OnePageSize
    PROVE  Spec => []IInv
<1>1. IInv /\ [Next]_vars => IInv'
  BY NextIInv
<1> QED
  BY <1>1, InitIInv, PTL DEF Spec

(* A resumed run skips no row: while the list is quiet, what lies before   *)
(* the checkpoint is stored, whatever was interrupted.                     *)
THEOREM ResumeSkipsNothing ==
    ASSUME OnePageSize
    PROVE  Spec => []CheckpointCovers
<1>1. IInv => CheckpointCovers
  BY DEF IInv
<1> QED
  BY <1>1, InvariantHolds, PTL

(* A sync over a quiet list leaves the store equal to it.                  *)
THEOREM QuietSyncIsExact ==
    ASSUME OnePageSize
    PROVE  Spec => []SyncedMeansExact
<1>1. IInv => SyncedMeansExact
  BY DEF IInv
<1> QED
  BY <1>1, InvariantHolds, PTL

(* The records a page saves are left with a hash, so that only finalize    *)
(* removes one.                                                            *)
LEMMA CommitKeeps ==
    ASSUME TypeOK, At("save"), CommitPage,
           NEW r \in Record, stored[r] # None
    PROVE  stored'[r] # None
<1>1. job.rows \subseteq Record \X Hash
  BY DEF TypeOK, At, Item
<1>2. CASE r \in Fetched
  <2>1. PICK row \in job.rows : row[1] = r
    BY <1>2 DEF Fetched
  <2>2. row[2] \in Hash /\ <<r, row[2]>> \in job.rows
    BY <1>1, <2>1
  <2>3. HashOf(r) \in Hash
    BY <2>2 DEF HashOf
  <2> QED
    BY <1>2, <2>3, PageSyncAssumption DEF CommitPage, SaveRows
<1>3. CASE r \notin Fetched
  BY <1>3 DEF CommitPage, SaveRows
<1> QED
  BY <1>2, <1>3

(* Over a quiet list a sync removes no record that is still listed: what   *)
(* finalize leaves out was not seen, and every listed record was.          *)
THEOREM QuietSyncKeepsListed ==
    ASSUME OnePageSize
    PROVE  Spec => QuietRemoval
<1>1. ASSUME IInv, [Next]_vars, NEW r \in Record, quiet, stored[r] # None, stored'[r] = None
      PROVE  r \notin Listed
  <2>1. CASE At("finalize") /\ RemoveUnseen
    <3>1. SeenBefore(Len(upstream)) /\ upstream \in Lists
      BY <1>1, <2>1 DEF IInv, SeenByStep, TypeOK
    <3>2. r \notin seen
      BY <1>1, <2>1 DEF RemoveUnseen
    <3>3. \A i \in DOMAIN upstream : i <= Len(upstream)
      BY <3>1, ListIsSeq
    <3> QED
      BY <3>1, <3>2, <3>3 DEF SeenBefore, Listed, RecordsOf
  <2>2. CASE At("save") /\ CommitPage
    BY <1>1, <2>2, CommitKeeps DEF IInv
  <2>3. CASE UNCHANGED stored
    BY <1>1, <2>3
  <2>4. \/ At("finalize") /\ RemoveUnseen
        \/ At("save") /\ CommitPage
        \/ UNCHANGED stored
    <3>1. CASE Move \/ Start \/ UNCHANGED vars
      BY <3>1 DEF Move, Start, StartRun, StartSync, NewJob, vars, dbVars
    <3>2. CASE ReadWatermark \/ MarkSyncStarted \/ ResetCheckpoint \/ Fetch \/ Crash
      BY <3>2 DEF ReadWatermark, MarkSyncStarted, ResetCheckpoint, Fetch, Crash, dbVars
    <3>3. CASE RunDone \/ MarkSyncCompleted \/ MarkSyncFailed
      BY <3>3 DEF RunDone, MarkSyncCompleted, MarkSyncFailed, Completed, dbVars
    <3>4. CASE SavePage \/ Finalize
      BY <3>4 DEF SavePage, Finalize
    <3>5. CASE CallRaises
      BY <3>5 DEF CallRaises, Completed, dbVars
    <3> QED
      BY <1>1, <3>1, <3>2, <3>3, <3>4, <3>5 DEF Next, JobStep
  <2> QED
    BY <2>1, <2>2, <2>3, <2>4
<1>2. IInv /\ [Next]_vars =>
          [\A r \in Record : quiet /\ stored[r] # None /\ stored'[r] = None => r \notin Listed]_vars
  BY <1>1
<1> QED
  BY <1>2, InvariantHolds, PTL DEF Spec, QuietRemoval

-----------------------------------------------------------------------------
(* Runs over several sources.                                               *)

Ended == {"FAILED"} \cup Succeeded
JobSteps == {"begin", "resolve", "visit", "finish", "record", "close"}
Working == work.step \in JobSteps
StillListed(s) == \E i \in DOMAIN work.todo : work.todo[i] = s

(* A job under way is the latest run of the history, which is open; its     *)
(* list of sources is empty when it is about to be closed.                  *)
JobShape == Working =>
    /\ history # <<>>
    /\ history[This].status = "RUNNING" /\ history[This].kind = work.kind
    /\ work.todo = <<>> <=> work.step = "close"
    /\ work.step \in {"visit", "finish", "record"} => work.outcome \in Ended

(* Sources that a job has done with have their outcome.                     *)
DoneRecorded == Working =>
    \A s \in DOMAIN history[This].rows : StillListed(s) \/ history[This].rows[s] \in Ended

(* While the parents are not read no source of the run is done.             *)
BillsFirst == Working => \A i \in DOMAIN work.todo : work.todo[i] = "bills" =>
    i = 1 /\ \A s \in DOMAIN history[This].rows : StillListed(s)

(* No watermark is ahead of the clock, and neither is the start of a sync.  *)
MarksPast ==
    /\ \A s \in Source : marks[s] <= tick
    /\ Working => work.marker <= tick

Fits(c) == \A b \in Stored : asked[c][b] = saved[b]

(* A sync of a child source that has not failed so far has only the         *)
(* variants it has yet to visit out of step.                                *)
Covering ==
    /\ work.step \in {"visit", "finish", "record"}
    /\ Syncs /\ Current \in Child /\ work.outcome \in Succeeded
    => \A b \in Stored : asked[Current][b] = saved[b] \/ (work.step = "visit" /\ b \in work.variants)

(* A child source that this run has done with success is in step.           *)
DoneCovers == Working /\ Syncs => \A c \in Child \cap DOMAIN history[This].rows :
    ~StillListed(c) /\ history[This].rows[c] \in Succeeded => Fits(c)

(* SuccessCovers, whatever the process does since.                          *)
LastSuccessCovers ==
    /\ history # <<>>
    /\ history[This].kind # "run"
    /\ history[This].status = "SUCCESS"
    => \A c \in Child \cap DOMAIN history[This].rows : Fits(c)

RunsIInv ==
    /\ RunsInv /\ JobShape /\ DoneRecorded /\ BillsFirst /\ MarksPast
    /\ ChildrenCaughtUp /\ Covering /\ DoneCovers /\ LastSuccessCovers

-----------------------------------------------------------------------------
(* What a job under way is made of.                                         *)
LEMMA JobFields ==
    ASSUME RunsTypeOK, Working
    PROVE  /\ work.kind \in Kinds /\ work.automatic \in BOOLEAN /\ work.todo \in Seq(Source)
           /\ work.marker \in 0 .. LastTick /\ work.variants \subseteq Bill
           /\ work.outcome \in Outcome /\ work # NoWork
BY DEF RunsTypeOK, Working, JobSteps, Work, NoWork, Refused

(* A job that goes on keeps its kind and takes what it is given.            *)
LEMMA GoesFields ==
    ASSUME RunsTypeOK, Working,
           NEW step \in JobSteps \cup {"verify"}, NEW todo \in Seq(Source),
           NEW marker \in 0 .. LastTick, NEW variants \in SUBSET Bill, NEW outcome \in Outcome,
           Goes(step, todo, marker, variants, outcome)
    PROVE  /\ work' \in Work /\ work' # NoWork
           /\ work'.step = step /\ work'.kind = work.kind /\ work'.todo = todo
           /\ work'.marker = marker /\ work'.variants = variants /\ work'.outcome = outcome
<1>1. work.kind \in Kinds /\ work.automatic \in BOOLEAN
  BY JobFields
<1> QED
  BY <1>1 DEF Goes, Work, JobSteps, NoWork

(* The source at the head of a job.                                         *)
LEMMA HeadOfJob ==
    ASSUME RunsTypeOK, Working, work.todo # <<>>
    PROVE  /\ Current \in Source /\ Current = work.todo[1] /\ 1 \in DOMAIN work.todo
           /\ Len(work.todo) \in Nat \ {0} /\ Tail(work.todo) \in Seq(Source)
           /\ Len(work.todo) = 1 <=> Tail(work.todo) = <<>>
           /\ DOMAIN Tail(work.todo) = 1 .. Len(work.todo) - 1
           /\ \A i \in 1 .. Len(work.todo) - 1 : Tail(work.todo)[i] = work.todo[i + 1]
<1>1. work.todo \in Seq(Source)
  BY JobFields
<1>2. Len(work.todo) \in Nat \ {0} /\ DOMAIN work.todo = 1 .. Len(work.todo)
  BY <1>1
<1>3. /\ Tail(work.todo) \in Seq(Source) /\ Len(Tail(work.todo)) = Len(work.todo) - 1
      /\ \A i \in 1 .. Len(work.todo) - 1 : Tail(work.todo)[i] = work.todo[i + 1]
  BY <1>1
<1>4. Current = work.todo[1] /\ work.todo[1] \in Source
  BY <1>1, <1>2 DEF Current
<1>5. DOMAIN Tail(work.todo) = 1 .. Len(work.todo) - 1
  BY <1>3
<1>6. Tail(work.todo) = <<>> <=> Len(Tail(work.todo)) = 0
  <2> DEFINE t == Tail(work.todo)
  <2>1. t \in Seq(Source)
    BY <1>3
  <2> HIDE DEF t
  <2>2. t = <<>> <=> Len(t) = 0
    BY <2>1, EmptySeq
  <2> QED BY <2>2 DEF t
<1> QED
  BY <1>2, <1>3, <1>4, <1>5, <1>6

(* The latest run, in a history that has one.                               *)
LEMMA ThisRun ==
    ASSUME RunsTypeOK, history # <<>>
    PROVE  /\ This \in DOMAIN history /\ This \in Nat
           /\ \A r \in DOMAIN history : history[r] \in Runs
           /\ history[This].rows \in [DOMAIN history[This].rows -> Outcome]
           /\ DOMAIN history[This].rows \subseteq Source
<1>1. history \in Seq(Runs)
  BY DEF RunsTypeOK
<1>2. This \in DOMAIN history /\ This \in Nat /\ \A r \in DOMAIN history : history[r] \in Runs
  BY <1>1 DEF This
<1>3. history[This].rows \in UNION {[S -> Outcome] : S \in SUBSET Source}
  BY <1>2 DEF Runs
<1> QED
  BY <1>2, <1>3

(* A change to the latest run leaves the others as they were.               *)
LEMMA LatestChanged ==
    ASSUME RunsTypeOK, history # <<>>, NEW run \in Runs,
           history' = [history EXCEPT ![This] = run]
    PROVE  /\ history' \in Seq(Runs) /\ history' # <<>> /\ This' = This
           /\ DOMAIN history' = DOMAIN history /\ history'[This] = run
           /\ \A r \in DOMAIN history \ {This} : history'[r] = history[r]
<1>1. history \in Seq(Runs) /\ This \in DOMAIN history /\ This \in Nat
  BY ThisRun DEF RunsTypeOK
<1>2. DOMAIN history = 1 .. Len(history) /\ Len(history) \in Nat /\ Len(history) # 0
  BY <1>1 DEF This
<1>3. history' \in Seq(Runs) /\ Len(history') = Len(history)
  BY <1>1, <1>2 DEF This
<1> QED
  BY <1>1, <1>2, <1>3 DEF This

LEMMA RowChanged ==
    ASSUME RunsTypeOK, history # <<>>, NEW outcome \in Outcome, Row(outcome)
    PROVE  /\ history' \in Seq(Runs) /\ history' # <<>> /\ This' = This
           /\ DOMAIN history' = DOMAIN history
           /\ \A r \in DOMAIN history \ {This} : history'[r] = history[r]
           /\ history'[This].status = history[This].status
           /\ history'[This].kind = history[This].kind
           /\ DOMAIN history'[This].rows = DOMAIN history[This].rows
           /\ \A s \in DOMAIN history[This].rows :
                history'[This].rows[s] = IF s = Current THEN outcome ELSE history[This].rows[s]
<1> DEFINE rows == [history[This].rows EXCEPT ![Current] = outcome]
           run == [history[This] EXCEPT !.rows = rows]
<1>1. history' = [history EXCEPT ![This] = run]
  BY DEF Row
<1>2. /\ DOMAIN rows = DOMAIN history[This].rows
      /\ \A s \in DOMAIN history[This].rows :
           rows[s] = IF s = Current THEN outcome ELSE history[This].rows[s]
  OBVIOUS
<1>3. rows \in [DOMAIN history[This].rows -> Outcome]
  BY ThisRun
<1>4. rows \in UNION {[S -> Outcome] : S \in SUBSET Source}
  BY <1>3, ThisRun
<1>5. history[This] \in Runs
  BY ThisRun
<1>6. /\ run \in Runs /\ run.rows = rows /\ run.status = history[This].status
      /\ run.kind = history[This].kind
  <2> HIDE DEF rows
  <2> QED BY <1>4, <1>5 DEF Runs
<1> HIDE DEF rows, run
<1> QED
  BY <1>1, <1>2, <1>6, LatestChanged

LEMMA StatusChanged ==
    ASSUME RunsTypeOK, history # <<>>, NEW status \in {"RUNNING", "SUCCESS", "PARTIAL", "FAILED"},
           history' = [history EXCEPT ![This].status = status]
    PROVE  /\ history' \in Seq(Runs) /\ history' # <<>> /\ This' = This
           /\ DOMAIN history' = DOMAIN history
           /\ \A r \in DOMAIN history \ {This} : history'[r] = history[r]
           /\ history'[This].status = status
           /\ history'[This].kind = history[This].kind
           /\ history'[This].rows = history[This].rows
<1> DEFINE run == [history[This] EXCEPT !.status = status]
<1>1. history' = [history EXCEPT ![This] = run]
  OBVIOUS
<1>2. history[This] \in Runs
  BY ThisRun
<1>3. /\ run \in Runs /\ run.status = status /\ run.rows = history[This].rows
      /\ run.kind = history[This].kind
  BY <1>2 DEF Runs
<1> HIDE DEF run
<1> QED
  BY <1>1, <1>3, LatestChanged

(* The status and the rows of a run that is not the latest do not change.   *)
LEMMA AgreesAfter ==
    ASSUME HistoryAgrees, DOMAIN history' = DOMAIN history,
           \A r \in DOMAIN history \ {This} : history'[r] = history[r],
           LET shown == {history'[This].rows[s] : s \in DOMAIN history'[This].rows} IN
             /\ history'[This].status = "SUCCESS" => shown \subseteq Succeeded
             /\ history'[This].status = "PARTIAL" =>
                  "FAILED" \in shown /\ shown \cap Succeeded # {}
                  /\ shown \subseteq Succeeded \cup {"FAILED"}
    PROVE  HistoryAgrees'
<1> SUFFICES ASSUME NEW r \in DOMAIN history
             PROVE  LET shown == {history'[r].rows[s] : s \in DOMAIN history'[r].rows} IN
               /\ history'[r].status = "SUCCESS" => shown \subseteq Succeeded
               /\ history'[r].status = "PARTIAL" =>
                    "FAILED" \in shown /\ shown \cap Succeeded # {}
                    /\ shown \subseteq Succeeded \cup {"FAILED"}
  BY DEF HistoryAgrees
<1>1. CASE r = This
  BY <1>1
<1>2. CASE r # This
  <2>1. history'[r] = history[r]
    BY <1>2
  <2> QED BY <2>1 DEF HistoryAgrees
<1> QED BY <1>1, <1>2

-----------------------------------------------------------------------------
(* Nothing but the clock, the API and idle work.                            *)

LEMMA RunsInitHolds == ASSUME RunsAssumption PROVE RunsInit => RunsIInv
<1> SUFFICES ASSUME RunsInit PROVE RunsIInv
  OBVIOUS
<1> USE DEF RunsInit
<1>1. RunsTypeOK
  <2>1. history \in Seq(Runs) /\ complete \subseteq Source \X Bill /\ guard \in BOOLEAN /\ work \in Work
    BY EmptySeq DEF Work
  <2>2. marks \in [Source -> {NoRow, NullMark} \cup 0 .. LastTick]
    OBVIOUS
  <2>3. /\ tick \in 0 .. LastTick /\ errors \in 0 .. MaxErrors
        /\ 0 \in 0 .. MaxVersion /\ 0 \in 0 .. LastTick
    BY DEF RunsAssumption
  <2> QED BY <2>1, <2>2, <2>3 DEF RunsTypeOK
<1>2. ~Working
  BY DEF Working, JobSteps, NoWork
<1>3. HistoryAgrees /\ ConflictMeansRunning
  BY DEF HistoryAgrees, ConflictMeansRunning
<1>4. MarksPast
  BY <1>2 DEF MarksPast, NoRow
<1>5. ChildrenCaughtUp
  BY DEF ChildrenCaughtUp, Source, NoRow
<1>6. Covering
  BY DEF Covering, NoWork
<1> QED
  BY <1>1, <1>2, <1>3, <1>4, <1>5, <1>6
     DEF RunsIInv, RunsInv, JobShape, DoneRecorded, BillsFirst, DoneCovers, LastSuccessCovers

(* Work that is not a job leaves nothing to show about one.                 *)
LEMMA Stops ==
    ASSUME RunsIInv, work' \in {NoWork, Refused}, guard' \in BOOLEAN,
           guard' <=> work' # NoWork, UNCHANGED <<tick, dataVars, marks, history>>,
           errors' \in 0 .. MaxErrors
    PROVE  RunsIInv'
<1> USE DEF RunsIInv, RunsInv, dataVars
<1>1. RunsTypeOK'
  BY DEF RunsTypeOK, Work
<1>2. work'.step \notin JobSteps
  BY DEF JobSteps, NoWork, Refused
<1>3. (HistoryAgrees /\ ConflictMeansRunning)'
  BY DEF HistoryAgrees, ConflictMeansRunning
<1>4. (JobShape /\ DoneRecorded /\ BillsFirst /\ DoneCovers /\ Covering)'
  BY <1>2 DEF JobShape, DoneRecorded, BillsFirst, DoneCovers, Covering, Working, JobSteps
<1>5. MarksPast'
  BY <1>2 DEF MarksPast, Working
<1>6. ChildrenCaughtUp'
  BY DEF ChildrenCaughtUp
<1>7. LastSuccessCovers'
  BY DEF LastSuccessCovers, Fits, Stored, This
<1> QED BY <1>1, <1>3, <1>4, <1>5, <1>6, <1>7

(* The API and the clock move under a job.                                  *)
LEMMA WorldMoves ==
    ASSUME RunsIInv, RunsAssumption, Ticks \/ \E b \in Bill : BillChanges(b)
    PROVE  RunsIInv'
<1> USE DEF RunsIInv, RunsInv, dataVars
<1>1. UNCHANGED <<saved, changedAt, asked, complete, marks, history, guard, work, errors>>
  BY DEF Ticks, BillChanges
<1>2. tick \in Nat /\ tick' \in Nat /\ tick <= tick' /\ tick' <= LastTick
  BY DEF Ticks, BillChanges, RunsTypeOK, RunsAssumption
<1>3. listed' \in [Bill -> 0 .. MaxVersion]
  <2>1. CASE Ticks
    BY <2>1 DEF Ticks, RunsTypeOK
  <2>2. ASSUME NEW b \in Bill, BillChanges(b) PROVE listed' \in [Bill -> 0 .. MaxVersion]
    <3>1. listed[b] \in 0 .. MaxVersion /\ listed[b] + 1 \in 0 .. MaxVersion
      BY <2>2 DEF BillChanges, RunsTypeOK, RunsAssumption
    <3> QED BY <2>2, <3>1 DEF BillChanges, RunsTypeOK
  <2> QED BY <2>1, <2>2
<1>4. RunsTypeOK'
  BY <1>1, <1>2, <1>3 DEF RunsTypeOK, RunsAssumption
<1>5. (HistoryAgrees /\ ConflictMeansRunning)'
  BY <1>1 DEF HistoryAgrees, ConflictMeansRunning
<1>6. (JobShape /\ DoneRecorded /\ BillsFirst)'
  BY <1>1 DEF JobShape, DoneRecorded, BillsFirst, Working, This, StillListed
<1>7. (DoneCovers /\ Covering /\ LastSuccessCovers)'
  BY <1>1 DEF DoneCovers, Covering, LastSuccessCovers, Working, This, StillListed, Fits, Stored,
              Syncs, Current
<1>8. MarksPast'
  <2>0. marks \in [Source -> {NoRow, NullMark} \cup 0 .. LastTick]
    BY DEF RunsTypeOK
  <2>1. \A s \in Source : marks[s] \in Int
    BY <2>0 DEF NoRow, NullMark
  <2>2. Working => work.marker \in Int
    BY JobFields, RunsAssumption DEF RunsAssumption
  <2> QED BY <1>1, <1>2, <2>1, <2>2 DEF MarksPast, Working
<1>9. ChildrenCaughtUp'
  BY <1>1 DEF ChildrenCaughtUp
<1> QED BY <1>4, <1>5, <1>6, <1>7, <1>8, <1>9

-----------------------------------------------------------------------------
(* Starting a job.                                                          *)

LEMMA LaunchHolds ==
    ASSUME RunsIInv, RunsAssumption, NEW kind \in Kinds, NEW automatic \in BOOLEAN,
           NEW S \in (SUBSET Source) \ {{}}, LaunchRun(kind, automatic, S)
    PROVE  RunsIInv'
<1> USE DEF RunsIInv, RunsInv, dataVars
<1> DEFINE run == [kind |-> kind, status |-> "RUNNING", rows |-> [s \in S |-> "SCHEDULED"]]
<1>1. history \in Seq(Runs) /\ run \in Runs
  <2>1. [s \in S |-> "SCHEDULED"] \in [S -> Outcome]
    BY DEF Outcome
  <2>2. [s \in S |-> "SCHEDULED"] \in UNION {[R -> Outcome] : R \in SUBSET Source}
    BY <2>1
  <2> QED BY <2>2 DEF RunsTypeOK, Runs
<1>2. history' = Append(history, run)
  BY DEF LaunchRun
<1>3. /\ history' \in Seq(Runs) /\ history' # <<>> /\ This' = This + 1 /\ This \in Nat
      /\ history'[This'] = run /\ DOMAIN history' = 1 .. This + 1
      /\ DOMAIN history = 1 .. This
      /\ \A r \in 1 .. This : history'[r] = history[r]
  <2> HIDE DEF run
  <2> QED BY <1>1, <1>2 DEF This
<1>4. PICK order \in Orders(S) :
         /\ ParentsFirst(order)
         /\ work' = [step |-> "begin", kind |-> kind, automatic |-> automatic, todo |-> order,
                     marker |-> 0, variants |-> {}, outcome |-> "RUNNING"]
  BY DEF LaunchRun
<1>5. order \in Seq(Source) /\ order # <<>> /\ \A s \in S : \E i \in DOMAIN order : order[i] = s
  <2>1. IsFiniteSet(Source)
    BY FS_Singleton, FS_Union DEF Source, RunsAssumption
  <2>2. Cardinality(S) \in Nat
    BY <2>1, FS_Subset, FS_CardinalityType
  <2>3. order \in [1 .. Cardinality(S) -> S] /\ {order[i] : i \in DOMAIN order} = S
    BY DEF Orders
  <2>4. order \in Seq(S)
    BY <2>2, <2>3
  <2>5. \A s \in S : \E i \in DOMAIN order : order[i] = s
    BY <2>3
  <2>6. order # <<>>
    BY <2>5
  <2> QED BY <2>3, <2>4, <2>5, <2>6
<1>6. work' \in Work /\ work' # NoWork
  BY <1>4, <1>5 DEF Work, Outcome, RunsAssumption, NoWork
<1>7. RunsTypeOK'
  BY <1>3, <1>6 DEF RunsTypeOK, LaunchRun
<1>8. Working' /\ work'.kind = kind /\ work'.todo = order /\ work'.marker = 0 /\ work'.step = "begin"
  BY <1>4 DEF Working, JobSteps
<1>9. HistoryAgrees'
  <2>1. \A r \in DOMAIN history' : r = This' \/ (r \in DOMAIN history /\ history'[r] = history[r])
    BY <1>3
  <2>2. history'[This'].status = "RUNNING"
    BY <1>3
  <2> HIDE DEF run
  <2> QED BY <2>1, <2>2 DEF HistoryAgrees
<1>10. ConflictMeansRunning'
  BY <1>6 DEF ConflictMeansRunning, LaunchRun
<1>11. history'[This'].status = "RUNNING" /\ history'[This'].kind = kind
       /\ history'[This'].rows = [s \in S |-> "SCHEDULED"]
  BY <1>3
<1> HIDE DEF run
<1>12. JobShape'
  BY <1>3, <1>5, <1>8, <1>11 DEF JobShape
<1>13. \A s \in S : StillListed(s)'
  BY <1>5, <1>8 DEF StillListed
<1>14. (DoneRecorded /\ DoneCovers)'
  BY <1>11, <1>13 DEF DoneRecorded, DoneCovers
<1>15. BillsFirst'
  BY <1>4, <1>8, <1>11, <1>13 DEF BillsFirst, ParentsFirst
<1>16. UNCHANGED <<tick, listed, saved, changedAt, asked, complete, marks>>
  BY DEF LaunchRun
<1>17. MarksPast'
  BY <1>8, <1>16 DEF MarksPast, RunsTypeOK
<1>18. ChildrenCaughtUp'
  BY <1>16 DEF ChildrenCaughtUp
<1>19. (Covering /\ LastSuccessCovers)'
  BY <1>8, <1>11 DEF Covering, LastSuccessCovers
<1> QED BY <1>7, <1>9, <1>10, <1>12, <1>14, <1>15, <1>17, <1>18, <1>19

-----------------------------------------------------------------------------
(* Inside a source the history, the list of sources and the guard stay.     *)

LEMMA InSource ==
    ASSUME RunsIInv, Working, Working', work.step # "close", work'.step # "close",
           work' # NoWork, UNCHANGED <<history, guard>>,
           work'.kind = work.kind, work'.todo = work.todo,
           work'.step \in {"visit", "finish", "record"} => work'.outcome \in Ended
    PROVE  (HistoryAgrees /\ ConflictMeansRunning /\ JobShape /\ DoneRecorded /\ BillsFirst
            /\ LastSuccessCovers)'
<1> USE DEF RunsIInv, RunsInv
<1>1. (HistoryAgrees /\ ConflictMeansRunning)'
  BY JobFields DEF HistoryAgrees, ConflictMeansRunning
<1>2. JobShape'
  BY DEF JobShape, This
<1>3. (DoneRecorded /\ BillsFirst)'
  BY DEF DoneRecorded, BillsFirst, StillListed, This
<1>4. LastSuccessCovers'
  BY <1>2 DEF JobShape, LastSuccessCovers
<1> QED BY <1>1, <1>2, <1>3, <1>4

(* What was in step stays so as long as nothing is saved or asked.          *)
LEMMA StillCovered ==
    ASSUME RunsIInv, Working, Working', UNCHANGED <<history, saved, asked>>,
           work'.kind = work.kind, work'.todo = work.todo
    PROVE  DoneCovers'
BY DEF RunsIInv, DoneCovers, StillListed, This, Syncs, Fits, Stored

LEMMA SourceAtHead ==
    ASSUME RunsIInv, Working, work.step # "close"
    PROVE  /\ work.todo # <<>> /\ Current \in Source /\ Current = work.todo[1]
           /\ 1 \in DOMAIN work.todo /\ StillListed(Current)
<1>1. work.todo # <<>>
  BY DEF RunsIInv, JobShape
<1> QED BY <1>1, HeadOfJob DEF RunsIInv, RunsInv, StillListed

(* The row of the source a job is at is changed.                            *)
LEMMA BeginHolds == ASSUME RunsIInv, RunsAssumption, Begin PROVE RunsIInv'
<1> USE DEF RunsIInv, RunsInv, dataVars
<1>1. Working /\ work.step = "begin"
  BY DEF Begin, Step, Working, JobSteps
<1>2. work.todo \in Seq(Source) /\ work.marker \in 0 .. LastTick /\ work.variants \in SUBSET Bill
      /\ "RUNNING" \in Outcome
  BY <1>1, JobFields DEF Outcome
<1>3. /\ work' \in Work /\ work' # NoWork /\ work'.step = "resolve" /\ work'.kind = work.kind
      /\ work'.todo = work.todo /\ work'.marker = work.marker
  BY <1>1, <1>2, GoesFields DEF Begin, JobSteps
<1>4. Working'
  BY <1>3 DEF Working, JobSteps
<1>5. history # <<>>
  BY <1>1 DEF JobShape
<1>6. /\ history' \in Seq(Runs) /\ history' # <<>> /\ This' = This
      /\ DOMAIN history' = DOMAIN history
      /\ \A r \in DOMAIN history \ {This} : history'[r] = history[r]
      /\ history'[This].status = history[This].status
      /\ history'[This].kind = history[This].kind
      /\ DOMAIN history'[This].rows = DOMAIN history[This].rows
      /\ \A s \in DOMAIN history[This].rows :
           history'[This].rows[s] = IF s = Current THEN "RUNNING" ELSE history[This].rows[s]
  BY <1>2, <1>5, RowChanged DEF Begin
<1>7. UNCHANGED <<tick, listed, saved, changedAt, asked, complete, marks, guard, errors>>
  BY DEF Begin
<1>8. RunsTypeOK'
  BY <1>3, <1>6, <1>7 DEF RunsTypeOK
<1>9. StillListed(Current) /\ \A s : StillListed(s)' <=> StillListed(s)
  BY <1>1, <1>3, SourceAtHead DEF StillListed
<1>10. history[This].status = "RUNNING"
  BY <1>1 DEF JobShape
<1>11. HistoryAgrees'
  BY <1>6, <1>10, AgreesAfter
<1>12. ConflictMeansRunning'
  BY <1>1, <1>3, <1>7, JobFields DEF ConflictMeansRunning
<1>13. JobShape'
  BY <1>1, <1>3, <1>6 DEF JobShape
<1>14. (DoneRecorded /\ BillsFirst)'
  <2>1. DoneRecorded'
    BY <1>1, <1>6, <1>9 DEF DoneRecorded
  <2>2. BillsFirst'
    BY <1>1, <1>3, <1>6, <1>9 DEF BillsFirst
  <2> QED BY <2>1, <2>2
<1>15. DoneCovers'
  BY <1>1, <1>3, <1>6, <1>7, <1>9 DEF DoneCovers, Fits, Stored, Syncs
<1>16. (MarksPast /\ ChildrenCaughtUp)'
  BY <1>1, <1>3, <1>7 DEF MarksPast, ChildrenCaughtUp
<1>17. (Covering /\ LastSuccessCovers)'
  BY <1>3, <1>6, <1>10 DEF Covering, LastSuccessCovers
<1> QED BY <1>8, <1>11, <1>12, <1>13, <1>14, <1>15, <1>16, <1>17

(* The watermark of a source that is asked for changes can be read.         *)
LEMMA MarksTyped ==
    ASSUME RunsTypeOK
    PROVE  /\ \A s \in Source : marks[s] \in Int /\ (marks[s] = NoRow \/ marks[s] = NullMark \/ marks[s] >= 0)
           /\ \A b \in Bill : changedAt[b] \in Int
<1>1. /\ marks \in [Source -> {NoRow, NullMark} \cup 0 .. LastTick]
      /\ changedAt \in [Bill -> 0 .. LastTick]
  BY DEF RunsTypeOK
<1>2. \A s \in Source : marks[s] \in Int /\ (marks[s] = NoRow \/ marks[s] = NullMark \/ marks[s] >= 0)
  BY <1>1 DEF NoRow, NullMark
<1>3. \A b \in Bill : changedAt[b] \in Int
  BY <1>1
<1> QED BY <1>2, <1>3

(* What a sync of a child source does not ask about is in step already.     *)
LEMMA UnchangedFits ==
    ASSUME RunsIInv, Current \in Child, Syncs, ~CannotResolve
    PROVE  \A b \in Stored : asked[Current][b] = saved[b] \/ b \in ToVisit
<1> USE DEF RunsIInv, RunsInv
<1> SUFFICES ASSUME NEW b \in Stored, b \notin ToVisit PROVE asked[Current][b] = saved[b]
  OBVIOUS
<1>1. work.kind # "run" /\ b \in Bill /\ saved[b] > 0 /\ Current \in Source
  BY DEF Syncs, Stored, Source
<1>2. Current # "bills" => ~FullRefresh /\ b \notin Changed(Current, marks[Current])
  BY <1>1 DEF ToVisit
<1>3. CASE Current # "bills"
  <2>1. marks[Current] # NoRow /\ marks[Current] # NullMark
    BY <1>2, <1>3 DEF FullRefresh, CannotResolve
  <2>2. marks[Current] \in Int /\ marks[Current] >= 0 /\ changedAt[b] \in Int
    BY <1>1, <2>1, MarksTyped
  <2>3. changedAt[b] < marks[Current]
    BY <1>2, <1>3, <2>2 DEF Changed
  <2> QED BY <1>1, <2>2, <2>3 DEF ChildrenCaughtUp
<1>4. CASE Current = "bills"
  <2>1. b \in ToVisit
    BY <1>1, <1>4 DEF ToVisit
  <2> QED BY <2>1
<1> QED BY <1>3, <1>4

LEMMA StartsRowKeeps ==
    ASSUME RunsIInv, RunsAssumption, UNCHANGED <<tick, changedAt, saved, asked>>,
           NEW s \in Source,
           marks' = marks \/ StartsRow \/ marks' = [marks EXCEPT ![s] = NullMark]
    PROVE  /\ marks' \in [Source -> {NoRow, NullMark} \cup 0 .. LastTick]
           /\ \A q \in Source : marks'[q] <= tick'
           /\ ChildrenCaughtUp'
<1> USE DEF RunsIInv, RunsInv
<1>1. marks \in [Source -> {NoRow, NullMark} \cup 0 .. LastTick] /\ tick \in 0 .. LastTick
  BY DEF RunsTypeOK
<1>2. marks' \in [Source -> {NoRow, NullMark} \cup 0 .. LastTick]
  BY <1>1 DEF StartsRow
<1>3. \A q \in Source : marks'[q] = marks[q] \/ marks'[q] = NullMark
  BY <1>1 DEF StartsRow
<1>4. \A q \in Source : marks'[q] <= tick'
  BY <1>1, <1>3 DEF MarksPast, NullMark
<1>5. ChildrenCaughtUp'
  <2>1. \A c \in Child : c \in Source
    BY DEF Source
  <2>2. ~(NullMark >= 0)
    BY DEF NullMark
  <2>3. \A c \in Child : marks'[c] >= 0 => marks'[c] = marks[c]
    BY <1>3, <2>1, <2>2
  <2> QED BY <2>3 DEF ChildrenCaughtUp
<1> QED BY <1>2, <1>4, <1>5

LEMMA ResolveHolds == ASSUME RunsIInv, RunsAssumption, Resolve PROVE RunsIInv'
<1> USE DEF RunsIInv, RunsInv, dataVars
<1>1. Working /\ work.step = "resolve"
  BY DEF Resolve, Step, Working, JobSteps
<1>2. /\ work.todo \in Seq(Source) /\ work.marker \in 0 .. LastTick
      /\ work.variants \in SUBSET Bill /\ work.kind \in Kinds /\ tick \in 0 .. LastTick
      /\ {"FAILED", "SUCCESS", "SKIPPED_NO_PARENT_CHANGES"} \subseteq Outcome
  BY <1>1, JobFields DEF Outcome, Succeeded, RunsTypeOK
<1>3. ToVisit \in SUBSET Bill
  BY DEF ToVisit, Stored, Changed
<1>4. Current \in Source
  BY <1>1, SourceAtHead
<1>5. /\ work' \in Work /\ work' # NoWork /\ work'.kind = work.kind
      /\ work'.todo = work.todo
      /\ work'.step \in {"visit", "finish", "record"} /\ work'.outcome \in Ended
      /\ work'.marker <= tick
      /\ work'.outcome \in Succeeded => /\ ~CannotResolve
                                        /\ ToVisit = {} \/ work'.step = "visit"
                                        /\ work'.variants = ToVisit
  <2>1. CASE CannotResolve
    <3>1. Goes("record", work.todo, work.marker, work.variants, "FAILED")
      BY <2>1 DEF Resolve
    <3>2. "FAILED" \in Ended \ Succeeded
      BY DEF Ended, Succeeded
    <3> QED BY <1>1, <1>2, <3>1, <3>2, GoesFields DEF JobSteps, MarksPast
  <2>2. CASE ~CannotResolve
    <3> DEFINE step == IF ToVisit = {} THEN "finish" ELSE "visit"
               outcome == IF ToVisit = {} /\ Current # "bills" /\ Syncs
                          THEN "SKIPPED_NO_PARENT_CHANGES" ELSE "SUCCESS"
    <3>1. Goes(step, work.todo, tick, ToVisit, outcome)
      BY <2>2 DEF Resolve
    <3>2. /\ step \in JobSteps /\ step \in {"visit", "finish"} /\ outcome \in Outcome
          /\ outcome \in Ended /\ (ToVisit = {} \/ step = "visit")
      BY <1>2 DEF Ended, Succeeded, JobSteps
    <3> HIDE DEF step, outcome
    <3>3. /\ work' \in Work /\ work' # NoWork
          /\ work'.step = step /\ work'.kind = work.kind /\ work'.todo = work.todo
          /\ work'.marker = tick /\ work'.variants = ToVisit /\ work'.outcome = outcome
      BY <1>1, <1>2, <1>3, <3>1, <3>2, GoesFields
    <3> QED BY <1>2, <2>2, <3>2, <3>3
  <2> QED BY <2>1, <2>2
<1>6. Working' /\ work.step # "close" /\ work'.step # "close"
  BY <1>1, <1>5 DEF Working, JobSteps
<1>7. UNCHANGED <<tick, listed, saved, changedAt, asked, history, guard, errors>> /\ StartsRow
  BY DEF Resolve
<1>8. complete' \subseteq Source \X Bill
  BY DEF Resolve, RunsTypeOK
<1>9. /\ marks' \in [Source -> {NoRow, NullMark} \cup 0 .. LastTick]
      /\ \A q \in Source : marks'[q] <= tick'
      /\ ChildrenCaughtUp'
  BY <1>4, <1>7, StartsRowKeeps
<1>10. RunsTypeOK'
  BY <1>5, <1>7, <1>8, <1>9 DEF RunsTypeOK
<1>11. MarksPast'
  BY <1>5, <1>7, <1>9 DEF MarksPast
<1>12. (HistoryAgrees /\ ConflictMeansRunning /\ JobShape /\ DoneRecorded /\ BillsFirst
        /\ LastSuccessCovers)'
  BY <1>1, <1>5, <1>6, <1>7, InSource
<1>13. DoneCovers'
  BY <1>1, <1>5, <1>6, <1>7, StillCovered
<1>14. Covering'
  <2>1. Current' = Current /\ (Syncs' <=> Syncs) /\ Stored' = Stored
    BY <1>5, <1>7 DEF Current, Syncs, Stored
  <2> SUFFICES ASSUME Syncs, Current \in Child, work'.outcome \in Succeeded, NEW b \in Stored
               PROVE  asked[Current][b] = saved[b] \/ (work'.step = "visit" /\ b \in work'.variants)
    BY <1>7, <2>1 DEF Covering
  <2>2. ~CannotResolve /\ work'.variants = ToVisit /\ (ToVisit = {} \/ work'.step = "visit")
    BY <1>5
  <2> QED BY <2>2, UnchangedFits
<1> QED BY <1>9, <1>10, <1>11, <1>12, <1>13, <1>14

(* The visits of a source: what is left is visited still, or it is finished. *)
LEMMA VisitsFields ==
    ASSUME RunsTypeOK, Working, NEW left \in SUBSET Bill, NEW outcome \in Ended,
           VisitsOn(left, outcome)
    PROVE  /\ work' \in Work /\ work' # NoWork /\ work'.kind = work.kind
           /\ work'.todo = work.todo /\ work'.marker = work.marker
           /\ work'.step \in {"visit", "finish"} /\ work'.outcome = outcome
           /\ \A b \in left : work'.step = "visit" /\ b \in work'.variants
<1> DEFINE step == IF left = {} THEN "finish" ELSE "visit"
<1>1. /\ step \in JobSteps /\ step \in {"visit", "finish"} /\ outcome \in Outcome
      /\ \A b \in left : step = "visit"
  BY DEF JobSteps, Ended, Outcome
<1>2. Goes(step, work.todo, work.marker, left, outcome)
  BY DEF VisitsOn
<1> HIDE DEF step
<1>3. /\ work' \in Work /\ work' # NoWork
      /\ work'.step = step /\ work'.kind = work.kind /\ work'.todo = work.todo
      /\ work'.marker = work.marker /\ work'.variants = left /\ work'.outcome = outcome
  BY <1>1, <1>2, JobFields, GoesFields
<1> QED BY <1>1, <1>3

LEMMA VisitContext ==
    ASSUME RunsIInv, work.step = "visit"
    PROVE  /\ Working /\ work.step # "close" /\ work.outcome \in Ended
           /\ Current \in Source /\ work.variants \subseteq Bill
           /\ \A b \in Bill : Left(b) \subseteq Bill /\ Left(b) = work.variants \ {b}
<1>1. Working /\ work.step # "close"
  BY DEF Working, JobSteps
<1>2. work.outcome \in Ended
  BY <1>1 DEF RunsIInv, JobShape
<1> QED BY <1>1, <1>2, SourceAtHead, JobFields DEF Left, RunsIInv, RunsInv

LEMMA SaveHolds ==
    ASSUME RunsIInv, RunsAssumption, NEW b \in Bill, SaveBill(b) PROVE RunsIInv'
<1> USE DEF RunsIInv, RunsInv, dataVars
<1>1. work.step = "visit" /\ Current = "bills"
  BY DEF SaveBill, Step
<1>2. /\ Working /\ work.step # "close" /\ work.outcome \in Ended /\ Current \in Source
      /\ Left(b) \in SUBSET Bill
  BY <1>1, VisitContext
<1>3. /\ work' \in Work /\ work' # NoWork /\ work'.kind = work.kind
      /\ work'.todo = work.todo /\ work'.marker = work.marker
      /\ work'.step \in {"visit", "finish"} /\ work'.outcome = work.outcome
  BY <1>2, VisitsFields DEF SaveBill
<1>4. Working' /\ work'.step # "close"
  BY <1>3 DEF Working, JobSteps
<1>5. UNCHANGED <<tick, listed, asked, marks, history, guard, errors>>
  BY DEF SaveBill
<1>6. /\ saved \in [Bill -> 0 .. MaxVersion] /\ listed \in [Bill -> 0 .. MaxVersion]
      /\ changedAt \in [Bill -> 0 .. LastTick] /\ tick \in 0 .. LastTick
  BY DEF RunsTypeOK
<1>7. /\ saved' = [saved EXCEPT ![b] = listed[b]]
      /\ changedAt' = [changedAt EXCEPT ![b] = IF saved[b] = listed[b] THEN @ ELSE tick]
  BY DEF SaveBill
<1>8. /\ saved' \in [Bill -> 0 .. MaxVersion] /\ changedAt' \in [Bill -> 0 .. LastTick]
      /\ \A p \in Bill : \/ saved'[p] = saved[p] /\ changedAt'[p] = changedAt[p]
                         \/ changedAt'[p] = tick
  BY <1>6, <1>7
<1>9. complete' \subseteq Source \X Bill
  BY <1>2 DEF SaveBill, RunsTypeOK
<1>10. RunsTypeOK'
  BY <1>3, <1>5, <1>8, <1>9 DEF RunsTypeOK
<1>11. (HistoryAgrees /\ ConflictMeansRunning /\ JobShape /\ DoneRecorded /\ BillsFirst
        /\ LastSuccessCovers)'
  BY <1>2, <1>3, <1>4, <1>5, InSource
<1>12. MarksPast'
  BY <1>2, <1>3, <1>5 DEF MarksPast
<1>13. ChildrenCaughtUp'
  <2> SUFFICES ASSUME NEW c \in Child, NEW p \in Bill, marks[c] >= 0, saved'[p] > 0,
                      changedAt'[p] < marks[c]
               PROVE  asked[c][p] = saved'[p]
    BY <1>5 DEF ChildrenCaughtUp
  <2>0. c \in Source
    BY DEF Source
  <2>1. marks[c] <= tick /\ marks[c] \in Int /\ tick \in Int
    BY <1>6, <2>0, MarksTyped DEF MarksPast
  <2>2. changedAt'[p] # tick
    BY <2>1
  <2>3. saved'[p] = saved[p] /\ changedAt'[p] = changedAt[p]
    BY <1>8, <2>2
  <2> QED BY <2>3 DEF ChildrenCaughtUp
<1>14. Covering'
  BY <1>1, <1>3 DEF Covering, Current, RunsAssumption
<1>15. DoneCovers'
  <2>1. \A s \in DOMAIN history[This].rows : StillListed(s)
    <3>1. work.todo[1] = "bills" /\ 1 \in DOMAIN work.todo
      BY <1>1, <1>2, SourceAtHead
    <3> QED BY <1>2, <3>1 DEF BillsFirst
  <2> QED BY <1>3, <1>5, <2>1 DEF DoneCovers, StillListed, This
<1> QED BY <1>10, <1>11, <1>12, <1>13, <1>14, <1>15

LEMMA AskHolds ==
    ASSUME RunsIInv, RunsAssumption, NEW b \in Bill, AskChild(b) PROVE RunsIInv'
<1> USE DEF RunsIInv, RunsInv, dataVars
<1>1. work.step = "visit" /\ Current # "bills"
  BY DEF AskChild, Step
<1>2. /\ Working /\ work.step # "close" /\ work.outcome \in Ended /\ Current \in Child
      /\ Current \in Source /\ Left(b) \in SUBSET Bill /\ Left(b) = work.variants \ {b}
  BY <1>1, VisitContext DEF Source
<1>3. /\ work' \in Work /\ work' # NoWork /\ work'.kind = work.kind
      /\ work'.todo = work.todo /\ work'.marker = work.marker
      /\ work'.step \in {"visit", "finish"} /\ work'.outcome = work.outcome
      /\ \A p \in Left(b) : work'.step = "visit" /\ p \in work'.variants
  BY <1>2, VisitsFields DEF AskChild
<1>4. Working' /\ work'.step # "close"
  BY <1>3 DEF Working, JobSteps
<1>5. UNCHANGED <<tick, listed, saved, changedAt, marks, history, guard, errors>>
  BY DEF AskChild
<1>6. /\ saved \in [Bill -> 0 .. MaxVersion] /\ asked \in [Child -> [Bill -> 0 .. MaxVersion]]
      /\ asked' = [asked EXCEPT ![Current][b] = saved[b]]
  BY DEF RunsTypeOK, AskChild
<1>7. /\ asked' \in [Child -> [Bill -> 0 .. MaxVersion]] /\ asked'[Current][b] = saved[b]
      /\ \A c \in Child, p \in Bill : asked'[c][p] = asked[c][p] \/ (c = Current /\ p = b)
  BY <1>2, <1>6
<1>8. \A c \in Child, p \in Bill : asked[c][p] = saved[p] => asked'[c][p] = saved'[p]
  BY <1>5, <1>7
<1>9. complete' \subseteq Source \X Bill
  BY <1>2 DEF AskChild, RunsTypeOK
<1>10. RunsTypeOK'
  BY <1>3, <1>5, <1>7, <1>9 DEF RunsTypeOK
<1>11. (HistoryAgrees /\ ConflictMeansRunning /\ JobShape /\ DoneRecorded /\ BillsFirst
        /\ LastSuccessCovers)'
  BY <1>2, <1>3, <1>4, <1>5, InSource
<1>12. MarksPast'
  BY <1>2, <1>3, <1>5 DEF MarksPast
<1>13. ChildrenCaughtUp'
  BY <1>5, <1>8 DEF ChildrenCaughtUp
<1>14. Current' = Current /\ (Syncs' <=> Syncs) /\ Stored' = Stored /\ Stored \subseteq Bill
  BY <1>3, <1>5 DEF Current, Syncs, Stored
<1>15. Covering'
  <2> SUFFICES ASSUME Syncs, work.outcome \in Succeeded, NEW p \in Stored
               PROVE  asked'[Current][p] = saved[p] \/ (work'.step = "visit" /\ p \in work'.variants)
    BY <1>3, <1>5, <1>14 DEF Covering
  <2>1. asked[Current][p] = saved[p] \/ p \in work.variants
    BY <1>1, <1>2 DEF Covering
  <2>2. CASE p = b
    BY <1>7, <2>2
  <2>3. CASE p # b
    BY <1>2, <1>3, <1>5, <1>8, <1>14, <2>1, <2>3
  <2> QED BY <2>2, <2>3
<1>16. DoneCovers'
  <2>1. \A c \in Child : Fits(c) => Fits(c)'
    BY <1>8, <1>14 DEF Fits
  <2> QED BY <1>2, <1>3, <1>5, <1>14, <2>1 DEF DoneCovers, StillListed, This
<1> QED BY <1>10, <1>11, <1>12, <1>13, <1>15, <1>16

LEMMA VisitFailsHolds ==
    ASSUME RunsIInv, RunsAssumption, NEW b \in Bill, VisitFails(b) PROVE RunsIInv'
<1> USE DEF RunsIInv, RunsInv, dataVars
<1> DEFINE left == IF Syncs /\ Current # "bills" THEN Left(b) ELSE {}
<1>1. work.step = "visit" /\ VisitsOn(left, "FAILED")
  BY DEF VisitFails, Step
<1>2. Working /\ work.step # "close" /\ left \in SUBSET Bill
  BY <1>1, VisitContext
<1> HIDE DEF left
<1>3. "FAILED" \in Ended \ Succeeded
  BY DEF Ended, Succeeded
<1>4. /\ work' \in Work /\ work' # NoWork /\ work'.kind = work.kind
      /\ work'.todo = work.todo /\ work'.marker = work.marker
      /\ work'.step \in {"visit", "finish"} /\ work'.outcome = "FAILED"
  BY <1>1, <1>2, <1>3, VisitsFields
<1>5. Working' /\ work'.step # "close"
  BY <1>4 DEF Working, JobSteps
<1>6. UNCHANGED <<tick, listed, saved, changedAt, asked, complete, marks, history, guard>>
      /\ errors' \in 0 .. MaxErrors
  BY DEF VisitFails, RunsTypeOK, RunsAssumption
<1>7. RunsTypeOK'
  BY <1>4, <1>6 DEF RunsTypeOK
<1>8. (HistoryAgrees /\ ConflictMeansRunning /\ JobShape /\ DoneRecorded /\ BillsFirst
       /\ LastSuccessCovers)'
  BY <1>2, <1>3, <1>4, <1>5, <1>6, InSource
<1>9. (MarksPast /\ ChildrenCaughtUp)'
  BY <1>2, <1>4, <1>6 DEF MarksPast, ChildrenCaughtUp
<1>10. Covering'
  BY <1>3, <1>4 DEF Covering
<1>11. DoneCovers'
  BY <1>2, <1>4, <1>5, <1>6, StillCovered
<1> QED BY <1>7, <1>8, <1>9, <1>10, <1>11

(* The end of a sync: a child source that did not fail has been asked for   *)
(* every parent, so that its watermark may pass them.                       *)
LEMMA WatermarkKeeps ==
    ASSUME RunsIInv, RunsAssumption, work.step = "finish", Watermark,
           UNCHANGED <<tick, saved, changedAt, asked>>
    PROVE  /\ marks' \in [Source -> {NoRow, NullMark} \cup 0 .. LastTick]
           /\ \A s \in Source : marks'[s] <= tick'
           /\ ChildrenCaughtUp'
<1> USE DEF RunsIInv, RunsInv
<1>1. Working /\ work.step # "close"
  BY DEF Working, JobSteps
<1>2. Current \in Source /\ work.marker \in 0 .. LastTick /\ work.marker <= tick
  BY <1>1, SourceAtHead, JobFields DEF MarksPast
<1>3. marks \in [Source -> {NoRow, NullMark} \cup 0 .. LastTick]
  BY DEF RunsTypeOK
<1>4. /\ marks' \in [Source -> {NoRow, NullMark} \cup 0 .. LastTick]
      /\ \A s \in Source :
           \/ marks'[s] = marks[s]
           \/ s = Current /\ Syncs /\ work.outcome \in Succeeded /\ marks'[s] = work.marker
  BY <1>2, <1>3 DEF Watermark
<1>5. \A s \in Source : marks'[s] <= tick'
  BY <1>2, <1>4 DEF MarksPast
<1>6. ChildrenCaughtUp'
  <2> SUFFICES ASSUME NEW c \in Child, NEW b \in Bill, marks'[c] >= 0, saved[b] > 0,
                      changedAt[b] < marks'[c]
               PROVE  asked[c][b] = saved[b]
    BY DEF ChildrenCaughtUp
  <2>1. CASE marks'[c] = marks[c]
    BY <2>1 DEF ChildrenCaughtUp
  <2>2. CASE marks'[c] # marks[c]
    <3>1. c \in Source /\ b \in Stored
      BY DEF Source, Stored
    <3>2. c = Current /\ Syncs /\ work.outcome \in Succeeded
      BY <1>4, <2>2, <3>1
    <3> QED BY <3>1, <3>2 DEF Covering
  <2> QED BY <2>1, <2>2
<1> QED BY <1>4, <1>5, <1>6

LEMMA FinishHolds == ASSUME RunsIInv, RunsAssumption, Finish PROVE RunsIInv'
<1> USE DEF RunsIInv, RunsInv, dataVars
<1>1. Working /\ work.step = "finish"
  BY DEF Finish, Step, Working, JobSteps
<1>2. work.outcome \in Ended
  BY <1>1 DEF JobShape
<1>3. /\ work' \in Work /\ work' # NoWork /\ work'.step = "record" /\ work'.kind = work.kind
      /\ work'.todo = work.todo /\ work'.marker = work.marker /\ work'.outcome = work.outcome
  BY <1>1, JobFields, GoesFields DEF Finish, JobSteps
<1>4. Working' /\ work.step # "close" /\ work'.step # "close"
  BY <1>1, <1>3 DEF Working, JobSteps
<1>5. UNCHANGED <<tick, listed, saved, changedAt, asked, complete, history, guard, errors>>
      /\ Watermark
  BY DEF Finish
<1>6. /\ marks' \in [Source -> {NoRow, NullMark} \cup 0 .. LastTick]
      /\ \A s \in Source : marks'[s] <= tick'
      /\ ChildrenCaughtUp'
  BY <1>1, <1>5, WatermarkKeeps
<1>7. RunsTypeOK'
  BY <1>3, <1>5, <1>6 DEF RunsTypeOK
<1>8. (HistoryAgrees /\ ConflictMeansRunning /\ JobShape /\ DoneRecorded /\ BillsFirst
       /\ LastSuccessCovers)'
  BY <1>1, <1>2, <1>3, <1>4, <1>5, InSource
<1>9. MarksPast'
  BY <1>1, <1>3, <1>5, <1>6 DEF MarksPast
<1>10. Covering'
  BY <1>1, <1>3, <1>5 DEF Covering, Current, Syncs, Stored
<1>11. DoneCovers'
  BY <1>1, <1>3, <1>4, <1>5, StillCovered
<1> QED BY <1>6, <1>7, <1>8, <1>9, <1>10, <1>11

LEMMA SourceFailsHolds == ASSUME RunsIInv, RunsAssumption, SourceFails PROVE RunsIInv'
<1> USE DEF RunsIInv, RunsInv, dataVars
<1>1. Working /\ work.step \in {"resolve", "finish"} /\ work.step # "close"
  BY DEF SourceFails, Step, Working, JobSteps
<1>2. "FAILED" \in Ended \ Succeeded /\ "FAILED" \in Outcome
  BY DEF Ended, Succeeded, Outcome
<1>3. /\ work' \in Work /\ work' # NoWork /\ work'.step = "record" /\ work'.kind = work.kind
      /\ work'.todo = work.todo /\ work'.marker = work.marker /\ work'.outcome = "FAILED"
  BY <1>1, <1>2, JobFields, GoesFields DEF SourceFails, JobSteps
<1>4. Working' /\ work'.step # "close"
  BY <1>3 DEF Working, JobSteps
<1>5. UNCHANGED <<tick, listed, saved, changedAt, asked, complete, history, guard>>
      /\ errors' \in 0 .. MaxErrors
  BY DEF SourceFails, RunsTypeOK, RunsAssumption
<1>6. /\ marks' \in [Source -> {NoRow, NullMark} \cup 0 .. LastTick]
      /\ \A s \in Source : marks'[s] <= tick'
      /\ ChildrenCaughtUp'
  <2>1. Current \in Source
    BY <1>1, SourceAtHead
  <2>2. CASE marks' = marks \/ marks' = [marks EXCEPT ![Current] = NullMark]
    BY <1>5, <2>1, <2>2, StartsRowKeeps
  <2>3. CASE Step("finish") /\ Watermark
    BY <1>5, <2>3, WatermarkKeeps DEF Step
  <2> QED BY <2>2, <2>3 DEF SourceFails
<1>7. RunsTypeOK'
  BY <1>3, <1>5, <1>6 DEF RunsTypeOK
<1>8. (HistoryAgrees /\ ConflictMeansRunning /\ JobShape /\ DoneRecorded /\ BillsFirst
       /\ LastSuccessCovers)'
  BY <1>1, <1>2, <1>3, <1>4, <1>5, InSource
<1>9. MarksPast'
  BY <1>1, <1>3, <1>5, <1>6 DEF MarksPast
<1>10. Covering'
  BY <1>2, <1>3 DEF Covering
<1>11. DoneCovers'
  BY <1>1, <1>3, <1>4, <1>5, StillCovered
<1> QED BY <1>6, <1>7, <1>8, <1>9, <1>10, <1>11

(* The outcome of a source is stored and the job turns to the next.         *)
LEMMA RecordHolds == ASSUME RunsIInv, RunsAssumption, RecordOutcome PROVE RunsIInv'
<1> USE DEF RunsIInv, RunsInv, dataVars
<1>1. Working /\ work.step = "record" /\ work.step # "close"
  BY DEF RecordOutcome, Step, Working, JobSteps
<1>2. work.todo # <<>> /\ Current \in Source /\ Current = work.todo[1]
  BY <1>1, SourceAtHead
<1>3. /\ Len(work.todo) \in Nat \ {0} /\ Tail(work.todo) \in Seq(Source)
      /\ Len(work.todo) = 1 <=> Tail(work.todo) = <<>>
      /\ DOMAIN Tail(work.todo) = 1 .. Len(work.todo) - 1
      /\ \A i \in 1 .. Len(work.todo) - 1 : Tail(work.todo)[i] = work.todo[i + 1]
  BY <1>1, <1>2, HeadOfJob
<1>4. work.outcome \in Ended /\ work.outcome \in Outcome /\ DOMAIN work.todo = 1 .. Len(work.todo)
  BY <1>1, JobFields DEF JobShape
<1> DEFINE step == IF Len(work.todo) = 1 THEN "close" ELSE "begin"
<1>5. /\ work' \in Work /\ work' # NoWork /\ work'.step = step /\ work'.kind = work.kind
      /\ work'.todo = Tail(work.todo) /\ work'.marker = 0
  <2>1. step \in JobSteps /\ Goes(step, Tail(work.todo), 0, {}, "RUNNING")
    BY DEF JobSteps, RecordOutcome
  <2>2. "RUNNING" \in Outcome /\ 0 \in 0 .. LastTick
    BY DEF Outcome, RunsAssumption
  <2> HIDE DEF step
  <2> QED BY <1>1, <1>3, <2>1, <2>2, GoesFields
<1>6. Working' /\ (work'.step = "close" <=> work'.todo = <<>>)
      /\ work'.step \notin {"visit", "finish", "record"}
  BY <1>3, <1>5 DEF Working, JobSteps
<1> HIDE DEF step
<1>7. /\ history' \in Seq(Runs) /\ history' # <<>> /\ This' = This
      /\ DOMAIN history' = DOMAIN history
      /\ \A r \in DOMAIN history \ {This} : history'[r] = history[r]
      /\ history'[This].status = history[This].status
      /\ history'[This].kind = history[This].kind
      /\ DOMAIN history'[This].rows = DOMAIN history[This].rows
      /\ \A s \in DOMAIN history[This].rows :
           history'[This].rows[s] = IF s = Current THEN work.outcome ELSE history[This].rows[s]
  <2>1. history # <<>> /\ Row(work.outcome)
    BY <1>1 DEF JobShape, RecordOutcome
  <2> QED BY <1>4, <2>1, RowChanged
<1>8. UNCHANGED <<tick, listed, saved, changedAt, asked, complete, marks, guard, errors>>
  BY DEF RecordOutcome
<1>9. RunsTypeOK'
  BY <1>5, <1>7, <1>8 DEF RunsTypeOK
<1>10. history[This].status = "RUNNING" /\ history[This].kind = work.kind
  BY <1>1 DEF JobShape
<1>11. HistoryAgrees'
  BY <1>7, <1>10, AgreesAfter
<1>12. ConflictMeansRunning'
  BY <1>1, <1>5, <1>8, JobFields DEF ConflictMeansRunning
<1>13. JobShape'
  BY <1>5, <1>6, <1>7, <1>10 DEF JobShape
<1>14. \A s : StillListed(s) => s = Current \/ StillListed(s)'
  <2>1. ASSUME NEW i \in DOMAIN work.todo, work.todo[i] # Current
        PROVE  \E j \in DOMAIN Tail(work.todo) : Tail(work.todo)[j] = work.todo[i]
    <3>1. i # 1 /\ i - 1 \in DOMAIN Tail(work.todo) /\ Tail(work.todo)[i - 1] = work.todo[i]
      BY <1>2, <1>3, <1>4, <2>1
    <3> QED BY <3>1
  <2>2. \A s : StillListed(s)' <=> \E j \in DOMAIN Tail(work.todo) : Tail(work.todo)[j] = s
    BY <1>5 DEF StillListed
  <2> QED BY <2>1, <2>2 DEF StillListed
<1>15. DoneRecorded'
  <2>1. \A s \in DOMAIN history[This].rows : StillListed(s) \/ history[This].rows[s] \in Ended
    BY <1>1 DEF DoneRecorded
  <2> QED BY <1>4, <1>7, <1>14, <2>1 DEF DoneRecorded
<1>16. BillsFirst'
  <2> SUFFICES ASSUME NEW i \in 1 .. Len(work.todo) - 1, work.todo[i + 1] = "bills"
               PROVE  FALSE
    BY <1>3, <1>5 DEF BillsFirst
  <2>1. i + 1 \in DOMAIN work.todo /\ i + 1 # 1
    BY <1>3, <1>4
  <2> QED BY <1>1, <2>1 DEF BillsFirst
<1>17. DoneCovers'
  <2> SUFFICES ASSUME Syncs, NEW c \in Child \cap DOMAIN history[This].rows, ~StillListed(c)',
                      history'[This].rows[c] \in Succeeded
               PROVE  Fits(c)
    BY <1>5, <1>7, <1>8 DEF DoneCovers, Syncs, Fits, Stored
  <2>1. CASE c = Current
    <3>1. work.outcome \in Succeeded
      BY <1>7, <2>1
    <3> QED BY <1>1, <2>1, <3>1 DEF Covering, Fits
  <2>2. CASE c # Current
    <3>1. ~StillListed(c) /\ history[This].rows[c] \in Succeeded
      BY <1>7, <1>14, <2>2
    <3> QED BY <1>1, <3>1 DEF DoneCovers
  <2> QED BY <2>1, <2>2
<1>18. MarksPast'
  BY <1>5, <1>8 DEF MarksPast, RunsTypeOK
<1>19. ChildrenCaughtUp'
  BY <1>8 DEF ChildrenCaughtUp
<1>20. Covering'
  BY <1>6 DEF Covering
<1>21. LastSuccessCovers'
  BY <1>7, <1>10 DEF LastSuccessCovers
<1> QED BY <1>9, <1>11, <1>12, <1>13, <1>15, <1>16, <1>17, <1>18, <1>19, <1>20, <1>21

-----------------------------------------------------------------------------
(* The end of a job.                                                        *)

(* A job that ends with its run closed, or left open.                       *)
LEMMA JobOver ==
    ASSUME RunsIInv, work'.step \notin JobSteps, work' \in Work, guard' \in BOOLEAN,
           guard' <=> work' # NoWork, UNCHANGED <<tick, dataVars, marks>>,
           errors' \in 0 .. MaxErrors, history' \in Seq(Runs), HistoryAgrees', LastSuccessCovers'
    PROVE  RunsIInv'
<1> USE DEF RunsIInv, RunsInv, dataVars
<1>1. RunsTypeOK'
  BY DEF RunsTypeOK
<1>2. ConflictMeansRunning'
  BY DEF ConflictMeansRunning
<1>3. (JobShape /\ DoneRecorded /\ BillsFirst /\ DoneCovers /\ Covering)'
  BY DEF JobShape, DoneRecorded, BillsFirst, DoneCovers, Covering, Working, JobSteps
<1>4. (MarksPast /\ ChildrenCaughtUp)'
  BY DEF MarksPast, ChildrenCaughtUp, Working
<1> QED BY <1>1, <1>2, <1>3, <1>4

LEMMA CloseHolds == ASSUME RunsIInv, RunsAssumption, Close PROVE RunsIInv'
<1> USE DEF RunsIInv, RunsInv, dataVars
<1> DEFINE rows == history[This].rows
           status == Status(rows)
<1>1. Working /\ work.step = "close"
  BY DEF Close, Step, Working, JobSteps
<1>2. /\ history # <<>> /\ work.todo = <<>> /\ history[This].kind = work.kind
      /\ work.kind \in {"run", "sync", "reconcile"} /\ guard /\ guard \in BOOLEAN
  BY <1>1, JobFields DEF JobShape, RunsAssumption, ConflictMeansRunning, RunsTypeOK
<1>3. /\ work' \in Work /\ work'.step \notin JobSteps /\ guard' \in BOOLEAN
      /\ guard' <=> work' # NoWork
  <2>1. CASE work.automatic
    <3>1. Goes("verify", work.todo, work.marker, work.variants, work.outcome) /\ guard' = guard
      BY <2>1 DEF Close
    <3>2. work' \in Work /\ work' # NoWork /\ work'.step = "verify"
      BY <1>1, <3>1, JobFields, GoesFields
    <3> QED BY <1>2, <3>1, <3>2 DEF JobSteps
  <2>2. CASE ~work.automatic
    <3>1. work' = NoWork /\ guard' = FALSE
      BY <2>2 DEF Close, End
    <3>2. NoWork \in Work /\ NoWork.step \notin JobSteps
      BY DEF Work, NoWork, JobSteps
    <3> QED BY <3>1, <3>2
  <2> QED BY <2>1, <2>2
<1>4. \A s : ~StillListed(s)
  BY <1>2 DEF StillListed
<1>5. \A s \in DOMAIN rows : rows[s] \in Ended
  BY <1>1, <1>4 DEF DoneRecorded
<1> HIDE DEF rows
<1>6. /\ status \in {"SUCCESS", "PARTIAL", "FAILED"}
      /\ status = "SUCCESS" => \A s \in DOMAIN rows : rows[s] \in Succeeded
      /\ status = "PARTIAL" => \E s, q \in DOMAIN rows : rows[s] = "FAILED" /\ rows[q] \in Succeeded
  BY <1>5 DEF Status, Good, Ended
<1> HIDE DEF status
<1>7. history' = [history EXCEPT ![This].status = status]
  BY DEF Close, status, rows
<1>8. /\ history' \in Seq(Runs) /\ history' # <<>> /\ This' = This
      /\ DOMAIN history' = DOMAIN history
      /\ \A r \in DOMAIN history \ {This} : history'[r] = history[r]
      /\ history'[This].status = status /\ history'[This].kind = work.kind
      /\ history'[This].rows = rows
  BY <1>2, <1>6, <1>7, StatusChanged DEF rows
<1>9. HistoryAgrees'
  <2> DEFINE shown == {rows[s] : s \in DOMAIN rows}
  <2>1. status = "SUCCESS" => shown \subseteq Succeeded
    BY <1>6
  <2>2. status = "PARTIAL" => "FAILED" \in shown /\ shown \cap Succeeded # {}
                              /\ shown \subseteq Succeeded \cup {"FAILED"}
    BY <1>5, <1>6 DEF Ended
  <2> HIDE DEF shown
  <2>3. shown = {history'[This].rows[s] : s \in DOMAIN history'[This].rows}
    BY <1>8 DEF shown
  <2> QED BY <1>8, <2>1, <2>2, <2>3, AgreesAfter
<1>10. LastSuccessCovers'
  <2> SUFFICES ASSUME work.kind # "run", status = "SUCCESS", NEW c \in Child \cap DOMAIN rows
               PROVE  Fits(c)'
    BY <1>8 DEF LastSuccessCovers
  <2>1. Syncs /\ rows[c] \in Succeeded
    BY <1>2, <1>6 DEF Syncs
  <2>2. Fits(c)
    BY <1>1, <1>4, <2>1 DEF DoneCovers, rows
  <2> QED BY <2>2 DEF Close, Fits, Stored
<1>11. UNCHANGED <<tick, dataVars, marks>> /\ errors' \in 0 .. MaxErrors
  BY DEF Close, RunsTypeOK
<1> QED BY <1>3, <1>8, <1>9, <1>10, <1>11, JobOver

LEMMA AbortHolds == ASSUME RunsIInv, RunsAssumption, Abort PROVE RunsIInv'
<1> USE DEF RunsIInv, RunsInv, dataVars
<1>1. Working
  BY DEF Abort, Step, Working, JobSteps
<1>2. history # <<>>
  BY <1>1 DEF JobShape
<1>3. UNCHANGED <<tick, dataVars, marks>> /\ errors' \in 0 .. MaxErrors
  BY DEF Abort, RunsTypeOK, RunsAssumption
<1>4. /\ work' \in Work /\ work' = NoWork /\ work'.step \notin JobSteps /\ guard' = FALSE
  BY DEF Abort, End, Work, NoWork, JobSteps
<1>5. CASE history' = history
  BY <1>3, <1>4, <1>5, Stops
<1>6. CASE history' = [history EXCEPT ![This].status = "FAILED"]
  <2>1. /\ history' \in Seq(Runs) /\ history' # <<>> /\ This' = This
        /\ DOMAIN history' = DOMAIN history
        /\ \A r \in DOMAIN history \ {This} : history'[r] = history[r]
        /\ history'[This].status = "FAILED"
    BY <1>2, <1>6, StatusChanged
  <2>2. HistoryAgrees'
    BY <2>1, AgreesAfter
  <2>3. LastSuccessCovers'
    BY <2>1 DEF LastSuccessCovers
  <2> QED BY <1>3, <1>4, <2>1, <2>2, <2>3, JobOver
<1> QED BY <1>5, <1>6 DEF Abort

LEMMA EndsHold ==
    ASSUME RunsIInv, RunsAssumption, Misfire \/ Verify \/ ProcessDies PROVE RunsIInv'
<1>1. work' \in {NoWork, Refused} /\ guard' \in BOOLEAN /\ (guard' <=> work' # NoWork)
  <2>1. NoWork.step = "none" /\ Refused.step = "refused"
    BY DEF NoWork, Refused
  <2>2. \/ work' = NoWork /\ guard' = FALSE
        \/ work' = Refused /\ guard' = TRUE
    BY DEF Misfire, Verify, ProcessDies, End
  <2> QED BY <2>1, <2>2
<1>2. UNCHANGED <<tick, dataVars, marks, history>> /\ errors' \in 0 .. MaxErrors
  BY DEF Misfire, Verify, ProcessDies, RunsIInv, RunsInv, RunsTypeOK, RunsAssumption
<1> QED BY <1>1, <1>2, Stops

LEMMA RunsStepHolds ==
    ASSUME RunsIInv, RunsAssumption, [RunsNext]_runsVars PROVE RunsIInv'
<1>1. CASE \E kind \in Kinds, automatic \in BOOLEAN, S \in (SUBSET Source) \ {{}} :
             LaunchRun(kind, automatic, S)
  BY <1>1, LaunchHolds
<1>2. CASE \E b \in Bill : SaveBill(b) \/ AskChild(b) \/ VisitFails(b)
  BY <1>2, SaveHolds, AskHolds, VisitFailsHolds
<1>3. CASE Begin \/ Resolve \/ Finish \/ RecordOutcome \/ Close \/ Abort \/ SourceFails
  BY <1>3, BeginHolds, ResolveHolds, FinishHolds, RecordHolds, CloseHolds, AbortHolds,
     SourceFailsHolds
<1>4. CASE Misfire \/ Verify \/ ProcessDies
  BY <1>4, EndsHold
<1>5. CASE Ticks \/ \E b \in Bill : BillChanges(b)
  BY <1>5, WorldMoves
<1>6. CASE UNCHANGED runsVars
  BY <1>6 DEF runsVars, dataVars, RunsIInv, RunsInv, RunsTypeOK, HistoryAgrees,
     ConflictMeansRunning, JobShape, DoneRecorded, BillsFirst, MarksPast, ChildrenCaughtUp,
     Covering, DoneCovers, LastSuccessCovers, Working, StillListed, Fits, Stored, Syncs, Current, This
<1> QED BY <1>1, <1>2, <1>3, <1>4, <1>5, <1>6 DEF RunsNext, SourceStep

LEMMA RunsAlways == RunsSpec => []RunsIInv
<1>1. RunsInit => RunsIInv
  BY RunsInitHolds, RunsAssumption
<1>2. RunsIInv /\ [RunsNext]_runsVars => RunsIInv'
  BY RunsStepHolds, RunsAssumption
<1> QED BY <1>1, <1>2, PTL DEF RunsSpec

(* The state is well typed, the status of every run agrees with the rows of *)
(* its sources, and "already running" is only said while there is work.     *)
THEOREM RunsHold == RunsSpec => []RunsInv
<1>1. RunsIInv => RunsInv
  BY DEF RunsIInv
<1> QED BY <1>1, RunsAlways, PTL

(* A watermark never passes a change its source was not asked about, however *)
(* variants fail, jobs are aborted and the process dies.                    *)
THEOREM WatermarkSafe == RunsSpec => []ChildrenCaughtUp
<1>1. RunsIInv => ChildrenCaughtUp
  BY DEF RunsIInv
<1> QED BY <1>1, RunsAlways, PTL

(* A sync that reports success has left its children in step with the       *)
(* parents it stored: they were read first, and nothing was skipped that     *)
(* had changed.                                                             *)
THEOREM SuccessIsComplete == RunsSpec => []SuccessCovers
<1>1. RunsIInv => SuccessCovers
  BY DEF RunsIInv, LastSuccessCovers, SuccessCovers, Fits
<1> QED BY <1>1, RunsAlways, PTL
=============================================================================
