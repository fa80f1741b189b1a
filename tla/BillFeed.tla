------------------------------- MODULE BillFeed -------------------------------
(***************************************************************************)
(* The collection of bills from the legislative-status board.  A cycle     *)
(* reads the first page and, from a cursor on, some older ones, compares   *)
(* every bill listed there with what the graph's inputs have of it, puts   *)
(* the changed ones into one batch, and only then moves the cursor.        *)
(*                                                                         *)
(* Operators start cycles, one over the other if they like, or ask for a   *)
(* certain page.  The board changes while a cycle reads it, any request    *)
(* may fail, a row may be held back, and a cycle may die at any step.      *)
(***************************************************************************)
EXTENDS GraphInputs, Sequences

CONSTANTS Cycle,       \* invocations of the command
          PageRows,    \* rows of a page of the board
          HotPages,    \* newest pages read by every cycle
          SweepPages,  \* older pages read by a cycle
          MaxMoves,    \* bound on changes of the board
          FeedFaults   \* bound on failed requests, held rows and deaths

ASSUME BillFeedAssumption ==
    /\ PageRows \in Nat \ {0} /\ HotPages \in Nat \ {0} /\ SweepPages \in Nat
    /\ MaxMoves \in Nat /\ FeedFaults \in Nat

VARIABLES
    board,  \* the bills listed, newest first
    says,   \* what the page of each bill says
    cursor, \* cursor.json
    cycle,  \* the cycles under way
    raws,   \* pages kept under raw/bills: of which bill, and what they say
    quiet,  \* history: the board has not changed since the cursor was at its beginning
    moves, feedFaults

boardVars == <<board, says, moves>>
feedVars == <<inputVars, boardVars, cursor, cycle, raws, quiet, feedFaults>>

(* What the board may list: no bill twice. *)
Boards == {list \in UNION {[1 .. n -> Scope] : n \in 0 .. Cardinality(Scope)} :
               \A i, j \in DOMAIN list : list[i] = list[j] => i = j}

Idle == [step |-> "off", at |-> 0, start |-> 2, onward |-> FALSE, pages |-> {}, last |-> 1,
         rows |-> {}, known |-> {}, changed |-> {}, failed |-> FALSE]

BillFeedTypeOK ==
    /\ InputsTypeOK
    /\ board \in Boards /\ says \in [Scope -> Text]
    /\ cursor \in Nat \ {0, 1}
    /\ cycle \in [Cycle -> [step : {"off", "first", "pages", "details", "cursor"},
                            at : Nat, start : Nat \ {0, 1}, onward : BOOLEAN, pages : SUBSET Nat,
                            last : Nat \ {0}, rows : SUBSET Scope, known : SUBSET Observation,
                            changed : SUBSET Observation, failed : BOOLEAN]]
    /\ raws \subseteq Scope \X Text
    /\ quiet \in BOOLEAN /\ moves \in Nat /\ feedFaults \in Nat

BillFeedInit ==
    /\ InputsInit
    /\ board \in Boards /\ says \in [Scope -> Text]
    /\ cursor = 2
    /\ cycle = [c \in Cycle |-> Idle]
    /\ raws = {} /\ quiet = TRUE /\ moves = 0 /\ feedFaults = 0

-----------------------------------------------------------------------------
(* The board. *)

Page(p) == {board[i] : i \in {j \in 1 .. Len(board) : (p - 1) * PageRows < j /\ j <= p * PageRows}}
LastPage == IF Len(board) = 0 THEN 1 ELSE (Len(board) + PageRows - 1) \div PageRows

BoardMoves == moves < MaxMoves /\ moves' = moves + 1 /\ quiet' = FALSE
StaysPut == UNCHANGED <<inputVars, cursor, cycle, raws, feedFaults>>

(* Bills are added, leave or move. *)
BoardChanges(list) ==
    /\ BoardMoves /\ board' = list
    /\ says' = says /\ StaysPut

BillChanges(b, t) ==
    /\ BoardMoves /\ says[b] # t
    /\ says' = [says EXCEPT ![b] = t]
    /\ board' = board /\ StaysPut

(* A curator puts a batch into the directory, or into the reviewed file,   *)
(* and stamps it with the time.                                            *)
Curate(b, t, apart) ==
    /\ stamp < LastStamp /\ stamp' = stamp + 1
    /\ LET o == [scope |-> b, text |-> t, at |-> stamp', by |-> "curator"]
       IN  IF apart THEN reviewed' = reviewed \cup {o} /\ files' = files
                    ELSE files' = files \cup {{o}} /\ reviewed' = reviewed
    /\ UNCHANGED <<graph, boardVars, cursor, cycle, raws, quiet, feedFaults>>

-----------------------------------------------------------------------------
(* A cycle. *)

InStep(c, step) == cycle[c].step = step
Continues(c, new) == cycle' = [cycle EXCEPT ![c] = new]
FeedFault == feedFaults < FeedFaults /\ feedFaults' = feedFaults + 1
ReadsOnly == UNCHANGED <<inputVars, boardVars, cursor, raws, quiet>>

(* The observations carry the time a cycle begins.  Without a page asked   *)
(* for it sweeps from the cursor.                                          *)
BeginCycle(c, page) ==
    /\ InStep(c, "off")
    /\ stamp < LastStamp /\ stamp' = stamp + 1
    /\ Continues(c, [Idle EXCEPT !.step = "first", !.at = stamp', !.start = page,
                            !.onward = (page = cursor), !.known = graph])
    /\ UNCHANGED <<files, reviewed, graph, boardVars, cursor, raws, quiet, feedFaults>>

(* The first page tells where the board ends; a sweep behind it begins anew. *)
ReadFirst(c) ==
    /\ InStep(c, "first") /\ Page(1) # {}
    /\ LET start == IF cycle[c].start > LastPage THEN 2 ELSE cycle[c].start
       IN  Continues(c, [cycle[c] EXCEPT
                       !.step = "pages", !.start = start, !.last = LastPage, !.rows = Page(1),
                       !.pages = {p \in 2 .. LastPage : \/ p <= HotPages
                                                        \/ start <= p /\ p < start + SweepPages}])
    /\ UNCHANGED feedFaults /\ ReadsOnly

(* Without a first page, or any row on it, a cycle only reports. *)
FirstFails(c) ==
    /\ InStep(c, "first")
    /\ Continues(c, Idle)
    /\ IF Page(1) = {} THEN UNCHANGED feedFaults ELSE FeedFault
    /\ ReadsOnly

ToRead(c, p) == InStep(c, "pages") /\ p \in cycle[c].pages /\ \A q \in cycle[c].pages : p <= q

(* A row whose two numbers disagree is held back, and that is a failure. *)
ReadBoardPage(c, p, held) ==
    /\ ToRead(c, p) /\ Page(p) \ held # {}
    /\ Continues(c, [cycle[c] EXCEPT !.pages = @ \ {p}, !.rows = @ \cup (Page(p) \ held),
                                !.failed = @ \/ held # {}])
    /\ IF held = {} THEN UNCHANGED feedFaults ELSE FeedFault
    /\ ReadsOnly

(* So is a request that fails, or a page without rows. *)
PageFails(c, p) ==
    /\ ToRead(c, p)
    /\ Continues(c, [cycle[c] EXCEPT !.pages = @ \ {p}, !.failed = TRUE])
    /\ IF Page(p) = {} THEN UNCHANGED feedFaults ELSE FeedFault
    /\ ReadsOnly

(* What the directory has of a bill counts before what the graph has. *)
ReadKnown(c) ==
    /\ InStep(c, "pages") /\ cycle[c].pages = {}
    /\ Readable(Staged)
    /\ Continues(c, [cycle[c] EXCEPT
                   !.step = "details",
                   !.known = {g \in @ : \A o \in Staged : o.scope # g.scope} \cup Selected(Staged)])
    /\ UNCHANGED feedFaults /\ ReadsOnly

Detail(c, b) == [scope |-> b, text |-> says[b], at |-> cycle[c].at, by |-> "collector"]
Known(c, b) == {o \in cycle[c].known : o.scope = b}

(* A bill somebody curated is left to them; one that says what is known of *)
(* it is unchanged; the page of any other is kept and the bill staged.     *)
ReadDetail(c, b) ==
    /\ InStep(c, "details") /\ b \in cycle[c].rows
    /\ IF \E o \in Known(c, b) : o.by = "curator" \/ o.text = says[b]
       THEN Continues(c, [cycle[c] EXCEPT !.rows = @ \ {b}]) /\ raws' = raws
       ELSE /\ Continues(c, [cycle[c] EXCEPT !.rows = @ \ {b},
                                              !.changed = @ \cup {Detail(c, b)}])
            /\ raws' = raws \cup {<<b, says[b]>>}
    /\ UNCHANGED <<inputVars, boardVars, cursor, quiet, feedFaults>>

DetailFails(c, b) ==
    /\ InStep(c, "details") /\ b \in cycle[c].rows
    /\ Continues(c, [cycle[c] EXCEPT !.rows = @ \ {b}, !.failed = TRUE])
    /\ FeedFault /\ ReadsOnly

(* The changed bills are one batch, however many they are. *)
Merged(changed) == IF changed = {} THEN {} ELSE {changed}

WriteBatch(c) ==
    /\ InStep(c, "details") /\ cycle[c].rows = {}
    /\ files' = files \cup Merged(cycle[c].changed)
    /\ Continues(c, [cycle[c] EXCEPT !.step = "cursor"])
    /\ UNCHANGED <<stamp, reviewed, graph, boardVars, cursor, raws, quiet, feedFaults>>

NextSweep(c) ==
    IF cycle[c].start + SweepPages > cycle[c].last THEN 2 ELSE cycle[c].start + SweepPages

(* Mutant: the cursor moves although something failed. *)
WriteCursorAnyway(c) ==
    /\ InStep(c, "cursor")
    /\ cursor' = IF cycle[c].onward THEN NextSweep(c) ELSE cursor
    /\ quiet' = (quiet \/ (cursor' = 2 /\ \A d \in Cycle \ {c} : InStep(d, "off")))
    /\ Continues(c, Idle)
    /\ UNCHANGED <<inputVars, boardVars, raws, feedFaults>>

(* Only a sweep from the cursor without any failure moves it. *)
WriteCursor(c) ==
    /\ InStep(c, "cursor")
    /\ cursor' = IF cycle[c].onward /\ ~cycle[c].failed THEN NextSweep(c) ELSE cursor
    /\ quiet' = (quiet \/ (cursor' = 2 /\ \A d \in Cycle \ {c} : InStep(d, "off")))
    /\ Continues(c, Idle)
    /\ UNCHANGED <<inputVars, boardVars, raws, feedFaults>>

CycleDies(c) ==
    /\ ~InStep(c, "off")
    /\ Continues(c, Idle)
    /\ FeedFault /\ ReadsOnly

BillFeedNext ==
    \/ \E list \in Boards : BoardChanges(list)
    \/ \E b \in Scope, t \in Text : BillChanges(b, t)
    \/ \E b \in Scope, t \in Text, apart \in BOOLEAN : Curate(b, t, apart)
    \/ ScanInputs /\ UNCHANGED <<boardVars, cursor, cycle, raws, quiet, feedFaults>>
    \/ \E c \in Cycle :
          \/ \E page \in {cursor} \cup 2 .. LastPage : BeginCycle(c, page)
          \/ ReadFirst(c) \/ FirstFails(c) \/ ReadKnown(c)
          \/ \E p \in cycle[c].pages : PageFails(c, p) \/ ReadBoardPage(c, p, {})
                                       \/ \E b \in Page(p) : ReadBoardPage(c, p, {b})
          \/ \E b \in cycle[c].rows : ReadDetail(c, b) \/ DetailFails(c, b)
          \/ WriteBatch(c) \/ WriteCursor(c) \/ CycleDies(c)

BillFeedSpec == BillFeedInit /\ [][BillFeedNext]_feedVars
-----------------------------------------------------------------------------
(* Properties. *)

(* What the inputs have of a bill is what its page says, or a curator's. *)
Settled(b) == \E o \in Selected(Inputs) : o.scope = b /\ (o.by = "curator" \/ o.text = says[b])

(* While the board does not change, every bill on a page the sweep has     *)
(* passed is settled: no failure, no held row, no death and no other cycle *)
(* lets the cursor pass a bill whose change is not in the inputs.          *)
SweepReaches == quiet => \A p \in 2 .. cursor - 1 : \A b \in Page(p) : Settled(b)

(* Every batch of a cycle rests on pages that were kept. *)
PagesKept == \A o \in Staged : o.by = "collector" => <<o.scope, o.text>> \in raws

(* A curator's batch in the directory is never overruled by a cycle, not   *)
(* even by one that was under way when it was put there.                   *)
CuratedStays ==
    \A o, k \in Staged : o.by = "collector" /\ k.by = "curator" /\ o.scope = k.scope => o.at < k.at

FeedInv == BillFeedTypeOK /\ SweepReaches /\ PagesKept /\ CuratedStays /\ Readable(Inputs)
=============================================================================
