---------------------------- MODULE RosterRefresh ----------------------------
(***************************************************************************)
(* The roster of office holders.  A run collects an official list page by  *)
(* page and leaves a receipt that says whether it is complete.  A refresh  *)
(* compares two complete runs, holds back holders whose name differs, and  *)
(* puts the other changes into the directory the GraphRAG worker watches,  *)
(* one batch file after another.                                           *)
(*                                                                         *)
(* The list changes while it is read; a request may fail; a run and a      *)
(* refresh may die at any step; and which runs are compared is for the     *)
(* operator to say.                                                        *)
(***************************************************************************)
EXTENDS GraphInputs, Sequences

CONSTANTS Alias,        \* what is said under another name than the rest of Text is
          RosterRows,   \* rows of a page of the list
          RosterPages,  \* maxPages of the source
          RosterMoves,  \* bound on changes of the list
          RosterFaults  \* bound on failed requests and deaths

ASSUME RosterAssumption ==
    /\ Alias \subseteq Text
    /\ RosterRows \in Nat \ {0} /\ RosterPages \in Nat \ {0}
    /\ RosterMoves \in Nat /\ RosterFaults \in Nat

VARIABLES
    roster,      \* the official list: identifiers of its records
    holder,      \* what it says of each
    collect,     \* the run under way
    receipts,    \* the runs made, each with a history: is it exact, if it could be
    refresh,     \* the refresh under way: its run, and what is still to be written
    base,        \* history: records of the run staged last
    half,        \* history: the run of which perhaps only a part was staged
    held,        \* history: records whose name changed, left to review since
    ordered,     \* history: has every refresh followed on the one before
    undisturbed, \* history: the list has not changed since the run began
    rosterMoves, rosterFaults

listVars == <<roster, holder, undisturbed, rosterMoves>>
stagedVars == <<base, half, held, ordered>>
rosterVars == <<inputVars, listVars, collect, receipts, refresh, stagedVars, rosterFaults>>

Lists == {list \in UNION {[1 .. n -> Scope] : n \in 0 .. Cardinality(Scope)} :
              \A i, j \in DOMAIN list : list[i] = list[j] => i = j}

NoRun == [step |-> "off", page |-> 1, expected |-> 0, records |-> {}]
NoRefresh == [step |-> "off", run |-> {}, todo |-> {}]

RosterTypeOK ==
    /\ InputsTypeOK
    /\ roster \in Lists /\ holder \in [Scope -> Text]
    /\ collect \in [step : {"off", "page"}, page : Nat \ {0}, expected : Nat,
                    records : SUBSET Observation]
    /\ receipts \subseteq [complete : BOOLEAN, exact : BOOLEAN, records : SUBSET Observation]
    /\ refresh \in [step : {"off", "write"}, run : SUBSET Observation, todo : SUBSET Observation]
    /\ base \subseteq Observation /\ half \subseteq SUBSET Observation /\ held \subseteq Scope
    /\ ordered \in BOOLEAN /\ undisturbed \in BOOLEAN
    /\ rosterMoves \in Nat /\ rosterFaults \in Nat

Sighting(s, t, time) == [scope |-> s, text |-> t, at |-> time, by |-> "collector"]
Says(O) == {<<o.scope, o.text>> : o \in O}
ListSays == {<<roster[i], holder[roster[i]]>> : i \in DOMAIN roster}

(* A first complete run has been staged; the list may have changed since. *)
RosterInit ==
    /\ roster \in Lists /\ holder \in [Scope -> Text]
    /\ stamp = 1 /\ reviewed = {} /\ graph = {}
    /\ \E some \in SUBSET Scope, said \in [Scope -> Text] :
          base = {Sighting(s, said[s], 1) : s \in some}
    /\ files = {{o} : o \in base}
    /\ receipts = {[complete |-> TRUE, exact |-> TRUE, records |-> base]}
    /\ collect = NoRun /\ refresh = NoRefresh
    /\ half = {} /\ held = {} /\ ordered = TRUE /\ undisturbed = TRUE
    /\ rosterMoves = 0 /\ rosterFaults = 0

-----------------------------------------------------------------------------
(* The list. *)

ListMoves ==
    /\ rosterMoves < RosterMoves /\ rosterMoves' = rosterMoves + 1
    /\ undisturbed' = FALSE
    /\ UNCHANGED <<inputVars, collect, receipts, refresh, stagedVars, rosterFaults>>

ListChanges(list) == roster' = list /\ holder' = holder /\ ListMoves
HolderChanges(s, t) ==
    holder[s] # t /\ holder' = [holder EXCEPT ![s] = t] /\ roster' = roster /\ ListMoves

-----------------------------------------------------------------------------
(* A run. *)

RosterFault == rosterFaults < RosterFaults /\ rosterFaults' = rosterFaults + 1
RunOnly == UNCHANGED <<files, reviewed, graph, roster, holder, rosterMoves, refresh, stagedVars>>

BeginRun ==
    /\ collect.step = "off"
    /\ collect' = [step |-> "page", page |-> 1, expected |-> 0, records |-> {}]
    /\ undisturbed' = TRUE
    /\ UNCHANGED <<stamp, receipts, rosterFaults>> /\ RunOnly

Rows == {i \in DOMAIN roster : /\ (collect.page - 1) * RosterRows < i
                               /\ i <= collect.page * RosterRows}
PageRecords == {Sighting(roster[i], holder[roster[i]], stamp') : i \in Rows}
WithPage == collect.records \cup PageRecords

(* The run ends with its receipt. *)
Receipt(complete, records) ==
    /\ receipts' = receipts \cup
           {[complete |-> complete, records |-> records,
             exact |-> undisturbed => Says(records) = ListSays]}
    /\ collect' = NoRun

Expected == IF collect.page = 1 THEN Len(roster) ELSE collect.expected
AllCame == Cardinality(WithPage) >= Expected
(* Mutant: only a record twice on one page is found. *)
DoubledOnPage == \E i, j \in Rows : i # j /\ roster[i] = roster[j]
Doubled == \E o \in collect.records, i \in Rows : o.scope = roster[i]

(* A page is read: the number of records the source announces must be that *)
(* of the first page, none may come twice, and a page may only be empty    *)
(* when all have come.                                                     *)
ReadRosterPage ==
    /\ collect.step = "page"
    /\ stamp < LastStamp /\ stamp' = stamp + 1
    /\ IF Len(roster) # Expected \/ Doubled \/ (Rows = {} /\ ~AllCame)
       THEN Receipt(FALSE, collect.records)
       ELSE IF AllCame \/ collect.page = RosterPages
       THEN Receipt(Cardinality(WithPage) = Expected, WithPage)
       ELSE /\ collect' = [step |-> "page", page |-> collect.page + 1, expected |-> Expected,
                           records |-> WithPage]
            /\ receipts' = receipts
    /\ UNCHANGED <<undisturbed, rosterFaults>> /\ RunOnly

PageRequestFails ==
    /\ collect.step = "page"
    /\ Receipt(FALSE, collect.records)
    /\ RosterFault /\ UNCHANGED <<stamp, undisturbed>> /\ RunOnly

RunDies ==
    /\ collect.step = "page"
    /\ collect' = NoRun
    /\ RosterFault /\ UNCHANGED <<stamp, receipts, undisturbed>> /\ RunOnly

-----------------------------------------------------------------------------
(* A refresh. *)

SameName(o, p) == o.text \in Alias <=> p.text \in Alias
Renamed(previous, run) ==
    {o \in run : \E p \in previous : p.scope = o.scope /\ ~SameName(o, p)}

(* New records are staged, and those that changed under their name; one    *)
(* that is absent is only reported.                                        *)
Plan(previous, run) ==
    {o \in run : \A p \in previous : p.scope = o.scope => SameName(o, p) /\ p.text # o.text}

(* What the directory says of a record, if it says something else, must be *)
(* older than what is planned.                                             *)
Stale(plan) == \E o \in plan : \E p \in Selected(Staged) :
    p.scope = o.scope /\ p.text # o.text /\ o.at <= p.at

(* Both runs are complete, and nothing is written unless all of it may be. *)
BeginRefresh(previous, run) ==
    /\ refresh.step = "off"
    /\ previous.complete /\ run.complete
    /\ Readable(Staged)
    /\ LET plan == Plan(previous.records, run.records)
       IN  ~Stale(plan) /\ refresh' = [step |-> "write", run |-> run.records, todo |-> plan]
    /\ held' = held \cup {o.scope : o \in Renamed(previous.records, run.records)}
    /\ half' = {run.records}
    /\ ordered' = (ordered /\ previous.records = base /\ half \subseteq {run.records})
    /\ UNCHANGED <<inputVars, listVars, collect, receipts, base, rosterFaults>>

(* A batch is a file of one record here; the program puts fifty into one.  *)
WriteRecord(o) ==
    /\ refresh.step = "write" /\ o \in refresh.todo
    /\ files' = files \cup {{o}}
    /\ refresh' = [step |-> "write", run |-> refresh.run, todo |-> refresh.todo \ {o}]
    /\ held' = held \ {o.scope}
    /\ UNCHANGED <<stamp, reviewed, graph, listVars, collect, receipts, base, half, ordered,
                   rosterFaults>>

(* The name of a file does not depend on the time of the observation: the  *)
(* same words seen again, on the same page, are a conflict.                *)
WriteConflicts(o) ==
    /\ refresh.step = "write" /\ o \in refresh.todo
    /\ \E p \in Staged : p.scope = o.scope /\ p.text = o.text /\ p.at # o.at
    /\ refresh' = NoRefresh
    /\ UNCHANGED <<inputVars, listVars, collect, receipts, stagedVars, rosterFaults>>

EndRefresh ==
    /\ refresh.step = "write" /\ refresh.todo = {}
    /\ refresh' = NoRefresh
    /\ base' = refresh.run /\ half' = {}
    /\ UNCHANGED <<inputVars, listVars, collect, receipts, held, ordered, rosterFaults>>

RefreshDies ==
    /\ refresh.step = "write"
    /\ refresh' = NoRefresh
    /\ RosterFault
    /\ UNCHANGED <<inputVars, listVars, collect, receipts, stagedVars>>

RosterNext ==
    \/ \E list \in Lists : ListChanges(list)
    \/ \E s \in Scope, t \in Text : HolderChanges(s, t)
    \/ BeginRun \/ ReadRosterPage \/ PageRequestFails \/ RunDies
    \/ \E previous, run \in receipts : BeginRefresh(previous, run)
    \/ \E o \in refresh.todo : WriteRecord(o) \/ WriteConflicts(o)
    \/ EndRefresh \/ RefreshDies

RosterSpec == RosterInit /\ [][RosterNext]_rosterVars
-----------------------------------------------------------------------------
(* Properties. *)

(* A complete run over a list that did not change meanwhile has exactly    *)
(* what the list says; and no complete run has a record twice.             *)
CompleteIsExact ==
    \A r \in receipts : r.complete =>
        r.exact /\ \A o, p \in r.records : o.scope = p.scope => o = p

(* When every refresh compared with the run staged before it, and one that *)
(* was cut short was done again first, the inputs say of every record of   *)
(* the last staged run what that run found, unless a changed name has been *)
(* left to review.                                                         *)
ShowsRecord(r) == r.scope \in held \/ \E o \in Selected(Staged) : o.scope = r.scope /\ o.text = r.text
RefreshReaches == ordered /\ half = {} => \A r \in base : ShowsRecord(r)

RosterInv == RosterTypeOK /\ CompleteIsExact /\ RefreshReaches /\ Readable(Inputs)
=============================================================================
