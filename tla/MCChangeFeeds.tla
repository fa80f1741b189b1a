---------------------------- MODULE MCChangeFeeds ----------------------------
(* VersionPipeline, BillFeed and RosterRefresh for TLC.  One of them is      *)
(* chosen and runs, the others stay at one initial state; they share no      *)
(* state but the watched inputs, which BillFeed and RosterRefresh both fill. *)
(* Payloads, consumers and cycles, and what a source says under one name,    *)
(* are interchangeable; so are sources, which are listed in one order first. *)
EXTENDS VersionPipeline, BillFeed, RosterRefresh, TLC

CONSTANTS First, Second, Third  \* the sources, as first listed

VARIABLE part

billVars == <<boardVars, cursor, cycle, raws, quiet, feedFaults>>
holderVars == <<listVars, collect, receipts, refresh, stagedVars, rosterFaults>>
changeVars == <<part, vars, inputVars, billVars, holderVars>>

(* At most one change of the board, fault or curated source; only one      *)
(* cycle is left when the last observation has been made.                  *)
FewBillEvents ==
    /\ stamp <= 3
    /\ Cardinality({o \in Inputs : o.by = "curator"}) + moves + feedFaults <= 1
    /\ stamp < 3 \/ Cardinality({c \in Cycle : cycle[c].step # "off"}) <= 1
    /\ \A b \in Scope : says[b] \notin Alias
    /\ \A o \in Inputs : o.text \notin Alias

(* At most one change of the list or fault, and two office holders. *)
FewRosterEvents ==
    /\ rosterMoves + rosterFaults <= 1
    /\ \A o \in base : o.scope # Third
    /\ \A i \in DOMAIN roster : roster[i] # Third
    /\ holder[Third] \in Alias
    /\ refresh.step = "off" \/ collect.step = "off"

ChangeInit ==
    /\ part \in {"versions", "bills", "roster"}
    /\ Init
    /\ IF part = "roster"
       THEN /\ RosterInit /\ FewRosterEvents
            /\ roster = <<First, Second>> /\ holder[First] = holder[Second] /\ holder[First] \notin Alias
            /\ \A o, p \in base : o.text = p.text
       ELSE /\ InputsInit
            /\ roster = <<>> /\ holder \in [Scope -> Alias] /\ base = {} /\ receipts = {}
            /\ collect = NoRun /\ refresh = NoRefresh /\ half = {} /\ held = {}
            /\ ordered = TRUE /\ undisturbed = TRUE /\ rosterMoves = 0 /\ rosterFaults = 0
    /\ IF part = "bills"
       THEN /\ BillFeedInit /\ FewBillEvents
            /\ board = <<First, Second, Third>> /\ \A b, d \in Scope : says[b] = says[d]
       ELSE /\ board = <<>> /\ says \in [Scope -> Alias] /\ cursor = 2
            /\ cycle = [c \in Cycle |-> Idle] /\ raws = Scope \X Text /\ quiet = TRUE
            /\ moves = 0 /\ feedFaults = 0

ChangeNext ==
    /\ part' = part
    /\ \/ part = "versions" /\ Next /\ UNCHANGED <<inputVars, billVars, holderVars>>
       \/ part = "bills" /\ BillFeedNext /\ FewBillEvents' /\ UNCHANGED <<vars, holderVars>>
       \/ part = "roster" /\ RosterNext /\ FewRosterEvents' /\ UNCHANGED <<vars, billVars>>

ChangeSpec == ChangeInit /\ [][ChangeNext]_changeVars

Symmetry == Permutations(Hash) \cup Permutations(Consumer)
=============================================================================
