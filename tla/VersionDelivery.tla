---------------------------- MODULE VersionDelivery ----------------------------
(***************************************************************************)
(* What the pipeline promises about one observed version of a record: it   *)
(* is owed to the archive until it is archived, it is archived at most     *)
(* once, never before it was observed and never taken back; one that       *)
(* cannot be archived is parked for the operator instead of forgotten.     *)
(***************************************************************************)
CONSTANTS Version

VARIABLES owed, archived, parked

vars == <<owed, archived, parked>>

Init == owed = {} /\ archived = {} /\ parked = {}

Observe(v) ==
    /\ v \notin owed \cup archived
    /\ owed' = owed \cup {v}
    /\ UNCHANGED <<archived, parked>>

Archive(v) ==
    /\ v \in owed
    /\ owed' = owed \ {v}
    /\ archived' = archived \cup {v}
    /\ parked' = parked \ {v}

Park(v) ==
    /\ v \in owed \ parked
    /\ parked' = parked \cup {v}
    /\ UNCHANGED <<owed, archived>>

Settle(v) == v \notin parked /\ (Archive(v) \/ Park(v))

Next == \E v \in Version : Observe(v) \/ Archive(v) \/ Park(v)

Spec == Init /\ [][Next]_vars

FairSpec == Spec /\ \A v \in Version : WF_vars(Settle(v))
=============================================================================
