------------------------------ MODULE GraphInputs ------------------------------
(***************************************************************************)
(* The inputs the GraphRAG worker watches: a directory into which          *)
(* collectors and curators put knowledge batches, each a file that is      *)
(* never changed, and one file of reviewed batches beside it.  A batch     *)
(* holds observations of sources, and of each source the newest one        *)
(* counts.                                                                 *)
(***************************************************************************)
EXTENDS Integers, FiniteSets

CONSTANTS Scope,     \* sources: a bill's page, an office holder's record
          Text,      \* what a source may say
          LastStamp  \* bound on the observations

(* There are finitely many sources. *)
ASSUME GraphInputsAssumption == IsFiniteSet(Scope) /\ LastStamp \in Nat

VARIABLES
    stamp,    \* time of the latest observation
    files,    \* the batches in the directory, each a set of observations
    reviewed, \* observations in the file of reviewed batches
    graph     \* the active sources of the graph store, as last observed

inputVars == <<stamp, files, reviewed, graph>>

(* Who extracted a source is part of what it says: extractionVersion.      *)
Observation == [scope : Scope, text : Text, at : Nat, by : {"collector", "curator"}]

InputsTypeOK ==
    /\ stamp \in Nat
    /\ files \subseteq SUBSET Observation
    /\ reviewed \subseteq Observation
    /\ graph \subseteq Observation

InputsInit == stamp = 0 /\ files = {} /\ reviewed = {} /\ graph = {}

Staged == UNION files
Inputs == Staged \cup reviewed

(* read_sources: the newest observation of each source. *)
Selected(O) == {o \in O : \A p \in O : p.scope = o.scope => p.at <= o.at}

(* The fingerprint of what a source says. *)
SaysSame(o, p) == o.text = p.text /\ o.by = p.by

(* Two that say different things at the same time make reading fail: if    *)
(* they are the newest, and if they are read before the newest.            *)
Readable(O) ==
    \A o, p \in O : o.scope = p.scope /\ o.at = p.at => SaysSame(o, p)

(* sync_inputs: sources that are new or say something else are stored, and *)
(* of the others those observed later than before are observed again.  A   *)
(* scan that fails changes nothing, and over an empty directory it fails.  *)
Changes(O) == {o \in O : \A g \in graph : g.scope = o.scope => ~SaysSame(g, o)}
Reobserved(O) ==
    {o \in O : \E g \in graph : g.scope = o.scope /\ SaysSame(g, o) /\ g.at < o.at}
ScanInputs ==
    /\ files # {} /\ Readable(Inputs)
    /\ LET O == Selected(Inputs)
           put == Changes(O) \cup Reobserved(O)
       IN  graph' = put \cup {g \in graph : \A o \in put : o.scope # g.scope}
    /\ UNCHANGED <<stamp, files, reviewed>>
=============================================================================
