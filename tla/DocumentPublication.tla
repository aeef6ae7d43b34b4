------------------------ MODULE DocumentPublication ------------------------
(***************************************************************************)
(* What ingestion promises its readers.  Each document is served in at     *)
(* most one version; a version is published whole, in one step, only ever  *)
(* in place of an older one, and is taken away only with the document.     *)
(* Leases, queues, attempts and storage do not appear.                     *)
(***************************************************************************)
EXTENDS Naturals

CONSTANTS
  Documents,
  Versions,   \* natural numbers, a later version is a larger one
  NoVersion   \* no member of Versions

VARIABLES
  served,    \* the version a document is served in, or NoVersion
  stage,     \* "building", "ready" or "retired", for each version
  removing   \* documents whose removal has been requested

vars == <<served, stage, removing>>

Init ==
  /\ served = [d \in Documents |-> NoVersion]
  /\ stage = [v \in Versions |-> "building"]
  /\ removing = {}

\* The last part of a version is in place.
Build(v) ==
  /\ stage[v] = "building"
  /\ stage' = [stage EXCEPT ![v] = "ready"]
  /\ UNCHANGED <<served, removing>>

\* A version nobody is served is given up, finished or not.
Abandon(v) ==
  /\ \A d \in Documents : served[d] # v
  /\ stage[v] # "retired"
  /\ stage' = [stage EXCEPT ![v] = "retired"]
  /\ UNCHANGED <<served, removing>>

\* The switch: the new version is served and the old one retired at once.
Publish(d, v) ==
  /\ d \notin removing
  /\ stage[v] = "ready"
  /\ \A e \in Documents : served[e] # v
  /\ served[d] \in Versions => served[d] < v
  /\ served' = [served EXCEPT ![d] = v]
  /\ stage' = [w \in Versions |-> IF w = served[d] THEN "retired" ELSE stage[w]]
  /\ UNCHANGED removing

RequestRemoval(d) ==
  /\ removing' = removing \cup {d}
  /\ UNCHANGED <<served, stage>>

\* Parts of versions go; only a document under removal is served incomplete.
Dismantle(parts) ==
  /\ \A d \in Documents \ removing : served[d] \notin parts
  /\ stage' = [v \in Versions |->
                 IF v \in parts /\ stage[v] = "ready" THEN "building" ELSE stage[v]]
  /\ UNCHANGED <<served, removing>>

RemoveDocument(d, parts) ==
  /\ d \in removing
  /\ \A e \in Documents \ {d} : served[e] \notin parts
  /\ served' = [served EXCEPT ![d] = NoVersion]
  /\ stage' = [v \in Versions |-> IF v \in parts THEN "retired" ELSE stage[v]]
  /\ UNCHANGED removing

Next ==
  \/ \E v \in Versions : Build(v) \/ Abandon(v)
  \/ \E d \in Documents, v \in Versions : Publish(d, v)
  \/ \E d \in Documents : RequestRemoval(d)
  \/ \E parts \in SUBSET Versions : Dismantle(parts)
  \/ \E d \in Documents, parts \in SUBSET Versions : RemoveDocument(d, parts)

Spec == Init /\ [][Next]_vars

-----------------------------------------------------------------------------

\* Whatever is served of a document that is not being removed is whole.
ServedIsReady ==
  \A d \in Documents \ removing : served[d] \in Versions => stage[served[d]] = "ready"

TypeOK ==
  /\ served \in [Documents -> Versions \cup {NoVersion}]
  /\ stage \in [Versions -> {"building", "ready", "retired"}]
  /\ removing \subseteq Documents

NobodyShares ==
  \A d, e \in Documents : served[d] \in Versions /\ served[d] = served[e] => d = e

Inv == TypeOK /\ NobodyShares /\ ServedIsReady
=============================================================================
