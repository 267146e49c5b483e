--------------------------- MODULE MCSharedState ---------------------------
(***************************************************************************)
(* What the replicas of the API share in Redis, Qdrant and Neo4j: the      *)
(* review queue (a contested item and a second one, two replicas and two   *)
(* reviewers, of whom one is in conflict with the second item), and the    *)
(* registry of assets.  The two meet in none of their stores, so one run   *)
(* explores each by itself: "which" says whose behaviour this is.          *)
(***************************************************************************)
EXTENDS HITLMonitor, AssetRegistry, TLC

CONSTANTS i1, i2, r1, r2

VARIABLE which

\* The second item is enqueued again with another record; r2 is in conflict by
\* both.  The rights graph adds a conflict with the first item.
MCSubmissions == [i \in Item |-> IF i = i2 THEN {{r2}, {r1, r2}} ELSE {{}}]

MCRightsGraph == [i \in Item |-> IF i = i1 THEN {r2} ELSE {}]

\* The properties are about single states and steps.
MCSymmetry == Permutations(Replica) \cup Permutations(User)

registryVars == <<points, unapplied, links, jobs, request, awaiting, requests>>
sharedVars == <<which, faults, vars, registryVars>>

SharedInit ==
  /\ which \in {"review", "registry"}
  /\ Init /\ AssetInit

SharedNext ==
  /\ UNCHANGED which
  /\ \/ which = "review" /\ Next /\ UNCHANGED <<faults, registryVars>>
     \/ which = "registry" /\ AssetNext /\ UNCHANGED vars

SharedSpec == SharedInit /\ [][SharedNext]_sharedVars
=============================================================================
