---------------------------- MODULE MCAnchoring ----------------------------
(***************************************************************************)
(* The anchoring of decisions: the coordinators with the contract, and the *)
(* tree of a batch.  The coordinators' batches have few leaves and the     *)
(* tree wants many, and the tree's rows are written once and only read, so *)
(* one run explores each by itself: "which" says whose behaviour this is.  *)
(* The coordinators are explored three times: one process at a time, with  *)
(* a fault, another gateway and timestamps ahead of the clock; two at a    *)
(* time that share the contract and its pool, without faults; two at a     *)
(* time with a fault over the tables, where no gateway is authorised.      *)
(***************************************************************************)
EXTENDS BatchCoordinator, MerkleTree, TLC

VARIABLE which

ReplicaSymmetry == Permutations(Replica)

anchoringVars == <<which, vars, treeVars>>

AnchoringInit ==
  /\ which \in {"alone", "chain", "tables", "tree"}
  /\ Init /\ TreeInit

OneRuns == Cardinality({r \in Replica : loop[r] # Down}) <= 1

NoneSupplied == \A d \in Decision : rows[d] # NoRow => rows[d].timestamp <= MaxTime

AnchoringNext ==
  /\ UNCHANGED which
  /\ \/ which = "alone" /\ Next /\ OneRuns' /\ UNCHANGED treeVars
     \/ /\ which = "chain" /\ Next /\ UNCHANGED treeVars
        /\ faults' = 0 /\ isAuthorisedGateway' \subseteq {Coordinator} /\ NoneSupplied'
     \/ which = "tables" /\ Next /\ isAuthorisedGateway' = {} /\ NoneSupplied' /\ UNCHANGED treeVars
     \/ which = "tree" /\ TreeNext /\ UNCHANGED vars

AnchoringSpec == AnchoringInit /\ [][AnchoringNext]_anchoringVars
=============================================================================
