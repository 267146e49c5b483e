--------------------------- MODULE DecisionLedger ---------------------------
(***************************************************************************)
(* What the audit trail promises about decisions: one that is stored       *)
(* becomes a leaf of a batch, whose leaves are chosen once, and points to  *)
(* the last batch that took it; what is committed on chain is the root of  *)
(* a batch that was formed.  Nothing goes back: no decision loses its      *)
(* batch, no batch its leaves.  (That a decision is taken once only is     *)
(* more than the code keeps.)  BatchCoordinator over MerkleAnchor          *)
(* implements this specification.                                          *)
(***************************************************************************)
EXTENDS Naturals, Sequences, FiniteSets

CONSTANT Decision

VARIABLES
  stored,     \* decisions that have been recorded
  formed,     \* the batches, as sequences of leaves
  batchOf,    \* the batch that each decision points to, or 0
  committed   \* the roots that are on chain: a root stands for its leaves

vars == <<stored, formed, batchOf, committed>>

Init ==
  /\ stored = {}
  /\ formed = <<>>
  /\ batchOf = [d \in Decision |-> 0]
  /\ committed = {}

Store(d) ==
  /\ stored' = stored \cup {d}
  /\ UNCHANGED <<formed, batchOf, committed>>

Form(size) ==
  /\ \E leaves \in [1..size -> stored] :
       /\ \A i, j \in 1..size : leaves[i] = leaves[j] => i = j
       /\ formed' = Append(formed, leaves)
       /\ batchOf' = [d \in Decision |->
            IF \E i \in 1..size : leaves[i] = d THEN Len(formed) + 1 ELSE batchOf[d]]
  /\ UNCHANGED <<stored, committed>>

Commit(b) ==
  /\ committed' = committed \cup {formed[b]}
  /\ UNCHANGED <<stored, formed, batchOf>>

Next ==
  \/ \E d \in Decision : Store(d)
  \/ \E size \in 1..Cardinality(stored) : Form(size)
  \/ \E b \in DOMAIN formed : Commit(b)

Spec == Init /\ [][Next]_vars
=============================================================================
