----------------------------- MODULE MerkleTree -----------------------------
(***************************************************************************)
(* The tree of a batch in decision_layer/services/batch_coordinator.py:    *)
(* how _build_merkle_batch makes it, which rows of merkle_nodes            *)
(* _persist_batch keeps of it, and how get_merkle_proof climbs those rows. *)
(*                                                                         *)
(* The hash function is free: distinct inputs have distinct hashes, and a  *)
(* hash is the pair that was hashed.  Levels count from the leaves, and    *)
(* levels and positions from 0, as in the table; sequences count from 1.   *)
(* Lookups are single statements and a stored batch never changes, so a    *)
(* request is one step.                                                    *)
(***************************************************************************)
EXTENDS Integers, FiniteSets, Sequences

CONSTANTS
  Leaf,      \* leaf hashes
  MaxLeaves  \* bound: leaves of a batch

\* None, and NULL in the table; and what a lookup by a missing key raises.  A
\* hash is neither: it is a leaf's or a pair.
Null == <<>>
KeyError == <<"KeyError">>

ASSUME TreeAssumption == MaxLeaves \in Nat /\ Leaf \cap {Null, KeyError} = {}

VARIABLES
  leaves,  \* the leaf hashes of the batch, in the order of their rows
  nodes,   \* table merkle_nodes: level and position |-> row, of this batch
  answer   \* what the last request for a proof came to

treeVars == <<leaves, nodes, answer>>

Stored == DOMAIN nodes

-----------------------------------------------------------------------------
(* _build_merkle_batch. *)

\* Mistake: the pair is sorted before it is hashed, as the contract does.
HashSorted(left, right) == {left, right}

Hash(left, right) == <<left, right>>

\* Mistake: an odd node goes up as it is.
NextLevelCarried(current) ==
  [i \in 1..((Len(current) + 1) \div 2) |->
     IF 2 * i <= Len(current) THEN Hash(current[2 * i - 1], current[2 * i])
     ELSE current[2 * i - 1]]

\* An odd node is hashed with itself.
NextLevel(current) ==
  [i \in 1..((Len(current) + 1) \div 2) |->
     Hash(current[2 * i - 1],
          IF 2 * i <= Len(current) THEN current[2 * i] ELSE current[2 * i - 1])]

\* The levels of a loop that does not end.
LevelsUp(batch) ==
  LET level[k \in 0..Len(batch)] == IF k = 0 THEN batch ELSE NextLevel(level[k - 1])
  IN  level

\* The loop goes on while a level has more than one node.
Top(batch) ==
  CHOOSE k \in 0..Len(batch) :
    Len(LevelsUp(batch)[k]) = 1 /\ \A j \in 0..(k - 1) : Len(LevelsUp(batch)[j]) > 1

Levels(batch) ==
  LET level == LevelsUp(batch) IN [k \in 0..Top(batch) |-> level[k]]

MerkleRoot(batch) == LevelsUp(batch)[Top(batch)][1]

-----------------------------------------------------------------------------
(* _persist_batch. *)

\* Mistake: the right child is looked for where the left one was.
NodeRowLeftTwice(levels, level, position) ==
  [hash |-> levels[level][position + 1],
   left |-> IF level = 0 THEN Null ELSE levels[level - 1][2 * position + 1],
   right |-> IF level = 0 THEN Null ELSE levels[level - 1][2 * position + 1]]

NodeRow(levels, level, position) ==
  LET left == 2 * position
      right == IF left + 1 < Len(levels[level - 1]) THEN left + 1 ELSE left
  IN  [hash |-> levels[level][position + 1],
       left |-> IF level = 0 THEN Null ELSE levels[level - 1][left + 1],
       right |-> IF level = 0 THEN Null ELSE levels[level - 1][right + 1]]

NodeRows(levels) ==
  LET places == UNION {{<<k, p>> : p \in 0..(Len(levels[k]) - 1)} : k \in DOMAIN levels}
  IN  [kp \in places |-> NodeRow(levels, kp[1], kp[2])]

PersistNodes ==
  /\ leaves # <<>>
  /\ nodes = <<>>
  /\ nodes' = NodeRows(Levels(leaves))
  /\ UNCHANGED <<leaves, answer>>

-----------------------------------------------------------------------------
(* get_merkle_proof. *)

\* Mistake: the sibling is always the one to the right.
SiblingRight(position) == position + 1

\* position ^ 1.
Sibling(position) == IF position % 2 = 0 THEN position + 1 ELSE position - 1

\* A leaf's position and, level by level, those above it: position //= 2.
PositionsUp(leafIndex) ==
  LET position[level \in 0..(MaxLeaves + 1)] ==
        IF level = 0 THEN leafIndex ELSE position[level - 1] \div 2
  IN  position

\* The climb from a leaf: at each level the sibling, or the node itself where
\* there is none, until no row is found above; the root's own entry is popped.
\* What is found at each place is a parameter; a climb fails where a lookup does.
ProofHashes(found, leafIndex) ==
  LET position == PositionsUp(leafIndex)
      current == [level \in 0..MaxLeaves |-> found[level, position[level]]]
      sibling == [level \in 0..MaxLeaves |-> found[level, Sibling(position[level])]]
      above == [level \in 0..MaxLeaves |-> found[level + 1, position[level + 1]]]
      fails(level) == KeyError \in {sibling[level], current[level], above[level]}
      last == CHOOSE level \in 0..MaxLeaves :
                /\ fails(level) \/ above[level] = Null
                /\ \A k \in 0..(level - 1) : ~fails(k) /\ above[k] # Null
  IN  IF fails(last) THEN KeyError
      ELSE [k \in 1..last |-> IF sibling[k - 1] = Null THEN current[k - 1] ELSE sibling[k - 1]]

\* Where a climb may look.
Place == (0..(MaxLeaves + 1)) \X (0..(MaxLeaves + 1))

\* What the table holds.
NodeHash == [kp \in Place |-> IF kp \in Stored THEN nodes[kp].hash ELSE Null]

\* What _fetch_node_hash makes of it: the pool's connections return rows as
\* dictionaries (dict_row), and a row that is found is asked for its element 0.
FetchNodeHash == [kp \in Place |-> IF kp \in Stored THEN KeyError ELSE Null]

GetMerkleProof(leafIndex) ==
  /\ <<0, leafIndex>> \in Stored
  /\ answer' = [index |-> leafIndex, proof |-> ProofHashes(FetchNodeHash, leafIndex)]
  /\ UNCHANGED <<leaves, nodes>>

-----------------------------------------------------------------------------

TreeInit ==
  /\ leaves = <<>>
  /\ nodes = <<>>
  /\ answer = Null

\* A batch of any leaves is put together, whose rows are then stored.
AddLeaf(leaf) ==
  /\ nodes = <<>>
  /\ Len(leaves) < MaxLeaves
  /\ leaves' = Append(leaves, leaf)
  /\ UNCHANGED <<nodes, answer>>

TreeNext ==
  \/ \E leaf \in Leaf : AddLeaf(leaf)
  \/ PersistNodes
  \/ \E leafIndex \in 0..(MaxLeaves - 1) : GetMerkleProof(leafIndex)

TreeSpec == TreeInit /\ [][TreeNext]_treeVars

-----------------------------------------------------------------------------
(* Properties. *)

\* The reference, from the root down: the tree of least height that has room
\* for the leaves; a half that has none repeats the other half.
Reference(batch) ==
  LET width[h \in 0..Len(batch)] == IF h = 0 THEN 1 ELSE 2 * width[h - 1]
      height == CHOOSE h \in 0..Len(batch) :
                  width[h] >= Len(batch) /\ \A g \in 0..(h - 1) : width[g] < Len(batch)
      tree[h \in 0..Len(batch)] ==
        IF h = 0 THEN batch
        ELSE [first \in 1..Len(batch) |->
                LET middle == first + width[h - 1]
                IN  Hash(tree[h - 1][first],
                         IF middle <= Len(batch) THEN tree[h - 1][middle] ELSE tree[h - 1][first])]
  IN  tree[height][1]

\* "Every 10-minute cycle builds a canonical Merkle tree": what the level by
\* level loop, with its odd nodes, makes of any leaves is the tree one would
\* define without looking at the loop.
RootIsCanonical == leaves # <<>> => MerkleRoot(leaves) = Reference(leaves)

\* "Full tree nodes are persisted for independent proof reconstruction": every
\* inner row hashes what it names as its children, and these are the rows one
\* level below, so that the tree can be walked from the root row down.
NodesLinked ==
  \A kp \in Stored : kp[1] > 0 =>
    LET row == nodes[kp]
        left == NodeHash[kp[1] - 1, 2 * kp[2]]
        right == NodeHash[kp[1] - 1, 2 * kp[2] + 1]
    IN  /\ row.hash = Hash(row.left, row.right)
        /\ row.left = left
        /\ row.right = IF right = Null THEN left ELSE right

\* An auditor's check of a proof: the side of each hash is read off the index.
Fold(leafHash, leafIndex, proof) ==
  LET position == PositionsUp(leafIndex)
      up[k \in 0..Len(proof)] ==
        IF k = 0 THEN leafHash
        ELSE IF position[k - 1] % 2 = 0 THEN Hash(up[k - 1], proof[k])
        ELSE Hash(proof[k], up[k - 1])
  IN  up[Len(proof)]

\* The stored rows suffice for a proof of every leaf, the climb finds it, and it
\* proves this leaf and no other at its index.
ClimbProves ==
  \A kp \in Stored : kp[1] = 0 =>
    \A leaf \in Leaf :
      Fold(leaf, kp[2], ProofHashes(NodeHash, kp[2])) = MerkleRoot(leaves)
        <=> leaf = leaves[kp[2] + 1]

\* The rows are linked as they say, and prove what they should.
RowsProve == NodesLinked /\ ClimbProves

\* A root commits to its leaves and their order: two batches of as many leaves
\* have different roots.  (Without the number they may not: the contract keeps
\* leafCount beside the root, and an odd leaf counts twice in the tree.)
RootBindsLeaves ==
  leaves # <<>> =>
    \A other \in [1..Len(leaves) -> Leaf] :
      MerkleRoot(other) = MerkleRoot(leaves) => other = leaves

\* "Any individual decision can be proven with a Merkle proof": a request for
\* the proof of a batched decision is answered with one.
ProofsServed == answer # Null => answer.proof # KeyError
=============================================================================
