---------------------------- MODULE MerkleAnchor ----------------------------
(***************************************************************************)
(* contracts/MerkleAnchor.sol: an append-only list of Merkle roots, written *)
(* by authorised gateways.  A reverted call leaves no trace, so a function *)
(* is an action guarded by what it requires.  Batch identifiers count from *)
(* 1 and are the positions in the list; the manifest's CID is either empty *)
(* or not, and the block time is written and never read.                   *)
(***************************************************************************)
EXTENDS Naturals, Sequences

CONSTANTS
  Administrator,
  ZeroAddress,
  Gateway,      \* non-zero addresses that may be authorised
  ZeroRoot      \* bytes32(0)

VARIABLES
  owner, pendingOwner,
  isAuthorisedGateway,  \* the addresses on the allowlist
  anchors,              \* batches[1], batches[2], ...
  rootAnchored          \* the roots stored so far

Ownership == INSTANCE Ownable2Step

anchorVars == <<owner, pendingOwner, isAuthorisedGateway, anchors, rootAnchored>>

Init ==
  /\ Ownership!Init
  /\ isAuthorisedGateway = {}
  /\ anchors = <<>>
  /\ rootAnchored = {}

NextBatchId == Len(anchors) + 1

SetGatewayAuthorisation(caller, gateway, authorised) ==
  /\ caller = owner
  /\ gateway # ZeroAddress
  /\ isAuthorisedGateway' = IF authorised THEN isAuthorisedGateway \cup {gateway}
                            ELSE isAuthorisedGateway \ {gateway}
  /\ UNCHANGED <<owner, pendingOwner, anchors, rootAnchored>>

\* anchorRoot (or its alias anchorBatch) with these arguments would succeed.
Accepts(caller, root, leafCount, cidGiven) ==
  /\ caller \in isAuthorisedGateway
  /\ root # ZeroRoot
  /\ leafCount # 0
  /\ cidGiven
  /\ root \notin rootAnchored

AnchorRoot(caller, root, start, leafCount, cidGiven) ==
  /\ Accepts(caller, root, leafCount, cidGiven)
  /\ anchors' = Append(anchors,
       [root |-> root, gateway |-> caller, start |-> start, leafCount |-> leafCount])
  /\ rootAnchored' = rootAnchored \cup {root}
  /\ UNCHANGED <<owner, pendingOwner, isAuthorisedGateway>>
=============================================================================
