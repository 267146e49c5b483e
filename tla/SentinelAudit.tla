--------------------------- MODULE SentinelAudit ---------------------------
(***************************************************************************)
(* contracts/SentinelAudit.sol: decisions recorded once each by authorised *)
(* gateways, one at a time or in a batch that succeeds or reverts whole.   *)
(* Policy, score, action and flag travel with the evidence and are stored  *)
(* as they come; the evidence CID stands for the content of a record, and  *)
(* its hash for itself.                                                    *)
(***************************************************************************)
EXTENDS Naturals, Sequences

CONSTANTS
  Administrator, ZeroAddress, Gateway,
  DecisionId,   \* non-zero decision identifiers
  ZeroDecision,
  EmptyCid,
  NoDecision

VARIABLES
  owner, pendingOwner,
  isAuthorisedGateway,  \* the addresses on the allowlist
  decisionById,         \* the records; NoDecision where decisionExists is false
  events                \* the DecisionRecorded events, which carry the full CID

Ownership == INSTANCE Ownable2Step

Init ==
  /\ Ownership!Init
  /\ isAuthorisedGateway = {}
  /\ decisionById = [d \in DecisionId |-> NoDecision]
  /\ events = <<>>

SetGatewayAuthorisation(caller, gateway, authorised) ==
  /\ caller = owner
  /\ gateway # ZeroAddress
  /\ isAuthorisedGateway' = IF authorised THEN isAuthorisedGateway \cup {gateway}
                            ELSE isAuthorisedGateway \ {gateway}
  /\ UNCHANGED <<owner, pendingOwner, decisionById, events>>

\* recordDecision with these arguments would succeed.
Accepts(caller, d, cid) ==
  /\ caller \in isAuthorisedGateway
  /\ d # ZeroDecision
  /\ cid # EmptyCid
  /\ decisionById[d] = NoDecision

RecordDecision(caller, d, cid) ==
  /\ Accepts(caller, d, cid)
  /\ decisionById' = [decisionById EXCEPT ![d] = [cid |-> cid, gateway |-> caller]]
  /\ events' = Append(events, [id |-> d, cid |-> cid])
  /\ UNCHANGED <<owner, pendingOwner, isAuthorisedGateway>>

\* Mistake: the batch is checked first and written afterwards.
BatchCheckedFirst(caller, batch) ==
  \A i \in DOMAIN batch : Accepts(caller, batch[i].id, batch[i].cid)

\* The loop sees what its earlier turns have written.
BatchAccepted(caller, batch) ==
  \A i \in DOMAIN batch :
    /\ Accepts(caller, batch[i].id, batch[i].cid)
    /\ \A j \in 1..(i - 1) : batch[j].id # batch[i].id

RecordDecisionBatch(caller, batch) ==
  /\ batch # <<>>
  /\ BatchAccepted(caller, batch)
  /\ decisionById' = [d \in DecisionId |->
       IF \E i \in DOMAIN batch : batch[i].id = d
       THEN [cid |-> batch[CHOOSE i \in DOMAIN batch : batch[i].id = d].cid, gateway |-> caller]
       ELSE decisionById[d]]
  /\ events' = events \o batch
  /\ UNCHANGED <<owner, pendingOwner, isAuthorisedGateway>>
=============================================================================
