---------------------------- MODULE Ownable2Step ----------------------------
(***************************************************************************)
(* OpenZeppelin's Ownable2Step, which the three contracts inherit as it    *)
(* is: an owner nominates a successor, who takes over by accepting.        *)
(***************************************************************************)
CONSTANTS
  Administrator,  \* the non-zero addresses that ownership may pass between
  ZeroAddress

VARIABLES
  owner,          \* ZeroAddress once ownership is renounced
  pendingOwner    \* ZeroAddress while no one is nominated

Init == owner \in Administrator /\ pendingOwner = ZeroAddress

TypeOK ==
  /\ owner \in Administrator \cup {ZeroAddress}
  /\ pendingOwner \in Administrator \cup {ZeroAddress}

TransferOwnership(caller, newOwner) ==
  /\ caller = owner
  /\ pendingOwner' = newOwner
  /\ UNCHANGED owner

AcceptOwnership(caller) ==
  /\ caller = pendingOwner
  /\ owner' = caller
  /\ pendingOwner' = ZeroAddress

RenounceOwnership(caller) ==
  /\ caller = owner
  /\ owner' = ZeroAddress
  /\ pendingOwner' = ZeroAddress

Next ==
  \E caller \in Administrator :
    \/ \E a \in Administrator \cup {ZeroAddress} : TransferOwnership(caller, a)
    \/ AcceptOwnership(caller)
    \/ RenounceOwnership(caller)
=============================================================================
