--------------------------- MODULE PolicyRegistry ---------------------------
(***************************************************************************)
(* contracts/PolicyRegistry.sol: policy snapshots written on the word of   *)
(* two of three guardians.  A transaction that reverts leaves no trace, so *)
(* each external function is one action whose guard is the conjunction of  *)
(* its revert conditions.                                                  *)
(*                                                                         *)
(* Abstractions.  A digest is the payload it hashes (keccak256 and the     *)
(* EIP-191 prefix are injective, chain id and contract address are fixed). *)
(* A signature is the pair of its signer and the payload it was made over. *)
(* policyHash and validFrom are always signed and stored together: both    *)
(* are the field content.  updatedAt is written and never read.            *)
(***************************************************************************)
EXTENDS Naturals, Sequences, FiniteSets, Functions

CONSTANTS
  Account,       \* the non-zero addresses that sign, guardians and others
  Administrator, \* the non-zero addresses that ownership may pass between
  ZeroAddress,
  PolicyId,      \* non-zero policy identifiers
  ZeroId,
  Content,       \* (policyHash, validFrom) pairs
  NoContent,     \* the content of a policy never upserted, and of a revocation
  Nonce,         \* uint64 nonces
  Malformed,     \* bytes that no signer can be recovered from
  Nobody,        \* what ecrecover yields for a signature over another digest
  MaxVersion,    \* largest uint32
  Deployments,   \* guardian arrays the constructor may be called with
  Requested,     \* the payloads guardians are asked to sign; no signature over
                 \* another payload exists, so no other can be executed
  MaxSignatures  \* bound: signatures in one call

Slot == 0..2
Required == 2

Payload ==
  [kind : {"upsert"}, id : PolicyId \cup {ZeroId}, content : Content, nonce : Nonce]
    \cup
  [kind : {"revoke"}, id : PolicyId \cup {ZeroId}, content : {NoContent}, nonce : Nonce]

Signature == [signer : Account, digest : Payload]

Policy == [content : Content \cup {NoContent}, version : 0..MaxVersion, active : BOOLEAN]

NoPolicy == [content |-> NoContent, version |-> 0, active |-> FALSE]

ASSUME RegistryAssumption ==
  /\ ZeroAddress \notin Account \cup Administrator
  /\ ZeroId \notin PolicyId
  /\ NoContent \notin Content
  /\ Nobody \notin Account \cup {ZeroAddress}
  /\ Malformed \notin Signature
  /\ MaxVersion \in Nat
  /\ Deployments \subseteq [Slot -> Account \cup {ZeroAddress}]
  /\ MaxSignatures \in Nat
  /\ Requested \subseteq Payload

VARIABLES
  owner,         \* Ownable: the administrator, ZeroAddress once renounced
  pendingOwner,  \* Ownable2Step: the nominated administrator
  guardians,     \* address[3] guardians
  policies,      \* mapping policyId => Policy
  usedNonces,    \* mapping nonce => bool, as the set of used ones
  signed         \* signatures made so far, off chain, by their signers

vars == <<owner, pendingOwner, guardians, policies, usedNonces, signed>>

Ownership == INSTANCE Ownable2Step

Init ==
  /\ Ownership!Init
  /\ guardians \in {g \in Deployments : IsInjective(g) /\ \A i \in Slot : g[i] # ZeroAddress}
  /\ policies = [p \in PolicyId \cup {ZeroId} |-> NoPolicy]
  /\ usedNonces = {}
  /\ signed = {}

-----------------------------------------------------------------------------
(* Signatures. *)

Guardians == {guardians[i] : i \in Slot}

\* _recoverSigner: the address that ecrecover yields for a payload.
RecoverSigner(payload, sig) ==
  IF sig = Malformed THEN ZeroAddress
  ELSE IF sig.digest = payload THEN sig.signer
  ELSE Nobody

\* Mistake: the loop without its search for DuplicateSigner.
RepetitionCounts(payload, sigs) ==
  /\ Len(sigs) >= Required
  /\ \A i \in 1..Required : RecoverSigner(payload, sigs[i]) \in Guardians

\* Mistake: approvals counted before the signer is looked up among guardians.
StrangersCount(payload, sigs) ==
  /\ Len(sigs) >= Required
  /\ \A i, j \in 1..Required :
       /\ RecoverSigner(payload, sigs[i]) \in Account
       /\ i # j => RecoverSigner(payload, sigs[i]) # RecoverSigner(payload, sigs[j])

\* The loop returns at its second approval and reverts on the first signature
\* that is malformed, not a guardian's, or a repetition: what it decides is
\* decided by the first Required signatures, and the rest are never looked at.
ThresholdMet(payload, sigs) ==
  /\ Len(sigs) >= Required
  /\ \A i \in 1..Required :
       /\ RecoverSigner(payload, sigs[i]) \in Guardians
       /\ \A j \in 1..(i - 1) :
            RecoverSigner(payload, sigs[j]) # RecoverSigner(payload, sigs[i])

-----------------------------------------------------------------------------
(* External functions. *)

\* Mistake: the nonce is marked without being tested.
NonceUntested(payload, sigs) ==
  /\ payload.id # ZeroId
  /\ ThresholdMet(payload, sigs)
  /\ policies[payload.id].version < MaxVersion

\* A transaction carrying these arguments would succeed (p.version += 1 is
\* checked arithmetic and reverts at the top of uint32).
Accepted(payload, sigs) ==
  /\ payload.id # ZeroId
  /\ payload.nonce \notin usedNonces
  /\ ThresholdMet(payload, sigs)
  /\ policies[payload.id].version < MaxVersion

UpsertPolicy(payload, sigs) ==
  /\ payload.kind = "upsert"
  /\ Accepted(payload, sigs)
  /\ usedNonces' = usedNonces \cup {payload.nonce}
  /\ policies' = [policies EXCEPT ![payload.id] =
       [content |-> payload.content, version |-> @.version + 1, active |-> TRUE]]
  /\ UNCHANGED <<owner, pendingOwner, guardians, signed>>

\* A revocation keeps the hash of what it revokes.
RevokePolicy(payload, sigs) ==
  /\ payload.kind = "revoke"
  /\ Accepted(payload, sigs)
  /\ usedNonces' = usedNonces \cup {payload.nonce}
  /\ policies' = [policies EXCEPT ![payload.id] =
       [content |-> @.content, version |-> @.version + 1, active |-> FALSE]]
  /\ UNCHANGED <<owner, pendingOwner, guardians, signed>>

\* Mistake: the new guardian is compared with the slot it replaces only.
SetGuardianRepeats(caller, i, newGuardian) ==
  /\ caller = owner
  /\ i \in Slot
  /\ newGuardian \notin {ZeroAddress, guardians[i]}
  /\ guardians' = [guardians EXCEPT ![i] = newGuardian]
  /\ UNCHANGED <<owner, pendingOwner, policies, usedNonces, signed>>

\* Mistake: the zero address passes as a guardian.
SetGuardianZero(caller, i, newGuardian) ==
  /\ caller = owner
  /\ i \in Slot
  /\ \A j \in Slot \ {i} : guardians[j] # newGuardian
  /\ guardians' = [guardians EXCEPT ![i] = newGuardian]
  /\ UNCHANGED <<owner, pendingOwner, policies, usedNonces, signed>>

SetGuardian(caller, i, newGuardian) ==
  /\ caller = owner
  /\ i \in Slot
  /\ newGuardian # ZeroAddress
  /\ \A j \in Slot \ {i} : guardians[j] # newGuardian
  /\ guardians' = [guardians EXCEPT ![i] = newGuardian]
  /\ UNCHANGED <<owner, pendingOwner, policies, usedNonces, signed>>

\* Off chain: the holder of an address signs a payload put before it.
Sign(a, payload) ==
  /\ signed' = signed \cup {[signer |-> a, digest |-> payload]}
  /\ UNCHANGED <<owner, pendingOwner, guardians, policies, usedNonces>>

\* Anyone submits any arrangement of the signatures that exist, and of bytes
\* that are no signature, for any payload.
Calldata ==
  LET available == signed \cup {Malformed}
  IN  UNION {[1..n -> available] : n \in 0..MaxSignatures}

Administer ==
  \/ \E caller \in Administrator, i \in 0..3, a \in Account \cup {ZeroAddress} :
       SetGuardian(caller, i, a)
  \/ Ownership!Next /\ UNCHANGED <<guardians, policies, usedNonces, signed>>

Next ==
  \/ Administer
  \/ \E a \in Account, payload \in Requested : Sign(a, payload)
  \/ \E payload \in Requested, sigs \in Calldata :
       UpsertPolicy(payload, sigs) \/ RevokePolicy(payload, sigs)

Spec == Init /\ [][Next]_vars

-----------------------------------------------------------------------------
(* Properties. *)

TypeOK ==
  /\ Ownership!TypeOK
  /\ guardians \in [Slot -> Account]
  /\ policies \in [PolicyId \cup {ZeroId} -> Policy]
  /\ usedNonces \subseteq Nonce
  /\ signed \subseteq Signature

\* No sequence of rotations puts one address in two slots: "2-of-3" would then
\* be met by fewer people (constructor and setGuardian check different things).
GuardiansDistinct == IsInjective(guardians)

SignedBy(payload) == {a \in Account : [signer |-> a, digest |-> payload] \in signed}

\* A policy's present value is one that two different accounts put their names
\* to under a nonce that is now spent, whatever became of the guardian set:
\* an active policy shows content signed for it, an inactive one was revoked.
PolicyBacked ==
  \A p \in PolicyId : policies[p].version > 0 =>
    \E payload \in Requested :
      /\ payload.id = p
      /\ payload.nonce \in usedNonces
      /\ payload.kind = IF policies[p].active THEN "upsert" ELSE "revoke"
      /\ policies[p].active => payload.content = policies[p].content
      /\ \E a, b \in SignedBy(payload) : a # b

\* Every change of a policy is authorised at the moment it is made: by two
\* accounts that are guardians then and have both signed the very payload that
\* takes effect, whose nonce was unspent.  A guardian rotated out after signing
\* no longer counts, one rotated in counts for what it signed before.
ChangeHasQuorum ==
  [][\A p \in PolicyId : policies'[p] # policies[p] =>
       \E payload \in Requested :
         /\ payload.id = p
         /\ payload.nonce \in usedNonces' \ usedNonces
         /\ policies'[p].active <=> payload.kind = "upsert"
         /\ \E a, b \in SignedBy(payload) \cap Guardians : a # b]_vars

\* The promise this contract keeps: a policy is in force with some content, or
\* not in force; guardians are a set; signatures are approvals.
Promise == INSTANCE GuardianQuorum WITH
  Payload <- Requested,
  Quorums <- {Q \in SUBSET Account : Cardinality(Q) >= Required},
  members <- Guardians,
  approvals <- {<<s.signer, s.digest>> : s \in signed},
  value <- [p \in PolicyId |->
              IF policies[p].active THEN policies[p].content ELSE NoContent],
  spent <- usedNonces

\* The registry implements 2-of-3 approval as GuardianQuorum states it, through
\* nonce consumption, signature recovery and the early return of its loop.
ImplementsQuorum == Promise!Spec
=============================================================================
