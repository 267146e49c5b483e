-------------------------- MODULE PolicyGovernance --------------------------
(***************************************************************************)
(* The governance half of decision_layer/services/batch_coordinator.py,    *)
(* over the contract of PolicyRegistry: a proposal is stored, signatures   *)
(* are collected for it over HTTP, and a request anchors it on chain.      *)
(* Requests run concurrently on one event loop; every await is a step, and *)
(* the process may stop at any of them.  Postgres and the chain survive.   *)
(*                                                                         *)
(* The ledger between the coordinator and the contract is external and is  *)
(* modelled from how the code calls it: a transaction carries a number of  *)
(* the sender's account, waits in the pool, and is mined in the order of   *)
(* these numbers, dropped, or replaced by another of the same number.      *)
(***************************************************************************)
EXTENDS Naturals, Sequences, FiniteSets

CONSTANTS
  Account, Administrator, ZeroAddress, PolicyId, ZeroId, Content, NoContent,
  Nonce, Malformed, Nobody, MaxVersion, Deployments, Requested, MaxSignatures,
  ProposalId,   \* the uuids that propose_policy may draw
  NoProposal,
  Submissions,  \* bound: pairs of a signer_address string and the account whose
                \* signature is posted with it, or Malformed
  Rotations,    \* bound: pairs of a slot and the account the owner puts in it
  Request,      \* slots for anchor requests in progress
  Builds,       \* what build_transaction may come to: TRUE, a transaction; FALSE,
                \* a coroutine that nobody awaits, as with the web3 that is required
  CallsFail,    \* whether calls to the node and to the database may fail
  MaxSent       \* bound: transactions sent in a behaviour

Status == {"pending_signatures", "anchored", "anchor_failed"}

VARIABLES
  owner, pendingOwner, guardians, policies, usedNonces, signed,
  proposals,    \* table policy_proposals
  collected,    \* table proposal_signatures: per proposal, by signed_at
  request,      \* the anchor requests in progress, volatile
  pool,         \* every transaction the ledger accepted, with its fate
  mined         \* transactions of the coordinator's account that were mined

registry == <<owner, pendingOwner, guardians, policies, usedNonces, signed>>

vars == <<registry, proposals, collected, request, pool, mined>>

Registry == INSTANCE PolicyRegistry

\* An anchoring may submit three signatures, so a call may carry as many.
ASSUME GovernanceAssumption ==
  /\ Registry!RegistryAssumption /\ MaxSignatures >= 3
  /\ Rotations \subseteq (0..3) \X (Account \cup {ZeroAddress})
  /\ NoProposal \notin [payload : Requested, status : Status]
  /\ Builds \subseteq BOOLEAN /\ CallsFail \in BOOLEAN
  /\ MaxSent \in Nat

Idle == [pc |-> "idle"]

Init ==
  /\ Registry!Init
  /\ proposals = [q \in ProposalId |-> NoProposal]
  /\ collected = [q \in ProposalId |-> <<>>]
  /\ request = [r \in Request |-> Idle]
  /\ pool = {}
  /\ mined = 0

-----------------------------------------------------------------------------
(* Proposals and signatures. *)

\* The nonce is the millisecond clock modulo 2^32, so nothing keeps two
\* proposals from drawing the same one.
ProposePolicy(q, payload) ==
  /\ proposals[q] = NoProposal
  /\ payload.kind = "upsert"
  /\ proposals' = [proposals EXCEPT ![q] =
                     [payload |-> payload, status |-> "pending_signatures"]]
  /\ UNCHANGED <<registry, collected, request, pool, mined>>

\* A row per (proposal, signer); a second one replaces the signature and keeps
\* signed_at.  Only the length is validated: Malformed stands for 65 bytes from
\* which no guardian can be recovered.  Nothing ties the signer_address string
\* to the signature, so one signature may be stored under two of them.
CollectSignature(q, signer, sig) ==
  /\ proposals[q] # NoProposal
  /\ LET row == [signer |-> signer, signature |-> sig]
         at  == {i \in DOMAIN collected[q] : collected[q][i].signer = signer}
     IN  collected' = [collected EXCEPT ![q] =
           IF at = {} THEN Append(@, row)
           ELSE [i \in DOMAIN @ |-> IF i \in at THEN row ELSE @[i]]]
  /\ UNCHANGED <<registry, proposals, request, pool, mined>>

-----------------------------------------------------------------------------
(* anchor_policy_on_chain, an action per await. *)

\* Mistake: the count is not compared with the threshold.
FetchTooFew(r, q) ==
  /\ request[r] = Idle
  /\ proposals[q] # NoProposal
  /\ request' = [request EXCEPT ![r] =
       [pc |-> "fetched", proposal |-> q,
        sigs |-> [i \in DOMAIN collected[q] |-> collected[q][i].signature]]]
  /\ UNCHANGED <<registry, proposals, collected, pool, mined>>

\* The proposal and the first three signatures by signed_at; fewer than two is
\* an error that changes nothing.  The status of the proposal is not examined.
FetchSignatures(r, q) ==
  /\ request[r] = Idle
  /\ proposals[q] # NoProposal
  /\ Len(collected[q]) >= 2
  /\ request' = [request EXCEPT ![r] =
       [pc |-> "fetched", proposal |-> q,
        sigs |-> [i \in 1..(IF Len(collected[q]) < 3 THEN Len(collected[q]) ELSE 3)
                    |-> collected[q][i].signature]]]
  /\ UNCHANGED <<registry, proposals, collected, pool, mined>>

Pending == {tx \in pool : tx.status = "pending"}

\* get_transaction_count(sender, "pending"): the first number not taken.
NextNumber ==
  CHOOSE n \in mined..(mined + Cardinality(Pending)) :
    /\ \A tx \in Pending : tx.number # n
    /\ \A m \in mined..(n - 1) : \E tx \in Pending : tx.number = m

ReadNonce(r) ==
  /\ request[r].pc = "fetched"
  /\ request' = [request EXCEPT ![r] =
       [pc |-> "numbered", proposal |-> @.proposal, sigs |-> @.sigs, number |-> NextNumber]]
  /\ UNCHANGED <<registry, proposals, collected, pool, mined>>

PayloadOf(r) == proposals[request[r].proposal].payload

\* build_transaction, the first use of its result, which a coroutine does not
\* survive, and estimate_gas, which raises where the call would revert.
EstimateGas(r) ==
  /\ request[r].pc = "numbered"
  /\ \E built \in Builds :
       request' = [request EXCEPT ![r].pc =
         IF built /\ Registry!Accepted(PayloadOf(r), request[r].sigs)
         THEN "estimated" ELSE "failed"]
  /\ UNCHANGED <<registry, proposals, collected, pool, mined>>

\* The node refuses a number that was mined; one that waits is refused too or
\* replaced, as the gas prices go.  The answer may be lost after acceptance.
SendTransaction(r) ==
  /\ request[r].pc = "estimated"
  /\ request[r].number >= mined
  /\ Cardinality(pool) < MaxSent
  /\ LET rivals == {tx \in Pending : tx.number = request[r].number}
     IN  pool' = (pool \ rivals)
           \cup {[tx EXCEPT !.status = "dropped"] : tx \in rivals}
           \cup {[number |-> request[r].number, payload |-> PayloadOf(r),
                  sigs |-> request[r].sigs, status |-> "pending"]}
  /\ \E outcome \in IF CallsFail THEN {"sent", "failed"} ELSE {"sent"} :
       request' = [request EXCEPT ![r].pc = outcome]
  /\ UNCHANGED <<registry, proposals, collected, mined>>

\* A call to the node raises (refused, unreachable, timed out), or the update
\* that records its success is not made.
CallFails(r) ==
  /\ CallsFail
  /\ request[r].pc \in {"fetched", "numbered", "estimated", "sent"}
  /\ request' = [request EXCEPT ![r].pc = "failed"]
  /\ UNCHANGED <<registry, proposals, collected, pool, mined>>

SetStatus(r, status) ==
  /\ proposals' = [proposals EXCEPT ![request[r].proposal].status = status]
  /\ request' = [request EXCEPT ![r] = Idle]
  /\ UNCHANGED <<registry, collected, pool, mined>>

\* Mistake: the row is updated before the transaction is handed to the node.
MarkThenSend(r) == request[r].pc = "estimated" /\ SetStatus(r, "anchored")

\* No receipt is awaited between the sending and this.
MarkProposalAnchored(r) == request[r].pc = "sent" /\ SetStatus(r, "anchored")

\* The same, but the answer to its commit is lost.
MarkRaises(r) ==
  /\ CallsFail
  /\ request[r].pc = "sent"
  /\ proposals' = [proposals EXCEPT ![request[r].proposal].status = "anchored"]
  /\ request' = [request EXCEPT ![r].pc = "failed"]
  /\ UNCHANGED <<registry, collected, pool, mined>>

MarkProposalAnchorFailed(r) == request[r].pc = "failed" /\ SetStatus(r, "anchor_failed")

\* Recording the failure fails too.
GiveUp(r) ==
  /\ CallsFail
  /\ request[r].pc = "failed"
  /\ request' = [request EXCEPT ![r] = Idle]
  /\ UNCHANGED <<registry, proposals, collected, pool, mined>>

Crash ==
  /\ request' = [r \in Request |-> Idle]
  /\ UNCHANGED <<registry, proposals, collected, pool, mined>>
-----------------------------------------------------------------------------
(* The ledger. *)

Mine(tx) ==
  /\ tx.status = "pending"
  /\ tx.number = mined
  /\ mined' = mined + 1
  /\ \/ /\ Registry!UpsertPolicy(tx.payload, tx.sigs)
        /\ pool' = (pool \ {tx}) \cup {[tx EXCEPT !.status = "success"]}
     \/ /\ ~Registry!Accepted(tx.payload, tx.sigs)
        /\ pool' = (pool \ {tx}) \cup {[tx EXCEPT !.status = "reverted"]}
        /\ UNCHANGED registry
  /\ UNCHANGED <<proposals, collected, request>>

Evict(tx) ==
  /\ tx.status = "pending"
  /\ pool' = (pool \ {tx}) \cup {[tx EXCEPT !.status = "dropped"]}
  /\ UNCHANGED <<registry, proposals, collected, request, mined>>

\* What happens at the contract without the coordinator: guardians sign, the
\* owner rotates them, and anyone may execute what they signed.  (Ownership
\* changes hands in PolicyRegistry; here it would change nothing.)
Elsewhere ==
  /\ \/ \E post \in Submissions, payload \in Requested :
          post[2] \in Account /\ Registry!Sign(post[2], payload)
     \/ \E rotation \in Rotations : Registry!SetGuardian(owner, rotation[1], rotation[2])
     \/ \E payload \in Requested, sigs \in Registry!Calldata :
          Registry!UpsertPolicy(payload, sigs) \/ Registry!RevokePolicy(payload, sigs)
  /\ UNCHANGED <<proposals, collected, request, pool, mined>>

Anchor(r) ==
  \/ \E q \in ProposalId : FetchSignatures(r, q)
  \/ ReadNonce(r)
  \/ EstimateGas(r)
  \/ SendTransaction(r)
  \/ CallFails(r)
  \/ MarkProposalAnchored(r)
  \/ MarkRaises(r)
  \/ MarkProposalAnchorFailed(r)
  \/ GiveUp(r)

Next ==
  \/ \E q \in ProposalId, payload \in Requested : ProposePolicy(q, payload)
  \/ \E q \in ProposalId, post \in Submissions, sig \in signed \cup {Malformed} :
       /\ post[2] = IF sig = Malformed THEN Malformed ELSE sig.signer
       /\ CollectSignature(q, post[1], sig)
  \/ \E r \in Request : Anchor(r)
  \/ Crash
  \/ \E tx \in pool : Mine(tx) \/ Evict(tx)
  \/ Elsewhere

Spec == Init /\ [][Next]_vars

-----------------------------------------------------------------------------
(* Properties. *)

Transaction ==
  [number : 0..MaxSent, payload : Requested, sigs : Seq(Registry!Signature \cup {Malformed}),
   status : {"pending", "success", "reverted", "dropped"}]

TypeOK ==
  /\ Registry!TypeOK
  /\ \A q \in ProposalId :
       /\ proposals[q] # NoProposal =>
            /\ proposals[q].payload \in Requested
            /\ proposals[q].status \in Status
       /\ \A i, j \in DOMAIN collected[q] :
            i # j => collected[q][i].signer # collected[q][j].signer
  /\ \A r \in Request : request[r].pc \in
       {"idle", "fetched", "numbered", "estimated", "sent", "failed"}
  /\ \A tx \in pool : tx \in Transaction
  /\ mined \in 0..MaxSent

\* However often and however concurrently a proposal is anchored, and whatever
\* is retried after a crash or a lost answer, its payload takes effect at most
\* once: of the transactions with one governance nonce at most one succeeds.
EnactedOnce ==
  \A t, u \in pool :
    (t.status = "success" /\ u.status = "success" /\ t.payload.nonce = u.payload.nonce) => t = u

\* A proposal shown as anchored has had a transaction accepted by a node, in
\* this run of the process or an earlier one.
AnchoredWasSent ==
  \A q \in ProposalId :
    (proposals[q] # NoProposal /\ proposals[q].status = "anchored")
      => \E tx \in pool : tx.payload = proposals[q].payload

\* No attempt is made on the strength of fewer than two stored signatures: a
\* proposal that has an outcome has at least two, also when it was posted to
\* again, or the process restarted, since the attempt began.
OutcomeHadSignatures ==
  \A q \in ProposalId :
    (proposals[q] # NoProposal /\ proposals[q].status # "pending_signatures")
      => Len(collected[q]) >= 2

\* "Anchors a policy proposal on-chain via PolicyRegistry after signature
\* collection": while no call fails, a request whose proposal and signatures the
\* contract accepts gets past the building and estimation of its transaction.
ReadyIsSubmitted ==
  [][\A r \in Request :
       (request[r].pc = "numbered" /\ Registry!Accepted(PayloadOf(r), request[r].sigs))
         => request'[r].pc # "failed"]_vars
=============================================================================
