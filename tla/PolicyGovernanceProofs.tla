----------------------- MODULE PolicyGovernanceProofs -----------------------
(***************************************************************************)
(* What PolicyGovernance guarantees for any number of proposals, requests, *)
(* accounts and transactions.  A transaction succeeds only by spending its *)
(* nonce (Spent), so two of one nonce cannot.  A request that comes to the *)
(* point of marking its proposal as anchored left a transaction with this  *)
(* payload behind (Sent); one that got anywhere at all found a proposal    *)
(* with two signatures (Begun), and neither ever goes away.  Requests and  *)
(* transactions carry signatures that were made, and payloads that were    *)
(* asked for (Carried), so every step at the contract is one that          *)
(* PolicyRegistry has; and the numbers of the account are counted against  *)
(* the transactions (Counted).                                             *)
(***************************************************************************)
EXTENDS PolicyGovernance, FiniteSums

Proposal == [payload : Requested, status : Status]

IsTransaction(tx) ==
  tx = [number |-> tx.number, payload |-> tx.payload, sigs |-> tx.sigs, status |-> tx.status]

\* A list of rows, of whatever kind.
IsTable(rows) == \E S : rows \in Seq(S)

Types ==
  /\ proposals \in [ProposalId -> Proposal \cup {NoProposal}]
  /\ DOMAIN collected = ProposalId /\ \A q \in ProposalId : IsTable(collected[q])
  /\ collected = [q \in ProposalId |-> collected[q]]
  /\ request = [r \in Request |-> request[r]]
  /\ \A tx \in pool : IsTransaction(tx)

Spent == \A tx \in pool : tx.status = "success" => tx.payload.nonce \in usedNonces

Begun ==
  \A r \in Request : request[r] # Idle =>
    /\ {"pc", "proposal"} \subseteq DOMAIN request[r]
    /\ request[r].pc # "idle"
    /\ request[r].proposal \in ProposalId
    /\ proposals[request[r].proposal] # NoProposal
    /\ Len(collected[request[r].proposal]) >= 2

Sent ==
  \A r \in Request : (request[r] # Idle /\ request[r].pc = "sent") =>
    \E tx \in pool : tx.payload = proposals[request[r].proposal].payload

IInv ==
  /\ Types /\ Spent /\ Begun /\ Sent
  /\ EnactedOnce /\ AnchoredWasSent /\ OutcomeHadSignatures

-----------------------------------------------------------------------------

LEMMA InitInv == Init => IInv
<1> SUFFICES ASSUME Init PROVE IInv
  OBVIOUS
<1>1. /\ proposals = [q \in ProposalId |-> NoProposal] /\ collected = [q \in ProposalId |-> <<>>]
      /\ request = [r \in Request |-> Idle] /\ pool = {}
  BY DEF Init
<1>2. <<>> \in Seq({})
  OBVIOUS
<1>3. Types
  BY <1>1, <1>2 DEF Types, IsTable
<1>4. Spent /\ Begun /\ Sent /\ EnactedOnce /\ AnchoredWasSent /\ OutcomeHadSignatures
  BY <1>1 DEF Spent, Begun, Sent, EnactedOnce, AnchoredWasSent, OutcomeHadSignatures
<1>. QED
  BY <1>3, <1>4 DEF IInv

\* What a step may do that touches neither requests nor proposals: rows and spent
\* nonces are added, and transactions change their status.
LEMMA AroundInv ==
  ASSUME IInv, UNCHANGED <<proposals, request>>, Types', Spent', EnactedOnce',
         \A q \in ProposalId : Len(collected[q]) >= 2 => Len(collected[q])' >= 2,
         \A tx \in pool : \E u \in pool' : u.payload = tx.payload
  PROVE  IInv'
<1>1. Begun'
  BY DEF IInv, Begun
<1>2. Sent'
  BY DEF IInv, Sent
<1>3. AnchoredWasSent' /\ OutcomeHadSignatures'
  BY DEF IInv, AnchoredWasSent, OutcomeHadSignatures
<1>. QED
  BY <1>1, <1>2, <1>3 DEF IInv

LEMMA ProposeInv ==
  ASSUME IInv, NEW q \in ProposalId, NEW payload \in Requested, ProposePolicy(q, payload)
  PROVE  IInv'
<1>1. /\ proposals[q] = NoProposal
      /\ proposals' = [proposals EXCEPT ![q] = [payload |-> payload, status |-> "pending_signatures"]]
      /\ UNCHANGED <<collected, request, pool, usedNonces>>
  BY DEF ProposePolicy, registry
<1>2. /\ proposals' \in [ProposalId -> Proposal \cup {NoProposal}]
      /\ proposals'[q] = [payload |-> payload, status |-> "pending_signatures"]
      /\ \A p \in ProposalId \ {q} : proposals'[p] = proposals[p]
  BY <1>1 DEF IInv, Types, Proposal, Status
<1>3. Types' /\ Spent' /\ EnactedOnce'
  BY <1>1, <1>2 DEF IInv, Types, Spent, EnactedOnce
<1>4. \A r \in Request : request[r] # Idle => request[r].proposal # q
  BY <1>1 DEF IInv, Begun
<1>5. Begun' /\ Sent'
  BY <1>1, <1>2, <1>4 DEF IInv, Begun, Sent
<1>6. AnchoredWasSent' /\ OutcomeHadSignatures'
  BY <1>1, <1>2 DEF IInv, AnchoredWasSent, OutcomeHadSignatures
<1>. QED
  BY <1>3, <1>5, <1>6 DEF IInv

LEMMA TableGrows ==
  ASSUME NEW rows, IsTable(rows), NEW row, NEW at
  PROVE  /\ IsTable(Append(rows, row)) /\ Len(Append(rows, row)) = Len(rows) + 1
         /\ Len(rows) \in Nat
         /\ IsTable([i \in DOMAIN rows |-> IF i \in at THEN row ELSE rows[i]])
         /\ Len([i \in DOMAIN rows |-> IF i \in at THEN row ELSE rows[i]]) = Len(rows)
<1>1. PICK S : rows \in Seq(S)
  BY DEF IsTable
<1> DEFINE T == S \cup {row}
           new == [i \in DOMAIN rows |-> IF i \in at THEN row ELSE rows[i]]
<1>2. rows \in Seq(T) /\ row \in T
  BY <1>1
<1>3. Append(rows, row) \in Seq(T) /\ Len(Append(rows, row)) = Len(rows) + 1 /\ Len(rows) \in Nat
  BY <1>2
<1>4. new \in [1..Len(rows) -> T] /\ new \in Seq(T) /\ Len(new) = Len(rows)
  BY <1>2
<1>. QED
  BY <1>3, <1>4 DEF IsTable

LEMMA CollectInv ==
  ASSUME IInv, NEW q \in ProposalId, NEW signer, NEW sig, CollectSignature(q, signer, sig)
  PROVE  IInv'
<1> DEFINE row == [signer |-> signer, signature |-> sig]
           at == {i \in DOMAIN collected[q] : collected[q][i].signer = signer}
<1>1. /\ \/ collected' = [collected EXCEPT ![q] = Append(@, row)]
         \/ collected' = [collected EXCEPT ![q] = [i \in DOMAIN @ |-> IF i \in at THEN row ELSE @[i]]]
      /\ UNCHANGED <<proposals, request, pool, usedNonces>>
  BY DEF CollectSignature, registry
<1>. HIDE DEF row, at
<1>2. IsTable(collected[q]) /\ DOMAIN collected = ProposalId
  BY DEF IInv, Types
<1>3. /\ IsTable(collected'[q]) /\ Len(collected[q]) \in Nat /\ Len(collected'[q]) >= Len(collected[q])
      /\ \A p \in ProposalId \ {q} : collected'[p] = collected[p]
      /\ DOMAIN collected' = ProposalId /\ collected' = [p \in ProposalId |-> collected'[p]]
  <2> DEFINE added == Append(collected[q], row)
             changed == [i \in DOMAIN collected[q] |-> IF i \in at THEN row ELSE collected[q][i]]
  <2>1. PICK new : /\ collected' = [collected EXCEPT ![q] = new]
                   /\ new = added \/ new = changed
    BY <1>1
  <2>2. /\ Len(collected[q]) \in Nat
        /\ IsTable(added) /\ Len(added) = Len(collected[q]) + 1
        /\ IsTable(changed) /\ Len(changed) = Len(collected[q])
    BY <1>2, TableGrows
  <2>. HIDE DEF added, changed
  <2>3. IsTable(new) /\ Len(new) >= Len(collected[q])
    BY <2>1, <2>2
  <2>4. collected = [p \in ProposalId |-> collected[p]]
    BY DEF IInv, Types
  <2>5. /\ collected'[q] = new
        /\ \A p \in ProposalId \ {q} : collected'[p] = collected[p]
        /\ DOMAIN collected' = ProposalId /\ collected' = [p \in ProposalId |-> collected'[p]]
    BY <1>2, <2>1, <2>4
  <2>. QED
    BY <2>2, <2>3, <2>5
<1>4. Types'
  BY <1>1, <1>3 DEF IInv, Types
<1>5. Spent' /\ EnactedOnce'
  BY <1>1 DEF IInv, Spent, EnactedOnce
<1>6. \A p \in ProposalId : Len(collected[p]) >= 2 => Len(collected'[p]) >= 2
  <2>1. Len(collected'[q]) \in Nat
    BY <1>3, TableGrows
  <2>. QED
    BY <1>3, <2>1
<1>. QED
  BY <1>1, <1>4, <1>5, <1>6, AroundInv

-----------------------------------------------------------------------------
(* A request to anchor. *)

\* A request goes on: it keeps its proposal, and is "sent" only if the payload is
\* in the pool; transactions are added that are not successes, or dropped.
LEMMA RequestInv ==
  ASSUME IInv, NEW r \in Request, NEW new, UNCHANGED <<proposals, collected, usedNonces>>,
         request' = [request EXCEPT ![r] = new],
         \/ new = Idle
         \/ /\ new # Idle /\ {"pc", "proposal"} \subseteq DOMAIN new /\ new.pc # "idle"
            /\ new.proposal \in ProposalId /\ proposals[new.proposal] # NoProposal
            /\ Len(collected[new.proposal]) >= 2
            /\ new.pc = "sent" => \E tx \in pool' : tx.payload = proposals[new.proposal].payload,
         \A tx \in pool' : IsTransaction(tx) /\ (tx.status = "success" => tx \in pool),
         \A tx \in pool : \E u \in pool' : u.payload = tx.payload
  PROVE  IInv'
<1>1. /\ request' = [s \in Request |-> request'[s]] /\ request'[r] = new
      /\ \A s \in Request \ {r} : request'[s] = request[s]
  BY DEF IInv, Types
<1>2. Types'
  BY <1>1 DEF IInv, Types
<1>3. Spent' /\ EnactedOnce'
  BY DEF IInv, Spent, EnactedOnce
<1>4. Begun'
  BY <1>1 DEF IInv, Begun
<1>5. Sent'
  BY <1>1 DEF IInv, Sent
<1>6. AnchoredWasSent' /\ OutcomeHadSignatures'
  BY DEF IInv, AnchoredWasSent, OutcomeHadSignatures
<1>. QED
  BY <1>2, <1>3, <1>4, <1>5, <1>6 DEF IInv

\* Only the place where a request is, or its number, changes.
LEMMA MovesInv ==
  ASSUME IInv, NEW r \in Request, request[r] # Idle, NEW new,
         UNCHANGED <<proposals, collected, usedNonces, pool>>,
         request' = [request EXCEPT ![r] = new],
         {"pc", "proposal"} \subseteq DOMAIN new, new.pc \notin {"idle", "sent"},
         new.proposal = request[r].proposal
  PROVE  IInv'
<1>1. new # Idle
  BY DEF Idle
<1>2. /\ new.proposal \in ProposalId /\ proposals[new.proposal] # NoProposal
      /\ Len(collected[new.proposal]) >= 2
  BY DEF IInv, Begun
<1>3. \A tx \in pool : IsTransaction(tx)
  BY DEF IInv, Types
<1>. QED
  BY <1>1, <1>2, <1>3, RequestInv

LEMMA FetchInv ==
  ASSUME IInv, NEW r \in Request, NEW q \in ProposalId, FetchSignatures(r, q)
  PROVE  IInv'
<1>1. PICK sigs : /\ request' = [request EXCEPT ![r] = [pc |-> "fetched", proposal |-> q, sigs |-> sigs]]
                  /\ proposals[q] # NoProposal /\ Len(collected[q]) >= 2
                  /\ UNCHANGED <<proposals, collected, usedNonces, pool>>
  BY DEF FetchSignatures, registry
<1> DEFINE new == [pc |-> "fetched", proposal |-> q, sigs |-> sigs]
<1>2. /\ {"pc", "proposal"} \subseteq DOMAIN new /\ new.pc = "fetched" /\ new.proposal = q /\ new # Idle
  BY DEF Idle
<1>. HIDE DEF new
<1>3. \A tx \in pool : IsTransaction(tx)
  BY DEF IInv, Types
<1>4. request' = [request EXCEPT ![r] = new]
  BY <1>1 DEF new
<1>. QED
  BY <1>1, <1>2, <1>3, <1>4, RequestInv

LEMMA NotIdle ==
  ASSUME IInv, NEW r \in Request, request[r].pc # "idle"
  PROVE  /\ request[r] # Idle
         /\ {"pc", "proposal"} \subseteq DOMAIN request[r] /\ request[r].proposal \in ProposalId
         /\ proposals[request[r].proposal] \in Proposal
         /\ Len(collected[request[r].proposal]) >= 2
<1>1. request[r] # Idle
  BY DEF Idle
<1>. QED
  BY <1>1 DEF IInv, Begun, Types

\* [request EXCEPT ![r].pc = pc]
LEMMA PlaceChanges ==
  ASSUME IInv, NEW r \in Request, request[r].pc # "idle", NEW pc, pc \notin {"idle", "sent"},
         request' = [request EXCEPT ![r].pc = pc],
         UNCHANGED <<proposals, collected, usedNonces, pool>>
  PROVE  IInv'
<1> DEFINE new == [request[r] EXCEPT !.pc = pc]
<1>1. request[r] # Idle /\ {"pc", "proposal"} \subseteq DOMAIN request[r]
  BY NotIdle
<1>2. DOMAIN new = DOMAIN request[r] /\ new.pc = pc /\ new.proposal = request[r].proposal
  BY <1>1
<1>3. request' = [request EXCEPT ![r] = new]
  OBVIOUS
<1>. HIDE DEF new
<1>. QED
  BY <1>1, <1>2, <1>3, MovesInv

LEMMA NumberInv ==
  ASSUME IInv, NEW r \in Request, ReadNonce(r)
  PROVE  IInv'
<1> DEFINE new == [pc |-> "numbered", proposal |-> request[r].proposal, sigs |-> request[r].sigs,
                   number |-> NextNumber]
<1>1. /\ request[r].pc = "fetched" /\ request' = [request EXCEPT ![r] = new]
      /\ UNCHANGED <<proposals, collected, usedNonces, pool>>
  BY DEF ReadNonce, registry
<1>2. request[r] # Idle
  BY <1>1, NotIdle
<1>3. {"pc", "proposal"} \subseteq DOMAIN new /\ new.pc = "numbered" /\ new.proposal = request[r].proposal
  OBVIOUS
<1>. HIDE DEF new
<1>. QED
  BY <1>1, <1>2, <1>3, MovesInv

LEMMA EstimateInv ==
  ASSUME IInv, NEW r \in Request, EstimateGas(r)
  PROVE  IInv'
<1>1. /\ request[r].pc = "numbered"
      /\ UNCHANGED <<proposals, collected, usedNonces, pool>>
  BY DEF EstimateGas, registry
<1>2. PICK pc \in {"estimated", "failed"} : request' = [request EXCEPT ![r].pc = pc]
  BY DEF EstimateGas
<1>3. pc \notin {"idle", "sent"} /\ request[r].pc # "idle"
  BY <1>1
<1>. QED
  BY <1>1, <1>2, <1>3, PlaceChanges

LEMMA FailsInv ==
  ASSUME IInv, NEW r \in Request, CallFails(r)
  PROVE  IInv'
<1>1. /\ request[r].pc # "idle" /\ request' = [request EXCEPT ![r].pc = "failed"]
      /\ UNCHANGED <<proposals, collected, usedNonces, pool>>
  BY DEF CallFails, registry
<1>2. PICK pc : pc = "failed"
  OBVIOUS
<1>3. pc \notin {"idle", "sent"} /\ request' = [request EXCEPT ![r].pc = pc]
  BY <1>1, <1>2
<1>. QED
  BY <1>1, <1>3, PlaceChanges

LEMMA SendInv ==
  ASSUME IInv, NEW r \in Request, SendTransaction(r)
  PROVE  IInv'
<1> DEFINE rivals == {tx \in Pending : tx.number = request[r].number}
           tx0 == [number |-> request[r].number, payload |-> PayloadOf(r),
                   sigs |-> request[r].sigs, status |-> "pending"]
<1>1. /\ request[r].pc = "estimated"
      /\ pool' = (pool \ rivals) \cup {[tx EXCEPT !.status = "dropped"] : tx \in rivals} \cup {tx0}
      /\ UNCHANGED <<proposals, collected, usedNonces>>
      /\ \E outcome \in {"sent", "failed"} : request' = [request EXCEPT ![r].pc = outcome]
  BY DEF SendTransaction, registry
<1>2. rivals \subseteq pool /\ \A tx \in pool : IsTransaction(tx)
  BY DEF Pending, IInv, Types
<1>3. IsTransaction(tx0) /\ tx0.status = "pending" /\ tx0.payload = PayloadOf(r)
  BY DEF IsTransaction
<1>4. \A tx \in rivals : LET u == [tx EXCEPT !.status = "dropped"]
                         IN  IsTransaction(u) /\ u.status = "dropped" /\ u.payload = tx.payload
  BY <1>2 DEF IsTransaction
<1>. HIDE DEF rivals, tx0
<1>5. \A tx \in pool' : IsTransaction(tx) /\ (tx.status = "success" => tx \in pool)
  BY <1>1, <1>2, <1>3, <1>4
<1>6. \A tx \in pool : \E u \in pool' : u.payload = tx.payload
  BY <1>1, <1>4
<1>7. tx0 \in pool'
  BY <1>1
<1>8. PICK outcome \in {"sent", "failed"} : request' = [request EXCEPT ![r].pc = outcome]
  BY <1>1
<1> DEFINE new == [request[r] EXCEPT !.pc = outcome]
<1>9. /\ request[r] # Idle /\ {"pc", "proposal"} \subseteq DOMAIN request[r]
      /\ request[r].proposal \in ProposalId /\ Len(collected[request[r].proposal]) >= 2
      /\ proposals[request[r].proposal] # NoProposal
  BY <1>1, NotIdle DEF IInv, Begun
<1>10. /\ DOMAIN new = DOMAIN request[r] /\ new.pc = outcome /\ new.proposal = request[r].proposal
       /\ request' = [request EXCEPT ![r] = new]
  BY <1>8, <1>9
<1>. HIDE DEF new
<1>11. new # Idle /\ new.pc # "idle"
  BY <1>10 DEF Idle
<1>12. \E tx \in pool' : tx.payload = proposals[new.proposal].payload
  BY <1>3, <1>7, <1>10 DEF PayloadOf
<1>. QED
  BY <1>1, <1>5, <1>6, <1>9, <1>10, <1>11, <1>12, RequestInv

\* A row of the table gets its status, and nothing else of the table changes.
LEMMA StatusSet ==
  ASSUME NEW table \in [ProposalId -> Proposal \cup {NoProposal}], NEW q \in ProposalId,
         table[q] \in Proposal, NEW status \in Status, NEW new,
         new = [table EXCEPT ![q].status = status]
  PROVE  /\ new \in [ProposalId -> Proposal \cup {NoProposal}]
         /\ new[q].status = status /\ new[q].payload = table[q].payload
         /\ new[q] \in Proposal
         /\ \A p \in ProposalId \ {q} : new[p] = table[p]
  BY DEF Proposal

\* A proposal gets its status; the request ends, or goes on as a failed one.
LEMMA OutcomeInv ==
  ASSUME IInv, NEW r \in Request, NEW status \in {"anchored", "anchor_failed"},
         request[r].pc # "idle", status = "anchored" => request[r].pc = "sent",
         proposals' = [proposals EXCEPT ![request[r].proposal].status = status],
         NEW new, request' = [request EXCEPT ![r] = new],
         \/ new = Idle
         \/ /\ new # Idle /\ {"pc", "proposal"} \subseteq DOMAIN new
            /\ new.pc = "failed" /\ new.proposal = request[r].proposal,
         UNCHANGED <<collected, pool, usedNonces>>
  PROVE  IInv'
<1>a. PICK q : q = request[r].proposal
  OBVIOUS
<1>1. /\ proposals' = [proposals EXCEPT ![q].status = status]
      /\ request' = [request EXCEPT ![r] = new]
      /\ UNCHANGED <<collected, pool, usedNonces>>
  BY <1>a
<1>2. request[r] # Idle /\ q \in ProposalId /\ proposals[q] \in Proposal /\ Len(collected[q]) >= 2
  BY <1>a, NotIdle
<1>3. /\ proposals' \in [ProposalId -> Proposal \cup {NoProposal}]
      /\ proposals'[q].status = status /\ proposals'[q].payload = proposals[q].payload
      /\ proposals'[q] \in Proposal
      /\ \A p \in ProposalId \ {q} : proposals'[p] = proposals[p]
  <2>1. proposals \in [ProposalId -> Proposal \cup {NoProposal}] /\ status \in Status
    BY DEF IInv, Types, Status
  <2>2. proposals' = [proposals EXCEPT ![q].status = status]
    BY <1>1
  <2>. QED
    BY ONLY <1>2, <2>1, <2>2, StatusSet
<1>4. /\ request' = [s \in Request |-> request'[s]] /\ request'[r] = new
      /\ \A s \in Request \ {r} : request'[s] = request[s]
  BY <1>1 DEF IInv, Types
<1>5. Types'
  BY <1>1, <1>3, <1>4 DEF IInv, Types
<1>6. NoProposal \notin Proposal
  BY GovernanceAssumption DEF Proposal
<1>7. \A p \in ProposalId : /\ proposals'[p] # NoProposal <=> proposals[p] # NoProposal
                            /\ proposals[p] # NoProposal => proposals'[p].payload = proposals[p].payload
  BY <1>2, <1>3, <1>6
<1>8. Spent' /\ EnactedOnce'
  BY <1>1 DEF IInv, Spent, EnactedOnce
<1>9. Begun'
  BY <1>1, <1>2, <1>3, <1>4, <1>6, <1>7, <1>a DEF IInv, Begun
<1>10. Sent'
  BY <1>1, <1>4, <1>7, <1>9 DEF IInv, Begun, Sent
<1>11. AnchoredWasSent'
  <2>1. Sent /\ r \in Request /\ (status = "anchored" => request[r].pc = "sent")
    BY DEF IInv
  <2>2. status = "anchored" => \E tx \in pool : tx.payload = proposals[q].payload
    BY ONLY <1>a, <1>2, <2>1 DEF Sent
  <2>3. AnchoredWasSent /\ pool' = pool
    BY <1>1 DEF IInv
  <2>. QED
    BY ONLY <1>2, <1>3, <1>7, <2>2, <2>3 DEF AnchoredWasSent
<1>12. OutcomeHadSignatures'
  <2>1. OutcomeHadSignatures /\ collected' = collected
    BY <1>1 DEF IInv
  <2>. QED
    BY ONLY <1>2, <1>3, <1>7, <2>1 DEF OutcomeHadSignatures
<1>. QED
  BY <1>5, <1>8, <1>9, <1>10, <1>11, <1>12 DEF IInv

LEMMA StatusInv ==
  ASSUME IInv, NEW r \in Request, NEW status \in {"anchored", "anchor_failed"}, SetStatus(r, status),
         \/ status = "anchored" /\ request[r].pc = "sent"
         \/ status = "anchor_failed" /\ request[r].pc = "failed"
  PROVE  IInv'
<1>1. /\ proposals' = [proposals EXCEPT ![request[r].proposal].status = status]
      /\ request' = [request EXCEPT ![r] = Idle]
      /\ UNCHANGED <<collected, pool, usedNonces>>
  BY DEF SetStatus, registry
<1>. QED
  BY <1>1, OutcomeInv

LEMMA RaisesInv ==
  ASSUME IInv, NEW r \in Request, MarkRaises(r)
  PROVE  IInv'
<1> DEFINE new == [request[r] EXCEPT !.pc = "failed"]
<1>1. /\ request[r].pc = "sent" /\ UNCHANGED <<collected, pool, usedNonces>>
      /\ proposals' = [proposals EXCEPT ![request[r].proposal].status = "anchored"]
      /\ request' = [request EXCEPT ![r] = new]
  BY DEF MarkRaises, registry
<1>2. {"pc", "proposal"} \subseteq DOMAIN request[r]
  BY <1>1, NotIdle
<1>3. DOMAIN new = DOMAIN request[r] /\ new.pc = "failed" /\ new.proposal = request[r].proposal
  BY <1>2
<1>. HIDE DEF new
<1>4. new # Idle
  BY <1>3 DEF Idle
<1>. QED
  BY <1>1, <1>2, <1>3, <1>4, OutcomeInv

LEMMA GiveUpInv ==
  ASSUME IInv, NEW r \in Request, GiveUp(r)
  PROVE  IInv'
<1>1. request' = [request EXCEPT ![r] = Idle] /\ UNCHANGED <<proposals, collected, usedNonces, pool>>
  BY DEF GiveUp, registry
<1>2. \A tx \in pool : IsTransaction(tx)
  BY DEF IInv, Types
<1>. QED
  BY <1>1, <1>2, RequestInv

LEMMA CrashInv ==
  ASSUME IInv, Crash
  PROVE  IInv'
<1>1. /\ request' = [r \in Request |-> Idle]
      /\ UNCHANGED <<proposals, collected, usedNonces, pool>>
  BY DEF Crash, registry
<1>2. \A r \in Request : request'[r] = Idle
  BY <1>1
<1>3. Types'
  BY <1>1 DEF IInv, Types
<1>4. Spent' /\ EnactedOnce' /\ AnchoredWasSent' /\ OutcomeHadSignatures'
  BY <1>1 DEF IInv, Spent, EnactedOnce, AnchoredWasSent, OutcomeHadSignatures
<1>5. Begun' /\ Sent'
  BY <1>2 DEF Begun, Sent
<1>. QED
  BY <1>3, <1>4, <1>5 DEF IInv

-----------------------------------------------------------------------------
(* The ledger. *)

\* A transaction changes its status.
LEMMA PoolInv ==
  ASSUME IInv, NEW tx \in pool, tx.status = "pending", NEW status,
         pool' = (pool \ {tx}) \cup {[tx EXCEPT !.status = status]},
         UNCHANGED <<proposals, collected, request>>, usedNonces \subseteq usedNonces',
         status = "success" => /\ tx.payload.nonce \in usedNonces'
                               /\ tx.payload.nonce \notin usedNonces
  PROVE  IInv'
<1> DEFINE u == [tx EXCEPT !.status = status]
<1>1. IsTransaction(tx)
  BY DEF IInv, Types
<1>2. IsTransaction(u) /\ u.status = status /\ u.payload = tx.payload
  BY <1>1 DEF IsTransaction
<1>. HIDE DEF u
<1>3. pool' = (pool \ {tx}) \cup {u}
  BY DEF u
<1>4. Types'
  BY <1>2, <1>3 DEF IInv, Types
<1>5. Spent'
  BY <1>2, <1>3 DEF IInv, Spent
<1>6. EnactedOnce'
  BY <1>2, <1>3 DEF IInv, Spent, EnactedOnce
<1>7. \A t \in pool : \E v \in pool' : v.payload = t.payload
  BY <1>2, <1>3
<1>. QED
  BY <1>4, <1>5, <1>6, <1>7, AroundInv

LEMMA MineInv ==
  ASSUME IInv, NEW tx \in pool, Mine(tx)
  PROVE  IInv'
<1>1. tx.status = "pending" /\ UNCHANGED <<proposals, collected, request>>
  BY DEF Mine
<1>2. CASE /\ Registry!UpsertPolicy(tx.payload, tx.sigs)
           /\ pool' = (pool \ {tx}) \cup {[tx EXCEPT !.status = "success"]}
  <2>1. tx.payload.nonce \notin usedNonces /\ usedNonces' = usedNonces \cup {tx.payload.nonce}
    BY <1>2 DEF Registry!UpsertPolicy, Registry!Accepted
  <2>. QED
    BY <1>1, <1>2, <2>1, PoolInv
<1>3. CASE pool' = (pool \ {tx}) \cup {[tx EXCEPT !.status = "reverted"]} /\ UNCHANGED registry
  BY <1>1, <1>3, PoolInv DEF registry
<1>. QED
  BY <1>2, <1>3 DEF Mine

LEMMA EvictInv ==
  ASSUME IInv, NEW tx \in pool, Evict(tx)
  PROVE  IInv'
  BY PoolInv DEF Evict, registry

LEMMA ElsewhereInv ==
  ASSUME IInv, UNCHANGED <<proposals, collected, request, pool>>, usedNonces \subseteq usedNonces'
  PROVE  IInv'
<1>1. Types' /\ Spent' /\ EnactedOnce'
  BY DEF IInv, Types, Spent, EnactedOnce
<1>. QED
  BY <1>1, AroundInv

-----------------------------------------------------------------------------

LEMMA NextInv == IInv /\ [Next]_vars => IInv'
<1> SUFFICES ASSUME IInv, [Next]_vars PROVE IInv'
  OBVIOUS
<1>1. ASSUME NEW q \in ProposalId, NEW payload \in Requested, ProposePolicy(q, payload) PROVE IInv'
  BY <1>1, ProposeInv
<1>2. ASSUME NEW q \in ProposalId, NEW signer, NEW sig, CollectSignature(q, signer, sig) PROVE IInv'
  BY <1>2, CollectInv
<1>3. ASSUME NEW r \in Request, Anchor(r) PROVE IInv'
  <2>1. CASE MarkProposalAnchored(r) \/ MarkProposalAnchorFailed(r)
    BY <2>1, StatusInv DEF MarkProposalAnchored, MarkProposalAnchorFailed
  <2>. QED
    BY <1>3, <2>1, FetchInv, NumberInv, EstimateInv, SendInv, FailsInv, RaisesInv, GiveUpInv DEF Anchor
<1>4. CASE Crash
  BY <1>4, CrashInv
<1>5. ASSUME NEW tx \in pool, Mine(tx) \/ Evict(tx) PROVE IInv'
  BY <1>5, MineInv, EvictInv
<1>6. CASE Elsewhere
  <2>1. usedNonces \subseteq usedNonces'
    BY <1>6 DEF Elsewhere, Registry!Sign, Registry!SetGuardian, Registry!UpsertPolicy, Registry!RevokePolicy
  <2>2. UNCHANGED <<proposals, collected, request, pool>>
    BY <1>6 DEF Elsewhere
  <2>. QED
    BY <2>1, <2>2, ElsewhereInv
<1>7. CASE UNCHANGED vars
  BY <1>7, ElsewhereInv DEF vars, registry
<1>. QED
  BY <1>1, <1>2, <1>3, <1>4, <1>5, <1>6, <1>7 DEF Next

LEMMA Invariance == Spec => []IInv
  BY InitInv, NextInv, PTL DEF Spec

\* upsertPolicy, _anchor_policy_on_chain: however often and however concurrently a
\* proposal is anchored, at most one transaction of its nonce succeeds.
THEOREM PayloadEnactedOnce == Spec => []EnactedOnce
<1>1. IInv => EnactedOnce
  BY DEF IInv
<1>. QED
  BY <1>1, Invariance, PTL

\* _mark_proposal_anchored: a proposal is shown as anchored only after a node took
\* a transaction with its payload, though it may never be mined.
THEOREM AnchoredProposalWasSent == Spec => []AnchoredWasSent
<1>1. IInv => AnchoredWasSent
  BY DEF IInv
<1>. QED
  BY <1>1, Invariance, PTL

\* anchor_policy_on_chain: no proposal has an outcome without two signatures.
THEOREM OutcomesHadSignatures == Spec => []OutcomeHadSignatures
<1>1. IInv => OutcomeHadSignatures
  BY DEF IInv
<1>. QED
  BY <1>1, Invariance, PTL

-----------------------------------------------------------------------------
(* The contract. *)

\* What a call of upsertPolicy may carry.
Available == signed \cup {Malformed}
IsCalldata(sigs, available) == \E n \in 0..3 : sigs \in [1..n -> available]
Carrying(new, available) == new # Idle => "sigs" \in DOMAIN new /\ IsCalldata(new.sigs, available)

Carried ==
  /\ owner \in Administrator
  /\ \A q \in ProposalId : \A i \in DOMAIN collected[q] : collected[q][i].signature \in Available
  /\ \A r \in Request : Carrying(request[r], Available)
  /\ \A tx \in pool : tx.payload \in Requested /\ IsCalldata(tx.sigs, Available)

LEMMA StillCalldata ==
  ASSUME NEW S, NEW T, S \subseteq T
  PROVE  /\ \A sigs : IsCalldata(sigs, S) => IsCalldata(sigs, T)
         /\ \A new : Carrying(new, S) => Carrying(new, T)
<1>1. ASSUME NEW sigs, IsCalldata(sigs, S) PROVE IsCalldata(sigs, T)
  <2>1. PICK n \in 0..3 : sigs \in [1..n -> S]
    BY <1>1 DEF IsCalldata
  <2>2. sigs \in [1..n -> T]
    BY <2>1
  <2> QED BY <2>2 DEF IsCalldata
<1> QED BY <1>1 DEF Carrying

\* Signatures are never taken back, and the coordinator makes none.
LEMMA SignaturesStay ==
  ASSUME [Next]_vars
  PROVE  Available \subseteq Available' /\ owner' = owner
<1>0. signed \subseteq signed' => Available \subseteq Available'
  BY DEF Available
<1>1. ASSUME NEW post, NEW payload, Registry!Sign(post, payload) PROVE signed \subseteq signed' /\ owner' = owner
  BY <1>1 DEF Registry!Sign
<1>2. Elsewhere => signed \subseteq signed' /\ owner' = owner
  BY <1>1 DEF Elsewhere, Registry!SetGuardian, Registry!UpsertPolicy, Registry!RevokePolicy
<1>3. UNCHANGED registry => signed \subseteq signed' /\ owner' = owner
  BY DEF registry
<1>4. ASSUME NEW r \in Request, Anchor(r) PROVE UNCHANGED registry
  BY <1>4 DEF Anchor, FetchSignatures, ReadNonce, EstimateGas, SendTransaction, CallFails, SetStatus,
     MarkProposalAnchored, MarkProposalAnchorFailed, MarkRaises, GiveUp
<1>5. ASSUME NEW tx \in pool, Mine(tx) PROVE signed \subseteq signed' /\ owner' = owner
  BY <1>3, <1>5 DEF Mine, Registry!UpsertPolicy
<1> QED BY <1>0, <1>2, <1>3, <1>4, <1>5 DEF Next, vars, ProposePolicy, CollectSignature, Crash, Evict

\* What is kept is carried still, and what is new has to be.
LEMMA StillCarried ==
  ASSUME Carried, [Next]_vars, UNCHANGED collected,
         \A r \in Request : request'[r] = request[r] \/ Carrying(request'[r], Available),
         \A tx \in pool' : tx \in pool \/ (tx.payload \in Requested /\ IsCalldata(tx.sigs, Available))
  PROVE  Carried'
<1>1. Available \subseteq Available' /\ owner' = owner
  BY SignaturesStay
<1>2. \A r \in Request : Carrying(request'[r], Available')
  BY <1>1, StillCalldata DEF Carried
<1>3. \A tx \in pool' : tx.payload \in Requested /\ IsCalldata(tx.sigs, Available')
  BY <1>1, StillCalldata DEF Carried
<1> QED BY <1>1, <1>2, <1>3 DEF Carried

LEMMA CollectCarries ==
  ASSUME IInv, Carried, [Next]_vars, NEW q \in ProposalId, NEW signer, NEW sig \in Available,
         CollectSignature(q, signer, sig)
  PROVE  Carried'
<1> DEFINE row == [signer |-> signer, signature |-> sig]
           at == {i \in DOMAIN collected[q] : collected[q][i].signer = signer}
           changed == [i \in DOMAIN collected[q] |-> IF i \in at THEN row ELSE collected[q][i]]
<1>1. /\ UNCHANGED <<registry, request, pool>> /\ row.signature \in Available
      /\ \/ collected' = [collected EXCEPT ![q] = Append(@, row)]
         \/ collected' = [collected EXCEPT ![q] = changed]
  BY DEF CollectSignature
<1>2. IsTable(collected[q]) /\ DOMAIN collected = ProposalId
      /\ \A i \in DOMAIN collected[q] : collected[q][i].signature \in Available
  BY DEF IInv, Types, Carried
<1> HIDE DEF row, at
<1>3. \A i \in DOMAIN changed : changed[i].signature \in Available
  BY <1>1, <1>2
<1>4. \A i \in DOMAIN Append(collected[q], row) : Append(collected[q], row)[i].signature \in Available
  BY <1>1, <1>2 DEF IsTable
<1> HIDE DEF changed
<1>5. \A p \in ProposalId : \A i \in DOMAIN collected'[p] : collected'[p][i].signature \in Available
  BY <1>1, <1>2, <1>3, <1>4 DEF Carried
<1>6. Available' = Available
  BY <1>1 DEF registry, Available
<1> QED BY <1>1, <1>5, <1>6 DEF Carried, registry

\* Another place, or number, for a request that goes on.
LEMMA PlaceCarries ==
  ASSUME NEW rec, NEW pc, NEW S, Carrying(rec, S), rec # Idle
  PROVE  Carrying([rec EXCEPT !.pc = pc], S)
<1>1. "sigs" \in DOMAIN rec
  BY DEF Carrying
<1>2. "sigs" \in DOMAIN [rec EXCEPT !.pc = pc] /\ [rec EXCEPT !.pc = pc].sigs = rec.sigs
  BY <1>1
<1> QED BY <1>2 DEF Carrying

LEMMA AnchorCarries ==
  ASSUME IInv, Carried, [Next]_vars, NEW r \in Request, Anchor(r)
  PROVE  Carried'
<1>0. /\ \A new : request' = [request EXCEPT ![r] = new] =>
           request'[r] = new /\ \A s \in Request \ {r} : request'[s] = request[s]
      /\ Carrying(Idle, Available) /\ Carrying(request[r], Available)
  BY DEF IInv, Types, Carrying, Carried
<1>1. ASSUME NEW q \in ProposalId, FetchSignatures(r, q) PROVE Carried'
  <2> DEFINE n == IF Len(collected[q]) < 3 THEN Len(collected[q]) ELSE 3
             sigs == [i \in 1..n |-> collected[q][i].signature]
             new == [pc |-> "fetched", proposal |-> q, sigs |-> sigs]
  <2>1. request' = [request EXCEPT ![r] = new] /\ UNCHANGED <<collected, pool>>
    BY <1>1 DEF FetchSignatures
  <2>2. n \in 0..3 /\ \A i \in 1..n : collected[q][i].signature \in Available
    <3>1. PICK S : collected[q] \in Seq(S)
      BY DEF IInv, Types, IsTable
    <3>2. Len(collected[q]) \in Nat /\ DOMAIN collected[q] = 1..Len(collected[q])
      BY <3>1
    <3>3. \A l \in Nat : LET m == IF l < 3 THEN l ELSE 3 IN m \in 0..3 /\ 1..m \subseteq 1..l
      OBVIOUS
    <3>4. n \in 0..3 /\ 1..n \subseteq DOMAIN collected[q]
      BY <3>2, <3>3
    <3> QED BY <3>4 DEF Carried
  <2> HIDE DEF n
  <2>3. IsCalldata(sigs, Available)
    BY <2>2 DEF IsCalldata
  <2>4. Carrying(new, Available)
    BY <2>3 DEF Carrying
  <2> QED BY <1>0, <2>1, <2>4, StillCarried
<1>2. CASE ReadNonce(r)
  <2> DEFINE new == [pc |-> "numbered", proposal |-> request[r].proposal, sigs |-> request[r].sigs,
                     number |-> NextNumber]
  <2>1. request' = [request EXCEPT ![r] = new] /\ UNCHANGED <<collected, pool>> /\ request[r].pc = "fetched"
    BY <1>2 DEF ReadNonce
  <2>2. Carrying(new, Available)
    BY <1>0, <2>1 DEF Carrying, Idle
  <2> QED BY <1>0, <2>1, <2>2, StillCarried
<1>3. ASSUME NEW pc, request' = [request EXCEPT ![r].pc = pc], request[r].pc # "idle"
      PROVE  \A s \in Request : request'[s] = request[s] \/ Carrying(request'[s], Available)
  <2>1. request' = [request EXCEPT ![r] = [request[r] EXCEPT !.pc = pc]]
    BY <1>3
  <2>2. Carrying([request[r] EXCEPT !.pc = pc], Available)
    BY <1>0, <1>3, PlaceCarries DEF Idle
  <2> QED BY <1>0, <2>1, <2>2
<1>4. CASE EstimateGas(r) \/ CallFails(r) \/ MarkRaises(r)
  <2>1. UNCHANGED <<collected, pool>> /\ request[r].pc # "idle" /\ \E pc : request' = [request EXCEPT ![r].pc = pc]
    BY <1>4 DEF EstimateGas, CallFails, MarkRaises
  <2> QED BY <1>3, <2>1, StillCarried
<1>5. CASE SendTransaction(r)
  <2> DEFINE rivals == {tx \in Pending : tx.number = request[r].number}
             tx0 == [number |-> request[r].number, payload |-> PayloadOf(r),
                     sigs |-> request[r].sigs, status |-> "pending"]
  <2>1. /\ UNCHANGED collected /\ request[r].pc = "estimated" /\ \E pc : request' = [request EXCEPT ![r].pc = pc]
        /\ pool' = (pool \ rivals) \cup {[tx EXCEPT !.status = "dropped"] : tx \in rivals} \cup {tx0}
    BY <1>5 DEF SendTransaction
  <2>2. tx0.payload \in Requested /\ IsCalldata(tx0.sigs, Available)
    <3>1. proposals[request[r].proposal] \in Proposal
      BY <2>1, NotIdle
    <3>2. IsCalldata(request[r].sigs, Available)
      BY <1>0, <2>1 DEF Carrying, Idle
    <3> QED BY <3>1, <3>2 DEF PayloadOf, Proposal
  <2>3. \A tx \in rivals : LET u == [tx EXCEPT !.status = "dropped"]
                           IN  u.payload \in Requested /\ IsCalldata(u.sigs, Available)
    <3> TAKE tx \in rivals
    <3>1. IsTransaction(tx) /\ tx.payload \in Requested /\ IsCalldata(tx.sigs, Available)
      BY DEF Pending, IInv, Types, Carried
    <3>2. [tx EXCEPT !.status = "dropped"].payload = tx.payload /\ [tx EXCEPT !.status = "dropped"].sigs = tx.sigs
      BY <3>1 DEF IsTransaction
    <3> QED BY <3>1, <3>2
  <2> HIDE DEF rivals, tx0
  <2>4. \A tx \in pool' : tx \in pool \/ (tx.payload \in Requested /\ IsCalldata(tx.sigs, Available))
    BY <2>1, <2>2, <2>3
  <2>5. \A s \in Request : request'[s] = request[s] \/ Carrying(request'[s], Available)
    BY <1>3, <2>1
  <2> QED BY <2>1, <2>4, <2>5, StillCarried
<1>6. CASE MarkProposalAnchored(r) \/ MarkProposalAnchorFailed(r) \/ GiveUp(r)
  <2>1. request' = [request EXCEPT ![r] = Idle] /\ UNCHANGED <<collected, pool>>
    BY <1>6 DEF MarkProposalAnchored, MarkProposalAnchorFailed, SetStatus, GiveUp
  <2> QED BY <1>0, <2>1, StillCarried
<1> QED BY <1>1, <1>2, <1>4, <1>5, <1>6 DEF Anchor

LEMMA NextCarries ==
  ASSUME IInv, Carried, [Next]_vars
  PROVE  Carried'
<1>1. ASSUME NEW q \in ProposalId, NEW payload \in Requested, ProposePolicy(q, payload) PROVE Carried'
  BY <1>1, StillCarried DEF ProposePolicy
<1>2. ASSUME NEW q \in ProposalId, NEW signer, NEW sig \in Available, CollectSignature(q, signer, sig)
      PROVE  Carried'
  BY <1>2, CollectCarries
<1>3. ASSUME NEW r \in Request, Anchor(r) PROVE Carried'
  BY <1>3, AnchorCarries
<1>4. CASE Crash
  BY <1>4, StillCarried DEF Crash, Carrying
<1>5. ASSUME NEW tx \in pool, Mine(tx) \/ Evict(tx) PROVE Carried'
  <2>1. IsTransaction(tx) /\ tx.payload \in Requested /\ IsCalldata(tx.sigs, Available)
    BY DEF IInv, Types, Carried
  <2>2. \A status : /\ [tx EXCEPT !.status = status].payload = tx.payload
                    /\ [tx EXCEPT !.status = status].sigs = tx.sigs
    BY <2>1 DEF IsTransaction
  <2>3. PICK status : pool' = (pool \ {tx}) \cup {[tx EXCEPT !.status = status]}
    BY <1>5 DEF Mine, Evict
  <2>4. UNCHANGED <<collected, request>>
    BY <1>5 DEF Mine, Evict
  <2>5. \A u \in pool' : u \in pool \/ (u.payload \in Requested /\ IsCalldata(u.sigs, Available))
    BY <2>1, <2>2, <2>3
  <2> QED BY <2>4, <2>5, StillCarried
<1>6. CASE Elsewhere \/ UNCHANGED vars
  <2>1. UNCHANGED <<collected, request, pool>>
    BY <1>6 DEF Elsewhere, vars
  <2> QED BY <2>1, StillCarried
<1> QED BY <1>1, <1>2, <1>3, <1>4, <1>5, <1>6 DEF Next, Available

-----------------------------------------------------------------------------
\* A step of the coordinator or the ledger is one of the contract, or none.
LEMMA ContractSteps ==
  ASSUME Carried, [Next]_vars
  PROVE  [Registry!Next]_registry
<1>1. ASSUME NEW r \in Request, Anchor(r) PROVE UNCHANGED registry
  BY <1>1 DEF Anchor, FetchSignatures, ReadNonce, EstimateGas, SendTransaction, CallFails, SetStatus,
     MarkProposalAnchored, MarkProposalAnchorFailed, MarkRaises, GiveUp
<1>2. ASSUME NEW tx \in pool, Mine(tx) PROVE Registry!Next \/ UNCHANGED registry
  <2>1. tx.payload \in Requested /\ tx.sigs \in Registry!Calldata
    <3>1. PICK n \in 0..3 : tx.sigs \in [1..n -> Available]
      BY DEF Carried, IsCalldata
    <3>2. n \in 0..MaxSignatures
      BY GovernanceAssumption DEF Registry!RegistryAssumption
    <3> QED BY <3>1, <3>2 DEF Carried, Registry!Calldata, Available
  <2> QED BY <1>2, <2>1 DEF Mine, Registry!Next
<1>3. CASE Elsewhere
  <2>1. ASSUME NEW post \in Submissions, NEW payload \in Requested,
               post[2] \in Account, Registry!Sign(post[2], payload)
        PROVE  Registry!Next
    BY <2>1 DEF Registry!Next
  <2>2. ASSUME NEW rotation \in Rotations, Registry!SetGuardian(owner, rotation[1], rotation[2])
        PROVE  Registry!Next
    <3>1. rotation[1] \in 0..3 /\ rotation[2] \in Account \cup {ZeroAddress} /\ owner \in Administrator
      BY GovernanceAssumption DEF Carried
    <3> QED BY <2>2, <3>1 DEF Registry!Next, Registry!Administer
  <2>3. ASSUME NEW payload \in Requested, NEW sigs \in Registry!Calldata,
               Registry!UpsertPolicy(payload, sigs) \/ Registry!RevokePolicy(payload, sigs)
        PROVE  Registry!Next
    BY <2>3 DEF Registry!Next
  <2> QED BY <1>3, <2>1, <2>2, <2>3 DEF Elsewhere
<1> QED BY <1>1, <1>2, <1>3 DEF Next, vars, ProposePolicy, CollectSignature, Crash, Evict

LEMMA CarryInvariance == Spec => [](IInv /\ Carried)
<1>1. Init => IInv /\ Carried
  <2>1. ASSUME Init PROVE Carried
    <3>1. owner \in Administrator
      BY <2>1 DEF Init, Registry!Init, Registry!Ownership!Init
    <3> QED BY <2>1, <3>1 DEF Init, Carried, Carrying
  <2> QED BY <2>1, InitInv
<1>2. IInv /\ Carried /\ [Next]_vars => (IInv /\ Carried)'
  BY NextInv, NextCarries
<1> QED BY <1>1, <1>2, PTL DEF Spec

\* anchor_policy_on_chain over PolicyRegistry.sol: whatever requests run concurrently,
\* are retried, replaced, dropped or cut off by a crash, what happens at the contract
\* is what PolicyRegistry allows: the coordinator submits payloads that were asked
\* for with signatures that were made.  So what is proved of the contract by itself,
\* that a policy stands on two guardians' word, holds with the coordinator too.
THEOREM GovernanceUsesContract == Spec => Registry!Spec
<1>1. Init => Registry!Init
  BY DEF Init
<1>2. IInv /\ Carried /\ [Next]_vars => [Registry!Next]_(Registry!vars)
  BY ContractSteps DEF Registry!vars, registry
<1> QED BY <1>1, <1>2, CarryInvariance, PTL DEF Spec, Registry!Spec

-----------------------------------------------------------------------------
(* Numbers and types. *)

\* A transaction that was mined.
Settled == {tx \in pool : tx.status \in {"success", "reverted"}}

\* The account's numbers are used up one after the other, and there are no more
\* transactions than were sent.
Counted ==
  /\ IsFiniteSet(pool) /\ Cardinality(pool) <= MaxSent
  /\ \A tx \in pool : tx.number \in 0..MaxSent /\ tx.status \in {"pending", "success", "reverted", "dropped"}
  /\ mined \in Nat /\ Cardinality(Settled) = mined /\ \A tx \in Settled : tx.number < mined

Places == {"idle", "fetched", "numbered", "estimated", "sent", "failed"}
Placed(new) ==
  /\ new.pc \in Places
  /\ new.pc \in {"numbered", "estimated"} =>
       {"pc", "number"} \subseteq DOMAIN new /\ new.number \in 0..MaxSent

\* One row per signer.
Apart(rows) == \A i, j \in DOMAIN rows : i # j => rows[i].signer # rows[j].signer

Typed ==
  /\ Registry!TypeOK /\ Counted
  /\ \A r \in Request : Placed(request[r])
  /\ \A q \in ProposalId : Apart(collected[q])

-----------------------------------------------------------------------------
\* The transactions that wait take their numbers among those from the first that is
\* free on, and there are not enough of them to take all that could be needed.
LEMMA NumberIsFree ==
  ASSUME Counted
  PROVE  NextNumber \in 0..MaxSent
<1> DEFINE numbers == {tx.number : tx \in Pending}
           top == mined + Cardinality(Pending)
           free == {n \in mined..top : n \notin numbers}
           number == [tx \in Pending |-> tx.number]
<1>1. /\ IsFiniteSet(pool) /\ mined \in Nat /\ Cardinality(Settled) = mined
      /\ Settled \subseteq pool /\ Pending \subseteq pool /\ Settled \cap Pending = {}
      /\ MaxSent \in Nat /\ Cardinality(pool) <= MaxSent
  BY GovernanceAssumption DEF Counted, Settled, Pending
<1>2. IsFiniteSet(Pending) /\ IsFiniteSet(Settled) /\ Cardinality(Pending) \in Nat /\ Cardinality(pool) \in Nat
  BY <1>1, FS_Subset, FS_CardinalityType
<1>3. top <= MaxSent /\ top \in Nat
  <2>1. Cardinality(Settled \cup Pending) = mined + Cardinality(Pending) - Cardinality({})
    BY <1>1, <1>2, FS_Union
  <2>2. Cardinality({}) = 0
    BY FS_EmptySet
  <2>3. Cardinality(Settled \cup Pending) <= Cardinality(pool)
    BY <1>1, FS_Subset
  <2> QED BY <1>1, <1>2, <2>1, <2>2, <2>3
<1>4. IsFiniteSet(numbers) /\ Cardinality(numbers) <= Cardinality(Pending)
  <2>1. number \in Surjection(Pending, numbers)
    BY DEF Surjection
  <2> QED BY <1>2, <2>1, FS_Surjection
<1>5. free # {}
  <2> SUFFICES ASSUME mined..top \subseteq numbers PROVE FALSE
    OBVIOUS
  <2>1. Cardinality(mined..top) <= Cardinality(numbers)
    BY <1>4, FS_Subset
  <2>2. Cardinality(mined..top) = Cardinality(Pending) + 1
    BY <1>1, <1>2, <1>3, FS_Interval
  <2> HIDE DEF numbers
  <2> QED BY <1>2, <1>4, <2>1, <2>2, FS_CardinalityType
<1>6. PICK n \in free : \A m \in free : n <= m
  <2>1. free \subseteq Nat
    BY <1>1, <1>3
  <2> HIDE DEF free
  <2> QED BY <1>5, <2>1, LeastNat
<1>7. n \in mined..top /\ (\A tx \in Pending : tx.number # n)
      /\ \A m \in mined..(n - 1) : \E tx \in Pending : tx.number = m
  <2>1. n \in mined..top /\ n \notin numbers
    OBVIOUS
  <2>2. ASSUME NEW m \in mined..(n - 1) PROVE m \in numbers
    <3>1. m \in mined..top /\ ~ (n <= m)
      BY <1>1, <1>3, <2>1
    <3> QED BY <1>6, <3>1
  <2> QED BY <2>1, <2>2
<1>8. NextNumber \in mined..top
  BY <1>7 DEF NextNumber
<1> QED BY <1>1, <1>3, <1>8

\* A waiting transaction gets a fate.
LEMMA FateCounts ==
  ASSUME Types, Counted, NEW tx \in pool, tx.status = "pending", NEW status,
         pool' = (pool \ {tx}) \cup {[tx EXCEPT !.status = status]},
         \/ status = "dropped" /\ mined' = mined
         \/ status \in {"success", "reverted"} /\ tx.number = mined /\ mined' = mined + 1
  PROVE  Counted'
<1> DEFINE u == [tx EXCEPT !.status = status]
<1>0. u.status = status /\ u.number = tx.number /\ tx.number \in 0..MaxSent /\ mined \in Nat
  BY DEF Types, IsTransaction, Counted
<1>1. pool' = (pool \ {tx}) \cup {u}
  OBVIOUS
<1> HIDE DEF u
<1>2. IsFiniteSet(pool') /\ Cardinality(pool') <= MaxSent
  <2>1. IsFiniteSet(pool \ {tx}) /\ Cardinality(pool \ {tx}) = Cardinality(pool) - 1
    BY FS_RemoveElement DEF Counted
  <2>2. IsFiniteSet((pool \ {tx}) \cup {u})
        /\ Cardinality((pool \ {tx}) \cup {u}) \in {Cardinality(pool \ {tx}), Cardinality(pool \ {tx}) + 1}
    BY <2>1, FS_AddElement
  <2>3. Cardinality(pool) \in Nat /\ Cardinality(pool) <= MaxSent /\ MaxSent \in Nat
    BY FS_CardinalityType, GovernanceAssumption DEF Counted
  <2> QED BY <1>1, <2>1, <2>2, <2>3, SMTT(30)
<1>3. \A t \in pool' : t.number \in 0..MaxSent /\ t.status \in {"pending", "success", "reverted", "dropped"}
  BY <1>0, <1>1 DEF Counted
<1>4. CASE status = "dropped" /\ mined' = mined
  <2>1. Settled' = Settled
    BY <1>0, <1>1, <1>4 DEF Settled
  <2> QED BY <1>2, <1>3, <1>4, <2>1 DEF Counted
<1>5. CASE status \in {"success", "reverted"} /\ tx.number = mined /\ mined' = mined + 1
  <2>1. Settled' = Settled \cup {u} /\ u \notin Settled
    BY <1>0, <1>1, <1>5 DEF Settled, Counted
  <2>2. IsFiniteSet(Settled)
    BY FS_Subset DEF Counted, Settled
  <2>3. Cardinality(Settled') = mined'
    BY <1>5, <2>1, <2>2, FS_AddElement, ZenonT(30) DEF Counted
  <2>4. \A t \in Settled' : t.number < mined'
    BY <1>0, <1>5, <2>1 DEF Counted, Settled
  <2> QED BY <1>0, <1>2, <1>3, <1>5, <2>3, <2>4 DEF Counted
<1> QED BY <1>4, <1>5

LEMMA SendCounts ==
  ASSUME Types, Counted, NEW r \in Request, SendTransaction(r), request[r].number \in 0..MaxSent
  PROVE  Counted'
<1> DEFINE rivals == {tx \in Pending : tx.number = request[r].number}
           tx0 == [number |-> request[r].number, payload |-> PayloadOf(r),
                   sigs |-> request[r].sigs, status |-> "pending"]
           Drop(tx) == [tx EXCEPT !.status = "dropped"]
           base == (pool \ rivals) \cup {Drop(tx) : tx \in rivals}
           becomes == [tx \in pool |-> IF tx \in rivals THEN Drop(tx) ELSE tx]
<1>1. pool' = base \cup {tx0} /\ Cardinality(pool) < MaxSent /\ mined' = mined
  BY DEF SendTransaction
<1>2. IsFiniteSet(base) /\ Cardinality(base) <= Cardinality(pool)
  <2>1. rivals \subseteq pool
    BY DEF Pending
  <2>2. becomes \in Surjection(pool, base)
    BY <2>1 DEF Surjection
  <2> HIDE DEF becomes, base
  <2> QED BY <2>2, FS_Surjection DEF Counted
<1>3. \A tx \in rivals : Drop(tx).status = "dropped" /\ Drop(tx).number \in 0..MaxSent
  BY DEF Pending, Types, IsTransaction, Counted
<1>4. tx0.status = "pending" /\ tx0.number \in 0..MaxSent
  OBVIOUS
<1>5. Settled' = Settled
  <2>1. \A tx \in rivals : tx \in pool /\ tx.status = "pending"
    BY DEF Pending
  <2> HIDE DEF rivals, tx0, Drop
  <2> QED BY <1>1, <1>3, <1>4, <2>1 DEF Settled
<1>6. \A t \in pool' : t.number \in 0..MaxSent /\ t.status \in {"pending", "success", "reverted", "dropped"}
  <2> HIDE DEF rivals, tx0, Drop
  <2> QED BY <1>1, <1>3, <1>4 DEF Counted
<1> HIDE DEF base, tx0
<1>7. IsFiniteSet(pool') /\ Cardinality(pool') <= MaxSent
  <2>1. IsFiniteSet(base \cup {tx0}) /\ Cardinality(base \cup {tx0}) \in {Cardinality(base), Cardinality(base) + 1}
    BY <1>2, FS_AddElement
  <2>2. Cardinality(pool) \in Nat /\ Cardinality(base) \in Nat /\ MaxSent \in Nat
    BY <1>2, FS_CardinalityType, GovernanceAssumption DEF Counted
  <2> QED BY <1>1, <1>2, <2>1, <2>2
<1> QED BY <1>1, <1>5, <1>6, <1>7 DEF Counted

LEMMA ContractTyped ==
  ASSUME Registry!TypeOK, [Registry!Next]_registry
  PROVE  Registry!TypeOK'
<1> USE GovernanceAssumption DEF Registry!RegistryAssumption
<1>1. ASSUME NEW payload \in Requested, NEW sigs \in Registry!Calldata,
             Registry!UpsertPolicy(payload, sigs) \/ Registry!RevokePolicy(payload, sigs)
      PROVE  Registry!TypeOK'
  <2>1. payload \in Registry!Payload /\ payload.id \in PolicyId \cup {ZeroId} /\ payload.nonce \in Nonce
        /\ payload.content \in Content \cup {NoContent}
    BY DEF Registry!Payload
  <2>2. policies[payload.id] \in Registry!Policy /\ policies[payload.id].version + 1 \in 0..MaxVersion
    BY <2>1, <1>1 DEF Registry!TypeOK, Registry!Policy, Registry!UpsertPolicy, Registry!RevokePolicy, Registry!Accepted
  <2>3. policies' \in [PolicyId \cup {ZeroId} -> Registry!Policy]
    <3>1. CASE Registry!UpsertPolicy(payload, sigs)
      BY <2>1, <2>2, <3>1 DEF Registry!UpsertPolicy, Registry!TypeOK, Registry!Policy
    <3>2. CASE Registry!RevokePolicy(payload, sigs)
      BY <2>1, <2>2, <3>2 DEF Registry!RevokePolicy, Registry!TypeOK, Registry!Policy
    <3> QED BY <1>1, <3>1, <3>2
  <2> QED BY <1>1, <2>1, <2>3
      DEF Registry!UpsertPolicy, Registry!RevokePolicy, Registry!TypeOK, Registry!Ownership!TypeOK
<1>2. ASSUME NEW a \in Account, NEW payload \in Requested, Registry!Sign(a, payload)
      PROVE  Registry!TypeOK'
  BY <1>2 DEF Registry!Sign, Registry!TypeOK, Registry!Ownership!TypeOK, Registry!Signature
<1>3. ASSUME NEW caller \in Administrator, NEW i \in 0..3, NEW a \in Account \cup {ZeroAddress},
             Registry!SetGuardian(caller, i, a)
      PROVE  Registry!TypeOK'
  BY <1>3 DEF Registry!SetGuardian, Registry!TypeOK, Registry!Ownership!TypeOK, Registry!Slot
<1>4. CASE Registry!Ownership!Next /\ UNCHANGED <<guardians, policies, usedNonces, signed>>
  BY <1>4 DEF Registry!Ownership!Next, Registry!Ownership!TransferOwnership, Registry!Ownership!AcceptOwnership,
     Registry!Ownership!RenounceOwnership, Registry!Ownership!TypeOK, Registry!TypeOK
<1>5. CASE UNCHANGED registry
  BY <1>5 DEF registry, Registry!TypeOK, Registry!Ownership!TypeOK
<1> QED BY <1>1, <1>2, <1>3, <1>4, <1>5 DEF Registry!Next, Registry!Administer

LEMMA NextCounts ==
  ASSUME IInv, Counted, \A r \in Request : Placed(request[r]), [Next]_vars
  PROVE  Counted'
<1>1. UNCHANGED <<pool, mined>> => Counted'
  BY DEF Counted, Settled
<1>2. ASSUME NEW tx \in pool, Mine(tx) \/ Evict(tx) PROVE Counted'
  BY <1>2, FateCounts DEF IInv, Mine, Evict
<1>3. ASSUME NEW r \in Request, SendTransaction(r) PROVE Counted'
  BY <1>3, SendCounts DEF IInv, SendTransaction, Placed
<1>4. ASSUME NEW r \in Request, Anchor(r), ~ SendTransaction(r) PROVE UNCHANGED <<pool, mined>>
  BY <1>4 DEF Anchor, FetchSignatures, ReadNonce, EstimateGas, CallFails, SetStatus, MarkProposalAnchored,
     MarkProposalAnchorFailed, MarkRaises, GiveUp
<1>5. UNCHANGED vars \/ Crash \/ Elsewhere => UNCHANGED <<pool, mined>>
  BY DEF vars, Crash, Elsewhere
<1> QED BY <1>1, <1>2, <1>3, <1>4, <1>5 DEF Next, ProposePolicy, CollectSignature

LEMMA NextPlaces ==
  ASSUME IInv, Counted, \A r \in Request : Placed(request[r]), [Next]_vars
  PROVE  \A r \in Request : Placed(request'[r])
<1>1. Placed(Idle)
  BY DEF Placed, Places, Idle
<1>2. UNCHANGED request => \A r \in Request : Placed(request'[r])
  OBVIOUS
<1>3. ASSUME NEW r \in Request, NEW new, request' = [request EXCEPT ![r] = new], Placed(new)
      PROVE  \A s \in Request : Placed(request'[s])
  BY <1>3 DEF IInv, Types
<1>4. ASSUME NEW r \in Request, Anchor(r) PROVE \A s \in Request : Placed(request'[s])
  <2>1. ASSUME NEW q \in ProposalId, FetchSignatures(r, q) PROVE \A s \in Request : Placed(request'[s])
    <3>1. \A sigs : Placed([pc |-> "fetched", proposal |-> q, sigs |-> sigs])
      BY DEF Placed, Places
    <3>2. \E sigs : request' = [request EXCEPT ![r] = [pc |-> "fetched", proposal |-> q, sigs |-> sigs]]
      BY <2>1 DEF FetchSignatures
    <3> QED BY <1>3, <3>1, <3>2
  <2>2. CASE ReadNonce(r)
    <3> DEFINE new == [pc |-> "numbered", proposal |-> request[r].proposal, sigs |-> request[r].sigs,
                       number |-> NextNumber]
    <3>1. request' = [request EXCEPT ![r] = new]
      BY <2>2 DEF ReadNonce
    <3>2. Placed(new)
      BY NumberIsFree DEF Placed, Places
    <3> HIDE DEF new
    <3> QED BY <1>3, <3>1, <3>2
  <2>3. CASE EstimateGas(r) \/ SendTransaction(r) \/ CallFails(r) \/ MarkRaises(r)
    <3>1. PICK pc \in {"estimated", "sent", "failed"} :
            /\ request' = [request EXCEPT ![r] = [request[r] EXCEPT !.pc = pc]]
            /\ pc = "estimated" => request[r].pc = "numbered"
            /\ request[r].pc # "idle"
      <4>1. CASE EstimateGas(r)
        <5>1. PICK pc \in {"estimated", "failed"} : request' = [request EXCEPT ![r].pc = pc]
          BY <4>1 DEF EstimateGas
        <5>2. request' = [request EXCEPT ![r] = [request[r] EXCEPT !.pc = pc]] /\ request[r].pc = "numbered"
          BY <4>1, <5>1 DEF EstimateGas
        <5> QED BY <5>2
      <4>2. CASE SendTransaction(r)
        <5>1. PICK pc \in {"sent", "failed"} : request' = [request EXCEPT ![r].pc = pc]
          BY <4>2 DEF SendTransaction
        <5>2. request' = [request EXCEPT ![r] = [request[r] EXCEPT !.pc = pc]] /\ request[r].pc = "estimated"
          BY <4>2, <5>1 DEF SendTransaction
        <5> QED BY <5>2
      <4>3. CASE CallFails(r) \/ MarkRaises(r)
        <5>1. request' = [request EXCEPT ![r].pc = "failed"]
          BY <4>3 DEF CallFails, MarkRaises
        <5>2. request' = [request EXCEPT ![r] = [request[r] EXCEPT !.pc = "failed"]] /\ request[r].pc # "idle"
          BY <4>3, <5>1 DEF CallFails, MarkRaises
        <5> QED BY <5>2
      <4> QED BY <2>3, <4>1, <4>2, <4>3
    <3> DEFINE new == [request[r] EXCEPT !.pc = pc]
    <3>2. DOMAIN new = DOMAIN request[r] /\ {"pc", "proposal"} \subseteq DOMAIN request[r]
      BY <3>1, NotIdle
    <3>3. new.pc = pc /\ ("number" \in DOMAIN new => new.number = request[r].number)
      BY <3>2
    <3>4. Placed(new)
      <4>1. pc = "estimated" => "number" \in DOMAIN request[r] /\ request[r].number \in 0..MaxSent
        BY <3>1 DEF Placed
      <4> HIDE DEF new
      <4> QED BY <3>1, <3>2, <3>3, <4>1 DEF Placed, Places
    <3> HIDE DEF new
    <3> QED BY <1>3, <3>1, <3>4 DEF new
  <2>4. CASE MarkProposalAnchored(r) \/ MarkProposalAnchorFailed(r) \/ GiveUp(r)
    <3>1. request' = [request EXCEPT ![r] = Idle]
      BY <2>4 DEF MarkProposalAnchored, MarkProposalAnchorFailed, SetStatus, GiveUp
    <3> QED BY <1>1, <1>3, <3>1
  <2> QED BY <1>4, <2>1, <2>2, <2>3, <2>4 DEF Anchor
<1>5. Crash => \A r \in Request : Placed(request'[r])
  BY <1>1 DEF Crash
<1>6. ASSUME NEW tx \in pool, Mine(tx) \/ Evict(tx) PROVE UNCHANGED request
  BY <1>6 DEF Mine, Evict
<1>7. UNCHANGED vars \/ Elsewhere => UNCHANGED request
  BY DEF vars, Elsewhere
<1> QED BY <1>2, <1>4, <1>5, <1>6, <1>7 DEF Next, ProposePolicy, CollectSignature

LEMMA NextApart ==
  ASSUME IInv, \A q \in ProposalId : Apart(collected[q]), [Next]_vars
  PROVE  \A q \in ProposalId : Apart(collected'[q])
<1>1. ASSUME NEW q \in ProposalId, NEW signer, NEW sig, CollectSignature(q, signer, sig)
      PROVE  \A p \in ProposalId : Apart(collected'[p])
  <2> DEFINE row == [signer |-> signer, signature |-> sig]
             at == {i \in DOMAIN collected[q] : collected[q][i].signer = signer}
             changed == [i \in DOMAIN collected[q] |-> IF i \in at THEN row ELSE collected[q][i]]
  <2>1. \/ at = {} /\ collected' = [collected EXCEPT ![q] = Append(@, row)]
        \/ collected' = [collected EXCEPT ![q] = changed]
    BY <1>1 DEF CollectSignature
  <2>2. PICK S : collected[q] \in Seq(S)
    BY DEF IInv, Types, IsTable
  <2>3. at = {} => Apart(Append(collected[q], row))
    <3> SUFFICES ASSUME at = {} PROVE Apart(Append(collected[q], row))
      OBVIOUS
    <3> DEFINE l == Len(collected[q])
               longer == Append(collected[q], row)
    <3>1. /\ l \in Nat /\ DOMAIN collected[q] = 1..l /\ DOMAIN longer = 1..(l + 1)
          /\ longer[l + 1] = row /\ \A i \in 1..l : longer[i] = collected[q][i]
      BY <2>2
    <3>2. \A i \in 1..l : collected[q][i].signer # row.signer
      BY <3>1
    <3> HIDE DEF longer, row, l, at
    <3>3. \A i, j \in 1..(l + 1) : i # j => longer[i].signer # longer[j].signer
      <4> TAKE i, j \in 1..(l + 1)
      <4>1. CASE i \in 1..l /\ j \in 1..l
        BY <3>1, <4>1, SMTT(30) DEF Apart
      <4>2. CASE i = l + 1 /\ j \in 1..l
        BY <3>1, <3>2, <4>2
      <4>3. CASE i \in 1..l /\ j = l + 1
        BY <3>1, <3>2, <4>3
      <4> QED BY <3>1, <4>1, <4>2, <4>3
    <3> QED BY <3>1, <3>3 DEF Apart, longer
  <2>4. Apart(changed)
    <3>1. DOMAIN changed = DOMAIN collected[q] /\ \A i \in DOMAIN collected[q] : changed[i].signer = collected[q][i].signer
      OBVIOUS
    <3> HIDE DEF changed
    <3> QED BY <3>1 DEF Apart
  <2> HIDE DEF changed, row, at
  <2> QED BY <2>1, <2>3, <2>4 DEF IInv, Types
<1>2. UNCHANGED collected => \A q \in ProposalId : Apart(collected'[q])
  OBVIOUS
<1>3. ASSUME NEW r \in Request, Anchor(r) PROVE UNCHANGED collected
  BY <1>3 DEF Anchor, FetchSignatures, ReadNonce, EstimateGas, SendTransaction, CallFails, SetStatus,
     MarkProposalAnchored, MarkProposalAnchorFailed, MarkRaises, GiveUp
<1>4. ASSUME NEW tx \in pool, Mine(tx) \/ Evict(tx) PROVE UNCHANGED collected
  BY <1>4 DEF Mine, Evict
<1>5. UNCHANGED vars \/ Crash \/ Elsewhere => UNCHANGED collected
  BY DEF vars, Crash, Elsewhere
<1> QED BY <1>1, <1>2, <1>3, <1>4, <1>5 DEF Next, ProposePolicy

LEMMA TypedIs ==
  ASSUME IInv, Carried, Typed
  PROVE  TypeOK
<1>1. \A tx \in pool : tx \in Transaction
  <2> TAKE tx \in pool
  <2>1. IsTransaction(tx) /\ tx.payload \in Requested /\ IsCalldata(tx.sigs, Available)
        /\ tx.number \in 0..MaxSent /\ tx.status \in {"pending", "success", "reverted", "dropped"}
    BY DEF IInv, Types, Carried, Typed, Counted
  <2>2. PICK n \in 0..3 : tx.sigs \in [1..n -> Available]
    BY <2>1 DEF IsCalldata
  <2>3. Available \subseteq Registry!Signature \cup {Malformed}
    BY DEF Typed, Available, Registry!TypeOK
  <2>4. tx.sigs \in Seq(Registry!Signature \cup {Malformed})
    BY <2>2, <2>3
  <2> QED BY <2>1, <2>4 DEF IsTransaction, Transaction
<1>2. mined \in 0..MaxSent
  <2>1. Cardinality(Settled) <= Cardinality(pool) /\ Cardinality(pool) \in Nat
    BY FS_Subset, FS_CardinalityType DEF Typed, Counted, Settled
  <2> QED BY <2>1, GovernanceAssumption DEF Typed, Counted
<1>3. \A q \in ProposalId : proposals[q] # NoProposal =>
         proposals[q].payload \in Requested /\ proposals[q].status \in Status
  BY DEF IInv, Types, Proposal
<1> QED BY <1>1, <1>2, <1>3 DEF Typed, Placed, Places, Apart, TypeOK

\* Type correctness of governance: numbers are used up in their order, and the first
\* that is free is never beyond what can be sent, however many transactions wait, are
\* dropped or replace each other; a signer has one row in a proposal.
THEOREM GovernanceTypeCorrect == Spec => []TypeOK
<1>1. Init => Typed
  <2> SUFFICES ASSUME Init PROVE Typed
    OBVIOUS
  <2>1. Registry!TypeOK
    BY GovernanceAssumption
    DEF Init, Registry!RegistryAssumption, Registry!Init, Registry!TypeOK, Registry!Ownership!Init,
        Registry!Ownership!TypeOK, Registry!Slot, Registry!Policy, Registry!NoPolicy, Registry!Signature,
        Registry!Payload
  <2>2. Counted
    <3>1. pool = {} /\ mined = 0
      BY DEF Init
    <3>2. Settled = {} /\ IsFiniteSet({}) /\ Cardinality({}) = 0
      BY <3>1, FS_EmptySet DEF Settled
    <3> QED BY <3>1, <3>2, GovernanceAssumption DEF Counted
  <2>3. \A r \in Request : Placed(request[r])
    BY DEF Init, Idle, Placed, Places
  <2>4. \A q \in ProposalId : Apart(collected[q])
    BY DEF Init, Apart
  <2> QED BY <2>1, <2>2, <2>3, <2>4 DEF Typed
<1>2. IInv /\ Carried /\ Typed /\ [Next]_vars => Typed'
  <2> SUFFICES ASSUME IInv, Carried, Typed, [Next]_vars PROVE Typed'
    OBVIOUS
  <2>1. Registry!TypeOK'
    BY ContractSteps, ContractTyped DEF Typed
  <2>2. Counted' /\ \A r \in Request : Placed(request'[r])
    BY NextCounts, NextPlaces DEF Typed
  <2>3. \A q \in ProposalId : Apart(collected'[q])
    BY NextApart DEF Typed
  <2> QED BY <2>1, <2>2, <2>3 DEF Typed
<1>3. IInv /\ Carried /\ Typed => TypeOK
  BY TypedIs
<1> QED BY <1>1, <1>2, <1>3, CarryInvariance, PTL DEF Spec
=============================================================================
