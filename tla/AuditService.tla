---------------------------- MODULE AuditService ----------------------------
(***************************************************************************)
(* decision_layer/services/audit_service.py over the contract of           *)
(* SentinelAudit: decisions are accepted into a queue that is kept in      *)
(* memory and in a file; a worker uploads the evidence of an item to IPFS, *)
(* then sends its transaction, and drops the item as soon as a node has    *)
(* taken it.  Whatever raises puts the item back with a longer delay.      *)
(*                                                                         *)
(* Time is reduced to the order in which items become due, which is the    *)
(* order the worker takes them in.  The file is replaced as a whole, so a  *)
(* crash in the middle of writing leaves the old one.  A crash and the     *)
(* start after it are one step: nothing of the service happens in between. *)
(* IPFS, the gas oracle and the ledger are external.                       *)
(***************************************************************************)
EXTENDS Naturals, Sequences, FiniteSets

CONSTANTS
  Administrator, ZeroAddress, Gateway, DecisionId, ZeroDecision, EmptyCid, NoDecision,
  Service,        \* the gateway address of the service's signer
  QueueId,        \* the uuids of queue items; also the CID of the item's evidence
  DecisionOf,     \* the decision identifier of each item
  NoItem,
  Nothing,        \* the worker has no item
  OtherCid,       \* the CIDs of evidence that is not the service's
  Foreign,        \* bound: the batches another gateway may record
  MaxDiskErrors,  \* bound: reads and writes of the queue file that fail
  MaxCrashes      \* bound

Cid == QueueId \cup OtherCid \cup {EmptyCid}

ASSUME AuditAssumption ==
  /\ Service \in Gateway
  /\ DecisionOf \in [QueueId -> DecisionId \cup {ZeroDecision}]
  /\ Nothing \notin QueueId /\ EmptyCid \notin QueueId
  /\ NoItem \notin {"ipfs", "tx"}
  /\ NoDecision \notin [cid : Cid, gateway : Gateway]
  /\ Foreign \subseteq Seq([id : DecisionId \cup {ZeroDecision}, cid : Cid])
  /\ MaxDiskErrors \in Nat /\ MaxCrashes \in Nat

VARIABLES
  owner, pendingOwner, isAuthorisedGateway, decisionById, events,
  items,     \* _pending: the stage of each item in memory, or NoItem
  file,        \* the queue file
  unloaded,    \* history: what the file held at a start that could not read it
  due,         \* the items whose next_retry_unix has come, earliest first
  worker,      \* the retry worker: where it is and its item
  gas,         \* what the oracle last said of the gas price
  accepted,    \* items whose writeAuditRecord returned
  pinned,      \* evidence that IPFS has
  sent,        \* items of which a node took a transaction
  pool,        \* those not mined yet
  diskErrors, crashes

contract == <<owner, pendingOwner, isAuthorisedGateway, decisionById, events>>

auditVars == <<contract, items, file, unloaded, due, worker, gas, accepted, pinned, sent,
               pool, diskErrors, crashes>>

Contract == INSTANCE SentinelAudit

AtRest == [pc |-> "rest", item |-> Nothing]

AuditInit ==
  /\ Contract!Init
  /\ items = [q \in QueueId |-> NoItem]
  /\ file = [q \in QueueId |-> NoItem]
  /\ unloaded = {}
  /\ due = <<>>
  /\ worker = AtRest
  /\ gas = "unknown"
  /\ accepted = {} /\ pinned = {} /\ sent = {} /\ pool = {}
  /\ diskErrors = 0 /\ crashes = 0

-----------------------------------------------------------------------------
(* The queue. *)

\* Memory is changed first; the file then follows, or the write raises.
Persisted ==
  /\ file' = items'
  /\ UNCHANGED diskErrors

NotPersisted ==
  /\ diskErrors < MaxDiskErrors
  /\ diskErrors' = diskErrors + 1
  /\ UNCHANGED file

\* Mistake: the caller is answered from memory, and the file is written later.
WriteUnpersisted(q) ==
  /\ items[q] = NoItem /\ q \notin accepted \cup pinned \cup sent \cup unloaded /\ worker.item # q
  /\ items' = [items EXCEPT ![q] = "ipfs"]
  /\ due' = Append(due, q)
  /\ accepted' = accepted \cup {q}
  /\ UNCHANGED <<contract, file, unloaded, worker, gas, pinned, sent, pool, diskErrors,
                 crashes>>

\* A fresh uuid.  When the file cannot be written the caller gets an error, and
\* the item stays in memory.
WriteAuditRecord(q) ==
  /\ items[q] = NoItem /\ q \notin accepted \cup pinned \cup sent \cup unloaded /\ worker.item # q
  /\ items' = [items EXCEPT ![q] = "ipfs"]
  /\ due' = Append(due, q)
  /\ \/ Persisted /\ accepted' = accepted \cup {q}
     \/ NotPersisted /\ UNCHANGED accepted
  /\ UNCHANGED <<contract, unloaded, worker, gas, pinned, sent, pool, crashes>>

InDue(q) == \E i \in DOMAIN due : due[i] = q

\* The delay of an item runs out.
BecomeDue(q) ==
  /\ items[q] # NoItem
  /\ ~InDue(q)
  /\ worker.item # q
  /\ due' = Append(due, q)
  /\ UNCHANGED <<contract, items, file, unloaded, worker, gas, accepted, pinned, sent, pool,
                 diskErrors, crashes>>

-----------------------------------------------------------------------------
(* _retry_worker. *)

\* Mistake: an item counts as uploaded from when its upload begins.
TakeAhead ==
  /\ worker = AtRest /\ due # <<>>
  /\ due' = Tail(due)
  /\ worker' = [pc |-> IF items[Head(due)] = "ipfs" THEN "upload" ELSE "submit",
                item |-> Head(due)]
  /\ items' = [items EXCEPT ![Head(due)] = "tx"]
  /\ Persisted
  /\ UNCHANGED <<contract, unloaded, gas, accepted, pinned, sent, pool, crashes>>

\* An item at stage tx is put off while the gas price is known to be high.
Take ==
  /\ worker = AtRest /\ due # <<>>
  /\ due' = Tail(due)
  /\ \/ /\ items[Head(due)] = "ipfs" \/ gas # "high"
        /\ worker' = [pc |-> IF items[Head(due)] = "ipfs" THEN "upload" ELSE "submit",
                      item |-> Head(due)]
        /\ UNCHANGED <<file, diskErrors>>
     \/ /\ items[Head(due)] = "tx" /\ gas = "high"
        /\ \/ file' = items /\ UNCHANGED <<worker, diskErrors>>
           \/ NotPersisted /\ worker' = [pc |-> "raised", item |-> Head(due)]
  /\ UNCHANGED <<contract, items, unloaded, gas, accepted, pinned, sent, pool, crashes>>

Raise(steps) ==
  /\ worker.pc \in steps
  /\ worker' = [worker EXCEPT !.pc = "raised"]

\* The upload succeeds.  The item changes in memory before it is written.
Upload ==
  /\ worker.pc = "upload"
  /\ pinned' = pinned \cup {worker.item}
  /\ items' = [items EXCEPT ![worker.item] = "tx"]
  /\ \/ Persisted /\ worker' = AtRest /\ due' = Append(due, worker.item)
     \/ NotPersisted /\ Raise({"upload"}) /\ UNCHANGED due
  /\ UNCHANGED <<contract, unloaded, gas, accepted, sent, pool, crashes>>

\* IPFS does not answer, or answers too late.
UploadFails ==
  /\ Raise({"upload"})
  /\ pinned' \in {pinned, pinned \cup {worker.item}}
  /\ UNCHANGED <<contract, items, file, unloaded, due, gas, accepted, sent, pool,
                 diskErrors, crashes>>

\* Nonce, gas price and estimate: the estimate raises where the call would revert.
Estimate ==
  /\ worker.pc = "submit"
  /\ worker' = [worker EXCEPT !.pc =
       IF Contract!Accepts(Service, DecisionOf[worker.item], worker.item)
       THEN "estimated" ELSE "raised"]
  /\ UNCHANGED <<contract, items, file, unloaded, due, gas, accepted, pinned, sent, pool,
                 diskErrors, crashes>>

TakenByNode ==
  /\ sent' = sent \cup {worker.item}
  /\ pool' = pool \cup {worker.item}

\* The node answers: the item is removed, without waiting for a block.
Send ==
  /\ worker.pc = "estimated"
  /\ TakenByNode
  /\ items' = [items EXCEPT ![worker.item] = NoItem]
  /\ \/ Persisted /\ worker' = AtRest
     \/ NotPersisted /\ Raise({"estimated"})
  /\ UNCHANGED <<contract, unloaded, due, gas, accepted, pinned, crashes>>

\* A call to the node raises or times out, the last one perhaps too late.
SendFails ==
  /\ Raise({"submit", "estimated"})
  /\ \/ worker.pc = "estimated" /\ TakenByNode
     \/ UNCHANGED <<sent, pool>>
  /\ UNCHANGED <<contract, items, file, unloaded, due, gas, accepted, pinned, diskErrors,
                 crashes>>

StageOf(q) == IF items[q] = NoItem THEN "tx" ELSE items[q]

\* Mistake: the failed item is the next one again.
RetryAtOnce ==
  /\ worker.pc = "raised"
  /\ items' = [items EXCEPT ![worker.item] = StageOf(worker.item)]
  /\ due' = <<worker.item>> \o due
  /\ Persisted /\ worker' = AtRest
  /\ UNCHANGED <<contract, unloaded, gas, accepted, pinned, sent, pool, crashes>>

\* The except clause puts the item back, one removed already included, and makes
\* it wait.  It is not itself protected: the worker ends if it raises.
PutBack ==
  /\ worker.pc = "raised"
  /\ items' = [items EXCEPT ![worker.item] = StageOf(worker.item)]
  /\ \/ Persisted /\ worker' = AtRest
     \/ NotPersisted /\ worker' = [pc |-> "dead", item |-> Nothing]
  /\ UNCHANGED <<contract, unloaded, due, gas, accepted, pinned, sent, pool, crashes>>

\* A crash, or a stop, and the next start, which reads the file.  If that fails it
\* goes on with an empty queue, and the next write is over what the file held.
RestartService ==
  /\ crashes < MaxCrashes
  /\ crashes' = crashes + 1
  /\ \/ items' = file /\ UNCHANGED <<unloaded, diskErrors>>
     \/ /\ diskErrors < MaxDiskErrors
        /\ diskErrors' = diskErrors + 1
        /\ items' = [q \in QueueId |-> NoItem]
        /\ unloaded' = unloaded \cup {q \in QueueId : file[q] # NoItem}
  /\ due' = <<>>
  /\ worker' = AtRest
  /\ gas' = "unknown"
  /\ UNCHANGED <<contract, file, accepted, pinned, sent, pool>>

-----------------------------------------------------------------------------
(* The surroundings. *)

GasPoll ==
  /\ gas' \in {"unknown", "low", "high"}
  /\ UNCHANGED <<contract, items, file, unloaded, due, worker, accepted, pinned, sent, pool,
                 diskErrors, crashes>>

\* A transaction in a block succeeds or reverts.
Mine(q) ==
  /\ q \in pool
  /\ \/ Contract!RecordDecision(Service, DecisionOf[q], q)
     \/ ~Contract!Accepts(Service, DecisionOf[q], q) /\ UNCHANGED contract
  /\ pool' = pool \ {q}
  /\ UNCHANGED <<items, file, unloaded, due, worker, gas, accepted, pinned, sent,
                 diskErrors, crashes>>

Evict(q) ==
  /\ q \in pool
  /\ pool' = pool \ {q}
  /\ UNCHANGED <<contract, items, file, unloaded, due, worker, gas, accepted, pinned, sent,
                 diskErrors, crashes>>

\* The owner edits the allowlist, and another gateway records decisions.
Elsewhere ==
  /\ \/ \E g \in Gateway \cup {ZeroAddress}, a \in BOOLEAN :
          Contract!SetGatewayAuthorisation(owner, g, a)
     \/ \E g \in Gateway \ {Service}, batch \in Foreign :
          Contract!RecordDecisionBatch(g, batch)
  /\ UNCHANGED <<items, file, unloaded, due, worker, gas, accepted, pinned, sent, pool,
                 diskErrors, crashes>>

RetryWorker ==
  \/ Take \/ Upload \/ UploadFails \/ Estimate \/ Send \/ SendFails \/ PutBack

AuditNext ==
  \/ \E q \in QueueId : WriteAuditRecord(q) \/ BecomeDue(q) \/ Mine(q) \/ Evict(q)
  \/ RetryWorker
  \/ RestartService
  \/ GasPoll
  \/ Elsewhere

AuditSpec == AuditInit /\ [][AuditNext]_auditVars

OfItem(q, Step) == worker.item = q /\ Step

\* The worker runs, delays end, blocks are made; and no outage of IPFS or of the
\* node meets every single attempt for an item.
AuditFairSpec ==
  /\ AuditSpec
  /\ WF_auditVars(RetryWorker)
  /\ \A q \in QueueId :
       /\ WF_auditVars(BecomeDue(q)) /\ WF_auditVars(Mine(q))
       /\ SF_auditVars(OfItem(q, Upload))
       /\ SF_auditVars(OfItem(q, Estimate)) /\ SF_auditVars(OfItem(q, Send))

-----------------------------------------------------------------------------
(* Properties. *)

AuditTypeOK ==
  /\ Contract!Ownership!TypeOK
  /\ isAuthorisedGateway \subseteq Gateway
  /\ \A d \in DecisionId : decisionById[d] # NoDecision => decisionById[d].gateway \in Gateway
  /\ items \in [QueueId -> {NoItem, "ipfs", "tx"}]
  /\ file \in [QueueId -> {NoItem, "ipfs", "tx"}]
  /\ unloaded \subseteq QueueId
  /\ due \in Seq(QueueId)
  /\ worker.pc \in {"rest", "upload", "submit", "estimated", "raised", "dead"}
  /\ worker.item \in QueueId \cup {Nothing}
  /\ gas \in {"unknown", "low", "high"}
  /\ pool \subseteq sent

\* A caller who was told "queued" never loses the record without a trace: the
\* item is in the file, or a node has taken its transaction, whatever crashes
\* and whichever write fails, as long as each start could read the file.
AcceptedSurvives == \A q \in accepted : file[q] # NoItem \/ q \in sent \cup unloaded

\* Evidence comes before the transaction that names it: nothing is sent whose
\* evidence IPFS does not hold, nor does an item reach stage tx without it, on
\* disk or in memory.
EvidenceFirst ==
  \A q \in QueueId : (q \in sent \/ items[q] = "tx" \/ file[q] = "tx") => q \in pinned

\* Each decision is announced once, also when two items, two gateways or two
\* entries of a batch carry it, and the record is what was announced.
OneEventPerDecision ==
  /\ \A i, j \in DOMAIN events : events[i].id = events[j].id => i = j
  /\ \A d \in DecisionId : decisionById[d] # NoDecision =>
       \E i \in DOMAIN events : events[i] = [id |-> d, cid |-> decisionById[d].cid]

\* An item that can never succeed, being a duplicate, holds up no other: the
\* evidence of every accepted decision gets to IPFS, unless the worker ended or
\* a start could not read the queue.
EvidenceArrives ==
  \A q \in QueueId : q \in accepted ~> (q \in pinned \cup unloaded \/ worker.pc = "dead")

\* "IPFS/Web3 outages are handled by durable local queue + exponential backoff":
\* once the service is authorised for good and the gas price stays below the
\* limit, an accepted item is worked off.
WorkedOff ==
  (<>[](Service \in isAuthorisedGateway /\ gas # "high")) =>
    \A q \in QueueId : q \in accepted ~> (items[q] = NoItem \/ worker.pc = "dead")
=============================================================================
