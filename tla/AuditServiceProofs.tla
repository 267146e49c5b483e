------------------------- MODULE AuditServiceProofs -------------------------
(***************************************************************************)
(* What AuditService guarantees for any number of items, decisions,        *)
(* gateways and failures.                                                  *)
(*                                                                         *)
(* AcceptedSurvives speaks of the file; a failed item is written from      *)
(* memory, so memory must keep the promise as well (Remembered).           *)
(* EvidenceFirst needs to know what the worker holds (Hand), which in turn *)
(* needs that no item waits twice, nor while the worker has it (Queued).   *)
(* OneEventPerDecision needs the converse of its second half: whatever was *)
(* announced is on record, so that it is refused from then on (OnRecord).  *)
(***************************************************************************)
EXTENDS AuditService, SequenceTheorems, TLAPS

Stage == {NoItem, "ipfs", "tx"}
Event == [id : DecisionId, cid : Cid]
Record == [cid : Cid, gateway : Gateway]
Place == {"rest", "upload", "submit", "estimated", "raised", "dead"}

QueueTypes ==
  /\ items \in [QueueId -> Stage] /\ file \in [QueueId -> Stage]
  /\ due \in Seq(QueueId) /\ unloaded \subseteq QueueId
  /\ worker \in [pc : Place, item : QueueId \cup {Nothing}]
  /\ accepted \subseteq QueueId /\ pool \subseteq sent /\ sent \subseteq QueueId
  /\ gas \in {"unknown", "low", "high"}

Queued ==
  /\ \A i, j \in 1..Len(due) : due[i] = due[j] => i = j
  /\ \A i \in 1..Len(due) : items[due[i]] # NoItem /\ due[i] # worker.item

Hand ==
  /\ worker.pc \in {"rest", "dead"} <=> worker.item = Nothing
  /\ worker.pc = "upload" => items[worker.item] = "ipfs"
  /\ worker.pc \in {"submit", "estimated"} => worker.item \in pinned
  /\ worker.pc = "raised" => (items[worker.item] = NoItem => worker.item \in pinned)

Remembered == \A q \in accepted : items[q] # NoItem \/ q \in sent \cup unloaded

QInv == QueueTypes /\ Queued /\ Hand /\ Remembered /\ AcceptedSurvives /\ EvidenceFirst

ContractTypes ==
  /\ Contract!Ownership!TypeOK
  /\ isAuthorisedGateway \subseteq Gateway
  /\ decisionById \in [DecisionId -> Record \cup {NoDecision}]
  /\ events \in Seq(Event)

OnRecord == \A i \in 1..Len(events) : decisionById[events[i].id] # NoDecision

CInv == ContractTypes /\ OnRecord /\ OneEventPerDecision

-----------------------------------------------------------------------------
(* The queue. *)

LEMMA QueueInit == AuditInit => QInv
  BY AuditAssumption
  DEF AuditInit, QInv, QueueTypes, Stage, Place, Queued, Hand, Remembered, AcceptedSurvives,
      EvidenceFirst, AtRest

LEMMA AppendDue ==
  ASSUME QueueTypes, Queued, NEW q \in QueueId, \A i \in 1..Len(due) : due[i] # q
  PROVE  /\ Append(due, q) \in Seq(QueueId)
         /\ \A i, j \in 1..Len(Append(due, q)) : Append(due, q)[i] = Append(due, q)[j] => i = j
         /\ \A i \in 1..Len(Append(due, q)) :
              Append(due, q)[i] = q \/ \E j \in 1..Len(due) : Append(due, q)[i] = due[j]
<1>1. due \in Seq(QueueId) /\ Len(due) \in Nat
  BY DEF QueueTypes
<1>2. /\ Append(due, q) \in Seq(QueueId) /\ Len(Append(due, q)) = Len(due) + 1
      /\ \A i \in 1..Len(due) : Append(due, q)[i] = due[i]
      /\ Append(due, q)[Len(due) + 1] = q
  BY <1>1
<1>. QED
  BY <1>1, <1>2 DEF Queued

LEMMA WriteQueue ==
  ASSUME QInv, NEW q \in QueueId, WriteAuditRecord(q)
  PROVE  QInv'
<1>0. /\ items[q] = NoItem /\ q \notin accepted \cup pinned \cup sent /\ worker.item # q
      /\ items' = [items EXCEPT ![q] = "ipfs"] /\ due' = Append(due, q)
      /\ UNCHANGED <<unloaded, worker, gas, pinned, sent, pool>>
      /\ \/ file' = items' /\ accepted' = accepted \cup {q}
         \/ file' = file /\ accepted' = accepted
  BY DEF WriteAuditRecord, Persisted, NotPersisted
<1>1. \A i \in 1..Len(due) : due[i] # q
  BY <1>0 DEF QInv, Queued
<1>2. /\ due' \in Seq(QueueId)
      /\ \A i, j \in 1..Len(due') : due'[i] = due'[j] => i = j
      /\ \A i \in 1..Len(due') : due'[i] = q \/ \E j \in 1..Len(due) : due'[i] = due[j]
  BY <1>0, <1>1, AppendDue DEF QInv
<1>3. items' \in [QueueId -> Stage] /\ items'[q] = "ipfs"
      /\ \A p \in QueueId \ {q} : items'[p] = items[p]
  BY <1>0 DEF QInv, QueueTypes, Stage
<1>4. QueueTypes'
  BY <1>0, <1>2, <1>3 DEF QInv, QueueTypes
<1>5. Queued'
  <2>1. \A i \in 1..Len(due) : due[i] \in QueueId
    BY DEF QInv, QueueTypes
  <2>. QED
    BY <1>0, <1>1, <1>2, <1>3, <2>1, AuditAssumption DEF QInv, Queued
<1>6. Hand'
  BY <1>0, <1>3, AuditAssumption DEF QInv, Hand, QueueTypes
<1>7. Remembered' /\ AcceptedSurvives' /\ EvidenceFirst'
  BY <1>0, <1>3, AuditAssumption DEF QInv, QueueTypes, Remembered, AcceptedSurvives, EvidenceFirst
<1>. QED
  BY <1>4, <1>5, <1>6, <1>7 DEF QInv

LEMMA DueQueue ==
  ASSUME QInv, NEW q \in QueueId, BecomeDue(q)
  PROVE  QInv'
<1>0. /\ items[q] # NoItem /\ ~InDue(q) /\ worker.item # q /\ due' = Append(due, q)
      /\ UNCHANGED <<unloaded, items, file, worker, gas, accepted, pinned, sent, pool>>
  BY DEF BecomeDue
<1>1. \A i \in 1..Len(due) : due[i] # q
  BY <1>0 DEF InDue, QInv, QueueTypes
<1>2. /\ due' \in Seq(QueueId)
      /\ \A i, j \in 1..Len(due') : due'[i] = due'[j] => i = j
      /\ \A i \in 1..Len(due') : due'[i] = q \/ \E j \in 1..Len(due) : due'[i] = due[j]
  BY <1>0, <1>1, AppendDue DEF QInv
<1>3. QueueTypes'
  BY <1>0, <1>2 DEF QInv, QueueTypes
<1>4. Queued'
  BY <1>0, <1>2 DEF QInv, Queued
<1>5. Hand' /\ Remembered' /\ AcceptedSurvives' /\ EvidenceFirst'
  BY <1>0 DEF QInv, Hand, Remembered, AcceptedSurvives, EvidenceFirst
<1>. QED
  BY <1>3, <1>4, <1>5 DEF QInv

\* The items that wait, but for the first of them.
LEMMA TailDue ==
  ASSUME QueueTypes, Queued, due # <<>>
  PROVE  /\ Tail(due) \in Seq(QueueId) /\ Head(due) \in QueueId
         /\ items[Head(due)] # NoItem /\ Head(due) # worker.item
         /\ \A i, j \in 1..Len(Tail(due)) : Tail(due)[i] = Tail(due)[j] => i = j
         /\ \A i \in 1..Len(Tail(due)) :
              Tail(due)[i] # Head(due) /\ \E j \in 1..Len(due) : Tail(due)[i] = due[j]
<1>1. due \in Seq(QueueId) /\ Len(due) \in Nat /\ Len(due) >= 1
  BY DEF QueueTypes
<1>2. /\ Tail(due) \in Seq(QueueId) /\ Len(Tail(due)) = Len(due) - 1
      /\ \A i \in 1..Len(Tail(due)) : Tail(due)[i] = due[i + 1]
  BY <1>1
<1>3. Head(due) = due[1] /\ Head(due) \in QueueId
  BY <1>1
<1>. QED
  BY <1>1, <1>2, <1>3 DEF Queued

LEMMA TakeQueue ==
  ASSUME QInv, Take
  PROVE  QInv'
<1> DEFINE q == Head(due)
<1>0. /\ worker = AtRest /\ due # <<>> /\ due' = Tail(due)
      /\ UNCHANGED <<unloaded, items, gas, accepted, pinned, sent, pool>>
  BY DEF Take
<1>1. q \in QueueId /\ items[q] \in {"ipfs", "tx"} /\ q # Nothing
  BY <1>0, TailDue, AuditAssumption DEF QInv, QueueTypes, Stage
<1>2. worker.pc = "rest" /\ worker.item = Nothing
  BY <1>0 DEF AtRest
<1>3. \/ worker' = [pc |-> "upload", item |-> q] /\ items[q] = "ipfs" /\ file' = file
      \/ worker' = [pc |-> "submit", item |-> q] /\ items[q] = "tx" /\ file' = file
      \/ worker' = worker /\ file' = items
      \/ worker' = [pc |-> "raised", item |-> q] /\ items[q] = "tx" /\ file' = file
  BY <1>1 DEF Take, NotPersisted
<1>4. /\ due' \in Seq(QueueId)
      /\ \A i, j \in 1..Len(due') : due'[i] = due'[j] => i = j
      /\ \A i \in 1..Len(due') : due'[i] # q /\ \E j \in 1..Len(due) : due'[i] = due[j]
  BY <1>0, TailDue DEF QInv
<1>a. worker' = worker \/ worker'.item = q
  BY <1>3
<1>b. worker' \in [pc : Place, item : QueueId \cup {Nothing}]
  BY <1>1, <1>3 DEF QInv, QueueTypes, Place
<1>. HIDE DEF q
<1>5. QueueTypes'
  BY <1>0, <1>3, <1>4, <1>b DEF QInv, QueueTypes
<1>6. Queued'
  BY <1>0, <1>4, <1>a DEF QInv, Queued
<1>7. Hand'
  <2>1. items[q] = "tx" => q \in pinned
    BY <1>1 DEF QInv, EvidenceFirst
  <2>. QED
    BY <1>0, <1>1, <1>2, <1>3, <2>1, AuditAssumption DEF QInv, Hand
<1>8. Remembered' /\ AcceptedSurvives' /\ EvidenceFirst'
  BY <1>0, <1>3 DEF QInv, Remembered, AcceptedSurvives, EvidenceFirst
<1>. QED
  BY <1>5, <1>6, <1>7, <1>8 DEF QInv

\* What the worker has in hand, in any place but at rest.
LEMMA ItemInHand ==
  ASSUME QInv, worker.pc \notin {"rest", "dead"}
  PROVE  /\ worker.item \in QueueId /\ worker = [pc |-> worker.pc, item |-> worker.item]
         /\ \A i \in 1..Len(due) : due[i] # worker.item
  BY DEF QInv, QueueTypes, Hand, Queued

LEMMA RaisedFields ==
  ASSUME QInv, NEW steps, Raise(steps)
  PROVE  /\ worker' \in [pc : Place, item : QueueId \cup {Nothing}]
         /\ worker'.pc = "raised" /\ worker'.item = worker.item
  BY DEF Raise, QInv, QueueTypes, Place

LEMMA UploadQueue ==
  ASSUME QInv, Upload
  PROVE  QInv'
<1>a. PICK q : q = worker.item
  OBVIOUS
<1>0. /\ worker.pc = "upload" /\ pinned' = pinned \cup {q}
      /\ items' = [items EXCEPT ![q] = "tx"]
      /\ UNCHANGED <<unloaded, gas, accepted, sent, pool>>
      /\ \/ file' = items' /\ worker' = AtRest /\ due' = Append(due, q)
         \/ file' = file /\ Raise({"upload"}) /\ due' = due
  BY <1>a DEF Upload, Persisted, NotPersisted
<1>1. /\ q \in QueueId /\ q # Nothing /\ \A i \in 1..Len(due) : due[i] # q
  BY <1>a, <1>0, ItemInHand, AuditAssumption
<1>2. items' \in [QueueId -> Stage] /\ items'[q] = "tx"
      /\ \A p \in QueueId \ {q} : items'[p] = items[p]
  BY <1>0, <1>1 DEF QInv, QueueTypes, Stage
<1>3. /\ due' \in Seq(QueueId)
      /\ \A i, j \in 1..Len(due') : due'[i] = due'[j] => i = j
      /\ \A i \in 1..Len(due') : due'[i] = q \/ \E j \in 1..Len(due) : due'[i] = due[j]
      /\ worker' = AtRest \/ \A i \in 1..Len(due') : due'[i] # q
  <2>1. CASE due' = Append(due, q) /\ worker' = AtRest
    BY <1>1, <2>1, AppendDue DEF QInv
  <2>2. CASE due' = due
    BY <1>1, <2>2 DEF QInv, QueueTypes, Queued
  <2>. QED
    BY <1>0, <2>1, <2>2
<1>4. \/ worker' = AtRest /\ worker'.pc = "rest" /\ worker'.item = Nothing
      \/ worker' # AtRest /\ worker'.pc = "raised" /\ worker'.item = q
  BY <1>a, <1>0, RaisedFields DEF AtRest
<1>5. worker' \in [pc : Place, item : QueueId \cup {Nothing}]
  BY <1>0, RaisedFields DEF AtRest, Place
<1>6. QueueTypes'
  BY <1>0, <1>2, <1>3, <1>5 DEF QInv, QueueTypes
<1>7. Queued'
  <2>1. \A i \in 1..Len(due) : due[i] \in QueueId
    BY DEF QInv, QueueTypes
  <2>2. \A i \in 1..Len(due') : items'[due'[i]] # NoItem
    BY <1>1, <1>2, <1>3, <2>1, AuditAssumption DEF QInv, Queued
  <2>3. \A i \in 1..Len(due') : due'[i] # worker'.item
    <3>1. \A i \in 1..Len(due') : due'[i] \in QueueId
      BY <1>3
    <3>2. CASE worker'.pc = "rest" /\ worker'.item = Nothing
      BY <3>1, <3>2, AuditAssumption
    <3>3. CASE worker' # AtRest /\ worker'.item = q
      BY <1>3, <3>3
    <3>. QED
      BY <1>4, <3>2, <3>3
  <2>. QED
    BY <1>3, <2>2, <2>3 DEF Queued
<1>8. Hand'
  <2>1. CASE worker'.pc = "rest" /\ worker'.item = Nothing
    BY <2>1 DEF Hand
  <2>2. CASE worker'.pc = "raised" /\ worker'.item = q
    BY <1>0, <1>1, <2>2, AuditAssumption DEF Hand
  <2>. QED
    BY <1>4, <2>1, <2>2
<1>9. Remembered' /\ AcceptedSurvives' /\ EvidenceFirst'
  BY <1>0, <1>1, <1>2, AuditAssumption
  DEF QInv, QueueTypes, Remembered, AcceptedSurvives, EvidenceFirst
<1>. QED
  BY <1>6, <1>7, <1>8, <1>9 DEF QInv

\* The worker goes on with its item, and at most evidence and transactions are added.
LEMMA SameItem ==
  ASSUME QInv, UNCHANGED <<unloaded, items, file, due, gas, accepted>>,
         worker.pc \notin {"rest", "dead"},
         worker' \in [pc : Place, item : QueueId \cup {Nothing}],
         worker'.item = worker.item,
         worker'.pc = "raised" \/ {worker.pc, worker'.pc} \subseteq {"submit", "estimated"},
         pinned \subseteq pinned', sent \subseteq sent', pool' \subseteq sent',
         sent' \subseteq sent \cup (pinned \cap {worker.item})
  PROVE  QInv'
<1>1. worker.item \in QueueId
  BY ItemInHand
<1>2. QueueTypes'
  BY <1>1 DEF QInv, QueueTypes
<1>3. Queued'
  BY DEF QInv, Queued
<1>4. Hand'
  <2>1. worker.item # Nothing /\ worker'.item # Nothing
    BY <1>1, AuditAssumption
  <2>2. worker.pc \in {"upload", "submit", "estimated", "raised"}
    BY DEF QInv, QueueTypes, Place
  <2>3. items[worker.item] = NoItem => worker.item \in pinned
    BY <2>2, AuditAssumption DEF QInv, Hand
  <2>4. CASE worker'.pc = "raised"
    BY <2>1, <2>3, <2>4 DEF Hand
  <2>5. CASE {worker.pc, worker'.pc} \subseteq {"submit", "estimated"}
    <3>1. worker.item \in pinned
      BY <2>5 DEF QInv, Hand
    <3>. QED
      BY <2>1, <2>5, <3>1 DEF Hand
  <2>. QED
    BY <2>4, <2>5
<1>5. Remembered' /\ AcceptedSurvives' /\ EvidenceFirst'
  BY DEF QInv, Remembered, AcceptedSurvives, EvidenceFirst
<1>. QED
  BY <1>2, <1>3, <1>4, <1>5 DEF QInv

LEMMA UploadFailsQueue ==
  ASSUME QInv, UploadFails
  PROVE  QInv'
<1>1. worker.pc = "upload" /\ pinned \subseteq pinned'
      /\ UNCHANGED <<unloaded, items, file, due, gas, accepted, sent, pool>>
  BY DEF UploadFails, Raise
<1>2. worker' \in [pc : Place, item : QueueId \cup {Nothing}]
      /\ worker'.pc = "raised" /\ worker'.item = worker.item
  BY RaisedFields DEF UploadFails
<1>3. pool' \subseteq sent'
  BY <1>1 DEF QInv, QueueTypes
<1>. QED
  BY <1>1, <1>2, <1>3, SameItem

LEMMA EstimateQueue ==
  ASSUME QInv, Estimate
  PROVE  QInv'
<1>1. worker.pc = "submit" /\ UNCHANGED <<unloaded, items, file, due, gas, accepted, pinned, sent, pool>>
  BY DEF Estimate
<1>2. \/ worker' = [worker EXCEPT !.pc = "estimated"]
      \/ worker' = [worker EXCEPT !.pc = "raised"]
  BY DEF Estimate
<1>3. /\ worker' \in [pc : Place, item : QueueId \cup {Nothing}]
      /\ worker'.pc \in {"estimated", "raised"} /\ worker'.item = worker.item
  BY <1>2 DEF QInv, QueueTypes, Place
<1>4. pool' \subseteq sent'
  BY <1>1 DEF QInv, QueueTypes
<1>. QED
  BY <1>1, <1>3, <1>4, SameItem

LEMMA SendFailsQueue ==
  ASSUME QInv, SendFails
  PROVE  QInv'
<1>1. /\ worker.pc \in {"submit", "estimated"}
      /\ UNCHANGED <<unloaded, items, file, due, gas, accepted, pinned>>
  BY DEF SendFails, Raise
<1>2. worker' \in [pc : Place, item : QueueId \cup {Nothing}]
      /\ worker'.pc = "raised" /\ worker'.item = worker.item
  BY RaisedFields DEF SendFails
<1>3. worker.item \in pinned
  BY <1>1 DEF QInv, Hand
<1>4. pool \subseteq sent
  BY DEF QInv, QueueTypes
<1>5. \/ sent' = sent \cup {worker.item} /\ pool' = pool \cup {worker.item}
      \/ sent' = sent /\ pool' = pool
  BY DEF SendFails, TakenByNode
<1>. QED
  BY <1>1, <1>2, <1>3, <1>4, <1>5, SameItem

LEMMA SendQueue ==
  ASSUME QInv, Send
  PROVE  QInv'
<1>a. PICK q : q = worker.item
  OBVIOUS
<1>0. /\ worker.pc = "estimated"
      /\ sent' = sent \cup {q} /\ pool' = pool \cup {q}
      /\ items' = [items EXCEPT ![q] = NoItem]
      /\ UNCHANGED <<unloaded, due, gas, accepted, pinned>>
      /\ \/ file' = items' /\ worker' = AtRest
         \/ file' = file /\ Raise({"estimated"})
  BY <1>a DEF Send, TakenByNode, Persisted, NotPersisted
<1>1. /\ q \in QueueId /\ q # Nothing /\ q \in pinned /\ \A i \in 1..Len(due) : due[i] # q
  BY <1>a, <1>0, ItemInHand, AuditAssumption DEF QInv, Hand
<1>2. items' \in [QueueId -> Stage] /\ items'[q] = NoItem
      /\ \A p \in QueueId \ {q} : items'[p] = items[p]
  BY <1>0, <1>1 DEF QInv, QueueTypes, Stage
<1>4. \/ worker'.pc = "rest" /\ worker'.item = Nothing
      \/ worker'.pc = "raised" /\ worker'.item = q
  BY <1>a, <1>0, RaisedFields DEF AtRest
<1>5. worker' \in [pc : Place, item : QueueId \cup {Nothing}]
  BY <1>0, RaisedFields DEF AtRest, Place
<1>6. QueueTypes'
  BY <1>0, <1>1, <1>2, <1>5 DEF QInv, QueueTypes
<1>7. Queued'
  <2>1. \A i \in 1..Len(due) : due[i] \in QueueId
    BY DEF QInv, QueueTypes
  <2>. QED
    BY <1>0, <1>1, <1>2, <1>4, <2>1, AuditAssumption DEF QInv, Queued
<1>8. Hand'
  <2>1. CASE worker'.pc = "rest" /\ worker'.item = Nothing
    BY <2>1 DEF Hand
  <2>2. CASE worker'.pc = "raised" /\ worker'.item = q
    BY <1>0, <1>1, <2>2 DEF Hand
  <2>. QED
    BY <1>4, <2>1, <2>2
<1>9. Remembered' /\ AcceptedSurvives' /\ EvidenceFirst'
  BY <1>0, <1>1, <1>2, AuditAssumption
  DEF QInv, QueueTypes, Remembered, AcceptedSurvives, EvidenceFirst
<1>. QED
  BY <1>6, <1>7, <1>8, <1>9 DEF QInv

LEMMA PutBackQueue ==
  ASSUME QInv, PutBack
  PROVE  QInv'
<1>a. PICK q : q = worker.item
  OBVIOUS
<1>0. /\ worker.pc = "raised"
      /\ items' = [items EXCEPT ![q] = StageOf(q)]
      /\ UNCHANGED <<unloaded, due, gas, accepted, pinned, sent, pool>>
      /\ \/ file' = items' /\ worker' = AtRest
         \/ file' = file /\ worker' = [pc |-> "dead", item |-> Nothing]
  BY <1>a DEF PutBack, Persisted, NotPersisted
<1>1. /\ q \in QueueId /\ \A i \in 1..Len(due) : due[i] # q
      /\ items[q] = NoItem => q \in pinned
  BY <1>a, <1>0, ItemInHand DEF QInv, Hand
<1>2. /\ items' \in [QueueId -> Stage]
      /\ items'[q] # NoItem /\ (items'[q] = "tx" => items[q] = "tx" \/ q \in pinned)
      /\ \A p \in QueueId \ {q} : items'[p] = items[p]
  BY <1>0, <1>1, AuditAssumption DEF QInv, QueueTypes, Stage, StageOf
<1>3. worker'.pc \in {"rest", "dead"} /\ worker'.item = Nothing
      /\ worker' \in [pc : Place, item : QueueId \cup {Nothing}]
  BY <1>0 DEF AtRest, Place
<1>4. QueueTypes'
  BY <1>0, <1>2, <1>3 DEF QInv, QueueTypes
<1>5. Queued'
  <2>1. \A i \in 1..Len(due) : due[i] \in QueueId
    BY DEF QInv, QueueTypes
  <2>. QED
    BY <1>0, <1>1, <1>2, <1>3, <2>1, AuditAssumption DEF QInv, Queued
<1>6. Hand'
  BY <1>3 DEF Hand
<1>7. EvidenceFirst'
  BY <1>0, <1>2 DEF QInv, EvidenceFirst
<1>8. Remembered' /\ AcceptedSurvives'
  BY <1>0, <1>2 DEF QInv, QueueTypes, Remembered, AcceptedSurvives
<1>. QED
  BY <1>4, <1>5, <1>6, <1>7, <1>8 DEF QInv

LEMMA RestartQueue ==
  ASSUME QInv, RestartService
  PROVE  QInv'
<1>1. /\ due' = <<>> /\ worker' = AtRest /\ gas' = "unknown"
      /\ UNCHANGED <<file, accepted, pinned, sent, pool>>
      /\ \/ items' = file /\ unloaded' = unloaded
         \/ /\ items' = [q \in QueueId |-> NoItem]
            /\ unloaded' = unloaded \cup {q \in QueueId : file[q] # NoItem}
  BY DEF RestartService
<1>2. worker'.pc = "rest" /\ worker'.item = Nothing
  BY <1>1 DEF AtRest
<1>3. QueueTypes'
  BY <1>1 DEF QInv, QueueTypes, Stage, AtRest, Place
<1>4. Queued' /\ Hand'
  BY <1>1, <1>2 DEF Queued, Hand
<1>5. Remembered' /\ AcceptedSurvives' /\ EvidenceFirst'
  BY <1>1, AuditAssumption DEF QInv, QueueTypes, Remembered, AcceptedSurvives, EvidenceFirst
<1>. QED
  BY <1>3, <1>4, <1>5 DEF QInv

LEMMA AroundQueue ==
  ASSUME QInv, UNCHANGED <<unloaded, items, file, due, worker, accepted, pinned, sent>>,
         pool' \subseteq pool, gas' \in {"unknown", "low", "high"}
  PROVE  QInv'
<1>1. QueueTypes' /\ Queued' /\ Hand'
  BY DEF QInv, QueueTypes, Queued, Hand
<1>2. Remembered' /\ AcceptedSurvives' /\ EvidenceFirst'
  BY DEF QInv, Remembered, AcceptedSurvives, EvidenceFirst
<1>. QED
  BY <1>1, <1>2 DEF QInv

LEMMA QueueNext == QInv /\ [AuditNext]_auditVars => QInv'
<1> SUFFICES ASSUME QInv, [AuditNext]_auditVars PROVE QInv'
  OBVIOUS
<1>0. gas \in {"unknown", "low", "high"}
  BY DEF QInv, QueueTypes
<1>1. ASSUME NEW q \in QueueId, WriteAuditRecord(q) \/ BecomeDue(q) PROVE QInv'
  BY <1>1, WriteQueue, DueQueue
<1>2. ASSUME NEW q \in QueueId, Mine(q) \/ Evict(q) PROVE QInv'
  <2>1. UNCHANGED <<unloaded, items, file, due, worker, gas, accepted, pinned, sent>> /\ pool' \subseteq pool
    BY <1>2 DEF Mine, Evict
  <2>. QED
    BY <1>0, <2>1, AroundQueue
<1>3. CASE RetryWorker
  BY <1>3, TakeQueue, UploadQueue, UploadFailsQueue, EstimateQueue, SendQueue, SendFailsQueue,
     PutBackQueue DEF RetryWorker
<1>4. CASE RestartService
  BY <1>4, RestartQueue
<1>5. CASE GasPoll
  BY <1>5, AroundQueue DEF GasPoll
<1>6. CASE Elsewhere
  <2>1. UNCHANGED <<unloaded, items, file, due, worker, gas, accepted, pinned, sent, pool>>
    BY <1>6 DEF Elsewhere
  <2>. QED
    BY <1>0, <2>1, AroundQueue
<1>7. CASE UNCHANGED auditVars
  BY <1>0, <1>7, AroundQueue DEF auditVars
<1>. QED
  BY <1>1, <1>2, <1>3, <1>4, <1>5, <1>6, <1>7 DEF AuditNext

LEMMA QueueInvariant == AuditSpec => []QInv
  BY QueueInit, QueueNext, PTL DEF AuditSpec

\* writeAuditRecord, _save_queue: whatever crashes and whichever write fails, an
\* item that a caller was told is queued is in the file or at a node.
THEOREM AcceptedIsDurable == AuditSpec => []AcceptedSurvives
<1>1. QInv => AcceptedSurvives
  BY DEF QInv
<1>. QED
  BY <1>1, QueueInvariant, PTL

\* _process_item: whatever fails in between, nothing is sent, nor stored as ready
\* to be sent, before IPFS holds its evidence.
THEOREM EvidenceComesFirst == AuditSpec => []EvidenceFirst
<1>1. QInv => EvidenceFirst
  BY DEF QInv
<1>. QED
  BY <1>1, QueueInvariant, PTL

-----------------------------------------------------------------------------
(* The contract. *)

LEMMA ContractInit == AuditInit => CInv
  BY AuditAssumption
  DEF AuditInit, Contract!Init, Contract!Ownership!Init, CInv, ContractTypes, Contract!Ownership!TypeOK,
      OnRecord, OneEventPerDecision, Record, Event

LEMMA Announced ==
  ASSUME CInv, NEW i \in 1..Len(events)
  PROVE  events[i] \in Event /\ events[i].id \in DecisionId /\ decisionById[events[i].id] # NoDecision
<1>1. events[i] \in Event
  BY DEF CInv, ContractTypes
<1>. QED
  BY <1>1 DEF CInv, OnRecord, Event

LEMMA RecordOnce ==
  ASSUME CInv, NEW d \in DecisionId \cup {ZeroDecision}, NEW cid \in Cid,
         Contract!RecordDecision(Service, d, cid)
  PROVE  CInv'
<1>0. /\ Service \in Gateway /\ d \in DecisionId /\ decisionById[d] = NoDecision
      /\ decisionById' = [decisionById EXCEPT ![d] = [cid |-> cid, gateway |-> Service]]
      /\ events' = Append(events, [id |-> d, cid |-> cid])
      /\ UNCHANGED <<owner, pendingOwner, isAuthorisedGateway>>
  BY AuditAssumption DEF Contract!RecordDecision, Contract!Accepts
<1>1. /\ [cid |-> cid, gateway |-> Service] \in Record
      /\ NoDecision \notin Record /\ [id |-> d, cid |-> cid] \in Event
  BY <1>0, AuditAssumption DEF Record, Event
<1>2. /\ events \in Seq(Event) /\ Len(events) \in Nat
      /\ decisionById \in [DecisionId -> Record \cup {NoDecision}]
  BY DEF CInv, ContractTypes
<1>3. /\ events' \in Seq(Event) /\ Len(events') = Len(events) + 1
      /\ \A i \in 1..Len(events) : events'[i] = events[i]
      /\ events'[Len(events) + 1] = [id |-> d, cid |-> cid]
  BY <1>0, <1>1, <1>2
<1>4. /\ decisionById'[d] = [cid |-> cid, gateway |-> Service] /\ decisionById'[d] # NoDecision
      /\ \A e \in DecisionId \ {d} : decisionById'[e] = decisionById[e]
  BY <1>0, <1>1, <1>2
<1>5. ContractTypes'
  BY <1>0, <1>1, <1>2, <1>3 DEF CInv, ContractTypes, Contract!Ownership!TypeOK
<1>6. \A i \in 1..Len(events) : events[i].id \in DecisionId /\ events[i].id # d
  BY <1>0, Announced
<1>7. OnRecord'
  BY <1>2, <1>3, <1>4, <1>6 DEF CInv, OnRecord
<1>8. OneEventPerDecision'
  <2>1. DOMAIN events = 1..Len(events) /\ DOMAIN events' = 1..Len(events')
    BY <1>2, <1>3
  <2>2. \A i, j \in DOMAIN events' : events'[i].id = events'[j].id => i = j
    BY <1>2, <1>3, <1>6, <2>1 DEF CInv, OneEventPerDecision
  <2>3. ASSUME NEW e \in DecisionId, decisionById'[e] # NoDecision
        PROVE  \E i \in DOMAIN events' : events'[i] = [id |-> e, cid |-> decisionById'[e].cid]
    <3>1. CASE e = d
      BY <1>2, <1>3, <1>4, <2>1, <3>1
    <3>2. CASE e # d
      <4>1. PICK i \in DOMAIN events : events[i] = [id |-> e, cid |-> decisionById[e].cid]
        BY <1>4, <2>3, <3>2 DEF CInv, OneEventPerDecision
      <4>2. i \in DOMAIN events' /\ events'[i] = events[i]
        BY <1>2, <1>3, <2>1
      <4>. QED
        BY <1>4, <3>2, <4>1, <4>2
    <3>. QED
      BY <3>1, <3>2
  <2>. QED
    BY <2>2, <2>3 DEF OneEventPerDecision
<1>. QED
  BY <1>5, <1>7, <1>8 DEF CInv

LEMMA RecordBatchOnce ==
  ASSUME CInv, NEW g \in Gateway, NEW batch \in Foreign, Contract!RecordDecisionBatch(g, batch)
  PROVE  CInv'
<1> DEFINE At(d) == CHOOSE i \in DOMAIN batch : batch[i].id = d
           Of(d) == [cid |-> batch[At(d)].cid, gateway |-> g]
<1>0. /\ batch \in Seq([id : DecisionId \cup {ZeroDecision}, cid : Cid])
      /\ Len(batch) \in Nat /\ DOMAIN batch = 1..Len(batch)
  <2>1. batch \in Seq([id : DecisionId \cup {ZeroDecision}, cid : Cid])
    BY AuditAssumption
  <2>. QED
    BY <2>1
<1>1. /\ \A i \in DOMAIN batch : /\ batch[i] \in Event /\ batch[i].id \in DecisionId
                                 /\ decisionById[batch[i].id] = NoDecision
                                 /\ \A j \in 1..(i - 1) : batch[j].id # batch[i].id
  <2>1. \A i \in DOMAIN batch :
          /\ batch[i].id # ZeroDecision /\ decisionById[batch[i].id] = NoDecision
          /\ \A j \in 1..(i - 1) : batch[j].id # batch[i].id
    BY DEF Contract!RecordDecisionBatch, Contract!BatchAccepted, Contract!Accepts
  <2>2. \A i \in DOMAIN batch : batch[i] \in [id : DecisionId \cup {ZeroDecision}, cid : Cid]
    <3> DEFINE Entry == [id : DecisionId \cup {ZeroDecision}, cid : Cid]
    <3>1. batch \in Seq(Entry)
      BY <1>0
    <3> HIDE DEF Entry
    <3>2. \A i \in DOMAIN batch : batch[i] \in Entry
      BY <1>0, <3>1, ElementOfSeq
    <3>. QED
      BY <3>2 DEF Entry
  <2>3. \A i \in DOMAIN batch : batch[i] \in Event /\ batch[i].id \in DecisionId
    BY <2>1, <2>2 DEF Event
  <2>. QED
    BY <2>1, <2>3
<1>2. /\ decisionById' = [d \in DecisionId |->
            IF \E i \in DOMAIN batch : batch[i].id = d THEN Of(d) ELSE decisionById[d]]
      /\ events' = events \o batch
      /\ UNCHANGED <<owner, pendingOwner, isAuthorisedGateway>>
  BY DEF Contract!RecordDecisionBatch
<1>3. /\ events \in Seq(Event) /\ Len(events) \in Nat /\ DOMAIN events = 1..Len(events)
      /\ decisionById \in [DecisionId -> Record \cup {NoDecision}]
  BY DEF CInv, ContractTypes
<1>4. \A i, j \in DOMAIN batch : batch[i].id = batch[j].id => i = j
  BY <1>0, <1>1
<1>5. \A i \in DOMAIN batch : At(batch[i].id) = i
  BY <1>4
<1>6. /\ \A i \in DOMAIN batch : /\ decisionById'[batch[i].id] = [cid |-> batch[i].cid, gateway |-> g]
                                 /\ decisionById'[batch[i].id] \in Record
      /\ \A d \in DecisionId : \/ \E i \in DOMAIN batch : batch[i].id = d
                               \/ decisionById'[d] = decisionById[d]
  BY <1>1, <1>2, <1>5 DEF Record, Event
<1>. HIDE DEF At, Of
<1>7. NoDecision \notin Record
  BY AuditAssumption DEF Record
<1>8. batch \in Seq(Event)
  BY <1>0, <1>1
<1>9. /\ events' \in Seq(Event) /\ Len(events') = Len(events) + Len(batch)
      /\ DOMAIN events' = 1..Len(events')
      /\ \A i \in 1..Len(events) : events'[i] = events[i]
      /\ \A i \in 1..Len(batch) : events'[Len(events) + i] = batch[i]
  BY <1>0, <1>2, <1>3, <1>8
<1>10. decisionById' \in [DecisionId -> Record \cup {NoDecision}]
  <2>1. \A d \in DecisionId : decisionById'[d] \in Record \cup {NoDecision}
    BY <1>3, <1>6
  <2>. QED
    BY <1>2, <2>1
<1>11. ContractTypes'
  BY <1>2, <1>9, <1>10 DEF CInv, ContractTypes, Contract!Ownership!TypeOK
<1>12. \A i \in 1..Len(events) : /\ events[i].id \in DecisionId /\ decisionById[events[i].id] # NoDecision
                                 /\ \A j \in DOMAIN batch : batch[j].id # events[i].id
  BY <1>1, Announced
<1>13. \A i \in 1..Len(events') : i \in 1..Len(events) \/ \E k \in 1..Len(batch) : i = Len(events) + k
  <2>0. Len(events) \in Nat /\ Len(events') \in Nat /\ Len(batch) \in Nat
    BY <1>3, <1>8, <1>9
  <2>1. \A m, n, i \in Nat : (i \in 1..(m + n) /\ i \notin 1..m) => i - m \in 1..n /\ i = m + (i - m)
    OBVIOUS
  <2>2. ASSUME NEW i \in 1..Len(events'), i \notin 1..Len(events)
        PROVE  \E k \in 1..Len(batch) : i = Len(events) + k
    <3>1. i \in Nat /\ i \in 1..(Len(events) + Len(batch))
      BY <1>9, <2>0
    <3>2. i - Len(events) \in 1..Len(batch) /\ i = Len(events) + (i - Len(events))
      BY ONLY <2>0, <2>1, <2>2, <3>1
    <3>. QED
      BY <3>2
  <2>. QED
    BY <2>2
<1>14. OnRecord'
  <2> SUFFICES ASSUME NEW i \in 1..Len(events') PROVE decisionById'[events'[i].id] # NoDecision
    BY DEF OnRecord
  <2>1. CASE i \in 1..Len(events)
    <3>1. events'[i] = events[i] /\ events[i].id \in DecisionId /\ decisionById[events[i].id] # NoDecision
      BY <1>9, <1>12, <2>1
    <3>2. decisionById'[events[i].id] = decisionById[events[i].id]
      BY <1>6, <1>12, <2>1, <3>1
    <3>. QED
      BY <3>1, <3>2
  <2>2. ASSUME NEW k \in 1..Len(batch), i = Len(events) + k
        PROVE  decisionById'[events'[i].id] # NoDecision
    <3>1. events'[i] = batch[k] /\ k \in DOMAIN batch
      BY <1>0, <1>9, <2>2
    <3>. QED
      BY <1>6, <1>7, <3>1
  <2>. QED
    BY <1>13, <2>1, <2>2
<1>15. OneEventPerDecision'
  <2>1. \A i, j \in DOMAIN events' : events'[i].id = events'[j].id => i = j
    <3> SUFFICES ASSUME NEW i \in DOMAIN events', NEW j \in DOMAIN events', events'[i].id = events'[j].id
                 PROVE  i = j
      OBVIOUS
    <3>1. CASE i \in 1..Len(events) /\ j \in 1..Len(events)
      BY <1>3, <1>9, <3>1 DEF CInv, OneEventPerDecision
    <3>2. CASE \E k \in 1..Len(batch), l \in 1..Len(batch) : i = Len(events) + k /\ j = Len(events) + l
      <4>1. PICK k \in 1..Len(batch), l \in 1..Len(batch) : i = Len(events) + k /\ j = Len(events) + l
        BY <3>2
      <4>2. events'[i] = batch[k] /\ events'[j] = batch[l]
        BY <1>9, <4>1
      <4>. QED
        BY <1>0, <1>4, <4>1, <4>2
    <3>3. CASE i \in 1..Len(events) /\ \E l \in 1..Len(batch) : j = Len(events) + l
      BY <1>0, <1>9, <1>12, <3>3
    <3>4. CASE j \in 1..Len(events) /\ \E k \in 1..Len(batch) : i = Len(events) + k
      BY <1>0, <1>9, <1>12, <3>4
    <3>5. /\ i \in 1..Len(events) \/ \E k \in 1..Len(batch) : i = Len(events) + k
          /\ j \in 1..Len(events) \/ \E l \in 1..Len(batch) : j = Len(events) + l
      BY <1>9, <1>13
    <3>. QED
      BY ONLY <3>1, <3>2, <3>3, <3>4, <3>5, Zenon
  <2>2. ASSUME NEW e \in DecisionId, decisionById'[e] # NoDecision
        PROVE  \E i \in DOMAIN events' : events'[i] = [id |-> e, cid |-> decisionById'[e].cid]
    <3>1. ASSUME NEW k \in DOMAIN batch, batch[k].id = e
          PROVE  \E i \in DOMAIN events' : events'[i] = [id |-> e, cid |-> decisionById'[e].cid]
      <4>1. batch[k] = [id |-> e, cid |-> decisionById'[e].cid]
        <5>1. batch[k] \in Event
          BY <1>1, <3>1
        <5>2. decisionById'[batch[k].id] = [cid |-> batch[k].cid, gateway |-> g]
          BY <1>6, <3>1
        <5>3. decisionById'[e].cid = batch[k].cid
          BY <3>1, <5>2
        <5>. QED
          BY <5>1, <5>3, <3>1 DEF Event
      <4>2. Len(events) + k \in DOMAIN events' /\ events'[Len(events) + k] = batch[k]
        BY <1>0, <1>3, <1>9, <3>1
      <4>. QED
        BY <4>1, <4>2
    <3>2. CASE decisionById'[e] = decisionById[e]
      <4>1. PICK i \in DOMAIN events : events[i] = [id |-> e, cid |-> decisionById[e].cid]
        BY <2>2, <3>2 DEF CInv, OneEventPerDecision
      <4>2. i \in DOMAIN events' /\ events'[i] = events[i]
        BY <1>0, <1>3, <1>9
      <4>. QED
        BY <3>2, <4>1, <4>2
    <3>. QED
      BY <1>6, <3>1, <3>2
  <2>. QED
    BY <2>1, <2>2 DEF OneEventPerDecision
<1>. QED
  BY <1>11, <1>14, <1>15 DEF CInv

LEMMA ContractAlone ==
  ASSUME CInv, UNCHANGED <<owner, pendingOwner, decisionById, events>>,
         isAuthorisedGateway' \subseteq Gateway
  PROVE  CInv'
  BY DEF CInv, ContractTypes, Contract!Ownership!TypeOK, OnRecord, OneEventPerDecision

LEMMA ContractNext == CInv /\ [AuditNext]_auditVars => CInv'
<1> SUFFICES ASSUME CInv, [AuditNext]_auditVars PROVE CInv'
  OBVIOUS
<1>0. isAuthorisedGateway \subseteq Gateway
  BY DEF CInv, ContractTypes
<1>1. CASE UNCHANGED contract
  BY <1>0, <1>1, ContractAlone DEF contract
<1>2. ASSUME NEW q \in QueueId, Mine(q) PROVE CInv'
  <2>1. DecisionOf[q] \in DecisionId \cup {ZeroDecision} /\ q \in Cid
    BY AuditAssumption DEF Cid
  <2>2. Contract!RecordDecision(Service, DecisionOf[q], q) \/ UNCHANGED contract
    BY <1>2 DEF Mine
  <2>. QED
    BY <1>1, <2>1, <2>2, RecordOnce
<1>3. CASE Elsewhere
  <2>1. ASSUME NEW g \in Gateway \cup {ZeroAddress}, NEW a \in BOOLEAN,
               Contract!SetGatewayAuthorisation(owner, g, a)
        PROVE  CInv'
    <3>1. /\ UNCHANGED <<owner, pendingOwner, decisionById, events>>
          /\ isAuthorisedGateway' \subseteq Gateway
      BY <1>0, <2>1 DEF Contract!SetGatewayAuthorisation
    <3>. QED
      BY <3>1, ContractAlone
  <2>2. ASSUME NEW g \in Gateway \ {Service}, NEW batch \in Foreign,
               Contract!RecordDecisionBatch(g, batch)
        PROVE  CInv'
    BY <2>2, RecordBatchOnce
  <2>. QED
    BY <1>3, <2>1, <2>2 DEF Elsewhere
<1>4. ASSUME NEW q \in QueueId, WriteAuditRecord(q) \/ BecomeDue(q) \/ Evict(q) PROVE UNCHANGED contract
  BY <1>4 DEF WriteAuditRecord, BecomeDue, Evict
<1>5. RetryWorker \/ RestartService \/ GasPoll => UNCHANGED contract
  BY DEF RetryWorker, Take, Upload, UploadFails, Estimate, Send, SendFails, PutBack, RestartService, GasPoll
<1>6. UNCHANGED auditVars => UNCHANGED contract
  BY DEF auditVars
<1>. QED
  BY <1>1, <1>2, <1>3, <1>4, <1>5, <1>6 DEF AuditNext

LEMMA ContractInvariant == AuditSpec => []CInv
  BY ContractInit, ContractNext, PTL DEF AuditSpec

\* recordDecision, recordDecisionBatch: whoever records what in however many
\* batches, each decision is announced once, and its record is what was announced.
THEOREM DecisionsAnnouncedOnce == AuditSpec => []OneEventPerDecision
<1>1. CInv => OneEventPerDecision
  BY DEF CInv
<1>. QED
  BY <1>1, ContractInvariant, PTL

\* Every reachable state of the service and of the contract is well typed.
THEOREM AuditTypeCorrect == AuditSpec => []AuditTypeOK
<1>1. QInv /\ CInv => AuditTypeOK
  <2> SUFFICES ASSUME QInv, CInv PROVE AuditTypeOK
    OBVIOUS
  <2>1. \A d \in DecisionId : decisionById[d] # NoDecision => decisionById[d].gateway \in Gateway
    BY DEF CInv, ContractTypes, Record
  <2>. QED
    BY <2>1 DEF QInv, QueueTypes, Stage, Place, CInv, ContractTypes, AuditTypeOK
<1>. QED
  BY <1>1, QueueInvariant, ContractInvariant, PTL
=============================================================================
