------------------------------ MODULE Ingestor ------------------------------
(***************************************************************************)
(* services/ingestor/main.py and services/hitl_monitor/main.py: a Redis    *)
(* stream read through a consumer group, the dead-letter stream behind it, *)
(* and the sorted set of items for human review, drained by a worker.      *)
(*                                                                         *)
(* A message is added once, and again, with one more on its retry count,   *)
(* each time its handling fails: message and count name a stream entry.    *)
(* Every Redis command is a step.  One that fails may have taken effect    *)
(* (the reply was lost); the process may end between any two of them.      *)
(* The order in which the group hands out entries is left open.            *)
(***************************************************************************)
EXTENDS Faults, FiniteSets

CONSTANTS
  Message,
  Unnamed,       \* messages without an asset_id
  Web,           \* messages that carry a web candidate
  MaxRetries,    \* max_retries
  ReadCount,     \* read_count
  ReviewRetries, \* retry_limit of the review worker
  Score          \* bound: the priorities of review items

ASSUME IngestAssumption ==
  /\ Unnamed \subseteq Message /\ Web \subseteq Message
  /\ MaxRetries \in Nat /\ ReviewRetries \in Nat
  /\ ReadCount \in Nat \ {0}
  /\ Score \subseteq Nat

VARIABLES
  stream,    \* entries of STREAM_KEY
  missed,    \* those added before the group existed, which it starts after
  unread,    \* those the group has not handed out
  pending,   \* those handed out and not acknowledged
  dead,      \* DLQ_STREAM_KEY
  up,        \* has the group been created, and is the ingestor running
  batch,     \* what the ingestor has read and not begun
  step,      \* the entry it handles, and how far it is
  handled,   \* history: entries whose processing returned
  review,    \* members of HITL_QUEUE_KEY
  inHand,    \* what the review worker has popped: no item, or one
  reviewed, givenUp   \* history: items handled, items dropped at the limit

ingestor == <<stream, missed, unread, pending, dead, up, batch, step, handled>>
draining == <<inHand, reviewed, givenUp>>
ingestVars == <<ingestor, review, draining, faults>>

Entry == [message : Message, retry : 0..MaxRetries]
Item == [entry : Entry, by : {"web", "inference"}, retry : 0..ReviewRetries, score : Score]

Idle == [pc |-> "idle"]
At(pc, e) == [pc |-> pc, entry |-> e]

IngestInit ==
  /\ stream = {} /\ missed = {} /\ unread = {} /\ pending = {} /\ dead = {}
  /\ up = [group |-> FALSE, running |-> FALSE]
  /\ batch = {} /\ step = Idle /\ handled = {}
  /\ review = {} /\ inHand = {} /\ reviewed = {} /\ givenUp = {}
  /\ faults = 0

\* XADD: the group will hand the entry out, if there is a group.
Add(e) ==
  /\ stream' = stream \cup {e}
  /\ IF up.group THEN unread' = unread \cup {e} /\ UNCHANGED missed
     ELSE missed' = missed \cup {e} /\ UNCHANGED unread

Ack(e) == pending' = pending \ {e}

AddMessage(m) ==
  /\ \A e \in stream : e.message # m
  /\ Add([message |-> m, retry |-> 0])
  /\ UNCHANGED <<pending, dead, up, batch, step, handled, review, draining, faults>>

\* A group that exists stays as it is: what was pending remains so.
Start ==
  /\ ~up.running
  /\ up' = [group |-> TRUE, running |-> TRUE]
  /\ UNCHANGED <<stream, missed, unread, pending, dead, batch, step, handled,
                 review, draining, faults>>

\* stop(), or the end of the process.
Stop ==
  /\ up.running /\ Fault
  /\ up' = [up EXCEPT !.running = FALSE]
  /\ batch' = {} /\ step' = Idle
  /\ UNCHANGED <<stream, missed, unread, pending, dead, handled, review, draining>>

Read ==
  /\ up.running /\ step = Idle /\ batch = {} /\ unread # {}
  /\ batch' \in {es \in SUBSET unread :
                   \/ Cardinality(es) = ReadCount
                   \/ (es = unread /\ Cardinality(es) < ReadCount)}
  /\ unread' = unread \ batch' /\ pending' = pending \cup batch'
  /\ UNCHANGED <<stream, missed, dead, up, step, handled, review, draining, faults>>

HandleMessage(e) ==
  /\ step = Idle /\ e \in batch
  /\ batch' = batch \ {e}
  /\ step' = At(IF e.message \in Unnamed THEN "fail"
                ELSE IF e.message \in Web THEN "web" ELSE "inference", e)
  /\ UNCHANGED <<stream, missed, unread, pending, dead, up, handled, review, draining, faults>>

\* process_asset_async: anything that goes wrong with a web candidate sends
\* it to inference, anything that goes wrong there is a failure.
Otherwise == [web |-> "inference", inference |-> "fail"]
Pushing == [web |-> "push web", inference |-> "push inference"]

\* process_candidate or run_ml_inference_async: a decision, or an exception.
Process ==
  /\ step.pc \in {"web", "inference"}
  /\ \E next \in {Pushing[step.pc], "ack", Otherwise[step.pc]} : step' = At(next, step.entry)
  /\ handled' = IF step'.pc = "ack" THEN handled \cup {step.entry} ELSE handled
  /\ UNCHANGED <<stream, missed, unread, pending, dead, up, batch, review, draining, faults>>

Push(path) ==
  /\ step.pc = Pushing[path]
  /\ LET add == \E s \in Score :
           review' = review \cup {[entry |-> step.entry, by |-> path, retry |-> 0, score |-> s]}
     IN \/ /\ add /\ Fine
           /\ step' = At("ack", step.entry) /\ handled' = handled \cup {step.entry}
        \/ /\ add \/ UNCHANGED review
           /\ Fault
           /\ step' = At(Otherwise[path], step.entry) /\ UNCHANGED handled
  /\ UNCHANGED <<stream, missed, unread, pending, dead, up, batch, draining>>

\* The XACK after processing: its failure is treated like that of processing.
AckHandled ==
  /\ step.pc = "ack"
  /\ \/ Ack(step.entry) /\ Fine /\ step' = Idle
     \/ (Ack(step.entry) \/ UNCHANGED pending) /\ Fault /\ step' = At("fail", step.entry)
  /\ UNCHANGED <<stream, missed, unread, dead, up, batch, handled, review, draining>>

Again(e) == [message |-> e.message, retry |-> e.retry + 1]

\* Mistake: one retry too few.
RetriesEarly(e) == e.retry + 1 < MaxRetries

Retries(e) == e.retry + 1 <= MaxRetries

\* Mistake: the entry is acknowledged before it is added again.
HandleFailureAckFirst ==
  /\ step.pc = "fail" /\ Ack(step.entry) /\ step' = Idle
  /\ \/ Fine /\ IF Retries(step.entry) THEN Add(Again(step.entry)) /\ UNCHANGED dead
                 ELSE dead' = dead \cup {Again(step.entry)} /\ UNCHANGED <<stream, missed, unread>>
     \/ Fault /\ UNCHANGED <<stream, missed, unread, dead>>
  /\ UNCHANGED <<up, batch, handled, review, draining>>

\* _handle_failure, first command.  An exception here is logged and the entry
\* stays pending.
HandleFailure ==
  /\ step.pc = "fail"
  /\ LET add == IF Retries(step.entry) THEN Add(Again(step.entry)) /\ UNCHANGED dead
                ELSE dead' = dead \cup {Again(step.entry)} /\ UNCHANGED <<stream, missed, unread>>
     IN \/ add /\ Fine /\ step' = At("failed", step.entry)
        \/ (add \/ UNCHANGED <<stream, missed, unread, dead>>) /\ Fault /\ step' = Idle
  /\ UNCHANGED <<pending, up, batch, handled, review, draining>>

AckFailed ==
  /\ step.pc = "failed"
  /\ \/ Ack(step.entry) /\ Fine
     \/ (Ack(step.entry) \/ UNCHANGED pending) /\ Fault
  /\ step' = Idle
  /\ UNCHANGED <<stream, missed, unread, dead, up, batch, handled, review, draining>>

-----------------------------------------------------------------------------
(* HITLQueueWorker.  Each failure adds 0.0001 to the score: less than the  *)
(* difference of two priorities, more than nothing.                        *)

AtLeast(i, j) == i.score > j.score \/ (i.score = j.score /\ i.retry >= j.retry)

Pop(i) ==
  /\ inHand = {} /\ i \in review /\ \A j \in review : AtLeast(i, j)
  /\ review' = review \ {i} /\ inHand' = {i}
  /\ UNCHANGED <<ingestor, reviewed, givenUp, faults>>

\* Mistake: the count is not stored with the item.
RetryForgotten(i) == i

RetryItem(i) == [i EXCEPT !.retry = @ + 1]

\* _process_or_requeue: handled, put back (a failing ZADD loses the item, or
\* only its reply), or dropped.
ProcessOrRequeue(i) ==
  /\ i \in inHand /\ inHand' = {}
  /\ \/ reviewed' = reviewed \cup {i} /\ UNCHANGED <<review, givenUp>> /\ Fine
     \/ /\ i.retry + 1 <= ReviewRetries /\ UNCHANGED <<reviewed, givenUp>>
        /\ \/ review' = review \cup {RetryItem(i)} /\ Fine
           \/ (review' = review \cup {RetryItem(i)} \/ UNCHANGED review) /\ Fault
     \/ /\ i.retry + 1 > ReviewRetries
        /\ givenUp' = givenUp \cup {i} /\ UNCHANGED <<review, reviewed>> /\ Fine
  /\ UNCHANGED ingestor

\* The worker is stopped, or its process ends, with an item in hand.
LoseItem ==
  /\ inHand # {} /\ inHand' = {} /\ Fault
  /\ UNCHANGED <<ingestor, review, reviewed, givenUp>>

IngestorStep ==
  \/ Read \/ Process \/ AckHandled \/ HandleFailure \/ AckFailed
  \/ \E e \in Entry : HandleMessage(e)
  \/ \E path \in {"web", "inference"} : Push(path)

WorkerStep == \E i \in review \cup inHand : Pop(i) \/ ProcessOrRequeue(i)

IngestNext ==
  \/ \E m \in Message : AddMessage(m)
  \/ Start \/ Stop \/ LoseItem
  \/ IngestorStep
  \/ WorkerStep

\* Both loops run until they are stopped.
IngestSpec ==
  /\ IngestInit /\ [][IngestNext]_ingestVars
  /\ WF_ingestVars(Start) /\ WF_ingestVars(IngestorStep) /\ WF_ingestVars(WorkerStep)

-----------------------------------------------------------------------------
IngestTypeOK ==
  /\ stream \subseteq Entry
  /\ missed \subseteq stream /\ unread \subseteq stream /\ pending \subseteq stream
  /\ dead \subseteq [message : Message, retry : {MaxRetries + 1}]
  /\ up \in [group : BOOLEAN, running : BOOLEAN]
  /\ batch \subseteq pending
  /\ step = Idle \/ step \in [pc : {"web", "push web", "inference", "push inference",
                                    "ack", "fail", "failed"}, entry : stream]
  /\ handled \subseteq stream
  /\ \A items \in {review, inHand, reviewed, givenUp} : items \subseteq Item
  /\ faults \in 0..MaxFaults

\* An entry leaves the group only when its work is done or somebody else has it:
\* it was processed, or its successor is in the stream, or it was dead-lettered.
\* A crash or a failed command between the two halves leaves it pending.
Settled(e) == e \in handled \/ Again(e) \in stream \cup dead
AckedIsSettled == \A e \in stream \ (missed \cup unread \cup pending) : Settled(e)

\* Whatever is dead-lettered was tried max_retries + 1 times, also when the
\* failures were those of Redis.
DeadWasRetried ==
  \A d \in dead : \A n \in 0..MaxRetries :
    [message |-> d.message, retry |-> n] \in stream \ (missed \cup unread)

\* As long as no command fails and no process ends, every message the group is
\* to hand out is processed or dead-lettered, and every item put up for review
\* is handled or given up: one that always fails does not keep back the others.
MessagesSettle ==
  \A m \in Message :
    (\E e \in unread : e.message = m) ~>
      (faults > 0 \/ \E e \in handled \cup dead : e.message = m)
ReviewsSettle ==
  \A e \in Entry, path \in {"web", "inference"} :
    (\E i \in review : i.entry = e /\ i.by = path) ~>
      (faults > 0 \/ \E i \in reviewed \cup givenUp : i.entry = e /\ i.by = path)
=============================================================================
