--------------------------- MODULE AnalysisWorker ---------------------------
(***************************************************************************)
(* analysis_engine/worker/consumer.py, the analysis it asks for, and       *)
(* services/decision_stream_consumer/main.py behind it.  A producer reads  *)
(* ingest messages into a local buffer, two consumers probe and analyse    *)
(* them, all three publish decisions to a stream, and a process reads that *)
(* stream and puts what a human must see into the review queue.            *)
(*                                                                         *)
(* Every Redis command is a step, and one that fails may have taken        *)
(* effect.  An exception in one of the three tasks ends all of them; only  *)
(* a new process starts them again.                                        *)
(***************************************************************************)
EXTENDS Faults, Sequences, FiniteSets

CONSTANTS
  IngestMessage,
  NoUrl,         \* messages without a url
  Consumer,      \* the two consumer tasks
  Producer,
  ReadMax,
  BufferMax,     \* local_buffer_max
  StreamLimit,   \* decision_stream_backpressure_xlen
  Similarity,    \* bound: best similarities to the truth database, in percent
  LogoScore,     \* bound: best logo confidences, in percent
  Threshold      \* confidence_threshold, in percent

\* The threshold is 85 unless it is configured, and above the 35 below which nothing
\* matches: were it less, a similarity of any height could be called a match.  The
\* buffer has room for 256: to asyncio.Queue, none or less is no limit.
ASSUME WorkerAssumption ==
  /\ Similarity \subseteq 0..100 /\ LogoScore \subseteq 0..100
  /\ BufferMax \in Nat \ {0}
  /\ Threshold \in Nat /\ Threshold > 35

VARIABLES
  toScan,     \* ingest messages, since the group exists, that it has not handed out
  scanning,    \* those handed out and not acknowledged
  scanned,
  engine,     \* down; running; ended, by an exception of one of its tasks
  reading,    \* what the producer has read and not looked at
  buffer,     \* _buffer
  doing,      \* what each task is at
  decisions,  \* the decision stream
  consumer,   \* the decision consumer: is it up, what has it been handed out
  shown       \* history: decisions whose item is in the review queue

analysis == <<toScan, scanning, scanned, engine, reading, buffer, doing>>
deciding == <<decisions, consumer, shown>>
workerVars == <<analysis, deciding, faults>>

Task == Consumer \cup {Producer}
Rest == [pc |-> "rest"]

WorkerInit ==
  /\ toScan = {} /\ scanning = {} /\ scanned = {}
  /\ engine = "down" /\ reading = {} /\ buffer = <<>> /\ doing = [t \in Task |-> Rest]
  /\ decisions = <<>> /\ shown = {} /\ faults = 0
  /\ consumer = [group |-> FALSE, up |-> FALSE, read |-> 0, batch |-> {}, at |-> 0, pc |-> "rest", acked |-> {}]

Goes(t, next) == doing' = [doing EXCEPT ![t] = next]

Ingest(m) ==
  /\ m \notin toScan \cup scanning \cup scanned
  /\ toScan' = toScan \cup {m}
  /\ UNCHANGED <<scanning, scanned, engine, reading, buffer, doing, deciding, faults>>

StartWorker ==
  /\ engine = "down" /\ engine' = "running"
  /\ UNCHANGED <<toScan, scanning, scanned, reading, buffer, doing, deciding, faults>>

\* The tasks are cancelled, and what they held is forgotten.
Tasks(state) ==
  engine' = state /\ reading' = {} /\ buffer' = <<>> /\ doing' = [t \in Task |-> Rest]

StopWorker ==
  /\ engine # "down" /\ Fault /\ Tasks("down")
  /\ UNCHANGED <<toScan, scanning, scanned, deciding>>

\* _produce_loop: XLEN, then XREADGROUP.
ReadMessages ==
  /\ engine = "running" /\ doing[Producer] = Rest /\ reading = {} /\ toScan # {}
  /\ Len(decisions) <= StreamLimit
  /\ reading' \in {ms \in SUBSET toScan :
                     \/ Cardinality(ms) = ReadMax
                     \/ (ms = toScan /\ Cardinality(ms) < ReadMax)}
  /\ toScan' = toScan \ reading' /\ scanning' = scanning \cup reading'
  /\ UNCHANGED <<scanned, engine, buffer, doing, deciding, faults>>

ReadFails ==
  /\ engine = "running" /\ doing[Producer] = Rest /\ reading = {}
  /\ Fault /\ Tasks("ended")
  /\ UNCHANGED <<toScan, scanning, scanned, deciding>>

Dropping(m) ==
  [pc |-> "publish", decision |-> [message |-> m, verdict |-> "dropped", similarity |-> 0]]

\* Mistake: a job is dropped for a full buffer, and waits for room as well.
BufferJobTwice(m) ==
  /\ reading' = reading \ {m}
  /\ buffer' = Append(buffer, m)
  /\ IF m \in NoUrl \/ Len(buffer) = BufferMax
     THEN Goes(Producer, Dropping(m)) ELSE UNCHANGED doing

BufferJob(m) ==
  /\ reading' = reading \ {m}
  /\ IF m \in NoUrl \/ Len(buffer) = BufferMax
     THEN Goes(Producer, Dropping(m)) /\ UNCHANGED buffer
     ELSE buffer' = Append(buffer, m) /\ UNCHANGED doing

Produce(m) ==
  /\ engine = "running" /\ doing[Producer] = Rest /\ m \in reading
  /\ BufferJob(m)
  /\ UNCHANGED <<toScan, scanning, scanned, engine, deciding, faults>>

TakeJob(c) ==
  /\ doing[c] = Rest /\ buffer # <<>>
  /\ Goes(c, [pc |-> "analyse", message |-> Head(buffer)])
  /\ buffer' = Tail(buffer)
  /\ UNCHANGED <<toScan, scanning, scanned, engine, reading, deciding, faults>>

\* The best fingerprint similarity, and at most a tenth of a logo's confidence.
Confidence(similarity, logo) ==
  IF similarity + logo \div 10 < 100 THEN similarity + logo \div 10 ELSE 100

Verdict(confidence) ==
  IF confidence >= Threshold THEN "match"
  ELSE IF confidence <= 35 THEN "no_match" ELSE "inconclusive"

\* _handle_job up to its result.  A probe that times out or fails, a stream that
\* is not live and an analysis that fails all drop the job.
Analyse(c) ==
  /\ doing[c].pc = "analyse"
  /\ \/ Goes(c, Dropping(doing[c].message))
     \/ \E s \in Similarity, l \in LogoScore :
          Goes(c, [pc |-> "publish", decision |->
                   [message |-> doing[c].message, verdict |-> Verdict(Confidence(s, l)), similarity |-> s]])
  /\ UNCHANGED <<toScan, scanning, scanned, engine, reading, buffer, deciding, faults>>

Published(t) == Append(decisions, doing[t].decision)

\* Mistake: the message is acknowledged before its decision is published.
PublishAckFirst(t) ==
  /\ doing[t].pc = "publish"
  /\ scanning' = scanning \ {doing[t].decision.message} /\ scanned' = scanned \cup {doing[t].decision.message}
  /\ \/ decisions' = Published(t) /\ Fine /\ Goes(t, Rest) /\ UNCHANGED <<engine, reading, buffer>>
     \/ UNCHANGED decisions /\ Fault /\ Tasks("ended")
  /\ UNCHANGED <<toScan, consumer, shown>>

Publish(t) ==
  /\ doing[t].pc = "publish"
  /\ \/ /\ decisions' = Published(t) /\ Fine
        /\ Goes(t, [pc |-> "ack", message |-> doing[t].decision.message])
        /\ UNCHANGED <<engine, reading, buffer>>
     \/ /\ decisions' \in {decisions, Published(t)} /\ Fault /\ Tasks("ended")
  /\ UNCHANGED <<toScan, scanning, scanned, consumer, shown>>

AckJob(t) ==
  /\ doing[t].pc = "ack"
  /\ LET ack == scanning' = scanning \ {doing[t].message} /\ scanned' = scanned \cup {doing[t].message}
     IN \/ ack /\ Fine /\ Goes(t, Rest) /\ UNCHANGED <<engine, reading, buffer>>
        \/ (ack \/ UNCHANGED <<scanning, scanned>>) /\ Fault /\ Tasks("ended")
  /\ UNCHANGED <<toScan, deciding>>

-----------------------------------------------------------------------------
(* run_decision_stream_consumer.                                           *)

\* A new group starts after what the stream holds.
StartConsumer ==
  /\ ~consumer.up
  /\ consumer' = [consumer EXCEPT !.group = TRUE, !.up = TRUE,
                                  !.read = IF consumer.group THEN @ ELSE Len(decisions)]
  /\ UNCHANGED <<analysis, decisions, shown, faults>>

\* The end of the process: also by an XREADGROUP that fails.
EndConsumer ==
  /\ consumer.up /\ Fault
  /\ consumer' = [consumer EXCEPT !.up = FALSE, !.batch = {}, !.pc = "rest", !.at = 0]
  /\ UNCHANGED <<analysis, decisions, shown>>

ReadDecisions ==
  /\ consumer.up /\ consumer.pc = "rest" /\ consumer.batch = {}
  /\ consumer.read < Len(decisions)
  /\ \E n \in consumer.read + 1..Len(decisions) :
       /\ n = Len(decisions) \/ n = consumer.read + ReadMax
       /\ n - consumer.read <= ReadMax
       /\ consumer' = [consumer EXCEPT !.read = n, !.batch = consumer.read + 1..n]
  /\ UNCHANGED <<analysis, decisions, shown, faults>>

\* Mistake: only a match is put up for review.
ActionableMatch(v) == v = "match"

Actionable(v) == v \in {"match", "inconclusive"}

TakeDecision(n) ==
  /\ consumer.pc = "rest" /\ n \in consumer.batch
  /\ consumer' = [consumer EXCEPT !.batch = @ \ {n}, !.at = n,
                                  !.pc = IF Actionable(decisions[n].verdict) THEN "push" ELSE "ack"]
  /\ UNCHANGED <<analysis, decisions, shown, faults>>

\* A failure leaves the decision pending, and the loop goes on.
LeavesPending == Fault /\ consumer' = [consumer EXCEPT !.pc = "rest", !.at = 0]

EnqueueReview ==
  /\ consumer.pc = "push"
  /\ \/ shown' = shown \cup {consumer.at} /\ Fine /\ consumer' = [consumer EXCEPT !.pc = "ack"]
     \/ shown' \in {shown, shown \cup {consumer.at}} /\ LeavesPending
  /\ UNCHANGED <<analysis, decisions>>

AckDecision ==
  /\ consumer.pc = "ack"
  /\ LET done == [consumer EXCEPT !.pc = "rest", !.at = 0, !.acked = @ \cup {consumer.at}]
     IN  (consumer' = done /\ (Fine \/ Fault)) \/ LeavesPending
  /\ UNCHANGED <<analysis, decisions, shown>>

AnalysisStep ==
  \/ ReadMessages
  \/ \E m \in IngestMessage : Produce(m)
  \/ \E c \in Consumer : TakeJob(c) \/ Analyse(c)
  \/ \E t \in Task : Publish(t) \/ AckJob(t)

DecisionStep ==
  \/ ReadDecisions \/ EnqueueReview \/ AckDecision
  \/ \E n \in consumer.batch : TakeDecision(n)

WorkerNext ==
  \/ \E m \in IngestMessage : Ingest(m)
  \/ StartWorker \/ StopWorker \/ ReadFails \/ StartConsumer \/ EndConsumer
  \/ AnalysisStep \/ DecisionStep

WorkerSpec ==
  /\ WorkerInit /\ [][WorkerNext]_workerVars
  /\ WF_workerVars(StartWorker) /\ WF_workerVars(StartConsumer)
  /\ WF_workerVars(AnalysisStep) /\ WF_workerVars(DecisionStep)

-----------------------------------------------------------------------------
WorkerTypeOK ==
  /\ toScan \subseteq IngestMessage /\ scanning \subseteq IngestMessage /\ scanned \subseteq IngestMessage
  /\ engine \in {"down", "running", "ended"}
  /\ reading \subseteq scanning /\ Len(buffer) <= BufferMax /\ buffer \in Seq(scanning)
  /\ \A t \in Task : doing[t].pc \in {"rest", "analyse", "publish", "ack"}
  /\ decisions \in Seq([message : IngestMessage, similarity : Similarity \cup {0},
                        verdict : {"dropped", "match", "no_match", "inconclusive"}])
  /\ consumer.read \in 0..Len(decisions)
  /\ consumer.batch \cup consumer.acked \cup shown \subseteq 1..consumer.read
  /\ faults \in 0..MaxFaults

Decided(m) == {n \in DOMAIN decisions : decisions[n].message = m}

\* An ingest message is acknowledged only with its decision in the stream, and
\* whatever the tasks do, no message gets two.
AckedWasDecided ==
  /\ \A m \in scanned : Decided(m) # {}
  /\ \A m \in IngestMessage : Cardinality(Decided(m)) <= 1

\* Of the decisions the consumer has acknowledged, a human was shown each whose
\* fingerprint resembles a known work, and none but those: a logo alone does not
\* call for review.
ResemblanceIsSeen ==
  /\ \A n \in consumer.acked : decisions[n].similarity > 35 => n \in shown
  /\ \A n \in shown : decisions[n].similarity > 25

\* As long as no command fails, no process ends and the decision stream is short,
\* every ingest message is decided.
JobsDecided ==
  \A m \in IngestMessage : m \in toScan ~> (Decided(m) # {} \/ faults > 0 \/ Len(decisions) > StreamLimit)
=============================================================================
