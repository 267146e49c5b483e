-------------------------- MODULE DataPlaneProofs ---------------------------
(***************************************************************************)
(* What the data plane guarantees: the ingestor, the analysis worker with  *)
(* the consumer of its decisions, and the search orchestrator, for any     *)
(* messages, limits and faults.                                            *)
(***************************************************************************)
EXTENDS Ingestor, AnalysisWorker, SearchOrchestrator, FiniteSetTheorems, TLAPS

-----------------------------------------------------------------------------
(***************************************************************************)
(* What Ingestor guarantees for any number of messages, any retry limit    *)
(* and any number of faults: nothing is acknowledged before somebody       *)
(* answers for it, and nothing is dead-lettered before it was tried as     *)
(* often as the limit says.                                                *)
(*                                                                         *)
(* The second needs a stronger statement than itself: not only dead        *)
(* letters, every entry of the stream was tried with each smaller count    *)
(* (Retried).  It is kept because a successor is new when it is added      *)
(* (Fresh), which for an entry nobody has begun follows from Retried, and  *)
(* for the one in hand is remembered from then on.                         *)
(***************************************************************************)

\* Entries the ingestor has begun to handle, now or earlier.
Begun == stream \ (missed \cup unread \cup batch)

Retried ==
  \A e \in stream \cup dead : \A n \in 0..(e.retry - 1) :
    [message |-> e.message, retry |-> n] \in Begun

InHand == step # Idle => step.entry \in Begun

Fresh == step.pc \notin {"idle", "failed"} => Again(step.entry) \notin stream \cup dead

Apart == unread \cap missed = {} /\ batch \cap (unread \cup missed) = {}

Answered ==
  /\ step.pc = "ack" => step.entry \in handled
  /\ step.pc = "failed" => Again(step.entry) \in stream \cup dead

IInv ==
  /\ IngestTypeOK /\ Retried /\ InHand /\ Fresh /\ Apart
  /\ Answered /\ AckedIsSettled

-----------------------------------------------------------------------------

LEMMA InitInv == IngestInit => IInv
  BY IngestAssumption, FaultsAssumption
  DEF IngestInit, IInv, IngestTypeOK, Retried, InHand, Fresh, Apart, Answered, AckedIsSettled, Idle

\* The successor of an entry that may be tried again is an entry, of the others
\* a dead letter.
LEMMA AgainIsEntry ==
  ASSUME NEW e \in Entry
  PROVE  /\ Again(e).message = e.message /\ Again(e).retry = e.retry + 1
         /\ Again(e) # e
         /\ Retries(e) => Again(e) \in Entry
         /\ ~Retries(e) => /\ e.retry = MaxRetries
                           /\ Again(e) \in [message : Message, retry : {MaxRetries + 1}]
  BY IngestAssumption DEF Again, Retries, Entry

LEMMA FaultCounts ==
  ASSUME IngestTypeOK, Fault \/ Fine
  PROVE  faults' \in 0..MaxFaults
<1>1. faults \in 0..MaxFaults
  BY DEF IngestTypeOK
<1>. QED
  BY <1>1, FaultsAssumption DEF Fault, Fine

LEMMA EntryInHand ==
  ASSUME IngestTypeOK, step.pc # "idle"
  PROVE  /\ step # Idle /\ step.entry \in stream /\ step.entry \in Entry
         /\ step \in [pc : {"web", "push web", "inference", "push inference",
                            "ack", "fail", "failed"}, entry : stream]
<1>1. step # Idle
  BY DEF Idle
<1>. QED
  BY <1>1 DEF IngestTypeOK

\* The entry in hand is begun, so every count up to its own was tried.
LEMMA TriedSoFar ==
  ASSUME IInv, step # Idle, NEW n \in 0..step.entry.retry
  PROVE  [message |-> step.entry.message, retry |-> n] \in Begun
<1>1. step.entry \in stream /\ step.entry \in Begun /\ step.entry \in Entry
  BY DEF IInv, IngestTypeOK, InHand, Begun
<1>2. CASE n = step.entry.retry
  <2>1. step.entry = [message |-> step.entry.message, retry |-> step.entry.retry]
    BY <1>1 DEF Entry
  <2>. QED
    BY <1>1, <1>2, <2>1
<1>3. CASE n # step.entry.retry
  <2>1. n \in 0..(step.entry.retry - 1)
    BY <1>1, <1>3, IngestAssumption DEF Entry
  <2>. QED
    BY <1>1, <2>1 DEF IInv, Retried
<1>. QED
  BY <1>2, <1>3

\* An entry nobody has begun has no successor.
LEMMA NoSuccessor ==
  ASSUME IInv, NEW e \in stream, e \notin Begun
  PROVE  Again(e) \notin stream \cup dead
<1>1. e \in Entry /\ e = [message |-> e.message, retry |-> e.retry]
  BY DEF IInv, IngestTypeOK, Entry
<1>2. Again(e).message = e.message /\ Again(e).retry = e.retry + 1
  BY <1>1, AgainIsEntry
<1>3. e.retry \in 0..(Again(e).retry - 1)
  BY <1>1, <1>2, IngestAssumption DEF Entry
<1>. QED
  BY <1>1, <1>2, <1>3 DEF IInv, Retried

\* Adding a new entry whose smaller counts were all tried keeps that for all.
LEMMA AddKeepsRetried ==
  ASSUME IInv, NEW e \in Entry, e \notin stream, Add(e), UNCHANGED batch,
         \A n \in 0..(e.retry - 1) : [message |-> e.message, retry |-> n] \in Begun,
         dead' = dead
  PROVE  /\ Begun' = Begun
         /\ Retried'
         /\ Apart'
         /\ stream \subseteq stream' /\ stream' \subseteq stream \cup {e}
         /\ missed' \subseteq stream' /\ unread' \subseteq stream'
<1>0. missed \subseteq stream /\ unread \subseteq stream /\ batch \subseteq stream
  BY DEF IInv, IngestTypeOK
<1>1. /\ stream' = stream \cup {e}
      /\ missed' \cup unread' = missed \cup unread \cup {e}
      /\ unread' \subseteq unread \cup {e} /\ missed' \subseteq missed \cup {e}
      /\ unread' = unread \/ missed' = missed
  BY DEF Add
<1>2. Begun' = Begun
  BY <1>0, <1>1 DEF Begun
<1>3. Retried'
  BY <1>1, <1>2 DEF Retried, IInv
<1>4. Apart'
  BY <1>0, <1>1 DEF Apart, IInv
<1>. QED
  BY <1>0, <1>1, <1>2, <1>3, <1>4

-----------------------------------------------------------------------------

LEMMA ProduceInv ==
  ASSUME IInv, NEW m \in Message, AddMessage(m)
  PROVE  IInv'
<1> DEFINE e == [message |-> m, retry |-> 0]
<1>0. e \in Entry /\ e \notin stream /\ e.message = m /\ e.retry = 0
  BY IngestAssumption DEF AddMessage, Entry
<1>1. Add(e) /\ UNCHANGED <<pending, dead, up, batch, step, handled, review, draining, faults>>
  BY DEF AddMessage
<1>2. \A n \in 0..(e.retry - 1) : [message |-> e.message, retry |-> n] \in Begun
  BY <1>0
<1>. HIDE DEF e
<1>3. /\ Begun' = Begun /\ Retried' /\ Apart'
      /\ stream \subseteq stream' /\ stream' \subseteq stream \cup {e}
      /\ missed' \subseteq stream' /\ unread' \subseteq stream'
  BY <1>0, <1>1, <1>2, AddKeepsRetried
<1>4. stream \ (missed \cup unread \cup pending) \subseteq stream
      /\ stream' \ (missed' \cup unread' \cup pending') \subseteq stream \ (missed \cup unread \cup pending)
  BY <1>0, <1>1 DEF Add, draining
<1>5. IngestTypeOK'
  BY <1>0, <1>1, <1>3 DEF IInv, IngestTypeOK, draining, Idle
<1>6. InHand'
  BY <1>1, <1>3 DEF IInv, InHand
<1>7. Fresh'
  <2>. SUFFICES ASSUME step.pc \notin {"idle", "failed"}, step' = step, dead' = dead
                PROVE  Again(step.entry) \notin stream' \cup dead
    BY <1>1 DEF Fresh, Again
  <2>1. step.entry \in Entry
    BY EntryInHand DEF IInv
  <2>2. Again(step.entry).retry # e.retry
    BY <1>0, <2>1, AgainIsEntry, IngestAssumption DEF Entry
  <2>. QED
    BY <1>3, <2>2 DEF IInv, Fresh
<1>8. Answered' /\ AckedIsSettled'
  BY <1>1, <1>3, <1>4 DEF IInv, Answered, AckedIsSettled, Settled, Again
<1>. QED
  BY <1>3, <1>5, <1>6, <1>7, <1>8 DEF IInv

\* Steps that leave the stream, the group and the dead letters alone, and go no
\* further with the entry in hand than the invariant allows.
LEMMA QuietInv ==
  ASSUME IInv, UNCHANGED <<stream, missed, unread, dead>>,
         IngestTypeOK', InHand', Answered', Apart',
         batch' = batch, handled \subseteq handled',
         pending \subseteq pending' \cup {f \in stream : Settled(f)'},
         step'.pc \in {"idle", "failed"} \/ (step.pc \notin {"idle", "failed"} /\ step'.entry = step.entry)
  PROVE  IInv'
<1>1. Retried'
  BY DEF IInv, Retried, Begun
<1>2. Fresh'
  BY DEF IInv, Fresh, Again
<1>3. AckedIsSettled'
  BY DEF IInv, AckedIsSettled, Settled, Again
<1>. QED
  BY <1>1, <1>2, <1>3 DEF IInv

LEMMA StartInv ==
  ASSUME IInv, Start
  PROVE  IInv'
<1> USE DEF Start, IInv
<1>1. IngestTypeOK'
  BY DEF IngestTypeOK, draining, Idle
<1>2. InHand' /\ Answered' /\ Apart'
  BY DEF InHand, Begun, Answered, Apart, Again
<1>. QED
  BY <1>1, <1>2, QuietInv DEF Fresh

LEMMA StopInv ==
  ASSUME IInv, Stop
  PROVE  IInv'
<1>0. /\ UNCHANGED <<stream, missed, unread, pending, dead, handled, review, draining>>
      /\ batch' = {} /\ step' = Idle /\ up' = [up EXCEPT !.running = FALSE]
      /\ Fault
  BY DEF Stop
<1>a. faults' \in 0..MaxFaults
  BY <1>0, FaultCounts DEF IInv
<1>b. up' \in [group : BOOLEAN, running : BOOLEAN]
  BY <1>0 DEF IInv, IngestTypeOK
<1>1. IngestTypeOK'
  BY <1>0, <1>a, <1>b DEF IInv, IngestTypeOK, draining
<1>2. InHand' /\ Answered' /\ Apart' /\ Fresh'
  <2>1. step'.pc = "idle" /\ step' = Idle'
    BY <1>0 DEF Idle
  <2>2. InHand' /\ Answered' /\ Fresh'
    BY <2>1 DEF InHand, Answered, Fresh
  <2>3. Apart'
    BY <1>0 DEF IInv, Apart
  <2>. QED
    BY <2>2, <2>3
<1>3. Retried'
  BY <1>0 DEF IInv, Retried, Begun
<1>4. AckedIsSettled'
  BY <1>0 DEF IInv, AckedIsSettled, Settled, Again
<1>. QED
  BY <1>1, <1>2, <1>3, <1>4 DEF IInv

LEMMA ReadInv ==
  ASSUME IInv, Read
  PROVE  IInv'
<1>0. /\ UNCHANGED <<stream, missed, dead, up, step, handled, review, draining, faults>>
      /\ batch = {} /\ step = Idle /\ batch' \subseteq unread
      /\ unread' = unread \ batch' /\ pending' = pending \cup batch'
  BY DEF Read
<1>1. IngestTypeOK'
  BY <1>0 DEF IInv, IngestTypeOK, draining
<1>2. InHand' /\ Answered' /\ Fresh'
  BY <1>0 DEF InHand, Answered, Fresh, Idle
<1>3. Apart'
  BY <1>0 DEF IInv, Apart
<1>4. Begun' = Begun
  BY <1>0 DEF Begun, IInv, IngestTypeOK
<1>5. Retried'
  BY <1>0, <1>4 DEF IInv, Retried
<1>6. AckedIsSettled'
  BY <1>0 DEF IInv, AckedIsSettled, Settled, Again
<1>. QED
  BY <1>1, <1>2, <1>3, <1>5, <1>6 DEF IInv

LEMMA HandleMessageInv ==
  ASSUME IInv, NEW e \in Entry, HandleMessage(e)
  PROVE  IInv'
<1>0. /\ UNCHANGED <<stream, missed, unread, pending, dead, up, handled, review, draining, faults>>
      /\ e \in batch /\ e \in stream /\ batch' = batch \ {e}
      /\ step' \in [pc : {"fail", "web", "inference"}, entry : {e}]
      /\ step'.entry = e /\ step'.pc \in {"fail", "web", "inference"}
  BY DEF HandleMessage, At, IInv, IngestTypeOK
<1>1. IngestTypeOK'
  BY <1>0 DEF IInv, IngestTypeOK, draining
<1>2. Begun' = Begun \cup {e}
  BY <1>0 DEF Begun, IInv, IngestTypeOK, Apart
<1>3. Retried'
  BY <1>0, <1>2 DEF IInv, Retried
<1>4. InHand' /\ Answered' /\ Apart'
  BY <1>0, <1>2 DEF IInv, InHand, Answered, Apart
<1>5. Fresh'
  <2>1. e \notin Begun
    BY <1>0 DEF Begun
  <2>. QED
    BY <1>0, <2>1, NoSuccessor DEF Fresh, Again
<1>6. AckedIsSettled'
  BY <1>0 DEF IInv, AckedIsSettled, Settled, Again
<1>. QED
  BY <1>1, <1>3, <1>4, <1>5, <1>6 DEF IInv

\* Processing, and pushing for review, change what is done with the entry in hand
\* and what is in the review queue; an entry goes on to its acknowledgement only
\* when it has been processed.
LEMMA WorkInv ==
  ASSUME IInv, step.pc # "idle", step.pc # "failed",
         UNCHANGED <<stream, missed, unread, pending, dead, up, batch, inHand, reviewed, givenUp>>,
         step' \in [pc : {"web", "push web", "inference", "push inference", "ack", "fail"},
                    entry : {step.entry}],
         handled' \in {handled, handled \cup {step.entry}},
         step'.pc = "ack" => step.entry \in handled',
         review' \subseteq Item, faults' \in 0..MaxFaults
  PROVE  IInv'
<1>0. /\ step # Idle /\ step.entry \in stream
      /\ step'.entry = step.entry /\ step'.pc # "failed"
  BY EntryInHand DEF IInv
<1>1. IngestTypeOK'
  BY <1>0 DEF IInv, IngestTypeOK
<1>2. InHand' /\ Answered' /\ Apart'
  BY <1>0 DEF IInv, InHand, Answered, Apart, Begun
<1>. QED
  BY <1>0, <1>1, <1>2, QuietInv

LEMMA PathSteps ==
  /\ Pushing["web"] = "push web" /\ Pushing["inference"] = "push inference"
  /\ Otherwise["web"] = "inference" /\ Otherwise["inference"] = "fail"
  BY DEF Pushing, Otherwise

LEMMA ProcessInv ==
  ASSUME IInv, Process
  PROVE  IInv'
<1>1. step.pc # "idle" /\ step.pc # "failed" /\ step.pc \in {"web", "inference"}
  BY DEF Process
<1>2. PICK next \in {Pushing[step.pc], "ack", Otherwise[step.pc]} : step' = At(next, step.entry)
  BY DEF Process
<1>3. next \in {"web", "push web", "inference", "push inference", "ack", "fail"}
  BY <1>1, <1>2, PathSteps
<1>4. step'.pc = next /\ step' \in [pc : {"web", "push web", "inference", "push inference", "ack", "fail"},
                                    entry : {step.entry}]
  BY <1>2, <1>3 DEF At
<1>5. step'.pc = "ack" => step.entry \in handled'
  BY DEF Process
<1>6. handled' \in {handled, handled \cup {step.entry}}
  BY DEF Process
<1>7. UNCHANGED <<stream, missed, unread, pending, dead, up, batch, review, inHand, reviewed, givenUp, faults>>
  BY DEF Process, draining
<1>8. review' \subseteq Item /\ faults' \in 0..MaxFaults
  BY <1>7 DEF IInv, IngestTypeOK
<1>. QED
  BY <1>1, <1>4, <1>5, <1>6, <1>7, <1>8, WorkInv

LEMMA PushInv ==
  ASSUME IInv, NEW path \in {"web", "inference"}, Push(path)
  PROVE  IInv'
<1>1. step.pc = Pushing[path] /\ step.pc # "idle" /\ step.pc # "failed"
  BY PathSteps DEF Push
<1>2. step.entry \in Entry
  BY <1>1, EntryInHand DEF IInv
<1>3. \A s \in Score : [entry |-> step.entry, by |-> path, retry |-> 0, score |-> s] \in Item
  BY <1>2, IngestAssumption DEF Item
<1>4. review' \subseteq Item
  <2>1. review \subseteq Item
    BY DEF IInv, IngestTypeOK
  <2>2. \/ UNCHANGED review
        \/ \E s \in Score :
             review' = review \cup {[entry |-> step.entry, by |-> path, retry |-> 0, score |-> s]}
    BY DEF Push
  <2>. QED
    BY <1>3, <2>1, <2>2
<1>5. faults' \in 0..MaxFaults
  <2>1. Fault \/ Fine
    BY DEF Push
  <2>. QED
    BY <2>1, FaultCounts DEF IInv
<1>6. UNCHANGED <<stream, missed, unread, pending, dead, up, batch, inHand, reviewed, givenUp>>
  BY DEF Push, draining
<1>7. \/ step' = At("ack", step.entry) /\ handled' = handled \cup {step.entry}
      \/ step' = At(Otherwise[path], step.entry) /\ handled' = handled
  BY DEF Push
<1>8. Otherwise[path] \in {"inference", "fail"}
  BY PathSteps
<1>9. /\ step' \in [pc : {"web", "push web", "inference", "push inference", "ack", "fail"},
                    entry : {step.entry}]
      /\ step'.pc = "ack" => step.entry \in handled'
      /\ handled' \in {handled, handled \cup {step.entry}}
  <2>1. CASE step' = At("ack", step.entry) /\ handled' = handled \cup {step.entry}
    BY <2>1 DEF At
  <2>2. CASE step' = At(Otherwise[path], step.entry) /\ handled' = handled
    BY <1>8, <2>2 DEF At
  <2>. QED
    BY <1>7, <2>1, <2>2
<1>. QED
  BY <1>1, <1>4, <1>5, <1>6, <1>9, WorkInv

LEMMA AtFields ==
  ASSUME NEW e \in stream, NEW pc \in {"fail", "failed"}
  PROVE  /\ At(pc, e).pc = pc /\ At(pc, e).entry = e /\ At(pc, e) # Idle
         /\ At(pc, e) \in [pc : {"web", "push web", "inference", "push inference",
                                "ack", "fail", "failed"}, entry : stream]
<1>1. At(pc, e) = [pc |-> pc, entry |-> e]
  BY DEF At
<1>2. At(pc, e).pc = pc /\ At(pc, e).entry = e
  BY <1>1
<1>3. Idle.pc = "idle"
  BY DEF Idle
<1>. QED
  BY <1>1, <1>2, <1>3

\* An acknowledgement, of an entry whose work is done.
LEMMA AckInv ==
  ASSUME IInv, step.pc # "idle", NEW e, e = step.entry,
         e \in handled \/ Again(e) \in stream \cup dead,
         UNCHANGED <<stream, missed, unread, dead, up, batch, handled, review, draining>>,
         Ack(e) \/ UNCHANGED pending, Fault \/ Fine,
         step' = Idle \/ (step' = At("fail", e) /\ step.pc # "failed")
  PROVE  IInv'
<1>0. step # Idle /\ e \in stream /\ e \in Begun
  BY EntryInHand DEF IInv, InHand
<1>1. pending \subseteq pending' \cup {e} /\ pending' \subseteq pending /\ pending \ {e} \subseteq pending'
  BY DEF Ack
<1>2. batch' \subseteq pending'
  BY <1>0, <1>1 DEF IInv, IngestTypeOK, Begun
<1>3. \/ step' = Idle /\ step'.pc = "idle"
      \/ step' # Idle /\ step'.pc = "fail" /\ step'.entry = e /\ step.pc \notin {"idle", "failed"}
  <2>1. CASE step' = Idle
    BY <2>1 DEF Idle
  <2>2. CASE step' = At("fail", e) /\ step.pc # "failed"
    BY <1>0, <2>2, AtFields
  <2>. QED
    BY <2>1, <2>2
<1>4. step' = Idle \/ step' \in [pc : {"web", "push web", "inference", "push inference",
                                       "ack", "fail", "failed"}, entry : stream]
  <2>1. CASE step' = Idle
    BY <2>1
  <2>2. CASE step' = At("fail", e) /\ step.pc # "failed"
    <3>1. At("fail", e) \in [pc : {"web", "push web", "inference", "push inference",
                                  "ack", "fail", "failed"}, entry : stream]
      BY <1>0, AtFields
    <3>. QED
      BY ONLY <2>2, <3>1
  <2>. QED
    BY <2>1, <2>2
<1>5. faults' \in 0..MaxFaults
  BY FaultCounts DEF IInv
<1>6. IngestTypeOK'
  BY <1>1, <1>2, <1>4, <1>5 DEF IInv, IngestTypeOK, draining, Idle
<1>7. Begun' = Begun
  BY DEF Begun
<1>8. Apart'
  BY DEF IInv, Apart
<1>9. InHand' /\ Answered'
  BY <1>0, <1>3, <1>7 DEF InHand, Answered, Idle
<1>10. Settled(e)'
  BY DEF Settled
<1>11. pending \subseteq pending' \cup {f \in stream : Settled(f)'}
  BY <1>0, <1>1, <1>10
<1>. QED
  BY <1>0, <1>3, <1>6, <1>8, <1>9, <1>11, QuietInv

LEMMA AckHandledInv ==
  ASSUME IInv, AckHandled
  PROVE  IInv'
<1>1. step.pc = "ack" /\ step.entry \in handled
  BY DEF AckHandled, IInv, Answered
<1>2. UNCHANGED <<stream, missed, unread, dead, up, batch, handled, review, draining>>
  BY DEF AckHandled
<1>3. Ack(step.entry) \/ UNCHANGED pending
  BY DEF AckHandled
<1>4. Fault \/ Fine
  BY DEF AckHandled
<1>5. step' = Idle \/ step' = At("fail", step.entry)
  BY DEF AckHandled
<1>. QED
  BY <1>1, <1>2, <1>3, <1>4, <1>5, AckInv

LEMMA AckFailedInv ==
  ASSUME IInv, AckFailed
  PROVE  IInv'
<1>1. step.pc = "failed" /\ Again(step.entry) \in stream \cup dead
  BY DEF AckFailed, IInv, Answered
<1>2. UNCHANGED <<stream, missed, unread, dead, up, batch, handled, review, draining>>
  BY DEF AckFailed
<1>3. Ack(step.entry) \/ UNCHANGED pending
  BY DEF AckFailed
<1>4. (Fault \/ Fine) /\ step' = Idle
  BY DEF AckFailed
<1>. QED
  BY <1>1, <1>2, <1>3, <1>4, AckInv

\* The entry in hand has failed: its successor is added, or its dead letter, or a
\* command failed without effect.
LEMMA HandleFailureInv ==
  ASSUME IInv, HandleFailure
  PROVE  IInv'
<1>a. PICK e : e = step.entry
  OBVIOUS
<1> DEFINE a == Again(e)
<1>0. /\ step.pc = "fail" /\ step # Idle /\ e \in stream /\ e \in Entry
      /\ a \notin stream \cup dead /\ e \in Begun
      /\ a.message = e.message /\ a.retry = e.retry + 1
  BY <1>a, EntryInHand, AgainIsEntry DEF HandleFailure, IInv, Fresh, InHand
<1>1. UNCHANGED <<pending, up, batch, handled, review, draining>>
  BY DEF HandleFailure
<1>2. Fault \/ Fine
  BY DEF HandleFailure
<1>3. faults' \in 0..MaxFaults
  BY <1>2, FaultCounts DEF IInv
<1>4. step' = At("failed", e) \/ step' = Idle
  BY <1>a DEF HandleFailure
<1>5. \/ step' = Idle /\ step'.pc = "idle"
      \/ step' # Idle /\ step'.pc = "failed" /\ step'.entry = e
  <2>1. CASE step' = Idle
    BY <2>1 DEF Idle
  <2>2. CASE step' = At("failed", e)
    <3>1. step'.pc = "failed" /\ step'.entry = e
      BY <1>0, <2>2, AtFields
    <3>2. step' # Idle
      BY <3>1 DEF Idle
    <3>. QED
      BY <3>1, <3>2
  <2>. QED
    BY <1>4, <2>1, <2>2
<1>6. Fresh'
  BY <1>5 DEF Fresh
<1>7. step' = Idle \/ step' \in [pc : {"web", "push web", "inference", "push inference",
                                       "ack", "fail", "failed"}, entry : stream]
  <2>1. CASE step' = At("failed", e)
    BY <1>0, <2>1, AtFields
  <2>. QED
    BY <1>4, <2>1
<1>8. \A n \in 0..(a.retry - 1) : [message |-> a.message, retry |-> n] \in Begun
  <2>1. 0..(a.retry - 1) = 0..e.retry
    BY <1>0, IngestAssumption DEF Entry
  <2>. QED
    BY <1>0, <1>a, <2>1, TriedSoFar
<1>. HIDE DEF a
<1>9. CASE UNCHANGED <<stream, missed, unread, dead>> /\ step' = Idle
  <2>1. IngestTypeOK'
    BY <1>1, <1>3, <1>9 DEF IInv, IngestTypeOK, draining
  <2>2. step'.pc = "idle" /\ step' = Idle
    BY <1>9 DEF Idle
  <2>3. InHand' /\ Answered'
    BY <2>2 DEF InHand, Answered
  <2>4. Apart'
    BY <1>1, <1>9 DEF IInv, Apart
  <2>. QED
    BY <1>1, <1>9, <2>1, <2>2, <2>3, <2>4, QuietInv
<1>10. CASE Retries(e) /\ Add(a) /\ UNCHANGED dead
  <2>1. a \in Entry
    BY <1>0, <1>10, AgainIsEntry DEF a
  <2>2. /\ Begun' = Begun /\ Retried' /\ Apart'
        /\ stream \subseteq stream' /\ stream' \subseteq stream \cup {a}
        /\ missed' \subseteq stream' /\ unread' \subseteq stream'
    BY <1>0, <1>1, <1>8, <1>10, <2>1, AddKeepsRetried
  <2>3. a \in stream'
    BY <1>10 DEF Add
  <2>4. IngestTypeOK'
    BY <1>1, <1>3, <1>7, <1>10, <2>1, <2>2 DEF IInv, IngestTypeOK, draining
  <2>5. InHand' /\ Answered'
    <3>1. CASE step'.pc = "idle" /\ step' = Idle
      BY <3>1 DEF InHand, Answered, Idle
    <3>2. CASE step'.pc = "failed" /\ step'.entry = e
      <4>1. e \in Begun'
        BY <1>0, <2>2
      <4>2. a = Again(e)
        BY DEF a
      <4>3. Again(step'.entry) \in stream' \cup dead'
        BY <2>3, <3>2, <4>2
      <4>. QED
        BY <3>2, <4>1, <4>3 DEF InHand, Answered, Again
    <3>. QED
      BY <1>5, <3>1, <3>2
  <2>6. stream' \ (missed' \cup unread' \cup pending') \subseteq stream \ (missed \cup unread \cup pending)
    BY <1>0, <1>1, <1>10 DEF Add
  <2>7. AckedIsSettled'
    BY <1>1, <1>10, <2>2, <2>6 DEF IInv, AckedIsSettled, Settled, Again
  <2>. QED
    BY <1>6, <2>2, <2>4, <2>5, <2>7 DEF IInv
<1>11. CASE /\ ~Retries(e) /\ dead' = dead \cup {a} /\ UNCHANGED <<stream, missed, unread>>
  <2>1. a \in [message : Message, retry : {MaxRetries + 1}]
    BY <1>0, <1>11, AgainIsEntry DEF a
  <2>2. Begun' = Begun
    BY <1>1, <1>11 DEF Begun
  <2>3. Retried'
    BY <1>8, <1>11, <2>2 DEF IInv, Retried
  <2>4. Apart'
    BY <1>1, <1>11 DEF IInv, Apart
  <2>5. IngestTypeOK'
    BY <1>1, <1>3, <1>7, <1>11, <2>1 DEF IInv, IngestTypeOK, draining
  <2>6. InHand' /\ Answered'
    <3>1. CASE step'.pc = "idle" /\ step' = Idle
      BY <3>1 DEF InHand, Answered, Idle
    <3>2. CASE step'.pc = "failed" /\ step'.entry = e
      <4>1. e \in Begun'
        BY <1>0, <2>2
      <4>2. a = Again(e)
        BY DEF a
      <4>3. Again(step'.entry) \in stream' \cup dead'
        BY <1>11, <3>2, <4>2
      <4>. QED
        BY <3>2, <4>1, <4>3 DEF InHand, Answered, Again
    <3>. QED
      BY <1>5, <3>1, <3>2
  <2>7. AckedIsSettled'
    BY <1>1, <1>11 DEF IInv, AckedIsSettled, Settled, Again
  <2>. QED
    BY <1>6, <2>3, <2>4, <2>5, <2>6, <2>7 DEF IInv
<1>. QED
  BY <1>9, <1>10, <1>11, <1>a DEF HandleFailure, a

-----------------------------------------------------------------------------
(* The review worker touches nothing of the ingestor's. *)

LEMMA WorkerInv ==
  ASSUME IInv, UNCHANGED ingestor, Fault \/ Fine,
         \A items \in {review', inHand', reviewed', givenUp'} : items \subseteq Item
  PROVE  IInv'
<1>1. UNCHANGED <<stream, missed, unread, pending, dead, up, batch, step, handled>>
  BY DEF ingestor
<1>2. faults' \in 0..MaxFaults
  BY FaultCounts DEF IInv
<1>3. IngestTypeOK'
  BY <1>1, <1>2 DEF IInv, IngestTypeOK
<1>4. InHand' /\ Answered' /\ Apart' /\ Fresh' /\ Retried'
  BY <1>1 DEF IInv, InHand, Answered, Apart, Fresh, Retried, Begun, Again
<1>5. AckedIsSettled'
  BY <1>1 DEF IInv, AckedIsSettled, Settled, Again
<1>. QED
  BY <1>3, <1>4, <1>5 DEF IInv

LEMMA ReviewersInv ==
  ASSUME IInv, NEW i, Pop(i) \/ ProcessOrRequeue(i) \/ LoseItem
  PROVE  IInv'
<1>1. review \subseteq Item /\ inHand \subseteq Item /\ reviewed \subseteq Item /\ givenUp \subseteq Item
  BY DEF IInv, IngestTypeOK
<1>2. CASE Pop(i)
  <2>1. UNCHANGED ingestor /\ Fine
    BY <1>2 DEF Pop, Fine
  <2>2. review' \subseteq Item /\ inHand' \subseteq Item /\ UNCHANGED <<reviewed, givenUp>>
    BY <1>1, <1>2 DEF Pop
  <2>. QED
    BY <1>1, <2>1, <2>2, WorkerInv
<1>3. CASE ProcessOrRequeue(i)
  <2>1. UNCHANGED ingestor /\ inHand' = {}
    BY <1>3 DEF ProcessOrRequeue
  <2>2. Fault \/ Fine
    BY <1>3 DEF ProcessOrRequeue
  <2>3. i \in Item
    BY <1>1, <1>3 DEF ProcessOrRequeue
  <2>4. i.retry + 1 <= ReviewRetries => RetryItem(i) \in Item
    BY <2>3, IngestAssumption DEF RetryItem, Item
  <2>5. review' \subseteq Item
    BY <1>1, <1>3, <2>4 DEF ProcessOrRequeue
  <2>6. reviewed' \subseteq Item /\ givenUp' \subseteq Item
    BY <1>1, <1>3, <2>3 DEF ProcessOrRequeue
  <2>. QED
    BY <2>1, <2>2, <2>5, <2>6, WorkerInv
<1>4. CASE LoseItem
  <2>1. UNCHANGED <<ingestor, review, reviewed, givenUp>> /\ inHand' = {} /\ Fault
    BY <1>4 DEF LoseItem
  <2>. QED
    BY <1>1, <2>1, WorkerInv
<1>. QED
  BY <1>2, <1>3, <1>4

-----------------------------------------------------------------------------

LEMMA NextInv == IInv /\ [IngestNext]_ingestVars => IInv'
<1> SUFFICES ASSUME IInv, [IngestNext]_ingestVars PROVE IInv'
  OBVIOUS
<1>1. CASE \E m \in Message : AddMessage(m)
  BY <1>1, ProduceInv
<1>2. CASE Start \/ Stop
  BY <1>2, StartInv, StopInv
<1>3. CASE LoseItem
  BY <1>3, ReviewersInv
<1>4. CASE IngestorStep
  BY <1>4, ReadInv, ProcessInv, AckHandledInv, HandleFailureInv, AckFailedInv, HandleMessageInv,
     PushInv DEF IngestorStep
<1>5. CASE WorkerStep
  BY <1>5, ReviewersInv DEF WorkerStep
<1>6. CASE UNCHANGED ingestVars
  <2>1. UNCHANGED ingestor /\ Fine /\ UNCHANGED <<review, inHand, reviewed, givenUp>>
    BY <1>6 DEF ingestVars, Fine, draining
  <2>. QED
    BY <2>1, WorkerInv DEF IInv, IngestTypeOK
<1>. QED
  BY <1>1, <1>2, <1>3, <1>4, <1>5, <1>6 DEF IngestNext

LEMMA Invariance == IngestSpec => []IInv
<1>1. IngestInit => IInv
  BY InitInv
<1>2. IInv /\ [IngestNext]_ingestVars => IInv'
  BY NextInv
<1>. QED
  BY <1>1, <1>2, PTL DEF IngestSpec

\* _handle_message, _handle_failure: whatever commands fail or lose their answer
\* and whenever the process ends, an entry that is no longer pending was processed,
\* or its successor is in the stream, or its dead letter.
THEOREM AcknowledgedIsSettled == IngestSpec => []AckedIsSettled
<1>1. IInv => AckedIsSettled
  BY DEF IInv
<1>. QED
  BY <1>1, Invariance, PTL

\* _handle_failure: a dead letter was tried with every count from 0 to the limit.
THEOREM DeadLettersWereRetried == IngestSpec => []DeadWasRetried
<1>1. IInv => DeadWasRetried
  <2>. SUFFICES ASSUME IInv, NEW d \in dead, NEW n \in 0..MaxRetries
                PROVE  [message |-> d.message, retry |-> n] \in stream \ (missed \cup unread)
    BY DEF DeadWasRetried
  <2>1. d.retry = MaxRetries + 1
    BY DEF IInv, IngestTypeOK
  <2>2. n \in 0..(d.retry - 1)
    BY <2>1, IngestAssumption
  <2>3. [message |-> d.message, retry |-> n] \in Begun
    BY <2>2 DEF IInv, Retried
  <2>. QED
    BY <2>3 DEF Begun
<1>. QED
  BY <1>1, Invariance, PTL

\* Every reachable state of the streams and of the review queue is well typed.
THEOREM IngestTypeCorrect == IngestSpec => []IngestTypeOK
<1>1. IInv => IngestTypeOK
  BY DEF IInv
<1>. QED
  BY <1>1, Invariance, PTL

-----------------------------------------------------------------------------
(***************************************************************************)
(* AnalysisWorker. Ledger and Hands say who answers for a message of the   *)
(* stream: it is unread, in a task's hands, or decided; what is decided is *)
(* in nobody's hands, and one decision was published for it.               *)
(***************************************************************************)

Verdicts == {"dropped", "match", "no_match", "inconclusive"}
Decision == [message : IngestMessage, verdict : Verdicts, similarity : 0..100]

Doing ==
  {Rest} \cup [pc : {"analyse", "ack"}, message : IngestMessage]
         \cup [pc : {"publish"}, decision : Decision]

\* The message a task has in hand and has not decided.
Holds(t) ==
  IF doing[t].pc = "analyse" THEN {doing[t].message}
  ELSE IF doing[t].pc = "publish" THEN {doing[t].decision.message} ELSE {}

Buffered == {buffer[i] : i \in DOMAIN buffer}
DecidedOnes == {decisions[n].message : n \in DOMAIN decisions}

\* What Redis knows.
Ledger ==
  /\ toScan \subseteq IngestMessage /\ scanning \subseteq IngestMessage /\ scanned \subseteq IngestMessage
  /\ decisions \in Seq(Decision)
  /\ toScan \cap (scanning \cup scanned) = {} /\ scanning \cap scanned = {}
  /\ DecidedOnes \subseteq scanning \cup scanned /\ scanned \subseteq DecidedOnes
  /\ \A i, j \in DOMAIN decisions : decisions[i].message = decisions[j].message => i = j

\* What the tasks hold: each message is in one place, and not decided.
Hands ==
  /\ buffer \in Seq(IngestMessage) /\ doing \in [Task -> Doing]
  /\ \A i, j \in DOMAIN buffer : buffer[i] = buffer[j] => i = j
  /\ reading \cup Buffered \subseteq scanning \ DecidedOnes /\ reading \cap Buffered = {}
  /\ \A t \in Task : /\ Holds(t) \subseteq scanning \ (DecidedOnes \cup reading \cup Buffered)
                     /\ doing[t].pc = "ack" => doing[t].message \in DecidedOnes
                     /\ \A u \in Task : t # u => Holds(t) \cap Holds(u) = {}

-----------------------------------------------------------------------------

LEMMA HoldsIs ==
  ASSUME NEW t, doing[t] \in Doing
  PROVE  /\ doing[t] = Rest => Holds(t) = {}
         /\ doing[t].pc = "ack" => Holds(t) = {} /\ doing[t].message \in IngestMessage
         /\ doing[t].pc = "analyse" => Holds(t) = {doing[t].message} /\ doing[t].message \in IngestMessage
         /\ doing[t].pc = "publish" => Holds(t) = {doing[t].decision.message} /\ doing[t].decision \in Decision
         /\ doing[t].pc \in {"rest", "analyse", "publish", "ack"}
         /\ doing[t].pc = "rest" => doing[t] = Rest
  BY DEF Holds, Doing, Rest

\* Another task's work is not touched.
LEMMA GoesIs ==
  ASSUME NEW t \in Task, NEW next \in Doing, doing \in [Task -> Doing], Goes(t, next)
  PROVE  /\ doing' \in [Task -> Doing] /\ doing'[t] = next
         /\ \A u \in Task : u # t => doing'[u] = doing[u] /\ Holds(u)' = Holds(u)
  BY DEF Goes, Holds

LEMMA TasksHands ==
  ASSUME NEW state, Tasks(state)
  PROVE  Hands'
<1>1. reading' = {} /\ buffer' = <<>> /\ doing' = [t \in Task |-> Rest]
  BY DEF Tasks
<1>2. Buffered' = {}
  BY <1>1 DEF Buffered
<1>3. \A t \in Task : Holds(t)' = {} /\ doing'[t].pc = "rest"
  BY <1>1 DEF Holds, Rest
<1>4. buffer' \in Seq(IngestMessage) /\ doing' \in [Task -> Doing]
  BY <1>1 DEF Doing
<1> QED
  BY <1>1, <1>2, <1>3, <1>4 DEF Hands

LEMMA SameLedger ==
  ASSUME Ledger, UNCHANGED <<toScan, scanning, scanned, decisions>>
  PROVE  Ledger'
  BY DEF Ledger, DecidedOnes

LEMMA SameHands ==
  ASSUME Hands, UNCHANGED <<reading, buffer, doing, decisions, scanning>>
  PROVE  Hands'
<1>1. Buffered' = Buffered /\ DecidedOnes' = DecidedOnes /\ \A t \in Task : Holds(t)' = Holds(t)
  BY DEF Buffered, DecidedOnes, Holds
<1> QED
  BY <1>1 DEF Hands

LEMMA IngestStep ==
  ASSUME Ledger, Hands, NEW m \in IngestMessage, Ingest(m)
  PROVE  Ledger' /\ Hands'
<1>1. Hands'
  BY SameHands DEF Ingest, deciding
<1>2. Ledger'
  BY DEF Ledger, Ingest, DecidedOnes, deciding
<1> QED BY <1>1, <1>2

LEMMA ReadStep ==
  ASSUME Ledger, Hands, ReadMessages
  PROVE  Ledger' /\ Hands'
<1>1. /\ reading' \subseteq toScan /\ reading = {}
      /\ toScan' = toScan \ reading' /\ scanning' = scanning \cup reading'
      /\ UNCHANGED <<scanned, buffer, doing, decisions>>
  BY DEF ReadMessages, deciding
<1>2. Buffered' = Buffered /\ DecidedOnes' = DecidedOnes /\ \A t \in Task : Holds(t)' = Holds(t)
  BY <1>1 DEF Buffered, DecidedOnes, Holds
<1>3. Ledger'
  BY <1>1, <1>2 DEF Ledger
<1>4. Hands'
  BY <1>1, <1>2 DEF Hands, Ledger
<1> QED BY <1>3, <1>4

LEMMA DroppingIs ==
  ASSUME NEW m \in IngestMessage
  PROVE  /\ Dropping(m) \in Doing /\ Dropping(m).pc = "publish"
         /\ Dropping(m).decision.message = m
         /\ Dropping(m).decision.verdict = "dropped" /\ Dropping(m).decision.similarity = 0
  BY DEF Dropping, Doing, Decision, Verdicts

LEMMA ProduceStep ==
  ASSUME Ledger, Hands, NEW m \in IngestMessage, Produce(m)
  PROVE  Ledger' /\ Hands'
<1>1. /\ doing[Producer] = Rest /\ m \in reading /\ reading' = reading \ {m}
      /\ UNCHANGED <<toScan, scanning, scanned, decisions>>
  BY DEF Produce, BufferJob, deciding
<1>2. DecidedOnes' = DecidedOnes
  BY <1>1 DEF DecidedOnes
<1>3. Producer \in Task /\ Holds(Producer) = {}
  BY <1>1 DEF Task, Holds, Rest
<1>4. m \notin Buffered /\ m \in scanning /\ m \notin DecidedOnes /\ \A t \in Task : m \notin Holds(t)
  BY <1>1 DEF Hands
<1>5. CASE Goes(Producer, Dropping(m)) /\ UNCHANGED buffer
  <2>1. Dropping(m) \in Doing /\ Dropping(m).pc = "publish" /\ Dropping(m).decision.message = m
    BY DroppingIs
  <2>2. /\ doing' \in [Task -> Doing] /\ doing'[Producer] = Dropping(m)
        /\ \A u \in Task : u # Producer => doing'[u] = doing[u] /\ Holds(u)' = Holds(u)
    BY <1>3, <1>5, <2>1, GoesIs DEF Hands
  <2>3. Holds(Producer)' = {m}
    BY <2>1, <2>2 DEF Holds
  <2>4. Buffered' = Buffered
    BY <1>5 DEF Buffered
  <2>5. Hands'
    BY <1>1, <1>2, <1>3, <1>4, <1>5, <2>1, <2>2, <2>3, <2>4 DEF Hands
  <2> QED BY <2>5, <1>1, SameLedger
<1>6. CASE buffer' = Append(buffer, m) /\ UNCHANGED doing
  <2>0. buffer \in Seq(IngestMessage)
    BY DEF Hands
  <2>1. Buffered' = Buffered \cup {m}
    BY <1>6, <2>0 DEF Buffered
  <2>2. \A i, j \in DOMAIN buffer' : buffer'[i] = buffer'[j] => i = j
    <3> SUFFICES ASSUME NEW i \in DOMAIN buffer', NEW j \in DOMAIN buffer', buffer'[i] = buffer'[j]
                 PROVE i = j
      OBVIOUS
    <3>1. \A k \in DOMAIN buffer' : \/ k \in DOMAIN buffer /\ buffer'[k] = buffer[k]
                                    \/ k = Len(buffer) + 1 /\ buffer'[k] = m
      BY <1>6, <2>0
    <3>2. \A k \in DOMAIN buffer : buffer[k] # m
      BY <1>4 DEF Buffered
    <3> QED BY <3>1, <3>2 DEF Hands
  <2>3. \A t \in Task : Holds(t)' = Holds(t)
    BY <1>6 DEF Holds
  <2>4. Hands'
    BY <1>1, <1>2, <1>4, <1>6, <2>0, <2>1, <2>2, <2>3 DEF Hands
  <2> QED BY <2>4, <1>1, SameLedger
<1> QED
  BY <1>5, <1>6 DEF Produce, BufferJob

LEMMA TakeStep ==
  ASSUME Ledger, Hands, NEW c \in Consumer, TakeJob(c)
  PROVE  Ledger' /\ Hands'
<1> DEFINE m == Head(buffer)
           next == [pc |-> "analyse", message |-> m]
<1>1. /\ doing[c] = Rest /\ buffer # <<>> /\ Goes(c, next) /\ buffer' = Tail(buffer)
      /\ UNCHANGED <<toScan, scanning, scanned, reading, decisions>>
  BY DEF TakeJob, deciding
<1>2. c \in Task /\ Holds(c) = {}
  BY <1>1 DEF Task, Holds, Rest
<1>3. buffer \in Seq(IngestMessage) /\ m = buffer[1] /\ 1 \in DOMAIN buffer /\ m \in IngestMessage
  BY <1>1 DEF Hands
<1>4. m \in Buffered /\ next \in Doing /\ next.pc = "analyse" /\ next.message = m
  BY <1>3 DEF Buffered, Doing
<1>5. /\ Len(buffer') = Len(buffer) - 1 /\ buffer' \in Seq(IngestMessage)
      /\ \A i \in DOMAIN buffer' : i + 1 \in DOMAIN buffer /\ buffer'[i] = buffer[i + 1] /\ i \in Nat /\ i # 0
  BY <1>1, <1>3
<1>6. \A i, j \in DOMAIN buffer' : buffer'[i] = buffer'[j] => i = j
  <2> TAKE i, j \in DOMAIN buffer'
  <2>1. buffer'[i] = buffer'[j] => i + 1 = j + 1
    BY <1>5 DEF Hands
  <2> QED BY <1>5, <2>1
<1>7. Buffered' \subseteq Buffered \ {m}
  <2> SUFFICES ASSUME NEW i \in DOMAIN buffer' PROVE buffer'[i] \in Buffered /\ buffer'[i] # m
    BY DEF Buffered
  <2>1. i + 1 \in DOMAIN buffer /\ buffer'[i] = buffer[i + 1] /\ i + 1 # 1
    BY <1>5
  <2> QED BY <2>1, <1>3 DEF Buffered, Hands
<1> HIDE DEF m, next
<1>8. /\ doing' \in [Task -> Doing] /\ doing'[c] = next
      /\ \A u \in Task : u # c => doing'[u] = doing[u] /\ Holds(u)' = Holds(u)
  BY <1>1, <1>2, <1>4, GoesIs DEF Hands
<1>9. Holds(c)' = {m}
  BY <1>4, <1>8 DEF Holds
<1>10. DecidedOnes' = DecidedOnes
  BY <1>1 DEF DecidedOnes
<1>11. Hands'
  BY <1>1, <1>2, <1>4, <1>5, <1>6, <1>7, <1>8, <1>9, <1>10 DEF Hands
<1> QED
  BY <1>1, <1>11, SameLedger

\* A task whose new work has the same message in hand, or none.
LEMMA ReplaceWork ==
  ASSUME Hands, NEW t \in Task, NEW next \in Doing, Goes(t, next),
         UNCHANGED <<reading, buffer>>, scanning \ scanning' \subseteq DecidedOnes',
         DecidedOnes' = DecidedOnes \/ (DecidedOnes' = DecidedOnes \cup Holds(t) /\ next.pc \in {"rest", "ack"}),
         next.pc = "ack" => next.message \in DecidedOnes',
         next.pc = "publish" => next.decision.message \in Holds(t),
         next.pc # "analyse"
  PROVE  Hands'
<1>1. /\ doing' \in [Task -> Doing] /\ doing'[t] = next
      /\ \A u \in Task : u # t => doing'[u] = doing[u] /\ Holds(u)' = Holds(u)
  BY GoesIs DEF Hands
<1>2. Holds(t)' \subseteq Holds(t) /\ (next.pc \in {"rest", "ack"} => Holds(t)' = {})
  BY <1>1 DEF Holds
<1>3. Buffered' = Buffered
  BY DEF Buffered
<1>4. \A u \in Task : u # t => Holds(u) \cap Holds(t) = {}
  BY DEF Hands
<1>5. \A u \in Task : Holds(u)' \subseteq scanning' \ (DecidedOnes' \cup reading' \cup Buffered')
  <2> TAKE u \in Task
  <2>1. Holds(u) \subseteq scanning \ (DecidedOnes \cup reading \cup Buffered)
    BY DEF Hands
  <2>2. CASE u = t
    BY <1>2, <1>3, <2>1, <2>2
  <2>3. CASE u # t
    BY <1>1, <1>3, <1>4, <2>1, <2>3
  <2> QED BY <2>2, <2>3
<1>6. \A u \in Task : doing'[u].pc = "ack" => doing'[u].message \in DecidedOnes'
  BY <1>1 DEF Hands
<1>7. \A u, v \in Task : u # v => Holds(u)' \cap Holds(v)' = {}
  BY <1>1, <1>2 DEF Hands
<1>8. reading' \cup Buffered' \subseteq scanning' \ DecidedOnes' /\ reading' \cap Buffered' = {}
  <2>1. Holds(t) \cap (reading \cup Buffered) = {}
    BY DEF Hands
  <2> QED BY <1>3, <2>1 DEF Hands
<1> QED
  BY <1>1, <1>5, <1>6, <1>7, <1>8 DEF Hands

LEMMA AnalyseStep ==
  ASSUME Ledger, Hands, NEW c \in Consumer, Analyse(c)
  PROVE  Ledger' /\ Hands'
<1>1. /\ doing[c].pc = "analyse" /\ c \in Task
      /\ UNCHANGED <<toScan, scanning, scanned, reading, buffer, decisions>>
  BY DEF Analyse, Task, deciding
<1>2. doing[c] \in Doing
  BY <1>1 DEF Hands
<1>3. Holds(c) = {doing[c].message} /\ doing[c].message \in IngestMessage
  BY <1>1, <1>2, HoldsIs
<1>4. PICK next \in Doing : /\ Goes(c, next) /\ next.pc = "publish"
                            /\ next.decision.message = doing[c].message
  <2>1. CASE Goes(c, Dropping(doing[c].message))
    BY <1>3, <2>1, DroppingIs
  <2>2. ASSUME NEW s \in Similarity, NEW l \in LogoScore,
               Goes(c, [pc |-> "publish", decision |->
                   [message |-> doing[c].message, verdict |-> Verdict(Confidence(s, l)), similarity |-> s]])
        PROVE \E next \in Doing : /\ Goes(c, next) /\ next.pc = "publish"
                                  /\ next.decision.message = doing[c].message
    <3>1. Verdict(Confidence(s, l)) \in Verdicts /\ s \in 0..100
      BY WorkerAssumption DEF Verdict, Verdicts
    <3> QED
      BY <1>3, <2>2, <3>1 DEF Doing, Decision
  <2> QED BY <2>1, <2>2 DEF Analyse
<1>5. DecidedOnes' = DecidedOnes
  BY <1>1 DEF DecidedOnes
<1>6. Hands'
  BY <1>1, <1>3, <1>4, <1>5, ReplaceWork
<1> QED BY <1>1, <1>6, SameLedger

LEMMA PublishedIs ==
  ASSUME Ledger, NEW d \in Decision, d.message \in scanning \ DecidedOnes,
         decisions' = Append(decisions, d), UNCHANGED <<toScan, scanning, scanned>>
  PROVE  Ledger' /\ DecidedOnes' = DecidedOnes \cup {d.message}
<1>1. decisions \in Seq(Decision)
  BY DEF Ledger
<1>2. /\ decisions' \in Seq(Decision) /\ DOMAIN decisions' = DOMAIN decisions \cup {Len(decisions) + 1}
      /\ decisions'[Len(decisions) + 1] = d /\ \A n \in DOMAIN decisions : decisions'[n] = decisions[n]
  BY <1>1
<1>3. DecidedOnes' = DecidedOnes \cup {d.message}
  BY <1>2 DEF DecidedOnes
<1>4. \A n \in DOMAIN decisions : decisions[n].message # d.message
  BY DEF DecidedOnes
<1>5. \A i, j \in DOMAIN decisions' : decisions'[i].message = decisions'[j].message => i = j
  BY <1>2, <1>4 DEF Ledger
<1> QED BY <1>2, <1>3, <1>5 DEF Ledger

LEMMA PublishStep ==
  ASSUME Ledger, Hands, NEW t \in Task, Publish(t)
  PROVE  Ledger' /\ Hands'
<1> DEFINE d == doing[t].decision
<1>1. doing[t].pc = "publish" /\ UNCHANGED <<toScan, scanning, scanned>>
  BY DEF Publish
<1>2. doing[t] \in Doing
  BY DEF Hands
<1>3. Holds(t) = {d.message} /\ d \in Decision
  BY <1>1, <1>2, HoldsIs
<1>4. d.message \in scanning \ DecidedOnes /\ d.message \in IngestMessage
  BY <1>3 DEF Hands, Decision
<1>5. decisions' = Append(decisions, d) => Ledger' /\ DecidedOnes' = DecidedOnes \cup {d.message}
  BY <1>1, <1>3, <1>4, PublishedIs
<1>6. decisions' = decisions => Ledger'
  BY <1>1, SameLedger
<1>7. CASE /\ decisions' = Published(t) /\ Goes(t, [pc |-> "ack", message |-> d.message])
           /\ UNCHANGED <<engine, reading, buffer>>
  <2> DEFINE next == [pc |-> "ack", message |-> d.message]
  <2>1. next \in Doing /\ next.pc = "ack" /\ next.message = d.message
    BY <1>4 DEF Doing
  <2>2. decisions' = Append(decisions, d)
    BY <1>7 DEF Published
  <2>3. DecidedOnes' = DecidedOnes \cup Holds(t)
    BY <1>3, <1>5, <2>2
  <2> HIDE DEF next
  <2>4. Goes(t, next)
    BY <1>7 DEF next
  <2>5. Hands'
    BY <1>1, <1>3, <1>7, <2>1, <2>3, <2>4, ReplaceWork
  <2> QED BY <1>5, <2>2, <2>5
<1>8. CASE decisions' \in {decisions, Published(t)} /\ Tasks("ended")
  BY <1>5, <1>6, <1>8, TasksHands DEF Published
<1> QED
  BY <1>7, <1>8 DEF Publish

LEMMA AckedIs ==
  ASSUME Ledger, NEW m \in DecidedOnes, UNCHANGED <<toScan, decisions>>,
         scanning' = scanning \ {m}, scanned' = scanned \cup {m}
  PROVE  Ledger'
<1>1. DecidedOnes' = DecidedOnes
  BY DEF DecidedOnes
<1>2. m \in scanning \cup scanned
  BY DEF Ledger
<1> QED BY <1>1, <1>2 DEF Ledger

LEMMA AckStep ==
  ASSUME Ledger, Hands, NEW t \in Task, AckJob(t)
  PROVE  Ledger' /\ Hands'
<1> DEFINE m == doing[t].message
           ack == scanning' = scanning \ {m} /\ scanned' = scanned \cup {m}
<1>1. doing[t].pc = "ack" /\ UNCHANGED <<toScan, decisions>>
  BY DEF AckJob, deciding
<1>2. m \in DecidedOnes /\ DecidedOnes' = DecidedOnes
  BY <1>1 DEF Hands, DecidedOnes
<1>3. ack => Ledger'
  BY <1>1, <1>2, AckedIs
<1>4. UNCHANGED <<scanning, scanned>> => Ledger'
  BY <1>1, SameLedger
<1>5. CASE (ack \/ UNCHANGED <<scanning, scanned>>) /\ Tasks("ended")
  BY <1>3, <1>4, <1>5, TasksHands
<1>6. CASE ack /\ Goes(t, Rest) /\ UNCHANGED <<engine, reading, buffer>>
  <2>1. Rest \in Doing /\ Rest.pc = "rest"
    BY DEF Rest, Doing
  <2>2. scanning \ scanning' \subseteq DecidedOnes'
    BY <1>2, <1>6
  <2>3. Hands'
    BY <1>2, <1>6, <2>1, <2>2, ReplaceWork
  <2> QED BY <1>3, <1>6, <2>3
<1> QED
  BY <1>5, <1>6 DEF AckJob

LEMMA WorkerKeeps == Ledger /\ Hands /\ [WorkerNext]_workerVars => Ledger' /\ Hands'
<1> SUFFICES ASSUME Ledger, Hands, [WorkerNext]_workerVars PROVE Ledger' /\ Hands'
  OBVIOUS
<1>1. CASE \E m \in IngestMessage : Ingest(m)
  BY <1>1, IngestStep
<1>2. CASE StopWorker \/ ReadFails
  BY <1>2, TasksHands, SameLedger DEF StopWorker, ReadFails, deciding
<1>3. CASE StartWorker \/ StartConsumer \/ EndConsumer \/ DecisionStep \/ UNCHANGED workerVars
  <2>1. UNCHANGED <<toScan, scanning, scanned, reading, buffer, doing, decisions>>
    BY <1>3 DEF StartWorker, StartConsumer, EndConsumer, DecisionStep, ReadDecisions, EnqueueReview,
       AckDecision, TakeDecision, workerVars, analysis, deciding
  <2> QED BY <2>1, SameLedger, SameHands
<1>4. CASE AnalysisStep
  BY <1>4, ReadStep, ProduceStep, TakeStep, AnalyseStep, PublishStep, AckStep DEF AnalysisStep
<1> QED
  BY <1>1, <1>2, <1>3, <1>4 DEF WorkerNext

LEMMA InitWorker == WorkerInit => Ledger /\ Hands
<1> SUFFICES ASSUME WorkerInit PROVE Ledger /\ Hands
  OBVIOUS
<1>1. Ledger
  BY DEF WorkerInit, Ledger, DecidedOnes
<1>2. Buffered = {} /\ \A t \in Task : Holds(t) = {} /\ doing[t].pc = "rest"
  BY DEF WorkerInit, Buffered, Holds, Rest
<1>3. Hands
  BY <1>2 DEF WorkerInit, Hands, Doing
<1> QED BY <1>1, <1>3

\* worker/consumer.py: whenever a command fails or the process ends, a message that
\* is acknowledged has its decision in the stream, and none has two.
THEOREM DecidedOnce == WorkerSpec => []AckedWasDecided
<1>1. WorkerInit => Ledger /\ Hands
  BY InitWorker
<1>2. Ledger => AckedWasDecided
  <2> SUFFICES ASSUME Ledger PROVE AckedWasDecided
    OBVIOUS
  <2>1. \A m \in scanned : Decided(m) # {}
    BY DEF Ledger, DecidedOnes, Decided
  <2>2. ASSUME NEW m \in IngestMessage PROVE Cardinality(Decided(m)) <= 1
    <3>1. CASE Decided(m) = {}
      BY <3>1, FS_EmptySet
    <3>2. CASE Decided(m) # {}
      <4>1. PICK n \in Decided(m) : TRUE
        BY <3>2
      <4>2. Decided(m) = {n}
        BY <4>1 DEF Decided, Ledger
      <4> QED BY <4>2, FS_Singleton
    <3> QED BY <3>1, <3>2
  <2> QED BY <2>1, <2>2 DEF AckedWasDecided
<1> QED
  BY <1>1, <1>2, WorkerKeeps, PTL DEF WorkerSpec

-----------------------------------------------------------------------------
(* What a human sees. *)

\* A decision's verdict follows from its similarity, up to the part of a logo.
Telling(d) ==
  /\ d.similarity > 35 => Actionable(d.verdict)
  /\ Actionable(d.verdict) => d.similarity > 25

\* What the decision consumer is at, and what it has done.
Shown ==
  /\ consumer \in [group : BOOLEAN, up : BOOLEAN, read : 0..Len(decisions), batch : SUBSET (1..Len(decisions)),
                   at : 0..Len(decisions), pc : {"rest", "push", "ack"}, acked : SUBSET (1..Len(decisions))]
  /\ shown \subseteq 1..Len(decisions)
  /\ consumer.pc # "rest" => consumer.at # 0
  /\ consumer.pc = "push" => Actionable(decisions[consumer.at].verdict)
  /\ consumer.pc = "ack" /\ Actionable(decisions[consumer.at].verdict) => consumer.at \in shown
  /\ \A n \in consumer.acked : Actionable(decisions[n].verdict) => n \in shown
  /\ \A n \in shown : Actionable(decisions[n].verdict)

TellingInv ==
  /\ Ledger /\ Hands
  /\ \A t \in Task : doing[t].pc = "publish" => Telling(doing[t].decision)
  /\ \A n \in DOMAIN decisions : Telling(decisions[n])

LEMMA VerdictTells ==
  ASSUME NEW s \in Similarity, NEW l \in LogoScore, NEW d,
         d.verdict = Verdict(Confidence(s, l)), d.similarity = s
  PROVE  Telling(d)
<1>1. s \in 0..100 /\ l \in 0..100 /\ Threshold \in Nat /\ Threshold > 35
  BY WorkerAssumption
<1>2. l \div 10 \in 0..10
  BY <1>1
<1>3. /\ s > 35 => Confidence(s, l) > 35
      /\ Confidence(s, l) > 35 => s > 25
      /\ Confidence(s, l) \in Nat
  BY <1>1, <1>2 DEF Confidence
<1>4. Actionable(d.verdict) <=> Confidence(s, l) > 35
  BY <1>1, <1>3 DEF Actionable, Verdict
<1> QED BY <1>3, <1>4 DEF Telling

LEMMA AnalyseTells ==
  ASSUME TellingInv, NEW c \in Consumer, Analyse(c)
  PROVE  \A t \in Task : doing'[t].pc = "publish" => Telling(doing'[t].decision)
<1>1. c \in Task /\ doing[c].pc = "analyse" /\ doing \in [Task -> Doing]
  BY DEF Analyse, Task, TellingInv, Hands
<1>2. ASSUME NEW next, next.pc = "publish" => Telling(next.decision), Goes(c, next)
      PROVE \A t \in Task : doing'[t].pc = "publish" => Telling(doing'[t].decision)
  <2>1. \A t \in Task : doing'[t] = IF t = c THEN next ELSE doing[t]
    BY <1>1, <1>2 DEF Goes
  <2> QED BY <1>2, <2>1 DEF TellingInv
<1>3. Telling(Dropping(doing[c].message).decision)
  BY DEF Dropping, Telling, Actionable
<1>4. ASSUME NEW s \in Similarity, NEW l \in LogoScore
      PROVE Telling([message |-> doing[c].message, verdict |-> Verdict(Confidence(s, l)), similarity |-> s])
  BY VerdictTells
<1> QED
  BY <1>2, <1>3, <1>4 DEF Analyse

LEMMA TasksTell ==
  ASSUME NEW state, Tasks(state)
  PROVE  \A t \in Task : doing'[t].pc = "publish" => Telling(doing'[t].decision)
  BY DEF Tasks, Rest

\* The stream of decisions only grows, by decisions that tell.
LEMMA NextTells ==
  ASSUME TellingInv, [WorkerNext]_workerVars
  PROVE  /\ TellingInv'
         /\ \/ decisions' = decisions
            \/ \E d : decisions' = Append(decisions, d) /\ UNCHANGED <<consumer, shown>>
<1>0. Ledger' /\ Hands' /\ decisions \in Seq(Decision) /\ doing \in [Task -> Doing]
  BY WorkerKeeps DEF TellingInv, Ledger, Hands
<1>1. CASE (\E m \in IngestMessage : Ingest(m)) \/ StartWorker \/ StartConsumer \/ EndConsumer
           \/ DecisionStep \/ UNCHANGED workerVars \/ ReadMessages
  <2>1. UNCHANGED <<doing, decisions>>
    BY <1>1 DEF Ingest, ReadMessages, StartWorker, StartConsumer, EndConsumer, DecisionStep, ReadDecisions,
       EnqueueReview, AckDecision, TakeDecision, workerVars, analysis, deciding
  <2> QED BY <1>0, <2>1 DEF TellingInv
<1>2. CASE StopWorker \/ ReadFails
  BY <1>0, <1>2, TasksTell DEF StopWorker, ReadFails, deciding, TellingInv
<1>3. ASSUME NEW m \in IngestMessage, Produce(m)
      PROVE TellingInv' /\ decisions' = decisions
  <2>1. decisions' = decisions
    BY <1>3 DEF Produce, deciding
  <2>2. CASE UNCHANGED doing
    BY <1>0, <2>1, <2>2 DEF TellingInv
  <2>3. CASE Goes(Producer, Dropping(m))
    <3>1. \A t \in Task : doing'[t] = IF t = Producer THEN Dropping(m) ELSE doing[t]
      BY <1>0, <2>3 DEF Goes
    <3>2. Telling(Dropping(m).decision)
      BY DEF Dropping, Telling, Actionable
    <3> QED BY <1>0, <2>1, <3>1, <3>2 DEF TellingInv
  <2> QED BY <1>3, <2>2, <2>3 DEF Produce, BufferJob
<1>4. ASSUME NEW c \in Consumer, TakeJob(c)
      PROVE TellingInv' /\ decisions' = decisions
  <2>1. decisions' = decisions
    BY <1>4 DEF TakeJob, deciding
  <2>2. \A t \in Task : doing'[t] = doing[t] \/ doing'[t].pc = "analyse"
    BY <1>0, <1>4 DEF TakeJob, Goes
  <2> QED BY <1>0, <2>1, <2>2 DEF TellingInv
<1>5. ASSUME NEW c \in Consumer, Analyse(c)
      PROVE TellingInv' /\ decisions' = decisions
  <2>1. decisions' = decisions
    BY <1>5 DEF Analyse, deciding
  <2> QED BY <1>0, <1>5, <2>1, AnalyseTells DEF TellingInv
<1>6. ASSUME NEW t \in Task, Publish(t)
      PROVE TellingInv' /\ (\/ decisions' = decisions
                           \/ \E d : decisions' = Append(decisions, d) /\ UNCHANGED <<consumer, shown>>)
  <2>1. doing[t].pc = "publish" /\ Telling(doing[t].decision) /\ UNCHANGED <<consumer, shown>>
    BY <1>6 DEF Publish, TellingInv
  <2>2. decisions' \in {decisions, Append(decisions, doing[t].decision)}
    BY <1>6 DEF Publish, Published
  <2>3. \A n \in DOMAIN decisions' : Telling(decisions'[n])
    <3>1. doing[t].decision \in Decision
      BY <1>0, <2>1, HoldsIs
    <3>2. ASSUME NEW n \in DOMAIN decisions' PROVE Telling(decisions'[n])
      <4>1. \/ n \in DOMAIN decisions /\ decisions'[n] = decisions[n]
            \/ decisions'[n] = doing[t].decision
        BY <1>0, <2>2, <3>1
      <4> QED BY <2>1, <4>1 DEF TellingInv
    <3> QED BY <3>2
  <2>4. \A u \in Task : doing'[u].pc = "publish" => Telling(doing'[u].decision)
    <3>1. CASE Goes(t, [pc |-> "ack", message |-> doing[t].decision.message])
      <4>1. \A u \in Task : doing'[u] = doing[u] \/ doing'[u].pc = "ack"
        BY <1>0, <3>1 DEF Goes
      <4> QED BY <4>1 DEF TellingInv
    <3>2. CASE Tasks("ended")
      BY <3>2, TasksTell
    <3> QED BY <1>6, <3>1, <3>2 DEF Publish
  <2> QED BY <1>0, <2>1, <2>2, <2>3, <2>4 DEF TellingInv
<1>7. ASSUME NEW t \in Task, AckJob(t)
      PROVE TellingInv' /\ decisions' = decisions
  <2>1. decisions' = decisions
    BY <1>7 DEF AckJob, deciding
  <2>2. \A u \in Task : doing'[u].pc = "publish" => Telling(doing'[u].decision)
    <3>1. CASE Goes(t, Rest)
      <4>1. \A u \in Task : doing'[u] = doing[u] \/ doing'[u].pc = "rest"
        BY <1>0, <3>1 DEF Goes, Rest
      <4> QED BY <4>1 DEF TellingInv
    <3>2. CASE Tasks("ended")
      BY <3>2, TasksTell
    <3> QED BY <1>7, <3>1, <3>2 DEF AckJob
  <2> QED BY <1>0, <2>1, <2>2 DEF TellingInv
<1> QED
  BY <1>1, <1>2, <1>3, <1>4, <1>5, <1>6, <1>7 DEF WorkerNext, AnalysisStep

\* More decisions change nothing of what was shown.
LEMMA GrowthShown ==
  ASSUME Shown, UNCHANGED <<consumer, shown>>, decisions \in Seq(Decision), decisions' \in Seq(Decision),
         decisions' = decisions \/ \E d : decisions' = Append(decisions, d)
  PROVE  Shown'
<1>1. /\ Len(decisions) \in Nat /\ Len(decisions') \in Nat /\ Len(decisions) <= Len(decisions')
      /\ \A n \in 1..Len(decisions) : decisions'[n] = decisions[n]
  <2>1. CASE decisions' = decisions
    BY <2>1
  <2>2. ASSUME NEW d, decisions' = Append(decisions, d) PROVE <1>1!1
    BY <2>2
  <2> QED BY <2>1, <2>2
<1>2. 1..Len(decisions) \subseteq 1..Len(decisions') /\ 0..Len(decisions) \subseteq 0..Len(decisions')
  BY <1>1
<1>3. consumer.pc # "rest" => consumer.at \in 1..Len(decisions)
  BY <1>1 DEF Shown
<1> QED BY <1>1, <1>2, <1>3 DEF Shown

\* Steps of the decision consumer: the stream stands still.
LEMMA StepShown ==
  ASSUME Shown, UNCHANGED decisions, decisions \in Seq(Decision),
         consumer' \in [group : BOOLEAN, up : BOOLEAN, read : 0..Len(decisions), batch : SUBSET (1..Len(decisions)),
                        at : 0..Len(decisions), pc : {"rest", "push", "ack"}, acked : SUBSET (1..Len(decisions))],
         shown' = shown \/ (shown' = shown \cup {consumer.at} /\ consumer.pc = "push"),
         consumer'.pc # "rest" => consumer'.at # 0,
         consumer'.pc = "push" => Actionable(decisions[consumer'.at].verdict),
         consumer'.pc = "ack" /\ Actionable(decisions[consumer'.at].verdict) => consumer'.at \in shown',
         consumer'.acked = consumer.acked
           \/ (consumer.pc = "ack" /\ consumer'.acked = consumer.acked \cup {consumer.at})
  PROVE  Shown'
<1>1. shown' \subseteq 1..Len(decisions) /\ \A n \in shown' : Actionable(decisions[n].verdict)
  <2>1. CASE shown' = shown
    BY <2>1 DEF Shown
  <2>2. CASE shown' = shown \cup {consumer.at} /\ consumer.pc = "push"
    <3>1. consumer.at \in 1..Len(decisions) /\ Actionable(decisions[consumer.at].verdict)
      BY <2>2 DEF Shown
    <3> QED BY <2>2, <3>1 DEF Shown
  <2> QED BY <2>1, <2>2
<1>2. \A n \in consumer'.acked : Actionable(decisions[n].verdict) => n \in shown'
  BY DEF Shown
<1> QED BY <1>1, <1>2 DEF Shown

LEMMA NextShown ==
  ASSUME Shown, TellingInv, [WorkerNext]_workerVars
  PROVE  Shown'
<1> DEFINE n == Len(decisions)
           State == [group : BOOLEAN, up : BOOLEAN, read : 0..n, batch : SUBSET (1..n),
                     at : 0..n, pc : {"rest", "push", "ack"}, acked : SUBSET (1..n)]
<1>0. /\ decisions \in Seq(Decision) /\ decisions' \in Seq(Decision) /\ consumer \in State
      /\ n \in Nat /\ 0 \in 0..n /\ n \in 0..n /\ 1..n \subseteq 0..n
  BY NextTells DEF TellingInv, Ledger, Shown
<1>1. CASE UNCHANGED <<consumer, shown>>
  BY <1>0, <1>1, NextTells, GrowthShown
<1>2. CASE StartConsumer
  <2>1. /\ UNCHANGED <<decisions, shown>> /\ consumer' \in State
        /\ consumer'.pc = consumer.pc /\ consumer'.at = consumer.at /\ consumer'.acked = consumer.acked
    <3>1. PICK r \in 0..n : consumer' = [consumer EXCEPT !.group = TRUE, !.up = TRUE, !.read = r]
      <4>1. CASE consumer.group = TRUE
        BY <1>0, <1>2, <4>1 DEF StartConsumer
      <4>2. CASE consumer.group = FALSE
        <5>1. consumer' = [consumer EXCEPT !.group = TRUE, !.up = TRUE, !.read = n]
          BY <1>2, <4>2 DEF StartConsumer
        <5> QED BY <1>0, <5>1
      <4> QED BY <1>0, <4>1, <4>2
    <3> QED BY <1>0, <1>2, <3>1 DEF StartConsumer
  <2> QED BY <1>0, <2>1, StepShown DEF Shown
<1>3. CASE EndConsumer
  <2>1. /\ UNCHANGED <<decisions, shown>> /\ consumer' \in State
        /\ consumer'.pc = "rest" /\ consumer'.acked = consumer.acked
    <3>1. consumer' = [consumer EXCEPT !.up = FALSE, !.batch = {}, !.pc = "rest", !.at = 0]
      BY <1>3 DEF EndConsumer
    <3> HIDE DEF n
    <3> QED BY <1>0, <1>3, <3>1 DEF EndConsumer, deciding
  <2> QED BY <1>0, <2>1, StepShown DEF Shown
<1>4. CASE ReadDecisions
  <2>1. PICK k \in consumer.read + 1..n :
              consumer' = [consumer EXCEPT !.read = k, !.batch = consumer.read + 1..k]
    BY <1>4 DEF ReadDecisions
  <2>2. k \in 0..n /\ consumer.read + 1..k \in SUBSET (1..n)
    BY <1>0, <2>1
  <2>3. /\ UNCHANGED <<decisions, shown>> /\ consumer' \in State
        /\ consumer'.pc = "rest" /\ consumer'.acked = consumer.acked
    BY <1>0, <1>4, <2>1, <2>2 DEF ReadDecisions
  <2> QED BY <1>0, <2>3, StepShown DEF Shown
<1>5. ASSUME NEW k \in consumer.batch, TakeDecision(k) PROVE Shown'
  <2>1. k \in 1..n
    BY <1>0
  <2>2. /\ UNCHANGED <<decisions, shown>> /\ consumer' \in State /\ consumer'.at = k
        /\ consumer'.pc = (IF Actionable(decisions[k].verdict) THEN "push" ELSE "ack")
        /\ consumer'.acked = consumer.acked
    BY <1>0, <1>5, <2>1 DEF TakeDecision
  <2> QED BY <1>0, <2>1, <2>2, StepShown DEF Shown
<1>6. ASSUME LeavesPending
      PROVE consumer' \in State /\ consumer'.pc = "rest" /\ consumer'.acked = consumer.acked
  BY <1>0, <1>6 DEF LeavesPending
<1>7. CASE EnqueueReview
  <2>1. consumer.pc = "push" /\ UNCHANGED decisions
    BY <1>7 DEF EnqueueReview
  <2>2. CASE shown' = shown \cup {consumer.at} /\ consumer' = [consumer EXCEPT !.pc = "ack"]
    <3>1. /\ consumer' \in State /\ consumer'.pc = "ack" /\ consumer'.at = consumer.at
          /\ consumer'.acked = consumer.acked
      BY <1>0, <2>2
    <3> QED BY <1>0, <2>1, <2>2, <3>1, StepShown DEF Shown
  <2>3. CASE shown' \in {shown, shown \cup {consumer.at}} /\ LeavesPending
    BY <1>0, <1>6, <2>1, <2>3, StepShown DEF Shown
  <2> QED BY <1>7, <2>2, <2>3 DEF EnqueueReview
<1>8. CASE AckDecision
  <2>1. consumer.pc = "ack" /\ UNCHANGED <<decisions, shown>>
    BY <1>8 DEF AckDecision
  <2>2. CASE consumer' = [consumer EXCEPT !.pc = "rest", !.at = 0, !.acked = @ \cup {consumer.at}]
    <3>1. consumer.at \in 1..n
      BY <1>0, <2>1 DEF Shown
    <3>2. /\ consumer' \in State /\ consumer'.pc = "rest"
          /\ consumer'.acked = consumer.acked \cup {consumer.at}
      BY <1>0, <2>2, <3>1
    <3> QED BY <1>0, <2>1, <3>2, StepShown DEF Shown
  <2>3. CASE LeavesPending
    BY <1>0, <1>6, <2>1, <2>3, StepShown DEF Shown
  <2> QED BY <1>8, <2>2, <2>3 DEF AckDecision
<1>9. CASE StartConsumer \/ EndConsumer \/ DecisionStep
  BY <1>2, <1>3, <1>4, <1>5, <1>7, <1>8, <1>9 DEF DecisionStep
<1>10. CASE \/ \E m \in IngestMessage : Ingest(m)
            \/ StartWorker \/ StopWorker \/ ReadFails \/ AnalysisStep \/ UNCHANGED workerVars
  <2>1. UNCHANGED <<consumer, shown>>
    BY <1>10 DEF Ingest, StartWorker, StopWorker, ReadFails, AnalysisStep, ReadMessages, Produce, TakeJob,
       Analyse, Publish, AckJob, workerVars, deciding
  <2> QED BY <1>1, <2>1
<1> QED
  BY <1>9, <1>10 DEF WorkerNext

\* decision_stream_consumer/main.py with the analysis before it: whatever fails
\* between them, the consumer acknowledges no decision of high similarity that is
\* not in the review queue, and puts none there for a logo alone.
THEOREM ResemblanceReachesHumans == WorkerSpec => []ResemblanceIsSeen
<1>1. WorkerInit => TellingInv /\ Shown
  <2> SUFFICES ASSUME WorkerInit PROVE TellingInv /\ Shown
    OBVIOUS
  <2>1. TellingInv
    BY InitWorker DEF WorkerInit, TellingInv, Rest
  <2>2. Shown
    BY DEF WorkerInit, Shown
  <2> QED BY <2>1, <2>2
<1>2. TellingInv /\ Shown /\ [WorkerNext]_workerVars => TellingInv' /\ Shown'
  BY NextTells, NextShown
<1>3. TellingInv /\ Shown => ResemblanceIsSeen
  BY DEF TellingInv, Shown, ResemblanceIsSeen, Telling, Ledger
<1> QED
  BY <1>1, <1>2, <1>3, PTL DEF WorkerSpec

Scanned == [message : IngestMessage, similarity : Similarity \cup {0}, verdict : Verdicts]

\* The tasks share one buffer, and what they publish was measured.
Buffering ==
  /\ engine \in {"down", "running", "ended"} /\ Len(buffer) <= BufferMax
  /\ \A t \in Task : doing[t].pc = "publish" => doing[t].decision \in Scanned
  /\ decisions \in Seq(Scanned)

LEMMA NextBuffers ==
  ASSUME Ledger, Hands, Buffering, [WorkerNext]_workerVars
  PROVE  Buffering'
<1>0. /\ doing \in [Task -> Doing] /\ buffer \in Seq(IngestMessage) /\ Len(buffer) \in Nat /\ BufferMax \in Nat \ {0}
      /\ reading \subseteq IngestMessage /\ decisions \in Seq(Scanned)
  BY WorkerAssumption DEF Hands, Ledger, Buffering
<1>1. ASSUME NEW t \in Task, NEW next, Goes(t, next), next.pc = "publish" => next.decision \in Scanned
      PROVE  \A u \in Task : doing'[u].pc = "publish" => doing'[u].decision \in Scanned
  BY <1>0, <1>1 DEF Goes, Buffering
<1>2. ASSUME NEW state \in {"down", "running", "ended"}, Tasks(state), decisions' \in Seq(Scanned)
      PROVE  Buffering'
  BY <1>0, <1>2 DEF Tasks, Buffering, Rest
<1>3. ASSUME NEW m \in IngestMessage PROVE Dropping(m).decision \in Scanned
  BY DEF Dropping, Scanned, Verdicts
<1>4. CASE \/ \E m \in IngestMessage : Ingest(m)
           \/ StartWorker \/ ReadMessages \/ StartConsumer \/ EndConsumer \/ DecisionStep \/ UNCHANGED workerVars
  <2>1. UNCHANGED <<buffer, doing, decisions>> /\ engine' \in {engine, "running"}
    BY <1>4 DEF Ingest, StartWorker, ReadMessages, StartConsumer, EndConsumer, DecisionStep, ReadDecisions,
       TakeDecision, EnqueueReview, AckDecision, workerVars, analysis, deciding
  <2> QED BY <1>0, <2>1 DEF Buffering
<1>5. CASE StopWorker \/ ReadFails
  BY <1>0, <1>2, <1>5 DEF StopWorker, ReadFails, deciding
<1>6. ASSUME NEW m \in IngestMessage, Produce(m) PROVE Buffering'
  <2>1. UNCHANGED <<engine, decisions>> /\ Producer \in Task
    BY <1>6 DEF Produce, deciding, Task
  <2>2. CASE Goes(Producer, Dropping(m)) /\ UNCHANGED buffer
    <3>1. \A t \in Task : doing'[t].pc = "publish" => doing'[t].decision \in Scanned
      BY <1>1, <1>3, <2>1, <2>2
    <3> QED BY <1>0, <2>1, <2>2, <3>1 DEF Buffering
  <2>3. CASE buffer' = Append(buffer, m) /\ UNCHANGED doing /\ Len(buffer) # BufferMax
    <3>1. Len(buffer') = Len(buffer) + 1 /\ Len(buffer) <= BufferMax
      BY <1>0, <2>3 DEF Buffering
    <3> QED BY <1>0, <2>1, <2>3, <3>1 DEF Buffering
  <2> QED BY <1>6, <2>2, <2>3 DEF Produce, BufferJob
<1>7. ASSUME NEW c \in Consumer, TakeJob(c) PROVE Buffering'
  <2>1. UNCHANGED <<engine, decisions>> /\ c \in Task /\ buffer # <<>>
        /\ Goes(c, [pc |-> "analyse", message |-> Head(buffer)]) /\ buffer' = Tail(buffer)
    BY <1>7 DEF TakeJob, deciding, Task
  <2>2. Len(buffer') <= Len(buffer)
    BY <1>0, <2>1
  <2>3. \A t \in Task : doing'[t].pc = "publish" => doing'[t].decision \in Scanned
    BY <1>1, <2>1
  <2>4. Len(buffer') \in Nat
    BY <1>0, <2>1
  <2> QED BY <1>0, <2>1, <2>2, <2>3, <2>4 DEF Buffering
<1>8. ASSUME NEW c \in Consumer, Analyse(c) PROVE Buffering'
  <2>1. UNCHANGED <<engine, decisions, buffer>> /\ c \in Task /\ doing[c].pc = "analyse"
    BY <1>8 DEF Analyse, deciding, Task
  <2>2. doing[c].message \in IngestMessage
    BY <1>0, <2>1, HoldsIs
  <2>3. \A s \in Similarity, l \in LogoScore :
          [message |-> doing[c].message, verdict |-> Verdict(Confidence(s, l)), similarity |-> s] \in Scanned
    BY <2>2 DEF Scanned, Verdicts, Verdict
  <2>4. PICK next : Goes(c, next) /\ (next.pc = "publish" => next.decision \in Scanned)
    <3>1. CASE Goes(c, Dropping(doing[c].message))
      BY <1>3, <2>2, <3>1
    <3>2. ASSUME NEW s \in Similarity, NEW l \in LogoScore,
                 Goes(c, [pc |-> "publish", decision |->
                   [message |-> doing[c].message, verdict |-> Verdict(Confidence(s, l)), similarity |-> s]])
          PROVE  \E next : Goes(c, next) /\ (next.pc = "publish" => next.decision \in Scanned)
      BY <2>3, <3>2
    <3> QED BY <1>8, <3>1, <3>2 DEF Analyse
  <2>5. \A t \in Task : doing'[t].pc = "publish" => doing'[t].decision \in Scanned
    BY <1>1, <2>1, <2>4
  <2> QED BY <1>0, <2>1, <2>5 DEF Buffering
<1>9. ASSUME NEW t \in Task, Publish(t) PROVE Buffering'
  <2>1. Published(t) \in Seq(Scanned)
    BY <1>0, <1>9 DEF Published, Publish, Buffering
  <2>2. CASE decisions' \in {decisions, Published(t)} /\ Tasks("ended")
    BY <1>0, <1>2, <2>1, <2>2
  <2>3. CASE /\ decisions' = Published(t) /\ UNCHANGED <<engine, buffer>>
             /\ Goes(t, [pc |-> "ack", message |-> doing[t].decision.message])
    <3>1. \A u \in Task : doing'[u].pc = "publish" => doing'[u].decision \in Scanned
      BY <1>1, <2>3
    <3> QED BY <2>1, <2>3, <3>1 DEF Buffering
  <2> QED BY <1>9, <2>2, <2>3 DEF Publish
<1>10. ASSUME NEW t \in Task, AckJob(t) PROVE Buffering'
  <2>1. UNCHANGED decisions
    BY <1>10 DEF AckJob, deciding
  <2>2. CASE Tasks("ended")
    BY <1>0, <1>2, <2>1, <2>2
  <2>3. CASE Goes(t, Rest) /\ UNCHANGED <<engine, buffer>>
    <3>1. \A u \in Task : doing'[u].pc = "publish" => doing'[u].decision \in Scanned
      BY <1>1, <2>3 DEF Rest
    <3> QED BY <1>0, <2>1, <2>3, <3>1 DEF Buffering
  <2> QED BY <1>10, <2>2, <2>3 DEF AckJob
<1> QED BY <1>4, <1>5, <1>6, <1>7, <1>8, <1>9, <1>10 DEF WorkerNext, AnalysisStep

\* The consumer has been handed whatever it is at, acknowledged or shown.
HandedOut ==
  /\ consumer.at \in 0..consumer.read /\ consumer.batch \cup consumer.acked \cup shown \subseteq 1..consumer.read
  /\ faults \in 0..MaxFaults

LEMMA NextHandsOut ==
  ASSUME Shown, HandedOut, TellingInv, [WorkerNext]_workerVars
  PROVE  HandedOut'
<1> DEFINE n == Len(decisions)
<1>0. /\ n \in Nat /\ consumer \in [group : BOOLEAN, up : BOOLEAN, read : 0..n, batch : SUBSET (1..n),
                     at : 0..n, pc : {"rest", "push", "ack"}, acked : SUBSET (1..n)]
      /\ consumer.pc # "rest" => consumer.at # 0
  BY DEF TellingInv, Ledger, Shown
<1>1. faults' \in 0..MaxFaults
  <2>1. faults' = faults \/ Fault
    BY DEF WorkerNext, AnalysisStep, DecisionStep, Ingest, StartWorker, StopWorker, ReadFails, StartConsumer,
       EndConsumer, ReadMessages, Produce, TakeJob, Analyse, Publish, AckJob, ReadDecisions, TakeDecision,
       EnqueueReview, AckDecision, LeavesPending, workerVars, Fine
  <2> QED BY <2>1, FaultsAssumption DEF HandedOut, Fault
<1> HIDE DEF n
<1>2. CASE UNCHANGED <<consumer, shown>>
  BY <1>1, <1>2 DEF HandedOut
<1>3. CASE StartConsumer
  <2>1. PICK r \in consumer.read..n : consumer' = [consumer EXCEPT !.group = TRUE, !.up = TRUE, !.read = r]
    <3>1. consumer.read \in consumer.read..n /\ n \in consumer.read..n
      BY <1>0
    <3>2. CASE consumer.group = TRUE
      BY <1>0, <1>3, <3>1, <3>2 DEF StartConsumer
    <3>3. CASE consumer.group = FALSE
      <4>1. consumer' = [consumer EXCEPT !.group = TRUE, !.up = TRUE, !.read = n]
        BY <1>3, <3>3 DEF StartConsumer, n
      <4> QED BY <3>1, <4>1
    <3> QED BY <1>0, <3>2, <3>3
  <2>2. consumer'.read = r /\ consumer'.at = consumer.at /\ consumer'.batch = consumer.batch
        /\ consumer'.acked = consumer.acked /\ shown' = shown
    BY <1>0, <1>3, <2>1 DEF StartConsumer
  <2>3. 0..consumer.read \subseteq 0..r /\ 1..consumer.read \subseteq 1..r
    BY <1>0, <2>1
  <2> QED BY <1>1, <2>2, <2>3 DEF HandedOut
<1>4. CASE EndConsumer
  <2>1. consumer' = [consumer EXCEPT !.up = FALSE, !.batch = {}, !.pc = "rest", !.at = 0] /\ shown' = shown
    BY <1>4 DEF EndConsumer
  <2> QED BY <1>0, <1>1, <2>1 DEF HandedOut
<1>5. CASE ReadDecisions
  <2>1. PICK k \in consumer.read + 1..n :
              consumer' = [consumer EXCEPT !.read = k, !.batch = consumer.read + 1..k]
    BY <1>5 DEF ReadDecisions, n
  <2>2. consumer'.read = k /\ consumer'.at = consumer.at /\ consumer'.batch = consumer.read + 1..k
        /\ consumer'.acked = consumer.acked /\ shown' = shown
    BY <1>0, <1>5, <2>1 DEF ReadDecisions
  <2>3. 0..consumer.read \subseteq 0..k /\ 1..consumer.read \subseteq 1..k /\ consumer.read + 1..k \subseteq 1..k
    BY <1>0, <2>1
  <2> QED BY <1>1, <2>2, <2>3 DEF HandedOut
<1>6. ASSUME NEW k \in consumer.batch, TakeDecision(k) PROVE HandedOut'
  <2>1. /\ consumer'.read = consumer.read /\ consumer'.at = k /\ consumer'.batch \subseteq consumer.batch
        /\ consumer'.acked = consumer.acked /\ shown' = shown
    BY <1>0, <1>6 DEF TakeDecision
  <2>2. k \in 0..consumer.read
    BY <1>0, <1>6 DEF HandedOut
  <2> QED BY <1>1, <2>1, <2>2 DEF HandedOut
<1>7. CASE EnqueueReview \/ AckDecision
  <2>1. consumer.at \in 1..consumer.read /\ 0 \in 0..consumer.read
    BY <1>0, <1>7 DEF EnqueueReview, AckDecision, HandedOut
  <2>2. consumer'.read = consumer.read /\ consumer'.at \in {0, consumer.at} /\ consumer'.batch = consumer.batch
        /\ consumer'.acked \subseteq consumer.acked \cup {consumer.at} /\ shown' \subseteq shown \cup {consumer.at}
    <3>1. CASE LeavesPending /\ shown' \subseteq shown \cup {consumer.at}
      BY <1>0, <3>1 DEF LeavesPending
    <3>2. CASE consumer' = [consumer EXCEPT !.pc = "ack"] /\ shown' \subseteq shown \cup {consumer.at}
      BY <1>0, <3>2
    <3>3. CASE consumer' = [consumer EXCEPT !.pc = "rest", !.at = 0, !.acked = @ \cup {consumer.at}] /\ shown' = shown
      BY <1>0, <3>3
    <3> QED BY <1>7, <3>1, <3>2, <3>3 DEF EnqueueReview, AckDecision
  <2> QED BY <1>0, <1>1, <2>1, <2>2 DEF HandedOut
<1>8. CASE \/ \E m \in IngestMessage : Ingest(m)
           \/ StartWorker \/ StopWorker \/ ReadFails \/ AnalysisStep \/ UNCHANGED workerVars
  <2>1. UNCHANGED <<consumer, shown>>
    BY <1>8 DEF Ingest, StartWorker, StopWorker, ReadFails, AnalysisStep, ReadMessages, Produce, TakeJob,
       Analyse, Publish, AckJob, workerVars, deciding
  <2> QED BY <1>2, <2>1
<1> QED BY <1>3, <1>4, <1>5, <1>6, <1>7, <1>8 DEF WorkerNext, DecisionStep

\* Type correctness of the worker: the buffer keeps its limit, and the consumer never
\* acknowledges or shows what it has not been handed.
THEOREM WorkerTypeCorrect == WorkerSpec => []WorkerTypeOK
<1> DEFINE Inv == TellingInv /\ Shown /\ Buffering /\ HandedOut
<1>1. WorkerInit => Inv
  <2> SUFFICES ASSUME WorkerInit PROVE Inv
    OBVIOUS
  <2>1. TellingInv /\ Shown
    BY InitWorker DEF WorkerInit, TellingInv, Rest, Shown
  <2>2. Buffering /\ HandedOut
    BY WorkerAssumption, FaultsAssumption DEF WorkerInit, Buffering, HandedOut, Rest
  <2> QED BY <2>1, <2>2
<1>2. Inv /\ [WorkerNext]_workerVars => Inv'
  BY NextTells, NextShown, NextBuffers, NextHandsOut DEF TellingInv
<1>3. Inv => WorkerTypeOK
  <2> SUFFICES ASSUME Inv PROVE WorkerTypeOK
    OBVIOUS
  <2>1. /\ toScan \subseteq IngestMessage /\ scanning \subseteq IngestMessage /\ scanned \subseteq IngestMessage
        /\ reading \subseteq scanning
    BY DEF TellingInv, Ledger, Hands
  <2>2. buffer \in Seq(scanning)
    <3>1. buffer \in Seq(IngestMessage) /\ \A i \in DOMAIN buffer : buffer[i] \in scanning
      BY DEF TellingInv, Hands, Buffered
    <3> QED BY <3>1
  <2>3. \A t \in Task : doing[t].pc \in {"rest", "analyse", "publish", "ack"}
    BY DEF TellingInv, Hands, Doing, Rest
  <2>4. decisions \in Seq([message : IngestMessage, similarity : Similarity \cup {0},
                        verdict : {"dropped", "match", "no_match", "inconclusive"}])
    BY DEF Buffering, Scanned, Verdicts
  <2>5. consumer.read \in 0..Len(decisions)
    BY DEF Shown
  <2> QED BY <2>1, <2>2, <2>3, <2>4, <2>5 DEF WorkerTypeOK, Buffering, HandedOut
<1> QED BY <1>1, <1>2, <1>3, PTL DEF WorkerSpec

-----------------------------------------------------------------------------
(***************************************************************************)
(* SearchOrchestrator. What is marked is visited or still to be visited,   *)
(* and a page that was read has had every link worth following marked.     *)
(***************************************************************************)

\* What a crawl has marked is still to be visited or was, and a page that was
\* read has had all its links marked.
Marked == queued \subseteq seen \cup {e.url : e \in frontier}

Sources(es) ==
  \A e \in es : e.url \in Seeds \/ \E g \in fetched : e.url \in Worth(g) /\ e.depth = g.depth + 1

CrawlInv ==
  /\ Marked /\ Sources(frontier) /\ Sources(fetched)
  /\ \A f \in fetched : f.depth < MaxDepth => Worth(f) \subseteq seen \cup queued

LEMMA VisitCrawl ==
  ASSUME CrawlInv, NEW e \in frontier, Visit(e), UNCHANGED <<queued, fetched>>
  PROVE  CrawlInv'
<1>1. Marked'
  BY DEF CrawlInv, Marked, Visit
<1>2. Sources(frontier)' /\ Sources(fetched)'
  BY DEF CrawlInv, Sources, Visit, Worth, IsAllowedDomain, Allowlist
<1>3. \A f \in fetched' : f.depth < MaxDepth => Worth(f)' \subseteq seen' \cup queued'
  BY DEF CrawlInv, Visit, Worth, IsAllowedDomain, Allowlist
<1> QED
  BY <1>1, <1>2, <1>3 DEF CrawlInv

LEMMA FetchCrawl ==
  ASSUME CrawlInv, NEW e \in frontier, Fetch(e)
  PROVE  CrawlInv'
<1> DEFINE links == {l \in Links[Target[e.url]] :
                      /\ e.depth < MaxDepth /\ l \notin seen' \cup queued
                      /\ IsAllowedDomain(l) /\ LinkScore(e.url, l) >= MinFollow}
           page == [url |-> e.url, depth |-> e.depth]
           next == {[url |-> l, rank |-> LinkScore(e.url, l), depth |-> e.depth + 1] : l \in links}
<1>1. /\ e.url \notin seen /\ IsAllowedDomain(e.url)
      /\ seen' = seen \cup {e.url} /\ fetched' = fetched \cup {page}
      /\ queued' = queued \cup links
      /\ frontier' = (frontier \ {e}) \cup next
  BY DEF Fetch, Follow
<1>2. Worth(page) = {l \in Links[Target[e.url]] : IsAllowedDomain(l) /\ LinkScore(e.url, l) >= MinFollow}
  BY DEF Worth
<1>3. links \subseteq Worth(page)
  BY <1>2
<1>4. page.depth < MaxDepth => Worth(page) \subseteq seen' \cup queued'
  BY <1>1, <1>2
<1>5. \A f \in next : f.url \in links /\ f.depth = e.depth + 1
  OBVIOUS
<1>6. \A l \in links : \E f \in next : f.url = l
  <2> TAKE l \in links
  <2> WITNESS [url |-> l, rank |-> LinkScore(e.url, l), depth |-> e.depth + 1] \in next
  <2> QED OBVIOUS
<1> HIDE DEF links, page, next
<1>7. page.url = e.url /\ page.depth = e.depth
  BY DEF page
<1>8. Marked'
  <2> SUFFICES ASSUME NEW u \in queued', u \notin seen'
               PROVE  \E f \in frontier' : f.url = u
    BY DEF Marked
  <2>1. CASE u \in links
    BY <2>1, <1>1, <1>6
  <2>2. CASE u \in queued
    <3>1. PICK f \in frontier : f.url = u
      BY <2>2, <1>1 DEF CrawlInv, Marked
    <3>2. f # e
      BY <3>1, <1>1
    <3> QED BY <3>1, <3>2, <1>1
  <2> QED BY <1>1, <2>1, <2>2
<1>9. \A f : Worth(f)' = Worth(f)
  BY DEF Worth, IsAllowedDomain, Allowlist
<1>10. Sources(frontier)'
  BY <1>1, <1>3, <1>5, <1>7, <1>9 DEF CrawlInv, Sources
<1>11. Sources(fetched)'
  BY <1>1, <1>7, <1>9 DEF CrawlInv, Sources
<1>12. \A f \in fetched' : f.depth < MaxDepth => Worth(f)' \subseteq seen' \cup queued'
  BY <1>1, <1>4, <1>9 DEF CrawlInv
<1> QED
  BY <1>8, <1>10, <1>11, <1>12 DEF CrawlInv

LEMMA BeginCrawl ==
  ASSUME CrawlInv, NEW j, BeginJob(j)
  PROVE  CrawlInv'
<1>1. CASE UNCHANGED crawl
  BY <1>1 DEF crawl, CrawlInv, Marked, Sources, Worth, IsAllowedDomain, Allowlist
<1>2. CASE ~UNCHANGED crawl
  <2>1. /\ frontier' = {[url |-> s, rank |-> Priority, depth |-> 0] : s \in Seeds}
        /\ seen' = {} /\ queued' = {} /\ fetched' = {} /\ results' = {}
    BY <1>2 DEF BeginJob
  <2> QED
    BY <2>1 DEF CrawlInv, Marked, Sources
<1> QED
  BY <1>1, <1>2

LEMMA SameCrawl ==
  ASSUME CrawlInv, UNCHANGED crawl
  PROVE  CrawlInv'
  BY DEF crawl, CrawlInv, Marked, Sources, Worth, IsAllowedDomain, Allowlist

LEMMA NextCrawl == CrawlInv /\ [SearchNext]_searchVars => CrawlInv'
<1> SUFFICES ASSUME CrawlInv, [SearchNext]_searchVars PROVE CrawlInv'
  OBVIOUS
<1>1. CASE ReadJobs \/ FinishJob \/ Restart \/ UNCHANGED searchVars
  BY <1>1, SameCrawl DEF ReadJobs, FinishJob, Restart, searchVars
<1>2. CASE \E j \in Job : Submit(j)
  BY <1>2, SameCrawl DEF Submit
<1>3. CASE \E j \in todo : BeginJob(j)
  BY <1>3, BeginCrawl
<1>4. ASSUME NEW e \in frontier, PassOver(e) \/ EmitFails(e) PROVE CrawlInv'
  BY <1>4, VisitCrawl DEF PassOver, EmitFails
<1>5. ASSUME NEW e \in frontier, Fetch(e) PROVE CrawlInv'
  BY <1>5, FetchCrawl
<1> QED
  BY <1>1, <1>2, <1>3, <1>4, <1>5 DEF SearchNext, SearchStep

\* A crawl that ends on its own has visited every page it should: each link worth
\* following of a page it fetched was marked then, and what is marked is visited.
THEOREM EveryLinkFollowed == SearchSpec => []LinksFollowed
<1>1. SearchInit => CrawlInv
  BY DEF SearchInit, CrawlInv, Marked, Sources
<1>2. CrawlInv => LinksFollowed
  BY DEF CrawlInv, LinksFollowed, Crawling, Marked, Sources
<1> QED
  BY <1>1, <1>2, NextCrawl, PTL DEF SearchSpec

LEMMA LinkScores ==
  ASSUME NEW u \in Url, NEW l \in Url
  PROVE  PageScore(u) \in 0..100 /\ LinkScore(u, l) \in 0..100
<1>1. \A n \in Nat : Clamp(n) \in 0..100
  BY DEF Clamp
<1>2. /\ Target[u] \in Url /\ UrlTerms[Target[u]] \in Nat /\ PageTerms[Target[u]] \in Nat /\ UrlTerms[l] \in Nat
      /\ Tier \in 0..100
  BY SearchAssumption
<1>3. PageScore(u) \in 0..100
  BY <1>1, <1>2 DEF PageScore
<1> DEFINE p == PageScore(u)
           share == (45 * p + 35 * Tier) \div 100
           near == IF DomainOf[Target[u]] = DomainOf[l] THEN 10 ELSE 0
<1> HIDE DEF p
<1>4. share \in Nat /\ near \in Nat
  BY <1>2, <1>3 DEF p
<1> HIDE DEF share, near
<1>5. share + UrlTerms[l] + near \in Nat
  BY <1>2, <1>4
<1>6. Clamp(share + UrlTerms[l] + near) \in 0..100
  BY <1>1, <1>5
<1> QED BY <1>3, <1>6 DEF LinkScore, share, near, p

\* What the crawl has found fits its limit.
Limited == IsFiniteSet(results) /\ results \subseteq Url /\ Cardinality(results) <= MaxPages

LEMMA OneMore ==
  ASSUME Limited, Crawling, NEW u \in Url, results' \in {results, results \cup {u}}
  PROVE  Limited'
<1>1. IsFiniteSet(results \cup {u}) /\ Cardinality(results) \in Nat /\ MaxPages \in Nat
      /\ Cardinality(results \cup {u}) \in {Cardinality(results), Cardinality(results) + 1}
  BY FS_AddElement, FS_CardinalityType, SearchAssumption DEF Limited
<1> QED BY <1>1 DEF Limited, Crawling

\* What robots.txt says of a domain is read once, and is rules or none.
LEMMA RobotsKnown ==
  ASSUME robots \in [Domain -> {"unread", "rules", "none"}], NEW u, NEW allowed, RobotsAllowed(u, allowed)
  PROVE  robots' \in [Domain -> {"unread", "rules", "none"}]
<1>1. PICK answer \in {"rules", "none"} : robots' = [robots EXCEPT ![DomainOf[u]] = answer]
  BY DEF RobotsAllowed
<1> QED BY <1>1

\* Type correctness of the crawl: it finds no more than max_pages candidates and goes
\* no deeper than max_depth, and what it does not hold is pending or done.
THEOREM SearchTypeCorrect == SearchSpec => []SearchTypeOK
<1> DEFINE Inv == SearchTypeOK /\ Limited /\ (job # NoJob => job \notin todo)
<1>1. SearchInit => Inv
  BY FS_EmptySet, SearchAssumption DEF SearchInit, SearchTypeOK, Limited
<1>2. Inv /\ [SearchNext]_searchVars => Inv'
  <2> SUFFICES ASSUME Inv, [SearchNext]_searchVars PROVE Inv'
    OBVIOUS
  <2>1. CASE ReadJobs \/ FinishJob \/ Restart \/ UNCHANGED searchVars
    <3>1. UNCHANGED <<crawl, emitted>>
      BY <2>1 DEF ReadJobs, FinishJob, Restart, searchVars
    <3>2. /\ waiting' \cup taken' \subseteq Job /\ todo' \subseteq taken' /\ job' \in taken' \cup {NoJob}
          /\ (job' # NoJob => job' \notin todo')
      BY <2>1 DEF ReadJobs, FinishJob, Restart, searchVars, SearchTypeOK
    <3> QED BY <3>1, <3>2 DEF crawl, SearchTypeOK, Limited
  <2>2. ASSUME NEW j \in Job, Submit(j) PROVE Inv'
    BY <2>2 DEF Submit, crawl, SearchTypeOK, Limited
  <2>3. ASSUME NEW j \in todo, BeginJob(j) PROVE Inv'
    <3>1. CASE UNCHANGED crawl
      BY <2>3, <3>1 DEF BeginJob, crawl, SearchTypeOK, Limited
    <3>2. CASE /\ job' = j /\ UNCHANGED taken /\ seen' = {} /\ queued' = {} /\ results' = {}
               /\ frontier' = {[url |-> s, rank |-> Priority, depth |-> 0] : s \in Seeds}
               /\ robots' = [d \in Domain |-> "unread"]
      <4>1. frontier' \subseteq [url : Url, rank : 0..100, depth : 0..MaxDepth]
        BY <3>2, SearchAssumption
      <4>2. Limited'
        BY <3>2, FS_EmptySet, SearchAssumption DEF Limited
      <4> QED BY <2>3, <3>2, <4>1, <4>2 DEF BeginJob, SearchTypeOK, Limited
    <3> QED BY <2>3, <3>1, <3>2 DEF BeginJob
  <2>4. ASSUME NEW e \in frontier, PassOver(e) PROVE Inv'
    <3>1. robots' \in [Domain -> {"unread", "rules", "none"}]
      BY <2>4, RobotsKnown DEF PassOver, SearchTypeOK
    <3> QED BY <2>4, <3>1 DEF PassOver, Visit, SearchTypeOK, Limited
  <2>5. ASSUME NEW e \in frontier, Fetch(e) PROVE Inv'
    <3>1. e.url \in Url /\ e.depth \in 0..MaxDepth /\ job \in Job
      BY <2>5 DEF SearchTypeOK, Fetch
    <3>2. Limited'
      BY <2>5, <3>1, OneMore DEF Fetch
    <3> DEFINE links == {l \in Links[Target[e.url]] :
                          /\ e.depth < MaxDepth /\ l \notin seen' \cup queued
                          /\ IsAllowedDomain(l) /\ LinkScore(e.url, l) >= MinFollow}
    <3>3. queued' = queued \cup links
          /\ frontier' = (frontier \ {e}) \cup
               {[url |-> l, rank |-> LinkScore(e.url, l), depth |-> e.depth + 1] : l \in links}
      BY <2>5 DEF Fetch, Follow
    <3>4. \A l \in links : l \in Url /\ e.depth < MaxDepth
      BY <3>1, SearchAssumption
    <3> HIDE DEF links
    <3>5. \A l \in links : [url |-> l, rank |-> LinkScore(e.url, l), depth |-> e.depth + 1]
                             \in [url : Url, rank : 0..100, depth : 0..MaxDepth]
      <4> TAKE l \in links
      <4>1. LinkScore(e.url, l) \in 0..100 /\ e.depth + 1 \in 0..MaxDepth
        BY <3>1, <3>4, LinkScores, SearchAssumption
      <4> QED BY <3>4, <4>1
    <3>6. frontier' \subseteq [url : Url, rank : 0..100, depth : 0..MaxDepth] /\ queued' \subseteq Url
      BY <3>3, <3>4, <3>5 DEF SearchTypeOK
    <3>7. seen' \subseteq Url /\ emitted' \subseteq Job \X Url
      BY <2>5, <3>1 DEF Fetch, SearchTypeOK
    <3>8. robots' \in [Domain -> {"unread", "rules", "none"}]
      BY <2>5, RobotsKnown DEF Fetch, SearchTypeOK
    <3>9. /\ waiting' \cup taken' \subseteq Job /\ todo' \subseteq taken'
          /\ job' \in taken' \cup {NoJob} /\ (job' # NoJob => job' \notin todo')
      BY <2>5 DEF Fetch, SearchTypeOK
    <3>10. results' \subseteq Url /\ Cardinality(results') <= MaxPages
      BY <3>2 DEF Limited
    <3> QED BY <3>2, <3>6, <3>7, <3>8, <3>9, <3>10 DEF SearchTypeOK
  <2>6. ASSUME NEW e \in frontier, EmitFails(e) PROVE Inv'
    <3>1. e.url \in Url /\ job \in Job
      BY <2>6 DEF SearchTypeOK, EmitFails
    <3>2. Limited'
      BY <2>6, <3>1, OneMore DEF EmitFails
    <3>3. robots' \in [Domain -> {"unread", "rules", "none"}]
      BY <2>6, RobotsKnown DEF EmitFails, SearchTypeOK
    <3> QED BY <2>6, <3>1, <3>2, <3>3 DEF EmitFails, Visit, SearchTypeOK, Limited
  <2> QED BY <2>1, <2>2, <2>3, <2>4, <2>5, <2>6 DEF SearchNext, SearchStep
<1> QED BY <1>1, <1>2, PTL DEF SearchSpec
=============================================================================
