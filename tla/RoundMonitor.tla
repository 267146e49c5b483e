---------------------------- MODULE RoundMonitor ----------------------------
(***************************************************************************)
(* services/fl_coordinator/round_monitor.py on shared/training_buffer.py:  *)
(* the thread that takes labelled samples out of a Redis list, stores them *)
(* as a federated round, announces it, and guards the pointer to the       *)
(* production model; and what services/fl_edge/simulate_nodes.py reads.    *)
(*                                                                         *)
(* Every Redis command is a step.  An error of one that is not caught ends *)
(* the thread, and the samples it holds are gone.  Pub/sub messages reach  *)
(* whoever is subscribed when they are sent, and no one later.             *)
(***************************************************************************)
EXTENDS Faults, FiniteSets

CONSTANTS
  Sample,
  Threshold,     \* threshold
  MaxRetries,    \* max_retries
  ShardTotal,    \* num_nodes * shard_size of the edge
  Model,         \* weights_key of the candidates
  NoModel,
  Quality,       \* bound: what a candidate's metrics may be, [accuracy, ece]
  MaxAsked       \* bound: triggers sent by others

ASSUME MonitorAssumption ==
  /\ {Threshold, MaxRetries, ShardTotal} \subseteq Nat \ {0}
  /\ NoModel \notin Model
  /\ Quality \subseteq [accuracy : 0..100, ece : 0..100] \ {[accuracy |-> 0, ece |-> 100]}
  /\ MaxAsked \in Nat

VARIABLES
  buffer,     \* HITL_BUFFER_KEY
  offered,    \* history: samples that were ever pushed
  callback,   \* is there an on_round_start
  monitor,    \* the thread: where it is, the samples it holds, why, which attempt
  inbox,      \* trigger messages the subscriber has not looked at
  asked,      \* history: how many triggers others have sent
  rounds,     \* history: rounds that were announced
  stored,     \* the sample sets under round_samples_key_prefix
  active,     \* the one fl:active_round_id names
  trained,    \* history: samples an edge has trained on
  ready,      \* candidates announced on model_ready_channel
  measured,   \* history: the metrics each candidate was announced with
  pointer, meta   \* model_pointer_key, and what is stored under ...:meta

flow == <<buffer, offered, inbox, asked, rounds, stored, active, trained>>
models == <<ready, measured, pointer, meta>>
monitorVars == <<flow, models, callback, monitor, faults>>

Worst == [accuracy |-> 0, ece |-> 100]
At(pc) == [pc |-> pc, held |-> {}, why |-> "none", attempt |-> 1]

MonitorInit ==
  /\ buffer = {} /\ offered = {} /\ inbox = [asked |-> 0, own |-> 0] /\ asked = 0
  /\ rounds = {} /\ stored = {} /\ active = {} /\ trained = {}
  /\ ready = {} /\ measured = [m \in Model |-> Worst]
  /\ pointer = NoModel /\ meta = [m \in Model |-> {}]
  /\ callback \in BOOLEAN /\ monitor = At("poll") /\ faults = 0


Running == monitor.pc # "ended"
End == monitor' = At("ended")
NextStage == monitor' = At(IF monitor.why = "threshold" THEN "listen" ELSE "models")

Push(s) ==
  /\ s \notin offered
  /\ buffer' = buffer \cup {s} /\ offered' = offered \cup {s}
  /\ UNCHANGED <<inbox, asked, rounds, stored, active, trained, models, callback, monitor, faults>>

\* Somebody else's message on the trigger channel.
Ask ==
  /\ asked < MaxAsked /\ asked' = asked + 1
  /\ inbox' = IF Running THEN [inbox EXCEPT !.asked = @ + 1] ELSE inbox
  /\ UNCHANGED <<buffer, offered, rounds, stored, active, trained, models, callback, monitor, faults>>

\* Mistake: the threshold has to be exceeded.
EnoughAbove == Cardinality(buffer) > Threshold

Enough == Cardinality(buffer) >= Threshold

Poll ==
  /\ monitor.pc = "poll"
  /\ monitor' = IF Enough THEN [At("clear") EXCEPT !.why = "threshold"] ELSE At("listen")
  /\ UNCHANGED <<flow, models, callback, faults>>

\* One message, if there is one.
Listen ==
  /\ monitor.pc = "listen"
  /\ \/ inbox = [asked |-> 0, own |-> 0] /\ monitor' = At("models") /\ UNCHANGED inbox
     \/ \E who \in {"asked", "own"} :
          /\ inbox[who] > 0 /\ inbox' = [inbox EXCEPT ![who] = @ - 1]
          /\ monitor' = [At("clear") EXCEPT !.why = who]
  /\ UNCHANGED <<buffer, offered, asked, rounds, stored, active, trained, models, callback, faults>>

\* Mistake: the list is read and deleted in two commands, and a sample pushed
\* between them is deleted unread.
GetThenClear ==
  /\ monitor.pc = "clear" /\ buffer' = {} /\ Fine
  /\ \E got \in SUBSET buffer :
       IF got = {} THEN NextStage ELSE monitor' = [monitor EXCEPT !.pc = "persist", !.held = got]
  /\ UNCHANGED <<offered, inbox, asked, rounds, stored, active, trained, models, callback>>

\* The script runs as one command; its reply may be lost.
GetAndClear ==
  /\ monitor.pc = "clear"
  /\ \/ /\ buffer' = {} /\ Fine
        /\ IF buffer = {} THEN NextStage
           ELSE monitor' = [monitor EXCEPT !.pc = "persist", !.held = buffer]
     \/ buffer' \in {buffer, {}} /\ Fault /\ End
  /\ UNCHANGED <<offered, inbox, asked, rounds, stored, active, trained, models, callback>>

\* _persist_round_samples, under a new round id: two SETs.
Persist ==
  /\ monitor.pc = "persist"
  /\ \/ /\ stored' = stored \cup {monitor.held} /\ active' = monitor.held /\ Fine
        /\ monitor' = [monitor EXCEPT !.pc = "announce"]
     \/ stored' \in {stored, stored \cup {monitor.held}} /\ UNCHANGED active /\ Fault /\ End
  /\ UNCHANGED <<buffer, offered, inbox, asked, rounds, trained, models, callback>>

\* Without a callback the round is announced on the trigger channel, to which
\* this monitor is subscribed as well.
Announce ==
  /\ monitor.pc = "announce" /\ ~callback
  /\ \/ /\ inbox' = [inbox EXCEPT !.own = @ + 1]
        /\ rounds' = rounds \cup {[samples |-> monitor.held, why |-> monitor.why]}
        /\ Fine /\ NextStage
     \/ UNCHANGED <<inbox, rounds>> /\ Fault /\ End
  /\ UNCHANGED <<buffer, offered, asked, stored, active, trained, models, callback>>

CallBack ==
  /\ monitor.pc = "announce" /\ callback
  /\ \/ /\ rounds' = rounds \cup {[samples |-> monitor.held, why |-> monitor.why]}
        /\ Fine /\ NextStage
     \/ /\ UNCHANGED <<rounds, faults>>
        /\ monitor' = IF monitor.attempt < MaxRetries
                      THEN [monitor EXCEPT !.pc = "persist", !.attempt = @ + 1]
                      ELSE [monitor EXCEPT !.pc = "restore"]
  /\ UNCHANGED <<buffer, offered, inbox, asked, stored, active, trained, models, callback>>

\* _restore_samples, one RPUSH each; then the thread ends with an exception.
Restore ==
  /\ monitor.pc = "restore"
  /\ \/ \E s \in monitor.held :
          /\ buffer' = buffer \cup {s} /\ Fine
          /\ monitor' = [monitor EXCEPT !.held = @ \ {s}]
     \/ monitor.held = {} /\ Fine /\ End /\ UNCHANGED buffer
     \/ monitor.held # {} /\ Fault /\ End /\ UNCHANGED buffer
  /\ UNCHANGED <<offered, inbox, asked, rounds, stored, active, trained, models, callback>>

AnnounceModel(m) ==
  /\ m \notin ready /\ measured[m] = Worst
  /\ ready' = ready \cup {m}
  /\ \E q \in Quality : measured' = [measured EXCEPT ![m] = q]
  /\ UNCHANGED <<flow, pointer, meta, callback, monitor, faults>>

\* Mistake: a candidate is refused only if both metrics are worse.
RegressedBoth(q, previous) == q.accuracy < previous.accuracy /\ q.ece > previous.ece

Regressed(q, previous) == q.accuracy < previous.accuracy \/ q.ece > previous.ece

\* What the registry knows of the production model; nothing when it has expired.
Previous ==
  IF pointer = NoModel \/ meta[pointer] = {} THEN Worst ELSE CHOOSE q \in meta[pointer] : TRUE

\* _handle_model_ready.  An error is logged; the record may be written by then.
HandleModelReady(m) ==
  /\ monitor.pc = "models" /\ m \in ready
  /\ ready' = ready \ {m} /\ monitor' = At("poll")
  /\ LET promoted == IF Regressed(measured[m], Previous) THEN pointer ELSE m
         written == [meta EXCEPT ![m] = {measured[m]}]
     IN \/ meta' = written /\ pointer' = promoted /\ Fine
        \/ meta' \in {meta, written} /\ pointer' = pointer /\ Fault
  /\ UNCHANGED <<flow, measured, callback>>

NoModelReady ==
  /\ monitor.pc = "models" /\ ready = {} /\ monitor' = At("poll")
  /\ UNCHANGED <<flow, models, callback, faults>>

\* Records live for a week, stored rounds for an hour.
ExpireMeta(m) ==
  /\ meta[m] # {} /\ Fault /\ meta' = [meta EXCEPT ![m] = {}]
  /\ UNCHANGED <<flow, ready, measured, pointer, callback, monitor>>

\* The samples of the active round, as many as the shards hold; the rest of the
\* round no one reads.
EdgeTrains ==
  /\ active # {}
  /\ \E t \in SUBSET active :
       /\ (t = active /\ Cardinality(t) <= ShardTotal) \/ Cardinality(t) = ShardTotal
       /\ trained' = trained \cup t
  /\ UNCHANGED <<buffer, offered, inbox, asked, rounds, stored, active, models, callback, monitor, faults>>

\* The coordinator is started again; the subscription is a new one.
RestartMonitor ==
  /\ ~Running /\ Fault /\ monitor' = At("poll")
  /\ inbox' = [asked |-> 0, own |-> 0]
  /\ UNCHANGED <<buffer, offered, asked, rounds, stored, active, trained, models, callback>>

MonitorStep ==
  \/ Poll \/ Listen \/ GetAndClear \/ Persist \/ Announce \/ CallBack \/ Restore
  \/ NoModelReady
  \/ \E m \in Model : HandleModelReady(m)

MonitorNext ==
  \/ MonitorStep \/ Ask \/ EdgeTrains \/ RestartMonitor
  \/ \E s \in Sample : Push(s)
  \/ \E m \in Model : AnnounceModel(m) \/ ExpireMeta(m)

MonitorSpec == MonitorInit /\ [][MonitorNext]_monitorVars /\ WF_monitorVars(MonitorStep)

-----------------------------------------------------------------------------
MonitorTypeOK ==
  /\ buffer \cup trained \cup active \subseteq offered /\ offered \subseteq Sample
  /\ monitor.held \subseteq offered /\ monitor.attempt \in 1..MaxRetries
  /\ stored \subseteq SUBSET offered
  /\ inbox \in [asked : 0..MaxAsked, own : Nat]
  /\ pointer \in Model \cup {NoModel} /\ ready \subseteq Model
  /\ \A m \in Model : meta[m] \subseteq {measured[m]}
  /\ callback \in BOOLEAN /\ faults \in 0..MaxFaults

\* No sample is lost between the list and a stored round as long as Redis answers,
\* however often the callback fails.
SamplesKept == faults = 0 => offered = buffer \cup monitor.held \cup UNION stored

\* A sample waits in one place: what has been announced in a round is not offered
\* again, so no round after it trains on it too.
AnnouncedOnce ==
  /\ \A r \in rounds : r.samples \cap (buffer \cup monitor.held) = {}
  /\ \A r, q \in rounds : r = q \/ r.samples \cap q.samples = {}

\* Samples are neither lost nor announced twice.
SamplesGoOnce == SamplesKept /\ AnnouncedOnce

\* A model replaces another only if none of its metrics is worse, while the
\* registry has the record of the one it replaces.
PromotionGuarded ==
  [][pointer' # pointer /\ pointer # NoModel /\ meta[pointer] # {} =>
       ~(measured[pointer'].accuracy < measured[pointer].accuracy
         \/ measured[pointer'].ece > measured[pointer].ece)]_monitorVars

\* As it is deployed, without a callback, and as long as Redis answers, enough
\* samples make a round.  A callback that keeps failing ends the thread.
RoundsStart ==
  Cardinality(buffer) >= Threshold ~>
    (faults > 0 \/ callback \/ Cardinality(buffer) < Threshold)
=============================================================================
