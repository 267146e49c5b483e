--------------------------- MODULE LearningProofs ---------------------------
(***************************************************************************)
(* What the learning plane guarantees: the round monitor, the environment  *)
(* of the routing policy, the replay buffer, the aggregation of a round    *)
(* and the shadow mode, for any samples, clients, parties, modulus,        *)
(* capacities and faults.                                                  *)
(***************************************************************************)
EXTENDS RoundMonitor, SentinelEnv, ExperienceBuffer, SecureAggregation, ShadowMode, FiniteSums, SequenceTheorems

-----------------------------------------------------------------------------
(***************************************************************************)
(* What RoundMonitor guarantees for any samples, models, limits and        *)
(* faults.  Samples are nowhere twice among the list and what the thread   *)
(* holds (Apart), and what is about to be announced has been stored        *)
(* (Holding).  A record in the model registry is that of the announcement, *)
(* and only announced candidates have one (Recorded).                      *)
(***************************************************************************)

Stages == {"poll", "clear", "persist", "announce", "restore", "listen", "models", "ended"}

Types ==
  /\ monitor \in [pc : Stages, held : SUBSET offered, why : {"none", "threshold", "asked", "own"},
                  attempt : Nat]
  /\ buffer \subseteq offered /\ \A r \in rounds : r.samples \subseteq offered
  /\ faults \in Nat

Holding ==
  /\ monitor.pc \notin {"persist", "announce", "restore"} => monitor.held = {}
  /\ monitor.pc = "announce" => monitor.held \in stored

Apart == buffer \cap monitor.held = {}

Flow == Types /\ Holding /\ Apart /\ SamplesKept /\ AnnouncedOnce

Recorded ==
  /\ measured \in [Model -> Quality \cup {Worst}] /\ ready \subseteq Model
  /\ \A m \in ready : measured[m] \in Quality
  /\ meta \in [Model -> SUBSET (Quality \cup {Worst})]
  /\ \A m \in Model : meta[m] \subseteq {measured[m]} /\ (measured[m] = Worst => meta[m] = {})
  /\ pointer \in Model \cup {NoModel}

-----------------------------------------------------------------------------
(* Samples. *)

LEMMA InitFlow == MonitorInit => Flow
  BY DEF MonitorInit, Flow, Types, Stages, Holding, Apart, SamplesKept, AnnouncedOnce, At

LEMMA AtFields ==
  ASSUME NEW pc \in Stages
  PROVE  /\ At(pc) \in [pc : Stages, held : SUBSET offered',
                        why : {"none", "threshold", "asked", "own"}, attempt : Nat]
         /\ At(pc).pc = pc /\ At(pc).held = {}
  BY DEF At

LEMMA FaultFine ==
  ASSUME Types, Fault \/ Fine
  PROVE  faults' \in Nat /\ (Fault => faults' # 0) /\ (faults' = 0 => faults = 0)
  BY DEF Types, Fault, Fine

\* Whatever ends without samples in hand keeps what holds of the samples: they
\* were all put back, or stored, or there has been a fault.
LEMMA LetGo ==
  ASSUME Flow, NEW pc \in Stages \ {"persist", "announce", "restore"},
         \/ monitor' = At(pc)
         \/ pc = "clear" /\ \E w \in {"threshold", "asked", "own"} : monitor' = [At("clear") EXCEPT !.why = w],
         UNCHANGED <<offered, stored, callback>>, buffer' \subseteq buffer,
         faults' \in Nat, faults' = 0 => faults = 0 /\ buffer' = buffer /\ monitor.held \subseteq UNION stored,
         \/ rounds' = rounds
         \/ \E w : rounds' = rounds \cup {[samples |-> monitor.held, why |-> w]}
  PROVE  Flow'
<1>1. /\ monitor' \in [pc : Stages, held : SUBSET offered', why : {"none", "threshold", "asked", "own"},
                       attempt : Nat]
      /\ monitor'.pc = pc /\ monitor'.held = {}
  BY AtFields DEF At, Stages
<1>2. monitor.held \subseteq offered /\ buffer \subseteq offered
  BY DEF Flow, Types
<1>3. Types'
  BY <1>1, <1>2 DEF Flow, Types
<1>4. Holding' /\ Apart'
  BY <1>1 DEF Holding, Apart
<1>5. SamplesKept'
  BY <1>1 DEF Flow, SamplesKept
<1>6. AnnouncedOnce'
  <2>1. \A r \in rounds : r.samples \cap (buffer' \cup monitor'.held) = {}
    BY <1>1 DEF Flow, AnnouncedOnce
  <2>2. \A r \in rounds : r.samples \cap monitor.held = {}
    BY DEF Flow, AnnouncedOnce
  <2>3. monitor.held \cap buffer' = {}
    BY DEF Flow, Apart
  <2>. QED
    BY <1>1, <2>1, <2>2, <2>3 DEF Flow, AnnouncedOnce
<1>. QED
  BY <1>3, <1>4, <1>5, <1>6 DEF Flow

LEMMA NextStageIs ==
  ASSUME NextStage
  PROVE  \E pc \in Stages \ {"persist", "announce", "restore"} : monitor' = At(pc)
  BY DEF NextStage, Stages

LEMMA PushFlow ==
  ASSUME Flow, NEW s \in Sample, Push(s)
  PROVE  Flow'
<1>1. /\ s \notin offered /\ buffer' = buffer \cup {s} /\ offered' = offered \cup {s}
      /\ UNCHANGED <<rounds, stored, callback, monitor, faults>>
  BY DEF Push
<1>2. monitor.held \subseteq offered /\ buffer \subseteq offered /\ \A r \in rounds : r.samples \subseteq offered
  BY DEF Flow, Types
<1>3. monitor' \in [pc : Stages, held : SUBSET offered', why : {"none", "threshold", "asked", "own"},
                    attempt : Nat]
  BY <1>1 DEF Flow, Types
<1>4. Types' /\ Holding' /\ Apart' /\ SamplesKept'
  BY <1>1, <1>2, <1>3 DEF Flow, Types, Holding, Apart, SamplesKept
<1>5. AnnouncedOnce'
  BY <1>1, <1>2 DEF Flow, AnnouncedOnce
<1>. QED
  BY <1>4, <1>5 DEF Flow

LEMMA ClearFlow ==
  ASSUME Flow, GetAndClear
  PROVE  Flow'
<1>0. /\ monitor.pc = "clear" /\ monitor.held = {}
      /\ UNCHANGED <<offered, inbox, asked, rounds, stored, active, trained, models, callback>>
  BY DEF GetAndClear, Flow, Holding
<1>1. CASE buffer = {} /\ buffer' = {} /\ Fine /\ NextStage
  BY <1>0, <1>1, NextStageIs, FaultFine, LetGo DEF Flow, Fine
<1>2. CASE buffer' \in {buffer, {}} /\ Fault /\ End
  BY <1>0, <1>2, FaultFine, LetGo DEF Flow, End, Stages
<1>3. CASE buffer' = {} /\ Fine /\ monitor' = [monitor EXCEPT !.pc = "persist", !.held = buffer]
  <2>1. /\ monitor' \in [pc : Stages, held : SUBSET offered', why : {"none", "threshold", "asked", "own"},
                         attempt : Nat]
        /\ monitor'.pc = "persist" /\ monitor'.held = buffer
    BY <1>0, <1>3 DEF Flow, Types, Stages
  <2>2. Types' /\ Holding' /\ Apart'
    BY <1>0, <1>3, <2>1 DEF Flow, Types, Holding, Apart, Fine
  <2>3. SamplesKept' /\ AnnouncedOnce'
    BY <1>0, <1>3, <2>1 DEF Flow, SamplesKept, AnnouncedOnce, Fine
  <2>. QED
    BY <2>2, <2>3 DEF Flow
<1>. QED
  BY <1>1, <1>2, <1>3 DEF GetAndClear

LEMMA PersistFlow ==
  ASSUME Flow, Persist
  PROVE  Flow'
<1>0. /\ monitor.pc = "persist"
      /\ UNCHANGED <<buffer, offered, rounds, callback>>
  BY DEF Persist
<1>1. CASE /\ stored' = stored \cup {monitor.held} /\ Fine
           /\ monitor' = [monitor EXCEPT !.pc = "announce"]
  <2>1. /\ monitor' \in [pc : Stages, held : SUBSET offered', why : {"none", "threshold", "asked", "own"},
                         attempt : Nat]
        /\ monitor'.pc = "announce" /\ monitor'.held = monitor.held
    BY <1>0, <1>1 DEF Flow, Types, Stages
  <2>2. Types' /\ Holding' /\ Apart'
    BY <1>0, <1>1, <2>1 DEF Flow, Types, Holding, Apart, Fine
  <2>3. SamplesKept' /\ AnnouncedOnce'
    BY <1>0, <1>1, <2>1 DEF Flow, SamplesKept, AnnouncedOnce, Fine
  <2>. QED
    BY <2>2, <2>3 DEF Flow
<1>2. CASE Fault /\ End
  <2>1. /\ faults' \in Nat /\ faults' # 0
    BY <1>2, FaultFine DEF Flow
  <2>2. monitor'.pc = "ended" /\ monitor'.held = {}
        /\ monitor' \in [pc : Stages, held : SUBSET offered', why : {"none", "threshold", "asked", "own"},
                         attempt : Nat]
    BY <1>2, AtFields DEF End, Stages
  <2>3. Types' /\ Holding' /\ Apart'
    BY <1>0, <2>1, <2>2 DEF Flow, Types, Holding, Apart
  <2>4. SamplesKept' /\ AnnouncedOnce'
    BY <1>0, <2>1, <2>2 DEF Flow, SamplesKept, AnnouncedOnce
  <2>. QED
    BY <2>3, <2>4 DEF Flow
<1>. QED
  BY <1>1, <1>2 DEF Persist

LEMMA AnnounceFlow ==
  ASSUME Flow, Announce
  PROVE  Flow'
<1>0. /\ monitor.pc = "announce" /\ monitor.held \in stored
      /\ UNCHANGED <<buffer, offered, stored, callback>>
      /\ \/ rounds' = rounds \cup {[samples |-> monitor.held, why |-> monitor.why]} /\ Fine /\ NextStage
         \/ rounds' = rounds /\ Fault /\ End
  BY DEF Announce, Flow, Holding
<1>1. monitor.held \subseteq UNION stored
  BY <1>0
<1>2. \E pc \in Stages \ {"persist", "announce", "restore"} : monitor' = At(pc)
  BY <1>0, NextStageIs DEF End, Stages
<1>3. faults' \in Nat /\ (faults' = 0 => faults = 0)
  BY <1>0, FaultFine DEF Flow
<1>. QED
  BY <1>0, <1>1, <1>2, <1>3, LetGo

LEMMA CallBackFlow ==
  ASSUME Flow, CallBack
  PROVE  Flow'
<1>0. /\ monitor.pc = "announce" /\ monitor.held \in stored /\ callback
      /\ UNCHANGED <<buffer, offered, stored, callback, faults>>
  BY DEF CallBack, Flow, Holding, Fine
<1>1. CASE rounds' = rounds \cup {[samples |-> monitor.held, why |-> monitor.why]} /\ NextStage
  <2>1. monitor.held \subseteq UNION stored /\ faults \in Nat
    BY <1>0 DEF Flow, Types
  <2>. QED
    BY <1>0, <1>1, <2>1, NextStageIs, LetGo
<1>2. CASE /\ rounds' = rounds
           /\ \/ monitor' = [monitor EXCEPT !.pc = "persist", !.attempt = @ + 1]
              \/ monitor' = [monitor EXCEPT !.pc = "restore"]
  <2>1. /\ monitor' \in [pc : Stages, held : SUBSET offered', why : {"none", "threshold", "asked", "own"},
                         attempt : Nat]
        /\ monitor'.pc \in {"persist", "restore"} /\ monitor'.held = monitor.held
    <3>1. CASE monitor' = [monitor EXCEPT !.pc = "persist", !.attempt = @ + 1]
      <4>1. /\ monitor.attempt + 1 \in Nat /\ monitor.held \subseteq offered
            /\ monitor.why \in {"none", "threshold", "asked", "own"}
        BY DEF Flow, Types
      <4>2. monitor' = [pc |-> "persist", held |-> monitor.held, why |-> monitor.why,
                        attempt |-> monitor.attempt + 1]
        BY <3>1 DEF Flow, Types
      <4>. QED
        BY <1>0, <4>1, <4>2 DEF Stages
    <3>2. CASE monitor' = [monitor EXCEPT !.pc = "restore"]
      BY <1>0, <3>2 DEF Flow, Types, Stages
    <3>. QED
      BY <1>2, <3>1, <3>2
  <2>2. Types' /\ Holding' /\ Apart'
    BY <1>0, <1>2, <2>1 DEF Flow, Types, Holding, Apart
  <2>3. SamplesKept' /\ AnnouncedOnce'
    BY <1>0, <1>2, <2>1 DEF Flow, SamplesKept, AnnouncedOnce
  <2>. QED
    BY <2>2, <2>3 DEF Flow
<1>. QED
  BY <1>1, <1>2 DEF CallBack

LEMMA RestoreFlow ==
  ASSUME Flow, Restore
  PROVE  Flow'
<1>0. monitor.pc = "restore" /\ UNCHANGED <<offered, rounds, stored, callback>>
  BY DEF Restore
<1>1. ASSUME NEW s \in monitor.held, buffer' = buffer \cup {s}, Fine,
             monitor' = [monitor EXCEPT !.held = @ \ {s}]
      PROVE  Flow'
  <2>1. /\ monitor' \in [pc : Stages, held : SUBSET offered', why : {"none", "threshold", "asked", "own"},
                         attempt : Nat]
        /\ monitor'.pc = "restore" /\ monitor'.held = monitor.held \ {s}
    BY <1>0, <1>1 DEF Flow, Types, Stages
  <2>2. Types' /\ Holding' /\ Apart'
    BY <1>0, <1>1, <2>1 DEF Flow, Types, Holding, Apart, Fine
  <2>3. SamplesKept' /\ AnnouncedOnce'
    BY <1>0, <1>1, <2>1 DEF Flow, SamplesKept, AnnouncedOnce, Fine
  <2>. QED
    BY <2>2, <2>3 DEF Flow
<1>2. CASE monitor.held = {} /\ Fine /\ End /\ UNCHANGED buffer
  BY <1>0, <1>2, FaultFine, LetGo DEF Flow, End, Stages
<1>3. CASE Fault /\ End /\ UNCHANGED buffer
  BY <1>0, <1>3, FaultFine, LetGo DEF Flow, End, Stages
<1>. QED
  BY <1>1, <1>2, <1>3 DEF Restore

LEMMA RestartFlow ==
  ASSUME Flow, RestartMonitor
  PROVE  Flow'
<1>1. /\ monitor' = At("poll") /\ Fault
      /\ UNCHANGED <<buffer, offered, rounds, stored, callback>>
  BY DEF RestartMonitor
<1>. QED
  BY <1>1, FaultFine, LetGo DEF Flow, Stages

\* Steps between two rounds.
LEMMA IdleFlow ==
  ASSUME Flow, monitor.pc \in {"poll", "listen", "models"},
         UNCHANGED <<buffer, offered, rounds, stored, callback>>, Fault \/ Fine,
         \/ monitor' \in {At("poll"), At("listen"), At("models")}
         \/ \E w \in {"threshold", "asked", "own"} : monitor' = [At("clear") EXCEPT !.why = w]
  PROVE  Flow'
<1>1. monitor.held = {}
  BY DEF Flow, Holding
<1>2. faults' \in Nat /\ (faults' = 0 => faults = 0)
  BY FaultFine DEF Flow
<1>3. {"poll", "listen", "models", "clear"} \subseteq Stages \ {"persist", "announce", "restore"}
  BY DEF Stages
<1>. QED
  BY <1>1, <1>2, <1>3, LetGo

LEMMA OtherFlow ==
  ASSUME Flow, UNCHANGED <<buffer, offered, rounds, stored, callback, monitor>>, Fault \/ Fine
  PROVE  Flow'
<1>1. faults' \in Nat /\ (faults' = 0 => faults = 0)
  BY FaultFine DEF Flow
<1>. QED
  BY <1>1 DEF Flow, Types, Holding, Apart, SamplesKept, AnnouncedOnce

LEMMA NextFlow == Flow /\ [MonitorNext]_monitorVars => Flow'
<1> SUFFICES ASSUME Flow, [MonitorNext]_monitorVars PROVE Flow'
  OBVIOUS
<1>1. CASE Poll
  BY <1>1, IdleFlow DEF Poll, flow, Fine
<1>2. CASE Listen
  BY <1>2, IdleFlow DEF Listen, Fine
<1>3. CASE NoModelReady
  BY <1>3, IdleFlow DEF NoModelReady, flow, Fine
<1>4. ASSUME NEW m \in Model, HandleModelReady(m) PROVE Flow'
  BY <1>4, IdleFlow DEF HandleModelReady, flow
<1>5. CASE GetAndClear \/ Persist \/ Announce \/ CallBack \/ Restore
  BY <1>5, ClearFlow, PersistFlow, AnnounceFlow, CallBackFlow, RestoreFlow
<1>6. CASE Ask \/ EdgeTrains
  BY <1>6, OtherFlow DEF Ask, EdgeTrains, Fine
<1>7. ASSUME NEW m \in Model, AnnounceModel(m) \/ ExpireMeta(m) PROVE Flow'
  BY <1>7, OtherFlow DEF AnnounceModel, ExpireMeta, flow, Fine
<1>8. CASE RestartMonitor
  BY <1>8, RestartFlow
<1>9. ASSUME NEW s \in Sample, Push(s) PROVE Flow'
  BY <1>9, PushFlow
<1>10. CASE UNCHANGED monitorVars
  BY <1>10, OtherFlow DEF monitorVars, flow, Fine
<1>. QED
  BY <1>1, <1>2, <1>3, <1>4, <1>5, <1>6, <1>7, <1>8, <1>9, <1>10 DEF MonitorNext, MonitorStep

\* get_and_clear, _persist_round_samples, _restore_samples: however often the
\* callback fails, no sample is lost while Redis answers; and whatever fails, none
\* is announced in two rounds, nor offered again after its round.
THEOREM RoundsShareNothing == MonitorSpec => []SamplesGoOnce
<1>1. Flow => SamplesGoOnce
  BY DEF Flow, SamplesGoOnce
<1>. QED
  BY <1>1, InitFlow, NextFlow, PTL DEF MonitorSpec

-----------------------------------------------------------------------------
(* Models. *)

LEMMA NeverWorst == Worst \notin Quality
  BY MonitorAssumption DEF Worst

LEMMA InitRecorded == MonitorInit => Recorded
  BY DEF MonitorInit, Recorded

LEMMA AnnounceRecorded ==
  ASSUME Recorded, NEW m \in Model, AnnounceModel(m)
  PROVE  Recorded'
<1>1. PICK q \in Quality : measured' = [measured EXCEPT ![m] = q]
  BY DEF AnnounceModel
<1>2. measured[m] = Worst /\ ready' = ready \cup {m} /\ UNCHANGED <<pointer, meta>>
  BY DEF AnnounceModel
<1>3. measured' \in [Model -> Quality \cup {Worst}] /\ measured'[m] = q /\ meta[m] = {}
      /\ \A n \in Model \ {m} : measured'[n] = measured[n]
  BY <1>1, <1>2 DEF Recorded
<1>. QED
  BY <1>2, <1>3 DEF Recorded

LEMMA ReadyRecorded ==
  ASSUME Recorded, NEW m \in Model, HandleModelReady(m)
  PROVE  Recorded'
<1>1. /\ m \in ready /\ ready' = ready \ {m} /\ measured' = measured
      /\ meta' \in {meta, [meta EXCEPT ![m] = {measured[m]}]}
      /\ pointer' \in {pointer, m}
  BY DEF HandleModelReady
<1>2. measured[m] \in Quality /\ measured[m] # Worst
  BY <1>1, NeverWorst DEF Recorded
<1>3. /\ meta' \in [Model -> SUBSET (Quality \cup {Worst})]
      /\ \A n \in Model : meta'[n] \subseteq {measured[n]} /\ (measured[n] = Worst => meta'[n] = {})
  BY <1>1, <1>2 DEF Recorded
<1>. QED
  BY <1>1, <1>3 DEF Recorded

LEMMA NextRecorded == Recorded /\ [MonitorNext]_monitorVars => Recorded'
<1> SUFFICES ASSUME Recorded, [MonitorNext]_monitorVars PROVE Recorded'
  OBVIOUS
<1>1. ASSUME NEW m \in Model, AnnounceModel(m) \/ HandleModelReady(m) PROVE Recorded'
  BY <1>1, AnnounceRecorded, ReadyRecorded
<1>2. ASSUME NEW m \in Model, ExpireMeta(m) PROVE Recorded'
  BY <1>2 DEF ExpireMeta, Recorded
<1>3. CASE UNCHANGED models
  BY <1>3 DEF models, Recorded
<1>4. Poll \/ Listen \/ GetAndClear \/ Persist \/ Announce \/ CallBack \/ Restore \/ NoModelReady
        => UNCHANGED models
  BY DEF Poll, Listen, GetAndClear, Persist, Announce, CallBack, Restore, NoModelReady
<1>5. Ask \/ EdgeTrains \/ RestartMonitor \/ (\E s \in Sample : Push(s)) => UNCHANGED models
  BY DEF Ask, EdgeTrains, RestartMonitor, Push
<1>6. UNCHANGED monitorVars => UNCHANGED models
  BY DEF monitorVars
<1>. QED
  BY <1>1, <1>2, <1>3, <1>4, <1>5, <1>6 DEF MonitorNext, MonitorStep

LEMMA OnlyHandleModelReady ==
  ASSUME [MonitorNext]_monitorVars, pointer' # pointer
  PROVE  \E m \in Model : HandleModelReady(m)
<1>1. Poll \/ Listen \/ GetAndClear \/ Persist \/ Announce \/ CallBack \/ Restore \/ NoModelReady
        => UNCHANGED models
  BY DEF Poll, Listen, GetAndClear, Persist, Announce, CallBack, Restore, NoModelReady
<1>2. Ask \/ EdgeTrains \/ RestartMonitor \/ (\E s \in Sample : Push(s)) => UNCHANGED models
  BY DEF Ask, EdgeTrains, RestartMonitor, Push
<1>3. UNCHANGED monitorVars => UNCHANGED models
  BY DEF monitorVars
<1>4. \A m \in Model : AnnounceModel(m) \/ ExpireMeta(m) => pointer' = pointer
  BY DEF AnnounceModel, ExpireMeta
<1>5. UNCHANGED models => pointer' = pointer
  BY DEF models
<1>. QED
  BY <1>1, <1>2, <1>3, <1>4, <1>5 DEF MonitorNext, MonitorStep

\* _handle_model_ready: while the registry has the record of the production model,
\* only a candidate with no worse metric replaces it.
THEOREM NoRegression == MonitorSpec => PromotionGuarded
<1> DEFINE NotWorse ==
      pointer' # pointer /\ pointer # NoModel /\ meta[pointer] # {} =>
        ~(measured[pointer'].accuracy < measured[pointer].accuracy
          \/ measured[pointer'].ece > measured[pointer].ece)
<1>1. Recorded /\ [MonitorNext]_monitorVars => NotWorse
  <2> SUFFICES ASSUME Recorded, [MonitorNext]_monitorVars,
                      pointer' # pointer, pointer # NoModel, meta[pointer] # {}
               PROVE  ~Regressed(measured[pointer'], measured[pointer])
    BY DEF Regressed
  <2>1. PICK m \in Model : HandleModelReady(m)
    BY OnlyHandleModelReady
  <2>2. pointer' = m /\ ~Regressed(measured[m], Previous)
    BY <2>1 DEF HandleModelReady
  <2>3. pointer \in Model /\ meta[pointer] = {measured[pointer]}
    BY DEF Recorded
  <2>4. Previous = measured[pointer]
    BY <2>3 DEF Previous
  <2>. QED
    BY <2>2, <2>4
<1>. QED
  BY <1>1, InitRecorded, NextRecorded, PTL DEF MonitorSpec, PromotionGuarded

\* What a monitor may hold, and what its subscriber may still have to read: no more
\* triggers of others than they have sent.
Offers ==
  /\ offered \subseteq Sample /\ trained \cup active \subseteq offered /\ stored \subseteq SUBSET offered
  /\ monitor.attempt \in 1..MaxRetries
  /\ asked \in 0..MaxAsked /\ inbox \in [asked : 0..asked, own : Nat]
  /\ callback \in BOOLEAN /\ faults \in 0..MaxFaults

LEMMA NextOffers ==
  ASSUME Flow, Offers, [MonitorNext]_monitorVars
  PROVE  Offers'
<1>0. /\ MaxRetries \in Nat \ {0} /\ MaxAsked \in Nat /\ MaxFaults \in Nat
      /\ inbox.asked \in 0..asked /\ inbox.own \in Nat /\ asked \in 0..MaxAsked
      /\ monitor.held \subseteq offered /\ monitor.attempt \in 1..MaxRetries
      /\ faults \in 0..MaxFaults
  BY MonitorAssumption, FaultsAssumption DEF Offers, Flow, Types
<1>1. \A pc \in STRING : At(pc).attempt \in 1..MaxRetries
  BY <1>0 DEF At
<1>2. faults' = faults \/ Fault => faults' \in 0..MaxFaults
  BY <1>0 DEF Fault
<1>3. ASSUME UNCHANGED <<flow, callback>>, faults' = faults \/ Fault, monitor'.attempt \in 1..MaxRetries
      PROVE  Offers'
  BY <1>2, <1>3 DEF flow, Offers
<1>4. CASE Poll \/ NoModelReady \/ (\E m \in Model : HandleModelReady(m)) \/ UNCHANGED monitorVars
           \/ (\E m \in Model : AnnounceModel(m) \/ ExpireMeta(m))
  <2>1. UNCHANGED <<flow, callback>> /\ (faults' = faults \/ Fault)
    BY <1>4 DEF Poll, NoModelReady, HandleModelReady, AnnounceModel, ExpireMeta, monitorVars, Fine
  <2>2. monitor'.attempt \in 1..MaxRetries
    BY <1>0, <1>4 DEF Poll, NoModelReady, HandleModelReady, AnnounceModel, ExpireMeta, monitorVars, At
  <2> QED BY <1>3, <2>1, <2>2
<1>5. ASSUME NEW s \in Sample, Push(s) PROVE Offers'
  BY <1>5 DEF Push, Offers
<1>6. CASE Ask
  <2>1. asked' \in 0..MaxAsked /\ asked' = asked + 1
    BY <1>0, <1>6 DEF Ask
  <2>2. inbox' \in [asked : 0..asked', own : Nat]
    BY <1>0, <1>6, <2>1 DEF Ask, Offers
  <2> QED BY <1>6, <2>1, <2>2 DEF Ask, Offers
<1>7. CASE Listen
  <2>1. inbox' \in [asked : 0..asked, own : Nat]
    <3>1. ASSUME NEW who \in {"asked", "own"}, inbox[who] > 0, inbox' = [inbox EXCEPT ![who] = @ - 1]
          PROVE  inbox' \in [asked : 0..asked, own : Nat]
      BY <1>0, <3>1 DEF Offers
    <3>2. UNCHANGED inbox => inbox' \in [asked : 0..asked, own : Nat]
      BY DEF Offers
    <3> QED BY <1>7, <3>1, <3>2 DEF Listen
  <2>2. monitor'.attempt = 1
    BY <1>7 DEF Listen, At
  <2> QED BY <1>0, <1>7, <2>1, <2>2 DEF Listen, Offers
<1>8. CASE GetAndClear
  <2>1. monitor'.attempt \in 1..MaxRetries
    <3>1. [monitor EXCEPT !.pc = "persist", !.held = buffer].attempt = monitor.attempt
      BY DEF Flow, Types
    <3>2. NextStage \/ End => monitor'.attempt = 1
      BY DEF NextStage, End, At
    <3>3. \/ NextStage \/ End \/ monitor' = [monitor EXCEPT !.pc = "persist", !.held = buffer]
      BY <1>8 DEF GetAndClear
    <3>4. monitor'.attempt \in {1, monitor.attempt}
      BY <3>1, <3>2, <3>3
    <3> QED BY <1>0, <3>4
  <2> QED BY <1>2, <1>8, <2>1 DEF GetAndClear, Fine, Offers
<1>9. CASE Persist
  <2>1. monitor'.attempt \in 1..MaxRetries
    BY <1>0, <1>9 DEF Persist, End, At, Flow, Types
  <2>2. stored' \subseteq SUBSET offered /\ active' \subseteq offered
    BY <1>0, <1>9 DEF Persist, Offers
  <2> QED BY <1>2, <1>9, <2>1, <2>2 DEF Persist, Fine, Offers
<1>10. CASE Announce
  <2>1. monitor'.attempt \in 1..MaxRetries
    BY <1>0, <1>10 DEF Announce, NextStage, End, At
  <2>2. inbox' \in [asked : 0..asked, own : Nat]
    BY <1>0, <1>10 DEF Announce, Offers
  <2> QED BY <1>2, <1>10, <2>1, <2>2 DEF Announce, Fine, Offers
<1>11. CASE CallBack
  <2>1. monitor'.attempt \in 1..MaxRetries
    <3>1. monitor.attempt < MaxRetries => monitor.attempt + 1 \in 1..MaxRetries
      BY <1>0
    <3>2. CASE NextStage
      BY <1>0, <3>2 DEF NextStage, At
    <3>3. CASE monitor' = [monitor EXCEPT !.pc = "restore"]
      BY <1>0, <3>3 DEF Flow, Types
    <3>4. CASE monitor' = [monitor EXCEPT !.pc = "persist", !.attempt = @ + 1] /\ monitor.attempt < MaxRetries
      BY <1>0, <3>1, <3>4 DEF Flow, Types
    <3> QED BY <1>11, <3>2, <3>3, <3>4 DEF CallBack
  <2> QED BY <1>2, <1>11, <2>1 DEF CallBack, Fine, Offers
<1>12. CASE Restore
  <2>1. monitor'.attempt \in 1..MaxRetries
    BY <1>0, <1>12 DEF Restore, End, At, Flow, Types
  <2> QED BY <1>2, <1>12, <2>1 DEF Restore, Fine, Offers
<1>13. CASE EdgeTrains
  BY <1>13 DEF EdgeTrains, Offers
<1>14. CASE RestartMonitor
  BY <1>0, <1>2, <1>14 DEF RestartMonitor, At, Offers
<1> QED BY <1>4, <1>5, <1>6, <1>7, <1>8, <1>9, <1>10, <1>11, <1>12, <1>13, <1>14 DEF MonitorNext, MonitorStep

\* Type correctness of the monitor: it never tries oftener than max_retries, every
\* stored round and everything trained on was offered, and what the registry knows of
\* a model is what it was announced with.
THEOREM MonitorTypeCorrect == MonitorSpec => []MonitorTypeOK
<1>1. MonitorInit => Offers
  BY MonitorAssumption, FaultsAssumption DEF MonitorInit, Offers, At
<1>2. Flow /\ Recorded /\ Offers => MonitorTypeOK
  <2> SUFFICES ASSUME Flow, Recorded, Offers PROVE MonitorTypeOK
    OBVIOUS
  <2>1. inbox \in [asked : 0..MaxAsked, own : Nat]
    BY MonitorAssumption DEF Offers
  <2> QED BY <2>1 DEF Flow, Types, Recorded, Offers, MonitorTypeOK
<1>3. Flow /\ Offers /\ [MonitorNext]_monitorVars => Offers'
  BY NextOffers
<1> QED BY <1>1, <1>2, <1>3, InitFlow, NextFlow, InitRecorded, NextRecorded, PTL DEF MonitorSpec

-----------------------------------------------------------------------------
(***************************************************************************)
(* SentinelEnv. EnvInv says which sample the present state was made of:    *)
(* the one the next step will judge by, or none, when the history is used  *)
(* up or was empty at the start (source). The index and the count of steps *)
(* move together, which is why the state read for the next step is the one *)
(* it judges.                                                              *)
(***************************************************************************)

PastSample == [state : {{}} \cup {{f} : f \in Feature}, label : Label]
Samples == UNION {[1..n -> PastSample] : n \in Nat}

Amounts ==
  /\ last.breakdown \in [base : Int, queue : Int, idle : Int, budget : Int]
  /\ last.reward = last.breakdown.base + last.breakdown.queue + last.breakdown.idle + last.breakdown.budget

\* The state is that of the sample the next step will judge by, or of no sample.
EnvInv ==
  /\ samples \in Samples /\ here \in State /\ index \in Nat
  /\ index = stepCount
  /\ source = 0 \/ (source = index + 1 /\ source <= Len(samples))
  /\ JudgedInItsState

LEMMA SamplesAre ==
  ASSUME NEW s \in Samples
  PROVE  /\ Len(s) \in Nat /\ DOMAIN s = 1..Len(s)
         /\ s = <<>> <=> Len(s) = 0
         /\ \A i \in 1..Len(s) : s[i] \in PastSample
<1>1. PICK n \in Nat : s \in [1..n -> PastSample]
  BY DEF Samples
<1>2. Len(s) = n /\ s \in Seq(PastSample)
  BY <1>1
<1> QED BY <1>1, <1>2

LEMMA StateAtIs ==
  ASSUME samples \in Samples, NEW i
  PROVE  StateAt(i) # {} => i \in 1..Len(samples) /\ StateAt(i) \subseteq State
                            /\ (CHOOSE s \in StateAt(i) : TRUE) \in State
  BY SamplesAre, EnvAssumption DEF StateAt, PastSample

\* What the two computations of a reward have in common.
LEMMA BaseIs == ASSUME NEW action, NEW b \in BOOLEAN PROVE Base(action, b) \in Int
  BY DEF Base

LEMMA RatioIs == \A n \in Ratio : n \in Nat /\ n <= 1000
  BY DEF Ratio

LEMMA RewardsAgree ==
  ASSUME here \in State, NEW action \in 0..2, NEW b \in BOOLEAN
  PROVE  /\ Breakdown(action, b) \in [base : Int, queue : Int, idle : Int, budget : Int]
         /\ ComputeReward(action, b)
              = Breakdown(action, b).base + Breakdown(action, b).queue
                + Breakdown(action, b).idle + Breakdown(action, b).budget
<1>1. here.queue \in Nat /\ here.capacity \in Int /\ here.capacity <= 1000
  <2>1. here.queue \in Ratio /\ here.capacity \in Ratio
    BY DEF State
  <2> QED BY <2>1, RatioIs
<1>2. Idle(action) \in Int /\ Idle(action) >= 0
  BY <1>1 DEF Idle
<1>3. RoundTriggered(action) \in BOOLEAN
  BY DEF RoundTriggered
<1>4. Depth \in Int /\ Depth >= 0
  BY <1>1 DEF Depth
<1>5. QueuePenalty \in Int /\ (Depth = 0 => QueuePenalty = 0)
  BY <1>4 DEF QueuePenalty
<1> QED BY <1>2, <1>3, <1>4, <1>5, BaseIs DEF Breakdown, ComputeReward

LEMMA CappedIs == ASSUME NEW n \in Int PROVE Capped(n) \in Ratio
  BY DEF Capped, Ratio

LEMMA ContinuedIs ==
  ASSUME here \in State, NEW action \in 0..2, NEW b \in BOOLEAN
  PROVE  Continued(action, b) \in State
<1> DEFINE queue == CASE action = 1 -> Depth - 80 [] action = 2 -> Depth - 120 [] OTHER -> Depth + 20
           budget == Capped(IF action = 2 THEN here.budget - 20 ELSE here.budget)
                       - (IF RoundTriggered(action) THEN 100 ELSE 0)
           capacity == CASE action # 0 /\ ~b -> Capped(here.capacity - 50)
                         [] action = 1 /\ b -> Capped(here.capacity + 10)
                         [] OTHER -> here.capacity
<1>1. here.queue \in Int /\ here.capacity \in Int /\ here.budget \in Int
  <2>1. here.queue \in Ratio /\ here.capacity \in Ratio /\ here.budget \in Ratio
    BY DEF State
  <2> QED BY <2>1, RatioIs
<1>2. Depth \in Int
  BY <1>1 DEF Depth
<1>3. queue \in Int
  BY <1>2
<1>4. (IF action = 2 THEN here.budget - 20 ELSE here.budget) \in Int
  BY <1>1
<1>5. Capped(IF action = 2 THEN here.budget - 20 ELSE here.budget) \in Int
  BY <1>4, CappedIs, RatioIs
<1>6. budget \in Int
  BY <1>5
<1>7. capacity \in Ratio
  <2>1. here.capacity \in Ratio
    BY DEF State
  <2>2. Capped(here.capacity - 50) \in Ratio /\ Capped(here.capacity + 10) \in Ratio
    BY <1>1, CappedIs
  <2> QED BY <2>1, <2>2
<1>8. \A q \in Ratio, c \in Ratio, d \in Ratio :
        [here EXCEPT !.queue = q, !.budget = c, !.capacity = d] \in State
  BY DEF State
<1>9. Continued(action, b) = [here EXCEPT !.queue = Capped(queue), !.budget = Capped(budget), !.capacity = capacity]
  BY DEF Continued
<1> HIDE DEF queue, budget, capacity
<1>10. PICK q \in Ratio, c \in Ratio : q = Capped(queue) /\ c = Capped(budget)
  BY <1>3, <1>6, CappedIs
<1>11. Continued(action, b) = [here EXCEPT !.queue = q, !.budget = c, !.capacity = capacity]
  BY <1>9, <1>10, Zenon
<1>12. [here EXCEPT !.queue = q, !.budget = c, !.capacity = capacity] \in State
  BY <1>7, <1>8, <1>10
<1> QED BY <1>11, <1>12

LEMMA NextStateIs ==
  ASSUME EnvInv, NEW i, NEW s \in State
  PROVE  (IF StateAt(i) = {} THEN s ELSE CHOOSE t \in StateAt(i) : TRUE) \in State
  BY StateAtIs DEF EnvInv

LEMMA StepInv ==
  ASSUME EnvInv, NEW action \in 0..2, Step(action)
  PROVE  EnvInv'
<1> DEFINE next == StateAt(NextIndex)
<1>1. samples \in Samples /\ here \in State /\ index \in Nat /\ index = stepCount
  BY DEF EnvInv
<1>2. Len(samples) \in Nat /\ (samples = <<>> <=> Len(samples) = 0)
  BY <1>1, SamplesAre
<1>3. Infringing \in BOOLEAN
  <2>1. HeuristicInfringing(here) \in BOOLEAN
    BY DEF HeuristicInfringing
  <2>2. (samples[SampleIndex].label = "infringing") \in BOOLEAN
    OBVIOUS
  <2> QED BY <2>1, <2>2, Zenon DEF Infringing
<1>4. here' \in State
  <2>1. Continued(action, Infringing) \in State
    BY <1>1, <1>3, ContinuedIs
  <2>2. here' = IF next = {} THEN Continued(action, Infringing) ELSE CHOOSE s \in next : TRUE
    BY DEF Step
  <2> QED BY <2>1, <2>2, NextStateIs
<1>5. samples' \in Samples /\ index' \in Nat /\ index' = stepCount' /\ index' = index + 1 /\ samples' = samples
  BY <1>1 DEF Step
<1>6. source' = 0 \/ (source' = index' + 1 /\ source' <= Len(samples'))
  <2>1. source' = IF next = {} THEN 0 ELSE NextIndex
    BY DEF Step
  <2>2. next # {} => NextIndex \in 1..Len(samples)
    BY <1>1, StateAtIs
  <2> HIDE DEF next
  <2> QED BY <1>1, <1>2, <1>5, <2>1, <2>2 DEF NextIndex
<1>7. JudgedInItsState'
  <2>1. /\ last'.judged = (IF samples = <<>> THEN 0 ELSE SampleIndex) /\ last'.seen = source
        /\ last'.infringing = Infringing
        /\ last'.reward = ComputeReward(action, Infringing) /\ last'.breakdown = Breakdown(action, Infringing)
    BY DEF Step
  <2>2. source # 0 => last'.judged = source
    BY <1>1, <1>2, <2>1 DEF EnvInv, SampleIndex
  <2>3. last'.judged # 0 /\ samples[last'.judged].label # "unknown"
          => (last'.infringing <=> samples[last'.judged].label = "infringing")
    BY <2>1 DEF Infringing
  <2>4. last'.reward = last'.breakdown.base + last'.breakdown.queue + last'.breakdown.idle + last'.breakdown.budget
    BY <1>1, <1>3, <2>1, RewardsAgree
  <2> QED BY <1>5, <2>1, <2>2, <2>3, <2>4 DEF JudgedInItsState
<1> QED BY <1>4, <1>5, <1>6, <1>7 DEF EnvInv

LEMMA ResetInv ==
  ASSUME EnvInv, Reset
  PROVE  EnvInv'
<1>1. samples \in Samples /\ Len(samples) \in Nat /\ samples' = samples /\ index' = 0 /\ stepCount' = 0
  BY SamplesAre DEF EnvInv, Reset
<1>2. Initial \in State
  BY EnvAssumption
<1>3. here' \in State
  BY <1>2, NextStateIs DEF Reset, StartState
<1>4. source' = 0 \/ (source' = 1 /\ 1 <= Len(samples))
  BY <1>1, StateAtIs DEF Reset, StartSource
<1>5. JudgedInItsState'
  BY DEF Reset, JudgedInItsState
<1> QED BY <1>1, <1>3, <1>4, <1>5 DEF EnvInv

LEMMA EnvInvariant == EnvSpec => []EnvInv
<1>1. EnvInit => EnvInv
  BY EnvAssumption, SamplesAre DEF EnvInit, EnvInv, JudgedInItsState, Samples, PastSample
<1>2. EnvInv /\ [EnvNext]_envVars => EnvInv'
  <2> SUFFICES ASSUME EnvInv, [EnvNext]_envVars PROVE EnvInv'
    OBVIOUS
  <2>1. CASE UNCHANGED envVars
    BY <2>1 DEF envVars, EnvInv, JudgedInItsState
  <2> QED BY <2>1, StepInv, ResetInv DEF EnvNext
<1> QED BY <1>1, <1>2, PTL DEF EnvSpec

\* The sample an action is judged by is the one its state was read from: the index
\* the next state is read at runs one ahead of the one that judges, through every
\* episode, until the history is used up; and the reward's two computations add the
\* same amounts, whatever state they start in.
THEOREM ActionsJudgedFairly == EnvSpec => []JudgedInItsState
<1>1. EnvInv => JudgedInItsState
  BY DEF EnvInv
<1> QED BY <1>1, EnvInvariant, PTL

\* Type correctness of the environment: every feature of every state stays a share.
THEOREM EnvTypeCorrect == EnvSpec => []EnvTypeOK
<1>1. EnvInv => EnvTypeOK
  BY SamplesAre DEF EnvInv, EnvTypeOK
<1> QED BY <1>1, EnvInvariant, PTL

-----------------------------------------------------------------------------
(***************************************************************************)
(* ExperienceBuffer. ReplayInv says that the two lists hold the last       *)
(* episodes in step, and what a call may still conclude from what it has   *)
(* read: the list is at least as long as it was, and episodes have only    *)
(* moved towards its head (Reading). So a place drawn from the recent      *)
(* window holds an episode of the window or a newer one when it is         *)
(* fetched.  Drifted says by how much: a place still to be fetched has     *)
(* lost at most what was trimmed since its weight was read.                *)
(***************************************************************************)

Episode == [number : Nat, abs_return : Return]

\* The list holds the last episodes, one after the other.
Lists ==
  /\ episodes \in Seq(Episode) /\ weights \in Seq(Return) /\ added \in Nat
  /\ Len(weights) = Len(episodes) /\ Len(episodes) <= Capacity /\ Len(episodes) <= added
  /\ \A i \in 1..Len(episodes) : /\ episodes[i].number = added - Len(episodes) + i
                                 /\ weights[i] = episodes[i].abs_return

\* What a call has read, when there are n episodes after the first k.
Call == [pc : {"recent", "full", "fetch", "returned"}, size : Nat, start : Nat, oldest : Nat,
         recent : Seq(Return), trimmed : Nat, want : Seq(Nat), named : Seq(Nat), got : Seq(Nat)]

Recent(s) == (s.size * 9) \div 10

Begun(s, n, k) ==
  s \in Call /\ s.size \in 1..n /\ s.start < n /\ s.oldest <= k + s.start + 1

Fetching(s, n) ==
  /\ s.want # <<>> /\ Len(s.got) + Len(s.want) = s.size
  /\ \A i \in 1..Len(s.want) : /\ s.want[i] \in 1..n
                               /\ Len(s.got) + i <= Recent(s) => s.want[i] > s.start

NoneOlder(s) == \A i \in 1..Len(s.got) : i <= Recent(s) => s.got[i] >= s.oldest

Reading(s, n, k) ==
  \/ s.pc \in {"none", "raised"}
  \/ /\ Begun(s, n, k)
     /\ s.pc = "recent" => s.got = <<>>
     /\ s.pc = "full" => s.start + Len(s.recent) <= n /\ s.got = <<>>
     /\ s.pc = "fetch" => Fetching(s, n) /\ NoneOlder(s)
     /\ s.pc = "returned" => Len(s.got) = s.size /\ NoneOlder(s)

ReplayInv == Lists /\ Reading(sampler, Len(episodes), added - Len(episodes))

-----------------------------------------------------------------------------

LEMMA NineTenths == ASSUME NEW n \in Nat PROVE (n * 9) \div 10 \in 0..n
  OBVIOUS

LEMMA HeadAndTail ==
  ASSUME NEW S, NEW s \in Seq(S), s # <<>>
  PROVE  /\ Head(s) = s[1] /\ 1 \in 1..Len(s) /\ Len(s) \in Nat \ {0}
         /\ Tail(s) \in Seq(S) /\ Len(Tail(s)) = Len(s) - 1
         /\ \A j \in 1..(Len(s) - 1) : Tail(s)[j] = s[j + 1]
         /\ Len(s) # 1 => Tail(s) # <<>>
<1>1. Len(s) \in Nat \ {0} /\ Head(s) = s[1]
  OBVIOUS
<1>2. Tail(s) \in Seq(S) /\ Len(Tail(s)) = Len(s) - 1 /\ \A j \in 1..Len(Tail(s)) : Tail(s)[j] = s[j + 1]
  BY HeadTailProperties
<1>3. Tail(s) = <<>> => Len(Tail(s)) = 0
  <2>1. Len(<<>>) = 0
    OBVIOUS
  <2> HIDE <1>1, <1>2
  <2> QED BY <2>1
<1> QED BY <1>1, <1>2, <1>3

\* Trimming keeps the last Capacity of a list.
LEMMA TrimKeepsLast ==
  ASSUME NEW S, NEW s \in Seq(S)
  PROVE  /\ Trim(s) \in Seq(S) /\ Len(Trim(s)) = (IF Len(s) > Capacity THEN Capacity ELSE Len(s))
         /\ \A i \in 1..Len(Trim(s)) :
              i + Len(s) - Len(Trim(s)) \in 1..Len(s) /\ Trim(s)[i] = s[i + Len(s) - Len(Trim(s))]
<1>1. Capacity \in Nat \ {0} /\ Len(s) \in Nat
  BY ReplayAssumption
<1> DEFINE m == IF Len(s) > Capacity THEN Len(s) - Capacity + 1 ELSE 1
<1>2. m \in 1..(Len(s) + 1) /\ Trim(s) = SubSeq(s, m, Len(s))
  BY <1>1 DEF Trim
<1> HIDE DEF m
<1>3. /\ SubSeq(s, m, Len(s)) \in Seq(S)
      /\ Len(SubSeq(s, m, Len(s))) = (IF m <= Len(s) THEN Len(s) - m + 1 ELSE 0)
      /\ \A i \in 1..(Len(s) - m + 1) : SubSeq(s, m, Len(s))[i] = s[m + i - 1]
  BY <1>1, <1>2, SubSeqProperties
<1>4. CASE Len(s) > Capacity
  <2>1. m = Len(s) - Capacity + 1
    BY <1>4 DEF m
  <2>2. Len(Trim(s)) = Capacity /\ Trim(s) \in Seq(S)
    BY <1>1, <1>2, <1>3, <1>4, <2>1
  <2>3. ASSUME NEW i \in 1..Capacity
        PROVE  i + Len(s) - Capacity \in 1..Len(s) /\ Trim(s)[i] = s[i + Len(s) - Capacity]
    <3>1. i \in 1..(Len(s) - m + 1) /\ m + i - 1 = i + Len(s) - Capacity
      BY <1>1, <1>4, <2>1, <2>3
    <3> QED BY <1>1, <1>2, <1>3, <1>4, <3>1
  <2> QED BY <1>4, <2>2, <2>3
<1>5. CASE Len(s) <= Capacity
  <2>1. m = 1
    BY <1>1, <1>5 DEF m
  <2>2. Len(Trim(s)) = Len(s) /\ Trim(s) \in Seq(S)
    BY <1>1, <1>2, <1>3, <2>1
  <2>3. ASSUME NEW i \in 1..Len(s)
        PROVE  i + Len(s) - Len(s) \in 1..Len(s) /\ Trim(s)[i] = s[i + Len(s) - Len(s)]
    <3>1. i \in 1..(Len(s) - m + 1) /\ m + i - 1 = i /\ i + Len(s) - Len(s) = i
      BY <1>1, <2>1, <2>3
    <3> QED BY <1>2, <1>3, <3>1
  <2> QED BY <1>1, <1>5, <2>2, <2>3
<1> QED BY <1>1, <1>4, <1>5

LEMMA StillReading ==
  ASSUME NEW s, NEW n \in Nat, NEW k \in Nat, NEW m \in Nat, NEW l \in Nat, n <= m, k <= l, Reading(s, n, k)
  PROVE  Reading(s, m, l)
<1>1. Begun(s, n, k) => Begun(s, m, l)
  BY SMTT(30) DEF Begun, Call
<1>2. Begun(s, n, k) /\ s.start + Len(s.recent) <= n => s.start + Len(s.recent) <= m
  BY DEF Begun, Call
<1>3. Fetching(s, n) => Fetching(s, m)
  <2>1. 1..n \subseteq 1..m
    OBVIOUS
  <2> QED BY <2>1 DEF Fetching
<1> QED BY <1>1, <1>2, <1>3 DEF Reading

LEMMA AddInv ==
  ASSUME ReplayInv, NEW w \in Return, AddEpisode(w)
  PROVE  ReplayInv'
<1> DEFINE new == [number |-> added + 1, abs_return |-> w]
           es == Append(episodes, new)
           ws == Append(weights, w)
           n == Len(episodes)
           m == Len(episodes')
<1>1. Lists /\ n \in Nat /\ added \in Nat /\ Capacity \in Nat \ {0} /\ new \in Episode
  BY ReplayAssumption DEF ReplayInv, Lists, Episode
<1>2. /\ episodes' = Trim(es) /\ weights' = Trim(ws) /\ added' = added + 1 /\ sampler' = sampler
  BY DEF AddEpisode, AppendAndTrim
<1>3. /\ es \in Seq(Episode) /\ ws \in Seq(Return) /\ Len(es) = n + 1 /\ Len(ws) = n + 1
      /\ \A j \in 1..(n + 1) : es[j] = (IF j = n + 1 THEN new ELSE episodes[j])
      /\ \A j \in 1..(n + 1) : ws[j] = (IF j = n + 1 THEN w ELSE weights[j])
  BY <1>1, AppendProperties DEF Lists
<1>4. \A j \in 1..(n + 1) : es[j].number = added - n + j /\ ws[j] = es[j].abs_return
  BY <1>1, <1>3 DEF Lists
<1> HIDE DEF es, ws, new
<1>5. /\ episodes' \in Seq(Episode) /\ weights' \in Seq(Return)
      /\ m = (IF n + 1 > Capacity THEN Capacity ELSE n + 1) /\ Len(weights') = m
  BY <1>2, <1>3, TrimKeepsLast
<1>6. \A i \in 1..m : i + (n + 1) - m \in 1..(n + 1) /\ episodes'[i] = es[i + (n + 1) - m]
  BY <1>2, <1>3, TrimKeepsLast, SMTT(30)
<1>7. \A i \in 1..m : weights'[i] = ws[i + (n + 1) - m]
  BY <1>2, <1>3, <1>5, TrimKeepsLast, SMTT(30)
<1>8. n <= m /\ m <= Capacity /\ m <= added' /\ m \in Nat
  BY <1>1, <1>2, <1>5 DEF Lists
<1>9. \A i \in 1..m : episodes'[i].number = added' - m + i /\ weights'[i] = episodes'[i].abs_return
  <2> TAKE i \in 1..m
  <2>1. i + (n + 1) - m \in 1..(n + 1)
    BY <1>6
  <2>2. added - n + (i + (n + 1) - m) = added' - m + i
    BY <1>1, <1>2, <1>8
  <2> QED BY <1>4, <1>6, <1>7, <2>1, <2>2
<1>10. Lists'
  <2>1. added' \in Nat
    BY <1>1, <1>2
  <2> QED BY <1>5, <1>8, <1>9, <2>1 DEF Lists
<1>11. added - n \in Nat /\ added' - m \in Nat /\ added - n <= added' - m
  BY <1>1, <1>2, <1>5, <1>8 DEF Lists
<1>12. Reading(sampler, m, added' - m)
  BY <1>1, <1>8, <1>11, StillReading DEF ReplayInv
<1> QED BY <1>2, <1>10, <1>12 DEF ReplayInv

LEMMA ReadSizeInv ==
  ASSUME ReplayInv, NEW wanted \in 1..MaxBatch, ReadSize(wanted)
  PROVE  ReplayInv'
<1> DEFINE total == Len(episodes)
           start == IF total > Window THEN total - Window ELSE 0
           size == IF wanted < total THEN wanted ELSE total
<1>1. Lists /\ total \in Nat \ {0} /\ Window \in Nat \ {0} /\ wanted \in Nat \ {0} /\ added - total \in Nat
  BY ReplayAssumption DEF ReplayInv, Lists, ReadSize
<1>2. start \in 0..(total - 1) /\ size \in 1..total
  BY <1>1
<1>3. sampler' = [pc |-> "recent", size |-> size, start |-> start, oldest |-> episodes[start + 1].number,
                  recent |-> <<>>, trimmed |-> 0, want |-> <<>>, named |-> <<>>, got |-> <<>>]
      /\ UNCHANGED <<episodes, weights, added>>
  BY DEF ReadSize
<1> HIDE DEF start, size
<1>4. episodes[start + 1].number = added - total + start + 1
  <2>1. \A i \in 1..total : episodes[i].number = added - total + i
    BY <1>1 DEF Lists
  <2>2. start + 1 \in 1..total /\ start \in Nat
    BY <1>1, <1>2
  <2>3. added - total + (start + 1) = added - total + start + 1
    BY <1>1, <2>2
  <2> QED BY <2>1, <2>2, <2>3
<1>5. sampler' \in Call
  BY <1>1, <1>2, <1>3, <1>4 DEF Call
<1>6. Begun(sampler', total, added - total) /\ sampler'.pc = "recent" /\ sampler'.got = <<>>
  BY <1>1, <1>2, <1>3, <1>4, <1>5 DEF Begun
<1> QED BY <1>1, <1>3, <1>6 DEF ReplayInv, Lists, Reading

LEMMA ReadRecentInv ==
  ASSUME ReplayInv, ReadRecent
  PROVE  ReplayInv'
<1> DEFINE n == Len(episodes)
           read == SubSeq(weights, sampler.start + 1, Len(weights))
<1>1. Lists /\ n \in Nat /\ Begun(sampler, n, added - n) /\ Len(weights) = n /\ weights \in Seq(Return)
      /\ sampler.got = <<>> /\ sampler.start \in Nat
  BY DEF ReplayInv, Lists, ReadRecent, Reading, Begun, Call
<1>2. read \in Seq(Return) /\ Len(read) = n - sampler.start
  BY <1>1, SubSeqProperties DEF Begun
<1>3. sampler' = [sampler EXCEPT !.pc = "full", !.recent = read, !.trimmed = Trimmed]
      /\ UNCHANGED <<episodes, weights, added>> /\ Trimmed \in Nat
  BY <1>1 DEF ReadRecent, Trimmed, Lists
<1> HIDE DEF read
<1>4. /\ sampler' \in Call /\ sampler'.pc = "full" /\ sampler'.recent = read /\ sampler'.got = <<>>
      /\ sampler'.size = sampler.size /\ sampler'.start = sampler.start /\ sampler'.oldest = sampler.oldest
  BY <1>1, <1>2, <1>3 DEF Begun, Call
<1>5. Begun(sampler', n, added - n) /\ sampler'.start + Len(sampler'.recent) <= n
  BY <1>1, <1>2, <1>4 DEF Begun
<1> QED BY <1>1, <1>3, <1>4, <1>5 DEF ReplayInv, Lists, Reading

\* A draw is of places there are.
LEMMA DrawsAre ==
  ASSUME NEW list \in Seq(Return), NEW count \in Nat, NEW offset \in Nat, NEW d \in Draws(list, count, offset)
  PROVE  d \in Seq(Nat) /\ Len(d) = count
         /\ \A i \in 1..count : d[i] \in (offset + 1)..(offset + Len(list))
<1> DEFINE positive == {i \in DOMAIN list : list[i] > 0}
           open == IF positive = {} THEN DOMAIN list ELSE positive
<1>1. open \subseteq 1..Len(list) /\ Len(list) \in Nat
  OBVIOUS
<1>2. PICK s \in [1..count -> open] : d = [i \in 1..count |-> s[i] + offset]
  BY DEF Draws
<1> HIDE DEF open
<1>3. \A i \in 1..count : s[i] \in 1..Len(list) /\ d[i] = s[i] + offset
  BY <1>1, <1>2
<1>4. d \in [1..count -> Nat]
  BY <1>1, <1>2, <1>3
<1>5. d \in Seq(Nat) /\ Len(d) = count
  BY <1>4
<1> QED BY <1>1, <1>3, <1>5

LEMMA NamedIs ==
  ASSUME NEW places \in Seq(Nat), NEW trimmed \in Nat
  PROVE  /\ Named(places, trimmed) \in Seq(Nat) /\ Len(Named(places, trimmed)) = Len(places)
         /\ \A i \in 1..Len(places) : Named(places, trimmed)[i] = trimmed + places[i]
<1>1. DOMAIN places = 1..Len(places) /\ Len(places) \in Nat /\ \A i \in 1..Len(places) : places[i] \in Nat
  OBVIOUS
<1>2. Named(places, trimmed) \in [1..Len(places) -> Nat]
  BY <1>1 DEF Named
<1> QED BY <1>1, <1>2 DEF Named

LEMMA DrawInv ==
  ASSUME ReplayInv, ReadFullAndDraw
  PROVE  ReplayInv'
<1> DEFINE n == Len(episodes)
<1>1. Lists /\ n \in Nat /\ Begun(sampler, n, added - n) /\ Len(weights) = n /\ weights \in Seq(Return)
      /\ sampler.pc = "full" /\ sampler.start + Len(sampler.recent) <= n /\ sampler.got = <<>>
  <2>1. sampler.pc = "full"
    BY DEF ReadFullAndDraw
  <2> QED BY <2>1 DEF ReplayInv, Lists, Reading
<1>2. sampler \in Call /\ sampler.size \in Nat \ {0} /\ RecentTarget \in 0..sampler.size
      /\ RecentTarget = Recent(sampler)
  BY <1>1, NineTenths DEF Begun, Call, RecentTarget, Recent
<1>3. UNCHANGED <<episodes, weights, added>>
  BY DEF ReadFullAndDraw
<1>4. ASSUME NEW r \in Draws(sampler.recent, RecentTarget, sampler.start),
             NEW g \in Draws(weights, sampler.size - RecentTarget, 0),
             sampler' = [sampler EXCEPT !.pc = "fetch", !.want = r \o g,
                                        !.named = Named(r, sampler.trimmed) \o Named(g, Trimmed)]
      PROVE  Reading(sampler', n, added - n)
  <2>1. /\ r \in Seq(Nat) /\ Len(r) = RecentTarget
        /\ \A i \in 1..RecentTarget : r[i] \in (sampler.start + 1)..(sampler.start + Len(sampler.recent))
    BY <1>2, DrawsAre DEF Call
  <2>2. /\ g \in Seq(Nat) /\ Len(g) = sampler.size - RecentTarget
        /\ \A i \in 1..(sampler.size - RecentTarget) : g[i] \in 1..n
    <3>1. sampler.size - RecentTarget \in Nat /\ 0 \in Nat /\ (0 + 1)..(0 + Len(weights)) = 1..n
      BY <1>1, <1>2
    <3> QED BY <1>1, <3>1, DrawsAre
  <2> DEFINE want == r \o g
  <2>3. /\ want \in Seq(Nat) /\ Len(want) = sampler.size
        /\ \A i \in 1..RecentTarget : want[i] = r[i]
        /\ \A i \in (RecentTarget + 1)..sampler.size : want[i] = g[i - RecentTarget]
    <3>1. /\ want \in Seq(Nat) /\ Len(want) = Len(r) + Len(g)
          /\ \A i \in 1..Len(r) + Len(g) : want[i] = IF i <= Len(r) THEN r[i] ELSE g[i - Len(r)]
      BY <2>1, <2>2, ConcatProperties
    <3> HIDE DEF want
    <3>2. Len(r) = RecentTarget /\ Len(g) = sampler.size - RecentTarget /\ RecentTarget \in Nat
          /\ sampler.size \in Nat /\ RecentTarget <= sampler.size
      BY <1>2, <2>1, <2>2
    <3>3. Len(want) = sampler.size
      BY <3>1, <3>2
    <3>4. ASSUME NEW i \in 1..RecentTarget PROVE want[i] = r[i]
      <4>1. i \in 1..Len(r) + Len(g) /\ i <= Len(r)
        BY <3>2
      <4> QED BY <3>1, <4>1
    <3>5. ASSUME NEW i \in (RecentTarget + 1)..sampler.size PROVE want[i] = g[i - RecentTarget]
      <4>1. i \in 1..Len(r) + Len(g) /\ ~(i <= Len(r))
        BY <3>2
      <4> QED BY <3>1, <3>2, <4>1
    <3> QED BY <3>1, <3>3, <3>4, <3>5
  <2> DEFINE named == Named(r, sampler.trimmed) \o Named(g, Trimmed)
  <2>4. sampler' = [sampler EXCEPT !.pc = "fetch", !.want = want, !.named = named] /\ named \in Seq(Nat)
    <3>1. sampler.trimmed \in Nat /\ Trimmed \in Nat
      BY <1>1, <1>2 DEF Call, Trimmed, Lists
    <3>2. Named(r, sampler.trimmed) \in Seq(Nat) /\ Named(g, Trimmed) \in Seq(Nat)
      BY <2>1, <2>2, <3>1, NamedIs
    <3> QED BY <1>4, <3>2, ConcatProperties
  <2> HIDE DEF want, named
  <2>5. /\ sampler' \in Call /\ sampler'.pc = "fetch" /\ sampler'.want = want /\ sampler'.got = <<>>
        /\ sampler'.size = sampler.size /\ sampler'.start = sampler.start /\ sampler'.oldest = sampler.oldest
    BY <1>1, <1>2, <2>3, <2>4 DEF Call
  <2>6. Begun(sampler', n, added - n)
    BY <1>1, <2>5 DEF Begun
  <2>7. Fetching(sampler', n)
    <3>1. want # <<>> /\ Len(<<>>) = 0
      BY <1>2, <2>3
    <3>2. ASSUME NEW i \in 1..sampler.size
          PROVE  want[i] \in 1..n /\ (i <= RecentTarget => want[i] > sampler.start)
      <4>1. CASE i <= RecentTarget
        <5>1. want[i] \in (sampler.start + 1)..(sampler.start + Len(sampler.recent))
          BY <1>2, <2>1, <2>3, <4>1
        <5>2. sampler.start \in Nat /\ Len(sampler.recent) \in Nat
          BY <1>2 DEF Call
        <5> QED BY <1>1, <5>1, <5>2
      <4>2. CASE ~ (i <= RecentTarget)
        <5>1. i \in (RecentTarget + 1)..sampler.size /\ i - RecentTarget \in 1..(sampler.size - RecentTarget)
          BY <1>2, <4>2
        <5> QED BY <2>2, <2>3, <4>2, <5>1
      <4> QED BY <4>1, <4>2
    <3>3. Recent(sampler') = RecentTarget
      BY <1>2, <2>5 DEF Recent
    <3> QED BY <1>2, <2>3, <2>5, <3>1, <3>2, <3>3 DEF Fetching
  <2>8. NoneOlder(sampler')
    BY <2>5 DEF NoneOlder
  <2> QED BY <2>5, <2>6, <2>7, <2>8 DEF Reading
<1>5. CASE sampler' = [pc |-> "raised"]
  BY <1>1, <1>3, <1>5 DEF ReplayInv, Lists, Reading
<1> QED
  <2>1. \/ \E r \in Draws(sampler.recent, RecentTarget, sampler.start),
              g \in Draws(weights, sampler.size - RecentTarget, 0) :
              sampler' = [sampler EXCEPT !.pc = "fetch", !.want = r \o g,
                                         !.named = Named(r, sampler.trimmed) \o Named(g, Trimmed)]
        \/ sampler' = [pc |-> "raised"]
    BY DEF ReadFullAndDraw
  <2> QED BY <1>1, <1>3, <1>4, <1>5, <2>1 DEF ReplayInv, Lists

LEMMA FetchInv ==
  ASSUME ReplayInv, Fetch
  PROVE  ReplayInv'
<1> DEFINE n == Len(episodes)
           i == Head(sampler.want)
           number == episodes[i].number
<1>1. Lists /\ n \in Nat /\ added - n \in Nat /\ Begun(sampler, n, added - n)
      /\ sampler.pc = "fetch" /\ Fetching(sampler, n) /\ NoneOlder(sampler)
      /\ UNCHANGED <<episodes, weights, added>>
  BY DEF ReplayInv, Lists, Fetch, Reading
<1>2. /\ sampler \in Call /\ sampler.want \in Seq(Nat) /\ sampler.want # <<>> /\ sampler.got \in Seq(Nat)
      /\ sampler.size \in Nat /\ Recent(sampler) \in Nat /\ sampler.oldest \in Nat /\ sampler.start \in Nat
  <2>1. sampler \in Call /\ sampler.want # <<>>
    BY <1>1 DEF Begun, Fetching
  <2>2. /\ sampler.want \in Seq(Nat) /\ sampler.got \in Seq(Nat) /\ sampler.size \in Nat
        /\ sampler.oldest \in Nat /\ sampler.start \in Nat
    BY <2>1 DEF Call
  <2>3. Recent(sampler) \in Nat
    BY <2>2, NineTenths DEF Recent
  <2> QED BY <2>1, <2>2, <2>3
<1>3. /\ i = sampler.want[1] /\ 1 \in 1..Len(sampler.want) /\ Len(sampler.want) \in Nat \ {0}
      /\ Tail(sampler.want) \in Seq(Nat) /\ Len(Tail(sampler.want)) = Len(sampler.want) - 1
      /\ \A j \in 1..(Len(sampler.want) - 1) : Tail(sampler.want)[j] = sampler.want[j + 1]
      /\ Len(sampler.want) # 1 => Tail(sampler.want) # <<>>
  BY <1>2, HeadAndTail
<1>4. i \in 1..n /\ (Len(sampler.got) + 1 <= Recent(sampler) => i > sampler.start)
  BY <1>1, <1>3 DEF Fetching
<1> HIDE DEF i
<1>5. number = added - n + i /\ number \in Nat
  <2>1. \A j \in 1..n : episodes[j].number = added - n + j
    BY <1>1 DEF Lists
  <2>2. number = added - n + i
    BY <1>4, <2>1
  <2>3. added - n + i \in Nat
    BY <1>1, <1>4
  <2> QED BY <2>2, <2>3
<1> DEFINE got == Append(sampler.got, number)
<1>6. /\ got \in Seq(Nat) /\ Len(got) = Len(sampler.got) + 1 /\ Len(sampler.got) \in Nat
      /\ \A j \in 1..Len(sampler.got) : got[j] = sampler.got[j]
      /\ got[Len(sampler.got) + 1] = number
  BY <1>2, <1>5
<1>7. sampler' = [sampler EXCEPT !.want = Tail(sampler.want), !.got = got,
                    !.pc = IF Len(sampler.want) = 1 THEN "returned" ELSE "fetch"]
  <2>1. i <= Len(episodes)
    BY <1>1, <1>4
  <2>2. sampler' = [sampler EXCEPT
           !.want = Tail(sampler.want),
           !.got = IF i <= Len(episodes) THEN Append(sampler.got, episodes[i].number) ELSE sampler.got,
           !.pc = IF Len(sampler.want) = 1 THEN "returned" ELSE sampler.pc]
    BY <1>2 DEF Fetch, Call, i
  <2> QED BY <1>1, <2>1, <2>2
<1> HIDE DEF got, number
<1>8. /\ sampler' \in Call /\ sampler'.want = Tail(sampler.want) /\ sampler'.got = got
      /\ sampler'.pc = (IF Len(sampler.want) = 1 THEN "returned" ELSE "fetch")
      /\ sampler'.size = sampler.size /\ sampler'.start = sampler.start /\ sampler'.oldest = sampler.oldest
      /\ Recent(sampler') = Recent(sampler)
  BY <1>2, <1>3, <1>6, <1>7 DEF Call, Recent
<1>9. Begun(sampler', n, added - n)
  BY <1>1, <1>8 DEF Begun
<1>10. NoneOlder(sampler')
  <2>1. Len(sampler.got) + 1 <= Recent(sampler) => number >= sampler.oldest
    BY <1>1, <1>2, <1>4, <1>5 DEF Begun, Lists
  <2> SUFFICES ASSUME NEW j \in 1..(Len(sampler.got) + 1), j <= Recent(sampler)
               PROVE  got[j] >= sampler.oldest
    BY <1>6, <1>8 DEF NoneOlder
  <2>2. CASE j = Len(sampler.got) + 1
    BY <1>6, <2>1, <2>2
  <2>3. CASE j # Len(sampler.got) + 1
    <3>1. j \in 1..Len(sampler.got)
      BY <1>6, <2>3
    <3> QED BY <1>1, <1>6, <3>1 DEF NoneOlder
  <2> QED BY <2>2, <2>3
<1>11. CASE Len(sampler.want) = 1
  <2>1. Len(got) = sampler.size
    BY <1>1, <1>6, <1>11 DEF Fetching
  <2> QED BY <1>1, <1>8, <1>9, <1>10, <1>11, <2>1 DEF ReplayInv, Lists, Reading
<1>12. CASE Len(sampler.want) # 1
  <2> DEFINE rest == Tail(sampler.want)
  <2>1. Fetching(sampler', n)
    <3>0. Len(rest) = Len(sampler.want) - 1 /\ Len(sampler.want) \in Nat
      BY <1>3
    <3> HIDE DEF rest
    <3>1. Len(got) + Len(rest) = sampler.size
      <4>1. Len(sampler.got) + Len(sampler.want) = sampler.size
        BY <1>1 DEF Fetching
      <4>2. Len(got) = Len(sampler.got) + 1 /\ Len(rest) = Len(sampler.want) - 1
            /\ Len(sampler.got) \in Nat /\ Len(sampler.want) \in Nat
        BY <3>0, <1>6
      <4>3. \A a, w \in Nat : (a + 1) + (w - 1) = a + w
        OBVIOUS
      <4> QED BY <4>1, <4>2, <4>3
    <3>2. ASSUME NEW j \in 1..Len(rest)
          PROVE  /\ rest[j] \in 1..n
                 /\ Len(got) + j <= Recent(sampler) => rest[j] > sampler.start
      <4>1. j + 1 \in 1..Len(sampler.want) /\ rest[j] = sampler.want[j + 1]
            /\ Len(got) + j = Len(sampler.got) + (j + 1)
        <5>1. Len(rest) = Len(sampler.want) - 1 /\ Len(sampler.want) \in Nat
              /\ Len(got) = Len(sampler.got) + 1 /\ Len(sampler.got) \in Nat
          BY <3>0, <1>6
        <5>2. j \in 1..(Len(sampler.want) - 1)
          BY <3>2, <5>1
        <5>3. rest[j] = sampler.want[j + 1]
          BY <1>3, <5>2 DEF rest
        <5>4. \A a, w \in Nat : \A l \in 1..(w - 1) : l + 1 \in 1..w /\ (a + 1) + l = a + (l + 1)
          OBVIOUS
        <5> QED BY <5>1, <5>2, <5>3, <5>4
      <4> QED BY <1>1, <4>1 DEF Fetching
    <3> QED BY <1>3, <1>8, <1>12, <3>1, <3>2 DEF Fetching, rest
  <2> QED BY <1>1, <1>8, <1>9, <1>10, <1>12, <2>1 DEF ReplayInv, Lists, Reading
<1> QED BY <1>11, <1>12

-----------------------------------------------------------------------------
(* How far a batch is from what was drawn. *)

Near(s, k) ==
  /\ Len(s.named) = s.size /\ Len(s.got) <= s.size
  /\ \A i \in 1..Len(s.got) : s.got[i] \in s.named[i]..s.named[i] + (k - s.trimmed)
  /\ s.pc = "fetch" =>
       \A j \in 1..Len(s.want) : s.named[Len(s.got) + j] \in s.trimmed + s.want[j]..k + s.want[j]

\* When k episodes have been trimmed.
Drifted(s, k) ==
  /\ s.pc \in {"full", "fetch", "returned"} => s.trimmed <= k
  /\ s.pc \in {"fetch", "returned"} => Near(s, k)

LEMMA CallIs ==
  ASSUME ReplayInv
  PROVE  /\ Trimmed \in Nat /\ Len(episodes) \in Nat /\ added \in Nat
         /\ sampler.pc \in {"none", "raised"} \/ sampler \in Call
  BY DEF ReplayInv, Lists, Reading, Begun, Trimmed

LEMMA CallFields ==
  ASSUME NEW s \in Call
  PROVE  /\ s.trimmed \in Nat /\ s.size \in Nat /\ Len(s.named) \in Nat /\ Len(s.want) \in Nat /\ Len(s.got) \in Nat
         /\ \A i \in 1..Len(s.named) : s.named[i] \in Nat
         /\ \A i \in 1..Len(s.want) : s.want[i] \in Nat
         /\ \A i \in 1..Len(s.got) : s.got[i] \in Nat
<1>1. s.trimmed \in Nat /\ s.size \in Nat /\ s.named \in Seq(Nat) /\ s.want \in Seq(Nat) /\ s.got \in Seq(Nat)
  BY DEF Call
<1> QED BY <1>1, SMTT(30)

LEMMA StillNear ==
  ASSUME NEW s \in Call, NEW k \in Nat, NEW l \in Nat, k <= l, Near(s, k)
  PROVE  Near(s, l)
<1>1. ASSUME NEW i \in 1..Len(s.got)
      PROVE  s.got[i] \in s.named[i]..s.named[i] + (l - s.trimmed)
  <2>1. s.got[i] \in s.named[i]..s.named[i] + (k - s.trimmed) /\ i \in 1..Len(s.named)
    BY CallFields DEF Near
  <2>2. s.named[i] \in Nat /\ s.trimmed \in Nat
    BY <2>1, CallFields
  <2> QED BY <2>1, <2>2, SMTT(30)
<1>2. ASSUME s.pc = "fetch", NEW j \in 1..Len(s.want)
      PROVE  s.named[Len(s.got) + j] \in s.trimmed + s.want[j]..l + s.want[j]
  <2>1. s.named[Len(s.got) + j] \in s.trimmed + s.want[j]..k + s.want[j]
    BY <1>2 DEF Near
  <2>2. s.want[j] \in Nat /\ s.trimmed \in Nat
    BY CallFields
  <2> QED BY <2>1, <2>2, SMTT(30)
<1> QED BY <1>1, <1>2 DEF Near

LEMMA AddDrifts ==
  ASSUME ReplayInv, Drifted(sampler, Trimmed), NEW w \in Return, AddEpisode(w)
  PROVE  Drifted(sampler, Trimmed)'
<1> DEFINE k == Trimmed
           l == Trimmed'
           es == Append(episodes, [number |-> added + 1, abs_return |-> w])
<1>1. episodes' = Trim(es) /\ added' = added + 1 /\ sampler' = sampler
  BY DEF AddEpisode, AppendAndTrim
<1>2. [number |-> added + 1, abs_return |-> w] \in Episode /\ episodes \in Seq(Episode) /\ added \in Nat
      /\ Len(episodes) \in Nat
  BY DEF ReplayInv, Lists, Episode
<1>3. es \in Seq(Episode) /\ Len(es) = Len(episodes) + 1
  BY <1>2, AppendProperties
<1> HIDE DEF es
<1>4. Len(episodes') <= Len(episodes) + 1 /\ Len(episodes') \in Nat
  <2>1. Len(Trim(es)) = (IF Len(es) > Capacity THEN Capacity ELSE Len(es)) /\ Capacity \in Nat
    BY <1>3, TrimKeepsLast, ReplayAssumption
  <2> QED BY <1>1, <1>2, <1>3, <2>1
<1>5. k \in Nat /\ Len(episodes) \in Nat /\ l = added' - Len(episodes') /\ k = added - Len(episodes)
  BY CallIs DEF Trimmed
<1>6. l \in Nat /\ k <= l
  BY <1>1, <1>2, <1>4, <1>5
<1> HIDE DEF k, l
<1>7. Drifted(sampler, k) /\ (sampler.pc \in {"none", "raised"} \/ sampler \in Call)
  BY CallIs DEF k
<1>8. Drifted(sampler, l)
  <2>1. CASE sampler \in Call
    BY <1>5, <1>6, <1>7, <2>1, StillNear, CallFields DEF Drifted
  <2>2. CASE sampler.pc \in {"none", "raised"}
    BY <2>2 DEF Drifted
  <2> QED BY <1>7, <2>1, <2>2
<1> QED BY <1>1, <1>8 DEF l

\* What is drawn from the recent weights is named as it was when these were read.
LEMMA DrawDrifts ==
  ASSUME ReplayInv, Drifted(sampler, Trimmed), ReadFullAndDraw
  PROVE  Drifted(sampler, Trimmed)'
<1>1. sampler \in Call /\ sampler.pc = "full" /\ sampler.got = <<>> /\ sampler.trimmed <= Trimmed
  BY DEF ReadFullAndDraw, ReplayInv, Reading, Begun, Drifted
<1>2. Trimmed \in Nat /\ sampler.trimmed \in Nat /\ sampler.start \in Nat /\ sampler.size \in Nat
      /\ sampler.recent \in Seq(Return) /\ weights \in Seq(Return)
      /\ RecentTarget \in 0..sampler.size /\ UNCHANGED <<episodes, added>>
  BY <1>1, CallIs, NineTenths DEF Call, ReplayInv, Lists, RecentTarget, ReadFullAndDraw
<1>3. Trimmed' = Trimmed
  BY <1>2 DEF Trimmed
<1>4. ASSUME NEW r \in Draws(sampler.recent, RecentTarget, sampler.start),
             NEW g \in Draws(weights, sampler.size - RecentTarget, 0),
             sampler' = [sampler EXCEPT !.pc = "fetch", !.want = r \o g,
                                        !.named = Named(r, sampler.trimmed) \o Named(g, Trimmed)]
      PROVE  Drifted(sampler', Trimmed)
  <2> DEFINE want == r \o g
  <2>1. r \in Seq(Nat) /\ Len(r) = RecentTarget /\ g \in Seq(Nat) /\ Len(g) = sampler.size - RecentTarget
    <3>1. sampler.size - RecentTarget \in Nat /\ RecentTarget \in Nat /\ 0 \in Nat
      BY <1>2
    <3> QED BY <1>2, <3>1, DrawsAre
  <2> DEFINE first == Named(r, sampler.trimmed)
             second == Named(g, Trimmed)
             named == first \o second
  <2>2. /\ first \in Seq(Nat) /\ Len(first) = Len(r)
        /\ \A i \in 1..Len(r) : first[i] = sampler.trimmed + r[i]
    BY <1>2, <2>1, NamedIs
  <2>3. /\ second \in Seq(Nat) /\ Len(second) = Len(g)
        /\ \A i \in 1..Len(g) : second[i] = Trimmed + g[i]
    BY <1>2, <2>1, NamedIs
  <2>4. /\ Len(want) = Len(r) + Len(g)
        /\ \A i \in 1..Len(r) + Len(g) : want[i] = IF i <= Len(r) THEN r[i] ELSE g[i - Len(r)]
    BY <2>1, ConcatProperties
  <2>5. /\ Len(named) = Len(r) + Len(g)
        /\ \A i \in 1..Len(r) + Len(g) :
             named[i] = IF i <= Len(r) THEN first[i] ELSE second[i - Len(r)]
    <3> HIDE DEF first, second
    <3>0. first \in Seq(Nat) /\ second \in Seq(Nat)
      BY <2>2, <2>3
    <3>1. /\ Len(first \o second) = Len(first) + Len(second)
          /\ \A i \in 1..Len(first) + Len(second) :
               (first \o second)[i] = IF i <= Len(first) THEN first[i] ELSE second[i - Len(first)]
      BY <3>0, ConcatProperties
    <3>2. Len(first) = Len(r) /\ Len(second) = Len(g)
      BY <2>2, <2>3
    <3> QED BY ONLY <3>1, <3>2, Zenon
  <2>6. sampler' = [sampler EXCEPT !.pc = "fetch", !.want = want, !.named = named]
    BY <1>4
  <2> HIDE DEF want, named, first, second
  <2>7. /\ sampler'.pc = "fetch" /\ sampler'.want = want /\ sampler'.named = named /\ sampler'.got = <<>>
        /\ sampler'.size = sampler.size /\ sampler'.trimmed = sampler.trimmed
    BY <1>1, <2>6 DEF Call
  <2>8. ASSUME NEW j \in 1..sampler.size
        PROVE  named[j] \in sampler.trimmed + want[j]..Trimmed + want[j]
    <3>1. j \in 1..Len(r) + Len(g) /\ Len(r) \in Nat /\ Len(g) \in Nat
      BY <1>2, <2>1
    <3>2. CASE j <= Len(r)
      <4>1. j \in 1..Len(r) /\ want[j] = r[j] /\ named[j] = sampler.trimmed + r[j] /\ r[j] \in Nat
        BY <2>1, <2>2, <2>4, <2>5, <3>1, <3>2
      <4> QED BY <1>1, <1>2, <4>1
    <3>3. CASE ~(j <= Len(r))
      <4>1. j - Len(r) \in 1..Len(g)
        BY <3>1, <3>3
      <4>2. want[j] = g[j - Len(r)] /\ named[j] = Trimmed + g[j - Len(r)] /\ g[j - Len(r)] \in Nat
        BY <2>1, <2>3, <2>4, <2>5, <3>1, <3>3, <4>1
      <4> QED BY <1>1, <1>2, <4>2
    <3> QED BY <3>2, <3>3
  <2>9. Len(want) = sampler.size /\ Len(named) = sampler.size
    BY <1>2, <2>1, <2>4, <2>5
  <2>10. Len(<<>>) = 0 /\ \A j \in 1..sampler.size : 0 + j = j
    BY <1>2
  <2> QED BY <1>1, <1>2, <2>7, <2>8, <2>9, <2>10 DEF Drifted, Near
<1>5. CASE sampler' = [pc |-> "raised"]
  BY <1>5 DEF Drifted
<1>6. \/ \E r \in Draws(sampler.recent, RecentTarget, sampler.start),
            g \in Draws(weights, sampler.size - RecentTarget, 0) :
            sampler' = [sampler EXCEPT !.pc = "fetch", !.want = r \o g,
                                       !.named = Named(r, sampler.trimmed) \o Named(g, Trimmed)]
      \/ sampler' = [pc |-> "raised"]
  BY DEF ReadFullAndDraw
<1> QED BY <1>3, <1>4, <1>5, <1>6

LEMMA FetchDrifts ==
  ASSUME ReplayInv, Drifted(sampler, Trimmed), Fetch
  PROVE  Drifted(sampler, Trimmed)'
<1> DEFINE n == Len(episodes)
           i == Head(sampler.want)
           number == episodes[i].number
           got == Append(sampler.got, number)
           rest == Tail(sampler.want)
           t == sampler.trimmed
           named == sampler.named
           size == sampler.size
           m == Len(sampler.got)
<1>1. /\ sampler \in Call /\ sampler.pc = "fetch" /\ Fetching(sampler, n) /\ Near(sampler, Trimmed)
      /\ t <= Trimmed /\ UNCHANGED <<episodes, added>> /\ Lists
  BY DEF Fetch, ReplayInv, Reading, Begun, Drifted
<1>2. /\ sampler.want \in Seq(Nat) /\ sampler.want # <<>> /\ sampler.got \in Seq(Nat) /\ named \in Seq(Nat)
      /\ size \in Nat /\ t \in Nat /\ Trimmed \in Nat /\ n \in Nat /\ Trimmed = added - n /\ Trimmed' = Trimmed
      /\ added \in Nat
  BY <1>1, CallIs DEF Call, Fetching, Trimmed
<1>3. /\ i = sampler.want[1] /\ 1 \in 1..Len(sampler.want) /\ Len(sampler.want) \in Nat \ {0}
      /\ Len(rest) = Len(sampler.want) - 1
      /\ \A j \in 1..(Len(sampler.want) - 1) : rest[j] = sampler.want[j + 1]
  BY <1>2, HeadAndTail
<1>4. i \in 1..n /\ m + Len(sampler.want) = size /\ m \in Nat
  <2>1. sampler.want[1] \in 1..n /\ m + Len(sampler.want) = size
    BY <1>1, <1>3 DEF Fetching
  <2>2. m \in Nat
    BY <1>2
  <2> QED BY <1>3, <2>1, <2>2
<1>5. number = Trimmed + i /\ number \in Nat
  <2>1. \A j \in 1..n : episodes[j].number = added - n + j
    BY <1>1 DEF Lists
  <2> HIDE DEF i
  <2> QED BY <1>2, <1>4, <2>1, SMTT(30)
<1>6. /\ Len(got) = m + 1 /\ got[m + 1] = number
      /\ \A j \in 1..m : got[j] = sampler.got[j]
  BY <1>2, <1>5
<1>7. sampler' = [sampler EXCEPT !.want = rest, !.got = got,
                    !.pc = IF Len(sampler.want) = 1 THEN "returned" ELSE "fetch"]
  <2>1. i <= Len(episodes)
    BY <1>2, <1>4
  <2>2. sampler' = [sampler EXCEPT
           !.want = Tail(sampler.want),
           !.got = IF i <= Len(episodes) THEN Append(sampler.got, episodes[i].number) ELSE sampler.got,
           !.pc = IF Len(sampler.want) = 1 THEN "returned" ELSE sampler.pc]
    BY <1>1 DEF Fetch, Call, i
  <2> QED BY <1>1, <2>1, <2>2
<1> HIDE DEF got, number, rest, i
<1>8. /\ sampler'.want = rest /\ sampler'.got = got /\ sampler'.named = named
      /\ sampler'.pc = (IF Len(sampler.want) = 1 THEN "returned" ELSE "fetch")
      /\ sampler'.size = size /\ sampler'.trimmed = t
  BY <1>1, <1>7 DEF Call
<1>9. /\ Len(named) = size /\ m <= size
      /\ \A j \in 1..m : sampler.got[j] \in named[j]..named[j] + (Trimmed - t)
      /\ \A j \in 1..Len(sampler.want) : named[m + j] \in t + sampler.want[j]..Trimmed + sampler.want[j]
  BY <1>1 DEF Near
<1> HIDE DEF m, t, named, size
<1>10. ASSUME NEW j \in 1..Len(got)
       PROVE  got[j] \in named[j]..named[j] + (Trimmed - t)
  <2>1. CASE j = m + 1
    <3>1. named[m + 1] \in t + i..Trimmed + i /\ i \in Nat
      BY <1>3, <1>4, <1>9
    <3>2. t + i <= named[m + 1] /\ named[m + 1] <= Trimmed + i /\ named[m + 1] \in Int
      BY <1>2, <3>1
    <3>3. got[j] = Trimmed + i
      BY <1>5, <1>6, <2>1
    <3>4. Trimmed + i \in named[m + 1]..named[m + 1] + (Trimmed - t)
      BY <1>2, <3>1, <3>2
    <3> QED BY <2>1, <3>3, <3>4
  <2>2. CASE j # m + 1
    <3>1. j \in 1..m
      BY <1>4, <1>6, <2>2
    <3> QED BY <1>6, <1>9, <3>1
  <2> QED BY <2>1, <2>2
<1>11. ASSUME NEW j \in 1..Len(rest)
       PROVE  named[Len(got) + j] \in t + rest[j]..Trimmed + rest[j]
  <2>1. j + 1 \in 1..Len(sampler.want) /\ Len(got) + j = m + (j + 1) /\ j \in 1..(Len(sampler.want) - 1)
    <3>1. \A a \in Nat, w \in Nat \ {0} : \A b \in 1..(w - 1) :
            b + 1 \in 1..w /\ (a + 1) + b = a + (b + 1)
      OBVIOUS
    <3>2. j \in 1..(Len(sampler.want) - 1)
      BY <1>3
    <3> QED BY <1>3, <1>4, <1>6, <3>1, <3>2
  <2>2. rest[j] = sampler.want[j + 1]
    BY <1>3, <2>1
  <2> QED BY <1>9, <2>1, <2>2
<1>12. Len(got) <= size
  BY <1>3, <1>4, <1>6
<1>13. Near(sampler', Trimmed)
  BY <1>8, <1>9, <1>10, <1>11, <1>12 DEF Near
<1>14. sampler'.trimmed <= Trimmed
  BY <1>1, <1>8 DEF t
<1> QED BY <1>2, <1>13, <1>14 DEF Drifted

LEMMA NextDrifts ==
  ASSUME ReplayInv, Drifted(sampler, Trimmed), [ReplayNext]_replayVars
  PROVE  Drifted(sampler, Trimmed)'
<1>1. CASE UNCHANGED replayVars
  BY <1>1 DEF replayVars, Trimmed
<1>2. ASSUME NEW wanted \in 1..MaxBatch, ReadSize(wanted) PROVE Drifted(sampler, Trimmed)'
  <2>1. sampler'.pc = "recent"
    BY <1>2 DEF ReadSize
  <2> QED BY <2>1 DEF Drifted
<1>3. CASE ReadRecent
  <2>1. sampler \in Call /\ Trimmed \in Nat
    BY <1>3, CallIs DEF ReadRecent
  <2>2. sampler'.pc = "full" /\ sampler'.trimmed = Trimmed /\ Trimmed' = Trimmed
    BY <1>3, <2>1 DEF ReadRecent, Call, Trimmed
  <2> QED BY <2>1, <2>2 DEF Drifted
<1> QED BY <1>1, <1>2, <1>3, AddDrifts, DrawDrifts, FetchDrifts DEF ReplayNext

LEMMA ReplayInvariant == ReplaySpec => [](ReplayInv /\ Drifted(sampler, Trimmed))
<1>1. ReplayInit => ReplayInv /\ Drifted(sampler, Trimmed)
  BY ReplayAssumption DEF ReplayInit, ReplayInv, Lists, Reading, Drifted
<1>2. ReplayInv /\ [ReplayNext]_replayVars => ReplayInv'
  <2> SUFFICES ASSUME ReplayInv, [ReplayNext]_replayVars PROVE ReplayInv'
    OBVIOUS
  <2>1. CASE UNCHANGED replayVars
    BY <2>1 DEF replayVars, ReplayInv, Lists
  <2> QED BY <2>1, AddInv, ReadSizeInv, ReadRecentInv, DrawInv, FetchInv DEF ReplayNext
<1> QED BY <1>1, <1>2, NextDrifts, PTL DEF ReplaySpec

\* The lists stay in step, and a batch is what was wanted for: a writer moves every
\* episode a draw has named to a lower place, by one for each episode it trims, so
\* what is fetched there is the episode itself or one that is newer by as many, and
\* the list never gets shorter than a call has seen it.
THEOREM BatchesAreAligned == ReplaySpec => []ReplayAligned
<1>1. ReplayInv /\ Drifted(sampler, Trimmed) => ReplayAligned
  <2> SUFFICES ASSUME ReplayInv, Drifted(sampler, Trimmed) PROVE ReplayAligned
    OBVIOUS
  <2>1. weights = [i \in DOMAIN episodes |-> episodes[i].abs_return]
    <3>1. weights \in [1..Len(weights) -> Return] /\ DOMAIN episodes = 1..Len(weights)
      BY DEF ReplayInv, Lists
    <3> QED BY <3>1 DEF ReplayInv, Lists
  <2>2. ASSUME sampler.pc = "returned"
        PROVE  /\ Len(sampler.got) = sampler.size
               /\ \A i \in 1..sampler.size :
                    sampler.got[i] \in sampler.named[i]..sampler.named[i] + (Trimmed - sampler.trimmed)
               /\ \A i \in 1..RecentTarget : sampler.got[i] >= sampler.oldest
    <3>1. Len(sampler.got) = sampler.size /\ NoneOlder(sampler) /\ sampler.size \in Nat
      BY <2>2 DEF ReplayInv, Reading, Begun, Call
    <3>2. RecentTarget = Recent(sampler) /\ RecentTarget \in 0..sampler.size
      BY <3>1, NineTenths DEF RecentTarget, Recent
    <3>3. \A i \in 1..RecentTarget : sampler.got[i] >= sampler.oldest
      BY <3>1, <3>2 DEF NoneOlder
    <3>4. \A i \in 1..sampler.size :
            sampler.got[i] \in sampler.named[i]..sampler.named[i] + (Trimmed - sampler.trimmed)
      BY <2>2, <3>1 DEF Drifted, Near
    <3> QED BY <3>1, <3>3, <3>4
  <2> QED BY <2>1, <2>2 DEF ReplayAligned
<1> QED BY <1>1, ReplayInvariant, PTL

\* Type correctness of the replay buffer: the list never exceeds its capacity, and what
\* it holds are episodes that were added.
THEOREM ReplayTypeCorrect == ReplaySpec => []ReplayTypeOK
<1> DEFINE Inv == ReplayInv /\ added <= MaxEpisodes
<1>1. ReplayInit => Inv
  BY ReplayAssumption DEF ReplayInit, ReplayInv, Lists, Reading
<1>2. Inv /\ [ReplayNext]_replayVars => Inv'
  <2> SUFFICES ASSUME Inv, [ReplayNext]_replayVars PROVE Inv'
    OBVIOUS
  <2>1. added' <= MaxEpisodes
    <3>1. added' = added \/ (added' = added + 1 /\ added < MaxEpisodes)
      BY DEF ReplayNext, AddEpisode, ReadSize, ReadRecent, ReadFullAndDraw, Fetch, replayVars
    <3> QED BY <3>1, ReplayAssumption DEF ReplayInv, Lists
  <2>2. CASE UNCHANGED replayVars
    BY <2>1, <2>2 DEF replayVars, ReplayInv, Lists
  <2> QED BY <2>1, <2>2, AddInv, ReadSizeInv, ReadRecentInv, DrawInv, FetchInv DEF ReplayNext
<1>3. Inv => ReplayTypeOK
  <2> SUFFICES ASSUME Inv PROVE ReplayTypeOK
    OBVIOUS
  <2>1. Len(episodes) \in Nat /\ DOMAIN episodes = 1..Len(episodes) /\ Lists
    BY DEF ReplayInv, Lists
  <2>2. \A i \in DOMAIN episodes : episodes[i] \in Episode /\ episodes[i].number \in 1..added
    BY <2>1 DEF Lists
  <2>3. \A i \in DOMAIN episodes : episodes[i] \in [number : 1..added, abs_return : Return]
    BY <2>2 DEF Episode
  <2>4. sampler.pc \in {"none", "recent", "full", "fetch", "returned", "raised"}
    BY DEF ReplayInv, Reading, Begun, Call
  <2>5. Len(episodes) <= Capacity /\ added \in 0..MaxEpisodes
    BY <2>1, ReplayAssumption DEF Lists
  <2> QED BY <2>3, <2>4, <2>5 DEF ReplayTypeOK
<1> QED BY <1>1, <1>2, <1>3, PTL DEF ReplaySpec

-----------------------------------------------------------------------------
(***************************************************************************)
(* SecureAggregation. The steps of a round only fill in values that were   *)
(* chosen; what is to be shown is arithmetic: sums of congruent numbers    *)
(* are congruent, the shares of a number add up to it modulo P, the table  *)
(* of shares may be summed by rows or by columns, and the number nearest   *)
(* to zero in a class is one (SignedNear).                                 *)
(***************************************************************************)

Cong(a, b) == \E k \in Int : a = b + k * P

LEMMA ModulusIs == P \in Nat \ {0} /\ Half \in Nat /\ P = 2 * Half + 1
  BY AggregationAssumption DEF Half

LEMMA ModIs ==
  ASSUME NEW a \in Int
  PROVE  a % P \in 0..(P - 1) /\ Cong(a % P, a)
<1>1. P \in Nat \ {0}
  BY ModulusIs
<1>2. a % P \in 0..(P - 1) /\ a = P * (a \div P) + (a % P) /\ a \div P \in Int
  BY <1>1
<1>3. a % P = a + (- (a \div P)) * P /\ - (a \div P) \in Int
  BY <1>1, <1>2
<1> QED BY <1>2, <1>3 DEF Cong

LEMMA CongSame == ASSUME NEW a \in Int PROVE Cong(a, a)
<1>1. a = a + 0 * P
  BY ModulusIs
<1> QED BY <1>1 DEF Cong

LEMMA CongBack == ASSUME NEW a \in Int, NEW b \in Int, Cong(a, b) PROVE Cong(b, a)
<1>1. PICK k \in Int : a = b + k * P
  BY DEF Cong
<1>2. b = a + (- k) * P
  BY <1>1, ModulusIs
<1> QED BY <1>2 DEF Cong

LEMMA CongThrough ==
  ASSUME NEW a \in Int, NEW b \in Int, NEW c \in Int, Cong(a, b), Cong(b, c)
  PROVE  Cong(a, c)
<1>1. PICK k \in Int : a = b + k * P
  BY DEF Cong
<1>2. PICK l \in Int : b = c + l * P
  BY DEF Cong
<1>3. a = c + (k + l) * P
  BY <1>1, <1>2, ModulusIs
<1> QED BY <1>3 DEF Cong

LEMMA CongPlus ==
  ASSUME NEW a \in Int, NEW b \in Int, NEW c \in Int, NEW d \in Int, Cong(a, b), Cong(c, d)
  PROVE  Cong(a + c, b + d)
<1>1. PICK k \in Int : a = b + k * P
  BY DEF Cong
<1>2. PICK l \in Int : c = d + l * P
  BY DEF Cong
<1>3. a + c = b + d + (k + l) * P
  BY <1>1, <1>2, ModulusIs
<1> QED BY <1>3 DEF Cong

\* Numbers that are less than P apart are the same if they are congruent.
LEMMA CongNear ==
  ASSUME NEW a \in Int, NEW b \in Int, Cong(a, b), a - b < P, b - a < P
  PROVE  a = b
<1>1. PICK k \in Int : a = b + k * P
  BY DEF Cong
<1>2. P \in Nat \ {0}
  BY ModulusIs
<1>3. ~ (k >= 1)
  <2> SUFFICES ASSUME k >= 1 PROVE k * P >= P
    BY <1>1, <1>2
  <2> QED BY <1>2
<1>4. ~ (k <= -1)
  <2> SUFFICES ASSUME k <= -1 PROVE k * P <= - P
    BY <1>1, <1>2
  <2> QED BY <1>2
<1>5. k = 0
  BY <1>3, <1>4
<1> QED BY <1>1, <1>2, <1>5

LEMMA SumOfIs == \A f, S : SumOf(f, S) = Total(f, S)
  BY DEF SumOf, Total

\* Sums of congruent values are congruent.
LEMMA CongTotal ==
  ASSUME NEW f, NEW h, NEW S, Summable(f, S), Summable(h, S), \A x \in S : Cong(f[x], h[x])
  PROVE  Cong(Total(f, S), Total(h, S))
<1> DEFINE Q == {T \in SUBSET S : Cong(Total(f, T), Total(h, T))}
<1>1. {} \in Q
  BY TotalOf, CongSame
<1>2. ASSUME NEW T \in SUBSET S, NEW x \in S, T \in Q, x \notin T PROVE T \cup {x} \in Q
  <2>1. Cong(Total(f, T), Total(h, T)) /\ Cong(f[x], h[x])
    BY <1>2
  <2> HIDE DEF Q
  <2>2. /\ Total(f, T) \in Int /\ Total(h, T) \in Int
        /\ Total(f, T \cup {x}) = f[x] + Total(f, T) /\ Total(h, T \cup {x}) = h[x] + Total(h, T)
    BY <1>2, TotalOneMore
  <2>3. f[x] \in Int /\ h[x] \in Int
    BY DEF Summable
  <2>4. Cong(Total(f, T \cup {x}), Total(h, T \cup {x}))
    BY <2>1, <2>2, <2>3, CongPlus
  <2>5. T \cup {x} \in SUBSET S
    OBVIOUS
  <2> QED BY <2>4, <2>5 DEF Q
<1> HIDE DEF Q
<1>3. S \in Q
  BY <1>1, <1>2, FiniteInduction DEF Summable
<1> QED BY <1>3 DEF Q

-----------------------------------------------------------------------------
(* The protocol. *)

\* The shares of a client add up to its value, modulo P.
Column(c) == [p \in Party |-> shares[p][c]]

Shared ==
  /\ \A c \in Results : update[c] \in Int
  /\ \A p \in Party, c \in Results : shares[p][c] \in Int
  /\ \A c \in Results : Cong(Total(Column(c), Party), update[c])

AggInv ==
  /\ phase \in {"fit", "sum", "averaged"}
  /\ update \in [Client -> Int \cup {Misshapen, None}]
  /\ DOMAIN sums = Party
  /\ phase = "fit" => \A p \in Party : sums[p] = None
  /\ phase # "fit" => Shared
  /\ phase # "fit" => \A p \in Party : sums[p] \in {None, Total(shares[p], Results) % P}
  /\ SumIsExact

LEMMA ResultsFinite == IsFiniteSet(Results)
  BY AggregationAssumption, FS_Subset DEF Results

LEMMA NewRoundInv ==
  ASSUME AggInv, NewRound
  PROVE  AggInv'
<1>1. update' \in [Client -> Int \cup {Misshapen, None}] /\ DOMAIN sums' = Party /\ \A p \in Party : sums'[p] = None
  BY DEF NewRound
<1> QED BY <1>1 DEF NewRound, AggInv, SumIsExact

LEMMA FitInv ==
  ASSUME AggInv, NEW c \in Client, Fit(c)
  PROVE  AggInv'
<1>1. update' \in [Client -> Int \cup {Misshapen, None}]
  BY AggregationAssumption DEF Fit, AggInv
<1> QED BY <1>1 DEF Fit, AggInv, SumIsExact

LEMMA ShareInv ==
  ASSUME AggInv, Share
  PROVE  AggInv'
<1> DEFINE others == Party \ {LastParty}
<1>1. PICK random \in [others -> [Results -> 0..(P - 1)]] :
        shares' = [p \in Party |-> IF p # LastParty THEN random[p] ELSE [c \in Results |-> LastShare(c, random)]]
  BY DEF Share, Randomness, SplitIntoShares
<1>2. phase = "fit" /\ phase' = "sum" /\ UNCHANGED <<update, sums>> /\ Results' = Results
  BY DEF Share, Results
<1>3. \A c \in Results : update[c] \in Int
  BY DEF Share, AggInv, Fits, Results
<1>4. P \in Nat \ {0} /\ 0..(P - 1) \subseteq Int
  BY ModulusIs
<1>5. LastParty \in Party /\ IsFiniteSet(Party) /\ IsFiniteSet(others)
  BY AggregationAssumption, FS_RemoveElement
<1>6. ASSUME NEW c \in Results
      PROVE  /\ \A p \in Party : shares'[p][c] \in Int
             /\ Cong(Total(Column(c)', Party), update[c])
  <2> DEFINE row == [q \in others |-> random[q][c]]
             column == [p \in Party |-> shares'[p][c]]
             rest == Total(row, others)
  <2>1. Summable(row, others)
    BY <1>4, <1>5 DEF Summable
  <2>2. rest \in Int
    BY <2>1, TotalOf
  <2>3. LastShare(c, random) = ((update[c] % P) - rest) % P
    BY SumOfIs DEF LastShare, Encode
  <2>4. \A p \in others : column[p] = row[p]
    BY <1>1
  <2>5. column[LastParty] = ((update[c] % P) - rest) % P
    BY <1>1, <1>5, <2>3
  <2>6. Column(c)' = column
    BY DEF Column
  <2> HIDE DEF row, column, rest
  <2>7. update[c] \in Int /\ update[c] % P \in Int /\ Cong(update[c] % P, update[c])
    BY <1>3, <1>4, ModIs
  <2>8. column[LastParty] \in Int /\ Cong(column[LastParty], (update[c] % P) - rest)
    BY <1>4, <2>2, <2>5, <2>7, ModIs
  <2>9. \A p \in others : row[p] \in Int
    BY <2>1 DEF Summable
  <2>10. Summable(column, Party)
    BY <1>5, <2>4, <2>8, <2>9 DEF Summable
  <2>11. Total(column, Party) = column[LastParty] + rest
    <3>1. Total(column, Party) = column[LastParty] + Total(column, others)
      BY <1>5, <2>10, TotalOf
    <3>2. Total(column, others) = Total(row, others)
      BY <2>1, <2>4, TotalSame
    <3> QED BY <3>1, <3>2 DEF rest
  <2>12. Cong(Total(column, Party), update[c])
    <3>1. Cong(column[LastParty] + rest, ((update[c] % P) - rest) + rest)
      <4> DEFINE final == column[LastParty]
                 gap == (update[c] % P) - rest
      <4>1. final \in Int /\ gap \in Int /\ rest \in Int /\ Cong(final, gap) /\ Cong(rest, rest)
        BY <2>2, <2>7, <2>8, CongSame
      <4> HIDE DEF final, gap
      <4>2. Cong(final + rest, gap + rest)
        BY <4>1, CongPlus
      <4> QED BY <4>2 DEF final, gap
    <3>2. ((update[c] % P) - rest) + rest = update[c] % P /\ column[LastParty] + rest \in Int
      BY <2>2, <2>7, <2>8
    <3>3. Cong(column[LastParty] + rest, update[c] % P)
      BY <3>1, <3>2
    <3> QED BY <2>7, <2>11, <3>2, <3>3, CongThrough
  <2>13. \A p \in Party : shares'[p][c] \in Int
    BY <2>10 DEF Summable, column
  <2> QED BY <2>6, <2>12, <2>13
<1>7. Shared'
  BY <1>2, <1>3, <1>6 DEF Shared
<1>8. \A p \in Party : sums'[p] = None
  BY <1>2 DEF AggInv
<1>9. SumIsExact'
  BY <1>2 DEF SumIsExact
<1> QED BY <1>2, <1>7, <1>8, <1>9 DEF AggInv

LEMMA PartySumInv ==
  ASSUME AggInv, NEW p \in Party, PartySum(p)
  PROVE  AggInv'
<1>1. /\ phase = "sum" /\ UNCHANGED <<phase, update, shares>> /\ Results' = Results
      /\ sums' = [sums EXCEPT ![p] = Total(shares[p], Results) % P]
  BY SumOfIs DEF PartySum, Results
<1>2. DOMAIN sums' = Party
      /\ \A q \in Party : sums'[q] = IF q = p THEN Total(shares[p], Results) % P ELSE sums[q]
  BY <1>1 DEF AggInv
<1>3. Shared'
  BY <1>1 DEF AggInv, Shared, Column
<1>4. \A q \in Party : sums'[q] \in {None, Total(shares'[q], Results') % P}
  BY <1>1, <1>2 DEF AggInv
<1>5. SumIsExact'
  BY <1>1 DEF SumIsExact
<1> QED BY <1>1, <1>2, <1>3, <1>4, <1>5 DEF AggInv

\* When every party sum is there, their sum is congruent to the true one.
LEMMA SumsAgree ==
  ASSUME AggInv, phase = "sum", \A p \in Party : sums[p] # None
  PROVE  Total(sums, Party) \in Int /\ TrueSum \in Int /\ Cong(Total(sums, Party), TrueSum)
<1> DEFINE rows == [p \in Party |-> Total(shares[p], Results)]
           columns == [c \in Results |-> Total([p \in Party |-> shares[p][c]], Party)]
<1>1. IsFiniteSet(Results) /\ IsFiniteSet(Party) /\ Shared
  BY ResultsFinite, AggregationAssumption DEF AggInv
<1>2. \A p \in Party, c \in Results : shares[p][c] \in Int
  BY <1>1 DEF Shared
<1>3. Summable(rows, Party) /\ Summable(columns, Results) /\ Total(rows, Party) = Total(columns, Results)
  BY <1>1, <1>2, TotalExchange
<1>4. \A p \in Party : sums[p] = rows[p] % P
  BY DEF AggInv
<1>5. \A c \in Results : Cong(columns[c], update[c])
  BY <1>1 DEF Shared, Column
<1> HIDE DEF rows, columns
<1>6. \A p \in Party : sums[p] \in Int /\ Cong(sums[p], rows[p])
  <2> TAKE p \in Party
  <2> DEFINE row == rows[p]
  <2>1. row \in Int /\ sums[p] = row % P
    BY <1>3, <1>4 DEF Summable
  <2> HIDE DEF row
  <2>2. row % P \in 0..(P - 1) /\ Cong(row % P, row) /\ P \in Nat
    BY <2>1, ModIs, ModulusIs
  <2> QED BY <2>1, <2>2 DEF row
<1>7. Summable(sums, Party) /\ Summable(update, Results)
  BY <1>1, <1>6 DEF Summable, Shared
<1>8. Cong(Total(sums, Party), Total(rows, Party))
  BY <1>3, <1>6, <1>7, CongTotal
<1>9. Cong(Total(columns, Results), Total(update, Results))
  BY <1>3, <1>5, <1>7, CongTotal
<1>10. Total(sums, Party) \in Int /\ Total(rows, Party) \in Int /\ Total(update, Results) \in Int
  BY <1>3, <1>7, TotalOf
<1>11. Cong(Total(sums, Party), Total(update, Results))
  BY <1>3, <1>8, <1>9, <1>10, CongThrough
<1> QED BY <1>10, <1>11, SumOfIs DEF TrueSum

\* What is decoded, before it is rounded, lies within half the modulus, as the true
\* sum does.
LEMMA SignedNear ==
  ASSUME NEW n \in 0..(P - 1)
  PROVE  Signed(n) \in (- Half)..Half /\ Cong(Signed(n), n)
<1>1. P \in Nat \ {0} /\ Half \in Nat /\ P = 2 * Half + 1
  BY ModulusIs
<1>2. Signed(n) \in (- Half)..Half
  BY <1>1 DEF Signed
<1>3. n = n + 0 * P /\ n - P = n + (-1) * P
  BY <1>1
<1> QED BY <1>2, <1>3 DEF Signed, Cong

LEMMA SizeIs ==
  ASSUME NEW n \in Int
  PROVE  Size(n) \in Nat /\ (Size(n) = 0 <=> n = 0) /\ Size(n) \in {n, - n}
  BY DEF Size

LEMMA Triangle ==
  ASSUME NEW a \in Int, NEW b \in Int
  PROVE  Size(a + b) <= Size(a) + Size(b)
  BY DEF Size

LEMMA TimesGrows ==
  ASSUME NEW k \in Nat, NEW a \in Nat, NEW b \in Nat, a <= b
  PROVE  k * a \in Nat /\ k * b \in Nat /\ k * a <= k * b
<1>1. b - a \in Nat /\ k * (b - a) \in Nat /\ k * (b - a) = k * b - k * a
  OBVIOUS
<1> QED BY <1>1

\* A number is never further from the nearest multiple of s than half of s.
LEMMA NearestIs ==
  ASSUME NEW n \in Int, NEW s \in Nat \ {0}
  PROVE  /\ Nearest(n, s) \in Int /\ 2 * Size(Nearest(n, s) - n) <= s
         /\ s = 1 => Nearest(n, s) = n
<1> DEFINE q == n \div s
           r == n % s
<1>1. q \in Int /\ r \in 0..(s - 1) /\ n = s * q + r
  OBVIOUS
<1>2. Nearest(n, s) = IF 2 * r < s \/ (2 * r = s /\ q % 2 = 0) THEN s * q ELSE s * (q + 1)
  BY DEF Nearest
<1> HIDE DEF q, r
<1>3. PICK m \in Int : m = s * q
  BY <1>1
<1>4. s * (q + 1) = m + s
  BY <1>1, <1>3
<1>5. Nearest(n, s) \in {m, m + s} /\ n = m + r
      /\ (Nearest(n, s) = m => 2 * r <= s) /\ (Nearest(n, s) = m + s => 2 * r >= s)
  BY <1>1, <1>2, <1>3, <1>4
<1>6. s = 1 => r = 0 /\ Nearest(n, s) = m
  BY <1>1, <1>2, <1>3
<1> QED BY <1>1, <1>3, <1>5, <1>6 DEF Size

\* The spacing at a number in reach is the least: 1 up to the limit, and beyond it
\* half of it would not do.
LEMMA SpacingIs ==
  ASSUME NEW n \in Int, NEW limit \in Nat \ {0}, \E s \in Spacing : Size(n) <= limit * s
  PROVE  /\ SpacingAt(n, limit) \in Spacing
         /\ Size(n) <= limit => SpacingAt(n, limit) = 1
         /\ SpacingAt(n, limit) # 1 => limit * SpacingAt(n, limit) < 2 * Size(n)
<1> DEFINE Reaching == {s \in Spacing : Size(n) <= limit * s}
<1>1. Spacing \subseteq Nat \ {0} /\ 1 \in Spacing /\ \A s \in Spacing \ {1} : \E t \in Spacing : s = 2 * t
  BY FloatAssumption
<1>2. Reaching \in SUBSET Nat /\ Reaching # {}
  BY <1>1
<1>3. PICK m \in Reaching : \A t \in Reaching : m <= t
  BY <1>2, LeastNat
<1>4. /\ SpacingAt(n, limit) \in Spacing /\ Size(n) <= limit * SpacingAt(n, limit)
      /\ \A t \in Spacing : Size(n) <= limit * t => SpacingAt(n, limit) <= t
  BY <1>3 DEF SpacingAt
<1> DEFINE u == SpacingAt(n, limit)
<1> HIDE DEF u
<1>5. u \in Spacing /\ u \in Nat \ {0} /\ \A t \in Spacing : Size(n) <= limit * t => u <= t
  BY <1>1, <1>4 DEF u
<1>6. Size(n) <= limit => u = 1
  <2> SUFFICES ASSUME Size(n) <= limit PROVE u = 1
    OBVIOUS
  <2>1. limit = limit * 1
    OBVIOUS
  <2> QED BY <1>1, <1>5, <2>1
<1>7. u # 1 => limit * u < 2 * Size(n)
  <2> SUFFICES ASSUME u # 1 PROVE limit * u < 2 * Size(n)
    OBVIOUS
  <2>1. PICK t \in Spacing : u = 2 * t
    BY <1>1, <1>5
  <2>2. t \in Nat \ {0} /\ t < u /\ Size(n) \in Nat
    BY <1>1, <2>1, SizeIs
  <2>3. ~(Size(n) <= limit * t)
    BY <1>5, <2>2
  <2>4. limit * u = 2 * (limit * t) /\ limit * t \in Nat
    BY <2>1, <2>2
  <2> QED BY <2>2, <2>3, <2>4
<1> QED BY <1>5, <1>6, <1>7 DEF u

\* Rounding adds at most one part in the limit, and nothing up to it.
LEMMA RoundedIs ==
  ASSUME NEW n \in Int, NEW limit \in Nat \ {0}, \E s \in Spacing : Size(n) <= limit * s
  PROVE  /\ Rounded(n, limit) \in Int
         /\ Size(n) <= limit => Rounded(n, limit) = n
         /\ limit * Size(Rounded(n, limit) - n) <= Size(n)
<1> DEFINE s == SpacingAt(n, limit)
           m == Rounded(n, limit)
           off == Size(m - n)
<1>1. s \in Nat \ {0} /\ (Size(n) <= limit => s = 1) /\ (s # 1 => limit * s < 2 * Size(n))
  BY SpacingIs, FloatAssumption
<1>2. m = Nearest(n, s)
  BY DEF Rounded
<1> HIDE DEF s, m
<1>3. m \in Int /\ 2 * off <= s /\ (s = 1 => m = n)
  BY <1>1, <1>2, NearestIs
<1>4. off \in Nat /\ Size(n) \in Nat /\ (m = n => off = 0)
  BY <1>3, SizeIs
<1> HIDE DEF off
<1>5. CASE s = 1
  <2>1. limit * off = 0
    BY <1>3, <1>4, <1>5
  <2> QED BY <1>3, <1>4, <1>5, <2>1 DEF m, off
<1>6. CASE s # 1
  <2>1. limit * (2 * off) <= limit * s
    BY <1>1, <1>3, <1>4, TimesGrows
  <2>2. limit * (2 * off) = 2 * (limit * off) /\ limit * off \in Nat /\ limit * s \in Nat
    BY <1>1, <1>4
  <2>3. limit * off <= Size(n)
    BY <1>1, <1>4, <1>6, <2>1, <2>2
  <2> QED BY <1>1, <1>3, <1>6, <2>3 DEF m, off
<1> QED BY <1>5, <1>6

\* The two roundings of a number within half the modulus.
LEMMA DecodeClose ==
  ASSUME NEW n \in (- Half)..Half
  PROVE  LET k == Rounded(Rounded(n, DoubleLimit), SingleLimit)
         IN  /\ Size(n) <= SingleLimit => k = n
             /\ SingleLimit * Size(k - n) <= 2 * Size(n)
<1> DEFINE m == Rounded(n, DoubleLimit)
           k == Rounded(m, SingleLimit)
           d == Size(m - n)
           e == Size(k - m)
<1>1. /\ SingleLimit \in Nat \ {0} /\ DoubleLimit \in Nat \ {0} /\ SingleLimit + 1 <= DoubleLimit
      /\ Half \in Nat /\ P = 2 * Half + 1
  BY FloatAssumption, ModulusIs
<1>2. PICK s \in Spacing : P <= SingleLimit * s
  BY FloatAssumption
<1>3. s \in Nat /\ n \in Int /\ Size(n) \in Nat /\ Size(n) <= Half
  BY <1>1, FloatAssumption DEF Size
<1>4. SingleLimit * s <= DoubleLimit * s
  <2>1. s * SingleLimit <= s * DoubleLimit
    BY <1>1, <1>3, TimesGrows
  <2> QED BY <1>1, <1>3, <2>1
<1>5. Size(n) <= DoubleLimit * s
  <2>1. SingleLimit * s \in Nat /\ DoubleLimit * s \in Nat
    BY <1>1, <1>3
  <2> QED BY <1>1, <1>2, <1>3, <1>4, <2>1
<1>6. m \in Int /\ (Size(n) <= DoubleLimit => m = n) /\ DoubleLimit * d <= Size(n)
  BY <1>1, <1>3, <1>5, RoundedIs
<1> HIDE DEF m
<1>7. d \in Nat /\ Size(m) \in Nat /\ Size(m) <= Size(n) + d
  <2>1. m = n + (m - n) /\ m - n \in Int
    BY <1>3, <1>6
  <2> QED BY <1>3, <1>6, <2>1, SizeIs, Triangle
<1> HIDE DEF d
<1>8. (SingleLimit + 1) * d <= Size(n) /\ d <= Size(n) /\ (SingleLimit + 1) * d = SingleLimit * d + d
      /\ SingleLimit * d \in Nat
  <2>1. d * (SingleLimit + 1) <= d * DoubleLimit
    BY <1>1, <1>7, TimesGrows
  <2>2. SingleLimit * d \in Nat /\ d * (SingleLimit + 1) = SingleLimit * d + d /\ d * DoubleLimit = DoubleLimit * d
        /\ (SingleLimit + 1) * d = SingleLimit * d + d /\ DoubleLimit * d \in Nat
    BY <1>1, <1>7
  <2> QED BY <1>3, <1>6, <1>7, <2>1, <2>2
<1>9. Size(m) <= SingleLimit * s
  <2>1. SingleLimit * s \in Nat
    BY <1>1, <1>3
  <2> QED BY <1>1, <1>2, <1>3, <1>7, <1>8, <2>1
<1>10. k \in Int /\ (Size(m) <= SingleLimit => k = m) /\ SingleLimit * e <= Size(m)
  BY <1>1, <1>6, <1>9, RoundedIs
<1> HIDE DEF k
<1>11. e \in Nat /\ Size(k - n) \in Nat /\ Size(k - n) <= e + d
  <2>1. k - n = (k - m) + (m - n) /\ k - m \in Int /\ m - n \in Int
    BY <1>3, <1>6, <1>10
  <2> QED BY <1>3, <1>6, <1>10, <2>1, SizeIs, Triangle DEF d
<1> HIDE DEF e
<1>12. SingleLimit * Size(k - n) <= 2 * Size(n)
  <2>1. SingleLimit * Size(k - n) <= SingleLimit * (e + d)
    BY <1>1, <1>7, <1>11, TimesGrows
  <2>2. SingleLimit * (e + d) = SingleLimit * e + SingleLimit * d /\ SingleLimit * e \in Nat
        /\ SingleLimit * Size(k - n) \in Nat
    BY <1>1, <1>7, <1>11
  <2> QED BY <1>3, <1>7, <1>8, <1>10, <2>1, <2>2
<1>13. Size(n) <= SingleLimit => k = n
  BY <1>1, <1>3, <1>6, <1>10
<1> QED BY <1>12, <1>13 DEF k, m

LEMMA ReconstructInv ==
  ASSUME AggInv, Reconstruct
  PROVE  AggInv'
<1> DEFINE total == Total(sums, Party)
<1>1. /\ phase = "sum" /\ phase' = "averaged" /\ UNCHANGED <<update, shares, sums>>
      /\ \A p \in Party : sums[p] # None
  BY DEF Reconstruct
<1>2. Results' = Results /\ TrueSum' = TrueSum
  BY <1>1 DEF Results, TrueSum
<1>3. outcome' = [sum |-> Decode(total % P), clients |-> Cardinality(Results)]
  BY SumOfIs DEF Reconstruct
<1>4. total \in Int /\ TrueSum \in Int /\ Cong(total, TrueSum)
  BY <1>1, SumsAgree
<1>5. total % P \in 0..(P - 1) /\ Cong(total % P, total)
  BY <1>4, ModIs
<1> HIDE DEF total
<1>6. Signed(total % P) \in (- Half)..Half /\ Cong(Signed(total % P), total % P)
  BY <1>5, SignedNear
<1>7. Half \in Nat /\ P = 2 * Half + 1
  BY ModulusIs
<1>8. total % P \in Int /\ Signed(total % P) \in Int
  BY <1>5, <1>6, <1>7
<1>9. Cong(Signed(total % P), TrueSum)
  BY <1>4, <1>5, <1>6, <1>8, CongThrough
<1>10. ASSUME TrueSum \in (- Half)..Half
       PROVE  /\ Size(TrueSum) <= SingleLimit => Decode(total % P) = TrueSum
              /\ SingleLimit * Size(Decode(total % P) - TrueSum) <= 2 * Size(TrueSum)
  <2>1. Signed(total % P) - TrueSum < P /\ TrueSum - Signed(total % P) < P
    BY <1>6, <1>7, <1>10
  <2>2. Signed(total % P) = TrueSum
    BY <1>4, <1>8, <1>9, <2>1, CongNear
  <2> QED BY <1>10, <2>2, DecodeClose DEF Decode
<1>11. SumIsExact'
  <2>1. TrueSum' \in (- Half)..Half =>
          /\ Size(TrueSum') <= SingleLimit => outcome'.sum = TrueSum'
          /\ SingleLimit * Size(outcome'.sum - TrueSum') <= 2 * Size(TrueSum')
    BY ONLY <1>2, <1>3, <1>10
  <2>2. outcome'.clients = Cardinality(Results')
    BY <1>2, <1>3
  <2> QED BY <2>1, <2>2 DEF SumIsExact
<1>12. Shared'
  BY <1>1, <1>2 DEF AggInv, Shared, Column
<1> QED BY <1>1, <1>2, <1>11, <1>12 DEF AggInv

LEMMA AggregationInvariant == AggregationSpec => []AggInv
<1>1. AggregationInit => AggInv
  BY DEF AggregationInit, AggInv, SumIsExact
<1>2. AggInv /\ [AggregationNext]_aggregationVars => AggInv'
  <2> SUFFICES ASSUME AggInv, [AggregationNext]_aggregationVars PROVE AggInv'
    OBVIOUS
  <2>1. CASE UNCHANGED aggregationVars
    BY <2>1 DEF aggregationVars, AggInv, SumIsExact, Shared, Column, Results, TrueSum
  <2>2. ASSUME Refuse \/ NextRound PROVE AggInv'
    BY <2>2, NewRoundInv DEF Refuse, NextRound
  <2> QED BY <2>1, <2>2, FitInv, ShareInv, PartySumInv, ReconstructInv DEF AggregationNext
<1> QED BY <1>1, <1>2, PTL DEF AggregationSpec

\* For any number of clients and of parties, any odd modulus and any random shares:
\* the shares of a client add up to its value, the table of shares adds up the same
\* by parties as by clients, and no two numbers within half the modulus are congruent.
\* Each of the two roundings adds at most one part in its limit, and nothing up to it.
THEOREM AggregationIsExact == AggregationSpec => []SumIsExact
<1>1. AggInv => SumIsExact
  BY DEF AggInv
<1> QED BY <1>1, AggregationInvariant, PTL

\* Type correctness of the aggregation: what the parties send are numbers below the
\* modulus.
THEOREM AggregationTypeCorrect == AggregationSpec => []AggregationTypeOK
<1> DEFINE Fitted == fitted \subseteq Client /\ \A c \in Client : update[c] \in Value \cup {None, Misshapen}
<1>1. AggregationInit => Fitted
  BY DEF AggregationInit
<1>2. AggInv /\ Fitted /\ [AggregationNext]_aggregationVars => Fitted'
  <2> SUFFICES ASSUME AggInv, Fitted, [AggregationNext]_aggregationVars PROVE Fitted'
    OBVIOUS
  <2>1. ASSUME NEW c \in Client, Fit(c) PROVE Fitted'
    BY <2>1 DEF Fit, AggInv
  <2>2. ASSUME NewRound PROVE Fitted'
    BY <2>2 DEF NewRound
  <2> QED BY <2>1, <2>2
      DEF AggregationNext, Refuse, Share, PartySum, Reconstruct, NextRound, aggregationVars
<1>3. AggInv /\ Fitted => AggregationTypeOK
  <2> SUFFICES ASSUME AggInv, Fitted, NEW p \in Party, sums[p] # None PROVE sums[p] \in 0..P - 1
    BY DEF AggregationTypeOK, AggInv
  <2>1. phase # "fit" /\ Shared /\ sums[p] = Total(shares[p], Results) % P
    BY DEF AggInv
  <2>2. Summable(shares[p], Results)
    BY <2>1, ResultsFinite DEF Shared, Summable
  <2>3. Total(shares[p], Results) \in Int
    BY <2>2, TotalOf
  <2> QED BY <2>1, <2>3, ModulusIs
<1> QED BY <1>1, <1>2, <1>3, AggregationInvariant, PTL DEF AggregationSpec

\* The random choice deals all parties but p what is in the view.
Gives(random, p, view) == \A q \in Party \ {p} : SplitIntoShares(random)[q] = view[q]

\* The last party's share completes the others to the update.
LEMMA LastShareIs ==
  ASSUME NEW c \in Results, update[c] \in Int, NEW random \in Randomness
  PROVE  /\ Total([q \in Party \ {LastParty} |-> random[q][c]], Party \ {LastParty}) \in Int
         /\ LastShare(c, random) \in 0..(P - 1)
         /\ Cong(LastShare(c, random) + Total([q \in Party \ {LastParty} |-> random[q][c]], Party \ {LastParty}),
                 update[c])
<1> DEFINE others == Party \ {LastParty}
           row == [q \in others |-> random[q][c]]
           rest == Total(row, others)
           final == LastShare(c, random)
           gap == (update[c] % P) - rest
<1>1. IsFiniteSet(others) /\ P \in Nat \ {0} /\ 0..(P - 1) \subseteq Int
  BY AggregationAssumption, ModulusIs, FS_RemoveElement
<1>2. Summable(row, others)
  BY <1>1 DEF Summable, Randomness
<1>3. rest \in Int
  BY <1>2, TotalOf
<1>4. final = gap % P
  BY SumOfIs DEF LastShare, Encode
<1> HIDE DEF rest, final, row
<1>5. update[c] % P \in Int /\ Cong(update[c] % P, update[c])
  BY <1>1, ModIs
<1>6. gap \in Int
  BY <1>3, <1>5
<1>7. final \in 0..(P - 1) /\ Cong(final, gap)
  <2> HIDE DEF gap
  <2> QED BY <1>4, <1>6, ModIs
<1>8. Cong(final + rest, gap + rest)
  <2> HIDE DEF gap
  <2> QED BY <1>1, <1>3, <1>6, <1>7, CongSame, CongPlus
<1>9. gap + rest = update[c] % P /\ final + rest \in Int
  BY <1>1, <1>3, <1>5, <1>7
<1>10. Cong(final + rest, update[c])
  <2> HIDE DEF gap
  <2> QED BY <1>5, <1>8, <1>9, CongThrough
<1> QED BY <1>3, <1>7, <1>10 DEF rest, final, row

\* Only one share below the modulus does.
LEMMA SameShare ==
  ASSUME NEW a \in 0..(P - 1), NEW b \in 0..(P - 1), NEW r \in Int, NEW u \in Int, Cong(a + r, u), Cong(b + r, u)
  PROVE  a = b
<1>1. P \in Nat \ {0} /\ a \in Int /\ b \in Int /\ a + r \in Int /\ b + r \in Int
  BY ModulusIs
<1>2. PICK k \in Int : a + r = u + k * P
  BY DEF Cong
<1>3. PICK l \in Int : b + r = u + l * P
  BY DEF Cong
<1>4. a = b + (k - l) * P /\ k - l \in Int
  <2>1. (k - l) * P = k * P - l * P /\ k * P \in Int /\ l * P \in Int
    BY <1>1
  <2> QED BY <1>1, <1>2, <1>3, <2>1
<1>5. Cong(a, b)
  BY <1>4 DEF Cong
<1>6. a - b < P /\ b - a < P
  BY <1>1
<1> QED BY <1>1, <1>5, <1>6, CongNear

\* A share of each client for each party.
Table == [Party -> [Results -> 0..(P - 1)]]

\* What the parties of S together hold of client c.
Held(table, c, S) == Total([q \in S |-> table[q][c]], S)

LEMMA HeldIs ==
  ASSUME NEW S \in SUBSET Party, NEW table, \A q \in S : table[q] \in [Results -> 0..(P - 1)], NEW c \in Results
  PROVE  /\ Held(table, c, S) \in Int
         /\ \A p \in S : Held(table, c, S) = table[p][c] + Held(table, c, S \ {p})
<1> DEFINE column == [q \in S |-> table[q][c]]
<1>1. IsFiniteSet(S) /\ 0..(P - 1) \subseteq Int
  BY AggregationAssumption, FS_Subset, ModulusIs
<1>2. Summable(column, S)
  BY <1>1 DEF Summable
<1>3. Total(column, S) \in Int /\ \A p \in S : Total(column, S) = column[p] + Total(column, S \ {p})
  BY <1>2, TotalOf
<1>4. ASSUME NEW p \in S PROVE Held(table, c, S) = table[p][c] + Held(table, c, S \ {p})
  <2> DEFINE rest == [q \in S \ {p} |-> table[q][c]]
  <2>1. Summable(rest, S \ {p})
    BY <1>1, FS_RemoveElement DEF Summable
  <2>2. \A q \in S \ {p} : column[q] = rest[q]
    OBVIOUS
  <2>3. Total(column, S \ {p}) = Total(rest, S \ {p})
    <3> HIDE DEF column, rest
    <3> QED BY <2>1, <2>2, TotalSame
  <2> QED BY <1>3, <2>3 DEF Held
<1> QED BY <1>3, <1>4 DEF Held

\* What is dealt adds up to the update, for every client.
LEMMA SplitIs ==
  ASSUME NEW random \in Randomness, \A c \in Results : update[c] \in Int
  PROVE  /\ SplitIntoShares(random) \in Table
         /\ \A c \in Results : Cong(Held(SplitIntoShares(random), c, Party), update[c])
<1> DEFINE t == SplitIntoShares(random)
           others == Party \ {LastParty}
<1>1. \A c \in Results : t[LastParty][c] = LastShare(c, random) /\ LastShare(c, random) \in 0..(P - 1)
  BY LastShareIs, AggregationAssumption DEF SplitIntoShares
<1>2. \A q \in others : t[q] = random[q] /\ t[q] \in [Results -> 0..(P - 1)]
  BY DEF SplitIntoShares, Randomness
<1>3. t[LastParty] \in [Results -> 0..(P - 1)]
  BY LastShareIs, AggregationAssumption DEF SplitIntoShares
<1>4. t \in Table
  BY <1>2, <1>3 DEF Table, SplitIntoShares
<1>5. ASSUME NEW c \in Results PROVE Cong(Held(t, c, Party), update[c])
  <2>1. Held(t, c, Party) = t[LastParty][c] + Held(t, c, others)
    <3> HIDE DEF t
    <3> QED BY <1>4, HeldIs, AggregationAssumption DEF Table
  <2>2. [q \in others |-> t[q][c]] = [q \in others |-> random[q][c]]
    BY <1>2
  <2>3. Held(t, c, others) = Total([q \in others |-> random[q][c]], others)
    BY <2>2 DEF Held
  <2>4. Cong(LastShare(c, random) + Total([q \in others |-> random[q][c]], others), update[c])
    BY LastShareIs
  <2> QED BY <1>1, <2>1, <2>3, <2>4
<1> QED BY <1>4, <1>5

\* Two tables that the parties of all but p agree on, and that add up to the same.
LEMMA OneTable ==
  ASSUME NEW s \in Table, NEW t \in Table, NEW p \in Party, \A q \in Party \ {p} : s[q] = t[q],
         \A c \in Results : /\ update[c] \in Int
                            /\ Cong(Held(s, c, Party), update[c]) /\ Cong(Held(t, c, Party), update[c])
  PROVE  s = t
<1>1. ASSUME NEW c \in Results PROVE s[p][c] = t[p][c]
  <2>1. /\ Held(s, c, Party) = s[p][c] + Held(s, c, Party \ {p})
        /\ Held(t, c, Party) = t[p][c] + Held(t, c, Party \ {p})
        /\ Held(s, c, Party \ {p}) \in Int
    <3> DEFINE others == Party \ {p}
    <3>1. others \in SUBSET Party /\ Party \in SUBSET Party
      OBVIOUS
    <3>2. \A q \in Party : s[q] \in [Results -> 0..(P - 1)] /\ t[q] \in [Results -> 0..(P - 1)]
      BY DEF Table
    <3>3. \A q \in others : s[q] \in [Results -> 0..(P - 1)]
      BY <3>2
    <3>4. Held(s, c, others) \in Int
      <4> HIDE DEF others
      <4> QED BY <3>1, <3>3, HeldIs
    <3>5. Held(s, c, Party) = s[p][c] + Held(s, c, Party \ {p})
      BY <3>1, <3>2, HeldIs
    <3>6. Held(t, c, Party) = t[p][c] + Held(t, c, Party \ {p})
      BY <3>1, <3>2, HeldIs
    <3> QED BY <3>4, <3>5, <3>6
  <2>2. [q \in Party \ {p} |-> s[q][c]] = [q \in Party \ {p} |-> t[q][c]]
    OBVIOUS
  <2>3. Held(s, c, Party \ {p}) = Held(t, c, Party \ {p})
    BY <2>2 DEF Held
  <2>4. s[p][c] \in 0..(P - 1) /\ t[p][c] \in 0..(P - 1) /\ update[c] \in Int
    BY DEF Table
  <2>5. Cong(s[p][c] + Held(s, c, Party \ {p}), update[c]) /\ Cong(t[p][c] + Held(s, c, Party \ {p}), update[c])
    BY <2>1, <2>3
  <2> QED BY <2>1, <2>4, <2>5, SameShare
<1>2. s[p] = t[p]
  BY <1>1 DEF Table
<1> QED BY <1>2 DEF Table

\* What additive secret sharing is for (README.md:266): the shares of all parties but
\* one say nothing of the updates.  Whatever these are, exactly one random choice of
\* _split_into_shares, and all are equally likely, deals those parties what they see.
THEOREM SharesHideUpdates ==
  ASSUME \A c \in Results : update[c] \in Int,
         NEW p \in Party, NEW view \in [Party \ {p} -> [Results -> 0..(P - 1)]]
  PROVE  \E random \in Randomness :
           /\ Gives(random, p, view)
           /\ \A other \in Randomness : Gives(other, p, view) => other = random
<1> DEFINE seen(c) == Held(view, c, Party \ {p})
           missing(c) == ((update[c] % P) - seen(c)) % P
           table == [q \in Party |-> IF q = p THEN [c \in Results |-> missing(c)] ELSE view[q]]
           random == [q \in Party \ {LastParty} |-> table[q]]
<1>1. ASSUME NEW c \in Results
      PROVE  missing(c) \in 0..(P - 1) /\ Cong(missing(c) + seen(c), update[c])
  <2> DEFINE gap == (update[c] % P) - seen(c)
             m == missing(c)
             s == seen(c)
  <2>1. s \in Int
    BY HeldIs
  <2> HIDE DEF s
  <2>2. update[c] % P \in Int /\ Cong(update[c] % P, update[c]) /\ P \in Nat \ {0}
    BY ModIs, ModulusIs
  <2>3. gap \in Int /\ gap + s = update[c] % P /\ m = gap % P
    BY <2>1, <2>2 DEF s
  <2> HIDE DEF gap, m
  <2>4. m \in 0..(P - 1) /\ Cong(m, gap) /\ m \in Int
    BY <2>2, <2>3, ModIs
  <2>5. Cong(m + s, gap + s)
    BY <2>1, <2>3, <2>4, CongSame, CongPlus
  <2>6. Cong(m + s, update[c])
    BY <2>1, <2>2, <2>3, <2>4, <2>5, CongThrough
  <2> QED BY <2>4, <2>6 DEF m, s
<1> HIDE DEF missing
<1>2. table \in Table /\ \A q \in Party \ {p} : table[q] = view[q]
  BY <1>1 DEF Table
<1>3. ASSUME NEW c \in Results PROVE Cong(Held(table, c, Party), update[c])
  <2>1. Held(table, c, Party) = table[p][c] + Held(table, c, Party \ {p})
    <3> HIDE DEF table
    <3> QED BY <1>2, HeldIs DEF Table
  <2>2. [q \in Party \ {p} |-> table[q][c]] = [q \in Party \ {p} |-> view[q][c]]
    BY <1>2
  <2>3. Held(table, c, Party \ {p}) = seen(c) /\ table[p][c] = missing(c)
    BY <2>2 DEF Held
  <2> QED BY <1>1, <2>1, <2>3
<1>4. random \in Randomness
  BY <1>2 DEF Randomness, Table
<1> HIDE DEF table
<1>5. \A q \in Party \ {LastParty} : SplitIntoShares(random)[q] = table[q]
  BY DEF SplitIntoShares
<1>6. SplitIntoShares(random) = table
  <2> HIDE DEF random
  <2> QED BY <1>2, <1>3, <1>4, <1>5, SplitIs, OneTable, AggregationAssumption
<1>7. Gives(random, p, view)
  BY <1>2, <1>6 DEF Gives
<1>8. ASSUME NEW other \in Randomness, Gives(other, p, view) PROVE other = random
  <2>1. SplitIntoShares(other) \in Table
        /\ \A c \in Results : Cong(Held(SplitIntoShares(other), c, Party), update[c])
    BY <1>8, SplitIs
  <2>2. \A q \in Party \ {p} : SplitIntoShares(other)[q] = table[q]
    BY <1>2, <1>8 DEF Gives
  <2>3. SplitIntoShares(other) = table
    BY <1>2, <1>3, <2>1, <2>2, OneTable
  <2>4. \A q \in Party \ {LastParty} : SplitIntoShares(other)[q] = other[q]
    BY <1>8 DEF SplitIntoShares
  <2> QED BY <1>8, <2>3, <2>4 DEF Randomness
<1> QED BY <1>4, <1>7, <1>8

-----------------------------------------------------------------------------
(***************************************************************************)
(* ShadowMode. ShadowInv says that what a caller is about to write of its  *)
(* asset is what the future of that asset became by then, which does not   *)
(* change any more (Tells), and that what is in the list was written so,   *)
(* once for each call (Logged).                                            *)
(***************************************************************************)

Entry == [status : {"shadow_complete", "shadow_error", "latency_error"}, rl_action : SUBSET Action, confidence : Int]
Comparison == [asset : Asset, baseline : Action, entry : Entry, projected : Int]

\* What an entry says of a call is so, given the future of that call.
Tells(entry, f) ==
  /\ f.state \notin {"none", "pending"}
  /\ entry.status = "shadow_complete" => f.state = "done" /\ entry.rl_action = {f.action}
  /\ entry.status = "shadow_complete" <=> entry.rl_action # {}

\* A call is asked for once, and the worker runs only what it runs.
Asking ==
  /\ DOMAIN future = Asset /\ DOMAIN call = Asset
  /\ executor.queue \in Seq(Asset)
  /\ \A a \in Asset : call[a].pc = "none" => future[a].state = "none"
  /\ \A a \in executor.running : a \in Asset /\ future[a].state = "running"
  /\ \A a \in Asset : future[a].state = "done" => future[a].action \in Action \cup {Invalid} /\ future[a].confidence \in Int

Calling ==
  \A a \in Asset :
    /\ call[a].pc \in {"wait", "push"} => call[a].baseline \in Action
    /\ call[a].pc = "push" => call[a].entry \in Entry /\ Tells(call[a].entry, future[a])

Logged ==
  /\ comparisons \in Seq(Comparison)
  /\ \A i \in DOMAIN comparisons :
       LET r == comparisons[i]
       IN /\ call[r.asset].pc \in {"returned", "raised"}
          /\ Tells(r.entry, future[r.asset])
          /\ r.projected = Reward(r.entry, r.baseline)
          /\ \A j \in DOMAIN comparisons : comparisons[j].asset = r.asset => i = j
  /\ (\E a \in Asset : call[a].pc = "returned") => Len(comparisons) > 0

ShadowInv == Asking /\ Calling /\ Logged

-----------------------------------------------------------------------------
LEMMA LoggedAre ==
  ASSUME Logged
  PROVE  \A i \in DOMAIN comparisons : comparisons[i] \in Comparison /\ comparisons[i].asset \in Asset
<1> TAKE i \in DOMAIN comparisons
<1> DEFINE r == comparisons[i]
<1>1. comparisons \in Seq(Comparison) /\ i \in 1..Len(comparisons)
  BY DEF Logged
<1>2. r \in Comparison
  BY <1>1
<1> HIDE DEF r
<1>3. r.asset \in Asset
  BY <1>2 DEF Comparison
<1> QED BY <1>2, <1>3 DEF r

LEMMA RewardIs ==
  ASSUME NEW entry \in Entry, NEW baseline \in Action, entry.rl_action # {} => entry.status = "shadow_complete"
  PROVE  Reward(entry, baseline) \in Int /\ (entry.rl_action = {} => Reward(entry, baseline) = 0)
<1>1. CASE entry.rl_action = {}
  BY <1>1 DEF Reward
<1>2. CASE entry.rl_action # {}
  <2> DEFINE action == CHOOSE x \in entry.rl_action : TRUE
  <2>1. action \in entry.rl_action /\ entry.rl_action \subseteq Action /\ entry.confidence \in Int
    BY <1>2 DEF Entry
  <2> HIDE DEF action
  <2>2. action \in 0..2 /\ baseline \in 0..2
    BY <2>1 DEF Action
  <2>3. Utility[action + 1] \in Int /\ Utility[baseline + 1] \in Int
    BY <2>2, ShadowAssumption
  <2>4. Reward(entry, baseline) = entry.confidence * (Utility[action + 1] - Utility[baseline + 1])
    BY <1>2 DEF Reward, action
  <2> QED BY <1>2, <2>1, <2>3, <2>4
<1> QED BY <1>1, <1>2

\* A future that was begun, or given up, stays so; an answer stays the answer.
Settles ==
  \A a \in Asset :
    /\ future[a].state \notin {"none", "pending"} => future'[a].state \notin {"none", "pending"}
    /\ future[a].state = "done" => future'[a] = future[a]

LEMMA StillTells ==
  ASSUME Settles, NEW a \in Asset, NEW entry, Tells(entry, future[a])
  PROVE  Tells(entry, future'[a])
  BY DEF Settles, Tells

LEMMA CallingInv ==
  ASSUME ShadowInv, Settles, \A a \in Asset : call'[a].pc \in {"wait", "push"} => call'[a] = call[a]
  PROVE  Calling'
<1> SUFFICES ASSUME NEW a \in Asset
             PROVE  /\ call'[a].pc \in {"wait", "push"} => call'[a].baseline \in Action
                    /\ call'[a].pc = "push" => call'[a].entry \in Entry /\ Tells(call'[a].entry, future'[a])
  BY DEF Calling
<1> QED BY StillTells DEF ShadowInv, Calling

LEMMA LoggedInv ==
  ASSUME ShadowInv, Settles, comparisons' = comparisons,
         \A a \in Asset : call[a].pc \in {"returned", "raised"} <=> call'[a].pc \in {"returned", "raised"},
         \A a \in Asset : call'[a].pc = "returned" => call[a].pc = "returned"
  PROVE  Logged'
<1>1. \A i \in DOMAIN comparisons : comparisons[i] \in Comparison /\ comparisons[i].asset \in Asset
  BY LoggedAre DEF ShadowInv
<1>2. \A i \in DOMAIN comparisons : Tells(comparisons[i].entry, future'[comparisons[i].asset])
  BY <1>1, StillTells DEF ShadowInv, Logged
<1> QED BY <1>1, <1>2 DEF ShadowInv, Logged

-----------------------------------------------------------------------------
LEMMA SubmitInv ==
  ASSUME ShadowInv, NEW a \in Asset, Submit(a)
  PROVE  ShadowInv'
<1>1. /\ DOMAIN future' = Asset /\ DOMAIN call' = Asset
      /\ \A b \in Asset : b # a => future'[b] = future[b] /\ call'[b] = call[b]
      /\ call[a].pc = "none" /\ future[a].state = "none" /\ call'[a].pc \in {"baseline", "raised"}
      /\ future'[a].state \in {"none", "pending"} /\ comparisons' = comparisons
      /\ executor'.running = executor.running /\ executor'.queue \in Seq(Asset)
      /\ call'[a].pc = "raised" => future'[a].state = "none"
  <2>1. /\ DOMAIN future = Asset /\ DOMAIN call = Asset /\ executor.queue \in Seq(Asset)
        /\ call[a].pc = "none" /\ future[a].state = "none" /\ comparisons' = comparisons
    BY DEF ShadowInv, Asking, Submit
  <2>2. CASE executor.open
    <3>1. /\ executor' = [executor EXCEPT !.queue = Append(@, a)]
          /\ future' = [future EXCEPT ![a] = [state |-> "pending"]]
          /\ call' = [call EXCEPT ![a] = [pc |-> "baseline"]]
      BY <2>2 DEF Submit
    <3>2. Append(executor.queue, a) \in Seq(Asset)
      BY <2>1
    <3> QED BY <2>1, <3>1, <3>2
  <2>3. CASE ~ executor.open
    <3>1. call' = [call EXCEPT ![a] = [pc |-> "raised"]] /\ UNCHANGED <<executor, future>>
      BY <2>3 DEF Submit
    <3> QED BY <2>1, <3>1
  <2> QED BY <2>2, <2>3
<1>3. Asking'
  BY <1>1 DEF ShadowInv, Asking
<1>4. Settles
  BY <1>1 DEF Settles
<1>5. Calling'
  BY <1>1, <1>4, CallingInv
<1>6. Logged'
  <2>1. call'[a].pc # "returned"
    BY <1>1
  <2>2. \A i \in DOMAIN comparisons : comparisons[i].asset \in Asset /\ comparisons[i].asset # a
    BY <1>1, LoggedAre DEF ShadowInv, Logged
  <2>3. \A i \in DOMAIN comparisons : Tells(comparisons[i].entry, future'[comparisons[i].asset])
    BY <1>4, <2>2, StillTells DEF ShadowInv, Logged
  <2> QED BY <1>1, <2>1, <2>2, <2>3 DEF ShadowInv, Logged
<1> QED BY <1>3, <1>5, <1>6 DEF ShadowInv

LEMMA StartInferenceInv ==
  ASSUME ShadowInv, StartInference
  PROVE  ShadowInv'
<1> DEFINE a == Head(executor.queue)
<1>1. a \in Asset /\ Tail(executor.queue) \in Seq(Asset)
  BY HeadTailProperties DEF ShadowInv, Asking, StartInference
<1>2. /\ executor.running = {} /\ executor'.queue = Tail(executor.queue)
      /\ executor'.running = IF future[a].state = "pending" THEN {a} ELSE {}
      /\ future' = IF future[a].state = "pending" THEN [future EXCEPT ![a] = [state |-> "running"]] ELSE future
      /\ UNCHANGED <<call, comparisons>>
  BY DEF StartInference
<1> HIDE DEF a
<1>3. /\ DOMAIN future' = Asset /\ \A b \in Asset : b # a => future'[b] = future[b]
      /\ future[a].state = "pending" => future'[a].state = "running"
      /\ future[a].state # "pending" => future'[a] = future[a]
  BY <1>1, <1>2 DEF ShadowInv, Asking
<1>4. Settles
  BY <1>3 DEF Settles
<1>5. Asking'
  BY <1>1, <1>2, <1>3 DEF ShadowInv, Asking
<1>6. Calling'
  BY <1>2, <1>4, CallingInv
<1>7. Logged'
  BY <1>2, <1>4, LoggedInv
<1> QED BY <1>5, <1>6, <1>7 DEF ShadowInv

LEMMA EndInferenceInv ==
  ASSUME ShadowInv, NEW a \in Asset, EndInference(a)
  PROVE  ShadowInv'
<1>1. /\ DOMAIN future' = Asset /\ \A b \in Asset : b # a => future'[b] = future[b]
      /\ future[a].state = "running" /\ future'[a].state \in {"done", "failed"}
      /\ UNCHANGED <<call, comparisons>> /\ executor'.running = {} /\ executor'.queue = executor.queue
  BY DEF ShadowInv, Asking, EndInference
<1>2. future'[a].state = "done" => future'[a].action \in Action \cup {Invalid} /\ future'[a].confidence \in Int
  <2>1. Confidence \subseteq Int
    BY ShadowAssumption
  <2> QED BY <2>1 DEF ShadowInv, Asking, EndInference
<1>3. Settles
  BY <1>1 DEF Settles
<1>4. Asking'
  BY <1>1, <1>2 DEF ShadowInv, Asking
<1>5. Calling'
  BY <1>1, <1>3, CallingInv
<1>6. Logged'
  BY <1>1, <1>3, LoggedInv
<1> QED BY <1>4, <1>5, <1>6 DEF ShadowInv

\* What a caller's step on its own call leaves alone.
LEMMA BaselineInv ==
  ASSUME ShadowInv, NEW a \in Asset, Baseline(a)
  PROVE  ShadowInv'
<1>1. /\ DOMAIN call' = Asset /\ \A b \in Asset : b # a => call'[b] = call[b]
      /\ call[a].pc = "baseline" /\ call'[a].pc \in {"wait", "raised"}
      /\ call'[a].pc = "wait" => call'[a].baseline \in Action
      /\ UNCHANGED <<executor, future, comparisons>>
  BY DEF ShadowInv, Asking, Baseline
<1>2. Asking'
  BY <1>1 DEF ShadowInv, Asking
<1>3. Calling'
  BY <1>1 DEF ShadowInv, Calling
<1>4. Logged'
  <2>1. \A i \in DOMAIN comparisons : comparisons[i].asset \in Asset
    BY LoggedAre DEF ShadowInv
  <2> QED BY <1>1, <2>1 DEF ShadowInv, Logged
<1> QED BY <1>2, <1>3, <1>4 DEF ShadowInv

\* A caller that writes down what it knows of its own future.
LEMMA LogInv ==
  ASSUME ShadowInv, Asking', Settles, NEW a \in Asset, call[a].pc = "wait", NEW entry \in Entry,
         Tells(entry, future'[a]), Log(a, entry), UNCHANGED comparisons
  PROVE  ShadowInv'
<1>1. /\ DOMAIN call' = Asset /\ \A b \in Asset : b # a => call'[b] = call[b]
      /\ call'[a].pc = "push" /\ call'[a].baseline = call[a].baseline /\ call'[a].entry = entry
  BY DEF ShadowInv, Asking, Log
<1>2. Calling'
  <2> SUFFICES ASSUME NEW b \in Asset
               PROVE  /\ call'[b].pc \in {"wait", "push"} => call'[b].baseline \in Action
                      /\ call'[b].pc = "push" => call'[b].entry \in Entry /\ Tells(call'[b].entry, future'[b])
    BY DEF Calling
  <2> QED BY <1>1, StillTells DEF ShadowInv, Calling
<1>3. Logged'
  BY <1>1, LoggedInv
<1> QED BY <1>2, <1>3 DEF ShadowInv

LEMMA AnswerInv ==
  ASSUME ShadowInv, NEW a \in Asset, Answer(a)
  PROVE  ShadowInv'
<1>1. call[a].pc = "wait" /\ UNCHANGED <<executor, future, comparisons>>
  BY DEF Answer
<1>2. PICK entry \in Entry : Tells(entry, future[a]) /\ Log(a, entry)
  <2>1. Incomplete("shadow_error") \in Entry
    BY DEF Incomplete, Entry
  <2>2. CASE future[a].state = "done" /\ future[a].action # Invalid /\ Log(a, Complete(future[a]))
    <3>1. future[a].action \in Action /\ future[a].confidence \in Int
      BY <2>2 DEF ShadowInv, Asking
    <3>2. Complete(future[a]) \in Entry /\ Tells(Complete(future[a]), future[a])
      BY <2>2, <3>1 DEF Complete, Entry, Tells
    <3> QED BY <2>2, <3>2
  <2>3. CASE future[a].state = "done" /\ future[a].action = Invalid /\ Log(a, Incomplete("shadow_error"))
    BY <2>1, <2>3 DEF Incomplete, Tells
  <2>4. CASE future[a].state \in {"failed", "cancelled"} /\ Log(a, Incomplete("shadow_error"))
    BY <2>1, <2>4 DEF Incomplete, Tells
  <2> QED BY <2>2, <2>3, <2>4 DEF Answer
<1>3. Settles /\ Tells(entry, future'[a])
  BY <1>1, <1>2 DEF Settles
<1>4. Asking'
  <2>1. DOMAIN call' = Asset /\ \A b \in Asset : call'[b].pc = "none" => call[b].pc = "none"
    BY <1>2 DEF Log, ShadowInv, Asking
  <2> QED BY <1>1, <2>1 DEF ShadowInv, Asking
<1> QED BY <1>1, <1>2, <1>3, <1>4, LogInv

LEMMA TimeOutInv ==
  ASSUME ShadowInv, NEW a \in Asset, TimeOut(a)
  PROVE  ShadowInv'
<1>1. /\ call[a].pc = "wait" /\ future[a].state \in {"pending", "running"}
      /\ Log(a, Incomplete("latency_error")) /\ UNCHANGED <<executor, comparisons>>
      /\ future' = IF future[a].state = "pending" THEN [future EXCEPT ![a] = [state |-> "cancelled"]] ELSE future
  BY DEF TimeOut
<1>2. /\ DOMAIN future' = Asset /\ \A b \in Asset : b # a => future'[b] = future[b]
      /\ future[a].state = "pending" => future'[a].state = "cancelled"
      /\ future[a].state = "running" => future'[a] = future[a]
  BY <1>1 DEF ShadowInv, Asking
<1>3. Incomplete("latency_error") \in Entry /\ Tells(Incomplete("latency_error"), future'[a])
  BY <1>1, <1>2 DEF Incomplete, Entry, Tells
<1>4. Settles
  BY <1>1, <1>2 DEF Settles
<1>5. Asking'
  <2>1. DOMAIN call' = Asset /\ \A b \in Asset : call'[b].pc = "none" => call[b].pc = "none" /\ b # a
    BY <1>1 DEF Log, ShadowInv, Asking
  <2> QED BY <1>1, <1>2, <2>1 DEF ShadowInv, Asking
<1> QED BY <1>1, <1>3, <1>4, <1>5, LogInv

LEMMA CloseInv ==
  ASSUME ShadowInv, Close
  PROVE  ShadowInv'
<1>1. /\ DOMAIN future' = Asset
      /\ \A a \in Asset : future'[a] = IF future[a].state = "pending" THEN [state |-> "cancelled"] ELSE future[a]
      /\ executor'.running = executor.running /\ executor'.queue = <<>> /\ UNCHANGED <<call, comparisons>>
  BY DEF Close
<1>2. Settles
  BY <1>1 DEF Settles
<1>3. Asking'
  BY <1>1 DEF ShadowInv, Asking
<1>4. Calling'
  BY <1>1, <1>2, CallingInv
<1>5. Logged'
  BY <1>1, <1>2, LoggedInv
<1> QED BY <1>3, <1>4, <1>5 DEF ShadowInv

-----------------------------------------------------------------------------
\* A list of comparisons in which each tells the truth, of a call of its own.
GoodList(list, pcs) ==
  /\ list \in Seq(Comparison)
  /\ \A i \in DOMAIN list :
       /\ pcs[list[i].asset].pc \in {"returned", "raised"}
       /\ Tells(list[i].entry, future[list[i].asset])
       /\ list[i].projected = Reward(list[i].entry, list[i].baseline)
       /\ \A j \in DOMAIN list : list[j].asset = list[i].asset => i = j

LEMMA SuffixGood ==
  ASSUME NEW list, NEW pcs, GoodList(list, pcs), NEW k \in 1..Len(list)
  PROVE  GoodList(SubSeq(list, k, Len(list)), pcs) /\ Len(SubSeq(list, k, Len(list))) > 0
<1> DEFINE n == Len(list)
           rest == SubSeq(list, k, n)
<1>1. list \in Seq(Comparison) /\ n \in Nat /\ DOMAIN list = 1..n
  BY DEF GoodList
<1>2. /\ rest \in Seq(Comparison) /\ Len(rest) = n - k + 1
      /\ \A i \in 1..(n - k + 1) : rest[i] = list[k + i - 1]
  BY <1>1, SubSeqProperties
<1>3. DOMAIN rest = 1..(n - k + 1)
  BY <1>2
<1> HIDE DEF n, rest
<1>4. \A i \in DOMAIN rest : k + i - 1 \in DOMAIN list /\ rest[i] = list[k + i - 1]
  BY <1>1, <1>2, <1>3
<1>5. \A i \in DOMAIN rest, j \in DOMAIN rest : k + i - 1 = k + j - 1 => i = j
  BY <1>1, <1>3
<1>6. GoodList(rest, pcs)
  BY <1>2, <1>4, <1>5 DEF GoodList
<1>7. Len(rest) > 0
  BY <1>1, <1>2 DEF n
<1> QED BY <1>6, <1>7 DEF n, rest

LEMMA LogComparisonInv ==
  ASSUME ShadowInv, NEW a \in Asset, LogComparison(a)
  PROVE  ShadowInv'
<1> DEFINE pushed == Append(comparisons, Record(a))
           first == IF MaxEntries > 0 /\ Len(pushed) > MaxEntries THEN Len(pushed) - MaxEntries + 1 ELSE 1
           trimmed == SubSeq(pushed, first, Len(pushed))
<1>1. /\ call[a].pc = "push" /\ UNCHANGED <<executor, future>>
      /\ DOMAIN call' = Asset /\ \A b \in Asset : b # a => call'[b] = call[b]
      /\ call'[a].pc \in {"returned", "raised"}
      /\ comparisons' \in {comparisons, pushed, trimmed}
      /\ call'[a].pc = "returned" => comparisons' = trimmed
  <2>1. \A pc : Ends(a, pc) => DOMAIN call' = Asset /\ call'[a].pc = pc /\ \A b \in Asset : b # a => call'[b] = call[b]
    BY DEF Ends, ShadowInv, Asking
  <2>2. /\ call[a].pc = "push" /\ UNCHANGED <<executor, future>>
        /\ \/ comparisons' = trimmed /\ Ends(a, "returned")
           \/ comparisons' \in {comparisons, pushed, trimmed} /\ Ends(a, "raised")
    BY DEF LogComparison
  <2> HIDE DEF trimmed, pushed
  <2> QED BY <2>1, <2>2
<1>3. Asking'
  BY <1>1 DEF ShadowInv, Asking
<1>4. Calling'
  BY <1>1 DEF ShadowInv, Calling
<1>5. GoodList(comparisons, call) /\ \A i \in DOMAIN comparisons : comparisons[i].asset # a /\ comparisons[i].asset \in Asset
  <2>1. \A i \in DOMAIN comparisons : comparisons[i].asset \in Asset
    BY LoggedAre DEF ShadowInv
  <2>2. \A i \in DOMAIN comparisons : comparisons[i].asset # a
    BY <1>1 DEF ShadowInv, Logged
  <2>3. GoodList(comparisons, call)
    BY DEF ShadowInv, Logged, GoodList
  <2> QED BY <2>1, <2>2, <2>3
<1>6. GoodList(comparisons, call')
  BY <1>1, <1>5 DEF GoodList
<1>7. GoodList(pushed, call') /\ Len(pushed) = Len(comparisons) + 1 /\ Len(comparisons) \in Nat
  <2> DEFINE r == Record(a)
  <2>1. /\ call[a].baseline \in Action /\ call[a].entry \in Entry /\ Tells(call[a].entry, future[a])
    BY <1>1 DEF ShadowInv, Calling
  <2>2. Reward(call[a].entry, call[a].baseline) \in Int
    BY <2>1, RewardIs DEF Tells
  <2>3. /\ r \in Comparison /\ r.asset = a /\ Tells(r.entry, future[r.asset])
        /\ r.projected = Reward(r.entry, r.baseline)
    BY <2>1, <2>2 DEF Record, Comparison
  <2> HIDE DEF r
  <2>4. /\ Append(comparisons, r) \in Seq(Comparison)
        /\ DOMAIN Append(comparisons, r) = DOMAIN comparisons \cup {Len(comparisons) + 1}
        /\ \A i \in DOMAIN comparisons : Append(comparisons, r)[i] = comparisons[i]
        /\ Append(comparisons, r)[Len(comparisons) + 1] = r
        /\ Len(Append(comparisons, r)) = Len(comparisons) + 1 /\ Len(comparisons) \in Nat
    BY <1>5, <2>3 DEF GoodList
  <2>5. GoodList(Append(comparisons, r), call')
    BY <1>1, <1>5, <1>6, <2>3, <2>4 DEF GoodList
  <2> QED BY <2>4, <2>5 DEF r
<1>8. first \in 1..Len(pushed)
  BY <1>7, ShadowAssumption
<1> HIDE DEF first, pushed
<1>9. GoodList(trimmed, call') /\ Len(trimmed) > 0
  BY <1>7, <1>8, SuffixGood
<1> HIDE DEF trimmed
<1>10. GoodList(comparisons', call')
  BY <1>1, <1>6, <1>7, <1>9
<1>11. (\E b \in Asset : call'[b].pc = "returned") => Len(comparisons') > 0
  <2>1. Len(comparisons) > 0 => Len(comparisons') > 0
    BY <1>1, <1>7, <1>9
  <2>2. ASSUME NEW b \in Asset, call'[b].pc = "returned" PROVE Len(comparisons') > 0
    BY <1>1, <1>9, <2>1, <2>2 DEF ShadowInv, Logged
  <2> QED BY <2>2
<1>12. Logged'
  BY <1>1, <1>10, <1>11 DEF Logged, GoodList
<1> QED BY <1>3, <1>4, <1>12 DEF ShadowInv

-----------------------------------------------------------------------------
LEMMA ShadowInvTells == ASSUME ShadowInv PROVE ShadowTellsTruth
<1> DEFINE written == [i \in DOMAIN comparisons |-> comparisons[i].projected]
           reward == [i \in Comparable |-> Reward(comparisons[i].entry, comparisons[i].baseline)]
<1>1. comparisons \in Seq(Comparison) /\ DOMAIN comparisons = 1..Len(comparisons) /\ Len(comparisons) \in Nat
  BY DEF ShadowInv, Logged
<1>2. \A i \in DOMAIN comparisons :
        /\ comparisons[i] \in Comparison /\ Tells(comparisons[i].entry, future[comparisons[i].asset])
        /\ comparisons[i].projected = Reward(comparisons[i].entry, comparisons[i].baseline)
  BY <1>1 DEF ShadowInv, Logged
<1>3. \A i \in DOMAIN comparisons : written[i] \in Int /\ (comparisons[i].entry.rl_action = {} => written[i] = 0)
  <2> TAKE i \in DOMAIN comparisons
  <2>1. comparisons[i].entry \in Entry /\ comparisons[i].baseline \in Action
    BY <1>2 DEF Comparison
  <2>2. comparisons[i].entry.rl_action # {} => comparisons[i].entry.status = "shadow_complete"
    BY <1>2 DEF Tells
  <2> QED BY <1>2, <2>1, <2>2, RewardIs
<1>4. Comparable \in SUBSET DOMAIN comparisons /\ \A i \in Comparable : reward[i] = written[i]
  BY <1>2 DEF Comparable
<1>5. \A i \in DOMAIN comparisons \ Comparable : written[i] = 0
  BY <1>3 DEF Comparable
<1>6. IsFiniteSet(DOMAIN comparisons)
  BY <1>1, FS_Interval
<1> HIDE DEF written, reward
<1>7. Summable(written, DOMAIN comparisons)
  BY <1>3, <1>6 DEF Summable
<1>8. Summable(written, Comparable) /\ Total(written, Comparable) = Total(written, DOMAIN comparisons)
  BY <1>4, <1>5, <1>7, TotalWithin
<1>9. Total(reward, Comparable) = Total(written, Comparable)
  BY <1>4, <1>8, TotalSame
<1>10. ProjectedReward = MapThenSumSet(LAMBDA i : written[i], DOMAIN comparisons)
  BY <1>8, <1>9 DEF Total, ProjectedReward, reward
<1>11. \A i \in DOMAIN comparisons :
         LET r == comparisons[i]
         IN /\ r.entry.status = "shadow_complete"
                 => future[r.asset].state = "done" /\ r.entry.rl_action = {future[r.asset].action}
            /\ r.entry.status = "shadow_complete" <=> r.entry.rl_action # {}
            /\ r.entry.status = "latency_error" => future[r.asset].state # "pending"
            /\ \A j \in DOMAIN comparisons : comparisons[j].asset = r.asset => i = j
  BY DEF ShadowInv, Logged, Tells
<1>12. (\E a \in Asset : call[a].pc = "returned") => Len(comparisons) > 0
  BY DEF ShadowInv, Logged
<1> QED BY <1>10, <1>11, <1>12 DEF ShadowTellsTruth, written

\* Whatever the learned policy does, and whenever callers give up on it: a record
\* in the Redis list tells of its own asset, an answer that came in time and no
\* other; and what ShadowMetrics.from_records adds up is what was written.
THEOREM ShadowIsHonest == ShadowSpec => []ShadowTellsTruth
<1>1. ShadowInit => ShadowInv
  BY DEF ShadowInit, ShadowInv, Asking, Calling, Logged
<1>2. ShadowInv /\ [ShadowNext]_shadowVars => ShadowInv'
  <2> SUFFICES ASSUME ShadowInv, [ShadowNext]_shadowVars PROVE ShadowInv'
    OBVIOUS
  <2>1. CASE UNCHANGED shadowVars
    BY <2>1 DEF shadowVars, ShadowInv, Asking, Calling, Logged
  <2>2. CASE StartInference \/ Close
    BY <2>2, StartInferenceInv, CloseInv
  <2>3. ASSUME NEW a \in Asset, Submit(a) \/ EndInference(a) \/ CallerStep(a) PROVE ShadowInv'
    BY <2>3, SubmitInv, EndInferenceInv, BaselineInv, AnswerInv, TimeOutInv, LogComparisonInv DEF CallerStep
  <2> QED BY <2>1, <2>2, <2>3 DEF ShadowNext
<1>3. ShadowInv => ShadowTellsTruth
  BY ShadowInvTells
<1> QED BY <1>1, <1>2, <1>3, PTL DEF ShadowSpec

OneInference ==
  /\ executor \in [open : BOOLEAN, running : SUBSET Asset, queue : Seq(Asset)]
  /\ executor.running = {} \/ \E a \in Asset : executor.running = {a}
CallStages == {"none", "baseline", "wait", "push", "returned", "raised"}
FutureStates == {"none", "pending", "running", "done", "failed", "cancelled"}

\* A list that Redis would not trim is trimmed by the next that it would.
LogLimited == redisErrors \in Nat /\ (MaxEntries > 0 => Len(comparisons) <= MaxEntries + redisErrors)

\* Type correctness of shadow mode: at most one inference runs, and but for one entry
\* for each error of Redis the log is never longer than it is configured to be.
THEOREM ShadowTypeCorrect == ShadowSpec => []ShadowTypeOK
<1> DEFINE Staged == \A a \in Asset : future[a].state \in FutureStates /\ call[a].pc \in CallStages
           Inv == ShadowInv /\ OneInference /\ LogLimited /\ Staged
<1>1. ShadowInit => Inv
  BY ShadowAssumption DEF ShadowInit, ShadowInv, Asking, Calling, Logged, OneInference, LogLimited, CallStages, FutureStates
<1>2. Inv /\ [ShadowNext]_shadowVars => Inv'
  <2> SUFFICES ASSUME Inv, [ShadowNext]_shadowVars PROVE Inv'
    OBVIOUS
  <2>1. CASE UNCHANGED shadowVars
    BY <2>1 DEF shadowVars, ShadowInv, Asking, Calling, Logged, OneInference, LogLimited
  <2>2. ASSUME StartInference PROVE Inv'
    <3>1. ShadowInv' /\ LogLimited'
      BY <2>2, StartInferenceInv DEF StartInference, LogLimited
    <3>2. Head(executor.queue) \in Asset
      BY <2>2, HeadTailProperties DEF ShadowInv, Asking, StartInference
    <3>3. OneInference'
      <4> DEFINE a == Head(executor.queue)
      <4>1. /\ executor' = [executor EXCEPT !.queue = Tail(@), !.running = IF future[a].state = "pending" THEN {a} ELSE {}]
            /\ a \in Asset /\ Tail(executor.queue) \in Seq(Asset)
        BY <2>2, <3>2, HeadTailProperties DEF StartInference, OneInference
      <4> HIDE DEF a
      <4>2. executor'.running = (IF future[a].state = "pending" THEN {a} ELSE {})
        BY <4>1 DEF OneInference
      <4>3. executor' \in [open : BOOLEAN, running : SUBSET Asset, queue : Seq(Asset)]
        BY <4>1 DEF OneInference
      <4> QED BY <4>1, <4>2, <4>3 DEF OneInference
    <3>4. Staged'
      BY <2>2, <3>2 DEF StartInference, FutureStates, ShadowInv, Asking
    <3> QED BY <3>1, <3>3, <3>4
  <2>3. ASSUME Close PROVE Inv'
    <3>1. ShadowInv' /\ LogLimited'
      BY <2>3, CloseInv DEF Close, LogLimited
    <3>3. OneInference'
      <4>1. executor' = [executor EXCEPT !.open = FALSE, !.queue = <<>>] /\ <<>> \in Seq(Asset)
        BY <2>3 DEF Close
      <4>2. executor'.running = executor.running
        BY <4>1 DEF OneInference
      <4>3. executor' \in [open : BOOLEAN, running : SUBSET Asset, queue : Seq(Asset)]
        BY <4>1 DEF OneInference
      <4> QED BY <4>2, <4>3 DEF OneInference
    <3>2. Staged'
      BY <2>3 DEF Close, FutureStates
    <3> QED BY <3>1, <3>2, <3>3
  <2>4. ASSUME NEW a \in Asset, Submit(a) \/ EndInference(a) PROVE Inv'
    <3>1. ShadowInv' /\ LogLimited'
      BY <2>4, SubmitInv, EndInferenceInv DEF Submit, EndInference, LogLimited
    <3>2. executor'.running \in {{}, executor.running}
      <4>1. ASSUME Submit(a) PROVE executor'.running = executor.running
        <5>1. CASE executor.open
          BY <4>1, <5>1 DEF Submit, OneInference
        <5>2. CASE ~executor.open
          BY <4>1, <5>2 DEF Submit
        <5> QED BY <5>1, <5>2
      <4>2. ASSUME EndInference(a) PROVE executor'.running = {}
        BY <4>2 DEF EndInference
      <4> QED BY <2>4, <4>1, <4>2
    <3>3. Staged'
      BY <2>4 DEF Submit, EndInference, FutureStates, CallStages, ShadowInv, Asking
    <3>4. OneInference'
      <4>1. executor' \in [open : BOOLEAN, running : SUBSET Asset, queue : Seq(Asset)]
        <5>1. CASE Submit(a) /\ executor.open
          BY <5>1, SMTT(30) DEF Submit, OneInference
        <5>2. CASE Submit(a) /\ ~executor.open
          BY <5>2 DEF Submit, OneInference
        <5>3. CASE EndInference(a)
          BY <5>3 DEF EndInference, OneInference
        <5> QED BY <2>4, <5>1, <5>2, <5>3
      <4> QED BY <3>2, <4>1 DEF OneInference
    <3> QED BY <3>1, <3>3, <3>4
  <2>5. ASSUME NEW a \in Asset, Baseline(a) \/ Answer(a) \/ TimeOut(a) PROVE Inv'
    <3>1. ShadowInv' /\ LogLimited' /\ OneInference'
      BY <2>5, BaselineInv, AnswerInv, TimeOutInv DEF Baseline, Answer, TimeOut, LogLimited, OneInference
    <3>2. Staged'
      BY <2>5 DEF Baseline, Answer, TimeOut, Log, FutureStates, CallStages, ShadowInv, Asking
    <3> QED BY <3>1, <3>2
  <2>6. ASSUME NEW a \in Asset, LogComparison(a) PROVE Inv'
    <3> DEFINE pushed == Append(comparisons, Record(a))
               first == IF MaxEntries > 0 /\ Len(pushed) > MaxEntries THEN Len(pushed) - MaxEntries + 1 ELSE 1
               trimmed == SubSeq(pushed, first, Len(pushed))
    <3>1. ShadowInv'
      BY <2>6, LogComparisonInv
    <3>2. OneInference' /\ Staged'
      <4>1. UNCHANGED <<executor, future>> /\ \E pc \in {"returned", "raised"} : Ends(a, pc)
        BY <2>6 DEF LogComparison
      <4> QED BY <4>1 DEF Ends, OneInference, CallStages, ShadowInv, Asking
    <3>3. \/ comparisons' = trimmed /\ UNCHANGED redisErrors
          \/ comparisons' \in {comparisons, pushed, trimmed} /\ redisErrors' = redisErrors + 1
      BY <2>6 DEF LogComparison, RedisFails
    <3>4. Len(comparisons) \in Nat /\ Len(pushed) = Len(comparisons) + 1 /\ MaxEntries \in Int
      BY ShadowAssumption DEF ShadowInv, Logged
    <3>5. MaxEntries > 0 => Len(trimmed) <= MaxEntries
      <4> SUFFICES ASSUME MaxEntries > 0 PROVE Len(trimmed) <= MaxEntries
        OBVIOUS
      <4>1. first \in 1..Len(pushed) /\ Len(pushed) - first + 1 <= MaxEntries
        BY <3>4
      <4>2. Len(trimmed) = Len(pushed) - first + 1
        <5> DEFINE anything == UNION {{pushed[i]} : i \in 1..Len(pushed)}
        <5> HIDE DEF first
        <5> QED BY <3>4, <4>1
      <4> QED BY <4>1, <4>2
    <3> HIDE DEF trimmed, pushed, first
    <3>6. LogLimited'
      BY <3>3, <3>4, <3>5 DEF LogLimited
    <3> QED BY <3>1, <3>2, <3>6
  <2> QED BY <2>1, <2>2, <2>3, <2>4, <2>5, <2>6 DEF ShadowNext, CallerStep
<1>3. Inv => ShadowTypeOK
  <2> SUFFICES ASSUME Inv PROVE ShadowTypeOK
    OBVIOUS
  <2>1. Cardinality(executor.running) <= 1
    <3>1. executor.running = {} => Cardinality(executor.running) = 0
      BY FS_EmptySet
    <3>2. (\E a \in Asset : executor.running = {a}) => Cardinality(executor.running) = 1
      BY FS_Singleton
    <3> QED BY <3>1, <3>2 DEF OneInference
  <2>2. ToSet(executor.queue) \subseteq Asset
    BY DEF ShadowInv, Asking, ToSet
  <2> QED BY <2>1, <2>2 DEF ShadowTypeOK, LogLimited, FutureStates, CallStages
<1> QED BY <1>1, <1>2, <1>3, PTL DEF ShadowSpec
=============================================================================
