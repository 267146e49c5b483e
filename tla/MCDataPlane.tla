---------------------------- MODULE MCDataPlane ----------------------------
(***************************************************************************)
(* What works through queues in Redis: the ingestor with the review        *)
(* worker, the analysis worker with the decision consumer, the search      *)
(* orchestrator, and the maintenance of the review queue.  They meet only  *)
(* in queues whose entries each takes as they come, so one run explores    *)
(* each by itself: "which" says whose behaviour this is.                   *)
(***************************************************************************)
EXTENDS Ingestor, AnalysisWorker, SearchOrchestrator

CONSTANTS
  m1, m2, r2,
  Contested, Reviewer, Nobody, Replica, Submissions, RightsGraph, NoRecord,
  LockTtl, ScanLimit, MaxTime, MaxFailures

VARIABLES which, now, record, queue, inflight, lock, call, failures

Monitor == INSTANCE HITLMonitor WITH Item <- Contested

\* Two seeds; both link to "a" and to a page of a blocked domain, "home" links to
\* "hub", and "a" to "deep".  "hub" links to "closed", which robots.txt forbids,
\* and to "late", which may be left when there are three results.  "a" scores
\* enough from "hub" only.  A request for "home" is redirected.
MCUrl == {"home", "front", "hub", "a", "deep", "closed", "late", "other"}
MCDomainOf ==
  [u \in MCUrl |-> CASE u \in {"home", "front"} -> "h" [] u = "other" -> "x" [] OTHER -> "u"]
MCTarget == [u \in MCUrl |-> IF u = "home" THEN "front" ELSE u]
MCLinks == [u \in MCUrl |-> CASE u = "front" -> {"hub", "a", "other"}
                            [] u = "hub" -> {"a", "home", "closed", "late"}
                            [] u = "a" -> {"deep"} [] OTHER -> {}]
MCUrlTerms == [u \in MCUrl |-> IF u = "hub" THEN 11 ELSE 0]
MCPageTerms == [u \in MCUrl |-> IF u \in {"a", "hub", "closed"} THEN 35 ELSE 5]

\* A reviewer is in conflict with the contested item through the rights graph.
MCSubmissions == [i \in Contested |-> {{}}]
MCRightsGraph == [i \in Contested |-> {r2}]

ingVars == <<ingestor, review, draining>>
anaVars == <<analysis, deciding>>
seaVars == <<waiting, taken, todo, job, crawl, emitted>>
monVars == <<now, record, queue, inflight, lock, call, failures>>
planeVars == <<which, ingVars, anaVars, seaVars, monVars, faults>>

PlaneInit ==
  /\ which \in {"ingestor", "analysis", "search", "monitor"}
  /\ IngestInit /\ WorkerInit /\ SearchInit /\ Monitor!Init

OfIngestor(Step) == which = "ingestor" /\ Step /\ UNCHANGED <<which, anaVars, seaVars, monVars>>
OfAnalysis(Step) == which = "analysis" /\ Step /\ UNCHANGED <<which, ingVars, seaVars, monVars>>
OfSearch(Step) == which = "search" /\ Step /\ UNCHANGED <<which, ingVars, anaVars, monVars>>
OfMonitor(Step) == which = "monitor" /\ Step /\ UNCHANGED <<which, ingVars, anaVars, seaVars, faults>>

PlaneNext ==
  \/ OfIngestor(IngestNext)
  \/ OfAnalysis(WorkerNext)
  \/ OfSearch(SearchNext)
  \/ OfMonitor(Monitor!Next)

\* The fairness of the four specifications, each where it is the one.
PlaneSpec ==
  /\ PlaneInit /\ [][PlaneNext]_planeVars
  /\ WF_planeVars(OfIngestor(Start))
  /\ WF_planeVars(OfIngestor(IngestorStep))
  /\ WF_planeVars(OfIngestor(WorkerStep))
  /\ WF_planeVars(OfAnalysis(StartWorker))
  /\ WF_planeVars(OfAnalysis(StartConsumer))
  /\ WF_planeVars(OfAnalysis(AnalysisStep))
  /\ WF_planeVars(OfAnalysis(DecisionStep))
  /\ WF_planeVars(OfSearch(SearchStep))
  /\ \A w \in Replica :
       /\ WF_planeVars(OfMonitor(Monitor!Proceed(w)))
       /\ SF_planeVars(OfMonitor(Monitor!BeginReclaim(w)))

\* Every message and every review item is settled, and every job decided, as long
\* as nothing fails.
EverythingSettles == MessagesSettle /\ ReviewsSettle /\ JobsDecided

\* A reviewer who never answers holds nothing up: again and again each known
\* item is on offer or in somebody's hands.
OfferedAgain == Monitor!OfferedAgain
=============================================================================
