------------------------- MODULE SearchOrchestrator -------------------------
(***************************************************************************)
(* services/search_orchestrator/main.py and services/web_scraper/main.py:  *)
(* jobs from a Redis stream, and for each a best-first crawl from the      *)
(* default seeds whose findings go to the ingest stream.                   *)
(*                                                                         *)
(* The web is given: the links of each page, where a request ends up after *)
(* redirects, what robots.txt forbids where it can be read, and the scores *)
(* of the protected terms found in addresses and pages.  Scores are in     *)
(* percent.  The crawl awaits one page at a time, so a page with what      *)
(* robots.txt says of it and its emission is one step; entries of equal    *)
(* rank are taken in any order.                                            *)
(***************************************************************************)
EXTENDS Faults, Integers, FiniteSets

CONSTANTS
  Job,
  NoTerms,       \* jobs without asset or usable terms
  NoJob,
  Url, Domain,
  DomainOf,      \* the domain of each url
  Links,         \* the links of each page, up to max_links_per_page
  Target,        \* where a request for each url ends up: nothing checks that
  Disallowed,    \* urls the robots.txt of their domain forbids
  UrlTerms,      \* _score_url of each url
  PageTerms,     \* what title and text add, and 5 for an HTML page that is there
  Seeds, Priority, Tier,
  AllowedDomains, BlockedDomains, RequireAllowlist,
  MaxDepth, MaxPages, MinEmit, MinFollow   \* of the policy

\* Scores are not negative: hits of terms count for them, nothing against.
ASSUME SearchAssumption ==
  /\ Links \in [Url -> SUBSET Url] /\ Target \in [Url -> Url] /\ Seeds \subseteq Url
  /\ DomainOf \in [Url -> Domain]
  /\ UrlTerms \in [Url -> Nat] /\ PageTerms \in [Url -> Nat]
  /\ Tier \in 0..100 /\ Priority \in 0..100 /\ MaxDepth \in Nat /\ MaxPages \in Nat

VARIABLES
  waiting,   \* jobs, since the group exists, that it has not handed out
  taken,     \* those handed out and not acknowledged: pending
  todo,      \* those read and not begun
  job,       \* the one that is being crawled for
  frontier,  \* the heap: urls with rank and depth
  seen, queued,  \* _seen_urls and _queued_urls
  robots,    \* _robots_cache: the rules of a domain, or none for it
  fetched,   \* history: pages this crawl has read, with their depth
  results,   \* urls of the candidates found
  emitted    \* what reached the ingest stream, for which job

crawl == <<frontier, seen, queued, robots, fetched, results>>
searchVars == <<waiting, taken, todo, job, crawl, emitted, faults>>

SearchInit ==
  /\ waiting = {} /\ taken = {} /\ todo = {} /\ job = NoJob
  /\ frontier = {} /\ seen = {} /\ queued = {} /\ fetched = {} /\ results = {}
  /\ robots = [d \in Domain |-> "unread"]
  /\ emitted = {} /\ faults = 0

Clamp(score) == IF score > 100 THEN 100 ELSE score

PageScore(url) == Clamp(Tier + UrlTerms[Target[url]] + PageTerms[Target[url]])

LinkScore(url, link) ==
  Clamp((45 * PageScore(url) + 35 * Tier) \div 100 + UrlTerms[link]
        + IF DomainOf[Target[url]] = DomainOf[link] THEN 10 ELSE 0)

\* Without an allowlist the domains of the seeds are the allowlist.
Allowlist == IF AllowedDomains = {} THEN {DomainOf[s] : s \in Seeds} ELSE AllowedDomains

IsAllowedDomain(url) ==
  /\ DomainOf[url] \notin BlockedDomains
  /\ RequireAllowlist => DomainOf[url] \in Allowlist

Submit(j) ==
  /\ j \notin waiting \cup taken
  /\ waiting' = waiting \cup {j}
  /\ UNCHANGED <<taken, todo, job, crawl, emitted, faults>>

\* XREADGROUP with ">": what is pending is not handed out again.
ReadJobs ==
  /\ job = NoJob /\ todo = {} /\ waiting # {}
  /\ todo' = waiting /\ taken' = taken \cup waiting /\ waiting' = {}
  /\ UNCHANGED <<job, crawl, emitted, faults>>

BeginJob(j) ==
  /\ job = NoJob /\ j \in todo
  /\ todo' = todo \ {j}
  /\ IF j \in NoTerms THEN taken' = taken \ {j} /\ UNCHANGED <<job, crawl>>
     ELSE /\ job' = j /\ UNCHANGED taken
          /\ frontier' = {[url |-> s, rank |-> Priority, depth |-> 0] : s \in Seeds}
          /\ seen' = {} /\ queued' = {} /\ fetched' = {} /\ results' = {}
          /\ robots' = [d \in Domain |-> "unread"]
  /\ UNCHANGED <<waiting, emitted, faults>>

Crawling == frontier # {} /\ Cardinality(results) < MaxPages

First(e) == e \in frontier /\ \A f \in frontier : e.rank >= f.rank

Visit(e) == frontier' = frontier \ {e} /\ seen' = seen \cup {e.url}

\* The robots.txt of a domain is asked for once in a crawl.  One that is not
\* there, or cannot be had, allows everything.
RobotsAllowed(url, allowed) ==
  \E answer \in {"rules", "none"} :
    /\ robots[DomainOf[url]] \in {"unread", answer}
    /\ robots' = [robots EXCEPT ![DomainOf[url]] = answer]
    /\ allowed <=> (answer = "rules" => url \notin Disallowed)

\* Passed over: seen, of a foreign domain, or forbidden by robots.txt.  A page
\* that cannot be fetched is passed over too.
PassOver(e) ==
  /\ job # NoJob /\ Crawling /\ First(e)
  /\ Visit(e)
  /\ IF e.url \in seen \/ ~IsAllowedDomain(e.url) THEN Fine /\ UNCHANGED robots
     ELSE \/ RobotsAllowed(e.url, FALSE) /\ Fine
          \/ RobotsAllowed(e.url, TRUE) /\ Fault
  /\ UNCHANGED <<waiting, taken, todo, job, queued, fetched, results, emitted>>

\* Mistake: a link is marked before its score is known.
FollowMarksFirst(e) ==
  LET links == {l \in Links[Target[e.url]] :
                  e.depth < MaxDepth /\ l \notin seen' \cup queued /\ IsAllowedDomain(l)}
  IN  /\ queued' = queued \cup links
      /\ frontier' = (frontier \ {e}) \cup
           {[url |-> l, rank |-> LinkScore(e.url, l), depth |-> e.depth + 1] :
              l \in {k \in links : LinkScore(e.url, k) >= MinFollow}}

Follow(e) ==
  LET links == {l \in Links[Target[e.url]] :
                  /\ e.depth < MaxDepth /\ l \notin seen' \cup queued
                  /\ IsAllowedDomain(l) /\ LinkScore(e.url, l) >= MinFollow}
  IN  /\ queued' = queued \cup links
      /\ frontier' = (frontier \ {e}) \cup
           {[url |-> l, rank |-> LinkScore(e.url, l), depth |-> e.depth + 1] : l \in links}

Fetch(e) ==
  /\ job # NoJob /\ Crawling /\ First(e)
  /\ e.url \notin seen /\ IsAllowedDomain(e.url) /\ RobotsAllowed(e.url, TRUE)
  /\ seen' = seen \cup {e.url}
  /\ fetched' = fetched \cup {[url |-> e.url, depth |-> e.depth]}
  /\ Follow(e)
  /\ IF PageScore(e.url) >= MinEmit
     THEN results' = results \cup {e.url} /\ emitted' = emitted \cup {<<job, e.url>>}
     ELSE UNCHANGED <<results, emitted>>
  /\ UNCHANGED <<waiting, taken, todo, job, faults>>

\* An emission that fails ends the crawl with an exception; the job stays pending.
EmitFails(e) ==
  /\ job # NoJob /\ Crawling /\ First(e)
  /\ e.url \notin seen /\ IsAllowedDomain(e.url) /\ RobotsAllowed(e.url, TRUE)
  /\ Visit(e) /\ PageScore(e.url) >= MinEmit /\ Fault
  /\ results' = results \cup {e.url}
  /\ emitted' = emitted \/ emitted' = emitted \cup {<<job, e.url>>}
  /\ job' = NoJob
  /\ UNCHANGED <<waiting, taken, todo, queued, fetched>>

FinishJob ==
  /\ job # NoJob /\ ~Crawling /\ job' = NoJob
  /\ \/ taken' = taken \ {job} /\ Fine
     \/ taken' \in {taken, taken \ {job}} /\ Fault
  /\ UNCHANGED <<waiting, todo, crawl, emitted>>

\* The process ends, also by an XREADGROUP that fails, and is started again.
Restart ==
  /\ Fault /\ job' = NoJob /\ todo' = {}
  /\ UNCHANGED <<waiting, taken, crawl, emitted>>

SearchStep ==
  \/ ReadJobs \/ FinishJob
  \/ \E j \in todo : BeginJob(j)
  \/ \E e \in frontier : PassOver(e) \/ Fetch(e) \/ EmitFails(e)

SearchNext == SearchStep \/ Restart \/ \E j \in Job : Submit(j)

SearchSpec == SearchInit /\ [][SearchNext]_searchVars /\ WF_searchVars(SearchStep)

-----------------------------------------------------------------------------
SearchTypeOK ==
  /\ waiting \cup taken \subseteq Job /\ todo \subseteq taken
  /\ job \in taken \cup {NoJob}
  /\ robots \in [Domain -> {"unread", "rules", "none"}]
  /\ frontier \subseteq [url : Url, rank : 0..100, depth : 0..MaxDepth]
  /\ seen \cup queued \cup results \subseteq Url
  /\ emitted \subseteq Job \X Url
  /\ Cardinality(results) <= MaxPages

\* When a crawl has run dry, every link of a page it read above the depth limit
\* has been looked at, if its domain is allowed and its score from that page is
\* enough, whatever it scored from others; and no page was asked for but a seed
\* or a link that some page read one level above made worth it.  (Where such a
\* request is redirected to, nothing limits.)
Worth(f) ==
  {l \in Links[Target[f.url]] : IsAllowedDomain(l) /\ LinkScore(f.url, l) >= MinFollow}
LinksFollowed ==
  /\ job # NoJob /\ ~Crawling /\ Cardinality(results) < MaxPages =>
       \A f \in fetched : f.depth < MaxDepth => Worth(f) \subseteq seen
  /\ \A f \in fetched : f.url \in Seeds \/ \E g \in fetched : f.url \in Worth(g) /\ f.depth = g.depth + 1
=============================================================================
