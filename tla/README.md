# A verification project for OmniAegis

TLA+ models of the stateful parts of OmniAegis, model-checked with TLC on small
instances, and theorems about each of them proved with TLAPS for every value of
their constants. Paths below are relative to the repository root, which
`PROJECT.json` calls `src/`.

`PROJECT.json` is the index: the parts of the system, the runs, a mutation for
every checked property, the source lines of every definition (`map`), the
findings, the hazards and the theorems.

## 1. The system

OmniAegis screens digital assets. A fast gate (fingerprints, vector search) and
a slow gate (graph reasoning) produce decisions; borderline ones go to human
reviewers; every decision leaves evidence in IPFS and a commitment on a chain;
policies are changed by guardians on chain; models are retrained by federated
learning. Three planes share little but streams and stores:

- the *trust plane* (contracts, `batch_coordinator.py`, `audit_service.py`);
- the *data plane* (streams, workers, the crawl, the registry of assets, the review
  queue);
- the *learning plane* (rounds, aggregation, replay, shadow mode, environment).

| Component | State it keeps | Operations | What makes it hard |
|---|---|---|---|
| `contracts/PolicyRegistry.sol` | owner, three guardians, policies, spent nonces | `setGuardian`, `upsertPolicy`, `revokePolicy`, two-step ownership | signatures outlive guardians; nonces are shared; the signature loop stops early |
| Governance half of `services/batch_coordinator.py` | `policy_proposals`, `proposal_signatures` in PostgreSQL | `propose_policy`, `collect_signature`, `anchor_policy_on_chain` | concurrent requests on one event loop, account nonces read early, lost answers, no receipts, a coroutine nobody awaits |
| Batching half of `services/batch_coordinator.py` | `merkle_decisions`, `merkle_batches`, `merkle_nodes`; a cursor in memory | `record_decision`, the window loop, `get_merkle_proof` | one loop in each API replica over the same tables, recording threads beside it, crashes and lost answers between transactions, the cursor rebuilt from the tables |
| `contracts/MerkleAnchor.sol` | allowlist, anchored batches and roots | `setGatewayAuthorisation`, `anchorRoot`, `anchorBatch` | several gateways |
| `contracts/SentinelAudit.sol` | allowlist, decision records | `recordDecision`, `recordDecisionBatch` | all-or-nothing batches with repetitions |
| `services/audit_service.py` | queue in memory and in a JSON file, gas price | `writeAuditRecord`, the retry worker, gas polling | crashes, a file that cannot be written or read, timeouts that answer too late |
| `services/hitl_monitor.py` | Redis: items, queue, in-flight set, expiring locks | enqueue, assign, recompute, reclaim | several API replicas, one Redis command at a time, two clocks |
| `services/ingestor/main.py`, `services/hitl_monitor/main.py` | a stream, its consumer group, a dead-letter stream, a sorted set | read, process, requeue, acknowledge; pop, handle, put back | a failed message moves in two commands; pops are destructive |
| `analysis_engine/.../worker/consumer.py`, `services/decision_stream_consumer/main.py` | two streams, a bounded buffer | produce, analyse, publish, acknowledge; review items | one exception ends all tasks; a pause while the stream is long |
| `services/search_orchestrator/main.py`, `services/web_scraper/*` | job stream, frontier, seen and queued sets | crawl, score, emit | scores that depend on the page a link is on; redirects; a robots.txt that cannot be had |
| `app/main.py`, `app/registry/manager.py` | four Qdrant collections, links in Neo4j, search jobs | the fingerprint, onboarding, match and slow-gate endpoints | upserts applied later, requests that fail half-way |
| `app/reasoning/*`, `services/graph_db.py`, `services/web_scraper/pipeline.py` | nodes, flags and links in Neo4j | build a neighbourhood, reason, write the decision back | statements that fail and are passed over |
| `services/fl_coordinator/round_monitor.py`, `shared/training_buffer.py` | training buffer, stored rounds, production pointer | start a round, restore samples, promotion guard | pub/sub, samples held in memory only, expiry |
| `services/fl_coordinator/smpc_aggregator.py`, `strategy.py` | shares of one round | validate, encode, share, add, reconstruct | signed numbers modulo a prime, rounded to floats |
| `services/fl_edge/redis_experience_buffer.py` | two parallel Redis lists | push, draw a batch | indices read in one command and used in a later one |
| `services/fl_edge/shadow_mode.py` | a one-thread executor, a Redis list | decide, wait with a limit, log | inferences that never end |
| `services/fl_edge/sentinel_env.py` | position in the history, current state | `reset`, `step` | which sample judges which state |
| Fingerprints, networks, explanations, user interface | weights, plots | numeric | floats and I/O, no protocol state |

How they interact. The API (`app/main.py`) calls the audit service, the batch
coordinator and the review queue in process. The audit service and the
coordinator are the gateways of `SentinelAudit` and `MerkleAnchor`; the
governance half sends the transactions of `PolicyRegistry` from the very account
that anchors batches. The review queue is Redis state shared by all API replicas
(at least two are deployed: `README.md:450`). The API starts searches by adding a
job to a stream; the crawl adds what it finds to the ingest stream. The workers meet
only in Redis streams whose messages each takes as they come. Every API replica
starts a batch coordinator of its own (`app/main.py:218-229`), and they meet in the
tables.

What each component should guarantee:

- **PolicyRegistry**: nothing changes a policy but two present guardians who
  signed exactly that change, once per nonce, through every sequence of
  rotations.
- **Governance**: a proposal is enacted at most once however its anchoring is
  repeated; a status says no more than what was done.
- **Batching**: a decision can be traced to a batch that holds it, and goes to no
  other batch of the same coordinator; windows neither overlap nor omit what was
  there; what is on chain is in the tables.
- **Merkle tree**: what is stored proves exactly what was put in.
- **Audit**: an accepted record is not lost while its file can be read, its evidence
  comes first, it is announced once.
- **Review queue**: no item is lost, none has two reviewers, none waits for a
  reviewer who went away, none goes to a reviewer whom all its records exclude.
- **Streams**: an acknowledged message was handled or handed on; a dead letter was
  tried as often as promised; what resembles a known work reaches a human.
- **Crawl**: every link worth following is followed, and only seeds and such links are
  asked for.
- **Registry**: a user finds his own copies and nobody else's; searches and links
  name registered assets.
- **Learning**: a sample is used in one round and not lost; a worse model does not
  replace a better one on record; sums are exact as far as floats are; a drawn batch
  is what was asked for; the shadow log tells what happened; a reward judges the state the action
  was chosen in.

## 2. Modules

| Module | Models | Kind |
|---|---|---|
| `GuardianQuorum` | what 2-of-3 approval means | abstract |
| `Ownable2Step` | OpenZeppelin's ownership, as the contracts use it | external |
| `PolicyRegistry` | `contracts/PolicyRegistry.sol` | detailed, refines `GuardianQuorum` |
| `PolicyGovernance` | proposals, signatures, anchor requests over `PolicyRegistry` | composition |
| `DecisionLedger` | decisions are stored, batched, committed, and nothing goes back | abstract |
| `MerkleAnchor` | `contracts/MerkleAnchor.sol` | component |
| `BatchCoordinator` | the window loops of several replicas over `MerkleAnchor` | composition, refines `DecisionLedger` |
| `MerkleTree` | building, storing and climbing the tree of a batch | algorithm |
| `SentinelAudit` | `contracts/SentinelAudit.sol` | component |
| `AuditService` | the audit queue over `SentinelAudit` | composition |
| `ReviewLease` | at most one reviewer holds an item | abstract |
| `HITLMonitor` | the Redis review queue | detailed, refines `ReviewLease` |
| `Ingestor` | the ingest stream, its dead letters, the review worker behind it | composition |
| `AnalysisWorker` | analysis tasks and the decision consumer behind them | composition |
| `SearchOrchestrator` | search jobs and the crawl | component |
| `AssetRegistry` | the asset endpoints over Qdrant, Neo4j and the job stream | component |
| `RoundMonitor` | training buffer, rounds, promotion guard | component |
| `SecureAggregation` | one tensor of a round through secret sharing | algorithm |
| `ExperienceBuffer` | prioritised replay over two lists | component |
| `ShadowMode` | static policy, learned policy, log | component |
| `SentinelEnv` | the training environment | algorithm |
| `Faults` | how much may go wrong outside the code | shared by the components |
| `PolicyRegistryProofs`, `PolicyGovernanceProofs`, `AuditServiceProofs` | theorems about the module of that name | proofs |
| `AnchoringProofs` | theorems about `BatchCoordinator` and `MerkleTree` | proofs |
| `DataPlaneProofs` | about `Ingestor`, `AnalysisWorker`, `SearchOrchestrator` | proofs |
| `SharedStateProofs` | about `HITLMonitor`, `AssetRegistry` | proofs |
| `LearningProofs` | about `RoundMonitor`, `SentinelEnv`, `ExperienceBuffer`, `SecureAggregation`, `ShadowMode` | proofs |
| `FiniteSums` | induction over numbers and finite sets; sums over finite sets | lemmas |
| `MCPolicyRegistry`, `MCPolicyGovernance`, `MCAnchoring`, `MCAuditService`, `MCSharedState`, `MCDataPlane`, `MCLearning` | instances for TLC; each extends the components it runs, so their assumptions are evaluated | model checking |

Conventions. An action is a whole function where nothing can come between (a
contract call, a database transaction, a Redis script or MULTI pipeline), and a
step between two awaits or two network commands where something can. A command
that fails may have taken effect: its reply was lost. A definition whose comment
begins with *Mistake:* is not part of the model: it is a plausible bug, and
`PROJECT.json` names the definition it would replace and the property that then
fails. A variable marked *history* is there for a property and guards nothing.

`MCAnchoring`, `MCSharedState`, `MCDataPlane` and `MCLearning` each hold parts that
share no state while they run. Their variable `which` chooses one at the start,
and only that part takes steps: interleaving steps of parts that cannot see each
other reaches nothing new. Fairness and temporal properties are those of
the part that runs; the others stand still in their initial states, which
satisfy them.

### State and code

**PolicyRegistry.** Variables are the contract's storage. `Accepted` is the
conjunction of the revert conditions of `upsertPolicy` and `revokePolicy`;
`ThresholdMet` is `_requireThresholdSignatures`, written over the first two
signatures because the loop returns at its second approval and reverts on
anything that is not one. `signed` records who signed what off chain. A digest is
the payload it hashes; a signature is its signer and payload; `Malformed` is
what no signer can be recovered from. `version += 1` is checked arithmetic:
a call at the top of uint32 reverts.

**PolicyGovernance.** `FetchSignatures`, `ReadNonce`, `EstimateGas`,
`SendTransaction`, `MarkProposalAnchored` and `MarkProposalAnchorFailed` are the
awaits of `anchor_policy_on_chain` in order; `CallFails`, `MarkRaises` and `GiveUp` are
its exceptions, also the one of a commit that takes effect, and the one raised while
recording a failure. `Builds` says what `build_transaction` may come to: with the
web3 the requirements ask for, only a coroutine that nobody awaits (`FALSE`), and
`EstimateGas` fails on it. `Crash` forgets the requests. The chain's pool is external: a
transaction is mined in account-nonce order, replaced, refused or dropped, and an answer may be lost.

**BatchCoordinator.** `Replica` are the API processes: the tables, the chain and the
signer are one, a cursor, a loop and a starting time belong to each. `RecordDecision` is
`record_decision` with the thread that inserts the row: its timestamp is any second
since the process started, or one the decision carries. `OpenWindow`,
`LoadUnbatchedLeaves`, `PersistBatch`, `EstimateGas`, `SendTransaction` and the two marks
are the cycle, `CycleFails`, `CallFails` and `MarkRaises` its exceptions; `Start`
contains `_restore_window_cursor`; `Stop` is a crash anywhere. The second half of
`PersistBatch` is a commit whose answer is lost: batch and rows are there, the cursor
has not moved. `RowsBatched` is the `UPDATE` as it is, without a condition on
`batch_id`. `Builds` is as in `PolicyGovernance`. `InLeafOrder` is the `ORDER BY` of the
query: the one sequence of the leaves that is sorted by `Precedes`. In a batch
`present`, `by` and `answered` are history.

**MerkleTree.** `NextLevel` is the body of the level loop. `LevelsUp` are the levels
of a loop that never ends, `Top` is the first with one node, where the code's loop
ends. `NodeRows` are the rows that `_persist_batch` writes, each a `NodeRow`.
`PositionsUp` is the repeated `position //= 2`, and `ProofHashes` the climb of
`get_merkle_proof`, given the lookup as a parameter so that it can be examined with
the lookup the table offers and with the one the code has. Levels and positions are
recursive functions and not `RECURSIVE` operators, so that they can be proved about.

**AuditService.** `items` is `_pending`, `file` the queue file, `due` the items
whose delay has run out. Each step of `_retry_worker` that may raise has a
counterpart that does, and `PutBack` is the `except` clause, unprotected as in
the code: if its write fails the worker ends (`"dead"`). `RestartService` is a crash
at any point and the start after it, which reads the file or, where that raises, goes
on with an empty queue; `unloaded` is a history of what such a start passed over.

**HITLMonitor.** `inflight[i] = 0` means no entry; an expired lock is not there.
`Claim` is the Lua script, `RecomputeItem` and `Restore` are one MULTI pipeline
each, `Examine` reads the record and the rights graph, `CutShort` ends a call at
any point. `call[w].at` is the clock the replica read before it called the
script, which may be old when the script runs.

**Ingestor.** A stream entry is a message and its retry count. `missed` are
entries older than the group, which starts at `$`. `Process` and `Push` are
`process_asset_async` with its two paths and the fall-back between them;
`HandleFailure` and `AckFailed` are the two commands of `_handle_failure`.
`Pop` and `ProcessOrRequeue` are the worker of `services/hitl_monitor/main.py`, which
drains the sorted set the ingestor fills.

**AnalysisWorker.** `doing` is what the producer and the two consumer tasks hold;
`Tasks(state)` is the end of all of them when one raises. `Analyse` leaves open
what a probe and an analysis find and computes the confidence and verdict from it. The
decision stream is a sequence; the consumer group is a position in it and a
pending batch.

**SearchOrchestrator.** The web is a constant: links, redirects, robots, scores.
`Fetch` reads a page, emits it if it scores enough and adds its links
(`Follow`); `PassOver` skips what was seen or is not allowed. `Target` is where a
request ends: redirects are followed without looking at domain or robots again, so
page, score and links are those of the target. `RobotsAllowed` reads the rules of a
domain once in a crawl, and where they are missing or cannot be had everything is
allowed. The crawl awaits one page at a time, so a page is one step.

**AssetRegistry.** Each endpoint is the sequence of calls it makes (`Calls`), each
of which may fail; `Try` marks those inside a `try` that only logs. `unapplied`
holds upserts that Qdrant took with `wait=False`. A handler does not await until
its last call (`Await`), so requests do not interleave before it: the handlers are
`async` functions that call blocking clients.

**RoundMonitor.** `monitor` is the thread: where it is, which samples it holds,
why, and at which attempt. `inbox` is its subscription, with its own
announcements apart. `EdgeTrains` is what `simulate_nodes.py` reads.

**SecureAggregation.** Values are in units of `1/scale_factor`. `Randomness` is
whatever `secrets.randbelow` may return for all parties but the last, whose shares
follow from it (`SplitIntoShares`); `Share` chooses any of it. `Limit` is the limit of
`smpc_aggregator.py` as float64 compares it. `Decode` takes the sign back, rounds to a
float64 and then to a float32: `Rounded(n, limit)` is the nearest float, ties to even,
of a format that holds every integer up to `limit` (2^53 and 2^24). The division by the
scale, a power of two, shifts the exponent only.

**ExperienceBuffer.** `AddEpisode` is the Lua script; `ReadSize`, `ReadRecent`,
`ReadFullAndDraw` and `Fetch` are the commands of `sample_batch`. `Draws` is what
`numpy.random.choice` may return, and where it raises. `trimmed` and `named` are a
history: how much was trimmed before the recent weights were read, and which episode
each index named when it was drawn.

**ShadowMode.** `executor`, `future` and `call` are the thread pool, its futures
and the callers. `TimeOut` is enabled whenever the answer is not there.

**SentinelEnv.** The features of a state that decide anything, in thousandths, so that
one entry of the queue (a share of 1/200) counts; rewards are in ten-thousandths.
`Breakdown` and `ComputeReward` are the two places where the code writes the reward.
`Depth` is the number of entries that `_state_queue_depth` makes of the share, and
`Continued` goes on from that number as if it were a share, as the code does.

## 3. Runs

| Run | What it asks | Distinct states |
|---|---|---|
| `policy_registry` | 2-of-3 approval through rotation, repeated and malformed signatures, competing payloads, ownership changes; refinement of `GuardianQuorum` | 61 thousand, symmetry on accounts |
| `policy_governance` | two proposals with one nonce, two concurrent anchor requests, crashes, lost answers, evictions, a rotation | 546 thousand, symmetry on requests and proposals |
| `never_anchored` | is a proposal that the contract would accept submitted, while no call fails? No | counterexample |
| `anchoring` | two coordinators over the same tables through crashes, restarts in the same second, lost answers and concurrent recording, with the refinement of `DecisionLedger`; and every batch of one to seven leaves | 1.3 million, symmetry on replicas |
| `batch_left_behind` | will some coordinator look again at every unbatched decision? No | counterexample |
| `batched_twice` | is each decision a leaf of one batch only? No | counterexample |
| `merkle_proof` | does the proof request answer? No | counterexample |
| `audit_service` | a crash, a failing write or read of the queue file, lost answers, a second gateway, two items of one decision; evidence arrives although one of them can never succeed | 115 thousand |
| `audit_outage` | does every item leave the queue after an outage? No | counterexample |
| `shared_state` | two replicas on the review queue with the refinement of `ReviewLease`; requests on the registry | 1.2 million, symmetry on replicas and users |
| `data_plane` | ingestor with review worker; analysis with decision consumer; the crawl; the maintenance of the review queue, where items are offered again | 74 thousand |
| `learning` | rounds and promotion; aggregation; replay; shadow mode; the environment | 622 thousand |

### What the properties say

Trust plane:

- `GuardiansDistinct`, `PolicyBacked`, `ChangeHasQuorum`, `ImplementsQuorum`: the
  value of a policy, and each change of it, rest on two different accounts; for
  a change these are guardians at that moment. A departed guardian's signature
  stops counting, a new one's counts for what it signed before.
- `EnactedOnce`, `AnchoredWasSent`, `OutcomeHadSignatures`: of all transactions
  with one governance nonce at most one succeeds, "anchored" means at least that
  a node took a transaction, and no attempt is made below two stored signatures.
- `LeavesPointBack`, `WindowsDisjoint`, `WindowComplete`, `OnChainIsPersisted`,
  `ImplementsLedger`: whoever follows a row finds the decision in the batch, a leaf
  has its row in that batch or a later one, and one coordinator batches nothing
  twice; its windows follow each other, except after a commit it did not learn of;
  what was in the table when a window opened is in its batch or an earlier one; the
  chain holds nothing that the tables cannot explain; and no batch ever changes.
  That a decision is in *one* batch would be more than several coordinators keep
  (`BatchedOnce`, refuted by `batched_twice`).
- `RootIsCanonical`, `RowsProve`, `RootBindsLeaves`: the root is that of a
  reference tree defined top-down, the rows link up and a climb over them proves
  the stored leaf and no other, and equal roots of batches of one length mean
  equal leaves.
- `AcceptedSurvives`, `EvidenceFirst`, `OneEventPerDecision`, `EvidenceArrives`:
  an accepted item is in the file or with a node, evidence precedes the
  transaction that names it, a decision is announced once, and the evidence of
  each accepted item arrives unless the worker ended. What a start could not read
  (`unloaded`) is excepted: the code gives it up.

Data plane:

- `NeverLost`, `ImplementsLease`, `KnownConflictsKept`, `OfferedAgain`: as in
  section 1. `KnownConflictsKept` is careful: a conflict that only a later record
  shows, or a rights graph that cannot be read, does not stop an assignment,
  because the code examines the record before it claims and treats an
  unreachable graph as one without conflicts.
- `AckedIsSettled`: an entry leaves the group's pending list only when it was
  processed, or its successor is in the stream, or its dead letter is.
  `DeadWasRetried`: a dead letter was handed out with every count from 0 to the
  limit, also when it was Redis that failed.
- `AckedWasDecided`: an acknowledged message has its decision in the stream, and
  no message has two, however tasks end. `ResemblanceIsSeen`: of acknowledged
  decisions a human was shown each whose fingerprint resembles a known work,
  and a logo alone does not call for review.
- `LinksFollowed`: a crawl that has run dry has looked at every link worth it,
  whatever the link scored from other pages; and it asked for nothing but seeds
  and links that some page above made worth it. Where redirects lead is not
  asked of domains or robots, so the property does not say so.
- `OwnCopyFound`: whatever others register, a user's own copies come first and
  nobody else's come. `ReferencesResolve`: search jobs and links name assets that
  are in the registry or will be once Qdrant has caught up.
- `EverythingSettles`: without faults, messages are processed or dead-lettered,
  review items handled or given up, and ingest messages decided as long as the
  decision stream is short.

Learning plane:

- `SamplesGoOnce`: however often the callback fails no sample is lost while Redis
  answers, and whatever fails none is announced in two rounds or offered again
  after its round.
- `PromotionGuarded`: no worse model replaces the production model while the
  registry holds the latter's record.
- `SumIsExact`: for every randomness, where the true sum fits in half the modulus the
  decoded one is equal to it up to the integers a float32 holds, and above that off by
  no more than two parts in `SingleLimit`; and it is divided by the clients that took
  part.
- `ReplayAligned`: episodes and weights stay in step; a batch is as long as asked
  for; an episode in it is the one that was drawn or a newer one, by no more places
  than were trimmed since; and nine tenths of it are no older than the window of its
  beginning. (An episode need not be drawn by its own return: the index comes from
  weights read before, and a trim in between moves it.)
- `ShadowTellsTruth`, `LearningGoesOn`: a logged answer is this call's answer, in
  time; no call leaves two records; every call ends although inferences hang, and
  enough samples make a round.
- `JudgedInItsState`: after any steps and resets an action is judged by the sample
  whose state it was chosen in, and the two reward computations agree.

Each component defines a type invariant (a contract's is part of its composition's;
`MerkleTree` needs none). Most runs do not list it and spend their time on the
properties above; all of them are theorems (section 5). Where a type invariant says more
than types it is noted there: a buffer within its limit, a link to a registered asset,
a job that is somewhere, a retry count within its maximum.

### Bounds, and why they are enough

- *policy_registry*: four accounts for three slots, so that a guardian can be
  replaced by an outsider and come back; two payloads that compete for a nonce
  and a revocation with another, so every order of upsert, revoke and replay
  occurs; two signatures per call (the loop never looks at a third). Two nonces
  allow two upserts, so no version exceeds `MaxVersion` = 2: that a call at the top of
  uint32 reverts is left to the proofs, which remove these bounds.
- *policy_governance*: two proposals that drew the same nonce for the same content
  (so that the signatures of one serve the other, which gives the most ways to
  enact twice), two requests, two transactions, up to three signatures per call, as
  many as an anchoring may submit, and a rotation that takes out a
  guardian who has signed: a transaction that passed its gas estimate may then
  revert. `Builds` is both truth values: with the web3 the requirements ask for only
  `FALSE` occurs, with an older one `TRUE`, and the properties must not rest on that a
  transaction cannot be built. *never_anchored* is the same instance with `Builds` =
  `{FALSE}` and no failing call, where nothing but the code stands in the way.
- *anchoring*: two replicas, two decisions and a clock of two seconds with a one-second
  interval. Two windows can follow each other, a decision can carry a timestamp
  of its own, a restart can fall in the second of the last window and a window
  can be pushed into the future (`now <= cursor`). All of that at once is too much for
  TLC, so the coordinators are explored in three ways. `"alone"`: one process at a time
  (replicas that take over from each other), with a fault, another gateway and
  timestamps ahead of the clock. `"chain"`: two at a time that share the contract and its pool, no
  fault. `"tables"`: two at a time with a fault (a commit whose answer is lost among
  them), where no gateway is authorised and so nothing comes to the chain. Two windows
  of two replicas over two decisions overlap wholly, in part and not at all, which is
  every way in which one may take what the other has batched. The proofs hold of all
  combinations. `Builds` is as above. *batch_left_behind* needs one replica,
  *batched_twice* two, neither any fault, and in both nothing is built.
  Up to seven leaves give odd
  levels at every height the duplication rule can meet (3, 5, 6 and 7 leaves),
  and two leaf hashes make batches that differ in one place and batches with
  equal neighbours.
- *audit_service*: two items of one decision, so that one of them reverts for ever; one failing
  write or read of the file, one crash; a second gateway with batches of its own. The outage needs a
  single item and no crash.
- *shared_state*: a contested item and one with two records, two reviewers, two
  replicas, a lock of one tick in a clock of three: a lock can expire and the
  item be claimed anew while a call of the first tick is still under way. Two
  assets of two users with one content and one result per query, so that the
  nearest is somebody else's; three requests, one fault.
- *data_plane*: two messages of which one has no asset id, one is a web
  candidate; one retry, reads of two; one fault: a failed command, a lost reply or
  the end of a process, at any point. A buffer of one and a stream limit of one,
  so that drops and the pause happen. A crawl of eight addresses, two levels
  deep, with a redirected seed, a blocked domain, a page that its robots.txt forbids, where
  that can be had, a link that scores enough from only one of two pages, and a result
  limit of three, which leaves a page out when all are allowed. For the maintenance of
  the review queue one item, two replicas, a lock of one tick in a clock of three, one failure.
- *learning*: two samples and a threshold of one (two rounds), one retry of the
  callback, two models that are each worse than a third in one metric, one trigger
  from elsewhere, one fault. A modulus of 31 (2^5 - 1, as 2^61 - 1 is) with two parties and
  two clients: every share, values at the limit on both sides, sums that wrap and sums that
  do not; significands of two and three bits (float32 has 24, float64 53), so that among
  the sums are those that both formats hold, only the longer one and neither. Five
  episodes through a list of three, so that the writers trim while a batch of up
  to three is drawn. Two shadow calls on one thread, a log of one. Histories of up
  to two samples, four steps, states at the edges of the reward, one with a single entry
  in its queue.

Symmetry (`Permutations`) is used only in runs whose properties are invariants and
step properties: accounts, requests and proposals, replicas and users stand in no
order and appear alike in `Init` and `Next`. The clocks stop at `MaxTime`. No
fairness is assumed of `Tick`, so a stopped clock is an ordinary behaviour and
satisfies nothing by itself. In `OfferedAgain` an item still locked counts as
held. Deadlock is off where a bounded system really stops: when messages,
requests, episodes and faults are used up.

### Fairness

- `FairSpec` of `HITLMonitor`, and the monitor's part of `PlaneSpec`: weak fairness of the
  steps of a call under way (a service method runs to its end or raises; `CutShort` is
  bounded by `MaxFailures`), and strong fairness of `BeginReclaim` on each replica: the
  maintenance loop comes back between requests, so beginning a reclaim is enabled
  again and again though not continuously. It is not assumed that a call meets
  an item in any particular state.
- `AuditFairSpec`: the retry worker keeps running, delays run out, blocks
  are made, and for each item an upload, an estimate and a send that are
  attempted again and again succeed in the end: an outage that meets every
  attempt for ever is excluded, since no retry could survive it. Nothing is assumed of
  the disk, of the gas price or of restarts beyond the bounds; `EvidenceArrives`
  therefore names as alternatives a dead worker and an item that a start could not read.
- `IngestSpec`: weak fairness of starting the ingestor, of its loop and of the
  review worker's: both are `while` loops over blocking reads that return. Whether
  processing succeeds is left open.
- `WorkerSpec`: weak fairness of starting the analysis worker and the consumer, of
  the tasks taken together (one event loop) and of the consumer. It says nothing
  about a worker whose tasks ended by an exception: the code does not start them
  again, and `JobsDecided` names a fault as an alternative.
- `SearchSpec`: weak fairness of the crawl's loop; each request has a timeout.
- `MonitorSpec`: weak fairness of the thread's loop. `RoundsStart` names a fault
  and a configured callback as alternatives, since either may end the thread.
- `ShadowSpec`: weak fairness of each caller, and nothing of the learned policy.

## 4. Findings

1. `never_anchored`: with the web3 of `requirements.txt:25` (7 or later) the contract of an
   `AsyncWeb3` builds a transaction in a coroutine, which lines 417-430 do not await;
   `tx.setdefault` (`batch_coordinator.py:432`) raises on it, and a proposal with all its
   signatures is marked `anchor_failed` with nothing sent (against the docstring, line 398).
   Lines 708-722 do the same to every batch.
2. `batch_left_behind`: a decision stored after its window was read has a
   timestamp behind the cursor and is never batched (`batch_coordinator.py:471`,
   against line 188).
3. `batched_twice`: every API replica runs a coordinator (`app/main.py:218-229`); two that
   loaded the same decision both persist it, since the `UPDATE`
   (`batch_coordinator.py:685`) does not ask whether it has a batch: its row leaves the
   first batch (against line 188, which speaks of *unbatched* decisions).
4. `merkle_proof`: `_fetch_node_hash` asks a dictionary row for element 0, so the
   proof of every batched decision ends in `KeyError` (`batch_coordinator.py:790`
   and 253, against `README.md:322`).
5. `audit_outage`: when the node takes a transaction and the answer is lost, the
   item's own record makes each retry revert, and the item never leaves the
   queue (`audit_service.py:486`, against line 242).

Met while modelling, modelled as the code has them, and not given a run of their own:

- Trust: the comment of `revokePolicy` says that it revokes an existing policy, and
  nothing asks that one exists; `SentinelAudit` documents a score between 0 and
  10 000 that nothing enforces; `verifyDecisionInBatch` hashes sorted pairs with
  keccak while the coordinator hashes unsorted pairs with SHA-256, so no stored
  proof verifies on chain; a batch whose anchoring failed is never tried again; "anchored"
  is written when a node has taken a transaction and no receipt is read
  (`batch_coordinator.py:437`, against line 982), which does not show while none is built;
  a queue file that cannot be read or parsed is logged, the audit service goes on with an
  empty queue, and its next write replaces the file (`audit_service.py:521-540`).
- Streams: `search_orchestrator/main.py:147` says "Do not ACK so it can be retried",
  but the loop reads only `">"`, so nothing pending is read again; the same holds
  of the decision consumer. Groups made at `$` never see what was added before.
  Reading pauses while the decision stream is long
  (`worker/consumer.py:86-87`), and nothing trims that stream.
- Learning: the limit of `smpc_aggregator.py` is compared as float64, so a value
  just above it passes, and a *sum* beyond half the modulus wraps without
  `SMPCOverflowError`; the promotion guard has nothing to compare with once the
  record of the production model has expired (a week); a monitor without a callback
  hears its own announcement as a trigger and starts a round below the threshold
  with whatever has arrived since; `_state_queue_depth` returns a number of entries and
  `sentinel_env.py:336` goes on as if it were a share, so a queue with anything in it is
  full after a step; an index drawn from the weights may name another, newer episode when
  it is fetched (`redis_experience_buffer.py:276`).
- Crawl: a robots.txt that cannot be fetched, or is answered with an error, forbids
  nothing (`web_scraper/main.py:241-252`), and a redirect leads to a page whose domain and
  robots.txt nobody asks for (307).
- Web candidates: each carries a dictionary (`pipeline.py:93`) that is set as a property of
  a node (`graph_db.py:120-134`). Neo4j refuses that, and `pipeline.py:165-182` swallows the
  error, so no page, flag or link of a candidate reaches the graph.
- Gates: the slow gate compares a similarity with a threshold for Hamming
  distances, so its second stage runs only when nothing matched;
  the semantic point of a picture replaces the visual one of the same id
  (`app/main.py:546-579`).

## 5. Proofs

The theorems hold for every value of the constants that satisfies the assumptions
of the modules; TLC evaluates these on every run that extends them. Most say that
placeholders (`ZeroAddress`, `Nobody`, `Malformed`, `NoRow`, `ZeroRoot`, ...) are not
ordinary values, that bounds are numbers, that tables are finite and that inputs are
well typed. These say more, and why they may:

- `WorkerAssumption`: the confidence threshold (0.85 unless configured) is above the 0.35
  up to which the code calls nothing a match, since below that a similarity of any
  height could be one; and the buffer has room (256), since to `asyncio.Queue` a size
  of none is no limit.
- `AggregationAssumption`: the modulus is odd (it is 2^61 - 1), since half of an even one
  would be two numbers.
- `FloatAssumption`: floats are spaced by powers of two, a float64 has more digits than a
  float32, and both reach beyond the modulus.
- `TreeAssumption`: a leaf hash is neither NULL nor an exception.
- `AssetAssumption`: what a query is named by (its content) is not the id of an asset.
- `SearchAssumption`: terms, tiers and priorities add nothing negative to a score.
- `MonitorAssumption` of `RoundMonitor`: no candidate has an accuracy of 0 and an error of
  1, which the model keeps for "not measured", and the code takes a missing record to be.
- `GovernanceAssumption`: the contract's bound on the signatures of a call lets through
  the three that an anchoring may submit, and rotations are calls of `setGuardian`.

Fault bounds are among the constants: the theorems hold for any number of faults. So are
`Builds` and `CallsFail`: they hold whether transactions can be built or not.

Proofs about sums and recursive functions need induction. The provers cannot
instantiate a theorem about "every formula", so `FiniteSums` states induction with the
formula as a *set*: a set of numbers that holds 0 and the successor of each of its
elements holds all (`SetInduction`), and likewise for collections of finite sets
(`FiniteInduction`). From these it follows that the folds of the community modules
compute the sum one expects, in whatever order (`TotalIs`, `TotalOneMore`), and that
double sums may be exchanged (`TotalExchange`).

**PolicyRegistry.** `TypeOK /\ GuardiansDistinct` is inductive (`TypedStep`).
`QuorumOfCall` is the key lemma: a call that passes the signature loop carries, at
its first two places, signatures of two different present guardians over exactly
that payload. From it: `PoliciesBacked`, `ChangesHaveQuorum`, and
`RegistryImplementsQuorum`, step by step: an upsert or a revocation is `Enact`, a
rotation is `ChangeMembers`, a signature is `Approve`, ownership moves stutter.

**PolicyGovernance.** A transaction succeeds only by spending its nonce (`Spent`),
so two of one nonce cannot: `PayloadEnactedOnce`. A request that may mark its
proposal as anchored left a transaction with that payload behind (`Sent`), and one
that got anywhere found two stored signatures (`Begun`); neither ever goes away.
`GovernanceUsesContract` shows the whole to be a use of the contract: each step is one
of `PolicyRegistry` or leaves its storage alone, because proposals, requests and
transactions carry only what was requested and only signatures that exist (`Carried`).
The theorems about the contract therefore hold of the composition, too. For the
type invariant the transactions must not outgrow their bound: there are at most
`MaxSent`, so some account nonce up to that is free (`Counted`, `NumberIsFree`).

**BatchCoordinator.** `Table` (rows and batches agree; the windows of one replica in order,
nothing left out) is kept because of what each loop carries from one await to the next:
no window it learnt of ends after its cursor (`Ahead`); the leaves in hand are of this
window, different, in none of this replica's batches, and all that are in no batch yet
(`Chosen`); what is sent is a batch of the table (`InHand`). A step of another replica only
adds rows and batches and moves rows, which no loop's part of the invariant minds
(`CarriedKept`). `Chain` traces every root of pool and contract to a batch.
`CoordinatorImplementsLedger`: a cycle's commit forms a batch of stored decisions, all
different and hence no more than there are (`NoLonger`, `PersistForms`), a mined
transaction commits one, a recording stores a decision, and all else stutters.

**MerkleTree.** The invariant is small (`TreeInv`: the stored rows are those of the
tree of the leaves); the work is in what the tree is, for any number of leaves. The
recursive functions are first shown to exist (`LevelsAre`, `PositionsAre`, `FoldIs`).
The loop ends, and the shape of the levels depends on the number of leaves alone
(`TopIs`, `SameShape`). Each level is made of the subtrees of the top-down definition,
side by side (`CanonicalRoot`). A level determines the one below it (`NextBinds`), hence
`RootBinds`. `ClimbsProve` follows a climb: its place is that of a row up to the root
(`InLevel`), the rows it meets are linked (`RowsLinked`), so it ends at the root, and
started from another leaf it would end elsewhere. The hash is taken as injective, and
the statements are about batches of one length: that an odd node is paired with itself
makes some batches of different length share a root.

**AuditService.** `AcceptedSurvives` speaks of the file; a failed item is written
from memory, so memory must keep the promise too, or the start that could not read it is
to blame (`Remembered`). `EvidenceFirst` needs to
know what the worker holds (`Hand`), which needs that no item waits twice, nor
while the worker has it (`Queued`). `OneEventPerDecision` needs that whatever was
announced is on record and therefore refused (`OnRecord`), also when one batch
names a decision twice.

**HITLMonitor.** `NeverLost` is not inductive alone: a reclaim that is under way
holds the name of an item, and a claim holds a time that was read before. `ReviewInv`
adds what each replica remembers (`Memory`). Steps of other replicas only add
records and time, so memory lasts (`MemoryLasts`), and each action is proved
apart. From it: `TypeCorrect`, `NothingLost`, `ConflictsKept`, and
`LeaseImplemented`: a claim that succeeds is `Grant` (`ClaimGrants`), every other
step leaves the locks alone and can only let leases run out (`LocksAlone`).

**AssetRegistry.** The list of calls an endpoint has yet to make is the invariant's
subject. Before a call that tells the graph or the search of an asset there is one
that registers it and is not in a lenient `try` (`Backed`), or the asset is
registered already; since a failing call of that kind ends the request, the claim
holds of every remainder of the list (`Shorter`, `GoesOn`). The registry never forgets an
asset, though a later upsert may replace its point (`ApplyGrows`), so what was said
stays true (`Resolved`). `OwnCopyFound` rests on `Found`: what a search returned is the
caller's, and is all that is his of that content unless it fills the limit.

**Ingestor.** `DeadWasRetried` needs a stronger statement: every entry, not only a
dead letter, was tried with each smaller count (`Retried`). It is kept because a
successor is new when it is added (`Fresh`). `AckedIsSettled` needs to know that a
step that acknowledges has its answer (`Answered`, `InHand`).

**AnalysisWorker.** A message is in one place: yet to be read, pending or acknowledged
(`Ledger`); and of the pending ones, those being read, in the buffer and in the hands of
each task are apart, and undecided until a task has published (`Hands`). So nobody
publishes twice, and who acknowledges has published: `DecidedOnce`. For
`ResemblanceReachesHumans` each decision must tell what it was made of (`Telling`: a
similarity above 35 makes the verdict one to act on, and such a verdict has one above
25, since a logo adds at most 10), and the consumer acknowledges such a decision only after showing it (`Shown`).
The type invariant says that the buffer keeps its limit (`Buffering`) and that nothing is
acknowledged or shown that was not handed out (`HandedOut`).

**SearchOrchestrator.** What is marked as queued is seen or in the frontier (`Marked`), so
when the frontier is empty all of it was looked at; each page that was fetched has its
worthy links among the marked; each entry comes from the seeds or from a fetched page
(`Sources`), by way of where requests end. `Limited` keeps the candidates within
`max_pages`, and each robots.txt is read once in a crawl (`RobotsKnown`).

**RoundMonitor.** Samples are nowhere twice among the list and what the thread
holds (`Apart`), and what is about to be announced has been stored (`Holding`). For
`NoRegression`: a record in the registry is that of the announcement, and only
announced candidates have one (`Recorded`). `Offers` traces everything stored or
trained on to a sample somebody offered.

**SecureAggregation.** Everything is modulo P: `Shared` says that the shares of each
client add up to its value, `AggInv` that a finished party sum is that of its shares.
Exchanging the sum over parties with that over clients gives the true sum modulo P, and
a number within half an odd modulus gets its sign back (`SignedNear`). What the two
roundings do to it follows from what rounding is (`NearestIs`, `SpacingIs`, `RoundedIs`):
a number that both formats hold stays, and any other moves by no more than the spacing of
its neighbours, so that `DecodeClose` bounds the whole.
`SharesHideUpdates` is what the sharing is for: whatever the updates are, for each view that
all parties but one could have, exactly one choice of randomness deals it to them. As
the choices are equally likely, such a view is as likely under any updates. The theorem
is about the shares only: `README.md:266` says that "the server never sees individual
updates", but the coordinator receives them as they are (`strategy.py:67`) and does the
splitting itself.

**ExperienceBuffer.** The two lists are of one length, and the numbers of their episodes
follow each other (`Lists`), so an index means another episode once something was trimmed.
`Reading` says, for a sampler at each of its commands, how far the list has moved since it
began: the indices it holds can only have come to mean *newer* episodes, and all
of them still exist. `Drifted` compares with what each index named when it was drawn: an
episode that is fetched is newer by no more places than were trimmed since (`Near`).

**ShadowMode.** At most one inference runs and futures know their calls (`Asking`), a call
that is about to log holds what its future said, or that it was late (`Calling`), and
each record of the log is of a call that ended, agrees with its future and was
written once (`Logged`). `LogLimited`: the log exceeds its limit by no more than the
writes that Redis failed half-way.

**SentinelEnv.** The index into the history runs with the step count, and the sample a state
was read from is the one the index points to next (`EnvInv`). The two computations of
the reward are compared term by term (`RewardsAgree`).

Only model-checked: `EvidenceArrives`, `OfferedAgain`, `EverythingSettles` and
`LearningGoesOn`, since liveness under fairness is outside the prover's reach, as is
`ENABLED`. What the runs that expect a violation refute is, of course, not a theorem.

## 6. Not modelled, and why

- Numeric and learned parts: fingerprints, embeddings, graph networks,
  calibration, saliency, drift, statistics, differential privacy and edge
  training. They are floating-point code without protocol state; where their
  results decide something, the model takes any result. The accounting of the
  privacy budget starts anew each round, and its polling only sets a gauge.
- Authentication, response bodies and metrics of the HTTP API, its health and
  explanation endpoints: no shared state is changed. (`/health` reads `image_ids` and
  others of a registry that has none of them.)
- The race of two processes that start on an empty Qdrant
  (`app/registry/manager.py:66`): the one that loses it runs without a registry
  until it is started again. `AssetRegistry` begins with the collections there.
- `FLAGGED_WITH` as a kind of its own: Qdrant's payload never says that an asset is
  flagged, so the API creates none; neither do the web candidates (next).
- What web candidates leave in the graph: nothing, as section 4 says, since the first
  statement of each fails. That they are processed, fail and are retried is in
  `Ingestor`. The neighbourhood of which the slow gate builds its graph is left out with
  the pages that would be in it.
- Frontend, simulator, deployment and load scripts: I/O.
- In the modelled parts: wording, logging, metrics, gas price arithmetic, the
  priority score (a call may look at the queue in any order), the bytes of
  hashes and signatures (injective), `updatedAt` and block times (never read),
  `pop_highest_priority_item` (no caller), HTML parsing and the text embedding of a
  crawl (constants of the model), the wall clock of shadow calls (a caller may
  time out at any moment), the retry of a shadow policy without its second
  argument.
- Ownership transfers run in `policy_registry`; the compositions keep the owner
  fixed, since `Ownable2Step` is the same library in each contract and nothing
  else reads it.
- Hazards without a property are in `PROJECT.json` with the reason: a batch that is
  never anchored again, the two hash functions, the item in the hands of a review worker
  that ends, the pause that never ends, and the start-up race are facts of the code with
  nothing further to promise.

## 7. Order of work, and what is left

Modelled in the order of worth: the registry and governance, the coordinator, the
review queue, the audit service, the tree; then the streams, the rounds, the
aggregation, replay, shadow mode, environment and the registry of assets. Narrow runs
were merged into wider ones as parts were added.

Every safety property of a passing run, and every type invariant, has its theorem.
What would come next:

1. more refinements: a specification of at-least-once delivery that `Ingestor` and
   `AnalysisWorker` both implement, and specifications of `SentinelAudit` and
   `MerkleAnchor` by themselves, which `AuditService` and `BatchCoordinator` would be
   shown to use as `PolicyGovernance` is shown to use `PolicyRegistry`;
2. runs for the divergences of section 4 that have none, of which the wrapped sum
   and the pending messages that nobody reads are the most worth having;
3. a composition of `SearchOrchestrator` with `Ingestor`, if the ingest stream were
   ever to be trimmed: today each takes messages as they come.

## 8. Running it

`tlc -workers 2 -config <cfg> <module>` for a run of `PROJECT.json`. The five runs
marked as counterexamples are expected to report a violation. The proofs:

    for m in PolicyRegistryProofs PolicyGovernanceProofs AnchoringProofs \
             AuditServiceProofs SharedStateProofs DataPlaneProofs \
             LearningProofs FiniteSums; do
      tlapm $m.tla
    done
