-------------------------- MODULE BatchCoordinator --------------------------
(***************************************************************************)
(* The Merkle batching of decision_layer/services/batch_coordinator.py     *)
(* over the contract of MerkleAnchor.  Every replica of the API process    *)
(* has a coordinator of its own, over the same tables and with the same    *)
(* signer.  Decisions are written to Postgres as they come; a loop wakes   *)
(* every interval, batches the rows of a window of decision timestamps,    *)
(* persists the batch and sends its root.  Calls that record decisions run *)
(* in threads beside the loop.  A process may stop at any await: the       *)
(* tables and the chain survive, its cursor does not and is read back from *)
(* the batches.                                                            *)
(*                                                                         *)
(* Time is in whole seconds, as int(time.time()) is.  A batch is known by  *)
(* its position in the table, in the order of commits, and its root is the *)
(* sequence of its leaves: MerkleTree examines the tree itself.  The       *)
(* ledger between coordinator and contract is external: a transaction that *)
(* a node accepted is mined, and then succeeds or reverts, or is dropped.  *)
(***************************************************************************)
EXTENDS Integers, Sequences, FiniteSets, Faults

CONSTANTS
  Administrator, ZeroAddress, Gateway, ZeroRoot,
  Coordinator,  \* the gateway address of the coordinators' signer
  Replica,      \* API processes
  Decision,     \* decision identifiers: numbers, as they have an order
  NoRow,
  Interval,     \* anchor_interval_seconds
  Builds,       \* what build_transaction may come to: TRUE, a transaction; FALSE,
                \* a coroutine that nobody awaits, as with the web3 that is required
  MaxTime,      \* bound: the clock stops here
  Supplied      \* timestamps that decisions may carry themselves

ASSUME BatchAssumption ==
  /\ Interval \in Nat \ {0}
  /\ Builds \subseteq BOOLEAN
  /\ MaxTime \in Nat \ {0}
  /\ Supplied \subseteq Nat \ {0}
  /\ Coordinator \in Gateway
  /\ Decision \subseteq Nat /\ IsFiniteSet(Decision)
  /\ NoRow \notin [timestamp : Nat, batch : Nat, index : Nat]
  /\ ZeroRoot \notin Seq(Decision)

VARIABLES
  owner, pendingOwner, isAuthorisedGateway, anchors, rootAnchored,
  now,        \* the clock
  rows,       \* table merkle_decisions
  batches,    \* table merkle_batches
  started,    \* the second in which each replica's process started
  cursor,     \* _window_cursor_unix of each replica
  loop,       \* its anchoring loop: where it is and its local variables
  pool        \* transactions that a node accepted and nobody has mined

contract == <<owner, pendingOwner, isAuthorisedGateway, anchors, rootAnchored>>

vars == <<contract, now, rows, batches, started, cursor, loop, pool, faults>>

Contract == INSTANCE MerkleAnchor

Down == [pc |-> "down"]

Waiting(due) == [pc |-> "waiting", due |-> due]

Init ==
  /\ Contract!Init
  /\ now = 1
  /\ rows = [d \in Decision |-> NoRow]
  /\ batches = <<>>
  /\ started = [r \in Replica |-> 0]
  /\ cursor = [r \in Replica |-> 0]
  /\ loop = [r \in Replica |-> Down]
  /\ pool = {}
  /\ faults = 0

Tick ==
  /\ now < MaxTime
  /\ now' = now + 1
  /\ UNCHANGED <<contract, rows, batches, started, cursor, loop, pool, faults>>

-----------------------------------------------------------------------------
(* record_decision.  The leaf takes the second of the call, or a timestamp that *)
(* the decision carries; a thread of the process inserts it at a later moment.  *)

Stamps(r) == started[r]..now \cup Supplied

\* Mistake: ON CONFLICT (decision_id) DO UPDATE, as the upserts elsewhere do.
OverwriteDecision(r, d) ==
  /\ loop[r] # Down
  /\ \E timestamp \in Stamps(r) :
       rows' = [rows EXCEPT ![d] = [timestamp |-> timestamp, batch |-> 0, index |-> 0]]
  /\ UNCHANGED <<contract, now, batches, started, cursor, loop, pool, faults>>

\* ON CONFLICT (decision_id) DO NOTHING.  A row in no batch has batch 0.
RecordDecision(r, d) ==
  /\ loop[r] # Down
  /\ \E timestamp \in Stamps(r) :
       rows' = [rows EXCEPT ![d] =
         IF @ # NoRow THEN @ ELSE [timestamp |-> timestamp, batch |-> 0, index |-> 0]]
  /\ UNCHANGED <<contract, now, batches, started, cursor, loop, pool, faults>>

-----------------------------------------------------------------------------
(* A process starts and stops. *)

\* Mistake: the cursor is not restored.
CursorAtStartForgets == now - Interval

LastWindowEnd ==
  CHOOSE end \in {batches[b].end : b \in DOMAIN batches} :
    \A b \in DOMAIN batches : batches[b].end <= end

\* The constructor, then _restore_window_cursor.
CursorAtStart == IF batches = <<>> THEN now - Interval ELSE LastWindowEnd

Start(r) ==
  /\ loop[r] = Down
  /\ started' = [started EXCEPT ![r] = now]
  /\ cursor' = [cursor EXCEPT ![r] = CursorAtStart]
  /\ loop' = [loop EXCEPT ![r] = Waiting(now)]
  /\ UNCHANGED <<contract, now, rows, batches, pool, faults>>

\* A crash, at any await; a requested stop is one that finds the loop waiting.
\* Calls that had not inserted their leaf are gone with it.
Stop(r) ==
  /\ Fault
  /\ loop[r] # Down
  /\ started' = [started EXCEPT ![r] = 0]
  /\ cursor' = [cursor EXCEPT ![r] = 0]
  /\ loop' = [loop EXCEPT ![r] = Down]
  /\ UNCHANGED <<contract, now, rows, batches, pool>>

-----------------------------------------------------------------------------
(* _anchor_pending_window, an action per await. *)

\* The window ends now, unless the cursor is there already.  (present is for the
\* property WindowComplete: the rows that were in the table at this moment.)
OpenWindow(r) ==
  /\ loop[r].pc = "waiting"
  /\ now >= loop[r].due
  /\ loop' = [loop EXCEPT ![r] =
       [pc |-> "opened", start |-> cursor[r],
        end |-> IF now <= cursor[r] THEN cursor[r] + Interval ELSE now,
        present |-> {d \in Decision : rows[d] # NoRow}]]
  /\ UNCHANGED <<contract, now, rows, batches, started, cursor, pool, faults>>

\* Mistake: both ends of the window are exclusive.
UnbatchedOpen(start, end) ==
  {d \in Decision : /\ rows[d] # NoRow
                    /\ rows[d].batch = 0
                    /\ start < rows[d].timestamp
                    /\ rows[d].timestamp < end}

Unbatched(start, end) ==
  {d \in Decision : /\ rows[d] # NoRow
                    /\ rows[d].batch = 0
                    /\ start < rows[d].timestamp
                    /\ rows[d].timestamp <= end}

\* ORDER BY decision_timestamp, decision_id: one sequence.
Precedes(d, e) ==
  rows[d].timestamp < rows[e].timestamp \/ (rows[d].timestamp = rows[e].timestamp /\ d < e)

InLeafOrder(decisions) ==
  {leaves \in [1..Cardinality(decisions) -> decisions] :
     /\ \A d \in decisions : \E i \in DOMAIN leaves : leaves[i] = d
     /\ \A i, j \in DOMAIN leaves : i < j => Precedes(leaves[i], leaves[j])}

\* An empty window moves the cursor, in memory only, and leaves no row.
LoadUnbatchedLeaves(r) ==
  /\ loop[r].pc = "opened"
  /\ LET found == Unbatched(loop[r].start, loop[r].end)
     IN  IF found = {}
         THEN /\ cursor' = [cursor EXCEPT ![r] = loop[r].end]
              /\ loop' = [loop EXCEPT ![r] = Waiting(now + Interval)]
         ELSE /\ \E leaves \in InLeafOrder(found) :
                   loop' = [loop EXCEPT ![r] =
                     [pc |-> "loaded", start |-> @.start, end |-> @.end,
                      present |-> @.present, leaves |-> leaves]]
              /\ UNCHANGED cursor
  /\ UNCHANGED <<contract, now, rows, batches, started, pool, faults>>

\* (by and answered are for the properties: the replica whose batch this is, and
\* whether it learnt that its transaction was committed.)
NewBatch(r, answered) ==
  [start |-> loop[r].start, end |-> loop[r].end, present |-> loop[r].present,
   leaves |-> loop[r].leaves, status |-> "prepared", by |-> r, answered |-> answered]

\* What is sent is the batch in memory, not what the table holds of it.
Persisted(r) ==
  [pc |-> "persisted", batch |-> Len(batches) + 1, root |-> loop[r].leaves,
   start |-> loop[r].start]

Batched(r, d) == \E i \in DOMAIN loop[r].leaves : loop[r].leaves[i] = d

\* The update names the decision only: a row that another replica has batched
\* since it was loaded goes to the new batch.
RowsBatched(r) ==
  [d \in Decision |->
     IF Batched(r, d)
     THEN [rows[d] EXCEPT !.batch = Len(batches) + 1,
                          !.index = CHOOSE i \in DOMAIN loop[r].leaves : loop[r].leaves[i] = d]
     ELSE rows[d]]

\* _store_window_cursor and the assignment after it; then the anchoring begins.
GoOn(r) ==
  /\ Fine
  /\ cursor' = [cursor EXCEPT ![r] = loop[r].end]
  /\ loop' = [loop EXCEPT ![r] = Persisted(r)]

\* Mistake: the leaves are updated in a second transaction, and it fails.
PersistBatchOnly(r) ==
  /\ loop[r].pc = "loaded"
  /\ batches' = Append(batches, NewBatch(r, TRUE))
  /\ GoOn(r)
  /\ UNCHANGED <<contract, now, rows, started, pool>>

\* Mistake: the whole transaction is rolled back, and the loop goes on.
PersistRolledBack(r) ==
  /\ loop[r].pc = "loaded"
  /\ GoOn(r)
  /\ UNCHANGED <<contract, now, rows, batches, started, pool>>

\* One transaction: the batch, its tree and the pointers of its leaves.  Where
\* the answer to the commit is lost the cycle ends, and the cursor stays.
PersistBatch(r) ==
  /\ loop[r].pc = "loaded"
  /\ rows' = RowsBatched(r)
  /\ \/ batches' = Append(batches, NewBatch(r, TRUE)) /\ GoOn(r)
     \/ /\ Fault
        /\ batches' = Append(batches, NewBatch(r, FALSE))
        /\ loop' = [loop EXCEPT ![r] = Waiting(now + Interval)]
        /\ UNCHANGED cursor
  /\ UNCHANGED <<contract, now, started, pool>>

\* The database raises and nothing was done: _run_loop logs it and waits for
\* the next interval.
CycleFails(r) ==
  /\ Fault
  /\ loop[r].pc \in {"opened", "loaded", "failed"}
  /\ loop' = [loop EXCEPT ![r] = Waiting(now + Interval)]
  /\ UNCHANGED <<contract, now, rows, batches, started, cursor, pool>>

-----------------------------------------------------------------------------
(* _anchor_batch_on_chain and the marks it leaves. *)

\* build_transaction, the first use of its result, and estimate_gas, which
\* raises where the call would revert.
EstimateGas(r) ==
  /\ loop[r].pc = "persisted"
  /\ \E built \in Builds :
       loop' = [loop EXCEPT ![r].pc =
         IF built /\ Contract!Accepts(Coordinator, loop[r].root, Len(loop[r].root), TRUE)
         THEN "estimated" ELSE "failed"]
  /\ UNCHANGED <<contract, now, rows, batches, started, cursor, pool, faults>>

\* A node takes the transaction; its answer may be lost.
SendTransaction(r) ==
  /\ loop[r].pc = "estimated"
  /\ pool' = pool \cup {[root |-> loop[r].root, start |-> loop[r].start]}
  /\ \/ Fine /\ loop' = [loop EXCEPT ![r].pc = "sent"]
     \/ Fault /\ loop' = [loop EXCEPT ![r].pc = "failed"]
  /\ UNCHANGED <<contract, now, rows, batches, started, cursor>>

\* A call to the node raises, or the update that records its success is not made.
CallFails(r) ==
  /\ Fault
  /\ loop[r].pc \in {"persisted", "estimated", "sent"}
  /\ loop' = [loop EXCEPT ![r].pc = "failed"]
  /\ UNCHANGED <<contract, now, rows, batches, started, cursor, pool>>

SetStatus(r, status) ==
  /\ batches' = [batches EXCEPT ![loop[r].batch].status = status]
  /\ loop' = [loop EXCEPT ![r] = Waiting(now + Interval)]
  /\ UNCHANGED <<contract, now, rows, started, cursor, pool, faults>>

MarkBatchAnchored(r) == loop[r].pc = "sent" /\ SetStatus(r, "anchored")

\* The same, but the answer to its commit is lost.
MarkRaises(r) ==
  /\ Fault
  /\ loop[r].pc = "sent"
  /\ batches' = [batches EXCEPT ![loop[r].batch].status = "anchored"]
  /\ loop' = [loop EXCEPT ![r].pc = "failed"]
  /\ UNCHANGED <<contract, now, rows, started, cursor, pool>>

\* Nothing reads this status again: a failed batch is not retried.
MarkBatchAnchorFailed(r) == loop[r].pc = "failed" /\ SetStatus(r, "anchor_failed")

-----------------------------------------------------------------------------
(* The ledger, the contract's owner and the other gateways. *)

\* A transaction in a block succeeds or reverts.
Mine(tx) ==
  /\ \/ Contract!AnchorRoot(Coordinator, tx.root, tx.start, Len(tx.root), TRUE)
     \/ ~Contract!Accepts(Coordinator, tx.root, Len(tx.root), TRUE) /\ UNCHANGED contract
  /\ pool' = pool \ {tx}
  /\ UNCHANGED <<now, rows, batches, started, cursor, loop, faults>>

Evict(tx) ==
  /\ pool' = pool \ {tx}
  /\ UNCHANGED <<contract, now, rows, batches, started, cursor, loop, faults>>

\* The owner edits the allowlist; another gateway publishes a persisted batch,
\* or an empty or rootless one, which the contract refuses.  (Ownership changes
\* hands in PolicyRegistry; here it would change nothing.)
Elsewhere ==
  /\ \/ \E g \in Gateway \cup {ZeroAddress}, a \in BOOLEAN :
          Contract!SetGatewayAuthorisation(owner, g, a)
     \/ \E g \in Gateway \ {Coordinator}, cidGiven \in BOOLEAN,
          root \in {batches[b].leaves : b \in DOMAIN batches} \cup {ZeroRoot, <<>>} :
          Contract!AnchorRoot(g, root, 0, IF root = ZeroRoot THEN 1 ELSE Len(root), cidGiven)
  /\ UNCHANGED <<now, rows, batches, started, cursor, loop, pool, faults>>

Cycle(r) ==
  \/ OpenWindow(r) \/ LoadUnbatchedLeaves(r) \/ PersistBatch(r) \/ CycleFails(r)
  \/ EstimateGas(r) \/ SendTransaction(r) \/ CallFails(r)
  \/ MarkBatchAnchored(r) \/ MarkRaises(r) \/ MarkBatchAnchorFailed(r)

Next ==
  \/ Tick
  \/ \E r \in Replica :
       \/ \E d \in Decision : RecordDecision(r, d)
       \/ Start(r) \/ Stop(r)
       \/ Cycle(r)
  \/ \E tx \in pool : Mine(tx) \/ Evict(tx)
  \/ Elsewhere

Spec == Init /\ [][Next]_vars

-----------------------------------------------------------------------------
(* Properties. *)

Row == [timestamp : Nat, batch : Nat, index : Nat]

TypeOK ==
  /\ Contract!Ownership!TypeOK
  /\ isAuthorisedGateway \subseteq Gateway
  /\ \A d \in Decision : rows[d] # NoRow => rows[d] \in Row
  /\ \A r \in Replica : loop[r].pc \in
       {"down", "waiting", "opened", "loaded", "persisted", "estimated", "sent", "failed"}
  /\ \A b \in DOMAIN batches :
       /\ batches[b].leaves \in Seq(Decision) \ {<<>>}
       /\ batches[b].status \in {"prepared", "anchored", "anchor_failed"}
       /\ batches[b].by \in Replica
  /\ \A tx \in pool : tx.root \in Seq(Decision)

LeafOf(d, b) == \E i \in DOMAIN batches[b].leaves : batches[b].leaves[i] = d

\* A decision's row and its batches agree, through crashes, re-recorded decisions,
\* threads that insert while the loops work and replicas that batch the same
\* rows: whoever follows the row finds the leaf there; a batch's leaf has its row
\* in that batch or in a later one; and no replica batches a decision twice.
LeavesPointBack ==
  /\ \A d \in Decision :
       (rows[d] # NoRow /\ rows[d].batch # 0)
         => rows[d].batch \in DOMAIN batches /\ batches[rows[d].batch].leaves[rows[d].index] = d
  /\ \A b \in DOMAIN batches : \A i \in DOMAIN batches[b].leaves :
       LET row == rows[batches[b].leaves[i]]
       IN  row # NoRow /\ row.batch >= b /\ (row.batch = b => row.index = i)
  /\ \A b, c \in DOMAIN batches : \A d \in Decision :
       (LeafOf(d, b) /\ LeafOf(d, c) /\ batches[b].by = batches[c].by) => b = c

\* However often its process restarts, the windows of a replica's batches follow
\* each other without overlapping, except after one whose commit it did not
\* learn of; and every leaf lies in the window of its batch.
WindowsDisjoint ==
  /\ \A b, c \in DOMAIN batches :
       (b < c /\ batches[b].by = batches[c].by /\ batches[b].answered)
         => batches[b].end <= batches[c].start
  /\ \A b \in DOMAIN batches : \A i \in DOMAIN batches[b].leaves :
       /\ batches[b].start < rows[batches[b].leaves[i]].timestamp
       /\ rows[batches[b].leaves[i]].timestamp <= batches[b].end

\* A decision of a window that was in the table when the window was opened is a
\* leaf of that batch or of an earlier one, though the rows are read later and
\* others arrive, and other replicas batch them meanwhile.  (One inserted later
\* with a timestamp in the window may not be: NothingLeftBehind.)
WindowComplete ==
  \A b \in DOMAIN batches : \A d \in batches[b].present :
    (batches[b].start < rows[d].timestamp /\ rows[d].timestamp <= batches[b].end)
      => \E c \in 1..b : LeafOf(d, c)

\* A root the coordinators have on chain can be traced to a batch in the table
\* with these leaves, this start and this count, so that its proofs can be
\* rebuilt; and no root is stored twice, whoever submits it.
OnChainIsPersisted ==
  /\ \A i \in DOMAIN anchors : anchors[i].gateway = Coordinator =>
       \E b \in DOMAIN batches :
         /\ batches[b].leaves = anchors[i].root
         /\ batches[b].start = anchors[i].start
         /\ Len(batches[b].leaves) = anchors[i].leafCount
  /\ \A i, j \in DOMAIN anchors : anchors[i].root = anchors[j].root => i = j

Ledger == INSTANCE DecisionLedger WITH
  stored <- {d \in Decision : rows[d] # NoRow},
  formed <- [b \in DOMAIN batches |-> batches[b].leaves],
  batchOf <- [d \in Decision |-> IF rows[d] = NoRow THEN 0 ELSE rows[d].batch],
  committed <- rootAnchored

\* What is batched stays batched, in batches whose leaves are chosen once and
\* that name it; and what is committed on chain is one of them.
ImplementsLedger == Ledger!Spec

\* "Every 10-minute cycle builds a canonical Merkle tree from unbatched
\* decisions": no decision is a leaf of two batches.
BatchedOnce ==
  \A b, c \in DOMAIN batches : \A d \in Decision :
    (LeafOf(d, b) /\ LeafOf(d, c)) => b = c

\* "Every 10-minute cycle builds a canonical Merkle tree from unbatched
\* decisions": no unbatched decision lies where neither a coordinator that runs
\* nor one that starts will look again.
NothingLeftBehind ==
  batches # <<>> =>
    \A d \in Decision :
      (rows[d] # NoRow /\ rows[d].batch = 0)
        => \/ rows[d].timestamp > LastWindowEnd
           \/ \E r \in Replica : loop[r] # Down /\ rows[d].timestamp > cursor[r]
=============================================================================
