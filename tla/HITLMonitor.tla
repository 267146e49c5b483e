---------------------------- MODULE HITLMonitor ----------------------------
(***************************************************************************)
(* decision_layer/services/hitl_monitor.py: a review queue that replicas   *)
(* of the API share in Redis.  An item is in the queue, in flight with a   *)
(* deadline, or both; a lock that Redis expires by itself says who reviews *)
(* it.  A service method is synchronous, so a replica is in one call at a  *)
(* time, but every Redis command of a call is a step of its own, and the   *)
(* replicas interleave.  Scripts and MULTI pipelines are single steps.     *)
(*                                                                         *)
(* Priorities decide in which order a call looks at the queue.  No         *)
(* property depends on that order, so a call may look in any.  Of an       *)
(* item's record only the reviewers in conflict with it are kept.          *)
(***************************************************************************)
EXTENDS Naturals, Sequences, FiniteSets

CONSTANTS
  Item, Reviewer, Nobody,
  Replica,
  Submissions,    \* bound: the records each item may be enqueued with, each the
                  \* set of reviewers whose profile conflicts with it
  RightsGraph,    \* per item, the reviewers in conflict through the rights graph
  NoRecord,
  LockTtl,        \* lock_ttl_seconds
  ScanLimit,      \* scan_limit
  MaxTime,        \* bound: the clock stops here
  MaxFailures     \* bound: calls cut short

ASSUME MonitorAssumption ==
  /\ Nobody \notin Reviewer
  /\ Submissions \in [Item -> SUBSET SUBSET Reviewer]
  /\ RightsGraph \in [Item -> SUBSET Reviewer]
  /\ \A conflicts \in SUBSET Reviewer : conflicts # NoRecord
  /\ LockTtl \in Nat \ {0}
  /\ ScanLimit \in Nat \ {0}
  /\ MaxTime \in Nat \ {0}
  /\ MaxFailures \in Nat

VARIABLES
  now,
  record,    \* the item hashes
  queue,     \* members of queue_key
  inflight,  \* inflight_key: the deadline of each member, 0 for the others
  lock,      \* lock keys: holder and expiry; one that has expired is not there
  call,      \* what each replica is doing
  failures

vars == <<now, record, queue, inflight, lock, call, failures>>

Idle == [pc |-> "idle"]

Init ==
  /\ now = 1
  /\ record = [i \in Item |-> NoRecord]
  /\ queue = {}
  /\ inflight = [i \in Item |-> 0]
  /\ lock = [i \in Item |-> [reviewer |-> Nobody, expires |-> 0]]
  /\ call = [w \in Replica |-> Idle]
  /\ failures = 0

Locked(i) == now < lock[i].expires

Tick ==
  /\ now < MaxTime
  /\ now' = now + 1
  /\ UNCHANGED <<record, queue, inflight, lock, call, failures>>

\* One pipeline, also for an item that is known, or under review.
EnqueueItem(w, i) ==
  /\ call[w] = Idle
  /\ \E conflicts \in Submissions[i] : record' = [record EXCEPT ![i] = conflicts]
  /\ queue' = queue \cup {i}
  /\ UNCHANGED <<now, inflight, lock, call, failures>>

-----------------------------------------------------------------------------
(* assign_next_item. *)

Go(w, step) == call' = [call EXCEPT ![w] = step]

\* The candidates: the queue as it is now, up to the limit.
BeginAssign(w, r) ==
  /\ call[w] = Idle
  /\ \E n \in 0..ScanLimit : \E candidates \in [1..n -> queue] :
       /\ \A j, k \in 1..n : j # k => candidates[j] # candidates[k]
       /\ n = ScanLimit \/ n = Cardinality(queue)
       /\ Go(w, [pc |-> "scan", reviewer |-> r, candidates |-> candidates])
  /\ UNCHANGED <<now, record, queue, inflight, lock, failures>>

\* Mistake: the candidate after one that was passed over is not examined.
NextUnexamined(w) ==
  LET rest == Tail(call[w].candidates)
      r == call[w].reviewer
  IN  Go(w, IF rest = <<>> THEN [pc |-> "scan", reviewer |-> r, candidates |-> rest]
            ELSE [pc |-> "clear", reviewer |-> r, at |-> now, candidates |-> rest])

NextCandidate(w) ==
  Go(w, [pc |-> "scan", reviewer |-> call[w].reviewer, candidates |-> Tail(call[w].candidates)])

\* get_item and check_conflict_of_interest.  A rights graph that cannot be read
\* counts as one without conflicts.
Examine(w) ==
  /\ call[w].pc = "scan"
  /\ \/ call[w].candidates = <<>> /\ Go(w, Idle)
     \/ /\ call[w].candidates # <<>>
        /\ LET i == Head(call[w].candidates)
               r == call[w].reviewer
           IN \E graph \in {RightsGraph[i], {}} :
                IF r \in record[i] \cup graph THEN NextCandidate(w)
                ELSE Go(w, [pc |-> "clear", reviewer |-> r, at |-> now,
                            candidates |-> call[w].candidates])
  /\ UNCHANGED <<now, record, queue, inflight, lock, failures>>

\* Mistake: the script does not ask for the lock.
ClaimUnlocked(w) ==
  /\ call[w].pc = "clear"
  /\ LET i == Head(call[w].candidates)
     IN  IF i \in queue
         THEN /\ queue' = queue \ {i}
              /\ inflight' = [inflight EXCEPT ![i] = call[w].at + LockTtl]
              /\ lock' = [lock EXCEPT ![i] = [reviewer |-> call[w].reviewer,
                                              expires |-> now + LockTtl]]
              /\ Go(w, Idle)
         ELSE NextCandidate(w) /\ UNCHANGED <<queue, inflight, lock>>
  /\ UNCHANGED <<now, record, failures>>

\* Mistake: the script leaves out the ZADD to the in-flight set.
ClaimUntracked(w) ==
  /\ call[w].pc = "clear"
  /\ LET i == Head(call[w].candidates)
     IN  IF i \in queue /\ ~Locked(i)
         THEN /\ queue' = queue \ {i}
              /\ lock' = [lock EXCEPT ![i] = [reviewer |-> call[w].reviewer,
                                              expires |-> now + LockTtl]]
              /\ Go(w, Idle)
         ELSE NextCandidate(w) /\ UNCHANGED <<queue, lock>>
  /\ UNCHANGED <<now, record, inflight, failures>>

\* The claim script.  The deadline counts from the clock of the replica, read
\* before the call; the lock expires by the clock of Redis.
Claim(w) ==
  /\ call[w].pc = "clear"
  /\ LET i == Head(call[w].candidates)
     IN  IF i \in queue /\ ~Locked(i)
         THEN /\ queue' = queue \ {i}
              /\ inflight' = [inflight EXCEPT ![i] = call[w].at + LockTtl]
              /\ lock' = [lock EXCEPT ![i] = [reviewer |-> call[w].reviewer,
                                              expires |-> now + LockTtl]]
              /\ Go(w, Idle)
         ELSE NextCandidate(w) /\ UNCHANGED <<queue, inflight, lock>>
  /\ UNCHANGED <<now, record, failures>>

-----------------------------------------------------------------------------
(* The two halves of the maintenance loop, also called over HTTP. *)

\* recompute_all_priorities: the members, then a pipeline for each.
BeginRecompute(w) ==
  /\ call[w] = Idle
  /\ Go(w, [pc |-> "recompute", items |-> queue])
  /\ UNCHANGED <<now, record, queue, inflight, lock, failures>>

\* ZADD without XX: an item claimed since is put back.
RecomputeItem(w) ==
  /\ call[w].pc = "recompute"
  /\ \/ call[w].items = {} /\ Go(w, Idle) /\ UNCHANGED queue
     \/ \E i \in call[w].items :
          /\ queue' = queue \cup {i}
          /\ Go(w, [pc |-> "recompute", items |-> call[w].items \ {i}])
  /\ UNCHANGED <<now, record, inflight, lock, failures>>

Overdue == {i \in Item : 0 < inflight[i] /\ inflight[i] <= now}

BeginReclaim(w) ==
  /\ call[w] = Idle
  /\ Go(w, [pc |-> "reclaim", items |-> Overdue])
  /\ UNCHANGED <<now, record, queue, inflight, lock, failures>>

\* exists(lock_key).
ReclaimCheck(w) ==
  /\ call[w].pc = "reclaim"
  /\ \/ call[w].items = {} /\ Go(w, Idle)
     \/ \E i \in call[w].items :
          Go(w, [pc |-> IF Locked(i) THEN "reclaim" ELSE "restore",
                 items |-> call[w].items \ {i}, item |-> i])
  /\ UNCHANGED <<now, record, queue, inflight, lock, failures>>

\* Mistake: only an item that is still queued gets its score back (ZADD XX).
RestoreQueuedOnly(w) ==
  /\ call[w].pc = "restore"
  /\ inflight' = [inflight EXCEPT ![call[w].item] = 0]
  /\ Go(w, [pc |-> "reclaim", items |-> call[w].items])
  /\ UNCHANGED <<now, record, queue, lock, failures>>

\* The pipeline, whatever happened since the check.
Restore(w) ==
  /\ call[w].pc = "restore"
  /\ inflight' = [inflight EXCEPT ![call[w].item] = 0]
  /\ queue' = queue \cup {call[w].item}
  /\ Go(w, [pc |-> "reclaim", items |-> call[w].items])
  /\ UNCHANGED <<now, record, lock, failures>>

\* Redis fails, or the replica does: the rest of the call does not happen.
CutShort(w) ==
  /\ call[w] # Idle
  /\ failures < MaxFailures
  /\ failures' = failures + 1
  /\ Go(w, Idle)
  /\ UNCHANGED <<now, record, queue, inflight, lock>>

Proceed(w) ==
  Examine(w) \/ Claim(w) \/ RecomputeItem(w) \/ ReclaimCheck(w) \/ Restore(w)

Next ==
  \/ Tick
  \/ \E w \in Replica :
       \/ \E i \in Item : EnqueueItem(w, i)
       \/ \E r \in Reviewer : BeginAssign(w, r)
       \/ BeginRecompute(w)
       \/ BeginReclaim(w)
       \/ Proceed(w)
       \/ CutShort(w)

Spec == Init /\ [][Next]_vars

\* A call goes on to its end.  Between calls every replica comes back to its
\* maintenance loop, however many requests it serves.
FairSpec == Spec /\ \A w \in Replica : WF_vars(Proceed(w)) /\ SF_vars(BeginReclaim(w))

-----------------------------------------------------------------------------
(* Properties. *)

TypeOK ==
  /\ now \in 1..MaxTime
  /\ record \in [Item -> {NoRecord} \cup SUBSET Reviewer]
  /\ queue \subseteq Item
  /\ \A i \in Item : inflight[i] \in 0..lock[i].expires
  /\ lock \in [Item -> [reviewer : Reviewer \cup {Nobody}, expires : 0..(MaxTime + LockTtl)]]
  /\ \A w \in Replica : call[w].pc \in {"idle", "scan", "clear", "recompute", "reclaim", "restore"}
  /\ failures \in 0..MaxFailures

\* No item falls between the two sets: whatever the replicas do at the same
\* time and wherever a call is cut short, an item that was ever enqueued is
\* queued or has a deadline.
NeverLost == \A i \in Item : record[i] # NoRecord => i \in queue \/ inflight[i] # 0

Lease == INSTANCE ReviewLease WITH
  holder <- [i \in Item |-> IF Locked(i) THEN lock[i].reviewer ELSE Nobody]

\* Whatever recompute and reclaim put back into the queue while an item is under
\* review, no second reviewer is given it before the first one's time is up.
ImplementsLease == Lease!Spec

\* A reviewer who never answers holds nothing up: again and again each known
\* item is on offer or in somebody's hands.
OfferedAgain ==
  \A i \in Item : record[i] # NoRecord ~> (i \in queue \/ Locked(i))

\* A reviewer in conflict with an item by every record it ever had is never
\* given it, in whatever order candidates are passed over, lost to another
\* replica and reclaimed.  (A conflict that a new record brings in after the
\* check, or that an unreachable rights graph hides, is not seen.)
KnownConflictsKept ==
  [][\A i \in Item : lock'[i] # lock[i] =>
       \E conflicts \in Submissions[i] : lock'[i].reviewer \notin conflicts]_vars
=============================================================================
