------------------------- MODULE SharedStateProofs --------------------------
(***************************************************************************)
(* What the services that share state guarantee: the review queue and the  *)
(* asset registry, for any number of items, assets, callers and failures.  *)
(***************************************************************************)
EXTENDS HITLMonitor, AssetRegistry, SequenceTheorems, TLAPS

-----------------------------------------------------------------------------
(***************************************************************************)
(* What HITLMonitor guarantees for any number of items, reviewers and      *)
(* replicas, any lock time and any number of calls cut short.              *)
(*                                                                         *)
(* The invariant adds to the checked ones what each replica remembers      *)
(* between two commands: the items of a call under way are known ones, an  *)
(* examined candidate has a reviewer that some record of it allows, and    *)
(* the clock that was read is not ahead.  Steps of one replica leave the   *)
(* memory of the others alone, and records and the clock only grow: so     *)
(* what another replica remembers stays true (MemoryLasts).                *)
(***************************************************************************)

Known == {i \in Item : record[i] # NoRecord}

\* Reviewer r may be given item i by one of the records that i can have.
Allowed(i, r) == \E conflicts \in Submissions[i] : r \notin conflicts

\* What call record c may hold when the items of known are, and time is now.
Memory(c, known, time) ==
  /\ c.pc \in {"idle", "scan", "clear", "recompute", "reclaim", "restore"}
  /\ c.pc \in {"scan", "clear"} => c.reviewer \in Reviewer /\ c.candidates \in Seq(known)
  /\ c.pc = "clear" =>
       /\ c.candidates # <<>>
       /\ Allowed(Head(c.candidates), c.reviewer)
       /\ c.at \in Nat \ {0}
       /\ c.at <= time
  /\ c.pc \in {"recompute", "reclaim", "restore"} => c.items \subseteq known
  /\ c.pc = "restore" => c.item \in known

Remembered ==
  /\ call = [w \in Replica |-> call[w]]
  /\ \A w \in Replica : Memory(call[w], Known, now)

Stored ==
  /\ now \in 1..MaxTime
  /\ record = [i \in Item |-> record[i]]
  /\ \A i \in Item : record[i] \in Submissions[i] \cup {NoRecord}
  /\ queue \subseteq Known
  /\ inflight \in [Item -> Nat]
  /\ lock \in [Item -> [reviewer : Reviewer \cup {Nobody}, expires : 0..(MaxTime + LockTtl)]]
  /\ failures \in 0..MaxFailures

Deadlines ==
  \A i \in Item : inflight[i] <= lock[i].expires /\ (inflight[i] # 0 => i \in Known)

ReviewInv == Stored /\ Deadlines /\ Remembered /\ NeverLost

-----------------------------------------------------------------------------

\* No record is the absent one, so that enqueueing makes an item known.
LEMMA RecordsAreRecords ==
  \A i \in Item : Submissions[i] \subseteq SUBSET Reviewer /\ NoRecord \notin Submissions[i]
  BY MonitorAssumption

LEMMA ReviewInitInv == Init => ReviewInv
<1> SUFFICES ASSUME Init PROVE ReviewInv
  OBVIOUS
<1> USE MonitorAssumption DEF Init
<1>1. Stored
  BY DEF Stored, Known
<1>2. Deadlines
  BY DEF Deadlines
<1>3. Remembered
  BY DEF Remembered, Memory, Idle
<1>4. NeverLost
  BY DEF NeverLost
<1>. QED
  BY <1>1, <1>2, <1>3, <1>4 DEF ReviewInv

\* What a replica remembers stays true when more items are known and time has
\* passed: no step of another replica can make a call under way wrong.
LEMMA MemoryLasts ==
  ASSUME NEW c, NEW known, NEW more, NEW t \in Nat, NEW later \in Nat,
         Memory(c, known, t), known \subseteq more, t <= later
  PROVE  Memory(c, more, later)
<1>1. c.pc \in {"scan", "clear"} => c.candidates \in Seq(more)
  BY DEF Memory
<1>2. c.pc = "clear" => c.at \in Nat /\ c.at <= later
  BY DEF Memory
<1>. QED
  BY <1>1, <1>2 DEF Memory

\* One replica moves to another place of its call, or a new one; the others'
\* memory is untouched.
LEMMA OneReplicaMoves ==
  ASSUME ReviewInv, NEW w \in Replica, NEW c, Go(w, c),
         Known \subseteq Known', now' = now, Memory(c, Known', now')
  PROVE  Remembered'
<1>1. now \in Nat
  BY MonitorAssumption DEF ReviewInv, Stored
<1>2. ASSUME NEW v \in Replica
      PROVE  Memory(call'[v], Known', now')
  <2>1. CASE v = w
    BY <2>1 DEF Go, ReviewInv, Remembered
  <2>2. CASE v # w
    <3>1. call'[v] = call[v] /\ Memory(call[v], Known, now)
      BY <2>2 DEF Go, ReviewInv, Remembered
    <3>. QED
      BY <3>1, <1>1, MemoryLasts
  <2>. QED
    BY <2>1, <2>2
<1>3. call' = [v \in Replica |-> call'[v]]
  BY DEF Go, ReviewInv, Remembered
<1>. QED
  BY <1>2, <1>3 DEF Remembered

\* No replica moves.
LEMMA NoReplicaMoves ==
  ASSUME ReviewInv, UNCHANGED call, Known \subseteq Known', now' \in Nat, now <= now'
  PROVE  Remembered'
<1>1. now \in Nat
  BY MonitorAssumption DEF ReviewInv, Stored
<1>2. \A v \in Replica : Memory(call[v], Known', now')
  BY <1>1, MemoryLasts DEF ReviewInv, Remembered
<1>. QED
  BY <1>2 DEF ReviewInv, Remembered

-----------------------------------------------------------------------------
(* Every step keeps the invariant: an action at a time. *)

\* Steps that only move one replica.
LEMMA OnlyMoves ==
  ASSUME ReviewInv, NEW w \in Replica, NEW c, Go(w, c), Memory(c, Known, now),
         UNCHANGED <<now, record, queue, inflight, lock>>, failures' \in 0..MaxFailures
  PROVE  ReviewInv'
<1>1. Known' = Known
  BY DEF Known
<1>2. Remembered'
  BY <1>1, OneReplicaMoves
<1>. QED
  BY <1>1, <1>2 DEF ReviewInv, Stored, Deadlines, NeverLost

LEMMA TickStep == ReviewInv /\ Tick => ReviewInv'
<1> SUFFICES ASSUME ReviewInv, Tick PROVE ReviewInv'
  OBVIOUS
<1>1. Known' = Known
  BY DEF Tick, Known
<1>2. now' \in 1..MaxTime /\ now <= now'
  BY MonitorAssumption DEF Tick, ReviewInv, Stored
<1>3. Remembered'
  BY <1>1, <1>2, NoReplicaMoves, MonitorAssumption DEF Tick
<1>. QED
  BY <1>1, <1>2, <1>3 DEF ReviewInv, Stored, Deadlines, NeverLost, Tick

LEMMA EnqueueStep ==
  ASSUME ReviewInv, NEW w \in Replica, NEW i \in Item, EnqueueItem(w, i)
  PROVE  ReviewInv'
<1>1. PICK conflicts \in Submissions[i] : record' = [record EXCEPT ![i] = conflicts]
  BY DEF EnqueueItem
<1>2. conflicts # NoRecord
  BY <1>1, RecordsAreRecords
<1>3. Known' = Known \cup {i}
  BY <1>1, <1>2 DEF Known, ReviewInv, Stored
<1>4. now \in Nat
  BY MonitorAssumption DEF ReviewInv, Stored
<1>5. Stored'
  BY <1>1, <1>3 DEF EnqueueItem, ReviewInv, Stored
<1>6. Remembered'
  BY <1>3, <1>4, NoReplicaMoves DEF EnqueueItem
<1>7. NeverLost'
  BY <1>1 DEF EnqueueItem, ReviewInv, Stored, NeverLost
<1>. QED
  BY <1>3, <1>5, <1>6, <1>7 DEF EnqueueItem, ReviewInv, Deadlines

LEMMA AssignStep ==
  ASSUME ReviewInv, NEW w \in Replica, NEW r \in Reviewer, BeginAssign(w, r)
  PROVE  ReviewInv'
<1>0. PICK n \in 0..ScanLimit : \E candidates \in [1..n -> queue] :
        Go(w, [pc |-> "scan", reviewer |-> r, candidates |-> candidates])
  BY DEF BeginAssign
<1>1. PICK candidates \in [1..n -> queue] :
        Go(w, [pc |-> "scan", reviewer |-> r, candidates |-> candidates])
  BY <1>0
<1>2. candidates \in Seq(Known)
  <2>1. n \in Nat /\ queue \subseteq Known
    BY MonitorAssumption DEF ReviewInv, Stored
  <2>2. candidates \in [1..n -> Known]
    BY <2>1
  <2>. QED
    BY <2>1, <2>2
<1>3. Memory([pc |-> "scan", reviewer |-> r, candidates |-> candidates], Known, now)
  BY <1>2 DEF Memory
<1>. QED
  BY <1>1, <1>3, OnlyMoves DEF BeginAssign, ReviewInv, Stored

\* A candidate is passed over.
LEMMA PassedOver ==
  ASSUME ReviewInv, NEW w \in Replica, call[w].pc \in {"scan", "clear"}, call[w].candidates # <<>>
  PROVE  Memory([pc |-> "scan", reviewer |-> call[w].reviewer,
                 candidates |-> Tail(call[w].candidates)], Known, now)
  BY DEF ReviewInv, Remembered, Memory

LEMMA ExamineStep ==
  ASSUME ReviewInv, NEW w \in Replica, Examine(w)
  PROVE  ReviewInv'
<1>1. failures' \in 0..MaxFailures /\ UNCHANGED <<now, record, queue, inflight, lock>>
  BY DEF Examine, ReviewInv, Stored
<1>2. CASE Go(w, Idle)
  BY <1>1, <1>2, OnlyMoves DEF Memory, Idle
<1>3. CASE call[w].candidates # <<>> /\ NextCandidate(w)
  BY <1>1, <1>3, OnlyMoves, PassedOver DEF NextCandidate, Examine
<1>4. ASSUME NEW graph, call[w].candidates # <<>>,
             call[w].reviewer \notin record[Head(call[w].candidates)] \cup graph,
             Go(w, [pc |-> "clear", reviewer |-> call[w].reviewer, at |-> now,
                    candidates |-> call[w].candidates])
      PROVE  ReviewInv'
  <2> DEFINE i == Head(call[w].candidates)
             c == [pc |-> "clear", reviewer |-> call[w].reviewer, at |-> now,
                   candidates |-> call[w].candidates]
  <2>1. /\ call[w].reviewer \in Reviewer
        /\ call[w].candidates \in Seq(Known)
    BY DEF Examine, ReviewInv, Remembered, Memory
  <2>2. i \in Known
    BY <2>1, <1>4
  <2>3. record[i] \in Submissions[i]
    BY <2>2 DEF Known, ReviewInv, Stored
  <2>4. Allowed(i, call[w].reviewer)
    BY <2>3, <1>4 DEF Allowed
  <2>5. now \in Nat \ {0} /\ now <= now
    BY MonitorAssumption DEF ReviewInv, Stored
  <2>6. Memory(c, Known, now)
    BY <2>1, <2>4, <2>5, <1>4 DEF Memory
  <2>. QED
    BY <1>1, <1>4, <2>6, OnlyMoves
<1>. QED
  BY <1>2, <1>3, <1>4 DEF Examine

\* The claim: the deadline follows from a clock read earlier, the expiry of the
\* lock from the present one.
LEMMA ClaimStep ==
  ASSUME ReviewInv, NEW w \in Replica, Claim(w)
  PROVE  ReviewInv'
<1> DEFINE i == Head(call[w].candidates)
<1>1. /\ call[w].candidates # <<>> /\ i \in Known
      /\ call[w].reviewer \in Reviewer
      /\ call[w].at \in Nat \ {0} /\ call[w].at <= now
  BY DEF Claim, ReviewInv, Remembered, Memory
<1>2. CASE i \in queue /\ ~Locked(i)
  <2>1. /\ queue' = queue \ {i}
        /\ inflight' = [inflight EXCEPT ![i] = call[w].at + LockTtl]
        /\ lock' = [lock EXCEPT ![i] = [reviewer |-> call[w].reviewer, expires |-> now + LockTtl]]
        /\ Go(w, Idle)
        /\ UNCHANGED <<now, record, failures>>
    BY <1>2 DEF Claim
  <2>2. Known' = Known /\ i \in Item
    BY <2>1, <1>1 DEF Known
  <2>3. /\ call[w].at + LockTtl \in Nat \ {0}
        /\ call[w].at + LockTtl <= now + LockTtl
        /\ now + LockTtl \in 0..(MaxTime + LockTtl)
    BY <1>1, MonitorAssumption, SMTT(30) DEF ReviewInv, Stored
  <2>4. Stored'
    BY <1>1, <2>1, <2>2, <2>3 DEF ReviewInv, Stored
  <2>5. Deadlines'
    <3>1. inflight'[i] <= lock'[i].expires /\ i \in Known'
      BY <1>1, <2>1, <2>2, <2>3 DEF ReviewInv, Stored
    <3>2. \A j \in Item : j # i => inflight'[j] = inflight[j] /\ lock'[j] = lock[j]
      BY <2>1 DEF ReviewInv, Stored
    <3>. QED
      BY <2>2, <3>1, <3>2 DEF ReviewInv, Deadlines
  <2>6. Remembered'
    BY <2>1, <2>2, OneReplicaMoves DEF Memory, Idle
  <2>7. NeverLost'
    BY <2>1, <2>2, <2>3 DEF ReviewInv, Stored, NeverLost
  <2>. QED
    BY <2>4, <2>5, <2>6, <2>7 DEF ReviewInv
<1>3. CASE ~(i \in queue /\ ~Locked(i))
  BY <1>1, <1>3, OnlyMoves, PassedOver DEF Claim, NextCandidate, ReviewInv, Stored
<1>. QED
  BY <1>2, <1>3

LEMMA RecomputeStep ==
  ASSUME ReviewInv, NEW w \in Replica, BeginRecompute(w) \/ RecomputeItem(w)
  PROVE  ReviewInv'
<1>1. CASE BeginRecompute(w)
  BY <1>1, OnlyMoves DEF BeginRecompute, Memory, ReviewInv, Stored
<1>2. CASE RecomputeItem(w)
  <2>1. call[w].items \subseteq Known
    BY <1>2 DEF RecomputeItem, ReviewInv, Remembered, Memory
  <2>2. CASE Go(w, Idle) /\ UNCHANGED queue
    BY <1>2, <2>2, OnlyMoves DEF RecomputeItem, Memory, Idle, ReviewInv, Stored
  <2>3. ASSUME NEW i \in call[w].items, queue' = queue \cup {i},
               Go(w, [pc |-> "recompute", items |-> call[w].items \ {i}])
        PROVE  ReviewInv'
    <3>1. Known' = Known
      BY <1>2 DEF RecomputeItem, Known
    <3>2. Memory([pc |-> "recompute", items |-> call[w].items \ {i}], Known', now')
      BY <2>1, <3>1 DEF Memory
    <3>3. Remembered'
      BY <1>2, <2>3, <3>1, <3>2, OneReplicaMoves DEF RecomputeItem
    <3>. QED
      BY <1>2, <2>1, <2>3, <3>1, <3>3
      DEF RecomputeItem, ReviewInv, Stored, Deadlines, NeverLost
  <2>. QED
    BY <1>2, <2>2, <2>3 DEF RecomputeItem
<1>. QED
  BY <1>1, <1>2

\* Overdue is read off the deadlines, and an item with a deadline is a known one.
LEMMA ReclaimStep ==
  ASSUME ReviewInv, NEW w \in Replica, BeginReclaim(w) \/ ReclaimCheck(w) \/ Restore(w)
  PROVE  ReviewInv'
<1>1. CASE BeginReclaim(w)
  <2>1. Overdue \subseteq Known
    BY DEF Overdue, ReviewInv, Stored, Deadlines
  <2>. QED
    BY <1>1, <2>1, OnlyMoves DEF BeginReclaim, Memory, ReviewInv, Stored
<1>2. CASE ReclaimCheck(w)
  <2>1. call[w].items \subseteq Known
    BY <1>2 DEF ReclaimCheck, ReviewInv, Remembered, Memory
  <2>2. failures' \in 0..MaxFailures /\ UNCHANGED <<now, record, queue, inflight, lock>>
    BY <1>2 DEF ReclaimCheck, ReviewInv, Stored
  <2>3. CASE Go(w, Idle)
    BY <2>2, <2>3, OnlyMoves DEF Memory, Idle
  <2>4. ASSUME NEW i \in call[w].items, NEW pc \in {"reclaim", "restore"},
               Go(w, [pc |-> pc, items |-> call[w].items \ {i}, item |-> i])
        PROVE  ReviewInv'
    <3>1. Memory([pc |-> pc, items |-> call[w].items \ {i}, item |-> i], Known, now)
      BY <2>1, <2>4 DEF Memory
    <3>. QED
      BY <2>2, <2>4, <3>1, OnlyMoves
  <2>. QED
    BY <1>2, <2>3, <2>4 DEF ReclaimCheck
<1>3. CASE Restore(w)
  <2>1. call[w].item \in Known /\ call[w].items \subseteq Known
    BY <1>3 DEF Restore, ReviewInv, Remembered, Memory
  <2>2. Known' = Known
    BY <1>3 DEF Restore, Known
  <2>3. Memory([pc |-> "reclaim", items |-> call[w].items], Known', now')
    BY <2>1, <2>2 DEF Memory
  <2>4. Remembered'
    BY <1>3, <2>2, <2>3, OneReplicaMoves DEF Restore
  <2>5. Stored'
    BY <1>3, <2>1, <2>2 DEF Restore, ReviewInv, Stored
  <2>6. Deadlines'
    <3>1. \A j \in Item : lock[j].expires \in Nat
      BY MonitorAssumption DEF ReviewInv, Stored
    <3>2. \A j \in Item : inflight'[j] \in {0, inflight[j]}
      BY <1>3 DEF Restore, ReviewInv, Stored
    <3>. QED
      BY <1>3, <2>2, <3>1, <3>2 DEF Restore, ReviewInv, Deadlines
  <2>7. NeverLost'
    BY <1>3, <2>1 DEF Restore, ReviewInv, Stored, NeverLost
  <2>. QED
    BY <2>4, <2>5, <2>6, <2>7 DEF ReviewInv
<1>. QED
  BY <1>1, <1>2, <1>3

LEMMA CutShortStep ==
  ASSUME ReviewInv, NEW w \in Replica, CutShort(w)
  PROVE  ReviewInv'
<1>1. failures' \in 0..MaxFailures
  BY MonitorAssumption DEF CutShort, ReviewInv, Stored
<1>2. Memory(Idle, Known, now)
  BY DEF Memory, Idle
<1>. QED
  BY <1>1, <1>2, OnlyMoves DEF CutShort

LEMMA StepInv == ReviewInv /\ [Next]_vars => ReviewInv'
<1> SUFFICES ASSUME ReviewInv, [Next]_vars PROVE ReviewInv'
  OBVIOUS
<1>1. CASE UNCHANGED vars
  <2>1. Known' = Known
    BY <1>1 DEF vars, Known
  <2>. QED
    BY <1>1, <2>1
    DEF vars, ReviewInv, Stored, Deadlines, Remembered, NeverLost
<1>2. CASE Tick
  BY <1>2, TickStep
<1>3. ASSUME NEW w \in Replica, NEW i \in Item, EnqueueItem(w, i) PROVE ReviewInv'
  BY <1>3, EnqueueStep
<1>4. ASSUME NEW w \in Replica, NEW r \in Reviewer, BeginAssign(w, r) PROVE ReviewInv'
  BY <1>4, AssignStep
<1>5. ASSUME NEW w \in Replica, BeginRecompute(w) \/ BeginReclaim(w) \/ Proceed(w) \/ CutShort(w)
      PROVE  ReviewInv'
  BY <1>5, ExamineStep, ClaimStep, RecomputeStep, ReclaimStep, CutShortStep DEF Proceed
<1>. QED
  BY <1>1, <1>2, <1>3, <1>4, <1>5 DEF Next

LEMMA Invariance == Spec => []ReviewInv
  BY ReviewInitInv, StepInv, PTL DEF Spec

-----------------------------------------------------------------------------
(* What the runs check, for every value of the constants. *)

\* Every reachable state is well typed; in particular the deadline kept beside
\* an item is never later than the expiry of its lock.
THEOREM TypeCorrect == Spec => []TypeOK
<1>1. ReviewInv => TypeOK
  <2> SUFFICES ASSUME ReviewInv PROVE TypeOK
    OBVIOUS
  <2> USE DEF ReviewInv, Stored, Deadlines, Remembered
  <2>1. record \in [Item -> {NoRecord} \cup SUBSET Reviewer]
    BY RecordsAreRecords
  <2>2. queue \subseteq Item
    BY DEF Known
  <2>3. \A i \in Item : inflight[i] \in 0..lock[i].expires
    BY MonitorAssumption
  <2>4. \A w \in Replica : call[w].pc \in {"idle", "scan", "clear", "recompute", "reclaim", "restore"}
    BY DEF Memory
  <2>. QED
    BY <2>1, <2>2, <2>3, <2>4 DEF TypeOK
<1>. QED
  BY <1>1, Invariance, PTL

\* No item that was ever enqueued falls between the queue and the items in
\* flight, however the replicas interleave and wherever their calls are cut
\* short (reclaim_expired_assignments and the claim script).
THEOREM NothingLost == Spec => []NeverLost
<1>1. ReviewInv => NeverLost
  BY DEF ReviewInv
<1>. QED
  BY <1>1, Invariance, PTL

\* assign_next_item gives no item to a reviewer whom every record of it
\* excludes, though the record it examined may be stale when it claims.
THEOREM ConflictsKept == Spec => KnownConflictsKept
<1>1. ReviewInv /\ [Next]_vars =>
        [\A i \in Item : lock'[i] # lock[i] =>
           \E conflicts \in Submissions[i] : lock'[i].reviewer \notin conflicts]_vars
  <2> SUFFICES ASSUME ReviewInv, Next, NEW i \in Item, lock'[i] # lock[i]
               PROVE  Allowed(i, lock'[i].reviewer)
    BY DEF Allowed
  <2>1. PICK w \in Replica : Claim(w)
    BY DEF Next, Proceed, Tick, EnqueueItem, BeginAssign, BeginRecompute, BeginReclaim,
           Examine, RecomputeItem, ReclaimCheck, Restore, CutShort
  <2>2. i = Head(call[w].candidates) /\ lock'[i].reviewer = call[w].reviewer
    BY <2>1 DEF Claim, ReviewInv, Stored
  <2>3. Allowed(Head(call[w].candidates), call[w].reviewer)
    BY <2>1 DEF Claim, ReviewInv, Remembered, Memory
  <2>. QED
    BY <2>2, <2>3
<1>. QED
  BY <1>1, Invariance, PTL DEF Spec, KnownConflictsKept

-----------------------------------------------------------------------------
(* The queue implements ReviewLease. *)

\* Who reviews each item now: the refinement mapping.
Holder == [i \in Item |-> IF Locked(i) THEN lock[i].reviewer ELSE Nobody]

\* A step that leaves the locks alone can only let leases run out.
LEMMA LocksAlone ==
  ASSUME ReviewInv, now' \in Nat, now <= now', lock' = lock
  PROVE  Lease!RunOut
<1> DEFINE out == {i \in Item : ~(now' < lock[i].expires)}
<1> SUFFICES Holder' = [i \in Item |-> IF i \in out THEN Nobody ELSE Holder[i]]
  BY DEF Lease!RunOut, Holder
<1> SUFFICES ASSUME NEW i \in Item
             PROVE  (IF now' < lock'[i].expires THEN lock'[i].reviewer ELSE Nobody)
                      = IF i \in out THEN Nobody ELSE Holder[i]
  BY DEF Holder, Locked
<1>1. now \in Nat /\ lock[i].expires \in Nat
  BY MonitorAssumption DEF ReviewInv, Stored
<1>. QED
  BY <1>1 DEF Holder, Locked

\* A claim that succeeds grants a lease that nobody held, and no other.
LEMMA ClaimGrants ==
  ASSUME ReviewInv, NEW w \in Replica, Claim(w)
  PROVE  Lease!Next
<1> DEFINE i == Head(call[w].candidates)
           r == call[w].reviewer
<1>1. i \in Item /\ r \in Reviewer
  <2>1. call[w].candidates \in Seq(Known) /\ call[w].candidates # <<>> /\ r \in Reviewer
    BY DEF ReviewInv, Remembered, Memory, Claim
  <2>. QED
    BY <2>1 DEF Known
<1>2. now \in Nat /\ now' = now /\ LockTtl \in Nat \ {0}
  BY MonitorAssumption DEF ReviewInv, Stored, Claim
<1>3. CASE i \in queue /\ ~Locked(i)
  <2>1. lock' = [lock EXCEPT ![i] = [reviewer |-> r, expires |-> now + LockTtl]]
    BY <1>3 DEF Claim
  <2>2. lock = [j \in Item |-> lock[j]]
    BY DEF ReviewInv, Stored
  <2>3. lock'[i].reviewer = r /\ now' < lock'[i].expires
    BY <1>1, <1>2, <2>1, <2>2
  <2>4. \A j \in Item : j # i => lock'[j] = lock[j]
    BY <2>1, <2>2
  <2>5. Holder' = [Holder EXCEPT ![i] = r]
    BY <1>1, <1>2, <2>3, <2>4 DEF Holder, Locked
  <2>6. Holder[i] = Nobody
    BY <1>1, <1>3 DEF Holder
  <2>. QED
    BY <1>1, <2>5, <2>6 DEF Lease!Next, Lease!Grant, Holder
<1>4. CASE ~(i \in queue /\ ~Locked(i))
  BY <1>2, <1>4, LocksAlone DEF Claim, Lease!Next
<1>. QED
  BY <1>3, <1>4

\* Every step of the queue is a step of the lease: only a claim gives an item to
\* anybody, whatever recompute and reclaim have put back into the queue.
THEOREM LeaseImplemented == Spec => ImplementsLease
<1>1. Init => Lease!Init
  BY DEF Init, Lease!Init, Locked
<1>2. ReviewInv /\ [Next]_vars => [Lease!Next]_Holder
  <2> SUFFICES ASSUME ReviewInv, [Next]_vars PROVE Lease!Next
    OBVIOUS
  <2>1. now \in Nat
    BY DEF ReviewInv, Stored
  <2>2. CASE \E w \in Replica : Claim(w)
    BY <2>2, ClaimGrants
  <2>3. CASE ~\E w \in Replica : Claim(w)
    <3>1. now' \in Nat /\ now <= now' /\ lock' = lock
      <4>1. CASE Tick \/ UNCHANGED vars
        BY <2>1, <4>1 DEF Tick, vars
      <4>2. CASE \E w \in Replica, i \in Item : EnqueueItem(w, i)
        BY <2>1, <4>2 DEF EnqueueItem
      <4>3. CASE \E w \in Replica, r \in Reviewer : BeginAssign(w, r)
        BY <2>1, <4>3 DEF BeginAssign
      <4>4. CASE \E w \in Replica : BeginRecompute(w) \/ BeginReclaim(w)
        BY <2>1, <4>4 DEF BeginRecompute, BeginReclaim
      <4>5. CASE \E w \in Replica : CutShort(w)
        BY <2>1, <4>5 DEF CutShort
      <4>6. CASE \E w \in Replica : Proceed(w)
        BY <2>1, <2>3, <4>6
           DEF Proceed, Examine, RecomputeItem, ReclaimCheck, Restore
      <4>. QED
        BY <4>1, <4>2, <4>3, <4>4, <4>5, <4>6 DEF Next
    <3>. QED
      BY <3>1, LocksAlone DEF Lease!Next
  <2>. QED
    BY <2>2, <2>3
<1>. QED
  BY <1>1, <1>2, Invariance, PTL DEF Spec, ImplementsLease, Lease!Spec, Holder

-----------------------------------------------------------------------------
(***************************************************************************)
(* AssetRegistry. RegInv carries two promises. A request that will tell    *)
(* the search or the graph of an asset has a call ahead that must register *)
(* it, and that ends the request if it cannot (Backed); and what a search  *)
(* found is of the searcher, with nothing of theirs left out unless the    *)
(* answer is full (Found). The registry only grows, so the first is kept   *)
(* by every step of every other request.                                   *)
(***************************************************************************)

CallType == [do : {"put", "find", "relate", "gate", "enqueue"}, collection : Collection,
             kind : Kind, lenient : BOOLEAN]

\* Nothing is said of the asset before a call that must register it.
Sure(c) == c.do = "put" /\ ~c.lenient
Backed(calls) ==
  \A i \in DOMAIN calls :
    calls[i].do \in {"relate", "enqueue"} => \E j \in 1..(i - 1) : Sure(calls[j])

\* Calls that say nothing of their subject but to relate it, and leave no trace of it.
Asking(calls) == \A i \in DOMAIN calls : calls[i].do \notin {"put", "enqueue"}

\* The assets that are in the registry, or will be.
Registered == {a \in Asset : InRegistry(a)}

Found(r, registered) ==
  /\ \/ r.found.own \subseteq r.found.hits
     \/ r.found.hits \subseteq r.found.own /\ Cardinality(r.found.hits) = TopK
  /\ \A p \in r.found.hits : p.owner = r.user /\ p.asset \in registered

Request == [calls : Seq(CallType), found : [hits : SUBSET Point, own : SUBSET Point],
            user : User, content : Content, subject : Asset \cup Content]

Sound(r, registered) ==
  /\ r \in Request /\ r.calls # <<>> /\ Found(r, registered)
  /\ \/ r.subject \in Asset /\ (r.subject \in registered \/ Backed(r.calls))
     \/ r.subject \in Content /\ Asking(r.calls)

Resolved ==
  /\ \A j \in jobs : j.asset \in Registered
  /\ \A l \in links : l.to \in Registered /\ (l.from \in Asset => l.from \in Registered)

RegInv ==
  /\ points \in [Collection -> SUBSET Point] /\ unapplied \in [Collection -> Seq(Point)]
  /\ request = NoRequest \/ Sound(request, Registered)
  /\ \A r \in awaiting : Sound(r, Registered) /\ r.subject \in Registered
  /\ Resolved

-----------------------------------------------------------------------------
(* The endpoints. *)

LEMMA CallsAre ==
  /\ \A c \in Collection, k \in Kind : /\ Put(c, k) \in CallType /\ Sure(Put(c, k))
                                       /\ Find(c, k) \in CallType /\ Find(c, k).do = "find"
                                       /\ Try(Put(c, k)) \in CallType /\ Try(Put(c, k)).do = "put"
                                       /\ Try(Find(c, k)) \in CallType /\ Try(Find(c, k)).do = "find"
  /\ Relate \in CallType /\ Relate.do = "relate"
  /\ Gate \in CallType /\ Gate.do = "gate"
  /\ Enqueue \in CallType /\ Enqueue.do = "enqueue"
<1>1. "semantic" \in Collection /\ "semantic" \in Kind
  BY DEF Collection, Kind, Holds
<1> QED
  BY <1>1 DEF CallType, Put, Find, Try, Relate, Gate, Enqueue, Call, Sure

LEMMA Names ==
  /\ {"image", "video", "audio", "semantic"} \subseteq Collection
  /\ {"hash", "frames", "sound", "visual", "semantic"} \subseteq Kind
<1>1. Collection = {"image", "video", "audio", "semantic"}
  BY DEF Collection, Holds
<1>2. /\ Holds["image"] = {"hash"} /\ Holds["video"] = {"frames"} /\ Holds["audio"] = {"sound"}
      /\ Holds["semantic"] = {"visual", "semantic"}
  BY DEF Holds
<1> QED
  BY <1>1, <1>2 DEF Kind

LEMMA WithIs ==
  ASSUME NEW x, NEW calls \in Seq(CallType)
  PROVE  With(x, calls) \in {calls, <<>>}
  BY DEF With

\* Putting lists of calls together.
LEMMA CatBacked ==
  ASSUME NEW s \in Seq(CallType), NEW t \in Seq(CallType), Backed(s), Backed(t)
  PROVE  s \o t \in Seq(CallType) /\ Backed(s \o t)
<1>1. s \o t \in Seq(CallType) /\ Len(s \o t) = Len(s) + Len(t) /\ Len(s) \in Nat /\ Len(t) \in Nat
  OBVIOUS
<1>2. /\ \A i \in 1..Len(s) : (s \o t)[i] = s[i]
      /\ \A i \in 1..Len(t) : (s \o t)[Len(s) + i] = t[i]
  OBVIOUS
<1>3. ASSUME NEW i \in DOMAIN (s \o t), (s \o t)[i].do \in {"relate", "enqueue"}
      PROVE  \E j \in 1..(i - 1) : Sure((s \o t)[j])
  <2>1. CASE i \in 1..Len(s)
    <3>1. PICK j \in 1..(i - 1) : Sure(s[j])
      BY <1>2, <1>3, <2>1 DEF Backed
    <3> QED BY <1>1, <1>2, <2>1, <3>1
  <2>2. CASE i \notin 1..Len(s)
    <3>1. i - Len(s) \in 1..Len(t) /\ i = Len(s) + (i - Len(s))
      BY <1>1, <2>2
    <3>2. PICK j \in 1..(i - Len(s) - 1) : Sure(t[j])
      BY <1>2, <1>3, <3>1 DEF Backed
    <3>3. Len(s) + j \in 1..(i - 1) /\ j \in 1..Len(t)
      BY <1>1, <3>1, <3>2
    <3> QED BY <1>2, <3>2, <3>3
  <2> QED BY <2>1, <2>2
<1> QED
  BY <1>1, <1>3 DEF Backed

LEMMA CatAsking ==
  ASSUME NEW s \in Seq(CallType), NEW t \in Seq(CallType), Asking(s), Asking(t)
  PROVE  s \o t \in Seq(CallType) /\ Asking(s \o t)
  BY DEF Asking

LEMMA EmptyIs == <<>> \in Seq(CallType) /\ Backed(<<>>) /\ Asking(<<>>)
  BY DEF Backed, Asking

\* It is enough that one call registers before anything is said.
LEMMA SureFrom ==
  ASSUME NEW calls \in Seq(CallType), NEW k \in DOMAIN calls, Sure(calls[k]),
         \A i \in 1..k : calls[i].do \notin {"relate", "enqueue"}
  PROVE  Backed(calls)
<1> SUFFICES ASSUME NEW i \in DOMAIN calls, calls[i].do \in {"relate", "enqueue"}
             PROVE  \E j \in 1..(i - 1) : Sure(calls[j])
  BY DEF Backed
<1>1. k \in 1..(i - 1)
  OBVIOUS
<1> QED BY <1>1

LEMMA Registering ==
  ASSUME NEW e \in DOMAIN Calls \ Asks
  PROVE  Calls[e] \in Seq(CallType) /\ Backed(Calls[e])
<1> DEFINE Registers(cs) == cs \in Seq(CallType) /\ Backed(cs)
<1>1. Registers(FingerprintImage)
  <2>1. Registers(<<Put("image", "hash")>>) /\ Registers(<<Try(Put("semantic", "visual"))>>)
        /\ Registers(<<Put("semantic", "semantic")>>)
    BY CallsAre, Names DEF Backed, Sure
  <2>2. Registers(With("visual", <<Try(Put("semantic", "visual"))>>))
        /\ Registers(With("semantic", <<Put("semantic", "semantic")>>))
    BY <2>1, WithIs, EmptyIs
  <2> HIDE DEF Registers
  <2>3. \A s, t : Registers(s) /\ Registers(t) => Registers(s \o t)
    BY CatBacked DEF Registers
  <2> QED BY <2>1, <2>2, <2>3 DEF FingerprintImage
<1>2. Registers(FingerprintSemanticImage)
  <2>1. Registers(<<Put("semantic", "semantic")>>)
    BY CallsAre, Names DEF Backed, Sure
  <2> QED BY <2>1, WithIs, EmptyIs DEF FingerprintSemanticImage
<1>3. Registers(FingerprintVideo) /\ Registers(FingerprintAudio)
  BY CallsAre, Names DEF Backed, Sure, FingerprintVideo, FingerprintAudio
<1>4. Registers(OnboardImage)
  <2>1. Registers(<<Find("semantic", "visual"), Put("semantic", "visual")>>)
    <3> DEFINE cs == <<Find("semantic", "visual"), Put("semantic", "visual")>>
    <3>1. cs \in Seq(CallType) /\ 2 \in DOMAIN cs /\ Sure(cs[2]) /\ cs[1].do = "find" /\ cs[2].do = "put"
      BY CallsAre, Names DEF Sure
    <3> HIDE DEF cs
    <3>2. \A i \in 1..2 : cs[i].do \notin {"relate", "enqueue"}
      BY <3>1
    <3>3. Registers(cs)
      BY <3>1, <3>2, SureFrom
    <3> QED BY <3>3 DEF cs
  <2>2. Registers(<<Put("image", "hash"), Relate, Enqueue>>)
    <3> DEFINE cs == <<Put("image", "hash"), Relate, Enqueue>>
    <3>1. cs \in Seq(CallType) /\ 1 \in DOMAIN cs /\ Sure(cs[1]) /\ cs[1].do = "put"
      BY CallsAre, Names DEF Sure
    <3> HIDE DEF cs
    <3>2. \A i \in 1..1 : cs[i].do \notin {"relate", "enqueue"}
      BY <3>1
    <3>3. Registers(cs)
      BY <3>1, <3>2, SureFrom
    <3> QED BY <3>3 DEF cs
  <2>3. Registers(With("visual", <<Find("semantic", "visual"), Put("semantic", "visual")>>))
    BY <2>1, WithIs, EmptyIs
  <2> QED BY <2>2, <2>3, CatBacked DEF OnboardImage
<1>5. Registers(OnboardAudio) /\ Registers(OnboardVideo)
  <2> DEFINE Onboard(c, k) == <<Find(c, k), Put(c, k), Relate, Enqueue>>
  <2>1. ASSUME NEW c \in Collection, NEW k \in Kind PROVE Registers(Onboard(c, k))
    <3> DEFINE cs == Onboard(c, k)
    <3>1. cs \in Seq(CallType) /\ 2 \in DOMAIN cs /\ Sure(cs[2]) /\ cs[1].do = "find" /\ cs[2].do = "put"
      BY CallsAre DEF Sure
    <3> HIDE DEF cs
    <3>2. \A i \in 1..2 : cs[i].do \notin {"relate", "enqueue"}
      BY <3>1
    <3>3. Registers(cs)
      BY <3>1, <3>2, SureFrom
    <3> QED BY <3>3 DEF cs
  <2> QED BY <2>1, Names DEF OnboardAudio, OnboardVideo
<1>6. DOMAIN Calls \ Asks = {"fingerprint_image", "fingerprint_semantic", "fingerprint_video",
                              "fingerprint_audio", "onboard_image", "onboard_audio", "onboard_video"}
  BY DEF Calls, Asks
<1> HIDE DEF Registers
<1>7. Registers(Calls[e])
  BY <1>1, <1>2, <1>3, <1>4, <1>5, <1>6 DEF Calls
<1> QED BY <1>7 DEF Registers

LEMMA Matching ==
  ASSUME NEW e \in Asks
  PROVE  Calls[e] \in Seq(CallType) /\ Asking(Calls[e])
<1> DEFINE AsksOnly(cs) == cs \in Seq(CallType) /\ Asking(cs)
<1>1. AsksOnly(MatchImage)
  <2>1. AsksOnly(<<Find("image", "hash")>>) /\ AsksOnly(<<Try(Find("semantic", "semantic")), Relate>>)
    BY CallsAre, Names DEF Asking
  <2>2. AsksOnly(With("semantic", <<Try(Find("semantic", "semantic")), Relate>>))
    BY <2>1, WithIs, EmptyIs
  <2> QED BY <2>1, <2>2, CatAsking DEF MatchImage
<1>2. AsksOnly(MatchVideo) /\ AsksOnly(MatchAudio) /\ AsksOnly(SlowGate)
  BY CallsAre, Names DEF Asking, MatchVideo, MatchAudio, SlowGate
<1>3. AsksOnly(VisualFeatures)
  <2>1. AsksOnly(<<Find("semantic", "visual")>>)
    BY CallsAre, Names DEF Asking
  <2> QED BY <2>1, WithIs, EmptyIs DEF VisualFeatures
<1> HIDE DEF AsksOnly
<1>4. AsksOnly(Calls[e])
  BY <1>1, <1>2, <1>3 DEF Calls, Asks
<1> QED BY <1>4 DEF AsksOnly

-----------------------------------------------------------------------------
(* One call after another. *)

LEMMA Shorter ==
  ASSUME NEW calls \in Seq(CallType), calls # <<>>
  PROVE  /\ Head(calls) \in CallType /\ Head(calls) = calls[1] /\ 1 \in DOMAIN calls
         /\ Tail(calls) \in Seq(CallType)
         /\ Backed(calls) => Sure(Head(calls)) \/ Backed(Tail(calls))
         /\ Asking(calls) => Asking(Tail(calls))
<1>1. /\ Len(calls) \in Nat /\ Len(calls) >= 1
      /\ Len(Tail(calls)) = Len(calls) - 1
      /\ \A i \in 1..Len(Tail(calls)) : Tail(calls)[i] = calls[i + 1]
  OBVIOUS
<1>2. ASSUME Backed(calls), ~ Sure(calls[1])  PROVE Backed(Tail(calls))
  <2> SUFFICES ASSUME NEW i \in DOMAIN Tail(calls), Tail(calls)[i].do \in {"relate", "enqueue"}
               PROVE  \E j \in 1..(i - 1) : Sure(Tail(calls)[j])
    BY DEF Backed
  <2>1. i \in 1..Len(Tail(calls)) /\ i + 1 \in DOMAIN calls /\ Tail(calls)[i] = calls[i + 1]
    BY <1>1
  <2>2. PICK j \in 1..i : Sure(calls[j])
    BY <1>2, <2>1 DEF Backed
  <2>3. j # 1
    BY <1>2, <2>2
  <2>4. j - 1 \in 1..(i - 1) /\ j - 1 \in 1..Len(Tail(calls))
    BY <2>1, <2>2, <2>3
  <2>5. Tail(calls)[j - 1] = calls[j]
    BY <1>1, <2>4
  <2> QED BY <2>2, <2>4, <2>5
<1>3. ASSUME Asking(calls) PROVE Asking(Tail(calls))
  BY <1>1, <1>3 DEF Asking
<1> QED BY <1>2, <1>3

\* What a request stands on is still there when the registry has grown.
LEMMA StaysSound ==
  ASSUME NEW r, NEW before, NEW after, before \subseteq after, Sound(r, before)
  PROVE  Sound(r, after)
  BY DEF Sound, Found

LEMMA GoesOn ==
  ASSUME NEW r, NEW before, NEW after, before \subseteq after, Sound(r, before),
         NEW found \in [hits : SUBSET Point, own : SUBSET Point],
         Found([r EXCEPT !.found = found], after),
         Tail(r.calls) # <<>>,
         Sure(Head(r.calls)) => r.subject \in after
  PROVE  Sound([r EXCEPT !.calls = Tail(r.calls), !.found = found], after)
<1> DEFINE q == [r EXCEPT !.calls = Tail(r.calls), !.found = found]
<1>1. r \in Request /\ r.calls \in Seq(CallType) /\ r.calls # <<>>
  BY DEF Sound, Request
<1>2. /\ q \in Request /\ q.calls = Tail(r.calls) /\ q.found = found /\ q.user = r.user /\ q.subject = r.subject
  BY <1>1, Shorter DEF Request
<1>3. [r EXCEPT !.found = found].found = found /\ [r EXCEPT !.found = found].user = r.user
  BY <1>1 DEF Request
<1> HIDE DEF q
<1>4. Found(q, after)
  BY <1>2, <1>3 DEF Found
<1>5. \/ q.subject \in Asset /\ (q.subject \in after \/ Backed(q.calls))
      \/ q.subject \in Content /\ Asking(q.calls)
  BY <1>1, <1>2, Shorter DEF Sound
<1>6. Sound(q, after)
  BY <1>2, <1>4, <1>5 DEF Sound
<1> QED BY <1>6 DEF q

LEMMA NothingFound ==
  ASSUME NEW r \in Request, NEW registered
  PROVE  /\ Nothing \in [hits : SUBSET Point, own : SUBSET Point]
         /\ Found([r EXCEPT !.found = Nothing], registered)
  BY DEF Nothing, Found, Request

\* A call has been made: the request in hand is at the next one, or done with.
LEMMA Continues ==
  ASSUME RegInv, request # NoRequest, Registered \subseteq Registered',
         NEW rest, rest = Tail(request.calls) \/ rest = <<>>,
         NEW found \in [hits : SUBSET Point, own : SUBSET Point],
         Found([request EXCEPT !.found = found], Registered'),
         rest # <<>> /\ Sure(Head(request.calls)) => request.subject \in Registered',
         Going(rest, found)
  PROVE  request' = NoRequest \/ Sound(request', Registered')
<1>1. Sound(request, Registered)
  BY DEF RegInv
<1>2. CASE rest = <<>>
  BY <1>2 DEF Going
<1>3. CASE rest # <<>>
  <2>1. request' = [request EXCEPT !.calls = Tail(request.calls), !.found = found]
    BY <1>3 DEF Going
  <2>2. Sound([request EXCEPT !.calls = Tail(request.calls), !.found = found], Registered')
    BY <1>1, <1>3, GoesOn
  <2> QED BY <2>1, <2>2
<1> QED BY <1>2, <1>3

-----------------------------------------------------------------------------
(* The registry only grows: a newer point of the same asset replaces the older. *)

LEMMA Grows ==
  ASSUME \A a \in Asset : InRegistry(a) => InRegistry(a)'
  PROVE  Registered \subseteq Registered'
  BY DEF Registered

LEMMA SameRegistry ==
  ASSUME UNCHANGED <<points, unapplied>>
  PROVE  Registered' = Registered
  BY DEF Registered, InRegistry

LEMMA TakenGrows ==
  ASSUME RegInv, NEW c \in Collection, NEW p \in Point, UNCHANGED points,
         unapplied' = [unapplied EXCEPT ![c] = Append(@, p)]
  PROVE  /\ unapplied' \in [Collection -> Seq(Point)]
         /\ Registered \subseteq Registered' /\ p.asset \in Registered'
<1>1. unapplied \in [Collection -> Seq(Point)] /\ unapplied[c] \in Seq(Point)
  BY DEF RegInv
<1>2. /\ unapplied'[c] = Append(unapplied[c], p)
      /\ \A d \in Collection \ {c} : unapplied'[d] = unapplied[d]
  BY <1>1
<1>3. /\ Append(unapplied[c], p) \in Seq(Point)
      /\ Len(unapplied[c]) + 1 \in DOMAIN Append(unapplied[c], p)
      /\ Append(unapplied[c], p)[Len(unapplied[c]) + 1] = p
      /\ \A i \in DOMAIN unapplied[c] : /\ i \in DOMAIN Append(unapplied[c], p)
                                        /\ Append(unapplied[c], p)[i] = unapplied[c][i]
  BY <1>1
<1>4. unapplied' \in [Collection -> Seq(Point)]
  BY <1>1, <1>3
<1>5. \A d \in Collection : \A i \in DOMAIN unapplied[d] :
        i \in DOMAIN unapplied'[d] /\ unapplied'[d][i] = unapplied[d][i]
  BY <1>2, <1>3
<1>6. \A a \in Asset : InRegistry(a) => InRegistry(a)'
  BY <1>5 DEF InRegistry
<1>7. p.asset \in Asset /\ InRegistry(p.asset)'
  <2>1. p.asset \in Asset
    BY DEF Point
  <2>2. \E i \in DOMAIN unapplied'[c] : unapplied'[c][i].asset = p.asset
    BY <1>2, <1>3
  <2> QED BY <2>1, <2>2 DEF InRegistry
<1>8. p.asset \in Registered'
  BY <1>7 DEF Registered
<1> QED BY <1>4, <1>6, <1>8, Grows

LEMMA ApplyGrows ==
  ASSUME RegInv, NEW c \in Collection, Apply(c)
  PROVE  /\ points' \in [Collection -> SUBSET Point] /\ unapplied' \in [Collection -> Seq(Point)]
         /\ Registered \subseteq Registered'
<1> DEFINE new == Head(unapplied[c])
<1>1. /\ points \in [Collection -> SUBSET Point] /\ points[c] \subseteq Point
      /\ unapplied \in [Collection -> Seq(Point)] /\ unapplied[c] \in Seq(Point) /\ unapplied[c] # <<>>
  BY DEF RegInv, Apply
<1>2. new \in Point /\ Tail(unapplied[c]) \in Seq(Point)
  BY <1>1
<1>3. \A i \in DOMAIN unapplied[c] :
        \/ unapplied[c][i] = new
        \/ i - 1 \in DOMAIN Tail(unapplied[c]) /\ Tail(unapplied[c])[i - 1] = unapplied[c][i]
  <2> TAKE i \in DOMAIN unapplied[c]
  <2>1. CASE i = 1
    BY <1>1, <2>1
  <2>2. CASE i # 1
    BY <1>1, <2>2
  <2> QED BY <2>1, <2>2
<1>4. /\ points' = [points EXCEPT ![c] = {p \in points[c] : p.asset # new.asset} \cup {new}]
      /\ unapplied' = [unapplied EXCEPT ![c] = Tail(unapplied[c])]
  BY DEF Apply
<1> HIDE DEF new
<1>5. points' \in [Collection -> SUBSET Point] /\ unapplied' \in [Collection -> Seq(Point)]
  BY <1>1, <1>2, <1>4
<1>6. /\ points'[c] = {p \in points[c] : p.asset # new.asset} \cup {new}
      /\ unapplied'[c] = Tail(unapplied[c])
      /\ \A d \in Collection \ {c} : points'[d] = points[d] /\ unapplied'[d] = unapplied[d]
  BY <1>1, <1>4
<1>7. ASSUME NEW a \in Asset, InRegistry(a) PROVE InRegistry(a)'
  <2>1. PICK d \in Collection : \/ \E p \in points[d] : p.asset = a
                                \/ \E i \in DOMAIN unapplied[d] : unapplied[d][i].asset = a
    BY <1>7 DEF InRegistry
  <2>2. CASE d # c
    BY <1>6, <2>1, <2>2 DEF InRegistry
  <2>3. CASE d = c
    <3>1. CASE a = new.asset
      <4>1. new \in points'[c]
        BY <1>6
      <4> QED BY <3>1, <4>1 DEF InRegistry
    <3>2. ASSUME a # new.asset, NEW p \in points[c], p.asset = a PROVE InRegistry(a)'
      <4>1. p \in points'[c]
        BY <1>6, <3>2
      <4> QED BY <3>2, <4>1 DEF InRegistry
    <3>3. ASSUME a # new.asset, NEW i \in DOMAIN unapplied[c], unapplied[c][i].asset = a PROVE InRegistry(a)'
      <4>1. i - 1 \in DOMAIN unapplied'[c] /\ unapplied'[c][i - 1].asset = a
        BY <1>3, <1>6, <3>3
      <4> QED BY <4>1 DEF InRegistry
    <3> QED BY <2>1, <2>3, <3>1, <3>2, <3>3
  <2> QED BY <2>2, <2>3
<1> QED BY <1>5, <1>7, Grows

LEMMA StaysResolved ==
  ASSUME Resolved, Registered \subseteq Registered', UNCHANGED <<links, jobs>>
  PROVE  Resolved'
  BY DEF Resolved

LEMMA StillAwaiting ==
  ASSUME RegInv, Registered \subseteq Registered', awaiting' \subseteq awaiting
  PROVE  \A r \in awaiting' : Sound(r, Registered') /\ r.subject \in Registered'
  BY StaysSound DEF RegInv

-----------------------------------------------------------------------------
(* The steps. *)

LEMMA InHand ==
  ASSUME RegInv, request # NoRequest
  PROVE  /\ Sound(request, Registered) /\ request \in Request
         /\ request.calls \in Seq(CallType) /\ request.calls # <<>>
         /\ Now \in CallType /\ Now = request.calls[1] /\ 1 \in DOMAIN request.calls
         /\ Tail(request.calls) \in Seq(CallType)
         /\ [request EXCEPT !.found = request.found] = request
         /\ request.found \in [hits : SUBSET Point, own : SUBSET Point]
<1>1. Sound(request, Registered) /\ request \in Request
  BY DEF RegInv, Sound
<1>2. request.calls \in Seq(CallType) /\ request.calls # <<>>
  BY <1>1 DEF Sound, Request
<1>3. [request EXCEPT !.found = request.found] = request
      /\ request.found \in [hits : SUBSET Point, own : SUBSET Point]
  BY <1>1 DEF Request
<1> QED BY <1>1, <1>2, <1>3, Shorter DEF Now

\* The call raised, or was answered, and the registry is as it was.
LEMMA CallMade ==
  ASSUME RegInv, request # NoRequest, ~ Sure(Now), Registered' = Registered, UNCHANGED <<points, unapplied>>,
         UNCHANGED <<links, jobs, awaiting>>,
         \/ Raised
         \/ \E found \in [hits : SUBSET Point, own : SUBSET Point] :
              Found([request EXCEPT !.found = found], Registered) /\ Done(found)
  PROVE  RegInv'
<1>1. request' = NoRequest \/ Sound(request', Registered')
  <2>1. CASE Raised
    <3>1. PICK rest : rest \in {Tail(request.calls), <<>>} /\ Going(rest, Nothing)
      BY <2>1 DEF Raised
    <3> QED BY <3>1, InHand, NothingFound, Continues DEF Now
  <2>2. ASSUME NEW found \in [hits : SUBSET Point, own : SUBSET Point],
               Found([request EXCEPT !.found = found], Registered), Done(found)
        PROVE  request' = NoRequest \/ Sound(request', Registered')
    <3>1. Going(Tail(request.calls), found)
      BY <2>2 DEF Done
    <3> QED BY <2>2, <3>1, Continues DEF Now
  <2> QED BY <2>1, <2>2
<1>2. Resolved'
  BY StaysResolved DEF RegInv
<1>3. \A r \in awaiting' : Sound(r, Registered') /\ r.subject \in Registered'
  BY StillAwaiting
<1> QED BY <1>1, <1>2, <1>3 DEF RegInv

\* The nearest of a user's points hold every one of the same content, or no other.
LEMMA LookupFinds ==
  ASSUME RegInv, request # NoRequest, NEW found \in Lookup(Now.collection, Now.kind)
  PROVE  /\ found \in [hits : SUBSET Point, own : SUBSET Point]
         /\ Found([request EXCEPT !.found = found], Registered)
<1> DEFINE owned == Owned(Now.collection)
           copies == {p \in owned : Same(p, Now.kind)}
<1>1. PICK hits \in Nearest(owned, Now.kind) : found = [hits |-> hits, own |-> copies]
  BY DEF Lookup, Matches
<1>2. /\ hits \subseteq owned
      /\ \A p \in owned \ hits :
           Cardinality(hits) = TopK /\ \A q \in hits : Same(p, Now.kind) => Same(q, Now.kind)
  BY <1>1 DEF Nearest
<1>3. Now.collection \in Collection /\ points[Now.collection] \subseteq Point
  BY InHand DEF RegInv, CallType
<1>4. /\ owned \subseteq Point
      /\ \A p \in owned : p.owner = request.user /\ p.asset \in Registered
  <2>1. ASSUME NEW p \in owned PROVE p \in Point /\ p.owner = request.user /\ p.asset \in Registered
    <3>1. p \in points[Now.collection] /\ p.owner = request.user /\ p \in Point
      BY <1>3 DEF Owned
    <3>2. p.asset \in Asset /\ InRegistry(p.asset)
      BY <1>3, <3>1 DEF Point, InRegistry
    <3> QED BY <3>1, <3>2 DEF Registered
  <2> QED BY <2>1
<1>5. copies \subseteq hits \/ (hits \subseteq copies /\ Cardinality(hits) = TopK)
  BY <1>2
<1> HIDE DEF owned, copies
<1>6. copies \subseteq Point
  BY <1>4 DEF copies
<1>7. found \in [hits : SUBSET Point, own : SUBSET Point] /\ found.hits = hits /\ found.own = copies
  BY <1>1, <1>2, <1>4, <1>6
<1>8. request \in Request
  BY InHand
<1>9. [request EXCEPT !.found = found].found = found /\ [request EXCEPT !.found = found].user = request.user
  BY <1>8 DEF Request
<1> QED BY <1>2, <1>4, <1>5, <1>7, <1>9 DEF Found

LEMMA RequestFound ==
  ASSUME RegInv, request # NoRequest
  PROVE  /\ request.found \in [hits : SUBSET Point, own : SUBSET Point]
         /\ Found([request EXCEPT !.found = request.found], Registered)
  BY InHand DEF Sound

LEMMA ArriveInv ==
  ASSUME RegInv, NEW e \in Endpoint, NEW a \in Asset, NEW u \in User, NEW c \in Content, Arrive(e, a, u, c)
  PROVE  RegInv'
<1>1. UNCHANGED <<points, unapplied>> /\ Registered' = Registered
  BY SameRegistry DEF Arrive
<1>2. Calls[e] \in Seq(CallType) /\ Calls[e] # <<>>
      /\ IF e \in Asks THEN Asking(Calls[e]) ELSE Backed(Calls[e])
  BY Registering, Matching, AssetAssumption DEF Arrive
<1>3. request' \in Request /\ request'.calls = Calls[e] /\ request'.found = Nothing
      /\ request'.subject = (IF e \in Asks THEN c ELSE a)
  BY <1>2 DEF Arrive, Request, Nothing
<1>4. Sound(request', Registered')
  BY <1>2, <1>3 DEF Sound, Found, Nothing
<1>5. Resolved'
  BY <1>1, StaysResolved DEF RegInv, Arrive
<1>6. \A r \in awaiting' : Sound(r, Registered') /\ r.subject \in Registered'
  BY <1>1, StillAwaiting DEF Arrive
<1> QED BY <1>1, <1>4, <1>5, <1>6 DEF RegInv

LEMMA AssetRegisterInv ==
  ASSUME RegInv, Register
  PROVE  RegInv'
<1>0. request # NoRequest /\ Now.do = "put" /\ UNCHANGED <<points, links, jobs, awaiting>>
  BY DEF Register, Doing, Now
<1>1. Sound(request, Registered) /\ request \in Request /\ Now \in CallType
      /\ Now = request.calls[1] /\ 1 \in DOMAIN request.calls
  BY <1>0, InHand
<1>2. request.subject \in Asset
  BY <1>0, <1>1 DEF Sound, Asking
<1>3. NewPoint \in Point /\ NewPoint.asset = request.subject /\ Now.collection \in Collection
  BY <1>1, <1>2 DEF NewPoint, Point, Request, CallType
<1>4. Taken => /\ unapplied' \in [Collection -> Seq(Point)]
               /\ Registered \subseteq Registered' /\ request.subject \in Registered'
  BY <1>0, <1>3, TakenGrows DEF Taken
<1>5. /\ unapplied' \in [Collection -> Seq(Point)] /\ Registered \subseteq Registered'
  <2>1. CASE UNCHANGED unapplied
    BY <1>0, <2>1, SameRegistry DEF RegInv
  <2> QED BY <1>4, <2>1 DEF Register
<1>6. request' = NoRequest \/ Sound(request', Registered')
  <2>1. ASSUME Taken, Done(request.found)
        PROVE  request' = NoRequest \/ Sound(request', Registered')
    <3>1. Found([request EXCEPT !.found = request.found], Registered')
      BY <1>0, <1>5, RequestFound DEF Found
    <3>2. Going(Tail(request.calls), request.found)
      BY <2>1 DEF Done
    <3> QED BY <1>0, <1>4, <1>5, <2>1, <3>1, <3>2, InHand, Continues
  <2>2. CASE Raised
    <3>1. PICK rest : /\ rest \in {Tail(request.calls), <<>>} /\ Going(rest, Nothing)
                      /\ rest # <<>> => Now.lenient
      BY <2>2 DEF Raised
    <3>2. rest # <<>> => ~ Sure(Head(request.calls))
      BY <3>1 DEF Now, Sure
    <3> QED BY <1>0, <1>1, <1>5, <3>1, <3>2, NothingFound, Continues
  <2> QED BY <2>1, <2>2 DEF Register
<1>7. Resolved'
  BY <1>0, <1>5, StaysResolved DEF RegInv
<1>8. \A r \in awaiting' : Sound(r, Registered') /\ r.subject \in Registered'
  BY <1>0, <1>5, StillAwaiting
<1> QED BY <1>0, <1>5, <1>6, <1>7, <1>8 DEF RegInv

LEMMA AssetMatchInv ==
  ASSUME RegInv, Match \/ SecondStage
  PROVE  RegInv'
<1>1. request # NoRequest /\ Now.do # "put" /\ UNCHANGED <<points, unapplied, links, jobs, awaiting>>
  BY DEF Match, SecondStage, Doing, Now
<1>2. ~ Sure(Now) /\ Registered' = Registered
  BY <1>1, SameRegistry DEF Sure
<1>3. \/ Raised
      \/ \E found \in Lookup(Now.collection, Now.kind) : Done(found)
      \/ Done(request.found)
  BY DEF Match, SecondStage
<1>4. \/ Raised
      \/ \E found \in [hits : SUBSET Point, own : SUBSET Point] :
           Found([request EXCEPT !.found = found], Registered) /\ Done(found)
  BY <1>1, <1>3, LookupFinds, RequestFound
<1> QED BY <1>1, <1>2, <1>4, CallMade

LEMMA UpsertContextInv ==
  ASSUME RegInv, UpsertContext
  PROVE  RegInv'
<1>1. request # NoRequest /\ Now.do = "relate" /\ UNCHANGED <<points, unapplied, jobs, awaiting>>
  BY DEF UpsertContext, Doing, Now
<1>2. ~ Sure(Now) /\ Registered' = Registered
  BY <1>1, SameRegistry DEF Sure
<1>3. Sound(request, Registered) /\ Now = request.calls[1] /\ 1 \in DOMAIN request.calls /\ request \in Request
  BY <1>1, InHand
<1>4. request.subject \in Asset => request.subject \in Registered
  <2>1. ~ Backed(request.calls)
    BY <1>1, <1>3 DEF Backed
  <2> QED BY <1>3, <2>1, AssetAssumption DEF Sound
<1>5. \A p \in request.found.hits : p.asset \in Registered
  BY <1>3 DEF Sound, Found
<1>6. \A l \in links' : l.to \in Registered /\ (l.from \in Asset => l.from \in Registered)
  <2> DEFINE new == {[from |-> request.subject, to |-> p.asset] : p \in request.found.hits}
  <2>1. \A l \in new : l.to \in Registered /\ (l.from \in Asset => l.from \in Registered)
    BY <1>4, <1>5
  <2>2. links' \subseteq links \cup new
    BY DEF UpsertContext
  <2> HIDE DEF new
  <2> QED BY <2>1, <2>2 DEF RegInv, Resolved
<1>7. Raised \/ Done(request.found)
  BY DEF UpsertContext
<1>8. request' = NoRequest \/ Sound(request', Registered')
  <2>1. CASE Raised
    <3>1. PICK rest : rest \in {Tail(request.calls), <<>>} /\ Going(rest, Nothing)
      BY <2>1 DEF Raised
    <3> QED BY <1>1, <1>2, <1>3, <3>1, NothingFound, Continues DEF Now
  <2>2. CASE Done(request.found)
    <3>1. Going(Tail(request.calls), request.found)
      BY <2>2 DEF Done
    <3> QED BY <1>1, <1>2, <3>1, RequestFound, Continues DEF Now
  <2> QED BY <1>7, <2>1, <2>2
<1>9. Resolved'
  BY <1>1, <1>2, <1>6 DEF RegInv, Resolved
<1>10. \A r \in awaiting' : Sound(r, Registered') /\ r.subject \in Registered'
  BY <1>1, <1>2, StillAwaiting
<1> QED BY <1>1, <1>8, <1>9, <1>10 DEF RegInv

LEMMA AwaitInv ==
  ASSUME RegInv, Await
  PROVE  RegInv'
<1>1. /\ request # NoRequest /\ Now.do = "enqueue" /\ UNCHANGED <<points, unapplied, links, jobs>>
      /\ awaiting' = awaiting \cup {request} /\ request' = NoRequest
  BY DEF Await, Doing, Now
<1>2. Registered' = Registered
  BY <1>1, SameRegistry
<1>3. Sound(request, Registered) /\ Now = request.calls[1] /\ 1 \in DOMAIN request.calls
  BY <1>1, InHand
<1>4. request.subject \in Registered
  <2>1. ~ Backed(request.calls) /\ ~ Asking(request.calls)
    BY <1>1, <1>3 DEF Backed, Asking
  <2> QED BY <1>3, <2>1 DEF Sound
<1>5. Resolved'
  BY <1>1, <1>2, StaysResolved DEF RegInv
<1> QED BY <1>1, <1>2, <1>3, <1>4, <1>5 DEF RegInv

LEMMA EnqueueJobInv ==
  ASSUME RegInv, NEW r \in awaiting, EnqueueJob(r)
  PROVE  RegInv'
<1>1. UNCHANGED <<points, unapplied, links>> /\ awaiting' \subseteq awaiting /\ Registered' = Registered
  BY SameRegistry DEF EnqueueJob
<1>2. Sound(r, Registered) /\ r.subject \in Registered
  BY DEF RegInv
<1>3. Resolved'
  <2>1. \A j \in jobs' : j \in jobs \/ j = [asset |-> r.subject, user |-> r.user]
    BY DEF EnqueueJob
  <2> QED BY <1>1, <1>2, <2>1 DEF RegInv, Resolved
<1>4. request' = NoRequest \/ Sound(request', Registered')
  <2> SUFFICES ASSUME request' # NoRequest PROVE Sound(request', Registered')
    OBVIOUS
  <2>1. Tail(r.calls) # <<>> /\ request' = [r EXCEPT !.calls = Tail(r.calls)]
    BY DEF EnqueueJob
  <2>2. r \in Request /\ r.found \in [hits : SUBSET Point, own : SUBSET Point]
        /\ [r EXCEPT !.found = r.found] = r
        /\ [r EXCEPT !.calls = Tail(r.calls), !.found = r.found] = [r EXCEPT !.calls = Tail(r.calls)]
    BY <1>2 DEF Sound, Request
  <2>3. Found([r EXCEPT !.found = r.found], Registered)
    BY <1>2, <2>2 DEF Sound
  <2>4. Sound([r EXCEPT !.calls = Tail(r.calls), !.found = r.found], Registered)
    BY <1>2, <2>1, <2>2, <2>3, GoesOn
  <2> QED BY <1>1, <2>1, <2>2, <2>4
<1>5. \A q \in awaiting' : Sound(q, Registered') /\ q.subject \in Registered'
  BY <1>1, StillAwaiting
<1> QED BY <1>1, <1>3, <1>4, <1>5 DEF RegInv

LEMMA RestartInv ==
  ASSUME RegInv, Restart
  PROVE  RegInv'
<1>1. /\ UNCHANGED <<points, unapplied, links, jobs>> /\ request' = NoRequest /\ awaiting' = {}
      /\ Registered' = Registered
  BY SameRegistry DEF Restart
<1> QED BY <1>1, StaysResolved DEF RegInv

LEMMA ApplyInv ==
  ASSUME RegInv, NEW c \in Collection, Apply(c)
  PROVE  RegInv'
<1>1. /\ points' \in [Collection -> SUBSET Point] /\ unapplied' \in [Collection -> Seq(Point)]
      /\ Registered \subseteq Registered'
  BY ApplyGrows
<1>2. UNCHANGED <<links, jobs, request, awaiting>>
  BY DEF Apply
<1>3. request' = NoRequest \/ Sound(request', Registered')
  BY <1>1, <1>2, StaysSound DEF RegInv
<1>4. Resolved'
  BY <1>1, <1>2, StaysResolved DEF RegInv
<1>5. \A r \in awaiting' : Sound(r, Registered') /\ r.subject \in Registered'
  BY <1>1, <1>2, StillAwaiting
<1> QED BY <1>1, <1>3, <1>4, <1>5 DEF RegInv

LEMMA RegistrySound == AssetSpec => []RegInv
<1>1. AssetInit => RegInv
  <2> SUFFICES ASSUME AssetInit PROVE RegInv
    OBVIOUS
  <2>1. points \in [Collection -> SUBSET Point] /\ unapplied \in [Collection -> Seq(Point)]
    BY DEF AssetInit
  <2> QED BY <2>1 DEF AssetInit, RegInv, Resolved
<1>2. RegInv /\ [AssetNext]_assetVars => RegInv'
  <2> SUFFICES ASSUME RegInv, [AssetNext]_assetVars PROVE RegInv'
    OBVIOUS
  <2>1. CASE UNCHANGED assetVars
    <3>1. UNCHANGED <<points, unapplied, links, jobs, request, awaiting>> /\ Registered' = Registered
      BY <2>1, SameRegistry DEF assetVars
    <3> QED BY <3>1, StaysResolved DEF RegInv
  <2>2. CASE AssetNext
    BY <2>2, ArriveInv, AssetRegisterInv, AssetMatchInv, UpsertContextInv, AwaitInv, EnqueueJobInv, RestartInv,
       ApplyInv DEF AssetNext
  <2> QED BY <2>1, <2>2
<1> QED BY <1>1, <1>2, PTL DEF AssetSpec

\* A search finds the caller's own copy whatever others have registered: the owner
\* is part of the query, so nothing of theirs takes a place among the nearest.
THEOREM OwnCopyIsFound == AssetSpec => []OwnCopyFound
<1>1. RegInv => OwnCopyFound
  BY DEF RegInv, Sound, Found, OwnCopyFound
<1> QED BY <1>1, RegistrySound, PTL

\* No endpoint tells the search or the graph of an asset before the call that
\* registers it, and that one ends the request when it fails; the registry never
\* forgets an asset.  So wherever requests fail, interleave at Redis or are cut off by
\* a restart, what was told of is there.
THEOREM ReferencesAreSound == AssetSpec => []ReferencesResolve
<1>1. RegInv => ReferencesResolve
  BY DEF RegInv, Resolved, Registered, ReferencesResolve
<1> QED BY <1>1, RegistrySound, PTL

\* What the graph and the search have been told is of assets, users and queries.
Told ==
  /\ links \subseteq [from : Asset \cup Content, to : Asset] /\ jobs \subseteq [asset : Asset, user : User]
  /\ requests \in 0..MaxRequests /\ faults \in 0..MaxFaults

LEMMA NextTold ==
  ASSUME RegInv, Told, [AssetNext]_assetVars
  PROVE  Told'
<1>0. requests \in 0..MaxRequests /\ MaxRequests \in Nat /\ faults \in 0..MaxFaults /\ MaxFaults \in Nat
  BY AssetAssumption, FaultsAssumption DEF Told
<1>1. Fault \/ Fine => faults' \in 0..MaxFaults
  BY <1>0 DEF Fault, Fine
<1>2. ASSUME NEW found, Done(found) PROVE Fine
  BY <1>2 DEF Done
<1>3. Raised => Fault
  BY DEF Raised
<1>4. CASE (\E e \in Endpoint, a \in Asset, u \in User, c \in Content : Arrive(e, a, u, c)) \/ Await \/ Restart
           \/ (\E c \in Collection : Apply(c)) \/ UNCHANGED assetVars
  <2>1. UNCHANGED <<links, jobs>> /\ faults' \in 0..MaxFaults /\ requests' \in 0..MaxRequests
    BY <1>0, <1>1, <1>4 DEF Arrive, Await, Restart, Apply, assetVars
  <2> QED BY <2>1 DEF Told
<1>5. CASE Register \/ Match \/ SecondStage
  <2>1. UNCHANGED <<links, jobs, requests>> /\ (Fine \/ Fault)
    BY <1>2, <1>3, <1>5 DEF Register, Match, SecondStage
  <2> QED BY <1>1, <2>1 DEF Told
<1>6. CASE UpsertContext
  <2>1. request # NoRequest /\ UNCHANGED <<jobs, requests>> /\ (Fine \/ Fault)
    BY <1>2, <1>3, <1>6 DEF UpsertContext, Doing
  <2>2. request \in Request
    BY <2>1, InHand
  <2> DEFINE new == {[from |-> request.subject, to |-> p.asset] : p \in request.found.hits}
  <2>3. new \subseteq [from : Asset \cup Content, to : Asset]
    BY <2>2 DEF Request, Point
  <2>4. links' \subseteq links \cup new
    BY <1>6 DEF UpsertContext
  <2> HIDE DEF new
  <2> QED BY <1>1, <2>1, <2>3, <2>4 DEF Told
<1>7. ASSUME NEW r \in awaiting, EnqueueJob(r) PROVE Told'
  <2>1. r \in Request /\ r.subject \in Asset
    BY DEF RegInv, Sound, Registered
  <2>2. [asset |-> r.subject, user |-> r.user] \in [asset : Asset, user : User]
    BY <2>1 DEF Request
  <2>3. UNCHANGED <<links, requests>> /\ (Fine \/ Fault)
        /\ jobs' \subseteq jobs \cup {[asset |-> r.subject, user |-> r.user]}
    BY <1>7 DEF EnqueueJob
  <2> QED BY <1>1, <2>2, <2>3 DEF Told
<1> QED BY <1>4, <1>5, <1>6, <1>7 DEF AssetNext

\* Type correctness of the registry: a job is of an asset that someone registers, never
\* of a query, and a link leads to an asset.
THEOREM AssetTypeCorrect == AssetSpec => []AssetTypeOK
<1>1. AssetInit => RegInv /\ Told
  BY AssetAssumption, FaultsAssumption DEF AssetInit, RegInv, Resolved, Told
<1>2. RegInv /\ Told => AssetTypeOK
  <2> SUFFICES ASSUME RegInv, Told PROVE AssetTypeOK
    OBVIOUS
  <2>1. request # NoRequest => request.found.hits \cup request.found.own \subseteq Point
    BY DEF RegInv, Sound, Request
  <2>2. NoRequest \notin awaiting
    BY DEF RegInv, Sound, NoRequest
  <2> QED BY <2>1, <2>2 DEF RegInv, Told, AssetTypeOK
<1>3. RegInv /\ Told /\ [AssetNext]_assetVars => Told'
  BY NextTold
<1> QED BY <1>1, <1>2, <1>3, RegistrySound, PTL DEF AssetSpec
=============================================================================
