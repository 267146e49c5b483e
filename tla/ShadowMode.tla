----------------------------- MODULE ShadowMode -----------------------------
(***************************************************************************)
(* services/fl_edge/shadow_mode.py: every asset is decided by the static   *)
(* policy, while one worker thread asks the learned policy about it; the   *)
(* caller waits for that answer until a time limit, writes a comparison to *)
(* a Redis list, and returns what the static policy said.                  *)
(*                                                                         *)
(* Callers are threads.  Time is left out: a caller that waits may time    *)
(* out whenever the answer is not there.  An inference that runs cannot be *)
(* cancelled, and may never end.                                           *)
(***************************************************************************)
EXTENDS Integers, Sequences, SequencesExt, FiniteSetsExt

CONSTANTS
  Asset,       \* one call of process_asset for each
  Utility,     \* action_utilities, in tenths
  Confidence,  \* bound: what a policy says of its answer, in tenths
  MaxEntries,  \* max_entries
  MaxErrors    \* bound: commands Redis fails

ASSUME ShadowAssumption ==
  Utility \in [1..3 -> Int] /\ Confidence \subseteq 0..10 /\ MaxEntries \in Int

VARIABLES
  executor,    \* the worker thread: is it open, what it runs, what it is to run
  future,      \* the future of each call
  call,        \* how far each call is, and what it will log
  comparisons, \* log_key
  redisErrors

shadowVars == <<executor, future, call, comparisons, redisErrors>>

Action == 0..2
Invalid == -1  \* a policy's result that holds no action
Complete(answer) == [status |-> "shadow_complete", rl_action |-> {answer.action}, confidence |-> answer.confidence]
Incomplete(status) == [status |-> status, rl_action |-> {}, confidence |-> 10]

ShadowInit ==
  /\ executor = [open |-> TRUE, running |-> {}, queue |-> <<>>]
  /\ future = [a \in Asset |-> [state |-> "none"]]
  /\ call = [a \in Asset |-> [pc |-> "none"]]
  /\ comparisons = <<>> /\ redisErrors = 0

\* submit.  After close() it raises.
Submit(a) ==
  /\ call[a].pc = "none"
  /\ IF executor.open
     THEN /\ executor' = [executor EXCEPT !.queue = Append(@, a)]
          /\ future' = [future EXCEPT ![a] = [state |-> "pending"]]
          /\ call' = [call EXCEPT ![a] = [pc |-> "baseline"]]
     ELSE /\ call' = [call EXCEPT ![a] = [pc |-> "raised"]]
          /\ UNCHANGED <<executor, future>>
  /\ UNCHANGED <<comparisons, redisErrors>>

StartInference ==
  /\ executor.running = {} /\ executor.queue # <<>>
  /\ LET a == Head(executor.queue)
     IN /\ executor' = [executor EXCEPT !.queue = Tail(@),
                          !.running = IF future[a].state = "pending" THEN {a} ELSE {}]
        /\ future' = IF future[a].state = "pending"
                     THEN [future EXCEPT ![a] = [state |-> "running"]] ELSE future
  /\ UNCHANGED <<call, comparisons, redisErrors>>

\* The learned policy answers, or raises.
EndInference(a) ==
  /\ a \in executor.running
  /\ executor' = [executor EXCEPT !.running = {}]
  /\ \/ \E action \in Action \cup {Invalid}, c \in Confidence :
          future' = [future EXCEPT ![a] = [state |-> "done", action |-> action, confidence |-> c]]
     \/ future' = [future EXCEPT ![a] = [state |-> "failed"]]
  /\ UNCHANGED <<call, comparisons, redisErrors>>

\* The static policy, under a lock: one call at a time is in it, so it is one step.
Baseline(a) ==
  /\ call[a].pc = "baseline"
  /\ \/ \E action \in Action : call' = [call EXCEPT ![a] = [pc |-> "wait", baseline |-> action]]
     \/ call' = [call EXCEPT ![a] = [pc |-> "raised"]]
  /\ UNCHANGED <<executor, future, comparisons, redisErrors>>

Log(a, entry) == call' = [call EXCEPT ![a] = [pc |-> "push", baseline |-> @.baseline, entry |-> entry]]

\* Mistake: the last answer there is, not that of this call's own future.
AnswerOfAny(a) ==
  /\ call[a].pc = "wait"
  /\ \E b \in Asset : /\ future[b].state = "done"
                      /\ Log(a, IF future[b].action = Invalid THEN Incomplete("shadow_error") ELSE Complete(future[b]))
  /\ UNCHANGED <<executor, future, comparisons, redisErrors>>

\* rl_future.result() has something to return or to raise; that the executor was
\* closed counts as the failure of the policy.
Answer(a) ==
  /\ call[a].pc = "wait"
  /\ \/ future[a].state = "done" /\ future[a].action # Invalid /\ Log(a, Complete(future[a]))
     \/ future[a].state = "done" /\ future[a].action = Invalid /\ Log(a, Incomplete("shadow_error"))
     \/ future[a].state \in {"failed", "cancelled"} /\ Log(a, Incomplete("shadow_error"))
  /\ UNCHANGED <<executor, future, comparisons, redisErrors>>

\* Mistake: a caller gives up only what it can cancel.
TimeOutPending(a) ==
  /\ call[a].pc = "wait" /\ future[a].state = "pending"
  /\ Log(a, Incomplete("latency_error"))
  /\ future' = [future EXCEPT ![a] = [state |-> "cancelled"]]
  /\ UNCHANGED <<executor, comparisons, redisErrors>>

\* cancel() has an effect only on what the worker has not begun.
TimeOut(a) ==
  /\ call[a].pc = "wait" /\ future[a].state \in {"pending", "running"}
  /\ Log(a, Incomplete("latency_error"))
  /\ future' = IF future[a].state = "pending"
               THEN [future EXCEPT ![a] = [state |-> "cancelled"]] ELSE future
  /\ UNCHANGED <<executor, comparisons, redisErrors>>

Reward(entry, baseline) ==
  IF entry.rl_action = {} THEN 0
  ELSE LET action == CHOOSE x \in entry.rl_action : TRUE
       IN  entry.confidence * (Utility[action + 1] - Utility[baseline + 1])

Record(a) == [asset |-> a, baseline |-> call[a].baseline, entry |-> call[a].entry,
              projected |-> Reward(call[a].entry, call[a].baseline)]

RedisFails == redisErrors < MaxErrors /\ redisErrors' = redisErrors + 1
Ends(a, pc) == call' = [call EXCEPT ![a].pc = pc]

\* log_comparison: RPUSH and LTRIM under the logger's lock.  An error of either
\* goes through process_asset, and the static policy's answer is lost with it.
LogComparison(a) ==
  /\ call[a].pc = "push"
  /\ LET pushed == Append(comparisons, Record(a))
         first == IF MaxEntries > 0 /\ Len(pushed) > MaxEntries THEN Len(pushed) - MaxEntries + 1 ELSE 1
         trimmed == SubSeq(pushed, first, Len(pushed))
     IN \/ comparisons' = trimmed /\ Ends(a, "returned") /\ UNCHANGED redisErrors
        \/ comparisons' \in {comparisons, pushed, trimmed} /\ Ends(a, "raised") /\ RedisFails
  /\ UNCHANGED <<executor, future>>

\* shutdown(wait=False, cancel_futures=True)
Close ==
  /\ executor.open
  /\ executor' = [executor EXCEPT !.open = FALSE, !.queue = <<>>]
  /\ future' = [a \in Asset |-> IF future[a].state = "pending" THEN [state |-> "cancelled"] ELSE future[a]]
  /\ UNCHANGED <<call, comparisons, redisErrors>>

CallerStep(a) == Baseline(a) \/ Answer(a) \/ TimeOut(a) \/ LogComparison(a)

ShadowNext ==
  \/ StartInference \/ Close
  \/ \E a \in Asset : Submit(a) \/ EndInference(a) \/ CallerStep(a)

\* Callers run on, and time passes; nothing is assumed of the learned policy.
ShadowSpec ==
  ShadowInit /\ [][ShadowNext]_shadowVars /\ \A a \in Asset : WF_shadowVars(CallerStep(a))

-----------------------------------------------------------------------------
ShadowTypeOK ==
  /\ Cardinality(executor.running) <= 1 /\ ToSet(executor.queue) \subseteq Asset
  /\ \A a \in Asset :
       /\ future[a].state \in {"none", "pending", "running", "done", "failed", "cancelled"}
       /\ call[a].pc \in {"none", "baseline", "wait", "push", "returned", "raised"}
  /\ MaxEntries > 0 => Len(comparisons) <= MaxEntries + redisErrors

\* ShadowMetrics.from_records
Comparable == {i \in DOMAIN comparisons : comparisons[i].entry.rl_action # {}}
ProjectedReward ==
  LET reward == [i \in Comparable |-> Reward(comparisons[i].entry, comparisons[i].baseline)]
  IN  MapThenSumSet(LAMBDA i : reward[i], Comparable)

\* A record tells of its own asset: the learned policy's action is in it exactly
\* if that policy answered this call with one, and in time; no call leaves two
\* records, the last call that returned left one; and the metrics computed from
\* the list add up to the rewards written into it.
ShadowTellsTruth ==
  /\ \A i \in DOMAIN comparisons :
       LET r == comparisons[i]
       IN /\ r.entry.status = "shadow_complete"
               => future[r.asset].state = "done" /\ r.entry.rl_action = {future[r.asset].action}
          /\ r.entry.status = "shadow_complete" <=> r.entry.rl_action # {}
          /\ r.entry.status = "latency_error" => future[r.asset].state # "pending"
          /\ \A j \in DOMAIN comparisons : comparisons[j].asset = r.asset => i = j
  /\ (\E a \in Asset : call[a].pc = "returned") => Len(comparisons) > 0
  /\ LET written == [i \in DOMAIN comparisons |-> comparisons[i].projected]
     IN  ProjectedReward = MapThenSumSet(LAMBDA i : written[i], DOMAIN comparisons)

\* Every call comes to an end, also when the learned policy never answers and the
\* worker thread is stuck in it for good.
CallsEnd == \A a \in Asset : call[a].pc = "baseline" ~> call[a].pc \in {"returned", "raised"}
=============================================================================
