----------------------------- MODULE SentinelEnv -----------------------------
(***************************************************************************)
(* services/fl_edge/sentinel_env.py on state_space.py: the environment the *)
(* routing policy is trained in.  A step judges the action by a historical *)
(* sample, or by a heuristic when there is none, and goes on to the state  *)
(* of the next sample, or to one it computes.                              *)
(*                                                                         *)
(* Of a state the features that decide anything are kept, in thousandths;  *)
(* a full queue is 200 entries, so one entry is 5.  Rewards are in         *)
(* ten-thousandths.                                                        *)
(***************************************************************************)
EXTENDS Integers, Sequences

CONSTANTS
  Feature,    \* bound: the states samples may hold
  Initial,    \* initial_state
  MaxSamples, \* bound: the length of the history
  MaxSteps    \* max_steps

\* SentinelState.from_raw clips every measurement.
Ratio == 0..1000
State == [confidence : Ratio, uncertainty : Ratio, false_positives : Ratio, overturns : Ratio,
          queue : Ratio, capacity : Ratio, budget : Ratio]

ASSUME EnvAssumption == Feature \cup {Initial} \subseteq State /\ MaxSamples \in Nat

VARIABLES
  samples,     \* historical_samples: a state and a label each, or neither
  here,        \* _state
  stepCount,   \* _step_count
  index,       \* _history_index
  source,      \* history: the sample whose state this is; 0 for no sample
  last         \* history: what the last step judged and gave

envVars == <<samples, here, stepCount, index, source, last>>

NoStep == [judged |-> 0]
Label == {"infringing", "clean", "unknown"}

\* _state_from_history_index, counted from 1: the sample's state, if it has one.
StateAt(i) == IF i \in DOMAIN samples THEN samples[i].state ELSE {}

StartState == IF StateAt(1) = {} THEN Initial ELSE CHOOSE s \in StateAt(1) : TRUE
StartSource == IF StateAt(1) = {} THEN 0 ELSE 1

\* The constructor, which does not look at the samples; reset does.
EnvInit ==
  /\ samples \in UNION {[1..n -> [state : {{}} \cup {{f} : f \in Feature}, label : Label]] : n \in 0..MaxSamples}
  /\ stepCount = 0 /\ index = 0 /\ last = NoStep
  /\ here = Initial /\ source = 0

Capped(n) == IF n < 0 THEN 0 ELSE IF n > 1000 THEN 1000 ELSE n

\* The risk signal, with its weights times 100: 0.55 and above is infringing.
HeuristicInfringing(s) ==
  55 * s.confidence + 20 * s.uncertainty + 10 * s.false_positives + 10 * s.overturns
    + 5 * (1000 - s.budget) >= 55000

\* _historical_sample_for_step: when the history is used up, its last sample.
SampleIndex == IF index < Len(samples) THEN index + 1 ELSE Len(samples)

Infringing ==
  IF samples = <<>> \/ samples[SampleIndex].label = "unknown" THEN HeuristicInfringing(here)
  ELSE samples[SampleIndex].label = "infringing"

\* _categorize_outcome and its reward.
Base(action, infringing) ==
  CASE action = 2 -> IF infringing THEN 30000 ELSE -50000
    [] action = 1 -> IF infringing THEN 8000 ELSE -4000
    [] OTHER -> IF infringing THEN -40000 ELSE 15000

\* _state_queue_depth: how many entries the queue has, in thousandths.
Depth == 200 * here.queue

\* A reviewer's idle minutes, times 1000.
Idle(action) ==
  CASE action = 1 -> 10 * (1000 - here.capacity)
    [] action = 0 -> 15 * here.queue
    [] OTHER -> 5 * here.queue

RoundTriggered(action) == action = 2 /\ here.budget <= 250

\* What an entry that waits costs in the second of a step is 0.005.
QueuePenalty == -(5 * Depth) \div 100

\* _reward_breakdown.
Breakdown(action, infringing) ==
  [base |-> Base(action, infringing), queue |-> QueuePenalty,
   idle |-> IF Depth > 0 THEN -Idle(action) ELSE 0,
   budget |-> IF RoundTriggered(action) THEN -10000 ELSE 0]

\* compute_reward, which is written out a second time.
ComputeReward(action, infringing) ==
  Base(action, infringing)
    + (IF Depth > 0 THEN QueuePenalty ELSE 0)
    + (IF Depth > 0 /\ Idle(action) > 0 THEN -Idle(action) ELSE 0)
    + (IF RoundTriggered(action) THEN -10000 ELSE 0)

\* The state that follows when the history has none.  The queue is computed from the
\* number of its entries, and taken for a share: with one entry it is nearly full.
Continued(action, infringing) ==
  [here EXCEPT
    !.queue = Capped(CASE action = 1 -> Depth - 80 [] action = 2 -> Depth - 120 [] OTHER -> Depth + 20),
    !.budget = Capped(Capped(IF action = 2 THEN @ - 20 ELSE @) - (IF RoundTriggered(action) THEN 100 ELSE 0)),
    !.capacity = CASE action # 0 /\ ~infringing -> Capped(@ - 50)
                   [] action = 1 /\ infringing -> Capped(@ + 10)
                   [] OTHER -> @]

\* Mistake: the state of the sample just judged comes again.
NextIndexSame == index + 1

\* _next_state looks at sample _history_index + 1, which is this one counted from 1.
NextIndex == index + 2

Step(action) ==
  /\ LET next == StateAt(NextIndex)
     IN /\ here' = IF next = {} THEN Continued(action, Infringing) ELSE CHOOSE s \in next : TRUE
        /\ source' = IF next = {} THEN 0 ELSE NextIndex
  /\ last' = [judged |-> IF samples = <<>> THEN 0 ELSE SampleIndex, seen |-> source, in |-> here,
              action |-> action, infringing |-> Infringing,
              reward |-> ComputeReward(action, Infringing), breakdown |-> Breakdown(action, Infringing)]
  /\ stepCount' = stepCount + 1 /\ index' = index + 1
  /\ UNCHANGED samples

Reset ==
  /\ stepCount' = 0 /\ index' = 0 /\ last' = NoStep
  /\ here' = StartState /\ source' = StartSource
  /\ UNCHANGED samples

Truncated == stepCount >= MaxSteps

\* The environment calls an episode done when the history is used up, but goes on;
\* here it does until the episode is truncated, which bounds the model.
EnvNext == (~Truncated /\ \E action \in 0..2 : Step(action)) \/ Reset

EnvSpec == EnvInit /\ [][EnvNext]_envVars

-----------------------------------------------------------------------------
EnvTypeOK ==
  /\ here \in State /\ index = stepCount /\ source \in 0..Len(samples)

\* An action is judged by the sample whose state it was chosen in, after any number
\* of steps and resets; and what a step is rewarded is what its breakdown says, and
\* judged by the label of that sample if it has one.
JudgedInItsState ==
  last # NoStep =>
    /\ last.seen # 0 => last.judged = last.seen
    /\ last.judged # 0 /\ samples[last.judged].label # "unknown"
         => (last.infringing <=> samples[last.judged].label = "infringing")
    /\ LET b == last.breakdown IN last.reward = b.base + b.queue + b.idle + b.budget
=============================================================================
