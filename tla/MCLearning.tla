----------------------------- MODULE MCLearning -----------------------------
(***************************************************************************)
(* The parts of the learning plane: the round monitor, the aggregation of  *)
(* a round, the replay buffer, the shadow mode and the environment of the  *)
(* routing policy.  They share no state while they run, so one run         *)
(* explores each by itself: "which" says whose behaviour this is.          *)
(***************************************************************************)
EXTENDS RoundMonitor, SecureAggregation, ExperienceBuffer, ShadowMode, SentinelEnv

VARIABLE which

\* Two that are each worse than the third in one metric.
MCQuality == {[accuracy |-> 90, ece |-> 6], [accuracy |-> 80, ece |-> 5], [accuracy |-> 90, ece |-> 5]}

\* With P = 31 = 2^5 - 1 and significands of two and three bits: the limit, sums of
\* half the modulus and beyond it, and sums that floats hold and do not hold.
MCValue == {-16, -1, 3, 12}
MCSpacing == {1, 2, 4, 8}

MCUtility == <<15, 8, 30>>

EnvState(c, q, b) ==
  [confidence |-> c, uncertainty |-> 100, false_positives |-> 0, overturns |-> 0,
   queue |-> q, capacity |-> 40, budget |-> b]
\* A risky state with an empty queue, a safe one with one entry whose budget is
\* nearly used up, and one at the edge of both.
MCFeature == {EnvState(1000, 0, 1000), EnvState(400, 5, 270)}
MCInitial == EnvState(960, 110, 1000)

learningVars == <<which, monitorVars, aggregationVars, replayVars, shadowVars, envVars>>

LearningInit ==
  /\ which \in {"rounds", "sums", "replay", "shadow", "environment"}
  /\ MonitorInit /\ (which # "rounds" => ~callback)
  /\ AggregationInit /\ ReplayInit /\ ShadowInit
  /\ EnvInit /\ (which # "environment" => samples = <<>>)

LearningNext ==
  /\ UNCHANGED which
  /\ \/ which = "rounds" /\ MonitorNext /\ UNCHANGED <<aggregationVars, replayVars, shadowVars, envVars>>
     \/ which = "sums" /\ AggregationNext /\ UNCHANGED <<monitorVars, replayVars, shadowVars, envVars>>
     \/ which = "replay" /\ ReplayNext /\ UNCHANGED <<monitorVars, aggregationVars, shadowVars, envVars>>
     \/ which = "shadow" /\ ShadowNext /\ UNCHANGED <<monitorVars, aggregationVars, replayVars, envVars>>
     \/ which = "environment" /\ EnvNext /\ UNCHANGED <<monitorVars, aggregationVars, replayVars, shadowVars>>

\* The fairness of the monitor and of the shadow mode, each where it is the one.
LearningSpec ==
  /\ LearningInit /\ [][LearningNext]_learningVars
  /\ WF_learningVars(/\ which = "rounds" /\ MonitorStep
                     /\ UNCHANGED <<which, aggregationVars, replayVars, shadowVars, envVars>>)
  /\ \A a \in Asset :
       WF_learningVars(/\ which = "shadow" /\ CallerStep(a)
                       /\ UNCHANGED <<which, monitorVars, aggregationVars, replayVars, envVars>>)

\* Enough samples make a round, and every shadowed call comes to an end.
LearningGoesOn == RoundsStart /\ CallsEnd
=============================================================================
