-------------------------- MODULE ExperienceBuffer --------------------------
(***************************************************************************)
(* services/fl_edge/redis_experience_buffer.py: episodes in one Redis list *)
(* and the absolute returns they are drawn by in another.  Episodes are    *)
(* added by a script, which is one step; a batch is drawn in many commands *)
(* (LLEN, two LRANGEs, an LINDEX for each episode), between which writers  *)
(* go on.                                                                  *)
(***************************************************************************)
EXTENDS Naturals, Sequences, SequencesExt

CONSTANTS
  Capacity,     \* capacity
  Window,       \* recent_window_size
  Return,       \* bound: absolute returns
  MaxEpisodes,  \* bound
  MaxBatch      \* bound: batch sizes asked for

ASSUME ReplayAssumption == /\ {Capacity, Window} \subseteq Nat \ {0} /\ MaxEpisodes \in Nat
                           /\ MaxBatch \in Nat /\ Return \subseteq Nat

VARIABLES
  episodes,  \* episodes_key; an episode is its number and its return
  weights,   \* weights_key
  added,     \* how many episodes were added
  sampler    \* a call of sample_batch: where it is and what it has read

replayVars == <<episodes, weights, added, sampler>>

ReplayInit ==
  /\ episodes = <<>> /\ weights = <<>> /\ added = 0
  /\ sampler = [pc |-> "none"]

\* LTRIM -capacity -1
Trim(list) == SubSeq(list, IF Len(list) > Capacity THEN Len(list) - Capacity + 1 ELSE 1, Len(list))

\* Mistake: the weights are never trimmed.
AppendTrimsOne(w) ==
  /\ episodes' = Trim(Append(episodes, [number |-> added + 1, abs_return |-> w]))
  /\ weights' = Append(weights, w)

AppendAndTrim(w) ==
  /\ episodes' = Trim(Append(episodes, [number |-> added + 1, abs_return |-> w]))
  /\ weights' = Trim(Append(weights, w))

AddEpisode(w) ==
  /\ added < MaxEpisodes /\ added' = added + 1
  /\ AppendAndTrim(w)
  /\ UNCHANGED sampler

\* How many episodes have left the list: place i holds the one of number Trimmed + i.
Trimmed == added - Len(episodes)

\* The first command.  History are "oldest", the episode the recent window began
\* with, "trimmed", what had been trimmed when its weights were read, and "named",
\* the episodes whose weights were drawn.
ReadSize(asked) ==
  /\ sampler.pc \in {"none", "returned", "raised"} /\ episodes # <<>>
  /\ LET total == Len(episodes)
         start == IF total > Window THEN total - Window ELSE 0
     IN  sampler' = [pc |-> "recent", size |-> IF asked < total THEN asked ELSE total,
                     start |-> start, oldest |-> episodes[start + 1].number,
                     recent |-> <<>>, trimmed |-> 0, want |-> <<>>, named |-> <<>>, got |-> <<>>]
  /\ UNCHANGED <<episodes, weights, added>>

\* _get_weight_slice(start, -1)
ReadRecent ==
  /\ sampler.pc = "recent"
  /\ sampler' = [sampler EXCEPT !.pc = "full", !.recent = SubSeq(weights, sampler.start + 1, Len(weights)),
                                !.trimmed = Trimmed]
  /\ UNCHANGED <<episodes, weights, added>>

\* _weighted_sample_indices: what numpy's choice may return; nothing when it
\* raises, for fewer positive weights than it is to draw.
Draws(list, count, offset) ==
  LET positive == {i \in DOMAIN list : list[i] > 0}
      open == IF positive = {} THEN DOMAIN list ELSE positive
  IN  {[i \in 1..count |-> s[i] + offset] :
         s \in {s \in [1..count -> open] : count > Len(list) \/ IsInjective(s)}}

RecentTarget == (sampler.size * 9) \div 10

\* The episodes that are at these places once so many are trimmed.
Named(places, trimmed) == [i \in DOMAIN places |-> trimmed + places[i]]

\* The weights of the whole list, read when some have changed since; then the draw.
ReadFullAndDraw ==
  /\ sampler.pc = "full"
  /\ LET recent == Draws(sampler.recent, RecentTarget, sampler.start)
         global == Draws(weights, sampler.size - RecentTarget, 0)
     IN \/ \E r \in recent, g \in global :
             sampler' = [sampler EXCEPT !.pc = "fetch", !.want = r \o g,
                                        !.named = Named(r, sampler.trimmed) \o Named(g, Trimmed)]
        \/ recent = {} /\ sampler' = [pc |-> "raised"]
        \/ recent # {} /\ global = {} /\ sampler' = [pc |-> "raised"]
  /\ UNCHANGED <<episodes, weights, added>>

\* One LINDEX of a pipeline that is no transaction; a missing entry is left out.
Fetch ==
  /\ sampler.pc = "fetch"
  /\ LET i == Head(sampler.want)
     IN  sampler' = [sampler EXCEPT
           !.want = Tail(@),
           !.got = IF i <= Len(episodes) THEN Append(@, episodes[i].number) ELSE @,
           !.pc = IF Len(sampler.want) = 1 THEN "returned" ELSE @]
  /\ UNCHANGED <<episodes, weights, added>>

ReplayNext ==
  \/ \E w \in Return : AddEpisode(w)
  \/ \E n \in 1..MaxBatch : ReadSize(n)
  \/ ReadRecent \/ ReadFullAndDraw \/ Fetch

ReplaySpec == ReplayInit /\ [][ReplayNext]_replayVars

-----------------------------------------------------------------------------
ReplayTypeOK ==
  /\ Len(episodes) <= Capacity /\ added \in 0..MaxEpisodes
  /\ \A i \in DOMAIN episodes : episodes[i] \in [number : 1..added, abs_return : Return]
  /\ sampler.pc \in {"none", "recent", "full", "fetch", "returned", "raised"}

\* The two lists stay in step.  A batch is drawn by places, and writers push and
\* trim between its commands: it may hold another episode than the one whose return
\* it was drawn by, but never an older one, and one newer by no more than was
\* trimmed since.  It is as long as was asked for, and nine tenths of it are no
\* older than the window that was recent when the call began.
ReplayAligned ==
  /\ weights = [i \in DOMAIN episodes |-> episodes[i].abs_return]
  /\ sampler.pc = "returned" =>
       /\ Len(sampler.got) = sampler.size
       /\ \A i \in 1..sampler.size :
            sampler.got[i] \in sampler.named[i]..sampler.named[i] + (Trimmed - sampler.trimmed)
       /\ \A i \in 1..RecentTarget : sampler.got[i] >= sampler.oldest
=============================================================================
