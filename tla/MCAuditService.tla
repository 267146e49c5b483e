-------------------------- MODULE MCAuditService --------------------------
(***************************************************************************)
(* AuditService with two items, which carry the same decision or not, and  *)
(* another gateway that records batches.                                   *)
(***************************************************************************)
EXTENDS AuditService

CONSTANTS q1, q2, d1, d2, other

MCSameDecision == [q \in QueueId |-> d1]

MCTwoDecisions == [q \in QueueId |-> IF q = q1 THEN d1 ELSE d2]

\* A batch with two events, one of a decision the service has a file for too.
MCForeignFew ==
  {<<[id |-> d2, cid |-> other], [id |-> d2, cid |-> q1]>>, <<[id |-> d1, cid |-> EmptyCid]>>}

MCNoForeign == {}
===========================================================================
