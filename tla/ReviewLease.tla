---------------------------- MODULE ReviewLease ----------------------------
(***************************************************************************)
(* What the review queue promises about an item: at any time at most one   *)
(* reviewer holds it, and it changes hands only through nobody's.  The     *)
(* Redis queue of HITLMonitor implements this specification.               *)
(***************************************************************************)
CONSTANTS Item, Reviewer, Nobody

VARIABLE holder

Init == holder = [i \in Item |-> Nobody]

Grant(i, r) ==
  /\ holder[i] = Nobody
  /\ holder' = [holder EXCEPT ![i] = r]

\* Time passes, and some leases run out.
RunOut ==
  \E out \in SUBSET Item :
    holder' = [i \in Item |-> IF i \in out THEN Nobody ELSE holder[i]]

Next == RunOut \/ \E i \in Item, r \in Reviewer : Grant(i, r)

Spec == Init /\ [][Next]_holder
=============================================================================
