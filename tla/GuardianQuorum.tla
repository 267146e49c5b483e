--------------------------- MODULE GuardianQuorum ---------------------------
(***************************************************************************)
(* What 2-of-3 governance promises, with nothing of how the registry       *)
(* checks it: a payload is enacted only when a quorum of the people who    *)
(* are guardians at that moment have approved exactly that payload, and a  *)
(* nonce buys one enactment.  PolicyRegistry implements this               *)
(* specification.                                                          *)
(***************************************************************************)
CONSTANTS
  Account,     \* the addresses that may ever be guardians
  PolicyId,    \* keys of the policy table
  Payload,     \* what guardians approve: records with fields id, content, nonce
  NoContent,   \* the value of a policy that is not in force
  Quorums      \* the sets of accounts whose joint approval is enough

VARIABLES members, approvals, value, spent

vars == <<members, approvals, value, spent>>

Init ==
  /\ members \in SUBSET Account
  /\ approvals = {}
  /\ value = [p \in PolicyId |-> NoContent]
  /\ spent = {}

\* An account approves a payload; an approval is never withdrawn.
Approve(a, payload) ==
  /\ approvals' = approvals \cup {<<a, payload>>}
  /\ UNCHANGED <<members, value, spent>>

\* The membership is replaced as the owner sees fit.
ChangeMembers ==
  /\ members' \in SUBSET Account
  /\ UNCHANGED <<approvals, value, spent>>

\* A payload takes effect, once, on the word of a quorum of present members.
Enact(payload) ==
  /\ payload.nonce \notin spent
  /\ \E voters \in Quorums :
       /\ voters \subseteq members
       /\ \A a \in voters : <<a, payload>> \in approvals
  /\ spent' = spent \cup {payload.nonce}
  /\ value' = [value EXCEPT ![payload.id] = payload.content]
  /\ UNCHANGED <<members, approvals>>

Next ==
  \/ \E a \in Account, payload \in Payload : Approve(a, payload)
  \/ ChangeMembers
  \/ \E payload \in Payload : Enact(payload)

Spec == Init /\ [][Next]_vars
=============================================================================
