-------------------------- MODULE MCPolicyRegistry --------------------------
(***************************************************************************)
(* PolicyRegistry on three guardians and one outsider that may be rotated  *)
(* in, two upserts that compete for one nonce and a revocation.            *)
(***************************************************************************)
EXTENDS PolicyRegistry, TLC

CONSTANTS p1, c1, c2, n1, n2

MCRequested ==
  { [kind |-> "upsert", id |-> p1, content |-> c1, nonce |-> n1],
    [kind |-> "upsert", id |-> p1, content |-> c2, nonce |-> n1],
    [kind |-> "revoke", id |-> p1, content |-> NoContent, nonce |-> n2] }

MCDeployments == [Slot -> Account \cup {ZeroAddress}]

\* Accounts are only compared for equality.
MCSymmetry == Permutations(Account)
=============================================================================
