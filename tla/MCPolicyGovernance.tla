------------------------- MODULE MCPolicyGovernance -------------------------
(***************************************************************************)
(* PolicyGovernance with one contested policy: two proposals that drew the *)
(* same nonce for the same content, so that the signatures of one serve    *)
(* the other; two anchor requests in progress at a time; and an account    *)
(* that may replace a guardian who has signed.                             *)
(***************************************************************************)
EXTENDS PolicyGovernance, TLC

CONSTANTS p1, c1, c2, n1, a1, a2, a3, a4, s1, s2

MCRequested ==
  {[kind |-> "upsert", id |-> p1, content |-> c, nonce |-> n1] : c \in Content}

MCDeployments == {[i \in 0..2 |-> <<a1, a2, a3>>[i + 1]]}

MCSubmissions == {<<s1, a1>>, <<s2, a2>>}

MCRotations == {<<1, a4>>}

MCSymmetry == Permutations(Request) \cup Permutations(ProposalId)
=============================================================================
