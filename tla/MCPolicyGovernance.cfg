SPECIFICATION Spec
CONSTANTS
  a1 = a1
  a2 = a2
  a3 = a3
  a4 = a4
  Account = {a1, a2, a3, a4}
  Administrator = {o1}
  ZeroAddress = ZeroAddress
  p1 = p1
  PolicyId = {p1}
  ZeroId = ZeroId
  c1 = c1
  c2 = c2
  Content = {c1}
  NoContent = NoContent
  n1 = n1
  Nonce = {n1}
  Malformed = Malformed
  Nobody = Nobody
  MaxVersion = 2
  MaxSignatures = 3
  Deployments <- MCDeployments
  Requested <- MCRequested
  ProposalId = {q1, q2}
  NoProposal = NoProposal
  s1 = s1
  s2 = s2
  Submissions <- MCSubmissions
  Rotations <- MCRotations
  Request = {r1, r2}
  MaxSent = 2
  Builds = {TRUE, FALSE}
  CallsFail = TRUE
SYMMETRY MCSymmetry
INVARIANTS EnactedOnce AnchoredWasSent OutcomeHadSignatures
