SPECIFICATION Spec
CONSTANTS
  Account = {a1, a2, a3, a4}
  Administrator = {o1}
  ZeroAddress = ZeroAddress
  p1 = p1
  PolicyId = {p1}
  ZeroId = ZeroId
  c1 = c1
  c2 = c2
  Content = {c1, c2}
  NoContent = NoContent
  n1 = n1
  n2 = n2
  Nonce = {n1, n2}
  Malformed = Malformed
  Nobody = Nobody
  MaxVersion = 2
  MaxSignatures = 2
  Deployments <- MCDeployments
  Requested <- MCRequested
SYMMETRY MCSymmetry
INVARIANTS TypeOK GuardiansDistinct PolicyBacked
PROPERTIES ChangeHasQuorum ImplementsQuorum
