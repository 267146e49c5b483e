SPECIFICATION TreeSpec
CONSTANTS
  Leaf = {a, b}
  MaxLeaves = 7
INVARIANTS ProofsServed
