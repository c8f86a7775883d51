SPECIFICATION Spec
CONSTANTS
  Host = h
  Participants = {h, g}
  Items = {a, b}
  Noms = {n1, n2, n3}
  Requests = {r1}
  None = None
  RuleSets <- AllKinds
  MaxAborts = 1
INVARIANT NoSelfVotes
PROPERTIES ImplementsContract NewRowsWithinCap
