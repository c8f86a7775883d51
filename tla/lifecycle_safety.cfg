SPECIFICATION Spec
CONSTANTS
  Host = h
  Participants = {h, g}
  Items = {a, b}
  Noms = {n1, n2}
  Requests = {r1, r2, r3}
  None = None
  RuleSets <- TwoKinds
  MaxAborts = 1
SYMMETRY Symmetry
INVARIANTS TypeOK VotesNameRows NominationsBacked CrownIsUndisputed
PROPERTY ImplementsDecision
