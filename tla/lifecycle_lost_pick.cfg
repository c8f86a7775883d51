SPECIFICATION Spec
CONSTANTS
  Host = h
  Participants = {h, g}
  Items = {a, b}
  Noms = {n1, n2}
  Requests = {r1}
  None = None
  RuleSets <- TwoKinds
  MaxAborts = 1
PROPERTY PickIsRecorded
