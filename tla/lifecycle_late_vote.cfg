SPECIFICATION Spec
CONSTANTS
  Host = h
  Participants = {h, g}
  Items = {a, b}
  Noms = {n1, n2}
  Requests = {r1, r2}
  None = None
  RuleSets <- TwoKinds
  MaxAborts = 0
PROPERTY ResultsFinal
