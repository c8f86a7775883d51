SPECIFICATION Spec
CONSTANTS
  Candidates = {1, 2, 3, 4}
  Voters = {1, 2, 3, 4, 5}
  MaxRanked = 2
  Elections <- OneOfEach
INVARIANTS TypeOK MajorityWins WinnersAreUnbeaten BestFirst SomebodyWins
PROPERTY RunoffEnds
