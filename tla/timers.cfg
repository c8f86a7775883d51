SPECIFICATION Spec
CONSTANTS
  Slots = {host, sweeper}
  Sweeper = sweeper
  None = None
  Horizon = 3
  MaxAborts = 1
INVARIANTS TypeOK PauseStopsClock VotingIsTimed
PROPERTIES SweepsOnlyDueRounds DueRoundIsLeft
