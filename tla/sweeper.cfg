SPECIFICATION Spec
CONSTANTS
  Polls = {p1, p2}
  None = None
  Retention = 2
  Horizon = 4
  MaxTouches = 1
  MaxFailures = 1
INVARIANTS TypeOK NothingDueIsLeft SweptChangesAreTold
PROPERTIES OpenedIsToldBeforeClosed PurgeIsRightToTheSecond DueRoundsAreLeft
