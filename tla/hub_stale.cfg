SPECIFICATION Spec
CONSTANTS
  Pages = {p}
  Handlers = {h}
  Others = Others
  Capacity = 1
  LastVersion = 3
  MaxBreaks = 0
PROPERTY EveryPageComesCurrent
