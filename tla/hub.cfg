SPECIFICATION Spec
CONSTANTS
  Pages = {p}
  Handlers = {h1, h2}
  Others = Others
  Capacity = 1
  LastVersion = 4
  MaxBreaks = 1
INVARIANTS TypeOK DroppedEventsAreHarmless
PROPERTY PagesCatchUp
