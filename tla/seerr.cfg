SPECIFICATION Spec
CONSTANTS
  Titles = {t1, t2, t3}
  Winners = {t1, t2}
  Autos = {closer, sweeper}
  Closer = closer
  Hosts = {host}
  None = None
  MaxFaults = 1
INVARIANTS TypeOK RecordedWereMade OnceUnlessDisturbed
PROPERTY WinnersRequested
