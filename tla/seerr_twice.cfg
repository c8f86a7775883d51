SPECIFICATION Spec
CONSTANTS
  Titles = {t1, t2}
  Winners = {t1}
  Autos = {closer, sweeper}
  Closer = closer
  Hosts = {host}
  None = None
  MaxFaults = 0
INVARIANT AtMostOnce
