SPECIFICATION Spec
CONSTANTS
  Browsers = {b1}
  Polls = {p1, p2}
  Codes = {c1, c2}
  Requests = {r1, r2}
  Keys = {k1}
  None = None
  Attempts = 2
  MaxSeats = 2
  MaxSecrets = 1
  Window = 2
  MaxLogins = 1
  Delay = 1
  Horizon = 2
SYMMETRY Symmetry
INVARIANTS TypeOK MembershipKept OneSeatEach CodesNameOnePoll LoginsWithinLimit
CHECK_DEADLOCK FALSE
