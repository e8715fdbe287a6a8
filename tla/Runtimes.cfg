SPECIFICATION MCSpec
CONSTANTS
  Parts = {"runtime", "pi", "model", "capability"}
  Pairs = {"retry", "session", "apart", "parallel"}
  b1 = b1
  c1 = c1
  c2 = c2
  e1 = e1
  e2 = e2
  i1 = i1
  i2 = i2
  k1 = k1
  k2 = k2
  p1 = p1
  p2 = p2
  p3 = p3
  r1 = r1
  r2 = r2
  s1 = s1
  s2 = s2
  u1 = u1
  u2 = u2
  None = None
  Requests = {r1, r2}
  Executions = {e1, e2}
  Sessions = {s1, s2}
  Identities = {i1, i2}
  Worlds <- MCRuns
  MaxSessions = 1
  Uids = {u1, u2}
  MaxStops = 1
  Calls = {c1, c2, c3}
  Streams = {c1, c2}
  MaxCalls = 1
  MaxRetries = 1
INVARIANTS Isolation StopsAccounted PermitsAccounted
PROPERTIES ImplementsGate StopsEnd CallsEnd
CHECK_DEADLOCK FALSE
