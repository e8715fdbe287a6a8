SPECIFICATION MCSpec
CONSTANTS
  Parts = {"pi", "memory", "database", "registry", "public", "draft", "hermes", "token", "execution"}
  a1 = a1
  a2 = a2
  c1 = c1
  c2 = c2
  e1 = e1
  e2 = e2
  k1 = k1
  k2 = k2
  k3 = k3
  m1 = m1
  p1 = p1
  p2 = p2
  p3 = p3
  q1 = q1
  q2 = q2
  s1 = s1
  s2 = s2
  u1 = u1
  x1 = x1
  x2 = x2
  None = None
  Requests = {p1, p2, p3}
  Executions = {e1, e2}
  Sessions = {s1, s2}
  Asked <- MCAsked
  Limit = 1
  MaxSessions = 1
  MaxStops = 2
  Nil = None
  Turns = {1, 2}
  Legacy <- MCLegacy
  MaxTurns = 2
  MaxWrites = 4
  Providers = {"redis", "postgres"}
  Calls = {c1, c2}
  Hosts = {"deepseek", "pi", "hermes"}
  Runs = {p1, p2, p3, q1}
  HermesSessions = {s1}
  Given <- MCGiven
  Builtin = {u1}
  Stops = {u1}
  Streamed = {c1}
  Keys = {k1, k2, k3}
  Rotations = {x1, x2}
  First = k1
  Limits = {1, 2}
  Scenes <- MCScenes
  MaxMinute = 1
  MaxChanges = 3
  Models = {m1, m2}
  Agents = {g1}
  Clients = {c1, c2}
  Configured = m1
  Menus <- MCMenus
  MaxEdits = 1
  Admins = {a1, a2}
  Queries = {q1, q2}
  Scopes = {s1, s2}
  Worlds <- MCDatabases
  MaxRevision = 2
  MaxRotation = 2
  DraftRequests = {a1, a2}
  Contracts = {k1, k2}
  DatabaseKinds = {k2}
  Implementations = {1, 2}
  Serves <- MCServes
  On <- MCOn
  Bound <- MCBound
  Offers <- MCOffers
  Need <- MCNeed
INVARIANTS GateExact RunOnce HistoryIsLog RegistryCoherent PoolsFollow HealthCurrent AuditAgrees RateBound KeysExact ReleaseSound ToolsCounted NoLateCall VerdictsAgree NothingLeftRunning
PROPERTIES StopExact RegistryComplete
CHECK_DEADLOCK FALSE
