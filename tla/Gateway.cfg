SPECIFICATION Spec
CONSTANTS
  c1 = c1
  c2 = c2
  c3 = c3
  b1 = b1
  k1 = k1
  k2 = k2
  e = e
  None = None
  Calls = {c1, c2, c3}
  Bindings = {b1}
  Connectors = {k1, k2}
  Executions = {e}
  BindingOf <- MCBindingOf
  ConnectorOf <- MCConnectorOf
  ExecutionOf <- MCExecutionOf
  Concurrency <- MCConcurrency
  PerMinute <- MCPerMinute
  PerExecution <- MCPerExecution
  Retries <- MCRetries
  Cacheable = {b1}
  Trouble = {"death", "database"}
  MaxTrouble = 1
INVARIANTS CallsBound AuditTrail
PROPERTIES ImplementsGate
CHECK_DEADLOCK FALSE
