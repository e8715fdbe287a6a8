SPECIFICATION Spec
CONSTANTS
  MaxNodes = 2
  MaxRestarts = 1
  Envs = {{"abort", "team"}}
INVARIANTS ManagerAfterAll
CHECK_DEADLOCK FALSE
