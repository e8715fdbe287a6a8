SPECIFICATION Spec
CONSTANTS
  MaxNodes = 3
  MaxRestarts = 1
  Envs = {{"early", "abort"}}
INVARIANTS DependencyOrder
CHECK_DEADLOCK FALSE
