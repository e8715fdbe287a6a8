SPECIFICATION FairSpec
CONSTANTS
  MaxNodes = 2
  MaxRestarts = 2
  Envs = {{"restart", "cancelTask"}, {"cancelRun"}}
INVARIANTS ManagerAfterAll OutcomeForCause
PROPERTIES RunSettles FailurePropagates CancelDrains
CHECK_DEADLOCK FALSE
