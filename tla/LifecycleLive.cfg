SPECIFICATION FairSpec
CONSTANTS
  Tasks = {t1}
  Procs = {p1}
  Slots = {s1, s2}
  MaxAttempts = 2
  MaxFaults = 2
  Faults = {"crash", "lost", "stop"}
  NoTask = NoTask
INVARIANTS SingleExecution AttemptBound
PROPERTIES EveryTaskSettles
