SPECIFICATION Spec
CONSTANTS
  Tasks = {t1}
  Procs = {p1, p2}
  Slots = {s1}
  MaxAttempts = 2
  MaxFaults = 1
  Faults = {"slow", "crash"}
  NoTask = NoTask
INVARIANTS AttemptOverrun
