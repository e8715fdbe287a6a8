SPECIFICATION Spec
CONSTANTS
  Tasks = {t1}
  Procs = {p1}
  Slots = {s1}
  MaxAttempts = 1
  MaxFaults = 0
  Faults = {"stop"}
  NoTask = NoTask
INVARIANTS StopUniform
