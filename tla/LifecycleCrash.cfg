SPECIFICATION Spec
CONSTANTS
  Tasks = {t1, t2}
  Procs = {p1}
  Slots = {s1, s2}
  MaxAttempts = 2
  MaxFaults = 1
  Faults = {"crash"}
  NoTask = NoTask
SYMMETRY Symmetry
INVARIANTS StatusAgreement
PROPERTY KeepsPromise
