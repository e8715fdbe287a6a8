SPECIFICATION Spec
CONSTANTS
  Versions = {v1, v2}
  Configs = {c1, c2}
  Requests = {r1, r2}
  None = None
SYMMETRY Symmetry
INVARIANTS OnePublished CurrentIsPublished
PROPERTY ReleasesFrozen
