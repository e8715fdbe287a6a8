SPECIFICATION Spec
CONSTANTS
  Versions = {v1, v2}
  Configs = {c1, c2}
  Requests = {r1}
  None = None
PROPERTY ArchivedFinal
