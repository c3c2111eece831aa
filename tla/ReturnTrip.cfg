SPECIFICATION Spec
CONSTANTS
  bad = bad
  d1 = d1
  d2 = d2
  NoTarget = NoTarget
  Targets = {d1, d2}
  Unsafe = {bad}
  MaxReplies = 3
  MaxApplied = 2
SYMMETRY Symmetry
INVARIANTS
  TypeOK
  DeparturesAccounted
