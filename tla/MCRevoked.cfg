SPECIFICATION Spec
CONSTANTS
  Pods = {"p1", "p2"}
  Pairs = {1, 2}
  Families = {1}
  Calls = {"c1", "c2"}
INVARIANTS RevokedFamilyIsDead
CHECK_DEADLOCK FALSE
