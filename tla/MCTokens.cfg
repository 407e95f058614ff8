SPECIFICATION Spec
CONSTANTS
  Pods = {"p1", "p2"}
  Pairs = {1, 2, 3}
  Families = {1}
  Calls = {"c1", "c2"}
INVARIANTS OneSuccessor RevocationReaches RefusedForCause SomeCallGoesOn
CHECK_DEADLOCK FALSE
