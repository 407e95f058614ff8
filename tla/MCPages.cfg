SPECIFICATION Spec
CONSTANTS
  Callers = {"admin", "owner"}
  Limit = 2
  Window = 3
  MaxDelay = 1
  MaxTime = 6
  MaxOutages = 1
  Ids = {1, 2, 3}
  OwnerOf <- MCOwnerOf
  ActorOf <- MCActorOf
  PageLimit = 1
INVARIANTS LimitHolds WalkMissesNothing
CHECK_DEADLOCK FALSE
