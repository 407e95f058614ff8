CONSTANTS
  Events = {1, 2}
  Relays = {r1, r2}
  MaxRetries = 0
  DeliveryLimit = 0
  MaxFaults = 3
  Batch = 2
  MaxAttempts = 2
SPECIFICATION FairSpec
INVARIANTS
  SettledMeansHandedOver
  DuplicatesOnlyFromFaults
PROPERTIES
  OutcomeIsFinal
  EventuallySettled
CHECK_DEADLOCK FALSE
