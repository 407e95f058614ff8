CONSTANTS
  Events = {1, 2, 3}
  Consumers = {c1, c2}
  Slots = {1}
  Malformed = {2}
  Orderless = {3}
  MaxRetries = 1
  DeliveryLimit = 1
  MaxFaults = 2
  MaxCopies = 1
SPECIFICATION FairSpec
INVARIANTS
  NoMessageLost
  ProcessedMeansShipped
  ConfirmationOwed
  NothingForMissingOrders
PROPERTIES
  EventuallyFulfilled
CHECK_DEADLOCK FALSE
