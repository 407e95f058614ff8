CONSTANTS
  Requests = {1, 2}
  Events = {1, 2}
  Keys = {"a"}
  Bodies = {"one"}
  Products = {1}
  Catalog = {1}
  Users = {"ann"}
  Accounts = {"ann"}
  KeyOf <- MCKeyOf
  BodyOf <- MCBodyOf
  BuyerOf <- MCBuyerOf
  Quantity <- MCQuantity
  Price <- MCPrice
  InitialStock <- MCStock
  InitialBalance <- MCBalance
  MaxPrunes = 1
  MaxLost = 1
  Relays = {r1}
  Consumers = {c1}
  Slots = {1}
  Malformed = {}
  Orderless = {}
  MaxRetries = 1
  DeliveryLimit = 1
  MaxFaults = 1
  Batch = 1
  MaxAttempts = 1
SPECIFICATION BackendFairSpec
INVARIANTS
  ShippedAsSold
  AnsweredIsCarried
PROPERTIES
  ImplementsPromise
  EveryOrderSettled
CHECK_DEADLOCK FALSE
