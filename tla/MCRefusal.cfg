SPECIFICATION CheckoutSpec
CONSTANTS
  Requests <- MCRequests
  Keys = {"a", "b", "c"}
  Bodies <- MCBodies
  Products = {1, 2, 3, 4}
  Catalog = {1, 2, 3}
  Users = {"ann", "bob", "cat"}
  Accounts = {"ann", "cat"}
  KeyOf <- MCKeyOf
  BodyOf <- MCBodyOf
  BuyerOf <- MCBuyerOf
  Quantity <- MCQuantity
  Price <- MCPrice
  InitialStock <- MCStock
  InitialBalance <- MCBalance
  MaxPrunes = 1
  MaxLost = 2
INVARIANT RefusedForAnotherBody
CHECK_DEADLOCK FALSE
