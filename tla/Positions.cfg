SPECIFICATION PositionSpec
CONSTANTS
  Order = {1, 2, 3}
  SideOf <- MCSideOf
  Size <- MCSize
  Price <- MCPrice
  Untimed = {2}
  MaxTime = 3
  Cent = 6
INVARIANTS
  QuantityIsNet
  AverageWithinPrices
  AverageIsMoving
  AverageSnaps
CHECK_DEADLOCK FALSE
