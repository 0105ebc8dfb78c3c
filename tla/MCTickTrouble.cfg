SPECIFICATION Spec
CONSTANTS
  Base = 10
  Sides <- Long
  Events <- AllEvents
  MaxOpen = 1
  Trouble <- Troubles
  Bound = 3
INVARIANT TypeOK
 
INVARIANT PositionWhole
PROPERTY PositionLeavesByTrade
