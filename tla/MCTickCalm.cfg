SPECIFICATION Spec
CONSTANTS
  Base = 10
  Sides <- BothSides
  Events <- Closers
  MaxOpen = 2
  Trouble <- NoTrouble
  Bound = 11
INVARIANT PositionIsExposure
INVARIANT LadderCapped
