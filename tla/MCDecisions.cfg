SPECIFICATION DecisionsFairSpec
CONSTANTS
  MaxHold = 4
  Throttle = 2
  Momenta <- SomeMomenta
  Volatilities <- SomeVolatilities
  Pressures <- SomePressures
  Gains <- SomeGains
  OpenCounts <- NoneToTooMany
  Funds <- Funded
INVARIANT TypeOK
INVARIANT NothingOutlivesSwitch
INVARIANT HoldBounded
INVARIANT ExitsNeverCount
INVARIANT GridWithinSlots
INVARIANT SuppressedForReason
PROPERTY LadderEnds
