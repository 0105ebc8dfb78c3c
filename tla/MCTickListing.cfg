SPECIFICATION Spec
CONSTANTS
  Base = 10
  Sides <- Long
  Events <- Closers
  MaxOpen = 2
  Trouble <- NoListing
  Bound = 7
INVARIANT TradesComplete
