SPECIFICATION FairSpec
CONSTANTS
  LastDay = 3
  Totals <- SomeTotals
  Pnls <- SomePnls
  PnlBound = 8
  DailyLimit = 5
  DrawdownLimit = 10
  Faults = TRUE
  Restarts = TRUE
  NoPeak = NoPeak
INVARIANT TypeOK
 
 
PROPERTY PauseHoldsToday
PROPERTY LimitPauseExpires
