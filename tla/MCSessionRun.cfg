SPECIFICATION FairSpec
CONSTANTS
  s1 = s1
  s2 = s2
  Readers <- TwoSessions
  Ttl = 1
  MaxAge = 2
  Faults = TRUE
  NoAge = NoAge
INVARIANT HaltTradesOnlyBlind
 
INVARIANT NeverYounger
PROPERTY GoesOnByRecentAnswer
PROPERTY HaltClears
