SPECIFICATION FairSpec
CONSTANTS
  s1 = s1
  s2 = s2
  s3 = s3
  u1 = u1
  u2 = u2
  a = a
  b = b
  t1 = t1
  t2 = t2
  r1 = r1
  r2 = r2
  NoTask = NoTask
  NoRequest = NoRequest
  NoSession = NoSession
  NoSymbol = NoSymbol
  Faults = FALSE
  KeyRotation = TRUE
  NewTokens <- ValidTokens
  Users <- OneUser
  Owner <- SameOwner
  Sessions <- OneSession
  Symbols <- OneSymbol
  Tasks <- TwoTasks
  Requests <- OneRequest
  Endpoints <- Paired
INVARIANT TypeOK
INVARIANT LiveStatusHasTask
PROPERTY StopStays
PROPERTY DeactivationTakesEffect
