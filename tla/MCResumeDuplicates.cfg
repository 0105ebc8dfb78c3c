SPECIFICATION Spec
CONSTANTS
  s1 = s1
  s2 = s2
  s3 = s3
  u1 = u1
  u2 = u2
  a = a
  b = b
  t1 = t1
  t2 = t2
  r1 = r1
  r2 = r2
  NoTask = NoTask
  NoRequest = NoRequest
  NoSession = NoSession
  NoSymbol = NoSymbol
  Faults = FALSE
  KeyRotation = FALSE
  NewTokens <- ValidTokens
  Users <- OneUser
  Owner <- SameOwner
  Sessions <- TwoSessions
  Symbols <- OneSymbol
  Tasks <- TwoTasks
  Requests <- OneRequest
  Endpoints <- StopAndResume
SYMMETRY TaskSymmetry
INVARIANT UniqueLive
