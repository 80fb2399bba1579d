SPECIFICATION Settlement
CONSTANTS
  r1 = r1  r2 = r2  e1 = e1  v1 = v1  w2 = w2  w3 = w3  p1 = p1  p2 = p2  h1 = h1  h2 = h2  h3 = h3
  q1 = q1  q2 = q2  s1 = s1  s2 = s2  x1 = x1  x2 = x2  Nobody = Nobody
  Worker = {w1, w4}
  Key = {k1}
  Ref = {r1, r2}
  Kinds = {"initiate", "sync", "webhook"}
  Faults = {"timeout", "crash"}
  Identified = {r1}
  NoTransfer = NoTransfer
  NoRecord = NoRecord
  NoKey = NoKey
  NoJob = NoJob
INVARIANTS
  ProcessedEventsHold
  FailedMeansNotPaid
  KeyDisbursesOnce
PROPERTIES
  FollowsLifecycle
  
  JobsAreWorkedOff
  RequestsEnd
CHECK_DEADLOCK FALSE
