SPECIFICATION Spec
CONSTANTS
  Worker = {w1}
  Key = {k1}
  Ref = {r1}
  Kinds = {"initiate", "sync", "webhook", "reconcile"}
  Faults = {"network"}
  Identified = {r1}
  NoTransfer = NoTransfer
  NoRecord = NoRecord
  NoKey = NoKey
  NoJob = NoJob
INVARIANT FailedMeansNotPaid
CHECK_DEADLOCK FALSE
