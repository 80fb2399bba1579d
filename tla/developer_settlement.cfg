SPECIFICATION Spec
CONSTANTS
  Worker = {w1, w2, w3}
  Key = {k1}
  Ref = {r1}
  Kinds = {"initiate", "sync", "webhook", "reconcile"}
  Faults = {"timeout", "network", "database", "crash"}
  Identified = {r1}
  NoTransfer = NoTransfer
  NoRecord = NoRecord
  NoKey = NoKey
  NoJob = NoJob
SYMMETRY Symmetry
INVARIANT TypeOK
INVARIANT DispatchedOnce
INVARIANT StatusIsEarned
CHECK_DEADLOCK FALSE
