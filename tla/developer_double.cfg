SPECIFICATION Spec
CONSTANTS
  Worker = {w1, w2}
  Key = {k1}
  Ref = {r1, r2}
  Kinds = {"initiate"}
  Faults = {}
  Identified = {r1}
  NoTransfer = NoTransfer
  NoRecord = NoRecord
  NoKey = NoKey
  NoJob = NoJob
INVARIANT OneDisbursementPerKey
CHECK_DEADLOCK FALSE
