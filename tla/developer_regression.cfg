SPECIFICATION Spec
CONSTANTS
  Worker = {w1, w2}
  Key = {k1}
  Ref = {r1}
  Kinds = {"initiate", "sync", "webhook"}
  Faults = {}
  Identified = {r1}
  NoTransfer = NoTransfer
  NoRecord = NoRecord
  NoKey = NoKey
  NoJob = NoJob
PROPERTY TerminalIsFinal
CHECK_DEADLOCK FALSE
