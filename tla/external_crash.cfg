SPECIFICATION MCSpec
CONSTANTS
  NoWorker = NoWorker
  NoTransfer = NoTransfer
  NoJob = NoJob
  a1 = a1
  Opening <- MCOpening
  Wallet = {a1}
  Amount = {2}
  Ref = {r1}
  Worker = {w1}
  Resolver = {w1}
  Kinds = {"hold", "webhook"}
  Faults = {"rollback"}
  MaxDispatch = 2
  Mixes <- OneAndLost
INVARIANT DispatchedOnce
CHECK_DEADLOCK FALSE
