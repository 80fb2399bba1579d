SPECIFICATION MCSpec
CONSTANTS
  NoWorker = NoWorker
  NoTransfer = NoTransfer
  NoJob = NoJob
  a1 = a1
  Opening <- MCOpening
  Wallet = {a1, a2}
  Amount = {2}
  Ref = {r1, r2}
  Worker = {w1, w2}
  Resolver = {w2}
  Kinds = {"hold", "webhook", "simulate"}
  Faults = {"timeout", "network", "rollback"}
  MaxDispatch = 1
  Mixes <- TwoOrLost
INVARIANTS
  NoOverdraft
  PostingsMatchStatus
  ProcessedEventsResolve
PROPERTIES
  HoldsInEscrow
  DriftsAreCopied
SYMMETRY Symmetry
CHECK_DEADLOCK FALSE
