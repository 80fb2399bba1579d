SPECIFICATION MCSpec
CONSTANTS
  NoWorker = NoWorker
  NoJournal = NoJournal
  NoJob = NoJob
  p1 = p1
  p2 = p2
  Project = {p1, p2}
  projectOf <- MCProjectOf
  Opening <- MCOpening
  Worker = {w1, w2, w3}
  Account = {1, 2}
  Base = {x}
  MaxDepth = 2
  Amount = {2}
  FundingCap = 2
  Kinds = {"transfer", "internal", "reverse", "fund", "status"}
INVARIANTS
  TypeOK
  NoOverdraft
  DeadlockFree
  ReversalsPaired
  Balanced
PROPERTIES
  PostedIsFinal
  ActsAtomically
  DriftsAreLostUpdates
SYMMETRY WorkerSymmetry
CHECK_DEADLOCK FALSE
