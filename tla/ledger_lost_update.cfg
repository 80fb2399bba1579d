SPECIFICATION MCSpec
CONSTANTS
  NoWorker = NoWorker
  NoJournal = NoJournal
  NoJob = NoJob
  p1 = p1
  p2 = p2
  Project = {p1, p2}
  projectOf <- MCProjectOf
  Opening <- MCOpening
  Worker = {w1, w2}
  Account = {1, 2}
  Base = {x}
  MaxDepth = 1
  Amount = {2}
  FundingCap = 3
  Kinds = {"transfer"}
CHECK_DEADLOCK FALSE
INVARIANT ProjectionOfDistinctWallets
