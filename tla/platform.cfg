SPECIFICATION MCSpec
CONSTANTS
  w1 = w1  w2 = w2  w3 = w3  k1 = k1  k2 = k2  r1 = r1  r2 = r2  x1 = x1  x2 = x2
  q1 = q1  q2 = q2  p1 = p1  p2 = p2
  Nothing = Nothing  NoRecord = NoRecord  NoJournal = NoJournal  Nobody = Nobody
  Worker = {w1, w2, w3}
  Key = {k1, k2}
  Ref = {r1, r2}
  Account = {x1, x2}
  Payload <- MCPayload
  Batch <- MCBatch
  Before <- MCBefore
  MaxConnections = 2
  ProviderCalls = {1, 2, 3}
  PaymentForms <- MCForms
  FormBatches <- MCFormBatches
  PayeeAccounts = {"first", "second"}
  PayeeRecipients = {"one", "two"}
  TokenLifetime = 3  TokenMargin = 1  CallTimeout = 1  LastTick = 4
  HookEndpoints = {"e1", "e2"}
  HookEvents = {"v1"}
  PollLoops = {q1, q2}
  Promotions = {p1, p2}
  HookAttempts = 2  HookLosses = 1
  People = {"ann", "bob", "root"}
  Staff = {"root"}
  Organizations = {"o1", "o2", "o3"}
  Slugs = {"s1", "s2", "s3"}
  TeamProjects = {"p1", "p2"}
  TeamKeys = {"k1", "k2"}
  TeamRequests = {q1, q2}
  TeamOps <- MCTeamOps
  TeamStarts <- MCTeamStarts
  TestCustomers = {"c1", "c2"}
  TestWallets = {"a1", "a2"}
  TestOwner <- MCTestOwner
  TestFundings = {"f1", "f2", "f3"}
  TestRequests = {q1, q2}
  TestOps <- MCTestOps
  TestStarts <- MCTestStarts
  TestCap = 1
  TestEnvironment = "test"
  ListWalks = {"entries", "transfers", "accounts", "customers"}
  ListReports <- MCListReports
  PageSizes = {1, 2}
  RowBound = 4  AddBound = 1
  ConsoleProjects = {1, 2}
  ConsoleLive = {2}
  ConsoleTour = {"overview", "customers", "customer", "settings"}
  ConsoleTabs = TRUE
  ReadBound = 1  ListBound = 1
  PayAccounts = {1}
  PayAmounts = {1, 2}
  DrawerBound = 2
INVARIANTS
  TypesOK
  SuccessIsDurable
  RecordBacked
  PayoutsAreRecorded
  PaidAndCounted
  TokensAreValid
  DeliveredWasAccepted
  PendingHasJob
  NothingHalfDone
  TenantsApart
  FundingNearCap
  ReadsAreRight
  ActsOnItsPage
  PageTellsTruth
  ReceiptIsOwn
PROPERTIES
  ChangesAreAuthorized
  NoWalletSurvives
SYMMETRY Symmetry
CHECK_DEADLOCK FALSE
