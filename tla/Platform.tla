-------------------------------- MODULE Platform --------------------------------
(***************************************************************************)
(* The parts around the money side by side: requests under an idempotency  *)
(* key (IdempotentRequests itself), the payment providers (Gateway),       *)
(* outgoing webhooks (Hooks), users and projects (Spaces), a test project  *)
(* (Sandbox), lists and reports (Lists), the browser's console (Screen)    *)
(* and its transfer drawer (Drawer).  No part reads another's state: a     *)
(* behaviour is one part's, told apart by focus; the variables of the      *)
(* others are Nothing, and the requests stay where they begin.             *)
(***************************************************************************)
EXTENDS IdempotentRequests, SequencesExt

CONSTANTS
  ProviderCalls, PaymentForms, FormBatches, PayeeAccounts, PayeeRecipients,
  TokenLifetime, TokenMargin, CallTimeout, LastTick,
  HookEndpoints, HookEvents, PollLoops, Promotions, HookAttempts, HookLosses,
  People, Staff, Organizations, Slugs, TeamProjects, TeamKeys, TeamRequests, TeamOps, TeamStarts,
  TestCustomers, TestWallets, TestOwner, TestFundings, TestRequests, TestOps, TestStarts,
  TestCap, TestEnvironment,
  ListWalks, ListReports, PageSizes, RowBound, AddBound,
  ConsoleProjects, ConsoleLive, ConsoleTour, ConsoleTabs, ReadBound, ListBound,
  PayAccounts, PayAmounts, DrawerBound,
  Nothing

VARIABLES
  focus,                                                       \* the part that runs
  gNow, gCall, gRecipientCache, gHolder, gCachedToken, gPaid, gMetrics, gReply,
  hEndpoint, hRow, hQueue, hDelayed, hDue, hDispatch, hWorker, hPromoter, hAccepted, hLosses,
  sUser, sToken, sSlug, sRole, sProject, sKey, sAudit, sRequest,
  tRow, tGone, tReset, tRecent, tRequest,
  lRows, lReader,
  cServer, cSession, cStored, cSelected, cProjects, cEnv, cRoute, cLayout, cLate, cLists,
  cView, cReads, cActed, cHurried,
  dDrawer, dForm, dWaiting, dLookups, dRequests, dExecuted, dReceipt

gatewayVars == <<gNow, gCall, gRecipientCache, gHolder, gCachedToken, gPaid, gMetrics, gReply>>
hookVars == <<hEndpoint, hRow, hQueue, hDelayed, hDue, hDispatch, hWorker, hPromoter,
              hAccepted, hLosses>>
spaceVars == <<sUser, sToken, sSlug, sRole, sProject, sKey, sAudit, sRequest>>
sandboxVars == <<tRow, tGone, tReset, tRecent, tRequest>>
listVars == <<lRows, lReader>>
screenVars == <<cServer, cSession, cStored, cSelected, cProjects, cEnv, cRoute, cLayout, cLate,
                cLists, cView, cReads, cActed, cHurried>>
drawerVars == <<dDrawer, dForm, dWaiting, dLookups, dRequests, dExecuted, dReceipt>>
allVars == <<focus, vars, gatewayVars, hookVars, spaceVars, sandboxVars, listVars, screenVars,
             drawerVars>>

-----------------------------------------------------------------------------
Gateway == INSTANCE ProviderGateway WITH
  Call <- ProviderCalls, Form <- PaymentForms, Batch <- FormBatches,
  Account <- PayeeAccounts, Recipient <- PayeeRecipients,
  Lifetime <- TokenLifetime, Margin <- TokenMargin, Timeout <- CallTimeout, MaxTime <- LastTick,
  NoAccount <- Nothing, NoRecipient <- Nothing, NoToken <- Nothing,
  now <- gNow, call <- gCall, recipientCache <- gRecipientCache, holder <- gHolder,
  cachedToken <- gCachedToken, paid <- gPaid, metrics <- gMetrics, reply <- gReply

Hooks == INSTANCE WebhookDelivery WITH
  Endpoint <- HookEndpoints, Event <- HookEvents, Worker <- PollLoops, Promoter <- Promotions,
  MaxAttempts <- HookAttempts, MaxLosses <- HookLosses, NoRow <- Nothing, NoJob <- Nothing,
  endpoint <- hEndpoint, row <- hRow, queue <- hQueue, delayed <- hDelayed, due <- hDue,
  dispatch <- hDispatch, worker <- hWorker, promoter <- hPromoter, accepted <- hAccepted,
  losses <- hLosses

Spaces == INSTANCE Workspaces WITH
  User <- People, Admin <- Staff, Organization <- Organizations, Slug <- Slugs,
  Project <- TeamProjects, Key <- TeamKeys, Request <- TeamRequests,
  Op <- TeamOps, Start <- TeamStarts,
  NoSlug <- Nothing, NoProject <- Nothing, NoKey <- Nothing, NoContext <- Nothing,
  user <- sUser, token <- sToken, slug <- sSlug, role <- sRole, project <- sProject,
  key <- sKey, audit <- sAudit, request <- sRequest

Sandbox == INSTANCE TestProject WITH
  Customer <- TestCustomers, Wallet <- TestWallets, Owner <- TestOwner,
  Funding <- TestFundings, Request <- TestRequests, Op <- TestOps, Start <- TestStarts,
  DailyCap <- TestCap, Environment <- TestEnvironment,
  row <- tRow, gone <- tGone, reset <- tReset, recent <- tRecent, request <- tRequest

Lists == INSTANCE Listings WITH
  Walk <- ListWalks, Ask <- ListReports, Limit <- PageSizes, MaxRows <- RowBound,
  MaxAdded <- AddBound, rows <- lRows, reader <- lReader

Screen == INSTANCE Console WITH
  Projects <- ConsoleProjects, LiveProjects <- ConsoleLive, Tour <- ConsoleTour,
  OtherTabs <- ConsoleTabs, MaxReads <- ReadBound, MaxLists <- ListBound,
  server <- cServer, session <- cSession, stored <- cStored, selected <- cSelected,
  projects <- cProjects, env <- cEnv, route <- cRoute, layout <- cLayout, late <- cLate,
  lists <- cLists, view <- cView, reads <- cReads, acted <- cActed, hurried <- cHurried

Drawer == INSTANCE TransferDrawer WITH
  Accounts <- PayAccounts, Amounts <- PayAmounts, MaxSessions <- DrawerBound,
  drawer <- dDrawer, form <- dForm, waiting <- dWaiting, lookups <- dLookups,
  requests <- dRequests, executed <- dExecuted, receipt <- dReceipt

\* What the parts assume of their constants.
ASSUME PartsAssumption ==
  /\ Gateway!ConstantsOK /\ Hooks!ConstantsOK /\ Spaces!ConstantsOK /\ Sandbox!ConstantsOK
  /\ Lists!ConstantsOK /\ Screen!ConstantsOK /\ DrawerBound \in Nat

-----------------------------------------------------------------------------
GatewayOff ==
  /\ gNow = Nothing /\ gCall = Nothing /\ gRecipientCache = Nothing /\ gHolder = Nothing
  /\ gCachedToken = Nothing /\ gPaid = Nothing /\ gMetrics = Nothing /\ gReply = Nothing

HooksOff ==
  /\ hEndpoint = Nothing /\ hRow = Nothing /\ hQueue = Nothing /\ hDelayed = Nothing
  /\ hDue = Nothing /\ hDispatch = Nothing /\ hWorker = Nothing /\ hPromoter = Nothing
  /\ hAccepted = Nothing /\ hLosses = Nothing

SpacesOff ==
  /\ sUser = Nothing /\ sToken = Nothing /\ sSlug = Nothing /\ sRole = Nothing
  /\ sProject = Nothing /\ sKey = Nothing /\ sAudit = Nothing /\ sRequest = Nothing

SandboxOff ==
  /\ tRow = Nothing /\ tGone = Nothing /\ tReset = Nothing /\ tRecent = Nothing
  /\ tRequest = Nothing

ListsOff == lRows = Nothing /\ lReader = Nothing

ScreenOff ==
  /\ cServer = Nothing /\ cSession = Nothing /\ cStored = Nothing /\ cSelected = Nothing
  /\ cProjects = Nothing /\ cEnv = Nothing /\ cRoute = Nothing /\ cLayout = Nothing
  /\ cLate = Nothing /\ cLists = Nothing /\ cView = Nothing /\ cReads = Nothing
  /\ cActed = Nothing /\ cHurried = Nothing

DrawerOff ==
  /\ dDrawer = Nothing /\ dForm = Nothing /\ dWaiting = Nothing /\ dLookups = Nothing
  /\ dRequests = Nothing /\ dExecuted = Nothing /\ dReceipt = Nothing

Parts == {"requests", "gateway", "hooks", "spaces", "sandbox", "lists", "screen", "drawer"}

PlatformInit ==
  /\ focus \in Parts
  /\ Init
  /\ IF focus = "gateway" THEN Gateway!Init ELSE GatewayOff
  /\ IF focus = "hooks" THEN Hooks!Init ELSE HooksOff
  /\ IF focus = "spaces" THEN Spaces!Init ELSE SpacesOff
  /\ IF focus = "sandbox" THEN Sandbox!Init ELSE SandboxOff
  /\ IF focus = "lists" THEN Lists!Init ELSE ListsOff
  /\ IF focus = "screen" THEN Screen!Init ELSE ScreenOff
  /\ IF focus = "drawer" THEN Drawer!Init ELSE DrawerOff

PlatformNext ==
  /\ UNCHANGED focus
  /\ (focus = "requests" /\ Next) \/ (focus # "requests" /\ UNCHANGED vars)
  /\ (focus = "gateway" /\ Gateway!Next) \/ (focus # "gateway" /\ UNCHANGED gatewayVars)
  /\ (focus = "hooks" /\ Hooks!Next) \/ (focus # "hooks" /\ UNCHANGED hookVars)
  /\ (focus = "spaces" /\ Spaces!Next) \/ (focus # "spaces" /\ UNCHANGED spaceVars)
  /\ (focus = "sandbox" /\ Sandbox!Next) \/ (focus # "sandbox" /\ UNCHANGED sandboxVars)
  /\ (focus = "lists" /\ Lists!Next) \/ (focus # "lists" /\ UNCHANGED listVars)
  /\ (focus = "screen" /\ Screen!Next) \/ (focus # "screen" /\ UNCHANGED screenVars)
  /\ (focus = "drawer" /\ Drawer!Next) \/ (focus # "drawer" /\ UNCHANGED drawerVars)

Platform == PlatformInit /\ [][PlatformNext]_allVars

-----------------------------------------------------------------------------
(* The properties of the parts.                                            *)

\* Every part's state is of its type.
TypesOK ==
  /\ TypeOK
  /\ focus = "gateway" => Gateway!TypeOK
  /\ focus = "hooks" => Hooks!TypeOK
  /\ focus = "spaces" => Spaces!TypeOK
  /\ focus = "sandbox" => Sandbox!TypeOK
  /\ focus = "lists" => Lists!TypeOK
  /\ focus = "screen" => Screen!TypeOK
  /\ focus = "drawer" => Drawer!TypeOK

\* Overlapping payouts go out once, to the account asked for, and are counted as they end
\* (PaystackAdapter, MpesaB2CAdapter, ProviderMetricsCollector).
PaidAndCounted == focus = "gateway" => Gateway!PaidAndCounted

\* No request leaves with a token that has expired (MpesaClient.getAccessToken).
TokensAreValid == focus = "gateway" => Gateway!TokensAreValid

\* A delivery shown as delivered was accepted by its receiver (BackgroundWorker).
DeliveredWasAccepted == focus = "hooks" => Hooks!DeliveredWasAccepted

\* No delivery is pending without a job while nothing is lost (WebhookService.dispatch,
\* promoteDelayedJobs).
PendingHasJob == focus = "hooks" => Hooks!PendingHasJob

\* Registrations and administrative actions are done whole or not at all (auth.routes.ts,
\* admin.routes.ts).
NothingHalfDone == focus = "spaces" => Spaces!NothingHalfDone

\* A request is served a project of its user's, in its environment (middleware/auth.ts).
TenantsApart == focus = "spaces" => Spaces!TenantsApart

\* Who changes a project or adds a key to it has a role for it then (project.routes.ts,
\* api-key.routes.ts); revoking a key is left out.
ChangesAreAuthorized == [][focus = "spaces" => Spaces!AuthorizedChange]_allVars

\* Concurrent fundings exceed the daily cap by less than one each (sandbox.service.ts).
FundingNearCap == focus = "sandbox" => Sandbox!FundingNearCap

\* A reset leaves no wallet that its last statement could see (sandbox.service.ts).
NoWalletSurvives == [][focus = "sandbox" => Sandbox!NoneSurvive]_allVars

\* Pages miss no row, figures were right at some moment (the routes that read).
ReadsAreRight == focus = "lists" => Lists!ReadsAreRight

\* A user who waits for the console acts on the project of the page (lib/api.ts, Layout.tsx).
ActsOnItsPage == focus = "screen" => Screen!ActsOnItsPage

\* A page shows its own project's rows, and spinners that end (the pages' loaders).
PageTellsTruth == focus = "screen" => Screen!PageTellsTruth

\* The receipt shown is that of the payment just confirmed (Transfers.tsx).
ReceiptIsOwn == focus = "drawer" => Drawer!ReceiptIsOwn
=============================================================================
