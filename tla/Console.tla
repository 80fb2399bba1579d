-------------------------------- MODULE Console --------------------------------
(***************************************************************************)
(* The developer console in one tab of the browser: the session, the       *)
(* project remembered in localStorage, the layout that looks up the        *)
(* project of the URL, and the page in it, which loads its lists and lets  *)
(* the user act on them.  Every request carries the remembered project in  *)
(* a header, whatever project the page asks for; calls are answered in any *)
(* order, and also after the page that made them is gone.                  *)
(***************************************************************************)
EXTENDS Integers, Sequences, FiniteSets, FiniteSetsExt

CONSTANTS
  Projects,     \* projects, the newer the greater
  LiveProjects, \* those of the live environment
  Tour,         \* the pages of a project the user visits
  OtherTabs,    \* whether the console is open in another tab too
  MaxReads,     \* loads of a page under way at once, a bound
  MaxLists      \* lists of projects awaited at once, a bound

VARIABLES
  server,    \* the user's projects, and the ids not used yet
  session,   \* "out"; "me", "boot", "login": being restored or opened; "in"
  stored,    \* localStorage: selectedProjectId
  selected,  \* AppContext: selectedProjectId
  projects,  \* AppContext: projects
  env,       \* AppContext: environment
  route,     \* the page, the project in its URL and the project of the row it is about
  layout,    \* Layout: the details awaited, loadingProject, projectError
  late,      \* details awaited by a Layout that is gone
  lists,     \* lists of projects awaited, and what is done with the answer
  view,      \* the page: isLoading, error, isSubmitting, and <<list, project>> shown
  reads,     \* rounds of the page's loads awaited
  acted,     \* ghost: what the last action changed, "page" or "other": the page's project or not
  hurried    \* ghost: the user moved on while an answer could still move the console

vars == <<server, session, stored, selected, projects, env, route, layout, late, lists,
          view, reads, acted, hurried>>

NoProject == 0
Newest(ps) == IF ps = {} THEN NoProject ELSE Max(ps)

-----------------------------------------------------------------------------
(* The pages.  A load is a sequence of rounds of requests; a request names *)
(* its project in the path, in a header of its own, by the remembered or   *)
(* the selected project alone, or asks for one row by its id.              *)

Read(list, scope) == [list |-> list, scope |-> scope, own |-> FALSE, lenient |-> FALSE]
Path(list) == Read(list, "path")
Header(list) == Read(list, "header")
Stored(list) == Read(list, "stored")
Selected(list) == Read(list, "selected")
Row(list) == Read(list, "row")
\* The page keeps only the rows of its own project.
Own(read) == [read EXCEPT !.own = TRUE]
\* Its failure is caught and the load goes on.
Lenient(read) == [read EXCEPT !.lenient = TRUE]

OverviewLoads ==
  <<{Path("project")}, {Path("keys")}, {Lenient(Stored("endpoints"))},
    {Path("metrics"), Own(Stored("transfers")), Own(Stored("logs"))}>>
ChecklistLoads == <<{Path("keys")}, {Path("metrics")}, {Own(Stored("logs"))}>>
QuickstartLoads == <<{Path("project")}>> \o ChecklistLoads
CustomersLoads == <<{Header("customers")}>>
CustomerDetailsLoads == <<{Row("customer"), Header("accounts"), Own(Header("transfers"))}>>
AccountsLoads == <<{Header("accounts"), Header("customers")}>>
\* An account of another project is refused by the page itself.
AccountDetailsLoads == <<{Own(Row("account"))}>>
TransfersLoads == <<{Stored("transfers"), Own(Header("accounts"))}>>
\* The list of transactions is the list of transfers by another path.
TransactionsLoads == <<{Own(Header("transfers"))}>>
TransactionDetailsLoads == <<{Row("transfer")}, {Lenient(Row("journal"))}>>
LedgerLoads == <<{Stored("accounts")}, {Lenient(Stored("entries"))}>>
WebhooksLoads == <<{Header("endpoints")}, {Lenient(Header("deliveries"))}>>
LogsLoads == <<{Stored("logs")}>>
LogDetailsLoads == <<{Row("log")}>>
ApiKeysLoads == <<{Path("keys")}>>
SandboxLoads == <<{Stored("accounts"), Stored("transfers")}, {Lenient(Stored("entries"))}>>
DocsLoads == <<{Selected("keys"), Selected("project")}>>
\* The settings are those of the selected project, taken from the list the console has.
SettingsLoads == << >>

(* What the user is offered while a page loads, when it failed, and when   *)
(* it is shown: "create" under the project of the header, "change" a row   *)
(* that is shown, a "key" of the project of the path, "save" or "delete"   *)
(* the selected project, "open" the details of a row.                      *)

Screen(loading, error, shown) == [loading |-> loading, error |-> error, shown |-> shown]
Always(acts) == Screen(acts, acts, acts)
Finally(acts) == Screen({}, {}, acts)

OverviewScreen == Finally({"key", "open"})
QuickstartScreen == Always({})
CustomersScreen == Screen({"create"}, {"create"}, {"create", "open"})
CustomerDetailsScreen == Finally({"change", "open"})
AccountsScreen == Screen({"change"}, {"change"}, {"change", "open"})
AccountDetailsScreen == Finally({"change"})
TransfersScreen == Screen({"change"}, {"change"}, {"change", "open"})
TransactionsScreen == Finally({"open"})
TransactionDetailsScreen == Finally({"change"})
LedgerScreen == Always({})
WebhooksScreen == Screen({"create"}, {"create"}, {"create", "change"})
LogsScreen == Screen({"open"}, {}, {"open"})
LogDetailsScreen == Finally({"open"})
ApiKeysScreen == Screen({"key"}, {"key"}, {"key", "change"})
SandboxScreen == Screen({}, {"create", "change"}, {"create", "change"})
DocsScreen == Always({"create"})
SettingsScreen == Always({"save", "delete"})

PageNames ==
  {"overview", "quickstart", "customers", "customer", "accounts", "account", "transfers",
   "transactions", "transaction", "ledger", "webhooks", "logs", "log", "keys", "sandbox",
   "docs", "settings"}

LoadsOf(page) ==
  CASE page = "overview" -> OverviewLoads
    [] page = "quickstart" -> QuickstartLoads
    [] page = "customers" -> CustomersLoads
    [] page = "customer" -> CustomerDetailsLoads
    [] page = "accounts" -> AccountsLoads
    [] page = "account" -> AccountDetailsLoads
    [] page = "transfers" -> TransfersLoads
    [] page = "transactions" -> TransactionsLoads
    [] page = "transaction" -> TransactionDetailsLoads
    [] page = "ledger" -> LedgerLoads
    [] page = "webhooks" -> WebhooksLoads
    [] page = "logs" -> LogsLoads
    [] page = "log" -> LogDetailsLoads
    [] page = "keys" -> ApiKeysLoads
    [] page = "sandbox" -> SandboxLoads
    [] page = "docs" -> DocsLoads
    [] page = "settings" -> SettingsLoads

ScreenOf(page) ==
  CASE page = "overview" -> OverviewScreen
    [] page = "quickstart" -> QuickstartScreen
    [] page = "customers" -> CustomersScreen
    [] page = "customer" -> CustomerDetailsScreen
    [] page = "accounts" -> AccountsScreen
    [] page = "account" -> AccountDetailsScreen
    [] page = "transfers" -> TransfersScreen
    [] page = "transactions" -> TransactionsScreen
    [] page = "transaction" -> TransactionDetailsScreen
    [] page = "ledger" -> LedgerScreen
    [] page = "webhooks" -> WebhooksScreen
    [] page = "logs" -> LogsScreen
    [] page = "log" -> LogDetailsScreen
    [] page = "keys" -> ApiKeysScreen
    [] page = "sandbox" -> SandboxScreen
    [] page = "docs" -> DocsScreen
    [] page = "settings" -> SettingsScreen

Details == {"customer", "account", "transaction", "log"}
\* They load again when the selected project changes, and not before there is one.
Follows == {"ledger", "sandbox", "docs"}
\* The details a row of each page is opened in.
Opens == [overview |-> {"transaction"}, customers |-> {"customer"},
          customer |-> {"account", "transaction"}, accounts |-> {"account", "customer"},
          transfers |-> {"transaction"}, transactions |-> {"transaction"}, logs |-> {"log"},
          log |-> {"customer", "account"}]

-----------------------------------------------------------------------------
(* What is on the screen.                                                  *)

At(page, project, about) == [page |-> page, project |-> project, about |-> about]
LoginPage == At("login", NoProject, NoProject)
ProjectsPage == At("projects", NoProject, NoProject)
OnboardingPage == At("onboarding", NoProject, NoProject)
OverviewOf(p) == At("overview", p, NoProject)
SettingsOf(p) == At("settings", p, NoProject)

InLayout(r) == r.page \notin {"login", "onboarding"}
Blank == [loading |-> FALSE, error |-> FALSE, busy |-> FALSE, rows |-> {}]
Opening(page) == [Blank EXCEPT !.loading = LoadsOf(page) # << >>]

\* The layout shows the page: the session is open, the project was found and is a test one.
Outlet ==
  /\ session = "in"
  /\ route.page \in PageNames
  /\ ~layout.loading /\ ~layout.error
  /\ env = "test"

Starts ==
  /\ LoadsOf(route.page) # << >>
  /\ route.page \in Follows => selected # NoProject
Round(k) == [round |-> k, from |-> stored, selected |-> selected]
Load == Round(1)

\* The page is taken away, put up and loaded, loaded again as the selected project
\* changed, or stays as it is.
Render ==
  IF ~Outlet' THEN view' = Blank /\ reads' = {}
  ELSE IF ~Outlet \/ route' # route
    THEN view' = Opening(route'.page) /\ reads' = IF Starts' THEN {Load'} ELSE {}
  ELSE IF route.page \in Follows /\ selected' # selected /\ selected' # NoProject
    THEN view' = [view EXCEPT !.loading = TRUE, !.error = FALSE] /\ reads' = reads \cup {Load'}
  ELSE UNCHANGED <<view, reads>>

\* Every project keeps what it is; the layout asks for the details of a project it is new to.
NewLayout == [pending |-> {}, loading |-> FALSE, error |-> FALSE]

Travel(r) ==
  /\ route' = r
  /\ IF ~InLayout(r) THEN layout' = NewLayout /\ late' = late \cup layout.pending
     ELSE /\ UNCHANGED late
          /\ IF r.project = NoProject THEN layout' = [layout EXCEPT !.loading = FALSE]
             ELSE IF r.project = route.project THEN UNCHANGED layout
             ELSE layout' = [pending |-> layout.pending \cup {r.project},
                             loading |-> TRUE, error |-> FALSE]

\* Answers that will still remember or open a project, other than p's own details.
Unsettled(p, calls) == (layout.pending \cup late) \ {p} # {} \/ calls # {}

SetSelected(p) == stored' = p /\ selected' = p

\* What the proofs assume of the constants.
ConstantsOK ==
  /\ IsFiniteSet(Projects) /\ Projects \subseteq Nat \ {NoProject}
  /\ Tour \subseteq PageNames

-----------------------------------------------------------------------------
(* The session: AppContext.                                                *)

\* A tab is opened, or loaded anew, with what localStorage kept.
Init ==
  /\ \E unused \in SUBSET Projects : server = [own |-> Projects \ unused, unused |-> unused]
  /\ stored \in server.own \cup {NoProject}
  /\ \/ session = "out" /\ route = LoginPage
     \/ session = "me" /\ route \in {ProjectsPage} \cup {OverviewOf(p) : p \in server.own}
  /\ selected = NoProject /\ projects = {} /\ env = "test"
  /\ layout = NewLayout /\ late = {} /\ lists = {}
  /\ view = Blank /\ reads = {}
  /\ acted = "page" /\ hurried = FALSE

\* The project the console turns to once it knows the list.
Chosen(list) == IF stored \in list THEN stored ELSE Newest(list)

ClearSession ==
  /\ session' = "out" /\ SetSelected(NoProject) /\ projects' = {}
  /\ Travel(LoginPage)

\* initAuth: who is it, then which projects; whatever fails ends the session.
InitAuthAnswered ==
  /\ session = "me"
  /\ session' = "boot"
  /\ UNCHANGED <<server, stored, selected, projects, env, route, layout, late, lists, view,
                 reads, acted, hurried>>

InitProjectsAnswered ==
  /\ session = "boot"
  /\ session' = "in"
  /\ projects' = server.own
  /\ IF server.own = {} THEN UNCHANGED <<stored, selected>> ELSE SetSelected(Chosen(server.own))
  /\ layout' = IF route.project = NoProject THEN NewLayout
               ELSE [pending |-> {route.project}, loading |-> TRUE, error |-> FALSE]
  /\ UNCHANGED <<server, env, route, late, lists, acted, hurried>>
  /\ Render

InitAuthFails ==
  /\ session \in {"me", "boot"}
  /\ ClearSession
  /\ UNCHANGED <<server, env, lists, acted, hurried>>
  /\ Render

\* The user logs in and is sent to the onboarding, behind a spinner until the list is there.
Login ==
  /\ session = "out"
  /\ session' = "login"
  /\ Travel(OnboardingPage)
  /\ UNCHANGED <<server, stored, selected, projects, env, lists, acted, hurried>>
  /\ Render

\* Onboarding asks on its own whether there are projects.
ListCall(then, p) == [then |-> then, project |-> p, list |-> server.own]
Ask(then, p) == lists' = lists \cup {ListCall(then, p)}

LoginProjectsAnswered ==
  /\ session = "login"
  /\ session' = "in"
  /\ \/ /\ projects' = server.own
        /\ IF server.own = {} THEN UNCHANGED <<stored, selected>>
           ELSE SetSelected(Newest(server.own))
     \/ UNCHANGED <<projects, stored, selected>>  \* the list could not be had
  /\ Ask("check", NoProject)
  /\ UNCHANGED <<server, env, route, layout, late, acted, hurried>>
  /\ Render

Logout ==
  /\ session = "in"
  /\ ClearSession
  /\ UNCHANGED <<server, env, lists, acted, hurried>>
  /\ Render

\* A call is answered with 401: the session is dropped and the whole console loaded anew.
Expired ==
  /\ session = "in"
  /\ layout.pending \cup late # {} \/ lists # {} \/ reads # {}
  /\ session' = "out" /\ SetSelected(NoProject) /\ projects' = {} /\ env' = "test"
  /\ route' = LoginPage /\ layout' = NewLayout /\ late' = {} /\ lists' = {}
  /\ UNCHANGED <<server, acted, hurried>>
  /\ Render

-----------------------------------------------------------------------------
(* Going from project to project.                                          *)

Amid(calls, r) ==
  /\ Travel(r)
  /\ hurried' = (hurried \/ Unsettled(r.project, calls))

Go(r) == Amid(lists, r)

\* The switcher of the header: the layout is to remember the project, once it found it.
SwitchProject(p) ==
  /\ session = "in" /\ InLayout(route) /\ ~layout.error
  /\ p \in projects
  /\ Go(OverviewOf(p))
  /\ UNCHANGED <<server, session, stored, selected, projects, env, lists, acted>>
  /\ Render

\* The list of projects: the project is remembered at once.
SelectProject(p) ==
  /\ session = "in" /\ route = ProjectsPage
  /\ p \in projects
  /\ SetSelected(p)
  /\ Go(OverviewOf(p))
  /\ UNCHANGED <<server, session, projects, env, lists, acted>>
  /\ Render

\* The sidebar, and the way back to the projects.
Visit(page) ==
  /\ session = "in" /\ InLayout(route)
  /\ IF page = "projects" THEN Go(ProjectsPage)
     ELSE /\ route.project # NoProject /\ ~layout.error
          /\ Go(At(page, route.project, NoProject))
  /\ UNCHANGED <<server, session, stored, selected, projects, env, lists, acted>>
  /\ Render

SetEnvironment(e) ==
  /\ session = "in" /\ route.project # NoProject
  /\ env' = e
  /\ UNCHANGED <<server, session, stored, selected, projects, route, layout, late, lists,
                 acted, hurried>>
  /\ Render

\* Mutant of Remembered: the layout shows the project and leaves the header as it was.
RememberedNot(p) == UNCHANGED <<stored, selected>>

\* fetchProjectDetails is answered; what a Layout that is gone asked for is remembered too.
Remembered(p) == SetSelected(p)

DetailsAnswered(p) ==
  /\ p \in (layout.pending \cup late) \cap server.own
  /\ Remembered(p)
  /\ env' = IF p \in LiveProjects THEN "live" ELSE "test"
  /\ IF p \in layout.pending
     THEN layout' = [layout EXCEPT !.pending = @ \ {p}, !.loading = FALSE] /\ UNCHANGED late
     ELSE UNCHANGED layout /\ late' = late \ {p}
  /\ UNCHANGED <<server, session, projects, route, lists, acted, hurried>>
  /\ Render

DetailsFail(p) ==
  /\ \/ /\ p \in layout.pending
        /\ layout' = [pending |-> layout.pending \ {p}, loading |-> FALSE, error |-> TRUE]
        /\ UNCHANGED late
     \/ p \in late /\ late' = late \ {p} /\ UNCHANGED layout
  /\ UNCHANGED <<server, session, stored, selected, projects, env, route, lists, acted, hurried>>
  /\ Render

\* Another tab of the browser remembers another project; at most once, a bound.
OtherTab(p) ==
  /\ OtherTabs /\ ~hurried /\ p \in server.own /\ p # stored
  /\ stored' = p
  /\ hurried' = TRUE
  /\ UNCHANGED <<server, session, selected, projects, env, route, layout, late, lists, view,
                 reads, acted>>

-----------------------------------------------------------------------------
(* The projects themselves.                                                *)

\* A new project: the list is asked for, then the project is opened, or kept for the
\* last step of the onboarding.
CreateProject(p) ==
  /\ session = "in" /\ route \in {ProjectsPage, OnboardingPage}
  /\ p \in server.unused /\ p > Newest(server.own)
  /\ server' = [own |-> server.own \cup {p}, unused |-> server.unused \ {p}]
  /\ Cardinality(lists) < MaxLists
  /\ lists' = lists \cup {[then |-> IF route = ProjectsPage THEN "open" ELSE "keep",
                           project |-> p, list |-> server'.own]}
  /\ route' = IF route = ProjectsPage THEN route ELSE [route EXCEPT !.about = p]
  /\ UNCHANGED <<session, stored, selected, projects, env, layout, late, view, reads, acted,
                 hurried>>

FinishOnboarding ==
  /\ session = "in" /\ route.page = "onboarding" /\ route.about # NoProject
  /\ Go(At("quickstart", route.about, NoProject))
  /\ UNCHANGED <<server, session, stored, selected, projects, env, lists, acted>>
  /\ Render

\* What refreshProjects makes of the list, and its caller of that.
ListAnswered(c, list) ==
  /\ c \in lists /\ list \in {c.list, server.own}
  /\ lists' = lists \ {c}
  /\ IF c.then = "check"
     THEN /\ UNCHANGED projects
          /\ IF list = {} THEN UNCHANGED <<stored, selected>> ELSE SetSelected(Newest(list))
     ELSE /\ projects' = list
          /\ SetSelected(IF c.then \in {"open", "keep"} THEN c.project ELSE Chosen(list))
  /\ IF session = "in" /\ c.then = "check" /\ list # {}
       THEN Amid(lists \ {c}, OverviewOf(Newest(list)))
     ELSE IF session = "in" /\ c.then = "open" THEN Amid(lists \ {c}, OverviewOf(c.project))
     ELSE IF session = "in" /\ c.then = "leave" THEN Amid(lists \ {c}, ProjectsPage)
     ELSE UNCHANGED <<route, layout, late, hurried>>
  /\ UNCHANGED <<server, session, env, acted>>
  /\ Render

\* refreshProjects keeps its failure to itself: its caller goes on.
ListFails(c) ==
  /\ c \in lists
  /\ lists' = lists \ {c}
  /\ IF c.then \in {"open", "keep"} THEN SetSelected(c.project) ELSE UNCHANGED <<stored, selected>>
  /\ IF session = "in" /\ c.then = "open" THEN Amid(lists \ {c}, OverviewOf(c.project))
     ELSE IF session = "in" /\ c.then = "leave" THEN Amid(lists \ {c}, ProjectsPage)
     ELSE UNCHANGED <<route, layout, late, hurried>>
  /\ UNCHANGED <<server, session, projects, env, acted>>
  /\ Render

-----------------------------------------------------------------------------
(* The page.                                                               *)

Status == IF view.loading THEN "loading" ELSE IF view.error THEN "error" ELSE "shown"
Offers(act) == Outlet /\ act \in ScreenOf(route.page)[Status]

PageOnly == UNCHANGED <<session, stored, projects, env, route, layout, late, hurried>>

\* The header a request went out with, and whether the server has what it asks for.
Scope(read, c) ==
  IF read.scope = "path" \/ (read.scope = "header" /\ c.from = NoProject) THEN route.project
  ELSE IF read.scope = "selected" THEN c.selected ELSE c.from

Succeeds(read, c) ==
  /\ Scope(read, c) \in server.own
  /\ read.scope = "row" => c.from = route.about /\ (read.own => c.from = route.project)

\* Mutant of Kept: a list the page should filter is shown as it comes.
KeptAll(read, c) == {Scope(read, c)}

Kept(read, c) == IF read.own THEN {Scope(read, c)} \cap {route.project} ELSE {Scope(read, c)}

Loads == LoadsOf(route.page)

\* A round is answered: its lists are shown and the next round goes out.
ReadAnswered(c) ==
  /\ c \in reads
  /\ \E failed \in SUBSET {read \in Loads[c.round] : read.lenient} :
       /\ \A read \in Loads[c.round] \ failed : Succeeds(read, c)
       /\ view' = [view EXCEPT
            !.rows = {x \in @ : \A read \in Loads[c.round] \ failed : read.list # x[1]}
                     \cup UNION {{read.list} \X Kept(read, c) :
                                  read \in Loads[c.round] \ failed},
            !.loading = @ /\ c.round < Len(Loads)]
  /\ reads' = (reads \ {c}) \cup (IF c.round < Len(Loads) THEN {Round(c.round + 1)} ELSE {})
  /\ PageOnly /\ UNCHANGED <<server, selected, lists, acted>>

Ended(failed) == [view EXCEPT !.loading = FALSE, !.error = failed]

ReadFails(c) ==
  /\ c \in reads
  /\ \E read \in Loads[c.round] : ~read.lenient
  /\ reads' = reads \ {c}
  /\ view' = Ended(TRUE)
  /\ PageOnly /\ UNCHANGED <<server, selected, lists, acted>>

LoadAgain(busy) ==
  /\ view' = [view EXCEPT !.loading = TRUE, !.error = FALSE, !.busy = busy]
  /\ reads' = reads \cup {Load}

\* The buttons that load again, the filters, and the polling of what is under way.
Refresh ==
  /\ Outlet /\ Starts /\ Cardinality(reads) < MaxReads
  /\ LoadAgain(view.busy)
  /\ PageOnly /\ UNCHANGED <<server, selected, lists, acted>>

Open(page, x) ==
  /\ Offers("open") /\ page \in Opens[route.page]
  /\ x \in view.rows
  /\ Go(At(page, route.project, x[2]))
  /\ UNCHANGED <<server, session, stored, selected, projects, env, lists, acted>>
  /\ Render

ActOn(project) == acted' = IF project = route.project THEN "page" ELSE "other"

\* A form is sent; its button is off until the answer is here.
Send(project) ==
  /\ ~view.busy
  /\ view' = [view EXCEPT !.busy = TRUE]
  /\ ActOn(project)
  /\ PageOnly /\ UNCHANGED reads

Create ==
  /\ Offers("create")
  /\ LET p == IF stored = NoProject THEN route.project ELSE stored
     IN p \in server.own /\ Send(p)
  /\ UNCHANGED <<server, selected, lists>>

\* A row is found only under its own project.
Change(x) ==
  /\ Offers("change")
  /\ x \in view.rows /\ x[2] = stored /\ x[2] \in server.own
  /\ Send(x[2])
  /\ UNCHANGED <<server, selected, lists>>

MakeKey ==
  /\ Offers("key")
  /\ route.project \in server.own
  /\ Send(route.project)
  /\ UNCHANGED <<server, selected, lists>>

\* The answer to it: the page loads again, or shows what went wrong.
SendAnswered ==
  /\ Outlet /\ view.busy
  /\ \/ Cardinality(reads) < MaxReads /\ Starts /\ LoadAgain(FALSE)
     \/ view' = [view EXCEPT !.busy = FALSE] /\ UNCHANGED reads
  /\ PageOnly /\ UNCHANGED <<server, selected, lists, acted>>

Awaits(then) == \E c \in lists : c.then = then

\* The settings are saved, then the list is asked for.
SaveSettings ==
  /\ Offers("save") /\ Cardinality(lists) < MaxLists /\ ~Awaits("stay")
  /\ selected \in projects \cap server.own
  /\ ActOn(selected)
  /\ Ask("stay", NoProject)
  /\ PageOnly /\ UNCHANGED <<server, selected, view, reads>>

\* The project is gone and forgotten; then the list is asked for, then the page is left.
DeleteProject ==
  /\ Offers("delete") /\ Cardinality(lists) < MaxLists /\ ~Awaits("leave")
  /\ selected \in projects \cap server.own
  /\ server' = [server EXCEPT !.own = @ \ {selected}]
  /\ SetSelected(NoProject)
  /\ lists' = lists \cup {[then |-> "leave", project |-> NoProject, list |-> server'.own]}
  /\ ActOn(selected)
  /\ hurried' = (hurried \/ Unsettled(route.project, lists))
  /\ UNCHANGED <<session, projects, env, route, layout, late, view, reads>>

-----------------------------------------------------------------------------
Next ==
  \/ InitAuthAnswered \/ InitProjectsAnswered \/ InitAuthFails
  \/ Login \/ LoginProjectsAnswered \/ Logout \/ Expired
  \/ \E p \in Projects :
       SwitchProject(p) \/ SelectProject(p) \/ DetailsAnswered(p) \/ DetailsFail(p)
         \/ OtherTab(p) \/ CreateProject(p)
  \/ \E page \in (Tour \ Details) \cup {"projects"} : Visit(page)
  \/ \E e \in {"test", "live"} : SetEnvironment(e)
  \/ FinishOnboarding
  \/ \E c \in lists : ListFails(c) \/ \E list \in {c.list, server.own} : ListAnswered(c, list)
  \/ \E c \in reads : ReadAnswered(c) \/ ReadFails(c)
  \/ Refresh \/ Create \/ MakeKey \/ SendAnswered \/ SaveSettings \/ DeleteProject
  \/ \E page \in Tour \cap Details : \E x \in view.rows : Open(page, x)
  \/ \E x \in view.rows : Change(x)

Spec == Init /\ [][Next]_vars

-----------------------------------------------------------------------------
TypeOK ==
  /\ server \in [own : SUBSET Projects, unused : SUBSET Projects]
  /\ session \in {"out", "me", "boot", "login", "in"}
  /\ stored \in Projects \cup {NoProject} /\ selected \in Projects \cup {NoProject}
  /\ projects \subseteq Projects /\ env \in {"test", "live"}
  /\ route.project \in Projects \cup {NoProject} /\ route.about \in Projects \cup {NoProject}
  /\ layout \in [pending : SUBSET Projects, loading : BOOLEAN, error : BOOLEAN]
  /\ late \subseteq Projects

\* As long as the user waits for the console before going on to another project, what is
\* created or changed on a page of a project is that project's (the interceptor of
\* lib/api.ts, which puts the remembered project in every header, and Layout.tsx, which
\* remembers the project it looked up before its pages appear).
ActsOnItsPage == ~hurried => acted = "page"

\* What the pages say, whoever moves on when: an action belongs to the project of the page
\* (Customers.tsx:123, "Create new customer authoritatively linked to active project context").
LinkedToThePage == acted = "page"

\* Nobody waits for nothing: a spinner of the page, of the layout or of the session is
\* there only while an answer that ends it is awaited (the finally of every loader).
SpinnersEnd ==
  /\ layout.loading => layout.pending # {}
  /\ view.loading => reads # {} \/ lists # {}

\* Lists that name the project in the path, or that the page filters itself, never show
\* rows of another project (Overview.tsx, CustomerDetails.tsx, Transfers.tsx: Section 18 and
\* 21 isolation).
OwnRowsOnly ==
  Outlet => \A x \in view.rows : \A k \in DOMAIN Loads : \A read \in Loads[k] :
    read.list = x[1] /\ (read.own \/ read.scope = "path") => x[2] = route.project

\* The two together: what a page shows is its project's, or is still being loaded.
PageTellsTruth == OwnRowsOnly /\ SpinnersEnd
=============================================================================
