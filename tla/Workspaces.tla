------------------------------- MODULE Workspaces -------------------------------
(***************************************************************************)
(* Users, organizations, projects and API keys: registration and login,    *)
(* the middleware that authenticates and authorizes a request, the routes  *)
(* that change a workspace, and the administrator's switches.  A request   *)
(* checks in one query and changes in a later one; requests interleave     *)
(* between queries, and a request may die with the process.                *)
(***************************************************************************)
EXTENDS Integers, FiniteSets

CONSTANTS
  User,         \* email addresses, registered or not
  Admin,        \* the users whose role column says admin
  Organization, \* organization ids
  Slug,         \* slugs of organizations
  Project,      \* project ids
  Key,          \* API keys: prefix, secret and row
  Request,      \* requests under way together
  Op,           \* what a request may ask for: see OpType
  Start,        \* the workspaces the requests may find: see Init
  NoSlug, NoProject, NoKey, NoContext

VARIABLES
  user,         \* "none", "active" or "suspended"
  token,        \* the users that hold a session token
  slug,         \* per organization; NoSlug before it is created
  role,         \* the membership of a user in an organization, or "none"
  project,      \* organization, environment and status
  key,          \* project, environment, revoked and expired
  audit,        \* administrative actions in AuditLog
  request       \* per request: step, op, what it read last, and its answer

vars == <<user, token, slug, role, project, key, audit, request>>
tenants == <<user, token, slug, role>>

OpName == {"register", "login", "createOrg", "patchOrg", "createProject", "patchProject",
           "deleteProject", "createKey", "revokeKey", "listProjects", "dashboard", "api",
           "toggleUser", "toggleProject", "adminRevoke"}
\* by: the user of the session; the other fields where the route has them.
OpType == [name : OpName, by : User, on : User, org : Organization, slug : Slug,
           project : Project, key : Key, environment : {"test", "live"}]

ProjectType == [org : Organization, environment : {"test", "live"},
                status : {"active", "suspended", "deleted"}]
KeyType == [project : Project, environment : {"test", "live"},
            revoked : BOOLEAN, expired : BOOLEAN, deleted : BOOLEAN]
Role == {"owner", "admin", "developer", "viewer"}
Answer == {"none", "ok", "rejected", "error"}
Context == [project : Project, org : Organization, environment : {"test", "live"}]
RequestType ==
  [step : {"new", "authenticated", "authorized", "named", "read", "written", "serving",
           "done"},
   op : Op, slug : Slug \cup {NoSlug}, saw : {"none", "active", "suspended", "test", "live"},
   context : Context \cup {NoContext}, seen : SUBSET Project, answer : Answer]

\* A workspace the program's own routes leave behind: every user owns one, memberships
\* and slugs belong to organizations that exist, and keys to projects that do.
WellFormed(s) ==
  /\ s.user \in [User -> {"none", "active", "suspended"}] /\ s.token \in SUBSET User
  /\ s.slug \in [Organization -> Slug \cup {NoSlug}]
  /\ s.role \in [Organization -> [User -> Role \cup {"none"}]]
  /\ s.project \in [Project -> ProjectType \cup {NoProject}]
  /\ s.key \in [Key -> KeyType \cup {NoKey}]
  /\ \A u \in User : s.user[u] # "none" => \E o \in Organization : s.role[o][u] = "owner"
  /\ \A o \in Organization : s.slug[o] # NoSlug => \E u \in User : s.role[o][u] = "owner"
  /\ \A o \in Organization, u \in User : s.role[o][u] # "none" => s.slug[o] # NoSlug
  /\ \A o, p \in Organization : s.slug[o] # NoSlug /\ s.slug[o] = s.slug[p] => o = p
  /\ \A k \in Key : s.key[k] # NoKey =>
       /\ s.project[s.key[k].project] # NoProject
       /\ s.key[k].environment = s.project[s.key[k].project].environment

ConstantsOK ==
  /\ Admin \subseteq User /\ Op \subseteq OpType
  /\ NoSlug \notin Slug /\ NoProject \notin ProjectType
  /\ NoKey \notin KeyType /\ NoContext \notin Context
  /\ \A s \in Start : WellFormed(s)

TypeOK ==
  /\ user \in [User -> {"none", "active", "suspended"}]
  /\ token \in SUBSET User
  /\ slug \in [Organization -> Slug \cup {NoSlug}]
  /\ role \in [Organization -> [User -> Role \cup {"none"}]]
  /\ project \in [Project -> ProjectType \cup {NoProject}]
  /\ key \in [Key -> KeyType \cup {NoKey}]
  /\ audit \in SUBSET [by : Admin, did : Op]
  /\ request \in [Request -> RequestType]

Init ==
  /\ \E s \in Start :
       /\ user = s.user
       /\ token = s.token
       /\ slug = s.slug
       /\ role = s.role
       /\ project = s.project
       /\ key = s.key
  /\ audit = {}
  /\ \E op \in [Request -> Op] :
       request = [r \in Request |->
                    [step |-> "new", op |-> op[r], slug |-> NoSlug, saw |-> "none",
                     context |-> NoContext, seen |-> {}, answer |-> "none"]]

-----------------------------------------------------------------------------
At(r, step) == request[r].step = step
OpOf(r) == request[r].op
Is(r, names) == OpOf(r).name \in names

Goes(r, step) == request' = [request EXCEPT ![r].step = step]
Answers(r, answer) ==
  request' = [request EXCEPT ![r] = [@ EXCEPT !.step = "done", !.answer = answer]]

Exists(o) == slug[o] # NoSlug
Lives(p) == project[p] # NoProject /\ project[p].status # "deleted"
KeyLives(k) == key[k] # NoKey /\ ~key[k].deleted

-----------------------------------------------------------------------------
(* Middleware.                                                             *)

Session == OpName \ {"register", "login", "api"}
AdminOp == {"toggleUser", "toggleProject", "adminRevoke"}

\* authenticateUser: the token and the status of its user, read for every request.
AuthenticateUser(r) ==
  LET u == OpOf(r).by IN
  /\ At(r, "new") /\ Is(r, Session)
  /\ IF u \in token /\ user[u] = "active" THEN Goes(r, "authenticated")
     ELSE Answers(r, "rejected")
  /\ UNCHANGED <<tenants, project, key, audit>>

\* authorizeAdmin.
AuthorizeAdmin(r) ==
  /\ At(r, "authenticated") /\ Is(r, AdminOp)
  /\ IF OpOf(r).by \in Admin THEN Goes(r, "authorized") ELSE Answers(r, "rejected")
  /\ UNCHANGED <<tenants, project, key, audit>>

\* The roles a route asks for.
Allowed(name) ==
  CASE name \in {"patchOrg", "deleteProject"} -> {"owner", "admin"}
    [] name \in {"createProject", "patchProject", "createKey", "revokeKey"} ->
         {"owner", "admin", "developer"}
    [] OTHER -> Role

\* requireOrgRole; a membership of an organization that does not exist is none.
RequireOrgRole(r) ==
  /\ At(r, "authenticated") /\ Is(r, {"patchOrg", "createProject"})
  /\ IF role[OpOf(r).org][OpOf(r).by] \in Allowed(OpOf(r).name) THEN Goes(r, "authorized")
     ELSE Answers(r, "rejected")
  /\ UNCHANGED <<tenants, project, key, audit>>

\* Mutant of Member: the membership is not looked up.
AnyUser(r, p) == TRUE
\* The membership of the user in the project's organization.
Member(r, p) == role[project[p].org][OpOf(r).by] \in Allowed(OpOf(r).name)

\* loadAndAuthorizeProject and authorizeApiKeyManagement: the project is read and kept.
LoadAndAuthorizeProject(r) ==
  LET p == OpOf(r).project IN
  /\ At(r, "authenticated")
  /\ Is(r, {"patchProject", "deleteProject", "createKey", "revokeKey"})
  /\ IF Lives(p) /\ Member(r, p)
     THEN request' = [request EXCEPT ![r] = [@ EXCEPT !.step = "authorized",
                                                      !.saw = project[p].environment]]
     ELSE Answers(r, "rejected")
  /\ UNCHANGED <<tenants, project, key, audit>>

Serves(r, p, environment) ==
  request' = [request EXCEPT ![r] =
    [@ EXCEPT !.step = "serving",
              !.context = [project |-> p, org |-> project[p].org, environment |-> environment]]]

\* resolveProjectContext for the console.
ResolveProjectContext(r) ==
  LET p == OpOf(r).project IN
  /\ At(r, "authenticated") /\ Is(r, {"dashboard"})
  /\ IF Lives(p) /\ Member(r, p) THEN Serves(r, p, project[p].environment)
     ELSE Answers(r, "rejected")
  /\ UNCHANGED <<tenants, project, key, audit>>

\* authenticateApiKey: the key and its project are one query.
AuthenticateApiKey(r) ==
  LET k == OpOf(r).key IN
  /\ At(r, "new") /\ Is(r, {"api"})
  /\ IF KeyLives(k) /\ ~key[k].revoked /\ ~key[k].expired
     THEN Serves(r, key[k].project, key[k].environment)
     ELSE Answers(r, "rejected")
  /\ UNCHANGED <<tenants, project, key, audit>>

\* The handler of another module ends.
Served(r) ==
  /\ At(r, "serving")
  /\ Answers(r, "ok")
  /\ UNCHANGED <<tenants, project, key, audit>>

-----------------------------------------------------------------------------
(* Registration, login and organizations.                                  *)

\* The email is looked up, and the password hashed.
LookUpEmail(r) ==
  /\ At(r, "new") /\ Is(r, {"register"})
  /\ IF user[OpOf(r).by] # "none" THEN Answers(r, "rejected") ELSE Goes(r, "authorized")
  /\ UNCHANGED <<tenants, project, key, audit>>

Taken(s) == \E o \in Organization : slug[o] = s

\* The slug of the name, or one with random bytes appended when it is taken.
NameOrganization(r) ==
  /\ \/ At(r, "authorized") /\ Is(r, {"register"})
     \/ At(r, "authenticated") /\ Is(r, {"createOrg"})
  /\ \E s \in (IF Taken(OpOf(r).slug) THEN Slug \ {OpOf(r).slug} ELSE {OpOf(r).slug}) :
       request' = [request EXCEPT ![r] = [@ EXCEPT !.step = "named", !.slug = s]]
  /\ UNCHANGED <<tenants, project, key, audit>>

\* Mutant of Owns: the membership is written outside the transaction.
OwnsLater(u, o) == UNCHANGED role
Owns(u, o) == role' = [role EXCEPT ![o][u] = "owner"]

\* One transaction: the user when registering, the organization, the membership; a
\* unique index on the email or the slug rolls all of it back.
CreateOrganization(r) ==
  LET u == OpOf(r).by
      duplicate == Taken(request[r].slug) \/ (Is(r, {"register"}) /\ user[u] # "none")
  IN
  /\ At(r, "named") /\ Is(r, {"register", "createOrg"})
  /\ IF duplicate THEN Answers(r, "error") /\ UNCHANGED tenants
     ELSE \E o \in Organization :
            /\ ~Exists(o)
            /\ slug' = [slug EXCEPT ![o] = request[r].slug]
            /\ Owns(u, o)
            /\ user' = IF Is(r, {"register"}) THEN [user EXCEPT ![u] = "active"] ELSE user
            /\ token' = IF Is(r, {"register"}) THEN token \cup {u} ELSE token
            /\ Answers(r, "ok")
  /\ UNCHANGED <<project, key, audit>>

\* The password may be wrong.
Login(r) ==
  LET u == OpOf(r).by IN
  /\ At(r, "new") /\ Is(r, {"login"})
  /\ \/ /\ user[u] = "active"
        /\ token' = token \cup {u}
        /\ Answers(r, "ok")
     \/ /\ Answers(r, "rejected")
        /\ UNCHANGED token
  /\ UNCHANGED <<user, slug, role, project, key, audit>>

\* 24 hours have passed.
TokenExpires(u) ==
  /\ u \in token
  /\ token' = token \ {u}
  /\ UNCHANGED <<user, slug, role, project, key, audit, request>>

\* PATCH /organizations/:id, the slug looked up first.
CheckSlug(r) ==
  /\ At(r, "authorized") /\ Is(r, {"patchOrg"})
  /\ IF \E o \in Organization \ {OpOf(r).org} : slug[o] = OpOf(r).slug
     THEN Answers(r, "rejected") ELSE Goes(r, "named")
  /\ UNCHANGED <<tenants, project, key, audit>>

PatchOrganization(r) ==
  LET o == OpOf(r).org IN
  /\ At(r, "named") /\ Is(r, {"patchOrg"})
  /\ IF \E other \in Organization \ {o} : slug[other] = OpOf(r).slug
     THEN Answers(r, "error") /\ UNCHANGED slug
     ELSE Answers(r, "ok") /\ slug' = [slug EXCEPT ![o] = OpOf(r).slug]
  /\ UNCHANGED <<user, token, role, project, key, audit>>

-----------------------------------------------------------------------------
(* Projects and API keys.                                                  *)

CreateProject(r) ==
  /\ At(r, "authorized") /\ Is(r, {"createProject"})
  /\ \E p \in Project :
       /\ project[p] = NoProject
       /\ project' = [project EXCEPT ![p] = [org |-> OpOf(r).org, status |-> "active",
                                             environment |-> OpOf(r).environment]]
  /\ Answers(r, "ok")
  /\ UNCHANGED <<tenants, key, audit>>

\* Name and description only; the row may be gone.
PatchProject(r) ==
  /\ At(r, "authorized") /\ Is(r, {"patchProject"})
  /\ Answers(r, IF Lives(OpOf(r).project) THEN "ok" ELSE "error")
  /\ UNCHANGED <<tenants, project, key, audit>>

\* The project's keys go with it, and so does everything else it has.
DeleteProject(r) ==
  LET p == OpOf(r).project IN
  /\ At(r, "authorized") /\ Is(r, {"deleteProject"})
  /\ IF Lives(p)
     THEN /\ project' = [project EXCEPT ![p].status = "deleted"]
          /\ key' = [k \in Key |-> IF KeyLives(k) /\ key[k].project = p
                                   THEN [key[k] EXCEPT !.deleted = TRUE] ELSE key[k]]
          /\ Answers(r, "ok")
     ELSE Answers(r, "error") /\ UNCHANGED <<project, key>>
  /\ UNCHANGED <<tenants, audit>>

\* GET /projects: the memberships, then the projects.
ReadMemberships(r) ==
  /\ At(r, "authenticated") /\ Is(r, {"listProjects"})
  /\ Goes(r, "authorized")
  /\ UNCHANGED <<tenants, project, key, audit>>

ListProjects(r) ==
  /\ At(r, "authorized") /\ Is(r, {"listProjects"})
  /\ request' = [request EXCEPT ![r] =
       [@ EXCEPT !.step = "done", !.answer = "ok",
                 !.seen = {p \in Project : Lives(p) /\ role[project[p].org][OpOf(r).by] # "none"}]]
  /\ UNCHANGED <<tenants, project, key, audit>>

\* Mutant of KeyEnvironment: the column's default.
DefaultEnvironment(r) == "test"
\* The environment of the project that was read.
KeyEnvironment(r) == request[r].saw

\* The foreign key fails when the project has gone.
CreateKey(r) ==
  LET p == OpOf(r).project IN
  /\ At(r, "authorized") /\ Is(r, {"createKey"})
  /\ IF ~Lives(p) THEN Answers(r, "error") /\ UNCHANGED key
     ELSE \E k \in Key :
            /\ key[k] = NoKey
            /\ key' = [key EXCEPT ![k] = [project |-> p, environment |-> KeyEnvironment(r),
                                          revoked |-> FALSE, expired |-> FALSE,
                                          deleted |-> FALSE]]
            /\ Answers(r, "ok")
  /\ UNCHANGED <<tenants, project, audit>>

\* The key is found by its id; one already revoked is left alone.
FindKey(r) ==
  LET k == OpOf(r).key IN
  /\ At(r, "authorized") /\ Is(r, {"revokeKey", "adminRevoke"})
  /\ CASE ~KeyLives(k) -> Answers(r, "rejected")
       [] KeyLives(k) /\ key[k].revoked ->
            Answers(r, IF Is(r, {"revokeKey"}) THEN "ok" ELSE "rejected")
       [] OTHER -> Goes(r, "read")
  /\ UNCHANGED <<tenants, project, key, audit>>

\* The owner's answer follows; the administrator's row in AuditLog comes first.
RevokeKey(r) ==
  LET k == OpOf(r).key IN
  /\ At(r, "read") /\ Is(r, {"revokeKey", "adminRevoke"})
  /\ IF ~KeyLives(k) THEN Answers(r, "error") /\ UNCHANGED key
     ELSE /\ key' = [key EXCEPT ![k].revoked = TRUE]
          /\ IF Is(r, {"revokeKey"}) THEN Answers(r, "ok") ELSE Goes(r, "written")
  /\ UNCHANGED <<tenants, project, audit>>

KeyExpires(k) ==
  /\ KeyLives(k) /\ ~key[k].expired
  /\ key' = [key EXCEPT ![k].expired = TRUE]
  /\ UNCHANGED <<tenants, project, audit, request>>

-----------------------------------------------------------------------------
(* The administrator.                                                      *)

Status(r) ==
  IF Is(r, {"toggleUser"}) THEN user[OpOf(r).on] ELSE project[OpOf(r).project].status
Found(r) ==
  IF Is(r, {"toggleUser"}) THEN user[OpOf(r).on] # "none" ELSE Lives(OpOf(r).project)
Itself(r) == Is(r, {"toggleUser"}) /\ OpOf(r).on = OpOf(r).by

\* The status the toggle starts from.
ReadStatus(r) ==
  /\ At(r, "authorized") /\ Is(r, {"toggleUser", "toggleProject"})
  /\ IF Found(r) /\ ~Itself(r)
     THEN request' = [request EXCEPT ![r] = [@ EXCEPT !.step = "read", !.saw = Status(r)]]
     ELSE Answers(r, "rejected")
  /\ UNCHANGED <<tenants, project, key, audit>>

Opposite(status) == IF status = "suspended" THEN "active" ELSE "suspended"

\* The opposite of the status read, whatever it is by now.
ToggleStatus(r) ==
  /\ At(r, "read") /\ Is(r, {"toggleUser", "toggleProject"})
  /\ CASE ~Found(r) -> Answers(r, "error") /\ UNCHANGED <<user, project>>
       [] Found(r) /\ Is(r, {"toggleUser"}) ->
            /\ user' = [user EXCEPT ![OpOf(r).on] = Opposite(request[r].saw)]
            /\ Goes(r, "written")
            /\ UNCHANGED project
       [] OTHER ->
            /\ project' = [project EXCEPT ![OpOf(r).project].status = Opposite(request[r].saw)]
            /\ Goes(r, "written")
            /\ UNCHANGED user
  /\ UNCHANGED <<token, slug, role, key, audit>>

\* The row in AuditLog.
Recorded(r) == audit' = audit \cup {[by |-> OpOf(r).by, did |-> OpOf(r)]}

AuditAdmin(r) ==
  /\ At(r, "written")
  /\ Recorded(r)
  /\ Answers(r, "ok")
  /\ UNCHANGED <<tenants, project, key>>

-----------------------------------------------------------------------------
\* The database fails, or the process stops: what was written stays written.
Fail(r) ==
  /\ request[r].step \notin {"new", "done"}
  /\ Answers(r, "error")
  /\ UNCHANGED <<tenants, project, key, audit>>

Proceed(r) ==
  \/ AuthenticateUser(r) \/ AuthorizeAdmin(r) \/ RequireOrgRole(r)
  \/ LoadAndAuthorizeProject(r) \/ ResolveProjectContext(r)
  \/ AuthenticateApiKey(r) \/ Served(r)
  \/ LookUpEmail(r) \/ NameOrganization(r) \/ CreateOrganization(r) \/ Login(r)
  \/ CheckSlug(r) \/ PatchOrganization(r)
  \/ CreateProject(r) \/ PatchProject(r) \/ DeleteProject(r)
  \/ ReadMemberships(r) \/ ListProjects(r)
  \/ CreateKey(r) \/ FindKey(r) \/ RevokeKey(r)
  \/ ReadStatus(r) \/ ToggleStatus(r) \/ AuditAdmin(r)
  \/ Fail(r)

Next ==
  \/ \E r \in Request : Proceed(r)
  \/ \E u \in User : TokenExpires(u)
  \/ \E k \in Key : KeyExpires(k)

Spec == Init /\ [][Next]_vars

-----------------------------------------------------------------------------
(* Properties.                                                             *)

\* Every registered user owns an organization and every organization has an owner,
\* however registrations race for an email or a slug and wherever one of them dies.
WorkspacesAreOwned ==
  /\ \A u \in User : user[u] # "none" => \E o \in Organization : role[o][u] = "owner"
  /\ \A o \in Organization : Exists(o) => \E u \in User : role[o][u] = "owner"
  /\ \A o, p \in Organization : Exists(o) /\ slug[o] = slug[p] => o = p

\* What a request is served, through a session or a key, is a project of an
\* organization the user belongs to, in that project's own environment, although
\* the project may be suspended or deleted between two of its queries.
TenantsApart ==
  \A r \in Request :
    LET c == request[r].context
        by == OpOf(r).by
    IN /\ c # NoContext =>
            /\ c.org = project[c.project].org
            /\ c.environment = project[c.project].environment
            /\ Is(r, {"dashboard"}) => role[c.org][by] # "none"
       /\ \A p \in request[r].seen : role[project[p].org][by] # "none"

\* Whoever changes a project, or adds a key to one, is an administrator or holds a
\* role for it when the change is made, which is queries after the check.  Revoking a
\* key is not among these: the route checks a role for the project of its path and looks
\* the key up by its id alone (api-key.routes.ts:197).
AuthorizedChange ==
  /\ \A p \in Project : project'[p] # project[p] =>
       \E r \in Request : /\ request'[r] # request[r]
                          /\ \/ OpOf(r).by \in Admin
                             \/ /\ role[project'[p].org][OpOf(r).by] \in Allowed(OpOf(r).name)
                                /\ user[OpOf(r).by] # "none"
  /\ \A k \in Key : key[k] = NoKey /\ key'[k] # NoKey =>
       \E r \in Request :
          /\ request'[r] # request[r]
          /\ role[project[key'[k].project].org][OpOf(r).by] \in Allowed("createKey")
ChangesAreAuthorized == [][AuthorizedChange]_vars

\* An administrative action answered with success has its row in AuditLog, wherever
\* the database fails between the change and the row.
AnsweredIsAudited ==
  \A r \in Request :
    Is(r, AdminOp) /\ request[r].answer = "ok" =>
      \E row \in audit : row.did = OpOf(r) /\ row.by = OpOf(r).by

\* Whichever statement fails, nothing that needs several of them is left half done: no
\* user without a workspace (the transaction of POST /auth/register), no answered
\* administrative action without its row (admin.routes.ts:1011, 1062, 1115).
NothingHalfDone == WorkspacesAreOwned /\ AnsweredIsAudited
=============================================================================
