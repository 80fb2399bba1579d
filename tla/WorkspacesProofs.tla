----------------------------- MODULE WorkspacesProofs -----------------------------
(***************************************************************************)
(* Proofs about users, organizations, projects and keys, for any number of *)
(* each and of interleaved requests.                                       *)
(*                                                                         *)
(* A request checks in one query and relies on the check in a later one.   *)
(* What makes this sound is what no request ever takes back: users are not *)
(* removed, roles only become owner, projects keep their organization and  *)
(* environment.  Grows states that of every step; RequestInv is what each  *)
(* step of a request may rely on, and survives every step of the others.   *)
(***************************************************************************)
EXTENDS Workspaces, TLAPS

-----------------------------------------------------------------------------
(* The inductive invariant.                                                *)

\* Only an organization that exists has members.
MembersOfExisting ==
  \A o \in Organization, u \in User : role[o][u] # "none" => Exists(o)

\* A key belongs to a project that was created, and to its environment.
KeysOfProjects ==
  \A k \in Key : key[k] # NoKey =>
    /\ project[key[k].project] # NoProject
    /\ key[k].environment = project[key[k].project].environment

\* What a request has been served is a project that was created, of its user's.
ServedInv(r) ==
  LET c == request[r].context
      by == OpOf(r).by
  IN /\ c # NoContext =>
          /\ project[c.project] # NoProject
          /\ c.org = project[c.project].org
          /\ c.environment = project[c.project].environment
          /\ Is(r, {"dashboard"}) => role[c.org][by] # "none"
     /\ \A p \in request[r].seen :
          project[p] # NoProject /\ role[project[p].org][by] # "none"

AuditedInv(r) ==
  Is(r, AdminOp) /\ request[r].answer = "ok" =>
    \E row \in audit : row.did = OpOf(r) /\ row.by = OpOf(r).by

\* What a request may rely on at each of its steps.
CheckedInv(r) ==
  LET op == OpOf(r)
      step == request[r].step
  IN /\ Is(r, Session) /\ step \notin {"new", "done"} => user[op.by] # "none"
     /\ Is(r, AdminOp) /\ step \in {"authorized", "read", "written"} => op.by \in Admin
     /\ Is(r, {"patchOrg", "createProject"}) /\ step \in {"authorized", "named"} =>
          role[op.org][op.by] \in Allowed(op.name)
     /\ Is(r, {"patchProject", "deleteProject", "createKey", "revokeKey"})
          /\ step = "authorized" =>
          /\ project[op.project] # NoProject
          /\ role[project[op.project].org][op.by] \in Allowed(op.name)
          /\ request[r].saw = project[op.project].environment
     /\ step = "serving" => Is(r, {"dashboard", "api"})
     /\ step = "written" => Is(r, AdminOp)
     /\ Is(r, {"register", "createOrg"}) /\ step = "named" => request[r].slug \in Slug

RequestInv(r) == ServedInv(r) /\ AuditedInv(r) /\ CheckedInv(r)

IInv ==
  /\ TypeOK
  /\ WorkspacesAreOwned
  /\ MembersOfExisting
  /\ KeysOfProjects
  /\ \A r \in Request : RequestInv(r)

\* What no step takes back.
Grows ==
  /\ \A u \in User : user[u] # "none" => user'[u] # "none"
  /\ \A o \in Organization, u \in User :
       role'[o][u] = role[o][u] \/ role'[o][u] = "owner"
  /\ \A p \in Project : project[p] # NoProject =>
       /\ project'[p] # NoProject
       /\ project'[p].org = project[p].org
       /\ project'[p].environment = project[p].environment
  /\ audit \subseteq audit'

-----------------------------------------------------------------------------
(* Lemmas about the operators.                                             *)

\* An owner may do what any route allows, and only members may do anything.
LEMMA OwnerMay ==
  ASSUME NEW name
  PROVE  "owner" \in Allowed(name) /\ Allowed(name) \subseteq Role /\ "none" \notin Allowed(name)
BY DEF Allowed, Role

\* The fields of what a request asks for.
LEMMA OpFields ==
  ASSUME ConstantsOK, TypeOK, NEW r \in Request
  PROVE  /\ request[r] \in RequestType /\ OpOf(r) \in Op
         /\ OpOf(r).name \in OpName /\ OpOf(r).by \in User /\ OpOf(r).on \in User
         /\ OpOf(r).org \in Organization /\ OpOf(r).slug \in Slug
         /\ OpOf(r).project \in Project /\ OpOf(r).key \in Key
         /\ OpOf(r).environment \in {"test", "live"}
<1>1. request[r] \in RequestType /\ OpOf(r) \in Op
  BY DEF TypeOK, RequestType, OpOf
<1>2. OpOf(r) \in OpType
  BY <1>1 DEF ConstantsOK
<1> QED  BY <1>1, <1>2 DEF OpType

\* A project that was created has an organization and an environment.
LEMMA ProjectFields ==
  ASSUME ConstantsOK, TypeOK, NEW p \in Project, project[p] # NoProject
  PROVE  /\ project[p] \in ProjectType
         /\ project[p].org \in Organization
         /\ project[p].environment \in {"test", "live"}
         /\ project[p].status \in {"active", "suspended", "deleted"}
BY DEF ConstantsOK, TypeOK, ProjectType

\* A key that was created has a project and an environment.
LEMMA KeyFields ==
  ASSUME ConstantsOK, TypeOK, NEW k \in Key, key[k] # NoKey
  PROVE  /\ key[k] \in KeyType /\ key[k].project \in Project
         /\ key[k].environment \in {"test", "live"}
BY DEF ConstantsOK, TypeOK, KeyType

\* A step of one request, and what becomes of it.
Becomes(r, c) == request' = [request EXCEPT ![r] = c]

LEMMA BecomesFields ==
  ASSUME TypeOK, NEW r \in Request, NEW c \in RequestType, Becomes(r, c)
  PROVE  /\ request' \in [Request -> RequestType]
         /\ request'[r] = c
         /\ \A q \in Request \ {r} : request'[q] = request[q]
BY DEF TypeOK, Becomes

\* Going to a step changes nothing else of the request.
LEMMA GoesFields ==
  ASSUME TypeOK, NEW r \in Request,
         NEW step \in {"new", "authenticated", "authorized", "named", "read", "written",
                       "serving", "done"},
         Goes(r, step)
  PROVE  /\ request' \in [Request -> RequestType]
         /\ request'[r] = [request[r] EXCEPT !.step = step]
         /\ request'[r].step = step
         /\ request'[r].op = request[r].op /\ request'[r].slug = request[r].slug
         /\ request'[r].saw = request[r].saw /\ request'[r].context = request[r].context
         /\ request'[r].seen = request[r].seen /\ request'[r].answer = request[r].answer
         /\ \A q \in Request \ {r} : request'[q] = request[q]
<1> DEFINE c == [request[r] EXCEPT !.step = step]
<1>1. request[r] \in RequestType
  BY DEF TypeOK
<1>2. /\ c \in RequestType /\ c.step = step /\ c.op = request[r].op
      /\ c.slug = request[r].slug /\ c.saw = request[r].saw
      /\ c.context = request[r].context /\ c.seen = request[r].seen
      /\ c.answer = request[r].answer
  BY <1>1 DEF RequestType
<1>3. Becomes(r, c)
  BY DEF Goes, Becomes
<1>4. c = [request[r] EXCEPT !.step = step]
  OBVIOUS
<1> HIDE DEF c
<1> QED  BY <1>2, <1>3, <1>4, BecomesFields

\* Answering ends a request and changes nothing else of it.
LEMMA AnswersFields ==
  ASSUME TypeOK, NEW r \in Request, NEW answer \in Answer, Answers(r, answer)
  PROVE  /\ request' \in [Request -> RequestType]
         /\ request'[r].step = "done" /\ request'[r].answer = answer
         /\ request'[r].op = request[r].op /\ request'[r].slug = request[r].slug
         /\ request'[r].context = request[r].context /\ request'[r].seen = request[r].seen
         /\ \A q \in Request \ {r} : request'[q] = request[q]
<1> DEFINE c == [request[r] EXCEPT !.step = "done", !.answer = answer]
<1>1. request[r] \in RequestType
  BY DEF TypeOK
<1>2. /\ c \in RequestType /\ c.step = "done" /\ c.op = request[r].op
      /\ c.slug = request[r].slug /\ c.context = request[r].context
      /\ c.seen = request[r].seen /\ c.answer = answer
  BY <1>1 DEF RequestType
<1>3. Becomes(r, c)
  BY DEF Answers, Becomes
<1> HIDE DEF c
<1> QED  BY <1>2, <1>3, BecomesFields

-----------------------------------------------------------------------------
(* What the other requests may rely on.                                    *)

\* Steps of others take back nothing a request relies on.
LEMMA ServedSurvives ==
  ASSUME ConstantsOK, TypeOK, Grows, NEW r \in Request, ServedInv(r),
         request'[r].context = request[r].context, request'[r].seen = request[r].seen,
         request'[r].op = request[r].op
  PROVE  ServedInv(r)'
<1> DEFINE c == request[r].context
<1>1. OpOf(r)' = OpOf(r) /\ Is(r, {"dashboard"})' = Is(r, {"dashboard"})
      /\ OpOf(r).by \in User
  BY OpFields DEF OpOf, Is
<1>2. c \in Context \cup {NoContext} /\ request[r].seen \subseteq Project
  BY OpFields DEF RequestType
<1>3. ASSUME NEW p \in Project, project[p] # NoProject,
             role[project[p].org][OpOf(r).by] # "none"
      PROVE  role'[project'[p].org][OpOf(r).by] # "none"
  <2>1. project[p].org \in Organization /\ project'[p].org = project[p].org
    BY <1>3, ProjectFields DEF Grows
  <2> QED  BY <2>1, <1>1, <1>3 DEF Grows
<1>4. ASSUME c # NoContext
      PROVE  /\ project'[c.project] # NoProject
             /\ c.org = project'[c.project].org
             /\ c.environment = project'[c.project].environment
             /\ Is(r, {"dashboard"}) => role'[c.org][OpOf(r).by] # "none"
  <2>1. c.project \in Project /\ project[c.project] # NoProject
        /\ c.org = project[c.project].org
        /\ c.environment = project[c.project].environment
    BY <1>2, <1>4 DEF Context, ServedInv
  <2>2. /\ project'[c.project] # NoProject
        /\ project'[c.project].org = project[c.project].org
        /\ project'[c.project].environment = project[c.project].environment
    BY <2>1 DEF Grows
  <2>3. Is(r, {"dashboard"}) => role[c.org][OpOf(r).by] # "none"
    BY <1>4 DEF ServedInv
  <2> QED  BY <2>1, <2>2, <2>3, <1>3
<1>5. ASSUME NEW p \in request[r].seen
      PROVE  project'[p] # NoProject /\ role'[project'[p].org][OpOf(r).by] # "none"
  <2>1. p \in Project /\ project[p] # NoProject /\ role[project[p].org][OpOf(r).by] # "none"
    BY <1>2 DEF ServedInv
  <2> QED  BY <2>1, <1>3 DEF Grows
<1> QED  BY <1>1, <1>4, <1>5 DEF ServedInv

\* A check made earlier still holds.
LEMMA CheckedSurvives ==
  ASSUME ConstantsOK, TypeOK, Grows, NEW r \in Request, CheckedInv(r),
         request'[r] = request[r]
  PROVE  CheckedInv(r)'
<1> DEFINE op == OpOf(r)
<1>1. OpOf(r)' = op /\ \A names : Is(r, names)' <=> Is(r, names)
  BY DEF OpOf, Is
<1>2. op.by \in User /\ op.org \in Organization /\ op.project \in Project
  BY OpFields
<1>3. ASSUME NEW o \in Organization, role[o][op.by] \in Allowed(op.name)
      PROVE  role'[o][op.by] \in Allowed(op.name)
  BY <1>2, <1>3, OwnerMay DEF Grows
<1>4. user[op.by] # "none" => user'[op.by] # "none"
  BY <1>2 DEF Grows
<1>5. ASSUME project[op.project] # NoProject
      PROVE  /\ project'[op.project] # NoProject
             /\ project'[op.project].org = project[op.project].org
             /\ project'[op.project].environment = project[op.project].environment
             /\ project[op.project].org \in Organization
  BY <1>2, <1>5, ProjectFields DEF Grows
<1>6. op = OpOf(r)
  OBVIOUS
<1> HIDE DEF op
<1> QED  BY <1>1, <1>2, <1>3, <1>4, <1>5, <1>6 DEF CheckedInv

\* A row of AuditLog stays.
LEMMA AuditedSurvives ==
  ASSUME Grows, NEW r \in Request, AuditedInv(r),
         request'[r].op = request[r].op, request'[r].answer = request[r].answer
  PROVE  AuditedInv(r)'
BY DEF Grows, AuditedInv, Is, OpOf

\* A request that another one interleaves with.
LEMMA OthersSurvive ==
  ASSUME ConstantsOK, IInv, Grows, NEW r \in Request, request'[r] = request[r]
  PROVE  RequestInv(r)'
BY ServedSurvives, CheckedSurvives, AuditedSurvives DEF IInv, RequestInv

\* A request that ends with an answer keeps what it was served; success of an
\* administrative action needs its row.
LEMMA AnswerInv ==
  ASSUME ConstantsOK, IInv, Grows, NEW r \in Request, NEW answer \in Answer,
         Answers(r, answer),
         answer = "ok" /\ Is(r, AdminOp) =>
           \E row \in audit' : row.did = OpOf(r) /\ row.by = OpOf(r).by
  PROVE  /\ request' \in [Request -> RequestType]
         /\ \A q \in Request : RequestInv(q)'
<1>1. /\ request' \in [Request -> RequestType]
      /\ request'[r].step = "done" /\ request'[r].answer = answer
      /\ request'[r].op = request[r].op
      /\ request'[r].context = request[r].context /\ request'[r].seen = request[r].seen
      /\ \A q \in Request \ {r} : request'[q] = request[q]
  BY AnswersFields DEF IInv
<1>2. ServedInv(r)'
  BY <1>1, ServedSurvives DEF IInv, RequestInv
<1>3. AuditedInv(r)'
  BY <1>1 DEF AuditedInv, Is, OpOf
<1>4. CheckedInv(r)'
  BY <1>1 DEF CheckedInv, Is
<1>5. RequestInv(r)'
  BY <1>2, <1>3, <1>4 DEF RequestInv
<1>6. \A q \in Request \ {r} : RequestInv(q)'
  BY <1>1, OthersSurvive
<1> QED  BY <1>1, <1>5, <1>6

\* A request that goes on, when what it may rely on next is true.
LEMMA GoesInv ==
  ASSUME ConstantsOK, IInv, Grows, NEW r \in Request,
         NEW step \in {"new", "authenticated", "authorized", "named", "read", "written",
                       "serving", "done"},
         Goes(r, step), CheckedInv(r)'
  PROVE  /\ request' \in [Request -> RequestType]
         /\ \A q \in Request : RequestInv(q)'
<1>1. /\ request' \in [Request -> RequestType]
      /\ request'[r].op = request[r].op /\ request'[r].answer = request[r].answer
      /\ request'[r].context = request[r].context /\ request'[r].seen = request[r].seen
      /\ \A q \in Request \ {r} : request'[q] = request[q]
  BY GoesFields DEF IInv
<1>2. ServedInv(r)' /\ AuditedInv(r)'
  BY <1>1, ServedSurvives, AuditedSurvives DEF IInv, RequestInv
<1>3. RequestInv(r)'
  BY <1>2 DEF RequestInv
<1>4. \A q \in Request \ {r} : RequestInv(q)'
  BY <1>1, OthersSurvive
<1> QED  BY <1>1, <1>3, <1>4

\* A step that changes no workspace takes nothing back.
LEMMA NothingGrows ==
  ASSUME IInv, UNCHANGED <<tenants, project, key, audit>>
  PROVE  Grows
BY DEF Grows, tenants

\* Such a step has only its request to look at.
LEMMA ReadOnly ==
  ASSUME IInv, UNCHANGED <<tenants, project, key, audit>>,
         request' \in [Request -> RequestType], \A q \in Request : RequestInv(q)'
  PROVE  IInv'
<1>1. TypeOK'
  BY DEF IInv, TypeOK, tenants
<1>2. WorkspacesAreOwned' /\ MembersOfExisting' /\ KeysOfProjects'
  BY DEF IInv, WorkspacesAreOwned, MembersOfExisting, KeysOfProjects, Exists, tenants
<1> QED  BY <1>1, <1>2 DEF IInv

\* A refusal, a failure, or the success of what changes nothing.
LEMMA OnlyAnswers ==
  ASSUME ConstantsOK, IInv, UNCHANGED <<tenants, project, key, audit>>,
         NEW r \in Request, NEW answer \in Answer, Answers(r, answer),
         ~(answer = "ok" /\ Is(r, AdminOp))
  PROVE  IInv'
<1>1. Grows
  BY NothingGrows
<1> QED  BY <1>1, AnswerInv, ReadOnly

\* A check that lets the request go on.
LEMMA OnlyGoes ==
  ASSUME ConstantsOK, IInv, UNCHANGED <<tenants, project, key, audit>>, NEW r \in Request,
         NEW step \in {"new", "authenticated", "authorized", "named", "read", "written",
                       "serving", "done"},
         Goes(r, step), CheckedInv(r)'
  PROVE  IInv'
<1>1. Grows
  BY NothingGrows
<1> QED  BY <1>1, GoesInv, ReadOnly

\* What a step of r does not change of its operation and of the workspace.
LEMMA SameOp ==
  ASSUME NEW r, request'[r].op = request[r].op
  PROVE  OpOf(r)' = OpOf(r) /\ \A names : Is(r, names)' <=> Is(r, names)
BY DEF OpOf, Is

-----------------------------------------------------------------------------
(* Middleware.                                                             *)

\* authenticateUser.
LEMMA AuthenticateUserInv ==
  ASSUME ConstantsOK, IInv, NEW r \in Request, AuthenticateUser(r)
  PROVE  IInv'
<1>1. UNCHANGED <<tenants, project, key, audit>> /\ Is(r, Session)
  BY DEF AuthenticateUser
<1>2. CASE Answers(r, "rejected")
  BY <1>1, <1>2, OnlyAnswers DEF Answer
<1>3. CASE Goes(r, "authenticated") /\ user[OpOf(r).by] = "active"
  <2>1. request'[r].step = "authenticated" /\ request'[r].op = request[r].op
    BY <1>3, GoesFields DEF IInv
  <2>2. CheckedInv(r)'
    BY <1>1, <1>3, <2>1, SameOp DEF CheckedInv, tenants
  <2> QED  BY <1>1, <1>3, <2>2, OnlyGoes
<1> QED  BY <1>2, <1>3 DEF AuthenticateUser

\* authorizeAdmin.
LEMMA AuthorizeAdminInv ==
  ASSUME ConstantsOK, IInv, NEW r \in Request, AuthorizeAdmin(r)
  PROVE  IInv'
<1>1. /\ UNCHANGED <<tenants, project, key, audit>>
      /\ request[r].step = "authenticated" /\ Is(r, AdminOp)
  BY DEF AuthorizeAdmin, At
<1>2. CASE Answers(r, "rejected")
  BY <1>1, <1>2, OnlyAnswers DEF Answer
<1>3. CASE Goes(r, "authorized") /\ OpOf(r).by \in Admin
  <2>1. request'[r].step = "authorized" /\ request'[r].op = request[r].op
    BY <1>3, GoesFields DEF IInv
  <2>2. CheckedInv(r)
    BY DEF IInv, RequestInv
  <2>3. CheckedInv(r)'
    BY <1>1, <1>3, <2>1, <2>2, SameOp DEF CheckedInv, tenants, Is, AdminOp, Session
  <2> QED  BY <1>1, <1>3, <2>3, OnlyGoes
<1> QED  BY <1>2, <1>3 DEF AuthorizeAdmin

\* requireOrgRole.
LEMMA RequireOrgRoleInv ==
  ASSUME ConstantsOK, IInv, NEW r \in Request, RequireOrgRole(r)
  PROVE  IInv'
<1>1. /\ UNCHANGED <<tenants, project, key, audit>>
      /\ request[r].step = "authenticated" /\ Is(r, {"patchOrg", "createProject"})
  BY DEF RequireOrgRole, At
<1>2. CASE Answers(r, "rejected")
  BY <1>1, <1>2, OnlyAnswers DEF Answer
<1>3. CASE Goes(r, "authorized")
           /\ role[OpOf(r).org][OpOf(r).by] \in Allowed(OpOf(r).name)
  <2>1. request'[r].step = "authorized" /\ request'[r].op = request[r].op
    BY <1>3, GoesFields DEF IInv
  <2>2. CheckedInv(r)
    BY DEF IInv, RequestInv
  <2>3. CheckedInv(r)'
    BY <1>1, <1>3, <2>1, <2>2, SameOp DEF CheckedInv, tenants, Is, AdminOp, Session
  <2> QED  BY <1>1, <1>3, <2>3, OnlyGoes
<1> QED  BY <1>2, <1>3 DEF RequireOrgRole

\* loadAndAuthorizeProject: what was read is true of the project from then on.
LEMMA LoadAndAuthorizeProjectInv ==
  ASSUME ConstantsOK, IInv, NEW r \in Request, LoadAndAuthorizeProject(r)
  PROVE  IInv'
<1> DEFINE p == OpOf(r).project
           c == [request[r] EXCEPT !.step = "authorized", !.saw = project[p].environment]
<1>1. /\ UNCHANGED <<tenants, project, key, audit>>
      /\ request[r].step = "authenticated"
      /\ Is(r, {"patchProject", "deleteProject", "createKey", "revokeKey"})
  BY DEF LoadAndAuthorizeProject, At
<1>2. CASE Answers(r, "rejected")
  BY <1>1, <1>2, OnlyAnswers DEF Answer
<1>3. CASE Lives(p) /\ Member(r, p) /\ Becomes(r, c)
  <2>1. /\ p \in Project /\ project[p] # NoProject
        /\ project[p].environment \in {"test", "live"}
        /\ request[r] \in RequestType
    BY <1>3, OpFields, ProjectFields DEF IInv, Lives
  <2>2. /\ c \in RequestType /\ c.step = "authorized" /\ c.saw = project[p].environment
        /\ c.op = request[r].op /\ c.context = request[r].context
        /\ c.seen = request[r].seen /\ c.answer = request[r].answer
    BY <2>1 DEF RequestType
  <2>3. role[project[p].org][OpOf(r).by] \in Allowed(OpOf(r).name)
    BY <1>3 DEF Member
  <2>4. p = OpOf(r).project
    OBVIOUS
  <2> HIDE DEF p, c
  <2>5. /\ request' \in [Request -> RequestType] /\ request'[r] = c
        /\ \A q \in Request \ {r} : request'[q] = request[q]
    BY <1>3, <2>2, BecomesFields DEF IInv
  <2>6. Grows
    BY <1>1, NothingGrows
  <2>7. CheckedInv(r)'
    <3>1. CheckedInv(r) /\ request'[r].op = request[r].op
      BY <2>2, <2>5 DEF IInv, RequestInv
    <3> QED
      BY <1>1, <2>1, <2>2, <2>3, <2>4, <2>5, <3>1, SameOp
         DEF CheckedInv, tenants, Is, AdminOp, Session
  <2>8. ServedInv(r)' /\ AuditedInv(r)'
    BY <2>2, <2>5, <2>6, ServedSurvives, AuditedSurvives DEF IInv, RequestInv
  <2>9. \A q \in Request : RequestInv(q)'
    BY <2>5, <2>6, <2>7, <2>8, OthersSurvive DEF RequestInv
  <2> QED  BY <1>1, <2>5, <2>9, ReadOnly
<1> QED  BY <1>2, <1>3 DEF LoadAndAuthorizeProject, Becomes

\* What a request is served, when it is right at that moment.
LEMMA ServesInv ==
  ASSUME ConstantsOK, IInv, UNCHANGED <<tenants, project, key, audit>>,
         NEW r \in Request, Is(r, {"dashboard", "api"}),
         Is(r, Session) => user[OpOf(r).by] # "none",
         NEW p \in Project, project[p] # NoProject,
         NEW environment, environment = project[p].environment,
         Is(r, {"dashboard"}) => role[project[p].org][OpOf(r).by] # "none",
         Serves(r, p, environment)
  PROVE  IInv'
<1> DEFINE x == [project |-> p, org |-> project[p].org, environment |-> environment]
           c == [request[r] EXCEPT !.step = "serving", !.context = x]
<1>1. request[r] \in RequestType /\ project[p].org \in Organization
      /\ environment \in {"test", "live"}
  BY OpFields, ProjectFields DEF IInv
<1>2. x \in Context /\ x.project = p /\ x.org = project[p].org
      /\ x.environment = environment
  BY <1>1 DEF Context
<1> HIDE DEF x
<1>3. /\ c \in RequestType /\ c.step = "serving" /\ c.context = x
      /\ c.op = request[r].op /\ c.seen = request[r].seen /\ c.answer = request[r].answer
  BY <1>1, <1>2 DEF RequestType
<1>4. Becomes(r, c)
  BY DEF Serves, Becomes, x
<1> HIDE DEF c
<1>5. /\ request' \in [Request -> RequestType] /\ request'[r] = c
      /\ \A q \in Request \ {r} : request'[q] = request[q]
  BY <1>3, <1>4, BecomesFields DEF IInv
<1>6. Grows
  BY NothingGrows
<1>7. request'[r].op = request[r].op /\ request'[r].answer = request[r].answer
  BY <1>3, <1>5
<1>8. AuditedInv(r)'
  BY <1>6, <1>7, AuditedSurvives DEF IInv, RequestInv
<1>9. ServedInv(r)'
  <2>1. ServedInv(r)
    BY DEF IInv, RequestInv
  <2> QED  BY <1>2, <1>3, <1>5, <1>7, <2>1, SameOp DEF ServedInv, tenants
<1>10. CheckedInv(r)'
  BY <1>3, <1>5, <1>7, SameOp DEF CheckedInv, tenants, Is, AdminOp
<1>11. \A q \in Request : RequestInv(q)'
  BY <1>5, <1>6, <1>8, <1>9, <1>10, OthersSurvive DEF RequestInv
<1> QED  BY <1>5, <1>11, ReadOnly

\* resolveProjectContext.
LEMMA ResolveProjectContextInv ==
  ASSUME ConstantsOK, IInv, NEW r \in Request, ResolveProjectContext(r)
  PROVE  IInv'
<1> DEFINE p == OpOf(r).project
<1>1. /\ UNCHANGED <<tenants, project, key, audit>>
      /\ request[r].step = "authenticated" /\ Is(r, {"dashboard"})
  BY DEF ResolveProjectContext, At
<1>2. CASE Answers(r, "rejected")
  BY <1>1, <1>2, OnlyAnswers DEF Answer
<1>3. CASE Lives(p) /\ Member(r, p) /\ Serves(r, p, project[p].environment)
  <2>1. p \in Project /\ project[p] # NoProject
    BY <1>3, OpFields DEF IInv, Lives
  <2>2. role[project[p].org][OpOf(r).by] # "none"
    BY <1>3, OwnerMay DEF Member
  <2>3. Is(r, Session) => user[OpOf(r).by] # "none"
    BY <1>1 DEF IInv, RequestInv, CheckedInv
  <2>4. Is(r, {"dashboard", "api"})
    BY <1>1 DEF Is
  <2> HIDE DEF p
  <2> QED  BY <1>1, <1>3, <2>1, <2>2, <2>3, <2>4, ServesInv
<1> QED  BY <1>2, <1>3 DEF ResolveProjectContext

\* authenticateApiKey.
LEMMA AuthenticateApiKeyInv ==
  ASSUME ConstantsOK, IInv, NEW r \in Request, AuthenticateApiKey(r)
  PROVE  IInv'
<1> DEFINE k == OpOf(r).key
           p == key[k].project
<1>1. UNCHANGED <<tenants, project, key, audit>> /\ Is(r, {"api"})
  BY DEF AuthenticateApiKey
<1>2. CASE Answers(r, "rejected")
  BY <1>1, <1>2, OnlyAnswers DEF Answer
<1>3. CASE KeyLives(k) /\ Serves(r, p, key[k].environment)
  <2>1. k \in Key /\ key[k] # NoKey
    BY <1>3, OpFields DEF IInv, KeyLives
  <2>2. /\ p \in Project /\ project[p] # NoProject
        /\ key[k].environment = project[p].environment
    BY <2>1, KeyFields DEF IInv, KeysOfProjects
  <2>3. Is(r, {"dashboard", "api"}) /\ ~Is(r, Session) /\ ~Is(r, {"dashboard"})
    BY <1>1 DEF Is, Session
  <2> HIDE DEF p, k
  <2> QED  BY <1>1, <1>3, <2>2, <2>3, ServesInv
<1> QED  BY <1>2, <1>3 DEF AuthenticateApiKey

\* The handler of another module ends, or the request fails.
LEMMA ServedOrFailInv ==
  ASSUME ConstantsOK, IInv, NEW r \in Request, Served(r) \/ Fail(r)
  PROVE  IInv'
<1>1. UNCHANGED <<tenants, project, key, audit>>
  BY DEF Served, Fail
<1>2. CASE Served(r)
  <2>1. request[r].step = "serving" /\ Answers(r, "ok")
    BY <1>2 DEF Served, At
  <2>2. Is(r, {"dashboard", "api"})
    BY <2>1 DEF IInv, RequestInv, CheckedInv
  <2>3. ~Is(r, AdminOp)
    BY <2>2 DEF Is, AdminOp
  <2> QED  BY <1>1, <2>1, <2>3, OnlyAnswers DEF Answer
<1>3. CASE Fail(r)
  BY <1>1, <1>3, OnlyAnswers DEF Fail, Answer
<1> QED  BY <1>2, <1>3

-----------------------------------------------------------------------------
(* Registration, login and organizations.                                  *)

\* The email is free.
LEMMA LookUpEmailInv ==
  ASSUME ConstantsOK, IInv, NEW r \in Request, LookUpEmail(r)
  PROVE  IInv'
<1>1. UNCHANGED <<tenants, project, key, audit>> /\ Is(r, {"register"})
  BY DEF LookUpEmail
<1>2. CASE Answers(r, "rejected")
  BY <1>1, <1>2, OnlyAnswers DEF Answer
<1>3. CASE Goes(r, "authorized")
  <2>1. request'[r].step = "authorized" /\ request'[r].op = request[r].op
    BY <1>3, GoesFields DEF IInv
  <2>2. CheckedInv(r)'
    BY <1>1, <2>1, SameOp DEF CheckedInv, Is, AdminOp, Session
  <2> QED  BY <1>1, <1>3, <2>2, OnlyGoes
<1> QED  BY <1>2, <1>3 DEF LookUpEmail

\* The name is a slug, whether the one asked for is taken or not.
LEMMA NameOrganizationInv ==
  ASSUME ConstantsOK, IInv, NEW r \in Request, NameOrganization(r)
  PROVE  IInv'
<1>1. /\ UNCHANGED <<tenants, project, key, audit>> /\ Is(r, {"register", "createOrg"})
      /\ request[r].step \notin {"new", "done"}
  BY DEF NameOrganization, Is, At
<1>2. PICK s \in Slug :
        request' = [request EXCEPT ![r] = [@ EXCEPT !.step = "named", !.slug = s]]
  BY OpFields DEF NameOrganization, IInv
<1> DEFINE c == [request[r] EXCEPT !.step = "named", !.slug = s]
<1>3. /\ c \in RequestType /\ c.step = "named" /\ c.slug = s /\ c.op = request[r].op
      /\ c.context = request[r].context /\ c.seen = request[r].seen
      /\ c.answer = request[r].answer
  BY OpFields DEF IInv, RequestType
<1>4. Becomes(r, c)
  BY <1>2 DEF Becomes
<1> HIDE DEF c
<1>5. /\ request' \in [Request -> RequestType] /\ request'[r] = c
      /\ \A q \in Request \ {r} : request'[q] = request[q]
  BY <1>3, <1>4, BecomesFields DEF IInv
<1>6. Grows
  BY <1>1, NothingGrows
<1>7. request'[r].op = request[r].op
  BY <1>3, <1>5
<1>8. CheckedInv(r)'
  <2>1. CheckedInv(r)
    BY DEF IInv, RequestInv
  <2> QED  BY <1>1, <1>3, <1>5, <1>7, <2>1, SameOp
              DEF CheckedInv, tenants, Is, AdminOp, Session
<1>9. ServedInv(r)' /\ AuditedInv(r)'
  BY <1>3, <1>5, <1>6, ServedSurvives, AuditedSurvives DEF IInv, RequestInv
<1>10. \A q \in Request : RequestInv(q)'
  BY <1>5, <1>6, <1>8, <1>9, OthersSurvive DEF RequestInv
<1> QED  BY <1>1, <1>5, <1>10, ReadOnly

\* The user, the organization and the membership are written together.
LEMMA CreateOrganizationInv ==
  ASSUME ConstantsOK, IInv, NEW r \in Request, CreateOrganization(r)
  PROVE  IInv'
<1> DEFINE u == OpOf(r).by
           s == request[r].slug
<1>1. /\ request[r].step = "named" /\ Is(r, {"register", "createOrg"})
      /\ UNCHANGED <<project, key, audit>>
  BY DEF CreateOrganization, At
<1>2. CASE Answers(r, "error") /\ UNCHANGED tenants
  BY <1>1, <1>2, OnlyAnswers DEF Answer
<1>3. CASE ~Taken(s) /\ \E o \in Organization :
            /\ ~Exists(o)
            /\ slug' = [slug EXCEPT ![o] = s]
            /\ Owns(u, o)
            /\ user' = IF Is(r, {"register"}) THEN [user EXCEPT ![u] = "active"] ELSE user
            /\ token' = IF Is(r, {"register"}) THEN token \cup {u} ELSE token
            /\ Answers(r, "ok")
  <2>1. PICK o \in Organization :
            /\ ~Exists(o)
            /\ slug' = [slug EXCEPT ![o] = s]
            /\ Owns(u, o)
            /\ user' = IF Is(r, {"register"}) THEN [user EXCEPT ![u] = "active"] ELSE user
            /\ token' = IF Is(r, {"register"}) THEN token \cup {u} ELSE token
            /\ Answers(r, "ok")
    BY <1>3
  <2>2. u \in User /\ s \in Slug /\ s # NoSlug
    BY <1>1, OpFields DEF IInv, RequestInv, CheckedInv, ConstantsOK
  <2>3. /\ slug' \in [Organization -> Slug \cup {NoSlug}] /\ slug'[o] = s
        /\ \A p \in Organization \ {o} : slug'[p] = slug[p]
    BY <2>1, <2>2 DEF IInv, TypeOK
  <2>4. /\ role' \in [Organization -> [User -> Role \cup {"none"}]]
        /\ role'[o][u] = "owner"
        /\ \A p \in Organization, v \in User :
             role'[p][v] = role[p][v] \/ (p = o /\ v = u)
    BY <2>1, <2>2 DEF IInv, TypeOK, Owns, Role
  <2>5. /\ user' \in [User -> {"none", "active", "suspended"}]
        /\ \A v \in User : user'[v] = user[v] \/ (v = u /\ user'[v] = "active")
        /\ token' \in SUBSET User
    BY <2>1, <2>2 DEF IInv, TypeOK
  <2>6. ~Taken(s) /\ ~Exists(o) /\ Answers(r, "ok")
    BY <1>3, <2>1
  <2>7. slug[o] = NoSlug
    BY <2>6 DEF Exists
  <2> HIDE DEF u, s
  <2>8. Grows
    BY <1>1, <2>4, <2>5 DEF Grows
  <2>9. ~Is(r, AdminOp)
    BY <1>1 DEF Is, AdminOp
  <2>10. request' \in [Request -> RequestType] /\ \A q \in Request : RequestInv(q)'
    BY <2>6, <2>8, <2>9, AnswerInv DEF Answer
  <2>11. TypeOK'
    BY <1>1, <2>3, <2>4, <2>5, <2>10 DEF IInv, TypeOK
  <2>12. WorkspacesAreOwned'
    <3>1. ASSUME NEW v \in User, user'[v] # "none"
          PROVE  \E p \in Organization : role'[p][v] = "owner"
      <4>1. CASE v = u
        BY <4>1, <2>4
      <4>2. CASE v # u
        BY <4>2, <3>1, <2>4, <2>5 DEF IInv, WorkspacesAreOwned
      <4> QED  BY <4>1, <4>2
    <3>2. ASSUME NEW p \in Organization, slug'[p] # NoSlug
          PROVE  \E v \in User : role'[p][v] = "owner"
      <4>1. CASE p = o
        BY <4>1, <2>2, <2>4
      <4>2. CASE p # o
        BY <4>2, <3>2, <2>3, <2>4 DEF IInv, WorkspacesAreOwned, Exists
      <4> QED  BY <4>1, <4>2
    <3>3. ASSUME NEW p \in Organization, NEW q \in Organization,
                 slug'[p] # NoSlug, slug'[p] = slug'[q]
          PROVE  p = q
      <4>1. \A x \in Organization : slug[x] # s
        BY <2>6 DEF Taken
      <4> QED  BY <4>1, <3>3, <2>3 DEF IInv, WorkspacesAreOwned, Exists
    <3> QED  BY <3>1, <3>2, <3>3 DEF WorkspacesAreOwned, Exists
  <2>13. MembersOfExisting'
    BY <2>2, <2>3, <2>4 DEF IInv, MembersOfExisting, Exists
  <2>14. KeysOfProjects'
    BY <1>1 DEF IInv, KeysOfProjects
  <2> QED  BY <2>10, <2>11, <2>12, <2>13, <2>14 DEF IInv
<1> QED  BY <1>2, <1>3 DEF CreateOrganization

\* A session token is issued, or expires.
LEMMA TokenInv ==
  ASSUME ConstantsOK, IInv, token' \in SUBSET User,
         UNCHANGED <<user, slug, role, project, key, audit>>,
         \/ UNCHANGED request
         \/ \E r \in Request, answer \in Answer :
              Answers(r, answer) /\ Is(r, {"login"})
  PROVE  IInv'
<1>1. Grows
  BY DEF Grows
<1>2. request' \in [Request -> RequestType] /\ \A q \in Request : RequestInv(q)'
  <2>1. CASE UNCHANGED request
    BY <2>1, <1>1, OthersSurvive DEF IInv, TypeOK
  <2>2. ASSUME NEW r \in Request, NEW answer \in Answer, Answers(r, answer), Is(r, {"login"})
        PROVE  request' \in [Request -> RequestType] /\ \A q \in Request : RequestInv(q)'
    <3>1. ~Is(r, AdminOp)
      BY <2>2 DEF Is, AdminOp
    <3> QED  BY <2>2, <3>1, <1>1, AnswerInv
  <2> QED  BY <2>1, <2>2
<1>3. TypeOK'
  BY <1>2 DEF IInv, TypeOK
<1>4. WorkspacesAreOwned' /\ MembersOfExisting' /\ KeysOfProjects'
  BY DEF IInv, WorkspacesAreOwned, MembersOfExisting, KeysOfProjects, Exists
<1> QED  BY <1>2, <1>3, <1>4 DEF IInv

LEMMA LoginInv ==
  ASSUME ConstantsOK, IInv, NEW r \in Request, Login(r)
  PROVE  IInv'
<1>1. token' \in SUBSET User
  BY OpFields DEF Login, IInv, TypeOK
<1>2. UNCHANGED <<user, slug, role, project, key, audit>> /\ Is(r, {"login"})
      /\ \E answer \in Answer : Answers(r, answer)
  BY DEF Login, Answer
<1> QED  BY <1>1, <1>2, TokenInv

LEMMA TokenExpiresInv ==
  ASSUME ConstantsOK, IInv, NEW u \in User, TokenExpires(u)
  PROVE  IInv'
<1>1. token' \in SUBSET User /\ UNCHANGED <<user, slug, role, project, key, audit, request>>
  BY DEF TokenExpires, IInv, TypeOK
<1> QED  BY <1>1, TokenInv

\* PATCH /organizations/:id: the slug is free, or was.
LEMMA CheckSlugInv ==
  ASSUME ConstantsOK, IInv, NEW r \in Request, CheckSlug(r)
  PROVE  IInv'
<1>1. /\ UNCHANGED <<tenants, project, key, audit>>
      /\ request[r].step = "authorized" /\ Is(r, {"patchOrg"})
  BY DEF CheckSlug, At
<1>2. CASE Answers(r, "rejected")
  BY <1>1, <1>2, OnlyAnswers DEF Answer
<1>3. CASE Goes(r, "named")
  <2>1. request'[r].step = "named" /\ request'[r].op = request[r].op
    BY <1>3, GoesFields DEF IInv
  <2>2. CheckedInv(r)
    BY DEF IInv, RequestInv
  <2>3. CheckedInv(r)'
    BY <1>1, <2>1, <2>2, SameOp DEF CheckedInv, tenants, Is, AdminOp, Session
  <2> QED  BY <1>1, <1>3, <2>3, OnlyGoes
<1> QED  BY <1>2, <1>3 DEF CheckSlug

LEMMA PatchOrganizationInv ==
  ASSUME ConstantsOK, IInv, NEW r \in Request, PatchOrganization(r)
  PROVE  IInv'
<1> DEFINE o == OpOf(r).org
           s == OpOf(r).slug
<1>1. /\ request[r].step = "named" /\ Is(r, {"patchOrg"})
      /\ UNCHANGED <<user, token, role, project, key, audit>>
  BY DEF PatchOrganization, At
<1>2. CASE Answers(r, "error") /\ UNCHANGED slug
  BY <1>1, <1>2, OnlyAnswers DEF Answer, tenants
<1>3. CASE /\ ~\E other \in Organization \ {o} : slug[other] = s
           /\ Answers(r, "ok") /\ slug' = [slug EXCEPT ![o] = s]
  <2>1. o \in Organization /\ s \in Slug /\ s # NoSlug /\ OpOf(r).by \in User
    BY OpFields DEF IInv, ConstantsOK
  <2>2. role[o][OpOf(r).by] \in Allowed(OpOf(r).name)
    BY <1>1 DEF IInv, RequestInv, CheckedInv, Is
  <2>3. slug[o] # NoSlug
    BY <2>1, <2>2, OwnerMay DEF IInv, MembersOfExisting, Exists
  <2>4. /\ slug' \in [Organization -> Slug \cup {NoSlug}] /\ slug'[o] = s
        /\ \A p \in Organization \ {o} : slug'[p] = slug[p]
    BY <1>3, <2>1 DEF IInv, TypeOK
  <2>5. Answers(r, "ok") /\ \A p \in Organization \ {o} : slug[p] # s
    BY <1>3
  <2> HIDE DEF o, s
  <2>6. Grows
    BY <1>1 DEF Grows
  <2>7. ~Is(r, AdminOp)
    BY <1>1 DEF Is, AdminOp
  <2>8. request' \in [Request -> RequestType] /\ \A q \in Request : RequestInv(q)'
    BY <2>5, <2>6, <2>7, AnswerInv DEF Answer
  <2>9. TypeOK'
    BY <1>1, <2>4, <2>8 DEF IInv, TypeOK
  <2>10. WorkspacesAreOwned' /\ MembersOfExisting'
    BY <1>1, <2>1, <2>3, <2>4, <2>5
       DEF IInv, WorkspacesAreOwned, MembersOfExisting, Exists
  <2>11. KeysOfProjects'
    BY <1>1 DEF IInv, KeysOfProjects
  <2> QED  BY <2>8, <2>9, <2>10, <2>11 DEF IInv
<1> QED  BY <1>2, <1>3 DEF PatchOrganization

-----------------------------------------------------------------------------
(* Projects and API keys.                                                  *)

\* A step that changes only projects and keys, and answers or goes on.
LEMMA ProjectsChange ==
  ASSUME IInv, UNCHANGED <<tenants, audit>>,
         project' \in [Project -> ProjectType \cup {NoProject}],
         key' \in [Key -> KeyType \cup {NoKey}], KeysOfProjects',
         request' \in [Request -> RequestType], \A q \in Request : RequestInv(q)'
  PROVE  IInv'
<1>1. TypeOK'
  BY DEF IInv, TypeOK, tenants
<1>2. WorkspacesAreOwned' /\ MembersOfExisting'
  BY DEF IInv, WorkspacesAreOwned, MembersOfExisting, Exists, tenants
<1> QED  BY <1>1, <1>2 DEF IInv

LEMMA CreateProjectInv ==
  ASSUME ConstantsOK, IInv, NEW r \in Request, CreateProject(r)
  PROVE  IInv'
<1> DEFINE c == [org |-> OpOf(r).org, status |-> "active",
                 environment |-> OpOf(r).environment]
<1>1. /\ Is(r, {"createProject"}) /\ Answers(r, "ok")
      /\ UNCHANGED <<tenants, key, audit>>
  BY DEF CreateProject
<1>2. PICK p \in Project : project[p] = NoProject /\ project' = [project EXCEPT ![p] = c]
  BY DEF CreateProject
<1>3. c \in ProjectType /\ c # NoProject
  BY OpFields DEF IInv, ProjectType, ConstantsOK
<1> HIDE DEF c
<1>4. /\ project' \in [Project -> ProjectType \cup {NoProject}]
      /\ \A q \in Project : project[q] # NoProject => project'[q] = project[q]
  BY <1>2, <1>3 DEF IInv, TypeOK
<1>5. Grows
  BY <1>1, <1>4 DEF Grows, tenants
<1>6. ~Is(r, AdminOp)
  BY <1>1 DEF Is, AdminOp
<1>7. request' \in [Request -> RequestType] /\ \A q \in Request : RequestInv(q)'
  BY <1>1, <1>5, <1>6, AnswerInv DEF Answer
<1>8. KeysOfProjects' /\ key' \in [Key -> KeyType \cup {NoKey}]
  BY <1>1, <1>4, KeyFields DEF IInv, KeysOfProjects, TypeOK
<1> QED  BY <1>1, <1>4, <1>7, <1>8, ProjectsChange

\* PATCH and GET of projects change nothing.
LEMMA PatchProjectInv ==
  ASSUME ConstantsOK, IInv, NEW r \in Request, PatchProject(r)
  PROVE  IInv'
<1>1. /\ UNCHANGED <<tenants, project, key, audit>> /\ ~Is(r, AdminOp)
      /\ \E answer \in Answer : Answers(r, answer)
  BY DEF PatchProject, Answer, Is, AdminOp
<1> QED  BY <1>1, OnlyAnswers

LEMMA ReadMembershipsInv ==
  ASSUME ConstantsOK, IInv, NEW r \in Request, ReadMemberships(r)
  PROVE  IInv'
<1>1. /\ UNCHANGED <<tenants, project, key, audit>> /\ Is(r, {"listProjects"})
      /\ request[r].step = "authenticated" /\ Goes(r, "authorized")
  BY DEF ReadMemberships, At
<1>2. request'[r].step = "authorized" /\ request'[r].op = request[r].op
  BY <1>1, GoesFields DEF IInv
<1>3. CheckedInv(r)
  BY DEF IInv, RequestInv
<1>4. CheckedInv(r)'
  BY <1>1, <1>2, <1>3, SameOp DEF CheckedInv, tenants, Is, AdminOp, Session
<1> QED  BY <1>1, <1>4, OnlyGoes

LEMMA ListProjectsInv ==
  ASSUME ConstantsOK, IInv, NEW r \in Request, ListProjects(r)
  PROVE  IInv'
<1> DEFINE S == {p \in Project : Lives(p) /\ role[project[p].org][OpOf(r).by] # "none"}
           c == [request[r] EXCEPT !.step = "done", !.answer = "ok", !.seen = S]
<1>1. /\ UNCHANGED <<tenants, project, key, audit>> /\ Is(r, {"listProjects"})
      /\ Becomes(r, c)
  BY DEF ListProjects, Becomes
<1>2. \A p \in S : project[p] # NoProject /\ role[project[p].org][OpOf(r).by] # "none"
  BY DEF Lives
<1>3. S \in SUBSET Project
  OBVIOUS
<1> HIDE DEF S
<1>4. /\ c \in RequestType /\ c.step = "done" /\ c.seen = S /\ c.op = request[r].op
      /\ c.context = request[r].context /\ c.answer = "ok"
  BY <1>3, OpFields DEF IInv, RequestType, Answer
<1> HIDE DEF c
<1>5. /\ request' \in [Request -> RequestType] /\ request'[r] = c
      /\ \A q \in Request \ {r} : request'[q] = request[q]
  BY <1>1, <1>4, BecomesFields DEF IInv
<1>6. Grows
  BY <1>1, NothingGrows
<1>7. request'[r].op = request[r].op
  BY <1>4, <1>5
<1>8. ServedInv(r)'
  <2>1. ServedInv(r)
    BY DEF IInv, RequestInv
  <2> QED  BY <1>1, <1>2, <1>4, <1>5, <1>7, <2>1, SameOp DEF ServedInv, tenants
<1>9. CheckedInv(r)' /\ AuditedInv(r)'
  BY <1>1, <1>4, <1>5, <1>7, SameOp DEF CheckedInv, AuditedInv, Is, AdminOp
<1>10. \A q \in Request : RequestInv(q)'
  BY <1>5, <1>6, <1>8, <1>9, OthersSurvive DEF RequestInv
<1> QED  BY <1>1, <1>5, <1>10, ReadOnly

\* A deleted project keeps its organization and environment.
LEMMA DeleteProjectInv ==
  ASSUME ConstantsOK, IInv, NEW r \in Request, DeleteProject(r)
  PROVE  IInv'
<1> DEFINE p == OpOf(r).project
<1>1. Is(r, {"deleteProject"}) /\ UNCHANGED <<tenants, audit>>
  BY DEF DeleteProject
<1>2. ~Is(r, AdminOp)
  BY <1>1 DEF Is, AdminOp
<1>3. CASE Answers(r, "error") /\ UNCHANGED <<project, key>>
  BY <1>1, <1>2, <1>3, OnlyAnswers DEF Answer
<1>4. CASE /\ Lives(p)
           /\ project' = [project EXCEPT ![p].status = "deleted"]
           /\ key' = [k \in Key |-> IF KeyLives(k) /\ key[k].project = p
                                    THEN [key[k] EXCEPT !.deleted = TRUE] ELSE key[k]]
           /\ Answers(r, "ok")
  <2>1. p \in Project /\ project[p] # NoProject /\ project[p] \in ProjectType
    BY <1>4, OpFields, ProjectFields DEF IInv, Lives
  <2> DEFINE c == [project[p] EXCEPT !.status = "deleted"]
  <2>2. /\ c \in ProjectType /\ c # NoProject
        /\ c.org = project[p].org /\ c.environment = project[p].environment
    BY <2>1 DEF ProjectType, ConstantsOK
  <2>3. project' = [project EXCEPT ![p] = c]
    BY <1>4
  <2> HIDE DEF c
  <2>4. /\ project' \in [Project -> ProjectType \cup {NoProject}]
        /\ project'[p] = c /\ \A q \in Project \ {p} : project'[q] = project[q]
    BY <2>1, <2>2, <2>3 DEF IInv, TypeOK
  <2>5. ASSUME NEW k \in Key
        PROVE  /\ key'[k] \in KeyType \cup {NoKey}
               /\ key[k] = NoKey => key'[k] = NoKey
               /\ key[k] # NoKey => /\ key'[k].project = key[k].project
                                    /\ key'[k].environment = key[k].environment
    <3>1. CASE key[k] = NoKey
      BY <3>1, <1>4 DEF KeyLives
    <3>2. CASE key[k] # NoKey
      <4>1. key[k] \in KeyType
        BY <3>2, KeyFields DEF IInv
      <4>2. /\ [key[k] EXCEPT !.deleted = TRUE] \in KeyType
            /\ [key[k] EXCEPT !.deleted = TRUE].project = key[k].project
            /\ [key[k] EXCEPT !.deleted = TRUE].environment = key[k].environment
        BY <4>1 DEF KeyType
      <4>3. key'[k] = [key[k] EXCEPT !.deleted = TRUE] \/ key'[k] = key[k]
        BY <1>4
      <4> QED  BY <3>2, <4>1, <4>2, <4>3
    <3> QED  BY <3>1, <3>2
  <2>6. key' \in [Key -> KeyType \cup {NoKey}]
    BY <1>4, <2>5
  <2>7. Answers(r, "ok")
    BY <1>4
  <2> HIDE DEF p
  <2>8. Grows
    BY <1>1, <2>2, <2>4 DEF Grows, tenants
  <2>9. request' \in [Request -> RequestType] /\ \A q \in Request : RequestInv(q)'
    BY <1>2, <2>7, <2>8, AnswerInv DEF Answer
  <2>10. KeysOfProjects'
    BY <2>2, <2>4, <2>5, KeyFields DEF IInv, KeysOfProjects
  <2> QED  BY <1>1, <2>4, <2>6, <2>9, <2>10, ProjectsChange
<1> QED  BY <1>3, <1>4 DEF DeleteProject

\* The environment that was read is still the project's.
LEMMA CreateKeyInv ==
  ASSUME ConstantsOK, IInv, NEW r \in Request, CreateKey(r)
  PROVE  IInv'
<1> DEFINE p == OpOf(r).project
           c == [project |-> p, environment |-> KeyEnvironment(r), revoked |-> FALSE,
                 expired |-> FALSE, deleted |-> FALSE]
<1>1. /\ request[r].step = "authorized" /\ Is(r, {"createKey"})
      /\ UNCHANGED <<tenants, project, audit>>
  BY DEF CreateKey, At
<1>2. ~Is(r, AdminOp)
  BY <1>1 DEF Is, AdminOp
<1>3. CASE Answers(r, "error") /\ UNCHANGED key
  BY <1>1, <1>2, <1>3, OnlyAnswers DEF Answer
<1>4. ASSUME NEW k \in Key, key' = [key EXCEPT ![k] = c], Answers(r, "ok")
      PROVE  IInv'
  <2>1. /\ p \in Project /\ project[p] # NoProject
        /\ KeyEnvironment(r) = project[p].environment
    BY <1>1, OpFields DEF IInv, RequestInv, CheckedInv, Is, KeyEnvironment
  <2>2. project[p].environment \in {"test", "live"}
    BY <2>1, ProjectFields DEF IInv
  <2>3. /\ c \in KeyType /\ c # NoKey
        /\ c.project = p /\ c.environment = project[p].environment
    <3>1. c \in KeyType
      BY <2>1, <2>2 DEF KeyType
    <3>2. c.project = p /\ c.environment = project[p].environment
      BY <2>1
    <3> HIDE DEF c
    <3> QED  BY <3>1, <3>2 DEF ConstantsOK
  <2> HIDE DEF c, p
  <2>4. /\ key' \in [Key -> KeyType \cup {NoKey}] /\ key'[k] = c
        /\ \A j \in Key \ {k} : key'[j] = key[j]
    BY <1>4, <2>3 DEF IInv, TypeOK
  <2>5. Grows
    BY <1>1 DEF Grows, tenants
  <2>6. request' \in [Request -> RequestType] /\ \A q \in Request : RequestInv(q)'
    BY <1>2, <1>4, <2>5, AnswerInv DEF Answer
  <2>7. KeysOfProjects' /\ project' \in [Project -> ProjectType \cup {NoProject}]
    BY <1>1, <2>1, <2>3, <2>4 DEF IInv, KeysOfProjects, TypeOK
  <2> QED  BY <1>1, <2>4, <2>6, <2>7, ProjectsChange
<1> QED  BY <1>3, <1>4 DEF CreateKey

\* The key is found, or not.
LEMMA FindKeyInv ==
  ASSUME ConstantsOK, IInv, NEW r \in Request, FindKey(r)
  PROVE  IInv'
<1>1. /\ UNCHANGED <<tenants, project, key, audit>>
      /\ request[r].step = "authorized" /\ Is(r, {"revokeKey", "adminRevoke"})
  BY DEF FindKey, At
<1>2. CASE Answers(r, "rejected")
  BY <1>1, <1>2, OnlyAnswers DEF Answer
<1>3. CASE Answers(r, "ok") /\ Is(r, {"revokeKey"})
  <2>1. ~Is(r, AdminOp)
    BY <1>3 DEF Is, AdminOp
  <2> QED  BY <1>1, <1>3, <2>1, OnlyAnswers DEF Answer
<1>4. CASE Goes(r, "read")
  <2>1. request'[r].step = "read" /\ request'[r].op = request[r].op
    BY <1>4, GoesFields DEF IInv
  <2>2. CheckedInv(r)
    BY DEF IInv, RequestInv
  <2>3. CheckedInv(r)'
    BY <1>1, <2>1, <2>2, SameOp DEF CheckedInv, tenants, Is, AdminOp, Session
  <2> QED  BY <1>1, <1>4, <2>3, OnlyGoes
<1> QED  BY <1>2, <1>3, <1>4 DEF FindKey

\* A key that is revoked or expires keeps its project and environment.
LEMMA KeyChanges ==
  ASSUME ConstantsOK, IInv, NEW k \in Key, key[k] # NoKey,
         \/ key' = [key EXCEPT ![k].revoked = TRUE]
         \/ key' = [key EXCEPT ![k].expired = TRUE],
         UNCHANGED project
  PROVE  key' \in [Key -> KeyType \cup {NoKey}] /\ KeysOfProjects'
<1>1. key[k] \in KeyType
  BY KeyFields DEF IInv
<1>2. PICK c \in {[key[k] EXCEPT !.revoked = TRUE], [key[k] EXCEPT !.expired = TRUE]} :
        key' = [key EXCEPT ![k] = c]
  OBVIOUS
<1>3. /\ c \in KeyType /\ c # NoKey
      /\ c.project = key[k].project /\ c.environment = key[k].environment
  <2>1. CASE c = [key[k] EXCEPT !.revoked = TRUE]
    <3>1. c \in KeyType /\ c.project = key[k].project /\ c.environment = key[k].environment
      BY <1>1, <2>1 DEF KeyType
    <3> QED  BY <3>1 DEF ConstantsOK
  <2>2. CASE c = [key[k] EXCEPT !.expired = TRUE]
    <3>1. c \in KeyType /\ c.project = key[k].project /\ c.environment = key[k].environment
      BY <1>1, <2>2 DEF KeyType
    <3> QED  BY <3>1 DEF ConstantsOK
  <2> QED  BY <1>2, <2>1, <2>2
<1>4. /\ key' \in [Key -> KeyType \cup {NoKey}] /\ key'[k] = c
      /\ \A j \in Key \ {k} : key'[j] = key[j]
  BY <1>2, <1>3 DEF IInv, TypeOK
<1> QED  BY <1>3, <1>4 DEF IInv, KeysOfProjects

\* Who revokes a key answers, or has its row to write.
LEMMA RevokeKeyInv ==
  ASSUME ConstantsOK, IInv, NEW r \in Request, RevokeKey(r)
  PROVE  IInv'
<1> DEFINE k == OpOf(r).key
<1>1. /\ request[r].step = "read" /\ Is(r, {"revokeKey", "adminRevoke"})
      /\ UNCHANGED <<tenants, project, audit>>
  BY DEF RevokeKey, At
<1>2. CASE Answers(r, "error") /\ UNCHANGED key
  BY <1>1, <1>2, OnlyAnswers DEF Answer
<1>3. CASE /\ KeyLives(k) /\ key' = [key EXCEPT ![k].revoked = TRUE]
           /\ IF Is(r, {"revokeKey"}) THEN Answers(r, "ok") ELSE Goes(r, "written")
  <2>1. k \in Key /\ key[k] # NoKey
    BY <1>3, OpFields DEF IInv, KeyLives
  <2>2. key' \in [Key -> KeyType \cup {NoKey}] /\ KeysOfProjects'
    BY <1>1, <1>3, <2>1, KeyChanges
  <2>3. Grows
    BY <1>1 DEF Grows, tenants
  <2>4. request' \in [Request -> RequestType] /\ \A q \in Request : RequestInv(q)'
    <3>1. CASE Is(r, {"revokeKey"})
      <4>1. ~Is(r, AdminOp) /\ Answers(r, "ok")
        BY <1>3, <3>1 DEF Is, AdminOp
      <4> QED  BY <4>1, <2>3, AnswerInv DEF Answer
    <3>2. CASE ~Is(r, {"revokeKey"})
      <4>1. Goes(r, "written") /\ Is(r, {"adminRevoke"})
        BY <1>1, <1>3, <3>2 DEF Is
      <4>2. request'[r].step = "written" /\ request'[r].op = request[r].op
        BY <4>1, GoesFields DEF IInv
      <4>3. CheckedInv(r)
        BY DEF IInv, RequestInv
      <4>4. CheckedInv(r)'
        BY <1>1, <4>1, <4>2, <4>3, SameOp DEF CheckedInv, tenants, Is, AdminOp, Session
      <4> QED  BY <4>1, <4>4, <2>3, GoesInv
    <3> QED  BY <3>1, <3>2
  <2>5. project' \in [Project -> ProjectType \cup {NoProject}]
    BY <1>1 DEF IInv, TypeOK
  <2> QED  BY <1>1, <2>2, <2>4, <2>5, ProjectsChange
<1> QED  BY <1>2, <1>3 DEF RevokeKey

LEMMA KeyExpiresInv ==
  ASSUME ConstantsOK, IInv, NEW k \in Key, KeyExpires(k)
  PROVE  IInv'
<1>1. /\ key[k] # NoKey /\ key' = [key EXCEPT ![k].expired = TRUE]
      /\ UNCHANGED <<tenants, project, audit, request>>
  BY DEF KeyExpires, KeyLives
<1>2. key' \in [Key -> KeyType \cup {NoKey}] /\ KeysOfProjects'
  BY <1>1, KeyChanges
<1>3. Grows
  BY <1>1 DEF Grows, tenants
<1>4. request' \in [Request -> RequestType] /\ \A q \in Request : RequestInv(q)'
  BY <1>1, <1>3, OthersSurvive DEF IInv, TypeOK
<1>5. project' \in [Project -> ProjectType \cup {NoProject}]
  BY <1>1 DEF IInv, TypeOK
<1> QED  BY <1>1, <1>2, <1>4, <1>5, ProjectsChange

-----------------------------------------------------------------------------
(* The administrator.                                                      *)

\* The status of what was found is active or suspended.
LEMMA FoundStatus ==
  ASSUME ConstantsOK, TypeOK, NEW r \in Request, Found(r)
  PROVE  Status(r) \in {"active", "suspended"}
<1>1. CASE Is(r, {"toggleUser"})
  BY <1>1, OpFields DEF Found, Status, TypeOK
<1>2. CASE ~Is(r, {"toggleUser"})
  BY <1>2, OpFields, ProjectFields DEF Found, Status, Lives
<1> QED  BY <1>1, <1>2

LEMMA ReadStatusInv ==
  ASSUME ConstantsOK, IInv, NEW r \in Request, ReadStatus(r)
  PROVE  IInv'
<1> DEFINE s == Status(r)
           c == [request[r] EXCEPT !.step = "read", !.saw = s]
<1>1. /\ UNCHANGED <<tenants, project, key, audit>>
      /\ request[r].step = "authorized" /\ Is(r, {"toggleUser", "toggleProject"})
  BY DEF ReadStatus, At
<1>2. CASE Answers(r, "rejected")
  BY <1>1, <1>2, OnlyAnswers DEF Answer
<1>3. CASE Found(r) /\ Becomes(r, c)
  <2>1. s \in {"active", "suspended"}
    BY <1>3, FoundStatus DEF IInv
  <2> HIDE DEF s
  <2>2. /\ c \in RequestType /\ c.step = "read" /\ c.op = request[r].op
        /\ c.context = request[r].context
        /\ c.seen = request[r].seen /\ c.answer = request[r].answer
    BY <2>1, OpFields DEF IInv, RequestType
  <2> HIDE DEF c
  <2>3. /\ request' \in [Request -> RequestType] /\ request'[r] = c
        /\ \A q \in Request \ {r} : request'[q] = request[q]
    BY <1>3, <2>2, BecomesFields DEF IInv
  <2>4. Grows
    BY <1>1, NothingGrows
  <2>5. CheckedInv(r)'
    <3>1. CheckedInv(r) /\ request'[r].op = request[r].op /\ request'[r].step = "read"
      BY <2>2, <2>3 DEF IInv, RequestInv
    <3> QED  BY <1>1, <3>1, SameOp DEF CheckedInv, tenants, Is, AdminOp, Session
  <2>6. ServedInv(r)' /\ AuditedInv(r)'
    BY <2>2, <2>3, <2>4, ServedSurvives, AuditedSurvives DEF IInv, RequestInv
  <2>7. \A q \in Request : RequestInv(q)'
    BY <2>3, <2>4, <2>5, <2>6, OthersSurvive DEF RequestInv
  <2> QED  BY <1>1, <2>3, <2>7, ReadOnly
<1> QED  BY <1>2, <1>3 DEF ReadStatus, Becomes

\* The change is written, and its row is still to come.
LEMMA Written ==
  ASSUME ConstantsOK, IInv, Grows, NEW r \in Request, request[r].step = "read",
         Is(r, {"toggleUser", "toggleProject"}), Goes(r, "written")
  PROVE  request' \in [Request -> RequestType] /\ \A q \in Request : RequestInv(q)'
<1>1. request'[r].step = "written" /\ request'[r].op = request[r].op
  BY GoesFields DEF IInv
<1>2. CheckedInv(r) /\ OpOf(r).by \in User
  BY OpFields DEF IInv, RequestInv
<1>3. CheckedInv(r)'
  BY <1>1, <1>2, SameOp DEF CheckedInv, Is, AdminOp, Session, Grows
<1> QED  BY <1>3, GoesInv

LEMMA ToggleStatusInv ==
  ASSUME ConstantsOK, IInv, NEW r \in Request, ToggleStatus(r)
  PROVE  IInv'
<1> DEFINE u == OpOf(r).on
           p == OpOf(r).project
           s == Opposite(request[r].saw)
<1>1. /\ request[r].step = "read" /\ Is(r, {"toggleUser", "toggleProject"})
      /\ UNCHANGED <<token, slug, role, key, audit>>
  BY DEF ToggleStatus, At
<1>2. s \in {"active", "suspended"}
  BY DEF Opposite
<1>3. CASE Answers(r, "error") /\ UNCHANGED <<user, project>>
  BY <1>1, <1>3, OnlyAnswers DEF Answer, tenants
<1>4. CASE /\ Found(r) /\ Is(r, {"toggleUser"})
           /\ user' = [user EXCEPT ![u] = s] /\ Goes(r, "written") /\ UNCHANGED project
  <2>1. u \in User /\ user[u] # "none"
    BY <1>4, OpFields DEF IInv, Found
  <2> HIDE DEF s, u
  <2>2. /\ user' \in [User -> {"none", "active", "suspended"}] /\ user'[u] = s
        /\ \A v \in User \ {u} : user'[v] = user[v]
    BY <1>2, <1>4, <2>1 DEF IInv, TypeOK
  <2>3. Grows
    BY <1>1, <1>2, <1>4, <2>2 DEF Grows
  <2>4. request' \in [Request -> RequestType] /\ \A q \in Request : RequestInv(q)'
    BY <1>1, <1>4, <2>3, Written
  <2>5. TypeOK'
    BY <1>1, <1>4, <2>2, <2>4 DEF IInv, TypeOK
  <2>6. WorkspacesAreOwned' /\ MembersOfExisting' /\ KeysOfProjects'
    BY <1>1, <1>4, <2>1, <2>2
       DEF IInv, WorkspacesAreOwned, MembersOfExisting, KeysOfProjects, Exists
  <2> QED  BY <2>4, <2>5, <2>6 DEF IInv
<1>5. CASE /\ Found(r) /\ ~Is(r, {"toggleUser"})
           /\ project' = [project EXCEPT ![p].status = s] /\ Goes(r, "written")
           /\ UNCHANGED user
  <2>1. p \in Project /\ project[p] # NoProject /\ project[p] \in ProjectType
    BY <1>5, OpFields, ProjectFields DEF IInv, Found, Lives
  <2> DEFINE c == [project[p] EXCEPT !.status = s]
  <2> HIDE DEF s
  <2>2. /\ c \in ProjectType /\ c.org = project[p].org
        /\ c.environment = project[p].environment
    BY <1>2, <2>1 DEF ProjectType
  <2>3. project' = [project EXCEPT ![p] = c]
    BY <1>5
  <2> HIDE DEF c, p
  <2>4. c # NoProject
    BY <2>2 DEF ConstantsOK
  <2>5. /\ project' \in [Project -> ProjectType \cup {NoProject}]
        /\ project'[p] = c /\ \A q \in Project \ {p} : project'[q] = project[q]
    BY <2>1, <2>2, <2>3 DEF IInv, TypeOK
  <2>6. Grows
    BY <1>1, <1>5, <2>2, <2>4, <2>5 DEF Grows
  <2>7. request' \in [Request -> RequestType] /\ \A q \in Request : RequestInv(q)'
    BY <1>1, <1>5, <2>6, Written
  <2>8. KeysOfProjects' /\ key' \in [Key -> KeyType \cup {NoKey}]
    BY <1>1, <2>2, <2>4, <2>5, KeyFields DEF IInv, KeysOfProjects, TypeOK
  <2>9. UNCHANGED <<tenants, audit>>
    BY <1>1, <1>5 DEF tenants
  <2> QED  BY <2>5, <2>7, <2>8, <2>9, ProjectsChange
<1> QED  BY <1>3, <1>4, <1>5 DEF ToggleStatus

\* The row is written before the answer.
LEMMA AuditAdminInv ==
  ASSUME ConstantsOK, IInv, NEW r \in Request, AuditAdmin(r)
  PROVE  IInv'
<1> DEFINE row == [by |-> OpOf(r).by, did |-> OpOf(r)]
<1>1. /\ request[r].step = "written" /\ Answers(r, "ok")
      /\ audit' = audit \cup {row}
      /\ UNCHANGED <<tenants, project, key>>
  BY DEF AuditAdmin, At, Recorded
<1>2. OpOf(r).by \in Admin /\ OpOf(r) \in Op
  BY <1>1, OpFields DEF IInv, RequestInv, CheckedInv
<1>3. row \in [by : Admin, did : Op] /\ row.did = OpOf(r) /\ row.by = OpOf(r).by
  BY <1>2
<1> HIDE DEF row
<1>4. audit' \in SUBSET [by : Admin, did : Op]
  BY <1>1, <1>3 DEF IInv, TypeOK
<1>5. Grows
  BY <1>1 DEF Grows, tenants
<1>6. request' \in [Request -> RequestType] /\ \A q \in Request : RequestInv(q)'
  BY <1>1, <1>3, <1>5, AnswerInv DEF Answer
<1>7. TypeOK'
  BY <1>1, <1>4, <1>6 DEF IInv, TypeOK, tenants
<1>8. WorkspacesAreOwned' /\ MembersOfExisting' /\ KeysOfProjects'
  BY <1>1 DEF IInv, WorkspacesAreOwned, MembersOfExisting, KeysOfProjects, Exists, tenants
<1> QED  BY <1>6, <1>7, <1>8 DEF IInv

-----------------------------------------------------------------------------
(* The theorems.                                                           *)

\* What the requests find is a workspace their own steps leave behind.
LEMMA InitInv ==
  ASSUME ConstantsOK, Init
  PROVE  IInv
<1>1. PICK s \in Start : /\ user = s.user /\ token = s.token /\ slug = s.slug
                         /\ role = s.role /\ project = s.project /\ key = s.key
  BY DEF Init
<1>2. WellFormed(s)
  BY DEF ConstantsOK
<1>3. PICK op \in [Request -> Op] :
        request = [r \in Request |->
                    [step |-> "new", op |-> op[r], slug |-> NoSlug, saw |-> "none",
                     context |-> NoContext, seen |-> {}, answer |-> "none"]]
  BY DEF Init
<1>4. TypeOK
  <2>1. request \in [Request -> RequestType]
    BY <1>3 DEF RequestType, Answer
  <2>2. audit \in SUBSET [by : Admin, did : Op]
    BY DEF Init
  <2> QED  BY <1>1, <1>2, <2>1, <2>2 DEF TypeOK, WellFormed
<1>5. WorkspacesAreOwned /\ MembersOfExisting /\ KeysOfProjects
  BY <1>1, <1>2 DEF WellFormed, WorkspacesAreOwned, MembersOfExisting, KeysOfProjects, Exists
<1>6. \A r \in Request : RequestInv(r)
  BY <1>3 DEF RequestInv, ServedInv, AuditedInv, CheckedInv
<1> QED  BY <1>4, <1>5, <1>6 DEF IInv

\* Every step keeps the invariant.
LEMMA StepInv ==
  ASSUME ConstantsOK, IInv, [Next]_vars
  PROVE  IInv'
<1>1. ASSUME NEW r \in Request, Proceed(r)  PROVE IInv'
  BY <1>1, AuthenticateUserInv, AuthorizeAdminInv, RequireOrgRoleInv,
     LoadAndAuthorizeProjectInv, ResolveProjectContextInv, AuthenticateApiKeyInv,
     ServedOrFailInv, LookUpEmailInv, NameOrganizationInv, CreateOrganizationInv, LoginInv,
     CheckSlugInv, PatchOrganizationInv, CreateProjectInv, PatchProjectInv,
     DeleteProjectInv, ReadMembershipsInv, ListProjectsInv, CreateKeyInv, FindKeyInv,
     RevokeKeyInv, ReadStatusInv, ToggleStatusInv, AuditAdminInv DEF Proceed
<1>2. CASE UNCHANGED vars
  <2>1. /\ UNCHANGED <<tenants, project, key, audit>> /\ UNCHANGED request
    BY <1>2 DEF vars, tenants
  <2>2. Grows
    BY <2>1, NothingGrows
  <2>3. request' \in [Request -> RequestType] /\ \A q \in Request : RequestInv(q)'
    BY <2>1, <2>2, OthersSurvive DEF IInv, TypeOK
  <2> QED  BY <2>1, <2>3, ReadOnly
<1> QED  BY <1>1, <1>2, TokenExpiresInv, KeyExpiresInv DEF Next

\* The invariant is one.
LEMMA Invariance ==
  ASSUME ConstantsOK  PROVE Spec => []IInv
<1>1. Init => IInv
  BY InitInv
<1>2. IInv /\ [Next]_vars => IInv'
  BY StepInv
<1> QED  BY <1>1, <1>2, PTL DEF Spec

\* Users, memberships, projects, keys and the requests that change them keep their types.
THEOREM StateIsTyped ==
  ASSUME ConstantsOK  PROVE Spec => []TypeOK
<1>1. IInv => TypeOK
  BY DEF IInv
<1>2. Spec => []IInv
  BY Invariance
<1> QED  BY <1>1, <1>2, PTL

\* A request is served, through a session or a key, only a project of an organization
\* its user belongs to, in that project's own environment, for any interleaving of
\* requests that create, patch, suspend and delete it (middleware/auth.ts).
THEOREM TenantsStayApart ==
  ASSUME ConstantsOK  PROVE Spec => []TenantsApart
<1>1. IInv => TenantsApart
  BY DEF IInv, RequestInv, ServedInv, TenantsApart
<1>2. Spec => []IInv
  BY Invariance
<1> QED  BY <1>1, <1>2, PTL

\* Registrations leave no user without a workspace, no workspace without an owner and
\* no slug twice, and no administrative action is answered without its row, whichever
\* statement fails (auth.routes.ts, admin.routes.ts).
THEOREM NothingIsHalfDone ==
  ASSUME ConstantsOK  PROVE Spec => []NothingHalfDone
<1>1. IInv => NothingHalfDone
  BY DEF IInv, RequestInv, AuditedInv, AnsweredIsAudited, NothingHalfDone
<1>2. Spec => []IInv
  BY Invariance
<1> QED  BY <1>1, <1>2, PTL

-----------------------------------------------------------------------------
(* Authorization when the change is made.                                  *)

\* The steps that change a project, or add a key.
Changes(r) == CreateProject(r) \/ DeleteProject(r) \/ ToggleStatus(r) \/ CreateKey(r)

LEMMA WhoChanges ==
  ASSUME TypeOK, [Next]_vars,
         ~(UNCHANGED project /\ \A k \in Key : key[k] = NoKey => key'[k] = NoKey)
  PROVE  \E r \in Request : Changes(r)
<1>1. ASSUME NEW r \in Request, Proceed(r), ~Changes(r)
      PROVE  UNCHANGED project /\ \A k \in Key : key[k] = NoKey => key'[k] = NoKey
  <2>1. CASE RevokeKey(r)
    <3>1. UNCHANGED project
      BY <2>1 DEF RevokeKey
    <3>2. key' = key \/ key' = [key EXCEPT ![OpOf(r).key].revoked = TRUE]
      BY <2>1 DEF RevokeKey
    <3>3. key' = key \/ KeyLives(OpOf(r).key)
      BY <2>1 DEF RevokeKey
    <3>4. ASSUME NEW k \in Key, key[k] = NoKey  PROVE key'[k] = NoKey
      <4>1. CASE key' = key
        BY <3>4, <4>1
      <4>2. CASE KeyLives(OpOf(r).key) /\ key' = [key EXCEPT ![OpOf(r).key].revoked = TRUE]
        <5>1. k # OpOf(r).key
          BY <3>4, <4>2 DEF KeyLives
        <5> QED  BY <3>4, <4>2, <5>1 DEF TypeOK
      <4> QED  BY <3>2, <3>3, <4>1, <4>2
    <3> QED  BY <3>1, <3>4
  <2>2. CASE ~RevokeKey(r)
    BY <1>1, <2>2 DEF Proceed, Changes, AuthenticateUser, AuthorizeAdmin, RequireOrgRole,
       LoadAndAuthorizeProject, ResolveProjectContext, AuthenticateApiKey, Served,
       LookUpEmail, NameOrganization, CreateOrganization, Login, CheckSlug,
       PatchOrganization, PatchProject, ReadMemberships, ListProjects, FindKey, ReadStatus,
       AuditAdmin, Fail
  <2> QED  BY <2>1, <2>2
<1>2. ASSUME NEW u \in User, TokenExpires(u)
      PROVE  UNCHANGED <<project, key>>
  BY <1>2 DEF TokenExpires
<1>3. ASSUME NEW x \in Key, KeyExpires(x)
      PROVE  UNCHANGED project /\ \A k \in Key : key[k] = NoKey => key'[k] = NoKey
  BY <1>3 DEF KeyExpires, KeyLives
<1>4. CASE UNCHANGED vars
  BY <1>4 DEF vars
<1> QED  BY <1>1, <1>2, <1>3, <1>4 DEF Next

\* What makes a change of p a lawful one.
ByRight(r, p) ==
  \/ OpOf(r).by \in Admin
  \/ /\ role[project'[p].org][OpOf(r).by] \in Allowed(OpOf(r).name)
     /\ user[OpOf(r).by] # "none"

\* Whoever takes such a step holds the role at that moment.
LEMMA ChangesByRight ==
  ASSUME ConstantsOK, IInv, NEW r \in Request, Changes(r),
         NEW p \in Project, project'[p] # project[p]
  PROVE  request'[r] # request[r] /\ ByRight(r, p)
<1>1. CheckedInv(r)
  BY DEF IInv, RequestInv
<1>2. CASE CreateProject(r)
  <2>1. request[r].step = "authorized" /\ Is(r, {"createProject"}) /\ Answers(r, "ok")
    BY <1>2 DEF CreateProject, At
  <2>2. request'[r].step = "done"
    BY <2>1, AnswersFields DEF IInv, Answer
  <2>3. PICK q \in Project :
          project' = [project EXCEPT ![q] = [org |-> OpOf(r).org, status |-> "active",
                                             environment |-> OpOf(r).environment]]
    BY <1>2 DEF CreateProject
  <2>4. project'[p].org = OpOf(r).org
    BY <2>3 DEF IInv, TypeOK
  <2>5. /\ role[OpOf(r).org][OpOf(r).by] \in Allowed(OpOf(r).name)
        /\ user[OpOf(r).by] # "none"
    BY <1>1, <2>1 DEF CheckedInv, Is, Session, OpName
  <2> QED  BY <2>1, <2>2, <2>4, <2>5 DEF ByRight
<1>3. CASE DeleteProject(r)
  <2>1. request[r].step = "authorized" /\ Is(r, {"deleteProject"})
    BY <1>3 DEF DeleteProject, At
  <2>2. Answers(r, "ok") /\ project' = [project EXCEPT ![OpOf(r).project].status = "deleted"]
    BY <1>3 DEF DeleteProject
  <2>3. request'[r].step = "done"
    BY <2>2, AnswersFields DEF IInv, Answer
  <2>4. p = OpOf(r).project /\ project[p] # NoProject
        /\ role[project[p].org][OpOf(r).by] \in Allowed(OpOf(r).name)
        /\ user[OpOf(r).by] # "none"
    BY <1>1, <2>1, <2>2 DEF CheckedInv, Is, Session, OpName, IInv, TypeOK
  <2>5. project[p] \in ProjectType
    BY <2>4, ProjectFields DEF IInv
  <2>6. project'[p] = [project[p] EXCEPT !.status = "deleted"]
    BY <2>2, <2>4 DEF IInv, TypeOK
  <2>7. project'[p].org = project[p].org
    BY <2>5, <2>6 DEF ProjectType
  <2> QED  BY <2>1, <2>3, <2>4, <2>7 DEF ByRight
<1>4. CASE ToggleStatus(r)
  <2>1. request[r].step = "read" /\ Is(r, {"toggleUser", "toggleProject"})
    BY <1>4 DEF ToggleStatus, At
  <2>2. Goes(r, "written")
    BY <1>4 DEF ToggleStatus
  <2>3. request'[r].step = "written"
    BY <2>2, GoesFields DEF IInv
  <2>4. OpOf(r).by \in Admin
    BY <1>1, <2>1 DEF CheckedInv, Is, AdminOp
  <2> QED  BY <2>1, <2>3, <2>4 DEF ByRight
<1>5. CASE CreateKey(r)
  BY <1>5 DEF CreateKey
<1> QED  BY <1>2, <1>3, <1>4, <1>5 DEF Changes

LEMMA KeysByRight ==
  ASSUME ConstantsOK, IInv, NEW r \in Request, Changes(r),
         NEW k \in Key, key[k] = NoKey, key'[k] # NoKey
  PROVE  /\ request'[r] # request[r]
         /\ role[project[key'[k].project].org][OpOf(r).by] \in Allowed("createKey")
<1>1. CheckedInv(r)
  BY DEF IInv, RequestInv
<1>2. CreateKey(r)
  BY DEF Changes, CreateProject, DeleteProject, ToggleStatus, KeyLives
<1>3. request[r].step = "authorized" /\ Is(r, {"createKey"})
  BY <1>2 DEF CreateKey, At
<1> DEFINE c == [project |-> OpOf(r).project, environment |-> KeyEnvironment(r),
                 revoked |-> FALSE, expired |-> FALSE, deleted |-> FALSE]
<1>4. Answers(r, "ok") /\ \E j \in Key : key' = [key EXCEPT ![j] = c]
  BY <1>2 DEF CreateKey
<1>5. request'[r].step = "done"
  BY <1>4, AnswersFields DEF IInv, Answer
<1>6. c.project = OpOf(r).project
  OBVIOUS
<1> HIDE DEF c
<1>7. key'[k] = c
  BY <1>4 DEF IInv, TypeOK
<1>8. role[project[OpOf(r).project].org][OpOf(r).by] \in Allowed("createKey")
  BY <1>1, <1>3 DEF CheckedInv, Is
<1> QED  BY <1>3, <1>5, <1>6, <1>7, <1>8

\* Whoever changes a project, or adds a key to one, is an administrator or holds a role
\* for it when the change is made, although the role was checked in an earlier query
\* and other requests have changed the workspace since.
THEOREM ChangesStayAuthorized ==
  ASSUME ConstantsOK  PROVE Spec => ChangesAreAuthorized
<1>1. ASSUME IInv, [Next]_vars  PROVE AuthorizedChange
  <2>1. ASSUME NEW p \in Project, project'[p] # project[p]
        PROVE  \E r \in Request : request'[r] # request[r] /\ ByRight(r, p)
    BY <1>1, <2>1, WhoChanges, ChangesByRight DEF IInv
  <2>2. ASSUME NEW k \in Key, key[k] = NoKey, key'[k] # NoKey
        PROVE  \E r \in Request :
                 /\ request'[r] # request[r]
                 /\ role[project[key'[k].project].org][OpOf(r).by] \in Allowed("createKey")
    BY <1>1, <2>2, WhoChanges, KeysByRight DEF IInv
  <2> QED  BY <2>1, <2>2 DEF AuthorizedChange, ByRight
<1>2. IInv /\ [Next]_vars => [AuthorizedChange]_vars
  BY <1>1
<1>3. Spec => []IInv
  BY Invariance
<1> QED  BY <1>2, <1>3, PTL DEF Spec, ChangesAreAuthorized
=============================================================================
