--------------------------- MODULE Administration ---------------------------
(***************************************************************************)
(* Roles and users of the catalogue manager, Strapi, as the middleware     *)
(* keeps them in step with its own tables, and who is let in by them:      *)
(*                                                                         *)
(*   createRole, createUser, getRoles   StrapiAdminService                 *)
(*   login                              AuthService.adminLogin             *)
(*   access                             AclService, behind findAll and     *)
(*                                      findOne of the applications        *)
(*                                                                         *)
(* createRole and createUser are three calls in a row to two systems, with *)
(* no compensation.  Each may fail, an answer of Strapi may be lost after  *)
(* Strapi did what it was asked, and calls interleave; a crash is the      *)
(* failure of every call in flight.  Strapi (external) refuses a role name *)
(* or an email it has, and administration by anybody but a Super Admin.    *)
(* A person is the email and the Strapi id; a role is its name and the ids *)
(* and code derived from it.                                               *)
(***************************************************************************)
EXTENDS ErrorReporting, FiniteSets

CONSTANTS
  Call,          \* calls of the endpoints, retries included
  Role,          \* names of provider roles
  SuperAdmin,    \* the role "Super Admin"
  Person,        \* people
  Root,          \* the administrator set up with the system
  OpSets         \* bound: the sets of endpoints called in one behaviour

Endpoint == {"createRole", "createUser", "getRoles", "login", "access"}

ASSUME OpsAssumption == OpSets \subseteq SUBSET Endpoint
ASSUME RootAssumption == Root \in Person
ASSUME SuperAssumption == SuperAdmin \notin Role
ASSUME NonePerson == None \notin Person

Roles == SUBSET (Role \union {SuperAdmin})

\* The authorization header: absent or without "Bearer", not a JWT, expired or
\* good; the last two name a person.
Token == [form : {"absent", "garbled"}, person : {None}]
           \union [form : {"expired", "good"}, person : Person]

Good == {t \in Token : t.form = "good"}

\* A request; without a good token only login reads more than the token.
RefusedRequest == [op : Endpoint \ {"login"}, token : Token \ Good]
RoleRequest == [op : {"createRole"}, token : Good, role : Role]
UserRequest == [op : {"createUser"}, token : Good, person : Person, roles : Roles]
ListRequest == [op : {"getRoles"}, token : Good]
LoginRequest ==
  [op : {"login"}, token : Token, person : Person, password : {"right", "wrong"}]
AccessRequest == [op : {"access"}, token : Good, creator : Person \union {None}]
Body == RefusedRequest \union RoleRequest \union UserRequest
          \union ListRequest \union LoginRequest \union AccessRequest

ASSUME NoBodyAssumption == None \notin Body

StrapiUser == [roles : Roles, active : BOOLEAN]
User == [s_roles : Roles]
ASSUME NoUserAssumption == None \notin StrapiUser \union User

\* The steps of each handler.
RoleSteps == {"addRole", "provider", "fields", "permissions"}
UserSteps == {"invite", "register", "record"}
LoginSteps == {"strapiLogin", "loginRecord"}
AccessSteps == {"benefit", "loginUser", "orgUser"}
InFlight == RoleSteps \union UserSteps \union {"list"} \union LoginSteps \union AccessSteps

VARIABLES
  pc,            \* pc[c]: the step call c takes next
  body,          \* body[c]: the request, None before it arrives
  answer,        \* answer[c]: the status it was answered, None before
  strapiRoles,   \* the roles Strapi has
  permitted,     \* those with the permissions of a provider
  strapiUsers,   \* strapiUsers[p]: what Strapi has of person p, or None
  providers,     \* table Provider: roles
  users,         \* table Users: users[p], or None
  ops            \* the endpoints that are called

vars == <<pc, body, answer, strapiRoles, permitted, strapiUsers, providers, users, ops>>
strapi == <<strapiRoles, permitted, strapiUsers>>
tables == <<providers, users>>

\* Earlier roles are complete; the administrator has an account in Strapi and
\* perhaps a record.
Init ==
  /\ pc = [c \in Call |-> "idle"]
  /\ body = [c \in Call |-> None]
  /\ answer = [c \in Call |-> None]
  /\ strapiRoles \in SUBSET Role
  /\ permitted = strapiRoles
  /\ providers = strapiRoles
  /\ strapiUsers = [p \in Person |->
       IF p = Root THEN [roles |-> {SuperAdmin}, active |-> TRUE] ELSE None]
  /\ users \in {[p \in Person |-> IF p = Root THEN u ELSE None] :
               u \in {None, [s_roles |-> {SuperAdmin}]}}
  /\ ops \in OpSets

Goto(c, step) == pc' = [pc EXCEPT ![c] = step]

EndsWith(c, status) == Goto(c, "done") /\ answer' = [answer EXCEPT ![c] = status]

GoesOn(c, step) == Goto(c, step) /\ UNCHANGED answer

\* Every handler here catches what is thrown: the status of an AxiosError is
\* kept, 400 without an answer, and anything else is a 500.
Throws(c, e) == EndsWith(c, Status(Rethrown(e, 400, 500)))

-----------------------------------------------------------------------------
(* Arrival *)

\* AuthMiddleware, on every route: a Bearer token must decode and name somebody
\* with a record.
PassesMiddleware(token) ==
  \/ token.form = "absent"
  \/ token.form \in {"expired", "good"} /\ users[token.person] # None

\* AuthGuard, on every route here but login.
PassesGuard(op, token) == op = "login" \/ token.form = "good"

FirstStep(op) ==
  CASE op = "createRole" -> "addRole"
    [] op = "createUser" -> "invite"
    [] op = "getRoles" -> "list"
    [] op = "login" -> "strapiLogin"
    [] op = "access" -> "benefit"

Receive(c) ==
  /\ pc[c] = "idle"
  /\ \E q \in Body :
       /\ q.op \in ops
       /\ body' = [body EXCEPT ![c] = q]
       /\ IF PassesMiddleware(q.token) /\ PassesGuard(q.op, q.token)
            THEN GoesOn(c, FirstStep(q.op))
            ELSE EndsWith(c, 401)
  /\ UNCHANGED <<strapi, tables, ops>>

\* A call fails before the other side has done anything.
Breaks(c) ==
  /\ pc[c] \in InFlight
  /\ \/ pc[c] \in {"provider", "record", "loginRecord"} /\ Throws(c, Other)
     \/ pc[c] = "fields" /\ Throws(c, Http(500))   \* no fields of a benefit in it
     \/ /\ pc[c] \in {"addRole", "fields", "permissions", "invite", "register",
                      "list", "strapiLogin"}
        /\ Throws(c, Axios(None))
     \/ pc[c] \in {"benefit", "loginUser", "orgUser"} /\ EndsWith(c, 401)
  /\ UNCHANGED <<body, strapi, tables, ops>>

\* Strapi lets a Super Admin administer.
Administrator(c) ==
  LET u == strapiUsers[body[c].token.person] IN u # None /\ SuperAdmin \in u.roles

\* The answer of Strapi arrives, or is lost on the way.
AnswerArrivesOrNot(c, step) == GoesOn(c, step) \/ Throws(c, Axios(None))

-----------------------------------------------------------------------------
(* createRole *)

\* Variant with a fault: a role that exists already is taken over.
AddRoleOrTakeOver(c) ==
  /\ pc[c] = "addRole"
  /\ IF Administrator(c)
       THEN strapiRoles' = strapiRoles \union {body[c].role} /\ AnswerArrivesOrNot(c, "provider")
       ELSE UNCHANGED strapiRoles /\ Throws(c, Axios(400))
  /\ UNCHANGED <<body, permitted, strapiUsers, tables, ops>>

AddRole(c) ==
  /\ pc[c] = "addRole"
  /\ IF Administrator(c) /\ body[c].role \notin strapiRoles
       THEN strapiRoles' = strapiRoles \union {body[c].role} /\ AnswerArrivesOrNot(c, "provider")
       ELSE UNCHANGED strapiRoles /\ Throws(c, Axios(400))
  /\ UNCHANGED <<body, permitted, strapiUsers, tables, ops>>

\* createProviderInDatabase: the name is unique.
CreateProvider(c) ==
  /\ pc[c] = "provider"
  /\ IF body[c].role \in providers
       THEN Throws(c, Other) /\ UNCHANGED providers
       ELSE /\ providers' = providers \union {body[c].role}
            /\ GoesOn(c, "fields")
  /\ UNCHANGED <<body, strapi, users, ops>>

GetFields(c) ==
  /\ pc[c] = "fields"
  /\ GoesOn(c, "permissions")
  /\ UNCHANGED <<body, strapi, tables, ops>>

\* Variant with a fault: the error of this last call is not passed on.
AddPermissionsAnyway(c) ==
  /\ pc[c] = "permissions"
  /\ permitted' \in {permitted, permitted \union {body[c].role}}
  /\ EndsWith(c, 200)
  /\ UNCHANGED <<body, strapiRoles, strapiUsers, tables, ops>>

AddPermissions(c) ==
  /\ pc[c] = "permissions"
  /\ permitted' = permitted \union {body[c].role}
  /\ EndsWith(c, 200) \/ Throws(c, Axios(None))
  /\ UNCHANGED <<body, strapiRoles, strapiUsers, tables, ops>>

-----------------------------------------------------------------------------
(* createUser *)

\* Strapi knows the roles and not the email.
AddUserToRole(c) ==
  /\ pc[c] = "invite"
  /\ LET q == body[c] IN
     IF /\ Administrator(c)
        /\ strapiUsers[q.person] = None
        /\ q.roles \subseteq strapiRoles \union {SuperAdmin}
       THEN /\ strapiUsers' = [strapiUsers EXCEPT ![q.person] =
                 [roles |-> q.roles, active |-> FALSE]]
            /\ AnswerArrivesOrNot(c, "register")
       ELSE UNCHANGED strapiUsers /\ Throws(c, Axios(400))
  /\ UNCHANGED <<body, strapiRoles, permitted, tables, ops>>

\* The registration token of the invitation makes the account active.
RegisterUser(c) ==
  /\ pc[c] = "register"
  /\ strapiUsers' = [strapiUsers EXCEPT ![body[c].person] =
       [roles |-> @.roles, active |-> TRUE]]
  /\ AnswerArrivesOrNot(c, "record")
  /\ UNCHANGED <<body, strapiRoles, permitted, tables, ops>>

\* Variant with a fault: the roles are not stored with the user.
RecordWithoutRoles(c) ==
  /\ pc[c] = "record"
  /\ IF users[body[c].person] # None
       THEN Throws(c, Other) /\ UNCHANGED users
       ELSE /\ users' = [users EXCEPT ![body[c].person] = [s_roles |-> {}]]
            /\ EndsWith(c, 200)
  /\ UNCHANGED <<body, strapi, providers, ops>>

\* createUserInDatabase: email and s_id are unique.
CreateUserInDatabase(c) ==
  /\ pc[c] = "record"
  /\ IF users[body[c].person] # None
       THEN Throws(c, Other) /\ UNCHANGED users
       ELSE /\ users' = [users EXCEPT ![body[c].person] = [s_roles |-> body[c].roles]]
            /\ EndsWith(c, 200)
  /\ UNCHANGED <<body, strapi, providers, ops>>

-----------------------------------------------------------------------------
(* getRoles and login *)

GetCatalogRoles(c) ==
  /\ pc[c] = "list"
  /\ IF Administrator(c) THEN EndsWith(c, 200) ELSE Throws(c, Axios(401))
  /\ UNCHANGED <<body, strapi, tables, ops>>

\* Strapi knows the account and the password.
StrapiLogin(c) ==
  /\ pc[c] = "strapiLogin"
  /\ LET u == strapiUsers[body[c].person] IN
     IF u # None /\ u.active /\ body[c].password = "right"
       THEN GoesOn(c, "loginRecord")
       ELSE Throws(c, Axios(400))
  /\ UNCHANGED <<body, strapi, tables, ops>>

\* An account without a record is refused as unauthorized, which the catch block
\* makes a 500.
LoginRecord(c) ==
  /\ pc[c] = "loginRecord"
  /\ IF users[body[c].person] # None THEN EndsWith(c, 200) ELSE Throws(c, Http(401))
  /\ UNCHANGED <<body, strapi, tables, ops>>

-----------------------------------------------------------------------------
(* canAccessBenefit: three reads; whatever is missing denies access *)

AccessBenefit(c) ==
  /\ pc[c] = "benefit"
  /\ IF body[c].creator = None THEN EndsWith(c, 401) ELSE GoesOn(c, "loginUser")
  /\ UNCHANGED <<body, strapi, tables, ops>>

AccessLoginUser(c) ==
  /\ pc[c] = "loginUser"
  /\ IF users[body[c].token.person] = None THEN EndsWith(c, 401) ELSE GoesOn(c, "orgUser")
  /\ UNCHANGED <<body, strapi, tables, ops>>

\* Variant with a fault: a creator without a record keeps nobody out.
AccessWithoutOrgUser(mine, theirs) ==
  theirs = None \/ SuperAdmin \in mine.s_roles \/ mine.s_roles \intersect theirs.s_roles # {}

\* The roles of the caller and of the creator of the benefit.
MayAccess(mine, theirs) ==
  /\ theirs # None
  /\ SuperAdmin \in mine.s_roles \/ mine.s_roles \intersect theirs.s_roles # {}

AccessOrgUser(c) ==
  /\ pc[c] = "orgUser"
  /\ EndsWith(c, IF MayAccess(users[body[c].token.person], users[body[c].creator])
                   THEN 200 ELSE 401)
  /\ UNCHANGED <<body, strapi, tables, ops>>

-----------------------------------------------------------------------------

Step(c) ==
  \/ AddRole(c) \/ CreateProvider(c) \/ GetFields(c) \/ AddPermissions(c)
  \/ AddUserToRole(c) \/ RegisterUser(c) \/ CreateUserInDatabase(c)
  \/ GetCatalogRoles(c)
  \/ StrapiLogin(c) \/ LoginRecord(c)
  \/ AccessBenefit(c) \/ AccessLoginUser(c) \/ AccessOrgUser(c)
  \/ Breaks(c)

Next == \E c \in Call : Receive(c) \/ Step(c)

Spec == Init /\ [][Next]_vars

-----------------------------------------------------------------------------

TypeOK ==
  /\ pc \in [Call -> {"idle", "done"} \union InFlight]
  /\ body \in [Call -> Body \union {None}]
  /\ answer \in [Call -> {200, 400, 401, 500, None}]
  /\ \A c \in Call : answer[c] # None <=> pc[c] = "done"
  /\ strapiRoles \subseteq Role
  /\ permitted \subseteq Role
  /\ strapiUsers \in [Person -> StrapiUser \union {None}]
  /\ providers \subseteq Role
  /\ users \in [Person -> User \union {None}]
  /\ ops \in OpSets

\* The call that is making a role, or a person's account, right now.
Making(c, op) == body[c] # None /\ body[c].op = op /\ pc[c] \in InFlight \ {"addRole", "invite"}

CompleteRole(n) == n \in strapiRoles \intersect providers \intersect permitted
CompletePerson(p) ==
  strapiUsers[p] # None /\ strapiUsers[p].active /\ users[p] = [s_roles |-> strapiUsers[p].roles]

\* What createRole and createUser answer is made in both systems, and alike.
AnsweredIsComplete ==
  \A c \in Call : answer[c] = 200 =>
    /\ body[c].op = "createRole" => CompleteRole(body[c].role)
    /\ body[c].op = "createUser" => CompletePerson(body[c].person)

\* A role or an account left half made is the doing of a call that failed, or is
\* still at work; so is the person whom login and the token check turn away with
\* the right password.
HalfMadeHasItsCall ==
  /\ \A n \in strapiRoles : CompleteRole(n) \/ \E c \in Call :
       /\ pc[c] \in InFlight \/ answer[c] \in {400, 500}
       /\ body[c].op = "createRole" /\ body[c].role = n
  /\ \A p \in Person \ {Root} : strapiUsers[p] = None \/ CompletePerson(p) \/ \E c \in Call :
       /\ pc[c] \in InFlight \/ answer[c] \in {400, 500}
       /\ body[c].op = "createUser" /\ body[c].person = p

\* No half-made role or account is ever completed by trying again: once nobody is
\* working on it, every later call fails on the name or the email, as nothing takes
\* the first step back.
StuckRole(n) ==
  /\ n \in strapiRoles /\ ~CompleteRole(n)
  /\ \A c \in Call : ~(Making(c, "createRole") /\ body[c].role = n)
StuckPerson(p) ==
  /\ strapiUsers[p] # None /\ users[p] = None
  /\ \A c \in Call : ~(Making(c, "createUser") /\ body[c].person = p)

StuckStays ==
  [][/\ \A n \in Role : StuckRole(n) => StuckRole(n)'
     /\ \A p \in Person : StuckPerson(p) => StuckPerson(p)']_vars

\* Applications are shown to somebody recorded who is a Super Admin or shares a
\* role with the recorded creator of their benefit, as far as Strapi's own roles
\* say: the two systems cannot disagree about a recorded person.
AccessIsByStrapiRoles ==
  \A c \in Call : answer[c] = 200 /\ body[c].op = "access" =>
    LET mine == strapiUsers[body[c].token.person]
        theirs == strapiUsers[body[c].creator]
    IN /\ mine # None /\ theirs # None /\ mine.active /\ theirs.active
       /\ SuperAdmin \in mine.roles \/ mine.roles \intersect theirs.roles # {}

\* Every step is taken by a handler that reads a request of its own kind.
BodyAtStep ==
  \A c \in Call :
    /\ pc[c] \in RoleSteps => body[c] \in RoleRequest
    /\ pc[c] \in UserSteps => body[c] \in UserRequest
    /\ pc[c] = "list" => body[c] \in ListRequest
    /\ pc[c] \in LoginSteps => body[c] \in LoginRequest
    /\ pc[c] \in AccessSteps => body[c] \in AccessRequest

\* What a call has done before the step it takes next.
Progress ==
  \A c \in Call :
    /\ pc[c] \in {"provider", "fields", "permissions"} => body[c].role \in strapiRoles
    /\ pc[c] \in {"fields", "permissions"} => body[c].role \in providers
    /\ pc[c] \in {"register", "record"} =>
         /\ strapiUsers[body[c].person] # None
         /\ strapiUsers[body[c].person].roles = body[c].roles
    /\ pc[c] = "record" => strapiUsers[body[c].person].active
    /\ pc[c] \in {"loginUser", "orgUser"} => body[c].creator # None
    /\ pc[c] = "orgUser" => users[body[c].token.person] # None

\* Everybody recorded has an active account in Strapi with the recorded roles.
RecordsAgree == \A p \in Person : users[p] # None => CompletePerson(p)

\* The inductive invariant behind the theorems.
AdministrationInv ==
  /\ TypeOK
  /\ BodyAtStep
  /\ Progress
  /\ RecordsAgree
  /\ AnsweredIsComplete
  /\ HalfMadeHasItsCall
  /\ AccessIsByStrapiRoles
=============================================================================
