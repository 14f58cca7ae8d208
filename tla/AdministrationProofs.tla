------------------------ MODULE AdministrationProofs ------------------------
(***************************************************************************)
(* What the administration of roles and users guarantees for any number of *)
(* calls, roles and people.                                                *)
(***************************************************************************)
EXTENDS Administration, TLAPS

USE NoStatusAssumption, NonePerson, NoBodyAssumption, NoUserAssumption, RootAssumption,
    SuperAssumption

\* The status that each error thrown here ends in.
LEMMA Statuses ==
  /\ Status(Rethrown(Axios(None), 400, 500)) = 400
  /\ Status(Rethrown(Axios(400), 400, 500)) = 400
  /\ Status(Rethrown(Axios(401), 400, 500)) = 401
  /\ Status(Rethrown(Other, 400, 500)) = 500
  /\ Status(Rethrown(Http(401), 400, 500)) = 500
  /\ Status(Rethrown(Http(500), 400, 500)) = 500
BY DEF Status, Rethrown, Axios, Http, Other

\* A request that passes the guard is one of its endpoint, and a login may be any.
LEMMA RequestOfStep ==
  ASSUME NEW q \in Body, PassesGuard(q.op, q.token)
  PROVE  \/ q \in RoleRequest /\ FirstStep(q.op) = "addRole"
         \/ q \in UserRequest /\ FirstStep(q.op) = "invite"
         \/ q \in ListRequest /\ FirstStep(q.op) = "list"
         \/ q \in LoginRequest /\ FirstStep(q.op) = "strapiLogin"
         \/ q \in AccessRequest /\ FirstStep(q.op) = "benefit"
<1>1. q \notin RefusedRequest
  BY DEF PassesGuard, RefusedRequest, Good
<1>2. QED
  BY <1>1 DEF Body, RoleRequest, UserRequest, ListRequest, LoginRequest, AccessRequest, FirstStep

LEMMA AdministrationInitInv == Init => AdministrationInv
<1> SUFFICES ASSUME Init PROVE AdministrationInv
  OBVIOUS
<1>1. /\ pc \in [Call -> {"idle"}]
      /\ answer \in [Call -> {None}]
      /\ body \in [Call -> {None}]
  BY DEF Init
<1>2. TypeOK
  BY <1>1 DEF Init, TypeOK, StrapiUser, User, Roles
<1>3. \A c \in Call : pc[c] = "idle" /\ answer[c] = None
  BY <1>1
<1>4. BodyAtStep /\ Progress /\ AnsweredIsComplete /\ AccessIsByStrapiRoles
  BY <1>3 DEF BodyAtStep, Progress, AnsweredIsComplete, AccessIsByStrapiRoles,
              RoleSteps, UserSteps, LoginSteps, AccessSteps
<1>5. HalfMadeHasItsCall
  BY DEF Init, HalfMadeHasItsCall, CompleteRole
<1>6. RecordsAgree
  <2>1. PICK u \in {None, [s_roles |-> {SuperAdmin}]} :
          users = [p \in Person |-> IF p = Root THEN u ELSE None]
    BY DEF Init
  <2>2. strapiUsers[Root] = [roles |-> {SuperAdmin}, active |-> TRUE]
    BY DEF Init
  <2>3. \A p \in Person : users[p] # None => p = Root /\ users[p] = [s_roles |-> {SuperAdmin}]
    BY <2>1
  <2>4. [roles |-> {SuperAdmin}, active |-> TRUE] \in StrapiUser
    BY DEF StrapiUser, Roles
  <2>5. QED BY <2>2, <2>3, <2>4 DEF RecordsAgree, CompletePerson
<1>7. QED BY <1>2, <1>4, <1>5, <1>6 DEF AdministrationInv

-----------------------------------------------------------------------------
(* Steps that write nothing *)

\* A call arrives.
LEMMA ReceiveInv ==
  ASSUME AdministrationInv, NEW c \in Call, Receive(c)
  PROVE  AdministrationInv'
<1> USE DEF AdministrationInv, TypeOK
<1>1. PICK q \in Body :
        /\ body' = [body EXCEPT ![c] = q]
        /\ IF PassesMiddleware(q.token) /\ PassesGuard(q.op, q.token)
             THEN GoesOn(c, FirstStep(q.op))
             ELSE EndsWith(c, 401)
  BY DEF Receive
<1>2. pc[c] = "idle" /\ answer[c] = None /\ UNCHANGED <<strapiRoles, permitted, strapiUsers,
        providers, users, ops>>
  BY DEF Receive, strapi, tables
<1>3. \/ /\ EndsWith(c, 401)
      \/ /\ GoesOn(c, FirstStep(q.op))
         /\ \/ q \in RoleRequest /\ FirstStep(q.op) = "addRole"
            \/ q \in UserRequest /\ FirstStep(q.op) = "invite"
            \/ q \in ListRequest /\ FirstStep(q.op) = "list"
            \/ q \in LoginRequest /\ FirstStep(q.op) = "strapiLogin"
            \/ q \in AccessRequest /\ FirstStep(q.op) = "benefit"
  BY <1>1, RequestOfStep
<1> USE DEF RoleSteps, UserSteps, LoginSteps, AccessSteps
<1>4. PICK step \in {"done", "addRole", "invite", "list", "strapiLogin", "benefit"} :
        /\ pc' = [pc EXCEPT ![c] = step]
        /\ answer' = [answer EXCEPT ![c] = IF step = "done" THEN 401 ELSE None]
        /\ step = "addRole" => q \in RoleRequest
        /\ step = "invite" => q \in UserRequest
        /\ step = "list" => q \in ListRequest
        /\ step = "strapiLogin" => q \in LoginRequest
        /\ step = "benefit" => q \in AccessRequest
  BY <1>2, <1>3 DEF EndsWith, GoesOn, Goto
<1>5. \A d \in Call \ {c} : pc'[d] = pc[d] /\ answer'[d] = answer[d] /\ body'[d] = body[d]
  BY <1>1, <1>4
<1>6. pc'[c] = step /\ body'[c] = q /\ answer'[c] # 200
  BY <1>1, <1>4
<1>7. TypeOK'
  <2>1. /\ pc' \in [Call -> {"idle", "done"} \union InFlight]
        /\ body' \in [Call -> Body \union {None}]
    BY <1>1, <1>4 DEF InFlight
  <2>2. /\ answer' \in [Call -> {200, 400, 401, 500, None}]
        /\ \A d \in Call : answer'[d] # None <=> pc'[d] = "done"
    BY <1>4, <1>5, <1>6
  <2>3. QED BY <1>2, <2>1, <2>2
<1>8. BodyAtStep' /\ Progress'
  BY <1>2, <1>4, <1>5, <1>6 DEF BodyAtStep, Progress
<1>9. RecordsAgree'
  BY <1>2 DEF RecordsAgree, CompletePerson
<1>10. AnsweredIsComplete' /\ AccessIsByStrapiRoles'
  BY <1>2, <1>5, <1>6 DEF AnsweredIsComplete, CompleteRole, CompletePerson, AccessIsByStrapiRoles
<1>11. HalfMadeHasItsCall'
  <2>1. c \notin {d \in Call : pc[d] \in InFlight \/ answer[d] \in {400, 500}}
    BY <1>2 DEF InFlight
  <2>2. QED BY <1>2, <1>5, <2>1 DEF HalfMadeHasItsCall, CompleteRole, CompletePerson
<1>12. QED BY <1>7, <1>8, <1>9, <1>10, <1>11

\* A call ends with an error.
LEMMA FailInv ==
  ASSUME AdministrationInv, NEW c \in Call, NEW s \in {400, 401, 500}, EndsWith(c, s),
         pc[c] \in InFlight, pc[c] \in RoleSteps \union UserSteps => s # 401,
         UNCHANGED <<body, strapi, tables, ops>>
  PROVE  AdministrationInv'
<1> USE DEF AdministrationInv, TypeOK, RoleSteps, UserSteps, LoginSteps, AccessSteps
<1>1. /\ pc' = [pc EXCEPT ![c] = "done"]
      /\ answer' = [answer EXCEPT ![c] = s]
      /\ UNCHANGED <<body, strapiRoles, permitted, strapiUsers, providers, users, ops>>
  BY DEF EndsWith, Goto, strapi, tables
<1>2. \A d \in Call \ {c} : pc'[d] = pc[d] /\ answer'[d] = answer[d]
  BY <1>1
<1>3. pc'[c] = "done" /\ answer'[c] = s
  BY <1>1
<1>4. TypeOK'
  BY <1>1, <1>2, <1>3
<1>5. BodyAtStep' /\ Progress' /\ RecordsAgree'
  BY <1>1, <1>2, <1>3 DEF BodyAtStep, Progress, RecordsAgree, CompletePerson
<1>6. AnsweredIsComplete' /\ AccessIsByStrapiRoles'
  BY <1>1, <1>2, <1>3 DEF AnsweredIsComplete, CompleteRole, CompletePerson, AccessIsByStrapiRoles
<1>7. HalfMadeHasItsCall'
  <2>1. body[c].op \in {"createRole", "createUser"} => s \in {400, 500}
    BY DEF BodyAtStep, InFlight, ListRequest, LoginRequest, AccessRequest
  <2>2. QED BY <1>1, <1>2, <1>3, <2>1 DEF HalfMadeHasItsCall, CompleteRole, CompletePerson
<1>8. QED BY <1>4, <1>5, <1>6, <1>7

\* A call goes on to its next step with what it knows by now.
LEMMA GoesOnInv ==
  ASSUME AdministrationInv, NEW c \in Call, pc[c] \in InFlight,
         NEW step, GoesOn(c, step), UNCHANGED <<body, strapi, tables, ops>>,
         \/ pc[c] = "fields" /\ step = "permissions"
         \/ pc[c] = "strapiLogin" /\ step = "loginRecord"
         \/ pc[c] = "benefit" /\ step = "loginUser" /\ body[c].creator # None
         \/ pc[c] = "loginUser" /\ step = "orgUser" /\ users[body[c].token.person] # None
  PROVE  AdministrationInv'
<1> USE DEF AdministrationInv, TypeOK, RoleSteps, UserSteps, LoginSteps, AccessSteps
<1>1. /\ pc' = [pc EXCEPT ![c] = step]
      /\ UNCHANGED <<answer, body, strapiRoles, permitted, strapiUsers, providers, users, ops>>
  BY DEF GoesOn, Goto, strapi, tables
<1>2. (\A d \in Call \ {c} : pc'[d] = pc[d]) /\ pc'[c] = step /\ pc'[c] \in InFlight
  BY <1>1 DEF InFlight
<1>3. TypeOK'
  BY <1>1, <1>2 DEF InFlight
<1>4. BodyAtStep' /\ Progress' /\ RecordsAgree'
  BY <1>1, <1>2 DEF BodyAtStep, Progress, RecordsAgree, CompletePerson
<1>5. AnsweredIsComplete' /\ AccessIsByStrapiRoles'
  BY <1>1 DEF AnsweredIsComplete, CompleteRole, CompletePerson, AccessIsByStrapiRoles
<1>6. HalfMadeHasItsCall'
  BY <1>1, <1>2 DEF HalfMadeHasItsCall, CompleteRole, CompletePerson
<1>7. QED BY <1>3, <1>4, <1>5, <1>6

\* A call that wrote nothing is answered; access only to whom MayAccess admits.
LEMMA AnswerInv ==
  ASSUME AdministrationInv, NEW c \in Call, EndsWith(c, 200),
         pc[c] \in {"list", "loginRecord", "orgUser"},
         pc[c] = "orgUser" => MayAccess(users[body[c].token.person], users[body[c].creator]),
         UNCHANGED <<body, strapi, tables, ops>>
  PROVE  AdministrationInv'
<1> USE DEF AdministrationInv, TypeOK, RoleSteps, UserSteps, LoginSteps, AccessSteps
<1>1. /\ pc' = [pc EXCEPT ![c] = "done"]
      /\ answer' = [answer EXCEPT ![c] = 200]
      /\ UNCHANGED <<body, strapiRoles, permitted, strapiUsers, providers, users, ops>>
  BY DEF EndsWith, Goto, strapi, tables
<1>2. \A d \in Call \ {c} : pc'[d] = pc[d] /\ answer'[d] = answer[d]
  BY <1>1
<1>3. pc'[c] = "done" /\ answer'[c] = 200
  BY <1>1
<1>4. body[c].op \notin {"createRole", "createUser"}
  BY DEF BodyAtStep, ListRequest, LoginRequest, AccessRequest
<1>5. TypeOK'
  BY <1>1, <1>2, <1>3
<1>6. BodyAtStep' /\ Progress' /\ RecordsAgree'
  BY <1>1, <1>2, <1>3 DEF BodyAtStep, Progress, RecordsAgree, CompletePerson
<1>7. AnsweredIsComplete' /\ HalfMadeHasItsCall'
  BY <1>1, <1>2, <1>3, <1>4
  DEF AnsweredIsComplete, HalfMadeHasItsCall, CompleteRole, CompletePerson
<1>8. AccessIsByStrapiRoles'
  <2>1. SUFFICES ASSUME body[c].op = "access"
                 PROVE  AccessIsByStrapiRoles'
    BY <1>1, <1>2, <1>3 DEF AccessIsByStrapiRoles
  <2> DEFINE p == body[c].token.person
             o == body[c].creator
  <2>2. pc[c] = "orgUser"
    BY <2>1 DEF BodyAtStep, ListRequest, LoginRequest
  <2>3. p \in Person /\ o \in Person
    BY <2>2 DEF BodyAtStep, Progress, AccessRequest, Good, Token
  <2>4. users[p] # None /\ users[o] # None
    BY <2>2 DEF Progress, MayAccess
  <2>5. CompletePerson(p) /\ CompletePerson(o)
    BY <2>3, <2>4 DEF RecordsAgree
  <2>6. SuperAdmin \in strapiUsers[p].roles \/ strapiUsers[p].roles \intersect strapiUsers[o].roles # {}
    BY <2>2, <2>5 DEF MayAccess, CompletePerson
  <2>7. /\ strapiUsers[p] # None /\ strapiUsers[o] # None
        /\ strapiUsers[p].active /\ strapiUsers[o].active
    BY <2>5 DEF CompletePerson
  <2>8. QED
    BY <1>1, <1>2, <2>6, <2>7 DEF AccessIsByStrapiRoles
<1>9. QED BY <1>5, <1>6, <1>7, <1>8

-----------------------------------------------------------------------------
(* Steps that write *)

\* The role is new to Strapi.
LEMMA AddRoleInv ==
  ASSUME AdministrationInv, NEW c \in Call, AddRole(c)
  PROVE  AdministrationInv'
<1> USE DEF AdministrationInv, TypeOK, RoleSteps, UserSteps, LoginSteps, AccessSteps
<1>1. CASE ~(Administrator(c) /\ body[c].role \notin strapiRoles)
  <2>1. EndsWith(c, 400) /\ pc[c] = "addRole" /\ UNCHANGED <<body, strapi, tables, ops>>
    BY <1>1, Statuses DEF AddRole, Throws, strapi
  <2>2. QED BY <2>1, FailInv DEF InFlight
<1>2. CASE Administrator(c) /\ body[c].role \notin strapiRoles
  <2> DEFINE n == body[c].role
  <2>1. /\ pc[c] = "addRole"
        /\ strapiRoles' = strapiRoles \union {n}
        /\ UNCHANGED <<body, permitted, strapiUsers, providers, users, ops>>
    BY <1>2 DEF AddRole, tables
  <2>2. body[c] \in RoleRequest /\ n \in Role /\ body[c].op = "createRole"
    BY <2>1 DEF BodyAtStep, RoleRequest
  <2>3. \/ /\ pc' = [pc EXCEPT ![c] = "provider"]
           /\ UNCHANGED answer
        \/ /\ pc' = [pc EXCEPT ![c] = "done"]
           /\ answer' = [answer EXCEPT ![c] = 400]
    BY <1>2, Statuses DEF AddRole, AnswerArrivesOrNot, GoesOn, Goto, Throws, EndsWith
  <2>4. /\ \A d \in Call \ {c} : pc'[d] = pc[d] /\ answer'[d] = answer[d]
        /\ \/ pc'[c] = "provider" /\ answer'[c] = None
           \/ pc'[c] = "done" /\ answer'[c] = 400
    BY <2>1, <2>3
  <2>5. TypeOK'
    BY <2>1, <2>2, <2>3, <2>4 DEF InFlight
  <2>6. BodyAtStep' /\ Progress' /\ RecordsAgree'
    BY <2>1, <2>2, <2>4 DEF BodyAtStep, Progress, RecordsAgree, CompletePerson
  <2>7. AnsweredIsComplete' /\ AccessIsByStrapiRoles'
    BY <2>1, <2>4 DEF AnsweredIsComplete, CompleteRole, CompletePerson, AccessIsByStrapiRoles
  <2>8. HalfMadeHasItsCall'
    <3>1. pc'[c] \in InFlight \/ answer'[c] \in {400, 500}
      BY <2>4 DEF InFlight
    <3>2. QED
      BY <2>1, <2>2, <2>4, <3>1 DEF HalfMadeHasItsCall, CompleteRole, CompletePerson
  <2>9. QED BY <2>5, <2>6, <2>7, <2>8
<1>3. QED BY <1>1, <1>2

\* The provider is recorded.
LEMMA CreateProviderInv ==
  ASSUME AdministrationInv, NEW c \in Call, CreateProvider(c)
  PROVE  AdministrationInv'
<1> USE DEF AdministrationInv, TypeOK, RoleSteps, UserSteps, LoginSteps, AccessSteps
<1>1. CASE body[c].role \in providers
  <2>1. EndsWith(c, 500) /\ pc[c] = "provider" /\ UNCHANGED <<body, strapi, tables, ops>>
    BY <1>1, Statuses DEF CreateProvider, Throws, strapi, tables
  <2>2. QED BY <2>1, FailInv DEF InFlight
<1>2. CASE body[c].role \notin providers
  <2> DEFINE n == body[c].role
  <2>1. /\ pc[c] = "provider"
        /\ pc' = [pc EXCEPT ![c] = "fields"]
        /\ providers' = providers \union {n}
        /\ UNCHANGED <<answer, body, strapiRoles, permitted, strapiUsers, users, ops>>
    BY <1>2 DEF CreateProvider, GoesOn, Goto, strapi
  <2>2. body[c] \in RoleRequest /\ n \in Role
    BY <2>1 DEF BodyAtStep, RoleRequest
  <2>3. (\A d \in Call \ {c} : pc'[d] = pc[d]) /\ pc'[c] = "fields"
    BY <2>1
  <2>4. TypeOK'
    BY <2>1, <2>2, <2>3 DEF InFlight
  <2>5. BodyAtStep' /\ Progress' /\ RecordsAgree'
    BY <2>1, <2>2, <2>3 DEF BodyAtStep, Progress, RecordsAgree, CompletePerson
  <2>6. AnsweredIsComplete' /\ AccessIsByStrapiRoles'
    BY <2>1 DEF AnsweredIsComplete, CompleteRole, CompletePerson, AccessIsByStrapiRoles
  <2>7. HalfMadeHasItsCall'
    BY <2>1, <2>3 DEF HalfMadeHasItsCall, CompleteRole, CompletePerson, InFlight
  <2>8. QED BY <2>4, <2>5, <2>6, <2>7
<1>3. QED BY <1>1, <1>2

\* The permissions make the role complete.
LEMMA AddPermissionsInv ==
  ASSUME AdministrationInv, NEW c \in Call, AddPermissions(c)
  PROVE  AdministrationInv'
<1> USE DEF AdministrationInv, TypeOK, RoleSteps, UserSteps, LoginSteps, AccessSteps
<1> DEFINE n == body[c].role
<1>1. /\ pc[c] = "permissions"
      /\ permitted' = permitted \union {n}
      /\ UNCHANGED <<body, strapiRoles, strapiUsers, providers, users, ops>>
  BY DEF AddPermissions, tables
<1>2. PICK s \in {200, 400} : /\ pc' = [pc EXCEPT ![c] = "done"]
                              /\ answer' = [answer EXCEPT ![c] = s]
  BY Statuses DEF AddPermissions, Throws, EndsWith, Goto
<1>3. /\ body[c] \in RoleRequest /\ n \in Role /\ body[c].op = "createRole"
      /\ n \in strapiRoles /\ n \in providers
  BY <1>1 DEF BodyAtStep, RoleRequest, Progress
<1>4. /\ \A d \in Call \ {c} : pc'[d] = pc[d] /\ answer'[d] = answer[d]
      /\ pc'[c] = "done" /\ answer'[c] = s
  BY <1>2
<1>5. TypeOK'
  BY <1>1, <1>2, <1>3, <1>4
<1>6. BodyAtStep' /\ Progress' /\ RecordsAgree'
  BY <1>1, <1>4 DEF BodyAtStep, Progress, RecordsAgree, CompletePerson
<1>7. AnsweredIsComplete' /\ AccessIsByStrapiRoles'
  BY <1>1, <1>3, <1>4 DEF AnsweredIsComplete, CompleteRole, CompletePerson, AccessIsByStrapiRoles
<1>8. HalfMadeHasItsCall'
  <2>1. CompleteRole(n)'
    BY <1>1, <1>3 DEF CompleteRole
  <2>2. QED BY <1>1, <1>3, <1>4, <2>1 DEF HalfMadeHasItsCall, CompleteRole, CompletePerson
<1>9. QED BY <1>5, <1>6, <1>7, <1>8

\* The person is new to Strapi.
LEMMA AddUserToRoleInv ==
  ASSUME AdministrationInv, NEW c \in Call, AddUserToRole(c)
  PROVE  AdministrationInv'
<1> USE DEF AdministrationInv, TypeOK, RoleSteps, UserSteps, LoginSteps, AccessSteps
<1> DEFINE q == body[c]
           p == q.person
           new == [roles |-> q.roles, active |-> FALSE]
           Fits == /\ Administrator(c)
                   /\ strapiUsers[p] = None
                   /\ q.roles \subseteq strapiRoles \union {SuperAdmin}
<1>1. CASE ~Fits
  <2>1. EndsWith(c, 400) /\ pc[c] = "invite" /\ UNCHANGED <<body, strapi, tables, ops>>
    BY <1>1, Statuses DEF AddUserToRole, Throws, strapi
  <2>2. QED BY <2>1, FailInv DEF InFlight
<1>2. CASE Fits
  <2>1. /\ pc[c] = "invite"
        /\ strapiUsers' = [strapiUsers EXCEPT ![p] = new]
        /\ UNCHANGED <<body, strapiRoles, permitted, providers, users, ops>>
    BY <1>2 DEF AddUserToRole, tables
  <2>2. q \in UserRequest /\ p \in Person /\ q.roles \in Roles /\ q.op = "createUser"
    BY <2>1 DEF BodyAtStep, UserRequest
  <2>3. new \in StrapiUser /\ new # None
    <3>1. new \in StrapiUser
      BY <2>2 DEF StrapiUser
    <3>2. QED BY <3>1
  <2>4. \/ /\ pc' = [pc EXCEPT ![c] = "register"]
           /\ UNCHANGED answer
        \/ /\ pc' = [pc EXCEPT ![c] = "done"]
           /\ answer' = [answer EXCEPT ![c] = 400]
    BY <1>2, Statuses DEF AddUserToRole, AnswerArrivesOrNot, GoesOn, Goto, Throws, EndsWith
  <2>5. /\ \A d \in Call \ {c} : pc'[d] = pc[d] /\ answer'[d] = answer[d]
        /\ \/ pc'[c] = "register" /\ answer'[c] = None
           \/ pc'[c] = "done" /\ answer'[c] = 400
    BY <2>1, <2>4
  <2>6. /\ \A x \in Person \ {p} : strapiUsers'[x] = strapiUsers[x]
        /\ strapiUsers'[p] = new
        /\ strapiUsers[p] = None
    BY <1>2, <2>1, <2>2
  <2>7. users[p] = None
    BY <2>2, <2>6 DEF RecordsAgree, CompletePerson
  <2>8. TypeOK'
    BY <2>1, <2>2, <2>3, <2>4, <2>5 DEF InFlight
  <2>9. BodyAtStep' /\ RecordsAgree'
    BY <2>1, <2>2, <2>5, <2>6, <2>7 DEF BodyAtStep, RecordsAgree, CompletePerson
  <2>10. Progress'
    <3>1. \A d \in Call \ {c} : pc[d] \in {"register", "record"} =>
            body[d].person \in Person \ {p}
      BY <2>6 DEF Progress, BodyAtStep, UserRequest
    <3>2. QED BY <2>1, <2>2, <2>3, <2>5, <2>6, <3>1 DEF Progress
  <2>11. AnsweredIsComplete'
    <3>1. \A x \in Person : CompletePerson(x) => CompletePerson(x)'
      BY <2>1, <2>6 DEF CompletePerson
    <3>2. \A d \in Call : answer[d] = 200 /\ body[d].op = "createUser" => CompletePerson(body[d].person)
      BY DEF AnsweredIsComplete
    <3>3. \A d \in Call : answer[d] = 200 /\ body[d].op = "createUser" => body[d].person # p
      <4>1. ~CompletePerson(p)
        BY <2>6 DEF CompletePerson
      <4>2. QED BY <3>2, <4>1
    <3>4. \A d \in Call : answer[d] = 200 /\ body[d].op = "createUser" =>
            CompletePerson(body[d].person)'
      BY <2>1, <3>2, <3>3 DEF CompletePerson
    <3>5. QED BY <2>1, <2>5, <3>4 DEF AnsweredIsComplete, CompleteRole
  <2>12. AccessIsByStrapiRoles'
    BY <2>1, <2>5, <2>6 DEF AccessIsByStrapiRoles
  <2>13. HalfMadeHasItsCall'
    <3>1. pc'[c] \in InFlight \/ answer'[c] \in {400, 500}
      BY <2>5 DEF InFlight
    <3>2. \A x \in Person \ {p} : CompletePerson(x)' = CompletePerson(x)
      BY <2>1, <2>6 DEF CompletePerson
    <3>3. QED
      BY <2>1, <2>2, <2>5, <2>6, <3>1, <3>2 DEF HalfMadeHasItsCall, CompleteRole
  <2>14. QED BY <2>8, <2>9, <2>10, <2>11, <2>12, <2>13
<1>3. QED BY <1>1, <1>2

\* The account becomes active.
LEMMA RegisterUserInv ==
  ASSUME AdministrationInv, NEW c \in Call, RegisterUser(c)
  PROVE  AdministrationInv'
<1> USE DEF AdministrationInv, TypeOK, RoleSteps, UserSteps, LoginSteps, AccessSteps
<1> DEFINE p == body[c].person
           new == [roles |-> strapiUsers[p].roles, active |-> TRUE]
<1>1. /\ pc[c] = "register"
      /\ strapiUsers' = [strapiUsers EXCEPT ![p] = new]
      /\ UNCHANGED <<body, strapiRoles, permitted, providers, users, ops>>
  BY DEF RegisterUser, tables
<1>2. body[c] \in UserRequest /\ p \in Person /\ body[c].op = "createUser"
  BY <1>1 DEF BodyAtStep, UserRequest
<1>3. strapiUsers[p] \in StrapiUser /\ strapiUsers[p].roles = body[c].roles
  BY <1>1, <1>2 DEF Progress
<1>4. \/ /\ pc' = [pc EXCEPT ![c] = "record"]
         /\ UNCHANGED answer
      \/ /\ pc' = [pc EXCEPT ![c] = "done"]
         /\ answer' = [answer EXCEPT ![c] = 400]
  BY Statuses DEF RegisterUser, AnswerArrivesOrNot, GoesOn, Goto, Throws, EndsWith
<1>5. /\ \A d \in Call \ {c} : pc'[d] = pc[d] /\ answer'[d] = answer[d]
      /\ \/ pc'[c] = "record" /\ answer'[c] = None
         \/ pc'[c] = "done" /\ answer'[c] = 400
  BY <1>1, <1>4
<1>6. /\ \A x \in Person \ {p} : strapiUsers'[x] = strapiUsers[x]
      /\ strapiUsers'[p] \in StrapiUser /\ strapiUsers'[p] # None
      /\ strapiUsers'[p].roles = strapiUsers[p].roles
      /\ strapiUsers'[p].active = TRUE
  <2>1. new \in StrapiUser
    BY <1>3 DEF StrapiUser
  <2>2. new # None
    BY <2>1, NoUserAssumption
  <2>3. new.roles = strapiUsers[p].roles /\ new.active = TRUE
    OBVIOUS
  <2> HIDE DEF new
  <2>4. (\A x \in Person \ {p} : strapiUsers'[x] = strapiUsers[x]) /\ strapiUsers'[p] = new
    BY <1>1, <1>2
  <2>5. QED BY <2>1, <2>2, <2>3, <2>4
<1>7. \A x \in Person : /\ strapiUsers'[x] # None <=> strapiUsers[x] # None
                        /\ strapiUsers[x] # None =>
                             /\ strapiUsers'[x].roles = strapiUsers[x].roles
                             /\ strapiUsers[x].active => strapiUsers'[x].active
  BY <1>3, <1>6 DEF StrapiUser
<1>8. \A x : CompletePerson(x) => CompletePerson(x)'
  BY <1>1, <1>2, <1>3, <1>6, <1>7 DEF CompletePerson
<1>9. TypeOK'
  <2>1. strapiUsers' \in [Person -> StrapiUser \union {None}]
    BY <1>1, <1>2, <1>6
  <2>2. QED BY <1>1, <1>4, <1>5, <2>1 DEF InFlight
<1>10. BodyAtStep' /\ RecordsAgree'
  BY <1>1, <1>2, <1>5, <1>8 DEF BodyAtStep, RecordsAgree
<1>11. Progress'
  <2>1. \A d \in Call : pc[d] \in {"register", "record"} => body[d].person \in Person
    BY DEF BodyAtStep, UserRequest
  <2>2. QED BY <1>1, <1>2, <1>3, <1>5, <1>6, <1>7, <2>1 DEF Progress
<1>12. AnsweredIsComplete'
  BY <1>1, <1>5, <1>8 DEF AnsweredIsComplete, CompleteRole
<1>13. AccessIsByStrapiRoles'
  BY <1>1, <1>2, <1>5, <1>6 DEF AccessIsByStrapiRoles
<1>14. HalfMadeHasItsCall'
  <2>1. pc'[c] \in InFlight \/ answer'[c] \in {400, 500}
    BY <1>5 DEF InFlight
  <2>2. QED
    BY <1>1, <1>2, <1>5, <1>7, <1>8, <2>1 DEF HalfMadeHasItsCall, CompleteRole
<1>15. QED BY <1>9, <1>10, <1>11, <1>12, <1>13, <1>14

\* The person is recorded with the roles Strapi has.
LEMMA CreateUserInDatabaseInv ==
  ASSUME AdministrationInv, NEW c \in Call, CreateUserInDatabase(c)
  PROVE  AdministrationInv'
<1> USE DEF AdministrationInv, TypeOK, RoleSteps, UserSteps, LoginSteps, AccessSteps
<1> DEFINE p == body[c].person
           new == [s_roles |-> body[c].roles]
<1>1. CASE users[p] # None
  <2>1. EndsWith(c, 500) /\ pc[c] = "record" /\ UNCHANGED <<body, strapi, tables, ops>>
    BY <1>1, Statuses DEF CreateUserInDatabase, Throws, strapi, tables
  <2>2. QED BY <2>1, FailInv DEF InFlight
<1>2. CASE users[p] = None
  <2>1. /\ pc[c] = "record"
        /\ pc' = [pc EXCEPT ![c] = "done"]
        /\ answer' = [answer EXCEPT ![c] = 200]
        /\ users' = [users EXCEPT ![p] = new]
        /\ UNCHANGED <<body, strapiRoles, permitted, strapiUsers, providers, ops>>
    BY <1>2 DEF CreateUserInDatabase, EndsWith, Goto, strapi
  <2>2. /\ body[c] \in UserRequest /\ p \in Person /\ body[c].roles \in Roles
        /\ body[c].op = "createUser"
    BY <2>1 DEF BodyAtStep, UserRequest
  <2>3. new \in User /\ new # None
    <3>1. new \in User
      BY <2>2 DEF User
    <3>2. QED BY <3>1
  <2>4. /\ \A d \in Call \ {c} : pc'[d] = pc[d] /\ answer'[d] = answer[d]
        /\ pc'[c] = "done" /\ answer'[c] = 200
    BY <2>1
  <2>5. /\ \A x \in Person \ {p} : users'[x] = users[x]
        /\ users'[p] = new
    BY <2>1, <2>2
  <2>6. CompletePerson(p)'
    BY <2>1, <2>2, <2>5 DEF Progress, CompletePerson
  <2>7. \A x : CompletePerson(x) => CompletePerson(x)'
    BY <2>1, <2>6 DEF CompletePerson
  <2>8. TypeOK'
    BY <2>1, <2>2, <2>3, <2>4
  <2>9. BodyAtStep' /\ RecordsAgree'
    BY <2>1, <2>4, <2>5, <2>6, <2>7 DEF BodyAtStep, RecordsAgree
  <2>10. Progress'
    <3>1. \A d \in Call : pc[d] = "orgUser" => body[d].token.person \in Person
      BY DEF BodyAtStep, AccessRequest, Good, Token
    <3>2. QED BY <2>1, <2>3, <2>4, <2>5, <3>1 DEF Progress
  <2>11. AnsweredIsComplete' /\ AccessIsByStrapiRoles'
    BY <2>1, <2>2, <2>4, <2>6, <2>7 DEF AnsweredIsComplete, CompleteRole, AccessIsByStrapiRoles
  <2>12. HalfMadeHasItsCall'
    BY <2>1, <2>2, <2>4, <2>6, <2>7 DEF HalfMadeHasItsCall, CompleteRole
  <2>13. QED BY <2>8, <2>9, <2>10, <2>11, <2>12
<1>3. QED BY <1>1, <1>2

-----------------------------------------------------------------------------
(* The other steps write nothing, and end with an error or go on *)

LEMMA GetFieldsInv ==
  ASSUME AdministrationInv, NEW c \in Call, GetFields(c)
  PROVE  AdministrationInv'
BY GoesOnInv DEF GetFields, InFlight, RoleSteps

\* Whatever a call fails with has one of three statuses, and 401 only where
\* nothing is made.
LEMMA BreaksInv ==
  ASSUME AdministrationInv, NEW c \in Call, Breaks(c)
  PROVE  AdministrationInv'
<1>1. PICK s \in {400, 401, 500} :
        EndsWith(c, s) /\ (pc[c] \in RoleSteps \union UserSteps => s # 401)
  BY Statuses DEF Breaks, Throws, RoleSteps, UserSteps
<1>2. pc[c] \in InFlight /\ UNCHANGED <<body, strapi, tables, ops>>
  BY DEF Breaks
<1>3. QED BY <1>1, <1>2, FailInv

LEMMA GetCatalogRolesInv ==
  ASSUME AdministrationInv, NEW c \in Call, GetCatalogRoles(c)
  PROVE  AdministrationInv'
<1>1. pc[c] = "list" /\ UNCHANGED <<body, strapi, tables, ops>>
  BY DEF GetCatalogRoles
<1>2. EndsWith(c, 200) \/ EndsWith(c, 401)
  BY Statuses DEF GetCatalogRoles, Throws
<1>3. QED BY <1>1, <1>2, FailInv, AnswerInv DEF InFlight, RoleSteps, UserSteps

LEMMA StrapiLoginInv ==
  ASSUME AdministrationInv, NEW c \in Call, StrapiLogin(c)
  PROVE  AdministrationInv'
<1>1. pc[c] = "strapiLogin" /\ UNCHANGED <<body, strapi, tables, ops>>
  BY DEF StrapiLogin
<1>2. GoesOn(c, "loginRecord") \/ EndsWith(c, 400)
  BY Statuses DEF StrapiLogin, Throws
<1>3. QED BY <1>1, <1>2, FailInv, GoesOnInv DEF InFlight, LoginSteps, RoleSteps, UserSteps

LEMMA LoginRecordInv ==
  ASSUME AdministrationInv, NEW c \in Call, LoginRecord(c)
  PROVE  AdministrationInv'
<1>1. pc[c] = "loginRecord" /\ UNCHANGED <<body, strapi, tables, ops>>
  BY DEF LoginRecord
<1>2. EndsWith(c, 200) \/ EndsWith(c, 500)
  BY Statuses DEF LoginRecord, Throws
<1>3. QED BY <1>1, <1>2, FailInv, AnswerInv DEF InFlight, LoginSteps, RoleSteps, UserSteps

LEMMA AccessInv ==
  ASSUME AdministrationInv, NEW c \in Call,
         AccessBenefit(c) \/ AccessLoginUser(c) \/ AccessOrgUser(c)
  PROVE  AdministrationInv'
<1>1. UNCHANGED <<body, strapi, tables, ops>>
  BY DEF AccessBenefit, AccessLoginUser, AccessOrgUser
<1>2. pc[c] \in AccessSteps
  BY DEF AccessBenefit, AccessLoginUser, AccessOrgUser, AccessSteps
<1>3. CASE EndsWith(c, 401)
  BY <1>1, <1>2, <1>3, FailInv DEF InFlight, AccessSteps, RoleSteps, UserSteps
<1>4. CASE ~EndsWith(c, 401) /\ pc[c] = "orgUser"
  <2>1. /\ EndsWith(c, 200)
        /\ MayAccess(users[body[c].token.person], users[body[c].creator])
    BY <1>4 DEF AccessBenefit, AccessLoginUser, AccessOrgUser
  <2>2. QED BY <1>1, <1>4, <2>1, AnswerInv
<1>5. CASE ~EndsWith(c, 401) /\ pc[c] # "orgUser"
  <2>1. \/ pc[c] = "benefit" /\ GoesOn(c, "loginUser") /\ body[c].creator # None
        \/ pc[c] = "loginUser" /\ GoesOn(c, "orgUser") /\ users[body[c].token.person] # None
    BY <1>5 DEF AccessBenefit, AccessLoginUser, AccessOrgUser
  <2>2. QED BY <1>1, <1>2, <2>1, GoesOnInv DEF InFlight
<1>6. QED BY <1>3, <1>4, <1>5

-----------------------------------------------------------------------------

LEMMA AdministrationStepInv == AdministrationInv /\ [Next]_vars => AdministrationInv'
<1> SUFFICES ASSUME AdministrationInv, [Next]_vars PROVE AdministrationInv'
  OBVIOUS
<1>1. ASSUME NEW c \in Call, Receive(c) PROVE AdministrationInv'
  BY <1>1, ReceiveInv
<1>2. ASSUME NEW c \in Call, Step(c) PROVE AdministrationInv'
  BY <1>2, AddRoleInv, CreateProviderInv, GetFieldsInv, AddPermissionsInv, AddUserToRoleInv,
     RegisterUserInv, CreateUserInDatabaseInv, GetCatalogRolesInv, StrapiLoginInv,
     LoginRecordInv, AccessInv, BreaksInv
  DEF Step
<1>3. CASE UNCHANGED vars
  BY <1>3 DEF vars, AdministrationInv, TypeOK, BodyAtStep, Progress, RecordsAgree, CompletePerson,
     CompleteRole, AnsweredIsComplete, HalfMadeHasItsCall, AccessIsByStrapiRoles
<1>4. QED BY <1>1, <1>2, <1>3 DEF Next

\* The inductive invariant: types, the request behind every step, what each call
\* has done so far, and the records agreeing with Strapi.
THEOREM AdministrationInvariant == Spec => []AdministrationInv
<1>1. QED BY AdministrationInitInv, AdministrationStepInv, PTL DEF Spec

\* The calls, the roles and the users keep their types.
THEOREM AdministrationTypes == Spec => []TypeOK
<1>1. AdministrationInv => TypeOK
  BY DEF AdministrationInv
<1>2. QED BY <1>1, AdministrationInvariant, PTL

\* A role or a person answered with success is complete in both systems.
THEOREM AdministrationAnswered == Spec => []AnsweredIsComplete
<1>1. AdministrationInv => AnsweredIsComplete
  BY DEF AdministrationInv
<1>2. QED BY <1>1, AdministrationInvariant, PTL

\* Whatever is half made has a call that failed, or one still at work on it.
THEOREM AdministrationHalfMade == Spec => []HalfMadeHasItsCall
<1>1. AdministrationInv => HalfMadeHasItsCall
  BY DEF AdministrationInv
<1>2. QED BY <1>1, AdministrationInvariant, PTL

\* The roles that let somebody see applications are those Strapi has for them.
THEOREM AdministrationAccess == Spec => []AccessIsByStrapiRoles
<1>1. AdministrationInv => AccessIsByStrapiRoles
  BY DEF AdministrationInv
<1>2. QED BY <1>1, AdministrationInvariant, PTL

-----------------------------------------------------------------------------
(* What is stuck stays stuck *)

\* Nothing takes the first step back.
LEMMA Kept ==
  ASSUME AdministrationInv, NEW c \in Call, Receive(c) \/ Step(c)
  PROVE  /\ strapiRoles \subseteq strapiRoles'
         /\ \A p \in Person : strapiUsers[p] # None => strapiUsers'[p] # None
<1> USE DEF AdministrationInv, TypeOK
<1>1. strapiRoles \subseteq strapiRoles'
  BY DEF Receive, Step, AddRole, CreateProvider, GetFields, AddPermissions, AddUserToRole,
         RegisterUser, CreateUserInDatabase, GetCatalogRoles, StrapiLogin, LoginRecord,
         AccessBenefit, AccessLoginUser, AccessOrgUser, Breaks, strapi
<1>2. CASE AddUserToRole(c)
  <2> DEFINE new == [roles |-> body[c].roles, active |-> FALSE]
  <2>1. pc[c] = "invite"
    BY <1>2 DEF AddUserToRole
  <2>2. UNCHANGED strapiUsers \/ strapiUsers' = [strapiUsers EXCEPT ![body[c].person] = new]
    <3> HIDE DEF AdministrationInv, TypeOK
    <3>1. QED BY <1>2 DEF AddUserToRole
  <2>3. body[c].person \in Person /\ body[c].roles \in Roles
    BY <2>1 DEF BodyAtStep, UserSteps, UserRequest
  <2>4. new \in StrapiUser
    BY <2>3 DEF StrapiUser
  <2>5. new # None
    BY <2>4
  <2> HIDE DEF new
  <2>6. QED BY <1>1, <2>2, <2>3, <2>5
<1>3. CASE RegisterUser(c)
  <2> DEFINE new == [roles |-> strapiUsers[body[c].person].roles, active |-> TRUE]
  <2>1. pc[c] = "register" /\ strapiUsers' = [strapiUsers EXCEPT ![body[c].person] = new]
    BY <1>3 DEF RegisterUser
  <2>2. body[c].person \in Person /\ strapiUsers[body[c].person] # None
    BY <2>1 DEF BodyAtStep, UserSteps, UserRequest, Progress
  <2>3. new \in StrapiUser
    BY <2>2 DEF StrapiUser
  <2>4. new # None
    BY <2>3
  <2> HIDE DEF new
  <2>5. QED BY <1>1, <2>1, <2>4
<1>4. CASE ~AddUserToRole(c) /\ ~RegisterUser(c)
  <2>1. UNCHANGED strapiUsers
    BY <1>4 DEF Receive, Step, AddRole, CreateProvider, GetFields, AddPermissions,
           CreateUserInDatabase, GetCatalogRoles, StrapiLogin, LoginRecord,
           AccessBenefit, AccessLoginUser, AccessOrgUser, Breaks, strapi
  <2>2. QED BY <1>1, <2>1
<1>5. QED BY <1>2, <1>3, <1>4

\* Only the call that is making a role or an account completes it.
LEMMA CompletedByMaker ==
  ASSUME AdministrationInv, NEW c \in Call, Receive(c) \/ Step(c)
  PROVE  /\ \A n : n \notin providers => n \notin providers' \/ (pc[c] = "provider" /\ body[c].role = n)
         /\ \A n : n \notin permitted => n \notin permitted' \/ (pc[c] = "permissions" /\ body[c].role = n)
         /\ \A p \in Person : users'[p] = users[p] \/ (pc[c] = "record" /\ body[c].person = p)
<1> USE DEF AdministrationInv, TypeOK
<1>1. UNCHANGED providers \/ (pc[c] = "provider" /\ providers' = providers \union {body[c].role})
  BY DEF Receive, Step, AddRole, CreateProvider, GetFields, AddPermissions, AddUserToRole,
         RegisterUser, CreateUserInDatabase, GetCatalogRoles, StrapiLogin, LoginRecord,
         AccessBenefit, AccessLoginUser, AccessOrgUser, Breaks, tables
<1>2. UNCHANGED permitted \/ (pc[c] = "permissions" /\ permitted' = permitted \union {body[c].role})
  BY DEF Receive, Step, AddRole, CreateProvider, GetFields, AddPermissions, AddUserToRole,
         RegisterUser, CreateUserInDatabase, GetCatalogRoles, StrapiLogin, LoginRecord,
         AccessBenefit, AccessLoginUser, AccessOrgUser, Breaks, strapi
<1>3. UNCHANGED users \/ (/\ pc[c] = "record"
                          /\ users' = [users EXCEPT ![body[c].person] = [s_roles |-> body[c].roles]])
  BY DEF Receive, Step, AddRole, CreateProvider, GetFields, AddPermissions, AddUserToRole,
         RegisterUser, CreateUserInDatabase, GetCatalogRoles, StrapiLogin, LoginRecord,
         AccessBenefit, AccessLoginUser, AccessOrgUser, Breaks, tables
<1>4. QED BY <1>1, <1>2, <1>3

\* A call that starts to make a role or an account found its name or email free.
LEMMA MakingBegins ==
  ASSUME AdministrationInv, NEW c \in Call, Receive(c) \/ Step(c)
  PROVE  /\ \A d \in Call \ {c} : pc'[d] = pc[d] /\ body'[d] = body[d]
         /\ Making(c, "createRole")' =>
              /\ body'[c] = body[c]
              /\ Making(c, "createRole") \/ body[c].role \notin strapiRoles
         /\ Making(c, "createUser")' =>
              /\ body'[c] = body[c]
              /\ Making(c, "createUser") \/ strapiUsers[body[c].person] = None
<1> USE DEF AdministrationInv, TypeOK, RoleSteps, UserSteps, LoginSteps, AccessSteps
<1>1. CASE Receive(c)
  <2>1. PICK q \in Body :
          /\ body' = [body EXCEPT ![c] = q]
          /\ IF PassesMiddleware(q.token) /\ PassesGuard(q.op, q.token)
               THEN GoesOn(c, FirstStep(q.op)) ELSE EndsWith(c, 401)
    BY <1>1 DEF Receive
  <2>2. PICK step \in {"done", "addRole", "invite", "list", "strapiLogin", "benefit"} :
          /\ pc' = [pc EXCEPT ![c] = step]
          /\ step \in {"list", "strapiLogin", "benefit"} => q.op \notin {"createRole", "createUser"}
    BY <2>1, RequestOfStep DEF EndsWith, GoesOn, Goto, ListRequest, LoginRequest, AccessRequest
  <2>3. QED BY <2>1, <2>2 DEF Making, InFlight
<1>2. CASE Step(c)
  <2>1. UNCHANGED body
    BY <1>2 DEF Step, AddRole, CreateProvider, GetFields, AddPermissions, AddUserToRole,
         RegisterUser, CreateUserInDatabase, GetCatalogRoles, StrapiLogin, LoginRecord,
         AccessBenefit, AccessLoginUser, AccessOrgUser, Breaks
  <2>2. PICK step : pc' = [pc EXCEPT ![c] = step]
    BY <1>2 DEF Step, AddRole, CreateProvider, GetFields, AddPermissions, AddUserToRole,
         RegisterUser, CreateUserInDatabase, GetCatalogRoles, StrapiLogin, LoginRecord,
         AccessBenefit, AccessLoginUser, AccessOrgUser, Breaks,
         AnswerArrivesOrNot, GoesOn, Throws, EndsWith, Goto
  <2>3. pc[c] \in InFlight
    BY <1>2 DEF Step, AddRole, CreateProvider, GetFields, AddPermissions, AddUserToRole,
         RegisterUser, CreateUserInDatabase, GetCatalogRoles, StrapiLogin, LoginRecord,
         AccessBenefit, AccessLoginUser, AccessOrgUser, Breaks, InFlight
  <2>4. CASE pc[c] = "addRole"
    <3>1. body[c].op = "createRole"
      BY <2>4 DEF BodyAtStep, RoleRequest
    <3>2. pc'[c] = "done" \/ body[c].role \notin strapiRoles
      BY <1>2, <2>4 DEF Step, AddRole, CreateProvider, GetFields, AddPermissions, AddUserToRole,
         RegisterUser, CreateUserInDatabase, GetCatalogRoles, StrapiLogin, LoginRecord,
         AccessBenefit, AccessLoginUser, AccessOrgUser, Breaks, Throws, EndsWith, Goto
    <3>3. QED BY <2>1, <2>2, <3>1, <3>2 DEF Making, InFlight
  <2>5. CASE pc[c] = "invite"
    <3>1. body[c].op = "createUser"
      BY <2>5 DEF BodyAtStep, UserRequest
    <3>2. pc'[c] = "done" \/ strapiUsers[body[c].person] = None
      BY <1>2, <2>5 DEF Step, AddRole, CreateProvider, GetFields, AddPermissions, AddUserToRole,
         RegisterUser, CreateUserInDatabase, GetCatalogRoles, StrapiLogin, LoginRecord,
         AccessBenefit, AccessLoginUser, AccessOrgUser, Breaks, Throws, EndsWith, Goto
    <3>3. QED BY <2>1, <2>2, <3>1, <3>2 DEF Making, InFlight
  <2>6. CASE pc[c] \notin {"addRole", "invite"}
    BY <2>1, <2>2, <2>3, <2>6 DEF Making
  <2>7. QED BY <2>4, <2>5, <2>6
<1>3. QED BY <1>1, <1>2

LEMMA StuckStep ==
  ASSUME AdministrationInv, [Next]_vars
  PROVE  /\ \A n \in Role : StuckRole(n) => StuckRole(n)'
         /\ \A p \in Person : StuckPerson(p) => StuckPerson(p)'
<1>1. CASE UNCHANGED vars
  BY <1>1 DEF vars, StuckRole, StuckPerson, CompleteRole, Making
<1>2. ASSUME NEW c \in Call, Receive(c) \/ Step(c)
      PROVE  /\ \A n \in Role : StuckRole(n) => StuckRole(n)'
             /\ \A p \in Person : StuckPerson(p) => StuckPerson(p)'
  <2>1. ASSUME NEW n \in Role, StuckRole(n) PROVE StuckRole(n)'
    <3>1. ~(Making(c, "createRole") /\ body[c].role = n)
      BY <2>1 DEF StuckRole
    <3>2. pc[c] \in {"provider", "permissions"} => Making(c, "createRole")
      <4>1. pc[c] \in {"provider", "permissions"} => body[c] \in RoleRequest
        BY DEF AdministrationInv, BodyAtStep, RoleSteps
      <4>2. RoleRequest \subseteq Body
        BY DEF Body
      <4>3. \A q \in RoleRequest : q.op = "createRole" /\ q # None
        BY <4>2 DEF RoleRequest
      <4>4. QED BY <4>1, <4>3 DEF Making, InFlight, RoleSteps
    <3>3. ~CompleteRole(n)'
      <4>1. n \notin providers \/ n \notin permitted
        BY <2>1 DEF StuckRole, CompleteRole
      <4>2. n \notin providers' \/ n \notin permitted'
        BY <1>2, <3>1, <3>2, <4>1, CompletedByMaker
      <4>3. QED BY <4>2 DEF CompleteRole
    <3>4. ASSUME NEW d \in Call PROVE ~(Making(d, "createRole")' /\ body'[d].role = n)
      BY <1>2, <2>1, MakingBegins DEF StuckRole, Making
    <3>5. QED BY <1>2, <2>1, <3>3, <3>4, Kept DEF StuckRole
  <2>2. ASSUME NEW p \in Person, StuckPerson(p) PROVE StuckPerson(p)'
    <3>1. ~(Making(c, "createUser") /\ body[c].person = p)
      BY <2>2 DEF StuckPerson
    <3>2. pc[c] = "record" => Making(c, "createUser")
      <4>1. pc[c] = "record" => body[c] \in UserRequest
        BY DEF AdministrationInv, BodyAtStep, UserSteps
      <4>2. UserRequest \subseteq Body
        BY DEF Body
      <4>3. \A q \in UserRequest : q.op = "createUser" /\ q # None
        BY <4>2 DEF UserRequest
      <4>4. QED BY <4>1, <4>3 DEF Making, InFlight, UserSteps
    <3>3. users'[p] = None
      BY <1>2, <2>2, <3>1, <3>2, CompletedByMaker DEF StuckPerson
    <3>4. ASSUME NEW d \in Call PROVE ~(Making(d, "createUser")' /\ body'[d].person = p)
      BY <1>2, <2>2, MakingBegins DEF StuckPerson, Making
    <3>5. QED BY <1>2, <2>2, <3>3, <3>4, Kept DEF StuckPerson
  <2>3. QED BY <2>1, <2>2
<1>3. QED BY <1>1, <1>2 DEF Next

\* A half-made role or account that nobody is working on is never completed by
\* a later call.
THEOREM AdministrationStuck == Spec => StuckStays
<1>1. AdministrationInv /\ [Next]_vars =>
        [/\ \A n \in Role : StuckRole(n) => StuckRole(n)'
         /\ \A p \in Person : StuckPerson(p) => StuckPerson(p)']_vars
  BY StuckStep
<1>2. QED BY <1>1, AdministrationInvariant, PTL DEF Spec, StuckStays
=============================================================================
