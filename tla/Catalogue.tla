----------------------------- MODULE Catalogue ------------------------------
(***************************************************************************)
(* The DSEP endpoints of BenefitsService, served concurrently by one       *)
(* instance: search, select, init, update, confirm and status.  Each call  *)
(* stores the BAP it comes from in the fields bapId and bapUri of the      *)
(* service, waits for Strapi and the database, and builds the context of   *)
(* its answer from those fields.                                           *)
(*                                                                         *)
(* What becomes of the documents is the subject of Intake and Lifecycle;   *)
(* here it matters where in a call they are handled: init stores them      *)
(* after the insert, update deletes the old ones before its write and      *)
(* stores the new ones after it, and each of these steps may fail.  An     *)
(* application and an order id are named by the request that made them.    *)
(* bapId and bapUri are one field: they are set and read together.         *)
(***************************************************************************)
EXTENDS CatalogueItems, ErrorReporting, FiniteSets

CONSTANTS
  Request,       \* calls of the endpoints, retries included
  BAP,           \* bap_id with bap_uri
  BapApp,        \* bap_application_id
  Txn,           \* transaction_id
  Sent           \* bound: Sent[m]: the requests that may be sent in a behaviour of mix m

Endpoint == {"search", "select", "init", "update", "confirm", "status"}

ASSUME NoneNothing == None \notin Request \union BAP \union BapApp \union Txn \union Benefit

\* A request; only what its handler reads matters.  "bare" names no BAP; "partial"
\* lacks a field the handler reads before its first await (search: the domain is
\* not the service's own).  bapApp is None where the request has no
\* bap_application_id; docs says whether an update brings vc_documents.  target is
\* the application of update and confirm, the order of status; None stands for an
\* update that names the application by an order id, which is no number, and for a
\* status without order_id.
Refused == [op : Endpoint, form : {"bare"}, bap : {None}]
Partial == [op : Endpoint \ {"status"}, form : {"partial"}, bap : BAP]
Served ==
  [op : {"search"}, form : {"whole"}, bap : BAP]
    \union
  [op : {"select"}, form : {"whole"}, bap : BAP, benefit : Benefit]
    \union
  [op : {"init"}, form : {"whole"}, bap : BAP, benefit : Benefit, txn : Txn,
   bapApp : BapApp \union {None}]
    \union
  [op : {"update"}, form : {"whole"}, bap : BAP, benefit : Benefit, txn : Txn,
   bapApp : BapApp \union {None}, docs : BOOLEAN, target : Request \union {None}]
    \union
  [op : {"confirm"}, form : {"whole"}, bap : BAP, target : Request]
    \union
  [op : {"status"}, form : {"whole"}, bap : BAP, target : Request \union {None}]
Body == Refused \union Partial \union Served

ASSUME NoBodyAssumption == None \notin Body
ASSUME SentAssumption == \A m \in DOMAIN Sent : Sent[m] \subseteq Body

Row == [benefit : Benefit, txn : Txn, bap : BAP, bapApp : BapApp \union {None}, order : Request \union {None},
        status : {"initiated", "pending"}]
ASSUME NoRowAssumption == None \notin Row

InFlight ==
  {"lookup", "fetch", "find", "insert", "clear", "save", "files", "transform", "confirm"}

\* What a handler has in hand: the application it found or created, the orderId
\* it read of it, the benefits it fetched and the BAP of the context it built.
Local == [app : Request \union {None}, order : Request \union {None},
          fetched : SUBSET Benefit, context : BAP \union {None}]
NothingYet == [app |-> None, order |-> None, fetched |-> {}, context |-> None]

\* The items of the benefits that can be presented with tags or without, and every
\* item that can be in an answer.
Presented(withTags) == {Item(b, withTags) : b \in {c \in Benefit : Presentable(c, withTags)}}
Shown == UNION {Presented(withTags) : withTags \in BOOLEAN}

Answer == [status : {200, 400, 404, 500}, bap : BAP \union {None},
           app : Request \union {None}, order : Request \union {None},
           items : SUBSET Shown]
ASSUME NoAnswerAssumption == None \notin Answer

VARIABLES
  pc,            \* pc[r]: the step request r takes next
  body,          \* body[r]: the request, None before it arrives
  local,         \* local[r]: what its handler has in hand
  answer,        \* answer[r]: what the BAP got, None before
  bap,           \* bapId and bapUri of the service, None before the first request
  rows,          \* rows[a]: the application created by request a, or None
  mix,           \* the mix of requests that are sent
  together,      \* history: together[r]: the requests that were in flight when r
                 \* arrived or arrived while r was
  wrote,         \* history: the requests that wrote a row or deleted its documents
  moved          \* history: the applications whose bapId or bapApplicationId an
                 \* update changed

vars == <<pc, body, local, answer, bap, rows, mix, together, wrote, moved>>
call == <<body, together>>
data == <<rows, wrote, moved>>

Init ==
  /\ pc = [r \in Request |-> "idle"]
  /\ body = [r \in Request |-> None]
  /\ local = [r \in Request |-> NothingYet]
  /\ answer = [r \in Request |-> None]
  /\ bap = None
  /\ rows = [r \in Request |-> None]
  /\ mix \in DOMAIN Sent
  /\ together = [r \in Request |-> {}]
  /\ wrote = {}
  /\ moved = {}

Goto(r, step) == pc' = [pc EXCEPT ![r] = step]

-----------------------------------------------------------------------------
(* Answers *)

\* Variant with a fault: whatever is caught is answered as a bad request.
CaughtIsBadRequest(op, e) ==
  IF op \in {"search", "update"} THEN Status(e) ELSE Status(Rethrown(e, 404, 400))

\* What the caller gets for an error thrown by the handler of op: search and
\* update leave it to the exception filter, the others catch it first.
ErrorStatus(op, e) ==
  IF op \in {"search", "update"} THEN Status(e) ELSE Status(Rethrown(e, 404, 500))

EndsWith(r, a) ==
  /\ answer' = [answer EXCEPT ![r] = a]
  /\ local' = [local EXCEPT ![r] = NothingYet]
  /\ Goto(r, "done")

Error(status) ==
  [status |-> status, bap |-> None, app |-> None, order |-> None, items |-> {}]

\* The handler throws e.
Throws(r, e) == EndsWith(r, Error(ErrorStatus(body[r].op, e)))

\* It goes on to the next await with what it has in hand.
GoesOn(r, step, hand) ==
  /\ local' = [local EXCEPT ![r] = hand]
  /\ Goto(r, step)
  /\ UNCHANGED answer

-----------------------------------------------------------------------------
(* Arrival *)

\* The first await of each handler.
FirstStep(op) == IF op \in {"confirm", "status"} THEN "lookup" ELSE "fetch"

\* Variant with a fault: the first BAP the service ever met stays in its fields.
FirstBapStays(b) == IF bap = None THEN b ELSE bap

\* checkBapIdAndUri: the fields are overwritten by every request.
BapFieldsFor(b) == b

\* search looks at the domain before the BAP; the others look at the BAP before
\* the rest of the request, and before their try block.
Receive(r) ==
  /\ pc[r] = "idle"
  /\ \E q \in Sent[mix] :
       /\ body' = [body EXCEPT ![r] = q]
       /\ \/ /\ q.form = "bare" \/ (q.op = "search" /\ q.form = "partial")
             /\ EndsWith(r, Error(400))
             /\ UNCHANGED bap
          \/ /\ q.op # "search" /\ q.form = "partial"
             /\ EndsWith(r, Error(ErrorStatus(q.op, Http(400))))
             /\ bap' = BapFieldsFor(q.bap)
          \/ /\ q.form = "whole"
             /\ GoesOn(r, FirstStep(q.op), NothingYet)
             /\ bap' = BapFieldsFor(q.bap)
  /\ together' = [s \in Request |->
       IF s = r THEN {t \in Request : pc[t] \in InFlight}
         ELSE IF pc[s] \in InFlight THEN together[s] \union {r} ELSE together[s]]
  /\ UNCHANGED <<data, mix>>

-----------------------------------------------------------------------------
(* Reading the application and the benefit *)

\* confirm: findUnique by id; status: the first of findMany by orderId, where an
\* order id left out is no condition at all.
Wanted(r) ==
  {a \in Request : rows[a] # None /\
     IF body[r].op = "confirm" THEN a = body[r].target
       ELSE body[r].target = None \/ rows[a].order = body[r].target}

Lookup(r) ==
  /\ pc[r] = "lookup"
  /\ \/ Wanted(r) = {} /\ Throws(r, Http(400))
     \/ \E a \in Wanted(r) :
          GoesOn(r, "fetch", [local[r] EXCEPT !.app = a, !.order = rows[a].order])
  /\ UNCHANGED <<call, bap, data, mix>>

BenefitOf(r) ==
  IF body[r].op \in {"confirm", "status"} THEN rows[local[r].app].benefit
    ELSE body[r].benefit

AfterFetch(op) == IF op \in {"init", "update"} THEN "find" ELSE "transform"

\* Strapi's answer, benefits being published and withdrawn there at any time: the
\* published ones for search, the one asked for by the others.
Fetch(r) ==
  /\ pc[r] = "fetch"
  /\ \E found \in IF body[r].op = "search" THEN SUBSET Benefit ELSE {{BenefitOf(r)}} :
       GoesOn(r, AfterFetch(body[r].op), [local[r] EXCEPT !.fetched = found])
  /\ UNCHANGED <<call, bap, data, mix>>

\* A step throws: Strapi has no such benefit or does not answer, the database fails,
\* a document cannot be decoded, or, as a bad request, it cannot be uploaded or
\* recorded.  Nothing that was written is undone.
Breaks(r) ==
  /\ pc[r] \in InFlight \ {"transform"}
  /\ \/ pc[r] = "fetch" /\ \E status \in {404, None} : Throws(r, Axios(status))
     \/ pc[r] = "files" /\ Throws(r, Http(400))
     \/ Throws(r, Other)
  /\ UNCHANGED <<call, bap, data, mix>>

-----------------------------------------------------------------------------
(* init and update *)

\* The duplicates init looks for: a bap_application_id left out is no condition.
SameApplication(q, a) ==
  /\ rows[a].txn = q.txn /\ rows[a].bap = q.bap /\ rows[a].benefit = q.benefit
  /\ q.bapApp = None \/ rows[a].bapApp = q.bapApp

\* Variant with a fault: only applications not yet confirmed are duplicates.
FoundUnconfirmed(r, a) ==
  /\ rows[a] # None
  /\ IF body[r].op = "init" THEN SameApplication(body[r], a) /\ rows[a].order = None
       ELSE a = body[r].target /\ rows[a].txn = body[r].txn

\* init: findFirst by transaction, BAP, benefit and bap_application_id; update: by
\* id and transaction.
FoundBy(r, a) ==
  /\ rows[a] # None
  /\ IF body[r].op = "init" THEN SameApplication(body[r], a)
       ELSE a = body[r].target /\ rows[a].txn = body[r].txn

AfterFind(q) == IF q.op = "init" THEN "transform" ELSE IF q.docs THEN "clear" ELSE "save"

Find(r) ==
  /\ pc[r] = "find"
  /\ \/ \E a \in Request :
          /\ FoundBy(r, a)
          /\ GoesOn(r, AfterFind(body[r]), [local[r] EXCEPT !.app = a])
     \/ /\ \A a \in Request : ~FoundBy(r, a)
        /\ IF body[r].op = "init"
             THEN GoesOn(r, "insert", local[r])
             ELSE Throws(r, Http(IF body[r].target = None THEN 400 ELSE 404))
  /\ UNCHANGED <<call, bap, data, mix>>

Insert(r) ==
  /\ pc[r] = "insert"
  /\ rows' = [rows EXCEPT ![r] =
       [benefit |-> body[r].benefit, txn |-> body[r].txn, bap |-> body[r].bap,
        bapApp |-> body[r].bapApp, order |-> None, status |-> "initiated"]]
  /\ wrote' = wrote \union {r}
  /\ GoesOn(r, "files", [local[r] EXCEPT !.app = r])
  /\ UNCHANGED <<call, bap, moved, mix>>

\* updateApplication: the documents stored before are deleted first.
Clear(r) ==
  /\ pc[r] = "clear"
  /\ wrote' = wrote \union {r}
  /\ GoesOn(r, "save", local[r])
  /\ UNCHANGED <<call, bap, rows, moved, mix>>

\* The bap_application_id of application a after request q.
KeptBapApp(q, a) == IF q.bapApp = None THEN rows[a].bapApp ELSE q.bapApp

\* Variant with a fault: the benefit of the request is written with the rest.
SavesBenefitToo(q, a) ==
  [rows[a] EXCEPT !.txn = q.txn, !.bap = q.bap, !.bapApp = KeptBapApp(q, a),
                  !.benefit = q.benefit, !.status = "pending"]

\* The row of application a after request q of an update.
Updated(q, a) ==
  [rows[a] EXCEPT !.txn = q.txn, !.bap = q.bap, !.bapApp = KeptBapApp(q, a),
                  !.status = "pending"]

\* The update of updateApplication, by id: the row gets the transaction, the BAP
\* and, if it has one, the bap_application_id of the request.
Save(r) ==
  /\ pc[r] = "save"
  /\ LET a == local[r].app IN
       /\ rows' = [rows EXCEPT ![a] = Updated(body[r], a)]
       /\ moved' = IF <<rows[a].bap, rows[a].bapApp>> # <<rows'[a].bap, rows'[a].bapApp>>
                    THEN moved \union {a} ELSE moved
  /\ wrote' = wrote \union {r}
  /\ GoesOn(r, IF body[r].docs THEN "files" ELSE "transform", local[r])
  /\ UNCHANGED <<call, bap, mix>>

\* processApplicationFiles: each document is stored and recorded.
Files(r) ==
  /\ pc[r] = "files"
  /\ GoesOn(r, "transform", local[r])
  /\ UNCHANGED <<call, bap, data, mix>>

-----------------------------------------------------------------------------
(* The ONEST answer *)

WithTags(r) == body[r].op \in {"search", "select"}
Answering(r, context, order) ==
  [status |-> 200, bap |-> context, app |-> local[r].app, order |-> order,
   items |-> {Item(b, WithTags(r)) : b \in local[r].fetched}]

\* transformScholarshipsToOnestFormat: the context has the BAP the fields hold by
\* now.  One benefit that cannot be presented fails the whole answer.
Transform(r) ==
  /\ pc[r] = "transform"
  /\ IF \A b \in local[r].fetched : Presentable(b, WithTags(r))
       THEN IF body[r].op = "confirm"
              THEN GoesOn(r, "confirm", [local[r] EXCEPT !.context = bap])
              ELSE EndsWith(r, Answering(r, bap, local[r].order))
       ELSE Throws(r, Other)
  /\ UNCHANGED <<call, bap, data, mix>>

\* Variant with a fault: every confirm makes an order id.
OrderAlwaysNew(r) == r

\* confirm keeps the order id it read, or makes one.
ConfirmedOrder(r) == IF local[r].order = None THEN r ELSE local[r].order

Confirm(r) ==
  /\ pc[r] = "confirm"
  /\ LET a == local[r].app IN
       rows' = [rows EXCEPT ![a].order = ConfirmedOrder(r), ![a].status = "pending"]
  /\ wrote' = wrote \union {r}
  /\ EndsWith(r, Answering(r, local[r].context, ConfirmedOrder(r)))
  /\ UNCHANGED <<call, bap, moved, mix>>

-----------------------------------------------------------------------------

Step(r) ==
  \/ Lookup(r)
  \/ Fetch(r)
  \/ Find(r)
  \/ Insert(r)
  \/ Clear(r)
  \/ Save(r)
  \/ Files(r)
  \/ Transform(r)
  \/ Confirm(r)
  \/ Breaks(r)

Next == \E r \in Request : Receive(r) \/ Step(r)

Spec == Init /\ [][Next]_vars

-----------------------------------------------------------------------------

TypeOK ==
  /\ pc \in [Request -> {"idle", "done"} \union InFlight]
  /\ body \in [Request -> Body \union {None}]
  /\ local \in [Request -> Local]
  /\ answer \in [Request -> Answer \union {None}]
  /\ bap \in BAP \union {None}
  /\ rows \in [Request -> Row \union {None}]
  /\ mix \in DOMAIN Sent
  /\ together \in [Request -> SUBSET Request]
  /\ wrote \subseteq Request /\ moved \subseteq Request

Answered(r) == answer[r] # None /\ answer[r].status = 200

\* b is the BAP of request r, or of one that was in flight at the same time.
BapAround(r, b) == b = body[r].bap \/ \E s \in together[r] : b = body[s].bap

\* The context of an answer names the BAP that asked, or one whose request was
\* in flight at the same time: bapId and bapUri are fields of the one service.
ForeignBapOnlyByOverlap == \A r \in Request : Answered(r) => BapAround(r, answer[r].bap)

\* An error below 500, the caller's to correct, comes before the request has written
\* or deleted anything; only a 500 may hide a created or changed application.  The one
\* exception is an update that brings documents: it is a bad request when they fail,
\* after the row is written.
RefusalLeavesNoTrace ==
  \A r \in wrote :
    answer[r] # None /\ answer[r].status \notin {200, 500} =>
      body[r].op = "update" /\ body[r].docs

\* An application that was answered to init stays the one its id and transaction
\* select, so that an update that names both finds it.
AnsweredApplicationStays ==
  \A r \in Request : Answered(r) /\ body[r].op = "init" =>
    /\ answer[r].app # None
    /\ rows[answer[r].app] # None
    /\ rows[answer[r].app].txn = body[r].txn
    /\ rows[answer[r].app].benefit = body[r].benefit

\* An init that is sent again makes a second application only if the two calls
\* overlapped, or an update in the name of another BAP or with another
\* bap_application_id moved one of them out of the sight of the lookup.
SecondRowOnlyByOverlapOrMove ==
  \A a, c \in Request :
    /\ a # c /\ rows[a] # None /\ rows[c] # None
    /\ body[a] = body[c]
    => a \in together[c] \/ a \in moved \/ c \in moved

\* An order id that confirm answered is the order id of an application, so that
\* status finds it, unless another confirm overlapped that one.
ConfirmedOrderIsFound ==
  \A r \in Request :
    /\ Answered(r) /\ body[r].op = "confirm"
    /\ \A t \in together[r] : body[t].op # "confirm"
    => \E a \in Request : rows[a] # None /\ rows[a].order = answer[r].order

\* The application and the order id that init and confirm answered stay where a
\* later update and status look for them.
AnswersStand == AnsweredApplicationStays /\ ConfirmedOrderIsFound

\* The list of the tag with this code, if there is one.
ListOf(tags, code) ==
  LET found == {t \in DOMAIN tags : tags[t].code = code}
  IN IF found = {} THEN <<>> ELSE tags[CHOOSE t \in found : TRUE].list

\* The places of the fields of a form that has groups without fields.
Places(form) ==
  UNION {{g} \X (1..Len(form[g])) : g \in {h \in DOMAIN form : form[h] # NoText}}

\* Each rupee of these amounts.
Rupees(amounts) == UNION {{k} \X (1..amounts[k]) : k \in 1..Len(amounts)}

\* Tags and price show all that the entry has: one tag for each part, with the elements of
\* the part in order and the code of each; of the form, the fields of every group, no
\* more and no less; in the price, every amount of every description.
ShowsWhole(item, e) ==
  LET Listed(code) == ListOf(item.tags, code)
      fields == Listed("applicationForm")
  IN /\ \A t, u \in DOMAIN item.tags : item.tags[t].code = item.tags[u].code => t = u
     /\ \A t \in DOMAIN item.tags : Len(item.tags[t].kinds) = Len(item.tags[t].list)
     /\ Listed("eligibility") = e.eligibility /\ Listed("required-docs") = e.documents
     /\ Listed("benefits") = e.benefits /\ Listed("exclusions") = e.exclusions
     /\ Listed("sponsoringEntities") = e.sponsors
     /\ Len(fields) = Cardinality(Places(e.form))
     /\ \A at \in Places(e.form) : \E k \in DOMAIN fields :
          fields[k] = [group |-> at[1], field |-> e.form[at[1]][at[2]]]
     /\ item.price = Cardinality(Rupees(FlattenSeq(e.benefits)))

\* The items answered to search and select show their benefits whole.
ItemsShowWholeBenefits ==
  \A r \in Request : Answered(r) /\ WithTags(r) =>
    \A i \in answer[r].items : ShowsWhole(i, Entry(i.id))

-----------------------------------------------------------------------------
(* The inductive invariant: what a handler may believe at its next step. *)

StepOfRequest ==
  \A r \in Request :
    /\ pc[r] = "idle" <=> body[r] = None
    /\ pc[r] = "done" <=> answer[r] # None
    /\ pc[r] \in InFlight => body[r] \in Served
    /\ pc[r] = "lookup" => body[r].op \in {"confirm", "status"}
    /\ pc[r] = "find" => body[r].op \in {"init", "update"}
    /\ pc[r] = "insert" => body[r].op = "init"
    /\ pc[r] = "clear" => body[r].op = "update" /\ body[r].docs
    /\ pc[r] = "save" => body[r].op = "update"
    /\ pc[r] = "files" => body[r].op = "init" \/ (body[r].op = "update" /\ body[r].docs)
    /\ pc[r] = "confirm" => body[r].op = "confirm"

\* Requests in flight know of each other.
Together ==
  /\ \A r, s \in Request :
       r # s /\ pc[r] \in InFlight /\ pc[s] \in InFlight => s \in together[r]
  /\ \A r, s \in Request : s \in together[r] =>
       r \in together[s] /\ pc[r] # "idle"

\* The fields of the service and a context made of them.
BapOfFields ==
  \A r \in Request : /\ pc[r] \in InFlight => BapAround(r, bap)
                     /\ pc[r] = "confirm" => BapAround(r, local[r].context)

\* A row is of the init request that made it; only what names it to its BAP may change.
RowOfRequest ==
  /\ \A a \in Request : rows[a] # None =>
       /\ a \in wrote
       /\ body[a] \in Served /\ body[a].op = "init"
       /\ rows[a].txn = body[a].txn
       /\ rows[a].benefit = body[a].benefit
       /\ <<rows[a].bap, rows[a].bapApp>> = <<body[a].bap, body[a].bapApp>> \/ a \in moved
  /\ \A r \in wrote : pc[r] # "done" =>
       \/ pc[r] \in {"files", "transform"} /\ body[r].op \in {"init", "update"}
       \/ pc[r] = "save"

\* The application a handler has in hand.
InHand ==
  \A r \in Request :
    LET a == local[r].app IN
    /\ a # None => rows[a] # None
    /\ pc[r] \in {"fetch", "transform", "confirm"} /\ body[r].op \in {"confirm", "status"} => a # None
    /\ pc[r] \in {"clear", "save"} => a # None /\ rows[a].txn = body[r].txn
    /\ pc[r] \in {"files", "transform"} /\ body[r].op = "init" =>
         a # None /\ rows[a].txn = body[r].txn /\ rows[a].benefit = body[r].benefit
    /\ pc[r] = "confirm" => \A b \in local[r].fetched : Presentable(b, FALSE)

\* An init about to insert overlooked no row but those of requests around it and
\* those that were moved.
Overlooked ==
  \A a, c \in Request :
    pc[c] = "insert" /\ rows[a] # None /\ body[a] = body[c] => a \in together[c] \/ a \in moved

\* Once answered, an order id stands in its row and in what later confirms read.
OrderStands ==
  \A r \in Request :
    /\ Answered(r) /\ body[r].op = "confirm"
    /\ \A t \in together[r] : body[t].op # "confirm"
    => LET a == answer[r].app IN
       /\ a # None /\ rows[a] # None
       /\ answer[r].order # None /\ rows[a].order = answer[r].order
       /\ \A t \in Request :
            /\ pc[t] \in {"fetch", "transform", "confirm"}
            /\ body[t].op = "confirm" /\ local[t].app = a
            => local[t].order = answer[r].order

\* The items of an answer are those of benefits that could be presented, with tags
\* for those who asked for them.
ItemsFor(r) == IF WithTags(r) THEN Presented(TRUE) ELSE Presented(FALSE)
ItemState == \A r \in Request : Answered(r) => answer[r].items \subseteq ItemsFor(r)

\* What a handler may believe, all parts together.
HandlerInv ==
  /\ TypeOK
  /\ StepOfRequest
  /\ Together
  /\ BapOfFields /\ ForeignBapOnlyByOverlap
  /\ RowOfRequest /\ RefusalLeavesNoTrace
  /\ InHand /\ AnsweredApplicationStays
  /\ Overlooked /\ SecondRowOnlyByOverlapOrMove
  /\ OrderStands

CatalogueInv == HandlerInv /\ ItemState
=============================================================================
