-------------------------- MODULE CatalogueProofs ---------------------------
(***************************************************************************)
(* What the DSEP endpoints guarantee for any number of requests, BAPs,     *)
(* transactions and benefits, whatever the benefits contain.               *)
(***************************************************************************)
EXTENDS Catalogue, FiniteSetTheorems, WellFoundedInduction, TLAPS

USE NoneNothing, NoBodyAssumption, NoRowAssumption, NoAnswerAssumption, NoStatusAssumption

\* The status that each error thrown here ends in.
LEMMA Statuses ==
  /\ \A op, e : e \in {Axios(None), Axios(404), Other, Http(400), Http(404)} =>
       ErrorStatus(op, e) \in {400, 404, 500}
  /\ \A op : ErrorStatus(op, Other) = 500
  /\ ErrorStatus("init", Http(400)) = 500
BY DEF ErrorStatus, Status, Rethrown, Axios, Http, Other

\* The fields of a whole request.
LEMMA ServedFields ==
  ASSUME NEW q \in Served
  PROVE  /\ q.op \in Endpoint /\ q.form = "whole" /\ q.bap \in BAP
         /\ q.op \in {"select", "init", "update"} => q.benefit \in Benefit
         /\ q.op \in {"init", "update"} => q.txn \in Txn /\ q.bapApp \in BapApp \union {None}
BY DEF Served, Endpoint

LEMMA ErrorAnswers == \A s \in {400, 404, 500} : Error(s) \in Answer /\ Error(s).status = s
BY DEF Error, Answer

\* What EndsWith and GoesOn make of the four functions they write.
LEMMA Ends ==
  ASSUME TypeOK, NEW r \in Request, NEW a \in Answer, EndsWith(r, a)
  PROVE  /\ pc' \in [Request -> {"idle", "done"} \union InFlight]
         /\ answer' \in [Request -> Answer \union {None}]
         /\ local' \in [Request -> Local]
         /\ pc'[r] = "done" /\ answer'[r] = a /\ local'[r] = NothingYet
         /\ \A s \in Request \ {r} :
              pc'[s] = pc[s] /\ answer'[s] = answer[s] /\ local'[s] = local[s]
<1>1. NothingYet \in Local
  BY DEF NothingYet, Local
<1>2. QED BY <1>1 DEF TypeOK, EndsWith, Goto

LEMMA Goes ==
  ASSUME TypeOK, NEW r \in Request, NEW step \in InFlight, NEW hand \in Local,
         GoesOn(r, step, hand)
  PROVE  /\ pc' \in [Request -> {"idle", "done"} \union InFlight]
         /\ local' \in [Request -> Local]
         /\ pc'[r] = step /\ local'[r] = hand
         /\ answer' = answer
         /\ \A s \in Request \ {r} : pc'[s] = pc[s] /\ local'[s] = local[s]
BY DEF TypeOK, GoesOn, Goto

LEMMA CatalogueInitInv == Init => HandlerInv
<1> SUFFICES ASSUME Init PROVE HandlerInv
  OBVIOUS
<1>1. \A r \in Request : /\ pc[r] = "idle" /\ body[r] = None /\ local[r] = NothingYet
                         /\ answer[r] = None /\ rows[r] = None /\ together[r] = {}
  BY DEF Init
<1>2. TypeOK
  BY DEF Init, TypeOK, NothingYet, Local
<1>3. StepOfRequest /\ Together /\ BapOfFields
  BY <1>1 DEF StepOfRequest, Together, BapOfFields, InFlight
<1>4. wrote = {} /\ \A r \in Request : ~Answered(r)
  BY <1>1 DEF Init, Answered
<1>5. /\ RowOfRequest /\ RefusalLeavesNoTrace /\ ForeignBapOnlyByOverlap
      /\ AnsweredApplicationStays /\ Overlooked /\ SecondRowOnlyByOverlapOrMove /\ OrderStands
  BY <1>1, <1>4 DEF RowOfRequest, RefusalLeavesNoTrace, ForeignBapOnlyByOverlap,
       AnsweredApplicationStays, Overlooked, SecondRowOnlyByOverlapOrMove, OrderStands
<1>6. InHand
  <2>1. \A r \in Request : pc[r] = "idle" /\ local[r].app = None
    BY <1>1 DEF NothingYet
  <2>2. QED BY <2>1 DEF InHand
<1>7. QED BY <1>2, <1>3, <1>5, <1>6 DEF HandlerInv

-----------------------------------------------------------------------------
(* Steps that leave the rows alone *)

\* A request ends with an error, a 500 if it has written and brought no documents.
LEMMA ErrorInv ==
  ASSUME HandlerInv, NEW r \in Request, pc[r] \in InFlight,
         NEW s \in {400, 404, 500},
         r \in wrote /\ s # 500 => body[r].op = "update" /\ body[r].docs,
         EndsWith(r, Error(s)), UNCHANGED <<call, bap, data, mix>>
  PROVE  HandlerInv'
<1> USE DEF call, data
<1> DEFINE a == Error(s)
<1>1. a \in Answer /\ a.status = s /\ a # None
  BY ErrorAnswers
<1>2. /\ pc' \in [Request -> {"idle", "done"} \union InFlight]
      /\ answer' \in [Request -> Answer \union {None}]
      /\ local' \in [Request -> Local]
      /\ pc'[r] = "done" /\ answer'[r] = a /\ local'[r] = NothingYet
      /\ \A t \in Request \ {r} : pc'[t] = pc[t] /\ answer'[t] = answer[t] /\ local'[t] = local[t]
  BY <1>1, Ends DEF HandlerInv
<1> HIDE DEF a
<1>3. TypeOK'
  BY <1>2 DEF HandlerInv, TypeOK
<1>4. StepOfRequest'
  BY <1>1, <1>2 DEF HandlerInv, StepOfRequest, InFlight
<1>5. Together'
  BY <1>2 DEF HandlerInv, Together, InFlight
<1>6. ~Answered(r)' /\ \A t \in Request \ {r} : Answered(t)' <=> Answered(t)
  BY <1>1, <1>2 DEF Answered
<1>7. BapOfFields' /\ ForeignBapOnlyByOverlap'
  BY <1>2, <1>6 DEF HandlerInv, BapOfFields, ForeignBapOnlyByOverlap, BapAround, InFlight
<1>8. RowOfRequest' /\ RefusalLeavesNoTrace'
  BY <1>1, <1>2 DEF HandlerInv, RowOfRequest, RefusalLeavesNoTrace, TypeOK
<1>9. InHand'
  <2>1. local'[r].app = None
    BY <1>2 DEF NothingYet
  <2>2. QED BY <1>2, <2>1 DEF HandlerInv, InHand, Presentable, Missing, Entry
<1>10. AnsweredApplicationStays'
  BY <1>2, <1>6 DEF HandlerInv, AnsweredApplicationStays
<1>11. Overlooked' /\ SecondRowOnlyByOverlapOrMove'
  BY <1>2 DEF HandlerInv, Overlooked, SecondRowOnlyByOverlapOrMove
<1>12. OrderStands'
  BY <1>2, <1>6 DEF HandlerInv, OrderStands
<1>13. QED BY <1>3, <1>4, <1>5, <1>7, <1>8, <1>9, <1>10, <1>11, <1>12 DEF HandlerInv

\* Order ids that were answered to a confirm nobody overlapped.
Settled(q) ==
  /\ Answered(q) /\ body[q].op = "confirm"
  /\ \A t \in together[q] : body[t].op # "confirm"

\* A handler goes on without writing, with what it may believe in hand.
LEMMA MoveInv ==
  ASSUME HandlerInv, NEW r \in Request, pc[r] \in InFlight,
         NEW step \in InFlight \ {"lookup", "files"},
         r \in wrote => step = "transform" /\ body[r].op \in {"init", "update"},
         NEW hand \in Local, GoesOn(r, step, hand),
         UNCHANGED <<call, bap, data, mix>>,
         /\ step = "find" => body[r].op \in {"init", "update"}
         /\ step = "insert" => body[r].op = "init"
         /\ step = "clear" => body[r].op = "update" /\ body[r].docs
         /\ step = "save" => body[r].op = "update"
         /\ step = "confirm" => body[r].op = "confirm" /\ BapAround(r, hand.context),
         /\ hand.app # None => rows[hand.app] # None
         /\ step # "find" /\ body[r].op \in {"confirm", "status"} => hand.app # None
         /\ step \in {"clear", "save"} => hand.app # None /\ rows[hand.app].txn = body[r].txn
         /\ step = "transform" /\ body[r].op = "init" =>
              /\ hand.app # None /\ rows[hand.app].txn = body[r].txn
              /\ rows[hand.app].benefit = body[r].benefit
         /\ step = "confirm" => \A b \in hand.fetched : Presentable(b, FALSE),
         step = "insert" => \A a \in Request :
           rows[a] # None /\ body[a] = body[r] => a \in together[r] \/ a \in moved,
         body[r].op = "confirm" => \A q \in Request :
           Settled(q) /\ answer[q].app = hand.app => hand.order = answer[q].order
  PROVE  HandlerInv'
<1> USE DEF call, data
<1>1. /\ pc' \in [Request -> {"idle", "done"} \union InFlight]
      /\ local' \in [Request -> Local]
      /\ pc'[r] = step /\ local'[r] = hand
      /\ answer' = answer
      /\ \A t \in Request \ {r} : pc'[t] = pc[t] /\ local'[t] = local[t]
  BY Goes DEF HandlerInv
<1>2. TypeOK'
  BY <1>1 DEF HandlerInv, TypeOK
<1>3. StepOfRequest'
  BY <1>1 DEF HandlerInv, StepOfRequest, InFlight
<1>4. Together'
  BY <1>1 DEF HandlerInv, Together, InFlight
<1>5. BapOfFields' /\ ForeignBapOnlyByOverlap'
  BY <1>1 DEF HandlerInv, BapOfFields, ForeignBapOnlyByOverlap, BapAround, Answered
<1>6. RowOfRequest' /\ RefusalLeavesNoTrace'
  BY <1>1 DEF HandlerInv, RowOfRequest, RefusalLeavesNoTrace, TypeOK
<1>7. InHand'
  BY <1>1 DEF HandlerInv, InHand, Presentable, Missing, Entry
<1>8. AnsweredApplicationStays'
  BY <1>1 DEF HandlerInv, AnsweredApplicationStays, Answered
<1>9. Overlooked' /\ SecondRowOnlyByOverlapOrMove'
  BY <1>1 DEF HandlerInv, Overlooked, SecondRowOnlyByOverlapOrMove
<1>10. OrderStands'
  BY <1>1 DEF HandlerInv, OrderStands, Settled, Answered
<1>11. QED BY <1>2, <1>3, <1>4, <1>5, <1>6, <1>7, <1>8, <1>9, <1>10 DEF HandlerInv

\* A request arrives.
LEMMA ReceiveInv ==
  ASSUME HandlerInv, NEW r \in Request, Receive(r)
  PROVE  HandlerInv'
<1> USE DEF data
<1> DEFINE refusal(q) == ErrorStatus(q.op, Http(400))
<1>1. PICK q \in Body :
        /\ body' = [body EXCEPT ![r] = q]
        /\ \/ EndsWith(r, Error(400)) /\ bap' = bap
           \/ EndsWith(r, Error(refusal(q))) /\ bap' = q.bap
           \/ q.form = "whole" /\ GoesOn(r, FirstStep(q.op), NothingYet) /\ bap' = q.bap
  BY SentAssumption DEF Receive, BapFieldsFor, HandlerInv, TypeOK
<1>2. pc[r] = "idle" /\ UNCHANGED <<rows, wrote, moved, mix>>
  BY DEF Receive
<1>3. together' = [t \in Request |->
        IF t = r THEN {u \in Request : pc[u] \in InFlight}
          ELSE IF pc[t] \in InFlight THEN together[t] \union {r} ELSE together[t]]
  BY DEF Receive
<1>4. q.bap \in BAP \union {None} /\ (q.form = "whole" => q \in Served)
  BY DEF Body, Refused, Partial, Served
<1>5. NothingYet \in Local /\ NothingYet.app = None
  BY DEF NothingYet, Local
<1>6. /\ pc' \in [Request -> {"idle", "done"} \union InFlight]
      /\ answer' \in [Request -> Answer \union {None}]
      /\ local' \in [Request -> Local]
      /\ local'[r] = NothingYet
      /\ \A t \in Request \ {r} : pc'[t] = pc[t] /\ answer'[t] = answer[t] /\ local'[t] = local[t]
      /\ \/ pc'[r] = "done" /\ answer'[r] # None /\ ~Answered(r)' /\ bap' \in {bap, q.bap}
         \/ /\ pc'[r] = FirstStep(q.op) /\ answer'[r] = answer[r] /\ q \in Served /\ bap' = q.bap
  <2>1. CASE EndsWith(r, Error(400)) /\ bap' = bap
    BY <2>1, Ends, ErrorAnswers DEF HandlerInv, Answered
  <2>2. CASE EndsWith(r, Error(refusal(q))) /\ bap' = q.bap
    <3>1. refusal(q) \in {400, 404, 500}
      BY Statuses
    <3> HIDE DEF refusal
    <3>2. QED BY <2>2, <3>1, Ends, ErrorAnswers DEF HandlerInv, Answered
  <2>3. CASE q.form = "whole" /\ GoesOn(r, FirstStep(q.op), NothingYet) /\ bap' = q.bap
    BY <2>3, <1>4, <1>5, Goes DEF HandlerInv, TypeOK, FirstStep, InFlight
  <2>4. QED BY <1>1, <2>1, <2>2, <2>3
<1>7. /\ body' \in [Request -> Body \union {None}] /\ body'[r] = q
      /\ \A t \in Request \ {r} : body'[t] = body[t]
  BY <1>1 DEF HandlerInv, TypeOK
<1>8. answer[r] = None /\ r \notin wrote /\ rows[r] = None
  BY <1>2 DEF HandlerInv, StepOfRequest, RowOfRequest
<1>9. /\ together' \in [Request -> SUBSET Request]
      /\ together'[r] = {u \in Request : pc[u] \in InFlight}
      /\ \A t \in Request \ {r} :
           /\ together'[t] = IF pc[t] \in InFlight THEN together[t] \union {r} ELSE together[t]
           /\ r \notin together[t]
  BY <1>2, <1>3 DEF HandlerInv, TypeOK, Together
<1>10. TypeOK'
  BY <1>2, <1>4, <1>6, <1>7, <1>9 DEF HandlerInv, TypeOK
<1>11. StepOfRequest'
  BY <1>2, <1>6, <1>7, <1>8 DEF HandlerInv, StepOfRequest, InFlight, FirstStep
<1>12. Together'
  BY <1>2, <1>6, <1>9 DEF HandlerInv, Together, FirstStep, InFlight
<1>13. \A t \in Request \ {r} : \A b : BapAround(t, b) => BapAround(t, b)'
  BY <1>7, <1>9 DEF BapAround, HandlerInv, TypeOK
<1>14. \A t \in Request \ {r} : Answered(t)' <=> Answered(t)
  BY <1>6 DEF Answered
<1>15. ~Answered(r)'
  BY <1>6, <1>8 DEF Answered
<1>16. BapOfFields'
  <2>1. pc'[r] \in InFlight => BapAround(r, bap)'
    BY <1>6, <1>7 DEF BapAround, InFlight
  <2>2. pc'[r] # "confirm"
    BY <1>6 DEF FirstStep
  <2>3. \A t \in Request \ {r} : pc'[t] \in InFlight => BapAround(t, bap)'
    BY <1>6, <1>7, <1>9, <1>13 DEF HandlerInv, BapOfFields, BapAround
  <2>4. QED BY <1>6, <1>13, <2>1, <2>2, <2>3 DEF HandlerInv, BapOfFields
<1>17. ForeignBapOnlyByOverlap'
  BY <1>6, <1>13, <1>14, <1>15 DEF HandlerInv, ForeignBapOnlyByOverlap
<1>18. RowOfRequest' /\ RefusalLeavesNoTrace'
  BY <1>2, <1>6, <1>7, <1>8 DEF HandlerInv, RowOfRequest, RefusalLeavesNoTrace, TypeOK
<1>19. InHand'
  BY <1>2, <1>5, <1>6, <1>7 DEF HandlerInv, InHand, Presentable, Missing, Entry, FirstStep
<1>20. AnsweredApplicationStays'
  BY <1>2, <1>6, <1>7, <1>14, <1>15 DEF HandlerInv, AnsweredApplicationStays
<1>21. Overlooked'
  BY <1>2, <1>6, <1>7, <1>8, <1>9 DEF HandlerInv, Overlooked, FirstStep
<1>22. SecondRowOnlyByOverlapOrMove'
  BY <1>2, <1>7, <1>8, <1>9 DEF HandlerInv, SecondRowOnlyByOverlapOrMove
<1>23. OrderStands'
  <2>1. \A p \in Request : Settled(p)' => p # r /\ Settled(p)
    BY <1>7, <1>9, <1>14, <1>15 DEF Settled, HandlerInv, TypeOK
  <2>2. ~(pc'[r] \in {"fetch", "transform", "confirm"} /\ body'[r].op = "confirm")
    BY <1>6, <1>7 DEF FirstStep
  <2>3. QED BY <1>2, <1>6, <1>7, <2>1, <2>2 DEF HandlerInv, OrderStands, Settled
<1>24. QED
  BY <1>10, <1>11, <1>12, <1>16, <1>17, <1>18, <1>19, <1>20, <1>21, <1>22, <1>23 DEF HandlerInv

\* A request ends with what its handler throws.
LEMMA ThrowInv ==
  ASSUME HandlerInv, NEW r \in Request, pc[r] \in InFlight,
         NEW e \in {Axios(None), Axios(404), Other, Http(400), Http(404)},
         r \in wrote => e = Other \/ (e = Http(400) /\ pc[r] = "files"),
         Throws(r, e), UNCHANGED <<call, bap, data, mix>>
  PROVE  HandlerInv'
<1> DEFINE s == ErrorStatus(body[r].op, e)
<1>1. EndsWith(r, Error(s))
  BY DEF Throws
<1>2. s \in {400, 404, 500}
  BY Statuses
<1>3. ASSUME r \in wrote, s # 500 PROVE body[r].op = "update" /\ body[r].docs
  <2>1. e = Http(400) /\ pc[r] = "files"
    BY <1>3, Statuses
  <2>2. body[r].op # "init"
    BY <1>3, <2>1, Statuses
  <2>3. QED BY <2>1, <2>2 DEF HandlerInv, StepOfRequest
<1> HIDE DEF s
<1>4. QED BY <1>1, <1>2, <1>3, ErrorInv

\* Who has not got past its write has not written.
LEMMA NotWrittenYet ==
  ASSUME HandlerInv, NEW r \in Request, pc[r] \in InFlight,
         pc[r] \notin {"save", "files"}, pc[r] = "transform" => body[r].op = "confirm"
  PROVE  r \notin wrote
BY DEF HandlerInv, RowOfRequest, InFlight

\* The request a handler in flight serves and what it has in hand.
LEMMA HandAndRequest ==
  ASSUME HandlerInv, NEW r \in Request, pc[r] \in InFlight
  PROVE  /\ body[r] \in Served /\ local[r] \in Local
         /\ local[r].app # None => rows[local[r].app] \in Row
         /\ answer[r] = None
<1>1. body[r] \in Served /\ local[r] \in Local
  BY DEF HandlerInv, TypeOK, StepOfRequest
<1>2. answer[r] = None
  BY DEF HandlerInv, StepOfRequest, InFlight
<1>3. local[r].app \in Request \union {None}
  BY <1>1 DEF Local
<1>4. local[r].app # None => rows[local[r].app] # None
  BY DEF HandlerInv, InHand
<1>5. QED BY <1>1, <1>2, <1>3, <1>4 DEF HandlerInv, TypeOK

LEMMA LookupInv ==
  ASSUME HandlerInv, NEW r \in Request, Lookup(r)
  PROVE  HandlerInv'
<1>1. pc[r] = "lookup" /\ pc[r] \in InFlight /\ UNCHANGED <<call, bap, data, mix>>
  BY DEF Lookup, InFlight
<1>2. r \notin wrote /\ local[r] \in Local /\ body[r].op \in {"confirm", "status"}
  BY <1>1, NotWrittenYet, HandAndRequest DEF HandlerInv, StepOfRequest
<1>3. CASE Throws(r, Http(400))
  BY <1>1, <1>2, <1>3, ThrowInv
<1>4. CASE \E a \in Wanted(r) :
             GoesOn(r, "fetch", [local[r] EXCEPT !.app = a, !.order = rows[a].order])
  <2>1. PICK a \in Wanted(r) :
          GoesOn(r, "fetch", [local[r] EXCEPT !.app = a, !.order = rows[a].order])
    BY <1>4
  <2> DEFINE hand == [local[r] EXCEPT !.app = a, !.order = rows[a].order]
  <2>2. a \in Request /\ rows[a] # None /\ a # None
    BY <2>1 DEF Wanted
  <2>3. rows[a].order \in Request \union {None}
    BY <2>2 DEF HandlerInv, TypeOK, Row
  <2>4. hand \in Local /\ hand.app = a /\ hand.order = rows[a].order
    BY <1>2, <2>2, <2>3 DEF Local
  <2>5. \A q \in Request : Settled(q) /\ answer[q].app = a => rows[a].order = answer[q].order
    BY DEF HandlerInv, OrderStands, Settled
  <2> HIDE DEF hand
  <2>6. GoesOn(r, "fetch", hand) /\ "fetch" \in InFlight \ {"lookup", "files"}
    BY <2>1 DEF hand, InFlight
  <2>7. QED BY <1>1, <1>2, <2>2, <2>4, <2>5, <2>6, MoveInv
<1>5. QED BY <1>3, <1>4 DEF Lookup

LEMMA FetchInv ==
  ASSUME HandlerInv, NEW r \in Request, Fetch(r)
  PROVE  HandlerInv'
<1>1. pc[r] = "fetch" /\ pc[r] \in InFlight /\ UNCHANGED <<call, bap, data, mix>>
  BY DEF Fetch, InFlight
<1>2. r \notin wrote /\ local[r] \in Local /\ body[r] \in Served
  BY <1>1, NotWrittenYet, HandAndRequest
<1>3. PICK found \in IF body[r].op = "search" THEN SUBSET Benefit ELSE {{BenefitOf(r)}} :
        GoesOn(r, AfterFetch(body[r].op), [local[r] EXCEPT !.fetched = found])
  BY DEF Fetch
<1> DEFINE hand == [local[r] EXCEPT !.fetched = found]
           step == AfterFetch(body[r].op)
<1>4. local[r].app # None => local[r].app \in Request /\ rows[local[r].app] \in Row
  BY <1>1, <1>2, HandAndRequest DEF Local
<1>5. body[r].op \in {"confirm", "status"} => local[r].app # None
  BY <1>1 DEF HandlerInv, InHand
<1>6. found \subseteq Benefit
  <2>1. body[r].op # "search" => BenefitOf(r) \in Benefit
    BY <1>2, <1>4, <1>5, ServedFields DEF BenefitOf, Row, Endpoint
  <2>2. QED BY <1>3, <2>1
<1>7. hand \in Local /\ hand.app = local[r].app /\ hand.order = local[r].order
  BY <1>2, <1>6 DEF Local
<1>8. /\ step \in InFlight \ {"lookup", "files"}
      /\ \/ step = "find" /\ body[r].op \in {"init", "update"}
         \/ step = "transform" /\ body[r].op \notin {"init", "update"}
  BY DEF AfterFetch, InFlight
<1>9. body[r].op = "confirm" => \A q \in Request :
        Settled(q) /\ answer[q].app = local[r].app => local[r].order = answer[q].order
  BY <1>1 DEF HandlerInv, OrderStands, Settled
<1>10. rows[local[r].app] # None \/ local[r].app = None
  BY <1>4
<1> HIDE DEF hand, step
<1>11. GoesOn(r, step, hand)
  BY <1>3 DEF hand, step
<1>12. QED BY <1>1, <1>2, <1>5, <1>7, <1>8, <1>9, <1>10, <1>11, MoveInv

LEMMA FindInv ==
  ASSUME HandlerInv, NEW r \in Request, Find(r)
  PROVE  HandlerInv'
<1>1. pc[r] = "find" /\ pc[r] \in InFlight /\ UNCHANGED <<call, bap, data, mix>>
  BY DEF Find, InFlight
<1>2. r \notin wrote /\ local[r] \in Local /\ body[r].op \in {"init", "update"}
  BY <1>1, NotWrittenYet, HandAndRequest DEF HandlerInv, StepOfRequest
<1> DEFINE step == AfterFind(body[r])
<1>3. CASE \E a \in Request : FoundBy(r, a) /\ GoesOn(r, step, [local[r] EXCEPT !.app = a])
  <2>1. PICK a \in Request : FoundBy(r, a) /\ GoesOn(r, step, [local[r] EXCEPT !.app = a])
    BY <1>3
  <2> DEFINE hand == [local[r] EXCEPT !.app = a]
  <2>2. hand \in Local /\ hand.app = a
    BY <1>2 DEF Local
  <2>3. /\ rows[a] # None /\ a # None /\ rows[a].txn = body[r].txn
        /\ body[r].op = "init" => rows[a].benefit = body[r].benefit
    BY <2>1 DEF FoundBy, SameApplication
  <2>4. /\ step \in InFlight \ {"lookup", "files"}
        /\ \/ step = "transform" /\ body[r].op = "init"
           \/ step = "clear" /\ body[r].op = "update" /\ body[r].docs
           \/ step = "save" /\ body[r].op = "update"
    BY <1>2 DEF InFlight, AfterFind
  <2> HIDE DEF hand, step
  <2>5. GoesOn(r, step, hand)
    BY <2>1 DEF hand
  <2>6. QED BY <1>1, <1>2, <2>2, <2>3, <2>4, <2>5, MoveInv
<1>4. CASE body[r].op = "init" /\ (\A a \in Request : ~FoundBy(r, a)) /\ GoesOn(r, "insert", local[r])
  <2>1. local[r].app # None => rows[local[r].app] # None
    BY DEF HandlerInv, InHand
  <2>2. \A a \in Request : rows[a] # None /\ body[a] = body[r] => a \in moved
    BY <1>4 DEF HandlerInv, RowOfRequest, FoundBy, SameApplication
  <2>3. "insert" \in InFlight \ {"lookup", "files"}
    BY DEF InFlight
  <2>4. QED BY <1>1, <1>2, <1>4, <2>1, <2>2, <2>3, MoveInv
<1>5. CASE \E e \in {Http(400), Http(404)} : Throws(r, e)
  BY <1>1, <1>2, <1>5, ThrowInv
<1>6. QED BY <1>3, <1>4, <1>5 DEF Find

LEMMA BreaksInv ==
  ASSUME HandlerInv, NEW r \in Request, Breaks(r)
  PROVE  HandlerInv'
<1>1. pc[r] \in InFlight /\ pc[r] # "transform" /\ UNCHANGED <<call, bap, data, mix>>
  BY DEF Breaks
<1>2. pc[r] = "fetch" => r \notin wrote
  BY <1>1, NotWrittenYet
<1>3. CASE pc[r] = "fetch" /\ Throws(r, Axios(404))
  BY <1>1, <1>2, <1>3, ThrowInv
<1>4. CASE pc[r] = "fetch" /\ Throws(r, Axios(None))
  BY <1>1, <1>2, <1>4, ThrowInv
<1>5. CASE pc[r] = "files" /\ Throws(r, Http(400))
  BY <1>1, <1>5, ThrowInv
<1>6. CASE Throws(r, Other)
  BY <1>1, <1>6, ThrowInv
<1>7. QED BY <1>3, <1>4, <1>5, <1>6 DEF Breaks

\* The documents are stored; the application in hand is the one that was written.
LEMMA FilesInv ==
  ASSUME HandlerInv, NEW r \in Request, Files(r)
  PROVE  HandlerInv'
<1>1. pc[r] = "files" /\ pc[r] \in InFlight /\ UNCHANGED <<call, bap, data, mix>>
  BY DEF Files, InFlight
<1>2. local[r] \in Local /\ body[r].op \in {"init", "update"}
  BY <1>1, HandAndRequest DEF HandlerInv, StepOfRequest
<1>3. GoesOn(r, "transform", local[r]) /\ "transform" \in InFlight \ {"lookup", "files"}
  BY DEF Files, InFlight
<1>4. local[r].app # None => rows[local[r].app] # None
  BY DEF HandlerInv, InHand
<1>5. body[r].op = "init" => /\ local[r].app # None /\ rows[local[r].app].txn = body[r].txn
                             /\ rows[local[r].app].benefit = body[r].benefit
  BY <1>1 DEF HandlerInv, InHand
<1>6. QED BY <1>1, <1>2, <1>3, <1>4, <1>5, MoveInv

\* The answer made of what a handler has in hand.
LEMMA AnsweringIsAnswer ==
  ASSUME NEW r \in Request, local[r] \in Local,
         NEW context \in BAP \union {None}, NEW order \in Request \union {None},
         \A b \in local[r].fetched : Presentable(b, WithTags(r))
  PROVE  LET a == Answering(r, context, order) IN
         /\ a \in Answer /\ a # None
         /\ a.status = 200 /\ a.bap = context /\ a.app = local[r].app /\ a.order = order
<1> DEFINE items == {Item(b, WithTags(r)) : b \in local[r].fetched}
<1>1. WithTags(r) \in BOOLEAN
  BY DEF WithTags
<1>2. items \subseteq Shown
  BY <1>1 DEF Shown, Presented, Local
<1> HIDE DEF items
<1>3. Answering(r, context, order) =
        [status |-> 200, bap |-> context, app |-> local[r].app, order |-> order, items |-> items]
  BY DEF Answering, items
<1>4. QED BY <1>2, <1>3 DEF Answer, Local

\* A request other than confirm gets its answer.
LEMMA AnswerInv ==
  ASSUME HandlerInv, NEW r \in Request, pc[r] = "transform", body[r].op # "confirm",
         EndsWith(r, Answering(r, bap, local[r].order)),
         \A b \in local[r].fetched : Presentable(b, WithTags(r)),
         UNCHANGED <<call, bap, data, mix>>
  PROVE  HandlerInv'
<1> USE DEF call, data
<1> DEFINE a == Answering(r, bap, local[r].order)
<1>1. /\ a \in Answer /\ a # None
      /\ a.status = 200 /\ a.bap = bap /\ a.app = local[r].app
  BY HandAndRequest, AnsweringIsAnswer DEF HandlerInv, TypeOK, Local, InFlight
<1> HIDE DEF a
<1>2. /\ pc' \in [Request -> {"idle", "done"} \union InFlight]
      /\ answer' \in [Request -> Answer \union {None}]
      /\ local' \in [Request -> Local]
      /\ pc'[r] = "done" /\ answer'[r] = a /\ local'[r] = NothingYet
      /\ \A t \in Request \ {r} : pc'[t] = pc[t] /\ answer'[t] = answer[t] /\ local'[t] = local[t]
  BY <1>1, Ends DEF HandlerInv, a
<1>3. TypeOK'
  BY <1>2 DEF HandlerInv, TypeOK
<1>4. StepOfRequest'
  BY <1>1, <1>2 DEF HandlerInv, StepOfRequest, InFlight
<1>5. Together'
  BY <1>2 DEF HandlerInv, Together, InFlight
<1>6. \A t \in Request \ {r} : Answered(t)' <=> Answered(t)
  BY <1>2 DEF Answered
<1>7. BapOfFields'
  BY <1>2 DEF HandlerInv, BapOfFields, BapAround, InFlight
<1>8. ForeignBapOnlyByOverlap'
  BY <1>1, <1>2, <1>6 DEF HandlerInv, ForeignBapOnlyByOverlap, BapOfFields, BapAround, InFlight
<1>9. RowOfRequest' /\ RefusalLeavesNoTrace'
  BY <1>1, <1>2 DEF HandlerInv, RowOfRequest, RefusalLeavesNoTrace, TypeOK
<1>10. InHand'
  <2>1. local'[r].app = None
    BY <1>2 DEF NothingYet
  <2>2. QED BY <1>2, <2>1 DEF HandlerInv, InHand, Presentable, Missing, Entry
<1>11. AnsweredApplicationStays'
  <2>1. body[r].op = "init" => /\ local[r].app # None /\ rows[local[r].app] # None
                               /\ rows[local[r].app].txn = body[r].txn
                               /\ rows[local[r].app].benefit = body[r].benefit
    BY DEF HandlerInv, InHand
  <2>2. QED BY <1>1, <1>2, <1>6, <2>1 DEF HandlerInv, AnsweredApplicationStays
<1>12. Overlooked' /\ SecondRowOnlyByOverlapOrMove'
  BY <1>2 DEF HandlerInv, Overlooked, SecondRowOnlyByOverlapOrMove
<1>13. OrderStands'
  BY <1>2, <1>6 DEF HandlerInv, OrderStands
<1>14. QED
  BY <1>3, <1>4, <1>5, <1>7, <1>8, <1>9, <1>10, <1>11, <1>12, <1>13 DEF HandlerInv

LEMMA TransformInv ==
  ASSUME HandlerInv, NEW r \in Request, Transform(r)
  PROVE  HandlerInv'
<1>1. pc[r] = "transform" /\ pc[r] \in InFlight /\ UNCHANGED <<call, bap, data, mix>>
  BY DEF Transform, InFlight
<1>2. CASE Throws(r, Other)
  BY <1>1, <1>2, ThrowInv
<1>3. CASE /\ body[r].op = "confirm"
           /\ \A b \in local[r].fetched : Presentable(b, WithTags(r))
           /\ GoesOn(r, "confirm", [local[r] EXCEPT !.context = bap])
  <2> DEFINE hand == [local[r] EXCEPT !.context = bap]
  <2>1. local[r] \in Local /\ bap \in BAP \union {None} /\ r \notin wrote
    BY <1>1, <1>3, HandAndRequest, NotWrittenYet DEF HandlerInv, TypeOK
  <2>2. /\ hand \in Local /\ hand.context = bap
        /\ hand.app = local[r].app /\ hand.order = local[r].order /\ hand.fetched = local[r].fetched
    BY <2>1 DEF Local
  <2>3. local[r].app # None /\ rows[local[r].app] # None
    BY <1>1, <1>3 DEF HandlerInv, InHand
  <2>4. BapAround(r, bap)
    BY <1>1 DEF HandlerInv, BapOfFields
  <2>5. \A b \in local[r].fetched : Presentable(b, FALSE)
    <3>1. WithTags(r) = FALSE
      BY <1>3 DEF WithTags
    <3>2. QED BY <1>3, <3>1
  <2>6. \A q \in Request :
          Settled(q) /\ answer[q].app = local[r].app => local[r].order = answer[q].order
    BY <1>1, <1>3 DEF HandlerInv, OrderStands, Settled
  <2> HIDE DEF hand
  <2>7. GoesOn(r, "confirm", hand) /\ "confirm" \in InFlight \ {"lookup", "files"}
    BY <1>3 DEF hand, InFlight
  <2>8. BapAround(r, hand.context)
    BY <2>2, <2>4
  <2>9. QED BY <1>1, <1>3, <2>1, <2>2, <2>3, <2>5, <2>6, <2>7, <2>8, MoveInv
<1>4. CASE /\ body[r].op # "confirm"
           /\ \A b \in local[r].fetched : Presentable(b, WithTags(r))
           /\ EndsWith(r, Answering(r, bap, local[r].order))
  BY <1>1, <1>4, AnswerInv
<1>5. QED BY <1>2, <1>3, <1>4 DEF Transform

-----------------------------------------------------------------------------
(* Steps that write a row *)

LEMMA InsertInv ==
  ASSUME HandlerInv, NEW r \in Request, Insert(r)
  PROVE  HandlerInv'
<1> USE DEF call
<1> DEFINE row == [benefit |-> body[r].benefit, txn |-> body[r].txn, bap |-> body[r].bap,
                   bapApp |-> body[r].bapApp, order |-> None, status |-> "initiated"]
           hand == [local[r] EXCEPT !.app = r]
<1>1. /\ pc[r] = "insert" /\ pc[r] \in InFlight
      /\ wrote' = wrote \union {r}
      /\ UNCHANGED <<body, together, bap, moved, mix>>
  BY DEF Insert, InFlight
<1>2. body[r] \in Served /\ body[r].op = "init" /\ local[r] \in Local /\ answer[r] = None
  BY <1>1, HandAndRequest DEF HandlerInv, StepOfRequest
<1>3. r \notin wrote /\ rows[r] = None
  BY <1>1, NotWrittenYet DEF HandlerInv, RowOfRequest
<1>4. /\ row \in Row /\ row.txn = body[r].txn /\ row.benefit = body[r].benefit
      /\ <<row.bap, row.bapApp>> = <<body[r].bap, body[r].bapApp>>
  BY <1>2, ServedFields DEF Row
<1>5. hand \in Local /\ hand.app = r
  BY <1>2 DEF Local
<1>6. rows' = [rows EXCEPT ![r] = row] /\ GoesOn(r, "files", hand)
  BY DEF Insert
<1> HIDE DEF row, hand
<1>7. /\ rows' \in [Request -> Row \union {None}] /\ rows'[r] = row /\ row # None
      /\ \A a \in Request \ {r} : rows'[a] = rows[a]
  BY <1>4, <1>6 DEF HandlerInv, TypeOK
<1>8. /\ pc' \in [Request -> {"idle", "done"} \union InFlight]
      /\ local' \in [Request -> Local]
      /\ pc'[r] = "files" /\ local'[r] = hand
      /\ answer' = answer
      /\ \A t \in Request \ {r} : pc'[t] = pc[t] /\ local'[t] = local[t]
  BY <1>5, <1>6, Goes DEF HandlerInv, InFlight
<1>9. TypeOK'
  BY <1>1, <1>7, <1>8 DEF HandlerInv, TypeOK
<1>10. StepOfRequest'
  BY <1>1, <1>8 DEF HandlerInv, StepOfRequest, InFlight
<1>11. Together'
  BY <1>1, <1>8 DEF HandlerInv, Together, InFlight
<1>12. BapOfFields' /\ ForeignBapOnlyByOverlap'
  BY <1>1, <1>8 DEF HandlerInv, BapOfFields, ForeignBapOnlyByOverlap, BapAround, Answered
<1>13. RowOfRequest' /\ RefusalLeavesNoTrace'
  BY <1>1, <1>2, <1>4, <1>7, <1>8 DEF HandlerInv, RowOfRequest, RefusalLeavesNoTrace, TypeOK
<1>14. InHand'
  <2>1. \A t \in Request \ {r} : local[t].app # None => local[t].app \in Request \ {r}
    BY <1>3 DEF HandlerInv, InHand, TypeOK, Local
  <2>2. QED
    BY <1>1, <1>2, <1>4, <1>5, <1>7, <1>8, <2>1 DEF HandlerInv, InHand, Presentable, Missing, Entry
<1>15. AnsweredApplicationStays'
  <2>1. \A t \in Request : Answered(t) => answer[t].app \in Request \union {None}
    BY DEF HandlerInv, TypeOK, Answer, Answered
  <2>2. QED BY <1>1, <1>3, <1>7, <1>8, <2>1 DEF HandlerInv, AnsweredApplicationStays, Answered
<1>16. Overlooked'
  BY <1>1, <1>7, <1>8 DEF HandlerInv, Overlooked, Together, InFlight
<1>17. SecondRowOnlyByOverlapOrMove'
  <2>1. \A c \in Request \ {r} : rows[c] # None /\ body[c] = body[r] =>
          c \in moved \/ (c \in together[r] /\ r \in together[c])
    BY <1>1 DEF HandlerInv, Overlooked, Together
  <2>2. QED BY <1>1, <1>7, <2>1 DEF HandlerInv, SecondRowOnlyByOverlapOrMove
<1>18. OrderStands'
  <2>1. \A t \in Request : Answered(t) => answer[t].app \in Request \union {None}
    BY DEF HandlerInv, TypeOK, Answer, Answered
  <2>2. QED BY <1>1, <1>2, <1>3, <1>7, <1>8, <2>1 DEF HandlerInv, OrderStands, Answered
<1>19. QED
  BY <1>9, <1>10, <1>11, <1>12, <1>13, <1>14, <1>15, <1>16, <1>17, <1>18 DEF HandlerInv

\* The documents of the application in hand are deleted; no row changes.
LEMMA ClearInv ==
  ASSUME HandlerInv, NEW r \in Request, Clear(r)
  PROVE  HandlerInv'
<1> USE DEF call
<1>1. /\ pc[r] = "clear" /\ pc[r] \in InFlight
      /\ wrote' = wrote \union {r}
      /\ UNCHANGED <<body, together, bap, rows, moved, mix>>
      /\ GoesOn(r, "save", local[r])
  BY DEF Clear, InFlight
<1>2. /\ local[r] \in Local /\ answer[r] = None /\ body[r].op = "update" /\ local[r].app # None
      /\ rows[local[r].app].txn = body[r].txn
  BY <1>1, HandAndRequest DEF HandlerInv, StepOfRequest, InHand
<1>3. /\ pc' \in [Request -> {"idle", "done"} \union InFlight]
      /\ local' = local /\ answer' = answer /\ pc'[r] = "save"
      /\ \A t \in Request \ {r} : pc'[t] = pc[t]
  <2>1. /\ pc' \in [Request -> {"idle", "done"} \union InFlight] /\ local' \in [Request -> Local]
        /\ pc'[r] = "save" /\ local'[r] = local[r] /\ answer' = answer
        /\ \A t \in Request \ {r} : pc'[t] = pc[t] /\ local'[t] = local[t]
    BY <1>1, <1>2, Goes DEF HandlerInv, InFlight
  <2>2. local \in [Request -> Local]
    BY DEF HandlerInv, TypeOK
  <2>3. QED BY <2>1, <2>2
<1>4. TypeOK' /\ StepOfRequest'
  BY <1>1, <1>2, <1>3 DEF HandlerInv, TypeOK, StepOfRequest, InFlight
<1>5. Together' /\ BapOfFields' /\ ForeignBapOnlyByOverlap'
  BY <1>1, <1>3 DEF HandlerInv, Together, BapOfFields, ForeignBapOnlyByOverlap, BapAround,
       Answered, InFlight
<1>6. RowOfRequest' /\ RefusalLeavesNoTrace'
  BY <1>1, <1>2, <1>3 DEF HandlerInv, RowOfRequest, RefusalLeavesNoTrace, TypeOK
<1>7. InHand' /\ AnsweredApplicationStays'
  BY <1>1, <1>2, <1>3 DEF HandlerInv, InHand, Presentable, Missing, Entry, AnsweredApplicationStays, Answered
<1>8. Overlooked' /\ SecondRowOnlyByOverlapOrMove' /\ OrderStands'
  BY <1>1, <1>2, <1>3 DEF HandlerInv, Overlooked, SecondRowOnlyByOverlapOrMove, OrderStands, Answered
<1>9. QED BY <1>4, <1>5, <1>6, <1>7, <1>8 DEF HandlerInv

\* The row of application a is written over; what identifies it stays.
LEMMA SaveInv ==
  ASSUME HandlerInv, NEW r \in Request, Save(r)
  PROVE  HandlerInv'
<1> USE DEF call
<1> DEFINE a == local[r].app
           row == Updated(body[r], a)
           step == IF body[r].docs THEN "files" ELSE "transform"
<1>1. /\ pc[r] = "save" /\ pc[r] \in InFlight
      /\ wrote' = wrote \union {r}
      /\ rows' = [rows EXCEPT ![a] = row]
      /\ moved' = IF <<rows[a].bap, rows[a].bapApp>> # <<rows'[a].bap, rows'[a].bapApp>>
                   THEN moved \union {a} ELSE moved
      /\ UNCHANGED <<body, together, bap, mix>>
      /\ GoesOn(r, step, local[r])
  BY DEF Save, InFlight
<1>2. body[r] \in Served /\ body[r].op = "update" /\ local[r] \in Local /\ answer[r] = None
  BY <1>1, HandAndRequest DEF HandlerInv, StepOfRequest
<1>3. a \in Request /\ rows[a] \in Row /\ rows[a].txn = body[r].txn
  BY <1>1, <1>2, HandAndRequest DEF HandlerInv, InHand, Local
<1>4. /\ row \in Row /\ row.txn = rows[a].txn /\ row.benefit = rows[a].benefit
      /\ row.order = rows[a].order
  BY <1>2, <1>3, ServedFields DEF Row, Updated, KeptBapApp
<1>5. /\ step \in {"files", "transform"} /\ step \in InFlight
      /\ step = "files" => body[r].docs
  BY DEF InFlight
<1> HIDE DEF row, a, step
<1>6. /\ rows' \in [Request -> Row \union {None}] /\ rows'[a] = row /\ row # None /\ rows[a] # None
      /\ \A c \in Request \ {a} : rows'[c] = rows[c]
  BY <1>1, <1>3, <1>4 DEF HandlerInv, TypeOK
<1>7. \A c \in Request :
        /\ rows'[c] = None <=> rows[c] = None
        /\ rows[c] # None => /\ rows'[c].txn = rows[c].txn /\ rows'[c].benefit = rows[c].benefit
                             /\ rows'[c].order = rows[c].order
                             /\ \/ <<rows'[c].bap, rows'[c].bapApp>> = <<rows[c].bap, rows[c].bapApp>>
                                \/ c \in moved'
  BY <1>1, <1>4, <1>6
<1>8. moved \subseteq moved' /\ moved' \subseteq Request
  BY <1>1, <1>3 DEF HandlerInv, TypeOK
<1>9. /\ pc' \in [Request -> {"idle", "done"} \union InFlight]
      /\ local' \in [Request -> Local]
      /\ pc'[r] = step /\ local'[r] = local[r]
      /\ answer' = answer
      /\ \A t \in Request \ {r} : pc'[t] = pc[t] /\ local'[t] = local[t]
  BY <1>1, <1>2, <1>5, Goes DEF HandlerInv
<1>10. TypeOK'
  BY <1>1, <1>6, <1>8, <1>9 DEF HandlerInv, TypeOK
<1>11. StepOfRequest'
  BY <1>1, <1>2, <1>5, <1>9 DEF HandlerInv, StepOfRequest, InFlight
<1>12. Together'
  BY <1>1, <1>5, <1>9 DEF HandlerInv, Together, InFlight
<1>13. BapOfFields' /\ ForeignBapOnlyByOverlap'
  BY <1>1, <1>5, <1>9 DEF HandlerInv, BapOfFields, ForeignBapOnlyByOverlap, BapAround, Answered
<1>14. RowOfRequest' /\ RefusalLeavesNoTrace'
  BY <1>1, <1>5, <1>2, <1>7, <1>8, <1>9 DEF HandlerInv, RowOfRequest, RefusalLeavesNoTrace, TypeOK
<1>15. \A t \in Request : local[t].app \in Request \union {None}
                      /\ (Answered(t) => answer[t].app \in Request \union {None})
  BY DEF HandlerInv, TypeOK, Local, Answer, Answered
<1>16. InHand'
  BY <1>1, <1>2, <1>5, <1>7, <1>9, <1>15 DEF HandlerInv, InHand, Presentable, Missing, Entry
<1>17. AnsweredApplicationStays'
  BY <1>1, <1>7, <1>9, <1>15 DEF HandlerInv, AnsweredApplicationStays, Answered
<1>18. Overlooked' /\ SecondRowOnlyByOverlapOrMove'
  BY <1>1, <1>5, <1>7, <1>8, <1>9 DEF HandlerInv, Overlooked, SecondRowOnlyByOverlapOrMove
<1>19. OrderStands'
  BY <1>1, <1>5, <1>2, <1>7, <1>9, <1>15 DEF HandlerInv, OrderStands, Answered
<1>20. QED
  BY <1>10, <1>11, <1>12, <1>13, <1>14, <1>16, <1>17, <1>18, <1>19 DEF HandlerInv

\* confirm writes the order id and answers it.
LEMMA ConfirmInv ==
  ASSUME HandlerInv, NEW r \in Request, Confirm(r)
  PROVE  HandlerInv'
<1> USE DEF call
<1> DEFINE a == local[r].app
           row == [rows[a] EXCEPT !.order = ConfirmedOrder(r), !.status = "pending"]
           ans == Answering(r, local[r].context, ConfirmedOrder(r))
<1>1. /\ pc[r] = "confirm" /\ pc[r] \in InFlight
      /\ wrote' = wrote \union {r}
      /\ UNCHANGED <<body, together, bap, moved, mix>>
      /\ EndsWith(r, ans)
  BY DEF Confirm, InFlight
<1>2. body[r] \in Served /\ body[r].op = "confirm" /\ local[r] \in Local
  BY <1>1, HandAndRequest DEF HandlerInv, StepOfRequest
<1>3. a \in Request /\ rows[a] \in Row
  BY <1>1, <1>2, HandAndRequest DEF HandlerInv, InHand, Local
<1>4. /\ ConfirmedOrder(r) \in Request
      /\ local[r].order # None => ConfirmedOrder(r) = local[r].order
  BY <1>2 DEF ConfirmedOrder, Local
<1>5. /\ row \in Row /\ row.txn = rows[a].txn /\ row.benefit = rows[a].benefit
      /\ row.bap = rows[a].bap /\ row.bapApp = rows[a].bapApp /\ row.order = ConfirmedOrder(r)
  BY <1>3, <1>4 DEF Row
<1>6. rows' = [rows EXCEPT ![a] = row]
  BY <1>3 DEF Confirm, HandlerInv, TypeOK
<1>7. /\ ans \in Answer /\ ans # None
      /\ ans.status = 200 /\ ans.bap = local[r].context /\ ans.app = a /\ ans.order = ConfirmedOrder(r)
  <2>1. \A b \in local[r].fetched : Presentable(b, WithTags(r))
    <3>1. \A b \in local[r].fetched : Presentable(b, FALSE)
      BY <1>1 DEF HandlerInv, InHand
    <3>2. WithTags(r) = FALSE
      BY <1>2 DEF WithTags
    <3>3. QED BY <3>1, <3>2
  <2>2. local[r].context \in BAP \union {None}
    BY <1>2 DEF Local
  <2>3. QED BY <1>2, <1>4, <2>1, <2>2, AnsweringIsAnswer
<1> HIDE DEF row, a, ans
<1>8. /\ rows' \in [Request -> Row \union {None}] /\ rows'[a] = row /\ row # None /\ rows[a] # None
      /\ \A c \in Request \ {a} : rows'[c] = rows[c]
  BY <1>3, <1>5, <1>6 DEF HandlerInv, TypeOK
<1>9. \A c \in Request :
        /\ rows'[c] = None <=> rows[c] = None
        /\ rows[c] # None => /\ rows'[c].txn = rows[c].txn /\ rows'[c].benefit = rows[c].benefit
                             /\ <<rows'[c].bap, rows'[c].bapApp>> = <<rows[c].bap, rows[c].bapApp>>
  BY <1>5, <1>8
<1>10. /\ pc' \in [Request -> {"idle", "done"} \union InFlight]
       /\ answer' \in [Request -> Answer \union {None}]
       /\ local' \in [Request -> Local]
       /\ pc'[r] = "done" /\ answer'[r] = ans /\ local'[r] = NothingYet
       /\ \A t \in Request \ {r} : pc'[t] = pc[t] /\ answer'[t] = answer[t] /\ local'[t] = local[t]
  BY <1>1, <1>7, Ends DEF HandlerInv
<1>11. TypeOK'
  BY <1>1, <1>8, <1>10 DEF HandlerInv, TypeOK
<1>12. StepOfRequest'
  BY <1>1, <1>7, <1>10 DEF HandlerInv, StepOfRequest, InFlight
<1>13. Together'
  BY <1>1, <1>10 DEF HandlerInv, Together, InFlight
<1>14. \A t \in Request \ {r} : Answered(t)' <=> Answered(t)
  BY <1>10 DEF Answered
<1>15. BapOfFields'
  BY <1>1, <1>10 DEF HandlerInv, BapOfFields, BapAround, InFlight
<1>16. ForeignBapOnlyByOverlap'
  <2>1. BapAround(r, local[r].context)
    BY <1>1 DEF HandlerInv, BapOfFields
  <2>2. QED BY <1>1, <1>7, <1>10, <1>14, <2>1 DEF HandlerInv, ForeignBapOnlyByOverlap, BapAround
<1>17. RowOfRequest' /\ RefusalLeavesNoTrace'
  BY <1>1, <1>7, <1>9, <1>10 DEF HandlerInv, RowOfRequest, RefusalLeavesNoTrace, TypeOK
<1>18. \A t \in Request : local[t].app \in Request \union {None}
                      /\ (Answered(t) => answer[t].app \in Request \union {None})
  BY DEF HandlerInv, TypeOK, Local, Answer, Answered
<1>19. InHand'
  <2>1. local'[r].app = None
    BY <1>10 DEF NothingYet
  <2>2. QED BY <1>1, <1>9, <1>10, <1>18, <2>1 DEF HandlerInv, InHand, Presentable, Missing, Entry
<1>20. AnsweredApplicationStays'
  BY <1>1, <1>2, <1>9, <1>10, <1>14, <1>18 DEF HandlerInv, AnsweredApplicationStays
<1>21. Overlooked' /\ SecondRowOnlyByOverlapOrMove'
  BY <1>1, <1>9, <1>10 DEF HandlerInv, Overlooked, SecondRowOnlyByOverlapOrMove
<1>22. OrderStands'
  <2>1. SUFFICES ASSUME NEW q \in Request, Settled(q)'
                 PROVE  /\ answer'[q].app # None /\ rows'[answer'[q].app] # None
                        /\ answer'[q].order # None
                        /\ rows'[answer'[q].app].order = answer'[q].order
                        /\ \A t \in Request :
                             /\ pc'[t] \in {"fetch", "transform", "confirm"}
                             /\ body'[t].op = "confirm" /\ local'[t].app = answer'[q].app
                             => local'[t].order = answer'[q].order
    BY DEF OrderStands, Settled
  <2>2. CASE q = r
    <3>1. \A t \in Request \ {r} : pc[t] \in InFlight => body[t].op # "confirm"
      BY <1>1, <2>1, <2>2 DEF HandlerInv, Together, Settled
    <3>2. \A t \in Request :
            ~(pc'[t] \in {"fetch", "transform", "confirm"} /\ body'[t].op = "confirm")
      BY <1>1, <1>10, <3>1 DEF InFlight
    <3>3. QED BY <1>3, <1>4, <1>5, <1>7, <1>8, <1>10, <2>2, <3>2
  <2>3. CASE q # r
    <3>1. Settled(q) /\ answer'[q] = answer[q]
      BY <1>1, <1>10, <1>14, <2>1, <2>3 DEF Settled
    <3>2. /\ answer[q].app # None /\ answer[q].app \in Request /\ rows[answer[q].app] # None
          /\ answer[q].order # None /\ rows[answer[q].app].order = answer[q].order
          /\ \A t \in Request :
               /\ pc[t] \in {"fetch", "transform", "confirm"}
               /\ body[t].op = "confirm" /\ local[t].app = answer[q].app
               => local[t].order = answer[q].order
      BY <1>18, <3>1 DEF HandlerInv, OrderStands, Settled
    <3>3. rows'[answer[q].app].order = answer[q].order
      BY <1>1, <1>2, <1>4, <1>5, <1>8, <3>2 DEF a
    <3>4. QED BY <1>1, <1>9, <1>10, <3>1, <3>2, <3>3
  <2>4. QED BY <2>2, <2>3
<1>23. QED
  BY <1>11, <1>12, <1>13, <1>15, <1>16, <1>17, <1>19, <1>20, <1>21, <1>22 DEF HandlerInv

-----------------------------------------------------------------------------
(* The theorems *)

LEMMA CatalogueNextInv == HandlerInv /\ [Next]_vars => HandlerInv'
<1> SUFFICES ASSUME HandlerInv, [Next]_vars PROVE HandlerInv'
  OBVIOUS
<1>1. ASSUME NEW r \in Request, Receive(r) PROVE HandlerInv'
  BY <1>1, ReceiveInv
<1>2. ASSUME NEW r \in Request, Step(r) PROVE HandlerInv'
  BY <1>2, LookupInv, FetchInv, FindInv, InsertInv, ClearInv, SaveInv, FilesInv, TransformInv,
     ConfirmInv, BreaksInv
  DEF Step
<1>3. CASE UNCHANGED vars
  <2> USE <1>3 DEF vars
  <2>1. TypeOK' /\ StepOfRequest' /\ Together'
    BY DEF HandlerInv, TypeOK, StepOfRequest, Together
  <2>2. BapOfFields' /\ ForeignBapOnlyByOverlap' /\ RowOfRequest' /\ RefusalLeavesNoTrace'
    BY DEF HandlerInv, BapOfFields, ForeignBapOnlyByOverlap, BapAround, Answered,
           RowOfRequest, RefusalLeavesNoTrace
  <2>3. InHand' /\ AnsweredApplicationStays'
    BY DEF HandlerInv, InHand, Presentable, Missing, Entry, AnsweredApplicationStays, Answered
  <2>4. Overlooked' /\ SecondRowOnlyByOverlapOrMove' /\ OrderStands'
    BY DEF HandlerInv, Overlooked, SecondRowOnlyByOverlapOrMove, OrderStands, Answered
  <2>5. QED BY <2>1, <2>2, <2>3, <2>4 DEF HandlerInv
<1>4. QED BY <1>1, <1>2, <1>3 DEF Next

-----------------------------------------------------------------------------
(* Lists.  A claim that fails for some number fails for a least one. *)

LEMMA Least ==
  ASSUME NEW S \in SUBSET Nat, S # {}
  PROVE  \E n \in S : \A m \in S : ~(m < n)
<1>1. PICK n \in S : \A m \in S : <<m, n>> \notin OpToRel(<, Nat)
  BY NatLessThanWellFounded, WFMin, Zenon
<1>2. \A m \in S : ~(m < n)
  BY <1>1 DEF OpToRel
<1>3. QED BY <1>2

\* A function of 1..n is a list of length n, and a list is such a function.
LEMMA ListOfLength ==
  ASSUME NEW n \in Nat, NEW s, s = [k \in 1..n |-> s[k]]
  PROVE  IsList(s) /\ Len(s) = n /\ DOMAIN s = 1..n
<1>1. PICK T : T = {s[k] : k \in 1..n}
  OBVIOUS
<1>2. s \in [1..n -> T]
  BY <1>1
<1>3. s \in Seq(T) /\ Len(s) = n /\ DOMAIN s = 1..n
  BY <1>2
<1>4. QED BY <1>3 DEF IsList

LEMMA ListParts ==
  ASSUME NEW s, IsList(s)
  PROVE  Len(s) \in Nat /\ DOMAIN s = 1..Len(s) /\ s \in Seq({s[k] : k \in 1..Len(s)})
<1>1. Len(s) \in Nat /\ s = [k \in 1..Len(s) |-> s[k]]
  BY DEF IsList
<1>2. PICK n \in Nat : n = Len(s)
  BY <1>1
<1>3. s = [k \in 1..n |-> s[k]]
  BY <1>1, <1>2
<1>4. PICK T : T = {s[k] : k \in 1..n}
  OBVIOUS
<1>5. s \in [1..n -> T]
  BY <1>3, <1>4
<1>6. DOMAIN s = 1..n /\ s \in Seq(T)
  BY <1>5
<1>7. QED BY <1>2, <1>4, <1>6

\* List s is a, then b.
Joins(s, a, b) ==
  /\ IsList(s) /\ Len(s) = Len(a) + Len(b)
  /\ \A k \in 1..Len(a) : s[k] = a[k]
  /\ \A k \in 1..Len(b) : s[Len(a) + k] = b[k]

LEMMA Joined ==
  ASSUME NEW a, IsList(a), NEW b, IsList(b)
  PROVE  Joins(a \o b, a, b)
<1>1. PICK U : U = {a[k] : k \in 1..Len(a)} \union {b[k] : k \in 1..Len(b)}
  OBVIOUS
<1>2. Len(a) \in Nat /\ Len(b) \in Nat /\ DOMAIN a = 1..Len(a) /\ DOMAIN b = 1..Len(b)
  BY ListParts
<1>3. a = [k \in 1..Len(a) |-> a[k]] /\ b = [k \in 1..Len(b) |-> b[k]]
  BY DEF IsList
<1>4. a \in [1..Len(a) -> U] /\ b \in [1..Len(b) -> U]
  BY <1>1, <1>3
<1>5. a \in Seq(U)
  BY <1>2, <1>4
<1>6. b \in Seq(U)
  BY <1>2, <1>4
<1>7. a \o b \in Seq(U) /\ Len(a \o b) = Len(a) + Len(b)
  BY <1>5, <1>6
<1>8. PICK n \in Nat : n = Len(a) + Len(b)
  BY <1>2
<1>9. IsList(a \o b)
  <2>1. PICK c : c = a \o b
    OBVIOUS
  <2>2. c \in Seq(U) /\ Len(c) = n
    BY <1>7, <1>8, <2>1
  <2>3. c = [k \in 1..n |-> c[k]]
    <3>1. c \in [1..n -> U]
      BY <2>2
    <3>2. QED BY <3>1
  <2>4. QED BY <2>1, <2>3, ListOfLength
<1>10. QED BY <1>5, <1>6, <1>7, <1>9 DEF Joins

\* The pairs of a number up to m and one of the w[i] things it stands for.
Pairs(w, m) == UNION {{i} \X (1..w[i]) : i \in 1..m}

\* One more number brings its things along.
LEMMA PairsGrow ==
  ASSUME NEW w, NEW m \in Nat \ {0}, w[m] \in Nat, IsFiniteSet(Pairs(w, m - 1))
  PROVE  /\ IsFiniteSet(Pairs(w, m))
         /\ Cardinality(Pairs(w, m)) = Cardinality(Pairs(w, m - 1)) + w[m]
<1> DEFINE old == Pairs(w, m - 1)
           new == {m} \X (1..w[m])
           f == [u \in 1..w[m] |-> <<m, u>>]
<1>1. Pairs(w, m) = old \union new
  <2>1. 1..m = (1..(m - 1)) \union {m}
    OBVIOUS
  <2>2. QED BY <2>1 DEF Pairs
<1>2. old \cap new = {}
  <2>1. \A p \in old : p[1] \in 1..(m - 1)
    BY DEF Pairs
  <2>2. \A p \in new : p[1] = m
    OBVIOUS
  <2>3. QED BY <2>1, <2>2
<1>3. f \in Bijection(1..w[m], new)
  <2>1. f \in [1..w[m] -> new]
    OBVIOUS
  <2>2. \A u, v \in 1..w[m] : f[u] = f[v] => u = v
    OBVIOUS
  <2>3. \A p \in new : \E u \in 1..w[m] : f[u] = p
    OBVIOUS
  <2> HIDE DEF f, new
  <2>4. QED BY <2>1, <2>2, <2>3 DEF Bijection, Injection, Surjection, IsInjective
<1>4. IsFiniteSet(1..w[m]) /\ Cardinality(1..w[m]) = w[m]
  <2>1. 1 \in Int /\ w[m] \in Int
    OBVIOUS
  <2>2. /\ IsFiniteSet(1..w[m])
        /\ Cardinality(1..w[m]) = IF 1 > w[m] THEN 0 ELSE w[m] - 1 + 1
    BY <2>1, FS_Interval
  <2>3. QED BY <2>2
<1>5. IsFiniteSet(new) /\ Cardinality(new) = w[m]
  <2> HIDE DEF f, new
  <2>1. ExistsBijection(1..w[m], new)
    BY <1>3 DEF ExistsBijection
  <2>2. QED BY <2>1, <1>4, FS_Bijection
<1> HIDE DEF old, new
<1>6. IsFiniteSet(old)
  BY DEF old
<1>7. /\ IsFiniteSet(old \union new)
      /\ Cardinality(old \union new) =
           Cardinality(old) + Cardinality(new) - Cardinality(old \cap new)
  BY <1>5, <1>6, FS_Union
<1>8. Cardinality(old \cap new) = 0 /\ Cardinality(old) \in Nat
  BY <1>2, <1>6, FS_EmptySet, FS_CardinalityType
<1>9. Cardinality(old \union new) = Cardinality(old) + w[m]
  BY <1>5, <1>7, <1>8
<1>10. QED BY <1>1, <1>7, <1>9 DEF old

LEMMA NoPairs ==
  ASSUME NEW w
  PROVE  IsFiniteSet(Pairs(w, 0)) /\ Cardinality(Pairs(w, 0)) = 0
<1>1. Pairs(w, 0) = {}
  BY DEF Pairs
<1>2. QED BY <1>1, FS_EmptySet

-----------------------------------------------------------------------------
(* What FlattenSeq returns, and the running total of amounts. *)

\* The recursion in FlattenSeq.
IsFlatten(f, s, n) == f = [i \in 1..n |-> IF i = 1 THEN s[i] ELSE f[i - 1] \o s[i]]

LEMMA FlattenAt ==
  ASSUME NEW f, NEW s, NEW n, IsFlatten(f, s, n), NEW i \in 1..n
  PROVE  f[i] = IF i = 1 THEN s[i] ELSE f[i - 1] \o s[i]
BY Zenon DEF IsFlatten

LEMMA FlattenExists ==
  ASSUME NEW s, NEW n \in Nat
  PROVE  \E f : IsFlatten(f, s, n)
<1> DEFINE Bad == {m \in Nat : ~ \E f : IsFlatten(f, s, m)}
<1>1. SUFFICES Bad = {}
  OBVIOUS
<1>2. SUFFICES ASSUME Bad # {} PROVE FALSE
  OBVIOUS
<1>3. PICK m \in Bad : \A k \in Bad : ~(k < m)
  <2>1. Bad \in SUBSET Nat
    OBVIOUS
  <2> HIDE DEF Bad
  <2>2. QED BY <1>2, <2>1, Least
<1>4. m \in Nat /\ ~ \E f : IsFlatten(f, s, m)
  BY <1>3
<1>5. m # 0
  <2>1. SUFFICES ASSUME m = 0 PROVE \E f : IsFlatten(f, s, m)
    BY <1>4
  <2>2. 1..m = {}
    BY <2>1
  <2>3. PICK f : f = [i \in 1..m |-> s[i]]
    OBVIOUS
  <2>4. IsFlatten(f, s, m)
    BY <2>2, <2>3 DEF IsFlatten
  <2>5. QED BY <2>4
<1>6. m - 1 \in Nat /\ m - 1 < m
  BY <1>4, <1>5
<1>7. PICK g : IsFlatten(g, s, m - 1)
  BY <1>3, <1>6
<1>8. PICK f : f = [i \in 1..m |-> IF i = 1 THEN s[i]
                                    ELSE IF i = m THEN g[m - 1] \o s[i] ELSE g[i]]
  OBVIOUS
<1>9. ASSUME NEW i \in 1..m PROVE f[i] = IF i = 1 THEN s[i] ELSE f[i - 1] \o s[i]
  <2>1. CASE i = 1
    BY <1>8, <2>1
  <2>2. \A k \in 1..(m - 1) : f[k] = g[k]
    <3>1. SUFFICES ASSUME NEW k \in 1..(m - 1) PROVE f[k] = g[k]
      OBVIOUS
    <3>2. k \in 1..m /\ k # m
      BY <1>4
    <3>3. k = 1 => g[k] = s[k]
      BY <1>7, FlattenAt
    <3>4. QED BY <1>8, <3>2, <3>3
  <2>3. CASE i # 1
    <3>1. i - 1 \in 1..(m - 1)
      BY <1>4, <2>3
    <3>2. f[i - 1] = g[i - 1]
      BY <2>2, <3>1
    <3>3. CASE i = m
      <4>1. f[i] = g[m - 1] \o s[i]
        BY <1>8, <2>3, <3>3
      <4>2. f[i - 1] = g[m - 1]
        BY <3>2, <3>3
      <4>3. QED BY <2>3, <4>1, <4>2
    <3>4. CASE i # m
      <4>1. i \in 1..(m - 1)
        BY <1>4, <3>4
      <4>2. g[i] = g[i - 1] \o s[i]
        <5>1. g[i] = IF i = 1 THEN s[i] ELSE g[i - 1] \o s[i]
          BY <1>7, <4>1, FlattenAt
        <5>2. QED BY <2>3, <5>1
      <4>3. f[i] = g[i]
        BY <2>2, <4>1
      <4>4. QED BY <2>3, <3>2, <4>2, <4>3
    <3>5. QED BY <3>3, <3>4
  <2>4. QED BY <2>1, <2>3
<1>10. IsFlatten(f, s, m)
  <2>1. f = [i \in 1..m |-> f[i]]
    BY <1>8
  <2>2. QED BY <1>9, <2>1 DEF IsFlatten
<1>11. QED BY <1>4, <1>10

\* A list of lists.
IsLists(s) == IsList(s) /\ \A i \in 1..Len(s) : IsList(s[i])

\* List t has the elements of the first n lists of s, and as many as they have together.
FlatOf(t, s, n) ==
  /\ IsList(t)
  /\ IsFiniteSet(Pairs([i \in 1..Len(s) |-> Len(s[i])], n))
  /\ Len(t) = Cardinality(Pairs([i \in 1..Len(s) |-> Len(s[i])], n))
  /\ \A i \in 1..n : \A j \in 1..Len(s[i]) : \E k \in 1..Len(t) : t[k] = s[i][j]
  /\ \A k \in 1..Len(t) : \E i \in 1..n : \E j \in 1..Len(s[i]) : t[k] = s[i][j]

\* One more list.
LEMMA FlatStep ==
  ASSUME NEW s, IsLists(s), NEW m \in 1..Len(s), NEW t, FlatOf(t, s, m - 1)
  PROVE  FlatOf(t \o s[m], s, m)
<1> DEFINE w == [i \in 1..Len(s) |-> Len(s[i])]
<1>1. Len(s) \in Nat /\ m \in Nat \ {0} /\ IsList(s[m]) /\ IsList(t)
  BY DEF IsLists, IsList, FlatOf
<1>2. w[m] = Len(s[m]) /\ w[m] \in Nat
  BY <1>1 DEF IsList
<1>3. PICK u : u = t \o s[m]
  OBVIOUS
<1>4. Joins(u, t, s[m])
  BY <1>1, <1>3, Joined
<1>5. /\ IsFiniteSet(Pairs(w, m - 1)) /\ Len(t) = Cardinality(Pairs(w, m - 1))
  BY DEF FlatOf
<1> HIDE DEF w
<1>6. /\ IsFiniteSet(Pairs(w, m))
      /\ Cardinality(Pairs(w, m)) = Cardinality(Pairs(w, m - 1)) + w[m]
  BY <1>1, <1>2, <1>5, PairsGrow
<1>7. Len(u) = Len(t) + Len(s[m]) /\ Len(u) = Cardinality(Pairs(w, m))
  BY <1>2, <1>4, <1>5, <1>6 DEF Joins
<1>8. Len(t) \in Nat /\ Len(s[m]) \in Nat
  BY <1>1 DEF IsList
<1>9. ASSUME NEW i \in 1..m, NEW j \in 1..Len(s[i])
      PROVE  \E k \in 1..Len(u) : u[k] = s[i][j]
  <2>1. CASE i = m
    <3>1. u[Len(t) + j] = s[i][j]
      BY <1>4, <2>1 DEF Joins
    <3>2. Len(t) + j \in 1..Len(u)
      BY <1>7, <1>8, <2>1
    <3>3. QED BY <3>1, <3>2
  <2>2. CASE i # m
    <3>1. i \in 1..(m - 1)
      BY <2>2
    <3>2. PICK k \in 1..Len(t) : t[k] = s[i][j]
      BY <3>1 DEF FlatOf
    <3>3. k \in 1..Len(u) /\ u[k] = t[k]
      BY <1>4, <1>7, <1>8 DEF Joins
    <3>4. QED BY <3>2, <3>3
  <2>3. QED BY <2>1, <2>2
<1>10. ASSUME NEW k \in 1..Len(u)
       PROVE  \E i \in 1..m : \E j \in 1..Len(s[i]) : u[k] = s[i][j]
  <2>1. CASE k \in 1..Len(t)
    <3>1. u[k] = t[k]
      BY <1>4, <2>1 DEF Joins
    <3>2. PICK i \in 1..(m - 1) : \E j \in 1..Len(s[i]) : t[k] = s[i][j]
      BY <2>1 DEF FlatOf
    <3>3. i \in 1..m
      OBVIOUS
    <3>4. QED BY <3>1, <3>2, <3>3
  <2>2. CASE k \notin 1..Len(t)
    <3>1. PICK j \in 1..Len(s[m]) : k = Len(t) + j
      <4>1. k - Len(t) \in 1..Len(s[m]) /\ k = Len(t) + (k - Len(t))
        BY <1>7, <1>8, <2>2
      <4>2. QED BY <4>1
    <3>2. u[k] = s[m][j] /\ m \in 1..m
      BY <1>4, <3>1 DEF Joins
    <3>3. QED BY <3>2
  <2>3. QED BY <2>1, <2>2
<1>11. IsList(u)
  BY <1>4 DEF Joins
<1>12. FlatOf(u, s, m)
  BY <1>6, <1>7, <1>9, <1>10, <1>11 DEF FlatOf, w
<1>13. QED BY <1>3, <1>12

LEMMA NoLists ==
  ASSUME NEW s
  PROVE  FlatOf(<<>>, s, 0)
<1>1. <<>> = [k \in 1..0 |-> <<>>[k]] /\ Len(<<>>) = 0
  OBVIOUS
<1>2. IsList(<<>>)
  BY <1>1 DEF IsList
<1>3. QED BY <1>1, <1>2, NoPairs DEF FlatOf

LEMMA FlattenParts ==
  ASSUME NEW s, IsLists(s), NEW f, IsFlatten(f, s, Len(s)), NEW m \in 1..Len(s)
  PROVE  FlatOf(f[m], s, m)
<1>1. PICK n \in Nat : n = Len(s)
  BY DEF IsLists, IsList
<1> DEFINE Bad == {k \in 1..n : ~FlatOf(f[k], s, k)}
<1>2. SUFFICES ASSUME Bad # {} PROVE FALSE
  BY <1>1
<1>3. PICK k \in Bad : \A j \in Bad : ~(j < k)
  <2>1. Bad \in SUBSET Nat
    OBVIOUS
  <2> HIDE DEF Bad
  <2>2. QED BY <1>2, <2>1, Least
<1>4. k \in 1..n /\ ~FlatOf(f[k], s, k)
  BY <1>3
<1>5. IsList(s[k]) /\ f[k] = IF k = 1 THEN s[k] ELSE f[k - 1] \o s[k]
  BY <1>1, <1>4, FlattenAt DEF IsLists
<1>6. CASE k = 1
  <2>1. FlatOf(<<>>, s, k - 1)
    BY <1>6, NoLists
  <2>2. PICK t : t = <<>>
    OBVIOUS
  <2>3. FlatOf(t \o s[k], s, k)
    BY <1>1, <1>4, <2>1, <2>2, FlatStep
  <2>4. t \o s[k] = s[k]
    <3>1. s[k] \in Seq({s[k][j] : j \in 1..Len(s[k])})
      BY <1>5, ListParts
    <3>2. QED BY <2>2, <3>1
  <2>5. QED BY <1>4, <1>5, <1>6, <2>3, <2>4
<1>7. CASE k # 1
  <2>1. k - 1 \in 1..n /\ k - 1 < k
    BY <1>4, <1>7
  <2>2. FlatOf(f[k - 1], s, k - 1)
    BY <1>3, <2>1
  <2>3. FlatOf(f[k - 1] \o s[k], s, k)
    BY <1>1, <1>4, <2>2, FlatStep
  <2>4. QED BY <1>4, <1>5, <1>7, <2>3
<1>8. QED BY <1>6, <1>7

\* FlattenSeq of a list of lists has all of their elements.
LEMMA Flattened ==
  ASSUME NEW s, IsLists(s)
  PROVE  FlatOf(FlattenSeq(s), s, Len(s))
<1>1. PICK n \in Nat : n = Len(s)
  BY DEF IsLists, IsList
<1>2. CASE n = 0
  <2>1. FlattenSeq(s) = s
    BY <1>1, <1>2 DEF FlattenSeq
  <2>2. s = <<>>
    <3>1. s \in Seq({s[k] : k \in 1..Len(s)})
      BY ListParts DEF IsLists
    <3>2. QED BY <1>1, <1>2, <3>1
  <2>3. QED BY <1>1, <1>2, <2>1, <2>2, NoLists
<1>3. CASE n # 0
  <2>1. PICK f : IsFlatten(f, s, n)
    BY FlattenExists
  <2> DEFINE g == CHOOSE g : g = [i \in 1..n |-> IF i = 1 THEN s[i] ELSE g[i - 1] \o s[i]]
  <2>2. g = [i \in 1..n |-> IF i = 1 THEN s[i] ELSE g[i - 1] \o s[i]]
    BY <2>1, Zenon DEF IsFlatten
  <2>3. FlattenSeq(s) = g[n]
    BY <1>1, <1>3, Zenon DEF FlattenSeq
  <2> HIDE DEF g
  <2>4. IsFlatten(g, s, n)
    BY <2>2 DEF IsFlatten
  <2>5. n \in 1..n
    BY <1>3
  <2>6. FlatOf(g[n], s, n)
    BY <1>1, <2>4, <2>5, FlattenParts
  <2>7. QED BY <1>1, <2>3, <2>6
<1>4. QED BY <1>2, <1>3

\* The recursion in TotalValue.
IsTotal(t, a, n) == t = [k \in 0..n |-> IF k = 0 THEN 0 ELSE t[k - 1] + a[k]]

LEMMA TotalAt ==
  ASSUME NEW t, NEW a, NEW n, IsTotal(t, a, n), NEW k \in 0..n
  PROVE  t[k] = IF k = 0 THEN 0 ELSE t[k - 1] + a[k]
BY Zenon DEF IsTotal

LEMMA TotalExists ==
  ASSUME NEW a, NEW n \in Nat
  PROVE  \E t : IsTotal(t, a, n)
<1> DEFINE Bad == {m \in Nat : ~ \E t : IsTotal(t, a, m)}
<1>1. SUFFICES ASSUME Bad # {} PROVE FALSE
  OBVIOUS
<1>2. PICK m \in Bad : \A k \in Bad : ~(k < m)
  <2>1. Bad \in SUBSET Nat
    OBVIOUS
  <2> HIDE DEF Bad
  <2>2. QED BY <1>1, <2>1, Least
<1>3. m \in Nat /\ ~ \E t : IsTotal(t, a, m)
  BY <1>2
<1>4. m # 0
  <2>1. SUFFICES ASSUME m = 0 PROVE \E t : IsTotal(t, a, m)
    BY <1>3
  <2>2. PICK t : t = [k \in 0..0 |-> 0]
    OBVIOUS
  <2>3. \A k \in 0..0 : k = 0
    OBVIOUS
  <2>4. t = [k \in 0..m |-> IF k = 0 THEN 0 ELSE t[k - 1] + a[k]]
    BY <2>1, <2>2, <2>3
  <2>5. QED BY <2>4 DEF IsTotal
<1>5. m - 1 \in Nat /\ m - 1 < m
  BY <1>3, <1>4
<1>6. PICK u : IsTotal(u, a, m - 1)
  BY <1>2, <1>5
<1>7. PICK t : t = [k \in 0..m |-> IF k = m THEN u[m - 1] + a[m] ELSE u[k]]
  OBVIOUS
<1>8. \A k \in 0..(m - 1) : t[k] = u[k]
  BY <1>3, <1>7
<1>9. ASSUME NEW k \in 0..m PROVE t[k] = IF k = 0 THEN 0 ELSE t[k - 1] + a[k]
  <2>1. CASE k = m
    <3>1. m - 1 \in 0..(m - 1) /\ k # 0
      BY <1>4, <1>5, <2>1
    <3>2. t[m - 1] = u[m - 1]
      BY <1>8, <3>1
    <3>3. t[k] = u[m - 1] + a[m]
      BY <1>7, <2>1
    <3>4. QED BY <2>1, <3>1, <3>2, <3>3
  <2>2. CASE k # m
    <3>1. k \in 0..(m - 1)
      BY <1>3, <2>2
    <3>2. t[k] = u[k] /\ u[k] = IF k = 0 THEN 0 ELSE u[k - 1] + a[k]
      BY <1>6, <1>8, <3>1, TotalAt
    <3>3. k # 0 => t[k - 1] = u[k - 1]
      <4>1. k # 0 => k - 1 \in 0..(m - 1)
        BY <3>1
      <4>2. QED BY <1>8, <4>1
    <3>4. QED BY <3>2, <3>3
  <2>3. QED BY <2>1, <2>2
<1>10. IsTotal(t, a, m)
  <2>1. t = [k \in 0..m |-> t[k]]
    BY <1>7
  <2>2. QED BY <1>9, <2>1 DEF IsTotal
<1>11. QED BY <1>3, <1>10

\* The total of the first m amounts counts each of their units.
Counts(t, a, m) == IsFiniteSet(Pairs(a, m)) /\ t[m] = Cardinality(Pairs(a, m))

LEMMA TotalCounts ==
  ASSUME NEW n \in Nat, NEW a, \A k \in 1..n : a[k] \in Nat, NEW t, IsTotal(t, a, n),
         NEW m \in 0..n
  PROVE  Counts(t, a, m)
<1> DEFINE Bad == {k \in 0..n : ~Counts(t, a, k)}
<1>1. SUFFICES ASSUME Bad # {} PROVE FALSE
  OBVIOUS
<1>2. PICK k \in Bad : \A j \in Bad : ~(j < k)
  <2>1. Bad \in SUBSET Nat
    OBVIOUS
  <2> HIDE DEF Bad
  <2>2. QED BY <1>1, <2>1, Least
<1>3. k \in 0..n /\ ~Counts(t, a, k)
  BY <1>2
<1>4. t[k] = IF k = 0 THEN 0 ELSE t[k - 1] + a[k]
  BY <1>3, TotalAt
<1>5. CASE k = 0
  BY <1>3, <1>4, <1>5, NoPairs DEF Counts
<1>6. CASE k # 0
  <2>1. k - 1 \in 0..n /\ k - 1 < k /\ k \in Nat \ {0} /\ a[k] \in Nat
    BY <1>3, <1>6
  <2>2. Counts(t, a, k - 1)
    BY <1>2, <2>1
  <2>3. /\ IsFiniteSet(Pairs(a, k))
        /\ Cardinality(Pairs(a, k)) = Cardinality(Pairs(a, k - 1)) + a[k]
    BY <2>1, <2>2, PairsGrow DEF Counts
  <2>4. QED BY <1>3, <1>4, <1>6, <2>2, <2>3 DEF Counts
<1>7. QED BY <1>5, <1>6

\* The price of descriptions that name these amounts.
LEMMA TotalOfAmounts ==
  ASSUME NEW texts, IsList(texts), \A k \in DOMAIN texts : texts[k] \in Seq(Nat)
  PROVE  TotalValue(texts) = Cardinality(Rupees(FlattenSeq(texts)))
<1>1. PICK a : a = FlattenSeq(texts)
  OBVIOUS
<1>2. DOMAIN texts = 1..Len(texts)
  BY ListParts
<1>3. \A i \in 1..Len(texts) : IsList(texts[i]) /\ \A j \in 1..Len(texts[i]) : texts[i][j] \in Nat
  BY <1>2 DEF IsList
<1>4. FlatOf(a, texts, Len(texts))
  BY <1>1, <1>3, Flattened DEF IsLists
<1>5. PICK n \in Nat : n = Len(a)
  BY <1>4 DEF FlatOf, IsList
<1>6. ASSUME NEW k \in 1..n PROVE a[k] \in Nat
  <2>1. PICK i \in 1..Len(texts) : \E j \in 1..Len(texts[i]) : a[k] = texts[i][j]
    BY <1>4, <1>5 DEF FlatOf
  <2>2. QED BY <1>3, <2>1
<1>7. PICK t : IsTotal(t, a, n)
  BY TotalExists
<1> DEFINE u == CHOOSE u : u = [k \in 0..n |-> IF k = 0 THEN 0 ELSE u[k - 1] + a[k]]
<1>8. u = [k \in 0..n |-> IF k = 0 THEN 0 ELSE u[k - 1] + a[k]]
  BY <1>7, Zenon DEF IsTotal
<1>9. TotalValue(texts) = u[n]
  BY <1>1, <1>5, Zenon DEF TotalValue
<1> HIDE DEF u
<1>10. IsTotal(u, a, n) /\ n \in 0..n
  BY <1>8 DEF IsTotal
<1>11. Counts(u, a, n)
  BY <1>6, <1>10, TotalCounts
<1>12. Rupees(a) = Pairs(a, n)
  BY <1>5 DEF Rupees, Pairs
<1>13. QED BY <1>1, <1>9, <1>11, <1>12 DEF Counts

-----------------------------------------------------------------------------
(* The fields of a form. *)

LEMMA FieldsOfForm ==
  ASSUME NEW form, IsList(form), \A g \in DOMAIN form : form[g] # NoText => IsList(form[g])
  PROVE  /\ IsList(FormFields(form))
         /\ Len(FormFields(form)) = Cardinality(Places(form))
         /\ \A at \in Places(form) : \E k \in DOMAIN FormFields(form) :
              FormFields(form)[k] = [group |-> at[1], field |-> form[at[1]][at[2]]]
<1> DEFINE FieldsIn(i) == IF form[i] = NoText THEN <<>>
                          ELSE [j \in 1..Len(form[i]) |-> [group |-> i, field |-> form[i][j]]]
           s == [i \in 1..Len(form) |-> FieldsIn(i)]
           t == FlattenSeq(s)
           w == [i \in 1..Len(s) |-> Len(s[i])]
<1>1. PICK n \in Nat : n = Len(form)
  BY DEF IsList
<1>2. DOMAIN form = 1..n
  BY <1>1, ListParts
<1>3. t = FormFields(form)
  BY DEF FormFields
<1>4. IsList(s) /\ Len(s) = n
  <2>1. s = [i \in 1..n |-> s[i]]
    BY <1>1
  <2> HIDE DEF s
  <2>2. QED BY <2>1, ListOfLength
<1>5. \A i \in 1..n : s[i] = FieldsIn(i)
  BY <1>1
<1>6. ASSUME NEW i \in 1..n
      PROVE  /\ IsList(FieldsIn(i))
             /\ Len(FieldsIn(i)) = IF form[i] = NoText THEN 0 ELSE Len(form[i])
             /\ form[i] # NoText => \A j \in 1..Len(form[i]) :
                  FieldsIn(i)[j] = [group |-> i, field |-> form[i][j]]
  <2>1. CASE form[i] = NoText
    <3>1. FieldsIn(i) = <<>>
      BY <2>1
    <3>2. IsList(<<>>) /\ Len(<<>>) = 0
      BY NoLists DEF FlatOf
    <3> HIDE DEF FieldsIn
    <3>3. QED BY <2>1, <3>1, <3>2
  <2>2. CASE form[i] # NoText
    <3>1. IsList(form[i])
      BY <1>2, <2>2
    <3>2. PICK m \in Nat : m = Len(form[i])
      BY <3>1 DEF IsList
    <3>3. FieldsIn(i) = [j \in 1..m |-> [group |-> i, field |-> form[i][j]]]
      BY <2>2, <3>2
    <3>4. PICK u : u = FieldsIn(i)
      OBVIOUS
    <3> HIDE DEF FieldsIn
    <3>5. u = [j \in 1..m |-> u[j]]
      BY <3>3, <3>4
    <3>6. IsList(u) /\ Len(u) = m
      BY <3>5, ListOfLength
    <3>7. QED BY <2>2, <3>2, <3>3, <3>4, <3>6
  <2>3. QED BY <2>1, <2>2
<1>7. IsLists(s)
  <2> HIDE DEF s, FieldsIn
  <2>1. \A i \in 1..n : IsList(s[i])
    BY <1>5, <1>6
  <2>2. QED BY <1>4, <2>1 DEF IsLists
<1>8. FlatOf(t, s, n)
  <2> HIDE DEF s
  <2>1. QED BY <1>4, <1>7, Flattened
<1>9. Places(form) = Pairs(w, n)
  <2>1. \A i \in 1..n : w[i] = IF form[i] = NoText THEN 0 ELSE Len(form[i])
    <3>1. \A i \in 1..n : w[i] = Len(s[i])
      BY <1>4
    <3> HIDE DEF w, s, FieldsIn
    <3>2. QED BY <1>5, <1>6, <3>1
  <2> HIDE DEF w
  <2>2. ASSUME NEW p, p \in Places(form) PROVE p \in Pairs(w, n)
    BY <1>2, <2>1, <2>2 DEF Places, Pairs
  <2>3. ASSUME NEW p, p \in Pairs(w, n) PROVE p \in Places(form)
    <3>1. PICK i \in 1..n : p \in {i} \X (1..w[i])
      BY <2>3 DEF Pairs
    <3>2. form[i] # NoText /\ w[i] = Len(form[i])
      BY <2>1, <3>1
    <3>3. QED BY <1>2, <3>1, <3>2 DEF Places
  <2>4. QED BY <2>2, <2>3
<1>10. IsList(t) /\ Len(t) = Cardinality(Places(form)) /\ DOMAIN t = 1..Len(t)
  <2>1. Len(t) = Cardinality(Pairs(w, n)) /\ IsList(t)
    BY <1>8 DEF FlatOf
  <2> HIDE DEF t, w
  <2>2. QED BY <1>9, <2>1, ListParts
<1>11. ASSUME NEW at \in Places(form)
       PROVE  \E k \in DOMAIN t : t[k] = [group |-> at[1], field |-> form[at[1]][at[2]]]
  <2>1. PICK g \in DOMAIN form : form[g] # NoText /\ at \in {g} \X (1..Len(form[g]))
    BY DEF Places
  <2>2. PICK j \in 1..Len(form[g]) : at = <<g, j>>
    BY <2>1
  <2>3. g \in 1..n /\ s[g][j] = [group |-> g, field |-> form[g][j]] /\ Len(s[g]) = Len(form[g])
    <3> HIDE DEF s, FieldsIn
    <3>1. QED BY <1>2, <1>5, <1>6, <2>1
  <2> HIDE DEF s, t
  <2>4. PICK k \in 1..Len(t) : t[k] = s[g][j]
    BY <1>8, <2>3 DEF FlatOf
  <2>5. QED BY <1>10, <2>2, <2>3, <2>4
<1>12. QED
  <2> HIDE DEF t
  <2>1. QED BY <1>3, <1>10, <1>11

-----------------------------------------------------------------------------
(* The tags of an item. *)

\* A list of tags with these codes, no two with the same.
Tidy(tags, codes) ==
  /\ IsList(tags)
  /\ \A t \in 1..Len(tags) : tags[t].code \in codes /\ Len(tags[t].kinds) = Len(tags[t].list)
  /\ \A t, u \in 1..Len(tags) : tags[t].code = tags[u].code => t = u

\* ListOf finds the tag, if there is one.
LEMMA ListFound ==
  ASSUME NEW tags, NEW codes, Tidy(tags, codes), NEW t \in 1..Len(tags)
  PROVE  ListOf(tags, tags[t].code) = tags[t].list
<1> DEFINE found == {u \in DOMAIN tags : tags[u].code = tags[t].code}
<1>1. DOMAIN tags = 1..Len(tags)
  BY ListParts DEF Tidy
<1>2. found = {t}
  BY <1>1 DEF Tidy
<1>3. (CHOOSE u \in found : TRUE) = t
  <2> HIDE DEF found
  <2>1. QED BY <1>2
<1>4. QED BY <1>2, <1>3 DEF ListOf

LEMMA ListMissing ==
  ASSUME NEW tags, NEW codes, Tidy(tags, codes), NEW code,
         \A t \in 1..Len(tags) : tags[t].code # code
  PROVE  ListOf(tags, code) = <<>>
<1>1. DOMAIN tags = 1..Len(tags)
  BY ListParts DEF Tidy
<1>2. QED BY <1>1 DEF ListOf

\* The tags u are those of tags and the one a formatter returned for a part.
Extends(u, tags, codes, part, code, elements) ==
  /\ Tidy(u, codes \union {code})
  /\ \A c \in codes : ListOf(u, c) = ListOf(tags, c)
  /\ ListOf(u, code) = IF part = <<>> THEN <<>> ELSE elements

LEMMA OneTag ==
  ASSUME NEW part, NEW code, NEW kinds, NEW elements
  PROVE  LET one == TagFor(part, code, kinds, elements) IN
         /\ IsList(one)
         /\ part = <<>> => Len(one) = 0
         /\ part # <<>> => Len(one) = 1 /\ one[1] = Tag(code, kinds, elements)
<1>1. PICK tag : tag = Tag(code, kinds, elements)
  OBVIOUS
<1>2. IsList(<<>>) /\ Len(<<>>) = 0
  BY NoLists DEF FlatOf
<1>3. IsList(<<tag>>) /\ Len(<<tag>>) = 1 /\ <<tag>>[1] = tag
  <2>1. PICK s : s = <<tag>>
    OBVIOUS
  <2>2. s = [k \in 1..1 |-> s[k]] /\ s[1] = tag
    BY <2>1
  <2>3. PICK n \in Nat : n = 1
    OBVIOUS
  <2>4. IsList(s) /\ Len(s) = 1
    BY <2>2, <2>3, ListOfLength
  <2>5. QED BY <2>1, <2>2, <2>4
<1>4. QED BY <1>1, <1>2, <1>3 DEF TagFor

\* One more part.
LEMMA NextTag ==
  ASSUME NEW tags, NEW codes, Tidy(tags, codes), NEW code, code \notin codes,
         NEW part, NEW kinds, NEW elements, Len(kinds) = Len(elements),
         NEW u, u = tags \o TagFor(part, code, kinds, elements)
  PROVE  Extends(u, tags, codes, part, code, elements)
<1>1. PICK one : one = TagFor(part, code, kinds, elements)
  OBVIOUS
<1>2. /\ IsList(one)
      /\ part = <<>> => Len(one) = 0
      /\ part # <<>> => Len(one) = 1 /\ one[1] = Tag(code, kinds, elements)
  BY <1>1, OneTag
<1>3. Joins(u, tags, one) /\ IsList(tags) /\ IsList(u)
  <2>1. IsList(tags)
    BY DEF Tidy
  <2>2. Joins(u, tags, one)
    BY <1>1, <1>2, <2>1, Joined
  <2>3. QED BY <2>1, <2>2 DEF Joins
<1>4. PICK n \in Nat : n = Len(tags)
  BY <1>3 DEF IsList
<1>5. \A t \in 1..n : u[t] = tags[t]
  BY <1>3, <1>4 DEF Joins
<1>6. part # <<>> => Len(u) = n + 1 /\ u[n + 1].code = code /\ u[n + 1].list = elements
                     /\ Len(u[n + 1].kinds) = Len(u[n + 1].list)
  <2>1. SUFFICES ASSUME part # <<>>
                 PROVE  /\ Len(u) = n + 1 /\ u[n + 1].code = code /\ u[n + 1].list = elements
                        /\ Len(u[n + 1].kinds) = Len(u[n + 1].list)
    OBVIOUS
  <2>2. Len(u) = n + 1 /\ u[n + 1] = Tag(code, kinds, elements)
    <3>1. Len(one) = 1 /\ one[1] = Tag(code, kinds, elements) /\ 1 \in 1..Len(one)
      BY <1>2, <2>1
    <3>2. Len(u) = n + Len(one) /\ u[n + 1] = one[1]
      BY <1>3, <1>4, <3>1 DEF Joins
    <3>3. QED BY <3>1, <3>2
  <2>3. QED BY <2>2 DEF Tag
<1>7. part = <<>> => Len(u) = n
  BY <1>2, <1>3, <1>4 DEF Joins
<1>8. \A t \in 1..n : tags[t].code \in codes /\ Len(tags[t].kinds) = Len(tags[t].list)
  BY <1>4 DEF Tidy
<1>9. \A t \in 1..Len(u) : t \in 1..n \/ (part # <<>> /\ t = n + 1)
  BY <1>4, <1>6, <1>7
<1>10. Tidy(u, codes \union {code})
  <2>1. ASSUME NEW t \in 1..Len(u)
        PROVE  u[t].code \in codes \union {code} /\ Len(u[t].kinds) = Len(u[t].list)
    BY <1>5, <1>6, <1>8, <1>9
  <2>2. ASSUME NEW t \in 1..Len(u), NEW v \in 1..Len(u), u[t].code = u[v].code
        PROVE  t = v
    <3>1. CASE t \in 1..n /\ v \in 1..n
      BY <1>4, <1>5, <2>2, <3>1 DEF Tidy
    <3> DEFINE IsOld(x) == u[x].code \in codes
               IsNew(x) == x = n + 1 /\ u[x].code = code
    <3>0. \A x \in 1..Len(u) : IF x \in 1..n THEN IsOld(x) ELSE IsNew(x)
      BY <1>5, <1>6, <1>8, <1>9
    <3>2. CASE t \in 1..n /\ v \notin 1..n
      BY <2>2, <3>0, <3>2
    <3>3. CASE t \notin 1..n /\ v \in 1..n
      BY <2>2, <3>0, <3>3
    <3>4. CASE t \notin 1..n /\ v \notin 1..n
      BY <1>9, <3>4
    <3>5. QED BY <3>1, <3>2, <3>3, <3>4
  <2>3. QED BY <1>3, <2>1, <2>2 DEF Tidy
<1>11. ASSUME NEW c \in codes PROVE ListOf(u, c) = ListOf(tags, c)
  <2>1. CASE \E t \in 1..n : tags[t].code = c
    <3>1. PICK t \in 1..n : tags[t].code = c
      BY <2>1
    <3>2. ListOf(tags, tags[t].code) = tags[t].list
      BY <1>4, ListFound
    <3>3. t \in 1..Len(u)
      BY <1>4, <1>6, <1>7
    <3>4. ListOf(u, u[t].code) = u[t].list
      BY <1>10, <3>3, ListFound
    <3>5. QED BY <1>5, <3>1, <3>2, <3>4
  <2>2. CASE ~ \E t \in 1..n : tags[t].code = c
    <3>1. ListOf(tags, c) = <<>>
      BY <1>4, <2>2, ListMissing
    <3>2. \A t \in 1..Len(u) : u[t].code # c
      BY <1>5, <1>6, <1>9, <2>2
    <3>3. ListOf(u, c) = <<>>
      BY <1>10, <3>2, ListMissing
    <3>4. QED BY <3>1, <3>3
  <2>3. QED BY <2>1, <2>2
<1>12. ListOf(u, code) = IF part = <<>> THEN <<>> ELSE elements
  <2>1. CASE part = <<>>
    <3>1. \A t \in 1..Len(u) : u[t].code # code
      BY <1>5, <1>8, <1>9, <2>1
    <3>2. QED BY <1>10, <2>1, <3>1, ListMissing
  <2>2. CASE part # <<>>
    <3>1. n + 1 \in 1..Len(u)
      BY <1>4, <1>6, <2>2
    <3>2. ListOf(u, u[n + 1].code) = u[n + 1].list
      BY <1>10, <3>1, ListFound
    <3>3. QED BY <1>6, <2>2, <3>2
  <2>3. QED BY <2>1, <2>2
<1>13. QED BY <1>10, <1>11, <1>12 DEF Extends

\* What the tags of an entry list, part by part.
ListsParts(tags, e) ==
  /\ \A t, u \in DOMAIN tags : tags[t].code = tags[u].code => t = u
  /\ \A t \in DOMAIN tags : Len(tags[t].kinds) = Len(tags[t].list)
  /\ ListOf(tags, "eligibility") = e.eligibility /\ ListOf(tags, "required-docs") = e.documents
  /\ ListOf(tags, "benefits") = e.benefits /\ ListOf(tags, "exclusions") = e.exclusions
  /\ ListOf(tags, "sponsoringEntities") = e.sponsors
  /\ ListOf(tags, "applicationForm") = FormFields(e.form)


\* The parts of the entry of a benefit are lists.
LEMMA EntryParts ==
  ASSUME NEW b \in Benefit, NEW e, e = Entry(b), e.benefits # Null
  PROVE  /\ IsList(e.eligibility) /\ IsList(e.documents) /\ IsList(e.benefits)
         /\ IsList(e.exclusions) /\ IsList(e.sponsors) /\ IsList(e.form)
         /\ \A k \in DOMAIN e.benefits : e.benefits[k] \notin Missing => e.benefits[k] \in Seq(Nat)
         /\ \A g \in DOMAIN e.form : e.form[g] \notin Missing => IsList(e.form[g])
BY ContentAssumption, Zenon

LEMMA NoFields == FormFields(<<>>) = <<>>
<1>1. Len([i \in 1..0 |-> {}]) = 0 /\ [i \in 1..0 |-> {}] = <<>>
  OBVIOUS
<1>2. PICK s : s = [i \in 1..Len(<<>>) |->
                      IF <<>>[i] = NoText THEN <<>>
                        ELSE [j \in 1..Len(<<>>[i]) |-> [group |-> i, field |-> <<>>[i][j]]]]
  OBVIOUS
<1>3. s = <<>> /\ Len(s) = 0
  BY <1>2
<1>4. FormFields(<<>>) = FlattenSeq(s)
  BY <1>2 DEF FormFields
<1>5. QED BY <1>3, <1>4 DEF FlattenSeq

LEMMA TagsListParts ==
  ASSUME NEW b \in Benefit, Entry(b).benefits # Null
  PROVE  ListsParts(Tags(b), Entry(b))
<1>1. PICK e : e = Entry(b)
  OBVIOUS
<1>2. PICK fields : fields = FormFields(e.form)
  OBVIOUS
<1>3. PICK needed, financial, ineligible, entities :
        /\ needed = [i \in 1..Len(e.documents) |->
             IF e.documents[i].isRequired THEN "mandatory-doc" ELSE "optional-doc"]
        /\ financial = [i \in 1..Len(e.benefits) |-> "financial"]
        /\ ineligible = [i \in 1..Len(e.exclusions) |-> "ineligibility"]
        /\ entities = [i \in 1..Len(e.sponsors) |-> "sponsoringEntities"]
  OBVIOUS
<1>4. PICK t1 : t1 = <<>> \o TagFor(e.eligibility, "eligibility", e.eligibility, e.eligibility)
  OBVIOUS
<1>5. PICK t2 : t2 = t1 \o TagFor(e.documents, "required-docs", needed, e.documents)
  OBVIOUS
<1>6. PICK t3 : t3 = t2 \o TagFor(e.benefits, "benefits", financial, e.benefits)
  OBVIOUS
<1>7. PICK t4 : t4 = t3 \o TagFor(e.exclusions, "exclusions", ineligible, e.exclusions)
  OBVIOUS
<1>8. PICK t5 : t5 = t4 \o TagFor(e.sponsors, "sponsoringEntities", entities, e.sponsors)
  OBVIOUS
<1>9. PICK t6 : t6 = t5 \o TagFor(e.form, "applicationForm", fields, fields)
  OBVIOUS
<1>10. Tags(b) = t6
  <2>1. t1 = TagFor(e.eligibility, "eligibility", e.eligibility, e.eligibility)
    <3>1. PICK one : one = TagFor(e.eligibility, "eligibility", e.eligibility, e.eligibility)
      OBVIOUS
    <3>2. IsList(one)
      BY <3>1, OneTag
    <3>3. one \in Seq({one[k] : k \in 1..Len(one)})
      BY <3>2, ListParts
    <3>4. <<>> \o one = one
      BY <3>3
    <3>5. QED BY <1>4, <3>1, <3>4
  <2>2. QED BY <1>1, <1>2, <1>3, <1>5, <1>6, <1>7, <1>8, <1>9, <2>1, Zenon DEF Tags
<1>11. /\ IsList(e.eligibility) /\ IsList(e.documents) /\ IsList(e.benefits)
       /\ IsList(e.exclusions) /\ IsList(e.sponsors) /\ IsList(e.form)
  BY <1>1, EntryParts
<1>12. /\ Len(needed) = Len(e.documents) /\ Len(financial) = Len(e.benefits)
       /\ Len(ineligible) = Len(e.exclusions) /\ Len(entities) = Len(e.sponsors)
  <2>1. /\ Len(e.documents) \in Nat /\ Len(e.benefits) \in Nat
        /\ Len(e.exclusions) \in Nat /\ Len(e.sponsors) \in Nat
    BY <1>11 DEF IsList
  <2>2. QED BY <1>3, <2>1
<1>13. Tidy(<<>>, {})
  <2>1. IsList(<<>>) /\ Len(<<>>) = 0
    BY NoLists DEF FlatOf
  <2>2. QED BY <2>1 DEF Tidy
<1>14. Extends(t1, <<>>, {}, e.eligibility, "eligibility", e.eligibility)
  BY <1>4, <1>13, NextTag
<1> DEFINE c1 == {"eligibility"}
           c2 == c1 \union {"required-docs"}
           c3 == c2 \union {"benefits"}
           c4 == c3 \union {"exclusions"}
           c5 == c4 \union {"sponsoringEntities"}
           c6 == c5 \union {"applicationForm"}
<1>15. "required-docs" \notin c1 /\ "benefits" \notin c2 /\ "exclusions" \notin c3
       /\ "sponsoringEntities" \notin c4 /\ "applicationForm" \notin c5
  OBVIOUS
<1>16. /\ "eligibility" \in c1 /\ "eligibility" \in c2 /\ "eligibility" \in c3
       /\ "eligibility" \in c4 /\ "eligibility" \in c5
       /\ "required-docs" \in c2 /\ "required-docs" \in c3 /\ "required-docs" \in c4
       /\ "required-docs" \in c5
       /\ "benefits" \in c3 /\ "benefits" \in c4 /\ "benefits" \in c5
       /\ "exclusions" \in c4 /\ "exclusions" \in c5 /\ "sponsoringEntities" \in c5
  OBVIOUS
<1>17. Tidy(t1, c1)
  <2>1. {} \union {"eligibility"} = c1
    OBVIOUS
  <2>2. QED BY <1>14, <2>1 DEF Extends
<1>18. /\ c2 = c1 \union {"required-docs"} /\ c3 = c2 \union {"benefits"}
       /\ c4 = c3 \union {"exclusions"} /\ c5 = c4 \union {"sponsoringEntities"}
       /\ c6 = c5 \union {"applicationForm"}
  OBVIOUS
<1> HIDE DEF c1, c2, c3, c4, c5, c6
<1>19. Extends(t2, t1, c1, e.documents, "required-docs", e.documents)
  BY <1>5, <1>12, <1>15, <1>17, NextTag
<1>20. Extends(t3, t2, c2, e.benefits, "benefits", e.benefits)
  <2>1. Tidy(t2, c2)
    BY <1>18, <1>19 DEF Extends
  <2>2. QED BY <1>6, <1>12, <1>15, <2>1, NextTag
<1>21. Extends(t4, t3, c3, e.exclusions, "exclusions", e.exclusions)
  <2>1. Tidy(t3, c3)
    BY <1>18, <1>20 DEF Extends
  <2>2. QED BY <1>7, <1>12, <1>15, <2>1, NextTag
<1>22. Extends(t5, t4, c4, e.sponsors, "sponsoringEntities", e.sponsors)
  <2>1. Tidy(t4, c4)
    BY <1>18, <1>21 DEF Extends
  <2>2. QED BY <1>8, <1>12, <1>15, <2>1, NextTag
<1>23. Extends(t6, t5, c5, e.form, "applicationForm", fields)
  <2>1. Tidy(t5, c5)
    BY <1>18, <1>22 DEF Extends
  <2>2. QED BY <1>9, <1>15, <2>1, NextTag
<1>24. ListOf(t6, "eligibility") = e.eligibility
  BY <1>14, <1>16, <1>19, <1>20, <1>21, <1>22, <1>23 DEF Extends
<1>25. ListOf(t6, "required-docs") = e.documents
  BY <1>16, <1>19, <1>20, <1>21, <1>22, <1>23 DEF Extends
<1>26. ListOf(t6, "benefits") = e.benefits
  BY <1>16, <1>20, <1>21, <1>22, <1>23 DEF Extends
<1>27. ListOf(t6, "exclusions") = e.exclusions
  BY <1>16, <1>21, <1>22, <1>23 DEF Extends
<1>28. ListOf(t6, "sponsoringEntities") = e.sponsors
  BY <1>16, <1>22, <1>23 DEF Extends
<1>29. ListOf(t6, "applicationForm") = FormFields(e.form)
  <2>1. e.form = <<>> => fields = <<>>
    BY <1>2, NoFields
  <2>2. QED BY <1>2, <1>23, <2>1 DEF Extends
<1>30. Tidy(t6, c6)
  BY <1>18, <1>23 DEF Extends
<1>31. DOMAIN t6 = 1..Len(t6)
  BY <1>30, ListParts DEF Tidy
<1>32. /\ \A t, u \in DOMAIN t6 : t6[t].code = t6[u].code => t = u
       /\ \A t \in DOMAIN t6 : Len(t6[t].kinds) = Len(t6[t].list)
  BY <1>30, <1>31 DEF Tidy
<1>33. ListsParts(t6, e)
  BY <1>24, <1>25, <1>26, <1>27, <1>28, <1>29, <1>32 DEF ListsParts
<1>34. QED BY <1>1, <1>10, <1>33

\* The item of a benefit that can be presented shows it whole.
LEMMA ItemWhole ==
  ASSUME NEW b \in Benefit, Presentable(b, TRUE)
  PROVE  ShowsWhole(Item(b, TRUE), Entry(b))
<1>1. PICK e : e = Entry(b)
  OBVIOUS
<1>2. PICK tags : tags = Tags(b)
  OBVIOUS
<1>3. PICK item : item = Item(b, TRUE)
  OBVIOUS
<1>4. item.tags = tags /\ item.price = TotalValue(e.benefits)
  BY <1>1, <1>2, <1>3 DEF Item
<1> DEFINE amounts == e.benefits
           form == e.form
<1>5. /\ amounts # Null /\ \A k \in 1..Len(amounts) : amounts[k] \notin Missing
      /\ \A g \in 1..Len(form) : form[g] # Null
  BY <1>1 DEF Presentable
<1>6. /\ IsList(form) /\ \A g \in DOMAIN form : form[g] \notin Missing => IsList(form[g])
      /\ IsList(amounts)
      /\ \A k \in DOMAIN amounts : amounts[k] \notin Missing => amounts[k] \in Seq(Nat)
  BY <1>1, <1>5, EntryParts
<1>11. ListsParts(tags, e)
  BY <1>1, <1>2, <1>5, TagsListParts
<1>12. DOMAIN amounts = 1..Len(amounts) /\ DOMAIN form = 1..Len(form)
  BY <1>6, ListParts
<1>13. /\ \A g \in DOMAIN form : form[g] # NoText => IsList(form[g])
       /\ \A k \in DOMAIN amounts : amounts[k] # NoText /\ amounts[k] \in Seq(Nat)
  BY <1>5, <1>6, <1>12 DEF Missing
<1>7. /\ Len(FormFields(e.form)) = Cardinality(Places(e.form))
      /\ \A at \in Places(e.form) : \E k \in DOMAIN FormFields(e.form) :
           FormFields(e.form)[k] = [group |-> at[1], field |-> e.form[at[1]][at[2]]]
  BY <1>6, <1>13, FieldsOfForm
<1>8. item.price = Cardinality(Rupees(FlattenSeq(e.benefits)))
  <2>1. TotalValue(e.benefits) = Cardinality(Rupees(FlattenSeq(e.benefits)))
    BY <1>6, <1>13, TotalOfAmounts
  <2>2. QED BY <1>4, <2>1
<1>9. ShowsWhole(item, e)
  BY <1>4, <1>7, <1>8, <1>11 DEF ShowsWhole, ListsParts
<1>10. QED BY <1>1, <1>3, <1>9

-----------------------------------------------------------------------------
(* The items of an answer. *)

LEMMA PresentedStays == Presented(TRUE)' = Presented(TRUE) /\ Presented(FALSE)' = Presented(FALSE)
BY DEF Presented, Presentable, Missing, Item, Tags, TagFor, Tag, FormFields, TotalValue, Entry

\* The call of a request ends with an answer that is an error or has such items, or goes
\* on: the items answered stay those of benefits that could be presented.
LEMMA ItemsKept ==
  ASSUME TypeOK, ItemState, NEW r \in Request, body' = body,
         \/ answer' = answer
         \/ \E a : /\ answer' = [answer EXCEPT ![r] = a]
                   /\ a.status = 200 => a.items \subseteq ItemsFor(r)
  PROVE  ItemState'
<1>1. \A s \in Request : WithTags(s)' <=> WithTags(s)
  BY DEF WithTags
<1>2. \A s \in Request : ItemsFor(s)' = ItemsFor(s)
  BY <1>1, PresentedStays DEF ItemsFor
<1>3. CASE answer' = answer
  BY <1>2, <1>3 DEF ItemState, Answered
<1>4. CASE \E a : /\ answer' = [answer EXCEPT ![r] = a]
                  /\ a.status = 200 => a.items \subseteq ItemsFor(r)
  <2>1. PICK a : /\ answer' = [answer EXCEPT ![r] = a]
                 /\ a.status = 200 => a.items \subseteq ItemsFor(r)
    BY <1>4
  <2>2. answer'[r] = a /\ \A s \in Request \ {r} : answer'[s] = answer[s]
    BY <2>1 DEF TypeOK
  <2>3. ASSUME NEW s \in Request, Answered(s)'
        PROVE  answer'[s].items \subseteq ItemsFor(s)
    <3>1. CASE s = r
      <4>1. a.status = 200
        BY <2>2, <2>3, <3>1 DEF Answered
      <4>2. QED BY <2>1, <2>2, <3>1, <4>1
    <3>2. CASE s # r
      BY <2>2, <2>3, <3>2 DEF ItemState, Answered
    <3>3. QED BY <3>1, <3>2
  <2>4. QED BY <1>2, <2>3 DEF ItemState
<1>5. QED BY <1>3, <1>4

LEMMA ItemsOfAnswering ==
  ASSUME NEW r \in Request, local[r] \in Local, NEW context, NEW order,
         \A b \in local[r].fetched : Presentable(b, WithTags(r))
  PROVE  Answering(r, context, order).items \subseteq ItemsFor(r)
<1>1. local[r].fetched \subseteq Benefit
  BY DEF Local
<1>2. Answering(r, context, order).items = {Item(b, WithTags(r)) : b \in local[r].fetched}
  BY DEF Answering
<1>3. WithTags(r) \in BOOLEAN
  BY DEF WithTags
<1>4. QED BY <1>1, <1>2, <1>3 DEF Presented, ItemsFor

\* What a thrown error leaves is no answer with items.
LEMMA ThrownItems ==
  ASSUME TypeOK, ItemState, NEW r \in Request, body' = body,
         NEW e \in {Axios(None), Axios(404), Other, Http(400), Http(404)}, Throws(r, e)
  PROVE  ItemState'
<1>1. PICK a : a = Error(ErrorStatus(body[r].op, e))
  OBVIOUS
<1>2. a.status # 200
  BY <1>1, Statuses DEF Error
<1>3. answer' = [answer EXCEPT ![r] = a]
  BY <1>1 DEF Throws, EndsWith
<1>4. a.status = 200 => a.items \subseteq ItemsFor(r)
  BY <1>2
<1>5. QED BY <1>3, <1>4, ItemsKept

LEMMA ReceiveItems ==
  ASSUME HandlerInv, ItemState, NEW r \in Request, Receive(r)
  PROVE  ItemState'
<1>1. answer[r] = None /\ TypeOK
  BY DEF HandlerInv, StepOfRequest, Receive
<1>2. PICK q \in Body :
        /\ body' = [body EXCEPT ![r] = q]
        /\ \/ EndsWith(r, Error(400))
           \/ EndsWith(r, Error(ErrorStatus(q.op, Http(400))))
           \/ GoesOn(r, FirstStep(q.op), NothingYet)
  BY <1>1, SentAssumption DEF Receive, TypeOK
<1>3. \A s \in Request \ {r} : body'[s] = body[s] /\ answer'[s] = answer[s]
  BY <1>1, <1>2 DEF EndsWith, GoesOn, TypeOK
<1>4. ~Answered(r)'
  <2>1. CASE EndsWith(r, Error(400))
    BY <1>1, <2>1 DEF EndsWith, Error, Answered, TypeOK
  <2>2. CASE EndsWith(r, Error(ErrorStatus(q.op, Http(400))))
    <3>1. ErrorStatus(q.op, Http(400)) # 200
      BY Statuses
    <3>2. QED BY <1>1, <2>2, <3>1 DEF EndsWith, Error, Answered, TypeOK
  <2>3. CASE GoesOn(r, FirstStep(q.op), NothingYet)
    BY <1>1, <2>3 DEF GoesOn, Answered
  <2>4. QED BY <1>2, <2>1, <2>2, <2>3
<1>5. ASSUME NEW s \in Request, Answered(s)'
      PROVE  (answer[s].items \subseteq ItemsFor(s))'
  <2>1. s # r
    BY <1>4, <1>5
  <2>2. Answered(s) /\ WithTags(s)' = WithTags(s) /\ answer'[s] = answer[s]
    BY <1>3, <1>5, <2>1 DEF Answered, WithTags
  <2>3. ItemsFor(s)' = ItemsFor(s)
    BY <2>2, PresentedStays DEF ItemsFor
  <2>4. QED BY <2>2, <2>3 DEF ItemState
<1>6. QED BY <1>5 DEF ItemState

LEMMA StepItems ==
  ASSUME HandlerInv, ItemState, NEW r \in Request, Step(r)
  PROVE  ItemState'
<1> USE DEF call
<1>1. TypeOK /\ local[r] \in Local
  BY DEF HandlerInv, TypeOK
<1>2. ASSUME GoesOn(r, "lookup", local[r]) \/ answer' = answer, body' = body PROVE ItemState'
  BY <1>1, <1>2, ItemsKept DEF GoesOn
<1>3. CASE Lookup(r)
  <2>1. CASE Throws(r, Http(400))
    BY <1>1, <1>3, <2>1, ThrownItems DEF Lookup
  <2>2. CASE answer' = answer
    BY <1>2, <1>3, <2>2 DEF Lookup
  <2>3. QED BY <1>3, <2>1, <2>2 DEF Lookup, GoesOn
<1>4. CASE Fetch(r) \/ Insert(r) \/ Clear(r) \/ Save(r) \/ Files(r)
  <2>1. answer' = answer /\ body' = body
    BY <1>4 DEF Fetch, Insert, Clear, Save, Files, GoesOn
  <2>2. QED BY <1>2, <2>1
<1>5. CASE Find(r)
  <2>1. CASE Throws(r, Http(IF body[r].target = None THEN 400 ELSE 404))
    <3>1. CASE body[r].target = None
      BY <1>1, <1>5, <2>1, <3>1, ThrownItems DEF Find
    <3>2. CASE body[r].target # None
      BY <1>1, <1>5, <2>1, <3>2, ThrownItems DEF Find
    <3>3. QED BY <3>1, <3>2
  <2>2. CASE answer' = answer
    BY <1>2, <1>5, <2>2 DEF Find
  <2>3. QED BY <1>5, <2>1, <2>2 DEF Find, GoesOn
<1>6. CASE Breaks(r)
  <2>1. body' = body
    BY <1>6 DEF Breaks
  <2>2. PICK e \in {Axios(None), Axios(404), Other, Http(400)} : Throws(r, e)
    BY <1>6 DEF Breaks
  <2>3. QED BY <1>1, <2>1, <2>2, ThrownItems
<1>7. CASE Transform(r)
  <2>1. CASE Throws(r, Other)
    BY <1>1, <1>7, <2>1, ThrownItems DEF Transform
  <2>2. CASE answer' = answer
    BY <1>2, <1>7, <2>2 DEF Transform
  <2>3. CASE /\ \A b \in local[r].fetched : Presentable(b, WithTags(r))
             /\ EndsWith(r, Answering(r, bap, local[r].order))
    <3>1. Answering(r, bap, local[r].order).items \subseteq ItemsFor(r)
      BY <1>1, <2>3, ItemsOfAnswering
    <3>2. body' = body
      BY <1>7 DEF Transform
    <3>3. answer' = [answer EXCEPT ![r] = Answering(r, bap, local[r].order)]
      BY <2>3 DEF EndsWith
    <3>4. QED BY <1>1, <3>1, <3>2, <3>3, ItemsKept
  <2>4. QED BY <1>7, <2>1, <2>2, <2>3 DEF Transform, GoesOn
<1>8. CASE Confirm(r)
  <2>1. PICK context, order : EndsWith(r, Answering(r, context, order))
    BY <1>8 DEF Confirm
  <2>2. \A b \in local[r].fetched : Presentable(b, WithTags(r))
    <3>1. pc[r] = "confirm"
      BY <1>8 DEF Confirm
    <3>2. body[r].op = "confirm" /\ \A b \in local[r].fetched : Presentable(b, FALSE)
      BY <3>1 DEF HandlerInv, StepOfRequest, InHand
    <3>3. WithTags(r) = FALSE
      BY <3>2 DEF WithTags
    <3>4. QED BY <3>2, <3>3
  <2>3. Answering(r, context, order).items \subseteq ItemsFor(r)
    BY <1>1, <2>2, ItemsOfAnswering
  <2>4. body' = body
    BY <1>8 DEF Confirm
  <2>5. answer' = [answer EXCEPT ![r] = Answering(r, context, order)]
    BY <2>1 DEF EndsWith
  <2>6. QED BY <1>1, <2>3, <2>4, <2>5, ItemsKept
<1>9. QED BY <1>3, <1>4, <1>5, <1>6, <1>7, <1>8 DEF Step

-----------------------------------------------------------------------------

LEMMA ItemsNext == HandlerInv /\ ItemState /\ [Next]_vars => ItemState'
<1> SUFFICES ASSUME HandlerInv, ItemState, [Next]_vars PROVE ItemState'
  OBVIOUS
<1>1. ASSUME NEW r \in Request, Receive(r) PROVE ItemState'
  BY <1>1, ReceiveItems
<1>2. ASSUME NEW r \in Request, Step(r) PROVE ItemState'
  BY <1>2, StepItems
<1>3. CASE UNCHANGED vars
  <2>1. \A r \in Request : ItemsFor(r)' = ItemsFor(r)
    BY <1>3, PresentedStays DEF vars, ItemsFor, WithTags
  <2>2. QED BY <1>3, <2>1 DEF vars, ItemState, Answered
<1>4. QED BY <1>1, <1>2, <1>3 DEF Next

\* The inductive invariant: what each of the DSEP handlers may believe at its next
\* step, whatever the others do, and what it has answered.
THEOREM CatalogueInvariant == Spec => []CatalogueInv
<1>1. Init => CatalogueInv
  <2>1. Init => ItemState
    BY DEF Init, ItemState, Answered
  <2>2. QED BY <2>1, CatalogueInitInv DEF CatalogueInv
<1>2. CatalogueInv /\ [Next]_vars => CatalogueInv'
  BY CatalogueNextInv, ItemsNext DEF CatalogueInv
<1>3. QED BY <1>1, <1>2, PTL DEF Spec

\* An answer names the BAP that asked or one whose request was in flight at the
\* same time, although the service keeps the BAP in fields all requests share.
THEOREM CatalogueBaps == Spec => []ForeignBapOnlyByOverlap
<1>1. CatalogueInv => ForeignBapOnlyByOverlap
  BY DEF CatalogueInv, HandlerInv
<1>2. QED BY <1>1, CatalogueInvariant, PTL

\* A request refused below 500 has written and deleted nothing, whatever it was refused
\* for, except an update whose documents failed after its write.
THEOREM CatalogueRefusals == Spec => []RefusalLeavesNoTrace
<1>1. CatalogueInv => RefusalLeavesNoTrace
  BY DEF CatalogueInv, HandlerInv
<1>2. QED BY <1>1, CatalogueInvariant, PTL

\* The application answered to init, and the order id answered to a confirm that no
\* other overlapped, stay where update and status look for them.
THEOREM CatalogueAnswers == Spec => []AnswersStand
<1>1. CatalogueInv => ConfirmedOrderIsFound
  <2>1. SUFFICES ASSUME CatalogueInv, NEW r \in Request, Settled(r)
                 PROVE  \E a \in Request : rows[a] # None /\ rows[a].order = answer[r].order
    BY DEF ConfirmedOrderIsFound, Settled
  <2>2. answer[r].app \in Request \union {None}
    BY <2>1 DEF CatalogueInv, HandlerInv, TypeOK, Answer, Answered, Settled
  <2>3. QED BY <2>1, <2>2 DEF CatalogueInv, HandlerInv, OrderStands, Settled
<1>2. CatalogueInv => AnswersStand
  BY <1>1 DEF CatalogueInv, HandlerInv, AnswersStand
<1>3. QED BY <1>2, CatalogueInvariant, PTL

\* An init sent again makes a second application only if the two calls overlapped, or an
\* update gave one of the applications another BAP or another bap_application_id.
THEOREM CatalogueSecondRows == Spec => []SecondRowOnlyByOverlapOrMove
<1>1. CatalogueInv => SecondRowOnlyByOverlapOrMove
  BY DEF CatalogueInv, HandlerInv
<1>2. QED BY <1>1, CatalogueInvariant, PTL

\* Whatever search and select answer shows its benefits whole: each element of each part
\* under one tag, the fields of all groups of the form, and every amount in the price.
THEOREM CatalogueItemsWhole == Spec => []ItemsShowWholeBenefits
<1>1. CatalogueInv => ItemsShowWholeBenefits
  <2>1. SUFFICES ASSUME CatalogueInv, NEW r \in Request, Answered(r), WithTags(r),
                        NEW i \in answer[r].items
                 PROVE  ShowsWhole(i, Entry(i.id))
    BY DEF ItemsShowWholeBenefits
  <2>2. WithTags(r) = TRUE
    BY <2>1 DEF WithTags
  <2>3. i \in Presented(TRUE)
    BY <2>1, <2>2 DEF CatalogueInv, ItemState, ItemsFor
  <2>4. PICK b \in Benefit : Presentable(b, TRUE) /\ i = Item(b, TRUE)
    BY <2>3 DEF Presented
  <2>5. i.id = b
    BY <2>4 DEF Item
  <2>6. QED BY <2>4, <2>5, ItemWhole
<1>2. QED BY <1>1, CatalogueInvariant, PTL
=============================================================================
