---------------------------- MODULE IntakeProofs ----------------------------
(***************************************************************************)
(* What Intake guarantees for any number of calls, transactions, BAP       *)
(* applications and documents.                                             *)
(***************************************************************************)
EXTENDS Intake, FiniteSetTheorems, TLAPS

\* The initial state satisfies the inductive invariant.
LEMMA IntakeInitInv == Init => IntakeInv
BY NoneAssumption
DEF Init, IntakeInv, TypeOK, CallState, DocumentState, RecordedFileIsStored,
    OrphanIsInterrupted, AnswerMatchesRequest, RetryState, SequentialRetryIsIdempotent,
    InFlight, Ended

\* A request is a record whose parts have the declared types.
LEMMA RequestFields ==
  ASSUME NEW r \in Request
  PROVE  /\ r.docs \in 0..MaxDocs
         /\ r.key \in Key \union {NoKey}
         /\ r.via \in {"init", "post"}
BY DEF Request

\* A lookup is made only for a request that has a key.
LEMMA CreateEntryStep ==
  ASSUME NEW r
  PROVE  /\ CreateEntry(r) \in {"insert", "lookup"}
         /\ CreateEntry(r) = "insert" => r.key = NoKey
BY DEF CreateEntry

LEMMA AfterCreateStep == ASSUME NEW r PROVE AfterCreate(r) \in {"transform", "answered"}
BY DEF AfterCreate

\* Every action keeps the types and the place of each call.
LEMMA StepCallState ==
  ASSUME IntakeInv, NEW c \in Call, Send(c) \/ Step(c)
  PROVE  TypeOK' /\ CallState'
<1> USE MaxDocsAssumption DEF IntakeInv, TypeOK, CallState, Goto, InFlight, Ended
<1>1. CASE Send(c)
  <2>1. PICK r \in Request :
          /\ request' = [request EXCEPT ![c] = r]
          /\ pc' = [pc EXCEPT ![c] = IF r.via = "init" THEN "benefit" ELSE CreateEntry(r)]
    BY <1>1 DEF Send
  <2>2. pc'[c] \in {"benefit", "lookup", "insert"}
    BY <2>1, CreateEntryStep
  <2>3. TypeOK'
    BY <1>1, <2>1, <2>2 DEF Send
  <2>4. CallState'
    BY <1>1, <2>1, <2>2 DEF Send
  <2>5. QED BY <2>3, <2>4
<1>2. CASE BenefitFound(c)
  BY <1>2, CreateEntryStep DEF BenefitFound
<1>3. CASE ReuseExisting(c)
  <2>1. Found(c) \subseteq Call
    BY DEF Found
  <2>2. QED BY <1>3, <2>1, AfterCreateStep DEF ReuseExisting
<1>4. CASE NothingFound(c)
  BY <1>4 DEF NothingFound
<1>5. CASE InsertRow(c)
  <2>1. request[c].docs \in 0..MaxDocs
    BY <1>5, RequestFields DEF InsertRow
  <2>2. QED BY <1>5, <2>1, AfterCreateStep DEF InsertRow
<1>6. CASE Upload(c)
  <2>1. request[c].docs \in 0..MaxDocs
    BY <1>6, RequestFields DEF Upload
  <2>2. <<c, next[c]>> \in Document
    BY <1>6, <2>1 DEF Upload, Document
  <2>3. QED BY <1>6, <2>1, <2>2 DEF Upload
<1>7. CASE Record(c)
  <2>1. request[c].docs \in 0..MaxDocs
    BY <1>7, RequestFields DEF Record, More
  <2>2. <<c, next[c]>> \in Document
    BY <1>7, <2>1 DEF Record, More, Document
  <2>3. QED BY <1>7, <2>1, <2>2, AfterCreateStep DEF Record, More
<1>8. CASE Transform(c)
  BY <1>8 DEF Transform
<1>9. CASE Fail(c)
  BY <1>9 DEF Fail
<1>10. QED BY <1>1, <1>2, <1>3, <1>4, <1>5, <1>6, <1>7, <1>8, <1>9 DEF Step

\* A call that has inserted its row goes through its documents in order.
LEMMA StepDocuments ==
  ASSUME IntakeInv, NEW c \in Call, Send(c) \/ Step(c)
  PROVE  DocumentState'
<1> USE DEF IntakeInv, TypeOK, CallState, DocumentState, Goto
<1>1. CASE Send(c)
  <2>1. PICK r \in Request :
          /\ request' = [request EXCEPT ![c] = r]
          /\ pc' = [pc EXCEPT ![c] = IF r.via = "init" THEN "benefit" ELSE CreateEntry(r)]
    BY <1>1 DEF Send
  <2>2. pc'[c] \in {"benefit", "lookup", "insert"} /\ c \notin rows
    BY <1>1, <2>1, CreateEntryStep DEF Send
  <2>3. QED BY <1>1, <2>1, <2>2 DEF Send
<1>2. CASE BenefitFound(c) \/ NothingFound(c)
  BY <1>2, CreateEntryStep DEF BenefitFound, NothingFound
<1>3. CASE ReuseExisting(c)
  BY <1>3, AfterCreateStep DEF ReuseExisting
<1>4. CASE InsertRow(c)
  <2>1. c \notin rows /\ next[c] = 1 /\ request[c].docs \in 0..MaxDocs
    BY <1>4, RequestFields DEF InsertRow
  <2>2. /\ rows' = rows \union {c} /\ files' = files /\ next' = next /\ request' = request
        /\ \A d \in Call \ {c} : pc'[d] = pc[d]
        /\ pc'[c] \in {"upload", "transform", "answered"}
        /\ pc'[c] # "upload" => request[c].docs = 0
    BY <1>4, <2>1, AfterCreateStep DEF InsertRow
  <2>3. \A i \in 1..MaxDocs : <<c, i>> \in files' <=> i <= 0
    BY <2>1, <2>2
  <2>4. QED BY <2>1, <2>2, <2>3, MaxDocsAssumption
<1>5. CASE Upload(c)
  BY <1>5 DEF Upload
<1>6. CASE Record(c)
  <2>1. /\ c \in rows /\ request[c].docs \in 0..MaxDocs
        /\ next[c] \in Nat \ {0} /\ next[c] <= request[c].docs
    BY <1>6, RequestFields DEF Record
  <2>2. \A i \in 1..MaxDocs : <<c, i>> \in files <=> i <= next[c] - 1
    BY <1>6, <2>1 DEF Record
  <2>3. /\ rows' = rows /\ request' = request
        /\ \A d \in Call \ {c} : pc'[d] = pc[d] /\ next'[d] = next[d]
        /\ \A d \in Call \ {c}, i \in 1..MaxDocs : <<d, i>> \in files' <=> <<d, i>> \in files
    BY <1>6 DEF Record
  <2>4. \A i \in 1..MaxDocs : <<c, i>> \in files' <=> i <= next[c]
    BY <1>6, <2>1, <2>2, MaxDocsAssumption DEF Record
  <2>5. \/ pc'[c] = "upload" /\ next'[c] - 1 = next[c]
        \/ pc'[c] \in {"transform", "answered"} /\ next[c] = request[c].docs
    BY <1>6, <2>1, AfterCreateStep, MaxDocsAssumption DEF Record, More
  <2>6. QED BY <2>1, <2>3, <2>4, <2>5, MaxDocsAssumption
<1>7. CASE Transform(c)
  BY <1>7 DEF Transform
<1>8. CASE Fail(c)
  BY <1>8 DEF Fail
<1>9. QED BY <1>1, <1>2, <1>3, <1>4, <1>5, <1>6, <1>7, <1>8 DEF Step

\* The object without a row is the one whose record comes next.
LEMMA StepOrphan ==
  ASSUME IntakeInv, NEW c \in Call, Send(c) \/ Step(c)
  PROVE  OrphanIsInterrupted'
<1> USE DEF IntakeInv, TypeOK, OrphanIsInterrupted, Goto
<1>1. ASSUME NEW d \in Document PROVE d = <<d[1], d[2]>> /\ d[1] \in Call
  BY DEF Document
<1>2. CASE Send(c)
  BY <1>1, <1>2 DEF Send
<1>3. CASE BenefitFound(c) \/ ReuseExisting(c) \/ NothingFound(c) \/ InsertRow(c)
             \/ Transform(c)
  BY <1>1, <1>3 DEF BenefitFound, ReuseExisting, NothingFound, InsertRow, Transform
<1>4. CASE Upload(c)
  BY <1>1, <1>4 DEF Upload
<1>5. CASE Record(c)
  BY <1>1, <1>5 DEF Record
<1>6. CASE Fail(c)
  BY <1>1, <1>6 DEF Fail
<1>7. QED BY <1>2, <1>3, <1>4, <1>5, <1>6 DEF Step

\* A row is recorded by a call that has just stored the object it names.
LEMMA StepRecorded ==
  ASSUME IntakeInv, NEW c \in Call, Send(c) \/ Step(c)
  PROVE  RecordedFileIsStored'
BY DEF IntakeInv, CallState, RecordedFileIsStored, Send, Step, BenefitFound,
       ReuseExisting, NothingFound, InsertRow, Upload, Record, More, Transform, Fail

\* A call that is resolved keeps its request, and the row stays.
LEMMA StepAnswer ==
  ASSUME IntakeInv, NEW c \in Call, Send(c) \/ Step(c)
  PROVE  AnswerMatchesRequest'
<1> USE NoneAssumption DEF IntakeInv, TypeOK, CallState, AnswerMatchesRequest
<1>1. CASE Send(c)
  <2>1. \A d \in Call \ {c} : request'[d] = request[d]
    BY <1>1 DEF Send
  <2>2. answer' = answer /\ rows' = rows /\ answer[c] = None /\ c \notin rows
    BY <1>1 DEF Send
  <2>3. ASSUME NEW d \in Call, answer'[d] # None
        PROVE  /\ answer'[d] \in rows'
               /\ answer'[d] = d \/ Matches(request'[d], request'[answer'[d]])
    <3>1. d # c /\ answer[d] \in rows /\ answer[d] # c
      BY <2>2, <2>3
    <3>2. request'[d] = request[d] /\ request'[answer[d]] = request[answer[d]]
      BY <2>1, <3>1
    <3>3. QED BY <2>2, <2>3, <3>1, <3>2
  <2>4. QED BY <2>3
<1>2. CASE ReuseExisting(c)
  BY <1>2 DEF ReuseExisting, Found
<1>3. CASE InsertRow(c)
  BY <1>3 DEF InsertRow
<1>4. CASE BenefitFound(c) \/ NothingFound(c) \/ Upload(c) \/ Record(c)
             \/ Transform(c) \/ Fail(c)
  BY <1>4 DEF BenefitFound, NothingFound, Upload, Record, More, Transform, Fail
<1>5. QED BY <1>1, <1>2, <1>3, <1>4 DEF Step

\* The heart of the idempotence argument: only an insert adds a row, a call
\* enters its insert past an empty lookup, and rows are never removed.
LEMMA StepRetry ==
  ASSUME IntakeInv, NEW c \in Call, Send(c) \/ Step(c)
  PROVE  RetryState' /\ SequentialRetryIsIdempotent'
<1> USE DEF IntakeInv, TypeOK, CallState, RetryState, SequentialRetryIsIdempotent, Goto
<1>1. CASE Send(c)
  <2>1. PICK r \in Request :
          /\ request' = [request EXCEPT ![c] = r]
          /\ pc' = [pc EXCEPT ![c] = IF r.via = "init" THEN "benefit" ELSE CreateEntry(r)]
    BY <1>1 DEF Send
  <2>2. c \notin rows /\ rows' = rows /\ pc[c] \notin Ended
    BY <1>1 DEF Send, Ended
  <2>3. pc'[c] = "insert" => r.key = NoKey
    BY <1>1, <2>1, CreateEntryStep DEF Send
  <2>4. ASSUME NEW a \in Call, NEW d \in Call, a \in before'[d]
        PROVE  /\ a # c
               /\ pc'[a] \in Ended
               /\ a \in rows' /\ Matches(request'[d], request'[a])
                    => pc'[d] # "insert" /\ d \notin rows'
    <3>1. CASE d = c
      <4>1. pc[a] \in Ended
        BY <1>1, <2>4, <3>1 DEF Send
      <4>2. request'[d] = r
        BY <2>1, <3>1
      <4>3. QED BY <2>1, <2>2, <2>3, <3>1, <4>1, <4>2 DEF Matches
    <3>2. CASE d # c
      <4>1. a \in before[d]
        BY <1>1, <2>4, <3>2 DEF Send
      <4>2. pc[a] \in Ended /\ a # c
        BY <2>2, <4>1
      <4>3. request'[a] = request[a] /\ request'[d] = request[d]
        BY <2>1, <3>2, <4>2
      <4>4. QED BY <2>1, <2>2, <3>2, <4>1, <4>2, <4>3
    <3>3. QED BY <3>1, <3>2
  <2>5. QED BY <2>4
<1>2. CASE NothingFound(c)
  BY <1>2 DEF NothingFound, Found, Ended
<1>3. CASE InsertRow(c)
  BY <1>3, AfterCreateStep DEF InsertRow, Ended
<1>4. CASE BenefitFound(c)
  <2>1. pc'[c] = "insert" => request[c].key = NoKey
    BY <1>4, CreateEntryStep DEF BenefitFound
  <2>2. QED BY <1>4, <2>1 DEF BenefitFound, Matches, Ended
<1>5. CASE ReuseExisting(c) \/ Upload(c) \/ Record(c) \/ Transform(c) \/ Fail(c)
  BY <1>5, AfterCreateStep
  DEF ReuseExisting, Upload, Record, More, Transform, Fail, Ended, InFlight
<1>6. QED BY <1>1, <1>2, <1>3, <1>4, <1>5 DEF Step

\* The inductive invariant holds in every behaviour.
THEOREM IntakeInvariant == Spec => []IntakeInv
<1>1. IntakeInv /\ [Next]_vars => IntakeInv'
  <2> SUFFICES ASSUME IntakeInv, [Next]_vars PROVE IntakeInv'
    OBVIOUS
  <2>1. CASE Next
    <3>1. PICK c \in Call : Send(c) \/ Step(c)
      BY <2>1 DEF Next
    <3>2. QED BY <3>1, StepCallState, StepDocuments, StepRecorded, StepOrphan, StepAnswer,
                 StepRetry DEF IntakeInv
  <2>2. CASE UNCHANGED vars
    BY <2>2 DEF vars, IntakeInv, TypeOK, CallState, DocumentState, RecordedFileIsStored,
                OrphanIsInterrupted, AnswerMatchesRequest, Matches, RetryState, SequentialRetryIsIdempotent
  <2>3. QED BY <2>1, <2>2
<1>2. QED BY IntakeInitInv, <1>1, PTL DEF Spec

\* Type correctness of the intake, for every value of the constants.
THEOREM IntakeTypeOK == Spec => []TypeOK
<1>1. IntakeInv => TypeOK
  BY DEF IntakeInv
<1>2. QED BY IntakeInvariant, <1>1, PTL

\* No file row ever names an object that was not stored
\* (ApplicationsService.processApplicationFiles).
THEOREM RecordedFilesStored == Spec => []RecordedFileIsStored
<1>1. IntakeInv => RecordedFileIsStored
  BY DEF IntakeInv
<1>2. QED BY IntakeInvariant, <1>1, PTL

\* Storage and file table disagree on what an interrupted call was about to record
\* and on nothing else (ApplicationsService.processApplicationFiles).
THEOREM StorageMatches == Spec => []StorageMatchesFiles
<1>1. IntakeInv => StorageMatchesFiles
  BY DEF IntakeInv, StorageMatchesFiles
<1>2. QED BY IntakeInvariant, <1>1, PTL

\* An application has the first documents of its request, and all of them once
\* nobody is at work on it any more and nothing failed
\* (ApplicationsService.processApplicationFiles).
THEOREM DocumentsComplete == Spec => []CompleteUnlessInterrupted
<1>1. IntakeInv => CompleteUnlessInterrupted
  <2> SUFFICES ASSUME IntakeInv, NEW a \in rows
               PROVE  LET have == {i \in 1..request[a].docs : <<a, i>> \in files} IN
                        /\ have = 1..Cardinality(have)
                        /\ have = 1..request[a].docs \/ pc[a] \in {"upload", "record", "failed"}
    BY DEF CompleteUnlessInterrupted
  <2> DEFINE have == {i \in 1..request[a].docs : <<a, i>> \in files}
  <2>1. a \in Call /\ pc[a] \in {"upload", "record", "transform", "answered", "failed"}
    BY DEF IntakeInv, TypeOK, CallState, InFlight, Ended
  <2>2. request[a].docs \in 0..MaxDocs
    BY <2>1, RequestFields DEF IntakeInv, CallState
  <2>3. PICK k \in 0..request[a].docs :
          /\ pc[a] \in {"transform", "answered"} => k = request[a].docs
          /\ \A i \in 1..MaxDocs : <<a, i>> \in files <=> i <= k
    BY <2>1 DEF IntakeInv, DocumentState
  <2>4. k \in Nat /\ have = 1..k
    BY <2>2, <2>3, MaxDocsAssumption
  <2>5. Cardinality(1..k) = k
    BY <2>4, FS_Interval
  <2>6. QED BY <2>1, <2>3, <2>4, <2>5
<1>2. QED BY IntakeInvariant, <1>1, PTL

\* A call resolves to its own application or to one its lookup selects
\* (ApplicationsService.create).
THEOREM AnswersMatchRequests == Spec => []AnswerMatchesRequest
<1>1. IntakeInv => AnswerMatchesRequest
  BY DEF IntakeInv
<1>2. QED BY IntakeInvariant, <1>1, PTL

\* A retry sent after the first attempt ended creates no second application
\* (ApplicationsService.create).
THEOREM RetriesAreIdempotent == Spec => []SequentialRetryIsIdempotent
<1>1. IntakeInv => SequentialRetryIsIdempotent
  BY DEF IntakeInv
<1>2. QED BY IntakeInvariant, <1>1, PTL

-----------------------------------------------------------------------------
(***************************************************************************)
(* Requests that do not overlap.                                           *)
(***************************************************************************)

\* Without overlap at most one call is in flight, so nothing is inserted
\* between its lookup and its insert.
LEMMA StepSerial ==
  ASSUME ~Concurrent, IntakeInv, SerialState, NEW c \in Call, Send(c) \/ Step(c)
  PROVE  SerialState'
<1> USE DEF IntakeInv, TypeOK, CallState, SerialState, Found, Goto, InFlight
<1>1. CASE Send(c)
  <2>1. PICK r \in Request :
          /\ request' = [request EXCEPT ![c] = r]
          /\ pc' = [pc EXCEPT ![c] = IF r.via = "init" THEN "benefit" ELSE CreateEntry(r)]
    BY <1>1 DEF Send
  <2>2. \A d \in Call : pc[d] \notin InFlight
    BY <1>1 DEF Send
  <2>3. pc'[c] = "insert" => r.key = NoKey
    BY <1>1, <2>1, CreateEntryStep DEF Send
  <2>4. request'[c] = r
    BY <2>1
  <2>5. \A d \in Call : pc'[d] \in InFlight => d = c
    BY <2>1, <2>2
  <2>6. pc'[c] = "insert" => Found(c)' = {}
    BY <2>3, <2>4 DEF Matches
  <2>7. \A d \in Call : pc'[d] = "insert" => d = c
    BY <2>5
  <2>8. QED BY <2>5, <2>6, <2>7
<1>2. CASE BenefitFound(c)
  <2>1. pc'[c] = "insert" => request[c].key = NoKey
    BY <1>2, CreateEntryStep DEF BenefitFound
  <2>2. QED BY <1>2, <2>1 DEF BenefitFound, Matches
<1>3. CASE ReuseExisting(c)
  BY <1>3, AfterCreateStep DEF ReuseExisting
<1>4. CASE NothingFound(c)
  BY <1>4 DEF NothingFound
<1>5. CASE InsertRow(c)
  <2>1. pc'[c] # "insert"
    BY <1>5, AfterCreateStep DEF InsertRow
  <2>2. \A d \in Call : pc'[d] \in InFlight => d = c
    BY <1>5 DEF InsertRow
  <2>3. QED BY <2>1, <2>2
<1>6. CASE Upload(c)
  BY <1>6 DEF Upload
<1>7. CASE Record(c)
  BY <1>7, AfterCreateStep DEF Record, More
<1>8. CASE Transform(c)
  BY <1>8 DEF Transform
<1>9. CASE Fail(c)
  BY <1>9 DEF Fail
<1>10. QED BY <1>1, <1>2, <1>3, <1>4, <1>5, <1>6, <1>7, <1>8, <1>9 DEF Step

\* Without overlap the lookup is never stale.
THEOREM SerialInvariant ==
  ASSUME ~Concurrent
  PROVE  Spec => []SerialState
<1>1. Init => SerialState
  BY DEF Init, SerialState, InFlight
<1>2. IntakeInv /\ SerialState /\ [Next]_vars => SerialState'
  <2> SUFFICES ASSUME IntakeInv, SerialState, [Next]_vars PROVE SerialState'
    OBVIOUS
  <2>1. CASE Next
    BY <2>1, StepSerial DEF Next
  <2>2. CASE UNCHANGED vars
    BY <2>2 DEF vars, SerialState, Found, Matches
  <2>3. QED BY <2>1, <2>2
<1>3. QED BY <1>1, <1>2, IntakeInvariant, PTL DEF Spec

\* Without overlap no two applications answer to one transaction, BAP and benefit
\* (ApplicationsService.create).
THEOREM NoDuplicatesWithoutOverlap ==
  ASSUME ~Concurrent
  PROVE  Spec => []NoDuplicateApplications
<1>1. Init => NoDuplicateApplications
  BY DEF Init, NoDuplicateApplications
<1>2. IntakeInv /\ SerialState /\ NoDuplicateApplications /\ [Next]_vars
        => NoDuplicateApplications'
  <2> SUFFICES ASSUME IntakeInv, SerialState, NoDuplicateApplications, [Next]_vars
               PROVE  NoDuplicateApplications'
    OBVIOUS
  <2> USE DEF NoDuplicateApplications
  <2>1. ASSUME NEW c \in Call, InsertRow(c) PROVE NoDuplicateApplications'
    <3>1. \A a \in rows : ~Matches(request[c], request[a])
      BY <2>1 DEF InsertRow, SerialState, Found
    <3>2. rows' = rows \union {c} /\ request' = request
      BY <2>1 DEF InsertRow
    <3>3. QED BY <3>1, <3>2 DEF Matches
  <2>2. ASSUME NEW c \in Call, Send(c) PROVE NoDuplicateApplications'
    <3>1. c \notin rows /\ rows' = rows
      BY <2>2 DEF Send, IntakeInv, CallState
    <3>2. \A a \in rows : request'[a] = request[a]
      BY <2>2, <3>1 DEF Send, IntakeInv, TypeOK
    <3>3. QED BY <3>1, <3>2
  <2>3. ASSUME rows' = rows, request' = request PROVE NoDuplicateApplications'
    BY <2>3
  <2>4. QED
    BY <2>1, <2>2, <2>3 DEF Next, Step, BenefitFound, ReuseExisting, NothingFound, Upload,
                            Record, Transform, Fail, vars
<1>3. QED BY <1>1, <1>2, IntakeInvariant, SerialInvariant, PTL DEF Spec

\* Without overlap create() is the atomic get-or-create of ApplicationRegistry:
\* every step of a handler is a step of the registry or changes nothing in it.
THEOREM IntakeImplementsRegistry ==
  ASSUME ~Concurrent
  PROVE  Spec => GetOrCreate
<1>1. Init => Registry!Init
  BY DEF Init, Registry!Init
<1>2. IntakeInv /\ SerialState /\ [Next]_vars => [Registry!Next]_(Registry!vars)
  <2> SUFFICES ASSUME IntakeInv, SerialState, Next
               PROVE  Registry!Next \/ UNCHANGED Registry!vars
    BY DEF vars, Registry!vars
  <2>1. PICK c \in Call : Send(c) \/ Step(c)
    BY DEF Next
  <2>2. CASE Send(c)
    <3>1. request[c] = None
      BY <2>2 DEF Send, IntakeInv, CallState
    <3>2. Registry!Send(c)
      BY <2>2, <3>1 DEF Send, Registry!Send
    <3>3. QED BY <3>2 DEF Registry!Next
  <2>3. CASE ReuseExisting(c)
    <3>1. request[c] # None /\ answer[c] = None
      BY <2>3, NoneAssumption DEF ReuseExisting, IntakeInv, CallState
    <3>2. Registry!Existing(c) = Found(c)
      BY DEF Registry!Existing, Found
    <3>3. Registry!Bind(c)
      BY <2>3, <3>1, <3>2 DEF ReuseExisting, Registry!Bind
    <3>4. QED BY <3>3 DEF Registry!Next
  <2>4. CASE InsertRow(c)
    <3>1. request[c] # None /\ answer[c] = None
      BY <2>4, NoneAssumption DEF InsertRow, IntakeInv, CallState
    <3>2. Registry!Existing(c) = Found(c) /\ Found(c) = {}
      BY <2>4 DEF Registry!Existing, Found, InsertRow, SerialState
    <3>3. Registry!Bind(c)
      BY <2>4, <3>1, <3>2 DEF InsertRow, Registry!Bind
    <3>4. QED BY <3>3 DEF Registry!Next
  <2>5. CASE BenefitFound(c) \/ NothingFound(c) \/ Upload(c) \/ Record(c)
               \/ Transform(c) \/ Fail(c)
    BY <2>5 DEF BenefitFound, NothingFound, Upload, Record, More, Transform, Fail, Registry!vars
  <2>6. QED BY <2>1, <2>2, <2>3, <2>4, <2>5 DEF Step
<1>3. QED
  BY <1>1, <1>2, IntakeInvariant, SerialInvariant, PTL
  DEF Spec, GetOrCreate, Registry!Spec
=============================================================================
