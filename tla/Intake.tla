------------------------------- MODULE Intake -------------------------------
(***************************************************************************)
(* How applications come into being: POST /applications and the DSEP       *)
(* "init" request, both of which end in ApplicationsService.create.        *)
(*                                                                         *)
(* The service is one node process, so a handler runs alone between two    *)
(* awaits and is interleaved with other handlers at each of them.  Every   *)
(* await is a control point of the model, named for the step it precedes.  *)
(* Each database statement and each upload is atomic; nothing encloses     *)
(* them in a transaction.                                                  *)
(*                                                                         *)
(* A call is one HTTP request.  A client that retries makes another call   *)
(* with the same request.  A row of Applications is named by the call that *)
(* inserted it, a document by its application and its index.               *)
(***************************************************************************)
EXTENDS Naturals, FiniteSets

CONSTANTS
  Call,          \* HTTP requests, retries included
  Key,           \* (transactionId, bapId, benefitId) triples
  NoKey,         \* the triple of a request without transactionId or bapId
  BapApp,        \* values of bap_application_id
  NoBapApp,      \* the request carries none
  None,
  MaxDocs,       \* bound: documents in one request
  Concurrent     \* whether a request may be sent while another is in flight

ASSUME MaxDocsAssumption == MaxDocs \in Nat
ASSUME ConcurrentAssumption == Concurrent \in BOOLEAN
ASSUME NoKeyAssumption == NoKey \notin Key
ASSUME NoBapAppAssumption == NoBapApp \notin BapApp

\* DSEP init insists on transaction_id and bap_id; POST /applications does not.
Request ==
  [via : {"init"}, key : Key, bapApp : BapApp \union {NoBapApp}, docs : 0..MaxDocs]
    \union
  [via : {"post"}, key : Key \union {NoKey}, bapApp : BapApp \union {NoBapApp},
   docs : 0..MaxDocs]

ASSUME NoneAssumption == None \notin Call /\ None \notin Request

Document == Call \X (1..MaxDocs)

InFlight == {"benefit", "lookup", "insert", "upload", "record", "transform"}
Ended == {"answered", "failed"}

VARIABLES
  pc,            \* pc[c]: the step call c takes next
  request,       \* request[c]: the body of call c, None before it is sent
  answer,        \* answer[c]: the application call c resolved to
  next,          \* next[c]: the document processApplicationFiles is at
  rows,          \* table Applications
  files,         \* table ApplicationFiles
  objects,       \* objects held by the file storage provider
  before         \* history: the calls that had ended when c was sent

vars == <<pc, request, answer, next, rows, files, objects, before>>

Init ==
  /\ pc = [c \in Call |-> "idle"]
  /\ request = [c \in Call |-> None]
  /\ answer = [c \in Call |-> None]
  /\ next = [c \in Call |-> 1]
  /\ rows = {}
  /\ files = {}
  /\ objects = {}
  /\ before = [c \in Call |-> {}]

-----------------------------------------------------------------------------

\* The where clause of the duplicate lookup: bapApplicationId takes part only
\* when the incoming request has one.
Matches(q, r) ==
  /\ q.key # NoKey
  /\ r.key = q.key
  /\ q.bapApp # NoBapApp => r.bapApp = q.bapApp

Found(c) == {a \in rows : Matches(request[c], request[a])}

\* Variant with a fault: the lookup is skipped without bap_application_id.
CreateEntryWithBapApp(r) ==
  IF r.key = NoKey \/ r.bapApp = NoBapApp THEN "insert" ELSE "lookup"

\* create() looks for a duplicate only with a transaction, a BAP and a benefit.
CreateEntry(r) == IF r.key = NoKey THEN "insert" ELSE "lookup"

\* What is left once the application is known: init maps the benefit to the
\* ONEST catalogue, the plain endpoint answers.
AfterCreate(r) == IF r.via = "init" THEN "transform" ELSE "answered"

Goto(c, step) == pc' = [pc EXCEPT ![c] = step]

-----------------------------------------------------------------------------

\* The request arrives and passes validation; init first fetches the benefit.
Send(c) ==
  /\ pc[c] = "idle"
  /\ Concurrent \/ \A d \in Call : pc[d] \notin InFlight
  /\ \E r \in Request :
       /\ request' = [request EXCEPT ![c] = r]
       /\ Goto(c, IF r.via = "init" THEN "benefit" ELSE CreateEntry(r))
  /\ before' = [before EXCEPT ![c] = {d \in Call : pc[d] \in Ended}]
  /\ UNCHANGED <<answer, next, rows, files, objects>>

\* getBenefitsByIdStrapi found the benefit.
BenefitFound(c) ==
  /\ pc[c] = "benefit"
  /\ Goto(c, CreateEntry(request[c]))
  /\ UNCHANGED <<request, answer, next, rows, files, objects, before>>

\* Variant with a fault: bap_application_id is left out of the where clause.
ReuseSameKey(c) ==
  /\ pc[c] = "lookup"
  /\ \E a \in rows :
       /\ request[a].key = request[c].key
       /\ answer' = [answer EXCEPT ![c] = a]
  /\ Goto(c, AfterCreate(request[c]))
  /\ UNCHANGED <<request, next, rows, files, objects, before>>

\* findFirst returned a row: the call resolves to it, whatever files it has.
ReuseExisting(c) ==
  /\ pc[c] = "lookup"
  /\ \E a \in Found(c) : answer' = [answer EXCEPT ![c] = a]
  /\ Goto(c, AfterCreate(request[c]))
  /\ UNCHANGED <<request, next, rows, files, objects, before>>

\* Variant with a fault: the result of the lookup is not looked at.
NothingFoundUnchecked(c) ==
  /\ pc[c] = "lookup"
  /\ Goto(c, "insert")
  /\ UNCHANGED <<request, answer, next, rows, files, objects, before>>

NothingFound(c) ==
  /\ pc[c] = "lookup"
  /\ Found(c) = {}
  /\ Goto(c, "insert")
  /\ UNCHANGED <<request, answer, next, rows, files, objects, before>>

InsertRow(c) ==
  /\ pc[c] = "insert"
  /\ rows' = rows \union {c}
  /\ answer' = [answer EXCEPT ![c] = c]
  /\ Goto(c, IF request[c].docs > 0 THEN "upload" ELSE AfterCreate(request[c]))
  /\ UNCHANGED <<request, next, files, objects, before>>

Upload(c) ==
  /\ pc[c] = "upload"
  /\ objects' = objects \union {<<c, next[c]>>}
  /\ Goto(c, "record")
  /\ UNCHANGED <<request, answer, next, rows, files, before>>

\* Variant with a fault: the loop ends one early.
OneShort(c) == next[c] + 1 < request[c].docs

\* The loop over the documents goes on.
More(c) == next[c] < request[c].docs

\* Variants with a fault: the loop does not advance, or goes on after the row
\* of a file could not be written.
RecordThen(c, following, stored) ==
  /\ pc[c] = "record"
  /\ files' = files \union stored
  /\ next' = [next EXCEPT ![c] = following]
  /\ Goto(c, IF More(c) THEN "upload" ELSE AfterCreate(request[c]))
  /\ UNCHANGED <<request, answer, rows, objects, before>>

RecordSameAgain(c) == RecordThen(c, next[c], {<<c, next[c]>>})
RecordSwallowsError(c) ==
  \E stored \in {{}, {<<c, next[c]>>}} :
    RecordThen(c, IF More(c) THEN next[c] + 1 ELSE next[c], stored)

Record(c) ==
  /\ pc[c] = "record"
  /\ files' = files \union {<<c, next[c]>>}
  /\ IF More(c)
       THEN /\ Goto(c, "upload")
            /\ next' = [next EXCEPT ![c] = @ + 1]
       ELSE /\ Goto(c, AfterCreate(request[c]))
            /\ UNCHANGED next
  /\ UNCHANGED <<request, answer, rows, objects, before>>

\* transformScholarshipsToOnestFormat succeeded.
Transform(c) ==
  /\ pc[c] = "transform"
  /\ Goto(c, "answered")
  /\ UNCHANGED <<request, answer, next, rows, files, objects, before>>

\* The awaited operation throws, or the process dies and is restarted by its
\* supervisor (a crash is a Fail of every call in flight).  Nothing that was
\* written is undone.
Fail(c) ==
  /\ pc[c] \in InFlight
  /\ Goto(c, "failed")
  /\ UNCHANGED <<request, answer, next, rows, files, objects, before>>

Step(c) ==
  \/ BenefitFound(c)
  \/ ReuseExisting(c)
  \/ NothingFound(c)
  \/ InsertRow(c)
  \/ Upload(c)
  \/ Record(c)
  \/ Transform(c)
  \/ Fail(c)

Next == \E c \in Call : Send(c) \/ Step(c)

Spec == Init /\ [][Next]_vars

\* An awaited promise settles, so a handler that can go on does.
FairSpec == Spec /\ \A c \in Call : WF_vars(Step(c))

-----------------------------------------------------------------------------

TypeOK ==
  /\ pc \in [Call -> {"idle"} \union InFlight \union Ended]
  /\ request \in [Call -> Request \union {None}]
  /\ answer \in [Call -> Call \union {None}]
  /\ next \in [Call -> Nat \ {0}]
  /\ rows \subseteq Call
  /\ files \subseteq Document
  /\ objects \subseteq Document
  /\ before \in [Call -> SUBSET Call]

\* A file row never names an object the storage does not hold: the service
\* uploads first and records second, and never records a failed upload
\* (processApplicationFiles).
RecordedFileIsStored == files \subseteq objects

\* An application lacks a document of its request only while the call that
\* created it is still storing documents, or if that call failed: a complete
\* call records every document exactly once, and the recorded ones are a
\* prefix of the request.
CompleteUnlessInterrupted ==
  \A a \in rows :
    LET have == {i \in 1..request[a].docs : <<a, i>> \in files} IN
      /\ have = 1..Cardinality(have)
      /\ have = 1..request[a].docs \/ pc[a] \in {"upload", "record", "failed"}

\* At most one object per call is left without a row, the one whose record
\* the call was about to write, and a finished call leaves none.
OrphanIsInterrupted ==
  \A d \in objects \ files :
    /\ pc[d[1]] \in {"record", "failed"}
    /\ d[2] = next[d[1]]

\* The file table and the storage agree, but for what an interrupted call was
\* about to record.
StorageMatchesFiles == RecordedFileIsStored /\ OrphanIsInterrupted

\* An application is never answered to a request it does not match: the
\* resolved row exists and is the call's own or one its lookup selects.
AnswerMatchesRequest ==
  \A c \in Call : answer[c] # None =>
    /\ answer[c] \in rows
    /\ answer[c] = c \/ Matches(request[c], request[answer[c]])

\* A retry that is sent after the first attempt ended creates no second
\* application, whether that attempt was answered, failed after its insert
\* or was lost in a crash.
SequentialRetryIsIdempotent ==
  \A c, d \in Call :
    /\ c \in rows
    /\ c \in before[d]
    /\ Matches(request[d], request[c])
    => d \notin rows

\* Where each call stands: what its control point says of its request, its
\* row, its place in the documents and the object it is about to record.
CallState ==
  \A c \in Call :
    /\ IF pc[c] = "idle" THEN request[c] = None ELSE request[c] \in Request
    /\ pc[c] \in {"idle", "benefit", "lookup", "insert"} =>
         answer[c] = None /\ next[c] = 1 /\ c \notin rows
    /\ pc[c] \in {"upload", "record"} => next[c] <= request[c].docs
    /\ pc[c] = "record" => <<c, next[c]>> \in objects

\* Of the documents of its request a call has recorded the first ones: those
\* before the one it is at, or all of them.
DocumentState ==
  \A c \in Call :
    /\ pc[c] \in {"upload", "record"} => c \in rows
    /\ c \notin rows => \A i \in 1..MaxDocs : <<c, i>> \notin files
    /\ c \in rows =>
         \E k \in {next[c] - 1, request[c].docs} :
           /\ k \in 0..request[c].docs
           /\ pc[c] \in {"upload", "record"} => k = next[c] - 1
           /\ pc[c] \in {"transform", "answered"} => k = request[c].docs
           /\ \A i \in 1..MaxDocs : <<c, i>> \in files <=> i <= k

\* A call does not reach its insert once a call that ended before it was sent
\* has left a row its lookup selects.
RetryState ==
  \A c, d \in Call :
    c \in before[d] =>
      /\ pc[c] \in Ended
      /\ c \in rows /\ Matches(request[d], request[c]) => pc[d] # "insert"

\* The inductive invariant behind the safety theorems.
IntakeInv ==
  /\ TypeOK
  /\ CallState
  /\ DocumentState
  /\ RecordedFileIsStored /\ OrphanIsInterrupted
  /\ AnswerMatchesRequest
  /\ RetryState
  /\ SequentialRetryIsIdempotent

\* Without overlap the lookup of the one call in flight is never stale.
SerialState ==
  /\ \A c, d \in Call : pc[c] \in InFlight /\ pc[d] \in InFlight => c = d
  /\ \A c \in Call : pc[c] = "insert" => Found(c) = {}

\* The comment on the lookup: "This prevents creating duplicate applications
\* for the same request from BAP".
NoDuplicateApplications ==
  \A c, d \in rows :
    /\ request[c].key = request[d].key
    /\ request[c].key # NoKey
    /\ request[c].bapApp = request[d].bapApp
    => c = d

\* Every request that is sent is answered or fails.
SentCallEnds == \A c \in Call : pc[c] \in InFlight ~> pc[c] \in Ended

-----------------------------------------------------------------------------

\* When requests do not overlap, create() is the atomic get-or-create of
\* ApplicationRegistry: a call is bound at its insert or at its lookup.
Registry == INSTANCE ApplicationRegistry WITH registered <- rows, bound <- answer

GetOrCreate == Registry!Spec
=============================================================================
