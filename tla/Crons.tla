------------------------------- MODULE Crons --------------------------------
(***************************************************************************)
(* The two background jobs over the applications table.                    *)
(*                                                                         *)
(*   calculation  ApplicationStatusUpdate: amounts of applications that    *)
(*                have none                                                *)
(*   check        EligibilityStatusUpdate: eligibility of applications     *)
(*                that are still pending                                   *)
(*                                                                         *)
(* A tick selects a batch with a raw query, LIMIT without ORDER BY, and    *)
(* works through it row by row, one try/catch for each row.  The timer     *)
(* fires whether or not the previous tick is done, so ticks of one job     *)
(* overlap.  The calculation reads each row again through Prisma; the      *)
(* check decides on the rows of its batch as the raw query returned them,  *)
(* with applicationData still encrypted.                                   *)
(*                                                                         *)
(* The other writers of the columns the jobs look at are here too: the     *)
(* calculation and the check on demand and the page view that runs both,   *)
(* each of which reads the row, awaits a service and writes it; the        *)
(* resubmission, which replaces the data and resets the columns; and       *)
(* PATCH, which writes any of them and resets none.  Applicant data is     *)
(* identified by the number of its version.  What the eligibility service  *)
(* answers, and how the documents enter, is the subject of Verification.   *)
(***************************************************************************)
EXTENDS Naturals, FiniteSets

CONSTANTS
  App,           \* rows of Applications
  CalcTick,      \* ticks of the calculation job that can be running at once
  CheckTick,     \* ticks of the eligibility job that can be running at once
  Visit,         \* requests for a calculation, a check or a page that can be running
                 \* at once
  BatchSize,     \* BENEFIT_CALCULATIONS_BATCH_SIZE, ELIGIBILITY_CHECK_BATCH_SIZE
  None,          \* SQL NULL
  JobSets,       \* bound: the sets of jobs at work together in one behaviour;
                 \* the jobs write different columns
  Touched,       \* bound: the rows that others than the jobs work on
  MaxEvents,     \* bound: requests, resubmissions, PATCHes, windows passing,
                 \* passing failures, restarts
  MaxBroken      \* bound: applications both jobs always fail on

ASSUME BatchAssumption == BatchSize \in Nat \ {0}
ASSUME JobsAssumption == JobSets \subseteq SUBSET {"calculation", "check"}
ASSUME TouchedAssumption == Touched \subseteq App
ASSUME EventsAssumption == MaxEvents \in Nat /\ MaxBroken \in Nat
ASSUME NoneAssumption == None \notin Nat \union App

\* calculationsProcessedAt and eligibilityCheckedAt: within the last
\* *_LAST_PROCESS_HOURS, or before.
Time == {None, "recent", "old"}

\* A decision with what it was made on: the version of the row's data, and the one
\* that was in the profile sent to the service, None for no data.
Decision == [submission : Nat, profile : Nat \union {None}]
ASSUME DecisionAssumption == None \notin Decision

Row == [data : Nat,                            \* applicationData
        amount : Nat \union {None},            \* calculatedAmount, finalAmount
        processedAt : Time,                    \* calculationsProcessedAt
        eligibility : Decision \union {None},  \* eligibilityStatus, -Result
        checkedAt : Time]                      \* eligibilityCheckedAt

\* A row as the raw query of the check returns it.
RawRow == [app : App, data : [form : {"text", "object"}, version : Nat]]

\* What a request has still to do with a row: the calculation, the check, or as
\* the page view does, the one and then the other; and the data it read for the
\* part it is at, None before.
Part == {"calculation", "check"}
Ask == [app : App, parts : SUBSET Part \ {{}}, seen : Nat \union {None}]
ASSUME AskAssumption == None \notin Ask

VARIABLES
  rows,          \* rows[a]: the columns the jobs read and write
  jobs,          \* the jobs at work
  broken,        \* the applications whose calculation and check always throw
  calcTodo,      \* calcTodo[t]: ids of the batch not yet processed
  calcRow,       \* calcRow[t]: the id tick t is calculating, None between rows
  calcSeen,      \* calcSeen[t]: the data it read of it
  checkTodo,     \* checkTodo[t]: raw rows of the batch not yet processed
  visit,         \* visit[v]: the request v, None if there is none
  events,        \* how many of MaxEvents have happened
  shared,        \* history: rows that a tick had in its batch while another tick of
                 \* its job took them too, or a request or PATCH processed them
  again,         \* history: rows a job processed although they were processed
  crossed,       \* history: rows whose data were replaced between the read and the
                 \* write of a check, a tick's or a request's
  patched        \* history: rows PATCH wrote since their last resubmission

ticks == <<calcTodo, calcRow, calcSeen, checkTodo>>
config == <<jobs, broken>>
vars == <<rows, config, ticks, visit, events, shared, again, crossed, patched>>

Init ==
  /\ rows = [a \in App |-> [data |-> 0, amount |-> None, processedAt |-> None,
                            eligibility |-> None, checkedAt |-> None]]
  /\ jobs \in JobSets
  /\ broken \in {S \in SUBSET App : Cardinality(S) <= MaxBroken}
  /\ calcTodo = [t \in CalcTick |-> {}]
  /\ calcRow = [t \in CalcTick |-> None]
  /\ calcSeen = [t \in CalcTick |-> None]
  /\ checkTodo = [t \in CheckTick |-> {}]
  /\ visit = [v \in Visit |-> None]
  /\ events = 0
  /\ shared = {} /\ again = {} /\ crossed = {} /\ patched = {}

-----------------------------------------------------------------------------

\* LIMIT without ORDER BY: any rows of the selection, BatchSize of them or all.
Batches(selection) ==
  {S \in SUBSET selection :
     Cardinality(S) = IF Cardinality(selection) < BatchSize
                        THEN Cardinality(selection) ELSE BatchSize}

\* The rows a running tick has still to process.
InCalc(t) == calcTodo[t] \union ({calcRow[t]} \ {None})
InCheck(t) == {r.app : r \in checkTodo[t]}

\* A tick of the calculation, or of the check, has the row in its batch.
Held(part, a) ==
  CASE part = "calculation" -> \E t \in CalcTick : a \in InCalc(t)
    [] part = "check" -> \E t \in CheckTick : a \in InCheck(t)

\* The copies of a row's data on which a check, a tick's or a request's, will decide.
PartOf(q) == IF "calculation" \in q.parts THEN "calculation" ELSE "check"
Checking(v) == visit[v] # None /\ visit[v].seen # None /\ PartOf(visit[v]) = "check"
CopyInUse(a) == \/ Held("check", a)
                \/ \E v \in Visit : Checking(v) /\ visit[v].app = a
Crossing(a) == IF CopyInUse(a) THEN crossed \union {a} ELSE crossed

Happens == events < MaxEvents /\ events' = events + 1

-----------------------------------------------------------------------------
(* The calculation job *)

\* Variant with a fault: the selection forgets calculatedAmount IS NULL.
NeedsAmountByTimeOnly(a) == rows[a].processedAt # "recent"

\* "calculatedAmount" IS NULL AND ("calculationsProcessedAt" IS NULL OR ... <= ...)
NeedsAmount(a) == rows[a].amount = None /\ rows[a].processedAt # "recent"

\* The timer fires; an empty batch ends the tick at once and changes nothing.
CalcStart(t) ==
  /\ "calculation" \in jobs
  /\ InCalc(t) = {}
  /\ \E batch \in Batches({a \in App : NeedsAmount(a)}) \ {{}} :
       /\ calcTodo' = [calcTodo EXCEPT ![t] = batch]
       /\ shared' = shared \union UNION {InCalc(u) \intersect batch : u \in CalcTick \ {t}}
  /\ UNCHANGED <<rows, config, calcRow, calcSeen, checkTodo, visit, events, again, crossed, patched>>

\* findUnique of calculateBenefit, through the decrypting middleware.
CalcRead(t) ==
  /\ calcRow[t] = None
  /\ \E a \in calcTodo[t] :
       /\ calcRow' = [calcRow EXCEPT ![t] = a]
       /\ calcSeen' = [calcSeen EXCEPT ![t] = rows[a].data]
       /\ calcTodo' = [calcTodo EXCEPT ![t] = @ \ {a}]
  /\ UNCHANGED <<rows, config, checkTodo, visit, events, shared, again, crossed, patched>>

\* The update of calculateBenefit.
CalcWrite(t) ==
  LET a == calcRow[t] IN
  /\ a # None /\ a \notin broken
  /\ rows' = [rows EXCEPT ![a].amount = calcSeen[t], ![a].processedAt = "recent"]
  /\ again' = IF rows[a].amount # None THEN again \union {a} ELSE again
  /\ calcRow' = [calcRow EXCEPT ![t] = None]
  /\ calcSeen' = [calcSeen EXCEPT ![t] = None]
  /\ UNCHANGED <<config, calcTodo, checkTodo, visit, events, shared, crossed, patched>>

\* Variant with a fault: a row that throws ends the whole tick.
CalcSkipEndsTick(t) ==
  /\ calcRow[t] # None
  /\ \/ calcRow[t] \in broken /\ UNCHANGED events
     \/ calcRow[t] \notin broken /\ Happens
  /\ calcTodo' = [calcTodo EXCEPT ![t] = {}]
  /\ calcRow' = [calcRow EXCEPT ![t] = None]
  /\ calcSeen' = [calcSeen EXCEPT ![t] = None]
  /\ UNCHANGED <<rows, config, checkTodo, visit, shared, again, crossed, patched>>

\* The calculation of the row throws, always or this time: the catch block goes
\* on with the next row and leaves no trace in this one.
CalcSkip(t) ==
  /\ calcRow[t] # None
  /\ \/ calcRow[t] \in broken /\ UNCHANGED events
     \/ calcRow[t] \notin broken /\ Happens
  /\ calcRow' = [calcRow EXCEPT ![t] = None]
  /\ calcSeen' = [calcSeen EXCEPT ![t] = None]
  /\ UNCHANGED <<rows, config, calcTodo, checkTodo, visit, shared, again, crossed, patched>>

-----------------------------------------------------------------------------
(* The eligibility job *)

\* "eligibilityStatus" NOT IN ('eligible', 'ineligible') AND "eligibilityResult" IS
\* NULL AND ("eligibilityCheckedAt" IS NULL OR ... <= ...); status and result are
\* written and reset together.
NeedsCheck(a) == rows[a].eligibility = None /\ rows[a].checkedAt # "recent"

\* SELECT * by $queryRaw: no middleware decrypts applicationData, so it is a text.
Raw(a) == [app |-> a, data |-> [form |-> "text", version |-> rows[a].data]]

CheckStart(t) ==
  /\ "check" \in jobs
  /\ checkTodo[t] = {}
  /\ \E batch \in Batches({a \in App : NeedsCheck(a)}) \ {{}} :
       /\ checkTodo' = [checkTodo EXCEPT ![t] = {Raw(a) : a \in batch}]
       /\ shared' = shared \union UNION {InCheck(u) \intersect batch : u \in CheckTick \ {t}}
  /\ UNCHANGED <<rows, config, calcTodo, calcRow, calcSeen, visit, events, again, crossed, patched>>

\* formatEligibility: the data of a row is spread into the profile if it is an
\* object.
Profile(r) == IF r.data.form = "object" THEN r.data.version ELSE None

\* Benefit, profile, service and update of one row, all from the raw row.
CheckWrite(t) ==
  /\ \E r \in checkTodo[t] :
       LET a == r.app IN
       /\ a \notin broken
       /\ rows' = [rows EXCEPT
            ![a].eligibility = [submission |-> r.data.version, profile |-> Profile(r)],
            ![a].checkedAt = "recent"]
       /\ again' = IF rows[a].eligibility # None THEN again \union {a} ELSE again
       /\ checkTodo' = [checkTodo EXCEPT ![t] = @ \ {r}]
  /\ UNCHANGED <<config, calcTodo, calcRow, calcSeen, visit, events, shared, crossed, patched>>

\* The benefit is missing or something throws: on to the next row.
CheckSkip(t) ==
  /\ \E r \in checkTodo[t] :
       /\ \/ r.app \in broken /\ UNCHANGED events
          \/ r.app \notin broken /\ Happens
       /\ checkTodo' = [checkTodo EXCEPT ![t] = @ \ {r}]
  /\ UNCHANGED <<rows, config, calcTodo, calcRow, calcSeen, visit, shared, again, crossed, patched>>

-----------------------------------------------------------------------------
(* GET calculate-benefit/:id, GET check-eligibility/:id and the page view *)

\* findUnique of calculateBenefit or of checkEligibility, decrypted.
Arrive(v) ==
  /\ visit[v] = None
  /\ Happens
  /\ \E a \in Touched, parts \in SUBSET Part \ {{}} :
       visit' = [visit EXCEPT ![v] = [app |-> a, parts |-> parts, seen |-> rows[a].data]]
  /\ UNCHANGED <<rows, config, ticks, shared, again, crossed, patched>>

\* The findUnique of checkEligibility in the page view.
Look(v) ==
  LET q == visit[v] IN
  /\ q # None /\ q.seen = None
  /\ visit' = [visit EXCEPT ![v].seen = rows[q.app].data]
  /\ UNCHANGED <<rows, config, ticks, events, shared, again, crossed, patched>>

\* The page view goes on to the check; after its last part a request is over.
After(q) ==
  LET rest == q.parts \ {PartOf(q)} IN
  IF rest = {} THEN None ELSE [q EXCEPT !.parts = rest, !.seen = None]

\* The update of calculateBenefit or checkEligibility.
Store(v) ==
  LET q == visit[v]
      a == q.app
      calculates == PartOf(q) = "calculation" IN
  /\ q # None /\ q.seen # None /\ a \notin broken
  /\ rows' = [rows EXCEPT ![a] =
       IF calculates
         THEN [@ EXCEPT !.amount = q.seen, !.processedAt = "recent"]
         ELSE [@ EXCEPT !.eligibility = [submission |-> q.seen, profile |-> q.seen],
                        !.checkedAt = "recent"]]
  /\ shared' = IF Held(PartOf(q), a) THEN shared \union {a} ELSE shared
  /\ visit' = [visit EXCEPT ![v] = After(q)]
  /\ UNCHANGED <<config, ticks, events, again, crossed, patched>>

\* The part throws and writes nothing; the page view goes on with the next one.
Fail(v) ==
  /\ visit[v] # None /\ visit[v].seen # None
  /\ visit' = [visit EXCEPT ![v] = After(@)]
  /\ UNCHANGED <<rows, config, ticks, events, shared, again, crossed, patched>>

-----------------------------------------------------------------------------
(* What happens around the jobs *)

\* Variants with a fault: one of the columns is not reset.
ResubmittedKeepingTimes(row) ==
  [row EXCEPT !.data = @ + 1, !.amount = None, !.eligibility = None]
ResubmittedKeepingDecision(row) ==
  [row EXCEPT !.data = @ + 1, !.amount = None,
              !.processedAt = None]

\* The columns updateApplication resets with new data.
Resubmitted(row) ==
  [row EXCEPT !.data = @ + 1, !.amount = None,
              !.processedAt = None, !.eligibility = None, !.checkedAt = None]

Resubmit(a) ==
  /\ Happens
  /\ rows' = [rows EXCEPT ![a] = Resubmitted(@)]
  /\ crossed' = Crossing(a)
  /\ patched' = patched \ {a}
  /\ UNCHANGED <<config, ticks, visit, shared, again>>

\* What a PATCH can make of a row: other data, an amount and a decision by hand, or
\* times; one of more columns is as several.  It cannot empty an amount or a
\* decision, because Prisma takes no plain null for a JSON column.
PatchedRows(row) ==
  {[row EXCEPT !.data = @ + 1],
   [row EXCEPT !.amount = row.data,
               !.eligibility = [submission |-> row.data, profile |-> row.data]],
   [row EXCEPT !.processedAt = "recent", !.checkedAt = "recent"]} \ {row}

Patch(a) ==
  /\ Happens
  /\ \E new \in PatchedRows(rows[a]) :
       /\ rows' = [rows EXCEPT ![a] = new]
       /\ crossed' = IF new.data # rows[a].data THEN Crossing(a) ELSE crossed
       /\ shared' = IF \/ new.amount # rows[a].amount /\ Held("calculation", a)
                       \/ new.eligibility # rows[a].eligibility /\ Held("check", a)
                      THEN shared \union {a} ELSE shared
  /\ patched' = patched \union {a}
  /\ UNCHANGED <<config, ticks, visit, again>>

\* *_LAST_PROCESS_HOURS pass since the last calculation and check of a row.
Elapse(a) ==
  /\ Happens
  /\ rows' = [rows EXCEPT ![a].processedAt = IF @ = None THEN None ELSE "old",
                          ![a].checkedAt = IF @ = None THEN None ELSE "old"]
  /\ UNCHANGED <<config, ticks, visit, shared, again, crossed, patched>>

\* The process dies and is started again: running ticks and requests are gone.
Restart ==
  /\ Happens
  /\ calcTodo' = [t \in CalcTick |-> {}]
  /\ calcRow' = [t \in CalcTick |-> None]
  /\ calcSeen' = [t \in CalcTick |-> None]
  /\ checkTodo' = [t \in CheckTick |-> {}]
  /\ visit' = [v \in Visit |-> None]
  /\ UNCHANGED <<rows, config, shared, again, crossed, patched>>

CalcStep(t) == CalcRead(t) \/ CalcWrite(t) \/ CalcSkip(t)
CheckStep(t) == CheckWrite(t) \/ CheckSkip(t)

Next ==
  \/ \E t \in CalcTick : CalcStart(t) \/ CalcStep(t)
  \/ \E t \in CheckTick : CheckStart(t) \/ CheckStep(t)
  \/ \E v \in Visit : Arrive(v) \/ Look(v) \/ Store(v) \/ Fail(v)
  \/ \E a \in Touched : Resubmit(a) \/ Patch(a) \/ Elapse(a)
  \/ Restart

Spec == Init /\ [][Next]_vars

\* The timers keep firing and the awaits of a tick settle.
FairSpec ==
  /\ Spec
  /\ \A t \in CalcTick : WF_vars(CalcStart(t) \/ CalcStep(t))
  /\ \A t \in CheckTick : WF_vars(CheckStart(t) \/ CheckStep(t))

-----------------------------------------------------------------------------

TypeOK ==
  /\ rows \in [App -> Row]
  /\ jobs \in JobSets
  /\ broken \subseteq App
  /\ calcTodo \in [CalcTick -> SUBSET App]
  /\ calcRow \in [CalcTick -> App \union {None}]
  /\ calcSeen \in [CalcTick -> Nat \union {None}]
  /\ checkTodo \in [CheckTick -> SUBSET RawRow]
  /\ visit \in [Visit -> Ask \union {None}]
  /\ events \in 0..MaxEvents
  /\ shared \subseteq App /\ again \subseteq App
  /\ crossed \subseteq App /\ patched \subseteq App

\* The time windows of the two selections never hold back a row that is still
\* without an amount or a decision: whoever takes the one away takes the time
\* with it.  Only PATCH can write a time alone.
WindowHoldsNothingBack ==
  \A a \in App \ patched :
    /\ rows[a].amount = None => rows[a].processedAt = None
    /\ rows[a].eligibility = None => rows[a].checkedAt = None

\* A job works again on a row that is already calculated or decided only if, while
\* a tick had the row in its batch, another tick took it too, or a request or a
\* PATCH gave it its amount or decision.
AgainOnlyByOverlap == again \subseteq shared

\* A stored decision belongs to replaced data only if the data were replaced while
\* a check, of a tick or a request, was between its read of the row and its write,
\* or if PATCH wrote the row since its last resubmission.
DecisionStaleOnlyByOverlap ==
  \A a \in App \ (crossed \union patched) :
    rows[a].eligibility = None \/ rows[a].eligibility.submission = rows[a].data

\* A decision is made on the applicant's data: "Prepare application profile for
\* eligibility check".
DecidedOnApplicantData ==
  \A a \in App : rows[a].eligibility = None \/ rows[a].eligibility.profile # None

-----------------------------------------------------------------------------
(* The inductive invariant: what a tick may believe of the rows it holds. *)

\* A tick holds a row once.
HeldOnce ==
  /\ \A t \in CalcTick : calcRow[t] \notin calcTodo[t]
  /\ \A t \in CheckTick : \A r, s \in checkTodo[t] : r.app = s.app => r = s

\* Rows that two ticks of a job hold are shared.
HeldByTwo ==
  /\ \A t, u \in CalcTick : t # u => InCalc(t) \intersect InCalc(u) \subseteq shared
  /\ \A t, u \in CheckTick : t # u => InCheck(t) \intersect InCheck(u) \subseteq shared

\* A row that was processed while a tick holds it is shared.
HeldProcessed ==
  /\ \A t \in CalcTick : \A a \in InCalc(t) : rows[a].amount # None => a \in shared
  /\ \A t \in CheckTick : \A r \in checkTodo[t] :
       rows[r.app].eligibility # None => r.app \in shared

\* The copy a check holds is current or was crossed.
HeldCopy ==
  /\ \A t \in CalcTick : calcRow[t] # None => calcSeen[t] # None
  /\ \A t \in CheckTick : \A r \in checkTodo[t] :
       r.data.version = rows[r.app].data \/ r.app \in crossed
  /\ \A v \in Visit : Checking(v) =>
       visit[v].seen = rows[visit[v].app].data \/ visit[v].app \in crossed

CronsInv ==
  /\ TypeOK
  /\ WindowHoldsNothingBack
  /\ HeldOnce /\ HeldByTwo /\ HeldProcessed /\ AgainOnlyByOverlap
  /\ HeldCopy /\ DecisionStaleOnlyByOverlap

-----------------------------------------------------------------------------

\* While fewer applications always fail than fit into a batch, the jobs come to
\* a point where every other application has an amount and a decision, again
\* after each resubmission; overlapping ticks, requests, passing failures and
\* restarts included.  With a batch full of failing ones the selection, which has
\* no order, may return the same rows for ever; a row PATCH gave a time may wait
\* for its window.
RoomInBatch == Cardinality(broken) < BatchSize
Processed(a) ==
  /\ "calculation" \in jobs => rows[a].amount # None
  /\ "check" \in jobs => rows[a].eligibility # None
WorkableRowsAreProcessed ==
  RoomInBatch => []<>(\A a \in App \ (broken \union patched) : Processed(a))
=============================================================================
