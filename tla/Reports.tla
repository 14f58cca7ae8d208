------------------------------- MODULE Reports -------------------------------
(***************************************************************************)
(* What officers read of the applications, and the figures in it:          *)
(*                                                                         *)
(*   list    POST /applications/list, findAll: one page, read by a client  *)
(*           that asks for the next until the total is reached             *)
(*   cards   POST /benefits, getBenefits: the number of applications of    *)
(*           each published benefit, one statement per benefit             *)
(*   export  the CSV files of exportApplicationsCsv and                    *)
(*           exportEligibilityDetailsCsv, one statement each and so a      *)
(*           function of the table: operator Export                        *)
(*                                                                         *)
(* A list or a set of cards takes several statements, and the handlers     *)
(* that write rows run between them.  A handler is one step here, and what *)
(* its own interleavings do is in Intake and Lifecycle; except that a      *)
(* calculation reads the row it writes before Strapi answers with the      *)
(* rules, so that the row may be another by the time it is written.        *)
(*                                                                         *)
(* Readers write nothing, so one reader beside the writers is enough.      *)
(***************************************************************************)
EXTENDS Integers, Sequences, FiniteSets, FiniteSetsExt, CalculationRules

CONSTANTS
  Benefit,       \* documentId of the benefits
  Published,     \* those whose status in Strapi is 'published'
  None,          \* SQL NULL
  Blank,         \* an empty cell
  Profiles,      \* bound: the applicant data of this instance
  RuleSets,      \* bound: the rules a benefit gets in this instance
  Targets,       \* bound: the statuses that officers set
  PatchedAmounts, \* bound: the calculatedAmount of a PATCH
  PatchedTotals, \* bound: the finalAmount of a PATCH
  Filters,       \* bound: the lists of statuses asked for, {} for none
  Limit,         \* bound: rows per page
  Stored,        \* the applicant data of the rows in the table at first
  MaxRows,       \* bound: rows in the table
  MaxWrites,     \* bound: steps of handlers that write
  MaxBefore,     \* bound: those of them before a list or cards are asked for
  MaxCalculations, \* bound: calculations that have read and not written
  AllWrites,     \* bound: whether writes are made that show a reader nothing new
  Clock          \* bound: the last instant

ASSUME ReportsAssumption ==
  /\ Published \subseteq Benefit
  /\ Limit \in Nat \ {0}
  /\ Stored \in Seq(Profiles) /\ Len(Stored) <= MaxRows
  /\ MaxRows \in Nat /\ MaxWrites \in Nat /\ MaxBefore \in Nat /\ MaxCalculations \in Nat
  /\ AllWrites \in BOOLEAN
  /\ Clock \in Nat /\ Len(Stored) <= Clock

\* NULL and the empty cell are no numbers and NULL is no object; data has finitely many
\* fields, a benefit a list of rules, and the amounts of rules are whole numbers.  A
\* PATCH writes any object with finitely many fields, and any total.
ASSUME AmountsAssumption ==
  /\ None \notin RuleSets /\ None \notin Int /\ Blank \notin Int
  /\ \A data \in Profiles : IsFiniteSet(DOMAIN data)
  /\ \A amounts \in PatchedAmounts : amounts # None /\ IsFiniteSet(DOMAIN amounts)
  /\ \A s \in RuleSets :
       /\ Len(s) \in Nat /\ DOMAIN s = 1..Len(s)
       /\ \A data \in Profiles :
            /\ \A i \in DOMAIN s : RuleAmount(s[i], data) \in Int
            /\ doBenefitCalculations(s, data) # None

Verdict == {"eligible", "ineligible", "errors"}

VARIABLES
  rows,          \* rows[r]: row r of Applications
  updatedAt,     \* updatedAt[r]: when row r was last written
  rules,         \* benefitCalculationRules of the benefits, in Strapi
  calculating,   \* calculations between their reads and their write
  writes,        \* the number of writes so far
  pc,            \* the step the reader takes next
  ask,           \* what it asked for
  offset,        \* list: the rows to skip
  total,         \* list: the rows counted for this page
  listed,        \* list: the rows on the pages so far
  cards,         \* cards: the rows counted for each benefit
  file,          \* export: the file
  since          \* history of the reader: what happened since it started

vars == <<rows, updatedAt, rules, calculating, writes,
          pc, ask, offset, total, listed, cards, file, since>>
tableVars == <<rows, updatedAt, rules, calculating, writes>>
readerVars == <<pc, ask, offset, total, listed, cards, file>>

Ids == DOMAIN rows

Request ==
  [benefit : Benefit, filter : Filters,
   orderBy : {"updatedAt", "id"},        \* createdAt orders as id does
   direction : {"asc", "desc"}]

\* Rows that are there at the start; for a list, those written since, whether one left
\* it, and whether one joined it after it was counted; for cards, with each row the
\* benefits that it has been of.
Quiet == [rows |-> {}, written |-> {}, left |-> FALSE, late |-> FALSE, had |-> {}]

\* What create writes.  by, of and patched are history: the rules that were applied, the
\* data they were applied to, and which of the amounts are those of a PATCH.
NewRow(b, data) ==
  [benefit |-> b, status |-> "initiated", data |-> data, calculated |-> None,
   by |-> None, of |-> None, final |-> None, result |-> None, patched |-> {}]

\* Variant with a fault: a total that is there stays.
CalculatedKeepingFinal(row, applied, data) ==
  LET amounts == doBenefitCalculations(applied, data)
  IN [row EXCEPT !.calculated = amounts, !.by = applied, !.of = data,
                 !.final = IF @ = None THEN amounts[TotalPayout] ELSE @, !.patched = {}]

\* What calculateBenefit writes into a row, having applied these rules to this data.
Calculated(row, applied, data) ==
  LET amounts == doBenefitCalculations(applied, data)
  IN [row EXCEPT !.calculated = amounts, !.by = applied, !.of = data,
                 !.final = amounts[TotalPayout], !.patched = {}]

\* Some applications for one published benefit, either not calculated yet or all of them
\* calculated with rules that may have been edited since.
Init ==
  /\ \E b \in Published :
       LET row(r) == NewRow(b, Stored[r])
       IN \/ rows = [r \in DOMAIN Stored |-> row(r)]
          \/ \E s \in RuleSets : rows = [r \in DOMAIN Stored |-> Calculated(row(r), s, Stored[r])]
  /\ \E s \in RuleSets : rules = [b \in Benefit |-> s]
  /\ updatedAt = [r \in DOMAIN Stored |-> r]
  /\ calculating = {}
  /\ writes = 0
  /\ pc = "idle"
  /\ ask = None
  /\ offset = 0
  /\ total = 0
  /\ listed = {}
  /\ cards = [b \in Benefit |-> {}]
  /\ file = None
  /\ since = Quiet

-----------------------------------------------------------------------------
(* The writers. *)

\* The where clause of findAll and fetchApplications.
Selected(table, benefit, filter) ==
  {r \in DOMAIN table : /\ table[r].benefit = benefit
                        /\ filter = {} \/ table[r].status \in filter}

Reading == pc \in {"count", "page", "cards"}

\* Bound: what happens after the one reader has ended is not looked at.
MayWrite == writes < MaxWrites /\ pc \notin {"done", "failed"}

\* To a list and to cards, a write of a column that they do not show is as a PATCH of
\* status that leaves the status as it is: both only renew updatedAt.
MayWriteUnshown == AllWrites \/ ~Reading

\* Of updatedAt a file shows only the order of its lines.
MayWriteAt(now) == AllWrites \/ Reading \/ now = Clock

OnList(table) == IF pc \in {"count", "page"}
                 THEN Selected(table, ask.benefit, ask.filter) ELSE {}

\* Row r is written and with that updated now, by a clock that may not have advanced
\* since the last write.
Write(r, row) ==
  /\ MayWrite
  /\ r \in Ids /\ ~MayWriteUnshown =>
       row = [rows[r] EXCEPT !.benefit = row.benefit, !.status = row.status]
  /\ writes' = writes + 1
  /\ rows' = [s \in Ids \union {r} |-> IF s = r THEN row ELSE rows[s]]
  /\ \E now \in 1..Clock :
       /\ MayWriteAt(now)
       /\ \A s \in Ids : updatedAt[s] <= now
       /\ updatedAt' = [s \in Ids \union {r} |-> IF s = r THEN now ELSE updatedAt[s]]
  /\ since' = [since EXCEPT
       !.written = IF pc \in {"count", "page"} THEN @ \union {r} ELSE @,
       !.left = @ \/ r \in OnList(rows) \ OnList(rows'),
       !.late = @ \/ (pc = "page" /\ r \in OnList(rows') \ OnList(rows)),
       !.had = IF pc = "cards" THEN @ \union {<<r, row.benefit>>} ELSE @]
  /\ UNCHANGED readerVars

Insert ==
  /\ Cardinality(Ids) < MaxRows
  /\ \E b \in Benefit, data \in Profiles : Write(Cardinality(Ids) + 1, NewRow(b, data))
  /\ UNCHANGED <<rules, calculating>>

\* updateStatus.
SetStatus(r) ==
  /\ \E s \in Targets : Write(r, [rows[r] EXCEPT !.status = s])
  /\ UNCHANGED <<rules, calculating>>

\* updateApplication; finalAmount is not reset.
Resubmitted(r, data) ==
  [rows[r] EXCEPT !.status = "pending", !.data = data, !.calculated = None,
                  !.by = None, !.of = None, !.result = None, !.patched = @ \ {"calculated"}]

Resubmit(r) ==
  /\ \E data \in Profiles : Write(r, Resubmitted(r, data))
  /\ UNCHANGED <<rules, calculating>>

\* Row r with one column replaced: a body of several is several of these and nothing
\* between them.
PatchedRows(r) ==
  LET row == rows[r]
  IN {[row EXCEPT !.benefit = b] : b \in Benefit}
       \union {[row EXCEPT !.status = s] : s \in Targets}
       \union {[row EXCEPT !.data = data] : data \in Profiles}
       \union {[row EXCEPT !.result = v] : v \in Verdict}
       \union {[row EXCEPT !.calculated = amounts, !.by = None, !.of = None,
                           !.patched = @ \union {"calculated"}] : amounts \in PatchedAmounts}
       \union {[row EXCEPT !.final = t, !.patched = @ \union {"final"}] : t \in PatchedTotals}

\* PATCH /applications/:id: whatever columns the body has are written, and nothing else.
Patch(r) ==
  /\ \E row \in PatchedRows(r) : Write(r, row)
  /\ UNCHANGED <<rules, calculating>>

\* calculateBenefit, which a cron and findOne call too, so that to view an application is
\* to write it: it reads the row and then its benefit.  An edit of the rules between the
\* two is as one before both.
CalcRead(r) ==
  /\ MayWrite /\ MayWriteUnshown
  /\ Cardinality(calculating) < MaxCalculations
  /\ calculating' = calculating \union
       {[row |-> r, data |-> rows[r].data, rules |-> rules[rows[r].benefit]]}
  /\ UNCHANGED <<rows, updatedAt, rules, writes, readerVars, since>>

\* The update of a calculation.  One that fails is one that is never written.
CalcWrite(x) ==
  /\ Write(x.row, Calculated(rows[x.row], x.rules, x.data))
  /\ calculating' = calculating \ {x}
  /\ UNCHANGED rules

\* checkEligibility, by the list that has the user in the service's answer.
CheckEligibility(r) ==
  /\ \E v \in Verdict : Write(r, [rows[r] EXCEPT !.result = v])
  /\ UNCHANGED <<rules, calculating>>

\* The rules of a benefit are edited in Strapi.
EditRules ==
  /\ MayWrite /\ MayWriteUnshown
  /\ writes' = writes + 1
  /\ \E b \in Benefit, s \in RuleSets : rules' = [rules EXCEPT ![b] = s]
  /\ UNCHANGED <<rows, updatedAt, calculating, readerVars, since>>

Writer == \/ Insert
          \/ EditRules
          \/ \E r \in Ids : \/ SetStatus(r)
                            \/ Resubmit(r)
                            \/ Patch(r)
                            \/ CalcRead(r)
                            \/ CheckEligibility(r)
          \/ \E x \in calculating : CalcWrite(x)

-----------------------------------------------------------------------------
(* Lists. *)

StartList ==
  /\ pc = "idle" /\ writes <= MaxBefore
  /\ ask' \in Request
  /\ pc' = "count"
  /\ since' = [Quiet EXCEPT !.rows = Selected(rows, ask'.benefit, ask'.filter)]
  /\ UNCHANGED <<tableVars, offset, total, listed, cards, file>>

\* applications.count.
Count ==
  /\ pc = "count"
  /\ total' = Cardinality(Selected(rows, ask.benefit, ask.filter))
  /\ pc' = "page"
  /\ since' = [since EXCEPT !.late = FALSE]
  /\ UNCHANGED <<tableVars, ask, offset, listed, cards, file>>

\* Variant with a fault: the direction applies to the tie-breaker only.
PrecedesAscending(order, s, r) ==
  \/ order.orderBy = "updatedAt" /\ updatedAt[s] < updatedAt[r]
  \/ /\ order.orderBy = "updatedAt" => updatedAt[s] = updatedAt[r]
     /\ IF order.direction = "desc" THEN s > r ELSE s < r

\* The order of findAll: by the field asked for, then by id in the same direction.
Precedes(order, s, r) ==
  LET First(x, y) == IF order.direction = "desc" THEN x > y ELSE x < y
  IN \/ order.orderBy = "updatedAt" /\ First(updatedAt[s], updatedAt[r])
     \/ /\ order.orderBy = "updatedAt" => updatedAt[s] = updatedAt[r]
        /\ First(s, r)

\* The place of row r among these.
Rank(order, ids, r) == Cardinality({s \in ids : s = r \/ Precedes(order, s, r)})

\* applications.findMany.  The client asks for the next page unless this one
\* reaches the total that came with it.
Page ==
  LET ids == Selected(rows, ask.benefit, ask.filter)
      upTo == offset + Limit
  IN /\ pc = "page"
     /\ listed' = listed \union {r \in ids : Rank(ask, ids, r) \in (offset + 1)..upTo}
     /\ IF upTo < total THEN pc' = "count" /\ offset' = upTo
                        ELSE pc' = "done" /\ offset' = offset
     /\ UNCHANGED <<tableVars, ask, total, cards, file, since>>

-----------------------------------------------------------------------------
(* Cards. *)

\* Strapi has listed the benefits; those not published are filtered out.
StartCards ==
  /\ pc = "idle" /\ writes <= MaxBefore
  /\ pc' = "cards"
  /\ ask' = [uncounted |-> Published]
  /\ since' = [Quiet EXCEPT !.rows = Ids, !.had = {<<r, rows[r].benefit>> : r \in Ids}]
  /\ UNCHANGED <<tableVars, offset, total, listed, cards, file>>

\* Variant with a fault: the applications an officer is done with are left out.
CountedOpen(b) == {r \in Ids : rows[r].benefit = b /\ rows[r].status # "approved"}

\* The applications_count of a card, as the rows counted; the other figures of
\* the card are of those among them that have a certain status.
Counted(b) == {r \in Ids : rows[r].benefit = b}

\* applications.findMany of one benefit; Promise.all orders nothing.
CountCard(b) ==
  /\ pc = "cards"
  /\ b \in ask.uncounted
  /\ cards' = [cards EXCEPT ![b] = Counted(b)]
  /\ ask' = [uncounted |-> ask.uncounted \ {b}]
  /\ pc' = IF ask.uncounted = {b} THEN "done" ELSE "cards"
  /\ UNCHANGED <<tableVars, offset, total, listed, file, since>>

-----------------------------------------------------------------------------
(* Exports. *)

Wildcard == <<"*">>

\* Three of reportsConfig.json, with the fields that occur in the profiles.
Report ==
  [allApplicationDataFields |->
     [eligibility |-> FALSE, data |-> Wildcard, amounts |-> Wildcard],
   benefit_amounts |->
     [eligibility |-> FALSE, data |-> <<"otr", "grade">>, amounts |-> Wildcard],
   eligibility |->
     [eligibility |-> TRUE, data |-> <<"otr", "grade">>, amounts |-> <<>>]]

\* The sequence without these elements.
Without(fields, excluded) ==
  LET kept == {i \in DOMAIN fields : fields[i] \notin excluded}
      Nth(n) == CHOOSE i \in kept : Cardinality({j \in kept : j <= i}) = n
  IN [n \in 1..Cardinality(kept) |-> fields[Nth(n)]]

\* Variant with a fault: the keys of the application updated last are those of all.
FieldsOfTheFirst(sources, fields, excluded) ==
  LET first == {r \in DOMAIN sources : \A s \in DOMAIN sources : updatedAt[s] <= updatedAt[r]}
  IN IF fields # Wildcard THEN Without(fields, excluded)
     ELSE SetToSeq((UNION {DOMAIN sources[r] : r \in first}) \ excluded)

\* The keys of all applications for '*', in some fixed order.
resolveDynamicFields(sources, fields, excluded) ==
  IF fields # Wildcard THEN Without(fields, excluded)
  ELSE SetToSeq((UNION {DOMAIN sources[r] : r \in DOMAIN sources}) \ excluded)

AmountsOf(app) == IF app.calculated = None THEN <<>> ELSE app.calculated

Cell(source, f) == IF f \in DOMAIN source THEN source[f] ELSE Blank

\* A column named otr shows nspOtr, one named aadhaar its last digits.
DataCell(app, f) ==
  CASE f = "otr" -> Cell(app.data, "nspOtr")
    [] f = "aadhaar" -> IF f \in DOMAIN app.data THEN [lastDigits |-> app.data[f]] ELSE Blank
    [] OTHER -> Cell(app.data, f)

TableFields == <<"applicationId", "status", "amount">>
EligibilityFields == <<"eligibleUsers", "ineligibleUsers", "errors">>

TableCell(r, f) ==
  CASE f = "applicationId" -> r
    [] f = "status" -> rows[r].status
    [] f = "amount" -> IF rows[r].final = None THEN Blank ELSE rows[r].final

EligibilityCell(app, f) ==
  IF (app.result = "eligible" /\ f = "eligibleUsers")
       \/ (app.result = "ineligible" /\ f = "ineligibleUsers")
       \/ (app.result = "errors" /\ f = "errors")
  THEN "Yes" ELSE "No"

\* fetchApplications and fetchApplicationsEligibilityResults: eligibilityStatus
\* is 'pending' until there is a result.
Fetched(report, benefit, filter) ==
  IF report.eligibility
  THEN {r \in Selected(rows, benefit, {}) : rows[r].result # None}
  ELSE Selected(rows, benefit, filter)

\* The order of a file.  It has no tie-breaker; which of two rows with one updatedAt
\* comes first is all the same to what the properties say of lines.
NewestFirst == [orderBy |-> "updatedAt", direction |-> "desc"]

Group(name, fields) == [i \in DOMAIN fields |-> <<name, fields[i]>>]

\* slice is no function of a number: the whole export fails.
ExportFails(ids, fields) ==
  /\ \E r \in ids : "aadhaar" \in DOMAIN rows[r].data /\ IsNumber(rows[r].data["aadhaar"])
  /\ Contains(fields, "aadhaar")

DataColumns(report, ids) ==
  resolveDynamicFields([r \in ids |-> rows[r].data], report.data, {})

AmountColumns(report, ids) ==
  resolveDynamicFields([r \in ids |-> AmountsOf(rows[r])], report.amounts, {TotalPayout})

DecisionColumns(report) == IF report.eligibility THEN EligibilityFields ELSE <<>>

\* The columns, named with the part they are in.
Header(report, ids) ==
  <<<<"auto", "serialNumber">>>>
    \o Group("data", DataColumns(report, ids))
    \o Group("amounts", AmountColumns(report, ids))
    \o Group("table", TableFields)
    \o Group("eligibility", DecisionColumns(report))

\* The line of row r, part by part.
Line(report, ids, r) ==
  LET data == DataColumns(report, ids)
      amounts == AmountColumns(report, ids)
      decision == DecisionColumns(report)
  IN <<Rank(NewestFirst, ids, r)>>
       \o [k \in DOMAIN data |-> DataCell(rows[r], data[k])]
       \o [k \in DOMAIN amounts |-> Cell(AmountsOf(rows[r]), amounts[k])]
       \o [k \in DOMAIN TableFields |-> TableCell(r, TableFields[k])]
       \o [k \in DOMAIN decision |-> EligibilityCell(rows[r], decision[k])]

\* A file as its header and the line of each application; the serial numbers tell
\* their order.
Export(report, benefit, filter) ==
  LET ids == Fetched(report, benefit, filter)
  IN IF ExportFails(ids, DataColumns(report, ids)) THEN [header |-> <<>>, lines |-> <<>>]
     ELSE [header |-> Header(report, ids), lines |-> [r \in ids |-> Line(report, ids, r)]]

\* One findMany, then the file.
ExportFile ==
  /\ pc = "idle"
  /\ \E name \in DOMAIN Report, b \in Benefit, filter \in Filters :
       /\ file' = Export(Report[name], b, filter)
       /\ ask' = [report |-> name]
  /\ pc' = "done"
  /\ UNCHANGED <<tableVars, offset, total, listed, cards, since>>

\* A statement, Strapi or the process fails.
ReaderFails ==
  /\ Reading
  /\ pc' = "failed"
  /\ UNCHANGED <<tableVars, ask, offset, total, listed, cards, file, since>>

Reader == \/ StartList
          \/ Count
          \/ Page
          \/ StartCards
          \/ \E b \in Benefit : CountCard(b)
          \/ ExportFile
          \/ ReaderFails

Next == Writer \/ Reader

Spec == Init /\ [][Next]_vars

-----------------------------------------------------------------------------

\* A row; what amounts are in it, AmountState says.
IsRow(row) ==
  row \in [benefit : Benefit, status : {"initiated", "pending"} \union Targets, data : Profiles,
          calculated : {row.calculated}, by : {None} \union RuleSets,
          of : {None} \union Profiles,
          final : {None} \union Int \union PatchedTotals, result : {None} \union Verdict,
          patched : SUBSET {"calculated", "final"}]

TypeOK ==
  /\ Cardinality(Ids) \in 0..MaxRows /\ Ids = 1..Cardinality(Ids)
  /\ rows = [r \in Ids |-> rows[r]]
  /\ \A r \in Ids :
       /\ IsRow(rows[r])
       /\ rows[r].calculated # None => IsFiniteSet(DOMAIN rows[r].calculated)
  /\ updatedAt \in [Ids -> 0..Clock]
  /\ rules \in [Benefit -> RuleSets]
  /\ calculating \subseteq [row : Ids, data : Profiles, rules : RuleSets]
  /\ writes \in 0..MaxWrites
  /\ pc \in {"idle", "count", "page", "cards", "done", "failed"}
  /\ offset \in Nat /\ total \in 0..MaxRows
  /\ listed \subseteq Ids
  /\ cards \in [Benefit -> SUBSET Ids]

\* Whether the writes since the reader started can have brought row r before the
\* page that the reader was at: one that reorders the list and, where the
\* updated rows come last, any.
MayHavePassed(r) ==
  ask.orderBy = "updatedAt" /\ (IF ask.direction = "asc" THEN since.written # {}
                                ELSE r \in since.written)

\* A list read page by page has every row that was on it from the first page to
\* the last, although rows are inserted and updated between the statements;
\* except when the list is by updatedAt and the row itself was written (in
\* ascending order, any was), a row left the list, or one joined it between the
\* count and the page that seemed to be the last.
UntouchedRowIsListed ==
  pc = "done" /\ "orderBy" \in DOMAIN ask /\ ~since.left /\ ~since.late =>
    \A r \in since.rows : r \in listed \/ MayHavePassed(r)

\* The benefits that row r has been of since the cards were asked for.
Had(r) == {b \in Benefit : <<r, b>> \in since.had}

\* The cards are counted one after the other while applications are inserted and moved
\* to other benefits.  No application is on the card of a benefit that it has not been of
\* meanwhile; and one that was there when the cards were asked for and stayed with its
\* benefit is on the card of that benefit, if it is published, and on no other.  (One
\* that a PATCH moves may be on both cards or on neither.)
CardsCountEachOnce ==
  pc = "done" /\ "uncounted" \in DOMAIN ask =>
    \A r \in Ids :
      LET on == {b \in Benefit : r \in cards[b]}
      IN /\ on \subseteq Had(r) \cap Published
         /\ r \in since.rows /\ Had(r) = {rows[r].benefit} =>
              on = {rows[r].benefit} \cap Published

\* What a reader of cards has counted so far, and may believe of the rest.
CardState ==
  /\ since = [rows |-> since.rows, written |-> since.written, left |-> since.left,
              late |-> since.late, had |-> since.had]
  /\ pc = "idle" => cards = [b \in Benefit |-> {}]
  /\ pc \in {"count", "page"} => "uncounted" \notin DOMAIN ask
  /\ pc = "cards" => "uncounted" \in DOMAIN ask
  /\ pc \in {"cards", "done"} /\ "uncounted" \in DOMAIN ask =>
       /\ ask.uncounted \subseteq Published
       /\ pc = "done" => ask.uncounted = {}
       /\ since.rows \subseteq Ids
       /\ \A r \in Ids : <<r, rows[r].benefit>> \in since.had
       /\ DOMAIN cards = Benefit
       /\ \A b \in Benefit :
            IF b \in Published \ ask.uncounted
            THEN /\ \A r \in cards[b] : <<r, b>> \in since.had
                 /\ \A r \in since.rows :
                      Had(r) = {rows[r].benefit} => (r \in cards[b] <=> rows[r].benefit = b)
            ELSE cards[b] = {}

\* What a reader of a list has seen so far, and may still hope for: the rows it has yet
\* to see are on later pages, and the total it was told is none too small.
ListState ==
  /\ pc = "idle" => offset = 0 /\ listed = {}
  /\ pc \in {"count", "page"} => ask \in Request
  /\ pc \in {"count", "page"} /\ ~since.left =>
       LET ids == Selected(rows, ask.benefit, ask.filter)
       IN /\ since.rows \subseteq ids
          /\ \A r \in since.rows :
               r \in listed \/ MayHavePassed(r) \/ offset < Rank(ask, ids, r)
          /\ pc = "page" /\ ~since.late => Cardinality(ids) <= total

\* The amounts in a row are those of one calculation, and so is its total; except where
\* a PATCH gave them.  Which data that was of, and whether the row still has it, is not
\* said: a resubmission or a PATCH may have come between the read and the write.
AmountState ==
  \A r \in Ids : rows[r].calculated # None /\ "calculated" \notin rows[r].patched =>
    /\ rows[r].by \in RuleSets /\ rows[r].of \in Profiles
    /\ rows[r].calculated = doBenefitCalculations(rows[r].by, rows[r].of)
    /\ "final" \in rows[r].patched \/ rows[r].final = rows[r].calculated[TotalPayout]

\* A file is that of the table as it is: the reader has ended and nothing is written.
FileState ==
  file # None =>
    /\ pc = "done"
    /\ \E name \in DOMAIN Report, b \in Benefit, filter \in Filters :
         ask = [report |-> name] /\ file = Export(Report[name], b, filter)

ReportsInv == TypeOK /\ CardState /\ ListState /\ AmountState /\ FileState

\* The line of row r shows a value under a column.
Shows(r, column, value) ==
  \E k \in DOMAIN file.header :
    file.header[k] = column /\ file.lines[r][k] = value

\* In an export whose columns are "*", every value of every application is in
\* its line under its own name, whichever of the applications has the field and
\* whichever rules it was calculated with; except what otr and aadhaar replace.
EveryValueHasItsColumn ==
  file # None =>
    \A r \in DOMAIN file.lines :
      /\ Len(file.lines[r]) = Len(file.header)
      /\ Report[ask.report].amounts = Wildcard =>
           \A f \in DOMAIN AmountsOf(rows[r]) \ {TotalPayout} :
             Shows(r, <<"amounts", f>>, rows[r].calculated[f])
      /\ Report[ask.report].data = Wildcard =>
           \A f \in DOMAIN rows[r].data \ {"otr", "aadhaar"} :
             Shows(r, <<"data", f>>, rows[r].data[f])

\* The amount in a line of a report is the sum of the amounts beside it, unless
\* two rules share a column or one has the name of the total, a PATCH has written
\* calculatedAmount or finalAmount since the application was calculated, or it
\* was resubmitted and is not calculated again: then the amount of the replaced
\* data stands alone in its line.
AmountIsSumOfColumns ==
  file # None /\ ask.report # "eligibility" =>
    \A r \in DOMAIN file.lines :
      LET paid == {k \in DOMAIN file.header :
                     file.header[k][1] = "amounts" /\ file.lines[r][k] # Blank}
      IN IF rows[r].calculated = None THEN paid = {}
         ELSE \/ rows[r].patched # {}
              \/ ~DistinctOutputs(rows[r].by)
              \/ Shows(r, <<"table", "amount">>, SumFunctionOnSet(file.lines[r], paid))
=============================================================================
