# A verification development for the UBI provider middleware

The middleware (`src/src`, NestJS on Prisma/PostgreSQL) stands between beneficiary
apps (BAPs), which send applications over DSEP requests, and the officers of a
benefit provider, who verify documents, decide and report. Benefits are kept by
Strapi, eligibility and document checks by two other services, documents by a file
store. This directory models the middleware in TLA+, checks the models with TLC and
proves the central invariants with TLAPS.

File names are shortened below: S is `applications/applications.service.ts`, B
`benefits/benefits.service.ts`, V `verifications/verification.service.ts`, A
`strapi-admin/strapi-admin.service.ts`, R `scripts/rotate-encryption-key.ts`.

## Inventory

The service is one node process. A handler runs alone between two awaits and is
interleaved with other handlers at each of them. No handler opens a transaction,
takes a lock or compares a version, and the database has no unique constraint on
applications. The tests of the repository only assert that the classes can be made.

| component | state | operations | what is hard | what makes it correct |
|---|---|---|---|---|
| application intake (S `create`, B `init`) | rows of `Applications`, `ApplicationFiles`, stored objects | POST /applications, dsep/init | check-then-insert without a lock; failure between insert, upload and record; retries | one application per request, retries idempotent, rows never name missing objects |
| application lifecycle (S `updateApplication`, `updateStatus`, `update`, `calculateBenefit`, `checkEligibility`; B `update`, `confirm`) | one row: status, data, action log, order id, amounts, eligibility, document status | dsep/update, dsep/confirm, PATCH, PATCH status, page view, calculate, check, two crons | every handler reads, awaits and writes back | decisions are in the log, derived values describe the current data, documents are complete |
| document verification (V) | `verificationStatus` of each file, `documentVerificationStatus` of the application | POST /verification | verdict from the verifier's own results, double results after a failed update, overlap with resubmission | the verdict agrees with the documents; eligible only on verified documents |
| DSEP catalogue (B `search`, `select`, `status`, `transform...`) | `bapId`, `bapUri` of the singleton service | dsep/search, select, status | fields set by one request and read after awaits of another | a response names the BAP that asked |
| benefit calculation (S `doBenefitCalculations` and evaluators) | none | pure | rule order, defaults, JavaScript arithmetic | total is the sum of the outputs |
| background jobs (`applications/crons`) | none of their own | two ticks | batches without order, failing rows, overlapping ticks, old snapshots | every row is eventually processed, once, on its current data |
| field encryption (`prisma.service.ts`, `encryption.util.ts`) | ciphertext column | every read and write | strings against objects, two keys, raw queries | what is written is read back |
| key rotation (`scripts/rotate-encryption-key.ts`) | position in the table | one script run | concurrent writers, crash and rerun | no value becomes unreadable or old |
| Strapi administration (`strapi-admin`) | roles and users in Strapi, `Provider`, `Users` | create role, create user | three-step sagas without compensation, retries against unique names | no half-made account that blocks its own retry |
| authentication, access control (`auth`, `common/service/acl.ts`) | none | guard, middleware, ACL | roles of two users compared | only members of the organisation see a benefit's applications |
| listing, cards and CSV reports (S, B `getBenefits`) | none | list, cards, two exports | offset pages over a moving order, columns of applications with different forms | every application is listed and counted, every figure is under its column |
| error reporting (`common/filters`, catch blocks) | none | - | catch blocks that turn one error into another | an error the caller can correct leaves nothing behind |
| file records endpoint, storage adapters, bootstrap | rows, objects | plain reads and writes | - | - |

Interactions: B `init`, `update`, `confirm` call S; V and S share the `Applications`
row and the `ApplicationFiles` rows; the crons call S; S calls B for the benefit and
the eligibility service for the decision; A writes the users and roles that the
middleware, the guard and the ACL read. Everything reaches the database through
the encrypting Prisma middleware, except the raw queries of the crons.

## Modules

| module | models |
|---|---|
| `ApplicationRegistry` | what `create` promises: an atomic get-or-create |
| `Intake` | `create` and `init` as they run: one action per statement between awaits |
| `IntakeProofs` | theorems about `Intake` |
| `Lifecycle` | every handler that rewrites an existing application, on one row |
| `LifecycleProofs` | theorems about `Lifecycle` |
| `Verification` | extends `Lifecycle` with `verifyApplicationVcs`, the composition of the two |
| `VerificationProofs` | theorems about `Verification`; extends `LifecycleProofs` |
| `KeyRotation` | the encrypted column, its readers and writers, and the rotation script |
| `KeyRotationProofs` | theorems about `KeyRotation` |
| `Crons` | the calculation job and the eligibility job over several applications |
| `CronsProofs` | theorems about `Crons` |
| `CatalogueItems` | the mapping of a benefit to a catalogue item |
| `ErrorReporting` | thrown errors and the HTTP statuses they become |
| `Catalogue` | the six DSEP endpoints, concurrently; extends the two modules above |
| `CatalogueProofs` | theorems about `Catalogue` |
| `Administration` | roles, users, login and access; extends `ErrorReporting` |
| `AdministrationProofs` | theorems about `Administration` |
| `CalculationRules` | `doBenefitCalculations` and its evaluators |
| `Reports` | list, cards and exports beside the writers; extends `CalculationRules` |
| `ReportsProofs` | theorems about `Reports` |
| `MCIntake`, `MCLifecycle`, `MCVerification`, `MCKeyRotation`, `MCCrons`, `MCCatalogue`, `MCAdministration`, `MCReports` | the instances of the runs |

Three modules look at one application closely (`Intake`, `Lifecycle`, `Verification`);
`Catalogue`, `Crons` and `Reports` look at several and take what those resolve as one or
two steps. What each leaves to another is said in its header.

### Intake

`pc[c]` is the await call `c` stands at: `benefit` (Strapi), `lookup` (`findFirst`),
`insert`, `upload`, `record` for the document `next[c]`, `transform`. `rows`, `files`
and `objects` are the two tables and the file store. A row is named by the call that
inserted it, since ids are unique and nothing else about them matters; the key of a
request stands for the triple transaction, BAP, benefit, `NoKey` for a request that
misses one of the first two. `ReuseExisting` takes any match because `findFirst` has no
order. `Fail` is a throwing await as well as the death of the process: nothing is
undone in either case. `before` is history, the calls that had ended when a call was
sent; it is what distinguishes a retry from an overlapping request.

`Intake` leaves out that a resubmission may rewrite the columns the lookup compares
(S:226): its rows keep the key they were inserted with. `Catalogue` has both.

### Lifecycle

One application. A handler copies the row (`seen`), then updates it from the copy.
Data are abstracted to their origin: applicant data to the call that wrote it, an
amount and an eligibility decision to the data it was computed from, a log entry and
an order id to the call that made it. So "stale" is an inequality. `missed[c]` is history:
the handlers that updated the row between the read and the update of `c`. The
properties use it to say precisely which overlap is to blame for a loss.

The application starts as `create` leaves it, with all its documents and without an
order id. PATCH has no whitelist (S:672), so `Patch` writes any set of the modelled columns, the log, the
order id and the decision included, and every property says what it excuses. `Verdicts` stands for the eligibility service, of which the
code fixes one thing: the rule it appends asks for verified documents.

### Verification

A verifier lists the documents, checks and marks them one at a time and writes a
verdict from its counts. `MarkFails` is the path where the update of a file row throws
inside the `try` and the `catch` pushes a second result for the same file. `disturbed` is history: another handler changed
the documents, their marks or the verdict since the listing, or was replacing the
documents then. `doubt` is history too: why the verdict on the row may not be that of all documents, namely
because it was reached on some of them, or was disturbed, or was written by PATCH, or because a document was found
invalid since; `doubts[c]` is the same of the copy that handler `c` read. Both properties look at the marks of all
documents, not at the column alone. Files are always given a path by intake, so the branch for a missing
path (V:59) is one of the ways `Check` finds a document invalid. `asked` is the set of file ids in
the request; the empty set asks for all.

### KeyRotation

`cells[i]` is the ciphertext of row `i`: the key, the data (named by the write that
brought it, `latest[i]` being the last one) and whether the text under the encryption
is a JSON string, as `create` and a resubmission store it, or an object, as PATCH does.
`ReadBy` is the reader of the middleware: `null` without a fitting key, `{}` for what
does not parse. Each write is one statement. `env` is what the service was started with:
the old key, both (`ENCRYPTION_KEY` new, `OLD_ENCRYPTION_KEY` old), or the new key alone,
which is assumed to wait for a finished run, as `.env.sample` says the old key is needed
for the script. The script fetches the ids after its cursor, up to `BatchSize`, and
writes them back in one transaction, taken as one step: a write of the service to one of its rows
either precedes it and is overwritten or waits for it. `Die` is a failing
query, a failing transaction or a killed process. `crossed` and `slipped` are history: rows the
service wrote while the script was about to overwrite them, and rows it wrote with the
old key after the script had read them.

Rows are never deleted and ids have no gaps here; a gap changes nothing, as the cursor
follows the ids it was given.

### Crons

A tick holds what it selected: ids for the calculation (`calcTodo`, which reads each row
again, `calcRow`, `calcSeen`), whole rows for the check (`checkTodo`), whose
`applicationData` is a text because `$queryRaw` goes past the decrypting middleware; so
`Profile` of such a row holds no data. `Batches` is `LIMIT` without `ORDER BY`. The timer
fires whether or not the last tick has ended, so several ticks of a job run at once.
`broken` are applications whose calculation and check always throw. Data are numbers of
versions.

The other writers of these columns are here as well. `visit[v]` is a request for a calculation, for a check, or for
a page, which does the one and then the other (S:575-581): `Arrive` and `Look` are its reads, `Store` its
writes, `Fail` a part that throws. `Resubmit` replaces the data and resets what is derived; `Patch` writes data, amounts,
a decision or times and resets nothing. `shared`, `again`, `crossed` and `patched` are history: rows that were
processed, or taken into another batch, while a tick held them; rows a tick processed though they were processed
already; rows whose data were replaced between the read and the write of a check; rows PATCH wrote since their last
resubmission.

### Catalogue

`bap` is the pair of fields `bapId`, `bapUri` of the one service. `checkBapIdAndUri` sets it
for every request, `Transform` and the answers read it after the awaits. `local[r]` is what
a handler has in hand between them. A catch block does what `ErrorStatus` says, in terms of `ErrorReporting`;
`Breaks` is an await that throws. `Body` lists the requests: without a BAP, without a field
the handler reads first, or whole. Applications and order ids are named by the request that made
them. `Clear`, `Save` and `Files` are an update in the order of S:213-255: the old documents are deleted, the row is
written with the transaction, the BAP and, if the request has one, the `bap_application_id`, and the new documents
are stored, which may still fail as a bad request (S:429, S:459). `FoundBy` is the lookup of `init` with all four
columns (S:95-106). `together`, `wrote` and `moved` are history: who was in flight with whom, who wrote or deleted, and
which applications an update gave another BAP or `bap_application_id`. The contents of the items are the operators
of `CatalogueItems`, from an entry with criteria, documents, amounts, exclusions, sponsors and groups of form
fields, one of which may be null. Names, descriptions and the status codes inside a status answer (B:607-662)
are left out.

### Administration

`strapiRoles`, `permitted`, `strapiUsers` are Strapi's, `providers` and `users` the tables.
`createRole` and `createUser` are the steps `addRole, provider, fields, permissions` and `invite, register,
record`. `AnswerArrivesOrNot` is a call that Strapi carried out and whose answer is lost; `Breaks` one
that it did not carry out. Strapi is external: it refuses names and e-mails it has, unknown roles, and
callers that are no Super Admin. The middleware and the guard are `PassesMiddleware` and
`PassesGuard`, the ACL the three `access` steps and `MayAccess`. Nobody deletes or edits accounts
in Strapi here; that is outside the code.

### Reports

`rows` is the table, `updatedAt` the instant each row was last written at. Each writer stamps
its row with an instant no earlier than any in the table, so rows may share one; a list orders those by id, an
export leaves their order to the database (`NewestFirst`). A writer is one step, but for the calculation:
`CalcRead` takes the data and the rules (S:891), `CalcWrite` writes the amounts of these over whatever the row
has become (S:914). `Patch` replaces one column at a time, since two in one body are two PATCHes with nothing
between them; ids and timestamps are not patched. `by`, `of` and `patched` in a row are history: the rules and the
data its amounts are of, and which of its amounts PATCH wrote. A list is `Count` and `Page` in turn, the client asking on until the
total it was told is reached; cards are counted one `findMany` per benefit; an export is one statement
and then a function of the table, `Export`, with `resolveDynamicFields` for the columns of
`"*"`. Amounts come from `CalculationRules`, where a formula is a sum of products and a
condition a set of comparisons, `==` among those that the code never matches. `since`
is history of what happened while the reader was reading: rows written, whether one left the list or joined it late, and,
for cards, the benefits each row has been of (`since.had`).

### Variants with a fault

Next to some definitions stands a variant marked "with a fault", the same step with a
plausible mistake. No specification uses them; they are the evidence that the
properties can tell the code from a broken one: for each property of each passing run
one variant violates it.

## Runs

| run | constants | shows |
|---|---|---|
| `intake` | 2 calls, 1 key or none, `bap_application_id` present or not, 2 documents, overlap, fairness | the inductive invariant; retries; completeness; that each sent call ends |
| `intake_serial` | 3 calls, 2 `bap_application_id`s, no overlap | no duplicates; `create` refines `ApplicationRegistry` |
| `intake_duplicates` | 2 calls | violation: overlapping requests duplicate an application |
| `lifecycle` | 3 handlers of any of the 6 kinds, PATCH of each of the columns, 2 documents | what a race may cost and what it may not; the inductive invariant |
| `verification_verdict` | 2 verifiers of all documents, 1 resubmission or check, 2 documents | the inductive invariant; the verdict agrees with the marks; `verified` means every document |
| `verification_eligibility` | 1 verifier of all documents or some, 2 handlers out of resubmission, check and PATCH, 2 documents | eligible with a document not marked verified only in the ways the property names |
| `rotation` | 3 rows in batches of 2, 2 writes, 2 runs of the script, fairness | which writes the script takes back, which rows stay readable, that a run ends; the inductive invariant |
| `crons` | 3 applications, 2 ticks of each job, batches of 2, 1 request at a time, 2 events, at most 1 broken application, fairness | the inductive invariant; repeated work and stale decisions only by overlap; every workable application is processed |
| `crons_empty_profile` | 1 application, 1 tick | violation: the eligibility job decides without the applicant's data |
| `catalogue` | 3 requests, 2 BAPs, 2 `bap_application_id`s, 1 transaction, updates with documents and without, a benefit that can be presented and one that cannot | the inductive invariant; foreign BAPs, refusals, answers that stand, second rows, whole items |
| `administration` | 3 calls, 1 provider role, 3 people | the inductive invariant; what is half made and stays so; access by Strapi's roles |
| `reports` | 3 benefits of which 2 are published, 3 profiles, 2 sets of rules, at most 3 rows, 2 writes, 1 calculation in flight, 3 instants, one filter, pages of 1 row | the inductive invariant; lists, cards and exports beside the writers |

The type invariant of a module is a conjunct of its inductive invariant (`IntakeInv`,
`LifecycleInv`, `VInv`, `RotationInv`, `CronsInv`, `CatalogueInv`, `AdministrationInv`, `ReportsInv`) and is
checked with it.

Every bound is a constant: the number of calls, requests, ticks or verifiers (each call runs once, so a
retry is another call), `MaxDocs`, `Targets` (statuses set by officers; the value only
matters to `DecisionIsAudited`, which two suffice for), `PatchSets` (the columns of a PATCH: each of those that
properties relate alone, the rest together). Three
overlapping handlers are enough for every property, since each speaks of one update, the
handler that missed it and a third that follows; two documents give the first,
the last and the loop between. Three rows in batches of two give a full batch, a short one
and an insert between them; two runs give the rerun over rows of both keys.

`JobSets` and `OpSets` name the jobs and endpoints that run together in one behaviour. The two
jobs write different columns, so each is looked at alone. The endpoints of `Catalogue` that share
no rows are looked at in groups, the mixes of `Sent`: `search` with `select`; `init` with `update` in the name of two
BAPs; `init` with `update` of one BAP, with ids of its own and with documents; `init` with `confirm` and `status`. Those of `Administration` are in the groups that share a table. Two ticks and two events give
the overlap, the request, resubmission, PATCH or failure in it and what follows; others than the jobs work on one
row (`Touched`), the rows being alike; one broken application in a batch of two
is the largest number for which every other one is still processed. Three requests give an
`init`, what follows it and a third that overlaps either. One row per page makes every page boundary
happen; two writes suffice for one before and one after it, and for one on either side of each card. They fall
after a list or the cards were asked for (`MaxBefore` = 0): what was written before is only another table to start
from. `AllWrites` is off: beside a list or cards, a write of a column they do not show is as a PATCH that leaves the
status as it is, and beside an export the instant of a write only orders the lines; such writes are left out of the
instance and kept in the theorems. The theorems remove the bounds for the safety properties
of every module. Deadlock is not checked: the system stops once every call has
been used.

Fairness: `FairSpec` of `Crons` asks weak fairness of each tick: the timers keep
firing while the process lives, and the awaits of a tick settle. Passing failures, restarts,
requests, resubmissions and PATCHes are bounded by `MaxEvents`, so they end some time; requests are not fair; a broken application fails for
ever. The property has the premise that fewer applications are broken than fit into a batch, since
the selection has no order, and leaves out rows PATCH gave a time, which wait for their window. `FairSpec` of `Intake` asks weak fairness of the steps of each sent call. The
code justifies it by awaiting only operations that settle (database, HTTP with the
server's limits, file store): an awaited promise resolves or rejects, and both are steps of
the model. Nothing is assumed of clients: `Send` is not fair. `FairSpec` of `KeyRotation` asks it of
the script's own steps, for the same reason; the service and its restarts are not fair. That a
run ends also rests on `MaxRows`: against an insert for every row rotated the script would
never come to an empty batch.

## Findings

Two runs refute what a comment or the project's rules say; `PROJECT.json` quotes the
lines.

- `intake_duplicates`: two overlapping requests for one transaction both find nothing and
  both insert.
- `crons_empty_profile`: the eligibility job spreads an encrypted text into the profile, so
  the service decides without the applicant's data, and its answer is stored.

Other behaviours that a reader may not expect are exceptions named in the properties, and each is reachable:
log entries and order ids lost under overlap or to PATCH (`EntryLostOnlyByOverlap`, `OrderIdLostOnlyByOverlap`), amounts
and decisions of replaced data (`DerivedStaleOnlyByOverlap`, `DecisionStaleOnlyByOverlap`), `finalAmount` that a resubmission does not
reset, so that it is that of the replaced data until the next calculation and stands in reports beside empty columns
(`DerivedStaleOnlyByOverlap`, `AmountIsSumOfColumns`), `verified` and then eligible after a verification of some documents
(`VerifiedUnlessDisturbed`, `EligibleOnVerifiedDocuments`), a job that works again on a row a page view has just
calculated (`AgainOnlyByOverlap`), an update answered with 400 after it deleted and wrote (`RefusalLeavesNoTrace`), a second row
for an `init` sent again after an update changed the `bap_application_id` (`SecondRowOnlyByOverlapOrMove`), `{}` read for data that PATCH wrote (`ReadBy` in `KeyRotation`), answers that
name another BAP (`ForeignBapOnlyByOverlap`), half-made roles and accounts that no retry completes
(`StuckStays`).

## Proofs

`IntakeProofs` shows `Spec => []IntakeInv` by induction. Recorded files and answers
are almost inductive by themselves; idempotence of retries is not: it needs
`RetryState`, that a call sent after the first attempt ended cannot stand at its insert
while a matching row exists, which in turn needs `CallState` for the lookup it made. With
`~Concurrent` the extra invariant `SerialState` says that the row set cannot change
between a lookup and the insert, and from it each step of `Intake` maps to a step or a
stutter of `ApplicationRegistry` (`IntakeImplementsRegistry`) and no duplicate arises
(`NoDuplicatesWithoutOverlap`). That documents are complete needs `DocumentState`: what is
recorded is exactly what lies before the document the call is at, or everything, so that an
object without a row can only be the one about to be recorded.

`LifecycleProofs` shows `Spec => []LifecycleInv`. "Lost only by overlap" is not
inductive, for the handler that will lose an entry holds an old copy long before it
writes it: `HeldLog`, `HeldData` and `HeldOrder` say of every handler between its read
and its update that whatever its copy lacks was written under its eyes or lost
before. `OneCalculation` ties the two amounts together: they are of one calculation, unless PATCH wrote one or a
resubmission emptied the other, from which what `DerivedStaleOnlyByOverlap` says of `finalAmount` follows. `LastDeleter` names the submission whose documents survive overlapping
resubmissions. Each part of the invariant has its own lemma, with one step for each
action that can disturb it.

`VerificationProofs` shows `VSpec => []VInv`. `VInv` contains `LifecycleInv`: a handler's step is one
of `Lifecycle`, and a verifier changes nothing that `LifecycleInv` speaks of but one column.
What a verifier counted is not by itself related to the table. `CountedAsMarked` relates the two for
the documents behind it, for as long as it is undisturbed, and says besides that no resubmission stands
between its deletion and its new documents, for that one would add to what the verdict covers.
`NothingAddedToVerified` carries that past the verdict, for as long as there is no doubt. `HeldDocuments` says the same of the
copy a handler holds, and is to `EligibleOnVerifiedDocuments` what `HeldData` is to stale amounts; `NothingAddedToEligible`
carries it past the decision, with `DecisionWritten` and `MissedWritten`, that whoever decided or was missed has written.

`CatalogueProofs` shows `Spec => []CatalogueInv`. `Together` (requests in flight know of each other) gives
`BapOfFields`: the fields of the service hold the BAP of the request or of one around it at each step
of a request in flight. `RowOfRequest` and `InHand` say which row a handler holds and that
only its BAP and `bap_application_id` may have changed since, and whose documents may be gone already; `Overlooked` says of an init at its insert what its lookup could
not see. `OrderStands` is the part of `AnswersStand` about order ids that survives the confirms that
follow, since they read the order they would otherwise replace. These are `HandlerInv`; `ItemState`, that an answer has
no items but those of benefits that could be presented, is shown beside it. What such an item shows
(`ItemsShowWholeBenefits`) is a matter of the operators of `CatalogueItems`: `Flattened` says which elements
`FlattenSeq` returns and how many, `TotalOfAmounts` that the running total counts every unit of every amount,
`NextTag` what one more formatter adds to the tags. The recursions behind the first two are shown to exist and to
have their property by a least number for which they fail.

`KeyRotationProofs` shows `Spec => []RotationInv`. That rows are readable at the end needs
`RotatedBehindCursor` while the script runs, and that needs `BatchState`: a row of the
batch in flight that the transaction will leave alone is rotated already or slipped
through. The same conjunct carries the other half, that what will be overwritten is current or crossed.

`CronsProofs` shows `Spec => []CronsInv`. That a row is worked on again only when it is shared
needs `HeldProcessed`, that a row processed behind the back of the tick that holds it, by another tick, a request or
PATCH, is shared, which rests on `HeldByTwo` and `HeldOnce`. `HeldCopy` says that the copy a check decides on, the raw row of
a tick or what a request read, is current or crossed, from which `DecisionStaleOnlyByOverlap` follows at the
write.

`AdministrationProofs` shows `Spec => []AdministrationInv`. `Progress` says what a call has done
before its next step, `RecordsAgree` that whoever is recorded has an active account with the same roles, as
only the last step of `createUser` records and e-mails are unique. From these follow what is answered
(`AnsweredIsComplete`), who is to blame for what is half made (`HalfMadeHasItsCall`) and
`AccessIsByStrapiRoles`; `StuckStays` is proved from the same invariant, an action property with one lemma per action.

`ReportsProofs` shows `Spec => []ReportsInv`, part by part. `CardState`: what is on a card once counted has been of
that benefit, and of the rows that kept their benefit the card has exactly its own, since writers remove no row and put on
record which benefit they leave one with; `CardsCountEachOnce` is the same when the last card is counted. `ListState`: a row the list had
from the start, that is not listed yet and was not passed, stands behind the rows skipped so far, for as long as no row
left the list its rank can only grow; and as long as none joined it late, the page that reaches the total
reaches the last rank, which is `UntouchedRowIsListed`. `AmountState`: the amounts in a row
and its total are those of one calculation, unless PATCH wrote one of them; of which data, current or replaced, it does
not say, as a resubmission or a PATCH may come between the read and the write of a calculation. `FileState`: a file is the export of the table it was made of, from whose
header and lines the shapes follow that `EveryValueHasItsColumn` and `AmountIsSumOfColumns` speak of;
for the second, the amount columns that are filled in a line are in bijection with the fields the rules
give amounts to, and the sums agree. Sums over finite sets are characterised there without recursion over
an operator: a claim that fails for some set fails for a smallest one.

The theorems hold for every value of the constants under the named assumptions of the
modules (`MaxDocs` a natural number, `None` and `Created` outside `Call`, and the like). `ContentAssumption` says that
the parts of a benefit's entry are lists, the amounts in a description natural numbers.
TLC checked each invariant, the strengthened ones included, before it was proved.

Only model-checked: liveness (`SentCallEnds`, `RotationEnds`, `WorkableRowsAreProcessed`), which is beyond the
prover. Every invariant and every safety property of the passing runs is a theorem. What a rule of `CalculationRules` comes to enters the theorems as an assumption, `AmountsAssumption`: a whole
number for each of the profiles; TLC evaluates it on the rules and profiles of the instance.

## Not modelled, and the plan

Left out for good, as they keep no state or their result is all that matters: logging, wording, API
documentation, DTO classes, Sentry, the bootstrap; the storage adapters beyond "stored or failed"; the endpoint
for `ApplicationFiles` records, plain reads and writes hidden from the documentation; the
contents of files that `findOne` decodes; `findOrCreateApplication` (S:311-398), which nothing
calls.

Abstracted away: the codes a DSEP status answer derives from a status (B:607-662); percentages and reasons in the
eligibility report; fractional amounts and formulas beyond sums of products; a rupee sign in a description with a comma
but no digit after it, which makes the total NaN; PATCH of the id of a row, of its timestamps and of columns that no
handler reads; the quoting of CSV, which the code applies to cells (S:886) and not to the names in a header (S:782), so a
field whose name has a comma in it shifts that header.

Of the plan, no model and no safety property of a module with calls remains open. What could follow is a
`Catalogue` whose requests go through the handlers of `Lifecycle` step by step.
