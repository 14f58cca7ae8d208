------------------------------ MODULE Lifecycle ------------------------------
(***************************************************************************)
(* The life of one application after it was created: everything that       *)
(* rewrites its row or its documents except document verification, which   *)
(* module Verification adds.                                               *)
(*                                                                         *)
(*   resubmit     DSEP update, ApplicationsService.updateApplication       *)
(*   status       PATCH /applications/:id/status, updateStatus             *)
(*   confirm      DSEP confirm, BenefitsService.confirm                    *)
(*   patch        PATCH /applications/:id, ApplicationsService.update      *)
(*   calculate    calculateBenefit, from a page view, its endpoint, a cron *)
(*   eligibility  checkEligibility, from a page view, its endpoint, a cron *)
(*                                                                         *)
(* Each handler reads the row, awaits something (Strapi, the eligibility   *)
(* service, another statement) and then updates the row from what it read, *)
(* with no transaction, lock or version check, so handlers interleave      *)
(* between the read and the write.                                         *)
(*                                                                         *)
(* Applicant data is identified by the call that wrote it, a derived value *)
(* by the data it was derived from, an entry of the action log and a       *)
(* generated order id by the call that made it.                            *)
(***************************************************************************)
EXTENDS Naturals, FiniteSets

CONSTANTS
  Call,          \* handler invocations
  Created,       \* the call that created the application (module Intake)
  None,          \* SQL NULL
  Kinds,         \* the kinds of call of this instance
  Targets,       \* bound: the statuses that officers set in this instance
  PatchSets,     \* bound: the sets of columns that a PATCH writes in this instance
  MaxDocs,       \* bound: documents of one submission
  Concurrent     \* whether a handler may start while another is in flight

AllKinds == {"resubmit", "status", "confirm", "patch", "calculate", "eligibility"}
Status == {"initiated", "pending", "approved", "rejected", "in_progress", "resubmit"}
PatchColumns == {"status", "data", "log", "orderId", "calculated", "final",
                 "eligibility", "documents"}

ASSUME CreatedAssumption == Created \notin Call /\ None \notin Call \union {Created}
ASSUME BoundsAssumption ==
  /\ Kinds \subseteq AllKinds
  /\ Targets \subseteq Status
  /\ PatchSets \subseteq SUBSET PatchColumns
  /\ MaxDocs \in Nat \ {0}
  /\ Concurrent \in BOOLEAN

Version == Call \union {Created}
DocumentStatus == {None, "verified", "partially_verified", "unverified"}
Document == Version \X (1..MaxDocs)

\* An eligibility decision with the call that wrote it and what that had before it;
\* None is the pending state: eligibilityStatus 'pending', no result and no time of
\* check.
Decision == [by : Call, data : Version, documents : DocumentStatus,
             verdict : {"eligible", "ineligible"}]
ASSUME DecisionAssumption == None \notin Decision

Row == [status : Status,
        data : Version,                        \* applicationData
        log : SUBSET Version,                  \* actionLog
        orderId : Call \union {None},
        calculated : Version \union {None},    \* calculatedAmount
        final : Version \union {None},         \* finalAmount
        eligibility : Decision \union {None},
        documents : DocumentStatus]            \* documentVerificationStatus

Operation ==
  [kind : {"resubmit"}, docs : 0..MaxDocs]
    \union [kind : {"status"}, target : Targets]
    \union [kind : {"patch"}, target : Targets, columns : PatchSets]
    \union [kind : {"confirm", "calculate", "eligibility"}]

InFlight == {"read", "delete", "write", "patch", "record"}

VARIABLES
  pc,            \* pc[c]: the step call c takes next
  op,            \* op[c]: what call c was asked to do
  seen,          \* seen[c]: the row as call c read it
  next,          \* next[c]: the document a resubmission is at
  row,           \* the application's row
  files,         \* its rows in ApplicationFiles
  written,       \* history: the calls that updated the row
  missed         \* history: missed[c]: the calls that updated the row after
                 \* c read it and before c updated it

vars == <<pc, op, seen, next, row, files, written, missed>>

Kind(c) == op[c].kind
Docs(c) == IF c = Created THEN MaxDocs ELSE op[c].docs
Submitted(c) == {<<c, i>> : i \in 1..Docs(c)}

Init ==
  /\ pc = [c \in Call |-> "idle"]
  /\ op = [c \in Call |-> None]
  /\ seen = [c \in Call |-> None]
  /\ next = [c \in Call |-> 1]
  /\ row = [status |-> "initiated", data |-> Created, log |-> {Created},
            orderId |-> None, calculated |-> None, final |-> None,
            eligibility |-> None, documents |-> None]
  /\ files = {<<Created, i>> : i \in 1..MaxDocs}
  /\ written = {}
  /\ missed = [c \in Call |-> {}]

-----------------------------------------------------------------------------

Goto(c, step) == pc' = [pc EXCEPT ![c] = step]

\* Calls between their read and their update of the row.
Holding == {c \in Call : pc[c] \in {"delete", "write"}}

\* The row is updated by c.
Update(c, newRow) ==
  /\ row' = newRow
  /\ written' = written \union {c}
  /\ missed' = [d \in Call |-> IF d \in Holding \ {c} THEN missed[d] \union {c}
                                                      ELSE missed[d]]

Send(c) ==
  /\ pc[c] = "idle"
  /\ Concurrent \/ \A d \in Call : pc[d] \notin InFlight
  /\ \E o \in Operation :
       /\ o.kind \in Kinds
       /\ op' = [op EXCEPT ![c] = o]
       /\ Goto(c, IF o.kind = "patch" THEN "patch" ELSE "read")
  /\ UNCHANGED <<seen, next, row, files, written, missed>>

\* Variant with a fault: the documents are deleted even when none are brought.
ReadThenDelete(c) ==
  /\ pc[c] = "read"
  /\ seen' = [seen EXCEPT ![c] = row]
  /\ Goto(c, IF Kind(c) = "resubmit" THEN "delete" ELSE "write")
  /\ UNCHANGED <<op, next, row, files, written, missed>>

\* findUnique or findFirst.  A resubmission that brings documents first
\* deletes the old ones.
Read(c) ==
  /\ pc[c] = "read"
  /\ seen' = [seen EXCEPT ![c] = row]
  /\ Goto(c, IF Kind(c) = "resubmit" /\ Docs(c) > 0 THEN "delete" ELSE "write")
  /\ UNCHANGED <<op, next, row, files, written, missed>>

\* applicationFiles.deleteMany of a resubmission.
DeleteFiles(c) ==
  /\ pc[c] = "delete"
  /\ files' = {}
  /\ Goto(c, "write")
  /\ UNCHANGED <<op, seen, next, row, written, missed>>

\* Variants with a fault: the log is started anew, or a derived column is kept.
ResubmittedNewLog(c) ==
  [row EXCEPT !.status = "pending", !.data = c, !.log = {c},
              !.calculated = None, !.eligibility = None, !.documents = None]
ResubmittedKeepingAmount(c) ==
  [row EXCEPT !.status = "pending", !.data = c, !.log = seen[c].log \union {c},
              !.eligibility = None, !.documents = None]
ResubmittedKeepingEligibility(c) ==
  [row EXCEPT !.status = "pending", !.data = c, !.log = seen[c].log \union {c},
              !.calculated = None, !.documents = None]
ResubmittedKeepingDocuments(c) ==
  [row EXCEPT !.status = "pending", !.data = c, !.log = seen[c].log \union {c},
              !.calculated = None, !.eligibility = None]

\* The row of a resubmission: new data, back to pending, the log as it was read
\* plus one entry, and everything derived reset, but not finalAmount.
Resubmitted(c) ==
  [row EXCEPT !.status = "pending", !.data = c, !.log = seen[c].log \union {c},
              !.calculated = None, !.eligibility = None, !.documents = None]

Resubmit(c) ==
  /\ pc[c] = "write" /\ Kind(c) = "resubmit"
  /\ Update(c, Resubmitted(c))
  /\ Goto(c, IF Docs(c) > 0 THEN "record" ELSE "done")
  /\ UNCHANGED <<op, seen, next, files>>

\* Variant with a fault: one document too few.
OneShort(c) == next[c] + 1 < Docs(c)

\* The loop over the documents goes on.
More(c) == next[c] < Docs(c)

\* One document of a resubmission is uploaded and recorded.
RecordFile(c) ==
  /\ pc[c] = "record"
  /\ files' = files \union {<<c, next[c]>>}
  /\ IF More(c)
       THEN next' = [next EXCEPT ![c] = @ + 1] /\ UNCHANGED pc
       ELSE Goto(c, "done") /\ UNCHANGED next
  /\ UNCHANGED <<op, seen, row, written, missed>>

\* Variant with a fault: the status is written without an entry in the log.
SetStatusUnlogged(c) ==
  /\ pc[c] = "write" /\ Kind(c) = "status"
  /\ Update(c, [row EXCEPT !.status = op[c].target])
  /\ Goto(c, "done")
  /\ UNCHANGED <<op, seen, next, files>>

\* The update of updateStatus: any status to any status, and the log as it was
\* read plus one entry.
SetStatus(c) ==
  /\ pc[c] = "write" /\ Kind(c) = "status"
  /\ Update(c, [row EXCEPT !.status = op[c].target, !.log = seen[c].log \union {c}])
  /\ Goto(c, "done")
  /\ UNCHANGED <<op, seen, next, files>>

\* Variant with a fault: every confirm makes an order id.
OrderIdAlwaysNew(c) == c

\* The order id confirm answers with: the one it read, or a new one.
OrderId(c) == IF seen[c].orderId = None THEN c ELSE seen[c].orderId

\* The update of confirm: the status becomes pending whatever it was.
Confirm(c) ==
  /\ pc[c] = "write" /\ Kind(c) = "confirm"
  /\ Update(c, [row EXCEPT !.orderId = OrderId(c), !.status = "pending"])
  /\ Goto(c, "done")
  /\ UNCHANGED <<op, seen, next, files>>

\* PATCH writes the columns it was given, whatever they are, with no entry in the
\* log; what it writes is identified by the call.
Patch(c) ==
  /\ pc[c] = "patch"
  /\ \E verdict \in {"eligible", "ineligible"}, documents \in DocumentStatus :
       LET Column(name, given, old) == IF name \in op[c].columns THEN given ELSE old
           decision == [by |-> c, data |-> row.data, documents |-> row.documents,
                        verdict |-> verdict] IN
       Update(c, [status |-> Column("status", op[c].target, row.status),
                  data |-> Column("data", c, row.data),
                  log |-> Column("log", {c}, row.log),
                  orderId |-> Column("orderId", c, row.orderId),
                  calculated |-> Column("calculated", c, row.calculated),
                  final |-> Column("final", c, row.final),
                  eligibility |-> Column("eligibility", decision, row.eligibility),
                  documents |-> Column("documents", documents, row.documents)])
  /\ Goto(c, "done")
  /\ UNCHANGED <<op, seen, next, files>>

\* The update of calculateBenefit: amounts computed from the data it read.
Calculate(c) ==
  /\ pc[c] = "write" /\ Kind(c) = "calculate"
  /\ Update(c, [row EXCEPT !.calculated = seen[c].data, !.final = seen[c].data])
  /\ Goto(c, "done")
  /\ UNCHANGED <<op, seen, next, files>>

\* The eligibility service evaluates the benefit's rules and the rule the
\* service appends, that the documents are verified.
Verdicts(documents) ==
  IF documents = "verified" THEN {"eligible", "ineligible"} ELSE {"ineligible"}

\* The update of checkEligibility: a decision on the row it read.
CheckEligibility(c) ==
  /\ pc[c] = "write" /\ Kind(c) = "eligibility"
  /\ \E v \in Verdicts(seen[c].documents) :
       Update(c, [row EXCEPT !.eligibility =
                    [by |-> c, data |-> seen[c].data, documents |-> seen[c].documents,
                     verdict |-> v]])
  /\ Goto(c, "done")
  /\ UNCHANGED <<op, seen, next, files>>

\* The row is not found, an awaited operation throws, or the process dies.
\* What was written stays.
Fail(c) ==
  /\ pc[c] \in InFlight
  /\ Goto(c, "failed")
  /\ UNCHANGED <<op, seen, next, row, files, written, missed>>

Step(c) ==
  \/ Read(c)
  \/ DeleteFiles(c)
  \/ Resubmit(c)
  \/ RecordFile(c)
  \/ SetStatus(c)
  \/ Confirm(c)
  \/ Patch(c)
  \/ Calculate(c)
  \/ CheckEligibility(c)
  \/ Fail(c)

Next == \E c \in Call : Send(c) \/ Step(c)

Spec == Init /\ [][Next]_vars

-----------------------------------------------------------------------------

TypeOK ==
  /\ pc \in [Call -> {"idle", "done", "failed"} \union InFlight]
  /\ op \in [Call -> Operation \union {None}]
  /\ seen \in [Call -> Row \union {None}]
  /\ next \in [Call -> Nat \ {0}]
  /\ row \in Row
  /\ files \subseteq Document
  /\ written \subseteq Call
  /\ missed \in [Call -> SUBSET Call]

\* Calls that append to the log, and calls that replace the applicant's data.
Logs(c) == c \in written /\ Kind(c) \in {"resubmit", "status"}
WritesData(c) ==
  /\ c \in written
  /\ \/ Kind(c) = "resubmit"
     \/ Kind(c) = "patch" /\ "data" \in op[c].columns
PatchedBy(c, column) == c \in written /\ Kind(c) = "patch" /\ column \in op[c].columns
Patched(column) == \E c \in written : PatchedBy(c, column)

\* An entry is missing from the log only if another call that logs read the
\* row before the entry was written and wrote it afterwards, or a PATCH wrote
\* the log.
EntryLostOnlyByOverlap ==
  \A c \in Call : Logs(c) =>
    c \in row.log \/ (\E d \in Call : Logs(d) /\ c \in missed[d]) \/ Patched("log")

\* An approved or rejected application has the entry of that decision in its
\* log, races included, unless a PATCH wrote the status or the log.
DecisionIsAudited ==
  row.status \in {"approved", "rejected"} =>
    \/ \E c \in row.log \ {Created} : Kind(c) = "status" /\ op[c].target = row.status
    \/ \E c \in written : PatchedBy(c, "status") /\ op[c].target = row.status
    \/ Patched("log")

\* The stored calculation is that of the current data: "Reset calculation and
\* eligibility data for resubmission".
AmountIsCurrent == row.calculated \in {None, row.data}

\* The stored calculation belongs to other data only if that data was replaced
\* while this calculation was being made, or a PATCH wrote the one or the other.
AmountStaleOnlyByOverlap ==
  \/ AmountIsCurrent
  \/ \E c \in written : /\ Kind(c) = "calculate"
                        /\ seen[c].data = row.calculated
                        /\ \E d \in missed[c] : WritesData(d)
  \/ PatchedBy(row.data, "data")
  \/ PatchedBy(row.calculated, "calculated")

\* The same of an eligibility decision.
EligibilityStaleOnlyByOverlap ==
  \/ row.eligibility = None
  \/ row.eligibility.data = row.data
  \/ \E d \in missed[row.eligibility.by] : WritesData(d)
  \/ PatchedBy(row.data, "data")
  \/ PatchedBy(row.eligibility.by, "eligibility")

\* The two amounts are of one calculation, unless PATCH wrote one of them, or a
\* resubmission emptied calculatedAmount: it keeps finalAmount.
OneCalculation ==
  \/ row.calculated = None
  \/ row.final = row.calculated
  \/ PatchedBy(row.calculated, "calculated")
  \/ PatchedBy(row.final, "final")

\* finalAmount is that of other data than the row's only while the application
\* waits for the calculation after a resubmission, or for the reasons for which
\* calculatedAmount is.
FinalStaleOnlyByOverlap ==
  \/ row.calculated = None
  \/ row.final = row.data
  \/ \E c \in written : /\ Kind(c) = "calculate"
                        /\ seen[c].data = row.final
                        /\ \E d \in missed[c] : WritesData(d)
  \/ PatchedBy(row.data, "data")
  \/ PatchedBy(row.calculated, "calculated")
  \/ PatchedBy(row.final, "final")

\* calculatedAmount and the eligibility decision describe the applicant's current
\* data but for an overlap or a PATCH, and finalAmount does whenever
\* calculatedAmount is there: between a resubmission and the next calculation it
\* is that of the data the resubmission replaced.
DerivedStaleOnlyByOverlap ==
  AmountStaleOnlyByOverlap /\ FinalStaleOnlyByOverlap /\ EligibilityStaleOnlyByOverlap

\* An order id that confirm answered stays the order id of the application, so
\* that DSEP status finds it, unless another confirm read the row before this
\* one updated it and updated it afterwards, or a PATCH wrote the order id.
OrderIdLostOnlyByOverlap ==
  \A c \in written : Kind(c) = "confirm" =>
    \/ row.orderId = OrderId(c)
    \/ \E d \in written : Kind(d) = "confirm" /\ c \in missed[d]
    \/ Patched("orderId")

\* The application holds every document of some submission, the original one
\* or a resubmission that ended well, unless a resubmission is between its
\* deletion of the old documents and its last new one, or has failed.
CompleteSetUnlessInterrupted ==
  \/ Submitted(Created) \subseteq files
  \/ \E c \in Call : /\ pc[c] = "done" /\ Kind(c) = "resubmit" /\ Docs(c) > 0
                     /\ Submitted(c) \subseteq files
  \/ \E c \in Call : /\ pc[c] \in {"write", "record", "failed"}
                     /\ Kind(c) = "resubmit" /\ Docs(c) > 0

-----------------------------------------------------------------------------
(***************************************************************************)
(* The inductive invariant: what a call between its read and its update    *)
(* may believe of the row.                                                 *)
(***************************************************************************)

\* Where each call stands.
CallState ==
  \A c \in Call :
    /\ pc[c] = "idle" \/ op[c] \in Operation
    /\ pc[c] \in {"idle", "read", "delete", "write", "patch"} =>
         c \notin written /\ next[c] = 1
    /\ pc[c] \in {"read", "delete", "write"} => Kind(c) # "patch"
    /\ pc[c] \in {"delete", "record"} => Kind(c) = "resubmit" /\ Docs(c) > 0
    /\ pc[c] = "record" => next[c] <= Docs(c)
    /\ pc[c] = "patch" => Kind(c) = "patch"
    /\ c \in Holding => seen[c] \in Row
    /\ c \in written /\ Kind(c) # "patch" => seen[c] \in Row

\* The log, and every copy of it in a handler, names calls that were carried out.
LogState ==
  /\ row.log \subseteq written \union {Created}
  /\ \A c \in Holding : seen[c].log \subseteq written \union {Created}

\* An entry a handler did not see was written under its eyes or lost before.
HeldLog ==
  \A d \in Holding : \A c \in Call : Logs(c) =>
    \/ c \in seen[d].log \/ c \in missed[d]
    \/ \E e \in Call : Logs(e) /\ c \in missed[e]
    \/ Patched("log")

\* The data a handler read is current or was replaced under its eyes.
HeldData ==
  \A c \in Holding : seen[c].data = row.data \/ \E d \in missed[c] : WritesData(d)

\* The order id of an earlier confirm was read, or written under the handler's
\* eyes, or replaced before.
HeldOrder ==
  \A d \in Holding : \A c \in written : Kind(c) = "confirm" =>
    \/ seen[d].orderId = OrderId(c)
    \/ c \in missed[d]
    \/ \E e \in written : Kind(e) = "confirm" /\ c \in missed[e]
    \/ Patched("orderId")

\* What the submission that deleted last has recorded is still there.
LastDeleter ==
  \E c \in Version :
    \/ /\ c = Created
       /\ Submitted(Created) \subseteq files
    \/ /\ c \in Call /\ pc[c] # "idle" /\ Kind(c) = "resubmit" /\ Docs(c) > 0
       /\ \/ pc[c] \in {"write", "failed"}
          \/ /\ pc[c] = "record"
             /\ {<<c, i>> : i \in 1..(next[c] - 1)} \subseteq files
          \/ /\ pc[c] = "done"
             /\ Submitted(c) \subseteq files

LifecycleInv ==
  /\ TypeOK
  /\ CallState
  /\ LogState
  /\ HeldLog /\ EntryLostOnlyByOverlap
  /\ DecisionIsAudited
  /\ HeldData /\ AmountStaleOnlyByOverlap /\ OneCalculation
  /\ EligibilityStaleOnlyByOverlap
  /\ HeldOrder /\ OrderIdLostOnlyByOverlap
  /\ LastDeleter
=============================================================================
