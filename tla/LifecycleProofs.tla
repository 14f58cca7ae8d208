--------------------------- MODULE LifecycleProofs ---------------------------
(***************************************************************************)
(* What Lifecycle guarantees for any number of handlers and documents.     *)
(***************************************************************************)
EXTENDS Lifecycle, TLAPS

Writes(c) ==
  \/ Resubmit(c) \/ SetStatus(c) \/ Confirm(c) \/ Patch(c) \/ Calculate(c)
  \/ CheckEligibility(c)
Quiet(c) == Send(c) \/ Read(c) \/ DeleteFiles(c) \/ RecordFile(c) \/ Fail(c)

\* The initial state satisfies the inductive invariant.
LEMMA LifecycleInitInv == Init => LifecycleInv
<1> SUFFICES ASSUME Init PROVE LifecycleInv
  OBVIOUS
<1> USE CreatedAssumption, BoundsAssumption DEF Init
<1>1. TypeOK
  BY DEF TypeOK, Row, Status, Version, DocumentStatus, Document
<1>2. CallState /\ LogState
  BY DEF CallState, LogState, Holding
<1>3. HeldLog /\ EntryLostOnlyByOverlap /\ DecisionIsAudited
  BY DEF HeldLog, EntryLostOnlyByOverlap, DecisionIsAudited, Logs, Holding
<1>4. HeldData /\ AmountStaleOnlyByOverlap /\ OneCalculation /\ EligibilityStaleOnlyByOverlap
  BY DEF HeldData, AmountStaleOnlyByOverlap, OneCalculation, EligibilityStaleOnlyByOverlap,
         AmountIsCurrent, Holding
<1>5. HeldOrder /\ OrderIdLostOnlyByOverlap
  BY DEF HeldOrder, OrderIdLostOnlyByOverlap, Holding
<1>6. LastDeleter
  <2>1. Submitted(Created) \subseteq files
    BY DEF Submitted, Docs
  <2>2. QED BY <2>1 DEF LastDeleter, Version
<1>7. QED BY <1>1, <1>2, <1>3, <1>4, <1>5, <1>6 DEF LifecycleInv

\* An operation is of one kind, and its parameters have their types.
LEMMA OperationFields ==
  ASSUME NEW o \in Operation
  PROVE  /\ o.kind \in AllKinds
         /\ o.kind = "resubmit" => o.docs \in 0..MaxDocs
         /\ o.kind \in {"status", "patch"} => o.target \in Status
BY BoundsAssumption DEF Operation, AllKinds

-----------------------------------------------------------------------------
(***************************************************************************)
(* What a step leaves alone.                                               *)
(***************************************************************************)

\* A step of one call changes nothing in the local state of another.
LEMMA OthersKeep ==
  ASSUME TypeOK, NEW c \in Call, Send(c) \/ Step(c), NEW d \in Call, d # c
  PROVE  /\ pc'[d] = pc[d] /\ op'[d] = op[d] /\ seen'[d] = seen[d] /\ next'[d] = next[d]
         /\ d \in Holding' <=> d \in Holding
<1>1. pc'[d] = pc[d] /\ op'[d] = op[d] /\ seen'[d] = seen[d] /\ next'[d] = next[d]
  BY DEF TypeOK, Send, Step, Read, DeleteFiles, Resubmit, RecordFile, More, SetStatus, Confirm,
         Patch, Calculate, CheckEligibility, Fail, Goto
<1>2. QED BY <1>1 DEF Holding

\* A quiet step leaves the row and the history alone; only Send changes what
\* a call was asked, and only Read what it has seen.
LEMMA QuietKeeps ==
  ASSUME TypeOK, NEW c \in Call, Quiet(c)
  PROVE  /\ row' = row /\ written' = written /\ missed' = missed
         /\ pc[c] # "idle" => op' = op
         /\ pc[c] # "read" => seen' = seen
         /\ pc[c] = "idle" => c \notin Holding'
         /\ c \in Holding' => \/ pc[c] = "read" /\ seen'[c] = row
                              \/ c \in Holding /\ seen' = seen
BY DEF TypeOK, Quiet, Send, Read, DeleteFiles, RecordFile, More, Fail, Goto, Holding, InFlight

\* PATCH updates the row in one step.
LEMMA PatchUpdates ==
  ASSUME NEW c \in Call, Patch(c)
  PROVE  /\ op' = op /\ seen' = seen /\ next' = next /\ files' = files
         /\ pc[c] = "patch" /\ pc' = [pc EXCEPT ![c] = "done"]
         /\ \E r : Update(c, r)
BY DEF Patch, Goto

\* A writing step adds the call to the history of every call that holds a copy.
LEMMA WritesKeep ==
  ASSUME TypeOK, NEW c \in Call, Writes(c)
  PROVE  /\ op' = op /\ seen' = seen /\ next' = next /\ files' = files
         /\ c \notin Holding'
         /\ written' = written \union {c}
         /\ missed'[c] = missed[c]
         /\ \A d \in Call : missed[d] \subseteq missed'[d]
         /\ \A d \in Holding \ {c} : c \in missed'[d]
         /\ pc[c] \in {"write", "patch"} /\ pc'[c] \in {"record", "done"}
<1>1. /\ op' = op /\ seen' = seen /\ next' = next /\ files' = files
      /\ pc[c] \in {"write", "patch"} /\ pc'[c] \in {"record", "done"}
      /\ \E r : Update(c, r)
  <2>1. CASE Patch(c)
    BY <2>1, PatchUpdates DEF TypeOK
  <2>2. CASE ~ Patch(c)
    BY <2>2 DEF Writes, Resubmit, SetStatus, Confirm, Calculate, CheckEligibility, Goto, TypeOK
  <2>3. QED BY <2>1, <2>2
<1>2. /\ written' = written \union {c}
      /\ missed' = [d \in Call |-> IF d \in Holding \ {c} THEN missed[d] \union {c}
                                                          ELSE missed[d]]
  BY <1>1 DEF Update
<1>3. QED BY <1>1, <1>2 DEF Holding, TypeOK

-----------------------------------------------------------------------------
(***************************************************************************)
(* What each update leaves in the row.                                     *)
(***************************************************************************)

\* Every call that updates the row from a copy holds one of the right type.
LEMMA Copies ==
  ASSUME TypeOK, CallState, NEW c \in Call, pc[c] \in {"write", "patch"}
  PROVE  /\ op[c] \in Operation /\ c \notin written
         /\ pc[c] = "write" => c \in Holding /\ seen[c] \in Row /\ Kind(c) # "patch"
         /\ pc[c] = "patch" => c \notin Holding /\ Kind(c) = "patch"
BY DEF CallState, Holding

LEMMA ResubmitRow ==
  ASSUME TypeOK, NEW c \in Call, Resubmit(c)
  PROVE  /\ row'.status = "pending" /\ row'.data = c /\ row'.log = seen[c].log \union {c}
         /\ row'.orderId = row.orderId /\ row'.calculated = None /\ row'.final = row.final
         /\ row'.eligibility = None /\ row'.documents = None
         /\ (row.final \in Version \union {None} /\ seen[c] \in Row) => row' \in Row
<1>1. row' = [row EXCEPT !.status = "pending", !.data = c, !.log = seen[c].log \union {c},
                         !.calculated = None, !.eligibility = None, !.documents = None]
  BY DEF Resubmit, Resubmitted, Update
<1>2. QED BY <1>1 DEF TypeOK, Row, Status, Version, DocumentStatus

LEMMA SetStatusRow ==
  ASSUME TypeOK, NEW c \in Call, SetStatus(c)
  PROVE  /\ row'.status = op[c].target /\ row'.log = seen[c].log \union {c}
         /\ row'.data = row.data /\ row'.orderId = row.orderId
         /\ row'.calculated = row.calculated /\ row'.final = row.final
         /\ row'.eligibility = row.eligibility
         /\ (op[c].target \in Status /\ seen[c] \in Row) => row' \in Row
<1>1. row' = [row EXCEPT !.status = op[c].target, !.log = seen[c].log \union {c}]
  BY DEF SetStatus, Update
<1>2. QED BY <1>1 DEF TypeOK, Row, Version

LEMMA ConfirmRow ==
  ASSUME TypeOK, NEW c \in Call, Confirm(c)
  PROVE  /\ row'.status = "pending" /\ row'.orderId = OrderId(c)
         /\ row'.data = row.data /\ row'.log = row.log
         /\ row'.calculated = row.calculated /\ row'.final = row.final
         /\ row'.eligibility = row.eligibility
         /\ OrderId(c) \in Call => row' \in Row
<1>1. row' = [row EXCEPT !.orderId = OrderId(c), !.status = "pending"]
  BY DEF Confirm, Update
<1>2. QED BY <1>1 DEF TypeOK, Row, Status

LEMMA PatchRow ==
  ASSUME TypeOK, NEW c \in Call, Patch(c)
  PROVE  /\ row'.status = IF "status" \in op[c].columns THEN op[c].target ELSE row.status
         /\ row'.data = IF "data" \in op[c].columns THEN c ELSE row.data
         /\ row'.log = IF "log" \in op[c].columns THEN {c} ELSE row.log
         /\ row'.orderId = IF "orderId" \in op[c].columns THEN c ELSE row.orderId
         /\ row'.calculated = IF "calculated" \in op[c].columns THEN c ELSE row.calculated
         /\ row'.final = IF "final" \in op[c].columns THEN c ELSE row.final
         /\ \/ row'.eligibility = row.eligibility
            \/ "eligibility" \in op[c].columns /\ row'.eligibility.by = c
         /\ "documents" \in op[c].columns \/ row'.documents = row.documents
         /\ op[c].target \in Status => row' \in Row
<1> DEFINE s == IF "status" \in op[c].columns THEN op[c].target ELSE row.status
           d == IF "data" \in op[c].columns THEN c ELSE row.data
           l == IF "log" \in op[c].columns THEN {c} ELSE row.log
           o == IF "orderId" \in op[c].columns THEN c ELSE row.orderId
           k == IF "calculated" \in op[c].columns THEN c ELSE row.calculated
           f == IF "final" \in op[c].columns THEN c ELSE row.final
           e(v) == IF "eligibility" \in op[c].columns
                     THEN [by |-> c, data |-> row.data, documents |-> row.documents,
                           verdict |-> v]
                     ELSE row.eligibility
           m(t) == IF "documents" \in op[c].columns THEN t ELSE row.documents
<1>1. PICK v \in {"eligible", "ineligible"}, t \in DocumentStatus :
        row' = [status |-> s, data |-> d, log |-> l, orderId |-> o, calculated |-> k,
                final |-> f, eligibility |-> e(v), documents |-> m(t)]
  BY DEF Patch, Update
<1>2. [by |-> c, data |-> row.data, documents |-> row.documents, verdict |-> v] \in Decision
  BY DEF TypeOK, Row, Decision
<1>3. e(v) \in Decision \union {None} /\ m(t) \in DocumentStatus
  BY <1>2 DEF TypeOK, Row
<1>4. \/ e(v) = row.eligibility
      \/ "eligibility" \in op[c].columns /\ e(v).by = c
  OBVIOUS
<1>5. m(t) = row.documents \/ "documents" \in op[c].columns
  OBVIOUS
<1>6. /\ d \in Version /\ k \in Version \union {None} /\ f \in Version \union {None}
      /\ l \in SUBSET Version /\ o \in Call \union {None}
      /\ op[c].target \in Status => s \in Status
  BY DEF TypeOK, Row, Version
<1> DEFINE dec == e(v)
           doc == m(t)
<1>7. /\ dec \in Decision \union {None} /\ doc \in DocumentStatus
      /\ dec = row.eligibility \/ ("eligibility" \in op[c].columns /\ dec.by = c)
      /\ doc = row.documents \/ "documents" \in op[c].columns
      /\ row' = [status |-> s, data |-> d, log |-> l, orderId |-> o, calculated |-> k,
                 final |-> f, eligibility |-> dec, documents |-> doc]
  BY <1>1, <1>3, <1>4, <1>5
<1> HIDE DEF s, d, l, o, k, f, e, m, dec, doc
<1>8. /\ row'.status = s /\ row'.data = d /\ row'.log = l /\ row'.orderId = o
      /\ row'.calculated = k /\ row'.final = f
      /\ row'.eligibility = dec /\ row'.documents = doc
  BY <1>7
<1>9. op[c].target \in Status => row' \in Row
  BY <1>6, <1>7 DEF Row
<1>10. QED BY <1>7, <1>8, <1>9 DEF s, d, l, o, k, f

LEMMA CalculateRow ==
  ASSUME TypeOK, NEW c \in Call, Calculate(c)
  PROVE  /\ row'.calculated = seen[c].data /\ row'.final = seen[c].data
         /\ row'.status = row.status /\ row'.data = row.data /\ row'.log = row.log
         /\ row'.orderId = row.orderId /\ row'.eligibility = row.eligibility
         /\ seen[c] \in Row => row' \in Row
<1>1. row' = [row EXCEPT !.calculated = seen[c].data, !.final = seen[c].data]
  BY DEF Calculate, Update
<1>2. QED BY <1>1 DEF TypeOK, Row

LEMMA CheckEligibilityRow ==
  ASSUME TypeOK, NEW c \in Call, CheckEligibility(c), seen[c] \in Row
  PROVE  /\ row'.eligibility # None /\ row'.eligibility.data = seen[c].data
         /\ row'.eligibility.by = c
         /\ row'.status = row.status /\ row'.data = row.data /\ row'.log = row.log
         /\ row'.orderId = row.orderId
         /\ row'.calculated = row.calculated /\ row'.final = row.final
         /\ row' \in Row
<1>1. PICK v \in Verdicts(seen[c].documents) :
        row' = [row EXCEPT !.eligibility =
                  [by |-> c, data |-> seen[c].data, documents |-> seen[c].documents,
                   verdict |-> v]]
  BY DEF CheckEligibility, Update
<1>2. v \in {"eligible", "ineligible"}
  BY DEF Verdicts
<1>3. row'.eligibility = [by |-> c, data |-> seen[c].data, documents |-> seen[c].documents,
                           verdict |-> v]
  BY <1>1 DEF TypeOK, Row
<1>4. row'.eligibility \in Decision
  BY <1>2, <1>3 DEF Row, Decision
<1>5. row'.eligibility # None /\ row'.eligibility.data = seen[c].data /\ row'.eligibility.by = c
  BY <1>3, <1>4, DecisionAssumption
<1>6. QED BY <1>1, <1>4, <1>5 DEF TypeOK, Row

-----------------------------------------------------------------------------
(***************************************************************************)
(* Types, control and the origin of the log.                               *)
(***************************************************************************)

LEMMA StepSplit == ASSUME NEW c \in Call, Send(c) \/ Step(c) PROVE Quiet(c) \/ Writes(c)
BY DEF Step, Quiet, Writes

\* What confirm answers is an order id.
LEMMA OrderIdType ==
  ASSUME TypeOK, CallState, NEW c \in Call, seen[c] \in Row
  PROVE  OrderId(c) \in Call
BY DEF OrderId, Row

\* A writing call leaves a row of the right type.
LEMMA WritesRow ==
  ASSUME TypeOK, CallState, NEW c \in Call, Writes(c)
  PROVE  row' \in Row
<1>1. op[c] \in Operation /\ (pc[c] = "write" => seen[c] \in Row)
  BY Copies, WritesKeep
<1>2. CASE Resubmit(c)
  BY <1>1, <1>2, ResubmitRow DEF Resubmit, TypeOK, Row
<1>3. CASE SetStatus(c)
  BY <1>1, <1>3, SetStatusRow, OperationFields DEF SetStatus, Kind
<1>4. CASE Confirm(c)
  BY <1>1, <1>4, ConfirmRow, OrderIdType DEF Confirm
<1>5. CASE Patch(c)
  BY <1>1, <1>5, PatchRow, OperationFields, Copies DEF Patch, Kind
<1>6. CASE Calculate(c)
  BY <1>1, <1>6, CalculateRow DEF Calculate
<1>7. CASE CheckEligibility(c)
  BY <1>1, <1>7, CheckEligibilityRow DEF CheckEligibility
<1>8. QED BY <1>2, <1>3, <1>4, <1>5, <1>6, <1>7 DEF Writes

\* Every action keeps the types and the place of each call.
LEMMA StepTypes ==
  ASSUME TypeOK, CallState, NEW c \in Call, Send(c) \/ Step(c)
  PROVE  TypeOK' /\ CallState'
<1> USE CreatedAssumption DEF Goto, InFlight
<1>1. CASE Send(c)
  <2>1. PICK o \in Operation :
          /\ op' = [op EXCEPT ![c] = o]
          /\ pc' = [pc EXCEPT ![c] = IF o.kind = "patch" THEN "patch" ELSE "read"]
    BY <1>1 DEF Send
  <2>2. TypeOK'
    BY <1>1, <2>1 DEF Send, TypeOK
  <2>3. CallState'
    BY <1>1, <2>1 DEF Send, TypeOK, CallState, Kind, Docs, Holding
  <2>4. QED BY <2>2, <2>3
<1>2. CASE Read(c)
  <2>1. TypeOK'
    BY <1>2 DEF Read, TypeOK
  <2>2. CallState'
    BY <1>2 DEF Read, TypeOK, CallState, Kind, Docs, Holding
  <2>3. QED BY <2>1, <2>2
<1>3. CASE DeleteFiles(c)
  BY <1>3 DEF DeleteFiles, TypeOK, CallState, Kind, Docs, Holding
<1>4. CASE RecordFile(c)
  <2>1. op[c].docs \in 0..MaxDocs /\ Docs(c) = op[c].docs
    BY <1>4, OperationFields DEF RecordFile, More, CallState, Kind, Docs
  <2>2. <<c, next[c]>> \in Document
    BY <1>4, <2>1, BoundsAssumption DEF RecordFile, More, CallState, TypeOK, Document, Version
  <2>3. TypeOK'
    BY <1>4, <2>2 DEF RecordFile, More, TypeOK
  <2>4. CallState'
    BY <1>4, <2>1, BoundsAssumption DEF RecordFile, More, TypeOK, CallState, Kind, Docs, Holding
  <2>5. QED BY <2>3, <2>4
<1>5. CASE Fail(c)
  BY <1>5 DEF Fail, TypeOK, CallState, Kind, Docs, Holding
<1>6. CASE Writes(c)
  <2>1. /\ row' \in Row
        /\ pc[c] \in {"write", "patch"} /\ op[c] \in Operation
        /\ pc[c] = "write" => seen[c] \in Row
        /\ pc[c] = "patch" => Kind(c) = "patch"
    BY <1>6, WritesRow, WritesKeep, Copies
  <2>2. /\ pc' = [pc EXCEPT ![c] = pc'[c]]
        /\ pc'[c] = "record" => Resubmit(c) /\ Docs(c) > 0
        /\ pc'[c] \in {"record", "done"}
        /\ \E r : Update(c, r)
    <3>1. CASE Patch(c)
      BY <3>1, PatchUpdates DEF TypeOK
    <3>2. CASE ~ Patch(c)
      BY <1>6, <3>2 DEF Writes, Resubmit, SetStatus, Confirm, Calculate, CheckEligibility, TypeOK
    <3>3. QED BY <3>1, <3>2
  <2>3. TypeOK'
    BY <1>6, <2>1, <2>2, WritesKeep DEF Update, TypeOK
  <2>4. pc'[c] = "record" => Kind(c) = "resubmit" /\ next[c] <= Docs(c)
    <3>1. CASE pc'[c] = "record"
      <4>1. Kind(c) = "resubmit" /\ Docs(c) > 0 /\ next[c] = 1
        BY <2>1, <2>2, <3>1 DEF Resubmit, CallState
      <4>2. Docs(c) \in Nat
        BY <2>1, <4>1, OperationFields, BoundsAssumption DEF Docs, Kind
      <4>3. QED BY <4>1, <4>2
    <3>2. QED BY <3>1
  <2>5. ASSUME NEW d \in Call
        PROVE  /\ pc'[d] = "idle" \/ op'[d] \in Operation
               /\ pc'[d] \in {"idle", "read", "delete", "write", "patch"} =>
                    d \notin written' /\ next'[d] = 1
               /\ pc'[d] \in {"read", "delete", "write"} => Kind(d)' # "patch"
               /\ pc'[d] \in {"delete", "record"} => Kind(d)' = "resubmit" /\ Docs(d)' > 0
               /\ pc'[d] = "record" => next'[d] <= Docs(d)'
               /\ pc'[d] = "patch" => Kind(d)' = "patch"
               /\ d \in Holding' => seen'[d] \in Row
               /\ d \in written' /\ Kind(d)' # "patch" => seen'[d] \in Row
    <3>1. op' = op /\ seen' = seen /\ next' = next /\ written' = written \union {c}
      BY <1>6, WritesKeep
    <3>2. CASE d = c
      BY <2>1, <2>2, <2>4, <3>1, <3>2 DEF Kind, Docs, Holding
    <3>3. CASE d # c
      <4>1. pc'[d] = pc[d]
        BY <2>2, <3>3 DEF TypeOK
      <4>2. QED BY <3>1, <3>3, <4>1 DEF CallState, Kind, Docs, Holding
    <3>4. QED BY <3>2, <3>3
  <2>6. QED BY <2>3, <2>5 DEF CallState
<1>7. QED BY <1>1, <1>2, <1>3, <1>4, <1>5, <1>6, StepSplit DEF Quiet

\* A call that was carried out stays so, with what it was asked and had seen.
LEMMA WrittenKeep ==
  ASSUME TypeOK, CallState, NEW c \in Call, Send(c) \/ Step(c), NEW d \in written
  PROVE  /\ d \in Call /\ d \in written'
         /\ op'[d] = op[d] /\ seen'[d] = seen[d] /\ missed[d] \subseteq missed'[d]
         /\ Logs(d) => Logs(d)'
         /\ WritesData(d) => WritesData(d)'
         /\ OrderId(d)' = OrderId(d)
<1>1. d \in Call /\ pc[d] \notin {"idle", "read"}
  BY DEF TypeOK, CallState
<1>2. op'[d] = op[d] /\ seen'[d] = seen[d] /\ missed[d] \subseteq missed'[d] /\ d \in written'
  BY <1>1, OthersKeep, QuietKeeps, WritesKeep, StepSplit
<1>3. QED BY <1>1, <1>2 DEF Logs, WritesData, OrderId, Kind

\* What a PATCH wrote stays known as such.
LEMMA PatchedKept ==
  ASSUME TypeOK, CallState, NEW c \in Call, Send(c) \/ Step(c), NEW a, NEW column,
         PatchedBy(a, column)
  PROVE  PatchedBy(a, column)'
BY WrittenKeep DEF PatchedBy, Kind

LEMMA PatchedColumnKept ==
  ASSUME TypeOK, CallState, NEW c \in Call, Send(c) \/ Step(c), NEW column,
         Patched(column)
  PROVE  Patched(column)'
<1>1. PICK a \in written : PatchedBy(a, column)
  BY DEF Patched
<1>2. PatchedBy(a, column)' /\ a \in written'
  BY <1>1, PatchedKept, WrittenKeep
<1>3. QED BY <1>2 DEF Patched

\* A PATCH that wrote a column is known to have done so.
LEMMA PatchWrites ==
  ASSUME TypeOK, CallState, NEW c \in Call, Patch(c), NEW column,
         column \in op[c].columns
  PROVE  PatchedBy(c, column)' /\ Patched(column)'
<1>1. Kind(c) = "patch" /\ op' = op /\ c \in written'
  BY Copies, WritesKeep DEF Patch, Writes
<1>2. PatchedBy(c, column)'
  BY <1>1 DEF PatchedBy, Kind
<1>3. QED BY <1>1, <1>2 DEF Patched

\* The log and its copies keep naming calls that were carried out.
LEMMA StepLogState ==
  ASSUME TypeOK, CallState, LogState, NEW c \in Call, Send(c) \/ Step(c)
  PROVE  LogState'
<1>1. CASE Quiet(c)
  <2>1. row' = row /\ written' = written
    BY <1>1, QuietKeeps
  <2>2. ASSUME NEW d \in Holding' PROVE seen'[d].log \subseteq written' \union {Created}
    <3>1. CASE d = c
      BY <1>1, <2>1, <2>2, <3>1, QuietKeeps DEF LogState
    <3>2. CASE d # c
      BY <2>1, <2>2, <3>2, OthersKeep DEF LogState, Holding
    <3>3. QED BY <3>1, <3>2
  <2>3. QED BY <2>1, <2>2 DEF LogState
<1>2. CASE Writes(c)
  <2>1. /\ written' = written \union {c} /\ seen' = seen
        /\ c \notin Holding'
        /\ pc[c] = "write" => c \in Holding /\ seen[c] \in Row
    BY <1>2, WritesKeep, Copies
  <2>2. \/ row'.log \in {row.log, {c}}
        \/ row'.log = seen[c].log \union {c} /\ pc[c] = "write"
    <3>1. CASE Resubmit(c)
      BY <3>1, ResubmitRow DEF Resubmit
    <3>2. CASE SetStatus(c)
      BY <3>2, SetStatusRow DEF SetStatus
    <3>3. CASE Confirm(c)
      BY <3>3, ConfirmRow
    <3>4. CASE Patch(c)
      BY <3>4, PatchRow
    <3>5. CASE Calculate(c)
      BY <3>5, CalculateRow
    <3>6. CASE CheckEligibility(c)
      BY <2>1, <3>6, CheckEligibilityRow DEF CheckEligibility
    <3>7. QED BY <1>2, <3>1, <3>2, <3>3, <3>4, <3>5, <3>6 DEF Writes
  <2>3. row'.log \subseteq written' \union {Created}
    BY <2>1, <2>2 DEF LogState
  <2>4. ASSUME NEW d \in Holding' PROVE seen'[d].log \subseteq written' \union {Created}
    BY <2>1, <2>4, OthersKeep DEF LogState, Holding
  <2>5. QED BY <2>3, <2>4 DEF LogState
<1>3. QED BY <1>1, <1>2, StepSplit

-----------------------------------------------------------------------------
(***************************************************************************)
(* The log: an entry disappears only when a handler writes back a copy it  *)
(* took before the entry was written.                                      *)
(***************************************************************************)

LEMMA StepLog ==
  ASSUME TypeOK, CallState, HeldLog, EntryLostOnlyByOverlap,
         NEW c \in Call, Send(c) \/ Step(c)
  PROVE  HeldLog' /\ EntryLostOnlyByOverlap'
<1> SUFFICES ASSUME ~ Patched("log")' PROVE HeldLog' /\ EntryLostOnlyByOverlap'
  BY DEF HeldLog, EntryLostOnlyByOverlap
<1>0. ~ Patched("log")
  BY PatchedColumnKept
<1>1. CASE Quiet(c)
  <2>1. row' = row /\ written' = written /\ missed' = missed
    BY <1>1, QuietKeeps
  <2>2. \A a \in Call : Logs(a)' => Logs(a)
    BY <2>1, WrittenKeep DEF Logs, Kind
  <2>3. \A a \in Call : Logs(a) => Logs(a)'
    BY WrittenKeep DEF Logs
  <2>4. EntryLostOnlyByOverlap'
    BY <1>0, <2>1, <2>2, <2>3 DEF EntryLostOnlyByOverlap
  <2>5. ASSUME NEW d \in Holding', NEW a \in Call, Logs(a)'
        PROVE  a \in seen'[d].log \/ a \in missed'[d]
                 \/ \E e \in Call : Logs(e)' /\ a \in missed'[e]
    <3>1. Logs(a)
      BY <2>2, <2>5
    <3>2. CASE d \in Holding /\ seen'[d] = seen[d]
      BY <1>0, <2>1, <2>3, <3>1, <3>2 DEF HeldLog
    <3>3. CASE seen'[d] = row
      BY <1>0, <2>1, <2>3, <3>1, <3>3 DEF EntryLostOnlyByOverlap
    <3>4. (d \in Holding /\ seen'[d] = seen[d]) \/ seen'[d] = row
      <4>1. CASE d = c
        BY <1>1, <2>5, <4>1, QuietKeeps
      <4>2. CASE d # c
        BY <2>5, <4>2, OthersKeep DEF Holding
      <4>3. QED BY <4>1, <4>2
    <3>5. QED BY <3>2, <3>3, <3>4
  <2>6. QED BY <2>4, <2>5 DEF HeldLog
<1>2. CASE Writes(c)
  <2>1. /\ op' = op /\ seen' = seen /\ written' = written \union {c}
        /\ missed'[c] = missed[c]
        /\ \A d \in Call : missed[d] \subseteq missed'[d]
        /\ \A d \in Holding \ {c} : c \in missed'[d]
        /\ c \notin Holding'
    BY <1>2, WritesKeep
  <2>2. \A a \in Call : Logs(a) => Logs(a)'
    BY WrittenKeep DEF Logs
  <2>3. \A a \in Call : Logs(a)' => a = c \/ Logs(a)
    BY <2>1 DEF Logs, Kind
  <2>4. ASSUME NEW d \in Holding', NEW a \in Call, Logs(a)'
        PROVE  a \in seen'[d].log \/ a \in missed'[d]
                 \/ \E e \in Call : Logs(e)' /\ a \in missed'[e]
    <3>1. d \in Holding \ {c} /\ d \in Call
      BY <2>1, <2>4, OthersKeep DEF Holding
    <3>2. CASE a = c
      BY <2>1, <3>1, <3>2
    <3>3. CASE Logs(a)
      BY <1>0, <2>1, <2>2, <3>1, <3>3 DEF HeldLog
    <3>4. QED BY <2>3, <2>4, <3>2, <3>3
  <2>5. CASE row'.log = row.log /\ ~ Logs(c)'
    <3>1. \A a \in Call : Logs(a)' => Logs(a)
      BY <2>3, <2>5
    <3>2. EntryLostOnlyByOverlap'
      BY <1>0, <2>1, <2>2, <2>5, <3>1 DEF EntryLostOnlyByOverlap
    <3>3. QED BY <2>4, <3>2 DEF HeldLog
  <2>6. CASE row'.log = seen[c].log \union {c} /\ Logs(c)' /\ c \in Holding
    <3>1. ASSUME NEW a \in Call, Logs(a)'
          PROVE  a \in row'.log \/ \E d \in Call : Logs(d)' /\ a \in missed'[d]
      <4>1. CASE a = c
        BY <2>6, <4>1
      <4>2. CASE Logs(a)
        BY <1>0, <2>1, <2>2, <2>6, <4>2 DEF HeldLog
      <4>3. QED BY <2>3, <3>1, <4>1, <4>2
    <3>2. QED BY <2>4, <3>1 DEF HeldLog, EntryLostOnlyByOverlap
  <2>7. \/ row'.log = row.log /\ ~ Logs(c)'
        \/ row'.log = seen[c].log \union {c} /\ Logs(c)' /\ c \in Holding
    <3>1. CASE Resubmit(c)
      BY <2>1, <3>1, ResubmitRow DEF Resubmit, Holding, Logs, Kind
    <3>2. CASE SetStatus(c)
      BY <2>1, <3>2, SetStatusRow DEF SetStatus, Holding, Logs, Kind
    <3>3. CASE Confirm(c)
      BY <2>1, <3>3, ConfirmRow DEF Confirm, Logs, Kind
    <3>4. CASE Patch(c)
      <4>1. "log" \notin op[c].columns
        BY <3>4, PatchWrites
      <4>2. QED BY <2>1, <3>4, <4>1, PatchRow, Copies DEF Patch, Logs, Kind
    <3>5. CASE Calculate(c)
      BY <2>1, <3>5, CalculateRow DEF Calculate, Logs, Kind
    <3>6. CASE CheckEligibility(c)
      BY <2>1, <3>6, CheckEligibilityRow, Copies DEF CheckEligibility, Logs, Kind
    <3>7. QED BY <1>2, <3>1, <3>2, <3>3, <3>4, <3>5, <3>6 DEF Writes
  <2>8. QED BY <2>5, <2>6, <2>7
<1>3. QED BY <1>1, <1>2, StepSplit

-----------------------------------------------------------------------------
(***************************************************************************)
(* Decisions: every update that replaces the log also replaces the status. *)
(***************************************************************************)

LEMMA StepDecision ==
  ASSUME TypeOK, CallState, LogState, DecisionIsAudited, NEW c \in Call, Send(c) \/ Step(c)
  PROVE  DecisionIsAudited'
<1> USE CreatedAssumption
<1> SUFFICES ASSUME ~ Patched("log")' PROVE DecisionIsAudited'
  BY DEF DecisionIsAudited
<1>0. ~ Patched("log")
  BY PatchedColumnKept
<1>1. CASE row'.status = row.status /\ row'.log = row.log
  <2>1. ASSUME NEW a \in row.log \ {Created}
        PROVE  op'[a] = op[a]
    BY <2>1, WrittenKeep DEF LogState
  <2>2. \A a \in written : /\ a \in written' /\ op'[a] = op[a]
                           /\ PatchedBy(a, "status") => PatchedBy(a, "status")'
    BY WrittenKeep, PatchedKept
  <2>3. QED BY <1>0, <1>1, <2>1, <2>2 DEF DecisionIsAudited, Kind
<1>2. CASE Quiet(c)
  BY <1>1, <1>2, QuietKeeps
<1>3. CASE Resubmit(c)
  BY <1>3, ResubmitRow DEF DecisionIsAudited
<1>4. CASE SetStatus(c)
  <2>1. /\ row'.status = op[c].target /\ c \in row'.log
        /\ op' = op /\ Kind(c) = "status"
    BY <1>4, SetStatusRow, WritesKeep DEF SetStatus, Writes
  <2>2. QED BY <2>1 DEF DecisionIsAudited, Kind
<1>5. CASE Confirm(c)
  BY <1>5, ConfirmRow DEF DecisionIsAudited
<1>6. CASE Patch(c)
  <2>0. "log" \notin op[c].columns
    BY <1>6, PatchWrites
  <2>1. /\ row'.log = row.log
        /\ row'.status = IF "status" \in op[c].columns THEN op[c].target ELSE row.status
        /\ op' = op /\ written' = written \union {c} /\ Kind(c) = "patch"
    BY <1>6, <2>0, PatchRow, WritesKeep, Copies DEF Patch, Writes
  <2>2. CASE "status" \in op[c].columns
    BY <1>6, <2>1, <2>2, PatchWrites DEF DecisionIsAudited, Kind
  <2>3. QED BY <1>1, <2>1, <2>2
<1>7. CASE Calculate(c)
  BY <1>1, <1>7, CalculateRow
<1>8. CASE CheckEligibility(c)
  <2>1. seen[c] \in Row
    BY <1>8, Copies DEF CheckEligibility
  <2>2. QED BY <1>1, <1>8, <2>1, CheckEligibilityRow
<1>9. QED BY <1>2, <1>3, <1>4, <1>5, <1>6, <1>7, <1>8, StepSplit DEF Writes

-----------------------------------------------------------------------------
(***************************************************************************)
(* Derived values: a copy of the data grows stale only in the hands of a   *)
(* call that another one overtakes.                                        *)
(***************************************************************************)

\* Only resubmissions and patches replace the data.
LEMMA DataKept ==
  ASSUME TypeOK, CallState, NEW c \in Call, Send(c) \/ Step(c), row'.data # row.data
  PROVE  /\ WritesData(c)' /\ row'.data = c
         /\ Resubmit(c) \/ Patch(c)
<1>1. CASE Quiet(c)
  BY <1>1, QuietKeeps
<1>2. CASE Writes(c)
  <2>1. op' = op /\ c \in written'
    BY <1>2, WritesKeep
  <2>2. CASE Resubmit(c)
    BY <2>1, <2>2, ResubmitRow DEF Resubmit, WritesData, Kind
  <2>3. CASE Patch(c)
    BY <2>1, <2>3, PatchRow, Copies DEF Patch, WritesData, Kind
  <2>4. ~ SetStatus(c) /\ ~ Confirm(c) /\ ~ Calculate(c)
    BY SetStatusRow, ConfirmRow, CalculateRow
  <2>5. ~ CheckEligibility(c)
    BY CheckEligibilityRow, Copies DEF CheckEligibility
  <2>6. QED BY <1>2, <2>2, <2>3, <2>4, <2>5 DEF Writes
<1>3. QED BY <1>1, <1>2, StepSplit

LEMMA StepHeldData ==
  ASSUME TypeOK, CallState, HeldData, NEW c \in Call, Send(c) \/ Step(c)
  PROVE  HeldData'
<1> SUFFICES ASSUME NEW d \in Holding'
             PROVE  seen'[d].data = row'.data \/ \E e \in missed'[d] : WritesData(e)'
  BY DEF HeldData
<1>1. d \in Call
  BY DEF Holding
<1>2. \A e \in missed[d] : e \in Call /\ (WritesData(e) => WritesData(e)')
  BY <1>1, WrittenKeep DEF TypeOK, WritesData
<1>3. CASE Quiet(c)
  <2>1. row' = row /\ missed' = missed
    BY <1>3, QuietKeeps
  <2>2. (d \in Holding /\ seen'[d] = seen[d]) \/ seen'[d] = row
    <3>1. CASE d = c
      BY <1>3, <3>1, QuietKeeps
    <3>2. CASE d # c
      BY <1>1, <3>2, OthersKeep DEF Holding
    <3>3. QED BY <3>1, <3>2
  <2>3. QED BY <1>2, <2>1, <2>2 DEF HeldData
<1>4. CASE Writes(c)
  <2>1. d # c
    BY <1>4, WritesKeep
  <2>2. d \in Holding \ {c} /\ seen'[d] = seen[d]
    BY <1>1, <2>1, OthersKeep DEF Holding
  <2>3. c \in missed'[d] /\ missed[d] \subseteq missed'[d]
    BY <1>1, <1>4, <2>2, WritesKeep
  <2>4. CASE row'.data = row.data
    BY <1>2, <2>2, <2>3, <2>4 DEF HeldData
  <2>5. CASE row'.data # row.data
    BY <2>3, <2>5, DataKept
  <2>6. QED BY <2>4, <2>5
<1>5. QED BY <1>3, <1>4, StepSplit

\* A witness of an overlap stays one.
LEMMA OverlapKept ==
  ASSUME TypeOK, CallState, NEW c \in Call, Send(c) \/ Step(c), NEW a \in Call,
         \E d \in missed[a] : WritesData(d)
  PROVE  \E d \in missed'[a] : WritesData(d)'
<1>1. PICK d \in missed[a] : WritesData(d)
  OBVIOUS
<1>2. d \in written
  BY <1>1 DEF WritesData
<1>3. missed[a] \subseteq missed'[a]
  BY QuietKeeps, WritesKeep, StepSplit
<1>4. QED BY <1>1, <1>2, <1>3, WrittenKeep

LEMMA StepAmount ==
  ASSUME TypeOK, CallState, HeldData, AmountStaleOnlyByOverlap,
         NEW c \in Call, Send(c) \/ Step(c)
  PROVE  AmountStaleOnlyByOverlap'
<1>1. CASE row'.data = row.data /\ row'.calculated = row.calculated
  <2>1. CASE AmountIsCurrent
    BY <1>1, <2>1 DEF AmountStaleOnlyByOverlap, AmountIsCurrent
  <2>2. CASE \E a \in written : /\ Kind(a) = "calculate"
                                /\ seen[a].data = row.calculated
                                /\ \E d \in missed[a] : WritesData(d)
    <3>1. PICK a \in written : /\ Kind(a) = "calculate"
                               /\ seen[a].data = row.calculated
                               /\ \E d \in missed[a] : WritesData(d)
      BY <2>2
    <3>2. /\ a \in written' /\ op'[a] = op[a] /\ seen'[a] = seen[a]
          /\ \E d \in missed'[a] : WritesData(d)'
      BY <3>1, WrittenKeep, OverlapKept
    <3>3. QED BY <1>1, <3>1, <3>2 DEF AmountStaleOnlyByOverlap, Kind
  <2>3. CASE PatchedBy(row.data, "data")
    BY <1>1, <2>3, PatchedKept DEF AmountStaleOnlyByOverlap, PatchedBy, Kind
  <2>4. CASE PatchedBy(row.calculated, "calculated")
    BY <1>1, <2>4, PatchedKept DEF AmountStaleOnlyByOverlap, PatchedBy, Kind
  <2>5. QED BY <2>1, <2>2, <2>3, <2>4 DEF AmountStaleOnlyByOverlap
<1>2. CASE Quiet(c)
  BY <1>1, <1>2, QuietKeeps
<1>3. CASE Resubmit(c)
  BY <1>3, ResubmitRow DEF AmountStaleOnlyByOverlap, AmountIsCurrent
<1>4. CASE SetStatus(c)
  BY <1>1, <1>4, SetStatusRow
<1>5. CASE Confirm(c)
  BY <1>1, <1>5, ConfirmRow
<1>6. CASE Patch(c)
  <2>1. op' = op /\ c \in written' /\ Kind(c) = "patch"
    BY <1>6, WritesKeep, Copies DEF Writes, Patch
  <2>2. CASE "data" \in op[c].columns
    BY <1>6, <2>1, <2>2, PatchRow DEF AmountStaleOnlyByOverlap, PatchedBy, Kind
  <2>3. CASE "calculated" \in op[c].columns
    BY <1>6, <2>1, <2>3, PatchRow DEF AmountStaleOnlyByOverlap, PatchedBy, Kind
  <2>4. QED BY <1>1, <1>6, <2>2, <2>3, PatchRow
<1>7. CASE Calculate(c)
  <2>1. /\ c \in Holding /\ op' = op /\ seen' = seen /\ c \in written'
        /\ missed'[c] = missed[c]
    BY <1>7, WritesKeep, Copies DEF Writes, Calculate
  <2>2. row'.calculated = seen[c].data /\ row'.data = row.data
    BY <1>7, CalculateRow
  <2>3. CASE seen[c].data = row.data
    BY <2>2, <2>3 DEF AmountStaleOnlyByOverlap, AmountIsCurrent
  <2>4. CASE \E d \in missed[c] : WritesData(d)
    <3>1. PICK d \in missed[c] : WritesData(d)
      BY <2>4
    <3>2. d \in missed'[c] /\ WritesData(d)'
      BY <2>1, <3>1, WrittenKeep DEF WritesData
    <3>3. QED BY <1>7, <2>1, <2>2, <3>2 DEF AmountStaleOnlyByOverlap, Calculate, Kind
  <2>5. QED BY <2>1, <2>3, <2>4 DEF HeldData
<1>8. CASE CheckEligibility(c)
  <2>1. seen[c] \in Row
    BY <1>8, Copies DEF CheckEligibility
  <2>2. QED BY <1>1, <1>8, <2>1, CheckEligibilityRow
<1>9. QED BY <1>2, <1>3, <1>4, <1>5, <1>6, <1>7, <1>8, StepSplit DEF Writes

\* The two amounts part only by a PATCH.
LEMMA StepOneCalculation ==
  ASSUME TypeOK, CallState, OneCalculation, NEW c \in Call, Send(c) \/ Step(c)
  PROVE  OneCalculation'
<1>1. CASE row'.calculated = row.calculated /\ row'.final = row.final
  BY <1>1, PatchedKept DEF OneCalculation, PatchedBy, Kind
<1>2. CASE Quiet(c)
  BY <1>1, <1>2, QuietKeeps
<1>3. CASE Resubmit(c)
  BY <1>3, ResubmitRow DEF OneCalculation
<1>4. CASE SetStatus(c)
  BY <1>1, <1>4, SetStatusRow
<1>5. CASE Confirm(c)
  BY <1>1, <1>5, ConfirmRow
<1>6. CASE Patch(c)
  <2>1. op' = op /\ c \in written' /\ Kind(c) = "patch"
    BY <1>6, WritesKeep, Copies DEF Writes, Patch
  <2>2. CASE "final" \in op[c].columns
    BY <1>6, <2>1, <2>2, PatchRow DEF OneCalculation, PatchedBy, Kind
  <2>3. CASE "calculated" \in op[c].columns
    BY <1>6, <2>1, <2>3, PatchRow DEF OneCalculation, PatchedBy, Kind
  <2>4. QED BY <1>1, <1>6, <2>2, <2>3, PatchRow
<1>7. CASE Calculate(c)
  BY <1>7, CalculateRow DEF OneCalculation
<1>8. CASE CheckEligibility(c)
  <2>1. seen[c] \in Row
    BY <1>8, Copies DEF CheckEligibility
  <2>2. QED BY <1>1, <1>8, <2>1, CheckEligibilityRow
<1>9. QED BY <1>2, <1>3, <1>4, <1>5, <1>6, <1>7, <1>8, StepSplit DEF Writes

LEMMA StepEligibility ==
  ASSUME TypeOK, CallState, HeldData, EligibilityStaleOnlyByOverlap,
         NEW c \in Call, Send(c) \/ Step(c)
  PROVE  EligibilityStaleOnlyByOverlap'
<1>1. CASE row'.data = row.data /\ row'.eligibility = row.eligibility
  <2>1. CASE row.eligibility = None \/ row.eligibility.data = row.data
    BY <1>1, <2>1 DEF EligibilityStaleOnlyByOverlap
  <2>2. CASE \E d \in missed[row.eligibility.by] : WritesData(d)
    <3>1. CASE row.eligibility = None
      BY <2>1, <3>1
    <3>2. CASE row.eligibility # None
      <4>1. row.eligibility.by \in Call
        BY <3>2 DEF TypeOK, Row, Decision
      <4>2. \E d \in missed'[row.eligibility.by] : WritesData(d)'
        BY <2>2, <4>1, OverlapKept
      <4>3. QED BY <1>1, <4>2 DEF EligibilityStaleOnlyByOverlap
    <3>3. QED BY <3>1, <3>2
  <2>3. CASE PatchedBy(row.data, "data")
    BY <1>1, <2>3, PatchedKept DEF EligibilityStaleOnlyByOverlap, PatchedBy, Kind
  <2>4. CASE PatchedBy(row.eligibility.by, "eligibility")
    BY <1>1, <2>4, PatchedKept DEF EligibilityStaleOnlyByOverlap, PatchedBy, Kind
  <2>5. QED BY <2>1, <2>2, <2>3, <2>4 DEF EligibilityStaleOnlyByOverlap
<1>2. CASE Quiet(c)
  BY <1>1, <1>2, QuietKeeps
<1>3. CASE Resubmit(c)
  BY <1>3, ResubmitRow DEF EligibilityStaleOnlyByOverlap
<1>4. CASE SetStatus(c)
  BY <1>1, <1>4, SetStatusRow
<1>5. CASE Confirm(c)
  BY <1>1, <1>5, ConfirmRow
<1>6. CASE Patch(c)
  <2>1. op' = op /\ c \in written' /\ Kind(c) = "patch"
    BY <1>6, WritesKeep, Copies DEF Writes, Patch
  <2>2. CASE "data" \in op[c].columns
    BY <1>6, <2>1, <2>2, PatchRow DEF EligibilityStaleOnlyByOverlap, PatchedBy, Kind
  <2>3. CASE "eligibility" \in op[c].columns /\ row'.eligibility.by = c
    BY <1>6, <2>3, PatchWrites DEF EligibilityStaleOnlyByOverlap
  <2>4. QED BY <1>1, <1>6, <2>2, <2>3, PatchRow
<1>7. CASE Calculate(c)
  BY <1>1, <1>7, CalculateRow
<1>8. CASE CheckEligibility(c)
  <2>1. /\ c \in Holding /\ op' = op /\ seen' = seen /\ c \in written'
        /\ missed'[c] = missed[c] /\ seen[c] \in Row
    BY <1>8, WritesKeep, Copies DEF Writes, CheckEligibility
  <2>2. row'.eligibility.data = seen[c].data /\ row'.eligibility.by = c /\ row'.data = row.data
    BY <1>8, <2>1, CheckEligibilityRow
  <2>3. CASE seen[c].data = row.data
    BY <2>2, <2>3 DEF EligibilityStaleOnlyByOverlap
  <2>4. CASE \E d \in missed[c] : WritesData(d)
    <3>1. PICK d \in missed[c] : WritesData(d)
      BY <2>4
    <3>2. d \in missed'[c] /\ WritesData(d)'
      BY <2>1, <3>1, WrittenKeep DEF WritesData
    <3>3. QED BY <1>8, <2>1, <2>2, <3>2
              DEF EligibilityStaleOnlyByOverlap, CheckEligibility, Kind
  <2>5. QED BY <2>1, <2>3, <2>4 DEF HeldData
<1>9. QED BY <1>2, <1>3, <1>4, <1>5, <1>6, <1>7, <1>8, StepSplit DEF Writes

-----------------------------------------------------------------------------
(***************************************************************************)
(* Order ids: an answered id is replaced only by a confirm that was        *)
(* already in progress when the id was written.                            *)
(***************************************************************************)

\* Only confirm, and a PATCH that was given one, writes the order id.
LEMMA OrderKept ==
  ASSUME TypeOK, CallState, NEW c \in Call, Send(c) \/ Step(c), ~ Confirm(c),
         ~ Patched("orderId")'
  PROVE  /\ row'.orderId = row.orderId
         /\ \A a \in written' : a \in written \/ Kind(a)' # "confirm"
<1>1. CASE Quiet(c)
  BY <1>1, QuietKeeps
<1>2. CASE Writes(c)
  <2>1. op' = op /\ written' = written \union {c}
    BY <1>2, WritesKeep
  <2>2. Kind(c) # "confirm"
    BY <1>2, Copies DEF Writes, Resubmit, SetStatus, Patch, Calculate, CheckEligibility
  <2>3. CASE CheckEligibility(c)
    <3>1. seen[c] \in Row
      BY <2>3, Copies DEF CheckEligibility
    <3>2. QED BY <2>1, <2>2, <2>3, <3>1, CheckEligibilityRow DEF Kind
  <2>4. CASE ~ CheckEligibility(c)
    <3>1. Patch(c) => "orderId" \notin op[c].columns
      BY PatchWrites
    <3>2. QED
      BY <1>2, <2>1, <2>2, <2>4, <3>1, ResubmitRow, SetStatusRow, PatchRow, CalculateRow
      DEF Writes, Kind
  <2>5. QED BY <2>3, <2>4
<1>3. QED BY <1>1, <1>2, StepSplit

LEMMA StepOrder ==
  ASSUME TypeOK, CallState, HeldOrder, OrderIdLostOnlyByOverlap,
         NEW c \in Call, Send(c) \/ Step(c)
  PROVE  HeldOrder' /\ OrderIdLostOnlyByOverlap'
<1> SUFFICES ASSUME ~ Patched("orderId")' PROVE HeldOrder' /\ OrderIdLostOnlyByOverlap'
  BY DEF HeldOrder, OrderIdLostOnlyByOverlap
<1>0. ~ Patched("orderId")
  BY PatchedColumnKept
<1> DEFINE Lost(a) == \E e \in written : Kind(e) = "confirm" /\ a \in missed[e]
<1>1. ASSUME NEW a \in Call, Lost(a) PROVE Lost(a)'
  BY <1>1, WrittenKeep DEF Kind
<1>2. ASSUME NEW a \in written, Kind(a)' = "confirm"
      PROVE  a \in Call /\ Kind(a) = "confirm" /\ OrderId(a)' = OrderId(a)
  BY <1>2, WrittenKeep DEF Kind
<1>3. CASE ~ Confirm(c)
  <2>1. /\ row'.orderId = row.orderId
        /\ \A a \in written' : a \in written \/ Kind(a)' # "confirm"
    BY <1>3, OrderKept
  <2>2. OrderIdLostOnlyByOverlap'
    BY <1>0, <1>1, <1>2, <2>1 DEF OrderIdLostOnlyByOverlap
  <2>3. ASSUME NEW d \in Holding', NEW a \in written', Kind(a)' = "confirm"
        PROVE  seen'[d].orderId = OrderId(a)' \/ a \in missed'[d] \/ Lost(a)'
    <3>1. a \in written /\ a \in Call /\ Kind(a) = "confirm" /\ OrderId(a)' = OrderId(a)
      BY <1>2, <2>1, <2>3
    <3>2. d \in Call
      BY <2>3 DEF Holding
    <3>3. CASE d \in Holding /\ seen'[d] = seen[d]
      <4>1. missed[d] \subseteq missed'[d]
        BY <3>2, QuietKeeps, WritesKeep, StepSplit
      <4>2. QED BY <1>0, <1>1, <3>1, <3>3, <4>1 DEF HeldOrder
    <3>4. CASE seen'[d] = row
      BY <1>0, <1>1, <3>1, <3>4 DEF OrderIdLostOnlyByOverlap
    <3>5. (d \in Holding /\ seen'[d] = seen[d]) \/ seen'[d] = row
      BY <2>3, <3>2, QuietKeeps, WritesKeep, OthersKeep, StepSplit
    <3>6. QED BY <3>3, <3>4, <3>5
  <2>4. QED BY <2>2, <2>3 DEF HeldOrder
<1>4. CASE Confirm(c)
  <2>1. /\ Writes(c) /\ Kind(c) = "confirm" /\ c \in Holding
        /\ seen[c] \in Row /\ c \notin written
    BY <1>4, Copies DEF Confirm, Writes
  <2>2. /\ op' = op /\ seen' = seen /\ written' = written \union {c}
        /\ c \notin Holding' /\ missed'[c] = missed[c]
        /\ \A d \in Call : missed[d] \subseteq missed'[d]
        /\ \A d \in Holding \ {c} : c \in missed'[d]
    BY <2>1, WritesKeep
  <2>3. row'.orderId = OrderId(c) /\ OrderId(c)' = OrderId(c)
    BY <1>4, <2>2, ConfirmRow DEF OrderId
  <2>4. ASSUME NEW a \in written', Kind(a)' = "confirm"
        PROVE  row'.orderId = OrderId(a)' \/ Lost(a)'
    <3>1. CASE a = c
      BY <2>3, <3>1
    <3>2. CASE a # c
      <4>1. a \in written /\ a \in Call /\ Kind(a) = "confirm" /\ OrderId(a)' = OrderId(a)
        BY <1>2, <2>2, <2>4, <3>2
      <4>2. CASE seen[c].orderId = OrderId(a)
        <5>1. seen[a] \in Row
          BY <4>1 DEF CallState
        <5>2. OrderId(a) # None
          BY <4>1, <5>1, OrderIdType, CreatedAssumption
        <5>3. QED BY <2>3, <4>1, <4>2, <5>2 DEF OrderId
      <4>3. CASE a \in missed[c]
        <5>1. c \in written' /\ Kind(c)' = "confirm" /\ a \in missed'[c]
          BY <2>1, <2>2, <4>3 DEF Kind
        <5>2. QED BY <5>1
      <4>4. CASE Lost(a)
        BY <1>1, <4>1, <4>4
      <4>5. QED BY <1>0, <2>1, <4>1, <4>2, <4>3, <4>4 DEF HeldOrder
    <3>3. QED BY <3>1, <3>2
  <2>5. ASSUME NEW d \in Holding', NEW a \in written', Kind(a)' = "confirm"
        PROVE  seen'[d].orderId = OrderId(a)' \/ a \in missed'[d] \/ Lost(a)'
    <3>1. d \in Holding \ {c} /\ d \in Call
      BY <2>2, <2>5, OthersKeep DEF Holding
    <3>2. CASE a = c
      BY <2>2, <3>1, <3>2
    <3>3. CASE a # c
      <4>1. a \in written /\ a \in Call /\ Kind(a) = "confirm" /\ OrderId(a)' = OrderId(a)
        BY <1>2, <2>2, <2>5, <3>3
      <4>2. QED BY <1>0, <1>1, <2>2, <3>1, <4>1 DEF HeldOrder
    <3>4. QED BY <3>2, <3>3
  <2>6. QED BY <2>4, <2>5 DEF HeldOrder, OrderIdLostOnlyByOverlap
<1>5. QED BY <1>3, <1>4

-----------------------------------------------------------------------------
(***************************************************************************)
(* Documents: nothing removes a document but the deletion of a             *)
(* resubmission, so the submission that deleted last keeps what it stored. *)
(***************************************************************************)

\* Last(a): what LastDeleter says of one submission.
Last(a) ==
  \/ /\ a = Created
     /\ Submitted(Created) \subseteq files
  \/ /\ a \in Call /\ pc[a] # "idle" /\ Kind(a) = "resubmit" /\ Docs(a) > 0
     /\ \/ pc[a] \in {"write", "failed"}
        \/ /\ pc[a] = "record"
           /\ {<<a, i>> : i \in 1..(next[a] - 1)} \subseteq files
        \/ /\ pc[a] = "done"
           /\ Submitted(a) \subseteq files

\* A step of another call that deletes nothing leaves the submission as it is.
LEMMA LastOther ==
  ASSUME TypeOK, CallState, NEW c \in Call, Send(c) \/ Step(c), NEW a \in Version,
         Last(a), a # c, files \subseteq files'
  PROVE  Last(a)'
<1>1. CASE a = Created
  <2>1. Submitted(Created)' = Submitted(Created)
    BY DEF Submitted, Docs
  <2>2. QED BY <1>1, <2>1, CreatedAssumption DEF Last
<1>2. CASE a \in Call
  <2>1. pc'[a] = pc[a] /\ op'[a] = op[a] /\ next'[a] = next[a]
    BY <1>2, OthersKeep
  <2>2. Kind(a)' = Kind(a) /\ Docs(a)' = Docs(a) /\ Submitted(a)' = Submitted(a)
    BY <1>2, <2>1, CreatedAssumption DEF Kind, Docs, Submitted
  <2>3. QED BY <1>2, <2>1, <2>2, CreatedAssumption DEF Last
<1>3. QED BY <1>1, <1>2 DEF Version

LEMMA StepLastDeleter ==
  ASSUME TypeOK, CallState, LastDeleter, NEW c \in Call, Send(c) \/ Step(c)
  PROVE  LastDeleter'
<1> USE CreatedAssumption
<1>1. \A a \in Version : Last(a)' => LastDeleter'
  BY DEF Last, LastDeleter
<1>2. PICK a \in Version : Last(a)
  BY DEF Last, LastDeleter
<1>3. CASE DeleteFiles(c)
  <2>1. pc'[c] = "write" /\ op' = op /\ Kind(c) = "resubmit" /\ Docs(c) > 0
    BY <1>3 DEF DeleteFiles, Goto, TypeOK, CallState
  <2>2. Last(c)'
    BY <2>1 DEF Last, Kind, Docs
  <2>3. QED BY <1>1, <2>2 DEF Version
<1>4. CASE ~ DeleteFiles(c)
  <2>1. files \subseteq files'
    BY <1>4 DEF Send, Step, Read, Resubmit, RecordFile, More, SetStatus, Confirm, Patch,
                Calculate, CheckEligibility, Fail
  <2>2. CASE a # c
    BY <1>1, <1>2, <2>1, <2>2, LastOther
  <2>3. CASE a = c
    <3>1. /\ pc[c] \in {"write", "failed", "record", "done"} /\ pc[c] # "idle"
          /\ Kind(c) = "resubmit" /\ Docs(c) > 0 /\ Docs(c) = op[c].docs
          /\ op[c] \in Operation
      BY <1>2, <2>3 DEF Last, CallState, Docs
    <3>2. ~ Send(c) /\ ~ Read(c) /\ ~ SetStatus(c) /\ ~ Confirm(c) /\ ~ Patch(c)
            /\ ~ Calculate(c) /\ ~ CheckEligibility(c)
      BY <3>1 DEF Send, Read, SetStatus, Confirm, Patch, Calculate, CheckEligibility
    <3>3. op' = op /\ Kind(c)' = Kind(c) /\ Docs(c)' = Docs(c)
      BY <1>4, <3>2 DEF Step, Resubmit, RecordFile, More, Fail, Kind, Docs
    <3>4. CASE Resubmit(c)
      <4>1. pc'[c] = "record" /\ next'[c] = 1
        BY <3>1, <3>4 DEF Resubmit, Goto, TypeOK, CallState
      <4>2. {<<c, i>> : i \in 1..(next'[c] - 1)} \subseteq files'
        BY <4>1
      <4>3. Last(c)'
        BY <3>1, <3>3, <4>1, <4>2 DEF Last
      <4>4. QED BY <1>1, <4>3 DEF Version
    <3>5. CASE RecordFile(c)
      <4>1. /\ pc[c] = "record" /\ files' = files \union {<<c, next[c]>>}
            /\ {<<c, i>> : i \in 1..(next[c] - 1)} \subseteq files
            /\ next[c] \in Nat \ {0} /\ next[c] <= Docs(c) /\ Docs(c) \in Nat
        BY <1>2, <2>3, <3>1, <3>5, OperationFields DEF RecordFile, More, Last, TypeOK, CallState, Kind
      <4>2. \A i \in 1..next[c] : <<c, i>> \in files'
        <5>1. SUFFICES ASSUME NEW i \in 1..next[c] PROVE <<c, i>> \in files'
          OBVIOUS
        <5>2. CASE i = next[c]
          BY <4>1, <5>2
        <5>3. CASE i \in 1..(next[c] - 1)
          BY <4>1, <5>3
        <5>4. QED BY <4>1, <5>2, <5>3
      <4>3. CASE next[c] < Docs(c)
        <5>1. pc'[c] = "record" /\ next'[c] = next[c] + 1
          BY <3>5, <4>1, <4>3 DEF RecordFile, More, TypeOK
        <5>2. \A i \in 1..(next'[c] - 1) : <<c, i>> \in files'
          BY <4>1, <4>2, <5>1
        <5>3. Last(c)'
          BY <3>1, <3>3, <5>1, <5>2 DEF Last
        <5>4. QED BY <1>1, <5>3 DEF Version
      <4>4. CASE ~(next[c] < Docs(c))
        <5>1. pc'[c] = "done" /\ next[c] = Docs(c)
          BY <3>5, <4>1, <4>4 DEF RecordFile, More, TypeOK, Goto
        <5>2. Submitted(c)' \subseteq files'
          BY <3>3, <4>2, <5>1 DEF Submitted
        <5>3. Last(c)'
          BY <3>1, <3>3, <5>1, <5>2 DEF Last
        <5>4. QED BY <1>1, <5>3 DEF Version
      <4>5. QED BY <4>3, <4>4
    <3>6. CASE Fail(c)
      <4>1. pc'[c] = "failed"
        BY <3>6 DEF Fail, Goto, TypeOK
      <4>2. Last(c)'
        BY <3>1, <3>3, <4>1 DEF Last
      <4>3. QED BY <1>1, <4>2 DEF Version
    <3>7. QED BY <1>4, <3>2, <3>4, <3>5, <3>6 DEF Step
  <2>4. QED BY <2>2, <2>3
<1>5. QED BY <1>3, <1>4

-----------------------------------------------------------------------------

\* Every step keeps the inductive invariant.
LEMMA LifecycleNextInv == LifecycleInv /\ [Next]_vars => LifecycleInv'
<1> SUFFICES ASSUME LifecycleInv, [Next]_vars PROVE LifecycleInv'
  OBVIOUS
<1>1. CASE Next
  <2>1. PICK c \in Call : Send(c) \/ Step(c)
    BY <1>1 DEF Next
  <2>2. QED
    BY <2>1, StepTypes, StepLogState, StepLog, StepDecision, StepHeldData, StepAmount,
       StepOneCalculation, StepEligibility, StepOrder, StepLastDeleter
    DEF LifecycleInv
<1>2. CASE UNCHANGED vars
  <2> USE <1>2 DEF vars, Kind
  <2>1. TypeOK' = TypeOK
    BY DEF TypeOK
  <2>2. CallState' = CallState /\ LogState' = LogState
    BY DEF CallState, LogState, Holding, Docs
  <2>3. HeldLog' = HeldLog /\ EntryLostOnlyByOverlap' = EntryLostOnlyByOverlap
    BY DEF HeldLog, EntryLostOnlyByOverlap, Logs, Holding, Patched, PatchedBy
  <2>4. DecisionIsAudited' = DecisionIsAudited
    BY DEF DecisionIsAudited, Patched, PatchedBy
  <2>5. /\ HeldData' = HeldData /\ AmountStaleOnlyByOverlap' = AmountStaleOnlyByOverlap
        /\ OneCalculation' = OneCalculation
        /\ EligibilityStaleOnlyByOverlap' = EligibilityStaleOnlyByOverlap
    BY DEF HeldData, AmountStaleOnlyByOverlap, AmountIsCurrent, OneCalculation,
           EligibilityStaleOnlyByOverlap, WritesData, PatchedBy, Holding
  <2>6. HeldOrder' = HeldOrder /\ OrderIdLostOnlyByOverlap' = OrderIdLostOnlyByOverlap
    BY DEF HeldOrder, OrderIdLostOnlyByOverlap, OrderId, Holding, Patched, PatchedBy
  <2>7. LastDeleter' = LastDeleter
    BY DEF LastDeleter, Submitted, Docs
  <2>8. QED BY <2>1, <2>2, <2>3, <2>4, <2>5, <2>6, <2>7 DEF LifecycleInv
<1>3. QED BY <1>1, <1>2

\* The inductive invariant holds in every behaviour.
THEOREM LifecycleInvariant == Spec => []LifecycleInv
BY LifecycleInitInv, LifecycleNextInv, PTL DEF Spec

\* Type correctness of the lifecycle, for every value of the constants.
THEOREM LifecycleTypeOK == Spec => []TypeOK
<1>1. LifecycleInv => TypeOK
  BY DEF LifecycleInv
<1>2. QED BY LifecycleInvariant, <1>1, PTL

\* An entry of the action log is lost only to a handler that read the row
\* before the entry was written (updateStatus, updateApplication).
THEOREM AuditEntriesLostOnlyByOverlap == Spec => []EntryLostOnlyByOverlap
<1>1. LifecycleInv => EntryLostOnlyByOverlap
  BY DEF LifecycleInv
<1>2. QED BY LifecycleInvariant, <1>1, PTL

\* An approval or rejection that was not patched in is in the log, under any
\* interleaving (updateStatus).
THEOREM DecisionsAreAudited == Spec => []DecisionIsAudited
<1>1. LifecycleInv => DecisionIsAudited
  BY DEF LifecycleInv
<1>2. QED BY LifecycleInvariant, <1>1, PTL

\* A stored calculation is stale only if the data was replaced while it was
\* being made, or by a patch (calculateBenefit, updateApplication).
THEOREM AmountsStaleOnlyByOverlap == Spec => []AmountStaleOnlyByOverlap
<1>1. LifecycleInv => AmountStaleOnlyByOverlap
  BY DEF LifecycleInv
<1>2. QED BY LifecycleInvariant, <1>1, PTL

\* The same of an eligibility decision (checkEligibility).
THEOREM EligibilityDecisionsStaleOnlyByOverlap == Spec => []EligibilityStaleOnlyByOverlap
<1>1. LifecycleInv => EligibilityStaleOnlyByOverlap
  BY DEF LifecycleInv
<1>2. QED BY LifecycleInvariant, <1>1, PTL

\* An answered order id is replaced only by an overlapping confirm
\* (BenefitsService.confirm).
THEOREM OrderIdsLostOnlyByOverlap == Spec => []OrderIdLostOnlyByOverlap
<1>1. LifecycleInv => OrderIdLostOnlyByOverlap
  BY DEF LifecycleInv
<1>2. QED BY LifecycleInvariant, <1>1, PTL

\* Unless a resubmission is in progress or failed, the application holds a
\* complete set of documents of one submission (updateApplication).
THEOREM CompleteSetsUnlessInterrupted == Spec => []CompleteSetUnlessInterrupted
<1>1. LifecycleInv => CompleteSetUnlessInterrupted
  BY DEF LifecycleInv, LastDeleter, CompleteSetUnlessInterrupted
<1>2. QED BY LifecycleInvariant, <1>1, PTL

\* finalAmount describes replaced data only until the calculation after a
\* resubmission, after an overlap or after a PATCH (updateApplication,
\* calculateBenefit).
THEOREM FinalAmountsStaleOnlyByOverlap == Spec => []FinalStaleOnlyByOverlap
<1>1. LifecycleInv => FinalStaleOnlyByOverlap
  BY DEF LifecycleInv, AmountStaleOnlyByOverlap, AmountIsCurrent, OneCalculation,
         FinalStaleOnlyByOverlap
<1>2. QED BY <1>1, LifecycleInvariant, PTL

\* calculatedAmount and the eligibility decision describe replaced data only after
\* an overlap or a PATCH, and finalAmount also until the calculation after a
\* resubmission.
THEOREM DerivedValuesStaleOnlyByOverlap == Spec => []DerivedStaleOnlyByOverlap
BY AmountsStaleOnlyByOverlap, FinalAmountsStaleOnlyByOverlap,
   EligibilityDecisionsStaleOnlyByOverlap, PTL
DEF DerivedStaleOnlyByOverlap
=============================================================================
