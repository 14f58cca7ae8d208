-------------------------- MODULE VerificationProofs --------------------------
(***************************************************************************)
(* What document verification guarantees beside the handlers of Lifecycle, *)
(* for any number of both and of documents.                                *)
(***************************************************************************)
EXTENDS Verification, LifecycleProofs

\* A verifier at work on the documents it listed.
Working(v) == vpc[v] \in VInFlight \ {"list"}

\* Every document is marked verified, and none is about to be added.
Sound == AllMarked /\ NoneRecords

\* The initial state satisfies the inductive invariant.
LEMMA VInitInv == VInit => VInv
<1> SUFFICES ASSUME VInit PROVE VInv
  OBVIOUS
<1> USE DEF VInit
<1>1. LifecycleInv
  BY LifecycleInitInv
<1>2. VTypeOK
  BY <1>1 DEF LifecycleInv, VTypeOK, Mark, Doubt
<1>3. VerifierState /\ CountedAsMarked /\ VerdictMatchesMarks
  BY DEF VerifierState, CountedAsMarked, VerdictMatchesMarks, VInFlight
<1>4. /\ pc = [c \in Call |-> "idle"] /\ row.documents = None /\ row.eligibility = None
      /\ missed = [c \in Call |-> {}]
  BY DEF Init
<1>5. row.documents # "verified"
  BY <1>4, VerdictAssumption
<1>6. NothingAddedToVerified /\ VerifiedUnlessDisturbed
  BY <1>5 DEF NothingAddedToVerified, VerifiedUnlessDisturbed
<1>7. /\ HeldDocuments /\ NothingAddedToEligible /\ EligibleOnVerifiedDocuments
      /\ MissedWritten /\ DecisionWritten
  BY <1>4 DEF HeldDocuments, NothingAddedToEligible, EligibleOnVerifiedDocuments, Holding,
              MissedWritten, DecisionWritten
<1>8. QED BY <1>1, <1>2, <1>3, <1>6, <1>7 DEF VInv

-----------------------------------------------------------------------------
(***************************************************************************)
(* A step of another handler.                                              *)
(***************************************************************************)

\* A verifier at work that a step leaves undisturbed finds the documents, their
\* marks and the verdict as they were.
LEMMA Undisturbed ==
  ASSUME VTypeOK, NEW actor, Disturb(actor), NEW w \in Verifier, ~disturbed'[w]
  PROVE  /\ ~disturbed[w]
         /\ w # actor /\ Working(w) =>
              files' = files /\ marks' = marks /\ row'.documents = row.documents
<1>1. disturbed' = [v \in Verifier |->
        \/ disturbed[v]
        \/ /\ v # actor
           /\ vpc[v] \in VInFlight \ {"list"}
           /\ <<files', marks', row'.documents>> # <<files, marks, row.documents>>]
  BY DEF Disturb
<1>2. QED BY <1>1 DEF Working

\* A step of a handler is a step of Lifecycle.
LEMMA HandlerStep ==
  ASSUME LifecycleStep
  PROVE  /\ \E c \in Call : Send(c) \/ Step(c)
         /\ vpc' = vpc /\ asked' = asked /\ todo' = todo /\ current' = current
         /\ outcome' = outcome /\ valid' = valid /\ invalid' = invalid /\ marks' = marks
         /\ \A v \in Verifier : Verdict(v)' = Verdict(v)
         /\ Disturb(None)
BY DEF LifecycleStep, verifierVars, Verdict

\* What a step of a handler leaves of the doubts.
LEMMA HandlerDoubts ==
  ASSUME LifecycleStep
  PROVE  /\ row'.documents = "verified" =>
              (row'.documents = row.documents /\ doubt' = doubt) \/ doubt' # {}
         /\ \A d \in Call : pc[d] # "read" => doubts'[d] = doubts[d]
         /\ \A d \in Call : pc[d] = "read" /\ pc'[d] # "read" => doubts'[d] = doubt
<1>1. /\ doubt' = IF row'.documents \in {row.documents, None} THEN doubt ELSE {"patched"}
      /\ doubts' = [c \in Call |-> IF pc[c] = "read" /\ pc'[c] # "read" THEN doubt
                                                                       ELSE doubts[c]]
  BY DEF LifecycleStep
<1>2. QED BY <1>1, VerdictAssumption

\* A decision is made by a check or a PATCH, and unmade by a resubmission.
LEMMA DecisionKept ==
  ASSUME TypeOK, CallState, NEW c \in Call, Send(c) \/ Step(c)
  PROVE  \/ row'.eligibility = row.eligibility /\ ~Resubmit(c)
         \/ row'.eligibility = None
         \/ CheckEligibility(c) /\ row'.eligibility.by = c
         \/ Patch(c) /\ row'.eligibility.by = c /\ PatchedBy(c, "eligibility")'
<1>1. CASE Quiet(c)
  <2>1. ~Resubmit(c)
    BY <1>1, QuietKeeps, WritesKeep, Copies DEF Writes
  <2>2. QED BY <1>1, <2>1, QuietKeeps
<1>2. CASE Resubmit(c)
  BY <1>2, ResubmitRow
<1>3. CASE SetStatus(c)
  BY <1>3, SetStatusRow DEF SetStatus, Resubmit
<1>4. CASE Confirm(c)
  BY <1>4, ConfirmRow DEF Confirm, Resubmit
<1>5. CASE Patch(c)
  <2>1. \/ row'.eligibility = row.eligibility
        \/ "eligibility" \in op[c].columns /\ row'.eligibility.by = c
    BY <1>5, PatchRow
  <2>2. ~Resubmit(c)
    BY <1>5 DEF Patch, Resubmit
  <2>3. QED BY <1>5, <2>1, <2>2, PatchWrites
<1>6. CASE Calculate(c)
  BY <1>6, CalculateRow DEF Calculate, Resubmit
<1>7. CASE CheckEligibility(c)
  BY <1>7, CheckEligibilityRow, Copies DEF CheckEligibility
<1>8. QED BY <1>1, <1>2, <1>3, <1>4, <1>5, <1>6, <1>7, StepSplit DEF Writes

\* A call that updated the row is not asked for something else afterwards.
LEMMA MissedKept ==
  ASSUME TypeOK, CallState, MissedWritten, NEW c \in Call, Send(c) \/ Step(c)
  PROVE  /\ MissedWritten'
         /\ \A d \in Call : missed[d] \subseteq missed'[d]
         /\ \A d \in written : Kind(d)' = Kind(d)
         /\ \A d \in Call : Overtaken(d) => Overtaken(d)'
<1>1. CASE Quiet(c)
  BY <1>1, QuietKeeps, WrittenKeep DEF MissedWritten, Kind, Overtaken
<1>2. CASE Writes(c)
  <2>1. \A d \in Call : missed'[d] \subseteq missed[d] \union {c}
    <3>1. \E r : Update(c, r)
      BY <1>2, PatchUpdates
      DEF Writes, Resubmit, SetStatus, Confirm, Calculate, CheckEligibility
    <3>2. QED BY <3>1 DEF Update, TypeOK
  <2>2. QED BY <1>2, <2>1, WritesKeep, WrittenKeep DEF MissedWritten, Kind, Overtaken
<1>3. QED BY <1>1, <1>2, StepSplit

\* While nothing is deleted, no call starts to replace the documents.
LEMMA ReplacingKept ==
  ASSUME TypeOK, CallState, NEW c \in Call, Send(c) \/ Step(c), files' = files, files # {},
         NEW d \in Call, Replacing(d)'
  PROVE  Replacing(d)
<1>1. CASE d # c
  BY <1>1, OthersKeep DEF Replacing, Kind, Docs
<1>2. CASE d = c
  <2>1. pc[c] # "idle" => Docs(c)' = Docs(c) /\ Kind(c)' = Kind(c)
    BY QuietKeeps, WritesKeep, StepSplit DEF Docs, Kind
  <2>2. CASE Send(c) \/ Fail(c) \/ DeleteFiles(c)
    BY <1>2, <2>2 DEF Send, Fail, DeleteFiles, Goto, TypeOK, Replacing
  <2>3. CASE Read(c)
    <3>1. pc'[c] = IF Kind(c) = "resubmit" /\ Docs(c) > 0 THEN "delete" ELSE "write"
      BY <2>3 DEF Read, Goto, TypeOK
    <3>2. QED BY <1>2, <2>1, <2>3, <3>1 DEF Read, Replacing
  <2>4. CASE RecordFile(c)
    BY <1>2, <2>4 DEF RecordFile, Replacing
  <2>5. CASE Resubmit(c)
    <3>1. pc'[c] = IF Docs(c) > 0 THEN "record" ELSE "done"
      BY <2>5 DEF Resubmit, Goto, TypeOK
    <3>2. QED BY <1>2, <2>5, <3>1 DEF Resubmit, Replacing
  <2>6. CASE SetStatus(c) \/ Confirm(c) \/ Patch(c) \/ Calculate(c) \/ CheckEligibility(c)
    <3>1. pc'[c] = "done"
      BY <2>6 DEF SetStatus, Confirm, Patch, Calculate, CheckEligibility, Goto, TypeOK
    <3>2. QED BY <1>2, <3>1 DEF Replacing
  <2>7. QED BY <2>2, <2>3, <2>4, <2>5, <2>6 DEF Step
<1>3. QED BY <1>1, <1>2

\* A call records documents only once the verdict on the old ones is gone.
LEMMA RecordingKept ==
  ASSUME TypeOK, CallState, NEW c \in Call, Send(c) \/ Step(c), ~ Resubmit(c),
         NEW d \in Call, pc'[d] = "record"
  PROVE  pc[d] = "record"
<1>1. CASE d # c
  BY <1>1, OthersKeep
<1>2. CASE d = c
  BY <1>2 DEF Send, Step, Read, DeleteFiles, RecordFile, SetStatus, Confirm, Patch, Calculate,
              CheckEligibility, Fail, Goto, TypeOK
<1>3. QED BY <1>1, <1>2

\* Without a call that records, no document is added.
LEMMA FilesKept ==
  ASSUME TypeOK, CallState, NEW c \in Call, Send(c) \/ Step(c), pc[c] # "record"
  PROVE  files' \subseteq files
BY DEF Send, Step, Read, DeleteFiles, Resubmit, RecordFile, SetStatus, Confirm, Patch,
       Calculate, CheckEligibility, Fail

\* What a verifier counted stays true under the other handlers.
LEMMA HandlerCounted ==
  ASSUME VTypeOK, LifecycleInv, CountedAsMarked, LifecycleStep
  PROVE  CountedAsMarked'
<1> SUFFICES ASSUME NEW v \in Verifier, vpc'[v] \in VInFlight \ {"list"}, asked'[v] = {},
                    ~disturbed'[v]
             PROVE  /\ files' # {} /\ todo'[v] \subseteq files'
                    /\ \A c \in Call : ~Replacing(c)'
                    /\ invalid'[v] = 0 => \A f \in files' \ todo'[v] : marks'[f] = "verified"
                    /\ valid'[v] = 0 => \A f \in files' \ todo'[v] : marks'[f] # "verified"
                    /\ invalid'[v] > 0 =>
                         \/ \E f \in files' \ todo'[v] : marks'[f] # "verified"
                         \/ vpc'[v] \in {"mark", "markError"} /\ outcome'[v] = "unverified"
  BY DEF CountedAsMarked
<1>1. PICK c \in Call : Send(c) \/ Step(c)
  BY HandlerStep
<1>2. v # None
  BY VerifierAssumption
<1>3. /\ vpc' = vpc /\ asked' = asked /\ todo' = todo
      /\ outcome' = outcome /\ valid' = valid /\ invalid' = invalid
      /\ Disturb(None)
  BY HandlerStep
<1>4. files' = files /\ marks' = marks /\ ~disturbed[v]
  BY <1>2, <1>3, Undisturbed DEF Working
<1>5. files # {} /\ \A d \in Call : ~Replacing(d)
  BY <1>3, <1>4 DEF CountedAsMarked
<1>6. \A d \in Call : ~Replacing(d)'
  BY <1>1, <1>4, <1>5, ReplacingKept DEF LifecycleInv
<1>7. QED BY <1>3, <1>4, <1>6 DEF CountedAsMarked

\* The documents stay marked, and none is added, but by a resubmission.
LEMMA HandlerSound ==
  ASSUME TypeOK, CallState, LifecycleStep, NEW c \in Call, Send(c) \/ Step(c), ~Resubmit(c),
         Sound
  PROVE  Sound'
<1>1. marks' = marks
  BY HandlerStep
<1>2. files' \subseteq files
  BY FilesKept DEF Sound, NoneRecords
<1>3. \A d \in Call : pc'[d] # "record"
  BY RecordingKept DEF Sound, NoneRecords
<1>4. QED BY <1>1, <1>2, <1>3 DEF Sound, AllMarked, NoneRecords

\* An application that is verified stays so with its documents marked.
LEMMA HandlerVerified ==
  ASSUME LifecycleInv, NothingAddedToVerified, VerifiedUnlessDisturbed, LifecycleStep
  PROVE  NothingAddedToVerified' /\ VerifiedUnlessDisturbed'
<1> SUFFICES ASSUME row'.documents = "verified", doubt' = {} PROVE Sound'
  BY DEF NothingAddedToVerified, VerifiedUnlessDisturbed, Sound
<1>1. PICK c \in Call : Send(c) \/ Step(c)
  BY HandlerStep
<1>2. TypeOK /\ CallState
  BY DEF LifecycleInv
<1>3. row.documents = "verified" /\ doubt = {}
  BY HandlerDoubts
<1>4. ~Resubmit(c)
  BY <1>2, ResubmitRow, VerdictAssumption
<1>5. Sound
  BY <1>3 DEF NothingAddedToVerified, VerifiedUnlessDisturbed, Sound
<1>6. QED BY <1>1, <1>2, <1>4, <1>5, HandlerSound

\* What a handler read of the verdict holds of the documents.
LEMMA HandlerHeld ==
  ASSUME LifecycleInv, MissedWritten, NothingAddedToVerified, VerifiedUnlessDisturbed,
         HeldDocuments, LifecycleStep
  PROVE  HeldDocuments'
<1> SUFFICES ASSUME NEW d \in Holding', seen'[d].documents = "verified", doubts'[d] = {},
                    ~Overtaken(d)'
             PROVE  Sound'
  BY DEF HeldDocuments, Sound
<1>1. PICK c \in Call : Send(c) \/ Step(c)
  BY HandlerStep
<1>2. d \in Call /\ TypeOK /\ CallState
  BY DEF Holding, LifecycleInv
<1>3. ~Overtaken(d)
  BY <1>1, <1>2, MissedKept
<1>4. CASE Quiet(c)
  <2>1. ~Resubmit(c)
    BY <1>2, <1>4, QuietKeeps, WritesKeep, Copies DEF Writes
  <2>2. \/ d \in Holding /\ seen'[d] = seen[d]
        \/ pc[d] = "read" /\ seen'[d] = row
    BY <1>1, <1>2, <1>4, QuietKeeps, OthersKeep
  <2>3. CASE d \in Holding /\ seen'[d] = seen[d]
    <3>1. doubts'[d] = doubts[d]
      BY <1>2, <2>3, HandlerDoubts DEF Holding
    <3>2. Sound
      BY <1>3, <2>3, <3>1 DEF HeldDocuments, Sound
    <3>3. QED BY <1>1, <1>2, <2>1, <3>2, HandlerSound
  <2>4. CASE pc[d] = "read" /\ seen'[d] = row
    <3>1. doubt = {}
      BY <1>2, <2>4, HandlerDoubts DEF Holding
    <3>2. Sound
      BY <2>4, <3>1 DEF NothingAddedToVerified, VerifiedUnlessDisturbed, Sound
    <3>3. QED BY <1>1, <1>2, <2>1, <3>2, HandlerSound
  <2>5. QED BY <2>2, <2>3, <2>4
<1>5. CASE Writes(c)
  <2>1. d # c
    BY <1>2, <1>5, WritesKeep
  <2>2. d \in Holding \ {c} /\ seen'[d] = seen[d]
    BY <1>1, <1>2, <2>1, OthersKeep
  <2>3. doubts'[d] = doubts[d]
    BY <1>2, <2>2, HandlerDoubts DEF Holding
  <2>4. ~Resubmit(c)
    <3>1. c \in missed'[d] /\ op' = op
      BY <1>2, <1>5, <2>2, WritesKeep
    <3>2. QED BY <3>1 DEF Overtaken, Resubmit, Kind
  <2>5. Sound
    BY <1>3, <2>2, <2>3 DEF HeldDocuments, Sound
  <2>6. QED BY <1>1, <1>2, <2>4, <2>5, HandlerSound
<1>6. QED BY <1>1, <1>4, <1>5, StepSplit

\* Whoever decided was carried out.
LEMMA HandlerDecision ==
  ASSUME LifecycleInv, DecisionWritten, LifecycleStep
  PROVE  DecisionWritten'
<1>1. PICK c \in Call : Send(c) \/ Step(c)
  BY HandlerStep
<1>2. TypeOK /\ CallState
  BY DEF LifecycleInv
<1>3. CheckEligibility(c) \/ Patch(c) => c \in written'
  BY <1>2, WritesKeep DEF Writes
<1>4. QED BY <1>1, <1>2, <1>3, DecisionKept, WrittenKeep DEF DecisionWritten

\* An application is eligible on documents that are marked verified.
LEMMA HandlerEligible ==
  ASSUME LifecycleInv, MissedWritten, DecisionWritten, HeldDocuments,
         NothingAddedToEligible, EligibleOnVerifiedDocuments, LifecycleStep
  PROVE  NothingAddedToEligible' /\ EligibleOnVerifiedDocuments'
<1> SUFFICES ASSUME row'.eligibility # None, row'.eligibility.verdict = "eligible",
                    doubts'[row'.eligibility.by] = {}, ~Overtaken(row.eligibility.by)',
                    ~PatchedBy(row.eligibility.by, "eligibility")'
             PROVE  Sound'
  BY DEF NothingAddedToEligible, EligibleOnVerifiedDocuments, Overtaken, PatchedBy, Kind, Sound
<1>1. PICK c \in Call : Send(c) \/ Step(c)
  BY HandlerStep
<1>2. TypeOK /\ CallState /\ row \in Row
  BY DEF LifecycleInv, TypeOK
<1>3. CASE row'.eligibility = row.eligibility /\ ~Resubmit(c)
  <2>1. PICK d : d = row.eligibility.by
    OBVIOUS
  <2>2. d \in written /\ d \in Call /\ pc[d] # "read"
    BY <1>2, <1>3, <2>1 DEF DecisionWritten, TypeOK, CallState
  <2>3. doubts[d] = {}
    BY <1>3, <2>1, <2>2, HandlerDoubts
  <2>4. ~Overtaken(d)
    <3>1. ~Overtaken(d)'
      BY <1>3, <2>1 DEF Overtaken, Kind
    <3>2. QED BY <1>1, <1>2, <2>2, <3>1, MissedKept
  <2>5. ~PatchedBy(d, "eligibility")
    <3>1. ~PatchedBy(d, "eligibility")'
      BY <1>3, <2>1 DEF PatchedBy, Kind
    <3>2. QED BY <1>1, <1>2, <3>1, PatchedKept
  <2>6. Sound
    BY <1>3, <2>1, <2>3, <2>4, <2>5
    DEF NothingAddedToEligible, EligibleOnVerifiedDocuments, Sound
  <2>7. QED BY <1>1, <1>2, <1>3, <2>6, HandlerSound
<1>4. CASE CheckEligibility(c) /\ row'.eligibility.by = c
  <2>1. c \in Holding /\ seen[c] \in Row /\ pc[c] = "write" /\ Kind(c) = "eligibility"
    BY <1>2, <1>4, Copies DEF CheckEligibility
  <2>2. PICK v \in Verdicts(seen[c].documents) :
          row' = [row EXCEPT !.eligibility =
                    [by |-> c, data |-> seen[c].data, documents |-> seen[c].documents,
                     verdict |-> v]]
    BY <1>4 DEF CheckEligibility, Update
  <2>3. row'.eligibility.verdict = v
    BY <1>2, <2>2 DEF Row
  <2>4. seen[c].documents = "verified"
    BY <2>2, <2>3 DEF Verdicts
  <2>5. doubts[c] = {}
    BY <1>4, <2>1, HandlerDoubts
  <2>6. ~Overtaken(c)
    <3>1. ~Overtaken(c)'
      BY <1>4 DEF Overtaken, Kind
    <3>2. QED BY <1>1, <1>2, <3>1, MissedKept
  <2>7. Sound
    BY <2>1, <2>4, <2>5, <2>6 DEF HeldDocuments, Sound
  <2>8. ~Resubmit(c)
    BY <2>1 DEF Resubmit
  <2>9. QED BY <1>1, <1>2, <2>7, <2>8, HandlerSound
<1>5. CASE Patch(c) /\ row'.eligibility.by = c /\ PatchedBy(c, "eligibility")'
  BY <1>5 DEF PatchedBy, Kind
<1>6. QED BY <1>1, <1>2, <1>3, <1>4, <1>5, DecisionKept

\* What a verifier counted decides its verdict as the marks in the table would.
LEMMA VerdictFromCounts ==
  ASSUME VTypeOK', VerifierState', CountedAsMarked'
  PROVE  VerdictMatchesMarks'
<1> SUFFICES ASSUME NEW v \in Verifier, vpc'[v] = "conclude", asked'[v] = {}, ~disturbed'[v]
             PROVE  /\ Verdict(v)' = "verified" <=> \A f \in files' : marks'[f] = "verified"
                    /\ Verdict(v)' = "unverified" => \A f \in files' : marks'[f] # "verified"
  BY DEF VerdictMatchesMarks
<1>1. valid'[v] \in Nat /\ invalid'[v] \in Nat /\ todo'[v] = {}
  BY DEF VTypeOK, VerifierState
<1>2. /\ invalid'[v] = 0 => \A f \in files' : marks'[f] = "verified"
      /\ valid'[v] = 0 => \A f \in files' : marks'[f] # "verified"
      /\ invalid'[v] > 0 => \E f \in files' : marks'[f] # "verified"
  BY <1>1 DEF CountedAsMarked, VInFlight
<1>3. /\ Verdict(v)' = "verified" <=> invalid'[v] = 0
      /\ Verdict(v)' = "unverified" => valid'[v] = 0
  BY <1>1 DEF Verdict
<1>4. QED BY <1>1, <1>2, <1>3

\* Every step of a handler keeps the inductive invariant.
LEMMA HandlerInv == VInv /\ LifecycleStep => VInv'
<1> SUFFICES ASSUME VInv, LifecycleStep PROVE VInv'
  OBVIOUS
<1> USE DEF VInv
<1>1. LifecycleInv'
  BY HandlerStep, LifecycleNextInv DEF Next
<1>2. MissedWritten'
  BY HandlerStep, MissedKept DEF LifecycleInv
<1>3. VTypeOK'
  <2>1. doubt' \subseteq Doubt /\ doubts' \in [Call -> SUBSET Doubt]
    BY DEF LifecycleStep, VTypeOK, Doubt
  <2>2. QED BY <1>1, <2>1, HandlerStep DEF VTypeOK, LifecycleInv, Disturb
<1>4. VerifierState' /\ CountedAsMarked'
  BY HandlerStep, HandlerCounted DEF VerifierState
<1>5. VerdictMatchesMarks'
  BY <1>3, <1>4, VerdictFromCounts
<1>6. NothingAddedToVerified' /\ VerifiedUnlessDisturbed'
  BY HandlerVerified
<1>7. DecisionWritten' /\ HeldDocuments'
  BY HandlerDecision, HandlerHeld
<1>8. NothingAddedToEligible' /\ EligibleOnVerifiedDocuments'
  BY HandlerEligible
<1>9. QED BY <1>1, <1>2, <1>3, <1>4, <1>5, <1>6, <1>7, <1>8

-----------------------------------------------------------------------------
(***************************************************************************)
(* The steps of a verifier.                                                *)
(***************************************************************************)

\* A step of one verifier changes nothing in the local state of another.
LEMMA OtherVerifiers ==
  ASSUME VTypeOK, NEW v \in Verifier, VStep(v), NEW w \in Verifier, w # v
  PROVE  /\ vpc'[w] = vpc[w] /\ asked'[w] = asked[w] /\ todo'[w] = todo[w]
         /\ current'[w] = current[w] /\ outcome'[w] = outcome[w]
         /\ valid'[w] = valid[w] /\ invalid'[w] = invalid[w]
BY DEF VTypeOK, VStep, SendVerify, List, Check, MarkFile, MarkFails, Conclude, VFail, VGoto

\* No step of a verifier takes part in what the handlers keep among themselves.
LEMMA VerifierKeepsLifecycle ==
  ASSUME VInv, NEW v \in Verifier, VStep(v)
  PROVE  LifecycleInv' /\ MissedWritten' /\ DecisionWritten'
<1>1. CASE UNCHANGED vars
  BY <1>1, LifecycleNextInv DEF VInv, vars, MissedWritten, DecisionWritten
<1>2. CASE Conclude(v)
  <2>1. /\ row' = [row EXCEPT !.documents = Verdict(v)]
        /\ UNCHANGED <<pc, op, seen, next, files, written, missed>>
    BY <1>2 DEF Conclude, lifecycleVars
  <2>2. row \in Row /\ Verdict(v) \in DocumentStatus
    BY DEF VInv, LifecycleInv, TypeOK, Verdict, DocumentStatus
  <2>3. /\ row' \in Row
        /\ row'.status = row.status /\ row'.data = row.data /\ row'.log = row.log
        /\ row'.orderId = row.orderId /\ row'.calculated = row.calculated
        /\ row'.final = row.final /\ row'.eligibility = row.eligibility
    BY <2>1, <2>2 DEF Row
  <2> HIDE DEF Row
  <2>4. TypeOK'
    BY <2>1, <2>3 DEF VInv, LifecycleInv, TypeOK
  <2>5. CallState' /\ LogState' /\ MissedWritten' /\ DecisionWritten'
    BY <2>1, <2>3 DEF VInv, LifecycleInv, CallState, LogState, MissedWritten, DecisionWritten,
                      Holding, Docs, Kind
  <2>6. HeldLog' /\ EntryLostOnlyByOverlap'
    BY <2>1, <2>3 DEF VInv, LifecycleInv, HeldLog, EntryLostOnlyByOverlap, Logs, Holding, Kind,
                      Patched, PatchedBy
  <2>7. DecisionIsAudited'
    BY <2>1, <2>3 DEF VInv, LifecycleInv, DecisionIsAudited, Kind, Patched, PatchedBy
  <2>8. HeldData' /\ AmountStaleOnlyByOverlap' /\ OneCalculation'
          /\ EligibilityStaleOnlyByOverlap'
    BY <2>1, <2>3 DEF VInv, LifecycleInv, HeldData, AmountStaleOnlyByOverlap, AmountIsCurrent,
                      OneCalculation, EligibilityStaleOnlyByOverlap, WritesData, PatchedBy,
                      Holding, Kind
  <2>9. HeldOrder' /\ OrderIdLostOnlyByOverlap'
    BY <2>1, <2>3 DEF VInv, LifecycleInv, HeldOrder, OrderIdLostOnlyByOverlap, OrderId, Holding,
                      Kind, Patched, PatchedBy
  <2>10. LastDeleter'
    BY <2>1 DEF VInv, LifecycleInv, LastDeleter, Submitted, Docs, Kind
  <2>11. QED BY <2>4, <2>5, <2>6, <2>7, <2>8, <2>9, <2>10 DEF LifecycleInv
<1>3. QED BY <1>1, <1>2 DEF VStep, SendVerify, List, Check, MarkFile, MarkFails, VFail

\* Every step of a verifier keeps the types, and the places of the verifiers.
LEMMA VerifierTypes ==
  ASSUME VInv, NEW v \in Verifier, VStep(v)
  PROVE  VTypeOK' /\ VerifierState'
<1> USE DEF VGoto, VInFlight
<1>1. TypeOK' /\ doubt' \subseteq Doubt /\ doubts' \in [Call -> SUBSET Doubt]
  <2>1. TypeOK'
    BY VerifierKeepsLifecycle DEF LifecycleInv
  <2>2. doubt \subseteq Doubt /\ doubts \in [Call -> SUBSET Doubt]
    BY DEF VInv, VTypeOK
  <2>3. CASE MarkFile(v)
    <3>1. PICK why : /\ why = IF outcome[v] = "verified" THEN {} ELSE {"remarked"}
                     /\ doubt' = doubt \union why
                     /\ doubts' = [c \in Call |-> doubts[c] \union why]
      BY <2>3 DEF MarkFile
    <3>2. why \subseteq Doubt
      BY <3>1 DEF Doubt
    <3>3. QED BY <2>1, <2>2, <3>1, <3>2
  <2>4. CASE Conclude(v)
    BY <2>1, <2>2, <2>4 DEF Conclude, Doubt
  <2>5. CASE ~MarkFile(v) /\ ~Conclude(v)
    BY <2>1, <2>2, <2>5 DEF VStep, SendVerify, List, Check, MarkFails, VFail, historyVars
  <2>6. QED BY <2>3, <2>4, <2>5
<1>2. CASE SendVerify(v)
  BY <1>1, <1>2 DEF VInv, SendVerify, VTypeOK, historyVars, VerifierState, vars, LifecycleInv, TypeOK
<1>3. CASE List(v)
  BY <1>1, <1>3 DEF VInv, List, VTypeOK, VerifierState, vars, LifecycleInv, TypeOK
<1>4. CASE Check(v)
  BY <1>1, <1>4 DEF VInv, Check, VTypeOK, historyVars, VerifierState, Mark
<1>5. CASE MarkFile(v)
  BY <1>1, <1>5 DEF VInv, MarkFile, VTypeOK, VerifierState, Mark, Disturb
<1>6. CASE MarkFails(v)
  BY <1>1, <1>6 DEF VInv, MarkFails, VTypeOK, historyVars, VerifierState, Mark
<1>7. CASE Conclude(v)
  BY <1>1, <1>7 DEF VInv, Conclude, VTypeOK, VerifierState, Disturb
<1>8. CASE VFail(v)
  BY <1>1, <1>8 DEF VInv, VFail, VTypeOK, historyVars, VerifierState
<1>9. QED BY <1>2, <1>3, <1>4, <1>5, <1>6, <1>7, <1>8 DEF VStep

\* The verifier that marks a document counts it among those behind it.
LEMMA MarkCounted ==
  ASSUME VInv, NEW v \in Verifier, MarkFile(v), asked[v] = {}, ~disturbed[v]
  PROVE  /\ files # {} /\ todo'[v] \subseteq files
         /\ invalid[v] = 0 => \A f \in files \ todo'[v] : marks'[f] = "verified"
         /\ valid[v] = 0 => \A f \in files \ todo'[v] : marks'[f] # "verified"
         /\ invalid[v] > 0 => \E f \in files \ todo'[v] : marks'[f] # "verified"
<1> DEFINE d == current[v]
<1>1. /\ vpc[v] \in {"mark", "markError"} /\ d \in todo[v] /\ d \in files
      /\ marks' = [marks EXCEPT ![d] = outcome[v]]
      /\ todo'[v] = todo[v] \ {d}
      /\ valid[v] \in Nat /\ invalid[v] \in Nat
  BY DEF VInv, VTypeOK, VerifierState, MarkFile
<1>2. /\ files # {} /\ todo[v] \subseteq files /\ files \subseteq Document
      /\ invalid[v] = 0 => \A f \in files \ todo[v] : marks[f] = "verified"
      /\ valid[v] = 0 => \A f \in files \ todo[v] : marks[f] # "verified"
      /\ invalid[v] > 0 => (\E f \in files \ todo[v] : marks[f] # "verified")
                           \/ outcome[v] = "unverified"
  BY <1>1 DEF VInv, CountedAsMarked, VInFlight, VTypeOK, TypeOK
<1>3. \/ outcome[v] = "verified" /\ valid[v] > 0
      \/ outcome[v] = "unverified" /\ invalid[v] > 0
  BY <1>1 DEF VInv, VerifierState
<1>4. /\ \A f \in files \ {d} : marks'[f] = marks[f]
      /\ marks'[d] = outcome[v]
  BY <1>1, <1>2 DEF VInv, VTypeOK
<1>5. files \ todo'[v] = (files \ todo[v]) \union {d}
  BY <1>1
<1> HIDE DEF d
<1>6. d \notin files \ todo[v] /\ todo'[v] \subseteq files
  BY <1>1, <1>2
<1>7. QED BY <1>1, <1>2, <1>3, <1>4, <1>5, <1>6

\* What a verifier counted stays true under the verifiers.
LEMMA VerifierCounted ==
  ASSUME VInv, NEW v \in Verifier, VStep(v)
  PROVE  CountedAsMarked'
<1> SUFFICES ASSUME NEW w \in Verifier, vpc'[w] \in VInFlight \ {"list"}, asked'[w] = {},
                    ~disturbed'[w]
             PROVE  /\ files' # {} /\ todo'[w] \subseteq files'
                    /\ \A c \in Call : ~Replacing(c)'
                    /\ invalid'[w] = 0 => \A f \in files' \ todo'[w] : marks'[f] = "verified"
                    /\ valid'[w] = 0 => \A f \in files' \ todo'[w] : marks'[f] # "verified"
                    /\ invalid'[w] > 0 =>
                         \/ \E f \in files' \ todo'[w] : marks'[f] # "verified"
                         \/ vpc'[w] \in {"mark", "markError"} /\ outcome'[w] = "unverified"
  BY DEF CountedAsMarked
<1>1. files' = files /\ \A c \in Call : Replacing(c)' <=> Replacing(c)
  BY DEF VStep, SendVerify, List, Check, MarkFile, MarkFails, Conclude, VFail, vars,
         lifecycleVars, Replacing, Kind, Docs
<1>2. CASE w # v
  <2>1. /\ vpc'[w] = vpc[w] /\ asked'[w] = asked[w] /\ todo'[w] = todo[w]
        /\ outcome'[w] = outcome[w] /\ valid'[w] = valid[w] /\ invalid'[w] = invalid[w]
    BY <1>2, OtherVerifiers DEF VInv
  <2>2. marks' = marks /\ ~disturbed[w]
    <3>1. CASE MarkFile(v) \/ Conclude(v)
      BY <1>2, <2>1, <3>1, Undisturbed DEF VInv, MarkFile, Conclude, Working
    <3>2. CASE SendVerify(v) \/ List(v) \/ Check(v) \/ MarkFails(v) \/ VFail(v)
      BY <1>2, <3>2 DEF VInv, VTypeOK, SendVerify, List, Check, MarkFails, VFail, historyVars
    <3>3. QED BY <3>1, <3>2 DEF VStep
  <2>3. QED BY <1>1, <2>1, <2>2 DEF VInv, CountedAsMarked
<1>3. CASE w = v
  <2>1. vpc[v] # "list" => ~disturbed[v] /\ asked[v] = {}
    BY <1>3 DEF VStep, SendVerify, List, Check, MarkFile, MarkFails, Conclude, VFail, Disturb,
                VInv, VTypeOK, VGoto, VInFlight, historyVars
  <2>2. CASE SendVerify(v) \/ Conclude(v) \/ VFail(v)
    BY <1>3, <2>2 DEF SendVerify, Conclude, VFail, VInv, VTypeOK, VGoto, VInFlight
  <2>3. CASE List(v)
    <3>1. /\ asked[v] = {} /\ todo'[v] = files /\ files # {}
          /\ valid' = valid /\ invalid' = invalid /\ valid[v] = 0 /\ invalid[v] = 0
      BY <1>3, <2>3 DEF List, VInv, VTypeOK, VerifierState, VGoto, VInFlight
    <3>2. \A c \in Call : pc[c] \in {"delete", "write", "record"} => Kind(c) # "resubmit"
      BY <1>3, <2>3 DEF List, VInv, VTypeOK
    <3>3. \A c \in Call : ~Replacing(c)
      BY <3>2 DEF Replacing, VInv, LifecycleInv, CallState
    <3>4. QED BY <1>1, <1>3, <3>1, <3>3
  <2>4. CASE Check(v) \/ MarkFails(v) \/ MarkFile(v)
    <3>1. vpc[v] \in VInFlight \ {"list"}
      BY <2>4 DEF Check, MarkFails, MarkFile, VInFlight
    <3>2. ~disturbed[v] /\ asked[v] = {}
      BY <2>1, <3>1
    <3>3. /\ files # {} /\ todo[v] \subseteq files
          /\ \A c \in Call : ~Replacing(c)
          /\ invalid[v] = 0 => \A f \in files \ todo[v] : marks[f] = "verified"
          /\ valid[v] = 0 => \A f \in files \ todo[v] : marks[f] # "verified"
          /\ invalid[v] > 0 => (\E f \in files \ todo[v] : marks[f] # "verified")
                \/ (vpc[v] \in {"mark", "markError"} /\ outcome[v] = "unverified")
          /\ valid[v] \in Nat /\ invalid[v] \in Nat
      BY <3>1, <3>2 DEF VInv, CountedAsMarked, VTypeOK
    <3>4. CASE MarkFile(v)
      BY <1>1, <1>3, <3>2, <3>3, <3>4, MarkCounted DEF MarkFile
    <3>5. CASE MarkFails(v)
      BY <1>1, <1>3, <3>3, <3>5 DEF MarkFails, VInv, VTypeOK, VGoto
    <3>6. CASE Check(v)
      BY <1>1, <1>3, <3>3, <3>6 DEF Check, VInv, VTypeOK, VGoto
    <3>7. QED BY <2>4, <3>4, <3>5, <3>6
  <2>5. QED BY <2>2, <2>3, <2>4 DEF VStep
<1>4. QED BY <1>2, <1>3

\* The documents stay marked unless a verifier finds one invalid.
LEMMA VerifierSound ==
  ASSUME VInv, NEW v \in Verifier, VStep(v), MarkFile(v) => outcome[v] = "verified", Sound
  PROVE  Sound'
<1>1. pc' = pc /\ files' = files
  BY DEF VStep, SendVerify, List, Check, MarkFile, MarkFails, Conclude, VFail, vars, lifecycleVars
<1>2. marks' = marks \/ marks' = [marks EXCEPT ![current[v]] = "verified"]
  BY DEF VStep, SendVerify, List, Check, MarkFile, MarkFails, Conclude, VFail
<1>3. \A f \in files : marks[f] = "verified" /\ f \in Document
  BY DEF Sound, AllMarked, VInv, VTypeOK, TypeOK
<1>4. \A f \in files : marks'[f] = "verified"
  BY <1>2, <1>3 DEF VInv, VTypeOK
<1>5. QED BY <1>1, <1>4 DEF Sound, AllMarked, NoneRecords

\* Without doubt after a step of a verifier, there was none before it, and the step
\* found no document invalid.
LEMMA VerifierDoubts ==
  ASSUME VInv, NEW v \in Verifier, VStep(v)
  PROVE  /\ ~Conclude(v) /\ doubt' = {} =>
              doubt = {} /\ (MarkFile(v) => outcome[v] = "verified")
         /\ Conclude(v) /\ doubt' = {} => asked[v] = {} /\ ~disturbed[v]
         /\ \A c \in Call : doubts'[c] = {} =>
              doubts[c] = {} /\ (MarkFile(v) => outcome[v] = "verified")
<1>1. CASE MarkFile(v)
  <2>1. PICK why : /\ why = IF outcome[v] = "verified" THEN {} ELSE {"remarked"}
                   /\ doubt' = doubt \union why
                   /\ doubts' = [c \in Call |-> doubts[c] \union why]
    BY <1>1 DEF MarkFile
  <2>2. ~Conclude(v)
    BY <1>1 DEF MarkFile, Conclude
  <2>3. QED BY <2>1, <2>2
<1>2. CASE Conclude(v)
  <2>1. /\ doubt' = {why \in {"partial", "disturbed"} :
                      IF why = "partial" THEN asked[v] # {} ELSE disturbed[v]}
        /\ doubts' = doubts
    BY <1>2 DEF Conclude
  <2>2. ~MarkFile(v)
    BY <1>2 DEF MarkFile, Conclude
  <2>3. doubt' = {} => asked[v] = {} /\ ~disturbed[v]
    BY <2>1
  <2>4. QED BY <1>2, <2>1, <2>2, <2>3
<1>3. CASE ~MarkFile(v) /\ ~Conclude(v)
  BY <1>3 DEF VStep, SendVerify, List, Check, MarkFails, VFail, historyVars
<1>4. QED BY <1>1, <1>2, <1>3

\* A verdict 'verified' is written over marked documents only.
LEMMA VerifierVerified ==
  ASSUME VInv, NEW v \in Verifier, VStep(v)
  PROVE  NothingAddedToVerified' /\ VerifiedUnlessDisturbed'
<1> SUFFICES ASSUME row'.documents = "verified", doubt' = {} PROVE Sound'
  BY DEF NothingAddedToVerified, VerifiedUnlessDisturbed, Sound
<1>1. CASE Conclude(v)
  <2>1. /\ vpc[v] = "conclude" /\ asked[v] = {} /\ ~disturbed[v]
        /\ row'.documents = Verdict(v)
    BY <1>1, VerifierDoubts DEF Conclude, VInv, LifecycleInv, TypeOK, Row
  <2>2. NoneRecords
    BY <2>1 DEF VInv, CountedAsMarked, VInFlight, Replacing, NoneRecords
  <2>3. AllMarked
    BY <2>1 DEF VInv, VerdictMatchesMarks, AllMarked
  <2>4. ~MarkFile(v)
    BY <2>1 DEF MarkFile
  <2>5. QED BY <2>2, <2>3, <2>4, VerifierSound DEF Sound
<1>2. CASE ~Conclude(v)
  <2>1. row' = row
    BY <1>2 DEF VStep, SendVerify, List, Check, MarkFile, MarkFails, VFail, vars
  <2>2. doubt = {} /\ (MarkFile(v) => outcome[v] = "verified")
    BY <1>2, VerifierDoubts
  <2>3. Sound
    BY <2>1, <2>2 DEF VInv, NothingAddedToVerified, VerifiedUnlessDisturbed, Sound
  <2>4. QED BY <2>2, <2>3, VerifierSound
<1>3. QED BY <1>1, <1>2

\* What a handler read, and what it decided, stays true under the verifiers.
LEMMA VerifierEligible ==
  ASSUME VInv, NEW v \in Verifier, VStep(v)
  PROVE  HeldDocuments' /\ NothingAddedToEligible' /\ EligibleOnVerifiedDocuments'
<1>1. /\ pc' = pc /\ seen' = seen /\ op' = op /\ written' = written /\ missed' = missed
      /\ row'.eligibility = row.eligibility
  BY DEF VStep, SendVerify, List, Check, MarkFile, MarkFails, Conclude, VFail, vars,
         lifecycleVars, VInv, LifecycleInv, TypeOK, Row
<1>2. Holding' = Holding /\ Holding \subseteq Call
  BY <1>1 DEF Holding
<1>3. \A c \in Call : Overtaken(c)' <=> Overtaken(c)
  BY <1>1 DEF Overtaken, Kind
<1>4. \A c \in Call : PatchedBy(c, "eligibility")' <=> PatchedBy(c, "eligibility")
  BY <1>1 DEF PatchedBy, Kind
<1>5. ASSUME NEW c \in Holding', seen'[c].documents = "verified", doubts'[c] = {},
             ~Overtaken(c)'
      PROVE  Sound'
  <2>1. doubts[c] = {} /\ (MarkFile(v) => outcome[v] = "verified")
    BY <1>2, <1>5, VerifierDoubts
  <2>2. Sound
    BY <1>1, <1>2, <1>3, <1>5, <2>1 DEF VInv, HeldDocuments, Sound
  <2>3. QED BY <2>1, <2>2, VerifierSound
<1>6. ASSUME row.eligibility # None, row.eligibility.verdict = "eligible",
             NEW c \in Call, c = row.eligibility.by, doubts'[c] = {}, ~Overtaken(c)',
             ~PatchedBy(c, "eligibility")'
      PROVE  Sound'
  <2>1. doubts[c] = {} /\ (MarkFile(v) => outcome[v] = "verified")
    BY <1>6, VerifierDoubts
  <2>2. Sound
    BY <1>3, <1>4, <1>6, <2>1
    DEF VInv, NothingAddedToEligible, EligibleOnVerifiedDocuments, Sound
  <2>3. QED BY <2>1, <2>2, VerifierSound
<1>7. HeldDocuments'
  BY <1>5 DEF HeldDocuments, Sound
<1>8. row.eligibility # None => row.eligibility.by \in Call
  BY DEF VInv, LifecycleInv, TypeOK, Row, Decision
<1>9. row'.eligibility # None /\ row'.eligibility.verdict = "eligible" =>
        \/ Sound'
        \/ doubts'[row'.eligibility.by] # {} \/ Overtaken(row.eligibility.by)'
        \/ PatchedBy(row.eligibility.by, "eligibility")'
  BY <1>1, <1>6, <1>8 DEF Overtaken, PatchedBy, Kind
<1>10. NothingAddedToEligible' /\ EligibleOnVerifiedDocuments'
  BY <1>9 DEF NothingAddedToEligible, EligibleOnVerifiedDocuments, Sound, Overtaken, PatchedBy,
              Kind
<1>11. QED BY <1>7, <1>10

-----------------------------------------------------------------------------

\* Every step keeps the inductive invariant.
LEMMA VNextInv == VInv /\ [VNext]_allVars => VInv'
<1> SUFFICES ASSUME VInv, [VNext]_allVars PROVE VInv'
  OBVIOUS
<1>1. CASE LifecycleStep
  BY <1>1, HandlerInv
<1>2. ASSUME NEW v \in Verifier, VStep(v) PROVE VInv'
  <2>1. VTypeOK' /\ VerifierState' /\ CountedAsMarked'
    BY <1>2, VerifierTypes, VerifierCounted
  <2>2. VerdictMatchesMarks'
    BY <2>1, VerdictFromCounts
  <2>3. QED BY <1>2, <2>1, <2>2, VerifierKeepsLifecycle, VerifierVerified, VerifierEligible
            DEF VInv
<1>3. CASE UNCHANGED allVars
  <2> USE <1>3 DEF allVars, verifierVars, historyVars
  <2>1. LifecycleInv'
    BY LifecycleNextInv DEF VInv
  <2>2. VTypeOK' /\ MissedWritten' /\ DecisionWritten' /\ VerifierState'
    BY <2>1 DEF VInv, VTypeOK, LifecycleInv, MissedWritten, DecisionWritten, VerifierState, vars
  <2>3. CountedAsMarked' /\ VerdictMatchesMarks'
    BY DEF VInv, CountedAsMarked, VerdictMatchesMarks, Replacing, Verdict, Kind, Docs, vars
  <2>4. NothingAddedToVerified' /\ VerifiedUnlessDisturbed'
    BY DEF VInv, NothingAddedToVerified, VerifiedUnlessDisturbed, AllMarked, NoneRecords, vars
  <2>5. HeldDocuments' /\ NothingAddedToEligible' /\ EligibleOnVerifiedDocuments'
    BY DEF VInv, HeldDocuments, NothingAddedToEligible, EligibleOnVerifiedDocuments, Holding,
           Kind, Overtaken, PatchedBy, AllMarked, NoneRecords, vars
  <2>6. QED BY <2>1, <2>2, <2>3, <2>4, <2>5 DEF VInv
<1>4. QED BY <1>1, <1>2, <1>3 DEF VNext

\* The inductive invariant holds in every behaviour.
THEOREM VInvariant == VSpec => []VInv
BY VInitInv, VNextInv, PTL DEF VSpec

\* A verification that nobody disturbed concludes what the marks in the table say,
\* through failed updates and double results (verifyApplicationVcs).
THEOREM VerdictsMatchMarks == VSpec => []VerdictMatchesMarks
<1>1. VInv => VerdictMatchesMarks
  BY DEF VInv
<1>2. QED BY VInvariant, <1>1, PTL

\* documentVerificationStatus 'verified' means that every document is marked so, but
\* for a verdict that was partial, disturbed or patched, and for a document found
\* invalid since (verifyApplicationVcs).
THEOREM VerifiedMeansVerified == VSpec => []VerifiedUnlessDisturbed
<1>1. VInv => VerifiedUnlessDisturbed
  BY DEF VInv
<1>2. QED BY VInvariant, <1>1, PTL

\* Every document of an eligible application is marked verified, but for a patched
\* decision, an overlapping resubmission, a partial, disturbed or patched verdict, and
\* a document found invalid after the verdict (checkEligibility).
THEOREM EligibilityNeedsVerifiedDocuments == VSpec => []EligibleOnVerifiedDocuments
<1>1. VInv => EligibleOnVerifiedDocuments
  BY DEF VInv
<1>2. QED BY VInvariant, <1>1, PTL
=============================================================================
