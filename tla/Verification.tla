---------------------------- MODULE Verification ----------------------------
(***************************************************************************)
(* Document verification (VerificationService.verifyApplicationVcs) beside *)
(* the handlers of Lifecycle: the composition of the two components that   *)
(* share the Applications row and the ApplicationFiles rows.               *)
(*                                                                         *)
(* A verifier lists the documents once, has each of them checked by the    *)
(* external verification service, marks the document's row, and at last    *)
(* writes a verdict computed from its own results to the application,      *)
(* whatever happened to the documents meanwhile.                           *)
(***************************************************************************)
EXTENDS Lifecycle

CONSTANTS
  Verifier,      \* invocations of verifyApplicationVcs
  Scopes         \* bound: "all" and "some", the requests without and with file ids

ASSUME ScopesAssumption == Scopes \subseteq {"all", "some"}
ASSUME VerifierAssumption == None \notin Verifier
ASSUME VerdictAssumption == None \notin {"verified", "partially_verified", "unverified"}

VARIABLES
  vpc,           \* vpc[v]: the step verifier v takes next
  asked,         \* asked[v]: the documents the request names; none asks for all
  todo,          \* todo[v]: listed documents not yet processed
  current,       \* current[v]: the document being processed
  outcome,       \* outcome[v]: the mark about to be written for it
  valid,         \* valid[v]: results pushed so far that are valid
  invalid,       \* invalid[v]: results pushed so far that are not
  marks,         \* marks[f]: verificationStatus of document f
  disturbed,     \* history: another handler changed documents, marks or verdict
                 \* since v listed the documents, or was replacing them then
  doubt,         \* history: why the verdict on the row may not be that of the
                 \* documents
  doubts         \* history: doubts[c]: the same of the copy that call c read

verifierVars == <<vpc, asked, todo, current, outcome, valid, invalid>>
lifecycleVars == <<pc, op, seen, next, files, written, missed>>
historyVars == <<disturbed, doubt, doubts>>
allVars == <<vars, verifierVars, marks, historyVars>>

VInFlight == {"list", "check", "mark", "markError", "conclude"}
Mark == {"none", "verified", "unverified"}

\* A verdict was reached on some of the documents only, on documents that another
\* handler was changing, or not by a verification at all; or a document was found
\* invalid after it was reached.
Doubt == {"partial", "disturbed", "patched", "remarked"}

VInit ==
  /\ Init
  /\ vpc = [v \in Verifier |-> "idle"]
  /\ asked = [v \in Verifier |-> {}]
  /\ todo = [v \in Verifier |-> {}]
  /\ current = [v \in Verifier |-> None]
  /\ outcome = [v \in Verifier |-> "none"]
  /\ valid = [v \in Verifier |-> 0]
  /\ invalid = [v \in Verifier |-> 0]
  /\ marks = [f \in Document |-> "none"]
  /\ disturbed = [v \in Verifier |-> FALSE]
  /\ doubt = {}
  /\ doubts = [c \in Call |-> {}]

-----------------------------------------------------------------------------

VGoto(v, step) == vpc' = [vpc EXCEPT ![v] = step]

\* A step of the actor may disturb the verifiers that have listed documents.
Disturb(actor) ==
  disturbed' = [v \in Verifier |->
    \/ disturbed[v]
    \/ /\ v # actor
       /\ vpc[v] \in VInFlight \ {"list"}
       /\ <<files, marks, row.documents>>' # <<files, marks, row.documents>>]

\* A request names documents by id, of this application or not, or none.
SendVerify(v) ==
  /\ vpc[v] = "idle"
  /\ Concurrent \/ /\ \A c \in Call : pc[c] \notin InFlight
                   /\ \A w \in Verifier : vpc[w] \notin VInFlight
  /\ \/ /\ "all" \in Scopes
        /\ UNCHANGED asked
     \/ /\ "some" \in Scopes
        /\ \E ids \in SUBSET files \ {{}} : asked' = [asked EXCEPT ![v] = ids]
  /\ VGoto(v, "list")
  /\ UNCHANGED <<vars, todo, current, outcome, valid, invalid, marks, historyVars>>

\* findMany; without documents the answer is 404 and nothing is written.
List(v) ==
  /\ vpc[v] = "list"
  /\ LET found == IF asked[v] = {} THEN files ELSE files \intersect asked[v] IN
       /\ todo' = [todo EXCEPT ![v] = found]
       /\ VGoto(v, IF found = {} THEN "failed" ELSE "check")
  /\ disturbed' = [disturbed EXCEPT ![v] =
       \E c \in Call : pc[c] \in {"delete", "write", "record"} /\ Kind(c) = "resubmit"]
  /\ UNCHANGED <<vars, asked, current, outcome, valid, invalid, marks, doubt, doubts>>

\* The external service (or storage, or the parser) decides on one document.
\* The result is pushed before the document's row is updated.
Check(v) ==
  /\ vpc[v] = "check"
  /\ \E f \in todo[v] : current' = [current EXCEPT ![v] = f]
  /\ \/ /\ valid' = [valid EXCEPT ![v] = @ + 1]
        /\ outcome' = [outcome EXCEPT ![v] = "verified"]
        /\ VGoto(v, "mark")
        /\ UNCHANGED invalid
     \/ /\ invalid' = [invalid EXCEPT ![v] = @ + 1]
        /\ outcome' = [outcome EXCEPT ![v] = "unverified"]
        /\ \/ VGoto(v, "mark")         \* the service rejects the credential
           \/ VGoto(v, "markError")    \* something throws before an answer
        /\ UNCHANGED valid
  /\ UNCHANGED <<vars, asked, todo, marks, historyVars>>

\* The row of the current document is updated; prisma throws if it is gone.
MarkFile(v) ==
  /\ vpc[v] \in {"mark", "markError"}
  /\ current[v] \in files
  /\ marks' = [marks EXCEPT ![current[v]] = outcome[v]]
  /\ todo' = [todo EXCEPT ![v] = @ \ {current[v]}]
  /\ current' = [current EXCEPT ![v] = None]
  /\ outcome' = [outcome EXCEPT ![v] = "none"]
  /\ VGoto(v, IF todo[v] = {current[v]} THEN "conclude" ELSE "check")
  /\ LET why == IF outcome[v] = "verified" THEN {} ELSE {"remarked"} IN
       /\ doubt' = doubt \union why
       /\ doubts' = [c \in Call |-> doubts[c] \union why]
  /\ UNCHANGED <<vars, asked, valid, invalid>>
  /\ Disturb(v)

\* Variant with a fault: the catch block does not push a result.
MarkFailsUncounted(v) ==
  /\ vpc[v] = "mark"
  /\ outcome' = [outcome EXCEPT ![v] = "unverified"]
  /\ VGoto(v, "markError")
  /\ UNCHANGED <<vars, asked, todo, current, valid, invalid, marks, historyVars>>

\* The update throws inside the try block: the catch block pushes a second,
\* invalid result for the same document and updates the row again.
MarkFails(v) ==
  /\ vpc[v] = "mark"
  /\ invalid' = [invalid EXCEPT ![v] = @ + 1]
  /\ outcome' = [outcome EXCEPT ![v] = "unverified"]
  /\ VGoto(v, "markError")
  /\ UNCHANGED <<vars, asked, todo, current, valid, marks, historyVars>>

\* Variant with a fault: the HTTP reason instead of the stored status.
VerdictReason(v) == IF invalid[v] = 0 THEN "completed" ELSE "failed"

Verdict(v) ==
  CASE invalid[v] = 0 -> "verified"
    [] invalid[v] > 0 /\ valid[v] > 0 -> "partially_verified"
    [] OTHER -> "unverified"

\* applications.update of documentVerificationStatus.
Conclude(v) ==
  /\ vpc[v] = "conclude"
  /\ row' = [row EXCEPT !.documents = Verdict(v)]
  /\ VGoto(v, "done")
  /\ doubt' = {why \in {"partial", "disturbed"} :
                 IF why = "partial" THEN asked[v] # {} ELSE disturbed[v]}
  /\ UNCHANGED <<lifecycleVars, asked, todo, current, outcome, valid, invalid, marks, doubts>>
  /\ Disturb(v)

\* An update throws outside a try block or in the catch block, as it does when
\* a resubmission has deleted the document, or the process dies.
VFail(v) ==
  /\ vpc[v] \in VInFlight
  /\ VGoto(v, "failed")
  /\ UNCHANGED <<vars, asked, todo, current, outcome, valid, invalid, marks, historyVars>>

VStep(v) ==
  \/ SendVerify(v)
  \/ List(v)
  \/ Check(v)
  \/ MarkFile(v)
  \/ MarkFails(v)
  \/ Conclude(v)
  \/ VFail(v)

\* A step of another handler of the application.
LifecycleStep ==
  /\ \E c \in Call :
       \/ /\ Concurrent \/ \A v \in Verifier : vpc[v] \notin VInFlight
          /\ Send(c)
       \/ Step(c)
  /\ doubt' = IF row'.documents \in {row.documents, None} THEN doubt ELSE {"patched"}
  /\ doubts' = [c \in Call |-> IF pc[c] = "read" /\ pc'[c] # "read" THEN doubt
                                                                    ELSE doubts[c]]
  /\ UNCHANGED <<verifierVars, marks>>
  /\ Disturb(None)

VNext == LifecycleStep \/ \E v \in Verifier : VStep(v)

VSpec == VInit /\ [][VNext]_allVars

-----------------------------------------------------------------------------

VTypeOK ==
  /\ TypeOK
  /\ vpc \in [Verifier -> {"idle", "done", "failed"} \union VInFlight]
  /\ asked \in [Verifier -> SUBSET Document]
  /\ todo \in [Verifier -> SUBSET Document]
  /\ current \in [Verifier -> Document \union {None}]
  /\ outcome \in [Verifier -> Mark]
  /\ valid \in [Verifier -> Nat]
  /\ invalid \in [Verifier -> Nat]
  /\ marks \in [Document -> Mark]
  /\ disturbed \in [Verifier -> BOOLEAN]
  /\ doubt \subseteq Doubt
  /\ doubts \in [Call -> SUBSET Doubt]

\* The verdict a verifier of all documents is about to write agrees with the
\* marks in the table, if nobody else touched the documents while it ran:
\* 'verified' exactly when every document is marked so, 'unverified' only when
\* none is.  It holds through failed updates and the double results they leave.
VerdictMatchesMarks ==
  \A v \in Verifier :
    vpc[v] = "conclude" /\ asked[v] = {} /\ ~disturbed[v] =>
      /\ Verdict(v) = "verified" <=> \A f \in files : marks[f] = "verified"
      /\ Verdict(v) = "unverified" => \A f \in files : marks[f] # "verified"

AllMarked == \A f \in files : marks[f] = "verified"

\* The rule checkEligibility appends to every benefit, "All documents must be
\* verified", is evaluated on documentVerificationStatus.  That column is sound,
\* races included: 'verified' means that every document is marked so, unless the
\* verdict was reached on some of the documents only, was disturbed by another
\* handler or was written by PATCH, or a document was found invalid since by a
\* verification that has not concluded, or failed.
VerifiedUnlessDisturbed == row.documents = "verified" => AllMarked \/ doubt # {}

\* A resubmission updated the row between the read and the update of c.
Overtaken(c) == \E d \in missed[c] : Kind(d) = "resubmit"

\* The documents of an application recorded as eligible are all marked verified,
\* whatever handlers and verifications interleave, unless PATCH wrote the decision,
\* a resubmission came between the check and its update, the verdict the check read
\* was partial, disturbed or patched, or a document was found invalid after that
\* verdict, which no step re-decides.
EligibleOnVerifiedDocuments ==
  row.eligibility # None /\ row.eligibility.verdict = "eligible" =>
    LET c == row.eligibility.by IN
      AllMarked \/ doubts[c] # {} \/ Overtaken(c) \/ PatchedBy(c, "eligibility")

-----------------------------------------------------------------------------
(* The inductive invariant: what a verifier may believe of the documents. *)

\* Where each verifier stands, and what it has counted.
VerifierState ==
  \A v \in Verifier :
    /\ vpc[v] \in {"idle", "list"} => valid[v] = 0 /\ invalid[v] = 0
    /\ vpc[v] \in {"mark", "markError"} => current[v] \in todo[v]
    /\ vpc[v] = "mark" => (outcome[v] = "verified" /\ valid[v] > 0)
                          \/ (outcome[v] = "unverified" /\ invalid[v] > 0)
    /\ vpc[v] = "markError" => outcome[v] = "unverified" /\ invalid[v] > 0
    /\ vpc[v] = "conclude" => todo[v] = {}

\* A resubmission has deleted the documents and not yet recorded its own.
Replacing(c) == pc[c] = "record" \/ (pc[c] = "write" /\ Kind(c) = "resubmit" /\ Docs(c) > 0)

\* What an undisturbed verifier of all documents has counted is what the marks of
\* the documents behind it say, and no resubmission is about to add to them.
CountedAsMarked ==
  \A v \in Verifier :
    vpc[v] \in VInFlight \ {"list"} /\ asked[v] = {} /\ ~disturbed[v] =>
      /\ files # {} /\ todo[v] \subseteq files
      /\ \A c \in Call : ~Replacing(c)
      /\ invalid[v] = 0 => \A f \in files \ todo[v] : marks[f] = "verified"
      /\ valid[v] = 0 => \A f \in files \ todo[v] : marks[f] # "verified"
      /\ invalid[v] > 0 => (\E f \in files \ todo[v] : marks[f] # "verified")
                          \/ (vpc[v] \in {"mark", "markError"} /\ outcome[v] = "unverified")

NoneRecords == \A c \in Call : pc[c] # "record"

\* Nobody adds documents to an application that is verified.
NothingAddedToVerified == row.documents = "verified" => NoneRecords \/ doubt # {}

\* What a handler missed was carried out.
MissedWritten == \A c \in Call : missed[c] \subseteq written

\* The call that decided was carried out.
DecisionWritten == row.eligibility # None => row.eligibility.by \in written

\* The documents of an application that a handler read as verified are so.
HeldDocuments ==
  \A c \in Holding : seen[c].documents = "verified" =>
    (AllMarked /\ NoneRecords) \/ doubts[c] # {} \/ Overtaken(c)

\* Nobody adds documents to an application that is eligible.
NothingAddedToEligible ==
  row.eligibility # None /\ row.eligibility.verdict = "eligible" =>
    LET c == row.eligibility.by IN
      NoneRecords \/ doubts[c] # {} \/ Overtaken(c) \/ PatchedBy(c, "eligibility")

VInv ==
  /\ VTypeOK
  /\ LifecycleInv /\ MissedWritten /\ DecisionWritten
  /\ VerifierState
  /\ CountedAsMarked /\ VerdictMatchesMarks
  /\ NothingAddedToVerified /\ VerifiedUnlessDisturbed
  /\ HeldDocuments /\ NothingAddedToEligible /\ EligibleOnVerifiedDocuments
=============================================================================
