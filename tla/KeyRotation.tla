----------------------------- MODULE KeyRotation -----------------------------
(***************************************************************************)
(* The encrypted column applicationData and the replacement of its key.    *)
(*                                                                         *)
(* The service encrypts the column when it writes it and decrypts it when  *)
(* it reads it (prisma.service.ts), trying its current key and then, if    *)
(* configured, the old one (encryption.util.ts).                           *)
(* scripts/rotate-encryption-key.ts walks over the table in batches:       *)
(* it reads a batch, decrypts it with the old key, encrypts it with the    *)
(* new one and writes it back in a transaction.  It runs beside the        *)
(* service, in a process of its own that may die and be started again.     *)
(*                                                                         *)
(* Rows are named by their id; ids are handed out in order and no row is   *)
(* ever deleted.  Data is identified by the write it came with.            *)
(***************************************************************************)
EXTENDS Naturals, FiniteSets

CONSTANTS
  Write,         \* writes of applicationData by the service
  Stored,        \* data written before the key is replaced
  Empty,         \* the empty object a reader falls back to
  None,          \* null
  MaxRows,       \* bound: rows of the table
  BatchSize,
  MaxRuns        \* bound: how often the script is started

ASSUME DataAssumption ==
  /\ Stored \notin Write
  /\ None \notin Write \union {Stored, Empty}
  /\ Empty \notin Write \union {Stored}
ASSUME BoundsAssumption ==
  /\ MaxRows \in Nat
  /\ BatchSize \in Nat \ {0}
  /\ MaxRuns \in Nat

Data == Write \union {Stored}
Key == {"old", "new"}

\* What the column holds: a JSON text, or the JSON text of a string that is
\* itself a JSON text, encrypted with a key.
Cell == [key : Key, data : Data, kind : {"string", "object"}]

Environment == {"old", "both", "new"}

VARIABLES
  env,           \* the keys the running service was started with
  last,          \* the last id handed out
  cells,         \* cells[i]: the encrypted column of row i
  pc,            \* what the script does next
  lastSeen,      \* the last id of the batches it has finished
  batch,         \* the batch it holds, by id
  runs,          \* how often it was started
  latest,        \* history: latest[i]: the data last written to row i
  crossed,       \* history: rows written while the script was about to
                 \* overwrite them
  slipped        \* history: rows written with the old key after the script
                 \* had read them

vars == <<env, last, cells, pc, lastSeen, batch, runs, latest, crossed, slipped>>
script == <<pc, lastSeen, batch, runs>>

Rows == 1..last
NoBatch == [i \in {} |-> None]

Init ==
  /\ env = "old"
  /\ last \in 0..MaxRows
  /\ cells = [i \in Rows |-> [key |-> "old", data |-> Stored, kind |-> "string"]]
  /\ pc = "stopped"
  /\ lastSeen = 0
  /\ batch = NoBatch
  /\ runs = 0
  /\ latest = [i \in Rows |-> Stored]
  /\ crossed = {}
  /\ slipped = {}

-----------------------------------------------------------------------------
\* The codec.

\* encrypt() uses ENCRYPTION_KEY.
EncryptionKey == IF env = "old" THEN "old" ELSE "new"

\* decrypt() tries ENCRYPTION_KEY, then OLD_ENCRYPTION_KEY if there is one.
DecryptionKeys ==
  CASE env = "old" -> {"old"} [] env = "both" -> {"new", "old"} [] env = "new" -> {"new"}

\* What a query of the service returns: null when no key fits, and the empty
\* object when the decrypted value is not a string to parse.
ReadBy(cell) ==
  IF cell.key \notin DecryptionKeys THEN None
  ELSE IF cell.kind = "object" THEN Empty
  ELSE cell.data

-----------------------------------------------------------------------------
\* The service.

\* The ids the current run of the script has already read; once it is done it
\* will read none of those to come.
Covered ==
  CASE pc = "stopped" -> {}
    [] pc = "fetch" -> 1..lastSeen
    [] pc = "update" -> 1..lastSeen \union DOMAIN batch
    [] pc = "done" -> 1..MaxRows

\* The rows the transaction of the held batch is about to overwrite.
Overwritten == {i \in DOMAIN batch : batch[i].key = "old"}

\* Data of write w, which no row has now, reaches row i, an existing row or the
\* next new one.
Put(w, i, kind) ==
  /\ \A j \in Rows : latest[j] # w
  /\ last' = IF i \in Rows THEN last ELSE i
  /\ cells' = [j \in 1..last' |->
                 IF j = i THEN [key |-> EncryptionKey, data |-> w, kind |-> kind]
                          ELSE cells[j]]
  /\ latest' = [j \in 1..last' |-> IF j = i THEN w ELSE latest[j]]
  /\ crossed' = IF i \in Overwritten THEN crossed \union {i} ELSE crossed \ {i}
  /\ slipped' = IF EncryptionKey = "old" /\ i \in Covered
                  THEN slipped \union {i} ELSE slipped \ {i}
  /\ UNCHANGED env
  /\ UNCHANGED script

\* create() inserts the applicant data as a JSON string.
Create(w) == last < MaxRows /\ Put(w, last + 1, "string")

\* A resubmission rewrites it as a JSON string.
Resubmit(w) == \E i \in Rows : Put(w, i, "string")

\* PATCH /applications/:id hands the object of its body to the database layer.
Patch(w) == \E i \in Rows : Put(w, i, "object")

\* The service is restarted with both keys, or, once a rotation is done, with
\* the new one alone.
Restart(e) ==
  /\ \/ env = "old" /\ e = "both"
     \/ env # "new" /\ e = "new" /\ pc = "done"
  /\ env' = e
  /\ UNCHANGED <<last, cells, latest, crossed, slipped>>
  /\ UNCHANGED script

-----------------------------------------------------------------------------
\* The script.

Start ==
  /\ pc \in {"stopped", "done"}
  /\ runs < MaxRuns
  /\ runs' = runs + 1
  /\ pc' = "fetch"
  /\ lastSeen' = 0
  /\ UNCHANGED <<env, last, cells, batch, latest, crossed, slipped>>

\* Variant with a fault: the batch starts at the last id of the one before.
NextIdsInclusive ==
  {i \in Rows : i >= lastSeen /\ i < lastSeen + BatchSize}

\* where: { id: { gt: lastSeenId } }, take: BATCH_SIZE, orderBy: id.
NextIds == {i \in Rows : i > lastSeen /\ i <= lastSeen + BatchSize}

FetchBatch ==
  /\ pc = "fetch"
  /\ IF NextIds = {}
       THEN pc' = "done" /\ UNCHANGED batch
       ELSE pc' = "update" /\ batch' = [i \in NextIds |-> cells[i]]
  /\ UNCHANGED <<env, last, cells, lastSeen, runs, latest, crossed, slipped>>

\* Variant with a fault: fields that could not be decrypted are written back.
ReencryptedAlways(i) == [batch[i] EXCEPT !.key = "new"]

\* processRecord: what the transaction leaves in row i.  A value that the old
\* key does not decrypt is left out of the update.
Reencrypted(i) ==
  IF i \in Overwritten THEN [batch[i] EXCEPT !.key = "new"] ELSE cells[i]

\* Variant with a fault: the cursor advances by the batch size.
LastOfFullBatch == lastSeen + BatchSize

LastOfBatch == CHOOSE i \in DOMAIN batch : \A j \in DOMAIN batch : j <= i

UpdateBatch ==
  /\ pc = "update"
  /\ cells' = [i \in Rows |-> IF i \in DOMAIN batch THEN Reencrypted(i) ELSE cells[i]]
  /\ slipped' = slipped \ Overwritten
  /\ lastSeen' = LastOfBatch
  /\ batch' = NoBatch
  /\ pc' = "fetch"
  /\ UNCHANGED <<env, last, runs, latest, crossed>>

\* A query or the transaction fails, or the process dies: the script exits and
\* remembers nothing; finished batches stay.
Die ==
  /\ pc \in {"fetch", "update"}
  /\ pc' = "stopped"
  /\ batch' = NoBatch
  /\ UNCHANGED <<env, last, cells, lastSeen, runs, latest, crossed, slipped>>

-----------------------------------------------------------------------------

Next ==
  \/ \E w \in Write : Create(w) \/ Resubmit(w) \/ Patch(w)
  \/ \E e \in Environment : Restart(e)
  \/ Start
  \/ FetchBatch
  \/ UpdateBatch
  \/ Die

Spec == Init /\ [][Next]_vars

\* The script goes on as long as it lives.
FairSpec == Spec /\ WF_vars(FetchBatch \/ UpdateBatch)

-----------------------------------------------------------------------------

TypeOK ==
  /\ env \in Environment
  /\ last \in 0..MaxRows
  /\ cells \in [Rows -> Cell]
  /\ pc \in {"stopped", "fetch", "update", "done"}
  /\ lastSeen \in 0..last
  /\ DOMAIN batch \subseteq Rows /\ batch \in [DOMAIN batch -> Cell]
  /\ pc = "update" <=> DOMAIN batch # {}
  /\ runs \in 0..MaxRuns
  /\ latest \in [Rows -> Data]
  /\ crossed \subseteq Rows
  /\ slipped \subseteq Rows

\* The script takes back a write of the service only if that write fell
\* between the reading of a batch and its transaction, on a row that was
\* still under the old key when it was read.  No other order of writes, dying
\* and starting again costs anything, and rows rotated before are never
\* touched (rotateModel).
WriteLostOnlyInBatch == \A i \in Rows : cells[i].data = latest[i] \/ i \in crossed

\* Once the service runs with the new key, with or without the old one beside
\* it, it can decrypt every row but those that were written with the old key
\* behind the back of the script: batches leave no gap, however the table
\* grows and however often the script dies and starts over.
ReadableAfterRestart ==
  env # "old" => \A i \in Rows \ slipped : ReadBy(cells[i]) # None

\* The rows a run has passed, and all rows once it is done or the old key is
\* gone, are under the new key or slipped through.
RotatedBehindCursor ==
  /\ pc = "done" \/ env = "new" =>
       \A i \in Rows : cells[i].key = "new" \/ i \in slipped
  /\ pc \in {"fetch", "update"} =>
       \A i \in 1..lastSeen : cells[i].key = "new" \/ i \in slipped

\* The batch in flight is the next stretch of ids.  What it holds is current
\* or crossed, and a row it will not overwrite is rotated.
BatchState ==
  /\ pc = "update" =>
       \E n \in Rows : n > lastSeen /\ DOMAIN batch = (lastSeen + 1)..n
  /\ \A i \in DOMAIN batch :
       /\ i \in Overwritten => batch[i].data = latest[i] \/ i \in crossed
       /\ i \notin Overwritten => cells[i].key = "new" \/ i \in slipped

\* The inductive invariant behind the theorems.
RotationInv ==
  /\ TypeOK
  /\ WriteLostOnlyInBatch
  /\ RotatedBehindCursor
  /\ BatchState

\* A run of the script comes to an end: it finishes or dies.
RotationEnds == pc \in {"fetch", "update"} ~> pc \in {"done", "stopped"}
=============================================================================
