-------------------------- MODULE KeyRotationProofs --------------------------
(***************************************************************************)
(* What the rotation of the key guarantees for any number of rows, writes, *)
(* runs of the script and any size of its batches.                         *)
(***************************************************************************)
EXTENDS KeyRotation, TLAPS

\* The table as it is before the key is replaced satisfies the invariant.
LEMMA RotationInitInv == Init => RotationInv
BY BoundsAssumption
DEF Init, RotationInv, TypeOK, WriteLostOnlyInBatch, RotatedBehindCursor, BatchState,
    Rows, NoBatch, Overwritten, Environment, Cell, Key, Data

\* A batch in flight ends at the row the cursor moves to.
LEMMA LastOfBatchIs ==
  ASSUME RotationInv, pc = "update"
  PROVE  /\ LastOfBatch \in Rows
         /\ LastOfBatch > lastSeen
         /\ DOMAIN batch = (lastSeen + 1)..LastOfBatch
<1> USE DEF RotationInv, TypeOK, Rows
<1>1. PICK n \in Rows : n > lastSeen /\ DOMAIN batch = (lastSeen + 1)..n
  BY DEF BatchState
<1>2. n \in DOMAIN batch /\ \A j \in DOMAIN batch : j <= n
  BY <1>1
<1>3. LastOfBatch \in DOMAIN batch /\ \A j \in DOMAIN batch : j <= LastOfBatch
  BY <1>2 DEF LastOfBatch
<1>4. LastOfBatch = n
  BY <1>1, <1>2, <1>3
<1>5. QED BY <1>1, <1>4

\* A write of the service goes to an existing row or to the next id.
LEMMA ServiceWrites ==
  ASSUME RotationInv, NEW w \in Write, Create(w) \/ Resubmit(w) \/ Patch(w)
  PROVE  \E kind \in {"string", "object"} :
           \E i \in 1..MaxRows : (i \in Rows \/ i = last + 1) /\ Put(w, i, kind)
BY BoundsAssumption DEF RotationInv, TypeOK, Rows, Create, Resubmit, Patch

\* A write keeps the invariant: behind the cursor it is under the new key or
\* slips, in a batch about to be overwritten it is crossed.
LEMMA PutInv ==
  ASSUME RotationInv, NEW w \in Write, NEW kind \in {"string", "object"},
         NEW i \in 1..MaxRows, i \in Rows \/ i = last + 1, Put(w, i, kind)
  PROVE  RotationInv'
<1> USE BoundsAssumption DEF RotationInv, TypeOK, Rows, script
<1>1. /\ last' = IF i \in Rows THEN last ELSE i
      /\ cells' = [j \in 1..last' |->
                    IF j = i THEN [key |-> EncryptionKey, data |-> w, kind |-> kind]
                             ELSE cells[j]]
      /\ latest' = [j \in 1..last' |-> IF j = i THEN w ELSE latest[j]]
      /\ crossed' = IF i \in Overwritten THEN crossed \union {i} ELSE crossed \ {i}
      /\ slipped' = IF EncryptionKey = "old" /\ i \in Covered
                      THEN slipped \union {i} ELSE slipped \ {i}
      /\ UNCHANGED <<env, pc, lastSeen, batch, runs>>
  BY DEF Put
<1>2. last' \in 0..MaxRows /\ last <= last' /\ Rows' = Rows \union {i} /\ i \in Rows'
  BY <1>1
<1>3. EncryptionKey \in Key /\ (env # "old" => EncryptionKey = "new")
  BY DEF EncryptionKey, Key
<1>4. Overwritten' = Overwritten
  BY <1>1 DEF Overwritten
<1>5. TypeOK'
  BY <1>1, <1>2, <1>3 DEF Cell, Data
<1>6. WriteLostOnlyInBatch'
  BY <1>1, <1>2 DEF WriteLostOnlyInBatch
<1>7. RotatedBehindCursor'
  <2>1. ASSUME pc = "done" \/ env = "new", NEW j \in Rows'
        PROVE  cells'[j].key = "new" \/ j \in slipped'
    <3>1. CASE j = i
      BY <1>1, <1>2, <1>3, <2>1, <3>1 DEF Covered, Key
    <3>2. CASE j # i
      BY <1>1, <1>2, <2>1, <3>2 DEF RotatedBehindCursor
    <3>3. QED BY <3>1, <3>2
  <2>2. ASSUME pc \in {"fetch", "update"}, NEW j \in 1..lastSeen
        PROVE  cells'[j].key = "new" \/ j \in slipped'
    <3>0. j \in Rows /\ j \in Rows'
      BY <1>2
    <3>1. CASE j = i
      BY <1>1, <1>2, <1>3, <2>2, <3>0, <3>1 DEF Covered, Key
    <3>2. CASE j # i
      BY <1>1, <1>2, <2>2, <3>0, <3>2 DEF RotatedBehindCursor
    <3>3. QED BY <3>1, <3>2
  <2>3. QED BY <1>1, <2>1, <2>2 DEF RotatedBehindCursor
<1>8. BatchState'
  <2>1. pc' = "update" =>
          \E n \in Rows' : n > lastSeen' /\ DOMAIN batch' = (lastSeen' + 1)..n
    BY <1>1, <1>2 DEF BatchState
  <2>2. ASSUME NEW j \in DOMAIN batch
        PROVE  /\ j \in Overwritten => batch[j].data = latest'[j] \/ j \in crossed'
               /\ j \notin Overwritten => cells'[j].key = "new" \/ j \in slipped'
    <3>0. j \in Rows /\ j \in Rows' /\ pc = "update"
      BY <1>2
    <3>1. CASE j = i
      BY <1>1, <1>2, <1>3, <3>0, <3>1 DEF Covered, Key
    <3>2. CASE j # i
      BY <1>1, <1>2, <3>0, <3>2 DEF BatchState
    <3>3. QED BY <3>1, <3>2
  <2>3. QED BY <1>1, <1>4, <2>1, <2>2 DEF BatchState
<1>9. QED BY <1>5, <1>6, <1>7, <1>8

\* A restart of the service without the old key waits for a finished run.
LEMMA RestartInv ==
  ASSUME RotationInv, NEW e \in Environment, Restart(e)
  PROVE  RotationInv'
BY DEF Restart, script, RotationInv, TypeOK, WriteLostOnlyInBatch,
       RotatedBehindCursor, BatchState, Rows, Overwritten, Environment

\* Starting again and dying forget the cursor and the batch, never a row.
LEMMA StartInv ==
  ASSUME RotationInv, Start
  PROVE  RotationInv'
BY BoundsAssumption
DEF Start, RotationInv, TypeOK, WriteLostOnlyInBatch, RotatedBehindCursor, BatchState,
    Rows, Overwritten

LEMMA DieInv ==
  ASSUME RotationInv, Die
  PROVE  RotationInv'
BY DEF Die, RotationInv, TypeOK, WriteLostOnlyInBatch, RotatedBehindCursor, BatchState,
       Rows, Overwritten, NoBatch

\* The batch is the next stretch of ids, or the cursor is at the end.
LEMMA FetchInv ==
  ASSUME RotationInv, FetchBatch
  PROVE  RotationInv'
<1> USE BoundsAssumption DEF RotationInv, TypeOK, Rows
<1>1. CASE NextIds = {}
  <2>1. lastSeen = last
    <3>1. lastSeen < last => lastSeen + 1 \in NextIds
      BY DEF NextIds
    <3>2. QED BY <1>1, <3>1
  <2>2. QED
    BY <1>1, <2>1
    DEF FetchBatch, WriteLostOnlyInBatch, RotatedBehindCursor, BatchState, Overwritten
<1>2. CASE NextIds # {}
  <2>1. PICK n \in Rows : n > lastSeen /\ NextIds = (lastSeen + 1)..n
    <3>1. CASE lastSeen + BatchSize <= last
      <4>1. lastSeen + BatchSize \in Rows /\ lastSeen + BatchSize > lastSeen
        BY <3>1
      <4>2. NextIds = (lastSeen + 1)..(lastSeen + BatchSize)
        BY <3>1 DEF NextIds
      <4>3. QED BY <4>1, <4>2
    <3>2. CASE lastSeen + BatchSize > last
      <4>1. last \in Rows /\ last > lastSeen
        BY <1>2 DEF NextIds
      <4>2. NextIds = (lastSeen + 1)..last
        BY <3>2 DEF NextIds
      <4>3. QED BY <4>1, <4>2
    <3>3. QED BY <3>1, <3>2
  <2>2. /\ pc' = "update"
        /\ batch' = [i \in NextIds |-> cells[i]]
        /\ UNCHANGED <<env, last, cells, lastSeen, runs, latest, crossed, slipped>>
    BY <1>2 DEF FetchBatch
  <2>3. NextIds \subseteq Rows /\ DOMAIN batch' = NextIds /\ pc = "fetch"
    BY DEF NextIds, FetchBatch
  <2>4. TypeOK'
    BY <1>2, <2>2, <2>3
  <2>5. BatchState'
    <3>1. \A i \in DOMAIN batch' : batch'[i] = cells'[i] /\ i \in Rows
      BY <2>2, <2>3
    <3>2. \A i \in DOMAIN batch' :
            /\ i \in Overwritten' => batch'[i].data = latest'[i] \/ i \in crossed'
            /\ i \notin Overwritten' => cells'[i].key = "new" \/ i \in slipped'
      BY <2>2, <3>1 DEF Overwritten, WriteLostOnlyInBatch, Cell, Key
    <3>3. \E n2 \in Rows' : n2 > lastSeen' /\ DOMAIN batch' = (lastSeen' + 1)..n2
      BY <2>1, <2>2, <2>3
    <3>4. QED BY <3>2, <3>3 DEF BatchState
  <2>6. WriteLostOnlyInBatch' /\ RotatedBehindCursor'
    BY <2>2, <2>3 DEF WriteLostOnlyInBatch, RotatedBehindCursor
  <2>7. QED BY <2>4, <2>5, <2>6
<1>3. QED BY <1>1, <1>2

\* The transaction overwrites only rows under the old key.
LEMMA UpdateInv ==
  ASSUME RotationInv, UpdateBatch
  PROVE  RotationInv'
<1> USE DEF RotationInv, TypeOK, Rows
<1>1. /\ pc = "update" /\ pc' = "fetch"
      /\ cells' = [i \in Rows |-> IF i \in DOMAIN batch THEN Reencrypted(i) ELSE cells[i]]
      /\ slipped' = slipped \ Overwritten
      /\ lastSeen' = LastOfBatch
      /\ batch' = NoBatch
      /\ UNCHANGED <<env, last, runs, latest, crossed>>
  BY DEF UpdateBatch
<1>2. /\ LastOfBatch \in Rows
      /\ DOMAIN batch = (lastSeen + 1)..LastOfBatch
  BY <1>1, LastOfBatchIs
<1>3. Overwritten \subseteq DOMAIN batch /\ DOMAIN batch' = {}
  BY <1>1 DEF Overwritten, NoBatch
<1>4. \A i \in Overwritten : cells'[i] = [batch[i] EXCEPT !.key = "new"]
  BY <1>1, <1>3 DEF Reencrypted
<1>5. \A i \in Rows \ Overwritten : cells'[i] = cells[i]
  BY <1>1 DEF Reencrypted
<1>6. \A i \in Overwritten : /\ cells'[i] \in Cell
                             /\ cells'[i].key = "new"
                             /\ cells'[i].data = batch[i].data
  BY <1>3, <1>4 DEF Cell, Key
<1>7. TypeOK'
  <2>1. cells' \in [Rows' -> Cell]
    <3>1. \A i \in Rows : cells'[i] \in Cell
      BY <1>5, <1>6
    <3>2. QED BY <1>1, <3>1
  <2>2. batch' \in [DOMAIN batch' -> Cell]
    BY <1>1 DEF NoBatch
  <2>3. lastSeen' \in 0..last' /\ DOMAIN batch' \subseteq Rows'
    BY <1>1, <1>2, <1>3
  <2>4. (pc' = "update" <=> DOMAIN batch' # {}) /\ slipped' \subseteq Rows'
    BY <1>1, <1>3
  <2>5. QED BY <1>1, <2>1, <2>2, <2>3, <2>4
<1>8. WriteLostOnlyInBatch'
  BY <1>1, <1>3, <1>5, <1>6 DEF WriteLostOnlyInBatch, BatchState
<1>9. RotatedBehindCursor'
  <2>1. \A i \in Rows : cells[i].key = "new" \/ i \in slipped
                          => cells'[i].key = "new" \/ i \in slipped'
    BY <1>1, <1>5, <1>6
  <2>2. \A i \in DOMAIN batch : cells'[i].key = "new" \/ i \in slipped'
    BY <1>1, <1>5, <1>6, <2>1 DEF BatchState
  <2>3. \A i \in 1..lastSeen' : i \in 1..lastSeen \/ i \in DOMAIN batch
    BY <1>1, <1>2
  <2>4. \A i \in 1..lastSeen' : cells'[i].key = "new" \/ i \in slipped'
    <3>1. \A i \in 1..lastSeen : i \in Rows /\ (cells[i].key = "new" \/ i \in slipped)
      BY <1>1 DEF RotatedBehindCursor
    <3>2. QED BY <2>1, <2>2, <2>3, <3>1
  <2>5. QED BY <1>1, <2>1, <2>4 DEF RotatedBehindCursor
<1>10. BatchState'
  BY <1>1, <1>3 DEF BatchState
<1>11. QED BY <1>7, <1>8, <1>9, <1>10

\* Every step keeps the invariant, and so does a step that changes nothing.
LEMMA RotationNextInv == RotationInv /\ [Next]_vars => RotationInv'
<1> SUFFICES ASSUME RotationInv, [Next]_vars PROVE RotationInv'
  OBVIOUS
<1>1. CASE \E w \in Write : Create(w) \/ Resubmit(w) \/ Patch(w)
  BY <1>1, ServiceWrites, PutInv
<1>2. CASE \E e \in Environment : Restart(e)
  BY <1>2, RestartInv
<1>3. CASE Start
  BY <1>3, StartInv
<1>4. CASE FetchBatch
  BY <1>4, FetchInv
<1>5. CASE UpdateBatch
  BY <1>5, UpdateInv
<1>6. CASE Die
  BY <1>6, DieInv
<1>7. CASE UNCHANGED vars
  BY <1>7
  DEF vars, RotationInv, TypeOK, WriteLostOnlyInBatch, RotatedBehindCursor, BatchState,
      Rows, Overwritten
<1>8. QED BY <1>1, <1>2, <1>3, <1>4, <1>5, <1>6, <1>7 DEF Next

\* The inductive invariant of the rotation (rotateModel beside the service).
THEOREM RotationInvariant == Spec => []RotationInv
<1>1. QED BY RotationInitInv, RotationNextInv, PTL DEF Spec

\* The script overwrites a newer write only if it fell between the reading of
\* a batch and its transaction.
THEOREM RotationKeepsWrites == Spec => []WriteLostOnlyInBatch
<1>1. RotationInv => WriteLostOnlyInBatch
  BY DEF RotationInv
<1>2. QED BY <1>1, RotationInvariant, PTL

\* A service restarted with the new key reads every row that was not written
\* with the old key behind the cursor of the script.
THEOREM RotationKeepsReadable == Spec => []ReadableAfterRestart
<1>1. RotationInv => ReadableAfterRestart
  <2> SUFFICES ASSUME RotationInv, env # "old", NEW i \in Rows \ slipped
               PROVE  ReadBy(cells[i]) # None
    BY DEF ReadableAfterRestart
  <2>1. cells[i] \in Cell /\ env \in {"both", "new"}
    BY DEF RotationInv, TypeOK, Environment
  <2>2. env = "new" => cells[i].key = "new"
    BY DEF RotationInv, RotatedBehindCursor
  <2>3. cells[i].key \in DecryptionKeys
    BY <2>1, <2>2 DEF DecryptionKeys, Cell, Key
  <2>4. QED BY <2>1, <2>3, DataAssumption DEF ReadBy, Cell, Data
<1>2. QED BY <1>1, RotationInvariant, PTL
=============================================================================
