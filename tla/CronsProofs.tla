----------------------------- MODULE CronsProofs ----------------------------
(***************************************************************************)
(* What the background jobs guarantee for any number of applications,      *)
(* overlapping ticks and failing rows, and any size of their batches.      *)
(***************************************************************************)
EXTENDS Crons, TLAPS

USE NoneAssumption, DecisionAssumption, AskAssumption DEF config, ticks

LEMMA CronsInitInv == Init => CronsInv
BY EventsAssumption
DEF Init, CronsInv, TypeOK, WindowHoldsNothingBack, HeldOnce, HeldByTwo, HeldProcessed,
    HeldCopy, AgainOnlyByOverlap, DecisionStaleOnlyByOverlap, InCalc, InCheck, Checking, Row, Time

\* A batch is a part of its selection.
LEMMA BatchIsSelected ==
  ASSUME NEW selection, NEW batch \in Batches(selection)
  PROVE  batch \subseteq selection
BY DEF Batches

\* What a request in flight is about.
LEMMA VisitType ==
  ASSUME TypeOK, NEW v \in Visit, visit[v] # None
  PROVE  /\ visit[v] \in Ask
         /\ visit[v].app \in App
         /\ visit[v].parts \subseteq Part
         /\ visit[v].seen \in Nat \union {None}
BY DEF TypeOK, Ask

\* The copies of checks stay what they are while no data change and no new copy is
\* taken.
LEMMA CopiesStay ==
  ASSUME CronsInv, UNCHANGED <<visit, crossed>>,
         \A b \in App : rows'[b].data = rows[b].data,
         \A t \in CalcTick : calcRow'[t] # None => calcSeen'[t] # None,
         \A t \in CheckTick : checkTodo'[t] \subseteq checkTodo[t]
  PROVE  HeldCopy'
<1> USE DEF CronsInv
<1>1. \A t \in CheckTick : \A r \in checkTodo'[t] :
        r.data.version = rows'[r.app].data \/ r.app \in crossed'
  BY DEF HeldCopy, TypeOK, RawRow
<1>2. \A v \in Visit : Checking(v) => visit[v].app \in App
  BY VisitType DEF Checking
<1>3. \A v \in Visit : Checking(v)' =>
        visit'[v].seen = rows'[visit'[v].app].data \/ visit'[v].app \in crossed'
  BY <1>2 DEF HeldCopy, Checking
<1>4. QED BY <1>1, <1>3 DEF HeldCopy

\* A new batch of the calculation: rows without an amount, shared with the ticks
\* that hold them already.
LEMMA CalcStartInv ==
  ASSUME CronsInv, NEW t \in CalcTick, CalcStart(t)
  PROVE  CronsInv'
<1> USE DEF CronsInv, TypeOK
<1>1. PICK batch \in Batches({a \in App : NeedsAmount(a)}) :
        /\ calcTodo' = [calcTodo EXCEPT ![t] = batch]
        /\ shared' = shared \union UNION {InCalc(u) \intersect batch : u \in CalcTick \ {t}}
  BY DEF CalcStart
<1>2. batch \subseteq App /\ \A a \in batch : rows[a].amount = None
  BY <1>1, BatchIsSelected DEF NeedsAmount
<1>3. /\ UNCHANGED <<rows, config, calcRow, calcSeen, checkTodo, visit, events, again, crossed, patched>>
      /\ InCalc(t) = {}
  BY DEF CalcStart
<1>4. calcRow[t] = None
  BY <1>3 DEF InCalc
<1>5. /\ \A u \in CalcTick : InCalc(u)' = IF u = t THEN batch ELSE InCalc(u)
      /\ \A u \in CheckTick : InCheck(u)' = InCheck(u)
  BY <1>1, <1>3, <1>4 DEF InCalc, InCheck
<1>6. /\ shared \subseteq shared'
      /\ shared' \subseteq App
      /\ \A u \in CalcTick \ {t} : InCalc(u) \intersect batch \subseteq shared'
  <2>1. \A u \in CalcTick : InCalc(u) \subseteq App
    BY DEF InCalc
  <2>2. QED BY <1>1, <1>2, <2>1
<1>7. TypeOK'
  BY <1>1, <1>2, <1>3, <1>6
<1>8. WindowHoldsNothingBack' /\ HeldCopy' /\ DecisionStaleOnlyByOverlap'
  <2>1. HeldCopy'
    <3>1. \A u \in CalcTick : calcRow[u] # None => calcSeen[u] # None
      BY DEF HeldCopy
    <3>2. QED BY <1>3, <3>1, CopiesStay
  <2>2. QED BY <1>3, <2>1 DEF WindowHoldsNothingBack, DecisionStaleOnlyByOverlap
<1>9. HeldOnce'
  BY <1>1, <1>2, <1>3, <1>4 DEF HeldOnce
<1>10. HeldByTwo'
  BY <1>5, <1>6 DEF HeldByTwo
<1>11. HeldProcessed'
  BY <1>2, <1>3, <1>5, <1>6 DEF HeldProcessed
<1>12. AgainOnlyByOverlap'
  BY <1>3, <1>6 DEF AgainOnlyByOverlap
<1>13. QED BY <1>7, <1>8, <1>9, <1>10, <1>11, <1>12

\* A tick moves on to a row it holds.
LEMMA CalcReadInv ==
  ASSUME CronsInv, NEW t \in CalcTick, CalcRead(t)
  PROVE  CronsInv'
<1> USE DEF CronsInv, TypeOK
<1>1. PICK a \in calcTodo[t] :
        /\ calcRow' = [calcRow EXCEPT ![t] = a]
        /\ calcSeen' = [calcSeen EXCEPT ![t] = rows[a].data]
        /\ calcTodo' = [calcTodo EXCEPT ![t] = @ \ {a}]
  BY DEF CalcRead
<1>2. /\ UNCHANGED <<rows, config, checkTodo, visit, events, shared, again, crossed, patched>>
      /\ calcRow[t] = None
  BY DEF CalcRead
<1>3. a \in App /\ rows[a].data \in Nat
  BY <1>1 DEF Row
<1>4. /\ \A u \in CalcTick : InCalc(u)' = InCalc(u)
      /\ \A u \in CheckTick : InCheck(u)' = InCheck(u)
  BY <1>1, <1>2, <1>3 DEF InCalc, InCheck
<1>5. TypeOK'
  BY <1>1, <1>2, <1>3
<1>6. HeldOnce' /\ HeldCopy'
  <2>1. HeldOnce'
    BY <1>1, <1>2, <1>3 DEF HeldOnce
  <2>2. \A u \in CalcTick : calcRow'[u] # None => calcSeen'[u] # None
    BY <1>1, <1>2, <1>3 DEF HeldCopy
  <2>3. QED BY <1>2, <2>1, <2>2, CopiesStay
<1>7. QED
  BY <1>2, <1>4, <1>5, <1>6
  DEF WindowHoldsNothingBack, HeldByTwo, HeldProcessed, AgainOnlyByOverlap,
      DecisionStaleOnlyByOverlap

\* The tick that is done with a row no longer holds it.
LEMMA CalcLeavesRow ==
  ASSUME CronsInv, NEW t \in CalcTick, calcRow[t] # None,
         calcRow' = [calcRow EXCEPT ![t] = None], UNCHANGED <<calcTodo, checkTodo>>
  PROVE  /\ calcRow[t] \in App /\ calcRow[t] \in InCalc(t)
         /\ InCalc(t)' = InCalc(t) \ {calcRow[t]}
         /\ \A u \in CalcTick \ {t} : InCalc(u)' = InCalc(u)
         /\ \A u \in CheckTick : InCheck(u)' = InCheck(u)
         /\ HeldOnce'
BY DEF CronsInv, TypeOK, HeldOnce, InCalc, InCheck

\* A row is calculated: again only if another tick holds it too.
LEMMA CalcWriteInv ==
  ASSUME CronsInv, NEW t \in CalcTick, CalcWrite(t)
  PROVE  CronsInv'
<1> USE DEF CronsInv, TypeOK
<1> DEFINE a == calcRow[t]
<1>1. /\ a # None
      /\ rows' = [rows EXCEPT ![a].amount = calcSeen[t], ![a].processedAt = "recent"]
      /\ again' = IF rows[a].amount # None THEN again \union {a} ELSE again
      /\ calcRow' = [calcRow EXCEPT ![t] = None]
      /\ calcSeen' = [calcSeen EXCEPT ![t] = None]
      /\ UNCHANGED <<config, calcTodo, checkTodo, visit, events, shared, crossed, patched>>
  BY DEF CalcWrite
<1>2. /\ a \in App /\ a \in InCalc(t)
      /\ InCalc(t)' = InCalc(t) \ {a}
      /\ \A u \in CalcTick \ {t} : InCalc(u)' = InCalc(u)
      /\ \A u \in CheckTick : InCheck(u)' = InCheck(u)
      /\ HeldOnce'
  BY <1>1, CalcLeavesRow
<1>3. /\ \A b \in App \ {a} : rows'[b] = rows[b]
      /\ DOMAIN rows' = App
      /\ rows'[a].amount = calcSeen[t] /\ rows'[a].processedAt = "recent"
      /\ rows'[a].eligibility = rows[a].eligibility
      /\ rows'[a].checkedAt = rows[a].checkedAt
      /\ rows'[a].data = rows[a].data
  BY <1>1, <1>2 DEF Row
<1>4. rows' \in [App -> Row]
  <2>1. rows[a] \in Row /\ calcSeen[t] \in Nat \union {None}
    BY <1>2
  <2>2. rows'[a] = [rows[a] EXCEPT !.amount = calcSeen[t], !.processedAt = "recent"]
    BY <1>1, <1>2
  <2>3. rows'[a] \in Row
    BY <2>1, <2>2 DEF Row, Time
  <2>4. QED BY <1>1, <2>3
<1>5. TypeOK'
  BY <1>1, <1>2, <1>4
<1>6. calcSeen[t] # None
  BY <1>1 DEF HeldCopy
<1>7. WindowHoldsNothingBack'
  BY <1>1, <1>2, <1>3, <1>6 DEF WindowHoldsNothingBack
<1>8. HeldByTwo'
  BY <1>1, <1>2 DEF HeldByTwo
<1>9. HeldProcessed'
  <2>1. \A u \in CalcTick : \A b \in InCalc(u)' : rows'[b].amount # None => b \in shared
    <3> SUFFICES ASSUME NEW u \in CalcTick, NEW b \in InCalc(u)', rows'[b].amount # None
                 PROVE  b \in shared
      OBVIOUS
    <3>1. b \in InCalc(u) /\ (u = t => b # a) /\ b \in App
      BY <1>2 DEF InCalc
    <3>2. CASE b = a
      BY <1>2, <3>1, <3>2 DEF HeldByTwo
    <3>3. CASE b # a
      BY <1>3, <3>1, <3>3 DEF HeldProcessed
    <3>4. QED BY <3>2, <3>3
  <2>2. \A u \in CheckTick : \A r \in checkTodo[u] :
          rows'[r.app].eligibility # None => r.app \in shared
    BY <1>3 DEF HeldProcessed, RawRow
  <2>3. QED BY <1>1, <2>1, <2>2 DEF HeldProcessed
<1>10. AgainOnlyByOverlap'
  BY <1>1, <1>2 DEF AgainOnlyByOverlap, HeldProcessed
<1>11. HeldCopy' /\ DecisionStaleOnlyByOverlap'
  <2> HIDE DEF a
  <2>1. \A b \in App : rows'[b].data = rows[b].data /\ rows'[b].eligibility = rows[b].eligibility
    BY <1>2, <1>3
  <2>2. \A u \in CalcTick : calcRow'[u] # None => calcSeen'[u] # None
    BY <1>1 DEF HeldCopy
  <2>3. HeldCopy'
    BY <1>1, <2>1, <2>2, CopiesStay
  <2>4. QED BY <1>1, <2>1, <2>3 DEF DecisionStaleOnlyByOverlap
<1>12. QED BY <1>2, <1>5, <1>7, <1>8, <1>9, <1>10, <1>11

\* A row is skipped: the tick no longer holds it and nothing else changes.
LEMMA CalcSkipInv ==
  ASSUME CronsInv, NEW t \in CalcTick, CalcSkip(t)
  PROVE  CronsInv'
<1> USE DEF CronsInv, TypeOK
<1>1. /\ calcRow[t] # None
      /\ calcRow' = [calcRow EXCEPT ![t] = None]
      /\ calcSeen' = [calcSeen EXCEPT ![t] = None]
      /\ events' \in 0..MaxEvents
      /\ UNCHANGED <<rows, config, calcTodo, checkTodo, visit, shared, again, crossed, patched>>
  BY EventsAssumption DEF CalcSkip, Happens
<1>2. /\ \A u \in CalcTick : InCalc(u)' \subseteq InCalc(u)
      /\ \A u \in CheckTick : InCheck(u)' = InCheck(u)
      /\ HeldOnce'
  BY <1>1, CalcLeavesRow
<1>3. TypeOK'
  BY <1>1
<1>4. HeldByTwo' /\ HeldProcessed'
  BY <1>1, <1>2 DEF HeldByTwo, HeldProcessed
<1>5. HeldCopy'
  <2>1. \A u \in CalcTick : calcRow'[u] # None => calcSeen'[u] # None
    BY <1>1 DEF HeldCopy
  <2>2. QED BY <1>1, <2>1, CopiesStay
<1>6. QED
  BY <1>1, <1>2, <1>3, <1>4, <1>5
  DEF WindowHoldsNothingBack, AgainOnlyByOverlap, DecisionStaleOnlyByOverlap

\* A new batch of the check: copies of undecided rows as they are.
LEMMA CheckStartInv ==
  ASSUME CronsInv, NEW t \in CheckTick, CheckStart(t)
  PROVE  CronsInv'
<1> USE DEF CronsInv, TypeOK
<1>1. PICK batch \in Batches({a \in App : NeedsCheck(a)}) :
        /\ checkTodo' = [checkTodo EXCEPT ![t] = {Raw(a) : a \in batch}]
        /\ shared' = shared \union UNION {InCheck(u) \intersect batch : u \in CheckTick \ {t}}
  BY DEF CheckStart
<1>2. batch \subseteq App /\ \A a \in batch : rows[a].eligibility = None
  BY <1>1, BatchIsSelected DEF NeedsCheck
<1>3. UNCHANGED <<rows, config, calcTodo, calcRow, calcSeen, visit, events, again, crossed, patched>>
  BY DEF CheckStart
<1>4. \A a \in App : Raw(a) \in RawRow /\ Raw(a).app = a /\ Raw(a).data.version = rows[a].data
  BY DEF Raw, RawRow, Row
<1>5. /\ checkTodo'[t] = {Raw(a) : a \in batch}
      /\ \A u \in CheckTick \ {t} : checkTodo'[u] = checkTodo[u]
  BY <1>1
<1>6. /\ InCheck(t)' = batch
      /\ \A u \in CheckTick \ {t} : InCheck(u)' = InCheck(u)
      /\ \A u \in CalcTick : InCalc(u)' = InCalc(u)
  <2>1. InCheck(t)' = batch
    BY <1>2, <1>4, <1>5 DEF InCheck
  <2>2. QED BY <1>3, <1>5, <2>1 DEF InCheck, InCalc
<1>7. /\ shared \subseteq shared'
      /\ shared' \subseteq App
      /\ \A u \in CheckTick \ {t} : InCheck(u) \intersect batch \subseteq shared'
  BY <1>1, <1>2
<1>8. TypeOK'
  <2>1. checkTodo' \in [CheckTick -> SUBSET RawRow]
    BY <1>1, <1>2, <1>4
  <2>2. QED BY <1>3, <1>7, <2>1
<1>9. HeldOnce'
  BY <1>2, <1>3, <1>4, <1>5 DEF HeldOnce
<1>10. HeldByTwo'
  BY <1>6, <1>7 DEF HeldByTwo
<1>11. HeldProcessed'
  <2>1. \A u \in CheckTick : \A r \in checkTodo'[u] :
          rows[r.app].eligibility # None => r.app \in shared'
    BY <1>2, <1>4, <1>5, <1>7 DEF HeldProcessed
  <2>2. QED BY <1>3, <1>6, <1>7, <2>1 DEF HeldProcessed
<1>12. HeldCopy'
  <2>1. \A u \in CheckTick : \A r \in checkTodo'[u] :
          r.data.version = rows[r.app].data \/ r.app \in crossed
    BY <1>2, <1>4, <1>5 DEF HeldCopy
  <2>2. \A v \in Visit : Checking(v)' = Checking(v)
    BY <1>3 DEF Checking
  <2>3. QED BY <1>3, <2>1, <2>2 DEF HeldCopy
<1>13. QED
  BY <1>3, <1>7, <1>8, <1>9, <1>10, <1>11, <1>12
  DEF WindowHoldsNothingBack, AgainOnlyByOverlap, DecisionStaleOnlyByOverlap

\* The tick of the check that is done with a row no longer holds it.
LEMMA CheckLeavesRow ==
  ASSUME CronsInv, NEW t \in CheckTick, NEW r \in checkTodo[t],
         checkTodo' = [checkTodo EXCEPT ![t] = @ \ {r}],
         UNCHANGED <<calcTodo, calcRow>>
  PROVE  /\ r \in RawRow /\ r.app \in App
         /\ InCheck(t)' = InCheck(t) \ {r.app}
         /\ \A u \in CheckTick \ {t} : checkTodo'[u] = checkTodo[u] /\ InCheck(u)' = InCheck(u)
         /\ checkTodo'[t] = checkTodo[t] \ {r}
         /\ \A s \in checkTodo'[t] : s.app # r.app
         /\ \A u \in CalcTick : InCalc(u)' = InCalc(u)
         /\ checkTodo' \in [CheckTick -> SUBSET RawRow]
         /\ HeldOnce'
<1> USE DEF CronsInv, TypeOK
<1>1. r \in RawRow /\ r.app \in App
  BY DEF RawRow
<1>2. /\ checkTodo'[t] = checkTodo[t] \ {r}
      /\ \A u \in CheckTick \ {t} : checkTodo'[u] = checkTodo[u]
      /\ checkTodo' \in [CheckTick -> SUBSET RawRow]
  OBVIOUS
<1>3. \A s \in checkTodo'[t] : s.app # r.app
  BY <1>2 DEF HeldOnce
<1>4. InCheck(t)' = InCheck(t) \ {r.app}
  BY <1>2, <1>3 DEF InCheck
<1>5. \A u \in CheckTick \ {t} : InCheck(u)' = InCheck(u)
  BY <1>2 DEF InCheck
<1>6. \A u \in CalcTick : InCalc(u)' = InCalc(u)
  BY DEF InCalc
<1>7. HeldOnce'
  BY <1>2 DEF HeldOnce
<1>8. QED BY <1>1, <1>2, <1>3, <1>4, <1>5, <1>6, <1>7

\* A row is decided on a copy: again only if another tick holds it too, and on
\* other data than its own only if it was resubmitted since.
LEMMA CheckWriteInv ==
  ASSUME CronsInv, NEW t \in CheckTick, CheckWrite(t)
  PROVE  CronsInv'
<1> USE DEF CronsInv, TypeOK
<1>1. PICK r \in checkTodo[t] :
        /\ rows' = [rows EXCEPT
             ![r.app].eligibility = [submission |-> r.data.version, profile |-> Profile(r)],
             ![r.app].checkedAt = "recent"]
        /\ again' = IF rows[r.app].eligibility # None THEN again \union {r.app} ELSE again
        /\ checkTodo' = [checkTodo EXCEPT ![t] = @ \ {r}]
  BY DEF CheckWrite
<1>2. UNCHANGED <<config, calcTodo, calcRow, calcSeen, visit, events, shared, crossed, patched>>
  BY DEF CheckWrite
<1> DEFINE d == [submission |-> r.data.version, profile |-> Profile(r)]
<1>3. /\ r \in RawRow /\ r.app \in App
      /\ InCheck(t)' = InCheck(t) \ {r.app}
      /\ \A u \in CheckTick \ {t} : checkTodo'[u] = checkTodo[u] /\ InCheck(u)' = InCheck(u)
      /\ checkTodo'[t] = checkTodo[t] \ {r}
      /\ \A s \in checkTodo'[t] : s.app # r.app
      /\ \A u \in CalcTick : InCalc(u)' = InCalc(u)
      /\ checkTodo' \in [CheckTick -> SUBSET RawRow]
      /\ HeldOnce'
  BY <1>1, <1>2, CheckLeavesRow
<1>4. d \in Decision /\ d # None /\ d.submission = r.data.version
  BY <1>3 DEF Decision, Profile, RawRow
<1>5. rows[r.app] \in Row /\ rows'[r.app] = [rows[r.app] EXCEPT !.eligibility = d, !.checkedAt = "recent"]
  BY <1>1, <1>3
<1>6. /\ \A b \in App \ {r.app} : rows'[b] = rows[b]
      /\ rows'[r.app].eligibility = d
      /\ rows'[r.app].amount = rows[r.app].amount
      /\ rows'[r.app].processedAt = rows[r.app].processedAt
      /\ rows'[r.app].data = rows[r.app].data
  BY <1>1, <1>3, <1>5 DEF Row
<1>7. TypeOK'
  <2>1. rows'[r.app] \in Row
    BY <1>4, <1>5 DEF Row, Time
  <2>2. QED BY <1>1, <1>2, <1>3, <2>1
<1>8. WindowHoldsNothingBack'
  BY <1>2, <1>4, <1>6 DEF WindowHoldsNothingBack
<1>9. HeldByTwo'
  BY <1>2, <1>3 DEF HeldByTwo
<1>10. HeldProcessed'
  <2>1. \A u \in CalcTick : \A b \in InCalc(u)' : rows'[b].amount # None => b \in shared
    BY <1>3, <1>6 DEF HeldProcessed, InCalc
  <2>2. \A u \in CheckTick : \A s \in checkTodo'[u] :
          rows'[s.app].eligibility # None => s.app \in shared
    <3> SUFFICES ASSUME NEW u \in CheckTick, NEW s \in checkTodo'[u],
                        rows'[s.app].eligibility # None
                 PROVE  s.app \in shared
      OBVIOUS
    <3>1. s \in checkTodo[u] /\ s.app \in App /\ (u = t => s.app # r.app)
      BY <1>3 DEF RawRow
    <3>2. CASE s.app = r.app
      BY <1>3, <3>1, <3>2 DEF HeldByTwo, InCheck
    <3>3. CASE s.app # r.app
      BY <1>6, <3>1, <3>3 DEF HeldProcessed
    <3>4. QED BY <3>2, <3>3
  <2>3. QED BY <1>2, <2>1, <2>2 DEF HeldProcessed
<1>11. AgainOnlyByOverlap'
  BY <1>1, <1>2, <1>3 DEF AgainOnlyByOverlap, HeldProcessed
<1>12. HeldCopy'
  <2>1. \A u \in CheckTick : checkTodo'[u] \subseteq checkTodo[u] /\ checkTodo[u] \subseteq RawRow
    BY <1>3
  <2>2. \A b \in App : rows'[b].data = rows[b].data
    BY <1>6
  <2>3. \A u \in CalcTick : calcRow[u] # None => calcSeen[u] # None
    BY DEF HeldCopy
  <2>4. QED BY <1>2, <2>1, <2>2, <2>3, CopiesStay
<1>13. DecisionStaleOnlyByOverlap'
  BY <1>2, <1>3, <1>4, <1>6 DEF DecisionStaleOnlyByOverlap, HeldCopy
<1>14. QED BY <1>3, <1>7, <1>8, <1>9, <1>10, <1>11, <1>12, <1>13

LEMMA CheckSkipInv ==
  ASSUME CronsInv, NEW t \in CheckTick, CheckSkip(t)
  PROVE  CronsInv'
<1> USE DEF CronsInv, TypeOK
<1>1. PICK r \in checkTodo[t] : checkTodo' = [checkTodo EXCEPT ![t] = @ \ {r}]
  BY DEF CheckSkip
<1>2. /\ events' \in 0..MaxEvents
      /\ UNCHANGED <<rows, config, calcTodo, calcRow, calcSeen, visit, shared, again, crossed, patched>>
  BY EventsAssumption DEF CheckSkip, Happens
<1>3. /\ \A u \in CheckTick : checkTodo'[u] \subseteq checkTodo[u] /\ InCheck(u)' \subseteq InCheck(u)
      /\ \A u \in CalcTick : InCalc(u)' = InCalc(u)
      /\ checkTodo' \in [CheckTick -> SUBSET RawRow]
      /\ HeldOnce'
  <2>1. UNCHANGED <<calcTodo, calcRow>>
    BY <1>2
  <2>2. /\ InCheck(t)' = InCheck(t) \ {r.app}
        /\ \A u \in CheckTick \ {t} : checkTodo'[u] = checkTodo[u] /\ InCheck(u)' = InCheck(u)
        /\ checkTodo'[t] = checkTodo[t] \ {r}
        /\ \A u \in CalcTick : InCalc(u)' = InCalc(u)
        /\ checkTodo' \in [CheckTick -> SUBSET RawRow]
        /\ HeldOnce'
    BY <1>1, <2>1, CheckLeavesRow
  <2>3. QED BY <2>2
<1>4. TypeOK'
  BY <1>2, <1>3
<1>5. HeldByTwo' /\ HeldProcessed' /\ HeldCopy'
  <2>1. HeldByTwo' /\ HeldProcessed'
    BY <1>2, <1>3 DEF HeldByTwo, HeldProcessed
  <2>2. \A u \in CalcTick : calcRow[u] # None => calcSeen[u] # None
    BY DEF HeldCopy
  <2>3. QED BY <1>2, <1>3, <2>1, <2>2, CopiesStay
<1>6. QED
  BY <1>2, <1>3, <1>4, <1>5
  DEF WindowHoldsNothingBack, AgainOnlyByOverlap, DecisionStaleOnlyByOverlap

-----------------------------------------------------------------------------
(* Steps beside the ticks *)

\* What the ticks hold stays, and what two of them hold stays shared.
LEMMA TicksStay ==
  ASSUME CronsInv, UNCHANGED ticks, shared \subseteq shared'
  PROVE  /\ \A u \in CalcTick : InCalc(u)' = InCalc(u) /\ InCalc(u) \subseteq App
         /\ \A u \in CheckTick : InCheck(u)' = InCheck(u) /\ InCheck(u) \subseteq App
         /\ HeldOnce' /\ HeldByTwo'
<1> USE DEF CronsInv, TypeOK
<1>1. /\ \A u \in CalcTick : InCalc(u)' = InCalc(u) /\ InCalc(u) \subseteq App
      /\ \A u \in CheckTick : InCheck(u)' = InCheck(u) /\ InCheck(u) \subseteq App
  BY DEF InCalc, InCheck, RawRow
<1>2. HeldOnce' /\ HeldByTwo'
  BY <1>1 DEF HeldOnce, HeldByTwo
<1>3. QED BY <1>1, <1>2

\* Who processes a row that ticks hold makes it shared.
LEMMA ProcessedIsShared ==
  ASSUME CronsInv, UNCHANGED ticks, shared \subseteq shared',
         \A b \in App :
           /\ rows'[b].amount # None =>
                rows[b].amount # None \/ (Held("calculation", b) => b \in shared')
           /\ rows'[b].eligibility # None =>
                rows[b].eligibility # None \/ (Held("check", b) => b \in shared')
  PROVE  HeldProcessed'
<1> USE DEF CronsInv
<1>1. \A u \in CalcTick : \A b \in InCalc(u)' : rows'[b].amount # None => b \in shared'
  BY TicksStay DEF HeldProcessed, Held
<1>2. \A u \in CheckTick : \A r \in checkTodo'[u] :
        rows'[r.app].eligibility # None => r.app \in shared'
  BY TicksStay DEF HeldProcessed, Held, InCheck
<1>3. QED BY <1>1, <1>2 DEF HeldProcessed

\* Data replaced under a copy in use cross it.
LEMMA CopiesCross ==
  ASSUME CronsInv, NEW a \in App, UNCHANGED <<ticks, visit>>,
         \A b \in App \ {a} : rows'[b].data = rows[b].data,
         crossed' = Crossing(a)
  PROVE  HeldCopy' /\ crossed \subseteq crossed'
<1> USE DEF CronsInv, TypeOK
<1>1. crossed \subseteq crossed' /\ (CopyInUse(a) => a \in crossed')
  BY DEF Crossing
<1>2. \A u \in CheckTick : \A r \in checkTodo'[u] :
        r.data.version = rows'[r.app].data \/ r.app \in crossed'
  BY <1>1 DEF HeldCopy, CopyInUse, Held, InCheck, RawRow
<1>3. \A v \in Visit : Checking(v)' =>
        visit'[v].seen = rows'[visit'[v].app].data \/ visit'[v].app \in crossed'
  <2>1. \A v \in Visit : Checking(v)' = Checking(v)
    BY DEF Checking
  <2>2. \A v \in Visit : Checking(v) => visit[v].app \in App
    BY VisitType DEF Checking
  <2>3. QED BY <1>1, <2>1, <2>2 DEF HeldCopy, CopyInUse
<1>4. \A u \in CalcTick : calcRow'[u] # None => calcSeen'[u] # None
  BY DEF HeldCopy
<1>5. QED BY <1>1, <1>2, <1>3, <1>4 DEF HeldCopy

-----------------------------------------------------------------------------
(* Requests *)

\* A request at one of its parts, as After leaves it: it has read nothing yet.
LEMMA AfterType ==
  ASSUME NEW q \in Ask
  PROVE  /\ After(q) \in Ask \union {None}
         /\ After(q) # None => After(q).seen = None
<1> DEFINE rest == q.parts \ {PartOf(q)}
<1>1. rest \subseteq Part
  BY DEF Ask
<1>2. CASE rest = {}
  BY <1>2 DEF After
<1>3. CASE rest # {}
  <2>1. After(q) = [q EXCEPT !.parts = rest, !.seen = None]
    BY <1>3 DEF After
  <2>2. QED BY <1>1, <1>3, <2>1 DEF Ask
<1>4. QED BY <1>2, <1>3

\* A step that only moves a request on, to a copy of what the row has now or to none.
LEMMA VisitInv ==
  ASSUME CronsInv, NEW v \in Visit, NEW q \in Ask \union {None},
         visit' = [visit EXCEPT ![v] = q],
         q # None => q.seen \in {None, rows[q.app].data},
         events' \in 0..MaxEvents,
         UNCHANGED <<rows, config, ticks, shared, again, crossed, patched>>
  PROVE  CronsInv'
<1> USE DEF CronsInv, TypeOK
<1>1. TypeOK'
  OBVIOUS
<1>2. HeldOnce' /\ HeldByTwo'
  BY TicksStay
<1>3. HeldProcessed'
  BY ProcessedIsShared
<1>4. HeldCopy'
  <2>1. \A w \in Visit : Checking(w)' =>
          visit'[w].seen = rows[visit'[w].app].data \/ visit'[w].app \in crossed
    BY DEF HeldCopy, Checking
  <2>2. QED BY <2>1 DEF HeldCopy
<1>5. WindowHoldsNothingBack' /\ AgainOnlyByOverlap' /\ DecisionStaleOnlyByOverlap'
  BY DEF WindowHoldsNothingBack, AgainOnlyByOverlap, DecisionStaleOnlyByOverlap
<1>6. QED BY <1>1, <1>2, <1>3, <1>4, <1>5

LEMMA ArriveInv ==
  ASSUME CronsInv, NEW v \in Visit, Arrive(v)
  PROVE  CronsInv'
<1>1. PICK a \in Touched, parts \in SUBSET Part \ {{}} :
        visit' = [visit EXCEPT ![v] = [app |-> a, parts |-> parts, seen |-> rows[a].data]]
  BY DEF Arrive
<1> DEFINE q == [app |-> a, parts |-> parts, seen |-> rows[a].data]
<1>2. a \in App /\ rows[a].data \in Nat
  BY TouchedAssumption DEF CronsInv, TypeOK, Row
<1>3. q \in Ask /\ q.seen = rows[q.app].data
  BY <1>2 DEF Ask
<1>4. events' \in 0..MaxEvents
  BY EventsAssumption DEF Arrive, Happens, CronsInv, TypeOK
<1>5. UNCHANGED <<rows, config, ticks, shared, again, crossed, patched>>
  BY DEF Arrive
<1> HIDE DEF q
<1>6. visit' = [visit EXCEPT ![v] = q]
  BY <1>1 DEF q
<1>7. QED BY <1>3, <1>4, <1>5, <1>6, VisitInv

LEMMA LookInv ==
  ASSUME CronsInv, NEW v \in Visit, Look(v)
  PROVE  CronsInv'
<1> DEFINE q == [visit[v] EXCEPT !.seen = rows[visit[v].app].data]
<1>1. /\ visit[v] # None
      /\ visit' = [visit EXCEPT ![v] = q]
      /\ UNCHANGED <<rows, config, ticks, events, shared, again, crossed, patched>>
  BY DEF Look, CronsInv, TypeOK
<1>2. visit[v] \in Ask /\ rows[visit[v].app].data \in Nat
  BY <1>1, VisitType DEF CronsInv, TypeOK, Row
<1>3. q \in Ask /\ q.seen = rows[q.app].data
  BY <1>2 DEF Ask
<1>4. events' \in 0..MaxEvents
  BY <1>1 DEF CronsInv, TypeOK
<1> HIDE DEF q
<1>5. QED BY <1>1, <1>3, <1>4, VisitInv

LEMMA FailInv ==
  ASSUME CronsInv, NEW v \in Visit, Fail(v)
  PROVE  CronsInv'
<1> DEFINE q == After(visit[v])
<1>1. /\ visit[v] # None
      /\ visit' = [visit EXCEPT ![v] = q]
      /\ UNCHANGED <<rows, config, ticks, events, shared, again, crossed, patched>>
  BY DEF Fail, CronsInv, TypeOK
<1>2. q \in Ask \union {None} /\ (q # None => q.seen = None)
  BY <1>1, VisitType, AfterType DEF CronsInv
<1>3. events' \in 0..MaxEvents
  BY <1>1 DEF CronsInv, TypeOK
<1> HIDE DEF q
<1>4. QED BY <1>1, <1>2, <1>3, VisitInv

\* A request gives a row its amount or its decision: shared if a tick holds it, and
\* the decision is of the data the row has unless these crossed the request.
LEMMA StoreInv ==
  ASSUME CronsInv, NEW v \in Visit, Store(v)
  PROVE  CronsInv'
<1> USE DEF CronsInv, TypeOK
<1> DEFINE q == visit[v]
           a == q.app
           calculates == PartOf(q) = "calculation"
           d == [submission |-> q.seen, profile |-> q.seen]
           new == IF calculates
                    THEN [rows[a] EXCEPT !.amount = q.seen, !.processedAt = "recent"]
                    ELSE [rows[a] EXCEPT !.eligibility = d, !.checkedAt = "recent"]
<1>1. /\ q # None /\ q.seen # None
      /\ rows' = [rows EXCEPT ![a] = new]
      /\ shared' = IF Held(PartOf(q), a) THEN shared \union {a} ELSE shared
      /\ visit' = [visit EXCEPT ![v] = After(q)]
      /\ UNCHANGED <<config, ticks, events, again, crossed, patched>>
  BY DEF Store
<1>2. q \in Ask /\ a \in App /\ q.seen \in Nat /\ rows[a] \in Row
  BY <1>1, VisitType
<1>3. d \in Decision /\ d # None /\ d.submission = q.seen
  BY <1>2 DEF Decision
<1>4. /\ new \in Row
      /\ new.data = rows[a].data
      /\ calculates => /\ new.amount # None
                       /\ new.eligibility = rows[a].eligibility /\ new.checkedAt = rows[a].checkedAt
      /\ ~calculates => /\ new.eligibility = d
                        /\ new.amount = rows[a].amount /\ new.processedAt = rows[a].processedAt
  <2> HIDE DEF q, a, d
  <2>1. CASE calculates
    <3> HIDE DEF calculates
    <3>1. new = [rows[a] EXCEPT !.amount = q.seen, !.processedAt = "recent"]
      BY <2>1
    <3> HIDE DEF new
    <3>2. QED BY <1>2, <2>1, <3>1 DEF Row, Time
  <2>2. CASE ~calculates
    <3> HIDE DEF calculates
    <3>1. new = [rows[a] EXCEPT !.eligibility = d, !.checkedAt = "recent"]
      BY <2>2
    <3> HIDE DEF new
    <3>2. QED BY <1>2, <1>3, <2>2, <3>1 DEF Row, Time
  <2>3. QED BY <2>1, <2>2
<1>5. PartOf(q) = IF calculates THEN "calculation" ELSE "check"
  BY DEF PartOf
<1> HIDE DEF new, calculates, d
<1>6. rows'[a] = new /\ \A b \in App \ {a} : rows'[b] = rows[b]
  BY <1>1, <1>2
<1>7. shared \subseteq shared' /\ shared' \subseteq App
  BY <1>1, <1>2
<1>8. TypeOK'
  <2>1. After(q) \in Ask \union {None}
    BY <1>2, AfterType
  <2>2. rows' \in [App -> Row]
    BY <1>1, <1>4
  <2>3. QED BY <1>1, <1>7, <2>1, <2>2
<1>9. HeldOnce' /\ HeldByTwo'
  BY <1>1, <1>7, TicksStay
<1>10. HeldProcessed'
  <2>1. \A b \in App :
          /\ rows'[b].amount # None =>
               rows[b].amount # None \/ (Held("calculation", b) => b \in shared')
          /\ rows'[b].eligibility # None =>
               rows[b].eligibility # None \/ (Held("check", b) => b \in shared')
    BY <1>1, <1>4, <1>5, <1>6
  <2>2. QED BY <1>1, <1>7, <2>1, ProcessedIsShared
<1>11. HeldCopy'
  <2>1. \A b \in App : rows'[b].data = rows[b].data
    BY <1>4, <1>6
  <2>2. \A u \in CheckTick : \A r \in checkTodo'[u] :
          r.data.version = rows'[r.app].data \/ r.app \in crossed'
    BY <1>1, <2>1 DEF HeldCopy, RawRow
  <2>3. ASSUME NEW w \in Visit, Checking(w)'
        PROVE  visit'[w].seen = rows'[visit'[w].app].data \/ visit'[w].app \in crossed'
    <3>1. w # v
      BY <1>1, <1>2, <2>3, AfterType DEF Checking
    <3>2. visit'[w] = visit[w] /\ Checking(w)
      BY <1>1, <2>3, <3>1 DEF Checking
    <3>3. visit[w].app \in App
      BY <3>2, VisitType DEF Checking
    <3>4. QED BY <1>1, <2>1, <3>2, <3>3 DEF HeldCopy
  <2>4. QED BY <1>1, <2>2, <2>3 DEF HeldCopy
<1>12. DecisionStaleOnlyByOverlap'
  <2>1. ~calculates => q.seen = rows[a].data \/ a \in crossed
    BY <1>1, <1>5 DEF HeldCopy, Checking
  <2> HIDE DEF a
  <2>2. QED BY <1>1, <1>2, <1>3, <1>4, <1>6, <2>1 DEF DecisionStaleOnlyByOverlap
<1>13. WindowHoldsNothingBack'
  <2> HIDE DEF a
  <2>1. QED BY <1>1, <1>2, <1>3, <1>4, <1>6 DEF WindowHoldsNothingBack
<1>14. AgainOnlyByOverlap'
  BY <1>1, <1>7 DEF AgainOnlyByOverlap
<1>15. QED BY <1>8, <1>9, <1>10, <1>11, <1>12, <1>13, <1>14

-----------------------------------------------------------------------------
(* What happens around the jobs *)

\* A resubmission crosses the copies of the row that ticks of the check hold.
LEMMA ResubmitInv ==
  ASSUME CronsInv, NEW a \in App, Resubmit(a)
  PROVE  CronsInv'
<1> USE DEF CronsInv, TypeOK
<1>1. /\ events' \in 0..MaxEvents
      /\ rows' = [rows EXCEPT ![a] = Resubmitted(@)]
      /\ crossed' = Crossing(a) /\ patched' = patched \ {a}
      /\ UNCHANGED <<config, ticks, visit, shared, again>>
  BY EventsAssumption DEF Resubmit, Happens
<1>2. /\ rows'[a] = Resubmitted(rows[a])
      /\ \A b \in App \ {a} : rows'[b] = rows[b]
      /\ rows[a] \in Row
  BY <1>1
<1>3. /\ rows'[a] \in Row
      /\ rows'[a].amount = None /\ rows'[a].processedAt = None
      /\ rows'[a].eligibility = None /\ rows'[a].checkedAt = None
  <2>1. rows[a].data \in Nat /\ rows[a].data + 1 \in Nat
    BY <1>2 DEF Row
  <2>2. rows'[a] = [data |-> rows[a].data + 1, amount |-> None, processedAt |-> None,
                    eligibility |-> None, checkedAt |-> None]
    BY <1>2 DEF Resubmitted, Row
  <2>3. QED BY <2>1, <2>2 DEF Row, Time
<1>4. /\ \A u \in CalcTick : InCalc(u)' = InCalc(u)
      /\ \A u \in CheckTick : InCheck(u)' = InCheck(u)
  BY <1>1 DEF InCalc, InCheck
<1>5. TypeOK'
  BY <1>1, <1>3 DEF Crossing
<1>6. WindowHoldsNothingBack'
  BY <1>1, <1>2, <1>3 DEF WindowHoldsNothingBack
<1>7. HeldOnce' /\ HeldByTwo' /\ AgainOnlyByOverlap'
  BY <1>1, <1>4 DEF HeldOnce, HeldByTwo, AgainOnlyByOverlap
<1>8. HeldProcessed'
  <2>1. \A u \in CalcTick : \A b \in InCalc(u) : rows'[b].amount # None => b \in shared
    BY <1>2, <1>3 DEF HeldProcessed, InCalc
  <2>2. \A u \in CheckTick : \A r \in checkTodo[u] :
          rows'[r.app].eligibility # None => r.app \in shared
    BY <1>2, <1>3 DEF HeldProcessed, RawRow
  <2>3. QED BY <1>1, <1>4, <2>1, <2>2 DEF HeldProcessed
<1>9. HeldCopy' /\ crossed \subseteq crossed'
  BY <1>1, <1>2, CopiesCross
<1>10. DecisionStaleOnlyByOverlap'
  BY <1>1, <1>2, <1>3, <1>9 DEF DecisionStaleOnlyByOverlap
<1>11. QED BY <1>5, <1>6, <1>7, <1>8, <1>9, <1>10

\* Time passing changes the times of processed rows only.
LEMMA ElapseInv ==
  ASSUME CronsInv, NEW a \in App, Elapse(a)
  PROVE  CronsInv'
<1> USE DEF CronsInv, TypeOK
<1>1. /\ events' \in 0..MaxEvents
      /\ rows' = [rows EXCEPT ![a].processedAt = IF @ = None THEN None ELSE "old",
                              ![a].checkedAt = IF @ = None THEN None ELSE "old"]
      /\ UNCHANGED <<config, ticks, visit, shared, again, crossed, patched>>
  BY EventsAssumption DEF Elapse, Happens
<1> DEFINE p == IF rows[a].processedAt = None THEN None ELSE "old"
           c == IF rows[a].checkedAt = None THEN None ELSE "old"
<1>2. /\ rows[a] \in Row
      /\ rows'[a] = [rows[a] EXCEPT !.processedAt = p, !.checkedAt = c]
      /\ \A b \in App \ {a} : rows'[b] = rows[b]
  BY <1>1
<1>3. rows'[a] \in Row /\ p \in Time /\ c \in Time
  BY <1>2 DEF Row, Time
<1>4. /\ rows'[a].processedAt = p /\ rows'[a].checkedAt = c
      /\ \A b \in App : /\ rows'[b].data = rows[b].data
                         /\ rows'[b].amount = rows[b].amount
                         /\ rows'[b].eligibility = rows[b].eligibility
  <2> HIDE DEF p, c
  <2>1. /\ rows'[a].processedAt = p /\ rows'[a].checkedAt = c
        /\ rows'[a].data = rows[a].data
        /\ rows'[a].amount = rows[a].amount
        /\ rows'[a].eligibility = rows[a].eligibility
    BY <1>2 DEF Row
  <2>2. QED BY <1>2, <2>1
<1>5. /\ \A u \in CalcTick : InCalc(u)' = InCalc(u)
      /\ \A u \in CheckTick : InCheck(u)' = InCheck(u)
  BY <1>1 DEF InCalc, InCheck
<1>6. TypeOK'
  BY <1>1, <1>3
<1>7. WindowHoldsNothingBack'
  BY <1>1, <1>2, <1>4 DEF WindowHoldsNothingBack
<1>8. HeldOnce' /\ HeldByTwo' /\ AgainOnlyByOverlap'
  BY <1>1, <1>5 DEF HeldOnce, HeldByTwo, AgainOnlyByOverlap
<1>9. HeldProcessed'
  BY <1>1, <1>4, <1>5 DEF HeldProcessed, InCalc, RawRow
<1>10. HeldCopy' /\ DecisionStaleOnlyByOverlap'
  <2>1. \A u \in CalcTick : calcRow'[u] # None => calcSeen'[u] # None
    BY <1>1 DEF HeldCopy
  <2>2. HeldCopy'
    BY <1>1, <1>4, <2>1, CopiesStay
  <2>3. QED BY <1>1, <1>4, <2>2 DEF DecisionStaleOnlyByOverlap
<1>11. QED BY <1>6, <1>7, <1>8, <1>9, <1>10

\* A PATCH may write what it likes: the row is exempt from what it can break, the
\* copies of checks are crossed by other data, and ticks share a row it processes.
LEMMA PatchInv ==
  ASSUME CronsInv, NEW a \in App, Patch(a)
  PROVE  CronsInv'
<1> USE DEF CronsInv, TypeOK
<1>1. PICK new \in PatchedRows(rows[a]) :
        /\ rows' = [rows EXCEPT ![a] = new]
        /\ crossed' = IF new.data # rows[a].data THEN Crossing(a) ELSE crossed
        /\ shared' = IF \/ new.amount # rows[a].amount /\ Held("calculation", a)
                        \/ new.eligibility # rows[a].eligibility /\ Held("check", a)
                       THEN shared \union {a} ELSE shared
  BY DEF Patch
<1>2. /\ patched' = patched \union {a}
      /\ UNCHANGED <<config, ticks, visit, again>>
      /\ events' \in 0..MaxEvents
  BY EventsAssumption DEF Patch, Happens
<1>3. new \in Row
  <2>1. rows[a] \in Row /\ rows[a].data \in Nat /\ rows[a].data + 1 \in Nat
    BY DEF Row
  <2>2. [submission |-> rows[a].data, profile |-> rows[a].data] \in Decision
    BY <2>1 DEF Decision
  <2>3. QED BY <2>1, <2>2 DEF PatchedRows, Row, Time
<1>4. rows'[a] = new /\ \A b \in App \ {a} : rows'[b] = rows[b]
  BY <1>1
<1>5. shared \subseteq shared' /\ shared' \subseteq App
  BY <1>1
<1>6. HeldCopy' /\ crossed \subseteq crossed' /\ crossed' \subseteq App
  <2>1. CASE new.data # rows[a].data
    <3>1. crossed' = Crossing(a)
      BY <1>1, <2>1
    <3>2. QED BY <1>2, <1>4, <3>1, CopiesCross DEF Crossing
  <2>2. CASE new.data = rows[a].data
    <3>1. \A b \in App : rows'[b].data = rows[b].data
      BY <1>4, <2>2
    <3>2. \A u \in CalcTick : calcRow'[u] # None => calcSeen'[u] # None
      BY <1>2 DEF HeldCopy
    <3>3. crossed' = crossed
      BY <1>1, <2>2
    <3>4. QED BY <1>2, <3>1, <3>2, <3>3, CopiesStay
  <2>3. QED BY <2>1, <2>2
<1>7. TypeOK'
  BY <1>1, <1>2, <1>3, <1>5, <1>6
<1>8. HeldOnce' /\ HeldByTwo'
  BY <1>2, <1>5, TicksStay
<1>9. HeldProcessed'
  <2>1. \A b \in App :
          /\ rows'[b].amount # None =>
               rows[b].amount # None \/ (Held("calculation", b) => b \in shared')
          /\ rows'[b].eligibility # None =>
               rows[b].eligibility # None \/ (Held("check", b) => b \in shared')
    BY <1>1, <1>4
  <2>2. QED BY <1>2, <1>5, <2>1, ProcessedIsShared
<1>10. WindowHoldsNothingBack' /\ DecisionStaleOnlyByOverlap' /\ AgainOnlyByOverlap'
  BY <1>2, <1>4, <1>5, <1>6
  DEF WindowHoldsNothingBack, DecisionStaleOnlyByOverlap, AgainOnlyByOverlap
<1>11. QED BY <1>6, <1>7, <1>8, <1>9, <1>10

\* After a restart no tick and no request holds anything.
LEMMA RestartInv ==
  ASSUME CronsInv, Restart
  PROVE  CronsInv'
BY EventsAssumption
DEF Restart, Happens, CronsInv, TypeOK, WindowHoldsNothingBack, HeldOnce, HeldByTwo, HeldProcessed,
    HeldCopy, Checking, AgainOnlyByOverlap, DecisionStaleOnlyByOverlap, InCalc, InCheck

-----------------------------------------------------------------------------

LEMMA CronsStepInv ==
  ASSUME CronsInv, [Next]_vars
  PROVE  CronsInv'
<1>1. CASE \E t \in CalcTick : CalcStart(t) \/ CalcStep(t)
  BY <1>1, CalcStartInv, CalcReadInv, CalcWriteInv, CalcSkipInv DEF CalcStep
<1>2. CASE \E t \in CheckTick : CheckStart(t) \/ CheckStep(t)
  BY <1>2, CheckStartInv, CheckWriteInv, CheckSkipInv DEF CheckStep
<1>3. CASE \E a \in Touched : Resubmit(a) \/ Patch(a) \/ Elapse(a)
  BY <1>3, TouchedAssumption, ResubmitInv, PatchInv, ElapseInv
<1>4. CASE Restart
  BY <1>4, RestartInv
<1>5. CASE \E v \in Visit : Arrive(v) \/ Look(v) \/ Store(v) \/ Fail(v)
  BY <1>5, ArriveInv, LookInv, StoreInv, FailInv
<1>6. CASE UNCHANGED vars
  BY <1>6
  DEF vars, CronsInv, TypeOK, WindowHoldsNothingBack, HeldOnce, HeldByTwo, HeldProcessed,
      HeldCopy, Checking, AgainOnlyByOverlap, DecisionStaleOnlyByOverlap, InCalc, InCheck
<1>7. QED BY <1>1, <1>2, <1>3, <1>4, <1>5, <1>6 DEF Next

\* The inductive invariant of the two jobs holds in every behaviour.
THEOREM CronsInvariant == Spec => []CronsInv
<1>1. Init => CronsInv
  BY CronsInitInv
<1>2. CronsInv /\ [Next]_vars => CronsInv'
  BY CronsStepInv
<1>3. QED BY <1>1, <1>2, PTL DEF Spec

\* The rows, batches and copies of the jobs keep their types, a decision its two
\* parts.
THEOREM CronsTypes == Spec => []TypeOK
BY CronsInvariant, PTL DEF CronsInv

\* No time window holds back a row that is without an amount or a decision and
\* that PATCH did not write, whatever ticks, requests, resubmissions and restarts
\* come in between.
THEOREM CronsWindow == Spec => []WindowHoldsNothingBack
BY CronsInvariant, PTL DEF CronsInv

\* A job processes a row a second time only if, while a tick held it, another tick
\* took it too or a request or a PATCH processed it.
THEOREM CronsAgain == Spec => []AgainOnlyByOverlap
BY CronsInvariant, PTL DEF CronsInv

\* A decision on replaced data comes only from data replaced between the read and
\* the write of a check, of a tick or a request, or from a PATCH of the row.
THEOREM CronsDecision == Spec => []DecisionStaleOnlyByOverlap
BY CronsInvariant, PTL DEF CronsInv
=============================================================================
