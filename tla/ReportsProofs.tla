---------------------------- MODULE ReportsProofs ----------------------------
(***************************************************************************)
(* Lists, cards and files of any number of benefits and applications, read *)
(* beside any writers, are what Reports says of them.                      *)
(*                                                                         *)
(* Sums and unions over a finite set are reasoned about by a smallest      *)
(* subset for which the claim fails: SmallestSubset.                       *)
(***************************************************************************)
EXTENDS Reports, FiniteSetTheorems, WellFoundedInduction, TLAPS

-----------------------------------------------------------------------------
(* Sums over finite sets. *)

Pick(T) == CHOOSE x \in T : TRUE

\* The recursion that SumFunctionOnSet stands for, over the subsets of S.
IsSum(g, f, S) ==
  g = [T \in SUBSET S |-> IF T = {} THEN 0 ELSE f[Pick(T)] + g[T \ {Pick(T)}]]

\* An element of a set that is not empty.
LEMMA PickIn == ASSUME NEW T, T # {} PROVE Pick(T) \in T
BY DEF Pick

\* A claim about the subsets of a finite set holds if no smallest one violates it.
LEMMA SmallestSubset ==
  ASSUME NEW S, IsFiniteSet(S), NEW Bad \in SUBSET (SUBSET S), Bad # {}
  PROVE  \E T \in Bad : \A U \in Bad : U \subseteq T => U = T
<1>1. IsWellFoundedOn(StrictSubsetOrdering(S), SUBSET S)
  BY FS_StrictSubsetOrderingWellFounded, FS_FiniteSubsetsOfFinite
<1>2. PICK T \in Bad : \A U \in Bad : <<U, T>> \notin StrictSubsetOrdering(S)
  BY <1>1, WFMin, Zenon
<1>3. \A U \in Bad : U \subseteq T => U = T
  BY <1>2 DEF StrictSubsetOrdering
<1>4. QED BY <1>3

\* One step of that recursion.
LEMMA SumAt ==
  ASSUME NEW f, NEW S, NEW g, IsSum(g, f, S), NEW T \in SUBSET S
  PROVE  g[T] = IF T = {} THEN 0 ELSE f[Pick(T)] + g[T \ {Pick(T)}]
BY Zenon DEF IsSum

\* Two such functions agree where both are defined.
LEMMA SumUnique ==
  ASSUME NEW f, NEW A, NEW g, IsSum(g, f, A), NEW B, NEW h, IsSum(h, f, B),
         NEW S \in SUBSET A, S \in SUBSET B, IsFiniteSet(S)
  PROVE  g[S] = h[S]
<1> DEFINE Bad == {T \in SUBSET S : g[T] # h[T]}
<1>1. SUFFICES ASSUME Bad # {} PROVE FALSE
  OBVIOUS
<1>2. PICK T \in Bad : \A U \in Bad : U \subseteq T => U = T
  <2>1. Bad \in SUBSET (SUBSET S)
    OBVIOUS
  <2> HIDE DEF Bad
  <2>2. QED BY <1>1, <2>1, SmallestSubset
<1>3. /\ g[T] = IF T = {} THEN 0 ELSE f[Pick(T)] + g[T \ {Pick(T)}]
      /\ h[T] = IF T = {} THEN 0 ELSE f[Pick(T)] + h[T \ {Pick(T)}]
  <2>1. T \in SUBSET A /\ T \in SUBSET B
    OBVIOUS
  <2>2. QED BY <2>1, SumAt
<1>4. T # {} => Pick(T) \in T
  BY PickIn
<1>5. T # {} => g[T \ {Pick(T)}] = h[T \ {Pick(T)}]
  BY <1>2, <1>4
<1>6. QED BY <1>2, <1>3, <1>5

\* There is one over a finite set.
LEMMA SumExists ==
  ASSUME NEW f, NEW S, IsFiniteSet(S)
  PROVE  \E g : IsSum(g, f, S)
<1> DEFINE Bad == {T \in SUBSET S : ~ \E g : IsSum(g, f, T)}
           G(U) == CHOOSE g : IsSum(g, f, U)
<1>1. SUFFICES ASSUME Bad # {} PROVE FALSE
  OBVIOUS
<1>2. PICK T \in Bad : \A U \in Bad : U \subseteq T => U = T
  <2>1. Bad \in SUBSET (SUBSET S)
    OBVIOUS
  <2> HIDE DEF Bad
  <2>2. QED BY <1>1, <2>1, SmallestSubset
<1>3. ASSUME NEW U \in SUBSET T, U # T PROVE IsSum(G(U), f, U)
  <2>1. \E g : IsSum(g, f, U)
    BY <1>2, <1>3
  <2>2. QED BY <2>1, Zenon
<1> DEFINE g == [U \in SUBSET T |->
                   IF U = {} THEN 0 ELSE f[Pick(U)] + G(U \ {Pick(U)})[U \ {Pick(U)}]]
<1> HIDE DEF G
<1>4. ASSUME NEW V \in SUBSET T, V # T PROVE g[V] = G(V)[V]
  <2>1. CASE V = {}
    <3>1. IsSum(G(V), f, V)
      BY <1>3, <1>4
    <3>2. V \in SUBSET V
      OBVIOUS
    <3> HIDE DEF g
    <3>3. G(V)[V] = IF V = {} THEN 0 ELSE f[Pick(V)] + G(V)[V \ {Pick(V)}]
      BY <3>1, <3>2, SumAt
    <3>4. g[V] = IF V = {} THEN 0 ELSE f[Pick(V)] + G(V \ {Pick(V)})[V \ {Pick(V)}]
      BY DEF g
    <3>5. QED BY <2>1, <3>3, <3>4
  <2>2. CASE V # {}
    <3> DEFINE W == V \ {Pick(V)}
    <3>1. Pick(V) \in V
      BY <2>2, PickIn
    <3>2. W \in SUBSET V /\ W \in SUBSET T /\ W # T /\ IsFiniteSet(W)
      BY <3>1, <1>2, FS_Subset
    <3>3. IsSum(G(V), f, V) /\ IsSum(G(W), f, W)
      BY <1>3, <1>4, <3>2
    <3>4. G(V)[W] = G(W)[W]
      <4> HIDE DEF W
      <4>1. QED BY <3>2, <3>3, SumUnique
    <3>5. G(V)[V] = f[Pick(V)] + G(V)[W]
      <4>1. V \in SUBSET V
        OBVIOUS
      <4> HIDE DEF W, g
      <4>2. G(V)[V] = IF V = {} THEN 0 ELSE f[Pick(V)] + G(V)[V \ {Pick(V)}]
        BY <3>3, <4>1, SumAt
      <4>3. QED BY <4>2, <2>2 DEF W
    <3>6. g[V] = f[Pick(V)] + G(W)[W]
      BY <2>2
    <3>7. QED BY <3>4, <3>5, <3>6
  <2>3. QED BY <2>1, <2>2
<1>5. ASSUME NEW U \in SUBSET T
      PROVE  g[U] = IF U = {} THEN 0 ELSE f[Pick(U)] + g[U \ {Pick(U)}]
  <2>1. CASE U = {}
    BY <2>1
  <2>2. CASE U # {}
    <3> DEFINE V == U \ {Pick(U)}
    <3>1. V \in SUBSET T /\ V # T
      BY <2>2, PickIn
    <3>2. g[V] = G(V)[V]
      BY <3>1, <1>4
    <3>3. QED BY <2>2, <3>2
  <2>3. QED BY <2>1, <2>2
<1>6. IsSum(g, f, T)
  <2> DEFINE Body(U) == IF U = {} THEN 0 ELSE f[Pick(U)] + g[U \ {Pick(U)}]
  <2>1. g = [U \in SUBSET T |-> g[U]]
    OBVIOUS
  <2>2. \A U \in SUBSET T : g[U] = Body(U)
    BY <1>5
  <2> HIDE DEF g, Body
  <2>3. g = [U \in SUBSET T |-> Body(U)]
    BY <2>1, <2>2
  <2>4. QED BY <2>3 DEF IsSum, Body
<1>7. QED BY <1>2, <1>6

\* A sum over a finite set, one element taken out.
LEMMA SumPicked ==
  ASSUME NEW f, NEW S, IsFiniteSet(S)
  PROVE  SumFunctionOnSet(f, S) =
           IF S = {} THEN 0 ELSE f[Pick(S)] + SumFunctionOnSet(f, S \ {Pick(S)})
<1> DEFINE G(T) == CHOOSE g : IsSum(g, f, T)
<1>1. ASSUME NEW T \in SUBSET S
      PROVE IsSum(G(T), f, T) /\ SumFunctionOnSet(f, T) = G(T)[T]
  <2>1. IsFiniteSet(T)
    BY FS_Subset
  <2>2. \E g : IsSum(g, f, T)
    BY <2>1, SumExists
  <2>3. IsSum(G(T), f, T)
    BY <2>2, Zenon
  <2>4. SumFunctionOnSet(f, T) = G(T)[T]
    BY Zenon DEF SumFunctionOnSet, FoldFunctionOnSet, MapThenFoldSet, IsSum, Pick
  <2>5. QED BY <2>3, <2>4
<1> HIDE DEF G
<1> DEFINE T == S \ {Pick(S)}
<1>2. IsFiniteSet(T) /\ T \in SUBSET S
  BY FS_Subset
<1>3. IsSum(G(S), f, S) /\ IsSum(G(T), f, T)
  BY <1>1, <1>2
<1>4. G(S)[T] = G(T)[T]
  <2> HIDE DEF T
  <2>1. QED BY <1>2, <1>3, SumUnique
<1>5. G(S)[S] = IF S = {} THEN 0 ELSE f[Pick(S)] + G(S)[T]
  <2>1. S \in SUBSET S
    OBVIOUS
  <2>2. QED BY <1>3, <2>1, SumAt
<1>6. SumFunctionOnSet(f, S) = G(S)[S] /\ SumFunctionOnSet(f, T) = G(T)[T]
  BY <1>1, <1>2
<1>7. QED BY <1>4, <1>5, <1>6

\* A sum of integers is one, a sum of natural numbers too.
LEMMA SumType ==
  ASSUME NEW f, NEW S, IsFiniteSet(S), NEW M \in {Nat, Int}, \A x \in S : f[x] \in M
  PROVE  SumFunctionOnSet(f, S) \in M
<1> DEFINE Bad == {T \in SUBSET S : SumFunctionOnSet(f, T) \notin M}
<1>1. SUFFICES ASSUME Bad # {} PROVE FALSE
  BY DEF Bad
<1>2. PICK T \in Bad : \A U \in Bad : U \subseteq T => U = T
  <2>1. Bad \in SUBSET (SUBSET S)
    OBVIOUS
  <2> HIDE DEF Bad
  <2>2. QED BY <1>1, <2>1, SmallestSubset
<1>3. IsFiniteSet(T)
  BY FS_Subset
<1>4. T = {} => SumFunctionOnSet(f, T) = 0
  BY <1>3, SumPicked
<1>5. CASE T # {}
  <2> DEFINE U == T \ {Pick(T)}
  <2>1. Pick(T) \in T
    BY <1>5, PickIn
  <2>2. SumFunctionOnSet(f, U) \in M
    BY <1>2, <2>1
  <2>3. SumFunctionOnSet(f, T) = f[Pick(T)] + SumFunctionOnSet(f, U)
    BY <1>3, <1>5, SumPicked
  <2>4. QED BY <2>1, <2>2, <2>3
<1>6. QED BY <1>4, <1>5

\* Whichever element is taken out.
LEMMA SumRemove ==
  ASSUME NEW f, NEW S, IsFiniteSet(S), \A x \in S : f[x] \in Int, NEW y \in S
  PROVE  SumFunctionOnSet(f, S) = f[y] + SumFunctionOnSet(f, S \ {y})
<1> DEFINE Sum(T) == SumFunctionOnSet(f, T)
           Bad == {T \in SUBSET S : \E x \in T : Sum(T) # f[x] + Sum(T \ {x})}
<1>1. SUFFICES ASSUME Bad # {} PROVE FALSE
  OBVIOUS
<1>2. PICK T \in Bad : \A U \in Bad : U \subseteq T => U = T
  <2>1. Bad \in SUBSET (SUBSET S)
    OBVIOUS
  <2> HIDE DEF Bad
  <2>2. QED BY <1>1, <2>1, SmallestSubset
<1>3. PICK x \in T : Sum(T) # f[x] + Sum(T \ {x})
  BY <1>2
<1> DEFINE p == Pick(T)
           R == T \ {x, p}
<1>4. p \in T
  BY <1>3, PickIn
<1>5. IsFiniteSet(T) /\ IsFiniteSet(T \ {x}) /\ IsFiniteSet(T \ {p}) /\ IsFiniteSet(R)
  <2>1. T \in SUBSET S /\ T \ {x} \in SUBSET S /\ T \ {p} \in SUBSET S /\ R \in SUBSET S
    OBVIOUS
  <2> HIDE DEF p, R
  <2>2. QED BY <2>1, FS_Subset
<1>6. Sum(T) = f[p] + Sum(T \ {p})
  BY <1>3, <1>5, SumPicked
<1>7. x # p
  BY <1>3, <1>6
<1>8. Sum(T \ {p}) = f[x] + Sum(R)
  <2>1. T \ {p} \notin Bad
    BY <1>2, <1>4
  <2>2. x \in T \ {p} /\ (T \ {p}) \ {x} = R
    BY <1>7
  <2>3. QED BY <2>1, <2>2
<1>9. Sum(T \ {x}) = f[p] + Sum(R)
  <2>1. T \ {x} \notin Bad
    BY <1>2
  <2>2. p \in T \ {x} /\ (T \ {x}) \ {p} = R
    BY <1>4, <1>7
  <2>3. QED BY <2>1, <2>2
<1>10. f[x] \in Int /\ f[p] \in Int /\ Sum(R) \in Int
  <2>1. \A z \in R : f[z] \in Int
    OBVIOUS
  <2>2. Sum(R) \in Int
    BY <1>5, <2>1, SumType
  <2>3. QED BY <2>2, <1>4
<1> HIDE DEF Sum, p, R, Bad
<1>11. QED BY <1>3, <1>6, <1>8, <1>9, <1>10

\* Sums of the same numbers under other names are equal.
LEMMA SumRenamed ==
  ASSUME NEW f, NEW g, NEW S, IsFiniteSet(S), NEW h, NEW T, IsFiniteSet(T),
         \A x \in S : h[x] \in T /\ g[h[x]] = f[x] /\ f[x] \in Int,
         \A x, y \in S : h[x] = h[y] => x = y,
         \A y \in T : \E x \in S : h[x] = y
  PROVE  SumFunctionOnSet(f, S) = SumFunctionOnSet(g, T)
<1> DEFINE Image(U) == {h[x] : x \in U}
           Bad == {U \in SUBSET S : SumFunctionOnSet(f, U) # SumFunctionOnSet(g, Image(U))}
<1>1. T = Image(S)
  OBVIOUS
<1>2. SUFFICES ASSUME Bad # {} PROVE FALSE
  BY <1>1
<1>3. PICK U \in Bad : \A V \in Bad : V \subseteq U => V = U
  <2>1. Bad \in SUBSET (SUBSET S)
    OBVIOUS
  <2> HIDE DEF Bad
  <2>2. QED BY <1>2, <2>1, SmallestSubset
<1>4. IsFiniteSet(U) /\ IsFiniteSet(Image(U))
  <2>1. Image(U) \in SUBSET T /\ U \in SUBSET S
    OBVIOUS
  <2> HIDE DEF Image
  <2>2. QED BY <2>1, FS_Subset
<1>5. U # {}
  <2>1. SUFFICES ASSUME U = {} PROVE FALSE
    OBVIOUS
  <2>2. Image(U) = {}
    BY <2>1
  <2> HIDE DEF Image
  <2>3. SumFunctionOnSet(f, U) = 0 /\ SumFunctionOnSet(g, Image(U)) = 0
    BY <1>4, <2>1, <2>2, SumPicked
  <2>4. QED BY <2>3, <1>3
<1> DEFINE p == Pick(U)
           V == U \ {p}
<1>6. p \in U
  BY <1>5, PickIn
<1>7. SumFunctionOnSet(f, U) = f[p] + SumFunctionOnSet(f, V)
  BY <1>4, <1>5, SumPicked
<1>8. SumFunctionOnSet(f, V) = SumFunctionOnSet(g, Image(V))
  BY <1>3, <1>6
<1>9. Image(V) = Image(U) \ {h[p]} /\ h[p] \in Image(U)
  BY <1>6
<1>10. SumFunctionOnSet(g, Image(U)) = g[h[p]] + SumFunctionOnSet(g, Image(V))
  <2>1. \A y \in Image(U) : g[y] \in Int
    OBVIOUS
  <2> HIDE DEF Image, V, p
  <2>2. QED BY <1>4, <1>9, <2>1, SumRemove
<1>11. g[h[p]] = f[p]
  BY <1>6
<1>12. QED BY <1>3, <1>7, <1>8, <1>10, <1>11

-----------------------------------------------------------------------------
(* The amounts that doBenefitCalculations returns. *)

\* Max of numbers up to n is the largest of them.
LEMMA LargestOf ==
  ASSUME NEW n \in Nat, NEW S \in SUBSET (1..n), S # {}
  PROVE  Max(S) \in S /\ \A x \in S : x <= Max(S)
<1> DEFINE Bound == {m \in Nat : \A x \in S : x <= m}
<1>1. n \in Bound
  OBVIOUS
<1>2. PICK m \in Bound : \A k \in Bound : <<k, m>> \notin OpToRel(<, Nat)
  <2> HIDE DEF Bound
  <2>1. Bound \subseteq Nat
    BY DEF Bound
  <2>2. QED BY <1>1, <2>1, NatLessThanWellFounded, WFMin, Zenon
<1>3. \A k \in Bound : ~(k < m)
  BY <1>2 DEF OpToRel
<1>4. m \in S
  <2>1. SUFFICES ASSUME m \notin S PROVE FALSE
    OBVIOUS
  <2>2. \A x \in S : x <= m - 1 /\ 1 <= x /\ x \in Nat
    BY <2>1
  <2>3. m - 1 \in Nat
    <3>1. PICK x \in S : TRUE
      OBVIOUS
    <3>2. m \in Nat /\ x \in Nat /\ 1 <= x /\ x <= m - 1
      BY <2>2, <3>1
    <3>3. QED BY <3>2
  <2>4. m - 1 \in Bound
    BY <2>2, <2>3
  <2>5. QED BY <2>4, <1>3
<1>5. \E x \in S : \A y \in S : x >= y
  BY <1>4
<1>6. Max(S) \in S /\ \A y \in S : Max(S) >= y
  BY <1>5, Zenon DEF Max
<1>7. QED BY <1>6

\* These are whole numbers: the total of the amounts of the rules, and under each output
\* the amount of a rule that has it.
AmountsAreOf(out, s, amount) ==
  /\ TotalPayout \in DOMAIN out
  /\ DOMAIN out = {s[i].output : i \in DOMAIN s} \union {TotalPayout}
  /\ out[TotalPayout] = SumFunctionOnSet(amount, DOMAIN s)
  /\ \A f \in DOMAIN out \ {TotalPayout} :
       \E i \in DOMAIN s : s[i].output = f /\ out[f] = amount[i]
  /\ \A f \in DOMAIN out : out[f] \in Int

\* doBenefitCalculations returns such numbers.
LEMMA AmountsAreNumbers ==
  ASSUME NEW s \in RuleSets, NEW data \in Profiles
  PROVE  AmountsAreOf(doBenefitCalculations(s, data),
                      s, [i \in DOMAIN s |-> RuleAmount(s[i], data)])
<1> DEFINE out == doBenefitCalculations(s, data)
           amount == [i \in DOMAIN s |-> RuleAmount(s[i], data)]
           names == {s[i].output : i \in DOMAIN s} \union {TotalPayout}
<1>1. /\ Len(s) \in Nat /\ DOMAIN s = 1..Len(s)
      /\ \A i \in DOMAIN s : amount[i] \in Int
      /\ IsFiniteSet(DOMAIN s) /\ DOMAIN amount = DOMAIN s
  BY AmountsAssumption, FS_Interval
<1>2. out = [f \in names |-> IF f = TotalPayout THEN SumFunction(amount)
                             ELSE amount[LastFor(s, f)]]
  BY Zenon DEF doBenefitCalculations
<1>3. SumFunction(amount) = SumFunctionOnSet(amount, DOMAIN s)
  BY DEF SumFunction
<1>4. SumFunctionOnSet(amount, DOMAIN s) \in Int
  <2> HIDE DEF amount
  <2>1. QED BY <1>1, SumType
<1>5. ASSUME NEW f \in names \ {TotalPayout}
      PROVE  LastFor(s, f) \in DOMAIN s /\ s[LastFor(s, f)].output = f
  <2> DEFINE have == {i \in DOMAIN s : s[i].output = f}
  <2>1. have # {} /\ have \in SUBSET (1..Len(s))
    BY <1>1, <1>5
  <2>2. Max(have) \in have
    <3> HIDE DEF have
    <3>1. QED BY <2>1, <1>1, LargestOf
  <2>3. QED BY <2>2 DEF LastFor
<1> HIDE DEF amount, out
<1>6. DOMAIN out = names /\ TotalPayout \in names
  BY <1>2
<1>7. ASSUME NEW f \in names
      PROVE out[f] = IF f = TotalPayout THEN SumFunction(amount) ELSE amount[LastFor(s, f)]
  BY <1>2
<1>8. \A f \in DOMAIN out : out[f] \in Int
  BY <1>1, <1>3, <1>4, <1>5, <1>6, <1>7
<1>9. \A f \in DOMAIN out \ {TotalPayout} :
        \E i \in DOMAIN s : s[i].output = f /\ out[f] = amount[i]
  BY <1>5, <1>6, <1>7
<1>10. QED BY <1>3, <1>6, <1>7, <1>8, <1>9 DEF AmountsAreOf, out, amount

\* A finite union of finite sets is finite.
LEMMA FiniteUnion ==
  ASSUME NEW I, IsFiniteSet(I), NEW F, \A i \in I : IsFiniteSet(F[i])
  PROVE  IsFiniteSet(UNION {F[i] : i \in I})
<1> DEFINE Bad == {J \in SUBSET I : ~IsFiniteSet(UNION {F[i] : i \in J})}
<1>1. SUFFICES ASSUME Bad # {} PROVE FALSE
  BY DEF Bad
<1>2. PICK J \in Bad : \A K \in Bad : K \subseteq J => K = J
  <2>1. Bad \in SUBSET (SUBSET I)
    OBVIOUS
  <2> HIDE DEF Bad
  <2>2. QED BY <1>1, <2>1, SmallestSubset
<1>3. CASE J = {}
  <2>1. UNION {F[i] : i \in J} = {}
    BY <1>3
  <2>2. QED BY <2>1, <1>2, FS_EmptySet
<1>4. CASE J # {}
  <2>1. PICK j \in J : TRUE
    BY <1>4
  <2> DEFINE rest == UNION {F[i] : i \in J \ {j}}
  <2>2. J \ {j} \notin Bad
    BY <1>2, <2>1
  <2>3. IsFiniteSet(rest)
    BY <2>2
  <2>4. UNION {F[i] : i \in J} = rest \union F[j]
    BY <2>1
  <2>5. IsFiniteSet(F[j])
    BY <2>1
  <2>6. IsFiniteSet(rest \union F[j])
    <3> HIDE DEF rest
    <3>1. QED BY <2>3, <2>5, FS_Union
  <2>7. QED BY <1>2, <2>4, <2>6
<1>5. QED BY <1>3, <1>4

-----------------------------------------------------------------------------
(* The table. *)

\* What TypeOK and AmountState say of a row.
Sound(row) ==
  /\ IsRow(row)
  /\ row.calculated # None => IsFiniteSet(DOMAIN row.calculated)
  /\ row.calculated # None /\ "calculated" \notin row.patched =>
       /\ row.by \in RuleSets /\ row.of \in Profiles
       /\ row.calculated = doBenefitCalculations(row.by, row.of)
       /\ "final" \in row.patched \/ row.final = row.calculated[TotalPayout]

\* A row that create writes is sound.
LEMMA NewRowSound ==
  ASSUME NEW b \in Benefit, NEW data \in Profiles
  PROVE  Sound(NewRow(b, data))
BY DEF Sound, NewRow, IsRow

\* Rules have finitely many outputs.
LEMMA OutputsFinite ==
  ASSUME NEW s \in RuleSets, NEW data \in Profiles
  PROVE  IsFiniteSet(DOMAIN doBenefitCalculations(s, data))
<1> DEFINE F == [i \in DOMAIN s |-> {s[i].output}]
<1>1. DOMAIN doBenefitCalculations(s, data) = (UNION {F[i] : i \in DOMAIN s}) \union {TotalPayout}
  BY DEF doBenefitCalculations
<1>2. IsFiniteSet(DOMAIN s)
  BY AmountsAssumption, FS_Interval
<1>3. \A i \in DOMAIN s : IsFiniteSet(F[i])
  BY FS_Singleton
<1> HIDE DEF F
<1>4. IsFiniteSet(UNION {F[i] : i \in DOMAIN s})
  BY <1>2, <1>3, FiniteUnion
<1>5. QED BY <1>1, <1>4, FS_AddElement

\* A row that calculateBenefit has written is sound, whatever data it has meanwhile.
LEMMA CalculatedSound ==
  ASSUME NEW row, IsRow(row), NEW s \in RuleSets, NEW data \in Profiles
  PROVE  Sound(Calculated(row, s, data))
<1> DEFINE out == doBenefitCalculations(s, data)
<1>1. IsFiniteSet(DOMAIN out)
  BY OutputsFinite
<1>2. out[TotalPayout] \in Int
  BY AmountsAreNumbers DEF AmountsAreOf
<1>3. Calculated(row, s, data) = [row EXCEPT !.calculated = out, !.by = s, !.of = data,
                                             !.final = out[TotalPayout], !.patched = {}]
  BY DEF Calculated
<1> HIDE DEF out
<1>4. /\ IsRow(Calculated(row, s, data))
      /\ Calculated(row, s, data).calculated = out /\ Calculated(row, s, data).by = s
      /\ Calculated(row, s, data).final = out[TotalPayout]
      /\ Calculated(row, s, data).of = data
  BY <1>2, <1>3 DEF IsRow
<1>5. QED BY <1>1, <1>4 DEF Sound, out

\* The numbers up to n are n.
LEMMA UpTo == \A n \in Nat : IsFiniteSet(1..n) /\ Cardinality(1..n) = n
<1> TAKE n \in Nat
<1>1. 1 \in Int /\ n \in Int
  OBVIOUS
<1>2. IsFiniteSet(1..n) /\ Cardinality(1..n) = IF 1 > n THEN 0 ELSE n - 1 + 1
  BY <1>1, FS_Interval, Zenon
<1>3. QED BY <1>2

\* Rows are numbered as they come.
LEMMA OneMoreId ==
  ASSUME NEW I, NEW J, Cardinality(I) \in 0..MaxRows, I = 1..Cardinality(I),
         NEW r, J = I \union {r},
         r \in I \/ (r = Cardinality(I) + 1 /\ Cardinality(I) < MaxRows)
  PROVE  Cardinality(J) \in 0..MaxRows /\ J = 1..Cardinality(J)
<1>1. PICK n \in 0..MaxRows : n = Cardinality(I)
  OBVIOUS
<1>2. MaxRows \in Nat /\ n \in Nat
  BY ReportsAssumption
<1>3. CASE r \in I
  <2>1. J = I
    BY <1>3
  <2>2. QED BY <2>1
<1>4. CASE r = n + 1 /\ n < MaxRows
  <2>1. J = 1..(n + 1)
    BY <1>1, <1>2, <1>4
  <2>2. Cardinality(J) = n + 1
    <3>1. n + 1 \in Nat
      BY <1>2
    <3>2. Cardinality(1..(n + 1)) = n + 1
      BY <3>1, UpTo
    <3>3. QED BY <2>1, <3>2
  <2>3. n + 1 \in 0..MaxRows
    BY <1>2, <1>4
  <2>4. QED BY <2>1, <2>2, <2>3
<1>5. QED BY <1>1, <1>3, <1>4

\* Every row is sound.
LEMMA TableSound ==
  ASSUME TypeOK, AmountState
  PROVE  \A r \in Ids : Sound(rows[r])
BY DEF TypeOK, AmountState, Sound

\* A PATCH leaves a row sound.
LEMMA PatchSound ==
  ASSUME NEW r, Sound(rows[r]), NEW row \in PatchedRows(r)
  PROVE  Sound(row)
<1>1. IsRow(rows[r])
  BY DEF Sound
<1>2. CASE \E b \in Benefit : row = [rows[r] EXCEPT !.benefit = b]
  BY <1>2 DEF Sound, IsRow
<1>3. CASE \E t \in Targets : row = [rows[r] EXCEPT !.status = t]
  BY <1>3 DEF Sound, IsRow
<1>4. CASE \E data \in Profiles : row = [rows[r] EXCEPT !.data = data]
  BY <1>4 DEF Sound, IsRow
<1>5. CASE \E v \in Verdict : row = [rows[r] EXCEPT !.result = v]
  BY <1>5 DEF Sound, IsRow
<1>6. CASE \E amounts \in PatchedAmounts :
             row = [rows[r] EXCEPT !.calculated = amounts, !.by = None, !.of = None,
                                   !.patched = @ \union {"calculated"}]
  <2>1. PICK amounts \in PatchedAmounts :
          row = [rows[r] EXCEPT !.calculated = amounts, !.by = None, !.of = None,
                                !.patched = @ \union {"calculated"}]
    BY <1>6
  <2>2. row.calculated = amounts /\ "calculated" \in row.patched /\ IsRow(row)
    BY <1>1, <2>1 DEF IsRow
  <2>3. QED BY <2>2, AmountsAssumption DEF Sound
<1>7. CASE \E t \in PatchedTotals :
             row = [rows[r] EXCEPT !.final = t, !.patched = @ \union {"final"}]
  BY <1>7 DEF Sound, IsRow
<1>8. QED BY <1>2, <1>3, <1>4, <1>5, <1>6, <1>7 DEF PatchedRows

\* A handler that writes writes a sound row, and one that is there or the next.
LEMMA WriterWrites ==
  ASSUME TypeOK, AmountState, Writer, ~EditRules, \A r \in Ids : ~CalcRead(r)
  PROVE  \E r, row : /\ Write(r, row) /\ Sound(row)
                     /\ r \in Ids \/ (r = Cardinality(Ids) + 1 /\ Cardinality(Ids) < MaxRows)
                     /\ rules' = rules /\ calculating' \subseteq calculating
<1>1. CASE Insert
  BY <1>1, NewRowSound DEF Insert
<1>2. ASSUME NEW r \in Ids, SetStatus(r) \/ Resubmit(r) \/ Patch(r) \/ CheckEligibility(r)
      PROVE  \E row : /\ Write(r, row) /\ Sound(row)
                      /\ rules' = rules /\ calculating' \subseteq calculating
  <2>1. Sound(rows[r]) /\ IsRow(rows[r])
    BY TableSound DEF TypeOK
  <2>2. CASE SetStatus(r)
    <3>1. PICK s \in Targets : Write(r, [rows[r] EXCEPT !.status = s])
      BY <2>2 DEF SetStatus
    <3>2. Sound([rows[r] EXCEPT !.status = s])
      BY <2>1 DEF Sound, IsRow
    <3>3. QED BY <2>2, <3>1, <3>2 DEF SetStatus
  <2>3. CASE Resubmit(r)
    <3>1. PICK data \in Profiles : Write(r, Resubmitted(r, data))
      BY <2>3 DEF Resubmit
    <3>2. Sound(Resubmitted(r, data))
      BY <2>1 DEF Sound, IsRow, Resubmitted
    <3>3. QED BY <2>3, <3>1, <3>2 DEF Resubmit
  <2>4. CASE Patch(r)
    BY <2>1, <2>4, PatchSound DEF Patch
  <2>5. CASE CheckEligibility(r)
    <3>1. PICK v \in Verdict : Write(r, [rows[r] EXCEPT !.result = v])
      BY <2>5 DEF CheckEligibility
    <3>2. Sound([rows[r] EXCEPT !.result = v])
      BY <2>1 DEF Sound, IsRow
    <3>3. QED BY <2>5, <3>1, <3>2 DEF CheckEligibility
  <2>6. QED BY <1>2, <2>2, <2>3, <2>4, <2>5
<1>3. ASSUME NEW x \in calculating, CalcWrite(x)
      PROVE  \E r \in Ids : \E row : /\ Write(r, row) /\ Sound(row)
                                     /\ rules' = rules /\ calculating' \subseteq calculating
  <2>1. x.row \in Ids /\ x.rules \in RuleSets /\ x.data \in Profiles /\ IsRow(rows[x.row])
    BY DEF TypeOK
  <2>2. Sound(Calculated(rows[x.row], x.rules, x.data))
    BY <2>1, CalculatedSound
  <2>3. QED BY <1>3, <2>1, <2>2 DEF CalcWrite
<1>4. QED BY <1>1, <1>2, <1>3 DEF Writer

\* The table stays well formed.
LEMMA WriterTable ==
  ASSUME TypeOK, AmountState, Writer
  PROVE  TypeOK' /\ AmountState'
<1>1. CASE EditRules
  <2>1. writes < MaxWrites /\ writes' = writes + 1 /\ rules' \in [Benefit -> RuleSets]
    BY <1>1 DEF EditRules, MayWrite, TypeOK
  <2>2. /\ rows' = rows /\ updatedAt' = updatedAt /\ pc' = pc /\ offset' = offset
        /\ total' = total /\ listed' = listed /\ cards' = cards /\ calculating' = calculating
    BY <1>1 DEF EditRules, readerVars
  <2>3. writes' \in 0..MaxWrites
    BY <2>1, ReportsAssumption DEF TypeOK
  <2>4. TypeOK'
    BY <2>1, <2>2, <2>3 DEF TypeOK, Ids
  <2>5. AmountState'
    BY <2>2 DEF AmountState, Ids
  <2>6. QED BY <2>4, <2>5
<1>2. ASSUME NEW r \in Ids, CalcRead(r) PROVE TypeOK' /\ AmountState'
  <2>1. /\ rows' = rows /\ updatedAt' = updatedAt /\ rules' = rules /\ writes' = writes
        /\ pc' = pc /\ offset' = offset /\ total' = total /\ listed' = listed /\ cards' = cards
        /\ calculating' = calculating \union
             {[row |-> r, data |-> rows[r].data, rules |-> rules[rows[r].benefit]]}
    BY <1>2 DEF CalcRead, readerVars
  <2>2. rows[r].data \in Profiles /\ rules[rows[r].benefit] \in RuleSets
    BY DEF TypeOK, IsRow
  <2>3. calculating' \subseteq [row : Ids, data : Profiles, rules : RuleSets]
    BY <2>1, <2>2 DEF TypeOK
  <2>4. TypeOK'
    BY <2>1, <2>3 DEF TypeOK, Ids
  <2>5. AmountState'
    BY <2>1 DEF AmountState, Ids
  <2>6. QED BY <2>4, <2>5
<1>3. CASE ~EditRules /\ \A r \in Ids : ~CalcRead(r)
  <2>1. PICK r, row : /\ Write(r, row) /\ Sound(row)
                      /\ r \in Ids \/ (r = Cardinality(Ids) + 1 /\ Cardinality(Ids) < MaxRows)
                      /\ rules' = rules /\ calculating' \subseteq calculating
    BY <1>3, WriterWrites
  <2>2. /\ rows' = [s \in Ids \union {r} |-> IF s = r THEN row ELSE rows[s]]
        /\ writes < MaxWrites /\ writes' = writes + 1
        /\ pc' = pc /\ offset' = offset /\ total' = total /\ listed' = listed /\ cards' = cards
    BY <2>1 DEF Write, MayWrite, readerVars
  <2>3. PICK now \in 1..Clock :
          updatedAt' = [s \in Ids \union {r} |-> IF s = r THEN now ELSE updatedAt[s]]
    BY <2>1 DEF Write
  <2>4. Ids' = Ids \union {r}
    BY <2>2 DEF Ids
  <2>5. \A s \in Ids' : rows'[s] = IF s = r THEN row ELSE rows[s]
    BY <2>2, <2>4
  <2>6. Cardinality(Ids') \in 0..MaxRows /\ Ids' = 1..Cardinality(Ids')
    <3>1. Cardinality(Ids) \in 0..MaxRows /\ Ids = 1..Cardinality(Ids)
      BY DEF TypeOK
    <3>2. QED BY <2>1, <2>4, <3>1, OneMoreId
  <2>7. updatedAt' \in [Ids' -> 0..Clock]
    BY <2>3, <2>4, ReportsAssumption DEF TypeOK
  <2>8. writes' \in 0..MaxWrites
    BY <2>2, ReportsAssumption DEF TypeOK
  <2>9. \A s \in Ids' : Sound(rows'[s])
    BY <2>1, <2>4, <2>5, TableSound
  <2>10. rows' = [s \in Ids' |-> rows'[s]]
    BY <2>2, <2>4
  <2>11. AmountState'
    BY <2>9 DEF AmountState, Sound
  <2>12. TypeOK'
    <3>1. \A s \in Ids' : /\ IsRow(rows'[s])
                          /\ rows'[s].calculated # None => IsFiniteSet(DOMAIN rows'[s].calculated)
      BY <2>9 DEF Sound
    <3>2. /\ listed' \subseteq Ids' /\ cards' \in [Benefit -> SUBSET Ids']
          /\ calculating' \subseteq [row : Ids', data : Profiles, rules : RuleSets]
      BY <2>1, <2>2, <2>4 DEF TypeOK
    <3>3. QED BY <2>1, <2>2, <2>6, <2>7, <2>8, <2>10, <3>1, <3>2 DEF TypeOK
  <2>13. QED BY <2>11, <2>12
<1>4. QED BY <1>1, <1>2, <1>3

\* The rows of a table that are asked for are finitely many.
LEMMA SelectedFinite ==
  ASSUME TypeOK, NEW b, NEW filter
  PROVE  /\ Selected(rows, b, filter) \subseteq Ids /\ IsFiniteSet(Ids)
         /\ \A ids \in SUBSET Ids : IsFiniteSet(ids) /\ Cardinality(ids) \in 0..MaxRows
<1>1. Cardinality(Ids) \in 0..MaxRows /\ Ids = 1..Cardinality(Ids)
  BY DEF TypeOK
<1>2. PICK n \in 0..MaxRows : n = Cardinality(Ids)
  BY <1>1
<1>3. n \in Nat /\ MaxRows \in Nat
  BY ReportsAssumption
<1>4. IsFiniteSet(1..n)
  BY <1>3, FS_Interval
<1>5. IsFiniteSet(Ids)
  BY <1>1, <1>2, <1>4
<1>6. ASSUME NEW ids \in SUBSET Ids PROVE IsFiniteSet(ids) /\ Cardinality(ids) \in 0..MaxRows
  <2>1. IsFiniteSet(ids) /\ Cardinality(ids) <= Cardinality(Ids)
    BY <1>5, FS_Subset
  <2>2. Cardinality(ids) \in Nat
    BY <2>1, FS_CardinalityType
  <2>3. QED BY <1>2, <1>3, <2>1, <2>2
<1>7. Selected(rows, b, filter) \subseteq Ids
  BY DEF Selected, Ids
<1>8. QED BY <1>5, <1>6, <1>7

\* Readers leave the table as it is.
LEMMA ReaderTable ==
  ASSUME TypeOK, AmountState, Reader
  PROVE  TypeOK' /\ AmountState' /\ rows' = rows
<1> USE DEF tableVars
<1>1. /\ rows' = rows /\ updatedAt' = updatedAt /\ rules' = rules /\ writes' = writes
      /\ calculating' = calculating
  BY DEF Reader, StartList, Count, Page, StartCards, CountCard, ExportFile, ReaderFails
<1>2. AmountState'
  BY <1>1 DEF AmountState, Ids
<1>3. pc' \in {"idle", "count", "page", "cards", "done", "failed"}
  BY DEF Reader, StartList, Count, Page, StartCards, CountCard, ExportFile, ReaderFails, TypeOK
<1>4. offset' \in Nat
  BY ReportsAssumption
  DEF Reader, StartList, Count, Page, StartCards, CountCard, ExportFile, ReaderFails, TypeOK
<1>5. total' \in 0..MaxRows
  <2>1. CASE Count
    BY <2>1, SelectedFinite DEF Count
  <2>2. CASE ~Count
    BY <2>2 DEF Reader, StartList, Page, StartCards, CountCard, ExportFile, ReaderFails, TypeOK
  <2>3. QED BY <2>1, <2>2
<1>6. listed' \subseteq Ids
  <2>1. CASE Page
    BY <2>1, SelectedFinite DEF Page, TypeOK
  <2>2. CASE ~Page
    BY <2>2 DEF Reader, StartList, Count, StartCards, CountCard, ExportFile, ReaderFails, TypeOK
  <2>3. QED BY <2>1, <2>2
<1>7. cards' \in [Benefit -> SUBSET Ids]
  <2>1. ASSUME NEW b \in Benefit, CountCard(b) PROVE cards' \in [Benefit -> SUBSET Ids]
    <3>1. cards' = [cards EXCEPT ![b] = Counted(b)] /\ Counted(b) \in SUBSET Ids
      BY <2>1 DEF CountCard, Counted
    <3>2. QED BY <3>1 DEF TypeOK
  <2>2. CASE \A b \in Benefit : ~CountCard(b)
    <3>1. cards' = cards
      BY <2>2 DEF Reader, StartList, Count, Page, StartCards, ExportFile, ReaderFails
    <3>2. QED BY <3>1 DEF TypeOK
  <2>3. QED BY <2>1, <2>2
<1>8. TypeOK'
  BY <1>1, <1>3, <1>4, <1>5, <1>6, <1>7 DEF TypeOK, Ids
<1>9. QED BY <1>1, <1>2, <1>8

\* The rows there are at first are sound.
LEMMA TableInit == Init => TypeOK /\ AmountState
<1> SUFFICES ASSUME Init PROVE TypeOK /\ AmountState
  OBVIOUS
<1>1. /\ Len(Stored) \in Nat /\ DOMAIN Stored = 1..Len(Stored)
      /\ \A r \in DOMAIN Stored : Stored[r] \in Profiles
      /\ Len(Stored) <= MaxRows /\ Len(Stored) <= Clock /\ MaxRows \in Nat /\ Clock \in Nat
  BY ReportsAssumption
<1>2. PICK b \in Published, s \in RuleSets :
        \/ rows = [r \in DOMAIN Stored |-> NewRow(b, Stored[r])]
        \/ rows = [r \in DOMAIN Stored |-> Calculated(NewRow(b, Stored[r]), s, Stored[r])]
  BY DEF Init
<1>3. Ids = 1..Len(Stored)
  BY <1>1, <1>2 DEF Ids
<1>4. Cardinality(Ids) = Len(Stored)
  BY <1>1, <1>3, UpTo
<1>5. b \in Benefit
  BY ReportsAssumption
<1>6. ASSUME NEW r \in Ids PROVE Sound(rows[r])
  <2>1. Stored[r] \in Profiles /\ r \in DOMAIN Stored
    BY <1>1, <1>3
  <2>2. Sound(NewRow(b, Stored[r]))
    BY <1>5, <2>1, NewRowSound
  <2>3. Sound(Calculated(NewRow(b, Stored[r]), s, Stored[r]))
    <3>1. IsRow(NewRow(b, Stored[r]))
      BY <2>2 DEF Sound
    <3>2. QED BY <2>1, <3>1, CalculatedSound
  <2>4. \/ rows[r] = NewRow(b, Stored[r])
        \/ rows[r] = Calculated(NewRow(b, Stored[r]), s, Stored[r])
    BY <1>2, <2>1
  <2>5. QED BY <2>2, <2>3, <2>4
<1>7. rows = [r \in Ids |-> rows[r]]
  BY <1>2 DEF Ids
<1>8. updatedAt \in [Ids -> 0..Clock]
  BY <1>1, <1>3 DEF Init
<1>9. AmountState
  BY <1>6 DEF AmountState, Sound
<1>10. \A r \in Ids : /\ IsRow(rows[r])
                      /\ rows[r].calculated # None => IsFiniteSet(DOMAIN rows[r].calculated)
  BY <1>6 DEF Sound
<1>11. /\ rules \in [Benefit -> RuleSets] /\ writes \in 0..MaxWrites /\ total \in 0..MaxRows
       /\ calculating = {}
  BY ReportsAssumption DEF Init
<1>12. TypeOK
  BY <1>1, <1>3, <1>4, <1>7, <1>8, <1>10, <1>11 DEF TypeOK, Init
<1>13. QED BY <1>9, <1>12

-----------------------------------------------------------------------------
(* Cards. *)

\* Initially nothing is counted.
LEMMA CardsInit == Init => CardState
BY DEF Init, CardState, Quiet

\* What a step of a writer is to a reader of cards: rows are written or new, and while the
\* cards are counted it is on record which benefits they have.
Besides ==
  /\ pc' = pc /\ ask' = ask /\ cards' = cards /\ pc # "done"
  /\ since'.rows = since.rows /\ since.had \subseteq since'.had
  /\ since' = [rows |-> since'.rows, written |-> since'.written, left |-> since'.left,
               late |-> since'.late, had |-> since'.had]
  /\ Ids \subseteq Ids'
  /\ pc = "cards" => \A s \in Ids' : \/ <<s, rows'[s].benefit>> \in since'.had
                                      \/ (s \in Ids /\ rows'[s].benefit = rows[s].benefit)

\* Writers do no more to it.
LEMMA WriterKeeps ==
  ASSUME CardState, Writer
  PROVE  Besides
<1>1. ASSUME NEW r, NEW row, Write(r, row)
      PROVE  Besides
  <2> DEFINE had == IF pc = "cards" THEN since.had \union {<<r, row.benefit>>} ELSE since.had
  <2>1. /\ pc' = pc /\ ask' = ask /\ cards' = cards /\ pc # "done"
        /\ rows' = [s \in Ids \union {r} |-> IF s = r THEN row ELSE rows[s]]
    BY <1>1 DEF Write, MayWrite, readerVars
  <2>2. \E w, left, late :
          since' = [since EXCEPT !.written = w, !.left = left, !.late = late, !.had = had]
    BY <1>1 DEF Write
  <2> HIDE DEF had
  <2>3. /\ since'.rows = since.rows /\ since'.had = had
        /\ since' = [rows |-> since'.rows, written |-> since'.written, left |-> since'.left,
                     late |-> since'.late, had |-> since'.had]
    BY <2>2 DEF CardState
  <2>4. Ids' = Ids \union {r} /\ \A s \in Ids' : rows'[s] = IF s = r THEN row ELSE rows[s]
    BY <2>1 DEF Ids
  <2>5. pc = "cards" => \A s \in Ids' : \/ <<s, rows'[s].benefit>> \in had
                                         \/ (s \in Ids /\ rows'[s].benefit = rows[s].benefit)
    BY <2>4 DEF had
  <2>6. since.had \subseteq had
    BY DEF had
  <2>7. QED BY <2>1, <2>3, <2>4, <2>5, <2>6 DEF Besides
<1>2. CASE EditRules
  BY <1>2 DEF EditRules, MayWrite, readerVars, Ids, CardState, Besides
<1>3. ASSUME NEW r \in Ids, CalcRead(r) PROVE Besides
  BY <1>3 DEF CalcRead, MayWrite, readerVars, Ids, CardState, Besides
<1>4. CASE ~EditRules /\ \A r \in Ids : ~CalcRead(r)
  <2>1. \E r, row : Write(r, row)
    BY <1>4 DEF Writer, Insert, SetStatus, Resubmit, Patch, CalcWrite, CheckEligibility
  <2>2. QED BY <1>1, <2>1
<1>5. QED BY <1>2, <1>3, <1>4

\* So a row that has had one benefit only still has it.
LEMMA BesidesHad ==
  ASSUME Besides, pc = "cards", NEW r \in Ids, <<r, rows[r].benefit>> \in since.had,
         rows[r].benefit \in Benefit, Had(r)' = {rows'[r].benefit}
  PROVE  Had(r) = {rows[r].benefit} /\ rows'[r].benefit = rows[r].benefit
<1>1. Had(r) \subseteq Had(r)' /\ rows[r].benefit \in Had(r)
  BY DEF Besides, Had
<1>2. QED BY <1>1

\* Writers leave the cards true.
LEMMA WriterCards == TypeOK /\ CardState /\ Writer => CardState'
<1> SUFFICES ASSUME TypeOK, CardState, Writer PROVE CardState'
  OBVIOUS
<1>1. Besides
  BY WriterKeeps
<1>2. CASE pc = "cards"
  <2>1. pc' = "cards" /\ "uncounted" \in DOMAIN ask /\ ask' = ask /\ cards' = cards
    BY <1>1, <1>2 DEF Besides, CardState
  <2>2. /\ ask.uncounted \subseteq Published /\ since.rows \subseteq Ids
        /\ \A r \in Ids : <<r, rows[r].benefit>> \in since.had
        /\ DOMAIN cards = Benefit
        /\ \A b \in Benefit :
             IF b \in Published \ ask.uncounted
             THEN /\ \A r \in cards[b] : <<r, b>> \in since.had
                  /\ \A r \in since.rows :
                       Had(r) = {rows[r].benefit} => (r \in cards[b] <=> rows[r].benefit = b)
             ELSE cards[b] = {}
    BY <1>2, <2>1 DEF CardState
  <2>3. /\ since'.rows = since.rows /\ since.had \subseteq since'.had /\ Ids \subseteq Ids'
        /\ \A s \in Ids' : \/ <<s, rows'[s].benefit>> \in since'.had
                            \/ (s \in Ids /\ rows'[s].benefit = rows[s].benefit)
        /\ since' = [rows |-> since'.rows, written |-> since'.written, left |-> since'.left,
                     late |-> since'.late, had |-> since'.had]
    BY <1>1, <1>2 DEF Besides
  <2>4. \A r \in Ids' : <<r, rows'[r].benefit>> \in since'.had
    BY <2>2, <2>3
  <2>5. ASSUME NEW r \in since.rows, Had(r)' = {rows'[r].benefit}
        PROVE  Had(r) = {rows[r].benefit} /\ rows'[r].benefit = rows[r].benefit
    <3>1. r \in Ids /\ <<r, rows[r].benefit>> \in since.had
      BY <2>2
    <3>2. rows[r].benefit \in Benefit
      BY <3>1 DEF TypeOK, IsRow
    <3>3. QED BY <1>1, <1>2, <2>5, <3>1, <3>2, BesidesHad
  <2>6. ASSUME NEW b \in Benefit
        PROVE  IF b \in Published \ ask'.uncounted
               THEN /\ \A r \in cards'[b] : <<r, b>> \in since'.had
                    /\ \A r \in since'.rows :
                         Had(r)' = {rows'[r].benefit} => (r \in cards'[b] <=> rows'[r].benefit = b)
               ELSE cards'[b] = {}
    BY <2>1, <2>2, <2>3, <2>5
  <2>7. QED BY <2>1, <2>2, <2>3, <2>4, <2>6 DEF CardState
<1>3. CASE pc # "cards"
  BY <1>1, <1>3 DEF Besides, CardState
<1>4. QED BY <1>2, <1>3

\* Counting one card makes it true.
LEMMA ReaderCards == TypeOK /\ CardState /\ Reader => CardState'
<1> SUFFICES ASSUME TypeOK, CardState, Reader PROVE CardState'
  OBVIOUS
<1> USE DEF CardState, tableVars, Ids, Had
<1>1. CASE StartList
  <2>1. /\ ask' \in Request /\ pc' = "count"
        /\ since' = [Quiet EXCEPT !.rows = Selected(rows, ask'.benefit, ask'.filter)]
    BY <1>1 DEF StartList
  <2>2. "uncounted" \notin DOMAIN ask'
    BY <2>1 DEF Request
  <2>3. QED BY <2>1, <2>2 DEF Quiet
<1>2. CASE Count
  BY <1>2 DEF Count
<1>3. CASE Page
  BY <1>3 DEF Page
<1>4. CASE StartCards
  <2>1. /\ ask' = [uncounted |-> Published] /\ pc' = "cards"
        /\ since' = [Quiet EXCEPT !.rows = Ids, !.had = {<<r, rows[r].benefit>> : r \in Ids}]
        /\ rows' = rows /\ cards' = [b \in Benefit |-> {}]
    BY <1>4 DEF StartCards
  <2>2. QED BY <2>1 DEF Quiet
<1>5. ASSUME NEW b \in Benefit, CountCard(b) PROVE CardState'
  <2>1. /\ pc = "cards" /\ b \in ask.uncounted
        /\ cards' = [cards EXCEPT ![b] = Counted(b)]
        /\ ask' = [uncounted |-> ask.uncounted \ {b}]
        /\ pc' = IF ask.uncounted = {b} THEN "done" ELSE "cards"
        /\ rows' = rows /\ since' = since
    BY <1>5 DEF CountCard
  <2>2. /\ ask'.uncounted = ask.uncounted \ {b}
        /\ \A a \in Benefit : cards'[a] = IF a = b THEN Counted(b) ELSE cards[a]
        /\ DOMAIN cards' = Benefit
    BY <2>1
  <2>3. /\ \A r \in since.rows : r \in Counted(b) <=> rows[r].benefit = b
        /\ \A r \in Counted(b) : <<r, b>> \in since.had
    BY <2>1 DEF Counted
  <2>4. QED BY <2>1, <2>2, <2>3
<1>6. CASE ExportFile
  BY <1>6 DEF ExportFile
<1>7. CASE ReaderFails
  BY <1>7 DEF ReaderFails
<1>8. QED BY <1>1, <1>2, <1>3, <1>4, <1>5, <1>6, <1>7 DEF Reader

-----------------------------------------------------------------------------
(* Lists. *)

\* A row once before another that was not written is still before it, unless the list
\* shows the rows written longest ago first.
LEMMA PrecedesKept ==
  ASSUME TypeOK, ask \in Request, NEW r, NEW row, Write(r, row),
         ask.orderBy = "updatedAt" => ask.direction # "asc",
         NEW s \in Ids, ask.orderBy = "updatedAt" => s # r,
         NEW q \in Ids, Precedes(ask, q, s)
  PROVE  Precedes(ask, q, s)'
<1>1. ask' = ask
  BY DEF Write, readerVars
<1>2. PICK now \in 1..Clock :
        /\ \A t \in Ids : updatedAt[t] <= now
        /\ updatedAt' = [t \in Ids \union {r} |-> IF t = r THEN now ELSE updatedAt[t]]
  BY DEF Write
<1>3. /\ updatedAt'[s] = IF s = r THEN now ELSE updatedAt[s]
      /\ updatedAt'[q] = IF q = r THEN now ELSE updatedAt[q]
      /\ updatedAt[s] <= now /\ updatedAt[q] <= now
  BY <1>2
<1>4. updatedAt[s] \in Nat /\ updatedAt[q] \in Nat /\ now \in Nat
  BY ReportsAssumption DEF TypeOK
<1>5. CASE ask.orderBy = "updatedAt"
  <2>1. ask.direction = "desc"
    BY <1>5 DEF Request
  <2>2. updatedAt[q] > updatedAt[s] \/ (updatedAt[q] = updatedAt[s] /\ q > s)
    BY <1>5, <2>1 DEF Precedes
  <2>3. updatedAt'[s] = updatedAt[s] /\ updatedAt'[q] >= updatedAt[q]
    BY <1>3, <1>4, <1>5
  <2>4. updatedAt'[q] > updatedAt'[s] \/ (updatedAt'[q] = updatedAt'[s] /\ q > s)
    BY <2>2, <2>3, <1>3, <1>4
  <2>5. QED BY <1>1, <1>5, <2>1, <2>4 DEF Precedes
<1>6. CASE ask.orderBy # "updatedAt"
  BY <1>1, <1>6 DEF Precedes
<1>7. QED BY <1>5, <1>6

\* So no row is listed earlier than it was, as long as none leaves the list.
LEMMA RankKept ==
  ASSUME TypeOK', NEW ids, NEW later, ids \subseteq later, later \subseteq Ids', NEW s,
         \A q \in ids : Precedes(ask, q, s) => Precedes(ask, q, s)',
         NEW Q, Q = {q \in later : q = s \/ Precedes(ask, q, s)'}
  PROVE  /\ Rank(ask, ids, s) \in Nat /\ Cardinality(Q) \in Nat
         /\ Rank(ask, ids, s) <= Cardinality(Q)
<1> DEFINE P == {q \in ids : q = s \/ Precedes(ask, q, s)}
<1>1. P \subseteq Q /\ Q \subseteq Ids'
  OBVIOUS
<1>2. IsFiniteSet(Ids')
  BY UpTo, ReportsAssumption DEF TypeOK
<1>3. Cardinality(P) <= Cardinality(Q) /\ Cardinality(P) \in Nat /\ Cardinality(Q) \in Nat
  <2> HIDE DEF P
  <2>1. IsFiniteSet(Q)
    BY <1>1, <1>2, FS_Subset
  <2>2. IsFiniteSet(P) /\ Cardinality(P) <= Cardinality(Q)
    BY <1>1, <2>1, FS_Subset
  <2>3. QED BY <2>1, <2>2, FS_CardinalityType
<1>4. QED BY <1>3 DEF Rank

\* Nothing that is written while a list is read takes a row away from its reader.
LEMMA WriterList ==
  ASSUME TypeOK, AmountState, CardState, ListState, Writer, TypeOK'
  PROVE  ListState'
<1>1. CASE EditRules
  BY <1>1 DEF EditRules, readerVars, ListState, MayHavePassed, Rank, Precedes
<1>2. ASSUME NEW r \in Ids, CalcRead(r) PROVE ListState'
  BY <1>2 DEF CalcRead, readerVars, ListState, MayHavePassed, Rank, Precedes
<1>3. CASE ~EditRules /\ \A r \in Ids : ~CalcRead(r)
  <2>1. PICK r, row : /\ Write(r, row)
                      /\ r \in Ids \/ (r = Cardinality(Ids) + 1 /\ Cardinality(Ids) < MaxRows)
    BY <1>3, WriterWrites
  <2>2. /\ rows' = [s \in Ids \union {r} |-> IF s = r THEN row ELSE rows[s]]
        /\ pc' = pc /\ ask' = ask /\ offset' = offset /\ total' = total /\ listed' = listed
    BY <2>1 DEF Write, readerVars
  <2> DEFINE ids == Selected(rows, ask.benefit, ask.filter)
             later == Selected(rows', ask.benefit, ask.filter)
  <2>3. later = ids'
    BY <2>2
  <2>4. SUFFICES ASSUME pc \in {"count", "page"}, ~since'.left, ask \in Request
        PROVE  /\ since'.rows \subseteq later
               /\ \A s \in since'.rows : \/ s \in listed \/ MayHavePassed(s)'
                                         \/ offset < Rank(ask, ids, s)'
               /\ pc = "page" /\ ~since'.late => Cardinality(later) <= total
    <3> HIDE DEF ids, later
    <3>1. ListState' <=>
            /\ pc' = "idle" => offset' = 0 /\ listed' = {}
            /\ pc' \in {"count", "page"} => ask' \in Request
            /\ pc' \in {"count", "page"} /\ ~since'.left =>
                 /\ since'.rows \subseteq ids'
                 /\ \A s \in since'.rows :
                      s \in listed' \/ MayHavePassed(s)' \/ offset' < Rank(ask, ids, s)'
                 /\ pc' = "page" /\ ~since'.late => Cardinality(ids') <= total'
      BY DEF ListState, ids
    <3>2. QED BY <2>2, <2>3, <3>1 DEF ListState
  <2>5. /\ since'.left = (since.left \/ r \in ids \ later)
        /\ since'.late = (since.late \/ (pc = "page" /\ r \in later \ ids))
        /\ since'.written = since.written \union {r} /\ since'.rows = since.rows
    BY <2>1, <2>4 DEF Write, OnList, CardState
  <2>6. /\ ids \subseteq later /\ later \subseteq ids \union {r}
        /\ ids \subseteq Ids /\ later \subseteq Ids'
    BY <2>2, <2>4, <2>5 DEF Selected, Ids
  <2>7. /\ since.rows \subseteq ids
        /\ \A s \in since.rows : s \in listed \/ MayHavePassed(s) \/ offset < Rank(ask, ids, s)
        /\ pc = "page" /\ ~since.late => Cardinality(ids) <= total
    BY <2>4, <2>5 DEF ListState
  <2>8. ASSUME NEW s \in since'.rows, s \notin listed, ~MayHavePassed(s)'
        PROVE  offset < Rank(ask, ids, s)'
    <3>1. /\ ask.orderBy = "updatedAt" => ask.direction # "asc" /\ s # r
          /\ ~MayHavePassed(s)
      BY <2>2, <2>5, <2>8 DEF MayHavePassed
    <3>2. s \in ids /\ offset < Rank(ask, ids, s)
      BY <2>5, <2>7, <2>8, <3>1
    <3> DEFINE rank == Cardinality({q \in later : q = s \/ Precedes(ask, q, s)'})
    <3>3. Rank(ask, ids, s) \in Nat /\ rank \in Nat /\ Rank(ask, ids, s) <= rank
      <4> HIDE DEF ids, later
      <4>1. ids \subseteq Ids /\ ids \subseteq later /\ later \subseteq Ids'
        BY <2>6
      <4>2. s \in Ids /\ (ask.orderBy = "updatedAt" => s # r)
        BY <3>1, <3>2, <4>1
      <4>3. Write(r, row) /\ ask \in Request /\ (ask.orderBy = "updatedAt" => ask.direction # "asc")
        BY <2>1, <2>4, <3>1
      <4>4. \A q \in ids : Precedes(ask, q, s) => Precedes(ask, q, s)'
        BY <4>1, <4>2, <4>3, PrecedesKept
      <4>5. PICK Q : Q = {q \in later : q = s \/ Precedes(ask, q, s)'}
        OBVIOUS
      <4>6. /\ Rank(ask, ids, s) \in Nat /\ Cardinality(Q) \in Nat
            /\ Rank(ask, ids, s) <= Cardinality(Q)
        BY <4>1, <4>4, <4>5, RankKept
      <4>7. QED BY <4>5, <4>6
    <3>4. Rank(ask, ids, s)' = rank
      <4> HIDE DEF ids, later
      <4>1. QED BY <2>2, <2>3 DEF Rank
    <3>5. offset \in Nat
      BY DEF TypeOK
    <3> HIDE DEF rank, ids
    <3>6. QED BY <3>2, <3>3, <3>4, <3>5
  <2>9. ASSUME pc = "page", ~since'.late PROVE Cardinality(later) <= total
    <3>1. r \notin later \ ids /\ ~since.late
      BY <2>5, <2>9
    <3>2. later = ids
      <4> HIDE DEF ids, later
      <4>1. QED BY <2>6, <3>1
    <3>3. QED BY <2>7, <2>9, <3>1, <3>2
  <2>10. QED BY <2>5, <2>6, <2>7, <2>8, <2>9
<1>4. QED BY <1>1, <1>2, <1>3

\* The statements of a reader of a list keep what it may believe, and the last one
\* makes it true.
LEMMA ReaderList ==
  ASSUME TypeOK, CardState, ListState, Reader
  PROVE  ListState' /\ (UntouchedRowIsListed => UntouchedRowIsListed')
<1>1. CASE StartList
  <2> DEFINE ids == Selected(rows, ask.benefit, ask.filter)
  <2>1. /\ pc = "idle" /\ ask' \in Request /\ pc' = "count" /\ offset' = offset /\ rows' = rows
        /\ since' = [Quiet EXCEPT !.rows = Selected(rows, ask'.benefit, ask'.filter)]
    BY <1>1 DEF StartList, tableVars
  <2>2. offset' = 0 /\ since'.rows = ids' /\ since'.left = FALSE
    BY <2>1 DEF ListState, Quiet
  <2>3. ASSUME NEW s \in ids' PROVE 0 < Rank(ask, ids, s)'
    <3> DEFINE before == {q \in ids' : q = s \/ Precedes(ask, q, s)'}
    <3>1. before \subseteq Ids /\ s \in before
      BY <2>1 DEF Selected, Ids
    <3>2. IsFiniteSet(before) /\ Cardinality(before) \in Nat
      <4> HIDE DEF before
      <4>1. before \in SUBSET Ids
        BY <3>1
      <4>2. IsFiniteSet(before)
        BY <4>1, SelectedFinite
      <4>3. QED BY <4>2, FS_CardinalityType
    <3>3. Cardinality(before) # 0
      <4> HIDE DEF before
      <4>1. QED BY <3>1, <3>2, FS_EmptySet
    <3>4. Rank(ask, ids, s)' = Cardinality(before)
      <4> HIDE DEF ids
      <4>1. QED BY DEF Rank
    <3> HIDE DEF before
    <3>5. QED BY <3>2, <3>3, <3>4
  <2>4. ListState'
    <3> HIDE DEF ids
    <3>1. ListState' <=>
            /\ pc' = "idle" => offset' = 0 /\ listed' = {}
            /\ pc' \in {"count", "page"} => ask' \in Request
            /\ pc' \in {"count", "page"} /\ ~since'.left =>
                 /\ since'.rows \subseteq ids'
                 /\ \A s \in since'.rows :
                      s \in listed' \/ MayHavePassed(s)' \/ offset' < Rank(ask, ids, s)'
                 /\ pc' = "page" /\ ~since'.late => Cardinality(ids') <= total'
      BY DEF ListState, ids
    <3>2. QED BY <2>1, <2>2, <2>3, <3>1
  <2>5. QED BY <2>1, <2>4 DEF UntouchedRowIsListed
<1>2. CASE Count
  <2> DEFINE ids == Selected(rows, ask.benefit, ask.filter)
  <2>1. /\ pc = "count" /\ pc' = "page" /\ ask' = ask /\ rows' = rows /\ updatedAt' = updatedAt
        /\ offset' = offset /\ listed' = listed /\ total' = Cardinality(ids)
        /\ since' = [since EXCEPT !.late = FALSE]
    BY <1>2 DEF Count, tableVars
  <2>2. since'.rows = since.rows /\ since'.left = since.left /\ since'.written = since.written
    BY <2>1 DEF CardState
  <2>3. Cardinality(ids) <= Cardinality(ids)
    <3>1. Cardinality(ids) \in 0..MaxRows
      BY SelectedFinite
    <3>2. QED BY <3>1, ReportsAssumption
  <2>4. ListState'
    BY <2>1, <2>2, <2>3 DEF ListState, MayHavePassed, Rank, Precedes
  <2>5. QED BY <2>1, <2>4 DEF UntouchedRowIsListed
<1>3. CASE Page
  <2> DEFINE ids == Selected(rows, ask.benefit, ask.filter)
             upTo == offset + Limit
  <2>1. /\ pc = "page" /\ ask' = ask /\ rows' = rows /\ updatedAt' = updatedAt
        /\ total' = total /\ since' = since
        /\ listed' = listed \union {r \in ids : Rank(ask, ids, r) \in (offset + 1)..upTo}
        /\ IF upTo < total THEN pc' = "count" /\ offset' = upTo
           ELSE pc' = "done" /\ offset' = offset
    BY <1>3 DEF Page, tableVars
  <2>2. offset \in Nat /\ upTo \in Nat /\ total \in Nat
    BY ReportsAssumption DEF TypeOK
  <2>3. \A s \in ids : Rank(ask, ids, s) \in Nat /\ Rank(ask, ids, s) <= Cardinality(ids)
    <3>1. TAKE s \in ids
    <3> DEFINE before == {q \in ids : q = s \/ Precedes(ask, q, s)}
    <3>2. IsFiniteSet(ids) /\ before \subseteq ids
      BY SelectedFinite
    <3>3. IsFiniteSet(before) /\ Cardinality(before) <= Cardinality(ids)
      <4> HIDE DEF before, ids
      <4>1. QED BY <3>2, FS_Subset
    <3>4. Cardinality(before) \in Nat
      BY <3>3, FS_CardinalityType
    <3>5. QED BY <3>3, <3>4 DEF Rank
  <2>4. Cardinality(ids) \in Nat
    BY SelectedFinite, FS_CardinalityType
  <2>5. ~since.left =>
          /\ since.rows \subseteq ids
          /\ \A s \in since.rows : s \in listed \/ MayHavePassed(s) \/ offset < Rank(ask, ids, s)
          /\ ~since.late => Cardinality(ids) <= total
    BY <2>1 DEF ListState
  <2>6. ask \in Request
    BY <2>1 DEF ListState
  <2>7. \A s : MayHavePassed(s)' = MayHavePassed(s)
    BY <2>1 DEF MayHavePassed
  <2>8. \A s : Rank(ask, ids, s)' = Rank(ask, ids, s)
    BY <2>1 DEF Rank, Precedes
  <2>9. ids' = ids
    BY <2>1
  <2>10. CASE upTo < total
    <3>1. pc' = "count" /\ offset' = upTo
      BY <2>1, <2>10
    <3>2. ASSUME ~since.left, NEW s \in since.rows, s \notin listed', ~MayHavePassed(s)
          PROVE  upTo < Rank(ask, ids, s)
      <4>1. s \in ids /\ s \notin listed /\ offset < Rank(ask, ids, s)
        BY <2>1, <2>5, <3>2
      <4>2. Rank(ask, ids, s) \notin (offset + 1)..upTo
        BY <2>1, <3>2, <4>1
      <4> HIDE DEF ids
      <4>3. QED BY <2>2, <2>3, <4>1, <4>2
    <3>3. ListState' <=>
            /\ pc' = "idle" => offset' = 0 /\ listed' = {}
            /\ pc' \in {"count", "page"} => ask' \in Request
            /\ pc' \in {"count", "page"} /\ ~since'.left =>
                 /\ since'.rows \subseteq ids'
                 /\ \A s \in since'.rows :
                      s \in listed' \/ MayHavePassed(s)' \/ offset' < Rank(ask, ids, s)'
                 /\ pc' = "page" /\ ~since'.late => Cardinality(ids') <= total'
      BY DEF ListState
    <3> HIDE DEF ids, upTo
    <3>4. ListState'
      BY <2>1, <2>5, <2>6, <2>7, <2>8, <2>9, <3>1, <3>2, <3>3
    <3>5. QED BY <3>1, <3>4 DEF UntouchedRowIsListed
  <2>11. CASE ~(upTo < total)
    <3>1. pc' = "done"
      BY <2>1, <2>11
    <3>2. ASSUME ~since.left, ~since.late, NEW s \in since.rows, ~MayHavePassed(s)
          PROVE  s \in listed'
      <4>1. s \in ids /\ (s \in listed \/ offset < Rank(ask, ids, s))
        BY <2>5, <3>2
      <4>2. /\ Rank(ask, ids, s) <= Cardinality(ids) /\ Cardinality(ids) <= total
            /\ Rank(ask, ids, s) \in Nat
        BY <2>3, <2>5, <3>2, <4>1
      <4> HIDE DEF ids
      <4>3. Rank(ask, ids, s) <= upTo
        BY <2>2, <2>4, <2>11, <4>2
      <4>4. offset < Rank(ask, ids, s) => Rank(ask, ids, s) \in (offset + 1)..upTo
        BY <2>2, <4>2, <4>3
      <4>5. QED BY <2>1, <4>1, <4>4
    <3>3. ListState'
      BY <3>1 DEF ListState
    <3>4. UntouchedRowIsListed'
      BY <2>1, <2>7, <3>2 DEF UntouchedRowIsListed
    <3>5. QED BY <3>3, <3>4
  <2>12. QED BY <2>10, <2>11
<1>4. CASE StartCards
  BY <1>4 DEF StartCards, ListState, UntouchedRowIsListed
<1>5. ASSUME NEW b \in Benefit, CountCard(b)
      PROVE  ListState' /\ (UntouchedRowIsListed => UntouchedRowIsListed')
  BY <1>5 DEF CountCard, ListState, UntouchedRowIsListed
<1>6. CASE ExportFile
  BY <1>6 DEF ExportFile, ListState, UntouchedRowIsListed
<1>7. CASE ReaderFails
  BY <1>7 DEF ReaderFails, ListState, UntouchedRowIsListed
<1>8. QED BY <1>1, <1>2, <1>3, <1>4, <1>5, <1>6, <1>7 DEF Reader

-----------------------------------------------------------------------------
(* Sequences, and columns made of several. *)

IsSequence(s) == \E S : s \in Seq(S)

\* The positions of a sequence.
LEMMA SequenceParts ==
  ASSUME NEW s, IsSequence(s)
  PROVE  Len(s) \in Nat /\ DOMAIN s = 1..Len(s)
BY DEF IsSequence

\* A function of 1..n is a sequence of length n.
LEMMA SequenceOf ==
  ASSUME NEW n \in Nat, NEW s, s = [k \in 1..n |-> s[k]]
  PROVE  IsSequence(s) /\ Len(s) = n /\ DOMAIN s = 1..n
<1>1. PICK T : T = {s[k] : k \in 1..n}
  OBVIOUS
<1>2. s \in [1..n -> T]
  BY <1>1
<1>3. s \in Seq(T) /\ Len(s) = n /\ DOMAIN s = 1..n
  BY <1>2
<1>4. QED BY <1>3 DEF IsSequence

\* Sequence s is a, then b.
Joins(s, a, b) ==
  /\ IsSequence(s) /\ Len(s) = Len(a) + Len(b)
  /\ \A k \in 1..Len(a) : s[k] = a[k]
  /\ \A k \in 1..Len(b) : s[Len(a) + k] = b[k]

\* Concatenation joins.
LEMMA Joined ==
  ASSUME NEW a, IsSequence(a), NEW b, IsSequence(b)
  PROVE  Joins(a \o b, a, b)
<1>1. PICK S, T : a \in Seq(S) /\ b \in Seq(T)
  BY DEF IsSequence
<1>2. PICK U : U = S \union T
  OBVIOUS
<1>3. a \in Seq(U) /\ b \in Seq(U)
  <2>1. a \in [1..Len(a) -> U] /\ b \in [1..Len(b) -> U]
    BY <1>1, <1>2
  <2>2. Len(a) \in Nat /\ Len(b) \in Nat
    BY <1>1
  <2>3. a \in Seq(U)
    BY <2>1, <2>2
  <2>4. b \in Seq(U)
    BY <2>1, <2>2
  <2>5. QED BY <2>3, <2>4
<1>4. a \o b \in Seq(U) /\ Len(a \o b) = Len(a) + Len(b)
  BY <1>3
<1>5. QED BY <1>3, <1>4 DEF IsSequence, Joins

\* Where the entries of five sequences of these lengths are when they are joined.
JoinsFive(s, a, b, m, c, n, d, p, e, q) ==
  /\ IsSequence(s) /\ Len(s) = 1 + m + n + p + q
  /\ s[1] = a[1]
  /\ \A k \in 1..m : s[1 + k] = b[k]
  /\ \A k \in 1..n : s[1 + m + k] = c[k]
  /\ \A k \in 1..p : s[1 + m + n + k] = d[k]
  /\ \A k \in 1..q : s[1 + m + n + p + k] = e[k]

\* Where they are in the line of a file, whose first part has one entry.
LEMMA FiveJoined ==
  ASSUME NEW a, IsSequence(a), NEW b, IsSequence(b), NEW c, IsSequence(c),
         NEW d, IsSequence(d), NEW e, IsSequence(e),
         NEW m \in Nat, NEW n \in Nat, NEW p \in Nat, NEW q \in Nat,
         Len(a) = 1, Len(b) = m, Len(c) = n, Len(d) = p, Len(e) = q,
         NEW s, s = a \o b \o c \o d \o e
  PROVE  JoinsFive(s, a, b, m, c, n, d, p, e, q)
<1>1. PICK ab : ab = a \o b
  OBVIOUS
<1>2. Joins(ab, a, b)
  BY <1>1, Joined
<1>3. PICK abc : abc = ab \o c
  OBVIOUS
<1>4. Joins(abc, ab, c)
  <2>1. IsSequence(ab)
    BY <1>2 DEF Joins
  <2>2. QED BY <1>3, <2>1, Joined
<1>5. PICK abcd : abcd = abc \o d
  OBVIOUS
<1>6. Joins(abcd, abc, d)
  <2>1. IsSequence(abc)
    BY <1>4 DEF Joins
  <2>2. QED BY <1>5, <2>1, Joined
<1>7. Joins(s, abcd, e)
  <2>1. s = abcd \o e /\ IsSequence(abcd)
    BY <1>1, <1>3, <1>5, <1>6 DEF Joins
  <2>2. QED BY <2>1, Joined
<1> USE DEF Joins
<1>8. /\ Len(ab) = 1 + m /\ Len(abc) = 1 + m + n /\ Len(abcd) = 1 + m + n + p
      /\ Len(s) = 1 + m + n + p + q
  BY <1>2, <1>4, <1>6, <1>7
<1>9. s[1] = a[1]
  BY <1>2, <1>4, <1>6, <1>7, <1>8
<1>10. \A k \in 1..m : s[1 + k] = b[k]
  BY <1>2, <1>4, <1>6, <1>7, <1>8
<1>11. \A k \in 1..n : s[1 + m + k] = c[k]
  BY <1>4, <1>6, <1>7, <1>8
<1>12. \A k \in 1..p : s[1 + m + n + k] = d[k]
  BY <1>6, <1>7, <1>8
<1>13. \A k \in 1..q : s[1 + m + n + p + k] = e[k]
  BY <1>7, <1>8
<1>14. QED BY <1>7, <1>8, <1>9, <1>10, <1>11, <1>12, <1>13 DEF JoinsFive

\* SetToSeq lists each element of a finite set once.
LEMMA SequenceOfSet ==
  ASSUME NEW S, IsFiniteSet(S)
  PROVE  /\ Len(SetToSeq(S)) \in Nat /\ DOMAIN SetToSeq(S) = 1..Len(SetToSeq(S))
         /\ SetToSeq(S) \in [1..Cardinality(S) -> S]
         /\ \A x \in S : \E i \in DOMAIN SetToSeq(S) : SetToSeq(S)[i] = x
         /\ \A i, j \in DOMAIN SetToSeq(S) : SetToSeq(S)[i] = SetToSeq(S)[j] => i = j
<1> DEFINE n == Cardinality(S)
<1>1. n \in Nat
  BY FS_CardinalityType
<1>2. \E f \in [1..n -> S] : IsInjective(f)
  <2>1. PICK f \in Bijection(1..n, S) : TRUE
    BY FS_CardinalityType, Zenon DEF ExistsBijection
  <2>2. f \in [1..n -> S] /\ \A i, j \in DOMAIN f : f[i] = f[j] => i = j
    BY <2>1 DEF Bijection, Injection, IsInjective
  <2>3. QED BY <2>2 DEF IsInjective
<1> DEFINE s == SetToSeq(S)
<1>3. s \in [1..n -> S] /\ IsInjective(s)
  BY <1>2, Zenon DEF SetToSeq
<1>4. Len(s) = n /\ DOMAIN s = 1..n
  <2> HIDE DEF s, n
  <2>1. s \in Seq(S)
    BY <1>1, <1>3
  <2>2. QED BY <1>1, <1>3, <2>1
<1>5. \A i, j \in DOMAIN s : s[i] = s[j] => i = j
  BY <1>3 DEF IsInjective
<1>6. s \in Surjection(1..n, S)
  <2>1. s \in Injection(1..n, S)
    BY <1>3, <1>5 DEF Injection, IsInjective
  <2>2. IsFiniteSet(1..n) /\ Cardinality(1..n) = n
    BY <1>1, FS_Interval
  <2> HIDE DEF s, n
  <2>3. QED BY <2>1, <2>2, FS_Injection DEF n
<1>7. \A x \in S : \E i \in DOMAIN s : s[i] = x
  BY <1>4, <1>6 DEF Surjection
<1>8. QED BY <1>1, <1>3, <1>4, <1>5, <1>7

\* A sequence without some of its elements is one.
LEMMA WithoutIsSequence ==
  ASSUME NEW n \in Nat, NEW fields, DOMAIN fields = 1..n, NEW excluded
  PROVE  IsSequence(Without(fields, excluded))
<1> DEFINE kept == {i \in DOMAIN fields : fields[i] \notin excluded}
<1>1. Cardinality(kept) \in Nat
  <2>1. IsFiniteSet(1..n) /\ kept \in SUBSET (1..n)
    BY UpTo
  <2> HIDE DEF kept
  <2>2. IsFiniteSet(kept)
    BY <2>1, FS_Subset
  <2>3. QED BY <2>2, FS_CardinalityType
<1>2. PICK m \in Nat : m = Cardinality(kept)
  BY <1>1
<1>3. PICK s : s = Without(fields, excluded)
  OBVIOUS
<1>4. s = [k \in 1..m |-> s[k]]
  BY <1>2, <1>3 DEF Without
<1>5. QED BY <1>3, <1>4, SequenceOf

-----------------------------------------------------------------------------
(* Files. *)

\* The columns that resolveDynamicFields finds: for '*', each key of any source once.
LEMMA ResolvedFields ==
  ASSUME NEW sources, IsFiniteSet(DOMAIN sources),
         \A r \in DOMAIN sources : IsFiniteSet(DOMAIN sources[r]),
         NEW fields, NEW n \in Nat, DOMAIN fields = 1..n, NEW excluded,
         NEW s, s = resolveDynamicFields(sources, fields, excluded)
  PROVE  /\ IsSequence(s)
         /\ fields = Wildcard =>
              /\ \A r \in DOMAIN sources : \A f \in DOMAIN sources[r] \ excluded :
                   \E k \in 1..Len(s) : s[k] = f
              /\ \A k \in 1..Len(s) : s[k] \notin excluded
              /\ \A j, k \in 1..Len(s) : s[j] = s[k] => j = k
<1>1. CASE fields # Wildcard
  BY <1>1, WithoutIsSequence DEF resolveDynamicFields
<1>2. CASE fields = Wildcard
  <2> DEFINE F == [r \in DOMAIN sources |-> DOMAIN sources[r]]
             keys == (UNION {DOMAIN sources[r] : r \in DOMAIN sources}) \ excluded
  <2>1. IsFiniteSet(UNION {F[r] : r \in DOMAIN sources})
    <3>1. \A r \in DOMAIN sources : IsFiniteSet(F[r])
      OBVIOUS
    <3> HIDE DEF F
    <3>2. QED BY <3>1, FiniteUnion
  <2>2. IsFiniteSet(keys)
    <3>1. keys \subseteq UNION {F[r] : r \in DOMAIN sources}
      OBVIOUS
    <3> HIDE DEF keys, F
    <3>2. QED BY <2>1, <3>1, FS_Subset
  <2>3. s = SetToSeq(keys)
    BY <1>2 DEF resolveDynamicFields
  <2> HIDE DEF keys
  <2>4. /\ Len(s) \in Nat /\ DOMAIN s = 1..Len(s) /\ s \in [1..Cardinality(keys) -> keys]
        /\ \A x \in keys : \E i \in DOMAIN s : s[i] = x
        /\ \A i, j \in DOMAIN s : s[i] = s[j] => i = j
    BY <2>2, <2>3, SequenceOfSet
  <2>5. s = [k \in 1..Len(s) |-> s[k]]
    BY <2>4
  <2>6. IsSequence(s)
    BY <2>4, <2>5, SequenceOf
  <2>7. \A r \in DOMAIN sources : \A f \in DOMAIN sources[r] \ excluded : f \in keys
    BY DEF keys
  <2>8. \A k \in 1..Len(s) : s[k] \in keys
    BY <2>4
  <2>9. \A k \in keys : k \notin excluded
    BY DEF keys
  <2>10. QED BY <2>4, <2>6, <2>7, <2>8, <2>9
<1>3. QED BY <1>1, <1>2

\* Amounts are stored under finitely many names.
LEMMA AmountsFinite ==
  ASSUME TypeOK, AmountState, NEW r \in Ids
  PROVE  IsFiniteSet(DOMAIN AmountsOf(rows[r]))
<1>1. CASE rows[r].calculated = None
  <2>1. DOMAIN AmountsOf(rows[r]) = {}
    BY <1>1 DEF AmountsOf
  <2>2. QED BY <2>1, FS_EmptySet
<1>2. CASE rows[r].calculated # None
  BY <1>2 DEF AmountsOf, TypeOK
<1>3. QED BY <1>1, <1>2

\* With '*', each key of the data and of the amounts has a column, the amounts each one.
AllHaveColumns(report, ids, data, amounts) ==
  /\ report.data = Wildcard =>
       \A r \in ids : \A f \in DOMAIN rows[r].data : \E k \in 1..Len(data) : data[k] = f
  /\ report.amounts = Wildcard =>
       /\ \A r \in ids : \A f \in DOMAIN AmountsOf(rows[r]) \ {TotalPayout} :
            \E k \in 1..Len(amounts) : amounts[k] = f
       /\ \A k \in 1..Len(amounts) : amounts[k] # TotalPayout
       /\ \A j, k \in 1..Len(amounts) : amounts[j] = amounts[k] => j = k

\* What the columns of a file are made of.
LEMMA Columns ==
  ASSUME TypeOK, AmountState, NEW name \in DOMAIN Report, NEW ids \in SUBSET Ids,
         NEW report, report = Report[name],
         NEW data, data = DataColumns(report, ids),
         NEW amounts, amounts = AmountColumns(report, ids),
         NEW decision, decision = DecisionColumns(report)
  PROVE  /\ IsSequence(data) /\ IsSequence(amounts) /\ IsSequence(decision)
         /\ AllHaveColumns(report, ids, data, amounts)
<1>1. /\ \E n \in Nat : DOMAIN report.data = 1..n
      /\ \E n \in Nat : DOMAIN report.amounts = 1..n
  <2>1. /\ report.data = Wildcard \/ report.data = <<"otr", "grade">>
        /\ report.amounts = Wildcard \/ report.amounts = <<>>
    BY DEF Report
  <2>2. DOMAIN Wildcard = 1..1 /\ DOMAIN <<"otr", "grade">> = 1..2 /\ DOMAIN <<>> = 1..0
    BY DEF Wildcard
  <2>3. QED BY <2>1, <2>2
<1>2. IsFiniteSet(ids)
  BY SelectedFinite
<1>3. /\ IsSequence(data)
      /\ report.data = Wildcard =>
           \A r \in ids : \A f \in DOMAIN rows[r].data : \E k \in 1..Len(data) : data[k] = f
  <2> DEFINE sources == [r \in ids |-> rows[r].data]
  <2>1. DOMAIN sources = ids /\ \A r \in ids : sources[r] = rows[r].data
    OBVIOUS
  <2>2. \A r \in ids : IsFiniteSet(DOMAIN sources[r])
    BY <2>1, AmountsAssumption DEF TypeOK, IsRow
  <2>3. data = resolveDynamicFields(sources, report.data, {})
    BY DEF DataColumns
  <2> HIDE DEF sources
  <2>4. PICK n \in Nat : DOMAIN report.data = 1..n
    BY <1>1
  <2>5. /\ IsSequence(data)
        /\ report.data = Wildcard =>
             \A r \in DOMAIN sources : \A f \in DOMAIN sources[r] \ {} :
               \E k \in 1..Len(data) : data[k] = f
    BY <1>2, <2>1, <2>2, <2>3, <2>4, ResolvedFields
  <2>6. QED BY <2>1, <2>5
<1>4. /\ IsSequence(amounts)
      /\ report.amounts = Wildcard =>
           /\ \A r \in ids : \A f \in DOMAIN AmountsOf(rows[r]) \ {TotalPayout} :
                \E k \in 1..Len(amounts) : amounts[k] = f
           /\ \A k \in 1..Len(amounts) : amounts[k] # TotalPayout
           /\ \A j, k \in 1..Len(amounts) : amounts[j] = amounts[k] => j = k
  <2> DEFINE sources == [r \in ids |-> AmountsOf(rows[r])]
             excluded == {TotalPayout}
  <2>1. DOMAIN sources = ids /\ \A r \in ids : sources[r] = AmountsOf(rows[r])
    OBVIOUS
  <2>2. \A r \in ids : IsFiniteSet(DOMAIN sources[r])
    BY <2>1, AmountsFinite
  <2>3. amounts = resolveDynamicFields(sources, report.amounts, excluded)
    BY DEF AmountColumns
  <2> HIDE DEF sources, excluded
  <2>4. PICK n \in Nat : DOMAIN report.amounts = 1..n
    BY <1>1
  <2>5. /\ IsSequence(amounts)
        /\ report.amounts = Wildcard =>
             /\ \A r \in DOMAIN sources : \A f \in DOMAIN sources[r] \ excluded :
                  \E k \in 1..Len(amounts) : amounts[k] = f
             /\ \A k \in 1..Len(amounts) : amounts[k] \notin excluded
             /\ \A j, k \in 1..Len(amounts) : amounts[j] = amounts[k] => j = k
    BY <1>2, <2>1, <2>2, <2>3, <2>4, ResolvedFields
  <2>6. QED BY <2>1, <2>5 DEF excluded
<1>5. IsSequence(decision)
  <2>1. decision = EligibilityFields \/ decision = <<>>
    BY DEF DecisionColumns
  <2>2. CASE decision = EligibilityFields
    <3>1. decision = [k \in 1..3 |-> decision[k]]
      BY <2>2 DEF EligibilityFields
    <3>2. QED BY <3>1, SequenceOf
  <2>3. CASE decision = <<>>
    <3>1. decision = [k \in 1..0 |-> decision[k]]
      BY <2>3
    <3>2. QED BY <3>1, SequenceOf
  <2>4. QED BY <2>1, <2>2, <2>3
<1>6. QED BY <1>3, <1>4, <1>5 DEF AllHaveColumns

\* Where the parts of a header and of a line are, if there are m columns of data, n of amounts
\* and q of decisions.
HeaderParts(header, data, m, amounts, n, q) ==
  /\ Len(data) = m /\ Len(amounts) = n
  /\ Len(header) = 1 + m + n + 3 + q /\ DOMAIN header = 1..(1 + m + n + 3 + q)
  /\ header[1] = <<"auto", "serialNumber">>
  /\ \A k \in 1..m : header[1 + k] = <<"data", data[k]>>
  /\ \A k \in 1..n : header[1 + m + k] = <<"amounts", amounts[k]>>
  /\ \A k \in 1..3 : header[1 + m + n + k] = <<"table", TableFields[k]>>
  /\ \A k \in 1..q : header[1 + m + n + 3 + k][1] = "eligibility"

LineParts(line, r, data, m, amounts, n, q) ==
  /\ Len(line) = 1 + m + n + 3 + q
  /\ \A k \in 1..m : line[1 + k] = DataCell(rows[r], data[k])
  /\ \A k \in 1..n : line[1 + m + k] = Cell(AmountsOf(rows[r]), amounts[k])
  /\ \A k \in 1..3 : line[1 + m + n + k] = TableCell(r, TableFields[k])

\* The columns of one part of a header.
LEMMA GroupParts ==
  ASSUME NEW name, NEW fields, IsSequence(fields), NEW n \in Nat, n = Len(fields),
         NEW s, s = Group(name, fields)
  PROVE  /\ IsSequence(s) /\ Len(s) = n
         /\ \A k \in 1..n : s[k] = <<name, fields[k]>>
<1>1. DOMAIN fields = 1..n
  BY SequenceParts
<1>2. s = [k \in 1..n |-> <<name, fields[k]>>]
  BY <1>1 DEF Group
<1>3. s = [k \in 1..n |-> s[k]]
  BY <1>2
<1>4. QED BY <1>2, <1>3, SequenceOf

\* The columns of the table.
LEMMA TableFieldsParts == IsSequence(TableFields) /\ Len(TableFields) = 3
<1>1. TableFields = [k \in 1..3 |-> TableFields[k]]
  BY DEF TableFields
<1>2. QED BY <1>1, SequenceOf

\* A header has its five parts.
LEMMA HeaderShape ==
  ASSUME NEW report, NEW ids, NEW m \in Nat, NEW n \in Nat, NEW q \in Nat,
         NEW data, data = DataColumns(report, ids), IsSequence(data), Len(data) = m,
         NEW amounts, amounts = AmountColumns(report, ids), IsSequence(amounts),
         Len(amounts) = n,
         NEW decision, decision = DecisionColumns(report), IsSequence(decision),
         Len(decision) = q
  PROVE  HeaderParts(Header(report, ids), data, m, amounts, n, q)
<1>1. PICK a : a = <<<<"auto", "serialNumber">>>>
  OBVIOUS
<1>2. IsSequence(a) /\ Len(a) = 1 /\ a[1] = <<"auto", "serialNumber">>
  <2>1. a = [k \in 1..1 |-> a[k]]
    BY <1>1
  <2>2. QED BY <1>1, <2>1, SequenceOf
<1>3. PICK b : b = Group("data", data)
  OBVIOUS
<1>4. PICK c : c = Group("amounts", amounts)
  OBVIOUS
<1>5. PICK d : d = Group("table", TableFields)
  OBVIOUS
<1>6. PICK e : e = Group("eligibility", decision)
  OBVIOUS
<1>7. IsSequence(b) /\ Len(b) = m /\ \A k \in 1..m : b[k] = <<"data", data[k]>>
  BY <1>3, GroupParts
<1>8. IsSequence(c) /\ Len(c) = n /\ \A k \in 1..n : c[k] = <<"amounts", amounts[k]>>
  BY <1>4, GroupParts
<1>9. IsSequence(d) /\ Len(d) = 3 /\ \A k \in 1..3 : d[k] = <<"table", TableFields[k]>>
  <2>1. PICK p \in Nat : p = 3
    OBVIOUS
  <2>2. IsSequence(TableFields) /\ p = Len(TableFields)
    BY <2>1, TableFieldsParts
  <2>3. IsSequence(d) /\ Len(d) = p /\ \A k \in 1..p : d[k] = <<"table", TableFields[k]>>
    BY <1>5, <2>2, GroupParts
  <2>4. QED BY <2>1, <2>3
<1>10. IsSequence(e) /\ Len(e) = q /\ \A k \in 1..q : e[k] = <<"eligibility", decision[k]>>
  BY <1>6, GroupParts
<1>11. PICK h : h = Header(report, ids)
  OBVIOUS
<1>12. h = a \o b \o c \o d \o e
  BY <1>1, <1>3, <1>4, <1>5, <1>6, <1>11 DEF Header
<1>13. JoinsFive(h, a, b, m, c, n, d, 3, e, q)
  <2>1. 3 \in Nat
    OBVIOUS
  <2>2. QED BY <1>2, <1>7, <1>8, <1>9, <1>10, <1>12, <2>1, FiveJoined
<1>14. DOMAIN h = 1..Len(h) /\ Len(h) = 1 + m + n + 3 + q
  BY <1>13, SequenceParts DEF JoinsFive
<1>15. HeaderParts(h, data, m, amounts, n, q)
  <2>1. h[1] = <<"auto", "serialNumber">>
    BY <1>2, <1>13 DEF JoinsFive
  <2>2. \A k \in 1..m : h[1 + k] = <<"data", data[k]>>
    BY <1>7, <1>13 DEF JoinsFive
  <2>3. \A k \in 1..n : h[1 + m + k] = <<"amounts", amounts[k]>>
    BY <1>8, <1>13 DEF JoinsFive
  <2>4. \A k \in 1..3 : h[1 + m + n + k] = <<"table", TableFields[k]>>
    BY <1>9, <1>13 DEF JoinsFive
  <2>5. ASSUME NEW k \in 1..q PROVE h[1 + m + n + 3 + k][1] = "eligibility"
    <3>1. h[1 + m + n + 3 + k] = <<"eligibility", decision[k]>>
      BY <1>10, <1>13 DEF JoinsFive
    <3>2. QED BY <3>1
  <2>6. QED BY <1>14, <2>1, <2>2, <2>3, <2>4, <2>5 DEF HeaderParts
<1>16. QED BY <1>11, <1>15

\* A line has the same five.
LEMMA LineShape ==
  ASSUME NEW report, NEW ids, NEW r, NEW m \in Nat, NEW n \in Nat, NEW q \in Nat,
         NEW data, data = DataColumns(report, ids), IsSequence(data), Len(data) = m,
         NEW amounts, amounts = AmountColumns(report, ids), IsSequence(amounts),
         Len(amounts) = n,
         NEW decision, decision = DecisionColumns(report), IsSequence(decision),
         Len(decision) = q
  PROVE  LineParts(Line(report, ids, r), r, data, m, amounts, n, q)
<1>1. PICK a : a = <<Rank(NewestFirst, ids, r)>>
  OBVIOUS
<1>2. IsSequence(a) /\ Len(a) = 1
  <2>1. a = [k \in 1..1 |-> a[k]]
    BY <1>1
  <2>2. QED BY <1>1, <2>1, SequenceOf
<1>3. PICK b : b = [k \in DOMAIN data |-> DataCell(rows[r], data[k])]
  OBVIOUS
<1>4. PICK c : c = [k \in DOMAIN amounts |-> Cell(AmountsOf(rows[r]), amounts[k])]
  OBVIOUS
<1>5. PICK d : d = [k \in DOMAIN TableFields |-> TableCell(r, TableFields[k])]
  OBVIOUS
<1>6. PICK e : e = [k \in DOMAIN decision |-> EligibilityCell(rows[r], decision[k])]
  OBVIOUS
<1>7. IsSequence(b) /\ Len(b) = m /\ \A k \in 1..m : b[k] = DataCell(rows[r], data[k])
  <2>1. DOMAIN data = 1..m
    BY SequenceParts
  <2>2. b = [k \in 1..m |-> b[k]]
    BY <1>3, <2>1
  <2>3. QED BY <1>3, <2>1, <2>2, SequenceOf
<1>8. IsSequence(c) /\ Len(c) = n /\ \A k \in 1..n : c[k] = Cell(AmountsOf(rows[r]), amounts[k])
  <2>1. DOMAIN amounts = 1..n
    BY SequenceParts
  <2>2. c = [k \in 1..n |-> c[k]]
    BY <1>4, <2>1
  <2>3. QED BY <1>4, <2>1, <2>2, SequenceOf
<1>9. IsSequence(d) /\ Len(d) = 3 /\ \A k \in 1..3 : d[k] = TableCell(r, TableFields[k])
  <2>1. DOMAIN TableFields = 1..3
    BY TableFieldsParts, SequenceParts
  <2>2. d = [k \in 1..3 |-> d[k]]
    BY <1>5, <2>1
  <2>3. QED BY <1>5, <2>1, <2>2, SequenceOf
<1>10. IsSequence(e) /\ Len(e) = q
  <2>1. DOMAIN decision = 1..q
    BY SequenceParts
  <2>2. e = [k \in 1..q |-> e[k]]
    BY <1>6, <2>1
  <2>3. QED BY <2>2, SequenceOf
<1>11. PICK l : l = Line(report, ids, r)
  OBVIOUS
<1>12. l = a \o b \o c \o d \o e
  BY <1>1, <1>3, <1>4, <1>5, <1>6, <1>11 DEF Line
<1>13. JoinsFive(l, a, b, m, c, n, d, 3, e, q)
  <2>1. 3 \in Nat
    OBVIOUS
  <2>2. QED BY <1>2, <1>7, <1>8, <1>9, <1>10, <1>12, <2>1, FiveJoined
<1>14. LineParts(l, r, data, m, amounts, n, q)
  BY <1>7, <1>8, <1>9, <1>10, <1>13 DEF LineParts, JoinsFive
<1>15. QED BY <1>11, <1>14

\* What the file says of row r.
FileParts(r, name, data, m, amounts, n, q) ==
  /\ ask.report = name
  /\ HeaderParts(file.header, data, m, amounts, n, q)
  /\ LineParts(file.lines[r], r, data, m, amounts, n, q)
  /\ Report[name].data = Wildcard =>
       \A f \in DOMAIN rows[r].data : \E k \in 1..m : data[k] = f
  /\ Report[name].amounts = Wildcard =>
       /\ \A f \in DOMAIN AmountsOf(rows[r]) \ {TotalPayout} : \E k \in 1..n : amounts[k] = f
       /\ \A k \in 1..n : amounts[k] # TotalPayout
       /\ \A j, k \in 1..n : amounts[j] = amounts[k] => j = k

\* A file has the columns and lines of some of the applications.
LEMMA FileShape ==
  ASSUME TypeOK, AmountState, FileState, file # None, NEW r \in DOMAIN file.lines
  PROVE  /\ r \in Ids
         /\ \E name \in DOMAIN Report, m \in Nat, n \in Nat, q \in Nat :
              \E data, amounts : FileParts(r, name, data, m, amounts, n, q)
<1>1. PICK name \in DOMAIN Report, b \in Benefit, filter \in Filters :
        ask = [report |-> name] /\ file = Export(Report[name], b, filter)
  BY DEF FileState
<1>2. PICK report : report = Report[name]
  OBVIOUS
<1>3. PICK ids : ids = Fetched(report, b, filter)
  OBVIOUS
<1>4. ids \in SUBSET Ids
  BY <1>3 DEF Fetched, Selected, Ids
<1>5. ~ExportFails(ids, DataColumns(report, ids))
  <2>1. SUFFICES ASSUME ExportFails(ids, DataColumns(report, ids)) PROVE FALSE
    OBVIOUS
  <2>2. file.lines = <<>>
    BY <1>1, <1>2, <1>3, <2>1 DEF Export
  <2>3. QED BY <2>2
<1>6. file = [header |-> Header(report, ids), lines |-> [s \in ids |-> Line(report, ids, s)]]
  BY <1>1, <1>2, <1>3, <1>5 DEF Export
<1>7. r \in ids /\ file.header = Header(report, ids) /\ file.lines[r] = Line(report, ids, r)
  BY <1>6
<1>8. PICK data : data = DataColumns(report, ids)
  OBVIOUS
<1>9. PICK amounts : amounts = AmountColumns(report, ids)
  OBVIOUS
<1>10. PICK decision : decision = DecisionColumns(report)
  OBVIOUS
<1>11. /\ IsSequence(data) /\ IsSequence(amounts) /\ IsSequence(decision)
       /\ AllHaveColumns(report, ids, data, amounts)
  BY <1>2, <1>4, <1>8, <1>9, <1>10, Columns
<1>12. PICK m \in Nat, n \in Nat, q \in Nat :
         Len(data) = m /\ Len(amounts) = n /\ Len(decision) = q
  BY <1>11, SequenceParts
<1>13. HeaderParts(file.header, data, m, amounts, n, q)
  BY <1>7, <1>8, <1>9, <1>10, <1>11, <1>12, HeaderShape
<1>14. LineParts(file.lines[r], r, data, m, amounts, n, q)
  BY <1>7, <1>8, <1>9, <1>10, <1>11, <1>12, LineShape
<1>15. FileParts(r, name, data, m, amounts, n, q)
  BY <1>1, <1>2, <1>7, <1>11, <1>12, <1>13, <1>14 DEF FileParts, AllHaveColumns
<1>16. QED BY <1>4, <1>7, <1>15

\* Every value of an application is in its line, under its name.
LEMMA ValuesHaveColumns ==
  ASSUME TypeOK, AmountState, FileState
  PROVE  EveryValueHasItsColumn
<1>1. SUFFICES ASSUME file # None, NEW r \in DOMAIN file.lines
      PROVE  /\ Len(file.lines[r]) = Len(file.header)
             /\ Report[ask.report].amounts = Wildcard =>
                  \A f \in DOMAIN AmountsOf(rows[r]) \ {TotalPayout} :
                    Shows(r, <<"amounts", f>>, rows[r].calculated[f])
             /\ Report[ask.report].data = Wildcard =>
                  \A f \in DOMAIN rows[r].data \ {"otr", "aadhaar"} :
                    Shows(r, <<"data", f>>, rows[r].data[f])
  BY DEF EveryValueHasItsColumn
<1>2. PICK name \in DOMAIN Report, m \in Nat, n \in Nat, q \in Nat :
        \E data, amounts : FileParts(r, name, data, m, amounts, n, q)
  BY <1>1, FileShape
<1>3. PICK data, amounts : FileParts(r, name, data, m, amounts, n, q)
  BY <1>2
<1>4. Len(file.lines[r]) = Len(file.header)
  BY <1>3 DEF FileParts, HeaderParts, LineParts
<1>5. ASSUME Report[ask.report].amounts = Wildcard,
             NEW f \in DOMAIN AmountsOf(rows[r]) \ {TotalPayout}
      PROVE  Shows(r, <<"amounts", f>>, rows[r].calculated[f])
  <2>1. PICK k \in 1..n : amounts[k] = f
    BY <1>3, <1>5 DEF FileParts
  <2>2. /\ 1 + m + k \in DOMAIN file.header
        /\ file.header[1 + m + k] = <<"amounts", f>>
        /\ file.lines[r][1 + m + k] = Cell(AmountsOf(rows[r]), f)
    BY <1>3, <2>1 DEF FileParts, HeaderParts, LineParts
  <2>3. Cell(AmountsOf(rows[r]), f) = rows[r].calculated[f]
    BY <1>5 DEF Cell, AmountsOf
  <2>4. QED BY <2>2, <2>3 DEF Shows
<1>6. ASSUME Report[ask.report].data = Wildcard,
             NEW f \in DOMAIN rows[r].data \ {"otr", "aadhaar"}
      PROVE  Shows(r, <<"data", f>>, rows[r].data[f])
  <2>1. PICK k \in 1..m : data[k] = f
    BY <1>3, <1>6 DEF FileParts
  <2>2. /\ 1 + k \in DOMAIN file.header
        /\ file.header[1 + k] = <<"data", f>>
        /\ file.lines[r][1 + k] = DataCell(rows[r], f)
    BY <1>3, <2>1 DEF FileParts, HeaderParts, LineParts
  <2>3. DataCell(rows[r], f) = rows[r].data[f]
    BY <1>6 DEF DataCell, Cell
  <2>4. QED BY <2>2, <2>3 DEF Shows
<1>7. QED BY <1>4, <1>5, <1>6

\* The columns that are paid in the line of r: those of its amounts.
Paid(r) == {k \in DOMAIN file.header :
              file.header[k][1] = "amounts" /\ file.lines[r][k] # Blank}

\* They are those of the n columns of amounts whose amount r has.
PaidAre(r, m, amounts, n) ==
  /\ IsFiniteSet(Paid(r))
  /\ Paid(r) = {k \in (1 + m + 1)..(1 + m + n) :
                  amounts[k - 1 - m] \in DOMAIN AmountsOf(rows[r])}
  /\ \A k \in Paid(r) : file.lines[r][k] = AmountsOf(rows[r])[amounts[k - 1 - m]]

\* A column of amounts that is not empty in line r is that of an amount of r.
LEMMA PaidColumns ==
  ASSUME NEW r, NEW name, NEW m \in Nat, NEW n \in Nat, NEW q \in Nat, NEW data, NEW amounts,
         FileParts(r, name, data, m, amounts, n, q),
         \A f \in DOMAIN AmountsOf(rows[r]) : AmountsOf(rows[r])[f] \in Int
  PROVE  PaidAre(r, m, amounts, n)
<1> DEFINE header == file.header
           line == file.lines[r]
           paidHere == {k \in (1 + m + 1)..(1 + m + n) :
                          amounts[k - 1 - m] \in DOMAIN AmountsOf(rows[r])}
<1>1. HeaderParts(header, data, m, amounts, n, q) /\ LineParts(line, r, data, m, amounts, n, q)
  BY DEF FileParts
<1> HIDE DEF header, line
<1>2. DOMAIN header = 1..(1 + m + n + 3 + q)
  BY <1>1 DEF HeaderParts
<1>3. ASSUME NEW k \in (1 + m + 1)..(1 + m + n)
      PROVE  /\ header[k] = <<"amounts", amounts[k - 1 - m]>>
             /\ line[k] = Cell(AmountsOf(rows[r]), amounts[k - 1 - m])
             /\ k \in DOMAIN header
  <2>1. k - 1 - m \in 1..n /\ k = 1 + m + (k - 1 - m)
    OBVIOUS
  <2>2. PICK j \in 1..n : j = k - 1 - m /\ k = 1 + m + j
    BY <2>1
  <2>3. header[1 + m + j] = <<"amounts", amounts[j]>>
    BY <1>1 DEF HeaderParts
  <2>4. line[1 + m + j] = Cell(AmountsOf(rows[r]), amounts[j])
    BY <1>1 DEF LineParts
  <2>5. k \in DOMAIN header
    BY <1>2, <1>3
  <2>6. QED BY <2>2, <2>3, <2>4, <2>5
<1>4. ASSUME NEW k \in DOMAIN header, k \notin (1 + m + 1)..(1 + m + n)
      PROVE  header[k][1] # "amounts"
  <2>1. \/ k = 1
        \/ \E j \in 1..m : k = 1 + j
        \/ \E j \in 1..3 : k = 1 + m + n + j
        \/ \E j \in 1..q : k = 1 + m + n + 3 + j
    <3>1. k \in Nat /\ 1 <= k /\ k <= 1 + m + n + 3 + q
      BY <1>2, <1>4
    <3>2. CASE k <= 1 + m
      <4>1. k = 1 \/ (k - 1 \in 1..m /\ k = 1 + (k - 1))
        BY <3>1, <3>2
      <4>2. QED BY <4>1
    <3>3. CASE k > 1 + m + n
      <4> DEFINE table == k - (1 + m + n)
                 decided == k - (1 + m + n + 3)
      <4>1. \/ table \in 1..3 /\ k = 1 + m + n + table
            \/ decided \in 1..q /\ k = 1 + m + n + 3 + decided
        BY <3>1, <3>3
      <4> HIDE DEF table, decided
      <4>2. QED BY <4>1
    <3>4. k <= 1 + m \/ k > 1 + m + n
      BY <1>4, <3>1
    <3>5. QED BY <3>2, <3>3, <3>4
  <2>2. CASE k = 1
    BY <1>1, <2>2 DEF HeaderParts
  <2>3. CASE \E j \in 1..m : k = 1 + j
    <3>1. PICK j \in 1..m : k = 1 + j
      BY <2>3
    <3>2. header[k] = <<"data", data[j]>>
      BY <1>1, <3>1 DEF HeaderParts
    <3>3. QED BY <3>2
  <2>4. CASE \E j \in 1..3 : k = 1 + m + n + j
    <3>1. PICK j \in 1..3 : k = 1 + m + n + j
      BY <2>4
    <3>2. header[k] = <<"table", TableFields[j]>>
      BY <1>1, <3>1 DEF HeaderParts
    <3>3. QED BY <3>2
  <2>5. CASE \E j \in 1..q : k = 1 + m + n + 3 + j
    BY <1>1, <2>5 DEF HeaderParts
  <2>6. QED BY <2>1, <2>2, <2>3, <2>4, <2>5
<1>5. Paid(r) = {k \in DOMAIN header : header[k][1] = "amounts" /\ line[k] # Blank}
  BY DEF Paid, header, line
<1>6. Paid(r) = paidHere
  <2>1. ASSUME NEW k \in Paid(r) PROVE k \in paidHere
    BY <1>3, <1>4, <1>5 DEF Cell
  <2>2. ASSUME NEW k \in paidHere PROVE k \in Paid(r)
    <3>1. /\ header[k] = <<"amounts", amounts[k - 1 - m]>> /\ k \in DOMAIN header
          /\ line[k] = Cell(AmountsOf(rows[r]), amounts[k - 1 - m])
      BY <1>3
    <3>2. line[k] \in Int
      BY <3>1 DEF Cell
    <3>3. QED BY <1>5, <3>1, <3>2, AmountsAssumption
  <2>3. QED BY <2>1, <2>2
<1>7. IsFiniteSet(Paid(r))
  <2>1. IsFiniteSet((1 + m + 1)..(1 + m + n))
    <3>1. 1 + m + 1 \in Int /\ 1 + m + n \in Int
      OBVIOUS
    <3>2. QED BY <3>1, FS_Interval
  <2>2. Paid(r) \subseteq (1 + m + 1)..(1 + m + n)
    BY <1>6
  <2>3. QED BY <2>1, <2>2, FS_Subset
<1>8. \A k \in Paid(r) : line[k] = AmountsOf(rows[r])[amounts[k - 1 - m]]
  BY <1>3, <1>6 DEF Cell
<1>9. QED BY <1>6, <1>7, <1>8 DEF PaidAre, line

\* The amounts of the line of a calculated row that no PATCH gave amounts sum up to the amount of the row.
LEMMA PaidSum ==
  ASSUME TypeOK, AmountState, NEW r \in Ids,
         NEW name, NEW m \in Nat, NEW n \in Nat, NEW q \in Nat, NEW data, NEW amounts,
         FileParts(r, name, data, m, amounts, n, q), Report[name].amounts = Wildcard,
         rows[r].calculated # None, rows[r].patched = {}, DistinctOutputs(rows[r].by)
  PROVE  rows[r].final \in Int /\ rows[r].final = SumFunctionOnSet(file.lines[r], Paid(r))
<1>1. PICK s \in RuleSets, given \in Profiles :
        s = rows[r].by /\ given = rows[r].of
  BY DEF AmountState
<1> DEFINE amount == [i \in DOMAIN s |-> RuleAmount(s[i], given)]
<1>2. PICK out : out = doBenefitCalculations(s, given)
  OBVIOUS
<1>3. /\ TotalPayout \in DOMAIN out
      /\ DOMAIN out = {s[i].output : i \in DOMAIN s} \union {TotalPayout}
      /\ out[TotalPayout] = SumFunctionOnSet(amount, DOMAIN s)
      /\ \A f \in DOMAIN out \ {TotalPayout} :
           \E i \in DOMAIN s : s[i].output = f /\ out[f] = amount[i]
      /\ \A f \in DOMAIN out : out[f] \in Int
  <2>1. AmountsAreOf(out, s, amount)
    BY <1>2, AmountsAreNumbers
  <2> HIDE DEF amount
  <2>2. QED BY <2>1 DEF AmountsAreOf
<1>4. AmountsOf(rows[r]) = out /\ rows[r].final = out[TotalPayout]
  BY <1>1, <1>2 DEF AmountState, AmountsOf
<1>5. IsFiniteSet(DOMAIN s) /\ \A i \in DOMAIN s : amount[i] \in Int
  BY <1>1, AmountsAssumption, UpTo
<1>6. /\ \A i, j \in DOMAIN s : s[i].output = s[j].output => i = j
      /\ \A i \in DOMAIN s : s[i].output # TotalPayout
  BY <1>1 DEF DistinctOutputs
<1>7. \A i \in DOMAIN s : s[i].output \in DOMAIN out /\ out[s[i].output] = amount[i]
  BY <1>3, <1>6
<1> HIDE DEF amount
<1>8. /\ IsFiniteSet(Paid(r))
      /\ Paid(r) = {k \in (1 + m + 1)..(1 + m + n) : amounts[k - 1 - m] \in DOMAIN out}
      /\ \A k \in Paid(r) : file.lines[r][k] = out[amounts[k - 1 - m]]
  <2>1. \A f \in DOMAIN AmountsOf(rows[r]) : AmountsOf(rows[r])[f] \in Int
    BY <1>3, <1>4
  <2>2. PaidAre(r, m, amounts, n)
    BY <2>1, PaidColumns
  <2>3. QED BY <1>4, <2>2 DEF PaidAre
<1>9. /\ \A f \in DOMAIN out \ {TotalPayout} : \E k \in 1..n : amounts[k] = f
      /\ \A k \in 1..n : amounts[k] # TotalPayout
      /\ \A j, k \in 1..n : amounts[j] = amounts[k] => j = k
  BY <1>4 DEF FileParts
<1> DEFINE column == [i \in DOMAIN s |-> CHOOSE k \in Paid(r) : amounts[k - 1 - m] = s[i].output]
<1>10. ASSUME NEW i \in DOMAIN s
       PROVE  column[i] \in Paid(r) /\ amounts[column[i] - 1 - m] = s[i].output
  <2>1. PICK j \in 1..n : amounts[j] = s[i].output
    BY <1>6, <1>7, <1>9
  <2>2. PICK k : k = 1 + m + j
    OBVIOUS
  <2>3. k \in (1 + m + 1)..(1 + m + n) /\ k - 1 - m = j
    BY <2>2
  <2>4. k \in Paid(r) /\ amounts[k - 1 - m] = s[i].output
    BY <1>7, <1>8, <2>1, <2>3
  <2>5. \E x \in Paid(r) : amounts[x - 1 - m] = s[i].output
    BY <2>4
  <2>6. QED BY <2>5
<1> HIDE DEF column
<1>11. \A i \in DOMAIN s : /\ column[i] \in Paid(r)
                           /\ file.lines[r][column[i]] = amount[i] /\ amount[i] \in Int
  BY <1>5, <1>7, <1>8, <1>10
<1>12. \A i, j \in DOMAIN s : column[i] = column[j] => i = j
  BY <1>6, <1>10
<1>13. ASSUME NEW k \in Paid(r) PROVE \E i \in DOMAIN s : column[i] = k
  <2>1. k - 1 - m \in 1..n /\ amounts[k - 1 - m] \in DOMAIN out /\ k \in Int
    BY <1>8
  <2>2. amounts[k - 1 - m] # TotalPayout
    BY <1>9, <2>1
  <2>3. PICK i \in DOMAIN s : s[i].output = amounts[k - 1 - m]
    BY <1>3, <2>1, <2>2
  <2>4. column[i] \in Paid(r) /\ amounts[column[i] - 1 - m] = amounts[k - 1 - m]
    BY <1>10, <2>3
  <2>5. column[i] - 1 - m \in 1..n /\ column[i] \in Int
    BY <1>8, <2>4
  <2>6. column[i] - 1 - m = k - 1 - m
    BY <1>9, <2>1, <2>4, <2>5
  <2>7. column[i] = k
    BY <2>1, <2>5, <2>6
  <2>8. QED BY <2>7
<1>14. SumFunctionOnSet(amount, DOMAIN s) = SumFunctionOnSet(file.lines[r], Paid(r))
  <2>1. PICK line : line = file.lines[r]
    OBVIOUS
  <2>2. PICK S, T : S = DOMAIN s /\ T = Paid(r)
    OBVIOUS
  <2>3. \A i \in S : column[i] \in T /\ line[column[i]] = amount[i] /\ amount[i] \in Int
    BY <1>11, <2>1, <2>2
  <2>4. \A i, j \in S : column[i] = column[j] => i = j
    BY <1>12, <2>2
  <2>5. \A k \in T : \E i \in S : column[i] = k
    BY <1>13, <2>2
  <2>6. IsFiniteSet(S) /\ IsFiniteSet(T)
    BY <1>5, <1>8, <2>2
  <2>7. SumFunctionOnSet(amount, S) = SumFunctionOnSet(line, T)
    BY <2>3, <2>4, <2>5, <2>6, SumRenamed
  <2>8. QED BY <2>1, <2>2, <2>7
<1>15. QED BY <1>3, <1>4, <1>14

\* The amount of a line is the sum of the amounts beside it.
LEMMA LinesAddUp ==
  ASSUME TypeOK, AmountState, FileState
  PROVE  AmountIsSumOfColumns
<1>1. SUFFICES ASSUME file # None, ask.report # "eligibility", NEW r \in DOMAIN file.lines
      PROVE  IF rows[r].calculated = None THEN Paid(r) = {}
             ELSE \/ rows[r].patched # {}
                  \/ ~DistinctOutputs(rows[r].by)
                  \/ Shows(r, <<"table", "amount">>, SumFunctionOnSet(file.lines[r], Paid(r)))
  BY DEF AmountIsSumOfColumns, Paid
<1>2. r \in Ids
  BY <1>1, FileShape
<1>3. PICK name \in DOMAIN Report, m \in Nat, n \in Nat, q \in Nat :
        \E data, amounts : FileParts(r, name, data, m, amounts, n, q)
  BY <1>1, FileShape
<1>4. PICK data, amounts : FileParts(r, name, data, m, amounts, n, q)
  BY <1>3
<1>5. Report[name].amounts = Wildcard
  <2>1. name # "eligibility"
    BY <1>1, <1>4 DEF FileParts
  <2>2. QED BY <2>1 DEF Report
<1>6. CASE rows[r].calculated = None
  <2>1. DOMAIN AmountsOf(rows[r]) = {}
    BY <1>6 DEF AmountsOf
  <2>2. \A f \in DOMAIN AmountsOf(rows[r]) : AmountsOf(rows[r])[f] \in Int
    BY <2>1
  <2>3. Paid(r) = {k \in (1 + m + 1)..(1 + m + n) :
                     amounts[k - 1 - m] \in DOMAIN AmountsOf(rows[r])}
    <3>1. PaidAre(r, m, amounts, n)
      BY <1>4, <2>2, PaidColumns
    <3>2. QED BY <3>1 DEF PaidAre
  <2>4. QED BY <1>6, <2>1, <2>3
<1>7. CASE rows[r].calculated # None /\ rows[r].patched = {} /\ DistinctOutputs(rows[r].by)
  <2>1. /\ rows[r].final \in Int
        /\ rows[r].final = SumFunctionOnSet(file.lines[r], Paid(r))
    BY <1>2, <1>4, <1>5, <1>7, PaidSum
  <2>2. PICK k : k = 1 + m + n + 3
    OBVIOUS
  <2>3. TableFields[3] = "amount" /\ 3 \in 1..3
    BY DEF TableFields
  <2>4. k \in DOMAIN file.header
    BY <1>4, <2>2 DEF FileParts, HeaderParts
  <2>5. file.header[k] = <<"table", "amount">>
    BY <1>4, <2>2, <2>3 DEF FileParts, HeaderParts
  <2>6. file.lines[r][k] = TableCell(r, "amount")
    BY <1>4, <2>2, <2>3 DEF FileParts, LineParts
  <2>7. TableCell(r, "amount") = rows[r].final
    BY <2>1, AmountsAssumption DEF TableCell
  <2>8. QED BY <1>7, <2>1, <2>4, <2>5, <2>6, <2>7 DEF Shows
<1>8. QED BY <1>6, <1>7

\* A file is that of the table.
LEMMA WriterFile ==
  ASSUME FileState, Writer
  PROVE  FileState'
<1>1. MayWrite /\ UNCHANGED <<file, pc>>
  BY DEF Writer, Insert, EditRules, SetStatus, Resubmit, Patch, CalcRead, CalcWrite,
         CheckEligibility, Write, readerVars
<1>2. file = None
  BY <1>1 DEF FileState, MayWrite
<1>3. QED BY <1>1, <1>2 DEF FileState

\* A file depends on the table alone.
LEMMA ExportKept ==
  ASSUME UNCHANGED tableVars, NEW report, NEW b, NEW filter
  PROVE  Export(report, b, filter)' = Export(report, b, filter)
BY DEF tableVars, Export, Fetched, Selected, ExportFails, DataColumns, AmountColumns,
       DecisionColumns, Header, Line, Rank, Precedes, NewestFirst, DataCell, Cell, AmountsOf,
       TableCell, EligibilityCell, resolveDynamicFields, Report, EligibilityFields,
       TableFields, Group, Without

\* A reader of lists or cards makes no file, and a file is made at once.
LEMMA ReaderFile ==
  ASSUME FileState, Reader
  PROVE  FileState'
<1>1. UNCHANGED tableVars
  BY DEF Reader, StartList, Count, Page, StartCards, CountCard, ExportFile, ReaderFails
<1>2. CASE ExportFile
  <2>1. PICK name \in DOMAIN Report, b \in Benefit, filter \in Filters :
          file' = Export(Report[name], b, filter) /\ ask' = [report |-> name]
    BY <1>2 DEF ExportFile
  <2>2. Export(Report[name], b, filter)' = Export(Report[name], b, filter)
    BY <1>1, ExportKept
  <2>3. pc' = "done"
    BY <1>2 DEF ExportFile
  <2>4. QED BY <2>1, <2>2, <2>3 DEF FileState
<1>3. CASE ~ExportFile
  <2>1. UNCHANGED file /\ pc # "done"
    BY <1>3 DEF Reader, StartList, Count, Page, StartCards, CountCard, ReaderFails, Reading
  <2>2. file = None
    BY <2>1 DEF FileState
  <2>3. QED BY <2>1, <2>2 DEF FileState
<1>4. QED BY <1>2, <1>3

-----------------------------------------------------------------------------
(* Theorems. *)

\* Initially nobody reads, and there is no file.
LEMMA ReportsInit == Init => ReportsInv /\ UntouchedRowIsListed
<1> SUFFICES ASSUME Init PROVE ReportsInv /\ UntouchedRowIsListed
  OBVIOUS
<1>1. TypeOK /\ AmountState /\ CardState
  BY TableInit, CardsInit
<1>2. pc = "idle" /\ offset = 0 /\ listed = {} /\ file = None
  BY DEF Init
<1>3. ListState /\ FileState /\ UntouchedRowIsListed
  BY <1>2 DEF ListState, FileState, UntouchedRowIsListed
<1>4. QED BY <1>1, <1>3 DEF ReportsInv

\* Every step keeps the invariant.
LEMMA ReportsStep ==
  ASSUME ReportsInv, UntouchedRowIsListed, [Next]_vars
  PROVE  ReportsInv' /\ UntouchedRowIsListed'
<1> USE DEF ReportsInv
<1>1. CASE Writer
  <2>1. TypeOK' /\ AmountState'
    BY <1>1, WriterTable
  <2>2. ListState'
    BY <1>1, <2>1, WriterList
  <2>3. CardState' /\ FileState'
    BY <1>1, WriterCards, WriterFile
  <2>4. UntouchedRowIsListed'
    <3>1. pc' # "done"
      BY <1>1, WriterKeeps DEF Besides
    <3>2. QED BY <3>1 DEF UntouchedRowIsListed
  <2>5. QED BY <2>1, <2>2, <2>3, <2>4
<1>2. CASE Reader
  <2>1. TypeOK' /\ AmountState'
    BY <1>2, ReaderTable
  <2>2. CardState' /\ FileState'
    BY <1>2, ReaderCards, ReaderFile
  <2>3. ListState' /\ UntouchedRowIsListed'
    BY <1>2, ReaderList
  <2>4. QED BY <2>1, <2>2, <2>3
<1>3. CASE UNCHANGED vars
  <2>1. TypeOK' /\ AmountState'
    BY <1>3 DEF vars, TypeOK, AmountState, Ids
  <2>2. CardState'
    BY <1>3 DEF vars, CardState, Ids, Had
  <2>3. ListState' /\ UntouchedRowIsListed'
    BY <1>3 DEF vars, ListState, UntouchedRowIsListed, MayHavePassed, Rank, Precedes
  <2>4. FileState'
    <3>1. CASE file = None
      BY <1>3, <3>1 DEF vars, FileState
    <3>2. CASE file # None
      <4>1. pc = "done"
        BY <3>2 DEF FileState
      <4>2. PICK name \in DOMAIN Report, b \in Benefit, filter \in Filters :
              ask = [report |-> name] /\ file = Export(Report[name], b, filter)
        BY <3>2 DEF FileState
      <4>3. Export(Report[name], b, filter)' = Export(Report[name], b, filter)
        BY <1>3, ExportKept DEF vars, tableVars
      <4>4. QED BY <1>3, <4>1, <4>2, <4>3 DEF vars, FileState
    <3>3. QED BY <3>1, <3>2
  <2>5. QED BY <2>1, <2>2, <2>3, <2>4
<1>4. QED BY <1>1, <1>2, <1>3 DEF Next

\* So they hold in every behaviour.
LEMMA ReportsInvariant == Spec => [](ReportsInv /\ UntouchedRowIsListed)
<1>1. (ReportsInv /\ UntouchedRowIsListed) /\ [Next]_vars
        => (ReportsInv /\ UntouchedRowIsListed)'
  BY ReportsStep
<1>2. QED BY ReportsInit, <1>1, PTL DEF Spec

\* What the reader has seen and may believe, and what the table and the file hold, is
\* true in every behaviour, for any number of benefits, applications, rules and pages.
THEOREM ReportsInvHolds == Spec => []ReportsInv
BY ReportsInvariant, PTL

\* For any size of pages, filter, order and writers, a list that is read page by page has
\* every row that was on it throughout, provided that no other left it, that none joined it
\* between the last count and the last page, and that, if it is by updatedAt, the row was
\* not written, in ascending order no row at all (findAll).
THEOREM UntouchedRowsAreListed == Spec => []UntouchedRowIsListed
BY ReportsInvariant, PTL

\* However many benefits there are and whatever is written between the statements of
\* getBenefits, an application is on no card of a benefit that it was not of meanwhile, and
\* one that was there and kept its benefit is counted once, on the card of that.
THEOREM CardsCountOnce == Spec => []CardsCountEachOnce
<1>1. ReportsInv => CardsCountEachOnce
  <2>1. SUFFICES ASSUME ReportsInv, pc = "done", "uncounted" \in DOMAIN ask, NEW r \in Ids
        PROVE  /\ {b \in Benefit : r \in cards[b]} \subseteq Had(r) \cap Published
               /\ r \in since.rows /\ Had(r) = {rows[r].benefit} =>
                    {b \in Benefit : r \in cards[b]} = {rows[r].benefit} \cap Published
    BY DEF CardsCountEachOnce
  <2>2. /\ ask.uncounted = {}
        /\ \A b \in Benefit :
             IF b \in Published \ ask.uncounted
             THEN /\ \A s \in cards[b] : <<s, b>> \in since.had
                  /\ \A s \in since.rows :
                       Had(s) = {rows[s].benefit} => (s \in cards[b] <=> rows[s].benefit = b)
             ELSE cards[b] = {}
    BY <2>1 DEF ReportsInv, CardState
  <2>3. Published \subseteq Benefit
    BY ReportsAssumption
  <2>4. {b \in Benefit : r \in cards[b]} \subseteq Had(r) \cap Published
    BY <2>2 DEF Had
  <2>5. ASSUME r \in since.rows, Had(r) = {rows[r].benefit}
        PROVE  {b \in Benefit : r \in cards[b]} = {rows[r].benefit} \cap Published
    BY <2>2, <2>3, <2>5
  <2>6. QED BY <2>4, <2>5
<1>2. QED BY <1>1, ReportsInvHolds, PTL

\* No value of an application is missing from the columns of a "*" report, however
\* many fields there are (resolveDynamicFields, generateCsvRows).
THEOREM ValuesAreExported == Spec => []EveryValueHasItsColumn
<1>1. ReportsInv => EveryValueHasItsColumn
  BY ValuesHaveColumns DEF ReportsInv
<1>2. QED BY <1>1, ReportsInvHolds, PTL

\* The amount in a line of a report is the sum of the amounts beside it, whatever the
\* rules, as long as each has a column of its own and no PATCH wrote amounts into the
\* application since it was calculated (doBenefitCalculations).
THEOREM ExportedAmountsAddUp == Spec => []AmountIsSumOfColumns
<1>1. ReportsInv => AmountIsSumOfColumns
  BY LinesAddUp DEF ReportsInv
<1>2. QED BY <1>1, ReportsInvHolds, PTL
=============================================================================
