--------------------------- MODULE CalculationRules ---------------------------
(***************************************************************************)
(* The calculation rules of a benefit, as doBenefitCalculations applies    *)
(* them to the data of an application.                                     *)
(*                                                                         *)
(* Applicant data is a function from the fields that are present to        *)
(* values, a value either a number or a text that is not one.  The names   *)
(* of the operators that evaluate a rule are those of the code.  Amounts   *)
(* of rules are whole numbers; a formula is a sum of products, the shape   *)
(* for which replacing names by values in its text and evaluating it agree *)
(* with arithmetic.                                                        *)
(***************************************************************************)
EXTENDS Integers, SequencesExt

IsNumber(v) == "number" \in DOMAIN v

\* JavaScript's Number(data[f]) || 0.
NumberOf(data, f) ==
  IF f \in DOMAIN data /\ IsNumber(data[f]) THEN data[f].number ELSE 0

Equal(data, f, v) == f \in DOMAIN data /\ data[f] = v

\* An order comparison is false on a missing field and between a text and a
\* number; two texts are not compared in this model.
Below(data, f, v) ==
  f \in DOMAIN data /\ IsNumber(data[f]) /\ IsNumber(v) /\ data[f].number < v.number
Above(data, f, v) ==
  f \in DOMAIN data /\ IsNumber(data[f]) /\ IsNumber(v) /\ data[f].number > v.number

\* One comparison of an expression; any operator but these six is false, '=='
\* included.
Holds(part, data) ==
  \/ part.op \in {"===", ">=", "<="} /\ Equal(data, part.key, part.value)
  \/ part.op = "!==" /\ ~Equal(data, part.key, part.value)
  \/ part.op \in {"<", "<="} /\ Below(data, part.key, part.value)
  \/ part.op \in {">", ">="} /\ Above(data, part.key, part.value)

\* All the comparisons found in the expression, whatever connects them; no
\* comparison, no match.
evaluateIfExpr(parts, data) == parts # {} /\ \A part \in parts : Holds(part, data)

Matches(condition, data) ==
  IF "ifExpr" \in DOMAIN condition
  THEN evaluateIfExpr(condition.ifExpr, data)
  ELSE \A k \in DOMAIN condition.if : Equal(data, k, condition.if[k])

\* A text among the variables makes the formula unsafe, which is caught: 0.
evaluateFormula(formula, data) ==
  LET Variable == {t.field : t \in {u \in UNION {ToSet(p) : p \in ToSet(formula)} :
                                      "field" \in DOMAIN u}}
      Term(t) == IF "field" \in DOMAIN t THEN NumberOf(data, t.field) ELSE t.number
      Product(p) == FoldLeft(LAMBDA n, t : n * Term(t), 1, p)
  IN IF \E f \in Variable \cap DOMAIN data : ~IsNumber(data[f]) THEN 0
     ELSE FoldLeft(LAMBDA n, p : n + Product(p), 0, formula)

\* The first element of s that satisfies Test decides; none, the amount is 0.
FirstAmount(s, Test(_), Amount(_)) ==
  LET i == SelectInSeq(s, Test) IN IF i = 0 THEN 0 ELSE Amount(s[i])

RuleAmount(rule, data) ==
  CASE rule.type = "fixed" -> rule.fixedValue
    [] rule.type = "lookup" ->
         FirstAmount(rule.lookupTable,
                     LAMBDA line : Equal(data, rule.input, line.match),
                     LAMBDA line : line.amount)
    [] rule.type = "conditional" ->
         FirstAmount(rule.conditions,
                     LAMBDA c : Matches(c, data),
                     LAMBDA c : IF "amount" \in DOMAIN c THEN c.amount
                                ELSE NumberOf(data, rule.input))  \* amount 'value'
    [] rule.type = "formula" -> evaluateFormula(rule.formula, data)
    [] OTHER -> 0

TotalPayout == "totalPayout"

\* The rule whose amount stays under output f: the last of those that have it.
LastFor(rules, f) == Max({i \in DOMAIN rules : rules[i].output = f})

\* Variant with a fault: the total is the amount of the last rule.
TotalOfTheLast(rules, data) ==
  [f \in {rules[i].output : i \in DOMAIN rules} \union {TotalPayout} |->
     IF f # TotalPayout THEN RuleAmount(rules[LastFor(rules, f)], data)
     ELSE IF rules = <<>> THEN 0 ELSE RuleAmount(Last(rules), data)]

\* The outputs by field, the later rule of a field replacing the earlier, and
\* the total of all rules, which is written last.
doBenefitCalculations(rules, data) ==
  LET amount == [i \in DOMAIN rules |-> RuleAmount(rules[i], data)]
  IN [f \in {rules[i].output : i \in DOMAIN rules} \union {TotalPayout} |->
        IF f = TotalPayout THEN SumFunction(amount) ELSE amount[LastFor(rules, f)]]

\* The outputs of these rules are columns of their own.
DistinctOutputs(rules) ==
  /\ \A i, j \in DOMAIN rules : rules[i].output = rules[j].output => i = j
  /\ \A i \in DOMAIN rules : rules[i].output # TotalPayout
=============================================================================
