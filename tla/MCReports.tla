------------------------------ MODULE MCReports ------------------------------
(***************************************************************************)
(* A small instance of Reports.                                            *)
(***************************************************************************)
EXTENDS Reports

CONSTANTS b1, b2, b3

\* The published benefits differ in nothing but their names.
Cards == Permutations({b1, b2})

Num(n) == [number |-> n]

\* Applicant data: all numbers; a text where a number is expected and the fields
\* that the export renames; a missing field and an Aadhaar sent as a number.
Numbers == [grade |-> Num(9), fee |-> Num(2)]
Texts == [grade |-> Num(10), fee |-> [text |-> "two"],
          otr |-> [text |-> "O"], nspOtr |-> [text |-> "N"]]
Partial == [fee |-> Num(3), aadhaar |-> Num(7)]

MCProfiles == {Numbers, Texts, Partial}
MCStored == <<Numbers, Texts>>

Separate == <<
  [type |-> "fixed", output |-> "base", fixedValue |-> 1],
  [type |-> "conditional", output |-> "tuition", input |-> "fee",
   conditions |-> <<
     [ifExpr |-> {[key |-> "grade", op |-> ">=", value |-> Num(10)]}, amount |-> 5],
     [if |-> [grade |-> Num(9)]] >>],
  [type |-> "formula", output |-> "books",
   formula |-> << <<[field |-> "fee"], Num(2)>>, <<Num(1)>> >>] >>

Shared == <<
  [type |-> "lookup", output |-> "grant", input |-> "grade",
   lookupTable |-> <<[match |-> Num(9), amount |-> 4]>>],
  [type |-> "fixed", output |-> "grant", fixedValue |-> 2] >>

MCRuleSets == {Separate, Shared}
\* Amounts with a name of their own and without the total.
MCPatchedAmounts == {[granted |-> 3]}

\* No filter would be one that no row leaves by its status; the eligibility report has none.
MCFilters == {{"initiated"}}
=============================================================================
