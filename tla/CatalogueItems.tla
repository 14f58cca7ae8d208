--------------------------- MODULE CatalogueItems ---------------------------
(***************************************************************************)
(* How a benefit, as Strapi returns it, becomes an item of an ONEST        *)
(* catalogue: its price, and for search and select its tags.               *)
(*                                                                         *)
(* An element of a benefit (a criterion, a document, ...) is the value the *)
(* tag shows.  A monetary benefit is the amounts its description names,    *)
(* NoText if it has no description.  The wording of names is left out.     *)
(***************************************************************************)
EXTENDS Naturals, Sequences, SequencesExt

CONSTANTS
  Benefit,       \* documentId of the benefits
  Content,       \* Content[b]: the entry of benefit b
  NoText,        \* an attribute of an element that is not filled in
  Null           \* an element, or a part that is not a list but null

\* The entry of a benefit: eligibility criteria by their type, documents by
\* isRequired, monetary benefits by the amounts in their description, groups of
\* form fields, NoText for a group without fields, and whether both dates are null
\* or dates.
Entry(b) == Content[b]

-----------------------------------------------------------------------------

IsList(x) == Len(x) \in Nat /\ x = [k \in 1..Len(x) |-> x[k]]

\* What has no value in Strapi or no shape the code can read.
Missing == {NoText, Null}

\* Each part of an entry is a list; the formatters take null for the empty one, only
\* the total of the monetary benefits does not.
ASSUME ContentAssumption ==
  \A b \in Benefit :
    LET e == Entry(b) IN
    /\ IsList(e.eligibility) /\ IsList(e.documents)
    /\ IsList(e.exclusions) /\ IsList(e.sponsors) /\ IsList(e.form)
    /\ e.benefits # Null =>
         /\ IsList(e.benefits)
         /\ \A k \in DOMAIN e.benefits :
              e.benefits[k] \notin Missing => e.benefits[k] \in Seq(Nat)
    /\ \A g \in DOMAIN e.form : e.form[g] \notin Missing => IsList(e.form[g])

-----------------------------------------------------------------------------

\* calculateTotalBenefitValue: the running total of every amount of every description.
TotalValue(texts) ==
  LET amounts == FlattenSeq(texts)
      total[n \in 0..Len(amounts)] == IF n = 0 THEN 0 ELSE total[n - 1] + amounts[n]
  IN total[Len(amounts)]

\* Variant with a fault: a group without fields ends the form.
FieldsUpToAGap(groups) ==
  FlattenSeq([i \in 1..Len(groups) |->
    IF \E k \in 1..i : groups[k] = NoText THEN <<>>
      ELSE [j \in 1..Len(groups[i]) |-> [group |-> i, field |-> groups[i][j]]]])

\* formatApplicationForm: the fields of all groups with the group they are in.
FormFields(groups) ==
  FlattenSeq([i \in 1..Len(groups) |->
    IF groups[i] = NoText THEN <<>>
      ELSE [j \in 1..Len(groups[i]) |-> [group |-> i, field |-> groups[i][j]]]])

Tag(code, kinds, elements) == [code |-> code, kinds |-> kinds, list |-> elements]

\* What a formatter returns: null, filtered out of the tags, for a part without elements.
TagFor(part, code, kinds, elements) ==
  IF part = <<>> THEN <<>> ELSE <<Tag(code, kinds, elements)>>

\* One tag for each part that is not empty, one entry of its list for each
\* element, with the code of the entry where it depends on the element.
Tags(b) ==
  LET e == Entry(b)
      Each(part, kind) == [i \in 1..Len(part) |-> kind]
      needed == [i \in 1..Len(e.documents) |->
                   IF e.documents[i].isRequired THEN "mandatory-doc" ELSE "optional-doc"]
      fields == FormFields(e.form)
  IN TagFor(e.eligibility, "eligibility", e.eligibility, e.eligibility)
       \o TagFor(e.documents, "required-docs", needed, e.documents)
       \o TagFor(e.benefits, "benefits", Each(e.benefits, "financial"), e.benefits)
       \o TagFor(e.exclusions, "exclusions", Each(e.exclusions, "ineligibility"), e.exclusions)
       \o TagFor(e.sponsors, "sponsoringEntities", Each(e.sponsors, "sponsoringEntities"), e.sponsors)
       \o TagFor(e.form, "applicationForm", fields, fields)

\* What the mapping throws on: no list of monetary benefits or one without a
\* description to search for amounts, a date that is none; and with tags, a criterion
\* without a type to capitalise, or null for a criterion, a document or a form group.
Presentable(b, withTags) ==
  LET e == Entry(b) IN
  /\ e.dated
  /\ e.benefits # Null /\ \A i \in 1..Len(e.benefits) : e.benefits[i] \notin Missing
  /\ withTags => /\ \A i \in 1..Len(e.eligibility) : e.eligibility[i] \notin Missing
                 /\ \A i \in 1..Len(e.documents) : e.documents[i] # Null
                 /\ \A g \in 1..Len(e.form) : e.form[g] # Null

Item(b, withTags) ==
  [id |-> b, price |-> TotalValue(Entry(b).benefits),
   tags |-> IF withTags THEN Tags(b) ELSE <<>>]
=============================================================================
