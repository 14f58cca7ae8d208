-------------------------- MODULE MCAdministration --------------------------
(***************************************************************************)
(* Small instances of Administration.                                      *)
(***************************************************************************)
EXTENDS Administration, TLC

\* Calls, and people other than the administrator, are interchangeable.
Symmetry == Permutations(Call) \union Permutations(Person \ {Root})
=============================================================================
