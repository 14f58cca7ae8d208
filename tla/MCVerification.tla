--------------------------- MODULE MCVerification ---------------------------
(***************************************************************************)
(* Small instances of Verification.                                        *)
(***************************************************************************)
EXTENDS Verification, TLC

\* The names of calls, and those of verifiers, are interchangeable.
Symmetry == Permutations(Call) \union Permutations(Verifier)
=============================================================================
