----------------------------- MODULE MCLifecycle -----------------------------
(***************************************************************************)
(* Small instances of Lifecycle.                                           *)
(***************************************************************************)
EXTENDS Lifecycle, TLC

\* The names of calls are interchangeable; used by safety runs only.
Symmetry == Permutations(Call)
=============================================================================
