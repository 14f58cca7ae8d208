------------------------------ MODULE MCIntake ------------------------------
(***************************************************************************)
(* Small instances of Intake.                                              *)
(***************************************************************************)
EXTENDS Intake, TLC

\* The names of calls are interchangeable; used by safety runs only.
Symmetry == Permutations(Call)
=============================================================================
