------------------------------- MODULE MCCrons ------------------------------
(***************************************************************************)
(* Small instances of Crons.                                               *)
(***************************************************************************)
EXTENDS Crons
=============================================================================
