---------------------------- MODULE MCKeyRotation ----------------------------
(***************************************************************************)
(* Small instances of KeyRotation.                                         *)
(***************************************************************************)
EXTENDS KeyRotation
=============================================================================
