----------------------------- MODULE MCHaBridge -----------------------------
(***************************************************************************)
(* Instances of HaBridge for TLC.                                          *)
(***************************************************************************)
EXTENDS HaBridge

=============================================================================
