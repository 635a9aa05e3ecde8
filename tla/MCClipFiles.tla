---------------------------- MODULE MCClipFiles ----------------------------
(***************************************************************************)
(* Instances of ClipFiles for TLC.                                         *)
(***************************************************************************)
EXTENDS ClipFiles, TLC
=============================================================================
