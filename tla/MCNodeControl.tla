--------------------------- MODULE MCNodeControl ---------------------------
(***************************************************************************)
(* Instances of NodeControl for TLC.                                       *)
(***************************************************************************)
EXTENDS NodeControl
=============================================================================
