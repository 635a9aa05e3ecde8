---------------------------- MODULE MCNodeIngest ----------------------------
(***************************************************************************)
(* Instances of NodeIngest for TLC.                                        *)
(***************************************************************************)
EXTENDS NodeIngest

\* A node that comes back with another build, whose packets are longer.
OtherBuild == [b \in Boots |-> b + 1]
=============================================================================
