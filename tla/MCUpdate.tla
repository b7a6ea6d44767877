------------------------------- MODULE MCUpdate -------------------------------
(* Instances of Update for TLC. *)
EXTENDS Update

CONSTANTS p1, p2

MCPids == {p1, p2}
AllKinds == {"standalone", "installed"}
=============================================================================
