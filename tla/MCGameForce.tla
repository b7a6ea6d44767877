----------------------------- MODULE MCGameForce -----------------------------
(* Small instances of GameForce. *)
EXTENDS GameForce

MCFrames == {[force |-> 2, allowed |-> TRUE], [force |-> 2, allowed |-> FALSE]}
MCTunings == {[smooth |-> TRUE, limit |-> 2]}
MCGains == {-2}
=============================================================================
