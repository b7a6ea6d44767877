---------------------------- MODULE MCSelection ----------------------------
(* Two wheels of different models, of which one reports a serial number. *)
EXTENDS Selection, TLC

CONSTANTS left, right

ModelsAre == [w \in Wheels |-> IF w = "first" THEN "G27" ELSE "G25"]
Places == Permutations({left, right})

=============================================================================
