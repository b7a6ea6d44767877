---------------------------- MODULE MCWheelPage ----------------------------
(* Two ports, and two wheels of different families, of which one is there when  *)
(* the program starts.                                                        *)
EXTENDS WheelPage, TLC

CONSTANTS left, right

ModelsAre == [w \in Wheels |-> IF w = "first" THEN "G27" ELSE "DFGT"]
Places == Permutations({left, right})

MCInit == PageInit /\ \E p \in Ports : bus[p] # Nothing /\ bus[p].wheel = "first"
MCSpec == MCInit /\ [][PageNext]_pageVars

\* A refresh that reads, or has read, while results are saved is not followed further with a
\* failure besides.
OneTrouble == filling # Cold \/ missed # {} => faults = 0

=============================================================================
