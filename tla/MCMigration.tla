----------------------------- MODULE MCMigration -----------------------------
(* Instances of Migration for TLC. *)
EXTENDS Migration, TLC

CONSTANTS j1, j2

TwoTokens == {j1, j2}
Symmetry == Permutations(TwoTokens)

\* A journal that is cancelled too late is not followed further with a failure besides.
OneTrouble == late # {} => faults = 0 /\ deaths = 0
=============================================================================
