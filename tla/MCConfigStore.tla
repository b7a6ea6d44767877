--------------------------- MODULE MCConfigStore ---------------------------
(* Two wheels and two ranges; every store, with few operations and one      *)
(* failure and one damaged file among them.                                 *)
EXTENDS ConfigStore, TLC

CONSTANTS first, second, one, full, narrow

Wheels == Permutations(Keys)

=============================================================================
