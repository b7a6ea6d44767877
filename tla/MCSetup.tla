------------------------------ MODULE MCSetup ------------------------------
(* Pages before, at and behind the migration, with one page of each kind of *)
(* buttons; two boxes, one for each window; a settings file that may be      *)
(* damaged before each of two starts; one migration.                         *)
EXTENDS Setup, TLC

=============================================================================
