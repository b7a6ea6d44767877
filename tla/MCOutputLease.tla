--------------------------- MODULE MCOutputLease ---------------------------
(* Instance of OutputLease for TLC: two processes with two OS threads each. *)
EXTENDS OutputLease, TLC

CONSTANTS p1, p2, t1, t2, s1, s2

MCProcesses == {p1, p2}
MCThreads == {t1, t2}
MCSwitchers == {s1, s2}

\* Processes, threads and switchers are interchangeable in every action and property.
Symmetry == Permutations(MCProcesses) \cup Permutations(MCThreads)
              \cup Permutations(MCSwitchers)
=============================================================================
