----------------------------- MODULE MCHidSession -----------------------------
(* Instances of HidSession for TLC. *)
EXTENDS HidSession

CONSTANTS ui, worker, h1, h2

MCCallers == {ui, worker}
MCHandles == {h1, h2}

\* The UI polls the wheel and drives the motor; the worker drives the motor and
\* switches the mode, which closes both sessions.
PollAndWrite == [t \in MCCallers |-> IF t = ui THEN {"read", "write"} ELSE {"write", "switch"}]

\* A G27 alone, or beside the session of another wheel.
JustG27 == {"g27"}
=============================================================================
