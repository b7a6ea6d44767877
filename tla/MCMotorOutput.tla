---------------------------- MODULE MCMotorOutput ----------------------------
(* Instances of MotorOutput for TLC: who calls what. *)
EXTENDS MotorOutput

CONSTANTS ui, refresh

JustUI == {ui}
UIAndRefresh == {ui, refresh}

\* The UI thread with all motors, a recovery within a session and every kind of stop,
\* beside the refresh goroutine, which ends the output of a game that is over.
Sessions ==
  [t \in UIAndRefresh |->
     IF t = ui
     THEN {"slot", "spring", "game", "range", "emergency", "lifecycle", "release", "recover"}
     ELSE {"gamestop"}]

\* The UI thread with tests, LEDs and profile changes.
Tests == [t \in JustUI |-> {"slot", "spring", "game", "leds", "apply", "emergency"}]

=============================================================================
