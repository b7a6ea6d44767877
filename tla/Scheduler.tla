------------------------------ MODULE Scheduler ------------------------------
(***************************************************************************)
(* The force scheduler: WheelOutput and FFBEngine in                       *)
(* src/internal/wheelengine/ffb_scheduler.go, a copy of which is in        *)
(* src/internal/openg27port/scheduler.go.                                  *)
(*                                                                         *)
(* A goroutine pumps every tick: it asks the source for a frame, moves the *)
(* force towards it by at most MaxSlewPerTick, and then sends the force    *)
(* again, or zero when no frame has come for longer than the watchdog. The *)
(* starter pumps once by itself before. Stop waits for the goroutine and   *)
(* brings the force back to zero.                                          *)
(*                                                                         *)
(* Forces are integers from -Full to Full. Where the frame comes from is   *)
(* the matter of the module that extends this one.                         *)
(***************************************************************************)
EXTENDS Integers

CONSTANTS Full,         \* the force 1.0
          Slew,         \* MaxSlewPerTick
          Watchdog,     \* ticks without a frame after which the force is zero
          MaxFailures   \* bound on reports that are not written

ASSUME SchedulerAssumption ==
  /\ Full \in Nat \ {0} /\ Slew \in Nat \ {0}
  /\ Watchdog \in Nat /\ MaxFailures \in Nat

VARIABLES
  output,   \* WheelOutput: the force, and the ticks since its last update
  wheel,    \* the force in the last report that reached the wheel
  engine,   \* FFBEngine and its goroutine
  failures

schedulerVars == <<output, wheel, engine, failures>>

Clamp(v, lo, hi) == IF v < lo THEN lo ELSE IF v > hi THEN hi ELSE v
Abs(v) == IF v < 0 THEN -v ELSE v

NoOutput == [force |-> 0, quiet |-> 0]
NoEngine == [running |-> FALSE, cancelled |-> FALSE, at |-> "off", failed |-> FALSE]

\* "frame" and "shape" are inside the source's TryGetFrame.
SchedulerTypeOK ==
  /\ output \in [force : -Full..Full, quiet : 0..Watchdog + 1]
  /\ wheel \in -Full..Full
  /\ engine \in [running : BOOLEAN, cancelled : BOOLEAN,
                 at : {"off", "pump", "frame", "shape", "wait"}, failed : BOOLEAN]
  /\ failures \in 0..MaxFailures

SchedulerInit ==
  /\ output = NoOutput /\ wheel = 0 /\ engine = NoEngine /\ failures = 0

\* NewWheelOutput and NewFFBEngine; the starter then pumps once.
Create ==
  /\ output' = NoOutput
  /\ engine' = [NoEngine EXCEPT !.at = "pump"]
  /\ UNCHANGED <<wheel, failures>>

StepToward(force, target) ==
  force + Clamp(Clamp(target, -Full, Full) - force, -Slew, Slew)

\* writeLocked: the report reaches the wheel, or the write fails. The engine goes on either way;
\* only the starter looks at the error of its own pump.
Write(v, next) ==
  \/ wheel' = v /\ UNCHANGED failures /\ engine' = next
  \/ /\ failures < MaxFailures /\ failures' = failures + 1
     /\ UNCHANGED wheel
     /\ engine' = [next EXCEPT !.failed = ~engine.running /\ ~engine.cancelled]

\* PumpOnce with a frame: SetForce, which is also the heartbeat of the source, and then Tick, for
\* which the watchdog has just been reset, sends the force. Nothing else writes between the two.
SetForce(target) ==
  LET force == StepToward(output.force, target) IN
  /\ output' = [force |-> force, quiet |-> 0]
  /\ Write(force, [engine EXCEPT !.at = "wait"])

\* PumpOnce without a frame: only Tick.
\* Mutant: the watchdog only ends a force to the right.
OverdueRight == output.quiet > Watchdog /\ output.force > 0
Overdue == output.quiet > Watchdog
Tick ==
  LET force == IF Overdue THEN 0 ELSE output.force IN
  /\ output' = [output EXCEPT !.force = force]
  /\ Write(force, [engine EXCEPT !.at = "wait"])

\* The starter's pump did not fail: Start runs the goroutine.
Run ==
  /\ engine.at = "wait" /\ ~engine.running /\ ~engine.cancelled /\ ~engine.failed
  /\ engine' = [engine EXCEPT !.running = TRUE, !.at = "pump"]
  /\ UNCHANGED <<output, wheel, failures>>

\* Stop closes the cancel channel; the goroutine sees it between two pumps, perhaps after one
\* more, because a select with two ready channels takes either.
Cancel ==
  /\ engine' = [engine EXCEPT !.running = FALSE, !.cancelled = TRUE]
  /\ UNCHANGED <<output, wheel, failures>>
End ==
  /\ engine.at = "wait" /\ engine.cancelled
  /\ engine' = [engine EXCEPT !.at = "off"]
  /\ UNCHANGED <<output, wheel, failures>>

\* The ticker: all pumps are over when it fires.
Ticks ==
  /\ engine.at \in {"off", "wait"} /\ (engine.at = "wait" => engine.running \/ engine.cancelled)
  /\ output' = [output EXCEPT !.quiet = IF engine.at = "off" THEN 0 ELSE IF @ > Watchdog THEN @ ELSE @ + 1]
  /\ engine' = IF engine.at = "off" THEN engine ELSE [engine EXCEPT !.at = "pump"]
  /\ UNCHANGED <<wheel, failures>>

\* Mutant: Stop does not wait for the goroutine.
DoneAlways == TRUE
Done == engine.at = "off"

\* Panic: a stop report, the way back to zero in steps, and a neutral report whatever failed.
\* Failing reports leave what the wheel had, or one of the steps.
Panic ==
  /\ output' = NoOutput
  /\ \/ /\ wheel' = 0 /\ UNCHANGED failures
        /\ engine' = [engine EXCEPT !.failed = FALSE]
     \/ /\ failures < MaxFailures /\ failures' = failures + 1
        /\ wheel' \in {wheel} \cup {v \in -Full..Full : v * output.force >= 0 /\ Abs(v) <= Abs(output.force)}
        /\ engine' = [engine EXCEPT !.failed = TRUE]
=============================================================================
