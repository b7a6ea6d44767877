--------------------------- MODULE WheelCommands ---------------------------
(***************************************************************************)
(* What the wheel page orders from the hardware: a range, a test of force, a  *)
(* game session, a stop.  MotorOutput models how a writer runs and ends; here  *)
(* a command is one step of the user interface and a test or a session is a    *)
(* lease somebody uses.                                                      *)
(*                                                                         *)
(* A command maps what it finds, d, to the outcomes it can have: whether it    *)
(* succeeded and what it leaves.  d has the fields of Now, and those of the    *)
(* page that composes the commands.                                          *)
(***************************************************************************)
EXTENDS SelectedWheel

VARIABLES
  force,   \* what the motor of each port does
  narrow,  \* whether its range was narrowed
  lease,   \* the output lease: port, model and who uses it
  game     \* the status of the game session: its port and its tuning

motor == <<force, narrow, lease, game>>
Now == [force |-> force, narrow |-> narrow, lease |-> lease, game |-> game, faults |-> faults]
Becomes(d) ==
  /\ force' = d.force /\ narrow' = d.narrow /\ lease' = d.lease /\ game' = d.game
  /\ faults' = d.faults

Free == [use |-> "free"]
NoGame == [port |-> NoPort]
Workers == {"worker", "game"}   \* a lease that its user left without a proved stop is "left"

InitMotor ==
  /\ force = [p \in Ports |-> "none"] /\ narrow = [p \in Ports |-> FALSE]
  /\ lease = Free /\ game = NoGame

-----------------------------------------------------------------------------
(* Outcomes. *)

Ok(d) == {[ok |-> TRUE, d |-> d]}
Error(d) == {[ok |-> FALSE, d |-> d]}
Then(outcomes, next(_)) == UNION {IF o.ok THEN next(o.d) ELSE {o} : o \in outcomes}
Failing(outcomes) == UNION {Error(o.d) : o \in outcomes}

(* d after a fault, if there is one left.                                     *)
Faulty(ds) == UNION {Error([d EXCEPT !.faults = @ + 1]) : d \in {x \in ds : x.faults < MaxFaults}}

(* A write that fails may have arrived.                                       *)
Write(d, opens, arrived, done) == IF opens THEN Ok(done) \cup Faulty({d, arrived}) ELSE Error(d)
StoreFile(d, done) == Ok(done) \cup Faulty({d})

-----------------------------------------------------------------------------
(* Stops. *)

(* The lease keeps the path and the model it was taken with.                   *)
LeaseOpens(l) ==
  bus[l.port] # Nothing /\ bus[l.port].mode = "native" /\ ModelOf[bus[l.port].wheel] = l.model

nativeOutputSafeStopLease(d) ==
  LET held == [d EXCEPT !.lease.use = "left"]
      still == [held EXCEPT !.force[d.lease.port] = "none"]
      over == [still EXCEPT !.lease = Free, !.game = IF d.lease.use = "game" THEN NoGame ELSE @]
  IN  Write(held, LeaseOpens(d.lease), still, over)

(* A worker neutralizes the wheel itself.  A session whose stop failed keeps its  *)
(* status, and nobody clears it later.                                        *)
stopNativeFFBSession(d) ==
  IF d.lease.use \in Workers THEN nativeOutputSafeStopLease(d) ELSE Ok(d)

(* After a worker gave its lease back, the neutral reports go to the wheel the  *)
(* caller's state has selected.                                               *)
SelectedNeutral(d, s) ==
  IF HasActionableSelectedWheel(s)
  THEN LET still == [d EXCEPT !.force[s.stored] = "none"] IN Write(d, PathOpens(s, s.stored), still, still)
  ELSE Error(d)

NativeOutputEmergencyStop(d, s) ==
  CASE d.lease = Free -> Ok(d)
    [] d.lease.use \in Workers ->
         Then(stopNativeFFBSession(d), LAMBDA e : SelectedNeutral(e, s))
    [] d.lease.use \in {"timer", "left"} -> nativeOutputSafeStopLease(d)

-----------------------------------------------------------------------------
(* Commands. *)

validateNativeOutputTarget(s) ==
  Cardinality(Attached(s.seen)) = 1 /\ HasActionableSelectedWheel(s) /\ SelectedWheel(s).mode = "native"

MayLease(d, s) == d.lease = Free /\ validateNativeOutputTarget(s)
LeaseOf(s, use) == [port |-> s.stored, model |-> ModelOf[SelectedWheel(s).wheel], use |-> use]

ProbeNativeOutputTransport(d, s) ==
  IF MayLease(d, s) THEN Write(d, PathOpens(s, s.stored), d, d) ELSE Error(d)

(* The LEDs of the wheel, which nothing here tells apart.                       *)
NativeOutputSetLEDs(d, s) ==
  IF MayLease(d, s) /\ WheelModel(s) = "G27" THEN Write(d, PathOpens(s, s.stored), d, d) ELSE Error(d)

NativeOutputApplyRange(d, s, value) ==
  IF MayLease(d, s)
  THEN LET set == [d EXCEPT !.narrow[s.stored] = value] IN Write(d, PathOpens(s, s.stored), set, set)
  ELSE Error(d)

(* Driving the motor under a new lease.  A start whose write failed is stopped;  *)
(* only the autocenter test needs no handle before its first write.             *)
Drive(d, s, use, what) ==
  LET held == [d EXCEPT !.lease = LeaseOf(s, "left")]
      driven == [held EXCEPT !.force[s.stored] = what]
      Abort(e) == Failing(nativeOutputSafeStopLease(e))
  IN  IF ~MayLease(d, s) THEN Error(d)
      ELSE IF PathOpens(s, s.stored)
      THEN Ok([driven EXCEPT !.lease.use = use]) \cup UNION {Abort(o.d) : o \in Faulty({held, driven})}
      ELSE IF use = "timer" THEN Abort(held) ELSE Error(d)

(* StartNativeConstantForceTest and the condition tests use a worker, the        *)
(* autocenter test a timer.                                                    *)
StartTest(d, s, use) ==
  Then(NativeOutputEmergencyStop(d, s), LAMBDA e : Drive(e, s, use, "effect"))

(* A constant force to the left is refused, after the stop.                      *)
StartTestToTheLeft(d, s) == Then(NativeOutputEmergencyStop(d, s), LAMBDA e : Error(e))

(* Only a worker is stopped for a session.                                      *)
StartFusionC6GameOutput(d, s, tuning) ==
  Then(Then(stopNativeFFBSession(d), LAMBDA e : Drive(e, s, "game", "game")),
       LAMBDA e : Ok([e EXCEPT !.game = [port |-> s.stored, tuning |-> tuning]]))

StopFusionC6GameOutput(d) ==
  IF d.game = NoGame THEN Ok(d)
  ELSE Then(stopNativeFFBSession(d), LAMBDA e : Ok([e EXCEPT !.game = NoGame]))

(* The end of a test, and of a session whose write failed.                      *)
OutputEnds ==
  /\ lease.use \in Workers \cup {"timer"}
  /\ \E o \in nativeOutputSafeStopLease(Now) : Becomes(o.d)
  /\ UNCHANGED <<bus, app, tool, plugs, acts>>

(* A wheel that is unplugged loses what it was set to.                          *)
UnplugMotor(p) ==
  /\ Unplug(p)
  /\ force' = [force EXCEPT ![p] = "none"] /\ narrow' = [narrow EXCEPT ![p] = FALSE]
  /\ UNCHANGED <<lease, game>>

CommandsNext == OutputEnds \/ \E p \in Ports : UnplugMotor(p)

=============================================================================
