------------------------------ MODULE MotorOutput ------------------------------
(***************************************************************************)
(* The output coordinator of one LogiMate process: how a motor session is  *)
(* started, driven, stopped and recovered.                                 *)
(*                                                                         *)
(* Four kinds of goroutine share the lease, the recovery marker on disk    *)
(* and the status blocks nativeFFB, nativeOutput and fusionC6:             *)
(*   - callers: the UI thread and the state-refresh goroutine;             *)
(*   - one worker per FFB session (constant-force, condition and game      *)
(*     sessions), which keeps writing force until it is cancelled;         *)
(*   - the time.AfterFunc callback that ends an autocenter test.           *)
(* A step is one critical section, one HID transaction or one file         *)
(* operation. A session is identified by the generation of its lease,      *)
(* which stands for nativeFFB.generation as well: both are fresh for every *)
(* session, and they are only compared for equality.                       *)
(***************************************************************************)
EXTENDS Naturals

CONSTANTS Callers,     \* threads that call the coordinator
          UI,          \* the caller that runs the message loop
          Operations,  \* the operations each caller issues
          Orphan,      \* who drives a motor that outlived its process
          WorkersHang, \* a worker may take more than two seconds, or for ever, to stop
          MaxGen,      \* bound on the leases one process issues
          MaxFaults,   \* bound on failed writes and failed marker operations
          MaxCrashes   \* bound on process ends

\* slot: constant-force or condition test; spring: autocenter test; game, leds: C6
\* game output with and without force; apply: an engine profile from the refresh.
Ops == {"slot", "spring", "game", "leds", "range", "emergency", "lifecycle",
        "release", "gamestop", "apply", "recover"}

Gens == 1..MaxGen
Worker(g) == <<"worker", g>>
Watchdog(g) == <<"watchdog", g>>
Workers == {Worker(g) : g \in Gens}
Watchdogs == {Watchdog(g) : g \in Gens}
Threads == Callers \cup Workers \cup Watchdogs

ASSUME MotorAssumption ==
  /\ UI \in Callers
  /\ Operations \in [Callers -> SUBSET Ops]
  /\ MaxGen \in Nat /\ MaxFaults \in Nat /\ MaxCrashes \in Nat
  /\ WorkersHang \in BOOLEAN
  /\ Orphan \notin Nat
  /\ Callers \cap (Workers \cup Watchdogs) = {}

VARIABLES
  force,       \* session whose effect the FFB slots play, 0 for none
  spring,      \* session whose autocenter spring is on, 0 for none
  marker,      \* runtime-output.pending exists
  lease,       \* generation of nativeOutputLease.token, 0 for nil
  generation,  \* nativeOutputLease.generation
  kind,        \* what each generation was acquired for
  ffb,         \* nativeFFB: session, cancel and done not nil, status
  closed,      \* sessions whose cancel channel is closed
  game,        \* fusionC6.status: active and its generation
  out,         \* nativeOutput: status.Active, and the session of the timer
  pc,          \* the next step of each thread
  op,          \* the operation a caller executes
  tok,         \* the lease token a thread holds a copy of, 0 for Generation 0
  awaited,     \* the session whose done channel a caller captured
  err,         \* the error a thread carries
  faults, crashes

device == <<force, spring>>
ownership == <<lease, generation, kind>>
session == <<ffb, closed, game>>
locals == <<op, tok, awaited>>
vars == <<device, marker, ownership, session, out, pc, locals, err, faults, crashes>>

Kinds == {"none", "slot", "spring", "game", "leds", "range"}
Motor(g) == kind[g] \in {"slot", "spring", "game"}

Labels == {"idle", "survey", "stop", "wait", "besteffort", "target", "neutral",
           "unmark", "unlease", "record", "conclude", "acquire", "mark", "write",
           "drop", "register", "publish", "announce", "arm", "recover", "forget",
           "gamestopped", "ok", "error",
           "armed", "run", "halt", "hung", "reportgame", "report", "exit", "closed"}

Stages == Ops \cup {"none", "abort", "springabort"}

TypeOK ==
  /\ force \in {0, Orphan} \cup Gens
  /\ spring \in {0, Orphan} \cup Gens
  /\ marker \in BOOLEAN
  /\ lease \in 0..MaxGen
  /\ generation \in 0..MaxGen
  /\ kind \in [Gens -> Kinds]
  /\ ffb \in [session : 0..MaxGen, cancel : BOOLEAN, done : BOOLEAN,
              active : BOOLEAN, stopping : BOOLEAN]
  /\ closed \subseteq Gens
  /\ game \in [session : 0..MaxGen, active : BOOLEAN]
  /\ out \in [active : BOOLEAN, timer : 0..MaxGen]
  /\ pc \in [Threads -> Labels]
  /\ op \in [Callers -> Stages]
  /\ tok \in [Threads -> 0..MaxGen]
  /\ awaited \in [Callers -> 0..MaxGen]
  /\ err \in [Threads -> BOOLEAN]
  /\ faults \in 0..MaxFaults
  /\ crashes \in 0..MaxCrashes

\* The memory of a process that has just started: the first completed refresh
\* makes its UI thread look for a marker (msgStateReady).
NoKind == [g \in Gens |-> "none"]
NoFFB == [session |-> 0, cancel |-> FALSE, done |-> FALSE,
          active |-> FALSE, stopping |-> FALSE]
NoGame == [session |-> 0, active |-> FALSE]
NoOut == [active |-> FALSE, timer |-> 0]
Boot == [t \in Threads |-> IF t = UI THEN "recover" ELSE "idle"]
NoOp == [t \in Callers |-> IF t = UI THEN "recover" ELSE "none"]
OwnToken == [t \in Threads |-> IF t \in Callers THEN 0 ELSE t[2]]
NoneAwaited == [t \in Callers |-> 0]
NoError == [t \in Threads |-> FALSE]

Init ==
  /\ force = 0 /\ spring = 0 /\ marker = FALSE
  /\ lease = 0 /\ generation = 0 /\ kind = NoKind
  /\ ffb = NoFFB /\ closed = {} /\ game = NoGame /\ out = NoOut
  /\ pc = Boot /\ op = NoOp /\ tok = OwnToken /\ awaited = NoneAwaited /\ err = NoError
  /\ faults = 0 /\ crashes = 0

\* The process ends. Token and threads are gone, the marker stays on disk, and
\* the wheel goes on playing what it was last told.
Crash ==
  LET left(s) == IF s = 0 THEN 0 ELSE Orphan
  IN /\ crashes < MaxCrashes
     /\ crashes' = crashes + 1
     /\ force' = left(force) /\ spring' = left(spring)
     /\ lease' = 0 /\ generation' = 0 /\ kind' = NoKind
     /\ ffb' = NoFFB /\ closed' = {} /\ game' = NoGame /\ out' = NoOut
     /\ pc' = Boot /\ op' = NoOp /\ tok' = OwnToken /\ awaited' = NoneAwaited
     /\ err' = NoError
     /\ UNCHANGED <<marker, faults>>

-----------------------------------------------------------------------------
(* Pieces of steps.                                                        *)

Goto(t, l) == pc' = [pc EXCEPT ![t] = l]

Fault == faults < MaxFaults /\ faults' = faults + 1

\* neutralReportsForModel reaches the wheel as a whole, or fails at one report.
Neutralised == force' = 0 /\ spring' = 0 /\ UNCHANGED faults
NeutralFails == Fault /\ force' \in {force, 0} /\ spring' \in {spring, 0}

\* stopWatchdogLocked: a callback that has fired already is not called back.
Unwatched ==
  IF out.timer # 0 /\ pc[Watchdog(out.timer)] = "armed"
  THEN [pc EXCEPT ![Watchdog(out.timer)] = "idle"] ELSE pc

\* Where a nil result of EmergencyStop or Release takes its caller.
AfterStop(o) ==
  CASE o \in {"slot", "spring", "apply"} -> "acquire"
    [] o = "lifecycle" -> "stop"
    [] OTHER -> "ok"

Continue(t, labels) ==
  /\ pc' = [labels EXCEPT ![t] = AfterStop(op[t])]
  /\ op' = [op EXCEPT ![t] = IF @ = "lifecycle" THEN "release" ELSE @]

\* The operations that stop with NativeOutputEmergencyStop first.
Stops(o) == o \in {"slot", "spring", "apply", "emergency", "lifecycle"}

-----------------------------------------------------------------------------
(* Calls and their results.                                                *)

FirstStep(o) ==
  CASE o = "lifecycle" -> IF out.active \/ ffb.active \/ lease # 0 THEN "survey" ELSE "stop"
    [] o \in {"slot", "spring", "apply", "emergency"} -> "survey"
    [] o \in {"game", "leds", "release", "gamestop"} -> "stop"
    [] o = "range" -> "acquire"
    [] o = "recover" -> "recover"

Call(t, o) ==
  /\ pc[t] = "idle"
  /\ o \in Operations[t]
  /\ o = "gamestop" => game.active
  /\ Goto(t, FirstStep(o))
  /\ op' = [op EXCEPT ![t] = IF o = "lifecycle" /\ FirstStep(o) = "stop" THEN "release" ELSE o]
  /\ tok' = [tok EXCEPT ![t] = IF o = "gamestop" THEN game.session ELSE 0]
  /\ UNCHANGED <<device, marker, ownership, session, out, awaited, err, faults, crashes>>

\* The call returns, and its locals with it.
Return(t) ==
  /\ pc[t] \in {"ok", "error"}
  /\ Goto(t, "idle")
  /\ op' = [op EXCEPT ![t] = "none"]
  /\ tok' = [tok EXCEPT ![t] = 0]
  /\ awaited' = [awaited EXCEPT ![t] = 0]
  /\ err' = [err EXCEPT ![t] = FALSE]
  /\ UNCHANGED <<device, marker, ownership, session, out, faults, crashes>>

-----------------------------------------------------------------------------
(* NativeOutputEmergencyStop, NativeOutputRelease, stopNativeFFBSession.   *)

\* Mutant: a marker alone is no reason to stop anything.
NothingRunning == lease = 0 /\ ~ffb.active /\ ~ffb.stopping /\ ~out.active

NothingToStop == NothingRunning /\ ~marker

\* The snapshots at the head of NativeOutputEmergencyStop, taken in one step.
Survey(t) ==
  /\ pc[t] = "survey"
  /\ tok' = [tok EXCEPT ![t] = lease]
  /\ IF NothingToStop
     THEN Continue(t, pc)
     ELSE Goto(t, "stop") /\ UNCHANGED op
  /\ UNCHANGED <<device, marker, ownership, session, out, awaited, err, faults, crashes>>

\* What follows when no worker is left to wait for.
Stopped(o) ==
  CASE Stops(o) \/ o = "release" -> "target"
    [] o \in {"game", "leds"} -> "acquire"
    [] OTHER -> "gamestopped"

\* What follows when the worker's end is not confirmed.
Unstopped(o) ==
  CASE Stops(o) \/ o = "release" -> "besteffort"
    [] o \in {"game", "leds"} -> "error"
    [] OTHER -> "gamestopped"

\* Mutant: closes the cancel channel without asking whether it is nil.
ClosedAnyway == closed \cup {ffb.session}

ClosedNow == IF ffb.cancel THEN closed \cup {ffb.session} ELSE closed

CancelSession(t) ==
  /\ pc[t] = "stop"
  /\ closed' = ClosedNow
  /\ ffb' = [ffb EXCEPT !.cancel = FALSE, !.stopping = @ \/ ffb.cancel]
  /\ awaited' = [awaited EXCEPT ![t] = IF ffb.done THEN ffb.session ELSE 0]
  /\ Goto(t, IF ffb.done THEN "wait" ELSE Stopped(op[t]))
  /\ UNCHANGED <<device, marker, ownership, game, out, op, tok, err, faults, crashes>>

\* done is closed: the stop is confirmed unless the worker kept its lease.
WorkerEnded(t) ==
  /\ pc[t] = "wait"
  /\ pc[Worker(awaited[t])] = "closed"
  /\ IF lease = awaited[t]
     THEN /\ ffb' = [ffb EXCEPT !.active = TRUE, !.stopping = FALSE]
          /\ err' = [err EXCEPT ![t] = TRUE]
          /\ Goto(t, Unstopped(op[t]))
     ELSE /\ ffb' = [ffb EXCEPT !.stopping = FALSE]
          /\ Goto(t, Stopped(op[t]))
          /\ UNCHANGED err
  /\ UNCHANGED <<device, marker, ownership, closed, game, out, locals, faults, crashes>>

\* Mutant: the select has no time limit.
WaitForEver(t) == FALSE

\* Two seconds have passed; the select may prefer this although done is closed.
WorkerTimeout(t) ==
  /\ pc[t] = "wait"
  /\ WorkersHang
  /\ ffb' = [ffb EXCEPT !.active = TRUE, !.stopping = FALSE]
  /\ err' = [err EXCEPT ![t] = TRUE]
  /\ Goto(t, Unstopped(op[t]))
  /\ UNCHANGED <<device, marker, ownership, closed, game, out, locals, faults, crashes>>

\* nativeOutputBestEffortNeutralizeLease, on the lease that was surveyed or on
\* the one there is now: neither marker nor lease is touched.
BestEffort(t) ==
  /\ pc[t] = "besteffort"
  /\ IF tok[t] # 0 \/ lease # 0
     THEN /\ Neutralised \/ NeutralFails
          /\ out' = [out EXCEPT !.active = TRUE]
     ELSE UNCHANGED <<device, out, faults>>
  /\ Goto(t, "error")
  /\ UNCHANGED <<marker, ownership, session, locals, err, crashes>>

\* emergencyOutputTarget: the current lease, or else the selected wheel, if it
\* can be resolved. NativeOutputRelease takes the current lease or is done.
Target(t) ==
  /\ pc[t] = "target"
  /\ tok' = [tok EXCEPT ![t] = lease]
  /\ \/ lease # 0 /\ Goto(t, "neutral")
     \/ lease = 0 /\ op[t] = "release" /\ Goto(t, "conclude")
     \/ lease = 0 /\ op[t] # "release" /\ pc' \in {[pc EXCEPT ![t] = l] : l \in {"neutral", "error"}}
  /\ UNCHANGED <<device, marker, ownership, session, out, op, awaited, err, faults, crashes>>

\* The end of NativeOutputRelease.
Conclude(t) ==
  /\ pc[t] = "conclude"
  /\ out' = [active |-> FALSE, timer |-> 0]
  /\ pc' = [Unwatched EXCEPT ![t] = "ok"]
  /\ UNCHANGED <<device, marker, ownership, session, locals, err, faults, crashes>>

-----------------------------------------------------------------------------
(* nativeOutputSafeStopLease, by a caller or a watchdog callback, and       *)
(* completeNativeMotorStop, which the workers share with it.               *)

Settled(t) == IF t \in Workers
              THEN IF kind[tok[t]] = "slot" THEN "report" ELSE "reportgame"
              ELSE "record"

\* After confirmed neutral reports: marker, then lease. A generation-0 token is of a
\* motor, a lease may be one of LEDs or of a range, which have no marker.
Completed(t) == IF tok[t] = 0 \/ Motor(tok[t]) THEN "unmark" ELSE "unlease"

\* Mutant: the error of the neutral reports is ignored.
WriteNeutralUnchecked(t) ==
  /\ pc[t] = "neutral"
  /\ Neutralised \/ NeutralFails
  /\ Goto(t, Completed(t))
  /\ UNCHANGED <<marker, ownership, session, out, locals, err, crashes>>

WriteNeutral(t) ==
  /\ pc[t] = "neutral"
  /\ \/ Neutralised /\ Goto(t, Completed(t)) /\ UNCHANGED err
     \/ /\ NeutralFails
        /\ Goto(t, Settled(t))
        /\ err' = [err EXCEPT ![t] = TRUE]
  /\ UNCHANGED <<marker, ownership, session, out, locals, crashes>>

ClearMarker(t) ==
  /\ pc[t] = "unmark"
  /\ \/ /\ marker' = FALSE
        /\ Goto(t, "unlease")
        /\ UNCHANGED <<err, faults>>
     \/ /\ Fault
        /\ Goto(t, Settled(t))
        /\ err' = [err EXCEPT ![t] = TRUE]
        /\ UNCHANGED marker
  /\ UNCHANGED <<device, ownership, session, out, locals, crashes>>

\* Mutant: the generation of the copy is not compared.
ReleasedAnyway(g) == lease' = 0

\* releaseNativeOutputLease of the copy g: only the current generation is dropped.
Released(g) == lease' = IF lease = g THEN 0 ELSE lease

ReleaseLease(t) ==
  /\ pc[t] = "unlease"
  /\ Released(tok[t])
  /\ err' = [err EXCEPT ![t] = tok[t] # 0 /\ lease # tok[t]]
  /\ Goto(t, Settled(t))
  /\ UNCHANGED <<device, marker, generation, kind, session, out, locals, faults, crashes>>

\* The status block of nativeOutput; whatever watchdog is current is stopped.
RecordStop(t) ==
  /\ pc[t] = "record"
  /\ out' = [active |-> err[t] /\ (tok[t] = 0 \/ Motor(tok[t])), timer |-> 0]
  /\ \/ /\ t \in Callers /\ op[t] = "release"
        /\ pc' = [Unwatched EXCEPT ![t] = IF err[t] THEN "error" ELSE "conclude"]
        /\ UNCHANGED op
     \/ /\ t \in Callers /\ op[t] = "springabort"
        /\ pc' = [Unwatched EXCEPT ![t] = "announce"]
        /\ UNCHANGED op
     \/ /\ t \in Callers /\ op[t] \notin {"release", "springabort"}
        /\ \/ ~err[t] /\ op[t] # "abort" /\ Continue(t, Unwatched)
           \/ (err[t] \/ op[t] = "abort") /\ pc' = [Unwatched EXCEPT ![t] = "error"] /\ UNCHANGED op
     \/ /\ t \in Watchdogs
        /\ pc' = [Unwatched EXCEPT ![t] = "idle"]
        /\ UNCHANGED op
  /\ UNCHANGED <<device, marker, ownership, session, tok, awaited, err, faults, crashes>>

-----------------------------------------------------------------------------
(* Starting output: StartNativeConstantForceTest, startNativeConditionTest, *)
(* NativeOutputTestAutocenter, StartFusionC6GameOutput, NativeOutputApplyRange. *)

KindOf(o) == IF o \in Kinds THEN o ELSE "range"

Acquire(t) ==
  LET g == generation + 1
  IN /\ pc[t] = "acquire"
     /\ lease = 0 /\ generation < MaxGen
     /\ lease' = g /\ generation' = g
     /\ kind' = [kind EXCEPT ![g] = KindOf(op[t])]
     /\ tok' = [tok EXCEPT ![t] = g]
     /\ Goto(t, CASE op[t] \in {"slot", "spring", "game"} -> "mark"
                  [] op[t] = "leds" -> "write"
                  [] OTHER -> "drop")
     /\ UNCHANGED <<device, marker, session, out, op, awaited, err, faults, crashes>>

\* The token is taken, another instance has the mutex, the target or an argument
\* does not validate. A range request still records its failure.
AcquireRefused(t) ==
  /\ pc[t] = "acquire"
  /\ err' = [err EXCEPT ![t] = TRUE]
  /\ Goto(t, IF op[t] \in {"range", "apply"} THEN "announce" ELSE "error")
  /\ UNCHANGED <<device, marker, ownership, session, out, locals, faults, crashes>>

\* Mutant: a marker that cannot be written does not keep the motor off.
MarkActiveAnyway(t) ==
  /\ pc[t] = "mark"
  /\ \/ marker' = TRUE /\ UNCHANGED faults
     \/ Fault /\ UNCHANGED marker
  /\ Goto(t, "write")
  /\ UNCHANGED <<device, ownership, session, out, locals, err, crashes>>

\* The marker is written before the motor; without it, or without a transport,
\* the start gives the lease back.
MarkActive(t) ==
  /\ pc[t] = "mark"
  /\ \/ marker' = TRUE /\ Goto(t, "write") /\ UNCHANGED <<err, faults>>
     \/ /\ Fault
        /\ Goto(t, "drop")
        /\ err' = [err EXCEPT ![t] = TRUE]
        /\ UNCHANGED marker
  /\ UNCHANGED <<device, ownership, session, out, locals, crashes>>

\* The first reports of an effect. One that failed may have reached the wheel.
FirstWrite(t) ==
  LET g == tok[t]
      driven == /\ force' = IF op[t] \in {"slot", "game"} THEN g ELSE force
                /\ spring' = IF op[t] = "spring" THEN g ELSE spring
  IN /\ pc[t] = "write"
     /\ \/ /\ driven
           /\ Goto(t, IF op[t] = "spring" THEN "announce" ELSE "register")
           /\ UNCHANGED <<op, err, faults>>
        \/ /\ Fault
           /\ driven \/ UNCHANGED device
           /\ Goto(t, IF Motor(g) THEN "neutral" ELSE "drop")
           /\ op' = [op EXCEPT ![t] = IF @ = "spring" THEN "springabort" ELSE "abort"]
           /\ err' = [err EXCEPT ![t] = ~Motor(g)]
     /\ UNCHANGED <<marker, ownership, session, out, tok, awaited, crashes>>

\* A lease without a running session behind it is given back.
DropLease(t) ==
  /\ pc[t] = "drop"
  /\ Released(tok[t])
  /\ Goto(t, IF op[t] \in {"range", "apply"} THEN "announce" ELSE "error")
  /\ err' = [err EXCEPT ![t] = @ \/ lease # tok[t]]
  /\ UNCHANGED <<device, marker, generation, kind, session, out, locals, faults, crashes>>

\* nativeFFB takes the session over; a test's worker starts here.
Register(t) ==
  LET g == tok[t]
  IN /\ pc[t] = "register"
     /\ ffb' = [session |-> g, cancel |-> TRUE, done |-> TRUE,
                active |-> Motor(g), stopping |-> FALSE]
     /\ pc' = IF op[t] = "slot" THEN [pc EXCEPT ![t] = "ok", ![Worker(g)] = "run"]
                                ELSE [pc EXCEPT ![t] = "publish"]
     /\ UNCHANGED <<device, marker, ownership, closed, game, out, locals, err, faults, crashes>>

\* fusionC6 shows the session; its worker starts here.
PublishGame(t) ==
  /\ pc[t] = "publish"
  /\ game' = [session |-> tok[t], active |-> TRUE]
  /\ pc' = [pc EXCEPT ![t] = "ok", ![Worker(tok[t])] = "run"]
  /\ UNCHANGED <<device, marker, ownership, ffb, closed, out, locals, err, faults, crashes>>

\* recordNativeOutput: active only for an autocenter that has started. Applying a
\* profile may go on to a rollback of the range, when the profile is not saved.
RecordOutput(t) ==
  /\ pc[t] = "announce"
  /\ out' = [out EXCEPT !.active = op[t] = "spring"]
  /\ \/ op[t] = "spring" /\ Goto(t, "arm") /\ UNCHANGED op
     \/ op[t] = "springabort" /\ Goto(t, "error") /\ UNCHANGED op
     \/ /\ op[t] \in {"range", "apply"}
        /\ Goto(t, IF err[t] THEN "error" ELSE "ok")
        /\ UNCHANGED op
     \/ /\ op[t] = "apply" /\ ~err[t]
        /\ Goto(t, "acquire")
        /\ op' = [op EXCEPT ![t] = "range"]
  /\ UNCHANGED <<device, marker, ownership, session, tok, awaited, err, faults, crashes>>

\* The timer that bounds an autocenter test.
ArmWatchdog(t) ==
  /\ pc[t] = "arm"
  /\ out' = [out EXCEPT !.timer = tok[t]]
  /\ pc' = [Unwatched EXCEPT ![t] = "ok", ![Watchdog(tok[t])] = "armed"]
  /\ UNCHANGED <<device, marker, ownership, session, locals, err, faults, crashes>>

WatchdogFires(g) ==
  /\ pc[Watchdog(g)] = "armed"
  /\ Goto(Watchdog(g), "neutral")
  /\ err' = [err EXCEPT ![Watchdog(g)] = FALSE]
  /\ UNCHANGED <<device, marker, ownership, session, out, locals, faults, crashes>>

-----------------------------------------------------------------------------
(* StopFusionC6GameOutput and RecoverRuntimeOutputIfNeeded.                *)

GameStopped(t) ==
  /\ pc[t] = "gamestopped"
  /\ game' = [game EXCEPT !.active = IF game.session = tok[t] THEN err[t] ELSE @]
  /\ Goto(t, IF err[t] THEN "error" ELSE "ok")
  /\ UNCHANGED <<device, marker, ownership, ffb, closed, out, locals, err, faults, crashes>>

\* A marker whose target is the selected wheel makes it neutral.
Recover(t) ==
  /\ pc[t] = "recover"
  /\ \/ ~marker /\ Goto(t, "ok") /\ UNCHANGED <<device, faults>>
     \/ marker /\ Goto(t, "error") /\ UNCHANGED <<device, faults>>
     \/ marker /\ Neutralised /\ Goto(t, "forget")
     \/ marker /\ NeutralFails /\ Goto(t, "error")
  /\ UNCHANGED <<marker, ownership, session, out, locals, err, crashes>>

Forget(t) ==
  /\ pc[t] = "forget"
  /\ \/ marker' = FALSE /\ Goto(t, "ok") /\ UNCHANGED faults
     \/ Fault /\ Goto(t, "error") /\ UNCHANGED marker
  /\ UNCHANGED <<device, ownership, session, out, locals, err, crashes>>

-----------------------------------------------------------------------------
(* The worker of session g.                                                *)

\* A tick writes the effect again, whoever neutralised it in between.
Tick(g) ==
  /\ pc[Worker(g)] = "run"
  /\ Motor(g) /\ force # g
  /\ force' = g
  /\ UNCHANGED <<spring, marker, ownership, session, out, pc, locals, err, faults, crashes>>

\* Mutant: a test has no duration of its own.
NoDuration(g) == FALSE

\* Only the manual tests carry a duration timer.
HasDuration(g) == kind[g] = "slot"

\* Cancelled, the test's time is over, or a write failed.
LeaveLoop(g) ==
  /\ pc[Worker(g)] = "run"
  /\ \/ (g \in closed \/ HasDuration(g)) /\ UNCHANGED faults
     \/ Fault
  /\ Goto(Worker(g), "halt")
  /\ UNCHANGED <<device, marker, ownership, session, out, locals, err, crashes>>

\* safeStop of a test, engine.Stop of a game: stop packets for the slots.
Halt(g) ==
  /\ pc[Worker(g)] = "halt"
  /\ \/ /\ force' = IF Motor(g) THEN 0 ELSE force
        /\ Goto(Worker(g), Completed(Worker(g)))
        /\ UNCHANGED <<err, faults>>
     \/ /\ Fault
        /\ force' \in IF Motor(g) THEN {force, 0} ELSE {force}
        /\ Goto(Worker(g), Settled(Worker(g)))
        /\ err' = [err EXCEPT ![Worker(g)] = TRUE]
  /\ UNCHANGED <<spring, marker, ownership, session, out, locals, crashes>>

\* A HID write of the worker never completes.
Hang(g) ==
  /\ WorkersHang
  /\ pc[Worker(g)] \in {"run", "halt"}
  /\ Goto(Worker(g), "hung")
  /\ UNCHANGED <<device, marker, ownership, session, out, locals, err, faults, crashes>>

ReportGame(g) ==
  /\ pc[Worker(g)] = "reportgame"
  /\ game' = [game EXCEPT !.active = IF game.session = g THEN err[Worker(g)] ELSE @]
  /\ Goto(Worker(g), "report")
  /\ UNCHANGED <<device, marker, ownership, ffb, closed, out, locals, err, faults, crashes>>

\* updateNativeFFBStatusGeneration: a replaced session reports nothing.
Report(g) ==
  /\ pc[Worker(g)] = "report"
  /\ ffb' = IF ffb.session = g
            THEN [ffb EXCEPT !.active = err[Worker(g)] /\ Motor(g), !.stopping = FALSE]
            ELSE ffb
  /\ Goto(Worker(g), "exit")
  /\ UNCHANGED <<device, marker, ownership, closed, game, out, locals, err, faults, crashes>>

\* The deferred functions: nativeFFB lets go of the session, done is closed.
Exit(g) ==
  /\ pc[Worker(g)] = "exit"
  /\ ffb' = IF ffb.session = g THEN [ffb EXCEPT !.cancel = FALSE, !.done = FALSE] ELSE ffb
  /\ err' = [err EXCEPT ![Worker(g)] = FALSE]
  /\ Goto(Worker(g), "closed")
  /\ UNCHANGED <<device, marker, ownership, closed, game, out, locals, faults, crashes>>

-----------------------------------------------------------------------------
CallerStep(t) ==
  \/ Return(t) \/ Survey(t) \/ CancelSession(t) \/ WorkerEnded(t) \/ WorkerTimeout(t)
  \/ BestEffort(t) \/ Target(t) \/ Conclude(t)
  \/ Acquire(t) \/ AcquireRefused(t) \/ MarkActive(t) \/ FirstWrite(t) \/ DropLease(t)
  \/ Register(t) \/ PublishGame(t) \/ RecordOutput(t) \/ ArmWatchdog(t)
  \/ GameStopped(t) \/ Recover(t) \/ Forget(t)

SafeStopStep(t) == WriteNeutral(t) \/ ClearMarker(t) \/ ReleaseLease(t) \/ RecordStop(t)

WorkerStep(g) == Tick(g) \/ LeaveLoop(g) \/ Halt(g) \/ Hang(g) \/ ReportGame(g) \/ Report(g) \/ Exit(g)

Next ==
  \/ \E t \in Callers : CallerStep(t) \/ \E o \in Ops : Call(t, o)
  \/ \E t \in Threads : SafeStopStep(t)
  \/ \E g \in Gens : WatchdogFires(g) \/ WorkerStep(g)
  \/ Crash

Spec == Init /\ [][Next]_vars

-----------------------------------------------------------------------------
(* Safety.                                                                 *)

\* Whatever plays on the wheel is covered by the marker on disk, so that the
\* next process knows it may have to neutralise it: the marker is written before
\* the first motor report and deleted only after a confirmed neutral one.
ForceCovered == force # 0 \/ spring # 0 => marker

\* Three windows in which a marker or a spring is taken from a session that drives a
\* motor: a recovery within the session is about to delete its marker, the late
\* callback of a former autocenter test is about to, or a game was started over an
\* autocenter spring that a former process left on.
Drives(g) == g # 0 /\ Motor(g)
LateRecovery == Drives(lease) /\ \E t \in Callers : pc[t] = "forget"
LateCallback == Drives(lease) /\ \E g \in Gens \ {lease} : pc[Watchdog(g)] = "unmark"
OrphanSpring == Drives(lease) /\ spring = Orphan
Gap == LateRecovery \/ LateCallback \/ OrphanSpring
NoGap == ~Gap

\* The sessions whose code may write force: those of live workers, and those a
\* caller is about to start.
Writing ==
  {g \in Gens : pc[Worker(g)] \in {"run", "halt", "hung"}} \cup
  {tok[t] : t \in {c \in Callers : pc[c] \in {"mark", "write", "register", "publish"}}}

\* Only the holder of the lease writes, also after a stop that timed out, a stop
\* that failed, and a lease that was released while its worker still ran.
SingleWriter == \A g \in Writing : lease = g

\* The wheel never plays an effect of this process whose session lost the lease.
ForceOwned ==
  /\ force \in Gens => lease = force
  /\ spring \in Gens => lease = spring

\* A stop that reports success has left a neutral wheel and no lease: an
\* emergency stop, a lifecycle stop and a release (NativeOutputEmergencyStop,
\* stopHardwareForLifecycle, NativeOutputRelease). A release alone does not
\* look for an effect a former process left behind.
StopMeansNeutral ==
  \A t \in Callers :
    /\ pc[t] = "ok" /\ op[t] = "emergency" => force = 0 /\ spring = 0 /\ lease = 0
    /\ pc[t] = "ok" /\ op[t] = "release" =>
         force \notin Gens /\ spring \notin Gens /\ lease = 0

\* The coordinator keeps the contract of MotorContract: ownership is a lease of a
\* motor session, the evidence is the marker, the motor is what plays on the wheel.
Contract == INSTANCE MotorContract WITH
  Owners <- Gens,
  owner <- IF lease # 0 /\ Motor(lease) THEN lease ELSE 0,
  evidence <- marker,
  motor <- IF force = 0 /\ spring = 0 THEN "off"
           ELSE IF force \in Gens \/ spring \in Gens THEN "own" ELSE "orphan"

KeepsContract == Contract!ContractSpec

-----------------------------------------------------------------------------
(* Liveness.                                                               *)

\* Goroutines are scheduled; the two seconds of a stop, the time of a test and the
\* timer of an autocenter test run out. A worker that hangs in a HID write stays so.
Fairness ==
  /\ \A t \in Callers : WF_vars(CallerStep(t) \/ SafeStopStep(t))
  /\ \A g \in Gens : /\ WF_vars(WatchdogFires(g) \/ SafeStopStep(Watchdog(g)))
                     /\ WF_vars(LeaveLoop(g))
                     /\ WF_vars(Halt(g) \/ ReportGame(g) \/ Report(g) \/ Exit(g) \/
                                SafeStopStep(Worker(g)))

FairSpec == Spec /\ Fairness

\* Every call returns, even if the worker it waits for never answers.
CallsReturn == \A t \in Callers : pc[t] # "idle" ~> pc[t] = "idle"

\* A stop of g, by a call or by the timer of g, has failed: its caller is told.
StopFailed(g) == \E t \in Callers \cup {Watchdog(g)} : pc[t] = "record" /\ err[t]

\* The late callback of a former autocenter test ends (nativeOutputSafeStopLease): its
\* stopWatchdogLocked takes away whatever timer is current, which is that of g.
Overtaken(g) == \E h \in Gens \ {g} : pc[Watchdog(h)] = "record" /\ out.timer = g

\* A test that drives the motor ends by itself. The effect of a constant-force or
\* condition test goes away, or its session could not be stopped and keeps the lease.
\* An autocenter spring whose timer runs goes away, or a stop reports that it failed,
\* or the timer is lost to the late callback of the test before: that one spring has
\* no end of its own (nativeManualFFBTestDuration, nativeOutput.timer).
TestEnds ==
  \A g \in Gens :
    /\ (force = g /\ kind[g] = "slot") ~>
         (force # g \/ (pc[Worker(g)] \in {"closed", "idle", "hung"} /\ lease = g))
    /\ (spring = g /\ pc[Watchdog(g)] = "armed") ~>
         (spring # g \/ StopFailed(g) \/ Overtaken(g))

=============================================================================
