------------------------------ MODULE GameForce ------------------------------
(***************************************************************************)
(* The way of a force from a game to the wheel:                            *)
(* src/internal/system/fusion_c6_windows.go with the telemetry runtime     *)
(* (Telemetry), the shaping of src/internal/wheelengine/ffb_pipeline.go,   *)
(* the safety mixer MixNativeEffects and the scheduler (Scheduler).        *)
(*                                                                         *)
(* The user starts and stops the output and the listeners and changes the  *)
(* tuning; the refresh goroutine follows the game in the foreground. The   *)
(* session's monitor ends the engine when it is cancelled. Who may have    *)
(* the wheel, and the marker, are the matter of MotorOutput.               *)
(***************************************************************************)
EXTENDS Telemetry, Scheduler

CONSTANTS Gains,        \* gains of a game profile, negative when inverted
          Profiles,     \* gains of an engine profile, in halves
          Cap,          \* ConstantLimit of the wheel
          Tunings,      \* [smooth : BOOLEAN, limit : 1..Full]
          MaxCalls,     \* bound on telemetry calls outside of a session's start
          MaxSessions,  \* bound on output sessions
          MaxTunings    \* bound on changes of the tuning

ASSUME GameForceAssumption ==
  /\ {"ui", "refresh"} \subseteq Callers
  /\ Gains \subseteq Int /\ Profiles \subseteq 0..2 /\ Cap \in 0..Full
  /\ Tunings \subseteq [smooth : BOOLEAN, limit : 0..Full]
  /\ MaxCalls \in Nat /\ MaxSessions \in Nat /\ MaxTunings \in Nat

VARIABLES
  session,   \* the output session, its source and its pipeline
  pump,      \* what TryGetFrame has read in this pump
  tune,      \* a RefreshNativeGameOutputTuning in progress
  calls,     \* telemetry calls so far
  since      \* pumps with a frame since the session began or its game asked for a force

gameVars == <<telemetryVars, schedulerVars, session, pump, tune, calls, since>>

\* Bound on since: the last frame that asks goes stale, the two filters run out, and the slew
\* follows.
Horizon == StaleAge + 3 * Full + 2
NoPump == [profile |-> 0, force |-> 0]
NoSession == [at |-> "off", number |-> 0, kind |-> None, active |-> FALSE, gain |-> 1, profile |-> 0,
              tuning |-> [smooth |-> FALSE, limit |-> Full], have |-> FALSE, low |-> 0, out |-> 0]
NoTune == [at |-> "idle", number |-> 0, profile |-> 0, tuning |-> NoSession.tuning, count |-> 0]

Shapings == Tunings \cup {NoSession.tuning}
GameTypeOK ==
  /\ TelemetryTypeOK /\ SchedulerTypeOK
  /\ session \in [at : {"off", "ensure", "first", "run", "stop", "faulted"}, number : 0..MaxSessions,
                  kind : Kinds \cup {None}, active : BOOLEAN, gain : Gains \cup {1},
                  profile : Profiles \cup {0}, tuning : Shapings, have : BOOLEAN,
                  low : -Full..Full, out : -Full..Full]
  /\ Abs(session.out) <= session.tuning.limit
  /\ pump \in [profile : Profiles \cup {0}, force : -Full..Full]
  /\ tune \in [at : {"idle", "profile", "shaping"}, number : 0..MaxSessions,
               profile : Profiles \cup {0}, tuning : Shapings, count : 0..MaxTunings]
  /\ calls \in 0..MaxCalls /\ since \in 0..Horizon
  /\ engine.running => session.at = "run"

GameInit ==
  /\ TelemetryInit /\ SchedulerInit
  /\ session = NoSession /\ pump = NoPump /\ tune = NoTune
  /\ calls = 0 /\ since = Horizon

-----------------------------------------------------------------------------
(* StartFusionC6GameOutput by the user, after the former session has ended. *)

Begin(k) ==
  /\ session.at = "off" /\ session.number < MaxSessions /\ call["ui"].at = "idle"
  /\ session' = [NoSession EXCEPT !.at = "ensure", !.number = session.number + 1, !.kind = k]
  /\ Ensure("ui", k, TRUE)
  /\ since' = 0
  /\ UNCHANGED <<schedulerVars, pump, tune, calls>>

\* The adapter runs, or has been started; configuration, profile and tuning are read.
Ensures ==
  /\ session.at = "ensure" /\ call["ui"].at = "idle"
  /\ \/ /\ call["ui"].failed
        /\ session' = [NoSession EXCEPT !.number = session.number] /\ since' = Horizon
        /\ UNCHANGED schedulerVars
     \/ /\ ~call["ui"].failed /\ UNCHANGED since
        /\ \E g \in Gains, p \in Profiles, t \in Tunings :
             session' = [session EXCEPT !.at = "first", !.active = TRUE, !.gain = g, !.profile = p,
                                        !.tuning = t]
        /\ Create
  /\ call' = [call EXCEPT !["ui"] = NoCall]
  /\ UNCHANGED <<adapter, current, pump, tune, calls>>

\* The first pump is over: the scheduler starts, or the start is taken back with neutral reports.
Starts ==
  /\ session.at = "first"
  /\ \/ Run /\ session' = [session EXCEPT !.at = "run"]
     \/ /\ engine.at = "wait" /\ engine.failed
        /\ session' = [session EXCEPT !.at = "stop", !.active = FALSE]
        /\ engine' = [engine EXCEPT !.at = "off", !.cancelled = TRUE]
        /\ UNCHANGED <<output, wheel, failures>>
  /\ UNCHANGED <<telemetryVars, pump, tune, calls, since>>

\* A stop by the user, the game watch, or the monitor itself, whose LED report has failed.
StopSession ==
  /\ session.at = "run" /\ engine.running
  /\ Cancel
  /\ UNCHANGED <<telemetryVars, session, pump, tune, calls, since>>

\* The monitor's engine.Stop: the goroutine has ended, the source stops, and the force goes back.
Stopped ==
  /\ session.at \in {"run", "stop"} /\ engine.cancelled /\ Done
  /\ Panic
  /\ session' = [NoSession EXCEPT !.at = IF engine'.failed THEN "faulted" ELSE "off",
                                  !.number = session.number]
  /\ pump' = NoPump /\ since' = Horizon
  /\ UNCHANGED <<telemetryVars, tune, calls>>

\* An emergency stop writes the neutral reports that the monitor could not.
Recovered ==
  /\ session.at = "faulted"
  /\ session' = [session EXCEPT !.at = "off"]
  /\ wheel' = 0 /\ engine' = [engine EXCEPT !.failed = FALSE]
  /\ UNCHANGED <<telemetryVars, output, failures, pump, tune, calls, since>>

-----------------------------------------------------------------------------
(* One pump: TryGetFrame, SetForce, Tick. *)

PumpReads ==
  /\ engine.at = "pump"
  /\ pump' = [NoPump EXCEPT !.profile = session.profile]
  /\ engine' = [engine EXCEPT !.at = "frame"]
  /\ UNCHANGED <<telemetryVars, output, wheel, failures, session, tune, calls, since>>

\* TelemetrySnapshot: only a frame of the profile's adapter counts, and only while it is fresh.
Live ==
  /\ current.id # 0 /\ Running(current.id) /\ Fresh(current.id)
  /\ adapter[current.id].kind = session.kind

\* A game that does not allow a force asks for none.
Asked(f) == IF f.allowed THEN f.force ELSE 0

PumpFrame ==
  /\ engine.at = "frame" /\ Live
  /\ pump' = [pump EXCEPT !.force = Clamp(Asked(adapter[current.id].last) * session.gain, -Full, Full)]
  /\ engine' = [engine EXCEPT !.at = "shape"]
  /\ UNCHANGED <<telemetryVars, output, wheel, failures, session, tune, calls, since>>

\* No frame: the force stays as it is until the watchdog ends it.
PumpMisses ==
  /\ engine.at = "frame" /\ ~Live
  /\ Tick
  /\ pump' = NoPump
  /\ UNCHANGED <<telemetryVars, session, tune, calls, since>>

\* Deadband, curve and minimum force keep the sign.
Curved(v) == {u \in -Full..Full : (v = 0 => u = 0) /\ u * v >= 0}

\* The low pass comes closer to what it is given, and so does the smoothing, to what the low pass
\* gives; each keeps its last value. A unit is what either moves by at least.
Towards(last, v) == {u \in -Full..Full : (u - last) * (v - u) >= 0 /\ (u = last => v = last)}
Filtered(last, v) == IF session.have /\ session.tuning.smooth THEN Towards(last, v) \cup {v} ELSE {v}

\* MixNativeEffects: the profile's gain, truncated, and the wheel's limit last.
Mixed(v, profile) == Clamp(IF v < 0 THEN -((-v * profile) \div 2) ELSE (v * profile) \div 2, -Cap, Cap)

PumpShapes ==
  /\ engine.at = "shape"
  /\ \E c \in Curved(pump.force) : \E low \in Filtered(session.low, c) : \E o \in Filtered(session.out, low) :
       LET out == Clamp(o, -session.tuning.limit, session.tuning.limit)
           kept(v) == IF session.tuning.smooth THEN v ELSE 0
       IN  /\ session' = [session EXCEPT !.have = session.tuning.smooth, !.low = kept(low), !.out = kept(out)]
           /\ SetForce(Mixed(out, pump.profile))
  /\ pump' = NoPump
  /\ since' = IF since = Horizon THEN since ELSE since + 1
  /\ UNCHANGED <<telemetryVars, tune, calls>>

PumpEnds == End /\ UNCHANGED <<telemetryVars, session, pump, tune, calls, since>>

-----------------------------------------------------------------------------
(* RefreshNativeGameOutputTuning, when the user has changed a profile or the shaping. It has the  *)
(* source it found, which may be that of a session that has ended since.                          *)

TuneReads ==
  /\ tune.at = "idle" /\ tune.count < MaxTunings
  /\ session.at = "run" /\ call["ui"].at = "idle"
  /\ \E p \in Profiles, t \in Tunings :
       tune' = [at |-> "profile", number |-> session.number, profile |-> p, tuning |-> t,
                count |-> tune.count + 1]
  /\ UNCHANGED <<telemetryVars, schedulerVars, session, pump, calls, since>>

Tuned(change) ==
  session' = IF session.active /\ session.number = tune.number THEN change ELSE session

TuneProfile ==
  /\ tune.at = "profile"
  /\ Tuned([session EXCEPT !.profile = tune.profile])
  /\ tune' = [tune EXCEPT !.at = "shaping"]
  /\ UNCHANGED <<telemetryVars, schedulerVars, pump, calls, since>>

\* SetTuning also resets the filters.
TuneShaping ==
  /\ tune.at = "shaping"
  /\ Tuned([session EXCEPT !.tuning = tune.tuning, !.have = FALSE, !.low = 0, !.out = 0])
  /\ tune' = [NoTune EXCEPT !.count = tune.count]
  /\ UNCHANGED <<telemetryVars, schedulerVars, pump, calls, since>>

-----------------------------------------------------------------------------
(* The telemetry calls of both goroutines, the adapters, and the ticker. *)

UiCall ==
  /\ call["ui"].at = "idle" /\ session.at # "ensure" /\ tune.at = "idle"
  /\ \/ \E k \in Kinds : Start("ui", k, FALSE)
     \/ Stop("ui")
GameCall ==
  /\ call["refresh"].at = "idle"
  /\ \/ \E k \in Kinds : Ensure("refresh", k, FALSE)
     \/ StopAutomatic("refresh")
TelemetryCall ==
  /\ calls < MaxCalls /\ calls' = calls + 1
  /\ UiCall \/ GameCall
  /\ UNCHANGED <<schedulerVars, session, pump, tune, since>>
CallStep ==
  /\ \E c \in Callers : TelemetryStep(c)
  /\ UNCHANGED <<schedulerVars, session, pump, tune, calls, since>>

\* A packet of the session's game asks for a force.
Asks(a) ==
  /\ adapter[a].kind = session.kind
  /\ adapter'[a].last.allowed /\ adapter'[a].last.force # 0
AdapterStep ==
  /\ \E a \in Adapters :
       /\ LoopStep(a)
       /\ since' = IF Asks(a) THEN 0 ELSE since
  /\ UNCHANGED <<schedulerVars, session, pump, tune, calls>>

Elapse ==
  /\ Ticks
  /\ adapter' = Older
  /\ UNCHANGED <<current, call, session, pump, tune, calls, since>>

GameNext ==
  \/ \E k \in Kinds : Begin(k)
  \/ Ensures \/ Starts \/ StopSession \/ Stopped \/ Recovered
  \/ PumpReads \/ PumpFrame \/ PumpMisses \/ PumpShapes \/ PumpEnds
  \/ TuneReads \/ TuneProfile \/ TuneShaping
  \/ TelemetryCall \/ CallStep \/ AdapterStep \/ Elapse

GameSpec == GameInit /\ [][GameNext]_gameVars

-----------------------------------------------------------------------------
(* Properties. *)

\* The wheel pulls only while the session's game asks for it and is allowed to. It is at rest when
\* Horizon frames were shaped since the last packet that asked, because the packets forbid a force
\* or are another game's; and when there was no frame for longer than the watchdog, because the
\* packets stopped, went stale, or their adapter was stopped or replaced -- unless a report was
\* lost. The tuning changes meanwhile.
ForceNeedsAuthority ==
  (since = Horizon \/ output.quiet > Watchdog) /\ failures = 0 /\ engine.at = "wait" => wheel = 0

\* When a session is over, the wheel is at rest and no goroutine of the engine is left that could
\* move it again, whichever of the steps of Stop the goroutine was at.
StoppedNeutral == session.at \in {"off", "ensure"} => wheel = 0 /\ engine.at = "off"

=============================================================================
