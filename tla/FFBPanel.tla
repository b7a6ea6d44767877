------------------------------ MODULE FFBPanel ------------------------------
(***************************************************************************)
(* The force feedback panel of the wheel page, the dialogs that order the     *)
(* same things, and the tuning a running game session uses.                   *)
(*                                                                         *)
(* The panel edits a draft of the selected wheel's tuning, which a paint loads  *)
(* when another wheel is selected, and stores it when a slider is released.     *)
(* Its handlers read the current state; a dialog keeps the state it was opened  *)
(* with.  A gain stands for the gains of the engine profile, a shape for the     *)
(* signal shaping.                                                           *)
(***************************************************************************)
EXTENDS WheelCommands

CONSTANT Levels   \* of a gain and of a shape

VARIABLES
  native,   \* the setting: may the panel drive the motor
  draft,    \* d6Draft and the slider that is dragged
  custom,   \* the Custom engine profile of each wheel, if it has one
  active,   \* the name of its active engine profile
  shape,    \* its stored signal shaping
  said      \* what the last step wrote to the status line, if it did

panel == <<native, draft, custom, active, shape>>
Silent == said' = "nothing"

Builtin == [Balanced |-> [gain |-> 1, narrow |-> FALSE], Direct |-> [gain |-> 2, narrow |-> FALSE]]
NoCustom == [gain |-> 0]
NoDraft == [port |-> NoPort, drag |-> "none"]
Engines == {"master", "rotation"}
Sliders == Engines \cup {"deadband"}

ASSUME PanelAssumption == {Builtin[n].gain : n \in DOMAIN Builtin} \subseteq Levels /\ 0 \notin Levels

(* ReadNativeEngineProfile and ReadActiveNativeEngineProfile.                   *)
Profile(d, p, name) == IF name = "Custom" THEN d.custom[p] ELSE Builtin[name]
Profiles(d, p) == DOMAIN Builtin \cup {n \in {"Custom"} : d.custom[p] # NoCustom}
Active(d, p) == Profile(d, p, d.active[p])
Tuning(d, p) == [engine |-> Active(d, p), shape |-> d.shape[p]]

Found == [force |-> force, narrow |-> narrow, lease |-> lease, game |-> game, faults |-> faults,
          custom |-> custom, active |-> active, shape |-> shape]
Settles(d) == Becomes(d) /\ custom' = d.custom /\ active' = d.active /\ shape' = d.shape

InitPanel ==
  /\ native = TRUE
  /\ draft = [port |-> app.stored, engine |-> Builtin["Balanced"], shape |-> 1, drag |-> "none"]
  /\ custom = [p \in Ports |-> NoCustom]
  /\ active = [p \in Ports |-> "Balanced"]
  /\ shape = [p \in Ports |-> 1]
  /\ said = "nothing"

-----------------------------------------------------------------------------
(* What is stored and what runs. *)

SaveNativeEngineProfile(d, s, profile) ==
  IF HasReadableSelectedWheel(s) THEN StoreFile(d, [d EXCEPT !.custom[s.stored] = profile]) ELSE Error(d)

SetActiveNativeEngineProfile(d, p, name) == StoreFile(d, [d EXCEPT !.active[p] = name])

SaveSelectedAdvancedFFBConfig(d, s, level) ==
  IF HasReadableSelectedWheel(s) THEN StoreFile(d, [d EXCEPT !.shape[s.stored] = level]) ELSE Error(d)

(* The range goes back when the profile cannot be made active.                  *)
ApplyNativeEngineProfile(d, s, name) ==
  LET p == s.stored
      Persist(e) ==
        UNION {IF o.ok THEN {o} ELSE Failing(NativeOutputApplyRange(o.d, s, Active(d, p).narrow)) :
                 o \in SetActiveNativeEngineProfile(e, p, name)}
  IN  IF ~validateNativeOutputTarget(s) THEN Error(d)
      ELSE Then(Then(NativeOutputEmergencyStop(d, s),
                     LAMBDA e : NativeOutputApplyRange(e, s, Profile(d, p, name).narrow)), Persist)

(* Mutant: only the files were updated, and the engine keeps its profile.        *)
ShapeOnly(old, new) == [new EXCEPT !.engine = old.engine]
Retuned(old, new) == new

(* RefreshNativeGameOutputTuning: the text the panel shows after it.              *)
RefreshText(d, s) ==
  CASE ~HasReadableSelectedWheel(s) -> "error"
    [] d.game = NoGame -> "saved"
    [] d.game.port # s.stored -> "error"
    [] OTHER -> "live"
RefreshNativeGameOutputTuning(d, s) ==
  IF RefreshText(d, s) = "live"
  THEN [d EXCEPT !.game.tuning = Retuned(@, Tuning(d, s.stored))] ELSE d

-----------------------------------------------------------------------------
(* The panel. *)

Says(text) == said' = text
Quiet == UNCHANGED <<bus, app, plugs>>

(* d62RefreshLiveTuning.                                                      *)
Refreshed(d) == Settles(RefreshNativeGameOutputTuning(d, app)) /\ Says(RefreshText(d, app))

(* An error is shown by a notice, which leaves the status line as it is.           *)
Noticed(d) == Settles(d) /\ Silent

(* ensureD6Draft.  Only the panel reads the draft.                              *)
Paint ==
  /\ draft.port # SelectedWheelID(app)
  /\ InPart("tune") /\ acts' = [acts EXCEPT !.part = "tune"]
  /\ draft' = IF ~HasReadableSelectedWheel(app) THEN [draft EXCEPT !.port = NoPort]
              ELSE [port |-> app.stored, engine |-> Active(Found, app.stored), shape |-> shape[app.stored],
                    drag |-> draft.drag]
  /\ Silent /\ UNCHANGED <<bus, app, tool, plugs, faults, motor, native, custom, active, shape>>

Set(slider, level) ==
  CASE slider = "master" -> [draft EXCEPT !.engine.gain = level]
    [] slider = "rotation" -> [draft EXCEPT !.engine.narrow = (level = 1)]
    [] slider = "deadband" -> [draft EXCEPT !.shape = level]

(* A slider is pressed and dragged: what it is set to counts at its release.  The  *)
(* keyboard presses and releases it at once.                                   *)
d6OnMouseDown(slider) ==
  /\ draft.port # NoPort /\ draft.drag = "none" /\ Act("tune")
  /\ draft' = [draft EXCEPT !.drag = slider]
  /\ Silent /\ UNCHANGED <<bus, app, tool, plugs, faults, motor, native, custom, active, shape>>

(* d6CommitDraft with the draft w.                                             *)
CommitEngine(w, slider) ==
  \E saved \in SaveNativeEngineProfile(Found, app, w.engine) :
    IF ~saved.ok THEN Noticed(saved.d)
    ELSE IF slider = "rotation" /\ native /\ HasActionableSelectedWheel(app)
    THEN \E o \in ApplyNativeEngineProfile(saved.d, app, "Custom") :
           IF o.ok THEN Settles(o.d) /\ Says("applied") ELSE Noticed(o.d)
    ELSE \E o \in SetActiveNativeEngineProfile(saved.d, app.stored, "Custom") :
           IF ~o.ok THEN Noticed(o.d)
           ELSE IF slider = "rotation" THEN Settles(o.d) /\ Says("rotation saved")
           ELSE Refreshed(o.d)
CommitShape(level) ==
  \E saved \in SaveSelectedAdvancedFFBConfig(Found, app, level) :
    IF saved.ok THEN Refreshed(saved.d) ELSE Noticed(saved.d)
d6CommitDraft(w, slider) == IF slider \in Engines THEN CommitEngine(w, slider) ELSE CommitShape(w.shape)

d6OnMouseUp(level) ==
  /\ tool = NoTool /\ draft.drag # "none" /\ acts' = acts
  /\ IF draft.port = NoPort
     THEN draft' = NoDraft /\ Noticed(Found)
     ELSE LET w == Set(draft.drag, level)
          IN  draft' = [w EXCEPT !.drag = "none"] /\ d6CommitDraft(w, draft.drag)
  /\ Quiet /\ UNCHANGED <<tool, native>>

Clicked == draft.drag = "none" /\ Act("tune") /\ Quiet /\ UNCHANGED tool

(* The wheel profiles.                                                        *)
ClickProfile(name) ==
  /\ Clicked /\ draft.port # NoPort /\ HasReadableSelectedWheel(app) /\ UNCHANGED native
  /\ LET p == app.stored
     IN \E o \in IF Builtin[name].narrow # Active(Found, p).narrow /\ native /\ HasActionableSelectedWheel(app)
                 THEN ApplyNativeEngineProfile(Found, app, name)
                 ELSE SetActiveNativeEngineProfile(Found, p, name) :
          IF o.ok THEN draft' = [draft EXCEPT !.engine = Builtin[name]] /\ Refreshed(o.d)
          ELSE UNCHANGED draft /\ Noticed(o.d)

(* The presets of the signal shaping, and its switch, which changes the draft     *)
(* first.                                                                     *)
ClickShape(level) ==
  /\ Clicked /\ draft.port # NoPort /\ UNCHANGED native
  /\ \E saved \in SaveSelectedAdvancedFFBConfig(Found, app, level) :
       LET set == [draft EXCEPT !.shape = level]
       IN  IF saved.ok THEN draft' = set /\ Refreshed(saved.d) ELSE draft' \in {draft, set} /\ Noticed(saved.d)

(* The user's own probe also flashes the LEDs.                                 *)
d6ProbeNativeWriter(d, s, automatic) ==
  Then(ProbeNativeOutputTransport(d, s),
       LAMBDA e : IF automatic \/ WheelModel(s) # "G27" THEN Ok(e) ELSE NativeOutputSetLEDs(e, s))

ClickTest(use) ==
  /\ Clicked /\ UNCHANGED <<native, draft>>
  /\ IF ~native THEN Settles(Found) /\ Says("blocked")
     ELSE \E o \in Then(Then(NativeOutputEmergencyStop(Found, app), LAMBDA d : d6ProbeNativeWriter(d, app, TRUE)),
                        LAMBDA d : StartTest(d, app, use)) :
            Settles(o.d) /\ Says(IF o.ok THEN "running" ELSE "error")

ClickNeutral ==
  /\ Clicked /\ UNCHANGED <<native, draft>>
  /\ \E o \in NativeOutputEmergencyStop(Found, app) : Settles(o.d) /\ Says(IF o.ok THEN "neutral" ELSE "error")

ClickProbe ==
  /\ Clicked /\ UNCHANGED <<native, draft>>
  /\ \E o \in d6ProbeNativeWriter(Found, app, FALSE) : Settles(o.d) /\ Says(IF o.ok THEN "ready" ELSE "error")

(* toggleSetting: on after a confirmation, off after a stop that succeeded.       *)
ClickNative ==
  /\ Clicked /\ UNCHANGED draft
  /\ IF native
     THEN \E o \in NativeOutputEmergencyStop(Found, app) :
            IF o.ok THEN native' = FALSE /\ Settles(o.d) /\ Says("off") ELSE native' = native /\ Noticed(o.d)
     ELSE /\ native' = TRUE
          /\ \E o \in d6ProbeNativeWriter(Found, app, TRUE) : Settles(o.d) /\ Says(IF o.ok THEN "ready" ELSE "error")

-----------------------------------------------------------------------------
(* The dialogs. *)

showNativeOutputTools ==
  /\ native /\ Act("tune") /\ tool' = [kind |-> "output", s |-> app]
  /\ Quiet /\ Silent /\ UNCHANGED <<faults, motor, panel>>

(* The outcomes of each of them for the state s.                                *)
showNativeHardwareControls(s) ==
  (UNION {NativeOutputApplyRange(Found, s, value) : value \in BOOLEAN})
  \cup NativeOutputSetLEDs(Found, s) \cup StartTest(Found, s, "timer")

showNativeFFBEffectTests(s) == StartTest(Found, s, "worker") \cup StartTestToTheLeft(Found, s)

createCustomNativeEngineProfile(s, profile) ==
  Then(SaveNativeEngineProfile(Found, s, profile), LAMBDA d : ApplyNativeEngineProfile(d, s, "Custom"))

showNativeEngineProfiles(s) ==
  IF ~HasReadableSelectedWheel(s) THEN Error(Found)
  ELSE (UNION {ApplyNativeEngineProfile(Found, s, name) : name \in Profiles(Found, s.stored)})
       \cup (UNION {createCustomNativeEngineProfile(s, profile) : profile \in [gain : Levels, narrow : BOOLEAN]})

(* Without a live update.                                                      *)
showAdvancedFFBTuning(s) == UNION {SaveSelectedAdvancedFFBConfig(Found, s, level) : level \in Levels}

UseOutputTool ==
  /\ tool.kind = "output" /\ tool' = NoTool /\ acts' = acts
  /\ \E o \in showNativeHardwareControls(tool.s) \cup showNativeFFBEffectTests(tool.s)
              \cup showNativeEngineProfiles(tool.s) \cup showAdvancedFFBTuning(tool.s)
              \cup NativeOutputEmergencyStop(Found, tool.s) : Noticed(o.d)
  /\ Quiet /\ UNCHANGED <<native, draft>>

(* The telemetry menu does not ask for the setting.  A session starts with the     *)
(* engine profile of the game, or the wheel's.                                   *)
showTelemetryTools ==
  /\ Act(acts.part) /\ tool' = [kind |-> "telemetry", s |-> app]
  /\ Quiet /\ Silent /\ UNCHANGED <<faults, motor, panel>>

StartNativeGameOutput ==
  /\ tool.kind = "telemetry" /\ HasReadableSelectedWheel(tool.s)
  /\ tool' = NoTool /\ acts' = acts
  /\ LET p == tool.s.stored
     IN \E name \in Profiles(Found, p) :
          \E o \in StartFusionC6GameOutput(Found, tool.s, [engine |-> Profile(Found, p, name), shape |-> shape[p]]) :
            Noticed(o.d)
  /\ Quiet /\ UNCHANGED <<native, draft>>

StopNativeGameOutput ==
  /\ tool.kind = "telemetry" /\ tool' = NoTool /\ acts' = acts
  /\ \E o \in StopFusionC6GameOutput(Found) : Noticed(o.d)
  /\ Quiet /\ UNCHANGED <<native, draft>>

PanelNext ==
  \/ Paint \/ ClickNeutral \/ ClickProbe \/ ClickNative
  \/ \E slider \in Sliders : d6OnMouseDown(slider)
  \/ \E level \in Levels : d6OnMouseUp(level) \/ ClickShape(level)
  \/ \E name \in DOMAIN Builtin : ClickProfile(name)
  \/ \E use \in {"worker", "timer"} : ClickTest(use)
  \/ showNativeOutputTools \/ UseOutputTool
  \/ showTelemetryTools \/ StartNativeGameOutput \/ StopNativeGameOutput

-----------------------------------------------------------------------------
(* What the status line tells is so when it is written: a session of the wheel    *)
(* uses what is stored for it, the wheel has the range of its active profile and   *)
(* is not driven, or no wheel is driven and the output is free.                    *)
StatusTrue ==
  /\ said \in {"live", "saved"} /\ game # NoGame => game.tuning = Tuning(Found, game.port)
  /\ said = "applied" => narrow[app.stored] = Active(Found, app.stored).narrow /\ force[app.stored] = "none"
  /\ said = "neutral" => lease = Free /\ \A p \in Ports : force[p] = "none"

=============================================================================
