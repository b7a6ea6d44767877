------------------------------- MODULE Setup -------------------------------
(***************************************************************************)
(* The setup assistant, the settings it shares with the main window, and   *)
(* the start of the program that opens it.                                  *)
(*                                                                         *)
(* All of it runs on one thread, but not one handler after the other: a     *)
(* message box runs a message loop of its own and disables only the window  *)
(* it belongs to, so the handlers of the other window, and posted messages, *)
(* run before the one that opened the box goes on.  The open boxes are a     *)
(* stack; what a handler read before its box is kept with the box.  Notices  *)
(* that other threads post are left out.                                     *)
(*                                                                         *)
(* The migration the assistant starts runs in another process; Migration    *)
(* models it.  Here it is what its journal says.                            *)
(***************************************************************************)
EXTENDS Naturals, Sequences

CONSTANTS
  PageCount,      \* pages of the assistant: 8
  Boundary,       \* the page, from 0, that starts the migration: 3
  MaxBoxes,       \* bound: boxes open at once
  MaxMigrations,  \* bound: migrations begun
  MaxStarts,      \* bound: starts of the program
  MaxDamage       \* bound: times settings.json is damaged or written by a newer version

ASSUME SetupAssumption ==
  /\ {PageCount, Boundary, MaxBoxes, MaxMigrations, MaxStarts, MaxDamage} \subseteq Nat
  /\ 1 < Boundary /\ Boundary + 1 < PageCount

VARIABLES
  up,        \* the program runs
  cfg,       \* settings.json and what the program holds of it
  wizard,    \* the assistant's window
  boxes,     \* the open message boxes, the last one on top
  enabled,   \* which of the two windows takes input
  startupActionsDone,
  journal,   \* the status of the last migration
  waiting,   \* goroutines that wait for it
  results,   \* messages of its end that are not handled yet: "success", "failure"
  succeeded, \* history: a migration has succeeded
  migrations, starts, damage

vars == <<up, cfg, wizard, boxes, enabled, startupActionsDone, journal,
          waiting, results, succeeded, migrations, starts, damage>>

(* The fields of settings.json that the handlers tell apart.                *)
Settings == [NativeWheelOutput : BOOLEAN, OfferSetup : BOOLEAN, SetupCompleted : BOOLEAN,
             Deferred : BOOLEAN, ResumeStep : 0..PageCount - 1]

defaultUISettings ==
  [NativeWheelOutput |-> FALSE, OfferSetup |-> TRUE, SetupCompleted |-> FALSE,
   Deferred |-> FALSE, ResumeStep |-> 0]

(* A window that is opened again starts from the settings.                  *)
Closed == [open |-> FALSE, startup |-> FALSE, step |-> 0, running |-> FALSE]

Boxes == [kind : {"risk", "reset", "plan", "note", "failure"}, copy : Settings]

TypeOK ==
  /\ up \in BOOLEAN /\ startupActionsDone \in BOOLEAN /\ succeeded \in BOOLEAN
  /\ cfg \in [health : {"sound", "bad", "newer"}, value : Settings, marker : BOOLEAN,
              prefs : Settings, blocked : BOOLEAN]
  /\ wizard \in [open : BOOLEAN, startup : BOOLEAN, step : 0..PageCount - 1, running : BOOLEAN]
  /\ boxes \in Seq(Boxes) /\ Len(boxes) <= MaxBoxes
  /\ enabled \in [{"main", "setup"} -> BOOLEAN]
  /\ journal \in {"none", "pending", "running", "done", "failed"}
  /\ waiting \in Nat
  /\ results \in Seq({"success", "failure"})
  /\ migrations \in 0..MaxMigrations /\ starts \in 0..MaxStarts /\ damage \in 0..MaxDamage

Init ==
  /\ up = FALSE
  /\ cfg = [health |-> "sound", value |-> defaultUISettings, marker |-> FALSE,
            prefs |-> defaultUISettings, blocked |-> FALSE]
  /\ wizard = Closed /\ boxes = <<>>
  /\ enabled = [w \in {"main", "setup"} |-> TRUE]
  /\ startupActionsDone = FALSE
  /\ journal = "none" /\ waiting = 0 /\ results = <<>>
  /\ succeeded = FALSE
  /\ migrations = 0 /\ starts = 0 /\ damage = 0

-----------------------------------------------------------------------------
(* The settings: read once at the start, then held in memory and written as *)
(* a whole.  A write may fail, and memory follows the file.                  *)

loadUISettings ==
  CASE cfg.health = "sound" -> {[cfg EXCEPT !.prefs = cfg.value, !.blocked = FALSE]}
    [] cfg.health = "newer" -> {[cfg EXCEPT !.prefs = cfg.value, !.blocked = TRUE]}
    [] OTHER -> {[cfg EXCEPT !.prefs = defaultUISettings, !.blocked = FALSE, !.marker = m] :
                   m \in {cfg.marker, TRUE}}

saveUISettings(c) == ~c.blocked /\ ~c.marker

(* The outcomes of replacing the settings c holds by p.                     *)
replaceUISettings(c, p) ==
  {[ok |-> FALSE, cfg |-> c]} \cup
  IF saveUISettings(c)
  THEN {[ok |-> TRUE, cfg |-> [c EXCEPT !.health = "sound", !.value = p, !.prefs = p]]}
  ELSE {}

(* A reset writes whatever the file is, then removes the marker if there is *)
(* one; when that fails, memory keeps the former settings.                  *)
resetUISettingsStorage(c) ==
  LET p == defaultUISettings
      written == [c EXCEPT !.health = "sound", !.value = p]
  IN  { [ok |-> FALSE, cfg |-> c], [ok |-> FALSE, cfg |-> IF c.marker THEN written ELSE c],
        [ok |-> TRUE, cfg |-> [written EXCEPT !.prefs = p, !.marker = FALSE, !.blocked = FALSE]] }

-----------------------------------------------------------------------------
(* Message boxes.                                                           *)

Parent(kind) == IF kind \in {"plan", "failure"} THEN "setup" ELSE "main"

runModernDialog(kind, copy) ==
  /\ Len(boxes) < MaxBoxes
  /\ boxes' = Append(boxes, [kind |-> kind, copy |-> copy])
  /\ enabled' = [enabled EXCEPT ![Parent(kind)] = FALSE]

finishModernDialog(kind) ==
  /\ boxes # <<>> /\ boxes[Len(boxes)].kind = kind
  /\ boxes' = SubSeq(boxes, 1, Len(boxes) - 1)
  /\ enabled' = [enabled EXCEPT ![Parent(kind)] = TRUE]

Top == boxes[Len(boxes)]
NoBox == UNCHANGED <<boxes, enabled>>

Input(window) == up /\ enabled[window] /\ (window = "setup" => wizard.open)

(* What most handlers leave to others.                                      *)
Outside == <<journal, waiting, results, succeeded, migrations, starts, damage>>

(* A box that only says something; it is answered by closing it.            *)
Note == /\ up /\ \E kind \in {"note", "failure"} : finishModernDialog(kind)
        /\ UNCHANGED <<up, cfg, wizard, startupActionsDone, Outside>>

-----------------------------------------------------------------------------
(* The start of the program goes on: what is new is shown once per release, *)
(* and the release is stored, which writes the other settings as they are.   *)

continueStartupAfterSetup(c) == {c} \cup {r.cfg : r \in replaceUISettings(c, c.prefs)}

(* The assistant's window goes, with c the settings at that moment.         *)
destroyed(c) ==
  /\ wizard' = [Closed EXCEPT !.running = wizard.running]
  /\ cfg' \in IF wizard.startup THEN continueStartupAfterSetup(c) ELSE {c}
  /\ UNCHANGED startupActionsDone

(* A window that is open keeps its page and its run; a new one starts where  *)
(* the settings say.                                                         *)
showSetupGuideWindow(fromStartup) ==
  IF wizard.open THEN UNCHANGED wizard
  ELSE wizard' = [open |-> TRUE, startup |-> fromStartup, step |-> cfg.prefs.ResumeStep,
                  running |-> FALSE]

maybeOfferFirstRunSetup ==
  /\ cfg.prefs.OfferSetup /\ ~cfg.prefs.SetupCompleted
  /\ showSetupGuideWindow(TRUE)

(* The timer of a stable start and every new state come here.               *)
maybeRunStartupActions ==
  /\ up /\ ~startupActionsDone
  /\ startupActionsDone' = TRUE
  /\ \/ maybeOfferFirstRunSetup /\ UNCHANGED cfg
     \/ /\ ~cfg.prefs.OfferSetup \/ cfg.prefs.SetupCompleted \/ cfg.prefs.Deferred
        /\ cfg' \in continueStartupAfterSetup(cfg)
        /\ UNCHANGED wizard
  /\ UNCHANGED <<up, boxes, enabled, Outside>>

-----------------------------------------------------------------------------
(* The main window.                                                         *)

(* Store p; a failure is told in a box.                                     *)
Replace(p) ==
  \E r \in replaceUISettings(cfg, p) :
    /\ cfg' = r.cfg
    /\ IF r.ok THEN NoBox ELSE runModernDialog("note", defaultUISettings)

OthersOfMain == UNCHANGED <<up, wizard, startupActionsDone, Outside>>

(* Native output is released; unless the user has accepted the risk before, *)
(* a box asks, and the answer stores the settings as they were read before.  *)
ToggleNativeOn ==
  /\ Input("main") /\ ~cfg.prefs.NativeWheelOutput
  /\ \/ Replace([cfg.prefs EXCEPT !.NativeWheelOutput = TRUE])
     \/ runModernDialog("risk", cfg.prefs) /\ UNCHANGED cfg
  /\ OthersOfMain

RiskAnswered ==
  /\ up
  /\ \/ /\ finishModernDialog("risk")
        /\ \E r \in replaceUISettings(cfg, [Top.copy EXCEPT !.NativeWheelOutput = TRUE]) : cfg' = r.cfg
     \/ finishModernDialog("risk") /\ UNCHANGED cfg
  /\ OthersOfMain

(* It is only taken back once the wheel is neutral; when the stop fails a box  *)
(* says so.                                                                 *)
ToggleNativeOff ==
  /\ Input("main") /\ cfg.prefs.NativeWheelOutput
  /\ \/ Replace([cfg.prefs EXCEPT !.NativeWheelOutput = FALSE])
     \/ runModernDialog("note", defaultUISettings) /\ UNCHANGED cfg
  /\ OthersOfMain

ToggleOfferSetup ==
  /\ Input("main")
  /\ LET on == ~cfg.prefs.OfferSetup
     IN  Replace([cfg.prefs EXCEPT !.OfferSetup = on, !.SetupCompleted = @ /\ ~on])
  /\ OthersOfMain

(* Themes and the other switches store what is in memory.                   *)
setThemeMode == Input("main") /\ Replace(cfg.prefs) /\ OthersOfMain

showCurrentWhatsNew ==
  /\ Input("main")
  /\ \E r \in replaceUISettings(cfg, cfg.prefs) : cfg' = r.cfg
  /\ NoBox /\ OthersOfMain

resetUISettings ==
  Input("main") /\ runModernDialog("reset", defaultUISettings) /\ UNCHANGED cfg /\ OthersOfMain

(* The motor is not stopped, though native output goes off with the rest.   *)
ResetAnswered ==
  /\ up /\ finishModernDialog("reset")
  /\ \/ UNCHANGED cfg
     \/ \E r \in resetUISettingsStorage(cfg) : cfg' = r.cfg
  /\ OthersOfMain

showSetupAssistant ==
  Input("main") /\ showSetupGuideWindow(FALSE) /\ NoBox
  /\ UNCHANGED <<up, cfg, startupActionsDone, Outside>>

(* From the page of the system, or for a wheel that needs the other mode:   *)
(* the page of the modes, also in a window that was open.                   *)
showSetupAssistantForMode ==
  /\ Input("main")
  /\ wizard' = [open |-> TRUE, step |-> 1, startup |-> wizard.startup,
                running |-> wizard.open /\ wizard.running]
  /\ NoBox /\ UNCHANGED <<up, cfg, startupActionsDone, Outside>>

-----------------------------------------------------------------------------
(* The assistant.                                                           *)

persistSetupProgress(step) ==
  \E r \in replaceUISettings(cfg, [cfg.prefs EXCEPT !.ResumeStep = step]) : cfg' = r.cfg

Page(step) ==
  /\ wizard' = [wizard EXCEPT !.step = step]
  /\ persistSetupProgress(step)
  /\ NoBox /\ UNCHANGED <<up, startupActionsDone, Outside>>

(* The arrow keys, also while a migration runs.                             *)
KeyLeft == Input("setup") /\ wizard.step > 0 /\ Page(wizard.step - 1)

AnyPage == wizard.step < PageCount - 1
MayGoRight == wizard.step < PageCount - 1 /\ wizard.step # Boundary

KeyRight == Input("setup") /\ MayGoRight /\ Page(wizard.step + 1)

(* Buttons: none while a migration runs.                                    *)
Button == Input("setup") /\ ~wizard.running

Forward == Button /\ wizard.step \notin {Boundary, PageCount - 1} /\ Page(wizard.step + 1)
Back == Button /\ wizard.step > 0 /\ Page(wizard.step - 1)

AnyTime == Input("setup")
MayClose == Button

(* Escape, the close button of the window, and the one of the first page.   *)
Close == MayClose /\ destroyed(cfg) /\ UNCHANGED <<up, boxes, enabled, Outside>>

(* The close button asks the user to wait for a run.                         *)
CloseRefused ==
  /\ Input("setup") /\ wizard.running
  /\ runModernDialog("failure", defaultUISettings)
  /\ UNCHANGED <<up, cfg, wizard, startupActionsDone, Outside>>

(* Store p and close; when that fails, say so and stay.                     *)
CloseWith(p) ==
  /\ \E r \in replaceUISettings(cfg, p) :
       IF r.ok THEN destroyed(r.cfg) /\ NoBox
       ELSE runModernDialog("failure", defaultUISettings) /\ UNCHANGED <<cfg, wizard, startupActionsDone>>
  /\ UNCHANGED <<up, Outside>>

NeverAgain ==
  /\ Button /\ wizard.step = 0 /\ wizard.startup
  /\ CloseWith([cfg.prefs EXCEPT !.OfferSetup = FALSE, !.SetupCompleted = FALSE,
                                 !.Deferred = FALSE, !.ResumeStep = 0])

deferSetupGuide ==
  /\ Button /\ wizard.step = Boundary
  /\ CloseWith([cfg.prefs EXCEPT !.OfferSetup = TRUE, !.SetupCompleted = FALSE,
                                 !.Deferred = TRUE, !.ResumeStep = Boundary])

completeSetupGuide ==
  /\ Button /\ wizard.step = PageCount - 1
  /\ CloseWith([cfg.prefs EXCEPT !.OfferSetup = FALSE, !.SetupCompleted = TRUE,
                                 !.Deferred = FALSE, !.ResumeStep = 0])

(* Calibration and force feedback are pages of the main window.             *)
OpenPage ==
  /\ Button /\ wizard.step \in Boundary + 2..PageCount - 2
  /\ \E r \in replaceUISettings(cfg, [cfg.prefs EXCEPT !.ResumeStep = wizard.step]) : destroyed(r.cfg)
  /\ UNCHANGED <<up, boxes, enabled, Outside>>

(* The plan is shown; the wheel and the system may also forbid it.          *)
executeSetupPlan ==
  /\ Button /\ wizard.step = Boundary
  /\ \/ runModernDialog("plan", defaultUISettings)
     \/ runModernDialog("failure", defaultUISettings)
  /\ UNCHANGED <<up, cfg, wizard, startupActionsDone, Outside>>

(* The plan is declined, or one of the boxes that end it is closed: options    *)
(* that cannot be met, memory integrity.  They differ in their text alone, and   *)
(* none changes anything.                                                     *)
PlanDeclined ==
  /\ up /\ finishModernDialog("plan")
  /\ UNCHANGED <<up, cfg, wizard, startupActionsDone, Outside>>

BeginMigration == journal \notin {"pending", "running"} /\ migrations < MaxMigrations

(* The plan is confirmed: what is started is what is chosen now.            *)
PlanConfirmed ==
  /\ up /\ BeginMigration /\ boxes # <<>> /\ Top.kind = "plan"
  /\ migrations' = migrations + 1
  /\ \/ /\ journal' = "pending" /\ finishModernDialog("plan")
        /\ wizard' = [wizard EXCEPT !.running = TRUE] /\ waiting' = waiting + 1
     \/ /\ journal' = "failed" /\ UNCHANGED <<wizard, waiting>>
        /\ boxes' = [boxes EXCEPT ![Len(boxes)].kind = "note"]
        /\ enabled' = [enabled EXCEPT !["setup"] = TRUE, !["main"] = FALSE]
  /\ UNCHANGED <<up, cfg, startupActionsDone, results, succeeded, starts, damage>>

-----------------------------------------------------------------------------
(* The migration, and the goroutine that waits for it.                      *)

Journal == /\ \/ journal = "pending" /\ journal' = "running"
              \/ journal = "running" /\ journal' \in {"done", "failed"}
           /\ succeeded' = (succeeded \/ journal' = "done")
           /\ UNCHANGED <<up, cfg, wizard, boxes, enabled, startupActionsDone, waiting, results,
                          migrations, starts, damage>>

Post(result) == waiting' = waiting - 1 /\ results' = Append(results, result)

NeverGivesUp == FALSE
GivesUp == journal = "running"

(* It ends with the migration; after 20 seconds when that has not started,  *)
(* which cancels it unless it starts just then; and after 15 minutes.        *)
waitForSetupMigration ==
  /\ up /\ waiting > 0
  /\ \/ journal = "done" /\ Post("success") /\ UNCHANGED journal
     \/ journal = "failed" /\ Post("failure") /\ UNCHANGED journal
     \/ journal = "pending" /\ journal' = "failed" /\ Post("failure")
     \/ GivesUp /\ Post("failure") /\ UNCHANGED journal
  /\ UNCHANGED <<up, cfg, wizard, boxes, enabled, startupActionsDone, succeeded, migrations, starts, damage>>

Success == Head(results) = "success"

handleSetupMigrationResult ==
  /\ up /\ results # <<>> /\ results' = Tail(results)
  /\ IF Success
     THEN /\ wizard' = [wizard EXCEPT !.running = FALSE, !.step = IF wizard.open THEN Boundary + 1 ELSE 0]
          /\ persistSetupProgress(Boundary + 1) /\ NoBox
     ELSE /\ wizard' = [wizard EXCEPT !.running = FALSE] /\ UNCHANGED cfg
          /\ IF Len(boxes) < MaxBoxes THEN runModernDialog("failure", defaultUISettings) ELSE NoBox
  /\ UNCHANGED <<up, startupActionsDone, journal, waiting, succeeded, migrations, starts, damage>>

-----------------------------------------------------------------------------
(* The process.  An interrupted migration is undone at the start, or stays.  *)

Run ==
  /\ ~up /\ starts < MaxStarts
  /\ up' = TRUE /\ starts' = starts + 1
  /\ cfg' \in loadUISettings
  /\ journal' \in IF journal \in {"pending", "running"} THEN {journal, "failed"} ELSE {journal}
  /\ UNCHANGED <<wizard, boxes, enabled, startupActionsDone, waiting, results, succeeded, migrations, damage>>

(* Closed by the user or cut off: windows, goroutines and messages go.      *)
Exit ==
  /\ up /\ up' = FALSE
  /\ wizard' = Closed /\ boxes' = <<>> /\ enabled' = [w \in {"main", "setup"} |-> TRUE]
  /\ startupActionsDone' = FALSE
  /\ waiting' = 0 /\ results' = <<>>
  /\ cfg' = [cfg EXCEPT !.prefs = defaultUISettings, !.blocked = FALSE]
  /\ UNCHANGED <<journal, succeeded, migrations, starts, damage>>

Damage ==
  /\ ~up /\ damage < MaxDamage /\ damage' = damage + 1
  /\ cfg' \in {[cfg EXCEPT !.health = h] : h \in {"bad", "newer"}}
  /\ UNCHANGED <<up, wizard, boxes, enabled, startupActionsDone, journal, waiting, results,
                 succeeded, migrations, starts>>

-----------------------------------------------------------------------------
MainWindow ==
  \/ ToggleNativeOn \/ RiskAnswered \/ ToggleNativeOff \/ ToggleOfferSetup
  \/ setThemeMode \/ showCurrentWhatsNew \/ resetUISettings \/ ResetAnswered
  \/ showSetupAssistant \/ showSetupAssistantForMode

Assistant ==
  \/ KeyLeft \/ KeyRight \/ Forward \/ Back \/ Close \/ CloseRefused \/ NeverAgain \/ deferSetupGuide
  \/ completeSetupGuide \/ OpenPage \/ executeSetupPlan
  \/ PlanDeclined \/ PlanConfirmed

Next ==
  \/ MainWindow \/ Assistant \/ Note \/ maybeRunStartupActions
  \/ Journal \/ waitForSetupMigration \/ handleSetupMigrationResult
  \/ Run \/ Exit \/ Damage

(* The goroutine polls until its deadline, the message loop, nested or not, *)
(* dispatches what was posted.                                              *)
Spec ==
  /\ Init /\ [][Next]_vars
  /\ WF_vars(waitForSetupMigration) /\ WF_vars(handleSetupMigrationResult)

-----------------------------------------------------------------------------
(* No page behind the migration is reached, or stored to be resumed there,  *)
(* before a migration has succeeded, whichever keys, boxes, failures and     *)
(* restarts come first.                                                      *)
PastBoundary ==
  wizard.step > Boundary \/ cfg.value.ResumeStep > Boundary \/ cfg.prefs.ResumeStep > Boundary
    => succeeded

(* The assistant shows a run exactly while one goroutine waits for it or     *)
(* its message is on the way: no run is forgotten, and none is waited for     *)
(* twice.                                                                    *)
RunningTracked == waiting + Len(results) = IF wizard.running THEN 1 ELSE 0

(* A run that was started comes to an end on the screen.                     *)
RunEnds == wizard.running ~> ~wizard.running

=============================================================================
