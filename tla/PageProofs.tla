----------------------------- MODULE PageProofs -----------------------------
(***************************************************************************)
(* Proofs about the two places where the user sets a wheel up.               *)
(*                                                                         *)
(* The setup assistant, for any number of pages, open boxes, migrations,     *)
(* starts and damaged files: no page behind the migration is reached or      *)
(* stored before a migration has succeeded, and a run on the screen is       *)
(* waited for exactly once.                                                  *)
(*                                                                         *)
(* The wheel page, for any wheels, ports, axes, shifter signatures and        *)
(* faults, and however often each part of it is used: what is stored of the   *)
(* inputs is usable, the status line tells the truth, a check passes only     *)
(* when its test is over, and no evidence is lost.                           *)
(***************************************************************************)
EXTENDS Setup, WheelPage, SequenceTheorems, FiniteSetTheorems, TLAPS

(* The setup assistant.                                                     *)

(* Settings that do not resume behind a migration that has not happened.    *)
Fits(s) == s \in Settings /\ (s.ResumeStep > Boundary => succeeded)

Config == [health : {"sound", "bad", "newer"}, value : Settings, marker : BOOLEAN,
           prefs : Settings, blocked : BOOLEAN]

(* What is stored and what is held in memory fits.                          *)
Good(c) == c \in Config /\ Fits(c.value) /\ Fits(c.prefs)

(* The window is on a page it may be on; a run is shown in an open window.   *)
WindowFits ==
  /\ wizard \in [open : BOOLEAN, startup : BOOLEAN, step : 0..PageCount - 1, running : BOOLEAN]
  /\ wizard.step > Boundary => succeeded
  /\ wizard.running => wizard.open

(* The settings an open box holds fit as well.                              *)
BoxesFit ==
  /\ boxes \in Seq(Boxes) /\ Len(boxes) <= MaxBoxes
  /\ \A i \in 1..Len(boxes) : Fits(boxes[i].copy)
  /\ enabled \in [{"main", "setup"} -> BOOLEAN]

(* While the plan is shown nothing runs, and the assistant takes no input:   *)
(* no box of its own lies above the plan.                                    *)
PlanAlone ==
  \A i \in 1..Len(boxes) :
    boxes[i].kind = "plan" =>
      /\ wizard.open /\ ~wizard.running /\ ~enabled["setup"]
      /\ \A j \in i + 1..Len(boxes) : boxes[j].kind \notin {"plan", "failure"}

(* A success that was written or posted has happened.                       *)
SuccessTrue ==
  /\ journal \in {"none", "pending", "running", "done", "failed"} /\ succeeded \in BOOLEAN
  /\ journal = "done" => succeeded
  /\ waiting \in Nat /\ results \in Seq({"success", "failure"})
  /\ \A i \in 1..Len(results) : results[i] = "success" => succeeded

Counts == /\ up \in BOOLEAN /\ startupActionsDone \in BOOLEAN
          /\ migrations \in 0..MaxMigrations /\ starts \in 0..MaxStarts /\ damage \in 0..MaxDamage

IInv == /\ Good(cfg) /\ WindowFits /\ BoxesFit /\ PlanAlone /\ SuccessTrue /\ Counts
        /\ RunningTracked

-----------------------------------------------------------------------------
(* The settings.                                                            *)

\* The first page, the next one and the page of the migration are pages.
LEMMA Pages ==
  /\ PageCount \in Nat /\ Boundary \in Nat /\ MaxBoxes \in Nat /\ MaxMigrations \in Nat
  /\ MaxStarts \in Nat /\ MaxDamage \in Nat
  /\ {0, 1, Boundary, Boundary + 1} \subseteq 0..PageCount - 1
  /\ ~(0 > Boundary) /\ ~(1 > Boundary) /\ ~(Boundary > Boundary)
<1>1. /\ PageCount \in Nat /\ Boundary \in Nat /\ MaxBoxes \in Nat /\ MaxMigrations \in Nat
      /\ MaxStarts \in Nat /\ MaxDamage \in Nat /\ 1 < Boundary /\ Boundary + 1 < PageCount
  BY SetupAssumption
<1> QED
  BY <1>1

\* The initial settings resume at the first page.
LEMMA DefaultFits == Fits(defaultUISettings)
  BY Pages DEF Fits, Settings, defaultUISettings

\* A change of settings that fit fits, whether it is stored or not.
LEMMA ReplaceFits ==
  ASSUME NEW c, Good(c), NEW p, Fits(p), NEW r \in replaceUISettings(c, p)
  PROVE  r.ok \in BOOLEAN /\ Good(r.cfg)
<1>1. CASE r = [ok |-> FALSE, cfg |-> c]
  BY <1>1
<1>2. CASE r = [ok |-> TRUE, cfg |-> [c EXCEPT !.health = "sound", !.value = p, !.prefs = p]]
  BY <1>2 DEF Good, Config, Fits
<1> QED
  BY <1>1, <1>2 DEF replaceUISettings

\* So does a reset, however far it got.
LEMMA ResetFits ==
  ASSUME NEW c, Good(c), NEW r \in resetUISettingsStorage(c)
  PROVE  Good(r.cfg)
<1> DEFINE written == [c EXCEPT !.health = "sound", !.value = defaultUISettings]
<1>1. Good(written)
  BY DefaultFits DEF Good, Config, Fits
<1>2. Good([written EXCEPT !.prefs = defaultUISettings, !.marker = FALSE, !.blocked = FALSE])
  BY <1>1, DefaultFits DEF Good, Config, Fits
<1> QED
  BY <1>1, <1>2 DEF resetUISettingsStorage

\* So does what is read at the start.
LEMMA LoadFits ==
  ASSUME Good(cfg), NEW c \in loadUISettings
  PROVE  Good(c)
<1>1. CASE cfg.health = "sound"
  BY <1>1 DEF loadUISettings, Good, Config, Fits
<1>2. CASE cfg.health = "newer"
  BY <1>2 DEF loadUISettings, Good, Config, Fits
<1>3. CASE cfg.health \notin {"sound", "newer"}
  <2>1. PICK m \in {cfg.marker, TRUE} :
          c = [cfg EXCEPT !.prefs = defaultUISettings, !.blocked = FALSE, !.marker = m]
    BY <1>3 DEF loadUISettings
  <2>2. m \in BOOLEAN
    BY DEF Good, Config
  <2> QED
    BY <2>1, <2>2, DefaultFits DEF Good, Config, Fits
<1> QED
  BY <1>1, <1>2, <1>3

\* And what the start goes on to store.
LEMMA ContinueFits ==
  ASSUME NEW c, Good(c), NEW d \in continueStartupAfterSetup(c)
  PROVE  Good(d)
  BY ReplaceFits DEF continueStartupAfterSetup, Good

\* A page that may be shown may be stored.
LEMMA ResumeFits ==
  ASSUME NEW s, Fits(s), NEW step \in 0..PageCount - 1, step > Boundary => succeeded
  PROVE  Fits([s EXCEPT !.ResumeStep = step])
  BY DEF Fits, Settings

-----------------------------------------------------------------------------
(* The boxes.                                                               *)

\* A box that is not the plan, and not one of the assistant while the plan is shown,
\* leaves the stack as it should be.
LEMMA BoxOpened ==
  ASSUME BoxesFit, NEW kind \in {"risk", "reset", "plan", "note", "failure"}, NEW copy, Fits(copy),
         runModernDialog(kind, copy), succeeded' = succeeded
  PROVE  /\ BoxesFit'
         /\ PlanAlone /\ UNCHANGED wizard /\ kind \notin {"plan", "failure"} => PlanAlone'
         /\ PlanAlone /\ enabled["setup"] /\ kind # "plan" => PlanAlone'
         /\ PlanAlone /\ enabled["setup"] /\ wizard.open /\ ~wizard.running /\ UNCHANGED wizard
              => PlanAlone'
<1> DEFINE box == [kind |-> kind, copy |-> copy]
<1>1. box \in Boxes
  BY DEF Boxes, Fits
<1>2. /\ boxes' \in Seq(Boxes) /\ Len(boxes') = Len(boxes) + 1 /\ Len(boxes) \in Nat
      /\ \A i \in 1..Len(boxes) : boxes'[i] = boxes[i]
      /\ boxes'[Len(boxes) + 1] = box
  BY <1>1, AppendProperties DEF BoxesFit, runModernDialog
<1>3. Parent(kind) \in {"main", "setup"} /\ enabled' \in [{"main", "setup"} -> BOOLEAN]
  BY DEF Parent, runModernDialog, BoxesFit
<1>4. BoxesFit'
  <2>1. Len(boxes') <= MaxBoxes
    BY <1>2, SetupAssumption DEF runModernDialog
  <2>2. \A i \in 1..Len(boxes)' : Fits(boxes[i].copy)'
    <3>1. \A i \in 1..Len(boxes) : Fits(boxes'[i].copy)
      BY <1>2 DEF BoxesFit
    <3>2. Fits(boxes'[Len(boxes) + 1].copy)
      BY <1>2
    <3>3. \A i \in 1..Len(boxes)' : Fits(boxes'[i].copy)
      BY <1>2, <3>1, <3>2
    <3> QED
      BY <3>3 DEF Fits
  <2> QED
    BY <1>2, <1>3, <2>1, <2>2 DEF BoxesFit
<1>5. enabled'["setup"] = (enabled["setup"] /\ kind \notin {"plan", "failure"})
  BY DEF runModernDialog, Parent, BoxesFit
<1>6. ASSUME PlanAlone, UNCHANGED wizard, kind \notin {"plan", "failure"}
      PROVE  PlanAlone'
  <2>1. \A i \in 1..Len(boxes)' : boxes'[i].kind = "plan" => i \in 1..Len(boxes)
    BY <1>2, <1>6
  <2>2. \A j \in 1..Len(boxes)' : j = Len(boxes) + 1 => boxes'[j].kind = kind
    BY <1>2
  <2>3. \A j \in 1..Len(boxes)' : j \in 1..Len(boxes) \/ j = Len(boxes) + 1
    BY <1>2
  <2>4. ASSUME NEW i \in 1..Len(boxes)', boxes'[i].kind = "plan"
        PROVE  \A j \in i + 1..Len(boxes)' : boxes'[j].kind \notin {"plan", "failure"}
    BY <1>2, <1>6, <2>1, <2>2, <2>3, <2>4 DEF PlanAlone
  <2>5. ASSUME NEW i \in 1..Len(boxes)', boxes'[i].kind = "plan"
        PROVE  wizard'.open /\ ~wizard'.running /\ ~enabled'["setup"]
    BY <1>2, <1>5, <1>6, <2>1, <2>5 DEF PlanAlone
  <2> QED
    BY <2>4, <2>5 DEF PlanAlone
<1>7. ASSUME PlanAlone, enabled["setup"]
      PROVE  \A i \in 1..Len(boxes) : boxes[i].kind # "plan"
  BY <1>7 DEF PlanAlone
<1>8. ASSUME PlanAlone, enabled["setup"], kind # "plan"
      PROVE  PlanAlone'
  BY <1>2, <1>7, <1>8 DEF PlanAlone
<1>9. ASSUME PlanAlone, enabled["setup"], wizard.open, ~wizard.running, UNCHANGED wizard
      PROVE  PlanAlone'
  <2>1. \A i \in 1..Len(boxes)' : boxes'[i].kind = "plan" => i = Len(boxes) + 1 /\ kind = "plan"
    BY <1>2, <1>7, <1>9
  <2>2. \A j \in Len(boxes) + 1 + 1..Len(boxes)' : FALSE
    BY <1>2
  <2>3. kind = "plan" => ~enabled'["setup"]
    BY <1>5
  <2> QED
    BY <1>9, <2>1, <2>2, <2>3 DEF PlanAlone
<1> QED
  BY <1>4, <1>6, <1>8, <1>9

\* The answer to a box takes it from the stack; when it was the plan, no plan is left.
LEMMA BoxClosed ==
  ASSUME BoxesFit, PlanAlone, NEW kind, finishModernDialog(kind), succeeded' = succeeded
  PROVE  /\ BoxesFit' /\ Fits(Top.copy) /\ Len(boxes) \in Nat \ {0}
         /\ kind = "plan" => /\ wizard.open /\ ~wizard.running
                             /\ \A i \in 1..Len(boxes)' : boxes'[i].kind # "plan"
         /\ UNCHANGED wizard => PlanAlone'
<1>1. Len(boxes) \in Nat \ {0}
  BY EmptySeq DEF BoxesFit, finishModernDialog
<1>2. /\ boxes' \in Seq(Boxes) /\ Len(boxes') = Len(boxes) - 1
      /\ \A i \in 1..Len(boxes) - 1 : boxes'[i] = boxes[i]
  <2>1. \A i \in 1..Len(boxes) - 1 : boxes[i] \in Boxes
    BY <1>1, ElementOfSeq DEF BoxesFit
  <2> DEFINE n == Len(boxes) - 1
  <2>2. n \in Int /\ n - 1 + 1 = n /\ (IF 1 <= n THEN n - 1 + 1 ELSE 0) = n
    <3>1. \A m \in Nat \ {0} : /\ m - 1 \in Int /\ (m - 1) - 1 + 1 = m - 1
                               /\ (IF 1 <= m - 1 THEN (m - 1) - 1 + 1 ELSE 0) = m - 1
      OBVIOUS
    <3> QED
      BY <1>1, <3>1
  <2>3. boxes' = SubSeq(boxes, 1, n)
    BY DEF finishModernDialog
  <2>4. \A i \in 1..n : boxes[i] \in Boxes
    BY <2>1
  <2> HIDE DEF n
  <2>5. /\ SubSeq(boxes, 1, n) \in Seq(Boxes)
        /\ Len(SubSeq(boxes, 1, n)) = IF 1 <= n THEN n - 1 + 1 ELSE 0
        /\ \A i \in 1..n - 1 + 1 : SubSeq(boxes, 1, n)[i] = boxes[1 + i - 1]
    BY <2>2, <2>4, SubSeqProperties
  <2>6. \A i \in 1..n : 1 + i - 1 = i
    BY <2>2
  <2>7. boxes' \in Seq(Boxes) /\ Len(boxes') = n /\ \A i \in 1..n : boxes'[i] = boxes[i]
    BY <2>2, <2>3, <2>5, <2>6
  <2> QED
    BY <2>7 DEF n
<1>3. boxes[Len(boxes)].kind = kind
  BY DEF finishModernDialog
<1>4. BoxesFit'
  <2>1. \A i \in 1..Len(boxes)' : Fits(boxes[i].copy)'
    <3>1. \A i \in 1..Len(boxes)' : Fits(boxes'[i].copy)
      BY <1>1, <1>2 DEF BoxesFit
    <3> QED
      BY <3>1 DEF Fits
  <2>2. enabled' \in [{"main", "setup"} -> BOOLEAN]
    BY DEF finishModernDialog, BoxesFit
  <2> QED
    BY <1>1, <1>2, <2>1, <2>2, SetupAssumption DEF BoxesFit
<1>5. Fits(Top.copy)
  BY <1>1 DEF BoxesFit, Top
<1>6. kind = "plan" => /\ wizard.open /\ ~wizard.running
                       /\ \A i \in 1..Len(boxes)' : boxes'[i].kind # "plan"
  BY <1>1, <1>2, <1>3 DEF PlanAlone
<1>7. kind = "failure" => \A i \in 1..Len(boxes)' : boxes'[i].kind # "plan"
  BY <1>1, <1>2, <1>3 DEF PlanAlone
<1>8. kind \notin {"plan", "failure"} => enabled'["setup"] = enabled["setup"]
  BY DEF finishModernDialog, Parent, BoxesFit
<1>9. UNCHANGED wizard => PlanAlone'
  BY <1>1, <1>2, <1>6, <1>7, <1>8 DEF PlanAlone
<1> QED
  BY <1>1, <1>4, <1>5, <1>6, <1>9

\* Without a change of the boxes the plan stays alone as long as the window stays as it is.
LEMMA NoBoxKept ==
  ASSUME BoxesFit, NoBox, succeeded' = succeeded
  PROVE  /\ BoxesFit'
         /\ PlanAlone /\ wizard'.running = wizard.running /\ (wizard.open => wizard'.open) => PlanAlone'
         /\ PlanAlone /\ enabled["setup"] => PlanAlone'
<1>1. boxes' = boxes /\ enabled' = enabled
  BY DEF NoBox
<1> QED
  BY <1>1 DEF BoxesFit, Fits, PlanAlone

-----------------------------------------------------------------------------
(* One lemma per kind of step.                                              *)

\* What a handler that leaves the migration alone has to show.
LEMMA HandlerKeeps ==
  ASSUME IInv, UNCHANGED <<up, Outside>>, startupActionsDone' \in BOOLEAN,
         Good(cfg'), BoxesFit', PlanAlone',
         wizard' \in [open : BOOLEAN, startup : BOOLEAN, step : 0..PageCount - 1, running : BOOLEAN],
         wizard'.step > Boundary => succeeded,
         wizard'.running = wizard.running, wizard'.running => wizard'.open
  PROVE  IInv'
<1>1. /\ up' = up /\ journal' = journal /\ waiting' = waiting /\ results' = results
      /\ succeeded' = succeeded /\ migrations' = migrations /\ starts' = starts /\ damage' = damage
  BY DEF Outside
<1>2. Good(cfg)'
  BY <1>1 DEF Good, Fits
<1>3. WindowFits'
  BY <1>1 DEF WindowFits
<1>4. SuccessTrue' /\ Counts'
  BY <1>1 DEF IInv, SuccessTrue, Counts
<1>5. RunningTracked'
  BY <1>1 DEF IInv, RunningTracked
<1> QED
  BY <1>2, <1>3, <1>4, <1>5 DEF IInv

\* The window is shown on a page it may be on, also when it was open.
LEMMA GuideShown ==
  ASSUME IInv, NEW fromStartup \in BOOLEAN, showSetupGuideWindow(fromStartup)
  PROVE  /\ wizard' \in [open : BOOLEAN, startup : BOOLEAN, step : 0..PageCount - 1, running : BOOLEAN]
         /\ wizard'.step > Boundary => succeeded
         /\ wizard'.running = wizard.running /\ wizard'.open
<1>1. CASE wizard.open
  BY <1>1 DEF showSetupGuideWindow, IInv, WindowFits
<1>2. CASE ~wizard.open
  <2>1. wizard.running = FALSE
    BY <1>2 DEF IInv, WindowFits
  <2>2. cfg.prefs.ResumeStep \in 0..PageCount - 1 /\ (cfg.prefs.ResumeStep > Boundary => succeeded)
    BY DEF IInv, Good, Fits, Settings
  <2>3. wizard' = [open |-> TRUE, startup |-> fromStartup, step |-> cfg.prefs.ResumeStep,
                   running |-> FALSE]
    BY <1>2 DEF showSetupGuideWindow
  <2>4. wizard' \in [open : BOOLEAN, startup : BOOLEAN, step : 0..PageCount - 1, running : BOOLEAN]
    BY <2>2, <2>3
  <2> QED
    BY <2>1, <2>2, <2>3, <2>4
<1> QED
  BY <1>1, <1>2

\* A handler of the main window that changes settings and boxes only.
LEMMA MainKeeps ==
  ASSUME IInv, OthersOfMain, Good(cfg'), BoxesFit', PlanAlone'
  PROVE  IInv'
<1>1. wizard' = wizard /\ UNCHANGED <<up, Outside>> /\ startupActionsDone' \in BOOLEAN
  BY DEF OthersOfMain, IInv, Counts
<1> QED
  BY <1>1, HandlerKeeps DEF IInv, WindowFits

\* Settings that fit are stored, or a box of the main window tells the failure.
LEMMA ReplaceKeeps ==
  ASSUME IInv, OthersOfMain, NEW p, Fits(p), Replace(p)
  PROVE  IInv'
<1>1. PICK r \in replaceUISettings(cfg, p) :
        /\ cfg' = r.cfg
        /\ IF r.ok THEN NoBox ELSE runModernDialog("note", defaultUISettings)
  BY DEF Replace
<1>2. Good(cfg')
  BY <1>1, ReplaceFits DEF IInv
<1>3. succeeded' = succeeded /\ wizard' = wizard
  BY DEF OthersOfMain, Outside
<1>4. CASE r.ok
  BY <1>1, <1>2, <1>3, <1>4, NoBoxKept, MainKeeps DEF IInv, WindowFits
<1>5. CASE ~r.ok
  BY <1>1, <1>2, <1>3, <1>5, BoxOpened, DefaultFits, MainKeeps DEF IInv
<1> QED
  BY <1>4, <1>5

\* The main window asks or tells something.
LEMMA AskKeeps ==
  ASSUME IInv, OthersOfMain, NEW kind \in {"risk", "reset", "note"}, NEW copy, Fits(copy),
         runModernDialog(kind, copy), UNCHANGED cfg
  PROVE  IInv'
<1>1. succeeded' = succeeded /\ wizard' = wizard
  BY DEF OthersOfMain, Outside
<1>2. BoxesFit' /\ PlanAlone'
  BY <1>1, BoxOpened DEF IInv
<1> QED
  BY <1>2, MainKeeps DEF IInv

\* A box of the main window is answered.
LEMMA AnswerKeeps ==
  ASSUME IInv, OthersOfMain, NEW kind, finishModernDialog(kind), Good(cfg')
  PROVE  IInv'
<1>1. succeeded' = succeeded /\ wizard' = wizard
  BY DEF OthersOfMain, Outside
<1> QED
  BY <1>1, BoxClosed, MainKeeps DEF IInv

\* Every handler of the main window.
LEMMA MainWindowKeeps ==
  ASSUME IInv, MainWindow
  PROVE  IInv'
<1>0. Good(cfg) /\ Fits(cfg.prefs)
  BY DEF IInv, Good
<1>1. CASE ToggleNativeOn
  <2>1. Fits([cfg.prefs EXCEPT !.NativeWheelOutput = TRUE])
    BY <1>0 DEF Fits, Settings
  <2> QED
    BY <1>0, <1>1, <2>1, ReplaceKeeps, AskKeeps DEF ToggleNativeOn
<1>2. CASE RiskAnswered
  <2>1. finishModernDialog("risk") /\ OthersOfMain
    BY <1>2 DEF RiskAnswered
  <2>2. Fits(Top.copy)
    BY <2>1, BoxClosed DEF IInv, OthersOfMain, Outside
  <2>3. Fits([Top.copy EXCEPT !.NativeWheelOutput = TRUE])
    BY <2>2 DEF Fits, Settings
  <2>4. Good(cfg')
    BY <1>0, <1>2, <2>3, ReplaceFits DEF RiskAnswered
  <2> QED
    BY <2>1, <2>4, AnswerKeeps
<1>3. CASE ToggleNativeOff
  <2>1. Fits([cfg.prefs EXCEPT !.NativeWheelOutput = FALSE])
    BY <1>0 DEF Fits, Settings
  <2> QED
    BY <1>3, <2>1, ReplaceKeeps, AskKeeps, DefaultFits DEF ToggleNativeOff
<1>4. CASE ToggleOfferSetup
  <2>1. \A on \in BOOLEAN :
          Fits([cfg.prefs EXCEPT !.OfferSetup = on, !.SetupCompleted = @ /\ ~on])
    BY <1>0 DEF Fits, Settings
  <2>2. (~cfg.prefs.OfferSetup) \in BOOLEAN
    OBVIOUS
  <2> QED
    BY <1>4, <2>1, <2>2, ReplaceKeeps DEF ToggleOfferSetup
<1>5. CASE setThemeMode
  BY <1>0, <1>5, ReplaceKeeps DEF setThemeMode
<1>6. CASE showCurrentWhatsNew
  <2>1. Good(cfg') /\ OthersOfMain /\ NoBox
    BY <1>0, <1>6, ReplaceFits DEF showCurrentWhatsNew
  <2>2. BoxesFit' /\ PlanAlone'
    BY <2>1, NoBoxKept DEF IInv, OthersOfMain, Outside
  <2> QED
    BY <2>1, <2>2, MainKeeps
<1>7. CASE resetUISettings
  BY <1>7, AskKeeps, DefaultFits DEF resetUISettings
<1>8. CASE ResetAnswered
  <2>1. Good(cfg')
    BY <1>0, <1>8, ResetFits DEF ResetAnswered
  <2> QED
    BY <1>8, <2>1, AnswerKeeps DEF ResetAnswered
<1>9. CASE showSetupAssistant
  <2>1. /\ NoBox /\ UNCHANGED <<up, Outside>> /\ cfg' = cfg
        /\ startupActionsDone' \in BOOLEAN /\ succeeded' = succeeded
    BY <1>9 DEF showSetupAssistant, IInv, Counts, Outside
  <2>2. /\ wizard' \in [open : BOOLEAN, startup : BOOLEAN, step : 0..PageCount - 1, running : BOOLEAN]
        /\ wizard'.step > Boundary => succeeded
        /\ wizard'.running = wizard.running /\ wizard'.open
    BY <1>9, GuideShown DEF showSetupAssistant
  <2> QED
    BY <1>0, <2>1, <2>2, NoBoxKept, HandlerKeeps DEF IInv
<1>10. CASE showSetupAssistantForMode
  <2>1. /\ NoBox /\ UNCHANGED <<up, Outside>> /\ cfg' = cfg
        /\ startupActionsDone' \in BOOLEAN /\ succeeded' = succeeded
    BY <1>10 DEF showSetupAssistantForMode, IInv, Counts, Outside
  <2>2. /\ wizard' \in [open : BOOLEAN, startup : BOOLEAN, step : 0..PageCount - 1, running : BOOLEAN]
        /\ wizard'.step > Boundary => succeeded
        /\ wizard'.running = wizard.running /\ wizard'.open
    <3>1. 1 \in 0..PageCount - 1 /\ ~(1 > Boundary)
      BY Pages
    <3>2. /\ wizard.open \in BOOLEAN /\ wizard.startup \in BOOLEAN /\ wizard.running \in BOOLEAN
          /\ wizard.running => wizard.open
      BY DEF IInv, WindowFits
    <3>3. (wizard.open /\ wizard.running) = wizard.running
      BY <3>2
    <3>4. wizard' = [open |-> TRUE, step |-> 1, startup |-> wizard.startup, running |-> wizard.running]
      BY <1>10, <3>3 DEF showSetupAssistantForMode
    <3>5. wizard' \in [open : BOOLEAN, startup : BOOLEAN, step : 0..PageCount - 1, running : BOOLEAN]
      BY <3>1, <3>2, <3>4
    <3> QED
      BY <3>1, <3>4, <3>5
  <2> QED
    BY <1>0, <2>1, <2>2, NoBoxKept, HandlerKeeps DEF IInv
<1> QED
  BY <1>1, <1>2, <1>3, <1>4, <1>5, <1>6, <1>7, <1>8, <1>9, <1>10 DEF MainWindow

\* A page is shown and stored.
LEMMA PageKeeps ==
  ASSUME IInv, NEW step \in 0..PageCount - 1, step > Boundary => succeeded, Page(step)
  PROVE  IInv'
<1>1. /\ NoBox /\ UNCHANGED <<up, Outside>> /\ startupActionsDone' \in BOOLEAN
      /\ succeeded' = succeeded /\ wizard' = [wizard EXCEPT !.step = step]
  BY DEF Page, IInv, Counts, Outside
<1>2. Good(cfg')
  BY ResumeFits, ReplaceFits DEF Page, persistSetupProgress, IInv, Good
<1>3. /\ wizard' \in [open : BOOLEAN, startup : BOOLEAN, step : 0..PageCount - 1, running : BOOLEAN]
      /\ wizard'.step = step /\ wizard'.running = wizard.running /\ wizard'.open = wizard.open
  BY <1>1 DEF IInv, WindowFits
<1> QED
  BY <1>1, <1>2, <1>3, NoBoxKept, HandlerKeeps DEF IInv, WindowFits

\* The window is closed, with settings that fit, while nothing runs.
LEMMA DestroyedKeeps ==
  ASSUME IInv, NEW c, Good(c), destroyed(c), Input("setup"), ~wizard.running, NoBox,
         UNCHANGED <<up, Outside>>
  PROVE  IInv'
<1>1. /\ startupActionsDone' \in BOOLEAN /\ succeeded' = succeeded
      /\ wizard' = [Closed EXCEPT !.running = wizard.running]
  BY DEF destroyed, IInv, Counts, Outside
<1>2. Good(cfg')
  BY ContinueFits DEF destroyed
<1>3. /\ wizard' \in [open : BOOLEAN, startup : BOOLEAN, step : 0..PageCount - 1, running : BOOLEAN]
      /\ ~(wizard'.step > Boundary) /\ wizard'.running = wizard.running
  <2>1. wizard.running \in BOOLEAN
    BY DEF IInv, WindowFits
  <2>2. wizard' = [open |-> FALSE, startup |-> FALSE, step |-> 0, running |-> wizard.running]
    BY <1>1 DEF Closed
  <2> QED
    BY <2>1, <2>2, Pages
<1> QED
  BY <1>1, <1>2, <1>3, NoBoxKept, HandlerKeeps DEF IInv, Input

\* The assistant asks or tells something.
LEMMA SetupAskKeeps ==
  ASSUME IInv, Input("setup"), NEW kind \in {"plan", "failure"}, kind = "plan" => ~wizard.running,
         runModernDialog(kind, defaultUISettings),
         UNCHANGED <<up, cfg, wizard, startupActionsDone, Outside>>
  PROVE  IInv'
<1>1. /\ UNCHANGED <<up, Outside>> /\ startupActionsDone' \in BOOLEAN /\ succeeded' = succeeded
      /\ wizard' = wizard /\ cfg' = cfg
  BY DEF IInv, Counts, Outside
<1>2. BoxesFit' /\ PlanAlone'
  BY <1>1, BoxOpened, DefaultFits DEF IInv, Input
<1> QED
  BY <1>1, <1>2, HandlerKeeps DEF IInv, WindowFits

\* Settings that fit are stored and the window closed, or a box tells the failure.
LEMMA CloseWithKeeps ==
  ASSUME IInv, Button, NEW p, Fits(p), CloseWith(p)
  PROVE  IInv'
<1>1. PICK r \in replaceUISettings(cfg, p) :
        IF r.ok THEN destroyed(r.cfg) /\ NoBox
        ELSE /\ runModernDialog("failure", defaultUISettings)
             /\ UNCHANGED <<cfg, wizard, startupActionsDone>>
  BY DEF CloseWith
<1>2. Good(r.cfg) /\ UNCHANGED <<up, Outside>> /\ Input("setup") /\ ~wizard.running
  BY ReplaceFits DEF IInv, CloseWith, Button
<1>3. CASE r.ok
  BY <1>1, <1>2, <1>3, DestroyedKeeps
<1>4. CASE ~r.ok
  <2>1. UNCHANGED <<up, cfg, wizard, startupActionsDone, Outside>>
    BY <1>1, <1>2, <1>4
  <2> QED
    BY <1>1, <1>2, <1>4, <2>1, SetupAskKeeps
<1> QED
  BY <1>3, <1>4

\* The plan is confirmed: the run is shown and waited for, or a box of the main window
\* takes the place of the plan.
LEMMA ConfirmKeeps ==
  ASSUME IInv, PlanConfirmed
  PROVE  IInv'
<1>0. /\ up' = up /\ cfg' = cfg /\ startupActionsDone' = startupActionsDone
      /\ results' = results /\ succeeded' = succeeded /\ starts' = starts /\ damage' = damage
      /\ migrations' = migrations + 1 /\ migrations < MaxMigrations
  BY DEF PlanConfirmed, BeginMigration
<1>1. Good(cfg)' /\ Counts'
  <2>1. MaxMigrations \in Nat
    BY SetupAssumption
  <2> QED
    BY <1>0, <2>1 DEF IInv, Good, Fits, Counts
<1>2. CASE journal' = "pending" /\ finishModernDialog("plan")
           /\ wizard' = [wizard EXCEPT !.running = TRUE] /\ waiting' = waiting + 1
  <2>1. /\ BoxesFit' /\ wizard.open /\ ~wizard.running
        /\ \A i \in 1..Len(boxes)' : boxes'[i].kind # "plan"
    BY <1>0, <1>2, BoxClosed DEF IInv
  <2>2. WindowFits'
    BY <1>0, <1>2, <2>1 DEF IInv, WindowFits
  <2>3. SuccessTrue'
    BY <1>0, <1>2 DEF IInv, SuccessTrue
  <2>4. RunningTracked'
    <3>1. Len(results) \in Nat /\ waiting \in Nat
      BY EmptySeq, LenProperties DEF IInv, SuccessTrue
    <3>2. wizard'.running
      BY <1>2 DEF IInv, WindowFits
    <3> QED
      BY <1>0, <1>2, <2>1, <3>1, <3>2 DEF IInv, RunningTracked
  <2> QED
    BY <1>1, <2>1, <2>2, <2>3, <2>4 DEF IInv, PlanAlone
<1>3. CASE /\ journal' = "failed" /\ UNCHANGED <<wizard, waiting>>
           /\ boxes' = [boxes EXCEPT ![Len(boxes)].kind = "note"]
           /\ enabled' = [enabled EXCEPT !["setup"] = TRUE, !["main"] = FALSE]
  <2>1. Top.kind = "plan" /\ boxes # <<>> /\ Len(boxes) \in Nat \ {0} /\ boxes \in Seq(Boxes)
    BY EmptySeq DEF IInv, BoxesFit, PlanConfirmed
  <2>2. Top \in Boxes /\ Fits(Top.copy)
    BY <2>1, ElementOfSeq DEF IInv, BoxesFit, Top
  <2> DEFINE note == [Top EXCEPT !.kind = "note"]
  <2>3. note \in Boxes /\ note.copy = Top.copy /\ note.kind = "note"
    BY <2>2 DEF Boxes
  <2>4. boxes' = [boxes EXCEPT ![Len(boxes)] = note]
    BY <1>3 DEF Top
  <2> HIDE DEF note
  <2>5. /\ boxes' \in Seq(Boxes) /\ Len(boxes') = Len(boxes)
        /\ \A i \in 1..Len(boxes) : boxes'[i] = IF i = Len(boxes) THEN note ELSE boxes[i]
    <3>1. Len(boxes) \in 1..Len(boxes)
      BY <2>1
    <3> QED
      BY <2>1, <2>3, <2>4, <3>1, ExceptSeq
  <2>6. BoxesFit'
    <3>1. \A i \in 1..Len(boxes) : Fits(boxes'[i].copy)
      BY <2>2, <2>3, <2>5 DEF IInv, BoxesFit
    <3>2. enabled' \in [{"main", "setup"} -> BOOLEAN]
      BY <1>3 DEF IInv, BoxesFit
    <3> QED
      BY <1>0, <2>5, <3>1, <3>2 DEF IInv, BoxesFit, Fits
  <2>7. \A i \in 1..Len(boxes)' : boxes'[i].kind # "plan"
    <3>1. \A i \in 1..Len(boxes) : boxes[i].kind = "plan" => i = Len(boxes)
      BY <2>1 DEF IInv, PlanAlone, Top
    <3> QED
      BY <2>3, <2>5, <3>1
  <2>8. WindowFits' /\ SuccessTrue' /\ RunningTracked'
    BY <1>0, <1>3 DEF IInv, WindowFits, SuccessTrue, RunningTracked
  <2> QED
    BY <1>1, <2>6, <2>7, <2>8 DEF IInv, PlanAlone
<1> QED
  BY <1>2, <1>3 DEF PlanConfirmed

\* Every handler of the assistant.
LEMMA AssistantKeeps ==
  ASSUME IInv, Assistant
  PROVE  IInv'
<1>0. /\ Good(cfg) /\ Fits(cfg.prefs) /\ PageCount \in Nat /\ Boundary \in Nat
      /\ wizard.step \in 0..PageCount - 1 /\ (wizard.step > Boundary => succeeded)
  BY SetupAssumption DEF IInv, Good, WindowFits
<1>1. CASE KeyLeft
  BY <1>0, <1>1, PageKeeps DEF KeyLeft
<1>2. CASE KeyRight
  <2>1. wizard.step + 1 \in 0..PageCount - 1 /\ (wizard.step + 1 > Boundary => succeeded)
    BY <1>0, <1>2 DEF KeyRight, MayGoRight
  <2> QED
    BY <1>2, <2>1, PageKeeps DEF KeyRight
<1>3. CASE Forward
  <2>1. wizard.step + 1 \in 0..PageCount - 1 /\ (wizard.step + 1 > Boundary => succeeded)
    BY <1>0, <1>3 DEF Forward
  <2> QED
    BY <1>3, <2>1, PageKeeps DEF Forward
<1>4. CASE Back
  BY <1>0, <1>4, PageKeeps DEF Back
<1>5. CASE Close
  <2>1. UNCHANGED <<up, Outside>> /\ NoBox
    BY <1>5 DEF Close, NoBox, Outside
  <2> QED
    BY <1>0, <1>5, <2>1, DestroyedKeeps DEF Close, MayClose, Button
<1>6. CASE CloseRefused
  BY <1>6, SetupAskKeeps DEF CloseRefused
<1>7. CASE NeverAgain
  <2>1. Fits([cfg.prefs EXCEPT !.OfferSetup = FALSE, !.SetupCompleted = FALSE,
                               !.Deferred = FALSE, !.ResumeStep = 0])
    BY <1>0, Pages DEF Fits, Settings
  <2> QED
    BY <1>7, <2>1, CloseWithKeeps DEF NeverAgain
<1>8. CASE deferSetupGuide
  <2>1. Fits([cfg.prefs EXCEPT !.OfferSetup = TRUE, !.SetupCompleted = FALSE,
                               !.Deferred = TRUE, !.ResumeStep = Boundary])
    BY <1>0, Pages DEF Fits, Settings
  <2> QED
    BY <1>8, <2>1, CloseWithKeeps DEF deferSetupGuide
<1>9. CASE completeSetupGuide
  <2>1. Fits([cfg.prefs EXCEPT !.OfferSetup = FALSE, !.SetupCompleted = TRUE,
                               !.Deferred = FALSE, !.ResumeStep = 0])
    BY <1>0, Pages DEF Fits, Settings
  <2> QED
    BY <1>9, <2>1, CloseWithKeeps DEF completeSetupGuide
<1>10. CASE OpenPage
  <2>1. Fits([cfg.prefs EXCEPT !.ResumeStep = wizard.step])
    BY <1>0, ResumeFits
  <2>2. PICK r \in replaceUISettings(cfg, [cfg.prefs EXCEPT !.ResumeStep = wizard.step]) :
          destroyed(r.cfg)
    BY <1>10 DEF OpenPage
  <2>3. Good(r.cfg)
    BY <1>0, <2>1, ReplaceFits
  <2>4. UNCHANGED <<up, Outside>> /\ NoBox
    BY <1>10 DEF OpenPage, NoBox, Outside
  <2> QED
    BY <1>10, <2>2, <2>3, <2>4, DestroyedKeeps DEF OpenPage, Button
<1>11. CASE executeSetupPlan
  BY <1>11, SetupAskKeeps DEF executeSetupPlan, Button
<1>12. CASE PlanDeclined
  <2>1. /\ UNCHANGED <<up, Outside>> /\ startupActionsDone' \in BOOLEAN /\ succeeded' = succeeded
        /\ wizard' = wizard /\ cfg' = cfg
    BY <1>12 DEF PlanDeclined, IInv, Counts, Outside
  <2>2. BoxesFit' /\ PlanAlone'
    BY <1>12, <2>1, BoxClosed DEF PlanDeclined, IInv
  <2> QED
    BY <2>1, <2>2, HandlerKeeps DEF IInv, WindowFits
<1>13. CASE PlanConfirmed
  BY <1>13, ConfirmKeeps
<1> QED
  BY <1>1, <1>2, <1>3, <1>4, <1>5, <1>6, <1>7, <1>8, <1>9, <1>10, <1>11, <1>12, <1>13 DEF Assistant

\* A note is closed.
LEMMA NoteKeeps ==
  ASSUME IInv, Note
  PROVE  IInv'
<1>1. /\ UNCHANGED <<up, Outside>> /\ startupActionsDone' \in BOOLEAN /\ succeeded' = succeeded
      /\ wizard' = wizard /\ cfg' = cfg
  BY DEF Note, IInv, Counts, Outside
<1>2. BoxesFit' /\ PlanAlone'
  BY <1>1, BoxClosed DEF Note, IInv
<1> QED
  BY <1>1, <1>2, HandlerKeeps DEF IInv, WindowFits

\* The start offers the assistant or goes on.
LEMMA StartupKeeps ==
  ASSUME IInv, maybeRunStartupActions
  PROVE  IInv'
<1>1. /\ UNCHANGED <<up, Outside>> /\ startupActionsDone' \in BOOLEAN /\ succeeded' = succeeded
      /\ NoBox
  BY DEF maybeRunStartupActions, Outside, NoBox
<1>2. CASE maybeOfferFirstRunSetup /\ UNCHANGED cfg
  <2>1. /\ wizard' \in [open : BOOLEAN, startup : BOOLEAN, step : 0..PageCount - 1, running : BOOLEAN]
        /\ wizard'.step > Boundary => succeeded
        /\ wizard'.running = wizard.running /\ wizard'.open
    BY <1>2, GuideShown DEF maybeOfferFirstRunSetup
  <2> QED
    BY <1>1, <1>2, <2>1, NoBoxKept, HandlerKeeps DEF IInv
<1>3. CASE cfg' \in continueStartupAfterSetup(cfg) /\ UNCHANGED wizard
  BY <1>1, <1>3, ContinueFits, NoBoxKept, HandlerKeeps DEF IInv, WindowFits
<1> QED
  BY <1>2, <1>3 DEF maybeRunStartupActions

\* The migration goes on in its own process: a success of the past stays one.
LEMMA JournalKeeps ==
  ASSUME IInv, Journal
  PROVE  IInv'
<1>1. /\ cfg' = cfg /\ wizard' = wizard /\ boxes' = boxes /\ enabled' = enabled
      /\ waiting' = waiting /\ results' = results /\ up' = up
      /\ startupActionsDone' = startupActionsDone
      /\ migrations' = migrations /\ starts' = starts /\ damage' = damage
  BY DEF Journal
<1>2. succeeded' \in BOOLEAN /\ (succeeded => succeeded') /\ (journal' = "done" => succeeded')
      /\ journal' \in {"none", "pending", "running", "done", "failed"}
  BY DEF Journal, IInv, SuccessTrue
<1>3. Good(cfg)' /\ WindowFits' /\ BoxesFit'
  BY <1>1, <1>2 DEF IInv, Good, Fits, WindowFits, BoxesFit
<1> QED
  BY <1>1, <1>2, <1>3 DEF IInv, PlanAlone, SuccessTrue, Counts, RunningTracked

\* One goroutine less waits, one message more is on the way.
LEMMA WaitKeeps ==
  ASSUME IInv, waitForSetupMigration
  PROVE  IInv'
<1>1. /\ cfg' = cfg /\ wizard' = wizard /\ boxes' = boxes /\ enabled' = enabled
      /\ succeeded' = succeeded /\ up' = up /\ startupActionsDone' = startupActionsDone
      /\ migrations' = migrations /\ starts' = starts /\ damage' = damage /\ waiting > 0
  BY DEF waitForSetupMigration
<1>2. PICK result \in {"success", "failure"} :
        /\ Post(result) /\ (result = "success" => succeeded)
        /\ journal' = journal \/ journal' = "failed"
  BY DEF waitForSetupMigration, IInv, SuccessTrue
<1>3. waiting \in Nat /\ results \in Seq({"success", "failure"}) /\ Len(results) \in Nat
  BY LenProperties DEF IInv, SuccessTrue
<1>4. /\ results' \in Seq({"success", "failure"}) /\ Len(results') = Len(results) + 1
      /\ \A i \in 1..Len(results) : results'[i] = results[i]
      /\ results'[Len(results) + 1] = result
  BY <1>2, <1>3, AppendProperties DEF Post
<1>5. SuccessTrue'
  <2>1. \A i \in 1..Len(results') : results'[i] = "success" => succeeded
    BY <1>2, <1>3, <1>4 DEF IInv, SuccessTrue
  <2>2. waiting' \in Nat
    BY <1>1, <1>2, <1>3 DEF Post
  <2> QED
    BY <1>1, <1>2, <1>4, <2>1, <2>2 DEF IInv, SuccessTrue
<1>6. RunningTracked'
  BY <1>1, <1>2, <1>3, <1>4 DEF IInv, RunningTracked, Post
<1>7. Good(cfg)' /\ WindowFits' /\ BoxesFit' /\ PlanAlone' /\ Counts'
  BY <1>1 DEF IInv, Good, Fits, WindowFits, BoxesFit, PlanAlone, Counts
<1> QED
  BY <1>5, <1>6, <1>7 DEF IInv

\* The message of the end ends the run on the screen; no plan is shown at that moment.
LEMMA ResultKeeps ==
  ASSUME IInv, handleSetupMigrationResult
  PROVE  IInv'
<1>1. /\ up' = up /\ startupActionsDone' = startupActionsDone /\ journal' = journal
      /\ waiting' = waiting /\ succeeded' = succeeded /\ migrations' = migrations
      /\ starts' = starts /\ damage' = damage /\ results # <<>> /\ results' = Tail(results)
  BY DEF handleSetupMigrationResult
<1>2. /\ results' \in Seq({"success", "failure"}) /\ Len(results') = Len(results) - 1
      /\ Len(results) \in Nat \ {0} /\ waiting \in Nat
      /\ \A i \in 1..Len(results') : results'[i] = results[i + 1]
      /\ Head(results) = results[1]
  BY <1>1, HeadTailProperties, EmptySeq DEF IInv, SuccessTrue
<1>3. wizard.running
  BY <1>2 DEF IInv, RunningTracked
<1>4. \A i \in 1..Len(boxes) : boxes[i].kind # "plan"
  BY <1>3 DEF IInv, PlanAlone
<1>5. Success => succeeded
  BY <1>2 DEF Success, IInv, SuccessTrue
<1>6. SuccessTrue'
  <2>1. \A i \in 1..Len(results') : i + 1 \in 1..Len(results)
    BY <1>2
  <2>2. \A i \in 1..Len(results') : results'[i] = "success" => succeeded
    BY <1>2, <2>1 DEF IInv, SuccessTrue
  <2> QED
    BY <1>1, <1>2, <2>2 DEF IInv, SuccessTrue
<1>7. /\ wizard' \in [open : BOOLEAN, startup : BOOLEAN, step : 0..PageCount - 1, running : BOOLEAN]
      /\ wizard'.step > Boundary => succeeded
      /\ ~wizard'.running
  <2>1. CASE Success
    <3> DEFINE page == IF wizard.open THEN Boundary + 1 ELSE 0
    <3>1. page \in 0..PageCount - 1
      BY Pages
    <3>2. wizard' = [wizard EXCEPT !.running = FALSE, !.step = page]
      BY <2>1 DEF handleSetupMigrationResult
    <3> HIDE DEF page
    <3> QED
      BY <1>5, <2>1, <3>1, <3>2 DEF IInv, WindowFits
  <2>2. CASE ~Success
    BY <2>2 DEF handleSetupMigrationResult, IInv, WindowFits
  <2> QED
    BY <2>1, <2>2
<1>8. RunningTracked'
  BY <1>1, <1>2, <1>3, <1>7 DEF IInv, RunningTracked
<1>9. Good(cfg')
  <2>1. CASE Success
    <3>1. Fits([cfg.prefs EXCEPT !.ResumeStep = Boundary + 1])
      BY <1>5, <2>1, Pages, ResumeFits DEF IInv, Good
    <3> QED
      BY <2>1, <3>1, ReplaceFits DEF handleSetupMigrationResult, persistSetupProgress, IInv
  <2>2. CASE ~Success
    BY <2>2 DEF handleSetupMigrationResult, IInv
  <2> QED
    BY <2>1, <2>2
<1>10. BoxesFit' /\ PlanAlone'
  <2>1. CASE runModernDialog("failure", defaultUISettings)
    <3>1. BoxesFit'
      BY <1>1, <2>1, BoxOpened, DefaultFits DEF IInv
    <3>2. \A i \in 1..Len(boxes') : boxes'[i].kind # "plan"
      <4>1. [kind |-> "failure", copy |-> defaultUISettings] \in Boxes
        BY DefaultFits DEF Fits, Boxes
      <4>2. /\ Len(boxes') = Len(boxes) + 1 /\ Len(boxes) \in Nat
            /\ \A i \in 1..Len(boxes) : boxes'[i] = boxes[i]
            /\ boxes'[Len(boxes) + 1].kind = "failure"
        BY <2>1, <4>1, AppendProperties, LenProperties DEF IInv, BoxesFit, runModernDialog
      <4> QED
        BY <1>4, <4>2
    <3> QED
      BY <3>1, <3>2 DEF PlanAlone
  <2>2. CASE NoBox
    BY <1>1, <1>4, <2>2, NoBoxKept DEF IInv, PlanAlone, NoBox
  <2> QED
    BY <2>1, <2>2 DEF handleSetupMigrationResult
<1>11. Good(cfg)' /\ Counts' /\ WindowFits'
  BY <1>1, <1>7, <1>9 DEF IInv, Good, Fits, Counts, WindowFits
<1> QED
  BY <1>6, <1>8, <1>10, <1>11 DEF IInv

\* The program starts, ends, and its file is damaged meanwhile.
LEMMA ProcessKeeps ==
  ASSUME IInv, Run \/ Exit \/ Damage
  PROVE  IInv'
<1>1. CASE Run
  <2>1. /\ wizard' = wizard /\ boxes' = boxes /\ enabled' = enabled /\ waiting' = waiting
        /\ results' = results /\ succeeded' = succeeded
        /\ startupActionsDone' = startupActionsDone
        /\ migrations' = migrations /\ damage' = damage
    BY <1>1 DEF Run
  <2>2. Good(cfg')
    BY <1>1, LoadFits DEF Run, IInv
  <2>3. Counts' /\ SuccessTrue'
    BY <1>1, <2>1, Pages DEF Run, IInv, Counts, SuccessTrue
  <2> QED
    BY <2>1, <2>2, <2>3 DEF IInv, Good, Fits, WindowFits, BoxesFit, PlanAlone, RunningTracked
<1>2. CASE Exit
  <2>1. /\ wizard' = Closed /\ boxes' = <<>> /\ enabled' = [w \in {"main", "setup"} |-> TRUE]
        /\ waiting' = 0 /\ results' = <<>> /\ succeeded' = succeeded /\ journal' = journal
        /\ migrations' = migrations /\ starts' = starts /\ damage' = damage
        /\ up' = FALSE /\ startupActionsDone' = FALSE
        /\ cfg' = [cfg EXCEPT !.prefs = defaultUISettings, !.blocked = FALSE]
    BY <1>2 DEF Exit
  <2>2. Good(cfg')
    BY <2>1, DefaultFits DEF IInv, Good, Config, Fits
  <2>3. Len(<<>>) = 0 /\ <<>> \in Seq(Boxes) /\ <<>> \in Seq({"success", "failure"})
    BY EmptySeq
  <2>4. WindowFits'
    BY <2>1, Pages DEF WindowFits, Closed
  <2>5. BoxesFit' /\ PlanAlone'
    BY <2>1, <2>3, Pages DEF BoxesFit, PlanAlone
  <2>6. SuccessTrue' /\ Counts' /\ RunningTracked'
    <3>1. 1..0 = {}
      OBVIOUS
    <3>2. SuccessTrue'
      BY <2>1, <2>3, <3>1 DEF IInv, SuccessTrue
    <3>3. Counts'
      BY <2>1 DEF IInv, Counts
    <3>4. RunningTracked'
      BY <2>1, <2>3 DEF RunningTracked, Closed
    <3> QED
      BY <3>2, <3>3, <3>4
  <2> QED
    BY <2>1, <2>2, <2>4, <2>5, <2>6 DEF IInv, Good, Fits
<1>3. CASE Damage
  <2>1. /\ wizard' = wizard /\ boxes' = boxes /\ enabled' = enabled /\ waiting' = waiting
        /\ results' = results /\ succeeded' = succeeded /\ journal' = journal /\ up' = up
        /\ startupActionsDone' = startupActionsDone
        /\ migrations' = migrations /\ starts' = starts
    BY <1>3 DEF Damage
  <2>2. Good(cfg')
    BY <1>3 DEF Damage, IInv, Good, Config, Fits
  <2>3. Counts'
    BY <1>3, <2>1, Pages DEF Damage, IInv, Counts
  <2> QED
    BY <2>1, <2>2, <2>3 DEF IInv, Good, Fits, WindowFits, BoxesFit, PlanAlone, SuccessTrue,
                            RunningTracked
<1> QED
  BY <1>1, <1>2, <1>3

-----------------------------------------------------------------------------

\* The parts of the invariant hold together in every state.
LEMMA Invariance == Spec => []IInv
<1>1. Init => IInv
  <2> SUFFICES ASSUME Init PROVE IInv
    OBVIOUS
  <2>1. Len(<<>>) = 0 /\ <<>> \in Seq(Boxes) /\ <<>> \in Seq({"success", "failure"})
    BY EmptySeq
  <2>2. Good(cfg)
    BY DefaultFits DEF Init, Good, Config, Fits
  <2>3. WindowFits
    BY Pages DEF Init, WindowFits, Closed
  <2>4. BoxesFit /\ PlanAlone
    BY <2>1, Pages DEF Init, BoxesFit, PlanAlone
  <2>5. SuccessTrue /\ Counts /\ RunningTracked
    <3>1. 1..0 = {}
      OBVIOUS
    <3>2. SuccessTrue
      BY <2>1, <3>1 DEF Init, SuccessTrue
    <3>3. Counts
      <4>1. 0 \in 0..MaxMigrations /\ 0 \in 0..MaxStarts /\ 0 \in 0..MaxDamage
        BY Pages
      <4>2. /\ up = FALSE /\ startupActionsDone = FALSE /\ migrations = 0
            /\ starts = 0 /\ damage = 0
        BY DEF Init
      <4> QED
        BY <4>1, <4>2 DEF Counts
    <3>4. RunningTracked
      BY <2>1 DEF Init, RunningTracked, Closed
    <3> QED
      BY <3>2, <3>3, <3>4
  <2> QED
    BY <2>2, <2>3, <2>4, <2>5 DEF IInv
<1>2. IInv /\ [Next]_vars => IInv'
  <2> SUFFICES ASSUME IInv, [Next]_vars PROVE IInv'
    OBVIOUS
  <2>1. CASE MainWindow
    BY <2>1, MainWindowKeeps
  <2>2. CASE Assistant
    BY <2>2, AssistantKeeps
  <2>3. CASE Note
    BY <2>3, NoteKeeps
  <2>4. CASE maybeRunStartupActions
    BY <2>4, StartupKeeps
  <2>5. CASE Journal
    BY <2>5, JournalKeeps
  <2>6. CASE waitForSetupMigration
    BY <2>6, WaitKeeps
  <2>7. CASE handleSetupMigrationResult
    BY <2>7, ResultKeeps
  <2>8. CASE Run \/ Exit \/ Damage
    BY <2>8, ProcessKeeps
  <2>9. CASE UNCHANGED vars
    BY <2>9 DEF vars, IInv, Good, Fits, WindowFits, BoxesFit, PlanAlone, SuccessTrue, Counts,
                RunningTracked
  <2> QED
    BY <2>1, <2>2, <2>3, <2>4, <2>5, <2>6, <2>7, <2>8, <2>9 DEF Next
<1> QED
  BY <1>1, <1>2, PTL DEF Spec

\* Every variable keeps its type.
THEOREM TypeCorrect == Spec => []TypeOK
<1>1. IInv => TypeOK
  BY DEF IInv, TypeOK, Good, Config, WindowFits, BoxesFit, SuccessTrue, Counts
<1> QED
  BY <1>1, Invariance, PTL

\* No page behind the migration is reached, or stored to be resumed there, before a
\* migration has succeeded, whichever keys, boxes, failures and restarts come first.
THEOREM NotPastBoundary == Spec => []PastBoundary
<1>1. IInv => PastBoundary
  BY DEF IInv, Good, Fits, WindowFits, PastBoundary
<1> QED
  BY <1>1, Invariance, PTL

\* The assistant shows a run exactly while one goroutine waits for it or its message is
\* on the way.
THEOREM RunIsTracked == Spec => []RunningTracked
<1>1. IInv => RunningTracked
  BY DEF IInv
<1> QED
  BY <1>1, Invariance, PTL

-----------------------------------------------------------------------------
(* The wheel page: what its variables hold. *)

Seen == [Ports -> {Nothing} \cup Plugged]
States == [seen : Seen, stored : Ports]
Stamps == [id : Ports \cup {NoPort}, session : 0..MaxPlugs, source : {"none", "winmm", "direct-hid"}]
Parts == {"none", "learn", "certify", "tune"}

Leases == [port : Ports, model : {"G25", "G27", "DFGT"}, use : Workers \cup {"timer", "left"}]
EngineProfiles == [gain : Levels, narrow : BOOLEAN]
Tunings == [engine : EngineProfiles, shape : Levels]
Games == [port : Ports, tuning : Tunings]
Forces == [Ports -> {"none", "effect", "game"}]
Names == {"Balanced", "Direct", "Custom"}

MotorData == [force : Forces, narrow : [Ports -> BOOLEAN], lease : Leases \cup {Free},
              game : Games \cup {NoGame}, faults : Nat]
PageData == [force : Forces, narrow : [Ports -> BOOLEAN], lease : Leases \cup {Free},
             game : Games \cup {NoGame}, faults : Nat,
             custom : [Ports -> EngineProfiles \cup {NoCustom}], active : [Ports -> Names],
             shape : [Ports -> Levels]]

WorldOK ==
  /\ bus \in Seen /\ app \in States
  /\ plugs \in 1..MaxPlugs /\ faults \in Nat /\ acts \in [part : Parts, count : Nat]

(* A wheel is driven under a lease of its port.                               *)
Driven(d) == \A p \in Ports : d.force[p] # "none" => d.lease # Free /\ d.lease.port = p

(* The active profile is there.                                              *)
Loaded(d) == \A p \in Ports : d.active[p] = "Custom" => d.custom[p] # NoCustom

Held(d) == d \in PageData /\ Driven(d) /\ Loaded(d)

Drafts == [port : Ports \cup {NoPort}, engine : EngineProfiles, shape : Levels, drag : Sliders \cup {"none"}]
Told == {"nothing", "live", "saved", "error", "applied", "rotation saved", "blocked", "running", "neutral",
         "ready", "off"}

PanelOK ==
  /\ Held(Found) /\ native \in BOOLEAN /\ said \in Told
  /\ draft \in Drafts \cup [port : {NoPort}, drag : Sliders \cup {"none"}]

Presses == [axis : Axes, at : Stamps]
Gears == Signatures \X (1..GearCount)
(* The fields of what is being learned.                                       *)
Work(w) ==
  /\ w = [kind |-> w.kind, step |-> w.step, base |-> w.base, got |-> [i \in Pedals |-> w.got[i]],
          taken |-> w.taken]
  /\ w.kind \in Kinds \cup {"none"} /\ w.step \in Nat /\ w.base \in Stamps

Whole(w) ==
  /\ Work(w)
  /\ w.kind = "steering" => \A i \in 1..3 : i <= w.step => w.got[i] \in Positions
  /\ w.kind = "pedals" =>
       /\ w.taken \subseteq Axes
       /\ \A i \in Pedals :
            /\ w.got[i] \in Presses \cup {Missing}
            /\ w.got[i] # Missing => w.got[i].axis \in w.taken /\ w.got[i].at = w.base
            /\ w.step = 0 => w.got[i] = Missing
            /\ i < w.step => w.got[i] # Missing
            /\ \A j \in Pedals : w.got[i] # Missing /\ w.got[j] # Missing /\ w.got[i].axis = w.got[j].axis => i = j
  /\ w.kind = "shifter" =>
       /\ w.taken \subseteq Gears
       /\ w.step < GearCount
       /\ 1..w.step \subseteq {t[2] : t \in w.taken}
       /\ \A t, u \in w.taken : t[1] = u[1] => t = u

Learning(t) == t = [kind |-> "learn", s |-> t.s, work |-> t.work] /\ t.s \in States /\ t.work.kind \in Kinds /\ Whole(t.work)

Certifying ==
  {t \in [kind : {"cert"}, s : States, check : {"menu", "range", "effect"}] : HasActionableSelectedWheel(t.s)}
Ordering == [kind : {"output", "telemetry"}, s : States]

ToolOK == IF tool.kind = "learn" THEN Learning(tool) ELSE tool \in {NoTool} \cup Certifying \cup Ordering

StoredSteering == {<<>>} \cup [1..3 -> Positions]
StoredPedals == {<<>>} \cup [1..3 -> Presses \cup {Missing}]
StoredProfiles == [steering : StoredSteering, pedals : StoredPedals, button : BOOLEAN, gears : SUBSET Gears]
ProfilesOK == profiles \in [Ports -> StoredProfiles]

LearnOK == Whole(assistant) /\ ProfilesOK /\ CalibrationSound

-----------------------------------------------------------------------------
Keys == Ports \X {"G25", "G27", "DFGT", "C294"}
Results == [key : Keys, check : Checks, verdict : {"passed", "failed", "judged", "sampled"}]

EvidenceOK ==
  /\ evidence \in [kind : {"good", "damaged", "newer"}, recs : SUBSET Results]
  /\ cache \in {Cold} \cup [cold : {FALSE}, recs : SUBSET Results]
  /\ filling \in {Cold} \cup [cold : {FALSE}, recs : SUBSET Results]
  /\ asked \subseteq Keys /\ missed \in SUBSET Results

(* What is stored is in the cache, and in what the refresh is about to put there,   *)
(* unless its wheel was reset or it was saved behind the back of the refresh.       *)
Holds(recs) ==
  \A r \in evidence.recs : \/ r.key \in asked \/ r \in missed
                           \/ \E q \in recs : q.key = r.key /\ q.check = r.check
Remembered ==
  /\ cache # Cold => Holds(cache.recs)
  /\ filling # Cold => Holds(filling.recs)

PageIInv == WorldOK /\ PanelOK /\ ToolOK /\ LearnOK /\ EvidenceOK /\ Remembered /\ StatusTrue

-----------------------------------------------------------------------------
(* What a command finds and what it leaves. *)

Data(d) == d \in MotorData \/ d \in PageData

(* e is of the same kind as d and has the same files.                          *)
Follows(d, e) ==
  /\ d \in MotorData => e \in MotorData
  /\ d \in PageData => e \in PageData /\ e.custom = d.custom /\ e.active = d.active /\ e.shape = d.shape

LEMMA FollowsTwice ==
  ASSUME NEW d, NEW e, NEW f, Follows(d, e), Follows(e, f)
  PROVE  Follows(d, f)
BY DEF Follows

LEMMA FollowsData ==
  ASSUME NEW d, NEW e, Data(d), Follows(d, e)
  PROVE  Data(e)
BY DEF Follows, Data

LEMMA DataFields ==
  ASSUME NEW d, Data(d)
  PROVE  /\ d.force \in Forces /\ d.narrow \in [Ports -> BOOLEAN] /\ d.lease \in Leases \cup {Free}
         /\ d.game \in Games \cup {NoGame} /\ d.faults \in Nat
BY DEF Data, MotorData, PageData

LEMMA PutForce ==
  ASSUME NEW d, Data(d), NEW f \in Forces, NEW e, e = [d EXCEPT !.force = f]
  PROVE  /\ Follows(d, e)
         /\ e.force = f /\ e.narrow = d.narrow /\ e.lease = d.lease /\ e.game = d.game /\ e.faults = d.faults
<1>1. CASE d \in MotorData
  BY <1>1 DEF Follows, MotorData, PageData
<1>2. CASE d \in PageData
  BY <1>2 DEF Follows, MotorData, PageData
<1> QED BY <1>1, <1>2 DEF Data

LEMMA PutNarrow ==
  ASSUME NEW d, Data(d), NEW n \in [Ports -> BOOLEAN], NEW e, e = [d EXCEPT !.narrow = n]
  PROVE  /\ Follows(d, e)
         /\ e.narrow = n /\ e.force = d.force /\ e.lease = d.lease /\ e.game = d.game /\ e.faults = d.faults
<1>1. CASE d \in MotorData
  BY <1>1 DEF Follows, MotorData, PageData
<1>2. CASE d \in PageData
  BY <1>2 DEF Follows, MotorData, PageData
<1> QED BY <1>1, <1>2 DEF Data

LEMMA PutLease ==
  ASSUME NEW d, Data(d), NEW l \in Leases \cup {Free}, NEW e, e = [d EXCEPT !.lease = l]
  PROVE  /\ Follows(d, e)
         /\ e.lease = l /\ e.force = d.force /\ e.narrow = d.narrow /\ e.game = d.game /\ e.faults = d.faults
<1>1. CASE d \in MotorData
  BY <1>1 DEF Follows, MotorData, PageData
<1>2. CASE d \in PageData
  BY <1>2 DEF Follows, MotorData, PageData
<1> QED BY <1>1, <1>2 DEF Data

LEMMA PutGame ==
  ASSUME NEW d, Data(d), NEW g \in Games \cup {NoGame}, NEW e, e = [d EXCEPT !.game = g]
  PROVE  /\ Follows(d, e)
         /\ e.game = g /\ e.force = d.force /\ e.narrow = d.narrow /\ e.lease = d.lease /\ e.faults = d.faults
<1>1. CASE d \in MotorData
  BY <1>1 DEF Follows, MotorData, PageData
<1>2. CASE d \in PageData
  BY <1>2 DEF Follows, MotorData, PageData
<1> QED BY <1>1, <1>2 DEF Data

LEMMA PutFaults ==
  ASSUME NEW d, Data(d), NEW k \in Nat, NEW e, e = [d EXCEPT !.faults = k]
  PROVE  /\ Follows(d, e)
         /\ e.faults = k /\ e.force = d.force /\ e.narrow = d.narrow /\ e.lease = d.lease /\ e.game = d.game
<1>1. CASE d \in MotorData
  BY <1>1 DEF Follows, MotorData, PageData
<1>2. CASE d \in PageData
  BY <1>2 DEF Follows, MotorData, PageData
<1> QED BY <1>1, <1>2 DEF Data

LEMMA LeaseIsNotFree ==
  ASSUME NEW l \in Leases
  PROVE  l # Free /\ l.use # "free" /\ l.port \in Ports
BY DEF Leases, Free, Workers

LEMMA LeaseUsed ==
  ASSUME NEW l \in Leases, NEW u \in Workers \cup {"timer", "left"}, NEW m, m = [l EXCEPT !.use = u]
  PROVE  m \in Leases /\ m.port = l.port /\ m # Free
<1>1. m \in Leases /\ m.port = l.port
  BY DEF Leases
<1> QED BY <1>1, LeaseIsNotFree

-----------------------------------------------------------------------------
(* Outcomes. *)

\* What a fault leaves is what was there, but for the count.
LEMMA FaultyLeaves ==
  ASSUME NEW ds, NEW o \in Faulty(ds), \A d \in ds : Data(d)
  PROVE  ~o.ok /\ \E d \in ds : /\ Follows(d, o.d) /\ o.d.force = d.force /\ o.d.narrow = d.narrow
                                /\ o.d.lease = d.lease /\ o.d.game = d.game
<1>1. PICK d \in ds : o \in Error([d EXCEPT !.faults = @ + 1])
  BY DEF Faulty
<1>2. o = [ok |-> FALSE, d |-> [d EXCEPT !.faults = d.faults + 1]]
  BY <1>1 DEF Error
<1>3. ~o.ok /\ o.d = [d EXCEPT !.faults = d.faults + 1]
  BY <1>2
<1>4. d.faults \in Nat
  BY DataFields
<1>5. d.faults + 1 \in Nat
  BY <1>4
<1>6. /\ Follows(d, o.d) /\ o.d.force = d.force /\ o.d.narrow = d.narrow
      /\ o.d.lease = d.lease /\ o.d.game = d.game
  BY <1>3, <1>5, PutFaults
<1> QED BY <1>3, <1>6

LEMMA OkIs == ASSUME NEW d, NEW o \in Ok(d) PROVE o.ok /\ o.d = d
BY DEF Ok

LEMMA ErrorIs == ASSUME NEW d, NEW o \in Error(d) PROVE ~o.ok /\ o.d = d
BY DEF Error

\* Nothing is driven when nobody has the output.
LEMMA AtRest ==
  ASSUME NEW d, Driven(d), d.lease = Free
  PROVE  \A p \in Ports : d.force[p] = "none"
BY DEF Driven

LEMMA DrivenLike ==
  ASSUME NEW d, NEW e, Driven(d), e.force = d.force, e.lease = d.lease
  PROVE  Driven(e)
BY DEF Driven

\* A lease that is stopped is given back, or left to the next stop; its motor is still at the end.
LEMMA SafeStopLeaves ==
  ASSUME NEW d, Data(d), Driven(d), d.lease # Free, NEW o \in nativeOutputSafeStopLease(d)
  PROVE  /\ Follows(d, o.d) /\ Driven(o.d) /\ o.d.narrow = d.narrow
         /\ o.ok => o.d.lease = Free
<1> DEFINE held == [d EXCEPT !.lease.use = "left"]
           still == [held EXCEPT !.force[d.lease.port] = "none"]
           mid == [still EXCEPT !.lease = Free]
           over == [still EXCEPT !.lease = Free, !.game = IF d.lease.use = "game" THEN NoGame ELSE @]
<1>1. d.lease \in Leases
  BY DataFields
<1>2. PICK l \in Leases : l = [d.lease EXCEPT !.use = "left"] /\ l.port = d.lease.port
                        /\ d.lease.port \in Ports /\ l # Free
  <2>1. PICK l : l = [d.lease EXCEPT !.use = "left"]
    OBVIOUS
  <2>2. "left" \in Workers \cup {"timer", "left"}
    OBVIOUS
  <2>3. d.lease.port \in Ports
    BY <1>1, LeaseIsNotFree
  <2> QED BY <1>1, <2>1, <2>2, <2>3, LeaseUsed
<1>3. held = [d EXCEPT !.lease = l]
  BY <1>2
<1>4. /\ Follows(d, held) /\ held.lease.port = d.lease.port /\ held.lease # Free /\ held.lease \in Leases
      /\ held.force = d.force /\ held.narrow = d.narrow /\ held.game = d.game
  <2> HIDE DEF held
  <2>1. l \in Leases \cup {Free}
    OBVIOUS
  <2>2. /\ Follows(d, held) /\ held.lease = l
        /\ held.force = d.force /\ held.narrow = d.narrow /\ held.game = d.game
    BY <2>1, <1>3, PutLease
  <2> QED BY <1>2, <2>2
<1>5. Data(held) /\ Driven(held)
  BY <1>2, <1>4, FollowsData DEF Driven
<1> HIDE DEF held
<1>6. [held.force EXCEPT ![d.lease.port] = "none"] \in Forces
  BY <1>2, <1>5, DataFields DEF Forces
<1>7. still = [held EXCEPT !.force = [held.force EXCEPT ![d.lease.port] = "none"]]
  OBVIOUS
<1>8. /\ Follows(held, still) /\ still.force = [held.force EXCEPT ![d.lease.port] = "none"]
      /\ still.narrow = held.narrow /\ still.lease = held.lease /\ still.game = held.game
  <2> HIDE DEF still
  <2> QED BY <1>5, <1>6, <1>7, PutForce
<1>9. Data(still) /\ \A p \in Ports : still.force[p] = "none"
  <2>1. held.force \in Forces
    BY <1>5, DataFields
  <2>2. \A p \in Ports : still.force[p] = IF p = d.lease.port THEN "none" ELSE held.force[p]
    BY <1>8, <2>1, <1>2 DEF Forces
  <2> QED BY <2>2, <1>8, <1>5, <1>4, FollowsData DEF Driven
<1> HIDE DEF still
<1>10. /\ Follows(still, mid) /\ mid.lease = Free /\ mid.force = still.force /\ mid.narrow = still.narrow
       /\ mid.game = still.game
  BY <1>9, PutLease DEF mid
<1>11. Data(mid)
  BY <1>9, <1>10, FollowsData
<1>12. over = [mid EXCEPT !.game = IF d.lease.use = "game" THEN NoGame ELSE mid.game]
  BY <1>9, <1>10 DEF Data, MotorData, PageData
<1>13. (IF d.lease.use = "game" THEN NoGame ELSE mid.game) \in Games \cup {NoGame}
  BY <1>11, DataFields
<1> HIDE DEF mid
<1>14. /\ Follows(mid, over) /\ over.lease = Free /\ over.force = still.force /\ over.narrow = d.narrow
  <2> HIDE DEF over
  <2> QED BY <1>12, <1>13, <1>11, <1>10, <1>8, <1>4, PutGame
<1>15. Follows(d, still) /\ Driven(still)
  BY <1>4, <1>8, <1>9, FollowsTwice DEF Driven
<1>16. Follows(d, over) /\ Driven(over)
  <2> HIDE DEF over
  <2>1. Follows(d, mid)
    BY <1>15, <1>10, FollowsTwice
  <2> QED BY <2>1, <1>14, <1>9, FollowsTwice DEF Driven
<1>17. o \in Write(held, LeaseOpens(d.lease), still, over)
  BY DEF nativeOutputSafeStopLease, held, still, over
<1> HIDE DEF over
<1>18. o \in Ok(over) \/ o \in Faulty({held, still}) \/ o \in Error(held)
  BY <1>17 DEF Write
<1>19. CASE o \in Ok(over)
  BY <1>19, <1>16, <1>14, OkIs
<1>20. CASE o \in Faulty({held, still})
  <2>1. \A x \in {held, still} : Data(x)
    BY <1>5, <1>9
  <2>2. PICK x \in {held, still} : /\ ~o.ok /\ Follows(x, o.d) /\ o.d.force = x.force /\ o.d.narrow = x.narrow
                                   /\ o.d.lease = x.lease
    BY <1>20, <2>1, FaultyLeaves
  <2>3. Driven(x) /\ Follows(d, x) /\ x.narrow = d.narrow
    BY <1>4, <1>5, <1>8, <1>15
  <2> QED BY <2>2, <2>3, FollowsTwice, DrivenLike
<1>21. CASE o \in Error(held)
  BY <1>21, <1>4, <1>5, ErrorIs
<1> QED BY <1>18, <1>19, <1>20, <1>21

\* A lease, a session and a port with a force are what the other fields are.
LEMMA FollowsItself == ASSUME NEW d PROVE Follows(d, d)
BY DEF Follows

LEMMA WriteLeaves ==
  ASSUME NEW d, NEW opens, NEW arrived, NEW done, NEW o \in Write(d, opens, arrived, done),
         Data(d), Data(arrived), Data(done)
  PROVE  \/ o.ok /\ opens /\ o.d = done
         \/ /\ ~o.ok
            /\ \E x \in {d, arrived} : /\ Follows(x, o.d) /\ o.d.force = x.force /\ o.d.narrow = x.narrow
                                       /\ o.d.lease = x.lease /\ o.d.game = x.game
<1>1. (opens /\ o \in Ok(done)) \/ o \in Faulty({d, arrived}) \/ o \in Error(d)
  BY DEF Write
<1>2. CASE opens /\ o \in Ok(done)
  BY <1>2, OkIs
<1>3. CASE o \in Faulty({d, arrived})
  <2>1. \A x \in {d, arrived} : Data(x)
    OBVIOUS
  <2> QED BY <1>3, <2>1, FaultyLeaves
<1>4. CASE o \in Error(d)
  BY <1>4, ErrorIs, FollowsItself
<1> QED BY <1>1, <1>2, <1>3, <1>4

LEMMA StopSessionLeaves ==
  ASSUME NEW d, Data(d), Driven(d), NEW o \in stopNativeFFBSession(d)
  PROVE  Follows(d, o.d) /\ Driven(o.d) /\ (o.ok /\ d.lease.use \in Workers => o.d.lease = Free)
<1>1. CASE d.lease.use \in Workers
  <2>1. d.lease # Free
    BY <1>1 DEF Free, Workers
  <2> QED BY <1>1, <2>1, SafeStopLeaves DEF stopNativeFFBSession
<1>2. CASE d.lease.use \notin Workers
  BY <1>2, OkIs, FollowsItself DEF stopNativeFFBSession
<1> QED BY <1>1, <1>2

LEMMA SelectedNeutralLeaves ==
  ASSUME NEW d, Data(d), Driven(d), NEW s, s.stored \in Ports, NEW o \in SelectedNeutral(d, s)
  PROVE  Follows(d, o.d) /\ Driven(o.d) /\ o.d.lease = d.lease
<1>1. CASE ~HasActionableSelectedWheel(s)
  BY <1>1, ErrorIs, FollowsItself DEF SelectedNeutral
<1>2. CASE HasActionableSelectedWheel(s)
  <2>1. PICK still : still = [d EXCEPT !.force[s.stored] = "none"]
    OBVIOUS
  <2>2. o \in Write(d, PathOpens(s, s.stored), still, still)
    BY <1>2, <2>1 DEF SelectedNeutral
  <2>3. d.force \in Forces
    BY DataFields
  <2>4. PICK f \in Forces : f = [d.force EXCEPT ![s.stored] = "none"]
    BY <2>3 DEF Forces
  <2>5. still = [d EXCEPT !.force = f]
    BY <2>1, <2>4
  <2>6. Follows(d, still) /\ still.force = f /\ still.lease = d.lease
    BY <2>5, PutForce
  <2>7. \A p \in Ports : f[p] # "none" => d.force[p] # "none"
    BY <2>3, <2>4 DEF Forces
  <2>8. Data(still) /\ Driven(still)
    BY <2>6, <2>7, FollowsData DEF Driven
  <2>9. CASE o.ok /\ o.d = still
    BY <2>9, <2>8, <2>6
  <2>10. CASE \E x \in {d, still} : Follows(x, o.d) /\ o.d.force = x.force /\ o.d.lease = x.lease
    <3>1. PICK x \in {d, still} : Follows(x, o.d) /\ o.d.force = x.force /\ o.d.lease = x.lease
      BY <2>10
    <3>2. Follows(d, x) /\ Driven(x) /\ x.lease = d.lease
      BY <2>6, <2>8, FollowsItself
    <3> QED BY <3>1, <3>2, FollowsTwice, DrivenLike
  <2> QED BY <2>2, <2>8, <2>9, <2>10, WriteLeaves
<1> QED BY <1>1, <1>2

\* After a stop that succeeded nobody has the output.
LEMMA EmergencyLeaves ==
  ASSUME NEW d, Data(d), Driven(d), NEW s, s.stored \in Ports, NEW o \in NativeOutputEmergencyStop(d, s)
  PROVE  Follows(d, o.d) /\ Driven(o.d) /\ (o.ok => o.d.lease = Free)
<1>1. CASE d.lease = Free
  <2>1. o \in Ok(d)
    BY <1>1 DEF NativeOutputEmergencyStop, Free, Workers
  <2> QED BY <1>1, <2>1, OkIs, FollowsItself
<1>2. CASE d.lease.use \in Workers
  <2>1. d.lease # Free
    BY <1>2 DEF Free, Workers
  <2>2. o \in Then(stopNativeFFBSession(d), LAMBDA e : SelectedNeutral(e, s))
    BY <1>2, <2>1 DEF NativeOutputEmergencyStop, Workers
  <2>3. PICK x \in stopNativeFFBSession(d) : o \in IF x.ok THEN SelectedNeutral(x.d, s) ELSE {x}
    BY <2>2 DEF Then
  <2>4. Follows(d, x.d) /\ Driven(x.d) /\ (x.ok => x.d.lease = Free)
    BY <1>2, StopSessionLeaves
  <2>5. CASE x.ok
    <3>1. Data(x.d) /\ o \in SelectedNeutral(x.d, s)
      BY <2>3, <2>4, <2>5, FollowsData
    <3>2. Follows(x.d, o.d) /\ Driven(o.d) /\ o.d.lease = x.d.lease
      BY <3>1, <2>4, SelectedNeutralLeaves
    <3> QED BY <3>2, <2>4, <2>5, FollowsTwice
  <2>6. CASE ~x.ok
    BY <2>3, <2>4, <2>6
  <2> QED BY <2>5, <2>6
<1>3. CASE d.lease.use \in {"timer", "left"}
  <2>1. d.lease # Free
    BY <1>3 DEF Free
  <2>2. o \in nativeOutputSafeStopLease(d)
    BY <1>3, <2>1 DEF NativeOutputEmergencyStop, Workers
  <2> QED BY <2>1, <2>2, SafeStopLeaves
<1>4. d.lease = Free \/ d.lease.use \in Workers \/ d.lease.use \in {"timer", "left"}
  BY DataFields DEF Leases
<1> QED BY <1>1, <1>2, <1>3, <1>4

\* A range that was set was set under a free output.
LEMMA RangeLeaves ==
  ASSUME NEW d, Data(d), Driven(d), NEW s, s.stored \in Ports, NEW value \in BOOLEAN,
         NEW o \in NativeOutputApplyRange(d, s, value)
  PROVE  /\ Follows(d, o.d) /\ Driven(o.d)
         /\ o.ok => o.d.lease = Free /\ o.d.narrow[s.stored] = value
<1>1. CASE ~MayLease(d, s)
  BY <1>1, ErrorIs, FollowsItself DEF NativeOutputApplyRange
<1>2. CASE MayLease(d, s)
  <2>1. PICK set : set = [d EXCEPT !.narrow[s.stored] = value]
    OBVIOUS
  <2>2. o \in Write(d, PathOpens(s, s.stored), set, set)
    BY <1>2, <2>1 DEF NativeOutputApplyRange
  <2>3. d.narrow \in [Ports -> BOOLEAN]
    BY DataFields
  <2>4. PICK n \in [Ports -> BOOLEAN] : n = [d.narrow EXCEPT ![s.stored] = value]
    BY <2>3
  <2>5. set = [d EXCEPT !.narrow = n]
    BY <2>1, <2>4
  <2>6. Follows(d, set) /\ set.narrow = n /\ set.force = d.force /\ set.lease = d.lease
    BY <2>5, PutNarrow
  <2>7. n[s.stored] = value
    BY <2>3, <2>4
  <2>8. Data(set) /\ Driven(set)
    BY <2>6, FollowsData, DrivenLike
  <2>9. CASE o.ok /\ o.d = set
    <3>1. d.lease = Free
      BY <1>2 DEF MayLease
    <3> QED BY <3>1, <2>9, <2>8, <2>7, <2>6
  <2>10. CASE ~o.ok /\ \E x \in {d, set} : Follows(x, o.d) /\ o.d.force = x.force /\ o.d.lease = x.lease
    <3>1. PICK x \in {d, set} : Follows(x, o.d) /\ o.d.force = x.force /\ o.d.lease = x.lease
      BY <2>10
    <3>2. Follows(d, x) /\ Driven(x)
      BY <2>6, <2>8, FollowsItself
    <3> QED BY <3>1, <3>2, <2>10, FollowsTwice, DrivenLike
  <2> QED BY <2>2, <2>8, <2>9, <2>10, WriteLeaves
<1> QED BY <1>1, <1>2

\* A write that sets nothing the model has.
LEMMA IdleWriteLeaves ==
  ASSUME NEW d, Data(d), Driven(d), NEW opens, NEW o \in Write(d, opens, d, d)
  PROVE  Follows(d, o.d) /\ Driven(o.d)
<1>1. CASE o.d = d
  BY <1>1, FollowsItself
<1>2. CASE Follows(d, o.d) /\ o.d.force = d.force /\ o.d.lease = d.lease
  BY <1>2, DrivenLike
<1> QED BY <1>1, <1>2, WriteLeaves

LEMMA ProbeLeaves ==
  ASSUME NEW d, Data(d), Driven(d), NEW s,
         NEW o, o \in ProbeNativeOutputTransport(d, s) \/ o \in NativeOutputSetLEDs(d, s)
  PROVE  Follows(d, o.d) /\ Driven(o.d)
<1>1. o \in Write(d, PathOpens(s, s.stored), d, d) \/ o \in Error(d)
  BY DEF ProbeNativeOutputTransport, NativeOutputSetLEDs
<1>2. CASE o \in Error(d)
  BY <1>2, ErrorIs, FollowsItself
<1> QED BY <1>1, <1>2, IdleWriteLeaves

LEMMA SelectedIsPlugged ==
  ASSUME NEW s \in States, HasReadableSelectedWheel(s), SelectedWheelAssumption
  PROVE  /\ s.stored \in Ports /\ SelectedWheel(s) \in Plugged
         /\ ModelOf[SelectedWheel(s).wheel] \in {"G25", "G27", "DFGT"}
<1>1. s.stored \in Ports /\ s.seen \in Seen /\ s.seen[s.stored] # Nothing
  BY DEF States, HasReadableSelectedWheel, SelectedWheelID, Attached, SelectedWheelAssumption
<1>2. s.seen[s.stored] \in Plugged
  BY <1>1 DEF Seen
<1>3. s.seen[s.stored].wheel \in Wheels
  BY <1>2 DEF Plugged
<1> QED BY <1>1, <1>2, <1>3 DEF SelectedWheel, SelectedWheelAssumption

LEMMA LeaseOfIsLease ==
  ASSUME NEW s \in States, validateNativeOutputTarget(s), NEW use \in Workers \cup {"timer", "left"}
  PROVE  LeaseOf(s, use) \in Leases /\ LeaseOf(s, use) # Free /\ LeaseOf(s, use).port = s.stored
<1>1. HasReadableSelectedWheel(s)
  BY DEF validateNativeOutputTarget, HasActionableSelectedWheel
<1>2. s.stored \in Ports /\ ModelOf[SelectedWheel(s).wheel] \in {"G25", "G27", "DFGT"}
  BY <1>1, SelectedIsPlugged, SelectedWheelAssumption
<1>3. LeaseOf(s, use) \in Leases
  BY <1>2 DEF LeaseOf, Leases, Workers
<1> QED BY <1>3, LeaseIsNotFree DEF LeaseOf

\* What drives a motor drives it under a lease of its port.
LEMMA DriveLeaves ==
  ASSUME NEW d, Data(d), Driven(d), NEW s \in States, NEW use \in Workers \cup {"timer"},
         NEW what \in {"effect", "game"}, NEW o \in Drive(d, s, use, what)
  PROVE  Follows(d, o.d) /\ Driven(o.d)
<1>1. CASE ~MayLease(d, s)
  BY <1>1, ErrorIs, FollowsItself DEF Drive
<1>2. CASE MayLease(d, s)
  <2> DEFINE held == [d EXCEPT !.lease = LeaseOf(s, "left")]
             driven == [held EXCEPT !.force[s.stored] = what]
             done == [driven EXCEPT !.lease.use = use]
  <2>1. d.lease = Free /\ validateNativeOutputTarget(s) /\ s.stored \in Ports
    BY <1>2 DEF MayLease, States
  <2>2. PICK l \in Leases : l = LeaseOf(s, "left") /\ l # Free /\ l.port = s.stored
    BY <2>1, LeaseOfIsLease
  <2>3. PICK m \in Leases : m = [l EXCEPT !.use = use] /\ m # Free /\ m.port = s.stored
    <3>1. PICK m : m = [l EXCEPT !.use = use]
      OBVIOUS
    <3>2. use \in Workers \cup {"timer", "left"}
      OBVIOUS
    <3> QED BY <3>1, <3>2, <2>2, LeaseUsed
  <2>4. held = [d EXCEPT !.lease = l] /\ l \in Leases \cup {Free}
    BY <2>2
  <2>5. \A p \in Ports : d.force[p] = "none"
    BY <2>1, AtRest
  <2> HIDE DEF held
  <2>6. Follows(d, held) /\ held.lease = l /\ held.force = d.force
    BY <2>4, PutLease
  <2>7. Data(held) /\ Driven(held)
    BY <2>6, <2>5, FollowsData DEF Driven
  <2>8. held.force \in Forces
    BY <2>7, DataFields
  <2>9. PICK f \in Forces : f = [held.force EXCEPT ![s.stored] = what]
    BY <2>8, <2>1 DEF Forces
  <2>10. driven = [held EXCEPT !.force = f]
    BY <2>9
  <2> HIDE DEF driven
  <2>11. Follows(held, driven) /\ driven.force = f /\ driven.lease = l
    BY <2>10, <2>7, <2>6, PutForce
  <2>12. \A p \in Ports : f[p] # "none" => p = s.stored
    BY <2>8, <2>9, <2>5, <2>6 DEF Forces
  <2>13. Data(driven) /\ Driven(driven) /\ Follows(d, driven)
    BY <2>11, <2>12, <2>2, <2>7, <2>6, FollowsData, FollowsTwice DEF Driven
  <2>14. done = [driven EXCEPT !.lease = m]
    BY <2>3, <2>11
  <2>15. m \in Leases \cup {Free}
    OBVIOUS
  <2> HIDE DEF done
  <2>16. Follows(driven, done) /\ done.lease = m /\ done.force = f
    BY <2>14, <2>15, <2>13, <2>11, PutLease
  <2>17. Follows(d, done) /\ Driven(done)
    BY <2>16, <2>12, <2>3, <2>13, FollowsTwice DEF Driven
  <2>18. ASSUME NEW e, Data(e), Driven(e), e.lease # Free, Follows(d, e), o \in Failing(nativeOutputSafeStopLease(e))
         PROVE  Follows(d, o.d) /\ Driven(o.d)
    <3>1. PICK x \in nativeOutputSafeStopLease(e) : o \in Error(x.d)
      BY <2>18 DEF Failing
    <3>2. o.d = x.d
      BY <3>1, ErrorIs
    <3>3. Follows(e, x.d) /\ Driven(x.d)
      BY <2>18, SafeStopLeaves
    <3> QED BY <3>2, <3>3, <2>18, FollowsTwice
  <2>19. \/ o \in Ok(done)
         \/ \E x \in Faulty({held, driven}) : o \in Failing(nativeOutputSafeStopLease(x.d))
         \/ o \in Failing(nativeOutputSafeStopLease(held))
         \/ o \in Error(d)
    BY <1>2 DEF Drive, held, driven, done
  <2>20. CASE o \in Ok(done)
    BY <2>20, <2>17, OkIs
  <2>21. CASE \E x \in Faulty({held, driven}) : o \in Failing(nativeOutputSafeStopLease(x.d))
    <3>1. PICK x \in Faulty({held, driven}) : o \in Failing(nativeOutputSafeStopLease(x.d))
      BY <2>21
    <3>2. \A y \in {held, driven} : Data(y)
      BY <2>7, <2>13
    <3>3. PICK y \in {held, driven} : Follows(y, x.d) /\ x.d.force = y.force /\ x.d.lease = y.lease
      BY <3>2, FaultyLeaves
    <3>4. Follows(d, y) /\ Driven(y) /\ Data(y) /\ y.lease # Free
      BY <2>6, <2>7, <2>13, <2>11, <2>2
    <3>5. Data(x.d) /\ Driven(x.d) /\ x.d.lease # Free /\ Follows(d, x.d)
      BY <3>3, <3>4, FollowsData, FollowsTwice, DrivenLike
    <3> QED BY <3>1, <3>5, <2>18
  <2>22. CASE o \in Failing(nativeOutputSafeStopLease(held))
    <3>1. held.lease # Free
      BY <2>6, <2>2
    <3> QED BY <3>1, <2>22, <2>6, <2>7, <2>18
  <2>23. CASE o \in Error(d)
    BY <2>23, ErrorIs, FollowsItself
  <2> QED BY <2>19, <2>20, <2>21, <2>22, <2>23
<1> QED BY <1>1, <1>2

LEMMA StartTestLeaves ==
  ASSUME NEW d, Data(d), Driven(d), NEW s \in States, NEW use \in {"worker", "timer"}, NEW o \in StartTest(d, s, use)
  PROVE  Follows(d, o.d) /\ Driven(o.d)
<1>1. PICK x \in NativeOutputEmergencyStop(d, s) : o \in IF x.ok THEN Drive(x.d, s, use, "effect") ELSE {x}
  BY DEF StartTest, Then
<1>2. s.stored \in Ports
  BY DEF States
<1>3. Follows(d, x.d) /\ Driven(x.d) /\ Data(x.d)
  BY <1>2, EmergencyLeaves, FollowsData
<1>4. CASE x.ok
  <2>1. use \in Workers \cup {"timer"} /\ "effect" \in {"effect", "game"}
    BY DEF Workers
  <2>2. o \in Drive(x.d, s, use, "effect")
    BY <1>1, <1>4
  <2>3. Follows(x.d, o.d) /\ Driven(o.d)
    BY <2>1, <2>2, <1>3, DriveLeaves
  <2> QED BY <2>3, <1>3, FollowsTwice
<1>5. CASE ~x.ok
  BY <1>1, <1>3, <1>5
<1> QED BY <1>4, <1>5

LEMMA TestToTheLeftLeaves ==
  ASSUME NEW d, Data(d), Driven(d), NEW s \in States, NEW o \in StartTestToTheLeft(d, s)
  PROVE  Follows(d, o.d) /\ Driven(o.d)
<1>1. PICK x \in NativeOutputEmergencyStop(d, s) : o \in IF x.ok THEN Error(x.d) ELSE {x}
  BY DEF StartTestToTheLeft, Then
<1>2. s.stored \in Ports
  BY DEF States
<1>3. Follows(d, x.d) /\ Driven(x.d)
  BY <1>2, EmergencyLeaves
<1> QED BY <1>1, <1>3, ErrorIs

LEMMA StartGameLeaves ==
  ASSUME NEW d, Data(d), Driven(d), NEW s \in States, NEW tuning \in Tunings,
         NEW o \in StartFusionC6GameOutput(d, s, tuning)
  PROVE  Follows(d, o.d) /\ Driven(o.d)
<1> DEFINE started == Then(stopNativeFFBSession(d), LAMBDA e : Drive(e, s, "game", "game"))
<1>1. PICK x \in started : o \in IF x.ok THEN Ok([x.d EXCEPT !.game = [port |-> s.stored, tuning |-> tuning]]) ELSE {x}
  BY DEF StartFusionC6GameOutput, Then
<1>2. PICK y \in stopNativeFFBSession(d) : x \in IF y.ok THEN Drive(y.d, s, "game", "game") ELSE {y}
  BY DEF Then
<1>3. Follows(d, y.d) /\ Driven(y.d) /\ Data(y.d)
  BY StopSessionLeaves, FollowsData
<1>4. Follows(d, x.d) /\ Driven(x.d)
  <2>1. CASE y.ok
    <3>1. "game" \in Workers \cup {"timer"} /\ "game" \in {"effect", "game"}
      BY DEF Workers
    <3>2. x \in Drive(y.d, s, "game", "game")
      BY <1>2, <2>1
    <3>3. Follows(y.d, x.d) /\ Driven(x.d)
      BY <3>1, <3>2, <1>3, DriveLeaves
    <3> QED BY <3>3, <1>3, FollowsTwice
  <2>2. CASE ~y.ok
    BY <1>2, <1>3, <2>2
  <2> QED BY <2>1, <2>2
<1> HIDE DEF started
<1>5. CASE x.ok
  <2>1. PICK g \in Games \cup {NoGame} : g = [port |-> s.stored, tuning |-> tuning]
    BY DEF States, Games
  <2>2. PICK e : e = [x.d EXCEPT !.game = g]
    OBVIOUS
  <2>3. o.d = e
    BY <1>1, <1>5, <2>1, <2>2, OkIs
  <2>4. Data(x.d)
    BY <1>4, FollowsData
  <2>5. Follows(x.d, e) /\ e.force = x.d.force /\ e.lease = x.d.lease
    BY <2>2, <2>4, PutGame
  <2> QED BY <2>3, <2>5, <1>4, FollowsTwice, DrivenLike
<1>6. CASE ~x.ok
  BY <1>1, <1>4, <1>6
<1> QED BY <1>5, <1>6

LEMMA StopGameLeaves ==
  ASSUME NEW d, Data(d), Driven(d), NEW o \in StopFusionC6GameOutput(d)
  PROVE  Follows(d, o.d) /\ Driven(o.d)
<1>1. CASE d.game = NoGame
  BY <1>1, OkIs, FollowsItself DEF StopFusionC6GameOutput
<1>2. CASE d.game # NoGame
  <2>1. PICK x \in stopNativeFFBSession(d) : o \in IF x.ok THEN Ok([x.d EXCEPT !.game = NoGame]) ELSE {x}
    BY <1>2 DEF StopFusionC6GameOutput, Then
  <2>2. Follows(d, x.d) /\ Driven(x.d) /\ Data(x.d)
    BY StopSessionLeaves, FollowsData
  <2>3. CASE x.ok
    <3>1. PICK e : e = [x.d EXCEPT !.game = NoGame]
      OBVIOUS
    <3>2. o.d = e
      BY <2>1, <2>3, <3>1, OkIs
    <3>3. Follows(x.d, e) /\ e.force = x.d.force /\ e.lease = x.d.lease
      BY <3>1, <2>2, PutGame
    <3> QED BY <3>2, <3>3, <2>2, FollowsTwice, DrivenLike
  <2>4. CASE ~x.ok
    BY <2>1, <2>2, <2>4
  <2> QED BY <2>3, <2>4
<1> QED BY <1>1, <1>2

-----------------------------------------------------------------------------
(* The files of the panel. *)

LEMMA HeldStays ==
  ASSUME NEW d, Held(d), NEW e, Follows(d, e), Driven(e)
  PROVE  Held(e) /\ e.custom = d.custom /\ e.active = d.active /\ e.shape = d.shape
BY DEF Held, Follows, Loaded

LEMMA HeldFields ==
  ASSUME NEW d, Held(d)
  PROVE  /\ Data(d) /\ Driven(d)
         /\ d.custom \in [Ports -> EngineProfiles \cup {NoCustom}] /\ d.active \in [Ports -> Names]
         /\ d.shape \in [Ports -> Levels]
BY DEF Held, Data, PageData

LEMMA PutCustom ==
  ASSUME NEW d \in PageData, NEW c \in [Ports -> EngineProfiles \cup {NoCustom}], NEW e, e = [d EXCEPT !.custom = c]
  PROVE  /\ e \in PageData /\ e.custom = c /\ e.active = d.active /\ e.shape = d.shape
         /\ e.force = d.force /\ e.narrow = d.narrow /\ e.lease = d.lease
BY DEF PageData

LEMMA PutActive ==
  ASSUME NEW d \in PageData, NEW a \in [Ports -> Names], NEW e, e = [d EXCEPT !.active = a]
  PROVE  /\ e \in PageData /\ e.custom = d.custom /\ e.active = a /\ e.shape = d.shape
         /\ e.force = d.force /\ e.narrow = d.narrow /\ e.lease = d.lease
BY DEF PageData

LEMMA PutShape ==
  ASSUME NEW d \in PageData, NEW h \in [Ports -> Levels], NEW e, e = [d EXCEPT !.shape = h]
  PROVE  /\ e \in PageData /\ e.custom = d.custom /\ e.active = d.active /\ e.shape = h
         /\ e.force = d.force /\ e.narrow = d.narrow /\ e.lease = d.lease
BY DEF PageData

\* A file is stored or stays as it was.
LEMMA StoreLeaves ==
  ASSUME NEW d, Held(d), NEW done, NEW o \in StoreFile(d, done)
  PROVE  (o.ok /\ o.d = done) \/ (~o.ok /\ Held(o.d))
<1>1. o \in Ok(done) \/ o \in Faulty({d})
  BY DEF StoreFile
<1>2. CASE o \in Faulty({d})
  <2>1. \A x \in {d} : Data(x)
    BY HeldFields
  <2>2. ~o.ok /\ Follows(d, o.d) /\ o.d.force = d.force /\ o.d.lease = d.lease
    BY <1>2, <2>1, FaultyLeaves
  <2>3. Held(o.d)
    BY <2>2, HeldFields, HeldStays, DrivenLike
  <2> QED BY <2>2, <2>3
<1>3. CASE o \in Ok(done)
  BY <1>3, OkIs
<1> QED BY <1>1, <1>2, <1>3

LEMMA ProfilesAreLoaded ==
  ASSUME PanelAssumption
  PROVE  /\ NoCustom \notin EngineProfiles
         /\ DOMAIN Builtin = {"Balanced", "Direct"}
         /\ \A name \in {"Balanced", "Direct"} : Builtin[name] \in EngineProfiles
<1>1. {1, 2} \subseteq Levels /\ 0 \notin Levels
  <2>1. Builtin["Balanced"].gain = 1 /\ Builtin["Direct"].gain = 2 /\ {"Balanced", "Direct"} = DOMAIN Builtin
    BY DEF Builtin
  <2> QED BY <2>1, PanelAssumption DEF PanelAssumption
<1>2. NoCustom \notin EngineProfiles
  BY <1>1 DEF NoCustom, EngineProfiles
<1>3. DOMAIN Builtin = {"Balanced", "Direct"}
  BY DEF Builtin
<1>4. Builtin["Balanced"] \in EngineProfiles /\ Builtin["Direct"] \in EngineProfiles
  BY <1>1 DEF Builtin, EngineProfiles
<1> QED BY <1>2, <1>3, <1>4

LEMMA ProfileIs ==
  ASSUME NEW d, Held(d), NEW p \in Ports, NEW name \in Names, name = "Custom" => d.custom[p] # NoCustom
  PROVE  Profile(d, p, name) \in EngineProfiles
<1>1. CASE name = "Custom"
  BY <1>1, HeldFields DEF Profile
<1>2. CASE name \in {"Balanced", "Direct"}
  BY <1>2, ProfilesAreLoaded, PanelAssumption DEF Profile
<1> QED BY <1>1, <1>2 DEF Names

LEMMA SaveEngineLeaves ==
  ASSUME NEW d, Held(d), NEW s \in States, NEW profile \in EngineProfiles,
         NEW o \in SaveNativeEngineProfile(d, s, profile)
  PROVE  /\ Held(o.d)
         /\ o.ok => HasReadableSelectedWheel(s) /\ o.d.custom[s.stored] # NoCustom
<1>1. CASE ~HasReadableSelectedWheel(s)
  BY <1>1, ErrorIs DEF SaveNativeEngineProfile
<1>2. CASE HasReadableSelectedWheel(s)
  <2>1. PICK done : done = [d EXCEPT !.custom[s.stored] = profile]
    OBVIOUS
  <2>2. o \in StoreFile(d, done)
    BY <1>2, <2>1 DEF SaveNativeEngineProfile
  <2>3. s.stored \in Ports /\ profile # NoCustom
    BY ProfilesAreLoaded, PanelAssumption DEF States
  <2>4. d.custom \in [Ports -> EngineProfiles \cup {NoCustom}] /\ d \in PageData
    BY HeldFields DEF Held
  <2>5. PICK c \in [Ports -> EngineProfiles \cup {NoCustom}] : c = [d.custom EXCEPT ![s.stored] = profile]
    BY <2>4
  <2>6. done = [d EXCEPT !.custom = c]
    BY <2>1, <2>5
  <2>7. /\ done \in PageData /\ done.custom = c /\ done.active = d.active
        /\ done.force = d.force /\ done.lease = d.lease
    BY <2>4, <2>6, PutCustom
  <2>8. \A p \in Ports : c[p] = IF p = s.stored THEN profile ELSE d.custom[p]
    BY <2>4, <2>5
  <2>9. Held(done) /\ done.custom[s.stored] # NoCustom
    BY <2>3, <2>7, <2>8, DrivenLike DEF Held, Loaded
  <2> QED BY <1>2, <2>2, <2>9, StoreLeaves
<1> QED BY <1>1, <1>2

\* A name that is made active is one of a profile that is there.
LEMMA SetActiveLeaves ==
  ASSUME NEW d, Held(d), NEW p \in Ports, NEW name \in Names, name = "Custom" => d.custom[p] # NoCustom,
         NEW o \in SetActiveNativeEngineProfile(d, p, name)
  PROVE  /\ Held(o.d)
         /\ o.ok => /\ o.d.active[p] = name /\ o.d.custom = d.custom /\ o.d.narrow = d.narrow
                    /\ o.d.lease = d.lease
<1>1. PICK done : done = [d EXCEPT !.active[p] = name]
  OBVIOUS
<1>2. o \in StoreFile(d, done)
  BY <1>1 DEF SetActiveNativeEngineProfile
<1>3. d.active \in [Ports -> Names] /\ d \in PageData
  BY HeldFields DEF Held
<1>4. PICK a \in [Ports -> Names] : a = [d.active EXCEPT ![p] = name]
  BY <1>3
<1>5. done = [d EXCEPT !.active = a]
  BY <1>1, <1>4
<1>6. /\ done \in PageData /\ done.custom = d.custom /\ done.active = a
      /\ done.force = d.force /\ done.narrow = d.narrow /\ done.lease = d.lease
  BY <1>3, <1>5, PutActive
<1>7. \A q \in Ports : a[q] = IF q = p THEN name ELSE d.active[q]
  BY <1>3, <1>4
<1>8. Held(done) /\ done.active[p] = name
  BY <1>6, <1>7, DrivenLike DEF Held, Loaded
<1>9. CASE o.ok /\ o.d = done
  BY <1>9, <1>8, <1>6
<1>10. CASE ~o.ok /\ Held(o.d)
  BY <1>10
<1> QED BY <1>2, <1>9, <1>10, StoreLeaves

LEMMA SaveShapeLeaves ==
  ASSUME NEW d, Held(d), NEW s \in States, NEW level \in Levels, NEW o \in SaveSelectedAdvancedFFBConfig(d, s, level)
  PROVE  Held(o.d)
<1>1. CASE ~HasReadableSelectedWheel(s)
  BY <1>1, ErrorIs DEF SaveSelectedAdvancedFFBConfig
<1>2. CASE HasReadableSelectedWheel(s)
  <2>1. PICK done : done = [d EXCEPT !.shape[s.stored] = level]
    OBVIOUS
  <2>2. o \in StoreFile(d, done)
    BY <1>2, <2>1 DEF SaveSelectedAdvancedFFBConfig
  <2>3. s.stored \in Ports
    BY DEF States
  <2>4. d.shape \in [Ports -> Levels] /\ d \in PageData
    BY HeldFields DEF Held
  <2>5. PICK h \in [Ports -> Levels] : h = [d.shape EXCEPT ![s.stored] = level]
    BY <2>4
  <2>6. done = [d EXCEPT !.shape = h]
    BY <2>1, <2>5
  <2>7. /\ done \in PageData /\ done.custom = d.custom /\ done.active = d.active
        /\ done.force = d.force /\ done.lease = d.lease
    BY <2>4, <2>6, PutShape
  <2>8. Held(done)
    BY <2>7, DrivenLike DEF Held, Loaded
  <2> QED BY <2>2, <2>8, StoreLeaves
<1> QED BY <1>1, <1>2

\* A profile that was applied is active, the wheel has its range, and no motor runs.
LEMMA ApplyLeaves ==
  ASSUME NEW d, Held(d), NEW s \in States, NEW name \in Names, name = "Custom" => d.custom[s.stored] # NoCustom,
         NEW o \in ApplyNativeEngineProfile(d, s, name)
  PROVE  /\ Held(o.d)
         /\ o.ok => /\ o.d.narrow[s.stored] = Active(o.d, s.stored).narrow
                    /\ o.d.force[s.stored] = "none"
<1> DEFINE p == s.stored
           range == Profile(d, p, name).narrow
           back == Active(d, p).narrow
<1>1. p \in Ports
  BY DEF States
<1>2. CASE ~validateNativeOutputTarget(s)
  BY <1>2, ErrorIs DEF ApplyNativeEngineProfile
<1>3. CASE validateNativeOutputTarget(s)
  <2>1. range \in BOOLEAN
    <3>1. Profile(d, p, name) \in EngineProfiles
      BY <1>1, ProfileIs
    <3> QED BY <3>1 DEF EngineProfiles
  <2>2. back \in BOOLEAN
    <3>1. d.active[p] \in Names /\ (d.active[p] = "Custom" => d.custom[p] # NoCustom)
      BY <1>1, HeldFields DEF Held, Loaded
    <3>2. Profile(d, p, d.active[p]) \in EngineProfiles
      BY <1>1, <3>1, ProfileIs
    <3> QED BY <3>2 DEF EngineProfiles, Active
  <2> HIDE DEF range, back
  <2>3. PICK x \in Then(NativeOutputEmergencyStop(d, s), LAMBDA e : NativeOutputApplyRange(e, s, range)) :
          o \in IF x.ok
                THEN UNION {IF y.ok THEN {y} ELSE Failing(NativeOutputApplyRange(y.d, s, back)) :
                              y \in SetActiveNativeEngineProfile(x.d, p, name)}
                ELSE {x}
    BY <1>3 DEF ApplyNativeEngineProfile, Then, range, back
  <2>4. PICK z \in NativeOutputEmergencyStop(d, s) : x \in IF z.ok THEN NativeOutputApplyRange(z.d, s, range) ELSE {z}
    BY DEF Then
  <2>5. Follows(d, z.d) /\ Driven(z.d)
    BY <1>1, EmergencyLeaves, HeldFields
  <2>6. Held(z.d) /\ z.d.custom = d.custom
    BY <2>5, HeldStays
  <2>7. Held(x.d) /\ x.d.custom = d.custom /\ (x.ok => x.d.lease = Free /\ x.d.narrow[p] = range)
    <3>1. CASE z.ok
      <4>1. x \in NativeOutputApplyRange(z.d, s, range)
        BY <2>4, <3>1
      <4>2. Follows(z.d, x.d) /\ Driven(x.d) /\ (x.ok => x.d.lease = Free /\ x.d.narrow[p] = range)
        BY <4>1, <1>1, <2>1, <2>6, HeldFields, RangeLeaves
      <4> QED BY <4>2, <2>6, HeldStays
    <3>2. CASE ~z.ok
      BY <2>4, <2>6, <3>2
    <3> QED BY <3>1, <3>2
  <2>8. CASE ~x.ok
    BY <2>3, <2>7, <2>8
  <2>9. CASE x.ok
    <3>1. PICK y \in SetActiveNativeEngineProfile(x.d, p, name) :
            o \in IF y.ok THEN {y} ELSE Failing(NativeOutputApplyRange(y.d, s, back))
      BY <2>3, <2>9
    <3>2. /\ Held(y.d)
          /\ y.ok => /\ y.d.active[p] = name /\ y.d.custom = x.d.custom /\ y.d.narrow = x.d.narrow
                     /\ y.d.lease = x.d.lease
      BY <1>1, <2>7, SetActiveLeaves
    <3>3. CASE y.ok
      <4>1. o = y /\ y.d.lease = Free /\ y.d.narrow[p] = range
        BY <3>1, <3>2, <3>3, <2>7, <2>9
      <4>2. Active(y.d, p).narrow = range
        BY <3>2, <3>3, <2>7 DEF Active, Profile, range
      <4>3. y.d.force[p] = "none"
        BY <4>1, <3>2, <1>1, AtRest DEF Held
      <4> QED BY <4>1, <4>2, <4>3, <3>2
    <3>4. CASE ~y.ok
      <4>1. PICK v \in NativeOutputApplyRange(y.d, s, back) : o \in Error(v.d)
        BY <3>1, <3>4 DEF Failing
      <4>2. Follows(y.d, v.d) /\ Driven(v.d)
        BY <1>1, <2>2, <3>2, HeldFields, RangeLeaves
      <4>3. Held(v.d)
        BY <3>2, <4>2, HeldStays
      <4> QED BY <4>1, <4>3, ErrorIs
    <3> QED BY <3>3, <3>4
  <2> QED BY <2>8, <2>9
<1> QED BY <1>2, <1>3

LEMMA ProbedLeaves ==
  ASSUME NEW d, Data(d), Driven(d), NEW s, NEW automatic, NEW o \in d6ProbeNativeWriter(d, s, automatic)
  PROVE  Follows(d, o.d) /\ Driven(o.d)
<1>1. PICK x \in ProbeNativeOutputTransport(d, s) :
        o \in IF x.ok THEN IF automatic \/ WheelModel(s) # "G27" THEN Ok(x.d) ELSE NativeOutputSetLEDs(x.d, s)
              ELSE {x}
  BY DEF d6ProbeNativeWriter, Then
<1>2. Follows(d, x.d) /\ Driven(x.d) /\ Data(x.d)
  BY ProbeLeaves, FollowsData
<1>3. CASE o = x
  BY <1>3, <1>2
<1>4. CASE o \in Ok(x.d)
  BY <1>4, <1>2, OkIs
<1>5. CASE o \in NativeOutputSetLEDs(x.d, s)
  BY <1>5, <1>2, ProbeLeaves, FollowsTwice
<1> QED BY <1>1, <1>3, <1>4, <1>5

-----------------------------------------------------------------------------
(* Steps of the panel. *)

\* What a step settles is what it leaves.
LEMMA Settled ==
  ASSUME NEW d, Held(d), Settles(d)
  PROVE  Found' = d /\ Held(Found')
<1>1. d = [force |-> d.force, narrow |-> d.narrow, lease |-> d.lease, game |-> d.game, faults |-> d.faults,
           custom |-> d.custom, active |-> d.active, shape |-> d.shape]
  BY DEF Held, PageData
<1>2. /\ force' = d.force /\ narrow' = d.narrow /\ lease' = d.lease /\ game' = d.game /\ faults' = d.faults
      /\ custom' = d.custom /\ active' = d.active /\ shape' = d.shape
  BY DEF Settles, Becomes
<1>3. Found' = d
  BY <1>1, <1>2 DEF Found
<1> QED BY <1>3

\* A status line that makes no claim is true.
LEMMA NoClaim ==
  ASSUME said' \notin {"live", "saved", "applied", "neutral"}
  PROVE  StatusTrue'
BY DEF StatusTrue

LEMMA NoticedKeeps ==
  ASSUME NEW d, Held(d), Noticed(d)
  PROVE  Held(Found') /\ said' \in Told /\ StatusTrue'
<1>1. said' = "nothing" /\ Settles(d)
  BY DEF Noticed, Silent
<1> QED BY <1>1, Settled, NoClaim DEF Told

LEMMA SaysKeeps ==
  ASSUME NEW d, Held(d), Settles(d), NEW text \in {"error", "rotation saved", "blocked", "running", "ready", "off"},
         Says(text)
  PROVE  Held(Found') /\ said' \in Told /\ StatusTrue'
<1>1. said' = text
  BY DEF Says
<1> QED BY <1>1, Settled, NoClaim DEF Told

LEMMA TuningIs ==
  ASSUME NEW d, Held(d), NEW p \in Ports
  PROVE  Tuning(d, p) \in Tunings
<1>1. d.active[p] \in Names /\ (d.active[p] = "Custom" => d.custom[p] # NoCustom) /\ d.shape[p] \in Levels
  BY HeldFields DEF Held, Loaded
<1>2. Active(d, p) \in EngineProfiles
  BY <1>1, ProfileIs DEF Active
<1> QED BY <1>1, <1>2 DEF Tuning, Tunings

LEMMA PutTuning ==
  ASSUME NEW x \in Games, NEW t \in Tunings, NEW g, g = [x EXCEPT !.tuning = t]
  PROVE  g \in Games /\ g.tuning = t /\ g.port = x.port
BY DEF Games

\* A session that was refreshed uses what is stored.
LEMMA RefreshedKeeps ==
  ASSUME NEW d, Held(d), app \in States, Refreshed(d)
  PROVE  Held(Found') /\ said' \in Told /\ StatusTrue'
<1> DEFINE e == RefreshNativeGameOutputTuning(d, app)
           p == app.stored
<1>1. Settles(e) /\ said' = RefreshText(d, app) /\ p \in Ports
  BY DEF Refreshed, Says, States
<1>2. CASE RefreshText(d, app) = "live"
  <2>1. d.game # NoGame /\ d.game.port = p
    BY <1>2 DEF RefreshText
  <2>2. d.game \in Games
    BY <2>1, HeldFields, DataFields
  <2>3. PICK t \in Tunings : t = Tuning(d, p)
    BY <1>1, TuningIs
  <2>4. PICK g \in Games : g = [d.game EXCEPT !.tuning = t] /\ g.tuning = t /\ g.port = p
    <3>1. PICK g : g = [d.game EXCEPT !.tuning = t]
      OBVIOUS
    <3>2. g \in Games /\ g.tuning = t /\ g.port = d.game.port
      BY <3>1, <2>2, PutTuning
    <3> QED BY <3>1, <3>2, <2>1
  <2>5. e = [d EXCEPT !.game = g]
    BY <1>2, <2>3, <2>4 DEF RefreshNativeGameOutputTuning, Retuned
  <2>6. Data(d) /\ Driven(d) /\ g \in Games \cup {NoGame}
    BY HeldFields
  <2> HIDE DEF e
  <2>7. Follows(d, e) /\ e.game = g /\ e.force = d.force /\ e.lease = d.lease
    BY <2>5, <2>6, PutGame
  <2>8. Held(e) /\ e.custom = d.custom /\ e.active = d.active /\ e.shape = d.shape
    BY <2>6, <2>7, HeldStays, DrivenLike
  <2>9. Found' = e /\ Held(Found')
    BY <1>1, <2>8, Settled
  <2>10. Tuning(Found', p) = t
    BY <2>3, <2>8, <2>9 DEF Tuning, Active, Profile
  <2>11. game' = g
    BY <2>7, <2>9 DEF Found
  <2>12. said' = "live"
    BY <1>1, <1>2
  <2>13. StatusTrue'
    BY <2>4, <2>10, <2>11, <2>12 DEF StatusTrue
  <2> QED BY <2>9, <2>12, <2>13 DEF Told
<1>3. CASE RefreshText(d, app) = "saved"
  <2>1. d.game = NoGame
    BY <1>3 DEF RefreshText
  <2>2. e = d
    BY <1>3 DEF RefreshNativeGameOutputTuning
  <2> HIDE DEF e
  <2>3. Found' = d /\ Held(Found')
    BY <1>1, <2>2, Settled
  <2>4. game' = NoGame
    BY <2>1, <2>3 DEF Found
  <2>5. said' = "saved"
    BY <1>1, <1>3
  <2>6. StatusTrue'
    BY <2>4, <2>5 DEF StatusTrue
  <2> QED BY <2>3, <2>5, <2>6 DEF Told
<1>4. CASE RefreshText(d, app) = "error"
  <2>1. e = d
    BY <1>4 DEF RefreshNativeGameOutputTuning
  <2> HIDE DEF e
  <2>2. Found' = d /\ Held(Found')
    BY <1>1, <2>1, Settled
  <2> QED BY <1>1, <1>4, <2>2, NoClaim DEF Told
<1>5. RefreshText(d, app) \in {"error", "saved", "live"}
  BY DEF RefreshText
<1> QED BY <1>2, <1>3, <1>4, <1>5

\* Commands keep what the panel holds.
LEMMA CommandHolds ==
  ASSUME NEW d, Held(d), NEW s \in States, NEW automatic, NEW use \in {"worker", "timer"}, NEW value \in BOOLEAN, NEW o,
         \/ o \in NativeOutputEmergencyStop(d, s) \/ o \in d6ProbeNativeWriter(d, s, automatic)
         \/ o \in StartTest(d, s, use) \/ o \in StartTestToTheLeft(d, s)
         \/ o \in NativeOutputApplyRange(d, s, value) \/ o \in NativeOutputSetLEDs(d, s)
         \/ o \in StopFusionC6GameOutput(d)
  PROVE  Held(o.d)
<1>1. Data(d) /\ Driven(d) /\ s.stored \in Ports
  BY HeldFields DEF States
<1>2. CASE o \in NativeOutputEmergencyStop(d, s)
  BY <1>1, <1>2, EmergencyLeaves, HeldStays
<1>3. CASE o \in d6ProbeNativeWriter(d, s, automatic)
  BY <1>1, <1>3, ProbedLeaves, HeldStays
<1>4. CASE o \in StartTest(d, s, use)
  BY <1>1, <1>4, StartTestLeaves, HeldStays
<1>5. CASE o \in StartTestToTheLeft(d, s)
  BY <1>1, <1>5, TestToTheLeftLeaves, HeldStays
<1>6. CASE o \in NativeOutputApplyRange(d, s, value)
  BY <1>1, <1>6, RangeLeaves, HeldStays
<1>7. CASE o \in NativeOutputSetLEDs(d, s)
  BY <1>1, <1>7, ProbeLeaves, HeldStays
<1>8. CASE o \in StopFusionC6GameOutput(d)
  BY <1>1, <1>8, StopGameLeaves, HeldStays
<1> QED BY <1>2, <1>3, <1>4, <1>5, <1>6, <1>7, <1>8

LEMMA UsesKeeps ==
  ASSUME acts \in [part : Parts, count : Nat], NEW part \in Parts, Uses(part)
  PROVE  acts' \in [part : Parts, count : Nat]
BY DEF Uses

\* The dialog that is open after a step that closes it, keeps it or opens one that orders.
LEMMA ToolKeeps ==
  ASSUME ToolOK, tool' = tool \/ tool' = NoTool \/ tool' \in Certifying \cup Ordering
  PROVE  ToolOK'
<1>1. CASE tool' = tool
  BY <1>1 DEF ToolOK
<1>2. CASE tool' = NoTool
  BY <1>2 DEF ToolOK, NoTool
<1>3. CASE tool' \in Certifying \cup Ordering
  <2>1. tool'.kind # "learn"
    BY <1>3 DEF Certifying, Ordering
  <2> QED BY <1>3, <2>1 DEF ToolOK
<1> QED BY <1>1, <1>2, <1>3

LEMMA QuietKeeps ==
  ASSUME WorldOK, UNCHANGED <<bus, app, plugs>>, faults' \in Nat, acts' \in [part : Parts, count : Nat]
  PROVE  WorldOK'
BY DEF WorldOK

LEMMA HeldFaults ==
  ASSUME Held(Found)
  PROVE  faults \in Nat
<1>1. Found.faults \in Nat
  BY HeldFields, DataFields
<1> QED BY <1>1 DEF Found

PageState == WorldOK /\ PanelOK /\ ToolOK /\ StatusTrue

(* Every step of the panel comes down to these.                               *)
LEMMA PanelStep ==
  ASSUME PageState, UNCHANGED <<bus, app, plugs>>,
         acts' = acts \/ (\E part \in Parts : Uses(part)) \/ acts' = [acts EXCEPT !.part = "tune"],
         tool' = tool \/ tool' = NoTool \/ tool' \in Certifying \cup Ordering,
         Held(Found'), said' \in Told, StatusTrue', native' \in BOOLEAN,
         draft' \in Drafts \cup [port : {NoPort}, drag : Sliders \cup {"none"}]
  PROVE  PageState'
<1>1. acts' \in [part : Parts, count : Nat]
  <2>1. acts \in [part : Parts, count : Nat]
    BY DEF PageState, WorldOK
  <2>2. CASE \E part \in Parts : Uses(part)
    BY <2>1, <2>2, UsesKeeps
  <2>3. CASE acts' = [acts EXCEPT !.part = "tune"]
    BY <2>1, <2>3 DEF Parts
  <2> QED BY <2>1, <2>2, <2>3
<1>2. faults' \in Nat
  <2>1. Found'.faults \in Nat
    BY HeldFields, DataFields
  <2> QED BY <2>1 DEF Found
<1>3. WorldOK'
  BY <1>1, <1>2, QuietKeeps DEF PageState
<1>4. ToolOK'
  BY ToolKeeps DEF PageState
<1>5. PanelOK'
  BY DEF PanelOK
<1> QED BY <1>3, <1>4, <1>5 DEF PageState

\* The draft of a wheel.
LEMMA DraftIs ==
  ASSUME PanelOK, draft.port # NoPort
  PROVE  draft \in Drafts
BY DEF PanelOK

LEMMA DraftSet ==
  ASSUME draft \in Drafts, NEW slider \in Sliders, NEW level \in Levels
  PROVE  Set(slider, level) \in Drafts
<1>1. CASE slider = "master"
  BY <1>1 DEF Set, Drafts, EngineProfiles
<1>2. CASE slider = "rotation"
  <2>1. PICK e \in EngineProfiles : e = [draft.engine EXCEPT !.narrow = (level = 1)]
    BY DEF Drafts, EngineProfiles
  <2>2. Set(slider, level) = [draft EXCEPT !.engine = e]
    BY <1>2, <2>1 DEF Set
  <2> QED BY <2>2 DEF Drafts
<1>3. CASE slider = "deadband"
  BY <1>3 DEF Set, Drafts
<1> QED BY <1>1, <1>2, <1>3 DEF Sliders, Engines

\* What the panel starts from.
LEMMA PanelFacts ==
  ASSUME PageState
  PROVE  /\ Held(Found) /\ app \in States /\ app.stored \in Ports /\ native \in BOOLEAN
         /\ draft \in Drafts \cup [port : {NoPort}, drag : Sliders \cup {"none"}]
         /\ acts.part \in Parts /\ NoPort \notin Ports
BY SelectedWheelAssumption DEF PageState, PanelOK, WorldOK, States, SelectedWheelAssumption

LEMMA FoundSame ==
  ASSUME Held(Found), UNCHANGED <<faults, motor, custom, active, shape>>
  PROVE  Held(Found')
<1>1. Found' = Found
  BY DEF Found, motor
<1> QED BY <1>1

LEMMA ActiveIs ==
  ASSUME NEW d, Held(d), NEW p \in Ports
  PROVE  Active(d, p) \in EngineProfiles
<1>1. Tuning(d, p) \in Tunings
  BY TuningIs
<1> QED BY <1>1 DEF Tunings, Tuning

LEMMA PaintKeeps ==
  ASSUME PageState, Paint
  PROVE  PageState'
<1>1. Held(Found') /\ said' \in Told /\ StatusTrue'
  <2>1. said' = "nothing" /\ UNCHANGED <<faults, motor, custom, active, shape>>
    BY DEF Paint, Silent
  <2> QED BY <2>1, PanelFacts, FoundSame, NoClaim DEF Told
<1>2. draft' \in Drafts \cup [port : {NoPort}, drag : Sliders \cup {"none"}]
  <2>1. CASE ~HasReadableSelectedWheel(app)
    <3>1. draft' = [draft EXCEPT !.port = NoPort]
      BY <2>1 DEF Paint
    <3>2. CASE draft \in Drafts
      BY <3>1, <3>2 DEF Drafts
    <3>3. CASE draft \in [port : {NoPort}, drag : Sliders \cup {"none"}]
      BY <3>1, <3>3
    <3> QED BY <3>2, <3>3, PanelFacts
  <2>2. CASE HasReadableSelectedWheel(app)
    <3>1. PICK e \in EngineProfiles : e = Active(Found, app.stored)
      BY PanelFacts, ActiveIs
    <3>2. PICK h \in Levels : h = shape[app.stored]
      <4>1. Found.shape[app.stored] \in Levels
        BY PanelFacts, HeldFields
      <4> QED BY <4>1 DEF Found
    <3>3. draft' = [port |-> app.stored, engine |-> e, shape |-> h, drag |-> draft.drag]
      BY <2>2, <3>1, <3>2 DEF Paint
    <3>4. draft.drag \in Sliders \cup {"none"} /\ app.stored \in Ports
      BY PanelFacts DEF Drafts
    <3> QED BY <3>3, <3>4 DEF Drafts
  <2> QED BY <2>1, <2>2
<1>3. /\ UNCHANGED <<bus, app, plugs>> /\ tool' = tool /\ native' \in BOOLEAN
      /\ acts' = [acts EXCEPT !.part = "tune"]
  BY PanelFacts DEF Paint
<1> QED BY <1>1, <1>2, <1>3, PanelStep

LEMMA MouseDownKeeps ==
  ASSUME PageState, NEW slider \in Sliders, d6OnMouseDown(slider)
  PROVE  PageState'
<1>1. Held(Found') /\ said' \in Told /\ StatusTrue'
  <2>1. said' = "nothing" /\ UNCHANGED <<faults, motor, custom, active, shape>>
    BY DEF d6OnMouseDown, Silent
  <2> QED BY <2>1, PanelFacts, FoundSame, NoClaim DEF Told
<1>2. draft' \in Drafts
  <2>1. draft' = [draft EXCEPT !.drag = slider] /\ draft.port # NoPort
    BY DEF d6OnMouseDown
  <2>2. draft \in Drafts
    BY <2>1, DraftIs DEF PageState
  <2> QED BY <2>1, <2>2 DEF Drafts
<1>3. /\ UNCHANGED <<bus, app, plugs>> /\ tool' = tool /\ native' \in BOOLEAN
      /\ \E part \in Parts : Uses(part)
  <2>1. "tune" \in Parts
    BY DEF Parts
  <2> QED BY <2>1, PanelFacts DEF d6OnMouseDown, Act
<1> QED BY <1>1, <1>2, <1>3, PanelStep

\* The outcomes of a command, as a step of the panel.
LEMMA EngineCommitted ==
  ASSUME PageState, app' = app, NEW w \in Drafts, NEW slider, CommitEngine(w, slider)
  PROVE  Held(Found') /\ said' \in Told /\ StatusTrue'
<1>1. w.engine \in EngineProfiles /\ "Custom" \in Names
  BY DEF Drafts, Names
<1>2. PICK saved \in SaveNativeEngineProfile(Found, app, w.engine) :
        IF ~saved.ok THEN Noticed(saved.d)
        ELSE IF slider = "rotation" /\ native /\ HasActionableSelectedWheel(app)
        THEN \E o \in ApplyNativeEngineProfile(saved.d, app, "Custom") :
               IF o.ok THEN Settles(o.d) /\ Says("applied") ELSE Noticed(o.d)
        ELSE \E o \in SetActiveNativeEngineProfile(saved.d, app.stored, "Custom") :
               IF ~o.ok THEN Noticed(o.d)
               ELSE IF slider = "rotation" THEN Settles(o.d) /\ Says("rotation saved")
               ELSE Refreshed(o.d)
  BY DEF CommitEngine
<1>3. Held(saved.d) /\ (saved.ok => saved.d.custom[app.stored] # NoCustom)
  BY <1>1, PanelFacts, SaveEngineLeaves
<1>4. CASE ~saved.ok
  BY <1>2, <1>3, <1>4, NoticedKeeps
<1>5. CASE /\ saved.ok
           /\ \E o \in ApplyNativeEngineProfile(saved.d, app, "Custom") :
                IF o.ok THEN Settles(o.d) /\ Says("applied") ELSE Noticed(o.d)
  <2>1. PICK o \in ApplyNativeEngineProfile(saved.d, app, "Custom") :
               IF o.ok THEN Settles(o.d) /\ Says("applied") ELSE Noticed(o.d)
    BY <1>5
  <2>2. /\ Held(o.d)
        /\ o.ok => o.d.narrow[app.stored] = Active(o.d, app.stored).narrow /\ o.d.force[app.stored] = "none"
    BY <1>1, <1>3, <1>5, PanelFacts, ApplyLeaves
  <2>3. CASE ~o.ok
    BY <2>1, <2>2, <2>3, NoticedKeeps
  <2>4. CASE o.ok
    <3>1. Settles(o.d) /\ said' = "applied"
      BY <2>1, <2>4 DEF Says
    <3>2. Found' = o.d /\ Held(Found')
      BY <3>1, <2>2, Settled
    <3>3. narrow' = o.d.narrow /\ force' = o.d.force
      BY <3>2 DEF Found
    <3>4. StatusTrue'
      BY <2>2, <2>4, <3>1, <3>2, <3>3 DEF StatusTrue
    <3> QED BY <3>1, <3>2, <3>4 DEF Told
  <2> QED BY <2>3, <2>4
<1>6. CASE /\ saved.ok
           /\ \E o \in SetActiveNativeEngineProfile(saved.d, app.stored, "Custom") :
                IF ~o.ok THEN Noticed(o.d)
                ELSE IF slider = "rotation" THEN Settles(o.d) /\ Says("rotation saved")
                ELSE Refreshed(o.d)
  <2>1. PICK o \in SetActiveNativeEngineProfile(saved.d, app.stored, "Custom") :
                IF ~o.ok THEN Noticed(o.d)
                ELSE IF slider = "rotation" THEN Settles(o.d) /\ Says("rotation saved")
                ELSE Refreshed(o.d)
    BY <1>6
  <2>2. Held(o.d)
    BY <1>1, <1>3, <1>6, PanelFacts, SetActiveLeaves
  <2>3. CASE Noticed(o.d)
    BY <2>2, <2>3, NoticedKeeps
  <2>4. CASE Settles(o.d) /\ Says("rotation saved")
    BY <2>2, <2>4, SaysKeeps
  <2>5. CASE Refreshed(o.d)
    BY <2>2, <2>5, PanelFacts, RefreshedKeeps
  <2> QED BY <2>1, <2>3, <2>4, <2>5
<1> QED BY <1>2, <1>4, <1>5, <1>6

LEMMA ShapeSaved ==
  ASSUME PageState, NEW level \in Levels, NEW saved \in SaveSelectedAdvancedFFBConfig(Found, app, level),
         Refreshed(saved.d) \/ Noticed(saved.d)
  PROVE  Held(Found') /\ said' \in Told /\ StatusTrue'
<1>1. Held(saved.d)
  BY PanelFacts, SaveShapeLeaves
<1> QED BY <1>1, PanelFacts, RefreshedKeeps, NoticedKeeps

LEMMA MouseUpKeeps ==
  ASSUME PageState, NEW level \in Levels, d6OnMouseUp(level)
  PROVE  PageState'
<1>1. /\ UNCHANGED <<bus, app, plugs>> /\ tool' = tool /\ native' \in BOOLEAN /\ acts' = acts
  BY PanelFacts DEF d6OnMouseUp, Quiet
<1>2. CASE draft.port = NoPort
  <2>1. draft' = NoDraft /\ Noticed(Found)
    BY <1>2 DEF d6OnMouseUp
  <2>2. draft' \in [port : {NoPort}, drag : Sliders \cup {"none"}]
    BY <2>1 DEF NoDraft
  <2>3. Held(Found') /\ said' \in Told /\ StatusTrue'
    BY <2>1, PanelFacts, NoticedKeeps
  <2> QED BY <1>1, <2>2, <2>3, PanelStep
<1>3. CASE draft.port # NoPort
  <2>1. PICK w : /\ w = Set(draft.drag, level) /\ draft' = [w EXCEPT !.drag = "none"]
                 /\ d6CommitDraft(w, draft.drag) /\ draft.drag # "none"
    BY <1>3 DEF d6OnMouseUp
  <2>2. draft \in Drafts
    BY <1>3, DraftIs DEF PageState
  <2>3. draft.drag \in Sliders
    BY <2>1, <2>2 DEF Drafts
  <2>4. w \in Drafts
    BY <2>1, <2>2, <2>3, DraftSet
  <2>5. draft' \in Drafts
    BY <2>1, <2>4 DEF Drafts
  <2>6. Held(Found') /\ said' \in Told /\ StatusTrue'
    <3>1. CASE CommitEngine(w, draft.drag)
      BY <3>1, <2>4, <1>1, EngineCommitted
    <3>2. CASE CommitShape(w.shape)
      <4>1. PICK h \in Levels : h = w.shape
        BY <2>4 DEF Drafts
      <4>2. PICK saved \in SaveSelectedAdvancedFFBConfig(Found, app, h) : Refreshed(saved.d) \/ Noticed(saved.d)
        BY <4>1, <3>2 DEF CommitShape
      <4> QED BY <4>2, ShapeSaved
    <3> QED BY <2>1, <3>1, <3>2 DEF d6CommitDraft
  <2> QED BY <1>1, <2>5, <2>6, PanelStep
<1> QED BY <1>2, <1>3

\* A click on the panel uses it, and leaves all else as it was.
LEMMA ClickStep ==
  ASSUME PageState, Clicked, Held(Found'), said' \in Told, StatusTrue', native' \in BOOLEAN,
         draft' \in Drafts \cup [port : {NoPort}, drag : Sliders \cup {"none"}]
  PROVE  PageState'
<1>1. UNCHANGED <<bus, app, plugs>> /\ tool' = tool /\ \E part \in Parts : Uses(part)
  BY DEF Clicked, Quiet, Act, Parts
<1> QED BY <1>1, PanelStep

LEMMA ClickProfileKeeps ==
  ASSUME PageState, NEW name \in DOMAIN Builtin, ClickProfile(name)
  PROVE  PageState'
<1>1. /\ Clicked /\ draft.port # NoPort /\ native' = native /\ name \in Names /\ name # "Custom"
      /\ Builtin[name] \in EngineProfiles
  BY ProfilesAreLoaded, PanelAssumption DEF ClickProfile, Names
<1>2. PICK o : /\ \/ o \in ApplyNativeEngineProfile(Found, app, name)
                  \/ o \in SetActiveNativeEngineProfile(Found, app.stored, name)
               /\ IF o.ok THEN draft' = [draft EXCEPT !.engine = Builtin[name]] /\ Refreshed(o.d)
                  ELSE UNCHANGED draft /\ Noticed(o.d)
  BY DEF ClickProfile
<1>3. Held(o.d)
  BY <1>1, <1>2, PanelFacts, ApplyLeaves, SetActiveLeaves
<1>4. draft \in Drafts
  BY <1>1, DraftIs DEF PageState
<1>5. CASE o.ok
  <2>1. PICK e \in EngineProfiles : e = Builtin[name]
    BY <1>1
  <2>2. draft' \in Drafts
    BY <2>1, <1>2, <1>4, <1>5 DEF Drafts
  <2>3. Held(Found') /\ said' \in Told /\ StatusTrue'
    BY <1>2, <1>3, <1>5, PanelFacts, RefreshedKeeps
  <2> QED BY <1>1, <2>2, <2>3, PanelFacts, ClickStep
<1>6. CASE ~o.ok
  <2>1. Held(Found') /\ said' \in Told /\ StatusTrue' /\ draft' = draft
    BY <1>2, <1>3, <1>6, NoticedKeeps
  <2> QED BY <1>1, <2>1, PanelFacts, ClickStep
<1> QED BY <1>5, <1>6

LEMMA ClickShapeKeeps ==
  ASSUME PageState, NEW level \in Levels, ClickShape(level)
  PROVE  PageState'
<1>1. Clicked /\ draft.port # NoPort /\ native' = native
  BY DEF ClickShape
<1>2. PICK set : set = [draft EXCEPT !.shape = level]
  OBVIOUS
<1>3. PICK saved \in SaveSelectedAdvancedFFBConfig(Found, app, level) :
        /\ draft' \in {draft, set}
        /\ Refreshed(saved.d) \/ Noticed(saved.d)
  BY <1>2 DEF ClickShape
<1>4. draft \in Drafts
  BY <1>1, DraftIs DEF PageState
<1>5. draft' \in Drafts
  BY <1>2, <1>3, <1>4 DEF Drafts
<1>6. Held(Found') /\ said' \in Told /\ StatusTrue'
  BY <1>3, ShapeSaved
<1> QED BY <1>1, <1>5, <1>6, PanelFacts, ClickStep

LEMMA ClickTestKeeps ==
  ASSUME PageState, NEW use \in {"worker", "timer"}, ClickTest(use)
  PROVE  PageState'
<1>1. Clicked /\ draft' = draft /\ native' = native
  BY DEF ClickTest
<1>2. Held(Found') /\ said' \in Told /\ StatusTrue'
  <2>1. CASE ~native
    <3>1. Settles(Found) /\ Says("blocked")
      BY <2>1 DEF ClickTest
    <3> QED BY <3>1, PanelFacts, SaysKeeps
  <2>2. CASE native
    <3>1. PICK o \in Then(Then(NativeOutputEmergencyStop(Found, app), LAMBDA d : d6ProbeNativeWriter(d, app, TRUE)),
                          LAMBDA d : StartTest(d, app, use)) :
            Settles(o.d) /\ (Says("running") \/ Says("error"))
      BY <2>2 DEF ClickTest
    <3>2. PICK x \in Then(NativeOutputEmergencyStop(Found, app), LAMBDA d : d6ProbeNativeWriter(d, app, TRUE)) :
            o \in IF x.ok THEN StartTest(x.d, app, use) ELSE {x}
      BY DEF Then
    <3>3. PICK y \in NativeOutputEmergencyStop(Found, app) :
            x \in IF y.ok THEN d6ProbeNativeWriter(y.d, app, TRUE) ELSE {y}
      BY DEF Then
    <3>4. Held(y.d)
      BY PanelFacts, CommandHolds
    <3>5. Held(x.d)
      BY <3>3, <3>4, PanelFacts, CommandHolds
    <3>6. Held(o.d)
      BY <3>2, <3>5, PanelFacts, CommandHolds
    <3> QED BY <3>1, <3>6, SaysKeeps
  <2> QED BY <2>1, <2>2
<1> QED BY <1>1, <1>2, PanelFacts, ClickStep

\* The panel calls neutral what it left without a lease and without force.
LEMMA ClickNeutralKeeps ==
  ASSUME PageState, ClickNeutral
  PROVE  PageState'
<1>1. Clicked /\ draft' = draft /\ native' = native
  BY DEF ClickNeutral
<1>2. PICK o \in NativeOutputEmergencyStop(Found, app) :
        Settles(o.d) /\ Says(IF o.ok THEN "neutral" ELSE "error")
  BY DEF ClickNeutral
<1>3. Held(o.d) /\ (o.ok => o.d.lease = Free)
  BY PanelFacts, HeldFields, CommandHolds, EmergencyLeaves
<1>4. Held(Found') /\ said' \in Told /\ StatusTrue'
  <2>1. CASE ~o.ok
    BY <2>1, <1>2, <1>3, SaysKeeps
  <2>2. CASE o.ok
    <3>1. said' = "neutral"
      BY <2>2, <1>2 DEF Says
    <3>2. Found' = o.d /\ Held(Found')
      BY <1>2, <1>3, Settled
    <3>3. lease' = Free /\ force' = o.d.force
      BY <3>2, <2>2, <1>3 DEF Found
    <3>4. \A p \in Ports : o.d.force[p] = "none"
      BY <2>2, <1>3, AtRest DEF Held
    <3>5. StatusTrue'
      BY <3>1, <3>3, <3>4 DEF StatusTrue
    <3> QED BY <3>1, <3>2, <3>5 DEF Told
  <2> QED BY <2>1, <2>2
<1> QED BY <1>1, <1>4, PanelFacts, ClickStep

LEMMA ClickProbeKeeps ==
  ASSUME PageState, ClickProbe
  PROVE  PageState'
<1>1. Clicked /\ draft' = draft /\ native' = native
  BY DEF ClickProbe
<1>2. PICK o \in d6ProbeNativeWriter(Found, app, FALSE) : Settles(o.d) /\ (Says("ready") \/ Says("error"))
  BY DEF ClickProbe
<1>3. Held(o.d)
  BY PanelFacts, CommandHolds
<1> QED BY <1>1, <1>2, <1>3, PanelFacts, SaysKeeps, ClickStep

LEMMA ClickNativeKeeps ==
  ASSUME PageState, ClickNative
  PROVE  PageState'
<1>1. Clicked /\ draft' = draft
  BY DEF ClickNative
<1>2. native' \in BOOLEAN /\ Held(Found') /\ said' \in Told /\ StatusTrue'
  <2>1. CASE native
    <3>1. PICK o \in NativeOutputEmergencyStop(Found, app) :
            IF o.ok THEN native' = FALSE /\ Settles(o.d) /\ Says("off") ELSE native' = native /\ Noticed(o.d)
      BY <2>1 DEF ClickNative
    <3>2. Held(o.d)
      BY PanelFacts, CommandHolds
    <3> QED BY <3>1, <3>2, PanelFacts, SaysKeeps, NoticedKeeps
  <2>2. CASE ~native
    <3>1. PICK o \in d6ProbeNativeWriter(Found, app, TRUE) : Settles(o.d) /\ (Says("ready") \/ Says("error"))
      BY <2>2 DEF ClickNative
    <3>2. native' \in BOOLEAN
      BY <2>2 DEF ClickNative
    <3>3. Held(o.d)
      BY PanelFacts, CommandHolds
    <3> QED BY <3>1, <3>2, <3>3, SaysKeeps
  <2> QED BY <2>1, <2>2
<1> QED BY <1>1, <1>2, PanelFacts, ClickStep

LEMMA ToolState ==
  ASSUME ToolOK
  PROVE  /\ tool.kind \in {"output", "telemetry"} => tool.s \in States
         /\ tool.kind = "cert" => tool \in Certifying
<1>1. CASE tool.kind = "learn"
  BY <1>1
<1>2. CASE tool = NoTool
  BY <1>2 DEF NoTool
<1>3. CASE tool \in Certifying
  BY <1>3 DEF Certifying
<1>4. CASE tool \in Ordering
  BY <1>4 DEF Ordering
<1> QED BY <1>1, <1>2, <1>3, <1>4 DEF ToolOK

\* A step of the panel that opens a dialog.
LEMMA OpenKeeps ==
  ASSUME PageState, NEW part \in Parts, Uses(part), NEW kind \in {"output", "telemetry"},
         tool' = [kind |-> kind, s |-> app], Quiet, Silent, UNCHANGED <<faults, motor, panel>>
  PROVE  PageState'
<1>1. tool' \in Ordering
  BY PanelFacts DEF Ordering
<1>2. Held(Found') /\ said' \in Told /\ StatusTrue'
  <2>1. said' = "nothing" /\ UNCHANGED <<faults, motor, custom, active, shape>>
    BY DEF Silent, panel
  <2> QED BY <2>1, PanelFacts, FoundSame, NoClaim DEF Told
<1>3. draft' = draft /\ native' = native
  BY DEF panel
<1> QED BY <1>1, <1>2, <1>3, PanelFacts, PanelStep DEF Quiet

LEMMA CreatedHolds ==
  ASSUME PageState, NEW s \in States, NEW profile \in EngineProfiles,
         NEW o \in createCustomNativeEngineProfile(s, profile)
  PROVE  Held(o.d)
<1>1. PICK x \in SaveNativeEngineProfile(Found, s, profile) :
        o \in IF x.ok THEN ApplyNativeEngineProfile(x.d, s, "Custom") ELSE {x}
  BY DEF createCustomNativeEngineProfile, Then
<1>2. Held(x.d) /\ (x.ok => x.d.custom[s.stored] # NoCustom)
  BY PanelFacts, SaveEngineLeaves
<1>3. CASE x.ok
  <2>1. "Custom" \in Names
    BY DEF Names
  <2> QED BY <2>1, <1>1, <1>2, <1>3, ApplyLeaves
<1>4. CASE ~x.ok
  BY <1>1, <1>2, <1>4
<1> QED BY <1>3, <1>4

LEMMA ProfilesHold ==
  ASSUME PageState, NEW s \in States, NEW o \in showNativeEngineProfiles(s)
  PROVE  Held(o.d)
<1>1. CASE o \in Error(Found)
  BY <1>1, PanelFacts, ErrorIs
<1>2. CASE \E name \in Profiles(Found, s.stored) : o \in ApplyNativeEngineProfile(Found, s, name)
  <2>1. PICK name \in Profiles(Found, s.stored) : o \in ApplyNativeEngineProfile(Found, s, name)
    BY <1>2
  <2>2. name \in Names /\ (name = "Custom" => Found.custom[s.stored] # NoCustom)
    BY ProfilesAreLoaded, PanelAssumption DEF Profiles, Names
  <2> QED BY <2>1, <2>2, PanelFacts, ApplyLeaves
<1>3. CASE \E profile \in EngineProfiles : o \in createCustomNativeEngineProfile(s, profile)
  <2>1. PICK profile \in EngineProfiles : o \in createCustomNativeEngineProfile(s, profile)
    BY <1>3
  <2> QED BY <2>1, CreatedHolds
<1> QED BY <1>1, <1>2, <1>3 DEF showNativeEngineProfiles, EngineProfiles

LEMMA UseOutputToolKeeps ==
  ASSUME PageState, UseOutputTool
  PROVE  PageState'
<1>1. tool.s \in States
  BY ToolState DEF PageState, UseOutputTool
<1>2. PICK s \in States : s = tool.s
  BY <1>1
<1>3. PICK o : /\ Noticed(o.d)
               /\ \/ o \in showNativeHardwareControls(s) \/ o \in showNativeFFBEffectTests(s)
                  \/ o \in showNativeEngineProfiles(s) \/ o \in showAdvancedFFBTuning(s)
                  \/ o \in NativeOutputEmergencyStop(Found, s)
  BY <1>2 DEF UseOutputTool
<1>4. Held(o.d)
  <2>1. CASE o \in showNativeHardwareControls(s)
    <3>1. \/ \E value \in BOOLEAN : o \in NativeOutputApplyRange(Found, s, value)
          \/ o \in NativeOutputSetLEDs(Found, s) \/ o \in StartTest(Found, s, "timer")
      BY <2>1 DEF showNativeHardwareControls
    <3>2. CASE o \in StartTest(Found, s, "timer")
      <4>1. "timer" \in {"worker", "timer"}
        OBVIOUS
      <4> QED BY <4>1, <3>2, PanelFacts, CommandHolds
    <3> QED BY <3>1, <3>2, PanelFacts, CommandHolds
  <2>2. CASE o \in showNativeFFBEffectTests(s)
    <3>1. o \in StartTest(Found, s, "worker") \/ o \in StartTestToTheLeft(Found, s)
      BY <2>2 DEF showNativeFFBEffectTests
    <3>2. CASE o \in StartTest(Found, s, "worker")
      <4>1. "worker" \in {"worker", "timer"}
        OBVIOUS
      <4> QED BY <4>1, <3>2, PanelFacts, CommandHolds
    <3> QED BY <3>1, <3>2, PanelFacts, CommandHolds
  <2>3. CASE o \in showNativeEngineProfiles(s)
    BY <2>3, ProfilesHold
  <2>4. CASE o \in showAdvancedFFBTuning(s)
    <3>1. PICK level \in Levels : o \in SaveSelectedAdvancedFFBConfig(Found, s, level)
      BY <2>4 DEF showAdvancedFFBTuning
    <3> QED BY <3>1, PanelFacts, SaveShapeLeaves
  <2>5. CASE o \in NativeOutputEmergencyStop(Found, s)
    BY <2>5, PanelFacts, CommandHolds
  <2> QED BY <1>3, <2>1, <2>2, <2>3, <2>4, <2>5
<1>5. Held(Found') /\ said' \in Told /\ StatusTrue'
  BY <1>3, <1>4, NoticedKeeps
<1>6. /\ UNCHANGED <<bus, app, plugs>> /\ tool' = NoTool /\ acts' = acts
      /\ draft' = draft /\ native' = native
  BY DEF UseOutputTool, Quiet
<1> QED BY <1>5, <1>6, PanelFacts, PanelStep

LEMMA GameToolKeeps ==
  ASSUME PageState, StartNativeGameOutput \/ StopNativeGameOutput
  PROVE  PageState'
<1>1. /\ UNCHANGED <<bus, app, plugs>> /\ tool' = NoTool /\ acts' = acts
      /\ draft' = draft /\ native' = native /\ tool.s \in States
  BY ToolState DEF StartNativeGameOutput, StopNativeGameOutput, Quiet, PageState
<1>2. Held(Found') /\ said' \in Told /\ StatusTrue'
  <2>1. CASE StartNativeGameOutput
    <3>1. PICK s \in States : s = tool.s
      BY <1>1
    <3>2. PICK name \in Profiles(Found, s.stored) :
            \E o \in StartFusionC6GameOutput(Found, s, [engine |-> Profile(Found, s.stored, name), shape |-> shape[s.stored]]) :
              Noticed(o.d)
      BY <2>1, <3>1 DEF StartNativeGameOutput
    <3>3. name \in Names /\ (name = "Custom" => Found.custom[s.stored] # NoCustom) /\ s.stored \in Ports
      BY ProfilesAreLoaded, PanelAssumption DEF Profiles, Names, States
    <3>4. PICK e \in EngineProfiles : e = Profile(Found, s.stored, name)
      BY <3>3, PanelFacts, ProfileIs
    <3>5. PICK h \in Levels : h = shape[s.stored]
      <4>1. Found.shape[s.stored] \in Levels
        BY <3>3, PanelFacts, HeldFields
      <4> QED BY <4>1 DEF Found
    <3>6. PICK t \in Tunings : t = [engine |-> e, shape |-> h]
      BY DEF Tunings
    <3>7. PICK o \in StartFusionC6GameOutput(Found, s, t) : Noticed(o.d)
      BY <3>2, <3>4, <3>5, <3>6
    <3>8. Held(o.d)
      BY PanelFacts, HeldFields, HeldStays, StartGameLeaves
    <3> QED BY <3>7, <3>8, NoticedKeeps
  <2>2. CASE StopNativeGameOutput
    <3>1. PICK o \in StopFusionC6GameOutput(Found) : Noticed(o.d)
      BY <2>2 DEF StopNativeGameOutput
    <3>2. Held(o.d)
      BY PanelFacts, CommandHolds
    <3> QED BY <3>1, <3>2, NoticedKeeps
  <2> QED BY <2>1, <2>2
<1> QED BY <1>1, <1>2, PanelFacts, PanelStep

LEMMA PanelKeeps ==
  ASSUME PageState, PanelNext
  PROVE  PageState'
<1>1. CASE Paint
  BY <1>1, PaintKeeps
<1>2. CASE \E slider \in Sliders : d6OnMouseDown(slider)
  BY <1>2, MouseDownKeeps
<1>3. CASE \E level \in Levels : d6OnMouseUp(level)
  BY <1>3, MouseUpKeeps
<1>4. CASE \E name \in DOMAIN Builtin : ClickProfile(name)
  BY <1>4, ClickProfileKeeps
<1>5. CASE \E level \in Levels : ClickShape(level)
  BY <1>5, ClickShapeKeeps
<1>6. CASE \E use \in {"worker", "timer"} : ClickTest(use)
  BY <1>6, ClickTestKeeps
<1>7. CASE ClickNeutral
  BY <1>7, ClickNeutralKeeps
<1>8. CASE ClickProbe
  BY <1>8, ClickProbeKeeps
<1>9. CASE ClickNative
  BY <1>9, ClickNativeKeeps
<1>10. CASE showNativeOutputTools
  <2>1. "tune" \in Parts /\ Uses("tune") /\ tool' = [kind |-> "output", s |-> app]
    BY <1>10 DEF showNativeOutputTools, Act, Parts
  <2>2. Quiet /\ Silent /\ UNCHANGED <<faults, motor, panel>>
    BY <1>10 DEF showNativeOutputTools
  <2> QED BY <2>1, <2>2, OpenKeeps
<1>11. CASE showTelemetryTools
  <2>1. acts.part \in Parts /\ Uses(acts.part) /\ tool' = [kind |-> "telemetry", s |-> app]
    BY <1>11, PanelFacts DEF showTelemetryTools, Act
  <2>2. Quiet /\ Silent /\ UNCHANGED <<faults, motor, panel>>
    BY <1>11 DEF showTelemetryTools
  <2> QED BY <2>1, <2>2, OpenKeeps
<1>12. CASE UseOutputTool
  BY <1>12, UseOutputToolKeeps
<1>13. CASE StartNativeGameOutput \/ StopNativeGameOutput
  BY <1>13, GameToolKeeps
<1> QED BY <1>1, <1>2, <1>3, <1>4, <1>5, <1>6, <1>7, <1>8, <1>9, <1>10, <1>11, <1>12, <1>13 DEF PanelNext

-----------------------------------------------------------------------------
(* Steps of Windows, the scan, the selection and of what drives the motor. *)

\* A step that says nothing and keeps the settings and the draft.
LEMMA SilentStep ==
  ASSUME PageState, WorldOK', ToolOK', Held(Found'), said' = "nothing", UNCHANGED <<native, draft>>
  PROVE  PageState'
<1>1. PanelOK'
  BY DEF PanelOK, PageState, Told
<1> QED BY <1>1, NoClaim DEF PageState

LEMMA WorldKeeps ==
  ASSUME PageState, WorldNext, Silent, UNCHANGED <<motor, panel>>
  PROVE  PageState'
<1>1. UNCHANGED <<faults, tool, acts>>
  BY DEF WorldNext, Switch, Select, Plug, Scan
<1>2. Held(Found') /\ said' = "nothing" /\ UNCHANGED <<native, draft>>
  BY <1>1, PanelFacts, FoundSame DEF Silent, panel
<1>3. ToolOK'
  BY <1>1, ToolKeeps DEF PageState
<1>4. /\ bus \in Seen /\ app \in States /\ plugs \in 1..MaxPlugs /\ faults \in Nat
      /\ acts \in [part : Parts, count : Nat] /\ MaxPlugs \in Nat
  BY SelectedWheelAssumption DEF PageState, WorldOK, SelectedWheelAssumption
<1>5. bus' \in Seen /\ app' \in States /\ plugs' \in 1..MaxPlugs
  <2>1. ASSUME NEW p \in Ports, Switch(p)
        PROVE  bus' \in Seen /\ app' \in States /\ plugs' \in 1..MaxPlugs
    <3>1. bus[p] \in Plugged
      BY <2>1, <1>4 DEF Switch, Seen
    <3>2. [bus[p] EXCEPT !.mode = "native"] \in Plugged
      BY <3>1 DEF Plugged, Modes
    <3>3. PICK x \in Plugged : x = [bus[p] EXCEPT !.mode = "native"]
      BY <3>2
    <3>4. bus' = [bus EXCEPT ![p] = x] /\ app' = app /\ plugs' = plugs
      BY <2>1, <3>3 DEF Switch
    <3> QED BY <3>4, <1>4 DEF Seen
  <2>2. ASSUME NEW p \in Ports, Select(p)
        PROVE  bus' \in Seen /\ app' \in States /\ plugs' \in 1..MaxPlugs
    BY <2>2, <1>4 DEF Select, States
  <2>3. ASSUME NEW p \in Ports, NEW w \in Wheels, NEW m \in Modes, Plug(p, w, m)
        PROVE  bus' \in Seen /\ app' \in States /\ plugs' \in 1..MaxPlugs
    <3>1. plugs + 1 \in 1..MaxPlugs
      BY <2>3, <1>4 DEF Plug
    <3>2. PICK x \in Plugged : x = [wheel |-> w, session |-> plugs + 1, mode |-> m]
      BY <3>1 DEF Plugged
    <3>3. bus' = [bus EXCEPT ![p] = x] /\ app' = app /\ plugs' = plugs + 1
      BY <2>3, <3>2 DEF Plug
    <3> QED BY <3>1, <3>3, <1>4 DEF Seen
  <2>4. CASE Scan
    <3>1. bus' = bus /\ plugs' = plugs /\ app' = [app EXCEPT !.seen = bus]
      BY <2>4 DEF Scan
    <3> QED BY <3>1, <1>4 DEF States
  <2> QED BY <2>1, <2>2, <2>3, <2>4 DEF WorldNext
<1>6. WorldOK'
  BY <1>1, <1>4, <1>5 DEF WorldOK
<1> QED BY <1>2, <1>3, <1>6, SilentStep

LEMMA NowIs ==
  ASSUME Held(Found)
  PROVE  Now \in MotorData /\ Data(Now) /\ Driven(Now)
<1>1. /\ force \in Forces /\ narrow \in [Ports -> BOOLEAN] /\ lease \in Leases \cup {Free}
      /\ game \in Games \cup {NoGame} /\ faults \in Nat
  BY HeldFields, DataFields DEF Found
<1>2. Now \in MotorData
  BY <1>1 DEF Now, MotorData
<1>3. Driven(Now)
  BY HeldFields DEF Driven, Now, Found
<1> QED BY <1>2, <1>3 DEF Data

LEMMA Became ==
  ASSUME Held(Found), NEW d, Data(d), Driven(d), Becomes(d), UNCHANGED <<custom, active, shape>>
  PROVE  Held(Found')
<1>1. /\ force' = d.force /\ narrow' = d.narrow /\ lease' = d.lease /\ game' = d.game /\ faults' = d.faults
      /\ custom' = custom /\ active' = active /\ shape' = shape
  BY DEF Becomes
<1>2. /\ custom \in [Ports -> EngineProfiles \cup {NoCustom}] /\ active \in [Ports -> Names]
      /\ shape \in [Ports -> Levels]
  BY HeldFields DEF Found
<1>3. Found' \in PageData
  BY <1>1, <1>2, DataFields DEF Found, PageData
<1>4. Driven(Found')
  BY <1>1 DEF Driven, Found
<1>5. Loaded(Found')
  BY <1>1 DEF Held, Loaded, Found
<1> QED BY <1>3, <1>4, <1>5 DEF Held

LEMMA CommandsKeep ==
  ASSUME PageState, CommandsNext, Silent, UNCHANGED panel
  PROVE  PageState'
<1>1. said' = "nothing" /\ UNCHANGED <<native, draft, custom, active, shape, tool>>
  BY DEF Silent, panel, CommandsNext, OutputEnds, UnplugMotor, Unplug
<1>2. ToolOK'
  BY <1>1, ToolKeeps DEF PageState
<1>3. CASE OutputEnds
  <2>1. PICK o \in nativeOutputSafeStopLease(Now) : Becomes(o.d)
    BY <1>3 DEF OutputEnds
  <2>2. Now.lease # Free
    BY <1>3 DEF OutputEnds, Now, Free, Workers
  <2>3. Data(o.d) /\ Driven(o.d)
    BY <2>2, PanelFacts, NowIs, SafeStopLeaves, FollowsData
  <2>4. Held(Found')
    BY <1>1, <2>1, <2>3, PanelFacts, Became
  <2>5. UNCHANGED <<bus, app, plugs, acts>>
    BY <1>3 DEF OutputEnds
  <2>6. WorldOK'
    BY <2>4, <2>5, QuietKeeps, HeldFields, DataFields DEF Found, PageState, WorldOK
  <2> QED BY <1>1, <1>2, <2>4, <2>6, SilentStep
<1>4. ASSUME NEW p \in Ports, UnplugMotor(p)
      PROVE  PageState'
  <2>1. /\ force' = [force EXCEPT ![p] = "none"] /\ narrow' = [narrow EXCEPT ![p] = FALSE]
        /\ UNCHANGED <<lease, game, app, plugs, acts, faults>> /\ bus' = [bus EXCEPT ![p] = Nothing]
    BY <1>4 DEF UnplugMotor, Unplug
  <2>2. /\ force \in Forces /\ narrow \in [Ports -> BOOLEAN] /\ lease \in Leases \cup {Free}
        /\ game \in Games \cup {NoGame} /\ faults \in Nat
    BY PanelFacts, HeldFields, DataFields DEF Found
  <2>3. PICK d : d = [force |-> [force EXCEPT ![p] = "none"], narrow |-> [narrow EXCEPT ![p] = FALSE],
                      lease |-> lease, game |-> game, faults |-> faults]
    OBVIOUS
  <2>4. [force EXCEPT ![p] = "none"] \in Forces /\ [narrow EXCEPT ![p] = FALSE] \in [Ports -> BOOLEAN]
    BY <2>2 DEF Forces
  <2>5. d \in MotorData
    BY <2>2, <2>3, <2>4 DEF MotorData
  <2>6. Driven(d)
    <3>1. \A q \in Ports : force[q] # "none" => lease # Free /\ lease.port = q
      BY PanelFacts, HeldFields DEF Driven, Found
    <3>2. d.force = [force EXCEPT ![p] = "none"] /\ d.lease = lease
      BY <2>3
    <3>3. \A q \in Ports : d.force[q] # "none" => force[q] # "none"
      BY <3>2, <2>2 DEF Forces
    <3> QED BY <3>1, <3>2, <3>3 DEF Driven
  <2>7. Becomes(d)
    BY <2>1, <2>3 DEF Becomes
  <2>8. Held(Found')
    BY <1>1, <2>5, <2>6, <2>7, PanelFacts, Became DEF Data
  <2>9. bus' \in Seen
    BY <2>1 DEF PageState, WorldOK, Seen
  <2>10. WorldOK'
    BY <2>1, <2>9 DEF PageState, WorldOK
  <2> QED BY <1>1, <1>2, <2>8, <2>10, SilentStep
<1> QED BY <1>3, <1>4 DEF CommandsNext

-----------------------------------------------------------------------------
(* The evidence. *)

CertState == EvidenceOK /\ Remembered

(* What EvidenceKept and PassLeavesSafe say of a step.                         *)
KeptStep ==
  evidence'.kind # "damaged" =>
    \A r \in evidence.recs :
      \/ r.key \in asked' \/ r \in missed
      \/ \E q \in evidence'.recs : q.key = r.key /\ q.check = r.check
PassStep ==
  \A r \in Known' \ Known :
    r.verdict = "passed" /\ r.check \in MotorChecks =>
      /\ lease' = Free /\ \A p \in Ports : force'[p] = "none"
      /\ r.check = "range" => ~narrow'[r.key[1]]

LEMMA CacheIs ==
  ASSUME cache \in {Cold} \cup [cold : {FALSE}, recs : SUBSET Results]
  PROVE  /\ cache = Cold => Cached = {}
         /\ cache # Cold => Cached = {cache.recs} /\ cache.recs \subseteq Results
BY DEF Cached

LEMMA PendingIs ==
  ASSUME filling \in {Cold} \cup [cold : {FALSE}, recs : SUBSET Results]
  PROVE  /\ filling = Cold => Pending = {}
         /\ filling # Cold => Pending = {filling.recs} /\ filling.recs \subseteq Results
BY DEF Pending

LEMMA HotIs ==
  ASSUME NEW recs \in SUBSET Results
  PROVE  Hot(recs) # Cold /\ Hot(recs).recs = recs /\ Hot(recs) \in [cold : {FALSE}, recs : SUBSET Results]
<1>1. Hot(recs) \in [cold : {FALSE}, recs : SUBSET Results] /\ Hot(recs).recs = recs
  BY DEF Hot
<1>2. Hot(recs).cold = FALSE /\ Cold.cold = TRUE
  BY DEF Hot, Cold
<1> QED BY <1>1, <1>2

\* What a load finds has all that is stored, but for what was reset.
LEMMA LoadFinds ==
  ASSUME CertState, NEW recs \in loadHardwareCertification
  PROVE  /\ recs \in SUBSET Results /\ recs \subseteq Known
         /\ Holds(recs)
<1>1. CASE cache # Cold /\ recs = cache.recs
  <2>1. cache.recs \in Cached /\ recs \in SUBSET Results
    BY <1>1, CacheIs DEF CertState, EvidenceOK
  <2> QED BY <1>1, <2>1 DEF CertState, Remembered, Known
<1>2. CASE recs = evidence.recs
  BY <1>2 DEF CertState, EvidenceOK, Known, Holds
<1>3. recs = evidence.recs \/ (cache # Cold /\ recs = cache.recs)
  BY CacheIs DEF loadHardwareCertification, CertState, EvidenceOK
<1> QED BY <1>1, <1>2, <1>3

\* A save of what a load found, in which the results left out were reset or are new again.
LEMMA SaveKeeps ==
  ASSUME CertState, NEW recs \in loadHardwareCertification, NEW more \in SUBSET Results, NEW fault,
         saveHardwareCertification(more, fault), asked' \subseteq Keys, asked \subseteq asked',
         \A r \in recs : r.key \in asked' \/ \E q \in more : q.key = r.key /\ q.check = r.check
  PROVE  CertState' /\ KeptStep /\ Known' \subseteq Known \cup more
<1>1. \A r \in evidence.recs : \/ r.key \in asked' \/ r \in missed
                               \/ \E q \in more : q.key = r.key /\ q.check = r.check
  BY LoadFinds DEF Holds
<1>2. /\ cache' = Hot(more) /\ Hot(more) # Cold /\ Hot(more).recs = more
      /\ Hot(more) \in [cold : {FALSE}, recs : SUBSET Results]
  BY HotIs DEF saveHardwareCertification
<1>3. /\ evidence \in [kind : {"good", "damaged", "newer"}, recs : SUBSET Results]
      /\ filling \in {Cold} \cup [cold : {FALSE}, recs : SUBSET Results] /\ missed \in SUBSET Results
  BY DEF CertState, EvidenceOK
<1>4. /\ filling' = filling
      /\ \/ evidence' = evidence /\ missed' = missed
         \/ /\ evidence' = [kind |-> "good", recs |-> more] /\ evidence'.recs = more
            /\ missed' = missed \cup UNION {more \ old : old \in Pending}
  BY DEF saveHardwareCertification
<1>5. evidence' \in [kind : {"good", "damaged", "newer"}, recs : SUBSET Results]
  BY <1>3, <1>4
<1>6. EvidenceOK'
  <2>1. missed' \in SUBSET Results
    BY <1>3, <1>4
  <2> QED BY <1>2, <1>3, <1>4, <1>5, <2>1 DEF EvidenceOK
<1>7. cache' # Cold /\ cache'.recs = more
  BY <1>2
<1>8. Holds(more)'
  BY <1>1, <1>4, <1>7 DEF Holds
<1>9. ASSUME filling # Cold PROVE Holds(filling.recs)'
  <2>1. CASE evidence' = evidence /\ missed' = missed
    BY <1>4, <1>9, <2>1 DEF Holds, CertState, Remembered
  <2>2. CASE /\ evidence'.recs = more
             /\ missed' = missed \cup UNION {more \ old : old \in Pending}
    <3>1. filling.recs \in Pending
      BY <1>3, <1>9, PendingIs
    <3>2. more \ filling.recs \in {more \ old : old \in Pending}
      BY ONLY <3>1
    <3>3. ASSUME NEW r \in more, r \notin filling.recs PROVE r \in missed'
      <4>1. r \in more \ filling.recs
        BY ONLY <3>3
      <4> QED BY ONLY <2>2, <3>2, <4>1
    <3> QED BY <1>4, <2>2, <3>3 DEF Holds
  <2> QED BY <1>4, <2>1, <2>2
<1>10. Remembered'
  BY <1>4, <1>7, <1>8, <1>9 DEF Remembered
<1>11. KeptStep
  BY <1>1, <1>4 DEF KeptStep
<1>12. Known' \subseteq Known \cup more
  <2>1. Cached' = {cache'.recs} /\ Pending' = Pending
    BY <1>2, <1>4 DEF Cached, Pending
  <2> QED BY <2>1, <1>7, <1>4 DEF Known
<1> QED BY <1>6, <1>10, <1>11, <1>12 DEF CertState

LEMMA CertUnchanged ==
  ASSUME CertState, UNCHANGED certified
  PROVE  CertState' /\ KeptStep /\ PassStep /\ Known' = Known
<1>1. UNCHANGED <<evidence, cache, asked, filling, missed>>
  BY DEF certified
<1>2. EvidenceOK'
  BY <1>1 DEF CertState, EvidenceOK
<1>3. Remembered'
  BY <1>1 DEF CertState, Remembered, Holds
<1>4. Known' = Known
  BY <1>1 DEF Known, Cached, Pending
<1> QED BY <1>1, <1>2, <1>3, <1>4 DEF CertState, KeptStep, PassStep

\* The result a check records is the only one that is new.
LEMMA RecordKeeps ==
  ASSUME CertState, NEW s, certificationRecordKey(s) \in Keys, NEW check \in Checks,
         NEW verdict \in {"passed", "failed", "judged", "sampled"}, NEW fault,
         RecordHardwareCertificationResult(s, check, verdict, fault), asked' = asked
  PROVE  /\ CertState' /\ KeptStep
         /\ \A r \in Known' \ Known :
              r.verdict = verdict /\ r.check = check /\ r.key = certificationRecordKey(s)
<1> DEFINE key == certificationRecordKey(s)
<1> HIDE DEF key
<1>1. PICK result \in Results : /\ result = [key |-> key, check |-> check, verdict |-> verdict]
                                /\ result.verdict = verdict /\ result.check = check /\ result.key = key
  <2>1. PICK result : result = [key |-> key, check |-> check, verdict |-> verdict]
    OBVIOUS
  <2>2. result.verdict = verdict /\ result.check = check /\ result.key = key
    BY <2>1
  <2>3. key \in Keys
    BY DEF key
  <2>4. result \in Results
    BY <2>1, <2>3 DEF Results
  <2> QED BY <2>1, <2>2, <2>4
<1>2. CASE LoadFails(fault)
  <2>1. UNCHANGED certified
    BY <1>2 DEF LoadFails, certified
  <2> QED BY <2>1, CertUnchanged
<1>3. CASE \E recs \in loadHardwareCertification :
             saveHardwareCertification({r \in recs : r.key # key \/ r.check # check} \cup {result}, fault)
  <2>1. PICK recs \in loadHardwareCertification :
             saveHardwareCertification({r \in recs : r.key # key \/ r.check # check} \cup {result}, fault)
    BY <1>3
  <2>2. recs \in SUBSET Results /\ recs \subseteq Known
    BY LoadFinds
  <2>3. PICK more \in SUBSET Results : more = {r \in recs : r.key # key \/ r.check # check} \cup {result}
    BY <2>2
  <2>4. saveHardwareCertification(more, fault)
    BY <2>1, <2>3
  <2>5. \A r \in recs : r.key \in asked' \/ \E q \in more : q.key = r.key /\ q.check = r.check
    BY <1>1, <2>3
  <2>6. asked' \subseteq Keys /\ asked \subseteq asked'
    BY DEF CertState, EvidenceOK
  <2>7. CertState' /\ KeptStep /\ Known' \subseteq Known \cup more
    BY <2>4, <2>5, <2>6, SaveKeeps
  <2>8. \A r \in more \ Known : r = result
    BY <2>2, <2>3
  <2> QED BY <1>1, <2>7, <2>8 DEF key
<1> QED BY <1>1, <1>2, <1>3 DEF RecordHardwareCertificationResult, key

LEMMA KeyIs ==
  ASSUME NEW s \in States, HasActionableSelectedWheel(s)
  PROVE  certificationRecordKey(s) \in Keys /\ certificationRecordKey(s)[1] = s.stored /\ s.stored \in Ports
<1>1. s.stored \in Ports /\ ModelOf[SelectedWheel(s).wheel] \in {"G25", "G27", "DFGT"}
  BY SelectedIsPlugged, SelectedWheelAssumption DEF HasActionableSelectedWheel
<1>2. Kind(SelectedWheel(s)) \in {"G25", "G27", "DFGT", "C294"}
  BY <1>1 DEF Kind
<1> QED BY <1>1, <1>2 DEF certificationRecordKey, Keys

\* A step of the certification over what the motor is after it.
LEMMA CertStep ==
  ASSUME PageState, NEW d, Data(d), Driven(d), Becomes(d), Silent, UNCHANGED panel, UNCHANGED <<bus, app, plugs>>,
         tool' = tool \/ tool' = NoTool \/ tool' \in Certifying \cup Ordering,
         acts' = acts \/ Uses("certify")
  PROVE  PageState'
<1>1. Held(Found') /\ native' \in BOOLEAN /\ draft' = draft
  BY PanelFacts, Became DEF panel
<1>2. said' \in Told /\ StatusTrue'
  BY NoClaim DEF Silent, Told
<1>3. acts' = acts \/ \E part \in Parts : Uses(part)
  BY DEF Parts
<1> QED BY <1>1, <1>2, <1>3, PanelFacts, PanelStep

LEMMA CheckKeeps ==
  ASSUME NEW t \in Certifying, NEW check \in {"menu", "range", "effect"}
  PROVE  [t EXCEPT !.check = check] \in Certifying
<1>1. PICK u : u = [t EXCEPT !.check = check]
  OBVIOUS
<1>2. u \in [kind : {"cert"}, s : States, check : {"menu", "range", "effect"}] /\ u.s = t.s
  BY <1>1 DEF Certifying
<1> QED BY <1>1, <1>2 DEF Certifying

LEMMA RecordsKeep ==
  ASSUME PageState, CertState, tool \in Certifying, NEW d, Data(d), Driven(d), NEW check \in Checks,
         NEW verdict \in {"passed", "failed", "judged", "sampled"}, Records(d, tool.s, check, verdict),
         Silent, UNCHANGED panel, acts' = acts \/ Uses("certify")
  PROVE  /\ PageState' /\ CertState' /\ KeptStep
         /\ force' = d.force /\ narrow' = d.narrow /\ lease' = d.lease
         /\ \A r \in Known' \ Known : r.verdict = verdict /\ r.check = check /\ r.key[1] = tool.s.stored
<1>1. PICK fault : /\ Becomes([d EXCEPT !.faults = @ + (IF fault THEN 1 ELSE 0)])
                               /\ RecordHardwareCertificationResult(tool.s, check, verdict, fault)
  BY DEF Records
<1>2. d.faults \in Nat
  BY DataFields
<1>3. PICK k \in Nat : k = d.faults + (IF fault THEN 1 ELSE 0)
  BY <1>2
<1>4. PICK e : e = [d EXCEPT !.faults = k]
  OBVIOUS
<1>5. Follows(d, e) /\ e.force = d.force /\ e.narrow = d.narrow /\ e.lease = d.lease
  BY <1>4, PutFaults
<1>6. Becomes(e) /\ Data(e) /\ Driven(e)
  BY <1>1, <1>3, <1>4, <1>5, FollowsData, DrivenLike
<1>7. Menu /\ UNCHANGED <<bus, app, plugs>> /\ asked' = asked
  BY DEF Records
<1>8. tool' \in Certifying
  <2>1. "menu" \in {"menu", "range", "effect"}
    OBVIOUS
  <2> QED BY <2>1, <1>7, CheckKeeps DEF Menu
<1>9. PageState'
  BY <1>6, <1>7, <1>8, CertStep
<1>10. certificationRecordKey(tool.s) \in Keys /\ certificationRecordKey(tool.s)[1] = tool.s.stored
  <2>1. tool.s \in States /\ HasActionableSelectedWheel(tool.s)
    BY DEF Certifying
  <2> QED BY <2>1, KeyIs
<1>11. /\ CertState' /\ KeptStep
       /\ \A r \in Known' \ Known :
            r.verdict = verdict /\ r.check = check /\ r.key = certificationRecordKey(tool.s)
  BY <1>1, <1>7, <1>10, RecordKeeps
<1>12. force' = d.force /\ narrow' = d.narrow /\ lease' = d.lease
  BY <1>5, <1>6 DEF Becomes
<1> QED BY <1>9, <1>10, <1>11, <1>12

\* A step that asks the user about what he sees.
LEMMA QuestionKeeps ==
  ASSUME PageState, CertState, tool \in Certifying, NEW o, Data(o.d), Driven(o.d), NEW check \in {"range", "effect"},
         Question(o, check), Silent, UNCHANGED panel, Uses("certify")
  PROVE  PageState' /\ CertState' /\ KeptStep /\ PassStep
<1>1. Becomes(o.d) /\ tool' = [tool EXCEPT !.check = check] /\ UNCHANGED <<bus, app, plugs>> /\ UNCHANGED certified
  BY DEF Question
<1>2. tool' \in Certifying
  BY <1>1, CheckKeeps
<1> QED BY <1>1, <1>2, CertStep, CertUnchanged

LEMMA OtherChecksKeep ==
  ASSUME PageState, CertState, Silent, UNCHANGED panel,
         AutoCheck \/ recordCertificationFromUser \/ certifySteering
  PROVE  PageState' /\ CertState' /\ KeptStep /\ PassStep
<1>1. PICK check \in Checks : \E verdict \in {"passed", "failed", "judged", "sampled"} :
        Picks(check) /\ Records(Now, tool.s, check, verdict) /\ check \notin MotorChecks
  <2>1. CASE AutoCheck
    <3>1. PICK passed \in BOOLEAN : Records(Now, tool.s, "native-mode-switch", Verdict(passed))
      <4>1. (SelectedWheel(tool.s).mode = "native") \in BOOLEAN
        OBVIOUS
      <4> QED BY <4>1, <2>1 DEF AutoCheck
    <3>2. Verdict(passed) \in {"passed", "failed", "judged", "sampled"}
      BY DEF Verdict
    <3>3. Picks("native-mode-switch")
      BY <2>1 DEF AutoCheck
    <3>4. "native-mode-switch" \in Checks \ MotorChecks
      BY DEF Checks, MotorChecks
    <3> QED BY <3>1, <3>2, <3>3, <3>4
  <2>2. CASE recordCertificationFromUser
    <3>1. "reconnect" \in Checks \ MotorChecks
      BY DEF Checks, MotorChecks
    <3> QED BY <3>1, <2>2 DEF recordCertificationFromUser
  <2>3. CASE certifySteering
    <3>1. "steering" \in Checks \ MotorChecks
      BY DEF Checks, MotorChecks
    <3> QED BY <3>1, <2>3 DEF certifySteering
  <2> QED BY <2>1, <2>2, <2>3
<1>2. PICK verdict \in {"passed", "failed", "judged", "sampled"} :
        Picks(check) /\ Records(Now, tool.s, check, verdict) /\ check \notin MotorChecks
  BY <1>1
<1>3. tool \in Certifying /\ Uses("certify")
  BY <1>2, ToolState DEF Picks, InMenu, PageState
<1>4. Data(Now) /\ Driven(Now)
  BY PanelFacts, NowIs
<1>5. /\ PageState' /\ CertState' /\ KeptStep
      /\ \A r \in Known' \ Known : r.check = check
  BY <1>2, <1>3, <1>4, RecordsKeep
<1> QED BY <1>2, <1>5 DEF PassStep

LEMMA RangeStartKeeps ==
  ASSUME PageState, CertState, Silent, UNCHANGED panel, RangeStart(native)
  PROVE  PageState' /\ CertState' /\ KeptStep /\ PassStep
<1>1. tool \in Certifying /\ Uses("certify")
  BY ToolState DEF RangeStart, Picks, InMenu, PageState
<1>2. PICK o \in NativeOutputApplyRange(Now, tool.s, TRUE) :
        IF o.ok THEN Question(o, "range") ELSE Records(o.d, tool.s, "range", "failed")
  BY DEF RangeStart
<1>3. Data(o.d) /\ Driven(o.d)
  <2>1. tool.s \in States /\ tool.s.stored \in Ports
    BY <1>1 DEF Certifying, States
  <2> QED BY <2>1, PanelFacts, NowIs, RangeLeaves, FollowsData
<1>4. CASE Question(o, "range")
  <2>1. "range" \in {"range", "effect"}
    OBVIOUS
  <2> QED BY <2>1, <1>1, <1>3, <1>4, QuestionKeeps
<1>5. CASE Records(o.d, tool.s, "range", "failed")
  <2>1. "range" \in Checks /\ "failed" \in {"passed", "failed", "judged", "sampled"}
    BY DEF Checks, MotorChecks
  <2>2. /\ PageState' /\ CertState' /\ KeptStep
        /\ \A r \in Known' \ Known : r.verdict = "failed"
    BY <2>1, <1>1, <1>3, <1>5, RecordsKeep
  <2> QED BY <2>2 DEF PassStep
<1> QED BY <1>2, <1>4, <1>5

LEMMA EffectStartKeeps ==
  ASSUME PageState, CertState, Silent, UNCHANGED panel, NEW use \in {"worker", "timer"}, EffectStart(use, native)
  PROVE  PageState' /\ CertState' /\ KeptStep /\ PassStep
<1>1. tool \in Certifying /\ Uses("certify")
  BY ToolState DEF EffectStart, Picks, InMenu, PageState
<1>2. PICK o \in StartTest(Now, tool.s, use) :
        IF o.ok THEN Question(o, "effect") ELSE Records(o.d, tool.s, "effect", "failed")
  BY DEF EffectStart
<1>3. Data(o.d) /\ Driven(o.d)
  <2>1. tool.s \in States
    BY <1>1 DEF Certifying
  <2> QED BY <2>1, PanelFacts, NowIs, StartTestLeaves, FollowsData
<1>4. CASE Question(o, "effect")
  <2>1. "effect" \in {"range", "effect"}
    OBVIOUS
  <2> QED BY <2>1, <1>1, <1>3, <1>4, QuestionKeeps
<1>5. CASE Records(o.d, tool.s, "effect", "failed")
  <2>1. "effect" \in Checks /\ "failed" \in {"passed", "failed", "judged", "sampled"}
    BY DEF Checks, MotorChecks
  <2>2. /\ PageState' /\ CertState' /\ KeptStep
        /\ \A r \in Known' \ Known : r.verdict = "failed"
    BY <2>1, <1>1, <1>3, <1>5, RecordsKeep
  <2> QED BY <2>2 DEF PassStep
<1> QED BY <1>2, <1>4, <1>5

LEMMA VerdictIs ==
  ASSUME NEW passed
  PROVE  Verdict(passed) \in {"passed", "failed", "judged", "sampled"} /\ (Verdict(passed) = "passed" => passed)
BY DEF Verdict

\* A range passes when it was set back under a free output.
LEMMA RangeAnswerKeeps ==
  ASSUME PageState, CertState, Silent, UNCHANGED panel, NEW seen, RangeAnswer(seen)
  PROVE  PageState' /\ CertState' /\ KeptStep /\ PassStep
<1>1. tool \in Certifying /\ acts' = acts
  BY ToolState DEF RangeAnswer, Asks, PageState
<1>2. PICK o \in NativeOutputApplyRange(Now, tool.s, FALSE) : Records(o.d, tool.s, "range", Verdict(Passes(seen, o.ok)))
  BY DEF RangeAnswer
<1>3. tool.s.stored \in Ports
  BY <1>1 DEF Certifying, States
<1>4. /\ Data(o.d) /\ Driven(o.d)
      /\ o.ok => o.d.lease = Free /\ o.d.narrow[tool.s.stored] = FALSE
  BY <1>3, PanelFacts, NowIs, RangeLeaves, FollowsData
<1>5. PICK verdict \in {"passed", "failed", "judged", "sampled"} :
        Records(o.d, tool.s, "range", verdict) /\ (verdict = "passed" => o.ok)
  <2>1. Verdict(Passes(seen, o.ok)) \in {"passed", "failed", "judged", "sampled"}
    BY VerdictIs
  <2>2. Verdict(Passes(seen, o.ok)) = "passed" => o.ok
    BY VerdictIs DEF Passes
  <2> QED BY <1>2, <2>1, <2>2
<1>6. "range" \in Checks
  BY DEF Checks, MotorChecks
<1>7. /\ PageState' /\ CertState' /\ KeptStep
      /\ force' = o.d.force /\ narrow' = o.d.narrow /\ lease' = o.d.lease
      /\ \A r \in Known' \ Known : r.verdict = verdict /\ r.check = "range" /\ r.key[1] = tool.s.stored
  BY <1>1, <1>4, <1>5, <1>6, RecordsKeep
<1>8. o.ok => \A p \in Ports : o.d.force[p] = "none"
  BY <1>4, AtRest
<1>9. PassStep
  <2> SUFFICES ASSUME NEW r \in Known' \ Known, r.verdict = "passed"
               PROVE  /\ lease' = Free /\ \A p \in Ports : force'[p] = "none"
                      /\ ~narrow'[r.key[1]]
    BY DEF PassStep
  <2>1. o.ok
    BY <1>5, <1>7
  <2>2. narrow'[r.key[1]] = FALSE
    BY <2>1, <1>4, <1>7
  <2> QED BY <2>1, <2>2, <1>4, <1>7, <1>8
<1> QED BY <1>7, <1>9

LEMMA EffectAnswerKeeps ==
  ASSUME PageState, CertState, Silent, UNCHANGED panel, NEW felt, EffectAnswer(felt)
  PROVE  PageState' /\ CertState' /\ KeptStep /\ PassStep
<1>1. tool \in Certifying /\ acts' = acts
  BY ToolState DEF EffectAnswer, Asks, PageState
<1>2. PICK o \in NativeOutputEmergencyStop(Now, tool.s) : Records(o.d, tool.s, "effect", Verdict(Passes(felt, o.ok)))
  BY DEF EffectAnswer
<1>3. tool.s.stored \in Ports
  BY <1>1 DEF Certifying, States
<1>4. Data(o.d) /\ Driven(o.d) /\ (o.ok => o.d.lease = Free)
  BY <1>3, PanelFacts, NowIs, EmergencyLeaves, FollowsData
<1>5. PICK verdict \in {"passed", "failed", "judged", "sampled"} :
        Records(o.d, tool.s, "effect", verdict) /\ (verdict = "passed" => o.ok)
  <2>1. Verdict(Passes(felt, o.ok)) \in {"passed", "failed", "judged", "sampled"}
    BY VerdictIs
  <2>2. Verdict(Passes(felt, o.ok)) = "passed" => o.ok
    BY VerdictIs DEF Passes
  <2> QED BY <1>2, <2>1, <2>2
<1>6. "effect" \in Checks
  BY DEF Checks, MotorChecks
<1>7. /\ PageState' /\ CertState' /\ KeptStep
      /\ force' = o.d.force /\ lease' = o.d.lease
      /\ \A r \in Known' \ Known : r.verdict = verdict /\ r.check = "effect"
  BY <1>1, <1>4, <1>5, <1>6, RecordsKeep
<1>8. o.ok => \A p \in Ports : o.d.force[p] = "none"
  BY <1>4, AtRest
<1>9. PassStep
  BY <1>4, <1>5, <1>7, <1>8 DEF PassStep
<1> QED BY <1>7, <1>9

\* A step that leaves the motor as it is and finds no new result.
\* The motor, the panel and the wheels stay as they are.
LEMMA StillKeeps ==
  ASSUME PageState, Silent, UNCHANGED <<motor, panel>>, UNCHANGED <<bus, app, plugs>>, ToolOK',
         faults' \in Nat, acts' \in [part : Parts, count : Nat]
  PROVE  PageState'
<1>1. WorldOK' /\ said' = "nothing" /\ UNCHANGED <<native, draft, custom, active, shape>>
  BY QuietKeeps DEF PageState, Silent, panel
<1>2. PICK d : d = [Now EXCEPT !.faults = faults']
  OBVIOUS
<1>3. Follows(Now, d) /\ d.force = force /\ d.narrow = narrow /\ d.lease = lease /\ d.game = game /\ d.faults = faults'
  <2>1. Data(Now)
    BY PanelFacts, NowIs
  <2>2. /\ Follows(Now, d) /\ d.force = Now.force /\ d.narrow = Now.narrow /\ d.lease = Now.lease
        /\ d.game = Now.game /\ d.faults = faults'
    BY <1>2, <2>1, PutFaults
  <2> QED BY <2>2 DEF Now
<1>4. Becomes(d)
  BY <1>3 DEF Becomes, motor
<1>5. Driven(d)
  BY <1>3, PanelFacts, NowIs, DrivenLike DEF Now
<1>6. Held(Found')
  BY <1>1, <1>3, <1>4, <1>5, PanelFacts, NowIs, FollowsData, Became
<1> QED BY <1>1, <1>6, SilentStep

LEMMA FileKeeps ==
  ASSUME PageState, CertState', KeptStep, Known' \subseteq Known, Silent, UNCHANGED <<motor, panel>>,
         UNCHANGED <<bus, app, plugs>>, faults' \in Nat, acts' \in [part : Parts, count : Nat],
         tool' = tool \/ tool' = NoTool \/ tool' \in Certifying
  PROVE  PageState' /\ CertState' /\ KeptStep /\ PassStep
<1>1. ToolOK'
  BY ToolKeeps DEF PageState
<1>2. PageState'
  BY <1>1, StillKeeps
<1> QED BY <1>2 DEF PassStep

LEMMA PageCounts ==
  ASSUME PageState
  PROVE  faults \in Nat /\ acts \in [part : Parts, count : Nat]
BY DEF PageState, WorldOK

LEMMA CertMenuKeeps ==
  ASSUME PageState, CertState, Silent, UNCHANGED panel, showHardwareCertificationAssistant \/ CloseAssistant
  PROVE  PageState' /\ CertState' /\ KeptStep /\ PassStep
<1>1. CASE showHardwareCertificationAssistant
  <2>1. /\ tool' = [kind |-> "cert", s |-> app, check |-> "menu"] /\ HasActionableSelectedWheel(app)
        /\ cache' \in Warmed /\ acts' = [acts EXCEPT !.part = "certify"]
        /\ UNCHANGED <<bus, app, plugs, faults, motor, evidence, asked>> /\ UNCHANGED <<filling, missed>>
    BY <1>1 DEF showHardwareCertificationAssistant
  <2>2. tool' \in Certifying
    <3>1. tool' \in [kind : {"cert"}, s : States, check : {"menu", "range", "effect"}] /\ tool'.s = app
      BY <2>1, PanelFacts
    <3> QED BY <2>1, <3>1 DEF Certifying
  <2>3. acts' \in [part : Parts, count : Nat]
    BY <2>1, PageCounts DEF Parts
  <2>4. CertState' /\ KeptStep /\ Known' \subseteq Known
    <3>1. CASE cache' = cache
      BY <3>1, <2>1, CertUnchanged DEF certified
    <3>2. CASE \E recs \in loadHardwareCertification : cache' = Hot(recs)
      <4>1. PICK recs \in loadHardwareCertification : cache' = Hot(recs)
        BY <3>2
      <4>2. recs \in SUBSET Results /\ recs \subseteq Known /\ Holds(recs)
        BY LoadFinds
      <4>3. cache' # Cold /\ cache'.recs = recs /\ cache' \in [cold : {FALSE}, recs : SUBSET Results]
        BY <4>1, <4>2, HotIs
      <4>4. EvidenceOK'
        BY <2>1, <4>3 DEF EvidenceOK, CertState
      <4>5. Remembered'
        BY <2>1, <4>2, <4>3 DEF Remembered, Holds, CertState
      <4>6. Known' \subseteq Known
        <5>1. Cached' = {cache'.recs} /\ Pending' = Pending
          BY <2>1, <4>3 DEF Cached, Pending
        <5> QED BY <5>1, <2>1, <4>2, <4>3 DEF Known
      <4>7. KeptStep
        BY <2>1 DEF KeptStep
      <4> QED BY <4>4, <4>5, <4>6, <4>7 DEF CertState
    <3> QED BY <2>1, <3>1, <3>2 DEF Warmed
  <2> QED BY <2>1, <2>2, <2>3, <2>4, PageCounts, FileKeeps
<1>2. CASE CloseAssistant
  <2>1. tool' = NoTool /\ UNCHANGED <<bus, app, plugs, faults, acts>> /\ UNCHANGED motor /\ UNCHANGED certified
    BY <1>2 DEF CloseAssistant
  <2>2. CertState' /\ KeptStep /\ Known' = Known
    BY <2>1, CertUnchanged
  <2> QED BY <2>1, <2>2, PageCounts, FileKeeps
<1> QED BY <1>1, <1>2

LEMMA FileStepsKeep ==
  ASSUME PageState, CertState, Silent, UNCHANGED panel, DamageEvidence \/ Newer
  PROVE  PageState' /\ CertState' /\ KeptStep /\ PassStep
<1>1. UNCHANGED <<bus, app, tool, plugs, acts, asked>> /\ UNCHANGED motor /\ faults' = faults + 1
  BY DEF DamageEvidence, Newer, Fault
<1>2. /\ evidence \in [kind : {"good", "damaged", "newer"}, recs : SUBSET Results]
      /\ cache \in {Cold} \cup [cold : {FALSE}, recs : SUBSET Results] /\ asked \subseteq Keys
      /\ filling \in {Cold} \cup [cold : {FALSE}, recs : SUBSET Results] /\ missed \in SUBSET Results
  BY DEF CertState, EvidenceOK
<1>3. CASE DamageEvidence
  <2>1. evidence' = [kind |-> "damaged", recs |-> {}] /\ UNCHANGED <<cache, filling, missed>>
    BY <1>3 DEF DamageEvidence
  <2>2. evidence'.kind = "damaged" /\ evidence'.recs = {}
    BY <2>1
  <2>3. EvidenceOK'
    BY <1>1, <1>2, <2>1 DEF EvidenceOK
  <2>4. Remembered'
    BY <2>2 DEF Remembered, Holds
  <2>5. KeptStep
    BY <2>2 DEF KeptStep
  <2>6. Known' \subseteq Known
    BY <2>1, <2>2 DEF Known, Cached, Pending
  <2> QED BY <1>1, <2>3, <2>4, <2>5, <2>6, PageCounts, FileKeeps DEF CertState
<1>4. CASE Newer
  <2>1. evidence' = [evidence EXCEPT !.kind = "newer"] /\ cache' = Cold /\ filling' = Cold /\ missed' = {}
    BY <1>4 DEF Newer
  <2>2. evidence'.recs = evidence.recs /\ evidence' \in [kind : {"good", "damaged", "newer"}, recs : SUBSET Results]
    BY <1>2, <2>1
  <2>3. EvidenceOK'
    BY <1>1, <1>2, <2>1, <2>2 DEF EvidenceOK
  <2>4. Remembered'
    BY <2>1 DEF Remembered
  <2>5. KeptStep
    BY <2>2 DEF KeptStep
  <2>6. Known' \subseteq Known
    <3>1. Cached' = {} /\ Pending' = {}
      BY <2>1 DEF Cached, Pending
    <3> QED BY <3>1, <2>2 DEF Known
  <2> QED BY <1>1, <2>3, <2>4, <2>5, <2>6, PageCounts, FileKeeps DEF CertState
<1> QED BY <1>3, <1>4

\* The refresh reads the file, or puts what it read in the cache.
LEMMA RefreshKeeps ==
  ASSUME PageState, CertState, Silent, UNCHANGED panel, RefreshReads \/ RefreshFills
  PROVE  PageState' /\ CertState' /\ KeptStep /\ PassStep
<1>1. UNCHANGED <<bus, app, tool, plugs, faults, acts>> /\ UNCHANGED motor /\ UNCHANGED <<evidence, asked>>
  BY DEF RefreshReads, RefreshFills, world
<1>2. /\ evidence \in [kind : {"good", "damaged", "newer"}, recs : SUBSET Results]
      /\ cache \in {Cold} \cup [cold : {FALSE}, recs : SUBSET Results] /\ asked \subseteq Keys
      /\ filling \in {Cold} \cup [cold : {FALSE}, recs : SUBSET Results] /\ missed \in SUBSET Results
  BY DEF CertState, EvidenceOK
<1>3. KeptStep
  BY <1>1 DEF KeptStep
<1>4. CASE RefreshReads
  <2>1. filling' = Hot(evidence.recs) /\ cache' = Cold /\ missed' = {}
    BY <1>4 DEF RefreshReads
  <2>2. filling' # Cold /\ filling'.recs = evidence.recs /\ filling' \in [cold : {FALSE}, recs : SUBSET Results]
    BY <1>2, <2>1, HotIs
  <2>3. EvidenceOK'
    BY <1>1, <1>2, <2>1, <2>2 DEF EvidenceOK
  <2>4. Remembered'
    BY <1>1, <2>1, <2>2 DEF Remembered, Holds
  <2>5. Known' \subseteq Known
    <3>1. Cached' = {} /\ Pending' = {evidence.recs}
      BY <2>1, <2>2 DEF Cached, Pending
    <3> QED BY <1>1, <3>1 DEF Known
  <2> QED BY <1>1, <1>3, <2>3, <2>4, <2>5, PageCounts, FileKeeps DEF CertState
<1>5. CASE RefreshFills
  <2>1. filling # Cold /\ cache' = filling /\ filling' = Cold /\ missed' = missed
    BY <1>5 DEF RefreshFills
  <2>2. EvidenceOK'
    BY <1>1, <1>2, <2>1 DEF EvidenceOK
  <2>3. Remembered'
    BY <1>1, <2>1 DEF Remembered, Holds, CertState
  <2>4. Known' \subseteq Known
    <3>1. Cached' = Pending /\ Pending' = {}
      BY <2>1 DEF Cached, Pending
    <3> QED BY <1>1, <3>1 DEF Known
  <2> QED BY <1>1, <1>3, <2>2, <2>3, <2>4, PageCounts, FileKeeps DEF CertState
<1> QED BY <1>4, <1>5

LEMMA ResetKeeps ==
  ASSUME PageState, CertState, Silent, UNCHANGED panel, ResetHardwareCertification
  PROVE  PageState' /\ CertState' /\ KeptStep /\ PassStep
<1> DEFINE key == certificationRecordKey(tool.s)
<1>1. tool \in Certifying
  BY ToolState DEF ResetHardwareCertification, InMenu, PageState
<1>2. key \in Keys
  <2>1. tool.s \in States /\ HasActionableSelectedWheel(tool.s)
    BY <1>1 DEF Certifying
  <2> QED BY <2>1, KeyIs
<1>3. Uses("certify") /\ UNCHANGED <<bus, app, tool, plugs>> /\ UNCHANGED motor /\ asked' = asked \cup {key}
  BY DEF ResetHardwareCertification
<1>4. PICK fault : /\ faults' = faults + (IF fault THEN 1 ELSE 0)
                   /\ \/ LoadFails(fault)
                      \/ \E recs \in loadHardwareCertification :
                           saveHardwareCertification({r \in recs : r.key # key}, fault)
  BY DEF ResetHardwareCertification
<1> HIDE DEF key
<1>5. faults' \in Nat /\ acts' \in [part : Parts, count : Nat]
  <2>1. "certify" \in Parts
    BY DEF Parts
  <2> QED BY <2>1, <1>3, <1>4, PageCounts, UsesKeeps
<1>6. asked' \subseteq Keys /\ asked \subseteq asked'
  BY <1>2, <1>3 DEF CertState, EvidenceOK
<1>7. CASE LoadFails(fault)
  <2>1. UNCHANGED <<evidence, cache, filling, missed>>
    BY <1>7 DEF LoadFails
  <2>2. EvidenceOK'
    BY <2>1, <1>6 DEF CertState, EvidenceOK
  <2>3. Remembered'
    BY <2>1, <1>6 DEF CertState, Remembered, Holds
  <2>4. KeptStep
    BY <2>1 DEF KeptStep
  <2>5. Known' = Known
    BY <2>1 DEF Known, Cached, Pending
  <2> QED BY <1>3, <1>5, <2>2, <2>3, <2>4, <2>5, FileKeeps DEF CertState
<1>8. CASE \E recs \in loadHardwareCertification : saveHardwareCertification({r \in recs : r.key # key}, fault)
  <2>1. PICK recs \in loadHardwareCertification : saveHardwareCertification({r \in recs : r.key # key}, fault)
    BY <1>8
  <2>2. recs \in SUBSET Results /\ recs \subseteq Known
    BY LoadFinds
  <2>3. PICK more \in SUBSET Results : more = {r \in recs : r.key # key}
    BY <2>2
  <2>4. \A r \in recs : r.key \in asked' \/ \E q \in more : q.key = r.key /\ q.check = r.check
    BY <1>3, <2>3
  <2>5. saveHardwareCertification(more, fault)
    BY <2>1, <2>3
  <2>6. CertState' /\ KeptStep /\ Known' \subseteq Known \cup more
    BY <2>4, <2>5, <1>6, SaveKeeps
  <2>7. Known' \subseteq Known
    BY <2>2, <2>3, <2>6
  <2> QED BY <1>3, <1>5, <2>6, <2>7, FileKeeps
<1> QED BY <1>4, <1>7, <1>8

LEMMA CertificationKeeps ==
  ASSUME PageState, CertState, Silent, UNCHANGED panel, CertificationNext(native)
  PROVE  PageState' /\ CertState' /\ KeptStep /\ PassStep
<1>1. CASE showHardwareCertificationAssistant \/ CloseAssistant
  BY <1>1, CertMenuKeeps
<1>2. CASE DamageEvidence \/ Newer
  BY <1>2, FileStepsKeep
<1>9. CASE RefreshReads \/ RefreshFills
  BY <1>9, RefreshKeeps
<1>3. CASE AutoCheck \/ recordCertificationFromUser \/ certifySteering
  BY <1>3, OtherChecksKeep
<1>4. CASE RangeStart(native)
  BY <1>4, RangeStartKeeps
<1>5. CASE ResetHardwareCertification
  BY <1>5, ResetKeeps
<1>6. CASE \E use \in {"worker", "timer"} : EffectStart(use, native)
  BY <1>6, EffectStartKeeps
<1>7. CASE \E yes \in BOOLEAN : RangeAnswer(yes)
  BY <1>7, RangeAnswerKeeps
<1>8. CASE \E yes \in BOOLEAN : EffectAnswer(yes)
  BY <1>8, EffectAnswerKeeps
<1> QED BY <1>1, <1>2, <1>3, <1>4, <1>5, <1>6, <1>7, <1>8, <1>9 DEF CertificationNext

-----------------------------------------------------------------------------
(* Learning. *)

LEMMA PutGot ==
  ASSUME NEW w, Work(w), NEW g, g = [i \in Pedals |-> g[i]], NEW v, v = [w EXCEPT !.got = g]
  PROVE  /\ Work(v) /\ v.got = g /\ v.kind = w.kind /\ v.step = w.step /\ v.base = w.base /\ v.taken = w.taken
<1>1. v = [kind |-> w.kind, step |-> w.step, base |-> w.base, got |-> g, taken |-> w.taken]
  BY DEF Work
<1>2. v.got = g /\ v.kind = w.kind /\ v.step = w.step /\ v.base = w.base /\ v.taken = w.taken
  BY <1>1
<1> QED BY <1>1, <1>2 DEF Work

LEMMA PutStep ==
  ASSUME NEW w, Work(w), NEW k \in Nat, NEW v, v = [w EXCEPT !.step = k]
  PROVE  /\ Work(v) /\ v.got = w.got /\ v.kind = w.kind /\ v.step = k /\ v.base = w.base /\ v.taken = w.taken
<1>1. v = [kind |-> w.kind, step |-> k, base |-> w.base, got |-> [i \in Pedals |-> w.got[i]], taken |-> w.taken]
  BY DEF Work
<1>2. v.got = [i \in Pedals |-> w.got[i]] /\ v.kind = w.kind /\ v.step = k /\ v.base = w.base /\ v.taken = w.taken
  BY <1>1
<1>3. w.got = [i \in Pedals |-> w.got[i]]
  BY DEF Work
<1> QED BY <1>1, <1>2, <1>3 DEF Work

LEMMA PutTaken ==
  ASSUME NEW w, Work(w), NEW t, NEW v, v = [w EXCEPT !.taken = t]
  PROVE  /\ Work(v) /\ v.got = w.got /\ v.kind = w.kind /\ v.step = w.step /\ v.base = w.base /\ v.taken = t
<1>1. v = [kind |-> w.kind, step |-> w.step, base |-> w.base, got |-> [i \in Pedals |-> w.got[i]], taken |-> t]
  BY DEF Work
<1>2. /\ v.got = [i \in Pedals |-> w.got[i]] /\ v.kind = w.kind /\ v.step = w.step /\ v.base = w.base
      /\ v.taken = t
  BY <1>1
<1>3. w.got = [i \in Pedals |-> w.got[i]]
  BY DEF Work
<1> QED BY <1>1, <1>2, <1>3 DEF Work

LEMMA PutBase ==
  ASSUME NEW w, Work(w), NEW b \in Stamps, NEW v, v = [w EXCEPT !.base = b]
  PROVE  /\ Work(v) /\ v.got = w.got /\ v.kind = w.kind /\ v.step = w.step /\ v.base = b /\ v.taken = w.taken
<1>1. v = [kind |-> w.kind, step |-> w.step, base |-> b, got |-> [i \in Pedals |-> w.got[i]], taken |-> w.taken]
  BY DEF Work
<1>2. /\ v.got = [i \in Pedals |-> w.got[i]] /\ v.kind = w.kind /\ v.step = w.step /\ v.base = b
      /\ v.taken = w.taken
  BY <1>1
<1>3. w.got = [i \in Pedals |-> w.got[i]]
  BY DEF Work
<1> QED BY <1>1, <1>2, <1>3 DEF Work

\* A press is a press, and all that it was captured with.
LEMMA PressIs ==
  ASSUME NEW x \in Presses
  PROVE  x # Missing
<1>1. DOMAIN x = {"axis", "at"} /\ DOMAIN Missing = {"axis"}
  BY DEF Presses, Missing
<1>2. {"axis", "at"} # {"axis"}
  OBVIOUS
<1> QED BY <1>1, <1>2

\* A sample that carries an identity is of the wheel that is selected.
LEMMA SampleIs ==
  ASSUME NEW s \in States, NEW sample \in ReadPreferredWheelInput(s)
  PROVE  sample \in Stamps /\ sample.id \in {s.stored, NoPort} /\ HasReadableSelectedWheel(s) /\ s.stored \in Ports
<1> DEFINE winmm == ReadJoystickForModel(WheelModel(s)) # {}
           stamp(source) == [id |-> s.stored, session |-> SelectedWheel(s).session, source |-> source]
<1>1. HasReadableSelectedWheel(s)
  BY DEF ReadPreferredWheelInput
<1>2. s.stored \in Ports /\ SelectedWheel(s) \in Plugged
  BY <1>1, SelectedIsPlugged, SelectedWheelAssumption
<1>3. SelectedWheel(s).session \in 0..MaxPlugs /\ 0 \in 0..MaxPlugs
  BY <1>2, SelectedWheelAssumption DEF Plugged, SelectedWheelAssumption
<1>4. \/ sample = [NoStamp EXCEPT !.source = "winmm"]
      \/ sample = stamp("direct-hid") \/ sample = stamp("winmm")
  BY <1>1 DEF ReadPreferredWheelInput
<1>5. CASE sample = [NoStamp EXCEPT !.source = "winmm"]
  <2>1. sample = [id |-> NoPort, session |-> 0, source |-> "winmm"]
    BY <1>5 DEF NoStamp
  <2> QED BY <2>1, <1>1, <1>2, <1>3 DEF Stamps
<1>6. CASE sample = stamp("direct-hid") \/ sample = stamp("winmm")
  BY <1>6, <1>1, <1>2, <1>3 DEF Stamps
<1> QED BY <1>4, <1>5, <1>6

(* What may be stored for the wheel at p.                                      *)
Storable(v, p) ==
  /\ v.kind \in Kinds
  /\ v.kind = "steering" => v.got \in [1..3 -> Positions]
  /\ v.kind = "pedals" =>
       /\ v.got \in [1..3 -> Presses \cup {Missing}]
       /\ v.got[1] # Missing /\ v.got[2] # Missing /\ v.base.id \in {p, NoPort}
       /\ \A i \in 1..3 : v.got[i] # Missing => v.got[i].at = v.base
       /\ \A i, j \in 1..3 :
            v.got[i] # Missing /\ v.got[j] # Missing /\ v.got[i].axis = v.got[j].axis => i = j
  /\ v.kind = "shifter" =>
       /\ v.taken \subseteq Gears /\ {t[2] : t \in v.taken} = 1..GearCount
       /\ \A t, u \in v.taken : t[1] = u[1] => t = u

LEMMA SteeringCaptured ==
  ASSUME NEW w, Whole(w), w.kind = "steering", NEW v \in SteeringPoint(w), NEW s
  PROVE  /\ v.kind = w.kind /\ Whole(v) /\ Whole([v EXCEPT !.step = @ + 1])
         /\ Last(v, s) => (\A p : Storable(v, p)) /\ Whole(Finished(v, s))
<1>1. PICK x \in Positions : w.step < 3 /\ v = [w EXCEPT !.got[w.step + 1] = x]
  BY DEF SteeringPoint
<1>2. PICK g : g = [w.got EXCEPT ![w.step + 1] = x]
  OBVIOUS
<1>3. Work(w) /\ w.step \in Nat /\ w.got = [i \in Pedals |-> w.got[i]]
  BY DEF Whole, Work
<1>4. g = [i \in Pedals |-> g[i]] /\ \A i \in Pedals : g[i] = IF i = w.step + 1 THEN x ELSE w.got[i]
  BY <1>2, <1>3
<1>5. v = [w EXCEPT !.got = g]
  BY <1>1, <1>2
<1>6. Work(v) /\ v.got = g /\ v.kind = "steering" /\ v.step = w.step
  BY <1>3, <1>4, <1>5, PutGot
<1>7. \A i \in 1..3 : i <= w.step + 1 => v.got[i] \in Positions
  BY <1>3, <1>4, <1>6 DEF Whole, Pedals
<1>8. Whole(v)
  BY <1>3, <1>6, <1>7 DEF Whole
<1>9. PICK u : u = [v EXCEPT !.step = v.step + 1]
  OBVIOUS
<1>10. Work(u) /\ u.got = g /\ u.kind = "steering" /\ u.step = w.step + 1
  <2>1. v.step + 1 \in Nat
    BY <1>3, <1>6
  <2> QED BY <2>1, <1>6, <1>9, PutStep
<1>11. Whole(u)
  BY <1>6, <1>7, <1>10 DEF Whole
<1>12. ASSUME Last(v, s)
       PROVE  (\A p : Storable(v, p)) /\ Whole(Finished(v, s))
  <2>1. v.step = 2
    BY <1>12, <1>6 DEF Last
  <2>2. v.got \in [1..3 -> Positions]
    BY <2>1, <1>4, <1>6, <1>7 DEF Pedals
  <2>3. \A p : Storable(v, p)
    BY <2>2, <1>6 DEF Storable, Kinds
  <2>4. Finished(v, s) = [v EXCEPT !.step = 3]
    BY <1>6 DEF Finished
  <2>5. PICK f : f = [v EXCEPT !.step = 3]
    OBVIOUS
  <2>6. Work(f) /\ f.got = v.got /\ f.kind = "steering" /\ f.step = 3
    BY <2>5, <1>6, PutStep
  <2>7. Whole(f)
    BY <2>2, <2>6 DEF Whole
  <2> QED BY <2>3, <2>4, <2>5, <2>7
<1> QED BY <1>6, <1>8, <1>9, <1>11, <1>12

LEMMA NoWorkWhole ==
  ASSUME SelectedWheelAssumption, CalibrationAssumption
  PROVE  Whole(NoWork) /\ \A kind \in Kinds : Whole(Start(kind))
<1>1. NoStamp \in Stamps
  BY DEF NoStamp, Stamps, SelectedWheelAssumption
<1>2. ASSUME NEW kind \in Kinds \cup {"none"}, NEW w, w = [NoWork EXCEPT !.kind = kind]
      PROVE  Whole(w)
  <2>1. w = [kind |-> kind, step |-> 0, base |-> NoStamp, got |-> [i \in Pedals |-> Missing], taken |-> {}]
    BY <1>2 DEF NoWork
  <2>2. /\ w.kind = kind /\ w.step = 0 /\ w.base = NoStamp /\ w.got = [i \in Pedals |-> Missing]
        /\ w.taken = {}
    BY <2>1
  <2>3. Work(w)
    BY <1>1, <2>1, <2>2 DEF Work
  <2>4. \A i \in Pedals : w.got[i] = Missing
    BY <2>2
  <2>5. 1..0 = {} /\ 0 < GearCount
    BY DEF CalibrationAssumption
  <2> QED BY <2>2, <2>3, <2>4, <2>5 DEF Whole, Pedals
<1>3. NoWork = [NoWork EXCEPT !.kind = "none"]
  BY DEF NoWork
<1> QED BY <1>2, <1>3 DEF Start

LEMMA StartIs == ASSUME NEW kind PROVE Start(kind).kind = kind
<1>1. Start(kind) = [kind |-> kind, step |-> 0, base |-> NoStamp, got |-> [i \in Pedals |-> Missing], taken |-> {}]
  BY DEF Start, NoWork
<1> QED BY <1>1

LEMMA ButtonCaptured ==
  ASSUME NEW w, Whole(w), w.kind = "button", NEW v \in ButtonPressed(w), NEW s
  PROVE  /\ v.kind = w.kind /\ Whole(v) /\ Whole([v EXCEPT !.step = @ + 1])
         /\ Last(v, s) => (\A p : Storable(v, p)) /\ Whole(Finished(v, s))
<1>1. v = w
  BY DEF ButtonPressed
<1>2. PICK u : u = [w EXCEPT !.step = w.step + 1]
  OBVIOUS
<1>3. Work(u) /\ u.kind = "button"
  <2>1. Work(w) /\ w.step + 1 \in Nat
    BY DEF Whole, Work
  <2> QED BY <2>1, <1>2, PutStep
<1>4. Whole(u)
  BY <1>3 DEF Whole
<1>5. \A p : Storable(v, p)
  BY <1>1 DEF Storable, Kinds
<1>6. Finished(v, s) = NoWork
  BY <1>1 DEF Finished
<1> QED BY <1>1, <1>2, <1>4, <1>5, <1>6, NoWorkWhole, SelectedWheelAssumption, CalibrationAssumption

(* The captures of pedals: each axis once, all with the same sample.            *)
Pressed(v) ==
  /\ v.taken \subseteq Axes
  /\ \A i \in Pedals :
       /\ v.got[i] \in Presses \cup {Missing}
       /\ v.got[i] # Missing => v.got[i].axis \in v.taken /\ v.got[i].at = v.base
       /\ \A j \in Pedals : v.got[i] # Missing /\ v.got[j] # Missing /\ v.got[i].axis = v.got[j].axis => i = j

LEMMA PressedWhole ==
  ASSUME NEW v, Work(v), v.kind = "pedals", Pressed(v), v.step # 0, \A i \in Pedals : i < v.step => v.got[i] # Missing
  PROVE  Whole(v)
BY DEF Pressed, Whole

LEMMA RestCaptured ==
  ASSUME NEW w, Whole(w), w.kind = "pedals", NEW sample \in Stamps, NEW v \in PedalRest(w, sample), NEW s
  PROVE  v.kind = w.kind /\ Whole(v) /\ Whole([v EXCEPT !.step = @ + 1]) /\ ~Last(v, s)
<1>1. w.step = 0 /\ v = [w EXCEPT !.base = sample, !.taken = {}]
  BY DEF PedalRest
<1>2. PICK b : b = [w EXCEPT !.base = sample]
  OBVIOUS
<1>3. Work(b) /\ b.got = w.got /\ b.kind = "pedals" /\ b.step = 0 /\ b.base = sample
  BY <1>1, <1>2, PutBase DEF Whole
<1>4. v = [b EXCEPT !.taken = {}]
  BY <1>1, <1>2
<1>5. Work(v) /\ v.got = w.got /\ v.kind = "pedals" /\ v.step = 0 /\ v.base = sample /\ v.taken = {}
  BY <1>3, <1>4, PutTaken
<1>6. \A i \in Pedals : w.got[i] = Missing
  BY <1>1 DEF Whole
<1>7. Whole(v)
  BY <1>5, <1>6 DEF Whole, Pedals
<1>8. PICK u : u = [v EXCEPT !.step = v.step + 1]
  OBVIOUS
<1>9. Work(u) /\ u.got = w.got /\ u.kind = "pedals" /\ u.step = 1 /\ u.base = sample /\ u.taken = {}
  <2>1. v.step + 1 = 1 /\ 1 \in Nat
    BY <1>5
  <2> QED BY <2>1, <1>5, <1>8, PutStep
<1>10. Whole(u)
  BY <1>6, <1>9, PressedWhole DEF Pressed, Pedals
<1>11. ~Last(v, s)
  BY <1>5 DEF Last
<1> QED BY <1>5, <1>7, <1>8, <1>10, <1>11

\* A press on an axis of its own, from the input that was at rest.
LEMMA PressCaptured ==
  ASSUME NEW w, Whole(w), w.kind = "pedals", NEW sample \in Stamps, NEW v \in PedalPressed(w, sample),
         NEW s, NEW p, sample.id \in {p, NoPort}
  PROVE  /\ v.kind = w.kind /\ Whole(v) /\ Whole([v EXCEPT !.step = @ + 1])
         /\ Last(v, s) => Storable(v, p) /\ Whole(Finished(v, s))
<1>1. PICK a \in Axes \ w.taken : /\ w.step \in Pedals /\ w.base = sample
                                  /\ v = [w EXCEPT !.got[w.step] = [axis |-> a, at |-> sample], !.taken = @ \cup {a}]
  BY DEF PedalPressed, SameInput
<1>2. PICK x \in Presses : x = [axis |-> a, at |-> sample] /\ x.axis = a /\ x.at = sample /\ x # Missing
  <2>1. PICK x : x = [axis |-> a, at |-> sample]
    OBVIOUS
  <2>2. x \in Presses /\ x.axis = a /\ x.at = sample
    BY <2>1 DEF Presses
  <2> QED BY <2>1, <2>2, PressIs
<1>3. PICK g : g = [w.got EXCEPT ![w.step] = x]
  OBVIOUS
<1>4. Work(w) /\ w.got = [i \in Pedals |-> w.got[i]]
  BY DEF Whole, Work
<1>5. g = [i \in Pedals |-> g[i]] /\ \A i \in Pedals : g[i] = IF i = w.step THEN x ELSE w.got[i]
  BY <1>1, <1>3, <1>4
<1>6. PICK b : b = [w EXCEPT !.got = g]
  OBVIOUS
<1>7. Work(b) /\ b.got = g /\ b.kind = "pedals" /\ b.step = w.step /\ b.base = sample /\ b.taken = w.taken
  BY <1>1, <1>4, <1>5, <1>6, PutGot
<1>8. v = [b EXCEPT !.taken = w.taken \cup {a}]
  BY <1>1, <1>2, <1>3, <1>6, <1>7
<1>9. Work(v) /\ v.got = g /\ v.kind = "pedals" /\ v.step = w.step /\ v.base = sample /\ v.taken = w.taken \cup {a}
  BY <1>7, <1>8, PutTaken
<1>10. Pressed(w)
  BY DEF Whole, Pressed
<1>11. Pressed(v)
  <2>1. v.taken \subseteq Axes
    BY <1>9, <1>10 DEF Pressed
  <2>2. ASSUME NEW i \in Pedals
        PROVE  /\ v.got[i] \in Presses \cup {Missing}
               /\ v.got[i] # Missing => v.got[i].axis \in v.taken /\ v.got[i].at = v.base
    BY <1>1, <1>2, <1>5, <1>9, <1>10 DEF Pressed
  <2>3. ASSUME NEW i \in Pedals, NEW j \in Pedals, v.got[i] # Missing, v.got[j] # Missing,
               v.got[i].axis = v.got[j].axis
        PROVE  i = j
    <3>1. CASE i = w.step /\ j # w.step
      <4>1. v.got[i].axis = a /\ v.got[j].axis \in w.taken
        BY <3>1, <2>3, <1>2, <1>5, <1>9, <1>10 DEF Pressed
      <4> QED BY <4>1, <2>3
    <3>2. CASE i # w.step /\ j = w.step
      <4>1. v.got[j].axis = a /\ v.got[i].axis \in w.taken
        BY <3>2, <2>3, <1>2, <1>5, <1>9, <1>10 DEF Pressed
      <4> QED BY <4>1, <2>3
    <3>3. CASE i # w.step /\ j # w.step
      BY <3>3, <2>3, <1>5, <1>9, <1>10 DEF Pressed
    <3> QED BY <3>1, <3>2, <3>3
  <2> QED BY <2>1, <2>2, <2>3 DEF Pressed
<1>12. \A i \in Pedals : i <= w.step => v.got[i] # Missing
  <2>1. \A i \in Pedals : i < w.step => w.got[i] # Missing
    BY DEF Whole
  <2> QED BY <2>1, <1>1, <1>2, <1>5, <1>9 DEF Pedals
<1>13. w.step \in {1, 2, 3}
  BY <1>1 DEF Pedals
<1>14. Whole(v)
  BY <1>9, <1>11, <1>12, <1>13, PressedWhole DEF Pedals
<1>15. ASSUME NEW k \in 1..4, NEW u, u = [v EXCEPT !.step = k], \A i \in Pedals : i < k => v.got[i] # Missing
       PROVE  Whole(u)
  <2>1. Work(u) /\ u.got = v.got /\ u.kind = "pedals" /\ u.step = k /\ u.base = v.base /\ u.taken = v.taken
    BY <1>9, <1>15, PutStep
  <2>2. Pressed(u)
    BY <2>1, <1>11 DEF Pressed
  <2>3. Work(u) /\ u.kind = "pedals" /\ u.step # 0
    BY <2>1
  <2>4. \A i \in Pedals : i < u.step => u.got[i] # Missing
    BY <2>1, <1>15
  <2> QED BY <2>2, <2>3, <2>4, PressedWhole
<1>16. Whole([v EXCEPT !.step = @ + 1])
  <2>1. PICK k \in 1..4 : k = v.step + 1
    BY <1>9, <1>13
  <2>2. PICK u : u = [v EXCEPT !.step = k]
    OBVIOUS
  <2>3. \A i \in Pedals : i < k => v.got[i] # Missing
    BY <2>1, <1>9, <1>12, <1>13 DEF Pedals
  <2> QED BY <2>1, <2>2, <2>3, <1>15
<1>17. ASSUME Last(v, s)
       PROVE  Storable(v, p) /\ Whole(Finished(v, s))
  <2>1. v.step = 3 \/ (v.step = 2 /\ IsDFGTModel(s))
    BY <1>9, <1>17 DEF Last
  <2>2. v.got[1] # Missing /\ v.got[2] # Missing
    BY <2>1, <1>9, <1>12 DEF Pedals
  <2>3. v.got \in [1..3 -> Presses \cup {Missing}]
    BY <1>5, <1>9, <1>11 DEF Pressed, Pedals
  <2>4. Storable(v, p)
    BY <2>2, <2>3, <1>9, <1>11 DEF Storable, Pressed, Pedals, Kinds
  <2>5. PICK k \in 1..4 : /\ k = IF IsDFGTModel(s) THEN 3 ELSE 4
                          /\ Finished(v, s) = [v EXCEPT !.step = k]
    BY <1>9 DEF Finished
  <2>6. \A i \in Pedals : i < k => v.got[i] # Missing
    BY <2>1, <2>5, <1>9, <1>12 DEF Pedals
  <2> QED BY <2>4, <2>5, <2>6, <1>15
<1> QED BY <1>9, <1>14, <1>16, <1>17

LEMMA LeastOfTwo ==
  ASSUME NEW a \in Nat, NEW b \in Nat
  PROVE  Min({a, b}) = IF a <= b THEN a ELSE b
BY DEF Min

LEMMA GreatestOfTwo ==
  ASSUME NEW a \in Nat, NEW b \in Nat
  PROVE  Max({a, b}) = IF a <= b THEN b ELSE a
BY DEF Max

\* A signature of its own for the next gear.
LEMMA ShifterCaptured ==
  ASSUME NEW w, Whole(w), w.kind = "shifter", NEW v \in GearEngaged(w), NEW s
  PROVE  /\ v.kind = w.kind /\ Whole(v) /\ (~Last(v, s) => Whole([v EXCEPT !.step = @ + 1]))
         /\ Last(v, s) => (\A p : Storable(v, p)) /\ Whole(Finished(v, s))
<1>1. PICK x \in FreshSignature(w) : v = [w EXCEPT !.taken = {t \in @ : t[1] # x} \cup {<<x, Gear(w)>>}]
  BY DEF GearEngaged
<1>2. PICK k \in Nat : k = w.step /\ k < GearCount /\ GearCount \in Nat
  BY CalibrationAssumption DEF Whole, Work, CalibrationAssumption
<1>3. Gear(w) = k + 1 /\ k + 1 \in 1..GearCount
  <2>1. k + 1 \in Nat /\ k + 1 <= GearCount
    BY <1>2
  <2>2. Gear(w) = k + 1
    BY <1>2, <2>1, LeastOfTwo DEF Gear
  <2> QED BY <2>1, <2>2
<1>4. /\ w.taken \subseteq Gears /\ 1..k \subseteq {t[2] : t \in w.taken}
      /\ \A t, u \in w.taken : t[1] = u[1] => t = u
  BY <1>2 DEF Whole
<1>5. x \in Signatures /\ \A t \in w.taken : t[1] # x
  BY DEF FreshSignature
<1>6. PICK y \in Gears : y = <<x, k + 1>> /\ y[1] = x /\ y[2] = k + 1
  <2>1. PICK g \in 1..GearCount : g = k + 1
    BY <1>3
  <2>2. PICK y : y = <<x, g>>
    OBVIOUS
  <2>3. y \in Gears
    BY <2>2, <1>5 DEF Gears
  <2>4. y[1] = x /\ y[2] = g
    BY <2>2
  <2> QED BY <2>1, <2>2, <2>3, <2>4
<1>7. PICK more : more = w.taken \cup {y}
  OBVIOUS
<1>8. {t \in w.taken : t[1] # x} = w.taken
  BY <1>5
<1>9. v = [w EXCEPT !.taken = more]
  BY <1>1, <1>3, <1>6, <1>7, <1>8
<1>10. Work(w) /\ Work(v) /\ v.kind = "shifter" /\ v.step = k /\ v.taken = more
  <2>1. Work(w)
    BY DEF Whole
  <2> QED BY <2>1, <1>2, <1>9, PutTaken
<1>11. more \subseteq Gears /\ \A t, u \in more : t[1] = u[1] => t = u
  BY <1>4, <1>5, <1>6, <1>7
<1>12. 1..(k + 1) \subseteq {t[2] : t \in more}
  <2>1. 1..(k + 1) = 1..k \cup {k + 1}
    BY <1>2
  <2>2. {t[2] : t \in w.taken} \subseteq {t[2] : t \in more} /\ k + 1 \in {t[2] : t \in more}
    BY <1>6, <1>7
  <2> QED BY <2>1, <2>2, <1>4
<1>13. 1..k \subseteq {t[2] : t \in more}
  BY <1>4, <1>7
<1>14. Whole(v)
  BY <1>2, <1>10, <1>11, <1>13 DEF Whole
<1>15. ASSUME ~Last(v, s)
       PROVE  Whole([v EXCEPT !.step = @ + 1])
  <2>1. k + 1 \in Nat /\ k + 1 < GearCount
    BY <1>2, <1>10, <1>15 DEF Last
  <2>2. PICK u : u = [v EXCEPT !.step = k + 1]
    OBVIOUS
  <2>3. Work(u) /\ u.kind = "shifter" /\ u.step = k + 1 /\ u.taken = more
    BY <2>1, <2>2, <1>10, PutStep
  <2>4. Whole(u)
    BY <2>1, <2>3, <1>11, <1>12 DEF Whole
  <2> QED BY <2>2, <2>4, <1>10
<1>16. ASSUME Last(v, s)
       PROVE  (\A p : Storable(v, p)) /\ Whole(Finished(v, s))
  <2>1. k + 1 = GearCount
    BY <1>2, <1>10, <1>16 DEF Last
  <2>2. {t[2] : t \in more} \subseteq 1..GearCount
    BY <1>11 DEF Gears
  <2>3. {t[2] : t \in more} = 1..GearCount
    BY <2>1, <2>2, <1>12
  <2>4. \A p : Storable(v, p)
    BY <2>3, <1>10, <1>11 DEF Storable, Kinds
  <2>5. Finished(v, s) = NoWork
    BY <1>10 DEF Finished
  <2> QED BY <2>4, <2>5, NoWorkWhole, SelectedWheelAssumption, CalibrationAssumption
<1> QED BY <1>10, <1>14, <1>15, <1>16

\* Whatever is learned, each capture leaves usable work, and the last one what may be stored.
LEMMA CaptureKeeps ==
  ASSUME NEW w, Whole(w), w.kind \in Kinds, NEW s \in States, NEW sample \in ReadPreferredWheelInput(s),
         NEW v \in Captured(w, sample)
  PROVE  /\ v.kind = w.kind /\ Whole(v) /\ (~Last(v, s) => Whole([v EXCEPT !.step = @ + 1]))
         /\ Last(v, s) => Storable(v, s.stored) /\ Whole(Finished(v, s))
<1>1. sample \in Stamps /\ sample.id \in {s.stored, NoPort}
  BY SampleIs
<1>2. CASE w.kind = "steering"
  <2>1. v \in SteeringPoint(w)
    BY <1>2 DEF Captured
  <2> QED BY <2>1, <1>2, SteeringCaptured
<1>3. CASE w.kind = "pedals"
  <2>1. v \in PedalRest(w, sample) \/ v \in PedalPressed(w, sample)
    BY <1>3 DEF Captured
  <2>2. CASE v \in PedalRest(w, sample)
    BY <2>2, <1>1, <1>3, RestCaptured
  <2>3. CASE v \in PedalPressed(w, sample)
    BY <2>3, <1>1, <1>3, PressCaptured
  <2> QED BY <2>1, <2>2, <2>3
<1>4. CASE w.kind = "button"
  <2>1. v \in ButtonPressed(w)
    BY <1>4 DEF Captured
  <2> QED BY <2>1, <1>4, ButtonCaptured
<1>5. CASE w.kind = "shifter"
  <2>1. v \in GearEngaged(w)
    BY <1>5 DEF Captured
  <2> QED BY <2>1, <1>5, ShifterCaptured
<1> QED BY <1>2, <1>3, <1>4, <1>5 DEF Kinds

(* CalibrationSound, for what is stored of each kind of input.                 *)
PedalsSound(p, pedals) ==
  LET axis == {k \in DOMAIN pedals : pedals[k] # Missing}
  IN  /\ \A i, j \in axis : pedals[i].at = pedals[j].at /\ pedals[i].at.id \in {p, NoPort}
      /\ pedals # <<>> => {1, 2} \subseteq axis
      /\ \A i, j \in axis : pedals[i].axis = pedals[j].axis => i = j
SteeringSound(steering) ==
  steering # <<>> => steering[2] > Min({steering[1], steering[3]}) /\ steering[2] < Max({steering[1], steering[3]})
GearsSound(gears) ==
  /\ gears # {} => {t[2] : t \in gears} = 1..GearCount
  /\ \A t, u \in gears : t[1] = u[1] => t = u
ProfileSound(p, q) == PedalsSound(p, q.pedals) /\ SteeringSound(q.steering) /\ GearsSound(q.gears)

LEMMA SoundIs ==
  /\ CalibrationSound <=> \A p \in Ports : ProfileSound(p, profiles[p])
  /\ CalibrationSound' <=> \A p \in Ports : ProfileSound(p, profiles'[p])
BY DEF CalibrationSound, PedalsOneContext, WholeCalibration, ProfileSound, PedalsSound, SteeringSound, GearsSound

LEMMA SteeringStored ==
  ASSUME NEW v, NEW p, Storable(v, p), v.kind = "steering", Accepted(v)
  PROVE  v.got \in StoredSteering /\ SteeringSound(v.got)
<1>1. v.got \in [1..3 -> Positions]
  BY DEF Storable
<1>2. PICK a \in Nat, b \in Nat, c \in Nat : a = v.got[1] /\ b = v.got[2] /\ c = v.got[3]
  BY <1>1 DEF Positions
<1>3. b # a /\ b # c /\ (a < b) = (b < c)
  BY <1>2 DEF Accepted
<1>4. (a < b /\ b < c) \/ (c < b /\ b < a)
  BY <1>2, <1>3
<1>5. b > Min({a, c}) /\ b < Max({a, c})
  BY <1>2, <1>4, LeastOfTwo, GreatestOfTwo
<1> QED BY <1>1, <1>2, <1>5 DEF StoredSteering, SteeringSound

LEMMA PedalsStored ==
  ASSUME NEW v, NEW p, Storable(v, p), v.kind = "pedals"
  PROVE  v.got \in StoredPedals /\ PedalsSound(p, v.got)
<1>1. /\ v.got \in [1..3 -> Presses \cup {Missing}]
      /\ v.got[1] # Missing /\ v.got[2] # Missing /\ v.base.id \in {p, NoPort}
      /\ \A i \in 1..3 : v.got[i] # Missing => v.got[i].at = v.base
      /\ \A i, j \in 1..3 :
            v.got[i] # Missing /\ v.got[j] # Missing /\ v.got[i].axis = v.got[j].axis => i = j
  BY DEF Storable
<1>2. DOMAIN v.got = 1..3
  BY <1>1
<1>3. PICK axis \in SUBSET (1..3) : axis = {k \in 1..3 : v.got[k] # Missing}
  OBVIOUS
<1>4. \A i, j \in axis : v.got[i].at = v.got[j].at /\ v.got[i].at.id \in {p, NoPort}
  BY <1>1, <1>3
<1>5. {1, 2} \subseteq axis
  BY <1>1, <1>3
<1>6. \A i, j \in axis : v.got[i].axis = v.got[j].axis => i = j
  BY <1>1, <1>3
<1>7. PedalsSound(p, v.got)
  BY <1>2, <1>3, <1>4, <1>5, <1>6 DEF PedalsSound
<1> QED BY <1>1, <1>7 DEF StoredPedals

LEMMA GearsStored ==
  ASSUME NEW v, NEW p, Storable(v, p), v.kind = "shifter"
  PROVE  v.taken \in SUBSET Gears /\ GearsSound(v.taken)
BY DEF Storable, GearsSound

(* What one store leaves of the profile q.                                     *)
Store(v, q) ==
  CASE v.kind = "steering" -> [q EXCEPT !.steering = v.got]
    [] v.kind = "pedals" -> [q EXCEPT !.pedals = v.got]
    [] v.kind = "button" -> [q EXCEPT !.button = TRUE]
    [] v.kind = "shifter" -> [q EXCEPT !.gears = v.taken]

LEMMA StoreKeeps ==
  ASSUME NEW v, NEW p, Storable(v, p), Accepted(v), NEW q \in StoredProfiles, ProfileSound(p, q)
  PROVE  Store(v, q) \in StoredProfiles /\ ProfileSound(p, Store(v, q))
<1>1. /\ q.steering \in StoredSteering /\ q.pedals \in StoredPedals /\ q.gears \in SUBSET Gears
      /\ q.button \in BOOLEAN
      /\ q = [steering |-> q.steering, pedals |-> q.pedals, button |-> q.button, gears |-> q.gears]
  BY DEF StoredProfiles
<1>2. PedalsSound(p, q.pedals) /\ SteeringSound(q.steering) /\ GearsSound(q.gears)
  BY DEF ProfileSound
<1>3. PICK r : r = Store(v, q)
  OBVIOUS
<1>4. ASSUME NEW st \in StoredSteering, NEW pe \in StoredPedals, NEW b \in BOOLEAN, NEW g \in SUBSET Gears,
             r = [steering |-> st, pedals |-> pe, button |-> b, gears |-> g],
             PedalsSound(p, pe), SteeringSound(st), GearsSound(g)
      PROVE  r \in StoredProfiles /\ ProfileSound(p, r)
  <2>1. r.steering = st /\ r.pedals = pe /\ r.gears = g
    BY <1>4
  <2>2. r \in StoredProfiles
    BY <1>4 DEF StoredProfiles
  <2> QED BY <2>1, <2>2, <1>4 DEF ProfileSound
<1>5. CASE v.kind = "steering"
  <2>1. r = [steering |-> v.got, pedals |-> q.pedals, button |-> q.button, gears |-> q.gears]
    BY <1>1, <1>3, <1>5 DEF Store
  <2> QED BY <2>1, <1>1, <1>2, <1>3, <1>4, <1>5, SteeringStored
<1>6. CASE v.kind = "pedals"
  <2>1. r = [steering |-> q.steering, pedals |-> v.got, button |-> q.button, gears |-> q.gears]
    BY <1>1, <1>3, <1>6 DEF Store
  <2> QED BY <2>1, <1>1, <1>2, <1>3, <1>4, <1>6, PedalsStored
<1>7. CASE v.kind = "button"
  <2>1. r = [steering |-> q.steering, pedals |-> q.pedals, button |-> TRUE, gears |-> q.gears]
    BY <1>1, <1>3, <1>7 DEF Store
  <2> QED BY <2>1, <1>1, <1>2, <1>3, <1>4
<1>8. CASE v.kind = "shifter"
  <2>1. r = [steering |-> q.steering, pedals |-> q.pedals, button |-> q.button, gears |-> v.taken]
    BY <1>1, <1>3, <1>8 DEF Store
  <2> QED BY <2>1, <1>1, <1>2, <1>3, <1>4, <1>8, GearsStored
<1> QED BY <1>5, <1>6, <1>7, <1>8 DEF Storable, Kinds

LEMMA SavesKeep ==
  ASSUME LearnOK, NEW s \in States, NEW v, Storable(v, s.stored), Saves(v, s)
  PROVE  ProfilesOK' /\ CalibrationSound' /\ faults' = faults
<1>1. faults' = faults /\ Accepted(v) /\ SelectedWheelID(s) = s.stored /\ s.stored \in Ports
  BY SelectedWheelAssumption DEF Saves, NoFault, SelectedWheelID, States
<1>2. PICK p \in Ports : p = s.stored
  BY <1>1
<1>3. profiles \in [Ports -> StoredProfiles] /\ \A q \in Ports : ProfileSound(q, profiles[q])
  BY SoundIs DEF LearnOK, ProfilesOK
<1>4. PICK r : r = Store(v, profiles[p])
  OBVIOUS
<1>5. r \in StoredProfiles /\ ProfileSound(p, r)
  <2>1. profiles[p] \in StoredProfiles /\ ProfileSound(p, profiles[p])
    BY <1>3
  <2> QED BY <2>1, <1>1, <1>2, <1>4, StoreKeeps
<1>6. profiles' = [profiles EXCEPT ![p] = r]
  BY <1>1, <1>2, <1>4 DEF Saves, Stored, Store
<1>7. \A q \in Ports : profiles'[q] = IF q = p THEN r ELSE profiles[q]
  BY <1>3, <1>6
<1>8. ProfilesOK'
  BY <1>3, <1>5, <1>6 DEF ProfilesOK
<1>9. \A q \in Ports : ProfileSound(q, profiles'[q])
  BY <1>3, <1>5, <1>7
<1> QED BY <1>1, <1>8, <1>9, SoundIs

LEMMA ProfilesStay ==
  ASSUME LearnOK, profiles' = profiles
  PROVE  ProfilesOK' /\ CalibrationSound'
BY SoundIs DEF LearnOK, ProfilesOK

LEMMA EndKeeps ==
  ASSUME PageState, LearnOK, NEW s \in States, NEW v, Storable(v, s.stored), Saves(v, s) \/ Refused(v, s)
  PROVE  ProfilesOK' /\ CalibrationSound' /\ faults' \in Nat
<1>1. faults \in Nat
  BY PageCounts
<1>2. CASE Saves(v, s)
  BY <1>1, <1>2, SavesKeep
<1>3. CASE Refused(v, s)
  <2>1. profiles' = profiles /\ faults' \in Nat
    BY <1>1, <1>3 DEF Refused, Fault, NoFault
  <2> QED BY <2>1, ProfilesStay
<1> QED BY <1>2, <1>3

LEMMA LearningState ==
  ASSUME ToolOK, tool.kind = "learn"
  PROVE  tool = [kind |-> "learn", s |-> tool.s, work |-> tool.work] /\ tool.s \in States /\ tool.work.kind \in Kinds /\ Whole(tool.work)
BY DEF ToolOK, Learning

LEMMA StartsLearning ==
  ASSUME NEW s \in States, NEW w, w.kind \in Kinds, Whole(w), tool' = [kind |-> "learn", s |-> s, work |-> w]
  PROVE  ToolOK'
<1>1. tool'.kind = "learn" /\ tool'.s = s /\ tool'.work = w
  OBVIOUS
<1>2. tool' = [kind |-> "learn", s |-> tool'.s, work |-> tool'.work]
  BY <1>1
<1> QED BY <1>1, <1>2 DEF ToolOK, Learning

LEMMA LearnCount ==
  ASSUME acts \in [part : Parts, count : Nat],
         acts' = [part |-> "learn", count |-> IF OnePart THEN MaxActs ELSE acts.count + 1]
  PROVE  acts' \in [part : Parts, count : Nat]
<1>1. MaxActs \in Nat /\ acts.count + 1 \in Nat
  BY SelectedWheelAssumption DEF SelectedWheelAssumption
<1>2. (IF OnePart THEN MaxActs ELSE acts.count + 1) \in Nat
  BY <1>1
<1> QED BY <1>2 DEF Parts

\* A step of the assistant on the page.
LEMMA InlineKeeps ==
  ASSUME PageState, LearnOK, Silent, UNCHANGED <<motor, panel>>,
         (\E kind \in Kinds : startInlineCalibration(kind)) \/ closeInlineCalibration \/ captureInlineCalibration
  PROVE  PageState' /\ LearnOK'
<1>1. faults \in Nat /\ acts \in [part : Parts, count : Nat] /\ ToolOK /\ app \in States /\ Whole(assistant)
  BY PageCounts, PanelFacts DEF PageState, LearnOK
<1>2. CASE \E kind \in Kinds : startInlineCalibration(kind)
  <2>1. PICK kind \in Kinds : startInlineCalibration(kind)
    BY <1>2
  <2>2. /\ assistant' = Start(kind) /\ UNCHANGED <<bus, app, tool, plugs, faults, profiles>>
        /\ acts' = [part |-> "learn", count |-> IF OnePart THEN MaxActs ELSE acts.count + 1]
    BY <2>1 DEF startInlineCalibration, ActAlone
  <2>3. acts' \in [part : Parts, count : Nat]
    BY <1>1, <2>2, LearnCount
  <2>4. Whole(assistant')
    BY <2>2, NoWorkWhole, SelectedWheelAssumption, CalibrationAssumption
  <2>5. ToolOK'
    BY <2>2, <1>1, ToolKeeps
  <2> QED BY <1>1, <2>2, <2>3, <2>4, <2>5, ProfilesStay, StillKeeps DEF LearnOK
<1>3. CASE closeInlineCalibration
  <2>1. assistant' = NoWork /\ UNCHANGED <<bus, app, tool, plugs, faults, acts, profiles>>
    BY <1>3 DEF closeInlineCalibration, world
  <2>2. Whole(assistant')
    BY <2>1, NoWorkWhole, SelectedWheelAssumption, CalibrationAssumption
  <2>3. ToolOK'
    BY <2>1, <1>1, ToolKeeps
  <2> QED BY <1>1, <2>1, <2>2, <2>3, ProfilesStay, StillKeeps DEF LearnOK
<1>4. CASE captureInlineCalibration
  <2>1. assistant.kind # "none" /\ UNCHANGED <<bus, app, tool, plugs, acts>>
    BY <1>4 DEF captureInlineCalibration
  <2>2. assistant.kind \in Kinds
    BY <1>1, <2>1 DEF Whole, Work
  <2>3. PICK sample \in ReadPreferredWheelInput(app) : \E w \in Captured(assistant, sample) :
          IF ~Last(w, app)
          THEN assistant' = [w EXCEPT !.step = @ + 1] /\ NoFault /\ UNCHANGED profiles
          ELSE \/ Saves(w, app) /\ assistant' = Finished(w, app)
               \/ Refused(w, app) /\ assistant' = w
    BY <1>4 DEF captureInlineCalibration
  <2>4. PICK w \in Captured(assistant, sample) :
          IF ~Last(w, app)
          THEN assistant' = [w EXCEPT !.step = @ + 1] /\ NoFault /\ UNCHANGED profiles
          ELSE \/ Saves(w, app) /\ assistant' = Finished(w, app)
               \/ Refused(w, app) /\ assistant' = w
    BY <2>3
  <2>5. /\ Whole(w) /\ (~Last(w, app) => Whole([w EXCEPT !.step = @ + 1]))
        /\ Last(w, app) => Storable(w, app.stored) /\ Whole(Finished(w, app))
    BY <1>1, <2>2, CaptureKeeps
  <2>6. Whole(assistant')
    BY <2>4, <2>5
  <2>7. ProfilesOK' /\ CalibrationSound' /\ faults' \in Nat
    <3>1. CASE ~Last(w, app)
      BY <3>1, <2>4, <1>1, ProfilesStay DEF NoFault
    <3>2. CASE Last(w, app)
      BY <3>2, <2>4, <2>5, <1>1, EndKeeps
    <3> QED BY <3>1, <3>2
  <2>8. ToolOK'
    BY <2>1, <1>1, ToolKeeps
  <2> QED BY <1>1, <2>1, <2>6, <2>7, <2>8, StillKeeps DEF LearnOK
<1> QED BY <1>2, <1>3, <1>4

\* A step of a dialog.
LEMMA DialogKeeps ==
  ASSUME PageState, LearnOK, Silent, UNCHANGED <<motor, panel>>,
         (\E kind \in Kinds : Learn(kind)) \/ LearnFails \/ LearnCapture
  PROVE  PageState' /\ LearnOK'
<1>1. faults \in Nat /\ acts \in [part : Parts, count : Nat] /\ ToolOK /\ app \in States /\ Whole(assistant)
  BY PageCounts, PanelFacts DEF PageState, LearnOK
<1>2. CASE \E kind \in Kinds : Learn(kind)
  <2>1. PICK kind \in Kinds : Learn(kind)
    BY <1>2
  <2>2. /\ tool' = [kind |-> "learn", s |-> app, work |-> Start(kind)]
        /\ UNCHANGED <<bus, app, plugs, faults, assistant, profiles>>
        /\ acts' = [part |-> "learn", count |-> IF OnePart THEN MaxActs ELSE acts.count + 1]
    BY <2>1 DEF Learn, ActAlone
  <2>3. acts' \in [part : Parts, count : Nat]
    BY <1>1, <2>2, LearnCount
  <2>4. Whole(Start(kind)) /\ Start(kind).kind = kind
    BY StartIs, NoWorkWhole, SelectedWheelAssumption, CalibrationAssumption
  <2>5. ToolOK'
    BY <1>1, <2>2, <2>4, StartsLearning
  <2> QED BY <1>1, <2>2, <2>3, <2>5, ProfilesStay, StillKeeps DEF LearnOK
<1>3. CASE LearnFails
  <2>1. tool' = NoTool /\ UNCHANGED <<bus, app, plugs, faults, acts, assistant, profiles>>
    BY <1>3 DEF LearnFails
  <2>2. ToolOK'
    BY <2>1, <1>1, ToolKeeps
  <2> QED BY <1>1, <2>1, <2>2, ProfilesStay, StillKeeps DEF LearnOK
<1>4. CASE LearnCapture
  <2>1. tool.kind = "learn" /\ UNCHANGED <<bus, app, plugs, acts, assistant>>
    BY <1>4 DEF LearnCapture
  <2>2. tool = [kind |-> "learn", s |-> tool.s, work |-> tool.work] /\ tool.s \in States /\ tool.work.kind \in Kinds
      /\ Whole(tool.work)
    BY <1>1, <2>1, LearningState
  <2>3. PICK sample \in ReadPreferredWheelInput(tool.s) : \E w \in Captured(tool.work, sample) :
          IF ~Last(w, tool.s)
          THEN tool' = [tool EXCEPT !.work = [w EXCEPT !.step = @ + 1]] /\ NoFault /\ UNCHANGED profiles
          ELSE tool' = NoTool /\ (Saves(w, tool.s) \/ Refused(w, tool.s))
    BY <1>4 DEF LearnCapture
  <2>4. PICK w \in Captured(tool.work, sample) :
          IF ~Last(w, tool.s)
          THEN tool' = [tool EXCEPT !.work = [w EXCEPT !.step = @ + 1]] /\ NoFault /\ UNCHANGED profiles
          ELSE tool' = NoTool /\ (Saves(w, tool.s) \/ Refused(w, tool.s))
    BY <2>3
  <2>6. PICK s \in States : s = tool.s
    BY <2>2
  <2>7. /\ w.kind \in Kinds /\ Whole(w) /\ (~Last(w, s) => Whole([w EXCEPT !.step = @ + 1]))
        /\ Last(w, s) => Storable(w, s.stored)
    BY <2>2, <2>4, <2>6, CaptureKeeps
  <2>8. CASE ~Last(w, s)
    <3>1. PICK u : u = [w EXCEPT !.step = @ + 1]
      OBVIOUS
    <3>2. Whole(u) /\ u.kind = w.kind
      <4>1. Whole(u)
        BY <3>1, <2>7, <2>8
      <4>2. Work(w) /\ w.step + 1 \in Nat
        BY <2>7 DEF Whole, Work
      <4> QED BY <4>1, <4>2, <3>1, PutStep
    <3>3. tool' = [tool EXCEPT !.work = u] /\ faults' = faults /\ profiles' = profiles
      BY <3>1, <2>4, <2>6, <2>8 DEF NoFault
    <3>4. tool' = [kind |-> "learn", s |-> s, work |-> u]
      BY <3>3, <2>2, <2>6
    <3>5. ToolOK'
      BY <3>2, <3>4, <2>7, StartsLearning
    <3> QED BY <1>1, <2>1, <3>3, <3>5, ProfilesStay, StillKeeps DEF LearnOK
  <2>9. CASE Last(w, s)
    <3>1. tool' = NoTool /\ (Saves(w, s) \/ Refused(w, s))
      BY <2>4, <2>6, <2>9
    <3>2. ProfilesOK' /\ CalibrationSound' /\ faults' \in Nat
      BY <3>1, <2>7, <2>9, EndKeeps
    <3>3. ToolOK'
      BY <3>1, <1>1, ToolKeeps
    <3> QED BY <1>1, <2>1, <3>2, <3>3, StillKeeps DEF LearnOK
  <2> QED BY <2>8, <2>9
<1> QED BY <1>2, <1>3, <1>4

LEMMA CalibrationKeeps ==
  ASSUME PageState, LearnOK, Silent, UNCHANGED <<motor, panel>>, CalibrationNext
  PROVE  PageState' /\ LearnOK'
BY InlineKeeps, DialogKeeps DEF CalibrationNext

-----------------------------------------------------------------------------
(* The page. *)

LEMMA PageStarts ==
  ASSUME PageInit
  PROVE  PageIInv
<1>1. PICK p \in Ports, w \in Wheels, m \in Modes :
        /\ bus = [[q \in Ports |-> Nothing] EXCEPT ![p] = [wheel |-> w, session |-> 1, mode |-> m]]
        /\ app = [seen |-> bus, stored |-> p]
  BY DEF PageInit, InitWorld
<1>2. /\ tool = NoTool /\ plugs = 1 /\ faults = 0 /\ acts = [part |-> "none", count |-> 0]
      /\ assistant = NoWork /\ profiles = [q \in Ports |-> NoProfile]
      /\ force = [q \in Ports |-> "none"] /\ narrow = [q \in Ports |-> FALSE] /\ lease = Free /\ game = NoGame
      /\ evidence = [kind |-> "good", recs |-> {}] /\ cache = Cold /\ asked = {} /\ filling = Cold /\ missed = {}
      /\ native = TRUE /\ said = "nothing"
      /\ draft = [port |-> app.stored, engine |-> Builtin["Balanced"], shape |-> 1, drag |-> "none"]
      /\ custom = [q \in Ports |-> NoCustom] /\ active = [q \in Ports |-> "Balanced"] /\ shape = [q \in Ports |-> 1]
  BY DEF PageInit, InitWorld, InitCalibration, InitMotor, InitCertification, InitPanel
<1>3. MaxPlugs \in Nat /\ MaxPlugs > 0
  BY SelectedWheelAssumption DEF SelectedWheelAssumption
<1>4. WorldOK
  <2>1. PICK x \in Plugged : x = [wheel |-> w, session |-> 1, mode |-> m]
    <3>1. PICK k \in 1..MaxPlugs : k = 1
      BY <1>3
    <3>2. [wheel |-> w, session |-> k, mode |-> m] \in Plugged
      BY DEF Plugged
    <3> QED BY <3>1, <3>2
  <2>2. bus \in Seen
    BY <1>1, <2>1 DEF Seen
  <2>3. app \in States
    BY <1>1, <2>2 DEF States
  <2>4. acts \in [part : Parts, count : Nat]
    BY <1>2 DEF Parts
  <2> QED BY <1>2, <1>3, <2>2, <2>3, <2>4 DEF WorldOK
<1>5. PICK e \in EngineProfiles : e = Builtin["Balanced"] /\ 1 \in Levels
  <2>1. Builtin["Balanced"] \in EngineProfiles
    BY ProfilesAreLoaded, PanelAssumption
  <2>2. Builtin["Balanced"].gain = 1
    BY DEF Builtin
  <2>3. 1 \in Levels
    BY <2>1, <2>2 DEF EngineProfiles
  <2> QED BY <2>1, <2>3
<1>6. PanelOK
  <2>1. Found \in PageData
    BY <1>2, <1>5 DEF Found, PageData, Forces, Names
  <2>2. Driven(Found)
    <3>1. Found.force = [q \in Ports |-> "none"]
      BY <1>2 DEF Found
    <3> QED BY <3>1 DEF Driven
  <2>3. Loaded(Found)
    <3>1. Found.active = [q \in Ports |-> "Balanced"]
      BY <1>2 DEF Found
    <3> QED BY <3>1 DEF Loaded
  <2>4. draft \in Drafts
    <3>1. PICK q \in Ports : q = app.stored
      BY <1>1
    <3>2. draft = [port |-> q, engine |-> e, shape |-> 1, drag |-> "none"]
      BY <1>2, <1>5, <3>1
    <3> QED BY <3>2, <1>5 DEF Drafts
  <2> QED BY <2>1, <2>2, <2>3, <2>4, <1>2 DEF PanelOK, Held, Told
<1>7. ToolOK
  BY <1>2 DEF ToolOK, NoTool
<1>8. LearnOK
  <2>1. NoProfile \in StoredProfiles
    BY DEF NoProfile, StoredProfiles, StoredSteering, StoredPedals
  <2>2. ASSUME NEW q \in Ports
        PROVE  ProfileSound(q, NoProfile)
    <3>1. NoProfile.steering = <<>> /\ NoProfile.pedals = <<>> /\ NoProfile.gears = {}
      BY DEF NoProfile
    <3>2. DOMAIN <<>> = {}
      OBVIOUS
    <3>3. PedalsSound(q, <<>>)
      BY <3>2 DEF PedalsSound
    <3>4. SteeringSound(<<>>) /\ GearsSound({})
      BY DEF SteeringSound, GearsSound
    <3> QED BY <3>1, <3>3, <3>4 DEF ProfileSound
  <2>3. ProfilesOK /\ \A q \in Ports : ProfileSound(q, profiles[q])
    BY <1>2, <2>1, <2>2 DEF ProfilesOK
  <2>4. Whole(assistant)
    BY <1>2, NoWorkWhole, SelectedWheelAssumption, CalibrationAssumption
  <2> QED BY <2>3, <2>4, SoundIs DEF LearnOK
<1>9. EvidenceOK /\ Remembered
  BY <1>2 DEF EvidenceOK, Remembered
<1>10. StatusTrue
  BY <1>2 DEF StatusTrue
<1> QED BY <1>4, <1>6, <1>7, <1>8, <1>9, <1>10 DEF PageIInv

LEMMA PageIs == PageIInv <=> PageState /\ LearnOK /\ CertState
BY DEF PageIInv, PageState, CertState

LEMMA LearnUnchanged ==
  ASSUME LearnOK, UNCHANGED <<assistant, profiles>>
  PROVE  LearnOK'
BY ProfilesStay DEF LearnOK

\* What each step of the page keeps, and what EvidenceKept and PassLeavesSafe say of it.
LEMMA WheelPageKeeps ==
  ASSUME PageState, LearnOK, CertState, [PageNext]_pageVars
  PROVE  PageState' /\ LearnOK' /\ CertState' /\ KeptStep /\ PassStep
<1>1. CASE WorldNext /\ Silent /\ UNCHANGED <<motor, assistant, profiles, certified, panel>>
  BY <1>1, WorldKeeps, LearnUnchanged, CertUnchanged
<1>2. CASE CommandsNext /\ Silent /\ UNCHANGED <<assistant, profiles, certified, panel>>
  BY <1>2, CommandsKeep, LearnUnchanged, CertUnchanged
<1>3. CASE CalibrationNext /\ Silent /\ UNCHANGED <<motor, certified, panel>>
  BY <1>3, CalibrationKeeps, CertUnchanged
<1>4. CASE CertificationNext(native) /\ Silent /\ UNCHANGED <<assistant, profiles, panel>>
  BY <1>4, CertificationKeeps, LearnUnchanged
<1>5. CASE PanelNext /\ UNCHANGED <<assistant, profiles, certified>>
  BY <1>5, PanelKeeps, LearnUnchanged, CertUnchanged
<1>6. CASE UNCHANGED pageVars
  <2>1. /\ UNCHANGED <<bus, app, tool, plugs, faults, acts>> /\ UNCHANGED <<assistant, profiles>>
        /\ UNCHANGED <<force, narrow, lease, game>> /\ UNCHANGED certified
        /\ UNCHANGED <<native, draft, custom, active, shape, said>>
    BY <1>6 DEF pageVars, world, motor, panel
  <2>2. Found' = Found
    BY <2>1 DEF Found
  <2>3. WorldOK' /\ PanelOK' /\ ToolOK'
    BY <2>1, <2>2 DEF PageState, WorldOK, PanelOK, ToolOK
  <2>4. StatusTrue'
    BY <2>1, <2>2 DEF PageState, StatusTrue
  <2> QED BY <2>1, <2>3, <2>4, LearnUnchanged, CertUnchanged DEF PageState
<1> QED BY <1>1, <1>2, <1>3, <1>4, <1>5, <1>6 DEF PageNext

\* Every state of the page holds what its variables, its commands and its dialogs rely on.
THEOREM PageTypeCorrect == PageSpec => []PageIInv
<1>1. PageInit => PageIInv
  BY PageStarts
<1>2. PageIInv /\ [PageNext]_pageVars => PageIInv'
  <2>1. PageIInv' <=> PageState' /\ LearnOK' /\ CertState'
    BY DEF PageIInv, PageState, CertState
  <2> QED BY <2>1, PageIs, WheelPageKeeps
<1> QED BY <1>1, <1>2, PTL DEF PageSpec

\* What captureInlineCalibration and the dialogs store for a wheel is usable: pedals from one
\* input of that wheel, an axis and a signature of its own for each, the middle between the ends.
THEOREM CalibrationIsSound == PageSpec => []CalibrationSound
<1>1. PageIInv => CalibrationSound
  BY DEF PageIInv, LearnOK
<1> QED BY <1>1, PageTypeCorrect, PTL

\* The status line of the panel tells the truth when it is written: what d6CommitDraft applied or
\* retuned is stored, in force and at rest, and after "neutral" no wheel is driven.
THEOREM StatusIsTrue == PageSpec => []StatusTrue
<1>1. PageIInv => StatusTrue
  BY DEF PageIInv
<1> QED BY <1>1, PageTypeCorrect, PTL

\* A range or effect check that certifyRange or certifyMotorEffect records as passed left nothing
\* driven, nobody with the output and no wheel with a narrowed range.
THEOREM PassesLeaveSafe == PageSpec => PassLeavesSafe
<1>1. PageIInv /\ [PageNext]_pageVars =>
        [\A r \in Known' \ Known :
           r.verdict = "passed" /\ r.check \in MotorChecks =>
             /\ lease' = Free /\ \A p \in Ports : force'[p] = "none"
             /\ r.check = "range" => ~narrow'[r.key[1]]]_<<motor, certified>>
  BY PageIs, WheelPageKeeps DEF PassStep
<1> QED BY <1>1, PageTypeCorrect, PTL DEF PageSpec, PassLeavesSafe

\* RecordHardwareCertificationResult, a reset and a file that cannot be read lose no result of
\* another wheel or check, but for one that was saved between the two steps of a refresh.
THEOREM EvidenceIsKept == PageSpec => EvidenceKept
<1>1. PageIInv /\ [PageNext]_pageVars =>
        [evidence'.kind # "damaged" =>
           \A r \in evidence.recs :
             \/ r.key \in asked' \/ r \in missed
             \/ \E q \in evidence'.recs : q.key = r.key /\ q.check = r.check]_certified
  BY PageIs, WheelPageKeeps DEF KeptStep
<1> QED BY <1>1, PageTypeCorrect, PTL DEF PageSpec, EvidenceKept

=============================================================================
