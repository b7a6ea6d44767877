---------------------------- MODULE Calibration ----------------------------
(***************************************************************************)
(* Learning the inputs of a wheel: the assistant on the wheel page, which    *)
(* reads the current state at each click and stays when a capture fails, and *)
(* the dialogs, which keep the state they were opened with and end at the     *)
(* first failure.  Both collect captures and store them at the last one.      *)
(*                                                                         *)
(* Readings are data: a steering position, the axis that moved most, a        *)
(* shifter signature, the buttons that are new.  A capture whose reading is    *)
(* refused changes nothing but the text shown.                               *)
(***************************************************************************)
EXTENDS SelectedWheel, FiniteSetsExt

CONSTANTS
  Axes,        \* axes a pedal can be on: five in the code
  Signatures,  \* what the shifter can look like
  GearCount    \* states of the shifter to learn: 8 in the code

ASSUME CalibrationAssumption == GearCount \in Nat \ {0} /\ Cardinality(Signatures) >= GearCount

VARIABLES
  assistant,   \* wheelCalibrationWizard
  profiles  \* what is stored for each wheel

Kinds == {"steering", "pedals", "button", "shifter"}
Pedals == 1..3                      \* gas, brake, clutch
Positions == 1..3                   \* of the wheel, from the left
Missing == [axis |-> "missing"]

NoWork == [kind |-> "none", step |-> 0, base |-> NoStamp, got |-> [i \in Pedals |-> Missing], taken |-> {}]
Start(kind) == [NoWork EXCEPT !.kind = kind]

NoProfile == [steering |-> <<>>, pedals |-> <<>>, button |-> FALSE, gears |-> {}]

InitCalibration == assistant = NoWork /\ profiles = [p \in Ports |-> NoProfile]

-----------------------------------------------------------------------------
(* What a valid sample with a usable reading adds to work w. *)

(* Mutant: the session may have changed.                                      *)
SameSource(base, sample) == base.id = sample.id /\ base.source = sample.source
SameInput(base, sample) == base = sample

SteeringPoint(w) ==
  {[w EXCEPT !.got[w.step + 1] = x] : x \in {y \in Positions : w.step < 3}}

(* StrongestMovedAxis: never one that a pedal has.                            *)
PedalRest(w, sample) ==
  {[w EXCEPT !.base = sample, !.taken = {}] : x \in {y \in {1} : w.step = 0}}
PedalPressed(w, sample) ==
  {[w EXCEPT !.got[w.step] = [axis |-> a, at |-> sample], !.taken = @ \cup {a}] :
     a \in {x \in Axes \ w.taken : w.step \in Pedals /\ SameInput(w.base, sample)}}

(* FirstPressedButton: exactly one new button.                                *)
ButtonPressed(w) == {v \in {w} : w.step < 2}

(* Mutant: a signature that was captured before is taken for the new gear.      *)
AnySignature(w) == Signatures
FreshSignature(w) == {x \in Signatures : \A t \in w.taken : t[1] # x}
Gear(w) == Min({w.step + 1, GearCount})
GearEngaged(w) ==
  {[w EXCEPT !.taken = {t \in @ : t[1] # x} \cup {<<x, Gear(w)>>}] : x \in FreshSignature(w)}

Captured(w, sample) ==
  CASE w.kind = "steering" -> SteeringPoint(w)
    [] w.kind = "pedals" -> PedalRest(w, sample) \cup PedalPressed(w, sample)
    [] w.kind = "button" -> ButtonPressed(w)
    [] w.kind = "shifter" -> GearEngaged(w)

(* The last capture: what was collected is stored after it.                   *)
Last(w, s) ==
  CASE w.kind = "steering" -> w.step = 2
    [] w.kind = "pedals" -> w.step = 3 \/ (w.step = 2 /\ IsDFGTModel(s))
    [] w.kind = "button" -> w.step = 1
    [] w.kind = "shifter" -> w.step + 1 >= GearCount

(* SaveSteeringCalibration refuses a middle that is not between the ends.       *)
Accepted(w) ==
  w.kind = "steering" => /\ w.got[2] # w.got[1] /\ w.got[2] # w.got[3]
                         /\ (w.got[1] < w.got[2]) = (w.got[2] < w.got[3])

(* SaveSteeringCalibration, SavePedalMappingForWheel, SaveButtonMapping and      *)
(* SaveGearMapping.                                                           *)
Stored(w, id) ==
  [profiles EXCEPT ![id] =
    CASE w.kind = "steering" -> [@ EXCEPT !.steering = w.got]
      [] w.kind = "pedals" -> [@ EXCEPT !.pedals = w.got]
      [] w.kind = "button" -> [@ EXCEPT !.button = TRUE]
      [] w.kind = "shifter" -> [@ EXCEPT !.gears = w.taken]]

Saves(w, s) == SelectedWheelID(s) # NoPort /\ Accepted(w) /\ profiles' = Stored(w, SelectedWheelID(s)) /\ NoFault
Refused(w, s) ==
  /\ IF SelectedWheelID(s) # NoPort /\ Accepted(w) THEN Fault ELSE NoFault
  /\ UNCHANGED profiles

-----------------------------------------------------------------------------
(* The assistant on the page. *)

startInlineCalibration(kind) ==
  /\ assistant.kind = "none" /\ HasReadableSelectedWheel(app) /\ ActAlone
  /\ assistant' = Start(kind)
  /\ UNCHANGED <<bus, app, tool, plugs, faults, profiles>>

closeInlineCalibration ==
  /\ tool = NoTool /\ assistant.kind # "none"
  /\ assistant' = NoWork
  /\ UNCHANGED <<world, profiles>>

(* After the last step the assistant shows the result, or is closed.            *)
Finished(w, s) ==
  CASE w.kind = "steering" -> [w EXCEPT !.step = 3]
    [] w.kind = "pedals" -> [w EXCEPT !.step = IF IsDFGTModel(s) THEN 3 ELSE 4]
    [] w.kind \in {"button", "shifter"} -> NoWork

captureInlineCalibration ==
  /\ tool = NoTool /\ assistant.kind # "none"
  /\ \E sample \in ReadPreferredWheelInput(app) : \E w \in Captured(assistant, sample) :
       IF ~Last(w, app)
       THEN assistant' = [w EXCEPT !.step = @ + 1] /\ NoFault /\ UNCHANGED profiles
       ELSE \/ Saves(w, app) /\ assistant' = Finished(w, app)
            \/ Refused(w, app) /\ assistant' = w
  /\ UNCHANGED <<bus, app, tool, plugs, acts>>

-----------------------------------------------------------------------------
(* The dialogs. *)

Learnable(kind, s) ==
  CASE kind \in {"steering", "button"} -> HasReadableSelectedWheel(s)
    [] kind = "pedals" -> HasActionableSelectedWheel(s)
    [] kind = "shifter" -> HasActionableSelectedWheel(s) /\ ~IsDFGTModel(s)

Learn(kind) ==
  /\ Learnable(kind, app) /\ ActAlone
  /\ tool' = [kind |-> "learn", s |-> app, work |-> Start(kind)]
  /\ UNCHANGED <<bus, app, plugs, faults, assistant, profiles>>

(* A missing or unhealthy sample or a refused reading ends the dialog.          *)
LearnFails ==
  /\ tool.kind = "learn" /\ tool' = NoTool
  /\ UNCHANGED <<bus, app, plugs, faults, acts, assistant, profiles>>

LearnCapture ==
  /\ tool.kind = "learn"
  /\ \E sample \in ReadPreferredWheelInput(tool.s) : \E w \in Captured(tool.work, sample) :
       IF ~Last(w, tool.s)
       THEN tool' = [tool EXCEPT !.work = [w EXCEPT !.step = @ + 1]] /\ NoFault /\ UNCHANGED profiles
       ELSE tool' = NoTool /\ (Saves(w, tool.s) \/ Refused(w, tool.s))
  /\ UNCHANGED <<bus, app, plugs, acts, assistant>>

CalibrationNext ==
  \/ \E kind \in Kinds : startInlineCalibration(kind) \/ Learn(kind)
  \/ closeInlineCalibration \/ captureInlineCalibration
  \/ LearnCapture \/ LearnFails

-----------------------------------------------------------------------------
(* The pedals stored for a wheel were all captured from one input: the same     *)
(* wheel in the same container through the same source, and from the wheel they *)
(* are stored for, if that wheel's samples carry an identity at all.            *)
PedalsOneContext ==
  \A p \in Ports : \A i, j \in {k \in DOMAIN profiles[p].pedals : profiles[p].pedals[k] # Missing} :
    /\ profiles[p].pedals[i].at = profiles[p].pedals[j].at
    /\ profiles[p].pedals[i].at.id \in {p, NoPort}

(* What is stored is usable: every gear has a signature of its own, every pedal *)
(* an axis of its own, and the middle of the wheel lies between its ends.       *)
WholeCalibration ==
  \A p \in Ports :
    LET q == profiles[p]
        axis == {k \in DOMAIN q.pedals : q.pedals[k] # Missing}
    IN  /\ q.gears # {} => {t[2] : t \in q.gears} = 1..GearCount
        /\ \A t, u \in q.gears : t[1] = u[1] => t = u
        /\ q.pedals # <<>> => {1, 2} \subseteq axis
        /\ \A i, j \in axis : q.pedals[i].axis = q.pedals[j].axis => i = j
        /\ q.steering # <<>> => q.steering[2] > Min({q.steering[1], q.steering[3]})
                                /\ q.steering[2] < Max({q.steering[1], q.steering[3]})

CalibrationSound == PedalsOneContext /\ WholeCalibration

=============================================================================
