--------------------------- MODULE SelectedWheel ---------------------------
(***************************************************************************)
(* The wheels at the ports, the state the program last scanned, and what a  *)
(* handler of the wheel page reads through it.                               *)
(*                                                                         *)
(* A handler gets a copy of the state, and a dialog keeps the copy it was    *)
(* opened with: what it reads may be older than what is plugged in.  A wheel  *)
(* is known by its port (its stable ID) and by the container Windows gave it  *)
(* (its session).  Selection models the scan; here it is one step.            *)
(***************************************************************************)
EXTENDS Naturals, Sequences, FiniteSets

CONSTANTS
  Ports,      \* where a wheel can be plugged in: its stable ID
  Wheels,     \* the wheels
  ModelOf,    \* [Wheels -> {"G25", "G27", "DFGT"}]
  NoPort,     \* no wheel is selected
  MaxPlugs,   \* bound: containers
  MaxFaults,  \* bound: writes and files that fail
  MaxActs,    \* bound: tools the user opens and controls he uses
  OnePart     \* bound: a behaviour learns one input, certifies or tunes, and no two of them

ASSUME SelectedWheelAssumption ==
  /\ ModelOf \in [Wheels -> {"G25", "G27", "DFGT"}]
  /\ NoPort \notin Ports
  /\ {MaxPlugs, MaxFaults, MaxActs} \subseteq Nat /\ MaxPlugs > 0 /\ OnePart \in BOOLEAN

VARIABLES
  bus,     \* what is plugged in at each port
  app,     \* the state of the program: the wheels it saw, and the stored selection
  tool,    \* the open dialog; the rest of the page takes no input under it
  plugs, faults, acts   \* counted for the bounds

world == <<bus, app, tool, plugs, faults, acts>>

(* A wheel answers as itself, as a C294 device whose model is confirmed, or   *)
(* as one whose model is not.                                                 *)
Modes == {"native", "compat", "unknown"}
Nothing == [session |-> 0]
Plugged == [wheel : Wheels, session : 1..MaxPlugs, mode : Modes]
NoTool == [kind |-> "none"]

Attached(seen) == {p \in Ports : seen[p] # Nothing}

InitWorld ==
  /\ \E p \in Ports, w \in Wheels, m \in Modes :
       /\ bus = [[q \in Ports |-> Nothing] EXCEPT ![p] = [wheel |-> w, session |-> 1, mode |-> m]]
       /\ app = [seen |-> bus, stored |-> p]
  /\ tool = NoTool /\ plugs = 1 /\ faults = 0
  /\ acts = [part |-> "none", count |-> 0]

-----------------------------------------------------------------------------
(* Windows, the scan and the selection. *)

Plug(p, w, m) ==
  /\ bus[p] = Nothing /\ plugs < MaxPlugs
  /\ \A q \in Attached(bus) : bus[q].wheel # w
  /\ bus' = [bus EXCEPT ![p] = [wheel |-> w, session |-> plugs + 1, mode |-> m]]
  /\ plugs' = plugs + 1
  /\ UNCHANGED <<app, tool, faults, acts>>

Unplug(p) ==
  /\ bus[p] # Nothing /\ bus' = [bus EXCEPT ![p] = Nothing]
  /\ UNCHANGED <<app, tool, plugs, faults, acts>>

(* A switch to the native mode that keeps its container.                       *)
Switch(p) ==
  /\ bus[p] # Nothing /\ bus[p].mode = "compat"
  /\ bus' = [bus EXCEPT ![p].mode = "native"]
  /\ UNCHANGED <<app, tool, plugs, faults, acts>>

Scan ==
  /\ app.seen # bus /\ app' = [app EXCEPT !.seen = bus]
  /\ UNCHANGED <<bus, tool, plugs, faults, acts>>

(* The choice is stored, and a scan begins.                                    *)
Select(p) ==
  /\ tool = NoTool /\ p \in Attached(app.seen) \ {app.stored}
  /\ app' = [seen |-> bus, stored |-> p]
  /\ UNCHANGED <<bus, tool, plugs, faults, acts>>

WorldNext ==
  \/ \E p \in Ports : Switch(p) \/ Select(p)
  \/ \E p \in Ports, w \in Wheels, m \in Modes : Plug(p, w, m)
  \/ Scan

-----------------------------------------------------------------------------
(* What a state s says about its selected wheel. *)

SelectedWheelID(s) == IF s.stored \in Attached(s.seen) THEN s.stored ELSE NoPort
SelectedWheel(s) == s.seen[s.stored]
HasReadableSelectedWheel(s) == SelectedWheelID(s) # NoPort
HasActionableSelectedWheel(s) == HasReadableSelectedWheel(s) /\ SelectedWheel(s).mode # "unknown"

Kind(device) == IF device.mode = "unknown" THEN "C294" ELSE ModelOf[device.wheel]
WheelModel(s) == IF HasReadableSelectedWheel(s) THEN Kind(SelectedWheel(s)) ELSE "none"
IsDFGTModel(s) == WheelModel(s) = "DFGT"

SameFamily(s) == {p \in Attached(s.seen) : Kind(s.seen[p]) = WheelModel(s)}

(* The path of a state leads to whatever native wheel of that model is at the   *)
(* port now.                                                                  *)
PathOpens(s, p) ==
  /\ s.seen[p] # Nothing /\ s.seen[p].mode = "native"
  /\ bus[p] # Nothing /\ bus[p].mode = "native"
  /\ ModelOf[bus[p].wheel] = ModelOf[s.seen[p].wheel]

-----------------------------------------------------------------------------
(* Reading the selected wheel. *)

NoStamp == [id |-> NoPort, session |-> 0, source |-> "none"]

(* joyNameScore: whether a controller that shows its own name, as a native wheel    *)
(* may, can win for a model.                                                   *)
NameFits(p, model) ==
  LET m == ModelOf[bus[p].wheel]
  IN  /\ bus[p].mode = "native"
      /\ IF m = "DFGT" THEN model = "DFGT" ELSE {m, model} # {"G25", "G27"}

(* selectWinMMJoystick: a name that fits, or the only controller there is.       *)
ReadJoystickForModel(model) ==
  {p \in Attached(bus) : NameFits(p, model) \/ Attached(bus) = {p}}

(* The samples a read with s can give, by the context each is stamped with.  A   *)
(* wheel that is not confirmed is read through WinMM alone, without a stamp.      *)
ReadPreferredWheelInput(s) ==
  IF ~HasReadableSelectedWheel(s) THEN {}
  ELSE LET winmm == ReadJoystickForModel(WheelModel(s)) # {}
           stamp(source) == [id |-> s.stored, session |-> SelectedWheel(s).session, source |-> source]
       IN  IF ~HasActionableSelectedWheel(s)
           THEN {t \in {[NoStamp EXCEPT !.source = "winmm"]} : winmm}
           ELSE {t \in {stamp("direct-hid")} : PathOpens(s, s.stored)}
                \cup {t \in {stamp("winmm")} : winmm /\ Cardinality(SameFamily(s)) = 1}

-----------------------------------------------------------------------------
(* The bounds.  The selection and game sessions go with each part of the page.     *)

InPart(part) == OnePart => acts.part \in {"none", part}
MayUse(part) == InPart(part) /\ acts.count < MaxActs
Uses(part) == MayUse(part) /\ acts' = [part |-> part, count |-> acts.count + 1]
Act(part) == tool = NoTool /\ Uses(part)
ActAlone ==
  /\ tool = NoTool /\ acts.count < MaxActs /\ (OnePart => acts.count = 0)
  /\ acts' = [part |-> "learn", count |-> IF OnePart THEN MaxActs ELSE acts.count + 1]
Fault == faults < MaxFaults /\ faults' = faults + 1
NoFault == UNCHANGED faults

=============================================================================
