------------------------------ MODULE Selection ------------------------------
(***************************************************************************)
(* Which wheel LogiMate talks to and which model it takes it for:          *)
(* wheels_windows.go, CollectState, CollectStateFast, resolveWheelModel    *)
(* and reconcileWheelSelection of src/internal/system/system_windows.go,   *)
(* the registry src/internal/wheelengine/manager.go with                   *)
(* wheel_engine_runtime_windows.go, and the handlers of                    *)
(* src/internal/app/app_windows.go and setup_windows.go that start scans   *)
(* and let the user choose, confirm and forget.                            *)
(*                                                                         *)
(* All three wheels power on under the shared PID C294, which does not     *)
(* tell the model; switched to native mode each shows a PID of its own.    *)
(* The stable ID of a wheel is the place it is plugged into, a session is  *)
(* the container Windows groups its nodes by. Scans run in a goroutine,    *)
(* one at a time, in five steps; a handler of the UI thread is one step.   *)
(*                                                                         *)
(* Texts, devices of other models, friendly names under C294, the settling *)
(* of a scan that meets a half-finished switch, and write errors other     *)
(* than that of the selection are left out.                                *)
(***************************************************************************)
EXTENDS Naturals, FiniteSets, Sequences

CONSTANTS Wheels,     \* the physical wheels
          Models,     \* the models with a native PID
          ModelOf,    \* [Wheels -> Models]
          Serial,     \* wheels that report a serial number
          Named,      \* wheels whose product and WinMM names tell the model under C294
          Direct,     \* models that the Direct HID session can keep visible
          Ports,      \* stable IDs
          Upgraded,   \* whether an older release may have stored a selection
          MaxPlugs,   \* bound on containers
          MaxCalls,   \* bound on the user's commands and restarts
          MaxFaults   \* bound on failed or empty scans and failed writes

ASSUME SelectionAssumption ==
  /\ ModelOf \in [Wheels -> Models] /\ "C294" \notin Models /\ "" \notin Models
  /\ Serial \subseteq Wheels /\ Named \subseteq Wheels /\ Direct \subseteq Models
  /\ {"", "direct", "container"} \cap Ports = {} /\ Upgraded \subseteq BOOLEAN
  /\ MaxPlugs \in Nat /\ MaxCalls \in Nat /\ MaxFaults \in Nat

VARIABLES
  plugged,    \* the wheel of each container, in the order they appeared
  bus,        \* [Ports -> what is attached]
  files,      \* the files of the data directory
  ephemeral,  \* confirmations of this process
  joys,       \* the models WinMM named when it was last asked, none when that was long ago
  app,        \* appState
  wizard,     \* setupState
  scan,       \* the goroutine of refreshAsync or refreshFastAsync
  ui,         \* messages and flags of the UI thread
  engine,     \* nativeWheelManager
  calls, faults

vars == <<plugged, bus, files, ephemeral, joys, app, wizard, scan, ui, engine, calls, faults>>

NoSession == 0
DirectSession == MaxPlugs + 1     \* the session of the wheel without a device node
Sessions == 0..DirectSession
IDs == Ports \cup {"direct", "container"}
Stale == {}      \* no names are cached; WinMM's answer can also be empty

\* The container that an older release stored as the selection is the first one.
OldContainer == 1

Empty == [session |-> NoSession, native |-> FALSE]
Attached == {p \in Ports : bus[p].session # NoSession}
PrintOf(w) == IF w \in Serial THEN w ELSE ""

\* A device as a scan finds it, before anything is known but its PID.
Device(p) ==
  LET w == plugged[bus[p].session]
  IN  [id |-> p, session |-> bus[p].session, native |-> bus[p].native, print |-> PrintOf(w), pnp |-> TRUE,
       model |-> IF bus[p].native THEN ModelOf[w] ELSE "C294",
       route |-> IF bus[p].native THEN "native" ELSE "none"]
Devices == {Device(p) : p \in Attached}

\* The wheel that only an open Direct HID handle still shows.
Continuity(m) ==
  [id |-> IF files.selected = "" THEN "direct" ELSE files.selected, session |-> DirectSession,
   native |-> TRUE, print |-> "", pnp |-> FALSE, model |-> m, route |-> "none"]

\* What BuildWheelDevices makes of a device without any preference.
Bare(w) == IF w.native THEN w ELSE [w EXCEPT !.model = "C294", !.route = "none"]

Confirmed(w) == w.route # "none"
Persistable(w) == w.pnp /\ w.id \in Ports

NoRecord == [session |-> NoSession, print |-> "", model |-> ""]
Records == [session : Sessions, print : Serial \cup {""}, model : Models \cup {""}]
Nowhere == [session |-> NoSession, data |-> NoSession]
NoWheels == [wheels |-> {}, selected |-> "", failed |-> FALSE, blind |-> FALSE]
Idle == [at |-> "idle", fast |-> FALSE, wheels |-> {}, failed |-> FALSE, blind |-> FALSE,
         stored |-> "", selected |-> "", save |-> FALSE]

\* One wheel is attached; an older release may have stored its container and its model.
Init ==
  /\ \E w \in Wheels, p \in Ports, old \in Upgraded :
       /\ plugged = <<w>>
       /\ bus = [[q \in Ports |-> Empty] EXCEPT ![p].session = OldContainer]
       /\ files = [selected |-> IF old THEN "container" ELSE "", hint |-> IF old THEN ModelOf[w] ELSE "",
                   confirmed |-> [q \in Ports |-> NoRecord], history |-> [q \in Ports |-> NoRecord]]
  /\ ephemeral = {} /\ joys = Stale
  /\ app = NoWheels /\ wizard = NoWheels /\ scan = Idle
  /\ ui = [busy |-> FALSE, changed |-> FALSE, pending |-> TRUE, request |-> FALSE, ready |-> FALSE]
  /\ engine = [i \in IDs |-> Nowhere]
  /\ calls = 0 /\ faults = 0

-----------------------------------------------------------------------------
(* Windows and the wheels. *)

Hardware == UNCHANGED <<files, ephemeral, joys, app, wizard, scan, engine, calls, faults>>
Broadcast == ui' = [ui EXCEPT !.changed = TRUE]

\* A wheel starts under C294 in a new container. (Windows may give a wheel with a serial number
\* its old one again: a session then still belongs to one wheel.)
Plug(w, p) ==
  /\ p \notin Attached /\ \A q \in Attached : plugged[bus[q].session] # w
  /\ Len(plugged) < MaxPlugs /\ plugged' = Append(plugged, w)
  /\ bus' = [bus EXCEPT ![p].session = Len(plugged) + 1]
  /\ Broadcast /\ Hardware

Unplug(p) ==
  /\ p \in Attached /\ bus' = [bus EXCEPT ![p] = Empty]
  /\ Broadcast /\ Hardware /\ UNCHANGED plugged

\* The switch to the native PID; the container may change with it.
SwitchNative(p) ==
  /\ p \in Attached /\ ~bus[p].native
  /\ \/ bus' = [bus EXCEPT ![p].native = TRUE] /\ UNCHANGED plugged
     \/ /\ Len(plugged) < MaxPlugs /\ plugged' = Append(plugged, plugged[bus[p].session])
        /\ bus' = [bus EXCEPT ![p] = [session |-> Len(plugged) + 1, native |-> TRUE]]
  /\ Broadcast /\ Hardware

-----------------------------------------------------------------------------
(* A scan. *)

Bind(w) == [session |-> w.session, print |-> w.print, model |-> w.model]

\* rememberAuthoritativeNativeIdentities
Remembered(wheels) ==
  [p \in Ports |-> IF \E w \in wheels : w.id = p /\ w.pnp /\ w.native
                   THEN Bind(CHOOSE w \in wheels : w.id = p)
                   ELSE files.history[p]]

\* The model WinMM's names tell: none when they disagree.
Told(names) == IF Cardinality(names) = 1 THEN CHOOSE m \in names : TRUE ELSE ""
NamesNow == {ModelOf[plugged[bus[p].session]] : p \in {q \in Attached :
               plugged[bus[q].session] \in Named}}

\* resolveWheelModel: the model of all devices together, and whether WinMM told it.
Aggregate(wheels, names) ==
  LET natives == {w.model : w \in {v \in wheels : v.native}}
  IN  IF natives # {} THEN [model |-> Told(natives), winmm |-> FALSE]
      ELSE [model |-> Told(names), winmm |-> wheels # {} /\ Told(names) # ""]

\* Mutant: the place alone identifies the wheel.
SamePlace(record, w) == record.session # NoSession
SameSession(record, w) == record.session # NoSession /\ record.session = w.session
SamePrint(record, w) == record.print # "" /\ record.print = w.print

\* trustedWheelDevicePreferences: "" when no confirmation is about this very wheel.
InProcess(w) == {c \in ephemeral : c.id = w.id /\ SameSession(c, w)}
Trusted(w) ==
  IF InProcess(w) # {} THEN (CHOOSE c \in InProcess(w) : TRUE).model
  ELSE IF w.id \in Ports /\ SamePrint(files.confirmed[w.id], w) THEN files.confirmed[w.id].model
  ELSE ""

\* applyLearnedNativeIdentity
Learned(w, history, aggregate) ==
  LET b == history[w.id]
  IN  /\ b.model # ""
      /\ aggregate.winmm => aggregate.model = b.model
      /\ SamePrint(b, w) \/ SameSession(b, w) \/ aggregate.model = b.model

\* What BuildWheelDevicesWithPreferences and the three functions after it make of a device;
\* product is the model in its HID product string.
Identified(w, product, history, aggregate, alone) ==
  LET as(m, r) == [w EXCEPT !.model = m, !.route = r]
  IN  IF w.native \/ ~w.pnp THEN w
      ELSE IF Trusted(w) # "" THEN as(Trusted(w), "manual")
      ELSE IF alone /\ product # "" THEN as(product, "product")
      ELSE IF Learned(w, history, aggregate) THEN as(history[w.id].model, "history")
      ELSE IF alone /\ aggregate.winmm THEN as(aggregate.model, "winmm")
      ELSE w

Quiet == UNCHANGED <<plugged, bus, calls>>
Begin(fast) == scan' = [Idle EXCEPT !.at = "find", !.fast = fast]

\* One discovery. It may fail: a full scan then has nothing, a fast one goes on with the devices
\* of the last state. And at any time Windows may return a short-lived empty enumeration, which
\* the code cannot tell from an empty bus; blind notes it for TransitionSeen.
Find ==
  /\ scan.at = "find"
  /\ \/ scan' = [scan EXCEPT !.at = "identify", !.wheels = Devices, !.fast = FALSE] /\ UNCHANGED faults
     \/ /\ faults < MaxFaults /\ faults' = faults + 1
        /\ scan' = [scan EXCEPT !.at = "identify", !.failed = TRUE,
                                !.wheels = IF scan.fast THEN {Bare(w) : w \in app.wheels} ELSE {}]
     \/ /\ faults < MaxFaults /\ faults' = faults + 1
        /\ \/ scan' = [scan EXCEPT !.at = "identify", !.blind = TRUE]
           \/ \E p \in Attached : LET m == ModelOf[plugged[bus[p].session]] IN
                /\ bus[p].native /\ m \in Direct
                /\ scan' = [scan EXCEPT !.at = "identify", !.blind = TRUE, !.wheels = {Continuity(m)}]
  /\ Quiet /\ UNCHANGED <<files, ephemeral, joys, app, wizard, ui, engine>>

\* Learn native identities, then say of every wheel which model it is.
Identify ==
  /\ scan.at = "identify"
  /\ \E names \in {NamesNow, joys}, readable \in SUBSET Named :
       LET history == Remembered(scan.wheels)
           aggregate == Aggregate(scan.wheels, names)
           alone == Cardinality(scan.wheels) = 1
           product(w) == IF \E v \in readable : v = plugged[w.session] THEN ModelOf[plugged[w.session]]
                         ELSE ""
       IN  /\ joys' = names
           /\ files' = [files EXCEPT !.history = history]
           /\ scan' = [scan EXCEPT !.at = "choose",
                         !.wheels = {Identified(w, IF w.pnp THEN product(w) ELSE "", history,
                                                aggregate, alone) : w \in scan.wheels}]
  /\ Quiet /\ UNCHANGED <<ephemeral, app, wizard, ui, engine, faults>>

\* idMatchesWheel: by its stable ID, or an old selection by its container.
Matches(stored, w) ==
  \/ w.id = stored
  \/ stored = "container" /\ w.pnp /\ w.session = OldContainer

\* An old selection whose container is gone: only a native wheel of the model noted with it.
Repairable(stored, w) == stored = "container" /\ w.native /\ w.id \in Ports /\ files.hint = w.model

\* Mutant: a single wheel is taken whatever is stored.
TargetsAlone(stored, wheels) ==
  IF Cardinality(wheels) = 1 THEN wheels ELSE {w \in wheels : Matches(stored, w)}

\* The rest of reconcileWheelSelection: at most one wheel becomes the target.
Targets(stored, wheels) ==
  LET found == {w \in wheels : Matches(stored, w)}
      alone == Cardinality(wheels) = 1
  IN  IF stored # ""
      THEN IF found # {} THEN found ELSE {w \in wheels : alone /\ Repairable(stored, w)}
      ELSE {w \in wheels : alone}

Choose ==
  /\ scan.at = "choose"
  /\ LET targets == Targets(files.selected, scan.wheels)
         id == IF targets = {} THEN "" ELSE (CHOOSE w \in targets : TRUE).id
     IN  scan' = [scan EXCEPT !.at = "save", !.stored = files.selected,
                    !.selected = id,
                    !.save = /\ id # "" /\ id # files.selected
                             /\ files.selected = "" => \A w \in targets : Persistable(w)]
  /\ Quiet /\ UNCHANGED <<files, ephemeral, joys, app, wizard, ui, engine, faults>>

\* SaveSelectedWheelID; the state keeps the wheel when the file cannot be written.
Save ==
  /\ scan.at = "save"
  /\ scan' = [scan EXCEPT !.at = "publish", !.stored = "", !.save = FALSE]
  /\ \/ files' = (IF scan.save THEN [files EXCEPT !.selected = scan.selected] ELSE files) /\ UNCHANGED faults
     \/ scan.save /\ faults < MaxFaults /\ faults' = faults + 1 /\ UNCHANGED files
  /\ Quiet /\ UNCHANGED <<ephemeral, joys, app, wizard, ui, engine>>

\* Mutant: the data of the former session stays.
ReconciledKeep(wheels) ==
  [i \in IDs |->
    IF \A w \in wheels : w.id # i THEN Nowhere
    ELSE [engine[i] EXCEPT !.session = (CHOOSE v \in wheels : v.id = i).session]]

\* Manager.Reconcile: a wheel that is gone is dropped, a new session starts without old data.
Reconciled(wheels) ==
  [i \in IDs |->
    IF \A w \in wheels : w.id # i THEN Nowhere
    ELSE LET w == CHOOSE v \in wheels : v.id = i
         IN  IF engine[i].session \notin {NoSession, w.session} THEN [Nowhere EXCEPT !.session = w.session]
             ELSE [engine[i] EXCEPT !.session = w.session]]
\* syncNativeWheelManager and the end of the goroutine.
Publish ==
  /\ scan.at = "publish"
  /\ engine' = Reconciled(scan.wheels)
  /\ app' = [wheels |-> scan.wheels, failed |-> scan.failed, blind |-> scan.blind,
             selected |-> IF scan.failed /\ ~scan.fast THEN "" ELSE scan.selected]
  /\ scan' = Idle
  /\ ui' = [ui EXCEPT !.ready = TRUE]
  /\ Quiet /\ UNCHANGED <<files, ephemeral, joys, wizard, faults>>

-----------------------------------------------------------------------------
(* Handlers of the UI thread. *)

Still == UNCHANGED <<plugged, bus, engine, faults>>

\* refreshAsync and refreshFastAsync
StartScan(fast, flags) ==
  IF ui.busy THEN ui' = flags /\ UNCHANGED scan
  ELSE ui' = [flags EXCEPT !.busy = TRUE] /\ Begin(fast)

\* WM_DEVICECHANGE
DeviceChange ==
  /\ ui.changed
  /\ ephemeral' = {} /\ joys' = Stale
  /\ ui' = [ui EXCEPT !.changed = FALSE, !.pending = TRUE]
  /\ Still /\ UNCHANGED <<files, app, wizard, scan, calls>>

\* Mutant: the timer gives up when a scan is running.
OnceOnly == [ui EXCEPT !.pending = FALSE]
StillPending == [ui EXCEPT !.pending = ui.busy]

\* timerDeviceRefresh: while a scan runs the change stays pending.
DeviceTimer ==
  /\ ui.pending /\ StartScan(FALSE, StillPending)
  /\ Still /\ UNCHANGED <<files, ephemeral, joys, app, wizard, calls>>

\* timerRefresh, if the settings ask for it.
AutoRefresh ==
  /\ ~ui.busy /\ StartScan(TRUE, ui)
  /\ Still /\ UNCHANGED <<files, ephemeral, joys, app, wizard, calls>>

\* msgRefreshRequest, dropped while a scan runs.
RefreshRequest ==
  /\ ui.request /\ StartScan(FALSE, [ui EXCEPT !.request = FALSE])
  /\ Still /\ UNCHANGED <<files, ephemeral, joys, app, wizard, calls>>

\* msgStateReady: the setup window gets the new state.
StateReady ==
  /\ ui.ready /\ ui' = [ui EXCEPT !.busy = FALSE, !.ready = FALSE]
  /\ wizard' = app
  /\ Still /\ UNCHANGED <<files, ephemeral, joys, app, scan, calls>>

Command == calls < MaxCalls /\ calls' = calls + 1

\* selectWheel
Select(w) ==
  /\ Persistable(w) /\ files' = [files EXCEPT !.selected = w.id]
  /\ joys' = Stale /\ StartScan(TRUE, ui)
  /\ Still /\ UNCHANGED <<ephemeral, app, wizard>>

\* resetWheelDetection: selection, old preferences and history, not the confirmations.
Reset ==
  /\ files' = [files EXCEPT !.selected = "", !.hint = "", !.history = [p \in Ports |-> NoRecord]]
  /\ joys' = Stale /\ StartScan(FALSE, ui)
  /\ Still /\ UNCHANGED <<ephemeral, app, wizard>>

\* SaveWheelModelConfirmation: for this session, and for good only with a serial number.
KeptConfirmation(c) ==
  IF c.print = "" THEN NoRecord ELSE [session |-> c.session, print |-> c.print, model |-> c.model]

Marked(state, id, m) ==
  IF state.selected # id THEN state
  ELSE [state EXCEPT !.wheels = {IF w.id = id THEN [w EXCEPT !.model = m, !.route = "wizard"] ELSE w
                                   : w \in state.wheels}]

\* applySetupWheelChoice with a model: the user tells the model of the wheel the window shows.
ConfirmModel(w) ==
  LET m == ModelOf[plugged[w.session]]
      c == [id |-> w.id, session |-> w.session, print |-> w.print, model |-> m]
  IN  /\ wizard.selected = w.id /\ ~Confirmed(w) /\ w.pnp
      /\ ephemeral' = {e \in ephemeral : ~(e.id = w.id /\ e.session = w.session)} \cup {c}
      /\ files' = [files EXCEPT !.confirmed[w.id] = KeptConfirmation(c)]
      /\ wizard' = Marked(wizard, w.id, m)
      /\ app' = Marked(app, w.id, m)
      /\ ui' = [ui EXCEPT !.request = TRUE]
      /\ Still /\ UNCHANGED <<joys, scan>>

\* applySetupWheelChoice with "automatic"
ClearModel ==
  /\ wizard.selected \in Ports
  /\ ephemeral' = {e \in ephemeral : e.id # wizard.selected}
  /\ files' = [files EXCEPT !.confirmed[wizard.selected] = NoRecord,
                            !.hint = IF Cardinality(wizard.wheels) <= 1 THEN "" ELSE files.hint]
  /\ ui' = [ui EXCEPT !.request = TRUE]
  /\ Still /\ UNCHANGED <<joys, app, wizard, scan>>

\* The program ends and is started again.
Restart ==
  /\ ephemeral' = {} /\ joys' = Stale
  /\ app' = NoWheels /\ wizard' = NoWheels /\ scan' = Idle
  /\ ui' = [busy |-> FALSE, changed |-> FALSE, pending |-> TRUE, request |-> FALSE, ready |-> FALSE]
  /\ engine' = [i \in IDs |-> Nowhere]
  /\ UNCHANGED <<plugged, bus, files, faults>>

-----------------------------------------------------------------------------
(* Readers and leases report to the registry. *)

\* The wheel is known and the session is its own.
Accepts(i, session) == engine[i].session = session

\* Manager.UpdateInput or Manager.UpdateOutput for the place that is the target: readers and
\* leases go by it, and by the container it had when they began, which may be any there has been.
Update ==
  /\ app.selected # ""
  /\ \E session \in DOMAIN plugged \cup {DirectSession} :
       /\ Accepts(app.selected, session) /\ engine[app.selected].data # session
       /\ engine' = [engine EXCEPT ![app.selected].data = session]
  /\ UNCHANGED <<plugged, bus, files, ephemeral, joys, app, wizard, scan, ui, calls, faults>>

-----------------------------------------------------------------------------

User ==
  /\ Command
  /\ \/ \E w \in app.wheels : Select(w)
     \/ Reset
     \/ \E w \in wizard.wheels : ConfirmModel(w)
     \/ ClearModel
     \/ Restart

Scan == Find \/ Identify \/ Choose \/ Save \/ Publish

Next ==
  \/ \E p \in Ports : Unplug(p) \/ SwitchNative(p) \/ \E w \in Wheels : Plug(w, p)
  \/ Scan
  \/ DeviceChange \/ DeviceTimer \/ AutoRefresh \/ RefreshRequest \/ StateReady
  \/ User
  \/ Update

Spec == Init /\ [][Next]_vars

-----------------------------------------------------------------------------
(* Properties. *)

Found == [id : IDs, session : Sessions, native : BOOLEAN, print : Serial \cup {""}, pnp : BOOLEAN,
          model : Models \cup {"C294"},
          route : {"none", "native", "manual", "product", "history", "winmm", "wizard"}]

\* Types, and that at most one scan runs, its flag held until the state has arrived.
TypeOK ==
  /\ plugged \in Seq(Wheels) /\ bus \in [Ports -> [session : Sessions, native : BOOLEAN]]
  /\ files \in [selected : IDs \cup {""}, hint : Models \cup {""}, confirmed : [Ports -> Records],
                history : [Ports -> Records]]
  /\ \A c \in ephemeral : c.id \in Ports /\ c.session \in Sessions
  /\ \A s \in {app, wizard} : DOMAIN s = {"wheels", "selected", "failed", "blind"} /\ s.wheels \subseteq Found
  /\ engine \in [IDs -> [session : Sessions, data : Sessions]]
  /\ scan.at # "idle" => ui.busy
  /\ ui.ready => ui.busy /\ scan.at = "idle"

\* A model that a confirmation of the user authorizes is that of the wheel itself: no other
\* wheel in its place, after a change of the container, of the process or of both, takes
\* over the confirmation (trustedWheelDevicePreferences: "A different wheel inserted into the
\* same USB port therefore cannot inherit the old model authorization").
ConfirmationBound ==
  \A w \in app.wheels \cup scan.wheels : w.route = "manual" => w.model = ModelOf[plugged[w.session]]

\* The same of a model that was learned from a native PID seen in the place (comment in
\* applyLearnedNativeIdentity: "Stable USB location alone is not a physical identity").
HistoryBound ==
  \A w \in app.wheels \cup scan.wheels : w.route = "history" => w.model = ModelOf[plugged[w.session]]

\* A scan that has read a stable selection leaves it alone: whatever it finds instead of the
\* wheel, only the user chooses another ("LogiMate will never silently jump to another wheel").
SelectionHeld ==
  [][files.selected \in Ports /\ files'.selected # files.selected
       => calls' # calls \/ scan.stored \notin Ports]_vars

\* The registry never shows the input or output of one session as that of another.
EngineBound == \A i \in IDs : engine[i].data \in {NoSession, engine[i].session}

\* "a USB transition can never be lost" (timerDeviceRefresh): with no timed refresh and however
\* scans and changes interleave, once nothing is pending the state shows the wheels that are
\* attached, unless the last scan failed and says so or was given an empty enumeration of a bus
\* that is not empty (comment in CollectState: "a short-lived empty enumeration during an
\* idle/rescan window"), which stays until the next scan.
TransitionSeen ==
  ~(ui.changed \/ ui.pending \/ ui.busy) =>
    app.failed \/ app.blind \/ {w.session : w \in app.wheels} = {bus[p].session : p \in Attached}

=============================================================================
