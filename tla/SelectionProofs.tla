---------------------------- MODULE SelectionProofs ----------------------------
(***************************************************************************)
(* Proofs about the selection, for any wheels, places, commands, failed    *)
(* scans and changes of the bus.                                           *)
(*   - A model that the user has confirmed stays with the wheel it was     *)
(*     confirmed for.                                                      *)
(*   - The registry shows no data of one session as that of another.       *)
(*   - No change of the bus is lost.                                       *)
(*   - A stable selection is changed by the user alone.                    *)
(***************************************************************************)
EXTENDS Selection, FiniteSetTheorems, TLAPS

Shown == [wheels : SUBSET Found, selected : IDs \cup {""}, failed : BOOLEAN,
          blind : BOOLEAN]
Scans == [at : {"idle", "find", "identify", "choose", "save", "publish"}, fast : BOOLEAN,
          wheels : SUBSET Found, failed : BOOLEAN, blind : BOOLEAN, stored : IDs \cup {""},
          selected : IDs \cup {""}, save : BOOLEAN]
Flags == [busy : BOOLEAN, changed : BOOLEAN, pending : BOOLEAN, request : BOOLEAN, ready : BOOLEAN]
Stored == [selected : IDs \cup {""}, hint : Models \cup {""}, confirmed : [Ports -> Records],
           history : [Ports -> Records]]
Confirmations == [id : Ports, session : Sessions, print : Serial \cup {""}, model : Models]

-----------------------------------------------------------------------------
(* The invariant. *)

\* Every container is a session of one wheel, and what is attached has one.
Containers ==
  /\ plugged \in Seq(Wheels) /\ Len(plugged) \in 0..DirectSession
  /\ bus \in [Ports -> [session : 0..Len(plugged), native : BOOLEAN]]

Types ==
  /\ Containers
  /\ files \in Stored /\ ephemeral \in SUBSET Confirmations
  /\ joys \in SUBSET Models
  /\ app \in Shown /\ wizard \in Shown /\ scan \in Scans /\ ui \in Flags
  /\ engine \in [IDs -> [session : Sessions, data : Sessions]]
  /\ calls \in Nat

\* The goroutine holds the flag of the refresh until its message has arrived.
Refreshing ==
  /\ scan.at # "idle" => ui.busy
  /\ ui.ready => ui.busy /\ scan.at = "idle"

\* A wheel with a device node is in a place and shows the serial number of its session.
Sound(w) ==
  /\ w.native => w.model \in Models /\ w.route # "manual"
  /\ w.pnp => /\ w.id \in Ports /\ w.session \in DOMAIN plugged
              /\ w.print = PrintOf(plugged[w.session])
  /\ w.route = "manual" => w.pnp /\ w.model = ModelOf[plugged[w.session]]
Distinct(wheels) == \A v, w \in wheels : v.id = w.id => v = w
Sounding ==
  /\ \A w \in app.wheels \cup wizard.wheels \cup scan.wheels : Sound(w)
  /\ Distinct(app.wheels) /\ Distinct(scan.wheels)

\* A confirmation names the model of the wheel it was given for: that of its session, and if it
\* is kept that of its serial number.
Trustworthy ==
  /\ \A c \in ephemeral : c.session \in DOMAIN plugged /\ c.model = ModelOf[plugged[c.session]]
  /\ \A p \in Ports : LET c == files.confirmed[p] IN
       c.print # "" => c.print \in Serial /\ c.model = ModelOf[c.print]

\* The sessions of these wheels are those that are attached.
Nodes == {bus[p].session : p \in Attached}
Present(wheels) == {w.session : w \in wheels} = Nodes

\* What a scan has found, and what the state shows, is there unless a change is still pending.
Seen ==
  ~ui.changed /\ ~ui.pending =>
    /\ scan.at \notin {"idle", "find"} => scan.failed \/ scan.blind \/ Present(scan.wheels)
    /\ scan.at = "idle" => app.failed \/ app.blind \/ Present(app.wheels)

\* A scan writes no selection over the place that it has read.
Keeping == scan.save => scan.stored \notin Ports

IInv == Types /\ Refreshing /\ Sounding /\ Trustworthy /\ Seen /\ Keeping /\ EngineBound

-----------------------------------------------------------------------------
(* Operators. *)

\* What the constants say of sessions, places and models.
LEMMA Constants0 ==
  /\ MaxPlugs \in Nat /\ DirectSession \in Nat /\ DirectSession \in Sessions
  /\ NoSession \in Sessions /\ NoSession = 0
  /\ {"", "direct", "container"} \cap Ports = {} /\ Ports \subseteq IDs
  /\ "C294" \notin Models /\ "" \notin Models
  /\ \A w \in Wheels : ModelOf[w] \in Models /\ PrintOf(w) \in Serial \cup {""}
<1>1. MaxPlugs \in Nat /\ DirectSession = MaxPlugs + 1 /\ NoSession = 0
  BY SelectionAssumption DEF DirectSession, NoSession
<1>2. DirectSession \in Nat /\ DirectSession \in Sessions /\ NoSession \in Sessions
  BY <1>1 DEF Sessions
<1>3. {"", "direct", "container"} \cap Ports = {} /\ Ports \subseteq IDs
  BY SelectionAssumption DEF IDs
<1>4. \A w \in Wheels : ModelOf[w] \in Models /\ PrintOf(w) \in Serial \cup {""}
  BY SelectionAssumption DEF PrintOf
<1> QED
  BY <1>1, <1>2, <1>3, <1>4, SelectionAssumption

\* Records of a place.
LEMMA NoRecordFits == NoRecord \in Records /\ NoRecord.print = ""
BY Constants0 DEF NoRecord, Records

\* A session is a number in the range of the sessions, and the wheel of a container is one.
LEMMA ContainersFit ==
  ASSUME Containers
  PROVE  /\ DOMAIN plugged = 1..Len(plugged) /\ DOMAIN plugged \subseteq Sessions
         /\ 0..Len(plugged) \subseteq Sessions
         /\ \A s \in DOMAIN plugged : plugged[s] \in Wheels
         /\ \A p \in Attached : p \in Ports /\ bus[p].session \in DOMAIN plugged
<1>1. plugged \in Seq(Wheels) /\ Len(plugged) \in 0..DirectSession /\ DirectSession \in Nat
  BY Constants0 DEF Containers
<1>2. DOMAIN plugged = 1..Len(plugged) /\ \A s \in DOMAIN plugged : plugged[s] \in Wheels
  BY <1>1
<1>3. DOMAIN plugged \subseteq Sessions /\ 0..Len(plugged) \subseteq Sessions
  BY <1>1, <1>2 DEF Sessions
<1>4. ASSUME NEW p \in Attached PROVE p \in Ports /\ bus[p].session \in DOMAIN plugged
  <2>1. p \in Ports /\ bus[p].session # 0 /\ bus[p].session \in 0..Len(plugged)
    BY Constants0 DEF Attached, Containers
  <2> QED
    BY <1>1, <1>2, <2>1
<1> QED
  BY <1>2, <1>3, <1>4

\* A container that is added leaves the others as they are.
LEMMA AppendKeeps ==
  ASSUME Containers, NEW w \in Wheels
  PROVE  /\ Append(plugged, w) \in Seq(Wheels) /\ Len(Append(plugged, w)) = Len(plugged) + 1
         /\ \A s \in DOMAIN plugged : s \in DOMAIN Append(plugged, w) /\ Append(plugged, w)[s] = plugged[s]
BY DEF Containers

\* A device that is found is of its container.
LEMMA DeviceFits ==
  ASSUME Types, NEW p \in Attached
  PROVE  /\ Device(p) \in Found /\ Sound(Device(p))
         /\ Device(p).session = bus[p].session /\ Device(p).id = p
<1> DEFINE s == bus[p].session
<1>1. p \in Ports /\ p \in IDs /\ s \in DOMAIN plugged /\ s \in Sessions /\ plugged[s] \in Wheels
      /\ bus[p].native \in BOOLEAN
  BY ContainersFit, Constants0 DEF Types, Containers
<1>2. ModelOf[plugged[s]] \in Models /\ PrintOf(plugged[s]) \in Serial \cup {""}
  BY <1>1, Constants0
<1>3. /\ Device(p).id = p /\ Device(p).session = s /\ Device(p).native = bus[p].native
      /\ Device(p).print = PrintOf(plugged[s]) /\ Device(p).pnp = TRUE
      /\ Device(p).model = (IF bus[p].native THEN ModelOf[plugged[s]] ELSE "C294")
      /\ Device(p).route = (IF bus[p].native THEN "native" ELSE "none")
  BY DEF Device
<1>4. Device(p) \in Found
  <2> HIDE DEF s
  <2>1. (IF bus[p].native THEN ModelOf[plugged[s]] ELSE "C294") \in Models \cup {"C294"}
    BY <1>2
  <2> QED
    BY <1>1, <1>2, <2>1 DEF Device, Found, s
<1>5. Sound(Device(p))
  BY <1>1, <1>2, <1>3 DEF Sound
<1> QED
  BY <1>3, <1>4, <1>5

\* The wheel that only Direct HID shows has no device node.
LEMMA ContinuityFits ==
  ASSUME Types, NEW m \in Models
  PROVE  Continuity(m) \in Found /\ Sound(Continuity(m))
<1>1. files.selected \in IDs \cup {""} /\ "direct" \in IDs
  BY DEF Types, Stored, IDs
<1>2. (IF files.selected = "" THEN "direct" ELSE files.selected) \in IDs
  BY <1>1
<1> QED
  BY <1>2, Constants0 DEF Continuity, Found, Sound

\* Without preferences a wheel is its PID.
LEMMA BareFits ==
  ASSUME NEW w \in Found, Sound(w)
  PROVE  Bare(w) \in Found /\ Sound(Bare(w)) /\ Bare(w).id = w.id
<1>1. CASE w.native
  BY <1>1 DEF Bare
<1>2. CASE ~w.native
  <2> DEFINE v == [w EXCEPT !.model = "C294", !.route = "none"]
  <2>1. Bare(w) = v
    BY <1>2 DEF Bare
  <2>2. /\ v \in Found /\ v.route = "none" /\ v.id = w.id /\ v.session = w.session
        /\ v.native = w.native /\ v.print = w.print /\ v.pnp = w.pnp
    BY DEF Found
  <2> QED
    BY <1>2, <2>1, <2>2 DEF Sound
<1> QED
  BY <1>1, <1>2

\* What the user tells of a wheel in the window does not make it a confirmed one.
LEMMA MarkedFits ==
  ASSUME NEW state \in Shown, NEW id, NEW m \in Models, \A w \in state.wheels : Sound(w)
  PROVE  /\ Marked(state, id, m) \in Shown
         /\ \A w \in Marked(state, id, m).wheels : Sound(w)
         /\ {w.session : w \in Marked(state, id, m).wheels} = {w.session : w \in state.wheels}
         /\ Distinct(state.wheels) => Distinct(Marked(state, id, m).wheels)
         /\ Marked(state, id, m).failed = state.failed /\ Marked(state, id, m).blind = state.blind
<1>1. CASE state.selected # id
  BY <1>1 DEF Marked
<1>2. CASE state.selected = id
  <2> DEFINE mark(w) == IF w.id = id THEN [w EXCEPT !.model = m, !.route = "wizard"] ELSE w
             marks == {mark(w) : w \in state.wheels}
  <2>1. state.wheels \subseteq Found /\ DOMAIN state = {"wheels", "selected", "failed", "blind"}
    BY DEF Shown
  <2>2. ASSUME NEW w \in state.wheels
        PROVE  mark(w) \in Found /\ mark(w).session = w.session /\ mark(w).id = w.id
               /\ Sound(mark(w))
    <3>1. w \in Found /\ Sound(w)
      BY <2>1
    <3>2. CASE w.id # id
      BY <3>1, <3>2
    <3>3. CASE w.id = id
      <4> DEFINE v == [w EXCEPT !.model = m, !.route = "wizard"]
      <4>1. /\ v \in Found /\ v.model = m /\ v.route = "wizard" /\ v.id = w.id
            /\ v.session = w.session /\ v.native = w.native /\ v.print = w.print /\ v.pnp = w.pnp
        BY <3>1 DEF Found
      <4> QED
        BY <3>1, <3>3, <4>1 DEF Sound
    <3> QED
      BY <3>2, <3>3
  <2>3. Marked(state, id, m) = [state EXCEPT !.wheels = marks]
    BY <1>2 DEF Marked
  <2>4. marks \subseteq Found
    BY <2>2
  <2>5. /\ [state EXCEPT !.wheels = marks] \in Shown
        /\ [state EXCEPT !.wheels = marks].wheels = marks
        /\ [state EXCEPT !.wheels = marks].failed = state.failed
        /\ [state EXCEPT !.wheels = marks].blind = state.blind
    <3> HIDE DEF marks
    <3> QED
      BY <2>1, <2>4 DEF Shown
  <2>6. {v.session : v \in marks} = {w.session : w \in state.wheels}
    <3> HIDE DEF mark
    <3> QED
      BY <2>2
  <2>7. \A v \in marks : Sound(v)
    BY <2>2
  <2>8. Distinct(state.wheels) => Distinct(marks)
    <3> HIDE DEF mark
    <3> QED
      BY <2>2 DEF Distinct
  <2> HIDE DEF marks
  <2> QED
    BY <2>3, <2>5, <2>6, <2>7, <2>8
<1> QED
  BY <1>1, <1>2

\* The one model of several names.
LEMMA ToldFits ==
  ASSUME NEW names \in SUBSET Models
  PROVE  Told(names) \in Models \cup {""}
<1>1. CASE Cardinality(names) = 1
  <2>1. names # {}
    BY <1>1, FS_EmptySet
  <2> QED
    BY <1>1, <2>1 DEF Told
<1>2. CASE Cardinality(names) # 1
  BY <1>2 DEF Told
<1> QED
  BY <1>1, <1>2

\* The aggregate is a model or none, and WinMM tells only a model.
Telling(a) == a.model \in Models \cup {""} /\ (a.winmm => a.model # "")

\* So it is of any wheels.
LEMMA AggregateFits ==
  ASSUME NEW wheels \in SUBSET Found, \A w \in wheels : Sound(w), NEW names \in SUBSET Models
  PROVE  Telling(Aggregate(wheels, names))
<1> DEFINE natives == {w.model : w \in {v \in wheels : v.native}}
<1> SUFFICES ASSUME NEW a, a = Aggregate(wheels, names)
             PROVE  a.model \in Models \cup {""} /\ (a.winmm => a.model # "")
  BY DEF Telling
<1>1. natives \in SUBSET Models
  BY DEF Found, Sound
<1>2. Told(natives) \in Models \cup {""} /\ Told(names) \in Models \cup {""}
  BY <1>1, ToldFits
<1>3. a = IF natives # {} THEN [model |-> Told(natives), winmm |-> FALSE]
          ELSE [model |-> Told(names), winmm |-> wheels # {} /\ Told(names) # ""]
  BY DEF Aggregate
<1> HIDE DEF natives
<1>4. CASE natives # {}
  <2>1. a = [model |-> Told(natives), winmm |-> FALSE]
    BY <1>3, <1>4
  <2>2. a.model = Told(natives)
    BY <2>1
  <2>3. ~a.winmm
    BY <2>1
  <2>4. a.model \in Models \cup {""}
    BY <1>2, <2>2
  <2> QED
    BY <2>3, <2>4
<1>5. CASE natives = {}
  <2> DEFINE told == wheels # {} /\ Told(names) # ""
  <2>1. a = [model |-> Told(names), winmm |-> told]
    BY <1>3, <1>5
  <2>2. told => Told(names) # ""
    OBVIOUS
  <2> HIDE DEF told
  <2>3. a.model = Told(names)
    BY <2>1
  <2>4. a.winmm = told
    BY <2>1
  <2>5. a.model \in Models \cup {""}
    BY <1>2, <2>3
  <2> QED
    BY <2>2, <2>3, <2>4, <2>5
<1> QED
  BY <1>4, <1>5

\* What is remembered of a place is of a wheel that was in it, or older.
LEMMA RememberedFits ==
  ASSUME Types, NEW wheels \in SUBSET Found, \A w \in wheels : Sound(w),
         Distinct(wheels)
  PROVE  Remembered(wheels) \in [Ports -> Records]
<1> SUFFICES ASSUME NEW p \in Ports
             PROVE  (IF \E w \in wheels : w.id = p /\ w.pnp /\ w.native
                     THEN Bind(CHOOSE w \in wheels : w.id = p) ELSE files.history[p]) \in Records
  BY DEF Remembered
<1>1. files.history[p] \in Records
  BY DEF Types, Stored
<1>2. ASSUME \E w \in wheels : w.id = p /\ w.pnp /\ w.native
      PROVE  Bind(CHOOSE w \in wheels : w.id = p) \in Records
  <2>1. PICK w \in wheels : w.id = p /\ w.native
    BY <1>2
  <2>2. (CHOOSE v \in wheels : v.id = p) = w
    BY <2>1 DEF Distinct
  <2>3. w \in Found /\ w.model \in Models
    BY <2>1 DEF Sound
  <2>4. w.session \in Sessions /\ w.print \in Serial \cup {""}
    BY <2>3 DEF Found
  <2> QED
    BY <2>2, <2>3, <2>4 DEF Bind, Records
<1> QED
  BY <1>1, <1>2

\* A model that is trusted is that of the very wheel.
LEMMA TrustedFits ==
  ASSUME Types, Trustworthy, NEW w \in Found, Sound(w), w.pnp
  PROVE  /\ Trusted(w) \in Models \cup {""}
         /\ Trusted(w) # "" => Trusted(w) = ModelOf[plugged[w.session]]
<1>1. w.id \in Ports /\ w.session \in DOMAIN plugged /\ w.print = PrintOf(plugged[w.session])
  BY DEF Sound
<1>2. CASE InProcess(w) # {}
  <2> DEFINE c == CHOOSE d \in InProcess(w) : TRUE
  <2>1. c \in ephemeral /\ c.session = w.session
    BY <1>2 DEF InProcess, SameSession
  <2>2. Trusted(w) = c.model
    BY <1>2 DEF Trusted
  <2> HIDE DEF c
  <2>3. c.model \in Models /\ c.model = ModelOf[plugged[c.session]]
    BY <2>1 DEF Types, Confirmations, Trustworthy
  <2> QED
    BY <2>1, <2>2, <2>3
<1>3. CASE InProcess(w) = {} /\ SamePrint(files.confirmed[w.id], w)
  <2> DEFINE c == files.confirmed[w.id]
  <2>1. Trusted(w) = c.model
    BY <1>1, <1>3 DEF Trusted
  <2>2. c.print # "" /\ c.print = w.print
    BY <1>3 DEF SamePrint
  <2>3. c.print \in Serial /\ c.model = ModelOf[c.print]
    BY <1>1, <2>2 DEF Trustworthy
  <2>4. plugged[w.session] = w.print
    BY <1>1, <2>2 DEF PrintOf
  <2>5. c \in Records
    BY <1>1 DEF Types, Stored
  <2>6. c.model \in Models \cup {""}
    BY <2>5 DEF Records
  <2> QED
    BY <2>1, <2>2, <2>3, <2>4, <2>6
<1>4. CASE InProcess(w) = {} /\ ~SamePrint(files.confirmed[w.id], w)
  BY <1>4 DEF Trusted
<1> QED
  BY <1>2, <1>3, <1>4

\* A wheel that is given a model, and whence it is known.
Given(w, m, r) == [w EXCEPT !.model = m, !.route = r]

\* It is the same wheel.
LEMMA GivenFits ==
  ASSUME NEW w \in Found, Sound(w), w.pnp, ~w.native, NEW m \in Models,
         NEW r \in {"manual", "product", "history", "winmm"},
         r = "manual" => m = ModelOf[plugged[w.session]]
  PROVE  /\ Given(w, m, r) \in Found /\ Sound(Given(w, m, r))
         /\ Given(w, m, r).id = w.id /\ Given(w, m, r).session = w.session
<1> SUFFICES ASSUME NEW v, v = Given(w, m, r)
             PROVE  v \in Found /\ Sound(v) /\ v.id = w.id /\ v.session = w.session
  OBVIOUS
<1>1. /\ v \in Found /\ v.model = m /\ v.route = r /\ v.id = w.id /\ v.session = w.session
      /\ v.native = w.native /\ v.print = w.print /\ v.pnp = w.pnp
  BY DEF Found, Given
<1> QED
  BY <1>1 DEF Sound

\* Only a wheel of the scan becomes the target, and the stored one if it is a place.
LEMMA TargetsFit ==
  ASSUME NEW stored, NEW wheels
  PROVE  /\ Targets(stored, wheels) \subseteq wheels
         /\ stored \in Ports => \A w \in Targets(stored, wheels) : w.id = stored
<1>1. Targets(stored, wheels) \subseteq wheels
  BY DEF Targets
<1>2. ASSUME stored \in Ports, NEW w \in Targets(stored, wheels) PROVE w.id = stored
  <2>1. stored # "container" /\ stored # ""
    BY <1>2, Constants0
  <2> QED
    BY <1>2, <2>1 DEF Targets, Matches, Repairable
<1> QED
  BY <1>1, <1>2

-----------------------------------------------------------------------------
(* What stays. *)

\* The containers there were stay what they are.
Sequel == /\ Len(plugged) \in Nat /\ DOMAIN plugged = 1..Len(plugged)
          /\ \A s \in DOMAIN plugged : s \in DOMAIN plugged' /\ plugged'[s] = plugged[s]

\* So does what is known of a wheel.
LEMMA SoundStays ==
  ASSUME Sequel, NEW w, Sound(w)
  PROVE  Sound(w)'
<1>1. w.pnp => /\ w.session \in DOMAIN plugged' /\ plugged'[w.session] = plugged[w.session]
               /\ w.id \in Ports /\ w.print = PrintOf(plugged[w.session])
  BY DEF Sound, Sequel
<1>2. w.native => w.model \in Models /\ w.route # "manual"
  BY DEF Sound
<1>3. w.route = "manual" => w.pnp /\ w.model = ModelOf[plugged'[w.session]]
  BY <1>1 DEF Sound
<1> QED
  BY <1>1, <1>2, <1>3 DEF Sound

\* And of a confirmation.
LEMMA TrustStays ==
  ASSUME Types, Trustworthy, Sequel, ephemeral' \subseteq ephemeral,
         files'.confirmed = files.confirmed
  PROVE  Trustworthy'
<1>1. ASSUME NEW c \in ephemeral'
      PROVE  c.session \in DOMAIN plugged' /\ c.model = ModelOf[plugged'[c.session]]
  BY <1>1 DEF Trustworthy, Sequel
<1>2. ASSUME NEW p \in Ports, files'.confirmed[p].print # ""
      PROVE  /\ files'.confirmed[p].print \in Serial
             /\ files'.confirmed[p].model = ModelOf[files'.confirmed[p].print]
  BY <1>2 DEF Trustworthy
<1> QED
  BY <1>1, <1>2 DEF Trustworthy

\* Where the bus does not change, everything is attached as before.
LEMMA BusStays ==
  ASSUME Types, UNCHANGED <<plugged, bus>>
  PROVE  /\ Containers' /\ Sequel /\ Nodes' = Nodes
         /\ DirectSession \in Nat
<1>1. plugged \in Seq(Wheels)
  BY DEF Types, Containers
<1>2. Sequel
  BY <1>1 DEF Sequel
<1> QED
  BY <1>2, Constants0 DEF Types, Containers, Nodes, Attached

\* A step of the hardware announces itself.
LEMMA HardwareKeeps ==
  ASSUME IInv, Hardware, Broadcast, plugged' \in Seq(Wheels), Len(plugged') \in 0..DirectSession,
         Sequel, bus' \in [Ports -> [session : 0..Len(plugged'), native : BOOLEAN]]
  PROVE  IInv'
<1>0. /\ UNCHANGED <<files, ephemeral, joys, app, wizard, scan, engine, calls>>
      /\ ui' = [ui EXCEPT !.changed = TRUE] /\ ui \in Flags
  BY DEF Hardware, Broadcast, IInv, Types
<1>1. ui' \in Flags /\ ui'.changed /\ ui'.busy = ui.busy /\ ui'.ready = ui.ready
  BY <1>0 DEF Flags
<1>2. Types'
  <2>1. Containers'
    BY DEF Containers
  <2> QED
    BY <1>0, <1>1, <2>1 DEF IInv, Types
<1>3. Refreshing'
  BY <1>0, <1>1 DEF IInv, Refreshing
<1>4. Sounding'
  BY <1>0, SoundStays DEF IInv, Sounding, Distinct
<1>5. Trustworthy'
  BY <1>0, TrustStays DEF IInv
<1>6. Seen' /\ Keeping' /\ EngineBound'
  BY <1>0, <1>1 DEF IInv, Seen, Keeping, EngineBound
<1> QED
  BY <1>2, <1>3, <1>4, <1>5, <1>6 DEF IInv

\* A wheel is plugged in.
LEMMA PlugKeeps ==
  ASSUME IInv, NEW w \in Wheels, NEW p \in Ports, Plug(w, p)
  PROVE  IInv'
<1>1. Containers /\ MaxPlugs \in Nat /\ DirectSession = MaxPlugs + 1
  BY Constants0, SelectionAssumption DEF IInv, Types, DirectSession
<1>2. /\ plugged' = Append(plugged, w) /\ Len(plugged) < MaxPlugs
      /\ bus' = [bus EXCEPT ![p].session = Len(plugged) + 1] /\ Broadcast /\ Hardware
  BY DEF Plug
<1>3. plugged \in Seq(Wheels) /\ Len(plugged) \in Nat /\ DOMAIN plugged = 1..Len(plugged)
  BY <1>1 DEF Containers
<1>4. Sequel /\ plugged' \in Seq(Wheels) /\ Len(plugged') = Len(plugged) + 1
  BY <1>1, <1>2, <1>3, AppendKeeps DEF Sequel
<1>5. bus' \in [Ports -> [session : 0..Len(plugged'), native : BOOLEAN]]
  <2>1. bus \in [Ports -> [session : 0..Len(plugged), native : BOOLEAN]]
    BY <1>1 DEF Containers
  <2>2. 0..Len(plugged) \subseteq 0..Len(plugged') /\ Len(plugged) + 1 \in 0..Len(plugged')
    BY <1>3, <1>4
  <2> QED
    BY <1>2, <2>1, <2>2
<1>6. Len(plugged') \in 0..DirectSession
  BY <1>1, <1>2, <1>3, <1>4
<1> QED
  BY <1>2, <1>4, <1>5, <1>6, HardwareKeeps

\* A wheel is pulled out.
LEMMA UnplugKeeps ==
  ASSUME IInv, NEW p \in Ports, Unplug(p)
  PROVE  IInv'
<1>1. Containers /\ bus' = [bus EXCEPT ![p] = Empty] /\ UNCHANGED plugged /\ Broadcast /\ Hardware
  BY DEF Unplug, IInv, Types
<1>2. plugged \in Seq(Wheels) /\ Len(plugged) \in Nat /\ 0 \in 0..Len(plugged)
  BY <1>1 DEF Containers
<1>3. Empty \in [session : 0..Len(plugged), native : BOOLEAN]
  BY <1>2, Constants0 DEF Empty
<1>4. bus' \in [Ports -> [session : 0..Len(plugged'), native : BOOLEAN]]
  BY <1>1, <1>3 DEF Containers
<1>5. Sequel
  BY <1>1, <1>2 DEF Sequel
<1> QED
  BY <1>1, <1>4, <1>5, HardwareKeeps DEF Containers

\* A wheel switches to its native PID.
LEMMA SwitchKeeps ==
  ASSUME IInv, NEW p \in Ports, SwitchNative(p)
  PROVE  IInv'
<1>1. Containers /\ MaxPlugs \in Nat /\ DirectSession = MaxPlugs + 1 /\ Broadcast /\ Hardware
  BY Constants0, SelectionAssumption DEF IInv, Types, DirectSession, SwitchNative
<1>2. /\ plugged \in Seq(Wheels) /\ Len(plugged) \in Nat /\ DOMAIN plugged = 1..Len(plugged)
      /\ bus \in [Ports -> [session : 0..Len(plugged), native : BOOLEAN]]
  BY <1>1 DEF Containers
<1>3. CASE bus' = [bus EXCEPT ![p].native = TRUE] /\ UNCHANGED plugged
  <2>1. bus' \in [Ports -> [session : 0..Len(plugged'), native : BOOLEAN]]
    BY <1>2, <1>3
  <2>2. Sequel
    BY <1>2, <1>3 DEF Sequel
  <2> QED
    BY <1>1, <1>3, <2>1, <2>2, HardwareKeeps DEF Containers
<1>4. CASE /\ Len(plugged) < MaxPlugs /\ plugged' = Append(plugged, plugged[bus[p].session])
           /\ bus' = [bus EXCEPT ![p] = [session |-> Len(plugged) + 1, native |-> TRUE]]
           /\ p \in Attached
  <2>1. plugged[bus[p].session] \in Wheels
    BY <1>1, <1>4, ContainersFit
  <2>2. Sequel /\ plugged' \in Seq(Wheels) /\ Len(plugged') = Len(plugged) + 1
    BY <1>1, <1>2, <1>4, <2>1, AppendKeeps DEF Sequel
  <2>3. bus' \in [Ports -> [session : 0..Len(plugged'), native : BOOLEAN]]
    <3>1. 0..Len(plugged) \subseteq 0..Len(plugged') /\ Len(plugged) + 1 \in 0..Len(plugged')
      BY <1>2, <2>2
    <3> QED
      BY <1>2, <1>4, <3>1
  <2>4. Len(plugged') \in 0..DirectSession
    BY <1>1, <1>2, <1>4, <2>2
  <2> QED
    BY <1>1, <2>2, <2>3, <2>4, HardwareKeeps
<1> QED
  BY <1>3, <1>4 DEF SwitchNative

-----------------------------------------------------------------------------
(* The scan. *)

\* A discovery: what is attached, the wheels of the state, nothing, or what Direct HID shows.
LEMMA FindKeeps ==
  ASSUME IInv, Find
  PROVE  IInv'
<1>0. /\ UNCHANGED <<plugged, bus, calls, files, ephemeral, joys, app, wizard, ui, engine>>
      /\ scan.at = "find" /\ scan \in Scans /\ app \in Shown /\ Types
  BY DEF IInv, Types, Find, Quiet
<1>1. Containers' /\ Sequel /\ Nodes' = Nodes
  BY <1>0, BusStays
<1>2. ASSUME NEW wheels \in SUBSET Found, NEW failed \in BOOLEAN, NEW fast \in BOOLEAN,
             NEW blind \in BOOLEAN,
             scan' = [scan EXCEPT !.at = "identify", !.wheels = wheels, !.failed = failed, !.fast = fast,
                                  !.blind = blind],
             \A w \in wheels : Sound(w), Distinct(wheels),
             failed \/ blind \/ Present(wheels)
      PROVE  IInv'
  <2>1. /\ scan' \in Scans /\ scan'.at = "identify" /\ scan'.wheels = wheels /\ scan'.failed = failed
        /\ scan'.blind = blind /\ scan'.save = scan.save /\ scan'.stored = scan.stored
    BY <1>0, <1>2 DEF Scans
  <2>2. Types'
    BY <1>0, <1>1, <2>1 DEF Types
  <2>3. Refreshing'
    BY <1>0, <2>1 DEF IInv, Refreshing
  <2>4. Sounding'
    BY <1>0, <1>1, <1>2, <2>1, SoundStays DEF IInv, Sounding, Distinct
  <2>5. Trustworthy'
    BY <1>0, <1>1, TrustStays DEF IInv
  <2>6. Seen'
    BY <1>0, <1>1, <1>2, <2>1 DEF IInv, Seen, Present
  <2>7. Keeping' /\ EngineBound'
    BY <1>0, <2>1 DEF IInv, Keeping, EngineBound
  <2> QED
    BY <2>2, <2>3, <2>4, <2>5, <2>6, <2>7 DEF IInv
<1>3. scan.wheels \in SUBSET Found /\ scan.failed \in BOOLEAN /\ scan.fast \in BOOLEAN
      /\ scan.blind \in BOOLEAN /\ app.wheels \in SUBSET Found
      /\ \A w \in app.wheels \cup scan.wheels : Sound(w)
      /\ Distinct(app.wheels) /\ Distinct(scan.wheels)
  BY <1>0 DEF Scans, Shown, IInv, Sounding
<1>4. CASE scan' = [scan EXCEPT !.at = "identify", !.wheels = Devices, !.fast = FALSE]
  <2>1. Devices \in SUBSET Found /\ \A w \in Devices : Sound(w)
    BY <1>0, DeviceFits DEF Devices
  <2>2. Distinct(Devices)
    BY <1>0, DeviceFits DEF Devices, Distinct
  <2>3. Present(Devices)
    BY <1>0, DeviceFits DEF Devices, Present, Nodes
  <2>4. scan' = [scan EXCEPT !.at = "identify", !.wheels = Devices, !.failed = scan.failed, !.fast = FALSE,
                            !.blind = scan.blind]
    BY <1>0, <1>4 DEF Scans
  <2> HIDE DEF Devices
  <2> QED
    BY <1>2, <1>3, <2>1, <2>2, <2>3, <2>4
<1>5. CASE scan' = [scan EXCEPT !.at = "identify", !.failed = TRUE,
                                !.wheels = IF scan.fast THEN {Bare(w) : w \in app.wheels} ELSE {}]
  <2> DEFINE bares == {Bare(w) : w \in app.wheels}
             wheels == IF scan.fast THEN bares ELSE {}
  <2>1. \A w \in app.wheels : Bare(w) \in Found /\ Sound(Bare(w)) /\ Bare(w).id = w.id
    BY <1>3, BareFits
  <2>2. bares \in SUBSET Found /\ (\A w \in bares : Sound(w)) /\ Distinct(bares)
    BY <1>3, <2>1 DEF Distinct
  <2>3. wheels \in SUBSET Found /\ (\A w \in wheels : Sound(w)) /\ Distinct(wheels)
    <3> HIDE DEF bares
    <3> QED
      BY <2>2 DEF Distinct
  <2>4. scan' = [scan EXCEPT !.at = "identify", !.wheels = wheels, !.failed = TRUE, !.fast = scan.fast,
                            !.blind = scan.blind]
    <3>1. scan' = [scan EXCEPT !.at = "identify", !.failed = TRUE, !.wheels = wheels]
      BY <1>5
    <3> HIDE DEF wheels
    <3> QED
      BY <1>0, <3>1 DEF Scans
  <2> HIDE DEF wheels
  <2> QED
    BY <1>2, <1>3, <2>3, <2>4
<1>6. CASE scan' = [scan EXCEPT !.at = "identify", !.blind = TRUE]
  <2>1. PICK wheels \in SUBSET Found, failed \in BOOLEAN, fast \in BOOLEAN :
               wheels = scan.wheels /\ failed = scan.failed /\ fast = scan.fast
    BY <1>3
  <2>2. scan' = [scan EXCEPT !.at = "identify", !.wheels = wheels, !.failed = failed, !.fast = fast, !.blind = TRUE]
    BY <1>0, <1>6, <2>1 DEF Scans
  <2>3. \A w \in wheels : Sound(w)
    BY <1>3, <2>1
  <2>4. Distinct(wheels)
    BY <1>3, <2>1 DEF Distinct
  <2> QED
    BY <1>2, <1>6, <2>2, <2>3, <2>4
<1>7. ASSUME NEW p \in Attached, ModelOf[plugged[bus[p].session]] \in Direct,
             scan' = [scan EXCEPT !.at = "identify", !.blind = TRUE,
                                  !.wheels = {Continuity(ModelOf[plugged[bus[p].session]])}]
      PROVE  IInv'
  <2> DEFINE v == Continuity(ModelOf[plugged[bus[p].session]])
  <2>1. ModelOf[plugged[bus[p].session]] \in Models
    BY <1>7, SelectionAssumption
  <2>2. v \in Found /\ Sound(v)
    BY <1>0, <2>1, ContinuityFits
  <2> HIDE DEF v
  <2>3. {v} \in SUBSET Found /\ (\A w \in {v} : Sound(w)) /\ Distinct({v})
    BY <2>2 DEF Distinct
  <2>4. scan' = [scan EXCEPT !.at = "identify", !.wheels = {v}, !.failed = scan.failed, !.fast = scan.fast,
                            !.blind = TRUE]
    BY <1>0, <1>7 DEF Scans, v
  <2> QED
    BY <1>2, <1>3, <1>7, <2>3, <2>4
<1> QED
  BY <1>4, <1>5, <1>6, <1>7 DEF Find

\* Wheels are told their models.
LEMMA IdentifyKeeps ==
  ASSUME IInv, Identify
  PROVE  IInv'
<1>0. /\ UNCHANGED <<plugged, bus, calls, ephemeral, app, wizard, ui, engine>>
      /\ scan.at = "identify" /\ scan \in Scans /\ app \in Shown /\ Types /\ files \in Stored
      /\ Trustworthy
  BY DEF IInv, Types, Identify, Quiet
<1>1. Containers' /\ Sequel /\ Nodes' = Nodes
  BY <1>0, BusStays
<1>2. /\ scan.wheels \in SUBSET Found /\ \A w \in scan.wheels : Sound(w)
      /\ Distinct(scan.wheels)
  BY <1>0 DEF Scans, IInv, Sounding
<1> DEFINE product(w, readable) ==
             IF \E v \in readable : v = plugged[w.session] THEN ModelOf[plugged[w.session]] ELSE ""
           alone == Cardinality(scan.wheels) = 1
           history == Remembered(scan.wheels)
           tell(w, names, readable) ==
             Identified(w, IF w.pnp THEN product(w, readable) ELSE "", history,
                        Aggregate(scan.wheels, names), alone)
<1>3. PICK names \in {NamesNow, joys}, readable \in SUBSET Named :
        /\ joys' = names /\ files' = [files EXCEPT !.history = history]
        /\ scan' = [scan EXCEPT !.at = "choose",
                      !.wheels = {tell(w, names, readable) : w \in scan.wheels}]
  BY DEF Identify
<1>4. names \in SUBSET Models
  <2>1. NamesNow \in SUBSET Models
    BY <1>0, ContainersFit, Constants0 DEF NamesNow, Types
  <2> QED
    BY <1>0, <2>1 DEF Types
<1>5. history \in [Ports -> Records]
  BY <1>0, <1>2, RememberedFits
<1>6. ASSUME NEW w \in scan.wheels
      PROVE  \A v : v = tell(w, names, readable) =>
             v \in Found /\ Sound(v) /\ v.id = w.id /\ v.session = w.session
  <2>1. w \in Found /\ Sound(w)
    BY <1>2
  <2>2. (IF w.pnp THEN product(w, readable) ELSE "") \in Models \cup {""}
    <3>1. w.pnp => ModelOf[plugged[w.session]] \in Models
      BY <1>0, <2>1, ContainersFit, Constants0 DEF Sound, Types
    <3> QED
      BY <3>1
  <2>3. Telling(Aggregate(scan.wheels, names))
    BY <1>2, <1>4, AggregateFits
  <2> DEFINE made == IF w.pnp THEN product(w, readable) ELSE ""
             aggregate == Aggregate(scan.wheels, names)
  <2>4. made \in Models \cup {""} /\ Telling(aggregate)
    BY <2>2, <2>3
  <2> HIDE DEF tell, product, history, alone, made, aggregate
  <2> SUFFICES ASSUME NEW v, v = Identified(w, made, history, aggregate, alone)
               PROVE  v \in Found /\ Sound(v) /\ v.id = w.id /\ v.session = w.session
    BY DEF tell, made, aggregate
  <2>5. \/ v = w
        \/ /\ w.pnp /\ ~w.native
           /\ \/ Trusted(w) # "" /\ v = Given(w, Trusted(w), "manual")
              \/ made # "" /\ v = Given(w, made, "product")
              \/ /\ Learned(w, history, aggregate)
                 /\ v = Given(w, history[w.id].model, "history")
              \/ aggregate.winmm /\ v = Given(w, aggregate.model, "winmm")
    BY DEF Identified, Given
  <2>6. CASE v = w
    BY <2>1, <2>6
  <2>7. CASE w.pnp /\ ~w.native /\ Trusted(w) # "" /\ v = Given(w, Trusted(w), "manual")
    <3>1. PICK m \in Models : m = Trusted(w) /\ m = ModelOf[plugged[w.session]]
      BY <1>0, <2>1, <2>7, TrustedFits
    <3>2. w.pnp /\ ~w.native /\ v = Given(w, m, "manual")
      BY <2>7, <3>1
    <3> QED
      BY <2>1, <3>1, <3>2, GivenFits
  <2>8. CASE w.pnp /\ ~w.native /\ made # "" /\ v = Given(w, made, "product")
    <3>1. made \in Models
      BY <2>4, <2>8
    <3>2. w.pnp /\ ~w.native /\ v = Given(w, made, "product")
      BY <2>8
    <3> QED
      BY <2>1, <3>1, <3>2, GivenFits
  <2>9. CASE /\ w.pnp /\ ~w.native /\ Learned(w, history, aggregate)
             /\ v = Given(w, history[w.id].model, "history")
    <3>1. w.id \in Ports /\ history[w.id].model # ""
      BY <2>1, <2>9 DEF Sound, Learned
    <3>2. history[w.id].model \in Models
      BY <1>5, <3>1 DEF Records
    <3> QED
      BY <2>1, <2>9, <3>2, GivenFits
  <2>10. CASE /\ w.pnp /\ ~w.native /\ aggregate.winmm
              /\ v = Given(w, aggregate.model, "winmm")
    <3>1. aggregate.model \in Models
      BY <2>4, <2>10 DEF Telling
    <3> QED
      BY <2>1, <2>10, <3>1, GivenFits
  <2> QED
    BY <2>5, <2>6, <2>7, <2>8, <2>9, <2>10
<1> DEFINE told == {tell(w, names, readable) : w \in scan.wheels}
<1> HIDE DEF tell, history
<1>7. told \in SUBSET Found /\ (\A w \in told : Sound(w)) /\ Distinct(told)
  BY <1>2, <1>6 DEF Distinct
<1>8. {w.session : w \in told} = {w.session : w \in scan.wheels}
  BY <1>6
<1>9. scan' = [scan EXCEPT !.at = "choose", !.wheels = told]
  BY <1>3
<1> HIDE DEF told
<1>10. /\ scan' \in Scans /\ scan'.at = "choose" /\ scan'.wheels = told /\ scan'.failed = scan.failed
       /\ scan'.blind = scan.blind
       /\ scan'.save = scan.save /\ scan'.stored = scan.stored
  BY <1>0, <1>7, <1>9 DEF Scans
<1>11. files' \in Stored /\ files'.confirmed = files.confirmed
  BY <1>0, <1>3, <1>5 DEF Stored
<1>12. Types'
  BY <1>0, <1>1, <1>3, <1>4, <1>10, <1>11 DEF Types
<1>13. Refreshing'
  BY <1>0, <1>10 DEF IInv, Refreshing
<1>14. Sounding'
  BY <1>0, <1>1, <1>7, <1>10, SoundStays DEF IInv, Sounding, Distinct
<1>15. Trustworthy'
  BY <1>0, <1>1, <1>11, TrustStays
<1>16. Seen'
  BY <1>0, <1>1, <1>8, <1>10 DEF IInv, Seen, Present
<1>17. Keeping' /\ EngineBound'
  BY <1>0, <1>10 DEF IInv, Keeping, EngineBound
<1> QED
  BY <1>12, <1>13, <1>14, <1>15, <1>16, <1>17 DEF IInv

\* A step of the scan that keeps its wheels.
LEMMA ScanKeeps ==
  ASSUME IInv, UNCHANGED <<plugged, bus, calls, ephemeral, joys, app, wizard, ui, engine>>,
         files' \in Stored, files'.confirmed = files.confirmed,
         scan' \in Scans, scan.at \in {"choose", "save"}, scan'.at \in {"save", "publish"},
         scan'.wheels = scan.wheels, scan'.failed = scan.failed, scan'.blind = scan.blind,
         scan'.save => scan'.stored \notin Ports
  PROVE  IInv'
<1>1. Containers' /\ Sequel /\ Nodes' = Nodes /\ Types
  BY BusStays DEF IInv
<1>2. Types'
  BY <1>1 DEF Types
<1>3. Refreshing'
  BY DEF IInv, Refreshing
<1>4. Sounding'
  BY <1>1, SoundStays DEF IInv, Sounding, Distinct
<1>5. Trustworthy'
  BY <1>1, TrustStays DEF IInv
<1>6. Seen'
  BY <1>1 DEF IInv, Seen, Present
<1>7. Keeping' /\ EngineBound'
  BY DEF IInv, Keeping, EngineBound
<1> QED
  BY <1>2, <1>3, <1>4, <1>5, <1>6, <1>7 DEF IInv

\* A target is chosen; the selection that is to be written is none that was read.
LEMMA ChooseKeeps ==
  ASSUME IInv, Choose
  PROVE  IInv'
<1>0. /\ scan \in Scans /\ files \in Stored /\ files.selected \in IDs \cup {""}
      /\ scan.at = "choose" /\ UNCHANGED files
      /\ UNCHANGED <<plugged, bus, calls, ephemeral, joys, app, wizard, ui, engine>>
  BY DEF IInv, Types, Choose, Quiet, Stored
<1> DEFINE targets == Targets(files.selected, scan.wheels)
           id == IF targets = {} THEN "" ELSE (CHOOSE w \in targets : TRUE).id
           save == /\ id # "" /\ id # files.selected
                   /\ files.selected = "" => \A w \in targets : Persistable(w)
<1>1. scan' = [scan EXCEPT !.at = "save", !.stored = files.selected, !.selected = id, !.save = save]
  BY DEF Choose
<1>2. targets \subseteq scan.wheels /\ scan.wheels \subseteq Found
      /\ (files.selected \in Ports => \A w \in targets : w.id = files.selected)
  BY <1>0, TargetsFit DEF Scans
<1>3. id \in IDs \cup {""} /\ (files.selected \in Ports => id \in {"", files.selected})
  <2> HIDE DEF targets
  <2>1. CASE targets = {}
    BY <2>1
  <2>2. CASE targets # {}
    <3>1. (CHOOSE w \in targets : TRUE) \in targets
      BY <2>2
    <3> QED
      BY <1>2, <2>2, <3>1 DEF Found
  <2> QED
    BY <2>1, <2>2
<1>4. save \in BOOLEAN /\ (save => files.selected \notin Ports)
  BY <1>3
<1> HIDE DEF id, save
<1>5. /\ scan' \in Scans /\ scan'.at = "save" /\ scan'.wheels = scan.wheels
      /\ scan'.failed = scan.failed /\ scan'.blind = scan.blind /\ scan'.save = save /\ scan'.stored = files.selected
  BY <1>0, <1>1, <1>3, <1>4 DEF Scans
<1> QED
  BY <1>0, <1>4, <1>5, ScanKeeps

\* The selection is written, or cannot be.
LEMMA SaveKeeps ==
  ASSUME IInv, Save
  PROVE  IInv'
<1>0. /\ scan \in Scans /\ files \in Stored /\ scan.at = "save"
      /\ scan' = [scan EXCEPT !.at = "publish", !.stored = "", !.save = FALSE]
      /\ UNCHANGED <<plugged, bus, calls, ephemeral, joys, app, wizard, ui, engine>>
  BY DEF IInv, Types, Save, Quiet
<1>1. /\ scan' \in Scans /\ scan'.at = "publish" /\ scan'.wheels = scan.wheels
      /\ scan'.failed = scan.failed /\ scan'.blind = scan.blind /\ ~scan'.save
  BY <1>0 DEF Scans
<1>2. files' = files \/ files' = [files EXCEPT !.selected = scan.selected]
  BY DEF Save
<1>3. scan.selected \in IDs \cup {""}
  BY <1>0 DEF Scans
<1>4. files' \in Stored /\ files'.confirmed = files.confirmed
  BY <1>0, <1>2, <1>3 DEF Stored
<1> QED
  BY <1>0, <1>1, <1>4, ScanKeeps

\* The registry drops what is gone, and a new session starts without data.
LEMMA ReconciledFits ==
  ASSUME Types, EngineBound, NEW wheels \in SUBSET Found
  PROVE  /\ Reconciled(wheels) \in [IDs -> [session : Sessions, data : Sessions]]
         /\ \A i \in IDs : Reconciled(wheels)[i].data \in {NoSession, Reconciled(wheels)[i].session}
<1> SUFFICES ASSUME NEW i \in IDs
             PROVE  /\ Reconciled(wheels)[i] \in [session : Sessions, data : Sessions]
                    /\ Reconciled(wheels)[i].data \in {NoSession, Reconciled(wheels)[i].session}
  BY DEF Reconciled
<1>0. /\ engine[i] \in [session : Sessions, data : Sessions] /\ NoSession \in Sessions
      /\ engine[i].data \in {NoSession, engine[i].session}
  BY Constants0 DEF Types, EngineBound
<1>1. CASE \A w \in wheels : w.id # i
  <2>1. Reconciled(wheels)[i] = Nowhere
    BY <1>1 DEF Reconciled
  <2> QED
    BY <1>0, <2>1 DEF Nowhere
<1>2. CASE \E w \in wheels : w.id = i
  <2>1. PICK v \in wheels : v = CHOOSE w \in wheels : w.id = i
    BY <1>2
  <2>2. v.session \in Sessions
    BY <2>1 DEF Found
  <2>3. Reconciled(wheels)[i] = IF engine[i].session \notin {NoSession, v.session}
                                THEN [Nowhere EXCEPT !.session = v.session]
                                ELSE [engine[i] EXCEPT !.session = v.session]
    BY <1>2, <2>1 DEF Reconciled
  <2>4. CASE engine[i].session \notin {NoSession, v.session}
    BY <1>0, <2>2, <2>3, <2>4 DEF Nowhere
  <2>5. CASE engine[i].session \in {NoSession, v.session}
    BY <1>0, <2>2, <2>3, <2>5
  <2> QED
    BY <2>4, <2>5
<1> QED
  BY <1>1, <1>2

\* The result of the scan becomes the state.
LEMMA PublishKeeps ==
  ASSUME IInv, Publish
  PROVE  IInv'
<1>0. /\ UNCHANGED <<plugged, bus, calls, files, ephemeral, joys, wizard>>
      /\ scan.at = "publish" /\ scan \in Scans /\ ui \in Flags /\ Types
      /\ engine' = Reconciled(scan.wheels) /\ scan' = Idle /\ ui' = [ui EXCEPT !.ready = TRUE]
      /\ app' = [wheels |-> scan.wheels, failed |-> scan.failed, blind |-> scan.blind,
                 selected |-> IF scan.failed /\ ~scan.fast THEN "" ELSE scan.selected]
  BY DEF IInv, Types, Publish, Quiet
<1>1. Containers' /\ Sequel /\ Nodes' = Nodes
  BY <1>0, BusStays
<1>2. scan.wheels \in SUBSET Found /\ scan.failed \in BOOLEAN /\ scan.blind \in BOOLEAN
      /\ scan.selected \in IDs \cup {""}
  BY <1>0 DEF Scans
<1>3. (IF scan.failed /\ ~scan.fast THEN "" ELSE scan.selected) \in IDs \cup {""}
  BY <1>2
<1>4. app' \in Shown /\ app'.wheels = scan.wheels /\ app'.failed = scan.failed
      /\ app'.blind = scan.blind
  BY <1>0, <1>2, <1>3 DEF Shown
<1>5. scan' \in Scans /\ scan'.at = "idle" /\ scan'.wheels = {} /\ ~scan'.save
  BY <1>0 DEF Idle, Scans
<1>6. ui' \in Flags /\ ui'.ready /\ ui'.busy = ui.busy /\ ui'.changed = ui.changed
      /\ ui'.pending = ui.pending
  BY <1>0 DEF Flags
<1>7. engine' \in [IDs -> [session : Sessions, data : Sessions]] /\ EngineBound'
  BY <1>0, <1>2, ReconciledFits DEF IInv, EngineBound
<1>8. Types'
  BY <1>0, <1>1, <1>4, <1>5, <1>6, <1>7 DEF Types
<1>9. Refreshing'
  BY <1>0, <1>5, <1>6 DEF IInv, Refreshing
<1>10. Sounding'
  BY <1>0, <1>1, <1>4, <1>5, SoundStays DEF IInv, Sounding, Distinct
<1>11. Trustworthy'
  BY <1>0, <1>1, TrustStays DEF IInv
<1>12. Seen' /\ Keeping'
  BY <1>0, <1>1, <1>4, <1>5, <1>6 DEF IInv, Seen, Present, Keeping
<1> QED
  BY <1>7, <1>8, <1>9, <1>10, <1>11, <1>12 DEF IInv

-----------------------------------------------------------------------------
(* The handlers of the UI thread. *)

\* A handler that starts a scan, unless one runs. A change stays pending while one does.
LEMMA StartKeeps ==
  ASSUME IInv, NEW fast \in BOOLEAN, NEW flags \in Flags, StartScan(fast, flags),
         flags.busy = ui.busy, flags.ready = ui.ready, flags.changed = ui.changed,
         ui.busy => flags.pending = ui.pending,
         UNCHANGED <<plugged, bus, ephemeral, app, wizard, engine>>,
         files' \in Stored, files'.confirmed = files.confirmed,
         joys' \in SUBSET Models, calls' \in Nat
  PROVE  IInv'
<1>0. scan \in Scans /\ ui \in Flags /\ Types
  BY DEF IInv, Types
<1>1. Containers' /\ Sequel /\ Nodes' = Nodes
  BY <1>0, BusStays
<1>2. Trustworthy'
  BY <1>0, <1>1, TrustStays DEF IInv
<1>3. EngineBound'
  BY DEF IInv, EngineBound
<1>4. CASE ui.busy
  <2>1. ui' = flags /\ UNCHANGED scan
    BY <1>4 DEF StartScan
  <2>2. Types'
    BY <1>0, <1>1, <2>1 DEF Types
  <2>3. Refreshing'
    BY <2>1 DEF IInv, Refreshing
  <2>4. Sounding'
    BY <1>1, <2>1, SoundStays DEF IInv, Sounding, Distinct
  <2>5. Seen' /\ Keeping'
    BY <1>1, <1>4, <2>1 DEF IInv, Seen, Present, Keeping
  <2> QED
    BY <1>2, <1>3, <2>2, <2>3, <2>4, <2>5 DEF IInv
<1>5. CASE ~ui.busy
  <2>1. ui' = [flags EXCEPT !.busy = TRUE] /\ scan' = [Idle EXCEPT !.at = "find", !.fast = fast]
    BY <1>5 DEF StartScan, Begin
  <2>2. ui' \in Flags /\ ui'.busy /\ ui'.ready = ui.ready
    BY <2>1 DEF Flags
  <2>3. scan' \in Scans /\ scan'.at = "find" /\ scan'.wheels = {} /\ ~scan'.save
    BY <2>1 DEF Scans, Idle
  <2>4. Types'
    BY <1>0, <1>1, <2>2, <2>3 DEF Types
  <2>5. Refreshing'
    BY <1>5, <2>2, <2>3 DEF IInv, Refreshing
  <2>6. Sounding'
    BY <1>1, <2>3, SoundStays DEF IInv, Sounding, Distinct
  <2>7. Seen' /\ Keeping'
    BY <2>3 DEF Seen, Keeping
  <2> QED
    BY <1>2, <1>3, <2>4, <2>5, <2>6, <2>7 DEF IInv
<1> QED
  BY <1>4, <1>5

\* A change of the bus becomes pending, and confirmations of this process are forgotten.
LEMMA DeviceChangeKeeps ==
  ASSUME IInv, DeviceChange
  PROVE  IInv'
<1>0. /\ UNCHANGED <<plugged, bus, engine, files, app, wizard, scan, calls>> /\ Types
      /\ ephemeral' = {} /\ joys' = {} /\ ui' = [ui EXCEPT !.changed = FALSE, !.pending = TRUE]
  BY DEF IInv, DeviceChange, Still, Stale
<1>1. Containers' /\ Sequel /\ Nodes' = Nodes
  BY <1>0, BusStays
<1>2. ui' \in Flags /\ ui'.pending /\ ui'.busy = ui.busy /\ ui'.ready = ui.ready
  BY <1>0 DEF Types, Flags
<1>3. Types'
  BY <1>0, <1>1, <1>2 DEF Types
<1>4. Refreshing' /\ Seen' /\ Keeping' /\ EngineBound'
  BY <1>0, <1>2 DEF IInv, Refreshing, Seen, Keeping, EngineBound
<1>5. Sounding'
  BY <1>0, <1>1, SoundStays DEF IInv, Sounding, Distinct
<1>6. Trustworthy'
  BY <1>0, <1>1, TrustStays DEF IInv
<1> QED
  BY <1>3, <1>4, <1>5, <1>6 DEF IInv

\* The timers and messages that start a scan.
LEMMA RefreshKeeps ==
  ASSUME IInv, DeviceTimer \/ AutoRefresh \/ RefreshRequest
  PROVE  IInv'
<1>0. /\ UNCHANGED <<plugged, bus, engine, files, ephemeral, joys, app, wizard, calls>>
      /\ ui \in Flags /\ files \in Stored /\ joys \in SUBSET Models /\ calls \in Nat
  BY DEF IInv, Types, DeviceTimer, AutoRefresh, RefreshRequest, Still
<1>1. CASE DeviceTimer
  <2>0. /\ StillPending \in Flags /\ StillPending.busy = ui.busy /\ StillPending.ready = ui.ready
        /\ StillPending.changed = ui.changed /\ StillPending.pending = ui.busy
    BY <1>0 DEF StillPending, Flags
  <2>1. PICK flags \in Flags :
          /\ flags = StillPending /\ flags.busy = ui.busy /\ flags.ready = ui.ready
          /\ flags.changed = ui.changed /\ flags.pending = ui.busy
    BY <2>0
  <2>2. StartScan(FALSE, flags) /\ ui.pending
    BY <1>1, <2>1 DEF DeviceTimer
  <2>3. ui.busy => flags.pending = ui.pending
    BY <1>0, <2>1, <2>2 DEF Flags
  <2> QED
    BY <1>0, <2>1, <2>2, <2>3, StartKeeps
<1>2. CASE AutoRefresh
  <2>1. PICK flags \in Flags : flags = ui
    BY <1>0
  <2>2. StartScan(TRUE, flags)
    BY <1>2, <2>1 DEF AutoRefresh
  <2> QED
    BY <1>0, <2>1, <2>2, StartKeeps
<1>3. CASE RefreshRequest
  <2> DEFINE served == [ui EXCEPT !.request = FALSE]
  <2>0. /\ served \in Flags /\ served.busy = ui.busy /\ served.ready = ui.ready
        /\ served.changed = ui.changed /\ served.pending = ui.pending
    BY <1>0 DEF Flags
  <2>1. PICK flags \in Flags :
          /\ flags = served /\ flags.busy = ui.busy /\ flags.ready = ui.ready
          /\ flags.changed = ui.changed /\ flags.pending = ui.pending
    <3> HIDE DEF served
    <3> QED
      BY <2>0
  <2>2. StartScan(FALSE, flags)
    BY <1>3, <2>1 DEF RefreshRequest
  <2> QED
    BY <1>0, <2>1, <2>2, StartKeeps
<1> QED
  BY <1>1, <1>2, <1>3

\* The user selects a wheel, or resets the detection.
LEMMA SelectKeeps ==
  ASSUME IInv, calls' \in Nat, (\E w \in app.wheels : Select(w)) \/ Reset
  PROVE  IInv'
<1>0. /\ UNCHANGED <<plugged, bus, engine, ephemeral, app, wizard>> /\ joys' = {}
      /\ ui \in Flags /\ files \in Stored
  BY DEF IInv, Types, Select, Reset, Still, Stale
<1>1. PICK fast \in BOOLEAN, flags \in Flags : flags = ui /\ StartScan(fast, flags)
  BY <1>0 DEF Select, Reset
<1>2. files' \in Stored /\ files'.confirmed = files.confirmed
  <2>1. CASE \E w \in app.wheels : Select(w)
    <3>1. PICK w \in app.wheels : w.id \in Ports /\ files' = [files EXCEPT !.selected = w.id]
      BY <2>1 DEF Select, Persistable
    <3>2. w.id \in IDs
      BY <3>1, Constants0
    <3> QED
      BY <1>0, <3>1, <3>2 DEF Stored
  <2>2. CASE Reset
    <3>1. files' = [files EXCEPT !.selected = "", !.hint = "", !.history = [p \in Ports |-> NoRecord]]
      BY <2>2 DEF Reset
    <3>2. [p \in Ports |-> NoRecord] \in [Ports -> Records]
      BY NoRecordFits
    <3> QED
      BY <1>0, <3>1, <3>2 DEF Stored
  <2> QED
    BY <2>1, <2>2
<1> QED
  BY <1>0, <1>1, <1>2, StartKeeps

\* The state reaches the windows.
LEMMA StateReadyKeeps ==
  ASSUME IInv, StateReady
  PROVE  IInv'
<1>0. /\ UNCHANGED <<plugged, bus, engine, files, ephemeral, joys, app, scan, calls>> /\ Types
      /\ ui.ready /\ ui' = [ui EXCEPT !.busy = FALSE, !.ready = FALSE] /\ wizard' = app
  BY DEF IInv, StateReady, Still
<1>1. Containers' /\ Sequel /\ Nodes' = Nodes
  BY <1>0, BusStays
<1>2. ui' \in Flags /\ ~ui'.ready /\ ui'.changed = ui.changed /\ ui'.pending = ui.pending
  BY <1>0 DEF Types, Flags
<1>3. Types'
  BY <1>0, <1>1, <1>2 DEF Types
<1>4. Refreshing'
  BY <1>0, <1>2 DEF IInv, Refreshing
<1>5. Seen' /\ Keeping' /\ EngineBound'
  BY <1>0, <1>1, <1>2 DEF IInv, Seen, Present, Keeping, EngineBound
<1>6. Sounding'
  BY <1>0, <1>1, SoundStays DEF IInv, Sounding, Distinct
<1>7. Trustworthy'
  BY <1>0, <1>1, TrustStays DEF IInv
<1> QED
  BY <1>3, <1>4, <1>5, <1>6, <1>7 DEF IInv

\* A record of a serial number and its model is one.
LEMMA RecordFits ==
  ASSUME NEW s \in Sessions, NEW w \in Serial, NEW m \in Models
  PROVE  [session |-> s, print |-> w, model |-> m] \in Records
BY DEF Records

\* A confirmation that is kept for good is that of a serial number.
LEMMA KeptFits ==
  ASSUME NEW s \in Sessions, NEW wheel \in Wheels, NEW c,
         c.session = s, c.print = PrintOf(wheel), c.model = ModelOf[wheel]
  PROVE  /\ KeptConfirmation(c) \in Records
         /\ KeptConfirmation(c).print # "" =>
              /\ KeptConfirmation(c).print \in Serial
              /\ KeptConfirmation(c).model = ModelOf[KeptConfirmation(c).print]
<1>1. PrintOf(wheel) \in Serial \cup {""} /\ ModelOf[wheel] \in Models
  BY Constants0
<1>2. CASE c.print = ""
  <2>1. KeptConfirmation(c) = NoRecord
    BY <1>2 DEF KeptConfirmation
  <2> QED
    BY <2>1, NoRecordFits
<1>3. CASE c.print # ""
  <2>1. wheel \in Serial /\ c.print = wheel
    BY <1>3 DEF PrintOf
  <2> SUFFICES ASSUME NEW k, k = KeptConfirmation(c)
               PROVE  k \in Records /\ k.print \in Serial /\ k.model = ModelOf[k.print]
    OBVIOUS
  <2>2. k = [session |-> s, print |-> wheel, model |-> ModelOf[wheel]]
    BY <1>3, <2>1 DEF KeptConfirmation
  <2>3. k.print = wheel /\ k.model = ModelOf[wheel]
    BY <2>2
  <2>4. k \in Records
    BY <1>1, <2>1, <2>2, RecordFits
  <2> QED
    BY <2>1, <2>3, <2>4
<1> QED
  BY <1>2, <1>3

\* The user confirms the model of the wheel that the window shows.
LEMMA ConfirmKeeps ==
  ASSUME IInv, calls' \in Nat, NEW w \in wizard.wheels, ConfirmModel(w)
  PROVE  IInv'
<1> DEFINE wheel == plugged[w.session]
           m == ModelOf[wheel]
           c == [id |-> w.id, session |-> w.session, print |-> w.print, model |-> m]
<1>0. /\ UNCHANGED <<plugged, bus, engine, joys, scan>> /\ Types /\ w.pnp
      /\ ephemeral' = {e \in ephemeral : ~(e.id = w.id /\ e.session = w.session)} \cup {c}
      /\ files' = [files EXCEPT !.confirmed[w.id] = KeptConfirmation(c)]
      /\ wizard' = Marked(wizard, w.id, m) /\ app' = Marked(app, w.id, m)
      /\ ui' = [ui EXCEPT !.request = TRUE]
  BY DEF IInv, ConfirmModel, Still
<1>1. Containers' /\ Sequel /\ Nodes' = Nodes /\ Containers
  BY <1>0, BusStays DEF Types
<1>2. Sound(w) /\ w \in Found
  BY <1>0 DEF IInv, Sounding, Types, Shown
<1>3. w.id \in Ports /\ w.session \in DOMAIN plugged /\ w.print = PrintOf(wheel)
  BY <1>0, <1>2 DEF Sound
<1>4. wheel \in Wheels /\ m \in Models /\ w.session \in Sessions /\ PrintOf(wheel) \in Serial \cup {""}
  BY <1>1, <1>3, ContainersFit, Constants0
<1>5. c \in Confirmations /\ c.session = w.session /\ c.print = PrintOf(wheel) /\ c.model = m
  BY <1>3, <1>4 DEF Confirmations
<1> HIDE DEF c
<1>6. ephemeral' \in SUBSET Confirmations
  BY <1>0, <1>5 DEF Types
<1>7. /\ KeptConfirmation(c) \in Records
      /\ KeptConfirmation(c).print # "" =>
           /\ KeptConfirmation(c).print \in Serial
           /\ KeptConfirmation(c).model = ModelOf[KeptConfirmation(c).print]
  BY <1>4, <1>5, KeptFits
<1>8. /\ files \in Stored /\ files.confirmed \in [Ports -> Records]
      /\ files' \in Stored /\ files'.confirmed = [files.confirmed EXCEPT ![w.id] = KeptConfirmation(c)]
  BY <1>0, <1>3, <1>7 DEF Types, Stored
<1>9. /\ \A v \in app.wheels \cup wizard.wheels \cup scan.wheels : Sound(v)
      /\ Distinct(app.wheels) /\ Distinct(scan.wheels) /\ app \in Shown /\ wizard \in Shown
  BY <1>0 DEF IInv, Sounding, Types
<1> HIDE DEF m
<1>10. /\ app' \in Shown /\ \A v \in app'.wheels : Sound(v)
       /\ {v.session : v \in app'.wheels} = {v.session : v \in app.wheels}
       /\ Distinct(app'.wheels) /\ app'.failed = app.failed /\ app'.blind = app.blind
  BY <1>0, <1>4, <1>9, MarkedFits
<1>11. wizard' \in Shown /\ \A v \in wizard'.wheels : Sound(v)
  BY <1>0, <1>4, <1>9, MarkedFits
<1>12. ui' \in Flags /\ ui'.busy = ui.busy /\ ui'.ready = ui.ready /\ ui'.changed = ui.changed
       /\ ui'.pending = ui.pending
  BY <1>0 DEF Types, Flags
<1>13. Types'
  BY <1>0, <1>1, <1>6, <1>8, <1>10, <1>11, <1>12 DEF Types
<1>14. Refreshing'
  BY <1>0, <1>12 DEF IInv, Refreshing
<1>15. Sounding'
  BY <1>0, <1>1, <1>9, <1>10, <1>11, SoundStays DEF Sounding, Distinct
<1>16. Trustworthy'
  <2>1. ASSUME NEW d \in ephemeral'
        PROVE  d.session \in DOMAIN plugged' /\ d.model = ModelOf[plugged'[d.session]]
    <3>1. CASE d = c
      BY <1>0, <1>3, <1>5, <3>1 DEF m
    <3>2. CASE d \in ephemeral
      BY <1>0, <3>2 DEF IInv, Trustworthy
    <3> QED
      BY <1>0, <2>1, <3>1, <3>2
  <2>2. ASSUME NEW p \in Ports, files'.confirmed[p].print # ""
        PROVE  /\ files'.confirmed[p].print \in Serial
               /\ files'.confirmed[p].model = ModelOf[files'.confirmed[p].print]
    <3>1. CASE p = w.id
      BY <1>7, <1>8, <2>2, <3>1
    <3>2. CASE p # w.id
      <4>1. files'.confirmed[p] = files.confirmed[p]
        BY <1>8, <3>2
      <4> QED
        BY <2>2, <4>1 DEF IInv, Trustworthy
    <3> QED
      BY <3>1, <3>2
  <2> QED
    BY <2>1, <2>2 DEF Trustworthy
<1>17. Seen'
  BY <1>0, <1>1, <1>10, <1>12 DEF IInv, Seen, Present
<1>18. Keeping' /\ EngineBound'
  BY <1>0 DEF IInv, Keeping, EngineBound
<1> QED
  BY <1>13, <1>14, <1>15, <1>16, <1>17, <1>18 DEF IInv

\* The user wants the model to be found automatically.
LEMMA ClearKeeps ==
  ASSUME IInv, calls' \in Nat, ClearModel
  PROVE  IInv'
<1> DEFINE id == wizard.selected
           hint == IF Cardinality(wizard.wheels) <= 1 THEN "" ELSE files.hint
<1>0. /\ UNCHANGED <<plugged, bus, engine, joys, app, wizard, scan>> /\ Types /\ id \in Ports
      /\ ephemeral' = {e \in ephemeral : e.id # id}
      /\ files' = [files EXCEPT !.confirmed[id] = NoRecord, !.hint = hint]
      /\ ui' = [ui EXCEPT !.request = TRUE]
  BY DEF IInv, ClearModel, Still
<1>1. Containers' /\ Sequel /\ Nodes' = Nodes
  BY <1>0, BusStays
<1>2. files \in Stored /\ files.confirmed \in [Ports -> Records] /\ hint \in Models \cup {""}
  BY <1>0 DEF Types, Stored
<1> HIDE DEF id, hint
<1>3. files' \in Stored /\ files'.confirmed = [files.confirmed EXCEPT ![id] = NoRecord]
  BY <1>0, <1>2, NoRecordFits DEF Stored
<1>4. ui' \in Flags /\ ui'.busy = ui.busy /\ ui'.ready = ui.ready /\ ui'.changed = ui.changed
      /\ ui'.pending = ui.pending
  BY <1>0 DEF Types, Flags
<1>5. Types'
  BY <1>0, <1>1, <1>3, <1>4 DEF Types
<1>6. Refreshing'
  BY <1>0, <1>4 DEF IInv, Refreshing
<1>7. Sounding'
  BY <1>0, <1>1, SoundStays DEF IInv, Sounding, Distinct
<1>8. Trustworthy'
  <2>1. ASSUME NEW d \in ephemeral'
        PROVE  d.session \in DOMAIN plugged' /\ d.model = ModelOf[plugged'[d.session]]
    BY <1>0, <2>1 DEF IInv, Trustworthy
  <2>2. ASSUME NEW p \in Ports, files'.confirmed[p].print # ""
        PROVE  /\ files'.confirmed[p].print \in Serial
               /\ files'.confirmed[p].model = ModelOf[files'.confirmed[p].print]
    <3>1. p # id /\ files'.confirmed[p] = files.confirmed[p]
      BY <1>2, <1>3, <2>2, NoRecordFits
    <3> QED
      BY <2>2, <3>1 DEF IInv, Trustworthy
  <2> QED
    BY <2>1, <2>2 DEF Trustworthy
<1>9. Seen' /\ Keeping' /\ EngineBound'
  BY <1>0, <1>1, <1>4 DEF IInv, Seen, Present, Keeping, EngineBound
<1> QED
  BY <1>5, <1>6, <1>7, <1>8, <1>9 DEF IInv

\* What a process starts with.
LEMMA FreshFits ==
  /\ NoWheels \in Shown /\ NoWheels.wheels = {} /\ Idle \in Scans /\ Idle.wheels = {}
  /\ Idle.at = "idle" /\ ~Idle.save
  /\ [busy |-> FALSE, changed |-> FALSE, pending |-> TRUE, request |-> FALSE, ready |-> FALSE] \in Flags
  /\ [i \in IDs |-> Nowhere] \in [IDs -> [session : Sessions, data : Sessions]]
  /\ \A i \in IDs : [j \in IDs |-> Nowhere][i].data = NoSession
<1>1. NoSession \in Sessions
  BY Constants0
<1> QED
  BY <1>1 DEF NoWheels, Shown, Idle, Scans, Flags, Nowhere

\* The program is started again.
LEMMA RestartKeeps ==
  ASSUME IInv, calls' \in Nat, Restart
  PROVE  IInv'
<1>0. /\ UNCHANGED <<plugged, bus, files>> /\ Types /\ ephemeral' = {} /\ joys' = {}
      /\ app' = NoWheels /\ wizard' = NoWheels /\ scan' = Idle
      /\ ui' = [busy |-> FALSE, changed |-> FALSE, pending |-> TRUE, request |-> FALSE, ready |-> FALSE]
      /\ engine' = [i \in IDs |-> Nowhere]
  BY DEF IInv, Restart, Stale
<1>1. Containers' /\ Sequel
  BY <1>0, BusStays
<1>2. Types'
  BY <1>0, <1>1, FreshFits DEF Types
<1>3. Refreshing'
  BY <1>0, FreshFits DEF Refreshing
<1>4. Sounding'
  BY <1>0, FreshFits DEF Sounding, Distinct
<1>5. Trustworthy'
  BY <1>0, <1>1, TrustStays DEF IInv
<1>6. Seen' /\ Keeping' /\ EngineBound'
  BY <1>0, FreshFits DEF Seen, Keeping, EngineBound
<1> QED
  BY <1>2, <1>3, <1>4, <1>5, <1>6 DEF IInv

\* A command of the user.
LEMMA UserKeeps ==
  ASSUME IInv, User
  PROVE  IInv'
<1>1. calls' \in Nat
  BY DEF IInv, Types, User, Command
<1> QED
  BY <1>1, SelectKeeps, ConfirmKeeps, ClearKeeps, RestartKeeps DEF User

\* A reader or a lease reports for the session of the target alone.
LEMMA UpdateKeeps ==
  ASSUME IInv, Update
  PROVE  IInv'
<1>0. /\ UNCHANGED <<plugged, bus, files, ephemeral, joys, app, wizard, scan, ui, calls>> /\ Types
      /\ app.selected \in IDs /\ engine \in [IDs -> [session : Sessions, data : Sessions]]
  BY DEF IInv, Types, Update, Shown
<1>1. PICK session \in DOMAIN plugged \cup {DirectSession} :
        /\ engine[app.selected].session = session
        /\ engine' = [engine EXCEPT ![app.selected].data = session]
  BY DEF Update, Accepts
<1>2. Containers' /\ Sequel /\ Nodes' = Nodes
  BY <1>0, BusStays
<1>3. engine' \in [IDs -> [session : Sessions, data : Sessions]] /\ EngineBound'
  <2>1. session \in Sessions
    BY <1>0, <1>1
  <2> QED
    BY <1>0, <1>1, <2>1 DEF IInv, EngineBound
<1>4. Types'
  BY <1>0, <1>2, <1>3 DEF Types
<1>5. Refreshing' /\ Keeping'
  BY <1>0 DEF IInv, Refreshing, Keeping
<1>6. Sounding'
  BY <1>0, <1>2, SoundStays DEF IInv, Sounding, Distinct
<1>7. Trustworthy'
  BY <1>0, <1>2, TrustStays DEF IInv
<1>8. Seen'
  BY <1>0, <1>2 DEF IInv, Seen, Present
<1> QED
  BY <1>3, <1>4, <1>5, <1>6, <1>7, <1>8 DEF IInv

-----------------------------------------------------------------------------
(* The theorems. *)

\* At the start one wheel is attached and nothing is known.
LEMMA InitHolds == Init => IInv
<1> SUFFICES ASSUME Init PROVE IInv
  OBVIOUS
<1>0. PICK w \in Wheels, p \in Ports, old \in Upgraded :
        /\ plugged = <<w>>
        /\ bus = [[q \in Ports |-> Empty] EXCEPT ![p].session = OldContainer]
        /\ files = [selected |-> IF old THEN "container" ELSE "", hint |-> IF old THEN ModelOf[w] ELSE "",
                    confirmed |-> [q \in Ports |-> NoRecord], history |-> [q \in Ports |-> NoRecord]]
  BY DEF Init
<1>1. /\ ephemeral = {} /\ joys = {} /\ app = NoWheels /\ wizard = NoWheels /\ scan = Idle
      /\ ui = [busy |-> FALSE, changed |-> FALSE, pending |-> TRUE, request |-> FALSE, ready |-> FALSE]
      /\ engine = [i \in IDs |-> Nowhere] /\ calls = 0
  BY DEF Init, Stale
<1>2. Containers
  <2>1. plugged = <<w>>
    BY <1>0
  <2>2. plugged \in Seq(Wheels) /\ Len(plugged) = 1
    BY <2>1
  <2>3. MaxPlugs \in Nat /\ DirectSession = MaxPlugs + 1
    BY SelectionAssumption DEF DirectSession
  <2>4. 1 \in 0..DirectSession
    BY <2>3
  <2> DEFINE empty == [q \in Ports |-> Empty]
  <2>5. Empty \in [session : 0..1, native : BOOLEAN]
    BY DEF Empty, NoSession
  <2>6. empty \in [Ports -> [session : 0..1, native : BOOLEAN]] /\ bus = [empty EXCEPT ![p].session = 1]
    BY <1>0, <2>5 DEF OldContainer
  <2> HIDE DEF empty
  <2>7. bus \in [Ports -> [session : 0..1, native : BOOLEAN]]
    BY <2>6
  <2> QED
    BY <2>2, <2>4, <2>7 DEF Containers
<1>3. files \in Stored
  <2>1. (IF old THEN "container" ELSE "") \in IDs \cup {""}
    BY DEF IDs
  <2>2. (IF old THEN ModelOf[w] ELSE "") \in Models \cup {""}
    BY Constants0
  <2>3. [q \in Ports |-> NoRecord] \in [Ports -> Records]
    BY NoRecordFits
  <2> QED
    BY <1>0, <2>1, <2>2, <2>3 DEF Stored
<1>4. Types
  BY <1>1, <1>2, <1>3, FreshFits DEF Types
<1>5. Refreshing /\ Sounding /\ Seen /\ Keeping /\ EngineBound
  BY <1>1, FreshFits DEF Refreshing, Sounding, Distinct, Seen, Keeping, EngineBound
<1>6. Trustworthy
  <2>1. \A q \in Ports : files.confirmed[q] = NoRecord
    BY <1>0
  <2> QED
    BY <1>1, <2>1, NoRecordFits DEF Trustworthy
<1> QED
  BY <1>4, <1>5, <1>6 DEF IInv

\* Every step keeps the invariant.
LEMMA StepKeeps == IInv /\ [Next]_vars => IInv'
<1> SUFFICES ASSUME IInv, [Next]_vars PROVE IInv'
  OBVIOUS
<1>1. CASE \E p \in Ports : Unplug(p) \/ SwitchNative(p) \/ \E w \in Wheels : Plug(w, p)
  BY <1>1, PlugKeeps, UnplugKeeps, SwitchKeeps
<1>2. CASE Scan
  BY <1>2, FindKeeps, IdentifyKeeps, ChooseKeeps, SaveKeeps, PublishKeeps DEF Scan
<1>3. CASE DeviceChange \/ DeviceTimer \/ AutoRefresh \/ RefreshRequest \/ StateReady
  BY <1>3, DeviceChangeKeeps, RefreshKeeps, StateReadyKeeps
<1>4. CASE User
  BY <1>4, UserKeeps
<1>5. CASE Update
  BY <1>5, UpdateKeeps
<1>6. CASE UNCHANGED vars
  <2>0. /\ UNCHANGED <<plugged, bus, files, ephemeral, joys, app, wizard, scan, ui, engine, calls>>
        /\ Types
    BY <1>6 DEF vars, IInv
  <2>1. Containers' /\ Sequel /\ Nodes' = Nodes
    BY <2>0, BusStays
  <2>2. Types'
    BY <2>0, <2>1 DEF Types
  <2>3. Refreshing' /\ Seen' /\ Keeping' /\ EngineBound'
    BY <2>0, <2>1 DEF IInv, Refreshing, Seen, Present, Keeping, EngineBound
  <2>4. Sounding'
    BY <2>0, <2>1, SoundStays DEF IInv, Sounding, Distinct
  <2>5. Trustworthy'
    BY <2>0, <2>1, TrustStays DEF IInv
  <2> QED
    BY <2>2, <2>3, <2>4, <2>5 DEF IInv
<1> QED
  BY <1>1, <1>2, <1>3, <1>4, <1>5, <1>6 DEF Next

\* The invariant holds of every state of the specification.
LEMMA Invariance == Spec => []IInv
BY InitHolds, StepKeeps, PTL DEF Spec

\* Every variable keeps its type, and the flag of the refresh is held while a scan runs and until
\* its message has arrived (refreshAsync, msgStateReady).
THEOREM TypeCorrect == Spec => []TypeOK
<1>1. ASSUME IInv PROVE TypeOK
  <2>1. Types /\ Containers /\ files \in Stored
    BY <1>1 DEF IInv, Types
  <2>2. bus \in [Ports -> [session : Sessions, native : BOOLEAN]]
    BY <2>1, ContainersFit DEF Containers
  <2>3. \A c \in ephemeral : c.id \in Ports /\ c.session \in Sessions
    BY <2>1 DEF Types, Confirmations
  <2>4. \A s \in {app, wizard} : DOMAIN s = {"wheels", "selected", "failed", "blind"} /\ s.wheels \subseteq Found
    BY <2>1 DEF Types, Shown
  <2>5. engine \in [IDs -> [session : Sessions, data : Sessions]]
    BY <2>1 DEF Types
  <2> QED
    BY <1>1, <2>1, <2>2, <2>3, <2>4, <2>5 DEF IInv, Refreshing, TypeOK, Containers, Stored
<1> QED
  BY <1>1, Invariance, PTL

\* A confirmed model is that of the wheel itself, whatever changes places and containers and
\* however often the program restarts (trustedWheelDevicePreferences).
THEOREM ConfirmationsAreBound == Spec => []ConfirmationBound
<1>1. IInv => ConfirmationBound
  BY DEF IInv, Sounding, Sound, ConfirmationBound
<1> QED
  BY <1>1, Invariance, PTL

\* The registry shows no data of another session (Manager.Reconcile, UpdateInput, UpdateOutput).
THEOREM EngineIsBound == Spec => []EngineBound
<1>1. IInv => EngineBound
  BY DEF IInv
<1> QED
  BY <1>1, Invariance, PTL

\* Once no change is pending and no scan runs, the state shows what is attached, or says that it
\* could not be found out (timerDeviceRefresh).
THEOREM TransitionsAreSeen == Spec => []TransitionSeen
<1>1. ASSUME IInv, ~(ui.changed \/ ui.pending \/ ui.busy)
      PROVE  app.failed \/ app.blind \/ {w.session : w \in app.wheels} = {bus[p].session : p \in Attached}
  <2>1. scan.at = "idle"
    BY <1>1 DEF IInv, Refreshing
  <2>2. app.failed \/ app.blind \/ Present(app.wheels)
    BY <1>1, <2>1 DEF IInv, Seen
  <2> QED
    BY <2>2 DEF Present, Nodes
<1>2. IInv => TransitionSeen
  BY <1>1 DEF TransitionSeen
<1> QED
  BY <1>2, Invariance, PTL

\* A scan that has read a stable selection leaves it alone (reconcileWheelSelection).
THEOREM SelectionIsHeld == Spec => SelectionHeld
<1> DEFINE Held == files.selected \in Ports /\ files'.selected # files.selected
                     => calls' # calls \/ scan.stored \notin Ports
<1>1. ASSUME IInv, [Next]_vars PROVE [Held]_vars
  <2> SUFFICES ASSUME files'.selected # files.selected, calls' = calls, scan.stored \in Ports
               PROVE  FALSE
    OBVIOUS
  <2>1. calls \in Nat /\ files \in Stored
    BY <1>1 DEF IInv, Types
  <2>2. ~User
    BY <2>1 DEF User, Command
  <2>3. CASE Save
    <3>1. scan.save
      BY <2>3 DEF Save
    <3> QED
      BY <1>1, <3>1 DEF IInv, Keeping
  <2>4. CASE Identify
    <3>1. \E history : files' = [files EXCEPT !.history = history]
      BY <2>4 DEF Identify
    <3> QED
      BY <2>1, <3>1 DEF Stored
  <2>5. UNCHANGED files \/ Save \/ Identify
    BY <1>1, <2>2 DEF Next, Scan, vars, Plug, Unplug, SwitchNative, Hardware, Find, Choose, Publish,
       DeviceChange, DeviceTimer, AutoRefresh, RefreshRequest, StateReady, Update
  <2> QED
    BY <2>3, <2>4, <2>5
<1> QED
  BY <1>1, Invariance, PTL DEF Spec, SelectionHeld

=============================================================================
