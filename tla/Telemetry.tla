------------------------------ MODULE Telemetry ------------------------------
(***************************************************************************)
(* The telemetry runtime: src/internal/system/telemetry_windows.go and the *)
(* UDP adapters of src/internal/gameadapter.                               *)
(*                                                                         *)
(* One adapter is current. A start makes a new adapter, stops the current  *)
(* one, opens the new one's port and only then makes it current; a stop    *)
(* takes the current adapter under the lock and ends its read loop outside *)
(* of it. The user interface and the refresh goroutine, which follows the  *)
(* game in the foreground, do both without any lock across the steps.      *)
(* A read loop looks at its stop channel only when a read times out.       *)
(*                                                                         *)
(* A frame is the force it asks for and whether the game allows it;        *)
(* revolutions, ring buffer and counters are left out, as are frames of an *)
(* adapter that is not current and will not be. Time passes in units, of   *)
(* which StaleAge make the 750 ms a frame is good for; a stale frame is    *)
(* none.                                                                   *)
(***************************************************************************)
EXTENDS Integers, FiniteSets

CONSTANTS Callers,     \* goroutines that start and stop adapters
          Kinds,       \* registered adapters, each with a port of its own
          Automatic,   \* those a game profile may start
          Adapters,    \* values for adapter objects: 1..n, reused when they are garbage
          Frames,      \* what packets may carry: [force : Int, allowed : BOOLEAN]
          StaleAge     \* bound: units until a frame is stale

None == "none"

ASSUME TelemetryAssumption ==
  /\ Automatic \subseteq Kinds /\ None \notin Kinds
  /\ Adapters \subseteq Nat \ {0} /\ IsFiniteSet(Adapters)
  /\ Frames \subseteq [force : Int, allowed : BOOLEAN]
  /\ StaleAge \in Nat

VARIABLES
  adapter,   \* [Adapters -> a UDPAdapter and its read loop]
  current,   \* telemetryRuntime: the adapter, 0 for nil, and whether it was started for a game
  call       \* [Callers -> a call in progress]

telemetryVars == <<adapter, current, call>>

NoFrame == [force |-> 0, allowed |-> FALSE]
\* A read loop is "halted" when its read will time out because of a stop, "late" when it has set
\* the next deadline after that, and "fed" when a packet has come since.
Closed == [kind |-> None, loop |-> "ended", last |-> NoFrame, age |-> 0]
Opened(k) == [Closed EXCEPT !.kind = k, !.loop = "reading"]
NoCall == [at |-> "idle", kind |-> None, auto |-> FALSE, new |-> 0, old |-> 0, then |-> "idle",
           told |-> FALSE, failed |-> FALSE]
NoAdapter == [id |-> 0, auto |-> FALSE]

TelemetryTypeOK ==
  /\ adapter \in [Adapters -> [kind : Kinds \cup {None},
                               loop : {"ended", "reading", "halted", "late", "fed"},
                               last : Frames \cup {NoFrame}, age : 0..StaleAge]]
  /\ current \in [id : Adapters \cup {0}, auto : BOOLEAN]
  /\ call \in [Callers -> [at : {"idle", "seen", "new", "take", "halt", "drain", "listen", "publish"},
                           kind : Kinds \cup {None}, auto : BOOLEAN,
                           new : Adapters \cup {0}, old : Adapters \cup {0},
                           then : {"idle", "new", "listen"}, told : BOOLEAN, failed : BOOLEAN]]

TelemetryInit ==
  /\ adapter = [a \in Adapters |-> Closed]
  /\ current = NoAdapter
  /\ call = [c \in Callers |-> NoCall]

Listening(a) == adapter[a].loop # "ended"
Running(a) == adapter[a].loop = "reading"
Garbage(a) ==
  /\ ~Listening(a) /\ current.id # a
  /\ \A c \in Callers : call[c].new # a /\ call[c].old # a

\* The call of c is over; it returned an error, or not. Only a caller to be told looks at it.
Returns(c, failed) == call' = [call EXCEPT ![c] = [NoCall EXCEPT !.failed = failed /\ call[c].told]]
Called(c) == [NoCall EXCEPT !.told = call[c].told]
\* StopTelemetry has returned, and the call goes on with what it stopped the adapter for.
Continues(c) == call' = [call EXCEPT ![c].at = call[c].then, ![c].old = 0, ![c].then = "idle"]

-----------------------------------------------------------------------------
(* Calls. *)

\* startTelemetryAdapter: a new adapter object, and then StopTelemetry.
Start(c, k, auto) ==
  /\ UNCHANGED current
  /\ \/ auto /\ k \notin Automatic /\ Returns(c, TRUE) /\ UNCHANGED adapter
     \/ /\ auto => k \in Automatic
        /\ \E a \in Adapters :
             /\ Garbage(a) /\ \A b \in Adapters : Garbage(b) => a <= b
             /\ call' = [call EXCEPT ![c] = [Called(c) EXCEPT !.at = "take", !.kind = k, !.new = a,
                                               !.auto = auto, !.then = "listen"]]
             /\ UNCHANGED adapter

\* StopTelemetry by the user, or at the end of the window.
Stop(c) ==
  /\ call' = [call EXCEPT ![c] = [NoCall EXCEPT !.at = "take"]]
  /\ UNCHANGED <<adapter, current>>

\* StopAutomaticGameTelemetry looks first, and stops whatever is current later.
StopAutomatic(c) ==
  \/ current.id # 0 /\ current.auto /\ Stop(c)
  \/ ~(current.id # 0 /\ current.auto) /\ Returns(c, FALSE) /\ UNCHANGED <<adapter, current>>

\* EnsureGameProfileTelemetry reads the runtime ...
Ensure(c, k, told) ==
  /\ call' = [call EXCEPT ![c] = [NoCall EXCEPT !.at = "seen", !.kind = k, !.old = current.id,
                                    !.auto = current.auto, !.told = told]]
  /\ UNCHANGED <<adapter, current>>

\* ... and decides by what it has read.
IsWanted(a, k) == a # 0 /\ adapter[a].kind = k /\ Running(a)
Ensured(c) ==
  LET a == call[c].old
      k == call[c].kind IN
  /\ call[c].at = "seen"
  /\ \/ IsWanted(a, k) /\ Returns(c, FALSE) /\ UNCHANGED <<adapter, current>>
     \/ /\ ~IsWanted(a, k) /\ a # 0 /\ call[c].auto
        /\ call' = [call EXCEPT ![c] = [Called(c) EXCEPT !.at = "take", !.kind = k, !.then = "new"]]
        /\ UNCHANGED <<adapter, current>>
     \/ ~IsWanted(a, k) /\ ~(a # 0 /\ call[c].auto) /\ Start(c, k, TRUE)
StartEnsured(c) == call[c].at = "new" /\ Start(c, call[c].kind, TRUE)

\* StopTelemetry takes the adapter that is current now ...
Take(c) ==
  /\ call[c].at = "take"
  /\ current' = NoAdapter
  /\ \/ current.id = 0 /\ Continues(c)
     \/ current.id # 0 /\ call' = [call EXCEPT ![c].at = "halt", ![c].old = current.id]
  /\ UNCHANGED adapter

\* ... closes its stop channel, and makes the pending read time out, or is too early for that.
Halt(c) ==
  LET a == call[c].old IN
  /\ call[c].at = "halt"
  /\ \/ ~Listening(a) /\ UNCHANGED adapter
     \/ /\ Listening(a)
        /\ \E l \in {"halted", "late"} :
             adapter' = [adapter EXCEPT ![a] = [Opened(adapter[a].kind) EXCEPT !.loop = l]]
  /\ call' = [call EXCEPT ![c].at = "drain"]
  /\ UNCHANGED current

\* The loop has ended; or it has not within a second, because the game went on sending.
\* StopTelemetry does not look at the difference.
Drained(c) ==
  /\ call[c].at = "drain"
  /\ adapter[call[c].old].loop \in {"ended", "fed"}
  /\ Continues(c)
  /\ UNCHANGED <<adapter, current>>

\* The new adapter's Start: the port may be in use, by another adapter or by another program.
Listen(c) ==
  /\ call[c].at = "listen"
  /\ \/ /\ \A b \in Adapters : adapter[b].kind # call[c].kind
        /\ adapter' = [adapter EXCEPT ![call[c].new] = Opened(call[c].kind)]
        /\ call' = [call EXCEPT ![c].at = "publish"]
     \/ Returns(c, TRUE) /\ UNCHANGED adapter
  /\ UNCHANGED current

\* The new adapter becomes current, whatever was current before.
Publish(c) ==
  /\ call[c].at = "publish"
  /\ current' = [id |-> call[c].new, auto |-> call[c].auto]
  /\ Returns(c, FALSE)
  /\ UNCHANGED adapter

-----------------------------------------------------------------------------
(* A read loop. *)

\* A packet arrives before the deadline; one that cannot be parsed changes no frame.
Readable(a) == current.id = a \/ \E c \in Callers : call[c].new = a
Packet(a) ==
  /\ \/ Running(a) /\ Readable(a)
        /\ \E f \in Frames : adapter' = [adapter EXCEPT ![a].last = f, ![a].age = 0]
     \/ adapter[a].loop = "late" /\ adapter' = [adapter EXCEPT ![a].loop = "fed"]
  /\ UNCHANGED <<current, call>>

\* A read that times out or fails ends a loop that was stopped; a failure ends any.
ReadEnds(a) ==
  /\ adapter[a].loop \in {"halted", "late", "fed"}
  /\ adapter' = [adapter EXCEPT ![a] = Closed]
  /\ UNCHANGED <<current, call>>
ReadFails(a) ==
  /\ Running(a)
  /\ adapter' = [adapter EXCEPT ![a] = Closed]
  /\ UNCHANGED <<current, call>>

\* Snapshot's staleness, and the passing of time.
Fresh(a) == adapter[a].last # NoFrame
Older == [a \in Adapters |->
            IF ~Fresh(a) THEN adapter[a]
            ELSE IF adapter[a].age = StaleAge THEN Opened(adapter[a].kind)
            ELSE [adapter[a] EXCEPT !.age = @ + 1]]

TelemetryStep(c) ==
  \/ Ensured(c) \/ StartEnsured(c) \/ Take(c) \/ Halt(c) \/ Drained(c) \/ Listen(c) \/ Publish(c)
LoopStep(a) == Packet(a) \/ ReadEnds(a) \/ ReadFails(a)

=============================================================================
