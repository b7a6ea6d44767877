------------------------------ MODULE HidSession ------------------------------
(***************************************************************************)
(* The HID handles of one LogiMate process                                 *)
(* (src/internal/system/g27_shared_hid_windows.go,                         *)
(* classic_shared_hid_windows.go, native_transport_windows.go).            *)
(*                                                                         *)
(* A wheel is read by a goroutine that owns one shared handle. For the G27 *)
(* every writer borrows that handle; for the other wheels, and for the     *)
(* switch into the native mode, a writer opens a handle of its own.        *)
(* Sessions are replaced, invalidated and closed by several goroutines,    *)
(* each of which changes the session under its lock and closes the handle  *)
(* after it, and Windows gives the value of a closed handle to the next    *)
(* file that is opened.                                                    *)
(*                                                                         *)
(* A step is one critical section or one system call. An open handle is    *)
(* identified by the number of its CreateFile. The open that a session was *)
(* installed with stands for the generation of the session as well: both   *)
(* are fresh for every session, and they are only compared for equality.   *)
(***************************************************************************)
EXTENDS Naturals, FiniteSets

CONSTANTS Callers,   \* goroutines that call into the package
          Operations, \* what each of them does
          Reader,    \* the caller whose timer polls the input
          Wheels,    \* the sessions in use: "g27", "classic"
          Handles,   \* values of handles
          NoHandle,  \* syscall.InvalidHandle
          MaxOpens,  \* bound on the HID handles that are opened
          MaxFaults  \* bound on failed or unconfirmed system calls

Opens == 1..MaxOpens
None == [handle |-> NoHandle, open |-> 0]

ASSUME HidAssumption ==
  /\ Operations \in [Callers -> SUBSET {"read", "close", "write", "switch"}]
  /\ Reader \in Callers /\ "read" \in Operations[Reader]
  /\ Wheels \subseteq {"g27", "classic"}
  /\ NoHandle \notin Handles
  /\ MaxOpens \in Nat /\ MaxFaults \in Nat
  /\ 0 \notin Callers

VARIABLES
  object,   \* the open that a handle value refers to, 0 for none
  opens,    \* how many HID handles were opened so far
  shared,   \* g27Shared and classicShared: handle and generation of the session
  latest,   \* the open whose report is shared.latest, 0 for none
  backoff,  \* shared.nextOpen is in the future
  loop,     \* the read loop of each open that was installed
  pc, op,   \* next step and operation of each caller
  mine,     \* a handle that a caller has opened or taken out of a session
  starts,   \* the open whose read loop a caller is about to start
  tr,       \* the transport of each caller
  writer,   \* holder of g27SharedOutputWriteMu, 0 for nobody
  late,     \* HidD_SetOutputReport goroutines that have not written yet
  tainted,  \* opens on which the outcome of a write is unknown
  faults

sessions == <<shared, latest, backoff>>
locals == <<mine, starts, tr>>
vars == <<object, opens, sessions, loop, pc, op, locals, writer, late, tainted, faults>>

Ops == {"read", "close", "write", "switch"}

Owned == [handle : Handles \cup {NoHandle}, open : Opens \cup {0}]

TypeOK ==
  /\ object \in [Handles -> Opens \cup {0}]
  /\ opens \in 0..MaxOpens
  /\ shared \in [Wheels -> Owned]
  /\ latest \in [Wheels -> Opens \cup {0}]
  /\ backoff \in [Wheels -> BOOLEAN]
  /\ loop \in [Opens -> [at : {"none", "issue", "pending", "failed", "closing", "ended"},
                         on : Wheels, handle : Handles \cup {NoHandle},
                         source : Opens \cup {0}]]
  /\ op \in [Callers -> [do : Ops, on : Wheels]]
  /\ mine \in [Callers -> Owned]
  /\ starts \in [Callers -> Opens \cup {0}]
  /\ tr \in [Callers -> [handle : Handles \cup {NoHandle}, open : Opens \cup {0},
                         borrowed : BOOLEAN, compat : BOOLEAN]]
  /\ writer \in Callers \cup {0}
  /\ late \subseteq Callers \X Handles \X Opens
  /\ tainted \subseteq Opens
  /\ faults \in 0..MaxFaults

NoTransport == [handle |-> NoHandle, open |-> 0, borrowed |-> FALSE, compat |-> FALSE]
AnyWheel == CHOOSE w \in Wheels : TRUE
NoOp == [do |-> "read", on |-> AnyWheel]
NoLoop == [at |-> "none", on |-> AnyWheel, handle |-> NoHandle, source |-> 0]

Init ==
  /\ object = [h \in Handles |-> 0] /\ opens = 0
  /\ shared = [w \in Wheels |-> None]
  /\ latest = [w \in Wheels |-> 0] /\ backoff = [w \in Wheels |-> FALSE]
  /\ loop = [o \in Opens |-> NoLoop]
  /\ pc = [t \in Callers |-> "idle"]
  /\ op = [t \in Callers |-> NoOp]
  /\ mine = [t \in Callers |-> None] /\ starts = [t \in Callers |-> 0]
  /\ tr = [t \in Callers |-> NoTransport]
  /\ writer = 0 /\ late = {} /\ tainted = {} /\ faults = 0

-----------------------------------------------------------------------------
(* Pieces of steps.                                                        *)

Fault == faults < MaxFaults /\ faults' = faults + 1

\* CreateFile on a HID path: a value that is free becomes the next open.
Opened(h) ==
  /\ opens < MaxOpens
  /\ object[h] = 0
  /\ opens' = opens + 1
  /\ object' = [object EXCEPT ![h] = opens + 1]

\* CreateFile fails, as it always does once the bound or the values are used up.
OpenFails ==
  \/ Fault
  \/ (opens = MaxOpens \/ \A h \in Handles : object[h] # 0) /\ UNCHANGED faults

\* CloseHandle, which the code calls only on a value that is not invalid.
Closed(h) == object' = IF h = NoHandle THEN object ELSE [object EXCEPT ![h] = 0]

\* The next step of a call; one that returns forgets its arguments.
Goto(t, l) ==
  /\ pc' = [pc EXCEPT ![t] = l]
  /\ op' = IF l = "idle" THEN [op EXCEPT ![t] = NoOp] ELSE op

\* Mutant: only the value of the handle is compared.
SameHandle(w, s) == shared[w].handle = s.handle /\ shared[w].open # 0

\* g27SharedOutputHealthy, and the guard under which a session is touched: it is
\* still the one with that handle and that generation.
Current(w, s) == shared[w].handle = s.handle /\ shared[w].open = s.open /\ s.open # 0

\* Mutant: the session keeps its handle value.
Forgotten(w) == [shared EXCEPT ![w].open = 0]

\* The session loses its handle, generation and path.
Gone(w) == [shared EXCEPT ![w] = None]

-----------------------------------------------------------------------------
(* Calls. ensureG27SharedReader and ensureClassicSharedReader.             *)

Start(t, o, w) ==
  /\ pc[t] = "idle" /\ o \in Operations[t]
  /\ op' = [op EXCEPT ![t] = [do |-> o, on |-> w]]
  /\ pc' = [pc EXCEPT ![t] = CASE o = "read" -> "look"
                              [] o = "write" -> IF w = "g27" THEN "look" ELSE "own"
                              [] OTHER -> "shut"]
  /\ UNCHANGED <<object, opens, sessions, loop, locals, writer, late, tainted, faults>>

\* What a caller of ensure does next, whether or not there is a session now.
AfterEnsure(t) == IF op[t].do = "write" THEN "borrow" ELSE "idle"

\* The path of the wheel is known; the session is open or not.
Look(t) ==
  /\ pc[t] = "look"
  /\ \/ Goto(t, IF shared[op[t].on].handle # NoHandle THEN AfterEnsure(t) ELSE "due")
        /\ UNCHANGED faults
     \/ Fault /\ Goto(t, AfterEnsure(t))
  /\ UNCHANGED <<object, opens, sessions, loop, locals, writer, late, tainted>>

Due(t) ==
  /\ pc[t] = "due"
  /\ Goto(t, IF backoff[op[t].on] THEN AfterEnsure(t) ELSE "create")
  /\ UNCHANGED <<object, opens, sessions, loop, locals, writer, late, tainted, faults>>

BackoffOver(w) ==
  /\ backoff[w]
  /\ backoff' = [backoff EXCEPT ![w] = FALSE]
  /\ UNCHANGED <<object, opens, shared, latest, loop, pc, op, locals, writer, late, tainted, faults>>

Create(t) ==
  /\ pc[t] = "create"
  /\ \E h \in Handles : /\ Opened(h)
                        /\ mine' = [mine EXCEPT ![t] = [handle |-> h, open |-> opens + 1]]
  /\ Goto(t, "install")
  /\ UNCHANGED <<sessions, loop, starts, tr, writer, late, tainted, faults>>

\* noteG27OpenFailure, noteClassicOpenFailure.
CreateFails(t) ==
  /\ pc[t] = "create"
  /\ OpenFails
  /\ backoff' = [backoff EXCEPT ![op[t].on] = TRUE]
  /\ Goto(t, AfterEnsure(t))
  /\ UNCHANGED <<object, opens, shared, latest, loop, locals, writer, late, tainted>>

\* Mutant: the session that is replaced is dropped.
Dropped(w) == None

\* The handle to close once another has taken its place.
Replaced(w) == shared[w]

Install(t) ==
  LET w == op[t].on
  IN /\ pc[t] = "install"
     /\ shared' = [shared EXCEPT ![w] = mine[t]]
     /\ latest' = [latest EXCEPT ![w] = 0]
     /\ backoff' = [backoff EXCEPT ![w] = FALSE]
     /\ starts' = [starts EXCEPT ![t] = mine[t].open]
     /\ loop' = [loop EXCEPT ![mine[t].open] =
                   [at |-> "none", on |-> w, handle |-> mine[t].handle, source |-> 0]]
     /\ mine' = [mine EXCEPT ![t] = Replaced(w)]
     /\ Goto(t, "swap")
     /\ UNCHANGED <<object, opens, tr, writer, late, tainted, faults>>

\* The old handle is closed, then the reader of the new one starts.
Swap(t) ==
  /\ pc[t] = "swap"
  /\ Closed(mine[t].handle)
  /\ mine' = [mine EXCEPT ![t] = None]
  /\ loop' = [loop EXCEPT ![starts[t]].at = "issue"]
  /\ starts' = [starts EXCEPT ![t] = 0]
  /\ Goto(t, AfterEnsure(t))
  /\ UNCHANGED <<opens, sessions, tr, writer, late, tainted, faults>>

-----------------------------------------------------------------------------
(* ClosePreferredInput: the classic session, then that of the G27.          *)

FirstShut == IF "classic" \in Wheels THEN "classic" ELSE "g27"

ShutTarget(t) == IF pc[t] = "shut" THEN FirstShut ELSE "g27"

Shut(t) ==
  /\ pc[t] \in {"shut", "shutlast"}
  /\ LET w == ShutTarget(t)
     IN /\ mine' = [mine EXCEPT ![t] = shared[w]]
        /\ shared' = Gone(w)
        /\ latest' = [latest EXCEPT ![w] = 0]
        /\ backoff' = [backoff EXCEPT ![w] = FALSE]
        /\ Goto(t, IF w = "classic" /\ "g27" \in Wheels THEN "shutnext" ELSE "shutclose")
  /\ UNCHANGED <<object, opens, loop, starts, tr, writer, late, tainted, faults>>

\* A mode switch goes on with a handle of its own on the compatibility interface.
ShutClose(t) ==
  /\ pc[t] \in {"shutnext", "shutclose"}
  /\ Closed(mine[t].handle)
  /\ mine' = [mine EXCEPT ![t] = None]
  /\ Goto(t, IF pc[t] = "shutnext" THEN "shutlast"
             ELSE IF op[t].do = "switch" THEN "own" ELSE "idle")
  /\ UNCHANGED <<opens, sessions, loop, starts, tr, writer, late, tainted, faults>>

-----------------------------------------------------------------------------
(* The read loop of open o.                                                *)

Ran(o, l) == loop' = [loop EXCEPT ![o].at = l]
Ended(o) == loop' = [loop EXCEPT ![o] = [NoLoop EXCEPT !.at = "ended"]]
Session(o) == [handle |-> loop[o].handle, open |-> o]

\* ReadFile on the value of the handle, whatever it refers to by now.
Issue(o) ==
  /\ loop[o].at = "issue"
  /\ LET file == object[loop[o].handle]
     IN loop' = [loop EXCEPT ![o].at = IF file = 0 THEN "failed" ELSE "pending",
                             ![o].source = file]
  /\ UNCHANGED <<object, opens, sessions, pc, op, locals, writer, late, tainted, faults>>

\* The read fails, or the handle was closed under it.
ReadFails(o) ==
  /\ loop[o].at = "pending"
  /\ \/ object[loop[o].handle] # loop[o].source /\ UNCHANGED faults
     \/ Fault
  /\ loop' = [loop EXCEPT ![o].at = "failed", ![o].source = 0]
  /\ UNCHANGED <<object, opens, sessions, pc, op, locals, writer, late, tainted>>

\* Every 250 ms the G27 loop looks whether the session is still its own.
ReadStale(o) ==
  /\ loop[o].at = "pending"
  /\ loop[o].on = "g27" /\ ~Current("g27", Session(o))
  /\ Ended(o)
  /\ UNCHANGED <<object, opens, sessions, pc, op, locals, writer, late, tainted, faults>>

\* A report that arrived, maybe before the handle was closed, is published now.
Publish(o) ==
  /\ loop[o].at = "pending"
  /\ latest' = IF Current(loop[o].on, Session(o))
               THEN [latest EXCEPT ![loop[o].on] = loop[o].source] ELSE latest
  /\ loop' = [loop EXCEPT ![o].at = "issue", ![o].source = 0]
  /\ UNCHANGED <<object, opens, shared, backoff, pc, op, locals, writer, late, tainted, faults>>

\* Mutant: the G27 loop closes its handle like the classic one.
ClosesAnyway(o) == TRUE

\* The G27 loop closes the handle only if it took it out of the session itself.
Closes(o) == loop[o].on = "classic" \/ Current(loop[o].on, Session(o))

LoopFails(o) ==
  /\ loop[o].at = "failed"
  /\ IF Current(loop[o].on, Session(o))
     THEN /\ shared' = Gone(loop[o].on)
          /\ backoff' = [backoff EXCEPT ![loop[o].on] = TRUE]
     ELSE UNCHANGED <<shared, backoff>>
  /\ IF Closes(o) THEN Ran(o, "closing") ELSE Ended(o)
  /\ UNCHANGED <<object, opens, latest, pc, op, locals, writer, late, tainted, faults>>

LoopCloses(o) ==
  /\ loop[o].at = "closing"
  /\ Closed(loop[o].handle)
  /\ Ended(o)
  /\ UNCHANGED <<opens, sessions, pc, op, locals, writer, late, tainted, faults>>

-----------------------------------------------------------------------------
(* Transports: openNativeHIDTransport, openOpenG27CompatibleSwitchTransport. *)

Borrow(t) ==
  /\ pc[t] = "borrow"
  /\ IF shared["g27"].handle = NoHandle
     THEN Goto(t, "idle") /\ UNCHANGED tr
     ELSE /\ tr' = [tr EXCEPT ![t] = [handle |-> shared["g27"].handle, open |-> shared["g27"].open,
                                      borrowed |-> TRUE, compat |-> FALSE]]
          /\ Goto(t, "ready")
  /\ UNCHANGED <<object, opens, sessions, loop, mine, starts, writer, late, tainted, faults>>

\* An overlapped handle, or after its failure one for HidD_SetOutputReport; the
\* mode switch has no such second choice.
OpenOwn(t) ==
  /\ pc[t] = "own"
  /\ \/ \E h \in Handles, c \in {FALSE} \cup {op[t].do # "switch"} :
          /\ Opened(h)
          /\ tr' = [tr EXCEPT ![t] = [handle |-> h, open |-> opens + 1,
                                      borrowed |-> FALSE, compat |-> c]]
          /\ Goto(t, "ready")
          /\ IF c THEN Fault ELSE UNCHANGED faults
     \/ OpenFails /\ Goto(t, "idle") /\ UNCHANGED <<object, opens, tr>>
  /\ UNCHANGED <<sessions, loop, mine, starts, writer, late, tainted>>

\* nativeHIDTransport.Close. A switch then waits for the wheel and reads it.
CloseTransport(t) ==
  /\ pc[t] = "ready"
  /\ IF tr[t].borrowed THEN UNCHANGED object ELSE Closed(tr[t].handle)
  /\ tr' = [tr EXCEPT ![t] = NoTransport]
  /\ Goto(t, IF op[t].do = "switch" /\ op[t].on = "g27" THEN "look" ELSE "idle")
  /\ UNCHANGED <<opens, sessions, loop, mine, starts, writer, late, tainted, faults>>

Lend(t) == [handle |-> tr[t].handle, open |-> tr[t].open]

\* writeReportContext: a borrowed session is looked at before the write lock ...
WriteReport(t) ==
  /\ pc[t] = "ready"
  /\ IF tr[t].borrowed
     THEN IF Current("g27", Lend(t)) THEN Goto(t, "lock") /\ UNCHANGED tr
          ELSE Goto(t, "idle") /\ tr' = [tr EXCEPT ![t] = NoTransport]
     ELSE Goto(t, IF tr[t].compat THEN "spawn" ELSE "write") /\ UNCHANGED tr
  /\ UNCHANGED <<object, opens, sessions, loop, mine, starts, writer, late, tainted, faults>>

LockWrites(t) ==
  /\ pc[t] = "lock"
  /\ writer = 0
  /\ writer' = t
  /\ Goto(t, "recheck")
  /\ UNCHANGED <<object, opens, sessions, loop, locals, late, tainted, faults>>

\* Mutant: the session is not looked at again.
StillThere(t) == TRUE

\* ... and again under it.
StillCurrent(t) == Current("g27", Lend(t))

Unlocked(t) == writer' = IF writer = t THEN 0 ELSE writer

Recheck(t) ==
  /\ pc[t] = "recheck"
  /\ IF StillCurrent(t)
     THEN Goto(t, IF tr[t].compat THEN "spawn" ELSE "write") /\ UNCHANGED <<tr, writer>>
     ELSE Goto(t, "idle") /\ tr' = [tr EXCEPT ![t] = NoTransport] /\ Unlocked(t)
  /\ UNCHANGED <<object, opens, sessions, loop, mine, starts, late, tainted, faults>>

\* WriteFile completes, fails at once, or is pending.
Write(t) ==
  /\ pc[t] = "write"
  /\ \/ Goto(t, "ready") /\ Unlocked(t)
     \/ object[tr[t].handle] # 0 /\ Goto(t, "wait") /\ UNCHANGED writer
  /\ UNCHANGED <<object, opens, sessions, loop, locals, late, tainted, faults>>

\* The write was refused before it was queued: the same handle goes on with
\* HidD_SetOutputReport if it is borrowed, another one is opened otherwise.
Unsupported(t) ==
  /\ pc[t] = "write"
  /\ Fault
  /\ IF tr[t].borrowed
     THEN /\ tr' = [tr EXCEPT ![t].compat = TRUE]
          /\ Goto(t, "spawn")
          /\ UNCHANGED object
     ELSE /\ Closed(tr[t].handle)
          /\ tr' = [tr EXCEPT ![t] = NoTransport]
          /\ Goto(t, "reopen")
  /\ UNCHANGED <<opens, sessions, loop, mine, starts, writer, late, tainted>>

Reopen(t) ==
  /\ pc[t] = "reopen"
  /\ \/ \E h \in Handles :
          /\ Opened(h)
          /\ tr' = [tr EXCEPT ![t] = [handle |-> h, open |-> opens + 1,
                                      borrowed |-> FALSE, compat |-> TRUE]]
          /\ Goto(t, "spawn")
          /\ UNCHANGED faults
     \/ OpenFails /\ Goto(t, "idle") /\ UNCHANGED <<object, opens, tr>>
  /\ UNCHANGED <<sessions, loop, mine, starts, writer, late, tainted>>

\* The pending write is confirmed.
Confirmed(t) ==
  /\ pc[t] = "wait"
  /\ Goto(t, "ready")
  /\ Unlocked(t)
  /\ UNCHANGED <<object, opens, sessions, loop, locals, late, tainted, faults>>

\* The goroutine that calls HidD_SetOutputReport with the value of the handle.
Spawn(t) ==
  /\ pc[t] = "spawn"
  /\ late' = late \cup {<<t, tr[t].handle, tr[t].open>>}
  /\ Goto(t, "await")
  /\ UNCHANGED <<object, opens, sessions, loop, locals, writer, tainted, faults>>

LateWrite(l) ==
  /\ late' = late \ {l}
  /\ UNCHANGED <<object, opens, sessions, loop, pc, op, locals, writer, tainted, faults>>

Answered(t) ==
  /\ pc[t] = "await"
  /\ <<t, tr[t].handle, tr[t].open>> \notin late
  /\ Goto(t, "ready")
  /\ Unlocked(t)
  /\ UNCHANGED <<object, opens, sessions, loop, locals, late, tainted, faults>>

\* Time-out, partial write or failed completion query, as when the handle was closed
\* under the write: nobody knows what reached the wheel.
Ambiguous(t) ==
  /\ pc[t] \in {"wait", "await"}
  /\ \/ object[tr[t].handle] # tr[t].open /\ UNCHANGED faults
     \/ Fault
  /\ tainted' = tainted \cup {tr[t].open}
  /\ Goto(t, "poison")
  /\ UNCHANGED <<object, opens, sessions, loop, locals, writer, late>>

\* poisonAndCloseLocked: a borrowed session is invalidated, if it is still there.
Poison(t) ==
  /\ pc[t] = "poison"
  /\ IF tr[t].borrowed
     THEN IF Current("g27", Lend(t))
          THEN /\ mine' = [mine EXCEPT ![t] = Lend(t)]
               /\ shared' = Gone("g27")
               /\ backoff' = [backoff EXCEPT !["g27"] = TRUE]
          ELSE UNCHANGED <<mine, shared, backoff>>
     ELSE mine' = [mine EXCEPT ![t] = Lend(t)] /\ UNCHANGED <<shared, backoff>>
  /\ tr' = [tr EXCEPT ![t] = NoTransport]
  /\ Goto(t, "discard")
  /\ UNCHANGED <<object, opens, latest, loop, starts, writer, late, tainted, faults>>

Discard(t) ==
  /\ pc[t] = "discard"
  /\ Closed(mine[t].handle)
  /\ mine' = [mine EXCEPT ![t] = None]
  /\ Goto(t, "idle")
  /\ Unlocked(t)
  /\ UNCHANGED <<opens, sessions, loop, starts, tr, late, tainted, faults>>

-----------------------------------------------------------------------------
CallerStep(t) ==
  \/ Look(t) \/ Due(t) \/ Create(t) \/ CreateFails(t) \/ Install(t) \/ Swap(t)
  \/ Shut(t) \/ ShutClose(t)
  \/ Borrow(t) \/ OpenOwn(t) \/ CloseTransport(t)
  \/ WriteReport(t) \/ LockWrites(t) \/ Recheck(t) \/ Write(t) \/ Unsupported(t) \/ Reopen(t)
  \/ Confirmed(t) \/ Spawn(t) \/ Answered(t) \/ Ambiguous(t) \/ Poison(t) \/ Discard(t)

LoopStep(o) ==
  \/ Issue(o) \/ ReadFails(o) \/ ReadStale(o) \/ Publish(o)
  \/ LoopFails(o) \/ LoopCloses(o)

Next ==
  \/ \E t \in Callers : CallerStep(t) \/ \E o \in Ops, w \in Wheels : Start(t, o, w)
  \/ \E o \in Opens : LoopStep(o)
  \/ \E w \in Wheels : BackoffOver(w)
  \/ \E l \in late : LateWrite(l)

Spec == Init /\ [][Next]_vars

-----------------------------------------------------------------------------
(* Safety.                                                                 *)

\* The handles that a caller or a read loop is about to close or to install.
Held == {mine[t] : t \in Callers} \cup
        {Lend(t) : t \in {c \in Callers : ~tr[c].borrowed}} \cup
        {Session(o) : o \in {x \in Opens : loop[x].at = "closing"}}

\* Whoever is about to close a handle closes the file it opened, and not a second
\* time, nor one that has got the same value since (ensureG27SharedReader,
\* invalidateG27SharedOutput, g27SharedReadLoop, ClosePreferredInput and
\* poisonAndCloseLocked all close after they have given up the lock).
ClosedOnce == \A s \in Held : s.handle # NoHandle => object[s.handle] = s.open

\* No session that is replaced, invalidated, poisoned or closed leaks its handle.
NoLeak ==
  \A h \in Handles : object[h] \in Opens =>
    LET s == [handle |-> h, open |-> object[h]]
    IN s \in Held \/ \E w \in Wheels : shared[w] = s

\* The report shown for an open session was read from that session: a loop of an
\* older one publishes nothing, even if the new session has the same handle value.
LatestIsLive ==
  \A w \in Wheels :
    shared[w].handle # NoHandle /\ latest[w] # 0 => latest[w] = shared[w].open

\* After a write with an unknown outcome no other transport starts a report on the
\* same session: it is invalidated before the write lock is given up.
AmbiguousNotReused ==
  \A t \in Callers : pc[t] \in {"write", "spawn"} => tr[t].open \notin tainted

-----------------------------------------------------------------------------
(* Liveness.                                                               *)

\* Goroutines are scheduled, back-offs run out, the timer polls the input again and
\* again, and a report that was handed to the driver is written.
Fairness ==
  /\ \A t \in Callers : WF_vars(CallerStep(t))
  /\ \A w \in Wheels : /\ SF_vars(Start(Reader, "read", w))
                       /\ WF_vars(BackoffOver(w))
  /\ WF_vars(\E l \in late : LateWrite(l))

FairSpec == Spec /\ Fairness

\* A session that was lost, invalidated or closed is opened again.
SessionReopens ==
  \A w \in Wheels : shared[w].open = 0 ~> (shared[w].open # 0 \/ opens = MaxOpens)
=============================================================================
