--------------------------- MODULE HidSessionProofs ---------------------------
(***************************************************************************)
(* Proofs about the HID handles of the G27, for any number of goroutines,   *)
(* handle values, opens and failures: no handle is closed twice or leaked,  *)
(* no report of an older session is published, and no report is started on  *)
(* a session that has an unknown outcome. They are about a process that     *)
(* uses the session of the G27 alone: the read loop of the other session    *)
(* closes its handle in any case.                                           *)
(*                                                                         *)
(* The argument is about ownership. An open handle lies in one place: in    *)
(* the session, with a caller that took it out or opened it, in a transport *)
(* that does not borrow, or with a read loop about to close it. A step      *)
(* opens a handle into a place that is empty, closes the one of a place, or *)
(* lets two places trade.                                                   *)
(***************************************************************************)
EXTENDS HidSession, TLAPS

OnlyG27 == Wheels = {"g27"}

MineOf(t) == <<"mine", t>>
OwnOf(t) == <<"own", t>>
LoopOf(o) == <<"loop", o>>
InSession == <<"shared", "g27">>

Places == {MineOf(t) : t \in Callers} \cup {OwnOf(t) : t \in Callers}
          \cup {LoopOf(o) : o \in Opens} \cup {InSession}

OwnHandle(t) == IF tr[t].borrowed THEN None ELSE Lend(t)
LoopHandle(o) == IF loop[o].at = "closing" THEN Session(o) ELSE None

(* What lies in each place.                                                 *)
owns == [p \in Places |->
          CASE p[1] = "mine" -> mine[p[2]]
            [] p[1] = "own"  -> OwnHandle(p[2])
            [] p[1] = "loop" -> LoopHandle(p[2])
            [] OTHER         -> shared["g27"]]

(* Every place is empty or holds an open handle that lies nowhere else, and  *)
(* every open handle lies somewhere.                                        *)
Sound(obj, n, own) ==
  /\ \A p \in Places :
       \/ own[p] = None
       \/ /\ own[p].handle \in Handles /\ own[p].open \in 1..n
          /\ obj[own[p].handle] = own[p].open
  /\ \A p \in Places, q \in Places :
       p # q /\ own[p] # None /\ own[q] # None
         => own[p].handle # own[q].handle /\ own[p].open # own[q].open
  /\ \A h \in Handles : obj[h] # 0 => \E p \in Places : own[p] # None /\ own[p].handle = h

OwnsSoundly == Sound(object, opens, owns)

Carrying == {"ready", "lock", "recheck", "write", "spawn", "wait", "await", "poison"}
Locking == {"recheck", "write", "spawn", "wait", "await", "poison"}
Taking == {"install", "swap", "shutclose", "discard"}
Labels == {"idle", "look", "due", "create", "shut", "borrow", "own", "reopen"}
          \cup Taking \cup Carrying

(* What a caller carries at each of its steps.                              *)
Placed(t) ==
  /\ mine[t] # None => pc[t] \in Taking
  /\ pc[t] = "install" => mine[t] # None
  /\ pc[t] = "swap" <=> starts[t] # 0
  /\ pc[t] \in Carrying => tr[t].handle \in Handles /\ tr[t].open \in 1..opens
  /\ pc[t] \notin Carrying => tr[t] = NoTransport
  /\ pc[t] \in {"lock", "recheck"} => tr[t].borrowed
  /\ pc[t] \in Locking /\ tr[t].borrowed => writer = t

Control == pc \in [Callers -> Labels] /\ \A t \in Callers : Placed(t)

(* An open that was installed as a session stays known as one.               *)
Installed(o) == loop[o].at # "none" \/ loop[o].handle # NoHandle

Knows(t) ==
  /\ pc[t] = "install" => ~Installed(mine[t].open)
  /\ starts[t] # 0 => loop[starts[t]].at = "none" /\ Installed(starts[t])
  /\ \A u \in Callers : t # u /\ starts[t] # 0 => starts[t] # starts[u]
  /\ pc[t] \in Carrying => (tr[t].borrowed <=> Installed(tr[t].open))
  /\ tr[t].borrowed /\ tr[t].open = shared["g27"].open => tr[t].handle = shared["g27"].handle

Known ==
  /\ \A o \in Opens : Installed(o) => o <= opens
  /\ shared["g27"] # None => Installed(shared["g27"].open)
  /\ \A t \in Callers : Knows(t)

(* Where an open with an unknown outcome may still be.                       *)
Avoids(t) ==
  /\ pc[t] = "install" => mine[t].open \notin tainted
  /\ pc[t] \in Carrying /\ ~tr[t].borrowed /\ pc[t] # "poison" => tr[t].open \notin tainted
  /\ pc[t] \in {"write", "spawn"} => tr[t].open \notin tainted

Poisons(t) ==
  writer = t /\ pc[t] = "poison" /\ tr[t].borrowed /\ tr[t].open = shared["g27"].open

Tainting ==
  /\ \A o \in tainted : o <= opens
  /\ \A t \in Callers : Avoids(t)
  /\ shared["g27"].open \in tainted => \E t \in Callers : Poisons(t)

(* A read loop that runs has a handle, and a read that is pending on the     *)
(* session reads that session.                                              *)
LoopRuns(o) == loop[o].at \notin {"none", "ended"}

Reading ==
  /\ \A o \in Opens : LoopRuns(o) => loop[o].handle # NoHandle
  /\ \A o \in Opens : loop[o].at = "pending" /\ Current("g27", Session(o)) => loop[o].source = o
  /\ LatestIsLive

IInv == TypeOK /\ OwnsSoundly /\ Control /\ Known /\ Tainting /\ Reading

-----------------------------------------------------------------------------
(* Ownership.                                                               *)

\* Opening a handle into an empty place.
LEMMA SoundOpens ==
  ASSUME NEW n \in Nat, NEW obj \in [Handles -> 0..n], NEW own, NEW new, Sound(obj, n, own),
         NEW p \in Places, NEW h \in Handles, own[p] = None, obj[h] = 0,
         new[p] # None, new[p].handle = h, new[p].open = n + 1,
         \A q \in Places \ {p} : new[q] = own[q]
  PROVE  Sound([obj EXCEPT ![h] = n + 1], n + 1, new)
<1> DEFINE ob == [obj EXCEPT ![h] = n + 1]
<1>1. /\ ob[h] = n + 1 /\ \A g \in Handles : g # h => ob[g] = obj[g]
      /\ \A o \in 1..n : o \in 1..(n + 1) /\ o # n + 1
      /\ n + 1 \in 1..(n + 1)
  OBVIOUS
<1> HIDE DEF ob
<1>2. ASSUME NEW q \in Places \ {p}, new[q] # None
      PROVE  /\ new[q].handle \in Handles /\ new[q].handle # h /\ new[q].open \in 1..n
             /\ obj[new[q].handle] = new[q].open
  BY <1>2 DEF Sound
<1>3. ASSUME NEW q \in Places
      PROVE  \/ new[q] = None
             \/ /\ new[q].handle \in Handles /\ new[q].open \in 1..(n + 1)
                /\ ob[new[q].handle] = new[q].open
  BY <1>1, <1>2
<1>4. ASSUME NEW q \in Places, NEW r \in Places, q # r, new[q] # None, new[r] # None
      PROVE  new[q].handle # new[r].handle /\ new[q].open # new[r].open
  <2>1. CASE q = p
    BY <1>1, <1>2, <1>4, <2>1
  <2>2. CASE r = p
    BY <1>1, <1>2, <1>4, <2>2
  <2>3. CASE q # p /\ r # p
    BY <1>4, <2>3 DEF Sound
  <2> QED
    BY <2>1, <2>2, <2>3
<1>5. ASSUME NEW g \in Handles, ob[g] # 0
      PROVE  \E q \in Places : new[q] # None /\ new[q].handle = g
  <2>1. CASE g = h
    BY <2>1
  <2>2. CASE g # h
    BY <1>1, <1>5, <2>2 DEF Sound
  <2> QED
    BY <2>1, <2>2
<1> QED
  BY <1>3, <1>4, <1>5 DEF Sound, ob

\* Closing the handle of a place.
LEMMA SoundCloses ==
  ASSUME NEW n, NEW obj \in [Handles -> Nat], NEW own, NEW new, Sound(obj, n, own),
         NEW p \in Places, own[p] # None, new[p] = None,
         \A q \in Places \ {p} : new[q] = own[q]
  PROVE  Sound([obj EXCEPT ![own[p].handle] = 0], n, new)
<1> DEFINE h == own[p].handle
           ob == [obj EXCEPT ![h] = 0]
<1>1. h \in Handles
  BY DEF Sound
<1>2. ob[h] = 0 /\ \A g \in Handles : g # h => ob[g] = obj[g]
  BY <1>1
<1>3. ASSUME NEW q \in Places \ {p}, new[q] # None
      PROVE  /\ new[q].handle \in Handles /\ new[q].handle # h /\ new[q].open \in 1..n
             /\ obj[new[q].handle] = new[q].open
  BY <1>3 DEF Sound
<1> HIDE DEF ob, h
<1>4. ASSUME NEW q \in Places
      PROVE  \/ new[q] = None
             \/ /\ new[q].handle \in Handles /\ new[q].open \in 1..n
                /\ ob[new[q].handle] = new[q].open
  BY <1>2, <1>3
<1>5. ASSUME NEW q \in Places, NEW r \in Places, q # r, new[q] # None, new[r] # None
      PROVE  new[q].handle # new[r].handle /\ new[q].open # new[r].open
  BY <1>5 DEF Sound
<1>6. ASSUME NEW g \in Handles, ob[g] # 0
      PROVE  \E q \in Places : new[q] # None /\ new[q].handle = g
  BY <1>2, <1>6 DEF Sound, h
<1> QED
  BY <1>4, <1>5, <1>6 DEF Sound, ob, h

\* Two places trade what they hold.
LEMMA SoundTrades ==
  ASSUME NEW n, NEW obj, NEW own, NEW new, Sound(obj, n, own),
         NEW p \in Places, NEW q \in Places, new[p] = own[q], new[q] = own[p],
         \A r \in Places \ {p, q} : new[r] = own[r]
  PROVE  Sound(obj, n, new)
<1>1. PICK other \in [Places -> Places] :
        /\ \A r \in Places : new[r] = own[other[r]]
        /\ \A r \in Places : other[other[r]] = r
  <2> DEFINE f == [r \in Places |-> IF r = p THEN q ELSE IF r = q THEN p ELSE r]
  <2>1. f \in [Places -> Places] /\ \A r \in Places : f[f[r]] = r /\ new[r] = own[f[r]]
    OBVIOUS
  <2> QED
    BY <2>1
<1>2. \A r, s \in Places : r # s => other[r] # other[s]
  BY <1>1
<1>3. ASSUME NEW g \in Handles, obj[g] # 0
      PROVE  \E r \in Places : new[r] # None /\ new[r].handle = g
  <2>1. PICK r \in Places : own[r] # None /\ own[r].handle = g
    BY <1>3 DEF Sound
  <2> QED
    BY <1>1, <2>1
<1> QED
  BY <1>1, <1>2, <1>3 DEF Sound

\* What lies in each place, before and after a step.
LEMMA OwnsIs ==
  /\ \A t \in Callers : /\ MineOf(t) \in Places /\ OwnOf(t) \in Places
                        /\ owns[MineOf(t)] = mine[t] /\ owns'[MineOf(t)] = mine'[t]
                        /\ owns[OwnOf(t)] = OwnHandle(t) /\ owns'[OwnOf(t)] = OwnHandle(t)'
  /\ \A o \in Opens : /\ LoopOf(o) \in Places
                      /\ owns[LoopOf(o)] = LoopHandle(o) /\ owns'[LoopOf(o)] = LoopHandle(o)'
  /\ InSession \in Places /\ owns[InSession] = shared["g27"] /\ owns'[InSession] = shared'["g27"]
<1>1. ASSUME NEW t \in Callers
      PROVE  /\ MineOf(t) \in Places /\ OwnOf(t) \in Places
             /\ owns[MineOf(t)] = mine[t] /\ owns'[MineOf(t)] = mine'[t]
             /\ owns[OwnOf(t)] = OwnHandle(t) /\ owns'[OwnOf(t)] = OwnHandle(t)'
  <2>1. MineOf(t) \in Places /\ OwnOf(t) \in Places
    BY DEF Places
  <2>2. MineOf(t)[1] = "mine" /\ MineOf(t)[2] = t /\ OwnOf(t)[1] = "own" /\ OwnOf(t)[2] = t
    BY DEF MineOf, OwnOf
  <2> QED
    BY <2>1, <2>2 DEF owns
<1>2. ASSUME NEW o \in Opens
      PROVE  /\ LoopOf(o) \in Places
             /\ owns[LoopOf(o)] = LoopHandle(o) /\ owns'[LoopOf(o)] = LoopHandle(o)'
  <2>1. LoopOf(o) \in Places /\ LoopOf(o)[1] = "loop" /\ LoopOf(o)[2] = o
    BY DEF Places, LoopOf
  <2> QED
    BY <2>1 DEF owns
<1>3. InSession \in Places /\ InSession[1] = "shared"
  BY DEF Places, InSession
<1>4. owns[InSession] = shared["g27"] /\ owns'[InSession] = shared'["g27"]
  BY <1>3 DEF owns
<1> QED
  BY <1>1, <1>2, <1>3, <1>4

\* Places are different if they are of different kinds or owners.
LEMMA PlacesDiffer ==
  /\ \A t, u : MineOf(t) # OwnOf(u) /\ MineOf(t) # LoopOf(u) /\ OwnOf(t) # LoopOf(u)
  /\ \A t : MineOf(t) # InSession /\ OwnOf(t) # InSession /\ LoopOf(t) # InSession
  /\ \A t, u : t # u => MineOf(t) # MineOf(u) /\ OwnOf(t) # OwnOf(u) /\ LoopOf(t) # LoopOf(u)
  BY DEF MineOf, OwnOf, LoopOf, InSession

\* Only the places in P change.
LEMMA OwnsKept ==
  ASSUME NEW P \in SUBSET Places,
         \A t \in Callers : /\ MineOf(t) \in P \/ mine'[t] = mine[t]
                            /\ OwnOf(t) \in P \/ OwnHandle(t)' = OwnHandle(t),
         \A o \in Opens : LoopOf(o) \in P \/ LoopHandle(o)' = LoopHandle(o),
         InSession \in P \/ shared'["g27"] = shared["g27"]
  PROVE  \A q \in Places \ P : owns'[q] = owns[q]
<1> SUFFICES ASSUME NEW q \in Places \ P PROVE owns'[q] = owns[q]
  OBVIOUS
<1>1. \/ \E t \in Callers : q = MineOf(t) \/ q = OwnOf(t)
      \/ \E o \in Opens : q = LoopOf(o)
      \/ q = InSession
  BY DEF Places
<1> QED
  BY <1>1, OwnsIs

\* Facts about the values that mean "none".
LEMMA Nothing ==
  ASSUME OnlyG27
  PROVE  /\ None.handle = NoHandle /\ None.open = 0
         /\ NoTransport.handle = NoHandle /\ NoTransport.open = 0 /\ ~NoTransport.borrowed
         /\ NoTransport \in [handle : Handles \cup {NoHandle}, open : Opens \cup {0},
                             borrowed : BOOLEAN, compat : BOOLEAN]
         /\ None \in Owned /\ NoHandle \notin Handles /\ 0 \notin Opens /\ 0 \notin Callers
         /\ NoOp \in [do : Ops, on : Wheels] /\ "g27" \in Wheels
         /\ MaxOpens \in Nat /\ Opens \subseteq Nat /\ AnyWheel = "g27"
<1>1. AnyWheel = "g27"
  BY DEF AnyWheel, OnlyG27
<1>2. 0 \notin Opens /\ Opens \subseteq Nat /\ MaxOpens \in Nat
  BY HidAssumption DEF Opens
<1> QED
  BY <1>1, <1>2, HidAssumption DEF None, NoTransport, Owned, NoOp, Ops, OnlyG27

\* The next step of a call.
LEMMA GotoFits ==
  ASSUME OnlyG27, IInv, NEW t \in Callers, NEW l \in Labels, Goto(t, l)
  PROVE  /\ pc' \in [Callers -> Labels] /\ op' \in [Callers -> [do : Ops, on : Wheels]]
         /\ pc'[t] = l /\ \A u \in Callers \ {t} : pc'[u] = pc[u]
  BY Nothing DEF IInv, Control, TypeOK, Goto

\* The others stay where they are while one caller takes a step.
LEMMA ControlKeeps ==
  ASSUME OnlyG27, IInv, NEW t \in Callers, pc' \in [Callers -> Labels], opens' \in Nat,
         opens' = opens \/ opens' = opens + 1,
         \A u \in Callers \ {t} :
           pc'[u] = pc[u] /\ mine'[u] = mine[u] /\ starts'[u] = starts[u] /\ tr'[u] = tr[u],
         writer' = writer \/ writer = 0 \/ writer = t,
         Placed(t)'
  PROVE  Control'
<1> USE DEF IInv
<1>1. opens \in Nat /\ opens <= opens'
  BY Nothing DEF TypeOK
<1>2. ASSUME NEW u \in Callers \ {t}
      PROVE  Placed(u)'
  <2>1. tr[u].open \in 1..opens => tr[u].open \in 1..opens'
    BY <1>1
  <2>2. Placed(u) /\ (writer = u => writer' = u)
    BY Nothing DEF Control
  <2> QED
    BY <2>1, <2>2 DEF Placed
<1> QED
  BY <1>2 DEF Control

\* A caller at one step, none of the others and no read loop changes.
LEMMA CallerKeeps ==
  ASSUME OnlyG27, IInv, NEW t \in Callers,
         TypeOK', OwnsSoundly', pc' \in [Callers -> Labels],
         loop' = loop, tainted' = tainted, opens' = opens \/ opens' = opens + 1,
         shared'["g27"] = shared["g27"] \/ shared'["g27"] = None,
         latest'["g27"] \in {latest["g27"], 0},
         \A u \in Callers \ {t} :
           pc'[u] = pc[u] /\ mine'[u] = mine[u] /\ starts'[u] = starts[u] /\ tr'[u] = tr[u],
         writer' = writer \/ writer = 0 \/ writer = t,
         ~Poisons(t) \/ shared'["g27"] = None,
         Placed(t)', Knows(t)', Avoids(t)'
  PROVE  IInv'
<1> USE DEF IInv
<1>1. opens \in Nat /\ opens' \in Nat /\ opens <= opens'
  BY Nothing DEF TypeOK
<1>3. Control'
  BY <1>1, ControlKeeps
<1>4. Known'
  <2>1. \A o \in Opens : Installed(o)' => o <= opens'
    BY <1>1, Nothing DEF Known, Installed
  <2>2. shared'["g27"] # None => Installed(shared["g27"].open)'
    BY DEF Known, Installed
  <2>3. ASSUME NEW u \in Callers \ {t}
        PROVE  Knows(u)'
    <3>1. Knows(u) /\ Placed(u)
      BY DEF Known, Control
    <3>2. tr[u].borrowed => tr[u].open # 0
      BY <3>1, Nothing DEF Placed
    <3>3. /\ pc[u] = "install" => ~Installed(mine[u].open)'
          /\ starts[u] # 0 => loop[starts[u]].at = "none" /\ Installed(starts[u])'
          /\ pc[u] \in Carrying => (tr[u].borrowed <=> Installed(tr[u].open)')
      BY <3>1 DEF Knows, Installed
    <3>4. \A v \in Callers : u # v /\ starts[u] # 0 => starts[u] # starts'[v]
      <4>1. \A v \in Callers \ {t} : u # v /\ starts[u] # 0 => starts[u] # starts'[v]
        BY <3>1 DEF Knows
      <4>2. starts[u] # 0 => starts[u] # starts'[t]
        BY DEF Knows
      <4> QED
        BY <4>1, <4>2
    <3>5. tr[u].borrowed /\ tr[u].open = shared'["g27"].open => tr[u].handle = shared'["g27"].handle
      BY <3>1, <3>2, Nothing DEF Knows
    <3> QED
      BY <3>3, <3>4, <3>5 DEF Knows, Installed
  <2> QED
    BY <2>1, <2>2, <2>3 DEF Known, Installed
<1>5. Tainting'
  <2>1. \A o \in tainted : o <= opens'
    BY <1>1, Nothing DEF Tainting, TypeOK
  <2>2. \A u \in Callers \ {t} : Avoids(u)'
    BY DEF Tainting, Avoids
  <2>3. ASSUME shared'["g27"].open \in tainted
        PROVE  \E u \in Callers : Poisons(u)'
    <3>1. shared'["g27"] = shared["g27"] /\ 0 \notin tainted /\ shared'["g27"] # None
      BY <2>3, Nothing DEF TypeOK
    <3>2. PICK u \in Callers : Poisons(u)
      BY <2>3, <3>1 DEF Tainting
    <3>3. u # t /\ writer = u /\ u # 0
      BY <3>1, <3>2, Nothing DEF Poisons
    <3> QED
      BY <3>1, <3>2, <3>3 DEF Poisons
  <2> QED
    BY <2>1, <2>2, <2>3 DEF Tainting
<1>6. Reading'
  <2>1. ASSUME NEW o \in Opens, loop[o].at = "pending", Current("g27", Session(o))'
        PROVE  loop[o].source = o
    BY <2>1, Nothing DEF Reading, Current, Session
  <2>2. LatestIsLive'
    BY Nothing DEF Reading, LatestIsLive, OnlyG27
  <2> QED
    BY <2>1, <2>2 DEF Reading, LoopRuns
<1> QED
  BY <1>3, <1>4, <1>5, <1>6

\* A step that opens and closes nothing and takes no handle.
LEMMA OwnsSame ==
  ASSUME OnlyG27, IInv, UNCHANGED <<object, opens>>, shared'["g27"] = shared["g27"],
         \A t \in Callers : mine'[t] = mine[t] /\ OwnHandle(t)' = OwnHandle(t),
         \A o \in Opens : LoopHandle(o)' = LoopHandle(o)
  PROVE  OwnsSoundly'
<1>1. \A q \in Places : owns'[q] = owns[q]
  <2>1. {} \in SUBSET Places
    OBVIOUS
  <2>2. \A q \in Places \ {} : owns'[q] = owns[q]
    BY <2>1, OwnsKept
  <2> QED
    BY <2>2
<1> QED
  BY <1>1, OwnsIs, SoundTrades DEF IInv, OwnsSoundly

-----------------------------------------------------------------------------
(* Steps of a caller that move no handle.                                   *)

\* A step in the middle of a call, which only looks, waits, or takes or gives back the
\* write lock.
LEMMA QuietKeeps ==
  ASSUME OnlyG27, IInv, NEW t \in Callers,
         UNCHANGED <<object, opens, shared, latest, loop, locals, tainted>>,
         pc' \in [Callers -> Labels], \A u \in Callers \ {t} : pc'[u] = pc[u],
         op' \in [Callers -> [do : Ops, on : Wheels]], backoff' \in [Wheels -> BOOLEAN],
         late' \subseteq Callers \X Handles \X Opens, faults' \in 0..MaxFaults,
         writer' = writer \/ (writer = 0 /\ writer' = t) \/ (writer = t /\ writer' = 0),
         {pc[t], pc'[t]} \cap (Taking \cup {"poison"}) = {},
         pc[t] \in Carrying <=> pc'[t] \in Carrying,
         pc'[t] \in {"lock", "recheck"} => tr[t].borrowed,
         pc'[t] \in Locking /\ tr[t].borrowed => writer' = t,
         pc'[t] \in {"write", "spawn"} => tr[t].open \notin tainted
  PROVE  IInv'
<1>1. /\ shared' = shared /\ latest' = latest /\ mine' = mine /\ starts' = starts /\ tr' = tr
      /\ opens' = opens /\ object' = object /\ loop' = loop /\ tainted' = tainted
  BY DEF locals
<1>2. TypeOK'
  BY <1>1 DEF IInv, TypeOK
<1>3. OwnsSoundly'
  BY <1>1, OwnsSame DEF OwnHandle, LoopHandle, Lend, Session
<1>4. Placed(t) /\ Knows(t) /\ Avoids(t)
  BY DEF IInv, Control, Known, Tainting
<1>5. Placed(t)'
  <2>1. pc[t] # "swap" /\ pc'[t] # "swap" /\ pc'[t] # "install"
    BY DEF Taking
  <2> QED
    BY <1>1, <1>4, <2>1 DEF Placed
<1>6. Knows(t)'
  <2>1. pc'[t] # "install"
    BY DEF Taking
  <2> QED
    BY <1>1, <1>4, <2>1 DEF Knows, Installed
<1>7. Avoids(t)'
  <2>1. pc'[t] # "install" /\ pc[t] # "poison"
    BY DEF Taking
  <2> QED
    BY <1>1, <1>4, <2>1 DEF Avoids
<1>8. ~Poisons(t)
  BY DEF Poisons
<1> QED
  BY <1>1, <1>2, <1>3, <1>5, <1>6, <1>7, <1>8, CallerKeeps

\* A call begins, finds its session, or fails to open one.
LEMMA CallKeeps ==
  ASSUME OnlyG27, IInv, NEW t \in Callers,
         \/ \E o \in Ops, w \in Wheels : Start(t, o, w)
         \/ Look(t) \/ Due(t) \/ CreateFails(t)
  PROVE  IInv'
<1>1. /\ UNCHANGED <<object, opens, shared, latest, loop, locals, writer, late, tainted>>
      /\ backoff' \in [Wheels -> BOOLEAN] /\ faults' \in 0..MaxFaults
  <2>1. backoff \in [Wheels -> BOOLEAN] /\ faults \in 0..MaxFaults /\ MaxFaults \in Nat
    BY HidAssumption DEF IInv, TypeOK
  <2>2. CASE \/ \E o \in Ops, w \in Wheels : Start(t, o, w)
             \/ Look(t) \/ Due(t)
    BY <2>1, <2>2 DEF sessions, Start, Look, Due, Fault
  <2>3. CASE CreateFails(t)
    <3>1. faults' \in 0..MaxFaults
      BY <2>1, <2>3 DEF CreateFails, OpenFails, Fault
    <3>2. backoff' \in [Wheels -> BOOLEAN]
      BY <2>1, <2>3 DEF CreateFails
    <3> QED
      BY <2>3, <3>1, <3>2 DEF CreateFails
  <2> QED
    BY <2>2, <2>3
<1>2. /\ pc' \in [Callers -> Labels] /\ \A u \in Callers \ {t} : pc'[u] = pc[u]
      /\ op' \in [Callers -> [do : Ops, on : Wheels]]
      /\ pc[t] \in {"idle", "look", "due", "create"}
      /\ pc'[t] \in {"look", "own", "shut", "borrow", "idle", "due", "create"}
  <2>1. ASSUME NEW o \in Ops, NEW w \in Wheels, Start(t, o, w)
        PROVE  <1>2
    BY <2>1 DEF Start, IInv, TypeOK, Control, Labels
  <2>2. AfterEnsure(t) \in {"borrow", "idle"} /\ {"borrow", "idle", "due", "create"} \subseteq Labels
    BY DEF AfterEnsure, Labels
  <2>3. CASE Look(t) \/ Due(t) \/ CreateFails(t)
    <3>1. PICK l \in {"borrow", "idle", "due", "create"} : Goto(t, l)
      BY <2>2, <2>3 DEF Look, Due, CreateFails
    <3>2. pc[t] \in {"look", "due", "create"}
      BY <2>3 DEF Look, Due, CreateFails
    <3> QED
      BY <2>2, <3>1, <3>2, GotoFits
  <2> QED
    BY <2>1, <2>3
<1>3. /\ {pc[t], pc'[t]} \cap (Taking \cup {"poison"}) = {}
      /\ pc[t] \notin Carrying /\ pc'[t] \notin Carrying
  BY <1>2 DEF Taking, Carrying
<1>4. pc'[t] \notin {"lock", "recheck", "write", "spawn"} /\ pc'[t] \notin Locking
      /\ late' \subseteq Callers \X Handles \X Opens
  BY <1>1, <1>2 DEF Locking, IInv, TypeOK
<1> QED
  BY <1>1, <1>2, <1>3, <1>4, QuietKeeps

\* A report is written with the write lock, if the session is borrowed.
LEMMA WriteKeeps ==
  ASSUME OnlyG27, IInv, NEW t \in Callers,
         \/ WriteReport(t) /\ tr' = tr
         \/ LockWrites(t)
         \/ Recheck(t) /\ tr' = tr
         \/ Write(t) \/ Confirmed(t) \/ Spawn(t) \/ Answered(t)
  PROVE  IInv'
<1>0. Placed(t) /\ Avoids(t) /\ tainted \subseteq Opens
  BY DEF IInv, Control, Tainting, TypeOK
<1>1. UNCHANGED <<object, opens, shared, latest, backoff, loop, locals, tainted, faults>>
  BY DEF sessions, locals, WriteReport, LockWrites, Recheck, Write, Confirmed, Spawn, Answered
<1>2. PICK l \in {"ready", "lock", "recheck", "write", "spawn", "wait", "await"} :
        /\ Goto(t, l)
        /\ \/ /\ pc[t] = "ready" /\ writer' = writer
              /\ IF tr[t].borrowed THEN l = "lock" ELSE l \in {"spawn", "write"}
           \/ pc[t] = "lock" /\ l = "recheck" /\ writer = 0 /\ writer' = t
           \/ pc[t] = "recheck" /\ l \in {"spawn", "write"} /\ StillCurrent(t) /\ writer' = writer
           \/ pc[t] \in {"write", "wait", "await"} /\ l = "ready" /\ Unlocked(t)
           \/ pc[t] = "write" /\ l = "wait" /\ writer' = writer
           \/ pc[t] = "spawn" /\ l = "await" /\ writer' = writer
  <2>1. pc[t] \in {"ready", "recheck"} => tr' # [tr EXCEPT ![t] = NoTransport] \/ tr' # tr
    BY <1>0, Nothing DEF Placed, Carrying, IInv, TypeOK
  <2>2. CASE WriteReport(t) /\ tr' = tr
    BY <2>1, <2>2 DEF WriteReport
  <2>3. CASE LockWrites(t)
    BY <2>3 DEF LockWrites
  <2>4. CASE Recheck(t) /\ tr' = tr
    BY <2>1, <2>4 DEF Recheck
  <2>5. CASE Write(t)
    BY <2>5 DEF Write
  <2>6. CASE Confirmed(t) \/ Spawn(t) \/ Answered(t)
    BY <2>6 DEF Confirmed, Spawn, Answered
  <2> QED
    BY <2>2, <2>3, <2>4, <2>5, <2>6
<1>3. /\ pc' \in [Callers -> Labels] /\ \A u \in Callers \ {t} : pc'[u] = pc[u]
      /\ op' \in [Callers -> [do : Ops, on : Wheels]]
      /\ pc'[t] = l
  <2>1. l \in Labels
    BY DEF Labels, Carrying
  <2> QED
    BY <1>2, <2>1, GotoFits
<1>4. pc[t] \in {"ready", "lock", "recheck", "write", "spawn", "wait", "await"}
  BY <1>2
<1>5. /\ {pc[t], pc'[t]} \cap (Taking \cup {"poison"}) = {}
      /\ pc[t] \in Carrying /\ pc'[t] \in Carrying
  BY <1>3, <1>4 DEF Taking, Carrying
<1>6. late' \subseteq Callers \X Handles \X Opens
  <2>1. tr[t].handle \in Handles /\ tr[t].open \in Opens
    BY <1>0, <1>5, Nothing DEF Placed, IInv, TypeOK, Opens
  <2> QED
    BY <2>1 DEF WriteReport, LockWrites, Recheck, Write, Confirmed, Spawn, Answered, IInv, TypeOK
<1>7. writer' = writer \/ (writer = 0 /\ writer' = t) \/ (writer = t /\ writer' = 0)
  BY <1>2 DEF Unlocked
<1>8. /\ pc'[t] \in {"lock", "recheck"} => tr[t].borrowed
      /\ pc'[t] \in Locking /\ tr[t].borrowed => writer' = t
  BY <1>0, <1>2, <1>3 DEF Placed, Locking
<1>9. pc'[t] \in {"write", "spawn"} => tr[t].open \notin tainted
  <2>1. CASE pc[t] = "ready" /\ ~tr[t].borrowed
    BY <1>0, <2>1 DEF Avoids, Carrying
  <2>2. CASE pc[t] = "recheck" /\ StillCurrent(t)
    <3>1. tr[t].open = shared["g27"].open /\ writer = t
      BY <1>0, <2>2 DEF StillCurrent, Current, Lend, Placed, Locking
    <3>2. ~\E u \in Callers : Poisons(u)
      BY <2>2, <3>1 DEF Poisons
    <3> QED
      BY <3>1, <3>2 DEF IInv, Tainting
  <2> QED
    BY <1>2, <1>3, <2>1, <2>2
<1>10. backoff' \in [Wheels -> BOOLEAN] /\ faults' \in 0..MaxFaults
  BY <1>1 DEF IInv, TypeOK
<1> QED
  BY <1>1, <1>3, <1>5, <1>6, <1>7, <1>8, <1>9, <1>10, QuietKeeps

-----------------------------------------------------------------------------
(* Borrowed transports.                                                     *)

\* A caller borrows the session, goes on with another kind of report, or forgets what it
\* borrowed.
LEMMA LendKeeps ==
  ASSUME OnlyG27, IInv, NEW t \in Callers, NEW v,
         UNCHANGED <<object, opens, sessions, loop, mine, starts, late, tainted>>,
         NEW l \in Labels, Goto(t, l), faults' \in 0..MaxFaults,
         writer' = writer \/ (writer = t /\ writer' = 0),
         {pc[t], l} \cap (Taking \cup {"poison"}) = {},
         tr' = [tr EXCEPT ![t] = v], tr[t] = NoTransport \/ tr[t].borrowed,
         \/ v = NoTransport /\ l \notin Carrying
         \/ /\ v.borrowed /\ l \in {"ready", "spawn"} /\ (l = "spawn" => pc[t] = "write")
            /\ v \in [handle : Handles \cup {NoHandle}, open : Opens \cup {0},
                      borrowed : BOOLEAN, compat : BOOLEAN]
            /\ Lend(t)' = IF l = "ready" THEN shared["g27"] ELSE Lend(t)
            /\ writer' = writer /\ v.handle # NoHandle
  PROVE  IInv'
<1> USE DEF IInv
<1>0. Placed(t) /\ Knows(t) /\ Avoids(t) /\ opens \in Nat /\ opens <= MaxOpens
  BY Nothing DEF Control, Known, Tainting, TypeOK
<1>1. /\ pc' \in [Callers -> Labels] /\ \A u \in Callers \ {t} : pc'[u] = pc[u]
      /\ op' \in [Callers -> [do : Ops, on : Wheels]] /\ pc'[t] = l
  BY GotoFits
<1>2. tr'[t] = v /\ \A u \in Callers \ {t} : tr'[u] = tr[u]
  BY DEF TypeOK
<1>3. TypeOK'
  <2>1. v \in [handle : Handles \cup {NoHandle}, open : Opens \cup {0},
               borrowed : BOOLEAN, compat : BOOLEAN]
    BY Nothing
  <2>2. tr' \in [Callers -> [handle : Handles \cup {NoHandle}, open : Opens \cup {0},
                             borrowed : BOOLEAN, compat : BOOLEAN]]
    BY <2>1 DEF TypeOK
  <2> QED
    BY <1>1, <2>2 DEF TypeOK, sessions
<1>4. OwnHandle(t) = None /\ OwnHandle(t)' = None
  BY <1>2, Nothing DEF OwnHandle, Lend, None, NoTransport
<1>5. OwnsSoundly'
  <2>1. \A u \in Callers : mine'[u] = mine[u] /\ OwnHandle(u)' = OwnHandle(u)
    BY <1>2, <1>4 DEF OwnHandle, Lend
  <2>2. \A o \in Opens : LoopHandle(o)' = LoopHandle(o)
    BY DEF LoopHandle, Session
  <2> QED
    BY <2>1, <2>2, OwnsSame DEF sessions
<1>6. ~Poisons(t)
  BY DEF Poisons
<1>7. pc'[t] \notin {"install", "swap", "lock", "recheck"} /\ mine'[t] = None /\ starts'[t] = 0
  <2>1. pc[t] \notin Taking /\ l \notin Taking
    OBVIOUS
  <2>2. l \notin {"lock", "recheck"}
    BY DEF Carrying
  <2> QED
    BY <1>0, <1>1, <2>1, <2>2 DEF Placed, Taking
<1>8. CASE v = NoTransport /\ l \notin Carrying
  <2>1. Placed(t)'
    BY <1>1, <1>2, <1>7, <1>8, Nothing DEF Placed
  <2>2. Knows(t)'
    BY <1>1, <1>2, <1>7, <1>8, Nothing DEF Knows
  <2>3. Avoids(t)'
    BY <1>1, <1>2, <1>7, <1>8, Nothing DEF Avoids, Carrying
  <2> QED
    BY <1>1, <1>2, <1>3, <1>5, <1>6, <2>1, <2>2, <2>3, CallerKeeps DEF sessions
<1>9. CASE v.borrowed /\ l = "ready" /\ Lend(t)' = shared["g27"] /\ v.handle # NoHandle
  <2>1. v.handle = shared["g27"].handle /\ v.open = shared["g27"].open
    BY <1>2, <1>9 DEF Lend
  <2>2. shared["g27"] # None
    BY <1>9, <2>1, Nothing
  <2>3. shared["g27"].handle \in Handles /\ shared["g27"].open \in 1..opens
    BY <2>2, OwnsIs DEF OwnsSoundly, Sound
  <2>4. Installed(v.open)'
    BY <2>1, <2>2 DEF Known, Installed
  <2>5. Placed(t)'
    BY <1>1, <1>2, <1>7, <1>9, <2>1, <2>3 DEF Placed, Carrying, Locking
  <2>6. Knows(t)'
    BY <1>1, <1>2, <1>7, <1>9, <2>1, <2>4 DEF Knows, Installed, sessions
  <2>7. Avoids(t)'
    BY <1>1, <1>2, <1>7, <1>9 DEF Avoids
  <2> QED
    BY <1>1, <1>2, <1>3, <1>5, <1>6, <2>5, <2>6, <2>7, CallerKeeps DEF sessions
<1>10. CASE v.borrowed /\ l = "spawn" /\ pc[t] = "write" /\ Lend(t)' = Lend(t) /\ writer' = writer
  <2>1. v.handle = tr[t].handle /\ v.open = tr[t].open
    BY <1>2, <1>10 DEF Lend
  <2>2. tr[t].borrowed
    BY <1>0, <1>10, Nothing DEF Placed, Carrying
  <2>3. Placed(t)'
    BY <1>0, <1>1, <1>2, <1>7, <1>10, <2>1, <2>2 DEF Placed, Carrying, Locking
  <2>4. Knows(t)'
    BY <1>0, <1>1, <1>2, <1>7, <1>10, <2>1, <2>2 DEF Knows, Installed, sessions, Carrying
  <2>5. Avoids(t)'
    BY <1>0, <1>1, <1>2, <1>7, <1>10, <2>1, <2>2 DEF Avoids
  <2> QED
    BY <1>1, <1>2, <1>3, <1>5, <1>6, <2>3, <2>4, <2>5, CallerKeeps DEF sessions
<1> QED
  BY <1>8, <1>9, <1>10

\* Every step of a borrowed transport.
LEMMA BorrowedKeeps ==
  ASSUME OnlyG27, IInv, NEW t \in Callers,
         \/ Borrow(t) /\ tr' # tr
         \/ CloseTransport(t) /\ tr[t].borrowed
         \/ WriteReport(t) /\ tr' # tr
         \/ Recheck(t) /\ tr' # tr
         \/ Unsupported(t) /\ tr[t].borrowed
  PROVE  IInv'
<1>0. Placed(t) /\ faults \in 0..MaxFaults /\ MaxFaults \in Nat
  BY HidAssumption DEF IInv, Control, TypeOK
<1>1. /\ UNCHANGED <<object, opens, sessions, loop, mine, starts, late, tainted>>
      /\ faults' \in 0..MaxFaults
  BY <1>0 DEF Borrow, CloseTransport, WriteReport, Recheck, Unsupported, Fault
<1>2. CASE Borrow(t) /\ tr' # tr
  <2> DEFINE v == [handle |-> shared["g27"].handle, open |-> shared["g27"].open,
                   borrowed |-> TRUE, compat |-> FALSE]
  <2>1. /\ pc[t] = "borrow" /\ Goto(t, "ready") /\ tr' = [tr EXCEPT ![t] = v]
        /\ shared["g27"].handle # NoHandle /\ writer' = writer
    BY <1>2 DEF Borrow
  <2>2. v.borrowed /\ v.handle # NoHandle
        /\ v \in [handle : Handles \cup {NoHandle}, open : Opens \cup {0},
                  borrowed : BOOLEAN, compat : BOOLEAN]
    BY <2>1, Nothing DEF IInv, TypeOK, Owned
  <2>3. Lend(t)' = shared["g27"]
    BY <2>1, Nothing DEF Lend, IInv, TypeOK, Owned
  <2>4. tr[t] = NoTransport
    BY <1>0, <2>1 DEF Placed, Carrying
  <2>5. {pc[t], "ready"} \cap (Taking \cup {"poison"}) = {} /\ "ready" \in Labels
    BY <2>1 DEF Taking, Labels, Carrying
  <2> HIDE DEF v
  <2> QED
    BY <1>1, <2>1, <2>2, <2>3, <2>4, <2>5, LendKeeps
<1>3. CASE \/ CloseTransport(t) /\ tr[t].borrowed
           \/ WriteReport(t) /\ tr' # tr
           \/ Recheck(t) /\ tr' # tr
  <2>1. PICK l \in {"idle", "look"} : Goto(t, l)
    BY <1>3 DEF CloseTransport, WriteReport, Recheck
  <2>2. tr[t].borrowed /\ tr' = [tr EXCEPT ![t] = NoTransport] /\ pc[t] \in {"ready", "recheck"}
    BY <1>0, <1>3 DEF CloseTransport, WriteReport, Recheck, Placed
  <2>3. writer' = writer \/ (writer = t /\ writer' = 0)
    BY <1>3 DEF CloseTransport, WriteReport, Recheck, Unlocked
  <2>4. {pc[t], l} \cap (Taking \cup {"poison"}) = {} /\ l \in Labels /\ l \notin Carrying
    BY <2>2 DEF Taking, Labels, Carrying
  <2> QED
    BY <1>1, <2>1, <2>2, <2>3, <2>4, LendKeeps
<1>4. CASE Unsupported(t) /\ tr[t].borrowed
  <2> DEFINE v == [tr[t] EXCEPT !.compat = TRUE]
  <2>1. /\ pc[t] = "write" /\ Goto(t, "spawn") /\ tr' = [tr EXCEPT ![t] = v]
        /\ writer' = writer
    BY <1>4 DEF Unsupported, IInv, TypeOK
  <2>2. v.borrowed /\ v.handle = tr[t].handle /\ v.open = tr[t].open
        /\ v \in [handle : Handles \cup {NoHandle}, open : Opens \cup {0},
                  borrowed : BOOLEAN, compat : BOOLEAN]
    BY <1>4, Nothing DEF IInv, TypeOK
  <2>3. v.handle # NoHandle
    BY <1>0, <2>1, <2>2, Nothing DEF Placed, Carrying
  <2>4. Lend(t)' = Lend(t)
    BY <2>1, <2>2 DEF Lend, IInv, TypeOK
  <2>5. {pc[t], "spawn"} \cap (Taking \cup {"poison"}) = {} /\ "spawn" \in Labels
    BY <2>1 DEF Taking, Labels, Carrying
  <2> HIDE DEF v
  <2> QED
    BY <1>1, <1>4, <2>1, <2>2, <2>3, <2>4, <2>5, LendKeeps
<1> QED
  BY <1>2, <1>3, <1>4

-----------------------------------------------------------------------------
(* Opening and closing.                                                     *)

\* What a new handle does to the counts.
LEMMA OpenedFits ==
  ASSUME OnlyG27, IInv, NEW h \in Handles, Opened(h)
  PROVE  /\ opens \in Nat /\ opens' = opens + 1 /\ opens' \in 0..MaxOpens
         /\ opens + 1 \in Opens /\ opens + 1 \in 1..opens' /\ opens + 1 # 0
         /\ object \in [Handles -> 0..opens] /\ object[h] = 0 /\ h # NoHandle
         /\ object' = [object EXCEPT ![h] = opens + 1]
         /\ object' \in [Handles -> Opens \cup {0}]
         /\ ~Installed(opens + 1) /\ opens + 1 \notin tainted
         /\ \A p \in Places : owns[p] # None => owns[p].open # opens + 1
<1>1. opens \in Nat /\ opens' = opens + 1 /\ opens < MaxOpens /\ object[h] = 0
  BY Nothing DEF IInv, TypeOK, Opened
<1>2. /\ opens' \in 0..MaxOpens /\ opens + 1 \in Opens /\ opens + 1 \in 1..opens'
      /\ opens + 1 # 0 /\ ~(opens + 1 <= opens) /\ \A o \in 1..opens : o # opens + 1
  BY <1>1, Nothing DEF Opens
<1>3. object \in [Handles -> 0..opens]
  <2>1. ASSUME NEW g \in Handles PROVE object[g] \in 0..opens
    <3>1. CASE object[g] = 0
      BY <1>1, <3>1
    <3>2. CASE object[g] # 0
      <4>1. PICK p \in Places : owns[p] # None /\ owns[p].handle = g
        BY <3>2 DEF IInv, OwnsSoundly, Sound
      <4>2. object[g] \in 1..opens
        BY <4>1 DEF IInv, OwnsSoundly, Sound
      <4> QED
        BY <1>1, <4>2
    <3> QED
      BY <3>1, <3>2
  <2>2. object = [g \in Handles |-> object[g]]
    BY DEF IInv, TypeOK
  <2> QED
    BY <2>1, <2>2
<1>4. /\ object' = [object EXCEPT ![h] = opens + 1]
      /\ object' \in [Handles -> Opens \cup {0}]
  BY <1>2 DEF Opened, IInv, TypeOK
<1>5. ~Installed(opens + 1) /\ opens + 1 \notin tainted
  BY <1>2 DEF IInv, Known, Tainting
<1>6. \A p \in Places : owns[p] # None => owns[p].open # opens + 1
  BY <1>2 DEF IInv, OwnsSoundly, Sound
<1> QED
  BY <1>1, <1>2, <1>3, <1>4, <1>5, <1>6, Nothing

\* What the end of a handle does to the values.
LEMMA ClosedFits ==
  ASSUME OnlyG27, IInv, NEW h, Closed(h)
  PROVE  object' \in [Handles -> Opens \cup {0}] /\ object \in [Handles -> Nat]
<1>1. object \in [Handles -> Opens \cup {0}]
  BY DEF IInv, TypeOK
<1>2. object \in [Handles -> Nat]
  BY <1>1, Nothing
<1>3. CASE h = NoHandle
  BY <1>1, <1>2, <1>3 DEF Closed
<1>4. CASE h # NoHandle
  <2>1. object' = [object EXCEPT ![h] = 0]
    BY <1>4 DEF Closed
  <2> QED
    BY <1>1, <1>2, <2>1
<1> QED
  BY <1>3, <1>4

\* A caller opens a handle into a place of its own.
LEMMA SoundOpening ==
  ASSUME OnlyG27, IInv, NEW h \in Handles, Opened(h), NEW p \in Places, owns[p] = None,
         owns'[p] # None, owns'[p].handle = h, owns'[p].open = opens + 1,
         \A q \in Places \ {p} : owns'[q] = owns[q]
  PROVE  OwnsSoundly'
<1>1. /\ opens \in Nat /\ object \in [Handles -> 0..opens] /\ object[h] = 0
      /\ opens' = opens + 1 /\ object' = [object EXCEPT ![h] = opens + 1]
  BY OpenedFits
<1>2. Sound(object, opens, owns)
  BY DEF IInv, OwnsSoundly
<1>3. Sound([object EXCEPT ![h] = opens + 1], opens + 1, owns')
  BY <1>1, <1>2, SoundOpens
<1> QED
  BY <1>1, <1>3 DEF OwnsSoundly

\* The handle of a place is closed, or there is none.
LEMMA SoundClosing ==
  ASSUME OnlyG27, IInv, NEW p \in Places, Closed(owns[p].handle), opens' = opens,
         owns'[p] = None, \A q \in Places \ {p} : owns'[q] = owns[q]
  PROVE  OwnsSoundly'
<1>1. Sound(object, opens, owns) /\ object \in [Handles -> Nat]
  BY ClosedFits DEF IInv, OwnsSoundly
<1>2. CASE owns[p] = None
  <2>1. object' = object
    BY <1>2, Nothing DEF Closed
  <2>2. owns'[p] = owns[p] /\ \A q \in Places \ {p, p} : owns'[q] = owns[q]
    BY <1>2
  <2>3. Sound(object, opens, owns')
    BY <1>1, <2>2, SoundTrades
  <2> QED
    BY <2>1, <2>3 DEF OwnsSoundly
<1>3. CASE owns[p] # None
  <2>1. owns[p].handle # NoHandle
    BY <1>1, <1>3, Nothing DEF Sound
  <2>2. object' = [object EXCEPT ![owns[p].handle] = 0]
    BY <2>1 DEF Closed
  <2>3. Sound([object EXCEPT ![owns[p].handle] = 0], opens, owns')
    BY <1>1, <1>3, SoundCloses
  <2> QED
    BY <2>2, <2>3 DEF OwnsSoundly
<1> QED
  BY <1>2, <1>3

\* A handle is opened for a session.
LEMMA CreateKeeps ==
  ASSUME OnlyG27, IInv, NEW t \in Callers, Create(t)
  PROVE  IInv'
<1> USE DEF IInv
<1>1. PICK h \in Handles :
        Opened(h) /\ mine' = [mine EXCEPT ![t] = [handle |-> h, open |-> opens + 1]]
  BY DEF Create
<1>2. /\ pc[t] = "create" /\ Goto(t, "install")
      /\ UNCHANGED <<sessions, loop, starts, tr, writer, late, tainted, faults>>
  BY DEF Create
<1>3. /\ pc' \in [Callers -> Labels] /\ \A u \in Callers \ {t} : pc'[u] = pc[u]
      /\ op' \in [Callers -> [do : Ops, on : Wheels]] /\ pc'[t] = "install"
  <2>1. "install" \in Labels
    BY DEF Labels, Taking
  <2> QED
    BY <1>2, <2>1, GotoFits
<1>4. /\ opens' = opens + 1 /\ opens' \in 0..MaxOpens /\ opens + 1 \in Opens /\ h # NoHandle
      /\ object' \in [Handles -> Opens \cup {0}] /\ opens \in Nat
      /\ ~Installed(opens + 1) /\ opens + 1 \notin tainted
  BY <1>1, OpenedFits
<1>5. /\ mine'[t] = [handle |-> h, open |-> opens + 1]
      /\ mine'[t].handle = h /\ mine'[t].open = opens + 1 /\ mine'[t] # None
      /\ mine' \in [Callers -> Owned] /\ \A u \in Callers \ {t} : mine'[u] = mine[u]
  <2>1. [handle |-> h, open |-> opens + 1] \in Owned
    BY <1>4 DEF Owned
  <2>2. mine'[t] = [handle |-> h, open |-> opens + 1] /\ mine' \in [Callers -> Owned]
        /\ \A u \in Callers \ {t} : mine'[u] = mine[u]
    BY <1>1, <2>1 DEF TypeOK
  <2> QED
    BY <1>4, <2>2, Nothing
<1>6. TypeOK'
  BY <1>2, <1>3, <1>4, <1>5 DEF TypeOK, sessions
<1>7. Placed(t) /\ Knows(t) /\ Avoids(t)
  BY DEF Control, Known, Tainting
<1>8. OwnsSoundly'
  <2>1. {MineOf(t)} \in SUBSET Places /\ owns[MineOf(t)] = None /\ owns'[MineOf(t)] = mine'[t]
    BY <1>2, <1>7, OwnsIs DEF Placed, Taking
  <2>2. \A q \in Places \ {MineOf(t)} : owns'[q] = owns[q]
    <3>1. \A u \in Callers : /\ MineOf(u) \in {MineOf(t)} \/ mine'[u] = mine[u]
                             /\ OwnHandle(u)' = OwnHandle(u)
      BY <1>2, <1>5 DEF OwnHandle, Lend
    <3>2. \A o \in Opens : LoopHandle(o)' = LoopHandle(o)
      BY <1>2 DEF LoopHandle, Session
    <3> QED
      BY <1>2, <2>1, <3>1, <3>2, OwnsKept DEF sessions
  <2> QED
    BY <1>1, <1>5, <2>1, <2>2, SoundOpening
<1>9. Placed(t)'
  BY <1>2, <1>3, <1>5, <1>7 DEF Placed, Taking, Carrying, Locking
<1>10. Knows(t)' /\ Avoids(t)' /\ ~Poisons(t)
  <2>1. tr[t] = NoTransport /\ starts[t] = 0
    BY <1>2, <1>7 DEF Placed, Carrying
  <2> QED
    BY <1>2, <1>3, <1>4, <1>5, <2>1, Nothing DEF Knows, Avoids, Poisons, Installed, Carrying
<1> QED
  BY <1>2, <1>3, <1>4, <1>5, <1>6, <1>8, <1>9, <1>10, CallerKeeps DEF sessions

\* A transport opens a handle of its own.
LEMMA OwnKeeps ==
  ASSUME OnlyG27, IInv, NEW t \in Callers, NEW h \in Handles, NEW c \in BOOLEAN, Opened(h),
         tr' = [tr EXCEPT ![t] = [handle |-> h, open |-> opens + 1, borrowed |-> FALSE, compat |-> c]],
         pc[t] \in {"own", "reopen"}, NEW l \in {"ready", "spawn"}, Goto(t, l),
         UNCHANGED <<sessions, loop, mine, starts, writer, late, tainted>>,
         faults' \in 0..MaxFaults
  PROVE  IInv'
<1> USE DEF IInv
<1>3. /\ pc' \in [Callers -> Labels] /\ \A u \in Callers \ {t} : pc'[u] = pc[u]
      /\ op' \in [Callers -> [do : Ops, on : Wheels]] /\ pc'[t] = l
  <2>1. l \in Labels
    BY DEF Labels, Carrying
  <2> QED
    BY <2>1, GotoFits
<1>4. /\ opens' = opens + 1 /\ opens' \in 0..MaxOpens /\ opens + 1 \in Opens /\ h # NoHandle
      /\ object' \in [Handles -> Opens \cup {0}] /\ opens \in Nat /\ opens + 1 \in 1..opens'
      /\ ~Installed(opens + 1) /\ opens + 1 \notin tainted
  BY OpenedFits
<1>5. /\ tr'[t].handle = h /\ tr'[t].open = opens + 1 /\ ~tr'[t].borrowed
      /\ tr' \in [Callers -> [handle : Handles \cup {NoHandle}, open : Opens \cup {0},
                              borrowed : BOOLEAN, compat : BOOLEAN]]
      /\ \A u \in Callers \ {t} : tr'[u] = tr[u]
  BY <1>4 DEF TypeOK
<1>6. TypeOK'
  BY <1>3, <1>4, <1>5 DEF TypeOK, sessions
<1>7. Placed(t) /\ Knows(t) /\ Avoids(t)
  BY DEF Control, Known, Tainting
<1>a. tr[t] = NoTransport /\ mine[t] = None /\ starts[t] = 0
  BY <1>7 DEF Placed, Taking, Carrying
<1>8. OwnsSoundly'
  <2>1. {OwnOf(t)} \in SUBSET Places /\ owns[OwnOf(t)] = None
        /\ owns'[OwnOf(t)] = [handle |-> h, open |-> opens + 1]
    BY <1>5, <1>a, OwnsIs, Nothing DEF OwnHandle, Lend, None
  <2>2. \A q \in Places \ {OwnOf(t)} : owns'[q] = owns[q]
    <3>1. \A u \in Callers : /\ mine'[u] = mine[u]
                             /\ OwnOf(u) \in {OwnOf(t)} \/ OwnHandle(u)' = OwnHandle(u)
      BY <1>5 DEF OwnHandle, Lend
    <3>2. \A o \in Opens : LoopHandle(o)' = LoopHandle(o)
      BY DEF LoopHandle, Session
    <3> QED
      BY <2>1, <3>1, <3>2, OwnsKept DEF sessions
  <2>3. owns'[OwnOf(t)] # None
    BY <1>4, <2>1, Nothing
  <2> QED
    BY <2>1, <2>2, <2>3, SoundOpening
<1>9. Placed(t)'
  BY <1>3, <1>4, <1>5, <1>a DEF Placed, Taking, Carrying, Locking
<1>10. Knows(t)' /\ Avoids(t)' /\ ~Poisons(t)
  BY <1>3, <1>4, <1>5, <1>a, Nothing DEF Knows, Avoids, Poisons, Installed, Carrying
<1> QED
  BY <1>3, <1>4, <1>5, <1>6, <1>8, <1>9, <1>10, CallerKeeps DEF sessions

\* A step that opens a transport, or fails to.
LEMMA OpenKeeps ==
  ASSUME OnlyG27, IInv, NEW t \in Callers,
         OpenOwn(t) \/ Reopen(t) \/ (Borrow(t) /\ tr' = tr)
  PROVE  IInv'
<1>0. Placed(t) /\ faults \in 0..MaxFaults /\ MaxFaults \in Nat
  BY HidAssumption DEF IInv, Control, TypeOK
<1>1. /\ UNCHANGED <<sessions, loop, mine, starts, writer, late, tainted>>
      /\ pc[t] \in {"own", "reopen", "borrow"}
  BY DEF OpenOwn, Reopen, Borrow
<1>2. CASE Goto(t, "idle") /\ UNCHANGED <<object, opens, tr>> /\ faults' \in 0..MaxFaults
  <2>1. {pc[t], "idle"} \cap (Taking \cup Carrying \cup {"poison"}) = {} /\ "idle" \in Labels
    BY <1>1 DEF Taking, Labels, Carrying
  <2>2. /\ pc' \in [Callers -> Labels] /\ \A u \in Callers \ {t} : pc'[u] = pc[u]
        /\ op' \in [Callers -> [do : Ops, on : Wheels]] /\ pc'[t] = "idle"
    BY <1>2, <2>1, GotoFits
  <2>3. backoff' \in [Wheels -> BOOLEAN] /\ late' \subseteq Callers \X Handles \X Opens
    BY <1>1 DEF IInv, TypeOK, sessions
  <2>4. "idle" \notin Locking
    BY DEF Locking
  <2>5. UNCHANGED <<object, opens, shared, latest, loop, locals, tainted>> /\ writer' = writer
    BY <1>1, <1>2 DEF locals, sessions
  <2>6. {pc[t], pc'[t]} \cap (Taking \cup {"poison"}) = {} /\ pc[t] \notin Carrying
        /\ pc'[t] \notin Carrying
    BY <2>1, <2>2
  <2> QED
    BY <1>2, <2>2, <2>3, <2>4, <2>5, <2>6, QuietKeeps
<1>3. ASSUME ~(Goto(t, "idle") /\ UNCHANGED <<object, opens, tr>> /\ faults' \in 0..MaxFaults)
      PROVE  \E h \in Handles, c \in BOOLEAN, l \in {"ready", "spawn"} :
               /\ Opened(h) /\ Goto(t, l) /\ faults' \in 0..MaxFaults
               /\ tr' = [tr EXCEPT ![t] = [handle |-> h, open |-> opens + 1,
                                           borrowed |-> FALSE, compat |-> c]]
               /\ pc[t] \in {"own", "reopen"}
  <2>0. OpenFails => faults' \in 0..MaxFaults
    BY <1>0 DEF OpenFails, Fault
  <2>1. CASE OpenOwn(t)
    <3>1. PICK h \in Handles, c \in BOOLEAN :
            /\ Opened(h) /\ Goto(t, "ready") /\ faults' \in 0..MaxFaults
            /\ tr' = [tr EXCEPT ![t] = [handle |-> h, open |-> opens + 1,
                                        borrowed |-> FALSE, compat |-> c]]
      <4>1. ~(OpenFails /\ Goto(t, "idle") /\ UNCHANGED <<object, opens, tr>>)
        BY <1>3, <2>0
      <4>2. PICK h \in Handles : \E c \in {FALSE} \cup {op[t].do # "switch"} :
              /\ Opened(h)
              /\ tr' = [tr EXCEPT ![t] = [handle |-> h, open |-> opens + 1,
                                          borrowed |-> FALSE, compat |-> c]]
              /\ Goto(t, "ready")
              /\ IF c THEN Fault ELSE UNCHANGED faults
        BY <2>1, <4>1 DEF OpenOwn
      <4>3. PICK c \in {FALSE} \cup {op[t].do # "switch"} :
              /\ tr' = [tr EXCEPT ![t] = [handle |-> h, open |-> opens + 1,
                                          borrowed |-> FALSE, compat |-> c]]
              /\ Opened(h) /\ Goto(t, "ready")
              /\ IF c THEN Fault ELSE UNCHANGED faults
        BY <4>2
      <4>4. c \in BOOLEAN
        OBVIOUS
      <4>5. Fault \/ UNCHANGED faults
        BY <4>3
      <4>6. faults' \in 0..MaxFaults
        BY <1>0, <4>5 DEF Fault
      <4> QED
        BY <4>3, <4>4, <4>6
    <3> QED
      BY <2>1, <3>1 DEF OpenOwn
  <2>2. CASE Reopen(t)
    <3>1. PICK h \in Handles :
            /\ Opened(h) /\ Goto(t, "spawn") /\ faults' \in 0..MaxFaults
            /\ tr' = [tr EXCEPT ![t] = [handle |-> h, open |-> opens + 1,
                                        borrowed |-> FALSE, compat |-> TRUE]]
      BY <1>0, <1>3, <2>0, <2>2 DEF Reopen
    <3> QED
      BY <2>2, <3>1 DEF Reopen
  <2>3. CASE Borrow(t) /\ tr' = tr
    <3>1. tr[t] = NoTransport /\ pc[t] = "borrow"
      BY <1>0, <2>3 DEF Borrow, Placed, Carrying
    <3>2. tr' # [tr EXCEPT ![t] = [handle |-> shared["g27"].handle, open |-> shared["g27"].open,
                                   borrowed |-> TRUE, compat |-> FALSE]]
      BY <2>3, <3>1 DEF NoTransport, IInv, TypeOK
    <3> QED
      BY <1>0, <1>3, <2>3, <3>2 DEF Borrow
  <2> QED
    BY <2>1, <2>2, <2>3
<1> QED
  BY <1>1, <1>2, <1>3, OwnKeeps

\* A caller closes the handle that it took out of a session.
LEMMA DiscardKeeps ==
  ASSUME OnlyG27, IInv, NEW t \in Callers, ShutClose(t) \/ Discard(t)
  PROVE  IInv'
<1> USE DEF IInv
<1>0. Placed(t) /\ Knows(t) /\ Avoids(t) /\ pc[t] \in Labels
  BY DEF Control, Known, Tainting
<1>1. /\ Closed(mine[t].handle) /\ mine' = [mine EXCEPT ![t] = None]
      /\ UNCHANGED <<opens, sessions, loop, starts, tr, late, tainted, faults>>
      /\ writer' = writer \/ (writer = t /\ writer' = 0)
  BY DEF ShutClose, Discard, Unlocked
<1>2. pc[t] \in {"shutclose", "discard"}
  BY <1>0 DEF ShutClose, Discard, Labels, Taking, Carrying
<1>3. PICK l \in {"own", "idle"} : Goto(t, l)
  BY <1>2 DEF ShutClose, Discard
<1>4. /\ pc' \in [Callers -> Labels] /\ \A u \in Callers \ {t} : pc'[u] = pc[u]
      /\ op' \in [Callers -> [do : Ops, on : Wheels]] /\ pc'[t] = l
  <2>1. l \in Labels
    BY DEF Labels
  <2> QED
    BY <1>3, <2>1, GotoFits
<1>5. /\ mine'[t] = None /\ mine' \in [Callers -> Owned]
      /\ \A u \in Callers \ {t} : mine'[u] = mine[u]
  BY <1>1, Nothing DEF TypeOK
<1>6. TypeOK'
  <2>1. object' \in [Handles -> Opens \cup {0}] /\ writer' \in Callers \cup {0}
    BY <1>1, ClosedFits DEF TypeOK
  <2> QED
    BY <1>1, <1>4, <1>5, <2>1 DEF TypeOK, sessions
<1>7. OwnsSoundly'
  <2>1. {MineOf(t)} \in SUBSET Places /\ owns[MineOf(t)] = mine[t] /\ owns'[MineOf(t)] = None
    BY <1>5, OwnsIs
  <2>2. \A q \in Places \ {MineOf(t)} : owns'[q] = owns[q]
    <3>1. \A u \in Callers : /\ MineOf(u) \in {MineOf(t)} \/ mine'[u] = mine[u]
                             /\ OwnHandle(u)' = OwnHandle(u)
      BY <1>1, <1>5 DEF OwnHandle, Lend
    <3>2. \A o \in Opens : LoopHandle(o)' = LoopHandle(o)
      BY <1>1 DEF LoopHandle, Session
    <3> QED
      BY <1>1, <2>1, <3>1, <3>2, OwnsKept DEF sessions
  <2> QED
    BY <1>1, <2>1, <2>2, SoundClosing
<1>8. tr[t] = NoTransport /\ starts[t] = 0 /\ tr'[t] = NoTransport /\ starts'[t] = 0
  BY <1>0, <1>1, <1>2 DEF Placed, Carrying
<1>9. Placed(t)'
  BY <1>4, <1>5, <1>8, Nothing DEF Placed, Carrying, Locking
<1>10. Knows(t)' /\ Avoids(t)' /\ ~Poisons(t)
  BY <1>2, <1>4, <1>8, Nothing DEF Knows, Avoids, Poisons, Carrying
<1> QED
  BY <1>1, <1>4, <1>5, <1>6, <1>7, <1>9, <1>10, CallerKeeps DEF sessions

\* A transport closes its own handle.
LEMMA OwnCloseKeeps ==
  ASSUME OnlyG27, IInv, NEW t \in Callers, CloseTransport(t) \/ Unsupported(t), ~tr[t].borrowed
  PROVE  IInv'
<1> USE DEF IInv
<1>0. Placed(t) /\ faults \in 0..MaxFaults /\ MaxFaults \in Nat
  BY HidAssumption DEF Control, TypeOK
<1>1. /\ Closed(tr[t].handle) /\ tr' = [tr EXCEPT ![t] = NoTransport]
      /\ UNCHANGED <<opens, sessions, loop, mine, starts, writer, late, tainted>>
      /\ faults' \in 0..MaxFaults /\ pc[t] \in {"ready", "write"}
  BY <1>0 DEF CloseTransport, Unsupported, Fault
<1>3. PICK l \in {"look", "idle", "reopen"} : Goto(t, l)
  BY DEF CloseTransport, Unsupported
<1>4. /\ pc' \in [Callers -> Labels] /\ \A u \in Callers \ {t} : pc'[u] = pc[u]
      /\ op' \in [Callers -> [do : Ops, on : Wheels]] /\ pc'[t] = l
  <2>1. l \in Labels
    BY DEF Labels
  <2> QED
    BY <1>3, <2>1, GotoFits
<1>5. /\ tr'[t] = NoTransport /\ \A u \in Callers \ {t} : tr'[u] = tr[u]
      /\ tr' \in [Callers -> [handle : Handles \cup {NoHandle}, open : Opens \cup {0},
                              borrowed : BOOLEAN, compat : BOOLEAN]]
  BY <1>1, Nothing DEF TypeOK
<1>6. TypeOK'
  <2>1. object' \in [Handles -> Opens \cup {0}]
    BY <1>1, ClosedFits
  <2> QED
    BY <1>1, <1>4, <1>5, <2>1 DEF TypeOK, sessions
<1>7. OwnsSoundly'
  <2>1. {OwnOf(t)} \in SUBSET Places /\ owns[OwnOf(t)] = Lend(t) /\ owns'[OwnOf(t)] = None
    BY <1>5, OwnsIs, Nothing DEF OwnHandle, Lend, None
  <2>2. owns[OwnOf(t)].handle = tr[t].handle
    BY <2>1 DEF Lend
  <2>3. \A q \in Places \ {OwnOf(t)} : owns'[q] = owns[q]
    <3>1. \A u \in Callers : /\ mine'[u] = mine[u]
                             /\ OwnOf(u) \in {OwnOf(t)} \/ OwnHandle(u)' = OwnHandle(u)
      BY <1>1, <1>5 DEF OwnHandle, Lend
    <3>2. \A o \in Opens : LoopHandle(o)' = LoopHandle(o)
      BY <1>1 DEF LoopHandle, Session
    <3> QED
      BY <1>1, <2>1, <3>1, <3>2, OwnsKept DEF sessions
  <2> QED
    BY <1>1, <2>1, <2>2, <2>3, SoundClosing
<1>8. mine[t] = None /\ starts[t] = 0 /\ mine'[t] = None /\ starts'[t] = 0
  BY <1>0, <1>1 DEF Placed, Taking
<1>9. Placed(t)'
  BY <1>4, <1>5, <1>8, Nothing DEF Placed, Carrying, Locking
<1>10. Knows(t)' /\ Avoids(t)' /\ ~Poisons(t)
  BY <1>1, <1>4, <1>5, <1>8, Nothing DEF Knows, Avoids, Poisons, Carrying
<1> QED
  BY <1>1, <1>4, <1>5, <1>6, <1>7, <1>9, <1>10, CallerKeeps DEF sessions

\* The session is closed: the caller takes its handle.
LEMMA ShutKeeps ==
  ASSUME OnlyG27, IInv, NEW t \in Callers, Shut(t)
  PROVE  IInv'
<1> USE DEF IInv
<1>0. Placed(t) /\ Knows(t) /\ Avoids(t) /\ pc[t] = "shut" /\ ShutTarget(t) = "g27"
  <2>1. pc[t] = "shut"
    BY DEF Control, Shut, Labels, Taking, Carrying
  <2> QED
    BY <2>1 DEF Control, Known, Tainting, ShutTarget, FirstShut, OnlyG27
<1>1. /\ mine' = [mine EXCEPT ![t] = shared["g27"]] /\ shared' = [shared EXCEPT !["g27"] = None]
      /\ latest' = [latest EXCEPT !["g27"] = 0] /\ backoff' = [backoff EXCEPT !["g27"] = FALSE]
      /\ Goto(t, "shutclose")
      /\ UNCHANGED <<object, opens, loop, starts, tr, writer, late, tainted, faults>>
  BY <1>0 DEF Shut, Gone
<1>4. /\ pc' \in [Callers -> Labels] /\ \A u \in Callers \ {t} : pc'[u] = pc[u]
      /\ op' \in [Callers -> [do : Ops, on : Wheels]] /\ pc'[t] = "shutclose"
  <2>1. "shutclose" \in Labels
    BY DEF Labels, Taking
  <2> QED
    BY <1>1, <2>1, GotoFits
<1>5. /\ mine'[t] = shared["g27"] /\ shared'["g27"] = None /\ latest'["g27"] = 0
      /\ mine' \in [Callers -> Owned] /\ \A u \in Callers \ {t} : mine'[u] = mine[u]
      /\ shared' \in [Wheels -> Owned] /\ latest' \in [Wheels -> Opens \cup {0}]
      /\ backoff' \in [Wheels -> BOOLEAN]
  BY <1>1, Nothing DEF TypeOK
<1>6. TypeOK'
  BY <1>1, <1>4, <1>5 DEF TypeOK
<1>8. tr[t] = NoTransport /\ mine[t] = None /\ starts[t] = 0
  BY <1>0 DEF Placed, Carrying, Taking
<1>7. OwnsSoundly'
  <2>1. /\ {MineOf(t), InSession} \in SUBSET Places
        /\ owns'[MineOf(t)] = owns[InSession] /\ owns'[InSession] = owns[MineOf(t)]
    BY <1>5, <1>8, OwnsIs
  <2>2. \A q \in Places \ {MineOf(t), InSession} : owns'[q] = owns[q]
    <3>1. \A u \in Callers : /\ MineOf(u) \in {MineOf(t), InSession} \/ mine'[u] = mine[u]
                             /\ OwnHandle(u)' = OwnHandle(u)
      BY <1>1, <1>5 DEF OwnHandle, Lend
    <3>2. \A o \in Opens : LoopHandle(o)' = LoopHandle(o)
      BY <1>1 DEF LoopHandle, Session
    <3> QED
      BY <2>1, <3>1, <3>2, OwnsKept
  <2> QED
    BY <1>1, <2>1, <2>2, SoundTrades DEF OwnsSoundly
<1>9. Placed(t)'
  BY <1>1, <1>4, <1>8, Nothing DEF Placed, Taking, Carrying, Locking
<1>10. Knows(t)' /\ Avoids(t)' /\ ~Poisons(t)
  BY <1>0, <1>1, <1>4, <1>8, Nothing DEF Knows, Avoids, Poisons, Carrying
<1> QED
  BY <1>1, <1>4, <1>5, <1>6, <1>7, <1>9, <1>10, CallerKeeps

\* After an unknown outcome the caller takes the handle of its transport, or of the session
\* that it borrows, if that is still the same one.
LEMMA PoisonKeeps ==
  ASSUME OnlyG27, IInv, NEW t \in Callers, Poison(t)
  PROVE  IInv'
<1> USE DEF IInv
<1>0. Placed(t) /\ Knows(t) /\ Avoids(t)
  BY DEF Control, Known, Tainting
<1>1. /\ pc[t] = "poison" /\ Goto(t, "discard") /\ tr' = [tr EXCEPT ![t] = NoTransport]
      /\ UNCHANGED <<object, opens, latest, loop, starts, writer, late, tainted, faults>>
  BY DEF Poison
<1>2. \/ /\ mine' = [mine EXCEPT ![t] = Lend(t)]
         /\ \/ /\ tr[t].borrowed /\ Current("g27", Lend(t))
               /\ shared' = [shared EXCEPT !["g27"] = None]
               /\ backoff' = [backoff EXCEPT !["g27"] = TRUE]
            \/ ~tr[t].borrowed /\ UNCHANGED <<shared, backoff>>
      \/ tr[t].borrowed /\ ~Current("g27", Lend(t)) /\ UNCHANGED <<mine, shared, backoff>>
  BY DEF Poison, Gone
<1>4. /\ pc' \in [Callers -> Labels] /\ \A u \in Callers \ {t} : pc'[u] = pc[u]
      /\ op' \in [Callers -> [do : Ops, on : Wheels]] /\ pc'[t] = "discard"
  <2>1. "discard" \in Labels
    BY DEF Labels, Taking
  <2> QED
    BY <1>1, <2>1, GotoFits
<1>5. /\ tr'[t] = NoTransport /\ \A u \in Callers \ {t} : tr'[u] = tr[u]
      /\ tr' \in [Callers -> [handle : Handles \cup {NoHandle}, open : Opens \cup {0},
                              borrowed : BOOLEAN, compat : BOOLEAN]]
  BY <1>1, Nothing DEF TypeOK
<1>6. Lend(t) \in Owned /\ Lend(t).handle = tr[t].handle /\ Lend(t).open = tr[t].open
  BY DEF Lend, Owned, TypeOK
<1>7. /\ mine'[t] \in {Lend(t), mine[t]} /\ mine' \in [Callers -> Owned]
      /\ \A u \in Callers \ {t} : mine'[u] = mine[u]
      /\ shared' \in [Wheels -> Owned] /\ backoff' \in [Wheels -> BOOLEAN]
      /\ shared'["g27"] \in {shared["g27"], None}
  <2>1. CASE mine' = [mine EXCEPT ![t] = Lend(t)]
    <3>1. /\ mine'[t] = Lend(t) /\ mine' \in [Callers -> Owned]
          /\ \A u \in Callers \ {t} : mine'[u] = mine[u]
      BY <1>6, <2>1 DEF TypeOK
    <3>2. /\ shared' \in [Wheels -> Owned] /\ backoff' \in [Wheels -> BOOLEAN]
          /\ shared'["g27"] \in {shared["g27"], None}
      <4>1. CASE /\ shared' = [shared EXCEPT !["g27"] = None]
                 /\ backoff' = [backoff EXCEPT !["g27"] = TRUE]
        BY <4>1, Nothing DEF TypeOK
      <4>2. CASE UNCHANGED <<shared, backoff>>
        BY <4>2 DEF TypeOK
      <4> QED
        BY <1>2, <4>1, <4>2
    <3> QED
      BY <3>1, <3>2
  <2>2. CASE UNCHANGED <<mine, shared, backoff>>
    BY <2>2 DEF TypeOK
  <2> QED
    BY <1>2, <2>1, <2>2
<1>8. TypeOK'
  BY <1>1, <1>4, <1>5, <1>7 DEF TypeOK
<1>9. mine[t] = None /\ starts[t] = 0
  BY <1>0, <1>1 DEF Placed, Taking
<1>10. OwnHandle(t)' = None /\ \A u \in Callers \ {t} : OwnHandle(u)' = OwnHandle(u)
  BY <1>5, Nothing DEF OwnHandle, Lend, None
<1>11. \A o \in Opens : LoopHandle(o)' = LoopHandle(o)
  BY <1>1 DEF LoopHandle, Session
<1>12. OwnsSoundly'
  <2>1. MineOf(t) \in Places /\ OwnOf(t) \in Places /\ InSession \in Places
        /\ owns[MineOf(t)] = None /\ owns'[MineOf(t)] = mine'[t] /\ owns'[OwnOf(t)] = None
        /\ owns[OwnOf(t)] = OwnHandle(t)
        /\ owns[InSession] = shared["g27"] /\ owns'[InSession] = shared'["g27"]
    BY <1>9, <1>10, OwnsIs
  <2>2. Sound(object, opens, owns) /\ object' = object /\ opens' = opens
    BY <1>1 DEF OwnsSoundly
  <2>3. CASE tr[t].borrowed /\ Current("g27", Lend(t)) /\ mine' = [mine EXCEPT ![t] = Lend(t)]
             /\ shared' = [shared EXCEPT !["g27"] = None]
    <3>1. shared["g27"] = Lend(t)
      <4>1. shared["g27"] \in Owned /\ shared["g27"].handle = Lend(t).handle
            /\ shared["g27"].open = Lend(t).open
        BY <2>3, Nothing DEF Current, TypeOK
      <4> QED
        BY <1>6, <4>1 DEF Owned
    <3>2. owns'[MineOf(t)] = owns[InSession] /\ owns'[InSession] = owns[MineOf(t)]
      BY <2>1, <2>3, <3>1, Nothing DEF TypeOK
    <3>3. OwnHandle(t)' = OwnHandle(t)
      BY <1>10, <2>3 DEF OwnHandle
    <3>4. \A q \in Places \ {MineOf(t), InSession} : owns'[q] = owns[q]
      <4>1. {MineOf(t), InSession} \in SUBSET Places
        BY <2>1
      <4>2. \A u \in Callers : /\ MineOf(u) \in {MineOf(t), InSession} \/ mine'[u] = mine[u]
                               /\ OwnHandle(u)' = OwnHandle(u)
        BY <1>7, <1>10, <3>3
      <4> QED
        BY <1>11, <4>1, <4>2, OwnsKept
    <3> QED
      BY <2>1, <2>2, <3>2, <3>4, SoundTrades DEF OwnsSoundly
  <2>4. CASE ~tr[t].borrowed /\ mine' = [mine EXCEPT ![t] = Lend(t)] /\ shared' = shared
    <3>1. owns'[MineOf(t)] = owns[OwnOf(t)] /\ owns'[OwnOf(t)] = owns[MineOf(t)]
      BY <2>1, <2>4 DEF OwnHandle, TypeOK
    <3>2. \A q \in Places \ {MineOf(t), OwnOf(t)} : owns'[q] = owns[q]
      <4>1. {MineOf(t), OwnOf(t)} \in SUBSET Places
        BY <2>1
      <4>2. \A u \in Callers : /\ MineOf(u) \in {MineOf(t), OwnOf(t)} \/ mine'[u] = mine[u]
                               /\ OwnOf(u) \in {MineOf(t), OwnOf(t)} \/ OwnHandle(u)' = OwnHandle(u)
        BY <1>7, <1>10
      <4> QED
        BY <1>11, <2>4, <4>1, <4>2, OwnsKept
    <3> QED
      BY <2>1, <2>2, <3>1, <3>2, SoundTrades DEF OwnsSoundly
  <2>5. CASE tr[t].borrowed /\ mine' = mine /\ shared' = shared
    <3>1. OwnHandle(t)' = OwnHandle(t)
      BY <1>10, <2>5 DEF OwnHandle
    <3> QED
      BY <1>1, <1>10, <1>11, <2>5, <3>1, OwnsSame
  <2> QED
    BY <1>2, <2>3, <2>4, <2>5
<1>13. ~Poisons(t) \/ shared'["g27"] = None
  <2>1. ASSUME Poisons(t) PROVE shared'["g27"] = None
    <3>1. tr[t].borrowed /\ tr[t].open = shared["g27"].open
      BY <2>1 DEF Poisons
    <3>2. tr[t].handle = shared["g27"].handle /\ tr[t].open # 0
      BY <1>0, <1>1, <3>1, Nothing DEF Knows, Placed, Carrying
    <3>3. Current("g27", Lend(t))
      BY <1>6, <3>1, <3>2 DEF Current
    <3> QED
      BY <1>2, <3>1, <3>3, Nothing DEF TypeOK
  <2> QED
    BY <2>1
<1>14. Placed(t)'
  BY <1>1, <1>4, <1>5, <1>9, Nothing DEF Placed, Taking, Carrying, Locking
<1>15. Knows(t)' /\ Avoids(t)'
  BY <1>1, <1>4, <1>5, <1>9, Nothing DEF Knows, Avoids, Carrying
<1> QED
  BY <1>1, <1>4, <1>5, <1>7, <1>8, <1>12, <1>13, <1>14, <1>15, CallerKeeps

-----------------------------------------------------------------------------
(* A new session, and an unknown outcome.                                   *)

\* The new handle becomes the session, and the caller takes the old one.
LEMMA InstallKeeps ==
  ASSUME OnlyG27, IInv, NEW t \in Callers, Install(t)
  PROVE  IInv'
<1> USE DEF IInv
<1>a. PICK m \in Owned : m = mine[t]
  BY DEF TypeOK
<1>0. Placed(t) /\ Knows(t) /\ Avoids(t) /\ op[t].on = "g27" /\ pc[t] = "install"
  BY DEF Control, Known, Tainting, TypeOK, OnlyG27, Install
<1>1. /\ shared' = [shared EXCEPT !["g27"] = m] /\ latest' = [latest EXCEPT !["g27"] = 0]
      /\ backoff' = [backoff EXCEPT !["g27"] = FALSE]
      /\ starts' = [starts EXCEPT ![t] = m.open]
      /\ loop' = [loop EXCEPT ![m.open] =
                    [at |-> "none", on |-> "g27", handle |-> m.handle, source |-> 0]]
      /\ mine' = [mine EXCEPT ![t] = shared["g27"]]
      /\ Goto(t, "swap")
      /\ UNCHANGED <<object, opens, tr, writer, late, tainted, faults>>
  BY <1>a, <1>0 DEF Install, Replaced
<1>2. /\ m # None /\ m \in Owned /\ m.handle \in Handles /\ m.open \in 1..opens /\ m.open \in Opens
      /\ ~Installed(m.open) /\ m.open \notin tainted /\ m.handle # NoHandle /\ m.open # 0
      /\ opens \in Nat
  <2>1. m # None /\ MineOf(t) \in Places /\ owns[MineOf(t)] = m /\ m \in Owned
    BY <1>a, <1>0, OwnsIs DEF Placed
  <2>2. m.handle \in Handles /\ m.open \in 1..opens
    BY <2>1 DEF OwnsSoundly, Sound
  <2>3. opens \in 0..MaxOpens
    BY DEF TypeOK
  <2> QED
    BY <1>a, <1>0, <2>1, <2>2, <2>3, Nothing DEF Knows, Avoids, Opens
<1>4. /\ pc' \in [Callers -> Labels] /\ \A u \in Callers \ {t} : pc'[u] = pc[u]
      /\ op' \in [Callers -> [do : Ops, on : Wheels]] /\ pc'[t] = "swap"
  <2>1. "swap" \in Labels
    BY DEF Labels, Taking
  <2> QED
    BY <1>1, <2>1, GotoFits
<1>5. /\ mine'[t] = shared["g27"] /\ shared'["g27"] = m /\ latest'["g27"] = 0
      /\ starts'[t] = m.open
      /\ mine' \in [Callers -> Owned] /\ starts' \in [Callers -> Opens \cup {0}]
      /\ \A u \in Callers \ {t} : mine'[u] = mine[u] /\ starts'[u] = starts[u]
      /\ shared' \in [Wheels -> Owned] /\ latest' \in [Wheels -> Opens \cup {0}]
      /\ backoff' \in [Wheels -> BOOLEAN]
  BY <1>1, <1>2, Nothing DEF TypeOK
<1>6. /\ loop'[m.open] = [at |-> "none", on |-> "g27", handle |-> m.handle, source |-> 0]
      /\ \A o \in Opens : o # m.open => loop'[o] = loop[o]
      /\ loop' \in [Opens -> [at : {"none", "issue", "pending", "failed", "closing", "ended"},
                              on : Wheels, handle : Handles \cup {NoHandle},
                              source : Opens \cup {0}]]
  BY <1>1, <1>2, Nothing DEF TypeOK
<1>7. TypeOK'
  BY <1>1, <1>4, <1>5, <1>6 DEF TypeOK
<1>8. /\ tr[t] = NoTransport /\ starts[t] = 0 /\ loop[m.open].at = "none"
      /\ loop'[m.open].at = "none" /\ Installed(m.open)'
      /\ \A o \in Opens : o # m.open => Installed(o)' = Installed(o)
  BY <1>0, <1>2, <1>6 DEF Placed, Carrying, Installed
<1>9. OwnsSoundly'
  <2>1. /\ {MineOf(t), InSession} \in SUBSET Places
        /\ owns'[MineOf(t)] = owns[InSession] /\ owns'[InSession] = owns[MineOf(t)]
    BY <1>a, <1>5, OwnsIs
  <2>2. \A q \in Places \ {MineOf(t), InSession} : owns'[q] = owns[q]
    <3>1. \A u \in Callers : /\ MineOf(u) \in {MineOf(t), InSession} \/ mine'[u] = mine[u]
                             /\ OwnHandle(u)' = OwnHandle(u)
      BY <1>1, <1>5 DEF OwnHandle, Lend
    <3>2. \A o \in Opens : LoopHandle(o)' = LoopHandle(o)
      BY <1>6, <1>8 DEF LoopHandle, Session
    <3> QED
      BY <2>1, <3>1, <3>2, OwnsKept
  <2> QED
    BY <1>1, <2>1, <2>2, SoundTrades DEF OwnsSoundly
<1>10. Control'
  <2>1. Placed(t)'
    BY <1>1, <1>2, <1>4, <1>5, <1>8, Nothing DEF Placed, Taking, Carrying, Locking
  <2> QED
    BY <1>1, <1>2, <1>4, <1>5, <2>1, ControlKeeps
<1>11. ASSUME NEW u \in Callers \ {t}
       PROVE  /\ pc[u] = "install" => mine[u].open # m.open
              /\ pc[u] \in Carrying => tr[u].open # m.open /\ tr[u].open \in Opens
              /\ starts[u] # 0 => starts[u] # m.open /\ starts[u] \in Opens
  <2>1. MineOf(u) # MineOf(t) /\ OwnOf(u) # MineOf(t)
    BY PlacesDiffer
  <2>2. Placed(u) /\ Knows(u)
    BY DEF Control, Known
  <2>3. ASSUME pc[u] = "install" PROVE mine[u].open # m.open
    <3>1. owns[MineOf(u)] = mine[u] /\ mine[u] # None /\ owns[MineOf(t)] = m
      BY <1>a, <2>2, <2>3, OwnsIs DEF Placed
    <3> QED
      BY <1>2, <2>1, <3>1, OwnsIs DEF OwnsSoundly, Sound
  <2>4. ASSUME pc[u] \in Carrying PROVE tr[u].open # m.open
    <3>1. CASE tr[u].borrowed
      BY <1>2, <2>2, <2>4, <3>1 DEF Knows
    <3>2. CASE ~tr[u].borrowed
      <4>1. owns[OwnOf(u)] = Lend(u) /\ owns[MineOf(t)] = m
        BY <1>a, <3>2, OwnsIs DEF OwnHandle
      <4>2. Lend(u) # None /\ Lend(u).open = tr[u].open
        BY <2>2, <2>4, Nothing DEF Placed, Lend
      <4> QED
        BY <1>2, <2>1, <4>1, <4>2, OwnsIs DEF OwnsSoundly, Sound
    <3> QED
      BY <3>1, <3>2 DEF TypeOK
  <2>5. pc[u] \in Carrying => tr[u].open \in Opens
    BY <2>2, Nothing DEF Placed, TypeOK, Opens
  <2>6. starts[u] # 0 => starts[u] # m.open /\ starts[u] \in Opens
    BY <1>2, <2>2 DEF Knows, TypeOK
  <2> QED
    BY <2>3, <2>4, <2>5, <2>6
<1>12. Known'
  <2>1. \A o \in Opens : Installed(o)' => o <= opens'
    BY <1>1, <1>2, <1>8 DEF Known
  <2>2. Installed(shared["g27"].open)'
    BY <1>5, <1>8
  <2>3. Knows(t)'
    <3>1. \A u \in Callers : t # u => starts'[t] # starts'[u]
      BY <1>2, <1>5, <1>11
    <3>2. tr'[t] = NoTransport /\ pc'[t] \notin Carrying
      BY <1>1, <1>4, <1>8 DEF Carrying
    <3> QED
      BY <1>4, <1>5, <1>8, <3>1, <3>2, Nothing DEF Knows
  <2>4. ASSUME NEW u \in Callers \ {t}
        PROVE  Knows(u)'
    <3>1. Knows(u) /\ Placed(u)
      BY DEF Known, Control
    <3>2. pc'[u] = "install" => ~Installed(mine[u].open)'
      <4>1. pc[u] = "install" => mine[u] \in Owned /\ mine[u].open \in Opens \cup {0}
        BY DEF TypeOK, Owned
      <4>2. pc[u] = "install" => mine[u].open \in Opens
        <5>1. ASSUME pc[u] = "install" PROVE mine[u].open \in Opens
          <6>1. MineOf(u) \in Places /\ owns[MineOf(u)] # None /\ owns[MineOf(u)] = mine[u]
            BY <3>1, <5>1, OwnsIs DEF Placed
          <6>2. mine[u].open # 0
            BY <6>1 DEF OwnsSoundly, Sound
          <6> QED
            BY <4>1, <5>1, <6>2
        <5> QED
          BY <5>1
      <4> QED
        BY <1>4, <1>5, <1>8, <1>11, <3>1, <4>2 DEF Knows
    <3>3. starts'[u] # 0 => (loop[starts[u]].at = "none" /\ Installed(starts[u]))'
      BY <1>5, <1>6, <1>8, <1>11, <3>1 DEF Knows
    <3>4. \A v \in Callers : u # v /\ starts'[u] # 0 => starts'[u] # starts'[v]
      BY <1>5, <1>11, <3>1 DEF Knows
    <3>5. pc'[u] \in Carrying => (tr'[u].borrowed <=> Installed(tr[u].open)')
      BY <1>1, <1>4, <1>8, <1>11, <3>1 DEF Knows
    <3>6. tr'[u].borrowed /\ tr'[u].open = shared'["g27"].open
            => tr'[u].handle = shared'["g27"].handle
      <4>1. tr[u].borrowed => pc[u] \in Carrying
        BY <3>1, Nothing DEF Placed
      <4> QED
        BY <1>1, <1>5, <1>11, <4>1
    <3> QED
      BY <3>2, <3>3, <3>4, <3>5, <3>6 DEF Knows
  <2> QED
    BY <2>1, <2>2, <2>3, <2>4 DEF Known
<1>13. Tainting'
  <2>1. \A o \in tainted' : o <= opens'
    BY <1>1 DEF Tainting
  <2>2. Avoids(t)'
    BY <1>4 DEF Avoids, Carrying
  <2>3. \A u \in Callers \ {t} : Avoids(u)'
    BY <1>1, <1>4, <1>5 DEF Tainting, Avoids
  <2>4. shared'["g27"].open \notin tainted'
    BY <1>1, <1>2, <1>5
  <2> QED
    BY <2>1, <2>2, <2>3, <2>4 DEF Tainting
<1>14. Reading'
  <2>1. ASSUME NEW o \in Opens, loop'[o].at = "pending", Current("g27", Session(o))'
        PROVE  loop'[o].source = o
    BY <1>2, <1>5, <1>8, <2>1 DEF Current, Session
  <2>2. LatestIsLive'
    BY <1>5, Nothing DEF LatestIsLive, OnlyG27
  <2>3. \A o \in Opens : LoopRuns(o)' => loop'[o].handle # NoHandle
    BY <1>6, <1>8 DEF Reading, LoopRuns
  <2> QED
    BY <2>1, <2>2, <2>3 DEF Reading
<1> QED
  BY <1>7, <1>9, <1>10, <1>12, <1>13, <1>14

\* The old handle is closed and the read loop of the new one starts.
LEMMA SwapKeeps ==
  ASSUME OnlyG27, IInv, NEW t \in Callers, Swap(t)
  PROVE  IInv'
<1> USE DEF IInv
<1>a. PICK s \in Opens \cup {0} : s = starts[t]
  BY DEF TypeOK
<1>0. Placed(t) /\ Knows(t) /\ pc[t] = "swap" /\ s # 0 /\ s \in Opens
      /\ loop[s].at = "none" /\ Installed(s)
  <2>1. Placed(t) /\ Knows(t) /\ pc[t] = "swap"
    BY DEF Control, Known, Swap
  <2> QED
    BY <1>a, <2>1 DEF Placed, Knows
<1>1. /\ Closed(mine[t].handle) /\ mine' = [mine EXCEPT ![t] = None]
      /\ loop' = [loop EXCEPT ![s].at = "issue"] /\ starts' = [starts EXCEPT ![t] = 0]
      /\ UNCHANGED <<opens, sessions, tr, writer, late, tainted, faults>>
  BY <1>a DEF Swap
<1>3. PICK l \in {"borrow", "idle"} : Goto(t, l)
  BY DEF Swap, AfterEnsure
<1>4. /\ pc' \in [Callers -> Labels] /\ \A u \in Callers \ {t} : pc'[u] = pc[u]
      /\ op' \in [Callers -> [do : Ops, on : Wheels]] /\ pc'[t] = l
  <2>1. l \in Labels
    BY DEF Labels
  <2> QED
    BY <1>3, <2>1, GotoFits
<1>5. /\ mine'[t] = None /\ mine' \in [Callers -> Owned]
      /\ starts'[t] = 0 /\ starts' \in [Callers -> Opens \cup {0}]
      /\ \A u \in Callers \ {t} : mine'[u] = mine[u] /\ starts'[u] = starts[u]
  BY <1>1, Nothing DEF TypeOK
<1>6. /\ loop'[s].at = "issue" /\ \A o \in Opens : o # s => loop'[o] = loop[o]
      /\ loop' \in [Opens -> [at : {"none", "issue", "pending", "failed", "closing", "ended"},
                              on : Wheels, handle : Handles \cup {NoHandle},
                              source : Opens \cup {0}]]
  <2>1. loop \in [Opens -> [at : {"none", "issue", "pending", "failed", "closing", "ended"},
                            on : Wheels, handle : Handles \cup {NoHandle},
                            source : Opens \cup {0}]]
    BY DEF TypeOK
  <2>2. [loop[s] EXCEPT !.at = "issue"]
          \in [at : {"none", "issue", "pending", "failed", "closing", "ended"},
               on : Wheels, handle : Handles \cup {NoHandle}, source : Opens \cup {0}]
    BY <1>0, <2>1
  <2>3. loop' = [loop EXCEPT ![s] = [loop[s] EXCEPT !.at = "issue"]]
    BY <1>1
  <2> QED
    BY <1>0, <2>1, <2>2, <2>3
<1>7. TypeOK'
  <2>1. object' \in [Handles -> Opens \cup {0}]
    BY <1>1, ClosedFits
  <2> QED
    BY <1>1, <1>4, <1>5, <1>6, <2>1 DEF TypeOK, sessions
<1>8. OwnsSoundly'
  <2>1. {MineOf(t)} \in SUBSET Places /\ owns[MineOf(t)] = mine[t] /\ owns'[MineOf(t)] = None
    BY <1>5, OwnsIs
  <2>2. \A q \in Places \ {MineOf(t)} : owns'[q] = owns[q]
    <3>1. \A u \in Callers : /\ MineOf(u) \in {MineOf(t)} \/ mine'[u] = mine[u]
                             /\ OwnHandle(u)' = OwnHandle(u)
      BY <1>1, <1>5 DEF OwnHandle, Lend
    <3>2. \A o \in Opens : LoopHandle(o)' = LoopHandle(o)
      BY <1>0, <1>6 DEF LoopHandle, Session
    <3> QED
      BY <1>1, <2>1, <3>1, <3>2, OwnsKept DEF sessions
  <2> QED
    BY <1>1, <2>1, <2>2, SoundClosing
<1>9. tr[t] = NoTransport /\ tr'[t] = NoTransport
  BY <1>0, <1>1 DEF Placed, Carrying
<1>10. Control'
  <2>1. Placed(t)'
    BY <1>4, <1>5, <1>9, Nothing DEF Placed, Taking, Carrying, Locking
  <2> QED
    <3>1. opens' \in Nat /\ opens' = opens /\ tr' = tr
      BY <1>1, Nothing DEF TypeOK
    <3>2. writer' = writer
      BY <1>1
    <3> QED
      BY <1>4, <1>5, <2>1, <3>1, <3>2, ControlKeeps
<1>11. \A o \in Opens : Installed(o)' = Installed(o)
  BY <1>0, <1>6 DEF Installed
<1>12. Known'
  <2>1. \A o \in Opens : Installed(o)' => o <= opens'
    BY <1>1, <1>11 DEF Known
  <2>2. shared["g27"] # None => Installed(shared["g27"].open)'
    BY <1>0, <1>1, <1>6 DEF Known, Installed, sessions
  <2>3. ASSUME NEW u \in Callers
        PROVE  Knows(u)'
    <3>1. Knows(u) /\ Placed(u)
      BY DEF Known, Control
    <3>2. ASSUME u # t, pc[u] = "install" PROVE ~Installed(mine[u].open)'
      <4>1. mine'[u] = mine[u] /\ ~Installed(mine[u].open)
        BY <1>5, <3>1, <3>2 DEF Knows
      <4>2. mine[u].open # s
        BY <1>0, <4>1
      <4>3. loop'[mine[u].open] = loop[mine[u].open]
        BY <1>1, <4>2 DEF TypeOK
      <4> QED
        BY <4>1, <4>3 DEF Installed
    <3>3. ASSUME u # t, starts[u] # 0
          PROVE  /\ (loop[starts[u]].at = "none" /\ Installed(starts[u]))'
                 /\ \A v \in Callers : u # v => starts'[u] # starts'[v]
      <4>1. starts'[u] = starts[u] /\ starts[u] # s /\ starts[u] \in Opens
        BY <1>a, <1>5, <3>1, <3>3 DEF Knows, TypeOK
      <4>2. loop'[starts[u]] = loop[starts[u]]
        BY <1>6, <4>1
      <4>3. \A v \in Callers : u # v => starts[u] # starts[v]
        BY <3>1, <3>3 DEF Knows
      <4>4. \A v \in Callers : u # v => starts[u] # starts'[v]
        BY <1>5, <3>3, <4>3
      <4> QED
        BY <3>1, <3>3, <4>1, <4>2, <4>4 DEF Knows, Installed
    <3>4. ASSUME pc'[u] \in Carrying
          PROVE  u # t /\ tr[u].borrowed <=> Installed(tr[u].open)'
      <4>1. u # t /\ tr'[u] = tr[u] /\ pc[u] \in Carrying
        BY <1>1, <1>4, <3>4 DEF Carrying
      <4>2. tr[u].open \in Opens
        BY <3>1, <4>1, Nothing DEF Placed, Opens, TypeOK
      <4>3. tr[u].borrowed <=> Installed(tr[u].open)
        BY <3>1, <4>1 DEF Knows
      <4> QED
        BY <1>6, <1>0, <4>1, <4>2, <4>3 DEF Installed
    <3>5. tr'[u].borrowed /\ tr'[u].open = shared'["g27"].open
            => tr'[u].handle = shared'["g27"].handle
      BY <1>1, <3>1 DEF Knows, sessions
    <3>6. u = t => pc'[u] # "install" /\ pc'[u] \notin Carrying /\ starts'[u] = 0
      BY <1>4, <1>5 DEF Carrying
    <3> QED
      BY <1>1, <1>4, <1>5, <3>2, <3>3, <3>4, <3>5, <3>6 DEF Knows
  <2> QED
    BY <1>1, <2>1, <2>2, <2>3 DEF Known, sessions, Installed
<1>13. Tainting'
  <2>1. Avoids(t)'
    BY <1>4 DEF Avoids, Carrying
  <2>2. \A u \in Callers \ {t} : Avoids(u)'
    BY <1>1, <1>4, <1>5 DEF Tainting, Avoids
  <2>3. \A u \in Callers : Poisons(u) => Poisons(u)'
    BY <1>0, <1>1, <1>4 DEF Poisons, sessions
  <2> QED
    BY <1>1, <2>1, <2>2, <2>3 DEF Tainting, sessions
<1>14. Reading'
  <2>1. ASSUME NEW o \in Opens, loop'[o].at = "pending", Current("g27", Session(o))'
        PROVE  loop'[o].source = o
    BY <1>1, <1>6, <2>1 DEF Reading, Current, Session, sessions
  <2>2. LatestIsLive'
    BY <1>1 DEF Reading, LatestIsLive, sessions
  <2>3. loop'[s].handle = loop[s].handle /\ loop[s].handle # NoHandle
    BY <1>0, <1>1 DEF TypeOK, Installed
  <2>4. \A o \in Opens : LoopRuns(o)' => loop'[o].handle # NoHandle
    BY <1>6, <2>3 DEF Reading, LoopRuns
  <2> QED
    BY <2>1, <2>2, <2>4 DEF Reading
<1> QED
  BY <1>7, <1>8, <1>10, <1>12, <1>13, <1>14

\* Nobody knows what reached the wheel; a borrowed session is tainted by the holder of the
\* write lock.
LEMMA AmbiguousKeeps ==
  ASSUME OnlyG27, IInv, NEW t \in Callers, Ambiguous(t)
  PROVE  IInv'
<1> USE DEF IInv
<1>a. PICK o \in Opens \cup {0} : o = tr[t].open
  BY DEF TypeOK
<1>0. /\ Placed(t) /\ Knows(t) /\ Avoids(t) /\ pc[t] \in {"wait", "await"}
      /\ faults \in 0..MaxFaults /\ MaxFaults \in Nat
  BY HidAssumption DEF Control, Known, Tainting, TypeOK, Ambiguous
<1>1. /\ tainted' = tainted \cup {o} /\ Goto(t, "poison") /\ faults' \in 0..MaxFaults
      /\ UNCHANGED <<object, opens, sessions, loop, locals, writer, late>>
  BY <1>a, <1>0 DEF Ambiguous, Fault
<1>2. /\ pc[t] \in Carrying /\ tr[t].handle \in Handles /\ o \in 1..opens /\ o \in Opens
      /\ mine[t] = None /\ starts[t] = 0 /\ (tr[t].borrowed => writer = t) /\ o <= opens
      /\ (tr[t].borrowed <=> Installed(o))
  <2>1. pc[t] \in Carrying /\ pc[t] \notin Taking /\ pc[t] \in Locking /\ pc[t] # "swap"
    BY <1>0 DEF Carrying, Taking, Locking
  <2> QED
    BY <1>a, <1>0, <2>1, Nothing DEF Placed, Knows, Opens, TypeOK
<1>4. /\ pc' \in [Callers -> Labels] /\ \A u \in Callers \ {t} : pc'[u] = pc[u]
      /\ op' \in [Callers -> [do : Ops, on : Wheels]] /\ pc'[t] = "poison"
  <2>1. "poison" \in Labels
    BY DEF Labels, Carrying
  <2> QED
    BY <1>1, <2>1, GotoFits
<1>5. TypeOK'
  BY <1>1, <1>2, <1>4 DEF TypeOK, sessions, locals
<1>6. OwnsSoundly'
  BY <1>1, OwnsSame DEF sessions, locals, OwnHandle, LoopHandle, Lend, Session
<1>7. Control'
  <2>1. Placed(t)'
    BY <1>0, <1>1, <1>2, <1>4, <1>a DEF Placed, locals, Carrying
  <2>2. opens' \in Nat
    BY <1>1, Nothing DEF TypeOK
  <2> QED
    BY <1>1, <1>4, <2>1, <2>2, ControlKeeps DEF locals
<1>8. Known'
  <2>1. ASSUME NEW u \in Callers
        PROVE  Knows(u)'
    <3>1. Knows(u) /\ (pc'[u] = "install" => pc[u] = "install")
          /\ (pc'[u] \in Carrying => pc[u] \in Carrying)
      BY <1>2, <1>4 DEF Known
    <3> QED
      BY <1>1, <3>1 DEF Knows, Installed, locals, sessions
  <2> QED
    BY <1>1, <2>1 DEF Known, Installed, sessions
<1>9. Tainting'
  <2>1. \A p \in tainted' : p <= opens'
    BY <1>1, <1>2 DEF Tainting
  <2>2. Avoids(t)'
    BY <1>4 DEF Avoids
  <2>3. ASSUME NEW u \in Callers \ {t}
        PROVE  Avoids(u)'
    <3>1. Avoids(u) /\ Placed(u) /\ Knows(u)
      BY DEF Tainting, Control, Known
    <3>2. MineOf(u) # OwnOf(t) /\ OwnOf(u) # OwnOf(t)
      BY PlacesDiffer
    <3>3. ~tr[t].borrowed => owns[OwnOf(t)] = Lend(t) /\ Lend(t) # None /\ Lend(t).open = o
      <4>1. Lend(t).handle = tr[t].handle /\ Lend(t).open = tr[t].open
        BY DEF Lend
      <4>2. ~tr[t].borrowed => owns[OwnOf(t)] = Lend(t)
        BY OwnsIs DEF OwnHandle
      <4> QED
        BY <1>a, <1>2, <4>1, <4>2, Nothing
    <3>4. ASSUME pc[u] = "install" PROVE mine[u].open # o
      <4>1. CASE tr[t].borrowed
        BY <1>2, <3>1, <3>4, <4>1 DEF Knows
      <4>2. CASE ~tr[t].borrowed
        <5>1. owns[MineOf(u)] = mine[u] /\ mine[u] # None
          BY <3>1, <3>4, OwnsIs DEF Placed
        <5> QED
          BY <3>2, <3>3, <4>2, <5>1, OwnsIs DEF OwnsSoundly, Sound
      <4> QED
        BY <4>1, <4>2 DEF TypeOK
    <3>5. ASSUME pc[u] \in Carrying, ~tr[u].borrowed PROVE tr[u].open # o
      <4>1. CASE tr[t].borrowed
        BY <1>2, <3>1, <3>5, <4>1 DEF Knows
      <4>2. CASE ~tr[t].borrowed
        <5>1. owns[OwnOf(u)] = Lend(u) /\ Lend(u) # None /\ Lend(u).open = tr[u].open
          <6>1. Lend(u).handle = tr[u].handle /\ Lend(u).open = tr[u].open
            BY DEF Lend
          <6>2. owns[OwnOf(u)] = Lend(u)
            BY <3>5, OwnsIs DEF OwnHandle
          <6>3. tr[u].handle # NoHandle
            BY <3>1, <3>5, Nothing DEF Placed
          <6> QED
            BY <6>1, <6>2, <6>3, Nothing
        <5> QED
          BY <3>2, <3>3, <4>2, <5>1, OwnsIs DEF OwnsSoundly, Sound
      <4> QED
        BY <4>1, <4>2 DEF TypeOK
    <3>6. ASSUME pc[u] \in {"write", "spawn"}, tr[u].borrowed PROVE tr[u].open # o
      <4>1. writer = u /\ Installed(tr[u].open)
        BY <3>1, <3>6 DEF Placed, Knows, Locking, Carrying
      <4>2. ~tr[t].borrowed
        BY <1>2, <4>1
      <4> QED
        BY <1>2, <4>1, <4>2
    <3>7. pc'[u] = pc[u] /\ mine'[u] = mine[u] /\ tr'[u] = tr[u]
          /\ (pc[u] \in {"write", "spawn"} => pc[u] \in Carrying)
      BY <1>1, <1>4 DEF locals, Carrying
    <3>8. pc[u] \in {"write", "spawn"} => tr[u].open # o
      BY <3>5, <3>6, <3>7 DEF TypeOK
    <3> QED
      BY <1>1, <3>1, <3>4, <3>5, <3>7, <3>8 DEF Avoids
  <2>4. ASSUME shared'["g27"].open \in tainted'
        PROVE  \E u \in Callers : Poisons(u)'
    <3>1. CASE shared["g27"].open \in tainted
      <4>1. PICK u \in Callers : Poisons(u)
        BY <3>1 DEF Tainting
      <4>2. Poisons(u)'
        BY <1>1, <1>4, <4>1 DEF Poisons, locals, sessions
      <4> QED
        BY <4>2
    <3>2. CASE shared["g27"].open = o
      <4>1. Installed(o)
        BY <1>2, <3>2, Nothing DEF Known
      <4>2. tr[t].borrowed /\ writer = t
        BY <1>2, <4>1
      <4>3. Poisons(t)'
        BY <1>a, <1>1, <1>4, <3>2, <4>2 DEF Poisons, locals, sessions
      <4> QED
        BY <4>3
    <3> QED
      BY <1>1, <2>4, <3>1, <3>2 DEF sessions
  <2> QED
    BY <2>1, <2>2, <2>3, <2>4 DEF Tainting
<1>10. Reading'
  BY <1>1 DEF Reading, LatestIsLive, LoopRuns, Current, Session, sessions
<1> QED
  BY <1>5, <1>6, <1>7, <1>8, <1>9, <1>10

-----------------------------------------------------------------------------
(* The read loops.                                                          *)

LoopStates == [at : {"none", "issue", "pending", "failed", "closing", "ended"},
               on : Wheels, handle : Handles \cup {NoHandle}, source : Opens \cup {0}]

\* A step of the read loop of an open that was installed.
LEMMA LoopKeeps ==
  ASSUME OnlyG27, IInv, NEW o \in Opens, loop[o].at # "none",
         NEW v \in LoopStates, v.at # "none", loop' = [loop EXCEPT ![o] = v],
         UNCHANGED <<opens, pc, op, locals, writer, late, tainted>>,
         object' \in [Handles -> Opens \cup {0}], faults' \in 0..MaxFaults,
         shared' \in [Wheels -> Owned], shared'["g27"] \in {shared["g27"], None},
         backoff' \in [Wheels -> BOOLEAN], latest' \in [Wheels -> Opens \cup {0}],
         OwnsSoundly', LatestIsLive',
         v.at = "pending" /\ v.handle = shared["g27"].handle /\ o = shared["g27"].open
           => v.source = o,
         v.at # "ended" => v.handle # NoHandle
  PROVE  IInv'
<1> USE DEF IInv
<1>1. loop \in [Opens -> LoopStates]
  BY DEF TypeOK, LoopStates
<1>2. /\ loop' \in [Opens -> LoopStates] /\ loop'[o] = v
      /\ \A p \in Opens : p # o => loop'[p] = loop[p]
  BY <1>1
<1>3. TypeOK'
  BY <1>2 DEF TypeOK, LoopStates, locals
<1>4. Control'
  BY DEF Control, Placed, locals
<1>5. /\ \A p \in Opens : Installed(p)' = Installed(p)
      /\ \A p \in Opens : loop[p].at = "none" => loop'[p].at = "none"
  BY <1>2 DEF Installed
<1>6. Known'
  <2>1. shared'["g27"] # None => Installed(shared["g27"].open)'
    <3>1. ASSUME shared'["g27"] # None PROVE Installed(shared["g27"].open)'
      <4>1. shared'["g27"] = shared["g27"] /\ Installed(shared["g27"].open)
        BY <3>1 DEF Known
      <4>2. shared["g27"].open \in Opens
        <5>1. InSession \in Places /\ owns[InSession] = shared["g27"] /\ shared["g27"] # None
          BY <3>1, <4>1, OwnsIs
        <5>2. shared["g27"].open \in 1..opens
          BY <5>1 DEF OwnsSoundly, Sound
        <5> QED
          BY <5>2, Nothing DEF TypeOK, Opens
      <4>3. loop'[shared["g27"].open].at # "none" \/ loop'[shared["g27"].open].handle # NoHandle
        BY <1>5, <4>1, <4>2 DEF Installed
      <4> QED
        BY <4>1, <4>3 DEF Installed
    <3> QED
      BY <3>1
  <2>2. ASSUME NEW u \in Callers
        PROVE  Knows(u)'
    <3>1. Knows(u) /\ Placed(u)
      BY DEF Known, Control
    <3>2. pc[u] = "install" => ~Installed(mine[u].open)'
      <4>1. ASSUME pc[u] = "install" PROVE ~Installed(mine[u].open)'
        <5>1. ~Installed(mine[u].open) /\ mine[u].open # o
          BY <3>1, <4>1 DEF Knows, Installed
        <5>2. loop'[mine[u].open] = loop[mine[u].open]
          BY <1>1, <5>1
        <5> QED
          BY <5>1, <5>2 DEF Installed, locals
      <4> QED
        BY <4>1
    <3>3. starts[u] # 0 => (loop[starts[u]].at = "none" /\ Installed(starts[u]))'
      <4>1. starts[u] # 0 => starts[u] # o
        BY <3>1 DEF Knows
      <4>2. starts[u] # 0 => loop'[starts[u]] = loop[starts[u]]
        BY <1>1, <4>1
      <4> QED
        BY <3>1, <4>2 DEF Knows, Installed, locals
    <3>4. pc[u] \in Carrying => (tr[u].borrowed <=> Installed(tr[u].open)')
      <4>1. ASSUME pc[u] \in Carrying PROVE tr[u].borrowed <=> Installed(tr[u].open)'
        <5>1. tr[u].open \in Opens /\ (tr[u].borrowed <=> Installed(tr[u].open))
          BY <3>1, <4>1, Nothing DEF Placed, Knows, Opens, TypeOK
        <5> QED
          BY <1>5, <5>1 DEF Installed, locals
      <4> QED
        BY <4>1
    <3>5. tr[u].borrowed /\ tr[u].open = shared'["g27"].open
            => tr[u].handle = shared'["g27"].handle
      <4>1. tr[u].borrowed => tr[u].open # 0
        BY <3>1, Nothing DEF Placed
      <4> QED
        BY <3>1, <4>1, Nothing DEF Knows
    <3> QED
      BY <3>1, <3>2, <3>3, <3>4, <3>5 DEF Knows, locals
  <2> QED
    BY <1>5, <2>1, <2>2 DEF Known
<1>7. Tainting'
  <2>1. \A u \in Callers : Avoids(u)'
    BY DEF Tainting, Avoids, locals
  <2>2. ASSUME shared'["g27"].open \in tainted
        PROVE  \E u \in Callers : Poisons(u)'
    <3>1. shared'["g27"] = shared["g27"]
      BY <2>2, Nothing DEF TypeOK
    <3>2. PICK u \in Callers : Poisons(u)
      BY <2>2, <3>1 DEF Tainting
    <3> QED
      BY <3>1, <3>2 DEF Poisons, locals
  <2> QED
    BY <2>1, <2>2 DEF Tainting
<1>8. Reading'
  <2>1. ASSUME NEW p \in Opens, loop'[p].at = "pending", Current("g27", Session(p))'
        PROVE  loop'[p].source = p
    <3>1. shared'["g27"] = shared["g27"]
      BY <2>1, Nothing DEF Current, Session
    <3>2. CASE p = o
      BY <1>2, <2>1, <3>1, <3>2 DEF Current, Session
    <3>3. CASE p # o
      BY <1>2, <2>1, <3>1, <3>3 DEF Reading, Current, Session
    <3> QED
      BY <3>2, <3>3
  <2>2. \A p \in Opens : LoopRuns(p)' => loop'[p].handle # NoHandle
    BY <1>2 DEF Reading, LoopRuns
  <2> QED
    BY <2>1, <2>2 DEF Reading
<1> QED
  BY <1>3, <1>4, <1>6, <1>7, <1>8

\* It reads, and publishes a report if the session is still its own.
LEMMA ReadKeeps ==
  ASSUME OnlyG27, IInv, NEW o \in Opens, Issue(o) \/ ReadFails(o) \/ ReadStale(o) \/ Publish(o)
  PROVE  IInv'
<1> USE DEF IInv
<1>0. /\ loop[o] \in LoopStates /\ loop[o].at # "none" /\ loop[o].at # "closing"
      /\ loop \in [Opens -> LoopStates] /\ faults \in 0..MaxFaults /\ MaxFaults \in Nat
      /\ loop[o].on = "g27"
  BY HidAssumption DEF TypeOK, LoopStates, Issue, ReadFails, ReadStale, Publish, OnlyG27
<1>1. /\ UNCHANGED <<object, opens, shared, backoff, pc, op, locals, writer, late, tainted>>
      /\ faults' \in 0..MaxFaults
  BY <1>0 DEF Issue, ReadFails, ReadStale, Publish, sessions, Fault
<1>2. LoopRuns(o) => loop[o].handle \in Handles
  BY <1>0 DEF Reading, LoopStates
<1>3. PICK v \in LoopStates :
        /\ loop' = [loop EXCEPT ![o] = v] /\ v.at \notin {"none", "closing"}
        /\ v.at = "pending" => v.handle = loop[o].handle /\ v.source = object[loop[o].handle]
        /\ v.at # "ended" => v.handle # NoHandle
  <2>1. CASE Issue(o)
    <3> DEFINE f == object[loop[o].handle]
               v == [loop[o] EXCEPT !.at = IF f = 0 THEN "failed" ELSE "pending", !.source = f]
    <3>1. loop' = [loop EXCEPT ![o] = v]
      BY <1>0, <2>1 DEF Issue
    <3>2. f \in Opens \cup {0} /\ loop[o].handle # NoHandle
      BY <1>2, <2>1, Nothing DEF TypeOK, Issue, LoopRuns
    <3>3. v \in LoopStates
      BY <1>0, <3>2 DEF LoopStates
    <3>4. /\ v.at = IF f = 0 THEN "failed" ELSE "pending"
          /\ v.handle = loop[o].handle /\ v.source = f
      BY <1>0 DEF LoopStates
    <3> HIDE DEF v
    <3> QED
      BY <3>1, <3>2, <3>3, <3>4
  <2>2. CASE ReadFails(o) \/ Publish(o)
    <3>1. PICK a \in {"failed", "issue"} :
            loop' = [loop EXCEPT ![o] = [loop[o] EXCEPT !.at = a, !.source = 0]]
      BY <1>0, <2>2 DEF ReadFails, Publish
    <3> DEFINE v == [loop[o] EXCEPT !.at = a, !.source = 0]
    <3>2. v \in LoopStates /\ v.at = a /\ v.handle = loop[o].handle
      BY <1>0 DEF LoopStates
    <3>3. loop[o].handle # NoHandle
      BY <1>2, <2>2, Nothing DEF ReadFails, Publish, LoopRuns
    <3> HIDE DEF v
    <3>4. loop' = [loop EXCEPT ![o] = v]
      BY <3>1 DEF v
    <3> QED
      BY <3>2, <3>3, <3>4
  <2>3. CASE ReadStale(o)
    <3> DEFINE v == [NoLoop EXCEPT !.at = "ended"]
    <3>1. loop' = [loop EXCEPT ![o] = v] /\ v.at = "ended" /\ v \in LoopStates
      BY <2>3, Nothing DEF ReadStale, Ended, NoLoop, LoopStates
    <3> HIDE DEF v
    <3> QED
      BY <3>1
  <2> QED
    BY <2>1, <2>2, <2>3
<1>4. loop'[o] = v /\ \A p \in Opens : p # o => loop'[p] = loop[p]
  BY <1>0, <1>3
<1>5. OwnsSoundly'
  <2>1. \A p \in Opens : LoopHandle(p)' = LoopHandle(p)
    BY <1>0, <1>3, <1>4 DEF LoopHandle, Session
  <2>2. \A u \in Callers : mine'[u] = mine[u] /\ OwnHandle(u)' = OwnHandle(u)
    BY <1>1 DEF locals, OwnHandle, Lend
  <2> QED
    BY <1>1, <2>1, <2>2, OwnsSame
<1>6. shared["g27"].open = o /\ shared["g27"].handle = loop[o].handle /\ loop[o].handle \in Handles
        => object[loop[o].handle] = o
  <2>1. InSession \in Places /\ owns[InSession] = shared["g27"]
    BY OwnsIs
  <2> QED
    BY <2>1, Nothing DEF OwnsSoundly, Sound
<1>7. latest' \in [Wheels -> Opens \cup {0}] /\ LatestIsLive'
  <2>1. CASE Publish(o) /\ Current("g27", Session(o))
    <3>1. loop[o].source = o /\ shared["g27"].open = o
      BY <2>1 DEF Publish, Reading, Current, Session
    <3>2. latest' = [latest EXCEPT !["g27"] = o] /\ shared' = shared
      BY <1>0, <1>1, <2>1, <3>1 DEF Publish
    <3> QED
      BY <3>1, <3>2, Nothing DEF LatestIsLive, OnlyG27, TypeOK
  <2>2. CASE latest' = latest
    BY <1>1, <2>2 DEF LatestIsLive, Reading, TypeOK
  <2> QED
    BY <1>0, <2>1, <2>2 DEF Issue, ReadFails, ReadStale, Publish, sessions
<1>8. /\ shared' \in [Wheels -> Owned] /\ shared'["g27"] \in {shared["g27"], None}
      /\ backoff' \in [Wheels -> BOOLEAN] /\ object' \in [Handles -> Opens \cup {0}]
  BY <1>1 DEF TypeOK
<1>9. v.at = "pending" /\ v.handle = shared["g27"].handle /\ o = shared["g27"].open => v.source = o
  BY <1>0, <1>3, <1>6, Nothing DEF LoopStates
<1> QED
  BY <1>0, <1>1, <1>3, <1>5, <1>7, <1>8, <1>9, LoopKeeps

\* It loses its session and closes the handle it took out of it, or it ends.
LEMMA LoopEndKeeps ==
  ASSUME OnlyG27, IInv, NEW o \in Opens, LoopFails(o) \/ LoopCloses(o)
  PROVE  IInv'
<1> USE DEF IInv
<1>0. /\ loop[o] \in LoopStates /\ loop[o].at \in {"failed", "closing"} /\ loop[o].on = "g27"
      /\ loop \in [Opens -> LoopStates] /\ loop[o].handle \in Handles
  BY DEF TypeOK, LoopStates, LoopFails, LoopCloses, OnlyG27, Reading, LoopRuns
<1>1. /\ UNCHANGED <<opens, latest, pc, op, locals, writer, late, tainted, faults>>
      /\ latest' \in [Wheels -> Opens \cup {0}] /\ faults' \in 0..MaxFaults
  BY DEF LoopFails, LoopCloses, sessions, TypeOK
<1>2. \A u \in Callers : mine'[u] = mine[u] /\ OwnHandle(u)' = OwnHandle(u)
  BY <1>1 DEF locals, OwnHandle, Lend
<1> DEFINE ended == [NoLoop EXCEPT !.at = "ended"]
<1>3. ended \in LoopStates /\ ended.at = "ended"
  BY Nothing DEF NoLoop, LoopStates
<1>4. Session(o).handle = loop[o].handle /\ Session(o).open = o /\ Session(o) \in Owned
  BY <1>0 DEF Session, Owned
<1> HIDE DEF ended
<1>5. CASE LoopFails(o) /\ Current("g27", Session(o))
  <2> DEFINE v == [loop[o] EXCEPT !.at = "closing"]
  <2>1. /\ loop' = [loop EXCEPT ![o] = v] /\ object' = object /\ loop[o].at = "failed"
        /\ shared' = [shared EXCEPT !["g27"] = None] /\ backoff' = [backoff EXCEPT !["g27"] = TRUE]
    BY <1>0, <1>5 DEF LoopFails, Closes, Ran, Gone
  <2>2. v \in LoopStates /\ v.at = "closing" /\ v.handle = loop[o].handle
    BY <1>0 DEF LoopStates
  <2> HIDE DEF v
  <2>3. shared' \in [Wheels -> Owned] /\ shared'["g27"] = None /\ backoff' \in [Wheels -> BOOLEAN]
        /\ object' \in [Handles -> Opens \cup {0}]
    BY <2>1, Nothing DEF TypeOK
  <2>4. loop'[o] = v /\ \A p \in Opens : p # o => loop'[p] = loop[p]
    BY <1>0, <2>1
  <2>5. shared["g27"] = Session(o)
    <3>1. shared["g27"] \in Owned /\ shared["g27"].handle = Session(o).handle
          /\ shared["g27"].open = Session(o).open
      BY <1>5, Nothing DEF Current, TypeOK
    <3> QED
      BY <1>4, <3>1 DEF Owned
  <2>6. OwnsSoundly'
    <3>1. /\ {LoopOf(o), InSession} \in SUBSET Places
          /\ owns'[LoopOf(o)] = owns[InSession] /\ owns'[InSession] = owns[LoopOf(o)]
      <4>1. LoopHandle(o) = None /\ LoopHandle(o)' = Session(o)
        BY <2>1, <2>2, <2>4 DEF LoopHandle, Session
      <4> QED
        BY <2>3, <2>5, <4>1, OwnsIs
    <3>2. \A q \in Places \ {LoopOf(o), InSession} : owns'[q] = owns[q]
      <4>1. \A p \in Opens : LoopOf(p) \in {LoopOf(o), InSession} \/ LoopHandle(p)' = LoopHandle(p)
        BY <2>4 DEF LoopHandle, Session
      <4> QED
        BY <1>2, <3>1, <4>1, OwnsKept
    <3> QED
      BY <1>1, <2>1, <3>1, <3>2, SoundTrades DEF OwnsSoundly
  <2>7. LatestIsLive'
    BY <2>3, Nothing DEF LatestIsLive, OnlyG27
  <2>8. v.handle # NoHandle
    BY <1>0, <2>2, Nothing
  <2> QED
    BY <1>1, <2>1, <2>2, <2>3, <2>6, <2>7, <2>8, LoopKeeps
<1>6. CASE LoopFails(o) /\ ~Current("g27", Session(o))
  <2>1. /\ loop' = [loop EXCEPT ![o] = ended] /\ object' = object /\ loop[o].at = "failed"
        /\ shared' = shared /\ backoff' = backoff
    BY <1>0, <1>6 DEF LoopFails, Closes, Ended, ended
  <2>2. loop'[o] = ended /\ \A p \in Opens : p # o => loop'[p] = loop[p]
    BY <1>0, <2>1
  <2>3. OwnsSoundly'
    <3>1. \A p \in Opens : LoopHandle(p)' = LoopHandle(p)
      BY <1>3, <2>1, <2>2 DEF LoopHandle, Session
    <3> QED
      BY <1>1, <1>2, <2>1, <3>1, OwnsSame
  <2>4. shared' \in [Wheels -> Owned] /\ backoff' \in [Wheels -> BOOLEAN]
        /\ object' \in [Handles -> Opens \cup {0}] /\ LatestIsLive'
    BY <1>1, <2>1 DEF TypeOK, Reading, LatestIsLive
  <2> QED
    BY <1>1, <1>3, <2>1, <2>3, <2>4, LoopKeeps
<1>7. CASE LoopCloses(o)
  <2>1. /\ loop' = [loop EXCEPT ![o] = ended] /\ Closed(loop[o].handle) /\ loop[o].at = "closing"
        /\ shared' = shared /\ backoff' = backoff /\ opens' = opens
    BY <1>7 DEF LoopCloses, Ended, ended, sessions
  <2>2. loop'[o] = ended /\ \A p \in Opens : p # o => loop'[p] = loop[p]
    BY <1>0, <2>1
  <2>3. OwnsSoundly'
    <3>1. /\ {LoopOf(o)} \in SUBSET Places /\ owns[LoopOf(o)].handle = loop[o].handle
          /\ owns'[LoopOf(o)] = None
      <4>1. LoopHandle(o) = Session(o) /\ LoopHandle(o)' = None
        BY <1>3, <2>1, <2>2 DEF LoopHandle
      <4> QED
        BY <1>4, <4>1, OwnsIs
    <3>2. \A q \in Places \ {LoopOf(o)} : owns'[q] = owns[q]
      <4>1. \A p \in Opens : LoopOf(p) \in {LoopOf(o)} \/ LoopHandle(p)' = LoopHandle(p)
        BY <2>2 DEF LoopHandle, Session
      <4> QED
        BY <1>2, <2>1, <3>1, <4>1, OwnsKept
    <3> QED
      BY <2>1, <3>1, <3>2, SoundClosing
  <2>4. shared' \in [Wheels -> Owned] /\ backoff' \in [Wheels -> BOOLEAN]
        /\ object' \in [Handles -> Opens \cup {0}] /\ LatestIsLive'
    BY <1>1, <2>1, ClosedFits DEF TypeOK, Reading, LatestIsLive
  <2> QED
    BY <1>1, <1>3, <2>1, <2>3, <2>4, LoopKeeps
<1> QED
  BY <1>5, <1>6, <1>7

-----------------------------------------------------------------------------

\* A step of a caller keeps the invariant.
LEMMA CallerStepKeeps ==
  ASSUME OnlyG27, IInv, NEW t \in Callers,
         CallerStep(t) \/ \E o \in Ops, w \in Wheels : Start(t, o, w)
  PROVE  IInv'
<1>1. CASE (\E o \in Ops, w \in Wheels : Start(t, o, w)) \/ Look(t) \/ Due(t) \/ CreateFails(t)
  BY <1>1, CallKeeps
<1>2. CASE Create(t) \/ Install(t) \/ Swap(t)
  BY <1>2, CreateKeeps, InstallKeeps, SwapKeeps
<1>3. CASE Shut(t) \/ ShutClose(t) \/ Poison(t) \/ Discard(t)
  BY <1>3, ShutKeeps, DiscardKeeps, PoisonKeeps
<1>4. CASE Borrow(t) \/ OpenOwn(t) \/ Reopen(t)
  <2>1. CASE tr' = tr
    BY <1>4, <2>1, OpenKeeps
  <2>2. CASE tr' # tr
    BY <1>4, <2>2, OpenKeeps, BorrowedKeeps
  <2> QED
    BY <2>1, <2>2
<1>5. CASE CloseTransport(t) \/ Unsupported(t)
  BY <1>5, BorrowedKeeps, OwnCloseKeeps
<1>6. CASE WriteReport(t) \/ LockWrites(t) \/ Recheck(t) \/ Write(t) \/ Confirmed(t)
           \/ Spawn(t) \/ Answered(t)
  <2>1. CASE tr' = tr
    BY <1>6, <2>1, WriteKeeps
  <2>2. CASE tr' # tr
    BY <1>6, <2>2, WriteKeeps, BorrowedKeeps
  <2> QED
    BY <2>1, <2>2
<1>7. CASE Ambiguous(t)
  BY <1>7, AmbiguousKeeps
<1> QED
  BY <1>1, <1>2, <1>3, <1>4, <1>5, <1>6, <1>7 DEF CallerStep

\* Every step keeps the invariant.
LEMMA StepKeeps ==
  ASSUME OnlyG27, IInv, [Next]_vars
  PROVE  IInv'
<1>1. ASSUME NEW t \in Callers, CallerStep(t) \/ \E o \in Ops, w \in Wheels : Start(t, o, w)
      PROVE  IInv'
  BY <1>1, CallerStepKeeps
<1>2. ASSUME NEW o \in Opens, LoopStep(o)
      PROVE  IInv'
  BY <1>2, ReadKeeps, LoopEndKeeps DEF LoopStep
<1>3. CASE \/ \E w \in Wheels : BackoffOver(w)
           \/ \E l \in late : LateWrite(l)
           \/ UNCHANGED vars
  <2>1. /\ UNCHANGED <<object, opens, shared, latest, loop, pc, op, locals, writer, tainted, faults>>
        /\ backoff' \in [Wheels -> BOOLEAN] /\ late' \subseteq late
    BY <1>3 DEF BackoffOver, LateWrite, vars, sessions, locals, IInv, TypeOK
  <2>2. TypeOK'
    BY <2>1 DEF IInv, TypeOK, locals
  <2>3. OwnsSoundly'
    BY <2>1, OwnsSame DEF locals, OwnHandle, LoopHandle, Lend, Session
  <2>4. Control'
    BY <2>1 DEF IInv, Control, Placed, locals
  <2>5. Known'
    BY <2>1 DEF IInv, Known, Knows, Installed, locals
  <2>6. Tainting'
    BY <2>1 DEF IInv, Tainting, Avoids, Poisons, locals
  <2>7. Reading'
    BY <2>1 DEF IInv, Reading, LoopRuns, LatestIsLive, Current, Session
  <2> QED
    BY <2>2, <2>3, <2>4, <2>5, <2>6, <2>7 DEF IInv
<1> QED
  BY <1>1, <1>2, <1>3 DEF Next

\* The parts of the invariant hold together in every state.
LEMMA Invariance == OnlyG27 => (Spec => []IInv)
<1> SUFFICES ASSUME OnlyG27 PROVE Spec => []IInv
  OBVIOUS
<1>1. Init => IInv
  <2> SUFFICES ASSUME Init PROVE IInv
    OBVIOUS
  <2>1. NoLoop.at = "none" /\ NoLoop.handle = NoHandle
        /\ NoLoop \in [at : {"none", "issue", "pending", "failed", "closing", "ended"},
                       on : Wheels, handle : Handles \cup {NoHandle},
                       source : Opens \cup {0}]
    BY Nothing DEF NoLoop
  <2>2. 0 \in 0..MaxOpens /\ 0 \in 0..MaxFaults
    BY HidAssumption
  <2>3. TypeOK
    BY <2>1, <2>2, Nothing DEF Init, TypeOK
  <2>4. OwnsSoundly
    <3>1. \A p \in Places : owns[p] = None
      <4>1. \A t \in Callers : mine[t] = None /\ OwnHandle(t) = None
        BY Nothing DEF Init, OwnHandle, Lend, None
      <4>2. \A o \in Opens : LoopHandle(o) = None
        BY <2>1 DEF Init, LoopHandle
      <4>3. shared["g27"] = None
        BY Nothing DEF Init
      <4>4. \A p \in Places : \/ \E t \in Callers : p = MineOf(t) \/ p = OwnOf(t)
                              \/ \E o \in Opens : p = LoopOf(o)
                              \/ p = InSession
        BY DEF Places
      <4> QED
        BY <4>1, <4>2, <4>3, <4>4, OwnsIs
    <3>2. \A h \in Handles : object[h] = 0
      BY DEF Init
    <3> QED
      BY <3>1, <3>2 DEF OwnsSoundly, Sound
  <2>5. Control
    BY Nothing DEF Init, Control, Placed, Labels, Taking, Carrying, Locking
  <2>6. Known
    BY <2>1, Nothing DEF Init, Known, Knows, Installed, Carrying
  <2>7. Tainting
    BY DEF Init, Tainting, Avoids
  <2>8. Reading
    BY <2>1, Nothing DEF Init, Reading, LoopRuns, LatestIsLive
  <2> QED
    BY <2>3, <2>4, <2>5, <2>6, <2>7, <2>8 DEF IInv
<1>2. IInv /\ [Next]_vars => IInv'
  BY StepKeeps
<1> QED
  BY <1>1, <1>2, PTL DEF Spec

\* Every variable keeps its type.
THEOREM TypeCorrect == OnlyG27 => (Spec => []TypeOK)
<1>1. IInv => TypeOK
  BY DEF IInv
<1> QED
  BY <1>1, Invariance, PTL

\* Whoever is about to close a handle closes the file it opened, and not a second time, nor
\* one that has got the same value since.
THEOREM HandlesClosedOnce == OnlyG27 => (Spec => []ClosedOnce)
<1>1. IInv => ClosedOnce
  <2> SUFFICES ASSUME IInv, NEW s \in Held, s.handle # NoHandle
               PROVE  object[s.handle] = s.open
    BY DEF ClosedOnce
  <2>1. \E p \in Places : owns[p] = s
    <3>1. CASE \E t \in Callers : s = mine[t]
      BY <3>1, OwnsIs
    <3>2. CASE \E t \in Callers : ~tr[t].borrowed /\ s = Lend(t)
      BY <3>2, OwnsIs DEF OwnHandle
    <3>3. CASE \E o \in Opens : loop[o].at = "closing" /\ s = Session(o)
      BY <3>3, OwnsIs DEF LoopHandle
    <3> QED
      BY <3>1, <3>2, <3>3 DEF Held
  <2>2. s # None
    BY DEF None
  <2> QED
    BY <2>1, <2>2 DEF IInv, OwnsSoundly, Sound
<1> QED
  BY <1>1, Invariance, PTL

\* No session that is replaced, invalidated, poisoned or closed leaks its handle: somebody
\* is about to close it.
THEOREM NothingLeaks == OnlyG27 => (Spec => []NoLeak)
<1> SUFFICES ASSUME OnlyG27 PROVE Spec => []NoLeak
  OBVIOUS
<1>1. IInv => NoLeak
  <2> SUFFICES ASSUME IInv, NEW h \in Handles, object[h] \in Opens,
                      NEW s, s = [handle |-> h, open |-> object[h]]
               PROVE  s \in Held \/ \E w \in Wheels : shared[w] = s
    BY DEF NoLeak
  <2>1. object[h] # 0
    BY Nothing
  <2>2. PICK p \in Places : owns[p] # None /\ owns[p].handle = h /\ owns[p].open = object[h]
    BY <2>1 DEF IInv, OwnsSoundly, Sound
  <2>3. \/ \E t \in Callers : p = MineOf(t) \/ p = OwnOf(t)
        \/ \E o \in Opens : p = LoopOf(o)
        \/ p = InSession
    BY DEF Places
  <2>4. CASE \E t \in Callers : p = MineOf(t)
    <3>1. PICK t \in Callers : owns[p] = mine[t]
      BY <2>4, OwnsIs
    <3>2. mine[t] = s
      BY <2>2, <3>1 DEF IInv, TypeOK, Owned
    <3> QED
      BY <3>2 DEF Held
  <2>5. CASE \E t \in Callers : p = OwnOf(t)
    <3>1. PICK t \in Callers : owns[p] = OwnHandle(t)
      BY <2>5, OwnsIs
    <3>2. ~tr[t].borrowed /\ Lend(t) = owns[p]
      BY <2>2, <3>1 DEF OwnHandle
    <3>3. Lend(t) = s
      BY <2>2, <3>2 DEF Lend
    <3> QED
      BY <3>2, <3>3 DEF Held
  <2>6. CASE \E o \in Opens : p = LoopOf(o)
    <3>1. PICK o \in Opens : owns[p] = LoopHandle(o)
      BY <2>6, OwnsIs
    <3>2. loop[o].at = "closing" /\ Session(o) = owns[p]
      BY <2>2, <3>1 DEF LoopHandle
    <3>3. Session(o) = s
      BY <2>2, <3>2 DEF Session
    <3> QED
      BY <3>2, <3>3 DEF Held
  <2>7. CASE p = InSession
    <3>1. shared["g27"] \in Owned /\ owns[p] = shared["g27"]
      BY <2>7, OwnsIs, Nothing DEF IInv, TypeOK
    <3>2. shared["g27"] = s
      BY <2>2, <3>1 DEF Owned
    <3> QED
      BY <3>2, Nothing
  <2> QED
    BY <2>3, <2>4, <2>5, <2>6, <2>7
<1> QED
  BY <1>1, Invariance, PTL

\* The report shown for an open session was read from that session.
THEOREM ReportIsLive == OnlyG27 => (Spec => []LatestIsLive)
<1>1. IInv => LatestIsLive
  BY DEF IInv, Reading
<1> QED
  BY <1>1, Invariance, PTL

\* After a write with an unknown outcome no other transport starts a report on the same
\* session.
THEOREM UnknownIsNotReused == OnlyG27 => (Spec => []AmbiguousNotReused)
<1>1. IInv => AmbiguousNotReused
  BY DEF IInv, Tainting, Avoids, AmbiguousNotReused
<1> QED
  BY <1>1, Invariance, PTL

=============================================================================
