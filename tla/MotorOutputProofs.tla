--------------------------- MODULE MotorOutputProofs ---------------------------
(***************************************************************************)
(* Proofs about MotorOutput, for any set of callers, any operations they   *)
(* issue and any bounds.                                                   *)
(*   - The type invariant.                                                 *)
(*   - Only the holder of the lease writes to the wheel, for any number of *)
(*     sessions, failed writes and process ends, as long as the UI thread  *)
(*     is the one caller that starts and stops output (OneStarter). The    *)
(*     refresh goroutine may end the output of a game; the profiles it may *)
(*     apply as well are the exception that breaks the property.           *)
(*   - An effect of this process plays only while its session has the      *)
(*     lease, under OneStarter.                                            *)
(*   - A stop that reports success has given back the lease and ended what *)
(*     this process plays, under OneStarter.                               *)
(*   - MotorOutput keeps the contract of MotorContract, so whatever plays  *)
(*     is covered by the marker, and a stop that reports success has left  *)
(*     a neutral wheel, under OneStarter and in a behaviour that passes    *)
(*     through none of the three windows that Gap names: a recovery and a  *)
(*     late timer that delete the marker of a session under way, and a     *)
(*     game over a spring that a former process left on. With every other  *)
(*     order of autocenter tests and recoveries the three hold.            *)
(***************************************************************************)
EXTENDS MotorOutput, TLAPS

\* The labels at which a caller holds the token of a lease it acquired.
Holding == {"mark", "write", "register", "publish", "drop", "arm"}
Held(t) == \/ pc[t] \in Holding
           \/ pc[t] = "announce" /\ op[t] = "spring"

\* The labels that hold no token, whatever the operation.
Free == Labels \ (Holding \cup {"announce"})

\* A token that is used as one is not the generation-0 token, and a cancel
\* channel belongs to a session.
TokenHeld ==
  /\ \A t \in Callers : Held(t) => tok[t] # 0
  /\ ffb.cancel => ffb.session # 0

\* What nativeFFB may hold.
FFBStates == [session : 0..MaxGen, cancel : BOOLEAN, done : BOOLEAN,
              active : BOOLEAN, stopping : BOOLEAN]

Typed == TypeOK /\ TokenHeld

-----------------------------------------------------------------------------

\* The counters start within their bounds.
LEMMA ZeroInRange == 0 \in 0..MaxGen /\ 0 \in 0..MaxFaults /\ 0 \in 0..MaxCrashes
BY MotorAssumption

\* Nothing has a wrong type in the initial state.
LEMMA InitTyped == Init => Typed
<1> SUFFICES ASSUME Init PROVE Typed
  OBVIOUS
<1> USE MotorAssumption DEF Init
<1>1. TypeOK
  <2>1. pc \in [Threads -> Labels] /\ op \in [Callers -> Stages]
    BY DEF Boot, NoOp, Labels, Stages, Ops
  <2>2. tok \in [Threads -> 0..MaxGen]
    BY DEF OwnToken, Threads, Workers, Watchdogs, Worker, Watchdog, Gens
  <2>3. awaited \in [Callers -> 0..MaxGen] /\ err \in [Threads -> BOOLEAN]
    BY DEF NoneAwaited, NoError
  <2>7. /\ force \in {0, Orphan} \cup Gens /\ spring \in {0, Orphan} \cup Gens
        /\ marker \in BOOLEAN /\ lease \in 0..MaxGen /\ generation \in 0..MaxGen
        /\ closed \subseteq Gens /\ faults \in 0..MaxFaults /\ crashes \in 0..MaxCrashes
    BY ZeroInRange
  <2>4. ffb \in FFBStates
    BY DEF NoFFB, FFBStates
  <2>5. kind \in [Gens -> Kinds]
    BY DEF NoKind, Kinds
  <2>6. game \in [session : 0..MaxGen, active : BOOLEAN] /\ out \in [active : BOOLEAN, timer : 0..MaxGen]
    BY DEF NoGame, NoOut
  <2> QED
    BY <2>1, <2>2, <2>3, <2>4, <2>5, <2>6, <2>7 DEF TypeOK, FFBStates
<1>2. TokenHeld
  <2>1. \A t \in Callers : pc[t] \in {"recover", "idle"}
    BY DEF Boot, Threads
  <2> QED
    BY <2>1 DEF TokenHeld, Held, Holding, NoFFB
<1> QED
  BY <1>1, <1>2 DEF Typed

\* A new process starts with nothing of a wrong type.
LEMMA CrashTyped == Typed /\ Crash => Typed'
<1> SUFFICES ASSUME Typed, Crash PROVE Typed'
  OBVIOUS
<1> USE MotorAssumption DEF Crash
<1>1. TypeOK'
  <2>1. pc' \in [Threads -> Labels] /\ op' \in [Callers -> Stages]
    BY DEF Boot, NoOp, Labels, Stages, Ops
  <2>2. tok' \in [Threads -> 0..MaxGen]
    BY DEF OwnToken, Threads, Workers, Watchdogs, Worker, Watchdog, Gens
  <2>3. awaited' \in [Callers -> 0..MaxGen] /\ err' \in [Threads -> BOOLEAN]
    BY DEF NoneAwaited, NoError
  <2>4. ffb' \in FFBStates
    BY DEF NoFFB, FFBStates
  <2>5. kind' \in [Gens -> Kinds]
    BY DEF NoKind, Kinds
  <2>6. game' \in [session : 0..MaxGen, active : BOOLEAN] /\ out' \in [active : BOOLEAN, timer : 0..MaxGen]
    BY DEF NoGame, NoOut
  <2>7. force' \in {0, Orphan} \cup Gens /\ spring' \in {0, Orphan} \cup Gens
    OBVIOUS
  <2>8. crashes' \in 0..MaxCrashes /\ faults' \in 0..MaxFaults /\ marker' \in BOOLEAN
    BY DEF Typed, TypeOK
  <2> QED
    BY <2>1, <2>2, <2>3, <2>4, <2>5, <2>6, <2>7, <2>8 DEF TypeOK, FFBStates
<1>2. TokenHeld'
  <2>1. \A t \in Callers : pc'[t] \in {"recover", "idle"}
    BY DEF Boot, Threads
  <2> QED
    BY <2>1 DEF TokenHeld, Held, Holding, NoFFB
<1> QED
  BY <1>1, <1>2 DEF Typed


\* The labels that the operators of the model compute.
LEMMA ComputedLabels ==
  ASSUME NEW t, NEW o
  PROVE  /\ AfterStop(o) \in Free
         /\ Stopped(o) \in Free
         /\ Unstopped(o) \in Free
         /\ Settled(t) \in Free
         /\ Completed(t) \in Free
<1> USE DEF Free, Labels, Holding
<1>1. AfterStop(o) \in Free
  BY DEF AfterStop
<1>2. Stopped(o) \in Free
  BY DEF Stopped
<1>3. Unstopped(o) \in Free
  BY DEF Unstopped
<1>4. Settled(t) \in Free
  BY DEF Settled
<1>5. Completed(t) \in Free
  BY DEF Completed
<1> QED
  BY <1>1, <1>2, <1>3, <1>4, <1>5

\* Stopping the watchdog changes the label of no caller.
LEMMA UnwatchedLabels ==
  ASSUME TypeOK
  PROVE  /\ Unwatched \in [Threads -> Labels]
         /\ \A t \in Callers : Unwatched[t] = pc[t]
<1>1. CASE out.timer # 0
  <2>1. out.timer \in Gens
    BY <1>1, MotorAssumption DEF TypeOK, Gens
  <2>2. Watchdog(out.timer) \in Watchdogs
    BY <2>1 DEF Watchdogs
  <2> QED
    BY <1>1, <2>2, MotorAssumption DEF TypeOK, Unwatched, Threads, Labels
<1>2. CASE out.timer = 0
  BY <1>2, MotorAssumption DEF TypeOK, Unwatched
<1> QED
  BY <1>1, <1>2

\* A step of thread t that leaves the other callers alone keeps TokenHeld if t
\* itself does.
LEMMA HeldStep ==
  ASSUME TokenHeld, NEW t,
         \A c \in Callers \ {t} : pc'[c] = pc[c] /\ tok'[c] = tok[c] /\ op'[c] = op[c],
         t \in Callers /\ Held(t)' => tok'[t] # 0,
         ffb'.cancel => ffb'.session # 0
  PROVE  TokenHeld'
BY DEF TokenHeld, Held

\* The steps that stop a session.
LEMMA StoppingTyped ==
  ASSUME Typed, NEW t \in Callers,
         \/ Return(t) \/ Survey(t) \/ CancelSession(t) \/ WorkerEnded(t)
         \/ WorkerTimeout(t) \/ BestEffort(t) \/ Target(t) \/ Conclude(t)
  PROVE  Typed'
<1> USE MotorAssumption DEF Typed, TypeOK, Goto, Threads, device, ownership, session, locals
<1>a. /\ AfterStop(op[t]) \in Free
      /\ Stopped(op[t]) \in Free
      /\ Unstopped(op[t]) \in Free
      /\ Completed(t) \in Free
      /\ Settled(t) \in Free
  BY ComputedLabels
<1>b. Unwatched \in [Threads -> Labels] /\ \A c \in Callers : Unwatched[c] = pc[c]
  BY UnwatchedLabels
<1>c. ffb.cancel => ffb.session # 0
  BY DEF TokenHeld
<1>1. CASE Return(t)
  <2>1. pc' \in [Threads -> Labels]
    BY <1>1 DEF Return, Free, Labels
  <2>2. Held(t)' => tok'[t] # 0
    BY <1>1 DEF Return, Free, Held, Holding
  <2>3. \A c \in Callers \ {t} : pc'[c] = pc[c] /\ tok'[c] = tok[c] /\ op'[c] = op[c]
    BY <1>1 DEF Return
  <2>4. (ffb'.cancel => ffb'.session # 0) /\ ffb' \in FFBStates
    BY <1>1, <1>c DEF Return, FFBStates
  <2>5. op' \in [Callers -> Stages]
    BY <1>1 DEF Return, Stages
  <2>6. TypeOK'
    BY <1>1, <2>1, <2>4, <2>5 DEF Return, FFBStates
  <2>7. TokenHeld'
    BY <2>2, <2>3, <2>4, HeldStep
  <2> QED
    BY <2>6, <2>7
<1>2. CASE Survey(t)
  <2>1. pc' \in [Threads -> Labels]
    BY <1>2, <1>a DEF Survey, Free, Labels, Continue
  <2>2. Held(t)' => tok'[t] # 0
    BY <1>2, <1>a DEF Survey, Free, Held, Holding, Continue
  <2>3. \A c \in Callers \ {t} : pc'[c] = pc[c] /\ tok'[c] = tok[c] /\ op'[c] = op[c]
    BY <1>2 DEF Survey, Continue
  <2>4. (ffb'.cancel => ffb'.session # 0) /\ ffb' \in FFBStates
    BY <1>2, <1>c DEF Survey, FFBStates
  <2>5. op' \in [Callers -> Stages]
    BY <1>2 DEF Survey, Continue, Stages, Ops
  <2>6. TypeOK'
    BY <1>2, <2>1, <2>4, <2>5 DEF Survey, FFBStates
  <2>7. TokenHeld'
    BY <2>2, <2>3, <2>4, HeldStep
  <2> QED
    BY <2>6, <2>7
<1>3. CASE CancelSession(t)
  <2>1. pc' \in [Threads -> Labels]
    BY <1>3, <1>a DEF CancelSession, Free, Labels
  <2>2. Held(t)' => tok'[t] # 0
    BY <1>3, <1>a DEF CancelSession, Free, Held, Holding
  <2>3. \A c \in Callers \ {t} : pc'[c] = pc[c] /\ tok'[c] = tok[c] /\ op'[c] = op[c]
    BY <1>3 DEF CancelSession
  <2>4. (ffb'.cancel => ffb'.session # 0) /\ ffb' \in FFBStates
    BY <1>3, <1>c DEF CancelSession, FFBStates
  <2>5. closed' \subseteq Gens
    BY <1>3, <1>c DEF CancelSession, ClosedNow, Gens
  <2>6. TypeOK'
    BY <1>3, <2>1, <2>4, <2>5 DEF CancelSession, FFBStates
  <2>7. TokenHeld'
    BY <2>2, <2>3, <2>4, HeldStep
  <2> QED
    BY <2>6, <2>7
<1>4. CASE WorkerEnded(t)
  <2>1. pc' \in [Threads -> Labels]
    BY <1>4, <1>a DEF WorkerEnded, Free, Labels
  <2>2. Held(t)' => tok'[t] # 0
    BY <1>4, <1>a DEF WorkerEnded, Free, Held, Holding
  <2>3. \A c \in Callers \ {t} : pc'[c] = pc[c] /\ tok'[c] = tok[c] /\ op'[c] = op[c]
    BY <1>4 DEF WorkerEnded
  <2>4. (ffb'.cancel => ffb'.session # 0) /\ ffb' \in FFBStates
    <3>1. CASE lease = awaited[t]
      <4>1. ffb' = [ffb EXCEPT !.active = TRUE, !.stopping = FALSE]
        BY <1>4, <3>1 DEF WorkerEnded
      <4> QED
        BY <4>1, <1>c DEF FFBStates
    <3>2. CASE lease # awaited[t]
      <4>1. ffb' = [ffb EXCEPT !.stopping = FALSE]
        BY <1>4, <3>2 DEF WorkerEnded
      <4> QED
        BY <4>1, <1>c DEF FFBStates
    <3> QED
      BY <3>1, <3>2
  <2>5. TypeOK'
    BY <1>4, <2>1, <2>4 DEF WorkerEnded, FFBStates
  <2>6. TokenHeld'
    BY <2>2, <2>3, <2>4, HeldStep
  <2> QED
    BY <2>5, <2>6
<1>5. CASE WorkerTimeout(t)
  <2>1. pc' \in [Threads -> Labels]
    BY <1>5, <1>a DEF WorkerTimeout, Free, Labels
  <2>2. Held(t)' => tok'[t] # 0
    BY <1>5, <1>a DEF WorkerTimeout, Free, Held, Holding
  <2>3. \A c \in Callers \ {t} : pc'[c] = pc[c] /\ tok'[c] = tok[c] /\ op'[c] = op[c]
    BY <1>5 DEF WorkerTimeout
  <2>4. (ffb'.cancel => ffb'.session # 0) /\ ffb' \in FFBStates
    BY <1>5, <1>c DEF WorkerTimeout, FFBStates
  <2>5. TypeOK'
    BY <1>5, <2>1, <2>4 DEF WorkerTimeout, FFBStates
  <2>6. TokenHeld'
    BY <2>2, <2>3, <2>4, HeldStep
  <2> QED
    BY <2>5, <2>6
<1>6. CASE BestEffort(t)
  <2>1. pc' \in [Threads -> Labels]
    BY <1>6 DEF BestEffort, Free, Labels
  <2>2. Held(t)' => tok'[t] # 0
    BY <1>6 DEF BestEffort, Free, Held, Holding
  <2>3. \A c \in Callers \ {t} : pc'[c] = pc[c] /\ tok'[c] = tok[c] /\ op'[c] = op[c]
    BY <1>6 DEF BestEffort
  <2>4. (ffb'.cancel => ffb'.session # 0) /\ ffb' \in FFBStates
    BY <1>6, <1>c DEF BestEffort, FFBStates
  <2>5. force' \in {0, Orphan} \cup Gens /\ spring' \in {0, Orphan} \cup Gens
    BY <1>6 DEF BestEffort, Neutralised, NeutralFails
  <2>6. faults' \in 0..MaxFaults
    BY <1>6 DEF BestEffort, Neutralised, NeutralFails, Fault
  <2>7. out' \in [active : BOOLEAN, timer : 0..MaxGen]
    BY <1>6 DEF BestEffort
  <2>8. TypeOK'
    BY <1>6, <2>1, <2>4, <2>5, <2>6, <2>7 DEF BestEffort, FFBStates
  <2>9. TokenHeld'
    BY <2>2, <2>3, <2>4, HeldStep
  <2> QED
    BY <2>8, <2>9
<1>7. CASE Target(t)
  <2>1. pc' \in [Threads -> Labels]
    BY <1>7 DEF Target, Free, Labels
  <2>2. Held(t)' => tok'[t] # 0
    BY <1>7 DEF Target, Free, Held, Holding
  <2>3. \A c \in Callers \ {t} : pc'[c] = pc[c] /\ tok'[c] = tok[c] /\ op'[c] = op[c]
    BY <1>7 DEF Target
  <2>4. (ffb'.cancel => ffb'.session # 0) /\ ffb' \in FFBStates
    BY <1>7, <1>c DEF Target, FFBStates
  <2>5. TypeOK'
    BY <1>7, <2>1, <2>4 DEF Target, FFBStates
  <2>6. TokenHeld'
    BY <2>2, <2>3, <2>4, HeldStep
  <2> QED
    BY <2>5, <2>6
<1>8. CASE Conclude(t)
  <2>1. pc' \in [Threads -> Labels]
    BY <1>8, <1>b DEF Conclude, Free, Labels
  <2>2. Held(t)' => tok'[t] # 0
    BY <1>8, <1>b DEF Conclude, Free, Held, Holding
  <2>3. \A c \in Callers \ {t} : pc'[c] = pc[c] /\ tok'[c] = tok[c] /\ op'[c] = op[c]
    BY <1>8, <1>b DEF Conclude
  <2>4. (ffb'.cancel => ffb'.session # 0) /\ ffb' \in FFBStates
    BY <1>8, <1>c DEF Conclude, FFBStates
  <2>5. TypeOK'
    BY <1>8, <2>1, <2>4 DEF Conclude, FFBStates
  <2>6. TokenHeld'
    BY <2>2, <2>3, <2>4, HeldStep
  <2> QED
    BY <2>5, <2>6
<1> QED
  BY <1>1, <1>2, <1>3, <1>4, <1>5, <1>6, <1>7, <1>8

\* The steps that start output, or recover.
LEMMA StartingTyped ==
  ASSUME Typed, NEW t \in Callers,
         \/ Acquire(t) \/ AcquireRefused(t) \/ MarkActive(t) \/ FirstWrite(t)
         \/ DropLease(t) \/ Register(t) \/ PublishGame(t) \/ RecordOutput(t)
         \/ ArmWatchdog(t) \/ GameStopped(t) \/ Recover(t) \/ Forget(t)
  PROVE  Typed'
<1> USE MotorAssumption DEF Typed, TypeOK, Goto, Threads, device, ownership, session, locals
<1>a. /\ AfterStop(op[t]) \in Free
      /\ Stopped(op[t]) \in Free
      /\ Unstopped(op[t]) \in Free
      /\ Completed(t) \in Free
      /\ Settled(t) \in Free
  BY ComputedLabels
<1>b. Unwatched \in [Threads -> Labels] /\ \A c \in Callers : Unwatched[c] = pc[c]
  BY UnwatchedLabels
<1>c. ffb.cancel => ffb.session # 0
  BY DEF TokenHeld
<1>d. pc[t] \in Holding => tok[t] # 0 /\ tok[t] \in Gens
  <2>1. tok[t] \in 0..MaxGen
    OBVIOUS
  <2>2. pc[t] \in Holding => tok[t] # 0
    <3>1. Held(t) => tok[t] # 0
      BY DEF TokenHeld
    <3>2. pc[t] \in Holding => Held(t)
      BY DEF Held
    <3> QED
      BY <3>1, <3>2
  <2> QED
    BY <2>1, <2>2 DEF Gens
<1>e. pc[t] \in Holding => /\ Worker(tok[t]) \in Threads \ Callers
                         /\ Watchdog(tok[t]) \in Threads \ Callers
  BY <1>d DEF Workers, Watchdogs
<1>f. Motor(tok[t]) \in BOOLEAN
  BY DEF Motor
<1>g. Held(t) => tok[t] # 0
  BY DEF TokenHeld
<1>1. CASE Acquire(t)
  <2>1. pc' \in [Threads -> Labels]
    BY <1>1 DEF Acquire, Free, Labels
  <2>2. Held(t)' => tok'[t] # 0
    BY <1>1 DEF Acquire, Free, Held, Holding
  <2>3. \A c \in Callers \ {t} : pc'[c] = pc[c] /\ tok'[c] = tok[c] /\ op'[c] = op[c]
    BY <1>1 DEF Acquire
  <2>4. (ffb'.cancel => ffb'.session # 0) /\ ffb' \in FFBStates
    BY <1>1, <1>c DEF Acquire, FFBStates
  <2>5. generation + 1 \in Gens
    BY <1>1 DEF Acquire, Gens
  <2>6. generation' \in 0..MaxGen /\ lease' = generation' /\ tok' \in [Threads -> 0..MaxGen]
    BY <1>1, <2>5 DEF Acquire, Gens
  <2>7. kind' \in [Gens -> Kinds]
    BY <1>1, <2>5 DEF Acquire, KindOf, Kinds
  <2>8. TypeOK'
    BY <1>1, <2>1, <2>4, <2>5, <2>6, <2>7 DEF Acquire, FFBStates
  <2>9. TokenHeld'
    BY <2>2, <2>3, <2>4, HeldStep
  <2> QED
    BY <2>8, <2>9
<1>2. CASE AcquireRefused(t)
  <2>1. pc' \in [Threads -> Labels]
    BY <1>2 DEF AcquireRefused, Free, Labels
  <2>2. Held(t)' => tok'[t] # 0
    BY <1>2 DEF AcquireRefused, Free, Held, Holding
  <2>3. \A c \in Callers \ {t} : pc'[c] = pc[c] /\ tok'[c] = tok[c] /\ op'[c] = op[c]
    BY <1>2 DEF AcquireRefused
  <2>4. (ffb'.cancel => ffb'.session # 0) /\ ffb' \in FFBStates
    BY <1>2, <1>c DEF AcquireRefused, FFBStates
  <2>5. TypeOK'
    BY <1>2, <2>1, <2>4 DEF AcquireRefused, FFBStates
  <2>6. TokenHeld'
    BY <2>2, <2>3, <2>4, HeldStep
  <2> QED
    BY <2>5, <2>6
<1>3. CASE MarkActive(t)
  <2>1. pc' \in [Threads -> Labels]
    BY <1>3 DEF MarkActive, Free, Labels
  <2>2. Held(t)' => tok'[t] # 0
    BY <1>3, <1>d DEF MarkActive, Free, Held, Holding
  <2>3. \A c \in Callers \ {t} : pc'[c] = pc[c] /\ tok'[c] = tok[c] /\ op'[c] = op[c]
    BY <1>3 DEF MarkActive
  <2>4. (ffb'.cancel => ffb'.session # 0) /\ ffb' \in FFBStates
    BY <1>3, <1>c DEF MarkActive, FFBStates
  <2>5. faults' \in 0..MaxFaults
    BY <1>3 DEF MarkActive, Fault
  <2>6. TypeOK'
    BY <1>3, <2>1, <2>4, <2>5 DEF MarkActive, FFBStates
  <2>7. TokenHeld'
    BY <2>2, <2>3, <2>4, HeldStep
  <2> QED
    BY <2>6, <2>7
<1>4. CASE FirstWrite(t)
  <2>1. pc' \in [Threads -> Labels]
    BY <1>4 DEF FirstWrite, Free, Labels
  <2>2. Held(t)' => tok'[t] # 0
    BY <1>4, <1>d DEF FirstWrite, Free, Held, Holding
  <2>3. \A c \in Callers \ {t} : pc'[c] = pc[c] /\ tok'[c] = tok[c] /\ op'[c] = op[c]
    BY <1>4 DEF FirstWrite
  <2>4. (ffb'.cancel => ffb'.session # 0) /\ ffb' \in FFBStates
    BY <1>4, <1>c DEF FirstWrite, FFBStates
  <2>5. force' \in {0, Orphan} \cup Gens /\ spring' \in {0, Orphan} \cup Gens
    BY <1>4, <1>d DEF FirstWrite, Gens, Held, Holding
  <2>6. faults' \in 0..MaxFaults
    BY <1>4 DEF FirstWrite, Fault
  <2>7. op' \in [Callers -> Stages]
    BY <1>4 DEF FirstWrite, Stages
  <2>8. err' \in [Threads -> BOOLEAN]
    BY <1>4 DEF FirstWrite, Motor
  <2>9. TypeOK'
    BY <1>4, <2>1, <2>4, <2>5, <2>6, <2>7, <2>8 DEF FirstWrite, FFBStates
  <2>10. TokenHeld'
    BY <2>2, <2>3, <2>4, HeldStep
  <2> QED
    BY <2>9, <2>10
<1>5. CASE DropLease(t)
  <2>1. pc' \in [Threads -> Labels]
    BY <1>5 DEF DropLease, Free, Labels
  <2>2. Held(t)' => tok'[t] # 0
    BY <1>5 DEF DropLease, Free, Held, Holding
  <2>3. \A c \in Callers \ {t} : pc'[c] = pc[c] /\ tok'[c] = tok[c] /\ op'[c] = op[c]
    BY <1>5 DEF DropLease
  <2>4. (ffb'.cancel => ffb'.session # 0) /\ ffb' \in FFBStates
    BY <1>5, <1>c DEF DropLease, FFBStates
  <2>5. lease' \in 0..MaxGen
    BY <1>5 DEF DropLease, Released
  <2>6. TypeOK'
    BY <1>5, <2>1, <2>4, <2>5 DEF DropLease, FFBStates
  <2>7. TokenHeld'
    BY <2>2, <2>3, <2>4, HeldStep
  <2> QED
    BY <2>6, <2>7
<1>6. CASE Register(t)
  <2>1. pc' \in [Threads -> Labels]
    BY <1>6 DEF Register, Free, Labels
  <2>2. Held(t)' => tok'[t] # 0
    BY <1>6, <1>d, <1>e DEF Register, Free, Held, Holding
  <2>3. \A c \in Callers \ {t} : pc'[c] = pc[c] /\ tok'[c] = tok[c] /\ op'[c] = op[c]
    BY <1>6, <1>e DEF Register, Holding
  <2>4. (ffb'.cancel => ffb'.session # 0) /\ ffb' \in FFBStates
    BY <1>6, <1>c, <1>d, <1>f DEF Register, FFBStates, Holding
  <2>5. TypeOK'
    BY <1>6, <2>1, <2>4 DEF Register, FFBStates
  <2>6. TokenHeld'
    BY <2>2, <2>3, <2>4, HeldStep
  <2> QED
    BY <2>5, <2>6
<1>7. CASE PublishGame(t)
  <2>1. pc' \in [Threads -> Labels]
    BY <1>7, <1>e DEF PublishGame, Free, Labels, Holding
  <2>2. Held(t)' => tok'[t] # 0
    BY <1>7, <1>e DEF PublishGame, Free, Held, Holding
  <2>3. \A c \in Callers \ {t} : pc'[c] = pc[c] /\ tok'[c] = tok[c] /\ op'[c] = op[c]
    BY <1>7, <1>e DEF PublishGame, Holding
  <2>4. (ffb'.cancel => ffb'.session # 0) /\ ffb' \in FFBStates
    BY <1>7, <1>c DEF PublishGame, FFBStates
  <2>5. TypeOK'
    BY <1>7, <2>1, <2>4 DEF PublishGame, FFBStates
  <2>6. TokenHeld'
    BY <2>2, <2>3, <2>4, HeldStep
  <2> QED
    BY <2>5, <2>6
<1>8. CASE RecordOutput(t)
  <2>1. pc' \in [Threads -> Labels]
    BY <1>8 DEF RecordOutput, Free, Labels
  <2>2. Held(t)' => tok'[t] # 0
    BY <1>8, <1>g DEF RecordOutput, Free, Held, Holding
  <2>3. \A c \in Callers \ {t} : pc'[c] = pc[c] /\ tok'[c] = tok[c] /\ op'[c] = op[c]
    BY <1>8 DEF RecordOutput
  <2>4. (ffb'.cancel => ffb'.session # 0) /\ ffb' \in FFBStates
    BY <1>8, <1>c DEF RecordOutput, FFBStates
  <2>5. op' \in [Callers -> Stages]
    BY <1>8 DEF RecordOutput, Stages, Ops
  <2>6. TypeOK'
    BY <1>8, <2>1, <2>4, <2>5 DEF RecordOutput, FFBStates
  <2>7. TokenHeld'
    BY <2>2, <2>3, <2>4, HeldStep
  <2> QED
    BY <2>6, <2>7
<1>9. CASE ArmWatchdog(t)
  <2>1. pc' \in [Threads -> Labels]
    BY <1>9, <1>b, <1>e DEF ArmWatchdog, Free, Labels, Holding
  <2>2. Held(t)' => tok'[t] # 0
    BY <1>9, <1>b, <1>e DEF ArmWatchdog, Free, Held, Holding
  <2>3. \A c \in Callers \ {t} : pc'[c] = pc[c] /\ tok'[c] = tok[c] /\ op'[c] = op[c]
    BY <1>9, <1>b, <1>e DEF ArmWatchdog, Holding
  <2>4. (ffb'.cancel => ffb'.session # 0) /\ ffb' \in FFBStates
    BY <1>9, <1>c DEF ArmWatchdog, FFBStates
  <2>5. TypeOK'
    BY <1>9, <2>1, <2>4 DEF ArmWatchdog, FFBStates
  <2>6. TokenHeld'
    BY <2>2, <2>3, <2>4, HeldStep
  <2> QED
    BY <2>5, <2>6
<1>10. CASE GameStopped(t)
  <2>1. pc' \in [Threads -> Labels]
    BY <1>10 DEF GameStopped, Free, Labels
  <2>2. Held(t)' => tok'[t] # 0
    BY <1>10 DEF GameStopped, Free, Held, Holding
  <2>3. \A c \in Callers \ {t} : pc'[c] = pc[c] /\ tok'[c] = tok[c] /\ op'[c] = op[c]
    BY <1>10 DEF GameStopped
  <2>4. (ffb'.cancel => ffb'.session # 0) /\ ffb' \in FFBStates
    BY <1>10, <1>c DEF GameStopped, FFBStates
  <2>5. TypeOK'
    BY <1>10, <2>1, <2>4 DEF GameStopped, FFBStates
  <2>6. TokenHeld'
    BY <2>2, <2>3, <2>4, HeldStep
  <2> QED
    BY <2>5, <2>6
<1>11. CASE Recover(t)
  <2>1. pc' \in [Threads -> Labels]
    BY <1>11 DEF Recover, Free, Labels
  <2>2. Held(t)' => tok'[t] # 0
    BY <1>11 DEF Recover, Free, Held, Holding
  <2>3. \A c \in Callers \ {t} : pc'[c] = pc[c] /\ tok'[c] = tok[c] /\ op'[c] = op[c]
    BY <1>11 DEF Recover
  <2>4. (ffb'.cancel => ffb'.session # 0) /\ ffb' \in FFBStates
    BY <1>11, <1>c DEF Recover, FFBStates
  <2>5. force' \in {0, Orphan} \cup Gens /\ spring' \in {0, Orphan} \cup Gens
    BY <1>11 DEF Recover, Neutralised, NeutralFails
  <2>6. faults' \in 0..MaxFaults
    BY <1>11 DEF Recover, Neutralised, NeutralFails, Fault
  <2>7. TypeOK'
    BY <1>11, <2>1, <2>4, <2>5, <2>6 DEF Recover, FFBStates
  <2>8. TokenHeld'
    BY <2>2, <2>3, <2>4, HeldStep
  <2> QED
    BY <2>7, <2>8
<1>12. CASE Forget(t)
  <2>1. pc' \in [Threads -> Labels]
    BY <1>12 DEF Forget, Free, Labels
  <2>2. Held(t)' => tok'[t] # 0
    BY <1>12 DEF Forget, Free, Held, Holding
  <2>3. \A c \in Callers \ {t} : pc'[c] = pc[c] /\ tok'[c] = tok[c] /\ op'[c] = op[c]
    BY <1>12 DEF Forget
  <2>4. (ffb'.cancel => ffb'.session # 0) /\ ffb' \in FFBStates
    BY <1>12, <1>c DEF Forget, FFBStates
  <2>5. faults' \in 0..MaxFaults
    BY <1>12 DEF Forget, Fault
  <2>6. TypeOK'
    BY <1>12, <2>1, <2>4, <2>5 DEF Forget, FFBStates
  <2>7. TokenHeld'
    BY <2>2, <2>3, <2>4, HeldStep
  <2> QED
    BY <2>6, <2>7
<1> QED
  BY <1>1, <1>2, <1>3, <1>4, <1>5, <1>6, <1>7, <1>8, <1>9, <1>10, <1>11, <1>12

\* The steps of a safe stop, by whichever thread executes it.
LEMMA SafeStopTyped ==
  ASSUME Typed, NEW t \in Threads,
         \/ WriteNeutral(t) \/ ClearMarker(t) \/ ReleaseLease(t) \/ RecordStop(t)
  PROVE  Typed'
<1> USE MotorAssumption DEF Typed, TypeOK, Goto, Threads, device, ownership, session, locals
<1>a. /\ AfterStop(op[t]) \in Free
      /\ Completed(t) \in Free
      /\ Settled(t) \in Free
  BY ComputedLabels
<1>b. Unwatched \in [Threads -> Labels] /\ \A c \in Callers : Unwatched[c] = pc[c]
  BY UnwatchedLabels
<1>c. ffb.cancel => ffb.session # 0
  BY DEF TokenHeld
<1>1. CASE WriteNeutral(t)
  <2>1. pc' \in [Threads -> Labels]
    BY <1>1, <1>a DEF WriteNeutral, Free, Labels
  <2>2. t \in Callers /\ Held(t)' => tok'[t] # 0
    BY <1>1, <1>a DEF WriteNeutral, Free, Held, Holding
  <2>3. \A c \in Callers \ {t} : pc'[c] = pc[c] /\ tok'[c] = tok[c] /\ op'[c] = op[c]
    BY <1>1 DEF WriteNeutral
  <2>4. (ffb'.cancel => ffb'.session # 0) /\ ffb' \in FFBStates
    BY <1>1, <1>c DEF WriteNeutral, FFBStates
  <2>5. force' \in {0, Orphan} \cup Gens /\ spring' \in {0, Orphan} \cup Gens
    BY <1>1 DEF WriteNeutral, Neutralised, NeutralFails
  <2>6. faults' \in 0..MaxFaults
    BY <1>1 DEF WriteNeutral, Neutralised, NeutralFails, Fault
  <2>7. TypeOK'
    BY <1>1, <2>1, <2>4, <2>5, <2>6 DEF WriteNeutral, FFBStates
  <2>8. TokenHeld'
    BY <2>2, <2>3, <2>4, HeldStep
  <2> QED
    BY <2>7, <2>8
<1>2. CASE ClearMarker(t)
  <2>1. pc' \in [Threads -> Labels]
    BY <1>2, <1>a DEF ClearMarker, Free, Labels
  <2>2. t \in Callers /\ Held(t)' => tok'[t] # 0
    BY <1>2, <1>a DEF ClearMarker, Free, Held, Holding
  <2>3. \A c \in Callers \ {t} : pc'[c] = pc[c] /\ tok'[c] = tok[c] /\ op'[c] = op[c]
    BY <1>2 DEF ClearMarker
  <2>4. (ffb'.cancel => ffb'.session # 0) /\ ffb' \in FFBStates
    BY <1>2, <1>c DEF ClearMarker, FFBStates
  <2>5. faults' \in 0..MaxFaults
    BY <1>2 DEF ClearMarker, Fault
  <2>6. TypeOK'
    BY <1>2, <2>1, <2>4, <2>5 DEF ClearMarker, FFBStates
  <2>7. TokenHeld'
    BY <2>2, <2>3, <2>4, HeldStep
  <2> QED
    BY <2>6, <2>7
<1>3. CASE ReleaseLease(t)
  <2>1. pc' \in [Threads -> Labels]
    BY <1>3, <1>a DEF ReleaseLease, Free, Labels
  <2>2. t \in Callers /\ Held(t)' => tok'[t] # 0
    BY <1>3, <1>a DEF ReleaseLease, Free, Held, Holding
  <2>3. \A c \in Callers \ {t} : pc'[c] = pc[c] /\ tok'[c] = tok[c] /\ op'[c] = op[c]
    BY <1>3 DEF ReleaseLease
  <2>4. (ffb'.cancel => ffb'.session # 0) /\ ffb' \in FFBStates
    BY <1>3, <1>c DEF ReleaseLease, FFBStates
  <2>5. lease' \in 0..MaxGen
    BY <1>3 DEF ReleaseLease, Released
  <2>6. err' \in [Threads -> BOOLEAN]
    BY <1>3 DEF ReleaseLease
  <2>7. TypeOK'
    BY <1>3, <2>1, <2>4, <2>5, <2>6 DEF ReleaseLease, FFBStates
  <2>8. TokenHeld'
    BY <2>2, <2>3, <2>4, HeldStep
  <2> QED
    BY <2>7, <2>8
<1>4. CASE RecordStop(t)
  <2>1. pc' \in [Threads -> Labels]
    BY <1>4, <1>a, <1>b DEF RecordStop, Free, Labels, Continue
  <2>2. t \in Callers /\ Held(t)' => tok'[t] # 0
    BY <1>4, <1>a, <1>b DEF RecordStop, Free, Held, Holding, Continue
  <2>3. \A c \in Callers \ {t} : pc'[c] = pc[c] /\ tok'[c] = tok[c] /\ op'[c] = op[c]
    BY <1>4, <1>b DEF RecordStop, Continue
  <2>4. (ffb'.cancel => ffb'.session # 0) /\ ffb' \in FFBStates
    BY <1>4, <1>c DEF RecordStop, FFBStates
  <2>5. op' \in [Callers -> Stages]
    BY <1>4 DEF RecordStop, Continue, Stages, Ops
  <2>6. out' \in [active : BOOLEAN, timer : 0..MaxGen]
    BY <1>4, ZeroInRange DEF RecordStop, Motor
  <2>7. TypeOK'
    BY <1>4, <2>1, <2>4, <2>5, <2>6 DEF RecordStop, FFBStates
  <2>8. TokenHeld'
    BY <2>2, <2>3, <2>4, HeldStep
  <2> QED
    BY <2>7, <2>8
<1> QED
  BY <1>1, <1>2, <1>3, <1>4

\* The steps of a worker.
LEMMA WorkerTyped ==
  ASSUME Typed, NEW g \in Gens,
         \/ Tick(g) \/ LeaveLoop(g) \/ Halt(g) \/ Hang(g)
         \/ ReportGame(g) \/ Report(g) \/ Exit(g)
  PROVE  Typed'
<1> DEFINE t == Worker(g)
<1> USE MotorAssumption DEF Typed, TypeOK, Goto, Threads, device, ownership, session, locals
<1>a. t \in Threads /\ t \notin Callers
  BY DEF Workers
<1>b. Completed(t) \in Free /\ Settled(t) \in Free
  BY ComputedLabels
<1>c. ffb.cancel => ffb.session # 0
  BY DEF TokenHeld
<1>d. Motor(g) \in BOOLEAN
  BY DEF Motor
<1> HIDE DEF t
<1>1. CASE Tick(g)
  <2>1. pc' \in [Threads -> Labels]
    BY <1>1, <1>a DEF Tick, t, Free, Labels
  <2>2. t \in Callers /\ Held(t)' => tok'[t] # 0
    BY <1>1, <1>a
  <2>3. \A c \in Callers \ {t} : pc'[c] = pc[c] /\ tok'[c] = tok[c] /\ op'[c] = op[c]
    BY <1>1, <1>a DEF Tick, t
  <2>4. (ffb'.cancel => ffb'.session # 0) /\ ffb' \in FFBStates
    BY <1>1, <1>a, <1>c, <1>d DEF Tick, t, FFBStates
  <2>5. force' \in {0, Orphan} \cup Gens
    BY <1>1 DEF Tick
  <2>6. TypeOK'
    BY <1>1, <2>1, <2>4, <2>5 DEF Tick, FFBStates, t
  <2>7. TokenHeld'
    BY <2>2, <2>3, <2>4, HeldStep
  <2> QED
    BY <2>6, <2>7
<1>2. CASE LeaveLoop(g)
  <2>1. pc' \in [Threads -> Labels]
    BY <1>2, <1>a DEF LeaveLoop, t, Free, Labels
  <2>2. t \in Callers /\ Held(t)' => tok'[t] # 0
    BY <1>2, <1>a
  <2>3. \A c \in Callers \ {t} : pc'[c] = pc[c] /\ tok'[c] = tok[c] /\ op'[c] = op[c]
    BY <1>2, <1>a DEF LeaveLoop, t
  <2>4. (ffb'.cancel => ffb'.session # 0) /\ ffb' \in FFBStates
    BY <1>2, <1>a, <1>c, <1>d DEF LeaveLoop, t, FFBStates
  <2>5. faults' \in 0..MaxFaults
    BY <1>2 DEF LeaveLoop, Fault
  <2>6. TypeOK'
    BY <1>2, <2>1, <2>4, <2>5 DEF LeaveLoop, FFBStates, t
  <2>7. TokenHeld'
    BY <2>2, <2>3, <2>4, HeldStep
  <2> QED
    BY <2>6, <2>7
<1>3. CASE Halt(g)
  <2>1. pc' \in [Threads -> Labels]
    BY <1>3, <1>a, <1>b DEF Halt, t, Free, Labels
  <2>2. t \in Callers /\ Held(t)' => tok'[t] # 0
    BY <1>3, <1>a
  <2>3. \A c \in Callers \ {t} : pc'[c] = pc[c] /\ tok'[c] = tok[c] /\ op'[c] = op[c]
    BY <1>3, <1>a DEF Halt, t
  <2>4. (ffb'.cancel => ffb'.session # 0) /\ ffb' \in FFBStates
    BY <1>3, <1>a, <1>c, <1>d DEF Halt, t, FFBStates
  <2>5. force' \in {0, Orphan} \cup Gens
    BY <1>3 DEF Halt
  <2>6. faults' \in 0..MaxFaults
    BY <1>3 DEF Halt, Fault
  <2>7. err' \in [Threads -> BOOLEAN]
    BY <1>3 DEF Halt
  <2>8. TypeOK'
    BY <1>3, <2>1, <2>4, <2>5, <2>6, <2>7 DEF Halt, FFBStates, t
  <2>9. TokenHeld'
    BY <2>2, <2>3, <2>4, HeldStep
  <2> QED
    BY <2>8, <2>9
<1>4. CASE Hang(g)
  <2>1. pc' \in [Threads -> Labels]
    BY <1>4, <1>a DEF Hang, t, Free, Labels
  <2>2. t \in Callers /\ Held(t)' => tok'[t] # 0
    BY <1>4, <1>a
  <2>3. \A c \in Callers \ {t} : pc'[c] = pc[c] /\ tok'[c] = tok[c] /\ op'[c] = op[c]
    BY <1>4, <1>a DEF Hang, t
  <2>4. (ffb'.cancel => ffb'.session # 0) /\ ffb' \in FFBStates
    BY <1>4, <1>a, <1>c, <1>d DEF Hang, t, FFBStates
  <2>5. TypeOK'
    BY <1>4, <2>1, <2>4 DEF Hang, FFBStates, t
  <2>6. TokenHeld'
    BY <2>2, <2>3, <2>4, HeldStep
  <2> QED
    BY <2>5, <2>6
<1>5. CASE ReportGame(g)
  <2>1. pc' \in [Threads -> Labels]
    BY <1>5, <1>a DEF ReportGame, t, Free, Labels
  <2>2. t \in Callers /\ Held(t)' => tok'[t] # 0
    BY <1>5, <1>a
  <2>3. \A c \in Callers \ {t} : pc'[c] = pc[c] /\ tok'[c] = tok[c] /\ op'[c] = op[c]
    BY <1>5, <1>a DEF ReportGame, t
  <2>4. (ffb'.cancel => ffb'.session # 0) /\ ffb' \in FFBStates
    BY <1>5, <1>a, <1>c, <1>d DEF ReportGame, t, FFBStates
  <2>5. game' \in [session : 0..MaxGen, active : BOOLEAN]
    BY <1>5, <1>a DEF ReportGame, t
  <2>6. TypeOK'
    BY <1>5, <2>1, <2>4, <2>5 DEF ReportGame, FFBStates, t
  <2>7. TokenHeld'
    BY <2>2, <2>3, <2>4, HeldStep
  <2> QED
    BY <2>6, <2>7
<1>6. CASE Report(g)
  <2>1. pc' \in [Threads -> Labels]
    BY <1>6, <1>a DEF Report, t, Free, Labels
  <2>2. t \in Callers /\ Held(t)' => tok'[t] # 0
    BY <1>6, <1>a
  <2>3. \A c \in Callers \ {t} : pc'[c] = pc[c] /\ tok'[c] = tok[c] /\ op'[c] = op[c]
    BY <1>6, <1>a DEF Report, t
  <2>4. (ffb'.cancel => ffb'.session # 0) /\ ffb' \in FFBStates
    BY <1>6, <1>a, <1>c, <1>d DEF Report, t, FFBStates
  <2>5. TypeOK'
    BY <1>6, <2>1, <2>4 DEF Report, FFBStates, t
  <2>6. TokenHeld'
    BY <2>2, <2>3, <2>4, HeldStep
  <2> QED
    BY <2>5, <2>6
<1>7. CASE Exit(g)
  <2>1. pc' \in [Threads -> Labels]
    BY <1>7, <1>a DEF Exit, t, Free, Labels
  <2>2. t \in Callers /\ Held(t)' => tok'[t] # 0
    BY <1>7, <1>a
  <2>3. \A c \in Callers \ {t} : pc'[c] = pc[c] /\ tok'[c] = tok[c] /\ op'[c] = op[c]
    BY <1>7, <1>a DEF Exit, t
  <2>4. (ffb'.cancel => ffb'.session # 0) /\ ffb' \in FFBStates
    BY <1>7, <1>a, <1>c, <1>d DEF Exit, t, FFBStates
  <2>5. TypeOK'
    BY <1>7, <2>1, <2>4 DEF Exit, FFBStates, t
  <2>6. TokenHeld'
    BY <2>2, <2>3, <2>4, HeldStep
  <2> QED
    BY <2>5, <2>6
<1> QED
  BY <1>1, <1>2, <1>3, <1>4, <1>5, <1>6, <1>7

\* A call that begins.
LEMMA CallTyped ==
  ASSUME Typed, NEW t \in Callers, NEW o \in Ops, Call(t, o)
  PROVE  Typed'
<1> USE MotorAssumption DEF Typed, TypeOK, Goto, Threads, device, ownership, session
<1>1. FirstStep(o) \in Free
  BY DEF FirstStep, Free, Labels, Holding, Ops
<1>2. pc' \in [Threads -> Labels] /\ ~Held(t)'
  BY <1>1 DEF Call, Free, Held
<1>3. \A c \in Callers \ {t} : pc'[c] = pc[c] /\ tok'[c] = tok[c] /\ op'[c] = op[c]
  BY DEF Call
<1>4. ffb'.cancel => ffb'.session # 0
  BY DEF Call, TokenHeld
<1>5. op' \in [Callers -> Stages]
  BY DEF Call, Stages, Ops
<1>6. tok' \in [Threads -> 0..MaxGen]
  BY ZeroInRange DEF Call
<1>7. TypeOK'
  BY <1>2, <1>5, <1>6 DEF Call
<1>8. TokenHeld'
  BY <1>2, <1>3, <1>4, HeldStep
<1> QED
  BY <1>7, <1>8

\* The callback of an autocenter timer starts.
LEMMA WatchdogTyped ==
  ASSUME Typed, NEW g \in Gens, WatchdogFires(g)
  PROVE  Typed'
<1> USE MotorAssumption DEF Typed, TypeOK, Goto, Threads, device, ownership, session, locals
<1>1. Watchdog(g) \in Threads \ Callers
  BY DEF Watchdogs
<1>2. TypeOK'
  BY <1>1 DEF WatchdogFires, Labels
<1>3. TokenHeld'
  <2>1. \A c \in Callers : pc'[c] = pc[c] /\ tok'[c] = tok[c] /\ op'[c] = op[c]
    BY <1>1 DEF WatchdogFires
  <2> QED
    BY <2>1, HeldStep, <1>1 DEF WatchdogFires, TokenHeld
<1> QED
  BY <1>2, <1>3

\* Typed is inductive.
LEMMA Invariance == Spec => []Typed
<1>1. Init => Typed
  BY InitTyped
<1>2. Typed /\ [Next]_vars => Typed'
  <2> SUFFICES ASSUME Typed, [Next]_vars PROVE Typed'
    OBVIOUS
  <2>1. CASE UNCHANGED vars
    BY <2>1 DEF vars, device, ownership, session, locals, Typed, TypeOK, TokenHeld, Held
  <2>2. ASSUME NEW t \in Callers, CallerStep(t) PROVE Typed'
    BY <2>2, StoppingTyped, StartingTyped DEF CallerStep
  <2>3. ASSUME NEW t \in Callers, NEW o \in Ops, Call(t, o) PROVE Typed'
    BY <2>3, CallTyped
  <2>4. ASSUME NEW t \in Threads, SafeStopStep(t) PROVE Typed'
    BY <2>4, SafeStopTyped DEF SafeStopStep
  <2>5. ASSUME NEW g \in Gens, WatchdogFires(g) PROVE Typed'
    BY <2>5, WatchdogTyped
  <2>6. ASSUME NEW g \in Gens, WorkerStep(g) PROVE Typed'
    BY <2>6, WorkerTyped DEF WorkerStep
  <2>7. CASE Crash
    BY <2>7, CrashTyped
  <2> QED
    BY <2>1, <2>2, <2>3, <2>4, <2>5, <2>6, <2>7 DEF Next
<1> QED
  BY <1>1, <1>2, PTL DEF Spec

-----------------------------------------------------------------------------

\* Every variable of the coordinator keeps its type: no step leaves its program
\* counter outside the labels, no start runs with the generation-0 token, and a
\* cancel channel that is closed always belongs to an issued session.
THEOREM TypeCorrect == Spec => []TypeOK
<1>1. Typed => TypeOK
  BY DEF Typed
<1> QED
  BY <1>1, Invariance, PTL

-----------------------------------------------------------------------------
(* Only the holder of the lease writes.                                     *)

\* The refresh goroutine and the like call nothing but StopFusionC6GameOutput.
OneStarter == \A c \in Callers \ {UI} : Operations[c] \subseteq {"gamestop"}

\* The worker of g may write force, or has still to give back its lease.
LiveLabels == {"run", "halt", "hung", "neutral", "unmark", "unlease"}
Live(g) == pc[Worker(g)] \in LiveLabels
NoneLive == \A g \in Gens : ~Live(g)

\* The steps of a start at which the caller itself is the writer.
Starting == {"mark", "write", "register", "publish"}

\* The steps of the UI thread between the confirmed end of one worker and the
\* start of the next.
Quiet == {"target", "neutral", "unmark", "unlease", "record", "drop", "arm"} \cup Starting
UIQuiet == \/ pc[UI] \in Quiet
           \/ pc[UI] = "announce" /\ op[UI] = "spring"

OtherLabels == {"idle", "stop", "wait", "gamestopped", "ok", "error"}

\* The other callers are at a step of StopFusionC6GameOutput.
Others == \A c \in Callers \ {UI} : pc[c] \in OtherLabels /\ op[c] \in {"none", "gamestop"}

\* A worker and a watchdog hold the token they were started with.
OwnTokens == \A g \in Gens : tok[Worker(g)] = g /\ tok[Watchdog(g)] = g

\* No copy of a generation is newer than the counter.
Issued == /\ lease <= generation /\ game.session <= generation
          /\ \A c \in Callers : tok[c] <= generation

\* A live worker owns the lease, and nativeFFB knows how to wait for it.
LiveOwned == \A g \in Gens : Live(g) => lease = g /\ ffb.session = g /\ ffb.done

QuietNow == UIQuiet => NoneLive

\* Only the UI thread replaces the session it waits for.
Awaiting == pc[UI] = "wait" => awaited[UI] = ffb.session

StartOwned == /\ pc[UI] \in Starting => lease = tok[UI]
              /\ pc[UI] = "publish" => ffb.session = tok[UI] /\ ffb.done

\* Worker and watchdog of a generation wait for its start.
Fresh == \A g \in Gens :
           g > generation \/ (pc[UI] \in Starting /\ tok[UI] = g) =>
             pc[Worker(g)] = "idle" /\ pc[Watchdog(g)] = "idle"

\* A session that has a timer has no worker.
Watched == \A g \in Gens : pc[Watchdog(g)] # "idle" => ~Live(g)

Safe == /\ Others /\ OwnTokens /\ Issued /\ LiveOwned /\ QuietNow
        /\ Awaiting /\ StartOwned /\ Fresh /\ Watched

-----------------------------------------------------------------------------

\* Goroutines are different goroutines.
LEMMA Distinct ==
  /\ UI \in Callers
  /\ \A g \in Gens : /\ Worker(g) \in Threads /\ Worker(g) \notin Callers
                     /\ Watchdog(g) \in Threads /\ Watchdog(g) \notin Callers
  /\ \A g, h \in Gens : /\ Worker(g) # Watchdog(h)
                        /\ Worker(g) = Worker(h) => g = h
                        /\ Watchdog(g) = Watchdog(h) => g = h
<1>1. /\ UI \in Callers
      /\ \A g \in Gens : /\ Worker(g) \in Threads /\ Worker(g) \notin Callers
                         /\ Watchdog(g) \in Threads /\ Watchdog(g) \notin Callers
  BY MotorAssumption DEF Threads, Workers, Watchdogs
<1>2. \A g, h \in Gens : /\ Worker(g) # Watchdog(h)
                         /\ Worker(g) = Worker(h) => g = h
                         /\ Watchdog(g) = Watchdog(h) => g = h
  BY DEF Worker, Watchdog
<1> QED
  BY <1>1, <1>2

\* Unwatched touches nothing but a watchdog, which it leaves idle.
LEMMA UnwatchedFrame ==
  ASSUME TypeOK
  PROVE  \A u \in Threads : \/ Unwatched[u] = pc[u]
                            \/ u \in Watchdogs /\ Unwatched[u] = "idle"
<1>1. CASE out.timer # 0
  <2>1. out.timer \in Gens
    BY <1>1, MotorAssumption DEF TypeOK, Gens
  <2>2. Watchdog(out.timer) \in Watchdogs
    BY <2>1 DEF Watchdogs
  <2> QED
    BY <1>1, <2>2, MotorAssumption DEF TypeOK, Unwatched
<1>2. CASE out.timer = 0
  BY <1>2, MotorAssumption DEF TypeOK, Unwatched
<1> QED
  BY <1>1, <1>2

\* A step of the UI thread that neither takes nor gives back the lease, starts no
\* worker and replaces no session.
LEMMA UIFrame ==
  ASSUME TypeOK, Safe,
         \A u \in Threads \ {UI} : pc'[u] = pc[u] \/ (u \in Watchdogs /\ pc'[u] = "idle"),
         \A u \in Threads \ {UI} : tok'[u] = tok[u],
         \A c \in Callers \ {UI} : op'[c] = op[c],
         tok'[UI] <= generation,
         lease' = lease, generation' = generation, game'.session = game.session,
         ffb'.session = ffb.session, ffb'.done = ffb.done,
         UIQuiet' => NoneLive,
         pc'[UI] \in Starting => pc[UI] \in Starting /\ tok'[UI] = tok[UI],
         pc'[UI] # "publish",
         pc'[UI] = "wait" => awaited'[UI] = ffb.session
  PROVE  Safe'
<1> USE Distinct DEF Safe
<1>0. \A g \in Gens : /\ pc'[Worker(g)] = pc[Worker(g)]
                      /\ pc'[Watchdog(g)] = pc[Watchdog(g)] \/ pc'[Watchdog(g)] = "idle"
  <2>1. \A g \in Gens : Worker(g) \notin Watchdogs
    BY DEF Watchdogs
  <2> QED
    BY <2>1
<1>1. \A g \in Gens : Live(g)' <=> Live(g)
  BY <1>0 DEF Live
<1>2. Others'
  <2>1. Callers \cap Watchdogs = {}
    BY MotorAssumption
  <2>2. \A c \in Callers \ {UI} : pc'[c] = pc[c] /\ op'[c] = op[c]
    BY <2>1 DEF Threads
  <2> QED
    BY <2>2 DEF Others
<1>3. OwnTokens'
  BY DEF OwnTokens
<1>4. Issued'
  <2>1. \A c \in Callers \ {UI} : tok'[c] = tok[c]
    BY DEF Threads
  <2> QED
    BY <2>1 DEF Issued
<1>5. LiveOwned'
  BY <1>1 DEF LiveOwned
<1>6. QuietNow'
  BY <1>1 DEF QuietNow, NoneLive
<1>7. Awaiting' /\ StartOwned'
  BY DEF Awaiting, StartOwned
<1>8. Fresh'
  BY <1>0 DEF Fresh
<1>9. Watched'
  BY <1>0, <1>1 DEF Watched
<1> QED
  BY <1>2, <1>3, <1>4, <1>5, <1>6, <1>7, <1>8, <1>9

\* A step of another caller.
LEMMA OtherFrame ==
  ASSUME TypeOK, Safe, NEW c \in Callers \ {UI},
         \A u \in Threads \ {c} : pc'[u] = pc[u] /\ tok'[u] = tok[u],
         \A d \in Callers \ {c} : op'[d] = op[d] /\ awaited'[d] = awaited[d],
         pc'[c] \in OtherLabels, op'[c] \in {"none", "gamestop"}, tok'[c] <= generation,
         lease' = lease, generation' = generation, game'.session = game.session,
         ffb'.session = ffb.session, ffb'.done = ffb.done
  PROVE  Safe'
<1> USE Distinct DEF Safe
<1>0. \A g \in Gens : /\ pc'[Worker(g)] = pc[Worker(g)] /\ tok'[Worker(g)] = tok[Worker(g)]
                      /\ pc'[Watchdog(g)] = pc[Watchdog(g)] /\ tok'[Watchdog(g)] = tok[Watchdog(g)]
  OBVIOUS
<1>1. \A g \in Gens : Live(g)' <=> Live(g)
  BY <1>0 DEF Live
<1>2. \A d \in Callers \ {c} : pc'[d] = pc[d] /\ op'[d] = op[d] /\ tok'[d] = tok[d]
  BY DEF Threads
<1>3. Others'
  BY <1>2 DEF Others
<1>4. OwnTokens'
  BY <1>0 DEF OwnTokens
<1>5. Issued'
  BY <1>2 DEF Issued
<1>6. LiveOwned' /\ QuietNow'
  BY <1>1, <1>2 DEF LiveOwned, QuietNow, NoneLive, UIQuiet
<1>7. Awaiting' /\ StartOwned'
  BY <1>2 DEF Awaiting, StartOwned
<1>8. Fresh'
  BY <1>0, <1>2 DEF Fresh
<1>9. Watched'
  BY <1>0, <1>1 DEF Watched
<1> QED
  BY <1>3, <1>4, <1>5, <1>6, <1>7, <1>8, <1>9

\* A step of a worker or a watchdog that has been started. One that is not
\* live any more may give back its own lease and close its own done channel.
LEMMA SessionFrame ==
  ASSUME TypeOK, Safe, NEW g \in Gens, NEW w \in {Worker(g), Watchdog(g)},
         pc[w] # "idle", Live(g)' => Live(g),
         \A u \in Threads \ {w} : pc'[u] = pc[u] \/ (u \in Watchdogs /\ pc'[u] = "idle"),
         tok' = tok, op' = op, awaited' = awaited, generation' = generation,
         game'.session = game.session, ffb'.session = ffb.session,
         lease' = lease \/ (lease' = 0 /\ lease = g /\ ~Live(g)'),
         ffb'.done = ffb.done \/ (ffb.session = g /\ ~Live(g))
  PROVE  Safe'
<1> USE Distinct DEF Safe
<1>0. \A c \in Callers : pc'[c] = pc[c]
  <2>1. Callers \cap Watchdogs = {} /\ w \notin Callers
    BY MotorAssumption
  <2> QED
    BY <2>1 DEF Threads
<1>1. \A h \in Gens : Live(h)' => Live(h)
  <2> SUFFICES ASSUME NEW h \in Gens, h # g PROVE Live(h)' => Live(h)
    OBVIOUS
  <2>1. Worker(h) # w /\ Worker(h) \notin Watchdogs
    BY DEF Watchdogs
  <2> QED
    BY <2>1 DEF Live
<1>2. \A h \in Gens \ {g} : /\ pc'[Worker(h)] = pc[Worker(h)]
                            /\ pc'[Watchdog(h)] = pc[Watchdog(h)] \/ pc'[Watchdog(h)] = "idle"
  <2> SUFFICES ASSUME NEW h \in Gens \ {g}
               PROVE /\ pc'[Worker(h)] = pc[Worker(h)]
                     /\ pc'[Watchdog(h)] = pc[Watchdog(h)] \/ pc'[Watchdog(h)] = "idle"
    OBVIOUS
  <2>1. Worker(h) # w /\ Watchdog(h) # w /\ Worker(h) \notin Watchdogs
    BY DEF Watchdogs
  <2> QED
    BY <2>1
<1>3. Others' /\ OwnTokens'
  BY <1>0 DEF Others, OwnTokens
<1>4. Issued'
  BY MotorAssumption DEF Issued, TypeOK
<1>5. LiveOwned'
  BY <1>1 DEF LiveOwned
<1>6. QuietNow'
  BY <1>0, <1>1 DEF QuietNow, NoneLive, UIQuiet
<1>7. Awaiting'
  BY <1>0 DEF Awaiting
<1>8. ~(pc[UI] \in Starting /\ tok[UI] = g) /\ ~(g > generation)
  BY DEF Fresh
<1>9. StartOwned'
  BY <1>0, <1>8 DEF StartOwned, Starting
<1>10. Fresh'
  BY <1>0, <1>2, <1>8 DEF Fresh
<1>11. Watched'
  <2> SUFFICES ASSUME NEW h \in Gens, pc'[Watchdog(h)] # "idle" PROVE ~Live(h)'
    BY DEF Watched
  <2>1. CASE h # g
    BY <2>1, <1>1, <1>2 DEF Watched
  <2>2. CASE h = g
    <3>1. CASE pc[Watchdog(g)] # "idle"
      BY <3>1, <2>2, <1>1 DEF Watched
    <3>2. CASE pc[Watchdog(g)] = "idle"
      <4>1. w = Worker(g)
        BY <3>2
      <4> QED
        BY <4>1, <3>2, <2>2
    <3> QED
      BY <3>1, <3>2
  <2> QED
    BY <2>1, <2>2
<1> QED
  BY <1>3, <1>4, <1>5, <1>6, <1>7, <1>9, <1>10, <1>11

-----------------------------------------------------------------------------

\* What StopFusionC6GameOutput does next.
LEMMA GameStopLabels ==
  ASSUME NEW o \in {"none", "gamestop"}
  PROVE  Stopped(o) = "gamestopped" /\ Unstopped(o) = "gamestopped"
BY DEF Stopped, Unstopped, Stops

\* Another caller executes the steps of StopFusionC6GameOutput only.
LEMMA OtherStep ==
  ASSUME TypeOK, Safe, OneStarter, NEW c \in Callers \ {UI},
         CallerStep(c) \/ SafeStopStep(c) \/ \E o \in Ops : Call(c, o)
  PROVE  Safe'
<1> USE DEF Goto, device, ownership, session, locals
<1>1. pc[c] \in OtherLabels /\ op[c] \in {"none", "gamestop"}
  BY DEF Safe, Others
<1>2. c \in Threads /\ tok[c] <= generation /\ game.session <= generation
  BY DEF Safe, Issued, Threads
<1>3. Stopped(op[c]) = "gamestopped" /\ Unstopped(op[c]) = "gamestopped"
  BY <1>1, GameStopLabels
<1>4. 0 <= generation
  BY MotorAssumption DEF TypeOK
<1>5. CASE Return(c)
  <2>1. /\ \A u \in Threads \ {c} : pc'[u] = pc[u] /\ tok'[u] = tok[u]
        /\ \A d \in Callers \ {c} : op'[d] = op[d] /\ awaited'[d] = awaited[d]
        /\ pc'[c] \in OtherLabels /\ op'[c] \in {"none", "gamestop"} /\ tok'[c] <= generation
    BY <1>5, <1>2, <1>4 DEF Return, TypeOK, OtherLabels
  <2> QED
    BY <2>1, <1>5, OtherFrame DEF Return
<1>6. CASE CancelSession(c)
  <2>1. /\ \A u \in Threads \ {c} : pc'[u] = pc[u] /\ tok'[u] = tok[u]
        /\ \A d \in Callers \ {c} : op'[d] = op[d] /\ awaited'[d] = awaited[d]
        /\ pc'[c] \in OtherLabels /\ op'[c] \in {"none", "gamestop"} /\ tok'[c] <= generation
    BY <1>6, <1>1, <1>2, <1>3 DEF CancelSession, TypeOK, OtherLabels
  <2>2. ffb'.session = ffb.session /\ ffb'.done = ffb.done
    BY <1>6 DEF CancelSession, TypeOK
  <2> QED
    BY <2>1, <2>2, <1>6, OtherFrame DEF CancelSession
<1>7. CASE WorkerEnded(c)
  <2>1. /\ \A u \in Threads \ {c} : pc'[u] = pc[u] /\ tok'[u] = tok[u]
        /\ \A d \in Callers \ {c} : op'[d] = op[d] /\ awaited'[d] = awaited[d]
        /\ pc'[c] \in OtherLabels /\ op'[c] \in {"none", "gamestop"} /\ tok'[c] <= generation
    BY <1>7, <1>1, <1>2, <1>3 DEF WorkerEnded, TypeOK, OtherLabels
  <2>2. ffb'.session = ffb.session /\ ffb'.done = ffb.done
    BY <1>7 DEF WorkerEnded, TypeOK
  <2> QED
    BY <2>1, <2>2, <1>7, OtherFrame DEF WorkerEnded
<1>8. CASE WorkerTimeout(c)
  <2>1. /\ \A u \in Threads \ {c} : pc'[u] = pc[u] /\ tok'[u] = tok[u]
        /\ \A d \in Callers \ {c} : op'[d] = op[d] /\ awaited'[d] = awaited[d]
        /\ pc'[c] \in OtherLabels /\ op'[c] \in {"none", "gamestop"} /\ tok'[c] <= generation
    BY <1>8, <1>1, <1>2, <1>3 DEF WorkerTimeout, TypeOK, OtherLabels
  <2>2. ffb'.session = ffb.session /\ ffb'.done = ffb.done
    BY <1>8 DEF WorkerTimeout, TypeOK
  <2> QED
    BY <2>1, <2>2, <1>8, OtherFrame DEF WorkerTimeout
<1>9. CASE GameStopped(c)
  <2>1. /\ \A u \in Threads \ {c} : pc'[u] = pc[u] /\ tok'[u] = tok[u]
        /\ \A d \in Callers \ {c} : op'[d] = op[d] /\ awaited'[d] = awaited[d]
        /\ pc'[c] \in OtherLabels /\ op'[c] \in {"none", "gamestop"} /\ tok'[c] <= generation
    BY <1>9, <1>1, <1>2 DEF GameStopped, TypeOK, OtherLabels
  <2>2. game'.session = game.session
    BY <1>9 DEF GameStopped, TypeOK
  <2> QED
    BY <2>1, <2>2, <1>9, OtherFrame DEF GameStopped
<1>10. ASSUME NEW o \in Ops, Call(c, o) PROVE Safe'
  <2>1. o = "gamestop"
    BY <1>10 DEF OneStarter, Call
  <2>2. FirstStep(o) = "stop"
    BY <2>1 DEF FirstStep
  <2>3. /\ \A u \in Threads \ {c} : pc'[u] = pc[u] /\ tok'[u] = tok[u]
        /\ \A d \in Callers \ {c} : op'[d] = op[d] /\ awaited'[d] = awaited[d]
        /\ pc'[c] \in OtherLabels /\ op'[c] \in {"none", "gamestop"} /\ tok'[c] <= generation
    BY <1>10, <2>1, <2>2, <1>2 DEF Call, TypeOK, OtherLabels
  <2> QED
    BY <2>3, <1>10, OtherFrame DEF Call
<1>11. /\ ~Survey(c) /\ ~BestEffort(c) /\ ~Target(c) /\ ~Conclude(c) /\ ~Acquire(c)
       /\ ~AcquireRefused(c) /\ ~MarkActive(c) /\ ~FirstWrite(c) /\ ~DropLease(c)
       /\ ~Register(c) /\ ~PublishGame(c) /\ ~RecordOutput(c) /\ ~ArmWatchdog(c)
       /\ ~Recover(c) /\ ~Forget(c) /\ ~SafeStopStep(c)
  BY <1>1 DEF OtherLabels, Survey, BestEffort, Target, Conclude, Acquire, AcquireRefused,
     MarkActive, FirstWrite, DropLease, Register, PublishGame, RecordOutput, ArmWatchdog,
     Recover, Forget, SafeStopStep, WriteNeutral, ClearMarker, ReleaseLease, RecordStop
<1> QED
  BY <1>5, <1>6, <1>7, <1>8, <1>9, <1>10, <1>11 DEF CallerStep

\* A stop that is settled does not revive the worker that executes it.
LEMMA NotRevived ==
  ASSUME NEW t
  PROVE  Completed(t) # "idle" /\ Settled(t) \notin LiveLabels \cup {"idle"}
<1>1. Settled(t) \notin LiveLabels \cup {"idle"}
  BY DEF Settled, LiveLabels
<1> QED
  BY <1>1 DEF Completed

\* The safe stop of a worker or of a watchdog.
LEMMA SessionStop ==
  ASSUME TypeOK, Safe, NEW g \in Gens, NEW w \in {Worker(g), Watchdog(g)}, SafeStopStep(w)
  PROVE  Safe'
<1> USE DEF Goto, device, ownership, session, locals
<1>1. w \in Threads \ Callers /\ tok[w] = g
  BY Distinct DEF Safe, OwnTokens
<1>2. Completed(w) # "idle" /\ Settled(w) \notin LiveLabels \cup {"idle"}
  BY NotRevived
<1>3. pc[w] \in {"neutral", "unmark", "unlease", "record"}
  BY DEF SafeStopStep, WriteNeutral, ClearMarker, ReleaseLease, RecordStop
<1>4. w = Watchdog(g) => ~Live(g)
  BY <1>3 DEF Safe, Watched
<1>5. Worker(g) \in Threads /\ Worker(g) # Watchdog(g)
  BY Distinct
<1>6. CASE WriteNeutral(w)
  <2>1. \A u \in Threads \ {w} : pc'[u] = pc[u]
    BY <1>6 DEF WriteNeutral, TypeOK
  <2>2. Live(g)' => Live(g)
    BY <1>6, <1>5, <2>1 DEF WriteNeutral, Live, LiveLabels
  <2> QED
    BY <1>6, <1>3, <2>1, <2>2, SessionFrame DEF WriteNeutral
<1>7. CASE ClearMarker(w)
  <2>1. \A u \in Threads \ {w} : pc'[u] = pc[u]
    BY <1>7 DEF ClearMarker, TypeOK
  <2>2. Live(g)' => Live(g)
    BY <1>7, <1>5, <2>1 DEF ClearMarker, Live, LiveLabels
  <2> QED
    BY <1>7, <1>3, <2>1, <2>2, SessionFrame DEF ClearMarker
<1>8. CASE ReleaseLease(w)
  <2>1. \A u \in Threads \ {w} : pc'[u] = pc[u]
    BY <1>8 DEF ReleaseLease, TypeOK
  <2>2. ~Live(g)'
    BY <1>8, <1>1, <1>2, <1>4, <1>5, <2>1 DEF ReleaseLease, TypeOK, Live
  <2>3. lease' = lease \/ (lease' = 0 /\ lease = g)
    BY <1>8, <1>1 DEF ReleaseLease, Released
  <2> QED
    BY <1>8, <1>3, <2>1, <2>2, <2>3, SessionFrame DEF ReleaseLease
<1>9. CASE RecordStop(w)
  <2>1. pc' = [Unwatched EXCEPT ![w] = "idle"] /\ UNCHANGED op
    BY <1>9, <1>1 DEF RecordStop
  <2>2. \A u \in Threads : Unwatched[u] = pc[u] \/ (u \in Watchdogs /\ Unwatched[u] = "idle")
    BY UnwatchedFrame
  <2>3. Unwatched \in [Threads -> Labels]
    BY UnwatchedLabels
  <2>4. \A u \in Threads \ {w} : pc'[u] = pc[u] \/ (u \in Watchdogs /\ pc'[u] = "idle")
    BY <2>1, <2>2, <2>3
  <2>5. Live(g)' => Live(g)
    BY <2>1, <2>2, <2>3, <1>5 DEF Live, LiveLabels
  <2> QED
    BY <1>9, <1>3, <2>1, <2>4, <2>5, SessionFrame DEF RecordStop
<1> QED
  BY <1>6, <1>7, <1>8, <1>9 DEF SafeStopStep

\* The loop of a worker, its last writes and its reports.
LEMMA WorkerSafe ==
  ASSUME TypeOK, Safe, NEW g \in Gens, WorkerStep(g)
  PROVE  Safe'
<1> DEFINE w == Worker(g)
<1> USE DEF Goto, device, ownership, session, locals
<1>1. w \in Threads \ Callers
  BY Distinct
<1>2. Completed(w) # "idle" /\ Settled(w) \notin LiveLabels \cup {"idle"}
  BY NotRevived
<1> HIDE DEF w
<1>3. CASE Tick(g)
  <2>1. /\ pc[w] # "idle"
        /\ \A u \in Threads \ {w} : pc'[u] = pc[u]
    BY <1>3 DEF Tick, TypeOK, w
  <2>2. Live(g)' => Live(g)
    BY <1>3, <1>1, <1>2 DEF Tick, TypeOK, Live, LiveLabels, w
  <2> QED
    BY <1>3, <2>1, <2>2, SessionFrame DEF Tick, w
<1>4. CASE LeaveLoop(g)
  <2>1. /\ pc[w] # "idle"
        /\ \A u \in Threads \ {w} : pc'[u] = pc[u]
    BY <1>4 DEF LeaveLoop, TypeOK, w
  <2>2. Live(g)' => Live(g)
    BY <1>4, <1>1, <1>2 DEF LeaveLoop, TypeOK, Live, LiveLabels, w
  <2> QED
    BY <1>4, <2>1, <2>2, SessionFrame DEF LeaveLoop, w
<1>5. CASE Halt(g)
  <2>1. /\ pc[w] # "idle"
        /\ \A u \in Threads \ {w} : pc'[u] = pc[u]
    BY <1>5 DEF Halt, TypeOK, w
  <2>2. Live(g)' => Live(g)
    BY <1>5, <1>1, <1>2 DEF Halt, TypeOK, Live, LiveLabels, w
  <2> QED
    BY <1>5, <2>1, <2>2, SessionFrame DEF Halt, w
<1>6. CASE Hang(g)
  <2>1. /\ pc[w] # "idle"
        /\ \A u \in Threads \ {w} : pc'[u] = pc[u]
    BY <1>6 DEF Hang, TypeOK, w
  <2>2. Live(g)' => Live(g)
    BY <1>6, <1>1, <1>2 DEF Hang, TypeOK, Live, LiveLabels, w
  <2> QED
    BY <1>6, <2>1, <2>2, SessionFrame DEF Hang, w
<1>7. CASE ReportGame(g)
  <2>1. /\ pc[w] # "idle"
        /\ \A u \in Threads \ {w} : pc'[u] = pc[u]
    BY <1>7 DEF ReportGame, TypeOK, w
  <2>2. Live(g)' => Live(g)
    BY <1>7, <1>1, <1>2 DEF ReportGame, TypeOK, Live, LiveLabels, w
  <2>3. game'.session = game.session
    BY <1>7 DEF ReportGame, TypeOK
  <2> QED
    BY <1>7, <2>1, <2>2, <2>3, SessionFrame DEF ReportGame, w
<1>8. CASE Report(g)
  <2>1. /\ pc[w] # "idle"
        /\ \A u \in Threads \ {w} : pc'[u] = pc[u]
    BY <1>8 DEF Report, TypeOK, w
  <2>2. Live(g)' => Live(g)
    BY <1>8, <1>1, <1>2 DEF Report, TypeOK, Live, LiveLabels, w
  <2>3. ffb'.session = ffb.session /\ ffb'.done = ffb.done
    BY <1>8 DEF Report, TypeOK, Live
  <2> QED
    BY <1>8, <2>1, <2>2, <2>3, SessionFrame DEF Report, w
<1>9. CASE Exit(g)
  <2>1. /\ pc[w] # "idle"
        /\ \A u \in Threads \ {w} : pc'[u] = pc[u]
    BY <1>9 DEF Exit, TypeOK, w
  <2>2. Live(g)' => Live(g)
    BY <1>9, <1>1, <1>2 DEF Exit, TypeOK, Live, LiveLabels, w
  <2>3. ffb'.session = ffb.session /\ (ffb'.done = ffb.done \/ (ffb.session = g /\ ~Live(g)))
    BY <1>9 DEF Exit, TypeOK, Live, LiveLabels
  <2> QED
    BY <1>9, <2>1, <2>2, <2>3, SessionFrame DEF Exit, w
<1> QED
  BY <1>3, <1>4, <1>5, <1>6, <1>7, <1>8, <1>9 DEF WorkerStep

\* The callback of a watchdog starts.
LEMMA WatchdogSafe ==
  ASSUME TypeOK, Safe, NEW g \in Gens, WatchdogFires(g)
  PROVE  Safe'
<1>1. Watchdog(g) \in Threads /\ Worker(g) \in Threads /\ Worker(g) # Watchdog(g)
  BY Distinct
<1>2. /\ pc[Watchdog(g)] # "idle"
      /\ \A u \in Threads \ {Watchdog(g)} : pc'[u] = pc[u]
  BY DEF WatchdogFires, Goto, TypeOK
<1>3. Live(g)' => Live(g)
  BY <1>1, <1>2 DEF Live
<1> QED
  BY <1>2, <1>3, SessionFrame DEF WatchdogFires, device, ownership, session, locals

-----------------------------------------------------------------------------

\* Where the operators of the model take the UI thread: nothing but the end of one
\* start is the beginning of the next, and only CancelSession begins a wait.
LEMMA UILabels ==
  ASSUME NEW o
  PROVE  /\ AfterStop(o) \notin Quiet \cup {"announce", "wait"}
         /\ Unstopped(o) \notin Quiet \cup {"announce", "wait"}
         /\ Stopped(o) \notin Starting \cup {"announce", "wait"}
         /\ o \in Ops => FirstStep(o) \notin Quiet \cup {"announce", "wait"}
         /\ Settled(UI) = "record"
         /\ Completed(UI) \in {"unmark", "unlease"}
<1> USE DEF Quiet, Starting
<1>1. AfterStop(o) \notin Quiet \cup {"announce", "wait"}
  BY DEF AfterStop
<1>2. Unstopped(o) \notin Quiet \cup {"announce", "wait"}
  BY DEF Unstopped
<1>3. Stopped(o) \notin Starting \cup {"announce", "wait"}
  BY DEF Stopped
<1>4. o \in Ops => FirstStep(o) \notin Quiet \cup {"announce", "wait"}
  BY DEF FirstStep, Ops
<1>5. Settled(UI) = "record" /\ Completed(UI) \in {"unmark", "unlease"}
  BY MotorAssumption DEF Settled, Completed
<1> QED
  BY <1>1, <1>2, <1>3, <1>4, <1>5

\* The UI thread stops a session.
LEMMA UIStops ==
  ASSUME TypeOK, Safe,
         \/ Return(UI) \/ Survey(UI) \/ WorkerTimeout(UI) \/ BestEffort(UI)
         \/ Target(UI) \/ Conclude(UI) \/ WriteNeutral(UI) \/ ClearMarker(UI)
         \/ RecordStop(UI) \/ GameStopped(UI)
  PROVE  Safe'
<1> USE DEF Goto, device, ownership, session, locals
<1>a. UI \in Threads /\ UI \in Callers
  BY Distinct DEF Threads
<1>b. tok[UI] <= generation /\ lease <= generation /\ game.session <= generation /\ 0 <= generation
  BY <1>a, MotorAssumption DEF Safe, Issued, TypeOK
<1>c. UIQuiet => NoneLive
  BY DEF Safe, QuietNow
<1>d. pc[UI] \in Quiet => NoneLive
  BY <1>c DEF UIQuiet
<1>e. pc[UI] = "wait" => awaited[UI] = ffb.session
  BY DEF Safe, Awaiting
<1>f. /\ AfterStop(op[UI]) \notin Quiet \cup {"announce", "wait"}
      /\ Unstopped(op[UI]) \notin Quiet \cup {"announce", "wait"}
      /\ Stopped(op[UI]) \notin Starting \cup {"announce", "wait"}
      /\ Settled(UI) = "record" /\ Completed(UI) \in {"unmark", "unlease"}
  BY UILabels
<1>g. Starting \subseteq Quiet
  BY DEF Quiet, Starting
<1>h. Unwatched \in [Threads -> Labels]
  BY UnwatchedLabels
<1>i. \A u \in Threads : Unwatched[u] = pc[u] \/ (u \in Watchdogs /\ Unwatched[u] = "idle")
  BY UnwatchedFrame
<1>1. CASE Return(UI)
  <2>1. \A u \in Threads \ {UI} : pc'[u] = pc[u] \/ (u \in Watchdogs /\ pc'[u] = "idle")
    BY <1>1, <1>a DEF Return, TypeOK
  <2>2. /\ \A u \in Threads \ {UI} : tok'[u] = tok[u]
        /\ \A c \in Callers \ {UI} : op'[c] = op[c]
        /\ tok'[UI] <= generation
    BY <1>1, <1>a, <1>b DEF Return, TypeOK
  <2>3. UIQuiet' => NoneLive
    BY <1>1, <1>a, <1>c, <1>d, <1>f DEF Return, TypeOK, UIQuiet, Quiet, Starting
  <2>4. /\ pc'[UI] \in Starting => pc[UI] \in Starting /\ tok'[UI] = tok[UI]
        /\ pc'[UI] = "wait" => awaited'[UI] = ffb.session
        /\ pc'[UI] # "publish"
    BY <1>1, <1>a, <1>f DEF Return, TypeOK, Quiet, Starting
  <2>5. ffb'.session = ffb.session /\ ffb'.done = ffb.done /\ game'.session = game.session
    BY <1>1 DEF Return, TypeOK
  <2> QED
    BY <1>1, <2>1, <2>2, <2>3, <2>4, <2>5, UIFrame DEF Return
<1>2. CASE Survey(UI)
  <2>1. \A u \in Threads \ {UI} : pc'[u] = pc[u] \/ (u \in Watchdogs /\ pc'[u] = "idle")
    BY <1>2, <1>a DEF Survey, TypeOK, Continue
  <2>2. /\ \A u \in Threads \ {UI} : tok'[u] = tok[u]
        /\ \A c \in Callers \ {UI} : op'[c] = op[c]
        /\ tok'[UI] <= generation
    BY <1>2, <1>a, <1>b DEF Survey, TypeOK, Continue
  <2>3. UIQuiet' => NoneLive
    BY <1>2, <1>a, <1>c, <1>d, <1>f DEF Survey, TypeOK, UIQuiet, Quiet, Starting, Continue
  <2>4. /\ pc'[UI] \in Starting => pc[UI] \in Starting /\ tok'[UI] = tok[UI]
        /\ pc'[UI] = "wait" => awaited'[UI] = ffb.session
        /\ pc'[UI] # "publish"
    BY <1>2, <1>a, <1>f DEF Survey, TypeOK, Quiet, Starting, Continue
  <2>5. ffb'.session = ffb.session /\ ffb'.done = ffb.done /\ game'.session = game.session
    BY <1>2 DEF Survey, TypeOK
  <2> QED
    BY <1>2, <2>1, <2>2, <2>3, <2>4, <2>5, UIFrame DEF Survey
<1>3. CASE WorkerTimeout(UI)
  <2>1. \A u \in Threads \ {UI} : pc'[u] = pc[u] \/ (u \in Watchdogs /\ pc'[u] = "idle")
    BY <1>3, <1>a DEF WorkerTimeout, TypeOK
  <2>2. /\ \A u \in Threads \ {UI} : tok'[u] = tok[u]
        /\ \A c \in Callers \ {UI} : op'[c] = op[c]
        /\ tok'[UI] <= generation
    BY <1>3, <1>a, <1>b DEF WorkerTimeout, TypeOK
  <2>3. UIQuiet' => NoneLive
    BY <1>3, <1>a, <1>c, <1>d, <1>f DEF WorkerTimeout, TypeOK, UIQuiet, Quiet, Starting
  <2>4. /\ pc'[UI] \in Starting => pc[UI] \in Starting /\ tok'[UI] = tok[UI]
        /\ pc'[UI] = "wait" => awaited'[UI] = ffb.session
        /\ pc'[UI] # "publish"
    BY <1>3, <1>a, <1>f DEF WorkerTimeout, TypeOK, Quiet, Starting
  <2>5. ffb'.session = ffb.session /\ ffb'.done = ffb.done /\ game'.session = game.session
    BY <1>3 DEF WorkerTimeout, TypeOK
  <2> QED
    BY <1>3, <2>1, <2>2, <2>3, <2>4, <2>5, UIFrame DEF WorkerTimeout
<1>4. CASE BestEffort(UI)
  <2>1. \A u \in Threads \ {UI} : pc'[u] = pc[u] \/ (u \in Watchdogs /\ pc'[u] = "idle")
    BY <1>4, <1>a DEF BestEffort, TypeOK
  <2>2. /\ \A u \in Threads \ {UI} : tok'[u] = tok[u]
        /\ \A c \in Callers \ {UI} : op'[c] = op[c]
        /\ tok'[UI] <= generation
    BY <1>4, <1>a, <1>b DEF BestEffort, TypeOK
  <2>3. UIQuiet' => NoneLive
    BY <1>4, <1>a, <1>c, <1>d, <1>f DEF BestEffort, TypeOK, UIQuiet, Quiet, Starting
  <2>4. /\ pc'[UI] \in Starting => pc[UI] \in Starting /\ tok'[UI] = tok[UI]
        /\ pc'[UI] = "wait" => awaited'[UI] = ffb.session
        /\ pc'[UI] # "publish"
    BY <1>4, <1>a, <1>f DEF BestEffort, TypeOK, Quiet, Starting
  <2>5. ffb'.session = ffb.session /\ ffb'.done = ffb.done /\ game'.session = game.session
    BY <1>4 DEF BestEffort, TypeOK
  <2> QED
    BY <1>4, <2>1, <2>2, <2>3, <2>4, <2>5, UIFrame DEF BestEffort
<1>5. CASE Target(UI)
  <2>1. \A u \in Threads \ {UI} : pc'[u] = pc[u] \/ (u \in Watchdogs /\ pc'[u] = "idle")
    BY <1>5, <1>a DEF Target, TypeOK
  <2>2. /\ \A u \in Threads \ {UI} : tok'[u] = tok[u]
        /\ \A c \in Callers \ {UI} : op'[c] = op[c]
        /\ tok'[UI] <= generation
    BY <1>5, <1>a, <1>b DEF Target, TypeOK
  <2>3. UIQuiet' => NoneLive
    BY <1>5, <1>a, <1>c, <1>d, <1>f DEF Target, TypeOK, UIQuiet, Quiet, Starting
  <2>4. /\ pc'[UI] \in Starting => pc[UI] \in Starting /\ tok'[UI] = tok[UI]
        /\ pc'[UI] = "wait" => awaited'[UI] = ffb.session
        /\ pc'[UI] # "publish"
    BY <1>5, <1>a, <1>f DEF Target, TypeOK, Quiet, Starting
  <2>5. ffb'.session = ffb.session /\ ffb'.done = ffb.done /\ game'.session = game.session
    BY <1>5 DEF Target, TypeOK
  <2> QED
    BY <1>5, <2>1, <2>2, <2>3, <2>4, <2>5, UIFrame DEF Target
<1>6. CASE Conclude(UI)
  <2>1. \A u \in Threads \ {UI} : pc'[u] = pc[u] \/ (u \in Watchdogs /\ pc'[u] = "idle")
    BY <1>6, <1>a, <1>h, <1>i DEF Conclude, TypeOK
  <2>2. /\ \A u \in Threads \ {UI} : tok'[u] = tok[u]
        /\ \A c \in Callers \ {UI} : op'[c] = op[c]
        /\ tok'[UI] <= generation
    BY <1>6, <1>a, <1>b DEF Conclude, TypeOK
  <2>3. UIQuiet' => NoneLive
    BY <1>6, <1>a, <1>c, <1>d, <1>f, <1>h, <1>i DEF Conclude, TypeOK, UIQuiet, Quiet, Starting
  <2>4. /\ pc'[UI] \in Starting => pc[UI] \in Starting /\ tok'[UI] = tok[UI]
        /\ pc'[UI] = "wait" => awaited'[UI] = ffb.session
        /\ pc'[UI] # "publish"
    BY <1>6, <1>a, <1>f, <1>h, <1>i DEF Conclude, TypeOK, Quiet, Starting
  <2>5. ffb'.session = ffb.session /\ ffb'.done = ffb.done /\ game'.session = game.session
    BY <1>6 DEF Conclude, TypeOK
  <2> QED
    BY <1>6, <2>1, <2>2, <2>3, <2>4, <2>5, UIFrame DEF Conclude
<1>7. CASE WriteNeutral(UI)
  <2>1. \A u \in Threads \ {UI} : pc'[u] = pc[u] \/ (u \in Watchdogs /\ pc'[u] = "idle")
    BY <1>7, <1>a DEF WriteNeutral, TypeOK
  <2>2. /\ \A u \in Threads \ {UI} : tok'[u] = tok[u]
        /\ \A c \in Callers \ {UI} : op'[c] = op[c]
        /\ tok'[UI] <= generation
    BY <1>7, <1>a, <1>b DEF WriteNeutral, TypeOK
  <2>3. UIQuiet' => NoneLive
    BY <1>7, <1>a, <1>c, <1>d, <1>f DEF WriteNeutral, TypeOK, UIQuiet, Quiet, Starting
  <2>4. /\ pc'[UI] \in Starting => pc[UI] \in Starting /\ tok'[UI] = tok[UI]
        /\ pc'[UI] = "wait" => awaited'[UI] = ffb.session
        /\ pc'[UI] # "publish"
    BY <1>7, <1>a, <1>f DEF WriteNeutral, TypeOK, Quiet, Starting
  <2>5. ffb'.session = ffb.session /\ ffb'.done = ffb.done /\ game'.session = game.session
    BY <1>7 DEF WriteNeutral, TypeOK
  <2> QED
    BY <1>7, <2>1, <2>2, <2>3, <2>4, <2>5, UIFrame DEF WriteNeutral
<1>8. CASE ClearMarker(UI)
  <2>1. \A u \in Threads \ {UI} : pc'[u] = pc[u] \/ (u \in Watchdogs /\ pc'[u] = "idle")
    BY <1>8, <1>a DEF ClearMarker, TypeOK
  <2>2. /\ \A u \in Threads \ {UI} : tok'[u] = tok[u]
        /\ \A c \in Callers \ {UI} : op'[c] = op[c]
        /\ tok'[UI] <= generation
    BY <1>8, <1>a, <1>b DEF ClearMarker, TypeOK
  <2>3. UIQuiet' => NoneLive
    BY <1>8, <1>a, <1>c, <1>d, <1>f DEF ClearMarker, TypeOK, UIQuiet, Quiet, Starting
  <2>4. /\ pc'[UI] \in Starting => pc[UI] \in Starting /\ tok'[UI] = tok[UI]
        /\ pc'[UI] = "wait" => awaited'[UI] = ffb.session
        /\ pc'[UI] # "publish"
    BY <1>8, <1>a, <1>f DEF ClearMarker, TypeOK, Quiet, Starting
  <2>5. ffb'.session = ffb.session /\ ffb'.done = ffb.done /\ game'.session = game.session
    BY <1>8 DEF ClearMarker, TypeOK
  <2> QED
    BY <1>8, <2>1, <2>2, <2>3, <2>4, <2>5, UIFrame DEF ClearMarker
<1>9. CASE RecordStop(UI)
  <2>1. \A u \in Threads \ {UI} : pc'[u] = pc[u] \/ (u \in Watchdogs /\ pc'[u] = "idle")
    BY <1>9, <1>a, <1>h, <1>i DEF RecordStop, TypeOK, Continue
  <2>2. /\ \A u \in Threads \ {UI} : tok'[u] = tok[u]
        /\ \A c \in Callers \ {UI} : op'[c] = op[c]
        /\ tok'[UI] <= generation
    BY <1>9, <1>a, <1>b DEF RecordStop, TypeOK, Continue
  <2>3. UIQuiet' => NoneLive
    BY <1>9, <1>a, <1>c, <1>d, <1>f, <1>h, <1>i DEF RecordStop, TypeOK, UIQuiet, Quiet, Starting, Continue
  <2>4. /\ pc'[UI] \in Starting => pc[UI] \in Starting /\ tok'[UI] = tok[UI]
        /\ pc'[UI] = "wait" => awaited'[UI] = ffb.session
        /\ pc'[UI] # "publish"
    BY <1>9, <1>a, <1>f, <1>h, <1>i DEF RecordStop, TypeOK, Quiet, Starting, Continue
  <2>5. ffb'.session = ffb.session /\ ffb'.done = ffb.done /\ game'.session = game.session
    BY <1>9 DEF RecordStop, TypeOK
  <2> QED
    BY <1>9, <2>1, <2>2, <2>3, <2>4, <2>5, UIFrame DEF RecordStop
<1>10. CASE GameStopped(UI)
  <2>1. \A u \in Threads \ {UI} : pc'[u] = pc[u] \/ (u \in Watchdogs /\ pc'[u] = "idle")
    BY <1>10, <1>a DEF GameStopped, TypeOK
  <2>2. /\ \A u \in Threads \ {UI} : tok'[u] = tok[u]
        /\ \A c \in Callers \ {UI} : op'[c] = op[c]
        /\ tok'[UI] <= generation
    BY <1>10, <1>a, <1>b DEF GameStopped, TypeOK
  <2>3. UIQuiet' => NoneLive
    BY <1>10, <1>a, <1>c, <1>d, <1>f DEF GameStopped, TypeOK, UIQuiet, Quiet, Starting
  <2>4. /\ pc'[UI] \in Starting => pc[UI] \in Starting /\ tok'[UI] = tok[UI]
        /\ pc'[UI] = "wait" => awaited'[UI] = ffb.session
        /\ pc'[UI] # "publish"
    BY <1>10, <1>a, <1>f DEF GameStopped, TypeOK, Quiet, Starting
  <2>5. ffb'.session = ffb.session /\ ffb'.done = ffb.done /\ game'.session = game.session
    BY <1>10 DEF GameStopped, TypeOK
  <2> QED
    BY <1>10, <2>1, <2>2, <2>3, <2>4, <2>5, UIFrame DEF GameStopped
<1> QED
  BY <1>1, <1>2, <1>3, <1>4, <1>5, <1>6, <1>7, <1>8, <1>9, <1>10

\* The UI thread starts a session, or recovers.
LEMMA UIStarts ==
  ASSUME TypeOK, Safe,
         \/ AcquireRefused(UI) \/ MarkActive(UI) \/ FirstWrite(UI) \/ RecordOutput(UI)
         \/ Recover(UI) \/ Forget(UI)
  PROVE  Safe'
<1> USE DEF Goto, device, ownership, session, locals
<1>a. UI \in Threads /\ UI \in Callers
  BY Distinct DEF Threads
<1>b. tok[UI] <= generation /\ lease <= generation /\ game.session <= generation /\ 0 <= generation
  BY <1>a, MotorAssumption DEF Safe, Issued, TypeOK
<1>c. UIQuiet => NoneLive
  BY DEF Safe, QuietNow
<1>d. pc[UI] \in Quiet => NoneLive
  BY <1>c DEF UIQuiet
<1>e. pc[UI] = "wait" => awaited[UI] = ffb.session
  BY DEF Safe, Awaiting
<1>f. /\ AfterStop(op[UI]) \notin Quiet \cup {"announce", "wait"}
      /\ Unstopped(op[UI]) \notin Quiet \cup {"announce", "wait"}
      /\ Stopped(op[UI]) \notin Starting \cup {"announce", "wait"}
      /\ Settled(UI) = "record" /\ Completed(UI) \in {"unmark", "unlease"}
  BY UILabels
<1>g. Starting \subseteq Quiet
  BY DEF Quiet, Starting
<1>1. CASE AcquireRefused(UI)
  <2>1. \A u \in Threads \ {UI} : pc'[u] = pc[u] \/ (u \in Watchdogs /\ pc'[u] = "idle")
    BY <1>1, <1>a DEF AcquireRefused, TypeOK
  <2>2. /\ \A u \in Threads \ {UI} : tok'[u] = tok[u]
        /\ \A c \in Callers \ {UI} : op'[c] = op[c]
        /\ tok'[UI] <= generation
    BY <1>1, <1>a, <1>b DEF AcquireRefused, TypeOK
  <2>3. UIQuiet' => NoneLive
    BY <1>1, <1>a, <1>c, <1>d, <1>f DEF AcquireRefused, TypeOK, UIQuiet, Quiet, Starting
  <2>4. /\ pc'[UI] \in Starting => pc[UI] \in Starting /\ tok'[UI] = tok[UI]
        /\ pc'[UI] = "wait" => awaited'[UI] = ffb.session
        /\ pc'[UI] # "publish"
    BY <1>1, <1>a, <1>f DEF AcquireRefused, TypeOK, Quiet, Starting
  <2>5. ffb'.session = ffb.session /\ ffb'.done = ffb.done /\ game'.session = game.session
    BY <1>1 DEF AcquireRefused, TypeOK
  <2> QED
    BY <1>1, <2>1, <2>2, <2>3, <2>4, <2>5, UIFrame DEF AcquireRefused
<1>2. CASE MarkActive(UI)
  <2>1. \A u \in Threads \ {UI} : pc'[u] = pc[u] \/ (u \in Watchdogs /\ pc'[u] = "idle")
    BY <1>2, <1>a DEF MarkActive, TypeOK
  <2>2. /\ \A u \in Threads \ {UI} : tok'[u] = tok[u]
        /\ \A c \in Callers \ {UI} : op'[c] = op[c]
        /\ tok'[UI] <= generation
    BY <1>2, <1>a, <1>b DEF MarkActive, TypeOK
  <2>3. UIQuiet' => NoneLive
    BY <1>2, <1>a, <1>c, <1>d, <1>f DEF MarkActive, TypeOK, UIQuiet, Quiet, Starting
  <2>4. /\ pc'[UI] \in Starting => pc[UI] \in Starting /\ tok'[UI] = tok[UI]
        /\ pc'[UI] = "wait" => awaited'[UI] = ffb.session
        /\ pc'[UI] # "publish"
    BY <1>2, <1>a, <1>f DEF MarkActive, TypeOK, Quiet, Starting
  <2>5. ffb'.session = ffb.session /\ ffb'.done = ffb.done /\ game'.session = game.session
    BY <1>2 DEF MarkActive, TypeOK
  <2> QED
    BY <1>2, <2>1, <2>2, <2>3, <2>4, <2>5, UIFrame DEF MarkActive
<1>3. CASE FirstWrite(UI)
  <2>1. \A u \in Threads \ {UI} : pc'[u] = pc[u] \/ (u \in Watchdogs /\ pc'[u] = "idle")
    BY <1>3, <1>a DEF FirstWrite, TypeOK
  <2>2. /\ \A u \in Threads \ {UI} : tok'[u] = tok[u]
        /\ \A c \in Callers \ {UI} : op'[c] = op[c]
        /\ tok'[UI] <= generation
    BY <1>3, <1>a, <1>b DEF FirstWrite, TypeOK
  <2>3. UIQuiet' => NoneLive
    BY <1>3, <1>a, <1>c, <1>d, <1>f DEF FirstWrite, TypeOK, UIQuiet, Quiet, Starting
  <2>4. /\ pc'[UI] \in Starting => pc[UI] \in Starting /\ tok'[UI] = tok[UI]
        /\ pc'[UI] = "wait" => awaited'[UI] = ffb.session
        /\ pc'[UI] # "publish"
    BY <1>3, <1>a, <1>f DEF FirstWrite, TypeOK, Quiet, Starting
  <2>5. ffb'.session = ffb.session /\ ffb'.done = ffb.done /\ game'.session = game.session
    BY <1>3 DEF FirstWrite, TypeOK
  <2> QED
    BY <1>3, <2>1, <2>2, <2>3, <2>4, <2>5, UIFrame DEF FirstWrite
<1>4. CASE RecordOutput(UI)
  <2>1. \A u \in Threads \ {UI} : pc'[u] = pc[u] \/ (u \in Watchdogs /\ pc'[u] = "idle")
    BY <1>4, <1>a DEF RecordOutput, TypeOK
  <2>2. /\ \A u \in Threads \ {UI} : tok'[u] = tok[u]
        /\ \A c \in Callers \ {UI} : op'[c] = op[c]
        /\ tok'[UI] <= generation
    BY <1>4, <1>a, <1>b DEF RecordOutput, TypeOK
  <2>3. UIQuiet' => NoneLive
    BY <1>4, <1>a, <1>c, <1>d, <1>f DEF RecordOutput, TypeOK, UIQuiet, Quiet, Starting
  <2>4. /\ pc'[UI] \in Starting => pc[UI] \in Starting /\ tok'[UI] = tok[UI]
        /\ pc'[UI] = "wait" => awaited'[UI] = ffb.session
        /\ pc'[UI] # "publish"
    BY <1>4, <1>a, <1>f DEF RecordOutput, TypeOK, Quiet, Starting
  <2>5. ffb'.session = ffb.session /\ ffb'.done = ffb.done /\ game'.session = game.session
    BY <1>4 DEF RecordOutput, TypeOK
  <2> QED
    BY <1>4, <2>1, <2>2, <2>3, <2>4, <2>5, UIFrame DEF RecordOutput
<1>5. CASE Recover(UI)
  <2>1. \A u \in Threads \ {UI} : pc'[u] = pc[u] \/ (u \in Watchdogs /\ pc'[u] = "idle")
    BY <1>5, <1>a DEF Recover, TypeOK
  <2>2. /\ \A u \in Threads \ {UI} : tok'[u] = tok[u]
        /\ \A c \in Callers \ {UI} : op'[c] = op[c]
        /\ tok'[UI] <= generation
    BY <1>5, <1>a, <1>b DEF Recover, TypeOK
  <2>3. UIQuiet' => NoneLive
    BY <1>5, <1>a, <1>c, <1>d, <1>f DEF Recover, TypeOK, UIQuiet, Quiet, Starting
  <2>4. /\ pc'[UI] \in Starting => pc[UI] \in Starting /\ tok'[UI] = tok[UI]
        /\ pc'[UI] = "wait" => awaited'[UI] = ffb.session
        /\ pc'[UI] # "publish"
    BY <1>5, <1>a, <1>f DEF Recover, TypeOK, Quiet, Starting
  <2>5. ffb'.session = ffb.session /\ ffb'.done = ffb.done /\ game'.session = game.session
    BY <1>5 DEF Recover, TypeOK
  <2> QED
    BY <1>5, <2>1, <2>2, <2>3, <2>4, <2>5, UIFrame DEF Recover
<1>6. CASE Forget(UI)
  <2>1. \A u \in Threads \ {UI} : pc'[u] = pc[u] \/ (u \in Watchdogs /\ pc'[u] = "idle")
    BY <1>6, <1>a DEF Forget, TypeOK
  <2>2. /\ \A u \in Threads \ {UI} : tok'[u] = tok[u]
        /\ \A c \in Callers \ {UI} : op'[c] = op[c]
        /\ tok'[UI] <= generation
    BY <1>6, <1>a, <1>b DEF Forget, TypeOK
  <2>3. UIQuiet' => NoneLive
    BY <1>6, <1>a, <1>c, <1>d, <1>f DEF Forget, TypeOK, UIQuiet, Quiet, Starting
  <2>4. /\ pc'[UI] \in Starting => pc[UI] \in Starting /\ tok'[UI] = tok[UI]
        /\ pc'[UI] = "wait" => awaited'[UI] = ffb.session
        /\ pc'[UI] # "publish"
    BY <1>6, <1>a, <1>f DEF Forget, TypeOK, Quiet, Starting
  <2>5. ffb'.session = ffb.session /\ ffb'.done = ffb.done /\ game'.session = game.session
    BY <1>6 DEF Forget, TypeOK
  <2> QED
    BY <1>6, <2>1, <2>2, <2>3, <2>4, <2>5, UIFrame DEF Forget
<1> QED
  BY <1>1, <1>2, <1>3, <1>4, <1>5, <1>6

\* The UI thread cancels a session, waits for its end, or begins a call.
LEMMA UIWaits ==
  ASSUME TypeOK, Safe,
         CancelSession(UI) \/ WorkerEnded(UI) \/ \E o \in Ops : Call(UI, o)
  PROVE  Safe'
<1> USE DEF Goto, device, ownership, session, locals
<1>a. UI \in Threads /\ UI \in Callers
  BY Distinct DEF Threads
<1>b. tok[UI] <= generation /\ lease <= generation /\ game.session <= generation /\ 0 <= generation
  BY <1>a, MotorAssumption DEF Safe, Issued, TypeOK
<1>c. UIQuiet => NoneLive
  BY DEF Safe, QuietNow
<1>d. pc[UI] \in Quiet => NoneLive
  BY <1>c DEF UIQuiet
<1>e. pc[UI] = "wait" => awaited[UI] = ffb.session
  BY DEF Safe, Awaiting
<1>f. /\ AfterStop(op[UI]) \notin Quiet \cup {"announce", "wait"}
      /\ Unstopped(op[UI]) \notin Quiet \cup {"announce", "wait"}
      /\ Stopped(op[UI]) \notin Starting \cup {"announce", "wait"}
      /\ Settled(UI) = "record" /\ Completed(UI) \in {"unmark", "unlease"}
  BY UILabels
<1>g. Starting \subseteq Quiet
  BY DEF Quiet, Starting
<1>h. NoneLive \/ ffb.done
  BY DEF Safe, LiveOwned, NoneLive
<1>j. pc[UI] = "wait" /\ pc[Worker(ffb.session)] = "closed" => NoneLive
  BY DEF Safe, LiveOwned, NoneLive, Live, LiveLabels
<1>1. CASE CancelSession(UI)
  <2>1. \A u \in Threads \ {UI} : pc'[u] = pc[u] \/ (u \in Watchdogs /\ pc'[u] = "idle")
    BY <1>1, <1>a DEF CancelSession, TypeOK
  <2>2. /\ \A u \in Threads \ {UI} : tok'[u] = tok[u]
        /\ \A c \in Callers \ {UI} : op'[c] = op[c]
        /\ tok'[UI] <= generation
    BY <1>1, <1>a, <1>b DEF CancelSession, TypeOK
  <2>3. UIQuiet' => NoneLive
    BY <1>1, <1>a, <1>c, <1>d, <1>f, <1>g, <1>h DEF CancelSession, TypeOK, UIQuiet, Quiet, Starting
  <2>4. /\ pc'[UI] \in Starting => pc[UI] \in Starting /\ tok'[UI] = tok[UI]
        /\ pc'[UI] = "wait" => awaited'[UI] = ffb.session
        /\ pc'[UI] # "publish"
    BY <1>1, <1>a, <1>f, <1>g, <1>h DEF CancelSession, TypeOK, Quiet, Starting
  <2>5. ffb'.session = ffb.session /\ ffb'.done = ffb.done /\ game'.session = game.session
    BY <1>1 DEF CancelSession, TypeOK
  <2> QED
    BY <1>1, <2>1, <2>2, <2>3, <2>4, <2>5, UIFrame DEF CancelSession
<1>2. CASE WorkerEnded(UI)
  <2>1. \A u \in Threads \ {UI} : pc'[u] = pc[u] \/ (u \in Watchdogs /\ pc'[u] = "idle")
    BY <1>2, <1>a DEF WorkerEnded, TypeOK
  <2>2. /\ \A u \in Threads \ {UI} : tok'[u] = tok[u]
        /\ \A c \in Callers \ {UI} : op'[c] = op[c]
        /\ tok'[UI] <= generation
    BY <1>2, <1>a, <1>b DEF WorkerEnded, TypeOK
  <2>3. UIQuiet' => NoneLive
    BY <1>2, <1>a, <1>c, <1>d, <1>f, <1>e, <1>g, <1>j DEF WorkerEnded, TypeOK, UIQuiet, Quiet, Starting
  <2>4. /\ pc'[UI] \in Starting => pc[UI] \in Starting /\ tok'[UI] = tok[UI]
        /\ pc'[UI] = "wait" => awaited'[UI] = ffb.session
        /\ pc'[UI] # "publish"
    BY <1>2, <1>a, <1>f, <1>e, <1>g, <1>j DEF WorkerEnded, TypeOK, Quiet, Starting
  <2>5. ffb'.session = ffb.session /\ ffb'.done = ffb.done /\ game'.session = game.session
    BY <1>2 DEF WorkerEnded, TypeOK
  <2> QED
    BY <1>2, <2>1, <2>2, <2>3, <2>4, <2>5, UIFrame DEF WorkerEnded
<1>3. ASSUME NEW o \in Ops, Call(UI, o) PROVE Safe'
  <2>1. \A u \in Threads \ {UI} : pc'[u] = pc[u] \/ (u \in Watchdogs /\ pc'[u] = "idle")
    BY <1>3, <1>a, UILabels DEF Call, TypeOK
  <2>2. /\ \A u \in Threads \ {UI} : tok'[u] = tok[u]
        /\ \A c \in Callers \ {UI} : op'[c] = op[c]
        /\ tok'[UI] <= generation
    BY <1>3, <1>a, <1>b DEF Call, TypeOK
  <2>3. UIQuiet' => NoneLive
    BY <1>3, <1>a, <1>c, <1>d, <1>f, UILabels DEF Call, TypeOK, UIQuiet, Quiet, Starting
  <2>4. /\ pc'[UI] \in Starting => pc[UI] \in Starting /\ tok'[UI] = tok[UI]
        /\ pc'[UI] = "wait" => awaited'[UI] = ffb.session
        /\ pc'[UI] # "publish"
    BY <1>3, <1>a, <1>f, UILabels DEF Call, TypeOK, Quiet, Starting
  <2>5. ffb'.session = ffb.session /\ ffb'.done = ffb.done /\ game'.session = game.session
    BY <1>3 DEF Call, TypeOK
  <2> QED
    BY <1>3, <2>1, <2>2, <2>3, <2>4, <2>5, UIFrame DEF Call
<1> QED
  BY <1>1, <1>2, <1>3

\* The UI thread takes a lease: no worker lives, and the generation is fresh.
LEMMA UIAcquires == ASSUME TypeOK, Safe, Acquire(UI) PROVE Safe'
<1> DEFINE g == generation + 1
<1> USE Distinct DEF Goto, device, ownership, session, locals, Safe
<1>0. /\ UI \in Threads /\ generation \in Nat /\ generation < MaxGen /\ lease = 0 /\ g \in Gens
      /\ lease' = g /\ generation' = g /\ tok' = [tok EXCEPT ![UI] = g]
  <2>0. generation \in 0..MaxGen /\ generation < MaxGen /\ MaxGen \in Nat
    BY MotorAssumption DEF Acquire, TypeOK
  <2>1. generation \in Nat /\ g \in Gens
    BY <2>0 DEF Gens
  <2> QED
    BY <2>0, <2>1 DEF Acquire, Threads
<1>1. \A u \in Threads \ {UI} : pc'[u] = pc[u] /\ tok'[u] = tok[u]
  BY <1>0 DEF Acquire, TypeOK
<1>2. pc'[UI] \in {"mark", "write", "drop"}
  BY <1>0 DEF Acquire, TypeOK
<1>3. NoneLive
  BY <1>0 DEF LiveOwned, NoneLive, Gens
<1>4. NoneLive'
  BY <1>1, <1>3 DEF NoneLive, Live, LiveLabels
<1>5. Others' /\ OwnTokens'
  BY <1>1 DEF Others, OwnTokens, Acquire, Threads
<1>6. Issued'
  <2>1. \A c \in Callers \ {UI} : tok'[c] = tok[c] /\ tok[c] \in 0..MaxGen
    BY <1>1 DEF Threads, TypeOK
  <2>2. tok'[UI] = g
    BY <1>0 DEF TypeOK
  <2>3. game.session \in 0..MaxGen /\ game' = game
    BY DEF TypeOK, Acquire
  <2> QED
    BY <1>0, <2>1, <2>2, <2>3, MotorAssumption DEF Issued
<1>7. LiveOwned' /\ QuietNow' /\ Watched'
  BY <1>4 DEF LiveOwned, QuietNow, Watched, NoneLive
<1>8. Awaiting' /\ StartOwned'
  BY <1>0, <1>2 DEF Awaiting, StartOwned, Starting, TypeOK
<1>9. Fresh'
  <2> SUFFICES ASSUME NEW h \in Gens, h > g \/ h = g
               PROVE  pc'[Worker(h)] = "idle" /\ pc'[Watchdog(h)] = "idle"
    BY <1>0 DEF Fresh, TypeOK
  <2>1. h > generation
    BY <1>0 DEF Gens
  <2> QED
    BY <2>1, <1>1 DEF Fresh
<1> QED
  BY <1>5, <1>6, <1>7, <1>8, <1>9

\* The UI thread gives a lease back: no worker lives.
LEMMA UIReleases ==
  ASSUME TypeOK, Safe, DropLease(UI) \/ ReleaseLease(UI)
  PROVE  Safe'
<1> USE Distinct DEF Goto, device, ownership, session, locals, Safe
<1>0. UI \in Threads
  BY DEF Threads
<1>1. /\ \A u \in Threads \ {UI} : pc'[u] = pc[u]
      /\ UNCHANGED <<op, tok, awaited, game, generation, ffb>>
  BY DEF DropLease, ReleaseLease, TypeOK
<1>2. NoneLive
  BY DEF DropLease, ReleaseLease, QuietNow, UIQuiet, Quiet
<1>3. NoneLive'
  BY <1>1, <1>2 DEF NoneLive, Live, LiveLabels
<1>4. pc'[UI] \in {"announce", "error", "record"}
  BY <1>0, UILabels DEF DropLease, ReleaseLease, TypeOK
<1>5. lease' \in {lease, 0}
  BY DEF DropLease, ReleaseLease, Released
<1>6. Others' /\ OwnTokens'
  BY <1>1 DEF Others, OwnTokens, Threads
<1>7. Issued'
  BY <1>1, <1>5, MotorAssumption DEF Issued, TypeOK
<1>8. LiveOwned' /\ QuietNow' /\ Watched'
  BY <1>3 DEF LiveOwned, QuietNow, Watched, NoneLive
<1>9. Awaiting' /\ StartOwned'
  BY <1>4 DEF Awaiting, StartOwned, Starting
<1>10. Fresh'
  BY <1>1, <1>4 DEF Fresh, Starting
<1> QED
  BY <1>6, <1>7, <1>8, <1>9, <1>10

\* The UI thread hands its session over to nativeFFB.
LEMMA UIRegisters == ASSUME Typed, Safe, Register(UI) PROVE Safe'
<1> USE Distinct DEF Safe
<1>0. /\ UI \in Threads /\ pc[UI] \in Starting /\ pc[UI] \in Quiet
      /\ tok[UI] \in Gens /\ lease = tok[UI]
  <2>1. tok[UI] # 0 /\ tok[UI] \in 0..MaxGen
    BY DEF Register, Typed, TypeOK, TokenHeld, Held, Holding, Threads
  <2> QED
    BY <2>1, MotorAssumption DEF Register, Threads, Starting, Quiet, StartOwned, Gens
<1>1. NoneLive
  BY <1>0 DEF QuietNow, UIQuiet
<1>2. /\ lease' = lease /\ generation' = generation /\ UNCHANGED <<op, tok, awaited, game>>
      /\ ffb'.session = tok[UI] /\ ffb'.done
  BY DEF Register, ownership, locals
<1>3. \A u \in Threads \ {UI, Worker(tok[UI])} : pc'[u] = pc[u]
  BY <1>0 DEF Register, Typed, TypeOK
<1>4. \/ pc'[UI] = "ok" /\ pc'[Worker(tok[UI])] = "run"
      \/ pc'[UI] = "publish" /\ pc'[Worker(tok[UI])] = pc[Worker(tok[UI])]
  BY <1>0 DEF Register, Typed, TypeOK
<1>5. Others' /\ OwnTokens' /\ Issued'
  BY <1>0, <1>2, <1>3 DEF Others, OwnTokens, Issued, Threads
<1>6. \A g \in Gens : Live(g)' => g = tok[UI] /\ pc'[UI] = "ok"
  BY <1>0, <1>1, <1>3, <1>4 DEF Live, NoneLive
<1>7. LiveOwned' /\ QuietNow'
  BY <1>0, <1>2, <1>4, <1>6 DEF LiveOwned, QuietNow, NoneLive, UIQuiet, Quiet, Starting
<1>8. Awaiting' /\ StartOwned'
  BY <1>0, <1>2, <1>4 DEF Awaiting, StartOwned
<1>9. \A g \in Gens : pc'[Watchdog(g)] = pc[Watchdog(g)]
  BY <1>0, <1>3
<1>10. Fresh'
  <2> SUFFICES ASSUME NEW g \in Gens, g > generation \/ (pc'[UI] \in Starting /\ tok[UI] = g)
               PROVE  pc'[Worker(g)] = "idle" /\ pc'[Watchdog(g)] = "idle"
    BY <1>2 DEF Fresh
  <2>1. pc[Worker(g)] = "idle" /\ pc[Watchdog(g)] = "idle"
    BY <1>0 DEF Fresh
  <2>2. CASE g = tok[UI]
    <3>1. ~(g > generation)
      BY <2>2, <1>0, MotorAssumption DEF Issued, Typed, TypeOK, Gens
    <3> QED
      BY <2>1, <2>2, <3>1, <1>4, <1>9 DEF Starting
  <2>3. CASE g # tok[UI]
    BY <2>1, <2>3, <1>0, <1>3, <1>9
  <2> QED
    BY <2>2, <2>3
<1>11. Watched'
  BY <1>0, <1>6, <1>9 DEF Watched, Fresh
<1> QED
  BY <1>5, <1>7, <1>8, <1>10, <1>11

\* The UI thread starts the worker of a game.
LEMMA UIPublishes == ASSUME Typed, Safe, PublishGame(UI) PROVE Safe'
<1> USE Distinct DEF Safe
<1>0. /\ UI \in Threads /\ pc[UI] \in Starting /\ pc[UI] \in Quiet
      /\ tok[UI] \in Gens /\ lease = tok[UI] /\ ffb.session = tok[UI] /\ ffb.done
  <2>1. tok[UI] # 0 /\ tok[UI] \in 0..MaxGen
    BY DEF PublishGame, Typed, TypeOK, TokenHeld, Held, Holding, Threads
  <2> QED
    BY <2>1, MotorAssumption DEF PublishGame, Threads, Starting, Quiet, StartOwned, Gens
<1>1. NoneLive
  BY <1>0 DEF QuietNow, UIQuiet
<1>2. /\ UNCHANGED <<lease, generation, op, tok, awaited, ffb>>
      /\ game'.session = tok[UI]
  BY DEF PublishGame, ownership, locals
<1>3. /\ \A u \in Threads \ {UI, Worker(tok[UI])} : pc'[u] = pc[u]
      /\ pc'[UI] = "ok" /\ pc'[Worker(tok[UI])] = "run"
  BY <1>0 DEF PublishGame, Typed, TypeOK
<1>4. Others' /\ OwnTokens' /\ Issued'
  BY <1>0, <1>2, <1>3 DEF Others, OwnTokens, Issued, Threads
<1>5. \A g \in Gens : Live(g)' => g = tok[UI]
  BY <1>0, <1>1, <1>3 DEF Live, NoneLive
<1>6. LiveOwned' /\ QuietNow'
  BY <1>0, <1>2, <1>3, <1>5 DEF LiveOwned, QuietNow, UIQuiet, Quiet, Starting
<1>7. Awaiting' /\ StartOwned'
  BY <1>3 DEF Awaiting, StartOwned, Starting
<1>8. \A g \in Gens : pc'[Watchdog(g)] = pc[Watchdog(g)]
  BY <1>0, <1>3
<1>9. Fresh'
  <2> SUFFICES ASSUME NEW g \in Gens, g > generation
               PROVE  pc'[Worker(g)] = "idle" /\ pc'[Watchdog(g)] = "idle"
    BY <1>2, <1>3 DEF Fresh, Starting
  <2>1. pc[Worker(g)] = "idle" /\ pc[Watchdog(g)] = "idle"
    BY DEF Fresh
  <2>2. g # tok[UI]
    BY <1>0, MotorAssumption DEF Issued, Typed, TypeOK, Gens
  <2> QED
    BY <2>1, <2>2, <1>0, <1>3, <1>8
<1>10. Watched'
  BY <1>0, <1>5, <1>8 DEF Watched, Fresh
<1> QED
  BY <1>4, <1>6, <1>7, <1>9, <1>10

\* The UI thread arms the timer of an autocenter test.
LEMMA UIArms == ASSUME Typed, Safe, ArmWatchdog(UI) PROVE Safe'
<1> USE Distinct DEF Safe
<1>0. UI \in Threads /\ pc[UI] \in Quiet /\ tok[UI] \in Gens
  <2>1. tok[UI] # 0 /\ tok[UI] \in 0..MaxGen
    BY DEF ArmWatchdog, Typed, TypeOK, TokenHeld, Held, Holding, Threads
  <2> QED
    BY <2>1, MotorAssumption DEF ArmWatchdog, Threads, Quiet, Gens
<1>1. NoneLive
  BY <1>0 DEF QuietNow, UIQuiet
<1>2. UNCHANGED <<lease, generation, op, tok, awaited, ffb, game>>
  BY DEF ArmWatchdog, ownership, locals, session
<1>3. Unwatched \in [Threads -> Labels]
  BY UnwatchedLabels DEF Typed
<1>4. \A u \in Threads : Unwatched[u] = pc[u] \/ (u \in Watchdogs /\ Unwatched[u] = "idle")
  BY UnwatchedFrame DEF Typed
<1>5. /\ \A u \in Threads \ {UI, Watchdog(tok[UI])} :
           pc'[u] = pc[u] \/ (u \in Watchdogs /\ pc'[u] = "idle")
      /\ pc'[UI] = "ok"
  BY <1>0, <1>3, <1>4 DEF ArmWatchdog
<1>6. \A g \in Gens : pc'[Worker(g)] = pc[Worker(g)]
  <2>1. \A g \in Gens : Worker(g) \notin Watchdogs
    BY DEF Watchdogs
  <2> QED
    BY <2>1, <1>0, <1>5
<1>7. NoneLive'
  BY <1>1, <1>6 DEF NoneLive, Live, LiveLabels
<1>8. Others' /\ OwnTokens' /\ Issued'
  <2>1. Callers \cap Watchdogs = {}
    BY MotorAssumption
  <2>2. \A c \in Callers \ {UI} : pc'[c] = pc[c]
    BY <2>1, <1>0, <1>5 DEF Threads
  <2> QED
    BY <2>2, <1>2 DEF Others, OwnTokens, Issued
<1>9. LiveOwned' /\ QuietNow' /\ Watched'
  BY <1>7 DEF LiveOwned, QuietNow, Watched, NoneLive
<1>10. Awaiting' /\ StartOwned'
  BY <1>5 DEF Awaiting, StartOwned, Starting
<1>11. Fresh'
  <2> SUFFICES ASSUME NEW g \in Gens, g > generation
               PROVE  pc'[Worker(g)] = "idle" /\ pc'[Watchdog(g)] = "idle"
    BY <1>2, <1>5 DEF Fresh, Starting
  <2>1. pc[Worker(g)] = "idle" /\ pc[Watchdog(g)] = "idle"
    BY DEF Fresh
  <2>2. g # tok[UI]
    BY <1>0, MotorAssumption DEF Issued, Typed, TypeOK, Gens
  <2> QED
    BY <2>1, <2>2, <1>0, <1>5, <1>6
<1> QED
  BY <1>8, <1>9, <1>10, <1>11


-----------------------------------------------------------------------------

\* A new process has no live worker.
LEMMA BootSafe == (Init => Safe) /\ (TypeOK /\ Crash => Safe')
<1> USE Distinct DEF Boot, NoOp, OwnToken, NoFFB, NoGame, NoneAwaited
<1>1. ASSUME Init PROVE Safe
  <2> USE <1>1 DEF Init
  <2>1. \A t \in Threads : pc[t] \in {"recover", "idle"} /\ (t # UI => pc[t] = "idle")
    OBVIOUS
  <2>2. \A g \in Gens : pc[Worker(g)] = "idle" /\ pc[Watchdog(g)] = "idle"
    BY <2>1
  <2>3. NoneLive
    BY <2>2 DEF NoneLive, Live, LiveLabels
  <2>4. Others
    BY <2>1 DEF Others, OtherLabels, Threads
  <2>5. OwnTokens
    BY DEF OwnTokens, Worker, Watchdog
  <2>6. Issued
    BY DEF Issued, Threads
  <2>7. UI \in Threads /\ pc[UI] \in {"recover", "idle"}
    BY <2>1 DEF Threads
  <2> QED
    BY <2>2, <2>3, <2>4, <2>5, <2>6, <2>7 DEF Safe, LiveOwned, QuietNow, UIQuiet, Quiet,
       Starting, Awaiting, StartOwned, Fresh, Watched, NoneLive
<1>2. ASSUME TypeOK, Crash PROVE Safe'
  <2> USE <1>2 DEF Crash
  <2>1. \A t \in Threads : pc'[t] \in {"recover", "idle"} /\ (t # UI => pc'[t] = "idle")
    OBVIOUS
  <2>2. \A g \in Gens : pc'[Worker(g)] = "idle" /\ pc'[Watchdog(g)] = "idle"
    BY <2>1
  <2>3. NoneLive'
    BY <2>2 DEF NoneLive, Live, LiveLabels
  <2>4. Others'
    BY <2>1 DEF Others, OtherLabels, Threads
  <2>5. OwnTokens'
    BY DEF OwnTokens, Worker, Watchdog
  <2>6. Issued'
    BY DEF Issued, Threads
  <2>7. UI \in Threads /\ pc'[UI] \in {"recover", "idle"}
    BY <2>1 DEF Threads
  <2> QED
    BY <2>2, <2>3, <2>4, <2>5, <2>6, <2>7 DEF Safe, LiveOwned, QuietNow, UIQuiet, Quiet,
       Starting, Awaiting, StartOwned, Fresh, Watched, NoneLive
<1> QED
  BY <1>1, <1>2

\* A step that changes nothing keeps Safe.
LEMMA StutterSafe == Safe /\ UNCHANGED vars => Safe'
BY DEF vars, device, ownership, session, locals, Safe, Others, OwnTokens, Issued, LiveOwned,
   QuietNow, Awaiting, StartOwned, Fresh, Watched, UIQuiet, NoneLive, Live, LiveLabels

\* Safe holds in every reachable state.
LEMMA SafeInvariance == OneStarter => (Spec => []Safe)
<1> SUFFICES ASSUME OneStarter PROVE Spec => []Safe
  OBVIOUS
<1>1. Init => Safe
  BY BootSafe
<1>2. Typed /\ Safe /\ [Next]_vars => Safe'
  <2> SUFFICES ASSUME Typed, Safe, [Next]_vars PROVE Safe'
    OBVIOUS
  <2>0. TypeOK
    BY DEF Typed
  <2>1. CASE UNCHANGED vars
    BY <2>1, StutterSafe
  <2>2. ASSUME NEW c \in Callers \ {UI},
               CallerStep(c) \/ SafeStopStep(c) \/ \E o \in Ops : Call(c, o)
        PROVE  Safe'
    BY <2>0, <2>2, OtherStep
  <2>3. ASSUME CallerStep(UI) PROVE Safe'
    BY <2>0, <2>3, UIStops, UIStarts, UIWaits, UIAcquires, UIReleases, UIRegisters, UIPublishes,
       UIArms DEF CallerStep
  <2>4. ASSUME SafeStopStep(UI) PROVE Safe'
    BY <2>0, <2>4, UIStops, UIReleases DEF SafeStopStep
  <2>5. ASSUME NEW o \in Ops, Call(UI, o) PROVE Safe'
    BY <2>0, <2>5, UIWaits
  <2>6. ASSUME NEW t \in Workers \cup Watchdogs, SafeStopStep(t) PROVE Safe'
    BY <2>0, <2>6, SessionStop DEF Workers, Watchdogs
  <2>7. ASSUME NEW g \in Gens, WatchdogFires(g) \/ WorkerStep(g) PROVE Safe'
    BY <2>0, <2>7, WorkerSafe, WatchdogSafe
  <2>8. CASE Crash
    BY <2>0, <2>8, BootSafe
  <2> QED
    BY <2>1, <2>2, <2>3, <2>4, <2>5, <2>6, <2>7, <2>8 DEF Next, Threads
<1> QED
  BY <1>1, <1>2, Invariance, PTL DEF Spec

\* Only the holder of the lease writes to the wheel: not a worker whose stop timed
\* out, not one whose lease was given back, not a start that a timer overtakes
\* (stopNativeFFBSession, completeNativeMotorStop, nativeOutputSafeStopLease).
THEOREM OnlyTheHolderWrites == OneStarter => (Spec => []SingleWriter)
<1> SUFFICES ASSUME OneStarter PROVE Spec => []SingleWriter
  OBVIOUS
<1>1. Safe => SingleWriter
  <2> SUFFICES ASSUME Safe, NEW g \in Writing PROVE lease = g
    BY DEF SingleWriter
  <2>1. CASE g \in Gens /\ Live(g)
    BY <2>1 DEF Safe, LiveOwned
  <2>2. ASSUME NEW c \in Callers, pc[c] \in Starting, g = tok[c] PROVE lease = g
    <3>1. c = UI
      BY <2>2 DEF Safe, Others, OtherLabels, Starting
    <3> QED
      BY <2>2, <3>1 DEF Safe, StartOwned
  <2> QED
    BY <2>1, <2>2 DEF Writing, Live, LiveLabels, Starting
<1> QED
  BY <1>1, SafeInvariance, PTL

-----------------------------------------------------------------------------
(* What plays on the wheel, and the contract. *)


\* Nothing of this process plays; nothing plays at all.
Silent == force \notin Gens /\ spring \notin Gens
Off == force = 0 /\ spring = 0

\* The sessions that play an effect in the FFB slots.
Slots(g) == kind[g] \in {"slot", "game"}

Owned == /\ force \in Gens => lease = force /\ Slots(force)
         /\ spring \in Gens => lease = spring /\ kind[spring] = "spring"

\* The UI thread starts what it acquired the lease for, and gives back a lease only with
\* nothing of it playing.
UIHolds ==
  /\ pc[UI] \in Starting => kind[tok[UI]] = op[UI]
  /\ pc[UI] = "mark" => op[UI] \in {"slot", "spring", "game"}
  /\ pc[UI] \in {"register", "publish"} => op[UI] # "spring"
  /\ pc[UI] = "arm" \/ (pc[UI] = "announce" /\ op[UI] = "spring") => kind[tok[UI]] = "spring"
  /\ pc[UI] \in {"mark", "drop"} => Silent
  /\ pc[UI] \in {"unmark", "unlease"} => Off

\* So do a worker, which never plays the autocenter, and a timer, which plays nothing else.
Finishing == {"unmark", "unlease"}
SessionHolds(g) ==
  /\ pc[Worker(g)] \in Finishing => force # g
  /\ pc[Worker(g)] # "idle" => kind[g] # "spring"
  /\ pc[Watchdog(g)] \in Finishing => spring # g
  /\ pc[Watchdog(g)] # "idle" => kind[g] = "spring"

Hold == Owned /\ UIHolds /\ \A g \in Gens : SessionHolds(g)

\* The labels about which UIHolds says something.
Tight == Starting \cup Finishing \cup {"drop", "arm", "announce"}

\* The device plays less, or the same.
Reduced == force' \in {force, 0} /\ spring' \in {spring, 0}

-----------------------------------------------------------------------------
(* What a step leaves alone.                                               *)

\* Nothing is not a session.
LEMMA Numbers == 0 \notin Gens /\ Orphan \notin Gens /\ Gens \subseteq Nat
BY MotorAssumption DEF Gens

\* Silencing the device or leaving it as it is keeps Owned.
LEMMA OwnedKept ==
  ASSUME Owned, Reduced, lease' = lease, kind' = kind
  PROVE  Owned'
BY Numbers DEF Owned, Reduced, Slots

\* The UI thread stands still, and nothing begins to play before its eyes.
LEMMA UIHoldsKept ==
  ASSUME UIHolds, kind' = kind, pc'[UI] = pc[UI], op'[UI] = op[UI], tok'[UI] = tok[UI],
         Reduced \/ ~UIQuiet
  PROVE  UIHolds'
<1>1. Silent /\ Reduced => Silent'
  BY Numbers DEF Silent, Reduced
<1>2. Off /\ Reduced => Off'
  BY DEF Off, Reduced
<1>3. {"mark", "drop", "unmark", "unlease"} \subseteq Quiet
  BY DEF Quiet, Starting
<1> QED
  BY <1>1, <1>2, <1>3 DEF UIHolds, UIQuiet

\* The UI thread goes where UIHolds says nothing.
LEMMA UIHoldsFree ==
  ASSUME pc'[UI] \notin Tight \/ (pc'[UI] = "announce" /\ op'[UI] # "spring")
  PROVE  UIHolds'
BY DEF UIHolds, Tight, Finishing, Starting

\* A session whose worker stands still, and whose timer does so or is stopped.
LEMMA SessionKept ==
  ASSUME NEW g \in Gens, SessionHolds(g), kind'[g] = kind[g],
         pc'[Worker(g)] = pc[Worker(g)],
         pc'[Watchdog(g)] = pc[Watchdog(g)] \/ pc'[Watchdog(g)] = "idle",
         force' = force \/ force' # g, spring' = spring \/ spring' # g
  PROVE  SessionHolds(g)'
BY DEF SessionHolds, Finishing

\* What a step of another caller leaves alone.
LEMMA OtherShape ==
  ASSUME TypeOK, Safe, OneStarter, NEW c \in Callers \ {UI},
         CallerStep(c) \/ SafeStopStep(c) \/ \E o \in Ops : Call(c, o)
  PROVE  /\ UNCHANGED <<force, spring, marker, lease, generation, kind>>
         /\ \A u \in Threads \ {c} : pc'[u] = pc[u] /\ tok'[u] = tok[u] /\ err'[u] = err[u]
         /\ op'[UI] = op[UI]
<1> USE DEF Goto, device, ownership, session, locals
<1>1. pc[c] \in OtherLabels /\ op[c] \in {"none", "gamestop"}
  BY DEF Safe, Others
<1>2. UI \in Callers /\ UI # c
  BY Distinct
<1>3. CASE Return(c)
  BY <1>2, <1>3 DEF Return, TypeOK
<1>4. CASE CancelSession(c)
  BY <1>2, <1>4 DEF CancelSession, TypeOK
<1>5. CASE WorkerEnded(c)
  BY <1>2, <1>5 DEF WorkerEnded, TypeOK
<1>6. CASE WorkerTimeout(c)
  BY <1>2, <1>6 DEF WorkerTimeout, TypeOK
<1>7. CASE GameStopped(c)
  BY <1>2, <1>7 DEF GameStopped, TypeOK
<1>8. ASSUME NEW o \in Ops, Call(c, o)
      PROVE  /\ UNCHANGED <<force, spring, marker, lease, generation, kind>>
             /\ \A u \in Threads \ {c} : pc'[u] = pc[u] /\ tok'[u] = tok[u] /\ err'[u] = err[u]
             /\ op'[UI] = op[UI]
  BY <1>2, <1>8 DEF Call, TypeOK
<1>9. /\ ~Survey(c) /\ ~BestEffort(c) /\ ~Target(c) /\ ~Conclude(c) /\ ~Acquire(c)
      /\ ~AcquireRefused(c) /\ ~MarkActive(c) /\ ~FirstWrite(c) /\ ~DropLease(c)
      /\ ~Register(c) /\ ~PublishGame(c) /\ ~RecordOutput(c) /\ ~ArmWatchdog(c)
      /\ ~Recover(c) /\ ~Forget(c) /\ ~SafeStopStep(c)
  BY <1>1 DEF OtherLabels, Survey, BestEffort, Target, Conclude, Acquire, AcquireRefused,
     MarkActive, FirstWrite, DropLease, Register, PublishGame, RecordOutput, ArmWatchdog,
     Recover, Forget, SafeStopStep, WriteNeutral, ClearMarker, ReleaseLease, RecordStop
<1> QED
  BY <1>3, <1>4, <1>5, <1>6, <1>7, <1>8, <1>9 DEF CallerStep

\* The steps of the UI thread that touch neither wheel, marker, lease nor worker.
UIBookkeeping ==
  \/ Return(UI) \/ Survey(UI) \/ CancelSession(UI) \/ WorkerEnded(UI) \/ WorkerTimeout(UI)
  \/ Target(UI) \/ Conclude(UI) \/ AcquireRefused(UI) \/ RecordOutput(UI)
  \/ GameStopped(UI) \/ RecordStop(UI) \/ \E o \in Ops : Call(UI, o)

\* No step of the UI thread moves a worker, unless it starts one; the timer it stops is idle.
LEMMA UIAlone ==
  ASSUME TypeOK,
         \/ UIBookkeeping \/ BestEffort(UI) \/ Recover(UI) \/ WriteNeutral(UI) \/ MarkActive(UI)
         \/ ClearMarker(UI) \/ Forget(UI) \/ Acquire(UI) \/ DropLease(UI) \/ ReleaseLease(UI)
         \/ FirstWrite(UI)
  PROVE  \A g \in Gens : /\ pc'[Worker(g)] = pc[Worker(g)]
                         /\ pc'[Watchdog(g)] = pc[Watchdog(g)] \/ pc'[Watchdog(g)] = "idle"
<1> USE DEF Goto, TypeOK
<1>0. \A g \in Gens : /\ Worker(g) \in Threads /\ Worker(g) # UI /\ Worker(g) \notin Watchdogs
                      /\ Watchdog(g) \in Threads /\ Watchdog(g) # UI
  BY Distinct DEF Watchdogs
<1>1. ASSUME NEW l, pc' = [pc EXCEPT ![UI] = l]
      PROVE  \A g \in Gens : /\ pc'[Worker(g)] = pc[Worker(g)]
                             /\ pc'[Watchdog(g)] = pc[Watchdog(g)] \/ pc'[Watchdog(g)] = "idle"
  BY <1>0, <1>1
<1>2. ASSUME NEW l, pc' = [Unwatched EXCEPT ![UI] = l]
      PROVE  \A g \in Gens : /\ pc'[Worker(g)] = pc[Worker(g)]
                             /\ pc'[Watchdog(g)] = pc[Watchdog(g)] \/ pc'[Watchdog(g)] = "idle"
  <2>1. \A u \in Threads : Unwatched[u] = pc[u] \/ (u \in Watchdogs /\ Unwatched[u] = "idle")
    BY UnwatchedFrame
  <2>2. Unwatched \in [Threads -> Labels]
    BY UnwatchedLabels
  <2> QED
    BY <1>0, <1>2, <2>1, <2>2
<1>3. CASE RecordStop(UI) \/ Conclude(UI)
  <2>1. UI \notin Watchdogs
    BY MotorAssumption
  <2>2. \E l : pc' = [Unwatched EXCEPT ![UI] = l]
    BY <1>3, <2>1 DEF RecordStop, Conclude, Continue
  <2> QED
    BY <1>2, <2>2
<1>4. CASE ~(RecordStop(UI) \/ Conclude(UI))
  <2>1. \E l : pc' = [pc EXCEPT ![UI] = l]
    <3>1. CASE \/ Return(UI) \/ Survey(UI) \/ CancelSession(UI) \/ WorkerEnded(UI) \/ WorkerTimeout(UI)
               \/ Target(UI)
      BY <3>1 DEF Return, Survey, CancelSession, WorkerEnded, WorkerTimeout, Target, Continue
    <3>2. CASE \/ AcquireRefused(UI) \/ RecordOutput(UI) \/ GameStopped(UI) \/ \E o \in Ops : Call(UI, o)
      BY <3>2 DEF AcquireRefused, RecordOutput, GameStopped, Call
    <3>3. CASE \/ BestEffort(UI) \/ Recover(UI) \/ WriteNeutral(UI) \/ MarkActive(UI)
               \/ ClearMarker(UI) \/ Forget(UI)
      BY <3>3 DEF BestEffort, Recover, WriteNeutral, MarkActive, ClearMarker, Forget
    <3>4. CASE \/ Acquire(UI) \/ DropLease(UI) \/ ReleaseLease(UI) \/ FirstWrite(UI)
      BY <3>4 DEF Acquire, DropLease, ReleaseLease, FirstWrite
    <3> QED
      BY <1>4, <3>1, <3>2, <3>3, <3>4 DEF UIBookkeeping
  <2> QED
    BY <1>1, <2>1
<1> QED
  BY <1>3, <1>4

-----------------------------------------------------------------------------
(* An effect of this process plays only while its session has the lease.   *)

\* Where the operators of the model take the UI thread.
LEMMA LooseLabels ==
  ASSUME NEW o
  PROVE  /\ AfterStop(o) \notin Tight
         /\ Stopped(o) \notin Tight
         /\ Unstopped(o) \notin Tight
         /\ o \in Ops => FirstStep(o) \notin Tight
<1> USE DEF Tight, Starting, Finishing
<1>1. AfterStop(o) \notin Tight
  BY DEF AfterStop
<1>2. Stopped(o) \notin Tight
  BY DEF Stopped
<1>3. Unstopped(o) \notin Tight
  BY DEF Unstopped
<1>4. o \in Ops => FirstStep(o) \notin Tight
  BY DEF FirstStep, Ops
<1> QED
  BY <1>1, <1>2, <1>3, <1>4

\* A step of the UI thread that moves no worker, and none of what it says about them.
LEMMA UIMoves ==
  ASSUME Typed, Hold, Reduced, lease' = lease, kind' = kind, UIHolds',
         \A g \in Gens : /\ pc'[Worker(g)] = pc[Worker(g)]
                         /\ pc'[Watchdog(g)] = pc[Watchdog(g)] \/ pc'[Watchdog(g)] = "idle"
  PROVE  Hold'
<1>1. Owned'
  BY OwnedKept DEF Hold
<1>2. \A g \in Gens : (force' = force \/ force' # g) /\ (spring' = spring \/ spring' # g)
  BY Numbers DEF Reduced
<1>3. \A g \in Gens : SessionHolds(g)'
  BY <1>2, SessionKept DEF Hold
<1> QED
  BY <1>1, <1>3 DEF Hold

\* The bookkeeping of the UI thread ends nowhere but where UIHolds is free, on the way of a
\* stop that was neutral, or at the timer of an autocenter test.
LEMMA UIBookkeepingHolds ==
  ASSUME Typed, Hold, UIBookkeeping
  PROVE  Hold'
<1> USE DEF Goto, device, ownership, session, locals, Typed, TypeOK
<1>0. UI \in Threads /\ UI \in Callers /\ UI \notin Watchdogs
  BY MotorAssumption DEF Threads
<1>1. UNCHANGED <<force, spring, lease, kind>>
  BY DEF UIBookkeeping, Return, Survey, CancelSession, WorkerEnded, WorkerTimeout, Target, Conclude,
     AcquireRefused, RecordOutput, GameStopped, RecordStop, Call
<1>2. /\ AfterStop(op[UI]) \notin Tight
      /\ Stopped(op[UI]) \notin Tight
      /\ Unstopped(op[UI]) \notin Tight
  BY LooseLabels
<1>3. Unwatched \in [Threads -> Labels]
  BY UnwatchedLabels
<1>4. UIHolds'
  <2>1. CASE Return(UI)
    BY <2>1, <1>0, UIHoldsFree DEF Return, Tight, Starting, Finishing
  <2>2. CASE Survey(UI)
    <3>1. pc'[UI] \notin Tight
      BY <2>2, <1>0, <1>2 DEF Survey, Continue, Tight, Starting, Finishing
    <3> QED
      BY <3>1, UIHoldsFree
  <2>3. CASE CancelSession(UI)
    <3>1. pc'[UI] \notin Tight
      BY <2>3, <1>0, <1>2 DEF CancelSession, Tight, Starting, Finishing
    <3> QED
      BY <3>1, UIHoldsFree
  <2>4. CASE WorkerEnded(UI) \/ WorkerTimeout(UI)
    <3>1. pc'[UI] \notin Tight
      BY <2>4, <1>0, <1>2 DEF WorkerEnded, WorkerTimeout
    <3> QED
      BY <3>1, UIHoldsFree
  <2>5. CASE Target(UI)
    <3>1. pc'[UI] \in {"neutral", "conclude", "error"}
      BY <2>5, <1>0 DEF Target
    <3> QED
      BY <3>1, UIHoldsFree DEF Tight, Starting, Finishing
  <2>6. CASE Conclude(UI)
    <3>1. pc'[UI] = "ok"
      BY <2>6, <1>0, <1>3 DEF Conclude
    <3> QED
      BY <3>1, UIHoldsFree DEF Tight, Starting, Finishing
  <2>7. CASE AcquireRefused(UI)
    <3>1. pc'[UI] = "error" \/ (pc'[UI] = "announce" /\ op'[UI] # "spring")
      BY <2>7, <1>0 DEF AcquireRefused
    <3> QED
      BY <3>1, UIHoldsFree DEF Tight, Starting, Finishing
  <2>8. CASE RecordOutput(UI)
    <3>1. CASE op[UI] = "spring"
      <4>1. kind[tok[UI]] = "spring"
        BY <2>8, <3>1 DEF RecordOutput, Hold, UIHolds
      <4>2. pc'[UI] = "arm" /\ tok'[UI] = tok[UI] /\ kind' = kind
        BY <2>8, <3>1, <1>0 DEF RecordOutput
      <4> QED
        BY <4>1, <4>2 DEF UIHolds, Starting, Finishing
    <3>2. CASE op[UI] # "spring"
      <4>1. pc'[UI] \in {"error", "ok", "acquire"}
        BY <2>8, <3>2, <1>0 DEF RecordOutput
      <4> QED
        BY <4>1, UIHoldsFree DEF Tight, Starting, Finishing
    <3> QED
      BY <3>1, <3>2
  <2>9. CASE GameStopped(UI)
    <3>1. pc'[UI] \in {"error", "ok"}
      BY <2>9, <1>0 DEF GameStopped
    <3> QED
      BY <3>1, UIHoldsFree DEF Tight, Starting, Finishing
  <2>10. CASE RecordStop(UI)
    <3>1. CASE op[UI] = "springabort"
      <4>1. pc'[UI] = "announce" /\ op'[UI] # "spring"
        BY <2>10, <3>1, <1>0, <1>3 DEF RecordStop
      <4> QED
        BY <4>1, UIHoldsFree
    <3>2. CASE op[UI] # "springabort"
      <4>1. pc'[UI] \in {"error", "conclude", AfterStop(op[UI])}
        BY <2>10, <3>2, <1>0, <1>3 DEF RecordStop, Continue
      <4> QED
        BY <4>1, <1>2, UIHoldsFree DEF Tight, Starting, Finishing
    <3> QED
      BY <3>1, <3>2
  <2>11. ASSUME NEW o \in Ops, Call(UI, o) PROVE UIHolds'
    <3>1. pc'[UI] = FirstStep(o)
      BY <2>11, <1>0 DEF Call
    <3> QED
      BY <3>1, LooseLabels, UIHoldsFree
  <2> QED
    BY <2>1, <2>2, <2>3, <2>4, <2>5, <2>6, <2>7, <2>8, <2>9, <2>10, <2>11 DEF UIBookkeeping
<1>5. Reduced
  BY <1>1 DEF Reduced
<1> QED
  BY <1>1, <1>4, <1>5, UIAlone, UIMoves

\* The reports of a stop or a recovery, and the marker.
LEMMA UIStopHolds ==
  ASSUME Typed, Hold,
         \/ BestEffort(UI) \/ Recover(UI) \/ WriteNeutral(UI) \/ MarkActive(UI)
         \/ ClearMarker(UI) \/ Forget(UI)
  PROVE  Hold'
<1> USE DEF Goto, device, ownership, session, locals, Typed, TypeOK
<1>0. UI \in Threads /\ UI \in Callers /\ Settled(UI) = "record"
  BY UILabels, MotorAssumption DEF Threads
<1>1. lease' = lease /\ kind' = kind /\ tok' = tok /\ op' = op
  BY DEF BestEffort, Recover, WriteNeutral, MarkActive, ClearMarker, Forget
<1>2. Reduced
  <2>1. CASE BestEffort(UI) \/ Recover(UI) \/ WriteNeutral(UI)
    BY <2>1 DEF BestEffort, Recover, WriteNeutral, Neutralised, NeutralFails, Reduced
  <2>2. CASE MarkActive(UI) \/ ClearMarker(UI) \/ Forget(UI)
    BY <2>2 DEF MarkActive, ClearMarker, Forget, Reduced
  <2> QED
    BY <2>1, <2>2
<1>3. UIHolds'
  <2>1. CASE BestEffort(UI)
    <3>1. pc'[UI] = "error"
      BY <2>1, <1>0 DEF BestEffort
    <3> QED
      BY <3>1, UIHoldsFree DEF Tight, Starting, Finishing
  <2>2. CASE Recover(UI) \/ Forget(UI)
    <3>1. pc'[UI] \in {"ok", "error", "forget"}
      BY <2>2, <1>0 DEF Recover, Forget
    <3> QED
      BY <3>1, UIHoldsFree DEF Tight, Starting, Finishing
  <2>3. CASE WriteNeutral(UI)
    <3>1. \/ pc'[UI] \in Finishing /\ Off'
          \/ pc'[UI] = "record"
      BY <2>3, <1>0, UILabels DEF WriteNeutral, Neutralised, Off, Finishing
    <3> QED
      BY <3>1, UIHoldsFree DEF UIHolds, Tight, Starting, Finishing
  <2>4. CASE MarkActive(UI)
    <3>1. kind[tok[UI]] = op[UI] /\ Silent
      BY <2>4 DEF MarkActive, Hold, UIHolds, Starting
    <3>2. Silent'
      BY <3>1, <1>2, Numbers DEF Silent, Reduced
    <3>3. pc'[UI] \in {"write", "drop"}
      BY <2>4, <1>0 DEF MarkActive
    <3> QED
      BY <3>1, <3>2, <3>3, <1>1 DEF UIHolds, Starting
  <2>5. CASE ClearMarker(UI)
    <3>1. Off
      BY <2>5 DEF ClearMarker, Hold, UIHolds
    <3>2. Off'
      BY <3>1, <1>2 DEF Off, Reduced
    <3>3. pc'[UI] \in {"unlease", "record"}
      BY <2>5, <1>0 DEF ClearMarker
    <3> QED
      BY <3>2, <3>3 DEF UIHolds, Starting
  <2> QED
    BY <2>1, <2>2, <2>3, <2>4, <2>5
<1> QED
  BY <1>1, <1>2, <1>3, UIAlone, UIMoves

\* A lease is acquired while nothing of this process plays, and given back only then.
LEMMA UILeaseHolds ==
  ASSUME Typed, Safe, Hold, Acquire(UI) \/ DropLease(UI) \/ ReleaseLease(UI)
  PROVE  Hold'
<1> USE DEF Goto, device, ownership, session, locals, Typed, TypeOK
<1>0. UI \in Threads /\ UI \in Callers /\ Settled(UI) = "record"
  BY UILabels, MotorAssumption DEF Threads
<1>1. force' = force /\ spring' = spring
  BY DEF Acquire, DropLease, ReleaseLease
<1>2. Silent
  <2>1. CASE Acquire(UI)
    BY <2>1, Numbers DEF Acquire, Hold, Owned, Silent
  <2>2. CASE DropLease(UI) \/ ReleaseLease(UI)
    BY <2>2, Numbers DEF DropLease, ReleaseLease, Hold, UIHolds, Silent, Off
  <2> QED
    BY <2>1, <2>2
<1>3. Owned'
  BY <1>1, <1>2 DEF Owned, Silent
<1>4. UIHolds'
  <2>1. CASE Acquire(UI)
    <3>1. generation + 1 \in Gens
      BY <2>1, MotorAssumption DEF Acquire, Gens
    <3>2. tok'[UI] = generation + 1 /\ kind'[generation + 1] = KindOf(op[UI]) /\ op'[UI] = op[UI]
      BY <2>1, <1>0, <3>1 DEF Acquire
    <3>3. CASE op[UI] \in {"slot", "spring", "game"}
      <4>1. pc'[UI] = "mark"
        BY <2>1, <1>0, <3>3 DEF Acquire
      <4>2. KindOf(op[UI]) = op[UI]
        BY <3>3 DEF KindOf, Kinds
      <4> QED
        BY <1>1, <1>2, <3>2, <3>3, <4>1, <4>2 DEF UIHolds, Silent
    <3>4. CASE op[UI] = "leds"
      <4>1. pc'[UI] = "write"
        BY <2>1, <1>0, <3>4 DEF Acquire
      <4>2. KindOf(op[UI]) = op[UI]
        BY <3>4 DEF KindOf, Kinds
      <4> QED
        BY <3>2, <4>1, <4>2 DEF UIHolds
    <3>5. CASE op[UI] \notin {"slot", "spring", "game", "leds"}
      <4>1. pc'[UI] = "drop"
        BY <2>1, <1>0, <3>5 DEF Acquire
      <4> QED
        BY <1>1, <1>2, <4>1 DEF UIHolds, Silent, Starting
    <3> QED
      BY <3>3, <3>4, <3>5
  <2>2. CASE DropLease(UI)
    <3>1. pc'[UI] = "error" \/ (pc'[UI] = "announce" /\ op'[UI] # "spring")
      BY <2>2, <1>0 DEF DropLease
    <3> QED
      BY <3>1, UIHoldsFree DEF Tight, Starting, Finishing
  <2>3. CASE ReleaseLease(UI)
    <3>1. pc'[UI] = "record"
      BY <2>3, <1>0 DEF ReleaseLease
    <3> QED
      BY <3>1, UIHoldsFree DEF Tight, Starting, Finishing
  <2> QED
    BY <2>1, <2>2, <2>3
<1>5. ASSUME NEW g \in Gens PROVE SessionHolds(g)'
  <2>1. SessionHolds(g)
    BY DEF Hold
  <2>2. /\ pc'[Worker(g)] = pc[Worker(g)]
        /\ pc'[Watchdog(g)] = pc[Watchdog(g)] \/ pc'[Watchdog(g)] = "idle"
    BY UIAlone
  <2>3. CASE kind'[g] = kind[g]
    BY <1>1, <2>1, <2>2, <2>3, SessionKept
  <2>4. CASE kind'[g] # kind[g]
    <3>1. g = generation + 1
      BY <2>4 DEF Acquire, DropLease, ReleaseLease
    <3>2. g > generation
      BY <3>1, MotorAssumption
    <3>3. pc[Worker(g)] = "idle" /\ pc[Watchdog(g)] = "idle"
      BY <3>2 DEF Safe, Fresh
    <3> QED
      BY <2>2, <3>3 DEF SessionHolds, Finishing
  <2> QED
    BY <2>3, <2>4
<1> QED
  BY <1>3, <1>4, <1>5 DEF Hold

\* The first reports are those of the session that holds the lease, whose worker and timer
\* have not run yet.
LEMMA UIWriteHolds ==
  ASSUME Typed, Safe, Hold, FirstWrite(UI)
  PROVE  Hold'
<1> DEFINE g == tok[UI]
<1> USE DEF Goto, device, ownership, session, locals, Typed, TypeOK
<1>0. UI \in Threads /\ UI \in Callers /\ pc[UI] \in Starting /\ lease = g /\ g \in Gens
  <2>1. g # 0 /\ g \in 0..MaxGen
    BY MotorAssumption DEF FirstWrite, TokenHeld, Held, Holding, Threads
  <2> QED
    BY <2>1, MotorAssumption DEF FirstWrite, Threads, Starting, Safe, StartOwned, Gens
<1>1. kind[g] = op[UI]
  BY <1>0 DEF Hold, UIHolds
<1>2. lease' = lease /\ kind' = kind /\ tok' = tok
  BY DEF FirstWrite
<1>3. /\ force' = force \/ (force' = g /\ op[UI] \in {"slot", "game"})
      /\ spring' = spring \/ (spring' = g /\ op[UI] = "spring")
  BY DEF FirstWrite
<1>4. Owned'
  <2>1. force' \in Gens => lease' = force' /\ kind'[force'] \in {"slot", "game"}
    BY <1>0, <1>1, <1>2, <1>3 DEF Hold, Owned, Slots
  <2>2. spring' \in Gens => lease' = spring' /\ kind'[spring'] = "spring"
    BY <1>0, <1>1, <1>2, <1>3 DEF Hold, Owned
  <2> QED
    BY <2>1, <2>2 DEF Owned, Slots
<1>5. UIHolds'
  <2>1. CASE /\ pc'[UI] = IF op[UI] = "spring" THEN "announce" ELSE "register"
             /\ op' = op
    BY <2>1, <1>0, <1>1, <1>2 DEF UIHolds, Starting, Finishing
  <2>2. CASE pc'[UI] = "neutral"
    BY <2>2, UIHoldsFree DEF Tight, Starting, Finishing
  <2>3. CASE pc'[UI] = "drop" /\ ~Motor(g)
    <3>1. op[UI] \notin {"slot", "spring", "game"}
      BY <2>3, <1>1 DEF Motor
    <3>2. Silent
      BY <1>0, <1>1, <3>1 DEF Hold, Owned, Slots, Silent
    <3>3. Silent'
      BY <1>3, <3>1, <3>2 DEF Silent
    <3> QED
      BY <2>3, <3>3 DEF UIHolds, Starting, Finishing
  <2>4. \/ /\ pc'[UI] = IF op[UI] = "spring" THEN "announce" ELSE "register"
           /\ op' = op
        \/ pc'[UI] = "neutral"
        \/ pc'[UI] = "drop" /\ ~Motor(g)
    BY <1>0 DEF FirstWrite
  <2> QED
    BY <2>1, <2>2, <2>3, <2>4
<1>6. ASSUME NEW h \in Gens PROVE SessionHolds(h)'
  <2>1. SessionHolds(h)
    BY DEF Hold
  <2>2. /\ pc'[Worker(h)] = pc[Worker(h)]
        /\ pc'[Watchdog(h)] = pc[Watchdog(h)] \/ pc'[Watchdog(h)] = "idle"
    BY UIAlone
  <2>3. CASE h = g
    <3>1. pc[Worker(h)] = "idle" /\ pc[Watchdog(h)] = "idle"
      BY <1>0, <2>3 DEF Safe, Fresh
    <3> QED
      BY <2>2, <3>1 DEF SessionHolds, Finishing
  <2>4. CASE h # g
    <3>1. (force' = force \/ force' # h) /\ (spring' = spring \/ spring' # h)
      BY <1>3, <2>4
    <3> QED
      BY <1>2, <2>1, <2>2, <3>1, SessionKept
  <2> QED
    BY <2>3, <2>4
<1> QED
  BY <1>4, <1>5, <1>6 DEF Hold

\* A session is handed to its worker or to its timer.
LEMMA UIHandsOver ==
  ASSUME Typed, Safe, Hold, Register(UI) \/ PublishGame(UI) \/ ArmWatchdog(UI)
  PROVE  Hold'
<1> DEFINE g == tok[UI]
<1> USE DEF Goto, device, ownership, session, locals, Typed, TypeOK
<1>0. /\ UI \in Threads /\ UI \in Callers /\ g \in Gens
      /\ Worker(g) \in Threads /\ Watchdog(g) \in Threads /\ UI # Worker(g) /\ UI # Watchdog(g)
  <2>1. g # 0 /\ g \in 0..MaxGen
    BY MotorAssumption DEF Register, PublishGame, ArmWatchdog, TokenHeld, Held, Holding, Threads
  <2> QED
    BY <2>1, MotorAssumption, Distinct DEF Threads, Gens
<1>1. UNCHANGED <<force, spring, lease, kind, op, tok>>
  BY DEF Register, PublishGame, ArmWatchdog
<1>2. Owned' /\ Reduced
  <2>1. Reduced
    BY <1>1 DEF Reduced
  <2> QED
    BY <1>1, <2>1, OwnedKept DEF Hold
<1>3. pc'[UI] = "ok" \/ (pc[UI] = "register" /\ pc'[UI] = "publish")
  BY <1>0, UnwatchedLabels DEF Register, PublishGame, ArmWatchdog
<1>4. UIHolds'
  <2>1. CASE pc'[UI] = "ok"
    BY <2>1, UIHoldsFree DEF Tight, Starting, Finishing
  <2>2. CASE pc[UI] = "register" /\ pc'[UI] = "publish"
    BY <2>2, <1>1 DEF Hold, UIHolds, Starting, Finishing
  <2> QED
    BY <1>3, <2>1, <2>2
<1>5. ASSUME NEW h \in Gens PROVE SessionHolds(h)'
  <2>1. SessionHolds(h) /\ Worker(h) \in Threads /\ Watchdog(h) \in Threads
        /\ Worker(h) # UI /\ Watchdog(h) # UI /\ Worker(h) # Watchdog(g) /\ Watchdog(h) # Worker(g)
        /\ (h # g => Worker(h) # Worker(g) /\ Watchdog(h) # Watchdog(g))
    BY <1>0, Distinct DEF Hold
  <2>2. CASE Register(UI) \/ PublishGame(UI)
    <3>1. /\ pc'[Watchdog(h)] = pc[Watchdog(h)]
          /\ pc'[Worker(h)] = pc[Worker(h)] \/ (h = g /\ pc'[Worker(h)] = "run")
      BY <2>1, <2>2, <1>0 DEF Register, PublishGame
    <3>2. kind[g] # "spring"
      BY <2>2 DEF Hold, UIHolds, Register, PublishGame, Starting
    <3> QED
      BY <1>1, <2>1, <3>1, <3>2 DEF SessionHolds, Finishing
  <2>3. CASE ArmWatchdog(UI)
    <3>1. \A u \in Threads : Unwatched[u] = pc[u] \/ (u \in Watchdogs /\ Unwatched[u] = "idle")
      BY UnwatchedFrame
    <3>2. Worker(h) \notin Watchdogs
      BY <2>1, Distinct DEF Watchdogs
    <3>3. Unwatched \in [Threads -> Labels]
      BY UnwatchedLabels
    <3>4. /\ pc'[Worker(h)] = pc[Worker(h)]
          /\ \/ pc'[Watchdog(h)] = pc[Watchdog(h)] \/ pc'[Watchdog(h)] = "idle"
             \/ h = g /\ pc'[Watchdog(h)] = "armed"
      BY <2>1, <2>3, <3>1, <3>2, <3>3, <1>0 DEF ArmWatchdog
    <3>5. kind[g] = "spring"
      BY <2>3 DEF Hold, UIHolds, ArmWatchdog
    <3> QED
      BY <1>1, <2>1, <3>4, <3>5 DEF SessionHolds, Finishing
  <2> QED
    BY <2>2, <2>3
<1> QED
  BY <1>2, <1>4, <1>5 DEF Hold

\* A step of a worker or a timer that leaves the lease alone and the device silent, or not
\* silent of another session.
LEMMA SessionMoves ==
  ASSUME Typed, Safe, Hold, NEW g \in Gens, Owned', kind' = kind, op' = op, tok' = tok,
         SessionHolds(g)', Reduced \/ (force' = g /\ spring' = spring /\ ~UIQuiet),
         \A u \in Threads \ {Worker(g), Watchdog(g)} :
            pc'[u] = pc[u] \/ (u \in Watchdogs /\ pc'[u] = "idle")
  PROVE  Hold'
<1>1. UI \in Threads /\ UI # Worker(g) /\ UI # Watchdog(g) /\ UI \notin Watchdogs
  BY Distinct, MotorAssumption DEF Threads
<1>2. UIHolds'
  BY <1>1, UIHoldsKept DEF Hold
<1>3. ASSUME NEW h \in Gens, h # g PROVE SessionHolds(h)'
  <2>1. /\ Worker(h) \in Threads \ {Worker(g), Watchdog(g)} /\ Worker(h) \notin Watchdogs
        /\ Watchdog(h) \in Threads \ {Worker(g), Watchdog(g)}
    BY <1>3, Distinct DEF Watchdogs
  <2>2. /\ pc'[Worker(h)] = pc[Worker(h)]
        /\ pc'[Watchdog(h)] = pc[Watchdog(h)] \/ pc'[Watchdog(h)] = "idle"
    BY <2>1
  <2>3. (force' = force \/ force' # h) /\ (spring' = spring \/ spring' # h)
    BY <1>3, Numbers DEF Reduced
  <2> QED
    BY <2>2, <2>3, SessionKept DEF Hold
<1> QED
  BY <1>2, <1>3 DEF Hold

\* The safe stop of a worker or a timer gives back the lease of a session that plays nothing.
LEMMA SessionStopHolds ==
  ASSUME Typed, Safe, Hold, NEW g \in Gens, NEW w \in {Worker(g), Watchdog(g)}, SafeStopStep(w)
  PROVE  Hold'
<1> USE DEF Goto, device, ownership, session, locals, Typed, TypeOK
<1>1. w \in Threads \ Callers /\ tok[w] = g /\ Worker(g) # Watchdog(g)
      /\ Worker(g) \in Threads /\ Watchdog(g) \in Threads
  BY Distinct DEF Safe, OwnTokens
<1>2. SessionHolds(g) /\ Owned
  BY DEF Hold
<1>3. pc[w] \in {"neutral", "unmark", "unlease", "record"}
  BY DEF SafeStopStep, WriteNeutral, ClearMarker, ReleaseLease, RecordStop
<1>4. Settled(w) \notin Finishing
  BY NotRevived DEF LiveLabels, Finishing
<1>5. UNCHANGED <<kind, tok, op>>
  BY <1>1 DEF SafeStopStep, WriteNeutral, ClearMarker, ReleaseLease, RecordStop
<1>6. CASE WriteNeutral(w)
  <2>1. Reduced /\ lease' = lease
    BY <1>6 DEF WriteNeutral, Neutralised, NeutralFails, Reduced
  <2>2. /\ \A u \in Threads \ {w} : pc'[u] = pc[u]
        /\ pc'[w] \in Finishing => force' = 0 /\ spring' = 0
    BY <1>6, <1>1, <1>4 DEF WriteNeutral, Neutralised
  <2>3. SessionHolds(g)'
    BY <2>1, <2>2, <1>1, <1>2, <1>3, <1>5, Numbers DEF SessionHolds, Reduced, Finishing
  <2> QED
    BY <2>1, <2>2, <2>3, <1>5, OwnedKept, SessionMoves DEF Hold
<1>7. CASE ClearMarker(w)
  <2>1. Reduced /\ UNCHANGED <<lease, force, spring>>
    BY <1>7 DEF ClearMarker, Reduced
  <2>2. /\ \A u \in Threads \ {w} : pc'[u] = pc[u]
        /\ pc[w] \in Finishing
    BY <1>7 DEF ClearMarker, Finishing
  <2>3. SessionHolds(g)'
    BY <2>1, <2>2, <1>1, <1>2, <1>3, <1>5 DEF SessionHolds, Finishing
  <2> QED
    BY <2>1, <2>2, <2>3, <1>5, OwnedKept, SessionMoves DEF Hold
<1>8. CASE ReleaseLease(w)
  <2>1. Reduced /\ UNCHANGED <<force, spring>> /\ (lease' = lease \/ (lease = g /\ lease' = 0))
    BY <1>8, <1>1 DEF ReleaseLease, Released, Reduced
  <2>2. /\ \A u \in Threads \ {w} : pc'[u] = pc[u]
        /\ pc[w] \in Finishing /\ pc'[w] \notin Finishing
    BY <1>8, <1>1, <1>4 DEF ReleaseLease, Finishing
  <2>3. SessionHolds(g)'
    BY <2>1, <2>2, <1>1, <1>2, <1>3, <1>5 DEF SessionHolds, Finishing
  <2>4. lease = g => Silent
    <3>1. lease = g /\ force \in Gens => force = g /\ Slots(g)
      BY <1>2 DEF Owned
    <3>2. lease = g /\ spring \in Gens => spring = g /\ kind[g] = "spring"
      BY <1>2 DEF Owned
    <3>3. CASE w = Worker(g)
      BY <3>1, <3>2, <3>3, <1>2, <1>3, <2>2 DEF SessionHolds, Silent, Slots
    <3>4. CASE w = Watchdog(g)
      BY <3>1, <3>2, <3>4, <1>2, <1>3, <2>2 DEF SessionHolds, Silent, Slots
    <3> QED
      BY <3>3, <3>4
  <2>5. Owned'
    BY <2>1, <2>4, <1>2, <1>5 DEF Owned, Silent, Slots
  <2> QED
    BY <2>1, <2>2, <2>3, <2>5, <1>5, SessionMoves
<1>9. CASE RecordStop(w)
  <2>1. pc' = [Unwatched EXCEPT ![w] = "idle"] /\ w \in Watchdogs
    BY <1>9, <1>1 DEF RecordStop
  <2>2. \A u \in Threads : Unwatched[u] = pc[u] \/ (u \in Watchdogs /\ Unwatched[u] = "idle")
    BY UnwatchedFrame
  <2>3. Unwatched \in [Threads -> Labels]
    BY UnwatchedLabels
  <2>4. \A u \in Threads : pc'[u] = pc[u] \/ (u \in Watchdogs /\ pc'[u] = "idle")
    BY <2>1, <2>2, <2>3
  <2>5. Reduced /\ UNCHANGED <<lease, force, spring>>
    BY <1>9 DEF RecordStop, Reduced
  <2>6. Worker(g) \notin Watchdogs
    BY Distinct DEF Watchdogs
  <2>7. SessionHolds(g)'
    BY <2>4, <2>5, <2>6, <1>1, <1>2, <1>5, SessionKept
  <2> QED
    BY <2>4, <2>5, <2>7, <1>5, OwnedKept, SessionMoves DEF Hold
<1> QED
  BY <1>6, <1>7, <1>8, <1>9 DEF SafeStopStep

\* A worker plays only while it has the lease, and plays nothing once it finishes.
LEMMA WorkerHolds ==
  ASSUME Typed, Safe, Hold, NEW g \in Gens, WatchdogFires(g) \/ WorkerStep(g)
  PROVE  Hold'
<1> USE DEF Goto, device, ownership, session, locals, Typed, TypeOK
<1>1. /\ Worker(g) \in Threads /\ Watchdog(g) \in Threads /\ Worker(g) # Watchdog(g)
      /\ tok[Worker(g)] = g /\ Settled(Worker(g)) \notin Finishing
  BY Distinct, NotRevived DEF Safe, OwnTokens, LiveLabels, Finishing
<1>2. SessionHolds(g) /\ Owned
  BY DEF Hold
<1>3. UNCHANGED <<kind, tok, op, lease, spring>>
  BY DEF WatchdogFires, WorkerStep, Tick, LeaveLoop, Halt, Hang, ReportGame, Report, Exit
<1>4. \A u \in Threads \ {Worker(g), Watchdog(g)} : pc'[u] = pc[u]
  BY <1>1 DEF WatchdogFires, WorkerStep, Tick, LeaveLoop, Halt, Hang, ReportGame, Report, Exit
<1>5. CASE Tick(g)
  <2>1. force' = g /\ pc' = pc /\ pc[Worker(g)] = "run" /\ Motor(g)
    BY <1>5 DEF Tick
  <2>2. Live(g)
    BY <2>1 DEF Live, LiveLabels
  <2>3. lease = g /\ ~UIQuiet
    BY <2>2 DEF Safe, LiveOwned, QuietNow, NoneLive
  <2>4. Slots(g)
    BY <2>1, <1>2 DEF SessionHolds, Motor, Slots
  <2>5. Owned'
    BY <2>1, <2>3, <2>4, <1>2, <1>3 DEF Owned, Slots
  <2>6. SessionHolds(g)'
    BY <2>1, <1>2, <1>3 DEF SessionHolds, Finishing
  <2> QED
    BY <2>1, <2>3, <2>5, <2>6, <1>3, <1>4, SessionMoves
<1>6. CASE Halt(g)
  <2>1. Reduced /\ (Motor(g) /\ pc'[Worker(g)] \in Finishing => force' = 0)
    BY <1>6, <1>1, <1>3 DEF Halt, Reduced
  <2>2. /\ pc[Worker(g)] # "idle" /\ pc'[Watchdog(g)] = pc[Watchdog(g)]
    BY <1>6, <1>1 DEF Halt
  <2>3. ~Motor(g) => force # g
    BY <1>2 DEF Owned, Slots, Motor
  <2>4. pc'[Worker(g)] \in Finishing => force' # g
    BY <2>1, <2>3, Numbers DEF Reduced
  <2>5. SessionHolds(g)'
    BY <2>2, <2>4, <1>2, <1>3 DEF SessionHolds
  <2> QED
    BY <2>1, <2>5, <1>3, <1>4, OwnedKept, SessionMoves DEF Hold
<1>7. CASE \/ LeaveLoop(g) \/ Hang(g) \/ ReportGame(g) \/ Report(g) \/ Exit(g)
  <2>1. /\ pc[Worker(g)] # "idle" /\ pc'[Worker(g)] \notin Finishing
        /\ pc'[Watchdog(g)] = pc[Watchdog(g)]
    BY <1>7, <1>1 DEF LeaveLoop, Hang, ReportGame, Report, Exit, Finishing
  <2>2. Reduced /\ force' = force
    BY <1>3, <1>7 DEF Reduced, LeaveLoop, Hang, ReportGame, Report, Exit
  <2>3. SessionHolds(g)'
    BY <2>1, <2>2, <1>2, <1>3 DEF SessionHolds
  <2> QED
    BY <2>2, <2>3, <1>3, <1>4, OwnedKept, SessionMoves DEF Hold
<1>8. CASE WatchdogFires(g)
  <2>1. /\ pc[Watchdog(g)] # "idle" /\ pc'[Watchdog(g)] \notin Finishing
        /\ pc'[Worker(g)] = pc[Worker(g)]
    BY <1>8, <1>1 DEF WatchdogFires, Finishing
  <2>2. Reduced /\ force' = force
    BY <1>3, <1>8 DEF Reduced, WatchdogFires
  <2>3. SessionHolds(g)'
    BY <2>1, <2>2, <1>2, <1>3 DEF SessionHolds
  <2> QED
    BY <2>2, <2>3, <1>3, <1>4, OwnedKept, SessionMoves DEF Hold
<1> QED
  BY <1>5, <1>6, <1>7, <1>8 DEF WorkerStep

\* A new process plays nothing of its own.
LEMMA BootHolds == (Init => Hold) /\ (Typed /\ Crash => Hold')
<1> USE Distinct, Numbers DEF Boot
<1>1. ASSUME Init PROVE Hold
  <2>1. \A t \in Threads : pc[t] \in {"recover", "idle"} /\ (t # UI => pc[t] = "idle")
    BY <1>1 DEF Init
  <2>2. UI \in Threads /\ \A g \in Gens : /\ Worker(g) \in Threads \ {UI}
                                          /\ Watchdog(g) \in Threads \ {UI}
    BY DEF Threads
  <2>3. Owned
    BY <1>1 DEF Init, Owned
  <2> QED
    BY <2>1, <2>2, <2>3 DEF Hold, UIHolds, SessionHolds, Starting, Finishing
<1>2. ASSUME Typed, Crash PROVE Hold'
  <2>1. \A t \in Threads : pc'[t] \in {"recover", "idle"} /\ (t # UI => pc'[t] = "idle")
    BY <1>2 DEF Crash
  <2>2. UI \in Threads /\ \A g \in Gens : /\ Worker(g) \in Threads \ {UI}
                                          /\ Watchdog(g) \in Threads \ {UI}
    BY DEF Threads
  <2>3. Owned'
    BY <1>2 DEF Crash, Owned
  <2> QED
    BY <2>1, <2>2, <2>3 DEF Hold, UIHolds, SessionHolds, Starting, Finishing
<1> QED
  BY <1>1, <1>2

\* A step of another caller does not disturb it.
LEMMA OtherHolds ==
  ASSUME Typed, Safe, Hold, OneStarter, NEW c \in Callers \ {UI},
         CallerStep(c) \/ SafeStopStep(c) \/ \E o \in Ops : Call(c, o)
  PROVE  Hold'
<1>1. TypeOK
  BY DEF Typed
<1>2. /\ UNCHANGED <<force, spring, marker, lease, generation, kind>>
      /\ \A u \in Threads \ {c} : pc'[u] = pc[u] /\ tok'[u] = tok[u] /\ err'[u] = err[u]
      /\ op'[UI] = op[UI]
  BY <1>1, OtherShape
<1>3. /\ UI \in Threads \ {c}
      /\ \A g \in Gens : Worker(g) \in Threads \ {c} /\ Watchdog(g) \in Threads \ {c}
  BY Distinct DEF Threads
<1>4. Reduced
  BY <1>2 DEF Reduced
<1>5. UIHolds'
  BY <1>2, <1>3, <1>4, UIHoldsKept DEF Hold
<1>6. \A g \in Gens : pc'[Worker(g)] = pc[Worker(g)] /\ pc'[Watchdog(g)] = pc[Watchdog(g)]
  BY <1>2, <1>3
<1> QED
  BY <1>1, <1>2, <1>4, <1>5, <1>6, UIMoves

\* Hold holds in every reachable state.
LEMMA HoldInvariance == OneStarter => (Spec => []Hold)
<1> SUFFICES ASSUME OneStarter PROVE Spec => []Hold
  OBVIOUS
<1>1. Init => Hold
  BY BootHolds
<1>2. Typed /\ Safe /\ Hold /\ [Next]_vars => Hold'
  <2> SUFFICES ASSUME Typed, Safe, Hold, [Next]_vars PROVE Hold'
    OBVIOUS
  <2>1. CASE UNCHANGED vars
    BY <2>1 DEF vars, device, ownership, session, locals, Hold, Owned, UIHolds, SessionHolds,
       Silent, Off, Slots
  <2>2. ASSUME NEW c \in Callers \ {UI},
               CallerStep(c) \/ SafeStopStep(c) \/ \E o \in Ops : Call(c, o)
        PROVE  Hold'
    BY <2>2, OtherHolds
  <2>3. ASSUME CallerStep(UI) \/ SafeStopStep(UI) \/ \E o \in Ops : Call(UI, o) PROVE Hold'
    BY <2>3, UIBookkeepingHolds, UIStopHolds, UILeaseHolds, UIWriteHolds, UIHandsOver
       DEF CallerStep, SafeStopStep, UIBookkeeping
  <2>4. ASSUME NEW t \in Workers \cup Watchdogs, SafeStopStep(t) PROVE Hold'
    BY <2>4, SessionStopHolds DEF Workers, Watchdogs
  <2>5. ASSUME NEW g \in Gens, WatchdogFires(g) \/ WorkerStep(g) PROVE Hold'
    BY <2>5, WorkerHolds
  <2>6. CASE Crash
    BY <2>6, BootHolds
  <2> QED
    BY <2>1, <2>2, <2>3, <2>4, <2>5, <2>6 DEF Next, Threads
<1> QED
  BY <1>1, <1>2, Invariance, SafeInvariance, PTL DEF Spec

\* The wheel never plays an effect of this process whose session lost the lease: not after
\* a release that overtook a worker, a timer that fired late, or a failed start
\* (completeNativeMotorStop, releaseNativeOutputLease, the starts of each kind of output).
THEOREM ForceIsOwned == OneStarter => (Spec => []ForceOwned)
<1> SUFFICES ASSUME OneStarter PROVE Spec => []ForceOwned
  OBVIOUS
<1>1. Hold => ForceOwned
  BY DEF Hold, Owned, ForceOwned
<1> QED
  BY <1>1, HoldInvariance, PTL

-----------------------------------------------------------------------------
(* A stop that reports success has left nothing of this process.           *)

\* What the UI thread knows of the lease on its way through a stop.
UIDone ==
  /\ pc[UI] \in {"recover", "forget"} => op[UI] = "recover"
  /\ pc[UI] = "gamestopped" => op[UI] \notin {"emergency", "release"}
  /\ pc[UI] = "arm" => op[UI] = "spring"
  /\ pc[UI] \in {"neutral", "unmark", "unlease"} => lease \in {0, tok[UI]}
  /\ pc[UI] = "record" /\ ~err[UI] => lease = 0
  /\ pc[UI] = "conclude" => lease = 0 /\ op[UI] = "release"
  /\ pc[UI] = "ok" /\ op[UI] \in {"emergency", "release"} => lease = 0

\* While the UI thread stands still, a lease can only be given back.
LEMMA UIDoneKept ==
  ASSUME UIDone, pc'[UI] = pc[UI], op'[UI] = op[UI], tok'[UI] = tok[UI], err'[UI] = err[UI],
         lease' \in {lease, 0}
  PROVE  UIDone'
BY DEF UIDone

\* Where a stop sends the UI thread next.
LEMMA StopLabels ==
  ASSUME NEW o
  PROVE  /\ AfterStop(o) \in {"acquire", "stop", "ok"}
         /\ o = "lifecycle" => AfterStop(o) = "stop"
         /\ Stopped(o) \in {"target", "acquire", "gamestopped"}
         /\ Unstopped(o) \in {"besteffort", "error", "gamestopped"}
         /\ o \in {"emergency", "release"} =>
              Stopped(o) # "gamestopped" /\ Unstopped(o) # "gamestopped"
<1>1. AfterStop(o) \in {"acquire", "stop", "ok"} /\ (o = "lifecycle" => AfterStop(o) = "stop")
  BY DEF AfterStop
<1>2. /\ Stopped(o) \in {"target", "acquire", "gamestopped"}
      /\ Unstopped(o) \in {"besteffort", "error", "gamestopped"}
      /\ o \in {"emergency", "release"} =>
           Stopped(o) # "gamestopped" /\ Unstopped(o) # "gamestopped"
  BY DEF Stopped, Unstopped, Stops
<1> QED
  BY <1>1, <1>2

\* The bookkeeping of the UI thread.
LEMMA UIBookkeepingDone ==
  ASSUME Typed, Safe, UIDone, UIBookkeeping
  PROVE  UIDone'
<1> USE DEF Goto, device, ownership, session, locals, Typed, TypeOK
<1>0. UI \in Threads /\ UI \in Callers /\ UI \notin Watchdogs
  BY MotorAssumption DEF Threads
<1>1. lease' = lease
  BY DEF UIBookkeeping, Return, Survey, CancelSession, WorkerEnded, WorkerTimeout, Target, Conclude,
     AcquireRefused, RecordOutput, GameStopped, RecordStop, Call
<1>2. Unwatched \in [Threads -> Labels]
  BY UnwatchedLabels
<1>3. CASE Return(UI)
  <2>1. pc'[UI] = "idle"
    BY <1>3, <1>0 DEF Return
  <2> QED
    BY <2>1 DEF UIDone
<1>4. CASE Survey(UI)
  <2>1. CASE NothingToStop
    <3>1. lease = 0
      BY <2>1 DEF NothingToStop, NothingRunning
    <3>2. pc'[UI] = AfterStop(op[UI])
      BY <1>4, <2>1, <1>0 DEF Survey, Continue
    <3> QED
      BY <3>1, <3>2, <1>1, StopLabels DEF UIDone
  <2>2. CASE ~NothingToStop
    <3>1. pc'[UI] = "stop"
      BY <1>4, <2>2, <1>0 DEF Survey
    <3> QED
      BY <3>1 DEF UIDone
  <2> QED
    BY <2>1, <2>2
<1>5. CASE CancelSession(UI) \/ WorkerEnded(UI) \/ WorkerTimeout(UI)
  <2>1. pc'[UI] \in {"wait", Stopped(op[UI]), Unstopped(op[UI])} /\ op'[UI] = op[UI]
    BY <1>5, <1>0 DEF CancelSession, WorkerEnded, WorkerTimeout
  <2> QED
    BY <2>1, StopLabels DEF UIDone
<1>6. CASE Target(UI)
  <2>1. /\ tok'[UI] = lease /\ op'[UI] = op[UI]
        /\ \/ pc'[UI] \in {"neutral", "error"}
           \/ pc'[UI] = "conclude" /\ lease = 0 /\ op[UI] = "release"
    BY <1>6, <1>0 DEF Target
  <2> QED
    BY <2>1, <1>1 DEF UIDone
<1>7. CASE Conclude(UI)
  <2>1. pc'[UI] = "ok" /\ op'[UI] = op[UI] /\ pc[UI] = "conclude"
    BY <1>7, <1>0, <1>2 DEF Conclude
  <2> QED
    BY <2>1, <1>1 DEF UIDone
<1>8. CASE AcquireRefused(UI)
  <2>1. pc'[UI] \in {"error", "announce"}
    BY <1>8, <1>0 DEF AcquireRefused
  <2> QED
    BY <2>1 DEF UIDone
<1>9. CASE RecordOutput(UI)
  <2>1. \/ pc'[UI] \in {"error", "acquire"}
        \/ pc'[UI] = "arm" /\ op'[UI] = "spring"
        \/ pc'[UI] = "ok" /\ op'[UI] \in {"range", "apply"}
    BY <1>9, <1>0 DEF RecordOutput
  <2> QED
    BY <2>1 DEF UIDone
<1>10. CASE GameStopped(UI)
  <2>1. pc'[UI] \in {"error", "ok"} /\ op'[UI] = op[UI] /\ pc[UI] = "gamestopped"
    BY <1>10, <1>0 DEF GameStopped
  <2> QED
    BY <2>1 DEF UIDone
<1>11. CASE RecordStop(UI)
  <2>1. pc[UI] = "record"
    BY <1>11 DEF RecordStop
  <2>2. CASE op[UI] = "release"
    <3>1. op'[UI] = op[UI] /\ (pc'[UI] = "error" \/ (pc'[UI] = "conclude" /\ ~err[UI]))
      BY <1>11, <2>2, <1>0, <1>2 DEF RecordStop
    <3> QED
      BY <3>1, <2>1, <2>2, <1>1 DEF UIDone
  <2>3. CASE op[UI] = "springabort"
    <3>1. pc'[UI] = "announce"
      BY <1>11, <2>3, <1>0, <1>2 DEF RecordStop
    <3> QED
      BY <3>1 DEF UIDone
  <2>4. CASE op[UI] \notin {"release", "springabort"}
    <3>1. pc'[UI] = "error" \/ (~err[UI] /\ pc'[UI] = AfterStop(op[UI]))
      BY <1>11, <2>4, <1>0, <1>2 DEF RecordStop, Continue
    <3> QED
      BY <3>1, <2>1, <1>1, StopLabels DEF UIDone
  <2> QED
    BY <2>2, <2>3, <2>4
<1>12. ASSUME NEW o \in Ops, Call(UI, o) PROVE UIDone'
  <2>1. pc'[UI] = FirstStep(o) /\ op'[UI] = (IF o = "lifecycle" /\ FirstStep(o) = "stop" THEN "release" ELSE o)
    BY <1>12, <1>0 DEF Call
  <2>2. FirstStep(o) \in {"survey", "stop", "acquire", "recover"} /\ (FirstStep(o) = "recover" => o = "recover")
    BY DEF FirstStep, Ops
  <2> QED
    BY <2>1, <2>2 DEF UIDone
<1> QED
  BY <1>3, <1>4, <1>5, <1>6, <1>7, <1>8, <1>9, <1>10, <1>11, <1>12 DEF UIBookkeeping

\* The steps of the UI thread that write to the wheel, the marker or the lease.
LEMMA UIStepsDone ==
  ASSUME Typed, Safe, Hold, UIDone,
         \/ BestEffort(UI) \/ Recover(UI) \/ WriteNeutral(UI) \/ MarkActive(UI)
         \/ ClearMarker(UI) \/ Forget(UI) \/ Acquire(UI) \/ DropLease(UI) \/ ReleaseLease(UI)
         \/ FirstWrite(UI) \/ Register(UI) \/ PublishGame(UI) \/ ArmWatchdog(UI)
  PROVE  UIDone'
<1> USE DEF Goto, device, ownership, session, locals, Typed, TypeOK
<1>0. UI \in Threads /\ UI \in Callers /\ Settled(UI) = "record" /\ Completed(UI) \in {"unmark", "unlease"}
  BY UILabels, MotorAssumption DEF Threads
<1>1. CASE BestEffort(UI) \/ Recover(UI) \/ Forget(UI) \/ MarkActive(UI) \/ Acquire(UI) \/ DropLease(UI)
  <2>1. \/ pc'[UI] \in {"error", "write", "drop", "mark", "announce"}
        \/ pc[UI] \in {"recover", "forget"} /\ pc'[UI] \in {"ok", "forget"} /\ op'[UI] = op[UI]
    BY <1>1, <1>0 DEF BestEffort, Recover, Forget, MarkActive, Acquire, DropLease
  <2> QED
    BY <2>1 DEF UIDone
<1>2. CASE WriteNeutral(UI) \/ ClearMarker(UI)
  <2>1. /\ pc[UI] \in {"neutral", "unmark"} /\ UNCHANGED <<lease, tok>>
        /\ \/ pc'[UI] \in {"unmark", "unlease"}
           \/ pc'[UI] = "record" /\ err'[UI]
    BY <1>2, <1>0 DEF WriteNeutral, ClearMarker
  <2> QED
    BY <2>1 DEF UIDone
<1>3. CASE ReleaseLease(UI)
  <2>1. pc[UI] = "unlease" /\ pc'[UI] = "record"
    BY <1>3, <1>0 DEF ReleaseLease
  <2>2. lease' = 0
    BY <1>3, <2>1 DEF ReleaseLease, Released, UIDone
  <2> QED
    BY <2>1, <2>2 DEF UIDone
<1>4. CASE FirstWrite(UI)
  <2>1. pc[UI] = "write" /\ UNCHANGED <<lease, tok>> /\ pc'[UI] \in {"announce", "register", "neutral", "drop"}
    BY <1>4, <1>0 DEF FirstWrite
  <2>2. lease = tok[UI]
    BY <2>1 DEF Safe, StartOwned, Starting
  <2> QED
    BY <2>1, <2>2 DEF UIDone
<1>5. CASE Register(UI) \/ PublishGame(UI)
  <2>1. tok[UI] \in Gens
    <3>1. tok[UI] # 0 /\ tok[UI] \in 0..MaxGen
      BY <1>5, <1>0 DEF Register, PublishGame, TokenHeld, Held, Holding
    <3> QED
      BY <3>1, MotorAssumption DEF Gens
  <2>2. pc[UI] \in Starting /\ pc'[UI] \in {"ok", "publish"} /\ op'[UI] = op[UI]
    BY <1>5, <1>0, <2>1, Distinct DEF Register, PublishGame, Starting
  <2>3. op[UI] \notin {"emergency", "release"}
    BY <2>1, <2>2 DEF Hold, UIHolds, Kinds
  <2> QED
    BY <2>2, <2>3 DEF UIDone
<1>6. CASE ArmWatchdog(UI)
  <2>1. tok[UI] \in Gens
    <3>1. tok[UI] # 0 /\ tok[UI] \in 0..MaxGen
      BY <1>6, <1>0 DEF ArmWatchdog, TokenHeld, Held, Holding
    <3> QED
      BY <3>1, MotorAssumption DEF Gens
  <2>2. Unwatched \in [Threads -> Labels] /\ Watchdog(tok[UI]) # UI
    BY <2>1, UnwatchedLabels, Distinct
  <2>3. pc[UI] = "arm" /\ pc'[UI] = "ok" /\ op'[UI] = op[UI]
    BY <1>6, <1>0, <2>2 DEF ArmWatchdog
  <2> QED
    BY <2>3 DEF UIDone
<1> QED
  BY <1>1, <1>2, <1>3, <1>4, <1>5, <1>6

\* A step of a worker or a timer gives a lease back, at most.
LEMMA SessionDone ==
  ASSUME Typed, UIDone, NEW g \in Gens,
         \/ WatchdogFires(g) \/ WorkerStep(g)
         \/ \E w \in {Worker(g), Watchdog(g)} : SafeStopStep(w)
  PROVE  UIDone'
<1> USE DEF Goto, device, ownership, session, locals, Typed, TypeOK
<1>1. /\ Worker(g) \in Threads \ {UI} /\ Watchdog(g) \in Threads \ {UI} /\ UI \in Threads
      /\ Worker(g) \notin Callers /\ Watchdog(g) \notin Callers /\ UI \notin Watchdogs
  BY Distinct, MotorAssumption DEF Threads
<1>2. CASE WatchdogFires(g) \/ WorkerStep(g)
  <2>1. pc'[UI] = pc[UI] /\ err'[UI] = err[UI] /\ UNCHANGED <<op, tok, lease>>
    BY <1>1, <1>2 DEF WatchdogFires, WorkerStep, Tick, LeaveLoop, Halt, Hang, ReportGame, Report, Exit
  <2> QED
    BY <2>1, UIDoneKept
<1>3. ASSUME NEW w \in {Worker(g), Watchdog(g)}, SafeStopStep(w) PROVE UIDone'
  <2>1. w \in Threads \ {UI} /\ w \notin Callers
    BY <1>1
  <2>2. CASE WriteNeutral(w) \/ ClearMarker(w) \/ ReleaseLease(w)
    <3>1. pc'[UI] = pc[UI] /\ err'[UI] = err[UI] /\ UNCHANGED <<op, tok>> /\ lease' \in {lease, 0}
      BY <1>1, <2>1, <2>2 DEF WriteNeutral, ClearMarker, ReleaseLease, Released
    <3> QED
      BY <3>1, UIDoneKept
  <2>3. CASE RecordStop(w)
    <3>1. pc' = [Unwatched EXCEPT ![w] = "idle"] /\ UNCHANGED <<op, tok, lease, err>>
      BY <2>1, <2>3 DEF RecordStop
    <3>2. Unwatched \in [Threads -> Labels] /\ Unwatched[UI] = pc[UI]
      BY UnwatchedLabels, Distinct
    <3>3. pc'[UI] = pc[UI]
      BY <3>1, <3>2, <2>1, <1>1
    <3> QED
      BY <3>1, <3>3, UIDoneKept
  <2> QED
    BY <1>3, <2>2, <2>3 DEF SafeStopStep
<1> QED
  BY <1>2, <1>3

\* UIDone holds in every reachable state.
LEMMA DoneInvariance == OneStarter => (Spec => []UIDone)
<1> SUFFICES ASSUME OneStarter PROVE Spec => []UIDone
  OBVIOUS
<1>1. Init => UIDone
  BY Distinct DEF Init, Boot, NoOp, UIDone, Threads
<1>2. Typed /\ Safe /\ Hold /\ UIDone /\ [Next]_vars => UIDone'
  <2> SUFFICES ASSUME Typed, Safe, Hold, UIDone, [Next]_vars PROVE UIDone'
    OBVIOUS
  <2>1. CASE UNCHANGED vars
    BY <2>1, UIDoneKept DEF vars, device, ownership, session, locals
  <2>2. ASSUME NEW c \in Callers \ {UI},
               CallerStep(c) \/ SafeStopStep(c) \/ \E o \in Ops : Call(c, o)
        PROVE  UIDone'
    <3>1. TypeOK /\ UI \in Threads \ {c}
      BY Distinct DEF Typed, Threads
    <3> QED
      BY <2>2, <3>1, OtherShape, UIDoneKept
  <2>3. ASSUME CallerStep(UI) \/ SafeStopStep(UI) \/ \E o \in Ops : Call(UI, o) PROVE UIDone'
    BY <2>3, UIBookkeepingDone, UIStepsDone DEF CallerStep, SafeStopStep, UIBookkeeping
  <2>4. ASSUME NEW g \in Gens, NEW w \in {Worker(g), Watchdog(g)}, SafeStopStep(w) PROVE UIDone'
    BY <2>4, SessionDone
  <2>5. ASSUME NEW g \in Gens, WatchdogFires(g) \/ WorkerStep(g) PROVE UIDone'
    BY <2>5, SessionDone
  <2>6. CASE Crash
    <3>1. pc'[UI] = "recover" /\ op'[UI] = "recover"
      BY <2>6, Distinct DEF Crash, Boot, NoOp, Threads
    <3> QED
      BY <3>1 DEF UIDone
  <2> QED
    BY <2>1, <2>2, <2>3, <2>4, <2>5, <2>6 DEF Next, Threads, Workers, Watchdogs
<1> QED
  BY <1>1, <1>2, Invariance, SafeInvariance, HoldInvariance, PTL DEF Spec

\* What a stop that reports success has left behind, in every behaviour: no lease and no
\* effect of this process.
StopIsComplete ==
  \A t \in Callers : pc[t] = "ok" /\ op[t] \in {"emergency", "release"} => lease = 0 /\ Silent

\* A stop that reports success has ended what this process plays and given back the lease,
\* with autocenter tests, late timers, recoveries within a session, failed writes and workers
\* that do not answer (NativeOutputEmergencyStop, NativeOutputRelease, stopHardwareForLifecycle).
THEOREM StopsAreComplete == OneStarter => (Spec => []StopIsComplete)
<1> SUFFICES ASSUME OneStarter PROVE Spec => []StopIsComplete
  OBVIOUS
<1>1. Safe /\ Hold /\ UIDone => StopIsComplete
  <2> SUFFICES ASSUME Safe, Hold, UIDone, NEW t \in Callers,
                      pc[t] = "ok", op[t] \in {"emergency", "release"}
               PROVE  lease = 0 /\ Silent
    BY DEF StopIsComplete
  <2>1. t = UI
    BY DEF Safe, Others
  <2>2. lease = 0
    BY <2>1 DEF UIDone
  <2> QED
    BY <2>2, Numbers DEF Hold, Owned, Silent
<1> QED
  BY <1>1, SafeInvariance, HoldInvariance, DoneInvariance, PTL

-----------------------------------------------------------------------------
(* What plays is covered by the marker, and a stop means neutral, unless a  *)
(* behaviour passes through one of the windows of Gap.                      *)

\* What the UI thread knows of wheel and marker.
UICovers ==
  /\ pc[UI] = "forget" => force # Orphan /\ spring # Orphan
  /\ pc[UI] \in {"write", "register", "publish"} /\ Motor(tok[UI]) => marker
  /\ pc[UI] = "record" /\ ~err[UI] => Off
  /\ pc[UI] = "acquire" /\ op[UI] = "spring" => lease = 0 /\ Off
  /\ pc[UI] \in {"mark", "write"} /\ op[UI] = "spring" => Off
  /\ pc[UI] = "ok" /\ op[UI] = "emergency" => Off

\* A worker that may play does so under a marker; who is about to delete the marker has
\* seen a neutral wheel.
Playing == {"run", "halt", "hung"}
SessionCovers(g) ==
  /\ pc[Worker(g)] \in Playing /\ Motor(g) => marker
  /\ pc[Worker(g)] = "unmark" => force = 0 /\ Motor(g)
  /\ pc[Watchdog(g)] = "unmark" => force # Orphan /\ spring # Orphan

\* Under the marker plays the spring of this process or one of its effects, not both.
Cover == /\ (force # 0 \/ spring # 0) => marker = TRUE
         /\ spring \in Gens => force = 0
         /\ UICovers
         /\ \A g \in Gens : SessionCovers(g)

\* A session begins to play, or plays again what somebody neutralised.
Begins == force' \in Gens /\ spring' = spring /\ lease # 0 /\ ~UIQuiet

\* A live worker means that there is a lease, and that the UI thread neither starts nor
\* gives back one.
LEMMA LiveMeans ==
  ASSUME Typed, Safe, NEW g \in Gens, Live(g)
  PROVE  lease = g /\ lease # 0 /\ generation # 0 /\ ~UIQuiet
<1>1. lease = g /\ ~UIQuiet
  BY DEF Safe, LiveOwned, QuietNow, NoneLive
<1>2. g <= generation /\ g \in Nat /\ g # 0 /\ generation \in Nat
  BY <1>1, MotorAssumption DEF Safe, Issued, Gens, Typed, TypeOK
<1> QED
  BY <1>1, <1>2

\* Nothing that a former process left on appears by itself.
LEMMA NoOrphans ==
  ASSUME Reduced \/ Begins, force # Orphan, spring # Orphan
  PROVE  force' # Orphan /\ spring' # Orphan
<1>1. Orphan # 0
  BY MotorAssumption
<1> QED
  BY <1>1, Numbers DEF Reduced, Begins

\* The UI thread stands still while a session gives up its lease, its marker or its effect.
LEMMA UICoversKept ==
  ASSUME UIDone, UICovers, kind' = kind,
         pc'[UI] = pc[UI], op'[UI] = op[UI], tok'[UI] = tok[UI], err'[UI] = err[UI],
         marker' = marker \/ pc[UI] \notin {"write", "register", "publish"} \/ ~Motor(tok[UI]),
         Reduced \/ Begins, lease' \in {lease, 0}
  PROVE  UICovers'
<1>1. Motor(tok[UI])' <=> Motor(tok[UI])
  BY DEF Motor
<1>2. Off /\ Reduced => Off'
  BY DEF Off, Reduced
<1>3. Begins => /\ lease # 0
                /\ ~(pc[UI] = "record" /\ ~err[UI])
                /\ ~(pc[UI] = "acquire" /\ op[UI] = "spring")
                /\ pc[UI] \notin {"mark", "write"}
                /\ ~(pc[UI] = "ok" /\ op[UI] = "emergency")
  BY DEF Begins, UIQuiet, Quiet, Starting, UIDone, UICovers
<1>4. pc[UI] = "forget" => force' # Orphan /\ spring' # Orphan
  BY NoOrphans DEF UICovers
<1>5. UICovers
  OBVIOUS
<1> QED
  BY <1>1, <1>2, <1>3, <1>4, <1>5 DEF UICovers

\* A session stands still.
LEMMA SessionCoverKept ==
  ASSUME NEW g \in Gens, SessionCovers(g), kind'[g] = kind[g],
         pc'[Worker(g)] = pc[Worker(g)],
         pc'[Watchdog(g)] = pc[Watchdog(g)] \/ pc'[Watchdog(g)] = "idle",
         marker' = TRUE \/ marker' = marker \/ pc[Worker(g)] \notin Playing \/ ~Motor(g),
         \/ Reduced
         \/ force' # Orphan /\ spring' # Orphan /\ ~Live(g)
         \/ Begins /\ ~Live(g)
  PROVE  SessionCovers(g)'
<1>1. Motor(g)' <=> Motor(g)
  BY DEF Motor
<1>2. pc[Worker(g)] = "unmark" => Live(g)
  BY DEF Live, LiveLabels
<1>3. Reduced /\ force = 0 => force' = 0
  BY DEF Reduced
<1>4. pc[Watchdog(g)] = "unmark" => force' # Orphan /\ spring' # Orphan
  BY NoOrphans DEF SessionCovers
<1> QED
  BY <1>1, <1>2, <1>3, <1>4 DEF SessionCovers

\* A session is as if it had not been.
LEMMA SessionCoverIdle ==
  ASSUME NEW g \in Gens, pc'[Worker(g)] = "idle", pc'[Watchdog(g)] = "idle"
  PROVE  SessionCovers(g)'
BY DEF SessionCovers, Playing

\* What plays is still covered, and still one thing, if less plays and the marker stays.
LEMMA DeviceKept ==
  ASSUME Cover, Reduced, marker' = TRUE \/ marker' = marker \/ Off
  PROVE  /\ (force' # 0 \/ spring' # 0) => marker' = TRUE
         /\ spring' \in Gens => force' = 0
<1>1. (force' # 0 => force # 0) /\ (spring' # 0 => spring # 0)
  BY DEF Reduced
<1>2. (force' # 0 \/ spring' # 0) => marker' = TRUE
  BY <1>1 DEF Cover, Off
<1>3. spring' \in Gens => force' = 0
  BY Numbers DEF Cover, Reduced
<1> QED
  BY <1>2, <1>3

\* Bookkeeping reports success only of what the stop has left.
LEMMA UIBookkeepingCovers ==
  ASSUME Typed, Safe, Hold, UIDone, Cover, UIBookkeeping
  PROVE  Cover'
<1> USE DEF Goto, device, ownership, session, locals, Typed, TypeOK
<1>0. UI \in Threads /\ UI \in Callers /\ UI \notin Watchdogs
  BY MotorAssumption DEF Threads
<1>1. UNCHANGED <<force, spring, lease, kind, marker, generation>>
  BY DEF UIBookkeeping, Return, Survey, CancelSession, WorkerEnded, WorkerTimeout, Target, Conclude,
     AcquireRefused, RecordOutput, GameStopped, RecordStop, Call
<1>2. Unwatched \in [Threads -> Labels]
  BY UnwatchedLabels
<1>3. UICovers /\ ((force # 0 \/ spring # 0) => marker = TRUE)
  BY DEF Cover
<1>4. Off' <=> Off
  BY <1>1 DEF Off
<1>5. Reduced
  BY <1>1 DEF Reduced
<1>6. UICovers'
  <2>1. CASE Return(UI)
    <3>1. pc'[UI] = "idle"
      BY <2>1, <1>0 DEF Return
    <3> QED
      BY <3>1 DEF UICovers
  <2>2. CASE Survey(UI)
    <3>1. CASE NothingToStop
      <4>1. lease = 0 /\ Off
        BY <3>1, <1>3 DEF NothingToStop, NothingRunning, Off
      <4>2. pc'[UI] = AfterStop(op[UI])
        BY <2>2, <3>1, <1>0 DEF Survey, Continue
      <4> QED
        BY <4>1, <4>2, <1>1, <1>4, StopLabels DEF UICovers
    <3>2. CASE ~NothingToStop
      <4>1. pc'[UI] = "stop"
        BY <2>2, <3>2, <1>0 DEF Survey
      <4> QED
        BY <4>1 DEF UICovers
    <3> QED
      BY <3>1, <3>2
  <2>3. CASE CancelSession(UI) \/ WorkerEnded(UI) \/ WorkerTimeout(UI)
    <3>1. pc'[UI] \in {"wait", Stopped(op[UI]), Unstopped(op[UI])} /\ op'[UI] = op[UI]
      BY <2>3, <1>0 DEF CancelSession, WorkerEnded, WorkerTimeout
    <3>2. op[UI] = "spring" => Stopped(op[UI]) = "target"
      BY DEF Stopped, Stops
    <3> QED
      BY <3>1, <3>2, StopLabels DEF UICovers
  <2>4. CASE Target(UI)
    <3>1. pc'[UI] \in {"neutral", "error", "conclude"}
      BY <2>4, <1>0 DEF Target
    <3> QED
      BY <3>1 DEF UICovers
  <2>5. CASE Conclude(UI)
    <3>1. pc'[UI] = "ok" /\ op'[UI] = op[UI] /\ pc[UI] = "conclude"
      BY <2>5, <1>0, <1>2 DEF Conclude
    <3> QED
      BY <3>1 DEF UICovers, UIDone
  <2>6. CASE AcquireRefused(UI)
    <3>1. pc'[UI] \in {"error", "announce"}
      BY <2>6, <1>0 DEF AcquireRefused
    <3> QED
      BY <3>1 DEF UICovers
  <2>7. CASE RecordOutput(UI)
    <3>1. \/ pc'[UI] \in {"error", "arm"}
          \/ pc'[UI] \in {"ok", "acquire"} /\ op'[UI] \in {"range", "apply"}
      BY <2>7, <1>0 DEF RecordOutput
    <3> QED
      BY <3>1 DEF UICovers
  <2>8. CASE GameStopped(UI)
    <3>1. pc'[UI] \in {"error", "ok"} /\ op'[UI] = op[UI] /\ pc[UI] = "gamestopped"
      BY <2>8, <1>0 DEF GameStopped
    <3> QED
      BY <3>1 DEF UICovers, UIDone
  <2>9. CASE RecordStop(UI)
    <3>1. pc[UI] = "record"
      BY <2>9 DEF RecordStop
    <3>2. CASE op[UI] \in {"release", "springabort"}
      <4>1. pc'[UI] \in {"error", "conclude", "announce"}
        BY <2>9, <3>2, <1>0, <1>2 DEF RecordStop
      <4> QED
        BY <4>1 DEF UICovers
    <3>3. CASE op[UI] \notin {"release", "springabort"}
      <4>1. pc'[UI] = "error" \/ (~err[UI] /\ pc'[UI] = AfterStop(op[UI]))
        BY <2>9, <3>3, <1>0, <1>2 DEF RecordStop, Continue
      <4>2. ~err[UI] => lease = 0 /\ Off
        BY <3>1, <1>3 DEF UICovers, UIDone
      <4> QED
        BY <4>1, <4>2, <1>1, <1>4, StopLabels DEF UICovers
    <3> QED
      BY <3>2, <3>3
  <2>10. ASSUME NEW o \in Ops, Call(UI, o) PROVE UICovers'
    <3>1. pc'[UI] = FirstStep(o) /\ op'[UI] = (IF o = "lifecycle" /\ FirstStep(o) = "stop" THEN "release" ELSE o)
      BY <2>10, <1>0 DEF Call
    <3>2. FirstStep(o) \in {"survey", "stop", "acquire", "recover"} /\ (FirstStep(o) = "acquire" => o = "range")
      BY DEF FirstStep, Ops
    <3> QED
      BY <3>1, <3>2 DEF UICovers
  <2> QED
    BY <2>1, <2>2, <2>3, <2>4, <2>5, <2>6, <2>7, <2>8, <2>9, <2>10 DEF UIBookkeeping
<1>7. \A g \in Gens : SessionCovers(g)'
  BY <1>1, <1>5, UIAlone, SessionCoverKept DEF Cover
<1>8. /\ (force' # 0 \/ spring' # 0) => marker' = TRUE
      /\ spring' \in Gens => force' = 0
  BY <1>1, <1>5, DeviceKept
<1> QED
  BY <1>6, <1>7, <1>8 DEF Cover

\* The marker is set before the first report, and deleted by the UI thread only when nothing
\* plays and no worker may play.
LEMMA UIStopCovers ==
  ASSUME Typed, Safe, Hold, UIDone, Cover, NoGap,
         \/ BestEffort(UI) \/ Recover(UI) \/ WriteNeutral(UI) \/ MarkActive(UI)
         \/ ClearMarker(UI) \/ Forget(UI)
  PROVE  Cover'
<1> USE DEF Goto, device, ownership, session, locals, Typed, TypeOK
<1>0. UI \in Threads /\ UI \in Callers /\ Settled(UI) = "record" /\ Completed(UI) \in Finishing
  BY UILabels, MotorAssumption DEF Threads, Finishing
<1>1. UNCHANGED <<lease, kind, generation, tok>>
  BY DEF BestEffort, Recover, WriteNeutral, MarkActive, ClearMarker, Forget
<1>2. UICovers /\ UIHolds /\ Owned
  BY DEF Cover, Hold
<1>3. Reduced
  <2>1. CASE BestEffort(UI) \/ Recover(UI) \/ WriteNeutral(UI)
    BY <2>1 DEF BestEffort, Recover, WriteNeutral, Neutralised, NeutralFails, Reduced
  <2>2. CASE MarkActive(UI) \/ ClearMarker(UI) \/ Forget(UI)
    BY <2>2 DEF MarkActive, ClearMarker, Forget, Reduced
  <2> QED
    BY <2>1, <2>2
<1>4. \/ marker' = TRUE \/ marker' = marker
      \/ Off /\ \A g \in Gens : ~(Live(g) /\ Motor(g))
  <2>1. CASE BestEffort(UI) \/ Recover(UI) \/ WriteNeutral(UI) \/ MarkActive(UI)
    BY <2>1 DEF BestEffort, Recover, WriteNeutral, MarkActive
  <2>2. CASE ClearMarker(UI)
    BY <2>2, <1>2 DEF ClearMarker, UIHolds, Safe, QuietNow, UIQuiet, Quiet, NoneLive
  <2>3. CASE Forget(UI)
    <3>1. pc[UI] = "forget" /\ force # Orphan /\ spring # Orphan
      BY <2>3, <1>2 DEF Forget, UICovers
    <3>2. ~(lease # 0 /\ Motor(lease))
      BY <3>1, <1>0 DEF NoGap, Gap, LateRecovery, Drives
    <3>3. force \notin Gens /\ spring \notin Gens
      BY <3>2, <1>2, Numbers DEF Owned, Slots, Motor
    <3>4. Off
      BY <3>1, <3>3 DEF Off
    <3>5. \A g \in Gens : ~(Live(g) /\ Motor(g))
      BY <3>2, LiveMeans
    <3> QED
      BY <3>4, <3>5
  <2> QED
    BY <2>1, <2>2, <2>3
<1>5. /\ (force' # 0 \/ spring' # 0) => marker' = TRUE
      /\ spring' \in Gens => force' = 0
  BY <1>3, <1>4, DeviceKept
<1>6. UICovers'
  <2>1. CASE BestEffort(UI)
    <3>1. pc'[UI] = "error"
      BY <2>1, <1>0 DEF BestEffort
    <3> QED
      BY <3>1 DEF UICovers
  <2>2. CASE Recover(UI) \/ Forget(UI)
    <3>1. op'[UI] = "recover"
      BY <2>2 DEF Recover, Forget, UIDone
    <3>2. pc'[UI] \in {"ok", "error"} \/ (pc'[UI] = "forget" /\ Off')
      BY <2>2, <1>0 DEF Recover, Forget, Neutralised, Off
    <3>3. Orphan # 0
      BY MotorAssumption
    <3> QED
      BY <3>1, <3>2, <3>3 DEF UICovers, Off
  <2>3. CASE WriteNeutral(UI)
    <3>1. pc'[UI] \in {"unmark", "unlease"} \/ (pc'[UI] = "record" /\ err'[UI])
      BY <2>3, <1>0 DEF WriteNeutral, Finishing
    <3> QED
      BY <3>1 DEF UICovers
  <2>4. CASE MarkActive(UI)
    <3>1. /\ (pc'[UI] = "write" /\ marker') \/ pc'[UI] = "drop"
          /\ pc[UI] = "mark" /\ op'[UI] = op[UI] /\ UNCHANGED <<force, spring>>
      BY <2>4, <1>0 DEF MarkActive
    <3> QED
      BY <3>1, <1>1, <1>2 DEF UICovers, Off
  <2>5. CASE ClearMarker(UI)
    <3>1. pc'[UI] = "unlease" \/ (pc'[UI] = "record" /\ err'[UI])
      BY <2>5, <1>0 DEF ClearMarker
    <3> QED
      BY <3>1 DEF UICovers
  <2> QED
    BY <2>1, <2>2, <2>3, <2>4, <2>5
<1>7. ASSUME NEW g \in Gens PROVE SessionCovers(g)'
  <2>1. /\ pc'[Worker(g)] = pc[Worker(g)]
        /\ pc'[Watchdog(g)] = pc[Watchdog(g)] \/ pc'[Watchdog(g)] = "idle"
    BY UIAlone
  <2>2. marker' = TRUE \/ marker' = marker \/ pc[Worker(g)] \notin Playing \/ ~Motor(g)
    BY <1>4 DEF Playing, Live, LiveLabels
  <2> QED
    BY <1>1, <1>3, <2>1, <2>2, SessionCoverKept DEF Cover
<1> QED
  BY <1>5, <1>6, <1>7 DEF Cover

\* A lease that is given back without an error is that of the stop.
LEMMA UILeaseCovers ==
  ASSUME Typed, Safe, Hold, UIDone, Cover, Acquire(UI) \/ DropLease(UI) \/ ReleaseLease(UI)
  PROVE  Cover'
<1> USE DEF Goto, device, ownership, session, locals, Typed, TypeOK
<1>0. UI \in Threads /\ UI \in Callers /\ Settled(UI) = "record"
  BY UILabels, MotorAssumption DEF Threads
<1>1. UNCHANGED <<force, spring, marker, op>>
  BY DEF Acquire, DropLease, ReleaseLease
<1>2. UICovers /\ UIHolds
  BY DEF Cover, Hold
<1>3. UICovers'
  <2>1. CASE Acquire(UI)
    <3>1. /\ pc[UI] = "acquire"
          /\ pc'[UI] = "mark" \/ (pc'[UI] = "write" /\ op[UI] = "leds") \/ pc'[UI] = "drop"
      BY <2>1, <1>0 DEF Acquire
    <3>2. ~(pc'[UI] = "write" /\ Motor(tok[UI])')
      <4> SUFFICES ASSUME op[UI] = "leds" PROVE ~Motor(tok[UI])'
        BY <3>1
      <4>1. generation + 1 \in Gens
        BY <2>1, MotorAssumption DEF Acquire, Gens
      <4>2. tok'[UI] = generation + 1 /\ kind'[generation + 1] = KindOf(op[UI])
        BY <2>1, <1>0, <4>1 DEF Acquire
      <4>3. KindOf(op[UI]) = "leds"
        BY DEF KindOf, Kinds
      <4> QED
        BY <4>2, <4>3 DEF Motor
    <3> QED
      BY <3>1, <3>2, <1>1, <1>2 DEF UICovers, Off
  <2>2. CASE DropLease(UI)
    <3>1. pc'[UI] \in {"error", "announce"}
      BY <2>2, <1>0 DEF DropLease
    <3> QED
      BY <3>1 DEF UICovers
  <2>3. CASE ReleaseLease(UI)
    <3>1. pc'[UI] = "record" /\ Off
      BY <2>3, <1>0, <1>2 DEF ReleaseLease, UIHolds
    <3> QED
      BY <3>1, <1>1 DEF UICovers, Off
  <2> QED
    BY <2>1, <2>2, <2>3
<1>4. Reduced
  BY <1>1 DEF Reduced
<1>5. ASSUME NEW g \in Gens PROVE SessionCovers(g)'
  <2>1. /\ pc'[Worker(g)] = pc[Worker(g)]
        /\ pc'[Watchdog(g)] = pc[Watchdog(g)] \/ pc'[Watchdog(g)] = "idle"
    BY UIAlone
  <2>2. CASE kind'[g] = kind[g]
    BY <1>1, <1>4, <2>1, <2>2, SessionCoverKept DEF Cover
  <2>3. CASE kind'[g] # kind[g]
    <3>1. g = generation + 1
      BY <2>3 DEF Acquire, DropLease, ReleaseLease
    <3>2. g > generation
      BY <3>1, MotorAssumption
    <3>3. pc[Worker(g)] = "idle" /\ pc[Watchdog(g)] = "idle"
      BY <3>2 DEF Safe, Fresh
    <3> QED
      BY <2>1, <3>3, SessionCoverIdle
  <2> QED
    BY <2>2, <2>3
<1>6. /\ (force' # 0 \/ spring' # 0) => marker' = TRUE
      /\ spring' \in Gens => force' = 0
  BY <1>1, <1>4, DeviceKept
<1> QED
  BY <1>3, <1>5, <1>6 DEF Cover

\* The first reports of a motor come after its marker, and the spring alone.
LEMMA UIWriteCovers ==
  ASSUME Typed, Safe, Hold, UIDone, Cover, FirstWrite(UI)
  PROVE  Cover'
<1> DEFINE g == tok[UI]
<1> USE DEF Goto, device, ownership, session, locals, Typed, TypeOK
<1>0. UI \in Threads /\ UI \in Callers /\ pc[UI] \in Starting /\ pc[UI] = "write"
  BY MotorAssumption DEF FirstWrite, Threads, Starting
<1>1. UICovers /\ UIHolds /\ Owned
  BY DEF Cover, Hold
<1>2. kind[g] = op[UI] /\ lease = g
  BY <1>0, <1>1 DEF UIHolds, Safe, StartOwned
<1>3. UNCHANGED <<lease, generation, kind, tok, marker>>
  BY DEF FirstWrite
<1>4. g \in Gens
  <2>1. g # 0 /\ g \in 0..MaxGen
    BY <1>0 DEF TokenHeld, Held, Holding
  <2> QED
    BY <2>1, MotorAssumption DEF Gens
<1>5. Motor(g) => marker = TRUE
  BY <1>0, <1>1 DEF UICovers
<1>6. \/ force' = force /\ spring' = spring
      \/ op[UI] \in {"slot", "game"} /\ force' = g /\ spring' = spring
      \/ op[UI] = "spring" /\ spring' = g /\ force' = force /\ Off
  BY <1>0, <1>1 DEF FirstWrite, UICovers
<1>7. /\ (force' # 0 \/ spring' # 0) => marker' = TRUE
      /\ spring' \in Gens => force' = 0
  <2>1. CASE force' = force /\ spring' = spring
    BY <2>1, <1>3 DEF Cover
  <2>2. CASE op[UI] \in {"slot", "game"} /\ force' = g /\ spring' = spring
    <3>1. Motor(g)
      BY <2>2, <1>2 DEF Motor
    <3>2. spring \notin Gens
      BY <2>2, <1>1, <1>2 DEF Owned
    <3> QED
      BY <2>2, <3>1, <3>2, <1>3, <1>5
  <2>3. CASE op[UI] = "spring" /\ spring' = g /\ force' = force /\ Off
    <3>1. Motor(g)
      BY <2>3, <1>2 DEF Motor
    <3> QED
      BY <2>3, <3>1, <1>3, <1>5 DEF Off
  <2> QED
    BY <1>6, <2>1, <2>2, <2>3
<1>8. UICovers'
  <2>1. \/ pc'[UI] = "register"
        \/ pc'[UI] \in {"announce", "neutral", "drop"}
    BY <1>0 DEF FirstWrite
  <2>2. Motor(g)' <=> Motor(g)
    BY <1>3 DEF Motor
  <2> QED
    BY <2>1, <2>2, <1>3, <1>5 DEF UICovers
<1>9. NoneLive
  BY <1>0 DEF Safe, QuietNow, UIQuiet, Quiet
<1>10. ASSUME NEW h \in Gens PROVE SessionCovers(h)'
  <2>1. /\ pc'[Worker(h)] = pc[Worker(h)]
        /\ pc'[Watchdog(h)] = pc[Watchdog(h)] \/ pc'[Watchdog(h)] = "idle"
    BY UIAlone
  <2>2. SessionCovers(h) /\ ~Live(h) /\ g # Orphan
    BY <1>4, <1>9, Numbers DEF Cover, NoneLive
  <2>3. pc[Worker(h)] \notin Playing \cup {"unmark"}
    BY <2>2 DEF Playing, Live, LiveLabels
  <2>4. pc[Watchdog(h)] = "unmark" => force' # Orphan /\ spring' # Orphan
    BY <2>2, <1>6 DEF SessionCovers
  <2> QED
    BY <2>1, <2>3, <2>4 DEF SessionCovers
<1> QED
  BY <1>7, <1>8, <1>10 DEF Cover

\* A worker is started under the marker of its session.
LEMMA UIHandsOverCovered ==
  ASSUME Typed, Safe, Hold, UIDone, Cover, Register(UI) \/ PublishGame(UI) \/ ArmWatchdog(UI)
  PROVE  Cover'
<1> DEFINE g == tok[UI]
<1> USE DEF Goto, device, ownership, session, locals, Typed, TypeOK
<1>0. /\ UI \in Threads /\ UI \in Callers /\ g \in Gens
      /\ Worker(g) \in Threads /\ UI # Worker(g) /\ Watchdog(g) \in Threads /\ UI # Watchdog(g)
      /\ UI \notin Watchdogs
  <2>1. g # 0 /\ g \in 0..MaxGen
    BY MotorAssumption DEF Register, PublishGame, ArmWatchdog, TokenHeld, Held, Holding, Threads
  <2> QED
    BY <2>1, MotorAssumption, Distinct DEF Threads, Gens
<1>1. UICovers /\ UIHolds
  BY DEF Cover, Hold
<1>2. UNCHANGED <<force, spring, lease, kind, generation, marker, op, tok>> /\ Reduced
  BY DEF Register, PublishGame, ArmWatchdog, Reduced
<1>3. /\ (force' # 0 \/ spring' # 0) => marker' = TRUE
      /\ spring' \in Gens => force' = 0
  BY <1>2, DeviceKept
<1>4. Motor(g)' <=> Motor(g)
  BY <1>2 DEF Motor
<1>5. CASE Register(UI) \/ PublishGame(UI)
  <2>1. /\ pc[UI] \in {"register", "publish"}
        /\ pc'[UI] = "ok" \/ pc'[UI] = "publish"
    BY <1>0, <1>5 DEF Register, PublishGame
  <2>2. op[UI] # "emergency"
    BY <1>0, <1>1, <2>1 DEF UIHolds, Starting, Kinds
  <2>3. UICovers'
    BY <1>1, <1>2, <1>4, <2>1, <2>2 DEF UICovers
  <2>4. ASSUME NEW h \in Gens PROVE SessionCovers(h)'
    <3>1. /\ Worker(h) \in Threads /\ Worker(h) # UI /\ Watchdog(h) \in Threads /\ Watchdog(h) # UI
          /\ Watchdog(h) # Worker(g) /\ (h # g => Worker(h) # Worker(g))
      BY <1>0, Distinct
    <3>2. /\ pc'[Watchdog(h)] = pc[Watchdog(h)]
          /\ pc'[Worker(h)] = pc[Worker(h)] \/ (h = g /\ pc'[Worker(h)] = "run")
      BY <3>1, <1>0, <1>5 DEF Register, PublishGame
    <3>3. SessionCovers(h)
      BY DEF Cover
    <3>4. CASE pc'[Worker(h)] = pc[Worker(h)]
      BY <3>2, <3>3, <3>4, <1>2, SessionCoverKept
    <3>5. CASE h = g /\ pc'[Worker(h)] = "run"
      <4>1. Motor(g) => marker
        BY <1>1, <2>1 DEF UICovers
      <4> QED
        BY <3>2, <3>3, <3>5, <4>1, <1>2, <1>4 DEF SessionCovers
    <3> QED
      BY <3>2, <3>4, <3>5
  <2> QED
    BY <1>3, <2>3, <2>4 DEF Cover
<1>6. CASE ArmWatchdog(UI)
  <2>1. /\ Unwatched \in [Threads -> Labels]
        /\ \A u \in Threads : Unwatched[u] = pc[u] \/ (u \in Watchdogs /\ Unwatched[u] = "idle")
    BY UnwatchedLabels, UnwatchedFrame
  <2>2. pc' = [Unwatched EXCEPT ![UI] = "ok", ![Watchdog(g)] = "armed"] /\ pc[UI] = "arm"
    BY <1>6 DEF ArmWatchdog
  <2>3. UICovers'
    BY <2>1, <2>2, <1>0, <1>2 DEF UICovers, UIDone
  <2>4. ASSUME NEW h \in Gens PROVE SessionCovers(h)'
    <3>1. /\ Worker(h) \in Threads /\ Worker(h) # UI /\ Worker(h) # Watchdog(g) /\ Worker(h) \notin Watchdogs
          /\ Watchdog(h) \in Threads /\ Watchdog(h) # UI
      BY <1>0, Distinct DEF Watchdogs
    <3>2. pc'[Worker(h)] = pc[Worker(h)] /\ pc'[Watchdog(h)] \in {pc[Watchdog(h)], "idle", "armed"}
      BY <2>1, <2>2, <3>1, <1>0
    <3>3. SessionCovers(h) /\ (Motor(h)' <=> Motor(h))
      BY <1>2 DEF Cover, Motor
    <3> QED
      BY <3>2, <3>3, <1>2 DEF SessionCovers
  <2> QED
    BY <1>3, <2>3, <2>4 DEF Cover
<1> QED
  BY <1>5, <1>6

\* A step of a worker or a timer that does not disturb the UI thread and the other sessions.
LEMMA SessionDisturbs ==
  ASSUME Typed, Safe, UIDone, Cover, NEW g \in Gens, SessionCovers(g)',
         \A u \in Threads \ {Worker(g), Watchdog(g)} :
            pc'[u] = pc[u] \/ (u \in Watchdogs /\ pc'[u] = "idle"),
         err'[UI] = err[UI], op' = op, tok' = tok, kind' = kind, lease' \in {lease, 0},
         \/ marker' = marker
         \/ /\ ~(pc[UI] \in {"write", "register", "publish"} /\ Motor(tok[UI]))
            /\ \A h \in Gens : ~(pc[Worker(h)] \in Playing /\ Motor(h)),
         Reduced \/ (Begins /\ Live(g)),
         (force' # 0 \/ spring' # 0) => marker' = TRUE,
         spring' \in Gens => force' = 0
  PROVE  Cover'
<1>1. UI \in Threads \ {Worker(g), Watchdog(g)} /\ UI \notin Watchdogs
  BY Distinct, MotorAssumption DEF Threads
<1>2. UICovers'
  <2>1. pc'[UI] = pc[UI] /\ op'[UI] = op[UI] /\ tok'[UI] = tok[UI]
    BY <1>1
  <2>2. marker' = marker \/ pc[UI] \notin {"write", "register", "publish"} \/ ~Motor(tok[UI])
    OBVIOUS
  <2> QED
    BY <2>1, <2>2, UICoversKept DEF Cover
<1>3. ASSUME NEW h \in Gens, h # g PROVE SessionCovers(h)'
  <2>1. /\ Worker(h) \in Threads \ {Worker(g), Watchdog(g)} /\ Worker(h) \notin Watchdogs
        /\ Watchdog(h) \in Threads \ {Worker(g), Watchdog(g)}
    BY <1>3, Distinct DEF Watchdogs
  <2>2. Live(g) => ~Live(h)
    BY <1>3, LiveMeans
  <2>3. marker' = marker \/ pc[Worker(h)] \notin Playing \/ ~Motor(h)
    OBVIOUS
  <2>4. Reduced \/ (Begins /\ ~Live(h))
    BY <2>2
  <2>5. /\ pc'[Worker(h)] = pc[Worker(h)]
        /\ pc'[Watchdog(h)] = pc[Watchdog(h)] \/ pc'[Watchdog(h)] = "idle"
    BY <2>1
  <2> QED
    BY <2>3, <2>4, <2>5, SessionCoverKept DEF Cover
<1> QED
  BY <1>2, <1>3 DEF Cover

\* When a session is about to delete the marker nothing plays and nothing is about to, but
\* in the windows of Gap.
LEMMA MarkerNotNeeded ==
  ASSUME Typed, Safe, Hold, Cover, NoGap, NEW g \in Gens, NEW w \in {Worker(g), Watchdog(g)},
         pc[w] = "unmark"
  PROVE  /\ Off
         /\ ~(pc[UI] \in {"write", "register", "publish"} /\ Motor(tok[UI]))
         /\ \A h \in Gens : ~(pc[Worker(h)] \in Playing /\ Motor(h))
<1>1. Owned /\ SessionHolds(g) /\ SessionCovers(g)
  BY DEF Hold, Cover
<1>2. CASE w = Worker(g)
  <2>1. Live(g) /\ lease = g /\ ~UIQuiet /\ lease # 0
    BY <1>2, LiveMeans DEF Live, LiveLabels
  <2>2. force = 0 /\ Motor(g)
    BY <1>1, <1>2 DEF SessionCovers
  <2>3. spring \notin Gens
    BY <1>1, <1>2, <2>1 DEF Owned, SessionHolds
  <2>4. spring # Orphan
    BY <2>1, <2>2 DEF NoGap, Gap, OrphanSpring, Drives
  <2>5. Off
    BY <2>2, <2>3, <2>4 DEF Off, Typed, TypeOK
  <2>6. pc[UI] \notin {"write", "register", "publish"}
    BY <2>1 DEF UIQuiet, Quiet, Starting
  <2>7. ASSUME NEW h \in Gens, pc[Worker(h)] \in Playing PROVE FALSE
    <3>1. Live(h)
      BY <2>7 DEF Playing, Live, LiveLabels
    <3>2. h = g
      BY <3>1, <2>1, LiveMeans
    <3> QED
      BY <3>2, <2>7, <1>2 DEF Playing
  <2> QED
    BY <2>5, <2>6, <2>7
<1>3. CASE w = Watchdog(g)
  <2>1. /\ kind[g] = "spring" /\ spring # g /\ force # Orphan /\ spring # Orphan
        /\ ~Live(g)
    BY <1>1, <1>3 DEF SessionHolds, SessionCovers, Finishing, Safe, Watched
  <2>2. lease # 0 /\ Motor(lease) => lease = g
    BY <1>3 DEF NoGap, Gap, LateCallback, Drives
  <2>3. force \notin Gens
    BY <2>1, <2>2, <1>1, Numbers DEF Owned, Slots, Motor
  <2>4. spring \notin Gens
    BY <2>1, <2>2, <1>1, Numbers DEF Owned, Motor
  <2>5. Off
    BY <2>1, <2>3, <2>4 DEF Off, Typed, TypeOK
  <2>6. ASSUME pc[UI] \in {"write", "register", "publish"}, Motor(tok[UI]) PROVE FALSE
    <3>1. lease = tok[UI] /\ tok[UI] # 0 /\ pc[UI] \in Starting
      BY <2>6, Distinct DEF Safe, StartOwned, Starting, Typed, TokenHeld, Held, Holding
    <3>2. tok[UI] = g
      BY <2>2, <2>6, <3>1
    <3> QED
      BY <3>1, <3>2, <1>3 DEF Safe, Fresh
  <2>7. ASSUME NEW h \in Gens, pc[Worker(h)] \in Playing, Motor(h) PROVE FALSE
    <3>1. Live(h)
      BY <2>7 DEF Playing, Live, LiveLabels
    <3>2. lease = h /\ lease # 0
      BY <3>1, LiveMeans
    <3> QED
      BY <3>1, <3>2, <2>1, <2>2, <2>7
  <2> QED
    BY <2>5, <2>6, <2>7
<1> QED
  BY <1>2, <1>3

\* A worker or a timer deletes the marker when nothing plays any more.
LEMMA SessionStopCovers ==
  ASSUME Typed, Safe, Hold, UIDone, Cover, NoGap,
         NEW g \in Gens, NEW w \in {Worker(g), Watchdog(g)}, SafeStopStep(w)
  PROVE  Cover'
<1> USE DEF Goto, device, ownership, session, locals, Typed, TypeOK
<1>1. /\ w \in Threads \ Callers /\ UI \in Callers /\ UI \in Threads /\ tok[w] = g
      /\ Worker(g) \in Threads /\ Watchdog(g) \in Threads /\ Worker(g) # Watchdog(g)
      /\ Worker(g) \notin Watchdogs /\ g # 0
  BY Distinct, Numbers DEF Watchdogs, Threads, Safe, OwnTokens
<1>2. SessionCovers(g)
  BY DEF Cover
<1>3. /\ Settled(w) \notin Playing \cup {"unmark"}
      /\ Completed(w) = IF Motor(g) THEN "unmark" ELSE "unlease"
  BY <1>1, NotRevived DEF LiveLabels, Playing, Completed
<1>4. pc[w] \in {"neutral", "unmark", "unlease", "record"}
  BY DEF SafeStopStep, WriteNeutral, ClearMarker, ReleaseLease, RecordStop
<1>5. /\ UNCHANGED <<kind, tok, op>> /\ err'[UI] = err[UI] /\ Reduced /\ lease' \in {lease, 0}
  BY <1>1 DEF SafeStopStep, WriteNeutral, ClearMarker, ReleaseLease, RecordStop, Neutralised,
     NeutralFails, Reduced, Released
<1>6. Motor(g)' <=> Motor(g)
  BY <1>5 DEF Motor
<1>7. CASE WriteNeutral(w)
  <2>1. /\ \A u \in Threads \ {w} : pc'[u] = pc[u]
        /\ marker' = marker
        /\ \/ pc'[w] = Settled(w)
           \/ pc'[w] = Completed(w) /\ force' = 0 /\ spring' = 0
    BY <1>7, <1>1 DEF WriteNeutral, Neutralised
  <2>2. force = 0 => force' = 0
    BY <1>5 DEF Reduced
  <2>3. force # Orphan /\ spring # Orphan => force' # Orphan /\ spring' # Orphan
    BY <1>5, NoOrphans
  <2>4. Orphan # 0
    BY MotorAssumption
  <2>5. SessionCovers(g)'
    <3>1. CASE w = Worker(g)
      BY <3>1, <2>1, <2>2, <2>3, <1>1, <1>2, <1>3, <1>6 DEF SessionCovers, Playing
    <3>2. CASE w = Watchdog(g)
      BY <3>2, <2>1, <2>2, <2>4, <1>1, <1>2, <1>3, <1>6 DEF SessionCovers
    <3> QED
      BY <3>1, <3>2
  <2>6. /\ (force' # 0 \/ spring' # 0) => marker' = TRUE
        /\ spring' \in Gens => force' = 0
    BY <2>1, <1>5, DeviceKept
  <2> QED
    BY <2>1, <2>5, <2>6, <1>5, SessionDisturbs
<1>8. CASE ClearMarker(w)
  <2>1. /\ Off
        /\ ~(pc[UI] \in {"write", "register", "publish"} /\ Motor(tok[UI]))
        /\ \A h \in Gens : ~(pc[Worker(h)] \in Playing /\ Motor(h))
    BY <1>8, MarkerNotNeeded DEF ClearMarker
  <2>2. /\ \A u \in Threads \ {w} : pc'[u] = pc[u]
        /\ pc'[w] \in {"unlease", Settled(w)}
        /\ UNCHANGED <<force, spring>>
    BY <1>8, <1>1 DEF ClearMarker
  <2>3. SessionCovers(g)'
    <3>1. pc'[w] \notin Playing \cup {"unmark"}
      BY <2>2, <1>3 DEF Playing
    <3>2. ~(pc'[Worker(g)] \in Playing /\ Motor(g))
      BY <3>1, <2>1, <2>2, <1>1
    <3> QED
      BY <3>1, <3>2, <2>2, <1>1, <1>2, <1>6 DEF SessionCovers
  <2>4. /\ (force' # 0 \/ spring' # 0) => marker' = TRUE
        /\ spring' \in Gens => force' = 0
    BY <2>1, <2>2 DEF Off
  <2> QED
    BY <2>1, <2>2, <2>3, <2>4, <1>5, SessionDisturbs
<1>9. CASE ReleaseLease(w)
  <2>1. /\ \A u \in Threads \ {w} : pc'[u] = pc[u]
        /\ pc'[w] = Settled(w)
        /\ UNCHANGED <<force, spring, marker>>
    BY <1>9, <1>1 DEF ReleaseLease
  <2>2. SessionCovers(g)'
    BY <2>1, <1>1, <1>2, <1>3, <1>6 DEF SessionCovers
  <2>3. /\ (force' # 0 \/ spring' # 0) => marker' = TRUE
        /\ spring' \in Gens => force' = 0
    BY <2>1, <1>5, DeviceKept
  <2> QED
    BY <2>1, <2>2, <2>3, <1>5, SessionDisturbs
<1>10. CASE RecordStop(w)
  <2>1. pc' = [Unwatched EXCEPT ![w] = "idle"] /\ w \in Watchdogs
    BY <1>10, <1>1 DEF RecordStop
  <2>2. \A u \in Threads : Unwatched[u] = pc[u] \/ (u \in Watchdogs /\ Unwatched[u] = "idle")
    BY UnwatchedFrame
  <2>3. Unwatched \in [Threads -> Labels]
    BY UnwatchedLabels
  <2>4. \A u \in Threads : pc'[u] = pc[u] \/ (u \in Watchdogs /\ pc'[u] = "idle")
    BY <2>1, <2>2, <2>3
  <2>5. UNCHANGED <<force, spring, marker>>
    BY <1>10 DEF RecordStop
  <2>6. SessionCovers(g)'
    BY <2>4, <2>5, <1>1, <1>2, <1>5, SessionCoverKept
  <2>7. /\ (force' # 0 \/ spring' # 0) => marker' = TRUE
        /\ spring' \in Gens => force' = 0
    BY <2>5, <1>5, DeviceKept
  <2> QED
    BY <2>4, <2>5, <2>6, <2>7, <1>5, SessionDisturbs
<1> QED
  BY <1>7, <1>8, <1>9, <1>10 DEF SafeStopStep

\* A worker plays under the marker of its session.
LEMMA WorkerCovers ==
  ASSUME Typed, Safe, Hold, UIDone, Cover, NEW g \in Gens, WatchdogFires(g) \/ WorkerStep(g)
  PROVE  Cover'
<1> USE DEF Goto, device, ownership, session, locals, Typed, TypeOK
<1>1. /\ Worker(g) \in Threads \ {UI} /\ Watchdog(g) \in Threads \ {UI} /\ Worker(g) # Watchdog(g)
      /\ UI \in Threads /\ tok[Worker(g)] = g /\ g # 0
  BY Distinct, Numbers DEF Safe, OwnTokens, Threads
<1>2. SessionCovers(g) /\ SessionHolds(g) /\ Owned
  BY DEF Cover, Hold
<1>3. /\ \A u \in Threads \ {Worker(g), Watchdog(g)} : pc'[u] = pc[u]
      /\ err'[UI] = err[UI]
      /\ UNCHANGED <<kind, tok, op, spring, marker, lease>>
  BY <1>1 DEF WatchdogFires, WorkerStep, Tick, LeaveLoop, Halt, Hang, ReportGame, Report, Exit
<1>4. Motor(g)' <=> Motor(g)
  BY <1>3 DEF Motor
<1>5. CASE Tick(g)
  <2>1. pc[Worker(g)] = "run" /\ Motor(g) /\ force' = g /\ pc' = pc
    BY <1>5 DEF Tick
  <2>2. Live(g) /\ marker = TRUE
    BY <2>1, <1>2 DEF Live, LiveLabels, SessionCovers, Playing
  <2>3. lease = g /\ lease # 0 /\ ~UIQuiet
    BY <2>2, LiveMeans
  <2>4. Begins
    BY <2>1, <2>3, <1>3 DEF Begins
  <2>5. spring \notin Gens
    BY <2>1, <2>3, <1>2 DEF Owned, SessionHolds
  <2>6. g # Orphan
    BY Numbers
  <2>7. pc[Watchdog(g)] # "unmark"
    BY <2>2 DEF Safe, Watched
  <2>8. SessionCovers(g)'
    BY <2>1, <2>2, <2>7, <1>3, <1>4 DEF SessionCovers
  <2> QED
    BY <2>1, <2>2, <2>4, <2>5, <2>8, <1>3, SessionDisturbs
<1>6. CASE Halt(g)
  <2>1. Live(g) /\ Reduced /\ pc'[Watchdog(g)] = pc[Watchdog(g)]
    BY <1>1, <1>3, <1>6 DEF Halt, Live, LiveLabels, Reduced
  <2>2. \/ pc'[Worker(g)] = Completed(Worker(g)) /\ (Motor(g) => force' = 0)
        \/ pc'[Worker(g)] = Settled(Worker(g))
    BY <1>1, <1>6 DEF Halt
  <2>3. /\ Completed(Worker(g)) = IF Motor(g) THEN "unmark" ELSE "unlease"
        /\ Settled(Worker(g)) \notin Playing \cup {"unmark"}
    BY <1>1, NotRevived DEF Completed, LiveLabels, Playing
  <2>4. pc[Watchdog(g)] # "unmark"
    BY <2>1 DEF Safe, Watched
  <2>5. SessionCovers(g)'
    BY <2>1, <2>2, <2>3, <2>4, <1>4 DEF SessionCovers, Playing
  <2>6. /\ (force' # 0 \/ spring' # 0) => marker' = TRUE
        /\ spring' \in Gens => force' = 0
    BY <2>1, <1>3, DeviceKept
  <2> QED
    BY <2>1, <2>5, <2>6, <1>3, SessionDisturbs
<1>7. CASE LeaveLoop(g) \/ Hang(g) \/ ReportGame(g) \/ Report(g) \/ Exit(g) \/ WatchdogFires(g)
  <2>1. force' = force
    BY <1>7 DEF LeaveLoop, Hang, ReportGame, Report, Exit, WatchdogFires
  <2>2. /\ pc'[Worker(g)] \in Playing => pc[Worker(g)] \in Playing
        /\ pc'[Worker(g)] = "unmark" => pc[Worker(g)] = "unmark"
        /\ pc'[Watchdog(g)] = "unmark" => pc[Watchdog(g)] = "unmark"
    BY <1>1, <1>7 DEF LeaveLoop, Hang, ReportGame, Report, Exit, WatchdogFires, Playing
  <2>3. SessionCovers(g)'
    BY <2>1, <2>2, <1>2, <1>3, <1>4 DEF SessionCovers
  <2>4. Reduced
    BY <2>1, <1>3 DEF Reduced
  <2>5. /\ (force' # 0 \/ spring' # 0) => marker' = TRUE
        /\ spring' \in Gens => force' = 0
    BY <2>4, <1>3, DeviceKept
  <2> QED
    BY <2>3, <2>4, <2>5, <1>3, SessionDisturbs
<1> QED
  BY <1>5, <1>6, <1>7 DEF WorkerStep

\* A step of another caller does not disturb it.
LEMMA OtherCovers ==
  ASSUME Typed, Safe, UIDone, Cover, OneStarter, NEW c \in Callers \ {UI},
         CallerStep(c) \/ SafeStopStep(c) \/ \E o \in Ops : Call(c, o)
  PROVE  Cover'
<1>1. TypeOK
  BY DEF Typed
<1>2. /\ UNCHANGED <<force, spring, marker, lease, generation, kind>>
      /\ \A u \in Threads \ {c} : pc'[u] = pc[u] /\ tok'[u] = tok[u] /\ err'[u] = err[u]
      /\ op'[UI] = op[UI]
  BY <1>1, OtherShape
<1>3. /\ UI \in Threads \ {c}
      /\ \A g \in Gens : Worker(g) \in Threads \ {c} /\ Watchdog(g) \in Threads \ {c}
  BY Distinct DEF Threads
<1>4. Reduced
  BY <1>2 DEF Reduced
<1>5. UICovers'
  BY <1>2, <1>3, <1>4, UICoversKept DEF Cover
<1>6. \A g \in Gens : SessionCovers(g)'
  BY <1>2, <1>3, <1>4, SessionCoverKept DEF Cover
<1>7. /\ (force' # 0 \/ spring' # 0) => marker' = TRUE
      /\ spring' \in Gens => force' = 0
  BY <1>2, <1>4, DeviceKept
<1> QED
  BY <1>5, <1>6, <1>7 DEF Cover

\* What plays when a process ends goes on playing, under the marker it was started with.
LEMMA BootCovers == (Init => Cover) /\ (Typed /\ Cover /\ Crash => Cover')
<1> USE Distinct, Numbers DEF Boot, NoOp
<1>1. UI \in Threads /\ UI \in Callers
      /\ \A g \in Gens : Worker(g) \in Threads \ {UI} /\ Watchdog(g) \in Threads \ {UI}
  BY DEF Threads
<1>2. ASSUME Init PROVE Cover
  <2>1. \A t \in Threads : pc[t] \in {"recover", "idle"} /\ (t # UI => pc[t] = "idle")
    BY <1>2 DEF Init
  <2>2. pc[UI] = "recover"
    BY <1>1, <1>2 DEF Init
  <2>3. UICovers
    BY <2>2 DEF UICovers
  <2>4. \A g \in Gens : SessionCovers(g)
    BY <1>1, <2>1 DEF SessionCovers, Playing
  <2> QED
    BY <1>2, <2>3, <2>4 DEF Cover, Init
<1>3. ASSUME Typed, Cover, Crash PROVE Cover'
  <2>1. \A t \in Threads : pc'[t] \in {"recover", "idle"} /\ (t # UI => pc'[t] = "idle")
    BY <1>3 DEF Crash
  <2>2. pc'[UI] = "recover"
    BY <1>1, <1>3 DEF Crash
  <2>3. UICovers'
    BY <2>2 DEF UICovers
  <2>4. \A g \in Gens : SessionCovers(g)'
    BY <1>1, <2>1, SessionCoverIdle
  <2>5. (force' # 0 \/ spring' # 0) => marker' = TRUE
    BY <1>3 DEF Crash, Cover
  <2>6. spring' \notin Gens
    BY <1>3 DEF Crash
  <2> QED
    BY <2>3, <2>4, <2>5, <2>6 DEF Cover
<1> QED
  BY <1>2, <1>3

\* What the theorems below rest on.
Sound == Typed /\ Safe /\ Hold /\ UIDone /\ Cover

\* Cover holds in every state of a behaviour that passes through no window of Gap.
LEMMA SoundInvariance == OneStarter => (Spec /\ []NoGap => []Sound)
<1> SUFFICES ASSUME OneStarter PROVE Spec /\ []NoGap => []Sound
  OBVIOUS
<1>1. Init => Cover
  BY BootCovers
<1>2. Typed /\ Safe /\ Hold /\ UIDone /\ Cover /\ NoGap /\ [Next]_vars => Cover'
  <2> SUFFICES ASSUME Typed, Safe, Hold, UIDone, Cover, NoGap, [Next]_vars PROVE Cover'
    OBVIOUS
  <2>1. CASE UNCHANGED vars
    BY <2>1 DEF vars, device, ownership, session, locals, Cover, UICovers, SessionCovers, Off, Motor
  <2>2. ASSUME NEW c \in Callers \ {UI},
               CallerStep(c) \/ SafeStopStep(c) \/ \E o \in Ops : Call(c, o)
        PROVE  Cover'
    BY <2>2, OtherCovers
  <2>3. ASSUME CallerStep(UI) \/ SafeStopStep(UI) \/ \E o \in Ops : Call(UI, o) PROVE Cover'
    BY <2>3, UIBookkeepingCovers, UIStopCovers, UILeaseCovers, UIWriteCovers, UIHandsOverCovered
       DEF CallerStep, SafeStopStep, UIBookkeeping
  <2>4. ASSUME NEW t \in Workers \cup Watchdogs, SafeStopStep(t) PROVE Cover'
    BY <2>4, SessionStopCovers DEF Workers, Watchdogs
  <2>5. ASSUME NEW g \in Gens, WatchdogFires(g) \/ WorkerStep(g) PROVE Cover'
    BY <2>5, WorkerCovers
  <2>6. CASE Crash
    BY <2>6, BootCovers
  <2> QED
    BY <2>1, <2>2, <2>3, <2>4, <2>5, <2>6 DEF Next, Threads
<1> QED
  BY <1>1, <1>2, Invariance, SafeInvariance, HoldInvariance, DoneInvariance, PTL DEF Spec, Sound

\* Whatever plays on the wheel is covered by the marker on disk, across failed stops, failed
\* markers and ends of the process: the next process finds it. The windows of Gap are the
\* only ways to lose the marker of an effect (MarkRuntimeOutputActive,
\* completeNativeMotorStop, RecoverRuntimeOutputIfNeeded).
THEOREM ForceIsCovered == OneStarter => (Spec /\ []NoGap => []ForceCovered)
<1> SUFFICES ASSUME OneStarter PROVE Spec /\ []NoGap => []ForceCovered
  OBVIOUS
<1>1. Sound => ForceCovered
  BY DEF Sound, Cover, ForceCovered
<1> QED
  BY <1>1, SoundInvariance, PTL

\* A stop that reports success has left a neutral wheel and no lease, whatever worker, timer
\* or failed write it met on its way, and also what a former process left on is off, unless
\* its marker was lost in a window of Gap (NativeOutputEmergencyStop, NativeOutputRelease,
\* stopHardwareForLifecycle).
THEOREM StopIsNeutral == OneStarter => (Spec /\ []NoGap => []StopMeansNeutral)
<1> SUFFICES ASSUME OneStarter PROVE Spec /\ []NoGap => []StopMeansNeutral
  OBVIOUS
<1>1. Sound => StopMeansNeutral
  <2> SUFFICES ASSUME Sound, NEW t \in Callers, pc[t] = "ok"
               PROVE  /\ op[t] = "emergency" => force = 0 /\ spring = 0 /\ lease = 0
                      /\ op[t] = "release" => force \notin Gens /\ spring \notin Gens /\ lease = 0
    BY DEF StopMeansNeutral
  <2>1. CASE t = UI
    BY <2>1, Numbers DEF Sound, Cover, UICovers, UIDone, Off, Hold, Owned
  <2>2. CASE t # UI
    BY <2>2 DEF Sound, Safe, Others
  <2> QED
    BY <2>1, <2>2
<1> QED
  BY <1>1, SoundInvariance, PTL

-----------------------------------------------------------------------------
(* The coordinator keeps the contract of MotorContract, step by step.      *)

Promise == [Contract!ContractNext]_(Contract!contract)

\* What plays is an effect of this process, or what a former one left on.
Single == (spring \in Gens => force = 0) /\ (force \in Gens => spring = 0)

\* Outside the windows of Gap a game is alone on the wheel, too.
LEMMA OneEffect ==
  ASSUME Typed, Hold, Cover, NoGap
  PROVE  Single
<1> SUFFICES ASSUME force \in Gens PROVE spring = 0
  BY DEF Single, Cover
<1>1. lease = force /\ Motor(lease) /\ lease # 0
  BY Numbers DEF Hold, Owned, Slots, Motor
<1>2. spring # Orphan
  BY <1>1 DEF NoGap, Gap, OrphanSpring, Drives
<1>3. spring \notin Gens
  BY Numbers DEF Cover
<1> QED
  BY <1>2, <1>3 DEF Typed, TypeOK

\* A step that changes neither wheel, marker, lease nor what a lease is for.
LEMMA PromiseStutter ==
  ASSUME UNCHANGED <<force, spring, marker, lease, kind>>
  PROVE  Promise
BY DEF Promise, Contract!contract, Motor

\* The wheel is made neutral, or a part of the reports does it.
LEMMA PromiseNeutralise ==
  ASSUME Typed, Single, Reduced, UNCHANGED <<marker, lease, kind>>
  PROVE  Promise
<1>1. /\ force \in {0, Orphan} \cup Gens /\ spring \in {0, Orphan} \cup Gens
      /\ Orphan # 0 /\ Orphan \notin Gens /\ 0 \notin Gens
  BY Numbers, MotorAssumption DEF Typed, TypeOK
<1>2. CASE force' = 0 /\ spring' = 0
  <2>1. Contract!Neutralise
    BY <1>2 DEF Contract!Neutralise, Motor
  <2> QED
    BY <2>1 DEF Promise, Contract!ContractNext
<1>3. CASE ~(force' = 0 /\ spring' = 0)
  <2>1. (force' \in Gens \/ spring' \in Gens) <=> (force \in Gens \/ spring \in Gens)
    BY <1>1, <1>3 DEF Single, Reduced
  <2>2. ~(force = 0 /\ spring = 0)
    BY <1>3 DEF Reduced
  <2>3. Contract!contract' = Contract!contract
    BY <1>3, <2>1, <2>2 DEF Contract!contract, Motor
  <2> QED
    BY <2>3 DEF Promise
<1> QED
  BY <1>2, <1>3

\* The marker is deleted while nothing plays.
LEMMA PromiseForget ==
  ASSUME Off, marker' = FALSE, UNCHANGED <<force, spring, lease, kind>>
  PROVE  Promise
<1>1. Contract!Forget
  BY DEF Contract!Forget, Off, Motor
<1> QED
  BY <1>1 DEF Promise, Contract!ContractNext

\* A lease is given back while nothing of this process plays.
LEMMA PromiseYield ==
  ASSUME Silent, lease' \in {lease, 0}, UNCHANGED <<force, spring, marker, kind>>
  PROVE  Promise
<1>1. CASE lease' = lease
  BY <1>1, PromiseStutter
<1>2. CASE lease' = 0
  <2>1. Contract!Yield
    BY <1>2 DEF Contract!Yield, Silent
  <2> QED
    BY <2>1 DEF Promise, Contract!ContractNext
<1> QED
  BY <1>1, <1>2

\* The holder of the lease plays, under a marker.
LEMMA PromiseDrive ==
  ASSUME NEW g \in Gens, Motor(g), lease = g, marker = TRUE, force' = g \/ spring' = g,
         UNCHANGED <<marker, lease, kind>>
  PROVE  Promise
<1>1. Contract!Drive
  BY Numbers DEF Contract!Drive, Motor
<1> QED
  BY <1>1 DEF Promise, Contract!ContractNext

\* A motor session acquires the lease; a session without a motor does not concern the contract.
LEMMA PromiseClaim ==
  ASSUME Typed, Acquire(UI)
  PROVE  Promise
<1> USE DEF Typed, TypeOK, device
<1>1. /\ lease = 0 /\ lease' \in Gens /\ UNCHANGED <<force, spring, marker>>
  BY MotorAssumption DEF Acquire, Gens
<1>2. CASE Motor(lease)'
  <2>1. Contract!Claim
    BY <1>1, <1>2, Numbers DEF Contract!Claim
  <2> QED
    BY <2>1 DEF Promise, Contract!ContractNext
<1>3. CASE ~Motor(lease)'
  BY <1>1, <1>3 DEF Promise, Contract!contract
<1> QED
  BY <1>2, <1>3

\* The marker is written by a motor session that holds the lease.
LEMMA PromiseNote ==
  ASSUME Typed, Safe, Hold, Cover, MarkActive(UI)
  PROVE  Promise
<1> USE DEF Typed, TypeOK, device, ownership
<1>1. UNCHANGED <<force, spring, lease, kind>> /\ marker' \in {marker, TRUE}
  BY DEF MarkActive
<1>2. CASE marker' = marker
  BY <1>1, <1>2, PromiseStutter
<1>3. CASE marker' = TRUE
  <2>1. Motor(lease) /\ lease # 0
    <3>1. pc[UI] = "mark"
      BY DEF MarkActive
    <3>2. kind[tok[UI]] = op[UI] /\ op[UI] \in {"slot", "spring", "game"} /\ lease = tok[UI]
      BY <3>1 DEF Hold, UIHolds, Safe, StartOwned, Starting
    <3>3. tok[UI] # 0
      BY <3>1, Distinct DEF TokenHeld, Held, Holding
    <3> QED
      BY <3>2, <3>3 DEF Motor
  <2>2. Contract!Note
    BY <2>1, <1>1, <1>3 DEF Contract!Note, Motor
  <2> QED
    BY <2>2 DEF Promise, Contract!ContractNext
<1> QED
  BY <1>1, <1>2, <1>3

\* A step of the UI thread is a step of the contract, or none.
LEMMA UIPromises ==
  ASSUME Typed, Safe, Hold, UIDone, Cover, NoGap,
         CallerStep(UI) \/ SafeStopStep(UI) \/ \E o \in Ops : Call(UI, o)
  PROVE  Promise
<1> USE DEF device, ownership, session, locals
<1>1. UIHolds /\ UICovers /\ Owned /\ Single
  BY OneEffect DEF Cover, Hold
<1>2. CASE UIBookkeeping
  BY <1>2, PromiseStutter DEF UIBookkeeping, Return, Survey, CancelSession, WorkerEnded, WorkerTimeout,
     Target, Conclude, AcquireRefused, RecordOutput, GameStopped, RecordStop, Call
<1>3. CASE BestEffort(UI) \/ Recover(UI) \/ WriteNeutral(UI)
  <2>1. Reduced /\ UNCHANGED <<marker, lease, kind>>
    BY <1>3 DEF BestEffort, Recover, WriteNeutral, Neutralised, NeutralFails, Reduced
  <2> QED
    BY <2>1, <1>1, PromiseNeutralise
<1>4. CASE MarkActive(UI)
  BY <1>4, PromiseNote
<1>5. CASE ClearMarker(UI)
  <2>1. Off
    BY <1>1, <1>5 DEF ClearMarker, UIHolds
  <2> QED
    BY <2>1, <1>5, PromiseForget, PromiseStutter DEF ClearMarker
<1>6. CASE Forget(UI)
  <2>1. pc[UI] = "forget" /\ force # Orphan /\ spring # Orphan
    BY <1>1, <1>6 DEF Forget, UICovers
  <2>2. ~(lease # 0 /\ Motor(lease))
    BY <2>1, Distinct DEF NoGap, Gap, LateRecovery, Drives
  <2>3. force \notin Gens /\ spring \notin Gens
    BY <2>2, <1>1, Numbers DEF Owned, Slots, Motor
  <2>4. Off
    BY <2>1, <2>3 DEF Off, Typed, TypeOK
  <2> QED
    BY <2>4, <1>6, PromiseForget, PromiseStutter DEF Forget
<1>7. CASE Acquire(UI)
  BY <1>7, PromiseClaim
<1>8. CASE DropLease(UI)
  <2>1. Silent
    BY <1>1, <1>8 DEF DropLease, UIHolds
  <2> QED
    BY <2>1, <1>8, PromiseYield DEF DropLease, Released
<1>9. CASE ReleaseLease(UI)
  <2>1. Silent
    BY <1>1, <1>9, Numbers DEF ReleaseLease, UIHolds, Off, Silent
  <2> QED
    BY <2>1, <1>9, PromiseYield DEF ReleaseLease, Released
<1>10. CASE FirstWrite(UI)
  <2>1. pc[UI] = "write" /\ UNCHANGED <<marker, lease, kind>>
    BY <1>10 DEF FirstWrite
  <2>2. kind[tok[UI]] = op[UI] /\ lease = tok[UI] /\ tok[UI] \in Gens
    <3>1. tok[UI] \in 0..MaxGen /\ tok[UI] # 0
      BY <2>1, Distinct DEF Typed, TypeOK, TokenHeld, Held, Holding, Threads
    <3> QED
      BY <2>1, <3>1, <1>1, MotorAssumption DEF UIHolds, Safe, StartOwned, Starting, Gens
  <2>3. \/ UNCHANGED <<force, spring>>
        \/ (force' = tok[UI] \/ spring' = tok[UI]) /\ Motor(tok[UI])
    BY <1>10, <2>2 DEF FirstWrite, Motor
  <2>4. Motor(tok[UI]) => marker = TRUE
    BY <2>1, <1>1 DEF UICovers, Typed, TypeOK
  <2> QED
    BY <2>1, <2>2, <2>3, <2>4, PromiseStutter, PromiseDrive
<1>11. CASE Register(UI) \/ PublishGame(UI) \/ ArmWatchdog(UI)
  BY <1>11, PromiseStutter DEF Register, PublishGame, ArmWatchdog
<1> QED
  BY <1>2, <1>3, <1>4, <1>5, <1>6, <1>7, <1>8, <1>9, <1>10, <1>11
     DEF CallerStep, SafeStopStep, UIBookkeeping

\* So is a step of a worker or a timer.
LEMMA SessionPromises ==
  ASSUME Typed, Safe, Hold, Cover, NoGap, NEW g \in Gens,
         \/ WatchdogFires(g) \/ WorkerStep(g)
         \/ \E w \in {Worker(g), Watchdog(g)} : SafeStopStep(w)
  PROVE  Promise
<1> USE DEF device, ownership, session, locals
<1>1. SessionCovers(g) /\ SessionHolds(g) /\ Owned /\ Single
  BY OneEffect DEF Cover, Hold
<1>2. CASE Tick(g)
  <2>1. pc[Worker(g)] = "run" /\ Motor(g) /\ force' = g /\ UNCHANGED <<marker, lease, kind>>
    BY <1>2 DEF Tick
  <2>2. marker = TRUE /\ lease = g
    BY <2>1, <1>1, LiveMeans DEF SessionCovers, Playing, Live, LiveLabels, Typed, TypeOK
  <2> QED
    BY <2>1, <2>2, PromiseDrive
<1>3. CASE Halt(g)
  <2>1. Reduced /\ UNCHANGED <<marker, lease, kind>>
    BY <1>3 DEF Halt, Reduced
  <2> QED
    BY <2>1, <1>1, PromiseNeutralise
<1>4. CASE WatchdogFires(g) \/ LeaveLoop(g) \/ Hang(g) \/ ReportGame(g) \/ Report(g) \/ Exit(g)
  BY <1>4, PromiseStutter DEF WatchdogFires, LeaveLoop, Hang, ReportGame, Report, Exit
<1>5. ASSUME NEW w \in {Worker(g), Watchdog(g)}, SafeStopStep(w) PROVE Promise
  <2>1. tok[w] = g
    BY DEF Safe, OwnTokens
  <2>2. CASE WriteNeutral(w)
    <3>1. Reduced /\ UNCHANGED <<marker, lease, kind>>
      BY <2>2 DEF WriteNeutral, Neutralised, NeutralFails, Reduced
    <3> QED
      BY <3>1, <1>1, PromiseNeutralise
  <2>3. CASE ClearMarker(w)
    <3>1. Off
      BY <2>3, MarkerNotNeeded DEF ClearMarker
    <3> QED
      BY <3>1, <2>3, PromiseForget, PromiseStutter DEF ClearMarker
  <2>4. CASE ReleaseLease(w)
    <3>1. lease = g => Silent
      <4>1. pc[w] = "unlease"
        BY <2>4 DEF ReleaseLease
      <4>2. CASE w = Worker(g)
        BY <4>1, <4>2, <1>1, Numbers DEF SessionHolds, Finishing, Owned, Silent
      <4>3. CASE w = Watchdog(g)
        BY <4>1, <4>3, <1>1, Numbers DEF SessionHolds, Finishing, Owned, Silent, Slots
      <4> QED
        BY <4>2, <4>3
    <3>2. (lease' = lease \/ (lease' = 0 /\ lease = g)) /\ UNCHANGED <<force, spring, marker, kind>>
      BY <2>1, <2>4 DEF ReleaseLease, Released
    <3> QED
      BY <3>1, <3>2, PromiseYield, PromiseStutter
  <2>5. CASE RecordStop(w)
    BY <2>5, PromiseStutter DEF RecordStop
  <2> QED
    BY <1>5, <2>2, <2>3, <2>4, <2>5 DEF SafeStopStep
<1> QED
  BY <1>2, <1>3, <1>4, <1>5 DEF WorkerStep

\* The end of the process is that of the contract: what played plays on as an orphan.
LEMMA CrashPromises ==
  ASSUME Typed, Crash
  PROVE  Promise
<1>1. /\ lease' = 0 /\ marker' = marker
      /\ force' = IF force = 0 THEN 0 ELSE Orphan
      /\ spring' = IF spring = 0 THEN 0 ELSE Orphan
  BY DEF Crash
<1>2. Orphan # 0 /\ Orphan \notin Gens
  BY MotorAssumption DEF Gens
<1>3. Contract!ProcessEnds
  BY <1>1, <1>2, Numbers DEF Contract!ProcessEnds
<1> QED
  BY <1>3 DEF Promise, Contract!ContractNext

\* Outside the windows of Gap the coordinator implements the contract: a motor session is
\* acquired before the marker, the marker is on disk before the first report, it is deleted
\* only while the wheel is neutral, and no lease is given back under a motor that plays.
THEOREM CoordinatorKeepsContract == OneStarter => (Spec /\ []NoGap => KeepsContract)
<1> SUFFICES ASSUME OneStarter PROVE Spec /\ []NoGap => KeepsContract
  OBVIOUS
<1>1. Init => Contract!ContractInit
  BY DEF Init, Contract!ContractInit
<1>2. Sound /\ NoGap /\ [Next]_vars => [Contract!ContractNext]_(Contract!contract)
  <2> SUFFICES ASSUME Sound, NoGap, [Next]_vars PROVE Promise
    BY DEF Promise
  <2> USE DEF Sound
  <2>1. CASE UNCHANGED vars
    BY <2>1, PromiseStutter DEF vars, device, ownership
  <2>2. ASSUME NEW c \in Callers \ {UI},
               CallerStep(c) \/ SafeStopStep(c) \/ \E o \in Ops : Call(c, o)
        PROVE  Promise
    <3>1. TypeOK
      BY DEF Typed
    <3>2. UNCHANGED <<force, spring, marker, lease, generation, kind>>
      BY <2>2, <3>1, OtherShape
    <3> QED
      BY <3>2, PromiseStutter
  <2>3. ASSUME CallerStep(UI) \/ SafeStopStep(UI) \/ \E o \in Ops : Call(UI, o) PROVE Promise
    BY <2>3, UIPromises
  <2>4. ASSUME NEW g \in Gens, NEW w \in {Worker(g), Watchdog(g)}, SafeStopStep(w) PROVE Promise
    BY <2>4, SessionPromises
  <2>5. ASSUME NEW g \in Gens, WatchdogFires(g) \/ WorkerStep(g) PROVE Promise
    BY <2>5, SessionPromises
  <2>6. CASE Crash
    BY <2>6, CrashPromises
  <2> QED
    BY <2>1, <2>2, <2>3, <2>4, <2>5, <2>6 DEF Next, Threads, Workers, Watchdogs
<1> QED
  BY <1>1, <1>2, SoundInvariance, PTL DEF Spec, KeepsContract, Contract!ContractSpec

\* The contract itself is coherent: a motor this process drives has an owner, and whatever
\* motor is not off has evidence on disk, also across the end of a process.
THEOREM ContractKept == Contract!ContractSpec => []Contract!Kept
<1> USE DEF Contract!Kept
<1>1. Contract!ContractInit => Contract!Kept
  BY DEF Contract!ContractInit
<1>2. Contract!Kept /\ [Contract!ContractNext]_(Contract!contract) => Contract!Kept'
  BY DEF Contract!ContractNext, Contract!contract, Contract!Claim, Contract!Note, Contract!Drive,
     Contract!Neutralise, Contract!Forget, Contract!Yield, Contract!ProcessEnds
<1> QED
  BY <1>1, <1>2, PTL DEF Contract!ContractSpec

=============================================================================
