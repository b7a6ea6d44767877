------------------------------ MODULE OutputLease ------------------------------
(***************************************************************************)
(* The native output lease: a process-local token, issued under a Go       *)
(* mutex, backed by the Windows named mutex                                *)
(* Global\LogiMate.NativeOutput.v1 that several LogiMate processes share   *)
(* (src/internal/system/output_lease_windows.go). The switch of a wheel    *)
(* into its native mode takes that mutex too, but not the lease            *)
(* (src/internal/system/g27_shared_hid_windows.go).                        *)
(*                                                                         *)
(* A Windows mutex belongs to the OS thread whose wait succeeded: waiting  *)
(* again from that thread nests, ReleaseMutex from any other thread fails, *)
(* and the object dies with its last handle. The code ignores the result   *)
(* of ReleaseMutex, and a goroutine may run on another OS thread when it   *)
(* releases than when it acquired. Every system call below therefore       *)
(* chooses its thread anew.                                                *)
(***************************************************************************)
EXTENDS Naturals, FiniteSets

CONSTANTS Processes,      \* LogiMate processes sharing the Windows session
          Threads,        \* OS threads of one process
          Switchers,      \* goroutines of one process that switch a wheel's mode
          Free,           \* the mutex's owner when no thread owns it
          MaxGeneration,  \* bound on the leases one process issues
          MaxDepth        \* bound on the nesting of waits at which a switch begins

ASSUME LeaseAssumption ==
  /\ MaxGeneration \in Nat /\ MaxDepth \in Nat
  /\ Free \notin Processes \X Threads
  /\ Switchers \cap Nat = {}

VARIABLES
  locked,      \* processes that are inside acquireNativeOutputLease, with its lock
  generation,  \* nativeOutputLease.generation of each process
  token,       \* generation of nativeOutputLease.token, 0 for nil
  releasing,   \* <<p, g>>: token g of p is dropped, its named mutex not yet
  switching,   \* <<p, s>>: s of p has the named mutex and sends mode reports
  owner,       \* the <<process, thread>> that owns the named mutex, or Free
  depth,       \* how many waits of the owner are not released
  handles      \* open handles: <<p, g>> of a lease, g = 0 until the wait has
               \* succeeded, and <<p, s>> of a mode switch

vars == <<locked, generation, token, releasing, switching, owner, depth, handles>>

Generations == 0..MaxGeneration

TypeOK ==
  /\ locked \subseteq Processes
  /\ generation \in [Processes -> Generations]
  /\ token \in [Processes -> Generations]
  /\ releasing \subseteq Processes \X Generations
  /\ switching \subseteq Processes \X Switchers
  /\ owner \in (Processes \X Threads) \cup {Free}
  /\ depth \in Nat
  /\ handles \subseteq Processes \X (Generations \cup Switchers)

Init ==
  /\ locked = {}
  /\ generation = [p \in Processes |-> 0]
  /\ token = [p \in Processes |-> 0]
  /\ releasing = {}
  /\ switching = {}
  /\ owner = Free
  /\ depth = 0
  /\ handles = {}

-----------------------------------------------------------------------------
(* The named mutex, as the operating system defines it.                    *)

\* Mutant: the result of the wait is not looked at.
WaitIgnored(p, t) ==
  /\ owner' = <<p, t>>
  /\ depth' = depth + 1

\* WaitForSingleObject with a zero timeout, called by thread t of process p.
WaitSucceeds(p, t) ==
  /\ owner \in {Free, <<p, t>>}
  /\ owner' = <<p, t>>
  /\ depth' = depth + 1

\* The owner and depth that are left when open is what remains of the handles:
\* closing the last handle destroys the object, whoever owned it.
Settle(open, who, nested) ==
  /\ handles' = open
  /\ owner' = IF open = {} \/ nested = 0 THEN Free ELSE who
  /\ depth' = IF open = {} THEN 0 ELSE nested

\* Mutant: the handle is not closed after ReleaseMutex.
ReleaseOnly(p, t, g) ==
  Settle(handles, owner, IF owner = <<p, t>> THEN depth - 1 ELSE depth)

\* ReleaseMutex by thread t, which fails unless t is the owner, then CloseHandle.
ReleaseAndClose(p, t, g) ==
  Settle(handles \ {<<p, g>>}, owner, IF owner = <<p, t>> THEN depth - 1 ELSE depth)

-----------------------------------------------------------------------------
(* The lease operations.                                                   *)

\* The token is nil under the lock; CreateMutexW opens a handle.
BeginAcquire(p) ==
  /\ p \notin locked
  /\ token[p] = 0
  /\ generation[p] < MaxGeneration
  /\ locked' = locked \cup {p}
  /\ handles' = handles \cup {<<p, 0>>}
  /\ UNCHANGED <<generation, token, releasing, switching, owner, depth>>

\* The wait succeeds: the next generation becomes the token.
Acquire(p, t) ==
  /\ p \in locked
  /\ WaitSucceeds(p, t)
  /\ locked' = locked \ {p}
  /\ generation' = [generation EXCEPT ![p] = @ + 1]
  /\ token' = [token EXCEPT ![p] = generation[p] + 1]
  /\ handles' = (handles \ {<<p, 0>>}) \cup {<<p, generation[p] + 1>>}
  /\ UNCHANGED <<releasing, switching>>

\* The wait times out: the handle is closed and the call fails.
AcquireBusy(p, t) ==
  /\ p \in locked
  /\ owner \notin {Free, <<p, t>>}
  /\ locked' = locked \ {p}
  /\ Settle(handles \ {<<p, 0>>}, owner, depth)
  /\ UNCHANGED <<generation, token, releasing, switching>>

\* A holder of the current generation drops the token. A copy of an older
\* generation changes nothing: that release returns false.
DropToken(p) ==
  /\ p \notin locked
  /\ token[p] # 0
  /\ token' = [token EXCEPT ![p] = 0]
  /\ releasing' = releasing \cup {<<p, token[p]>>}
  /\ UNCHANGED <<locked, generation, switching, owner, depth, handles>>

\* Mutant: one release of the token releases the mutex more than once.
ReleaseTwice(p, t, g) ==
  /\ <<p, g>> \in releasing
  /\ ReleaseAndClose(p, t, g)
  /\ UNCHANGED <<locked, generation, token, releasing, switching>>

\* releaseNamedMutex, after the lock was given up.
ReleaseNamedMutex(p, t, g) ==
  /\ <<p, g>> \in releasing
  /\ releasing' = releasing \ {<<p, g>>}
  /\ ReleaseAndClose(p, t, g)
  /\ UNCHANGED <<locked, generation, token, switching>>

-----------------------------------------------------------------------------
(* sendNativeModeReports, which nobody asks whether it holds a lease.      *)

BeginSwitch(p, s) ==
  /\ <<p, s>> \notin handles
  /\ depth < MaxDepth
  /\ handles' = handles \cup {<<p, s>>}
  /\ UNCHANGED <<locked, generation, token, releasing, switching, owner, depth>>

SwitchGranted(p, s, t) ==
  /\ <<p, s>> \in handles \ switching
  /\ WaitSucceeds(p, t)
  /\ switching' = switching \cup {<<p, s>>}
  /\ UNCHANGED <<locked, generation, token, releasing, handles>>

SwitchBusy(p, s, t) ==
  /\ <<p, s>> \in handles \ switching
  /\ owner \notin {Free, <<p, t>>}
  /\ Settle(handles \ {<<p, s>>}, owner, depth)
  /\ UNCHANGED <<locked, generation, token, releasing, switching>>

\* The reports are sent or failed; the deferred release of the mutex.
SwitchDone(p, s, t) ==
  /\ <<p, s>> \in switching
  /\ switching' = switching \ {<<p, s>>}
  /\ ReleaseAndClose(p, t, s)
  /\ UNCHANGED <<locked, generation, token, releasing>>

-----------------------------------------------------------------------------

\* The process ends: its handles are closed, a mutex it owned is abandoned, and
\* the next process of that name starts with a fresh counter.
ProcessExit(p) ==
  LET open == {h \in handles : h[1] # p}
      lost == owner # Free /\ owner[1] = p
  IN /\ locked' = locked \ {p}
     /\ generation' = [generation EXCEPT ![p] = 0]
     /\ token' = [token EXCEPT ![p] = 0]
     /\ releasing' = {r \in releasing : r[1] # p}
     /\ switching' = {w \in switching : w[1] # p}
     /\ Settle(open, owner, IF lost THEN 0 ELSE depth)

Next ==
  \E p \in Processes :
    \/ BeginAcquire(p)
    \/ DropToken(p)
    \/ ProcessExit(p)
    \/ \E s \in Switchers : BeginSwitch(p, s)
    \/ \E t \in Threads :
         \/ Acquire(p, t)
         \/ AcquireBusy(p, t)
         \/ \E g \in Generations : ReleaseNamedMutex(p, t, g)
         \/ \E s \in Switchers : \/ SwitchGranted(p, s, t)
                                \/ SwitchBusy(p, s, t)
                                \/ SwitchDone(p, s, t)

Spec == Init /\ [][Next]_vars

-----------------------------------------------------------------------------
(* Properties.                                                             *)

\* The processes that may write reports: holders of a lease, senders of a mode
\* switch.
Writers ==
  {p \in Processes : token[p] # 0 \/ \E s \in Switchers : <<p, s>> \in switching}

\* Two processes never write at once, although a release gives up the token first
\* and may call ReleaseMutex from a thread that does not own the mutex
\* (releaseNativeOutputLease, releaseNamedMutex, sendNativeModeReports).
Exclusive == \A p, q \in Writers : p = q

\* A lease is always backed by the named mutex, also in the window in which an
\* older lease of the same process is still being released.
Backed ==
  \A p \in Processes :
    token[p] # 0 => /\ owner # Free
                    /\ owner[1] = p
                    /\ <<p, token[p]>> \in handles

\* No release leaks the mutex: once no process holds, acquires or releases a
\* lease or switches a mode, the mutex is free again and the next acquisition
\* cannot be refused.
NotLeaked ==
  (/\ releasing = {} /\ locked = {}
   /\ \A p \in Processes : token[p] = 0
   /\ \A p \in Processes, s \in Switchers : <<p, s>> \notin handles)
    => owner = Free

=============================================================================
