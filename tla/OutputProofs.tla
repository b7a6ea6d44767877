----------------------------- MODULE OutputProofs -----------------------------
(***************************************************************************)
(* Proofs about the two ends of the output to the wheel: who may write,    *)
(* OutputLease, for any set of processes and threads, and what a game's    *)
(* force does, GameForce, for any adapters, frames, tunings and range.     *)
(*                                                                         *)
(* The exclusion of the lease is not inductive. What carries it is an      *)
(* account of the open handles: those of a process are its pending         *)
(* acquisition, its token, the tokens it is still releasing and its mode   *)
(* switches. As long as a process has a handle whose wait succeeded, one   *)
(* of its threads owns the mutex, nested at least as deep as the process   *)
(* has such handles.                                                       *)
(*                                                                         *)
(* That a force needs a frame that asks for it rests on the age of such a  *)
(* frame, which bounds the pumps since it came, and on two quantities that *)
(* fall with every pump after it: the filter's last value and then the     *)
(* force.                                                                  *)
(***************************************************************************)
EXTENDS OutputLease, GameForce, FiniteSetTheorems, TLAPS

(***************************************************************************)
(* The lease.                                                              *)
(***************************************************************************)

\* The handles of p that a wait succeeded for and that are not closed yet.
Won(p) ==
  {h \in handles : h[1] = p /\ h[2] # 0 /\ (h[2] \in Switchers => h \in switching)}

\* Every open handle is accounted for.
HandleAccount ==
  /\ IsFiniteSet(handles)
  /\ \A p \in Processes :
       /\ <<p, 0>> \in handles <=> p \in locked
       /\ p \in locked => token[p] = 0 /\ generation[p] < MaxGeneration
       /\ token[p] <= generation[p]
       /\ \A g \in Generations \ {0} :
            /\ <<p, g>> \in handles <=> (g = token[p] \/ <<p, g>> \in releasing)
            /\ <<p, g>> \in releasing => g <= generation[p] /\ g # token[p]
       /\ <<p, 0>> \notin releasing
  /\ switching \subseteq handles

\* A process with a won handle owns the mutex, deep enough for all of them.
OwnerAccount ==
  /\ owner # Free => depth > 0 /\ handles # {}
  /\ \A p \in Processes :
       Won(p) # {} => /\ owner \in {p} \X Threads
                      /\ Cardinality(Won(p)) <= depth

IInv == TypeOK /\ HandleAccount /\ OwnerAccount

-----------------------------------------------------------------------------

\* The two kinds of handles are never confused.
LEMMA HandleKinds == \A g \in Generations : g \in Nat /\ g \notin Switchers
BY LeaseAssumption DEF Generations

\* No process holds anything in the initial state.
LEMMA InitIInv == Init => IInv
<1> SUFFICES ASSUME Init PROVE IInv
  OBVIOUS
<1>1. TypeOK
  BY LeaseAssumption DEF Init, TypeOK, Generations
<1>2. HandleAccount
  BY FS_EmptySet DEF Init, HandleAccount, Generations
<1>3. OwnerAccount
  BY DEF Init, OwnerAccount, Won
<1> QED
  BY <1>1, <1>2, <1>3 DEF IInv

\* CreateMutexW adds a handle that nothing was won with.
LEMMA BeginAcquireIInv ==
  ASSUME IInv, NEW p \in Processes, BeginAcquire(p)
  PROVE  IInv'
<1> USE LeaseAssumption DEF IInv, BeginAcquire
<1>1. TypeOK'
  BY DEF TypeOK, Generations
<1>2. HandleAccount'
  BY FS_AddElement DEF HandleAccount, TypeOK, Generations
<1>3. \A q \in Processes : Won(q)' = Won(q)
  BY DEF Won
<1>4. OwnerAccount'
  BY <1>3 DEF OwnerAccount, TypeOK
<1> QED
  BY <1>1, <1>2, <1>4

\* A successful wait adds one won handle and one level of nesting, and no other
\* process has a won handle then.
LEMMA AcquireIInv ==
  ASSUME IInv, NEW p \in Processes, NEW t \in Threads, Acquire(p, t)
  PROVE  IInv'
<1> USE LeaseAssumption DEF IInv, Acquire, WaitSucceeds
<1> DEFINE g == generation[p] + 1
<1>0. g \in Generations /\ g # 0 /\ generation[p] \in Nat /\ g > generation[p]
  <2>1. p \in locked /\ generation[p] < MaxGeneration /\ MaxGeneration \in Nat
    BY DEF HandleAccount
  <2>2. generation[p] \in 0..MaxGeneration
    BY DEF TypeOK, Generations
  <2> QED
    BY <2>1, <2>2 DEF Generations
<1>1. g \in Generations /\ g # 0 /\ <<p, g>> \notin handles /\ <<p, g>> \notin releasing
  <2>1. token[p] <= generation[p] /\ token[p] \in 0..MaxGeneration
    BY DEF HandleAccount, TypeOK, Generations
  <2>2. <<p, g>> \in releasing => g <= generation[p]
    BY <1>0 DEF HandleAccount
  <2>3. g # token[p] /\ <<p, g>> \notin releasing
    BY <1>0, <2>1, <2>2
  <2> QED
    BY <1>0, <2>3 DEF HandleAccount
<1>2. TypeOK'
  BY <1>1 DEF TypeOK
<1>3. HandleAccount'
  <2>1. IsFiniteSet(handles')
    BY FS_AddElement, FS_RemoveElement DEF HandleAccount
  <2>2. ASSUME NEW q \in Processes
        PROVE  /\ <<q, 0>> \in handles' <=> q \in locked'
               /\ q \in locked' => token'[q] = 0 /\ generation'[q] < MaxGeneration
               /\ token'[q] <= generation'[q]
               /\ <<q, 0>> \notin releasing'
    BY <1>1 DEF TypeOK, HandleAccount, Generations
  <2>3. ASSUME NEW q \in Processes, NEW n \in Generations \ {0}
        PROVE  /\ <<q, n>> \in handles' <=> (n = token'[q] \/ <<q, n>> \in releasing')
               /\ <<q, n>> \in releasing' => n <= generation'[q] /\ n # token'[q]
    <3>1. CASE q = p
      <4>1. token'[q] = g /\ generation'[q] = g /\ token[q] = 0
        BY <3>1 DEF TypeOK, HandleAccount
      <4>2. <<q, n>> \in handles' <=> (n = g \/ <<q, n>> \in handles)
        BY <3>1
      <4>3. <<q, n>> \in releasing => n <= g /\ n # g
        <5>1. <<q, n>> \in releasing => n <= generation[p]
          BY <3>1 DEF HandleAccount
        <5>2. n \in Nat
          BY DEF Generations
        <5> QED
          BY <1>0, <5>1, <5>2
      <4> QED
        BY <3>1, <4>1, <4>2, <4>3 DEF HandleAccount
    <3>2. CASE q # p
      <4>1. token'[q] = token[q] /\ generation'[q] = generation[q]
        BY <3>2 DEF TypeOK
      <4>2. <<q, n>> \in handles' <=> <<q, n>> \in handles
        BY <3>2
      <4> QED
        BY <4>1, <4>2 DEF HandleAccount
    <3> QED
      BY <3>1, <3>2
  <2>4. switching' \subseteq handles'
    BY DEF HandleAccount, TypeOK
  <2> QED
    BY <2>1, <2>2, <2>3, <2>4 DEF HandleAccount
<1>4. OwnerAccount'
  <2>1. Won(p)' = Won(p) \cup {<<p, g>>} /\ <<p, g>> \notin Won(p)
    BY <1>1 DEF Won, TypeOK, Generations
  <2>2. \A q \in Processes \ {p} : Won(q)' = Won(q)
    BY DEF Won
  <2>3. IsFiniteSet(Won(p))
    BY FS_Subset DEF Won, HandleAccount
  <2>4. Cardinality(Won(p)') = Cardinality(Won(p)) + 1
    BY <2>1, <2>3, FS_AddElement
  <2>5. Cardinality(Won(p)) <= depth
    <3>1. CASE Won(p) = {}
      BY <3>1, FS_EmptySet DEF TypeOK
    <3>2. CASE Won(p) # {}
      BY <3>2 DEF OwnerAccount
    <3> QED
      BY <3>1, <3>2
  <2>6. \A q \in Processes \ {p} : Won(q) = {}
    BY DEF OwnerAccount, TypeOK
  <2>7. depth' > 0 /\ handles' # {}
    <3>1. <<p, g>> \in handles'
      OBVIOUS
    <3>2. depth \in Nat /\ depth' = depth + 1
      BY DEF TypeOK
    <3>3. handles' # {}
      BY <3>1, Zenon
    <3>4. depth' > 0
      BY <3>2
    <3> QED
      BY <3>3, <3>4
  <2>8. owner' \in {p} \X Threads
    OBVIOUS
  <2>9. Cardinality(Won(p)') <= depth'
    BY <2>3, <2>4, <2>5, FS_CardinalityType DEF TypeOK
  <2> QED
    BY <2>2, <2>6, <2>7, <2>8, <2>9 DEF OwnerAccount
<1> QED
  BY <1>2, <1>3, <1>4

\* A refused wait closes a handle nothing was won with.
LEMMA AcquireBusyIInv ==
  ASSUME IInv, NEW p \in Processes, NEW t \in Threads, AcquireBusy(p, t)
  PROVE  IInv'
<1> USE LeaseAssumption DEF IInv, AcquireBusy, Settle
<1>1. TypeOK'
  BY DEF TypeOK
<1>2. HandleAccount'
  <2>1. IsFiniteSet(handles')
    BY FS_RemoveElement DEF HandleAccount
  <2>2. <<p, 0>> \notin switching
    BY DEF TypeOK
  <2>3. switching' \subseteq handles'
    BY <2>2 DEF HandleAccount
  <2> QED
    BY <2>1, <2>3 DEF HandleAccount, TypeOK, Generations
<1>3. \A q \in Processes : Won(q)' = Won(q)
  BY DEF Won
<1>4. OwnerAccount'
  BY <1>3 DEF OwnerAccount, TypeOK, Won
<1> QED
  BY <1>1, <1>2, <1>4

\* A won handle moves from the token to the releases under way.
LEMMA DropTokenIInv ==
  ASSUME IInv, NEW p \in Processes, DropToken(p)
  PROVE  IInv'
<1> USE LeaseAssumption DEF IInv, DropToken
<1>1. TypeOK'
  BY DEF TypeOK, Generations
<1>2. HandleAccount'
  BY DEF HandleAccount, TypeOK, Generations
<1>3. \A q \in Processes : Won(q)' = Won(q)
  BY DEF Won
<1>4. OwnerAccount'
  BY <1>3 DEF OwnerAccount
<1> QED
  BY <1>1, <1>2, <1>4

\* Closing a won handle lowers the depth by at most one, whether or not the calling
\* thread owns the mutex.
LEMMA CloseKeepsOwner ==
  ASSUME IInv, NEW p \in Processes, NEW t \in Threads, NEW g, <<p, g>> \in Won(p),
         ReleaseAndClose(p, t, g),
         switching' \in {switching, switching \ {<<p, g>>}}
  PROVE  OwnerAccount' /\ owner' \in (Processes \X Threads) \cup {Free} /\ depth' \in Nat
<1> USE LeaseAssumption DEF IInv, ReleaseAndClose, Settle
<1> DEFINE n == IF owner = <<p, t>> THEN depth - 1 ELSE depth
<1>2. owner \in {p} \X Threads /\ Cardinality(Won(p)) <= depth
  BY DEF OwnerAccount
<1>3. IsFiniteSet(Won(p))
  BY FS_Subset DEF Won, HandleAccount
<1>4. \A q \in Processes \ {p} : Won(q) = {} /\ Won(q)' = {}
  <2>1. \A q \in Processes \ {p} : Won(q) = {}
    BY <1>2 DEF OwnerAccount
  <2> QED
    BY <2>1 DEF Won
<1>5. Won(p)' = Won(p) \ {<<p, g>>}
  BY DEF Won
<1>6. IsFiniteSet(Won(p)') /\ Cardinality(Won(p)') = Cardinality(Won(p)) - 1
  BY <1>3, <1>5, FS_RemoveElement
<1>7. Cardinality(Won(p)) \in Nat /\ Cardinality(Won(p)') \in Nat
  BY <1>3, <1>6, FS_CardinalityType
<1>8. n \in Nat /\ Cardinality(Won(p)') <= n
  <2>1. depth \in Nat /\ depth >= 1
    BY <1>2, <1>6, <1>7 DEF TypeOK
  <2> QED
    BY <1>2, <1>6, <1>7, <2>1
<1>9. owner' \in (Processes \X Threads) \cup {Free} /\ depth' \in Nat
  BY <1>8 DEF TypeOK
<1>10. CASE handles' = {}
  <2>1. \A q \in Processes : Won(q)' = {}
    BY <1>10 DEF Won
  <2>2. owner' = Free
    BY <1>10
  <2> QED
    BY <1>9, <2>1, <2>2 DEF OwnerAccount
<1>11. CASE n = 0
  <2>1. Won(p)' = {}
    BY <1>6, <1>7, <1>8, <1>11, FS_EmptySet
  <2>2. owner' = Free
    BY <1>11
  <2> QED
    BY <1>4, <1>9, <2>1, <2>2 DEF OwnerAccount
<1>12. CASE handles' # {} /\ n # 0
  <2>1. owner' = owner /\ depth' = n
    BY <1>12
  <2> HIDE DEF n
  <2>2. n \in Nat /\ n # 0
    BY <1>8, <1>12
  <2>3. depth' > 0
    BY <2>1, <2>2
  <2> QED
    BY <1>2, <1>4, <1>8, <1>9, <1>12, <2>1, <2>3 DEF OwnerAccount
<1> QED
  BY <1>10, <1>11, <1>12

\* The release of a token closes the handle it was won with.
LEMMA ReleaseNamedMutexIInv ==
  ASSUME IInv, NEW p \in Processes, NEW t \in Threads, NEW g \in Generations,
         ReleaseNamedMutex(p, t, g)
  PROVE  IInv'
<1> USE LeaseAssumption DEF IInv, ReleaseNamedMutex
<1>1. <<p, g>> \in Won(p)
  <2>1. g # 0 /\ <<p, g>> \in handles
    BY DEF HandleAccount, TypeOK
  <2> QED
    BY <2>1, HandleKinds DEF Won
<1>2. OwnerAccount' /\ owner' \in (Processes \X Threads) \cup {Free} /\ depth' \in Nat
  BY <1>1, CloseKeepsOwner
<1>3. TypeOK'
  BY <1>2 DEF TypeOK, ReleaseAndClose, Settle
<1>4. HandleAccount'
  <2> USE DEF ReleaseAndClose, Settle
  <2>1. handles' = handles \ {<<p, g>>}
    OBVIOUS
  <2>2. IsFiniteSet(handles')
    <3>1. IsFiniteSet(handles)
      BY DEF HandleAccount
    <3>2. IsFiniteSet(handles \ {<<p, g>>})
      BY ONLY <3>1, FS_RemoveElement
    <3> QED
      BY <2>1, <3>2
  <2>3. switching' \subseteq handles'
    BY <2>1, HandleKinds DEF HandleAccount, TypeOK
  <2> QED
    BY <2>1, <2>2, <2>3 DEF HandleAccount, TypeOK, Generations
<1> QED
  BY <1>2, <1>3, <1>4

\* The end of a switch closes the handle it was granted with.
LEMMA SwitchDoneIInv ==
  ASSUME IInv, NEW p \in Processes, NEW s \in Switchers, NEW t \in Threads,
         SwitchDone(p, s, t)
  PROVE  IInv'
<1> USE LeaseAssumption DEF IInv, SwitchDone
<1>1. <<p, s>> \in Won(p)
  BY DEF HandleAccount, Won
<1>2. OwnerAccount' /\ owner' \in (Processes \X Threads) \cup {Free} /\ depth' \in Nat
  BY <1>1, CloseKeepsOwner
<1>3. TypeOK'
  BY <1>2 DEF TypeOK, ReleaseAndClose, Settle
<1>4. HandleAccount'
  <2> USE DEF ReleaseAndClose, Settle
  <2>1. handles' = handles \ {<<p, s>>}
    OBVIOUS
  <2>2. IsFiniteSet(handles') /\ switching' \subseteq handles'
    BY <2>1, FS_RemoveElement DEF HandleAccount
  <2>3. \A q \in Processes, g \in Generations : <<q, g>> \in handles' <=> <<q, g>> \in handles
    BY <2>1, HandleKinds
  <2>4. 0 \in Generations
    BY DEF Generations
  <2> QED
    BY <2>2, <2>3, <2>4 DEF HandleAccount
<1> QED
  BY <1>2, <1>3, <1>4

\* A switch that begins adds a handle that nothing was won with.
LEMMA BeginSwitchIInv ==
  ASSUME IInv, NEW p \in Processes, NEW s \in Switchers, BeginSwitch(p, s)
  PROVE  IInv'
<1> USE LeaseAssumption DEF IInv, BeginSwitch
<1>1. TypeOK'
  BY DEF TypeOK
<1>2. HandleAccount'
  BY FS_AddElement DEF HandleAccount, TypeOK, Generations
<1>3. \A q \in Processes : Won(q)' = Won(q)
  BY DEF Won, HandleAccount
<1>4. OwnerAccount'
  BY <1>3 DEF OwnerAccount, TypeOK
<1> QED
  BY <1>1, <1>2, <1>4

\* A granted switch makes its handle a won one, one level deeper.
LEMMA SwitchGrantedIInv ==
  ASSUME IInv, NEW p \in Processes, NEW s \in Switchers, NEW t \in Threads,
         SwitchGranted(p, s, t)
  PROVE  IInv'
<1> USE LeaseAssumption DEF IInv, SwitchGranted, WaitSucceeds
<1>1. TypeOK'
  BY DEF TypeOK
<1>2. HandleAccount'
  <2>1. switching' \subseteq handles'
    BY DEF HandleAccount
  <2>2. IsFiniteSet(handles')
    BY DEF HandleAccount
  <2>3. ASSUME NEW q \in Processes
        PROVE  /\ <<q, 0>> \in handles' <=> q \in locked'
               /\ q \in locked' => token'[q] = 0 /\ generation'[q] < MaxGeneration
               /\ token'[q] <= generation'[q]
               /\ \A g \in Generations \ {0} :
                    /\ <<q, g>> \in handles' <=> (g = token'[q] \/ <<q, g>> \in releasing')
                    /\ <<q, g>> \in releasing' => g <= generation'[q] /\ g # token'[q]
               /\ <<q, 0>> \notin releasing'
    BY DEF HandleAccount
  <2> QED
    BY <2>1, <2>2, <2>3 DEF HandleAccount
<1>3. OwnerAccount'
  <2>1. Won(p)' = Won(p) \cup {<<p, s>>} /\ <<p, s>> \notin Won(p)
    BY DEF Won
  <2>2. \A q \in Processes \ {p} : Won(q)' = Won(q)
    BY DEF Won
  <2>3. IsFiniteSet(Won(p))
    BY FS_Subset DEF Won, HandleAccount
  <2>4. Cardinality(Won(p)') = Cardinality(Won(p)) + 1
    BY <2>1, <2>3, FS_AddElement
  <2>5. Cardinality(Won(p)) <= depth
    <3>1. CASE Won(p) = {}
      BY <3>1, FS_EmptySet DEF TypeOK
    <3>2. CASE Won(p) # {}
      BY <3>2 DEF OwnerAccount
    <3> QED
      BY <3>1, <3>2
  <2>6. \A q \in Processes \ {p} : Won(q) = {}
    BY DEF OwnerAccount, TypeOK
  <2>7. depth' > 0 /\ handles' # {}
    BY DEF TypeOK
  <2>8. owner' \in {p} \X Threads
    OBVIOUS
  <2>9. Cardinality(Won(p)') <= depth'
    BY <2>3, <2>4, <2>5, FS_CardinalityType DEF TypeOK
  <2> QED
    BY <2>2, <2>6, <2>7, <2>8, <2>9 DEF OwnerAccount
<1> QED
  BY <1>1, <1>2, <1>3

\* A refused switch closes a handle nothing was won with.
LEMMA SwitchBusyIInv ==
  ASSUME IInv, NEW p \in Processes, NEW s \in Switchers, NEW t \in Threads,
         SwitchBusy(p, s, t)
  PROVE  IInv'
<1> USE LeaseAssumption DEF IInv, SwitchBusy, Settle
<1>1. TypeOK'
  BY DEF TypeOK
<1>2. HandleAccount'
  BY FS_RemoveElement DEF HandleAccount, TypeOK, Generations
<1>3. \A q \in Processes : Won(q)' = Won(q)
  BY DEF Won
<1>4. OwnerAccount'
  <2>1. CASE handles' = {}
    <3>1. \A q \in Processes : Won(q)' = {}
      BY <2>1 DEF Won
    <3>2. owner' = Free
      BY <2>1
    <3> QED
      BY <3>1, <3>2 DEF OwnerAccount
  <2>2. CASE handles' # {}
    <3>1. owner # Free /\ depth # 0
      BY DEF OwnerAccount, TypeOK
    <3>2. owner' = owner /\ depth' = depth
      BY <2>2, <3>1
    <3> QED
      BY <1>3, <2>2, <3>2 DEF OwnerAccount
  <2> QED
    BY <2>1, <2>2
<1> QED
  BY <1>1, <1>2, <1>4

\* An exit closes every handle of the process and abandons the mutex it owned.
LEMMA ProcessExitIInv ==
  ASSUME IInv, NEW p \in Processes, ProcessExit(p)
  PROVE  IInv'
<1> USE LeaseAssumption DEF IInv, ProcessExit, Settle
<1>1. TypeOK'
  BY DEF TypeOK, Generations
<1>2. HandleAccount'
  BY FS_Subset DEF HandleAccount, TypeOK, Generations
<1>3. Won(p)' = {} /\ \A q \in Processes \ {p} : Won(q)' = Won(q)
  BY DEF Won
<1>4. OwnerAccount'
  <2>1. CASE owner \in {p} \X Threads
    <3>1. \A q \in Processes \ {p} : Won(q) = {}
      BY <2>1 DEF OwnerAccount
    <3>2. owner # Free /\ owner[1] = p
      BY <2>1
    <3>3. owner' = Free
      BY <3>2
    <3> QED
      BY <1>3, <3>1, <3>3 DEF OwnerAccount
  <2>2. CASE owner \notin {p} \X Threads
    <3>1. ~(owner # Free /\ owner[1] = p)
      BY <2>2 DEF TypeOK
    <3>2. owner # Free => depth # 0
      BY DEF OwnerAccount
    <3>3. CASE handles' = {}
      <4>1. owner' = Free
        BY <3>3
      <4>2. \A q \in Processes : Won(q)' = {}
        BY <3>3 DEF Won
      <4> QED
        BY <4>1, <4>2 DEF OwnerAccount
    <3>4. CASE handles' # {}
      <4>1. owner' = owner /\ depth' = depth
        BY <3>1, <3>2, <3>4
      <4> QED
        BY <1>3, <3>4, <4>1 DEF OwnerAccount
    <3> QED
      BY <3>3, <3>4
  <2> QED
    BY <2>1, <2>2
<1> QED
  BY <1>1, <1>2, <1>4

\* Exclusive, Backed and NotLeaked follow from the account of the handles.
LEMMA IInvImplies == IInv => Exclusive /\ Backed /\ NotLeaked
<1> SUFFICES ASSUME IInv PROVE Exclusive /\ Backed /\ NotLeaked
  OBVIOUS
<1>1. Backed
  <2> SUFFICES ASSUME NEW p \in Processes, token[p] # 0
               PROVE  owner # Free /\ owner[1] = p /\ <<p, token[p]>> \in handles
    BY DEF Backed
  <2>1. <<p, token[p]>> \in handles
    BY DEF IInv, TypeOK, HandleAccount
  <2>2. <<p, token[p]>> \in Won(p)
    BY <2>1, HandleKinds DEF Won, IInv, TypeOK
  <2>3. owner \in {p} \X Threads
    BY <2>2 DEF IInv, OwnerAccount
  <2> QED
    BY <2>1, <2>3, LeaseAssumption
<1>2. Exclusive
  <2>1. ASSUME NEW p \in Writers PROVE owner # Free /\ owner[1] = p
    <3>1. CASE token[p] # 0
      BY <1>1, <3>1 DEF Backed, Writers
    <3>2. CASE \E s \in Switchers : <<p, s>> \in switching
      <4>1. PICK s \in Switchers : <<p, s>> \in switching
        BY <3>2
      <4>2. <<p, s>> \in Won(p)
        BY <4>1, LeaseAssumption DEF Won, IInv, HandleAccount
      <4> QED
        BY <4>2, LeaseAssumption DEF Writers, IInv, OwnerAccount
    <3> QED
      BY <3>1, <3>2 DEF Writers
  <2> QED
    BY <2>1 DEF Exclusive
<1>3. NotLeaked
  <2> SUFFICES ASSUME releasing = {}, locked = {}, \A p \in Processes : token[p] = 0,
                      \A p \in Processes, s \in Switchers : <<p, s>> \notin handles
               PROVE  owner = Free
    BY DEF NotLeaked
  <2>1. ASSUME NEW p \in Processes, NEW g \in Generations
        PROVE  <<p, g>> \notin handles
    BY DEF IInv, HandleAccount
  <2>2. handles = {}
    BY <2>1 DEF IInv, TypeOK
  <2> QED
    BY <2>2 DEF IInv, OwnerAccount
<1> QED
  BY <1>1, <1>2, <1>3

\* The account is an invariant.
THEOREM Invariance == Spec => []IInv
<1>1. IInv /\ [Next]_vars => IInv'
  <2> SUFFICES ASSUME IInv, [Next]_vars PROVE IInv'
    OBVIOUS
  <2>1. CASE Next
    BY <2>1, BeginAcquireIInv, AcquireIInv, AcquireBusyIInv, DropTokenIInv,
       ReleaseNamedMutexIInv, ProcessExitIInv, BeginSwitchIInv, SwitchGrantedIInv,
       SwitchBusyIInv, SwitchDoneIInv DEF Next
  <2>2. CASE UNCHANGED vars
    BY <2>2 DEF vars, IInv, TypeOK, HandleAccount, OwnerAccount, Won
  <2> QED
    BY <2>1, <2>2
<1> QED
  BY InitIInv, <1>1, PTL DEF Spec

\* Every state is of its type.
THEOREM TypeCorrect == Spec => []TypeOK
BY Invariance, PTL DEF IInv

\* No two processes hold the native output lease or switch a mode at once, however
\* goroutines move between OS threads (acquireNativeOutputLease,
\* releaseNativeOutputLease, sendNativeModeReports).
THEOREM LeaseIsExclusive == Spec => []Exclusive
BY Invariance, IInvImplies, PTL

\* A held token is backed by the named mutex and an open handle to it.
THEOREM LeaseIsBacked == Spec => []Backed
BY Invariance, IInvImplies, PTL

\* No sequence of acquisitions, releases, switches and exits leaks the named mutex.
THEOREM MutexIsNotLeaked == Spec => []NotLeaked
BY Invariance, IInvImplies, PTL

(***************************************************************************)
(* The force of a game.                                                    *)
(***************************************************************************)

\* A call that will open a port knows which.
Named ==
  \A c \in Callers :
    call[c].at \in {"seen", "new", "listen", "publish"} \/ call[c].then # "idle" => call[c].kind \in Kinds

\* An adapter without a kind is none.
Blank == \A a \in Adapters : adapter[a].kind = None => adapter[a] = Closed

\* Which states of the engine the session's states go with.
Phases ==
  /\ session.at \in {"off", "ensure", "stop", "faulted"} => engine.at = "off"
  /\ session.at \in {"off", "ensure"} => wheel = 0
  /\ session.at \in {"off", "ensure", "faulted"} => output = NoOutput /\ session.out = 0 /\ session.low = 0
  /\ session.at \in {"off", "faulted"} => session.kind = None
  /\ session.at = "ensure" => since = 0
  /\ engine.cancelled => ~engine.running
  /\ session.at = "first" => /\ since <= 1 /\ (engine.at # "wait" => since = 0)
                             /\ engine.at # "off" /\ ~engine.running /\ ~engine.cancelled

\* Between two pumps the wheel has what is applied, and that is nothing when the watchdog is due.
Applied ==
  /\ engine.at = "wait" /\ failures = 0 => wheel = output.force
  /\ engine.at = "wait" /\ output.quiet > Watchdog => output.force = 0

\* A frame that asks is at most as old as the pumps since, give or take the pump that goes on.
Asking(a) == adapter[a].kind = session.kind /\ adapter[a].last.allowed /\ adapter[a].last.force # 0
Margin == IF engine.at \in {"off", "wait"} THEN 2 ELSE 1
Aged == \A a \in Adapters : Asking(a) => since <= adapter[a].age + Margin

\* With every pump after the last frame that asks, the low pass, then the smoothing and then the
\* force fall by one.
Falling ==
  /\ engine.at = "shape" /\ pump.force # 0 => since <= StaleAge + 1
  /\ session.low = 0 \/ Abs(session.low) + since <= Full + StaleAge + 2
  /\ session.out = 0 \/ Abs(session.out) + since <= 2 * Full + StaleAge + 2
  /\ output.force = 0 \/ Abs(output.force) + since <= 3 * Full + StaleAge + 2

GameIInv == GameTypeOK /\ Named /\ Blank /\ Phases /\ Applied /\ Aged /\ Falling

-----------------------------------------------------------------------------
(* Forces. *)

\* A clamped number is within its limits, no larger than before, and of zero is zero.
LEMMA ClampBounds ==
  ASSUME NEW v \in Int, NEW n \in Nat
  PROVE  /\ Clamp(v, -n, n) \in -n..n
         /\ Abs(Clamp(v, -n, n)) <= Abs(v) /\ Abs(Clamp(v, -n, n)) <= n
         /\ v = 0 => Clamp(v, -n, n) = 0
BY DEF Clamp, Abs

\* A step keeps the force within its range, and a step towards zero makes it smaller.
LEMMA StepBounds ==
  ASSUME NEW force \in -Full..Full, NEW target \in Int
  PROVE  /\ StepToward(force, target) \in -Full..Full
         /\ target = 0 => \/ StepToward(force, target) = 0
                          \/ Abs(StepToward(force, target)) + 1 <= Abs(force)
BY SchedulerAssumption DEF StepToward, Clamp, Abs

\* A product of different signs is negative.
LEMMA Signs ==
  ASSUME NEW x \in Int, NEW y \in Int, x > 0, y < 0
  PROVE  x * y < 0 /\ y * x < 0
BY SMT

\* What a filter makes of nothing is smaller than before.
LEMMA TowardsZero ==
  ASSUME NEW last \in -Full..Full, NEW u \in Towards(last, 0)
  PROVE  u \in -Full..Full /\ (u = 0 \/ Abs(u) + 1 <= Abs(last))
<1>1. u \in -Full..Full /\ (u - last) * (0 - u) >= 0 /\ (u = last => 0 = last)
  BY SchedulerAssumption DEF Towards
<1>2. u \in Int /\ last \in Int /\ u - last \in Int /\ 0 - u \in Int
  BY <1>1, SchedulerAssumption
<1>3. ~(u - last > 0 /\ 0 - u < 0) /\ ~(0 - u > 0 /\ u - last < 0)
  <2> DEFINE x == u - last
             y == 0 - u
  <2>1. x \in Int /\ y \in Int /\ x * y >= 0
    BY <1>1, <1>2
  <2>2. x * y \in Int
    BY <2>1
  <2> HIDE DEF x, y
  <2>3. ~(x > 0 /\ y < 0) /\ ~(y > 0 /\ x < 0)
    BY <2>1, <2>2, Signs
  <2> QED
    BY <2>3 DEF x, y
<1> QED
  BY <1>1, <1>2, <1>3 DEF Abs

\* The mix is within the wheel's limit, and of no force it is none.
LEMMA MixedBounds ==
  ASSUME NEW v \in -Full..Full, NEW p \in Profiles \cup {0}
  PROVE  Mixed(v, p) \in Int /\ (v = 0 => Mixed(v, p) = 0)
<1>1. p \in 0..2 /\ Cap \in Nat /\ v \in Int
  BY GameForceAssumption, SchedulerAssumption
<1>2. CASE p = 0
  BY <1>1, <1>2 DEF Mixed, Clamp
<1>3. CASE p = 1
  BY <1>1, <1>3 DEF Mixed, Clamp
<1>4. CASE p = 2
  BY <1>1, <1>4 DEF Mixed, Clamp
<1> QED
  BY <1>1, <1>2, <1>3, <1>4

-----------------------------------------------------------------------------
(* The telemetry calls. *)

CallSet == [at : {"idle", "seen", "new", "take", "halt", "drain", "listen", "publish"},
            kind : Kinds \cup {None}, auto : BOOLEAN, new : Adapters \cup {0}, old : Adapters \cup {0},
            then : {"idle", "new", "listen"}, told : BOOLEAN, failed : BOOLEAN]
AdapterSet == [kind : Kinds \cup {None}, loop : {"ended", "reading", "halted", "late", "fed"},
               last : Frames \cup {NoFrame}, age : 0..StaleAge]
CurrentSet == [id : Adapters \cup {0}, auto : BOOLEAN]

\* The types, by name.
LEMMA TelemetryTypes ==
  TelemetryTypeOK <=> /\ adapter \in [Adapters -> AdapterSet]
                      /\ current \in CurrentSet
                      /\ call \in [Callers -> CallSet]
BY DEF TelemetryTypeOK, AdapterSet, CurrentSet, CallSet

\* A call as Named wants it.
GoodCall(q) ==
  /\ q \in CallSet
  /\ q.at \in {"seen", "new", "listen", "publish"} \/ q.then # "idle" => q.kind \in Kinds
GoodAdapter(q) == q \in AdapterSet /\ (q.kind = None => q = Closed)
Telemetry == TelemetryTypeOK /\ Named /\ Blank

\* Telemetry, one call and one adapter at a time.
LEMMA TelemetryParts ==
  Telemetry <=> /\ adapter \in [Adapters -> AdapterSet] /\ \A a \in Adapters : GoodAdapter(adapter[a])
                /\ current \in CurrentSet
                /\ call \in [Callers -> CallSet] /\ \A c \in Callers : GoodCall(call[c])
BY TelemetryTypes DEF Telemetry, GoodCall, GoodAdapter, Named, Blank

LEMMA TelemetryPartsNext ==
  Telemetry' <=> /\ adapter' \in [Adapters -> AdapterSet] /\ \A a \in Adapters : GoodAdapter(adapter'[a])
                 /\ current' \in CurrentSet
                 /\ call' \in [Callers -> CallSet] /\ \A c \in Callers : GoodCall(call'[c])
BY DEF Telemetry, TelemetryTypeOK, AdapterSet, CurrentSet, CallSet, GoodCall, GoodAdapter, Named, Blank

\* One call changes to a good one, and the adapters stay good.
LEMMA OneCall ==
  ASSUME Telemetry, NEW c \in Callers, NEW q, GoodCall(q), call' = [call EXCEPT ![c] = q],
         current' \in CurrentSet, UNCHANGED adapter
  PROVE  Telemetry'
BY TelemetryParts, TelemetryPartsNext DEF GoodCall

\* One adapter changes to a good one.
LEMMA OneAdapter ==
  ASSUME Telemetry, NEW c \in Callers, NEW q, GoodCall(q), call' = [call EXCEPT ![c] = q],
         NEW a, NEW r, GoodAdapter(r), adapter' = [adapter EXCEPT ![a] = r], UNCHANGED current
  PROVE  Telemetry'
BY TelemetryParts, TelemetryPartsNext DEF GoodCall, GoodAdapter

\* A call that is over is a good one, and so is one that knows the kind.
LEMMA GoodCalls ==
  ASSUME NEW c \in Callers, Telemetry
  PROVE  /\ GoodCall(call[c]) /\ GoodCall(NoCall)
         /\ \A b \in BOOLEAN : GoodCall([NoCall EXCEPT !.failed = b /\ call[c].told])
         /\ GoodCall(Called(c))
<1>1. GoodCall(call[c])
  BY TelemetryParts
<1>2. call[c].told \in BOOLEAN
  BY <1>1 DEF GoodCall, CallSet
<1>3. GoodCall(NoCall)
  BY DEF GoodCall, CallSet, NoCall
<1>4. ASSUME NEW b \in BOOLEAN PROVE GoodCall([NoCall EXCEPT !.failed = b])
  BY DEF GoodCall, CallSet, NoCall
<1>5. \A b \in BOOLEAN : (b /\ call[c].told) \in BOOLEAN
  OBVIOUS
<1>6. \A b \in BOOLEAN : GoodCall([NoCall EXCEPT !.failed = b /\ call[c].told])
  BY <1>4, <1>5
<1>7. GoodCall(Called(c))
  BY <1>2 DEF GoodCall, CallSet, Called, NoCall
<1> QED
  BY <1>1, <1>3, <1>6, <1>7

\* A call that goes on to stop the current adapter for a kind it knows.
LEMMA GoesOn ==
  ASSUME NEW r \in CallSet, NEW k \in Kinds
  PROVE  /\ GoodCall([r EXCEPT !.at = "take", !.kind = k, !.then = "new"])
         /\ \A a \in Adapters, auto \in BOOLEAN :
              GoodCall([r EXCEPT !.at = "take", !.kind = k, !.new = a, !.auto = auto, !.then = "listen"])
BY DEF GoodCall, CallSet

\* An adapter that listens is a good one, whatever its loop is at.
LEMMA GoodOpened ==
  ASSUME NEW k \in Kinds
  PROVE  /\ GoodAdapter(Opened(k)) /\ Opened(k).last = NoFrame
         /\ \A l \in {"halted", "late"} :
              LET r == [Opened(k) EXCEPT !.loop = l] IN GoodAdapter(r) /\ r.last = NoFrame
<1>1. 0 \in 0..StaleAge /\ NoFrame \in Frames \cup {NoFrame}
  BY TelemetryAssumption
<1>2. Closed \in AdapterSet /\ Closed.last = NoFrame
  BY <1>1 DEF AdapterSet, Closed
<1>3. Opened(k) \in AdapterSet /\ Opened(k).kind = k /\ Opened(k).last = NoFrame
  BY <1>2 DEF AdapterSet, Opened
<1>4. ASSUME NEW l \in {"halted", "late"}
      PROVE  [Opened(k) EXCEPT !.loop = l] \in AdapterSet
  BY <1>3 DEF AdapterSet
<1>5. k # None
  BY TelemetryAssumption
<1> QED
  BY <1>3, <1>4, <1>5 DEF GoodAdapter

LEMMA StartKeeps ==
  ASSUME Telemetry, NEW c \in Callers, NEW k \in Kinds, NEW auto \in BOOLEAN, Start(c, k, auto)
  PROVE  Telemetry' /\ UNCHANGED adapter
<1>1. UNCHANGED adapter /\ current' \in CurrentSet
  BY TelemetryParts DEF Start
<1>2. \E q : GoodCall(q) /\ call' = [call EXCEPT ![c] = q]
  <2>1. CASE Returns(c, TRUE)
    <3>1. call' = [call EXCEPT ![c] = [NoCall EXCEPT !.failed = TRUE /\ call[c].told]]
      BY <2>1 DEF Returns
    <3> QED
      BY <3>1, GoodCalls
  <2>2. CASE \E a \in Adapters :
               call' = [call EXCEPT ![c] = [Called(c) EXCEPT !.at = "take", !.kind = k, !.new = a,
                                                             !.auto = auto, !.then = "listen"]]
    <3>1. PICK a \in Adapters :
               call' = [call EXCEPT ![c] = [Called(c) EXCEPT !.at = "take", !.kind = k, !.new = a,
                                                             !.auto = auto, !.then = "listen"]]
      BY <2>2
    <3>2. GoodCall([Called(c) EXCEPT !.at = "take", !.kind = k, !.new = a, !.auto = auto, !.then = "listen"])
      BY GoodCalls, GoesOn DEF GoodCall
    <3> QED
      BY <3>1, <3>2
  <2> QED
    BY <2>1, <2>2 DEF Start
<1> QED
  BY <1>1, <1>2, OneCall

LEMMA StopKeeps ==
  ASSUME Telemetry, NEW c \in Callers, Stop(c)
  PROVE  Telemetry' /\ UNCHANGED adapter
<1>1. GoodCall([NoCall EXCEPT !.at = "take"])
  BY DEF GoodCall, CallSet, NoCall
<1> QED
  BY <1>1, OneCall, TelemetryParts DEF Stop

LEMMA ReturnsKeeps ==
  ASSUME Telemetry, NEW c \in Callers, NEW b \in BOOLEAN, Returns(c, b), UNCHANGED <<adapter, current>>
  PROVE  Telemetry' /\ UNCHANGED adapter
BY GoodCalls, OneCall, TelemetryParts DEF Returns

LEMMA StopAutomaticKeeps ==
  ASSUME Telemetry, NEW c \in Callers, StopAutomatic(c)
  PROVE  Telemetry' /\ UNCHANGED adapter
BY StopKeeps, ReturnsKeeps DEF StopAutomatic

LEMMA EnsureKeeps ==
  ASSUME Telemetry, NEW c \in Callers, NEW k \in Kinds, NEW told \in BOOLEAN, Ensure(c, k, told)
  PROVE  Telemetry' /\ UNCHANGED adapter
<1>1. current \in CurrentSet
  BY TelemetryParts
<1>2. GoodCall([NoCall EXCEPT !.at = "seen", !.kind = k, !.old = current.id, !.auto = current.auto, !.told = told])
  BY <1>1 DEF GoodCall, CallSet, NoCall, CurrentSet
<1> QED
  BY <1>1, <1>2, OneCall DEF Ensure

\* What a step of a call may do to an adapter.
Renewed(a) == adapter'[a] = adapter[a] \/ adapter'[a].last = NoFrame

LEMMA TelemetryStepKeeps ==
  ASSUME Telemetry, NEW c \in Callers, TelemetryStep(c)
  PROVE  Telemetry' /\ \A a \in Adapters : Renewed(a)
<1> DEFINE q == call[c]
<1>1. GoodCall(q) /\ current \in CurrentSet /\ adapter \in [Adapters -> AdapterSet]
      /\ \A a \in Adapters : GoodAdapter(adapter[a])
  BY TelemetryParts
<1>2. CASE Ensured(c)
  <2>1. CASE Returns(c, FALSE) /\ UNCHANGED <<adapter, current>>
    BY <2>1, ReturnsKeeps DEF Renewed
  <2>2. CASE /\ call' = [call EXCEPT ![c] = [Called(c) EXCEPT !.at = "take", !.kind = call[c].kind, !.then = "new"]]
             /\ UNCHANGED <<adapter, current>>
    <3>1. GoodCall([Called(c) EXCEPT !.at = "take", !.kind = call[c].kind, !.then = "new"])
      BY <1>1, <1>2, GoodCalls, GoesOn DEF GoodCall, Ensured
    <3> QED
      BY <2>2, <3>1, <1>1, OneCall DEF Renewed
  <2>3. CASE Start(c, call[c].kind, TRUE)
    <3>1. call[c].kind \in Kinds
      BY <1>1, <1>2 DEF GoodCall, Ensured
    <3> QED
      BY <2>3, <3>1, StartKeeps DEF Renewed
  <2> QED
    BY <1>2, <2>1, <2>2, <2>3 DEF Ensured
<1>3. CASE StartEnsured(c)
  <2>1. call[c].kind \in Kinds
    BY <1>1, <1>3 DEF GoodCall, StartEnsured
  <2> QED
    BY <1>3, <2>1, StartKeeps DEF Renewed, StartEnsured
<1>4. CASE Take(c)
  <2>1. NoAdapter \in CurrentSet
    BY DEF NoAdapter, CurrentSet
  <2>2. GoodCall([q EXCEPT !.at = q.then, !.old = 0, !.then = "idle"])
        /\ GoodCall([q EXCEPT !.at = "halt", !.old = current.id])
    BY <1>1, <1>4 DEF GoodCall, CallSet, Take, CurrentSet
  <2>3. \/ call' = [call EXCEPT ![c] = [q EXCEPT !.at = q.then, !.old = 0, !.then = "idle"]]
        \/ call' = [call EXCEPT ![c] = [q EXCEPT !.at = "halt", !.old = current.id]]
    BY <1>4 DEF Take, Continues
  <2> QED
    BY <1>4, <2>1, <2>2, <2>3, OneCall DEF Take, Renewed
<1>5. CASE Halt(c)
  <2>1. GoodCall([q EXCEPT !.at = "drain"]) /\ call' = [call EXCEPT ![c] = [q EXCEPT !.at = "drain"]]
    BY <1>1, <1>5 DEF GoodCall, CallSet, Halt
  <2>2. CASE UNCHANGED adapter
    BY <1>1, <1>5, <2>1, <2>2, OneCall DEF Halt, Renewed
  <2>3. ASSUME NEW l \in {"halted", "late"}, Listening(q.old),
               adapter' = [adapter EXCEPT ![q.old] = [Opened(adapter[q.old].kind) EXCEPT !.loop = l]]
        PROVE  Telemetry' /\ \A a \in Adapters : Renewed(a)
    <3>1. CASE q.old \in Adapters
      <4> DEFINE r == [Opened(adapter[q.old].kind) EXCEPT !.loop = l]
      <4>1. adapter[q.old].kind \in Kinds
        BY <1>1, <2>3, <3>1 DEF GoodAdapter, AdapterSet, Listening, Closed
      <4>2. GoodAdapter(r) /\ r.last = NoFrame
        BY <4>1, GoodOpened
      <4>3. Telemetry'
        BY <1>5, <2>1, <2>3, <4>2, OneAdapter DEF Halt
      <4> QED
        BY <1>1, <2>3, <4>2, <4>3 DEF Renewed
    <3>2. CASE q.old \notin Adapters
      <4>1. adapter' = adapter
        BY <1>1, <2>3, <3>2
      <4> QED
        BY <1>1, <1>5, <2>1, <4>1, OneCall DEF Halt, Renewed
    <3> QED
      BY <3>1, <3>2
  <2> QED
    BY <1>5, <2>2, <2>3 DEF Halt
<1>6. CASE Drained(c)
  <2>1. GoodCall([q EXCEPT !.at = q.then, !.old = 0, !.then = "idle"])
    BY <1>1 DEF GoodCall, CallSet
  <2>2. call' = [call EXCEPT ![c] = [q EXCEPT !.at = q.then, !.old = 0, !.then = "idle"]]
    BY <1>6 DEF Drained, Continues
  <2> QED
    BY <1>1, <1>6, <2>1, <2>2, OneCall DEF Drained, Renewed
<1>7. CASE Listen(c)
  <2>1. CASE Returns(c, TRUE) /\ UNCHANGED adapter
    BY <1>7, <2>1, ReturnsKeeps DEF Renewed, Listen
  <2>2. CASE /\ adapter' = [adapter EXCEPT ![q.new] = Opened(q.kind)]
             /\ call' = [call EXCEPT ![c].at = "publish"]
    <3>1. q.kind \in Kinds
      BY <1>1, <1>7 DEF GoodCall, Listen
    <3>2. GoodAdapter(Opened(q.kind)) /\ Opened(q.kind).last = NoFrame
      BY <3>1, GoodOpened
    <3>3. GoodCall([q EXCEPT !.at = "publish"]) /\ call' = [call EXCEPT ![c] = [q EXCEPT !.at = "publish"]]
      BY <1>1, <2>2, <3>1 DEF GoodCall, CallSet
    <3>4. Telemetry'
      BY <1>7, <2>2, <3>2, <3>3, OneAdapter DEF Listen
    <3> QED
      BY <1>1, <2>2, <3>2, <3>4 DEF Renewed
  <2> QED
    BY <1>7, <2>1, <2>2 DEF Listen
<1>8. CASE Publish(c)
  <2>1. [id |-> call[c].new, auto |-> call[c].auto] \in CurrentSet
    BY <1>1 DEF GoodCall, CallSet, CurrentSet
  <2> QED
    BY <1>8, <2>1, GoodCalls, OneCall DEF Publish, Returns, Renewed
<1> QED
  BY <1>2, <1>3, <1>4, <1>5, <1>6, <1>7, <1>8 DEF TelemetryStep

\* A read loop changes its own adapter alone.
LEMMA LoopStepKeeps ==
  ASSUME Telemetry, NEW a \in Adapters, LoopStep(a)
  PROVE  /\ Telemetry' /\ \A b \in Adapters \ {a} : adapter'[b] = adapter[b]
         /\ adapter'[a].kind = adapter[a].kind \/ adapter'[a].last = NoFrame
<1> DEFINE Follows(r) == r.kind = adapter[a].kind \/ r.last = NoFrame
<1>1. GoodAdapter(adapter[a]) /\ adapter \in [Adapters -> AdapterSet]
  BY TelemetryParts
<1>2. UNCHANGED <<current, call>>
  BY DEF LoopStep, Packet, ReadEnds, ReadFails
<1>3. \E r : GoodAdapter(r) /\ Follows(r) /\ adapter' = [adapter EXCEPT ![a] = r]
  <2>1. ASSUME NEW f \in Frames, Running(a), adapter' = [adapter EXCEPT ![a].last = f, ![a].age = 0]
        PROVE  \E r : GoodAdapter(r) /\ Follows(r) /\ adapter' = [adapter EXCEPT ![a] = r]
    <3>1. 0 \in 0..StaleAge
      BY TelemetryAssumption
    <3>2. adapter[a].kind \in Kinds
      BY <1>1, <2>1 DEF GoodAdapter, AdapterSet, Running, Closed
    <3>3. /\ [adapter[a] EXCEPT !.last = f, !.age = 0] \in AdapterSet
          /\ [adapter[a] EXCEPT !.last = f, !.age = 0].kind = adapter[a].kind
      BY <1>1, <3>1 DEF GoodAdapter, AdapterSet
    <3>4. GoodAdapter([adapter[a] EXCEPT !.last = f, !.age = 0]) /\ Follows([adapter[a] EXCEPT !.last = f, !.age = 0])
      BY <3>2, <3>3, TelemetryAssumption DEF GoodAdapter
    <3>5. adapter' = [adapter EXCEPT ![a] = [adapter[a] EXCEPT !.last = f, !.age = 0]]
      BY <2>1, <1>1
    <3> QED
      BY <3>4, <3>5
  <2>2. ASSUME adapter[a].loop = "late", adapter' = [adapter EXCEPT ![a].loop = "fed"]
        PROVE  \E r : GoodAdapter(r) /\ Follows(r) /\ adapter' = [adapter EXCEPT ![a] = r]
    <3>1. GoodAdapter([adapter[a] EXCEPT !.loop = "fed"]) /\ Follows([adapter[a] EXCEPT !.loop = "fed"])
      BY <1>1, <2>2 DEF GoodAdapter, AdapterSet, Closed
    <3>2. adapter' = [adapter EXCEPT ![a] = [adapter[a] EXCEPT !.loop = "fed"]]
      BY <2>2, <1>1
    <3> QED
      BY <3>1, <3>2
  <2>3. ASSUME adapter' = [adapter EXCEPT ![a] = Closed]
        PROVE  \E r : GoodAdapter(r) /\ Follows(r) /\ adapter' = [adapter EXCEPT ![a] = r]
    <3>1. 0 \in 0..StaleAge /\ NoFrame \in Frames \cup {NoFrame}
      BY TelemetryAssumption
    <3>2. GoodAdapter(Closed) /\ Follows(Closed)
      BY <3>1 DEF GoodAdapter, AdapterSet, Closed
    <3> QED
      BY <2>3, <3>2
  <2> QED
    BY <2>1, <2>2, <2>3 DEF LoopStep, Packet, ReadEnds, ReadFails
<1> QED
  BY <1>1, <1>2, <1>3, TelemetryParts, TelemetryPartsNext DEF GoodAdapter

\* When time passes a frame gets older by one, or stale.
LEMMA OlderKeeps ==
  ASSUME Telemetry, adapter' = Older, UNCHANGED <<current, call>>
  PROVE  /\ Telemetry'
         /\ \A a \in Adapters :
              \/ adapter'[a].last = NoFrame
              \/ /\ adapter'[a].last = adapter[a].last /\ adapter'[a].kind = adapter[a].kind
                 /\ adapter'[a].age = adapter[a].age + 1
<1>1. adapter \in [Adapters -> AdapterSet] /\ \A a \in Adapters : GoodAdapter(adapter[a])
  BY TelemetryParts
<1>2. ASSUME NEW a \in Adapters
      PROVE  /\ GoodAdapter(adapter'[a])
             /\ \/ adapter'[a].last = NoFrame
                \/ /\ adapter'[a].last = adapter[a].last /\ adapter'[a].kind = adapter[a].kind
                   /\ adapter'[a].age = adapter[a].age + 1
  <2>1. GoodAdapter(adapter[a])
    BY <1>1
  <2>2. CASE ~Fresh(a)
    <3>1. adapter'[a] = adapter[a]
      BY <2>2 DEF Older
    <3> QED
      BY <2>1, <2>2, <3>1 DEF Fresh
  <2>3. CASE Fresh(a)
    <3>1. adapter[a].kind \in Kinds
      BY <2>1, <2>3 DEF GoodAdapter, AdapterSet, Fresh, Closed
    <3>2. CASE adapter[a].age = StaleAge
      <4>1. adapter'[a] = Opened(adapter[a].kind)
        BY <2>3, <3>2 DEF Older
      <4> QED
        BY <3>1, <4>1, GoodOpened
    <3>3. CASE adapter[a].age # StaleAge
      <4>1. adapter'[a] = [adapter[a] EXCEPT !.age = adapter[a].age + 1]
        BY <2>3, <3>3 DEF Older
      <4>2. adapter[a].age \in 0..StaleAge
        BY <2>1 DEF GoodAdapter, AdapterSet
      <4>3. adapter[a].age + 1 \in 0..StaleAge
        BY <3>3, <4>2, TelemetryAssumption
      <4>4. adapter'[a] \in AdapterSet /\ adapter'[a].kind \in Kinds
        BY <2>1, <3>1, <4>1, <4>3 DEF GoodAdapter, AdapterSet
      <4>5. adapter'[a].last = adapter[a].last /\ adapter'[a].kind = adapter[a].kind
            /\ adapter'[a].age = adapter[a].age + 1
        BY <2>1, <4>1 DEF GoodAdapter, AdapterSet
      <4>6. GoodAdapter(adapter'[a])
        BY <4>4, TelemetryAssumption DEF GoodAdapter
      <4> QED
        BY <4>5, <4>6
    <3> QED
      BY <3>2, <3>3
  <2> QED
    BY <2>2, <2>3
<1>3. adapter' \in [Adapters -> AdapterSet]
  <2>1. adapter' = [a \in Adapters |-> adapter'[a]]
    BY DEF Older
  <2> QED
    BY <1>2, <2>1 DEF GoodAdapter
<1> QED
  BY <1>2, <1>3, TelemetryParts, TelemetryPartsNext

-----------------------------------------------------------------------------
(* The parts of the invariant. *)

SessionSet == [at : {"off", "ensure", "first", "run", "stop", "faulted"}, number : 0..MaxSessions,
               kind : Kinds \cup {None}, active : BOOLEAN, gain : Gains \cup {1},
               profile : Profiles \cup {0}, tuning : Shapings, have : BOOLEAN,
               low : -Full..Full, out : -Full..Full]
PumpSet == [profile : Profiles \cup {0}, force : -Full..Full]
TuneSet == [at : {"idle", "profile", "shaping"}, number : 0..MaxSessions,
            profile : Profiles \cup {0}, tuning : Shapings, count : 0..MaxTunings]
EngineSet == [running : BOOLEAN, cancelled : BOOLEAN,
              at : {"off", "pump", "frame", "shape", "wait"}, failed : BOOLEAN]
\* Of the session and what pumps for it ...
SessionTypes ==
  /\ session \in SessionSet /\ Abs(session.out) <= session.tuning.limit
  /\ pump \in PumpSet /\ since \in 0..Horizon
  /\ engine.running => session.at = "run"
\* ... and of the calls.
CallTypes == tune \in TuneSet /\ calls \in 0..MaxCalls

LEMMA GameParts ==
  GameIInv <=> /\ Telemetry /\ SchedulerTypeOK /\ SessionTypes /\ CallTypes
               /\ Phases /\ Applied /\ Aged /\ Falling
BY DEF GameIInv, GameTypeOK, Telemetry, SessionTypes, CallTypes, SessionSet, PumpSet, TuneSet

LEMMA GamePartsNext ==
  GameIInv' <=> /\ Telemetry' /\ SchedulerTypeOK' /\ SessionTypes' /\ CallTypes'
                /\ Phases' /\ Applied' /\ Aged' /\ Falling'
BY DEF GameIInv, GameTypeOK, Telemetry, SessionTypes, CallTypes, SessionSet, PumpSet, TuneSet

\* Every shaping has a limit a force can have.
LEMMA ShapingLimits == \A t \in Shapings : t.limit \in 0..Full /\ t.smooth \in BOOLEAN
<1>1. \A t \in Tunings : t.limit \in 0..Full /\ t.smooth \in BOOLEAN
  BY GameForceAssumption
<1>2. NoSession.tuning = [smooth |-> FALSE, limit |-> Full]
  BY DEF NoSession
<1>3. NoSession.tuning.limit \in 0..Full /\ NoSession.tuning.smooth \in BOOLEAN
  BY <1>2, SchedulerAssumption
<1> QED
  BY <1>1, <1>3 DEF Shapings

\* The session that is none.
LEMMA NoSessionTypes ==
  ASSUME NEW n \in 0..MaxSessions, NEW l \in {"off", "faulted", "ensure"}, NEW k \in Kinds \cup {None}
  PROVE  LET s == [NoSession EXCEPT !.at = l, !.number = n, !.kind = k]
         IN  /\ s \in SessionSet /\ s.at = l /\ s.kind = k /\ s.out = 0 /\ s.low = 0
             /\ Abs(s.out) <= s.tuning.limit
<1>1. NoSession.tuning \in Shapings /\ 0 \in -Full..Full /\ 0 \in 0..MaxSessions
  BY GameForceAssumption, SchedulerAssumption DEF Shapings
<1>2. NoSession \in SessionSet
  BY <1>1 DEF SessionSet, NoSession
<1>3. NoSession.out = 0 /\ NoSession.low = 0 /\ NoSession.tuning.limit \in 0..Full
  BY <1>1, ShapingLimits DEF NoSession
<1>4. ASSUME NEW s, s = [NoSession EXCEPT !.at = l, !.number = n, !.kind = k]
      PROVE  /\ s \in SessionSet /\ s.at = l /\ s.kind = k /\ s.out = 0 /\ s.low = 0
             /\ Abs(s.out) <= s.tuning.limit
  <2>1. s \in SessionSet /\ s.at = l /\ s.kind = k /\ s.out = NoSession.out /\ s.low = NoSession.low /\ s.tuning = NoSession.tuning
    BY <1>2, <1>4 DEF SessionSet
  <2>2. Abs(s.out) = 0
    BY <1>3, <2>1 DEF Abs
  <2> QED
    BY <1>3, <2>1, <2>2
<1> QED
  BY <1>4

\* A session that is over keeps its number.
Ended(s, l) ==
  /\ s \in SessionSet /\ s.at = l /\ s.kind = None /\ s.out = 0 /\ s.low = 0
  /\ Abs(s.out) <= s.tuning.limit
LEMMA EndedTypes ==
  ASSUME NEW n \in 0..MaxSessions
  PROVE  /\ Ended([NoSession EXCEPT !.number = n], "off")
         /\ \A l \in {"off", "faulted"} : Ended([NoSession EXCEPT !.at = l, !.number = n], l)
<1>1. NoSession.tuning \in Shapings /\ 0 \in -Full..Full /\ 0 \in 0..MaxSessions
  BY GameForceAssumption, SchedulerAssumption DEF Shapings
<1>2. NoSession \in SessionSet /\ NoSession.at = "off" /\ NoSession.kind = None /\ NoSession.out = 0 /\ NoSession.low = 0
  BY <1>1 DEF SessionSet, NoSession
<1>3. NoSession.tuning.limit \in 0..Full /\ Abs(0) = 0
  BY <1>1, ShapingLimits DEF Abs
<1>4. Ended([NoSession EXCEPT !.number = n], "off")
  BY <1>2, <1>3 DEF SessionSet, Ended
<1>5. ASSUME NEW l \in {"off", "faulted"} PROVE Ended([NoSession EXCEPT !.at = l, !.number = n], l)
  <2> DEFINE s == [NoSession EXCEPT !.at = l, !.number = n]
  <2>1. s \in SessionSet
    BY <1>2 DEF SessionSet
  <2>2. s.at = l /\ s.kind = None /\ s.out = 0 /\ s.low = 0 /\ s.tuning = NoSession.tuning
    BY <1>2 DEF SessionSet
  <2>3. Abs(s.out) <= s.tuning.limit
    BY <1>3, <2>2
  <2> QED
    BY <2>1, <2>2, <2>3 DEF Ended
<1> QED
  BY <1>4, <1>5

\* A step of calls and adapters that gives no adapter a frame.
LEMMA CallsAlone ==
  ASSUME GameIInv, Telemetry', CallTypes', \A a \in Adapters : Renewed(a),
         UNCHANGED <<schedulerVars, session, pump, since>>
  PROVE  GameIInv'
<1>1. SchedulerTypeOK' /\ SessionTypes' /\ Phases' /\ Applied' /\ Falling'
  BY GameParts DEF schedulerVars, SchedulerTypeOK, SessionTypes, Phases, Applied, Falling
<1>2. ASSUME NEW a \in Adapters, Asking(a)' PROVE since' <= (adapter[a].age + Margin)'
  <2>1. adapter'[a] = adapter[a]
    BY <1>2 DEF Renewed, Asking, NoFrame
  <2>2. Asking(a)
    BY <1>2, <2>1 DEF Asking
  <2> QED
    BY <2>1, <2>2, GameParts DEF Aged, Margin, schedulerVars
<1>3. Aged'
  BY <1>2 DEF Aged
<1> QED
  BY <1>1, <1>3, GamePartsNext

-----------------------------------------------------------------------------
(* The session. *)

\* Nothing asks when there is no session.
LEMMA NobodyAsks ==
  ASSUME Blank', session'.kind = None
  PROVE  Aged'
BY DEF Blank, Aged, Asking, Closed, NoFrame

LEMMA BeginKeeps ==
  ASSUME GameIInv, NEW k \in Kinds, Begin(k)
  PROVE  GameIInv'
<1>1. Telemetry /\ SchedulerTypeOK /\ SessionTypes /\ CallTypes /\ Phases /\ Applied /\ Aged /\ Falling
  BY GameParts
<1>2. Ensure("ui", k, TRUE) /\ "ui" \in Callers
  BY GameForceAssumption DEF Begin
<1>3. Telemetry' /\ UNCHANGED adapter
  BY <1>1, <1>2, EnsureKeeps
<1>4. /\ session' = [NoSession EXCEPT !.at = "ensure", !.number = session.number + 1, !.kind = k]
      /\ session.at = "off" /\ session.number < MaxSessions /\ since' = 0
      /\ UNCHANGED <<schedulerVars, pump, tune, calls>>
  BY DEF Begin
<1>5. session.number + 1 \in 0..MaxSessions
  BY <1>1, <1>4, GameForceAssumption DEF SessionTypes, SessionSet
<1>6. session' \in SessionSet /\ session'.at = "ensure" /\ session'.out = 0 /\ session'.low = 0
      /\ Abs(session'.out) <= session'.tuning.limit
  BY <1>4, <1>5, NoSessionTypes
<1>7. SchedulerTypeOK' /\ CallTypes'
  BY <1>1, <1>4 DEF SchedulerTypeOK, schedulerVars, CallTypes
<1>8. SessionTypes'
  BY <1>1, <1>4, <1>6, TelemetryAssumption, SchedulerAssumption DEF SessionTypes, schedulerVars, Horizon
<1>9. Phases' /\ Applied' /\ Falling'
  BY <1>1, <1>4, <1>6 DEF Phases, Applied, Falling, schedulerVars, NoOutput
<1>10. Aged'
  <2>1. \A a \in Adapters : adapter'[a].age \in Nat
    BY <1>1, <1>3, TelemetryParts, TelemetryAssumption DEF AdapterSet
  <2> QED
    BY <1>4, <2>1 DEF Aged, Margin
<1> QED
  BY <1>3, <1>7, <1>8, <1>9, <1>10, GamePartsNext

\* The engine's state at rest, and when it starts.
LEMMA EngineStates ==
  /\ NoOutput \in [force : -Full..Full, quiet : 0..Watchdog + 1]
  /\ [NoEngine EXCEPT !.at = "pump"] \in EngineSet
<1>1. 0 \in -Full..Full /\ 0 \in 0..Watchdog + 1
  BY SchedulerAssumption
<1>2. NoOutput \in [force : -Full..Full, quiet : 0..Watchdog + 1]
  BY <1>1 DEF NoOutput
<1>3. NoEngine \in EngineSet
  BY DEF NoEngine, EngineSet
<1>4. [NoEngine EXCEPT !.at = "pump"] \in EngineSet
  BY <1>3 DEF EngineSet
<1> QED
  BY <1>2, <1>4

LEMMA EnsuresKeeps ==
  ASSUME GameIInv, Ensures
  PROVE  GameIInv'
<1>1. Telemetry /\ SchedulerTypeOK /\ SessionTypes /\ CallTypes /\ Phases /\ Applied /\ Aged /\ Falling
  BY GameParts
<1>2. "ui" \in Callers /\ UNCHANGED <<adapter, current, pump, tune, calls>> /\ session.at = "ensure"
      /\ call' = [call EXCEPT !["ui"] = NoCall]
  BY GameForceAssumption DEF Ensures
<1>3. Telemetry'
  BY <1>1, <1>2, GoodCalls, OneCall, TelemetryParts
<1>4. CallTypes'
  BY <1>1, <1>2 DEF CallTypes
<1>5. engine.at = "off" /\ wheel = 0 /\ output = NoOutput /\ since = 0 /\ session.out = 0 /\ session.low = 0 /\ ~engine.running
  BY <1>1, <1>2 DEF Phases, SessionTypes
<1>6. CASE /\ session' = [NoSession EXCEPT !.number = session.number] /\ since' = Horizon
           /\ UNCHANGED schedulerVars
  <2>1. session.number \in 0..MaxSessions
    BY <1>1 DEF SessionTypes, SessionSet
  <2>2. Ended(session', "off")
    BY <1>6, <2>1, EndedTypes
  <2>3. session' \in SessionSet /\ session'.at = "off" /\ session'.kind = None /\ session'.out = 0 /\ session'.low = 0
        /\ Abs(session'.out) <= session'.tuning.limit
    BY <2>2 DEF Ended
  <2>4. Horizon \in 0..Horizon
    BY TelemetryAssumption, SchedulerAssumption DEF Horizon
  <2>5. SchedulerTypeOK'
    BY <1>1, <1>6 DEF SchedulerTypeOK, schedulerVars
  <2>6. SessionTypes'
    BY <1>1, <1>2, <1>5, <1>6, <2>3, <2>4 DEF SessionTypes, schedulerVars
  <2>7. Phases' /\ Applied' /\ Falling'
    BY <1>1, <1>5, <1>6, <2>3 DEF Phases, Applied, Falling, schedulerVars, NoOutput
  <2>8. Aged'
    BY <1>3, <2>3, NobodyAsks DEF Telemetry
  <2> QED
    BY <1>3, <1>4, <2>5, <2>6, <2>7, <2>8, GamePartsNext
<1>7. ASSUME NEW g \in Gains, NEW p \in Profiles, NEW t \in Tunings, Create, UNCHANGED since,
             session' = [session EXCEPT !.at = "first", !.active = TRUE, !.gain = g, !.profile = p,
                                        !.tuning = t]
      PROVE  GameIInv'
  <2>1. session' \in SessionSet /\ session'.at = "first" /\ session'.out = 0 /\ session'.low = 0 /\ session'.tuning = t
    BY <1>1, <1>5, <1>7 DEF SessionTypes, SessionSet, Shapings
  <2>2. t.limit \in 0..Full
    BY ShapingLimits DEF Shapings
  <2>3. Abs(session'.out) <= session'.tuning.limit
    BY <2>1, <2>2 DEF Abs
  <2>4. /\ engine'.at = "pump" /\ ~engine'.running /\ ~engine'.cancelled
        /\ output' = NoOutput /\ UNCHANGED <<wheel, failures>>
    BY <1>7 DEF Create, NoEngine
  <2>5. SchedulerTypeOK'
    BY <1>1, <1>7, EngineStates DEF SchedulerTypeOK, Create, EngineSet
  <2>6. SessionTypes'
    BY <1>1, <1>2, <1>7, <2>1, <2>3, <2>4 DEF SessionTypes
  <2>7. Phases' /\ Applied' /\ Falling'
    BY <1>5, <1>7, <2>1, <2>4 DEF Phases, Applied, Falling, NoOutput
  <2>8. Aged'
    <3>1. \A a \in Adapters : adapter'[a].age \in Nat
      BY <1>1, <1>2, TelemetryParts, TelemetryAssumption DEF AdapterSet
    <3> QED
      BY <1>5, <1>7, <3>1 DEF Aged, Margin
  <2> QED
    BY <1>3, <1>4, <2>5, <2>6, <2>7, <2>8, GamePartsNext
<1> QED
  BY <1>6, <1>7 DEF Ensures

\* What a step of the engine leaves alone.
LEMMA Untouched ==
  ASSUME GameIInv, UNCHANGED <<telemetryVars, tune, calls>>
  PROVE  Telemetry' /\ CallTypes'
BY GameParts DEF telemetryVars, Telemetry, TelemetryTypeOK, Named, Blank, CallTypes

LEMMA StartsKeeps ==
  ASSUME GameIInv, Starts
  PROVE  GameIInv'
<1>1. Telemetry /\ SchedulerTypeOK /\ SessionTypes /\ CallTypes /\ Phases /\ Applied /\ Aged /\ Falling
  BY GameParts
<1>2. UNCHANGED <<telemetryVars, pump, tune, calls, since>> /\ session.at = "first"
  BY DEF Starts
<1>3. Telemetry' /\ CallTypes'
  BY <1>2, Untouched
<1>4. since <= 1 /\ since \in Int /\ \A a \in Adapters : adapter[a].age \in Nat
  BY <1>1, <1>2, TelemetryParts, TelemetryAssumption DEF Phases, SessionTypes, AdapterSet
<1>5. CASE Run /\ session' = [session EXCEPT !.at = "run"]
  <2>1. session' \in SessionSet /\ session'.at = "run" /\ session'.out = session.out /\ session'.low = session.low
        /\ session'.tuning = session.tuning
    BY <1>1, <1>5 DEF SessionTypes, SessionSet
  <2>2. /\ engine.at = "wait" /\ ~engine.cancelled /\ engine' = [engine EXCEPT !.running = TRUE, !.at = "pump"]
        /\ UNCHANGED <<output, wheel, failures>>
    BY <1>5 DEF Run
  <2>3. SchedulerTypeOK'
    BY <1>1, <2>2 DEF SchedulerTypeOK
  <2>4. engine'.at = "pump" /\ ~engine'.cancelled
    BY <1>1, <2>2 DEF SchedulerTypeOK
  <2>5. SessionTypes'
    BY <1>1, <1>2, <2>1 DEF SessionTypes
  <2>6. Phases' /\ Applied' /\ Falling'
    BY <1>1, <1>2, <2>1, <2>2, <2>4 DEF Phases, Applied, Falling
  <2>7. Aged'
    BY <1>2, <1>4, <2>4 DEF Aged, Margin, telemetryVars
  <2> QED
    BY <1>3, <2>3, <2>5, <2>6, <2>7, GamePartsNext
<1>6. CASE /\ engine.at = "wait" /\ engine.failed
           /\ session' = [session EXCEPT !.at = "stop", !.active = FALSE]
           /\ engine' = [engine EXCEPT !.at = "off", !.cancelled = TRUE]
           /\ UNCHANGED <<output, wheel, failures>>
  <2>1. session' \in SessionSet /\ session'.at = "stop" /\ session'.out = session.out /\ session'.low = session.low
        /\ session'.tuning = session.tuning
    BY <1>1, <1>6 DEF SessionTypes, SessionSet
  <2>2. SchedulerTypeOK'
    BY <1>1, <1>6 DEF SchedulerTypeOK
  <2>3. engine'.at = "off" /\ ~engine'.running
    BY <1>1, <1>2, <1>6 DEF SchedulerTypeOK, Phases
  <2>4. SessionTypes'
    BY <1>1, <1>2, <2>1, <2>3 DEF SessionTypes
  <2>5. Phases' /\ Applied' /\ Falling'
    BY <1>1, <1>2, <1>6, <2>1, <2>3 DEF Phases, Applied, Falling
  <2>6. Aged'
    BY <1>2, <1>4, <2>3 DEF Aged, Margin, telemetryVars
  <2> QED
    BY <1>3, <2>2, <2>4, <2>5, <2>6, GamePartsNext
<1> QED
  BY <1>5, <1>6 DEF Starts

LEMMA StopSessionKeeps ==
  ASSUME GameIInv, StopSession
  PROVE  GameIInv'
<1>1. Telemetry /\ SchedulerTypeOK /\ SessionTypes /\ CallTypes /\ Phases /\ Applied /\ Aged /\ Falling
  BY GameParts
<1>2. /\ session.at = "run" /\ engine' = [engine EXCEPT !.running = FALSE, !.cancelled = TRUE]
      /\ UNCHANGED <<output, wheel, failures>>
      /\ UNCHANGED <<telemetryVars, session, pump, tune, calls, since>>
  BY DEF StopSession, Cancel
<1>3. Telemetry' /\ CallTypes'
  BY <1>2, Untouched
<1>4. SchedulerTypeOK' /\ engine'.at = engine.at /\ ~engine'.running
  BY <1>1, <1>2 DEF SchedulerTypeOK
<1>5. SessionTypes' /\ Phases' /\ Applied' /\ Falling'
  BY <1>1, <1>2, <1>4 DEF SessionTypes, Phases, Applied, Falling
<1>6. Aged'
  BY <1>1, <1>2, <1>4 DEF Aged, Asking, Margin, telemetryVars
<1> QED
  BY <1>3, <1>4, <1>5, <1>6, GamePartsNext

LEMMA StoppedKeeps ==
  ASSUME GameIInv, Stopped
  PROVE  GameIInv'
<1>1. Telemetry /\ SchedulerTypeOK /\ SessionTypes /\ CallTypes /\ Phases /\ Applied /\ Aged /\ Falling
  BY GameParts
<1>2. /\ engine.cancelled /\ engine.at = "off" /\ Panic
      /\ session' = [NoSession EXCEPT !.at = IF engine'.failed THEN "faulted" ELSE "off",
                                      !.number = session.number]
      /\ pump' = NoPump /\ since' = Horizon
      /\ UNCHANGED <<telemetryVars, tune, calls>>
  BY DEF Stopped, Done
<1>3. Telemetry' /\ CallTypes'
  BY <1>2, Untouched
<1>4. session.number \in 0..MaxSessions /\ ~engine.running
  BY <1>1, <1>2 DEF SessionTypes, SessionSet, Phases
<1>5. PICK l \in {"off", "faulted"} : l = IF engine'.failed THEN "faulted" ELSE "off"
  OBVIOUS
<1>6. session' = [NoSession EXCEPT !.at = l, !.number = session.number]
  BY <1>2, <1>5
<1>7. session' \in SessionSet /\ session'.at = l /\ session'.kind = None /\ session'.out = 0 /\ session'.low = 0
      /\ Abs(session'.out) <= session'.tuning.limit
  <2>1. Ended(session', l)
    BY <1>4, <1>6, EndedTypes
  <2> QED
    BY <2>1 DEF Ended
<1>8. Horizon \in 0..Horizon /\ NoPump \in PumpSet
  BY TelemetryAssumption, SchedulerAssumption DEF Horizon, NoPump, PumpSet
<1>9. /\ engine' \in EngineSet /\ engine'.at = "off" /\ ~engine'.running
      /\ wheel' \in -Full..Full /\ failures' \in 0..MaxFailures
      /\ engine'.failed \/ wheel' = 0
  <2>1. CASE wheel' = 0 /\ UNCHANGED failures /\ engine' = [engine EXCEPT !.failed = FALSE]
    <3>1. wheel' \in -Full..Full /\ failures' \in 0..MaxFailures
      BY <1>1, <2>1, SchedulerAssumption DEF SchedulerTypeOK
    <3>2. engine' \in EngineSet /\ engine'.at = "off" /\ ~engine'.running
      BY <1>1, <1>2, <1>4, <2>1 DEF SchedulerTypeOK, EngineSet
    <3> QED
      BY <2>1, <3>1, <3>2
  <2>2. CASE /\ failures < MaxFailures /\ failures' = failures + 1
             /\ wheel' \in {wheel} \cup {v \in -Full..Full : v * output.force >= 0 /\ Abs(v) <= Abs(output.force)}
             /\ engine' = [engine EXCEPT !.failed = TRUE]
    <3>1. wheel' \in -Full..Full
      BY <1>1, <2>2 DEF SchedulerTypeOK
    <3>2. failures' \in 0..MaxFailures
      BY <1>1, <2>2, SchedulerAssumption DEF SchedulerTypeOK
    <3>3. engine' \in EngineSet /\ engine'.at = "off" /\ ~engine'.running /\ engine'.failed
      BY <1>1, <1>2, <1>4, <2>2 DEF SchedulerTypeOK, EngineSet
    <3> QED
      BY <3>1, <3>2, <3>3
  <2> QED
    BY <1>2, <2>1, <2>2 DEF Panic
<1>14. output' = NoOutput
  BY <1>2 DEF Panic
<1>15. l = "off" => wheel' = 0
  BY <1>5, <1>9
<1>16. SchedulerTypeOK'
  BY <1>9, <1>14, EngineStates DEF SchedulerTypeOK, EngineSet
<1>10. SessionTypes'
  BY <1>2, <1>7, <1>8, <1>9 DEF SessionTypes
<1>11. engine'.cancelled => ~engine'.running
  BY <1>9
<1>12. Phases' /\ Applied' /\ Falling'
  BY <1>7, <1>9, <1>11, <1>14, <1>15 DEF Phases, Applied, Falling, NoOutput
<1>13. Aged'
  BY <1>3, <1>7, NobodyAsks DEF Telemetry
<1> QED
  BY <1>3, <1>10, <1>12, <1>13, <1>16, GamePartsNext

LEMMA RecoveredKeeps ==
  ASSUME GameIInv, Recovered
  PROVE  GameIInv'
<1>1. Telemetry /\ SchedulerTypeOK /\ SessionTypes /\ CallTypes /\ Phases /\ Applied /\ Aged /\ Falling
  BY GameParts
<1>2. /\ session.at = "faulted" /\ session' = [session EXCEPT !.at = "off"]
      /\ wheel' = 0 /\ engine' = [engine EXCEPT !.failed = FALSE]
      /\ UNCHANGED <<telemetryVars, output, failures, pump, tune, calls, since>>
  BY DEF Recovered
<1>3. Telemetry' /\ CallTypes'
  BY <1>2, Untouched
<1>4. SchedulerTypeOK' /\ engine'.at = "off" /\ ~engine'.running
  <2>1. wheel' \in -Full..Full
    BY <1>2, SchedulerAssumption
  <2>2. engine.at = "off" /\ ~engine.running /\ engine \in EngineSet
    BY <1>1, <1>2 DEF SchedulerTypeOK, Phases, SessionTypes, EngineSet
  <2>3. engine' \in EngineSet /\ engine'.at = "off" /\ ~engine'.running
    BY <1>2, <2>2 DEF EngineSet
  <2> QED
    BY <1>1, <1>2, <2>1, <2>3 DEF SchedulerTypeOK, EngineSet
<1>5. /\ session' \in SessionSet /\ session'.at = "off" /\ session'.kind = None
      /\ session'.out = session.out /\ session'.low = session.low /\ session'.tuning = session.tuning
  BY <1>1, <1>2 DEF SessionTypes, SessionSet, Phases
<1>6. SessionTypes' /\ Phases' /\ Applied' /\ Falling'
  BY <1>1, <1>2, <1>4, <1>5 DEF SessionTypes, Phases, Applied, Falling
<1>7. Aged'
  BY <1>3, <1>5, NobodyAsks DEF Telemetry
<1> QED
  BY <1>3, <1>4, <1>6, <1>7, GamePartsNext

-----------------------------------------------------------------------------
(* The pumps. *)

\* A pump belongs to a session that starts or runs.
LEMMA PumpsForSession ==
  ASSUME GameIInv, engine.at # "off"
  PROVE  /\ session.at \in {"first", "run"}
         /\ session.at = "first" => since <= 1 /\ (engine.at # "wait" => since = 0)
                                     /\ ~engine.running /\ ~engine.cancelled
BY GameParts DEF Phases, SessionTypes, SessionSet

\* The step of a pump to its next place writes nothing.
LEMMA PumpPlace ==
  ASSUME GameIInv, NEW l \in {"frame", "shape"}, engine.at \in {"pump", "frame"},
         engine' = [engine EXCEPT !.at = l], pump' \in PumpSet,
         UNCHANGED <<telemetryVars, output, wheel, failures, session, tune, calls, since>>,
         l = "shape" /\ pump'.force # 0 => since <= StaleAge + 1
  PROVE  GameIInv'
<1>1. Telemetry /\ SchedulerTypeOK /\ SessionTypes /\ CallTypes /\ Phases /\ Applied /\ Aged /\ Falling
  BY GameParts
<1>2. Telemetry' /\ CallTypes'
  BY Untouched
<1>3. engine' \in EngineSet /\ engine'.at = l /\ engine'.running = engine.running
      /\ engine'.cancelled = engine.cancelled
  BY <1>1 DEF SchedulerTypeOK, EngineSet
<1>4. SchedulerTypeOK'
  BY <1>1, <1>3 DEF SchedulerTypeOK, EngineSet
<1>5. SessionTypes'
  BY <1>1, <1>3 DEF SessionTypes
<1>6. Phases' /\ Applied' /\ Falling'
  BY <1>1, <1>3, PumpsForSession DEF Phases, Applied, Falling
<1>7. Aged'
  BY <1>1, <1>3 DEF Aged, Asking, Margin, telemetryVars
<1> QED
  BY <1>2, <1>4, <1>5, <1>6, <1>7, GamePartsNext

LEMMA PumpReadsKeeps ==
  ASSUME GameIInv, PumpReads
  PROVE  GameIInv'
<1>1. session.profile \in Profiles \cup {0} /\ 0 \in -Full..Full
  BY GameParts, SchedulerAssumption DEF SessionTypes, SessionSet
<1>2. pump' \in PumpSet
  BY <1>1 DEF PumpReads, NoPump, PumpSet
<1> QED
  BY <1>2, PumpPlace DEF PumpReads

LEMMA PumpFrameKeeps ==
  ASSUME GameIInv, PumpFrame
  PROVE  GameIInv'
<1>1. Telemetry /\ SchedulerTypeOK /\ SessionTypes /\ Aged /\ pump \in PumpSet /\ session \in SessionSet
  BY GameParts DEF SessionTypes
<1> DEFINE a == current.id
<1>2. a \in Adapters /\ adapter[a] \in AdapterSet
  BY <1>1, TelemetryParts DEF PumpFrame, Live, CurrentSet
<1>3. adapter[a].last \in Frames /\ adapter[a].age \in 0..StaleAge
  BY <1>2 DEF AdapterSet, PumpFrame, Live, Fresh
<1>4. adapter[a].last.force \in Int /\ session.gain \in Int
  <2>1. adapter[a].last.force \in Int
    BY <1>3, TelemetryAssumption
  <2>2. session.gain \in Gains \cup {1}
    BY <1>1 DEF SessionSet
  <2>3. Gains \subseteq Int /\ 1 \in Int
    BY GameForceAssumption
  <2> QED
    BY <2>1, <2>2, <2>3
<1>5. Asked(adapter[a].last) \in Int
  BY <1>4 DEF Asked
<1>6. Asked(adapter[a].last) * session.gain \in Int
  BY <1>4, <1>5
<1>7. Asked(adapter[a].last) = 0 => Asked(adapter[a].last) * session.gain = 0
  BY <1>4
<1> DEFINE force == Clamp(Asked(adapter[a].last) * session.gain, -Full, Full)
<1>8. force \in -Full..Full /\ (Asked(adapter[a].last) = 0 => force = 0)
  BY <1>6, <1>7, ClampBounds, SchedulerAssumption
<1>9. /\ pump' = [pump EXCEPT !.force = force] /\ engine.at = "frame"
      /\ engine' = [engine EXCEPT !.at = "shape"]
      /\ UNCHANGED <<telemetryVars, output, wheel, failures, session, tune, calls, since>>
  BY DEF PumpFrame
<1>10. pump' \in PumpSet /\ pump'.force = force
  <2> HIDE DEF force
  <2> QED
    BY <1>1, <1>8, <1>9 DEF PumpSet
<1>11. ASSUME pump'.force # 0 PROVE since <= StaleAge + 1
  <2>1. Asked(adapter[a].last) # 0
    BY <1>8, <1>10, <1>11
  <2>2. Asking(a)
    BY <2>1 DEF Asked, Asking, PumpFrame, Live
  <2>3. since <= adapter[a].age + 1
    BY <1>1, <1>2, <1>9, <2>2 DEF Aged, Margin
  <2>4. since \in Nat /\ adapter[a].age \in Nat
    BY <1>1, <1>3, TelemetryAssumption DEF SessionTypes
  <2> QED
    BY <1>3, <2>3, <2>4, TelemetryAssumption
<1> QED
  BY <1>9, <1>10, <1>11, PumpPlace

\* A report is sent: the wheel has the force, or a failure is counted.
LEMMA WriteKeeps ==
  ASSUME SchedulerTypeOK, NEW v \in -Full..Full, Write(v, [engine EXCEPT !.at = "wait"])
  PROVE  /\ wheel' \in -Full..Full /\ failures' \in 0..MaxFailures
         /\ failures' = 0 => wheel' = v
         /\ engine' \in EngineSet /\ engine'.at = "wait"
         /\ engine'.running = engine.running /\ engine'.cancelled = engine.cancelled
<1> DEFINE next == [engine EXCEPT !.at = "wait"]
<1>1. next \in EngineSet /\ next.at = "wait" /\ next.running = engine.running
      /\ next.cancelled = engine.cancelled
  BY DEF SchedulerTypeOK, EngineSet
<1>2. CASE wheel' = v /\ UNCHANGED failures /\ engine' = next
  BY <1>1, <1>2 DEF SchedulerTypeOK
<1>3. CASE /\ failures < MaxFailures /\ failures' = failures + 1 /\ UNCHANGED wheel
           /\ engine' = [next EXCEPT !.failed = ~engine.running /\ ~engine.cancelled]
  <2>1. failures' \in 0..MaxFailures /\ failures' # 0
    BY <1>3, SchedulerAssumption DEF SchedulerTypeOK
  <2>2. (~engine.running /\ ~engine.cancelled) \in BOOLEAN
    OBVIOUS
  <2>3. \A b \in BOOLEAN : LET e == [next EXCEPT !.failed = b]
                           IN  /\ e \in EngineSet /\ e.at = "wait" /\ e.running = engine.running
                               /\ e.cancelled = engine.cancelled
    BY <1>1 DEF EngineSet
  <2>4. /\ engine' \in EngineSet /\ engine'.at = "wait" /\ engine'.running = engine.running
        /\ engine'.cancelled = engine.cancelled
    BY <1>3, <2>2, <2>3
  <2> QED
    BY <1>3, <2>1, <2>4 DEF SchedulerTypeOK
<1> QED
  BY <1>2, <1>3 DEF Write

LEMMA PumpMissesKeeps ==
  ASSUME GameIInv, PumpMisses
  PROVE  GameIInv'
<1>1. Telemetry /\ SchedulerTypeOK /\ SessionTypes /\ CallTypes /\ Phases /\ Applied /\ Aged /\ Falling
  BY GameParts
<1>2. /\ engine.at = "frame" /\ Tick /\ pump' = NoPump
      /\ UNCHANGED <<telemetryVars, session, tune, calls, since>>
  BY DEF PumpMisses
<1>3. Telemetry' /\ CallTypes'
  BY <1>2, Untouched
<1> DEFINE force == IF Overdue THEN 0 ELSE output.force
<1>4. force \in -Full..Full /\ output.force \in -Full..Full /\ output.quiet \in 0..Watchdog + 1
      /\ (force = 0 \/ force = output.force) /\ (output.quiet > Watchdog => force = 0)
  BY <1>1, SchedulerAssumption DEF SchedulerTypeOK, Overdue
<1>5. output' = [output EXCEPT !.force = force] /\ Write(force, [engine EXCEPT !.at = "wait"])
  BY <1>2 DEF Tick
<1> HIDE DEF force
<1>6. output' \in [force : -Full..Full, quiet : 0..Watchdog + 1] /\ output'.force = force
      /\ output'.quiet = output.quiet
  BY <1>1, <1>4, <1>5 DEF SchedulerTypeOK
<1>7. /\ wheel' \in -Full..Full /\ failures' \in 0..MaxFailures
      /\ failures' = 0 => wheel' = force
  BY <1>1, <1>4, <1>5, WriteKeeps
<1>8. /\ engine' \in EngineSet /\ engine'.at = "wait"
      /\ engine'.running = engine.running /\ engine'.cancelled = engine.cancelled
  BY <1>1, <1>4, <1>5, WriteKeeps
<1>9. SchedulerTypeOK'
  BY <1>6, <1>7, <1>8 DEF SchedulerTypeOK, EngineSet
<1>10. NoPump \in PumpSet
  BY SchedulerAssumption DEF NoPump, PumpSet
<1>11. SessionTypes'
  BY <1>1, <1>2, <1>8, <1>10 DEF SessionTypes
<1>12. Phases'
  BY <1>1, <1>2, <1>8, PumpsForSession DEF Phases
<1>13. Applied'
  BY <1>4, <1>6, <1>7 DEF Applied
<1>14. Falling'
  BY <1>1, <1>2, <1>4, <1>6, <1>8 DEF Falling
<1>15. Aged'
  <2>1. since \in Int /\ \A a \in Adapters : adapter[a].age \in Int
    BY <1>1, TelemetryParts, TelemetryAssumption DEF SessionTypes, AdapterSet
  <2> QED
    BY <1>1, <1>2, <1>8, <2>1 DEF Aged, Asking, Margin, telemetryVars
<1> QED
  BY <1>3, <1>9, <1>11, <1>12, <1>13, <1>14, <1>15, GamePartsNext

\* A filter comes closer to what it is given.
LEMMA FilterFalls ==
  ASSUME NEW last \in -Full..Full, NEW v \in -Full..Full, NEW u \in Filtered(last, v)
  PROVE  u \in -Full..Full /\ (v = 0 => u = 0 \/ Abs(u) + 1 <= Abs(last))
<1>1. CASE u = v
  BY <1>1
<1>2. CASE u \in Towards(last, v)
  <2>1. u \in -Full..Full
    BY <1>2 DEF Towards
  <2>2. v = 0 => u = 0 \/ Abs(u) + 1 <= Abs(last)
    BY <1>2, TowardsZero
  <2> QED
    BY <2>1, <2>2
<1> QED
  BY <1>1, <1>2 DEF Filtered

\* What the shaping makes of a force, and that it makes less of none.
LEMMA Shaped ==
  ASSUME SessionTypes, NEW c \in Curved(pump.force),
         NEW low \in Filtered(session.low, c), NEW o \in Filtered(session.out, low)
  PROVE  LET out == Clamp(o, -session.tuning.limit, session.tuning.limit)
         IN  /\ out \in -Full..Full /\ Abs(out) <= session.tuning.limit /\ low \in -Full..Full
             /\ pump.force = 0 => low = 0 \/ Abs(low) + 1 <= Abs(session.low)
             /\ low = 0 => out = 0 \/ Abs(out) + 1 <= Abs(session.out)
<1>1. session.out \in -Full..Full /\ session.low \in -Full..Full /\ pump.force \in -Full..Full
      /\ session.tuning.limit \in 0..Full
  BY ShapingLimits DEF SessionTypes, SessionSet, PumpSet
<1>2. c \in -Full..Full /\ (pump.force = 0 => c = 0)
  BY DEF Curved
<1>9. low \in -Full..Full /\ (c = 0 => low = 0 \/ Abs(low) + 1 <= Abs(session.low))
  BY <1>1, <1>2, FilterFalls
<1>3. o \in -Full..Full /\ (low = 0 => o = 0 \/ Abs(o) + 1 <= Abs(session.out))
  BY <1>1, <1>9, FilterFalls
<1> DEFINE limit == session.tuning.limit
           out == Clamp(o, -limit, limit)
<1>4. limit \in Nat /\ o \in Int
  BY <1>1, <1>3, SchedulerAssumption
<1>5. out \in -limit..limit /\ Abs(out) <= Abs(o) /\ Abs(out) <= limit /\ (o = 0 => out = 0)
  BY <1>4, ClampBounds
<1>6. Abs(out) \in Int /\ Abs(o) \in Int /\ Abs(session.out) \in Int /\ out \in -Full..Full
  BY <1>1, <1>4, <1>5, SchedulerAssumption DEF Abs
<1> HIDE DEF out, limit
<1>7. low = 0 => out = 0 \/ Abs(out) + 1 <= Abs(session.out)
  BY <1>3, <1>5, <1>6
<1>8. QED
  BY <1>2, <1>5, <1>6, <1>7, <1>9 DEF out, limit

LEMMA PumpShapesKeeps ==
  ASSUME GameIInv, PumpShapes
  PROVE  GameIInv'
<1>1. Telemetry /\ SchedulerTypeOK /\ SessionTypes /\ CallTypes /\ Phases /\ Applied /\ Aged /\ Falling
  BY GameParts
<1> DEFINE Shapes(low, o) ==
       LET out == Clamp(o, -session.tuning.limit, session.tuning.limit)
           kept(v) == IF session.tuning.smooth THEN v ELSE 0
       IN  /\ session' = [session EXCEPT !.have = session.tuning.smooth, !.low = kept(low), !.out = kept(out)]
           /\ SetForce(Mixed(out, pump.profile))
<1>31. PICK c \in Curved(pump.force) :
         \E low \in Filtered(session.low, c) : \E o \in Filtered(session.out, low) : Shapes(low, o)
  BY DEF PumpShapes
<1>32. PICK low \in Filtered(session.low, c) : \E o \in Filtered(session.out, low) : Shapes(low, o)
  BY <1>31
<1>2. PICK o \in Filtered(session.out, low) : Shapes(low, o)
  BY <1>32
<1>3. /\ engine.at = "shape" /\ pump' = NoPump
      /\ since' = IF since = Horizon THEN since ELSE since + 1
      /\ UNCHANGED <<telemetryVars, tune, calls>>
  BY DEF PumpShapes
<1>4. Telemetry' /\ CallTypes'
  BY <1>3, Untouched
<1>5. PICK out : out = Clamp(o, -session.tuning.limit, session.tuning.limit)
  OBVIOUS
<1>6. /\ out \in -Full..Full /\ Abs(out) <= session.tuning.limit /\ low \in -Full..Full
      /\ pump.force = 0 => low = 0 \/ Abs(low) + 1 <= Abs(session.low)
      /\ low = 0 => out = 0 \/ Abs(out) + 1 <= Abs(session.out)
  BY <1>1, <1>5, Shaped
<1>7. PICK kept : kept = IF session.tuning.smooth THEN out ELSE 0
  OBVIOUS
<1>33. PICK passed : passed = IF session.tuning.smooth THEN low ELSE 0
  OBVIOUS
<1>8. /\ session.tuning \in Shapings /\ session.tuning.smooth \in BOOLEAN
      /\ session.tuning.limit \in 0..Full /\ session \in SessionSet
  BY <1>1, ShapingLimits DEF SessionTypes, SessionSet
<1>9. kept \in -Full..Full /\ Abs(kept) <= session.tuning.limit /\ (kept = 0 \/ kept = out)
      /\ passed \in -Full..Full /\ (passed = 0 \/ passed = low)
  BY <1>6, <1>7, <1>8, <1>33, SchedulerAssumption DEF Abs
<1>10. session' = [session EXCEPT !.have = session.tuning.smooth, !.low = passed, !.out = kept]
  BY <1>2, <1>5, <1>7, <1>33
<1>11. session' \in SessionSet /\ session'.out = kept /\ session'.low = passed
       /\ session'.tuning = session.tuning /\ session'.at = session.at /\ session'.kind = session.kind
  BY <1>8, <1>9, <1>10 DEF SessionSet
<1>12. PICK target : target = Mixed(out, pump.profile)
  OBVIOUS
<1>13. target \in Int /\ (out = 0 => target = 0)
  BY <1>1, <1>6, <1>12, MixedBounds DEF SessionTypes, PumpSet
<1>14. PICK force : force = StepToward(output.force, target)
  OBVIOUS
<1>15. output.force \in -Full..Full
  BY <1>1 DEF SchedulerTypeOK
<1>16. force \in -Full..Full /\ (target = 0 => force = 0 \/ Abs(force) + 1 <= Abs(output.force))
  BY <1>13, <1>14, <1>15, StepBounds
<1>17. output' = [force |-> force, quiet |-> 0] /\ Write(force, [engine EXCEPT !.at = "wait"])
  BY <1>2, <1>5, <1>12, <1>14 DEF SetForce
<1>18. output' \in [force : -Full..Full, quiet : 0..Watchdog + 1] /\ output'.force = force /\ output'.quiet = 0
  BY <1>16, <1>17, SchedulerAssumption
<1>19. /\ wheel' \in -Full..Full /\ failures' \in 0..MaxFailures
       /\ failures' = 0 => wheel' = force
  BY <1>1, <1>16, <1>17, WriteKeeps
<1>20. /\ engine' \in EngineSet /\ engine'.at = "wait"
       /\ engine'.running = engine.running /\ engine'.cancelled = engine.cancelled
  BY <1>1, <1>16, <1>17, WriteKeeps
<1>21. SchedulerTypeOK'
  BY <1>18, <1>19, <1>20 DEF SchedulerTypeOK, EngineSet
<1>22. since \in 0..Horizon /\ since' \in 0..Horizon /\ Horizon = StaleAge + 3 * Full + 2
       /\ (since' = since + 1 \/ (since = Horizon /\ since' = Horizon))
  BY <1>1, <1>3, TelemetryAssumption, SchedulerAssumption DEF SessionTypes, Horizon
<1>23. NoPump \in PumpSet
  BY SchedulerAssumption DEF NoPump, PumpSet
<1>24. SessionTypes'
  BY <1>1, <1>3, <1>9, <1>11, <1>20, <1>22, <1>23 DEF SessionTypes
<1>25. Phases'
  BY <1>1, <1>3, <1>11, <1>20, <1>22, PumpsForSession, TelemetryAssumption, SchedulerAssumption DEF Phases
<1>26. Applied'
  BY <1>18, <1>19, SchedulerAssumption DEF Applied
<1>34. Abs(low) \in 0..Full /\ Abs(session.low) \in 0..Full /\ Abs(out) \in 0..Full /\ Abs(session.out) \in 0..Full
       /\ Abs(force) \in 0..Full /\ Abs(output.force) \in 0..Full /\ StaleAge \in Nat /\ Full \in Nat \ {0}
  BY <1>6, <1>8, <1>15, <1>16, TelemetryAssumption, SchedulerAssumption DEF Abs, SessionSet
<1>35. low = 0 \/ Abs(low) + since' <= Full + StaleAge + 2
  <2>1. CASE pump.force # 0
    <3>1. since <= StaleAge + 1
      BY <1>1, <1>3, <2>1 DEF Falling
    <3> QED
      BY <1>22, <1>34, <3>1
  <2>2. CASE pump.force = 0 /\ low # 0
    <3>1. Abs(low) + 1 <= Abs(session.low)
      BY <1>6, <2>2
    <3>2. session.low # 0
      BY <1>34, <3>1 DEF Abs
    <3>3. Abs(session.low) + since <= Full + StaleAge + 2
      BY <1>1, <3>2 DEF Falling
    <3> QED
      BY <1>22, <1>34, <3>1, <3>3
  <2> QED
    BY <2>1, <2>2
<1>36. out = 0 \/ Abs(out) + since' <= 2 * Full + StaleAge + 2
  <2>1. CASE low # 0
    <3>1. Abs(low) >= 1
      BY <1>6, <2>1 DEF Abs
    <3> QED
      BY <1>22, <1>34, <1>35, <2>1, <3>1
  <2>2. CASE low = 0 /\ out # 0
    <3>1. Abs(out) + 1 <= Abs(session.out)
      BY <1>6, <2>2
    <3>2. session.out # 0
      BY <1>34, <3>1 DEF Abs
    <3>3. Abs(session.out) + since <= 2 * Full + StaleAge + 2
      BY <1>1, <3>2 DEF Falling
    <3> QED
      BY <1>22, <1>34, <3>1, <3>3
  <2> QED
    BY <2>1, <2>2
<1>28. force = 0 \/ Abs(force) + since' <= 3 * Full + StaleAge + 2
  <2>1. CASE out # 0
    <3>1. Abs(out) >= 1
      BY <1>6, <2>1 DEF Abs
    <3> QED
      BY <1>22, <1>34, <1>36, <2>1, <3>1
  <2>2. CASE out = 0 /\ force # 0
    <3>1. Abs(force) + 1 <= Abs(output.force)
      BY <1>13, <1>16, <2>2
    <3>2. output.force # 0
      BY <1>34, <3>1 DEF Abs
    <3>3. Abs(output.force) + since <= 3 * Full + StaleAge + 2
      BY <1>1, <3>2 DEF Falling
    <3> QED
      BY <1>22, <1>34, <3>1, <3>3
  <2> QED
    BY <2>1, <2>2
<1>27. /\ passed = 0 \/ Abs(passed) + since' <= Full + StaleAge + 2
       /\ kept = 0 \/ Abs(kept) + since' <= 2 * Full + StaleAge + 2
  BY <1>9, <1>35, <1>36
<1>29. Falling'
  BY <1>11, <1>18, <1>20, <1>27, <1>28 DEF Falling
<1>30. Aged'
  <2>1. \A a \in Adapters : adapter[a].age \in Int
    BY <1>1, TelemetryParts, TelemetryAssumption DEF AdapterSet
  <2>2. since \in Int /\ since' \in Int /\ since' <= since + 1
    BY <1>22, TelemetryAssumption, SchedulerAssumption
  <2> QED
    BY <1>1, <1>3, <1>11, <1>20, <1>22, <2>1, <2>2 DEF Aged, Asking, Margin, telemetryVars
<1> QED
  BY <1>4, <1>21, <1>24, <1>25, <1>26, <1>29, <1>30, GamePartsNext

LEMMA PumpEndsKeeps ==
  ASSUME GameIInv, PumpEnds
  PROVE  GameIInv'
<1>1. Telemetry /\ SchedulerTypeOK /\ SessionTypes /\ CallTypes /\ Phases /\ Applied /\ Aged /\ Falling
  BY GameParts
<1>2. /\ engine.at = "wait" /\ engine.cancelled /\ engine' = [engine EXCEPT !.at = "off"]
      /\ UNCHANGED <<output, wheel, failures>>
      /\ UNCHANGED <<telemetryVars, session, pump, tune, calls, since>>
  BY DEF PumpEnds, End
<1>3. Telemetry' /\ CallTypes'
  BY <1>2, Untouched
<1>4. engine' \in EngineSet /\ engine'.at = "off" /\ engine'.running = engine.running
      /\ engine'.cancelled = engine.cancelled
  BY <1>1, <1>2 DEF SchedulerTypeOK, EngineSet
<1>5. SchedulerTypeOK'
  BY <1>1, <1>2, <1>4 DEF SchedulerTypeOK, EngineSet
<1>6. SessionTypes' /\ Applied' /\ Falling'
  BY <1>1, <1>2, <1>4 DEF SessionTypes, Applied, Falling
<1>7. Phases'
  BY <1>1, <1>2, <1>4, PumpsForSession DEF Phases
<1>8. Aged'
  BY <1>1, <1>2, <1>4 DEF Aged, Asking, Margin, telemetryVars
<1> QED
  BY <1>3, <1>5, <1>6, <1>7, <1>8, GamePartsNext

-----------------------------------------------------------------------------
(* The tuning. *)

\* A change of the session's profile or shaping, or none.
LEMMA TuneKeeps ==
  ASSUME GameIInv, tune' \in TuneSet, session' \in SessionSet, session'.at = session.at,
         session'.kind = session.kind, Abs(session'.out) <= session'.tuning.limit,
         session'.out \in {0, session.out}, session'.low \in {0, session.low},
         UNCHANGED <<telemetryVars, schedulerVars, pump, calls, since>>
  PROVE  GameIInv'
<1>1. Telemetry /\ SchedulerTypeOK /\ SessionTypes /\ CallTypes /\ Phases /\ Applied /\ Aged /\ Falling
  BY GameParts
<1>2. Telemetry'
  BY <1>1 DEF telemetryVars, Telemetry, TelemetryTypeOK, Named, Blank
<1>3. SchedulerTypeOK' /\ CallTypes'
  BY <1>1 DEF SchedulerTypeOK, schedulerVars, CallTypes
<1>4. SessionTypes' /\ Phases' /\ Applied'
  BY <1>1 DEF SessionTypes, Phases, Applied, schedulerVars
<1>5. Falling'
  BY <1>1 DEF Falling, schedulerVars
<1>6. Aged'
  BY <1>1 DEF Aged, Asking, Margin, telemetryVars, schedulerVars
<1> QED
  BY <1>2, <1>3, <1>4, <1>5, <1>6, GamePartsNext

LEMMA TuneReadsKeeps ==
  ASSUME GameIInv, TuneReads
  PROVE  GameIInv'
<1>1. session \in SessionSet /\ Abs(session.out) <= session.tuning.limit /\ tune \in TuneSet
  BY GameParts DEF SessionTypes, CallTypes
<1>2. PICK p \in Profiles, t \in Tunings :
        tune' = [at |-> "profile", number |-> session.number, profile |-> p, tuning |-> t,
                 count |-> tune.count + 1]
  BY DEF TuneReads
<1>3. tune.count < MaxTunings /\ UNCHANGED <<telemetryVars, schedulerVars, session, pump, calls, since>>
  BY DEF TuneReads
<1>4. session.number \in 0..MaxSessions /\ tune.count + 1 \in 0..MaxTunings
  BY <1>1, <1>3, GameForceAssumption DEF SessionSet, TuneSet
<1>5. tune' \in TuneSet
  BY <1>2, <1>4 DEF TuneSet, Shapings
<1> QED
  BY <1>1, <1>3, <1>5, TuneKeeps

LEMMA TuneProfileKeeps ==
  ASSUME GameIInv, TuneProfile
  PROVE  GameIInv'
<1>1. session \in SessionSet /\ Abs(session.out) <= session.tuning.limit /\ tune \in TuneSet
  BY GameParts DEF SessionTypes, CallTypes
<1>2. /\ tune' = [tune EXCEPT !.at = "shaping"]
      /\ UNCHANGED <<telemetryVars, schedulerVars, pump, calls, since>>
      /\ session' = session \/ session' = [session EXCEPT !.profile = tune.profile]
  BY DEF TuneProfile, Tuned
<1>3. tune' \in TuneSet
  BY <1>1, <1>2 DEF TuneSet
<1>4. /\ session' \in SessionSet /\ session'.at = session.at /\ session'.kind = session.kind
      /\ session'.out = session.out /\ session'.low = session.low /\ session'.tuning = session.tuning
  BY <1>1, <1>2 DEF SessionSet, TuneSet
<1> QED
  BY <1>1, <1>2, <1>3, <1>4, TuneKeeps

LEMMA TuneShapingKeeps ==
  ASSUME GameIInv, TuneShaping
  PROVE  GameIInv'
<1>1. session \in SessionSet /\ Abs(session.out) <= session.tuning.limit /\ tune \in TuneSet
  BY GameParts DEF SessionTypes, CallTypes
<1>2. /\ tune' = [NoTune EXCEPT !.count = tune.count]
      /\ UNCHANGED <<telemetryVars, schedulerVars, pump, calls, since>>
      /\ session' = session \/ session' = [session EXCEPT !.tuning = tune.tuning, !.have = FALSE,
                                                           !.low = 0, !.out = 0]
  BY DEF TuneShaping, Tuned
<1>3. tune' \in TuneSet
  <2>1. NoSession.tuning \in Shapings /\ 0 \in 0..MaxTunings /\ 0 \in 0..MaxSessions /\ tune.count \in 0..MaxTunings
    BY <1>1, GameForceAssumption DEF Shapings, TuneSet
  <2>2. NoTune \in TuneSet
    BY <2>1 DEF NoTune, TuneSet
  <2> QED
    BY <1>2, <2>1, <2>2 DEF TuneSet
<1>4. tune.tuning \in Shapings /\ tune.tuning.limit \in 0..Full /\ Abs(0) <= tune.tuning.limit
      /\ 0 \in -Full..Full
  BY <1>1, ShapingLimits, SchedulerAssumption DEF TuneSet, Abs
<1>5. CASE session' = session
  BY <1>1, <1>2, <1>3, <1>5, TuneKeeps
<1>6. CASE session' = [session EXCEPT !.tuning = tune.tuning, !.have = FALSE,
                                                           !.low = 0, !.out = 0]
  <2>1. /\ session' \in SessionSet /\ session'.at = session.at /\ session'.kind = session.kind
        /\ session'.out = 0 /\ session'.low = 0 /\ session'.tuning = tune.tuning
    BY <1>1, <1>4, <1>6 DEF SessionSet
  <2> QED
    BY <1>2, <1>3, <1>4, <2>1, TuneKeeps
<1> QED
  BY <1>2, <1>5, <1>6

-----------------------------------------------------------------------------
(* The calls, the adapters and the time. *)

LEMMA TelemetryCallKeeps ==
  ASSUME GameIInv, TelemetryCall
  PROVE  GameIInv'
<1>1. Telemetry /\ {"ui", "refresh"} \subseteq Callers
  BY GameParts, GameForceAssumption
<1>2. UNCHANGED <<schedulerVars, session, pump, tune, since>> /\ calls < MaxCalls /\ calls' = calls + 1
  BY DEF TelemetryCall
<1>3. Telemetry' /\ UNCHANGED adapter
  BY <1>1, StartKeeps, StopKeeps, EnsureKeeps, StopAutomaticKeeps DEF TelemetryCall, UiCall, GameCall
<1>4. CallTypes'
  BY <1>2, GameParts, GameForceAssumption DEF CallTypes
<1> QED
  BY <1>2, <1>3, <1>4, CallsAlone DEF Renewed

LEMMA CallStepKeeps ==
  ASSUME GameIInv, CallStep
  PROVE  GameIInv'
<1>1. Telemetry' /\ \A a \in Adapters : Renewed(a)
  BY GameParts, TelemetryStepKeeps DEF CallStep
<1>2. CallTypes'
  BY GameParts DEF CallTypes, CallStep
<1> QED
  BY <1>1, <1>2, CallsAlone DEF CallStep

\* A packet that asks starts the count again; no other gives an adapter a frame that asks.
LEMMA AdapterStepKeeps ==
  ASSUME GameIInv, AdapterStep
  PROVE  GameIInv'
<1>1. Telemetry /\ SchedulerTypeOK /\ SessionTypes /\ CallTypes /\ Phases /\ Applied /\ Aged /\ Falling
  BY GameParts
<1>2. PICK a \in Adapters : LoopStep(a) /\ since' = IF Asks(a) THEN 0 ELSE since
  BY DEF AdapterStep
<1>3. UNCHANGED <<schedulerVars, session, pump, tune, calls>>
  BY DEF AdapterStep
<1>4. Telemetry' /\ \A b \in Adapters \ {a} : adapter'[b] = adapter[b]
  BY <1>1, <1>2, LoopStepKeeps
<1>5. since' \in {0, since} /\ since \in 0..Horizon /\ Horizon \in Nat
  BY <1>1, <1>2, TelemetryAssumption, SchedulerAssumption DEF SessionTypes, Horizon
<1>6. SchedulerTypeOK' /\ CallTypes'
  BY <1>1, <1>3 DEF SchedulerTypeOK, CallTypes, schedulerVars
<1>7. SessionTypes' /\ Phases' /\ Applied'
  BY <1>1, <1>3, <1>5 DEF SessionTypes, Phases, Applied, schedulerVars
<1>8. Falling'
  <2>1. session.out \in -Full..Full /\ session.low \in -Full..Full /\ output.force \in -Full..Full
    BY <1>1 DEF SessionTypes, SessionSet, SchedulerTypeOK
  <2>2. /\ Abs(session.out) \in Int /\ Abs(session.low) \in Int /\ Abs(output.force) \in Int
        /\ since' <= since /\ since' \in Int /\ since \in Int /\ StaleAge \in Int /\ Full \in Int
    BY <1>5, <2>1, TelemetryAssumption, SchedulerAssumption DEF Abs
  <2>3. UNCHANGED <<engine, pump, session, output>>
    BY <1>3 DEF schedulerVars
  <2>4. /\ engine.at = "shape" /\ pump.force # 0 => since' <= StaleAge + 1
        /\ session.low = 0 \/ Abs(session.low) + since' <= Full + StaleAge + 2
        /\ session.out = 0 \/ Abs(session.out) + since' <= 2 * Full + StaleAge + 2
        /\ output.force = 0 \/ Abs(output.force) + since' <= 3 * Full + StaleAge + 2
    BY <1>1, <2>2 DEF Falling
  <2> QED
    BY <2>3, <2>4 DEF Falling
<1>9. ASSUME NEW b \in Adapters, Asking(b)' PROVE since' <= (adapter[b].age + Margin)'
  <2>1. adapter'[b].age \in Nat
    BY <1>4, TelemetryPartsNext, TelemetryAssumption DEF AdapterSet
  <2>2. CASE since' = 0
    BY <2>1, <2>2 DEF Margin
  <2>3. CASE since' # 0
    <3>1. b # a
      <4>1. adapter'[b].last.allowed /\ adapter'[b].last # NoFrame
        BY <1>9 DEF Asking, NoFrame
      <4>2. b = a => adapter'[b].kind = adapter[b].kind
        BY <1>1, <1>2, <4>1, LoopStepKeeps
      <4>3. session' = session
        BY <1>3
      <4>4. b = a => Asks(b)
        BY <1>9, <4>2, <4>3, Zenon DEF Asking, Asks
      <4>5. ~Asks(a)
        BY <1>2, <2>3
      <4> QED
        BY <4>4, <4>5
    <3>2. adapter'[b] = adapter[b] /\ since' = since
      BY <1>4, <1>5, <2>3, <3>1
    <3>3. Asking(b)
      BY <1>3, <1>9, <3>2 DEF Asking
    <3> QED
      BY <1>1, <1>3, <3>2, <3>3 DEF Aged, Margin, schedulerVars
  <2> QED
    BY <2>2, <2>3
<1>10. Aged'
  BY <1>9 DEF Aged
<1> QED
  BY <1>4, <1>6, <1>7, <1>8, <1>10, GamePartsNext

LEMMA ElapseKeeps ==
  ASSUME GameIInv, Elapse
  PROVE  GameIInv'
<1>1. Telemetry /\ SchedulerTypeOK /\ SessionTypes /\ CallTypes /\ Phases /\ Applied /\ Aged /\ Falling
  BY GameParts
<1>2. adapter' = Older /\ UNCHANGED <<current, call, session, pump, tune, calls, since>> /\ Ticks
  BY DEF Elapse
<1>3. /\ Telemetry'
      /\ \A a \in Adapters :
           \/ adapter'[a].last = NoFrame
           \/ /\ adapter'[a].last = adapter[a].last /\ adapter'[a].kind = adapter[a].kind
              /\ adapter'[a].age = adapter[a].age + 1
  BY <1>1, <1>2, OlderKeeps
<1>4. CallTypes'
  BY <1>1, <1>2 DEF CallTypes
<1>5. PICK quiet : /\ quiet = IF engine.at = "off" THEN 0 ELSE IF output.quiet > Watchdog THEN output.quiet
                                ELSE output.quiet + 1
                   /\ output' = [output EXCEPT !.quiet = quiet]
  BY <1>2 DEF Ticks
<1>6. quiet \in 0..Watchdog + 1
  BY <1>1, <1>5, SchedulerAssumption DEF SchedulerTypeOK
<1>7. output' \in [force : -Full..Full, quiet : 0..Watchdog + 1] /\ output'.force = output.force
      /\ (engine.at = "off" /\ output = NoOutput => output' = NoOutput)
  BY <1>1, <1>5, <1>6 DEF SchedulerTypeOK, NoOutput
<1>8. UNCHANGED <<wheel, failures>>
  BY <1>2 DEF Ticks
<1>9. CASE engine.at = "off" /\ UNCHANGED engine
  <2>1. SchedulerTypeOK'
    BY <1>1, <1>7, <1>8, <1>9 DEF SchedulerTypeOK
  <2>2. SessionTypes' /\ Phases' /\ Applied' /\ Falling'
    BY <1>1, <1>2, <1>7, <1>8, <1>9 DEF SessionTypes, Phases, Applied, Falling
  <2>3. Aged'
    <3>1. since \in Int /\ \A a \in Adapters : adapter[a].age \in Int
      BY <1>1, TelemetryParts, TelemetryAssumption, SchedulerAssumption DEF SessionTypes, AdapterSet, Horizon
    <3> QED
      BY <1>1, <1>2, <1>3, <1>9, <3>1 DEF Aged, Asking, Margin, NoFrame
  <2> QED
    BY <1>3, <1>4, <2>1, <2>2, <2>3, GamePartsNext
<1>10. CASE /\ engine.at = "wait" /\ (engine.running \/ engine.cancelled)
            /\ engine' = [engine EXCEPT !.at = "pump"]
  <2>1. engine' \in EngineSet /\ engine'.at = "pump" /\ engine'.running = engine.running
        /\ engine'.cancelled = engine.cancelled
    BY <1>1, <1>10 DEF SchedulerTypeOK, EngineSet
  <2>2. SchedulerTypeOK'
    BY <1>1, <1>7, <1>8, <2>1 DEF SchedulerTypeOK, EngineSet
  <2>3. session.at = "run"
    BY <1>10, PumpsForSession
  <2>4. SessionTypes' /\ Phases' /\ Applied' /\ Falling'
    BY <1>1, <1>2, <1>7, <1>8, <2>1, <2>3 DEF SessionTypes, Phases, Applied, Falling
  <2>5. Aged'
    <3>1. since \in Int /\ \A a \in Adapters : adapter[a].age \in Int
      BY <1>1, TelemetryParts, TelemetryAssumption, SchedulerAssumption DEF SessionTypes, AdapterSet, Horizon
    <3> QED
      BY <1>1, <1>2, <1>3, <1>10, <2>1, <3>1 DEF Aged, Asking, Margin, NoFrame
  <2> QED
    BY <1>3, <1>4, <2>2, <2>4, <2>5, GamePartsNext
<1> QED
  BY <1>2, <1>9, <1>10 DEF Ticks

-----------------------------------------------------------------------------
(* The theorems. *)

LEMMA InitGameIInv ==
  ASSUME GameInit
  PROVE  GameIInv
<1>1. 0 \in -Full..Full /\ 0 \in 0..Watchdog + 1 /\ 0 \in 0..MaxFailures /\ 0 \in 0..MaxSessions
      /\ 0 \in 0..MaxTunings /\ 0 \in 0..MaxCalls /\ 0 \in 0..StaleAge /\ Horizon \in 0..Horizon
  BY TelemetryAssumption, SchedulerAssumption, GameForceAssumption DEF Horizon
<1>2. /\ adapter = [a \in Adapters |-> Closed] /\ current = NoAdapter /\ call = [c \in Callers |-> NoCall]
      /\ output = NoOutput /\ wheel = 0 /\ engine = NoEngine /\ failures = 0
      /\ session = NoSession /\ pump = NoPump /\ tune = NoTune /\ calls = 0 /\ since = Horizon
  BY DEF GameInit, TelemetryInit, SchedulerInit
<1>3. Telemetry
  <2>1. GoodAdapter(Closed)
    BY <1>1 DEF GoodAdapter, AdapterSet, Closed
  <2>2. GoodCall(NoCall)
    BY DEF GoodCall, CallSet, NoCall
  <2>3. NoAdapter \in CurrentSet
    BY DEF NoAdapter, CurrentSet
  <2> QED
    BY <1>2, <2>1, <2>2, <2>3, TelemetryParts DEF GoodAdapter, GoodCall
<1>4. NoOutput \in [force : -Full..Full, quiet : 0..Watchdog + 1]
  BY EngineStates
<1>5. NoEngine \in EngineSet /\ NoEngine.at = "off" /\ ~NoEngine.running /\ ~NoEngine.cancelled
  BY DEF NoEngine, EngineSet
<1>6. SchedulerTypeOK
  BY <1>1, <1>2, <1>4, <1>5 DEF SchedulerTypeOK, EngineSet
<1>7. NoSession.tuning \in Shapings /\ NoSession.tuning.limit \in 0..Full
  BY ShapingLimits DEF Shapings
<1>8. NoSession \in SessionSet /\ NoSession.at = "off" /\ NoSession.kind = None /\ NoSession.out = 0 /\ NoSession.low = 0
  BY <1>1, <1>7 DEF SessionSet, NoSession
<1>9. Abs(NoSession.out) <= NoSession.tuning.limit
  BY <1>7, <1>8 DEF Abs
<1>10. NoPump \in PumpSet
  BY <1>1 DEF NoPump, PumpSet
<1>11. NoTune \in TuneSet
  BY <1>1, <1>7 DEF NoTune, TuneSet
<1>12. SessionTypes /\ CallTypes
  BY <1>1, <1>2, <1>5, <1>8, <1>9, <1>10, <1>11 DEF SessionTypes, CallTypes
<1>13. Phases /\ Applied /\ Falling
  BY <1>2, <1>5, <1>8 DEF Phases, Applied, Falling, NoOutput
<1>14. Aged
  BY <1>2, <1>8 DEF Aged, Asking, Closed, NoFrame
<1> QED
  BY <1>3, <1>6, <1>12, <1>13, <1>14, GameParts

LEMMA NextKeepsGameIInv ==
  ASSUME GameIInv, [GameNext]_gameVars
  PROVE  GameIInv'
<1>1. CASE GameNext
  BY <1>1, BeginKeeps, EnsuresKeeps, StartsKeeps, StopSessionKeeps, StoppedKeeps, RecoveredKeeps,
     PumpReadsKeeps, PumpFrameKeeps, PumpMissesKeeps, PumpShapesKeeps, PumpEndsKeeps,
     TuneReadsKeeps, TuneProfileKeeps, TuneShapingKeeps,
     TelemetryCallKeeps, CallStepKeeps, AdapterStepKeeps, ElapseKeeps DEF GameNext
<1>2. CASE UNCHANGED gameVars
  <2>1. Telemetry' /\ CallTypes'
    BY <1>2, Untouched DEF gameVars
  <2>2. \A a \in Adapters : Renewed(a)
    BY <1>2 DEF gameVars, telemetryVars, Renewed
  <2> QED
    BY <1>2, <2>1, <2>2, CallsAlone DEF gameVars
<1> QED
  BY <1>1, <1>2

\* The invariant holds in every state.
THEOREM GameInvariance == GameSpec => []GameIInv
<1>1. GameInit => GameIInv
  BY InitGameIInv
<1>2. GameIInv /\ [GameNext]_gameVars => GameIInv'
  BY NextKeepsGameIInv
<1> QED
  BY <1>1, <1>2, PTL DEF GameSpec

\* The variables of the game output keep their types, whatever the adapters, games and tunings are.
THEOREM GameTypeCorrect == GameSpec => []GameTypeOK
<1>1. GameIInv => GameTypeOK
  BY DEF GameIInv
<1> QED
  BY <1>1, GameInvariance, PTL

\* A session that is over has left the wheel at rest, and no goroutine of its engine goes on.
THEOREM StopIsAtRest == GameSpec => []StoppedNeutral
<1>1. GameIInv => StoppedNeutral
  BY DEF GameIInv, Phases, StoppedNeutral
<1> QED
  BY <1>1, GameInvariance, PTL

\* For any watchdog, slew limit, age of a frame and range of force, the wheel is at rest when too
\* many pumps have gone by without a frame that asks, or the watchdog's time without any frame.
THEOREM ForceIsAsked == GameSpec => []ForceNeedsAuthority
<1>1. ASSUME GameIInv PROVE ForceNeedsAuthority
  <2>1. SUFFICES ASSUME since = Horizon \/ output.quiet > Watchdog, failures = 0, engine.at = "wait"
                 PROVE  wheel = 0
    BY DEF ForceNeedsAuthority
  <2>2. wheel = output.force /\ (output.quiet > Watchdog => output.force = 0)
    BY <1>1, <2>1, GameParts DEF Applied
  <2>3. output.force \in -Full..Full /\ (output.force = 0 \/ Abs(output.force) + since <= 3 * Full + StaleAge + 2)
    BY <1>1, GameParts DEF SchedulerTypeOK, Falling
  <2>4. output.force # 0 => Abs(output.force) \in Nat \ {0}
    BY <2>3, SchedulerAssumption DEF Abs
  <2>5. since = Horizon => output.force = 0
    BY <2>3, <2>4, TelemetryAssumption, SchedulerAssumption DEF Horizon
  <2> QED
    BY <2>1, <2>2, <2>5
<1> QED
  BY <1>1, GameInvariance, PTL
=============================================================================
