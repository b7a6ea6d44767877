-------------------------- MODULE ConfigStoreProofs --------------------------
(***************************************************************************)
(* Proofs about the JSON files, for any number of entries, operations,      *)
(* failures and damaged files: a file is never half written, one that       *)
(* cannot be read is replaced only by a reset, and, as long as only the user *)
(* interface applies engine profiles, the wheel has the range of the profile *)
(* that the configuration names.                                            *)
(***************************************************************************)
EXTENDS ConfigStore, SequenceTheorems, TLAPS

(* The operations on the engine file: an apply or activation has the name   *)
(* of a profile, a save a range.                                            *)
Fits(job) ==
  /\ job.store = "engine" <=> job.op \in {"apply", "activate", "rewrite"}
  /\ job.op \in {"apply", "activate"} => job.val \in Names
  /\ job.op = "rewrite" => job.val \in Degrees

(* A queue of operations: an apply is the last one of its queue.            *)
Shape(s) == \A i \in 1..Len(s) : Fits(s[i]) /\ (s[i].op = "apply" => i = Len(s))

(* A thread is where the first operation of its queue may be.               *)
Place(t) ==
  /\ at[t] = "idle" <=> jobs[t] = <<>>
  /\ at[t] \in {"look", "stop", "range", "rollback"} => Job(t).op = "apply"
  /\ at[t] = "remove" => Job(t).op = "remove"
  /\ at[t] = "reread" => Job(t).store = "games"

Control ==
  /\ jobs \in [Threads -> Seq(Jobs)] /\ at \in [Threads -> Steps] /\ seen \in [Threads -> Maps]
  /\ \A t \in Threads : Shape(jobs[t]) /\ Place(t)

(* The files, the wheel and the counters.                                   *)
Files ==
  /\ up \in BOOLEAN /\ snapshot \in BOOLEAN
  /\ schema \in {"none", "old", "current", "newer"}
  /\ health \in [Stores -> {"sound", "bad", "newer"}]
  /\ entries \in [Stores -> Maps]
  /\ marker \in [Stores -> BOOLEAN]
  /\ range \in [Keys -> Degrees] /\ settled \in [Keys -> BOOLEAN]
  /\ calls \in 0..MaxCalls /\ faults \in 0..MaxFaults /\ damage \in 0..MaxDamage

(* Behind the read that accepted it, the file of the operation is sound.    *)
Writing == {"gate", "temp", "replace"}
Cleared == \A t \in Threads : at[t] \in Writing => health[Job(t).store] = "sound"

(* Nothing is under way while the program does not run.                     *)
Down == ~up => /\ \A t \in Threads : at[t] = "idle"
               /\ \A w \in Keys : ~settled[w]

IInv == Control /\ Files /\ Cleared /\ Down

(* A step of t leaves the other threads where they are.                     *)
Alone(t) == \A u \in Threads \ {t} : jobs'[u] = jobs[u] /\ at'[u] = at[u] /\ seen'[u] = seen[u]

(* Only the user interface works on the engine file.                        *)
EngineOwned ==
  \A t \in Threads : \A i \in 1..Len(jobs[t]) : jobs[t][i].store = "engine" => t = "ui"

\* What an entry may hold, and a file without entries.
LEMMA WordTyped ==
  /\ None \in Words /\ Values \subseteq Words /\ Degrees \subseteq Words /\ Names \subseteq Words
  /\ Profiles \subseteq Words /\ Empty \in Maps
<1>1. /\ None \in Words /\ Values \subseteq Words /\ Degrees \subseteq Words /\ Names \subseteq Words
      /\ Profiles \subseteq Words
  <2> HIDE DEF Profiles
  <2> QED
    BY DEF Words
<1>2. Empty \in Maps
  BY <1>1 DEF Empty, Maps
<1> QED
  BY <1>1, <1>2

-----------------------------------------------------------------------------
(* The queues.                                                              *)

\* A thread that is not idle is at the first operation of its queue.
LEMMA AtFirst ==
  ASSUME Control, NEW t \in Threads, at[t] # "idle"
  PROVE  /\ jobs[t] \in Seq(Jobs) /\ jobs[t] # <<>> /\ Len(jobs[t]) \in Nat \ {0}
         /\ Job(t) = jobs[t][1] /\ Job(t) \in Jobs /\ 1 \in 1..Len(jobs[t])
<1>1. jobs[t] \in Seq(Jobs) /\ jobs[t] # <<>>
  BY DEF Control, Place
<1>2. Len(jobs[t]) \in Nat \ {0}
  BY <1>1, EmptySeq
<1>3. 1 \in 1..Len(jobs[t])
  BY <1>2
<1>4. Job(t) = jobs[t][1]
  BY <1>1 DEF Job
<1> QED
  BY <1>1, <1>2, <1>3, <1>4, ElementOfSeq

\* The tail of a queue is a queue, of operations that were there.
LEMMA TailShape ==
  ASSUME NEW s \in Seq(Jobs), s # <<>>, Shape(s)
  PROVE  /\ Tail(s) \in Seq(Jobs) /\ Shape(Tail(s))
         /\ \A i \in 1..Len(Tail(s)) : i + 1 \in 1..Len(s) /\ Tail(s)[i] = s[i + 1]
         /\ s[1].op = "apply" => Tail(s) = <<>>
<1>1. Len(s) \in Nat \ {0}
  BY EmptySeq
<1>2. /\ Tail(s) \in Seq(Jobs) /\ Len(Tail(s)) = Len(s) - 1
      /\ \A i \in 1..Len(Tail(s)) : Tail(s)[i] = s[i + 1]
  BY HeadTailProperties
<1>3. \A i \in 1..Len(Tail(s)) : i + 1 \in 1..Len(s) /\ Len(s) # 1
  BY <1>1, <1>2
<1>4. Shape(Tail(s))
  <2> SUFFICES ASSUME NEW i \in 1..Len(Tail(s))
               PROVE  Fits(Tail(s)[i]) /\ (Tail(s)[i].op = "apply" => i = Len(Tail(s)))
    BY DEF Shape
  <2>1. i + 1 \in 1..Len(s) /\ Tail(s)[i] = s[i + 1] /\ i \in Int
    BY <1>2, <1>3
  <2>2. Fits(s[i + 1]) /\ (s[i + 1].op = "apply" => i + 1 = Len(s))
    BY <2>1 DEF Shape
  <2>3. i + 1 = Len(s) => i = Len(Tail(s))
    <3>1. PICK n \in Nat : n = Len(s)
      BY <1>1
    <3>2. Len(Tail(s)) = n - 1
      BY <1>2, <3>1
    <3>3. i + 1 = n => i = n - 1
      BY <2>1
    <3> QED
      BY <3>1, <3>2, <3>3
  <2> QED
    BY <2>1, <2>2, <2>3
<1>5. s[1].op = "apply" => Tail(s) = <<>>
  <2>1. 1 \in 1..Len(s)
    BY <1>1
  <2>2. s[1].op = "apply" => 1 = Len(s)
    BY <2>1 DEF Shape
  <2>3. 1 = Len(s) => Len(Tail(s)) = 0
    <3>1. 1 = Len(s) => Len(Tail(s)) = 1 - 1
      BY <1>2
    <3> QED
      BY <3>1
  <2> QED
    BY <1>2, <2>2, <2>3, EmptySeq
<1> QED
  BY <1>2, <1>3, <1>4, <1>5

\* So is what is left when the first operation has ended; behind an apply nothing is.
LEMMA RestShape ==
  ASSUME Control, NEW t \in Threads, at[t] # "idle", NEW ok \in BOOLEAN
  PROVE  /\ Rest(t, ok) \in Seq(Jobs) /\ Shape(Rest(t, ok))
         /\ \A i \in 1..Len(Rest(t, ok)) : \E j \in 1..Len(jobs[t]) : Rest(t, ok)[i] = jobs[t][j]
         /\ Job(t).op = "apply" => Rest(t, ok) = <<>>
<1> DEFINE s == jobs[t]
           tail == Tail(s)
<1>0. s \in Seq(Jobs) /\ s # <<>> /\ Shape(s) /\ Job(t) = s[1]
  BY AtFirst DEF Control
<1>1. /\ tail \in Seq(Jobs) /\ Shape(tail)
      /\ \A i \in 1..Len(tail) : i + 1 \in 1..Len(s) /\ tail[i] = s[i + 1]
      /\ s[1].op = "apply" => tail = <<>>
  BY <1>0, TailShape
<1>2. CASE Rest(t, ok) = tail
  BY <1>0, <1>1, <1>2
<1>3. CASE tail # <<>> /\ Rest(t, ok) = Tail(tail)
  <2>1. /\ Tail(tail) \in Seq(Jobs) /\ Shape(Tail(tail))
        /\ \A i \in 1..Len(Tail(tail)) : i + 1 \in 1..Len(tail) /\ Tail(tail)[i] = tail[i + 1]
    BY <1>1, <1>3, TailShape
  <2> QED
    BY <1>0, <1>1, <1>3, <2>1
<1>4. Rest(t, ok) = tail \/ (tail # <<>> /\ Rest(t, ok) = Tail(tail))
  BY DEF Rest
<1> QED
  BY <1>2, <1>3, <1>4

\* The next step of an operation that begins fits it.
LEMMA FirstFits ==
  ASSUME NEW job
  PROVE  /\ First(job) \in {"look", "remove", "read"}
         /\ First(job) = "look" <=> job.op = "apply"
         /\ First(job) = "remove" => job.op = "remove"
  BY DEF First

\* The end of an operation keeps the control in order.
LEMMA EndControl ==
  ASSUME Control, NEW t \in Threads, at[t] # "idle", NEW ok \in BOOLEAN, End(t, ok)
  PROVE  /\ Control' /\ Alone(t) /\ (EngineOwned => EngineOwned')
         /\ at'[t] \in {"idle", "look", "read", "remove"}
         /\ Job(t).op = "apply" => at'[t] = "idle"
<1> DEFINE rest == Rest(t, ok)
<1>1. /\ rest \in Seq(Jobs) /\ Shape(rest)
      /\ \A i \in 1..Len(rest) : \E j \in 1..Len(jobs[t]) : rest[i] = jobs[t][j]
      /\ Job(t).op = "apply" => rest = <<>>
  BY RestShape
<1>2. jobs' = [jobs EXCEPT ![t] = rest]
  BY DEF End
<1>3. at' = [at EXCEPT ![t] = IF rest = <<>> THEN "idle" ELSE First(Head(rest))]
  BY DEF End
<1>4. seen' = [seen EXCEPT ![t] = Empty]
  BY DEF End
<1> HIDE DEF rest
<1>5. /\ jobs' \in [Threads -> Seq(Jobs)] /\ jobs'[t] = rest
      /\ \A u \in Threads \ {t} : jobs'[u] = jobs[u]
  BY <1>1, <1>2 DEF Control
<1>6. /\ at' \in [Threads -> Steps] /\ at'[t] = IF rest = <<>> THEN "idle" ELSE First(Head(rest))
      /\ \A u \in Threads \ {t} : at'[u] = at[u]
  <2>1. First(Head(rest)) \in Steps
    BY FirstFits DEF Steps
  <2> QED
    BY <1>3, <2>1 DEF Control, Steps
<1>7. seen' \in [Threads -> Maps] /\ \A u \in Threads \ {t} : seen'[u] = seen[u]
  BY <1>4, WordTyped DEF Control
<1>8. Job(t)' = Head(rest)
  BY <1>5 DEF Job
<1>9. Place(t)'
  BY <1>5, <1>6, <1>8, FirstFits DEF Place
<1>10. \A u \in Threads \ {t} : Place(u)' /\ Shape(jobs[u])'
  BY <1>5, <1>6 DEF Control, Place, Job, Shape, Fits
<1>11. Shape(jobs[t])'
  BY <1>1, <1>5 DEF Shape
<1>12. EngineOwned => EngineOwned'
  BY <1>1, <1>5 DEF EngineOwned
<1>13. at'[t] \in {"idle", "look", "read", "remove"} /\ (Job(t).op = "apply" => at'[t] = "idle")
  BY <1>1, <1>6, FirstFits
<1> QED
  BY <1>5, <1>6, <1>7, <1>9, <1>10, <1>11, <1>12, <1>13 DEF Control, Alone

\* So does a step within an operation, to a place the operation has.
LEMMA GotoControl ==
  ASSUME Control, NEW t \in Threads, at[t] # "idle", NEW step \in Steps \ {"idle", "remove"},
         step \in {"look", "stop", "range", "rollback"} => Job(t).op = "apply",
         step = "reread" => Job(t).store = "games",
         at' = [at EXCEPT ![t] = step], jobs' = jobs,
         NEW m \in Maps, seen' = [seen EXCEPT ![t] = m]
  PROVE  Control' /\ Alone(t) /\ at'[t] = step /\ seen'[t] = m /\ (EngineOwned => EngineOwned')
<1>1. /\ at' \in [Threads -> Steps] /\ at'[t] = step
      /\ \A u \in Threads \ {t} : at'[u] = at[u]
  BY DEF Control
<1>2. seen' \in [Threads -> Maps] /\ seen'[t] = m /\ \A u \in Threads \ {t} : seen'[u] = seen[u]
  BY DEF Control
<1>3. \A u \in Threads : Job(u)' = Job(u)
  BY DEF Job
<1>4. Place(t)'
  BY <1>1, <1>3 DEF Control, Place
<1>5. \A u \in Threads \ {t} : Place(u)'
  BY <1>1, <1>3 DEF Control, Place
<1>6. \A u \in Threads : Shape(jobs[u])'
  BY DEF Control, Shape
<1> QED
  BY <1>1, <1>2, <1>4, <1>5, <1>6 DEF Control, Alone, EngineOwned

\* The same for a step that reads nothing.
LEMMA PlainGoto ==
  ASSUME Control, NEW t \in Threads, at[t] # "idle", NEW step \in Steps \ {"idle", "remove"},
         step \in {"look", "stop", "range", "rollback"} => Job(t).op = "apply",
         step = "reread" => Job(t).store = "games",
         Goto(t, step)
  PROVE  /\ Control' /\ Alone(t) /\ at'[t] = step /\ jobs' = jobs /\ seen' = seen
         /\ (EngineOwned => EngineOwned')
<1>1. at' = [at EXCEPT ![t] = step] /\ jobs' = jobs /\ seen' = seen
  BY DEF Goto
<1>2. /\ at' \in [Threads -> Steps] /\ at'[t] = step
      /\ \A u \in Threads \ {t} : at'[u] = at[u]
  BY <1>1 DEF Control
<1>3. \A u \in Threads : Job(u)' = Job(u)
  BY <1>1 DEF Job
<1>4. Place(t)'
  BY <1>1, <1>2, <1>3 DEF Control, Place
<1>5. \A u \in Threads \ {t} : Place(u)'
  BY <1>1, <1>2, <1>3 DEF Control, Place
<1>6. \A u \in Threads : Shape(jobs[u])'
  BY <1>1 DEF Control, Shape
<1> QED
  BY <1>1, <1>2, <1>4, <1>5, <1>6 DEF Control, Alone, EngineOwned

\* An operation that is given up ends, or goes back to the range before it.
LEMMA AbandonControl ==
  ASSUME Control, NEW t \in Threads, at[t] # "idle", Abandon(t)
  PROVE  /\ Control' /\ Alone(t) /\ (EngineOwned => EngineOwned')
         /\ at'[t] \in {"idle", "look", "read", "remove", "rollback"}
         /\ IF Job(t).op = "apply" THEN at'[t] = "rollback" /\ jobs' = jobs
            ELSE End(t, FALSE)
<1>1. CASE Job(t).op = "apply"
  <2>1. Goto(t, "rollback")
    BY <1>1 DEF Abandon, Goto
  <2> QED
    BY <1>1, <2>1, PlainGoto DEF Steps
<1>2. CASE Job(t).op # "apply"
  <2>1. End(t, FALSE)
    BY <1>2 DEF Abandon
  <2> QED
    BY <1>2, <2>1, EndControl
<1> QED
  BY <1>1, <1>2

-----------------------------------------------------------------------------
(* Profiles and ranges.                                                     *)

\* Whatever an entry is, it stands for a profile with a range.
LEMMA RangeTyped ==
  /\ \A e : Of(e) \in Profiles
  /\ \A p \in Profiles : \A name : DegreesOf(p, name) \in Degrees
  /\ \A w : Named(w) \in Degrees
<1>1. \A e : Of(e) \in Profiles
  BY DEF Of, Profiles, Names
<1>2. \A p \in Profiles : \A name : DegreesOf(p, name) \in Degrees
  BY StoreAssumption DEF Profiles, DegreesOf
<1> QED
  BY <1>1, <1>2 DEF Named

\* An apply that has looked goes on with the two ranges, or it has ended.
LEMMA Looked ==
  ASSUME Control, NEW t \in Threads, Look(t)
  PROVE  /\ at[t] = "look" /\ up /\ UNCHANGED <<up, disk, wheel, calls, damage>>
         /\ faults' = faults \/ Fails
         /\ \/ End(t, FALSE)
            \/ \E new \in Jobs :
                 /\ jobs' = [jobs EXCEPT ![t] = <<new>>]
                 /\ at' = [at EXCEPT ![t] = "stop"] /\ seen' = seen
                 /\ new.store = Job(t).store /\ new.op = Job(t).op /\ new.key = Job(t).key
                 /\ new.val = Job(t).val
                 /\ new.next = DegreesOf(Of(entries["engine"][new.key]), new.val)
                 /\ new.sure => new.prev = Named(new.key)
<1> DEFINE job == Job(t)
           p == Of(entries["engine"][job.key])
           with(former, sure) == [job EXCEPT !.next = DegreesOf(p, job.val), !.prev = former, !.sure = sure]
<1>1. at[t] = "look" /\ up /\ UNCHANGED <<up, disk, wheel, calls, damage>>
  BY DEF Look
<1>2. job \in Jobs
  BY <1>1, AtFirst
<1>3. p \in Profiles /\ DegreesOf(p, job.val) \in Degrees /\ Named(job.key) \in Degrees /\ Full \in Degrees
  BY RangeTyped, StoreAssumption
<1>4. /\ faults' = faults \/ Fails
      /\ \/ End(t, FALSE)
         \/ \E former \in {Named(job.key), Full}, sure \in BOOLEAN :
              /\ jobs' = [jobs EXCEPT ![t] = <<with(former, sure)>>]
              /\ at' = [at EXCEPT ![t] = "stop"] /\ seen' = seen
              /\ sure => former = Named(job.key)
  BY DEF Look
<1>5. ASSUME NEW former \in {Named(job.key), Full}, NEW sure \in BOOLEAN
      PROVE  /\ with(former, sure) \in Jobs
             /\ with(former, sure).store = job.store /\ with(former, sure).op = job.op
             /\ with(former, sure).key = job.key /\ with(former, sure).val = job.val
             /\ with(former, sure).next = DegreesOf(p, job.val)
             /\ with(former, sure).prev = former /\ with(former, sure).sure = sure
  <2> HIDE DEF job, p
  <2>1. PICK next \in Degrees : next = DegreesOf(p, job.val)
    BY <1>3
  <2>2. former \in Degrees
    BY <1>3
  <2>3. /\ [job EXCEPT !.next = next, !.prev = former, !.sure = sure] \in Jobs
        /\ [job EXCEPT !.next = next, !.prev = former, !.sure = sure].store = job.store
        /\ [job EXCEPT !.next = next, !.prev = former, !.sure = sure].op = job.op
        /\ [job EXCEPT !.next = next, !.prev = former, !.sure = sure].key = job.key
        /\ [job EXCEPT !.next = next, !.prev = former, !.sure = sure].val = job.val
        /\ [job EXCEPT !.next = next, !.prev = former, !.sure = sure].next = next
        /\ [job EXCEPT !.next = next, !.prev = former, !.sure = sure].prev = former
        /\ [job EXCEPT !.next = next, !.prev = former, !.sure = sure].sure = sure
    BY <1>2, <2>2 DEF Jobs
  <2> QED
    BY <2>1, <2>3
<1>6. CASE End(t, FALSE)
  BY <1>1, <1>4, <1>6
<1>7. CASE \E former \in {Named(job.key), Full}, sure \in BOOLEAN :
              /\ jobs' = [jobs EXCEPT ![t] = <<with(former, sure)>>]
              /\ at' = [at EXCEPT ![t] = "stop"] /\ seen' = seen
              /\ sure => former = Named(job.key)
  <2>1. PICK former \in {Named(job.key), Full}, sure \in BOOLEAN :
              /\ jobs' = [jobs EXCEPT ![t] = <<with(former, sure)>>]
              /\ at' = [at EXCEPT ![t] = "stop"] /\ seen' = seen
              /\ sure => former = Named(job.key)
    BY <1>7
  <2>2. PICK new \in Jobs : new = with(former, sure)
    BY <1>5
  <2>3. /\ new.store = job.store /\ new.op = job.op /\ new.key = job.key /\ new.val = job.val
        /\ new.next = DegreesOf(p, job.val) /\ new.prev = former /\ new.sure = sure
    BY <1>5, <2>2
  <2>4. jobs' = [jobs EXCEPT ![t] = <<new>>]
    BY <2>1, <2>2
  <2> HIDE DEF with
  <2> QED
    BY <1>1, <1>4, <2>1, <2>3, <2>4
<1> QED
  BY <1>4, <1>6, <1>7

\* The look of an apply keeps the control in order.
LEMMA LookControl ==
  ASSUME Control, NEW t \in Threads, Look(t)
  PROVE  /\ Control' /\ Alone(t) /\ (EngineOwned => EngineOwned')
         /\ at'[t] \in {"idle", "look", "read", "remove", "stop"}
<1>1. at[t] = "look" /\ Place(t) /\ Job(t).op = "apply"
  BY Looked DEF Control, Place
<1>2. CASE End(t, FALSE)
  BY <1>1, <1>2, EndControl
<1>3. CASE \E new \in Jobs :
              /\ jobs' = [jobs EXCEPT ![t] = <<new>>]
              /\ at' = [at EXCEPT ![t] = "stop"] /\ seen' = seen
              /\ new.store = Job(t).store /\ new.op = Job(t).op /\ new.val = Job(t).val
  <2>1. PICK new \in Jobs :
              /\ jobs' = [jobs EXCEPT ![t] = <<new>>]
              /\ at' = [at EXCEPT ![t] = "stop"] /\ seen' = seen
              /\ new.store = Job(t).store /\ new.op = Job(t).op /\ new.val = Job(t).val
    BY <1>3
  <2>2. Job(t) = jobs[t][1] /\ 1 \in 1..Len(jobs[t]) /\ Fits(Job(t))
    BY <1>1, AtFirst DEF Control, Shape
  <2>3. Fits(new)
    BY <2>1, <2>2 DEF Fits
  <2>4. <<new>> \in Seq(Jobs) /\ <<new>> # <<>> /\ Shape(<<new>>) /\ Head(<<new>>) = new
    BY <2>3 DEF Shape
  <2>5. /\ jobs' \in [Threads -> Seq(Jobs)] /\ jobs'[t] = <<new>>
        /\ \A u \in Threads \ {t} : jobs'[u] = jobs[u]
    BY <2>1, <2>4 DEF Control
  <2>6. /\ at' \in [Threads -> Steps] /\ at'[t] = "stop"
        /\ \A u \in Threads \ {t} : at'[u] = at[u]
    BY <2>1 DEF Control, Steps
  <2>7. Job(t)' = new /\ \A u \in Threads \ {t} : Job(u)' = Job(u)
    BY <2>4, <2>5 DEF Job
  <2>8. Place(t)'
    BY <1>1, <2>1, <2>4, <2>5, <2>6, <2>7 DEF Place
  <2>9. \A u \in Threads \ {t} : Place(u)'
    BY <2>5, <2>6, <2>7 DEF Control, Place
  <2>10. \A u \in Threads : Shape(jobs[u])'
    <3>1. \A u \in Threads : Shape(jobs'[u])
      BY <2>4, <2>5 DEF Control
    <3> QED
      BY <3>1 DEF Shape
  <2>11. EngineOwned => EngineOwned'
    <3> SUFFICES ASSUME EngineOwned, NEW u \in Threads, NEW i \in 1..Len(jobs'[u]),
                        jobs'[u][i].store = "engine"
                 PROVE  u = "ui"
      BY DEF EngineOwned
    <3>1. CASE u = t
      BY <2>1, <2>2, <2>5, <3>1 DEF EngineOwned
    <3>2. CASE u # t
      BY <2>5, <3>2 DEF EngineOwned
    <3> QED
      BY <3>1, <3>2
  <2> QED
    BY <2>1, <2>5, <2>6, <2>8, <2>9, <2>10, <2>11 DEF Control, Alone
<1> QED
  BY <1>2, <1>3, Looked

-----------------------------------------------------------------------------
(* The steps of an operation.                                               *)

\* What a step of a thread does to the control: it goes behind the read only when the file
\* is sound, and stays there without another read.
LEMMA StepControl ==
  ASSUME Control, Files, NEW t \in Threads, Step(t)
  PROVE  /\ Control' /\ Alone(t) /\ (EngineOwned => EngineOwned') /\ at[t] # "idle"
         /\ at'[t] \in Writing => \/ health[Job(t).store] = "sound" /\ jobs' = jobs
                                  \/ at[t] \in Writing /\ jobs' = jobs
<1> USE DEF Steps, Writing
<1>0. at[t] # "idle" => Job(t) \in Jobs
  BY AtFirst
<1>1. ASSUME NEW sound, at[t] # "idle", Strict(t, sound)
      PROVE  \/ health[Job(t).store] = "sound" /\ sound
             \/ /\ Control' /\ Alone(t) /\ (EngineOwned => EngineOwned')
                /\ at'[t] \notin Writing
  <2>1. CASE health[Job(t).store] = "sound" /\ sound
    BY <2>1
  <2>2. CASE Goto(t, "preserve")
    BY <1>1, <2>2, PlainGoto
  <2>3. CASE Abandon(t)
    BY <1>1, <2>3, AbandonControl
  <2> QED
    BY <1>1, <2>1, <2>2, <2>3 DEF Strict
<1>2. CASE Read(t)
  <2>1. at[t] = "read" /\ Strict(t, Accepted(t))
    BY <1>2 DEF Read
  <2>2. CASE health[Job(t).store] = "sound" /\ Accepted(t)
    <3> DEFINE m == entries[Job(t).store]
               next == IF Job(t).store = "games" THEN "reread" ELSE "gate"
               step == IF Job(t).store \in Guarded THEN next ELSE "temp"
    <3>1. CASE Writes(m, Job(t))
      <4>1. at' = [at EXCEPT ![t] = step] /\ seen' = [seen EXCEPT ![t] = m] /\ jobs' = jobs
        BY <2>2, <3>1 DEF Accepted
      <4>2. m \in Maps
        BY <1>0, <2>1 DEF Files, Jobs
      <4>3. step \in {"reread", "gate", "temp"} /\ (step = "reread" => Job(t).store = "games")
        OBVIOUS
      <4> HIDE DEF m, step
      <4>4. Control' /\ Alone(t) /\ (EngineOwned => EngineOwned')
        BY <2>1, <4>1, <4>2, <4>3, GotoControl
      <4> QED
        BY <2>1, <2>2, <4>1, <4>4
    <3>2. CASE ~Writes(m, Job(t))
      <4>1. End(t, TRUE)
        BY <2>2, <3>2 DEF Accepted
      <4> QED
        BY <2>1, <4>1, EndControl
    <3> QED
      BY <3>1, <3>2
  <2> QED
    BY <1>1, <2>1, <2>2
<1>3. CASE ReadFails(t)
  <2>1. CASE Job(t).store = "games"
    <3>1. /\ at[t] = "read" /\ jobs' = jobs /\ at' = [at EXCEPT ![t] = "reread"]
          /\ seen' = [seen EXCEPT ![t] = Empty] /\ Empty \in Maps
      BY <1>3, <2>1, WordTyped DEF ReadFails
    <3> QED
      BY <2>1, <3>1, GotoControl
  <2>2. CASE Job(t).store # "games"
    BY <1>3, <2>2, AbandonControl DEF ReadFails
  <2> QED
    BY <2>1, <2>2
<1>4. CASE Reread(t)
  <2>1. at[t] = "reread" /\ Strict(t, Goto(t, "gate"))
    BY <1>4 DEF Reread
  <2>2. CASE health[Job(t).store] = "sound" /\ Goto(t, "gate")
    BY <2>1, <2>2, PlainGoto
  <2> QED
    BY <1>1, <2>1, <2>2
<1>5. CASE Preserve(t)
  BY <1>5, PlainGoto, AbandonControl DEF Preserve
<1>6. CASE Mark(t)
  BY <1>6, AbandonControl DEF Mark
<1>7. CASE Gate(t)
  BY <1>7, PlainGoto, AbandonControl DEF Gate
<1>8. CASE Temp(t)
  BY <1>8, PlainGoto, AbandonControl DEF Temp
<1>9. CASE Replace(t)
  BY <1>9, EndControl, AbandonControl DEF Replace, Stored
<1>10. CASE Remove(t)
  BY <1>10, EndControl DEF Remove
<1>11. CASE Stop(t)
  BY <1>11, PlainGoto, EndControl DEF Stop, Control, Place
<1>12. CASE SetRange(t)
  BY <1>12, PlainGoto, EndControl DEF SetRange
<1>13. CASE Rollback(t)
  BY <1>13, EndControl DEF Rollback
<1>14. CASE Look(t)
  BY <1>14, Looked, LookControl
<1> QED
  BY <1>2, <1>3, <1>4, <1>5, <1>6, <1>7, <1>8, <1>9, <1>10, <1>11, <1>12, <1>13, <1>14 DEF Step

\* An entry that is changed is an entry.
LEMMA ChangedType ==
  ASSUME NEW m \in Maps, NEW job \in Jobs, Fits(job)
  PROVE  Changed(m, job) \in Maps
<1>0. job.key \in Keys /\ job.from \in Keys /\ job.val \in Words /\ None \in Words
  BY DEF Jobs, Words
<1>1. CASE job.op = "put"
  BY <1>0, <1>1 DEF Changed, Maps
<1>2. CASE job.op = "delete"
  BY <1>0, <1>2 DEF Changed, Maps
<1>3. CASE job.op = "copy"
  BY <1>0, <1>3 DEF Changed, Maps
<1>4. CASE job.op \in {"apply", "activate", "rewrite"}
  <2>1. PICK e \in Profiles : e = Of(m[job.key])
    BY RangeTyped
  <2>2. CASE job.op = "rewrite"
    <3>1. [e EXCEPT !.custom = job.val] \in Words
      BY <1>4, <2>2 DEF Fits, Profiles, Words
    <3>2. Changed(m, job) = [m EXCEPT ![job.key] = [e EXCEPT !.custom = job.val]]
      BY <2>1, <2>2 DEF Changed
    <3> QED
      BY <3>1, <3>2 DEF Maps
  <2>3. CASE job.op # "rewrite"
    <3>1. [e EXCEPT !.active = job.val] \in Words
      BY <1>4, <2>3 DEF Fits, Profiles, Words
    <3>2. Changed(m, job) = [m EXCEPT ![job.key] = [e EXCEPT !.active = job.val]]
      BY <1>4, <2>1, <2>3 DEF Changed
    <3> QED
      BY <3>1, <3>2 DEF Maps
  <2> QED
    BY <2>2, <2>3
<1>5. CASE job.op \in {"read", "remove"}
  BY <1>5 DEF Changed
<1> QED
  BY <1>1, <1>2, <1>3, <1>4, <1>5 DEF Jobs

\* What a step of a thread does to the files: it damages none, and makes sound only the one
\* it replaces or removes.
LEMMA StepFiles ==
  ASSUME Control, Files, NEW t \in Threads, Step(t)
  PROVE  /\ Files' /\ up /\ up' = up
         /\ \A s \in Stores : \/ health'[s] = health[s]
                              \/ health'[s] = "sound" /\ at[t] \in {"replace", "remove"} /\ s = Job(t).store
<1> USE StoreAssumption
<1>0. at[t] # "idle" => Job(t) \in Jobs /\ Job(t).store \in Stores /\ Job(t).key \in Keys
  BY AtFirst DEF Jobs
<1>a. Fails => faults' \in 0..MaxFaults
  BY DEF Fails, Files
<1>1. CASE Read(t)
  BY <1>1 DEF Read, Files, disk, wheel, counters
<1>2. CASE ReadFails(t)
  BY <1>2, <1>a DEF ReadFails, Files, disk, wheel
<1>3. CASE Reread(t)
  BY <1>3 DEF Reread, Files, disk, wheel, counters
<1>4. CASE Preserve(t)
  BY <1>4, <1>a DEF Preserve, Files, disk, wheel
<1>5. CASE Mark(t)
  <2>1. marker' \in [Stores -> BOOLEAN] /\ faults' \in 0..MaxFaults
    BY <1>0, <1>5, <1>a DEF Mark, Files
  <2> QED
    BY <1>5, <2>1 DEF Mark, Files, wheel
<1>6. CASE Gate(t)
  BY <1>6 DEF Gate, Files, disk, wheel, counters
<1>7. CASE Temp(t)
  BY <1>7, <1>a DEF Temp, TempBeside, Files, wheel
<1>8. CASE Replace(t)
  <2>0. at[t] = "replace" /\ Job(t) \in Jobs /\ Job(t).store \in Stores /\ Job(t).key \in Keys
    BY <1>0, <1>8 DEF Replace
  <2>1. CASE Stored(t)
    <3>0. Fits(Job(t))
      BY <2>0, AtFirst DEF Control, Shape
    <3>1. Changed(seen[t], Job(t)) \in Maps
      BY <2>0, <3>0, ChangedType DEF Control
    <3>2. entries' \in [Stores -> Maps]
      BY <2>1, <3>1 DEF Stored, Files
    <3>3. /\ health' \in [Stores -> {"sound", "bad", "newer"}]
          /\ \A s \in Stores : health'[s] = IF s = Job(t).store THEN "sound" ELSE health[s]
      BY <2>1 DEF Stored, Files
    <3>4. settled' \in [Keys -> BOOLEAN]
      BY <2>0, <2>1 DEF Stored, Files
    <3>5. faults' = faults /\ up' = up /\ up /\ schema' = schema /\ snapshot' = snapshot
          /\ marker' = marker /\ range' = range /\ calls' = calls /\ damage' = damage
      BY <1>8, <2>1 DEF Replace, Stored
    <3> QED
      BY <2>0, <3>2, <3>3, <3>4, <3>5 DEF Files
  <2>2. CASE Fails /\ Abandon(t) /\ UNCHANGED <<entries, health, settled>>
    BY <1>8, <1>a, <2>2 DEF Replace, Files
  <2> QED
    BY <1>8, <2>1, <2>2 DEF Replace
<1>9. CASE Remove(t)
  <2>0. at[t] = "remove" /\ Job(t).store \in Stores
    BY <1>0, <1>9 DEF Remove
  <2>1. Empty \in Maps
    BY WordTyped
  <2>2. /\ entries' \in [Stores -> Maps] /\ health' \in [Stores -> {"sound", "bad", "newer"}]
        /\ \A s \in Stores : health'[s] = health[s] \/ (health'[s] = "sound" /\ s = Job(t).store)
        /\ faults' \in 0..MaxFaults
    BY <1>9, <1>a, <2>1 DEF Remove, Files
  <2> QED
    BY <1>9, <2>0, <2>2 DEF Remove, Files, wheel
<1>10. CASE Stop(t)
  BY <1>10, <1>a DEF Stop, Files, disk, wheel
<1>11. CASE SetRange(t)
  <2>0. Job(t).key \in Keys /\ Job(t).next \in Degrees
    BY <1>11, AtFirst DEF SetRange, Jobs
  <2>1. range' \in [Keys -> Degrees] /\ settled' \in [Keys -> BOOLEAN] /\ faults' \in 0..MaxFaults
    BY <1>11, <1>a, <2>0 DEF SetRange, Files
  <2> QED
    BY <1>11, <2>1 DEF SetRange, Files, disk
<1>12. CASE Rollback(t)
  <2>0. Job(t).key \in Keys /\ Job(t).prev \in Degrees /\ Job(t).sure \in BOOLEAN
    BY <1>12, AtFirst DEF Rollback, Jobs
  <2>1. range' \in [Keys -> Degrees] /\ settled' \in [Keys -> BOOLEAN] /\ faults' \in 0..MaxFaults
    BY <1>12, <1>a, <2>0 DEF Rollback, BackToPrevious, Files
  <2> QED
    BY <1>12, <2>1 DEF Rollback, Files, disk
<1>13. CASE Look(t)
  <2>1. up /\ UNCHANGED <<up, disk, wheel, calls, damage>> /\ (faults' = faults \/ Fails)
    BY <1>13, Looked
  <2> QED
    BY <1>a, <2>1 DEF Files, disk, wheel
<1>14. CASE Read(t) \/ ReadFails(t) \/ Reread(t) \/ Preserve(t) \/ Mark(t) \/ Gate(t) \/ Temp(t)
  BY ONLY <1>14, <1>1, <1>2, <1>3, <1>4, <1>5, <1>6, <1>7
<1>15. CASE Replace(t) \/ Remove(t) \/ Look(t) \/ Stop(t) \/ SetRange(t) \/ Rollback(t)
  BY ONLY <1>15, <1>8, <1>9, <1>10, <1>11, <1>12, <1>13
<1> QED
  BY <1>14, <1>15 DEF Step

\* A step of a thread keeps the invariant.
LEMMA StepKeeps ==
  ASSUME IInv, NEW t \in Threads, Step(t)
  PROVE  IInv'
<1>1. /\ Control' /\ Files' /\ Alone(t) /\ up' = up /\ up
      /\ at'[t] \in Writing => \/ health[Job(t).store] = "sound" /\ jobs' = jobs
                               \/ at[t] \in Writing /\ jobs' = jobs
      /\ \A s \in Stores : health'[s] = health[s] \/ health'[s] = "sound"
  BY StepControl, StepFiles DEF IInv
<1>2. \A u \in Threads : at[u] \in Writing => Job(u).store \in Stores
  BY AtFirst DEF IInv, Writing, Jobs
<1>3. \A u \in Threads \ {t} : at'[u] \in Writing => health'[Job(u)'.store] = "sound"
  <2>1. \A u \in Threads \ {t} : at'[u] = at[u] /\ Job(u)' = Job(u)
    BY <1>1 DEF Alone, Job
  <2> QED
    BY <1>1, <1>2, <2>1 DEF IInv, Cleared
<1>4. at'[t] \in Writing => health'[Job(t)'.store] = "sound"
  <2> SUFFICES ASSUME at'[t] \in Writing PROVE health'[Job(t)'.store] = "sound"
    OBVIOUS
  <2>1. jobs' = jobs /\ health[Job(t).store] = "sound"
    BY <1>1 DEF IInv, Cleared
  <2>2. Job(t)' = Job(t)
    BY <2>1 DEF Job
  <2>3. Job(t)' \in Jobs
    BY <1>1, AtFirst, <2>2, StepControl DEF IInv
  <2>4. Job(t).store \in Stores
    BY <2>2, <2>3 DEF Jobs
  <2> QED
    BY <1>1, <2>1, <2>2, <2>4
<1> QED
  BY <1>1, <1>3, <1>4 DEF IInv, Cleared, Down

-----------------------------------------------------------------------------
(* The operations that begin, and the process.                              *)

(* An operation on another file than the engine's.                          *)
Elsewise(job) == job.store # "engine" /\ job.op \notin {"apply", "activate", "rewrite"}

\* An operation that is asked for is one.
LEMMA AskJob ==
  ASSUME NEW s \in Stores,
         NEW op \in {"put", "delete", "copy", "rewrite", "read", "remove", "activate", "apply"},
         NEW k \in Keys, NEW v \in Words
  PROVE  /\ Ask(s, op, k, v) \in Jobs
         /\ Ask(s, op, k, v).store = s /\ Ask(s, op, k, v).op = op /\ Ask(s, op, k, v).val = v
<1>1. Full \in Degrees
  BY StoreAssumption
<1>2. PICK full \in Degrees : full = Full
  BY <1>1
<1> QED
  BY <1>2 DEF Ask, Jobs

\* So is one that is begun only when the one before it succeeded.
LEMMA LaterJob ==
  ASSUME NEW job \in Jobs
  PROVE  /\ [job EXCEPT !.after = TRUE] \in Jobs
         /\ [job EXCEPT !.after = TRUE].store = job.store
         /\ [job EXCEPT !.after = TRUE].op = job.op /\ [job EXCEPT !.after = TRUE].val = job.val
  BY DEF Jobs

\* A single operation is a queue.
LEMMA Single ==
  ASSUME NEW job \in Jobs, Fits(job)
  PROVE  /\ <<job>> \in Seq(Jobs) /\ <<job>> # <<>> /\ Shape(<<job>>) /\ Head(<<job>>) = job
         /\ Len(<<job>>) = 1 /\ <<job>>[1] = job
  BY DEF Shape

\* Two operations are a queue, if the first is no apply.
LEMMA Double ==
  ASSUME NEW a \in Jobs, NEW b \in Jobs, Fits(a), Fits(b), a.op # "apply"
  PROVE  <<a, b>> \in Seq(Jobs) /\ <<a, b>> # <<>> /\ Shape(<<a, b>>)
<1>1. /\ <<a, b>> \in Seq(Jobs) /\ <<a, b>> # <<>> /\ Len(<<a, b>>) = 2
      /\ <<a, b>>[1] = a /\ <<a, b>>[2] = b
  OBVIOUS
<1> QED
  BY <1>1 DEF Shape

\* Operations on other files, in any order, are a queue.
LEMMA OtherFiles ==
  ASSUME NEW s \in Seq(Jobs), \A i \in 1..Len(s) : Elsewise(s[i])
  PROVE  Shape(s)
  BY DEF Shape, Fits, Elsewise

\* A queue that begins keeps the invariant.
LEMMA BeginKeeps ==
  ASSUME IInv, NEW t \in Threads, NEW todo \in Seq(Jobs), todo # <<>>, Shape(todo), Begin(t, todo)
  PROVE  /\ IInv' /\ Alone(t) /\ jobs'[t] = todo /\ at'[t] = First(Head(todo)) /\ seen' = seen
         /\ UNCHANGED <<up, disk, wheel>> /\ at[t] = "idle"
         /\ EngineOwned /\ (t = "ui" \/ \A i \in 1..Len(todo) : todo[i].store # "engine")
              => EngineOwned'
<1>0. /\ up' = up /\ up /\ seen' = seen /\ UNCHANGED <<up, disk, wheel, faults, damage>>
      /\ at[t] = "idle" /\ calls' = calls + 1 /\ calls < MaxCalls
  BY DEF Begin
<1>1. First(Head(todo)) \in Steps \ {"idle"}
  BY FirstFits DEF Steps
<1>2. /\ jobs' \in [Threads -> Seq(Jobs)] /\ jobs'[t] = todo
      /\ \A u \in Threads \ {t} : jobs'[u] = jobs[u]
  BY DEF Begin, IInv, Control
<1>3. /\ at' \in [Threads -> Steps] /\ at'[t] = First(Head(todo))
      /\ \A u \in Threads \ {t} : at'[u] = at[u]
  BY <1>1 DEF Begin, IInv, Control
<1>4. Job(t)' = Head(todo) /\ \A u \in Threads \ {t} : Job(u)' = Job(u)
  BY <1>2 DEF Job
<1>5. Place(t)'
  BY <1>1, <1>2, <1>3, <1>4, FirstFits DEF Place
<1>6. \A u \in Threads \ {t} : Place(u)'
  BY <1>2, <1>3, <1>4 DEF IInv, Control, Place
<1>7. \A u \in Threads : Shape(jobs[u])'
  <2>1. \A u \in Threads : Shape(jobs'[u])
    BY <1>2 DEF IInv, Control
  <2> QED
    BY <2>1 DEF Shape
<1>8. Control'
  BY <1>0, <1>2, <1>3, <1>5, <1>6, <1>7 DEF IInv, Control
<1>9. Files'
  <2>1. calls' \in 0..MaxCalls
    BY <1>0, StoreAssumption DEF IInv, Files
  <2> QED
    BY <1>0, <2>1 DEF IInv, Files, disk, wheel
<1>10. Cleared'
  <2>1. at'[t] \notin Writing
    BY <1>3, FirstFits DEF Writing
  <2> QED
    BY <1>0, <1>3, <1>4, <2>1 DEF IInv, Cleared, disk
<1>11. Down'
  BY <1>0 DEF Down
<1>12. EngineOwned /\ (t = "ui" \/ \A i \in 1..Len(todo) : todo[i].store # "engine") => EngineOwned'
  BY <1>2 DEF EngineOwned
<1> QED
  BY <1>0, <1>2, <1>3, <1>8, <1>9, <1>10, <1>11, <1>12 DEF IInv, Alone

\* The queue of an operation of the user interface is one.
LEMMA UserQueue ==
  ASSUME User, ~NativeOutputApplyRange
  PROVE  \E todo \in Seq(Jobs) : todo # <<>> /\ Shape(todo) /\ Begin("ui", todo)
<1> USE DEF Stores
<1>0. /\ None \in Words /\ Values \subseteq Words /\ Degrees \subseteq Words /\ Names \subseteq Words
      /\ Custom \in Names /\ Balanced \in Names
  BY WordTyped DEF Names
<1>1. ASSUME NEW job \in Jobs, Fits(job), Begin("ui", <<job>>)
      PROVE  \E todo \in Seq(Jobs) : todo # <<>> /\ Shape(todo) /\ Begin("ui", todo)
  BY <1>1, Single
<1>2. ASSUME NEW s \in Stores \ {"engine"}, Put(s)
      PROVE  \E todo \in Seq(Jobs) : todo # <<>> /\ Shape(todo) /\ Begin("ui", todo)
  <2>1. PICK k \in Keys, v \in Values : Begin("ui", <<Ask(s, "put", k, v)>>)
    BY <1>2 DEF Put
  <2>2. Ask(s, "put", k, v) \in Jobs /\ Fits(Ask(s, "put", k, v))
    BY <1>0, AskJob DEF Fits
  <2> QED
    BY <1>1, <2>1, <2>2
<1>3. ASSUME NEW s \in Stores \ {"engine"}, NEW op \in {"delete", "read"}, NEW k \in Keys,
             Begin("ui", <<Ask(s, op, k, None)>>)
      PROVE  \E todo \in Seq(Jobs) : todo # <<>> /\ Shape(todo) /\ Begin("ui", todo)
  <2>1. Ask(s, op, k, None) \in Jobs /\ Fits(Ask(s, op, k, None))
    BY <1>0, AskJob DEF Fits
  <2> QED
    BY <1>1, <1>3, <2>1
<1>4. CASE SavePedalMapping \/ SaveControlProfile \/ SaveNativeFFBConfig
           \/ SaveAdvancedFFBConfig \/ SaveGameProfile
  BY <1>2, <1>4 DEF SavePedalMapping, SaveControlProfile, SaveNativeFFBConfig,
                    SaveAdvancedFFBConfig, SaveGameProfile
<1>5. CASE DeleteGameProfile
  BY <1>3, <1>5 DEF DeleteGameProfile
<1>6. CASE SaveNativeEngineProfile
  <2>1. PICK k \in Keys, d \in Degrees :
          \/ Begin("ui", <<Ask("engine", "rewrite", k, d)>>)
          \/ Begin("ui", <<Ask("engine", "rewrite", k, d),
                           [Ask("engine", "apply", k, Custom) EXCEPT !.after = TRUE]>>)
          \/ Begin("ui", <<Ask("engine", "rewrite", k, d),
                           [Ask("engine", "activate", k, Custom) EXCEPT !.after = TRUE]>>)
    BY <1>6 DEF SaveNativeEngineProfile
  <2> DEFINE a == Ask("engine", "rewrite", k, d)
             b(op) == [Ask("engine", op, k, Custom) EXCEPT !.after = TRUE]
  <2>2. a \in Jobs /\ Fits(a) /\ a.op = "rewrite"
    BY <1>0, AskJob DEF Fits
  <2>3. \A op \in {"apply", "activate"} : b(op) \in Jobs /\ Fits(b(op))
    BY <1>0, AskJob, LaterJob DEF Fits
  <2>4. Begin("ui", <<a>>) \/ Begin("ui", <<a, b("apply")>>) \/ Begin("ui", <<a, b("activate")>>)
    BY <2>1
  <2> HIDE DEF a, b
  <2>5. ASSUME NEW op \in {"apply", "activate"}, Begin("ui", <<a, b(op)>>)
        PROVE  \E todo \in Seq(Jobs) : todo # <<>> /\ Shape(todo) /\ Begin("ui", todo)
    BY <2>2, <2>3, <2>5, Double
  <2> QED
    BY <1>1, <2>2, <2>4, <2>5
<1>7. CASE ReadControlProfile
  BY <1>3, <1>7 DEF ReadControlProfile
<1>8. CASE ClearWheelDevicePreference
  BY <1>3, <1>8 DEF ClearWheelDevicePreference
<1>9. CASE ClearWheelDetectionState
  <2>1. PICK k \in Keys :
          Begin("ui", <<Ask("models", "remove", k, None), Ask("history", "remove", k, None)>>)
    BY <1>9 DEF ClearWheelDetectionState
  <2> DEFINE a == Ask("models", "remove", k, None)
             b == Ask("history", "remove", k, None)
  <2>2. a \in Jobs /\ Fits(a) /\ a.op = "remove" /\ b \in Jobs /\ Fits(b)
    BY <1>0, AskJob DEF Fits
  <2>3. Begin("ui", <<a, b>>)
    BY <2>1
  <2> HIDE DEF a, b
  <2> QED
    BY <2>2, <2>3, Double
<1>10. CASE SetActiveNativeEngineProfile
  <2>1. PICK k \in Keys : Begin("ui", <<Ask("engine", "activate", k, Balanced)>>)
    BY <1>10 DEF SetActiveNativeEngineProfile
  <2>2. Ask("engine", "activate", k, Balanced) \in Jobs /\ Fits(Ask("engine", "activate", k, Balanced))
    BY <1>0, AskJob DEF Fits
  <2> QED
    BY <1>1, <2>1, <2>2
<1> QED
  BY <1>4, <1>5, <1>6, <1>7, <1>8, <1>9, <1>10 DEF User

\* A range that is set by itself leaves the files and the threads as they are.
LEMMA RangeAlone ==
  ASSUME IInv, NativeOutputApplyRange
  PROVE  /\ IInv' /\ UNCHANGED <<up, disk, jobs, at, seen, faults, damage>> /\ at["ui"] = "idle"
         /\ \A w \in Keys : settled'[w] => settled[w] /\ range'[w] = range[w]
<1>1. /\ UNCHANGED <<up, disk, jobs, at, seen, faults, damage>> /\ at["ui"] = "idle" /\ up
      /\ calls < MaxCalls /\ calls' = calls + 1
  BY DEF NativeOutputApplyRange
<1>2. PICK w \in Keys, d \in Degrees :
        range' = [range EXCEPT ![w] = d] /\ settled' = [settled EXCEPT ![w] = FALSE]
  BY DEF NativeOutputApplyRange
<1>3. /\ range' \in [Keys -> Degrees] /\ settled' \in [Keys -> BOOLEAN]
      /\ \A v \in Keys : settled'[v] => settled[v] /\ range'[v] = range[v]
  BY <1>2 DEF IInv, Files
<1>4. calls' \in 0..MaxCalls
  BY <1>1, StoreAssumption DEF IInv, Files
<1>5. Control'
  BY <1>1 DEF IInv, Control, Place, Job, Shape, Fits
<1>6. Files'
  BY <1>1, <1>3, <1>4 DEF IInv, Files, disk
<1>7. Cleared' /\ Down'
  BY <1>1 DEF IInv, Cleared, Down, disk, Job
<1> QED
  BY <1>1, <1>3, <1>5, <1>6, <1>7 DEF IInv

\* The queue of a scan is one, without the engine file.
LEMMA ScanQueue ==
  ASSUME Scan, Files
  PROVE  \E todo \in Seq(Jobs) : /\ todo # <<>> /\ Shape(todo) /\ Begin("scan", todo)
                                 /\ \A i \in 1..Len(todo) : Elsewise(todo[i])
<1> USE DEF Stores
<1>0. None \in Words /\ Values \subseteq Words
  BY WordTyped
<1>1. ASSUME NEW todo \in Seq(Jobs), todo # <<>>, Begin("scan", todo),
             \A i \in 1..Len(todo) : Elsewise(todo[i])
      PROVE  \E q \in Seq(Jobs) : /\ q # <<>> /\ Shape(q) /\ Begin("scan", q)
                                  /\ \A i \in 1..Len(q) : Elsewise(q[i])
  BY <1>1, OtherFiles
<1>2. CASE RememberNativeIdentity
  <2>1. PICK k \in Keys, v \in Values : Begin("scan", <<Ask("history", "put", k, v)>>)
    BY <1>2 DEF RememberNativeIdentity
  <2> DEFINE job == Ask("history", "put", k, v)
  <2>2. job \in Jobs /\ job.store = "history" /\ job.op = "put"
    BY <1>0, AskJob
  <2> HIDE DEF job
  <2>3. <<job>> \in Seq(Jobs) /\ <<job>> # <<>> /\ \A i \in 1..Len(<<job>>) : <<job>>[i] = job
    BY <2>2
  <2>4. Begin("scan", <<job>>)
    BY <2>1 DEF job
  <2> QED
    BY <1>1, <2>2, <2>3, <2>4 DEF Elsewise
<1>3. ASSUME NEW s \in {"models", "pedals"}, NEW k \in Keys, NEW from \in Keys
      PROVE  /\ [Ask(s, "copy", k, None) EXCEPT !.from = from] \in Jobs
             /\ [Ask(s, "copy", k, None) EXCEPT !.from = from].store = s
             /\ [Ask(s, "copy", k, None) EXCEPT !.from = from].op = "copy"
  BY <1>0, StoreAssumption DEF Ask, Jobs
<1>4. CASE MigratePreferences
  <2>1. PICK k \in Keys : \E old \in Keys \ {k} :
          Begin("scan", <<[Ask("models", "copy", k, None) EXCEPT !.from = old]>>)
    BY <1>4 DEF MigratePreferences
  <2>2. PICK old \in Keys \ {k} :
          Begin("scan", <<[Ask("models", "copy", k, None) EXCEPT !.from = old]>>)
    BY <2>1
  <2> DEFINE job == [Ask("models", "copy", k, None) EXCEPT !.from = old]
  <2>3. job \in Jobs /\ job.store = "models" /\ job.op = "copy"
    BY <1>3
  <2>4. Begin("scan", <<job>>)
    BY <2>2
  <2> HIDE DEF job
  <2>5. <<job>> \in Seq(Jobs) /\ <<job>> # <<>> /\ \A i \in 1..Len(<<job>>) : <<job>>[i] = job
    BY <2>3
  <2> QED
    BY <1>1, <2>3, <2>4, <2>5 DEF Elsewise
<1>5. CASE MigratePerWheelState
  <2>1. PICK k \in Keys : \E old \in Keys \ {k} :
          LET prefs == entries["models"]
              pedals == <<[Ask("pedals", "copy", k, None) EXCEPT !.from = old]>>
              move == <<Ask("models", "put", k, prefs[old]),
                        [Ask("models", "delete", old, None) EXCEPT !.after = TRUE]>>
          IN  Begin("scan", IF prefs[old] # None /\ prefs[k] = None THEN move \o pedals ELSE pedals)
    BY <1>5 DEF MigratePerWheelState
  <2> DEFINE prefs == entries["models"]
             c(old) == [Ask("pedals", "copy", k, None) EXCEPT !.from = old]
             a(old) == Ask("models", "put", k, prefs[old])
             b(old) == [Ask("models", "delete", old, None) EXCEPT !.after = TRUE]
  <2>2. PICK old \in Keys \ {k} :
          \/ Begin("scan", <<a(old), b(old)>> \o <<c(old)>>)
          \/ Begin("scan", <<c(old)>>)
    BY <2>1
  <2>3. c(old) \in Jobs /\ c(old).store = "pedals" /\ c(old).op = "copy"
    BY <1>3
  <2>4. a(old) \in Jobs /\ a(old).store = "models" /\ a(old).op = "put"
    <3>1. prefs[old] \in Words
      BY DEF Files, Maps
    <3> QED
      BY <3>1, AskJob
  <2>5. b(old) \in Jobs /\ b(old).store = "models" /\ b(old).op = "delete"
    BY <1>0, AskJob, LaterJob
  <2> DEFINE x == a(old)
             y == b(old)
             z == c(old)
  <2>6. Begin("scan", <<x, y>> \o <<z>>) \/ Begin("scan", <<z>>)
    BY <2>2
  <2>7. /\ x \in Jobs /\ x.store = "models" /\ x.op = "put"
        /\ y \in Jobs /\ y.store = "models" /\ y.op = "delete"
        /\ z \in Jobs /\ z.store = "pedals" /\ z.op = "copy"
    BY <2>3, <2>4, <2>5
  <2> HIDE DEF x, y, z
  <2>8. CASE Begin("scan", <<z>>)
    <3>1. <<z>> \in Seq(Jobs) /\ <<z>> # <<>> /\ \A i \in 1..Len(<<z>>) : <<z>>[i] = z
      BY <2>7
    <3> QED
      BY <1>1, <2>7, <2>8, <3>1 DEF Elsewise
  <2>9. CASE Begin("scan", <<x, y>> \o <<z>>)
    <3> DEFINE q == <<x, y>> \o <<z>>
    <3>1. /\ <<x, y>> \in Seq(Jobs) /\ Len(<<x, y>>) = 2 /\ <<z>> \in Seq(Jobs) /\ Len(<<z>>) = 1
          /\ <<x, y>>[1] = x /\ <<x, y>>[2] = y /\ <<z>>[1] = z
      BY <2>7
    <3>2. /\ q \in Seq(Jobs) /\ Len(q) = 2 + 1
          /\ \A i \in 1..2 + 1 : q[i] = IF i <= 2 THEN <<x, y>>[i] ELSE <<z>>[i - 2]
      BY <3>1, ConcatProperties
    <3> HIDE DEF q
    <3>3. \A i \in 1..2 + 1 : q[i] = x \/ q[i] = y \/ q[i] = z
      BY <3>1, <3>2
    <3>4. q # <<>> /\ \A i \in 1..Len(q) : Elsewise(q[i])
      <4>1. q # <<>>
        BY <3>2
      <4>2. \A i \in 1..Len(q) : q[i] = x \/ q[i] = y \/ q[i] = z
        BY <3>2, <3>3
      <4> QED
        BY <2>7, <4>1, <4>2 DEF Elsewise
    <3>5. Begin("scan", q)
      BY <2>9 DEF q
    <3> QED
      BY <1>1, <3>2, <3>4, <3>5
  <2> QED
    BY <2>6, <2>8, <2>9
<1> QED
  BY <1>2, <1>4, <1>5 DEF Scan

\* The queue of an apply is the apply.
LEMMA ApplyQueue ==
  ASSUME NEW t \in Threads, ApplyNativeEngineProfile(t)
  PROVE  \E job \in Jobs : Fits(job) /\ job.op = "apply" /\ Begin(t, <<job>>)
<1>1. PICK w \in Keys, name \in Names : Begin(t, <<Ask("engine", "apply", w, name)>>)
  BY DEF ApplyNativeEngineProfile
<1> DEFINE job == Ask("engine", "apply", w, name)
<1>2. job \in Jobs /\ job.store = "engine" /\ job.op = "apply" /\ job.val = name
  <2>1. "engine" \in Stores /\ name \in Words
    BY DEF Stores, Words
  <2> QED
    BY <2>1, AskJob
<1>3. Fits(job)
  BY <1>2 DEF Fits
<1> QED
  BY <1>1, <1>2, <1>3

\* Starts, ends, snapshots and damage happen around the threads.
LEMMA ProcessKeeps ==
  ASSUME IInv, CreateConfigSnapshot \/ Start \/ Die \/ Damage
  PROVE  IInv'
<1>1. CASE CreateConfigSnapshot
  BY <1>1 DEF CreateConfigSnapshot, IInv, Control, Files, Cleared, Down, Place, Job, Shape,
              Fits, wheel, counters
<1>2. CASE Start
  BY <1>2 DEF Start, EnsureDataSchema, IInv, Control, Files, Cleared, Down, Place, Job, Shape,
              Fits, wheel, counters
<1>3. CASE Die
  <2>1. /\ jobs' = [t \in Threads |-> <<>>] /\ at' = [t \in Threads |-> "idle"]
        /\ seen' = [t \in Threads |-> Empty] /\ settled' = [k \in Keys |-> FALSE] /\ up' = FALSE
    BY <1>3 DEF Die
  <2>2. <<>> \in Seq(Jobs) /\ Shape(<<>>) /\ Empty \in Maps
    BY EmptySeq, WordTyped DEF Shape
  <2>3. Control'
    BY <2>1, <2>2 DEF Control, Place, Shape, Steps
  <2>4. Files'
    BY <1>3, <2>1 DEF Die, IInv, Files, disk, counters
  <2> QED
    BY <2>1, <2>3, <2>4 DEF IInv, Cleared, Down, Writing
<1>4. CASE Damage
  <2>1. UNCHANGED <<up, snapshot, marker, jobs, at, seen, wheel, calls, faults>> /\ ~up
        /\ damage' \in 0..MaxDamage
    BY <1>4, StoreAssumption DEF Damage, IInv, Files
  <2>2. /\ health' \in [Stores -> {"sound", "bad", "newer"}] /\ entries' \in [Stores -> Maps]
        /\ schema' \in {"none", "old", "current", "newer"}
    <3>1. Empty \in Maps
      BY WordTyped
    <3> QED
      BY <1>4, <3>1 DEF Damage, IInv, Files
  <2>3. Control' /\ Files' /\ Down'
    BY <2>1, <2>2 DEF IInv, Control, Files, Down, Place, Job, Shape, Fits, wheel
  <2>4. Cleared'
    BY <2>1 DEF IInv, Down, Cleared, Writing
  <2> QED
    BY <2>3, <2>4 DEF IInv
<1> QED
  BY <1>1, <1>2, <1>3, <1>4

\* The parts of the invariant hold together in every state.
LEMMA NextKeeps ==
  ASSUME IInv, [Next]_vars
  PROVE  IInv'
<1>1. CASE User
  BY <1>1, UserQueue, RangeAlone, BeginKeeps DEF Threads
<1>2. CASE Scan
  BY <1>2, ScanQueue, BeginKeeps DEF Threads, IInv
<1>3. ASSUME NEW t \in Appliers, ApplyNativeEngineProfile(t)
      PROVE  IInv'
  <2>1. t \in Threads
    BY StoreAssumption DEF Threads
  <2>2. PICK job \in Jobs : Fits(job) /\ Begin(t, <<job>>)
    BY <1>3, <2>1, ApplyQueue
  <2> QED
    BY <2>1, <2>2, Single, BeginKeeps
<1>4. ASSUME NEW t \in Threads, Step(t)
      PROVE  IInv'
  BY <1>4, StepKeeps
<1>5. CASE CreateConfigSnapshot \/ Start \/ Die \/ Damage
  BY <1>5, ProcessKeeps
<1>6. CASE UNCHANGED vars
  BY <1>6 DEF vars, disk, wheel, counters, IInv, Control, Files, Cleared, Down, Place, Job, Shape, Fits
<1> QED
  BY <1>1, <1>2, <1>3, <1>4, <1>5, <1>6 DEF Next

\* The invariant holds of every state of the specification.
LEMMA Invariance == Spec => []IInv
<1>1. Init => IInv
  <2> SUFFICES ASSUME Init PROVE IInv
    OBVIOUS
  <2>1. <<>> \in Seq(Jobs) /\ Shape(<<>>) /\ Empty \in Maps
    BY EmptySeq, WordTyped DEF Shape
  <2>2. Control
    BY <2>1 DEF Init, Control, Place, Steps
  <2>3. Files
    <3>1. 0 \in 0..MaxCalls /\ 0 \in 0..MaxFaults /\ 0 \in 0..MaxDamage
      BY StoreAssumption
    <3>2. /\ range \in [Keys -> Degrees] /\ settled \in [Keys -> BOOLEAN]
          /\ health \in [Stores -> {"sound", "bad", "newer"}] /\ entries \in [Stores -> Maps]
          /\ marker \in [Stores -> BOOLEAN] /\ snapshot \in BOOLEAN
      BY <2>1, StoreAssumption DEF Init
    <3> QED
      BY <3>1, <3>2 DEF Init, Files
  <2> QED
    BY <2>2, <2>3 DEF Init, IInv, Cleared, Down, Writing
<1>2. IInv /\ [Next]_vars => IInv'
  BY NextKeeps
<1> QED
  BY <1>1, <1>2, PTL DEF Spec

\* Every variable keeps its type.
THEOREM TypeCorrect == Spec => []TypeOK
<1>1. IInv => TypeOK
  BY DEF IInv, Control, Files, TypeOK
<1> QED
  BY <1>1, Invariance, PTL

-----------------------------------------------------------------------------

\* The files that are touched while the program does not run, or by the steps of a thread.
LEMMA FilesTouched ==
  ASSUME IInv, [Next]_vars, NEW s \in Stores, health'[s] # health[s]
  PROVE  \/ ~up /\ health'[s] # "sound"
         \/ /\ health'[s] = "sound"
            /\ \E t \in Threads : at[t] \in {"replace", "remove"} /\ Job(t).store = s
<1>1. CASE User
  BY <1>1, UserQueue, RangeAlone DEF Begin, disk
<1>2. CASE Scan
  BY <1>2, ScanQueue DEF Begin, disk, IInv
<1>3. CASE \E t \in Appliers : ApplyNativeEngineProfile(t)
  BY <1>3 DEF ApplyNativeEngineProfile, Begin, disk
<1>4. CASE \E t \in Threads : Step(t)
  BY <1>4, StepFiles DEF IInv
<1>5. CASE CreateConfigSnapshot \/ Start \/ Die
  BY <1>5 DEF CreateConfigSnapshot, Start, Die, disk
<1>6. CASE Damage
  BY <1>6 DEF Damage, IInv, Files
<1>7. CASE UNCHANGED vars
  BY <1>7 DEF vars, disk
<1> QED
  BY <1>1, <1>2, <1>3, <1>4, <1>5, <1>6, <1>7 DEF Next

\* Only a reset that the user asked for replaces a file that cannot be read or that a newer
\* version wrote: behind the read of a save the file is sound.
THEOREM BadFilesAreKept == Spec => OnlyResetReplaces
<1>1. IInv /\ [Next]_vars =>
        [\A s \in Stores : health[s] # "sound" /\ health'[s] = "sound"
           => \E t \in Threads : at[t] = "remove" /\ Job(t).store = s]_vars
  BY FilesTouched DEF IInv, Cleared, Writing
<1> QED
  BY <1>1, Invariance, PTL DEF Spec, OnlyResetReplaces

\* No step of the program, and no end of it, leaves a file that is half written.
THEOREM FilesAreWhole == Spec => NeverTorn
<1>1. IInv /\ [Next]_vars =>
        [\A s \in Stores : health[s] # "bad" /\ health'[s] = "bad" => ~up]_vars
  BY FilesTouched
<1> QED
  BY <1>1, Invariance, PTL DEF Spec, NeverTorn

-----------------------------------------------------------------------------
(* The range of the wheel, when only the user interface applies profiles.   *)

OneApplier == Appliers \subseteq {"ui"}

Applying == at["ui"] \notin {"idle", "look"} /\ Job("ui").op = "apply"
Saving == at["ui"] \in Writing /\ Job("ui").store = "engine"

(* The range is already that of the profile being applied.                  *)
RangeSet == Applying /\ at["ui"] \notin {"stop", "range"}

(* What the user interface read of the engine file is what the file holds.  *)
NotStale == Saving => seen["ui"] = entries["engine"]

(* An apply knows the range it sets, which is set then, and, when it could  *)
(* read the former profile, the range it goes back to.                      *)
KnowsBoth ==
  Applying =>
    /\ Job("ui").next = DegreesOf(Of(entries["engine"][Job("ui").key]), Job("ui").val)
    /\ Job("ui").sure => Job("ui").prev = Named(Job("ui").key)
    /\ RangeSet => range[Job("ui").key] = Job("ui").next

(* Only the wheel whose profile is being applied may have another range.    *)
RangeTrue == \A w \in Keys :
               settled[w] => range[w] = Named(w) \/ (RangeSet /\ w = Job("ui").key)

Engine == EngineOwned /\ NotStale /\ KnowsBoth /\ RangeTrue

\* A step that leaves the engine file, the wheel and the user interface alone.
LEMMA EngineFrame ==
  ASSUME Engine, EngineOwned', entries'["engine"] = entries["engine"], range' = range,
         \A w \in Keys : settled'[w] => settled[w],
         jobs'["ui"] = jobs["ui"], at'["ui"] = at["ui"], seen'["ui"] = seen["ui"]
  PROVE  Engine'
<1>1. Job("ui")' = Job("ui")
  BY DEF Job
<1>2. \A w : Named(w)' = Named(w)
  BY DEF Named
<1>3. Applying' = Applying /\ Saving' = Saving /\ RangeSet' = RangeSet
  BY <1>1 DEF Applying, Saving, RangeSet
<1>4. NotStale' /\ KnowsBoth'
  BY <1>1, <1>2, <1>3 DEF Engine, NotStale, KnowsBoth
<1>5. RangeTrue'
  BY <1>1, <1>2, <1>3 DEF Engine, RangeTrue
<1> QED
  BY <1>4, <1>5 DEF Engine

\* The operations of a scan do not touch the engine file or the wheel.
LEMMA ScanStep ==
  ASSUME IInv, Engine, Step("scan")
  PROVE  Engine'
<1> DEFINE t == "scan"
<1>0. t \in Threads
  BY DEF Threads
<1>1. /\ Control' /\ Alone(t) /\ EngineOwned' /\ at[t] # "idle"
  BY <1>0, StepControl DEF IInv, Engine
<1>2. /\ Job(t).store # "engine" /\ Job(t).store \in Stores
      /\ Job(t).op \notin {"apply", "activate", "rewrite"}
  <2>1. /\ Job(t) = jobs[t][1] /\ 1 \in 1..Len(jobs[t]) /\ Job(t) \in Jobs
    BY <1>0, <1>1, AtFirst DEF IInv
  <2>2. Job(t).store # "engine"
    BY <1>0, <2>1 DEF Engine, EngineOwned
  <2> QED
    BY <1>0, <2>1, <2>2 DEF IInv, Control, Shape, Fits, Jobs
<1>3. at[t] \notin {"look", "stop", "range", "rollback"}
  BY <1>0, <1>2 DEF IInv, Control, Place
<1>4. entries'["engine"] = entries["engine"] /\ range' = range /\ settled' = settled
  <2>1. CASE Replace(t)
    <3>1. \/ entries' = [entries EXCEPT ![Job(t).store] = Changed(seen[t], Job(t))]
          \/ entries' = entries
      BY <2>1 DEF Replace, Stored
    <3>2. range' = range /\ settled' = settled
      BY <1>2, <2>1 DEF Replace, Stored
    <3> QED
      BY <1>2, <3>1, <3>2 DEF IInv, Files, Stores
  <2>2. CASE Remove(t)
    <3>1. entries' = [entries EXCEPT ![Job(t).store] = Empty] \/ entries' = entries
      BY <2>2 DEF Remove
    <3> QED
      BY <1>2, <2>2, <3>1 DEF Remove, IInv, Files, Stores, wheel
  <2>3. CASE Read(t) \/ ReadFails(t) \/ Reread(t) \/ Preserve(t) \/ Mark(t) \/ Gate(t) \/ Temp(t)
    BY <2>3 DEF Read, ReadFails, Reread, Preserve, Mark, Gate, Temp, disk, wheel
  <2> QED
    BY <1>3, <2>1, <2>2, <2>3 DEF Step, Look, Stop, SetRange, Rollback
<1> QED
  BY <1>0, <1>1, <1>4, EngineFrame DEF Alone, Threads

\* The user interface ends an operation with the range that the file names.
LEMMA EngineEnded ==
  ASSUME IInv, Engine, at["ui"] # "idle", NEW ok \in BOOLEAN, End("ui", ok), EngineOwned',
         \A w \in Keys : settled'[w] => range'[w] = Named(w)'
  PROVE  Engine'
<1>1. at'["ui"] \in {"idle", "look", "read", "remove"} /\ Control'
  BY EndControl DEF IInv, Threads
<1>2. ~Applying'
  <2>0. "ui" \in Threads
    BY DEF Threads
  <2>1. /\ jobs'["ui"] = Rest("ui", ok)
        /\ at'["ui"] = IF Rest("ui", ok) = <<>> THEN "idle" ELSE First(Head(Rest("ui", ok)))
    BY <2>0 DEF End, IInv, Control
  <2>2. CASE Rest("ui", ok) = <<>>
    BY <2>1, <2>2 DEF Applying
  <2>3. CASE Rest("ui", ok) # <<>>
    <3>1. at'["ui"] = First(Job("ui")')
      BY <2>1, <2>3 DEF Job
    <3> QED
      BY <3>1, FirstFits DEF Applying
  <2> QED
    BY <2>2, <2>3
<1>3. ~Saving'
  BY <1>1 DEF Saving, Writing
<1> QED
  BY <1>2, <1>3 DEF Engine, NotStale, KnowsBoth, RangeTrue, RangeSet

\* Where the file names the range of the wheel, but for the wheel of the apply.
LEMMA Elsewhere ==
  ASSUME Engine, ~RangeSet
  PROVE  \A w \in Keys : settled[w] => range[w] = Named(w)
  BY DEF Engine, RangeTrue

\* An operation given up: a save ends, an apply goes back to the range before it.
LEMMA EngineAbandoned ==
  ASSUME IInv, Engine, at["ui"] \notin {"idle", "look", "stop", "range"}, Abandon("ui"),
         entries' = entries, range' = range, settled' = settled
  PROVE  Engine'
<1>0. "ui" \in Threads
  BY DEF Threads
<1>1. /\ EngineOwned' /\ Alone("ui")
      /\ IF Job("ui").op = "apply" THEN at'["ui"] = "rollback" /\ jobs' = jobs ELSE End("ui", FALSE)
  BY <1>0, AbandonControl DEF IInv, Engine
<1>2. \A w : Named(w)' = Named(w)
  BY DEF Named
<1>3. CASE Job("ui").op = "apply"
  <2>1. Job("ui")' = Job("ui") /\ RangeSet /\ RangeSet' /\ Applying /\ Applying' /\ ~Saving'
    BY <1>1, <1>3 DEF Job, RangeSet, Applying, Saving, Writing
  <2> QED
    BY <1>1, <1>2, <2>1 DEF Engine, NotStale, KnowsBoth, RangeTrue
<1>4. CASE Job("ui").op # "apply"
  <2>1. ~RangeSet
    BY <1>4 DEF RangeSet, Applying
  <2> QED
    BY <1>1, <1>2, <1>4, <2>1, Elsewhere, EngineEnded
<1> QED
  BY <1>3, <1>4

\* An operation goes on without the wheel; when it goes behind its read, it has read the file.
LEMMA EngineGoesOn ==
  ASSUME IInv, Engine, EngineOwned', at["ui"] \notin {"idle", "look", "stop", "range"},
         at'["ui"] \notin {"idle", "look", "stop", "range"}, jobs' = jobs,
         entries' = entries, range' = range, settled' = settled,
         Saving' => seen'["ui"] = entries["engine"]
  PROVE  Engine'
<1>1. Job("ui")' = Job("ui")
  BY DEF Job
<1>2. \A w : Named(w)' = Named(w)
  BY DEF Named
<1>3. Applying' = Applying /\ RangeSet' = RangeSet
  BY <1>1 DEF Applying, RangeSet
<1>4. NotStale' /\ KnowsBoth'
  BY <1>1, <1>2, <1>3 DEF Engine, NotStale, KnowsBoth
<1>5. RangeTrue'
  BY <1>1, <1>2, <1>3 DEF Engine, RangeTrue
<1> QED
  BY <1>4, <1>5 DEF Engine

\* The user interface reads.
LEMMA UIReads ==
  ASSUME IInv, Engine, EngineOwned', Read("ui") \/ ReadFails("ui") \/ Reread("ui")
  PROVE  Engine'
<1>0. "ui" \in Threads /\ at["ui"] \in {"read", "reread"} /\ UNCHANGED <<disk, wheel>>
  BY DEF Threads, Read, ReadFails, Reread
<1>1. /\ entries' = entries /\ range' = range /\ settled' = settled
      /\ at \in [Threads -> Steps] /\ seen \in [Threads -> Maps] /\ Place("ui")
  BY <1>0 DEF disk, wheel, IInv, Control
<1>2. CASE Abandon("ui")
  BY <1>0, <1>1, <1>2, EngineAbandoned
<1>3. CASE Goto("ui", "preserve")
  <2>1. at'["ui"] = "preserve" /\ jobs' = jobs
    BY <1>0, <1>1, <1>3 DEF Goto
  <2> QED
    BY <1>0, <1>1, <2>1, EngineGoesOn DEF Saving, Writing
<1>4. CASE at["ui"] = "read" /\ Accepted("ui") /\ ~Writes(entries[Job("ui").store], Job("ui"))
  <2>1. End("ui", TRUE)
    BY <1>4 DEF Accepted
  <2>2. Job("ui").op # "apply"
    BY <1>4 DEF Writes
  <2>3. ~RangeSet
    BY <2>2 DEF RangeSet, Applying
  <2>4. \A w : Named(w)' = Named(w)
    BY <1>1 DEF Named
  <2> QED
    BY <1>0, <1>1, <2>1, <2>3, <2>4, Elsewhere, EngineEnded
<1>5. CASE at["ui"] = "read" /\ Accepted("ui") /\ Writes(entries[Job("ui").store], Job("ui"))
  <2>1. /\ jobs' = jobs /\ seen' = [seen EXCEPT !["ui"] = entries[Job("ui").store]]
        /\ \E step \in {"reread", "gate", "temp"} : at' = [at EXCEPT !["ui"] = step]
    BY <1>5 DEF Accepted
  <2>2. /\ at'["ui"] \in {"reread", "gate", "temp"}
        /\ seen'["ui"] = entries[Job("ui").store]
    BY <1>0, <1>1, <2>1
  <2>3. Saving' => seen'["ui"] = entries["engine"]
    BY <2>1, <2>2 DEF Saving, Job
  <2> QED
    BY <1>0, <1>1, <2>1, <2>2, <2>3, EngineGoesOn
<1>6. CASE at' = [at EXCEPT !["ui"] = "reread"] /\ jobs' = jobs
  <2>1. at'["ui"] = "reread"
    BY <1>0, <1>1, <1>6
  <2> QED
    BY <1>0, <1>1, <1>6, <2>1, EngineGoesOn DEF Saving, Writing
<1>7. CASE at["ui"] = "reread" /\ Goto("ui", "gate")
  <2>1. at'["ui"] = "gate" /\ jobs' = jobs /\ Job("ui").store = "games"
    BY <1>0, <1>1, <1>7 DEF Goto, Place
  <2>2. ~Saving'
    BY <2>1 DEF Saving, Job
  <2> QED
    BY <1>0, <1>1, <2>1, <2>2, EngineGoesOn
<1> QED
  BY <1>2, <1>3, <1>4, <1>5, <1>6, <1>7 DEF Read, ReadFails, Reread, Strict

\* A file is replaced: the entry of the engine file is changed, and is the same for others.
LEMMA EngineStored ==
  ASSUME IInv, Engine, at["ui"] = "replace", Stored("ui"), NEW job, job = Job("ui")
  PROVE  /\ job \in Jobs /\ job.key \in Keys /\ Fits(job)
         /\ \A w \in Keys \ {job.key} : Named(w)' = Named(w) /\ settled'[w] = settled[w]
         /\ job.op = "apply" =>
              Named(job.key)' = DegreesOf(Of(entries["engine"][job.key]), job.val)
         /\ job.op \in {"activate", "rewrite"} => ~settled'[job.key]
         /\ job.op \notin {"apply", "activate", "rewrite"} =>
              (\A w : Named(w)' = Named(w)) /\ settled' = settled
<1>0. "ui" \in Threads
  BY DEF Threads
<1>1. job \in Jobs /\ job = Job("ui") /\ Fits(job)
  BY <1>0, AtFirst DEF IInv, Control, Shape
<1>2. /\ entries' = [entries EXCEPT ![job.store] = Changed(seen["ui"], job)]
      /\ settled' = CASE job.op = "apply" -> [settled EXCEPT ![job.key] = TRUE]
                      [] job.op \in {"activate", "rewrite"} -> [settled EXCEPT ![job.key] = FALSE]
                      [] OTHER -> settled
  BY <1>1 DEF Stored
<1>3. /\ job.key \in Keys /\ job.store \in Stores /\ "engine" \in Stores
      /\ entries \in [Stores -> Maps] /\ settled \in [Keys -> BOOLEAN]
  BY <1>1 DEF IInv, Files, Jobs, Stores
<1>4. job.store = "engine" => seen["ui"] = entries["engine"]
  BY <1>1 DEF Engine, NotStale, Saving, Writing
<1>5. CASE job.store = "engine"
  <2>1. PICK m \in Maps : m = entries["engine"]
    BY <1>3
  <2>2. entries'["engine"] = Changed(m, job)
    BY <1>2, <1>3, <1>4, <1>5, <2>1
  <2>3. PICK e \in Profiles : e = Of(m[job.key])
    BY RangeTyped
  <2>4. PICK new \in Profiles :
          /\ Changed(m, job) = [m EXCEPT ![job.key] = new]
          /\ job.op = "apply" => new.active = job.val /\ new.custom = e.custom
    <3>1. CASE job.op = "rewrite"
      <4>1. [e EXCEPT !.custom = job.val] \in Profiles
        BY <1>1, <3>1 DEF Fits, Profiles
      <4> QED
        BY <2>3, <3>1, <4>1 DEF Changed
    <3>2. CASE job.op \in {"apply", "activate"}
      <4>1. /\ [e EXCEPT !.active = job.val] \in Profiles
            /\ [e EXCEPT !.active = job.val].active = job.val
            /\ [e EXCEPT !.active = job.val].custom = e.custom
        BY <1>1, <3>2 DEF Fits, Profiles
      <4>2. Changed(m, job) = [m EXCEPT ![job.key] = [e EXCEPT !.active = job.val]]
        BY <2>3, <3>2 DEF Changed
      <4> QED
        BY <4>1, <4>2
    <3> QED
      BY <1>1, <1>5, <3>1, <3>2 DEF Fits
  <2>5. /\ entries'["engine"][job.key] = new
        /\ \A w \in Keys \ {job.key} : entries'["engine"][w] = entries["engine"][w]
    BY <1>3, <2>1, <2>2, <2>4 DEF Maps
  <2>6. \A w \in Keys \ {job.key} : Named(w)' = Named(w)
    BY <2>5 DEF Named
  <2>7. Named(job.key)' = DegreesOf(new, new.active)
    <3>1. Of(new) = new
      BY DEF Of
    <3> QED
      BY <2>5, <3>1 DEF Named
  <2>8. job.op = "apply" => Named(job.key)' = DegreesOf(Of(entries["engine"][job.key]), job.val)
    BY <2>1, <2>3, <2>4, <2>7 DEF DegreesOf
  <2>9. /\ \A w \in Keys \ {job.key} : settled'[w] = settled[w]
        /\ job.op \in {"activate", "rewrite"} => ~settled'[job.key]
    BY <1>1, <1>2, <1>3, <1>5 DEF Fits
  <2>10. job.op \in {"apply", "activate", "rewrite"}
    BY <1>1, <1>5 DEF Fits
  <2>11. \A w \in Keys \ {job.key} : Named(w)' = Named(w) /\ settled'[w] = settled[w]
    BY <2>6, <2>9
  <2> QED
    BY ONLY <1>1, <1>3, <2>8, <2>9, <2>10, <2>11
<1>6. CASE job.store # "engine"
  <2>1. entries'["engine"] = entries["engine"]
    BY <1>2, <1>3, <1>6
  <2>2. (\A w : Named(w)' = Named(w)) /\ job.op \notin {"apply", "activate", "rewrite"}
    BY <1>1, <1>6, <2>1 DEF Named, Fits
  <2>3. settled' = settled
    BY <1>2, <2>2
  <2> QED
    BY <1>1, <1>3, <2>2, <2>3
<1> QED
  BY <1>5, <1>6

\* Once the name is stored, the file names the range that was set.
LEMMA UIStores ==
  ASSUME IInv, Engine, EngineOwned', Replace("ui"), Stored("ui")
  PROVE  Engine'
<1>1. at["ui"] = "replace" /\ range' = range /\ End("ui", TRUE)
  BY DEF Replace, Stored
<1>0. PICK job : job = Job("ui")
  OBVIOUS
<1>2. /\ job \in Jobs /\ job.key \in Keys /\ Fits(job)
      /\ \A w \in Keys \ {job.key} : Named(w)' = Named(w) /\ settled'[w] = settled[w]
      /\ job.op = "apply" => Named(job.key)' = DegreesOf(Of(entries["engine"][job.key]), job.val)
      /\ job.op \in {"activate", "rewrite"} => ~settled'[job.key]
      /\ job.op \notin {"apply", "activate", "rewrite"} =>
            (\A w : Named(w)' = Named(w)) /\ settled' = settled
  BY <1>0, <1>1, EngineStored
<1>3. \A w \in Keys \ {job.key} : settled[w] => range[w] = Named(w)
  BY <1>0 DEF Engine, RangeTrue
<1>4. \A w \in Keys \ {job.key} : settled'[w] => range'[w] = Named(w)'
  BY <1>1, <1>2, <1>3
<1>5. settled'[job.key] => range'[job.key] = Named(job.key)'
  <2>1. CASE job.op = "apply"
    <3>1. Applying /\ RangeSet
      BY <1>0, <1>1, <2>1 DEF Applying, RangeSet
    <3>2. range[job.key] = job.next /\ job.next = DegreesOf(Of(entries["engine"][job.key]), job.val)
      BY <1>0, <3>1 DEF Engine, KnowsBoth
    <3> QED
      BY <1>1, <1>2, <2>1, <3>2
  <2>2. CASE job.op \in {"activate", "rewrite"}
    BY <1>2, <2>2
  <2>3. CASE job.op \notin {"apply", "activate", "rewrite"}
    <3>1. ~RangeSet
      BY <1>0, <2>3 DEF RangeSet, Applying
    <3>2. settled[job.key] => range[job.key] = Named(job.key)
      BY <1>2, <3>1, Elsewhere
    <3> QED
      BY <1>1, <1>2, <2>3, <3>2
  <2> QED
    BY <2>1, <2>2, <2>3
<1>6. \A w \in Keys : settled'[w] => range'[w] = Named(w)'
  BY <1>4, <1>5
<1> QED
  BY <1>1, <1>6, EngineEnded

\* The user interface writes: the file then names the profile whose range was set.
LEMMA UIWrites ==
  ASSUME IInv, Engine, EngineOwned',
         Preserve("ui") \/ Mark("ui") \/ Gate("ui") \/ Temp("ui") \/ Replace("ui") \/ Remove("ui")
  PROVE  Engine'
<1>0. "ui" \in Threads
  BY DEF Threads
<1>a. at \in [Threads -> Steps]
  BY DEF IInv, Control
<1>1. CASE Preserve("ui")
  <2>1. at["ui"] = "preserve" /\ entries' = entries /\ range' = range /\ settled' = settled
    BY <1>1 DEF Preserve, disk, wheel
  <2>2. CASE Goto("ui", "mark")
    <3>1. at'["ui"] = "mark" /\ jobs' = jobs
      BY <1>0, <1>a, <2>2 DEF Goto
    <3> QED
      BY <2>1, <3>1, EngineGoesOn DEF Saving, Writing
  <2> QED
    BY <1>1, <2>1, <2>2, EngineAbandoned DEF Preserve
<1>2. CASE Mark("ui")
  <2>1. at["ui"] = "mark" /\ entries' = entries /\ range' = range /\ settled' = settled
    BY <1>2 DEF Mark, wheel
  <2> QED
    BY <1>2, <2>1, EngineAbandoned DEF Mark
<1>3. CASE Gate("ui") \/ Temp("ui")
  <2>1. at["ui"] \in {"gate", "temp"} /\ entries' = entries /\ range' = range /\ settled' = settled
    BY <1>3 DEF Gate, Temp, disk, wheel
  <2>2. CASE Goto("ui", "temp") \/ Goto("ui", "replace")
    <3>1. at'["ui"] \in {"temp", "replace"} /\ jobs' = jobs /\ seen' = seen
      BY <1>0, <1>a, <2>2 DEF Goto
    <3>2. Saving' => Saving
      BY <2>1, <3>1 DEF Saving, Job, Writing
    <3> QED
      BY <2>1, <3>1, <3>2, EngineGoesOn DEF Engine, NotStale
  <2> QED
    BY <1>3, <2>1, <2>2, EngineAbandoned DEF Gate, Temp
<1>4. CASE Replace("ui") /\ ~Stored("ui")
  <2>1. at["ui"] = "replace" /\ entries' = entries /\ range' = range /\ settled' = settled
    BY <1>4 DEF Replace
  <2> QED
    BY <1>4, <2>1, EngineAbandoned DEF Replace
<1>5. CASE Replace("ui") /\ Stored("ui")
  BY <1>5, UIStores
<1>6. CASE Remove("ui")
  <2>1. /\ at["ui"] = "remove" /\ range' = range /\ settled' = settled /\ End("ui", TRUE)
        /\ entries' = [entries EXCEPT ![Job("ui").store] = Empty] \/ entries' = entries
    BY <1>6 DEF Remove, wheel
  <2>2. Job("ui").op = "remove"
    BY <1>0, <2>1 DEF IInv, Control, Place
  <2>3. Job("ui").store # "engine"
    BY <1>0, <2>1, <2>2, AtFirst DEF IInv, Control, Shape, Fits
  <2>4. \A w : Named(w)' = Named(w)
    <3>1. entries'["engine"] = entries["engine"]
      BY <2>1, <2>3 DEF IInv, Files, Stores
    <3> QED
      BY <3>1 DEF Named
  <2>5. ~RangeSet
    BY <2>2 DEF RangeSet, Applying
  <2> QED
    BY <2>1, <2>4, <2>5, Elsewhere, EngineEnded
<1> QED
  BY <1>1, <1>2, <1>3, <1>4, <1>5, <1>6

\* The user interface stops the motor, sets the range and takes it back.
LEMMA UIApplies ==
  ASSUME IInv, Engine, EngineOwned', Stop("ui") \/ SetRange("ui") \/ Rollback("ui")
  PROVE  Engine'
<1>0. /\ "ui" \in Threads /\ at["ui"] \in {"stop", "range", "rollback"} /\ entries' = entries
      /\ at \in [Threads -> Steps]
  BY DEF Threads, Stop, SetRange, Rollback, disk, IInv, Control
<1>1. PICK job \in Jobs : job = Job("ui")
  BY <1>0, AtFirst DEF IInv
<1>2. job.op = "apply" /\ job.key \in Keys /\ job.sure \in BOOLEAN /\ Applying
  BY <1>0, <1>1 DEF IInv, Control, Place, Jobs, Applying
<1>3. /\ job.next = DegreesOf(Of(entries["engine"][job.key]), job.val)
      /\ job.sure => job.prev = Named(job.key)
  BY <1>1, <1>2 DEF Engine, KnowsBoth
<1>4. \A w : Named(w)' = Named(w)
  BY <1>0 DEF Named
<1>5. range \in [Keys -> Degrees] /\ settled \in [Keys -> BOOLEAN]
  BY DEF IInv, Files
<1>6. \A w \in Keys : settled[w] /\ (at["ui"] = "rollback" => w # job.key) => range[w] = Named(w)
  BY <1>0, <1>1 DEF Engine, RangeTrue, RangeSet
<1>7. CASE Stop("ui") /\ Goto("ui", "range")
  <2>1. /\ at["ui"] = "stop" /\ at'["ui"] = "range" /\ jobs' = jobs /\ range' = range
        /\ settled' = settled
    BY <1>0, <1>7 DEF Stop, Goto, wheel
  <2>2. Job("ui")' = job /\ Applying' /\ ~RangeSet' /\ ~Saving'
    BY <1>1, <1>2, <2>1 DEF Job, Applying, RangeSet, Saving, Writing
  <2>3. KnowsBoth'
    BY <1>0, <1>3, <1>4, <2>2 DEF KnowsBoth
  <2>4. RangeTrue'
    BY <1>4, <1>6, <2>1 DEF RangeTrue
  <2> QED
    BY <2>2, <2>3, <2>4 DEF Engine, NotStale
<1>8. CASE Stop("ui") /\ End("ui", FALSE)
  <2>1. at["ui"] = "stop" /\ range' = range /\ settled' = settled
    BY <1>8 DEF Stop, wheel
  <2> QED
    BY <1>0, <1>4, <1>6, <1>8, <2>1, EngineEnded
<1>9. CASE SetRange("ui") /\ ~End("ui", FALSE)
  <2>1. /\ at["ui"] = "range" /\ at'["ui"] = "read" /\ jobs' = jobs
        /\ range' = [range EXCEPT ![job.key] = job.next] /\ settled' = settled
    BY <1>0, <1>1, <1>9 DEF SetRange, Goto
  <2>2. Job("ui")' = job /\ Applying' /\ RangeSet' /\ ~Saving'
    BY <1>1, <1>2, <2>1 DEF Job, Applying, RangeSet, Saving, Writing
  <2>3. range'[job.key] = job.next /\ \A w \in Keys \ {job.key} : range'[w] = range[w]
    BY <1>2, <1>5, <2>1
  <2>4. KnowsBoth'
    BY <1>0, <1>3, <1>4, <2>2, <2>3 DEF KnowsBoth
  <2>5. RangeTrue'
    BY <1>4, <1>6, <2>1, <2>2, <2>3 DEF RangeTrue
  <2> QED
    BY <2>2, <2>4, <2>5 DEF Engine, NotStale
<1>10. CASE SetRange("ui") /\ End("ui", FALSE)
  <2>1. ~Goto("ui", "read")
    <3>1. at'["ui"] = "idle"
      BY <1>0, <1>1, <1>2, <1>10, EndControl DEF IInv
    <3> QED
      BY <1>0, <3>1 DEF Goto
  <2>2. /\ at["ui"] = "range" /\ range' \in {range, [range EXCEPT ![job.key] = job.next]}
        /\ settled' = [settled EXCEPT ![job.key] = FALSE]
    BY <1>1, <1>10, <2>1 DEF SetRange
  <2>3. \A w \in Keys : settled'[w] => w # job.key /\ settled[w] /\ range'[w] = range[w]
    BY <1>2, <1>5, <2>2
  <2> QED
    BY <1>0, <1>4, <1>6, <1>10, <2>2, <2>3, EngineEnded
<1>11. CASE Rollback("ui")
  <2>1. /\ at["ui"] = "rollback" /\ End("ui", FALSE)
        /\ \/ /\ range' = [range EXCEPT ![job.key] = job.prev]
              /\ settled' = [settled EXCEPT ![job.key] = job.sure]
           \/ /\ range' \in {range, [range EXCEPT ![job.key] = job.prev]}
              /\ settled' = [settled EXCEPT ![job.key] = FALSE]
    BY <1>1, <1>11 DEF Rollback, BackToPrevious
  <2>2. \A w \in Keys : settled'[w] => \/ w = job.key /\ job.sure /\ range'[w] = job.prev
                                       \/ w # job.key /\ settled[w] /\ range'[w] = range[w]
    BY <1>2, <1>5, <2>1
  <2>3. \A w \in Keys : settled'[w] => range'[w] = Named(w)'
    BY <1>3, <1>4, <1>6, <2>2
  <2> QED
    BY <1>0, <2>1, <2>3, EngineEnded
<1> QED
  BY <1>7, <1>8, <1>9, <1>10, <1>11 DEF Stop

\* The user interface reads what it applies.
LEMMA UILooks ==
  ASSUME IInv, Engine, EngineOwned', Look("ui")
  PROVE  Engine'
<1>0. "ui" \in Threads
  BY DEF Threads
<1>1. at["ui"] = "look" /\ UNCHANGED <<disk, wheel>>
  BY <1>0, Looked DEF IInv
<1>2. (\A w : Named(w)' = Named(w)) /\ range' = range /\ settled' = settled /\ entries' = entries
  BY <1>1 DEF Named, disk, wheel
<1>3. \A w \in Keys : settled[w] => range[w] = Named(w)
  <2>1. ~RangeSet
    BY <1>1 DEF RangeSet, Applying
  <2> QED
    BY <2>1, Elsewhere
<1>4. CASE End("ui", FALSE)
  BY <1>1, <1>2, <1>3, <1>4, EngineEnded
<1>5. CASE ~End("ui", FALSE)
  <2>1. PICK new \in Jobs :
          /\ jobs' = [jobs EXCEPT !["ui"] = <<new>>] /\ at' = [at EXCEPT !["ui"] = "stop"]
          /\ new.next = DegreesOf(Of(entries["engine"][new.key]), new.val)
          /\ new.sure => new.prev = Named(new.key)
    BY <1>0, <1>5, Looked DEF IInv
  <2>2. jobs'["ui"] = <<new>> /\ at'["ui"] = "stop"
    BY <1>0, <2>1 DEF IInv, Control
  <2>3. Job("ui")' = new /\ ~RangeSet' /\ ~Saving'
    BY <2>2 DEF Job, RangeSet, Saving, Writing
  <2>4. KnowsBoth'
    BY <1>2, <2>1, <2>3 DEF KnowsBoth
  <2>5. RangeTrue'
    BY <1>2, <1>3 DEF RangeTrue
  <2> QED
    BY <2>3, <2>4, <2>5 DEF Engine, NotStale
<1> QED
  BY <1>4, <1>5

\* Every step keeps the engine file and the wheel together.
LEMMA EngineKeeps ==
  ASSUME OneApplier, IInv, Engine, [Next]_vars
  PROVE  Engine'
<1>0. "ui" \in Threads /\ "scan" \in Threads
  BY DEF Threads
<1>1. ASSUME NEW todo \in Seq(Jobs), todo # <<>>, Shape(todo), Begin("ui", todo)
      PROVE  Engine'
  <2>1. /\ EngineOwned' /\ at'["ui"] = First(Head(todo)) /\ jobs'["ui"] = todo
        /\ UNCHANGED <<disk, wheel>> /\ at["ui"] = "idle"
    BY <1>0, <1>1, BeginKeeps DEF Engine
  <2>2. at'["ui"] = First(Job("ui")')
    BY <2>1 DEF Job
  <2>3. ~Applying' /\ ~Saving' /\ ~RangeSet
    BY <2>1, <2>2, FirstFits DEF Applying, Saving, Writing, RangeSet
  <2>4. (\A w : Named(w)' = Named(w)) /\ range' = range /\ settled' = settled
    BY <2>1 DEF Named, disk, wheel
  <2> QED
    BY <2>1, <2>3, <2>4, Elsewhere DEF Engine, NotStale, KnowsBoth, RangeTrue, RangeSet
<1>2. CASE User /\ ~NativeOutputApplyRange
  BY <1>1, <1>2, UserQueue
<1>a. CASE NativeOutputApplyRange
  <2>1. /\ UNCHANGED <<disk, jobs, at, seen>> /\ at["ui"] = "idle"
        /\ \A w \in Keys : settled'[w] => settled[w] /\ range'[w] = range[w]
    BY <1>a, RangeAlone
  <2>2. EngineOwned' /\ ~Applying' /\ ~Saving' /\ ~RangeSet /\ \A w : Named(w)' = Named(w)
    BY <2>1 DEF Engine, EngineOwned, Applying, Saving, RangeSet, Writing, Named, disk
  <2> QED
    BY <2>1, <2>2, Elsewhere DEF Engine, NotStale, KnowsBoth, RangeTrue
<1>3. CASE Scan
  <2>1. PICK todo \in Seq(Jobs) : /\ todo # <<>> /\ Shape(todo) /\ Begin("scan", todo)
                                  /\ \A i \in 1..Len(todo) : todo[i].store # "engine"
    BY <1>3, ScanQueue DEF IInv, Elsewise
  <2>2. /\ EngineOwned' /\ Alone("scan") /\ UNCHANGED <<disk, wheel>>
    BY <1>0, <2>1, BeginKeeps DEF Engine
  <2> QED
    BY <1>0, <2>2, EngineFrame DEF Alone, disk, wheel
<1>4. ASSUME NEW t \in Appliers, ApplyNativeEngineProfile(t)
      PROVE  Engine'
  <2>0. t = "ui"
    BY DEF OneApplier
  <2>1. PICK job \in Jobs : Fits(job) /\ Begin("ui", <<job>>)
    BY <1>0, <1>4, <2>0, ApplyQueue
  <2> QED
    BY <1>1, <2>1, Single
<1>5. CASE Step("scan")
  BY <1>5, ScanStep
<1>6. CASE Step("ui")
  <2>1. EngineOwned'
    BY <1>0, <1>6, StepControl DEF IInv, Engine
  <2> QED
    BY <1>6, <2>1, UIReads, UIWrites, UILooks, UIApplies DEF Step
<1>7. CASE CreateConfigSnapshot \/ Start
  BY <1>7, EngineFrame DEF CreateConfigSnapshot, Start, wheel, Engine, EngineOwned
<1>8. CASE Die
  <2>1. /\ jobs' = [t \in Threads |-> <<>>] /\ at' = [t \in Threads |-> "idle"]
        /\ settled' = [k \in Keys |-> FALSE]
    BY <1>8 DEF Die
  <2>2. ~Applying' /\ ~Saving' /\ ~RangeSet'
    BY <1>0, <2>1 DEF Applying, Saving, Writing, RangeSet
  <2>3. EngineOwned'
    BY <2>1 DEF EngineOwned
  <2>4. \A w \in Keys : ~settled'[w]
    BY <2>1
  <2> QED
    BY <2>2, <2>3, <2>4 DEF Engine, NotStale, KnowsBoth, RangeTrue
<1>9. CASE Damage
  <2>1. UNCHANGED <<jobs, at, seen, wheel>> /\ at["ui"] = "idle" /\ \A w \in Keys : ~settled[w]
    BY <1>0, <1>9 DEF Damage, IInv, Down
  <2>2. ~Applying' /\ ~Saving' /\ ~RangeSet'
    BY <2>1 DEF Applying, Saving, Writing, RangeSet
  <2>3. EngineOwned' /\ \A w \in Keys : ~settled'[w]
    BY <2>1 DEF Engine, EngineOwned, wheel
  <2> QED
    BY <2>2, <2>3 DEF Engine, NotStale, KnowsBoth, RangeTrue
<1>10. CASE UNCHANGED vars
  BY <1>10, EngineFrame DEF vars, disk, wheel, Engine, EngineOwned
<1> QED
  BY <1>2, <1>a, <1>3, <1>4, <1>5, <1>6, <1>7, <1>8, <1>9, <1>10 DEF Next, User, Threads

\* Once an apply has stored its profile, or has taken the range back that it could read, the
\* wheel has the range that the configuration names until a range is set or a profile stored
\* by itself, as long as one thread applies profiles: the former range it goes back to is the
\* one the file names, also when the profile applied was rewritten just before.
THEOREM RangeIsNamed == OneApplier => (Spec => []RangeFollowsProfile)
<1> SUFFICES ASSUME OneApplier PROVE Spec => []RangeFollowsProfile
  OBVIOUS
<1>1. Init => Engine
  <2> SUFFICES ASSUME Init PROVE Engine
    OBVIOUS
  <2>1. ~Applying /\ ~Saving /\ ~RangeSet
    BY DEF Init, Applying, Saving, Writing, RangeSet, Threads
  <2>2. EngineOwned
    BY DEF Init, EngineOwned
  <2>3. \A w \in Keys : ~settled[w]
    BY DEF Init
  <2> QED
    BY <2>1, <2>2, <2>3 DEF Engine, NotStale, KnowsBoth, RangeTrue
<1>2. IInv /\ Engine /\ [Next]_vars => Engine'
  BY EngineKeeps
<1>3. IInv /\ Engine => RangeFollowsProfile
  <2> SUFFICES ASSUME IInv, Engine, \A t \in Threads : jobs[t] # <<>> => Job(t).op # "apply"
               PROVE  \A w \in Keys : settled[w] => range[w] = Named(w)
    BY DEF RangeFollowsProfile
  <2>1. ~RangeSet
    BY DEF RangeSet, Applying, Threads, IInv, Control, Place
  <2> QED
    BY <2>1, Elsewhere
<1> QED
  BY <1>1, <1>2, <1>3, Invariance, PTL DEF Spec

=============================================================================
