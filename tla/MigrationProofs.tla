---------------------------- MODULE MigrationProofs ----------------------------
(***************************************************************************)
(* Proofs about a migration, for any number of journals, failed operations *)
(* and processes that end.                                                 *)
(*   - When nothing fails and nobody is at work, no journal is left open.  *)
(*   - Never two elevated processes at work at once, of those whose        *)
(*     journals were not cancelled too late, if the journals can be listed *)
(*     whenever a migration begins (Listed).                               *)
(*   - A rollback after one failure restores wheel, packages and stored    *)
(*     mode, if besides no journal was cancelled too late and every        *)
(*     package in the store drives a wheel (Bound): a rollback binds the   *)
(*     packages it finds in its backup.                                    *)
(***************************************************************************)
EXTENDS Migration, TLAPS

Listed == ~ListFails
Bound == ~Unbound

Admins == [at : Places, then : Working \cup {"off"}, copy : Journals,
           target : Targets, opt : BOOLEAN, mode0 : {"modern", "legacy", "none"},
           pref0 : Targets \cup {""}, had : BOOLEAN, gone : BOOLEAN, changed : BOOLEAN]

Running == [Pending EXCEPT !.status = "running"]
Active(t) == admin[t].at # "off"

\* The steps before a process has marked its journal, and the halves of an entry.
Marking == {"load", "mark"}
Entry == {"note", "noted"}

\* Where a process is, or goes when it has written its entry.
Heading(t) == IF admin[t].at \in Entry THEN admin[t].then ELSE admin[t].at

-----------------------------------------------------------------------------
(* The invariants.                                                         *)

\* Who waits for whom.
Handshake ==
  /\ ui.at \in {"idle", "consent", "wait", "cancel"} /\ (ui.at # "idle" => ui.token \in Tokens)
  /\ ui.at = "consent" => ~Active(ui.token) /\ journal[ui.token] = Pending

\* A cancelled journal that its process has marked nevertheless.
Overwritten == [Cancelled EXCEPT !.status = "running"]

\* What the journal says of its process: one that was cancelled before the process read it
\* lets the process come to its first entry.
Unmarked == {Pending, Cancelled}
Journalled(t) ==
  /\ admin[t].at \in Marking => journal[t] \in Unmarked
  /\ admin[t].at = "mark" => admin[t].copy = journal[t]
  /\ Active(t) /\ admin[t].at \notin Marking =>
       \/ journal[t] = Running
       \/ journal[t] = Overwritten /\ admin[t].at \in {"check", "note", "abort"}
  /\ admin[t].at = "noted" => admin[t].copy = Running

\* The user's process waits for a migration it has begun.
Named == ui.at \in {"consent", "wait", "cancel"} => ui.token \in Tokens

\* A journal that was read was begun, and an entry leads to an operation.
Copied ==
  \A t \in Tokens : /\ admin[t].at = "noted" => admin[t].copy.status # "none"
                    /\ admin[t].at \in Entry => admin[t].then \in Working

Control == deaths = 0 => Handshake /\ \A t \in Tokens \ late : Journalled(t)

\* An unfinished journal keeps others from being begun.
Unfinished(t) == journal[t].status # "none" /\ ~journal[t].completed
Alone == deaths = 0 => \A t, u \in Tokens \ late : Unfinished(t) /\ Unfinished(u) => t = u

\* A journal that is open is somebody's work, or about to be cancelled.
Owned ==
  faults = 0 /\ deaths = 0 =>
    \A t \in Tokens : journal[t].status # "none" /\ ~journal[t].completed =>
      Active(t) \/ (ui.at \in {"consent", "cancel"} /\ ui.token = t)

\* What drives the wheel is what lies in the store.
Whole ==
  faults = 0 /\ deaths = 0 =>
    \/ store = "none" /\ mode \in {"modern", "none"}
    \/ store = "all" /\ mode = "legacy"

\* Only a change to the generic driver is rolled back.
Paths ==
  \A t \in Tokens :
    /\ admin[t].target = "modern" => Heading(t) \notin {"lgs", "profiler"}
    /\ admin[t].target = "legacy" =>
         Heading(t) \notin {"saveprofiler", "uninstall", "remove", "scan", "backprofiler", "backpref",
                            "backverify"}

\* The wheel, and the stored mode, are as the process has found them.
AsFound(t) == mode = admin[t].mode0 /\ mode # "none"
PrefAsFound(t) == pref = admin[t].pref0

Before == {"saveprofiler", "inventory", "export", "uninstall", "remove"}
Adding == {"add", "rescan", "added"}
Back == {"backprofiler", "backpref", "backverify"}

\* What a change to the generic driver has done so far, and what its rollback has restored.
Forward(t) ==
  LET p == Heading(t)
      had == admin[t].had
  IN  /\ p \in Before => AsFound(t)
      /\ p \in Before \cup {"scan", "pref"} => PrefAsFound(t)
      /\ p \in {"export", "uninstall", "remove"} => (had <=> store # "none")
      /\ p \in {"uninstall", "remove", "scan", "pref", "verify"} /\ had => backup
      /\ p = "scan" /\ had =>
           admin[t].mode0 = "legacy" /\ store = "none" /\ mode \in {"modern", "none"}
      /\ p \in {"scan", "pref", "verify"} /\ ~had => AsFound(t) /\ store = "none"
      /\ p \in {"pref", "verify"} /\ had => mode = "modern"
      /\ p \in {"scan", "pref", "verify"} /\ had /\ faults = 0 => admin[t].mode0 = "legacy"
      /\ p = "verify" => pref = "modern"

Backward(t) ==
  LET p == Heading(t) IN
  /\ p \in Adding \cup Back => faults # 0
  /\ p \in Adding => admin[t].had /\ backup /\ admin[t].mode0 = "legacy"
  /\ p \in {"rescan", "added"} => mode = "legacy" /\ store = "all"
  /\ p \in Back => AsFound(t) /\ (admin[t].had => store = "all")
  /\ p = "backverify" => PrefAsFound(t)

\* A process whose journal is completed goes no further than its first entry.
Tracked ==
  faults <= 1 /\ deaths = 0 /\ late = {} =>
    \A t \in Tokens :
      admin[t].target = "modern" /\ ~journal[t].completed => Forward(t) /\ Backward(t)

-----------------------------------------------------------------------------
(* Types.                                                                  *)

\* The places that actions name.
LEMMA PlacesAre ==
  /\ Working \subseteq Places /\ "off" \notin Working
  /\ {"off", "load", "mark", "note", "noted"} \subseteq Places
  /\ {"check", "saveprofiler", "inventory", "export", "uninstall", "remove", "scan", "add",
      "rescan", "added", "lgs", "profiler", "pref", "verify",
      "backprofiler", "backpref", "backverify", "success", "failed", "abort"} = Working
BY DEF Working, Places

\* The journals that actions write.
LEMMA JournalsAre ==
  /\ NoJournal \in Journals /\ Pending \in Journals /\ Running \in Journals
  /\ \A s \in {"success", "failed", "cancelled"} : Finished(s) \in Journals
  /\ \A j \in Journals : [j EXCEPT !.status = "running"] \in Journals
  /\ Running.status = "running" /\ ~Running.completed /\ ~Pending.completed
  /\ Cancelled \in Journals /\ Cancelled.completed /\ Cancelled.status = "cancelled"
  /\ Overwritten \in Journals /\ Overwritten.completed /\ Overwritten.status = "running"
BY DEF Journals, NoJournal, Pending, Running, Finished, Cancelled, Overwritten

\* The fields of a process.
LEMMA FieldsAre ==
  ASSUME NEW a \in Admins
  PROVE  DOMAIN a = {"at", "then", "copy", "target", "opt", "mode0", "pref0", "had", "gone", "changed"}
BY DEF Admins

\* A process that has ended, one that goes on, and one that writes an entry first.
LEMMA AdminsAre ==
  ASSUME NEW a \in Admins
  PROVE  /\ NoAdmin \in Admins
         /\ [NoAdmin EXCEPT !.target = a.target, !.changed = a.changed] \in Admins
         /\ \A p \in Places : [a EXCEPT !.at = p] \in Admins
         /\ \A p \in Working : [a EXCEPT !.at = "note", !.then = p] \in Admins
         /\ \A p \in Working : [a EXCEPT !.at = "note", !.then = p, !.changed = TRUE] \in Admins
         /\ \A h \in BOOLEAN : [a EXCEPT !.had = h] \in Admins
         /\ \A m \in {"modern", "legacy", "none"} : [a EXCEPT !.mode0 = m] \in Admins
         /\ \A q \in Targets \cup {""} : [a EXCEPT !.pref0 = q] \in Admins
<1>1. NoAdmin \in Admins
  BY PlacesAre, JournalsAre DEF Admins, NoAdmin, Targets
<1>2. [NoAdmin EXCEPT !.target = a.target, !.changed = a.changed] \in Admins
  BY <1>1, PlacesAre, JournalsAre DEF Admins, NoAdmin
<1>3. ASSUME NEW p \in Places PROVE [a EXCEPT !.at = p] \in Admins
  BY DEF Admins
<1>4. ASSUME NEW p \in Working PROVE [a EXCEPT !.at = "note", !.then = p] \in Admins
  BY PlacesAre DEF Admins
<1>5. ASSUME NEW p \in Working PROVE [a EXCEPT !.at = "note", !.then = p, !.changed = TRUE] \in Admins
  BY PlacesAre DEF Admins
<1>6. ASSUME NEW h \in BOOLEAN PROVE [a EXCEPT !.had = h] \in Admins
  BY DEF Admins
<1>7. ASSUME NEW m \in {"modern", "legacy", "none"} PROVE [a EXCEPT !.mode0 = m] \in Admins
  BY DEF Admins
<1>8. ASSUME NEW q \in Targets \cup {""} PROVE [a EXCEPT !.pref0 = q] \in Admins
  BY DEF Admins
<1> QED
  BY <1>1, <1>2, <1>3, <1>4, <1>5, <1>6, <1>7, <1>8

\* What an operation of the change itself does to its process.
Operation(t) ==
  \/ Check(t) \/ SaveProfiler(t) \/ Inventory(t) \/ Export(t) \/ Uninstall(t) \/ Remove(t)
  \/ Scan(t) \/ SavePref(t) \/ Verify(t) \/ Add(t) \/ Rescan(t) \/ Added(t) \/ Lgs(t)
  \/ LegacyProfiler(t) \/ BackProfiler(t) \/ BackPref(t) \/ BackVerify(t)

Types == admin \in [Tokens -> Admins] /\ journal \in [Tokens -> Journals]
SystemTypes ==
  /\ store \in {"all", "some", "none"}
  /\ mode \in {"modern", "legacy", "none"}
  /\ pref \in Targets \cup {""}
  /\ profiler \in BOOLEAN /\ backup \in BOOLEAN

Ending == {"success", "failed", "abort"}

\* An operation writes an entry next, or is the first part of one.
LEMMA OperationMoves ==
  ASSUME Types, SystemTypes, NEW t \in Tokens, Operation(t)
  PROVE  /\ admin[t].at \in Working \ Ending
         /\ \E a \in Admins :
              /\ admin' = [admin EXCEPT ![t] = a]
              /\ \/ a.at = "note" /\ a.then \in Working
                 \/ a.at \in {"rescan", "added"} /\ admin[t].at \in {"add", "rescan"}
              /\ a.target = admin[t].target
         /\ UNCHANGED <<journal, ui, deaths, late>>
         /\ faults' = faults \/ Fault
<1> DEFINE Moves(a) == /\ admin' = [admin EXCEPT ![t] = a]
                       /\ \/ a.at = "note" /\ a.then \in Working
                          \/ a.at \in {"rescan", "added"} /\ admin[t].at \in {"add", "rescan"}
                       /\ a.target = admin[t].target
<1> USE DEF At, Types
<1>0. admin[t] \in Admins /\ journal[t] \in Journals
  OBVIOUS
<1>1. ASSUME NEW p \in Working, Notes(t, p) \/ Changes(t, p) PROVE \E a \in Admins : Moves(a)
  <2>1. CASE Notes(t, p)
    <3>1. [admin[t] EXCEPT !.at = "note", !.then = p] \in Admins
      BY <1>0, AdminsAre
    <3> QED
      BY <1>0, <2>1, <3>1 DEF Notes, Admins
  <2>2. CASE Changes(t, p)
    <3>1. [admin[t] EXCEPT !.at = "note", !.then = p, !.changed = TRUE] \in Admins
      BY <1>0, AdminsAre
    <3> QED
      BY <1>0, <2>2, <3>1 DEF Changes, Admins
  <2> QED
    BY <1>1, <2>1, <2>2
<1>2. CASE Check(t)
  <2>1. CASE \E p \in Working : Notes(t, p)
    BY <1>1, <1>2, <2>1, PlacesAre DEF Check, Failed, Fault, NoFault, Ending
  <2>2. CASE admin' = [admin EXCEPT ![t].at = "note", ![t].mode0 = mode, ![t].pref0 = pref,
                         ![t].then = IF admin[t].target = "modern" THEN "saveprofiler" ELSE "inventory"]
    <3> DEFINE p == IF admin[t].target = "modern" THEN "saveprofiler" ELSE "inventory"
               a == [admin[t] EXCEPT !.at = "note", !.mode0 = mode, !.pref0 = pref, !.then = p]
    <3>0. p \in Working
      BY PlacesAre
    <3> DEFINE b == [admin[t] EXCEPT !.at = "note", !.then = p]
               c == [b EXCEPT !.mode0 = mode]
    <3> HIDE DEF p
    <3>1. b \in Admins
      BY <1>0, <3>0, AdminsAre
    <3>2. c \in Admins
      BY <3>1, AdminsAre DEF SystemTypes
    <3>3. [c EXCEPT !.pref0 = pref] \in Admins
      BY <3>2, AdminsAre DEF SystemTypes
    <3>4. a = [c EXCEPT !.pref0 = pref]
      BY <1>0 DEF Admins
    <3>5. a \in Admins
      BY <3>3, <3>4
    <3> HIDE DEF b, c
    <3>6. Moves(a)
      BY <1>0, <2>2, <3>0, PlacesAre DEF Admins, p
    <3> QED
      BY <1>2, <3>5, <3>6, PlacesAre DEF Check, Failed, Fault, NoFault, Ending
  <2> QED
    BY <1>2, <2>1, <2>2, PlacesAre DEF Check, Failed
<1>3. CASE SaveProfiler(t) \/ Export(t) \/ Remove(t) \/ Scan(t) \/ SavePref(t) \/ Verify(t)
           \/ Lgs(t) \/ BackProfiler(t) \/ BackPref(t) \/ BackVerify(t)
  <2>1. \E p \in Working : Notes(t, p) \/ Changes(t, p)
    BY <1>3, PlacesAre DEF SaveProfiler, Export, Remove, BindingUnclear, RollBack, Scan, SavePref,
       Verify, Lgs, BackProfiler, BackPref, BackVerify, Failed
  <2>2. admin[t].at \in Working \ Ending /\ UNCHANGED <<journal, ui, deaths, late>> /\ (faults' = faults \/ Fault)
    BY <1>3, PlacesAre DEF SaveProfiler, Export, Remove, BindingUnclear, Scan, SavePref,
       Verify, Lgs, BackProfiler, BackPref, BackVerify, Failed, NoFault, Ending
  <2> QED
    BY <1>1, <2>1, <2>2
<1>4. CASE Inventory(t)
  <2>1. PICK h \in BOOLEAN, p \in Working :
          \/ admin' = [admin EXCEPT ![t].at = "note", ![t].had = h, ![t].then = p]
          \/ Notes(t, p)
    BY <1>4, PlacesAre DEF Inventory, Failed, NextStep, LatestBackup
  <2>2. CASE Notes(t, p)
    BY <1>1, <1>4, <2>2, PlacesAre DEF Inventory, Failed, NoFault, Ending
  <2>3. CASE admin' = [admin EXCEPT ![t].at = "note", ![t].had = h, ![t].then = p]
    <3> DEFINE a == [admin[t] EXCEPT !.at = "note", !.had = h, !.then = p]
    <3> DEFINE b == [admin[t] EXCEPT !.at = "note", !.then = p]
    <3>0. b \in Admins
      BY <1>0, AdminsAre
    <3>1. a \in Admins
      <4>1. [b EXCEPT !.had = h] \in Admins
        BY <3>0, AdminsAre
      <4> QED
        BY <1>0, <4>1 DEF Admins
    <3> HIDE DEF b
    <3>2. Moves(a)
      BY <1>0, <2>3 DEF Admins
    <3> QED
      BY <1>4, <3>1, <3>2, PlacesAre DEF Inventory, Failed, NoFault, Ending
  <2> QED
    BY <2>1, <2>2, <2>3
<1>5. CASE Uninstall(t)
  <2>1. CASE \E p \in Working : Notes(t, p) \/ Changes(t, p)
    BY <1>1, <1>5, <2>1, PlacesAre DEF Uninstall, Fault, NoFault, Ending
  <2>2. CASE admin' = [admin EXCEPT ![t].at = "note", ![t].then = "remove", ![t].gone = TRUE,
                                    ![t].changed = TRUE]
    <3> DEFINE a == [admin[t] EXCEPT !.at = "note", !.then = "remove", !.gone = TRUE, !.changed = TRUE]
    <3>1. a \in Admins
      BY <1>0, PlacesAre DEF Admins
    <3>2. Moves(a)
      BY <1>0, <2>2, PlacesAre DEF Admins
    <3> QED
      BY <1>5, <3>1, <3>2, PlacesAre DEF Uninstall, Fault, NoFault, Ending
  <2> QED
    BY <1>5, <2>1, <2>2, PlacesAre DEF Uninstall
<1>6. CASE Add(t) \/ Rescan(t) \/ Added(t)
  <2>1. admin[t].at \in Working \ Ending /\ UNCHANGED <<journal, ui, deaths, late>> /\ (faults' = faults \/ Fault)
    BY <1>6, PlacesAre DEF Add, Rescan, Added, Failed, NoFault, Ending
  <2>2. CASE \E p \in Working : Notes(t, p) \/ Changes(t, p)
    BY <1>1, <2>1, <2>2
  <2>3. CASE /\ admin[t].at \in {"add", "rescan"}
             /\ \E p \in {"rescan", "added"}, c \in BOOLEAN :
                  admin' = [admin EXCEPT ![t].at = p, ![t].changed = c]
    <3>1. PICK p \in {"rescan", "added"}, c \in BOOLEAN :
               admin' = [admin EXCEPT ![t].at = p, ![t].changed = c]
      BY <2>3
    <3> DEFINE a == [admin[t] EXCEPT !.at = p, !.changed = c]
    <3>2. a \in Admins
      BY <1>0, PlacesAre DEF Admins
    <3>3. Moves(a)
      BY <1>0, <2>3, <3>1, PlacesAre DEF Admins
    <3> QED
      BY <2>1, <3>2, <3>3
  <2>4. \/ \E p \in Working : Notes(t, p) \/ Changes(t, p)
        \/ /\ admin[t].at = "add"
           /\ admin' = [admin EXCEPT ![t].at = "rescan", ![t].changed = TRUE]
        \/ admin[t].at = "rescan" /\ Goes(t, "added")
    BY <1>6, PlacesAre DEF Add, Rescan, Added, Failed, NotRestored, Restored
  <2>5. Goes(t, "added") => admin' = [admin EXCEPT ![t].at = "added", ![t].changed = admin[t].changed]
    BY <1>0 DEF Goes, Admins
  <2> QED
    BY <1>0, <2>2, <2>3, <2>4, <2>5 DEF Admins
<1>7. CASE LegacyProfiler(t)
  <2> DEFINE c == admin[t].changed \/ profiler' # profiler
             a == [admin[t] EXCEPT !.at = "note", !.then = "pref", !.changed = c]
  <2>1. admin' = [admin EXCEPT ![t].at = "note", ![t].then = "pref", ![t].changed = c]
    BY <1>0, <1>7 DEF LegacyProfiler
  <2>2. a \in Admins
    BY <1>0, PlacesAre DEF Admins
  <2>3. Moves(a)
    BY <1>0, <2>1, PlacesAre DEF Admins
  <2> QED
    BY <1>7, <2>2, <2>3, PlacesAre DEF LegacyProfiler, NoFault, Ending
<1> QED
  BY <1>2, <1>3, <1>4, <1>5, <1>6, <1>7 DEF Operation

\* TypeOK in the parts above.
LEMMA TypeParts ==
  TypeOK <=>
    /\ Types /\ SystemTypes
    /\ ui \in [at : {"closed", "recover", "idle", "consent", "wait", "cancel"},
               token : Tokens \cup {"none"}, proved : SUBSET Tokens]
    /\ late \subseteq Tokens
    /\ faults \in 0..MaxFaults /\ deaths \in 0..MaxDeaths
    /\ \A t \in Tokens : admin[t].at # "off" \/ ui.token = t => journal[t].status # "none"
BY DEF TypeOK, Types, SystemTypes, Admins

\* An operation leaves the system in one of its states.
LEMMA SystemTyped ==
  ASSUME Types, SystemTypes, NEW t \in Tokens, Operation(t)
  PROVE  SystemTypes'
<1>0. admin[t].target \in Targets /\ admin[t].pref0 \in Targets \cup {""}
  BY DEF Types, Admins
<1>1. CASE Check(t) \/ SaveProfiler(t) \/ Inventory(t) \/ Verify(t) \/ Rescan(t) \/ BackVerify(t)
  BY <1>1 DEF SystemTypes, Check, SaveProfiler, Inventory, Verify, Rescan, BackVerify, system
<1>2. CASE Export(t) \/ Uninstall(t) \/ LegacyProfiler(t) \/ BackProfiler(t)
  BY <1>2 DEF SystemTypes, Export, Uninstall, LegacyProfiler, BackProfiler
<1>3. CASE Remove(t) \/ Add(t) \/ Lgs(t)
  BY <1>3 DEF SystemTypes, Remove, BindingUnclear, Add, Lgs
<1>4. CASE Scan(t)
  BY <1>4 DEF SystemTypes, Scan, Rescanned
<1>5. CASE SavePref(t) \/ Added(t) \/ BackPref(t)
  BY <1>0, <1>5 DEF SystemTypes, SavePref, Added, BackPref, PrefBack, Targets
<1> QED
  BY <1>1, <1>2, <1>3, <1>4, <1>5 DEF Operation

\* The bound on failures is kept.
LEMMA FaultTyped == faults \in 0..MaxFaults /\ (faults' = faults \/ Fault) => faults' \in 0..MaxFaults
BY MigrationAssumption DEF Fault

\* An operation leaves the journals and the user's process alone.
LEMMA OperationKeeps ==
  ASSUME TypeOK, Control, Copied, NEW t \in Tokens, Operation(t)
  PROVE  TypeOK' /\ Control' /\ Copied' /\ (Owned => Owned') /\ (Alone => Alone')
<1>0. Types /\ SystemTypes
  BY TypeParts
<1>1. PICK a \in Admins : /\ admin' = [admin EXCEPT ![t] = a]
                          /\ \/ a.at = "note" /\ a.then \in Working
                             \/ a.at \in {"rescan", "added"} /\ admin[t].at \in {"add", "rescan"}
  BY <1>0, OperationMoves
<1>2. /\ admin[t].at \in Working \ Ending
      /\ UNCHANGED <<journal, ui, deaths, late>>
      /\ faults' = faults \/ Fault
  BY <1>0, OperationMoves
<1>3. Active(t) /\ admin[t].at \notin Marking /\ a.at \notin Marking \cup {"off", "noted"}
  BY <1>1, <1>2, PlacesAre DEF Active, Marking, Working
<1>4. /\ \A u \in Tokens \ {t} : admin'[u] = admin[u]
      /\ admin'[t] = a /\ admin' \in [Tokens -> Admins]
  BY <1>0, <1>1 DEF Types
<1>5. TypeOK'
  <2>1. SystemTypes' /\ Types'
    BY <1>0, <1>2, <1>4, SystemTyped DEF Types
  <2>2. faults' \in 0..MaxFaults
    BY <1>2, FaultTyped, TypeParts
  <2>3. \A u \in Tokens : admin'[u].at # "off" \/ ui'.token = u => journal'[u].status # "none"
    BY <1>2, <1>3, <1>4, TypeParts DEF Active
  <2> QED
    BY <1>2, <2>1, <2>2, <2>3, TypeParts DEF TypeOK, Types, SystemTypes, Admins
<1>6. Control'
  <2> SUFFICES ASSUME deaths' = 0 PROVE Handshake' /\ \A u \in Tokens \ late' : Journalled(u)'
    BY DEF Control
  <2>0. Handshake /\ \A u \in Tokens \ late : Journalled(u)
    BY <1>2 DEF Control
  <2>1. Handshake'
    BY <1>2, <1>3, <1>4, <2>0 DEF Handshake, Active
  <2>2. ASSUME NEW u \in Tokens \ late' PROVE Journalled(u)'
    <3>1. CASE u = t
      BY <1>1, <1>2, <1>3, <1>4, <2>0, <3>1 DEF Journalled, Active, Marking, Entry
    <3>2. CASE u # t
      BY <1>2, <1>4, <2>0, <3>2 DEF Journalled, Active
    <3> QED
      BY <3>1, <3>2
  <2> QED
    BY <2>1, <2>2
<1>9. Copied'
  BY <1>1, <1>3, <1>4 DEF Copied, Entry
<1>7. Owned => Owned'
  <2>1. faults' = 0 => faults = 0
    BY <1>2, TypeParts, MigrationAssumption DEF Fault
  <2> QED
    BY <1>2, <1>3, <1>4, <2>1 DEF Owned, Active
<1>8. Alone => Alone'
  BY <1>2 DEF Alone, Unfinished
<1> QED
  BY <1>5, <1>6, <1>7, <1>8, <1>9

\* What reading or writing the journal leaves of process and journal, while nobody has died
\* and the journal was not cancelled too late.
Settled(a, j) ==
  \/ a.at = "mark" /\ a.copy = j /\ j \in Unmarked
  \/ a.at \in Working /\ j = Running
  \/ a.at \in {"check", "abort"} /\ j = Overwritten
  \/ a.at = "noted" /\ a.copy = Running /\ j = Running
  \/ a.at = "off"

\* A process that reads or writes its journal touches no other, nor the system.
LEMMA JournalMoves ==
  ASSUME TypeOK, Control, Copied, NEW t \in Tokens,
         Load(t) \/ Mark(t) \/ Note(t) \/ Noted(t) \/ Complete(t)
  PROVE  /\ Active(t)
         /\ \E a \in Admins, j \in Journals :
              /\ admin' = [admin EXCEPT ![t] = a] /\ journal' = [journal EXCEPT ![t] = j]
              /\ j.status # "none" \/ (a.at = "off" /\ j = journal[t])
              /\ a.at = "noted" => a.copy.status # "none" /\ a.then \in Working
              /\ a.at = "off" => j.completed \/ faults' # 0
              /\ a.at # "note"
              /\ deaths = 0 /\ t \notin late => Settled(a, j) /\ (journal[t].completed => j.completed)
         /\ UNCHANGED <<system, ui, deaths, late>>
         /\ faults' = faults \/ Fault
<1>0. Types /\ SystemTypes
  BY TypeParts
<1>1. /\ admin[t] \in Admins /\ journal[t] \in Journals
      /\ admin[t].copy \in Journals /\ admin[t].then \in Working \cup {"off"}
  BY <1>0 DEF Types, Admins
<1>2. [journal EXCEPT ![t] = journal[t]] = journal
  BY <1>0 DEF Types
<1>3. deaths = 0 /\ t \notin late => Journalled(t)
  BY DEF Control
<1> DEFINE Moved(a, j) == /\ admin' = [admin EXCEPT ![t] = a] /\ journal' = [journal EXCEPT ![t] = j]
                          /\ j.status # "none" \/ (a.at = "off" /\ j = journal[t])
                          /\ a.at = "noted" => a.copy.status # "none" /\ a.then \in Working
                          /\ a.at = "off" => j.completed \/ faults' # 0
                          /\ a.at # "note"
                          /\ deaths = 0 /\ t \notin late => Settled(a, j) /\ (journal[t].completed => j.completed)
           gone == [NoAdmin EXCEPT !.target = admin[t].target, !.changed = admin[t].changed]
<1>4. gone \in Admins /\ gone.at = "off"
  BY <1>1, AdminsAre DEF NoAdmin
<1>5. Fault => faults' # 0
  BY TypeParts, MigrationAssumption DEF Fault
<1>6. journal[t].status # "none" \/ ~Active(t)
  BY TypeParts DEF Active
<1>7. ASSUME Ends(t), UNCHANGED journal, Fault PROVE Moved(gone, journal[t])
  BY <1>2, <1>4, <1>5, <1>6, <1>7 DEF Ends, Settled
<1>8. CASE Load(t)
  <2>1. CASE Fault /\ Ends(t)
    BY <1>1, <1>4, <1>7, <1>8, <2>1, <1>6 DEF Load, At, Active
  <2>2. CASE admin' = [admin EXCEPT ![t].at = "mark", ![t].copy = journal[t]]
    <3> DEFINE a == [admin[t] EXCEPT !.at = "mark", !.copy = journal[t]]
    <3>1. a \in Admins
      BY <1>1, PlacesAre DEF Admins
    <3>2. Moved(a, journal[t])
      BY <1>1, <1>2, <1>3, <1>6, <1>8, <2>2 DEF Load, At, Journalled, Settled, Marking, Active, Admins
    <3> QED
      BY <1>1, <1>8, <3>1, <3>2 DEF Load, At, Active, NoFault
  <2> QED
    BY <1>8, <2>1, <2>2 DEF Load
<1>9. CASE Mark(t)
  <2>1. CASE Fault /\ Ends(t) /\ UNCHANGED journal
    BY <1>1, <1>4, <1>7, <1>9, <2>1 DEF Mark, At, Active
  <2>2. CASE /\ journal' = [journal EXCEPT ![t] = [admin[t].copy EXCEPT !.status = "running"]]
             /\ admin' = [admin EXCEPT ![t].at = "check", ![t].copy = NoJournal]
    <3> DEFINE a == [admin[t] EXCEPT !.at = "check", !.copy = NoJournal]
               j == [admin[t].copy EXCEPT !.status = "running"]
    <3>1. a \in Admins
      BY <1>1, PlacesAre, JournalsAre DEF Admins
    <3>2. j \in Journals /\ j.status # "none"
      BY <1>1, JournalsAre DEF Journals
    <3>3. admin[t].copy \in Unmarked => j \in {Running, Overwritten}
      BY DEF Running, Overwritten, Unmarked
    <3>5. a.at = "check"
      BY <1>1 DEF Admins
    <3>6. deaths = 0 /\ t \notin late => j \in {Running, Overwritten}
      BY <1>3, <1>9, <3>3 DEF Mark, At, Journalled, Marking
    <3>7. admin' = [admin EXCEPT ![t] = a]
      BY <1>0, <2>2 DEF Types
    <3>8. j.completed = admin[t].copy.completed
      BY <1>1 DEF Journals
    <3> HIDE DEF a, j
    <3>4. Moved(a, j)
      <4>1. journal' = [journal EXCEPT ![t] = j]
        BY <2>2 DEF j
      <4>2. deaths = 0 /\ t \notin late => Settled(a, j)
        BY <3>5, <3>6, PlacesAre DEF Settled
      <4>3. deaths = 0 /\ t \notin late => (journal[t].completed => j.completed)
        BY <1>3, <1>9, <3>8 DEF Mark, At, Journalled
      <4> QED
        BY <3>2, <3>5, <3>7, <4>1, <4>2, <4>3
    <3> QED
      BY <1>9, <3>1, <3>2, <3>4 DEF Mark, At, Active, NoFault
  <2> QED
    BY <1>9, <2>1, <2>2 DEF Mark
<1>10. ASSUME Goes(t, "abort"), UNCHANGED journal, admin[t].at \in Entry PROVE \E a \in Admins : Moved(a, journal[t])
  <2> DEFINE a == [admin[t] EXCEPT !.at = "abort"]
  <2>1. a \in Admins
    BY <1>1, AdminsAre, PlacesAre
  <2>2. Moved(a, journal[t])
    BY <1>1, <1>2, <1>3, <1>6, <1>10, PlacesAre DEF Goes, Journalled, Settled, Admins, Active, Entry, Marking
  <2> QED
    BY <2>1, <2>2
<1>11. CASE Note(t)
  <2>1. CASE Goes(t, "abort")
    BY <1>1, <1>10, <1>11, <2>1 DEF Note, At, Active, NoFault, Entry
  <2>2. CASE admin' = [admin EXCEPT ![t].at = "noted", ![t].copy = journal[t]]
    <3> DEFINE a == [admin[t] EXCEPT !.at = "noted", !.copy = journal[t]]
    <3>1. a \in Admins
      BY <1>1, PlacesAre DEF Admins
    <3>2. admin[t].at = "note" /\ journal[t].status # "none"
      BY <1>6, <1>11 DEF Note, At, Active
    <3>3. a.at = "noted" /\ a.copy = journal[t] /\ a.then = admin[t].then
      BY <1>1 DEF Admins
    <3>7. ~journal[t].completed
      <4>1. admin'[t].at = "noted"
        BY <1>0, <2>2, <3>3 DEF Types
      <4>2. Goes(t, "abort") => admin'[t].at = "abort"
        BY <1>0, <1>1, FieldsAre DEF Goes, Types
      <4> QED
        BY <1>11, <4>1, <4>2 DEF Note, Open
    <3>8. admin[t].then \in Working
      BY <3>2 DEF Copied, Entry
    <3>4. deaths = 0 /\ t \notin late => journal[t] = Running
      BY <1>3, <3>2, <3>7, JournalsAre DEF Journalled, Active, Marking
    <3>6. admin' = [admin EXCEPT ![t] = a]
      BY <1>0, <2>2 DEF Types
    <3> HIDE DEF a
    <3>5. Moved(a, journal[t])
      <4>1. journal' = [journal EXCEPT ![t] = journal[t]]
        BY <1>2, <1>11 DEF Note
      <4>2. deaths = 0 /\ t \notin late => Settled(a, journal[t])
        BY <3>3, <3>4 DEF Settled
      <4> QED
        BY <3>2, <3>3, <3>6, <3>8, <4>1, <4>2
    <3> QED
      BY <1>1, <1>11, <3>1, <3>5 DEF Note, At, Active, NoFault
  <2> QED
    BY <1>11, <2>1, <2>2 DEF Note
<1>12. CASE Noted(t)
  <2>1. CASE Goes(t, "abort") /\ UNCHANGED journal
    BY <1>1, <1>10, <1>12, <2>1 DEF Noted, At, Active, NoFault, Entry
  <2>2. CASE /\ journal' = [journal EXCEPT ![t] = admin[t].copy]
             /\ admin' = [admin EXCEPT ![t].at = admin[t].then, ![t].then = "off", ![t].copy = NoJournal]
    <3> DEFINE a == [admin[t] EXCEPT !.at = admin[t].then, !.then = "off", !.copy = NoJournal]
    <3>1. a \in Admins
      BY <1>1, PlacesAre, JournalsAre DEF Admins
    <3>3. a.at = admin[t].then /\ admin[t].at = "noted"
      BY <1>1, <1>12 DEF Admins, Noted, At
    <3>4. admin[t].copy.status # "none" /\ a.at # "noted"
      BY <1>1, <3>3, PlacesAre DEF Copied, Working
    <3>8. a.at \in Working
      BY <3>3 DEF Copied, Entry
    <3>5. deaths = 0 /\ t \notin late => admin[t].copy = Running /\ a.at \in Working
      BY <1>3, <3>3, <3>8 DEF Journalled
    <3>6. deaths = 0 /\ t \notin late => ~journal[t].completed
      BY <1>3, <3>3, JournalsAre DEF Journalled, Active, Marking
    <3>7. a.at # "off" /\ a.at # "note"
      BY <3>8, PlacesAre DEF Working
    <3>2. Moved(a, admin[t].copy)
      BY <2>2, <3>4, <3>5, <3>6, <3>7 DEF Settled
    <3> QED
      BY <1>1, <1>12, <3>1, <3>2 DEF Noted, At, Active, NoFault
  <2> QED
    BY <1>12, <2>1, <2>2 DEF Noted
<1>13. CASE Complete(t)
  <2>1. CASE Fault /\ UNCHANGED journal
    BY <1>1, <1>4, <1>7, <1>13, <2>1 DEF Complete, Active
  <2>2. CASE journal' = [journal EXCEPT ![t] = Finished(IF At(t, "success") THEN "success" ELSE "failed")]
    <3>1. \A r \in {"success", "failed"} : /\ Finished(r) \in Journals
                                           /\ Finished(r).completed /\ Finished(r).status # "none"
      BY JournalsAre DEF Finished
    <3>2. PICK r \in {"success", "failed"} : journal' = [journal EXCEPT ![t] = Finished(r)]
      BY <2>2
    <3>3. Moved(gone, Finished(r))
      BY <1>4, <1>13, <3>1, <3>2 DEF Complete, Ends, Settled
    <3> QED
      BY <1>4, <1>13, <3>1, <3>3 DEF Complete, Active, NoFault
  <2> QED
    BY <1>13, <2>1, <2>2 DEF Complete
<1> QED
  BY <1>8, <1>9, <1>11, <1>12, <1>13

\* Only such a process completes a journal, or marks it running.
LEMMA JournalKeeps ==
  ASSUME TypeOK, Control, Copied, NEW t \in Tokens,
         Load(t) \/ Mark(t) \/ Note(t) \/ Noted(t) \/ Complete(t)
  PROVE  TypeOK' /\ Control' /\ Copied' /\ (Owned => Owned') /\ (Alone => Alone')
<1>0. Types /\ SystemTypes
  BY TypeParts
<1>1. PICK a \in Admins, j \in Journals :
        /\ admin' = [admin EXCEPT ![t] = a] /\ journal' = [journal EXCEPT ![t] = j]
        /\ j.status # "none" \/ (a.at = "off" /\ j = journal[t])
        /\ a.at = "noted" => a.copy.status # "none" /\ a.then \in Working
        /\ a.at = "off" => j.completed \/ faults' # 0
        /\ a.at # "note"
        /\ deaths = 0 /\ t \notin late => Settled(a, j) /\ (journal[t].completed => j.completed)
  BY JournalMoves
<1>2. /\ Active(t) /\ UNCHANGED <<system, ui, deaths, late>>
      /\ faults' = faults \/ Fault
  BY JournalMoves
<1>3. /\ \A u \in Tokens \ {t} : admin'[u] = admin[u] /\ journal'[u] = journal[u]
      /\ admin'[t] = a /\ admin' \in [Tokens -> Admins]
      /\ journal'[t] = j /\ journal' \in [Tokens -> Journals]
  BY <1>0, <1>1 DEF Types
<1>4. journal[t].status # "none" /\ j.status # "none"
  BY <1>1, <1>2, TypeParts DEF Active
<1>5. TypeOK'
  <2>1. SystemTypes' /\ Types'
    BY <1>0, <1>2, <1>3 DEF Types, SystemTypes, system
  <2>2. faults' \in 0..MaxFaults
    BY <1>2, FaultTyped, TypeParts
  <2>3. \A u \in Tokens : admin'[u].at # "off" \/ ui'.token = u => journal'[u].status # "none"
    BY <1>2, <1>3, <1>4, TypeParts
  <2> QED
    BY <1>2, <2>1, <2>2, <2>3, TypeParts DEF TypeOK, Types, SystemTypes, Admins
<1>6. Control'
  <2> SUFFICES ASSUME deaths' = 0 PROVE Handshake' /\ \A u \in Tokens \ late' : Journalled(u)'
    BY DEF Control
  <2>0. Handshake /\ (\A u \in Tokens \ late : Journalled(u)) /\ (t \notin late => Settled(a, j))
    <3>1. deaths = 0
      BY <1>2
    <3>2. Handshake /\ \A u \in Tokens \ late : Journalled(u)
      BY <3>1 DEF Control
    <3>3. t \notin late => Settled(a, j)
      BY <1>1, <3>1
    <3> QED
      BY <3>2, <3>3
  <2>1. Handshake'
    BY <1>2, <1>3, <2>0 DEF Handshake, Active
  <2>2. ASSUME NEW u \in Tokens \ late' PROVE Journalled(u)'
    <3>1. CASE u = t
      BY <1>2, <1>3, <2>0, <3>1, PlacesAre DEF Journalled, Settled, Active, Marking, Entry, Working
    <3>2. CASE u # t
      BY <1>2, <1>3, <2>0, <3>2 DEF Journalled, Active
    <3> QED
      BY <3>1, <3>2
  <2> QED
    BY <2>1, <2>2
<1>7. Copied'
  BY <1>1, <1>3 DEF Copied, Entry
<1>8. Owned => Owned'
  <2>1. faults' = 0 => faults = 0
    BY <1>2, TypeParts, MigrationAssumption DEF Fault
  <2>2. ASSUME Owned, faults' = 0, deaths' = 0, NEW u \in Tokens,
               journal'[u].status # "none", ~journal'[u].completed
        PROVE  Active(u)' \/ (ui'.at \in {"consent", "cancel"} /\ ui'.token = u)
    <3>1. CASE u = t
      BY <1>1, <1>2, <1>3, <2>2, <3>1 DEF Active
    <3>2. CASE u # t
      BY <1>2, <1>3, <2>1, <2>2, <3>2 DEF Owned, Active
    <3> QED
      BY <3>1, <3>2
  <2> QED
    BY <2>2 DEF Owned
<1>9. Alone => Alone'
  <2> SUFFICES ASSUME Alone, deaths' = 0
               PROVE  \A u, v \in Tokens \ late : Unfinished(u)' /\ Unfinished(v)' => u = v
    BY <1>2 DEF Alone
  <2>1. t \notin late /\ Unfinished(t)' => Unfinished(t)
    BY <1>1, <1>2, <1>3, <1>4 DEF Unfinished
  <2> QED
    BY <1>2, <1>3, <2>1 DEF Alone, Unfinished
<1> QED
  BY <1>5, <1>6, <1>7, <1>8, <1>9

\* A process that ends leaves its journal behind.
LEMMA DeathKeeps ==
  ASSUME TypeOK, Copied, NEW t \in Tokens, AdminDies(t)
  PROVE  TypeOK' /\ Copied' /\ deaths' # 0
<1>0. Types
  BY TypeParts
<1> DEFINE gone == [NoAdmin EXCEPT !.target = admin[t].target, !.changed = admin[t].changed]
<1>1. gone \in Admins /\ gone.at = "off" /\ admin' = [admin EXCEPT ![t] = gone]
  BY <1>0, AdminsAre DEF Types, AdminDies, Ends, NoAdmin
<1> HIDE DEF gone
<1>2. /\ \A u \in Tokens \ {t} : admin'[u] = admin[u]
      /\ admin'[t] = gone /\ admin' \in [Tokens -> Admins]
  BY <1>0, <1>1 DEF Types
<1>3. deaths' \in 0..MaxDeaths /\ deaths' # 0
  BY TypeParts, MigrationAssumption DEF AdminDies, Dies
<1>4. Copied'
  BY <1>1, <1>2 DEF Copied, Entry
<1>5. \A u \in Tokens : admin'[u].at # "off" \/ ui'.token = u => journal'[u].status # "none"
  BY <1>1, <1>2, TypeParts DEF AdminDies
<1>6. UNCHANGED <<system, journal, ui, faults, late>>
  BY DEF AdminDies
<1> QED
  BY <1>2, <1>3, <1>4, <1>5, <1>6, TypeParts DEF TypeOK, Types, SystemTypes, Admins, system

\* A migration is begun.
LEMMA BeginKeeps ==
  ASSUME TypeOK, Copied, NEW t \in Tokens, NEW target \in Targets, NEW opt \in BOOLEAN,
         Begin(t, target, opt)
  PROVE  /\ TypeOK' /\ Copied' /\ Named'
         /\ Control => Control'
         /\ Owned => Owned'
         /\ Listed /\ Alone => Alone'
<1>0. Types /\ SystemTypes
  BY TypeParts
<1> DEFINE a == [admin[t] EXCEPT !.target = target, !.opt = opt]
<1>1. admin' = [admin EXCEPT ![t] = a]
  BY <1>0 DEF Types, Begin
<1>2. a \in Admins /\ a.at = admin[t].at /\ a.copy = admin[t].copy /\ a.then = admin[t].then
  BY <1>0 DEF Types, Admins
<1> HIDE DEF a
<1>3. /\ \A u \in Tokens \ {t} : admin'[u] = admin[u] /\ journal'[u] = journal[u]
      /\ admin'[t] = a /\ admin' \in [Tokens -> Admins]
      /\ journal'[t] = Pending /\ journal' \in [Tokens -> Journals]
  BY <1>0, <1>1, <1>2, JournalsAre DEF Types, Begin
<1>4. journal[t].status = "none" /\ ui.at = "idle" /\ UNCHANGED <<system, faults, deaths, late>>
  BY DEF Begin
<1>5. ui' = [ui EXCEPT !.at = "consent", !.token = t]
  BY DEF Begin
<1>6. ui'.at = "consent" /\ ui'.token = t
  BY <1>5, TypeParts
<1>7. ~Active(t)
  BY <1>4, TypeParts DEF Active
<1>8. TypeOK'
  <2>1. \A u \in Tokens : admin'[u].at # "off" \/ ui'.token = u => journal'[u].status # "none"
    BY <1>2, <1>3, <1>6, TypeParts DEF Pending
  <2>2. ui' \in [at : {"closed", "recover", "idle", "consent", "wait", "cancel"},
                 token : Tokens \cup {"none"}, proved : SUBSET Tokens]
    BY <1>5, TypeParts
  <2> QED
    BY <1>0, <1>3, <1>4, <2>1, <2>2, TypeParts DEF TypeOK, Types, SystemTypes, Admins, system
<1>9. Copied' /\ Named'
  BY <1>2, <1>3, <1>6 DEF Copied, Entry, Named
<1>10. Control => Control'
  <2> SUFFICES ASSUME deaths' = 0, Handshake, \A u \in Tokens \ late : Journalled(u)
               PROVE  Handshake' /\ \A u \in Tokens \ late' : Journalled(u)'
    BY <1>4 DEF Control
  <2>1. Handshake'
    BY <1>2, <1>3, <1>6, <1>7 DEF Handshake, Active
  <2>2. ASSUME NEW u \in Tokens \ late' PROVE Journalled(u)'
    BY <1>2, <1>3, <1>4, <1>7 DEF Journalled, Active, Marking, Entry
  <2> QED
    BY <2>1, <2>2
<1>11. Owned => Owned'
  BY <1>2, <1>3, <1>4, <1>6 DEF Owned, Active
<1>12. Listed /\ Alone => Alone'
  BY <1>3, <1>4 DEF Listed, Begin, Alone, Incomplete, Unfinished
<1> QED
  BY <1>8, <1>9, <1>10, <1>11, <1>12

\* The elevated process is started.
LEMMA ConsentKeeps ==
  ASSUME TypeOK, Copied, Named, Consent
  PROVE  /\ TypeOK' /\ Copied' /\ Named'
         /\ Control => Control'
         /\ Owned => Owned'
         /\ Alone => Alone'
<1>0. Types /\ SystemTypes
  BY TypeParts
<1> DEFINE t == ui.token
           a == [admin[t] EXCEPT !.at = "load"]
<1>a. t \in Tokens
  BY DEF Named, Consent
<1>b. a \in Admins /\ a.at = "load"
  <2>1. admin[t] \in Admins /\ "load" \in Places
    BY <1>0, <1>a, PlacesAre DEF Types
  <2>2. a \in Admins
    BY <2>1, AdminsAre
  <2>3. a.at = "load"
    BY <2>1 DEF Admins
  <2> QED
    BY <2>2, <2>3
<1>c. admin' = [admin EXCEPT ![t] = a]
  BY <1>0, <1>a DEF Consent, Types
<1>1. t \in Tokens /\ a \in Admins /\ a.at = "load" /\ admin' = [admin EXCEPT ![t] = a]
  BY <1>a, <1>b, <1>c
<1>2. journal[t].status # "none"
  BY <1>1, TypeParts
<1> HIDE DEF a
<1>3. /\ \A u \in Tokens \ {t} : admin'[u] = admin[u]
      /\ admin'[t] = a /\ admin' \in [Tokens -> Admins]
  BY <1>0, <1>1 DEF Types
<1>4. ui' \in [at : {"closed", "recover", "idle", "consent", "wait", "cancel"},
               token : Tokens \cup {"none"}, proved : SUBSET Tokens]
  BY TypeParts DEF Consent
<1>5. ui'.at = "wait" /\ ui'.token = t /\ UNCHANGED <<system, journal, faults, deaths, late>>
  BY TypeParts DEF Consent
<1>6. TypeOK'
  <2>1. \A u \in Tokens : admin'[u].at # "off" \/ ui'.token = u => journal'[u].status # "none"
    BY <1>2, <1>3, <1>5, TypeParts
  <2> QED
    BY <1>0, <1>3, <1>4, <1>5, <2>1, TypeParts DEF TypeOK, Types, SystemTypes, Admins, system
<1>7. Copied' /\ Named'
  BY <1>1, <1>3, <1>5 DEF Copied, Entry, Named
<1>8. Control => Control'
  <2> SUFFICES ASSUME deaths' = 0, Handshake, \A u \in Tokens \ late : Journalled(u)
               PROVE  Handshake' /\ \A u \in Tokens \ late' : Journalled(u)'
    BY <1>5 DEF Control
  <2>1. journal[t] \in Unmarked
    BY DEF Handshake, Consent, Unmarked
  <2>2. Handshake'
    BY <1>1, <1>5 DEF Handshake
  <2>3. ASSUME NEW u \in Tokens \ late' PROVE Journalled(u)'
    BY <1>1, <1>3, <1>5, <2>1 DEF Journalled, Active, Marking, Entry
  <2> QED
    BY <2>2, <2>3
<1>9. Owned => Owned'
  BY <1>1, <1>3, <1>5 DEF Owned, Active
<1>10. Alone => Alone'
  BY <1>5 DEF Alone, Unfinished
<1> QED
  BY <1>6, <1>7, <1>8, <1>9, <1>10

\* The user's process goes on alone: it ends to wait, takes a migration back, closes a journal
\* after a restart, or ends itself.
LEMMA UserMoves ==
  ASSUME TypeOK, Named,
         Refuse \/ Done \/ GiveUp \/ NotStarted \/ Cancel \/ Recover \/ UiDies \/ UiStarts
  PROVE  /\ UNCHANGED <<system, admin>>
         /\ deaths' \in {deaths, deaths + 1} /\ (faults' = faults \/ Fault)
         /\ ui' \in [at : {"closed", "recover", "idle", "consent", "wait", "cancel"},
                     token : Tokens \cup {"none"}, proved : SUBSET Tokens]
         /\ ui'.token \in {"none", ui.token}
         /\ ui'.at \in {"cancel", "closed", "recover", "idle"}
         /\ ui'.at = "cancel" => NotStarted
         /\ ui'.at = "closed" => deaths' = deaths + 1
         /\ ui'.at = "recover" => ui.at \in {"closed", "recover"}
         /\ late \subseteq late' /\ late' \subseteq Tokens
         /\ \/ UNCHANGED journal
            \/ \E t \in Tokens, r \in {"success", "cancelled"} :
                 /\ journal' = [journal EXCEPT ![t] = Finished(r)]
                 /\ r = "cancelled" => /\ ui.at \in {"consent", "cancel"} /\ t = ui.token
                                      /\ \/ ui.at = "consent" \/ t \in late'
                                         \/ admin[t].at \in {"off", "load"}
                 /\ r = "success" => ui.at = "recover"
<1> USE DEF Idle
<1>1. CASE Refuse
  BY <1>1, TypeParts DEF Refuse, Cancelled, NoFault, Named
<1>2. CASE Done \/ GiveUp
  BY <1>2, TypeParts DEF Done, GiveUp
<1>3. CASE NotStarted
  BY <1>3, TypeParts DEF NotStarted
<1>4. CASE Cancel
  BY <1>4, TypeParts DEF Cancel, Cancelled, NoFault, Named
<1>5. CASE UiDies
  BY <1>5, TypeParts DEF UiDies, Dies
<1>6. CASE UiStarts
  BY <1>6, TypeParts DEF UiStarts
<1>7. CASE Recover
  BY <1>7, TypeParts DEF Recover, NoFault
<1> QED
  BY <1>1, <1>2, <1>3, <1>4, <1>5, <1>6, <1>7

\* Only a migration whose process has ended, or was never started, is taken back.
LEMMA UserKeeps ==
  ASSUME TypeOK, Copied, Named,
         Refuse \/ Done \/ GiveUp \/ NotStarted \/ Cancel \/ Recover \/ UiDies \/ UiStarts
  PROVE  /\ TypeOK' /\ Copied' /\ Named'
         /\ Control => Control'
         /\ Control /\ Owned => Owned'
         /\ Alone => Alone'
<1>0. Types /\ SystemTypes
  BY TypeParts
<1>1. /\ UNCHANGED <<system, admin>>
      /\ deaths' \in {deaths, deaths + 1} /\ (faults' = faults \/ Fault)
      /\ ui' \in [at : {"closed", "recover", "idle", "consent", "wait", "cancel"},
                  token : Tokens \cup {"none"}, proved : SUBSET Tokens]
      /\ ui'.token \in {"none", ui.token}
      /\ ui'.at \in {"cancel", "closed", "recover", "idle"}
      /\ ui'.at = "cancel" => NotStarted
      /\ ui'.at = "closed" => deaths' = deaths + 1
      /\ ui'.at = "recover" => ui.at \in {"closed", "recover"}
  BY UserMoves
<1>2. \/ UNCHANGED journal
      \/ \E t \in Tokens, r \in {"success", "cancelled"} :
           /\ journal' = [journal EXCEPT ![t] = Finished(r)]
           /\ r = "cancelled" => /\ ui.at \in {"consent", "cancel"} /\ t = ui.token
                                /\ \/ ui.at = "consent" \/ t \in late'
                                   \/ admin[t].at \in {"off", "load"}
           /\ r = "success" => ui.at = "recover"
  BY UserMoves
<1>a. late \subseteq late' /\ late' \subseteq Tokens
  BY UserMoves
<1>3. \A r \in {"success", "cancelled"} :
        Finished(r) \in Journals /\ Finished(r).completed /\ Finished(r).status = r
  BY JournalsAre DEF Finished
<1>4. \A u \in Tokens : \/ journal'[u] = journal[u]
                        \/ /\ journal'[u] \in Journals /\ journal'[u].completed
                           /\ journal'[u].status \in {"success", "cancelled"}
                           /\ \/ /\ ui.at \in {"consent", "cancel"} /\ u = ui.token
                                 /\ journal'[u] = Cancelled
                                 /\ \/ ui.at = "consent" \/ u \in late'
                                    \/ admin[u].at \in {"off", "load"}
                              \/ ui.at = "recover"
  BY <1>0, <1>2, <1>3 DEF Types, Cancelled
<1>5. journal' \in [Tokens -> Journals]
  BY <1>0, <1>2, <1>3 DEF Types
<1>6. (deaths' = 0 => deaths = 0) /\ (faults' = 0 => faults = 0) /\ deaths' \in Nat
  BY <1>1, TypeParts, MigrationAssumption DEF Fault
<1>7. deaths' \in 0..MaxDeaths
  <2>1. Refuse \/ Done \/ GiveUp \/ NotStarted \/ Cancel \/ Recover \/ UiStarts => deaths' = deaths
    BY DEF Refuse, Done, GiveUp, NotStarted, Cancel, Recover, UiStarts
  <2>2. UiDies => deaths < MaxDeaths /\ deaths' = deaths + 1
    BY DEF UiDies, Dies
  <2> QED
    BY <2>1, <2>2, TypeParts, MigrationAssumption
<1>8. TypeOK'
  <2>1. \A u \in Tokens : admin'[u].at # "off" \/ ui'.token = u => journal'[u].status # "none"
    BY <1>1, <1>4, TypeParts, MigrationAssumption
  <2>2. faults' \in 0..MaxFaults
    BY <1>1, FaultTyped, TypeParts
  <2> QED
    BY <1>0, <1>1, <1>a, <1>5, <1>7, <2>1, <2>2, TypeParts DEF TypeOK, Types, SystemTypes, Admins, system
<1>9. Copied' /\ Named'
  BY <1>1, TypeParts DEF Copied, Named, NotStarted
<1>10. Control => Control'
  <2> SUFFICES ASSUME deaths' = 0, Handshake, \A u \in Tokens \ late : Journalled(u)
               PROVE  Handshake' /\ \A u \in Tokens \ late' : Journalled(u)'
    BY <1>6 DEF Control
  <2>0. deaths' = deaths /\ deaths = 0 /\ ui.at \notin {"closed", "recover"}
    BY <1>6 DEF Handshake
  <2>1. Handshake'
    <3>1. ui'.at = "cancel" => ui'.token = ui.token /\ ui.token \in Tokens
      BY <1>1, TypeParts DEF NotStarted, Named
    <3> QED
      BY <1>1, <2>0, <3>1 DEF Handshake
  <2>2. ASSUME NEW u \in Tokens \ late' PROVE Journalled(u)'
    <3>1. u \notin late /\ admin' = admin
      BY <1>1, <1>a
    <3>2. CASE journal'[u] = journal[u]
      BY <3>1, <3>2 DEF Journalled, Active
    <3>3. CASE journal'[u] = Cancelled /\ admin[u].at \in {"off", "load"}
      BY <3>1, <3>3 DEF Journalled, Active, Marking, Entry, Unmarked
    <3>4. ui.at = "consent" /\ ui.token = u => admin[u].at = "off"
      BY <2>0 DEF Handshake, Active
    <3> QED
      BY <1>4, <2>0, <3>2, <3>3, <3>4
  <2> QED
    BY <2>1, <2>2
<1>11. Control /\ Owned => Owned'
  <2> SUFFICES ASSUME Control, Owned, faults' = 0, deaths' = 0, NEW u \in Tokens,
                      journal'[u].status # "none", ~journal'[u].completed
               PROVE  Active(u)' \/ (ui'.at \in {"consent", "cancel"} /\ ui'.token = u)
    BY DEF Owned
  <2>1. journal'[u] = journal[u] /\ faults = 0 /\ deaths = 0
    BY <1>4, <1>6
  <2>2. CASE Active(u)
    BY <1>1, <2>2 DEF Active
  <2>3. CASE ui.at \in {"consent", "cancel"} /\ ui.token = u
    <3>1. Refuse \/ Cancel
      BY <1>6, <2>1, <2>3, TypeParts DEF Done, GiveUp, NotStarted, Recover, UiDies, UiStarts, Dies
    <3>2. journal' = [journal EXCEPT ![u] = Cancelled]
      BY <2>1, <2>3, <3>1, TypeParts DEF Refuse, Cancel, Fault
    <3> QED
      BY <1>0, <1>3, <3>2 DEF Types, Cancelled
  <2> QED
    BY <2>1, <2>2, <2>3 DEF Owned
<1>12. Alone => Alone'
  BY <1>a, <1>4, <1>6 DEF Alone, Unfinished
<1> QED
  BY <1>8, <1>9, <1>10, <1>11, <1>12

\* The wheel is plugged in again.
LEMMA ReplugTyped ==
  ASSUME TypeOK, Replug
  PROVE  SystemTypes' /\ UNCHANGED <<store, pref, profiler, backup, journal, admin, ui, faults, deaths, late>>
BY TypeParts DEF Replug, Rescanned, SystemTypes

\* A process at work has a journal that is not finished.
LEMMA BusyUnfinished ==
  ASSUME NEW t, Journalled(t), Busy(t)
  PROVE  Unfinished(t)
BY JournalsAre DEF Journalled, Busy, Unfinished, Active, Marking, Working

-----------------------------------------------------------------------------
(* Journals and processes.                                                 *)

Core == TypeOK /\ Copied /\ Named /\ Control /\ Owned /\ (Listed => Alone)

\* The invariant holds at first.
LEMMA InitCore == Init => Core
<1> SUFFICES ASSUME Init PROVE Core
  OBVIOUS
<1>1. \A t \in Tokens : admin[t] = NoAdmin /\ journal[t] = NoJournal
  BY DEF Init
<1>2. NoAdmin \in Admins /\ NoAdmin.at = "off" /\ NoJournal \in Journals /\ NoJournal.status = "none"
  BY PlacesAre, JournalsAre DEF NoAdmin, NoJournal, Admins, Targets
<1>3. ui \in [at : {"closed", "recover", "idle", "consent", "wait", "cancel"},
              token : Tokens \cup {"none"}, proved : SUBSET Tokens]
  BY DEF Init, Idle
<1>4. ui.at = "idle" /\ ui.token = "none"
  BY DEF Init, Idle
<1>5. SystemTypes
  BY MigrationAssumption DEF Init, SystemTypes, Targets
<1>6. TypeOK
  <2>1. Types /\ late \subseteq Tokens
    BY <1>2 DEF Init, Types
  <2>2. faults \in 0..MaxFaults /\ deaths \in 0..MaxDeaths
    <3>1. faults = 0 /\ deaths = 0
      BY DEF Init
    <3>2. MaxFaults \in Nat /\ MaxDeaths \in Nat
      BY MigrationAssumption
    <3> QED
      BY <3>1, <3>2
  <2> QED
    BY <1>1, <1>2, <1>3, <1>4, <1>5, <2>1, <2>2, TypeParts, MigrationAssumption
<1>7. Copied /\ Named /\ Control
  BY <1>1, <1>2, <1>4 DEF Copied, Named, Control, Handshake, Journalled, Active, Marking, Entry
<1>8. Owned /\ Alone
  BY <1>1, <1>2 DEF Owned, Alone, Unfinished
<1> QED
  BY <1>6, <1>7, <1>8 DEF Core

\* Every step keeps it.
LEMMA CoreInvariance == Spec => []Core
<1>1. Core /\ [Next]_vars => Core'
  <2> SUFFICES ASSUME Core, [Next]_vars PROVE Core'
    OBVIOUS
  <2> USE DEF Core
  <2>1. ASSUME NEW t \in Tokens, AdminStep(t) PROVE Core'
    <3>1. CASE Operation(t)
      BY <3>1, OperationKeeps, OperationMoves, TypeParts DEF Named
    <3>2. CASE Load(t) \/ Mark(t) \/ Note(t) \/ Noted(t) \/ Complete(t)
      BY <3>2, JournalKeeps, JournalMoves DEF Named
    <3> QED
      BY <2>1, <3>1, <3>2 DEF AdminStep, Operation
  <2>2. ASSUME NEW t \in Tokens, AdminDies(t) PROVE Core'
    <3>1. TypeOK' /\ Copied' /\ deaths' # 0 /\ ui' = ui
      BY <2>2, DeathKeeps DEF AdminDies
    <3>2. Control' /\ Owned' /\ Alone' /\ Named'
      BY <3>1 DEF Control, Owned, Alone, Named
    <3> QED
      BY <3>1, <3>2
  <2>3. ASSUME NEW t \in Tokens, NEW target \in Targets, NEW opt \in BOOLEAN, Begin(t, target, opt)
        PROVE  Core'
    BY <2>3, BeginKeeps
  <2>4. CASE Consent
    BY <2>4, ConsentKeeps
  <2>5. CASE Refuse \/ Done \/ GiveUp \/ NotStarted \/ Cancel \/ Recover \/ UiDies \/ UiStarts
    BY <2>5, UserKeeps
  <2>6. CASE Replug
    <3>1. SystemTypes' /\ UNCHANGED <<journal, admin, ui, faults, deaths, late>>
      BY <2>6, ReplugTyped
    <3>2. TypeOK'
      BY <3>1, TypeParts DEF TypeOK, Types, SystemTypes, Admins
    <3> QED
      BY <3>1, <3>2 DEF Copied, Named, Control, Handshake, Journalled, Active, Owned, Alone, Unfinished
  <2>7. CASE UNCHANGED vars
    <3>1. UNCHANGED <<store, mode, pref, profiler, backup, journal, admin, ui, faults, deaths, late>>
      BY <2>7 DEF vars, system
    <3>2. TypeOK'
      BY <3>1 DEF TypeOK
    <3>4. Copied' /\ Named'
      BY <3>1 DEF Copied, Named
    <3>5. Owned'
      BY <3>1 DEF Owned, Active
    <3>6. Listed => Alone'
      BY <3>1 DEF Alone, Unfinished
    <3>3. Control'
      BY <3>1 DEF Control, Handshake, Journalled, Active
    <3> QED
      BY <3>2, <3>3, <3>4, <3>5, <3>6
  <2> QED
    BY <2>1, <2>2, <2>3, <2>4, <2>5, <2>6, <2>7 DEF Next, UiStep
<1> QED
  BY <1>1, InitCore, PTL DEF Spec

\* Journals, processes and system keep their types, whatever fails and whoever ends.
THEOREM TypeCorrect == Spec => []TypeOK
<1>1. Core => TypeOK
  BY DEF Core
<1> QED
  BY <1>1, CoreInvariance, PTL

\* When nothing fails and no process ends before it is done, the end of a migration is the
\* end of its journal: none stays behind and keeps the user from another migration.
THEOREM JournalsAreClosed == Spec => []JournalsEnd
<1>1. Core => JournalsEnd
  <2> SUFFICES ASSUME Core, ui.at = "idle", Fixed, faults = 0, deaths = 0, NEW t \in Tokens,
                      journal[t].status # "none", ~journal[t].completed
               PROVE  FALSE
    BY DEF JournalsEnd
  <2> QED
    BY DEF Core, Owned, Active, Fixed
<1> QED
  BY <1>1, CoreInvariance, PTL

\* An elevated process at work has an open journal, unless it was cancelled too late, and an
\* open journal keeps BeginMigration from another one, if it can list the journals.
THEOREM MigrationsAreAlone == Listed => (Spec => []OneAtATime)
<1> SUFFICES ASSUME Listed PROVE Spec => []OneAtATime
  OBVIOUS
<1>1. Core => OneAtATime
  <2> SUFFICES ASSUME Core, deaths = 0, NEW t \in Tokens \ late, NEW u \in Tokens \ late, Busy(t), Busy(u)
               PROVE  t = u
    BY DEF OneAtATime
  <2>1. Journalled(t) /\ Journalled(u) /\ Alone
    BY DEF Core, Control
  <2>2. Unfinished(t) /\ Unfinished(u)
    BY <2>1, BusyUnfinished
  <2> QED
    BY <2>1, <2>2 DEF Alone
<1> QED
  BY <1>1, CoreInvariance, PTL

-----------------------------------------------------------------------------
(* A change and its rollback.                                              *)

\* The operation that follows is the heading, and what was noted of the system stays.
Kept(t) ==
  /\ admin'[t].target = admin[t].target /\ admin'[t].mode0 = admin[t].mode0
  /\ admin'[t].pref0 = admin[t].pref0 /\ admin'[t].had = admin[t].had

\* An operation that writes an entry next.
LEMMA NotesHead ==
  ASSUME Types, NEW t \in Tokens, NEW p \in Working, Notes(t, p) \/ Changes(t, p)
  PROVE  Heading(t)' = p /\ Kept(t)
<1>1. admin'[t] \in {[admin[t] EXCEPT !.at = "note", !.then = p],
                     [admin[t] EXCEPT !.at = "note", !.then = p, !.changed = TRUE]}
  BY FieldsAre DEF Notes, Changes, Types
<1>2. admin'[t].at = "note" /\ admin'[t].then = p /\ Kept(t)
  BY <1>1, FieldsAre DEF Kept, Types
<1> QED
  BY <1>2 DEF Heading, Entry

\* A process at an operation heads for it.
LEMMA WorkingHead ==
  ASSUME NEW t \in Tokens, admin[t].at \in Working
  PROVE  Heading(t) = admin[t].at
BY DEF Heading, Entry, Working

\* Where there is nothing to keep.
Nowhere == {"off", "load", "mark", "check", "success", "failed", "abort"}

\* There, nothing is said of it.
LEMMA NowhereTracked ==
  ASSUME NEW t \in Tokens
  PROVE  /\ Heading(t) \in Nowhere => Forward(t) /\ Backward(t)
         /\ Heading(t)' \in Nowhere => Forward(t)' /\ Backward(t)'
BY DEF Nowhere, Forward, Backward, Before, Adding, Back

\* A process that has ended heads nowhere.
LEMMA IdleHead ==
  ASSUME NEW t \in Tokens
  PROVE  /\ ~Active(t) => Heading(t) = "off"
         /\ ~Active(t)' => Heading(t)' = "off"
BY DEF Active, Heading, Entry

\* A failure is the first one.
LEMMA FirstFault == TypeOK /\ Fault /\ faults' <= 1 => faults = 0 /\ faults' # 0
BY TypeParts, MigrationAssumption DEF Fault

\* Before the packages are touched.
LEMMA BeforeTracks ==
  ASSUME TypeOK, NEW t \in Tokens, admin[t].target = "modern", faults' <= 1,
         Forward(t), Backward(t),
         Check(t) \/ SaveProfiler(t) \/ Inventory(t) \/ Export(t) \/ Uninstall(t)
  PROVE  Forward(t)' /\ Backward(t)'
<1>0. Types /\ SystemTypes
  BY TypeParts
<1>1. CASE \E p \in {"failed"} : Notes(t, p) \/ Changes(t, p)
  BY <1>0, <1>1, NotesHead, NowhereTracked, PlacesAre DEF Nowhere
<1>2. CASE Check(t)
  <2>1. CASE mode # "none" /\ admin' = [admin EXCEPT ![t].at = "note", ![t].mode0 = mode, ![t].pref0 = pref,
                ![t].then = IF admin[t].target = "modern" THEN "saveprofiler" ELSE "inventory"]
    <3>1. Heading(t)' = "saveprofiler" /\ admin'[t].mode0 = mode /\ admin'[t].pref0 = pref
      BY <1>0, <2>1 DEF Heading, Entry, Types, Admins
    <3>2. mode' = mode /\ pref' = pref
      BY <1>2 DEF Check, system
    <3> QED
      BY <2>1, <3>1, <3>2 DEF Forward, Backward, AsFound, PrefAsFound, Before, Adding, Back
  <2> QED
    BY <1>1, <1>2, <2>1 DEF Check, Failed
<1>3. CASE SaveProfiler(t)
  <2>1. CASE Notes(t, "inventory")
    <3>1. Heading(t)' = "inventory" /\ Kept(t) /\ Heading(t) = "saveprofiler"
      BY <1>0, <1>3, <2>1, NotesHead, WorkingHead, PlacesAre DEF SaveProfiler, At
    <3>2. mode' = mode /\ pref' = pref
      BY <1>3 DEF SaveProfiler, system
    <3> QED
      BY <3>1, <3>2 DEF Forward, Backward, AsFound, PrefAsFound, Before, Adding, Back, Kept
  <2> QED
    BY <1>1, <1>3, <2>1 DEF SaveProfiler, Failed
<1>4. CASE Inventory(t)
  <2>1. CASE admin' = [admin EXCEPT ![t].at = "note", ![t].had = (store # "none"),
                                    ![t].then = NextStep(t, store # "none")]
    <3>1. /\ Heading(t)' = IF store # "none" THEN "export" ELSE "uninstall"
          /\ admin'[t].had = (store # "none") /\ Heading(t) = "inventory"
          /\ admin'[t].mode0 = admin[t].mode0 /\ admin'[t].pref0 = admin[t].pref0
      <4>1. /\ admin'[t].at = "note" /\ admin'[t].then = NextStep(t, store # "none")
            /\ admin'[t].had = (store # "none")
            /\ admin'[t].mode0 = admin[t].mode0 /\ admin'[t].pref0 = admin[t].pref0
        BY <1>0, <2>1 DEF Types, Admins
      <4>2. NextStep(t, store # "none") = IF store # "none" THEN "export" ELSE "uninstall"
        BY DEF NextStep
      <4>3. Heading(t) = "inventory"
        BY <1>4, WorkingHead, PlacesAre DEF Inventory, At
      <4>4. Heading(t)' = admin'[t].then
        BY <4>1 DEF Heading, Entry
      <4> QED
        BY <4>1, <4>2, <4>3, <4>4
    <3>2. mode' = mode /\ pref' = pref /\ store' = store
      BY <1>4 DEF Inventory, system
    <3> QED
      BY <3>1, <3>2 DEF Forward, Backward, AsFound, PrefAsFound, Before, Adding, Back
  <2> QED
    BY <1>1, <1>4, <2>1 DEF Inventory, Failed
<1>5. CASE Export(t)
  <2>1. CASE backup' = TRUE /\ Notes(t, "uninstall")
    <3>1. Heading(t)' = "uninstall" /\ Kept(t) /\ Heading(t) = "export"
      BY <1>0, <1>5, <2>1, NotesHead, WorkingHead, PlacesAre DEF Export, At
    <3>2. mode' = mode /\ pref' = pref /\ store' = store
      BY <1>5 DEF Export
    <3> QED
      BY <2>1, <3>1, <3>2 DEF Forward, Backward, AsFound, PrefAsFound, Before, Adding, Back, Kept
  <2> QED
    BY <1>1, <1>5, <2>1 DEF Export, Failed
<1>6. CASE Uninstall(t)
  <2>1. Heading(t) = "uninstall"
    BY <1>6, WorkingHead, PlacesAre DEF Uninstall, At
  <2>2. mode' = mode /\ pref' = pref /\ store' = store /\ backup' = backup
    BY <1>6 DEF Uninstall
  <2>3. CASE Heading(t)' = "remove" /\ Kept(t)
    BY <2>1, <2>2, <2>3 DEF Forward, Backward, AsFound, PrefAsFound, Before, Adding, Back, Kept
  <2>4. CASE Notes(t, "remove")
    BY <1>0, <2>3, <2>4, NotesHead, PlacesAre
  <2>5. CASE admin' = [admin EXCEPT ![t].at = "note", ![t].then = "remove", ![t].gone = TRUE,
                                    ![t].changed = TRUE]
    <3>1. admin'[t].at = "note" /\ admin'[t].then = "remove"
      BY <1>0, <2>5 DEF Types, Admins
    <3>2. Kept(t)
      <4>1. admin'[t] = [admin[t] EXCEPT !.at = "note", !.then = "remove", !.gone = TRUE, !.changed = TRUE]
        BY <1>0, <2>5, FieldsAre DEF Types
      <4> QED
        BY <1>0, <4>1, FieldsAre DEF Kept, Types
    <3> QED
      BY <2>3, <3>1, <3>2 DEF Heading, Entry
  <2> QED
    BY <1>1, <1>6, <2>4, <2>5 DEF Uninstall
<1> QED
  BY <1>2, <1>3, <1>4, <1>5, <1>6

\* The packages, the wheel and the stored mode change; the first failure turns back.
LEMMA ForwardTracks ==
  ASSUME TypeOK, NEW t \in Tokens, admin[t].target = "modern", faults' <= 1, deaths = 0, Whole,
         Forward(t), Backward(t),
         Remove(t) \/ Scan(t) \/ SavePref(t) \/ Verify(t)
  PROVE  Forward(t)' /\ Backward(t)'
<1>0. Types /\ SystemTypes
  BY TypeParts
<1> USE DEF Before, Adding, Back
<1>a. /\ \A p \in {"success", "failed"} : Notes(t, p) \/ Changes(t, p) => Forward(t)' /\ Backward(t)'
  BY <1>0, NotesHead, NowhereTracked, PlacesAre DEF Nowhere
<1>b. Fault => faults = 0 /\ faults' # 0 /\ (\/ store = "none" /\ mode \in {"modern", "none"}
                                             \/ store = "all" /\ mode = "legacy")
  BY FirstFault DEF Whole
<1>1. CASE Remove(t)
  <2>0. Heading(t) = "remove"
    BY <1>1, WorkingHead, PlacesAre DEF Remove, At
  <2>1. /\ AsFound(t) /\ PrefAsFound(t) /\ (admin[t].had <=> store # "none") /\ (admin[t].had => backup)
        /\ pref' = pref /\ backup' = backup
    BY <1>1, <2>0 DEF Forward, Remove
  <2>2. CASE ~admin[t].had /\ Notes(t, "scan") /\ NoFault /\ UNCHANGED <<store, mode>>
    <3>1. Heading(t)' = "scan" /\ Kept(t)
      BY <1>0, <2>2, NotesHead, PlacesAre
    <3> QED
      BY <2>1, <2>2, <3>1 DEF Forward, Backward, AsFound, PrefAsFound, Kept
  <2>3. CASE admin[t].had /\ admin[t].mode0 # "legacy" /\ Notes(t, "pref") /\ NoFault /\ UNCHANGED <<store, mode>>
    <3>1. Heading(t)' = "pref" /\ Kept(t)
      BY <1>0, <2>3, NotesHead, PlacesAre
    <3>2. mode = "modern"
      BY <1>0, <2>1, <2>3 DEF SystemTypes, AsFound
    <3>3. faults' # 0
      BY <2>1, <2>3, <3>2 DEF Whole, NoFault
    <3> QED
      BY <2>1, <2>3, <3>1, <3>2, <3>3 DEF Forward, Backward, AsFound, PrefAsFound, Kept
  <2>4. CASE /\ admin[t].had /\ admin[t].mode0 = "legacy"
             /\ store' = "none" /\ mode' = "none" /\ Changes(t, "scan")
    <3>1. Heading(t)' = "scan" /\ Kept(t)
      BY <1>0, <2>4, NotesHead, PlacesAre
    <3> QED
      BY <2>1, <2>4, <3>1 DEF Forward, Backward, AsFound, PrefAsFound, Kept
  <2>5. CASE admin[t].had /\ admin[t].mode0 = "legacy" /\ Fault /\ Changes(t, RollBack(TRUE))
    <3>1. Heading(t)' = "add" /\ Kept(t)
      BY <1>0, <2>5, NotesHead, PlacesAre DEF RollBack
    <3> QED
      BY <1>b, <2>1, <2>5, <3>1 DEF Forward, Backward, AsFound, PrefAsFound, Kept
  <2>6. CASE admin[t].had /\ BindingUnclear(t)
    <3>1. Heading(t)' = "backprofiler" /\ Kept(t) /\ Fault /\ UNCHANGED <<store, mode>>
      BY <1>0, <2>6, NotesHead, PlacesAre DEF RollBack, BindingUnclear, Failed
    <3> QED
      BY <1>b, <2>1, <2>6, <3>1 DEF Forward, Backward, AsFound, PrefAsFound, Kept
  <2> QED
    BY <1>1, <2>2, <2>3, <2>4, <2>5, <2>6 DEF Remove
<1>c. ASSUME Fault, Notes(t, RollBack(admin[t].had)), UNCHANGED <<store, mode, pref, backup>>,
             Heading(t) \in {"scan", "pref", "verify"}
      PROVE  Forward(t)' /\ Backward(t)'
  <2>1. CASE admin[t].had
    <3>1. Heading(t)' = "add" /\ Kept(t)
      BY <1>0, <1>c, <2>1, NotesHead, PlacesAre DEF RollBack
    <3> QED
      BY <1>b, <1>c, <2>1, <3>1 DEF Forward, Backward, AsFound, PrefAsFound, Kept
  <2>2. CASE ~admin[t].had
    <3>1. Heading(t)' = "backprofiler" /\ Kept(t)
      BY <1>0, <1>c, <2>2, NotesHead, PlacesAre DEF RollBack
    <3> QED
      BY <1>b, <1>c, <2>2, <3>1 DEF Forward, Backward, AsFound, PrefAsFound, Kept
  <2> QED
    BY <2>1, <2>2
<1>2. CASE Scan(t)
  <2>0. Heading(t) = "scan" /\ UNCHANGED <<store, pref, backup>>
    BY <1>2, WorkingHead, PlacesAre DEF Scan, At
  <2>1. CASE mode' \in Rescanned /\ Notes(t, "pref") /\ NoFault
    <3>1. Heading(t)' = "pref" /\ Kept(t)
      BY <1>0, <2>1, NotesHead, PlacesAre
    <3>2. IF admin[t].had THEN mode' = "modern" ELSE mode' = mode
      BY <2>0, <2>1 DEF Rescanned, Forward, AsFound
    <3> QED
      BY <2>0, <2>1, <3>1, <3>2 DEF Forward, Backward, AsFound, PrefAsFound, Kept, NoFault
  <2>2. CASE Failed(t, RollBack(admin[t].had)) /\ UNCHANGED mode
    BY <1>c, <2>0, <2>2 DEF Failed
  <2> QED
    BY <1>2, <2>1, <2>2 DEF Scan
<1>3. CASE SavePref(t)
  <2>0. Heading(t) = "pref" /\ UNCHANGED <<store, mode, backup>>
    BY <1>3, WorkingHead, PlacesAre DEF SavePref, At
  <2>1. CASE pref' = admin[t].target /\ Changes(t, "verify") /\ NoFault
    <3>1. Heading(t)' = "verify" /\ Kept(t)
      BY <1>0, <2>1, NotesHead, PlacesAre
    <3> QED
      BY <2>0, <2>1, <3>1 DEF Forward, Backward, AsFound, PrefAsFound, Kept, NoFault
  <2>2. CASE Failed(t, RollBack(admin[t].had)) /\ UNCHANGED pref
    BY <1>c, <2>0, <2>2 DEF Failed
  <2> QED
    BY <1>3, <2>1, <2>2 DEF SavePref
<1>4. CASE Verify(t)
  <2>0. Heading(t) = "verify" /\ UNCHANGED <<store, mode, pref, backup>>
    BY <1>4, WorkingHead, PlacesAre DEF Verify, At, system
  <2>1. CASE Notes(t, "success")
    BY <1>a, <2>1
  <2>2. CASE ~Reached(t) /\ Notes(t, RollBack(admin[t].had)) /\ NoFault
    <3>1. ~admin[t].had /\ mode # "modern" /\ AsFound(t) /\ store = "none"
      BY <2>0, <2>2 DEF Reached, Forward
    <3>2. Heading(t)' = "backprofiler" /\ Kept(t)
      BY <1>0, <2>2, <3>1, NotesHead, PlacesAre DEF RollBack
    <3>3. faults' # 0
      BY <2>2, <3>1 DEF Whole, NoFault, AsFound
    <3> QED
      BY <2>0, <3>1, <3>2, <3>3 DEF Forward, Backward, AsFound, PrefAsFound, Kept
  <2>3. CASE Failed(t, RollBack(admin[t].had))
    BY <1>c, <2>0, <2>3 DEF Failed
  <2> QED
    BY <1>4, <2>1, <2>2, <2>3 DEF Verify
<1> QED
  BY <1>1, <1>2, <1>3, <1>4

\* The drivers, the profiler and the stored mode come back.
LEMMA BackwardTracks ==
  ASSUME TypeOK, NEW t \in Tokens, admin[t].target = "modern", faults' <= 1,
         Forward(t), Backward(t),
         \/ Add(t) \/ Rescan(t) \/ Added(t) \/ BackProfiler(t) \/ BackPref(t) \/ BackVerify(t)
  PROVE  Forward(t)' /\ Backward(t)'
<1>0. Types /\ SystemTypes
  BY TypeParts
<1> USE DEF Before, Adding, Back
<1>a. Heading(t) = admin[t].at /\ admin[t].at \in Adding \cup Back
  BY WorkingHead, PlacesAre DEF Add, Rescan, Added, BackProfiler, BackPref, BackVerify, At
<1>b. faults # 0 /\ ~Fault
  BY <1>a, FirstFault DEF Backward
<1>c. faults' = faults
  BY <1>b DEF Add, Rescan, Added, BackProfiler, BackPref, BackVerify, Failed, NoFault
<1>1. CASE Add(t)
  <2>0. admin[t].had /\ backup /\ admin[t].mode0 = "legacy"
    BY <1>1, <1>a DEF Backward, Add, At
  <2>1. /\ store' = "all" /\ mode' = "legacy" /\ UNCHANGED <<pref, backup>>
        /\ admin' = [admin EXCEPT ![t].at = "rescan", ![t].changed = TRUE]
    BY <1>1, <1>b, <2>0 DEF Add, LatestBackup
  <2>2. admin'[t] = [admin[t] EXCEPT !.at = "rescan", !.changed = TRUE]
    BY <1>0, <2>1, FieldsAre DEF Types
  <2>3. admin'[t].at = "rescan" /\ Kept(t)
    BY <1>0, <2>2, FieldsAre DEF Types, Kept
  <2>4. Heading(t)' = "rescan"
    BY <2>3 DEF Heading, Entry
  <2> QED
    BY <1>b, <1>c, <2>0, <2>1, <2>3, <2>4 DEF Forward, Backward, AsFound, PrefAsFound, Kept
<1>2. CASE Rescan(t)
  <2>1. Goes(t, "added") /\ Heading(t) = "rescan" /\ UNCHANGED <<store, mode, pref, backup>>
    BY <1>2, <1>a, <1>b DEF Rescan, Failed, At, system
  <2>2. admin'[t] = [admin[t] EXCEPT !.at = "added"]
    BY <1>0, <2>1, FieldsAre DEF Types, Goes
  <2>3. admin'[t].at = "added" /\ Kept(t)
    BY <1>0, <2>2, FieldsAre DEF Types, Kept
  <2>4. Heading(t)' = "added"
    BY <2>3 DEF Heading, Entry
  <2> QED
    BY <1>b, <1>c, <2>1, <2>3, <2>4 DEF Forward, Backward, AsFound, PrefAsFound, Kept
<1>3. CASE Added(t)
  <2>1. Notes(t, "backprofiler") /\ Heading(t) = "added" /\ UNCHANGED <<store, mode, backup>>
    BY <1>3, <1>a, <1>b DEF Added, Failed, At, Restored
  <2>2. Heading(t)' = "backprofiler" /\ Kept(t)
    BY <1>0, <2>1, NotesHead, PlacesAre
  <2> QED
    BY <1>b, <1>c, <2>1, <2>2 DEF Forward, Backward, AsFound, PrefAsFound, Kept
<1>4. CASE BackProfiler(t)
  <2>1. Notes(t, "backpref") /\ Heading(t) = "backprofiler" /\ UNCHANGED <<store, mode, pref, backup>>
    BY <1>4, <1>a DEF BackProfiler, At
  <2>2. Heading(t)' = "backpref" /\ Kept(t)
    BY <1>0, <2>1, NotesHead, PlacesAre
  <2> QED
    BY <1>b, <1>c, <2>1, <2>2 DEF Forward, Backward, AsFound, PrefAsFound, Kept
<1>5. CASE BackPref(t)
  <2>1. /\ Notes(t, "backverify") /\ Heading(t) = "backpref" /\ UNCHANGED <<store, mode, backup>>
        /\ pref' = admin[t].pref0
    BY <1>5, <1>a, <1>b DEF BackPref, At, Failed, PrefBack
  <2>2. Heading(t)' = "backverify" /\ Kept(t)
    BY <1>0, <2>1, NotesHead, PlacesAre
  <2> QED
    BY <1>b, <1>c, <2>1, <2>2 DEF Forward, Backward, AsFound, PrefAsFound, Kept
<1>6. CASE BackVerify(t)
  BY <1>0, <1>6, NotesHead, NowhereTracked, PlacesAre DEF Nowhere, BackVerify
<1> QED
  BY <1>1, <1>2, <1>3, <1>4, <1>5, <1>6

\* Without a failure, packages and wheel go together.
LEMMA WholeKept ==
  ASSUME TypeOK, Whole, NEW t \in Tokens, Operation(t)
  PROVE  Whole'
<1>0. (faults' = faults \/ Fault) /\ deaths' = deaths
  BY OperationMoves, TypeParts
<1>1. faults' = 0 => faults = 0 /\ ~Fault
  BY <1>0, TypeParts, MigrationAssumption DEF Fault
<1> SUFFICES ASSUME faults' = 0, deaths' = 0, ~Fault,
                    \/ store = "none" /\ mode \in {"modern", "none"}
                    \/ store = "all" /\ mode = "legacy"
             PROVE  \/ store' = "none" /\ mode' \in {"modern", "none"}
                    \/ store' = "all" /\ mode' = "legacy"
  BY <1>0, <1>1 DEF Whole
<1>2. CASE UNCHANGED <<store, mode>>
  BY <1>2
<1>3. CASE Remove(t) \/ Scan(t) \/ Add(t) \/ Lgs(t)
  BY <1>3 DEF Remove, BindingUnclear, Failed, Scan, Rescanned, Add, Lgs
<1> QED
  BY <1>2, <1>3 DEF Operation, Check, SaveProfiler, Inventory, Export, Uninstall, SavePref, Verify, Rescan,
     Added, LegacyProfiler, BackProfiler, BackPref, BackVerify, system

\* The two ways of a process, by its target.
PathsOf(t) ==
  /\ admin[t].target = "modern" => Heading(t) \notin {"lgs", "profiler"}
  /\ admin[t].target = "legacy" =>
       Heading(t) \notin {"saveprofiler", "uninstall", "remove", "scan", "backprofiler", "backpref",
                          "backverify"}

\* An operation stays on the way of its target.
LEMMA OperationPaths ==
  ASSUME TypeOK, NEW t \in Tokens, Operation(t), PathsOf(t)
  PROVE  PathsOf(t)'
<1>0. Types /\ admin[t].target \in Targets
  BY TypeParts DEF Types, Admins
<1>1. Heading(t) = admin[t].at /\ admin[t].at \in Working
  BY OperationMoves, WorkingHead, TypeParts
<1> DEFINE modern == {"saveprofiler", "inventory", "export", "uninstall", "remove", "scan", "pref", "verify",
                      "add", "rescan", "added", "backprofiler", "backpref", "backverify", "success", "failed"}
           legacy == {"inventory", "export", "add", "rescan", "added", "lgs", "profiler", "pref", "verify",
                      "success", "failed"}
           May(p) == IF admin[t].target = "modern" THEN p \in modern ELSE p \in legacy
<1>2. ASSUME NEW p \in Working, Notes(t, p) \/ Changes(t, p), May(p) PROVE PathsOf(t)'
  BY <1>0, <1>2, NotesHead DEF PathsOf, Kept, Targets
<1>3. ASSUME NEW p \in Working, May(p), admin'[t].at = "note", admin'[t].then = p,
             admin'[t].target = admin[t].target
      PROVE  PathsOf(t)'
  BY <1>0, <1>3 DEF PathsOf, Heading, Entry, Targets
<1>4. CASE Check(t)
  <2>1. CASE admin' = [admin EXCEPT ![t].at = "note", ![t].mode0 = mode, ![t].pref0 = pref,
                ![t].then = IF admin[t].target = "modern" THEN "saveprofiler" ELSE "inventory"]
    <3>1. /\ admin'[t].at = "note" /\ admin'[t].target = admin[t].target
          /\ admin'[t].then = IF admin[t].target = "modern" THEN "saveprofiler" ELSE "inventory"
      BY <1>0, <2>1 DEF Types, Admins
    <3> QED
      BY <1>3, <3>1, PlacesAre
  <2> QED
    BY <1>2, <1>4, <2>1, PlacesAre DEF Check, Failed
<1>5. CASE Inventory(t)
  <2>1. CASE \E h \in BOOLEAN : admin' = [admin EXCEPT ![t].at = "note", ![t].had = h, ![t].then = NextStep(t, h)]
    <3>1. PICK h \in BOOLEAN : admin' = [admin EXCEPT ![t].at = "note", ![t].had = h, ![t].then = NextStep(t, h)]
      BY <2>1
    <3>2. admin'[t].at = "note" /\ admin'[t].target = admin[t].target /\ admin'[t].then = NextStep(t, h)
      BY <1>0, <3>1 DEF Types, Admins
    <3>3. NextStep(t, h) \in Working /\ May(NextStep(t, h))
      BY PlacesAre DEF NextStep
    <3> HIDE DEF May
    <3> QED
      BY <1>3, <3>2, <3>3
  <2> QED
    BY <1>2, <1>5, <2>1, PlacesAre DEF Inventory, Failed
<1>6. CASE Uninstall(t)
  <2>0. admin[t].target = "modern"
    BY <1>0, <1>1, <1>6 DEF Uninstall, At, PathsOf, Targets
  <2>1. CASE admin' = [admin EXCEPT ![t].at = "note", ![t].then = "remove", ![t].gone = TRUE,
                                    ![t].changed = TRUE]
    <3>1. admin'[t] = [admin[t] EXCEPT !.at = "note", !.then = "remove", !.gone = TRUE, !.changed = TRUE]
      BY <1>0, <2>1, FieldsAre DEF Types
    <3>2. admin'[t].at = "note" /\ admin'[t].target = admin[t].target /\ admin'[t].then = "remove"
      BY <1>0, <3>1, FieldsAre DEF Types
    <3> QED
      BY <1>3, <2>0, <3>2, PlacesAre
  <2> QED
    BY <1>2, <1>6, <2>0, <2>1, PlacesAre DEF Uninstall
<1>7. CASE SaveProfiler(t) \/ Remove(t) \/ Scan(t) \/ BackProfiler(t) \/ BackPref(t) \/ BackVerify(t)
  <2>0. admin[t].target = "modern"
    BY <1>0, <1>1, <1>7 DEF SaveProfiler, Remove, Scan, BackProfiler, BackPref, BackVerify, At, PathsOf, Targets
  <2>1. \E p \in {"inventory", "failed", "scan", "pref", "add", "backprofiler", "backpref", "backverify"} :
          Notes(t, p) \/ Changes(t, p)
    BY <1>7 DEF SaveProfiler, Remove, BindingUnclear, RollBack, Scan, BackProfiler, BackPref, BackVerify, Failed
  <2> QED
    BY <1>2, <2>0, <2>1, PlacesAre
<1>8. CASE Export(t) \/ SavePref(t) \/ Verify(t) \/ Added(t)
  <2>1. \E p \in {"failed", "verify", "success", "profiler", "uninstall", "add", "backprofiler", "lgs"} :
          (Notes(t, p) \/ Changes(t, p)) /\ May(p)
    BY <1>8 DEF Export, SavePref, Verify, Added, RollBack, Restored, NotRestored, Failed
  <2> HIDE DEF May
  <2> QED
    BY <1>2, <2>1, PlacesAre
<1>9. CASE Lgs(t)
  <2>0. admin[t].target = "legacy"
    BY <1>0, <1>1, <1>9 DEF Lgs, At, PathsOf, Targets
  <2> QED
    BY <1>2, <1>9, <2>0, PlacesAre DEF Lgs
<1>10. CASE LegacyProfiler(t)
  <2>1. admin' = [admin EXCEPT ![t].at = "note", ![t].then = "pref",
                               ![t].changed = (admin[t].changed \/ profiler' # profiler)]
    BY <1>0, <1>10 DEF LegacyProfiler, Types, Admins
  <2>2. admin'[t].at = "note" /\ admin'[t].target = admin[t].target /\ admin'[t].then = "pref"
    BY <1>0, <2>1 DEF Types, Admins
  <2> QED
    BY <1>3, <2>2, PlacesAre
<1>11. CASE Add(t) \/ Rescan(t)
  <2>1. CASE \E p \in {"failed", "lgs", "backprofiler"} : (Notes(t, p) \/ Changes(t, p)) /\ May(p)
    <3> HIDE DEF May
    <3> QED
      BY <1>2, <2>1, PlacesAre
  <2>2. CASE \E p \in {"rescan", "added"} :
               \/ admin' = [admin EXCEPT ![t].at = p, ![t].changed = TRUE]
               \/ admin' = [admin EXCEPT ![t].at = p]
    <3>1. PICK p \in {"rescan", "added"} :
               \/ admin'[t] = [admin[t] EXCEPT !.at = p, !.changed = TRUE]
               \/ admin'[t] = [admin[t] EXCEPT !.at = p]
      BY <1>0, <2>2, FieldsAre DEF Types
    <3>2. admin'[t].at = p
      BY <1>0, <3>1, FieldsAre DEF Types
    <3> QED
      BY <3>2 DEF PathsOf, Heading, Entry
  <2> QED
    BY <1>11, <2>1, <2>2 DEF Add, Rescan, NotRestored, Failed, Goes
<1> QED
  BY <1>4, <1>5, <1>6, <1>7, <1>8, <1>9, <1>10, <1>11 DEF Operation

\* A journal entry does not change the way, nor what is kept.
LEMMA EntryHeads ==
  ASSUME TypeOK, NEW t \in Tokens, Load(t) \/ Mark(t) \/ Note(t) \/ Noted(t) \/ Complete(t) \/ AdminDies(t)
  PROVE  Heading(t)' \in Nowhere \/ (Kept(t) /\ Heading(t)' = Heading(t))
<1>0. Types /\ admin[t] \in Admins
  BY TypeParts DEF Types
<1>1. ASSUME Ends(t) PROVE Heading(t)' = "off"
  BY <1>0, <1>1 DEF Ends, Types, NoAdmin, Heading, Entry
<1>2. ASSUME NEW p \in Places \ Entry, admin'[t].at = p PROVE Heading(t)' = p
  BY <1>2 DEF Heading
<1>3. CASE Load(t)
  <2>1. CASE admin' = [admin EXCEPT ![t].at = "mark", ![t].copy = journal[t]]
    <3>1. admin'[t].at = "mark"
      BY <1>0, <2>1, FieldsAre DEF Types
    <3> QED
      BY <3>1 DEF Heading, Entry, Nowhere
  <2> QED
    BY <1>1, <1>3, <2>1 DEF Load, Nowhere
<1>4. CASE Mark(t)
  <2>1. CASE admin' = [admin EXCEPT ![t].at = "check", ![t].copy = NoJournal]
    <3>1. admin'[t].at = "check"
      BY <1>0, <2>1, FieldsAre DEF Types
    <3> QED
      BY <3>1 DEF Heading, Entry, Nowhere
  <2> QED
    BY <1>1, <1>4, <2>1 DEF Mark, Nowhere
<1>5. ASSUME Goes(t, "abort") PROVE Heading(t)' = "abort"
  <2>1. admin'[t].at = "abort"
    BY <1>0, <1>5, FieldsAre DEF Goes, Types
  <2> QED
    BY <2>1 DEF Heading, Entry
<1>6. CASE Note(t)
  <2>1. CASE admin' = [admin EXCEPT ![t].at = "noted", ![t].copy = journal[t]]
    <3>1. admin'[t] = [admin[t] EXCEPT !.at = "noted", !.copy = journal[t]]
      BY <1>0, <2>1, FieldsAre DEF Types
    <3>2. admin'[t].at = "noted" /\ admin'[t].then = admin[t].then /\ Kept(t)
      BY <1>0, <3>1, FieldsAre DEF Kept
    <3> QED
      BY <1>6, <3>2 DEF Note, At, Heading, Entry
  <2> QED
    BY <1>5, <1>6, <2>1 DEF Note, Nowhere
<1>7. CASE Noted(t)
  <2>1. CASE admin' = [admin EXCEPT ![t].at = admin[t].then, ![t].then = "off", ![t].copy = NoJournal]
    <3>1. admin'[t] = [admin[t] EXCEPT !.at = admin[t].then, !.then = "off", !.copy = NoJournal]
      BY <1>0, <2>1, FieldsAre DEF Types
    <3>2. admin'[t].at = admin[t].then /\ Kept(t)
      BY <1>0, <3>1, FieldsAre DEF Kept
    <3>3. admin[t].then \notin Entry
      BY <1>0 DEF Admins, Working, Entry
    <3> QED
      BY <1>7, <3>2, <3>3 DEF Noted, At, Heading, Entry
  <2> QED
    BY <1>5, <1>7, <2>1 DEF Noted, Nowhere
<1>8. CASE Complete(t) \/ AdminDies(t)
  BY <1>1, <1>8 DEF Complete, AdminDies, Nowhere
<1> QED
  BY <1>3, <1>4, <1>6, <1>7, <1>8

\* At first nothing has been done.
LEMMA InitRest ==
  Init => Paths /\ Tracked /\ (Bound => Whole)
<1> SUFFICES ASSUME Init PROVE Paths /\ Tracked /\ (Bound => Whole)
  OBVIOUS
<1>1. \A t \in Tokens : admin[t] = NoAdmin
  BY DEF Init
<1>2. \A t \in Tokens : Heading(t) = "off"
  <2>1. NoAdmin.at = "off"
    BY DEF NoAdmin
  <2> QED
    BY <1>1, <2>1 DEF Heading, Entry
<1>3. Paths
  BY <1>2 DEF Paths
<1>4. Tracked
  BY <1>2, NowhereTracked DEF Tracked, Nowhere
<1>5. Bound => Whole
  BY DEF Init, Whole, Bound
<1> QED
  BY <1>3, <1>4, <1>5

\* The ways, process by process.
LEMMA PathsAre == Paths <=> \A t \in Tokens : PathsOf(t)
BY DEF Paths, PathsOf

\* The steps of the user's process, and of Windows, that leave all elevated processes where
\* they are.
LEMMA OthersStay ==
  ASSUME TypeOK, Named,
         UNCHANGED vars \/ Refuse \/ Done \/ GiveUp \/ NotStarted \/ Cancel \/ Recover \/ UiDies \/ UiStarts
  PROVE  /\ UNCHANGED <<system, admin>> /\ (faults' = faults \/ Fault) /\ (deaths' = 0 => deaths = 0)
         /\ late \subseteq late' /\ \A t \in Tokens : journal[t].completed => journal'[t].completed
<1>1. CASE UNCHANGED vars
  BY <1>1 DEF vars
<1>2. CASE Refuse \/ Done \/ GiveUp \/ NotStarted \/ Cancel \/ Recover \/ UiDies \/ UiStarts
  BY <1>2, UserMoves, TypeParts DEF Finished, Types
<1> QED
  BY <1>1, <1>2

\* An elevated process that has not begun, or has ended, is nowhere.
LEMMA BegunHeads ==
  ASSUME TypeOK, Named, Consent \/ \E t \in Tokens, target \in Targets, opt \in BOOLEAN : Begin(t, target, opt)
  PROVE  /\ UNCHANGED <<system, faults, deaths, late>>
         /\ \A u \in Tokens :
              Heading(u)' \in Nowhere \/ (admin'[u] = admin[u] /\ journal'[u] = journal[u])
<1>0. Types
  BY TypeParts
<1>1. CASE Consent
  <2>1. ui.token \in Tokens
    BY <1>1 DEF Named, Consent
  <2>2. admin'[ui.token] = [admin[ui.token] EXCEPT !.at = "load"]
    BY <1>0, <1>1, <2>1 DEF Consent, Types
  <2>3. admin'[ui.token].at = "load"
    BY <1>0, <2>1, <2>2, FieldsAre DEF Types
  <2>5. \A u \in Tokens : (u # ui.token => admin'[u] = admin[u]) /\ journal'[u] = journal[u]
    BY <1>0, <1>1 DEF Consent, Types
  <2>7. \A u \in Tokens : u = ui.token => Heading(u)' = "load"
    BY <2>3 DEF Heading, Entry
  <2> QED
    BY <1>1, <2>5, <2>7 DEF Consent, Nowhere
<1>2. ASSUME NEW t \in Tokens, NEW target \in Targets, NEW opt \in BOOLEAN, Begin(t, target, opt)
      PROVE  /\ UNCHANGED <<system, faults, deaths, late>>
             /\ \A u \in Tokens :
                  Heading(u)' \in Nowhere \/ (admin'[u] = admin[u] /\ journal'[u] = journal[u])
  <2>1. admin[t].at = "off"
    BY <1>2, TypeParts DEF Begin
  <2>2. admin'[t] = [admin[t] EXCEPT !.target = target, !.opt = opt]
    BY <1>0, <1>2, FieldsAre DEF Begin, Types
  <2>3. admin'[t].at = "off"
    BY <1>0, <2>1, <2>2, FieldsAre DEF Types
  <2>4. Heading(t)' = "off"
    BY <2>3 DEF Heading, Entry
  <2>5. \A u \in Tokens : u # t => admin'[u] = admin[u] /\ journal'[u] = journal[u]
    BY <1>0, <1>2 DEF Begin, Types
  <2>6. \A u \in Tokens :
          Heading(u)' \in Nowhere \/ (admin'[u] = admin[u] /\ journal'[u] = journal[u])
    <3> TAKE u \in Tokens
    <3>1. CASE u = t
      BY <2>4, <3>1 DEF Nowhere
    <3> QED
      BY <2>5, <3>1
  <2> QED
    BY <1>2, <2>6 DEF Begin
<1> QED
  BY <1>1, <1>2

\* A process with an open journal is alone with it.
LEMMA OthersIdle ==
  ASSUME TypeOK, Alone, deaths = 0, late = {}, NEW t \in Tokens, Unfinished(t),
         NEW u \in Tokens, u # t, ~journal[u].completed
  PROVE  Heading(u) = "off"
<1>1. Active(u) => Unfinished(u)
  BY TypeParts DEF Unfinished, Active
<1> QED
  BY <1>1, IdleHead DEF Alone

\* No step leaves the way of a target.
LEMMA PathsKept ==
  ASSUME Core, Paths, [Next]_vars
  PROVE  Paths'
<1>0. TypeOK /\ Named /\ Types /\ \A t \in Tokens : PathsOf(t)
  BY TypeParts, PathsAre DEF Core
<1>1. ASSUME NEW t \in Tokens, \A u \in Tokens \ {t} : admin'[u] = admin[u], PathsOf(t)' PROVE Paths'
  <2>1. ASSUME NEW u \in Tokens PROVE PathsOf(u)'
    BY <1>0, <1>1 DEF PathsOf, Heading
  <2> QED
    BY <2>1 DEF Paths, PathsOf
<1>2. \A t \in Tokens : Heading(t)' \in Nowhere => PathsOf(t)'
  BY DEF PathsOf, Nowhere
<1>3. ASSUME NEW t \in Tokens, Operation(t) PROVE Paths'
  <2>1. \A u \in Tokens \ {t} : admin'[u] = admin[u]
    BY <1>0, <1>3, OperationMoves, TypeParts DEF Types
  <2> QED
    BY <1>0, <1>1, <1>3, <2>1, OperationPaths
<1>4. ASSUME NEW t \in Tokens,
             Load(t) \/ Mark(t) \/ Note(t) \/ Noted(t) \/ Complete(t) \/ AdminDies(t) PROVE Paths'
  <2>1. \A u \in Tokens \ {t} : admin'[u] = admin[u]
    BY <1>0, <1>4 DEF Types, Load, Mark, Note, Noted, Complete, AdminDies, Ends, Goes
  <2>2. PathsOf(t)'
    BY <1>0, <1>2, <1>4, EntryHeads DEF PathsOf, Kept
  <2> QED
    BY <1>1, <2>1, <2>2
<1>5. CASE \A u \in Tokens : Heading(u)' \in Nowhere \/ admin'[u] = admin[u]
  <2>1. ASSUME NEW u \in Tokens PROVE PathsOf(u)'
    BY <1>0, <1>2, <1>5 DEF PathsOf, Heading
  <2> QED
    BY <2>1 DEF Paths, PathsOf
<1>6. CASE Consent \/ \E t \in Tokens, target \in Targets, opt \in BOOLEAN : Begin(t, target, opt)
  BY <1>0, <1>5, <1>6, BegunHeads
<1>7. CASE UNCHANGED vars \/ Refuse \/ Done \/ GiveUp \/ NotStarted \/ Cancel \/ Recover \/ UiDies \/ UiStarts
  BY <1>0, <1>5, <1>7, OthersStay
<1>8. CASE Replug
  BY <1>0, <1>5, <1>8, ReplugTyped
<1> QED
  BY <1>3, <1>4, <1>6, <1>7, <1>8 DEF Next, UiStep, AdminStep, Operation

\* No step without a failure parts packages and wheel.
LEMMA WholeIsKept ==
  ASSUME Core, Whole, [Next]_vars
  PROVE  Whole'
<1>0. TypeOK /\ Named
  BY DEF Core
<1>1. ASSUME NEW t \in Tokens, Operation(t) PROVE Whole'
  BY <1>0, <1>1, WholeKept
<1>2. CASE UNCHANGED <<store, mode>> /\ (faults' = faults \/ Fault) /\ (deaths' = 0 => deaths = 0)
  <2>1. faults' = 0 => faults = 0
    BY <1>0, <1>2, TypeParts, MigrationAssumption DEF Fault
  <2> QED
    BY <1>2, <2>1 DEF Whole
<1>3. ASSUME NEW t \in Tokens, Load(t) \/ Mark(t) \/ Note(t) \/ Noted(t) \/ Complete(t) PROVE Whole'
  BY <1>0, <1>2, <1>3, JournalMoves DEF Core, system
<1>4. ASSUME NEW t \in Tokens, AdminDies(t) PROVE Whole'
  BY <1>4, <1>0, DeathKeeps DEF Core, Whole
<1>5. CASE Consent \/ \E t \in Tokens, target \in Targets, opt \in BOOLEAN : Begin(t, target, opt)
  BY <1>0, <1>2, <1>5, BegunHeads DEF system
<1>6. CASE UNCHANGED vars \/ Refuse \/ Done \/ GiveUp \/ NotStarted \/ Cancel \/ Recover \/ UiDies \/ UiStarts
  BY <1>0, <1>2, <1>6, OthersStay DEF system
<1>7. CASE Replug
  <2>1. UNCHANGED <<store, faults, deaths>>
    BY <1>7 DEF Replug
  <2> QED
    BY <1>7, <2>1 DEF Replug, Rescanned, Whole
<1> QED
  BY <1>1, <1>3, <1>4, <1>5, <1>6, <1>7 DEF Next, UiStep, AdminStep, Operation

\* No step leaves the track of a change and its rollback.
LEMMA TrackedKept ==
  ASSUME Core, Alone, Paths, Whole, Tracked, [Next]_vars
  PROVE  Tracked'
<1> SUFFICES ASSUME faults' <= 1, deaths' = 0, late' = {}, NEW u \in Tokens,
                    admin'[u].target = "modern", ~journal'[u].completed
             PROVE  Forward(u)' /\ Backward(u)'
  BY DEF Tracked
<1>0. TypeOK /\ Named /\ Types /\ Control /\ Copied
  BY TypeParts DEF Core
<1>1. Heading(u)' \in Nowhere => Forward(u)' /\ Backward(u)'
  BY NowhereTracked
<1>2. CASE /\ UNCHANGED <<system>> /\ (faults' = faults \/ Fault) /\ (deaths' = 0 => deaths = 0)
           /\ late \subseteq late'
           /\ \/ Heading(u)' \in Nowhere
              \/ Kept(u) /\ Heading(u)' = Heading(u) /\ ~journal[u].completed
  <2>1. faults <= 1 /\ deaths = 0 /\ (faults' = 0 => faults = 0) /\ (faults # 0 => faults' # 0)
    BY <1>0, <1>2, TypeParts, MigrationAssumption DEF Fault
  <2>2. CASE Kept(u) /\ Heading(u)' = Heading(u)
    <3>1. CASE Heading(u)' \in Nowhere
      BY <1>1, <3>1
    <3>2. CASE ~journal[u].completed
      <4>1. Forward(u) /\ Backward(u)
        BY <1>2, <2>1, <2>2, <3>2 DEF Tracked, Kept
      <4> QED
        BY <1>2, <2>1, <2>2, <4>1 DEF Forward, Backward, AsFound, PrefAsFound, Kept, system
    <3> QED
      BY <1>2, <3>1, <3>2
  <2> QED
    BY <1>1, <1>2, <2>2
<1>3. admin'[u] = admin[u] => Kept(u) /\ Heading(u)' = Heading(u)
  BY DEF Kept, Heading
<1>4. ASSUME NEW t \in Tokens, Operation(t) PROVE Forward(u)' /\ Backward(u)'
  <2>1. /\ admin[t].at \in Working \ Ending /\ deaths = 0 /\ (faults' = faults \/ Fault)
        /\ admin'[t].target = admin[t].target
        /\ \A v \in Tokens \ {t} : admin'[v] = admin[v]
        /\ UNCHANGED <<journal, late>> /\ late = {}
    BY <1>0, <1>4, OperationMoves, TypeParts DEF Types
  <2>2. Active(t) /\ Journalled(t)
    BY <1>0, <2>1, PlacesAre DEF Active, Control
  <2>3. CASE journal[t] = Running
    <3>1. Unfinished(t)
      BY <2>3, JournalsAre DEF Unfinished
    <3>2. CASE u # t
      <4>1. Heading(u) = "off"
        BY <1>0, <2>1, <3>1, <3>2, OthersIdle
      <4>2. Heading(u)' = "off"
        BY <2>1, <3>2, <4>1 DEF Heading
      <4> QED
        BY <1>1, <4>2 DEF Nowhere
    <3>3. CASE u = t
      <4>1. faults <= 1
        BY <1>0, <2>1, TypeParts, MigrationAssumption DEF Fault
      <4>2. admin[t].target = "modern" /\ Forward(t) /\ Backward(t)
        BY <2>1, <3>3, <4>1 DEF Tracked
      <4>3. ~Lgs(t) /\ ~LegacyProfiler(t)
        BY <2>1, <4>2, WorkingHead, PlacesAre DEF Lgs, LegacyProfiler, At, Paths
      <4> QED
        BY <1>0, <1>4, <2>1, <3>3, <4>2, <4>3, BeforeTracks, ForwardTracks, BackwardTracks DEF Operation
    <3> QED
      BY <3>2, <3>3
  <2>4. CASE journal[t] = Overwritten /\ admin[t].at = "check"
    <3>1. u # t
      BY <2>1, <2>4, JournalsAre
    <3>2. UNCHANGED system
      BY <1>4, <2>4 DEF Operation, At, Check, SaveProfiler, Inventory, Export, Uninstall, Remove, Scan,
         SavePref, Verify, Add, Rescan, Added, Lgs, LegacyProfiler, BackProfiler, BackPref, BackVerify
    <3> QED
      BY <1>2, <1>3, <2>1, <3>1, <3>2
  <2> QED
    BY <2>1, <2>2, <2>3, <2>4, PlacesAre DEF Journalled, Marking, Working, Ending
<1>5. ASSUME NEW t \in Tokens, Load(t) \/ Mark(t) \/ Note(t) \/ Noted(t) \/ Complete(t)
      PROVE  Forward(u)' /\ Backward(u)'
  <2>1. UNCHANGED <<system, late>> /\ (faults' = faults \/ Fault) /\ deaths' = deaths
    BY <1>0, <1>5, JournalMoves
  <2>2. u # t => admin'[u] = admin[u] /\ journal'[u] = journal[u]
    BY <1>0, <1>5 DEF Types, Load, Mark, Note, Noted, Complete, Ends, Goes
  <2>3. u = t => Heading(u)' \in Nowhere \/ (Kept(u) /\ Heading(u)' = Heading(u))
    BY <1>0, <1>5, EntryHeads
  <2>4. u = t => ~journal[u].completed
    <3>1. deaths = 0 /\ late = {}
      BY <2>1
    <3>2. PICK j \in Journals : /\ journal' = [journal EXCEPT ![t] = j]
                                /\ journal[t].completed => j.completed
      BY <1>0, <1>5, <3>1, JournalMoves
    <3> QED
      BY <1>0, <3>2 DEF Types
  <2> QED
    BY <1>2, <1>3, <2>1, <2>2, <2>3, <2>4
<1>6. ASSUME NEW t \in Tokens, AdminDies(t) PROVE FALSE
  BY <1>0, <1>6, DeathKeeps
<1>7. CASE Consent \/ \E t \in Tokens, target \in Targets, opt \in BOOLEAN : Begin(t, target, opt)
  <2>1. Heading(u)' \in Nowhere \/ (admin'[u] = admin[u] /\ journal'[u] = journal[u])
    BY <1>0, <1>7, BegunHeads
  <2> QED
    BY <1>0, <1>2, <1>3, <1>7, <2>1, BegunHeads
<1>8. CASE UNCHANGED vars \/ Refuse \/ Done \/ GiveUp \/ NotStarted \/ Cancel \/ Recover \/ UiDies \/ UiStarts
  <2>1. admin' = admin /\ ~journal[u].completed
    BY <1>0, <1>8, OthersStay
  <2> QED
    BY <1>0, <1>2, <1>3, <1>8, <2>1, OthersStay
<1>9. CASE Replug
  <2>1. UNCHANGED <<store, pref, profiler, backup, journal, admin, faults, deaths, late>> /\ mode = "none" /\ mode' \in Rescanned
    BY <1>9 DEF Replug
  <2>2. Forward(u) /\ Backward(u) /\ Kept(u) /\ Heading(u)' = Heading(u)
    BY <1>3, <2>1 DEF Tracked
  <2>3. Heading(u) = "scan" /\ admin[u].had => mode' \in {"modern", "none"}
    BY <2>1, <2>2 DEF Forward, Rescanned
  <2> QED
    BY <2>1, <2>2, <2>3 DEF Forward, Backward, AsFound, PrefAsFound, Kept
<1> QED
  BY <1>4, <1>5, <1>6, <1>7, <1>8, <1>9 DEF Next, UiStep, AdminStep, Operation

\* The rollback of a change in which one operation has failed puts wheel, packages and stored
\* mode back where rollbackModern found them, if no other migration is under way (Listed, and
\* no journal was cancelled too late) and the packages that its backup restores are those that drove the wheel (Bound).
THEOREM RollbackIsExact == Listed /\ Bound => (Spec => []RollbackRestores)
<1> SUFFICES ASSUME Listed, Bound PROVE Spec => []RollbackRestores
  OBVIOUS
<1> DEFINE IInv == Core /\ Alone /\ Paths /\ Whole /\ Tracked
<1>1. Init => IInv
  BY InitCore, InitRest DEF Core
<1>2. IInv /\ Core' /\ [Next]_vars => IInv'
  BY PathsKept, WholeIsKept, TrackedKept DEF Core
<1>3. IInv => RollbackRestores
  <2> SUFFICES ASSUME IInv, NEW t \in Tokens, At(t, "backverify"), faults <= 1, deaths = 0, late = {}
               PROVE  /\ mode = admin[t].mode0 /\ pref = admin[t].pref0
                      /\ admin[t].had => store = "all"
    BY DEF RollbackRestores
  <2>1. Heading(t) = "backverify"
    BY WorkingHead, PlacesAre DEF At
  <2>2. admin[t].target = "modern"
    BY <2>1, TypeParts DEF Paths, Core, Types, Admins, Targets
  <2>3. ~journal[t].completed
    <3>1. Journalled(t) /\ Busy(t)
      BY PlacesAre DEF Core, Control, At, Busy, Working
    <3> QED
      BY <3>1, BusyUnfinished DEF Unfinished
  <2> QED
    BY <2>1, <2>2, <2>3 DEF Tracked, Backward, Back, AsFound, PrefAsFound
<1> HIDE DEF IInv
<1> QED
  BY <1>1, <1>2, <1>3, CoreInvariance, PTL DEF Spec

=============================================================================
