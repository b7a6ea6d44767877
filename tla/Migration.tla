------------------------------ MODULE Migration ------------------------------
(***************************************************************************)
(* The change of a wheel between Windows' generic HID driver ("modern")    *)
(* and Logitech's ("legacy"): src/internal/system/migration_windows.go,    *)
(* migration_journal_windows.go, the driver and profiler functions of      *)
(* system_windows.go and profiler_windows.go, and both processes in        *)
(* src/internal/app (executeSetupPlan, runTrackedSetupAdminAction).        *)
(*                                                                         *)
(* The user's process begins a journal, asks Windows for an elevated       *)
(* process and polls the journal. The elevated process marks the journal   *)
(* running and does the change; it writes a journal entry before and       *)
(* after each operation and gives up when it cannot. Journals are files:   *)
(* an entry is a read of the file and a later write of all of it.          *)
(*                                                                         *)
(* Texts, settings files and the native-mode switch, whose failure only    *)
(* warns, are left out.                                                    *)
(***************************************************************************)
EXTENDS Naturals, FiniteSets

CONSTANTS Tokens,      \* journals, one for each migration
          Profilers,   \* whether Logitech's profiler may be installed at first
          Unbound,     \* may packages lie in the store that drive no wheel?
          ListFails,   \* may the journals be unreadable when one is begun?
          MaxFaults,   \* bound on failed operations
          MaxDeaths    \* bound on processes that end before they are done

ASSUME MigrationAssumption ==
  /\ Tokens # {} /\ IsFiniteSet(Tokens) /\ "none" \notin Tokens
  /\ Profilers \subseteq BOOLEAN
  /\ Unbound \in BOOLEAN /\ ListFails \in BOOLEAN
  /\ MaxFaults \in Nat /\ MaxDeaths \in Nat

VARIABLES
  store,     \* Logitech's packages in the driver store
  mode,      \* what drives the wheel
  pref,      \* wheel.mode
  profiler,  \* is Logitech's profiler installed?
  backup,    \* is there a driver backup that is marked complete?
  journal,   \* [Tokens -> a journal file]
  admin,     \* [Tokens -> an elevated process]
  ui,        \* the user's process
  late,      \* history: journals that were cancelled after their process had read them
  faults, deaths

system == <<store, mode, pref, profiler, backup>>
vars == <<system, journal, admin, ui, late, faults, deaths>>

Targets == {"modern", "legacy"}

NoJournal == [status |-> "none", completed |-> FALSE]

Pending == [status |-> "pending", completed |-> FALSE]
Finished(s) == [status |-> s, completed |-> TRUE]
Journals == [status : {"none", "pending", "running", "success", "failed", "cancelled"},
             completed : BOOLEAN]

\* Where an elevated process is in MarkMigrationRunning and SetupModernGenericTracked or
\* SetupLegacyTracked; "note" and "noted" are the two halves of a journal entry.
Working == {"check", "saveprofiler", "inventory", "export", "uninstall", "remove", "scan", "add",
            "rescan", "added", "lgs", "profiler", "pref", "verify",
            "backprofiler", "backpref", "backverify", "success", "failed", "abort"}
Places == {"off", "load", "mark", "note", "noted"} \cup Working

TypeOK ==
  /\ store \in {"all", "some", "none"}
  /\ mode \in {"modern", "legacy", "none"}
  /\ pref \in Targets \cup {""}
  /\ profiler \in BOOLEAN /\ backup \in BOOLEAN
  /\ journal \in [Tokens -> Journals]
  /\ admin \in [Tokens -> [at : Places, then : Working \cup {"off"}, copy : Journals,
                           target : Targets, opt : BOOLEAN, mode0 : {"modern", "legacy", "none"},
                           pref0 : Targets \cup {""}, had : BOOLEAN, gone : BOOLEAN,
                           changed : BOOLEAN]]
  /\ ui \in [at : {"closed", "recover", "idle", "consent", "wait", "cancel"},
             token : Tokens \cup {"none"}, proved : SUBSET Tokens]
  /\ late \subseteq Tokens
  /\ faults \in 0..MaxFaults /\ deaths \in 0..MaxDeaths
  /\ \A t \in Tokens : admin[t].at # "off" \/ ui.token = t => journal[t].status # "none"

NoAdmin == [at |-> "off", then |-> "off", copy |-> NoJournal, target |-> "modern", opt |-> FALSE,
            mode0 |-> "none", pref0 |-> "", had |-> FALSE, gone |-> FALSE, changed |-> FALSE]
\* Of a process that has ended only what its journal says remains.
Ends(t) ==
  admin' = [admin EXCEPT ![t] = [NoAdmin EXCEPT !.target = admin[t].target, !.changed = admin[t].changed]]

Idle == [at |-> "idle", token |-> "none", proved |-> {}]

Init ==
  /\ \/ store = "none" /\ mode = "modern"
     \/ store = "all" /\ mode \in {"legacy"} \cup (IF Unbound THEN {"modern"} ELSE {})
  /\ pref \in {"", mode}
  /\ profiler \in Profilers /\ backup \in BOOLEAN
  /\ journal = [t \in Tokens |-> NoJournal]
  /\ admin = [t \in Tokens |-> NoAdmin]
  /\ ui = Idle
  /\ late = {} /\ faults = 0 /\ deaths = 0

Fault == faults < MaxFaults /\ faults' = faults + 1
NoFault == UNCHANGED faults
Dies == deaths < MaxDeaths /\ deaths' = deaths + 1

\* Mutant: a journal counts until it is marked running.
IncompletePending(t) == journal[t].status = "pending"

\* ListIncompleteMigrations.
Incomplete(t) ==
  /\ journal[t].status # "none"
  /\ ~journal[t].completed \/ journal[t].status \in {"pending", "running"}

-----------------------------------------------------------------------------
(* The user's process.                                                     *)

\* BeginMigration, then shellRunAs. Journals that cannot be read count as none.
Begin(t, target, opt) ==
  /\ ui.at = "idle" /\ journal[t].status = "none"
  /\ ListFails \/ \A u \in Tokens : ~Incomplete(u)
  /\ journal' = [journal EXCEPT ![t] = Pending]
  /\ admin' = [admin EXCEPT ![t].target = target, ![t].opt = opt]
  /\ ui' = [ui EXCEPT !.at = "consent", !.token = t]
  /\ UNCHANGED <<system, faults, deaths, late>>

Consent ==
  /\ ui.at = "consent"
  /\ admin' = [admin EXCEPT ![ui.token].at = "load"]
  /\ ui' = [ui EXCEPT !.at = "wait"]
  /\ UNCHANGED <<system, journal, faults, deaths, late>>

\* Mutant: a refused migration stays as it is.
NotCancelled == Pending

Cancelled == Finished("cancelled")

\* elevateMigration: CancelMigration, whose error is not looked at.
Refuse ==
  /\ ui.at = "consent"
  /\ \/ journal' = [journal EXCEPT ![ui.token] = Cancelled] /\ NoFault
     \/ Fault /\ UNCHANGED journal
  /\ ui' = Idle
  /\ UNCHANGED <<system, admin, deaths, late>>

\* waitForSetupMigration: the journal is completed.
Done ==
  /\ ui.at = "wait" /\ journal[ui.token].completed
  /\ ui' = Idle
  /\ UNCHANGED <<system, journal, admin, faults, deaths, late>>

\* 15 minutes have passed.
GiveUp ==
  /\ ui.at = "wait"
  /\ ui' = Idle
  /\ UNCHANGED <<system, journal, admin, faults, deaths, late>>

NotYetRunning(t) == journal[t].status = "pending"

\* 20 seconds have passed, by the clock: the elevated process may be about to mark its journal.
NotStarted ==
  /\ ui.at = "wait" /\ NotYetRunning(ui.token)
  /\ ui' = [ui EXCEPT !.at = "cancel"]
  /\ UNCHANGED <<system, journal, admin, faults, deaths, late>>

\* A process that has read its journal before does not see that it is cancelled.
Cancel ==
  /\ ui.at = "cancel"
  /\ \/ /\ journal' = [journal EXCEPT ![ui.token] = Cancelled]
        /\ late' = IF admin[ui.token].at \in {"off", "load"} THEN late ELSE late \cup {ui.token}
        /\ NoFault
     \/ Fault /\ UNCHANGED <<journal, late>>
  /\ ui' = Idle
  /\ UNCHANGED <<system, admin, deaths>>

UiDies ==
  /\ ui.at # "closed" /\ Dies
  /\ ui' = [Idle EXCEPT !.at = "closed"]
  /\ UNCHANGED <<system, journal, admin, faults, late>>

\* migrationTargetSatisfied.
Satisfied(t) == mode = admin[t].target /\ pref = admin[t].target

\* RecoverInterruptedMigrations, one look at the devices before each write.
UiStarts ==
  /\ ui.at = "closed"
  /\ ui' = [at |-> "recover", token |-> "none", proved |-> {t \in Tokens : Incomplete(t) /\ Satisfied(t)}]
  /\ UNCHANGED <<system, journal, admin, faults, deaths, late>>

Recover ==
  /\ ui.at = "recover"
  /\ IF ui.proved = {}
     THEN ui' = Idle /\ UNCHANGED <<journal, faults>>
     ELSE \E t \in ui.proved :
            \/ /\ journal' = [journal EXCEPT ![t] = Finished("success")]
               /\ ui' = [ui EXCEPT !.proved = @ \ {t}]
               /\ NoFault
            \/ Fault /\ ui' = Idle /\ UNCHANGED journal
  /\ UNCHANGED <<system, admin, deaths, late>>

UiStep == Consent \/ Refuse \/ Done \/ GiveUp \/ NotStarted \/ Cancel \/ Recover

-----------------------------------------------------------------------------
(* The elevated process and its journal.                                   *)

At(t, place) == admin[t].at = place
Goes(t, place) == admin' = [admin EXCEPT ![t].at = place]

\* An operation is over; its journal entry comes next, and then place.
Notes(t, place) == admin' = [admin EXCEPT ![t].at = "note", ![t].then = place]
Changes(t, place) ==
  admin' = [admin EXCEPT ![t].at = "note", ![t].then = place, ![t].changed = TRUE]

\* MarkMigrationRunning reads the journal, looks at Windows and writes.
Load(t) ==
  /\ At(t, "load")
  /\ \/ admin' = [admin EXCEPT ![t].at = "mark", ![t].copy = journal[t]] /\ NoFault
     \/ Fault /\ Ends(t)
  /\ UNCHANGED <<system, journal, ui, deaths, late>>

Mark(t) ==
  /\ At(t, "mark")
  /\ \/ journal' = [journal EXCEPT ![t] = [admin[t].copy EXCEPT !.status = "running"]]
        /\ admin' = [admin EXCEPT ![t].at = "check", ![t].copy = NoJournal]
        /\ NoFault
     \/ Fault /\ Ends(t) /\ UNCHANGED journal
  /\ UNCHANGED <<system, ui, deaths, late>>

Open(t) == ~journal[t].completed

\* AppendMigrationStep; migrationProgress panics if it fails.
Note(t) ==
  /\ At(t, "note")
  /\ \/ Open(t) /\ admin' = [admin EXCEPT ![t].at = "noted", ![t].copy = journal[t]] /\ NoFault
     \/ ~Open(t) /\ Goes(t, "abort") /\ NoFault
     \/ Fault /\ Goes(t, "abort")
  /\ UNCHANGED <<system, journal, ui, deaths, late>>

Noted(t) ==
  /\ At(t, "noted")
  /\ \/ /\ journal' = [journal EXCEPT ![t] = admin[t].copy]
        /\ admin' = [admin EXCEPT ![t].at = admin[t].then, ![t].then = "off", ![t].copy = NoJournal]
        /\ NoFault
     \/ Fault /\ Goes(t, "abort") /\ UNCHANGED journal
  /\ UNCHANGED <<system, ui, deaths, late>>

\* CompleteMigration by finish or, after a panic, by the deferred function.
Complete(t) ==
  /\ admin[t].at \in {"success", "failed", "abort"}
  /\ \/ /\ journal' = [journal EXCEPT ![t] = Finished(IF At(t, "success") THEN "success" ELSE "failed")]
        /\ NoFault
     \/ Fault /\ UNCHANGED journal
  /\ Ends(t)
  /\ UNCHANGED <<system, ui, deaths, late>>

AdminDies(t) ==
  /\ admin[t].at # "off" /\ Dies
  /\ Ends(t)
  /\ UNCHANGED <<system, journal, ui, faults, late>>

-----------------------------------------------------------------------------
(* The change itself.                                                      *)

Failed(t, place) == Fault /\ Notes(t, place)

\* requireMigrationWheel and HVCIEnabled, before anything is changed.
Check(t) ==
  /\ At(t, "check")
  /\ \/ /\ mode # "none"
        /\ admin' = [admin EXCEPT ![t].at = "note", ![t].mode0 = mode, ![t].pref0 = pref,
              ![t].then = IF admin[t].target = "modern" THEN "saveprofiler" ELSE "inventory"]
        /\ NoFault
     \/ mode = "none" /\ Notes(t, "failed") /\ NoFault
     \/ Failed(t, "failed")
  /\ UNCHANGED <<system, journal, ui, deaths, late>>

\* DetectProfilerStrict, BackupProfiler.
SaveProfiler(t) ==
  /\ At(t, "saveprofiler")
  /\ \/ Notes(t, "inventory") /\ NoFault
     \/ Failed(t, "failed")
  /\ UNCHANGED <<system, journal, ui, deaths, late>>

\* The newest directory whose manifest is complete and whose files match it.
LatestBackup == backup

\* What follows when the packages in the store are known.
NextStep(t, had) ==
  IF admin[t].target = "modern" THEN IF had THEN "export" ELSE "uninstall"
  ELSE IF had THEN IF LatestBackup THEN "profiler" ELSE "export" ELSE "add"

Inventory(t) ==
  /\ At(t, "inventory")
  /\ LET had == store # "none" IN
       \/ /\ admin' = [admin EXCEPT ![t].at = "note", ![t].had = had, ![t].then = NextStep(t, had)]
          /\ NoFault
       \/ Failed(t, "failed")
  /\ UNCHANGED <<system, journal, ui, deaths, late>>

\* BackupDrivers: the manifest comes last.
Export(t) ==
  /\ At(t, "export")
  /\ \/ /\ backup' = TRUE
        /\ Notes(t, IF admin[t].target = "modern" THEN "uninstall" ELSE "profiler")
        /\ NoFault
     \/ Failed(t, "failed") /\ UNCHANGED backup
  /\ UNCHANGED <<store, mode, pref, profiler, journal, ui, deaths, late>>

Uninstall(t) ==
  /\ At(t, "uninstall")
  /\ \/ /\ admin[t].opt /\ profiler
        /\ profiler' = FALSE
        /\ admin' = [admin EXCEPT ![t].at = "note", ![t].then = "remove", ![t].gone = TRUE,
                                  ![t].changed = TRUE]
        /\ NoFault
     \/ /\ admin[t].opt /\ profiler
        /\ profiler' \in BOOLEAN
        /\ Fault /\ Changes(t, "failed")
     \/ ~(admin[t].opt /\ profiler) /\ Notes(t, "remove") /\ NoFault /\ UNCHANGED profiler
  /\ UNCHANGED <<store, mode, pref, backup, journal, ui, deaths, late>>

\* rollbackModern begins with the drivers if they may have changed.
RollBack(drivers) == IF drivers THEN "add" ELSE "backprofiler"

\* ValidateLegacyDriverBinding cannot tell which packages drive the wheel.
BindingUnclear(t) == Failed(t, RollBack(FALSE)) /\ UNCHANGED <<store, mode>>

\* removeLegacyDriverPackages. Packages that drive no wheel
\* stay.
Remove(t) ==
  /\ At(t, "remove")
  /\ \/ ~admin[t].had /\ Notes(t, "scan") /\ NoFault /\ UNCHANGED <<store, mode>>
     \/ /\ admin[t].had /\ admin[t].mode0 # "legacy"
        /\ Notes(t, "pref")
        /\ NoFault /\ UNCHANGED <<store, mode>>
     \/ /\ admin[t].had /\ admin[t].mode0 = "legacy"
        /\ \/ store' = "none" /\ mode' = "none" /\ Changes(t, "scan") /\ NoFault
           \/ /\ store' \in {"all", "some"} /\ mode' \in {mode, "none"}
              /\ Fault /\ Changes(t, RollBack(TRUE))
           \/ BindingUnclear(t)
  /\ UNCHANGED <<pref, profiler, backup, journal, ui, deaths, late>>

\* pnputil /scan-devices.
Rescanned ==
  CASE mode # "none" -> {mode}
    [] mode = "none" /\ store = "all" -> {"legacy"}
    [] mode = "none" /\ store = "none" -> {"modern"}
    [] OTHER -> {"legacy", "modern"}

\* The wheel is plugged in again.
Replug ==
  /\ mode = "none"
  /\ mode' \in Rescanned
  /\ UNCHANGED <<store, pref, profiler, backup, journal, admin, ui, faults, deaths, late>>

Scan(t) ==
  /\ At(t, "scan")
  /\ \/ mode' \in Rescanned /\ Notes(t, "pref") /\ NoFault
     \/ Failed(t, RollBack(admin[t].had)) /\ UNCHANGED mode
  /\ UNCHANGED <<store, pref, profiler, backup, journal, ui, deaths, late>>

SavePref(t) ==
  /\ At(t, "pref")
  /\ \/ pref' = admin[t].target /\ Changes(t, "verify") /\ NoFault
     \/ /\ Failed(t, IF admin[t].target = "modern" THEN RollBack(admin[t].had) ELSE "failed")
        /\ UNCHANGED pref
  /\ UNCHANGED <<store, mode, profiler, backup, journal, ui, deaths, late>>

\* verifyMigrationTerminalState.
Reached(t) == mode = admin[t].target /\ pref = admin[t].target

Verify(t) ==
  /\ At(t, "verify")
  /\ LET unreached == IF admin[t].target = "modern" THEN RollBack(admin[t].had) ELSE "failed" IN
       \/ Reached(t) /\ Notes(t, "success") /\ NoFault
       \/ ~Reached(t) /\ Notes(t, unreached) /\ NoFault
       \/ Failed(t, unreached)
  /\ UNCHANGED <<system, journal, ui, deaths, late>>

-----------------------------------------------------------------------------
(* RestoreDrivers, in a rollback or to set up a legacy wheel.              *)

Restored(t) == IF admin[t].target = "modern" THEN "backprofiler" ELSE "profiler"
NotRestored(t) ==
  IF admin[t].target = "modern" THEN "backprofiler" ELSE IF admin[t].opt THEN "lgs" ELSE "failed"

Add(t) ==
  /\ At(t, "add")
  /\ \/ /\ LatestBackup
        /\ store' = "all" /\ mode' = "legacy"
        /\ admin' = [admin EXCEPT ![t].at = "rescan", ![t].changed = TRUE]
        /\ NoFault
     \/ ~LatestBackup /\ Notes(t, NotRestored(t)) /\ NoFault /\ UNCHANGED <<store, mode>>
     \/ /\ LatestBackup
        /\ store' \in {store, "some"} /\ mode' \in {mode, "legacy"}
        /\ Fault /\ Changes(t, NotRestored(t))
  /\ UNCHANGED <<pref, profiler, backup, journal, ui, deaths, late>>

Rescan(t) ==
  /\ At(t, "rescan")
  /\ \/ Goes(t, "added") /\ NoFault
     \/ Failed(t, NotRestored(t))
  /\ UNCHANGED <<system, journal, ui, deaths, late>>

Added(t) ==
  /\ At(t, "added")
  /\ \/ pref' = "legacy" /\ Notes(t, Restored(t)) /\ NoFault
     \/ Failed(t, NotRestored(t)) /\ UNCHANGED pref
  /\ UNCHANGED <<store, mode, profiler, backup, journal, ui, deaths, late>>

\* DownloadAndInstallOfficialLGS, which brings both.
Lgs(t) ==
  /\ At(t, "lgs")
  /\ \/ store' = "all" /\ mode' = "legacy" /\ profiler' = TRUE /\ Changes(t, "profiler") /\ NoFault
     \/ /\ store' \in {store, "all"} /\ profiler' \in {profiler, TRUE} /\ UNCHANGED mode
        /\ Fault /\ Changes(t, "failed")
  /\ UNCHANGED <<pref, backup, journal, ui, deaths, late>>

\* RestoreProfilerBackup, which reports success without an installer too.
LegacyProfiler(t) ==
  /\ At(t, "profiler")
  /\ profiler' \in IF admin[t].opt THEN {profiler, TRUE} ELSE {profiler}
  /\ admin' = [admin EXCEPT ![t].at = "note", ![t].then = "pref",
                            ![t].changed = @ \/ profiler' # profiler]
  /\ NoFault
  /\ UNCHANGED <<store, mode, pref, backup, journal, ui, deaths, late>>

BackProfiler(t) ==
  /\ At(t, "backprofiler")
  /\ profiler' \in IF admin[t].gone THEN {profiler, TRUE} ELSE {profiler}
  /\ Notes(t, "backpref")
  /\ NoFault
  /\ UNCHANGED <<store, mode, pref, backup, journal, ui, deaths, late>>

\* Mutant: the preference is left as it is.
PrefKept(t) == pref

PrefBack(t) == admin[t].pref0

\* restoreOperatingPreference.
BackPref(t) ==
  /\ At(t, "backpref")
  /\ \/ pref' = PrefBack(t) /\ Notes(t, "backverify") /\ NoFault
     \/ Failed(t, "backverify") /\ UNCHANGED pref
  /\ UNCHANGED <<store, mode, profiler, backup, journal, ui, deaths, late>>

\* verifyRollbackTerminalState: either way the migration has failed.
BackVerify(t) ==
  /\ At(t, "backverify")
  /\ Notes(t, "failed")
  /\ NoFault
  /\ UNCHANGED <<system, journal, ui, deaths, late>>

-----------------------------------------------------------------------------
AdminStep(t) ==
  \/ Load(t) \/ Mark(t) \/ Note(t) \/ Noted(t) \/ Complete(t)
  \/ Check(t) \/ SaveProfiler(t) \/ Inventory(t) \/ Export(t) \/ Uninstall(t) \/ Remove(t)
  \/ Scan(t) \/ SavePref(t) \/ Verify(t) \/ Add(t) \/ Rescan(t) \/ Added(t) \/ Lgs(t)
  \/ LegacyProfiler(t) \/ BackProfiler(t) \/ BackPref(t) \/ BackVerify(t)

Next ==
  \/ UiStep \/ UiDies \/ UiStarts \/ Replug
  \/ \E t \in Tokens :
       \/ \E target \in Targets, opt \in BOOLEAN : Begin(t, target, opt)
       \/ AdminStep(t) \/ AdminDies(t)

Spec == Init /\ [][Next]_vars

-----------------------------------------------------------------------------
(* Properties.                                                             *)

Fixed == \A t \in Tokens : admin[t].at = "off"

\* The operations that look at Windows or change it.
Busy(t) == admin[t].at \in Working \ {"check", "success", "failed", "abort"}

\* As long as no process ends before it is done, never two migrations at work on Windows at
\* once: an unfinished journal keeps BeginMigration from another one, and a process whose
\* journal was cancelled before it read it gives up at its first entry. But one that has read
\* its journal when the user's process cancels it (late) writes "running" over the
\* cancellation, or is in an operation, while the next one may begin.
OneAtATime ==
  deaths = 0 => \A t, u \in Tokens \ late : Busy(t) /\ Busy(u) => t = u

\* When one operation fails and the change is rolled back, wheel, packages and stored mode
\* are as they were before it (rollbackModern), if no migration was cancelled too late.
RollbackRestores ==
  \A t \in Tokens :
    At(t, "backverify") /\ faults <= 1 /\ deaths = 0 /\ late = {} =>
      /\ mode = admin[t].mode0 /\ pref = admin[t].pref0
      /\ admin[t].had => store = "all"

\* When nobody is at work any more and nothing failed, every journal is completed: no
\* migration stays in the way of the next one.
JournalsEnd ==
  ui.at = "idle" /\ Fixed /\ faults = 0 /\ deaths = 0 =>
    \A t \in Tokens : journal[t].status = "none" \/ journal[t].completed

=============================================================================
