# LogiMate in TLA+

LogiMate is a Windows program (Go) that finds Logitech wheels, switches them into
their native mode, reads them over HID and writes to them: range, LEDs, autocenter
springs, force-feedback tests and force feedback driven by game telemetry. A wheel has a
motor. What matters most in this code is therefore who may write to the wheel, and
that whatever was switched on is switched off again, also when a write fails, a
goroutine hangs, a message arrives late or the process dies. Beside that it changes
drivers, replaces itself, remembers which wheel is which and keeps what the user taught
it. This directory holds the specification of these parts, its model checks and its
proofs.

Paths below are relative to `src/`; `system/` stands for `internal/system/`,
`app/` for `internal/app/`.

## 1. The system

| Component | State it keeps | Operations | Module |
|---|---|---|---|
| Output lease (`system/output_lease_windows.go`) | token, generation, status under a Go mutex; the Windows named mutex `Global\LogiMate.NativeOutput.v1` | acquire, release, current | `OutputLease` |
| Output coordinator (`system/native_output_windows.go`, `native_ffb_windows.go`, `native_ffb_conditions_windows.go`, `fusion_c6_windows.go`) | status blocks `nativeOutput`, `nativeFFB`, `fusionC6`, each under its own mutex; cancel and done channels; the autocenter timer; one worker goroutine per session | range, LEDs, autocenter test, constant-force and condition tests, game output, emergency stop, release, profile application | `MotorOutput`, `WheelCommands` |
| Recovery marker (`system/release_hardening_windows.go`) | `runtime-output.pending` on disk | mark, clear, recover at start-up, state invariants | `MotorOutput` |
| Shared HID session (`system/g27_shared_hid_windows.go`, `classic_shared_hid_windows.go`) | one handle per wheel shared by reader and writers, its generation, open back-off | ensure, borrow, health check, invalidate, read loop, close | `HidSession` |
| HID transport (`system/native_transport_windows.go`) | closed, poisoned, backend | overlapped write, cancel, poison, compatibility fall-back, close | `HidSession` |
| Native-mode switch (`system/g27_shared_hid_windows.go`) | auto-switch status, remembered wheels | two-phase mode reports, wait for re-enumeration | `OutputLease`, `HidSession` (in part) |
| FFB scheduler and pipeline (`internal/wheelengine`, `internal/openg27port`) | applied force, last frame, pumps | pump, slew limit, watchdog, panic, shaping, live tuning | `Scheduler`, `GameForce` |
| Telemetry and game adapters (`system/telemetry_windows.go`, `internal/gameadapter`) | the current adapter, its read loop and last frame | start, stop, automatic start for a game, read | `Telemetry` |
| Detection, wheels and registry (`system/system_windows.go`, `wheels_windows.go`, `internal/wheelengine/manager.go`) | what Windows reports, stored selection, confirmations, native history, the registry with generations | full and fast scan, choose, confirm, forget, reconcile, update | `Selection` |
| Migration (`system/migration_windows.go`, `migration_journal_windows.go`) | journal on disk, driver and package state | set-up steps, rollback, recovery of interrupted journals | `Migration` |
| Updater and installer (`app/updater_windows.go`, `app/update_helper_windows.go`, `cmd/installer`) | downloaded file, authorization token, `.new` and `.previous` files | check, download, authorize, replace, roll back, restart | `Update` |
| Configuration store (`system/config_integrity_windows.go`, `atomic_windows.go` and eight JSON files) | JSON files, snapshots, corruption markers, schema number | strict read, change, atomic replacement, preservation, reset | `ConfigStore` |
| Setup assistant and settings (`app/setup_windows.go`, `settings_windows.go`, `dialog_windows.go`) | page, running migration, `settings.json`, open message boxes | keys and buttons, plan, result, toggles, start of the program | `Setup` |
| Wheel page: learning (`app/calibration_rework_windows.go`, `input_learning_windows.go`, `pedals_windows.go`) | the wizard's samples, the stored mapping | start, capture, save, close | `Calibration` |
| Wheel page: force feedback panel and dialogs (`app/d6_force_feedback_windows.go`, `input_learning_windows.go`) | draft, dragged slider, profile and shape of each wheel, status line | sliders, profiles, tests, stop, probe, game output | `FFBPanel` |
| Wheel page: certification (`app/hardware_certification_windows.go`, `system/hardware_certification_windows.go`) | evidence file and its cache | checks, record, reset | `Certification` |
| Drawing, texts, diagnostics, other pages | window state | paint, show | none |

How they meet:

- The **UI thread** (locked to its OS thread) runs the message loop and calls the
  coordinator. Message boxes pump messages, so a second call may begin between two calls
  of the first, never inside one.
- One **refresh goroutine** at a time collects the state. It runs `UpdateGameSession`,
  which stops the output of a game that has ended and applies engine profiles: both
  enter the coordinator beside the UI thread. Its completion (`msgStateReady`) makes
  the UI thread look for a recovery marker.
- A **worker goroutine** per FFB session writes effects until its cancel channel is
  closed, its time is up or a write fails; callers wait two seconds for its done channel.
- A **`time.AfterFunc` callback** ends an autocenter test.
- **Check and download goroutines** publish what they found under `updateMu`; a
  **replacer process** (update helper or setup) outlives the program that launched it.
- **Another LogiMate process** competes for the named mutex; the **wheel** keeps
  playing what it was last told, whatever happens to the process.

What is hard here: the lease, the marker, the status blocks and the device are four
pieces of state with four different locks, changed in several steps by four kinds of
goroutine, each step of which may fail or may be the last one before the process ends.
What makes the coordinator correct is a relation between these four, and no single test
reaches its interleavings. `PROJECT.json` lists the hazards at their lines, with the
properties that cover them.

For each component, what correct means:

- lease: at most one process writes; a lease is always backed by the mutex; no release
  leaks it; a mode switch never runs beside a lease;
- coordinator: force is covered by a marker until a known gap takes it away (section 7); only the lease's session writes; a stop
  that reports success has left a neutral wheel and no lease; every call returns; every
  test ends; statuses tell the truth;
- HID session and transport: a handle is closed once and never leaks; the shown report
  is the live session's; an ambiguous write ends its session; a lost session comes back;
- updater: the program file is complete whenever there is one; the old version can be put
  back until the new one was started; nothing is replaced under a running owner or with
  a driven motor; the offered file is the offered release; the program runs again;
- migration: after a crash at any step the next start finds the old state, the new one
  or a recorded interruption;
- configuration: a reader sees a complete file; damaged evidence is not overwritten; the
  wheel has the range of the profile that was applied;
- scheduler and telemetry: the wheel pulls only for the game that may and does ask; after
  the stop nothing moves it again;
- detection: a confirmation belongs to one wheel and not to a socket; no change of the USB
  bus is lost; only the user changes the selection; no data of one session is shown as another's;
- setup: nothing steps over the migration; a migration that was started is followed to its end;
- wheel page: a calibration comes whole and from one input; a check passes only when its
  test is over; evidence is not lost; the panel tells what is so.

## 2. Modules

| Module | What it is |
|---|---|
| `OutputLease` | the lease, the named mutex with thread ownership and nesting, the mode switch |
| `MotorOutput` | the coordinator of one process: callers, workers, watchdog callbacks, marker, wheel, crash |
| `MotorContract` | what the coordinator promises, without workers, timers and status blocks; an abstract specification that `MotorOutput` implements |
| `HidSession` | the handles: shared sessions, their read loops, borrowed and own transports |
| `Update` | an update: check, download, stop, replacer, rename transaction, rollback, restart |
| `Migration` | a change between generic and Logitech driver: journals, both processes, rollback |
| `Telemetry` | the adapters, their read loops and the two goroutines that start and stop them |
| `Scheduler` | the force that is pumped to the wheel |
| `GameForce` | the composition of `Telemetry` and `Scheduler` with a game session, its pipeline and its live tuning |
| `Selection` | wheels, scans, the selection, confirmations, history and the registry |
| `ConfigStore` | the JSON files and two threads that save |
| `Setup` | the assistant, the settings, message boxes and the start of the program |
| `SelectedWheel` | what a handler of the wheel page sees of wheel and state |
| `WheelCommands` | what such a handler orders from the coordinator |
| `Calibration`, `Certification`, `FFBPanel` | the three parts of the wheel page |
| `WheelPage` | their composition over one wheel state and one motor |
| `MC...` | the instances for TLC |
| `OutputProofs` | the lease: type invariant, exclusion, backing, no leak; the force of a game: type invariant, asked for by a frame, gone when it stops |
| `MotorOutputProofs` | type invariant; only the lease's session writes; what plays is owned and covered, neutral after a stop; the contract is kept |
| `HidSessionProofs` | type invariant; no handle closed twice or left open; the latest report is live; no second transport after an unknown write |
| `UpdateProofs` | type invariant; a complete program to start, an old one to go back to, no file touched beside a driven motor |
| `MigrationProofs` | type invariant; one elevated process, closed journals, an exact rollback |
| `SelectionProofs` | type invariant; confirmations and data stay with their wheel, no change of the bus is lost, the selection is the user's |
| `ConfigStoreProofs` | type invariant; damaged files are kept, no write damages one, range and profile agree |
| `PageProofs` | the assistant: type invariant; no page behind the migration, a run is followed while it lasts; the wheel page: type invariant; stored calibrations are sound, the status line is true, a passed check left the wheel safe, evidence is kept |

Three modules speak of the motor at three grains: `MotorOutput` has every critical section of
the coordinator; `GameForce` has the force between a packet and a report and takes the lease as given;
`WheelCommands` has a whole call of the user interface as a set of outcomes. `Selection` has the
scan in five steps, `SelectedWheel` in one; `Migration` has what `Setup` sees of a journal.

### OutputLease

One variable per piece of state: `token`, `generation` and the lock `locked` of
`acquireNativeOutputLease` (which is held across the wait, so a process acquires one lease
at a time), `owner` and `depth` of the named mutex and its open `handles`. Each action
chooses the OS thread it runs on, because goroutines move between threads and the
result of `ReleaseMutex` is ignored: a release by another thread leaves the mutex owned
until the handle is closed. `releasing` holds the window between the drop of the token
(under the lock) and the release of the mutex (after it). `BeginSwitch`, `SwitchGranted`,
`SwitchBusy` and `SwitchDone` are `sendNativeModeReports`, which takes the mutex
and not the lease. `ProcessExit` abandons the mutex, as Windows does.

### MotorOutput

One process. A step is one critical section, one HID transaction or one file operation;
`pc` names the step a thread is about to take. A call is a value of `Ops`
that the model walks through the same functions as the code: for instance `spring`
(`NativeOutputTestAutocenter`) surveys and stops what runs (`NativeOutputEmergencyStop`),
acquires a lease, marks, writes, records and arms its watchdog.

| Steps | Code |
|---|---|
| `Survey`, `CancelSession`, `WorkerEnded`, `WorkerTimeout`, `BestEffort`, `Target` | `NativeOutputEmergencyStop`, `stopNativeFFBSession`, `emergencyOutputTarget` |
| `WriteNeutral`, `ClearMarker`, `ReleaseLease`, `RecordStop` | `nativeOutputSafeStopLease`, `completeNativeMotorStop` |
| `Conclude` | the end of `NativeOutputRelease` |
| `Acquire`, `AcquireRefused`, `MarkActive`, `FirstWrite`, `DropLease`, `Register`, `PublishGame` | the starts of tests and game output |
| `RecordOutput`, `ArmWatchdog`, `WatchdogFires` | `recordNativeOutput`, the autocenter timer |
| `GameStopped`, `Recover`, `Forget` | `StopFusionC6GameOutput`, `RecoverRuntimeOutputIfNeeded` |
| `Tick`, `LeaveLoop`, `Halt`, `ReportGame`, `Report`, `Exit` | the worker goroutines and their deferred functions |
| `Crash` | the process ends; marker and wheel survive |

Abstractions: the FFB slots are one variable (`force`), because they are always
stopped together, and the autocenter spring another; percentages, waveforms and texts are
left out; the wheel is neutral, or plays for a session, or plays for a process that
is gone. A failed write may or may not have reached the wheel.
`Gap` names three windows (`LateRecovery`, `LateCallback`, `OrphanSpring`) in which a session that drives a
motor is about to lose its marker to somebody else, or plays beside a spring that a former process left on. A failed acquisition,
for whatever reason, is one action. The generation of a session stands for the
generation of its lease and of `nativeFFB`, both fresh per session.

### MotorContract

Seven actions over owner, evidence and motor. `MotorOutput` instantiates it with a
refinement mapping (owner is a lease of a motor session, evidence the marker, motor what
plays) and the run `motor_sessions` checks it as the temporal property `KeepsContract`, up to the first gap.

### HidSession

`object` says what a handle value refers to: Windows hands out the value of a closed
handle again, so a value alone identifies nothing. Every successful `CreateFile` is an
*open* with a number of its own, which also stands for the generation of the session it
is installed in; the code compares both fields wherever it compares one. A step
is a critical section or a system call, and the close that follows a critical section is
a step of its own, as in the code.

| Steps | Code |
|---|---|
| `Look`, `Due`, `Create`, `CreateFails`, `Install`, `Swap` | `ensureG27SharedReader`, `ensureClassicSharedReader`, `note...OpenFailure` |
| `Shut`, `ShutClose` | `ClosePreferredInput`, `closeClassicSharedInput` |
| `Issue`, `Publish`, `ReadFails`, `ReadStale`, `LoopFails`, `LoopCloses` | `g27SharedReadLoop`, `classicSharedReadLoop` |
| `Borrow`, `OpenOwn`, `CloseTransport` | `borrowG27SharedOutput`, `openNativeHIDTransport`, `openOpenG27CompatibleSwitchTransport`, `Close` |
| `WriteReport`, `LockWrites`, `Recheck` | `writeReportContext` and `g27SharedOutputWriteMu` |
| `Write`, `Confirmed`, `Unsupported`, `Reopen`, `Spawn`, `LateWrite`, `Answered` | `writeOverlappedLocked`, `reopenHidDCompatibilityLocked`, `writeHidDCompatLocked` |
| `Ambiguous`, `Poison`, `Discard` | `failClosedAmbiguousLocked`, `poisonAndCloseLocked`, `invalidateG27SharedOutput` |

Abstractions: reports are not looked into, a report is the open it was read from; a
published report may have arrived at any time since its read was issued, so `Publish`
does not depend on what became of the handle meanwhile; how long a back-off lasts,
and which path a wheel has, are left open. A transport belongs to one caller, so its own
mutex does not appear; `g27SharedOutputWriteMu`, which all transports share, is `writer`.

### Update

The running program, its UI thread and one download goroutine, and the replacer, which
is the update helper of a standalone program or the setup of an installed one. The files
are the program, `.new`, `.previous` and `.failed`; the content of a file is a version,
`Partial` or nothing, and a rename moves it in one step.

| Steps | Code |
|---|---|
| `Checked`, `Download`, `Fetched`, `RenameFinal`, `Publish` | `checkForUpdatesAsync`, `downloadUpdateAsync`, `DownloadLogiMateUpdate` |
| `Prompt`, `Answer`, `StopOutput`, `LaunchSetup` | `handleUpdateDownloaded`, `applyDownloadedUpdate` |
| `Authorize`, `Launch`, `Consume` | `createUpdateAuthorization`, `launchNativeUpdateHelper`, `consumeUpdateAuthorization` |
| `Wait`, `Settle` | `waitForProcessExit`, `waitForProcess`, `RuntimeOutputRecoveryNeeded` |
| `CopyBegins`, `CopyEnds`, `Retire`, `Move`, `Activate`, `Restore` | `replaceExeTransactional`, `performInstall` |
| `Start`, `Discard`, `Back`, `Again`, `Verify` | the restart, `rollbackExe`, the check at the end of `performInstall` |
| `Motor`, `Close`, `UserStarts`, `UserRunsSetup`, `AppDies`, `ReplacerDies` | motor sessions, the lifecycle stop, the user, the loss of a process |

Abstractions: a portable program is replaced like a standalone one, because the copy of its
other files only warns; signatures and checksums are a failure of the step that looks
at them; an authorization is the helper's own record; the motor is the marker its session
leaves (`MotorOutput` has the rest). One message box and one setup at a time.

### Migration

The user's process begins a journal and polls it; an elevated process does the change.
An operation of the elevated process is a step, and a journal entry two (`Note`,
`Noted`: a read of the file and a later write of all of it), because both processes write it.

| Steps | Code |
|---|---|
| `Begin`, `Consent`, `Refuse`, `NotStarted`, `GiveUp`, `Done`, `NotYetRunning` | `BeginMigration`, `elevateMigration`, `executeSetupPlan`, `waitForSetupMigration` |
| `Open`, `Mark`, `Note`, `Noted`, `Complete`, `Cancel` | `MarkMigrationRunning`, `AppendMigrationStep`, `CompleteMigration`, `CancelMigration` |
| `Check`, `SaveProfiler`, `Inventory`, `Export`, `Uninstall`, `Remove`, `Scan` | `SetupModernGenericTracked`, `BackupDrivers`, `UninstallProfiler`, `removeLegacyDriverPackages` |
| `Add`, `Rescan`, `Added`, `Lgs`, `LegacyProfiler`, `SavePref`, `Verify` | `SetupLegacyTracked`, `RestoreDrivers`, `DownloadAndInstallOfficialLGS`, `verifyMigrationTerminalState` |
| `Failed`, `RollBack`, `BackProfiler`, `BackPref`, `BackVerify` | `rollbackModern`, `restoreOperatingPreference`, `verifyRollbackTerminalState` |
| `UiStarts`, `Recover` | `RecoverInterruptedMigrations` |
| `UiDies`, `AdminDies`, `Rescanned`, `Replug` | a process ends; Windows binds a driver by itself |

The 20 seconds after which `NotStarted` cancels are wall-clock time, so the cancellation (`Cancel`) may
fall anywhere in the elevated process. One that has read its journal before writes "running" over the cancellation
or goes on with its operation, while the user may begin the next migration; `late` remembers these journals.

The driver store is none, some or all of Logitech's packages; the wheel is driven by one of
the two drivers or by neither yet; a backup is one that is marked complete or none.

### Telemetry, Scheduler, GameForce

`Telemetry` has the adapter objects, which are reused when nothing refers to them, the
pointer that says which is current, and a call of each goroutine at its steps: a start makes
an adapter, takes the current one under the lock, halts it, waits for it, opens the new port and
publishes. `Scheduler` is `WheelOutput` and `FFBEngine`: a pump asks for a frame, limits the step,
sends it, and sends it again or zero in `Tick`. `GameForce` extends both: a session begins,
ensures its listener, pumps once by itself and runs; a pump reads the profile (`PumpReads`), then the
telemetry (`PumpFrame`), then shapes (`PumpShapes`), and the refresh of the tuning
(`TuneReads`, `TuneProfile`, `TuneShaping`) falls between any two of them.

A frame is a force and whether the game allows it. Forces are integers from `-Full` to
`Full`; the low-pass and the smoothing of the pipeline are two states, `session.low` and `session.out`, each of which goes
half of the way to what it is given; the gains of the
engine profile are halves. One unit of time is one tick of the engine, `StaleAge` and `Watchdog` are
counted in it, and time passes only between pumps (`Elapse`): a pump is short against a tick.
The copy of the scheduler in `internal/openg27port` is the same code; outside of its
tests only `internal/wheelengine` is used.

### Selection

A wheel has a socket, which is its *stable ID*, and a *container*, which is its session and fresh
after each plug. All wheels of the three models power on as C294, which does not tell
the model; one that is switched shows its own PID. A scan is five steps: begin (`Begin`: what it
takes over from the former state), `Find` (devices and names), `Identify` (models, confirmations,
history, the stored selection), `Choose` and `Save`. Changes of the bus, messages, the
user's commands and a restart fall between any two of these. A handler of the UI thread is one step.
An enumeration may fail, and Windows may answer it as empty at any time; the code takes that for an empty bus, or
shows the wheel of its open direct handle instead (`Find`, `Continuity`). `blind` remembers it.

| Steps | Code |
|---|---|
| `Find`, `Identify`, `Choose`, `Save`, `Scan` | `CollectState`, `CollectStateFast`, `resolveWheelModel`, `reconcileWheelSelection` |
| `StartScan`, `StateReady`, `RefreshRequest`, `DeviceChange`, `DeviceTimer`, `AutoRefresh` | `refreshAsync`, `msgStateReady`, `WM_DEVICECHANGE`, the timers |
| `Select`, `ConfirmModel`, `ClearModel`, `Reset` | `selectWheel`, `applySetupWheelChoice`, `resetWheelDetection` |
| `Publish`, `Update` | `syncNativeWheelManager`, `Manager.Reconcile`, `UpdateInput`, `UpdateOutput` |
| `Plug`, `Unplug`, `SwitchNative`, `Broadcast`, `Restart` | Windows and the end of the process |

### ConfigStore

Every save of the program, in both threads, is a list of jobs on one file each; a job
reads, asks the gate (`ConfigWriteAllowed`), writes a temporary file and replaces.
A file that cannot be read is preserved and marked before anything else. The eight stores
differ only in what they check, and the model has each with its own checks (`Versioned`,
`Guarded`, `Accepted`, the lenient first read of the game profiles). `Damage` happens
while the program is not running, as the code assumes; `Die` happens anywhere.
The engine file has for each wheel the name of the active profile and the range of `Custom`, the
one the user stores. `ApplyNativeEngineProfile` is the one operation that writes file and wheel: read both
profiles (`Look`), stop, set the range, store the name, and set the former range again if the store fails. Beside it
the range is set alone (`NativeOutputApplyRange`), and a profile is made the active one or rewritten
without the wheel (`SetActiveNativeEngineProfile`, `SaveNativeEngineProfile`: "Lenkwinkel nur gespeichert"). What `Look`
reads as the former range comes after the rewrite of `Custom` that precedes it, and is the built-in one when
the read fails.

### Setup

One thread, but nested message loops: the open boxes are a stack, the handler under a
box keeps what it read, and only the box's own window is disabled. The migration in the
other process is what its journal says; a goroutine waits for it and posts its end.
`showSetupGuideWindow`, the keys, `Forward`, `Back`, `Close`, `NeverAgain`, `executeSetupPlan` with `PlanDeclined`
and `PlanConfirmed`, the toggles of the main window with their risk box, the reset of the settings,
the loading of `settings.json` in every state of health and both ways a start of the program
offers the assistant are actions.

### SelectedWheel, WheelCommands, Calibration, Certification, FFBPanel, WheelPage

A handler of the wheel page reads the state of the last scan, and a dialog the state it
was opened with, while wheels are plugged and unplugged: `app.seen` and `tool.s` may be
older than `bus`. A sample carries a stamp (wheel, session, source), or none when the wheel
is not confirmed, or the one of the selected wheel when WinMM read another.

`WheelCommands` maps what a command finds to what it may leave: it fails before, after or in the
middle of its writes, and a write that fails may have arrived. A test or a session is a
lease with a user: its worker may end by itself (`OutputEnds`), and a lease whose stop
could not be proved is `left`.

| Steps | Code |
|---|---|
| `startInlineCalibration`, `captureInlineCalibration`, `closeInlineCalibration` | the assistant on the page, one capture of any kind with its save at the last one |
| `Learn`, `LearnCapture`, `LearnFails` | the dialogs of the input tools |
| `Paint`, `d6OnMouseDown`, `d6OnMouseUp`, `ClickProfile`, `ClickShape`, `ClickTest`, `ClickNeutral`, `ClickProbe`, `ClickNative` | the panel |
| `showNativeOutputTools`, `UseOutputTool`, `showTelemetryTools`, `StartNativeGameOutput`, `StopNativeGameOutput` | the dialogs with what they order |
| `showHardwareCertificationAssistant`, `AutoCheck`, `recordCertificationFromUser`, `certifySteering`, `RangeStart`, `RangeAnswer`, `EffectStart`, `EffectAnswer`, `ResetHardwareCertification` | the certification |
| `RefreshReads`, `RefreshFills` | `HardwareCertificationProgress` in the refresh goroutine: `loadHardwareCertification` |

Abstractions: readings are data (a position out of three, one of three axes, one of two
signatures); the checks that take samples are one; what the user judged and what the samples showed
is left out, so only the verdicts of the motor checks are looked at; the two seconds of the
cache are a load of the UI thread that finds either the cache or the file, in one step with its save. The refresh reads the file
outside the lock and sets the cache later, which are two steps (`filling` is what it holds between
them, `missed` what was saved meanwhile). A gain stands for
all gains of a profile and a shape for all of the signal shaping. With `OnePart` a behaviour uses one of
the three parts, with selection, game sessions and stops beside it; the run sets it, because the three share
nothing but the wheels and the lease, and the theorems hold without it, too.

## 3. Runs

| Run | Question | Answer |
|---|---|---|
| `lease` | `Exclusive`, `Backed`, `NotLeaked` with two processes, two OS threads and two switching goroutines each | hold |
| `motor_sessions` | `TypeOK`, `ForceCovered`, `SingleWriter`, `StopMeansNeutral`, `KeepsContract` for sessions, autocenter tests, recoveries and stops of the UI thread beside the refresh goroutine's game stop | hold up to the first gap |
| `motor_tests` | `ForceOwned`, `CallsReturn`, `TestEnds` when the UI thread alone runs tests of all kinds, LEDs, profile changes and stops | hold |
| `hid_session` | `ClosedOnce`, `NoLeak`, `LatestIsLive`, `AmbiguousNotReused`, `SessionReopens` for a G27 that is polled, written to and switched by two goroutines | hold |
| `update` | `ExeComplete`, `Restorable`, `LeftNeutral`, `RollbackWorks`, `AppComesBack` for a standalone and an installed program and three releases | hold |
| `migration` | `OneAtATime`, `RollbackRestores`, `JournalsEnd` for two migrations, one failure and one process that ends, or a cancellation that comes too late | hold |
| `game_force` | `ForceNeedsAuthority`, `StoppedNeutral` for two games, two goroutines that start and stop listeners, a lost report and a change of the tuning | hold |
| `selection` | `ConfirmationBound`, `EngineBound`, `TransitionSeen`, `SelectionHeld` for two wheels of different models, one with a serial number, that change places under scans, one of which may fail or be given an empty bus | hold |
| `history_in_place` | does a model learned from a native PID stay with its wheel (`HistoryBound`)? | no |
| `store` | `RangeFollowsProfile`, `OnlyResetReplaces`, `NeverTorn` for eight files, two ranges, two threads, one failure and one damaged file | hold |
| `setup` | `PastBoundary`, `RunningTracked`, `RunEnds` for keys, buttons, boxes, a migration and two starts with a damaged settings file | hold |
| `wheel_page` | `CalibrationSound`, `StatusTrue`, `PassLeavesSafe`, `EvidenceKept` for two ports, two wheels, one further plug and one failure, beside a refresh | hold |

`history_in_place` ends in a counterexample on purpose: a wheel under C294 takes over
the model once seen in its socket although another wheel decides the aggregate model, which
the comment at `system/wheels_windows.go:190` excludes; it is listed under "findings".
The type invariants of the modules without `TypeOK` in their run were checked while the
modules were written.

Bounds, by the names of the CONSTANTS that set them. Each is a guard of the actions that count.

- `motor_*`: `MaxGen = 2` gives two sessions per process life, enough for a session and its
  successor (a stale copy, a late callback, a replaced session); `MaxFaults = 1` lets any one write or marker
  operation fail, at any place; `MaxCrashes = 1` gives a process and its successor.
  `motor_tests` has no process end, LEDs for all other writes and no recovery, so that its liveness keeps a state space TLC
  finishes. `motor_sessions` has `CONSTRAINT NoGap`: its properties are checked up to the first state of a gap, in which
  nothing is wrong yet, and not behind it. `TestEnds` of a spring names the two ways in which it does not end by
  itself: a stop has failed and said so (`StopFailed`), or the late callback of the test before took its
  timer (`Overtaken`, section 7).
- `lease`: `MaxGeneration = 3` leases per process cover a lease, the one acquired while it is being
  released and a third; `MaxDepth = 3` bounds the nesting at which a switch begins.
- `hid_session`: `MaxOpens = 2` with two handle values gives a session and its successor under either
  handle value, or a session and a transport of a mode switch, and `MaxFaults = 1` one
  failed call; when the bound is used up every open fails, so the model never stops there, and
  `SessionReopens` asks nothing more.
- `update`: `MaxVersion = 3` is the running release and two newer ones, enough for a check and a
  download of different releases to overlap; two process ids, of which the one a replacer
  waits for is not given away, are the program that closed and the one the user starts.
- `migration`: two `Tokens` are a migration and the next one; one failure or one death reach every
  rollback. `SYMMETRY` is sound because the two are interchangeable, and no liveness is checked. `CONSTRAINT OneTrouble`
  stops where a journal that was cancelled too late meets a failure or a death besides. `Unbound = FALSE` and `ListFails = FALSE` leave out packages that drive no wheel and a
  journal directory that cannot be listed: with the latter `OneAtATime` does not hold (section 7).
- `game_force`: `Full = 2`, `Slew = 1` make a force that takes two steps to come and to go;
  two adapters are the current one and the one that replaces it; one session, one call of the telemetry
  beside its own and one change of the tuning are what the pump can meet. The longest bound is `Horizon`, after
  which a force must be gone: the last frame goes stale, the two filters run out one after the other, the slew follows.
- `selection`: two containers are a wheel and the one that replaces it; `history_in_place` needs four
  (each of two wheels comes twice). One command and one failure, which is a failed or an empty
  enumeration or a write that fails.
- `store`: three operations, so that two threads can be in a save each while a third follows, and a profile can be
  applied, rewritten and applied again; two ranges, one of them the built-in one; one failure, one damaged file.
- `setup`: six pages with the migration on the third stand for eight with it on the fourth: there is
  still more than one page on each side. Two boxes are one in each window; one migration, two starts, one damage.
- `wheel_page`: the first wheel is there at the start; one more plug replaces it or adds the
  second; `MaxActs = 2` controls of one part (`OnePart`) are used beside captures, answers, selection and sessions.
  A refresh reads the evidence only under the open menu of the certification, when two checks may follow, and fills the cache when
  one may: any other read and fill is one that no check falls between. One refresh runs at a time (`busy` in the app).
  `CONSTRAINT OneTrouble` stops where such a read or what it missed meets a failure besides.
  Three axes, two signatures for two gears: as many as it takes to capture one twice.

Where a run has `CHECK_DEADLOCK FALSE` the system may stop: a helper that dies between the two renames
leaves nothing to start, a user may do nothing, and the bounds end a behaviour.

Fairness. `MotorOutput` gives weak fairness to each caller, each callback and each worker step
except `Tick` and `Hang`: Go schedules its goroutines, the two-second select, the test's
duration and the autocenter timer run out. Nothing is assumed of a worker inside a HID write
(`Hang`), of the user, or of a process end. `LeaveLoop` is fair because it is continuously
enabled once a session is cancelled or its time is over. `HidSession` has weak fairness of
each caller's steps, of the back-off timers and of a report handed to the driver, and strong
fairness of the UI timer's polls, because the timer ticks again whenever the UI thread is free of
other calls; nothing is assumed of the read loops, which wait for the wheel. `Update` has
weak fairness of the replacer, a process that waits for nothing but the end of another, and of
the posted `WM_CLOSE`; the user, the downloads and the motor may do nothing for ever.
`Setup` has weak fairness of the goroutine that polls the journal until its deadline and of
the message loop that dispatches its result. The other modules state safety only and assume none.

## 4. Proofs

TLAPS proves these for every value of the constants, from the named assumptions on them
(`LeaseAssumption`, `MotorAssumption`, `HidAssumption`, `UpdateAssumption`, `MigrationAssumption`,
`SelectionAssumption`, `StoreAssumption`, `SetupAssumption`, `TelemetryAssumption`, `SchedulerAssumption`,
`GameForceAssumption`, `SelectedWheelAssumption`, `CalibrationAssumption`, `PanelAssumption`): sizes are numbers, special values are
not among the others. Where a theorem needs more, its statement says so, and the text below why.
Each module proves one inductive invariant, action by action, and draws its theorems from it; each of
these invariants was checked by TLC on the instance of its run before it was proved.

- `OutputProofs`, in two parts: who may write, and what a game's session writes.
  `TypeCorrect`, `LeaseIsExclusive`, `LeaseIsBacked`, `MutexIsNotLeaked` are of `OutputLease`. None of the three is inductive. The strengthening counts: a lease,
  a release, a pending acquisition and a switch each have their own open handle
  (`HandleAccount`), and a process that holds a lease or switches is the owner's
  process, with `depth` waits that are all accounted for (`OwnerAccount`).
  `GameTypeCorrect`, `ForceIsAsked` (`ForceNeedsAuthority`) and `StopIsAtRest` (`StoppedNeutral`) are of `GameForce`, for every
  filter, slew limit and staleness. `Aged` bounds the number of pumps since a frame last asked for force by the age
  of the last frame, which counts only while the watchdog has not cut it off; `Falling` says that after that the low-pass runs out pump by pump,
  then the smoothing, whose output may still have grown meanwhile, and then the force falls by one slew step per pump, so that
  it is gone within `Horizon`; `Applied`
  that what the wheel has is what was pumped last; `Phases` what the engine holds at each phase of a session, `Blank` and
  `Named` what is there before one begins and which adapter it was begun with.
- `MotorOutputProofs`, in three parts.
  - `TypeCorrect`, which needs that a caller past its acquisition has a token (`TokenHeld`).
  - `OnlyTheHolderWrites`, that is `SingleWriter`, under `OneStarter` (callers other than the
    UI thread only end a game's output). The inductive invariant `Safe` says, besides: no copy of a
    generation is newer than the counter (`Issued`); a live worker, which is also one that
    has still to give back its lease, owns the lease and is the session nativeFFB waits
    for (`LiveOwned`); between the confirmed end of a worker and the next start nobody
    writes (`QuietNow`); a waiting UI thread waits for the current session (`Awaiting`);
    workers and callbacks of sessions to come have not run (`Fresh`); a session with a
    timer has no worker (`Watched`). `OneStarter` cannot be dropped (section 7).
  - `ForceIsOwned`, that is `ForceOwned`, under `OneStarter`: `Hold` says of each thread what it may have
    on the wheel while it is at which step. `ForceIsCovered`, `StopIsNeutral` and the refinement
    `CoordinatorKeepsContract` are of the same callers with all their operations, autocenter tests and
    recoveries included, and say `Spec /\ []NoGap => ...`: what they claim holds in every behaviour that reaches none of the three
    windows of `Gap`, in which a timer or a recovery that comes late is about to delete the marker of the session
    after it (section 7). That is what `motor_sessions` checks, too. `StopsAreComplete` needs no `NoGap`: whatever came late, a
    stop that reports success has given back the lease, and nothing this process started still plays. `Cover` ties the marker to the
    wheel at each step; the refinement goes action by action, each step to a step of the contract
    or to a stutter. `ContractKept` is the state invariant of the contract itself.
- `HidSessionProofs`: `TypeCorrect`, `HandlesClosedOnce`, `NothingLeaks`, `ReportIsLive`,
  `UnknownIsNotReused`, all but the first under `OnlyG27`: the classic read loop does
  close a handle twice (section 7). `OwnsSoundly` says that what somebody is about to close is
  the open he holds and nobody else's; `Known` that a copy of a session is of an open there has been;
  `Tainting` and `Reading` follow an unknown write and a read to the session that is shared.
- `UpdateProofs`: `TypeCorrect`, `ExeIsComplete`, `OldIsRestorable`, `ReplacedInNeutral`.
  `Complete` says where nothing half written may be, `OldKept` where the old program lies at each step of the
  replacer, `Waited` which process it waits for and that its id is not given away.
- `MigrationProofs`: `TypeCorrect`, `JournalsAreClosed` (`JournalsEnd`), `MigrationsAreAlone` (`OneAtATime`)
  under `Listed`, `RollbackIsExact` (`RollbackRestores`) under `Listed` and `Bound`. A journal that is
  open is the work of a living process or about to be cancelled (`Owned`); if no process died, and leaving out journals that
  were cancelled after their process had read them (`late`), there is one such journal (`Alone`), because the next
  migration looks for it first; this look fails when journals cannot be listed, so `Listed` cannot be dropped. Both properties
  name `late` themselves: no hypothesis of the theorem excludes it. `Forward` and `Backward` say at each step what drives the wheel,
  what lies in the store and what the journal's backup holds, against what the process has found. `Bound` is needed because
  a rollback binds the packages of its backup, also one that drove no wheel before.
- `SelectionProofs`: `TypeCorrect`, `ConfirmationsAreBound`, `EngineIsBound`, `TransitionsAreSeen`, and the action
  property `SelectionIsHeld`. A wheel in a state or a scan shows the serial number of its session,
  and a model by confirmation is its own (`Sounding`); a confirmation names the wheel of its session, and one that is
  kept that of its serial number (`Trustworthy`). While nothing is pending, what a scan carries
  and what the state shows is what is attached (`Seen`), unless its enumeration failed or was `blind`; `Keeping` is that a scan saves no selection where it has read a place.
- `ConfigStoreProofs`: `TypeCorrect`, the action properties `BadFilesAreKept` (`OnlyResetReplaces`) and `FilesAreWhole`
  (`NeverTorn`), and `RangeIsNamed` (`RangeFollowsProfile`) under `OneApplier`: only the UI thread applies
  profiles. With two appliers one's range may follow the other's profile (section 7).
  The agreement is claimed while `settled`: since the end of an apply, and until a range is set or a profile stored by itself.
  `Control` gives each thread what its step has read, `Files` and `Cleared` what a flag says of a file, `Down` what
  is left when the process has ended.
- `PageProofs`, in two parts.
  - The assistant: `TypeCorrect`, `NotPastBoundary`, `RunIsTracked`. Pages and what is stored to be resumed lie before the
    migration unless one has succeeded (`WindowFits`, `BoxesFit`, `Good` of the stored settings), a plan is
    followed by one goroutine (`PlanAlone`, `RunningTracked`), and success is reported of a migration that
    succeeded (`SuccessTrue`).
  - The wheel page: `PageTypeCorrect`, `CalibrationIsSound`, `StatusIsTrue`, and the action properties `PassesLeaveSafe`
    and `EvidenceIsKept`, for behaviours that use one part of the page or all of them. Each command of `WheelCommands` has a
    lemma on its outcomes: which fields it leaves as they were, and what success says of the others. What they
    need of the state is `Held`: a driven wheel is the one of the lease (`Driven`), so a lease that is free
    means that nothing is driven, and an active custom profile exists (`Loaded`). `Whole` says of the work of a
    capture what has been collected up to its step; it is why the last capture finds every gear and both
    pedals (`Storable`), also after a save that failed and left its capture behind. `Remembered` says that the cache, and
    what a refresh is about to put there, have a result for every check in the file whose reset was not asked for and which was not
    saved while that refresh was reading (`missed`); it is why a save from the cache loses nothing else. An open assistant has a wheel that is confirmed (`Certifying`), which gives what it records
    a key.

Only model-checked:

- liveness (`CallsReturn`, `TestEnds`, `SessionReopens`, `RollbackWorks`, `AppComesBack`, `RunEnds`): fairness and
  `ENABLED` are out of the prover's reach.

Every invariant and every action property of the runs that pass is stated by a theorem.

No module declares a RECURSIVE operator.

## 5. Plan

Done: all modules of section 2 with their runs, and a theorem for each of their invariants and action properties.

Left, in this order:

1. The two hazards of the recovery marker and of the refresh goroutine that `PROJECT.json` lists without a property (section 7),
   and what can still be claimed of the coordinator behind a gap.
2. A larger game instance (two sessions of two games), which TLC does not finish within the time a run has.

## 6. Not modelled

Drawing, layout, accessibility, texts and the pages that only show something; the parsing of telemetry
packets and HID reports; the waveforms and the floating-point shaping of force; registry, SetupAPI and INF
details below "a package drives the wheel"; the stress tests and diagnostic reports, which
write nothing another part reads; ZIP and path checks, asset choice, signatures, shortcuts and registry
entries of an update; the two-phase reports and the re-enumeration wait of a mode switch; the automatic
detection of pedals, curves and dead zones; manual backup and restore outside a migration; the installer's own
window. `internal/openg27port` is a reference copy that the program does not call.

Hazards that are real, modelled, and claimed by no property, beside those in `PROJECT.json`:

- a write that passed its health check may reach a handle value that was given away meanwhile
  (`system/native_transport_windows.go:606`; a behaviour of `HidSession`, the code only narrows the window);
- the user starts the program while the helper replaces it (`app/update_helper_windows.go:272`; `UserStarts` happens at any time;
  a running image cannot be replaced, and the step fails);
- a second download of the same release removes the file an update was authorized to copy
  (`system/update_windows.go:353`; the copy fails, the old version stays at its path, and the helper starts nothing: `app/update_helper_windows.go:275`);
- a check and a download of different releases overlap (`app/updater_windows.go:134`; the record of the file that
  is offered is compared before it is used);
- an authorization that is used twice or too late (`app/update_helper_windows.go:86`; it is removed before it is looked at).

## 7. What does not hold

Each of these was met while modelling, most as a counterexample of a property or bound that the runs
above then leave out, and says what a stronger claim would run into. A property is claimed only where its cause is excluded, as
named in section 3.

Motor and handles:

- A mode switch on the OS thread whose wait won the lease is granted while the lease is held, because a Windows
  mutex nests (`system/g27_shared_hid_windows.go:562`): `lease` claims exclusion between processes, not between a switch and a
  lease of one process.
- Three gaps, behind which `motor_sessions` and the theorems about marker, stop and contract claim nothing: a refresh that
  completes in a session deletes the session's marker (`system/release_hardening_windows.go:370`); so does the callback of a
  former autocenter test that passed its lease check before the session began; a game may be started over the spring a process
  before this one left on, whose marker the game's stop then clears. The wheel may then be driven without a marker.
- A profile applied by the refresh goroutine releases the lease a test has just acquired
  (`system/native_engine_profiles_windows.go:224`); the callback of an autocenter test may take the timer of its successor
  (`system/native_output_windows.go:371`), which then does not end by itself; an FFB status may stay active without a session (`system/native_ffb_windows.go:391`).
- The classic read loop may close a handle twice, or another session's (`system/classic_shared_hid_windows.go:179`).
- An emergency stop reports an error after the worker brought the wheel to rest when the caller's state has no confirmed wheel.

Update, migration, set-up:

- Two failures, or an end of the helper, between the renames of an update leave no program at its path; after a replacement
  that failed the helper starts nothing, so the user has to.
- A migration that cannot write its journal stops without rolling back and the journal is closed; journals that cannot
  be listed do not keep a second migration from starting.
- The user's process cancels a journal by its clock (`app/setup_windows.go:684`). An elevated process that has read it by then
  writes "running" over the cancellation or is already at work, while the next migration may begin beside it, and a rollback then
  need not restore what the other one changed.
- The reset of the settings turns native output off without stopping the motor; the risk box writes back a copy of the
  settings from before it opened; the plan that is confirmed is not read again after its box (`app/setup_windows.go:609`).
- An assistant opened before the timer of the stable start fires keeps the rest of the start from ever running; a
  notice enables the main window under an open dialog; a user who cancels while Windows starts the elevated
  process may read "failed" while the migration runs.
- A marker that cannot be removed after a reset, and a preservation that fails while settings load, leave memory and file
  different: the next save may overwrite the file.

Store and selection:

- Read, change and write are not locked against the other thread, so one of two saves of a file may be lost; with
  profiles applied by both threads range and stored profile may differ.
  They differ, too, after a profile is stored with native output off and until it is applied. The former profile is read
  leniently: when that read fails, an apply that cannot store its name writes the built-in range back. After a failed lenient read a save of a
  game profile loses the others.
- A reset of the detection leaves `wheel-native-history.json.corrupt`, so learning stays blocked; confirmations in
  `wheel-confirmations.json` survive it although the dialog says they do not; there is no reset for them.
- An enumeration that Windows returns empty while nothing changed takes the wheels away until the next scan, which no
  announcement brings about.
- The set-up window marks a replaced wheel by its socket alone; cached WinMM names live until the next `WM_DEVICECHANGE`; a
  refresh asked for while one runs is dropped.

Wheel page:

- Game output can be started from the telemetry menu with native output off; it starts with the game's profile and any later
  change in the panel replaces that with the wheel's.
- A session whose stop failed stays "active" in `fusionC6`, so the panel calls a change live though nothing runs, and a
  later emergency stop does not clear it.
- The tests "nach links" are always refused, since `StartNativeConstantForceTest` asks for a positive force.
- Samples of an unconfirmed wheel carry no identity, so a pedal calibration cannot tell that such a wheel was replaced
  (`app/calibration_rework_windows.go:412` compares it); steering, button and shifter captures are not compared at all.
- A gear map that could not be saved keeps its last signature, so a further one is taken for reverse; pedals that could not be
  saved keep their axes, so the capture cannot be repeated; the guard of the shifter wizard
  (`app/calibration_rework_windows.go:480`) cannot become true because the caller has cleared the error.
- The draft of one wheel is stored for another when the selection changes before the next paint; the
  tuning dialog stores without updating a running session.
- The refresh goroutine reads the evidence outside the lock and sets the cache later
  (`system/hardware_certification_windows.go:102` and `:123`): a check saved between is not in what it sets, and the next check
  saved within two seconds drops it from the file; records removed by a reset come back the same way. The map in the cache is shared
  by reference with the goroutine that reads it, which the model, whose maps are values, does not show.
- Damaged evidence cannot be reset, because the reset loads it first; a result whose save failed stays in the
  cache and is stored by the next save; the automatic check judges the state the assistant was opened with; a range check leaves 900
  degrees whatever the active profile says.
