-------------------------------- MODULE Update --------------------------------
(***************************************************************************)
(* An update of LogiMate, from the check for a release to the restart      *)
(* (src/internal/app/updater_windows.go, update_helper_windows.go,         *)
(* src/internal/system/update_windows.go, src/cmd/installer).              *)
(*                                                                         *)
(* The running program checks and downloads in goroutines. When the user   *)
(* agrees it neutralises the wheel, launches a replacer and closes its     *)
(* window. The replacer is a copy of the program with a one-shot           *)
(* authorization, or, for an installed program, the downloaded setup; the  *)
(* user may also run a setup by hand. It renames program files and starts  *)
(* the new version, or goes back to the old one.                           *)
(*                                                                         *)
(* A step is a file operation, a critical section or a process event.      *)
(* Versions are numbers; the content of a file is a version, Partial, or 0 *)
(* if there is no file. The other files of a portable package, whose copy  *)
(* only ever warns, are left out.                                          *)
(***************************************************************************)
EXTENDS Naturals

CONSTANTS Kinds,      \* of the program: "standalone" (portable alike), "installed"
          Partial,    \* the content of a file that is not completely written
          MaxVersion, \* the newest release
          Pids,       \* process ids
          MaxFaults   \* bound on failed operations and on processes that die

Versions == 1..MaxVersion
Files == {"exe", "new", "previous", "failed"}
Contents == Versions \cup {0, Partial}

ASSUME UpdateAssumption ==
  /\ Kinds \subseteq {"standalone", "installed"} /\ Kinds # {}
  /\ Partial \notin Nat
  /\ 0 \notin Pids
  /\ MaxVersion \in Nat \ {0} /\ MaxFaults \in Nat

VARIABLES
  kind,        \* currentUpdateTarget
  file,        \* LogiMate.exe and its .new, .previous and .failed
  staged,      \* downloads that are complete on disk
  app,         \* the running program, its process id 0 if there is none
  ui,          \* what the UI thread does
  offer,       \* the download that the user was asked about
  latest,      \* latestLogiMateUpdate
  downloaded,  \* downloadedLogiMateUpdate
  dl,          \* the download goroutine
  marker,      \* the process that wrote runtime-output.pending, 0 without the file
  replacer,    \* update helper or setup
  faults

memory == <<app, ui, offer, latest, downloaded, dl>>
vars == <<kind, file, staged, memory, marker, replacer, faults>>

Busy == {"consume", "wait", "settle", "copy", "copying", "retire", "move", "activate",
         "restore", "start", "verify", "discard", "back", "again"}

TypeOK ==
  /\ kind \in Kinds
  /\ file \in [Files -> Contents]
  /\ staged \subseteq Versions
  /\ app \in [pid : Pids \cup {0}, version : 0..MaxVersion]
  /\ ui \in {"idle", "prompt", "stop", "apply", "launch", "closing"}
  /\ offer \in 0..MaxVersion /\ latest \in 0..MaxVersion /\ downloaded \in 0..MaxVersion
  /\ dl \in [at : {"none", "fetch", "rename", "publish"}, version : 0..MaxVersion]
  /\ marker \in Pids \cup {0}
  /\ replacer \in [at : Busy \cup {"off"}, by : {"helper", "setup"}, version : 0..MaxVersion,
                   pid : Pids \cup {0}, old : Contents]
  /\ faults \in 0..MaxFaults

NoApp == [pid |-> 0, version |-> 0]
NoDownload == [at |-> "none", version |-> 0]
NoReplacer == [at |-> "off", by |-> "helper", version |-> 0, pid |-> 0, old |-> 0]

Init ==
  /\ kind \in Kinds
  /\ file = [f \in Files |-> IF f = "exe" THEN 1 ELSE 0]
  /\ staged = {} /\ marker = 0
  /\ app = NoApp
  /\ ui = "idle" /\ offer = 0 /\ latest = 0 /\ downloaded = 0 /\ dl = NoDownload
  /\ replacer = NoReplacer
  /\ faults = 0

Fault == faults < MaxFaults /\ faults' = faults + 1
Running == app.pid # 0

-----------------------------------------------------------------------------
(* The program: processes and motor.                                       *)

\* A process that finds another one holding the instance lock ends at once. The id
\* of a process that a replacer waits for is not given away.
Started(v) ==
  IF Running THEN UNCHANGED app
  ELSE \E p \in Pids \ {replacer.pid} : app' = [pid |-> p, version |-> v]

UserStarts ==
  /\ ~Running /\ file["exe"] \in Versions
  /\ Started(file["exe"])
  /\ UNCHANGED <<kind, file, staged, ui, offer, latest, downloaded, dl, marker, replacer, faults>>

Ended == app' = NoApp /\ ui' = "idle" /\ offer' = 0 /\ latest' = 0 /\ downloaded' = 0 /\ dl' = NoDownload

\* WM_CLOSE: the lifecycle stop leaves the marker if it fails; the window closes anyway.
Close ==
  /\ Running /\ ui \in {"idle", "closing"}
  /\ Ended
  /\ \/ marker' = 0 /\ UNCHANGED faults
     \/ marker # 0 /\ Fault /\ UNCHANGED marker
  /\ UNCHANGED <<kind, file, staged, replacer>>

AppDies ==
  /\ Running /\ Fault /\ Ended
  /\ UNCHANGED <<kind, file, staged, marker, replacer>>

\* A motor session begins or ends; while a message box is open too.
Motor ==
  /\ Running /\ ui \in {"idle", "prompt", "closing"}
  /\ marker' \in {0, app.pid}
  /\ UNCHANGED <<kind, file, staged, memory, replacer, faults>>

-----------------------------------------------------------------------------
(* Check and download: checkForUpdatesAsync, downloadUpdateAsync.          *)

CachedSame(v) == latest = v /\ downloaded # 0

\* The check found release v.
Checked(v) ==
  /\ Running /\ v > app.version
  /\ latest' = v
  /\ downloaded' = IF CachedSame(v) THEN downloaded ELSE 0
  /\ UNCHANGED <<kind, file, staged, app, ui, offer, dl, marker, replacer, faults>>

\* A release found by this or an earlier check, one download at a time.
Download(v) ==
  /\ Running /\ v > app.version
  /\ dl.at = "none"
  /\ dl' = [at |-> "fetch", version |-> v]
  /\ UNCHANGED <<kind, file, staged, app, ui, offer, latest, downloaded, marker,
                 replacer, faults>>

\* The .partial file is fetched and compared with its SHA-256 sum; then the former
\* download of that release is removed.
Fetched ==
  /\ dl.at = "fetch"
  /\ \/ dl' = [dl EXCEPT !.at = "rename"] /\ staged' = staged \ {dl.version} /\ UNCHANGED faults
     \/ Fault /\ dl' = NoDownload /\ UNCHANGED staged
  /\ UNCHANGED <<kind, file, app, ui, offer, latest, downloaded, marker, replacer>>

RenameFinal ==
  /\ dl.at = "rename"
  /\ \/ staged' = staged \cup {dl.version} /\ dl' = [dl EXCEPT !.at = "publish"] /\ UNCHANGED faults
     \/ Fault /\ dl' = NoDownload /\ UNCHANGED staged
  /\ UNCHANGED <<kind, file, app, ui, offer, latest, downloaded, marker, replacer>>

\* The publisher is verified; otherwise the file is removed.
Publish ==
  /\ dl.at = "publish"
  /\ dl' = NoDownload
  /\ \/ latest' = dl.version /\ downloaded' = dl.version /\ UNCHANGED <<staged, faults>>
     \/ Fault /\ staged' = staged \ {dl.version} /\ UNCHANGED <<latest, downloaded>>
  /\ UNCHANGED <<kind, file, app, ui, offer, marker, replacer>>

-----------------------------------------------------------------------------
(* Apply: handleUpdateDownloaded, applyDownloadedUpdate.                   *)

Ui(from, to) == ui = from /\ ui' = to

Prompt ==
  /\ Running /\ latest # 0 /\ downloaded # 0
  /\ Ui("idle", "prompt")
  /\ offer' = downloaded
  /\ UNCHANGED <<kind, file, staged, app, latest, downloaded, dl, marker, replacer, faults>>

Answer ==
  /\ Ui("prompt", "stop") \/ Ui("prompt", "idle")
  /\ UNCHANGED <<kind, file, staged, app, offer, latest, downloaded, dl, marker,
                 replacer, faults>>

\* Emergency stop, release, look for the marker.
StopOutput ==
  /\ \/ Ui("stop", "apply") /\ marker' = 0 /\ UNCHANGED faults
     \/ Ui("stop", "idle") /\ Fault /\ UNCHANGED marker
  /\ UNCHANGED <<kind, file, staged, app, offer, latest, downloaded, dl, replacer>>

\* createUpdateAuthorization.
Authorize ==
  /\ kind = "standalone"
  /\ \/ offer \in staged /\ Ui("apply", "launch") /\ UNCHANGED faults
     \/ offer \notin staged /\ Ui("apply", "idle") /\ UNCHANGED faults
     \/ Fault /\ Ui("apply", "idle")
  /\ UNCHANGED <<kind, file, staged, app, offer, latest, downloaded, dl, marker, replacer>>

\* launchNativeUpdateHelper: its executable cannot be replaced while it runs.
Launch ==
  /\ \/ /\ replacer.at = "off" /\ file["exe"] \in Versions
        /\ Ui("launch", "closing")
        /\ replacer' = [at |-> "consume", by |-> "helper", version |-> offer,
                        pid |-> app.pid, old |-> 0]
        /\ UNCHANGED faults
     \/ /\ replacer.at # "off" \/ file["exe"] \notin Versions
        /\ Ui("launch", "idle")
        /\ UNCHANGED <<replacer, faults>>
     \/ Fault /\ Ui("launch", "idle") /\ UNCHANGED replacer
  /\ UNCHANGED <<kind, file, staged, app, offer, latest, downloaded, dl, marker>>

Setup(v, pid) == [at |-> "wait", by |-> "setup", version |-> v, pid |-> pid, old |-> 0]

\* shellRunAs: the user may refuse, and there is one setup at a time.
LaunchSetup ==
  /\ kind = "installed"
  /\ \/ /\ replacer.at = "off" /\ offer \in staged
        /\ Ui("apply", "closing")
        /\ replacer' = Setup(offer, app.pid)
     \/ Ui("apply", "idle") /\ UNCHANGED replacer
  /\ UNCHANGED <<kind, file, staged, app, offer, latest, downloaded, dl, marker, faults>>

\* The user runs the newest setup by hand, which waits for nobody.
UserRunsSetup ==
  /\ kind = "installed" /\ replacer.at = "off"
  /\ replacer' = Setup(MaxVersion, 0)
  /\ UNCHANGED <<kind, file, staged, memory, marker, faults>>

-----------------------------------------------------------------------------
(* The replacer: runUpdateHelperIfRequested, performInstall.               *)

Go(from, to) ==
  /\ replacer.at = from
  /\ replacer' = IF to = "off" THEN NoReplacer ELSE [replacer EXCEPT !.at = to]

\* consumeUpdateAuthorization: unreadable, expired or another one's.
Consume ==
  /\ \/ Go("consume", "wait") /\ UNCHANGED faults
     \/ Go("consume", "off") /\ Fault
  /\ UNCHANGED <<kind, file, staged, memory, marker>>

Exited == app.pid = 0 \/ app.pid # replacer.pid

\* The setup gives up after 45 seconds.
Wait ==
  /\ \/ Exited /\ Go("wait", "settle")
     \/ ~Exited /\ replacer.by = "setup" /\ Go("wait", "off")
  /\ UNCHANGED <<kind, file, staged, memory, marker, faults>>

\* Mutant: the helper does not look for the marker.
NotBlocked == FALSE

\* RuntimeOutputRecoveryNeeded; the setup does not look.
Blocked == marker # 0 /\ replacer.by = "helper"

Settle ==
  /\ Go("settle", IF Blocked THEN "off" ELSE "copy")
  /\ UNCHANGED <<kind, file, staged, memory, marker, faults>>

\* The helper copies the download; the setup contains the program.
CopyBegins ==
  /\ IF replacer.by = "setup" \/ replacer.version \in staged
     THEN /\ Go("copy", "copying")
          /\ file' = [file EXCEPT !["new"] = Partial]
     ELSE /\ Go("copy", "off")
          /\ file' = [file EXCEPT !["new"] = 0]
  /\ UNCHANGED <<kind, staged, memory, marker, faults>>

\* Mutant: the error of the copy is ignored.
CopyErrorIgnored == "retire"

AfterCopyError == "off"

CopyEnds ==
  /\ \/ Go("copying", "retire") /\ file' = [file EXCEPT !["new"] = replacer.version] /\ UNCHANGED faults
     \/ Go("copying", AfterCopyError) /\ Fault /\ UNCHANGED file
  /\ UNCHANGED <<kind, staged, memory, marker>>

\* os.Remove(previous), whose error does not matter: the rename replaces it.
Retire ==
  /\ Go("retire", "move")
  /\ \/ file' = [file EXCEPT !["previous"] = 0] /\ UNCHANGED faults
     \/ Fault /\ UNCHANGED file
  /\ UNCHANGED <<kind, staged, memory, marker>>

Moved(from, to) == file' = [file EXCEPT ![from] = 0, ![to] = file[from]]

Move ==
  /\ replacer.at = "move"
  /\ \/ file["exe"] = 0 /\ Go("move", "activate") /\ UNCHANGED <<file, faults>>
     \/ /\ file["exe"] # 0
        /\ Moved("exe", "previous")
        /\ replacer' = [replacer EXCEPT !.at = "activate", !.old = file["exe"]]
        /\ UNCHANGED faults
     \/ file["exe"] # 0 /\ Fault /\ Go("move", "off") /\ file' = [file EXCEPT !["new"] = 0]
  /\ UNCHANGED <<kind, staged, memory, marker>>

Activate ==
  /\ \/ /\ Go("activate", IF replacer.by = "helper" THEN "start" ELSE "verify")
        /\ Moved("new", "exe")
        /\ UNCHANGED faults
     \/ /\ Go("activate", "restore")
        /\ Fault
        /\ UNCHANGED file
  /\ UNCHANGED <<kind, staged, memory, marker>>

\* The old program goes back if there was one, and .new is removed.
Restore ==
  /\ Go("restore", "off")
  /\ \/ /\ replacer.old # 0
        /\ file' = [file EXCEPT !["exe"] = file["previous"], !["previous"] = 0, !["new"] = 0]
        /\ UNCHANGED faults
     \/ replacer.old = 0 /\ file' = [file EXCEPT !["new"] = 0] /\ UNCHANGED faults
     \/ replacer.old # 0 /\ Fault /\ file' = [file EXCEPT !["new"] = 0]
  /\ UNCHANGED <<kind, staged, memory, marker>>

\* Mutant: the new version is not started.
NotRestarted == UNCHANGED app

Restarted == Started(file["exe"])

Start ==
  /\ \/ Go("start", "off") /\ Restarted /\ UNCHANGED faults
     \/ /\ Go("start", IF replacer.old = 0 THEN "off" ELSE "discard")
        /\ Fault
        /\ UNCHANGED app
  /\ UNCHANGED <<kind, file, staged, ui, offer, latest, downloaded, dl, marker>>

\* The setup cannot find the program: it removes it if it can go back.
Verify ==
  /\ \/ Go("verify", "off") /\ UNCHANGED <<file, faults>>
     \/ /\ Go("verify", IF replacer.old = 0 THEN "off" ELSE "back")
        /\ Fault
        /\ file' = IF replacer.old = 0 THEN file ELSE [file EXCEPT !["exe"] = 0]
  /\ UNCHANGED <<kind, staged, memory, marker>>

\* Mutant: the new version is put where the old one is kept.
AsidePrevious == "previous"

Aside == "failed"

\* rollbackExe: the new program is put aside, or overwritten by the next rename.
Discard ==
  /\ Go("discard", "back")
  /\ \/ Moved("exe", Aside) /\ UNCHANGED faults
     \/ Fault /\ file' = [file EXCEPT !["failed"] = 0]
  /\ UNCHANGED <<kind, staged, memory, marker>>

Back ==
  /\ \/ /\ Go("back", IF replacer.by = "helper" THEN "again" ELSE "off")
        /\ Moved("previous", "exe")
        /\ UNCHANGED faults
     \/ Go("back", "off") /\ Fault /\ UNCHANGED file
  /\ UNCHANGED <<kind, staged, memory, marker>>

Again ==
  /\ Go("again", "off")
  /\ file' = [file EXCEPT !["failed"] = 0]
  /\ \/ Started(file["exe"]) /\ UNCHANGED faults
     \/ Fault /\ UNCHANGED app
  /\ UNCHANGED <<kind, staged, ui, offer, latest, downloaded, dl, marker>>

\* Power loss, or the process is ended.
ReplacerDies ==
  /\ replacer.at # "off"
  /\ Fault
  /\ replacer' = NoReplacer
  /\ UNCHANGED <<kind, file, staged, memory, marker>>

-----------------------------------------------------------------------------
ReplacerStep ==
  \/ Consume \/ Wait \/ Settle \/ CopyBegins \/ CopyEnds \/ Retire \/ Move \/ Activate
  \/ Restore \/ Start \/ Verify \/ Discard \/ Back \/ Again

Next ==
  \/ UserStarts \/ Close \/ AppDies \/ Motor
  \/ \E v \in Versions : Checked(v) \/ Download(v)
  \/ Fetched \/ RenameFinal \/ Publish
  \/ Prompt \/ Answer \/ StopOutput \/ Authorize \/ Launch \/ LaunchSetup \/ UserRunsSetup
  \/ ReplacerStep \/ ReplacerDies

Spec == Init /\ [][Next]_vars

\* The replacer runs on, and a posted WM_CLOSE is handled.
FairSpec == Spec /\ WF_vars(ReplacerStep) /\ WF_vars(ui = "closing" /\ Close)

-----------------------------------------------------------------------------
(* Properties.                                                             *)

Replacing == {"copy", "copying", "retire", "move", "activate", "restore", "start", "verify",
              "discard", "back", "again"}

\* What is there to be started is a complete program, after any failure or crash
\* (replaceExeTransactional and performInstall write to .new first).
ExeComplete == file["exe"] # Partial

\* From the moment the old program is moved until the new one was started, the old
\* one can be put back (replaceExeTransactional, rollbackExe).
Restorable ==
  replacer.at \in {"activate", "restore", "start", "verify", "discard", "back", "again"}
    /\ replacer.old # 0
    => replacer.old \in {file["previous"], file["exe"]}

\* Files are touched only after the program that asked for it has ended
\* (waitForProcessExit, waitForProcess), and by the helper only if it has not left a driven
\* motor behind, although it was neutral when the helper was launched
\* (RuntimeOutputRecoveryNeeded after the wait).
LeftNeutral ==
  replacer.at \in Replacing =>
    /\ app.pid = 0 \/ app.pid # replacer.pid
    /\ replacer.by = "helper" => marker # replacer.pid

\* If the new version cannot be started the old one is put back, to be started
\* instead, unless something else fails (CHANGELOG.md:633).
RollbackWorks ==
  (replacer.at = "discard" /\ faults = 1)
    ~> ((replacer.at = "again" /\ file["exe"] = replacer.old) \/ faults > 1)

\* A program that has closed for its update runs again, the new or the old one, unless
\* something fails or the download was being replaced when it closed.
AppComesBack ==
  (replacer.at = "settle" /\ replacer.by = "helper" /\ replacer.version \in staged)
    ~> (Running \/ faults > 0)
=============================================================================
