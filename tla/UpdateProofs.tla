---------------------------- MODULE UpdateProofs ----------------------------
(***************************************************************************)
(* Proofs about an update, for any number of releases, processes and        *)
(* failures: what is there to be started is a complete program, the old     *)
(* program can be put back until the new one runs, and no file is touched   *)
(* before the program that asked for it has ended and left its motor        *)
(* neutral.                                                                 *)
(***************************************************************************)
EXTENDS Update, TLAPS

(* What may be started, or put back to be started, is a complete program,    *)
(* and so is the copy once it is put in place.                               *)
Complete ==
  /\ file["exe"] # Partial /\ file["previous"] # Partial
  /\ replacer.at \in {"retire", "move", "activate"} => file["new"] # Partial

(* Where the old program lies, from its move to the end of the replacer.    *)
OldKept ==
  /\ replacer.at \in {"consume", "wait", "settle", "copy", "copying", "retire", "move"}
       => replacer.old = 0
  /\ replacer.at \in {"activate", "restore", "start", "verify", "discard", "back"}
       /\ replacer.old # 0 => file["previous"] = replacer.old
  /\ replacer.at = "again" /\ replacer.old # 0 => file["exe"] = replacer.old

(* The helper waits for a process, which has ended when it looks for the     *)
(* marker, and whose id is not given away meanwhile.                         *)
Waited ==
  /\ ui # "idle" => app.pid # 0
  /\ replacer.at # "off" /\ replacer.by = "helper" => replacer.pid # 0
  /\ replacer.at \in Replacing \cup {"settle"} => app.pid = 0 \/ app.pid # replacer.pid
  /\ replacer.at \in Replacing /\ replacer.by = "helper" => marker # replacer.pid

(* A download is one of a release.                                          *)
Fetching == dl.at # "none" => dl.version # 0

IInv == TypeOK /\ Complete /\ OldKept /\ Waited /\ Fetching

-----------------------------------------------------------------------------

\* A version is not a file that is half written.
LEMMA Contents0 ==
  /\ 0..MaxVersion \subseteq Contents /\ Partial \notin 0..MaxVersion
  /\ Contents \ {Partial} = 0..MaxVersion
  /\ {0, 1, MaxVersion} \subseteq 0..MaxVersion /\ {0, 1, Partial} \subseteq Contents
  /\ 0 # Partial /\ 1 # Partial
<1>1. MaxVersion \in Nat /\ Partial \notin Nat
  BY UpdateAssumption
<1>2. 0..MaxVersion = 1..MaxVersion \cup {0}
  BY <1>1
<1>3. 0..MaxVersion \subseteq Nat
  BY <1>1
<1>4. {0, 1, MaxVersion} \subseteq 0..MaxVersion
  BY <1>1, UpdateAssumption
<1>5. Contents = 0..MaxVersion \cup {Partial}
  BY <1>2 DEF Contents, Versions
<1> QED
  BY <1>1, <1>3, <1>4, <1>5

\* A process that is started has another id than the one that is waited for.
LEMMA StartedFits ==
  ASSUME IInv, NEW v \in 0..MaxVersion, Started(v)
  PROVE  /\ app' \in [pid : Pids \cup {0}, version : 0..MaxVersion]
         /\ app.pid # 0 => app' = app
         /\ app.pid = 0 => app'.pid # 0 /\ app'.pid # replacer.pid
<1>1. CASE Running
  BY <1>1 DEF Running, Started, IInv, TypeOK
<1>2. CASE ~Running
  <2>1. PICK p \in Pids \ {replacer.pid} : app' = [pid |-> p, version |-> v]
    BY <1>2 DEF Started
  <2>2. p # 0
    BY UpdateAssumption
  <2> QED
    BY <1>2, <2>1, <2>2 DEF Running
<1> QED
  BY <1>1, <1>2

\* What a failure leaves of the count.
LEMMA FaultFits ==
  ASSUME TypeOK, Fault
  PROVE  faults' \in 0..MaxFaults
  BY UpdateAssumption DEF TypeOK, Fault

-----------------------------------------------------------------------------
(* The program.                                                             *)

\* A step of the program or its user that leaves the replacer and its files alone, gives
\* no process the id that is waited for, and writes no marker but its own.
LEMMA ProgramKeeps ==
  ASSUME IInv, TypeOK', Fetching', UNCHANGED <<file, replacer>>,
         ui' # "idle" => app'.pid # 0,
         app'.pid = app.pid \/ app'.pid = 0 \/ app'.pid # replacer.pid,
         marker' = marker \/ marker' = 0 \/ (app.pid # 0 /\ marker' = app.pid)
  PROVE  IInv'
<1>1. Complete' /\ OldKept'
  BY DEF IInv, Complete, OldKept
<1>2. Waited'
  BY DEF IInv, Waited, Replacing
<1> QED
  BY <1>1, <1>2 DEF IInv

\* Processes and motor.
LEMMA ProcessKeeps ==
  ASSUME IInv, UserStarts \/ Close \/ AppDies \/ Motor
  PROVE  IInv'
<1> USE DEF IInv, Fetching
<1>1. CASE UserStarts
  <2>1. file["exe"] \in 0..MaxVersion /\ Started(file["exe"])
    BY <1>1, UpdateAssumption DEF UserStarts, Versions
  <2>2. /\ app' \in [pid : Pids \cup {0}, version : 0..MaxVersion]
        /\ app.pid # 0 => app' = app
        /\ app.pid = 0 => app'.pid # 0 /\ app'.pid # replacer.pid
    BY <2>1, StartedFits
  <2>3. TypeOK'
    BY <1>1, <2>2 DEF UserStarts, TypeOK
  <2> QED
    BY <1>1, <2>2, <2>3, ProgramKeeps DEF UserStarts, Waited
<1>2. CASE Close \/ AppDies
  <2>1. Ended /\ UNCHANGED <<kind, file, staged, replacer>> /\ marker' \in {0, marker}
        /\ faults' \in 0..MaxFaults
    BY <1>2, FaultFits DEF Close, AppDies, TypeOK
  <2>2. TypeOK'
    BY <2>1, UpdateAssumption DEF TypeOK, Ended, NoApp, NoDownload
  <2> QED
    BY <2>1, <2>2, ProgramKeeps DEF Ended, NoApp, NoDownload
<1>3. CASE Motor
  <2>1. TypeOK'
    BY <1>3 DEF Motor, memory, TypeOK
  <2> QED
    BY <1>3, <2>1, ProgramKeeps DEF Motor, memory, Running, Waited
<1> QED
  BY <1>1, <1>2, <1>3

\* Check and download.
LEMMA DownloadKeeps ==
  ASSUME IInv, \/ \E v \in Versions : Checked(v) \/ Download(v)
               \/ Fetched \/ RenameFinal \/ Publish
  PROVE  IInv'
<1> USE DEF IInv, Fetching
<1>0. MaxVersion \in Nat /\ 0 \in 0..MaxVersion /\ Versions = 0..MaxVersion \ {0}
  BY UpdateAssumption DEF Versions
<1>1. ASSUME NEW v \in Versions, Checked(v)
      PROVE  IInv'
  <2>1. TypeOK'
    BY <1>0, <1>1 DEF Checked, TypeOK
  <2> QED
    BY <1>1, <2>1, ProgramKeeps DEF Checked, Waited
<1>2. ASSUME NEW v \in Versions, Download(v)
      PROVE  IInv'
  <2>1. TypeOK'
    BY <1>0, <1>2 DEF Download, TypeOK
  <2>2. v # 0
    BY <1>0
  <2>3. Fetching'
    BY <1>2, <2>2 DEF Download
  <2> QED
    BY <1>2, <2>1, <2>3, ProgramKeeps DEF Download, Waited
<1>3. CASE Fetched \/ RenameFinal \/ Publish
  <2>1. /\ UNCHANGED <<kind, file, app, ui, offer, marker, replacer>>
        /\ faults' \in 0..MaxFaults
    BY <1>3, FaultFits DEF Fetched, RenameFinal, Publish, TypeOK
  <2>2. dl.at \in {"fetch", "rename", "publish"} /\ dl.version \in 0..MaxVersion
    BY <1>3 DEF Fetched, RenameFinal, Publish, TypeOK
  <2>3. /\ dl' \in [at : {"none", "fetch", "rename", "publish"}, version : 0..MaxVersion]
        /\ latest' \in 0..MaxVersion /\ downloaded' \in 0..MaxVersion
    BY <1>0, <1>3, <2>2 DEF Fetched, RenameFinal, Publish, TypeOK, NoDownload
  <2>4. staged' \subseteq Versions
    <3>1. dl.version \in Versions
      BY <1>0, <2>2
    <3> QED
      BY <1>3, <3>1 DEF Fetched, RenameFinal, Publish, TypeOK
  <2>5. TypeOK'
    BY <2>1, <2>3, <2>4 DEF TypeOK
  <2>6. Fetching'
    BY <1>3 DEF Fetched, RenameFinal, Publish, NoDownload, TypeOK
  <2> QED
    BY <2>1, <2>5, <2>6, ProgramKeeps DEF Waited
<1> QED
  BY <1>1, <1>2, <1>3

\* The user agrees, the motor is stopped and the download is looked at.
LEMMA ApplyKeeps ==
  ASSUME IInv, Prompt \/ Answer \/ StopOutput \/ Authorize
  PROVE  IInv'
<1> USE DEF IInv
<1>1. /\ UNCHANGED <<kind, file, staged, app, latest, downloaded, dl, replacer>>
      /\ ui' \in {"idle", "prompt", "stop", "apply", "launch"}
      /\ marker' = marker \/ marker' = 0
      /\ app.pid # 0
  BY DEF Prompt, Answer, StopOutput, Authorize, Ui, Waited, Running
<1>2. faults' \in 0..MaxFaults
  BY FaultFits DEF Prompt, Answer, StopOutput, Authorize, TypeOK
<1>3. offer' \in 0..MaxVersion
  BY DEF Prompt, Answer, StopOutput, Authorize, TypeOK
<1>4. TypeOK' /\ Fetching'
  BY <1>1, <1>2, <1>3 DEF TypeOK, Fetching
<1> QED
  BY <1>1, <1>4, ProgramKeeps

\* A replacer begins: the helper waits for the program that launched it, the setup for that
\* program or for none.
LEMMA LaunchKeeps ==
  ASSUME IInv, Launch \/ LaunchSetup \/ UserRunsSetup
  PROVE  IInv'
<1> USE DEF IInv
<1>0. MaxVersion \in 0..MaxVersion /\ 0 \in Contents
  BY Contents0
<1>1. /\ UNCHANGED <<kind, file, staged, app, offer, latest, downloaded, dl, marker>>
      /\ ui' \in {ui, "idle", "closing"} /\ (ui' # "idle" => app.pid # 0)
  BY DEF Launch, LaunchSetup, UserRunsSetup, Ui, Waited, memory
<1>2. faults' \in 0..MaxFaults
  BY FaultFits DEF Launch, LaunchSetup, UserRunsSetup, TypeOK
<1>3. \/ replacer' = replacer
      \/ /\ replacer' = [at |-> "consume", by |-> "helper", version |-> offer,
                         pid |-> app.pid, old |-> 0]
         /\ app.pid # 0
      \/ replacer' = Setup(offer, app.pid)
      \/ replacer' = Setup(MaxVersion, 0)
  BY DEF Launch, LaunchSetup, UserRunsSetup, Ui, Waited
<1>4. TypeOK' /\ Fetching'
  <2>1. replacer' \in [at : Busy \cup {"off"}, by : {"helper", "setup"}, version : 0..MaxVersion,
                       pid : Pids \cup {0}, old : Contents]
    <3>1. /\ offer \in 0..MaxVersion /\ app.pid \in Pids \cup {0}
          /\ replacer \in [at : Busy \cup {"off"}, by : {"helper", "setup"},
                           version : 0..MaxVersion, pid : Pids \cup {0}, old : Contents]
          /\ {"consume", "wait"} \subseteq Busy
      BY DEF TypeOK, Busy
    <3>2. /\ Setup(offer, app.pid).version = offer
          /\ Setup(offer, app.pid) \in [at : Busy \cup {"off"}, by : {"helper", "setup"},
               version : 0..MaxVersion, pid : Pids \cup {0}, old : Contents]
          /\ Setup(MaxVersion, 0) \in [at : Busy \cup {"off"}, by : {"helper", "setup"},
               version : 0..MaxVersion, pid : Pids \cup {0}, old : Contents]
      BY <1>0, <3>1 DEF Setup
    <3> QED
      BY <1>0, <1>3, <3>1, <3>2
  <2> QED
    BY <1>1, <1>2, <2>1 DEF TypeOK, Fetching
<1>5. Complete'
  BY <1>1, <1>3 DEF Complete, Setup
<1>6. OldKept'
  BY <1>1, <1>3 DEF OldKept, Setup
<1>7. Waited'
  <2>1. \/ replacer' = replacer
        \/ /\ replacer'.at \in {"consume", "wait"}
           /\ replacer'.by = "helper" => replacer'.pid # 0
    <3>1. /\ Setup(offer, app.pid).at = "wait" /\ Setup(offer, app.pid).by = "setup"
          /\ Setup(MaxVersion, 0).at = "wait" /\ Setup(MaxVersion, 0).by = "setup"
      BY DEF Setup
    <3> QED
      BY <1>3, <3>1
  <2>2. CASE replacer' = replacer
    BY <1>1, <2>2 DEF Waited
  <2>3. CASE /\ replacer'.at \in {"consume", "wait"}
             /\ replacer'.by = "helper" => replacer'.pid # 0
    <3>1. replacer'.at \notin Replacing \cup {"settle"}
      BY <2>3 DEF Replacing
    <3> QED
      BY <1>1, <2>3, <3>1 DEF Waited
  <2> QED
    BY <2>1, <2>2, <2>3
<1> QED
  BY <1>4, <1>5, <1>6, <1>7

-----------------------------------------------------------------------------
(* The replacer.                                                            *)

\* A step of the replacer that leaves the program alone and goes on, within what it may
\* touch, or ends.
LEMMA ReplacerKeeps ==
  ASSUME IInv, UNCHANGED <<kind, staged, memory, marker>>, faults' \in 0..MaxFaults,
         file' \in [Files -> Contents], Complete', OldKept',
         \/ replacer' = NoReplacer
         \/ /\ replacer.at \in Replacing /\ replacer'.at \in Replacing
            /\ \E to \in Busy : \E old \in Contents : replacer' = [replacer EXCEPT !.at = to, !.old = old]
  PROVE  IInv'
<1> USE DEF IInv
<1>0. 0 \in 0..MaxVersion /\ 0 \in Contents
  BY UpdateAssumption, Contents0
<1>1. replacer' \in [at : Busy \cup {"off"}, by : {"helper", "setup"}, version : 0..MaxVersion,
                     pid : Pids \cup {0}, old : Contents]
  <2>1. CASE replacer' = NoReplacer
    BY <1>0, <2>1 DEF NoReplacer
  <2>2. CASE \E to \in Busy : \E old \in Contents : replacer' = [replacer EXCEPT !.at = to, !.old = old]
    BY <2>2 DEF TypeOK
  <2> QED
    BY <2>1, <2>2
<1>2. TypeOK' /\ Fetching'
  BY <1>1 DEF TypeOK, Fetching, memory
<1>3. Waited'
  <2>1. CASE replacer' = NoReplacer
    BY <2>1 DEF Waited, NoReplacer, memory, Replacing
  <2>2. CASE /\ replacer.at \in Replacing /\ replacer'.at \in Replacing
             /\ \E to \in Busy : \E old \in Contents :
                  replacer' = [replacer EXCEPT !.at = to, !.old = old]
    <3>1. replacer'.pid = replacer.pid /\ replacer'.by = replacer.by
      BY <2>2 DEF TypeOK
    <3>2. replacer.at # "off"
      BY <2>2 DEF Replacing
    <3> QED
      BY <2>2, <3>1, <3>2 DEF Waited, memory
  <2> QED
    BY <2>1, <2>2
<1> QED
  BY <1>2, <1>3

\* It looks whether it may begin.
LEMMA BeginKeeps ==
  ASSUME IInv, Consume \/ Wait \/ Settle
  PROVE  IInv'
<1> USE DEF IInv
<1>1. /\ UNCHANGED <<kind, file, staged, app, ui, offer, latest, downloaded, dl, marker>>
      /\ faults' \in 0..MaxFaults
  BY FaultFits DEF Consume, Wait, Settle, memory, TypeOK
<1>2. CASE replacer' = NoReplacer
  <2>1. Complete' /\ OldKept'
    BY <1>1, <1>2 DEF Complete, OldKept, NoReplacer
  <2> QED
    BY <1>1, <1>2, <2>1, ReplacerKeeps DEF TypeOK, memory
<1>3. CASE replacer.at = "consume" /\ replacer' = [replacer EXCEPT !.at = "wait"]
  BY <1>1, <1>3 DEF TypeOK, Complete, OldKept, Waited, Fetching, Replacing, Busy
<1>4. CASE replacer.at = "wait" /\ Exited /\ replacer' = [replacer EXCEPT !.at = "settle"]
  BY <1>1, <1>4 DEF TypeOK, Complete, OldKept, Waited, Fetching, Replacing, Busy, Exited
<1>5. CASE replacer.at = "settle" /\ ~Blocked /\ replacer' = [replacer EXCEPT !.at = "copy"]
  BY <1>1, <1>5 DEF TypeOK, Complete, OldKept, Waited, Fetching, Replacing, Busy, Blocked
<1> QED
  BY <1>2, <1>3, <1>4, <1>5 DEF Consume, Wait, Settle, Go

\* It goes from one step to the next.
LEMMA GoFits ==
  ASSUME IInv, NEW from \in Replacing, NEW to \in Replacing \cup {"off"}, Go(from, to)
  PROVE  /\ replacer.at = from /\ replacer'.at = to
         /\ to # "off" => replacer'.old = replacer.old
         /\ \/ replacer' = NoReplacer
            \/ /\ replacer.at \in Replacing /\ replacer'.at \in Replacing
               /\ \E t \in Busy : \E old \in Contents :
                    replacer' = [replacer EXCEPT !.at = t, !.old = old]
<1>1. CASE to = "off"
  BY <1>1 DEF Go, NoReplacer
<1>2. CASE to # "off"
  <2>1. replacer' = [replacer EXCEPT !.at = to] /\ replacer.at = from /\ to \in Replacing
    BY <1>2 DEF Go
  <2>2. replacer' = [replacer EXCEPT !.at = to, !.old = replacer.old] /\ replacer.old \in Contents
    BY <2>1 DEF IInv, TypeOK
  <2>3. replacer'.at = to /\ replacer'.old = replacer.old /\ to \in Busy
    BY <2>1 DEF IInv, TypeOK, Replacing, Busy
  <2> QED
    BY <2>1, <2>2, <2>3
<1> QED
  BY <1>1, <1>2

\* It copies the new program beside the old one.
LEMMA CopyKeeps ==
  ASSUME IInv, CopyBegins \/ CopyEnds
  PROVE  IInv'
<1> USE DEF IInv
<1>0. /\ UNCHANGED <<kind, staged, memory, marker>> /\ faults' \in 0..MaxFaults
  BY FaultFits DEF CopyBegins, CopyEnds, TypeOK
<1>1. replacer.version \in 0..MaxVersion /\ Partial \in Contents /\ 0 \in Contents
      /\ replacer.version \in Contents /\ replacer.version # Partial
  BY Contents0, UpdateAssumption DEF TypeOK, Contents
<1>2. \/ /\ Go("copy", "copying") \/ Go("copy", "off")
         /\ \E c \in {Partial, 0} : file' = [file EXCEPT !["new"] = c]
      \/ Go("copying", "retire") /\ file' = [file EXCEPT !["new"] = replacer.version]
      \/ Go("copying", "off") /\ file' = file
  BY DEF CopyBegins, CopyEnds, AfterCopyError
<1>3. /\ file' \in [Files -> Contents] /\ \A f \in Files \ {"new"} : file'[f] = file[f]
      /\ Go("copying", "retire") /\ ~Go("copying", "off") => file'["new"] # Partial
  <2>1. Go("copying", "retire") => ~Go("copy", "copying") /\ ~Go("copy", "off")
    BY DEF Go
  <2> QED
    BY <1>1, <1>2, <2>1 DEF TypeOK, Files
<1>4. ~(Go("copying", "retire") /\ Go("copying", "off"))
  BY DEF Go, NoReplacer, TypeOK
<1>5. /\ replacer.at \in {"copy", "copying"} /\ replacer'.at \in {"copying", "retire", "off"}
      /\ replacer'.at # "off" => replacer'.old = replacer.old
      /\ replacer'.at = "retire" => file'["new"] # Partial
  <2>1. CASE Go("copy", "copying") \/ Go("copy", "off")
    <3>1. /\ replacer.at = "copy"
          /\ \/ replacer' = NoReplacer
             \/ replacer' = [replacer EXCEPT !.at = "copying"]
      BY <2>1 DEF Go
    <3>2. CASE replacer' = NoReplacer
      BY <3>1, <3>2 DEF NoReplacer
    <3>3. CASE replacer' = [replacer EXCEPT !.at = "copying"]
      BY <3>1, <3>3 DEF TypeOK
    <3> QED
      BY <3>1, <3>2, <3>3
  <2>2. CASE Go("copying", "retire")
    <3>1. replacer.at = "copying" /\ replacer' = [replacer EXCEPT !.at = "retire"]
      BY <2>2 DEF Go
    <3>2. replacer'.at = "retire" /\ replacer'.old = replacer.old
      BY <3>1 DEF TypeOK
    <3> QED
      BY <1>3, <1>4, <2>2, <3>1, <3>2
  <2>3. CASE Go("copying", "off")
    BY <2>3 DEF Go, NoReplacer
  <2> QED
    BY <1>2, <2>1, <2>2, <2>3
<1>7. file'["exe"] = file["exe"] /\ file'["previous"] = file["previous"]
  BY <1>3 DEF Files
<1>8. Complete' /\ OldKept'
  BY <1>5, <1>7 DEF Complete, OldKept
<1>6. \/ replacer' = NoReplacer
      \/ /\ replacer.at \in Replacing /\ replacer'.at \in Replacing
         /\ \E t \in Busy : \E old \in Contents : replacer' = [replacer EXCEPT !.at = t, !.old = old]
  BY <1>2, GoFits DEF Replacing
<1> QED
  BY <1>0, <1>3, <1>6, <1>8, ReplacerKeeps

\* It moves the old program away and the new one in its place.
LEMMA SwapKeeps ==
  ASSUME IInv, Retire \/ Move \/ Activate \/ Restore
  PROVE  IInv'
<1> USE DEF IInv
<1>0. /\ UNCHANGED <<kind, staged, memory, marker>> /\ faults' \in 0..MaxFaults
      /\ file \in [Files -> Contents] /\ 0 \in Contents /\ 0 # Partial
  BY FaultFits, Contents0, UpdateAssumption DEF Retire, Move, Activate, Restore, TypeOK
<1>1. CASE Retire
  <2>1. Go("retire", "move") /\ file' \in {file, [file EXCEPT !["previous"] = 0]}
    BY <1>1 DEF Retire
  <2>2. /\ file' \in [Files -> Contents] /\ \A f \in Files \ {"previous"} : file'[f] = file[f]
        /\ file'["previous"] \in {file["previous"], 0}
    BY <1>0, <2>1 DEF Files
  <2>3. Complete' /\ OldKept'
    BY <1>0, <2>1, <2>2, GoFits DEF Complete, OldKept, Replacing, Files
  <2> QED
    BY <1>0, <2>1, <2>2, <2>3, GoFits, ReplacerKeeps DEF Replacing
<1>2. CASE Move
  <2>1. CASE file["exe"] = 0 /\ Go("move", "activate") /\ file' = file
    <3>1. Complete' /\ OldKept'
      BY <2>1, GoFits DEF Complete, OldKept, Replacing
    <3> QED
      BY <1>0, <2>1, <3>1, GoFits, ReplacerKeeps DEF Replacing
  <2>2. CASE /\ replacer.at = "move" /\ Moved("exe", "previous")
             /\ replacer' = [replacer EXCEPT !.at = "activate", !.old = file["exe"]]
    <3>1. /\ file' \in [Files -> Contents] /\ file'["exe"] = 0 /\ file'["previous"] = file["exe"]
          /\ file'["new"] = file["new"]
      BY <1>0, <2>2 DEF Moved, Files
    <3>2. replacer'.at = "activate" /\ replacer'.old = file["exe"] /\ file["exe"] \in Contents
      BY <1>0, <2>2 DEF TypeOK, Files
    <3>3. Complete' /\ OldKept'
      BY <1>0, <2>2, <3>1, <3>2 DEF Complete, OldKept
    <3> QED
      BY <1>0, <2>2, <3>1, <3>2, <3>3, ReplacerKeeps DEF Replacing, Busy
  <2>3. CASE Go("move", "off") /\ file' = [file EXCEPT !["new"] = 0]
    <3>1. file' \in [Files -> Contents] /\ \A f \in Files \ {"new"} : file'[f] = file[f]
      BY <1>0, <2>3 DEF Files
    <3>2. Complete' /\ OldKept'
      <4>1. replacer'.at = "off"
        BY <2>3, GoFits DEF Replacing
      <4>2. file'["exe"] = file["exe"] /\ file'["previous"] = file["previous"]
        BY <3>1 DEF Files
      <4> QED
        BY <4>1, <4>2 DEF Complete, OldKept
    <3> QED
      BY <1>0, <2>3, <3>1, <3>2, GoFits, ReplacerKeeps DEF Replacing
  <2> QED
    BY <1>2, <2>1, <2>2, <2>3 DEF Move
<1>3. CASE Activate
  <2>1. CASE /\ Go("activate", "start") \/ Go("activate", "verify")
             /\ Moved("new", "exe")
    <3>1. /\ file' \in [Files -> Contents] /\ file'["exe"] = file["new"] /\ file'["new"] = 0
          /\ file'["previous"] = file["previous"]
      BY <1>0, <2>1 DEF Moved, Files
    <3>2. Complete' /\ OldKept'
      BY <1>0, <2>1, <3>1, GoFits DEF Complete, OldKept, Replacing
    <3> QED
      BY <1>0, <2>1, <3>1, <3>2, GoFits, ReplacerKeeps DEF Replacing
  <2>2. CASE Go("activate", "restore") /\ file' = file
    <3>1. Complete' /\ OldKept'
      BY <2>2, GoFits DEF Complete, OldKept, Replacing
    <3> QED
      BY <1>0, <2>2, <3>1, GoFits, ReplacerKeeps DEF Replacing
  <2> QED
    BY <1>3, <2>1, <2>2 DEF Activate
<1>4. CASE Restore
  <2>1. /\ Go("restore", "off")
        /\ \/ file' = [file EXCEPT !["exe"] = file["previous"], !["previous"] = 0, !["new"] = 0]
           \/ file' = [file EXCEPT !["new"] = 0]
    BY <1>4 DEF Restore
  <2>2. /\ file' \in [Files -> Contents] /\ file'["exe"] \in {file["exe"], file["previous"]}
        /\ file'["previous"] \in {file["previous"], 0}
    BY <1>0, <2>1 DEF Files
  <2>3. Complete' /\ OldKept'
    BY <1>0, <2>1, <2>2, GoFits DEF Complete, OldKept, Replacing
  <2> QED
    BY <1>0, <2>1, <2>2, <2>3, GoFits, ReplacerKeeps DEF Replacing
<1> QED
  BY <1>1, <1>2, <1>3, <1>4

\* It goes back to the old program.
LEMMA BackKeeps ==
  ASSUME IInv, Verify \/ Discard \/ Back
  PROVE  IInv'
<1> USE DEF IInv
<1>0. /\ UNCHANGED <<kind, staged, memory, marker>> /\ faults' \in 0..MaxFaults
      /\ file \in [Files -> Contents] /\ 0 \in Contents /\ 0 # Partial
  BY FaultFits, Contents0, UpdateAssumption DEF Verify, Discard, Back, TypeOK
<1>1. CASE Verify
  <2>1. /\ Go("verify", "off") \/ Go("verify", "back")
        /\ file' \in {file, [file EXCEPT !["exe"] = 0]}
    BY <1>1 DEF Verify
  <2>2. /\ file' \in [Files -> Contents] /\ file'["exe"] \in {file["exe"], 0}
        /\ file'["previous"] = file["previous"]
    BY <1>0, <2>1 DEF Files
  <2>3. Complete' /\ OldKept'
    <3>1. /\ replacer.at \in {"verify", "discard"} /\ replacer'.at \in {"back", "off"}
          /\ replacer'.at # "off" => replacer'.old = replacer.old
      BY <2>1, GoFits DEF Replacing
    <3> QED
      BY <1>0, <2>2, <3>1 DEF Complete, OldKept
  <2> QED
    BY <1>0, <2>1, <2>2, <2>3, GoFits, ReplacerKeeps DEF Replacing
<1>2. CASE Discard
  <2>1. /\ Go("discard", "back")
        /\ \/ file' = [file EXCEPT !["exe"] = 0, !["failed"] = file["exe"]]
           \/ file' = [file EXCEPT !["failed"] = 0]
    BY <1>2 DEF Discard, Moved, Aside
  <2>2. /\ file' \in [Files -> Contents] /\ file'["exe"] \in {file["exe"], 0}
        /\ file'["previous"] = file["previous"]
    BY <1>0, <2>1 DEF Files
  <2>3. Complete' /\ OldKept'
    <3>1. /\ replacer.at \in {"verify", "discard"} /\ replacer'.at \in {"back", "off"}
          /\ replacer'.at # "off" => replacer'.old = replacer.old
      BY <2>1, GoFits DEF Replacing
    <3> QED
      BY <1>0, <2>2, <3>1 DEF Complete, OldKept
  <2> QED
    BY <1>0, <2>1, <2>2, <2>3, GoFits, ReplacerKeeps DEF Replacing
<1>3. CASE Back
  <2>1. CASE Go("back", "again") /\ Moved("previous", "exe")
    <3>1. /\ file' \in [Files -> Contents] /\ file'["exe"] = file["previous"]
          /\ file'["previous"] = 0
      BY <1>0, <2>1 DEF Moved, Files
    <3>2. replacer.at = "back" /\ replacer'.at = "again" /\ replacer'.old = replacer.old
      BY <2>1 DEF Go, TypeOK
    <3>3. Complete' /\ OldKept'
      BY <1>0, <3>1, <3>2 DEF Complete, OldKept
    <3> QED
      BY <1>0, <2>1, <3>1, <3>3, GoFits, ReplacerKeeps DEF Replacing
  <2>2. CASE Go("back", "off") /\ (Moved("previous", "exe") \/ file' = file)
    <3>1. /\ file' \in [Files -> Contents] /\ file'["exe"] \in {file["exe"], file["previous"]}
          /\ file'["previous"] \in {file["previous"], 0}
      BY <1>0, <2>2 DEF Moved, Files
    <3>2. replacer'.at = "off"
      BY <2>2, GoFits DEF Replacing
    <3>3. Complete' /\ OldKept'
      BY <1>0, <3>1, <3>2 DEF Complete, OldKept
    <3> QED
      BY <1>0, <2>2, <3>1, <3>3, GoFits, ReplacerKeeps DEF Replacing
  <2> QED
    BY <1>3, <2>1, <2>2 DEF Back
<1> QED
  BY <1>1, <1>2, <1>3

\* It starts the program it has put in place; the process that runs then is another one.
LEMMA StartKeeps ==
  ASSUME IInv, Start \/ Again
  PROVE  IInv'
<1> USE DEF IInv
<1>0. /\ UNCHANGED <<kind, staged, ui, offer, latest, downloaded, dl, marker>>
      /\ file \in [Files -> Contents] /\ 0 \in Contents
  BY Contents0 DEF Start, Again, TypeOK
<1>a. faults' \in 0..MaxFaults
  BY FaultFits DEF Start, Again, TypeOK
<1>1. file["exe"] \in 0..MaxVersion
  BY <1>0, Contents0 DEF Complete, Files
<1>2. /\ app' \in [pid : Pids \cup {0}, version : 0..MaxVersion]
      /\ app.pid # 0 => app'.pid # 0
      /\ app'.pid = app.pid \/ app'.pid # replacer.pid
  <2>1. Started(file["exe"]) \/ app' = app
    BY DEF Start, Again, Restarted
  <2> QED
    BY <1>1, <2>1, StartedFits DEF TypeOK
<1>3. /\ file' \in [Files -> Contents]
      /\ file'["exe"] = file["exe"] /\ file'["previous"] = file["previous"]
  BY <1>0 DEF Start, Again, Files
<1>4. \/ Go("start", "off") \/ Go("again", "off")
      \/ Go("start", "discard") /\ app' = app
  BY DEF Start, Again
<1>5. TypeOK' /\ Fetching'
  <2>1. 0 \in 0..MaxVersion
    BY UpdateAssumption
  <2>2. replacer' \in [at : Busy \cup {"off"}, by : {"helper", "setup"}, version : 0..MaxVersion,
                       pid : Pids \cup {0}, old : Contents]
    BY <1>0, <1>4, <2>1 DEF Go, NoReplacer, TypeOK, Busy
  <2> QED
    BY <1>0, <1>a, <1>2, <1>3, <2>2 DEF TypeOK, Fetching
<1>6. Complete' /\ OldKept'
  <2>1. /\ replacer'.at \in {"off", "discard"}
        /\ replacer'.at # "off" => replacer.at = "start" /\ replacer'.old = replacer.old
    BY <1>4, GoFits DEF Replacing
  <2> QED
    BY <1>3, <2>1 DEF Complete, OldKept
<1>7. Waited'
  BY <1>0, <1>2, <1>4 DEF Waited, Go, NoReplacer, Replacing, TypeOK
<1> QED
  BY <1>5, <1>6, <1>7

-----------------------------------------------------------------------------

\* The parts of the invariant hold together in every state.
LEMMA Invariance == Spec => []IInv
<1>1. Init => IInv
  <2> SUFFICES ASSUME Init PROVE IInv
    OBVIOUS
  <2>1. /\ 1 \in 0..MaxVersion /\ 0 \in 0..MaxVersion /\ 1 \in Contents /\ 0 \in Contents
        /\ 1 # Partial /\ 0 # Partial /\ 0 \in 0..MaxFaults
    BY UpdateAssumption, Contents0
  <2>2. file \in [Files -> Contents] /\ file["exe"] = 1 /\ file["previous"] = 0
    BY <2>1 DEF Init, Files
  <2>3. TypeOK
    BY <2>1, <2>2 DEF Init, TypeOK, NoApp, NoDownload, NoReplacer
  <2>4. Complete /\ OldKept /\ Waited /\ Fetching
    BY <2>1, <2>2 DEF Init, Complete, OldKept, Waited, Fetching, NoReplacer, NoDownload, Replacing
  <2> QED
    BY <2>3, <2>4 DEF IInv
<1>2. IInv /\ [Next]_vars => IInv'
  <2> SUFFICES ASSUME IInv, [Next]_vars PROVE IInv'
    OBVIOUS
  <2>1. CASE UserStarts \/ Close \/ AppDies \/ Motor
    BY <2>1, ProcessKeeps
  <2>2. CASE \/ \E v \in Versions : Checked(v) \/ Download(v)
             \/ Fetched \/ RenameFinal \/ Publish
    BY <2>2, DownloadKeeps
  <2>3. CASE Prompt \/ Answer \/ StopOutput \/ Authorize
    BY <2>3, ApplyKeeps
  <2>4. CASE Launch \/ LaunchSetup \/ UserRunsSetup
    BY <2>4, LaunchKeeps
  <2>5. CASE ReplacerStep
    BY <2>5, BeginKeeps, CopyKeeps, SwapKeeps, BackKeeps, StartKeeps DEF ReplacerStep
  <2>6. CASE ReplacerDies
    <3>1. /\ UNCHANGED <<kind, staged, memory, marker>> /\ file' = file /\ replacer' = NoReplacer
          /\ faults' \in 0..MaxFaults
      BY <2>6, FaultFits DEF ReplacerDies, IInv
    <3>2. Complete' /\ OldKept'
      BY <3>1 DEF IInv, Complete, OldKept, NoReplacer
    <3> QED
      BY <3>1, <3>2, ReplacerKeeps DEF IInv, TypeOK
  <2>7. CASE UNCHANGED vars
    BY <2>7 DEF vars, memory, IInv, TypeOK, Complete, OldKept, Waited, Fetching
  <2> QED
    BY <2>1, <2>2, <2>3, <2>4, <2>5, <2>6, <2>7 DEF Next
<1> QED
  BY <1>1, <1>2, PTL DEF Spec

\* Every variable keeps its type.
THEOREM TypeCorrect == Spec => []TypeOK
<1>1. IInv => TypeOK
  BY DEF IInv
<1> QED
  BY <1>1, Invariance, PTL

\* What is there to be started is a complete program, after any failure or crash: a file
\* that is half written is never renamed.
THEOREM ExeIsComplete == Spec => []ExeComplete
<1>1. IInv => ExeComplete
  BY DEF IInv, Complete, ExeComplete
<1> QED
  BY <1>1, Invariance, PTL

\* From the moment the old program is moved until the new one was started, the old one can
\* be put back.
THEOREM OldIsRestorable == Spec => []Restorable
<1>1. IInv => Restorable
  BY DEF IInv, OldKept, Restorable
<1> QED
  BY <1>1, Invariance, PTL

\* Files are touched only after the program that asked for it has ended, and by the helper
\* only if it has not left a driven motor behind.
THEOREM ReplacedInNeutral == Spec => []LeftNeutral
<1>1. IInv => LeftNeutral
  BY DEF IInv, Waited, LeftNeutral
<1> QED
  BY <1>1, Invariance, PTL

=============================================================================
