---------------------------- MODULE ConfigStore ----------------------------
(***************************************************************************)
(* The JSON files of the data directory and the threads that read, change  *)
(* and write them.  Nothing locks a file: every save reads the whole file,  *)
(* changes one entry and replaces the file, each in a step of its own, and  *)
(* the user interface and the goroutine of a scan run at the same time.     *)
(*                                                                         *)
(* A file is its entries, and whether it can be read.  It is damaged, or   *)
(* written by a newer version, only while the program is not running.       *)
(***************************************************************************)
EXTENDS Naturals, Sequences

CONSTANTS
  Keys,        \* the stable IDs of wheels, or the names of game profiles
  Values,      \* what an entry may hold, in the stores other than the engine
  Degrees,     \* steering ranges
  Full,        \* the range of the built-in profiles
  Balanced,    \* the name of a built-in profile
  Custom,      \* the name of the profile that the user stores
  None,        \* no entry
  Appliers,    \* the threads that apply an engine profile
  MaxCalls,    \* bound: operations begun
  MaxFaults,   \* bound: reads, writes and hardware commands that fail
  MaxDamage    \* bound: files damaged or replaced by a newer version

ASSUME StoreAssumption ==
  /\ None \notin Values \cup Degrees /\ Full \in Degrees /\ Balanced # Custom
  /\ Appliers \subseteq {"ui", "scan"}
  /\ {MaxCalls, MaxFaults, MaxDamage} \subseteq Nat

Threads == {"ui", "scan"}

Stores == {"pedals", "controls", "engine", "nativeFFB", "advancedFFB",
           "games", "models", "history"}

(* The stores whose file carries a schema version that is compared.        *)
Versioned == Stores \ {"pedals", "models"}

(* The stores that ask for the .corrupt marker before they write.          *)
Guarded == Stores \ {"models"}

VARIABLES
  up,        \* the program runs
  schema,    \* what data-schema.json says: "none", "old", "current", "newer"
  snapshot,  \* what an older version left is in a snapshot, or there is nothing
  health,    \* per store: "sound", "bad" or "newer"
  entries,   \* per store: its entries, while it is sound
  marker,    \* per store: the .corrupt marker exists
  jobs,      \* per thread: what it still has to do
  at,        \* per thread: where it is in the first of them
  seen,      \* per thread: the entries it has read
  range,     \* per wheel: the range it has, while it stays plugged in
  settled,   \* per wheel: an apply has stored its profile or taken the range back, and since
             \* then no range was set or stored alone and no command has failed
  calls, faults, damage

disk == <<schema, snapshot, health, entries, marker>>
wheel == <<range, settled>>
counters == <<calls, faults, damage>>
vars == <<up, disk, jobs, at, seen, wheel, counters>>

(* What the engine file says of a wheel: the active profile, which stands  *)
(* for a built-in one or is the one the user stores, and the range of the   *)
(* latter.                                                                  *)
Names == {Balanced, Custom}
Profiles == [active : Names, custom : Degrees \cup {None}]
Of(entry) == IF entry \in Profiles THEN entry ELSE [active |-> Balanced, custom |-> None]
DegreesOf(p, name) == IF name = Custom /\ p.custom # None THEN p.custom ELSE Full

Words == Values \cup Degrees \cup Names \cup {None} \cup Profiles
Maps == [Keys -> Words]
Empty == [k \in Keys |-> None]

(* One operation on one file.  after says that it is only begun when the   *)
(* one before it succeeded.  An apply knows the range it sets, the one it   *)
(* goes back to, and whether it could read that one.                        *)
Jobs == [store : Stores,
         op : {"put", "delete", "copy", "rewrite", "read", "remove", "activate", "apply"},
         key : Keys, val : Words, from : Keys,
         after : BOOLEAN, next : Degrees, prev : Degrees, sure : BOOLEAN]

Steps == {"idle", "look", "stop", "range", "rollback", "read", "reread", "gate", "temp",
          "replace", "preserve", "mark", "remove"}

TypeOK ==
  /\ up \in BOOLEAN /\ snapshot \in BOOLEAN
  /\ schema \in {"none", "old", "current", "newer"}
  /\ health \in [Stores -> {"sound", "bad", "newer"}]
  /\ entries \in [Stores -> Maps]
  /\ marker \in [Stores -> BOOLEAN]
  /\ \A t \in Threads : jobs[t] \in Seq(Jobs)
  /\ at \in [Threads -> Steps] /\ seen \in [Threads -> Maps]
  /\ range \in [Keys -> Degrees] /\ settled \in [Keys -> BOOLEAN]
  /\ calls \in 0..MaxCalls /\ faults \in 0..MaxFaults /\ damage \in 0..MaxDamage

Init ==
  /\ up = FALSE /\ schema \in {"none", "old"} /\ snapshot = (schema # "old")
  /\ health = [s \in Stores |-> "sound"]
  /\ entries = [s \in Stores |-> Empty]
  /\ marker = [s \in Stores |-> FALSE]
  /\ jobs = [t \in Threads |-> <<>>] /\ at = [t \in Threads |-> "idle"]
  /\ seen = [t \in Threads |-> Empty]
  /\ range = [k \in Keys |-> Full] /\ settled = [k \in Keys |-> FALSE]
  /\ calls = 0 /\ faults = 0 /\ damage = 0

Job(t) == Head(jobs[t])

(* The range that the engine file names for a wheel.                        *)
Named(w) == LET p == Of(entries["engine"][w]) IN DegreesOf(p, p.active)

-----------------------------------------------------------------------------
(* Beginning and ending an operation.                                       *)

First(job) == CASE job.op = "apply"    -> "look"
                [] job.op = "remove"   -> "remove"
                [] OTHER               -> "read"

Ask(s, op, k, v) == [store |-> s, op |-> op, key |-> k, val |-> v, from |-> k,
                     after |-> FALSE, next |-> Full, prev |-> Full, sure |-> FALSE]

Begin(t, todo) ==
  /\ up /\ at[t] = "idle" /\ calls < MaxCalls
  /\ calls' = calls + 1
  /\ jobs' = [jobs EXCEPT ![t] = todo]
  /\ at' = [at EXCEPT ![t] = First(Head(todo))]
  /\ UNCHANGED <<up, disk, seen, wheel, faults, damage>>

(* What is left when the first job of t has ended.                          *)
Rest(t, ok) ==
  LET tail == Tail(jobs[t])
  IN  IF ok \/ tail = <<>> \/ ~Head(tail).after THEN tail ELSE Tail(tail)

End(t, ok) ==
  /\ jobs' = [jobs EXCEPT ![t] = Rest(t, ok)]
  /\ at' = [at EXCEPT ![t] = IF Rest(t, ok) = <<>> THEN "idle" ELSE First(Head(Rest(t, ok)))]
  /\ seen' = [seen EXCEPT ![t] = Empty]

(* A profile that cannot be stored takes the wheel's range back with it.    *)
Abandon(t) ==
  IF Job(t).op = "apply"
  THEN at' = [at EXCEPT ![t] = "rollback"] /\ UNCHANGED <<jobs, seen>>
  ELSE End(t, FALSE)

Goto(t, step) == at' = [at EXCEPT ![t] = step] /\ UNCHANGED <<jobs, seen>>

Fails == faults < MaxFaults /\ faults' = faults + 1

-----------------------------------------------------------------------------
(* Reading: a file that is absent has no entries, one that cannot be parsed *)
(* is preserved first, one of a newer schema is left alone.                 *)

Changed(m, job) ==
  CASE job.op = "put" -> [m EXCEPT ![job.key] = job.val]
    [] job.op \in {"apply", "activate"} ->
         [m EXCEPT ![job.key] = [Of(m[job.key]) EXCEPT !.active = job.val]]
    [] job.op = "rewrite" -> [m EXCEPT ![job.key] = [Of(m[job.key]) EXCEPT !.custom = job.val]]
    [] job.op = "delete" -> [m EXCEPT ![job.key] = None]
    [] job.op = "copy" -> IF m[job.key] = None THEN [m EXCEPT ![job.key] = m[job.from]] ELSE m
    [] OTHER -> m

(* An entry that is absent is not deleted, one that exists is not migrated: *)
(* the file stays untouched.  A save always writes, as do the game profiles. *)
Writes(m, job) ==
  \/ job.op \in {"put", "apply", "activate", "rewrite"} \/ job.store = "games"
  \/ Changed(m, job) # m

Accepted(t) ==
  LET m == entries[Job(t).store]
      next == IF Job(t).store = "games" THEN "reread" ELSE "gate"
  IN  IF Writes(m, Job(t))
      THEN /\ at' = [at EXCEPT ![t] = IF Job(t).store \in Guarded THEN next ELSE "temp"]
           /\ seen' = [seen EXCEPT ![t] = m] /\ UNCHANGED jobs
      ELSE End(t, TRUE)

(* What a strict read makes of the file.                                    *)
StrictOfDamage(t, sound) ==
  \/ health[Job(t).store] # "bad" /\ sound
  \/ health[Job(t).store] = "bad" /\ Goto(t, "preserve")

Strict(t, sound) ==
  LET s == Job(t).store
  IN  \/ health[s] = "sound" /\ sound
      \/ health[s] = "bad" /\ Goto(t, "preserve")
      \/ health[s] = "newer" /\ Abandon(t)

Read(t) ==
  /\ up /\ at[t] = "read"
  /\ Strict(t, Accepted(t))
  /\ UNCHANGED <<up, disk, wheel, counters>>

(* The file of game profiles is loaded without looking at the error: when   *)
(* it cannot be opened the list starts empty.                               *)
ReadFails(t) ==
  /\ up /\ at[t] = "read" /\ Fails
  /\ IF Job(t).store = "games"
     THEN seen' = [seen EXCEPT ![t] = Empty] /\ at' = [at EXCEPT ![t] = "reread"] /\ UNCHANGED jobs
     ELSE Abandon(t)
  /\ UNCHANGED <<up, disk, wheel, calls, damage>>

(* Game profiles are read a second time, strictly, for the version only.    *)
Reread(t) ==
  /\ up /\ at[t] = "reread"
  /\ Strict(t, Goto(t, "gate"))
  /\ UNCHANGED <<up, disk, wheel, counters>>

(* The unreadable bytes are copied aside, then the marker is written: a copy *)
(* that fails leaves the file without a marker.                              *)
Preserve(t) ==
  /\ up /\ at[t] = "preserve"
  /\ \/ Goto(t, "mark") /\ UNCHANGED faults
     \/ Fails /\ Abandon(t)
  /\ UNCHANGED <<up, disk, wheel, calls, damage>>

Mark(t) ==
  /\ up /\ at[t] = "mark"
  /\ \/ marker' = [marker EXCEPT ![Job(t).store] = TRUE] /\ UNCHANGED faults
     \/ Fails /\ UNCHANGED marker
  /\ Abandon(t)
  /\ UNCHANGED <<up, schema, snapshot, health, entries, wheel, calls, damage>>

-----------------------------------------------------------------------------
(* Writing: ask for the marker, write a temporary file beside the target,   *)
(* replace the target by it.                                                *)

Gate(t) ==
  /\ up /\ at[t] = "gate"
  /\ IF marker[Job(t).store] THEN Abandon(t) ELSE Goto(t, "temp")
  /\ UNCHANGED <<up, disk, wheel, counters>>

(* The temporary file has a name of its own: the target is as it was.       *)
TempInPlace(t) == health' = [health EXCEPT ![Job(t).store] = "bad"]
TempBeside(t) == UNCHANGED health

Temp(t) ==
  /\ up /\ at[t] = "temp"
  /\ \/ TempBeside(t) /\ Goto(t, "replace") /\ UNCHANGED faults
     \/ Fails /\ Abandon(t) /\ UNCHANGED health
  /\ UNCHANGED <<up, schema, snapshot, entries, marker, wheel, calls, damage>>

Stored(t) ==
  /\ entries' = [entries EXCEPT ![Job(t).store] = Changed(seen[t], Job(t))]
  /\ health' = [health EXCEPT ![Job(t).store] = "sound"]
  /\ settled' = CASE Job(t).op = "apply" -> [settled EXCEPT ![Job(t).key] = TRUE]
                   [] Job(t).op \in {"activate", "rewrite"} -> [settled EXCEPT ![Job(t).key] = FALSE]
                   [] OTHER -> settled
  /\ End(t, TRUE)
  /\ UNCHANGED faults

Replace(t) ==
  /\ up /\ at[t] = "replace"
  /\ \/ Stored(t)
     \/ Fails /\ Abandon(t) /\ UNCHANGED <<entries, health, settled>>
  /\ UNCHANGED <<up, schema, snapshot, marker, range, calls, damage>>

(* A reset of the detection deletes files, and leaves their markers.        *)
Remove(t) ==
  /\ up /\ at[t] = "remove"
  /\ \/ /\ entries' = [entries EXCEPT ![Job(t).store] = Empty]
        /\ health' = [health EXCEPT ![Job(t).store] = "sound"]
        /\ UNCHANGED faults
     \/ Fails /\ UNCHANGED <<entries, health>>
  /\ End(t, TRUE)
  /\ UNCHANGED <<up, schema, snapshot, marker, wheel, calls, damage>>

-----------------------------------------------------------------------------
(* Applying an engine profile: read it and the active one, stop the motor,  *)
(* set the range, store the name; when the name cannot be stored, set the   *)
(* range of the former one.                                                 *)

(* Both are read leniently: a file that cannot be read has the built-in     *)
(* profiles and Balanced is active.  (What damaged file such a read meets   *)
(* is preserved here by the strict read that follows.)  The apply is the    *)
(* last of its queue.                                                       *)
Look(t) ==
  LET job == Job(t)
      p == Of(entries["engine"][job.key])
      goOn(former, sure) ==
        /\ jobs' = [jobs EXCEPT ![t] = <<[job EXCEPT !.next = DegreesOf(p, job.val),
                                                     !.prev = former, !.sure = sure]>>]
        /\ at' = [at EXCEPT ![t] = "stop"] /\ UNCHANGED seen
  IN  /\ up /\ at[t] = "look"
      /\ \/ /\ UNCHANGED faults
            /\ IF job.val = Custom /\ p.custom = None THEN End(t, FALSE)
               ELSE goOn(Named(job.key), TRUE)
         \/ Fails /\ job.val = Custom /\ End(t, FALSE)
         \/ Fails /\ (job.val = Custom => p.custom # None) /\ goOn(Full, FALSE)
      /\ UNCHANGED <<up, disk, wheel, calls, damage>>

Stop(t) ==
  /\ up /\ at[t] = "stop"
  /\ \/ Goto(t, "range") /\ UNCHANGED faults
     \/ Fails /\ End(t, FALSE)
  /\ UNCHANGED <<up, disk, wheel, calls, damage>>

(* A command that fails may have reached the wheel all the same.            *)
SetRange(t) ==
  LET w == Job(t).key
  IN  /\ up /\ at[t] = "range"
      /\ \/ range' = [range EXCEPT ![w] = Job(t).next] /\ Goto(t, "read") /\ UNCHANGED <<faults, settled>>
         \/ /\ Fails /\ End(t, FALSE)
            /\ range' \in {range, [range EXCEPT ![w] = Job(t).next]}
            /\ settled' = [settled EXCEPT ![w] = FALSE]
      /\ UNCHANGED <<up, disk, calls, damage>>

StayWithNew(t) == UNCHANGED range
BackToPrevious(t) == range' = [range EXCEPT ![Job(t).key] = Job(t).prev]

Rollback(t) ==
  LET w == Job(t).key
  IN  /\ up /\ at[t] = "rollback"
      /\ End(t, FALSE)
      /\ \/ /\ BackToPrevious(t) /\ UNCHANGED faults
            /\ settled' = [settled EXCEPT ![w] = Job(t).sure]
         \/ /\ Fails /\ range' \in {range, [range EXCEPT ![w] = Job(t).prev]}
            /\ settled' = [settled EXCEPT ![w] = FALSE]
      /\ UNCHANGED <<up, disk, calls, damage>>

ApplyNativeEngineProfile(t) ==
  \E w \in Keys, name \in Names : Begin(t, <<Ask("engine", "apply", w, name)>>)

(* A range that is set by itself, by the menu or a hardware check; a        *)
(* command that fails may have reached the wheel.                           *)
NativeOutputApplyRange ==
  /\ up /\ at["ui"] = "idle" /\ calls < MaxCalls /\ calls' = calls + 1
  /\ \E w \in Keys, d \in Degrees :
       range' = [range EXCEPT ![w] = d] /\ settled' = [settled EXCEPT ![w] = FALSE]
  /\ UNCHANGED <<up, disk, jobs, at, seen, faults, damage>>

-----------------------------------------------------------------------------
(* The operations of the user interface.                                    *)

Put(s) == \E k \in Keys, v \in Values : Begin("ui", <<Ask(s, "put", k, v)>>)

SavePedalMapping == Put("pedals")
SaveControlProfile == Put("controls")
SaveNativeFFBConfig == Put("nativeFFB")
SaveAdvancedFFBConfig == Put("advancedFFB")
SaveGameProfile == Put("games")
DeleteGameProfile == \E k \in Keys : Begin("ui", <<Ask("games", "delete", k, None)>>)

(* A profile is stored, which may be the active one, and nothing else (by   *)
(* an import), or it is applied then, or with native output off and for a   *)
(* gain only made the active one: "Lenkwinkel nur gespeichert".             *)
SaveNativeEngineProfile ==
  \E k \in Keys, d \in Degrees :
    LET save == Ask("engine", "rewrite", k, d)
        then(op) == [Ask("engine", op, k, Custom) EXCEPT !.after = TRUE]
    IN  \/ Begin("ui", <<save>>)
        \/ Begin("ui", <<save, then("apply")>>)
        \/ Begin("ui", <<save, then("activate")>>)

(* A built-in profile is made the active one without the wheel.             *)
SetActiveNativeEngineProfile ==
  \E k \in Keys : Begin("ui", <<Ask("engine", "activate", k, Balanced)>>)

(* Every live update reads the profile of the wheel.                        *)
ReadControlProfile == \E k \in Keys : Begin("ui", <<Ask("controls", "read", k, None)>>)

ClearWheelDevicePreference == \E k \in Keys : Begin("ui", <<Ask("models", "delete", k, None)>>)

ClearWheelDetectionState ==
  \E k \in Keys : Begin("ui", <<Ask("models", "remove", k, None), Ask("history", "remove", k, None)>>)

-----------------------------------------------------------------------------
(* The operations of a scan.                                                *)

(* A native wheel is remembered when it is new or differs from its record.  *)
RememberNativeIdentity ==
  \E k \in Keys, v \in Values :
    entries["history"][k] # v /\ Begin("scan", <<Ask("history", "put", k, v)>>)

(* The models stored under former IDs of the connected wheels.              *)
MigratePreferences ==
  \E k \in Keys : \E old \in Keys \ {k} :
    Begin("scan", <<[Ask("models", "copy", k, None) EXCEPT !.from = old]>>)

(* The selected wheel has a new ID: its model is stored under the new one,  *)
(* then removed from the old one, and its pedals are copied.                *)
MigratePerWheelState ==
  \E k \in Keys : \E old \in Keys \ {k} :
    LET prefs == entries["models"]
        pedals == <<[Ask("pedals", "copy", k, None) EXCEPT !.from = old]>>
        move == <<Ask("models", "put", k, prefs[old]),
                  [Ask("models", "delete", old, None) EXCEPT !.after = TRUE]>>
    IN  Begin("scan", IF prefs[old] # None /\ prefs[k] = None THEN move \o pedals ELSE pedals)

-----------------------------------------------------------------------------
(* Start and end of the program, and what happens to the files meanwhile.   *)

(* The snapshot holds the files it has on its list as they are, the damaged *)
(* ones too; pedals.json and advanced-ffb.json are not on the list.          *)
CreateConfigSnapshot ==
  /\ ~up /\ schema = "old" /\ snapshot' = TRUE
  /\ UNCHANGED <<up, schema, health, entries, marker, jobs, at, seen, wheel, counters>>

(* Without the snapshot, or with data of a newer version, nothing starts.   *)
EnsureDataSchema ==
  /\ schema = "old" => snapshot
  /\ schema # "newer"
  /\ schema' = "current"

Start ==
  /\ ~up /\ up' = TRUE
  /\ EnsureDataSchema
  /\ UNCHANGED <<snapshot, health, entries, marker, jobs, at, seen, wheel, counters>>

(* The program ends, at any point: what a thread had read is lost.          *)
Die ==
  /\ up /\ up' = FALSE
  /\ jobs' = [t \in Threads |-> <<>>] /\ at' = [t \in Threads |-> "idle"]
  /\ seen' = [t \in Threads |-> Empty]
  /\ settled' = [k \in Keys |-> FALSE]
  /\ UNCHANGED <<disk, range, counters>>

Damage ==
  /\ ~up /\ damage < MaxDamage /\ damage' = damage + 1
  /\ \/ \E s \in Stores, h \in {"bad", "newer"} :
          /\ h = "bad" \/ s \in Versioned
          /\ health' = [health EXCEPT ![s] = h]
          /\ entries' = [entries EXCEPT ![s] = Empty]
          /\ UNCHANGED schema
     \/ schema' \in {"none", "newer"} /\ UNCHANGED <<health, entries>>
  /\ UNCHANGED <<up, snapshot, marker, jobs, at, seen, wheel, calls, faults>>

-----------------------------------------------------------------------------
User ==
  \/ SavePedalMapping \/ SaveControlProfile \/ SaveNativeFFBConfig \/ SaveAdvancedFFBConfig
  \/ SaveGameProfile \/ DeleteGameProfile \/ SaveNativeEngineProfile \/ SetActiveNativeEngineProfile
  \/ NativeOutputApplyRange \/ ReadControlProfile
  \/ ClearWheelDevicePreference \/ ClearWheelDetectionState

Scan == RememberNativeIdentity \/ MigratePreferences \/ MigratePerWheelState

Step(t) ==
  \/ Read(t) \/ ReadFails(t) \/ Reread(t) \/ Preserve(t) \/ Mark(t)
  \/ Gate(t) \/ Temp(t) \/ Replace(t) \/ Remove(t)
  \/ Look(t) \/ Stop(t) \/ SetRange(t) \/ Rollback(t)

Next ==
  \/ User \/ Scan \/ CreateConfigSnapshot \/ Start \/ Die \/ Damage
  \/ \E t \in Appliers : ApplyNativeEngineProfile(t)
  \/ \E t \in Threads : Step(t)

Spec == Init /\ [][Next]_vars

-----------------------------------------------------------------------------
(* Only a reset that the user asked for replaces a file that cannot be read *)
(* or that a newer version wrote, whatever is saved, migrated or learned by *)
(* the two threads, and whichever read, copy or write fails on the way.     *)
OnlyResetReplaces ==
  [][\A s \in Stores :
       health[s] # "sound" /\ health'[s] = "sound"
         => \E t \in Threads : at[t] = "remove" /\ Job(t).store = s]_vars

(* A save that fails or is cut off leaves the old file or the new one: no   *)
(* step of the program, and no end of it, leaves a file that is half        *)
(* written.                                                                 *)
NeverTorn ==
  [][\A s \in Stores : health[s] # "bad" /\ health'[s] = "bad" => ~up]_vars

(* An apply is a transaction of wheel and file ("so UI/config and actual    *)
(* wheel cannot silently diverge"): once one has stored its profile, or has *)
(* set the former range again because it could not, the wheel has the range *)
(* that the file names, whatever is saved beside and also when the profile  *)
(* applied is the active one, rewritten just before.  This ends when a      *)
(* range is set or a profile is stored by itself, or a command fails.  It   *)
(* does not hold with both threads applying, nor for an apply that could    *)
(* not read the former profile.                                             *)
RangeFollowsProfile ==
  \A w \in Keys :
    settled[w] /\ (\A t \in Threads : jobs[t] # <<>> => Job(t).op # "apply")
      => range[w] = Named(w)

=============================================================================
