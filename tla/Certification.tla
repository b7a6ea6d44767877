--------------------------- MODULE Certification ---------------------------
(***************************************************************************)
(* The certification of a wheel: the assistant with its checks, and the       *)
(* evidence they leave in a file.                                            *)
(*                                                                         *)
(* The assistant keeps the state it was opened with.  The evidence is cached    *)
(* for two seconds by reference: what a save that fails or a reset changed      *)
(* stays in the cache, and a later save stores it.  A load finds the cache, or    *)
(* the file if the cache expired.  The refresh loads, too, for the progress it    *)
(* shows: it reads the file outside the lock and puts what it read in the cache    *)
(* later, over whatever the assistant saved meanwhile.                           *)
(***************************************************************************)
EXTENDS WheelCommands

VARIABLES
  evidence,  \* the file: whether it can be read, and the results in it
  cache,     \* certificationFileCache
  asked,     \* the records whose reset the user asked for
  filling,   \* what the refresh read and has not put in the cache yet
  missed     \* the results saved since the refresh last read, and not in what it read

certified == <<evidence, cache, asked, filling, missed>>

(* One check of each kind: found by the program, judged by the user, sampled    *)
(* from the wheel, a range and the effects.  What the user judged and what the   *)
(* samples showed is left out.                                                *)
MotorChecks == {"range", "effect"}
Checks == {"native-mode-switch", "reconnect", "steering"} \cup MotorChecks
Verdict(passed) == IF passed THEN "passed" ELSE "failed"

Cold == [cold |-> TRUE]
Hot(recs) == [cold |-> FALSE, recs |-> recs]

InitCertification ==
  /\ evidence = [kind |-> "good", recs |-> {}]
  /\ cache = Cold /\ asked = {}
  /\ filling = Cold /\ missed = {}

-----------------------------------------------------------------------------
(* The file and its cache. *)

Readable == evidence.kind = "good"
Cached == {c.recs : c \in {cache} \ {Cold}}
Pending == {c.recs : c \in {filling} \ {Cold}}

HasFile == Readable /\ evidence.recs # {}

DamageEvidence ==
  /\ HasFile /\ Fault
  /\ evidence' = [kind |-> "damaged", recs |-> {}]
  /\ UNCHANGED <<bus, app, tool, plugs, acts, motor, cache, asked, filling, missed>>

(* A newer version ran on the same data and stored it with its own schema.        *)
Newer ==
  /\ tool = NoTool /\ lease = Free /\ HasFile /\ Fault
  /\ evidence' = [evidence EXCEPT !.kind = "newer"] /\ cache' = Cold
  /\ filling' = Cold /\ missed' = {}
  /\ UNCHANGED <<bus, app, tool, plugs, acts, motor, asked>>

(* Mutant: what cannot be read is taken for no evidence.                        *)
LenientLoad == Cached \cup {IF Readable THEN evidence.recs ELSE {}}

(* The results a load may find; it fails if the cache expired and the file cannot *)
(* be read.                                                                   *)
loadHardwareCertification == Cached \cup {recs \in {evidence.recs} : Readable}

(* HardwareCertificationProgress, which the menu shows.                         *)
Warmed == IF Readable THEN {Hot(recs) : recs \in loadHardwareCertification} ELSE {cache}

certificationRecordKey(s) == <<s.stored, Kind(SelectedWheel(s))>>

(* The map that was loaded is the one in the cache, whatever becomes of the save.  *)
saveHardwareCertification(recs, fault) ==
  /\ cache' = Hot(recs) /\ filling' = filling
  /\ IF fault THEN UNCHANGED <<evidence, missed>>
     ELSE /\ evidence' = [kind |-> "good", recs |-> recs]
          /\ missed' = missed \cup UNION {recs \ old : old \in Pending}

LoadFails(fault) == ~Readable /\ ~fault /\ UNCHANGED <<evidence, cache, filling, missed>>

(* The tool goes on with its menu.                                            *)
Menu == tool' = [tool EXCEPT !.check = "menu"]

RecordHardwareCertificationResult(s, check, verdict, fault) ==
  LET key == certificationRecordKey(s)
      result == [key |-> key, check |-> check, verdict |-> verdict]
  IN  \/ LoadFails(fault)
      \/ \E recs \in loadHardwareCertification :
           saveHardwareCertification({r \in recs : r.key # key \/ r.check # check} \cup {result}, fault)

(* A step that ends with motor and faults as in d and records a result.          *)
Records(d, s, check, verdict) ==
  /\ \E fault \in {FALSE} \cup {d.faults < MaxFaults} :
       /\ Becomes([d EXCEPT !.faults = @ + (IF fault THEN 1 ELSE 0)])
       /\ RecordHardwareCertificationResult(s, check, verdict, fault)
  /\ Menu
  /\ UNCHANGED <<bus, app, plugs, asked>>

-----------------------------------------------------------------------------
(* The assistant. *)

(* certificationModelForState: without a confirmed wheel there is no menu.       *)
showHardwareCertificationAssistant ==
  /\ tool = NoTool /\ MayUse("certify") /\ HasActionableSelectedWheel(app)
  /\ tool' = [kind |-> "cert", s |-> app, check |-> "menu"]
  /\ cache' \in Warmed
  /\ acts' = [acts EXCEPT !.part = "certify"]
  /\ UNCHANGED <<bus, app, plugs, faults, motor, evidence, asked, filling, missed>>

InMenu == tool.kind = "cert" /\ tool.check = "menu"
Picks(check) ==
  /\ InMenu /\ check \in Checks
  /\ Uses("certify")
Asks(check) == tool.kind = "cert" /\ tool.check = check

(* CollectState shows the progress of a confirmed wheel.  The cache expired, and    *)
(* the file is read; one refresh runs at a time.  Where a behaviour has one part,   *)
(* only a read under the open menu is looked at, when two checks may follow, and a   *)
(* write when one may.                                                         *)
RefreshReads ==
  /\ filling = Cold /\ Readable
  /\ HasActionableSelectedWheel([app EXCEPT !.seen = bus])
  /\ OnePart => InMenu /\ acts.part = "certify" /\ acts.count + 1 < MaxActs
  /\ filling' = Hot(evidence.recs) /\ cache' = Cold /\ missed' = {}
  /\ UNCHANGED <<world, motor, evidence, asked>>

RefreshFills ==
  /\ filling # Cold /\ (OnePart => acts.count < MaxActs)
  /\ cache' = filling /\ filling' = Cold
  /\ UNCHANGED <<world, motor, evidence, asked, missed>>

CloseAssistant ==
  /\ InMenu /\ tool' = NoTool
  /\ UNCHANGED <<bus, app, plugs, faults, acts, motor, certified>>

(* AutoCertificationEvidence: the mode of the wheel when the assistant opened.   *)
AutoCheck ==
  /\ Picks("native-mode-switch")
  /\ Records(Now, tool.s, "native-mode-switch", Verdict(SelectedWheel(tool.s).mode = "native"))

recordCertificationFromUser ==
  /\ Picks("reconnect")
  /\ Records(Now, tool.s, "reconnect", "judged")

(* A question to the user about what he sees, after the outcome o.               *)
Question(o, check) ==
  /\ tool' = [tool EXCEPT !.check = check]
  /\ Becomes(o.d)
  /\ UNCHANGED <<bus, app, plugs, certified>>

(* certifySteering, certifyPedals, certifyButtons and certifyShifter: several      *)
(* samples, of which the first has to be there.                                 *)
certifySteering ==
  /\ Picks("steering") /\ ReadPreferredWheelInput(tool.s) # {}
  /\ Records(Now, tool.s, "steering", "sampled")

(* certifyRange.                                                              *)
RangeStart(native) ==
  /\ native /\ Picks("range")
  /\ \E o \in NativeOutputApplyRange(Now, tool.s, TRUE) :
       IF o.ok THEN Question(o, "range") ELSE Records(o.d, tool.s, "range", "failed")

(* Mutants: the answer alone counts.                                           *)
AsSeen(seen, done) == seen
Passes(seen, done) == seen /\ done

RangeAnswer(seen) ==
  /\ Asks("range") /\ acts' = acts
  /\ \E o \in NativeOutputApplyRange(Now, tool.s, FALSE) :
       Records(o.d, tool.s, "range", Verdict(Passes(seen, o.ok)))

(* certifyMotorEffect.                                                        *)
EffectStart(use, native) ==
  /\ native /\ Picks("effect")
  /\ \E o \in StartTest(Now, tool.s, use) :
       IF o.ok THEN Question(o, "effect") ELSE Records(o.d, tool.s, "effect", "failed")
EffectAnswer(felt) ==
  /\ Asks("effect") /\ acts' = acts
  /\ \E o \in NativeOutputEmergencyStop(Now, tool.s) :
       Records(o.d, tool.s, "effect", Verdict(Passes(felt, o.ok)))

ResetHardwareCertification ==
  /\ InMenu /\ Uses("certify")
  /\ asked' = asked \cup {certificationRecordKey(tool.s)}
  /\ \E fault \in {FALSE} \cup {faults < MaxFaults} :
       /\ faults' = faults + (IF fault THEN 1 ELSE 0)
       /\ \/ LoadFails(fault)
          \/ \E recs \in loadHardwareCertification :
               saveHardwareCertification({r \in recs : r.key # certificationRecordKey(tool.s)}, fault)
  /\ UNCHANGED <<bus, app, tool, plugs, motor>>

CertificationNext(native) ==
  \/ showHardwareCertificationAssistant \/ CloseAssistant
  \/ DamageEvidence \/ Newer \/ RefreshReads \/ RefreshFills
  \/ AutoCheck \/ RangeStart(native) \/ ResetHardwareCertification
  \/ \E use \in {"worker", "timer"} : EffectStart(use, native)
  \/ recordCertificationFromUser \/ certifySteering
  \/ \E yes \in BOOLEAN : RangeAnswer(yes) \/ EffectAnswer(yes)

-----------------------------------------------------------------------------
(* A check of force or range passes only when its test is over for sure: nobody  *)
(* holds the output, no motor is driven and a narrowed range is wide again, though *)
(* the wheel was unplugged, a write failed or the test ended by itself meanwhile.      *)
Known == evidence.recs \cup UNION (Cached \cup Pending)
PassLeavesSafe ==
  [][\A r \in Known' \ Known :
       r.verdict = "passed" /\ r.check \in MotorChecks =>
         /\ lease' = Free /\ \A p \in Ports : force'[p] = "none"
         /\ r.check = "range" => ~narrow'[r.key[1]]]_<<motor, certified>>

(* A result is lost only with the file, for a wheel whose reset was asked, or if it  *)
(* was saved while the refresh was between its read and its write of the cache: not   *)
(* to a file that cannot be read, a save that failed or another wheel's check.      *)
EvidenceKept ==
  [][evidence'.kind # "damaged" =>
       \A r \in evidence.recs :
         \/ r.key \in asked' \/ r \in missed
         \/ \E q \in evidence'.recs : q.key = r.key /\ q.check = r.check]_certified

=============================================================================
