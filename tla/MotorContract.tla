---------------------------- MODULE MotorContract ----------------------------
(***************************************************************************)
(* What the output coordinator promises about the motor of one wheel, with *)
(* no worker, no timer and no status block in sight:                       *)
(*   - only an owner drives the motor, and only after evidence of it is on *)
(*     disk;                                                               *)
(*   - the evidence goes away only while the motor is off;                 *)
(*   - an owner that may be driving does not let go, unless its process    *)
(*     ends, and then the evidence is still there.                         *)
(***************************************************************************)
EXTENDS Naturals

CONSTANT Owners   \* the sessions of one process

VARIABLES owner,     \* the session that owns the output, 0 for none
          evidence,  \* a recovery marker is on disk
          motor      \* "off", "own" of this process, "orphan" of a former one

contract == <<owner, evidence, motor>>

ContractInit ==
  /\ owner = 0
  /\ evidence = FALSE
  /\ motor = "off"

Claim ==
  /\ owner = 0
  /\ owner' \in Owners
  /\ UNCHANGED <<evidence, motor>>

Note ==
  /\ owner # 0
  /\ evidence' = TRUE
  /\ UNCHANGED <<owner, motor>>

Drive ==
  /\ owner # 0
  /\ evidence
  /\ motor' = "own"
  /\ UNCHANGED <<owner, evidence>>

Neutralise ==
  /\ motor' = "off"
  /\ UNCHANGED <<owner, evidence>>

Forget ==
  /\ motor = "off"
  /\ evidence' = FALSE
  /\ UNCHANGED <<owner, motor>>

Yield ==
  /\ motor # "own"
  /\ owner' = 0
  /\ UNCHANGED <<evidence, motor>>

ProcessEnds ==
  /\ owner' = 0
  /\ motor' = IF motor = "off" THEN "off" ELSE "orphan"
  /\ UNCHANGED evidence

ContractNext == Claim \/ Note \/ Drive \/ Neutralise \/ Forget \/ Yield \/ ProcessEnds

ContractSpec == ContractInit /\ [][ContractNext]_contract

-----------------------------------------------------------------------------

\* The states of the contract: a driven motor has an owner and evidence, an
\* orphaned one has evidence.
Kept ==
  /\ owner \in Owners \cup {0}
  /\ motor \in {"off", "own", "orphan"}
  /\ motor = "own" => owner # 0
  /\ motor # "off" => evidence = TRUE
=============================================================================
