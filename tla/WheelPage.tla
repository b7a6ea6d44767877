----------------------------- MODULE WheelPage -----------------------------
(***************************************************************************)
(* The wheel page: learning inputs, the force feedback panel, the output      *)
(* dialogs and the certification of one program, over the same wheels, the     *)
(* same stored selection and the same output lease.                           *)
(***************************************************************************)
EXTENDS Calibration, Certification, FFBPanel

pageVars == <<world, assistant, profiles, motor, certified, panel, said>>

PageInit == InitWorld /\ InitCalibration /\ InitMotor /\ InitCertification /\ InitPanel

PageNext ==
  \/ WorldNext /\ Silent /\ UNCHANGED <<motor, assistant, profiles, certified, panel>>
  \/ CommandsNext /\ Silent /\ UNCHANGED <<assistant, profiles, certified, panel>>
  \/ CalibrationNext /\ Silent /\ UNCHANGED <<motor, certified, panel>>
  \/ CertificationNext(native) /\ Silent /\ UNCHANGED <<assistant, profiles, panel>>
  \/ PanelNext /\ UNCHANGED <<assistant, profiles, certified>>

PageSpec == PageInit /\ [][PageNext]_pageVars

=============================================================================
