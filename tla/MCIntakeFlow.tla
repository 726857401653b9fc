----------------------------- MODULE MCIntakeFlow ------------------------------
(******************************************************************************)
(* Small instances of IntakeFlow for TLC: see the configuration.              *)
(******************************************************************************)
EXTENDS IntakeFlow

================================================================================
