----------------------------- MODULE MCGateReview ------------------------------
(******************************************************************************)
(* Small instances of GateReview for TLC: see the configurations.             *)
(******************************************************************************)
EXTENDS GateReview

================================================================================
