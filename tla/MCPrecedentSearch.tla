--------------------------- MODULE MCPrecedentSearch ---------------------------
(******************************************************************************)
(* Small instances of PrecedentSearch for TLC: see the configuration.         *)
(******************************************************************************)
EXTENDS PrecedentSearch

================================================================================
