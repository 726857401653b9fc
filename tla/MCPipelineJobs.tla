---------------------------- MODULE MCPipelineJobs -----------------------------
(******************************************************************************)
(* Small instances of PipelineJobs for TLC: see the configurations.           *)
(******************************************************************************)
EXTENDS PipelineJobs

================================================================================
