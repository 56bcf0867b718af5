-------------------------- MODULE MCAnalysisJobStore --------------------------
(* Instances of AnalysisJobStore for TLC. *)
EXTENDS AnalysisJobStore
=============================================================================
