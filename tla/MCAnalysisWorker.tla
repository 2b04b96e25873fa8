----------------------------- MODULE MCAnalysisWorker -----------------------------
(* Small instances of AnalysisWorker for TLC.                                  *)
EXTENDS AnalysisWorker
================================================================================
