-------------------------- MODULE MCOptimizationWorker -------------------------
(* Small instances of OptimizationWorker for TLC.                              *)
EXTENDS OptimizationWorker
================================================================================
