-------------------------- MODULE MCManualReviewWorker -------------------------
(* A small instance of ManualReviewWorker for TLC.                             *)
EXTENDS ManualReviewWorker
================================================================================
