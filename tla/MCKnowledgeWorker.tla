---------------------------- MODULE MCKnowledgeWorker ----------------------------
(* Small instances of KnowledgeWorker for TLC.                                 *)
EXTENDS KnowledgeWorker
================================================================================
