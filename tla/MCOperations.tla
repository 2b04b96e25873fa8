------------------------------- MODULE MCOperations -------------------------------
(* Small instances, for TLC, of the components that share nothing with each    *)
(* other but the users: the knowledge base, analyses, logistics, webhooks and  *)
(* administration. A behaviour exercises one of them, which is chosen at its   *)
(* beginning, while the others rest.                                           *)
EXTENDS KnowledgeWorker, AnalysisWorker, Logistics, PlatformWebhooks, Administration

VARIABLE focus

operationsVars == <<vars, analysisWorkerVars, logisticsVars, webhookVars, administrationVars>>

OperationsInit ==
  /\ focus \in {"knowledge", "analysis", "logistics", "webhooks", "administration"}
  /\ Init
  /\ AnalysisWorkerInit
  /\ LogisticsInit
  /\ WebhookInit
  /\ AdministrationInit
  /\ focus # "administration" => administrators = {1, 2}

OperationsNext ==
  /\ \/ /\ focus = "knowledge"
        /\ Next
        /\ UNCHANGED <<analysisWorkerVars, logisticsVars, webhookVars, administrationVars>>
     \/ /\ focus = "analysis"
        /\ AnalysisNext
        /\ UNCHANGED <<vars, logisticsVars, webhookVars, administrationVars>>
     \/ /\ focus = "logistics"
        /\ LogisticsNext
        /\ UNCHANGED <<vars, analysisWorkerVars, webhookVars, administrationVars>>
     \/ /\ focus = "webhooks"
        /\ WebhookNext
        /\ UNCHANGED <<vars, analysisWorkerVars, logisticsVars, administrationVars>>
     \/ /\ focus = "administration"
        /\ AdministrationNext
        /\ UNCHANGED <<vars, analysisWorkerVars, logisticsVars, webhookVars>>
  /\ UNCHANGED focus

OperationsSpec == OperationsInit /\ [][OperationsNext]_<<operationsVars, focus>>

================================================================================
