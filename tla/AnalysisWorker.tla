------------------------------ MODULE AnalysisWorker ------------------------------
(* The worker processes of AnalysisRuns, node by node (analysis_worker.py). A  *)
(* run that is taken over starts from the first node, because the graph is     *)
(* always invoked with an input; a checkpoint it cannot read fails it.         *)
EXTENDS AnalysisRuns

VARIABLE analyst    \* the local state of each worker process

analysisWorkerVars == <<analysisVars, analyst>>

(* The nodes, and the times between the requests to the agent and its answers  *)
AnalysisNodes == {"load_run", "collect_facts", "call_analysis_agent",
                  "validate_and_reconcile", "persist_results", "finalize"}

Asked == {"asking", "repairing"}

Asleep == [pc |-> "idle", job |-> {}, drafts |-> NoRanking]

Analyzing(w) == analyst[w].pc \notin {"idle", "down"}

On(w, pc, r) == analyst[w].pc = pc /\ analyst[w].job = {r}

Advance(w, pc) == analyst' = [analyst EXCEPT ![w].pc = pc]

Stop(w) == analyst' = [analyst EXCEPT ![w] = Asleep]

Answered(w, pc, drafts) ==
  analyst' = [analyst EXCEPT ![w] = [@ EXCEPT !.pc = pc, !.drafts = drafts]]

Kept == UNCHANGED analysisVars

TakeAnalysis(w, r) ==
  /\ analyst[w].pc = "idle"
  /\ ClaimAnalysis(w, r)
  /\ analyst' = [analyst EXCEPT ![w] = [pc |-> "load_run", job |-> {r}, drafts |-> NoRanking]]

TakeNoAnalysis(w) ==
  /\ analyst[w].pc = "idle"
  /\ ClaimNoAnalysis
  /\ UNCHANGED analyst

LoadRun(w, r) ==
  /\ On(w, "load_run", r)
  /\ MayWrite(w, r)
  /\ Advance(w, "collect_facts") /\ Kept

CollectFacts(w, r) ==
  /\ On(w, "collect_facts", r)
  /\ MayWrite(w, r)
  /\ Advance(w, "call_analysis_agent") /\ Kept

(* The step is noted, and the lease renewed before the request                 *)
CallAgent(w, r) ==
  /\ On(w, "call_analysis_agent", r)
  /\ MayWrite(w, r)
  /\ Advance(w, "asking") /\ Kept

(* The agent answers with a ranking, or with none that is usable               *)
AgentRanks(w, r) ==
  /\ On(w, "asking", r)
  /\ \E ranking \in Rankings \cup {NoRanking} : Answered(w, "validate_and_reconcile", ranking)
  /\ Kept

(* With a ranking the node is done. Without one the candidates are degraded to *)
(* the order of the facts, or the agent is asked to repair its answer.         *)
Reconcile(w, r, degraded) ==
  /\ On(w, "validate_and_reconcile", r)
  /\ MayWrite(w, r)
  /\ \/ analyst[w].drafts # NoRanking /\ Advance(w, "persist_results")
     \/ analyst[w].drafts = NoRanking /\ Answered(w, "persist_results", degraded)
     \/ analyst[w].drafts = NoRanking /\ Advance(w, "repairing")
  /\ Kept

AgentRepairs(w, r, degraded) ==
  /\ On(w, "repairing", r)
  /\ \E ranking \in Rankings \cup {degraded} : Answered(w, "persist_results", ranking)
  /\ Kept

PersistResults(w, r) ==
  /\ On(w, "persist_results", r)
  /\ PersistOffer(w, r, analyst[w].drafts)
  /\ Advance(w, "finalize")

FinalizeRun(w, r) ==
  /\ On(w, "finalize", r)
  /\ FinalizeAnalysis(w, r)
  /\ Stop(w)

(* LeaseLostError, also before a further request to the agent                  *)
LoseAnalysis(w, r) ==
  /\ analyst[w].pc \in AnalysisNodes \cup Asked /\ analyst[w].job = {r}
  /\ ~HasLease(w, r)
  /\ Stop(w) /\ Kept

LoseTrust(w, r) ==
  /\ analyst[w].pc \in AnalysisNodes \cup Asked /\ analyst[w].job = {r}
  /\ FailDistrusted(w, r)
  /\ Stop(w)

(* No facts, an unreadable checkpoint, or an error of the database, such as a  *)
(* rank that is taken                                                          *)
AnalysisBreaks(w) ==
  /\ analyst[w].pc \in AnalysisNodes \cup Asked
  /\ Advance(w, "failing") /\ Kept

(* _fail_current_run, in a session of its own                                  *)
FailCurrentAnalysis(w, r) ==
  /\ On(w, "failing", r)
  /\ \/ FailAnalysis(w, r)
     \/ ~HasLease(w, r) /\ Kept
  /\ Stop(w)

AnalystCrashes(w) ==
  /\ Analyzing(w)
  /\ analyst' = [analyst EXCEPT ![w] = [Asleep EXCEPT !.pc = "down"]]
  /\ Kept

AnalystRestarts(w) ==
  /\ analyst[w].pc = "down"
  /\ Stop(w) /\ Kept

AnalysisWorkerInit ==
  /\ AnalysisInit
  /\ analyst = [w \in Analysts |-> Asleep]

(* build_degraded_drafts, the order of the facts being one of the rankings     *)
Degraded == CHOOSE ranking \in Rankings : TRUE

AnalysisStep(w, r) ==
  \/ TakeAnalysis(w, r) \/ LoadRun(w, r) \/ CollectFacts(w, r) \/ CallAgent(w, r)
  \/ AgentRanks(w, r) \/ Reconcile(w, r, Degraded) \/ AgentRepairs(w, r, Degraded)
  \/ PersistResults(w, r) \/ FinalizeRun(w, r) \/ LoseAnalysis(w, r) \/ LoseTrust(w, r)
  \/ FailCurrentAnalysis(w, r)

AnalysisNext ==
  \/ \E r \in AnalysisIds : CreateAnalysis(r) /\ UNCHANGED analyst
  \/ Distrust /\ UNCHANGED analyst
  \/ \E r \in AnalysisIds : AnalysisLapses(r) /\ UNCHANGED analyst
  \/ \E r \in AnalysisIds, x \in Ranked : SelectOffered(r, x) /\ UNCHANGED analyst
  \/ \E w \in Analysts, r \in AnalysisIds : AnalysisStep(w, r)
  \/ \E w \in Analysts : TakeNoAnalysis(w) \/ AnalysisBreaks(w) \/ AnalystCrashes(w)
                           \/ AnalystRestarts(w)

AnalysisSpec == AnalysisWorkerInit /\ [][AnalysisNext]_analysisWorkerVars

--------------------------------------------------------------------------------
(* Properties.                                                                 *)

Offered(r) == analysis[r].status \in {"awaiting_selection", "completed"}

(* What is offered was written by the attempt that offers it: a run that was   *)
(* taken over is never put up for selection by the worker that lost it, with   *)
(* the candidates of an earlier attempt or with none (analysis_worker.py:347   *)
(* and 432).                                                                   *)
OfferIsHolders ==
  \A r \in AnalysisIds :
    Offered(r) => /\ offer[r].ranking # NoRanking
                  /\ offer[r].claim = analysis[r].claims

(* An offer stands: neither a worker that lost the lease, nor a broken graph,  *)
(* nor a second selection changes it or takes it back (analysis_runs.py:57,    *)
(* proposals.py:156).                                                          *)
OfferStands ==
  [][\A r \in AnalysisIds :
       Offered(r) => /\ offer'[r] = offer[r]
                     /\ analysis'[r].status \in {analysis[r].status, "completed"}
                     /\ selection[r] # NoProduct => selection'[r] = selection[r]
    ]_analysisWorkerVars

(* The candidates that a holder of the lease writes replace those of an        *)
(* earlier attempt: an attempt after a crash can be completed.                 *)
ReplayIsAccepted ==
  \A w \in Analysts, r \in AnalysisIds :
    On(w, "persist_results", r) /\ MayWrite(w, r) => RanksFree(r, analyst[w].drafts)

================================================================================
