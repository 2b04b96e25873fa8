------------------------------- MODULE AnalysisRuns -------------------------------
(* Analysis runs: the transactions of analysis_runs.py, and the selection of   *)
(* one of the products they offer (proposals.py). A run offers every product   *)
(* that the store's data single out, ranked; the data do not change, the       *)
(* ranking is the agent's. Rows of candidates are written together and all of  *)
(* them, so a run's rows are one ranking and the attempt that wrote it.        *)
EXTENDS Naturals, FiniteSets

CONSTANTS AnalysisIds,
          Ranked,           \* the products an analysis of the store singles out
          NoProduct,
          Analysts,         \* lease_owner of each worker
          NoAnalyst,
          MaxClaims         \* 3 in the code

ASSUME AnalysisAssumption ==
  /\ NoAnalyst \notin Analysts
  /\ NoProduct \notin Ranked
  /\ IsFiniteSet(Ranked) /\ Ranked # {}
  /\ MaxClaims \in Nat \ {0}

VARIABLES analysis,   \* workflow_runs of type analysis
          offer,      \* analysis_candidates of each run
          selection,  \* product_proposals, by the run whose candidate was selected
          trusted     \* the creator may still use the store

analysisVars == <<analysis, offer, selection, trusted>>

(* validate_agent_response: every product once, ranks without gaps             *)
Rankings == {f \in [Ranked -> 1..Cardinality(Ranked)] :
               \A x, y \in Ranked : f[x] = f[y] => x = y}

NoRanking == <<>>

Freed(row, status) == [row EXCEPT !.status = status, !.owner = NoAnalyst, !.lapsed = FALSE]

CreateAnalysis(r) ==
  /\ analysis[r].status = "absent"
  /\ trusted
  /\ analysis' = [analysis EXCEPT ![r].status = "accepted"]
  /\ UNCHANGED <<offer, selection, trusted>>

(* The creator is disabled, moved to another department or loses the store.    *)
Distrust ==
  /\ trusted
  /\ trusted' = FALSE
  /\ UNCHANGED <<analysis, offer, selection>>

--------------------------------------------------------------------------------
(* The lease.                                                                  *)

AnalysisLapsed(r) == analysis[r].status = "processing" /\ analysis[r].lapsed

Abandoned == {r \in AnalysisIds : AnalysisLapsed(r) /\ analysis[r].claims >= MaxClaims}

GivenUp == [r \in AnalysisIds |-> IF r \in Abandoned THEN Freed(analysis[r], "failed")
                                                     ELSE analysis[r]]

Claimed(row, w) == [row EXCEPT !.status = "processing", !.owner = w, !.lapsed = FALSE,
                               !.claims = @ + 1]

(* claim_next_analysis_run                                                     *)
ClaimAnalysis(w, r) ==
  /\ analysis[r].status = "accepted" \/ AnalysisLapsed(r)
  /\ analysis[r].claims < MaxClaims
  /\ analysis' = [GivenUp EXCEPT ![r] = Claimed(@, w)]
  /\ UNCHANGED <<offer, selection, trusted>>

ClaimNoAnalysis ==
  /\ Abandoned # {}
  /\ analysis' = GivenUp
  /\ UNCHANGED <<offer, selection, trusted>>

AnalysisLapses(r) ==
  /\ analysis[r].status = "processing"
  /\ ~analysis[r].lapsed
  /\ analysis' = [analysis EXCEPT ![r].lapsed = TRUE]
  /\ UNCHANGED <<offer, selection, trusted>>

(* owned_workflow_lease                                                        *)
HasLease(w, r) ==
  analysis[r].status = "processing" /\ analysis[r].owner = w /\ ~analysis[r].lapsed

(* _authorized_analysis_run: renewing the lease or noting a step leaves no     *)
(* other trace than that it succeeded.                                         *)
MayWrite(w, r) == HasLease(w, r) /\ trusted

(* ANALYSIS_AUTHORIZATION_CHANGED                                              *)
FailDistrusted(w, r) ==
  /\ HasLease(w, r)
  /\ ~trusted
  /\ analysis' = [analysis EXCEPT ![r] = Freed(@, "failed")]
  /\ UNCHANGED <<offer, selection, trusted>>

(* Rows are inserted by rank, or updated if the run has one for the product;   *)
(* a rank that the row of a product further down still has is a conflict of    *)
(* uq_analysis_candidates_workflow_run_id_rank, which no upsert absorbs.       *)
RanksFree(r, ranking) ==
  offer[r].ranking # NoRanking =>
    \A x, y \in Ranked : ranking[x] = offer[r].ranking[y] => ranking[y] <= ranking[x]

(* persist_analysis_completion, not yet final                                  *)
PersistOffer(w, r, ranking) ==
  /\ MayWrite(w, r)
  /\ RanksFree(r, ranking)
  /\ offer' = [offer EXCEPT ![r] = [ranking |-> ranking, claim |-> analysis[r].claims]]
  /\ UNCHANGED <<analysis, selection, trusted>>

(* Mutant: the owner of the lease is not compared.                             *)
FinalizeUnfenced(w, r) ==
  /\ analysis[r].status = "processing"
  /\ trusted
  /\ analysis' = [analysis EXCEPT ![r] = Freed(@, "awaiting_selection")]
  /\ UNCHANGED <<offer, selection, trusted>>

(* finalize_analysis_run                                                       *)
FinalizeAnalysis(w, r) ==
  /\ MayWrite(w, r)
  /\ analysis' = [analysis EXCEPT ![r] = Freed(@, "awaiting_selection")]
  /\ UNCHANGED <<offer, selection, trusted>>

(* Mutant: whoever gives up ends the run.                                      *)
FailAnalysisUnfenced(w, r) ==
  /\ analysis' = [analysis EXCEPT ![r] = Freed(@, "failed")]
  /\ UNCHANGED <<offer, selection, trusted>>

(* fail_analysis_run                                                           *)
FailAnalysis(w, r) ==
  /\ HasLease(w, r)
  /\ analysis' = [analysis EXCEPT ![r] = Freed(@, "failed")]
  /\ UNCHANGED <<offer, selection, trusted>>

(* select_product_for_optimization. The row of the run is locked first, so of  *)
(* two selections one finds the proposal of the other: it is answered with it  *)
(* if it is the same, and refused otherwise.                                   *)
SelectOffered(r, x) ==
  /\ analysis[r].status = "awaiting_selection"
  /\ selection[r] = NoProduct
  /\ offer[r].ranking # NoRanking
  /\ selection' = [selection EXCEPT ![r] = x]
  /\ analysis' = [analysis EXCEPT ![r].status = "completed"]
  /\ UNCHANGED <<offer, trusted>>

AnalysisInit ==
  /\ analysis = [r \in AnalysisIds |-> [status |-> "absent", claims |-> 0, owner |-> NoAnalyst,
                                        lapsed |-> FALSE]]
  /\ offer = [r \in AnalysisIds |-> [ranking |-> NoRanking, claim |-> 0]]
  /\ selection = [r \in AnalysisIds |-> NoProduct]
  /\ trusted = TRUE

================================================================================
