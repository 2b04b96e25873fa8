--------------------------- MODULE AnalysisWorkerProofs ---------------------------
(* Machine-checked proofs about AnalysisWorker, for any analyses, workers and  *)
(* finite set of ranked products, and any attempt limit.                       *)
EXTENDS AnalysisWorker, FiniteSetTheorems, FunctionTheorems, TLAPS

AnalysisRow == [status : {"absent", "accepted", "processing", "failed", "awaiting_selection",
                          "completed"},
                claims : Nat, owner : Analysts \cup {NoAnalyst}, lapsed : BOOLEAN]

OfferRow == [ranking : Rankings \cup {NoRanking}, claim : Nat]

AnalystRow == [pc : AnalysisNodes \cup Asked \cup {"idle", "down", "failing"},
               job : SUBSET AnalysisIds, drafts : Rankings \cup {NoRanking}]

RowsOK == /\ analysis \in [AnalysisIds -> AnalysisRow]
          /\ offer \in [AnalysisIds -> OfferRow]
          /\ analyst \in [Analysts -> AnalystRow]

(* Whoever is about to persist candidates has a ranking of all products.       *)
PersistsRanking == \A w \in Analysts : analyst[w].pc = "persist_results" => analyst[w].drafts \in Rankings

Written(r) == offer[r].ranking # NoRanking /\ offer[r].claim = analysis[r].claims

(* Whoever is about to finalize a run it still holds has written its rows.     *)
FinalizesOwn ==
  \A w \in Analysts, r \in AnalysisIds : On(w, "finalize", r) /\ HasLease(w, r) => Written(r)

AnalysisInv == RowsOK /\ PersistsRanking /\ FinalizesOwn /\ OfferIsHolders

--------------------------------------------------------------------------------
(* Rankings and rows.                                                          *)

LEMMA RankingIsSomething == \A ranking \in Rankings : ranking # NoRanking
<1>1. DOMAIN NoRanking = {}
  BY DEF NoRanking
<1>2. QED
  BY <1>1, AnalysisAssumption DEF Rankings

(* Finitely many products can be ranked, so the order of the facts is a        *)
(* ranking (build_degraded_drafts).                                            *)
LEMMA DegradedRanks == Degraded \in Rankings
<1>1. ExistsBijection(Ranked, 1..Cardinality(Ranked))
  BY FS_CardinalityType, Fun_ExistsBijSymmetric, AnalysisAssumption
<1>2. PICK f : f \in Bijection(Ranked, 1..Cardinality(Ranked))
  BY <1>1 DEF ExistsBijection
<1>3. f \in Rankings
  BY <1>2 DEF Bijection, Injection, IsInjective, Rankings
<1>4. QED
  BY <1>3 DEF Degraded

LEMMA FreedRow ==
  ASSUME NEW row \in AnalysisRow, NEW status \in {"failed", "awaiting_selection"}
  PROVE  /\ Freed(row, status) \in AnalysisRow
         /\ Freed(row, status).status = status /\ Freed(row, status).claims = row.claims
BY DEF Freed, AnalysisRow

LEMMA ClaimedRow ==
  ASSUME NEW row \in AnalysisRow, NEW w \in Analysts
  PROVE  /\ Claimed(row, w) \in AnalysisRow
         /\ Claimed(row, w).status = "processing" /\ Claimed(row, w).owner = w
<1> DEFINE n == row.claims + 1
<1>1. n \in Nat
  BY DEF AnalysisRow
<1>2. Claimed(row, w) = [row EXCEPT !.status = "processing", !.owner = w, !.lapsed = FALSE,
                                    !.claims = n]
  BY DEF Claimed
<1> HIDE DEF n
<1>3. QED
  BY <1>1, <1>2 DEF AnalysisRow

LEMMA InitAnalysisInv == AnalysisWorkerInit => AnalysisInv
<1> SUFFICES ASSUME AnalysisWorkerInit PROVE AnalysisInv
  OBVIOUS
<1>1. Asleep \in AnalystRow /\ Asleep.pc = "idle"
  BY DEF Asleep, AnalystRow
<1>2. RowsOK
  BY <1>1 DEF AnalysisWorkerInit, AnalysisInit, RowsOK, AnalysisRow, OfferRow
<1>3. PersistsRanking /\ FinalizesOwn /\ OfferIsHolders
  BY <1>1 DEF AnalysisWorkerInit, AnalysisInit, PersistsRanking, FinalizesOwn, OfferIsHolders,
              Offered, On
<1>4. QED
  BY <1>2, <1>3 DEF AnalysisInv

--------------------------------------------------------------------------------
(* Steps that write no candidates and put up no run for selection.             *)

(* Nobody is at finalize with a lease on it, and it is offered as it was.      *)
Settled(r) ==
  /\ \A w \in Analysts : HasLease(w, r)' => analyst'[w].pc # "finalize"
  /\ Offered(r)' => Offered(r) /\ analysis'[r].claims = analysis[r].claims

Elsewhere(w) == /\ analyst'[w].pc # "finalize"
                /\ analyst'[w].pc = "persist_results" => analyst'[w].drafts \in Rankings

LEMMA Undisturbed ==
  ASSUME AnalysisInv, RowsOK', offer' = offer,
         \A w \in Analysts : analyst'[w] = analyst[w] \/ Elsewhere(w),
         \A r \in AnalysisIds : analysis'[r] = analysis[r] \/ Settled(r)
  PROVE  AnalysisInv'
<1>1. PersistsRanking'
  BY DEF AnalysisInv, PersistsRanking, Elsewhere
<1>2. FinalizesOwn'
  <2>1. SUFFICES ASSUME NEW w \in Analysts, NEW r \in AnalysisIds,
                        analyst'[w].pc = "finalize", analyst'[w].job = {r}, HasLease(w, r)'
                 PROVE  Written(r)'
    BY DEF FinalizesOwn, On
  <2>2. analyst'[w] = analyst[w] /\ analysis'[r] = analysis[r]
    BY <2>1 DEF Elsewhere, Settled
  <2>3. On(w, "finalize", r) /\ HasLease(w, r)
    BY <2>1, <2>2 DEF On, HasLease
  <2>4. QED
    BY <2>2, <2>3 DEF AnalysisInv, FinalizesOwn, Written
<1>3. OfferIsHolders'
  BY DEF AnalysisInv, OfferIsHolders, Settled, Offered
<1>4. QED
  BY <1>1, <1>2, <1>3 DEF AnalysisInv

LEMMA WorkerAlone ==
  ASSUME AnalysisInv, Kept, NEW w \in Analysts, NEW s \in AnalystRow,
         analyst' = [analyst EXCEPT ![w] = s], s.pc # "finalize",
         s.pc = "persist_results" => s.drafts \in Rankings
  PROVE  AnalysisInv'
<1>1. RowsOK' /\ offer' = offer /\ analysis' = analysis
  BY DEF AnalysisInv, RowsOK, Kept, analysisVars
<1>2. analyst'[w] = s /\ \A v \in Analysts \ {w} : analyst'[v] = analyst[v]
  BY DEF AnalysisInv, RowsOK
<1>3. QED
  BY <1>1, <1>2, Undisturbed DEF Elsewhere

LEMMA AdvanceKeeps ==
  ASSUME AnalysisInv, Kept, NEW w \in Analysts,
         NEW pc \in AnalysisNodes \cup Asked \cup {"failing"}, Advance(w, pc), pc # "finalize",
         pc = "persist_results" => analyst[w].drafts \in Rankings
  PROVE  AnalysisInv'
<1> DEFINE s == [analyst[w] EXCEPT !.pc = pc]
<1>1. s \in AnalystRow /\ s.pc = pc /\ s.drafts = analyst[w].drafts
  BY DEF AnalysisInv, RowsOK, AnalystRow
<1>2. analyst' = [analyst EXCEPT ![w] = s]
  BY DEF Advance
<1> HIDE DEF s
<1>3. QED
  BY <1>1, <1>2, WorkerAlone

LEMMA AnsweredKeeps ==
  ASSUME AnalysisInv, Kept, NEW w \in Analysts,
         NEW pc \in AnalysisNodes, NEW drafts \in Rankings \cup {NoRanking}, Answered(w, pc, drafts),
         pc # "finalize", pc = "persist_results" => drafts \in Rankings
  PROVE  AnalysisInv'
<1> DEFINE s == [analyst[w] EXCEPT !.pc = pc, !.drafts = drafts]
<1>1. s \in AnalystRow /\ s.pc = pc /\ s.drafts = drafts
  BY DEF AnalysisInv, RowsOK, AnalystRow
<1>2. analyst' = [analyst EXCEPT ![w] = s]
  BY DEF Answered
<1> HIDE DEF s
<1>3. QED
  BY <1>1, <1>2, WorkerAlone

LEMMA StopKeeps ==
  ASSUME AnalysisInv, NEW w \in Analysts, Stop(w)
  PROVE  /\ analyst' \in [Analysts -> AnalystRow]
         /\ \A v \in Analysts : analyst'[v] = analyst[v] \/ Elsewhere(v)
         /\ Kept => AnalysisInv'
<1>1. Asleep \in AnalystRow /\ Asleep.pc = "idle"
  BY DEF Asleep, AnalystRow
<1>2. analyst'[w] = Asleep /\ \A v \in Analysts \ {w} : analyst'[v] = analyst[v]
  BY DEF Stop, AnalysisInv, RowsOK
<1>3. QED
  BY <1>1, <1>2, WorkerAlone DEF Stop, Elsewhere, AnalysisInv, RowsOK

(* A row that its holder frees as failed.                                      *)
LEMMA FailedKeeps ==
  ASSUME AnalysisInv, NEW w \in Analysts, NEW r \in AnalysisIds, Stop(w),
         analysis' = [analysis EXCEPT ![r] = Freed(@, "failed")], offer' = offer
  PROVE  AnalysisInv'
<1>1. Freed(analysis[r], "failed") \in AnalysisRow /\ Freed(analysis[r], "failed").status = "failed"
  BY FreedRow DEF AnalysisInv, RowsOK
<1>2. /\ RowsOK' /\ analysis'[r].status = "failed"
      /\ \A q \in AnalysisIds \ {r} : analysis'[q] = analysis[q]
  BY <1>1, StopKeeps DEF AnalysisInv, RowsOK
<1>3. Settled(r)
  BY <1>2 DEF Settled, HasLease, Offered
<1>4. QED
  BY <1>2, <1>3, StopKeeps, Undisturbed

LEMMA RowAlone ==
  ASSUME AnalysisInv, NEW r \in AnalysisIds, NEW row \in AnalysisRow,
         analysis' = [analysis EXCEPT ![r] = row], UNCHANGED <<offer, analyst>>,
         row.status = "processing" => row.lapsed,
         row.status \in {"awaiting_selection", "completed"} =>
           Offered(r) /\ row.claims = analysis[r].claims
  PROVE  AnalysisInv'
<1>1. /\ RowsOK' /\ analysis'[r] = row
      /\ \A q \in AnalysisIds \ {r} : analysis'[q] = analysis[q]
  BY DEF AnalysisInv, RowsOK
<1>2. Settled(r)
  BY <1>1 DEF Settled, HasLease, Offered
<1>3. QED
  BY <1>1, <1>2, Undisturbed

--------------------------------------------------------------------------------
(* The actions.                                                                *)

(* What giving up abandoned runs leaves.                                       *)
LEMMA GivenUpRows ==
  ASSUME AnalysisInv
  PROVE  /\ GivenUp \in [AnalysisIds -> AnalysisRow]
         /\ \A r \in AnalysisIds : GivenUp[r] = analysis[r] \/ GivenUp[r].status = "failed"
         /\ \A r \in AnalysisIds \ Abandoned : GivenUp[r] = analysis[r]
         /\ \A r \in AnalysisIds : Offered(r) => r \notin Abandoned
<1>1. \A r \in AnalysisIds : /\ Freed(analysis[r], "failed") \in AnalysisRow
                             /\ Freed(analysis[r], "failed").status = "failed"
  BY FreedRow DEF AnalysisInv, RowsOK
<1>2. QED
  BY <1>1 DEF GivenUp, AnalysisInv, RowsOK, Abandoned, AnalysisLapsed, Offered

LEMMA TakeAnalysisKeeps ==
  ASSUME AnalysisInv, NEW w \in Analysts, NEW r \in AnalysisIds, TakeAnalysis(w, r)
  PROVE  AnalysisInv'
<1> DEFINE row == Claimed(GivenUp[r], w)
<1> DEFINE s == [pc |-> "load_run", job |-> {r}, drafts |-> NoRanking]
<1>1. /\ row \in AnalysisRow /\ row.status = "processing" /\ row.owner = w
      /\ analysis' = [GivenUp EXCEPT ![r] = row] /\ offer' = offer
  <2>1. GivenUp[r] \in AnalysisRow
    BY GivenUpRows
  <2>2. row \in AnalysisRow /\ row.status = "processing" /\ row.owner = w
    BY <2>1, ClaimedRow
  <2>3. analysis' = [GivenUp EXCEPT ![r] = row] /\ offer' = offer
    BY DEF TakeAnalysis, ClaimAnalysis
  <2>4. QED
    BY <2>2, <2>3
<1>2. /\ s \in AnalystRow /\ s.pc = "load_run"
      /\ analyst' = [analyst EXCEPT ![w] = s]
  BY DEF TakeAnalysis, AnalystRow, AnalysisNodes
<1> HIDE DEF row, s
<1>3. /\ analysis'[r] = row
      /\ \A q \in AnalysisIds \ {r} : analysis'[q] = analysis[q] \/ analysis'[q].status = "failed"
      /\ analyst'[w] = s /\ \A v \in Analysts \ {w} : analyst'[v] = analyst[v]
      /\ RowsOK'
  BY <1>1, <1>2, GivenUpRows DEF AnalysisInv, RowsOK
<1>4. \A q \in AnalysisIds : analysis'[q] = analysis[q] \/ Settled(q)
  BY <1>1, <1>2, <1>3 DEF Settled, HasLease, Offered
<1>5. \A v \in Analysts : analyst'[v] = analyst[v] \/ Elsewhere(v)
  BY <1>2, <1>3 DEF Elsewhere
<1>6. QED
  BY <1>1, <1>3, <1>4, <1>5, Undisturbed

LEMMA TakeNoAnalysisKeeps ==
  ASSUME AnalysisInv, NEW w \in Analysts, TakeNoAnalysis(w)
  PROVE  AnalysisInv'
<1>1. analysis' = GivenUp /\ offer' = offer /\ analyst' = analyst
  BY DEF TakeNoAnalysis, ClaimNoAnalysis
<1>2. RowsOK' /\ \A q \in AnalysisIds : analysis'[q] = analysis[q] \/ analysis'[q].status = "failed"
  BY <1>1, GivenUpRows DEF AnalysisInv, RowsOK
<1>3. \A q \in AnalysisIds : analysis'[q] = analysis[q] \/ Settled(q)
  BY <1>2 DEF Settled, HasLease, Offered
<1>4. QED
  BY <1>1, <1>2, <1>3, Undisturbed

LEMMA PersistKeeps ==
  ASSUME AnalysisInv, NEW w \in Analysts, NEW r \in AnalysisIds, PersistResults(w, r)
  PROVE  AnalysisInv'
<1> DEFINE o == [ranking |-> analyst[w].drafts, claim |-> analysis[r].claims]
<1> DEFINE s == [analyst[w] EXCEPT !.pc = "finalize"]
<1>1. analyst[w].drafts \in Rankings /\ analyst[w].drafts # NoRanking
  BY RankingIsSomething DEF PersistResults, On, AnalysisInv, PersistsRanking
<1>2. /\ o \in OfferRow /\ o.ranking # NoRanking /\ o.claim = analysis[r].claims
      /\ s \in AnalystRow /\ s.pc = "finalize" /\ s.job = {r}
  BY <1>1 DEF PersistResults, On, AnalysisInv, RowsOK, OfferRow, AnalysisRow, AnalystRow, AnalysisNodes
<1>3. /\ HasLease(w, r) /\ analysis' = analysis
      /\ offer' = [offer EXCEPT ![r] = o] /\ analyst' = [analyst EXCEPT ![w] = s]
  BY DEF PersistResults, PersistOffer, MayWrite, Advance
<1> HIDE DEF o, s
<1>4. /\ RowsOK' /\ offer'[r] = o /\ \A q \in AnalysisIds \ {r} : offer'[q] = offer[q]
      /\ analyst'[w] = s /\ \A v \in Analysts \ {w} : analyst'[v] = analyst[v]
  BY <1>2, <1>3 DEF AnalysisInv, RowsOK
<1>5. PersistsRanking'
  BY <1>2, <1>4 DEF AnalysisInv, PersistsRanking
<1>6. FinalizesOwn'
  <2>1. Written(r)'
    BY <1>2, <1>3, <1>4 DEF Written
  <2>2. ASSUME NEW v \in Analysts, NEW q \in AnalysisIds, q # r, On(v, "finalize", q)', HasLease(v, q)'
        PROVE  Written(q)'
    <3>1. v # w
      BY <1>2, <1>4, <2>2 DEF On
    <3>2. On(v, "finalize", q) /\ HasLease(v, q)
      BY <1>3, <1>4, <2>2, <3>1 DEF On, HasLease
    <3>3. QED
      BY <1>3, <1>4, <2>2, <3>2 DEF AnalysisInv, FinalizesOwn, Written
  <2>3. QED
    BY <2>1, <2>2 DEF FinalizesOwn
<1>7. OfferIsHolders'
  <2>1. ~Offered(r)
    BY <1>3 DEF HasLease, Offered
  <2>2. QED
    BY <1>3, <1>4, <2>1 DEF AnalysisInv, OfferIsHolders, Offered
<1>8. QED
  BY <1>4, <1>5, <1>6, <1>7 DEF AnalysisInv

LEMMA FinalizeKeeps ==
  ASSUME AnalysisInv, NEW w \in Analysts, NEW r \in AnalysisIds, FinalizeRun(w, r)
  PROVE  AnalysisInv'
<1>1. /\ HasLease(w, r) /\ Written(r) /\ offer' = offer /\ Stop(w)
      /\ analysis' = [analysis EXCEPT ![r] = Freed(@, "awaiting_selection")]
  BY DEF FinalizeRun, FinalizeAnalysis, MayWrite, AnalysisInv, FinalizesOwn
<1>2. LET row == Freed(analysis[r], "awaiting_selection")
      IN row \in AnalysisRow /\ row.status = "awaiting_selection" /\ row.claims = analysis[r].claims
  BY FreedRow DEF AnalysisInv, RowsOK
<1>3. /\ RowsOK' /\ analysis'[r].status = "awaiting_selection"
      /\ analysis'[r].claims = analysis[r].claims
      /\ \A q \in AnalysisIds \ {r} : analysis'[q] = analysis[q]
  BY <1>1, <1>2, StopKeeps DEF AnalysisInv, RowsOK
<1>4. \A v \in Analysts : analyst'[v] = analyst[v] \/ Elsewhere(v)
  BY <1>1, StopKeeps
<1>5. PersistsRanking'
  BY <1>4 DEF AnalysisInv, PersistsRanking, Elsewhere
<1>6. FinalizesOwn'
  <2>1. SUFFICES ASSUME NEW v \in Analysts, NEW q \in AnalysisIds,
                        On(v, "finalize", q)', HasLease(v, q)'
                 PROVE  Written(q)'
    BY DEF FinalizesOwn
  <2>2. q # r /\ analyst'[v] = analyst[v]
    BY <1>3, <1>4, <2>1 DEF HasLease, On, Elsewhere
  <2>3. On(v, "finalize", q) /\ HasLease(v, q)
    BY <1>3, <2>1, <2>2 DEF On, HasLease
  <2>4. QED
    BY <1>1, <1>3, <2>2, <2>3 DEF AnalysisInv, FinalizesOwn, Written
<1>7. OfferIsHolders'
  BY <1>1, <1>3 DEF AnalysisInv, OfferIsHolders, Offered, Written
<1>8. QED
  BY <1>3, <1>5, <1>6, <1>7 DEF AnalysisInv

LEMMA StepKeeps ==
  ASSUME AnalysisInv, NEW w \in Analysts, NEW r \in AnalysisIds, AnalysisStep(w, r)
  PROVE  AnalysisInv'
<1> USE DEF AnalysisNodes, Asked
<1>1. ASSUME LoadRun(w, r) \/ CollectFacts(w, r) \/ CallAgent(w, r) PROVE AnalysisInv'
  BY <1>1, AdvanceKeeps DEF LoadRun, CollectFacts, CallAgent
<1>2. ASSUME AgentRanks(w, r) PROVE AnalysisInv'
  BY <1>2, AnsweredKeeps DEF AgentRanks
<1>3. ASSUME Reconcile(w, r, Degraded) PROVE AnalysisInv'
  <2>1. analyst[w].drafts \in Rankings \cup {NoRanking}
    BY DEF AnalysisInv, RowsOK, AnalystRow
  <2>2. QED
    BY <1>3, <2>1, DegradedRanks, AdvanceKeeps, AnsweredKeeps DEF Reconcile
<1>4. ASSUME AgentRepairs(w, r, Degraded) PROVE AnalysisInv'
  BY <1>4, DegradedRanks, AnsweredKeeps DEF AgentRepairs
<1>5. ASSUME LoseAnalysis(w, r) PROVE AnalysisInv'
  BY <1>5, StopKeeps DEF LoseAnalysis
<1>6. ASSUME LoseTrust(w, r) PROVE AnalysisInv'
  BY <1>6, FailedKeeps DEF LoseTrust, FailDistrusted
<1>7. ASSUME FailCurrentAnalysis(w, r) PROVE AnalysisInv'
  BY <1>7, FailedKeeps, StopKeeps DEF FailCurrentAnalysis, FailAnalysis
<1>8. QED
  BY <1>1, <1>2, <1>3, <1>4, <1>5, <1>6, <1>7, TakeAnalysisKeeps, PersistKeeps, FinalizeKeeps
     DEF AnalysisStep

LEMMA NextAnalysisInv == AnalysisInv /\ [AnalysisNext]_analysisWorkerVars => AnalysisInv'
<1> SUFFICES ASSUME AnalysisInv, [AnalysisNext]_analysisWorkerVars PROVE AnalysisInv'
  OBVIOUS
<1>1. ASSUME NEW r \in AnalysisIds, CreateAnalysis(r), UNCHANGED analyst PROVE AnalysisInv'
  <2> DEFINE row == [analysis[r] EXCEPT !.status = "accepted"]
  <2>1. row \in AnalysisRow /\ row.status = "accepted"
    BY DEF AnalysisInv, RowsOK, AnalysisRow
  <2>2. analysis' = [analysis EXCEPT ![r] = row] /\ UNCHANGED <<offer, analyst>>
    BY <1>1 DEF CreateAnalysis
  <2> HIDE DEF row
  <2>3. QED
    BY <2>1, <2>2, RowAlone
<1>2. ASSUME NEW r \in AnalysisIds, AnalysisLapses(r), UNCHANGED analyst PROVE AnalysisInv'
  <2> DEFINE row == [analysis[r] EXCEPT !.lapsed = TRUE]
  <2>1. row \in AnalysisRow /\ row.status = "processing" /\ row.lapsed
    BY <1>2 DEF AnalysisInv, RowsOK, AnalysisRow, AnalysisLapses
  <2>2. analysis' = [analysis EXCEPT ![r] = row] /\ UNCHANGED <<offer, analyst>>
    BY <1>2 DEF AnalysisLapses
  <2> HIDE DEF row
  <2>3. QED
    BY <2>1, <2>2, RowAlone
<1>3. ASSUME NEW r \in AnalysisIds, NEW x \in Ranked, SelectOffered(r, x), UNCHANGED analyst
      PROVE  AnalysisInv'
  <2> DEFINE row == [analysis[r] EXCEPT !.status = "completed"]
  <2>1. row \in AnalysisRow /\ row.status = "completed" /\ row.claims = analysis[r].claims
    BY DEF AnalysisInv, RowsOK, AnalysisRow
  <2>2. analysis' = [analysis EXCEPT ![r] = row] /\ UNCHANGED <<offer, analyst>>
    BY <1>3 DEF SelectOffered
  <2>3. Offered(r)
    BY <1>3 DEF SelectOffered, Offered
  <2> HIDE DEF row
  <2>4. QED
    BY <2>1, <2>2, <2>3, RowAlone
<1>4. ASSUME UNCHANGED <<analysis, offer, analyst>> PROVE AnalysisInv'
  <2>1. RowsOK'
    BY <1>4 DEF AnalysisInv, RowsOK
  <2>2. QED
    BY <1>4, <2>1, Undisturbed
<1>5. ASSUME NEW w \in Analysts, AnalysisBreaks(w) PROVE AnalysisInv'
  BY <1>5, AdvanceKeeps DEF AnalysisBreaks
<1>6. ASSUME NEW w \in Analysts, AnalystCrashes(w) PROVE AnalysisInv'
  <2> DEFINE s == [Asleep EXCEPT !.pc = "down"]
  <2>1. s \in AnalystRow /\ s.pc = "down"
    BY DEF Asleep, AnalystRow
  <2>2. analyst' = [analyst EXCEPT ![w] = s] /\ Kept
    BY <1>6 DEF AnalystCrashes
  <2> HIDE DEF s
  <2>3. QED
    BY <2>1, <2>2, WorkerAlone
<1>7. ASSUME NEW w \in Analysts, AnalystRestarts(w) PROVE AnalysisInv'
  BY <1>7, StopKeeps DEF AnalystRestarts
<1>8. QED
  BY <1>1, <1>2, <1>3, <1>4, <1>5, <1>6, <1>7, StepKeeps, TakeNoAnalysisKeeps
     DEF AnalysisNext, Distrust, analysisWorkerVars, analysisVars

(* Rows and processes keep their types; whoever is about to persist a ranking  *)
(* has one, and whoever is about to finalize a run it still holds has written  *)
(* the rows of its own attempt (the graph of analysis_worker.py).              *)
THEOREM AnalysisInvariance == AnalysisSpec => []AnalysisInv
BY InitAnalysisInv, NextAnalysisInv, PTL DEF AnalysisSpec

(* What is put up for selection was written by the attempt that puts it up,    *)
(* through takeovers, crashes and repairs (analysis_worker.py over             *)
(* analysis_runs.py).                                                          *)
THEOREM OfferIsHoldersHolds == AnalysisSpec => []OfferIsHolders
<1>1. AnalysisInv => OfferIsHolders
  BY DEF AnalysisInv
<1>2. QED
  BY <1>1, AnalysisInvariance, PTL

--------------------------------------------------------------------------------
(* An offer stands.                                                            *)

Stands(r) == Offered(r) => /\ offer'[r] = offer[r]
                           /\ analysis'[r].status \in {analysis[r].status, "completed"}
                           /\ selection[r] # NoProduct => selection'[r] = selection[r]

(* Whoever writes under its lease touches no run that is offered.              *)
LEMMA LeasedStands ==
  ASSUME RowsOK, NEW w \in Analysts, NEW r \in AnalysisIds, HasLease(w, r), selection' = selection,
         \A q \in AnalysisIds \ {r} : analysis'[q] = analysis[q] /\ offer'[q] = offer[q]
  PROVE  \A q \in AnalysisIds : Stands(q)
BY DEF HasLease, Stands, Offered

LEMMA NextStands ==
  AnalysisInv /\ [AnalysisNext]_analysisWorkerVars => \A r \in AnalysisIds : Stands(r)
<1> SUFFICES ASSUME AnalysisInv, [AnalysisNext]_analysisWorkerVars
             PROVE  \A r \in AnalysisIds : Stands(r)
  OBVIOUS
<1> RowsOK
  BY DEF AnalysisInv
<1>1. ASSUME Kept PROVE \A r \in AnalysisIds : Stands(r)
  BY <1>1 DEF Kept, analysisVars, Stands
<1>2. ASSUME NEW r \in AnalysisIds, CreateAnalysis(r) \/ AnalysisLapses(r)
      PROVE  \A q \in AnalysisIds : Stands(q)
  BY <1>2 DEF CreateAnalysis, AnalysisLapses, Stands, Offered, RowsOK
<1>3. ASSUME NEW r \in AnalysisIds, NEW x \in Ranked, SelectOffered(r, x)
      PROVE  \A q \in AnalysisIds : Stands(q)
  BY <1>3 DEF SelectOffered, Stands, RowsOK, AnalysisRow
<1>4. ASSUME NEW w \in Analysts, NEW r \in AnalysisIds, TakeAnalysis(w, r)
      PROVE  \A q \in AnalysisIds : Stands(q)
  <2>1. ~Offered(r)
    BY <1>4 DEF TakeAnalysis, ClaimAnalysis, AnalysisLapsed, Offered
  <2>2. /\ \A q \in AnalysisIds \ {r} : analysis'[q] = GivenUp[q]
        /\ UNCHANGED <<offer, selection>>
    BY <1>4, GivenUpRows DEF TakeAnalysis, ClaimAnalysis
  <2>3. QED
    BY <2>1, <2>2, GivenUpRows DEF Stands
<1>5. ASSUME NEW w \in Analysts, TakeNoAnalysis(w) PROVE \A q \in AnalysisIds : Stands(q)
  BY <1>5, GivenUpRows DEF TakeNoAnalysis, ClaimNoAnalysis, Stands
<1>6. ASSUME NEW w \in Analysts, NEW r \in AnalysisIds,
             \/ PersistOffer(w, r, analyst[w].drafts) \/ FinalizeAnalysis(w, r)
             \/ FailDistrusted(w, r) \/ FailAnalysis(w, r)
      PROVE  \A q \in AnalysisIds : Stands(q)
  <2>1. HasLease(w, r) /\ selection' = selection
    BY <1>6 DEF PersistOffer, FinalizeAnalysis, FailDistrusted, FailAnalysis, MayWrite
  <2>2. \A q \in AnalysisIds \ {r} : analysis'[q] = analysis[q] /\ offer'[q] = offer[q]
    BY <1>6 DEF PersistOffer, FinalizeAnalysis, FailDistrusted, FailAnalysis, RowsOK
  <2>3. QED
    BY <2>1, <2>2, LeasedStands
<1>7. ASSUME NEW w \in Analysts, NEW r \in AnalysisIds, AnalysisStep(w, r)
      PROVE  \A q \in AnalysisIds : Stands(q)
  BY <1>1, <1>4, <1>6, <1>7
     DEF AnalysisStep, LoadRun, CollectFacts, CallAgent, AgentRanks, Reconcile, AgentRepairs,
         PersistResults, FinalizeRun, LoseAnalysis, LoseTrust, FailCurrentAnalysis
<1>8. QED
  BY <1>1, <1>2, <1>3, <1>5, <1>7
     DEF AnalysisNext, Distrust, AnalysisBreaks, AnalystCrashes, AnalystRestarts, analysisWorkerVars,
         Kept, analysisVars, Stands

(* An offer is never changed or taken back, nor is a selection, whoever lost   *)
(* the lease, gives up or selects again (analysis_runs.py and proposals.py).   *)
THEOREM OfferStandsHolds == AnalysisSpec => OfferStands
BY AnalysisInvariance, NextStands, PTL DEF AnalysisSpec, OfferStands, Stands

================================================================================
