------------------------- MODULE ManualReviewWorkerProofs ------------------------
(* Machine-checked proofs about ManualReviewWorker, for any number of workers, *)
(* proposals and users: the program of a worker takes only steps that the      *)
(* database transactions allow, so that all that is proved of ProposalLifecycle *)
(* holds while workers run, crash, restart and lose their leases.              *)
EXTENDS ManualReviewWorker, ProposalLifecycleProofs

LEMMA JobIsSomething == ASSUME NEW p, NEW n PROVE <<p, n>> # NoJob
BY DEF NoJob

LEMMA IdleType ==
  /\ Idle \in Worker /\ Idle.job = NoJob /\ Idle.pc = "idle"
  /\ Down \in Worker /\ Down.job = NoJob /\ Down.pc = "down"
BY DEF Idle, Down, Worker, PCs, Nodes, Verdicts

(* A worker that goes to persist a review knows what it says.                  *)
PersistKnows == \A w \in Workers : worker[w].pc = "persist_manual_review" => worker[w].result \in Verdicts

WorkersOK ==
  /\ worker \in [Workers -> Worker]
  /\ \A w \in Workers : worker[w].job = NoJob <=> ~Working(w)
  /\ PersistKnows

LEMMA InitWorkersOK == WorkerInit => WorkersOK
BY IdleType DEF WorkerInit, WorkersOK, Working, InGraph, PersistKnows, Nodes

(* One worker changes to a state that keeps the invariant.                     *)
LEMMA OneWorker ==
  ASSUME WorkersOK, NEW w \in Workers, NEW s \in Worker,
         worker' = [worker EXCEPT ![w] = s],
         s.job = NoJob <=> s.pc \notin Nodes \cup {"asking", "failing"},
         s.pc = "persist_manual_review" => s.result \in Verdicts
  PROVE  WorkersOK'
<1>1. worker'[w] = s /\ \A v \in Workers \ {w} : worker'[v] = worker[v]
  BY DEF WorkersOK
<1>2. \A v \in Workers : worker'[v].job = NoJob <=> ~Working(v)'
  BY <1>1 DEF WorkersOK, Working, InGraph
<1>3. QED
  BY <1>1, <1>2 DEF WorkersOK, PersistKnows

LEMMA GoKeeps ==
  ASSUME WorkersOK, NEW w \in Workers, Working(w),
         NEW node \in Nodes \cup {"asking", "failing"}, Go(w, node),
         node = "persist_manual_review" => worker[w].result \in Verdicts
  PROVE  WorkersOK'
<1> DEFINE s == [worker[w] EXCEPT !.pc = node]
<1>1. s \in Worker /\ s.pc = node /\ s.job = worker[w].job /\ s.result = worker[w].result
  BY DEF WorkersOK, Worker, PCs
<1>2. worker' = [worker EXCEPT ![w] = s] /\ s.job # NoJob
  BY <1>1 DEF Go, WorkersOK
<1> HIDE DEF s
<1>3. QED
  BY <1>1, <1>2, OneWorker

LEMMA GoWithKeeps ==
  ASSUME WorkersOK, NEW w \in Workers, Working(w),
         NEW node \in Nodes \cup {"asking", "failing"}, NEW result \in Verdicts,
         GoWith(w, node, result)
  PROVE  WorkersOK'
<1> DEFINE s == [worker[w] EXCEPT !.pc = node, !.result = result]
<1>1. s \in Worker /\ s.pc = node /\ s.job = worker[w].job /\ s.result = result
  BY DEF WorkersOK, Worker, PCs
<1>2. worker' = [worker EXCEPT ![w] = s] /\ s.job # NoJob
  BY <1>1 DEF GoWith, WorkersOK
<1> HIDE DEF s
<1>3. QED
  BY <1>1, <1>2, OneWorker

LEMMA LeaveKeeps == ASSUME WorkersOK, NEW w \in Workers, Leave(w) PROVE WorkersOK'
BY IdleType, OneWorker DEF Leave, Nodes

LEMMA NodeKeeps ==
  ASSUME WorkersOK, NEW w \in Workers, NEW p \in Proposals, NEW n \in Numbers, Node(w, p, n)
  PROVE  WorkersOK'
<1>1. worker[w].pc \in Nodes \cup {"asking"} /\ Working(w)
  BY DEF Node, LoadOrResume, LoadTrustedInput, RunDeterministicChecks, CallComplianceAgent,
         AgentAnswers, PersistManualReview, FinalizeManualReview, At, Nodes, Working, InGraph
<1> USE <1>1 DEF Nodes
<1>2. CASE LoadOrResume(w, p, n)
  BY <1>2, GoKeeps DEF LoadOrResume
<1>3. CASE LoadTrustedInput(w, p, n)
  BY <1>3, GoKeeps, GoWithKeeps DEF LoadTrustedInput, Verdicts
<1>4. CASE RunDeterministicChecks(w, p, n)
  BY <1>4, GoKeeps DEF RunDeterministicChecks, Verdicts
<1>5. CASE CallComplianceAgent(w, p, n)
  BY <1>5, GoKeeps, GoWithKeeps DEF CallComplianceAgent, Verdicts
<1>6. CASE AgentAnswers(w, p, n)
  BY <1>6, GoWithKeeps DEF AgentAnswers
<1>7. CASE PersistManualReview(w, p, n)
  BY <1>7, GoKeeps DEF PersistManualReview
<1>8. CASE FinalizeManualReview(w, p, n)
  BY <1>8, LeaveKeeps DEF FinalizeManualReview
<1>9. QED
  BY <1>2, <1>3, <1>4, <1>5, <1>6, <1>7, <1>8 DEF Node

LEMMA NextWorkersOK == WorkersOK /\ [WorkerNext]_workerVars => WorkersOK'
<1> SUFFICES ASSUME WorkersOK, [WorkerNext]_workerVars PROVE WorkersOK'
  OBVIOUS
<1>1. ASSUME worker' = worker PROVE WorkersOK'
  BY <1>1 DEF WorkersOK, Working, InGraph, PersistKnows
<1>2. ASSUME NEW w \in Workers, NEW p \in Proposals, NEW n \in Numbers, Take(w, p, n)
      PROVE  WorkersOK'
  <2> DEFINE s == [pc |-> "load_or_resume", job |-> <<p, n>>, result |-> "none"]
  <2>1. s \in Worker /\ s.pc = "load_or_resume" /\ s.job # NoJob
    BY JobIsSomething DEF Worker, PCs, Nodes
  <2>2. worker' = [worker EXCEPT ![w] = s]
    BY <1>2 DEF Take
  <2> HIDE DEF s
  <2>3. QED
    BY <2>1, <2>2, OneWorker DEF Nodes
<1>3. ASSUME NEW w \in Workers, NEW p \in Proposals, NEW n \in Numbers,
             LeaseLost(w, p, n) \/ Abandon(w, p, n)
      PROVE  WorkersOK'
  BY <1>3, LeaveKeeps DEF LeaseLost, Abandon
<1>4. ASSUME NEW w \in Workers, GraphBreaks(w) PROVE WorkersOK'
  BY <1>4, GoKeeps DEF GraphBreaks, Working
<1>5. ASSUME NEW w \in Workers, Crash(w) \/ Restart(w) PROVE WorkersOK'
  BY <1>5, IdleType, OneWorker, LeaveKeeps DEF Crash, Restart, Nodes
<1>6. QED
  BY <1>1, <1>2, <1>3, <1>4, <1>5, NodeKeeps
     DEF WorkerNext, workerVars, RunOnce, TakeNothing, Progress

--------------------------------------------------------------------------------
(* The program implements the transactions.                                    *)

LEMMA WorkerRefinementStep == WorkersOK /\ [WorkerNext]_workerVars => [Next]_vars
<1> SUFFICES ASSUME WorkersOK, [WorkerNext]_workerVars PROVE [Next]_vars
  OBVIOUS
<1>1. ASSUME NEW w \in Workers, RunOnce(w) PROVE AfterOptimization
  BY <1>1 DEF RunOnce, TakeNothing, Take, AfterOptimization
<1>2. ASSUME NEW w \in Workers, NEW p \in Proposals, NEW n \in Numbers, Node(w, p, n)
      PROVE  AfterOptimization \/ UNCHANGED vars
  <2>1. Transact(w, p, n) \/ UNCHANGED vars
    BY <1>2 DEF Node, LoadOrResume, LoadTrustedInput, RunDeterministicChecks, CallComplianceAgent,
                AgentAnswers, PersistManualReview, FinalizeManualReview, Transact, At, WorkersOK,
                PersistKnows
  <2>2. QED
    BY <2>1 DEF AfterOptimization
<1>3. ASSUME NEW w \in Workers, NEW p \in Proposals, NEW n \in Numbers,
             LeaseLost(w, p, n) \/ Abandon(w, p, n)
      PROVE  AfterOptimization \/ UNCHANGED vars
  BY <1>3 DEF LeaseLost, Abandon, Transact, AfterOptimization
<1>4. ASSUME NEW w \in Workers, GraphBreaks(w) \/ Crash(w) \/ Restart(w) PROVE UNCHANGED vars
  BY <1>4 DEF GraphBreaks, Crash, Restart
<1>5. Environment => Next
  BY DEF Environment, Next, AfterOptimization
<1>6. QED
  BY <1>1, <1>2, <1>3, <1>4, <1>5 DEF WorkerNext, Progress, Next, workerVars

(* Whatever the workers do, and wherever they stop, the rows go through steps  *)
(* of the transactions only (manual_review_worker.py over                      *)
(* manual_review_runs.py).                                                     *)
THEOREM WorkersImplementLifecycle == WorkerSpec => ImplementsLifecycle
<1>1. WorkerInit => Init
  BY DEF WorkerInit
<1>2. QED
  BY <1>1, InitWorkersOK, NextWorkersOK, WorkerRefinementStep, PTL
     DEF WorkerSpec, ImplementsLifecycle, Spec

(* Rows and processes keep their types, and a process holds a job exactly      *)
(* while it works on one (manual_review_worker.run_once).                      *)
THEOREM WorkerTypeCorrect == WorkerSpec => []WorkerTypeOK
<1>1. WorkersOK /\ TypeOK => WorkerTypeOK
  BY DEF WorkersOK, WorkerTypeOK
<1>2. WorkerSpec => []WorkersOK
  BY InitWorkersOK, NextWorkersOK, PTL DEF WorkerSpec
<1>3. WorkerSpec => []TypeOK
  BY WorkersImplementLifecycle, TypeCorrect, PTL DEF ImplementsLifecycle
<1>4. QED
  BY <1>1, <1>2, <1>3, PTL

--------------------------------------------------------------------------------
(* Who writes.                                                                 *)

WrittenBy(p, n) ==
  /\ Finished(runs'[p][n]) /\ ~Finished(runs[p][n]) =>
       \/ <<p, n>> \in Exhausted
       \/ \E w \in Workers : Owned(w, p, n) /\ worker[w].job = <<p, n>>
  /\ review'[p][n] # review[p][n] /\ runs[p][n].status # "absent" =>
       \E w \in Workers : Owned(w, p, n) /\ worker[w].job = <<p, n>>

(* A step that ends no review and writes no verdict over a review run.         *)
NothingWritten == \A p \in Proposals, n \in Numbers :
                    /\ Finished(runs'[p][n]) => Finished(runs[p][n])
                    /\ review'[p][n] = review[p][n] \/ runs[p][n].status = "absent"

LEMMA NobodyWrites == NothingWritten => \A p \in Proposals, n \in Numbers : WrittenBy(p, n)
BY DEF NothingWritten, WrittenBy

LEMMA OptimizeWrites == IInv /\ Optimize => NothingWritten
<1> SUFFICES ASSUME IInv, Optimize PROVE NothingWritten
  OBVIOUS
<1> USE DEF reviewVars
<1>1. runs' = runs
  BY DEF Optimize, Select, DraftReady, Deferred, OptimizationEnds, OptimizationsFail
<1>2. ASSUME NEW p \in Proposals, status[p] = "optimizing", NEW verdict, AgentRevision(p, verdict)
      PROVE  NothingWritten
  <2>1. \A q \in Proposals \ {p} : review'[q] = review[q]
    BY <1>2 DEF AgentRevision, IInv, TypeOK
  <2>2. \A n \in Numbers : runs[p][n].status = "absent"
    BY <1>2 DEF IInv, ProposalInv, NothingYet, CurrentIsLatest
  <2>3. QED
    BY <1>1, <2>1, <2>2 DEF NothingWritten
<1>3. ASSUME review' = review PROVE NothingWritten
  BY <1>1, <1>3 DEF NothingWritten
<1>4. QED
  BY <1>2, <1>3 DEF Optimize, Select, DraftReady, Deferred, OptimizationEnds, OptimizationsFail

LEMMA EnvironmentWrites == IInv /\ Environment => NothingWritten
<1> SUFFICES ASSUME IInv, Environment PROVE NothingWritten
  OBVIOUS
<1> TypeOK
  BY DEF IInv
<1> USE DEF reviewVars
<1>1. ASSUME NEW u \in Users, NEW p \in Proposals, NEW n \in Numbers, CreateManualRevision(u, p, n)
      PROVE  NothingWritten
  <2>1. n + 1 \in Numbers /\ n + 1 \notin Written(p) /\ Accepted(u).status = "accepted"
    BY <1>1, LifecycleAssumption DEF CreateManualRevision, Editable, Numbers, Accepted
  <2>2. runs[p][n + 1].status = "absent"
    BY <2>1 DEF IInv, ProposalInv, CurrentIsLatest
  <2>3. /\ \A q \in Proposals, m \in Numbers :
             <<q, m>> # <<p, n + 1>> => runs'[q][m] = runs[q][m] /\ review'[q][m] = review[q][m]
        /\ runs'[p][n + 1].status = "accepted"
    BY <1>1, <2>1 DEF CreateManualRevision, TypeOK
  <2>4. QED
    BY <2>2, <2>3 DEF NothingWritten, Finished
<1>2. ASSUME runs' = runs, review' = review PROVE NothingWritten
  BY <1>2 DEF NothingWritten
<1>3. ASSUME NEW p \in Proposals, NEW n \in Numbers, LeaseLapses(p, n) PROVE NothingWritten
  <2>1. [runs[p][n] EXCEPT !.lapsed = TRUE].status = runs[p][n].status
    BY LapsedType DEF TypeOK
  <2>2. QED
    BY <1>3, <2>1 DEF LeaseLapses, NothingWritten, Finished, TypeOK
<1>4. QED
  BY <1>1, <1>2, <1>3, OptimizeWrites
     DEF Environment, Operate, Decide, Submit, Reject, RequestChanges, Approve, Revoke, Restore

(* The sweep of a claim ends only runs that used up their attempts.            *)
LEMMA SweepWrites ==
  ASSUME TypeOK, NEW swept \in SUBSET Exhausted, Sweep(swept),
         \A p \in Proposals, n \in Numbers :
            <<p, n>> \notin swept /\ Finished(runs'[p][n]) => Finished(runs[p][n])
  PROVE  \A p \in Proposals, n \in Numbers : WrittenBy(p, n)
BY DEF Sweep, WrittenBy

LEMMA RunOnceWrites ==
  ASSUME TypeOK, NEW w \in Workers, RunOnce(w)
  PROVE  \A p \in Proposals, n \in Numbers : WrittenBy(p, n)
<1>1. CASE TakeNothing(w)
  <2>1. PICK swept \in SUBSET Exhausted : Sweep(swept) /\ runs' = SweptRuns(swept)
    BY <1>1 DEF TakeNothing, ClaimNothing
  <2>2. \A p \in Proposals, n \in Numbers : <<p, n>> \notin swept => runs'[p][n] = runs[p][n]
    BY <2>1 DEF SweptRuns
  <2>3. QED
    BY <2>1, <2>2, SweepWrites
<1>2. ASSUME NEW p \in Proposals, NEW n \in Numbers, Take(w, p, n)
      PROVE  \A q \in Proposals, m \in Numbers : WrittenBy(q, m)
  <2>1. PICK swept \in SUBSET Exhausted :
          Sweep(swept) /\ runs' = [SweptRuns(swept) EXCEPT ![p][n] = Leased(runs[p][n], w)]
    BY <1>2 DEF Take, Claim
  <2>2. Leased(runs[p][n], w).status = "processing"
    BY <1>2, LeasedType DEF Take, Claim, TypeOK
  <2>3. \A q \in Proposals, m \in Numbers :
           <<q, m>> \notin swept => runs'[q][m] = runs[q][m] \/ runs'[q][m].status = "processing"
    BY <2>1, <2>2 DEF SweptRuns
  <2>4. QED
    BY <2>1, <2>3, SweepWrites DEF Finished
<1>3. QED
  BY <1>1, <1>2 DEF RunOnce

LEMMA ProgressWrites ==
  ASSUME TypeOK, NEW w \in Workers, Progress(w)
  PROVE  \A p \in Proposals, n \in Numbers : WrittenBy(p, n)
<1>1. PICK p \in Proposals, n \in Numbers : Node(w, p, n) \/ LeaseLost(w, p, n) \/ Abandon(w, p, n)
  BY DEF Progress
<1>2. CASE UNCHANGED vars
  BY <1>2 DEF vars, reviewVars, WrittenBy
<1>3. CASE \/ \E verdict : PersistReview(w, p, n, verdict)
           \/ FinalizeReview(w, p, n) \/ FailContext(w, p, n)
  <2>1. Owned(w, p, n)
    BY <1>3 DEF PersistReview, FinalizeReview, FailContext
  <2>2. \A q \in Proposals, m \in Numbers :
           <<q, m>> # <<p, n>> => runs'[q][m] = runs[q][m] /\ review'[q][m] = review[q][m]
    BY <1>3 DEF PersistReview, FinalizeReview, FailContext, EndRun, TypeOK
  <2>3. worker[w].job = <<p, n>> => \A q \in Proposals, m \in Numbers : WrittenBy(q, m)
    BY <2>1, <2>2 DEF WrittenBy
  <2>4. worker[w].job = <<p, n>> \/ UNCHANGED vars
    BY <1>1 DEF Node, LoadOrResume, LoadTrustedInput, RunDeterministicChecks, CallComplianceAgent,
                AgentAnswers, PersistManualReview, FinalizeManualReview, LeaseLost, Abandon, At
  <2>5. QED
    BY <1>2, <2>3, <2>4
<1>4. QED
  BY <1>1, <1>2, <1>3
     DEF Node, LoadOrResume, LoadTrustedInput, RunDeterministicChecks, CallComplianceAgent,
         AgentAnswers, PersistManualReview, FinalizeManualReview, LeaseLost, Abandon

(* A review is ended and a verdict written only by the worker that holds the   *)
(* live lease, but for the runs a sweep finds exhausted (owned_workflow_lease  *)
(* in every transaction of manual_review_runs.py).                             *)
THEOREM WrittenByHolderHolds == WorkerSpec => WrittenByHolder
<1>1. IInv /\ [WorkerNext]_workerVars =>
        [\A p \in Proposals, n \in Numbers : WrittenBy(p, n)]_workerVars
  <2> SUFFICES ASSUME IInv, WorkerNext PROVE \A p \in Proposals, n \in Numbers : WrittenBy(p, n)
    OBVIOUS
  <2>1. TypeOK
    BY DEF IInv
  <2>2. ASSUME NEW w \in Workers, GraphBreaks(w) \/ Crash(w) \/ Restart(w)
        PROVE  \A p \in Proposals, n \in Numbers : WrittenBy(p, n)
    BY <2>2 DEF GraphBreaks, Crash, Restart, vars, reviewVars, WrittenBy
  <2>3. QED
    BY <2>1, <2>2, RunOnceWrites, ProgressWrites, EnvironmentWrites, NobodyWrites DEF WorkerNext
<1>2. WorkerSpec => []IInv
  BY WorkersImplementLifecycle, Invariance, PTL DEF ImplementsLifecycle
<1>3. QED
  BY <1>1, <1>2, PTL DEF WorkerSpec, WrittenByHolder, WrittenBy

(* Seen from the stages of its proposals, everything the workers do is         *)
(* invisible but what their transactions commit (manual_review_worker.py over  *)
(* manual_review_runs.py and approvals.py).                                    *)
THEOREM WorkersImplementStages == WorkerSpec => ImplementsStages
BY WorkersImplementLifecycle, Refinement, PTL DEF ImplementsLifecycle

================================================================================
