--------------------------- MODULE ManualReviewWorker --------------------------
(* The program of a manual review worker: manual_review_worker.run_once and    *)
(* the graph it builds, over the transactions of ProposalLifecycle. Between    *)
(* two nodes, and during the knowledge search and the model call inside them,  *)
(* leases lapse, other workers take over, approvers decide about other         *)
(* proposals of the product, and the process may die. A node begins with       *)
(* _load_owned_manual_review_context; what it finds decides where it goes.     *)
EXTENDS ProposalLifecycle

VARIABLES worker    \* the local state of each worker process

workerVars == <<vars, worker>>

Nodes == {"load_or_resume", "load_trusted_input", "run_deterministic_checks",
          "call_compliance_agent", "persist_manual_review", "finalize_manual_review"}

(* asking: inside call_compliance_agent, between the context it loaded and the  *)
(* transaction that persists the answer. failing: a checkpoint or database     *)
(* failure stopped the graph and _fail_current_run is next.                    *)
PCs == Nodes \cup {"asking", "idle", "failing", "down"}

NoJob == <<>>

(* result is what this process knows: none, a dependency failure (degraded) or *)
(* the answer of the compliance agent. It is lost with the process.            *)
Idle == [pc |-> "idle", job |-> NoJob, result |-> "none"]

Down == [Idle EXCEPT !.pc = "down"]

InGraph(w) == worker[w].pc \in Nodes \cup {"asking"}

Working(w) == InGraph(w) \/ worker[w].pc = "failing"

At(w, node, p, n) == worker[w].pc = node /\ worker[w].job = <<p, n>>

(* The node finds its context: owned, and ready.                               *)
Loaded(w, p, n) == Owned(w, p, n) /\ ContextReady(p, n)

Go(w, node) == worker' = [worker EXCEPT ![w].pc = node]

GoWith(w, node, result) ==
  worker' = [worker EXCEPT ![w].pc = node, ![w].result = result]

Leave(w) == worker' = [worker EXCEPT ![w] = Idle]

--------------------------------------------------------------------------------
(* The nodes, when their context is found. A review that is already there      *)
(* sends each of them to finalize_manual_review.                               *)

Take(w, p, n) ==
  /\ worker[w].pc = "idle"
  /\ Claim(w, p, n)
  /\ worker' = [worker EXCEPT ![w] = [pc |-> "load_or_resume", job |-> <<p, n>>,
                                      result |-> "none"]]

TakeNothing(w) ==
  /\ worker[w].pc = "idle"
  /\ ClaimNothing
  /\ UNCHANGED worker

LoadOrResume(w, p, n) ==
  /\ At(w, "load_or_resume", p, n)
  /\ Loaded(w, p, n)
  /\ Go(w, IF review[p][n] = "none" THEN "load_trusted_input" ELSE "finalize_manual_review")
  /\ UNCHANGED vars

(* The knowledge search succeeds and the context is read again, or it fails    *)
(* with a dependency error. A context that changed is resumed from the start.  *)
LoadTrustedInput(w, p, n) ==
  /\ At(w, "load_trusted_input", p, n)
  /\ Loaded(w, p, n)
  /\ IF review[p][n] # "none"
       THEN Go(w, "finalize_manual_review") \/ Go(w, "load_or_resume")
       ELSE \/ Go(w, "run_deterministic_checks")
            \/ GoWith(w, "run_deterministic_checks", "degraded")
  /\ UNCHANGED vars

RunDeterministicChecks(w, p, n) ==
  /\ At(w, "run_deterministic_checks", p, n)
  /\ Loaded(w, p, n)
  /\ Go(w, IF review[p][n] # "none" THEN "finalize_manual_review"
           ELSE IF worker[w].result = "degraded" THEN "persist_manual_review"
           ELSE "call_compliance_agent")
  /\ UNCHANGED vars

(* The search found too little: degraded without a call. Otherwise the agent   *)
(* is asked, for as long as its timeouts allow. The lease is renewed before    *)
(* each request, never while one is under way.                                 *)
CallComplianceAgent(w, p, n) ==
  /\ At(w, "call_compliance_agent", p, n)
  /\ Loaded(w, p, n)
  /\ IF review[p][n] # "none"
       THEN Go(w, "finalize_manual_review")
       ELSE Go(w, "asking") \/ GoWith(w, "persist_manual_review", "degraded")
  /\ UNCHANGED vars

(* Its answer, or the error it gave up with, is persisted by the same node. An *)
(* answer outside the schema or the facts fails the run instead (Abandon).     *)
AgentAnswers(w, p, n) ==
  /\ At(w, "asking", p, n)
  /\ \E verdict \in Verdicts :
       /\ PersistReview(w, p, n, verdict)
       /\ GoWith(w, "persist_manual_review", verdict)

PersistManualReview(w, p, n) ==
  /\ At(w, "persist_manual_review", p, n)
  /\ Loaded(w, p, n)
  /\ Go(w, "finalize_manual_review")
  /\ IF review[p][n] = "none"
       THEN PersistReview(w, p, n, worker[w].result)
       ELSE UNCHANGED vars

(* Mutant: the review counts although its context is no longer ready.          *)
FinalizeStale(w, p, n) ==
  /\ At(w, "finalize_manual_review", p, n)
  /\ Owned(w, p, n)
  /\ review[p][n] = "passed"
  /\ EndRun(p, n, "completed")
  /\ status' = [status EXCEPT ![p] = "draft_ready"]
  /\ active' = [active EXCEPT ![p] = 0]
  /\ UNCHANGED <<base, current, submitted, review, approvalVars, authorized>>
  /\ Leave(w)

FinalizeManualReview(w, p, n) ==
  /\ At(w, "finalize_manual_review", p, n)
  /\ FinalizeReview(w, p, n)
  /\ Leave(w)

--------------------------------------------------------------------------------
(* What can happen to any of them.                                             *)

(* ManualReviewLeaseLost: the row is left to whoever owns it now.              *)
LeaseLost(w, p, n) ==
  /\ Working(w) /\ worker[w].job = <<p, n>>
  /\ ~Owned(w, p, n)
  /\ Leave(w)
  /\ UNCHANGED vars

(* The context, a fact, a stored review or a recorded call is not what it has  *)
(* to be; or _fail_current_run does its work.                                  *)
Abandon(w, p, n) ==
  /\ Working(w) /\ worker[w].job = <<p, n>>
  /\ FailContext(w, p, n)
  /\ Leave(w)

(* ManualReviewCheckpointFailure or SQLAlchemyError                            *)
GraphBreaks(w) ==
  /\ InGraph(w)
  /\ Go(w, "failing")
  /\ UNCHANGED vars

(* Killed, cancelled, or an error out of run_once: the row keeps the lease.    *)
Crash(w) ==
  /\ Working(w)
  /\ worker' = [worker EXCEPT ![w] = Down]
  /\ UNCHANGED vars

Restart(w) ==
  /\ worker[w].pc = "down"
  /\ Leave(w)
  /\ UNCHANGED vars

--------------------------------------------------------------------------------
WorkerInit == Init /\ worker = [w \in Workers |-> Idle]

RunOnce(w) == TakeNothing(w) \/ \E p \in Proposals, n \in Numbers : Take(w, p, n)

Node(w, p, n) == \/ LoadOrResume(w, p, n)
                 \/ LoadTrustedInput(w, p, n)
                 \/ RunDeterministicChecks(w, p, n)
                 \/ CallComplianceAgent(w, p, n)
                 \/ AgentAnswers(w, p, n)
                 \/ PersistManualReview(w, p, n)
                 \/ FinalizeManualReview(w, p, n)

Progress(w) == \E p \in Proposals, n \in Numbers :
                 Node(w, p, n) \/ LeaseLost(w, p, n) \/ Abandon(w, p, n)

Environment ==
  \/ Optimize
  \/ \E p \in Proposals, n \in Numbers :
       \/ \E u \in Users : Operate(u, p, n) \/ Decide(u, p, n)
       \/ LeaseLapses(p, n)
  \/ \E u \in Users : Revoke(u) \/ Restore(u)

WorkerNext ==
  \/ \E w \in Workers : RunOnce(w) \/ Progress(w) \/ GraphBreaks(w) \/ Crash(w) \/ Restart(w)
  \/ Environment /\ UNCHANGED worker

WorkerSpec == WorkerInit /\ [][WorkerNext]_workerVars

(* A worker keeps looping and each of its waits is bounded by a timeout; a     *)
(* process that ended is started again; a lease that is not renewed for ever   *)
(* lapses. Nothing else is sure to happen.                                     *)
Fairness ==
  /\ \A w \in Workers : /\ WF_workerVars(RunOnce(w))
                        /\ WF_workerVars(Progress(w))
                        /\ WF_workerVars(Restart(w))
  /\ \A p \in Proposals, n \in Numbers : WF_workerVars(LeaseLapses(p, n) /\ UNCHANGED worker)

FairWorkerSpec == WorkerSpec /\ Fairness

--------------------------------------------------------------------------------
(* Properties.                                                                 *)

Worker == [pc : PCs, job : {NoJob} \cup (Proposals \X Numbers), result : {"none"} \cup Verdicts]

WorkerTypeOK ==
  /\ TypeOK
  /\ worker \in [Workers -> Worker]
  /\ \A w \in Workers : worker[w].job = NoJob <=> ~Working(w)

(* A review run is ended, and the verdict on a manual revision written, by the *)
(* worker that holds the live lease and has the run in hand: a worker that     *)
(* waited past its lease for knowledge or for the model writes nothing         *)
(* (owned_workflow_lease in each transaction). The sweep ends only runs that   *)
(* used up their attempts.                                                     *)
WrittenByHolder ==
  [][\A p \in Proposals, n \in Numbers :
       /\ Finished(runs'[p][n]) /\ ~Finished(runs[p][n]) =>
            \/ <<p, n>> \in Exhausted
            \/ \E w \in Workers : Owned(w, p, n) /\ worker[w].job = <<p, n>>
       /\ review'[p][n] # review[p][n] /\ runs[p][n].status # "absent" =>
            \E w \in Workers : Owned(w, p, n) /\ worker[w].job = <<p, n>>]_workerVars

(* The program only takes steps the database transactions allow.               *)
ImplementsLifecycle == Spec

(* Every manual review that was accepted is completed or failed in the end,    *)
(* through crashes, lost leases, broken graphs and withdrawn authority: the    *)
(* proposal never stays locked by it.                                          *)
EventuallyReviewed ==
  \A p \in Proposals, n \in Numbers :
    runs[p][n].status = "accepted" ~> Finished(runs[p][n])

================================================================================
