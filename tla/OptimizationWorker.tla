--------------------------- MODULE OptimizationWorker ---------------------------
(* The optimization of a proposal: optimization_runs.py, whose transactions    *)
(* are guarded by a lease, and the graph of optimization_worker.py that runs   *)
(* them. An agent drafts a revision, another reviews it, and as long as the    *)
(* review asks for changes the draft is revised, up to three revisions. What   *)
(* comes out of it is one step of ProposalLifecycle. Workers search and ask    *)
(* outside any transaction; meanwhile leases lapse, other workers take over,   *)
(* another proposal of the product is published, the creator loses authority,  *)
(* and the process may die.                                                    *)
EXTENDS ProposalLifecycle

CONSTANTS Optimizers,    \* lease_owner (host and pid) of each optimization worker
          NoOptimizer,
          NoProposal,
          MaxDrafts      \* 3 in the code: iterations 0, 1 and 2

ASSUME OptimizationAssumption ==
  /\ NoOptimizer \notin Optimizers
  /\ NoProposal \notin Proposals
  /\ MaxDrafts \in Nat \ {0}

VARIABLES creator,     \* WorkflowRun.created_by of each optimization run
          chain,       \* the agent's revisions, each with its review; the last is current
          lease,       \* attempt_count, lease_owner and lease_expires_at of the run
          optimizer    \* the local state of each worker process

runVars == <<creator, chain, lease>>
optimizationVars == <<vars, runVars, optimizer>>

Lease == [attempts : 0..MaxAttempts, owner : Optimizers \cup {NoOptimizer}, lapsed : BOOLEAN]

Free == [attempts |-> 0, owner |-> NoOptimizer, lapsed |-> FALSE]

Current(p) == Len(chain[p])

Verdict(p) == IF chain[p] = <<>> THEN "absent" ELSE chain[p][Current(p)]

--------------------------------------------------------------------------------
(* The transactions. An accepted run has no owner yet, a processing one has.   *)

Optimizing(p) == status[p] = "optimizing"

(* select_product_for_optimization, by an operator                             *)
SelectProduct(u, p) ==
  /\ u \in authorized \ Approvers
  /\ Select(p)
  /\ creator' = [creator EXCEPT ![p] = u]
  /\ UNCHANGED <<chain, lease>>

Expired(p) == lease[p].owner # NoOptimizer /\ lease[p].lapsed

(* Mutant: attempts are not limited.                                           *)
AlwaysRetryable(p) == lease[p].owner = NoOptimizer \/ Expired(p)

Retryable(p) == /\ lease[p].owner = NoOptimizer \/ Expired(p)
                /\ lease[p].attempts < MaxAttempts

(* Mutant: no run is ever given up.                                            *)
NeverSpent == {}

(* The UPDATE at the start of claim_next_optimization_run                      *)
Spent == {p \in Proposals : Optimizing(p) /\ Expired(p) /\ lease[p].attempts >= MaxAttempts}

GiveUpSpent == IF Spent = {} THEN UNCHANGED vars ELSE OptimizationsFail(Spent)

Released(S) == [p \in Proposals |->
                  IF p \in S THEN [lease[p] EXCEPT !.owner = NoOptimizer, !.lapsed = FALSE]
                             ELSE lease[p]]

ClaimRun(w, p) ==
  /\ Optimizing(p)
  /\ Retryable(p)
  /\ GiveUpSpent
  /\ lease' = [Released(Spent) EXCEPT ![p] = [attempts |-> lease[p].attempts + 1,
                                              owner |-> w, lapsed |-> FALSE]]
  /\ UNCHANGED <<creator, chain>>

(* No other row, or every one of them locked by somebody (SKIP LOCKED).        *)
ClaimNoRun ==
  /\ Spent # {}
  /\ GiveUpSpent
  /\ lease' = Released(Spent)
  /\ UNCHANGED <<creator, chain>>

RunLeaseLapses(p) ==
  /\ Optimizing(p)
  /\ lease[p].owner # NoOptimizer
  /\ ~lease[p].lapsed
  /\ lease' = [lease EXCEPT ![p].lapsed = TRUE]
  /\ UNCHANGED <<vars, creator, chain>>

(* owned_workflow_lease                                                        *)
OwnsRun(w, p) == Optimizing(p) /\ lease[p].owner = w /\ ~lease[p].lapsed

(* Mutant: the creator's authority is taken for granted.                       *)
HoldsUnchecked(w, p) == OwnsRun(w, p) /\ base[p] = version

(* _locked_context finds the run owned and its context as it has to be; facts  *)
(* and citations may be found changed at any time.                             *)
Holds(w, p) ==
  /\ OwnsRun(w, p)
  /\ creator[p] \in authorized
  /\ base[p] = version

(* Mutant: any worker that drafted a revision may store it.                    *)
PersistRevisionUnfenced(w, p) ==
  /\ Optimizing(p)
  /\ Current(p) < MaxDrafts
  /\ Verdict(p) \in {"absent", "changes"}
  /\ chain' = [chain EXCEPT ![p] = Append(@, "none")]
  /\ UNCHANGED <<vars, creator, lease>>

(* persist_optimization_revision for the iteration that follows the current    *)
(* one, whose review asks for changes (_actionable_prior_review).              *)
PersistRevision(w, p) ==
  /\ Holds(w, p)
  /\ Current(p) < MaxDrafts
  /\ Verdict(p) \in {"absent", "changes"}
  /\ chain' = [chain EXCEPT ![p] = Append(@, "none")]
  /\ UNCHANGED <<vars, creator, lease>>

(* Mutant: the lease is not checked again when the answer is persisted.        *)
PersistVerdictUnfenced(w, p, verdict) ==
  /\ Optimizing(p)
  /\ Verdict(p) = "none"
  /\ chain' = [chain EXCEPT ![p][Current(p)] = verdict]
  /\ UNCHANGED <<vars, creator, lease>>

(* persist_compliance_review and, for degraded, persist_compliance_failure too *)
PersistVerdict(w, p, verdict) ==
  /\ Holds(w, p)
  /\ Verdict(p) = "none"
  /\ chain' = [chain EXCEPT ![p][Current(p)] = verdict]
  /\ UNCHANGED <<vars, creator, lease>>

Ends(p) == /\ lease' = Released({p})
           /\ UNCHANGED <<creator, chain>>

(* _defer_allowed. A cause is the error code of a dependency that failed while *)
(* the draft of an iteration was made, the one stored with the review of the   *)
(* current draft, or OPTIMIZATION_ITERATION_LIMIT.                             *)
DeferAllowed(p, iteration, cause) ==
  CASE Verdict(p) = "absent"   -> cause = "dependency" /\ iteration = 0
    [] Verdict(p) = "none"     -> cause = "dependency" /\ iteration = Current(p) - 1
    [] Verdict(p) = "passed"   -> FALSE
    [] Verdict(p) = "degraded" -> cause = "stored" /\ iteration = Current(p) - 1
    [] Verdict(p) = "changes"  ->
         \/ cause = "limit" /\ Current(p) = MaxDrafts /\ iteration = Current(p) - 1
         \/ cause = "dependency" /\ Current(p) < MaxDrafts /\ iteration = Current(p)

(* Mutant: the product's version is only compared when the run is loaded.      *)
DeferStale(w, p, iteration, cause) ==
  /\ OwnsRun(w, p)
  /\ status' = [status EXCEPT ![p] = "pending_manual"]
  /\ UNCHANGED <<base, current, submitted, active, reviewVars, approvalVars, authorized>>
  /\ Ends(p)

(* defer_optimization_manual. The proposal is handed over with the current     *)
(* draft and its review, if there are any.                                     *)
Defer(w, p, iteration, cause) ==
  /\ Holds(w, p)
  /\ DeferAllowed(p, iteration, cause)
  /\ Deferred(p)
  /\ review'[p][1] = Verdict(p)
  /\ Ends(p)

(* finalize_optimization_draft                                                 *)
Finalize(w, p) ==
  /\ Holds(w, p)
  /\ Verdict(p) = "passed"
  /\ DraftReady(p)
  /\ Ends(p)

(* Any owned transaction may end here: the context or a fact changed, a stored *)
(* row is not what it has to be (OPTIMIZATION_REPLAY_CONFLICT), or             *)
(* fail_optimization_run.                                                      *)
FailRun(w, p) ==
  /\ OwnsRun(w, p)
  /\ OptimizationsFail({p})
  /\ Ends(p)

--------------------------------------------------------------------------------
(* The worker.                                                                 *)

Nodes == {"load_or_resume", "persist_revision", "persist_review", "finalize_draft",
          "defer_manual"}

(* Inside persist_revision and persist_review: searching the knowledge base,   *)
(* and asking an agent. deferring: the review was stored as degraded.          *)
Waits == {"revision_input", "drafting", "review_input", "reviewing", "deferring"}

InGraph(w) == optimizer[w].pc \in Nodes \cup Waits

Working(w) == InGraph(w) \/ optimizer[w].pc = "failing"

(* iteration is the one the process works on, 0 outside its waits. It is lost  *)
(* with the process.                                                           *)
At(w, pcs, p) == optimizer[w].pc \in pcs /\ optimizer[w].job = p

Local(pc, p, iteration) == [pc |-> pc, job |-> p, iteration |-> iteration]

Go(w, pc, p, iteration) == optimizer' = [optimizer EXCEPT ![w] = Local(pc, p, iteration)]

Become(w, pc) == optimizer' = [optimizer EXCEPT ![w] = Local(pc, NoProposal, 0)]

Leave(w) == Become(w, "idle")

Stored == UNCHANGED <<vars, runVars>>

(* _target_revision is not None, for the iteration Current(p)                  *)
Revisable(p) == /\ Verdict(p) \in {"absent", "changes"}
                /\ Current(p) < MaxDrafts

Take(w, p) ==
  /\ optimizer[w].pc = "idle"
  /\ ClaimRun(w, p)
  /\ Go(w, "load_or_resume", p, 0)

TakeNothing(w) ==
  /\ optimizer[w].pc = "idle"
  /\ ClaimNoRun
  /\ UNCHANGED optimizer

LoadOrResume(w, p) ==
  /\ At(w, {"load_or_resume"}, p)
  /\ Holds(w, p)
  /\ Go(w, CASE Revisable(p)           -> "persist_revision"
             [] Verdict(p) = "none"    -> "persist_review"
             [] Verdict(p) = "passed"  -> "finalize_draft"
             [] OTHER                  -> "defer_manual", p, 0)
  /\ Stored

(* The two nodes up to the search for knowledge                                *)
SearchForDraft(w, p) ==
  /\ At(w, {"persist_revision"}, p)
  /\ Holds(w, p)
  /\ IF Revisable(p) THEN Go(w, "revision_input", p, Current(p))
                     ELSE Go(w, "load_or_resume", p, 0)
  /\ Stored

SearchForReview(w, p) ==
  /\ At(w, {"persist_review"}, p)
  /\ Holds(w, p)
  /\ IF Verdict(p) = "none" THEN Go(w, "review_input", p, Current(p) - 1)
                            ELSE Go(w, "load_or_resume", p, 0)
  /\ Stored

(* The context is loaded again; if it is about another iteration, the graph    *)
(* resumes from the start, otherwise the agent is asked.                       *)
AskForDraft(w, p) ==
  /\ At(w, {"revision_input"}, p)
  /\ Holds(w, p)
  /\ IF Revisable(p) /\ Current(p) = optimizer[w].iteration
       THEN Go(w, "drafting", p, optimizer[w].iteration)
       ELSE Go(w, "load_or_resume", p, 0)
  /\ Stored

AskForReview(w, p) ==
  /\ At(w, {"review_input"}, p)
  /\ Holds(w, p)
  /\ IF Verdict(p) = "none" /\ Current(p) - 1 = optimizer[w].iteration
       THEN Go(w, "reviewing", p, optimizer[w].iteration)
       ELSE Go(w, "load_or_resume", p, 0)
  /\ Stored

(* The knowledge base or the agent is unavailable, or knows too little.        *)
DraftUnavailable(w, p) ==
  /\ At(w, {"revision_input", "drafting"}, p)
  /\ Defer(w, p, optimizer[w].iteration, "dependency")
  /\ Leave(w)

ReviewInputUnavailable(w, p) ==
  /\ At(w, {"review_input"}, p)
  /\ Defer(w, p, optimizer[w].iteration, "dependency")
  /\ Leave(w)

(* Too little knowledge for a review, or no answer to it, is recorded as a     *)
(* degraded review before the proposal is handed over.                         *)
ReviewUnavailable(w, p) ==
  /\ At(w, {"review_input", "reviewing"}, p)
  /\ Current(p) - 1 = optimizer[w].iteration
  /\ PersistVerdict(w, p, "degraded")
  /\ Go(w, "deferring", p, optimizer[w].iteration)

AgentDrafts(w, p) ==
  /\ At(w, {"drafting"}, p)
  /\ Current(p) = optimizer[w].iteration
  /\ PersistRevision(w, p)
  /\ Go(w, "load_or_resume", p, 0)

AgentReviews(w, p) ==
  /\ At(w, {"reviewing"}, p)
  /\ Current(p) - 1 = optimizer[w].iteration
  /\ \E verdict \in Verdicts : PersistVerdict(w, p, verdict)
  /\ Go(w, "load_or_resume", p, 0)

FinalizeDraft(w, p) ==
  /\ At(w, {"finalize_draft"}, p)
  /\ Finalize(w, p)
  /\ Leave(w)

HandOver(w, p) ==
  /\ At(w, {"defer_manual", "deferring"}, p)
  /\ Defer(w, p, Current(p) - 1, IF Verdict(p) = "degraded" THEN "stored" ELSE "limit")
  /\ Leave(w)

(* OptimizationLeaseLost                                                       *)
LeaseLost(w, p) ==
  /\ Working(w) /\ optimizer[w].job = p
  /\ ~OwnsRun(w, p)
  /\ Leave(w)
  /\ Stored

Abandon(w, p) ==
  /\ Working(w) /\ optimizer[w].job = p
  /\ FailRun(w, p)
  /\ Leave(w)

(* OptimizationCheckpointFailure or SQLAlchemyError: _fail_current_run is next *)
GraphBreaks(w) ==
  /\ InGraph(w)
  /\ Go(w, "failing", optimizer[w].job, 0)
  /\ Stored

(* Killed, cancelled, or an error out of run_once: the row keeps the lease.    *)
Crash(w) ==
  /\ Working(w)
  /\ Become(w, "down")
  /\ Stored

Restart(w) ==
  /\ optimizer[w].pc = "down"
  /\ Leave(w)
  /\ Stored

--------------------------------------------------------------------------------
OptimizationInit ==
  /\ Init
  /\ creator = [p \in Proposals |-> NoUser]
  /\ chain = [p \in Proposals |-> <<>>]
  /\ lease = [p \in Proposals |-> Free]
  /\ optimizer = [w \in Optimizers |-> Local("idle", NoProposal, 0)]

RunOnce(w) == TakeNothing(w) \/ \E p \in Proposals : Take(w, p)

Node(w, p) == \/ LoadOrResume(w, p)
              \/ SearchForDraft(w, p) \/ AskForDraft(w, p) \/ AgentDrafts(w, p)
              \/ SearchForReview(w, p) \/ AskForReview(w, p) \/ AgentReviews(w, p)
              \/ DraftUnavailable(w, p) \/ ReviewInputUnavailable(w, p)
              \/ ReviewUnavailable(w, p)
              \/ FinalizeDraft(w, p) \/ HandOver(w, p)

Progress(w) == \E p \in Proposals : Node(w, p) \/ LeaseLost(w, p) \/ Abandon(w, p)

OptimizationNext ==
  \/ \E u \in Users, p \in Proposals : SelectProduct(u, p) /\ UNCHANGED optimizer
  \/ \E w \in Optimizers : RunOnce(w) \/ Progress(w) \/ GraphBreaks(w) \/ Crash(w) \/ Restart(w)
  \/ \E p \in Proposals : RunLeaseLapses(p) /\ UNCHANGED optimizer
  \/ AfterOptimization /\ UNCHANGED <<runVars, optimizer>>

OptimizationSpec == OptimizationInit /\ [][OptimizationNext]_optimizationVars

(* As for ManualReviewWorker: workers keep looping and their waits time out,   *)
(* ended processes are started again, leases lapse.                            *)
Fairness ==
  /\ \A w \in Optimizers : /\ WF_optimizationVars(RunOnce(w))
                           /\ WF_optimizationVars(Progress(w))
                           /\ WF_optimizationVars(Restart(w))
  /\ \A p \in Proposals : WF_optimizationVars(RunLeaseLapses(p) /\ UNCHANGED optimizer)

FairOptimizationSpec == OptimizationSpec /\ Fairness

--------------------------------------------------------------------------------
(* Properties.                                                                 *)

Process == [pc : Nodes \cup Waits \cup {"idle", "failing", "down"},
            job : Proposals \cup {NoProposal}, iteration : 0..MaxDrafts - 1]

OptimizationTypeOK ==
  /\ TypeOK
  /\ creator \in [Proposals -> Users \cup {NoUser}]
  /\ chain \in [Proposals -> Seq({"none"} \cup Verdicts)]
  /\ lease \in [Proposals -> Lease]
  /\ optimizer \in [Optimizers -> Process]
  /\ \A w \in Optimizers : optimizer[w].job = NoProposal <=> ~Working(w)

(* What a worker that still holds the lease remembers of the run is what the   *)
(* rows say, however often the run changed hands: so no answer that arrives    *)
(* under a live lease ends as OPTIMIZATION_REPLAY_CONFLICT, and an agent's     *)
(* work is lost only with the lease or the context (optimization_worker.py,    *)
(* where each wait is followed by a transaction that compares).                *)
HolderIsCurrent ==
  \A w \in Optimizers, p \in Proposals :
    LET iteration == optimizer[w].iteration IN
    OwnsRun(w, p) /\ optimizer[w].job = p =>
      /\ At(w, {"persist_revision"}, p) => Revisable(p)
      /\ At(w, {"revision_input", "drafting"}, p) => Revisable(p) /\ iteration = Current(p)
      /\ At(w, {"persist_review"}, p) => Verdict(p) = "none"
      /\ At(w, {"review_input", "reviewing"}, p) =>
           Verdict(p) = "none" /\ iteration = Current(p) - 1
      /\ At(w, {"finalize_draft"}, p) => Verdict(p) = "passed"
      /\ At(w, {"defer_manual"}, p) =>
           \/ DeferAllowed(p, Current(p) - 1, "stored")
           \/ DeferAllowed(p, Current(p) - 1, "limit")
      /\ At(w, {"deferring"}, p) => DeferAllowed(p, iteration, "stored")

(* Revisions and reviews are only added, one at a time, by the worker that     *)
(* holds the live lease and has the run in hand: a draft is revised only after *)
(* a review that asks for changes, reviewed once, and never reconsidered. The  *)
(* run is ended by that worker too, or by the sweep after its last attempt.    *)
OptimizedByHolder ==
  [][\A p \in Proposals :
       LET holder == \E w \in Optimizers : OwnsRun(w, p) /\ optimizer[w].job = p
           last == Current(p) IN
       /\ chain'[p] # chain[p] =>
            /\ holder
            /\ \/ chain[p] = <<>> /\ chain'[p] = <<"none">>
               \/ /\ last \in 1..(MaxDrafts - 1)
                  /\ chain[p][last] = "changes"
                  /\ chain'[p] = Append(chain[p], "none")
               \/ /\ chain[p][last] = "none"
                  /\ \E verdict \in Verdicts : chain'[p] = [chain[p] EXCEPT ![last] = verdict]
       /\ Optimizing(p) /\ status'[p] # "optimizing" => holder \/ p \in Spent]_optimizationVars

(* A proposal becomes a draft exactly when its last revision passed, is handed *)
(* over to manual work with exactly the last revision and review there is, and *)
(* either only for a creator who has the authority at that moment and while    *)
(* the product has not moved on: otherwise it fails, and nothing of the chain  *)
(* comes out.                                                                  *)
OutcomeFollowsReviews ==
  [][\A p \in Proposals :
       Optimizing(p) /\ status'[p] # "optimizing" =>
         \/ status'[p] = "failed" /\ UNCHANGED <<review[p], current[p]>>
         \/ /\ base[p] = version
            /\ creator[p] \in authorized
            /\ status'[p] = IF Verdict(p) = "passed" THEN "draft_ready" ELSE "pending_manual"
            /\ review'[p][1] = Verdict(p)]_optimizationVars

(* The program only takes steps of the lifecycle.                              *)
ImplementsLifecycle == Spec

(* Every optimization that was selected comes to an end, through crashes, lost *)
(* leases, broken graphs and withdrawn authority.                              *)
EventuallyOptimized ==
  \A p \in Proposals : Optimizing(p) ~> ~Optimizing(p)

================================================================================
