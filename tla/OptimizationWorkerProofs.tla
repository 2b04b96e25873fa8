------------------------ MODULE OptimizationWorkerProofs -------------------------
(* Machine-checked proofs about OptimizationWorker, for any number of workers, *)
(* proposals and users and any limits on attempts and drafts.                  *)
EXTENDS OptimizationWorker, ProposalLifecycleProofs, SequenceTheorems

RowsOK ==
  /\ creator \in [Proposals -> Users \cup {NoUser}]
  /\ chain \in [Proposals -> Seq({"none"} \cup Verdicts)]
  /\ lease \in [Proposals -> Lease]

(* No more drafts than allowed.                                                *)
ChainBounded == \A p \in Proposals : Current(p) <= MaxDrafts

(* A run that is over, or was never selected, is nobody's.                     *)
OnlyRunsLeased == \A p \in Proposals : ~Optimizing(p) => lease[p].owner = NoOptimizer

ProcessesOK ==
  /\ optimizer \in [Optimizers -> Process]
  /\ \A w \in Optimizers : optimizer[w].job = NoProposal <=> ~Working(w)

(* HolderIsCurrent for one worker and one run.                                 *)
Informed(w, p) ==
  LET iteration == optimizer[w].iteration IN
  /\ At(w, {"persist_revision"}, p) => Revisable(p)
  /\ At(w, {"revision_input", "drafting"}, p) => Revisable(p) /\ iteration = Current(p)
  /\ At(w, {"persist_review"}, p) => Verdict(p) = "none"
  /\ At(w, {"review_input", "reviewing"}, p) =>
       Verdict(p) = "none" /\ iteration = Current(p) - 1
  /\ At(w, {"finalize_draft"}, p) => Verdict(p) = "passed"
  /\ At(w, {"defer_manual"}, p) =>
       \/ DeferAllowed(p, Current(p) - 1, "stored")
       \/ DeferAllowed(p, Current(p) - 1, "limit")
  /\ At(w, {"deferring"}, p) => DeferAllowed(p, iteration, "stored")

OptimizationInv == RowsOK /\ ChainBounded /\ OnlyRunsLeased /\ ProcessesOK /\ HolderIsCurrent

LEMMA HoldersInformed ==
  HolderIsCurrent <=> \A w \in Optimizers, p \in Proposals :
                        OwnsRun(w, p) /\ optimizer[w].job = p => Informed(w, p)
BY DEF HolderIsCurrent, Informed

--------------------------------------------------------------------------------
(* The program implements the lifecycle.                                       *)

LEMMA GiveUpImplements == GiveUpSpent => [Optimize]_vars
<1>1. Spent \in SUBSET Proposals
  BY DEF Spent
<1>2. QED
  BY <1>1 DEF GiveUpSpent, Optimize

LEMMA RunOnceImplements ==
  ASSUME NEW w \in Optimizers, RunOnce(w) PROVE [Optimize]_vars
BY GiveUpImplements DEF RunOnce, TakeNothing, Take, ClaimRun, ClaimNoRun

LEMMA ProgressImplements ==
  ASSUME NEW w \in Optimizers, Progress(w) PROVE [Optimize]_vars
<1>1. PICK p \in Proposals : Node(w, p) \/ LeaseLost(w, p) \/ Abandon(w, p)
  BY DEF Progress
<1>2. {p} \in SUBSET Proposals
  OBVIOUS
<1>3. OptimizationsFail({p}) \/ DraftReady(p) \/ Deferred(p) \/ UNCHANGED vars
  BY <1>1 DEF Node, LoadOrResume, SearchForDraft, SearchForReview, AskForDraft, AskForReview,
              DraftUnavailable, ReviewInputUnavailable, ReviewUnavailable, AgentDrafts, AgentReviews,
              FinalizeDraft, HandOver, LeaseLost, Abandon, FailRun, Defer, Finalize, PersistVerdict,
              PersistRevision, Stored
<1>4. QED
  BY <1>2, <1>3 DEF Optimize

LEMMA OptimizationRefinementStep == [OptimizationNext]_optimizationVars => [Next]_vars
<1> SUFFICES ASSUME [OptimizationNext]_optimizationVars PROVE [Next]_vars
  OBVIOUS
<1>1. ASSUME NEW u \in Users, NEW p \in Proposals, SelectProduct(u, p) PROVE Optimize
  BY <1>1 DEF SelectProduct, Optimize
<1>2. ASSUME NEW w \in Optimizers, GraphBreaks(w) \/ Crash(w) \/ Restart(w) PROVE UNCHANGED vars
  BY <1>2 DEF GraphBreaks, Crash, Restart, Stored
<1>3. ASSUME NEW p \in Proposals, RunLeaseLapses(p) PROVE UNCHANGED vars
  BY <1>3 DEF RunLeaseLapses
<1>4. QED
  BY <1>1, <1>2, <1>3, RunOnceImplements, ProgressImplements
     DEF OptimizationNext, Next, optimizationVars

(* Whatever the optimization workers do, and wherever they stop, the rows go   *)
(* through steps of the lifecycle only (optimization_worker.py over            *)
(* optimization_runs.py).                                                      *)
THEOREM OptimizationImplementsLifecycle == OptimizationSpec => ImplementsLifecycle
<1>1. OptimizationInit => Init
  BY DEF OptimizationInit
<1>2. QED
  BY <1>1, OptimizationRefinementStep, PTL DEF OptimizationSpec, ImplementsLifecycle, Spec

--------------------------------------------------------------------------------
(* Rows.                                                                       *)

LEMMA ReleasedRow ==
  ASSUME NEW row \in Lease
  PROVE  LET freed == [row EXCEPT !.owner = NoOptimizer, !.lapsed = FALSE] IN
         freed \in Lease /\ freed.owner = NoOptimizer
BY DEF Lease

LEMMA ReleasedRows ==
  ASSUME RowsOK, NEW S
  PROVE  /\ Released(S) \in [Proposals -> Lease]
         /\ \A p \in Proposals : p \in S => Released(S)[p].owner = NoOptimizer
         /\ \A p \in Proposals : p \notin S => Released(S)[p] = lease[p]
BY ReleasedRow DEF Released, RowsOK

LEMMA VerdictOf ==
  ASSUME RowsOK, NEW p \in Proposals
  PROVE  /\ Current(p) \in Nat
         /\ Verdict(p) \in {"absent", "none"} \cup Verdicts
         /\ Verdict(p) = "absent" <=> chain[p] = <<>>
         /\ chain[p] = <<>> => Current(p) = 0
         /\ chain[p] # <<>> => Current(p) \in 1..Current(p) /\ Verdict(p) = chain[p][Current(p)]
<1> DEFINE S == {"none"} \cup Verdicts
<1>1. chain[p] \in Seq(S)
  BY DEF RowsOK
<1>2. Current(p) \in Nat /\ (chain[p] = <<>> => Current(p) = 0)
      /\ (chain[p] # <<>> => Current(p) \in 1..Current(p))
  BY <1>1, EmptySeq, LenProperties DEF Current
<1>3. chain[p] # <<>> => chain[p][Current(p)] \in S
  BY <1>1, <1>2, ElementOfSeq DEF Current
<1>4. QED
  BY <1>2, <1>3 DEF Verdict, Verdicts

LEMMA RevisionStored ==
  ASSUME RowsOK, NEW p \in Proposals, chain' = [chain EXCEPT ![p] = Append(@, "none")]
  PROVE  /\ chain' \in [Proposals -> Seq({"none"} \cup Verdicts)]
         /\ \A q \in Proposals \ {p} : chain'[q] = chain[q]
         /\ chain'[p] = Append(chain[p], "none") /\ Current(p)' = Current(p) + 1
         /\ Verdict(p)' = "none"
<1> DEFINE S == {"none"} \cup Verdicts
<1>1. chain[p] \in Seq(S) /\ "none" \in S
  BY DEF RowsOK
<1>2. /\ Append(chain[p], "none") \in Seq(S) /\ Append(chain[p], "none") # <<>>
      /\ Len(Append(chain[p], "none")) = Len(chain[p]) + 1
      /\ Append(chain[p], "none")[Len(chain[p]) + 1] = "none"
  BY <1>1, AppendProperties
<1>3. /\ chain' \in [Proposals -> Seq(S)] /\ chain'[p] = Append(chain[p], "none")
      /\ \A q \in Proposals \ {p} : chain'[q] = chain[q]
  BY <1>2 DEF RowsOK
<1>4. QED
  BY <1>2, <1>3 DEF Current, Verdict

LEMMA VerdictStored ==
  ASSUME RowsOK, NEW p \in Proposals, NEW verdict \in Verdicts, Verdict(p) = "none",
         chain' = [chain EXCEPT ![p][Current(p)] = verdict]
  PROVE  /\ chain' \in [Proposals -> Seq({"none"} \cup Verdicts)]
         /\ \A q \in Proposals \ {p} : chain'[q] = chain[q]
         /\ chain'[p] = [chain[p] EXCEPT ![Current(p)] = verdict]
         /\ Current(p)' = Current(p) /\ Verdict(p)' = verdict
<1> DEFINE S == {"none"} \cup Verdicts
<1> DEFINE reviewed == [chain[p] EXCEPT ![Current(p)] = verdict]
<1>1. chain[p] \in Seq(S) /\ Current(p) \in 1..Len(chain[p]) /\ verdict \in S
  BY VerdictOf DEF RowsOK, Current
<1>2. /\ reviewed \in Seq(S) /\ Len(reviewed) = Len(chain[p])
      /\ reviewed[Current(p)] = verdict
  BY <1>1, ExceptSeq
<1>3. reviewed # <<>>
  BY <1>1, <1>2, EmptySeq
<1>4. chain' = [chain EXCEPT ![p] = reviewed]
  OBVIOUS
<1> HIDE DEF reviewed
<1>5. /\ chain' \in [Proposals -> Seq(S)] /\ chain'[p] = reviewed
      /\ \A q \in Proposals \ {p} : chain'[q] = chain[q]
  BY <1>2, <1>4 DEF RowsOK
<1>6. QED
  BY <1>1, <1>2, <1>3, <1>5 DEF Current, Verdict, reviewed

--------------------------------------------------------------------------------
(* Processes.                                                                  *)

LEMMA OneProcess ==
  ASSUME ProcessesOK, NEW w \in Optimizers, NEW s \in Process,
         optimizer' = [optimizer EXCEPT ![w] = s],
         s.job = NoProposal <=> s.pc \in {"idle", "down"}
  PROVE  /\ ProcessesOK'
         /\ optimizer'[w] = s /\ \A v \in Optimizers \ {w} : optimizer'[v] = optimizer[v]
<1>1. optimizer'[w] = s /\ \A v \in Optimizers \ {w} : optimizer'[v] = optimizer[v]
  BY DEF ProcessesOK
<1>2. \A v \in Optimizers : Working(v)' <=> optimizer'[v].pc \notin {"idle", "down"}
  BY <1>1 DEF ProcessesOK, Working, InGraph, Process, Nodes, Waits
<1>3. \A v \in Optimizers : Working(v) <=> optimizer[v].pc \notin {"idle", "down"}
  BY DEF ProcessesOK, Working, InGraph, Process, Nodes, Waits
<1>4. QED
  BY <1>1, <1>2, <1>3 DEF ProcessesOK

LEMMA GoKeeps ==
  ASSUME ProcessesOK, NEW w \in Optimizers, NEW pc \in Nodes \cup Waits \cup {"failing"},
         NEW p \in Proposals, NEW iteration \in 0..MaxDrafts - 1, Go(w, pc, p, iteration)
  PROVE  /\ ProcessesOK'
         /\ optimizer'[w].pc = pc /\ optimizer'[w].job = p /\ optimizer'[w].iteration = iteration
         /\ \A v \in Optimizers \ {w} : optimizer'[v] = optimizer[v]
<1> DEFINE s == Local(pc, p, iteration)
<1>1. /\ s \in Process /\ s.pc = pc /\ s.job = p /\ s.iteration = iteration
      /\ s.job # NoProposal /\ s.pc \notin {"idle", "down"}
  BY OptimizationAssumption DEF Local, Process, Nodes, Waits
<1>2. optimizer' = [optimizer EXCEPT ![w] = s]
  BY DEF Go
<1> HIDE DEF s
<1>3. QED
  BY <1>1, <1>2, OneProcess

LEMMA BecomeKeeps ==
  ASSUME ProcessesOK, NEW w \in Optimizers, NEW pc \in {"idle", "down"}, Become(w, pc)
  PROVE  /\ ProcessesOK' /\ optimizer'[w].job = NoProposal
         /\ \A v \in Optimizers \ {w} : optimizer'[v] = optimizer[v]
<1> DEFINE s == Local(pc, NoProposal, 0)
<1>1. s \in Process /\ s.pc = pc /\ s.job = NoProposal
  BY OptimizationAssumption DEF Local, Process
<1>2. optimizer' = [optimizer EXCEPT ![w] = s]
  BY DEF Become
<1> HIDE DEF s
<1>3. QED
  BY <1>1, <1>2, OneProcess

LEMMA WorkingHasJob ==
  ASSUME ProcessesOK, NEW w \in Optimizers, Working(w)
  PROVE  optimizer[w].job \in Proposals
BY DEF ProcessesOK, Process

--------------------------------------------------------------------------------
(* Who holds what.                                                             *)

LEMMA InformedKept ==
  ASSUME NEW v, NEW p, Informed(v, p), optimizer'[v] = optimizer[v], chain'[p] = chain[p]
  PROVE  Informed(v, p)'
BY DEF Informed, At, Revisable, Verdict, Current, DeferAllowed

(* Nobody gets hold of a run and no chain that is held changes.                *)
LEMMA HoldersKept ==
  ASSUME HolderIsCurrent, optimizer' = optimizer,
         \A v \in Optimizers, p \in Proposals :
            OwnsRun(v, p)' => OwnsRun(v, p) /\ chain'[p] = chain[p]
  PROVE  HolderIsCurrent'
<1>1. ASSUME NEW v \in Optimizers, NEW p \in Proposals, OwnsRun(v, p)', (optimizer[v].job = p)'
      PROVE  Informed(v, p)'
  BY <1>1, InformedKept, HoldersInformed
<1>2. QED
  BY <1>1 DEF HolderIsCurrent, Informed

(* One worker moves, and knows what it has to know.                            *)
LEMMA HolderMoves ==
  ASSUME HolderIsCurrent, NEW w \in Optimizers,
         \A v \in Optimizers \ {w} : optimizer'[v] = optimizer[v],
         \A v \in Optimizers \ {w}, p \in Proposals :
            OwnsRun(v, p)' => OwnsRun(v, p) /\ chain'[p] = chain[p],
         \A p \in Proposals : OwnsRun(w, p)' /\ optimizer'[w].job = p => Informed(w, p)'
  PROVE  HolderIsCurrent'
<1>1. ASSUME NEW v \in Optimizers, NEW p \in Proposals, OwnsRun(v, p)', (optimizer[v].job = p)'
      PROVE  Informed(v, p)'
  <2>1. CASE v = w
    BY <1>1, <2>1
  <2>2. CASE v # w
    BY <1>1, <2>2, InformedKept, HoldersInformed
  <2>3. QED
    BY <2>1, <2>2
<1>2. QED
  BY <1>1 DEF HolderIsCurrent, Informed

LEMMA GiveUpStatus ==
  ASSUME TypeOK, GiveUpSpent
  PROVE  \A p \in Proposals : status'[p] = IF p \in Spent THEN "failed" ELSE status[p]
BY DEF GiveUpSpent, OptimizationsFail, vars, proposalVars, TypeOK

(* What happens to a proposal after its optimization does not touch those that *)
(* are being optimized.                                                        *)
LEMMA AfterwardsElsewhere ==
  ASSUME IInv, AfterOptimization, NEW q \in Proposals
  PROVE  Optimizing(q)' <=> Optimizing(q)
<1> TypeOK
  BY DEF IInv
<1> USE DEF proposalVars
<1>1. ASSUME NEW p \in Proposals, NEW n \in Numbers, runs[p][n].status = "processing"
      PROVE  active[p] = n /\ status[p] = "pending_manual"
  <2>1. active[p] = n /\ n # 0
    BY <1>1, UnfinishedIsActive DEF Unfinished, Numbers
  <2>2. QED
    BY <2>1 DEF IInv, ProposalInv, OneActiveReviewOf
<1>2. ASSUME NEW swept \in SUBSET Exhausted, Sweep(swept)
      PROVE  Optimizing(q)' <=> Optimizing(q)
  <2>1. \A p \in SweptProposals(swept) : status[p] = "pending_manual"
    BY <1>1 DEF SweptProposals, Exhausted, ExhaustedRun, LeaseExpired
  <2>2. status'[q] = IF q \in SweptProposals(swept) THEN "failed" ELSE status[q]
    BY <1>2 DEF Sweep
  <2>3. QED
    BY <2>1, <2>2 DEF Optimizing
<1>3. ASSUME NEW p \in Proposals, NEW n \in Numbers, NEW w \in Workers, Transact(w, p, n)
      PROVE  Optimizing(q)' <=> Optimizing(q)
  <2>1. status[p] = "pending_manual"
    BY <1>1, <1>3 DEF Transact, FailContext, PersistReview, FinalizeReview, Owned
  <2>2. status' = status \/ \E to : to # "optimizing" /\ status' = [status EXCEPT ![p] = to]
    BY <1>3 DEF Transact, FailContext, PersistReview, FinalizeReview
  <2>3. QED
    BY <2>1, <2>2 DEF Optimizing, TypeOK
<1>4. ASSUME NEW p \in Proposals, NEW n \in Numbers, NEW u \in Users,
             Operate(u, p, n) \/ Decide(u, p, n)
      PROVE  Optimizing(q)' <=> Optimizing(q)
  BY <1>4 DEF Operate, Decide, CreateManualRevision, Editable, Submit, Reject, RequestChanges, Approve,
              Decidable, Optimizing, TypeOK
<1>5. ASSUME status' = status PROVE Optimizing(q)' <=> Optimizing(q)
  BY <1>5 DEF Optimizing
<1>6. QED
  BY <1>2, <1>3, <1>4, <1>5 DEF AfterOptimization, Claim, ClaimNothing, LeaseLapses, Revoke, Restore

--------------------------------------------------------------------------------
(* The actions.                                                                *)

LEMMA InitOptimizationInv == OptimizationInit => OptimizationInv
<1> SUFFICES ASSUME OptimizationInit PROVE OptimizationInv
  OBVIOUS
<1> DEFINE s == Local("idle", NoProposal, 0)
<1>1. s \in Process /\ s.pc = "idle" /\ s.job = NoProposal
  BY OptimizationAssumption DEF Local, Process
<1>2. optimizer = [w \in Optimizers |-> s]
  BY DEF OptimizationInit
<1> HIDE DEF s
<1>3. Free \in Lease /\ Free.owner = NoOptimizer
  BY LifecycleAssumption DEF Free, Lease
<1>4. RowsOK /\ OnlyRunsLeased
  BY <1>3, EmptySeq DEF OptimizationInit, RowsOK, OnlyRunsLeased
<1>5. ChainBounded
  <2>1. \A p \in Proposals : chain[p] = <<>>
    BY DEF OptimizationInit
  <2>2. \A p \in Proposals : Current(p) = 0
    BY <1>4, <2>1, VerdictOf
  <2>3. 0 <= MaxDrafts
    BY OptimizationAssumption
  <2>4. QED
    BY <2>2, <2>3 DEF ChainBounded
<1>6. ProcessesOK
  BY <1>1, <1>2 DEF ProcessesOK, Working, InGraph, Nodes, Waits
<1>7. \A w \in Optimizers : optimizer[w].pc = "idle"
  BY <1>1, <1>2
<1>8. HolderIsCurrent
  BY <1>7 DEF HolderIsCurrent, At
<1>9. QED
  BY <1>4, <1>5, <1>6, <1>8 DEF OptimizationInv

LEMMA SelectKeeps ==
  ASSUME IInv, OptimizationInv, NEW u \in Users, NEW p \in Proposals, SelectProduct(u, p),
         optimizer' = optimizer
  PROVE  OptimizationInv'
<1> TypeOK
  BY DEF IInv
<1>1. /\ status[p] = "absent" /\ status' = [status EXCEPT ![p] = "optimizing"]
      /\ creator' = [creator EXCEPT ![p] = u] /\ chain' = chain /\ lease' = lease
  BY DEF SelectProduct, Select
<1>2. RowsOK' /\ ChainBounded' /\ ProcessesOK'
  BY <1>1 DEF OptimizationInv, RowsOK, ChainBounded, ProcessesOK, Current, Working, InGraph
<1>3. OnlyRunsLeased'
  BY <1>1 DEF OptimizationInv, OnlyRunsLeased, Optimizing, TypeOK
<1>4. lease[p].owner = NoOptimizer
  BY <1>1 DEF OptimizationInv, OnlyRunsLeased, Optimizing
<1>5. \A v \in Optimizers, q \in Proposals : OwnsRun(v, q)' => OwnsRun(v, q) /\ chain'[q] = chain[q]
  BY <1>1, <1>4, OptimizationAssumption DEF OwnsRun, Optimizing, TypeOK
<1>6. QED
  BY <1>2, <1>3, <1>5, HoldersKept DEF OptimizationInv

LEMMA RunOnceKeeps ==
  ASSUME IInv, OptimizationInv, NEW w \in Optimizers, RunOnce(w)
  PROVE  OptimizationInv'
<1> TypeOK /\ RowsOK /\ ProcessesOK
  BY DEF IInv, OptimizationInv
<1>1. GiveUpSpent /\ creator' = creator /\ chain' = chain
  BY DEF RunOnce, TakeNothing, Take, ClaimRun, ClaimNoRun
<1>2. \A q \in Proposals : status'[q] = IF q \in Spent THEN "failed" ELSE status[q]
  BY <1>1, GiveUpStatus
<1>3. ChainBounded'
  BY <1>1 DEF OptimizationInv, ChainBounded, Current
<1>4. CASE TakeNothing(w)
  <2>1. lease' = Released(Spent) /\ optimizer' = optimizer
    BY <1>4 DEF TakeNothing, ClaimNoRun
  <2>2. RowsOK' /\ ProcessesOK'
    BY <1>1, <2>1, ReleasedRows DEF RowsOK, ProcessesOK, Working, InGraph
  <2>3. OnlyRunsLeased'
    BY <1>2, <2>1, ReleasedRows DEF OptimizationInv, OnlyRunsLeased, Optimizing
  <2>4. \A v \in Optimizers, q \in Proposals :
           OwnsRun(v, q)' => OwnsRun(v, q) /\ chain'[q] = chain[q]
    BY <1>1, <1>2, <2>1, ReleasedRows, OptimizationAssumption DEF OwnsRun, Optimizing
  <2>5. QED
    BY <1>3, <2>1, <2>2, <2>3, <2>4, HoldersKept DEF OptimizationInv
<1>5. ASSUME NEW p \in Proposals, Take(w, p) PROVE OptimizationInv'
  <2> DEFINE row == [attempts |-> lease[p].attempts + 1, owner |-> w, lapsed |-> FALSE]
  <2>1. row \in Lease /\ row.owner = w
    BY <1>5, LifecycleAssumption DEF Take, ClaimRun, Retryable, RowsOK, Lease
  <2>2. Optimizing(p) /\ lease' = [Released(Spent) EXCEPT ![p] = row]
        /\ Go(w, "load_or_resume", p, 0) /\ p \notin Spent
    BY <1>5, LifecycleAssumption DEF Take, ClaimRun, Retryable, Spent, RowsOK, Lease
  <2> HIDE DEF row
  <2>3. /\ ProcessesOK' /\ optimizer'[w].pc = "load_or_resume"
        /\ \A v \in Optimizers \ {w} : optimizer'[v] = optimizer[v]
    BY <2>2, GoKeeps, OptimizationAssumption DEF Nodes
  <2>4. /\ lease' \in [Proposals -> Lease] /\ lease'[p] = row
        /\ \A q \in Proposals \ {p} : lease'[q] = Released(Spent)[q]
    BY <2>1, <2>2, ReleasedRows
  <2>5. RowsOK'
    BY <1>1, <2>4 DEF RowsOK
  <2>6. OnlyRunsLeased'
    BY <1>2, <2>2, <2>4, ReleasedRows DEF OptimizationInv, OnlyRunsLeased, Optimizing
  <2>7. \A v \in Optimizers \ {w}, q \in Proposals :
           OwnsRun(v, q)' => OwnsRun(v, q) /\ chain'[q] = chain[q]
    BY <1>1, <1>2, <2>1, <2>4, ReleasedRows, OptimizationAssumption DEF OwnsRun, Optimizing
  <2>8. \A q \in Proposals : Informed(w, q)'
    BY <2>3 DEF Informed, At
  <2>9. QED
    BY <1>3, <2>3, <2>5, <2>6, <2>7, <2>8, HolderMoves DEF OptimizationInv
<1>6. QED
  BY <1>4, <1>5 DEF RunOnce

(* Nothing is stored, and one process moves.                                   *)
LEMMA StoredKeeps ==
  ASSUME OptimizationInv, NEW w \in Optimizers, Stored, ProcessesOK',
         \A v \in Optimizers \ {w} : optimizer'[v] = optimizer[v],
         \A p \in Proposals : OwnsRun(w, p) /\ optimizer'[w].job = p => Informed(w, p)'
  PROVE  OptimizationInv'
<1> USE DEF Stored, runVars, vars, proposalVars
<1>1. \A v \in Optimizers, p \in Proposals : OwnsRun(v, p)' <=> OwnsRun(v, p)
  BY DEF OwnsRun, Optimizing
<1>2. RowsOK' /\ ChainBounded' /\ OnlyRunsLeased'
  BY DEF OptimizationInv, RowsOK, ChainBounded, OnlyRunsLeased, Current, Optimizing
<1>3. HolderIsCurrent'
  BY <1>1, HolderMoves DEF OptimizationInv
<1>4. QED
  BY <1>2, <1>3 DEF OptimizationInv

(* A process goes on with the run it has in hand.                              *)
LEMMA GoStoredKeeps ==
  ASSUME OptimizationInv, NEW w \in Optimizers, NEW p \in Proposals,
         NEW pc \in Nodes \cup Waits \cup {"failing"}, NEW iteration \in 0..MaxDrafts - 1,
         Go(w, pc, p, iteration), Stored,
         pc = "persist_revision" => Revisable(p),
         pc \in {"revision_input", "drafting"} => Revisable(p) /\ iteration = Current(p),
         pc = "persist_review" => Verdict(p) = "none",
         pc \in {"review_input", "reviewing"} => Verdict(p) = "none" /\ iteration = Current(p) - 1,
         pc = "finalize_draft" => Verdict(p) = "passed",
         pc = "defer_manual" => \/ DeferAllowed(p, Current(p) - 1, "stored")
                                \/ DeferAllowed(p, Current(p) - 1, "limit"),
         pc # "deferring"
  PROVE  OptimizationInv'
<1>1. /\ ProcessesOK'
      /\ optimizer'[w].pc = pc /\ optimizer'[w].job = p /\ optimizer'[w].iteration = iteration
      /\ \A v \in Optimizers \ {w} : optimizer'[v] = optimizer[v]
  BY GoKeeps DEF OptimizationInv
<1>2. chain' = chain
  BY DEF Stored, runVars
<1>3. Informed(w, p)'
  BY <1>1, <1>2 DEF Informed, At, Revisable, Verdict, Current, DeferAllowed
<1>4. QED
  BY <1>1, <1>3, StoredKeeps

LEMMA ReadKeeps ==
  ASSUME OptimizationInv, NEW w \in Optimizers, NEW p \in Proposals,
         \/ LoadOrResume(w, p)
         \/ SearchForDraft(w, p) \/ AskForDraft(w, p)
         \/ SearchForReview(w, p) \/ AskForReview(w, p)
  PROVE  OptimizationInv'
<1> RowsOK /\ 0 \in 0..MaxDrafts - 1 /\ Current(p) \in Nat /\ Current(p) <= MaxDrafts
  BY OptimizationAssumption, VerdictOf DEF OptimizationInv, ChainBounded
<1>1. Revisable(p) => Current(p) \in 0..MaxDrafts - 1
  BY OptimizationAssumption DEF Revisable
<1>2. Verdict(p) = "none" => Current(p) - 1 \in 0..MaxDrafts - 1
  BY OptimizationAssumption, VerdictOf
<1>3. ASSUME Go(w, "load_or_resume", p, 0), Stored PROVE OptimizationInv'
  BY <1>3, GoStoredKeeps DEF Nodes
<1>4. CASE LoadOrResume(w, p)
  <2> DEFINE pc == CASE Revisable(p)           -> "persist_revision"
                     [] Verdict(p) = "none"    -> "persist_review"
                     [] Verdict(p) = "passed"  -> "finalize_draft"
                     [] OTHER                  -> "defer_manual"
  <2>1. Go(w, pc, p, 0) /\ Stored
    BY <1>4 DEF LoadOrResume
  <2>2. pc \in Nodes
    BY DEF Nodes
  <2>3. /\ pc = "persist_revision" => Revisable(p)
        /\ pc = "persist_review" => Verdict(p) = "none"
        /\ pc = "finalize_draft" => Verdict(p) = "passed"
        /\ pc \notin Waits
    BY DEF Waits
  <2>4. ASSUME pc = "defer_manual"
        PROVE  \/ DeferAllowed(p, Current(p) - 1, "stored")
               \/ DeferAllowed(p, Current(p) - 1, "limit")
    <3>1. ~Revisable(p) /\ Verdict(p) # "none" /\ Verdict(p) # "passed"
      BY <2>4
    <3>2. Verdict(p) = "degraded" \/ (Verdict(p) = "changes" /\ Current(p) = MaxDrafts)
      BY <3>1, VerdictOf, OptimizationAssumption DEF Revisable, Verdicts
    <3>3. QED
      BY <3>2 DEF DeferAllowed
  <2> HIDE DEF pc
  <2>5. QED
    BY <2>1, <2>2, <2>3, <2>4, GoStoredKeeps DEF Waits
<1>5. CASE SearchForDraft(w, p)
  BY <1>1, <1>3, <1>5, GoStoredKeeps DEF SearchForDraft, Waits
<1>6. CASE AskForDraft(w, p)
  BY <1>1, <1>3, <1>6, GoStoredKeeps DEF AskForDraft, Waits
<1>7. CASE SearchForReview(w, p)
  BY <1>2, <1>3, <1>7, GoStoredKeeps DEF SearchForReview, Waits
<1>8. CASE AskForReview(w, p)
  BY <1>2, <1>3, <1>8, GoStoredKeeps DEF AskForReview, Waits
<1>9. QED
  BY <1>4, <1>5, <1>6, <1>7, <1>8

(* A revision or a review is stored by the holder.                             *)
LEMMA ChainKeeps ==
  ASSUME OptimizationInv, NEW w \in Optimizers, NEW p \in Proposals, OwnsRun(w, p),
         UNCHANGED <<vars, creator, lease>>,
         chain' \in [Proposals -> Seq({"none"} \cup Verdicts)],
         \A q \in Proposals \ {p} : chain'[q] = chain[q],
         Current(p)' <= MaxDrafts, ProcessesOK',
         \A v \in Optimizers \ {w} : optimizer'[v] = optimizer[v],
         optimizer'[w].job = p, Informed(w, p)'
  PROVE  OptimizationInv'
<1> USE DEF vars, proposalVars
<1>1. \A v \in Optimizers, q \in Proposals : OwnsRun(v, q)' <=> OwnsRun(v, q)
  BY DEF OwnsRun, Optimizing
<1>2. \A v \in Optimizers \ {w} : ~OwnsRun(v, p)
  BY DEF OwnsRun
<1>3. RowsOK' /\ ChainBounded' /\ OnlyRunsLeased'
  BY DEF OptimizationInv, RowsOK, ChainBounded, OnlyRunsLeased, Current, Optimizing
<1>4. HolderIsCurrent'
  BY <1>1, <1>2, HolderMoves DEF OptimizationInv
<1>5. QED
  BY <1>3, <1>4 DEF OptimizationInv

LEMMA PersistKeeps ==
  ASSUME OptimizationInv, NEW w \in Optimizers, NEW p \in Proposals,
         AgentDrafts(w, p) \/ AgentReviews(w, p) \/ ReviewUnavailable(w, p)
  PROVE  OptimizationInv'
<1> RowsOK /\ ProcessesOK /\ 0 \in 0..MaxDrafts - 1 /\ Current(p) \in Nat /\ Current(p) <= MaxDrafts
  BY OptimizationAssumption, VerdictOf DEF OptimizationInv, ChainBounded
<1>1. ASSUME Go(w, "load_or_resume", p, 0)
      PROVE  /\ ProcessesOK' /\ optimizer'[w].job = p /\ Informed(w, p)'
             /\ \A v \in Optimizers \ {w} : optimizer'[v] = optimizer[v]
  <2>1. /\ ProcessesOK' /\ optimizer'[w].job = p /\ optimizer'[w].pc = "load_or_resume"
        /\ \A v \in Optimizers \ {w} : optimizer'[v] = optimizer[v]
    BY <1>1, GoKeeps DEF Nodes
  <2>2. QED
    BY <2>1 DEF Informed, At
<1>2. CASE AgentDrafts(w, p)
  <2>1. PersistRevision(w, p) /\ OwnsRun(w, p) /\ Current(p) < MaxDrafts
    BY <1>2 DEF AgentDrafts, PersistRevision, Holds
  <2>2. /\ chain' \in [Proposals -> Seq({"none"} \cup Verdicts)]
        /\ \A q \in Proposals \ {p} : chain'[q] = chain[q]
        /\ Current(p)' = Current(p) + 1
    BY <2>1, RevisionStored DEF PersistRevision
  <2>3. Current(p)' <= MaxDrafts
    BY <2>1, <2>2, OptimizationAssumption
  <2>4. QED
    BY <1>1, <1>2, <2>1, <2>2, <2>3, ChainKeeps DEF AgentDrafts, PersistRevision
<1>3. ASSUME NEW verdict \in Verdicts, PersistVerdict(w, p, verdict)
      PROVE  /\ OwnsRun(w, p) /\ UNCHANGED <<vars, creator, lease>>
             /\ chain' \in [Proposals -> Seq({"none"} \cup Verdicts)]
             /\ \A q \in Proposals \ {p} : chain'[q] = chain[q]
             /\ Current(p)' = Current(p) /\ Verdict(p)' = verdict
  BY <1>3, VerdictStored DEF PersistVerdict, Holds
<1>4. CASE AgentReviews(w, p)
  <2>1. PICK verdict \in Verdicts : PersistVerdict(w, p, verdict)
    BY <1>4 DEF AgentReviews
  <2>2. QED
    BY <1>1, <1>3, <1>4, <2>1, ChainKeeps DEF AgentReviews
<1>5. CASE ReviewUnavailable(w, p)
  <2>1. /\ PersistVerdict(w, p, "degraded") /\ Current(p) - 1 = optimizer[w].iteration
        /\ Go(w, "deferring", p, optimizer[w].iteration)
    BY <1>5 DEF ReviewUnavailable
  <2>2. /\ optimizer[w].iteration \in 0..MaxDrafts - 1
        /\ "deferring" \in Nodes \cup Waits \cup {"failing"}
    BY DEF ProcessesOK, Process, Waits
  <2>3. /\ ProcessesOK' /\ optimizer'[w].job = p /\ optimizer'[w].pc = "deferring"
        /\ optimizer'[w].iteration = optimizer[w].iteration
        /\ \A v \in Optimizers \ {w} : optimizer'[v] = optimizer[v]
    BY <2>1, <2>2, GoKeeps
  <2>4. Verdict(p)' = "degraded" /\ Current(p)' = Current(p)
    BY <1>3, <2>1 DEF Verdicts
  <2>5. Informed(w, p)'
    BY <2>1, <2>3, <2>4 DEF Informed, At, DeferAllowed
  <2>6. QED
    BY <1>3, <2>1, <2>3, <2>4, <2>5, ChainKeeps DEF Verdicts
<1>6. QED
  BY <1>2, <1>4, <1>5

(* The run is over, and its holder leaves it.                                  *)
LEMMA EndKeeps ==
  ASSUME TypeOK, OptimizationInv, NEW w \in Optimizers, NEW p \in Proposals, OwnsRun(w, p),
         Ends(p), NEW to, to # "optimizing", status' = [status EXCEPT ![p] = to], Leave(w)
  PROVE  OptimizationInv'
<1> RowsOK /\ ProcessesOK
  BY DEF OptimizationInv
<1>1. lease' = Released({p}) /\ creator' = creator /\ chain' = chain
  BY DEF Ends
<1>2. status'[p] = to /\ \A q \in Proposals \ {p} : status'[q] = status[q]
  BY DEF TypeOK
<1>3. /\ ProcessesOK' /\ optimizer'[w].job = NoProposal
      /\ \A v \in Optimizers \ {w} : optimizer'[v] = optimizer[v]
  BY BecomeKeeps DEF Leave
<1>4. RowsOK' /\ ChainBounded'
  BY <1>1, ReleasedRows DEF OptimizationInv, RowsOK, ChainBounded, Current
<1>5. OnlyRunsLeased'
  BY <1>1, <1>2, ReleasedRows DEF OptimizationInv, OnlyRunsLeased, Optimizing
<1>6. \A v \in Optimizers, q \in Proposals : OwnsRun(v, q)' => OwnsRun(v, q) /\ chain'[q] = chain[q]
  <2>1. \A v \in Optimizers : ~OwnsRun(v, p)'
    BY <1>2 DEF OwnsRun, Optimizing
  <2>2. \A q \in Proposals \ {p} : lease'[q] = lease[q]
    BY <1>1, ReleasedRows
  <2>3. QED
    BY <1>1, <1>2, <2>1, <2>2 DEF OwnsRun, Optimizing
<1>7. \A q \in Proposals : ~(optimizer[w].job = q)'
  BY <1>3, OptimizationAssumption
<1>8. QED
  BY <1>3, <1>4, <1>5, <1>6, <1>7, HolderMoves DEF OptimizationInv

(* The transactions that end a run.                                            *)
Ending(w, p) == \/ DraftUnavailable(w, p) \/ ReviewInputUnavailable(w, p)
                \/ FinalizeDraft(w, p) \/ HandOver(w, p) \/ Abandon(w, p)

LEMMA EndingDoes ==
  ASSUME TypeOK, NEW w \in Optimizers, NEW p \in Proposals, Ending(w, p)
  PROVE  /\ OwnsRun(w, p) /\ Ends(p) /\ Leave(w)
         /\ \E to : to # "optimizing" /\ status' = [status EXCEPT ![p] = to]
<1>1. ASSUME FailRun(w, p)
      PROVE  /\ OwnsRun(w, p) /\ Ends(p)
             /\ \E to : to # "optimizing" /\ status' = [status EXCEPT ![p] = to]
  <2>1. status' = [status EXCEPT ![p] = "failed"]
    BY <1>1 DEF FailRun, OptimizationsFail, TypeOK
  <2>2. QED
    BY <1>1, <2>1 DEF FailRun
<1>2. QED
  BY <1>1 DEF Ending, DraftUnavailable, ReviewInputUnavailable, FinalizeDraft, HandOver, Abandon, Defer,
              Finalize, Deferred, DraftReady, OptimizationEnds, Holds

LEMMA EndingKeeps ==
  ASSUME TypeOK, OptimizationInv, NEW w \in Optimizers, NEW p \in Proposals, Ending(w, p)
  PROVE  OptimizationInv'
BY EndingDoes, EndKeeps

LEMMA StopKeeps ==
  ASSUME OptimizationInv, NEW w \in Optimizers, NEW pc \in {"idle", "down"}, Become(w, pc), Stored
  PROVE  OptimizationInv'
<1>1. /\ ProcessesOK' /\ optimizer'[w].job = NoProposal
      /\ \A v \in Optimizers \ {w} : optimizer'[v] = optimizer[v]
  BY BecomeKeeps DEF OptimizationInv
<1>2. \A p \in Proposals : optimizer'[w].job # p
  BY <1>1, OptimizationAssumption
<1>3. QED
  BY <1>1, <1>2, StoredKeeps

LEMMA WorkerStepKeeps ==
  ASSUME IInv, OptimizationInv, NEW w \in Optimizers,
         RunOnce(w) \/ Progress(w) \/ GraphBreaks(w) \/ Crash(w) \/ Restart(w)
  PROVE  OptimizationInv'
<1>1. TypeOK
  BY DEF IInv
<1>2. CASE Progress(w)
  <2>1. PICK p \in Proposals : Node(w, p) \/ LeaseLost(w, p) \/ Abandon(w, p)
    BY <1>2 DEF Progress
  <2>2. CASE LeaseLost(w, p)
    BY <2>2, StopKeeps DEF LeaseLost, Leave
  <2>3. QED
    BY <1>1, <2>1, <2>2, ReadKeeps, PersistKeeps, EndingKeeps DEF Node, Ending
<1>3. CASE GraphBreaks(w)
  <2>1. optimizer[w].job \in Proposals /\ 0 \in 0..MaxDrafts - 1
    BY <1>3, WorkingHasJob, OptimizationAssumption DEF GraphBreaks, Working, OptimizationInv
  <2>2. QED
    BY <1>3, <2>1, GoStoredKeeps DEF GraphBreaks
<1>4. CASE Crash(w) \/ Restart(w)
  BY <1>4, StopKeeps DEF Crash, Restart, Leave
<1>5. QED
  BY <1>2, <1>3, <1>4, RunOnceKeeps

LEMMA RunLeaseLapsesKeeps ==
  ASSUME OptimizationInv, NEW p \in Proposals, RunLeaseLapses(p), optimizer' = optimizer
  PROVE  OptimizationInv'
<1> DEFINE row == [lease[p] EXCEPT !.lapsed = TRUE]
<1>1. row \in Lease /\ row.owner = lease[p].owner /\ row.lapsed
  BY DEF OptimizationInv, RowsOK, Lease
<1>2. /\ lease' = [lease EXCEPT ![p] = row]
      /\ creator' = creator /\ chain' = chain /\ status' = status
  BY DEF RunLeaseLapses, vars, proposalVars
<1> HIDE DEF row
<1>3. RowsOK' /\ ChainBounded' /\ ProcessesOK'
  BY <1>1, <1>2 DEF OptimizationInv, RowsOK, ChainBounded, ProcessesOK, Current, Working, InGraph
<1>4. OnlyRunsLeased'
  BY <1>1, <1>2 DEF OptimizationInv, RowsOK, OnlyRunsLeased, Optimizing
<1>5. \A v \in Optimizers, q \in Proposals : OwnsRun(v, q)' => OwnsRun(v, q) /\ chain'[q] = chain[q]
  BY <1>1, <1>2 DEF OptimizationInv, RowsOK, OwnsRun, Optimizing
<1>6. QED
  BY <1>3, <1>4, <1>5, HoldersKept DEF OptimizationInv

LEMMA AfterwardsKeeps ==
  ASSUME IInv, OptimizationInv, AfterOptimization \/ UNCHANGED vars,
         UNCHANGED <<runVars, optimizer>>
  PROVE  OptimizationInv'
<1>1. \A q \in Proposals : Optimizing(q)' <=> Optimizing(q)
  BY AfterwardsElsewhere DEF vars, proposalVars, Optimizing
<1>2. creator' = creator /\ chain' = chain /\ lease' = lease
  BY DEF runVars
<1>3. RowsOK' /\ ChainBounded' /\ ProcessesOK' /\ OnlyRunsLeased'
  BY <1>1, <1>2
     DEF OptimizationInv, RowsOK, ChainBounded, ProcessesOK, OnlyRunsLeased, Current, Working, InGraph
<1>4. \A v \in Optimizers, q \in Proposals : OwnsRun(v, q)' => OwnsRun(v, q) /\ chain'[q] = chain[q]
  BY <1>1, <1>2 DEF OwnsRun
<1>5. QED
  BY <1>3, <1>4, HoldersKept DEF OptimizationInv

LEMMA NextOptimizationInv ==
  IInv /\ OptimizationInv /\ [OptimizationNext]_optimizationVars => OptimizationInv'
BY SelectKeeps, WorkerStepKeeps, RunLeaseLapsesKeeps, AfterwardsKeeps
   DEF OptimizationNext, optimizationVars

(* Leases and drafts stay within their limits, no run that is over is leased,  *)
(* and whoever still holds a run knows how far it is (optimization_worker.py   *)
(* over owned_workflow_lease).                                                 *)
THEOREM OptimizationInvariance == OptimizationSpec => []OptimizationInv
<1>1. OptimizationSpec => []IInv
  BY OptimizationImplementsLifecycle, Invariance, PTL DEF ImplementsLifecycle
<1>2. QED
  BY <1>1, InitOptimizationInv, NextOptimizationInv, PTL DEF OptimizationSpec

(* No answer that arrives under a live lease is about another draft than the   *)
(* current one (the comparisons of each transaction of optimization_runs.py).  *)
THEOREM HolderIsCurrentHolds == OptimizationSpec => []HolderIsCurrent
BY OptimizationInvariance, PTL DEF OptimizationInv

(* Rows and processes keep their types, and a process holds a job exactly      *)
(* while it works on one (optimization_worker.run_once).                       *)
THEOREM OptimizationTypeCorrect == OptimizationSpec => []OptimizationTypeOK
<1>1. OptimizationInv /\ TypeOK => OptimizationTypeOK
  BY DEF OptimizationInv, RowsOK, ProcessesOK, OptimizationTypeOK
<1>2. OptimizationSpec => []TypeOK
  BY OptimizationImplementsLifecycle, TypeCorrect, PTL DEF ImplementsLifecycle
<1>3. QED
  BY <1>1, <1>2, OptimizationInvariance, PTL

--------------------------------------------------------------------------------
(* What a step writes, run by run.                                             *)

Holder(p) == \E w \in Optimizers : OwnsRun(w, p) /\ optimizer[w].job = p

Revised(p) ==
  LET last == Current(p) IN
  \/ chain[p] = <<>> /\ chain'[p] = <<"none">>
  \/ /\ last \in 1..(MaxDrafts - 1)
     /\ chain[p][last] = "changes"
     /\ chain'[p] = Append(chain[p], "none")
  \/ /\ chain[p][last] = "none"
     /\ \E verdict \in Verdicts : chain'[p] = [chain[p] EXCEPT ![last] = verdict]

(* OptimizedByHolder for one run.                                              *)
ByHolder(p) ==
  LET holder == \E w \in Optimizers : OwnsRun(w, p) /\ optimizer[w].job = p
      last == Current(p) IN
  /\ chain'[p] # chain[p] =>
       /\ holder
       /\ \/ chain[p] = <<>> /\ chain'[p] = <<"none">>
          \/ /\ last \in 1..(MaxDrafts - 1)
             /\ chain[p][last] = "changes"
             /\ chain'[p] = Append(chain[p], "none")
          \/ /\ chain[p][last] = "none"
             /\ \E verdict \in Verdicts : chain'[p] = [chain[p] EXCEPT ![last] = verdict]
  /\ Optimizing(p) /\ status'[p] # "optimizing" => holder \/ p \in Spent

LEMMA HeldOrSpent ==
  ASSUME NEW p, chain'[p] # chain[p] => Holder(p) /\ Revised(p),
         Optimizing(p) /\ status'[p] # "optimizing" => Holder(p) \/ p \in Spent
  PROVE  ByHolder(p)
BY DEF ByHolder, Holder, Revised

(* OutcomeFollowsReviews for one run.                                          *)
Follows(p) ==
  Optimizing(p) /\ status'[p] # "optimizing" =>
    \/ status'[p] = "failed" /\ UNCHANGED <<review[p], current[p]>>
    \/ /\ base[p] = version
       /\ creator[p] \in authorized
       /\ status'[p] = IF Verdict(p) = "passed" THEN "draft_ready" ELSE "pending_manual"
       /\ review'[p][1] = Verdict(p)

RunStep == \A p \in Proposals : ByHolder(p) /\ Follows(p)

(* A step that writes no revision or review and ends no optimization.          *)
LEMMA NothingEnds ==
  ASSUME chain' = chain, \A p \in Proposals : Optimizing(p) => Optimizing(p)'
  PROVE  RunStep
BY HeldOrSpent DEF RunStep, Follows, Optimizing

LEMMA StoredStep == Stored => RunStep
BY NothingEnds DEF Stored, runVars, vars, proposalVars, Optimizing

LEMMA RunOnceStep ==
  ASSUME TypeOK, NEW w \in Optimizers, RunOnce(w)
  PROVE  RunStep
<1>1. GiveUpSpent /\ chain' = chain
  BY DEF RunOnce, TakeNothing, Take, ClaimRun, ClaimNoRun
<1>2. \A q \in Proposals : status'[q] = IF q \in Spent THEN "failed" ELSE status[q]
  BY <1>1, GiveUpStatus
<1>3. review' = review /\ current' = current
  BY <1>1 DEF GiveUpSpent, OptimizationsFail, vars, proposalVars, reviewVars
<1>4. QED
  BY <1>1, <1>2, <1>3, HeldOrSpent DEF RunStep, Follows, Optimizing

LEMMA PersistStep ==
  ASSUME OptimizationInv, NEW w \in Optimizers, NEW p \in Proposals,
         AgentDrafts(w, p) \/ AgentReviews(w, p) \/ ReviewUnavailable(w, p)
  PROVE  RunStep
<1> RowsOK
  BY DEF OptimizationInv
<1>1. \/ PersistRevision(w, p)
      \/ \E verdict \in Verdicts : PersistVerdict(w, p, verdict)
  BY DEF AgentDrafts, AgentReviews, ReviewUnavailable, Verdicts
<1>2. Holder(p) /\ status' = status
  BY <1>1 DEF AgentDrafts, AgentReviews, ReviewUnavailable, PersistRevision, PersistVerdict, Holds,
              Holder, At, vars, proposalVars
<1>3. (\A q \in Proposals \ {p} : chain'[q] = chain[q]) /\ Revised(p)
  <2>1. CASE PersistRevision(w, p)
    <3>1. /\ \A q \in Proposals \ {p} : chain'[q] = chain[q]
          /\ chain'[p] = Append(chain[p], "none")
      BY <2>1, RevisionStored DEF PersistRevision
    <3>2. CASE chain[p] = <<>>
      BY <3>1, <3>2 DEF Revised
    <3>3. CASE chain[p] # <<>>
      <4>1. Current(p) \in 1..(MaxDrafts - 1) /\ chain[p][Current(p)] = "changes"
        BY <2>1, <3>3, VerdictOf, OptimizationAssumption DEF PersistRevision
      <4>2. QED
        BY <3>1, <4>1 DEF Revised
    <3>4. QED
      BY <3>2, <3>3
  <2>2. ASSUME NEW verdict \in Verdicts, PersistVerdict(w, p, verdict)
        PROVE  (\A q \in Proposals \ {p} : chain'[q] = chain[q]) /\ Revised(p)
    <3>1. /\ \A q \in Proposals \ {p} : chain'[q] = chain[q]
          /\ chain'[p] = [chain[p] EXCEPT ![Current(p)] = verdict]
      BY <2>2, VerdictStored DEF PersistVerdict
    <3>2. chain[p][Current(p)] = "none"
      BY <2>2, VerdictOf DEF PersistVerdict
    <3>3. QED
      BY <3>1, <3>2 DEF Revised
  <2>3. QED
    BY <1>1, <2>1, <2>2
<1>4. QED
  BY <1>2, <1>3, HeldOrSpent DEF RunStep, Follows, Optimizing

LEMMA EndingStep ==
  ASSUME TypeOK, OptimizationInv, NEW w \in Optimizers, NEW p \in Proposals, Ending(w, p)
  PROVE  RunStep
<1> RowsOK
  BY DEF OptimizationInv
<1>1. OwnsRun(w, p) /\ Ends(p)
  BY EndingDoes
<1>2. Holder(p)
  BY <1>1 DEF Holder, Ending, DraftUnavailable, ReviewInputUnavailable, FinalizeDraft, HandOver, Abandon, At
<1>3. chain' = chain /\ \A q \in Proposals \ {p} : status'[q] = status[q]
  <2>1. PICK to : status' = [status EXCEPT ![p] = to]
    BY EndingDoes
  <2>2. QED
    BY <1>1, <2>1 DEF Ends, TypeOK
<1>4. 1 \in Numbers
  BY LifecycleAssumption DEF Numbers
<1>5. ASSUME NEW iteration, NEW cause, Defer(w, p, iteration, cause) PROVE Follows(p)
  <2>1. Verdict(p) # "passed"
    BY <1>5 DEF Defer, DeferAllowed
  <2>2. status'[p] = "pending_manual" /\ creator[p] \in authorized /\ base[p] = version
    BY <1>5 DEF Defer, Holds, Deferred, OptimizationEnds, TypeOK
  <2>3. review'[p][1] = Verdict(p)
    BY <1>5 DEF Defer
  <2>4. QED
    BY <2>1, <2>2, <2>3 DEF Follows
<1>6. ASSUME Finalize(w, p) PROVE Follows(p)
  <2>1. status'[p] = "draft_ready" /\ creator[p] \in authorized /\ base[p] = version
    BY <1>6 DEF Finalize, Holds, DraftReady, OptimizationEnds, TypeOK
  <2>2. review'[p][1] = Verdict(p) /\ Verdict(p) = "passed"
    BY <1>4, <1>6 DEF Finalize, DraftReady, AgentRevision, TypeOK
  <2>3. QED
    BY <2>1, <2>2 DEF Follows
<1>7. ASSUME FailRun(w, p) PROVE Follows(p)
  BY <1>7 DEF FailRun, OptimizationsFail, Follows, reviewVars, TypeOK
<1>8. Follows(p)
  BY <1>5, <1>6, <1>7
     DEF Ending, DraftUnavailable, ReviewInputUnavailable, FinalizeDraft, HandOver, Abandon
<1>9. QED
  BY <1>2, <1>3, <1>8, HeldOrSpent DEF RunStep, Follows, Optimizing

LEMMA NextRunStep == IInv /\ OptimizationInv /\ OptimizationNext => RunStep
<1> SUFFICES ASSUME IInv, OptimizationInv, OptimizationNext PROVE RunStep
  OBVIOUS
<1>1. TypeOK
  BY DEF IInv
<1>2. ASSUME NEW w \in Optimizers, Progress(w) PROVE RunStep
  <2>1. PICK p \in Proposals : Node(w, p) \/ LeaseLost(w, p) \/ Abandon(w, p)
    BY <1>2 DEF Progress
  <2>2. \/ Ending(w, p) \/ Stored
        \/ AgentDrafts(w, p) \/ AgentReviews(w, p) \/ ReviewUnavailable(w, p)
    BY <2>1 DEF Node, Ending, LeaseLost, LoadOrResume, SearchForDraft, AskForDraft, SearchForReview,
                AskForReview
  <2>3. QED
    BY <1>1, <2>2, StoredStep, PersistStep, EndingStep
<1>3. ASSUME NEW w \in Optimizers, GraphBreaks(w) \/ Crash(w) \/ Restart(w) PROVE RunStep
  BY <1>3, StoredStep DEF GraphBreaks, Crash, Restart
<1>4. ASSUME NEW u \in Users, NEW p \in Proposals, SelectProduct(u, p) PROVE RunStep
  BY <1>1, <1>4, NothingEnds DEF SelectProduct, Select, Optimizing, TypeOK
<1>5. ASSUME NEW p \in Proposals, RunLeaseLapses(p) PROVE RunStep
  BY <1>5, NothingEnds DEF RunLeaseLapses, vars, proposalVars, Optimizing
<1>6. ASSUME AfterOptimization, UNCHANGED runVars PROVE RunStep
  BY <1>6, AfterwardsElsewhere, NothingEnds DEF runVars
<1>7. QED
  BY <1>1, <1>2, <1>3, <1>4, <1>5, <1>6, RunOnceStep DEF OptimizationNext

LEMMA EveryRunStep == OptimizationSpec => [][RunStep]_optimizationVars
<1>1. OptimizationSpec => []IInv
  BY OptimizationImplementsLifecycle, Invariance, PTL DEF ImplementsLifecycle
<1>2. IInv /\ OptimizationInv /\ [OptimizationNext]_optimizationVars => [RunStep]_optimizationVars
  BY NextRunStep
<1>3. QED
  BY <1>1, <1>2, OptimizationInvariance, PTL DEF OptimizationSpec

(* Drafts and reviews are added one at a time by the holder of the live lease, *)
(* and a run ends through its holder or the sweep after its last attempt       *)
(* (optimization_runs.py).                                                     *)
THEOREM OptimizedByHolderHolds == OptimizationSpec => OptimizedByHolder
<1>1. [RunStep]_optimizationVars => [\A p \in Proposals : ByHolder(p)]_optimizationVars
  BY DEF RunStep
<1>2. QED
  BY <1>1, EveryRunStep, PTL DEF OptimizedByHolder, ByHolder

(* A proposal comes out as a draft exactly when its last revision passed, or   *)
(* with the last revision and review there is, and only under the authority    *)
(* and the product version it was made with (finalize_optimization_draft,      *)
(* defer_optimization_manual).                                                 *)
THEOREM OutcomeFollowsReviewsHolds == OptimizationSpec => OutcomeFollowsReviews
<1>1. [RunStep]_optimizationVars => [\A p \in Proposals : Follows(p)]_optimizationVars
  BY DEF RunStep
<1>2. QED
  BY <1>1, EveryRunStep, PTL DEF OutcomeFollowsReviews, Follows

(* Leases, drafts and reviews of an optimization show in the stages of its     *)
(* proposal only by its end (optimization_worker.py over optimization_runs.py  *)
(* and approvals.py).                                                          *)
THEOREM OptimizationImplementsStages == OptimizationSpec => ImplementsStages
BY OptimizationImplementsLifecycle, Refinement, PTL DEF ImplementsLifecycle

================================================================================
