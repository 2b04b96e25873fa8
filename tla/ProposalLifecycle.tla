--------------------------- MODULE ProposalLifecycle ---------------------------
(* The proposals made for one product, from selection to publication:          *)
(* proposals.py (selection), the outcome of optimization_runs.py,              *)
(* manual_reviews.py (manual revisions), manual_review_runs.py (the lease      *)
(* guarded transactions of their review) and approvals.py (submission and      *)
(* decision). The proposals share nothing but the product and its version.     *)
(*                                                                             *)
(* Every handler locks the actor, the store, the proposal, its optimization    *)
(* run and the product for the whole of its one transaction, so one action is  *)
(* one transaction. A reviewer's transactions are offered here to any worker   *)
(* that holds the lease; ManualReviewWorker says in which order it runs them.  *)
EXTENDS Integers, Sequences

CONSTANTS Proposals,     \* proposals for one product
          Users,         \* operations users
          Approvers,     \* those who are supervisors or admins
          NoUser,
          Workers,       \* lease_owner of each manual review worker
          NoWorker,
          MaxRevisions,  \* bound on the revisions of a proposal
          MaxAttempts    \* 3 in the code

ASSUME LifecycleAssumption ==
  /\ Approvers \subseteq Users
  /\ NoUser \notin Users
  /\ NoWorker \notin Workers
  /\ MaxRevisions \in Nat \ {0}
  /\ MaxAttempts \in Nat \ {0}

Numbers == 1..MaxRevisions

VARIABLES version,     \* Product.current_version
          authorized,  \* active operations users scoped to the enabled store
          status,      \* status of each proposal's optimization run
          base,        \* base_product_version
          review,      \* revisions and what their compliance review says
          current,     \* current_revision_id, as a revision_number; 0 for null
          submitted,   \* submitted_revision_id, likewise
          active,      \* active_manual_review_run_id, by its revision's number
          runs,        \* the manual review run of each manual revision
          settled,     \* terminal audit events of each manual review run
          actions,     \* approval_actions of each proposal, in commit order
          records      \* publish_records

proposalVars == <<status, base, current, submitted, active>>
reviewVars == <<review, runs, settled>>
approvalVars == <<actions, records, version>>
vars == <<proposalVars, reviewVars, approvalVars, authorized>>

Statuses == {"absent", "optimizing", "draft_ready", "pending_manual", "pending_approval",
             "rejected", "completed", "failed"}

(* absent: no such revision; none: not reviewed yet; changes: not passed;      *)
(* degraded: a dependency failed and the review says so.                       *)
Verdicts == {"passed", "changes", "degraded"}

Reviews == {"absent", "none"} \cup Verdicts

Run == [status : {"absent", "accepted", "processing", "completed", "failed"},
        attempts : 0..MaxAttempts, owner : Workers \cup {NoWorker}, lapsed : BOOLEAN,
        author : Users \cup {NoUser}]

AbsentRun == [status |-> "absent", attempts |-> 0, owner |-> NoWorker, lapsed |-> FALSE,
              author |-> NoUser]

Unfinished(run) == run.status \in {"accepted", "processing"}

Finished(run) == run.status \in {"completed", "failed"}

(* approval_actions: a row's idempotency key is its index here, a retry of the *)
(* request that made it is a request with that key.                            *)
Decisions == {"approve", "reject", "request_changes"}

Action == [kind : {"submit"} \cup Decisions, revision : Numbers, actor : Users]

Record == [revision : 0..MaxRevisions, action : Nat, version : Nat]

NoRecord == [revision |-> 0, action |-> 0, version |-> 0]

--------------------------------------------------------------------------------
(* select_product_for_optimization, and the end of the optimization run.       *)

Select(p) ==
  /\ status[p] = "absent"
  /\ status' = [status EXCEPT ![p] = "optimizing"]
  /\ base' = [base EXCEPT ![p] = version]
  /\ UNCHANGED <<current, submitted, active, reviewVars, approvalVars, authorized>>

(* Mutant: an optimization worker may end a run that is no longer its own.     *)
OptimizationEndsLate(p, to) ==
  /\ status[p] # "absent"
  /\ status' = [status EXCEPT ![p] = to]
  /\ UNCHANGED <<base, submitted, active, runs, settled, approvalVars, authorized>>

OptimizationEnds(p, to) ==
  /\ status[p] = "optimizing"
  /\ status' = [status EXCEPT ![p] = to]
  /\ UNCHANGED <<base, submitted, active, runs, settled, approvalVars, authorized>>

(* The last agent revision stands for the chain of up to three: the earlier    *)
(* ones are not referred to again.                                             *)
AgentRevision(p, verdict) ==
  /\ review' = [review EXCEPT ![p][1] = verdict]
  /\ current' = [current EXCEPT ![p] = 1]

(* finalize_optimization_draft                                                 *)
DraftReady(p) ==
  /\ base[p] = version
  /\ OptimizationEnds(p, "draft_ready")
  /\ AgentRevision(p, "passed")

(* defer_optimization_manual: a dependency failed before there was a revision, *)
(* before its review, in its review, or the iteration limit was reached.       *)
Deferred(p) ==
  /\ base[p] = version
  /\ OptimizationEnds(p, "pending_manual")
  /\ \/ UNCHANGED <<review, current>>
     \/ \E verdict \in {"none", "changes", "degraded"} : AgentRevision(p, verdict)

(* fail_optimization_run, the version conflict each transaction checks, and    *)
(* the claim that gives up runs without attempts left, several at once.        *)
OptimizationsFail(S) ==
  /\ S # {}
  /\ \A p \in S : status[p] = "optimizing"
  /\ status' = [p \in Proposals |-> IF p \in S THEN "failed" ELSE status[p]]
  /\ UNCHANGED <<base, current, submitted, active, reviewVars, approvalVars, authorized>>

--------------------------------------------------------------------------------
(* Manual revisions and their review.                                          *)

Written(p) == {n \in Numbers : review[p][n] # "absent"}

(* The state _creation_context asks of a request for revision n + 1 of p.      *)
Editable(p, n) ==
  /\ status[p] \in {"draft_ready", "pending_manual"}
  /\ active[p] = 0
  /\ current[p] = n
  /\ base[p] = version
  /\ n \in Written(p)
  /\ \A m \in Written(p) : m <= n
  /\ review[p][n] # "none"

Accepted(u) == [status |-> "accepted", attempts |-> 0, owner |-> NoWorker,
                lapsed |-> FALSE, author |-> u]

CreateManualRevision(u, p, n) ==
  /\ u \in authorized
  /\ Editable(p, n)
  /\ n < MaxRevisions
  /\ review' = [review EXCEPT ![p][n + 1] = "none"]
  /\ runs' = [runs EXCEPT ![p][n + 1] = Accepted(u)]
  /\ current' = [current EXCEPT ![p] = n + 1]
  /\ active' = [active EXCEPT ![p] = n + 1]
  /\ status' = [status EXCEPT ![p] = "pending_manual"]
  /\ UNCHANGED <<base, submitted, settled, approvalVars, authorized>>

(* The chain _exhaust_attempts and _terminal_rows insist on.                   *)
Chain(p, n) == current[p] = n /\ active[p] = n

LeaseExpired(run) == run.status = "processing" /\ run.lapsed

Owned(w, p, n) == /\ runs[p][n].status = "processing"
                  /\ runs[p][n].owner = w
                  /\ ~runs[p][n].lapsed

Leased(run, w) == [run EXCEPT !.status = "processing", !.attempts = @ + 1,
                              !.owner = w, !.lapsed = FALSE]

Ended(run, to) == [run EXCEPT !.status = to, !.owner = NoWorker, !.lapsed = FALSE]

LeaseLapses(p, n) ==
  /\ runs[p][n].status = "processing"
  /\ ~runs[p][n].lapsed
  /\ runs' = [runs EXCEPT ![p][n].lapsed = TRUE]
  /\ UNCHANGED <<proposalVars, review, settled, approvalVars, authorized>>

(* Mutant: no review is ever given up.                                         *)
ExhaustedNever == {}

(* _exhaust_attempts on the expired rows that no one else has locked. A row    *)
(* outside its chain raises, and rolls the whole claim back.                   *)
ExhaustedRun(run) == LeaseExpired(run) /\ run.attempts >= MaxAttempts

Exhausted == {x \in Proposals \X Numbers : ExhaustedRun(runs[x[1]][x[2]])}

SweptRuns(swept) ==
  [p \in Proposals |-> [n \in Numbers |->
     IF <<p, n>> \in swept THEN Ended(runs[p][n], "failed") ELSE runs[p][n]]]

(* Mutant: the sweep writes no audit event.                                    *)
SweptUnaudited(swept) == settled

SweptAudits(swept) ==
  [p \in Proposals |-> [n \in Numbers |->
     IF <<p, n>> \in swept THEN settled[p][n] + 1 ELSE settled[p][n]]]

SweptProposals(swept) == {p \in Proposals : \E n \in Numbers : <<p, n>> \in swept}

Sweep(swept) ==
  LET gone == SweptProposals(swept) IN
  /\ swept \subseteq Exhausted
  /\ \A x \in swept : Chain(x[1], x[2])
  /\ status' = [p \in Proposals |-> IF p \in gone THEN "failed" ELSE status[p]]
  /\ active' = [p \in Proposals |-> IF p \in gone THEN 0 ELSE active[p]]
  /\ settled' = SweptAudits(swept)
  /\ UNCHANGED <<base, current, submitted, review, approvalVars, authorized>>

(* Mutant: attempts are not limited.                                           *)
ClaimableAlways(run) == run.status = "accepted" \/ LeaseExpired(run)

Claimable(run) == /\ run.status = "accepted" \/ LeaseExpired(run)
                  /\ run.attempts < MaxAttempts

(* claim_next_manual_review_run                                                *)
Claim(w, p, n) ==
  /\ Claimable(runs[p][n])
  /\ \E swept \in SUBSET Exhausted :
       /\ Sweep(swept)
       /\ runs' = [SweptRuns(swept) EXCEPT ![p][n] = Leased(runs[p][n], w)]

ClaimNothing ==
  \E swept \in SUBSET Exhausted :
    /\ swept # {}
    /\ Sweep(swept)
    /\ runs' = SweptRuns(swept)

(* Mutant: the base version is not compared again once a review started.       *)
ContextReadyOnce(p, n) == Chain(p, n) /\ runs[p][n].author \in authorized

(* What _load_owned_manual_review_context asks beyond ownership, apart from    *)
(* facts and citations, which may be found invalid at any time.                *)
ContextReady(p, n) ==
  /\ Chain(p, n)
  /\ runs[p][n].author \in authorized
  /\ base[p] = version

EndRun(p, n, to) ==
  /\ runs' = [runs EXCEPT ![p][n] = Ended(@, to)]
  /\ settled' = [settled EXCEPT ![p][n] = @ + 1]

(* Mutant: the review fails, the proposal stays locked by it.                  *)
FailReviewOnly(w, p, n) ==
  /\ Owned(w, p, n)
  /\ EndRun(p, n, "failed")
  /\ UNCHANGED <<proposalVars, review, approvalVars, authorized>>

(* _fail_context: any owned transaction may end here, for a context that is no *)
(* longer ready, invalid facts, a replay conflict, a database or a checkpoint  *)
(* error.                                                                      *)
FailContext(w, p, n) ==
  /\ Owned(w, p, n)
  /\ EndRun(p, n, "failed")
  /\ IF active[p] = n
       THEN /\ status' = [status EXCEPT ![p] = "failed"]
            /\ active' = [active EXCEPT ![p] = 0]
       ELSE UNCHANGED <<status, active>>
  /\ UNCHANGED <<base, current, submitted, review, approvalVars, authorized>>

(* Mutant: the lease is not checked again when the answer is persisted.        *)
PersistUnfenced(w, p, n, verdict) ==
  /\ ContextReady(p, n)
  /\ review[p][n] = "none"
  /\ review' = [review EXCEPT ![p][n] = verdict]
  /\ UNCHANGED <<proposalVars, runs, settled, approvalVars, authorized>>

(* Mutant: a stored review is replaced.                                        *)
PersistAgain(w, p, n, verdict) ==
  /\ Owned(w, p, n)
  /\ ContextReady(p, n)
  /\ review' = [review EXCEPT ![p][n] = verdict]
  /\ UNCHANGED <<proposalVars, runs, settled, approvalVars, authorized>>

(* persist_manual_compliance_review: the review is written once. Finding one   *)
(* it answers "replayed" if it is the same, and fails the run otherwise.       *)
PersistReview(w, p, n, verdict) ==
  /\ Owned(w, p, n)
  /\ ContextReady(p, n)
  /\ review[p][n] = "none"
  /\ review' = [review EXCEPT ![p][n] = verdict]
  /\ UNCHANGED <<proposalVars, runs, settled, approvalVars, authorized>>

(* finalize_manual_review                                                      *)
FinalizeReview(w, p, n) ==
  /\ Owned(w, p, n)
  /\ ContextReady(p, n)
  /\ review[p][n] \in Verdicts
  /\ EndRun(p, n, "completed")
  /\ status' = [status EXCEPT ![p] = IF review[p][n] = "passed" THEN "draft_ready"
                                                                  ELSE "pending_manual"]
  /\ active' = [active EXCEPT ![p] = 0]
  /\ UNCHANGED <<base, current, submitted, review, approvalVars, authorized>>

--------------------------------------------------------------------------------
(* Submission and decision. In a handler u is the actor and n the revision the *)
(* request names. A request whose key is stored is answered by Replay below.   *)

Having(p, n, kinds) ==
  {i \in 1..Len(actions[p]) : actions[p][i].revision = n /\ actions[p][i].kind \in kinds}

Logged(p, kind, n, u) ==
  actions' = [actions EXCEPT ![p] = Append(@, [kind |-> kind, revision |-> n, actor |-> u])]

(* Mutant: the base version of the draft is not compared with the product.     *)
VersionsTrusted(p) == base[p] <= version

VersionsAgree(p) == base[p] = version

(* Mutant: any state can be submitted.                                         *)
SubmitAnytime(u, p, n) ==
  /\ u \in authorized
  /\ current[p] = n
  /\ active[p] = 0
  /\ VersionsAgree(p)
  /\ review[p][n] = "passed"
  /\ Logged(p, "submit", n, u)
  /\ status' = [status EXCEPT ![p] = "pending_approval"]
  /\ submitted' = [submitted EXCEPT ![p] = n]
  /\ UNCHANGED <<base, current, active, reviewVars, records, version, authorized>>

(* _first_write for submit.                                                    *)
Submit(u, p, n) ==
  /\ u \in authorized
  /\ status[p] = "draft_ready"
  /\ current[p] = n
  /\ active[p] = 0
  /\ VersionsAgree(p)
  /\ review[p][n] = "passed"
  /\ Logged(p, "submit", n, u)
  /\ status' = [status EXCEPT ![p] = "pending_approval"]
  /\ submitted' = [submitted EXCEPT ![p] = n]
  /\ UNCHANGED <<base, current, active, reviewVars, records, version, authorized>>

(* What every decision asks, in _first_write and _first_publish alike.         *)
Decidable(u, p, n) ==
  /\ u \in authorized \cap Approvers
  /\ Having(p, n, Decisions) = {}
  /\ status[p] = "pending_approval"
  /\ submitted[p] = n
  /\ current[p] = n
  /\ active[p] = 0
  /\ VersionsAgree(p)
  /\ review[p][n] = "passed"

(* _first_write for reject and request_changes.                                *)
Reject(u, p, n) ==
  /\ Decidable(u, p, n)
  /\ Having(p, n, {"submit"}) # {}
  /\ Logged(p, "reject", n, u)
  /\ status' = [status EXCEPT ![p] = "rejected"]
  /\ UNCHANGED <<base, current, submitted, active, reviewVars, records, version, authorized>>

(* Mutant: the revision sent back still counts as submitted.                   *)
RequestChangesKept(u, p, n) ==
  /\ Decidable(u, p, n)
  /\ Logged(p, "request_changes", n, u)
  /\ status' = [status EXCEPT ![p] = "pending_manual"]
  /\ UNCHANGED <<base, current, submitted, active, reviewVars, records, version, authorized>>

RequestChanges(u, p, n) ==
  /\ Decidable(u, p, n)
  /\ Having(p, n, {"submit"}) # {}
  /\ Logged(p, "request_changes", n, u)
  /\ status' = [status EXCEPT ![p] = "pending_manual"]
  /\ submitted' = [submitted EXCEPT ![p] = 0]
  /\ UNCHANGED <<base, current, active, reviewVars, records, version, authorized>>

(* approve_proposal: _publish_replay finds no record and no approval, then     *)
(* _first_publish changes the product and writes the record.                   *)
Approve(u, p, n) ==
  /\ records[p] = NoRecord
  /\ \A i \in 1..Len(actions[p]) : actions[p][i].kind # "approve"
  /\ Decidable(u, p, n)
  /\ version' = base[p] + 1
  /\ Logged(p, "approve", n, u)
  /\ records' = [records EXCEPT ![p] = [revision |-> n, action |-> Len(actions[p]) + 1,
                                        version |-> base[p] + 1]]
  /\ status' = [status EXCEPT ![p] = "completed"]
  /\ UNCHANGED <<base, current, submitted, active, reviewVars, authorized>>

Revoke(u) == /\ u \in authorized
             /\ authorized' = authorized \ {u}
             /\ UNCHANGED <<proposalVars, reviewVars, approvalVars>>

Restore(u) == /\ u \in Users \ authorized
              /\ authorized' = authorized \cup {u}
              /\ UNCHANGED <<proposalVars, reviewVars, approvalVars>>

--------------------------------------------------------------------------------
(* What a retried request is answered. i is the stored action its key names.   *)

(* _valid_publish_chain: the snapshot taken at publication, which holds the    *)
(* version, is compared with the product as it is now.                         *)
ValidPublishChain(p) ==
  LET n == records[p].revision IN
  /\ records[p] # NoRecord
  /\ records[p].version = base[p] + 1
  /\ records[p].version = version
  /\ status[p] = "completed"
  /\ current[p] = n /\ submitted[p] = n /\ active[p] = 0
  /\ Having(p, n, Decisions) = {records[p].action}

(* _legal_replay_state                                                         *)
LegalReplayState(p, i) ==
  LET a == actions[p][i]
      Decided(kind) == /\ Having(p, a.revision, Decisions) = Having(p, a.revision, {kind})
                       /\ Having(p, a.revision, {kind}) # {}
  IN /\ Having(p, a.revision, {"submit"}) # {}
     /\ \/ a.kind = "reject" /\ status[p] = "rejected" /\ submitted[p] = a.revision
        \/ a.kind = "request_changes" /\ status[p] = "pending_manual" /\ submitted[p] = 0
        \/ a.kind = "approve" /\ status[p] = "completed" /\ submitted[p] = a.revision
        \/ /\ a.kind = "submit"
           /\ \/ /\ status[p] = "pending_manual" /\ submitted[p] = 0
                 /\ Decided("request_changes")
              \/ /\ submitted[p] = a.revision
                 /\ \/ status[p] = "pending_approval" /\ Having(p, a.revision, Decisions) = {}
                    \/ status[p] = "rejected" /\ Decided("reject")
                    \/ status[p] = "completed" /\ ValidPublishChain(p)

(* _replay and _publish_replay give back the stored result, or else answer     *)
(* PROPOSAL_DATA_INCONSISTENT or PUBLISH_REPLAY_CONFLICT.                       *)
Replayed(p, i) ==
  IF actions[p][i].kind = "approve"
    THEN records[p].action = i /\ ValidPublishChain(p)
    ELSE LegalReplayState(p, i)

--------------------------------------------------------------------------------
TypeOK ==
  /\ version \in Nat
  /\ authorized \subseteq Users
  /\ status \in [Proposals -> Statuses]
  /\ base \in [Proposals -> Nat]
  /\ review \in [Proposals -> [Numbers -> Reviews]]
  /\ current \in [Proposals -> 0..MaxRevisions]
  /\ submitted \in [Proposals -> 0..MaxRevisions]
  /\ active \in [Proposals -> 0..MaxRevisions]
  /\ runs \in [Proposals -> [Numbers -> Run]]
  /\ settled \in [Proposals -> [Numbers -> Nat]]
  /\ actions \in [Proposals -> Seq(Action)]
  /\ records \in [Proposals -> Record]

Init ==
  /\ version = 1
  /\ authorized = Users
  /\ status = [p \in Proposals |-> "absent"]
  /\ base = [p \in Proposals |-> 0]
  /\ review = [p \in Proposals |-> [n \in Numbers |-> "absent"]]
  /\ current = [p \in Proposals |-> 0]
  /\ submitted = [p \in Proposals |-> 0]
  /\ active = [p \in Proposals |-> 0]
  /\ runs = [p \in Proposals |-> [n \in Numbers |-> AbsentRun]]
  /\ settled = [p \in Proposals |-> [n \in Numbers |-> 0]]
  /\ actions = [p \in Proposals |-> <<>>]
  /\ records = [p \in Proposals |-> NoRecord]

Optimize == \/ \E p \in Proposals : Select(p) \/ DraftReady(p) \/ Deferred(p)
            \/ \E S \in SUBSET Proposals : OptimizationsFail(S)

Operate(u, p, n) == CreateManualRevision(u, p, n) \/ Submit(u, p, n)

Decide(u, p, n) == Reject(u, p, n) \/ RequestChanges(u, p, n) \/ Approve(u, p, n)

Transact(w, p, n) == \/ FailContext(w, p, n)
                     \/ \E verdict \in Verdicts : PersistReview(w, p, n, verdict)
                     \/ FinalizeReview(w, p, n)

AfterOptimization ==
  \/ \E p \in Proposals, n \in Numbers :
       \/ \E u \in Users : Operate(u, p, n) \/ Decide(u, p, n)
       \/ \E w \in Workers : Claim(w, p, n) \/ Transact(w, p, n)
       \/ LeaseLapses(p, n)
  \/ ClaimNothing
  \/ \E u \in Users : Revoke(u) \/ Restore(u)

Next == Optimize \/ AfterOptimization

Spec == Init /\ [][Next]_vars

--------------------------------------------------------------------------------
(* Properties.                                                                 *)

(* A proposal has at most one manual review that is not over, and the active   *)
(* pointer names exactly that one: neither a finished, failed or exhausted     *)
(* review keeps the proposal locked, nor does a running one go unnoticed. The  *)
(* review is of the latest revision, of a proposal nobody can submit meanwhile.*)
OneActiveReviewOf(p) ==
  /\ \A n \in Numbers : Unfinished(runs[p][n]) <=> active[p] = n
  /\ active[p] # 0 => /\ status[p] = "pending_manual"
                      /\ submitted[p] = 0
                      /\ Chain(p, active[p])

OneActiveReview == \A p \in Proposals : OneActiveReviewOf(p)

(* Whatever waits for approval, is published or was rejected is the latest     *)
(* revision, the one submitted, under no review and reviewed as passed; and    *)
(* nothing else counts as submitted.                                           *)
SubmittedIsVettedOf(p) ==
  IF status[p] \in {"pending_approval", "completed", "rejected"}
    THEN /\ submitted[p] \in Written(p)
         /\ \A n \in Written(p) : n <= submitted[p]
         /\ submitted[p] = current[p]
         /\ active[p] = 0
         /\ review[p][submitted[p]] = "passed"
    ELSE submitted[p] = 0

SubmittedIsVetted == \A p \in Proposals : SubmittedIsVettedOf(p)

(* A revision is submitted once, decided at most once and only after it was    *)
(* submitted, whoever asks and with whichever keys; and the optimization run   *)
(* tells the last word of the log.                                             *)
DecidedOnceOf(p) ==
  LET log == actions[p] IN
  /\ \A n \in Numbers :
       /\ \A i, j \in Having(p, n, {"submit"}) : i = j
       /\ \A i, j \in Having(p, n, Decisions) : i = j
       /\ \A i \in Having(p, n, Decisions) : \E j \in Having(p, n, {"submit"}) : j < i
  /\ status[p] = "pending_approval" <=> /\ log # <<>>
                                        /\ log[Len(log)].kind = "submit"
  /\ \A i \in 1..Len(log) :
       /\ log[i].kind = "reject" <=> status[p] = "rejected" /\ i = Len(log)
       /\ log[i].kind = "approve" <=> status[p] = "completed" /\ i = Len(log)

DecidedOnce == \A p \in Proposals : DecidedOnceOf(p)

(* What a publish record says of its proposal.                                 *)
RecordOf(p) ==
  /\ records[p] # NoRecord <=> status[p] = "completed"
  /\ records[p] # NoRecord =>
       /\ records[p].version = base[p] + 1
       /\ records[p].revision = submitted[p]
       /\ records[p].action \in Having(p, submitted[p], {"approve"})
       /\ actions[p][records[p].action].actor \in Approvers

(* The product's versions are a chain of publications without a gap: each was  *)
(* made by exactly one proposal, drafted against the version before it, and    *)
(* approved by an approver on the revision that was submitted.                 *)
VersionsChain ==
  /\ \A v \in 2..version : \E p \in Proposals : records[p].version = v
  /\ \A p, q \in Proposals :
       records[p].version = records[q].version => p = q \/ records[p] = NoRecord
  /\ \A p \in Proposals : records[p].version <= version
  /\ \A p \in Proposals : RecordOf(p)

(* Each manual review ends with one terminal audit event, whether it is        *)
(* finalized, fails or runs out of attempts.                                   *)
OneReviewAuditOf(p) ==
  \A n \in Numbers : settled[p][n] = IF Finished(runs[p][n]) THEN 1 ELSE 0

OneReviewAudit == \A p \in Proposals : OneReviewAuditOf(p)

(* What makes these inductive. Nothing is attached to a proposal before its    *)
(* optimization ended.                                                         *)
NothingYet(p) ==
  status[p] \in {"absent", "optimizing"} =>
    current[p] = 0 /\ Written(p) = {} /\ actions[p] = <<>>

(* current_revision_id is the latest revision there is, and only revisions     *)
(* have a review run.                                                          *)
CurrentIsLatest(p) ==
  /\ current[p] # 0 => current[p] \in Written(p)
  /\ \A n \in Written(p) : n <= current[p]
  /\ \A n \in Numbers \ Written(p) : runs[p][n].status = "absent"

(* The log is about the revisions there are. The current one is submitted only *)
(* if it waits for a decision, has had one, or was sent back.                  *)
LogIsCurrent(p) ==
  /\ \A i \in 1..Len(actions[p]) : actions[p][i].revision <= current[p]
  /\ status[p] = "draft_ready" \/ active[p] # 0 => Having(p, current[p], {"submit"}) = {}
  /\ status[p] = "pending_approval" => actions[p][Len(actions[p])].revision = submitted[p]

ProposalInv(p) ==
  /\ OneActiveReviewOf(p) /\ SubmittedIsVettedOf(p) /\ DecidedOnceOf(p)
  /\ OneReviewAuditOf(p) /\ RecordOf(p)
  /\ NothingYet(p) /\ CurrentIsLatest(p) /\ LogIsCurrent(p)

IInv == TypeOK /\ VersionsChain /\ \A p \in Proposals : ProposalInv(p)

(* Once another proposal has moved the product on, a proposal drafted against  *)
(* the old version is not edited, passed, submitted, decided or published any  *)
(* more: the only thing left to it is to fail.                                 *)
StaleNeverAdvances ==
  [][\A p \in Proposals :
       status[p] # "absent" /\ base[p] # version =>
         /\ status'[p] \in {status[p], "failed"}
         /\ UNCHANGED <<actions[p], records[p], current[p], review[p]>>]_vars

(* Reviews, actions and publish records are written once: no retry, lost lease *)
(* or later transaction rewrites what was judged, decided or published.        *)
HistoryImmutable ==
  [][\A p \in Proposals :
       /\ \A n \in Numbers : review[p][n] \in Verdicts => review'[p][n] = review[p][n]
       /\ \A i \in 1..Len(actions[p]) : i <= Len(actions'[p]) /\ actions'[p][i] = actions[p][i]
       /\ records[p] # NoRecord => records'[p] = records[p]]_vars

Stage(p) == CASE status[p] = "draft_ready" -> "draft"
              [] status[p] = "pending_manual" -> IF active[p] = 0 THEN "changes" ELSE "reviewing"
              [] status[p] = "pending_approval" -> "submitted"
              [] status[p] = "completed" -> "published"
              [] OTHER -> status[p]

Stages == INSTANCE ProposalStages
            WITH stage <- [p \in Proposals |-> Stage(p)],
                 publishedAs <- [p \in Proposals |-> records[p].version]

(* The rows implement the stages of a proposal (design document of the manual  *)
(* review, section 4.1) and the product version they hang on.                  *)
ImplementsStages == Stages!Spec

(* "The same actor, resource, action, key and request are answered with the    *)
(* original result" (docs/interview-q-and-a.md, idempotency keys), for the     *)
(* submissions, rejections and requests for changes.                           *)
RetriesAnswered ==
  \A p \in Proposals : \A i \in 1..Len(actions[p]) :
    actions[p][i].kind # "approve" => Replayed(p, i)

(* "A repeated approval returns the same publish record" (design document of   *)
(* the manual review, decision 10).                                            *)
RepeatedApprovalAnswered ==
  \A p \in Proposals : \A i \in 1..Len(actions[p]) :
    actions[p][i].kind = "approve" => Replayed(p, i)

(* "draft_ready and pending_manual can be revised manually" (the same,         *)
(* decision 8): a proposal in these states that is up to date and under no     *)
(* review has a revision to build on.                                          *)
RevisableWhenOpen ==
  \A p \in Proposals :
    /\ status[p] \in {"draft_ready", "pending_manual"}
    /\ active[p] = 0
    /\ VersionsAgree(p)
    => \E n \in Numbers : Editable(p, n)

================================================================================
