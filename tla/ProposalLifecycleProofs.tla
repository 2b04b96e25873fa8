------------------------ MODULE ProposalLifecycleProofs -------------------------
(* Machine-checked proofs about ProposalLifecycle, for any proposals, users,   *)
(* approvers and workers, any number of revisions and any attempt limit.       *)
EXTENDS ProposalLifecycle, TLAPS

--------------------------------------------------------------------------------
(* Rows of review runs.                                                        *)

LEMMA ZeroIsNumber == 0 \in 0..MaxRevisions
BY LifecycleAssumption

LEMMA AbsentRunType == AbsentRun \in Run
BY LifecycleAssumption DEF AbsentRun, Run

LEMMA AcceptedType == ASSUME NEW u \in Users PROVE Accepted(u) \in Run
BY LifecycleAssumption DEF Accepted, Run

LEMMA EndedType ==
  ASSUME NEW run \in Run, NEW to \in {"completed", "failed"}
  PROVE  Ended(run, to) \in Run /\ Ended(run, to).status = to
BY DEF Ended, Run

LEMMA LeasedType ==
  ASSUME NEW run \in Run, NEW w \in Workers, Claimable(run)
  PROVE  Leased(run, w) \in Run /\ Leased(run, w).status = "processing" /\ Unfinished(run)
<1>1. run.attempts + 1 \in 0..MaxAttempts
  BY LifecycleAssumption DEF Run, Claimable
<1>2. Unfinished(run)
  BY DEF Claimable, LeaseExpired, Unfinished
<1>3. QED
  BY <1>1, <1>2 DEF Leased, Run

LEMMA LapsedType ==
  ASSUME NEW run \in Run
  PROVE  [run EXCEPT !.lapsed = TRUE] \in Run /\ [run EXCEPT !.lapsed = TRUE].status = run.status
BY DEF Run

LEMMA SweptType ==
  ASSUME TypeOK, NEW swept \in SUBSET Exhausted
  PROVE  /\ SweptRuns(swept) \in [Proposals -> [Numbers -> Run]]
         /\ SweptAudits(swept) \in [Proposals -> [Numbers -> Nat]]
BY EndedType DEF SweptRuns, SweptAudits, TypeOK

--------------------------------------------------------------------------------
(* Type correctness.                                                           *)

LEMMA InitTypeOK == Init => TypeOK
<1>1. NoRecord \in Record
  BY LifecycleAssumption DEF NoRecord, Record
<1>2. QED
  BY <1>1, AbsentRunType, LifecycleAssumption DEF Init, TypeOK, Statuses, Reviews

LEMMA SweepType ==
  ASSUME TypeOK, NEW swept \in SUBSET Exhausted, Sweep(swept),
         runs' \in [Proposals -> [Numbers -> Run]]
  PROVE  TypeOK'
<1>1. SweptAudits(swept) \in [Proposals -> [Numbers -> Nat]]
  BY SweptType
<1>2. status' \in [Proposals -> Statuses] /\ active' \in [Proposals -> 0..MaxRevisions]
  BY ZeroIsNumber DEF Sweep, TypeOK, Statuses
<1>3. QED
  BY <1>1, <1>2 DEF Sweep, TypeOK, approvalVars

LEMMA LoggedType ==
  ASSUME TypeOK, NEW p \in Proposals, NEW n \in Numbers, NEW u \in Users,
         NEW kind \in {"submit"} \cup Decisions, Logged(p, kind, n, u)
  PROVE  actions' \in [Proposals -> Seq(Action)]
<1>1. [kind |-> kind, revision |-> n, actor |-> u] \in Action
  BY DEF Action
<1>2. Append(actions[p], [kind |-> kind, revision |-> n, actor |-> u]) \in Seq(Action)
  BY <1>1 DEF TypeOK
<1>3. QED
  BY <1>2 DEF Logged, TypeOK

LEMMA OptimizeType == TypeOK /\ Optimize => TypeOK'
<1> SUFFICES ASSUME TypeOK, Optimize PROVE TypeOK'
  OBVIOUS
<1> USE DEF proposalVars, reviewVars, approvalVars
<1>1. ASSUME NEW p \in Proposals, Select(p) PROVE TypeOK'
  BY <1>1 DEF Select, TypeOK, Statuses
<1>2. ASSUME NEW p \in Proposals, DraftReady(p) PROVE TypeOK'
  BY <1>2, LifecycleAssumption
     DEF DraftReady, OptimizationEnds, AgentRevision, TypeOK, Statuses, Reviews, Verdicts, Numbers
<1>3. ASSUME NEW p \in Proposals, Deferred(p) PROVE TypeOK'
  <2>1. CASE UNCHANGED <<review, current>>
    BY <1>3, <2>1 DEF Deferred, OptimizationEnds, TypeOK, Statuses
  <2>2. ASSUME NEW verdict \in {"none", "changes", "degraded"}, AgentRevision(p, verdict)
        PROVE  TypeOK'
    BY <1>3, <2>2, LifecycleAssumption
       DEF Deferred, OptimizationEnds, AgentRevision, TypeOK, Statuses, Reviews, Verdicts, Numbers
  <2>3. QED
    BY <1>3, <2>1, <2>2 DEF Deferred
<1>4. ASSUME NEW S \in SUBSET Proposals, OptimizationsFail(S) PROVE TypeOK'
  BY <1>4 DEF OptimizationsFail, TypeOK, Statuses
<1>5. QED
  BY <1>1, <1>2, <1>3, <1>4 DEF Optimize

LEMMA AfterOptimizationType == TypeOK /\ AfterOptimization => TypeOK'
<1> SUFFICES ASSUME TypeOK, AfterOptimization PROVE TypeOK'
  OBVIOUS
<1> USE DEF proposalVars, reviewVars, approvalVars
<1>1. ASSUME NEW p \in Proposals, NEW n \in Numbers, NEW u \in Users,
             CreateManualRevision(u, p, n)
      PROVE  TypeOK'
  <2>1. n + 1 \in Numbers /\ Accepted(u) \in Run
    BY <1>1, AcceptedType, LifecycleAssumption DEF CreateManualRevision, Numbers
  <2>2. QED
    BY <1>1, <2>1 DEF CreateManualRevision, TypeOK, Statuses, Reviews, Numbers
<1>2. ASSUME NEW p \in Proposals, NEW n \in Numbers, NEW u \in Users, Submit(u, p, n)
      PROVE  TypeOK'
  <2>1. actions' \in [Proposals -> Seq(Action)]
    BY <1>2, LoggedType DEF Submit
  <2>2. QED
    BY <1>2, <2>1 DEF Submit, TypeOK, Statuses, Numbers
<1>3. ASSUME NEW p \in Proposals, NEW n \in Numbers, NEW u \in Users,
             Reject(u, p, n) \/ RequestChanges(u, p, n)
      PROVE  TypeOK'
  <2>1. actions' \in [Proposals -> Seq(Action)]
    BY <1>3, LoggedType DEF Reject, RequestChanges, Decisions
  <2>2. QED
    BY <1>3, <2>1, ZeroIsNumber DEF Reject, RequestChanges, TypeOK, Statuses
<1>4. ASSUME NEW p \in Proposals, NEW n \in Numbers, NEW u \in Users, Approve(u, p, n)
      PROVE  TypeOK'
  <2>1. actions' \in [Proposals -> Seq(Action)]
    BY <1>4, LoggedType DEF Approve, Decisions
  <2>2. base[p] + 1 \in Nat /\ Len(actions[p]) + 1 \in Nat
    BY DEF TypeOK
  <2>3. [revision |-> n, action |-> Len(actions[p]) + 1, version |-> base[p] + 1] \in Record
    BY <2>2 DEF Record, Numbers
  <2>4. QED
    BY <1>4, <2>1, <2>2, <2>3 DEF Approve, TypeOK, Statuses
<1>5. ASSUME NEW p \in Proposals, NEW n \in Numbers, NEW w \in Workers, Claim(w, p, n)
      PROVE  TypeOK'
  <2>1. PICK swept \in SUBSET Exhausted :
          Sweep(swept) /\ runs' = [SweptRuns(swept) EXCEPT ![p][n] = Leased(runs[p][n], w)]
    BY <1>5 DEF Claim
  <2>2. Leased(runs[p][n], w) \in Run
    BY <1>5, LeasedType DEF Claim, TypeOK
  <2>3. runs' \in [Proposals -> [Numbers -> Run]]
    BY <2>1, <2>2, SweptType
  <2>4. QED
    BY <2>1, <2>3, SweepType
<1>6. ASSUME ClaimNothing PROVE TypeOK'
  BY <1>6, SweptType, SweepType DEF ClaimNothing
<1>7. ASSUME NEW p \in Proposals, NEW n \in Numbers, NEW to \in {"completed", "failed"},
             EndRun(p, n, to)
      PROVE  runs' \in [Proposals -> [Numbers -> Run]] /\ settled' \in [Proposals -> [Numbers -> Nat]]
  <2>1. Ended(runs[p][n], to) \in Run
    BY EndedType DEF TypeOK
  <2>2. QED
    BY <1>7, <2>1 DEF EndRun, TypeOK
<1>8. ASSUME NEW p \in Proposals, NEW n \in Numbers, NEW w \in Workers, FailContext(w, p, n)
      PROVE  TypeOK'
  <2>1. status' \in [Proposals -> Statuses] /\ active' \in [Proposals -> 0..MaxRevisions]
    BY <1>8, ZeroIsNumber DEF FailContext, TypeOK, Statuses
  <2>2. QED
    BY <1>7, <1>8, <2>1 DEF FailContext, TypeOK
<1>9. ASSUME NEW p \in Proposals, NEW n \in Numbers, NEW w \in Workers, NEW verdict \in Verdicts,
             PersistReview(w, p, n, verdict)
      PROVE  TypeOK'
  BY <1>9 DEF PersistReview, TypeOK, Reviews
<1>10. ASSUME NEW p \in Proposals, NEW n \in Numbers, NEW w \in Workers, FinalizeReview(w, p, n)
       PROVE  TypeOK'
  BY <1>7, <1>10, ZeroIsNumber DEF FinalizeReview, TypeOK, Statuses
<1>11. ASSUME NEW p \in Proposals, NEW n \in Numbers, LeaseLapses(p, n) PROVE TypeOK'
  <2>1. [runs[p][n] EXCEPT !.lapsed = TRUE] \in Run
    BY LapsedType DEF TypeOK
  <2>2. QED
    BY <1>11, <2>1 DEF LeaseLapses, TypeOK
<1>12. ASSUME NEW u \in Users, Revoke(u) \/ Restore(u) PROVE TypeOK'
  BY <1>12 DEF Revoke, Restore, TypeOK
<1>13. QED
  BY <1>1, <1>2, <1>3, <1>4, <1>5, <1>6, <1>8, <1>9, <1>10, <1>11, <1>12
     DEF AfterOptimization, Operate, Decide, Transact

LEMMA NextTypeOK == TypeOK /\ [Next]_vars => TypeOK'
<1>1. TypeOK /\ UNCHANGED vars => TypeOK'
  BY DEF vars, proposalVars, reviewVars, approvalVars, TypeOK
<1>2. QED
  BY <1>1, OptimizeType, AfterOptimizationType DEF Next

(* Rows keep their types; attempt_count and revision_number stay within their  *)
(* limits (manual_review_runs.py:262, manual_reviews.py:391).                  *)
THEOREM TypeCorrect == Spec => []TypeOK
BY InitTypeOK, NextTypeOK, PTL DEF Spec

--------------------------------------------------------------------------------
(* What a step does to a proposal, row by row.                                 *)

RevisionsKept(p) == base'[p] = base[p] /\ current'[p] = current[p] /\ review'[p] = review[p]

StateKept(p) == status'[p] = status[p] /\ submitted'[p] = submitted[p] /\ active'[p] = active[p]

LogKept(p) == actions'[p] = actions[p] /\ records'[p] = records[p]

(* A lease may be taken or lapse.                                              *)
RunsKept(p) ==
  /\ settled'[p] = settled[p]
  /\ \A n \in Numbers : /\ runs'[p][n].status = "absent" <=> runs[p][n].status = "absent"
                        /\ Unfinished(runs'[p][n]) <=> Unfinished(runs[p][n])

RunEnds(p, n) ==
  /\ Unfinished(runs[p][n])
  /\ Finished(runs'[p][n])
  /\ settled'[p][n] = settled[p][n] + 1
  /\ \A m \in Numbers \ {n} : runs'[p][m] = runs[p][m] /\ settled'[p][m] = settled[p][m]

Quiet(p) == StateKept(p) /\ RevisionsKept(p) /\ RunsKept(p) /\ LogKept(p)

Selected(p) ==
  /\ status[p] = "absent" /\ status'[p] = "optimizing"
  /\ base'[p] = version /\ current'[p] = current[p] /\ review'[p] = review[p]
  /\ submitted'[p] = submitted[p] /\ active'[p] = active[p]
  /\ RunsKept(p) /\ LogKept(p)

Drafted(p) ==
  /\ status[p] = "optimizing" /\ status'[p] \in {"draft_ready", "pending_manual"}
  /\ base[p] = version /\ base'[p] = base[p]
  /\ submitted'[p] = submitted[p] /\ active'[p] = active[p]
  /\ \/ current'[p] = current[p] /\ review'[p] = review[p]
     \/ /\ current'[p] = 1
        /\ \E verdict \in Verdicts \cup {"none"} : review'[p] = [review[p] EXCEPT ![1] = verdict]
  /\ RunsKept(p) /\ LogKept(p)

GaveUp(p) ==
  /\ status'[p] = "failed" /\ active'[p] = 0 /\ submitted'[p] = submitted[p]
  /\ RevisionsKept(p) /\ LogKept(p)
  /\ \/ status[p] = "optimizing" /\ RunsKept(p)
     \/ active[p] \in Numbers /\ RunEnds(p, active[p])

Edited(p) ==
  /\ status[p] \in {"draft_ready", "pending_manual"} /\ status'[p] = "pending_manual"
  /\ base[p] = version /\ base'[p] = base[p]
  /\ active[p] = 0 /\ submitted'[p] = submitted[p] /\ LogKept(p)
  /\ current[p] \in Numbers /\ current[p] + 1 \in Numbers
  /\ current'[p] = current[p] + 1 /\ active'[p] = current[p] + 1
  /\ review'[p] = [review[p] EXCEPT ![current[p] + 1] = "none"]
  /\ runs'[p][current[p] + 1].status = "accepted" /\ settled'[p] = settled[p]
  /\ \A n \in Numbers \ {current[p] + 1} : runs'[p][n] = runs[p][n]

Judged(p) ==
  /\ base[p] = version
  /\ active[p] \in Numbers /\ review[p][active[p]] = "none"
  /\ \E verdict \in Verdicts : review'[p] = [review[p] EXCEPT ![active[p]] = verdict]
  /\ base'[p] = base[p] /\ current'[p] = current[p]
  /\ StateKept(p) /\ RunsKept(p) /\ LogKept(p)

Reviewed(p) ==
  /\ base[p] = version
  /\ active[p] \in Numbers /\ review[p][active[p]] \in Verdicts /\ RunEnds(p, active[p])
  /\ status'[p] \in {"draft_ready", "pending_manual"}
  /\ active'[p] = 0 /\ submitted'[p] = submitted[p]
  /\ RevisionsKept(p) /\ LogKept(p)

LogGrows(p, kind) ==
  \E u \in Users : actions'[p] = Append(actions[p], [kind |-> kind, revision |-> current[p], actor |-> u])

Submitted(p) ==
  /\ status[p] = "draft_ready" /\ status'[p] = "pending_approval"
  /\ base[p] = version /\ active[p] = 0 /\ active'[p] = 0
  /\ current[p] \in Numbers /\ review[p][current[p]] = "passed"
  /\ submitted'[p] = current[p] /\ LogGrows(p, "submit") /\ records'[p] = records[p]
  /\ RevisionsKept(p) /\ RunsKept(p)

(* What the log and the pointers look like when an approver decides.           *)
Open(p) ==
  /\ status[p] = "pending_approval" /\ base[p] = version
  /\ current[p] \in Numbers /\ submitted[p] = current[p]
  /\ Having(p, current[p], Decisions) = {}
  /\ active'[p] = active[p] /\ RevisionsKept(p) /\ RunsKept(p)

Rejected(p) ==
  /\ Open(p) /\ LogGrows(p, "reject") /\ records'[p] = records[p]
  /\ status'[p] = "rejected" /\ submitted'[p] = submitted[p]

SentBack(p) ==
  /\ Open(p) /\ LogGrows(p, "request_changes") /\ records'[p] = records[p]
  /\ status'[p] = "pending_manual" /\ submitted'[p] = 0

Published(p) ==
  /\ Open(p) /\ records[p] = NoRecord
  /\ \E u \in Approvers :
       actions'[p] = Append(actions[p], [kind |-> "approve", revision |-> current[p], actor |-> u])
  /\ records'[p] = [revision |-> current[p], action |-> Len(actions[p]) + 1,
                    version |-> base[p] + 1]
  /\ status'[p] = "completed" /\ submitted'[p] = submitted[p]

Moved(p) == \/ Selected(p) \/ Drafted(p) \/ Edited(p) \/ Judged(p) \/ Reviewed(p)
            \/ Submitted(p) \/ Rejected(p) \/ SentBack(p)

(* A step moves or publishes one proposal, or gives up any number of them.     *)
OneMoves == /\ version' = version
            /\ \E p \in Proposals : Moved(p) /\ \A q \in Proposals \ {p} : Quiet(q)

OnePublishes == \E p \in Proposals : /\ Published(p)
                                     /\ version' = version + 1
                                     /\ \A q \in Proposals \ {p} : Quiet(q)

SomeGiveUp == /\ version' = version
              /\ \E S \in SUBSET Proposals : /\ \A p \in S : GaveUp(p)
                                             /\ \A q \in Proposals \ S : Quiet(q)

LEMMA QuietSteps ==
  ASSUME TypeOK, UNCHANGED <<proposalVars, review, settled, approvalVars>>,
         \A p \in Proposals : RunsKept(p)
  PROVE  SomeGiveUp
<1>1. \A p \in Proposals : Quiet(p)
  BY DEF Quiet, StateKept, RevisionsKept, LogKept, proposalVars, approvalVars
<1>2. {} \in SUBSET Proposals
  OBVIOUS
<1>3. QED
  BY <1>1, <1>2 DEF SomeGiveUp, approvalVars

LEMMA OptimizeSteps == IInv /\ Optimize => OneMoves \/ SomeGiveUp
<1> SUFFICES ASSUME IInv, Optimize PROVE OneMoves \/ SomeGiveUp
  OBVIOUS
<1> TypeOK
  BY DEF IInv
<1> USE DEF proposalVars, reviewVars, approvalVars
<1>1. ASSUME NEW p \in Proposals, Select(p) PROVE OneMoves
  <2>1. Selected(p)
    BY <1>1 DEF Select, Selected, RunsKept, LogKept, TypeOK
  <2>2. \A q \in Proposals \ {p} : Quiet(q)
    BY <1>1 DEF Select, Quiet, StateKept, RevisionsKept, RunsKept, LogKept, TypeOK
  <2>3. QED
    BY <1>1, <2>1, <2>2 DEF OneMoves, Moved, Select
<1>2. ASSUME NEW p \in Proposals, DraftReady(p) \/ Deferred(p) PROVE OneMoves
  <2>1. /\ base[p] = version /\ status[p] = "optimizing"
        /\ status'[p] \in {"draft_ready", "pending_manual"}
        /\ UNCHANGED <<base, submitted, active, runs, settled, approvalVars>>
        /\ \A q \in Proposals \ {p} : status'[q] = status[q]
    BY <1>2 DEF DraftReady, Deferred, OptimizationEnds, TypeOK
  <2>2. \/ UNCHANGED <<review, current>>
        \/ \E verdict \in Verdicts \cup {"none"} : AgentRevision(p, verdict)
    BY <1>2 DEF DraftReady, Deferred, Verdicts
  <2>3. /\ \/ current'[p] = current[p] /\ review'[p] = review[p]
           \/ /\ current'[p] = 1
              /\ \E verdict \in Verdicts \cup {"none"} : review'[p] = [review[p] EXCEPT ![1] = verdict]
        /\ \A q \in Proposals \ {p} : current'[q] = current[q] /\ review'[q] = review[q]
    BY <2>2 DEF AgentRevision, TypeOK
  <2>4. Drafted(p)
    BY <2>1, <2>3 DEF Drafted, RunsKept, LogKept
  <2>5. \A q \in Proposals \ {p} : Quiet(q)
    BY <2>1, <2>3 DEF Quiet, StateKept, RevisionsKept, RunsKept, LogKept
  <2>6. QED
    BY <2>1, <2>4, <2>5 DEF OneMoves, Moved
<1>3. ASSUME NEW S \in SUBSET Proposals, OptimizationsFail(S) PROVE SomeGiveUp
  <2>1. ASSUME NEW p \in S PROVE GaveUp(p)
    <3>1. status[p] = "optimizing" /\ status'[p] = "failed"
      BY <1>3, <2>1 DEF OptimizationsFail
    <3>2. \A n \in Numbers : runs[p][n].status = "absent"
      BY <2>1, <3>1 DEF IInv, ProposalInv, NothingYet, CurrentIsLatest
    <3>3. active[p] \notin Numbers
      BY <2>1, <3>2 DEF IInv, ProposalInv, OneActiveReviewOf, Unfinished
    <3>4. active[p] = 0
      BY <2>1, <3>3, LifecycleAssumption DEF TypeOK, Numbers
    <3>5. QED
      BY <1>3, <3>1, <3>4 DEF OptimizationsFail, GaveUp, RevisionsKept, RunsKept, LogKept
  <2>2. \A q \in Proposals \ S : Quiet(q)
    BY <1>3 DEF OptimizationsFail, Quiet, StateKept, RevisionsKept, RunsKept, LogKept, TypeOK
  <2>3. QED
    BY <1>3, <2>1, <2>2 DEF OptimizationsFail, SomeGiveUp
<1>4. QED
  BY <1>1, <1>2, <1>3 DEF Optimize

(* Whose review is unfinished, is locked by it.                                *)
LEMMA UnfinishedIsActive ==
  ASSUME IInv, NEW p \in Proposals, NEW n \in Numbers
  PROVE  Unfinished(runs[p][n]) <=> active[p] = n
BY DEF IInv, ProposalInv, OneActiveReviewOf

LEMMA EndRunEnds ==
  ASSUME IInv, NEW p \in Proposals, NEW n \in Numbers, NEW to \in {"completed", "failed"},
         runs[p][n].status = "processing", EndRun(p, n, to)
  PROVE  /\ active[p] = n /\ RunEnds(p, n)
         /\ \A q \in Proposals \ {p} : runs'[q] = runs[q] /\ settled'[q] = settled[q]
<1> TypeOK
  BY DEF IInv
<1>1. Ended(runs[p][n], to).status = to
  BY EndedType DEF TypeOK
<1>2. /\ runs'[p][n].status = to /\ settled'[p][n] = settled[p][n] + 1
      /\ \A m \in Numbers \ {n} : runs'[p][m] = runs[p][m] /\ settled'[p][m] = settled[p][m]
      /\ \A q \in Proposals \ {p} : runs'[q] = runs[q] /\ settled'[q] = settled[q]
  BY <1>1 DEF EndRun, TypeOK
<1>3. QED
  BY <1>2, UnfinishedIsActive DEF RunEnds, Unfinished, Finished

LEMMA SweepSteps ==
  ASSUME IInv, NEW swept \in SUBSET Exhausted, Sweep(swept),
         \A p \in SweptProposals(swept), n \in Numbers :
            IF <<p, n>> \in swept THEN runs'[p][n] = Ended(runs[p][n], "failed")
                                  ELSE runs'[p][n] = runs[p][n],
         \A p \in Proposals \ SweptProposals(swept) : RunsKept(p)
  PROVE  SomeGiveUp
<1> TypeOK
  BY DEF IInv
<1> DEFINE gone == SweptProposals(swept)
<1>1. /\ UNCHANGED <<base, current, submitted, review, approvalVars>>
      /\ status' = [p \in Proposals |-> IF p \in gone THEN "failed" ELSE status[p]]
      /\ active' = [p \in Proposals |-> IF p \in gone THEN 0 ELSE active[p]]
      /\ settled' = SweptAudits(swept)
  BY DEF Sweep
<1>2. gone \in SUBSET Proposals
  BY DEF SweptProposals
<1>3. ASSUME NEW p \in gone PROVE GaveUp(p)
  <2>1. PICK n \in Numbers : <<p, n>> \in swept
    BY DEF SweptProposals
  <2>2. \A m \in Numbers : <<p, m>> \in swept => runs[p][m].status = "processing"
    BY <1>2 DEF Exhausted, ExhaustedRun, LeaseExpired
  <2>3. \A m \in Numbers : <<p, m>> \in swept => active[p] = m
    BY <1>2, <2>2, UnfinishedIsActive DEF Unfinished
  <2>4. /\ active[p] = n
        /\ \A m \in Numbers \ {n} : <<p, m>> \notin swept
    BY <2>1, <2>3
  <2>5. runs'[p][n].status = "failed"
    BY <1>2, <2>1, EndedType DEF TypeOK
  <2>6. /\ settled'[p][n] = settled[p][n] + 1
        /\ \A m \in Numbers \ {n} : runs'[p][m] = runs[p][m] /\ settled'[p][m] = settled[p][m]
    BY <1>1, <1>2, <2>1, <2>4 DEF SweptAudits
  <2>7. RunEnds(p, n)
    BY <2>1, <2>2, <2>5, <2>6 DEF RunEnds, Unfinished, Finished
  <2>8. QED
    BY <1>1, <1>2, <2>1, <2>4, <2>7 DEF GaveUp, RevisionsKept, LogKept, approvalVars
<1>4. ASSUME NEW p \in Proposals \ gone PROVE Quiet(p)
  BY <1>1 DEF Quiet, StateKept, RevisionsKept, LogKept, approvalVars
<1>5. version' = version
  BY <1>1 DEF approvalVars
<1>6. QED
  BY <1>2, <1>3, <1>4, <1>5 DEF SomeGiveUp

LEMMA ClaimSteps ==
  ASSUME IInv, NEW w \in Workers, NEW p \in Proposals, NEW n \in Numbers, Claim(w, p, n)
  PROVE  SomeGiveUp
<1> TypeOK
  BY DEF IInv
<1>1. PICK swept \in SUBSET Exhausted :
        Sweep(swept) /\ runs' = [SweptRuns(swept) EXCEPT ![p][n] = Leased(runs[p][n], w)]
  BY DEF Claim
<1>2. /\ Claimable(runs[p][n]) /\ Unfinished(runs[p][n])
      /\ Leased(runs[p][n], w).status = "processing"
  BY LeasedType DEF Claim, TypeOK
<1>3. runs[p][n].attempts < MaxAttempts /\ runs[p][n].attempts \in Nat /\ MaxAttempts \in Nat
  BY <1>2, LifecycleAssumption DEF Claimable, TypeOK, Run
<1>4. <<p, n>> \notin swept
  BY <1>3 DEF Exhausted, ExhaustedRun
<1>5. p \notin SweptProposals(swept)
  <2>1. SUFFICES ASSUME NEW m \in Numbers, <<p, m>> \in swept PROVE FALSE
    BY DEF SweptProposals
  <2>2. runs[p][m].status = "processing"
    BY <2>1 DEF Exhausted, ExhaustedRun, LeaseExpired
  <2>3. active[p] = m /\ active[p] = n
    BY <1>2, <2>2, UnfinishedIsActive DEF Unfinished
  <2>4. QED
    BY <1>4, <2>1, <2>3
<1>6. settled' = SweptAudits(swept)
  BY <1>1 DEF Sweep
<1>7. \A q \in Proposals, m \in Numbers :
        /\ <<q, m>> \in swept => runs'[q][m] = Ended(runs[q][m], "failed")
        /\ <<q, m>> \notin swept /\ <<q, m>> # <<p, n>> => runs'[q][m] = runs[q][m]
        /\ runs'[p][n] = Leased(runs[p][n], w)
  BY <1>1, <1>4 DEF SweptRuns
<1>8. \A q \in SweptProposals(swept), m \in Numbers :
         IF <<q, m>> \in swept THEN runs'[q][m] = Ended(runs[q][m], "failed")
                               ELSE runs'[q][m] = runs[q][m]
  BY <1>5, <1>7 DEF SweptProposals
<1>9. ASSUME NEW q \in Proposals \ SweptProposals(swept) PROVE RunsKept(q)
  <2>1. \A m \in Numbers : <<q, m>> \notin swept
    BY DEF SweptProposals
  <2>2. settled'[q] = settled[q]
    BY <1>6, <2>1 DEF SweptAudits, TypeOK
  <2>3. \A m \in Numbers : <<q, m>> # <<p, n>> => runs'[q][m] = runs[q][m]
    BY <1>7, <2>1
  <2>4. QED
    BY <1>2, <1>7, <2>2, <2>3 DEF RunsKept, Unfinished
<1>10. QED
  BY <1>1, <1>8, <1>9, SweepSteps

LEMMA ClaimNothingSteps == IInv /\ ClaimNothing => SomeGiveUp
<1> SUFFICES ASSUME IInv, ClaimNothing PROVE SomeGiveUp
  OBVIOUS
<1> TypeOK
  BY DEF IInv
<1>1. PICK swept \in SUBSET Exhausted : Sweep(swept) /\ runs' = SweptRuns(swept)
  BY DEF ClaimNothing
<1>2. \A q \in Proposals, m \in Numbers :
         IF <<q, m>> \in swept THEN runs'[q][m] = Ended(runs[q][m], "failed")
                               ELSE runs'[q][m] = runs[q][m]
  BY <1>1 DEF SweptRuns
<1>3. ASSUME NEW q \in Proposals \ SweptProposals(swept) PROVE RunsKept(q)
  <2>1. \A m \in Numbers : <<q, m>> \notin swept
    BY DEF SweptProposals
  <2>2. settled'[q] = settled[q]
    BY <1>1, <2>1 DEF Sweep, SweptAudits, TypeOK
  <2>3. QED
    BY <1>2, <2>1, <2>2 DEF RunsKept
<1>4. SweptProposals(swept) \subseteq Proposals
  BY DEF SweptProposals
<1>5. QED
  BY <1>1, <1>2, <1>3, <1>4, SweepSteps

LEMMA ReviewSteps ==
  ASSUME IInv, NEW w \in Workers, NEW p \in Proposals, NEW n \in Numbers, Transact(w, p, n)
  PROVE  OneMoves \/ SomeGiveUp
<1> TypeOK
  BY DEF IInv
<1> USE DEF proposalVars, approvalVars
<1>1. runs[p][n].status = "processing" /\ active[p] = n
  BY UnfinishedIsActive DEF Transact, FailContext, PersistReview, FinalizeReview, Owned, Unfinished
<1>2. CASE FailContext(w, p, n)
  <2>1. RunEnds(p, n) /\ \A q \in Proposals \ {p} : runs'[q] = runs[q] /\ settled'[q] = settled[q]
    BY <1>1, <1>2, EndRunEnds DEF FailContext
  <2>2. GaveUp(p)
    BY <1>1, <1>2, <2>1 DEF FailContext, GaveUp, RevisionsKept, LogKept, TypeOK
  <2>3. \A q \in Proposals \ {p} : Quiet(q)
    BY <1>1, <1>2, <2>1 DEF FailContext, Quiet, StateKept, RevisionsKept, RunsKept, LogKept, TypeOK
  <2>4. version' = version /\ {p} \in SUBSET Proposals
    BY <1>2 DEF FailContext
  <2>5. QED
    BY <2>2, <2>3, <2>4 DEF SomeGiveUp
<1>3. ASSUME NEW verdict \in Verdicts, PersistReview(w, p, n, verdict) PROVE OneMoves
  <2>1. review'[p] = [review[p] EXCEPT ![n] = verdict] /\ \A q \in Proposals \ {p} : review'[q] = review[q]
    BY <1>3 DEF PersistReview, TypeOK
  <2>2. Judged(p)
    BY <1>1, <1>3, <2>1 DEF PersistReview, ContextReady, Judged, StateKept, RunsKept, LogKept
  <2>3. \A q \in Proposals \ {p} : Quiet(q)
    BY <1>3, <2>1 DEF PersistReview, Quiet, StateKept, RevisionsKept, RunsKept, LogKept
  <2>4. QED
    BY <1>3, <2>2, <2>3 DEF PersistReview, OneMoves, Moved
<1>4. CASE FinalizeReview(w, p, n)
  <2>1. RunEnds(p, n) /\ \A q \in Proposals \ {p} : runs'[q] = runs[q] /\ settled'[q] = settled[q]
    BY <1>1, <1>4, EndRunEnds DEF FinalizeReview
  <2>2. Reviewed(p)
    BY <1>1, <1>4, <2>1
       DEF FinalizeReview, ContextReady, Reviewed, RevisionsKept, LogKept, TypeOK
  <2>3. \A q \in Proposals \ {p} : Quiet(q)
    BY <1>4, <2>1 DEF FinalizeReview, Quiet, StateKept, RevisionsKept, RunsKept, LogKept, TypeOK
  <2>4. QED
    BY <1>4, <2>2, <2>3 DEF FinalizeReview, OneMoves, Moved
<1>5. QED
  BY <1>2, <1>3, <1>4 DEF Transact

LEMMA OperateSteps ==
  ASSUME IInv, NEW u \in Users, NEW p \in Proposals, NEW n \in Numbers, Operate(u, p, n)
  PROVE  OneMoves
<1> TypeOK
  BY DEF IInv
<1> USE DEF proposalVars, reviewVars, approvalVars
<1>1. CASE CreateManualRevision(u, p, n)
  <2>1. n + 1 \in Numbers /\ Accepted(u).status = "accepted"
    BY <1>1, LifecycleAssumption DEF CreateManualRevision, Numbers, Accepted
  <2>2. /\ review'[p] = [review[p] EXCEPT ![n + 1] = "none"]
        /\ runs'[p][n + 1].status = "accepted"
        /\ \A m \in Numbers \ {n + 1} : runs'[p][m] = runs[p][m]
        /\ \A q \in Proposals \ {p} : review'[q] = review[q] /\ runs'[q] = runs[q]
    BY <1>1, <2>1 DEF CreateManualRevision, TypeOK
  <2>3. Edited(p)
    BY <1>1, <2>1, <2>2 DEF CreateManualRevision, Editable, Edited, LogKept, TypeOK
  <2>4. \A q \in Proposals \ {p} : Quiet(q)
    BY <1>1, <2>2
       DEF CreateManualRevision, Quiet, StateKept, RevisionsKept, RunsKept, LogKept, TypeOK
  <2>5. QED
    BY <1>1, <2>3, <2>4 DEF CreateManualRevision, OneMoves, Moved
<1>2. CASE Submit(u, p, n)
  <2>1. Submitted(p)
    BY <1>2 DEF Submit, VersionsAgree, Submitted, Logged, LogGrows, RevisionsKept, RunsKept, TypeOK
  <2>2. \A q \in Proposals \ {p} : Quiet(q)
    BY <1>2 DEF Submit, Logged, Quiet, StateKept, RevisionsKept, RunsKept, LogKept, TypeOK
  <2>3. QED
    BY <1>2, <2>1, <2>2 DEF Submit, OneMoves, Moved
<1>3. QED
  BY <1>1, <1>2 DEF Operate

LEMMA DecideSteps ==
  ASSUME IInv, NEW u \in Users, NEW p \in Proposals, NEW n \in Numbers, Decide(u, p, n)
  PROVE  OneMoves \/ OnePublishes
<1> TypeOK
  BY DEF IInv
<1> USE DEF proposalVars, reviewVars, approvalVars
<1>1. /\ u \in Approvers
      /\ status[p] = "pending_approval" /\ base[p] = version
      /\ current[p] = n /\ submitted[p] = n /\ Having(p, n, Decisions) = {}
      /\ UNCHANGED <<base, current, active, reviewVars>>
  BY DEF Decide, Reject, RequestChanges, Approve, Decidable, VersionsAgree
<1>2. Open(p)
  BY <1>1 DEF Open, RevisionsKept, RunsKept
<1>3. \A q \in Proposals \ {p} : Quiet(q)
  BY DEF Decide, Reject, RequestChanges, Approve, Logged, Quiet, StateKept, RevisionsKept, RunsKept,
         LogKept, TypeOK
<1>4. CASE Reject(u, p, n)
  <2>1. Rejected(p)
    BY <1>1, <1>2, <1>4 DEF Reject, Rejected, Logged, LogGrows, TypeOK
  <2>2. QED
    BY <1>3, <1>4, <2>1 DEF Reject, OneMoves, Moved
<1>5. CASE RequestChanges(u, p, n)
  <2>1. SentBack(p)
    BY <1>1, <1>2, <1>5 DEF RequestChanges, SentBack, Logged, LogGrows, TypeOK
  <2>2. QED
    BY <1>3, <1>5, <2>1 DEF RequestChanges, OneMoves, Moved
<1>6. CASE Approve(u, p, n)
  <2>1. Published(p)
    BY <1>1, <1>2, <1>6 DEF Approve, Published, Logged, TypeOK
  <2>2. version' = version + 1
    BY <1>1, <1>6 DEF Approve
  <2>3. QED
    BY <1>3, <2>1, <2>2 DEF OnePublishes
<1>7. QED
  BY <1>4, <1>5, <1>6 DEF Decide

LEMMA Steps == IInv /\ [Next]_vars => OneMoves \/ OnePublishes \/ SomeGiveUp
<1> SUFFICES ASSUME IInv, [Next]_vars PROVE OneMoves \/ OnePublishes \/ SomeGiveUp
  OBVIOUS
<1> TypeOK
  BY DEF IInv
<1>1. ASSUME NEW p \in Proposals, NEW n \in Numbers, LeaseLapses(p, n) PROVE SomeGiveUp
  <2>1. [runs[p][n] EXCEPT !.lapsed = TRUE].status = runs[p][n].status
    BY LapsedType DEF TypeOK
  <2>2. \A q \in Proposals : RunsKept(q)
    BY <1>1, <2>1 DEF LeaseLapses, RunsKept, Unfinished, TypeOK
  <2>3. QED
    BY <1>1, <2>2, QuietSteps DEF LeaseLapses
<1>2. ASSUME NEW u \in Users, Revoke(u) \/ Restore(u) PROVE SomeGiveUp
  <2>1. \A q \in Proposals : RunsKept(q)
    BY <1>2 DEF Revoke, Restore, RunsKept, reviewVars
  <2>2. QED
    BY <1>2, <2>1, QuietSteps DEF Revoke, Restore, reviewVars
<1>3. CASE UNCHANGED vars
  <2>1. \A q \in Proposals : RunsKept(q)
    BY <1>3 DEF vars, RunsKept, reviewVars
  <2>2. QED
    BY <1>3, <2>1, QuietSteps DEF vars, reviewVars
<1>4. CASE AfterOptimization
  BY <1>1, <1>2, <1>4, OperateSteps, DecideSteps, ClaimSteps, ClaimNothingSteps, ReviewSteps
     DEF AfterOptimization
<1>5. QED
  BY <1>3, <1>4, OptimizeSteps DEF Next

--------------------------------------------------------------------------------
(* The inductive invariant, proposal by proposal.                              *)

LEMMA LogGrowth ==
  ASSUME TypeOK, NEW p \in Proposals, NEW a \in Action, actions'[p] = Append(actions[p], a)
  PROVE  /\ Len(actions'[p]) = Len(actions[p]) + 1 /\ Len(actions[p]) \in Nat
         /\ actions'[p] # <<>>
         /\ actions'[p][Len(actions[p]) + 1] = a
         /\ \A i \in 1..Len(actions[p]) : actions'[p][i] = actions[p][i]
         /\ \A n, kinds : Having(p, n, kinds)' =
              Having(p, n, kinds) \cup
                (IF a.revision = n /\ a.kind \in kinds THEN {Len(actions[p]) + 1} ELSE {})
<1>1. actions[p] \in Seq(Action)
  BY DEF TypeOK
<1>2. /\ Len(actions'[p]) = Len(actions[p]) + 1 /\ Len(actions[p]) \in Nat
      /\ actions'[p] # <<>>
      /\ actions'[p][Len(actions[p]) + 1] = a
      /\ \A i \in 1..Len(actions[p]) : actions'[p][i] = actions[p][i]
  BY <1>1
<1>3. ASSUME NEW n, NEW kinds
      PROVE  Having(p, n, kinds)' = Having(p, n, kinds) \cup
                (IF a.revision = n /\ a.kind \in kinds THEN {Len(actions[p]) + 1} ELSE {})
  <2>1. 1..Len(actions'[p]) = 1..Len(actions[p]) \cup {Len(actions[p]) + 1}
    BY <1>2
  <2>2. QED
    BY <1>2, <2>1 DEF Having
<1>4. QED
  BY <1>2, <1>3

LEMMA LogSplits ==
  ASSUME TypeOK, NEW p \in Proposals, NEW a \in Action, actions'[p] = Append(actions[p], a),
         NEW n
  PROVE  /\ Having(p, n, {"submit"})' =
              IF a.kind = "submit" /\ a.revision = n
                THEN Having(p, n, {"submit"}) \cup {Len(actions[p]) + 1} ELSE Having(p, n, {"submit"})
         /\ Having(p, n, Decisions)' =
              IF a.kind # "submit" /\ a.revision = n
                THEN Having(p, n, Decisions) \cup {Len(actions[p]) + 1} ELSE Having(p, n, Decisions)
<1>1. a.kind \in Decisions <=> a.kind # "submit"
  BY DEF Action, Decisions
<1>2. Having(p, n, {"submit"})' = Having(p, n, {"submit"}) \cup
         (IF a.revision = n /\ a.kind \in {"submit"} THEN {Len(actions[p]) + 1} ELSE {})
  BY LogGrowth
<1>3. Having(p, n, Decisions)' = Having(p, n, Decisions) \cup
         (IF a.revision = n /\ a.kind \in Decisions THEN {Len(actions[p]) + 1} ELSE {})
  <2>1. /\ 1..Len(actions'[p]) = 1..Len(actions[p]) \cup {Len(actions[p]) + 1}
        /\ actions'[p][Len(actions[p]) + 1] = a
        /\ \A i \in 1..Len(actions[p]) : actions'[p][i] = actions[p][i]
    BY LogGrowth
  <2>2. QED
    BY <2>1 DEF Having, Decisions
<1>4. QED
  BY <1>1, <1>2, <1>3

LEMMA LogType ==
  ASSUME TypeOK, NEW p \in Proposals
  PROVE  Len(actions[p]) \in Nat /\ \A i \in 1..Len(actions[p]) : actions[p][i] \in Action
BY DEF TypeOK

LEMMA HavingKept ==
  ASSUME NEW p \in Proposals, actions'[p] = actions[p]
  PROVE  \A n, kinds : Having(p, n, kinds)' = Having(p, n, kinds)
BY DEF Having

LEMMA WrittenKept ==
  ASSUME NEW p \in Proposals, review'[p] = review[p]
  PROVE  Written(p)' = Written(p)
BY DEF Written

LEMMA WrittenGrows ==
  ASSUME TypeOK, NEW p \in Proposals, NEW n \in Numbers, NEW v \in Verdicts \cup {"none"},
         review'[p] = [review[p] EXCEPT ![n] = v]
  PROVE  /\ Written(p)' = Written(p) \cup {n}
         /\ review'[p][n] = v
         /\ \A m \in Numbers \ {n} : review'[p][m] = review[p][m]
<1>1. review'[p][n] = v /\ \A m \in Numbers \ {n} : review'[p][m] = review[p][m]
  BY DEF TypeOK
<1>2. v # "absent"
  BY DEF Verdicts
<1>3. QED
  BY <1>1, <1>2 DEF Written

LEMMA AuditKept ==
  ASSUME TypeOK, TypeOK', NEW p \in Proposals, OneReviewAuditOf(p), RunsKept(p)
  PROVE  OneReviewAuditOf(p)'
<1>1. \A n \in Numbers : /\ Finished(runs[p][n]) <=> runs[p][n].status # "absent" /\ ~Unfinished(runs[p][n])
                         /\ Finished(runs'[p][n]) <=> runs'[p][n].status # "absent" /\ ~Unfinished(runs'[p][n])
  BY DEF TypeOK, Run, Finished, Unfinished
<1>2. QED
  BY <1>1 DEF OneReviewAuditOf, RunsKept

LEMMA AuditEnds ==
  ASSUME NEW p \in Proposals, NEW n \in Numbers, OneReviewAuditOf(p), RunEnds(p, n)
  PROVE  OneReviewAuditOf(p)'
<1>1. ~Finished(runs[p][n])
  BY DEF RunEnds, Finished, Unfinished
<1>2. QED
  BY <1>1 DEF OneReviewAuditOf, RunEnds

(* A review that ends unlocks its proposal.                                    *)
LEMMA LockEnds ==
  ASSUME NEW p \in Proposals, OneActiveReviewOf(p), active[p] \in Numbers, RunEnds(p, active[p]),
         active'[p] = 0
  PROVE  OneActiveReviewOf(p)'
<1>1. \A n \in Numbers : ~Unfinished(runs'[p][n]) /\ n # 0
  BY DEF OneActiveReviewOf, RunEnds, Unfinished, Finished, Numbers
<1>2. QED
  BY <1>1 DEF OneActiveReviewOf

LEMMA NothingActive ==
  ASSUME TypeOK, NEW p \in Proposals, ProposalInv(p), status[p] \in {"absent", "optimizing"}
  PROVE  active[p] = 0 /\ submitted[p] = 0 /\ Len(actions[p]) = 0
<1>1. \A n \in Numbers : ~Unfinished(runs[p][n])
  BY DEF ProposalInv, NothingYet, CurrentIsLatest, Unfinished
<1>2. QED
  BY <1>1, LifecycleAssumption
     DEF ProposalInv, OneActiveReviewOf, NothingYet, SubmittedIsVettedOf, TypeOK, Numbers

LEMMA QuietInv ==
  ASSUME NEW p \in Proposals, ProposalInv(p), Quiet(p), TypeOK, TypeOK'
  PROVE  ProposalInv(p)'
<1> USE DEF Quiet, StateKept, RevisionsKept, RunsKept, LogKept, ProposalInv
<1>1. OneActiveReviewOf(p)'
  BY DEF OneActiveReviewOf, Chain
<1>2. SubmittedIsVettedOf(p)'
  BY WrittenKept DEF SubmittedIsVettedOf
<1>3. DecidedOnceOf(p)'
  BY HavingKept DEF DecidedOnceOf
<1>4. OneReviewAuditOf(p)'
  BY AuditKept
<1>5. RecordOf(p)'
  BY HavingKept DEF RecordOf
<1>6. NothingYet(p)' /\ CurrentIsLatest(p)'
  BY WrittenKept DEF NothingYet, CurrentIsLatest
<1>7. LogIsCurrent(p)'
  BY HavingKept DEF LogIsCurrent
<1>8. QED
  BY <1>1, <1>2, <1>3, <1>4, <1>5, <1>6, <1>7

LEMMA SelectedInv ==
  ASSUME NEW p \in Proposals, ProposalInv(p), Selected(p), TypeOK, TypeOK'
  PROVE  ProposalInv(p)'
<1> USE DEF Selected, RunsKept, LogKept, ProposalInv
<1>1. OneActiveReviewOf(p)'
  BY NothingActive DEF OneActiveReviewOf, Chain
<1>2. SubmittedIsVettedOf(p)'
  BY NothingActive DEF SubmittedIsVettedOf
<1>3. DecidedOnceOf(p)'
  BY HavingKept DEF DecidedOnceOf
<1>4. OneReviewAuditOf(p)'
  BY AuditKept
<1>5. RecordOf(p)'
  BY DEF RecordOf
<1>6. NothingYet(p)' /\ CurrentIsLatest(p)'
  BY WrittenKept DEF NothingYet, CurrentIsLatest
<1>7. LogIsCurrent(p)'
  BY NothingActive DEF LogIsCurrent
<1>8. QED
  BY <1>1, <1>2, <1>3, <1>4, <1>5, <1>6, <1>7

LEMMA DraftedInv ==
  ASSUME NEW p \in Proposals, ProposalInv(p), Drafted(p), TypeOK, TypeOK'
  PROVE  ProposalInv(p)'
<1> USE DEF Drafted, RunsKept, LogKept, ProposalInv
<1>1. OneActiveReviewOf(p)'
  BY NothingActive DEF OneActiveReviewOf
<1>2. SubmittedIsVettedOf(p)'
  BY NothingActive DEF SubmittedIsVettedOf
<1>3. DecidedOnceOf(p)'
  BY HavingKept DEF DecidedOnceOf
<1>4. OneReviewAuditOf(p)'
  BY AuditKept
<1>5. RecordOf(p)'
  BY DEF RecordOf
<1>6. NothingYet(p)'
  BY DEF NothingYet
<1>7. CurrentIsLatest(p)'
  <2>1. current[p] = 0 /\ Written(p) = {}
    BY DEF NothingYet
  <2>2. CASE current'[p] = current[p] /\ review'[p] = review[p]
    BY <2>1, <2>2, WrittenKept DEF CurrentIsLatest
  <2>3. CASE /\ current'[p] = 1
             /\ \E verdict \in Verdicts \cup {"none"} : review'[p] = [review[p] EXCEPT ![1] = verdict]
    <3>1. 1 \in Numbers
      BY LifecycleAssumption DEF Numbers
    <3>2. Written(p)' = {1}
      BY <2>1, <2>3, <3>1, WrittenGrows
    <3>3. QED
      BY <2>1, <2>3, <3>2 DEF CurrentIsLatest
  <2>4. QED
    BY <2>2, <2>3
<1>8. LogIsCurrent(p)'
  BY NothingActive DEF LogIsCurrent, Having
<1>9. QED
  BY <1>1, <1>2, <1>3, <1>4, <1>5, <1>6, <1>7, <1>8

LEMMA GaveUpInv ==
  ASSUME NEW p \in Proposals, ProposalInv(p), GaveUp(p), TypeOK, TypeOK'
  PROVE  ProposalInv(p)'
<1> USE DEF GaveUp, RevisionsKept, LogKept, ProposalInv
<1>1. OneActiveReviewOf(p)' /\ OneReviewAuditOf(p)'
  <2>1. CASE status[p] = "optimizing" /\ RunsKept(p)
    BY <2>1, AuditKept, NothingActive DEF OneActiveReviewOf, RunsKept
  <2>2. CASE active[p] \in Numbers /\ RunEnds(p, active[p])
    BY <2>2, LockEnds, AuditEnds
  <2>3. QED
    BY <2>1, <2>2
<1>2. status[p] \in {"optimizing", "pending_manual"} /\ submitted[p] = 0
  BY NothingActive DEF OneActiveReviewOf, Numbers
<1>3. SubmittedIsVettedOf(p)'
  BY <1>2 DEF SubmittedIsVettedOf
<1>4. DecidedOnceOf(p)'
  BY <1>2, HavingKept DEF DecidedOnceOf
<1>5. RecordOf(p)'
  BY <1>2 DEF RecordOf
<1>6. NothingYet(p)'
  BY DEF NothingYet
<1>7. CurrentIsLatest(p)'
  <2>1. \A n \in Numbers : runs[p][n].status = "absent" => runs'[p][n].status = "absent"
    BY DEF RunsKept, RunEnds, Unfinished
  <2>2. QED
    BY <2>1, WrittenKept DEF CurrentIsLatest
<1>8. LogIsCurrent(p)'
  BY DEF LogIsCurrent
<1>9. QED
  BY <1>1, <1>3, <1>4, <1>5, <1>6, <1>7, <1>8

LEMMA EditedInv ==
  ASSUME NEW p \in Proposals, ProposalInv(p), Edited(p), TypeOK, TypeOK'
  PROVE  ProposalInv(p)'
<1> USE DEF Edited, LogKept, ProposalInv
<1> PICK n \in Numbers : n = current[p] + 1
  OBVIOUS
<1>1. /\ n \in Numbers /\ n > current[p] /\ current[p] \in Nat /\ n # 0
      /\ n \notin Written(p)
      /\ runs[p][n].status = "absent"
  BY DEF CurrentIsLatest, TypeOK, Numbers
<1>2. Written(p)' = Written(p) \cup {n}
  BY <1>1, WrittenGrows
<1>3. OneActiveReviewOf(p)'
  <2>1. \A m \in Numbers : ~Unfinished(runs[p][m])
    BY DEF OneActiveReviewOf, Numbers
  <2>2. submitted[p] = 0
    BY DEF SubmittedIsVettedOf
  <2>3. QED
    BY <1>1, <2>1, <2>2 DEF OneActiveReviewOf, Chain, Unfinished
<1>4. SubmittedIsVettedOf(p)'
  BY DEF SubmittedIsVettedOf
<1>5. DecidedOnceOf(p)'
  BY HavingKept DEF DecidedOnceOf
<1>6. OneReviewAuditOf(p)'
  BY <1>1 DEF OneReviewAuditOf, Finished
<1>7. RecordOf(p)'
  BY DEF RecordOf
<1>8. NothingYet(p)'
  BY DEF NothingYet
<1>9. CurrentIsLatest(p)'
  <2>1. \A m \in Written(p) : m \in Nat /\ m <= n
    BY <1>1 DEF CurrentIsLatest, Written, Numbers
  <2>2. \A m \in Written(p)' : m <= n
    BY <1>1, <1>2, <2>1
  <2>3. \A m \in Numbers \ Written(p)' : runs'[p][m].status = "absent"
    BY <1>1, <1>2 DEF CurrentIsLatest
  <2>4. QED
    BY <1>1, <1>2, <2>2, <2>3 DEF CurrentIsLatest
<1>10. LogIsCurrent(p)'
  <2>1. \A i \in 1..Len(actions[p]) : actions[p][i].revision \in Nat /\ actions[p][i].revision < n
    BY <1>1, LogType DEF LogIsCurrent, Action, Numbers
  <2>2. Having(p, n, {"submit"})' = {}
    BY <1>1, <2>1, HavingKept DEF Having, Numbers
  <2>3. QED
    BY <1>1, <2>1, <2>2 DEF LogIsCurrent
<1>11. QED
  BY <1>3, <1>4, <1>5, <1>6, <1>7, <1>8, <1>9, <1>10

LEMMA JudgedInv ==
  ASSUME NEW p \in Proposals, ProposalInv(p), Judged(p), TypeOK, TypeOK'
  PROVE  ProposalInv(p)'
<1> USE DEF Judged, StateKept, RunsKept, LogKept, ProposalInv
<1>1. /\ status[p] = "pending_manual" /\ active[p] = current[p] /\ active[p] # 0
      /\ active[p] \in Written(p)
  BY DEF OneActiveReviewOf, Chain, CurrentIsLatest, Numbers
<1>2. Written(p)' = Written(p)
  <2>1. PICK verdict \in Verdicts : review'[p] = [review[p] EXCEPT ![active[p]] = verdict]
    OBVIOUS
  <2>2. Written(p)' = Written(p) \cup {active[p]}
    BY <2>1, WrittenGrows
  <2>3. QED
    BY <1>1, <2>2
<1>3. OneActiveReviewOf(p)'
  BY DEF OneActiveReviewOf, Chain
<1>4. SubmittedIsVettedOf(p)'
  BY <1>1 DEF SubmittedIsVettedOf
<1>5. DecidedOnceOf(p)'
  BY HavingKept DEF DecidedOnceOf
<1>6. OneReviewAuditOf(p)'
  BY AuditKept
<1>7. RecordOf(p)'
  BY HavingKept DEF RecordOf
<1>8. NothingYet(p)' /\ CurrentIsLatest(p)'
  BY <1>1, <1>2 DEF NothingYet, CurrentIsLatest
<1>9. LogIsCurrent(p)'
  BY HavingKept DEF LogIsCurrent
<1>10. QED
  BY <1>3, <1>4, <1>5, <1>6, <1>7, <1>8, <1>9

LEMMA ReviewedInv ==
  ASSUME NEW p \in Proposals, ProposalInv(p), Reviewed(p), TypeOK, TypeOK'
  PROVE  ProposalInv(p)'
<1> USE DEF Reviewed, RevisionsKept, LogKept, ProposalInv
<1>1. status[p] = "pending_manual" /\ active[p] # 0 /\ submitted[p] = 0
  BY DEF OneActiveReviewOf, Numbers
<1>2. OneActiveReviewOf(p)' /\ OneReviewAuditOf(p)'
  BY LockEnds, AuditEnds
<1>3. SubmittedIsVettedOf(p)'
  BY <1>1 DEF SubmittedIsVettedOf
<1>4. DecidedOnceOf(p)'
  BY <1>1, HavingKept DEF DecidedOnceOf
<1>5. RecordOf(p)'
  BY <1>1 DEF RecordOf
<1>6. NothingYet(p)'
  BY DEF NothingYet
<1>7. CurrentIsLatest(p)'
  <2>1. \A n \in Numbers : runs[p][n].status = "absent" => runs'[p][n].status = "absent"
    BY DEF RunEnds, Unfinished
  <2>2. QED
    BY <2>1, WrittenKept DEF CurrentIsLatest
<1>8. LogIsCurrent(p)'
  BY <1>1, HavingKept DEF LogIsCurrent
<1>9. QED
  BY <1>2, <1>3, <1>4, <1>5, <1>6, <1>7, <1>8

LEMMA SubmittedInv ==
  ASSUME NEW p \in Proposals, ProposalInv(p), Submitted(p), TypeOK, TypeOK'
  PROVE  ProposalInv(p)'
<1> USE DEF Submitted, RevisionsKept, RunsKept, ProposalInv
<1>1. PICK u \in Users : actions'[p] = Append(actions[p], [kind |-> "submit", revision |-> current[p], actor |-> u])
  BY DEF LogGrows
<1> DEFINE L == Len(actions[p])
<1> DEFINE a == [kind |-> "submit", revision |-> current[p], actor |-> u]
<1>2. a \in Action /\ a.kind = "submit" /\ a.revision = current[p] /\ current[p] \in Nat
  BY DEF Action, Numbers
<1> HIDE DEF a
<1>3. actions'[p] = Append(actions[p], a)
  BY <1>1 DEF a
<1>4. /\ Len(actions'[p]) = L + 1 /\ L \in Nat
      /\ actions'[p] # <<>> /\ actions'[p][L + 1] = a
      /\ \A i \in 1..L : actions'[p][i] = actions[p][i]
  BY <1>2, <1>3, LogGrowth
<1>5. \A n \in Numbers :
        /\ Having(p, n, {"submit"})' =
             (IF n = current[p] THEN Having(p, n, {"submit"}) \cup {L + 1} ELSE Having(p, n, {"submit"}))
        /\ Having(p, n, Decisions)' = Having(p, n, Decisions)
  BY <1>2, <1>3, LogSplits
<1>6. /\ Having(p, current[p], {"submit"}) = {}
      /\ \A i \in 1..L : actions[p][i].revision <= current[p]
      /\ \A i \in 1..L : actions[p][i].kind \notin {"reject", "approve"}
  BY DEF LogIsCurrent, DecidedOnceOf
<1> HIDE DEF L
<1>7. \A i \in 1..(L + 1) : i \in 1..L \/ i = L + 1
  BY <1>4
<1>8. OneActiveReviewOf(p)' /\ OneReviewAuditOf(p)'
  BY AuditKept DEF OneActiveReviewOf
<1>9. SubmittedIsVettedOf(p)'
  BY WrittenKept DEF SubmittedIsVettedOf, CurrentIsLatest, Numbers
<1>10. DecidedOnceOf(p)'
  <2>1. \A n \in Numbers :
          /\ \A i, j \in Having(p, n, {"submit"})' : i = j
          /\ \A i, j \in Having(p, n, Decisions)' : i = j
          /\ \A i \in Having(p, n, Decisions)' : \E j \in Having(p, n, {"submit"})' : j < i
    <3>1. SUFFICES ASSUME NEW n \in Numbers
                   PROVE  /\ \A i, j \in Having(p, n, {"submit"})' : i = j
                          /\ \A i, j \in Having(p, n, Decisions)' : i = j
                          /\ \A i \in Having(p, n, Decisions)' : \E j \in Having(p, n, {"submit"})' : j < i
      OBVIOUS
    <3>2. /\ \A i, j \in Having(p, n, {"submit"}) : i = j
          /\ \A i, j \in Having(p, n, Decisions) : i = j
          /\ \A i \in Having(p, n, Decisions) : \E j \in Having(p, n, {"submit"}) : j < i
      BY DEF DecidedOnceOf
    <3>3. QED
      BY <1>5, <1>6, <3>2
  <2>2. \A i \in 1..(L + 1) : actions'[p][i].kind \notin {"reject", "approve"}
    BY <1>2, <1>4, <1>6, <1>7
  <2>3. QED
    BY <1>2, <1>4, <2>1, <2>2 DEF DecidedOnceOf
<1>11. RecordOf(p)'
  BY DEF RecordOf
<1>12. NothingYet(p)' /\ CurrentIsLatest(p)'
  BY WrittenKept DEF NothingYet, CurrentIsLatest
<1>13. LogIsCurrent(p)'
  <2>1. \A i \in 1..(L + 1) : actions'[p][i].revision <= current[p]
    BY <1>2, <1>4, <1>6, <1>7
  <2>2. QED
    BY <1>2, <1>4, <2>1 DEF LogIsCurrent
<1>14. QED
  BY <1>8, <1>9, <1>10, <1>11, <1>12, <1>13

(* What the log tells once an approver decided.                                *)
LEMMA DecisionFacts ==
  ASSUME TypeOK, NEW p \in Proposals, ProposalInv(p), Open(p),
         NEW a \in Action, a.kind \in Decisions, a.revision = current[p],
         actions'[p] = Append(actions[p], a)
  PROVE  /\ Len(actions'[p]) = Len(actions[p]) + 1 /\ Len(actions[p]) \in Nat
         /\ actions'[p] # <<>>
         /\ actions'[p][Len(actions[p]) + 1] = a
         /\ \A n \in Numbers :
              /\ \A i, j \in Having(p, n, {"submit"})' : i = j
              /\ \A i, j \in Having(p, n, Decisions)' : i = j
              /\ \A i \in Having(p, n, Decisions)' : \E j \in Having(p, n, {"submit"})' : j < i
         /\ \A i \in 1..Len(actions[p]) : actions'[p][i].kind \notin {"reject", "approve"}
         /\ \A i \in 1..Len(actions'[p]) : actions'[p][i].revision <= current[p]
<1> USE DEF Open, ProposalInv
<1> DEFINE L == Len(actions[p])
<1>1. /\ Len(actions'[p]) = L + 1 /\ L \in Nat
      /\ actions'[p] # <<>> /\ actions'[p][L + 1] = a
      /\ \A i \in 1..L : actions'[p][i] = actions[p][i]
  BY LogGrowth
<1>2. L \in 1..L /\ L \in Having(p, current[p], {"submit"})
  <2>1. actions[p] # <<>> /\ actions[p][L].kind = "submit" /\ actions[p][L].revision = current[p]
    BY DEF DecidedOnceOf, LogIsCurrent
  <2>2. L \in 1..L
    BY <2>1 DEF TypeOK
  <2>3. QED
    BY <2>1, <2>2 DEF Having
<1>3. a.kind # "submit"
  BY DEF Decisions
<1>4. ASSUME NEW n \in Numbers
      PROVE  /\ Having(p, n, {"submit"})' = Having(p, n, {"submit"})
             /\ Having(p, n, Decisions)' = (IF n = current[p] THEN {L + 1} ELSE Having(p, n, Decisions))
  <2>1. n = current[p] => Having(p, n, Decisions) = {}
    OBVIOUS
  <2>2. QED
    BY <1>3, <2>1, LogSplits
<1>5. current[p] \in Nat /\ \A i \in 1..L : actions[p][i].revision <= current[p]
  BY DEF LogIsCurrent, Numbers
<1>6. \A i \in 1..L : actions[p][i].kind \notin {"reject", "approve"}
  BY DEF DecidedOnceOf
<1> HIDE DEF L
<1>8. \A i \in 1..(L + 1) : i \in 1..L \/ i = L + 1
  BY <1>1
<1>9. ASSUME NEW n \in Numbers
      PROVE  /\ \A i, j \in Having(p, n, {"submit"})' : i = j
             /\ \A i, j \in Having(p, n, Decisions)' : i = j
             /\ \A i \in Having(p, n, Decisions)' : \E j \in Having(p, n, {"submit"})' : j < i
  <2>1. /\ \A i, j \in Having(p, n, {"submit"}) : i = j
        /\ \A i, j \in Having(p, n, Decisions) : i = j
        /\ \A i \in Having(p, n, Decisions) : \E j \in Having(p, n, {"submit"}) : j < i
    BY DEF DecidedOnceOf
  <2>2. L < L + 1
    BY <1>1
  <2>3. QED
    BY <1>2, <1>4, <2>1, <2>2
<1>10. \A i \in 1..(L + 1) : actions'[p][i].revision <= current[p]
  BY <1>1, <1>5, <1>8
<1>11. \A i \in 1..L : actions'[p][i].kind \notin {"reject", "approve"}
  BY <1>1, <1>6
<1>12. QED
  BY <1>1, <1>9, <1>10, <1>11 DEF L

(* What a decision leaves as it is.                                            *)
LEMMA DecisionKeeps ==
  ASSUME TypeOK, TypeOK', NEW p \in Proposals, ProposalInv(p), Open(p),
         status'[p] \in {"rejected", "pending_manual", "completed"}
  PROVE  /\ OneActiveReviewOf(p)' /\ OneReviewAuditOf(p)'
         /\ NothingYet(p)' /\ CurrentIsLatest(p)'
         /\ active[p] = 0 /\ active'[p] = 0
         /\ submitted'[p] = submitted[p] /\ status'[p] # "pending_manual" => SubmittedIsVettedOf(p)'
<1> USE DEF Open, RevisionsKept, RunsKept, ProposalInv
<1>1. active[p] = 0
  BY DEF SubmittedIsVettedOf
<1>2. OneActiveReviewOf(p)' /\ OneReviewAuditOf(p)'
  BY <1>1, AuditKept DEF OneActiveReviewOf
<1>3. NothingYet(p)' /\ CurrentIsLatest(p)'
  BY WrittenKept DEF NothingYet, CurrentIsLatest
<1>4. submitted'[p] = submitted[p] /\ status'[p] # "pending_manual" => SubmittedIsVettedOf(p)'
  BY WrittenKept DEF SubmittedIsVettedOf
<1>5. QED
  BY <1>1, <1>2, <1>3, <1>4

(* The state a decision of that kind leaves keeps the log in order.            *)
LEMMA DecisionLogged ==
  ASSUME TypeOK, TypeOK', NEW p \in Proposals, ProposalInv(p), Open(p),
         NEW a \in Action, a.kind \in Decisions, a.revision = current[p],
         actions'[p] = Append(actions[p], a),
         \/ a.kind = "reject" /\ status'[p] = "rejected"
         \/ a.kind = "request_changes" /\ status'[p] = "pending_manual"
         \/ a.kind = "approve" /\ status'[p] = "completed"
  PROVE  DecidedOnceOf(p)' /\ LogIsCurrent(p)'
<1> DEFINE L == Len(actions[p])
<1>1. /\ Len(actions'[p]) = L + 1 /\ L \in Nat
      /\ actions'[p] # <<>>
      /\ actions'[p][L + 1] = a
      /\ \A n \in Numbers :
           /\ \A i, j \in Having(p, n, {"submit"})' : i = j
           /\ \A i, j \in Having(p, n, Decisions)' : i = j
           /\ \A i \in Having(p, n, Decisions)' : \E j \in Having(p, n, {"submit"})' : j < i
      /\ \A i \in 1..L : actions'[p][i].kind \notin {"reject", "approve"}
      /\ \A i \in 1..(L + 1) : actions'[p][i].revision <= current[p]
  BY DecisionFacts
<1> HIDE DEF L
<1>2. \A i \in 1..(L + 1) : i \in 1..L \/ i = L + 1
  BY <1>1
<1>3. \A i \in 1..L : i # L + 1
  BY <1>1
<1>4. active'[p] = 0 /\ current'[p] = current[p]
  BY DecisionKeeps DEF Open, RevisionsKept
<1>5. \A i \in 1..(L + 1) :
        /\ actions'[p][i].kind = "reject" <=> status'[p] = "rejected" /\ i = L + 1
        /\ actions'[p][i].kind = "approve" <=> status'[p] = "completed" /\ i = L + 1
  BY <1>1, <1>2, <1>3
<1>6. status'[p] # "pending_approval" /\ actions'[p][L + 1].kind # "submit"
  BY <1>1 DEF Decisions
<1>7. DecidedOnceOf(p)'
  BY <1>1, <1>5, <1>6 DEF DecidedOnceOf
<1>8. LogIsCurrent(p)'
  BY <1>1, <1>4, <1>6 DEF LogIsCurrent
<1>9. QED
  BY <1>7, <1>8

LEMMA RejectedInv ==
  ASSUME NEW p \in Proposals, ProposalInv(p), Rejected(p), TypeOK, TypeOK'
  PROVE  ProposalInv(p)'
<1> Open(p)
  BY DEF Rejected
<1>1. PICK u \in Users : actions'[p] = Append(actions[p], [kind |-> "reject", revision |-> current[p], actor |-> u])
  BY DEF Rejected, LogGrows
<1> DEFINE a == [kind |-> "reject", revision |-> current[p], actor |-> u]
<1>2. a \in Action /\ a.kind \in Decisions /\ a.kind = "reject" /\ a.revision = current[p]
  BY DEF Open, Action, Decisions
<1>3. actions'[p] = Append(actions[p], a) /\ status'[p] = "rejected"
  BY <1>1 DEF Rejected
<1> HIDE DEF a
<1>4. DecidedOnceOf(p)' /\ LogIsCurrent(p)'
  BY <1>2, <1>3, DecisionLogged
<1>5. RecordOf(p)'
  BY DEF Rejected, Open, ProposalInv, RecordOf
<1>6. QED
  BY <1>4, <1>5, DecisionKeeps DEF Rejected, ProposalInv

LEMMA SentBackInv ==
  ASSUME NEW p \in Proposals, ProposalInv(p), SentBack(p), TypeOK, TypeOK'
  PROVE  ProposalInv(p)'
<1> Open(p)
  BY DEF SentBack
<1>1. PICK u \in Users :
        actions'[p] = Append(actions[p], [kind |-> "request_changes", revision |-> current[p], actor |-> u])
  BY DEF SentBack, LogGrows
<1> DEFINE a == [kind |-> "request_changes", revision |-> current[p], actor |-> u]
<1>2. a \in Action /\ a.kind \in Decisions /\ a.kind = "request_changes" /\ a.revision = current[p]
  BY DEF Open, Action, Decisions
<1>3. actions'[p] = Append(actions[p], a) /\ status'[p] = "pending_manual"
  BY <1>1 DEF SentBack
<1> HIDE DEF a
<1>4. DecidedOnceOf(p)' /\ LogIsCurrent(p)'
  BY <1>2, <1>3, DecisionLogged
<1>5. RecordOf(p)' /\ SubmittedIsVettedOf(p)'
  BY DEF SentBack, Open, ProposalInv, RecordOf, SubmittedIsVettedOf
<1>6. QED
  BY <1>4, <1>5, DecisionKeeps DEF SentBack, ProposalInv

LEMMA PublishedInv ==
  ASSUME NEW p \in Proposals, ProposalInv(p), Published(p), TypeOK, TypeOK'
  PROVE  ProposalInv(p)'
<1> Open(p)
  BY DEF Published
<1>1. PICK u \in Approvers :
        actions'[p] = Append(actions[p], [kind |-> "approve", revision |-> current[p], actor |-> u])
  BY DEF Published
<1> DEFINE a == [kind |-> "approve", revision |-> current[p], actor |-> u]
<1>2. /\ a \in Action /\ a.kind \in Decisions /\ a.kind = "approve" /\ a.revision = current[p]
      /\ a.actor = u
  BY LifecycleAssumption DEF Open, Action, Decisions
<1>3. actions'[p] = Append(actions[p], a) /\ status'[p] = "completed"
  BY <1>1 DEF Published
<1> HIDE DEF a
<1>4. DecidedOnceOf(p)' /\ LogIsCurrent(p)'
  BY <1>2, <1>3, DecisionLogged
<1>5. RecordOf(p)'
  <2>1. /\ Len(actions'[p]) = Len(actions[p]) + 1 /\ Len(actions[p]) \in Nat
        /\ actions'[p][Len(actions[p]) + 1] = a
    BY <1>2, <1>3, DecisionFacts
  <2>2. records'[p] # NoRecord
    BY DEF Published, Open, NoRecord, Numbers
  <2>3. submitted'[p] = current[p] /\ base'[p] = base[p] /\ status'[p] = "completed"
    BY DEF Published, Open, RevisionsKept
  <2>4. /\ records'[p].action = Len(actions[p]) + 1 /\ records'[p].revision = current[p]
        /\ records'[p].version = base[p] + 1
    BY DEF Published
  <2>5. Len(actions[p]) + 1 \in 1..Len(actions'[p])
    BY <2>1
  <2>6. records'[p].action \in Having(p, submitted[p], {"approve"})'
    BY <1>2, <2>1, <2>3, <2>4, <2>5 DEF Having
  <2>7. QED
    BY <1>2, <2>1, <2>2, <2>3, <2>4, <2>6 DEF RecordOf
<1>6. QED
  BY <1>4, <1>5, DecisionKeeps DEF Published, ProposalInv

LEMMA MovedInv ==
  ASSUME NEW p \in Proposals, ProposalInv(p), Moved(p), TypeOK, TypeOK'
  PROVE  ProposalInv(p)'
BY SelectedInv, DraftedInv, EditedInv, JudgedInv, ReviewedInv, SubmittedInv, RejectedInv, SentBackInv
   DEF Moved

(* A proposal that has no record moves without getting one.                    *)
LEMMA MovedRecord ==
  ASSUME NEW p \in Proposals, Moved(p) \/ Quiet(p) \/ GaveUp(p)
  PROVE  records'[p] = records[p]
BY DEF Moved, Quiet, GaveUp, Selected, Drafted, Edited, Judged, Reviewed, Submitted, Rejected,
       SentBack, LogKept

LEMMA VersionsKept ==
  ASSUME VersionsChain, version' = version, \A p \in Proposals : records'[p] = records[p],
         \A p \in Proposals : RecordOf(p)'
  PROVE  VersionsChain'
BY DEF VersionsChain

LEMMA VersionsGrow ==
  ASSUME TypeOK, VersionsChain, NEW p \in Proposals, version' = version + 1, base[p] = version,
         records[p] = NoRecord, records'[p].version = base[p] + 1,
         \A q \in Proposals \ {p} : records'[q] = records[q],
         \A q \in Proposals : RecordOf(q)'
  PROVE  VersionsChain'
<1>1. version \in Nat /\ \A q \in Proposals : records[q].version \in Nat
  BY DEF TypeOK, Record
<1>2. \A q \in Proposals : records[q].version <= version
  BY DEF VersionsChain
<1>3. records'[p].version = version + 1 /\ records[p].version = 0
  BY DEF NoRecord
<1>4. \A v \in 2..(version + 1) : \E q \in Proposals : records'[q].version = v
  <2>1. SUFFICES ASSUME NEW v \in 2..(version + 1) PROVE \E q \in Proposals : records'[q].version = v
    OBVIOUS
  <2>2. CASE v = version + 1
    BY <1>3, <2>2
  <2>3. CASE v # version + 1
    <3>1. v \in 2..version /\ v # 0
      BY <1>1, <2>3
    <3>2. PICK q \in Proposals : records[q].version = v
      BY <3>1 DEF VersionsChain
    <3>3. q # p
      BY <1>3, <3>1, <3>2
    <3>4. QED
      BY <3>2, <3>3
  <2>4. QED
    BY <2>2, <2>3
<1>5. \A q, r \in Proposals :
         records'[q].version = records'[r].version => q = r \/ records'[q] = NoRecord
  <2>1. \A q \in Proposals \ {p} : records'[q].version # version + 1
    BY <1>1, <1>2
  <2>2. \A q, r \in Proposals \ {p} :
           records'[q].version = records'[r].version => q = r \/ records'[q] = NoRecord
    BY DEF VersionsChain
  <2>3. QED
    BY <1>3, <2>1, <2>2
<1>6. \A q \in Proposals : records'[q].version <= version + 1
  BY <1>1, <1>2, <1>3
<1>7. QED
  BY <1>4, <1>5, <1>6 DEF VersionsChain

LEMMA InitIInv == Init => IInv
<1> SUFFICES ASSUME Init PROVE IInv
  OBVIOUS
<1>1. TypeOK
  BY InitTypeOK
<1>2. ASSUME NEW p \in Proposals PROVE ProposalInv(p)
  <2>1. Written(p) = {} /\ actions[p] = <<>> /\ records[p] = NoRecord
    BY DEF Init, Written
  <2>2. \A n \in Numbers : runs[p][n].status = "absent" /\ settled[p][n] = 0
    BY DEF Init, AbsentRun
  <2>3. /\ status[p] = "absent" /\ current[p] = 0 /\ submitted[p] = 0 /\ active[p] = 0
        /\ Len(actions[p]) = 0
    BY <2>1 DEF Init
  <2>4. OneActiveReviewOf(p) /\ OneReviewAuditOf(p)
    BY <2>2, <2>3 DEF OneActiveReviewOf, OneReviewAuditOf, Unfinished, Finished, Numbers
  <2>5. DecidedOnceOf(p)
    BY <2>1, <2>3 DEF DecidedOnceOf, Having
  <2>6. QED
    BY <2>1, <2>2, <2>3, <2>4, <2>5
       DEF ProposalInv, SubmittedIsVettedOf, RecordOf, NothingYet, CurrentIsLatest, LogIsCurrent
<1>3. VersionsChain
  <2>1. version = 1 /\ \A p \in Proposals : records[p] = NoRecord
    BY DEF Init
  <2>2. \A p \in Proposals : RecordOf(p)
    BY <1>2 DEF ProposalInv
  <2>3. QED
    BY <2>1, <2>2 DEF VersionsChain, NoRecord
<1>4. QED
  BY <1>1, <1>2, <1>3 DEF IInv

LEMMA NextIInv == IInv /\ [Next]_vars => IInv'
<1> SUFFICES ASSUME IInv, [Next]_vars PROVE IInv'
  OBVIOUS
<1>1. TypeOK /\ TypeOK' /\ VersionsChain /\ \A p \in Proposals : ProposalInv(p)
  BY NextTypeOK DEF IInv
<1>2. CASE OneMoves
  <2>1. \A p \in Proposals : ProposalInv(p)'
    BY <1>1, <1>2, MovedInv, QuietInv DEF OneMoves
  <2>2. \A p \in Proposals : records'[p] = records[p]
    BY <1>2, MovedRecord DEF OneMoves
  <2>3. VersionsChain'
    BY <1>1, <1>2, <2>1, <2>2, VersionsKept DEF OneMoves, ProposalInv
  <2>4. QED
    BY <1>1, <2>1, <2>3 DEF IInv
<1>3. CASE OnePublishes
  <2>1. PICK p \in Proposals : /\ Published(p) /\ version' = version + 1
                               /\ \A q \in Proposals \ {p} : Quiet(q)
    BY <1>3 DEF OnePublishes
  <2>2. \A q \in Proposals : ProposalInv(q)'
    BY <1>1, <2>1, PublishedInv, QuietInv
  <2>3. VersionsChain'
    <3>1. \A q \in Proposals \ {p} : records'[q] = records[q]
      BY <2>1, MovedRecord
    <3>2. \A q \in Proposals : RecordOf(q)'
      BY <2>2 DEF ProposalInv
    <3>3. base[p] = version /\ records[p] = NoRecord /\ records'[p].version = base[p] + 1
      BY <2>1 DEF Published, Open
    <3>4. QED
      BY <1>1, <2>1, <3>1, <3>2, <3>3, VersionsGrow
  <2>4. QED
    BY <1>1, <2>2, <2>3 DEF IInv
<1>4. CASE SomeGiveUp
  <2>1. \A p \in Proposals : ProposalInv(p)'
    BY <1>1, <1>4, GaveUpInv, QuietInv DEF SomeGiveUp
  <2>2. \A p \in Proposals : records'[p] = records[p]
    BY <1>4, MovedRecord DEF SomeGiveUp
  <2>3. VersionsChain'
    BY <1>1, <1>4, <2>1, <2>2, VersionsKept DEF SomeGiveUp, ProposalInv
  <2>4. QED
    BY <1>1, <2>1, <2>3 DEF IInv
<1>5. QED
  BY <1>2, <1>3, <1>4, Steps

(* The strengthening that all transactions of a proposal preserve together:    *)
(* its rows agree with each other (manual_reviews.py, manual_review_runs.py,   *)
(* approvals.py) and with the product's versions.                              *)
THEOREM Invariance == Spec => []IInv
BY InitIInv, NextIInv, PTL DEF Spec

(* A proposal has at most one unfinished manual review, the one its active     *)
(* pointer names, of its latest revision (manual_review_runs.py).              *)
THEOREM OneActiveReviewHolds == Spec => []OneActiveReview
<1>1. IInv => OneActiveReview
  BY DEF IInv, ProposalInv, OneActiveReview
<1>2. QED
  BY <1>1, Invariance, PTL

(* What waits for approval, is published or was rejected is the latest         *)
(* revision and was reviewed as passed (approvals.py).                         *)
THEOREM SubmittedIsVettedHolds == Spec => []SubmittedIsVetted
<1>1. IInv => SubmittedIsVetted
  BY DEF IInv, ProposalInv, SubmittedIsVetted
<1>2. QED
  BY <1>1, Invariance, PTL

(* A revision is submitted once and decided at most once, after that           *)
(* (approvals.py, whichever actors and keys make the requests).                *)
THEOREM DecidedOnceHolds == Spec => []DecidedOnce
<1>1. IInv => DecidedOnce
  BY DEF IInv, ProposalInv, DecidedOnce
<1>2. QED
  BY <1>1, Invariance, PTL

(* The product's versions are a chain of publications without a gap            *)
(* (_first_publish in approvals.py).                                           *)
THEOREM VersionsChainHolds == Spec => []VersionsChain
<1>1. IInv => VersionsChain
  BY DEF IInv
<1>2. QED
  BY <1>1, Invariance, PTL

(* Each manual review ends with exactly one terminal audit event               *)
(* (manual_review_runs.py).                                                    *)
THEOREM OneReviewAuditHolds == Spec => []OneReviewAudit
<1>1. IInv => OneReviewAudit
  BY DEF IInv, ProposalInv, OneReviewAudit
<1>2. QED
  BY <1>1, Invariance, PTL

--------------------------------------------------------------------------------
(* What a step may never do.                                                   *)

StaleStays(p) ==
  status[p] # "absent" /\ base[p] # version =>
    /\ status'[p] \in {status[p], "failed"}
    /\ UNCHANGED <<actions[p], records[p], current[p], review[p]>>

LEMMA StaleMoved ==
  ASSUME NEW p \in Proposals, Moved(p) \/ Published(p) \/ GaveUp(p) \/ Quiet(p)
  PROVE  StaleStays(p)
BY DEF StaleStays, Moved, Published, Open, GaveUp, Quiet, Selected, Drafted, Edited, Judged, Reviewed,
       Submitted, Rejected, SentBack, StateKept, RevisionsKept, LogKept

(* A proposal drafted against an older version of the product can only fail    *)
(* (the version checks of every transaction on a proposal).                    *)
THEOREM StaleNeverAdvancesHolds == Spec => StaleNeverAdvances
<1>1. IInv /\ [Next]_vars => [\A p \in Proposals : StaleStays(p)]_vars
  BY Steps, StaleMoved DEF OneMoves, OnePublishes, SomeGiveUp
<1>2. QED
  BY <1>1, Invariance, PTL DEF Spec, StaleNeverAdvances, StaleStays

HistoryKept(p) ==
  /\ \A n \in Numbers : review[p][n] \in Verdicts => review'[p][n] = review[p][n]
  /\ \A i \in 1..Len(actions[p]) : i <= Len(actions'[p]) /\ actions'[p][i] = actions[p][i]
  /\ records[p] # NoRecord => records'[p] = records[p]

LEMMA LogPrefix ==
  ASSUME TypeOK, NEW p \in Proposals,
         actions'[p] = actions[p] \/ \E a \in Action : actions'[p] = Append(actions[p], a)
  PROVE  \A i \in 1..Len(actions[p]) : i <= Len(actions'[p]) /\ actions'[p][i] = actions[p][i]
<1>1. CASE actions'[p] = actions[p]
  BY <1>1, LogType
<1>2. ASSUME NEW a \in Action, actions'[p] = Append(actions[p], a)
      PROVE  \A i \in 1..Len(actions[p]) : i <= Len(actions'[p]) /\ actions'[p][i] = actions[p][i]
  BY <1>2, LogGrowth
<1>3. QED
  BY <1>1, <1>2

LEMMA MovedHistory ==
  ASSUME TypeOK, NEW p \in Proposals, ProposalInv(p),
         Moved(p) \/ Published(p) \/ GaveUp(p) \/ Quiet(p)
  PROVE  HistoryKept(p)
<1>1. records[p] # NoRecord => records'[p] = records[p]
  BY MovedRecord DEF Published
<1>2. actions'[p] = actions[p] \/ \E a \in Action : actions'[p] = Append(actions[p], a)
  <2>1. ASSUME NEW u \in Users, NEW kind \in {"submit"} \cup Decisions, current[p] \in Numbers
        PROVE  [kind |-> kind, revision |-> current[p], actor |-> u] \in Action
    BY <2>1 DEF Action
  <2>2. Submitted(p) \/ Rejected(p) \/ SentBack(p) =>
          \E u \in Users, kind \in {"submit"} \cup Decisions :
             /\ current[p] \in Numbers
             /\ actions'[p] = Append(actions[p], [kind |-> kind, revision |-> current[p], actor |-> u])
    BY DEF Submitted, Rejected, SentBack, Open, LogGrows, Decisions
  <2>3. Published(p) =>
          \E u \in Users, kind \in {"submit"} \cup Decisions :
             /\ current[p] \in Numbers
             /\ actions'[p] = Append(actions[p], [kind |-> kind, revision |-> current[p], actor |-> u])
    BY LifecycleAssumption DEF Published, Open, Decisions
  <2>4. Selected(p) \/ Drafted(p) \/ Edited(p) \/ Judged(p) \/ Reviewed(p) \/ GaveUp(p) \/ Quiet(p)
          => actions'[p] = actions[p]
    BY DEF Selected, Drafted, Edited, Judged, Reviewed, GaveUp, Quiet, LogKept
  <2>5. QED
    BY <2>1, <2>2, <2>3, <2>4 DEF Moved
<1>3. \A n \in Numbers : review[p][n] \in Verdicts => review'[p][n] = review[p][n]
  <2>1. CASE review'[p] = review[p]
    BY <2>1
  <2>2. CASE Drafted(p)
    <3>1. \A n \in Numbers : review[p][n] = "absent"
      BY <2>2 DEF Drafted, ProposalInv, NothingYet, Written
    <3>2. QED
      BY <3>1 DEF Verdicts
  <2>3. CASE Edited(p)
    <3>1. current[p] + 1 \in Numbers /\ current[p] + 1 \notin Written(p)
      BY <2>3 DEF Edited, ProposalInv, CurrentIsLatest, TypeOK, Numbers
    <3>2. PICK n \in Numbers : n = current[p] + 1
      BY <3>1
    <3>3. review'[p] = [review[p] EXCEPT ![n] = "none"] /\ review[p][n] = "absent"
      BY <2>3, <3>1, <3>2 DEF Edited, Written
    <3>4. QED
      BY <3>3, WrittenGrows DEF Verdicts
  <2>4. CASE Judged(p)
    <3>1. PICK verdict \in Verdicts : review'[p] = [review[p] EXCEPT ![active[p]] = verdict]
      BY <2>4 DEF Judged
    <3>2. active[p] \in Numbers /\ review[p][active[p]] = "none"
      BY <2>4 DEF Judged
    <3>3. QED
      BY <3>1, <3>2, WrittenGrows DEF Verdicts
  <2>5. QED
    BY <2>1, <2>2, <2>3, <2>4
       DEF Moved, Published, Open, GaveUp, Quiet, Selected, Reviewed, Submitted, Rejected, SentBack,
           RevisionsKept
<1>4. QED
  BY <1>1, <1>2, <1>3, LogPrefix DEF HistoryKept

(* What was judged, decided or published is never rewritten                    *)
(* (compliance_reviews, approval_actions and publish_records are append only). *)
THEOREM HistoryImmutableHolds == Spec => HistoryImmutable
<1>1. IInv /\ [Next]_vars => [\A p \in Proposals : HistoryKept(p)]_vars
  BY Steps, MovedHistory DEF IInv, OneMoves, OnePublishes, SomeGiveUp
<1>2. QED
  BY <1>1, Invariance, PTL DEF Spec, HistoryImmutable, HistoryKept

--------------------------------------------------------------------------------
(* The rows implement the stages.                                              *)

LEMMA StageKept == ASSUME NEW p \in Proposals, Quiet(p) \/ Judged(p) PROVE Stage(p)' = Stage(p)
BY DEF Quiet, Judged, StateKept, Stage

LEMMA StageGivenUp ==
  ASSUME TypeOK, NEW p \in Proposals, ProposalInv(p), GaveUp(p)
  PROVE  Stage(p) \in {"optimizing", "reviewing"} /\ Stage(p)' = "failed"
<1>1. status'[p] = "failed"
  BY DEF GaveUp
<1>2. CASE status[p] = "optimizing"
  BY <1>1, <1>2 DEF Stage
<1>3. CASE active[p] \in Numbers /\ RunEnds(p, active[p])
  <2>1. active[p] # 0 /\ status[p] = "pending_manual"
    BY <1>3 DEF ProposalInv, OneActiveReviewOf, Numbers
  <2>2. QED
    BY <1>1, <2>1 DEF Stage
<1>4. QED
  BY <1>2, <1>3 DEF GaveUp

LEMMA StageMoved ==
  ASSUME TypeOK, NEW p \in Proposals, ProposalInv(p), Moved(p)
  PROVE  \/ Stage(p)' = Stage(p)
         \/ Stage(p) = "absent" /\ Stage(p)' = "optimizing"
         \/ Stage(p) = "optimizing" /\ Stage(p)' \in {"draft", "changes"}
         \/ Stage(p) \in {"draft", "changes"} /\ Stage(p)' = "reviewing"
         \/ Stage(p) = "reviewing" /\ Stage(p)' \in {"draft", "changes"}
         \/ Stage(p) = "draft" /\ Stage(p)' = "submitted"
         \/ Stage(p) = "submitted" /\ Stage(p)' \in {"rejected", "changes"}
<1>1. ASSUME Selected(p) PROVE Stage(p) = "absent" /\ Stage(p)' = "optimizing"
  BY <1>1 DEF Selected, Stage
<1>2. ASSUME Drafted(p) PROVE Stage(p) = "optimizing" /\ Stage(p)' \in {"draft", "changes"}
  <2>1. active'[p] = 0
    BY <1>2, NothingActive DEF Drafted
  <2>2. QED
    BY <1>2, <2>1 DEF Drafted, Stage
<1>3. ASSUME Edited(p) PROVE Stage(p) \in {"draft", "changes"} /\ Stage(p)' = "reviewing"
  <2>1. active[p] = 0 /\ active'[p] # 0
    BY <1>3 DEF Edited, Numbers
  <2>2. QED
    BY <1>3, <2>1 DEF Edited, Stage
<1>4. ASSUME Judged(p) PROVE Stage(p)' = Stage(p)
  BY <1>4, StageKept
<1>5. ASSUME Reviewed(p) PROVE Stage(p) = "reviewing" /\ Stage(p)' \in {"draft", "changes"}
  <2>1. active[p] # 0 /\ status[p] = "pending_manual" /\ active'[p] = 0
    BY <1>5 DEF Reviewed, ProposalInv, OneActiveReviewOf, Numbers
  <2>2. QED
    BY <1>5, <2>1 DEF Reviewed, Stage
<1>6. ASSUME Submitted(p) PROVE Stage(p) = "draft" /\ Stage(p)' = "submitted"
  BY <1>6 DEF Submitted, Stage
<1>7. ASSUME Rejected(p) PROVE Stage(p) = "submitted" /\ Stage(p)' = "rejected"
  BY <1>7 DEF Rejected, Open, Stage
<1>8. ASSUME SentBack(p) PROVE Stage(p) = "submitted" /\ Stage(p)' = "changes"
  <2>1. active'[p] = 0
    BY <1>8 DEF SentBack, Open, ProposalInv, SubmittedIsVettedOf
  <2>2. QED
    BY <1>8, <2>1 DEF SentBack, Open, Stage
<1>9. QED
  BY <1>1, <1>2, <1>3, <1>4, <1>5, <1>6, <1>7, <1>8 DEF Moved

LEMMA RefinementInit == Init => Stages!Init
<1> SUFFICES ASSUME Init PROVE Stages!Init
  OBVIOUS
<1>1. \A p \in Proposals : Stage(p) = "absent" /\ records[p].version = 0
  BY DEF Init, Stage, NoRecord
<1>2. QED
  BY <1>1 DEF Init, Stages!Init

(* Every step of the rows is a step of the stages, or leaves them as they are. *)
LEMMA RefinementStep == IInv /\ [Next]_vars => [Stages!Next]_(Stages!vars)
<1> DEFINE st == [p \in Proposals |-> Stage(p)]
           st2 == [p \in Proposals |-> Stage(p)']
           published == [p \in Proposals |-> records[p].version]
           published2 == [p \in Proposals |-> records'[p].version]
<1> SUFFICES ASSUME IInv, [Next]_vars
             PROVE  Stages!Next \/ (st2 = st /\ published2 = published /\ version' = version)
  BY DEF Stages!vars
<1>1. TypeOK /\ \A p \in Proposals : ProposalInv(p)
  BY DEF IInv
<1>2. CASE OneMoves
  <2>1. PICK p \in Proposals : Moved(p) /\ \A q \in Proposals \ {p} : Quiet(q)
    BY <1>2 DEF OneMoves
  <2>2. version' = version /\ published2 = published
    BY <1>2, MovedRecord DEF OneMoves
  <2>3. \A q \in Proposals \ {p} : Stage(q)' = Stage(q)
    BY <2>1, StageKept
  <2>4. st2 = [st EXCEPT ![p] = st2[p]]
    BY <2>3
  <2>5. st[p] = Stage(p) /\ st2[p] = Stage(p)'
    OBVIOUS
  <2>6. ASSUME NEW from, NEW to, st[p] \in from, st2[p] = to
        PROVE  Stages!Step(p, from, to) /\ Stages!Quietly
    BY <2>2, <2>4, <2>6 DEF Stages!Step, Stages!Quietly
  <2> HIDE DEF st, st2
  <2>7. CASE st2[p] = st[p]
    <3>1. st2 = st
      BY <2>4, <2>7 DEF st
    <3>2. QED
      BY <2>2, <3>1
  <2>8. \/ st2[p] = st[p]
        \/ st[p] \in {"absent"} /\ st2[p] = "optimizing"
        \/ st[p] \in {"optimizing"} /\ st2[p] \in {"draft", "changes"}
        \/ st[p] \in {"draft", "changes"} /\ st2[p] = "reviewing"
        \/ st[p] \in {"reviewing"} /\ st2[p] \in {"draft", "changes"}
        \/ st[p] \in {"draft"} /\ st2[p] = "submitted"
        \/ st[p] \in {"submitted"} /\ st2[p] \in {"rejected", "changes"}
    BY <1>1, <2>1, <2>5, StageMoved
  <2>9. CASE st2[p] # st[p]
    <3>1. \/ Stages!Select(p) \/ Stages!Optimized(p) \/ Stages!Edit(p) \/ Stages!Reviewed(p)
          \/ Stages!Submit(p) \/ Stages!Return(p)
      BY <2>6, <2>8, <2>9 DEF Stages!Select, Stages!Optimized, Stages!Edit, Stages!Reviewed,
                              Stages!Submit, Stages!Return
    <3>2. QED
      BY <3>1 DEF Stages!Next
  <2>10. QED
    BY <2>7, <2>9
<1>3. CASE OnePublishes
  <2>1. PICK p \in Proposals : /\ Published(p) /\ version' = version + 1
                               /\ \A q \in Proposals \ {p} : Quiet(q)
    BY <1>3 DEF OnePublishes
  <2>2. Stage(p) = "submitted" /\ Stage(p)' = "published"
    BY <2>1 DEF Published, Open, Stage
  <2>3. \A q \in Proposals \ {p} : Stage(q)' = Stage(q) /\ records'[q] = records[q]
    BY <2>1, StageKept, MovedRecord
  <2>4. records'[p].version = version + 1
    BY <2>1 DEF Published, Open
  <2>5. Stages!Publish(p)
    BY <2>1, <2>2, <2>3, <2>4 DEF Stages!Publish, Stages!Step
  <2>6. QED
    BY <2>5 DEF Stages!Next
<1>4. CASE SomeGiveUp
  <2>1. PICK S \in SUBSET Proposals : /\ \A p \in S : GaveUp(p)
                                      /\ \A q \in Proposals \ S : Quiet(q)
    BY <1>4 DEF SomeGiveUp
  <2>2. version' = version /\ published2 = published
    BY <1>4, MovedRecord DEF SomeGiveUp
  <2>3. \A p \in S : Stage(p) \in {"optimizing", "reviewing"} /\ Stage(p)' = "failed"
    BY <1>1, <2>1, StageGivenUp
  <2>4. \A q \in Proposals \ S : Stage(q)' = Stage(q)
    BY <2>1, StageKept
  <2>5. Stages!GiveUp(S)
    BY <2>2, <2>3, <2>4 DEF Stages!GiveUp, Stages!Quietly
  <2>6. QED
    BY <2>5 DEF Stages!Next
<1>5. QED
  BY <1>2, <1>3, <1>4, Steps

(* The rows of proposals, revisions, reviews and approvals together implement  *)
(* the stages of a proposal and the product's version chain.                   *)
THEOREM Refinement == Spec => ImplementsStages
BY RefinementInit, RefinementStep, Invariance, PTL DEF Spec, ImplementsStages, Stages!Spec

================================================================================
