---------------------------- MODULE PlatformDelivery ---------------------------
(* The outbox of published listing versions and the workers that carry it to   *)
(* the commerce platform: platform_delivery_runs.py (the rows and their lease  *)
(* guarded transactions), platform_delivery_worker.py (one delivery attempt),  *)
(* platform_client.py (the HTTP exchange). The platform is external.           *)
(*                                                                             *)
(* One action is one database transaction, one request or one answer. Time is  *)
(* left to the environment: a lease lapses, and a retry falls due, at any time *)
(* after it was set. A worker may crash between any two of its steps.          *)
EXTENDS Integers, Sequences, Functions

CONSTANTS Products,      \* the products of one store
          MaxVersion,    \* bound on the published versions of a product
          Workers,       \* lease_owner of each worker process, host:pid
          NoWorker,
          NoDelivery,
          Approvers,     \* users recorded as PublishRecord.approved_by
          NoApprover,
          MaxAttempts    \* 3 in the code

ASSUME DeliveryAssumption ==
  /\ MaxVersion \in Nat
  /\ MaxAttempts \in Nat \ {0}
  /\ NoWorker \notin Workers
  /\ NoApprover \notin Approvers
  /\ NoDelivery \notin [product : Products, version : 1..MaxVersion]

(* A delivery is named by its immutable PublishRecord: the store's product and *)
(* published_product_version, unique for the product.                          *)
Deliveries == [product : Products, version : 1..MaxVersion]

(* Records of the same product with a smaller published version.               *)
Older(d) == {e \in Deliveries : e.product = d.product /\ e.version < d.version}

VARIABLES row,         \* the platform_deliveries table
          audits,      \* terminal audit events written per delivery
          worker,      \* the local state of each worker process
          authorized,  \* approvers whom publish_authorized accepts now
          effects,     \* platform: listing updates carried out, in order
          late         \* requests whose sender no longer waits, still on their way

vars == <<row, audits, worker, authorized, effects, late>>

--------------------------------------------------------------------------------
(* The rows.                                                                   *)

Statuses == {"absent", "pending", "processing", "succeeded", "failed"}

(* lapsed stands for lease_expires_at <= now(), due for next_attempt_at null   *)
(* or <= now().                                                                *)
Row == [status : Statuses, attempts : 0..MaxAttempts, owner : Workers \cup {NoWorker},
        lapsed : BOOLEAN, due : BOOLEAN, approver : Approvers \cup {NoApprover}]

AbsentRow == [status |-> "absent", attempts |-> 0, owner |-> NoWorker,
              lapsed |-> FALSE, due |-> FALSE, approver |-> NoApprover]

Terminal(r) == r.status \in {"succeeded", "failed"}

Unfinished(r) == r.status \in {"pending", "processing"}

(* Mutant: a row that is processing is taken over whether or not its lease ran *)
(* out.                                                                        *)
LeaseIgnored(r) == r.status = "processing"

LeaseExpired(r) == r.status = "processing" /\ r.lapsed

(* _owned_delivery: the row a transition may touch.                            *)
Owned(w, d) == /\ row[d].status = "processing"
               /\ row[d].owner = w
               /\ ~row[d].lapsed

(* publish_authorized: the approver is an active operations supervisor or an   *)
(* admin, the store is enabled and the approver is scoped to it.               *)
PublishAuthorized(d) == row[d].approver \in authorized

Released(r, status) ==
  [status |-> status, attempts |-> r.attempts, owner |-> NoWorker,
   lapsed |-> FALSE, due |-> FALSE, approver |-> r.approver]

MarkFailed(r) == Released(r, "failed")

(* Mutant: taking a lapsed row over counts for the lost attempt once more.     *)
LeasedTwice(r, w) ==
  [status |-> "processing", attempts |-> IF r.lapsed THEN r.attempts + 2 ELSE r.attempts + 1,
   owner |-> w, lapsed |-> FALSE, due |-> FALSE, approver |-> r.approver]

(* Mutant: a claim does not count as an attempt.                               *)
LeasedUncounted(r, w) ==
  [status |-> "processing", attempts |-> r.attempts, owner |-> w,
   lapsed |-> FALSE, due |-> FALSE, approver |-> r.approver]

Leased(r, w) ==
  [status |-> "processing", attempts |-> r.attempts + 1, owner |-> w,
   lapsed |-> FALSE, due |-> FALSE, approver |-> r.approver]

Enqueued(a) ==
  [status |-> "pending", attempts |-> 0, owner |-> NoWorker,
   lapsed |-> FALSE, due |-> TRUE, approver |-> a]

(* approvals._first_publish adds the row, in the approval's own transaction.   *)
(* It locks the product and raises its version by one, so the records of a     *)
(* product appear in version order.                                            *)
Enqueue(d) ==
  /\ row[d].status = "absent"
  /\ \A e \in Older(d) : row[e].status # "absent"
  /\ \E a \in authorized : row' = [row EXCEPT ![d] = Enqueued(a)]
  /\ UNCHANGED <<audits, worker, authorized, effects, late>>

LeaseLapses(d) ==
  /\ row[d].status = "processing"
  /\ ~row[d].lapsed
  /\ row' = [row EXCEPT ![d].lapsed = TRUE]
  /\ UNCHANGED <<audits, worker, authorized, effects, late>>

RetryFallsDue(d) ==
  /\ row[d].status = "pending"
  /\ ~row[d].due
  /\ row' = [row EXCEPT ![d].due = TRUE]
  /\ UNCHANGED <<audits, worker, authorized, effects, late>>

(* An administrator demotes, disables, moves or re-scopes an approver, or      *)
(* disables the store; and may undo it.                                        *)
Revoke(a) == /\ a \in authorized
             /\ authorized' = authorized \ {a}
             /\ UNCHANGED <<row, audits, worker, effects, late>>

Restore(a) == /\ a \in Approvers \ authorized
              /\ authorized' = authorized \cup {a}
              /\ UNCHANGED <<row, audits, worker, effects, late>>

--------------------------------------------------------------------------------
(* claim_next_platform_delivery. Rows locked by another transaction are        *)
(* skipped (SKIP LOCKED), which also makes the order of creation only a        *)
(* preference: which ready row is taken is left open.                          *)

Exhausted(r) == LeaseExpired(r) /\ r.attempts >= MaxAttempts

(* Mutant: there is no sweep.                                                  *)
SweptNever(skipped) == {}

Swept(skipped) == {d \in Deliveries \ skipped : Exhausted(row[d])}

SweptRow(swept) ==
  [d \in Deliveries |-> IF d \in swept THEN MarkFailed(row[d]) ELSE row[d]]

(* Mutant: the sweep fails deliveries without an audit event.                  *)
SweptUnaudited(swept) == audits

SweptAudits(swept) ==
  [d \in Deliveries |-> IF d \in swept THEN audits[d] + 1 ELSE audits[d]]

Eligible(r) == /\ \/ r.status = "pending" /\ r.due
                  \/ LeaseExpired(r)
               /\ r.attempts < MaxAttempts

(* Mutant: only waiting predecessors count, not the ones being worked on.      *)
HasWaitingPredecessor(rows, d) == \E e \in Older(d) : rows[e].status = "pending"

HasPredecessor(rows, d) == \E e \in Older(d) : Unfinished(rows[e])

Ready(rows, skipped) ==
  {d \in Deliveries \ skipped : Eligible(rows[d]) /\ ~HasPredecessor(rows, d)}

IdleWorker == [pc |-> "idle", job |-> NoDelivery, attempt |-> 0, renewed |-> FALSE,
               outcome |-> "none"]

Loading(d, attempt) == [pc |-> "load", job |-> d, attempt |-> attempt, renewed |-> FALSE,
                        outcome |-> "none"]

DownWorker == [IdleWorker EXCEPT !.pc = "down"]

Claim(w) ==
  /\ worker[w].pc = "idle"
  /\ \E skipped \in SUBSET Deliveries :
       LET swept == Swept(skipped)
           rows == SweptRow(swept)
       IN \E d \in Ready(rows, skipped) :
            /\ row' = [rows EXCEPT ![d] = Leased(rows[d], w)]
            /\ audits' = SweptAudits(swept)
            /\ worker' = [worker EXCEPT ![w] = Loading(d, row[d].attempts + 1)]
  /\ UNCHANGED <<authorized, effects, late>>

(* Nothing to deliver, but exhausted rows are settled and committed.           *)
ClaimNothing(w) ==
  /\ worker[w].pc = "idle"
  /\ \E skipped \in SUBSET Deliveries :
       LET swept == Swept(skipped)
       IN /\ swept # {}
          /\ Ready(SweptRow(swept), skipped) = {}
          /\ row' = SweptRow(swept)
          /\ audits' = SweptAudits(swept)
  /\ UNCHANGED <<worker, authorized, effects, late>>

--------------------------------------------------------------------------------
(* One delivery attempt: platform_delivery_worker.run_once after the claim,    *)
(* and CommercePlatformClient.publish_listing inside it. No step of it looks   *)
(* at the lease before the transition that ends it.                            *)

PCs == {"idle", "load", "token", "request", "send", "waiting", "report", "down"}

Outcomes == {"none", "ok", "retryable", "fatal"}

Worker == [pc : PCs, job : Deliveries \cup {NoDelivery}, attempt : 0..MaxAttempts,
           renewed : BOOLEAN, outcome : Outcomes]

Concluded(w, outcome) ==
  worker' = [worker EXCEPT ![w].pc = "report", ![w].outcome = outcome]

GoTo(w, pc) == worker' = [worker EXCEPT ![w].pc = pc]

(* _load_publish_request: the approver is checked in a transaction of its own. *)
(* A refusal ends the attempt for good, and so does any unexpected exception,  *)
(* such as a lost database connection.                                         *)
Load(w) ==
  /\ worker[w].pc = "load"
  /\ \/ PublishAuthorized(worker[w].job) /\ GoTo(w, "token")
     \/ Concluded(w, "fatal")
  /\ UNCHANGED <<row, audits, authorized, effects, late>>

(* The request is validated and a bearer token is at hand or is fetched. Each  *)
(* of these can fail: an invalid payload, refused credentials or a malformed   *)
(* token answer for good; a timeout, 429 or 5xx of the token endpoint not.     *)
ObtainToken(w) ==
  /\ worker[w].pc = "token"
  /\ GoTo(w, "request") \/ Concluded(w, "retryable") \/ Concluded(w, "fatal")
  /\ UNCHANGED <<row, audits, authorized, effects, late>>

(* Mutant: the repeated request after a token renewal is not checked again.    *)
AuthorizeFirst(w) ==
  /\ worker[w].pc = "request"
  /\ \/ (worker[w].renewed \/ PublishAuthorized(worker[w].job)) /\ GoTo(w, "send")
     \/ Concluded(w, "fatal")
  /\ UNCHANGED <<row, audits, authorized, effects, late>>

(* before_http_attempt: authorize_publish loads the request and checks the     *)
(* approver once more, in a session of its own that is closed afterwards.      *)
Authorize(w) ==
  /\ worker[w].pc = "request"
  /\ \/ PublishAuthorized(worker[w].job) /\ GoTo(w, "send")
     \/ Concluded(w, "fatal")
  /\ UNCHANGED <<row, audits, authorized, effects, late>>

(* The PUT leaves. Nothing holds the authority between the check and this step.*)
SendRequest(w) ==
  /\ worker[w].pc = "send"
  /\ GoTo(w, "waiting")
  /\ UNCHANGED <<row, audits, authorized, effects, late>>

(* The platform keeps one operation per Idempotency-Key, and a delivery always *)
(* sends the same one (publish_idempotency_hash).                              *)
CarriedOut(d) == IF d \in Range(effects) THEN effects ELSE Append(effects, d)

(* The listing is updated and the operation id comes back.                     *)
Accepted(w) ==
  /\ worker[w].pc = "waiting"
  /\ effects' = CarriedOut(worker[w].job)
  /\ Concluded(w, "ok")
  /\ UNCHANGED <<row, audits, authorized, late>>

(* The listing is updated but the answer is cut off (retryable), or cannot be  *)
(* read (PLATFORM_RESPONSE_INVALID, not retryable).                            *)
AcceptedUnread(w) ==
  /\ worker[w].pc = "waiting"
  /\ effects' = CarriedOut(worker[w].job)
  /\ Concluded(w, "retryable") \/ Concluded(w, "fatal")
  /\ UNCHANGED <<row, audits, authorized, late>>

(* 401: the token is renewed once and the PUT repeated, after the approver was *)
(* checked again.                                                              *)
TokenRejected(w) ==
  /\ worker[w].pc = "waiting"
  /\ IF worker[w].renewed
       THEN Concluded(w, "fatal")
       ELSE worker' = [worker EXCEPT ![w].pc = "token", ![w].renewed = TRUE]
  /\ UNCHANGED <<row, audits, authorized, effects, late>>

(* 403, 409 and other 4xx for good; 429 and 5xx retryable.                     *)
Rejected(w) ==
  /\ worker[w].pc = "waiting"
  /\ Concluded(w, "retryable") \/ Concluded(w, "fatal")
  /\ UNCHANGED <<row, audits, authorized, effects, late>>

(* PLATFORM_TIMEOUT, PLATFORM_CONNECTION_FAILED: the client stops waiting, and *)
(* the request may still arrive.                                               *)
TimedOut(w) ==
  /\ worker[w].pc = "waiting"
  /\ late' = late \cup {worker[w].job}
  /\ Concluded(w, "retryable")
  /\ UNCHANGED <<row, audits, authorized, effects>>

LateArrival(d) ==
  /\ d \in late
  /\ late' = late \ {d}
  /\ effects' = CarriedOut(d)
  /\ UNCHANGED <<row, audits, worker, authorized>>

--------------------------------------------------------------------------------
(* The transition that ends an attempt. It is dropped when the lease is gone.  *)

EndAttempt(w) == worker' = [worker EXCEPT ![w] = IdleWorker]

Settle(d, status) ==
  /\ row' = [row EXCEPT ![d] = Released(row[d], status)]
  /\ audits' = [audits EXCEPT ![d] = @ + 1]

(* return_platform_delivery_for_retry, when still owned.                       *)
ReturnForRetry(d) ==
  IF ~PublishAuthorized(d) \/ row[d].attempts >= MaxAttempts
    THEN Settle(d, "failed")
    ELSE /\ row' = [row EXCEPT ![d] = Released(row[d], "pending")]
         /\ UNCHANGED audits

(* complete_platform_delivery, when still owned.                               *)
Complete(d) == Settle(d, IF PublishAuthorized(d) THEN "succeeded" ELSE "failed")

(* fail_platform_delivery, when still owned.                                   *)
Fail(d) == Settle(d, "failed")

(* Mutant: the last attempt counts as done whatever came of it.                *)
TransitionHopeful(w) ==
  LET d == worker[w].job IN
  CASE worker[w].outcome = "fatal" -> Fail(d)
    [] worker[w].outcome = "retryable" /\ worker[w].attempt < MaxAttempts -> ReturnForRetry(d)
    [] OTHER -> Complete(d)

Transition(w) ==
  LET d == worker[w].job IN
  CASE worker[w].outcome = "ok" -> Complete(d)
    [] worker[w].outcome = "retryable" /\ worker[w].attempt < MaxAttempts -> ReturnForRetry(d)
    [] OTHER -> Fail(d)

(* Mutant: the transition is not fenced by the lease.                          *)
ReportUnfenced(w) ==
  /\ worker[w].pc = "report"
  /\ Transition(w)
  /\ EndAttempt(w)
  /\ UNCHANGED <<authorized, effects, late>>

Report(w) ==
  /\ worker[w].pc = "report"
  /\ IF Owned(w, worker[w].job) THEN Transition(w) ELSE UNCHANGED <<row, audits>>
  /\ EndAttempt(w)
  /\ UNCHANGED <<authorized, effects, late>>

(* The process dies: killed, or a transition raised PlatformDeliveryWorkerError*)
(* before it committed. The row keeps the dead owner's lease.                  *)
Crash(w) ==
  /\ worker[w].pc \notin {"idle", "down"}
  /\ late' = IF worker[w].pc = "waiting" THEN late \cup {worker[w].job} ELSE late
  /\ worker' = [worker EXCEPT ![w] = DownWorker]
  /\ UNCHANGED <<row, audits, authorized, effects>>

(* Someone starts it again, in a container often under the same host:pid.      *)
Restart(w) ==
  /\ worker[w].pc = "down"
  /\ EndAttempt(w)
  /\ UNCHANGED <<row, audits, authorized, effects, late>>

--------------------------------------------------------------------------------
TypeOK ==
  /\ row \in [Deliveries -> Row]
  /\ audits \in [Deliveries -> Nat]
  /\ worker \in [Workers -> Worker]
  /\ \A w \in Workers : worker[w].pc \notin {"idle", "down"} => worker[w].job \in Deliveries
  /\ authorized \subseteq Approvers
  /\ effects \in Seq(Deliveries)
  /\ late \subseteq Deliveries

Init ==
  /\ row = [d \in Deliveries |-> AbsentRow]
  /\ audits = [d \in Deliveries |-> 0]
  /\ worker = [w \in Workers |-> IdleWorker]
  /\ authorized = Approvers
  /\ effects = <<>>
  /\ late = {}

Answer(w) == Accepted(w) \/ AcceptedUnread(w) \/ TokenRejected(w) \/ Rejected(w) \/ TimedOut(w)

Attempt(w) == \/ Load(w) \/ ObtainToken(w) \/ Authorize(w) \/ SendRequest(w)
              \/ Answer(w) \/ Report(w)

RunOnce(w) == Claim(w) \/ ClaimNothing(w)

Clock(d) == LeaseLapses(d) \/ RetryFallsDue(d)

Next == \/ \E w \in Workers : RunOnce(w) \/ Attempt(w) \/ Crash(w) \/ Restart(w)
        \/ \E d \in Deliveries : Enqueue(d) \/ Clock(d) \/ LateArrival(d)
        \/ \E a \in Approvers : Revoke(a) \/ Restore(a)

Spec == Init /\ [][Next]_vars

(* Worker processes keep looping and are restarted, the HTTP client's timeouts *)
(* bound every answer, and time passes. Nothing makes an approver lose or      *)
(* regain authority, a request arrive late, or a worker crash or stay alive.   *)
Fairness == /\ \A w \in Workers : WF_vars(RunOnce(w)) /\ WF_vars(Attempt(w)) /\ WF_vars(Restart(w))
            /\ \A d \in Deliveries : WF_vars(Clock(d))

FairSpec == Spec /\ Fairness

--------------------------------------------------------------------------------
(* Properties.                                                                 *)

(* Exactly one terminal audit event is written for a settled delivery and none *)
(* before, whichever of sweep, completion, retry limit or failure settles it,  *)
(* however many workers raced for it (_mark_failed, complete_platform_delivery).*)
OneTerminalAudit ==
  \A d \in Deliveries : audits[d] = IF Terminal(row[d]) THEN 1 ELSE 0

(* A version that was ever claimed has only settled predecessors: a waiting    *)
(* retry or a crashed attempt of an older version is never overtaken, whatever *)
(* rows SKIP LOCKED hides (the predecessor subquery of the claim).             *)
NoOvertaking ==
  \A d \in Deliveries : row[d].attempts > 0 => \A e \in Older(d) : Terminal(row[e])

(* A delivery reported as succeeded is on the platform: neither a stale answer *)
(* nor the answer to another attempt can complete it falsely.                  *)
SucceededOnPlatform ==
  \A d \in Deliveries : row[d].status = "succeeded" => d \in Range(effects)

(* While a lease is live, nothing but its lapse changes the row, except the    *)
(* owner ending the very attempt the row counts: not an older attempt of the   *)
(* same host:pid, and no other worker (_owned_delivery, the claim's guard).    *)
LeaseRespected ==
  [][\A d \in Deliveries :
       Owned(row[d].owner, d) /\ row'[d] # row[d] =>
         LET w == worker[row[d].owner] IN
         \/ row'[d] = [row[d] EXCEPT !.lapsed = TRUE]
         \/ w.pc = "report" /\ w.job = d /\ w.attempt = row[d].attempts]_vars

(* A settled delivery is never touched again: no late report, retry or sweep   *)
(* reopens or rewrites it.                                                     *)
SettledForGood ==
  [][\A d \in Deliveries : Terminal(row[d]) => row'[d] = row[d]]_vars

(* Every enqueued delivery is settled in the end, through crashes, lost leases *)
(* and unfinished predecessors.                                                *)
EventuallySettled ==
  \A d \in Deliveries : row[d].status = "pending" ~> Terminal(row[d])

Outcome(r) == CASE r.status = "absent" -> "absent"
                [] Unfinished(r) -> "open"
                [] OTHER -> r.status

Contract == INSTANCE ListingContract WITH outcome <- [d \in Deliveries |-> Outcome(row[d])]

(* The rows, workers and requests implement the ordered publication contract.  *)
ImplementsContract == Contract!Spec

(* The listing ends up as the newest version confirmed: a version that         *)
(* succeeded took effect before every newer one, late requests included.       *)
SucceededInOrder == Contract!SucceededInOrder

--------------------------------------------------------------------------------
(* What makes the properties inductive.                                        *)

Working(w) == worker[w].pc \notin {"idle", "down"}

(* The records of a product appear oldest first and are claimed only then.     *)
VersionsInOrder ==
  \A d \in Deliveries : row[d].status # "absent" => \A e \in Older(d) : row[e].status # "absent"

AbsentUnclaimed == \A d \in Deliveries : row[d].status = "absent" => row[d].attempts = 0

(* Whatever is worked on, on its way or carried out was claimed.               *)
WorkClaimed == \A w \in Workers : Working(w) => row[worker[w].job].attempts > 0

RequestsClaimed == \A d \in late \cup Range(effects) : row[d].attempts > 0

AnswersTrue ==
  \A w \in Workers : worker[w].pc = "report" /\ worker[w].outcome = "ok"
                        => worker[w].job \in Range(effects)

(* A worker that still holds the lease of its job is on the attempt it counts. *)
CurrentAttempt ==
  \A w \in Workers : Working(w) /\ Owned(w, worker[w].job)
                        => worker[w].attempt = row[worker[w].job].attempts

(* The inductive invariant: the safety invariants above, typed and             *)
(* strengthened with where claims, requests and answers come from.             *)
IInv == /\ TypeOK
        /\ OneTerminalAudit
        /\ NoOvertaking
        /\ SucceededOnPlatform
        /\ SucceededInOrder
        /\ VersionsInOrder
        /\ AbsentUnclaimed
        /\ WorkClaimed
        /\ RequestsClaimed
        /\ AnswersTrue
        /\ CurrentAttempt

================================================================================
