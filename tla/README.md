# A TLA+ model of the e-commerce operations platform

This directory models the parts of the platform whose correctness depends on the
order in which processes, transactions and messages meet: database backed work
queues with leases, review and approval of product drafts, delivery of published
listings to an external commerce platform and its notices, the knowledge base and
its index, logistics, and administration. Every definition is
translated from the code under `src/`; `PROJECT.json` names the lines it stands
for (`map`), the checks (`runs`), the hazards they are aimed at, and the proved
theorems.

To check a run: `tlc -config PlatformDelivery.cfg MCPlatformDelivery.tla`.
To check the proofs: `tlapm PlatformDeliveryProofs.tla`, and so for the other
modules whose name ends in `Proofs`.

## 1. The system

A FastAPI backend and a set of worker processes share one PostgreSQL database.
The workers never talk to each other: they claim rows with
`FOR UPDATE SKIP LOCKED`, mark them with `lease_owner` (`host:pid`),
`lease_expires_at` and an attempt counter of at most 3, and every later
transaction checks that the lease is still theirs. Each handler of the API, and
each lease guarded step of a worker, is one transaction that locks its rows
before it reads them.

    analysis run -> select product -> optimization run
                                        |  draft_ready / pending_manual / failed
                                        v
                 manual revision -> manual review run (worker, knowledge, model)
                                        |  draft_ready / pending_manual / failed
                                        v
                     submit -> reject / request changes / approve
                                                           |  new product version,
                                                           v  publish record, delivery
                              platform delivery (worker, HTTP) -> webhook receipts

| Component (`src/backend`) | State it keeps | Operations | What makes it correct | Where it is modelled |
|---|---|---|---|---|
| `platform_delivery_runs.py` | `platform_deliveries`, audit events | claim (with sweep of exhausted rows and predecessor check), complete, return for retry, fail | versions of a product go out in order; a row is settled once, by its lease holder or the sweep | `PlatformDelivery`, `ListingContract`, `PlatformDeliveryProofs` |
| `platform_delivery_worker.py`, `platform_client.py` | local state of one attempt, bearer token | load, authorize, PUT, renew token, report | a withdrawal of authority stops every request not yet checked; what is reported is true | `PlatformDelivery`, `PlatformAuthority` |
| `approvals.py` | optimization run status, submitted pointer, `approval_actions`, `publish_records`, product version | submit, reject, request changes, approve, replay | one decision per revision, versions without gaps, retries answered | `ProposalLifecycle`, `ProposalStages`, `ProposalLifecycleProofs` |
| `manual_reviews.py` | `proposal_revisions`, active review pointer | create a manual revision | a proposal has one review at a time | `ProposalLifecycle`, `ProposalLifecycleProofs` |
| `manual_review_runs.py`, `workflow_leases.py` | `manual_review_runs` and their workflow run, `compliance_reviews` | claim, load context, persist, finalize, fail, exhaust | the holder alone writes; a review is written once and always releases the proposal | `ProposalLifecycle`, `ProposalLifecycleProofs` |
| `manual_review_worker.py` | position in the graph, answers in memory | one review, node by node | it only takes steps the transactions allow, and ends | `ManualReviewWorker`, `ManualReviewWorkerProofs` |
| `proposals.py` | `product_proposals` | select, replay a selection | draft against the version read under lock; one selection per run | `OptimizationWorker.SelectProduct`, `AnalysisRuns.SelectOffered` |
| `optimization_runs.py`, `optimization_worker.py` | optimization run, revisions and reviews of the agent | claim, persist draft, persist review, defer, finalize, fail | at most three drafts, written by the holder; the outcome agrees with the reviews | `OptimizationWorker`, `OptimizationWorkerProofs` |
| `analysis_runs.py`, `analysis_worker.py` | analysis runs, `analysis_candidates` | create, claim, authorize, persist candidates, finalize, fail | what is offered was written by the attempt that offers it, and stands | `AnalysisRuns`, `AnalysisWorker`, `AnalysisWorkerProofs` |
| `knowledge_runs.py`, upload in `routes.py` | documents, versions, chunks | upload, disable, claim, renew, store chunks, activate, return for retry, fail | one current version; ended versions stay ended | `KnowledgeVersions` |
| `knowledge_worker.py`, `knowledge_index.py`, `knowledge_search.py` | the vector index, a search in progress | index a version step by step, search | what serves is found, what is cited serves | `KnowledgeWorker`, `KnowledgeWorkerProofs` |
| `platform_webhooks.py` | `platform_webhook_receipts` | receive | one receipt per event, replay told from conflict | `PlatformWebhooks`, `AdministrationAndWebhooksProofs` |
| `logistics.py` | shipments, returns, exceptions, events | record, transition, patrol, resolve | trails in order; no stale or double exception | `Logistics`, `LogisticsProofs` |
| `admin_management.py` | users, scopes, stores | update, replace scopes | an active administrator remains | `Administration`, `AdministrationAndWebhooksProofs`; its effect on authority in the other modules |
| `auth.py`, `audit_events.py`, agents, evaluations, routes, web client | | | single request, pure or I/O | not modelled |

Behaviours that are hard here: workers that outlive their lease while they wait
for the model or the platform; a crash between two transactions; a request that
arrives after its sender gave up; a worker restarted under the owner name of its
predecessor; authority withdrawn between two checks; two proposals drafted
against the same product version; retries of requests that were carried out;
rows a session read before a wait and uses after it; a vector index that is
another system than the database; notices that overtake what they report, or
arrive twice at once; events registered long after they happened; transactions
that wait for rows others are changing.
The list, with the line where each bites and the property that watches it, is
`hazards` in `PROJECT.json`.

## 2. The modules

### Delivery

`PlatformDelivery` has the rows (`row`, `audits`), the worker processes
(`worker`), who may publish (`authorized`), and the platform as far as the code
relies on it: `effects`, the updates it carried out, once per idempotency key,
and `late`, requests nobody waits for any more. One action is one transaction,
one request or one answer:

* `Enqueue` is the tail of `approvals._first_publish`. That it happens in version
  order is what `ProposalLifecycle.VersionsChain` shows of the approvals.
* `Claim`, `ClaimNothing` are `claim_next_platform_delivery`: rows locked by
  another transaction are an arbitrary set `skipped`, the sweep settles the
  exhausted rows it sees, and one ready row is leased.
* `Load`, `ObtainToken`, `Authorize`, `SendRequest`, the answers, and `Report` are
  `run_once` and the client. `Authorize` is the check before each request, in a
  session that is closed when the request leaves (`SendRequest`): an administrator
  may come between. Time is left to the environment: `LeaseLapses` and
  `RetryFallsDue` may happen whenever the row has a lease or waits.
* `Crash` is possible between any two steps, `Restart` starts the process again
  under the same owner name.

`PlatformAuthority` adds one history variable to `PlatformDelivery`: `overtaken`,
the workers whose positive check was followed by a withdrawal before their
request left. It restricts no step, so the run `delivery`, which checks all
properties of the pipeline under `FairRecordedSpec`, checks the behaviours of
`FairSpec`. The property about authority uses it to say what a withdrawal still
lets leave.

`ListingContract` is what a user of the pipeline may rely on, without leases,
workers or attempts. `PlatformDelivery` implements it by mapping a row to its
outcome.

### Proposals

`ProposalLifecycle` follows the proposals of one product from selection to
publication. A transaction is an action; its guard is the conjunction of the
checks the handler makes before it writes. Revisions are numbers; of a revision
only what its compliance review says is kept (`review`). The optimization run's
status, which is where the code keeps the state of a proposal, is `status`.
Database constraints (one review per revision, one run per revision, one record
per version) are not assumed: they follow from the guards, and are checked.

`ProposalStages` is the abstract view: a proposal moves through stages, and the
product version counts publications.

`ManualReviewWorker` puts the transactions of a review in the order in which the
worker's graph runs them. `asking` is the time inside the model call, during
which no transaction is open. The graph always starts at `load_or_resume`: a
reclaimed run finds its way from what is stored, and what a process knew
(`worker[w].result`) is lost with it. Its next-state relation is shown to be one
of `ProposalLifecycle` (`ImplementsLifecycle`), so the worker composes with
every property of that module.

`OptimizationWorker` is what happens inside `optimizing`. `chain` is the list of
the agent's revisions, each with what its review says, so that a revision of
iteration *i* is entry *i* + 1 and `current_revision_id` is the last entry;
`lease` is the lease of the run. The first part has the transactions of
`optimization_runs.py`, each with what `_locked_context` asks (`Holds`); the
second has the nodes of the graph, split where they wait: for the knowledge
search (`revision_input`, `review_input`), for an agent (`drafting`,
`reviewing`), and between a degraded review and its deferral (`deferring`).
What an agent says is one of the verdicts; `Abandon` is every way an owned
transaction can fail the run. `ProposalLifecycle` sees only the end of it: the
last draft becomes the first revision there, because nothing refers to the
earlier ones again. A stored row that equals what is about to be written
("replayed") needs a worker that writes twice under one lease, which the graph
does not do; `HolderIsCurrent` is why.

### Analyses

`AnalysisRuns` has the transactions of an analysis run and the selection of one
of its products; `AnalysisWorker` runs them in the order of the graph, with the
waits for the agent (`asking`, `repairing`). A run that is taken over starts from
the first node, and the agent may then rank the same products in another order:
the rows of `analysis_candidates` of a run are one ranking together with the
attempt that wrote it, and `RanksFree` says when the two unique constraints admit
a second one, row after row.

### Knowledge

`KnowledgeVersions` has the rows and their transactions, `KnowledgeWorker` the
worker, the index and a search. The worker keeps one session for a whole run,
and sessions do not expire on commit: `Remembered` is the document as it was
when the version was claimed, and activation works with that. The index is
another system, whose writes may arrive late or though the call failed. The id
of a chunk is derived from the SHA-256 of its file, so two documents with the
same file share ids and different files share none; one chunk stands for all the
chunks of a content. An upload is two steps, the checks and the insertion, and a
search reads the versions that serve, the index and the text one after the other.

### Logistics

`Logistics` has one shipment's row, its return, its trail and that of its return,
and its exceptions, by the key of their evidence (kind, and the scan or the state
they rest on). A clock ticks to a horizon; requests name times between the last
node and now, or at most `Ahead` later, as `check_time` allows. A patrol is two
steps: it selects the shipments in sight, and judges each when it has its lock,
kind after kind as `issues` does. The deadlines are constants of the instance.

### Webhooks

`PlatformWebhooks` has the receipts and the requests that carry notices. A
request looks for the event, looks the delivery up, inserts, and, if another one
was faster, looks a second time. `settled` is what the delivery worker has
recorded by then: notices may come before it. A commit whose acknowledgement is
lost (`InsertUnacknowledged`) leaves a receipt and an answer that does not say so.
`answers` remembers what the platform was told.

### Administration

`Administration` takes the locking apart, row by row in the order of the ids, as
`lock_admin_user_set` does it: the statement finds the active administrators as
they are when it starts, waits for each row, and then reads it again.
`ChangeStores` is every change of scopes and stores, which locks the same rows;
its effect is the authority that comes and goes in the other modules.

`MCOperations` is the instance of these five components. They share nothing with
each other but the users, so a behaviour exercises one of them, chosen at its
beginning (`focus`); interleaving them would multiply the states and show nothing.

### Abstractions

* Payloads, facts, citations and hashes are dropped; a check on them is a
  failure that may always happen (`FailContext`, `Deferred`, `ObtainToken`).
* An idempotency key is the index of the row it was stored with. A request with
  a new key is a new action; a retry of a stored one is `Replayed`.
* Citations are not kept, so `Editable` leaves out that those of the parent and of
  its review agree (`manual_reviews.py:432`): it allows more edits than the code.
* Authority (active user, department, role, enabled store, scope) is one set,
  read afresh in each transaction as the code does.
* A store's other products and other stores share nothing with the modelled one
  but the worker processes.
* Some definitions are followed or preceded by a variant marked *Mutant*: a
  plausible mistake in that place. `mutants` in `PROJECT.json` says which
  property notices it.

## 3. What is checked

| Run | Instance | States | Question |
|---|---|---|---|
| `delivery` | 1 product, 2 versions, 2 workers, 1 approver, 2 attempts | 181,430 | Do order, leases, authority and settlement hold, is the contract implemented, and is every delivery settled in the end? |
| `lifecycle_safe` | 2 proposals, an operator and an approver, 1 owner name, 2 revisions, 2 attempts | 551,232 | Do racing proposals keep reviews, decisions and versions consistent? |
| `review_takeover` | 1 proposal, 2 workers, 2 revisions, 3 attempts | 30,600 | Do workers that take a review over from each other write only as holders, and does it end? |
| `optimization_loop` | 1 proposal, 2 workers, 3 drafts, 3 attempts | 49,408 | Do workers that take an optimization over go on from what is stored, and does it end? |
| `optimization_race` | 2 proposals, 1 crashing worker, 2 drafts, 2 attempts, 1 revision | 214,032 | Does the outcome agree with the reviews, the product and the creator's authority while the other proposal is published? |
| `operations` | one of: 1 document, 2 versions, 2 contents, 2 workers, 2 attempts; 1 analysis, 2 products, 2 workers, 3 claims; 1 shipment, 1 patrol, clock to 2, 7 events; 2 notices, 2 bodies, 3 requests; 3 users, 2 changes at once | 836,971 | Do the knowledge base, analyses, logistics, webhooks and administration keep their promises? |
| `lifecycle_retry`, `lifecycle_reapprove`, `lifecycle_revisable` | 2 proposals, 1 user, 2 revisions | violated | Three statements of the documents that the code does not keep (section 5). |
| `knowledge_older` | 1 document, 2 versions, 2 workers | violated | Can an older version become current again? |
| `knowledge_shared` | 2 documents with 1 version each, 2 contents, 2 workers | violated | Does a document stay findable when another one has the same file? |
| `analysis_replay` | 1 analysis, 2 products, 2 workers | violated | Can an attempt after a crash store its candidates? |

Why the bounds are enough for the cases of interest: two versions give a
predecessor and a successor; two workers give a holder and a stale one, and each
may crash and come back under its old name. Two attempts give a first, a retry and
an exhausted row; the theorems of section 4 cover every other limit. Two
proposals give the race for a version and, one after the other, two
publications. Two revisions give an agent's and a manual one; the third would
repeat the second. In `review_takeover` nothing else can publish during the
review: proposals that race for a version are in `lifecycle_safe`, whose
transactions the worker is shown to take (`ImplementsLifecycle`), and in
`optimization_race`. Three drafts are the code's own limit, two are the first and
a revised one that is also the last.

In `operations`, two versions are an older and a newer one of a document, two
contents let an upload repeat a file or not; a second document is in
`knowledge_shared`, because with one the content of a document's versions is
never shared (`ServedIsFound` holds there and fails with two). Three claims are
the code's limit. A clock of two ticks passes each deadline of the instance, and
seven events are a shipment, its return and one exception after the other. Three
requests are a race of two and a late repetition, or a conflict. Two
administrators of three users are the least that can demote each other, and the
third can be promoted and take part.

The properties, by what they protect:

* *Order and truth of deliveries*: `NoOvertaking` (a version that was ever
  claimed has only settled predecessors), `SucceededOnPlatform`,
  `SucceededInOrder` (a version that succeeded took effect before every newer
  one). They do not say that the listing never regresses: a request of a
  *failed* older version can still arrive after a newer one, because the claim
  orders attempts and not effects.
* *Leases*: `LeaseRespected`, `SettledForGood`, `OneTerminalAudit`;
  `WrittenByHolder`, `OneReviewAudit`, `OneActiveReview` for reviews;
  `OptimizedByHolder` and `HolderIsCurrent` (what a worker with a live lease
  remembers is what the rows say) for optimizations.
* *Authority*: `WithdrawalTakesHold`. The code does not promise that no request
  leaves without authority: the check's session is closed before the PUT is sent
  (`platform_client.py:134` to `136`), and a withdrawal that falls between them
  comes too late for that one request. What holds is that nothing else leaves: no
  request of a worker that had not been checked yet, and none that repeats the
  first after a token renewal, which is the case
  `docs/department-isolation-validation.md:42` reports as repaired.
* *Outcome of an optimization*: `OutcomeFollowsReviews`.
* *Analyses*: `OfferIsHolders` (an offer has the candidates of the attempt that
  offers it), `OfferStands`.
* *Knowledge*: `ServedIsFound` (what serves is in the index and the database),
  `SearchIsExact` (a search cites, of what it started from, what still serves,
  all of it and nothing else), `EndedForGood`.
* *Logistics*: `TrailInOrder` (trails run in the order of the times and nothing
  follows an end), `RaisedOnceInTime` (no exception twice for the same evidence,
  nor after what settles it).
* *Webhooks*: `AnswersAgree`. *Administration*: `AdministratorRemains`.
* *Decisions*: `SubmittedIsVetted`, `DecidedOnce`, `HistoryImmutable`.
* *Versions*: `VersionsChain` (publications form a chain without a gap, one
  proposal each, drafted against the version before), `StaleNeverAdvances`.
* *Refinement*: `ImplementsContract`, `ImplementsStages`, `ImplementsLifecycle`.
* *Progress*: `EventuallySettled`, `EventuallyReviewed`, `EventuallyOptimized`.

### Fairness

Workers loop for ever and every wait in them has a timeout (HTTP client, model
client, database), so a worker that can take a step takes one (`WF` of
`RunOnce`, `Attempt`, `Progress`). Leases lapse and retries fall due because
time passes. `WF` of `Restart` is an assumption about operation: the repository
starts the workers as scripts and has no restart policy of its own. Nothing is
assumed of answers, verdicts, late requests, revocations, crashes, or of what
users do. A worker that crashes on every attempt is covered by the sweep, which
is why a bounded number of attempts suffices for progress.

For the knowledge base and for analyses no liveness is checked: their workers
have the same claims, leases and sweep, and the instances are large.

## 4. What is proved

TLAPS proves, for every value of the constants, every type invariant, every
safety invariant, every action property and every refinement that a passing run
checks. The bounds of section 3 do not matter to them: any number of users, workers,
proposals, products, documents or requests, any limits of attempts, versions,
drafts and trails, any terms of delivery. `theorems` in `PROJECT.json` lists the
results with the properties they state. `ServedIsFound` and `SearchIsExact`, as
the run `operations` checks them, are proved for one document only; more cannot
be, and what can be said of several is below.

The theorems rest on the assumptions that the modules make of their constants
(`DeliveryAssumption`, `LifecycleAssumption` and so on) and which TLC evaluates on
the instances. They say that limits and terms are numbers, that a limit of
attempts, versions or drafts is not zero, that approvers are users, that a parcel
is not due before it is to be sent, that an analysis has something to rank, and
that what stands for nothing (`NoWorker`, `NoUser`, `NoContent`, ...) is not one
of the things.

### Delivery (`PlatformDeliveryProofs`)

`IInv` adds to the invariants

* `VersionsInOrder`, `AbsentUnclaimed`: the records of a product appear oldest
  first and unclaimed, so a new record never becomes the unfinished predecessor
  of one already claimed;
* `WorkClaimed`, `RequestsClaimed`: whatever a worker holds, the network carries
  or the platform carried out was claimed, so by `NoOvertaking` its
  predecessors are settled: this is what orders effects, late ones included;
* `AnswersTrue`: a worker about to report success saw the platform's answer;
* `CurrentAttempt`: a worker that still holds the lease is on the attempt the
  row counts, which fences off reports of an earlier life of the same owner.

That each action preserves `IInv` has one lemma per action; the theorems on steps
and the refinement (each action is a step or a stutter of `ListingContract`) use
it on the state before the step. `WithdrawalTakesHoldHolds` adds `CheckedOrOvertaken`
(who is about to send without authority was overtaken): a check is passed only
with authority (`CheckThenSend`), and the approver of a claimed row is fixed
(`ApproverKept`), so the authority of a checked worker can only be lost by a
withdrawal, which the history records.

### The lifecycle of a proposal (`ProposalLifecycleProofs`)

`IInv` of `ProposalLifecycle` has, besides the checked invariants,

* `NothingYet`: a proposal not yet drafted has neither reviews, runs, log nor
  pointers;
* `CurrentIsLatest`: no revision after the current one has a review or a run, so
  a new revision always starts clean;
* `LogIsCurrent`: the log speaks of existing revisions only, a draft that is ready
  or under review has not been submitted, and the last entry about one that waits
  for approval is its submission: a decision meets a submission and nothing
  decided before.

The transactions are many and the facts few, so the proof has a layer between
them: a step does to one proposal one of a dozen things, row by row (`Selected`,
`Drafted`, `Edited`, `Judged`, ..., `Published`), or gives up any number of them
(`GaveUp`, the sweep), and leaves the others alone but for their leases (`Quiet`).
That each transaction is one of these (`Steps`) is proved once. The
preservation of `IInv`, `StaleNeverAdvances`, `HistoryImmutable` and the refinement
of `ProposalStages` then argue about these shapes. `VersionsChain` is about all
proposals at once: only `Published` touches it, and it publishes against the
version it was drafted for, so the new record is the next link.

### The workers of reviews and optimizations

Both worker modules have variables of their own beside those of the lifecycle.
`WorkersImplementLifecycle` and `OptimizationImplementsLifecycle` show that every
step of a worker, crash and restart included, is a transaction of
`ProposalLifecycle` or leaves its rows alone. With the `Refinement` above, the
workers implement the stages too (`WorkersImplementStages`,
`OptimizationImplementsStages`), and `IInv` may be used in their proofs.

* `WrittenByHolderHolds` needs nothing more: every transaction asks for the lease.
* `HolderIsCurrent` is nearly inductive; it needs that drafts are within their
  limit, that a run that is over is leased to nobody, and that a process has a job
  exactly while it works (`OptimizationInv`). It is what makes the second half of
  a node agree with the first: an answer that arrives under a live lease is about
  the draft it was asked for.
* `OptimizedByHolderHolds` and `OutcomeFollowsReviewsHolds` follow from one
  statement of what a step may do to a run (`RunStep`).

### Analyses (`AnalysisWorkerProofs`)

`AnalysisInv` adds to `OfferIsHolders` that whoever is about to persist candidates
has a ranking of all products, the degraded one included (`DegradedRanks`: there is
one because the products are finitely many), and that whoever is about to finalize
a run it still holds has written its rows in this attempt (`FinalizesOwn`). A new
claim counts the attempts up and makes every earlier holder a stranger.

### The knowledge base (`KnowledgeWorkerProofs`)

What holds without condition: types, that a document has no content twice, that
ended versions stay ended. What serves need not be found when two documents have
the same file (section 5). The proof says that this is the only way:
`ContentsApart` says that no two versions share a content, and
`ServedIsFoundUnlessShared` and `SearchIsExactUnlessShared` hold in every state with
`ContentsApart`, with any number of documents. Once two versions share a content
they do so for ever, so the inductive invariant says what was written of what
serves, of what a worker goes on from, and of what a search looks for, as long as
contents are apart. With one
document the condition always holds, which gives `ServedIsFoundHolds` and
`SearchIsExactHolds`; these two have the hypothesis that all documents are the
same.

### Logistics (`LogisticsProofs`)

`TrailInOrder` speaks of pairs of entries in a trail, so a step has to be checked
on the new entries against all the old ones. `LogisticsInv` therefore says of each
entry how it agrees with the rows (`Recorded`): an entry of the course is not later
than the last time in the row, an end is in the status, an exception is on record.
The rows then answer for the whole trail: what the guards ask of the row holds of
every entry.

### Webhooks and administration (`AdministrationAndWebhooksProofs`)

`AnswersAgreeHolds`: receipts never change, every answer agreed with the receipt
it was about (`AnswersTrue`), and an event has a receipt exactly when one request
was told that it created it or, if the acknowledgement of the commit was lost,
nothing, and no other was told so (`ReceiptsCreated`).
`AdministratorRemains` needs no strengthening: a transaction counts, of the
administrators it found, those whose locked rows, read again, still are; whoever
it spares is one now. The mutant shows what that rests on: with the rows as first
found it fails.
`NoCircleHolds` is not checked by a run: rows are locked in the order of their
ids, so in any group of waiting transactions the one that holds the last row
awaited waits for none of them.

### What is only model-checked

The three properties of progress (`EventuallySettled`, `EventuallyReviewed`,
`EventuallyOptimized`): fairness is defined with ENABLED, which the prover
cannot handle. The six statements that are violated are about particular
behaviours, which TLC exhibits.

## 5. Findings

All are disagreements of a document with the code; `findings` quotes the lines.

* `RetriesAnswered`: a retried submission (or request for changes) is answered
  with 503 `PROPOSAL_DATA_INCONSISTENT` once the next manual review of the
  proposal has ended, although the documents promise the original result.
* `RepeatedApprovalAnswered`: a repeated approval is refused with
  `PUBLISH_REPLAY_CONFLICT` once another proposal of the product was published.
* `RevisableWhenOpen`: a proposal the optimization handed over without a
  reviewed revision waits in `pending_manual` for a manual revision that is
  always refused.

* `CurrentNeverGoesBack`: a worker that claimed version 1 of a document before
  version 2 was activated makes version 1 current again, because its session
  still has the document as it was; both versions stay `active`.
* `ServedIsFound`, with two documents: indexing the same file for a second
  document takes the vectors away from the first, which then serves and is not
  found.
* `ReplayIsAccepted`: the attempt after a crash cannot store its candidates when
  the agent ranks them differently, although the document promises an idempotent
  replacement; the run fails.

Also worth knowing, though documented: a submitted proposal whose base version
was overtaken can be neither approved nor rejected, and stays submitted.

## 6. Plan

1. Done: delivery with its contract and proofs; the proposal lifecycle with its
   stages; the workers of manual reviews and optimizations; analyses with the
   selection of a product; the knowledge base with its index and search;
   logistics; webhooks; administration.
2. Done: every safety and action property of the passing runs and every
   refinement, as theorems (section 4).
3. Next: an abstract specification of the knowledge base as its readers see it (a
   document serves one version or none), and what of `ListingContract` the
   approvals owe to the delivery, `Enqueue` in version order, as a theorem that
   joins the two components.
4. Liveness of the knowledge base and of analyses, in instances of their own.

### Not modelled, and why

* The orders in which a transaction locks rows, except in `Administration`: two
  orders that can deadlock are listed as hazards. PostgreSQL ends a deadlock by
  aborting one of the transactions, which is a rollback the modules allow.
* Password and token checks, the validation of requests and the endpoints that
  only read: functions of one request.
* Signature, timestamp and shape of a webhook: checked before anything is read.
* Prompts and calls of the agents, trusted facts, citations and deterministic
  checks: their outcome is a verdict, a failure or a deferral.
* The metrics of `analytics.py`: nothing at run time writes what they are computed
  from, so the products an analysis singles out are a fixed set.
* Scores, reranking and chunking in the knowledge base: a search is judged by
  which contents it cites.
* The assignment of logistics exceptions: nothing else depends on it.
* Evaluations, calibration, seed data, migrations and the web client: offline,
  sequential or without state of their own.
