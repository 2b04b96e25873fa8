------------------------- MODULE PlatformDeliveryProofs ------------------------
(* Machine-checked proofs about PlatformDelivery and PlatformAuthority, for    *)
(* every number of products, versions, workers and approvers and every attempt *)
(* limit.                                                                      *)
EXTENDS PlatformAuthority, SequenceTheorems, TLAPS

--------------------------------------------------------------------------------
(* Rows and local states.                                                      *)

LEMMA AbsentRowType == AbsentRow \in Row
BY DeliveryAssumption DEF AbsentRow, Row, Statuses

LEMMA ReleasedType ==
  ASSUME NEW r \in Row, NEW s \in Statuses
  PROVE  /\ Released(r, s) \in Row
         /\ Released(r, s).status = s
         /\ Released(r, s).attempts = r.attempts
         /\ Released(r, s).approver = r.approver
         /\ Released(r, s).owner = NoWorker
BY DEF Released, Row

LEMMA LeasedType ==
  ASSUME NEW r \in Row, NEW w \in Workers, r.attempts < MaxAttempts
  PROVE  /\ Leased(r, w) \in Row
         /\ Leased(r, w).status = "processing"
         /\ Leased(r, w).attempts = r.attempts + 1
         /\ Leased(r, w).owner = w
BY DeliveryAssumption DEF Leased, Row, Statuses

LEMMA IdleWorkerType == IdleWorker \in Worker
BY DeliveryAssumption DEF IdleWorker, Worker, PCs, Outcomes

LEMMA SweptRowType ==
  ASSUME row \in [Deliveries -> Row], NEW S \in SUBSET Deliveries
  PROVE  /\ SweptRow(S) \in [Deliveries -> Row]
         /\ \A d \in Deliveries : SweptRow(S)[d].attempts = row[d].attempts
         /\ \A d \in Deliveries \ S : SweptRow(S)[d] = row[d]
         /\ \A d \in S : SweptRow(S)[d].status = "failed"
<1>1. \A d \in Deliveries : /\ MarkFailed(row[d]) \in Row
                            /\ MarkFailed(row[d]).status = "failed"
                            /\ MarkFailed(row[d]).attempts = row[d].attempts
  BY ReleasedType DEF MarkFailed, Statuses
<1>2. QED
  BY <1>1 DEF SweptRow

LEMMA CarriedOutType ==
  ASSUME effects \in Seq(Deliveries), NEW d \in Deliveries
  PROVE  CarriedOut(d) \in Seq(Deliveries)
BY DEF CarriedOut

--------------------------------------------------------------------------------
(* Type correctness.                                                           *)

LEMMA InitTypeOK == Init => TypeOK
<1>1. AbsentRow \in Row
  BY AbsentRowType
<1>2. IdleWorker \in Worker /\ IdleWorker.pc = "idle"
  BY IdleWorkerType DEF IdleWorker
<1>3. <<>> \in Seq(Deliveries)
  OBVIOUS
<1>4. QED
  BY <1>1, <1>2, <1>3 DEF Init, TypeOK

LEMMA ConcludedType ==
  ASSUME TypeOK, NEW w \in Workers, worker[w].pc \notin {"idle", "down"},
         NEW o \in Outcomes, Concluded(w, o)
  PROVE  /\ worker' \in [Workers -> Worker]
         /\ \A v \in Workers : worker'[v].pc \notin {"idle", "down"} => worker'[v].job \in Deliveries
BY DEF TypeOK, Concluded, Worker, PCs

LEMMA GoToType ==
  ASSUME TypeOK, NEW w \in Workers, worker[w].pc \notin {"idle", "down"},
         NEW pc \in PCs, GoTo(w, pc)
  PROVE  /\ worker' \in [Workers -> Worker]
         /\ \A v \in Workers : worker'[v].pc \notin {"idle", "down"} => worker'[v].job \in Deliveries
BY DEF TypeOK, GoTo, Worker, PCs

LEMMA NextTypeOK == TypeOK /\ [Next]_vars => TypeOK'
<1> SUFFICES ASSUME TypeOK, [Next]_vars PROVE TypeOK'
  OBVIOUS
<1>1. ASSUME NEW w \in Workers, Claim(w) PROVE TypeOK'
  <2> PICK skipped \in SUBSET Deliveries :
         \E d \in Ready(SweptRow(Swept(skipped)), skipped) :
            /\ row' = [SweptRow(Swept(skipped)) EXCEPT ![d] = Leased(SweptRow(Swept(skipped))[d], w)]
            /\ audits' = SweptAudits(Swept(skipped))
            /\ worker' = [worker EXCEPT ![w] = Loading(d, row[d].attempts + 1)]
    BY <1>1 DEF Claim
  <2>1. PICK d \in Ready(SweptRow(Swept(skipped)), skipped) :
          /\ row' = [SweptRow(Swept(skipped)) EXCEPT ![d] = Leased(SweptRow(Swept(skipped))[d], w)]
          /\ audits' = SweptAudits(Swept(skipped))
          /\ worker' = [worker EXCEPT ![w] = Loading(d, row[d].attempts + 1)]
    OBVIOUS
  <2>2. Swept(skipped) \in SUBSET Deliveries /\ d \in Deliveries
    BY DEF Swept, Ready
  <2>3. SweptRow(Swept(skipped))[d].attempts < MaxAttempts
    BY DEF Ready, Eligible
  <2>4. SweptRow(Swept(skipped)) \in [Deliveries -> Row] /\ row[d].attempts < MaxAttempts
    BY <2>2, <2>3, SweptRowType DEF TypeOK
  <2>5. row' \in [Deliveries -> Row]
    BY <2>1, <2>2, <2>3, <2>4, LeasedType
  <2>6. audits' \in [Deliveries -> Nat]
    BY <2>1 DEF SweptAudits, TypeOK
  <2>7. row[d].attempts + 1 \in 0..MaxAttempts
    BY <2>2, <2>4, DeliveryAssumption DEF TypeOK, Row
  <2>8. Loading(d, row[d].attempts + 1) \in Worker
    BY <2>2, <2>7 DEF Loading, Worker, PCs, Outcomes
  <2>9. Loading(d, row[d].attempts + 1).job = d
    BY DEF Loading
  <2>10. QED
    BY <1>1, <2>1, <2>2, <2>5, <2>6, <2>8, <2>9 DEF Claim, TypeOK
<1>2. ASSUME NEW w \in Workers, ClaimNothing(w) PROVE TypeOK'
  <2>1. PICK skipped \in SUBSET Deliveries :
          row' = SweptRow(Swept(skipped)) /\ audits' = SweptAudits(Swept(skipped))
    BY <1>2 DEF ClaimNothing
  <2>2. Swept(skipped) \in SUBSET Deliveries
    BY DEF Swept
  <2>3. row' \in [Deliveries -> Row]
    BY <2>1, <2>2, SweptRowType DEF TypeOK
  <2>4. QED
    BY <1>2, <2>1, <2>3 DEF ClaimNothing, SweptAudits, TypeOK
<1>3. ASSUME NEW w \in Workers, Load(w) PROVE TypeOK'
  BY <1>3, ConcludedType, GoToType DEF Load, TypeOK, PCs, Outcomes
<1>4. ASSUME NEW w \in Workers, ObtainToken(w) PROVE TypeOK'
  BY <1>4, ConcludedType, GoToType DEF ObtainToken, TypeOK, PCs, Outcomes
<1>5. ASSUME NEW w \in Workers, Authorize(w) \/ SendRequest(w) PROVE TypeOK'
  BY <1>5, ConcludedType, GoToType DEF Authorize, SendRequest, TypeOK, PCs, Outcomes
<1>6. ASSUME NEW w \in Workers, Accepted(w) PROVE TypeOK'
  BY <1>6, ConcludedType, CarriedOutType DEF Accepted, TypeOK, Outcomes
<1>7. ASSUME NEW w \in Workers, AcceptedUnread(w) PROVE TypeOK'
  BY <1>7, ConcludedType, CarriedOutType DEF AcceptedUnread, TypeOK, Outcomes
<1>8. ASSUME NEW w \in Workers, TokenRejected(w) PROVE TypeOK'
  <2>1. CASE worker[w].renewed
    BY <1>8, <2>1, ConcludedType DEF TokenRejected, TypeOK, Outcomes
  <2>2. CASE ~worker[w].renewed
    <3>1. worker' = [worker EXCEPT ![w].pc = "token", ![w].renewed = TRUE]
      BY <1>8, <2>2 DEF TokenRejected
    <3>2. /\ worker' \in [Workers -> Worker]
          /\ \A v \in Workers : worker'[v].pc \notin {"idle", "down"} => worker'[v].job \in Deliveries
      BY <1>8, <3>1 DEF TokenRejected, TypeOK, Worker, PCs
    <3>3. QED
      BY <1>8, <3>2 DEF TokenRejected, TypeOK
  <2>3. QED
    BY <2>1, <2>2
<1>9. ASSUME NEW w \in Workers, Rejected(w) PROVE TypeOK'
  BY <1>9, ConcludedType DEF Rejected, TypeOK, Outcomes
<1>10. ASSUME NEW w \in Workers, TimedOut(w) PROVE TypeOK'
  BY <1>10, ConcludedType DEF TimedOut, TypeOK, Outcomes
<1>11. ASSUME NEW w \in Workers, Report(w) PROVE TypeOK'
  <2>1. worker[w].job \in Deliveries
    BY <1>11 DEF Report, TypeOK
  <2>2. /\ worker' \in [Workers -> Worker]
        /\ \A v \in Workers : worker'[v].pc \notin {"idle", "down"} => worker'[v].job \in Deliveries
    BY <1>11, IdleWorkerType DEF Report, EndAttempt, TypeOK, IdleWorker
  <2>3. row' \in [Deliveries -> Row] /\ audits' \in [Deliveries -> Nat]
    <3>1. \A s \in Statuses : Released(row[worker[w].job], s) \in Row
      BY <2>1, ReleasedType DEF TypeOK
    <3>2. CASE Owned(w, worker[w].job)
      <4>1. \A s \in Statuses : Settle(worker[w].job, s) =>
              row' \in [Deliveries -> Row] /\ audits' \in [Deliveries -> Nat]
        BY <2>1, <3>1 DEF Settle, TypeOK
      <4>2. ReturnForRetry(worker[w].job) =>
              row' \in [Deliveries -> Row] /\ audits' \in [Deliveries -> Nat]
        BY <2>1, <3>1, <4>1 DEF ReturnForRetry, TypeOK, Statuses
      <4>3. QED
        BY <1>11, <3>2, <4>1, <4>2 DEF Report, Transition, Complete, Fail, Statuses
    <3>3. CASE ~Owned(w, worker[w].job)
      BY <1>11, <3>3 DEF Report, TypeOK
    <3>4. QED
      BY <3>2, <3>3
  <2>4. QED
    BY <1>11, <2>2, <2>3 DEF Report, TypeOK
<1>12. ASSUME NEW w \in Workers, Crash(w) PROVE TypeOK'
  <2>1. worker[w].job \in Deliveries
    BY <1>12 DEF Crash, TypeOK
  <2>2. DownWorker \in Worker /\ DownWorker.pc = "down"
    BY IdleWorkerType DEF DownWorker, IdleWorker, Worker, PCs
  <2>3. QED
    BY <1>12, <2>1, <2>2 DEF Crash, TypeOK
<1>13. ASSUME NEW w \in Workers, Restart(w) PROVE TypeOK'
  BY <1>13, IdleWorkerType DEF Restart, EndAttempt, TypeOK, IdleWorker
<1>14. ASSUME NEW d \in Deliveries, Enqueue(d) PROVE TypeOK'
  <2>1. PICK a \in authorized :
          row' = [row EXCEPT ![d] = Enqueued(a)]
    BY <1>14 DEF Enqueue
  <2>2. Enqueued(a) \in Row
    BY DeliveryAssumption DEF Enqueued, Row, Statuses, TypeOK
  <2>3. QED
    BY <1>14, <2>1, <2>2 DEF Enqueue, TypeOK
<1>15. ASSUME NEW d \in Deliveries, LeaseLapses(d) \/ RetryFallsDue(d) PROVE TypeOK'
  <2>1. [row[d] EXCEPT !.lapsed = TRUE] \in Row /\ [row[d] EXCEPT !.due = TRUE] \in Row
    BY DEF TypeOK, Row
  <2>2. QED
    BY <1>15, <2>1 DEF LeaseLapses, RetryFallsDue, TypeOK
<1>16. ASSUME NEW d \in Deliveries, LateArrival(d) PROVE TypeOK'
  BY <1>16, CarriedOutType DEF LateArrival, TypeOK
<1>17. ASSUME NEW a \in Approvers, Revoke(a) \/ Restore(a) PROVE TypeOK'
  BY <1>17 DEF Revoke, Restore, TypeOK
<1>18. CASE UNCHANGED vars
  BY <1>18 DEF vars, TypeOK
<1>19. QED
  BY <1>1, <1>2, <1>3, <1>4, <1>5, <1>6, <1>7, <1>8, <1>9, <1>10, <1>11, <1>12, <1>13, <1>14,
     <1>15, <1>16, <1>17, <1>18 DEF Next, RunOnce, Attempt, Answer, Clock

(* The rows, the workers and the platform keep their types, attempt_count      *)
(* stays within its column's check 0..3 (ck_platform_deliveries_attempt_count).*)
THEOREM TypeCorrect == Spec => []TypeOK
BY InitTypeOK, NextTypeOK, PTL DEF Spec

--------------------------------------------------------------------------------
(* Effects on the platform.                                                    *)

LEMMA RangeAppend ==
  ASSUME NEW S, NEW s \in Seq(S), NEW x \in S
  PROVE  Range(Append(s, x)) = Range(s) \cup {x}
<1>1. /\ DOMAIN s = 1..Len(s)
      /\ DOMAIN Append(s, x) = 1..(Len(s) + 1)
      /\ Append(s, x)[Len(s) + 1] = x
      /\ \A i \in 1..Len(s) : Append(s, x)[i] = s[i]
      /\ Len(s) \in Nat
  OBVIOUS
<1>2. Range(s) = {s[i] : i \in 1..Len(s)}
  BY <1>1 DEF Range
<1>3. Range(Append(s, x)) = {Append(s, x)[i] : i \in 1..(Len(s) + 1)}
  BY <1>1 DEF Range
<1>4. QED
  BY <1>1, <1>2, <1>3

LEMMA CarriedOutRange ==
  ASSUME TypeOK, NEW d \in Deliveries
  PROVE  Range(CarriedOut(d)) = Range(effects) \cup {d}
BY RangeAppend DEF CarriedOut, TypeOK

(* SucceededInOrder read on the rows themselves.                               *)
InOrder ==
  \A i, j \in 1..Len(effects) :
    effects[j] \in Older(effects[i]) /\ row[effects[j]].status = "succeeded" => j < i

LEMMA InOrderEquivalent == TypeOK => (SucceededInOrder <=> InOrder)
<1> SUFFICES ASSUME TypeOK PROVE SucceededInOrder <=> InOrder
  OBVIOUS
<1>1. \A i \in 1..Len(effects) : effects[i] \in Deliveries
  BY DEF TypeOK
<1>2. \A d \in Deliveries : Outcome(row[d]) = "succeeded" <=> row[d].status = "succeeded"
  BY DEF Outcome, Unfinished, TypeOK, Row, Statuses
<1>3. \A d : Contract!Older(d) = Older(d)
  BY DEF Contract!Older, Older, Contract!Deliveries, Deliveries
<1>4. QED
  BY <1>1, <1>2, <1>3 DEF SucceededInOrder, Contract!SucceededInOrder, InOrder

--------------------------------------------------------------------------------
(* What a step may do to the rows, the audits and the platform.                *)

(* Attempts are never taken back, settled rows never change, records never     *)
(* vanish and appear in version order; a first claim finds the predecessors settled; settling writes one   *)
(* audit; success needs the platform; requests are never undone.               *)
StepFacts ==
  /\ \A d \in Deliveries : row'[d].attempts >= row[d].attempts
  /\ \A d \in Deliveries : Terminal(row[d]) => row'[d] = row[d]
  /\ \A d \in Deliveries : row'[d].status = "absent" => row'[d] = row[d]
  /\ \A d \in Deliveries : row[d].status = "absent" /\ row'[d].status # "absent" =>
                              \A e \in Older(d) : row[e].status # "absent"
  /\ \A d \in Deliveries : row'[d].attempts > row[d].attempts =>
                              \A e \in Older(d) : Terminal(row'[e])
  /\ \A d \in Deliveries :
       \/ audits'[d] = audits[d] /\ (Terminal(row'[d]) <=> Terminal(row[d]))
       \/ audits'[d] = audits[d] + 1 /\ Terminal(row'[d]) /\ ~Terminal(row[d])
  /\ \A d \in Deliveries : row'[d].status = "succeeded" /\ row[d].status # "succeeded"
                              => d \in Range(effects)
  /\ Range(effects) \subseteq Range(effects')

LEMMA RowKept == IInv /\ row' = row /\ audits' = audits /\ Range(effects) \subseteq Range(effects')
                  => StepFacts
BY DEF IInv, TypeOK, Row, StepFacts

LEMMA SweepFacts ==
  ASSUME IInv, NEW S \in SUBSET Deliveries, \A d \in S : Exhausted(row[d])
  PROVE  /\ SweptRow(S) \in [Deliveries -> Row]
         /\ \A d \in Deliveries : /\ SweptRow(S)[d].attempts = row[d].attempts
                                  /\ Terminal(row[d]) => SweptRow(S)[d] = row[d]
                                  /\ SweptRow(S)[d].status = "absent" <=> row[d].status = "absent"
                                  /\ SweptRow(S)[d].status = "absent" => SweptRow(S)[d] = row[d]
                                  /\ SweptRow(S)[d].status = "succeeded" => row[d].status = "succeeded"
                                  /\ d \in S => Terminal(SweptRow(S)[d]) /\ ~Terminal(row[d])
                                  /\ d \notin S => SweptRow(S)[d] = row[d]
<1>1. \A d \in S : row[d].status = "processing"
  BY DEF Exhausted, LeaseExpired
<1>2. QED
  BY <1>1, SweptRowType DEF IInv, TypeOK, Terminal

LEMMA NextStepFacts == IInv /\ Next => StepFacts
<1> SUFFICES ASSUME IInv, Next PROVE StepFacts
  OBVIOUS
<1> TypeOK
  BY DEF IInv
<1>1. ASSUME NEW w \in Workers, Claim(w) PROVE StepFacts
  <2> PICK skipped \in SUBSET Deliveries :
         \E d \in Ready(SweptRow(Swept(skipped)), skipped) :
            /\ row' = [SweptRow(Swept(skipped)) EXCEPT ![d] = Leased(SweptRow(Swept(skipped))[d], w)]
            /\ audits' = SweptAudits(Swept(skipped))
    BY <1>1 DEF Claim
  <2> DEFINE S == Swept(skipped)
             rows == SweptRow(S)
  <2>1. PICK d \in Ready(rows, skipped) :
          row' = [rows EXCEPT ![d] = Leased(rows[d], w)] /\ audits' = SweptAudits(S)
    OBVIOUS
  <2>2. S \in SUBSET Deliveries /\ d \in Deliveries /\ \A e \in S : Exhausted(row[e])
    BY DEF Swept, Ready
  <2>3. /\ rows \in [Deliveries -> Row]
        /\ \A e \in Deliveries : /\ rows[e].attempts = row[e].attempts
                                 /\ Terminal(row[e]) => rows[e] = row[e]
                                 /\ rows[e].status = "absent" <=> row[e].status = "absent"
                                 /\ rows[e].status = "absent" => rows[e] = row[e]
                                 /\ rows[e].status = "succeeded" => row[e].status = "succeeded"
                                 /\ e \in S => Terminal(rows[e]) /\ ~Terminal(row[e])
                                 /\ e \notin S => rows[e] = row[e]
    BY <2>2, SweepFacts
  <2>4. /\ rows[d].status \in {"pending", "processing"}
        /\ rows[d].attempts < MaxAttempts
        /\ \A e \in Older(d) : ~Unfinished(rows[e])
    BY DEF Ready, Eligible, LeaseExpired, HasPredecessor
  <2> HIDE DEF S, rows
  <2>5. /\ Leased(rows[d], w).status = "processing"
        /\ Leased(rows[d], w).attempts = rows[d].attempts + 1
    BY <2>2, <2>3, <2>4, LeasedType
  <2>6. row'[d] = Leased(rows[d], w) /\ \A e \in Deliveries \ {d} : row'[e] = rows[e]
    BY <2>1, <2>2, <2>3
  <2>7. d \notin S /\ ~Terminal(row[d]) /\ row[d].status # "absent"
    BY <2>2, <2>3, <2>4 DEF Terminal
  <2>8. \A e \in Deliveries : row[e].attempts \in Nat
    BY DEF TypeOK, Row
  <2>9. \A e \in Older(d) : Terminal(row'[e])
    <3>1. \A e \in Older(d) : e \in Deliveries /\ e # d
      BY <2>2 DEF Older, Deliveries
    <3>2. \A e \in Older(d) : rows[e].status # "absent"
      BY <2>2, <2>3, <2>7, <3>1 DEF IInv, VersionsInOrder
    <3>3. \A e \in Older(d) : Terminal(rows[e])
      BY <2>3, <2>4, <3>1, <3>2 DEF Unfinished, Terminal, Row, Statuses
    <3>4. QED
      BY <2>6, <3>1, <3>3
  <2>10. \A e \in Deliveries : audits'[e] = IF e \in S THEN audits[e] + 1 ELSE audits[e]
    BY <2>1 DEF SweptAudits
  <2>11. effects' = effects
    BY <1>1 DEF Claim
  <2>12. \A e \in Deliveries : row'[e].attempts >= row[e].attempts
    BY <2>2, <2>3, <2>5, <2>6, <2>8
  <2>13. \A e \in Deliveries : row'[e].attempts > row[e].attempts => e = d
    BY <2>3, <2>6, <2>8
  <2>14. \A e \in Deliveries : Terminal(row[e]) => row'[e] = row[e]
    BY <2>3, <2>6, <2>7
  <2>15. ~Terminal(row'[d]) /\ row'[d].status \notin {"absent", "succeeded"}
    BY <2>5, <2>6 DEF Terminal
  <2>16. \A e \in Deliveries :
            \/ audits'[e] = audits[e] /\ (Terminal(row'[e]) <=> Terminal(row[e]))
            \/ audits'[e] = audits[e] + 1 /\ Terminal(row'[e]) /\ ~Terminal(row[e])
    BY <2>3, <2>6, <2>7, <2>10, <2>15
  <2>17. \A e \in Deliveries : /\ row'[e].status = "absent" => row'[e] = row[e]
                               /\ row[e].status = "absent" => row'[e].status = "absent"
                               /\ row'[e].status = "succeeded" => row[e].status = "succeeded"
    BY <2>3, <2>6, <2>7, <2>15
  <2>18. QED
    BY <2>9, <2>11, <2>12, <2>13, <2>14, <2>16, <2>17 DEF StepFacts
<1>2. ASSUME NEW w \in Workers, ClaimNothing(w) PROVE StepFacts
  <2>1. PICK skipped \in SUBSET Deliveries :
          row' = SweptRow(Swept(skipped)) /\ audits' = SweptAudits(Swept(skipped))
    BY <1>2 DEF ClaimNothing
  <2>2. Swept(skipped) \in SUBSET Deliveries /\ \A e \in Swept(skipped) : Exhausted(row[e])
    BY DEF Swept
  <2>3. \A e \in Deliveries :
          audits'[e] = IF e \in Swept(skipped) THEN audits[e] + 1 ELSE audits[e]
    BY <2>1 DEF SweptAudits
  <2>4. effects' = effects
    BY <1>2 DEF ClaimNothing
  <2>5. \A e \in Deliveries : row[e].attempts \in Nat
    BY DEF TypeOK, Row
  <2>6. \A e \in Deliveries : /\ row'[e].attempts = row[e].attempts
                              /\ Terminal(row[e]) => row'[e] = row[e]
                              /\ row'[e].status = "absent" <=> row[e].status = "absent"
                              /\ row'[e].status = "absent" => row'[e] = row[e]
                              /\ row'[e].status = "succeeded" => row[e].status = "succeeded"
                              /\ e \in Swept(skipped) => Terminal(row'[e]) /\ ~Terminal(row[e])
                              /\ e \notin Swept(skipped) => row'[e] = row[e]
    BY <2>1, <2>2, SweepFacts
  <2>7. QED
    BY <2>3, <2>4, <2>5, <2>6 DEF StepFacts
<1>3. ASSUME NEW w \in Workers, Report(w) PROVE StepFacts
  <2> DEFINE d == worker[w].job
  <2>1. d \in Deliveries /\ effects' = effects
    BY <1>3 DEF Report, TypeOK
  <2>2. CASE ~Owned(w, d)
    BY <1>3, <2>1, <2>2, RowKept DEF Report
  <2>3. CASE Owned(w, d)
    <3>1. row[d].status = "processing" /\ row[d] \in Row
      BY <2>1, <2>3 DEF Owned, TypeOK
    <3>2. \A s \in Statuses : /\ Released(row[d], s).status = s
                              /\ Released(row[d], s).attempts = row[d].attempts
      BY <3>1, ReleasedType
    <3>3. ASSUME NEW s \in {"succeeded", "failed"}, Settle(d, s),
                 s = "succeeded" => d \in Range(effects)
          PROVE  StepFacts
      <4>1. row'[d] = Released(row[d], s) /\ \A e \in Deliveries \ {d} : row'[e] = row[e]
        BY <2>1, <3>3 DEF Settle, TypeOK
      <4>2. audits'[d] = audits[d] + 1 /\ \A e \in Deliveries \ {d} : audits'[e] = audits[e]
        BY <2>1, <3>3 DEF Settle, TypeOK
      <4>3. row'[d].status = s /\ row'[d].attempts = row[d].attempts
        BY <3>2, <4>1 DEF Statuses
      <4>4. \A e \in Deliveries : row[e].attempts \in Nat
        BY DEF TypeOK, Row
      <4>5. QED
        BY <2>1, <3>1, <3>3, <4>1, <4>2, <4>3, <4>4 DEF StepFacts, Terminal
    <3>4. ASSUME row' = [row EXCEPT ![d] = Released(row[d], "pending")], UNCHANGED audits
          PROVE  StepFacts
      <4>1. row'[d] = Released(row[d], "pending") /\ \A e \in Deliveries \ {d} : row'[e] = row[e]
        BY <2>1, <3>4 DEF TypeOK
      <4>2. row'[d].status = "pending" /\ row'[d].attempts = row[d].attempts
        BY <3>2, <4>1 DEF Statuses
      <4>3. \A e \in Deliveries : row[e].attempts \in Nat
        BY DEF TypeOK, Row
      <4>4. QED
        BY <2>1, <3>1, <3>4, <4>1, <4>2, <4>3 DEF StepFacts, Terminal
    <3>5. worker[w].outcome = "ok" => d \in Range(effects)
      BY <1>3 DEF Report, IInv, AnswersTrue
    <3>6. Transition(w)
      BY <1>3, <2>3 DEF Report
    <3>7. \/ worker[w].outcome = "ok" /\ Complete(d)
          \/ ReturnForRetry(d)
          \/ Fail(d)
      BY <3>6 DEF Transition
    <3>8. CASE worker[w].outcome = "ok" /\ Complete(d)
      BY <3>3, <3>5, <3>8 DEF Complete
    <3>9. CASE ReturnForRetry(d)
      BY <3>3, <3>4, <3>9 DEF ReturnForRetry
    <3>10. CASE Fail(d)
      BY <3>3, <3>10 DEF Fail
    <3>11. QED
      BY <3>7, <3>8, <3>9, <3>10
  <2>4. QED
    BY <2>2, <2>3
<1>4. ASSUME NEW d \in Deliveries, Enqueue(d) PROVE StepFacts
  <2>1. PICK a \in authorized : row' = [row EXCEPT ![d] = Enqueued(a)]
    BY <1>4 DEF Enqueue
  <2>2. row'[d] = Enqueued(a) /\ \A e \in Deliveries \ {d} : row'[e] = row[e]
    BY <2>1 DEF TypeOK
  <2>3. row'[d].status = "pending" /\ row'[d].attempts = 0
    BY <2>2 DEF Enqueued
  <2>4. /\ row[d].status = "absent" /\ row[d].attempts = 0 /\ audits' = audits /\ effects' = effects
        /\ \A e \in Older(d) : row[e].status # "absent"
    BY <1>4 DEF Enqueue, IInv, AbsentUnclaimed
  <2>5. \A e \in Deliveries : row[e].attempts \in Nat
    BY DEF TypeOK, Row
  <2>6. QED
    BY <2>2, <2>3, <2>4, <2>5 DEF StepFacts, Terminal
<1>5. ASSUME NEW d \in Deliveries, LeaseLapses(d) \/ RetryFallsDue(d) PROVE StepFacts
  <2>1. /\ \A e \in Deliveries \ {d} : row'[e] = row[e]
        /\ row'[d].status = row[d].status /\ row'[d].attempts = row[d].attempts
        /\ row[d].status \in {"pending", "processing"}
        /\ audits' = audits /\ effects' = effects
    BY <1>5 DEF LeaseLapses, RetryFallsDue, TypeOK, Row
  <2>2. \A e \in Deliveries : row[e].attempts \in Nat
    BY DEF TypeOK, Row
  <2>3. QED
    BY <2>1, <2>2 DEF StepFacts, Terminal
<1>6. ASSUME NEW w \in Workers, Accepted(w) \/ AcceptedUnread(w) PROVE StepFacts
  <2>1. worker[w].job \in Deliveries
    BY <1>6 DEF Accepted, AcceptedUnread, TypeOK
  <2>2. QED
    BY <1>6, <2>1, CarriedOutRange, RowKept DEF Accepted, AcceptedUnread
<1>7. ASSUME NEW d \in Deliveries, LateArrival(d) PROVE StepFacts
  BY <1>7, CarriedOutRange, RowKept DEF LateArrival
<1>8. ASSUME NEW w \in Workers,
             Load(w) \/ ObtainToken(w) \/ Authorize(w) \/ SendRequest(w) \/ TokenRejected(w) \/ Rejected(w)
               \/ TimedOut(w) \/ Crash(w) \/ Restart(w)
      PROVE  StepFacts
  BY <1>8, RowKept DEF Load, ObtainToken, Authorize, SendRequest, TokenRejected, Rejected, TimedOut, Crash, Restart
<1>9. ASSUME NEW a \in Approvers, Revoke(a) \/ Restore(a) PROVE StepFacts
  BY <1>9, RowKept DEF Revoke, Restore
<1>10. QED
  BY <1>1, <1>2, <1>3, <1>4, <1>5, <1>6, <1>7, <1>8, <1>9 DEF Next, RunOnce, Attempt, Answer, Clock

--------------------------------------------------------------------------------
(* The inductive invariant.                                                    *)

LEMMA InitIInv == Init => IInv
<1> SUFFICES ASSUME Init PROVE IInv
  OBVIOUS
<1>1. TypeOK
  BY InitTypeOK
<1>2. /\ \A d \in Deliveries : row[d].status = "absent" /\ row[d].attempts = 0 /\ audits[d] = 0
      /\ \A w \in Workers : worker[w].pc = "idle"
      /\ Len(effects) = 0 /\ Range(effects) = {} /\ late = {}
  BY DEF Init, AbsentRow, IdleWorker, Range
<1>3. InOrder
  BY <1>2 DEF InOrder
<1>4. OneTerminalAudit /\ NoOvertaking /\ SucceededOnPlatform
  BY <1>2 DEF OneTerminalAudit, NoOvertaking, SucceededOnPlatform, Terminal
<1>5. VersionsInOrder /\ AbsentUnclaimed /\ RequestsClaimed
  BY <1>2 DEF VersionsInOrder, AbsentUnclaimed, RequestsClaimed
<1>6. WorkClaimed /\ AnswersTrue /\ CurrentAttempt
  BY <1>2 DEF WorkClaimed, AnswersTrue, CurrentAttempt, Working
<1>7. QED
  BY <1>1, <1>3, <1>4, <1>5, <1>6, InOrderEquivalent DEF IInv

(* Where the platform's effects and the requests on their way come from.       *)
LEMMA RequestSteps ==
  ASSUME IInv, Next
  PROVE  /\ \/ effects' = effects
            \/ row' = row /\ \E d \in Deliveries : effects' = CarriedOut(d) /\ row[d].attempts > 0
         /\ \A d \in late' : d \in late \/ (d \in Deliveries /\ row[d].attempts > 0)
<1> TypeOK /\ WorkClaimed /\ RequestsClaimed
  BY DEF IInv
<1>1. ASSUME NEW w \in Workers, RunOnce(w) \/ Attempt(w) \/ Crash(w) \/ Restart(w)
      PROVE  /\ \/ effects' = effects
                \/ row' = row /\ \E d \in Deliveries : effects' = CarriedOut(d) /\ row[d].attempts > 0
             /\ \A d \in late' : d \in late \/ (d \in Deliveries /\ row[d].attempts > 0)
  <2>1. worker[w].pc = "waiting" => worker[w].job \in Deliveries /\ row[worker[w].job].attempts > 0
    BY DEF TypeOK, WorkClaimed, Working
  <2>2. CASE RunOnce(w) \/ Load(w) \/ ObtainToken(w) \/ Authorize(w) \/ SendRequest(w) \/ Report(w) \/ Restart(w)
               \/ TokenRejected(w) \/ Rejected(w)
    <3>1. effects' = effects /\ late' = late
      BY <2>2 DEF RunOnce, Claim, ClaimNothing, Load, ObtainToken, Authorize, SendRequest, Report, Restart,
         TokenRejected, Rejected
    <3>2. QED
      BY <3>1
  <2>3. CASE Accepted(w) \/ AcceptedUnread(w)
    BY <2>1, <2>3 DEF Accepted, AcceptedUnread
  <2>4. CASE TimedOut(w) \/ Crash(w)
    BY <2>1, <2>4 DEF TimedOut, Crash
  <2>5. QED
    BY <1>1, <2>2, <2>3, <2>4 DEF Attempt, Answer
<1>2. ASSUME NEW d \in Deliveries, Enqueue(d) \/ Clock(d) \/ LateArrival(d)
      PROVE  /\ \/ effects' = effects
                \/ row' = row /\ \E e \in Deliveries : effects' = CarriedOut(e) /\ row[e].attempts > 0
             /\ \A e \in late' : e \in late \/ (e \in Deliveries /\ row[e].attempts > 0)
  BY <1>2 DEF Enqueue, Clock, LeaseLapses, RetryFallsDue, LateArrival, RequestsClaimed
<1>3. ASSUME NEW a \in Approvers, Revoke(a) \/ Restore(a)
      PROVE  effects' = effects /\ late' = late
  BY <1>3 DEF Revoke, Restore
<1>4. QED
  BY <1>1, <1>2, <1>3 DEF Next

LEMMA InOrderStep ==
  ASSUME IInv, Next, StepFacts, InOrder
  PROVE  InOrder'
<1> TypeOK /\ NoOvertaking /\ SucceededOnPlatform /\ RequestsClaimed
  BY DEF IInv
<1>1. /\ \A i \in 1..Len(effects) : effects[i] \in Range(effects) /\ effects[i] \in Deliveries
      /\ Len(effects) \in Nat
  BY DEF TypeOK, Range
<1>2. CASE effects' = effects
  <2> SUFFICES ASSUME NEW i \in 1..Len(effects), NEW j \in 1..Len(effects),
                      effects[j] \in Older(effects[i]), row'[effects[j]].status = "succeeded"
               PROVE  j < i
    BY <1>2 DEF InOrder
  <2>1. Terminal(row[effects[j]])
    BY <1>1 DEF RequestsClaimed, NoOvertaking
  <2>2. row'[effects[j]] = row[effects[j]]
    BY <1>1, <2>1 DEF StepFacts
  <2>3. QED
    BY <2>2 DEF InOrder
<1>3. ASSUME row' = row, NEW d \in Deliveries, effects' = CarriedOut(d) PROVE InOrder'
  <2>1. CASE d \in Range(effects)
    BY <1>3, <2>1 DEF CarriedOut, InOrder
  <2>2. CASE d \notin Range(effects)
    <3>1. /\ effects' = Append(effects, d)
          /\ Len(effects') = Len(effects) + 1
          /\ effects'[Len(effects) + 1] = d
          /\ \A i \in 1..Len(effects) : effects'[i] = effects[i]
      BY <1>3, <2>2 DEF CarriedOut, TypeOK
    <3>2. row[d].status # "succeeded"
      BY <2>2 DEF SucceededOnPlatform
    <3>3. d \notin Older(d)
      BY DEF Older, Deliveries
    <3> SUFFICES ASSUME NEW i \in 1..(Len(effects) + 1), NEW j \in 1..(Len(effects) + 1),
                        effects'[j] \in Older(effects'[i]), row[effects'[j]].status = "succeeded"
                 PROVE  j < i
      BY <1>3, <3>1 DEF InOrder
    <3>4. j \in 1..Len(effects)
      BY <1>1, <3>1, <3>2
    <3>5. CASE i = Len(effects) + 1
      BY <1>1, <3>4, <3>5
    <3>6. CASE i \in 1..Len(effects)
      BY <3>1, <3>4, <3>6 DEF InOrder
    <3>7. QED
      BY <1>1, <3>5, <3>6
  <2>3. QED
    BY <2>1, <2>2
<1>4. QED
  BY <1>2, <1>3, RequestSteps

(* A worker's job is the one it had, or one it has just claimed.               *)
LEMMA WorkerSteps ==
  ASSUME IInv, Next, NEW w \in Workers, Working(w)'
  PROVE  \/ /\ Working(w)
            /\ worker'[w].job = worker[w].job
            /\ worker'[w].attempt = worker[w].attempt
            /\ worker'[w].pc = "report" /\ worker'[w].outcome = "ok" =>
                  \/ worker'[w] = worker[w]
                  \/ worker[w].job \in Range(effects')
         \/ /\ worker'[w].job \in Deliveries
            /\ row'[worker'[w].job].attempts = worker'[w].attempt
            /\ worker'[w].attempt > 0
            /\ worker'[w].pc = "load"
<1> TypeOK
  BY DEF IInv
<1> DEFINE Goal == \/ /\ Working(w)
                      /\ worker'[w].job = worker[w].job
                      /\ worker'[w].attempt = worker[w].attempt
                      /\ worker'[w].pc = "report" /\ worker'[w].outcome = "ok" =>
                            \/ worker'[w] = worker[w]
                            \/ worker[w].job \in Range(effects')
                   \/ /\ worker'[w].job \in Deliveries
                      /\ row'[worker'[w].job].attempts = worker'[w].attempt
                      /\ worker'[w].attempt > 0
                      /\ worker'[w].pc = "load"
<1>0. worker'[w] = worker[w] => Goal
  BY DEF Working
<1>1. ASSUME NEW v \in Workers, Claim(v) PROVE Goal
  <2> PICK skipped \in SUBSET Deliveries :
         \E d \in Ready(SweptRow(Swept(skipped)), skipped) :
            /\ row' = [SweptRow(Swept(skipped)) EXCEPT ![d] = Leased(SweptRow(Swept(skipped))[d], v)]
            /\ worker' = [worker EXCEPT ![v] = Loading(d, row[d].attempts + 1)]
    BY <1>1 DEF Claim
  <2> PICK d \in Ready(SweptRow(Swept(skipped)), skipped) :
         /\ row' = [SweptRow(Swept(skipped)) EXCEPT ![d] = Leased(SweptRow(Swept(skipped))[d], v)]
         /\ worker' = [worker EXCEPT ![v] = Loading(d, row[d].attempts + 1)]
    OBVIOUS
  <2>1. Swept(skipped) \in SUBSET Deliveries /\ d \in Deliveries
    BY DEF Swept, Ready
  <2>2. /\ SweptRow(Swept(skipped)) \in [Deliveries -> Row]
        /\ SweptRow(Swept(skipped))[d].attempts = row[d].attempts
        /\ row[d].attempts \in Nat
    BY <2>1, SweptRowType DEF TypeOK, Row
  <2>3. row'[d].attempts = row[d].attempts + 1
    BY <2>1, <2>2 DEF Leased
  <2>4. CASE v = w
    <3>1. worker'[w] = Loading(d, row[d].attempts + 1)
      BY <2>4 DEF TypeOK
    <3>2. QED
      BY <2>1, <2>2, <2>3, <3>1 DEF Loading
  <2>5. CASE v # w
    BY <1>0, <2>5 DEF TypeOK
  <2>6. QED
    BY <2>4, <2>5
<1>2. ASSUME NEW v \in Workers, v # w,
             ClaimNothing(v) \/ Attempt(v) \/ Crash(v) \/ Restart(v)
      PROVE  Goal
  <2>1. worker'[w] = worker[w]
    BY <1>2 DEF ClaimNothing, Attempt, Answer, Crash, Restart, Load, ObtainToken, Authorize, SendRequest, Accepted,
       AcceptedUnread, TokenRejected, Rejected, TimedOut, Report, Concluded, GoTo, EndAttempt, TypeOK
  <2>2. QED
    BY <1>0, <2>1
<1>3. ASSUME ClaimNothing(w) PROVE Goal
  BY <1>0, <1>3 DEF ClaimNothing
<1>4. ASSUME Load(w) \/ ObtainToken(w) \/ Authorize(w) \/ SendRequest(w) \/ AcceptedUnread(w) \/ Rejected(w) \/ TimedOut(w)
      PROVE  Goal
  <2>1. \/ \E o \in {"retryable", "fatal"} : Concluded(w, o)
        \/ \E pc \in {"token", "request", "send", "waiting"} : GoTo(w, pc)
    BY <1>4 DEF Load, ObtainToken, Authorize, SendRequest, AcceptedUnread, Rejected, TimedOut
  <2>2. Working(w)
    BY <1>4 DEF Load, ObtainToken, Authorize, SendRequest, AcceptedUnread, Rejected, TimedOut, Working
  <2>3. QED
    BY <2>1, <2>2 DEF Concluded, GoTo, TypeOK, Worker
<1>5. ASSUME Accepted(w) PROVE Goal
  <2>1. worker[w].job \in Range(effects') /\ Working(w)
    BY <1>5, CarriedOutRange DEF Accepted, TypeOK, Working
  <2>2. QED
    BY <1>5, <2>1 DEF Accepted, Concluded, TypeOK, Worker
<1>6. ASSUME TokenRejected(w) PROVE Goal
  <2>1. Working(w)
    BY <1>6 DEF TokenRejected, Working
  <2>2. CASE worker[w].renewed
    BY <1>6, <2>1, <2>2 DEF TokenRejected, Concluded, TypeOK, Worker
  <2>3. CASE ~worker[w].renewed
    BY <1>6, <2>1, <2>3 DEF TokenRejected, TypeOK, Worker
  <2>4. QED
    BY <2>2, <2>3
<1>7. ASSUME Report(w) \/ Crash(w) \/ Restart(w) PROVE Goal
  <2>1. worker'[w].pc \in {"idle", "down"}
    BY <1>7 DEF Report, Crash, Restart, EndAttempt, IdleWorker, DownWorker, TypeOK
  <2>2. QED
    BY <2>1 DEF Working
<1>8. ASSUME NEW d \in Deliveries, Enqueue(d) \/ Clock(d) \/ LateArrival(d) PROVE Goal
  BY <1>0, <1>8 DEF Enqueue, Clock, LeaseLapses, RetryFallsDue, LateArrival
<1>9. ASSUME NEW a \in Approvers, Revoke(a) \/ Restore(a) PROVE Goal
  BY <1>0, <1>9 DEF Revoke, Restore
<1>10. QED
  BY <1>1, <1>2, <1>3, <1>4, <1>5, <1>6, <1>7, <1>8, <1>9 DEF Next, RunOnce, Attempt, Answer

(* A lease is live because it was, or because its owner has just claimed.      *)
LEMMA LeaseSteps ==
  ASSUME IInv, Next, NEW w \in Workers, NEW d \in Deliveries, Owned(w, d)'
  PROVE  \/ Owned(w, d) /\ row'[d].attempts = row[d].attempts
         \/ /\ worker'[w].job = d
            /\ worker'[w].attempt = row'[d].attempts
<1> TypeOK
  BY DEF IInv
<1> DEFINE Goal == \/ Owned(w, d) /\ row'[d].attempts = row[d].attempts
                   \/ worker'[w].job = d /\ worker'[w].attempt = row'[d].attempts
<1>0. row'[d] = row[d] => Goal
  BY DEF Owned
<1>1. ASSUME NEW v \in Workers, Claim(v) PROVE Goal
  <2> PICK skipped \in SUBSET Deliveries :
         \E e \in Ready(SweptRow(Swept(skipped)), skipped) :
            /\ row' = [SweptRow(Swept(skipped)) EXCEPT ![e] = Leased(SweptRow(Swept(skipped))[e], v)]
            /\ worker' = [worker EXCEPT ![v] = Loading(e, row[e].attempts + 1)]
    BY <1>1 DEF Claim
  <2> PICK e \in Ready(SweptRow(Swept(skipped)), skipped) :
         /\ row' = [SweptRow(Swept(skipped)) EXCEPT ![e] = Leased(SweptRow(Swept(skipped))[e], v)]
         /\ worker' = [worker EXCEPT ![v] = Loading(e, row[e].attempts + 1)]
    OBVIOUS
  <2>1. Swept(skipped) \in SUBSET Deliveries /\ e \in Deliveries
    BY DEF Swept, Ready
  <2>2. /\ SweptRow(Swept(skipped)) \in [Deliveries -> Row]
        /\ SweptRow(Swept(skipped))[e].attempts = row[e].attempts
        /\ d \in Swept(skipped) => SweptRow(Swept(skipped))[d].status = "failed"
        /\ d \notin Swept(skipped) => SweptRow(Swept(skipped))[d] = row[d]
    BY <2>1, SweptRowType DEF TypeOK
  <2>3. CASE d = e
    <3>1. row'[d].owner = v /\ row'[d].attempts = row[d].attempts + 1
      BY <2>1, <2>2, <2>3 DEF Leased
    <3>2. v = w
      BY <3>1 DEF Owned
    <3>3. QED
      BY <2>3, <3>1, <3>2 DEF Loading, TypeOK
  <2>4. CASE d # e
    <3>1. row'[d] = SweptRow(Swept(skipped))[d]
      BY <2>1, <2>2, <2>4
    <3>2. d \notin Swept(skipped)
      BY <2>2, <3>1 DEF Owned
    <3>3. QED
      BY <1>0, <2>2, <3>1, <3>2
  <2>5. QED
    BY <2>3, <2>4
<1>2. ASSUME NEW v \in Workers, ClaimNothing(v) PROVE Goal
  <2>1. PICK skipped \in SUBSET Deliveries : row' = SweptRow(Swept(skipped))
    BY <1>2 DEF ClaimNothing
  <2>2. Swept(skipped) \in SUBSET Deliveries
    BY DEF Swept
  <2>3. /\ d \in Swept(skipped) => row'[d].status = "failed"
        /\ d \notin Swept(skipped) => row'[d] = row[d]
    BY <2>1, <2>2, SweptRowType DEF TypeOK
  <2>4. QED
    BY <1>0, <2>3 DEF Owned
<1>3. ASSUME NEW v \in Workers, Report(v) PROVE Goal
  <2>1. worker[v].job \in Deliveries
    BY <1>3 DEF Report, TypeOK
  <2>2. \/ row' = row
        \/ \E s \in {"pending", "succeeded", "failed"} :
             row' = [row EXCEPT ![worker[v].job] = Released(row[worker[v].job], s)]
    BY <1>3 DEF Report, Transition, Complete, ReturnForRetry, Fail, Settle
  <2>3. \A s \in {"pending", "succeeded", "failed"} :
          Released(row[worker[v].job], s).status # "processing"
    BY DEF Released
  <2>4. row'[d] = row[d] \/ row'[d].status # "processing"
    BY <2>1, <2>2, <2>3 DEF TypeOK
  <2>5. QED
    BY <1>0, <2>4 DEF Owned
<1>4. ASSUME NEW e \in Deliveries, Enqueue(e) PROVE Goal
  BY <1>0, <1>4 DEF Enqueue, Enqueued, Owned, TypeOK
<1>5. ASSUME NEW e \in Deliveries, Clock(e) PROVE Goal
  BY <1>5 DEF Clock, LeaseLapses, RetryFallsDue, Owned, TypeOK, Row
<1>6. ASSUME row' = row PROVE Goal
  BY <1>0, <1>6
<1>7. QED
  BY <1>1, <1>2, <1>3, <1>4, <1>5, <1>6 DEF Next, RunOnce, Attempt, Answer, Load, ObtainToken, Authorize,
     SendRequest, Accepted, AcceptedUnread, TokenRejected, Rejected, TimedOut, Crash, Restart,
     LateArrival, Revoke, Restore

LEMMA NextIInv == IInv /\ [Next]_vars => IInv'
<1>1. ASSUME IInv, Next PROVE IInv'
  <2> TypeOK /\ TypeOK'
    BY <1>1, NextTypeOK DEF IInv
  <2>1. StepFacts
    BY <1>1, NextStepFacts
  <2>2. \A d \in Deliveries : row[d].attempts \in Nat /\ row'[d].attempts \in Nat
    BY DEF TypeOK, Row
  <2>3. \A d \in Deliveries : \A e \in Older(d) : e \in Deliveries
    BY DEF Older
  <2>4. OneTerminalAudit'
    BY <1>1, <2>1 DEF IInv, OneTerminalAudit, StepFacts
  <2>5. NoOvertaking'
    BY <1>1, <2>1, <2>2, <2>3 DEF IInv, NoOvertaking, StepFacts
  <2>6. SucceededOnPlatform'
    <3> SUFFICES ASSUME NEW d \in Deliveries, row'[d].status = "succeeded" PROVE d \in Range(effects')
      BY DEF SucceededOnPlatform
    <3>1. d \in Range(effects)
      BY <1>1, <2>1 DEF IInv, SucceededOnPlatform, StepFacts
    <3>2. QED
      BY <2>1, <3>1 DEF StepFacts
  <2>7. SucceededInOrder'
    <3>1. InOrder
      BY <1>1, InOrderEquivalent DEF IInv
    <3>2. InOrder'
      BY <1>1, <2>1, <3>1, InOrderStep
    <3>3. (TypeOK => (SucceededInOrder <=> InOrder))'
      BY InOrderEquivalent, PTL
    <3>4. QED
      BY <3>2, <3>3
  <2>8. VersionsInOrder'
    BY <1>1, <2>1, <2>3 DEF IInv, VersionsInOrder, StepFacts
  <2>9. AbsentUnclaimed'
    BY <1>1, <2>1 DEF IInv, AbsentUnclaimed, StepFacts
  <2>10. WorkClaimed'
    <3> SUFFICES ASSUME NEW w \in Workers, Working(w)' PROVE row'[worker'[w].job].attempts > 0
      BY DEF WorkClaimed
    <3>1. Working(w) => worker[w].job \in Deliveries /\ row[worker[w].job].attempts > 0
      BY <1>1 DEF IInv, WorkClaimed, TypeOK, Working
    <3>2. QED
      BY <1>1, <2>1, <2>2, <3>1, WorkerSteps DEF StepFacts
  <2>11. RequestsClaimed'
    <3>1. \A d \in late \cup Range(effects) : d \in Deliveries /\ row'[d].attempts > 0
      <4>1. Range(effects) \subseteq Deliveries /\ late \subseteq Deliveries
        BY DEF TypeOK, Range
      <4>2. QED
        BY <1>1, <2>1, <2>2, <4>1 DEF IInv, RequestsClaimed, StepFacts
    <3>2. \A d \in late' : row'[d].attempts > 0
      BY <1>1, <2>1, <2>2, <3>1, RequestSteps DEF StepFacts
    <3>3. \A d \in Range(effects') : row'[d].attempts > 0
      BY <1>1, <3>1, RequestSteps, CarriedOutRange
    <3>4. QED
      BY <3>2, <3>3 DEF RequestsClaimed
  <2>12. AnswersTrue'
    <3> SUFFICES ASSUME NEW w \in Workers, worker'[w].pc = "report", worker'[w].outcome = "ok"
                 PROVE  worker'[w].job \in Range(effects')
      BY DEF AnswersTrue
    <3>1. Working(w)'
      BY DEF Working
    <3>2. \/ worker'[w] = worker[w]
          \/ worker'[w].job = worker[w].job /\ worker[w].job \in Range(effects')
      BY <1>1, <3>1, WorkerSteps
    <3>3. QED
      BY <1>1, <2>1, <3>2 DEF IInv, AnswersTrue, StepFacts
  <2>13. CurrentAttempt'
    <3> SUFFICES ASSUME NEW w \in Workers, NEW d \in Deliveries,
                        Working(w)', worker'[w].job = d, Owned(w, d)'
                 PROVE  worker'[w].attempt = row'[d].attempts
      BY DEF CurrentAttempt, Owned, TypeOK, Working
    <3>1. CASE Owned(w, d) /\ row'[d].attempts = row[d].attempts
      <4>1. CASE Working(w) /\ worker[w].job = d /\ worker'[w].attempt = worker[w].attempt
        BY <1>1, <3>1, <4>1 DEF IInv, CurrentAttempt
      <4>2. QED
        BY <1>1, <4>1, WorkerSteps
    <3>2. QED
      BY <1>1, <3>1, LeaseSteps
  <2>14. QED
    BY <2>4, <2>5, <2>6, <2>7, <2>8, <2>9, <2>10, <2>11, <2>12, <2>13 DEF IInv
<1>2. ASSUME IInv, UNCHANGED vars PROVE IInv'
  <2>1. TypeOK' /\ TypeOK
    BY <1>2, NextTypeOK DEF IInv
  <2>2. SucceededInOrder'
    BY <1>2 DEF IInv, vars, SucceededInOrder, Contract!SucceededInOrder
  <2>3. QED
    BY <1>2, <2>1, <2>2 DEF IInv, vars, OneTerminalAudit, NoOvertaking, SucceededOnPlatform,
       VersionsInOrder, AbsentUnclaimed, WorkClaimed, RequestsClaimed, AnswersTrue, CurrentAttempt,
       Working, Owned
<1>3. QED
  BY <1>1, <1>2

(* The invariant holds in every reachable state; its parts follow.             *)
THEOREM Invariance == Spec => []IInv
BY InitIInv, NextIInv, PTL DEF Spec

--------------------------------------------------------------------------------
(* The properties.                                                             *)

(* One terminal audit per settled delivery, whoever settles it: the sweep of   *)
(* the claim, a completion, a failure or an exhausted retry.                   *)
THEOREM OneTerminalAuditHolds == Spec => []OneTerminalAudit
BY Invariance, PTL DEF IInv

(* An unfinished older version of the product is never overtaken by a claim.   *)
THEOREM NoOvertakingHolds == Spec => []NoOvertaking
BY Invariance, PTL DEF IInv

(* A succeeded delivery was carried out by the platform.                       *)
THEOREM SucceededOnPlatformHolds == Spec => []SucceededOnPlatform
BY Invariance, PTL DEF IInv

(* A succeeded version took effect before every newer version of its product,  *)
(* although requests that outlive their attempt may arrive at any time.        *)
THEOREM SucceededInOrderHolds == Spec => []SucceededInOrder
BY Invariance, PTL DEF IInv

(* The guard of the owner's transition and the sequential worker together      *)
(* fence every other writer off a live lease.                                  *)
LEMMA LeaseRespectedStep ==
  ASSUME IInv, Next, NEW d \in Deliveries, Owned(row[d].owner, d), row'[d] # row[d]
  PROVE  LET w == worker[row[d].owner] IN
         \/ row'[d] = [row[d] EXCEPT !.lapsed = TRUE]
         \/ w.pc = "report" /\ w.job = d /\ w.attempt = row[d].attempts
<1> TypeOK
  BY DEF IInv
<1> DEFINE w == row[d].owner
           Goal == \/ row'[d] = [row[d] EXCEPT !.lapsed = TRUE]
                   \/ /\ worker[w].pc = "report"
                      /\ worker[w].job = d
                      /\ worker[w].attempt = row[d].attempts
<1>1. ASSUME NEW v \in Workers, Claim(v) PROVE FALSE
  <2> PICK skipped \in SUBSET Deliveries :
         \E e \in Ready(SweptRow(Swept(skipped)), skipped) :
            row' = [SweptRow(Swept(skipped)) EXCEPT ![e] = Leased(SweptRow(Swept(skipped))[e], v)]
    BY <1>1 DEF Claim
  <2> PICK e \in Ready(SweptRow(Swept(skipped)), skipped) :
         row' = [SweptRow(Swept(skipped)) EXCEPT ![e] = Leased(SweptRow(Swept(skipped))[e], v)]
    OBVIOUS
  <2>1. Swept(skipped) \in SUBSET Deliveries /\ e \in Deliveries /\ d \notin Swept(skipped)
    BY DEF Swept, Ready, Exhausted, LeaseExpired, Owned
  <2>2. /\ SweptRow(Swept(skipped)) \in [Deliveries -> Row]
        /\ SweptRow(Swept(skipped))[d] = row[d]
    BY <2>1, SweptRowType DEF TypeOK
  <2>3. d # e
    BY <2>2 DEF Ready, Eligible, LeaseExpired, Owned
  <2>4. QED
    BY <2>1, <2>2, <2>3
<1>2. ASSUME NEW v \in Workers, ClaimNothing(v) PROVE FALSE
  <2>1. PICK skipped \in SUBSET Deliveries : row' = SweptRow(Swept(skipped))
    BY <1>2 DEF ClaimNothing
  <2>2. d \notin Swept(skipped)
    BY DEF Swept, Exhausted, LeaseExpired, Owned
  <2>3. QED
    BY <2>1, <2>2 DEF SweptRow
<1>3. ASSUME NEW v \in Workers, Report(v) PROVE Goal
  <2>1. row' # row
    OBVIOUS
  <2>2. Owned(v, worker[v].job) /\ worker[v].pc = "report" /\ worker[v].job \in Deliveries
    BY <1>3, <2>1 DEF Report, TypeOK
  <2>3. worker[v].job = d
    BY <1>3, <2>2 DEF Report, Transition, Complete, ReturnForRetry, Fail, Settle, TypeOK
  <2>4. v = row[d].owner
    BY <2>2, <2>3 DEF Owned
  <2>5. worker[v].attempt = row[d].attempts
    BY <2>2, <2>3 DEF IInv, CurrentAttempt, Working
  <2>6. QED
    BY <2>2, <2>3, <2>4, <2>5
<1>4. ASSUME NEW e \in Deliveries, Enqueue(e) PROVE FALSE
  BY <1>4 DEF Enqueue, Owned, TypeOK
<1>5. ASSUME NEW e \in Deliveries, Clock(e) PROVE Goal
  BY <1>5 DEF Clock, LeaseLapses, RetryFallsDue, Owned, TypeOK
<1>6. ASSUME row' = row PROVE FALSE
  BY <1>6
<1>7. QED
  BY <1>1, <1>2, <1>3, <1>4, <1>5, <1>6 DEF Next, RunOnce, Attempt, Answer, Load, ObtainToken, Authorize,
     SendRequest, Accepted, AcceptedUnread, TokenRejected, Rejected, TimedOut, Crash, Restart,
     LateArrival, Revoke, Restore

(* While a lease is live only its owner, on the current attempt, changes the   *)
(* row.                                                                        *)
THEOREM LeaseRespectedHolds == Spec => LeaseRespected
<1>1. IInv /\ [Next]_vars =>
        [\A d \in Deliveries :
           Owned(row[d].owner, d) /\ row'[d] # row[d] =>
             LET w == worker[row[d].owner] IN
             \/ row'[d] = [row[d] EXCEPT !.lapsed = TRUE]
             \/ w.pc = "report" /\ w.job = d /\ w.attempt = row[d].attempts]_vars
  BY LeaseRespectedStep
<1>2. QED
  BY <1>1, Invariance, PTL DEF Spec, LeaseRespected

(* A settled delivery is never rewritten.                                      *)
THEOREM SettledForGoodHolds == Spec => SettledForGood
<1>1. IInv /\ [Next]_vars =>
        [\A d \in Deliveries : Terminal(row[d]) => row'[d] = row[d]]_vars
  BY NextStepFacts DEF StepFacts
<1>2. QED
  BY <1>1, Invariance, PTL DEF Spec, SettledForGood

(* What a withdrawal of authority still lets leave.                            *)

LEMMA OneProcessMoves ==
  ASSUME TypeOK, NEW u \in Workers, NEW w \in Workers, NEW to,
         worker' = [worker EXCEPT ![u] = to], to.pc \notin {"send", "waiting"}
  PROVE  worker'[w].pc \in {"send", "waiting"} => worker'[w] = worker[w]
BY DEF TypeOK

(* A request leaves only after a check, and a check is passed only by a worker *)
(* whose approver has the authority in that very step.                         *)
LEMMA CheckThenSend ==
  ASSUME TypeOK, Next, NEW w \in Workers, worker'[w] # worker[w]
  PROVE  /\ worker'[w].pc = "waiting" => Checked(w)
         /\ worker'[w].pc = "send" => /\ PublishAuthorized(worker[w].job)
                                      /\ worker'[w].job = worker[w].job
                                      /\ UNCHANGED <<row, authorized>>
<1> DEFINE Elsewhere == worker'[w].pc \notin {"send", "waiting"}
<1>1. \A u \in Workers : worker[u] \in Worker
  BY DEF TypeOK
<1>2. ASSUME NEW u \in Workers, RunOnce(u) \/ EndAttempt(u) \/ worker' = [worker EXCEPT ![u] = DownWorker]
      PROVE  Elsewhere
  <2>1. IdleWorker.pc = "idle" /\ DownWorker.pc = "down"
    BY DEF IdleWorker, DownWorker
  <2>2. CASE Claim(u)
    <3>1. PICK d, n : worker' = [worker EXCEPT ![u] = Loading(d, n)]
      BY <2>2 DEF Claim
    <3>2. Loading(d, n).pc = "load"
      BY DEF Loading
    <3>3. QED
      BY <3>1, <3>2, OneProcessMoves
  <2>3. CASE ClaimNothing(u)
    BY <2>3 DEF ClaimNothing
  <2>4. CASE EndAttempt(u) \/ worker' = [worker EXCEPT ![u] = DownWorker]
    BY <2>1, <2>4, OneProcessMoves DEF EndAttempt
  <2>5. QED
    BY <1>2, <2>2, <2>3, <2>4 DEF RunOnce
<1>3. ASSUME NEW u \in Workers, NEW pc \in {"token", "request"}, GoTo(u, pc) PROVE Elsewhere
  BY <1>1, <1>3 DEF GoTo, TypeOK, Worker
<1>4. ASSUME NEW u \in Workers, NEW outcome, Concluded(u, outcome) PROVE Elsewhere
  BY <1>1, <1>4 DEF Concluded, TypeOK, Worker
<1>5. ASSUME NEW u \in Workers, TokenRejected(u) PROVE Elsewhere
  <2>1. CASE worker[u].renewed
    BY <1>4, <1>5, <2>1 DEF TokenRejected
  <2>2. CASE ~worker[u].renewed
    BY <1>1, <1>5, <2>2 DEF TokenRejected, TypeOK, Worker
  <2>3. QED
    BY <2>1, <2>2
<1>6. ASSUME NEW u \in Workers, Authorize(u)
      PROVE  \/ Elsewhere
             \/ /\ worker'[w].pc = "send" /\ PublishAuthorized(worker[w].job)
                /\ worker'[w].job = worker[w].job
                /\ UNCHANGED <<row, authorized>>
  <2>1. CASE PublishAuthorized(worker[u].job) /\ GoTo(u, "send")
    <3>1. u = w
      BY <2>1 DEF GoTo, TypeOK
    <3>2. worker'[w].pc = "send" /\ worker'[w].job = worker[w].job
      BY <1>1, <2>1, <3>1 DEF GoTo, TypeOK, Worker
    <3>3. QED
      BY <1>6, <2>1, <3>1, <3>2 DEF Authorize
  <2>2. QED
    BY <1>4, <1>6, <2>1 DEF Authorize
<1>7. ASSUME NEW u \in Workers, SendRequest(u) PROVE worker'[w].pc = "waiting" /\ Checked(w)
  <2>1. u = w
    BY <1>7 DEF SendRequest, GoTo, TypeOK
  <2>2. QED
    BY <1>1, <1>7, <2>1 DEF SendRequest, GoTo, Checked, TypeOK, Worker
<1>8. CASE \E u \in Workers : RunOnce(u) \/ Attempt(u) \/ Crash(u) \/ Restart(u)
  <2>1. PICK u \in Workers : RunOnce(u) \/ Attempt(u) \/ Crash(u) \/ Restart(u)
    BY <1>8
  <2>2. CASE RunOnce(u) \/ Crash(u) \/ Restart(u) \/ Report(u)
    BY <1>2, <2>2 DEF Crash, Restart, Report
  <2>3. CASE Load(u) \/ ObtainToken(u)
    BY <1>3, <1>4, <2>3 DEF Load, ObtainToken
  <2>4. CASE Answer(u)
    BY <1>4, <1>5, <2>4 DEF Answer, Accepted, AcceptedUnread, Rejected, TimedOut
  <2>5. CASE Authorize(u) \/ SendRequest(u)
    BY <1>6, <1>7, <2>5
  <2>6. QED
    BY <2>1, <2>2, <2>3, <2>4, <2>5 DEF Attempt
<1>9. QED
  BY <1>8 DEF Next, Enqueue, Clock, LeaseLapses, RetryFallsDue, LateArrival, Revoke, Restore

(* The approver of a claimed delivery is fixed: approved_by of its immutable   *)
(* PublishRecord.                                                              *)
LEMMA ApproverKept ==
  ASSUME IInv, Next, NEW d \in Deliveries, row[d].status # "absent"
  PROVE  row'[d].approver = row[d].approver
<1> TypeOK
  BY DEF IInv
<1> DEFINE Goal == row'[d].approver = row[d].approver
<1>1. ASSUME NEW S \in SUBSET Deliveries
      PROVE  SweptRow(S) \in [Deliveries -> Row] /\ SweptRow(S)[d].approver = row[d].approver
  <2>1. MarkFailed(row[d]).approver = row[d].approver
    BY DEF MarkFailed, Released
  <2>2. SweptRow(S)[d].approver = row[d].approver
    BY <2>1 DEF SweptRow
  <2>3. QED
    BY <2>2, SweptRowType DEF TypeOK
<1>2. ASSUME NEW v \in Workers, RunOnce(v) PROVE Goal
  <2>1. PICK skipped \in SUBSET Deliveries :
          \/ row' = SweptRow(Swept(skipped))
          \/ \E e \in Deliveries :
               row' = [SweptRow(Swept(skipped)) EXCEPT ![e] = Leased(SweptRow(Swept(skipped))[e], v)]
    BY <1>2 DEF RunOnce, Claim, ClaimNothing, Ready
  <2>2. Swept(skipped) \in SUBSET Deliveries
    BY DEF Swept
  <2>3. Leased(SweptRow(Swept(skipped))[d], v).approver = SweptRow(Swept(skipped))[d].approver
    BY DEF Leased
  <2>4. QED
    BY <1>1, <2>1, <2>2, <2>3
<1>3. ASSUME NEW v \in Workers, Report(v) PROVE Goal
  <2>1. \/ row' = row
        \/ \E s \in {"pending", "succeeded", "failed"} :
             row' = [row EXCEPT ![worker[v].job] = Released(row[worker[v].job], s)]
    BY <1>3 DEF Report, Transition, Complete, ReturnForRetry, Fail, Settle
  <2>2. \A s \in {"pending", "succeeded", "failed"} : Released(row[d], s).approver = row[d].approver
    BY DEF Released
  <2>3. QED
    BY <2>1, <2>2 DEF TypeOK
<1>4. ASSUME NEW e \in Deliveries, Enqueue(e) PROVE Goal
  BY <1>4 DEF Enqueue, TypeOK
<1>5. ASSUME NEW e \in Deliveries, Clock(e) PROVE Goal
  <2>1. \/ row' = [row EXCEPT ![e].lapsed = TRUE]
        \/ row' = [row EXCEPT ![e].due = TRUE]
    BY <1>5 DEF Clock, LeaseLapses, RetryFallsDue
  <2>2. row[d] \in Row /\ row \in [Deliveries -> Row]
    BY DEF TypeOK
  <2>3. /\ [row[d] EXCEPT !.lapsed = TRUE].approver = row[d].approver
        /\ [row[d] EXCEPT !.due = TRUE].approver = row[d].approver
    BY <2>2 DEF Row
  <2>4. row'[d] \in {row[d], [row[d] EXCEPT !.lapsed = TRUE], [row[d] EXCEPT !.due = TRUE]}
    BY <2>1, <2>2
  <2>5. QED
    BY <2>3, <2>4
<1>6. ASSUME row' = row PROVE Goal
  BY <1>6
<1>7. QED
  BY <1>2, <1>3, <1>4, <1>5, <1>6 DEF Next, Attempt, Answer, Load, ObtainToken, Authorize,
     SendRequest, Accepted, AcceptedUnread, TokenRejected, Rejected, TimedOut, Crash, Restart,
     LateArrival, Revoke, Restore

LEMMA CheckedOrOvertakenStep ==
  IInv /\ CheckedOrOvertaken /\ [RecordedNext]_recordedVars => CheckedOrOvertaken'
<1>1. ASSUME IInv, CheckedOrOvertaken, Next, Recorded, NEW w \in Workers,
             Checked(w)', ~PublishAuthorized(worker[w].job)'
      PROVE  w \in overtaken'
  <2>1. worker'[w] = worker[w] /\ Checked(w)
    <3>1. worker'[w].pc = "send"
      BY <1>1 DEF Checked
    <3>2. ASSUME worker'[w] # worker[w] PROVE FALSE
      BY <1>1, <3>1, <3>2, CheckThenSend DEF IInv, PublishAuthorized
    <3>3. QED
      BY <3>1, <3>2 DEF Checked
  <2>2. worker[w].job \in Deliveries /\ row[worker[w].job].attempts > 0
    BY <1>1, <2>1 DEF Checked, IInv, TypeOK, WorkClaimed, Working
  <2>3. row'[worker[w].job].approver = row[worker[w].job].approver
    BY <1>1, <2>2, ApproverKept DEF IInv, AbsentUnclaimed
  <2>4. w \in overtaken \/ LosesAuthority(w)
    BY <1>1, <2>1, <2>3 DEF CheckedOrOvertaken, LosesAuthority, PublishAuthorized
  <2>5. QED
    BY <1>1, <2>1, <2>4 DEF Recorded, Checked
<1>2. ASSUME CheckedOrOvertaken, UNCHANGED recordedVars PROVE CheckedOrOvertaken'
  BY <1>2 DEF CheckedOrOvertaken, recordedVars, vars, Checked, PublishAuthorized
<1>3. QED
  BY <1>1, <1>2 DEF RecordedNext, CheckedOrOvertaken

(* After an approver lost the authority, only requests that had been checked   *)
(* before still leave, one per worker: the window between authorize_publish    *)
(* and the PUT is all that is left to a withdrawal.                            *)
THEOREM WithdrawalTakesHoldHolds == RecordedSpec => WithdrawalTakesHold
<1>1. RecordedInit => Init /\ CheckedOrOvertaken
  BY DEF RecordedInit, Init, IdleWorker, CheckedOrOvertaken, Checked
<1>2. [RecordedNext]_recordedVars => [Next]_vars
  BY DEF RecordedNext, recordedVars, vars
<1>3. IInv /\ CheckedOrOvertaken /\ [RecordedNext]_recordedVars =>
        [\A w \in Workers :
           Leaves(w) /\ ~PublishAuthorized(worker[w].job) => w \in overtaken]_recordedVars
  BY CheckThenSend DEF RecordedNext, recordedVars, Leaves, CheckedOrOvertaken, IInv
<1>4. QED
  BY <1>1, <1>2, <1>3, InitIInv, NextIInv, CheckedOrOvertakenStep, PTL
     DEF RecordedSpec, WithdrawalTakesHold

--------------------------------------------------------------------------------
(* The refinement.                                                             *)

LEMMA OutcomeCases ==
  ASSUME NEW r \in Row
  PROVE  /\ Outcome(r) = "absent" <=> r.status = "absent"
         /\ Outcome(r) = "open" <=> Unfinished(r)
         /\ Outcome(r) \in {"succeeded", "failed"} <=> Terminal(r)
         /\ Terminal(r) => Outcome(r) = r.status
BY DEF Outcome, Unfinished, Terminal, Row, Statuses

LEMMA RefinementInit == Init => Contract!Init
<1> SUFFICES ASSUME Init PROVE Contract!Init
  OBVIOUS
<1>1. \A d \in Deliveries : Outcome(row[d]) = "absent"
  BY DEF Init, AbsentRow, Outcome, Unfinished
<1>2. QED
  BY <1>1 DEF Contract!Init, Contract!Deliveries, Deliveries, Init

LEMMA RefinementStep == IInv /\ IInv' /\ [Next]_vars => [Contract!Next]_(Contract!vars)
<1> DEFINE oc == [d \in Deliveries |-> Outcome(row[d])]
           oc2 == [d \in Deliveries |-> Outcome(row'[d])]
<1> SUFFICES ASSUME IInv, IInv', [Next]_vars
             PROVE  Contract!Next \/ (oc2 = oc /\ effects' = effects)
  BY DEF Contract!vars
<1> TypeOK /\ TypeOK'
  BY DEF IInv
<1>a. /\ Contract!Deliveries = Deliveries
      /\ \A d : Contract!Older(d) = Older(d)
      /\ \A d \in Deliveries : \A e \in Older(d) : e \in Deliveries
  BY DEF Contract!Older, Older, Contract!Deliveries, Deliveries
<1>b. \A d \in Deliveries :
         /\ Contract!Settled(d) <=> Terminal(row[d])
         /\ row[d] \in Row /\ row'[d] \in Row
         /\ row[d].attempts \in Nat
  BY OutcomeCases DEF Contract!Settled, TypeOK, Row
<1>c. \A d \in Deliveries : row[d].attempts > 0 => Contract!OlderSettled(d)
  BY <1>a, <1>b DEF Contract!OlderSettled, IInv, NoOvertaking
<1>1. ASSUME NEW S \in SUBSET Deliveries, effects' = effects,
             \A d \in S : /\ Unfinished(row[d]) /\ row[d].attempts > 0
                          /\ row'[d].status = "failed",
             \A d \in Deliveries \ S : Outcome(row'[d]) = Outcome(row[d])
      PROVE  Contract!Next
  <2>1. \A d \in S : oc[d] = "open" /\ Contract!OlderSettled(d)
    BY <1>1, <1>b, <1>c, OutcomeCases
  <2>2. oc2 = [d \in Deliveries |-> IF d \in S THEN "failed" ELSE oc[d]]
    BY <1>1, <1>b, OutcomeCases DEF Terminal
  <2>3. Contract!GiveUp(S)
    BY <1>1, <1>a, <2>1, <2>2 DEF Contract!GiveUp
  <2>4. QED
    BY <1>a, <2>3 DEF Contract!Next
<1>2. ASSUME NEW w \in Workers, Claim(w) PROVE Contract!Next
  <2> PICK skipped \in SUBSET Deliveries :
         \E d \in Ready(SweptRow(Swept(skipped)), skipped) :
            row' = [SweptRow(Swept(skipped)) EXCEPT ![d] = Leased(SweptRow(Swept(skipped))[d], w)]
    BY <1>2 DEF Claim
  <2> DEFINE S == Swept(skipped)
             rows == SweptRow(S)
  <2>1. PICK d \in Ready(rows, skipped) : row' = [rows EXCEPT ![d] = Leased(rows[d], w)]
    OBVIOUS
  <2>2. S \in SUBSET Deliveries /\ d \in Deliveries /\ \A e \in S : Exhausted(row[e])
    BY DEF Swept, Ready
  <2>3. /\ rows \in [Deliveries -> Row]
        /\ \A e \in S : rows[e].status = "failed"
        /\ \A e \in Deliveries \ S : rows[e] = row[e]
    BY <2>2, SweptRowType DEF TypeOK
  <2>4. Unfinished(rows[d])
    BY DEF Ready, Eligible, LeaseExpired, Unfinished
  <2> HIDE DEF S, rows
  <2>5. d \notin S /\ rows[d] = row[d]
    BY <2>2, <2>3, <2>4 DEF Unfinished
  <2>6. row'[d].status = "processing" /\ \A e \in Deliveries \ {d} : row'[e] = rows[e]
    BY <2>1, <2>2, <2>3 DEF Leased
  <2>7. Outcome(row'[d]) = Outcome(row[d])
    BY <1>b, <2>2, <2>4, <2>5, <2>6, OutcomeCases DEF Unfinished
  <2>8. \A e \in S : Unfinished(row[e]) /\ row[e].attempts > 0
    BY <1>b, <2>2, DeliveryAssumption DEF Exhausted, LeaseExpired, Unfinished
  <2>9. effects' = effects
    BY <1>2 DEF Claim
  <2>10. QED
    BY <1>1, <2>2, <2>3, <2>5, <2>6, <2>7, <2>8, <2>9
<1>3. ASSUME NEW w \in Workers, ClaimNothing(w) PROVE Contract!Next
  <2>1. PICK skipped \in SUBSET Deliveries : row' = SweptRow(Swept(skipped))
    BY <1>3 DEF ClaimNothing
  <2>2. /\ Swept(skipped) \in SUBSET Deliveries
        /\ \A e \in Swept(skipped) : Exhausted(row[e])
        /\ effects' = effects
    BY <1>3 DEF Swept, ClaimNothing
  <2>3. \A e \in Swept(skipped) : Unfinished(row[e]) /\ row[e].attempts > 0
    BY <1>b, <2>2, DeliveryAssumption DEF Exhausted, LeaseExpired, Unfinished
  <2>4. /\ \A e \in Swept(skipped) : row'[e].status = "failed"
        /\ \A e \in Deliveries \ Swept(skipped) : row'[e] = row[e]
    BY <2>1, <2>2, SweptRowType DEF TypeOK
  <2>5. QED
    BY <1>1, <2>2, <2>3, <2>4
<1>4. ASSUME NEW d \in Deliveries, effects' = CarriedOut(d), row' = row, row[d].attempts > 0
      PROVE  Contract!Next \/ effects' = effects
  <2>1. CASE d \in Range(effects)
    BY <1>4, <2>1 DEF CarriedOut
  <2>2. CASE d \notin Range(effects)
    <3>1. oc[d] # "absent"
      BY <1>4, <1>b, OutcomeCases DEF IInv, AbsentUnclaimed
    <3>2. Contract!TakeEffect(d)
      BY <1>4, <1>c, <2>2, <3>1 DEF Contract!TakeEffect, CarriedOut, Contract!Range, Range
    <3>3. QED
      BY <1>a, <3>2 DEF Contract!Next
  <2>3. QED
    BY <2>1, <2>2
<1>5. ASSUME NEW w \in Workers, Accepted(w) \/ AcceptedUnread(w)
      PROVE  Contract!Next \/ (oc2 = oc /\ effects' = effects)
  <2>1. worker[w].job \in Deliveries /\ row[worker[w].job].attempts > 0
    BY <1>5 DEF Accepted, AcceptedUnread, IInv, WorkClaimed, Working, TypeOK
  <2>2. effects' = CarriedOut(worker[w].job) /\ row' = row
    BY <1>5 DEF Accepted, AcceptedUnread
  <2>3. QED
    BY <1>4, <2>1, <2>2
<1>6. ASSUME NEW d \in Deliveries, LateArrival(d)
      PROVE  Contract!Next \/ (oc2 = oc /\ effects' = effects)
  BY <1>4, <1>6 DEF LateArrival, IInv, RequestsClaimed
<1>7. ASSUME NEW w \in Workers, Report(w)
      PROVE  Contract!Next \/ (oc2 = oc /\ effects' = effects)
  <2> DEFINE d == worker[w].job
  <2>1. d \in Deliveries /\ effects' = effects /\ row[d].attempts > 0
    BY <1>7 DEF Report, TypeOK, IInv, WorkClaimed, Working
  <2>2. CASE ~Owned(w, d)
    BY <1>7, <2>1, <2>2 DEF Report
  <2>3. CASE Owned(w, d)
    <3>1. Unfinished(row[d])
      BY <2>3 DEF Owned, Unfinished
    <3>2. ASSUME Settle(d, "failed") PROVE Contract!Next
      <4>1. row'[d].status = "failed" /\ \A e \in Deliveries \ {d} : row'[e] = row[e]
        BY <2>1, <3>2 DEF Settle, Released, TypeOK
      <4>2. /\ {d} \in SUBSET Deliveries
            /\ \A e \in {d} : Unfinished(row[e]) /\ row[e].attempts > 0 /\ row'[e].status = "failed"
            /\ \A e \in Deliveries \ {d} : Outcome(row'[e]) = Outcome(row[e])
        BY <2>1, <3>1, <4>1
      <4>3. QED
        BY <1>1, <2>1, <4>2
    <3>3. ASSUME Settle(d, "succeeded"), d \in Range(effects) PROVE Contract!Next
      <4>1. row'[d].status = "succeeded" /\ \A e \in Deliveries \ {d} : row'[e] = row[e]
        BY <2>1, <3>3 DEF Settle, Released, TypeOK
      <4>2. oc2 = [oc EXCEPT ![d] = "succeeded"]
        BY <1>b, <2>1, <4>1, OutcomeCases DEF Terminal
      <4>3. oc[d] = "open"
        BY <1>b, <2>1, <3>1, OutcomeCases
      <4>4. Contract!Succeed(d)
        BY <1>c, <2>1, <3>3, <4>2, <4>3 DEF Contract!Succeed, Contract!Range, Range
      <4>5. QED
        BY <1>a, <2>1, <4>4 DEF Contract!Next
    <3>4. ASSUME row' = [row EXCEPT ![d] = Released(row[d], "pending")] PROVE oc2 = oc
      <4>1. row'[d].status = "pending" /\ \A e \in Deliveries \ {d} : row'[e] = row[e]
        BY <2>1, <3>4 DEF Released, TypeOK
      <4>2. Outcome(row'[d]) = Outcome(row[d])
        BY <1>b, <2>1, <3>1, <4>1, OutcomeCases DEF Unfinished
      <4>3. QED
        BY <4>1, <4>2
    <3>5. worker[w].outcome = "ok" => d \in Range(effects)
      BY <1>7 DEF Report, IInv, AnswersTrue
    <3>6. Transition(w)
      BY <1>7, <2>3 DEF Report
    <3>7. QED
      BY <2>1, <3>2, <3>3, <3>4, <3>5, <3>6 DEF Transition, Complete, ReturnForRetry, Fail
  <2>4. QED
    BY <2>2, <2>3
<1>8. ASSUME NEW d \in Deliveries, Enqueue(d) PROVE Contract!Next
  <2>1. PICK a \in authorized : row' = [row EXCEPT ![d] = Enqueued(a)]
    BY <1>8 DEF Enqueue
  <2>2. row'[d].status = "pending" /\ \A e \in Deliveries \ {d} : row'[e] = row[e]
    BY <2>1 DEF Enqueued, TypeOK
  <2>3. oc2 = [oc EXCEPT ![d] = "open"]
    BY <1>b, <2>2, OutcomeCases DEF Unfinished
  <2>4. oc[d] = "absent" /\ \A e \in Older(d) : oc[e] # "absent"
    BY <1>8, <1>a, <1>b, OutcomeCases DEF Enqueue
  <2>5. Contract!Open(d)
    BY <1>8, <1>a, <2>3, <2>4 DEF Contract!Open, Enqueue
  <2>6. QED
    BY <1>a, <2>5 DEF Contract!Next
<1>9. ASSUME NEW d \in Deliveries, Clock(d) PROVE oc2 = oc /\ effects' = effects
  <2>1. /\ row'[d].status = row[d].status
        /\ \A e \in Deliveries \ {d} : row'[e] = row[e]
        /\ effects' = effects
    BY <1>9 DEF Clock, LeaseLapses, RetryFallsDue, TypeOK, Row
  <2>2. \A e \in Deliveries : Outcome(row'[e]) = Outcome(row[e])
    BY <2>1 DEF Outcome, Unfinished
  <2>3. QED
    BY <2>1, <2>2
<1>10. ASSUME row' = row, effects' = effects PROVE oc2 = oc /\ effects' = effects
  BY <1>10
<1>11. QED
  BY <1>2, <1>3, <1>5, <1>6, <1>7, <1>8, <1>9, <1>10 DEF Next, RunOnce, Attempt, Answer, Load,
     ObtainToken, Authorize, SendRequest, TokenRejected, Rejected, TimedOut, Crash, Restart, Revoke, Restore, vars

(* Rows, leases, retries, crashes and stray requests together implement the    *)
(* ordered publication contract.                                               *)
THEOREM Refinement == Spec => ImplementsContract
BY RefinementInit, RefinementStep, Invariance, PTL DEF Spec, ImplementsContract, Contract!Spec

================================================================================
