--------------------------------- MODULE Logistics ---------------------------------
(* Shipments, returns and exception tasks (logistics.py). Each request locks   *)
(* the shipment, then its return or task, and is one transaction; the patrol   *)
(* first selects the shipments in sight and then, having locked them, judges   *)
(* them as they are. Times are registered after the fact, hardly ahead of the  *)
(* clock and not behind the last node.                                         *)
EXTENDS Integers, Sequences, Functions

CONSTANTS Shipments,
          Patrols,         \* patrols at work at the same time
          Horizon,         \* the last tick of the clock, a bound of the instance
          DispatchDue,     \* dispatch_due_at
          DeliveryDue,     \* expected_delivery_at
          ReturnTerm,      \* expected_return_at, counted from the request
          Stalled,         \* 48 hours without a scan
          Inspection,      \* 24 hours to close a return that was received
          Ahead,           \* 5 seconds that a registered time may be ahead of the clock
          MaxTrail         \* length of a trail to which events are added, a bound

ASSUME LogisticsAssumption ==
  /\ {Horizon, Stalled, Inspection, Ahead, MaxTrail} \subseteq Nat
  /\ DispatchDue \in Nat /\ DeliveryDue \in Nat
  /\ DispatchDue <= DeliveryDue
  /\ ReturnTerm \in Nat \ {0}

Times == 0..Horizon

Never == -1

ReturnStates == {"none", "requested", "approved", "rejected", "in_transit", "received", "closed"}

VARIABLES clock,
          shipment,     \* logistics_shipments
          returned,     \* logistics_returns, by shipment
          raised,       \* logistics_exceptions: by the key of the evidence,
          resolved,     \* and those of them that are resolved
          trail,        \* logistics_events of each shipment, and of its return
          patrol        \* what each patrol has selected

logisticsVars == <<clock, shipment, returned, raised, resolved, trail, patrol>>

Event(type, at) == [type |-> type, at |-> at]

(* add_event, with and without a return_id                                     *)
Traced(s, type, at) == trail' = [trail EXCEPT ![s].parcel = Append(@, Event(type, at))]

TracedReturn(s, type, at) == trail' = [trail EXCEPT ![s].return = Append(@, Event(type, at))]

Registrable(s) == Len(trail[s].parcel) + Len(trail[s].return) < MaxTrail

(* check_time, for a time the request gives                                    *)
Timely(at, earliest) == at <= clock + Ahead /\ at >= earliest

LastNode(s) == IF shipment[s].last = Never THEN 0 ELSE shipment[s].last

Tick ==
  /\ clock < Horizon
  /\ clock' = clock + 1
  /\ UNCHANGED <<shipment, returned, raised, resolved, trail, patrol>>

(* create_shipment; the order is taken by then, or cancelled, or not           *)
CreateShipment(s) ==
  /\ shipment[s].status = "none"
  /\ shipment' = [shipment EXCEPT ![s].status = "pending_dispatch"]
  /\ Traced(s, "created", clock)
  /\ UNCHANGED <<clock, returned, raised, resolved, patrol>>

--------------------------------------------------------------------------------
(* record_event                                                                *)

Dispatch(s, at) ==
  /\ Registrable(s)
  /\ shipment[s].status = "pending_dispatch"
  /\ Timely(at, LastNode(s))
  /\ shipment' = [shipment EXCEPT ![s].status = "in_transit", ![s].last = at]
  /\ Traced(s, "dispatch", at)
  /\ UNCHANGED <<clock, returned, raised, resolved, patrol>>

(* Mutant: a node is compared with the order only.                             *)
TransitAnytime(s, at) ==
  /\ Registrable(s)
  /\ shipment[s].status = "in_transit"
  /\ Timely(at, 0)
  /\ shipment' = [shipment EXCEPT ![s].last = at]
  /\ Traced(s, "transit", at)
  /\ UNCHANGED <<clock, returned, raised, resolved, patrol>>

Transit(s, at) ==
  /\ Registrable(s)
  /\ shipment[s].status = "in_transit"
  /\ Timely(at, LastNode(s))
  /\ shipment' = [shipment EXCEPT ![s].last = at]
  /\ Traced(s, "transit", at)
  /\ UNCHANGED <<clock, returned, raised, resolved, patrol>>

Deliver(s, at) ==
  /\ Registrable(s)
  /\ shipment[s].status = "in_transit"
  /\ Timely(at, LastNode(s))
  /\ shipment' = [shipment EXCEPT ![s].status = "delivered", ![s].last = at]
  /\ Traced(s, "deliver", at)
  /\ UNCHANGED <<clock, returned, raised, resolved, patrol>>

--------------------------------------------------------------------------------
(* Returns.                                                                    *)

(* create_return                                                               *)
CreateReturn(s) ==
  /\ Registrable(s)
  /\ shipment[s].status \in {"in_transit", "delivered"}
  /\ returned[s].status = "none"
  /\ returned' = [returned EXCEPT ![s] = [status |-> "requested", updated |-> clock,
                                          due |-> clock + ReturnTerm, received |-> Never]]
  /\ TracedReturn(s, "return_requested", clock)
  /\ UNCHANGED <<clock, shipment, raised, resolved, patrol>>

Following(status) ==
  CASE status = "requested"  -> {"approved", "rejected"}
    [] status = "approved"   -> {"in_transit"}
    [] status = "in_transit" -> {"received"}
    [] status = "received"   -> {"closed"}
    [] OTHER                 -> {}

(* The type of the event, f"return_{payload.status}"                           *)
ReturnEvent == [approved |-> "return_approved", rejected |-> "return_rejected",
                in_transit |-> "return_in_transit", received |-> "return_received",
                closed |-> "return_closed"]

Moved(case, status, at) == [case EXCEPT !.status = status, !.updated = at,
                                        !.received = IF status = "received" THEN at ELSE @]

(* transition_return                                                           *)
TransitionReturn(s, status, at) ==
  /\ Registrable(s)
  /\ status \in Following(returned[s].status)
  /\ Timely(at, returned[s].updated)
  /\ returned' = [returned EXCEPT ![s] = Moved(@, status, at)]
  /\ TracedReturn(s, ReturnEvent[status], at)
  /\ UNCHANGED <<clock, shipment, raised, resolved, patrol>>

--------------------------------------------------------------------------------
(* Exceptions.                                                                 *)

Subjects == {"parcel", "return"}

(* issues: whether the kind is looked for in a shipment and its return, and    *)
(* the time that triggers it                                                   *)
Watched(kind, row, case) ==
  CASE kind = "dispatch_overdue" -> row.status = "pending_dispatch"
    [] kind = "return_overdue"   -> case.status \in {"requested", "approved", "in_transit",
                                                     "received"}
    [] OTHER                     -> row.status = "in_transit"

Anchor(kind, row, case) ==
  CASE kind = "dispatch_overdue" -> DispatchDue
    [] kind = "delivery_overdue" -> DeliveryDue
    [] kind = "no_movement"      -> row.last
    [] kind = "return_overdue"   -> IF case.status = "received" THEN case.received + Inspection
                                                                ELSE case.due

Passed(kind, anchor) == anchor + (IF kind = "no_movement" THEN Stalled ELSE 0) < clock

(* Mutant: the rows keep the status with which they were selected.             *)
JudgedAsSelected(p, s) == [parcel |-> [shipment[s] EXCEPT !.status = patrol[p].rows[s].parcel],
                           case |-> [returned[s] EXCEPT !.status = patrol[p].rows[s].case]]

(* The rows are locked and read again (populate_existing).                     *)
Judged(p, s) == [parcel |-> shipment[s], case |-> returned[s]]

(* ON CONFLICT (dedupe_key) DO NOTHING                                         *)
Unraised(s, kind, anchor) == <<s, kind, anchor>> \notin raised

(* The task that the patrol raises for one kind of evidence, if any            *)
Found(p, s, kind) ==
  LET row == Judged(p, s)
      time == Anchor(kind, row.parcel, row.case)
  IN IF /\ Watched(kind, row.parcel, row.case)
        /\ Passed(kind, time)
        /\ Unraised(s, kind, time)
     THEN <<Event(kind, time)>> ELSE <<>>

(* issues, in the order in which they are looked for                           *)
Detected(p, s) ==
  [parcel |-> Found(p, s, "dispatch_overdue") \o Found(p, s, "delivery_overdue")
                                              \o Found(p, s, "no_movement"),
   return |-> Found(p, s, "return_overdue")]

(* The key of the evidence (dedupe_key)                                        *)
Key(s, event) == <<s, event.type, event.at>>

(* shipment_rows, without locks; of the rows only their statuses matter here   *)
PatrolSelects(p) ==
  /\ patrol[p].pc = "idle"
  /\ patrol' = [patrol EXCEPT ![p] =
       [pc |-> "selected",
        rows |-> [s \in {x \in Shipments : shipment[x].status # "none"} |->
                    [parcel |-> shipment[s].status, case |-> returned[s].status]]]]
  /\ UNCHANGED <<clock, shipment, returned, raised, resolved, trail>>

NoPatrol == [pc |-> "idle", rows |-> <<>>]

(* patrol: a task for each new piece of evidence, and its event                *)
PatrolJudges(p) ==
  /\ patrol[p].pc = "selected"
  /\ raised' = raised \cup UNION {{Key(s, e) : e \in Range(Detected(p, s)[u])} :
                                    s \in DOMAIN patrol[p].rows, u \in Subjects}
  /\ trail' = [s \in Shipments |->
       IF s \in DOMAIN patrol[p].rows THEN [u \in Subjects |-> trail[s][u] \o Detected(p, s)[u]]
                                      ELSE trail[s]]
  /\ patrol' = [patrol EXCEPT ![p] = NoPatrol]
  /\ UNCHANGED <<clock, shipment, returned, resolved>>

(* The actor lost a store meanwhile, or a statement failed.                    *)
PatrolFails(p) ==
  /\ patrol[p].pc = "selected"
  /\ patrol' = [patrol EXCEPT ![p] = NoPatrol]
  /\ UNCHANGED <<clock, shipment, returned, raised, resolved, trail>>

(* update_exception: a task is resolved. It may be assigned before, again and  *)
(* again, which nothing depends on and only a further note in the trail tells. *)
ResolveException(k) ==
  /\ k \in raised \ resolved
  /\ resolved' = resolved \cup {k}
  /\ IF k[2] = "return_overdue" THEN TracedReturn(k[1], "exception_resolve", clock)
                                ELSE Traced(k[1], "exception_resolve", clock)
  /\ UNCHANGED <<clock, shipment, returned, raised, patrol>>

--------------------------------------------------------------------------------

LogisticsInit ==
  /\ clock = 0
  /\ shipment = [s \in Shipments |-> [status |-> "none", last |-> Never]]
  /\ returned = [s \in Shipments |-> [status |-> "none", updated |-> Never, due |-> Never,
                                      received |-> Never]]
  /\ raised = {}
  /\ resolved = {}
  /\ trail = [s \in Shipments |-> [u \in Subjects |-> <<>>]]
  /\ patrol = [p \in Patrols |-> NoPatrol]

LogisticsNext ==
  \/ Tick
  \/ \E s \in Shipments : CreateShipment(s) \/ CreateReturn(s)
  \/ \E s \in Shipments, at \in Times :
       \/ Dispatch(s, at) \/ Transit(s, at) \/ Deliver(s, at)
       \/ \E status \in ReturnStates : TransitionReturn(s, status, at)
  \/ \E p \in Patrols : PatrolSelects(p) \/ PatrolJudges(p) \/ PatrolFails(p)
  \/ \E k \in raised : ResolveException(k)

LogisticsSpec == LogisticsInit /\ [][LogisticsNext]_logisticsVars

--------------------------------------------------------------------------------
(* Properties.                                                                 *)

Closing == {"deliver", "return_rejected", "return_closed"}

Opening == {"dispatch", "return_requested"}

Exceptions == {"dispatch_overdue", "delivery_overdue", "no_movement", "return_overdue"}

Notes == Exceptions \cup {"created", "exception_resolve"}

(* The trail of a shipment, and that of its return, tell one course of events: *)
(* what happened is in the order of the times it happened, though several      *)
(* people register it late, and nothing follows its end (logistics.py:300,     *)
(* 360).                                                                       *)
TrailInOrder ==
  \A s \in Shipments, u \in Subjects :
    \A j \in DOMAIN trail[s][u] : \A i \in 1..(j - 1) :
      LET earlier == trail[s][u][i]
          later == trail[s][u][j]
      IN earlier.type \notin Notes /\ later.type \notin Notes =>
           /\ earlier.at <= later.at
           /\ earlier.type \notin Closing
           /\ later.type \notin Opening

(* No exception is raised twice for the same evidence, not even once it is     *)
(* resolved, nor after what settles it is registered: a patrol that selected   *)
(* the shipment before judges it as it is (logistics.py:445).                  *)
RaisedOnceInTime ==
  \A s \in Shipments, u \in Subjects :
    \A j \in DOMAIN trail[s][u] : trail[s][u][j].type \in Exceptions =>
      \A i \in 1..(j - 1) :
        /\ trail[s][u][i] # trail[s][u][j]
        /\ trail[s][u][i].type \notin Closing
        /\ trail[s][u][i].type = "dispatch" => trail[s][u][j].type # "dispatch_overdue"

================================================================================
