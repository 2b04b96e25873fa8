------------------------------ MODULE LogisticsProofs ------------------------------
(* Machine-checked proofs about Logistics, for any shipments and patrols and   *)
(* any terms, however long the clock runs and the trails grow.                 *)
EXTENDS Logistics, SequenceTheorems, TLAPS

EventTypes == Notes \cup {"dispatch", "transit", "deliver", "return_requested", "return_approved",
                          "return_rejected", "return_in_transit", "return_received",
                          "return_closed"}

Logged == [type : EventTypes, at : Int]

ParcelStates == {"none", "pending_dispatch", "in_transit", "delivered"}

(* What is registered has begun, and no event of the course ends it before its *)
(* status tells so.                                                            *)
Began(s, u) == IF u = "parcel" THEN shipment[s].status \in {"in_transit", "delivered"}
                               ELSE returned[s].status # "none"

Over(s, u) == IF u = "parcel" THEN shipment[s].status = "delivered"
                              ELSE returned[s].status \in {"rejected", "closed"}

Latest(s, u) == IF u = "parcel" THEN shipment[s].last ELSE returned[s].updated

Recorded(s, u, e) ==
  /\ e.type \notin Notes => Began(s, u) /\ e.at <= Latest(s, u)
  /\ e.type \in Closing => Over(s, u)
  /\ e.type \in Exceptions => Key(s, e) \in raised

(* What may be told of two events of one trail.                                *)
Follows(earlier, later) ==
  /\ earlier.type \notin Notes /\ later.type \notin Notes =>
       /\ earlier.at <= later.at
       /\ earlier.type \notin Closing
       /\ later.type \notin Opening
  /\ later.type \in Exceptions =>
       /\ earlier # later
       /\ earlier.type \notin Closing
       /\ earlier.type = "dispatch" => later.type # "dispatch_overdue"

InOrder(told) == \A j \in DOMAIN told : \A i \in 1..(j - 1) : Follows(told[i], told[j])

RowTypes ==
  /\ clock \in Int
  /\ shipment \in [Shipments -> [status : ParcelStates, last : Int]]
  /\ returned \in [Shipments -> [status : ReturnStates, updated : Int, due : Int, received : Int]]
  /\ raised \subseteq Shipments \X Exceptions \X Int
  /\ \A p \in Patrols : DOMAIN patrol[p].rows \subseteq Shipments

LogisticsTypes == RowTypes /\ trail \in [Shipments -> [Subjects -> Seq(Logged)]]

TrailSound(s, u) == /\ InOrder(trail[s][u])
                    /\ \A i \in DOMAIN trail[s][u] : Recorded(s, u, trail[s][u][i])

LogisticsInv == LogisticsTypes /\ \A s \in Shipments, u \in Subjects : TrailSound(s, u)

--------------------------------------------------------------------------------
(* Sequences.                                                                  *)

LEMMA PartsInOrder ==
  ASSUME NEW told \in Seq(Logged), NEW more \in Seq(Logged), InOrder(told), InOrder(more),
         \A i \in DOMAIN told, j \in DOMAIN more : Follows(told[i], more[j])
  PROVE  InOrder(told \o more)
<1> DEFINE all == told \o more
<1> SUFFICES ASSUME NEW j \in DOMAIN all, NEW i \in 1..(j - 1) PROVE Follows(all[i], all[j])
  BY DEF InOrder
<1>1. /\ Len(all) = Len(told) + Len(more) /\ DOMAIN all = 1..Len(all)
      /\ Len(told) \in Nat /\ Len(more) \in Nat /\ DOMAIN told = 1..Len(told) /\ DOMAIN more = 1..Len(more)
      /\ \A k \in 1..Len(told) : all[k] = told[k]
      /\ \A k \in 1..Len(more) : all[k + Len(told)] = more[k]
  OBVIOUS
<1> HIDE DEF all
<1>2. CASE j <= Len(told)
  BY <1>1, <1>2 DEF InOrder
<1>3. CASE i <= Len(told) /\ j > Len(told)
  <2>1. j - Len(told) \in DOMAIN more /\ all[j] = more[j - Len(told)]
    BY <1>1, <1>3
  <2>2. QED
    BY <1>1, <1>3, <2>1
<1>4. CASE i > Len(told)
  <2>1. j - Len(told) \in DOMAIN more /\ all[j] = more[j - Len(told)]
    BY <1>1, <1>4
  <2>2. i - Len(told) \in 1..(j - Len(told) - 1) /\ all[i] = more[i - Len(told)]
    BY <1>1, <1>4
  <2>3. QED
    BY <2>1, <2>2 DEF InOrder
<1>5. QED
  BY <1>1, <1>2, <1>3, <1>4

--------------------------------------------------------------------------------
(* Trails.                                                                     *)

(* What an event has to be to come last.                                       *)
Fits(s, u, e) ==
  /\ e.type \notin Notes /\ Began(s, u) => Latest(s, u) <= e.at
  /\ e.type \notin Notes \/ e.type \in Exceptions => ~Over(s, u)
  /\ e.type \in Opening \cup {"dispatch_overdue"} => ~Began(s, u)
  /\ e.type \in Exceptions => Key(s, e) \notin raised

(* What no step takes back.                                                    *)
Keeps(s, u) ==
  /\ Began(s, u) => Began(s, u)' /\ Latest(s, u) <= Latest(s, u)'
  /\ Over(s, u) => Over(s, u)'
  /\ raised \subseteq raised'

LEMMA FittingFollows ==
  ASSUME LogisticsInv, NEW s \in Shipments, NEW u \in Subjects, NEW e \in Logged, Fits(s, u, e),
         NEW i \in DOMAIN trail[s][u]
  PROVE  Follows(trail[s][u][i], e)
<1> DEFINE before == trail[s][u][i]
<1>1. before \in Logged
  BY DEF LogisticsInv, LogisticsTypes
<1>2. Recorded(s, u, before)
  BY DEF LogisticsInv, TrailSound
<1>3. Latest(s, u) \in Int
  BY DEF LogisticsInv, LogisticsTypes, RowTypes, Latest
<1> HIDE DEF before
<1>4. before = e => Key(s, before) = Key(s, e)
  BY DEF Key
<1>5. before.type \notin Notes /\ e.type \notin Notes =>
        before.at <= e.at /\ before.type \notin Closing /\ e.type \notin Opening
  BY <1>1, <1>2, <1>3 DEF Fits, Recorded, Logged
<1>6. e.type \in Exceptions => before # e /\ before.type \notin Closing
  BY <1>2, <1>4 DEF Fits, Recorded
<1>7. before.type = "dispatch" => e.type # "dispatch_overdue"
  BY <1>2 DEF Fits, Recorded, Notes, Exceptions
<1>8. QED
  BY <1>5, <1>6, <1>7 DEF Follows, before

LEMMA RecordedStays ==
  ASSUME LogisticsInv, NEW s \in Shipments, NEW u \in Subjects, Keeps(s, u), Latest(s, u)' \in Int,
         NEW e \in Logged, Recorded(s, u, e)
  PROVE  Recorded(s, u, e)'
<1>1. Latest(s, u) \in Int
  BY DEF LogisticsInv, LogisticsTypes, RowTypes, Latest
<1>2. e.type \notin Notes => Began(s, u)' /\ e.at <= Latest(s, u)'
  BY <1>1 DEF Recorded, Keeps, Logged
<1>3. (e.type \in Closing => Over(s, u)') /\ (e.type \in Exceptions => Key(s, e) \in raised')
  BY DEF Recorded, Keeps
<1>4. QED
  BY <1>2, <1>3 DEF Recorded, Key

LEMMA GrownTrail ==
  ASSUME LogisticsInv, NEW s \in Shipments, NEW u \in Subjects, NEW more \in Seq(Logged),
         trail'[s][u] = trail[s][u] \o more, InOrder(more), Keeps(s, u), Latest(s, u)' \in Int,
         \A j \in DOMAIN more : Fits(s, u, more[j]),
         \A j \in DOMAIN more : \A e \in Logged : e = more[j] => Recorded(s, u, e)'
  PROVE  TrailSound(s, u)'
<1>1. PICK told \in Seq(Logged) : told = trail[s][u]
  BY DEF LogisticsInv, LogisticsTypes
<1>2. \A j \in DOMAIN more : more[j] \in Logged
  OBVIOUS
<1>3. \A i \in DOMAIN told, j \in DOMAIN more : Follows(told[i], more[j])
  BY <1>1, <1>2, FittingFollows
<1>4. InOrder(told \o more)
  <2>1. InOrder(told)
    BY <1>1 DEF LogisticsInv, TrailSound
  <2>2. QED
    BY <1>3, <2>1, PartsInOrder
<1>5. \A e \in Logged : (\E i \in DOMAIN told : e = told[i]) \/ (\E j \in DOMAIN more : e = more[j])
                           => Recorded(s, u, e)'
  <2>1. ASSUME NEW i \in DOMAIN told PROVE told[i] \in Logged /\ Recorded(s, u, told[i])
    BY <1>1 DEF LogisticsInv, TrailSound
  <2>2. QED
    BY <2>1, RecordedStays
<1>6. \A i \in DOMAIN (told \o more) :
        LET e == (told \o more)[i]
        IN e \in Logged /\ ((\E k \in DOMAIN told : e = told[k]) \/ (\E j \in DOMAIN more : e = more[j]))
  <2> SUFFICES ASSUME NEW i \in DOMAIN (told \o more)
               PROVE  \/ \E k \in DOMAIN told : (told \o more)[i] = told[k]
                      \/ \E j \in DOMAIN more : (told \o more)[i] = more[j]
    OBVIOUS
  <2>1. CASE i <= Len(told)
    BY <2>1
  <2>2. CASE i > Len(told)
    <3>1. i - Len(told) \in DOMAIN more /\ (told \o more)[i] = more[i - Len(told)]
      BY <2>2
    <3>2. QED
      BY <3>1
  <2>3. QED
    BY <2>1, <2>2
<1>7. PICK all : all = told \o more
  OBVIOUS
<1>8. \A i \in DOMAIN all : Recorded(s, u, all[i])'
  BY <1>5, <1>6, <1>7
<1>9. trail'[s][u] = all /\ InOrder(all)
  BY <1>1, <1>4, <1>7
<1>10. QED
  BY <1>8, <1>9 DEF TrailSound

(* One event is appended to one trail.                                         *)
LEMMA OneEvent ==
  ASSUME LogisticsInv, NEW s \in Shipments, NEW u \in Subjects, NEW e \in Logged,
         trail' = [trail EXCEPT ![s][u] = Append(@, e)],
         Fits(s, u, e), Recorded(s, u, e)',
         \A t \in Shipments, x \in Subjects : Keeps(t, x),
         RowTypes'
  PROVE  LogisticsInv'
<1>0. \A t \in Shipments, x \in Subjects : Keeps(t, x) /\ Latest(t, x)' \in Int
  BY DEF RowTypes, Latest
<1>1. trail \in [Shipments -> [Subjects -> Seq(Logged)]]
  BY DEF LogisticsInv, LogisticsTypes
<1>2. Append(trail[s][u], e) \in Seq(Logged) /\ Append(trail[s][u], e) = trail[s][u] \o <<e>>
  BY <1>1, AppendIsConcat
<1>3. /\ trail' \in [Shipments -> [Subjects -> Seq(Logged)]]
      /\ trail'[s][u] = trail[s][u] \o <<e>>
      /\ \A t \in Shipments, x \in Subjects : t # s \/ x # u => trail'[t][x] = trail[t][x]
  BY <1>1, <1>2
<1>4. TrailSound(s, u)'
  <2>1. <<e>> \in Seq(Logged) /\ DOMAIN <<e>> = {1} /\ <<e>>[1] = e
    OBVIOUS
  <2>2. PICK more : more = <<e>>
    OBVIOUS
  <2>3. InOrder(more)
    BY <2>1, <2>2 DEF InOrder
  <2>4. \A j \in DOMAIN more : more[j] = e
    BY <2>1, <2>2
  <2>5. more \in Seq(Logged) /\ trail'[s][u] = trail[s][u] \o more
    BY <1>3, <2>1, <2>2
  <2>6. \A j \in DOMAIN more : Fits(s, u, more[j])
    BY <2>4
  <2>7. \A j \in DOMAIN more : \A f \in Logged : f = more[j] => Recorded(s, u, f)'
    BY <2>4
  <2>8. QED
    BY <1>0, <2>3, <2>5, <2>6, <2>7, GrownTrail
<1>5. ASSUME NEW t \in Shipments, NEW x \in Subjects, t # s \/ x # u PROVE TrailSound(t, x)'
  <2>1. PICK more : more = <<>>
    OBVIOUS
  <2>2. more \in Seq(Logged) /\ DOMAIN more = {} /\ InOrder(more)
    BY <2>1 DEF InOrder
  <2>3. trail'[t][x] = trail[t][x] \o more
    BY <1>1, <1>3, <1>5, <2>1
  <2>4. QED
    BY <1>0, <2>2, <2>3, GrownTrail
<1>6. \A t \in Shipments, x \in Subjects : TrailSound(t, x)'
  BY <1>4, <1>5
<1>7. QED
  BY <1>3, <1>6 DEF LogisticsInv, LogisticsTypes

--------------------------------------------------------------------------------
(* Steps.                                                                      *)

LEMMA ParcelTraced ==
  ASSUME LogisticsInv, NEW s \in Shipments, NEW type, NEW at, Traced(s, type, at)
  PROVE  trail' = [trail EXCEPT ![s]["parcel"] = Append(@, Event(type, at))]
BY DEF Traced, LogisticsInv, LogisticsTypes, Subjects

LEMMA ReturnTraced ==
  ASSUME LogisticsInv, NEW s \in Shipments, NEW type, NEW at, TracedReturn(s, type, at)
  PROVE  trail' = [trail EXCEPT ![s]["return"] = Append(@, Event(type, at))]
BY DEF TracedReturn, LogisticsInv, LogisticsTypes, Subjects

LEMMA EventIsLogged ==
  ASSUME NEW type \in EventTypes, NEW at \in Int
  PROVE  \E e \in Logged : e = Event(type, at) /\ e.type = type /\ e.at = at
<1>1. Event(type, at) \in Logged /\ Event(type, at).type = type /\ Event(type, at).at = at
  BY DEF Event, Logged
<1>2. QED
  BY <1>1

(* A note is added, and no row changes.                                        *)
LEMMA CreationInv ==
  ASSUME LogisticsInv, NEW s \in Shipments, CreateShipment(s)
  PROVE  LogisticsInv'
<1>1. PICK e \in Logged : e = Event("created", clock) /\ e.type = "created"
  <2>1. "created" \in EventTypes /\ clock \in Int
    BY DEF LogisticsInv, LogisticsTypes, RowTypes, EventTypes, Notes
  <2>2. QED
    BY <2>1, EventIsLogged
<1>2. trail' = [trail EXCEPT ![s]["parcel"] = Append(@, e)]
  BY <1>1, ParcelTraced DEF CreateShipment
<1>4. Fits(s, "parcel", e) /\ Recorded(s, "parcel", e)'
  BY <1>1 DEF Fits, Recorded, Notes, Exceptions, Closing, Opening
<1>5. RowTypes'
  BY DEF CreateShipment, LogisticsInv, LogisticsTypes, RowTypes, ParcelStates
<1>6. \A t \in Shipments, x \in Subjects : Keeps(t, x)
  BY DEF CreateShipment, LogisticsInv, LogisticsTypes, RowTypes, Keeps, Began, Over, Latest
<1>7. QED
  BY <1>2, <1>4, <1>5, <1>6, OneEvent DEF Subjects

LEMMA RegistrationInv ==
  ASSUME LogisticsInv, NEW s \in Shipments, NEW at \in Times,
         Dispatch(s, at) \/ Transit(s, at) \/ Deliver(s, at)
  PROVE  LogisticsInv'
<1>1. PICK type \in {"dispatch", "transit", "deliver"} :
        /\ Traced(s, type, at)
        /\ shipment[s].status = IF type = "dispatch" THEN "pending_dispatch" ELSE "in_transit"
        /\ shipment' \in [Shipments -> [status : ParcelStates, last : Int]]
        /\ shipment'[s].last = at
        /\ shipment'[s].status = IF type = "deliver" THEN "delivered" ELSE "in_transit"
        /\ \A t \in Shipments \ {s} : shipment'[t] = shipment[t]
        /\ LastNode(s) <= at
        /\ UNCHANGED <<clock, returned, raised, resolved, patrol>>
  <2>1. shipment \in [Shipments -> [status : ParcelStates, last : Int]] /\ at \in Int
    BY DEF LogisticsInv, LogisticsTypes, RowTypes, Times
  <2>2. CASE Dispatch(s, at)
    BY <2>1, <2>2 DEF Dispatch, Timely, ParcelStates
  <2>3. CASE Transit(s, at)
    BY <2>1, <2>3 DEF Transit, Timely, ParcelStates
  <2>4. CASE Deliver(s, at)
    BY <2>1, <2>4 DEF Deliver, Timely, ParcelStates
  <2>5. QED
    BY <2>2, <2>3, <2>4
<1>2. at \in Int /\ at >= 0
  BY DEF Times
<1>3. PICK e \in Logged : e = Event(type, at) /\ e.type = type /\ e.at = at
  BY <1>2, EventIsLogged DEF EventTypes
<1>4. trail' = [trail EXCEPT ![s]["parcel"] = Append(@, e)] /\ e.type = type /\ e.at = at
  BY <1>1, <1>3, ParcelTraced
<1>6. shipment[s].last <= at /\ shipment[s].last \in Int
  BY <1>1, <1>2 DEF LastNode, Never, LogisticsInv, LogisticsTypes, RowTypes
<1>7. Fits(s, "parcel", e)
  BY <1>1, <1>4, <1>6 DEF Fits, Began, Over, Latest, Exceptions, Opening, Closing
<1>8. Recorded(s, "parcel", e)'
  BY <1>1, <1>2, <1>4 DEF Recorded, Began, Over, Latest, Exceptions, Closing
<1>9. RowTypes'
  BY <1>1, <1>2 DEF LogisticsInv, LogisticsTypes, RowTypes, ParcelStates
<1>10. \A t \in Shipments, x \in Subjects : Keeps(t, x)
  <2>1. \A t \in Shipments : shipment[t].last \in Int /\ returned[t].updated \in Int
    BY DEF LogisticsInv, LogisticsTypes, RowTypes
  <2>2. QED
    BY <1>1, <1>6, <2>1 DEF Keeps, Began, Over, Latest
<1>11. QED
  BY <1>4, <1>7, <1>8, <1>9, <1>10, OneEvent DEF Subjects

LEMMA CreateReturnInv ==
  ASSUME LogisticsInv, NEW s \in Shipments, CreateReturn(s)
  PROVE  LogisticsInv'
<1>1. PICK e \in Logged : /\ e = Event("return_requested", clock)
                          /\ e.type = "return_requested" /\ e.at = clock
  <2>1. "return_requested" \in EventTypes /\ clock \in Int
    BY DEF LogisticsInv, LogisticsTypes, RowTypes, EventTypes
  <2>2. QED
    BY <2>1, EventIsLogged
<1>2. trail' = [trail EXCEPT ![s]["return"] = Append(@, e)]
  BY <1>1, ReturnTraced DEF CreateReturn
<1> DEFINE case == [status |-> "requested", updated |-> clock, due |-> clock + ReturnTerm,
                    received |-> Never]
<1>3. /\ case \in [status : ReturnStates, updated : Int, due : Int, received : Int]
      /\ case.status = "requested" /\ case.updated = clock
  BY LogisticsAssumption DEF LogisticsInv, LogisticsTypes, RowTypes, ReturnStates, Never
<1>4. returned' = [returned EXCEPT ![s] = case] /\ returned[s].status = "none"
  BY DEF CreateReturn
<1> HIDE DEF case
<1>5. /\ returned' \in [Shipments -> [status : ReturnStates, updated : Int, due : Int, received : Int]]
      /\ returned'[s] = case /\ \A t \in Shipments \ {s} : returned'[t] = returned[t]
  BY <1>3, <1>4 DEF LogisticsInv, LogisticsTypes, RowTypes
<1>6. UNCHANGED <<clock, shipment, raised, patrol>> /\ clock \in Int
  BY DEF CreateReturn, LogisticsInv, LogisticsTypes, RowTypes
<1>7. Fits(s, "return", e)
  BY <1>1, <1>4 DEF Fits, Began, Over, Exceptions
<1>8. Recorded(s, "return", e)'
  BY <1>1, <1>3, <1>5, <1>6 DEF Recorded, Began, Latest, Closing, Exceptions
<1>9. RowTypes'
  BY <1>5, <1>6 DEF LogisticsInv, LogisticsTypes, RowTypes
<1>10. \A t \in Shipments, x \in Subjects : Keeps(t, x)
  <2>1. \A t \in Shipments : shipment[t].last \in Int /\ returned[t].updated \in Int
    BY DEF LogisticsInv, LogisticsTypes, RowTypes
  <2>2. QED
    BY <1>4, <1>5, <1>6, <2>1 DEF Keeps, Began, Over, Latest
<1>11. QED
  BY <1>2, <1>7, <1>8, <1>9, <1>10, OneEvent DEF Subjects

LEMMA TransitionInv ==
  ASSUME LogisticsInv, NEW s \in Shipments, NEW at \in Times, NEW status \in ReturnStates,
         TransitionReturn(s, status, at)
  PROVE  LogisticsInv'
<1> DEFINE case == Moved(returned[s], status, at)
<1>1. /\ returned[s] \in [status : ReturnStates, updated : Int, due : Int, received : Int]
      /\ at \in Int /\ clock \in Int
  BY DEF LogisticsInv, LogisticsTypes, RowTypes, Times
<1>2. /\ case \in [status : ReturnStates, updated : Int, due : Int, received : Int]
      /\ case.status = status /\ case.updated = at
  BY <1>1 DEF Moved
<1>3. /\ returned[s].status \in {"requested", "approved", "in_transit", "received"}
      /\ status \in {"approved", "rejected", "in_transit", "received", "closed"}
      /\ returned[s].updated <= at
  BY <1>1 DEF TransitionReturn, Following, Timely
<1>4. returned' = [returned EXCEPT ![s] = case]
  BY DEF TransitionReturn
<1> HIDE DEF case
<1>5. /\ returned' \in [Shipments -> [status : ReturnStates, updated : Int, due : Int, received : Int]]
      /\ returned'[s] = case /\ \A t \in Shipments \ {s} : returned'[t] = returned[t]
  BY <1>2, <1>4 DEF LogisticsInv, LogisticsTypes, RowTypes
<1>6. /\ ReturnEvent[status] \in EventTypes \ (Notes \cup Opening)
      /\ ReturnEvent[status] \in Closing => status \in {"rejected", "closed"}
  BY <1>3 DEF ReturnEvent, EventTypes, Notes, Exceptions, Opening, Closing
<1>7. PICK e \in Logged : e = Event(ReturnEvent[status], at) /\ e.type = ReturnEvent[status] /\ e.at = at
  BY <1>1, <1>6, EventIsLogged
<1>8. trail' = [trail EXCEPT ![s]["return"] = Append(@, e)]
  BY <1>7, ReturnTraced DEF TransitionReturn
<1>9. UNCHANGED <<clock, shipment, raised, patrol>>
  BY DEF TransitionReturn
<1>10. Fits(s, "return", e)
  BY <1>1, <1>3, <1>6, <1>7 DEF Fits, Over, Latest, Notes, Exceptions
<1>11. Recorded(s, "return", e)'
  BY <1>1, <1>2, <1>3, <1>5, <1>6, <1>7 DEF Recorded, Began, Over, Latest, Notes
<1>12. RowTypes'
  BY <1>5, <1>9 DEF LogisticsInv, LogisticsTypes, RowTypes
<1>13. \A t \in Shipments, x \in Subjects : Keeps(t, x)
  <2>1. \A t \in Shipments : shipment[t].last \in Int /\ returned[t].updated \in Int
    BY DEF LogisticsInv, LogisticsTypes, RowTypes
  <2>2. QED
    BY <1>1, <1>2, <1>3, <1>5, <1>9, <2>1 DEF Keeps, Began, Over, Latest
<1>14. QED
  BY <1>8, <1>10, <1>11, <1>12, <1>13, OneEvent DEF Subjects

LEMMA ResolutionInv ==
  ASSUME LogisticsInv, NEW k \in raised, ResolveException(k)
  PROVE  LogisticsInv'
<1>1. k[1] \in Shipments /\ clock \in Int
  BY DEF LogisticsInv, LogisticsTypes, RowTypes
<1>2. "exception_resolve" \in EventTypes
  BY DEF EventTypes, Notes
<1>3. PICK e \in Logged : e = Event("exception_resolve", clock) /\ e.type = "exception_resolve"
  BY <1>1, <1>2, EventIsLogged
<1>4. PICK s : s = k[1]
  OBVIOUS
<1>5. PICK u \in Subjects : trail' = [trail EXCEPT ![s][u] = Append(@, e)]
  <2>1. CASE Traced(s, "exception_resolve", clock)
    <3>1. trail' = [trail EXCEPT ![s]["parcel"] = Append(@, e)]
      BY <1>1, <1>3, <1>4, <2>1, ParcelTraced
    <3>2. QED
      BY <3>1 DEF Subjects
  <2>2. CASE TracedReturn(s, "exception_resolve", clock)
    <3>1. trail' = [trail EXCEPT ![s]["return"] = Append(@, e)]
      BY <1>1, <1>3, <1>4, <2>2, ReturnTraced
    <3>2. QED
      BY <3>1 DEF Subjects
  <2>3. QED
    BY <1>4, <2>1, <2>2 DEF ResolveException
<1>6. Fits(s, u, e) /\ Recorded(s, u, e)'
  BY <1>3 DEF Fits, Recorded, Notes, Exceptions, Closing, Opening
<1>7. UNCHANGED <<clock, shipment, returned, raised, patrol>>
  BY DEF ResolveException
<1>8. RowTypes'
  BY <1>7 DEF LogisticsInv, LogisticsTypes, RowTypes
<1>9. \A t \in Shipments, x \in Subjects : Keeps(t, x)
  BY <1>7 DEF LogisticsInv, LogisticsTypes, RowTypes, Keeps, Began, Over, Latest
<1>10. QED
  BY <1>1, <1>4, <1>5, <1>6, <1>8, <1>9, OneEvent

(* Nothing is told.                                                            *)
LEMMA SilentInv ==
  ASSUME LogisticsInv, UNCHANGED <<shipment, returned, raised, trail>>, clock' \in Int,
         \A p \in Patrols : DOMAIN patrol'[p].rows \subseteq Shipments
  PROVE  LogisticsInv'
<1>1. LogisticsTypes'
  BY DEF LogisticsInv, LogisticsTypes, RowTypes
<1>2. \A s \in Shipments, u \in Subjects : TrailSound(s, u)'
  BY DEF LogisticsInv, TrailSound, Recorded, Began, Over, Latest
<1>3. QED
  BY <1>1, <1>2 DEF LogisticsInv

--------------------------------------------------------------------------------
(* The patrol.                                                                 *)

(* What a patrol may add to a trail at once.                                   *)
Batch(s, u, more, kinds) ==
  /\ more \in Seq(Logged)
  /\ InOrder(more)
  /\ \A j \in DOMAIN more : more[j].type \in kinds /\ Fits(s, u, more[j])

LEMMA BatchesJoin ==
  ASSUME NEW s, NEW u, NEW one, NEW two, NEW K, NEW L, Batch(s, u, one, K), Batch(s, u, two, L),
         K \cap L = {}, K \subseteq Exceptions, L \subseteq Exceptions
  PROVE  Batch(s, u, one \o two, K \cup L)
<1>1. one \in Seq(Logged) /\ two \in Seq(Logged) /\ InOrder(one) /\ InOrder(two)
  BY DEF Batch
<1>2. \A i \in DOMAIN one, j \in DOMAIN two : Follows(one[i], two[j])
  <2>1. Exceptions \subseteq Notes /\ Exceptions \cap Closing = {} /\ "dispatch" \notin Exceptions
    BY DEF Notes, Exceptions, Closing
  <2>2. QED
    BY <2>1 DEF Batch, Follows
<1>3. InOrder(one \o two)
  BY <1>1, <1>2, PartsInOrder
<1>4. ASSUME NEW j \in DOMAIN (one \o two)
      PROVE  (one \o two)[j].type \in K \cup L /\ Fits(s, u, (one \o two)[j])
  <2>1. CASE j <= Len(one)
    <3>1. j \in DOMAIN one /\ (one \o two)[j] = one[j]
      BY <1>1, <2>1
    <3>2. QED
      BY <3>1 DEF Batch
  <2>2. CASE j > Len(one)
    <3>1. j - Len(one) \in DOMAIN two /\ (one \o two)[j] = two[j - Len(one)]
      BY <1>1, <2>2
    <3>2. QED
      BY <3>1 DEF Batch
  <2>3. QED
    BY <1>1, <2>1, <2>2
<1>5. QED
  BY <1>1, <1>3, <1>4 DEF Batch

LEMMA FoundIsBatch ==
  ASSUME LogisticsInv, NEW p \in Patrols, NEW s \in Shipments, NEW u \in Subjects,
         NEW kind \in Exceptions, kind = "return_overdue" <=> u = "return"
  PROVE  Batch(s, u, Found(p, s, kind), {kind})
<1> DEFINE time == Anchor(kind, shipment[s], returned[s])
<1> DEFINE e == Event(kind, time)
<1>1. time \in Int /\ kind \in EventTypes
  <2>1. kind \in EventTypes
    BY DEF EventTypes, Notes
  <2>2. shipment[s].last \in Int /\ returned[s].received \in Int /\ returned[s].due \in Int
    BY DEF LogisticsInv, LogisticsTypes, RowTypes
  <2>3. QED
    BY <2>1, <2>2, LogisticsAssumption DEF Anchor, Exceptions
<1>2. e \in Logged /\ e.type = kind /\ e.at = time
  BY <1>1 DEF Event, Logged
<1>3. \/ Found(p, s, kind) = <<>>
      \/ /\ Found(p, s, kind) = <<e>>
         /\ Watched(kind, shipment[s], returned[s]) /\ Unraised(s, kind, time)
  BY DEF Found, Judged
<1> HIDE DEF e, time
<1>4. CASE Found(p, s, kind) = <<>>
  <2>1. <<>> \in Seq(Logged) /\ DOMAIN <<>> = {}
    OBVIOUS
  <2>2. QED
    BY <1>4, <2>1 DEF Batch, InOrder
<1>5. CASE /\ Found(p, s, kind) = <<e>>
           /\ Watched(kind, shipment[s], returned[s]) /\ Unraised(s, kind, time)
  <2>1. <<e>> \in Seq(Logged) /\ DOMAIN <<e>> = {1} /\ <<e>>[1] = e
    BY <1>2
  <2>2. Fits(s, u, e)
    BY <1>2, <1>5
       DEF Fits, Unraised, Watched, Key, Began, Over, Exceptions, Notes, Opening, Subjects
  <2>3. QED
    BY <1>2, <1>5, <2>1, <2>2 DEF Batch, InOrder
<1>6. QED
  BY <1>3, <1>4, <1>5

LEMMA DetectedIsBatch ==
  ASSUME LogisticsInv, NEW p \in Patrols, NEW s \in Shipments, NEW u \in Subjects
  PROVE  Batch(s, u, Detected(p, s)[u], Exceptions)
<1>1. CASE u = "return"
  <2>1. Batch(s, u, Found(p, s, "return_overdue"), {"return_overdue"})
    BY <1>1, FoundIsBatch DEF Exceptions
  <2>2. Detected(p, s)[u] = Found(p, s, "return_overdue")
    BY <1>1 DEF Detected
  <2>3. QED
    BY <2>1, <2>2 DEF Batch, Exceptions
<1>2. CASE u = "parcel"
  <2> DEFINE F(kind) == Found(p, s, kind)
  <2>1. /\ Batch(s, u, F("dispatch_overdue"), {"dispatch_overdue"})
        /\ Batch(s, u, F("delivery_overdue"), {"delivery_overdue"})
        /\ Batch(s, u, F("no_movement"), {"no_movement"})
    BY <1>2, FoundIsBatch DEF Exceptions
  <2>2. Detected(p, s)[u] = F("dispatch_overdue") \o F("delivery_overdue") \o F("no_movement")
    BY <1>2 DEF Detected
  <2> HIDE DEF F
  <2> DEFINE early == F("dispatch_overdue") \o F("delivery_overdue")
  <2>3. Batch(s, u, early, {"dispatch_overdue", "delivery_overdue"})
    <3>1. Batch(s, u, early, {"dispatch_overdue"} \cup {"delivery_overdue"})
      BY <2>1, BatchesJoin DEF Exceptions
    <3>2. QED
      BY <3>1 DEF Batch
  <2>4. Batch(s, u, early \o F("no_movement"), {"dispatch_overdue", "delivery_overdue"} \cup {"no_movement"})
    <3> HIDE DEF early
    <3>1. QED
      BY <2>1, <2>3, BatchesJoin DEF Exceptions
  <2>5. QED
    BY <2>2, <2>4 DEF Batch, Exceptions
<1>3. QED
  BY <1>1, <1>2 DEF Subjects

LEMMA JudgementInv ==
  ASSUME LogisticsInv, NEW p \in Patrols, PatrolJudges(p)
  PROVE  LogisticsInv'
<1>1. PICK found : found = [s \in Shipments |-> Detected(p, s)]
  OBVIOUS
<1>2. PICK seen : seen = DOMAIN patrol[p].rows /\ seen \subseteq Shipments
  BY DEF LogisticsInv, LogisticsTypes, RowTypes
<1>3. UNCHANGED <<clock, shipment, returned>> /\ patrol' = [patrol EXCEPT ![p] = NoPatrol]
  BY DEF PatrolJudges
<1>4. raised' = raised \cup UNION {{Key(s, e) : e \in Range(found[s][u])} : s \in seen, u \in Subjects}
  BY <1>1, <1>2 DEF PatrolJudges
<1>5. trail' = [s \in Shipments |-> IF s \in seen THEN [u \in Subjects |-> trail[s][u] \o found[s][u]]
                                              ELSE trail[s]]
  BY <1>1, <1>2 DEF PatrolJudges
<1>6. \A s \in Shipments, u \in Subjects : Batch(s, u, found[s][u], Exceptions)
  BY <1>1, DetectedIsBatch
<1>7. \A s \in Shipments, u \in Subjects : Keeps(s, u) /\ Latest(s, u)' \in Int
  BY <1>3, <1>4 DEF LogisticsInv, LogisticsTypes, RowTypes, Keeps, Began, Over, Latest
<1>8. ASSUME NEW s \in seen, NEW u \in Subjects PROVE TrailSound(s, u)'
  <2>1. PICK more \in Seq(Logged) : more = found[s][u] /\ InOrder(more)
    BY <1>2, <1>6 DEF Batch
  <2>2. trail'[s][u] = trail[s][u] \o more
    BY <1>2, <1>5, <2>1
  <2>3. \A j \in DOMAIN more : Fits(s, u, more[j]) /\ more[j].type \in Exceptions
    BY <1>2, <1>6, <2>1 DEF Batch
  <2>4. \A e \in Logged : (\E j \in DOMAIN more : e = more[j]) => Key(s, e) \in raised'
    <3>1. SUFFICES ASSUME NEW e \in Logged, NEW j \in DOMAIN more, e = more[j]
                   PROVE  Key(s, e) \in raised'
      OBVIOUS
    <3>2. e \in Range(found[s][u])
      BY <2>1, <3>1 DEF Range
    <3>3. Key(s, e) \in {Key(s, f) : f \in Range(found[s][u])}
      BY <3>2
    <3> DEFINE Keys(t, x) == {Key(t, f) : f \in Range(found[t][x])}
    <3>4. raised' = raised \cup UNION {Keys(t, x) : t \in seen, x \in Subjects} /\ Key(s, e) \in Keys(s, u)
      BY <1>4, <3>3
    <3> HIDE DEF Keys
    <3>5. Keys(s, u) \subseteq UNION {Keys(t, x) : t \in seen, x \in Subjects}
      OBVIOUS
    <3>6. QED
      BY <3>4, <3>5
  <2>5. \A e \in Logged : (\E j \in DOMAIN more : e = more[j]) => Recorded(s, u, e)'
    BY <2>3, <2>4 DEF Recorded, Key, Notes, Exceptions, Closing
  <2>6. QED
    BY <1>2, <1>7, <2>1, <2>2, <2>3, <2>5, GrownTrail
<1>9. ASSUME NEW s \in Shipments \ seen, NEW u \in Subjects PROVE TrailSound(s, u)'
  <2>1. PICK more : more = <<>>
    OBVIOUS
  <2>2. more \in Seq(Logged) /\ DOMAIN more = {} /\ InOrder(more)
    BY <2>1 DEF InOrder
  <2>3. trail'[s][u] = trail[s][u] \o more
    BY <1>5, <2>1 DEF LogisticsInv, LogisticsTypes
  <2>4. QED
    BY <1>7, <2>2, <2>3, GrownTrail
<1>10. trail' \in [Shipments -> [Subjects -> Seq(Logged)]]
  <2>1. \A s \in Shipments, u \in Subjects : trail[s][u] \o found[s][u] \in Seq(Logged)
    BY <1>6 DEF Batch, LogisticsInv, LogisticsTypes
  <2>2. QED
    BY <1>5, <2>1 DEF LogisticsInv, LogisticsTypes
<1>11. RowTypes'
  <2>1. raised' \subseteq Shipments \X Exceptions \X Int
    <3>1. ASSUME NEW s \in seen, NEW u \in Subjects, NEW e \in Range(found[s][u])
          PROVE  Key(s, e) \in Shipments \X Exceptions \X Int
      <4>1. e \in Logged /\ e.type \in Exceptions
        BY <1>2, <1>6 DEF Batch, Range
      <4>2. QED
        BY <1>2, <4>1 DEF Key, Logged
    <3>2. QED
      BY <1>4, <3>1 DEF LogisticsInv, LogisticsTypes, RowTypes
  <2>2. \A q \in Patrols : DOMAIN patrol'[q].rows \subseteq Shipments
    <3>1. DOMAIN NoPatrol.rows = {}
      BY DEF NoPatrol
    <3>2. QED
      BY <1>3, <3>1 DEF LogisticsInv, LogisticsTypes, RowTypes
  <2>3. QED
    BY <1>3, <2>1, <2>2 DEF LogisticsInv, LogisticsTypes, RowTypes
<1>12. QED
  BY <1>8, <1>9, <1>10, <1>11 DEF LogisticsInv, LogisticsTypes

--------------------------------------------------------------------------------
(* Theorems.                                                                   *)

LEMMA InitLogisticsInv == LogisticsInit => LogisticsInv
<1> SUFFICES ASSUME LogisticsInit PROVE LogisticsInv
  OBVIOUS
<1>1. RowTypes
  <2>1. DOMAIN NoPatrol.rows = {}
    BY DEF NoPatrol
  <2>2. QED
    BY <2>1 DEF LogisticsInit, RowTypes, ParcelStates, ReturnStates, Never
<1>2. <<>> \in Seq(Logged) /\ DOMAIN <<>> = {}
  OBVIOUS
<1>3. trail \in [Shipments -> [Subjects -> Seq(Logged)]]
  BY <1>2 DEF LogisticsInit
<1>4. \A s \in Shipments, u \in Subjects : trail[s][u] = <<>>
  BY DEF LogisticsInit
<1>5. \A s \in Shipments, u \in Subjects : TrailSound(s, u)
  BY <1>2, <1>4 DEF TrailSound, InOrder
<1>6. QED
  BY <1>1, <1>3, <1>5 DEF LogisticsInv, LogisticsTypes

LEMMA NextLogisticsInv ==
  ASSUME LogisticsInv, [LogisticsNext]_logisticsVars
  PROVE  LogisticsInv'
<1>1. CASE Tick \/ UNCHANGED logisticsVars
  BY <1>1, SilentInv DEF Tick, logisticsVars, LogisticsInv, LogisticsTypes, RowTypes
<1>2. ASSUME NEW p \in Patrols, PatrolSelects(p) PROVE LogisticsInv'
  <2> DEFINE rows == [s \in {x \in Shipments : shipment[x].status # "none"} |->
                        [parcel |-> shipment[s].status, case |-> returned[s].status]]
  <2> DEFINE selected == [pc |-> "selected", rows |-> rows]
  <2>1. DOMAIN selected.rows \subseteq Shipments
    OBVIOUS
  <2>2. patrol' = [patrol EXCEPT ![p] = selected] /\ UNCHANGED <<clock, shipment, returned, raised, trail>>
    BY <1>2 DEF PatrolSelects
  <2> HIDE DEF selected
  <2>3. \A q \in Patrols : DOMAIN patrol'[q].rows \subseteq Shipments
    BY <2>1, <2>2 DEF LogisticsInv, LogisticsTypes, RowTypes
  <2>4. QED
    BY <2>2, <2>3, SilentInv DEF LogisticsInv, LogisticsTypes, RowTypes
<1>3. ASSUME NEW p \in Patrols, PatrolFails(p) PROVE LogisticsInv'
  <2>1. DOMAIN NoPatrol.rows = {}
    BY DEF NoPatrol
  <2>2. patrol' = [patrol EXCEPT ![p] = NoPatrol] /\ UNCHANGED <<clock, shipment, returned, raised, trail>>
    BY <1>3 DEF PatrolFails
  <2>3. \A q \in Patrols : DOMAIN patrol'[q].rows \subseteq Shipments
    BY <2>1, <2>2 DEF LogisticsInv, LogisticsTypes, RowTypes
  <2>4. QED
    BY <2>2, <2>3, SilentInv DEF LogisticsInv, LogisticsTypes, RowTypes
<1>4. ASSUME NEW s \in Shipments, CreateShipment(s) \/ CreateReturn(s) PROVE LogisticsInv'
  BY <1>4, CreationInv, CreateReturnInv
<1>5. ASSUME NEW s \in Shipments, NEW at \in Times, Dispatch(s, at) \/ Transit(s, at) \/ Deliver(s, at)
      PROVE  LogisticsInv'
  BY <1>5, RegistrationInv
<1>6. QED
  BY <1>1, <1>2, <1>3, <1>4, <1>5, TransitionInv, JudgementInv, ResolutionInv DEF LogisticsNext

(* What is true of logistics at every moment: every trail is in order, what it *)
(* tells of the course agrees with the status and the times of the rows, and   *)
(* every exception it tells of is one of those on record (logistics.py,        *)
(* record_event, transition_return, patrol).                                   *)
THEOREM LogisticsInvariance == LogisticsSpec => []LogisticsInv
<1>1. LogisticsInv /\ [LogisticsNext]_logisticsVars => LogisticsInv'
  BY NextLogisticsInv
<1>2. QED
  BY InitLogisticsInv, <1>1, PTL DEF LogisticsSpec

(* However many people register events late, and however many patrols run      *)
(* meanwhile, a trail tells one course of events in the order of its times and *)
(* nothing after its end (logistics.py:300, 360).                              *)
THEOREM TrailInOrderHolds == LogisticsSpec => []TrailInOrder
<1>1. LogisticsInv => TrailInOrder
  BY DEF LogisticsInv, TrailSound, InOrder, Follows, TrailInOrder
<1>2. QED
  BY LogisticsInvariance, <1>1, PTL

(* No patrol, however late it judges what it selected, raises an exception     *)
(* twice for the same evidence or after what settles it (logistics.py:445).    *)
THEOREM RaisedOnceInTimeHolds == LogisticsSpec => []RaisedOnceInTime
<1>1. LogisticsInv => RaisedOnceInTime
  BY DEF LogisticsInv, TrailSound, InOrder, Follows, RaisedOnceInTime
<1>2. QED
  BY LogisticsInvariance, <1>1, PTL

================================================================================
