---------------------- MODULE AdministrationAndWebhooksProofs ---------------------
(* Machine-checked proofs about the two smallest components, for any number of *)
(* users and concurrent requests, and any events and bodies.                   *)
EXTENDS Administration, PlatformWebhooks, FiniteSetTheorems, WellFoundedInduction, TLAPS

--------------------------------------------------------------------------------
(* Administration.                                                             *)

LEMMA InitRemains == AdministrationInit => AdministratorRemains
BY DEF AdministrationInit, AdministratorRemains

LEMMA NextRemains ==
  AdministratorRemains /\ [AdministrationNext]_administrationVars => AdministratorRemains'
<1> SUFFICES ASSUME AdministratorRemains, [AdministrationNext]_administrationVars
             PROVE  administrators' # {}
  BY DEF AdministratorRemains
<1>1. ASSUME NEW t \in Changes, NEW administers \in BOOLEAN, UpdateUser(t, administers)
      PROVE  administrators' # {}
  BY <1>1 DEF UpdateUser, LockedAdministrators, AdministratorRemains
<1>2. QED
  BY <1>1 DEF AdministratorRemains, AdministrationNext, administrationVars, Begin, LockUser,
              ChangeStores, RollBack

(* However many administrators demote and disable each other at once, one of   *)
(* them remains (update_admin_user in admin_management.py).                    *)
THEOREM AdministratorRemainsHolds == AdministrationSpec => []AdministratorRemains
BY InitRemains, NextRemains, PTL DEF AdministrationSpec

Transaction == [pc : {"idle", "locking"}, actor : Nat, target : Nat,
                seen : SUBSET People, held : SUBSET People]

ChangesOK ==
  /\ administrators \subseteq People
  /\ change \in [Changes -> Transaction]
  /\ \A t \in Changes : change[t].pc = "locking" => Wanted(t) \subseteq People

(* A locked row is locked by one request.                                      *)
LocksExclude ==
  \A t, o \in Changes : change[t].held \cap change[o].held # {} => t = o

(* Whatever a request holds it wanted, and comes before all it still waits for. *)
LocksInOrder ==
  \A t \in Changes :
    /\ change[t].held \subseteq Wanted(t)
    /\ \A held \in change[t].held, awaited \in Wanted(t) \ change[t].held : held < awaited

LocksInv == ChangesOK /\ LocksExclude /\ LocksInOrder

LEMMA NoChangeFacts ==
  /\ NoChange \in Transaction /\ NoChange.pc = "idle"
  /\ NoChange.held = {} /\ NoChange.seen = {}
BY DEF NoChange, Transaction

LEMMA InitLocks == AdministrationInit => LocksInv
<1> SUFFICES ASSUME AdministrationInit PROVE LocksInv
  OBVIOUS
<1>1. \A t \in Changes : change[t] = NoChange
  BY DEF AdministrationInit
<1>2. QED
  BY <1>1, NoChangeFacts
     DEF AdministrationInit, LocksInv, ChangesOK, LocksExclude, LocksInOrder, Wanted

LEMMA DoneLocks ==
  ASSUME LocksInv, NEW t \in Changes, Done(t), administrators' \subseteq People
  PROVE  LocksInv'
<1>1. /\ change' \in [Changes -> Transaction]
      /\ change'[t] = NoChange
      /\ \A o \in Changes \ {t} : change'[o] = change[o]
  BY NoChangeFacts DEF Done, LocksInv, ChangesOK
<1>2. ChangesOK'
  BY <1>1, NoChangeFacts DEF LocksInv, ChangesOK, Wanted
<1>3. LocksExclude'
  BY <1>1, NoChangeFacts DEF LocksInv, LocksExclude
<1>4. LocksInOrder'
  BY <1>1, NoChangeFacts DEF LocksInv, LocksInOrder, Wanted
<1>5. QED
  BY <1>2, <1>3, <1>4 DEF LocksInv

LEMMA NextLocks == LocksInv /\ [AdministrationNext]_administrationVars => LocksInv'
<1> SUFFICES ASSUME LocksInv, [AdministrationNext]_administrationVars PROVE LocksInv'
  OBVIOUS
<1>1. ASSUME NEW t \in Changes, NEW actor \in People, NEW target \in People, Begin(t, actor, target)
      PROVE  LocksInv'
  <2> DEFINE c == [pc |-> "locking", actor |-> actor, target |-> target, seen |-> administrators,
                   held |-> {}]
  <2>1. c \in Transaction /\ c.held = {} /\ {c.actor, c.target} \cup c.seen \subseteq People
    BY DEF Transaction, LocksInv, ChangesOK, People
  <2>2. change' = [change EXCEPT ![t] = c] /\ administrators' = administrators
    BY <1>1 DEF Begin
  <2> HIDE DEF c
  <2>3. change'[t] = c /\ \A o \in Changes \ {t} : change'[o] = change[o]
    BY <2>2 DEF LocksInv, ChangesOK
  <2>4. ChangesOK'
    BY <2>1, <2>2, <2>3 DEF LocksInv, ChangesOK, Wanted
  <2>5. LocksExclude'
    BY <2>1, <2>3 DEF LocksInv, LocksExclude
  <2>6. LocksInOrder'
    BY <2>1, <2>3 DEF LocksInv, LocksInOrder, Wanted
  <2>7. QED
    BY <2>4, <2>5, <2>6 DEF LocksInv
<1>2. ASSUME NEW t \in Changes, NEW u \in People, LockUser(t, u) PROVE LocksInv'
  <2> DEFINE c == [change[t] EXCEPT !.held = @ \cup {u}]
  <2>1. /\ c \in Transaction /\ c.pc = "locking" /\ c.held = change[t].held \cup {u}
        /\ c.actor = change[t].actor /\ c.target = change[t].target /\ c.seen = change[t].seen
    BY <1>2 DEF LockUser, LocksInv, ChangesOK, Transaction
  <2>2. change' = [change EXCEPT ![t] = c] /\ administrators' = administrators
    BY <1>2 DEF LockUser
  <2> HIDE DEF c
  <2>3. change'[t] = c /\ \A o \in Changes \ {t} : change'[o] = change[o]
    BY <2>2 DEF LocksInv, ChangesOK
  <2>4. \A o \in Changes : Wanted(o)' = Wanted(o)
    BY <2>1, <2>3 DEF Wanted
  <2>5. ChangesOK'
    BY <1>2, <2>1, <2>2, <2>3, <2>4 DEF LockUser, LocksInv, ChangesOK
  <2>6. LocksExclude'
    BY <1>2, <2>1, <2>3 DEF LockUser, LocksInv, LocksExclude
  <2>7. LocksInOrder'
    <3>1. /\ u \in Wanted(t) /\ Wanted(t) \subseteq People
          /\ \A v \in Wanted(t) \ change[t].held : u <= v
      BY <1>2 DEF LockUser, LocksInv, ChangesOK
    <3>2. \A held \in c.held, awaited \in Wanted(t) \ c.held : held < awaited
      BY <2>1, <3>1 DEF LocksInv, LocksInOrder, People
    <3>3. QED
      BY <2>1, <2>3, <2>4, <3>1, <3>2 DEF LocksInv, LocksInOrder
  <2>8. QED
    BY <2>5, <2>6, <2>7 DEF LocksInv
<1>3. ASSUME NEW t \in Changes, NEW administers \in BOOLEAN, UpdateUser(t, administers)
      PROVE  LocksInv'
  <2>1. change[t].target \in People
    BY <1>3 DEF UpdateUser, Allowed, Locked, LocksInv, ChangesOK, Wanted
  <2>2. administrators' \subseteq People
    BY <1>3, <2>1 DEF UpdateUser, LocksInv, ChangesOK
  <2>3. QED
    BY <1>3, <2>2, DoneLocks DEF UpdateUser
<1>4. ASSUME NEW t \in Changes, ChangeStores(t) \/ RollBack(t) PROVE LocksInv'
  BY <1>4, DoneLocks DEF ChangeStores, RollBack, LocksInv, ChangesOK
<1>5. ASSUME UNCHANGED administrationVars PROVE LocksInv'
  BY <1>5 DEF administrationVars, LocksInv, ChangesOK, LocksExclude, LocksInOrder, Wanted
<1>6. QED
  BY <1>1, <1>2, <1>3, <1>4, <1>5 DEF AdministrationNext

(* Request t waits for the row u, which another one holds.                     *)
Awaits(t, u) ==
  /\ change[t].pc = "locking"
  /\ u \in Wanted(t) \ change[t].held
  /\ \A v \in Wanted(t) \ change[t].held : u <= v
  /\ \E o \in Changes : u \in change[o].held

(* There is no group of requests of which each waits for another of the group. *)
NoCircle ==
  \A group \in SUBSET Changes :
    group # {} =>
      ~ \A t \in group : \E u \in People : Awaits(t, u) /\ \E o \in group : u \in change[o].held

(* A set of rows has a last one.                                               *)
LEMMA LastRow ==
  ASSUME NEW rows \in SUBSET People, rows # {}
  PROVE  \E u \in rows : \A v \in rows : v <= u
<1> DEFINE gaps == {n \in Nat : LastUser - n \in rows}
<1>1. LastUser \in Nat /\ \A u \in rows : u \in Nat /\ u <= LastUser
  BY AdministrationAssumption DEF People
<1>2. \A u \in rows : LastUser - u \in gaps
  BY <1>1
<1>3. gaps \subseteq Nat /\ gaps # {}
  BY <1>2
<1>4. PICK n \in gaps : \A m \in gaps : ~ (<<m, n>> \in OpToRel(<, Nat))
  BY <1>3, WFMin, NatLessThanWellFounded
<1>5. \A m \in gaps : ~ (m < n)
  BY <1>3, <1>4 DEF OpToRel
<1>6. LastUser - n \in rows /\ n \in Nat
  OBVIOUS
<1>7. \A v \in rows : v <= LastUser - n
  BY <1>1, <1>2, <1>5, <1>6
<1>8. QED
  BY <1>6, <1>7

LEMMA LocksBreakCircles == LocksInv => NoCircle
<1> SUFFICES ASSUME LocksInv, NEW group \in SUBSET Changes, group # {},
                    \A t \in group : \E u \in People : Awaits(t, u) /\ \E o \in group : u \in change[o].held
             PROVE  FALSE
  BY DEF NoCircle
<1> DEFINE rows == {u \in People : \E t \in group : Awaits(t, u) /\ \E o \in group : u \in change[o].held}
<1>1. rows # {} /\ rows \in SUBSET People
  OBVIOUS
<1>2. PICK u \in rows : \A v \in rows : v <= u
  BY <1>1, LastRow
<1>3. PICK o \in group : u \in change[o].held
  OBVIOUS
<1>4. PICK v \in People : Awaits(o, v) /\ \E other \in group : v \in change[other].held
  OBVIOUS
<1>5. u < v
  BY <1>3, <1>4 DEF Awaits, LocksInv, LocksInOrder
<1>6. v <= u
  BY <1>2, <1>4
<1>7. QED
  BY <1>5, <1>6 DEF People

(* Administrators who change each other, themselves and stores at once wait    *)
(* for each other's rows, but never in a circle (lock_admin_user_set orders    *)
(* the rows by id).                                                            *)
THEOREM NoCircleHolds == AdministrationSpec => []NoCircle
BY InitLocks, NextLocks, LocksBreakCircles, PTL DEF AdministrationSpec

--------------------------------------------------------------------------------
(* Webhooks.                                                                   *)

AnswerRow == [request : Requests, event : Events, body : Bodies,
              answer : {"created", "known", "conflict", "invalid", "unavailable"}]

WebhooksOK ==
  /\ receipt \in [Events -> Bodies \cup {NoBody}]
  /\ request \in [Requests -> [pc : {"idle", "received", "inserting", "done"},
                               event : Events \cup {NoEvent}, body : Bodies \cup {NoBody}]]
  /\ \A q \in Requests : request[q].pc \in {"received", "inserting"} =>
                           request[q].event \in Events /\ request[q].body \in Bodies
  /\ answers \subseteq AnswerRow

(* One request wrote the receipt of an event, and was told so or nothing; no   *)
(* other was told that it did.                                                 *)
ReceiptsCreated ==
  /\ \A e \in Events : Creations(e) = {} \/ \E a : Creations(e) = {a}
  /\ \A e \in Events : receipt[e] = NoBody => Creations(e) = {}
  /\ \A e \in Events : receipt[e] # NoBody =>
       \E o \in answers : o.event = e /\ o.body = receipt[e] /\ o.answer \in MayHaveCreated

AnswersTrue ==
  \A a \in answers :
    /\ a.answer \in {"created", "known"} => receipt[a.event] = a.body
    /\ a.answer = "conflict" => receipt[a.event] \notin {NoBody, a.body}

WebhookInv == WebhooksOK /\ ReceiptsCreated /\ AnswersTrue

LEMMA InitWebhooks == WebhookInit => WebhookInv
BY DEF WebhookInit, WebhookInv, WebhooksOK, ReceiptsCreated, AnswersTrue, Creations, Unsent

(* A request is answered from the receipts as they are.                        *)
LEMMA CloseKeeps ==
  ASSUME WebhookInv, NEW q \in Requests, request[q].pc \in {"received", "inserting"},
         NEW answer \in {"known", "conflict", "invalid", "unavailable"}, Close(q, answer),
         receipt' = receipt,
         answer = "known" => receipt[request[q].event] = request[q].body,
         answer = "conflict" => receipt[request[q].event] \notin {NoBody, request[q].body}
  PROVE  WebhookInv'
<1> DEFINE a == [request |-> q, event |-> request[q].event, body |-> request[q].body, answer |-> answer]
<1>1. /\ a \in AnswerRow /\ answers' = answers \cup {a}
      /\ a.event = request[q].event /\ a.body = request[q].body /\ a.answer = answer
  BY DEF WebhookInv, WebhooksOK, AnswerRow, Close, Answer
<1> HIDE DEF a
<1>2. WebhooksOK'
  BY <1>1 DEF WebhookInv, WebhooksOK, Close
<1>3. \A e \in Events : Creations(e)' = Creations(e)
  BY <1>1 DEF Creations
<1>4. ReceiptsCreated'
  BY <1>1, <1>3 DEF WebhookInv, ReceiptsCreated
<1>5. AnswersTrue'
  BY <1>1 DEF WebhookInv, AnswersTrue
<1>6. QED
  BY <1>2, <1>4, <1>5 DEF WebhookInv

LEMMA InsertKeeps ==
  ASSUME WebhookInv, NEW q \in Requests, request[q].pc = "inserting",
         receipt[request[q].event] = NoBody,
         receipt' = [receipt EXCEPT ![request[q].event] = request[q].body],
         NEW answer \in MayHaveCreated, Close(q, answer)
  PROVE  WebhookInv'
<1> DEFINE e == request[q].event
<1> DEFINE a == [request |-> q, event |-> request[q].event, body |-> request[q].body,
                 answer |-> answer]
<1>1. /\ a \in AnswerRow /\ answers' = answers \cup {a}
      /\ a.event = e /\ a.body = request[q].body /\ a.answer = answer
      /\ e \in Events /\ request[q].body \in Bodies /\ request[q].body # NoBody
      /\ receipt[e] = NoBody
  BY WebhookAssumption DEF WebhookInv, WebhooksOK, AnswerRow, MayHaveCreated, Close, Answer
<1>2. /\ receipt'[e] = request[q].body
      /\ \A o \in Events \ {e} : receipt'[o] = receipt[o]
  BY <1>1 DEF WebhookInv, WebhooksOK
<1> HIDE DEF a
<1>3. WebhooksOK'
  BY <1>1 DEF WebhookInv, WebhooksOK, Close
<1>4. ASSUME NEW o \in Events
      PROVE  Creations(o)' = IF o = e /\ answer = "created" THEN Creations(o) \cup {a} ELSE Creations(o)
  BY <1>1 DEF Creations
<1> HIDE DEF e
<1>5. ReceiptsCreated'
  <2>1. Creations(e) = {}
    BY <1>1 DEF WebhookInv, ReceiptsCreated
  <2>2. ASSUME NEW o \in Events
        PROVE  /\ Creations(o)' = {} \/ \E x : Creations(o)' = {x}
               /\ receipt'[o] = NoBody => Creations(o)' = {}
    <3>1. CASE o = e
      <4>1. Creations(o)' = {} \/ Creations(o)' = {a}
        BY <1>4, <2>1, <3>1
      <4>2. receipt'[o] # NoBody
        BY <1>1, <1>2, <3>1
      <4>3. QED
        BY <4>1, <4>2
    <3>2. CASE o # e
      <4>1. Creations(o)' = Creations(o) /\ receipt'[o] = receipt[o]
        BY <1>2, <1>4, <3>2
      <4>2. QED
        BY <4>1 DEF WebhookInv, ReceiptsCreated
    <3>3. QED
      BY <3>1, <3>2
  <2>3. ASSUME NEW o \in Events, receipt'[o] # NoBody
        PROVE  \E x \in answers' : x.event = o /\ x.body = receipt'[o] /\ x.answer \in MayHaveCreated
    BY <1>1, <1>2, <2>3 DEF WebhookInv, ReceiptsCreated
  <2>4. QED
    BY <2>2, <2>3 DEF ReceiptsCreated
<1>6. AnswersTrue'
  <2>1. \A x \in answers : x.event = e => x.answer \notin {"created", "known", "conflict"}
    BY <1>1, WebhookAssumption DEF WebhookInv, WebhooksOK, AnswersTrue, AnswerRow
  <2>2. \A x \in answers : x.event \in Events
    BY DEF WebhookInv, WebhooksOK, AnswerRow
  <2>3. QED
    BY <1>1, <1>2, <2>1, <2>2 DEF WebhookInv, AnswersTrue, MayHaveCreated
<1>7. QED
  BY <1>3, <1>5, <1>6 DEF WebhookInv

LEMMA NextWebhooks == WebhookInv /\ [WebhookNext]_webhookVars => WebhookInv'
<1> SUFFICES ASSUME WebhookInv, [WebhookNext]_webhookVars PROVE WebhookInv'
  OBVIOUS
<1>1. ASSUME receipt' = receipt, answers' = answers, WebhooksOK' PROVE WebhookInv'
  BY <1>1 DEF WebhookInv, ReceiptsCreated, AnswersTrue, Creations
<1>2. ASSUME NEW b \in Bodies, DeliverySucceeds(b) PROVE WebhookInv'
  BY <1>1, <1>2 DEF DeliverySucceeds, WebhookInv, WebhooksOK
<1>3. ASSUME NEW q \in Requests, NEW e \in Events, NEW b \in Bodies, Arrives(q, e, b)
      PROVE  WebhookInv'
  BY <1>1, <1>3 DEF Arrives, WebhookInv, WebhooksOK
<1>4. ASSUME NEW q \in Requests, AnswerKnown(q) PROVE WebhookInv'
  BY <1>4, CloseKeeps DEF AnswerKnown, IsExactReplay
<1>5. ASSUME NEW q \in Requests, LookUp(q) PROVE WebhookInv'
  <2>1. CASE Close(q, "invalid")
    BY <1>5, <2>1, CloseKeeps DEF LookUp
  <2>2. CASE request' = [request EXCEPT ![q].pc = "inserting"] /\ UNCHANGED answers
    BY <1>1, <1>5, <2>2 DEF LookUp, WebhookInv, WebhooksOK
  <2>3. QED
    BY <1>5, <2>1, <2>2 DEF LookUp
<1>6. ASSUME NEW q \in Requests, LoseRace(q) PROVE WebhookInv'
  BY <1>6, CloseKeeps DEF LoseRace, IsExactReplay
<1>7. ASSUME NEW q \in Requests, Unavailable(q) PROVE WebhookInv'
  BY <1>7, CloseKeeps DEF Unavailable
<1>8. ASSUME NEW q \in Requests, Insert(q) \/ InsertUnacknowledged(q) PROVE WebhookInv'
  BY <1>8, InsertKeeps DEF Insert, InsertUnacknowledged, MayHaveCreated
<1>9. ASSUME UNCHANGED webhookVars PROVE WebhookInv'
  BY <1>1, <1>9 DEF webhookVars, WebhookInv, WebhooksOK
<1>10. QED
  BY <1>2, <1>3, <1>4, <1>5, <1>6, <1>7, <1>8, <1>9 DEF WebhookNext

LEMMA TrueAnswersAgree == WebhookInv => AnswersAgree
<1> SUFFICES ASSUME WebhookInv PROVE AnswersAgree
  OBVIOUS
<1>1. ASSUME NEW e \in Events PROVE Cardinality(Creations(e)) <= 1
  <2>1. CASE Creations(e) = {}
    BY <2>1, FS_EmptySet
  <2>2. CASE \E x : Creations(e) = {x}
    BY <2>2, FS_Singleton
  <2>3. QED
    BY <2>1, <2>2 DEF WebhookInv, ReceiptsCreated
<1>2. ASSUME NEW a \in answers, a.answer \in {"created", "known"}
      PROVE  /\ receipt[a.event] = a.body
             /\ \E o \in answers : o.event = a.event /\ o.body = a.body /\ o.answer \in MayHaveCreated
  <2>1. a.event \in Events /\ receipt[a.event] = a.body /\ receipt[a.event] # NoBody
    BY <1>2, WebhookAssumption DEF WebhookInv, WebhooksOK, AnswerRow, AnswersTrue
  <2>2. QED
    BY <2>1 DEF WebhookInv, ReceiptsCreated
<1>3. QED
  BY <1>1, <1>2 DEF WebhookInv, AnswersTrue, AnswersAgree

(* Whichever way the platform's notices come in, once, twice, at once or late, *)
(* one request creates the receipt, even if the acknowledgement of its commit  *)
(* is lost, and all others are told the truth about it                         *)
(* (platform_webhooks.py, _is_exact_replay and the second look).               *)
THEOREM AnswersAgreeHolds == WebhookSpec => []AnswersAgree
BY InitWebhooks, NextWebhooks, TrueAnswersAgree, PTL DEF WebhookSpec

================================================================================
