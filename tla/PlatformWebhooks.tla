----------------------------- MODULE PlatformWebhooks -----------------------------
(* Receipt of the platform's notices that an operation was carried out         *)
(* (platform_webhooks.py). A notice is an event id and a body; the body names  *)
(* a delivery and its operation. The platform may send it early, twice at      *)
(* once, or again much later. Requests with a bad signature, an old timestamp  *)
(* or an unreadable body are refused before anything is read.                  *)
EXTENDS Naturals, FiniteSets

CONSTANTS Events,
          Bodies,       \* signed payloads: delivery, operation and type
          NoBody,
          Requests,
          NoEvent

ASSUME WebhookAssumption == NoBody \notin Bodies

VARIABLES settled,     \* the bodies whose operation is that of a succeeded delivery
          receipt,     \* platform_webhook_receipts: the body, by event id
          request,     \* the transaction that handles each request
          answers      \* what was answered so far

webhookVars == <<settled, receipt, request, answers>>

Unsent == [pc |-> "idle", event |-> NoEvent, body |-> NoBody]

Answer(q, answer) ==
  answers' = answers \cup {[request |-> q, event |-> request[q].event, body |-> request[q].body,
                            answer |-> answer]}

Close(q, answer) ==
  /\ Answer(q, answer)
  /\ request' = [request EXCEPT ![q].pc = "done"]

(* The delivery worker records the result.                                     *)
DeliverySucceeds(b) ==
  /\ b \notin settled
  /\ settled' = settled \cup {b}
  /\ UNCHANGED <<receipt, request, answers>>

Arrives(q, e, b) ==
  /\ request[q].pc = "idle"
  /\ request' = [request EXCEPT ![q] = [pc |-> "received", event |-> e, body |-> b]]
  /\ UNCHANGED <<settled, receipt, answers>>

(* _is_exact_replay                                                            *)
IsExactReplay(q) == receipt[request[q].event] = request[q].body

(* The event is known.                                                         *)
AnswerKnown(q) ==
  /\ request[q].pc = "received"
  /\ receipt[request[q].event] # NoBody
  /\ Close(q, IF ~IsExactReplay(q) THEN "conflict"
              ELSE IF request[q].body \in settled THEN "known" ELSE "invalid")
  /\ UNCHANGED <<settled, receipt>>

(* The event is not known yet, and the delivery is looked up.                  *)
LookUp(q) ==
  /\ request[q].pc = "received"
  /\ receipt[request[q].event] = NoBody
  /\ \/ request[q].body \in settled /\ request' = [request EXCEPT ![q].pc = "inserting"]
                                    /\ UNCHANGED answers
     \/ request[q].body \notin settled /\ Close(q, "invalid")
  /\ UNCHANGED <<settled, receipt>>

(* The receipt and its audit event are committed together.                     *)
Insert(q) ==
  /\ request[q].pc = "inserting"
  /\ receipt[request[q].event] = NoBody
  /\ receipt' = [receipt EXCEPT ![request[q].event] = request[q].body]
  /\ Close(q, "created")
  /\ UNCHANGED settled

(* The same, but the acknowledgement of the commit is lost.                    *)
InsertUnacknowledged(q) ==
  /\ request[q].pc = "inserting"
  /\ receipt[request[q].event] = NoBody
  /\ receipt' = [receipt EXCEPT ![request[q].event] = request[q].body]
  /\ Close(q, "unavailable")
  /\ UNCHANGED settled

(* Mutant: whoever loses the race is told that the event is known.             *)
LoseRaceGladly(q) ==
  /\ request[q].pc = "inserting"
  /\ receipt[request[q].event] # NoBody
  /\ Close(q, "known")
  /\ UNCHANGED <<settled, receipt>>

(* Another request inserted the event: IntegrityError, then a second look      *)
LoseRace(q) ==
  /\ request[q].pc = "inserting"
  /\ receipt[request[q].event] # NoBody
  /\ Close(q, IF IsExactReplay(q) THEN "known" ELSE "conflict")
  /\ UNCHANGED <<settled, receipt>>

(* A statement fails, or the platform hangs up: nothing is written.            *)
Unavailable(q) ==
  /\ request[q].pc \in {"received", "inserting"}
  /\ Close(q, "unavailable")
  /\ UNCHANGED <<settled, receipt>>

WebhookInit ==
  /\ settled = {}
  /\ receipt = [e \in Events |-> NoBody]
  /\ request = [q \in Requests |-> Unsent]
  /\ answers = {}

WebhookNext ==
  \/ \E b \in Bodies : DeliverySucceeds(b)
  \/ \E q \in Requests :
       \/ \E e \in Events, b \in Bodies : Arrives(q, e, b)
       \/ AnswerKnown(q) \/ LookUp(q) \/ Insert(q) \/ InsertUnacknowledged(q)
       \/ LoseRace(q) \/ Unavailable(q)

WebhookSpec == WebhookInit /\ [][WebhookNext]_webhookVars

--------------------------------------------------------------------------------
(* Properties.                                                                 *)

Creations(e) == {a \in answers : a.event = e /\ a.answer = "created"}

(* Answers after which the receipt may have been written by this request.      *)
MayHaveCreated == {"created", "unavailable"}

(* Whatever the order of its deliveries, the platform is told the truth about  *)
(* an event: at most one request is told that it created it; one with the same *)
(* body is told that it is known only if an earlier one created it, told so or *)
(* not; one with another body that it conflicts (platform_webhooks.py:92).     *)
AnswersAgree ==
  /\ \A e \in Events : Cardinality(Creations(e)) <= 1
  /\ \A a \in answers :
       /\ a.answer \in {"created", "known"} =>
            /\ receipt[a.event] = a.body
            /\ \E o \in answers : /\ o.event = a.event /\ o.body = a.body
                                  /\ o.answer \in MayHaveCreated
       /\ a.answer = "conflict" => receipt[a.event] \notin {NoBody, a.body}

================================================================================
