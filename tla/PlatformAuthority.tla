---------------------------- MODULE PlatformAuthority ---------------------------
(* When an approver loses the authority to publish, what may still leave for   *)
(* the platform on the approver's behalf. authorize_publish checks before each *)
(* PUT (platform_delivery_worker.py, _post_listing), but its session is closed *)
(* before the request leaves, so an administrator's change can fall between.   *)
(*                                                                             *)
(* The deliveries are those of PlatformDelivery, with a history variable that  *)
(* remembers whom a withdrawal found in that window. It restricts no step.     *)
EXTENDS PlatformDelivery

VARIABLE overtaken  \* workers whose positive check a withdrawal overtook

recordedVars == <<vars, overtaken>>

--------------------------------------------------------------------------------
Checked(w) == worker[w].pc = "send"

(* The approver of w's job loses the authority in this step.                   *)
LosesAuthority(w) == row[worker[w].job].approver \in authorized \ authorized'

Leaves(w) == worker[w].pc # "waiting" /\ worker'[w].pc = "waiting"

(* A worker stays recorded for the one request it was checked for.             *)
Recorded ==
  overtaken' = {w \in Workers : /\ Checked(w)
                                /\ worker'[w].pc = "send"
                                /\ w \in overtaken \/ LosesAuthority(w)}

RecordedInit == Init /\ overtaken = {}

RecordedNext == Next /\ Recorded

RecordedSpec == RecordedInit /\ [][RecordedNext]_recordedVars

FairRecordedSpec == RecordedSpec /\ Fairness

--------------------------------------------------------------------------------
(* Properties.                                                                 *)

(* A withdrawal of authority takes hold: a PUT leaves for an approver who may  *)
(* not publish only from a worker that was checked before the withdrawal and   *)
(* had only to send, and then no second one: neither the load of another job,  *)
(* nor the repeated PUT after a token renewal, nor the attempt of a restarted  *)
(* process gets out (authorize_publish before every PUT, after every wait for  *)
(* a token).                                                                   *)
WithdrawalTakesHold ==
  [][\A w \in Workers :
       Leaves(w) /\ ~PublishAuthorized(worker[w].job) => w \in overtaken]_recordedVars

--------------------------------------------------------------------------------
(* What makes it inductive: whoever is about to send without authority was     *)
(* overtaken.                                                                  *)
CheckedOrOvertaken ==
  \A w \in Workers : Checked(w) /\ ~PublishAuthorized(worker[w].job) => w \in overtaken

================================================================================
