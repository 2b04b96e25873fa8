---------------------------- MODULE ListingContract ----------------------------
(* What the delivery pipeline promises, without leases, workers, retries or    *)
(* requests: published versions of a product are opened in order, each reaches *)
(* the platform at most once, each is settled once, and a version reaches the  *)
(* platform or is settled only after every older version of its product is.    *)
(* PlatformDelivery implements it (see Contract there).                        *)
EXTENDS Integers, Sequences, Functions

CONSTANTS Products,     \* the products of one store
          MaxVersion    \* bound on the published versions of a product

(* One PublishRecord, and so one PlatformDelivery, per published version.      *)
Deliveries == [product : Products, version : 1..MaxVersion]

Older(d) == {e \in Deliveries : e.product = d.product /\ e.version < d.version}

VARIABLES outcome,      \* how far each delivery has come
          effects       \* the listing updates the platform carried out, in order

vars == <<outcome, effects>>

Outcomes == {"absent", "open", "succeeded", "failed"}

Settled(d) == outcome[d] \in {"succeeded", "failed"}

OlderSettled(d) == \A e \in Older(d) : Settled(e)

TypeOK == /\ outcome \in [Deliveries -> Outcomes]
          /\ effects \in Seq(Deliveries)

Init == /\ outcome = [d \in Deliveries |-> "absent"]
        /\ effects = <<>>

Open(d) == /\ outcome[d] = "absent"
           /\ \A e \in Older(d) : outcome[e] # "absent"
           /\ outcome' = [outcome EXCEPT ![d] = "open"]
           /\ UNCHANGED effects

(* The platform updates the listing. It may do so after the delivery was given *)
(* up: a request that timed out can still be carried out.                      *)
TakeEffect(d) == /\ outcome[d] # "absent"
                 /\ OlderSettled(d)
                 /\ d \notin Range(effects)
                 /\ effects' = Append(effects, d)
                 /\ UNCHANGED outcome

Succeed(d) == /\ outcome[d] = "open"
              /\ OlderSettled(d)
              /\ d \in Range(effects)
              /\ outcome' = [outcome EXCEPT ![d] = "succeeded"]
              /\ UNCHANGED effects

(* One transaction may give up several deliveries.                             *)
GiveUp(S) == /\ \A d \in S : outcome[d] = "open" /\ OlderSettled(d)
             /\ outcome' = [d \in Deliveries |-> IF d \in S THEN "failed" ELSE outcome[d]]
             /\ UNCHANGED effects

Next == \/ \E d \in Deliveries : Open(d) \/ TakeEffect(d) \/ Succeed(d)
        \/ \E S \in SUBSET Deliveries : GiveUp(S)

Spec == Init /\ [][Next]_vars

(* A version confirmed as published took effect on the platform before every   *)
(* newer version of the same product did, so a newer listing is never          *)
(* overwritten by an older one that succeeded.                                 *)
SucceededInOrder ==
  \A i, j \in 1..Len(effects) :
    /\ effects[j] \in Older(effects[i])
    /\ outcome[effects[j]] = "succeeded"
    => j < i
================================================================================
