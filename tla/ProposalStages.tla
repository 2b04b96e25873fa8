----------------------------- MODULE ProposalStages ----------------------------
(* What operators, approvers and the product catalogue may rely on: the stages *)
(* of a proposal and the one thing that ties proposals of a product together,  *)
(* the product version. A proposal is drafted against one version and is only  *)
(* ever moved forward, by review, submission or publication, while that        *)
(* version is the current one. ProposalLifecycle implements it (Stages there). *)
EXTENDS Integers

CONSTANTS Proposals    \* proposals for one product

VARIABLES stage,       \* where each proposal stands
          version,     \* Product.current_version
          publishedAs  \* the version a proposal was published as, 0 before

vars == <<stage, version, publishedAs>>

Stages == {"absent", "optimizing", "draft", "changes", "reviewing", "submitted",
           "rejected", "published", "failed"}

TypeOK == /\ stage \in [Proposals -> Stages]
          /\ version \in Nat
          /\ publishedAs \in [Proposals -> Nat]

Init == /\ stage = [p \in Proposals |-> "absent"]
        /\ version = 1
        /\ publishedAs = [p \in Proposals |-> 0]

Step(p, from, to) == /\ stage[p] \in from
                     /\ stage' = [stage EXCEPT ![p] = to]

(* Every stage change but publication leaves the catalogue alone.              *)
Quietly == UNCHANGED <<version, publishedAs>>

Select(p) == Step(p, {"absent"}, "optimizing") /\ Quietly

Optimized(p) == /\ \E to \in {"draft", "changes"} : Step(p, {"optimizing"}, to)
                /\ Quietly

Edit(p) == Step(p, {"draft", "changes"}, "reviewing") /\ Quietly

Reviewed(p) == /\ \E to \in {"draft", "changes"} : Step(p, {"reviewing"}, to)
               /\ Quietly

(* A transaction that gives up exhausted runs may give up several.             *)
GiveUp(S) == /\ \A p \in S : stage[p] \in {"optimizing", "reviewing"}
             /\ stage' = [p \in Proposals |-> IF p \in S THEN "failed" ELSE stage[p]]
             /\ Quietly

Submit(p) == Step(p, {"draft"}, "submitted") /\ Quietly

Return(p) == /\ \E to \in {"rejected", "changes"} : Step(p, {"submitted"}, to)
             /\ Quietly

Publish(p) == /\ Step(p, {"submitted"}, "published")
              /\ version' = version + 1
              /\ publishedAs' = [publishedAs EXCEPT ![p] = version + 1]

Next == \/ \E p \in Proposals : \/ Select(p) \/ Optimized(p) \/ Edit(p) \/ Reviewed(p)
                                \/ Submit(p) \/ Return(p) \/ Publish(p)
        \/ \E S \in SUBSET Proposals : GiveUp(S)

Spec == Init /\ [][Next]_vars
================================================================================
