------------------------------ MODULE Administration ------------------------------
(* Changes of users, of their stores and of stores by administrators           *)
(* (admin_management.py). Every change first locks, in the order of their ids, *)
(* the actor, the target and all active administrators: the statement finds    *)
(* them as they are committed when it starts, waits for each, and then has     *)
(* each row as it is. Other transactions lock users too but do not change      *)
(* them. What administrators grant besides, stores and their use, is the       *)
(* authority that the other modules see come and go.                           *)
EXTENDS Naturals

CONSTANTS LastUser,    \* the users, by id
          Changes      \* requests in progress

ASSUME AdministrationAssumption == LastUser \in Nat \ {0}

People == 1..LastUser

VARIABLES administrators,  \* users with the role admin and the status active
          change           \* the transaction of each request

administrationVars == <<administrators, change>>

NoChange == [pc |-> "idle", actor |-> 0, target |-> 0, seen |-> {}, held |-> {}]

Wanted(t) == {change[t].actor, change[t].target} \cup change[t].seen

(* lock_admin_user_set: the rows the statement finds                           *)
Begin(t, actor, target) ==
  /\ change[t].pc = "idle"
  /\ actor \in administrators
  /\ change' = [change EXCEPT ![t] = [pc |-> "locking", actor |-> actor, target |-> target,
                                      seen |-> administrators, held |-> {}]]
  /\ UNCHANGED administrators

(* The next row in the order of the ids, once nobody else has it               *)
LockUser(t, u) ==
  /\ change[t].pc = "locking"
  /\ u \in Wanted(t) \ change[t].held
  /\ \A v \in Wanted(t) \ change[t].held : u <= v
  /\ \A o \in Changes : u \notin change[o].held
  /\ change' = [change EXCEPT ![t].held = @ \cup {u}]
  /\ UNCHANGED administrators

(* Mutant: the rows are those the session found before it waited.              *)
RowsAsFound(t) == change[t].seen

(* The active administrators among the locked rows (populate_existing)         *)
LockedAdministrators(t) == change[t].held \cap administrators

Locked(t) == change[t].pc = "locking" /\ change[t].held = Wanted(t)

Allowed(t) == Locked(t) /\ change[t].actor \in LockedAdministrators(t)

Done(t) == change' = [change EXCEPT ![t] = NoChange]

(* update_admin_user: nobody demotes or disables themselves, and somebody of   *)
(* the locked administrators has to remain.                                    *)
UpdateUser(t, administers) ==
  LET c == change[t]
      left == IF administers THEN LockedAdministrators(t)
                             ELSE LockedAdministrators(t) \ {c.target}
  IN /\ Allowed(t)
     /\ c.target = c.actor => administers
     /\ left # {}
     /\ administrators' = IF administers THEN administrators \cup {c.target}
                                         ELSE administrators \ {c.target}
     /\ Done(t)

(* replace_user_store_scopes and update_admin_store (target = actor), which    *)
(* lock stores besides: whoever does that holds all administrators             *)
ChangeStores(t) ==
  /\ Allowed(t)
  /\ Done(t)
  /\ UNCHANGED administrators

(* ADMIN_GUARD_VIOLATION and the other refusals, an error of the database, or  *)
(* a request that is given up: the locks are released.                         *)
RollBack(t) ==
  /\ change[t].pc = "locking"
  /\ Done(t)
  /\ UNCHANGED administrators

AdministrationInit ==
  /\ administrators \in (SUBSET People) \ {{}}
  /\ change = [t \in Changes |-> NoChange]

AdministrationNext ==
  \E t \in Changes :
    \/ \E actor, target \in People : Begin(t, actor, target)
    \/ \E u \in People : LockUser(t, u)
    \/ \E administers \in BOOLEAN : UpdateUser(t, administers)
    \/ ChangeStores(t) \/ RollBack(t)

AdministrationSpec == AdministrationInit /\ [][AdministrationNext]_administrationVars

--------------------------------------------------------------------------------
(* Properties.                                                                 *)

(* However administrators demote and disable each other at once, one of them   *)
(* remains (admin_management.py:18, 71).                                       *)
AdministratorRemains == administrators # {}

================================================================================
