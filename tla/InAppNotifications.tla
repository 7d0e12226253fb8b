------------------------- MODULE InAppNotifications -------------------------
(***************************************************************************)
(* Notifications inside the application: the triggers on requests,         *)
(* contracts, trips and document reviews that emit an event under a key,   *)
(* the deliveries to the users who hold a target role then, and the inbox  *)
(* (migrations 0041 to 0043, in-app-notifications.service.ts).  An event   *)
(* is emitted within the transaction of the row it tells of, which commits *)
(* or not; emitInAppNotification may emit a key again.                     *)
(***************************************************************************)
EXTENDS FiniteSets

CONSTANTS EventKeys,  \* one for each producer the instance has
          Users, EmitCalls, NoEmission

VARIABLES roleOf,    \* [Users -> Roles], "none" for one who is not active
          notified,  \* [EventKeys -> BOOLEAN]: in_app_notification_events
          inbox,     \* [EventKeys -> SUBSET Users]: ..._deliveries
          seen,      \* [EventKeys -> SUBSET Users]: read_at is set
          emission   \* [EmitCalls -> NoEmission or rows to commit]

noticeVars == <<roleOf, notified, inbox, seen, emission>>

Roles == {"operations", "finance_manager", "none"}

(* operations stands for tenant_admin, operations_manager and dispatcher,  *)
(* whom every producer tells.                                              *)
TargetRoles == [key \in {"request", "trip", "document"} |-> {"operations"}]

Addressed(key) ==
    IF key = "contract" THEN {"operations", "finance_manager"} ELSE TargetRoles[key]

NoticeInit ==
    /\ roleOf \in [Users -> Roles]
    /\ notified = [key \in EventKeys |-> FALSE]
    /\ inbox = [key \in EventKeys |-> {}]
    /\ seen = [key \in EventKeys |-> {}]
    /\ emission = [k \in EmitCalls |-> NoEmission]

-----------------------------------------------------------------------------
(* ON CONFLICT waits for the transaction that has inserted the key.        *)
KeyFree(key) ==
    \A k \in EmitCalls : emission[k] # NoEmission => emission[k].key # key

Recipients(key) == {u \in Users : roleOf[u] \in Addressed(key)}

(* A slip: deliveries are inserted although the event existed.             *)
DeliveriesAlways(key) == Recipients(key)

(* The deliveries to insert: none for an event that exists.                *)
Deliveries(key) == IF notified[key] THEN {} ELSE Recipients(key)

(* nexora_emit_in_app_notification, after the row that it tells of.        *)
Emit(k, key) ==
    /\ emission[k] = NoEmission
    /\ KeyFree(key)
    /\ emission' = [emission EXCEPT ![k] = [key |-> key, to |-> Deliveries(key)]]
    /\ UNCHANGED <<roleOf, notified, inbox, seen>>

CommitEmission(k) ==
    /\ emission[k] # NoEmission
    /\ LET key == emission[k].key
       IN  /\ notified' = [notified EXCEPT ![key] = TRUE]
           /\ inbox' = [inbox EXCEPT ![key] = @ \cup emission[k].to]
    /\ emission' = [emission EXCEPT ![k] = NoEmission]
    /\ UNCHANGED <<roleOf, seen>>

RollBackEmission(k) ==
    /\ emission[k] # NoEmission
    /\ emission' = [emission EXCEPT ![k] = NoEmission]
    /\ UNCHANGED <<roleOf, notified, inbox, seen>>

(* A slip: the delivery is asked for by its event, whoever it is for.      *)
MarkReadOfAnyone(u, key) ==
    /\ inbox[key] # {}
    /\ seen' = [seen EXCEPT ![key] = @ \cup {u}]
    /\ UNCHANGED <<roleOf, notified, inbox, emission>>

(* read_at = coalesce(read_at, now()), of the caller's own delivery.       *)
MarkRead(u, key) ==
    /\ u \in inbox[key]
    /\ seen' = [seen EXCEPT ![key] = @ \cup {u}]
    /\ UNCHANGED <<roleOf, notified, inbox, emission>>

(* The administration of memberships and roles.                            *)
ChangeRole(u, role) ==
    /\ roleOf' = [roleOf EXCEPT ![u] = role]
    /\ UNCHANGED <<notified, inbox, seen, emission>>

NoticeNext ==
    \/ \E k \in EmitCalls :
          (\E key \in EventKeys : Emit(k, key)) \/ CommitEmission(k) \/ RollBackEmission(k)
    \/ \E u \in Users :
          (\E key \in EventKeys : MarkRead(u, key)) \/ (\E role \in Roles : ChangeRole(u, role))

NoticeSpec == NoticeInit /\ [][NoticeNext]_noticeVars

-----------------------------------------------------------------------------
NoticeTypeOK ==
    /\ roleOf \in [Users -> Roles]
    /\ notified \in [EventKeys -> BOOLEAN]
    /\ inbox \in [EventKeys -> SUBSET Users]
    /\ seen \in [EventKeys -> SUBSET Users]
    /\ \A key \in EventKeys : seen[key] \subseteq inbox[key]
    /\ emission \in [EmitCalls ->
           {NoEmission} \cup [key : EventKeys, to : SUBSET Users]]

(* The recipients of an event are the ones of its first emission that      *)
(* committed, whatever roles change and however often its key is emitted   *)
(* again: nobody receives an old event, or loses one, and what was read    *)
(* stays read.                                                             *)
RecipientsAreFixed ==
    [][\A key \in EventKeys :
          /\ notified[key] => notified'[key] /\ inbox'[key] = inbox[key]
          /\ seen[key] \subseteq seen'[key]]_noticeVars
=============================================================================
