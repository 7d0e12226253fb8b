--------------------------- MODULE IntegrationAdmin ---------------------------
(***************************************************************************)
(* Administration of integration clients and webhook subscriptions.  Every *)
(* call is one READ COMMITTED transaction that first SELECTs, without a    *)
(* row lock, the row its check is about and then writes: two calls can     *)
(* interleave between the check and the write.                             *)
(***************************************************************************)
EXTENDS FiniteSets

CONSTANTS
  Clients,   \* rows of integration_clients
  Subs,      \* rows of webhook_subscriptions
  ClientOf,  \* integration_client_id of each subscription
  Calls      \* administrative requests that may be in flight together

ASSUME AdminAssumption == ClientOf \in [Subs -> Clients]

VARIABLES
  clients,  \* status of each client
  expired,  \* the clients whose expires_at has passed
  subs,     \* status of each subscription
  calls     \* what each request has read and is about to write

adminVars == <<clients, expired, subs, calls>>

ClientStatus == {"absent", "active", "revoked"}
SubStatus == {"absent", "active", "paused", "revoked"}

Idle == [op |-> "none"]
Pending ==
  {Idle} \cup [op: {"revokeClient"}, client: Clients]
         \cup [op: {"createWebhook"}, sub: Subs]
         \cup [op: {"updateWebhook"}, sub: Subs, status: SubStatus \ {"absent"}]

AdminTypeOK ==
  /\ clients \in [Clients -> ClientStatus]
  /\ expired \subseteq Clients
  /\ subs \in [Subs -> SubStatus]
  /\ calls \in [Calls -> Pending]

AdminInit ==
  /\ clients = [c \in Clients |-> "absent"]
  /\ expired = {}
  /\ subs = [s \in Subs |-> "absent"]
  /\ calls = [k \in Calls |-> Idle]

-----------------------------------------------------------------------------
(* The check of each call; a failed check ends the call with an error. *)

CreateClient(c) ==
  /\ clients[c] = "absent"
  /\ clients' = [clients EXCEPT ![c] = "active"]
  /\ UNCHANGED <<expired, subs, calls>>

\* now() passes the client's expires_at, of which only time is the cause.
Expire(c) ==
  /\ clients[c] # "absent" /\ c \notin expired
  /\ expired' = expired \cup {c}
  /\ UNCHANGED <<clients, subs, calls>>

Check(k, ready, pending) ==
  /\ calls[k] = Idle
  /\ ready
  /\ calls' = [calls EXCEPT ![k] = pending]
  /\ UNCHANGED <<clients, expired, subs>>

CheckRevokeClient(k, c) ==
  Check(k, clients[c] = "active", [op |-> "revokeClient", client |-> c])

\* Each call makes the id of the subscription it will insert.
CheckCreateWebhook(k, s) ==
  Check(k, /\ clients[ClientOf[s]] = "active" /\ subs[s] = "absent"
           /\ [op |-> "createWebhook", sub |-> s] \notin {calls[j] : j \in Calls},
        [op |-> "createWebhook", sub |-> s])

\* Fault: the row is not looked at, and its status is the default.
CheckUpdateAnyWebhook(k, s) ==
  \E status \in SubStatus :
    Check(k, TRUE, [op |-> "updateWebhook", sub |-> s, status |-> status])

\* The new status is the requested one, or the one just read.
CheckUpdateWebhook(k, s) ==
  \E status \in SubStatus \ {"absent"} :
    Check(k, subs[s] \in {"active", "paused"},
          [op |-> "updateWebhook", sub |-> s, status |-> status])

-----------------------------------------------------------------------------
(* The write of each call: the WHERE clause names the id alone. *)

RevokeClient(k) ==
  /\ calls[k].op = "revokeClient"
  /\ clients' = [clients EXCEPT ![calls[k].client] = "revoked"]
  /\ subs' = [s \in Subs |->
       IF ClientOf[s] = calls[k].client /\ subs[s] # "absent"
       THEN "revoked" ELSE subs[s]]
  /\ calls' = [calls EXCEPT ![k] = Idle]
  /\ UNCHANGED expired

CreateWebhook(k) ==
  /\ calls[k].op = "createWebhook"
  /\ subs' = [subs EXCEPT ![calls[k].sub] = "active"]
  /\ calls' = [calls EXCEPT ![k] = Idle]
  /\ UNCHANGED <<clients, expired>>

UpdateWebhook(k) ==
  /\ calls[k].op = "updateWebhook"
  /\ subs' = [subs EXCEPT ![calls[k].sub] = calls[k].status]
  /\ calls' = [calls EXCEPT ![k] = Idle]
  /\ UNCHANGED <<clients, expired>>

AdminNext ==
  \/ \E c \in Clients : CreateClient(c) \/ Expire(c)
  \/ \E k \in Calls :
       \/ \E c \in Clients : CheckRevokeClient(k, c)
       \/ \E s \in Subs : CheckCreateWebhook(k, s) \/ CheckUpdateWebhook(k, s)
       \/ RevokeClient(k) \/ CreateWebhook(k) \/ UpdateWebhook(k)

AdminSpec == AdminInit /\ [][AdminNext]_adminVars

-----------------------------------------------------------------------------
(* Fan-out selects by both rows, so a subscription that outlives its       *)
(* client receives nothing.                                                *)

Subscribed(s) ==
  /\ subs[s] = "active"
  /\ clients[ClientOf[s]] = "active" /\ ClientOf[s] \notin expired

\* "Revogar um client tambem revoga suas subscriptions ativas": a revoked
\* client has no active subscription.
RevokedClientHasNoActiveSub ==
  \A s \in Subs : clients[ClientOf[s]] = "revoked" => subs[s] # "active"
=============================================================================
