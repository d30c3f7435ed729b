------------------------------ MODULE Webhooks ------------------------------
(***************************************************************************)
(* The webhooks of one instance, kept twice: as rows of the webhooks table *)
(* (app/http/controllers/webhook_controller.go) and as targets of the      *)
(* dispatcher, which are what events are sent to.  Boot rebuilds the       *)
(* targets from the rows (app/providers/whatsapp_service_provider.go),     *)
(* unless the query or the making of the manager fails, which it ignores.  *)
(*                                                                         *)
(* A request takes its two or three steps in a goroutine of its own.  A    *)
(* row and its target are told apart by the id of the row; the dispatcher  *)
(* itself knows a target by its URL only.  Event lists, secrets and the    *)
(* validation of the input are left out.                                   *)
(***************************************************************************)
EXTENDS Naturals

CONSTANTS
    Procs,      \* goroutines serving requests
    Urls,       \* URLs in use
    Ids,        \* UUIDs of the webhooks created: bounds their number
    MaxCrashes  \* bound on restarts

NoUrl == "none"
NoId == "none"

ASSUME UrlsAssumption == NoUrl \notin Urls
ASSUME IdsAssumption == NoId \notin Ids
ASSUME BoundsAssumption == MaxCrashes \in Nat

VARIABLES
    rows,     \* the webhooks table: ids
    url,      \* the URL of every webhook, NoUrl if it is not created yet
    targets,  \* the dispatcher's targets, by the id of their row
    req,      \* per goroutine: next step and webhook
    told,     \* webhooks whose creation was answered with 201
    doomed,   \* webhooks that a Delete has begun on
    unloaded, \* rows that the last boot left without a target
    crashes   \* number of restarts so far

vars == <<rows, url, targets, req, told, doomed, unloaded, crashes>>

Idle == [pc |-> "idle", id |-> NoId]

Init ==
    /\ rows = {} /\ targets = {} /\ told = {} /\ doomed = {} /\ unloaded = {} /\ crashes = 0
    /\ url = [i \in Ids |-> NoUrl]
    /\ req = [p \in Procs |-> Idle]

\* Create: the row is inserted ...
Create(p, id, u) ==
    /\ req[p] = Idle
    /\ url[id] = NoUrl
    /\ rows' = rows \cup {id}
    /\ url' = [url EXCEPT ![id] = u]
    /\ req' = [req EXCEPT ![p] = [pc |-> "register", id |-> id]]
    /\ UNCHANGED <<targets, told, doomed, unloaded, crashes>>

\* ... then the target is registered.
CreateRegister(p) ==
    /\ req[p].pc = "register"
    /\ targets' = targets \cup {req[p].id}
    /\ told' = told \cup {req[p].id}
    /\ req' = [req EXCEPT ![p] = Idle]
    /\ UNCHANGED <<rows, url, doomed, unloaded, crashes>>

\* Delete: the row is looked up ...
Delete(p, id) ==
    /\ req[p] = Idle
    /\ id \in rows
    /\ req' = [req EXCEPT ![p] = [pc |-> "unregister", id |-> id]]
    /\ doomed' = doomed \cup {id}
    /\ UNCHANGED <<rows, url, targets, told, unloaded, crashes>>

\* ... its URL is unregistered: every target with that URL goes ...
DeleteUnregister(p) ==
    /\ req[p].pc = "unregister"
    /\ targets' = {i \in targets : url[i] # url[req[p].id]}
    /\ req' = [req EXCEPT ![p].pc = "rmrow"]
    /\ UNCHANGED <<rows, url, told, doomed, unloaded, crashes>>

\* ... and the row is deleted.
DeleteRow(p) ==
    /\ req[p].pc = "rmrow"
    /\ rows' = rows \ {req[p].id}
    /\ req' = [req EXCEPT ![p] = Idle]
    /\ UNCHANGED <<url, targets, told, doomed, unloaded, crashes>>

\* Mutant of Boot: the targets are not rebuilt.
BootEmpty ==
    /\ crashes < MaxCrashes
    /\ crashes' = crashes + 1
    /\ targets' = {} /\ unloaded' = {}
    /\ req' = [p \in Procs |-> Idle]
    /\ UNCHANGED <<rows, url, told, doomed>>

\* The process dies and starts again; all rows are active.  When Boot fails to
\* read them, or fails before it does, it says nothing and the process serves
\* requests all the same.
Boot ==
    /\ crashes < MaxCrashes
    /\ crashes' = crashes + 1
    /\ \/ targets' = rows /\ unloaded' = {}
       \/ targets' = {} /\ unloaded' = rows
    /\ req' = [p \in Procs |-> Idle]
    /\ UNCHANGED <<rows, url, told, doomed>>

Next ==
    \/ \E p \in Procs : \/ CreateRegister(p) \/ DeleteUnregister(p) \/ DeleteRow(p)
                        \/ \E id \in Ids, u \in Urls : Create(p, id, u)
                        \/ \E id \in Ids : Delete(p, id)
    \/ Boot

Spec == Init /\ [][Next]_vars

-----------------------------------------------------------------------------
\* Every variable has its type.
TypeOK ==
    /\ rows \subseteq Ids /\ targets \subseteq Ids /\ told \subseteq Ids /\ doomed \subseteq Ids
    /\ unloaded \subseteq Ids
    /\ url \in [Ids -> Urls \cup {NoUrl}]
    /\ req \in [Procs -> [pc : {"idle", "register", "unregister", "rmrow"},
                          id : Ids \cup {NoId}]]
    /\ crashes \in 0 .. MaxCrashes

\* A webhook whose creation was answered and that nobody began to delete keeps
\* its row and gets its events, whatever is created and deleted at the same time
\* and wherever the process dies.  Two things alone may leave it without a target:
\* the deletion of a webhook of the instance that has the same URL, and a boot that
\* failed to load the rows, this one among them, until the next boot.
CreatedIsRegistered ==
    \A i \in told \ doomed :
        /\ i \in rows
        /\ i \in targets \cup unloaded \/ \E j \in doomed : url[j] = url[i]
=============================================================================
