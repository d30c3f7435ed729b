---------------------------- MODULE InstancePool ----------------------------
(***************************************************************************)
(* One WhatsApp instance: its entry in the Manager's client pool           *)
(* (app/whatsapp/manager.go, retry.go), the requests of                    *)
(* app/services/instance_service.go, and the two persistent stores they    *)
(* keep in step by hand: the instance row and whatsmeow's device store.    *)
(* Instances share nothing but Manager.mu, so one of them is modelled.     *)
(*                                                                         *)
(* A request runs in a goroutine of its own.  Its steps are the accesses   *)
(* to shared state: each critical section of Manager.mu, each network      *)
(* operation of a client and each statement on the instance row.  The      *)
(* goroutine that Connect leaves behind for QR pairing (listenQR) keeps    *)
(* the process of its request.                                             *)
(*                                                                         *)
(* m.mu is held across steps where clients, which do not take it, may act  *)
(* in between: in create and in Kill.  All other critical sections are     *)
(* single steps that wait for it.                                          *)
(*                                                                         *)
(* The events that a client raises in a goroutine of their own reach the   *)
(* QR channels in the step that raises them.  The code and raw code that   *)
(* listenQR saves are left out, and the proxy address is data.             *)
(***************************************************************************)
EXTENDS ClientLifecycle, FiniteSets

CONSTANTS
    Procs,       \* goroutines serving requests
    Clients,     \* names for client objects that exist at the same time (Nat)
    Requests,    \* requests that are made: a subset of AllRequests
    Faults,      \* faults that occur: a subset of AllFaults
    MaxFaults,   \* bound on the faults of a behaviour
    MaxRetries,  \* maxRetries of SendWithRetry (5 in the code)
    Alone        \* requests that start only when no other one is being served

AllRequests == {"connect", "pair", "disconnect", "logout", "delete", "call", "send"}
AllFaults == {"blip", "unlink", "crash", "pairError", "outdated", "sendError"}

ASSUME ClientsAssumption == Clients \subseteq Nat \ {0} /\ IsFiniteSet(Clients)
ASSUME ProcsAssumption == 0 \notin Procs
ASSUME EnvAssumption == /\ Requests \subseteq AllRequests
                        /\ Faults \subseteq AllFaults
                        /\ Alone \subseteq Requests
ASSUME MaxFaultsAssumption == MaxFaults \in Nat
ASSUME MaxRetriesAssumption == MaxRetries \in Nat \ {0}

VARIABLES
    row,      \* the instance row: there, status, jid
    store,    \* device store: JIDs of the saved devices
    linked,   \* server: devices linked to the account
    paired,   \* number of pairings so far
    pool,     \* Manager.clients[id], None if there is no entry
    jids,     \* Manager.jids[id]
    settings, \* whether Manager.settings[id] exists
    mu,       \* process that holds Manager.mu across steps, None otherwise
    cl,       \* client objects
    req,      \* request goroutines
    faults,   \* number of faults so far
    cutShort  \* history: devices whose logout was cut short by a crash, or whose
              \* pairing by a refused login

devices == <<store, linked, paired>>
manager == <<pool, jids, settings, mu>>
faultVars == <<faults, cutShort>>
vars == <<row, store, linked, paired, pool, jids, settings, mu, cl, req, faults, cutShort>>

None == 0

\* A goroutine's locals: the request, its next step, its client, the jid of the
\* row it read (inst.JID), the one GetOrCreate goes on with, the attempt of
\* SendWithRetry, and its QR channel: registered ("open"), emitting ("codes") or
\* closed by a final item, "other" standing for the err-... ones.
FinalItems == {"success", "timeout", "error", "other"}
Idle == [op |-> "none", pc |-> "idle", c |-> None, jid |-> NoJid, dev |-> NoJid,
         try |-> 0, qr |-> "none"]

\* Steps of the goroutine that Connect leaves behind.
Background == {"listen", "qrdial", "fail", "range", "qrmark"}

Steps == Background \cup
    {"idle", "find", "goc", "lookup", "create", "install", "settings", "check", "dial",
     "mark", "qr", "pairdial", "paircode", "pairmark", "return", "disc", "discclient",
     "discmark", "kill", "unstore", "remove", "rmrow", "use"}

Request == [op : AllRequests \cup {"none"}, pc : Steps, c : Clients \cup {None},
            jid : Jids \cup {NoJid}, dev : Jids \cup {NoJid}, try : 0 .. MaxRetries - 1,
            qr : {"none", "open", "codes"} \cup FinalItems]

\* The columns of the instance row that the requests read or write.
Row == [there : BOOLEAN, jid : Jids \cup {NoJid},
        status : {"disconnected", "connecting", "connected", "qr_code"}]

\* The row as InstanceService.Create inserts it.
NewRow == [there |-> TRUE, status |-> "disconnected", jid |-> NoJid]

Init ==
    /\ row = NewRow
    /\ store = {} /\ linked = {} /\ paired = 0
    /\ pool = None /\ jids = NoJid /\ settings = FALSE /\ mu = None
    /\ cl = [c \in Clients |-> NewClient(NoJid)]
    /\ req = [p \in Procs |-> Idle]
    /\ faults = 0 /\ cutShort = {}

\* A fault of kind f happens in this step.
CountFault(f) == f \in Faults /\ faults < MaxFaults /\ faults' = faults + 1
Fault(f) == CountFault(f) /\ UNCHANGED cutShort

\* Pool lookup followed by IsConnected.
PoolConnected == pool # None /\ IsConnected(cl[pool])

\* Client objects nothing refers to any more: their names may be used again.
Unused ==
    {c \in Clients : c # pool /\ cl[c].sock = "down" /\ cl[c].bg = {} /\ cl[c].stage = "none"
                     /\ \A p \in Procs : req[p].c # c}

\* UPDATE ... WHERE id: no effect once the row is deleted.
SetStatus(status) ==
    row' = IF row.there THEN [row EXCEPT !.status = status] ELSE row

\* The statement that records the device of a client, if it has one.
SetJid(jid) ==
    row' = IF row.there /\ jid # NoJid THEN [row EXCEPT !.jid = jid] ELSE row

\* A final item closes the QR channels that are open on the clients of a set.
QRClosed(cs, item) ==
    [p \in Procs |-> IF req[p].c \in cs /\ req[p].qr \in {"open", "codes"}
                     THEN [req[p] EXCEPT !.qr = item] ELSE req[p]]

Goto(p, pc) == req' = [req EXCEPT ![p].pc = pc]
Return(p) == req' = [req EXCEPT ![p] = Idle]

\* Where a request goes on after GetOrCreate.
AfterGet(op) == CASE op = "connect" -> "settings"
                  [] op = "pair"    -> "pairdial"
                  [] OTHER          -> "use"

-----------------------------------------------------------------------------
(* Requests: start, lookup of the row, GetOrCreate *)

\* What the handler of each route calls first.
FirstStep(op) == CASE op \in {"connect", "pair"} -> "find"
                   [] op = "disconnect" -> "disc"
                   [] op = "logout" -> "kill"
                   [] op = "delete" -> "remove"
                   [] OTHER -> "goc"

\* No request is being served; listeners may be at work.
Quiet == \A q \in Procs : req[q].pc \in Background \cup {"idle"}

\* A request passes authentication: InstanceAuth finds the row, AdminAuth, which
\* is all that Delete passes, does not look for it.
Start(p, op) ==
    /\ req[p] = Idle
    /\ row.there \/ op = "delete"
    /\ op \in Alone => Quiet
    /\ req' = [req EXCEPT ![p].op = op, ![p].pc = FirstStep(op)]
    /\ UNCHANGED <<row, devices, manager, cl, faultVars>>

\* FindByID in Connect and PairPhone.
FindByID(p) ==
    /\ req[p].pc = "find"
    /\ IF row.there
       THEN req' = [req EXCEPT ![p].pc = "goc", ![p].jid = row.jid]
       ELSE Return(p)
    /\ UNCHANGED <<row, devices, manager, cl, faultVars>>

\* GetOrCreate, first critical section: the JID to go on with.
GetOrCreate(p) ==
    /\ req[p].pc = "goc"
    /\ mu = None
    /\ jids' = IF req[p].jid # NoJid THEN req[p].jid ELSE jids
    /\ req' = [req EXCEPT ![p].pc = "lookup", ![p].dev = jids']
    /\ UNCHANGED <<row, devices, pool, settings, mu, cl, faultVars>>

\* Second one: the pool entry is returned if it is connected.
GetOrCreateLookup(p) ==
    /\ req[p].pc = "lookup"
    /\ mu = None
    /\ req' = IF PoolConnected
              THEN [req EXCEPT ![p].pc = AfterGet(req[p].op), ![p].c = pool]
              ELSE [req EXCEPT ![p].pc = "create"]
    /\ UNCHANGED <<row, devices, manager, cl, faultVars>>

\* create: take m.mu and look again.  (No Manager is made without a device
\* store, so m.store is never nil.)
createCheck(p) ==
    /\ req[p].pc = "create"
    /\ mu = None
    /\ IF PoolConnected
       THEN /\ req' = [req EXCEPT ![p].pc = AfterGet(req[p].op), ![p].c = pool]
            /\ UNCHANGED mu
       ELSE /\ Goto(p, "install")
            /\ mu' = p
    /\ UNCHANGED <<row, devices, pool, jids, settings, cl, faultVars>>

\* Mutant of createInstall: the saved device is never used.
createInstallFresh(p) ==
    /\ req[p].pc = "install"
    /\ \E c \in Unused : /\ \A d \in Unused : c <= d
                        /\ cl' = [cl EXCEPT ![c] = NewClient(NoJid)]
                        /\ pool' = c
                        /\ req' = [req EXCEPT ![p].pc = AfterGet(req[p].op), ![p].c = c]
    /\ mu' = None
    /\ UNCHANGED <<row, devices, jids, settings, faultVars>>

\* create: a new client over the saved device of that JID, or over a new
\* device if there is none; it takes the pool entry.  The client it takes the
\* place of is neither disconnected nor stripped of its event handler:
\* RemoveEventHandler is called on the new client.
createInstall(p) ==
    /\ req[p].pc = "install"
    /\ \E c \in Unused :
          /\ \A d \in Unused : c <= d
          /\ cl' = [cl EXCEPT ![c] = NewClient(IF req[p].dev \in store THEN req[p].dev ELSE NoJid)]
          /\ pool' = c
          /\ req' = [req EXCEPT ![p].pc = AfterGet(req[p].op), ![p].c = c]
    /\ mu' = None
    /\ UNCHANGED <<row, devices, jids, settings, faultVars>>

-----------------------------------------------------------------------------
(* InstanceService.Connect and listenQR *)

\* Mutant of ConnectSettings: SetSettings only after the client is connected.
ConnectSettingsSkipped(p) ==
    /\ req[p].pc = "settings"
    /\ mu = None
    /\ Goto(p, "check")
    /\ UNCHANGED <<row, devices, pool, jids, settings, mu, cl, faultVars>>

\* SetSettings, before anything is dialled.
ConnectSettings(p) ==
    /\ req[p].pc = "settings"
    /\ mu = None
    /\ settings' = TRUE
    /\ Goto(p, "check")
    /\ UNCHANGED <<row, devices, pool, jids, mu, cl, faultVars>>

\* The device of a connected client is recorded; otherwise the row's JID decides
\* between the saved session and a QR code.
ConnectCheck(p) ==
    LET k == cl[req[p].c]
    IN  /\ req[p].pc = "check"
        /\ \/ IsConnected(k) /\ SetJid(k.jid) /\ Goto(p, "mark")
           \/ ~IsConnected(k) /\ req[p].jid # NoJid /\ Goto(p, "dial") /\ UNCHANGED row
           \/ ~IsConnected(k) /\ req[p].jid = NoJid /\ Goto(p, "qr") /\ UNCHANGED row
        /\ UNCHANGED <<devices, manager, cl, faultVars>>

\* wc.Connect() of process p: refused, successful or failed.
Dial(p, refused, done) ==
    LET c == req[p].c
    IN  \/ ~MayDial(cl[c]) /\ Goto(p, refused) /\ UNCHANGED <<cl, faultVars>>
        \/ /\ MayDial(cl[c]) /\ UNCHANGED faultVars
           /\ Goto(p, done) /\ cl' = [cl EXCEPT ![c] = Dialled(@)]
        \/ /\ MayDial(cl[c]) /\ Fault("blip")
           /\ Goto(p, refused) /\ cl' = [cl EXCEPT ![c] = DialFailed(@)]

ConnectDial(p) ==
    /\ req[p].pc = "dial"
    /\ Dial(p, "qr", "mark")
    /\ UNCHANGED <<row, devices, manager>>

\* setStatus(connected), in Connect and in listenQR.
ConnectMark(p) ==
    /\ req[p].pc \in {"mark", "qrmark"}
    /\ SetStatus("connected")
    /\ Return(p)
    /\ UNCHANGED <<devices, manager, cl, faultVars>>

\* setStatus(qr_code); go listenQR.
ConnectQR(p) ==
    /\ req[p].pc = "qr"
    /\ SetStatus("qr_code")
    /\ Goto(p, "listen")
    /\ UNCHANGED <<devices, manager, cl, faultVars>>

\* listenQR: GetQRChannel refuses a connected or paired client.
listenQROpen(p) ==
    LET c == req[p].c
    IN  /\ req[p].pc = "listen"
        /\ \/ /\ IsConnected(cl[c]) \/ cl[c].jid # NoJid
              /\ Goto(p, "fail")
           \/ /\ ~IsConnected(cl[c]) /\ cl[c].jid = NoJid
              /\ req' = [req EXCEPT ![p].pc = "qrdial", ![p].qr = "open"]
        /\ UNCHANGED <<row, devices, manager, cl, faultVars>>

listenQRDial(p) ==
    /\ req[p].pc = "qrdial"
    /\ Dial(p, "fail", "range")
    /\ UNCHANGED <<row, devices, manager>>

\* listenQR ends with setStatus(disconnected).
listenQRFail(p) ==
    /\ req[p].pc = "fail"
    /\ SetStatus("disconnected")
    /\ Return(p)
    /\ UNCHANGED <<devices, manager, cl, faultVars>>

\* Mutant of listenQRItem: no case for "timeout".
listenQRItemNoTimeout(p) ==
    /\ req[p].pc = "range"
    /\ \/ req[p].qr = "success" /\ SetJid(cl[req[p].c].jid) /\ Goto(p, "qrmark")
       \/ req[p].qr \in {"timeout", "error", "other"} /\ UNCHANGED row /\ Return(p)
    /\ UNCHANGED <<devices, manager, cl, faultVars>>

\* The last item of the QR channel; an "err-..." item matches no case, and the
\* closed channel ends the loop.
listenQRItem(p) ==
    /\ req[p].pc = "range"
    /\ \/ req[p].qr = "success" /\ SetJid(cl[req[p].c].jid) /\ Goto(p, "qrmark")
       \/ req[p].qr \in {"timeout", "error"} /\ SetStatus("disconnected") /\ Return(p)
       \/ req[p].qr = "other" /\ UNCHANGED row /\ Return(p)
    /\ UNCHANGED <<devices, manager, cl, faultVars>>

-----------------------------------------------------------------------------
(* InstanceService.PairPhone *)

PairDial(p) ==
    /\ req[p].pc = "pairdial"
    /\ IF IsConnected(cl[req[p].c])
       THEN Goto(p, "paircode") /\ UNCHANGED <<cl, faultVars>>
       ELSE Dial(p, "return", "paircode")
    /\ UNCHANGED <<row, devices, manager>>

\* The pairing request is answered if the socket is still open.
PairCode(p) ==
    LET c == req[p].c
    IN  /\ req[p].pc = "paircode"
        /\ IF IsConnected(cl[c])
           THEN cl' = [cl EXCEPT ![c].phone = TRUE] /\ Goto(p, "pairmark")
           ELSE Return(p) /\ UNCHANGED cl
        /\ UNCHANGED <<row, devices, manager, faultVars>>

PairMark(p) ==
    /\ req[p].pc = "pairmark"
    /\ SetStatus("connecting")
    /\ Return(p)
    /\ UNCHANGED <<devices, manager, cl, faultVars>>

PairReturn(p) ==
    /\ req[p].pc = "return"
    /\ Return(p)
    /\ UNCHANGED <<row, devices, manager, cl, faultVars>>

-----------------------------------------------------------------------------
(* Disconnect, Logout, Delete *)

\* The next iteration of SendWithRetry, or its end.
RetryOrReturn(p) ==
    IF req[p].try + 1 < MaxRetries
    THEN req' = [req EXCEPT ![p].pc = "goc", ![p].c = None, ![p].try = @ + 1]
    ELSE Return(p)

\* Manager.Disconnect, of the request or of SendWithRetry: the client now in the
\* pool.  Without one the request fails; SendWithRetry ignores that.
Disconnect(p) ==
    /\ req[p].pc = "disc"
    /\ mu = None
    /\ IF pool # None
       THEN req' = [req EXCEPT ![p].pc = "discclient", ![p].c = pool]
       ELSE IF req[p].op = "send" THEN RetryOrReturn(p) ELSE Return(p)
    /\ UNCHANGED <<row, devices, manager, cl, faultVars>>

\* ... is disconnected after m.mu is given back.
DisconnectClient(p) ==
    /\ req[p].pc = "discclient"
    /\ cl' = [cl EXCEPT ![req[p].c] = Disconnected(@)]
    /\ IF req[p].op = "send" THEN RetryOrReturn(p) ELSE Goto(p, "discmark")
    /\ UNCHANGED <<row, devices, manager, faultVars>>

DisconnectMark(p) ==
    /\ req[p].pc = "discmark"
    /\ SetStatus("disconnected")
    /\ Return(p)
    /\ UNCHANGED <<devices, manager, cl, faultVars>>

\* Mutant of Kill: the early return does not unlock.
KillErrorKeepsLock(p) ==
    /\ req[p].pc = "kill"
    /\ mu = None
    /\ mu' = p
    /\ IF pool = None
       THEN Return(p) /\ UNCHANGED cl
       ELSE Goto(p, "unstore") /\ cl' = [cl EXCEPT ![pool] = Disconnected(@)]
    /\ UNCHANGED <<row, devices, pool, jids, settings, faultVars>>

\* Manager.Kill takes m.mu and disconnects ...
Kill(p) ==
    /\ req[p].pc = "kill"
    /\ mu = None
    /\ IF pool = None
       THEN Return(p) /\ UNCHANGED <<cl, mu>>
       ELSE Goto(p, "unstore") /\ cl' = [cl EXCEPT ![pool] = Disconnected(@)] /\ mu' = p
    /\ UNCHANGED <<row, devices, pool, jids, settings, faultVars>>

\* ... mutant: m.mu stays locked.
KillStoreKeepsLock(p) ==
    /\ req[p].pc = "unstore"
    /\ store' = store \ {cl[pool].jid}
    /\ cl' = IF cl[pool].jid = NoJid THEN cl ELSE [cl EXCEPT ![pool] = StoreDeleted(@)]
    /\ pool' = None
    /\ Goto(p, "rmrow")
    /\ UNCHANGED <<row, linked, paired, jids, settings, mu, faultVars>>

\* ... mutant: Logout keeps the row.
KillStoreKeepsRow(p) ==
    /\ req[p].pc = "unstore"
    /\ store' = store \ {cl[pool].jid}
    /\ cl' = IF cl[pool].jid = NoJid THEN cl ELSE [cl EXCEPT ![pool] = StoreDeleted(@)]
    /\ pool' = None /\ mu' = None
    /\ Return(p)
    /\ UNCHANGED <<row, linked, paired, jids, settings, faultVars>>

\* ... then deletes the device if there is one, and the pool entry.
KillStore(p) ==
    /\ req[p].pc = "unstore"
    /\ store' = store \ {cl[pool].jid}
    /\ cl' = IF cl[pool].jid = NoJid THEN cl ELSE [cl EXCEPT ![pool] = StoreDeleted(@)]
    /\ pool' = None /\ mu' = None
    /\ Goto(p, "rmrow")
    /\ UNCHANGED <<row, linked, paired, jids, settings, faultVars>>

\* Manager.Remove, under m.mu.
Remove(p) ==
    /\ req[p].pc = "remove"
    /\ mu = None
    /\ cl' = IF pool = None THEN cl ELSE [cl EXCEPT ![pool] = Disconnected(@)]
    /\ pool' = None
    /\ Goto(p, "rmrow")
    /\ UNCHANGED <<row, devices, jids, settings, mu, faultVars>>

\* DELETE ... WHERE id, the last statement of Logout and Delete.
DeleteRow(p) ==
    /\ req[p].pc = "rmrow"
    /\ row' = [row EXCEPT !.there = FALSE]
    /\ Return(p)
    /\ UNCHANGED <<devices, manager, cl, faultVars>>

-----------------------------------------------------------------------------
(* EnsureConnected and SendWithRetry *)

\* EnsureConnected, and the operation on messages, chats, groups and so on that
\* follows it if the client is connected: neither the pool nor the client's
\* connection changes.
EnsureConnected(p) ==
    /\ req[p].pc = "use" /\ req[p].op = "call"
    /\ Return(p)
    /\ UNCHANGED <<row, devices, manager, cl, faultVars>>

\* An attempt of SendWithRetry: not connected, answered (with success or with an
\* error that is not about the connection), or failed with one that is.
SendAttempt(p) ==
    LET c == req[p].c
    IN  /\ req[p].pc = "use" /\ req[p].op = "send"
        /\ \/ ~IsConnected(cl[c]) /\ RetryOrReturn(p) /\ UNCHANGED faultVars
           \/ IsConnected(cl[c]) /\ Return(p) /\ UNCHANGED faultVars
           \/ IsConnected(cl[c]) /\ Goto(p, "disc") /\ Fault("sendError")
        /\ UNCHANGED <<row, devices, manager, cl>>

-----------------------------------------------------------------------------
(* Clients and the server *)

\* The server accepts the login and ends other streams of the same device.  The
\* Connected event closes QR channels.
Login(c) ==
    /\ cl[c].sock = "up" /\ cl[c].jid # NoJid /\ cl[c].jid \in linked
    /\ cl' = [d \in Clients |->
                IF d = c THEN [cl[c] EXCEPT !.sock = "in"]
                ELSE IF cl[d].jid = cl[c].jid /\ cl[d].sock = "in" THEN Ended(cl[d])
                ELSE cl[d]]
    /\ req' = QRClosed({c}, "other")
    /\ UNCHANGED <<row, devices, manager, faultVars>>

\* The server refuses the login of a device that it does not have, or not yet:
\* the device is deleted, even if another client is still pairing it.
LoginRefused(c) ==
    LET j == cl[c].jid
    IN  /\ cl[c].sock = "up" /\ j # NoJid /\ j \notin linked
        /\ store' = store \ {j}
        /\ cl' = [cl EXCEPT ![c] = LoggedOut(@)]
        /\ req' = QRClosed({c}, "other")
        /\ cutShort' = IF \E d \in Clients : cl[d].pairing = j THEN cutShort \cup {j} ELSE cutShort
        /\ UNCHANGED <<row, linked, paired, manager, faults>>

\* The connection breaks.  Unless it was expected, the Disconnected event closes
\* the QR channels.
Lose(c) ==
    /\ cl' = [cl EXCEPT ![c] = Dropped(@)]
    /\ req' = IF cl[c].expected THEN req ELSE QRClosed({c}, "timeout")
    /\ UNCHANGED <<row, devices, manager>>
Drop(c) == IsConnected(cl[c]) /\ Fault("blip") /\ Lose(c)

\* The server ends a connection that nobody pairs.
Expire(c) == IsConnected(cl[c]) /\ cl[c].jid = NoJid /\ Lose(c) /\ UNCHANGED faultVars

\* autoReconnect: cancelled by an expected disconnect during its delay ...
AutoWait(c) ==
    /\ "wait" \in cl[c].bg
    /\ cl' = [cl EXCEPT ![c].bg = IF cl[c].expected THEN @ \ {"wait"}
                                  ELSE (@ \ {"wait"}) \cup {"dial"}]
    /\ UNCHANGED <<row, devices, manager, req, faultVars>>

\* ... then connect(): connected or already connected end the loop, an error
\* starts it over unless a disconnect is expected by then.
AutoDial(c) ==
    LET k == [cl[c] EXCEPT !.bg = @ \ {"dial"}]
        Again(l) == IF l.expected THEN l ELSE [l EXCEPT !.bg = @ \cup {"wait"}]
    IN  /\ "dial" \in cl[c].bg
        /\ \/ IsConnected(k) /\ cl' = [cl EXCEPT ![c] = k] /\ UNCHANGED faultVars
           \/ MayDial(k) /\ cl' = [cl EXCEPT ![c] = Dialled(k)] /\ UNCHANGED faultVars
           \/ MayDial(k) /\ cl' = [cl EXCEPT ![c] = Again(DialFailed(k))] /\ Fault("blip")
           \/ /\ ~IsConnected(k) /\ k.deleted
              /\ cl' = [cl EXCEPT ![c] = Again(k)] /\ UNCHANGED faultVars
        /\ UNCHANGED <<row, devices, manager, req>>

\* handlePairDevice: the codes arrive and the QR channels emit them.
QRCodes(c) ==
    /\ Pairable(cl[c])
    /\ \E p \in Procs : req[p].c = c /\ req[p].qr = "open"
    /\ req' = [p \in Procs |-> IF req[p].c = c /\ req[p].qr = "open"
                               THEN [req[p] EXCEPT !.qr = "codes"] ELSE req[p]]
    /\ UNCHANGED <<row, devices, manager, cl, faultVars>>

\* emitQRs runs out of codes: "timeout", and the client is disconnected.
QRTimeout(p) ==
    /\ req[p].qr = "codes"
    /\ req' = [req EXCEPT ![p].qr = "timeout"]
    /\ cl' = [cl EXCEPT ![req[p].c] = Disconnected(@)]
    /\ UNCHANGED <<row, devices, manager, faultVars>>

\* A user is shown a code for this client: by QR or after PairPhone.
CodeShown(c) == cl[c].phone \/ \E p \in Procs : req[p].c = c /\ req[p].qr = "codes"

\* A call in handlePair fails: for the reason given, or by a fault.
PairFails(reason) == (reason /\ UNCHANGED faultVars) \/ Fault("pairError")

\* The code is scanned or entered on the phone.  handlePair sets Store.ID, unless
\* it finds the server's message invalid.
PairStart(c) ==
    /\ Pairable(cl[c]) /\ CodeShown(c)
    /\ \/ /\ paired < MaxPairings /\ paired' = paired + 1
          /\ cl' = [cl EXCEPT ![c] = PairBegun(@, paired + 1)]
          /\ UNCHANGED faultVars
       \/ /\ Fault("pairError") /\ UNCHANGED paired
          /\ cl' = [cl EXCEPT ![c] = PairGivenUp(@)]
    /\ UNCHANGED <<row, store, linked, manager, req>>

\* Store.Save; it is refused if Logout has deleted the device.
PairSave(c) ==
    LET k == cl[c]
    IN  /\ k.stage = "save"
        /\ \/ /\ ~k.deleted /\ store' = store \cup {k.pairing}
              /\ cl' = [cl EXCEPT ![c] = PairSaved(k)]
              /\ UNCHANGED faultVars
           \/ /\ PairFails(k.deleted) /\ UNCHANGED store
              /\ cl' = [cl EXCEPT ![c] = PairGivenUp(k)]
        /\ UNCHANGED <<row, linked, paired, manager, req>>

\* PutIdentity and expectDisconnect; if the former fails the device is deleted.
PairIdentity(c) ==
    LET k == cl[c]
    IN  /\ k.stage = "ident"
        /\ \/ /\ ~k.deleted /\ UNCHANGED <<store, faultVars>>
              /\ cl' = [cl EXCEPT ![c] = PairExpects(k)]
           \/ /\ PairFails(k.deleted) /\ store' = store \ {k.jid}
              /\ cl' = [cl EXCEPT ![c] = PairUndone(k)]
        /\ UNCHANGED <<row, linked, paired, manager, req>>

\* The confirmation is sent.  The server links the device if it comes on the
\* connection that is being paired; if it cannot be sent the device is deleted.
PairSign(c) ==
    LET k == cl[c]
    IN  /\ k.stage = "sign"
        /\ \/ /\ IsConnected(k) /\ UNCHANGED <<store, faultVars>>
              /\ linked' = IF k.sock = "new" THEN linked \cup {k.pairing} ELSE linked
              /\ cl' = [cl EXCEPT ![c] = PairConfirmed(k)]
              /\ req' = QRClosed({c}, "success")
           \/ /\ PairFails(~IsConnected(k)) /\ store' = store \ {k.jid}
              /\ cl' = [cl EXCEPT ![c] = PairUndone(k)]
              /\ UNCHANGED <<linked, req>>
        /\ UNCHANGED <<row, paired, manager>>

\* handlePair has failed: Disconnect, then the PairError event.
PairFail(c) ==
    /\ cl[c].stage = "fail"
    /\ cl' = [cl EXCEPT ![c] = PairClosed(@)]
    /\ req' = QRClosed({c}, "error")
    /\ UNCHANGED <<row, devices, manager, faultVars>>

\* Connect failure 405: expectDisconnect and the ClientOutdated event.
Outdated(c) ==
    /\ cl[c].sock \in {"new", "up"}
    /\ Fault("outdated")
    /\ cl' = [cl EXCEPT ![c] = Ended(@)]
    /\ req' = QRClosed({c}, "other")
    /\ UNCHANGED <<row, devices, manager>>

\* Stream error 515 after pairing: Disconnect, then connect once.
PairCut(c) ==
    /\ "cut" \in cl[c].bg
    /\ cl' = [cl EXCEPT ![c] = Restarting(@)]
    /\ UNCHANGED <<row, devices, manager, req, faultVars>>

PairRedial(c) ==
    LET k == [cl[c] EXCEPT !.bg = @ \ {"redial"}]
    IN  /\ "redial" \in cl[c].bg
        /\ \/ MayDial(k) /\ cl' = [cl EXCEPT ![c] = Dialled(k)] /\ UNCHANGED faultVars
           \/ MayDial(k) /\ cl' = [cl EXCEPT ![c] = DialFailed(k)] /\ Fault("blip")
           \/ ~MayDial(k) /\ cl' = [cl EXCEPT ![c] = k] /\ UNCHANGED faultVars
        /\ UNCHANGED <<row, devices, manager, req>>

\* The user removes the device on the phone: the clients logged in are told.
Unlink(j) ==
    LET told == {c \in Clients : cl[c].jid = j /\ cl[c].sock = "in"}
    IN  /\ j \in linked
        /\ Fault("unlink")
        /\ linked' = linked \ {j}
        /\ cl' = [c \in Clients |-> IF c \in told THEN LoggedOut(cl[c]) ELSE cl[c]]
        /\ store' = IF told = {} THEN store ELSE store \ {j}
        /\ req' = QRClosed(told, "other")
        /\ UNCHANGED <<row, paired, manager>>

\* The process dies and is started again: Boot connects no instance.
Restart ==
    /\ CountFault("crash")
    /\ cutShort' = IF \E p \in Procs : req[p].pc = "rmrow" THEN cutShort \cup {row.jid} ELSE cutShort
    /\ pool' = None /\ jids' = NoJid /\ settings' = FALSE /\ mu' = None
    /\ cl' = [c \in Clients |-> NewClient(NoJid)]
    /\ req' = [p \in Procs |-> Idle]
    /\ UNCHANGED <<row, devices>>

-----------------------------------------------------------------------------
RequestStep(p) ==
    \/ FindByID(p) \/ GetOrCreate(p) \/ GetOrCreateLookup(p) \/ createCheck(p) \/ createInstall(p)
    \/ ConnectSettings(p) \/ ConnectCheck(p) \/ ConnectDial(p) \/ ConnectMark(p)
    \/ ConnectQR(p) \/ listenQROpen(p) \/ listenQRDial(p) \/ listenQRFail(p)
    \/ listenQRItem(p)
    \/ PairDial(p) \/ PairCode(p) \/ PairMark(p) \/ PairReturn(p)
    \/ Disconnect(p) \/ DisconnectClient(p) \/ DisconnectMark(p) \/ Kill(p) \/ KillStore(p) \/ Remove(p) \/ DeleteRow(p)
    \/ EnsureConnected(p) \/ SendAttempt(p)

\* What a client does by itself: autoReconnect, and the rest of a pairing.
ClientStep(c) == AutoWait(c) \/ AutoDial(c)
PairStep(c) ==
    \/ PairSave(c) \/ PairIdentity(c) \/ PairSign(c) \/ PairFail(c)
    \/ PairCut(c) \/ PairRedial(c)

\* What the server answers without a user.
ServerStep(c) == Login(c) \/ LoginRefused(c) \/ QRCodes(c)

\* What may happen and need not.
Chance(c) == Drop(c) \/ Expire(c) \/ PairStart(c) \/ Outdated(c)

Next ==
    \/ \E p \in Procs : RequestStep(p) \/ QRTimeout(p) \/ \E op \in Requests : Start(p, op)
    \/ \E c \in Clients : ClientStep(c) \/ PairStep(c) \/ ServerStep(c) \/ Chance(c)
    \/ \E j \in Jids : Unlink(j)
    \/ Restart

Spec == Init /\ [][Next]_vars

\* Goroutines run, timers fire, the server answers; a goroutine that waits for
\* m.mu gets it although others keep taking it (sync.RWMutex is starvation-free).
\* Users promise nothing.
LiveSpec ==
    /\ Spec
    /\ \A p \in Procs : SF_vars(RequestStep(p)) /\ WF_vars(QRTimeout(p))
    /\ \A c \in Clients :
          WF_vars(ClientStep(c)) /\ WF_vars(PairStep(c)) /\ WF_vars(ServerStep(c))

\* Moreover, somebody asks for a connection again and again, and the server does
\* not leave a connection open that nobody pairs; it does not always end it in the
\* middle of a request.
RetrySpec ==
    /\ LiveSpec
    /\ WF_vars(\E p \in Procs : Start(p, "connect"))
    /\ \A c \in Clients : SF_vars(Quiet /\ Expire(c))

-----------------------------------------------------------------------------
\* Every variable has its type, and m.mu is held exactly by a goroutine inside
\* create() after its check or inside Kill() before the device is deleted.
TypeOK ==
    /\ row \in Row
    /\ store \subseteq Jids /\ linked \subseteq Jids /\ paired \in 0 .. MaxPairings
    /\ pool \in Clients \cup {None} /\ jids \in Jids \cup {NoJid} /\ settings \in BOOLEAN
    /\ cl \in [Clients -> Client]
    /\ req \in [Procs -> Request]
    /\ mu \in Procs \cup {None}
    /\ \A p \in Procs : mu = p <=> req[p].pc \in {"install", "unstore"}
    /\ faults \in 0 .. MaxFaults /\ cutShort \subseteq Jids \cup {NoJid}

\* The device named by the instance row is in the device store, whatever Connect,
\* listenQR, PairPhone, handlePair, SendWithRetry, Logout and Delete do at the same
\* time and whatever breaks.  It is missing for four reasons only:
\*   - a Logout is on its way from Kill to the deletion of the row;
\*   - a crash stopped one there;
\*   - the server does not have the device: the user removed it on the phone, or
\*     Connect copied its JID while handlePair was at work on it, and the pairing
\*     was not confirmed, or not yet;
\*   - it was confirmed, but after another client had been refused with it.
RowPointsToDevice ==
    row.there /\ row.jid # NoJid =>
        \/ row.jid \in store \cup cutShort
        \/ row.jid \notin linked
        \/ \E p \in Procs : req[p].pc = "rmrow"

\* The client in the pool is logged in.
PoolOnline == pool # None /\ cl[pool].sock = "in"

\* create() needs a client object and the bound on them leaves none.
OutOfClients == Unused = {} /\ \E p \in Procs : req[p].pc = "install"

\* No request waits for ever: m.mu, which Kill holds over network and database
\* calls, is always given back.  Only a QR listener may wait, for the user.
RequestsReturn ==
    \A p \in Procs : req[p].pc # "idle" ~> req[p].pc \in {"idle", "range"} \/ OutOfClients

\* A row does not stay in "qr_code": the listener ends with the pairing, its
\* failure, the codes or the connection, and records that, next to other requests
\* and listeners.  This is for behaviours without crash, "outdated" and "send":
\* after a crash and after an item that listenQR has no case for ("err-...")
\* nobody changes the status until the next connect request, and a SendWithRetry
\* may disconnect the client before the codes come, which ends nothing.
QRSessionEnds ==
    row.status = "qr_code" ~> row.status # "qr_code" \/ ~row.there \/ OutOfClients

\* A client that Connect brings online works under the settings of its instance
\* from the first event on: over restarts, lost connections and replacements
\* Connect has stored them before the client in the pool is logged in.  (After
\* pairing by phone they are missing until the next Connect.)
OnlineHasSettings == PoolOnline => settings

\* Once the row names a device that the server has, connect requests one after the
\* other bring the pool's client online, whatever network errors, failing pairings,
\* lost connections, refused client versions and restarts come between.
ConnectRecovers ==
    row.jid \in linked ~> PoolOnline \/ ~row.there \/ row.jid \notin linked \/ OutOfClients

-----------------------------------------------------------------------------
(* What the documentation says and the code does not do *)

\* "reconnects after a network blip": when the pool's client has lost the
\* connection of a paired device and autoReconnect waits, the instance can be used
\* again later, without another connect request.
ReconnectsAfterBlip ==
    pool # None /\ "wait" \in cl[pool].bg /\ cl[pool].jid \in linked
        ~> PoolOnline \/ ~row.there
=============================================================================
