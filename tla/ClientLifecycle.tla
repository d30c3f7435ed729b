-------------------------- MODULE ClientLifecycle --------------------------
(***************************************************************************)
(* Connection state of one whatsmeow client object, as far as the service  *)
(* can observe it (whatsmeow-lib: client.go, connectionevents.go,          *)
(* qrchan.go, store/store.go).  The module has no state: it defines what   *)
(* each operation of the library does to a client record.                  *)
(*                                                                         *)
(*   jid      Store.ID: the paired device, NoJid while unpaired            *)
(*   deleted  Store.Deleted                                                *)
(*   sock     "down", "new" (connected to register a device), "up"         *)
(*            (connected to log in) or "in" (logged in)                    *)
(*   expected expectedDisconnect is set                                    *)
(*   bg       background work under way: "wait" and "dial" are the two     *)
(*            halves of autoReconnect, "cut" is the server's request to    *)
(*            reconnect after pairing (stream error 515) and "redial" the  *)
(*            goroutine that obeys it                                      *)
(*   stage    what is next in handlePair: "save", "ident", "sign" or, on   *)
(*            an error, "fail"                                             *)
(*   pairing  the JID that handlePair works on, NoJid outside of it        *)
(*   phone    a phone pairing code has been requested                      *)
(***************************************************************************)
EXTENDS Naturals

CONSTANTS MaxPairings   \* bound on the devices paired in a behaviour

ASSUME MaxPairingsAssumption == MaxPairings \in Nat

NoJid == 0
Jids == 1 .. MaxPairings

Work == {"wait", "dial", "cut", "redial"}
Stages == {"none", "save", "ident", "sign", "fail"}

Client ==
    {k \in [jid : Jids \cup {NoJid}, deleted : BOOLEAN, sock : {"down", "new", "up", "in"},
            expected : BOOLEAN, bg : SUBSET Work, stage : Stages,
            pairing : Jids \cup {NoJid}, phone : BOOLEAN] :
        k.stage \in {"save", "ident", "sign"} => k.pairing # NoJid}

\* NewClient over GetDevice(jid) or, for NoJid, NewDevice().
NewClient(jid) ==
    [jid |-> jid, deleted |-> FALSE, sock |-> "down", expected |-> FALSE,
     bg |-> {}, stage |-> "none", pairing |-> NoJid, phone |-> FALSE]

\* The socket is open; says nothing of authentication.
IsConnected(k) == k.sock # "down"

\* Connect does not refuse at once (ErrDeviceDeleted, ErrAlreadyConnected).
MayDial(k) == ~k.deleted /\ ~IsConnected(k)

\* unlockedConnect: expectedDisconnect is cleared before the dial, and the
\* handshake registers a new device or logs in, as Store.ID says.
Dialled(k) == [k EXCEPT !.sock = IF k.jid = NoJid THEN "new" ELSE "up", !.expected = FALSE]
DialFailed(k) == [k EXCEPT !.expected = FALSE]

\* The socket is closed; a stream error under way is lost with it.
Down(k) == [k EXCEPT !.sock = "down", !.bg = @ \ {"cut"}]

\* Disconnect: no Disconnected event.
Disconnected(k) == [Down(k) EXCEPT !.expected = TRUE]

\* onDisconnect with remote = true: unless expected, autoReconnect starts (and
\* the Disconnected event goes out); it returns at once for an unpaired device.
Dropped(k) ==
    [Down(k) EXCEPT !.bg = IF k.expected \/ k.jid = NoJid THEN @ ELSE @ \cup {"wait"}]

\* Device.Delete.
StoreDeleted(k) == [k EXCEPT !.jid = NoJid, !.deleted = TRUE]

\* The server ends the stream for good (connect failure, stream error
\* "replaced"): expectDisconnect, and the socket closes.
Ended(k) == [Down(k) EXCEPT !.expected = TRUE]

\* ... because the device was removed: LoggedOut event and Store.Delete as well.
LoggedOut(k) == StoreDeleted(Ended(k))

\* Stream error 515: Disconnect, and a goroutine that is to connect again.
Restarting(k) == [Disconnected(k) EXCEPT !.bg = @ \cup {"redial"}]

\* The server offers this connection for pairing.
Pairable(k) == k.sock = "new" /\ k.jid = NoJid /\ ~k.deleted /\ k.stage = "none"

\* handlePair gives the device its ID, which others may read from then on.
PairBegun(k, jid) ==
    [k EXCEPT !.jid = jid, !.pairing = jid, !.phone = FALSE, !.stage = "save"]

\* The device is saved.
PairSaved(k) == [k EXCEPT !.stage = "ident"]

\* The main device's identity is stored: expectDisconnect before the answer.
PairExpects(k) == [k EXCEPT !.stage = "sign", !.expected = TRUE]

\* handlePair returns an error.  The device keeps its ID ...
PairGivenUp(k) == [k EXCEPT !.stage = "fail", !.pairing = NoJid]

\* ... or is deleted first.
PairUndone(k) == PairGivenUp(StoreDeleted(k))

\* The confirmation is written.  On the connection that is being paired the
\* server answers it with a request to reconnect.
PairConfirmed(k) ==
    [k EXCEPT !.stage = "none", !.pairing = NoJid,
              !.bg = @ \cup (IF k.sock = "new" THEN {"cut"} ELSE {})]

\* After an error: Disconnect.
PairClosed(k) == Disconnected([k EXCEPT !.stage = "none"])
=============================================================================
