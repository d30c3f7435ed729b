----------------------------- MODULE QRChannel -----------------------------
(***************************************************************************)
(* One QR pairing session: the channel that GetQRChannel returns           *)
(* (whatsmeow-lib/qrchan.go), the goroutine that emits the codes, the      *)
(* goroutines that dispatch the client's events to the channel's handler,  *)
(* and listenQR, which copies the items to the instance row.               *)
(*                                                                         *)
(* InstancePool lets an event close the QR channel in one step.  Here the  *)
(* goroutines interleave: the flag closed decides which of them sends the  *)
(* final item, and only that one closes the channel, but between the two   *)
(* the others may still be on their way.  A panic in a handler is          *)
(* recovered by dispatchEvent; one in the emitter ends the process.        *)
(*                                                                         *)
(* The session has a client of its own: create() makes a new client        *)
(* whenever the one in the pool is not connected.                          *)
(***************************************************************************)
EXTENDS Naturals, Sequences, FiniteSets

CONSTANTS
    Codes,    \* codes in the server's pair-device node (6 as a rule)
    Capacity  \* buffer of the channel (8 in the code)

ASSUME BoundsAssumption == Codes \in Nat \ {0} /\ Capacity \in Nat \ {0}

\* The events that the handler of the channel knows, QR apart.  Refused stands for
\* ClientOutdated, ConnectFailure, LoggedOut and TemporaryBan.
Ending == {"PairSuccess", "PairError", "Disconnected", "Connected", "Refused"}
Events == Ending \cup {"Scanned"}

Item(e) == CASE e = "PairSuccess"  -> "success"
             [] e = "PairError"    -> "error"
             [] e = "Disconnected" -> "timeout"
             [] e \in {"Connected", "Refused", "Scanned"} -> "err"
Finals == {"success", "error", "timeout", "err"}

VARIABLES
    conn,      \* "up" (not logged in), "in" or "down"
    expected,  \* expectedDisconnect is set
    paired,    \* Store.ID is set
    closed,    \* qrc.closed
    stopQRs,   \* qrc.stopQRs is closed
    out,       \* qrc.output: the items in its buffer
    shut,      \* qrc.output is closed
    emitter,   \* emitQRs: next step, codes left
    handler,   \* per event: next step of the goroutine that dispatches it
    listener,  \* listenQR: next step
    row,       \* status, jid and code of the instance row
    sent,      \* every item sent so far, with what made it
    crashed    \* the emitter has panicked

client == <<conn, expected, paired>>
channel == <<closed, stopQRs, out, shut, sent>>
vars == <<conn, expected, paired, closed, stopQRs, out, shut, emitter, handler,
          listener, row, sent, crashed>>

Init ==
    /\ conn = "down" /\ expected = FALSE /\ paired = FALSE
    /\ closed = FALSE /\ stopQRs = FALSE /\ out = <<>> /\ shut = FALSE
    /\ emitter = [pc |-> "none", left |-> Codes]
    /\ handler = [e \in Events |-> "none"]
    /\ listener = "dial"
    /\ row = [status |-> "qr_code", jid |-> FALSE, code |-> FALSE]
    /\ sent = <<>> /\ crashed = FALSE

-----------------------------------------------------------------------------
(* The client and its events; each event is dispatched by a goroutine *)

Dispatch(e) == handler[e] = "none" /\ handler' = [handler EXCEPT ![e] = "check"]

\* listenQR: GetQRChannel, then Connect.
Dial ==
    /\ listener = "dial"
    /\ \/ conn' = "up" /\ listener' = "range" /\ UNCHANGED row
       \/ listener' = "done" /\ row' = [row EXCEPT !.status = "disconnected"] /\ UNCHANGED conn
    /\ UNCHANGED <<expected, paired, channel, emitter, handler, crashed>>

\* handlePairDevice: the QR event starts the emitter, unless the channel is closed.
PairDevice ==
    /\ conn = "up" /\ ~paired /\ emitter.pc = "none" /\ ~closed
    /\ emitter' = [emitter EXCEPT !.pc = "check"]
    /\ UNCHANGED <<client, channel, handler, listener, row, crashed>>

\* handlePair after the user has scanned a code: the device is saved, and a
\* disconnection is expected from here on.
Pair ==
    /\ conn = "up" /\ ~paired /\ row.code
    /\ paired' = TRUE /\ expected' = TRUE
    /\ Dispatch("PairSuccess")
    /\ UNCHANGED <<conn, channel, emitter, listener, row, crashed>>

\* handlePair fails: Disconnect, then the event.
PairFails ==
    /\ conn = "up" /\ ~paired /\ row.code
    /\ conn' = "down" /\ expected' = TRUE
    /\ Dispatch("PairError")
    /\ UNCHANGED <<paired, channel, emitter, listener, row, crashed>>

\* Stream error 515 after the pairing: Disconnect, connect, and the server logs the
\* client in.
Login ==
    /\ conn = "up" /\ paired
    /\ conn' = "in" /\ expected' = FALSE
    /\ Dispatch("Connected")
    /\ UNCHANGED <<paired, channel, emitter, listener, row, crashed>>

\* onDisconnect with remote = true.
Drop ==
    /\ conn # "down"
    /\ conn' = "down"
    /\ IF expected THEN UNCHANGED handler ELSE Dispatch("Disconnected")
    /\ UNCHANGED <<expected, paired, channel, emitter, listener, row, crashed>>

\* handleConnectFailure.
Refuse ==
    /\ conn = "up" /\ ~paired
    /\ expected' = TRUE
    /\ Dispatch("Refused")
    /\ UNCHANGED <<conn, paired, channel, emitter, listener, row, crashed>>

\* The code was scanned by an account without multi-device.
Scan ==
    /\ conn = "up" /\ ~paired /\ row.code
    /\ Dispatch("Scanned")
    /\ UNCHANGED <<client, channel, emitter, listener, row, crashed>>

\* The API's disconnect: no event.
Disconnect ==
    /\ conn # "down"
    /\ conn' = "down" /\ expected' = TRUE
    /\ UNCHANGED <<paired, channel, emitter, handler, listener, row, crashed>>

-----------------------------------------------------------------------------
(* qrc.output *)

Put(who, item) ==
    /\ Len(out) < Capacity
    /\ out' = Append(out, item) /\ sent' = Append(sent, <<who, item>>)

-----------------------------------------------------------------------------
(* emitQRs *)

EmitterOnly == <<client, stopQRs, handler, listener, row>>
Emitter(pc) == emitter' = [emitter EXCEPT !.pc = pc]

\* Mutant of EmitCheck: qrc.closed is looked at only when there is no code left.
EmitCheckBlind ==
    /\ emitter.pc = "check"
    /\ IF emitter.left = 0
       THEN closed' = TRUE /\ Emitter(IF closed THEN "done" ELSE "final")
       ELSE Emitter("send") /\ UNCHANGED closed
    /\ UNCHANGED <<EmitterOnly, out, shut, sent, crashed>>

\* No code left: the emitter tries to be the one that ends the session.
EmitCheck ==
    /\ emitter.pc = "check"
    /\ IF emitter.left = 0
       THEN closed' = TRUE /\ Emitter(IF closed THEN "done" ELSE "final")
       ELSE Emitter(IF closed THEN "done" ELSE "send") /\ UNCHANGED closed
    /\ UNCHANGED <<EmitterOnly, out, shut, sent, crashed>>

\* Mutant of EmitSend: the buffer takes everything.
EmitSendUnbounded ==
    /\ emitter.pc = "send" /\ ~shut
    /\ out' = Append(out, "code") /\ sent' = Append(sent, <<"emitter", "code">>)
    /\ emitter' = [pc |-> "timer", left |-> emitter.left - 1]
    /\ UNCHANGED <<EmitterOnly, closed, shut, crashed>>

\* A code is sent if there is room.  A full buffer ends the session without a final
\* item, and a closed channel ends the process.
EmitSend ==
    /\ emitter.pc = "send"
    /\ \/ /\ ~shut /\ Put("emitter", "code")
          /\ emitter' = [pc |-> "timer", left |-> emitter.left - 1]
          /\ UNCHANGED <<closed, crashed>>
       \/ /\ ~shut /\ Len(out) >= Capacity
          /\ closed' = TRUE /\ Emitter(IF closed THEN "done" ELSE "close")
          /\ UNCHANGED <<out, sent, crashed>>
       \/ /\ shut /\ crashed' = TRUE
          /\ UNCHANGED <<closed, out, sent, emitter>>
    /\ UNCHANGED <<EmitterOnly, shut>>

\* The code expires, or stopQRs is closed; when both, select may choose either.  The
\* context of the session is context.Background().
EmitWait ==
    /\ emitter.pc = "timer"
    /\ \/ Emitter("check")
       \/ stopQRs /\ Emitter("done")
    /\ UNCHANGED <<EmitterOnly, closed, out, shut, sent, crashed>>

\* QRChannelTimeout.
EmitFinal ==
    /\ emitter.pc = "final" /\ Put("emitter", "timeout")
    /\ Emitter("close")
    /\ UNCHANGED <<EmitterOnly, closed, shut, crashed>>

EmitClose ==
    /\ emitter.pc = "close"
    /\ shut' = TRUE /\ Emitter("hangup")
    /\ UNCHANGED <<EmitterOnly, closed, out, sent, crashed>>

\* cli.Disconnect()
EmitHangup ==
    /\ emitter.pc = "hangup"
    /\ conn' = "down" /\ expected' = TRUE /\ Emitter("done")
    /\ UNCHANGED <<paired, channel, handler, listener, row, crashed>>

EmitStep ==
    EmitCheck \/ EmitSend \/ EmitWait \/ EmitFinal \/ EmitClose \/ EmitHangup

-----------------------------------------------------------------------------
(* handleEvent *)

HandlerOnly == <<client, emitter, listener, row, crashed>>
Handler(e, pc) == handler' = [handler EXCEPT ![e] = pc]

HandleCheck(e) ==
    /\ handler[e] = "check"
    /\ Handler(e, CASE closed        -> "done"
                    [] e = "Scanned" -> "put"
                    [] OTHER         -> "stop")
    /\ UNCHANGED <<HandlerOnly, channel>>

\* close(stopQRs): the second one panics, and dispatchEvent recovers.
HandleStop(e) ==
    /\ handler[e] = "stop"
    /\ stopQRs' = TRUE /\ Handler(e, IF stopQRs THEN "done" ELSE "swap")
    /\ UNCHANGED <<HandlerOnly, closed, out, shut, sent>>

\* Mutant of HandleSwap: the flag is set without being looked at.
HandleSwapBlind(e) ==
    /\ handler[e] = "swap"
    /\ closed' = TRUE /\ Handler(e, "put")
    /\ UNCHANGED <<HandlerOnly, stopQRs, out, shut, sent>>

HandleSwap(e) ==
    /\ handler[e] = "swap"
    /\ closed' = TRUE /\ Handler(e, IF closed THEN "done" ELSE "put")
    /\ UNCHANGED <<HandlerOnly, stopQRs, out, shut, sent>>

\* The send waits for room.  "Scanned" has not swapped the flag, and may find the
\* channel closed: the panic is recovered.
HandlePut(e) ==
    /\ handler[e] = "put"
    /\ \/ ~shut /\ Put(e, Item(e)) /\ Handler(e, IF e = "Scanned" THEN "done" ELSE "close")
       \/ shut /\ Handler(e, "done") /\ UNCHANGED <<out, sent>>
    /\ UNCHANGED <<HandlerOnly, closed, stopQRs, shut>>

\* Mutant of HandleClose: the channel stays open.
HandleCloseForgets(e) ==
    /\ handler[e] = "close"
    /\ Handler(e, "done")
    /\ UNCHANGED <<HandlerOnly, channel>>

HandleClose(e) ==
    /\ handler[e] = "close"
    /\ shut' = TRUE /\ Handler(e, "done")
    /\ UNCHANGED <<HandlerOnly, closed, stopQRs, out, sent>>

HandleStep(e) ==
    HandleCheck(e) \/ HandleStop(e) \/ HandleSwap(e) \/ HandlePut(e) \/ HandleClose(e)

-----------------------------------------------------------------------------
(* listenQR *)

\* Mutant of RowAfter: the JID is not saved.
RowAfterNoJid(item) ==
    CASE item = "code"    -> [row EXCEPT !.code = TRUE]
      [] item = "success" -> [row EXCEPT !.status = "connected"]
      [] item \in {"timeout", "error"} -> [row EXCEPT !.status = "disconnected"]
      [] item = "err"     -> row

\* Mutant of RowAfter: no case for "timeout".
RowAfterNoTimeout(item) ==
    CASE item = "code"    -> [row EXCEPT !.code = TRUE]
      [] item = "success" -> [row EXCEPT !.status = "connected", !.jid = paired]
      [] item = "error"   -> [row EXCEPT !.status = "disconnected"]
      [] item \in {"err", "timeout"} -> row

\* What an item does to the row; an "err-..." item matches no case.
RowAfter(item) ==
    CASE item = "code"    -> [row EXCEPT !.code = TRUE]
      [] item = "success" -> [row EXCEPT !.status = "connected", !.jid = paired]
      [] item \in {"timeout", "error"} -> [row EXCEPT !.status = "disconnected"]
      [] item = "err"     -> row

\* The loop over the channel returns at "timeout" and "error", and ends with it.
Listen ==
    /\ listener = "range"
    /\ \/ /\ out # <<>>
          /\ row' = RowAfter(Head(out)) /\ out' = Tail(out)
          /\ listener' = IF Head(out) \in {"timeout", "error"} THEN "done" ELSE "range"
       \/ /\ out = <<>> /\ shut
          /\ listener' = "done"
          /\ UNCHANGED <<row, out>>
    /\ UNCHANGED <<client, closed, stopQRs, shut, sent, emitter, handler, crashed>>

-----------------------------------------------------------------------------

Next ==
    /\ ~crashed
    /\ \/ Dial \/ PairDevice \/ Pair \/ PairFails \/ Login \/ Drop \/ Refuse \/ Scan
       \/ Disconnect
       \/ EmitStep
       \/ \E e \in Events : HandleStep(e)
       \/ Listen

\* Goroutines run and timers fire.  Users, server and network promise nothing.
Fairness ==
    /\ WF_vars(~crashed /\ EmitStep) /\ WF_vars(~crashed /\ Listen)
    /\ \A e \in Events : WF_vars(~crashed /\ HandleStep(e))

Spec == Init /\ [][Next]_vars /\ Fairness

-----------------------------------------------------------------------------
(* Properties *)

\* The variables have their types, and the buffer keeps its bound.
TypeOK ==
    /\ conn \in {"up", "in", "down"} /\ expected \in BOOLEAN /\ paired \in BOOLEAN
    /\ closed \in BOOLEAN /\ stopQRs \in BOOLEAN /\ shut \in BOOLEAN
    /\ out \in Seq(Finals \cup {"code"}) /\ Len(out) <= Capacity
    /\ emitter \in [pc : {"none", "check", "send", "timer", "final", "close", "hangup",
                          "done"}, left : 0 .. Codes]
    /\ handler \in [Events -> {"none", "check", "stop", "swap", "put", "close", "done"}]
    /\ listener \in {"dial", "range", "done"}
    /\ row \in [status : {"qr_code", "connected", "disconnected"}, jid : BOOLEAN,
                code : BOOLEAN]
    /\ sent \in Seq((Events \cup {"emitter"}) \X (Finals \cup {"code"}))
    /\ crashed \in BOOLEAN

\* The places of the final item in what was sent.
FinalAt == {i \in 1 .. Len(sent) : sent[i][2] \in Finals /\ sent[i][1] # "Scanned"}

\* However emitter and events race, one final item at most goes out, and whoever sent
\* it is the only one to close the channel: no second close, no second result.
OneFinalItem ==
    /\ Cardinality(FinalAt) <= 1
    /\ Cardinality({e \in Ending : handler[e] \in {"put", "close"}}
                   \cup {x \in {"emitter"} : emitter.pc \in {"final", "close"}}) <= 1
    /\ shut => closed /\ \A e \in Ending : handler[e] \notin {"put", "close"}

\* What follows the final item is at most one code, and at most one report of a scan,
\* that were on their way when the flag was set.
LateItems ==
    \A i \in FinalAt :
        /\ Cardinality({j \in i + 1 .. Len(sent) : sent[j][2] = "code"}) <= 1
        /\ Cardinality({j \in i + 1 .. Len(sent) : sent[j][1] = "Scanned"}) <= 1

\* Once the codes have come, the session ends, whether or not the connection is still
\* there: listenQR returns.
ListenerEnds == emitter.pc # "none" ~> (listener = "done" \/ crashed)

\* A session ended without a success: another final item, or the full buffer.
EndedOtherwise == closed /\ \A i \in 1 .. Len(sent) : sent[i][2] # "success"

\* A pairing reaches the row, unless the session had ended otherwise by then.
PairingRecorded == paired ~> (row.jid \/ EndedOtherwise \/ crashed)

\* The endings that listenQR does not record: an "err-..." item, and the full buffer.
Unrecorded == shut /\ \A i \in FinalAt : sent[i][2] = "err"

\* No other ending leaves the row in "qr_code".
StatusSettles ==
    emitter.pc # "none" ~> (row.status # "qr_code" \/ Unrecorded \/ crashed)
=============================================================================
