-------------------------- MODULE ResponseWaiters --------------------------
(***************************************************************************)
(* How a request to the WhatsApp server finds its answer                   *)
(* (whatsmeow-lib: request.go, keepalive.go, the waiting half of send.go,  *)
(* and the parts of client.go and socket/ that open and close connections).*)
(*                                                                         *)
(* A request registers a channel under its id, sends its frame on the      *)
(* current connection and waits.  Three goroutines may end the wait: the   *)
(* reader of the connection, whoever closes the connection and clears all  *)
(* waiters, and the handler of a stream error.  An interrupted request is  *)
(* resent once, with the same id and a new channel.  The keepalive loop of *)
(* a connection sends pings in the same way, and closes a connection on    *)
(* which they stay unanswered.                                             *)
(*                                                                         *)
(* A channel is <<id, n>>, n = 2 for the resend; the frame it was made for *)
(* has the same name.  Connections are numbered as they are dialled.       *)
(***************************************************************************)
EXTENDS Naturals, FiniteSets

CONSTANTS
    IQs,        \* calls of sendIQ
    Msgs,       \* calls of SendMessage
    Pings,      \* ids of keepalive pings; used again when nothing carries them
    MaxConns,   \* bound on the connections dialled
    MaxFails,   \* failed pings that make KeepAliveMaxFailTime
    MaxErrors,  \* bound on the stream errors of the server
    MaxCalls    \* bound on the calls made

ASSUME IdsAssumption ==
    IQs \cap Msgs = {} /\ (IQs \cup Msgs) \cap Pings = {}
ASSUME BoundsAssumption ==
    /\ MaxConns \in Nat \ {0} /\ MaxFails \in Nat \ {0}
    /\ MaxErrors \in Nat /\ MaxCalls \in Nat

Requests == IQs \cup Msgs
Conns == 1 .. MaxConns
NoSock == 0
NoPing == "none"
Channels == (Requests \X {1, 2}) \cup (Pings \X {1})
Idle == <<>>            \* the reader holds no channel

\* What clears the waiters: xmlStreamEndNode or a stream error, and the stream
\* errors for which isAuthErrorDisconnect holds.
Ends == {"gone", "auth"}

VARIABLES
    sock,     \* cli.socket
    conns,    \* number of connections dialled so far
    link,     \* per connection: open, nothing gets through any more, OnDisconnect
              \* on its way
    wire,     \* per connection: frames sent whose answer may still come
    reader,   \* per connection: the channel that its reader has looked up
    loop,     \* per connection: keepAliveLoop, its ping and its failures in a row;
              \* without an open connection, a loop asleep is one that has ended
    waiters,  \* responseWaiters: the channels registered under their ids
    chan,     \* what is in a channel of capacity 1, or that it is closed
    req,      \* per request: next step, connection its waiter is for, result
    queued,   \* stream error in the handler queue, of whatever connection
    errors,   \* number of stream errors so far
    crashed   \* a goroutine has panicked: the process is gone

tables == <<waiters, chan>>
vars == <<sock, conns, link, wire, reader, loop, waiters, chan, req, queued,
          errors, crashed>>

Asleep(n) == [pc |-> "sleep", ping |-> NoPing, fails |-> n]   \* n failures so far
NewLink == [open |-> FALSE, mute |-> FALSE, callback |-> FALSE]

Init ==
    /\ sock = NoSock /\ conns = 0
    /\ link = [k \in Conns |-> NewLink]
    /\ wire = [k \in Conns |-> {}]
    /\ reader = [k \in Conns |-> Idle]
    /\ loop = [k \in Conns |-> Asleep(0)]
    /\ waiters = {} /\ chan = [c \in Channels |-> "empty"]
    /\ req = [r \in Requests |-> [pc |-> "idle", on |-> NoSock, out |-> "none"]]
    /\ queued = FALSE /\ errors = 0 /\ crashed = FALSE

-----------------------------------------------------------------------------
(* The table of waiters; every operation holds responseWaitersLock. *)

Others(id) == {w \in waiters : w[1] # id}

waitResponse(c) ==
    /\ waiters' = Others(c[1]) \cup {c}
    /\ chan' = [chan EXCEPT ![c] = "empty"]

cancelResponse(c) ==
    /\ waiters' = Others(c[1])
    /\ chan' = [chan EXCEPT ![c] = "closed"]

\* A waiter whose channel is full is closed instead.
clearResponseWaiters(node) ==
    /\ waiters' = {}
    /\ chan' = [c \in Channels |->
                    IF c \notin waiters THEN chan[c]
                    ELSE IF chan[c] = "empty" THEN node ELSE "closed"]

-----------------------------------------------------------------------------
(* Connections *)

IsConnected == sock # NoSock /\ link[sock].open

\* NoiseSocket.Stop(true, false): a callback that is on its way stays so.  The
\* reader is told to end, but may still choose a frame: answers may come or not.
Stopped(k) == [link EXCEPT ![k].open = FALSE, ![k].mute = FALSE]

\* The end of the connection's context wakes a sleeping keepalive loop, which returns.
Woken(k) == [loop EXCEPT ![k] = IF @.pc = "sleep" THEN Asleep(0) ELSE @]

\* unlockedDisconnect under socketLock.
unlockedDisconnect ==
    /\ link' = Stopped(sock)
    /\ clearResponseWaiters("gone")

Disconnect ==
    /\ sock # NoSock
    /\ unlockedDisconnect
    /\ sock' = NoSock /\ loop' = Woken(sock)
    /\ UNCHANGED <<conns, wire, reader, req, queued, errors, crashed>>

\* A dial that succeeds, by autoReconnect, by the goroutine of stream error 515 or
\* by the application.  A dead socket that is still in place is removed first.
Connect ==
    /\ ~IsConnected /\ conns < MaxConns
    /\ conns' = conns + 1 /\ sock' = conns + 1
    /\ IF sock = NoSock
       THEN /\ link' = [link EXCEPT ![conns + 1].open = TRUE]
            /\ UNCHANGED tables
       ELSE /\ link' = [Stopped(sock) EXCEPT ![conns + 1].open = TRUE]
            /\ clearResponseWaiters("gone")
    /\ UNCHANGED <<wire, reader, loop, req, queued, errors, crashed>>

\* The connection breaks: readPump ends, FrameSocket.Close starts OnDisconnect.
Drop(k) ==
    /\ link[k].open
    /\ link' = [link EXCEPT ![k].open = FALSE, ![k].mute = FALSE, ![k].callback = TRUE]
    /\ loop' = Woken(k)
    /\ UNCHANGED <<sock, conns, wire, reader, tables, req, queued, errors, crashed>>

\* Mutant of OnDisconnect: the waiters stay.
OnDisconnectKeepsWaiters(k) ==
    /\ link[k].callback
    /\ link' = [link EXCEPT ![k].callback = FALSE]
    /\ sock' = IF sock = k THEN NoSock ELSE sock
    /\ UNCHANGED <<conns, wire, reader, loop, tables, req, queued, errors, crashed>>

\* Mutant of OnDisconnect: it is taken to be about the current connection.
OnDisconnectAnySocket(k) ==
    /\ link[k].callback
    /\ link' = [link EXCEPT ![k].callback = FALSE]
    /\ sock' = NoSock /\ clearResponseWaiters("gone")
    /\ UNCHANGED <<conns, wire, reader, loop, req, queued, errors, crashed>>

\* onDisconnect: only the current connection has waiters to clear.
OnDisconnect(k) ==
    /\ link[k].callback
    /\ link' = [link EXCEPT ![k].callback = FALSE]
    /\ \/ sock = k /\ sock' = NoSock /\ clearResponseWaiters("gone")
       \/ sock # k /\ UNCHANGED <<sock, tables>>
    /\ UNCHANGED <<conns, wire, reader, loop, req, queued, errors, crashed>>

\* The network stops carrying anything, and neither end is told.
Mute(k) ==
    /\ link[k].open /\ ~link[k].mute
    /\ link' = [link EXCEPT ![k].mute = TRUE]
    /\ wire' = [wire EXCEPT ![k] = {}]
    /\ UNCHANGED <<sock, conns, reader, loop, tables, req, queued, errors, crashed>>

\* A stream error arrives and is queued for its handler ...
StreamError(k) ==
    /\ link[k].open /\ ~link[k].mute
    /\ ~queued /\ errors < MaxErrors
    /\ queued' = TRUE /\ errors' = errors + 1
    /\ UNCHANGED <<sock, conns, link, wire, reader, loop, tables, req, crashed>>

\* ... which clears the waiters, whichever connection is the current one by then.
handleStreamError ==
    /\ queued
    /\ \E node \in Ends : clearResponseWaiters(node)
    /\ queued' = FALSE
    /\ UNCHANGED <<sock, conns, link, wire, reader, loop, req, errors, crashed>>

-----------------------------------------------------------------------------
(* The server and the reader of a connection *)

\* FrameSocket.SendFrame on an open connection.
Written(k, f) == [wire EXCEPT ![k] = IF link[k].mute THEN @ ELSE @ \cup {f}]

\* Mutant of Lookup: the waiter stays in the table.
LookupKeeps(k, f) ==
    /\ reader[k] = Idle /\ f \in wire[k]
    /\ wire' = [wire EXCEPT ![k] = @ \ {f}]
    /\ \/ /\ \E w \in waiters : w[1] = f[1] /\ reader' = [reader EXCEPT ![k] = w]
          /\ UNCHANGED waiters
       \/ /\ waiters = Others(f[1])
          /\ UNCHANGED <<reader, waiters>>
    /\ UNCHANGED <<sock, conns, link, loop, chan, req, queued, errors, crashed>>

\* receiveResponse, with the lock: the waiter is taken out of the table.  An answer
\* that nobody waits for is dropped.  consumeFrames may also take a frame after its
\* connection is closed, until it chooses to see that.
Lookup(k, f) ==
    /\ reader[k] = Idle /\ f \in wire[k]
    /\ wire' = [wire EXCEPT ![k] = @ \ {f}]
    /\ \/ \E w \in waiters : /\ w[1] = f[1]
                             /\ reader' = [reader EXCEPT ![k] = w]
                             /\ waiters' = waiters \ {w}
       \/ /\ waiters = Others(f[1])
          /\ UNCHANGED <<reader, waiters>>
    /\ UNCHANGED <<sock, conns, link, loop, chan, req, queued, errors, crashed>>

\* Mutant of Deliver: the reader has the context of its connection, and gives up.
DeliverGivesUp(k) ==
    /\ reader[k] # Idle
    /\ reader' = [reader EXCEPT ![k] = Idle]
    /\ chan' = IF link[k].open THEN [chan EXCEPT ![reader[k]] = "answer"] ELSE chan
    /\ UNCHANGED <<sock, conns, link, wire, loop, waiters, req, queued, errors, crashed>>

\* receiveResponse, after the lock: a send on a closed channel panics, and nothing
\* recovers in this goroutine.  The context of the reader outlives the connection.
Deliver(k) ==
    /\ reader[k] # Idle
    /\ LET c == reader[k]
       IN  \/ /\ chan[c] = "empty"
              /\ chan' = [chan EXCEPT ![c] = "answer"]
              /\ reader' = [reader EXCEPT ![k] = Idle]
              /\ UNCHANGED crashed
           \/ /\ chan[c] = "closed"
              /\ crashed' = TRUE
              /\ UNCHANGED <<chan, reader>>
    /\ UNCHANGED <<sock, conns, link, wire, loop, waiters, req, queued, errors>>

\* consumeFrames returns; the frames not yet read are lost.
ReaderExit(k) ==
    /\ ~link[k].open /\ wire[k] # {}
    /\ wire' = [wire EXCEPT ![k] = {}]
    /\ UNCHANGED <<sock, conns, link, reader, loop, tables, req, queued, errors, crashed>>

-----------------------------------------------------------------------------
(* Requests: sendIQ and SendMessage *)

Calls == <<sock, conns, link, reader, loop, queued, errors, crashed>>

Finish(r, out) == req' = [req EXCEPT ![r] = [pc |-> "done", on |-> NoSock, out |-> out]]

\* ... and its waiter stays in the table.
Leave(r, out) == req' = [req EXCEPT ![r].pc = "done", ![r].out = out]

\* The first step of both: the channel is registered.
Start(r) ==
    /\ req[r].pc = "idle"
    /\ Cardinality({s \in Requests : req[s].pc # "idle"}) < MaxCalls
    /\ waitResponse(<<r, 1>>)
    /\ req' = [req EXCEPT ![r].pc = "sending"]
    /\ UNCHANGED <<Calls, wire>>

\* sendNodeAndGetData on the socket of the moment.
SendNode(r) ==
    /\ req[r].pc = "sending" /\ IsConnected
    /\ wire' = Written(sock, <<r, 1>>)
    /\ req' = [req EXCEPT ![r].pc = "waiting", ![r].on = sock]
    /\ UNCHANGED <<Calls, tables>>

\* No socket, a dead one, or an error before the frame was written.
SendNodeFails(r) ==
    /\ req[r].pc = "sending"
    /\ cancelResponse(<<r, 1>>)
    /\ Finish(r, "failed")
    /\ UNCHANGED <<Calls, wire>>

\* The wait ends with a node: an answer, the end of the connection (the frame is
\* to be sent again), or an authentication error.
Receive(r) ==
    /\ req[r].pc = "waiting"
    /\ \/ chan[<<r, 1>>] = "answer" /\ Finish(r, "ok")
       \/ chan[<<r, 1>>] = "gone" /\ req' = [req EXCEPT ![r].pc = "retry"]
       \/ chan[<<r, 1>>] = "auth" /\ Finish(r, "failed")
    /\ chan' = [chan EXCEPT ![<<r, 1>>] = "empty"]
    /\ UNCHANGED <<Calls, waiters, wire>>

\* Mutant of Timeout: sendIQ cancels its waiter as well.
TimeoutCancels(r) ==
    /\ req[r].pc = "waiting"
    /\ Finish(r, "timeout")
    /\ cancelResponse(<<r, 1>>)
    /\ UNCHANGED <<Calls, wire>>

\* The timer fires or the caller's context ends: SendMessage cancels its waiter,
\* sendIQ leaves it in the table.
Timeout(r) ==
    /\ req[r].pc = "waiting"
    /\ \/ r \in Msgs /\ Finish(r, "timeout") /\ cancelResponse(<<r, 1>>)
       \/ r \in IQs /\ Leave(r, "timeout") /\ UNCHANGED tables
    /\ UNCHANGED <<Calls, wire>>

\* The context ends while NoiseSocket.SendFrame still waits for the write, which
\* has been done: the call counts as failed and the waiter is cancelled.
SendAbandoned(r) ==
    /\ \/ req[r].pc = "waiting" /\ cancelResponse(<<r, 1>>)
       \/ req[r].pc = "rewaiting" /\ cancelResponse(<<r, 2>>)
    /\ Finish(r, "cancelled")
    /\ UNCHANGED <<Calls, wire>>

-----------------------------------------------------------------------------
(* retryFrame *)

\* WaitForConnection returns true, and the socket is read.
RetryStart(r) ==
    /\ req[r].pc = "retry" /\ IsConnected
    /\ req' = [req EXCEPT ![r].pc = "captured", ![r].on = sock]
    /\ UNCHANGED <<Calls, tables, wire>>

\* Not connected and logged in within five seconds, or no longer.
RetryGiveUp(r) ==
    /\ req[r].pc = "retry"
    /\ Finish(r, "failed")
    /\ UNCHANGED <<Calls, tables, wire>>

RetryRegister(r) ==
    /\ req[r].pc = "captured"
    /\ waitResponse(<<r, 2>>)
    /\ req' = [req EXCEPT ![r].pc = "resending"]
    /\ UNCHANGED <<Calls, wire>>

\* The frame goes out on the socket read before.
Resend(r) ==
    /\ req[r].pc = "resending" /\ link[req[r].on].open
    /\ wire' = Written(req[r].on, <<r, 2>>)
    /\ req' = [req EXCEPT ![r].pc = "rewaiting"]
    /\ UNCHANGED <<Calls, tables>>

ResendFails(r) ==
    /\ req[r].pc = "resending"
    /\ cancelResponse(<<r, 2>>)
    /\ Finish(r, "failed")
    /\ UNCHANGED <<Calls, wire>>

\* An interrupted resend is not repeated.
RetryReceive(r) ==
    /\ req[r].pc = "rewaiting"
    /\ \/ chan[<<r, 2>>] = "answer" /\ Finish(r, "ok")
       \/ chan[<<r, 2>>] \in Ends /\ Finish(r, "failed")
    /\ chan' = [chan EXCEPT ![<<r, 2>>] = "empty"]
    /\ UNCHANGED <<Calls, waiters, wire>>

\* sendIQ's timer, or the end of the caller's context; a message has no timer here.
\* The waiter stays in the table.
RetryTimeout(r) ==
    /\ req[r].pc = "rewaiting"
    /\ Leave(r, "timeout")
    /\ UNCHANGED <<Calls, tables, wire>>

-----------------------------------------------------------------------------
(* keepAliveLoop.  Nothing but the ping itself looks at its channel, so that its *)
(* registration and its write are one step.                                      *)

\* Nothing carries the id any more.
Unused(p) ==
    \A k \in Conns : /\ loop[k].ping # p
                     /\ <<p, 1>> \notin wire[k]
                     /\ reader[k] # <<p, 1>>

\* The loop forgets its channel, and what may be in it.
Forgotten(k) == [chan EXCEPT ![<<loop[k].ping, 1>>] = IF @ = "closed" THEN @ ELSE "empty"]

\* The timer of the loop fires, and a ping is sent.
Ping(k) ==
    /\ loop[k].pc = "sleep" /\ link[k].open /\ sock # NoSock
    /\ \E p \in Pings :
          /\ Unused(p)
          /\ waitResponse(<<p, 1>>)
          /\ wire' = Written(sock, <<p, 1>>)
          /\ loop' = [loop EXCEPT ![k].pc = "wait", ![k].ping = p]
    /\ UNCHANGED <<sock, conns, link, reader, req, queued, errors, crashed>>

\* Any node counts as an answer, the end of the connection too.
PingAnswered(k) ==
    /\ loop[k].pc = "wait" /\ chan[<<loop[k].ping, 1>>] # "empty"
    /\ loop' = [loop EXCEPT ![k] = Asleep(0)]
    /\ chan' = Forgotten(k)
    /\ UNCHANGED <<sock, conns, link, wire, reader, waiters, req, queued, errors, crashed>>

\* Mutant of PingFailed: a forced disconnect starts the count again, and is forgotten.
PingFailedForgets(k) ==
    /\ loop' = [loop EXCEPT ![k] = Asleep((@.fails + 1) % MaxFails)]
    /\ UNCHANGED <<sock, link, tables>>

\* Mutant of PingFailed: the loop goes on counting.
PingFailedCounts(k) ==
    /\ loop' = [loop EXCEPT ![k] = Asleep(@.fails + 1)]
    /\ UNCHANGED <<sock, link, tables>>

\* A failure is counted (if its connection is closed, the loop ends).  The last one
\* allowed makes the loop disconnect whichever connection is the current one, after
\* which its own is closed in any case.
PingFailed(k) ==
    \/ /\ loop[k].fails + 1 < MaxFails /\ link[k].open
       /\ loop' = [loop EXCEPT ![k] = Asleep(@.fails + 1)]
       /\ UNCHANGED <<sock, link, tables>>
    \/ /\ loop[k].fails + 1 >= MaxFails /\ sock # NoSock
       /\ unlockedDisconnect
       /\ sock' = NoSock /\ loop' = [Woken(sock) EXCEPT ![k] = Asleep(0)]
    \/ /\ loop[k].fails + 1 >= MaxFails /\ sock = NoSock
       /\ loop' = [loop EXCEPT ![k] = Asleep(0)]
       /\ UNCHANGED <<sock, link, tables>>

\* The ping cannot be written (its waiter has come and gone).
PingFails(k) ==
    /\ loop[k].pc = "sleep" /\ link[k].open
    /\ PingFailed(k)
    /\ UNCHANGED <<conns, wire, reader, req, queued, errors, crashed>>

\* KeepAliveResponseDeadline passes: the waiter stays in the table.
PingTimeout(k) ==
    /\ loop[k].pc = "wait"
    /\ PingFailed(k)
    /\ UNCHANGED <<conns, wire, reader, req, queued, errors, crashed>>

\* The connection's context ends while the ping is written: cancelResponse ...
PingAbandoned(k) ==
    /\ loop[k].pc = "wait" /\ ~link[k].open
    /\ cancelResponse(<<loop[k].ping, 1>>)
    /\ loop' = [loop EXCEPT ![k] = Asleep(0)]
    /\ UNCHANGED <<sock, conns, link, wire, reader, req, queued, errors, crashed>>

\* ... or while its answer is awaited.
LoopEnds(k) ==
    /\ loop[k].pc = "wait" /\ ~link[k].open
    /\ loop' = [loop EXCEPT ![k] = Asleep(0)]
    /\ chan' = Forgotten(k)
    /\ UNCHANGED <<sock, conns, link, wire, reader, waiters, req, queued, errors, crashed>>

-----------------------------------------------------------------------------

\* The goroutine of a call, without what its caller may do to it.
CallStep(r) ==
    \/ SendNode(r) \/ SendNodeFails(r) \/ Receive(r) \/ Timeout(r)
    \/ RetryStart(r) \/ RetryGiveUp(r) \/ RetryRegister(r)
    \/ Resend(r) \/ ResendFails(r) \/ RetryReceive(r)
    \/ r \in IQs /\ RetryTimeout(r)

LoopStep(k) ==
    \/ Ping(k) \/ PingFails(k) \/ PingAnswered(k) \/ PingTimeout(k)
    \/ PingAbandoned(k) \/ LoopEnds(k)

\* The answer to a request arrives.
Answer(k) == \E f \in Requests \X {1, 2} : Lookup(k, f)

ReaderStep(k) == (\E f \in Channels : Lookup(k, f)) \/ Deliver(k) \/ ReaderExit(k)

Next ==
    /\ ~crashed
    /\ \/ \E r \in Requests : Start(r) \/ CallStep(r) \/ SendAbandoned(r)
       \/ \E r \in Msgs : RetryTimeout(r)
       \/ \E k \in Conns : ReaderStep(k) \/ LoopStep(k)
       \/ \E k \in Conns : Drop(k) \/ OnDisconnect(k) \/ Mute(k) \/ StreamError(k)
       \/ handleStreamError \/ Connect \/ Disconnect

\* Goroutines run and timers fire, and on an open connection that carries frames the
\* server answers every request.  Nothing is promised of the network, of the callers'
\* contexts, of the answers to pings or of a new connection.
Fairness ==
    /\ \A r \in Requests : WF_vars(~crashed /\ CallStep(r))
    /\ \A k \in Conns : /\ SF_vars(~crashed /\ link[k].open /\ Answer(k))
                        /\ WF_vars(~crashed /\ (Deliver(k) \/ ReaderExit(k)))
                        /\ WF_vars(~crashed /\ LoopStep(k))
                        /\ WF_vars(~crashed /\ OnDisconnect(k))

Spec == Init /\ [][Next]_vars /\ Fairness

-----------------------------------------------------------------------------
(* Properties *)

\* The variables have their types.
TypeOK ==
    /\ sock \in Conns \cup {NoSock} /\ conns \in 0 .. MaxConns
    /\ link \in [Conns -> [open : BOOLEAN, mute : BOOLEAN, callback : BOOLEAN]]
    /\ wire \in [Conns -> SUBSET Channels]
    /\ reader \in [Conns -> Channels \cup {Idle}]
    /\ loop \in [Conns -> [pc : {"sleep", "wait"},
                           ping : Pings \cup {NoPing}, fails : 0 .. MaxFails - 1]]
    /\ waiters \subseteq Channels
    /\ chan \in [Channels -> Ends \cup {"empty", "answer", "closed"}]
    /\ req \in [Requests -> [pc : {"idle", "sending", "waiting", "retry", "captured",
                                   "resending", "rewaiting", "done"},
                             on : Conns \cup {NoSock},
                             out : {"none", "ok", "failed", "timeout", "cancelled"}]]
    /\ queued \in BOOLEAN /\ errors \in 0 .. MaxErrors
    /\ crashed \in BOOLEAN

\* A channel in the table is open and has room, and so has, unless its owner has
\* closed it, the one a reader has taken out: clearResponseWaiters never closes a
\* channel, no waiting call reads from a closed one, and no reader blocks.
WaiterHasRoom ==
    /\ \A w \in waiters : chan[w] = "empty"
    /\ \A k \in Conns : reader[k] # Idle => chan[reader[k]] \in {"empty", "closed"}

\* The panic of receiveResponse on a closed channel is possible only for a call that
\* gave up while an answer was under way: a message that timed out, a call whose
\* context ended during the write, a ping whose connection is closed, a failed resend
\* whose channel the old connection's reader had found for the first frame's answer.
\* No disconnect, stream error, failed first write or timeout of sendIQ leads to it.
PanicNeedsGivingUp ==
    \A k \in Conns :
        LET c == reader[k]
        IN  c # Idle /\ chan[c] = "closed" =>
                \/ c[1] \in Pings /\ ~link[k].open
                \/ c[1] \in Requests /\ req[c[1]].out = "cancelled"
                \/ c[1] \in Msgs /\ c[2] = 1 /\ req[c[1]].out = "timeout"
                \/ c[1] \in Requests /\ c[2] = 2 /\ req[c[1]].out = "failed"

\* The table does not grow from one connection to the next: a waiter that its call
\* has left behind belongs to the current connection, whose end removes it.
LeakEndsWithConnection ==
    \A w \in waiters : w[1] \in Requests /\ req[w[1]].pc = "done" => req[w[1]].on = sock

\* A connection that is open is the current one: the late callback of an older one
\* does not make the client forget it, and no dial leaves one behind.
NoOrphanConnection == \A k \in Conns : link[k].open => sock = k

AllReturned == \A r \in Requests : req[r].pc \in {"idle", "done"}

\* Every call returns (there are finitely many).  A resent message has no timer: only
\* the answer, or the end of its connection, returns it.
CallsReturn == ~AllReturned ~> (AllReturned \/ crashed)

IsMute == sock # NoSock /\ link[sock].mute

\* The keepalive loop gives up a connection that carries nothing any more.
DeadConnectionIsLeft ==
    IsMute ~> (~IsMute \/ crashed)
=============================================================================
