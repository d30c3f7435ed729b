----------------------- MODULE ResponseWaitersProofs -----------------------
(***************************************************************************)
(* Theorems about ResponseWaiters: its types, that no open connection is   *)
(* forgotten, that a channel somebody may send into has room, that waiters *)
(* left behind go with their connection, and who may close a channel under *)
(* a reader.                                                               *)
(***************************************************************************)
EXTENDS ResponseWaiters, TLAPS

Link == [open : BOOLEAN, mute : BOOLEAN, callback : BOOLEAN]
Loop == [pc : {"sleep", "wait"}, ping : Pings \cup {NoPing}, fails : 0 .. MaxFails - 1]
Content == Ends \cup {"empty", "answer", "closed"}
Request == [pc : {"idle", "sending", "waiting", "retry", "captured", "resending",
                  "rewaiting", "done"},
            on : Conns \cup {NoSock},
            out : {"none", "ok", "failed", "timeout", "cancelled"}]

\* TypeOK with names for the records.
Types ==
    /\ sock \in Conns \cup {NoSock} /\ conns \in 0 .. MaxConns
    /\ link \in [Conns -> Link] /\ wire \in [Conns -> SUBSET Channels]
    /\ reader \in [Conns -> Channels \cup {Idle}]
    /\ loop \in [Conns -> Loop]
    /\ waiters \subseteq Channels /\ chan \in [Channels -> Content]
    /\ req \in [Requests -> Request]
    /\ queued \in BOOLEAN /\ errors \in 0 .. MaxErrors /\ crashed \in BOOLEAN

\* Types is TypeOK.
LEMMA TypesDef == Types <=> TypeOK
BY DEF Types, TypeOK, Link, Loop, Content, Request

\* The initial state has the types.
LEMMA InitTypes == Init => Types
<1> SUFFICES ASSUME Init PROVE Types
  OBVIOUS
<1>1. Asleep(0) \in Loop /\ NewLink \in Link
  BY BoundsAssumption DEF Asleep, NewLink, Loop, Link
<1>2. [pc |-> "idle", on |-> NoSock, out |-> "none"] \in Request
  BY DEF Request
<1>3. link \in [Conns -> Link] /\ loop \in [Conns -> Loop] /\ req \in [Requests -> Request]
  BY <1>1, <1>2 DEF Init
<1>4. wire \in [Conns -> SUBSET Channels] /\ reader \in [Conns -> Channels \cup {Idle}]
  BY DEF Init
<1>5. waiters \subseteq Channels /\ chan \in [Channels -> Content]
  BY DEF Init, Content
<1>6. conns \in 0 .. MaxConns /\ errors \in 0 .. MaxErrors
  BY BoundsAssumption DEF Init
<1> QED BY <1>3, <1>4, <1>5, <1>6 DEF Init, Types

\* The operations on the table of waiters.
LEMMA TableTypes ==
    ASSUME Types
    PROVE  /\ \A c \in Channels : waitResponse(c) => waiters' \subseteq Channels /\ chan' \in [Channels -> Content]
           /\ \A c \in Channels : cancelResponse(c) => waiters' \subseteq Channels /\ chan' \in [Channels -> Content]
           /\ \A node \in Ends : clearResponseWaiters(node) => waiters' \subseteq Channels /\ chan' \in [Channels -> Content]
<1> USE DEF Types, Content
<1>1. \A c \in Channels : waitResponse(c) => waiters' \subseteq Channels /\ chan' \in [Channels -> Content]
  BY DEF waitResponse, Others
<1>2. \A c \in Channels : cancelResponse(c) => waiters' \subseteq Channels /\ chan' \in [Channels -> Content]
  BY DEF cancelResponse, Others
<1>3. \A node \in Ends : clearResponseWaiters(node) => waiters' \subseteq Channels /\ chan' \in [Channels -> Content]
  BY DEF clearResponseWaiters
<1> QED BY <1>1, <1>2, <1>3

\* Closing a connection and waking its keepalive loop.
LEMMA LinkTypes ==
    ASSUME Types, NEW k \in Conns
    PROVE  Stopped(k) \in [Conns -> Link] /\ Woken(k) \in [Conns -> Loop]
<1>1. Asleep(0) \in Loop
  BY BoundsAssumption DEF Asleep, Loop
<1> QED BY <1>1 DEF Types, Stopped, Woken, Link

\* The steps of the network, of connects and of disconnects.
LEMMA NetworkTypes ==
    ASSUME Types
    PROVE  /\ \A k \in Conns : Drop(k) \/ OnDisconnect(k) \/ Mute(k) \/ StreamError(k) => Types'
           /\ handleStreamError \/ Connect \/ Disconnect => Types'
<1>0. "gone" \in Ends
  BY DEF Ends
<1>1. ASSUME NEW k \in Conns, Drop(k) PROVE Types'
  BY <1>1, LinkTypes DEF Drop, Types, Link, tables
<1>2. ASSUME NEW k \in Conns, OnDisconnect(k) PROVE Types'
  BY <1>2, <1>0, TableTypes DEF OnDisconnect, Types, Link, tables
<1>3. ASSUME NEW k \in Conns, Mute(k) PROVE Types'
  BY <1>3 DEF Mute, Types, Link, tables
<1>4. ASSUME NEW k \in Conns, StreamError(k) PROVE Types'
  BY <1>4, BoundsAssumption DEF StreamError, Types, tables
<1>5. ASSUME handleStreamError PROVE Types'
  BY <1>5, TableTypes DEF handleStreamError, Types, tables
<1>6. ASSUME Connect PROVE Types'
  <2>1. conns + 1 \in Conns /\ conns' \in 0 .. MaxConns
    BY <1>6, BoundsAssumption DEF Connect, Types, Conns
  <2>2. CASE sock = NoSock
    BY <1>6, <2>1, <2>2 DEF Connect, Types, Link, tables
  <2>3. CASE sock # NoSock
    <3>1. sock \in Conns /\ Stopped(sock) \in [Conns -> Link]
      BY <2>3, LinkTypes DEF Types
    <3>2. waiters' \subseteq Channels /\ chan' \in [Channels -> Content]
      BY <1>0, <1>6, <2>3, TableTypes DEF Connect
    <3>3. link' \in [Conns -> Link]
      BY <1>6, <2>3, <3>1, <2>1 DEF Connect, Link
    <3> QED BY <1>6, <2>1, <3>2, <3>3 DEF Connect, Types
  <2> QED BY <2>2, <2>3
<1>7. ASSUME Disconnect PROVE Types'
  <2>1. sock \in Conns
    BY <1>7 DEF Disconnect, Types
  <2> QED BY <1>0, <1>7, <2>1, LinkTypes, TableTypes DEF Disconnect, unlockedDisconnect, Types
<1> QED BY <1>1, <1>2, <1>3, <1>4, <1>5, <1>6, <1>7

\* The steps of the reader of a connection.
LEMMA ReaderTypes ==
    ASSUME Types, NEW k \in Conns, ReaderStep(k)
    PROVE  Types'
<1>1. ASSUME NEW f \in Channels, Lookup(k, f) PROVE Types'
  BY <1>1 DEF Lookup, Types
<1>2. CASE Deliver(k)
  BY <1>2 DEF Deliver, Types, Content
<1>3. CASE ReaderExit(k)
  BY <1>3 DEF ReaderExit, Types, tables
<1> QED BY <1>1, <1>2, <1>3 DEF ReaderStep

\* A call that sends on a connection.
LEMMA RequestOn ==
    ASSUME Types, NEW r \in Requests, NEW k \in Conns, NEW pc \in {"waiting", "captured"}
    PROVE  [req EXCEPT ![r].pc = pc, ![r].on = k] \in [Requests -> Request]
<1>1. [req EXCEPT ![r].pc = pc] \in [Requests -> Request]
  BY DEF Types, Request
<1>2. ASSUME NEW f \in [Requests -> Request] PROVE [f EXCEPT ![r].on = k] \in [Requests -> Request]
  BY DEF Request
<1>3. [req EXCEPT ![r].pc = pc, ![r].on = k] = [[req EXCEPT ![r].pc = pc] EXCEPT ![r].on = k]
  OBVIOUS
<1> QED BY <1>1, <1>2, <1>3

\* A call that ends, or leaves its waiter behind.
LEMMA RequestOps ==
    ASSUME Types, NEW r \in Requests,
           NEW o \in {"none", "ok", "failed", "timeout", "cancelled"}
    PROVE  /\ Finish(r, o) => req' \in [Requests -> Request]
           /\ Leave(r, o) => req' \in [Requests -> Request]
BY DEF Types, Finish, Leave, Request

\* The steps of sendIQ, SendMessage and retryFrame.
LEMMA RequestTypes ==
    ASSUME Types, NEW r \in Requests
    PROVE  /\ Start(r) \/ CallStep(r) \/ SendAbandoned(r) => Types'
           /\ RetryTimeout(r) => Types'
<1>0. <<r, 1>> \in Channels /\ <<r, 2>> \in Channels
  BY DEF Channels
<1> USE RequestOps, TableTypes, <1>0
<1>1. ASSUME Start(r) PROVE Types'
  BY <1>1 DEF Start, Calls, Types, Request
<1>2. ASSUME SendNode(r) PROVE Types'
  <2>1. sock \in Conns
    BY <1>2 DEF SendNode, IsConnected, Types
  <2>2. req' \in [Requests -> Request]
    BY <1>2, <2>1, RequestOn DEF SendNode
  <2>3. wire' \in [Conns -> SUBSET Channels]
    BY <1>2 DEF SendNode, Written, Types
  <2> QED BY <1>2, <2>2, <2>3 DEF SendNode, Calls, tables, Types
<1>3. ASSUME SendNodeFails(r) PROVE Types'
  BY <1>3 DEF SendNodeFails, Calls, Types
<1>4. ASSUME Receive(r) PROVE Types'
  <2>1. req' \in [Requests -> Request]
    <3>1. CASE chan[<<r, 1>>] = "gone" /\ req' = [req EXCEPT ![r].pc = "retry"]
      BY <3>1 DEF Types, Request
    <3> QED BY <1>4, <3>1 DEF Receive
  <2> QED BY <1>4, <2>1 DEF Receive, Calls, Types, Content
<1>5. ASSUME Timeout(r) PROVE Types'
  BY <1>5 DEF Timeout, Calls, tables, Types
<1>6. ASSUME SendAbandoned(r) PROVE Types'
  BY <1>6 DEF SendAbandoned, Calls, Types
<1>7. ASSUME RetryStart(r) PROVE Types'
  <2>1. sock \in Conns
    BY <1>7 DEF RetryStart, IsConnected, Types
  <2>2. req' \in [Requests -> Request]
    BY <1>7, <2>1, RequestOn DEF RetryStart
  <2> QED BY <1>7, <2>2 DEF RetryStart, Calls, tables, Types
<1>8. ASSUME RetryGiveUp(r) PROVE Types'
  BY <1>8 DEF RetryGiveUp, Calls, tables, Types
<1>9. ASSUME RetryRegister(r) PROVE Types'
  BY <1>9 DEF RetryRegister, Calls, Types, Request
<1>10. ASSUME Resend(r) PROVE Types'
  BY <1>10 DEF Resend, Written, Calls, tables, Types, Request
<1>11. ASSUME ResendFails(r) PROVE Types'
  BY <1>11 DEF ResendFails, Calls, Types
<1>12. ASSUME RetryReceive(r) PROVE Types'
  <2>1. req' \in [Requests -> Request]
    BY <1>12 DEF RetryReceive, Types
  <2> QED BY <1>12, <2>1 DEF RetryReceive, Calls, Types, Content
<1>13. ASSUME RetryTimeout(r) PROVE Types'
  BY <1>13 DEF RetryTimeout, Calls, tables, Types
<1> QED BY <1>1, <1>2, <1>3, <1>4, <1>5, <1>6, <1>7, <1>8, <1>9, <1>10, <1>11, <1>12,
           <1>13 DEF CallStep

\* A failure that keepAliveLoop counts.
LEMMA PingFailedTypes ==
    ASSUME Types, NEW k \in Conns, PingFailed(k)
    PROVE  /\ sock' \in Conns \cup {NoSock} /\ link' \in [Conns -> Link]
           /\ waiters' \subseteq Channels /\ chan' \in [Channels -> Content]
           /\ loop' \in [Conns -> Loop]
<1>1. Asleep(0) \in Loop /\ (loop[k].fails + 1 < MaxFails => Asleep(loop[k].fails + 1) \in Loop)
  BY BoundsAssumption DEF Types, Asleep, Loop
<1>2. CASE loop[k].fails + 1 < MaxFails /\ loop' = [loop EXCEPT ![k] = Asleep(@.fails + 1)]
           /\ UNCHANGED <<sock, link, tables>>
  BY <1>1, <1>2 DEF Types, tables
<1>3. CASE /\ sock # NoSock /\ unlockedDisconnect /\ sock' = NoSock
           /\ loop' = [Woken(sock) EXCEPT ![k] = Asleep(0)]
  <2>1. sock \in Conns /\ "gone" \in Ends
    BY <1>3 DEF Types, Ends
  <2> QED BY <1>1, <1>3, <2>1, LinkTypes, TableTypes DEF unlockedDisconnect
<1>4. CASE loop' = [loop EXCEPT ![k] = Asleep(0)] /\ UNCHANGED <<sock, link, tables>>
  BY <1>1, <1>4 DEF Types, tables
<1> QED BY <1>2, <1>3, <1>4 DEF PingFailed

\* The steps of keepAliveLoop.
LEMMA LoopTypes ==
    ASSUME Types, NEW k \in Conns, LoopStep(k)
    PROVE  Types'
<1>0. Asleep(0) \in Loop
  BY BoundsAssumption DEF Asleep, Loop
<1>1. Forgotten(k) \in [Channels -> Content]
  BY DEF Types, Forgotten, Content
<1>2. CASE Ping(k)
  <2> PICK p \in Pings : /\ waitResponse(<<p, 1>>) /\ wire' = Written(sock, <<p, 1>>)
                         /\ loop' = [loop EXCEPT ![k].pc = "wait", ![k].ping = p]
    BY <1>2 DEF Ping
  <2>1. <<p, 1>> \in Channels
    BY DEF Channels
  <2>2. wire' \in [Conns -> SUBSET Channels]
    BY <2>1 DEF Types, Written
  <2>3. loop' \in [Conns -> Loop]
    BY DEF Types, Loop
  <2> QED BY <1>2, <2>1, <2>2, <2>3, TableTypes DEF Ping, Types
<1>3. CASE PingAnswered(k)
  BY <1>0, <1>1, <1>3 DEF PingAnswered, Types
<1>4. CASE PingFails(k) \/ PingTimeout(k)
  BY <1>4, PingFailedTypes DEF PingFails, PingTimeout, Types
<1>5. CASE PingAbandoned(k)
  <2>1. waiters' \subseteq Channels /\ chan' \in [Channels -> Content]
    BY <1>5 DEF PingAbandoned, cancelResponse, Others, Types, Content
  <2> QED BY <1>0, <1>5, <2>1 DEF PingAbandoned, Types
<1>6. CASE LoopEnds(k)
  BY <1>0, <1>1, <1>6 DEF LoopEnds, Types
<1> QED BY <1>2, <1>3, <1>4, <1>5, <1>6 DEF LoopStep

\* Every step keeps the types.
LEMMA StepTypes == Types /\ [Next]_vars => Types'
<1> SUFFICES ASSUME Types, [Next]_vars PROVE Types'
  OBVIOUS
<1>1. UNCHANGED vars => Types'
  BY DEF vars, Types
<1> QED BY <1>1, RequestTypes, ReaderTypes, LoopTypes, NetworkTypes DEF Next, Requests

\* Every variable keeps its type, whatever breaks and whoever gives up; in
\* particular, keepAliveLoop never counts more than the failures it allows.
THEOREM WaitersTypeCorrect == Spec => []TypeOK
<1>1. Types => TypeOK
  BY TypesDef
<1> QED BY <1>1, InitTypes, StepTypes, PTL DEF Spec

-----------------------------------------------------------------------------
(* No open connection is forgotten *)

\* A connection whose callback is on its way is closed, and connections that were
\* not dialled have neither.
LinkInv ==
    /\ NoOrphanConnection
    /\ \A k \in Conns : link[k].callback => ~link[k].open
    /\ \A k \in Conns : k > conns => ~link[k].open /\ ~link[k].callback

\* Disconnect and the keepalive loop close the current connection, the only open one.
LEMMA StopKeepsLinks ==
    ASSUME Types, LinkInv, sock # NoSock, link' = Stopped(sock), sock' = NoSock, conns' = conns
    PROVE  LinkInv'
<1>1. sock \in Conns
  BY DEF Types
<1>2. \A k \in Conns : ~link'[k].open /\ (link'[k].callback => link[k].callback)
  BY <1>1 DEF Types, Link, LinkInv, NoOrphanConnection, Stopped
<1> QED BY <1>2 DEF LinkInv, NoOrphanConnection

\* Every step keeps LinkInv.
LEMMA StepLinks == Types /\ LinkInv /\ [Next]_vars => LinkInv'
<1> SUFFICES ASSUME Types, LinkInv, [Next]_vars PROVE LinkInv'
  OBVIOUS
<1>1. CASE UNCHANGED <<sock, conns, link>>
  BY <1>1 DEF LinkInv, NoOrphanConnection
<1>2. CASE Disconnect
  BY <1>2, StopKeepsLinks DEF Disconnect, unlockedDisconnect
<1>3. CASE Connect
  <2>1. conns + 1 \in Conns /\ conns' = conns + 1 /\ sock' = conns + 1
    BY <1>3, BoundsAssumption DEF Connect, Types, Conns
  <2>2. \A k \in Conns : ~link[k].open
    BY <1>3 DEF Connect, IsConnected, LinkInv, NoOrphanConnection, NoSock, Conns
  <2>3. /\ \A k \in Conns : k # conns + 1 =>
               ~link'[k].open /\ (link'[k].callback => link[k].callback)
        /\ link'[conns + 1].callback = link[conns + 1].callback
    BY <1>3, <2>1, <2>2, SMTT(30) DEF Connect, Types, Link, Stopped
  <2>4. ~link[conns + 1].callback
    BY <2>1 DEF LinkInv, Types
  <2> QED BY <2>1, <2>2, <2>3, <2>4 DEF LinkInv, NoOrphanConnection, Types, Conns
<1>4. ASSUME NEW k \in Conns, Drop(k) PROVE LinkInv'
  BY <1>4 DEF Drop, Types, Link, LinkInv, NoOrphanConnection
<1>5. ASSUME NEW k \in Conns, OnDisconnect(k) PROVE LinkInv'
  BY <1>5 DEF OnDisconnect, Types, Link, LinkInv, NoOrphanConnection
<1>6. ASSUME NEW k \in Conns, Mute(k) PROVE LinkInv'
  BY <1>6 DEF Mute, Types, Link, LinkInv, NoOrphanConnection
<1>7. ASSUME NEW k \in Conns, PingFails(k) \/ PingTimeout(k) PROVE LinkInv'
  BY <1>1, <1>7, StopKeepsLinks DEF PingFails, PingTimeout, PingFailed, unlockedDisconnect
<1>8. ASSUME NEW r \in Requests, Start(r) \/ CallStep(r) \/ SendAbandoned(r) \/ RetryTimeout(r)
      PROVE LinkInv'
  BY <1>1, <1>8 DEF Start, CallStep, SendAbandoned, RetryTimeout, SendNode, SendNodeFails,
     Receive, Timeout, RetryStart, RetryGiveUp, RetryRegister, Resend, ResendFails,
     RetryReceive, Calls
<1>9. ASSUME NEW k \in Conns, ReaderStep(k) \/ StreamError(k) \/ Ping(k) \/ PingAnswered(k)
                              \/ PingAbandoned(k) \/ LoopEnds(k)
      PROVE LinkInv'
  BY <1>1, <1>9 DEF ReaderStep, Lookup, Deliver, ReaderExit, StreamError, Ping,
     PingAnswered, PingAbandoned, LoopEnds
<1>10. CASE handleStreamError
  BY <1>1, <1>10 DEF handleStreamError
<1>11. CASE UNCHANGED vars
  BY <1>1, <1>11 DEF vars
<1> QED BY <1>2, <1>3, <1>4, <1>5, <1>6, <1>7, <1>8, <1>9, <1>10, <1>11
        DEF Next, LoopStep, Requests

\* No connection has been dialled at first ...
LEMMA InitLinks == Init => LinkInv
BY DEF Init, LinkInv, NoOrphanConnection, NewLink

\* However disconnects, late callbacks, keepalive loops of older connections and
\* dials interleave, an open connection is the current one.
THEOREM NoConnectionForgotten == Spec => []NoOrphanConnection
<1>1. LinkInv => NoOrphanConnection
  BY DEF LinkInv
<1> QED BY <1>1, InitLinks, InitTypes, StepTypes, StepLinks, PTL DEF Spec

-----------------------------------------------------------------------------
(* A channel somebody may send into has room *)

BeforeResend == {"idle", "sending", "waiting", "retry", "captured"}

NotInUse(c) == c \notin waiters /\ \A k \in Conns : reader[k] # c

\* A channel that a reader has taken out of the table is not in it, and no other
\* reader has it.
HeldOnce ==
    \A k \in Conns : reader[k] # Idle =>
        reader[k] \notin waiters /\ \A j \in Conns : reader[j] = reader[k] => j = k

\* Nobody knows a channel before it is made.
FreshChannels ==
    \A r \in Requests : /\ req[r].pc = "idle" => NotInUse(<<r, 1>>)
                        /\ req[r].pc \in BeforeResend => NotInUse(<<r, 2>>)

TableInv == WaiterHasRoom /\ HeldOnce /\ FreshChannels

\* Calls go forward.
Forward ==
    \A r \in Requests : /\ req'[r].pc = "idle" => req[r].pc = "idle"
                        /\ req'[r].pc \in BeforeResend => req[r].pc \in BeforeResend

\* A step that registers nothing and gives nothing to a reader.
LEMMA NothingNew ==
    ASSUME Types, TableInv, Forward, reader' = reader, waiters' \subseteq waiters,
           \A c \in Channels : \/ chan'[c] \in {chan[c], "empty"}
                               \/ c \notin waiters' /\ (chan'[c] = "closed" \/ c \in waiters)
    PROVE  TableInv'
<1>1. WaiterHasRoom'
  BY DEF Types, TableInv, WaiterHasRoom, HeldOnce
<1>2. HeldOnce'
  BY DEF TableInv, HeldOnce
<1>3. FreshChannels'
  BY DEF TableInv, FreshChannels, NotInUse, Forward
<1> QED BY <1>1, <1>2, <1>3 DEF TableInv

\* A new channel is registered.
LEMMA Registered ==
    ASSUME Types, TableInv, Forward, reader' = reader, NEW c \in Channels,
           waitResponse(c), \A k \in Conns : reader[k] # c,
           \A r \in Requests : /\ req'[r].pc = "idle" => c # <<r, 1>>
                               /\ req'[r].pc \in BeforeResend => c # <<r, 2>>
    PROVE  TableInv'
<1>1. waiters' \subseteq waiters \cup {c}
  BY DEF waitResponse, Others
<1>2. chan'[c] = "empty" /\ \A d \in Channels : d # c => chan'[d] = chan[d]
  BY DEF waitResponse, Types
<1>3. WaiterHasRoom'
  BY <1>1, <1>2 DEF Types, TableInv, WaiterHasRoom
<1>4. HeldOnce'
  BY <1>1 DEF TableInv, HeldOnce
<1>5. FreshChannels'
  BY <1>1 DEF TableInv, FreshChannels, NotInUse, Forward
<1> QED BY <1>3, <1>4, <1>5 DEF TableInv

\* Canceling a waiter and clearing the table register nothing.
LEMMA TableShrinks ==
    ASSUME Types
    PROVE  /\ \A c \in Channels : cancelResponse(c) =>
                 /\ waiters' \subseteq waiters /\ c \notin waiters' /\ chan'[c] = "closed"
                 /\ \A d \in Channels : d # c => chan'[d] = chan[d]
           /\ \A node \in Ends : clearResponseWaiters(node) =>
                 /\ waiters' = {}
                 /\ \A d \in Channels : d \notin waiters => chan'[d] = chan[d]
BY DEF Types, cancelResponse, clearResponseWaiters, Others

\* The steps that leave the channels' owners as they are: clearing the table ...
LEMMA ClearKeepsTable ==
    ASSUME Types, TableInv, NEW node \in Ends, clearResponseWaiters(node),
           reader' = reader, req' = req
    PROVE  TableInv'
<1>1. Forward
  BY DEF Forward
<1> QED BY <1>1, TableShrinks, NothingNew

\* ... and changing nothing in it.
LEMMA SameTable ==
    ASSUME Types, TableInv, Forward, reader' = reader, waiters' = waiters,
           \A c \in Channels : chan'[c] \in {chan[c], "empty"}
    PROVE  TableInv'
BY NothingNew

\* The steps of a call: it registers, cancels or empties only channels of its own.
LEMMA CallKeepsTable ==
    ASSUME Types, TableInv, NEW r \in Requests,
           Start(r) \/ CallStep(r) \/ SendAbandoned(r) \/ RetryTimeout(r)
    PROVE  TableInv'
<1>0. <<r, 1>> \in Channels /\ <<r, 2>> \in Channels
  BY DEF Channels
<1>1. reader' = reader
  BY DEF Start, CallStep, SendAbandoned, RetryTimeout, SendNode, SendNodeFails,
     Receive, Timeout, RetryStart, RetryGiveUp, RetryRegister, Resend, ResendFails,
     RetryReceive, Calls
<1>2. ASSUME \/ req' = [req EXCEPT ![r].pc = "sending"] /\ req[r].pc = "idle"
             \/ req' = [req EXCEPT ![r].pc = "retry"] /\ req[r].pc = "waiting"
             \/ req' = [req EXCEPT ![r].pc = "waiting", ![r].on = sock] /\ req[r].pc = "sending"
             \/ req' = [req EXCEPT ![r].pc = "captured", ![r].on = sock] /\ req[r].pc = "retry"
             \/ req' = [req EXCEPT ![r].pc = "resending"]
             \/ req' = [req EXCEPT ![r].pc = "rewaiting"]
             \/ \E o \in {"ok", "failed", "timeout", "cancelled"} : Finish(r, o) \/ Leave(r, o)
      PROVE  Forward
  BY <1>2 DEF Forward, Types, Request, BeforeResend, Finish, Leave
<1>3. ASSUME Forward, waiters' = waiters,
             \/ chan' = chan
             \/ \E c \in Channels : chan' = [chan EXCEPT ![c] = "empty"]
      PROVE  TableInv'
  BY <1>1, <1>3, SameTable DEF Types
<1>4. ASSUME Forward, cancelResponse(<<r, 1>>) \/ cancelResponse(<<r, 2>>)
      PROVE  TableInv'
  BY <1>0, <1>1, <1>4, TableShrinks, NothingNew
<1>5. CASE Start(r)
  <2>1. Forward /\ req'[r].pc = "sending"
    BY <1>2, <1>5 DEF Start, Types, Request
  <2>2. \A k \in Conns : reader[k] # <<r, 1>>
    BY <1>5 DEF Start, TableInv, FreshChannels, NotInUse
  <2> QED BY <1>0, <1>1, <1>5, <2>1, <2>2, Registered DEF Start
<1>6. CASE SendNode(r)
  BY <1>2, <1>3, <1>6 DEF SendNode, tables
<1>7. CASE SendNodeFails(r)
  BY <1>2, <1>4, <1>7 DEF SendNodeFails
<1>8. CASE Receive(r)
  BY <1>0, <1>2, <1>3, <1>8 DEF Receive
<1>9. CASE Timeout(r)
  BY <1>2, <1>3, <1>4, <1>9 DEF Timeout, tables
<1>10. CASE SendAbandoned(r)
  BY <1>2, <1>4, <1>10 DEF SendAbandoned
<1>11. CASE RetryStart(r) \/ RetryGiveUp(r) \/ Resend(r) \/ RetryTimeout(r)
  BY <1>2, <1>3, <1>11 DEF RetryStart, RetryGiveUp, Resend, RetryTimeout, tables
<1>12. CASE RetryRegister(r)
  <2>1. Forward /\ req'[r].pc = "resending"
    BY <1>2, <1>12 DEF RetryRegister, Types, Request
  <2>2. \A k \in Conns : reader[k] # <<r, 2>>
    BY <1>12 DEF RetryRegister, TableInv, FreshChannels, NotInUse, BeforeResend
  <2> QED BY <1>0, <1>1, <1>12, <2>1, <2>2, Registered DEF RetryRegister, BeforeResend
<1>13. CASE ResendFails(r)
  BY <1>2, <1>4, <1>13 DEF ResendFails
<1>14. CASE RetryReceive(r)
  BY <1>0, <1>2, <1>3, <1>14 DEF RetryReceive
<1> QED BY <1>5, <1>6, <1>7, <1>8, <1>9, <1>10, <1>11, <1>12, <1>13, <1>14 DEF CallStep

\* The reader takes a channel out of the table before it sends into it.
LEMMA ReaderKeepsTable ==
    ASSUME Types, TableInv, NEW k \in Conns, ReaderStep(k)
    PROVE  TableInv'
<1>0. req' = req /\ \A r \in Requests : req'[r].pc = req[r].pc
  BY DEF ReaderStep, Lookup, Deliver, ReaderExit
<1>1. Forward
  BY <1>0 DEF Forward
<1>2. ASSUME NEW f \in Channels, Lookup(k, f) PROVE TableInv'
  <2>1. CASE UNCHANGED <<reader, waiters>>
    BY <1>1, <1>2, <2>1, SameTable DEF Lookup
  <2>2. ASSUME NEW w \in waiters, reader' = [reader EXCEPT ![k] = w], waiters' = waiters \ {w}
        PROVE  TableInv'
    <3>1. chan' = chan
      BY <1>2 DEF Lookup
    <3>2. reader'[k] = w /\ \A j \in Conns : j # k => reader'[j] = reader[j]
      BY <2>2 DEF Types
    <3>3. WaiterHasRoom'
      BY <2>2, <3>1, <3>2 DEF TableInv, WaiterHasRoom
    <3>4. HeldOnce'
      BY <2>2, <3>2 DEF TableInv, HeldOnce
    <3>5. FreshChannels'
      <4>1. ASSUME NEW c, NotInUse(c) PROVE NotInUse(c)'
        BY <2>2, <3>2, <4>1 DEF NotInUse
      <4> QED BY <1>0, <4>1 DEF TableInv, FreshChannels
    <3> QED BY <3>3, <3>4, <3>5 DEF TableInv
  <2> QED BY <1>2, <2>1, <2>2 DEF Lookup
<1>3. CASE Deliver(k)
  <2>1. CASE UNCHANGED <<chan, reader>>
    BY <1>1, <1>3, <2>1, SameTable DEF Deliver
  <2>2. CASE /\ chan' = [chan EXCEPT ![reader[k]] = "answer"]
             /\ reader' = [reader EXCEPT ![k] = Idle]
    <3>1. reader[k] # Idle /\ reader[k] \in Channels /\ waiters' = waiters
      BY <1>3 DEF Deliver, Types
    <3>2. reader'[k] = Idle /\ \A j \in Conns : j # k => reader'[j] = reader[j]
      BY <2>2 DEF Types
    <3>3. \A c \in Channels : c # reader[k] => chan'[c] = chan[c]
      BY <2>2 DEF Types
    <3>4. WaiterHasRoom'
      BY <3>1, <3>2, <3>3 DEF TableInv, WaiterHasRoom, HeldOnce, Types
    <3>5. HeldOnce'
      BY <3>1, <3>2 DEF TableInv, HeldOnce
    <3>6. \A c \in Channels : c # Idle
      BY DEF Channels, Idle
    <3>7. FreshChannels'
      BY <1>0, <3>1, <3>2, <3>6 DEF TableInv, FreshChannels, NotInUse, Channels
    <3> QED BY <3>4, <3>5, <3>7 DEF TableInv
  <2> QED BY <1>3, <2>1, <2>2 DEF Deliver
<1>4. CASE ReaderExit(k)
  BY <1>1, <1>4, SameTable DEF ReaderExit, tables
<1> QED BY <1>2, <1>3, <1>4 DEF ReaderStep

\* Pings use ids that no reader holds any more.
LEMMA LoopKeepsTable ==
    ASSUME Types, TableInv, NEW k \in Conns, LoopStep(k)
    PROVE  TableInv'
<1>0. req' = req /\ reader' = reader /\ "gone" \in Ends
  BY DEF LoopStep, Ping, PingFails, PingTimeout, PingAnswered, PingAbandoned, LoopEnds, Ends
<1>1. Forward
  BY <1>0 DEF Forward
<1>2. CASE Ping(k)
  <2> PICK p \in Pings : Unused(p) /\ waitResponse(<<p, 1>>)
    BY <1>2 DEF Ping
  <2>1. <<p, 1>> \in Channels /\ \A j \in Conns : reader[j] # <<p, 1>>
    BY DEF Channels, Unused
  <2>2. \A r \in Requests : <<p, 1>> # <<r, 1>> /\ <<p, 1>> # <<r, 2>>
    BY IdsAssumption DEF Requests
  <2> QED BY <1>0, <1>1, <2>1, <2>2, Registered
<1>3. CASE PingAnswered(k) \/ LoopEnds(k)
  <2>1. waiters' = waiters /\ chan' = Forgotten(k)
    BY <1>3 DEF PingAnswered, LoopEnds
  <2>2. \A c \in Channels : chan'[c] \in {chan[c], "empty"}
    BY <2>1 DEF Forgotten, Types
  <2> QED BY <1>0, <1>1, <2>1, <2>2, SameTable
<1>4. CASE PingFails(k) \/ PingTimeout(k)
  BY <1>0, <1>1, <1>4, SameTable, ClearKeepsTable
     DEF PingFails, PingTimeout, PingFailed, unlockedDisconnect, tables
<1>5. CASE PingAbandoned(k)
  <2>1. PICK c : c = <<loop[k].ping, 1>> /\ cancelResponse(c)
    BY <1>5 DEF PingAbandoned
  <2>2. /\ waiters' \subseteq waiters
        /\ \A d \in Channels : chan'[d] = chan[d] \/ (d = c /\ chan'[d] = "closed")
    BY <2>1 DEF cancelResponse, Others, Types
  <2>3. c \notin waiters'
    BY <2>1 DEF cancelResponse, Others
  <2> QED BY <1>0, <1>1, <2>2, <2>3, NothingNew
<1> QED BY <1>2, <1>3, <1>4, <1>5 DEF LoopStep

\* Every step keeps TableInv.
LEMMA StepTable == Types /\ TableInv /\ [Next]_vars => TableInv'
<1> SUFFICES ASSUME Types, TableInv, [Next]_vars PROVE TableInv'
  OBVIOUS
<1>0. "gone" \in Ends /\ (req' = req => Forward)
  BY DEF Ends, Forward
<1>1. ASSUME NEW k \in Conns, Drop(k) \/ OnDisconnect(k) \/ Mute(k) \/ StreamError(k)
      PROVE  TableInv'
  BY <1>0, <1>1, SameTable, ClearKeepsTable DEF Drop, OnDisconnect, Mute, StreamError, tables
<1>2. CASE handleStreamError \/ Connect \/ Disconnect
  BY <1>0, <1>2, SameTable, ClearKeepsTable
     DEF handleStreamError, Connect, Disconnect, unlockedDisconnect, tables
<1>3. CASE UNCHANGED vars
  BY <1>0, <1>3, SameTable DEF vars
<1> QED BY <1>1, <1>2, <1>3, CallKeepsTable, ReaderKeepsTable, LoopKeepsTable
        DEF Next, Requests

\* ... the table is empty ...
LEMMA InitTable == Init => TableInv
BY DEF Init, TableInv, WaiterHasRoom, HeldOnce, FreshChannels, NotInUse, Idle

\* However readers, timeouts, stream errors, disconnects and resends race, a channel
\* in the table has room, and so has the one a reader is about to send into, unless
\* its owner has closed it: clearResponseWaiters never closes a channel.
THEOREM WaitersHaveRoom == Spec => []WaiterHasRoom
<1>1. TableInv => WaiterHasRoom
  BY DEF TableInv
<1> QED BY <1>1, InitTable, InitTypes, StepTypes, StepTable, PTL DEF Spec

-----------------------------------------------------------------------------
(* A waiter that was left behind goes with its connection *)

HasWaiter(r) == <<r, 1>> \in waiters \/ <<r, 2>> \in waiters
Sent == {"waiting", "rewaiting", "done"}

\* A waiter whose frame was sent belongs to the current connection, and the first
\* channel of a call is out of the table when the frame is to be sent again.
LeakOf(r) ==
    /\ HasWaiter(r) /\ req[r].pc \in Sent => req[r].on = sock /\ sock # NoSock
    /\ <<r, 1>> \in waiters => req[r].pc \in {"sending", "waiting", "done"}
    /\ req[r].pc \in {"captured", "resending"} => req[r].on # NoSock
LeakInv == \A r \in Requests : LeakOf(r)

\* LeakInv says what LeakEndsWithConnection says.
LEMMA LeakImplies ==
    ASSUME Types, LeakInv
    PROVE  LeakEndsWithConnection
<1> SUFFICES ASSUME NEW w \in waiters, w[1] \in Requests, req[w[1]].pc = "done"
             PROVE  req[w[1]].on = sock
  BY DEF LeakEndsWithConnection
<1>1. w = <<w[1], 1>> \/ w = <<w[1], 2>>
  BY IdsAssumption DEF Types, Channels, Requests
<1> QED BY <1>1 DEF LeakInv, LeakOf, HasWaiter, Sent

\* A step of the others: no channel of a call is registered, and the connection
\* changes only with an empty table or when there was none.
LEMMA LeakKept ==
    ASSUME LeakInv, req' = req, sock' = sock \/ sock = NoSock \/ waiters' = {},
           \A r \in Requests, n \in {1, 2} : <<r, n>> \in waiters' => <<r, n>> \in waiters
    PROVE  LeakInv'
BY DEF LeakInv, LeakOf, HasWaiter

\* A step of one call: only what it does to its own waiters matters.
LEMMA CallLeak ==
    ASSUME Types, TableInv, LinkInv, LeakInv, NEW r \in Requests,
           Start(r) \/ CallStep(r) \/ SendAbandoned(r) \/ RetryTimeout(r)
    PROVE  LeakInv'
<1> USE DEF LeakOf, HasWaiter, Sent
<1>0. <<r, 1>> \in Channels /\ <<r, 2>> \in Channels /\ LeakOf(r) /\ req[r] \in Request
  BY DEF Channels, LeakInv, Types
<1>1. sock' = sock
  BY DEF Start, CallStep, SendAbandoned, RetryTimeout, SendNode, SendNodeFails,
     Receive, Timeout, RetryStart, RetryGiveUp, RetryRegister, Resend, ResendFails,
     RetryReceive, Calls
<1>2. ASSUME NEW n \in {1, 2}, cancelResponse(<<r, n>>)
      PROVE  /\ ~HasWaiter(r)'
             /\ \A t \in Requests, i \in {1, 2} : <<t, i>> \in waiters' => <<t, i>> \in waiters
  BY <1>2 DEF cancelResponse, Others
<1>3. ASSUME NEW n \in {1, 2}, waitResponse(<<r, n>>)
      PROVE  /\ \A i \in {1, 2} : <<r, i>> \in waiters' => i = n
             /\ \A t \in Requests, i \in {1, 2} : t # r =>
                    (<<t, i>> \in waiters' => <<t, i>> \in waiters)
  BY <1>3 DEF waitResponse, Others
<1>4. ASSUME NEW o, Finish(r, o) \/ Leave(r, o)
      PROVE  /\ req'[r].pc = "done" /\ (Leave(r, o) => req'[r].on = req[r].on)
             /\ \A t \in Requests : t # r => req'[t] = req[t]
  BY <1>4 DEF Finish, Leave, Types, Request
<1>5. ASSUME NEW pc, req' = [req EXCEPT ![r].pc = pc]
      PROVE  /\ req'[r].pc = pc /\ req'[r].on = req[r].on
             /\ \A t \in Requests : t # r => req'[t] = req[t]
  BY <1>5 DEF Types, Request
<1>6. ASSUME NEW pc, req' = [req EXCEPT ![r].pc = pc, ![r].on = sock]
      PROVE  /\ req'[r].pc = pc /\ req'[r].on = sock
             /\ \A t \in Requests : t # r => req'[t] = req[t]
  BY <1>6 DEF Types, Request
<1>7. ASSUME LeakOf(r)', \A t \in Requests : t # r => req'[t] = req[t],
             \A t \in Requests, i \in {1, 2} : t # r =>
                 (<<t, i>> \in waiters' => <<t, i>> \in waiters)
      PROVE  LeakInv'
  BY <1>1, <1>7 DEF LeakInv
<1>8. ASSUME NEW n \in {1, 2}, NEW o, cancelResponse(<<r, n>>), Finish(r, o) PROVE LeakInv'
  BY <1>2, <1>4, <1>7, <1>8
<1>9. ASSUME NEW o, ~HasWaiter(r), waiters' = waiters,
             Finish(r, o) \/ req' = [req EXCEPT ![r].pc = "retry"]
      PROVE  LeakInv'
  BY <1>4, <1>5, <1>7, <1>9
<1>10. ASSUME NEW o, waiters' = waiters, Leave(r, o), req[r].pc \in {"waiting", "rewaiting"}
       PROVE  LeakInv'
  BY <1>0, <1>1, <1>4, <1>7, <1>10
<1>11. CASE Start(r)
  BY <1>3, <1>5, <1>7, <1>11 DEF Start
<1>12. CASE SendNode(r)
  BY <1>0, <1>1, <1>6, <1>7, <1>12 DEF SendNode, IsConnected, tables
<1>13. CASE SendNodeFails(r)
  BY <1>8, <1>13 DEF SendNodeFails
<1>14. CASE Receive(r)
  <2>1. <<r, 1>> \notin waiters /\ <<r, 2>> \notin waiters
    BY <1>14 DEF Receive, TableInv, WaiterHasRoom, FreshChannels, NotInUse, BeforeResend
  <2> QED BY <1>9, <1>14, <2>1 DEF Receive
<1>15. CASE Timeout(r)
  BY <1>8, <1>10, <1>15 DEF Timeout, tables
<1>16. CASE SendAbandoned(r)
  BY <1>8, <1>16 DEF SendAbandoned
<1>17. CASE RetryStart(r)
  <2>1. req' = [req EXCEPT ![r].pc = "captured", ![r].on = sock] /\ waiters' = waiters
        /\ sock # NoSock /\ req[r].pc = "retry"
    BY <1>17 DEF RetryStart, IsConnected, tables
  <2>2. req'[r].pc = "captured" /\ req'[r].on = sock
        /\ \A t \in Requests : t # r => req'[t] = req[t]
    BY <1>6, <2>1
  <2>3. LeakOf(r)'
    BY <1>0, <2>1, <2>2
  <2> QED BY <1>7, <2>1, <2>2, <2>3
<1>18. CASE RetryGiveUp(r)
  <2>1. <<r, 1>> \notin waiters /\ <<r, 2>> \notin waiters
    BY <1>0, <1>18 DEF RetryGiveUp, TableInv, FreshChannels, NotInUse, BeforeResend
  <2> QED BY <1>9, <1>18, <2>1 DEF RetryGiveUp, tables
<1>19. CASE RetryRegister(r)
  BY <1>0, <1>3, <1>5, <1>7, <1>19 DEF RetryRegister
<1>20. CASE Resend(r)
  <2>1. req[r].on = sock /\ sock # NoSock
    BY <1>0, <1>20 DEF Resend, LinkInv, NoOrphanConnection, Request
  <2> QED BY <1>0, <1>1, <1>5, <1>7, <1>20, <2>1 DEF Resend, tables
<1>21. CASE ResendFails(r)
  BY <1>8, <1>21 DEF ResendFails
<1>22. CASE RetryReceive(r)
  <2>1. <<r, 1>> \notin waiters /\ <<r, 2>> \notin waiters
    BY <1>0, <1>22 DEF RetryReceive, TableInv, WaiterHasRoom, Ends
  <2> QED BY <1>9, <1>22, <2>1 DEF RetryReceive
<1>23. CASE RetryTimeout(r)
  BY <1>10, <1>23 DEF RetryTimeout, tables
<1> QED BY <1>11, <1>12, <1>13, <1>14, <1>15, <1>16, <1>17, <1>18, <1>19, <1>20, <1>21,
           <1>22, <1>23 DEF CallStep

\* The steps of readers and keepalive loops.
LEMMA OtherLeak ==
    ASSUME Types, LeakInv, NEW k \in Conns, ReaderStep(k) \/ LoopStep(k)
    PROVE  LeakInv'
<1>1. req' = req
  BY DEF ReaderStep, Lookup, Deliver, ReaderExit, LoopStep, Ping, PingFails, PingTimeout,
     PingAnswered, PingAbandoned, LoopEnds
<1>2. ASSUME sock' = sock, waiters' \subseteq waiters PROVE LeakInv'
  BY <1>1, <1>2, LeakKept
<1>3. CASE ReaderStep(k)
  BY <1>2, <1>3 DEF ReaderStep, Lookup, Deliver, ReaderExit, tables
<1>4. CASE Ping(k)
  <2> PICK x \in Pings : waitResponse(<<x, 1>>)
    BY <1>4 DEF Ping
  <2>1. \A r \in Requests : r # x
    BY IdsAssumption DEF Requests
  <2>2. \A r \in Requests, n \in {1, 2} : <<r, n>> \in waiters' => <<r, n>> \in waiters
    BY <2>1 DEF waitResponse, Others
  <2> QED BY <1>1, <1>4, <2>2, LeakKept DEF Ping
<1>5. CASE PingAnswered(k) \/ LoopEnds(k)
  BY <1>2, <1>5 DEF PingAnswered, LoopEnds
<1>6. CASE PingFails(k) \/ PingTimeout(k)
  <2>1. CASE waiters' = {}
    BY <1>1, <2>1, LeakKept
  <2>2. CASE sock' = sock /\ waiters' = waiters
    BY <1>2, <2>2
  <2> QED BY <1>6, <2>1, <2>2 DEF PingFails, PingTimeout, PingFailed, unlockedDisconnect,
          clearResponseWaiters, tables
<1>7. CASE PingAbandoned(k)
  BY <1>2, <1>7 DEF PingAbandoned, cancelResponse, Others
<1> QED BY <1>3, <1>4, <1>5, <1>6, <1>7 DEF LoopStep

\* Every step keeps LeakInv.
LEMMA StepLeak == Types /\ TableInv /\ LinkInv /\ LeakInv /\ [Next]_vars => LeakInv'
<1> SUFFICES ASSUME Types, TableInv, LinkInv, LeakInv, [Next]_vars PROVE LeakInv'
  OBVIOUS
<1>1. ASSUME req' = req, sock' = sock \/ sock = NoSock, waiters' = waiters PROVE LeakInv'
  BY <1>1, LeakKept
<1>2. ASSUME req' = req, waiters' = {} PROVE LeakInv'
  BY <1>2, LeakKept
<1>3. ASSUME NEW k \in Conns, Drop(k) \/ OnDisconnect(k) \/ Mute(k) \/ StreamError(k)
      PROVE  LeakInv'
  BY <1>1, <1>2, <1>3 DEF Drop, OnDisconnect, Mute, StreamError, clearResponseWaiters, tables
<1>4. CASE handleStreamError \/ Connect \/ Disconnect
  BY <1>1, <1>2, <1>4 DEF handleStreamError, Connect, Disconnect, unlockedDisconnect,
     clearResponseWaiters, tables
<1>5. CASE UNCHANGED vars
  BY <1>1, <1>5 DEF vars
<1> QED BY <1>3, <1>4, <1>5, CallLeak, OtherLeak DEF Next, Requests

\* ... and no call has begun.
LEMMA InitLeak == Init => LeakInv
BY DEF Init, LeakInv, LeakOf, HasWaiter, Sent

\* Whatever calls, pings and connections do, a waiter that a call has left in the table
\* belongs to the current connection: the table does not grow from one connection to
\* the next.
THEOREM LeaksEnd == Spec => []LeakEndsWithConnection
BY InitTable, InitLinks, InitLeak, InitTypes, StepTypes, StepTable, StepLinks, StepLeak,
   LeakImplies, PTL DEF Spec

-----------------------------------------------------------------------------
(* Who may close a channel under a reader *)

\* The connections that have to do with a ping: their loop waits for it, its frame is on
\* their wire, or their reader has its channel.
Carries(k, x) ==
    \/ loop[k].pc = "wait" /\ loop[k].ping = x
    \/ <<x, 1>> \in wire[k] \/ reader[k] = <<x, 1>>

\* A ping stays with the connection whose loop sent it, and a connection that was not
\* dialled carries nothing.
PingInv ==
    /\ \A k \in Conns : loop[k].pc = "wait" => loop[k].ping \in Pings
    /\ \A x \in Pings : \A j, k \in Conns : Carries(j, x) /\ Carries(k, x) => j = k
    /\ \A k \in Conns : k > conns => wire[k] = {} /\ reader[k] = Idle

\* No frame of a call is under way before its first write is done.
Unsent(r) == \A k \in Conns, n \in {1, 2} : <<r, n>> \notin wire[k] /\ reader[k] # <<r, n>>
UnsentInv == \A r \in Requests : req[r].pc \in {"idle", "sending"} => Unsent(r)

\* A call that has closed its channel although an answer may be under way.
GaveUp(r, n) ==
    /\ req[r].pc = "done"
    /\ \/ req[r].out = "cancelled"
       \/ r \in Msgs /\ n = 1 /\ req[r].out = "timeout"
       \/ n = 2 /\ req[r].out = "failed"

\* A channel that is closed while a reader has it was closed by its owner, who gave up.
ClosedInv ==
    /\ \A k \in Conns, r \in Requests, n \in {1, 2} :
           reader[k] = <<r, n>> /\ chan[<<r, n>>] = "closed" => GaveUp(r, n)
    /\ \A k \in Conns, x \in Pings :
           reader[k] = <<x, 1>> /\ chan[<<x, 1>>] = "closed" => ~link[k].open

PanicInv == PingInv /\ UnsentInv /\ ClosedInv

\* What a channel looks like.
LEMMA ChannelForm ==
    ASSUME NEW c \in Channels
    PROVE  \/ \E r \in Requests, n \in {1, 2} : c = <<r, n>> /\ r \notin Pings
           \/ \E x \in Pings : c = <<x, 1>> /\ x \notin Requests
<1>1. CASE c \in Requests \X {1, 2}
  BY <1>1, IdsAssumption DEF Requests
<1>2. CASE c \in Pings \X {1}
  BY <1>2, IdsAssumption DEF Requests
<1> QED BY <1>1, <1>2 DEF Channels

\* PanicInv says what PanicNeedsGivingUp says.
LEMMA PanicImplies ==
    ASSUME Types, PanicInv
    PROVE  PanicNeedsGivingUp
<1> SUFFICES ASSUME NEW k \in Conns, NEW c, c = reader[k], c # Idle, chan[c] = "closed"
             PROVE  \/ c[1] \in Pings /\ ~link[k].open
                    \/ c[1] \in Requests /\ req[c[1]].out = "cancelled"
                    \/ c[1] \in Msgs /\ c[2] = 1 /\ req[c[1]].out = "timeout"
                    \/ c[1] \in Requests /\ c[2] = 2 /\ req[c[1]].out = "failed"
  BY DEF PanicNeedsGivingUp
<1>1. c \in Channels
  BY DEF Types
<1>2. ASSUME NEW x \in Pings, c = <<x, 1>> PROVE c[1] \in Pings /\ ~link[k].open
  <2>1. reader[k] = <<x, 1>> /\ chan[<<x, 1>>] = "closed"
    BY <1>2
  <2>2. ~link[k].open
    BY <2>1 DEF PanicInv, ClosedInv
  <2> QED BY <1>2, <2>2
<1>3. ASSUME NEW r \in Requests, NEW n \in {1, 2}, c = <<r, n>>
      PROVE  c[1] = r /\ c[2] = n /\ GaveUp(r, n)
  <2>1. reader[k] = <<r, n>> /\ chan[<<r, n>>] = "closed"
    BY <1>3
  <2>2. GaveUp(r, n)
    BY <2>1 DEF PanicInv, ClosedInv
  <2> QED BY <1>3, <2>2
<1> QED BY <1>1, <1>2, <1>3, ChannelForm DEF GaveUp

\* A step after which no ping is carried by a connection that did not carry it.
LEMMA PingKept ==
    ASSUME PingInv,
           \A k \in Conns : loop'[k].pc = "wait" => loop'[k].ping \in Pings,
           \A k \in Conns, x \in Pings : Carries(k, x)' => Carries(k, x),
           \A k \in Conns : k > conns' => wire'[k] = {} /\ reader'[k] = Idle
    PROVE  PingInv'
BY DEF PingInv

\* In particular one that puts nothing on a wire or in the hands of a reader and after
\* which no other loop waits.
LEMMA PingSame ==
    ASSUME Types, PingInv, conns' = conns \/ conns' = conns + 1,
           \A k \in Conns : wire'[k] \subseteq wire[k] /\ reader'[k] \in {reader[k], Idle},
           \A k \in Conns : loop'[k].pc = "wait" => loop'[k] = loop[k]
    PROVE  PingInv'
<1>1. \A k \in Conns, x \in Pings : Carries(k, x)' => Carries(k, x)
  BY DEF Carries, Idle
<1>2. \A k \in Conns : k > conns' => k > conns
  BY BoundsAssumption DEF Types, Conns
<1>3. \A k \in Conns : k > conns' => wire'[k] = {} /\ reader'[k] = Idle
  BY <1>2 DEF PingInv
<1>4. \A k \in Conns : loop'[k].pc = "wait" => loop'[k].ping \in Pings
  BY DEF PingInv
<1> QED BY <1>1, <1>3, <1>4, PingKept

\* A step that puts nothing new on a wire or in the hands of a reader.
LEMMA UnsentSame ==
    ASSUME UnsentInv,
           \A k \in Conns : wire'[k] \subseteq wire[k] /\ reader'[k] \in {reader[k], Idle},
           \A r \in Requests : req'[r].pc \in {"idle", "sending"} => req[r].pc \in {"idle", "sending"}
    PROVE  UnsentInv'
<1>1. ASSUME NEW r \in Requests, Unsent(r) PROVE Unsent(r)'
  BY <1>1 DEF Unsent, Idle
<1> QED BY <1>1 DEF UnsentInv

\* The call that has closed a channel under a reader.
LEMMA CallGaveUp ==
    ASSUME ClosedInv, NEW k \in Conns, NEW r \in Requests, NEW n \in {1, 2},
           reader[k] = <<r, n>>, chan[<<r, n>>] = "closed"
    PROVE  GaveUp(r, n)
BY DEF ClosedInv

\* A step that gives no channel to a reader, closes none that a reader has, and opens no
\* connection with one: the calls that have ended stay as they are.
LEMMA ClosedSame ==
    ASSUME ClosedInv,
           \A k \in Conns : reader'[k] \in {reader[k], Idle},
           \A k \in Conns, c \in Channels : reader[k] = c /\ chan'[c] = "closed" => chan[c] = "closed",
           \A r \in Requests : req[r].pc = "done" => req'[r] = req[r],
           \A k \in Conns : reader[k] # Idle /\ link'[k].open => link[k].open
    PROVE  ClosedInv'
<1>1. ASSUME NEW k \in Conns, NEW r \in Requests, NEW n \in {1, 2},
             reader'[k] = <<r, n>>, chan'[<<r, n>>] = "closed"
      PROVE  GaveUp(r, n)'
  <2>1. <<r, n>> \in Channels /\ reader[k] = <<r, n>>
    BY <1>1 DEF Channels, Idle
  <2>2. chan[<<r, n>>] = "closed"
    BY <1>1, <2>1
  <2>3. GaveUp(r, n)
    BY <2>1, <2>2, CallGaveUp
  <2>4. req'[r] = req[r]
    BY <2>3 DEF GaveUp
  <2> QED BY <2>3, <2>4 DEF GaveUp
<1>2. ASSUME NEW k \in Conns, NEW x \in Pings,
             reader'[k] = <<x, 1>>, chan'[<<x, 1>>] = "closed"
      PROVE  ~link'[k].open
  <2>1. <<x, 1>> \in Channels /\ reader[k] = <<x, 1>> /\ reader[k] # Idle
    BY <1>2 DEF Channels, Idle
  <2> QED BY <1>2, <2>1 DEF ClosedInv
<1> QED BY <1>1, <1>2 DEF ClosedInv

\* The frame of a call goes onto an open connection.
LEMMA FrameWritten ==
    ASSUME Types, LinkInv, PingInv, UnsentInv, NEW r \in Requests, NEW n \in {1, 2}, NEW k \in Conns,
           link[k].open, wire' = Written(k, <<r, n>>), UNCHANGED <<loop, reader, conns>>,
           req'[r].pc \notin {"idle", "sending"}, \A t \in Requests : t # r => req'[t] = req[t]
    PROVE  PingInv' /\ UnsentInv'
<1>1. \A j \in Conns : /\ wire'[j] \subseteq wire[j] \cup {<<r, n>>}
                       /\ j # k => wire'[j] = wire[j]
  BY DEF Written, Types
<1>2. \A x \in Pings : x # r
  BY IdsAssumption DEF Requests
<1>3. \A j \in Conns, x \in Pings : Carries(j, x)' => Carries(j, x)
  BY <1>1, <1>2 DEF Carries
<1>4. \A j \in Conns : j > conns' => wire'[j] = {} /\ reader'[j] = Idle
  BY <1>1 DEF PingInv, LinkInv
<1>5. \A j \in Conns : loop'[j].pc = "wait" => loop'[j].ping \in Pings
  BY DEF PingInv
<1>6. PingInv'
  BY <1>3, <1>4, <1>5, PingKept
<1>7. ASSUME NEW t \in Requests, t # r, Unsent(t) PROVE Unsent(t)'
  BY <1>1, <1>7 DEF Unsent
<1> QED BY <1>6, <1>7 DEF UnsentInv

\* A call that ends closes its channel.
LEMMA ChannelClosed ==
    ASSUME Types, ClosedInv, NEW r \in Requests, NEW n \in {1, 2}, cancelResponse(<<r, n>>),
           UNCHANGED <<reader, link>>, req[r].pc # "done",
           \A t \in Requests : t # r => req'[t] = req[t],
           GaveUp(r, n)' \/ \A k \in Conns : reader[k] # <<r, n>>
    PROVE  ClosedInv'
<1>1. <<r, n>> \in Channels /\ \A x \in Pings : x # r
  BY IdsAssumption DEF Channels, Requests
<1>2. \A c \in Channels : c # <<r, n>> => chan'[c] = chan[c]
  BY DEF cancelResponse, Types
<1>3. ASSUME NEW k \in Conns, NEW t \in Requests, NEW i \in {1, 2},
             reader'[k] = <<t, i>>, chan'[<<t, i>>] = "closed"
      PROVE  GaveUp(t, i)'
  <2>1. CASE t = r /\ i = n
    BY <1>3, <2>1
  <2>2. CASE ~(t = r /\ i = n)
    <3>1. <<t, i>> \in Channels /\ <<t, i>> # <<r, n>>
      BY <2>2 DEF Channels
    <3>2. chan[<<t, i>>] = "closed" /\ reader[k] = <<t, i>>
      BY <1>2, <1>3, <3>1
    <3>3. GaveUp(t, i)
      BY <3>2 DEF ClosedInv
    <3>4. req'[t] = req[t]
      BY <3>3 DEF GaveUp
    <3> QED BY <3>3, <3>4 DEF GaveUp
  <2> QED BY <2>1, <2>2
<1>4. ASSUME NEW k \in Conns, NEW x \in Pings,
             reader'[k] = <<x, 1>>, chan'[<<x, 1>>] = "closed"
      PROVE  ~link'[k].open
  <2>1. <<x, 1>> \in Channels /\ <<x, 1>> # <<r, n>>
    BY <1>1 DEF Channels
  <2>2. chan[<<x, 1>>] = "closed" /\ reader[k] = <<x, 1>>
    BY <1>2, <1>4, <2>1
  <2> QED BY <2>2 DEF ClosedInv
<1> QED BY <1>3, <1>4 DEF ClosedInv

\* The steps of a call.
LEMMA CallPanic ==
    ASSUME Types, LinkInv, LeakInv, PanicInv, NEW r \in Requests,
           Start(r) \/ CallStep(r) \/ SendAbandoned(r) \/ RetryTimeout(r)
    PROVE  PanicInv'
<1>0. <<r, 1>> \in Channels /\ <<r, 2>> \in Channels /\ req[r] \in Request
  BY DEF Channels, Types
<1>1. UNCHANGED <<sock, conns, link, reader, loop>>
  BY DEF Start, CallStep, SendAbandoned, RetryTimeout, SendNode, SendNodeFails,
     Receive, Timeout, RetryStart, RetryGiveUp, RetryRegister, Resend, ResendFails,
     RetryReceive, Calls
<1>2. /\ \A t \in Requests : t # r => req'[t] = req[t]
      /\ req[r].pc # "done" /\ req'[r].pc # "idle"
      /\ req'[r].pc = "sending" => req[r].pc = "idle"
  BY DEF Start, CallStep, SendAbandoned, RetryTimeout, SendNode, SendNodeFails,
     Receive, Timeout, RetryStart, RetryGiveUp, RetryRegister, Resend, ResendFails,
     RetryReceive, Finish, Leave, Types, Request
<1>3. \A t \in Requests : /\ req'[t].pc \in {"idle", "sending"} => req[t].pc \in {"idle", "sending"}
                          /\ req[t].pc = "done" => req'[t] = req[t]
  BY <1>2
<1>4. ASSUME wire' = wire PROVE PingInv' /\ UnsentInv'
  BY <1>1, <1>3, <1>4, PingSame, UnsentSame DEF PanicInv
<1>5. ASSUME \/ chan' = chan
             \/ \E c \in Channels : chan' = [chan EXCEPT ![c] = "empty"]
      PROVE  ClosedInv'
  <2>1. \A c \in Channels : chan'[c] = "closed" => chan[c] = "closed"
    BY <1>5 DEF Types
  <2> QED BY <1>1, <1>3, <2>1, ClosedSame DEF PanicInv
<1>6. ASSUME NEW o, Finish(r, o) PROVE req'[r].pc = "done" /\ req'[r].out = o
  BY <1>6 DEF Finish, Types, Request
<1>7. ASSUME NEW n \in {1, 2}, cancelResponse(<<r, n>>),
             GaveUp(r, n)' \/ \A k \in Conns : reader[k] # <<r, n>>
      PROVE  ClosedInv'
  BY <1>1, <1>2, <1>7, ChannelClosed DEF PanicInv
<1>8. CASE Start(r) \/ RetryRegister(r)
  BY <1>0, <1>4, <1>5, <1>8 DEF Start, RetryRegister, waitResponse, PanicInv
<1>9. CASE SendNode(r)
  <2>1. sock \in Conns /\ link[sock].open /\ wire' = Written(sock, <<r, 1>>)
        /\ req'[r].pc = "waiting"
    BY <1>9 DEF SendNode, IsConnected, Types, Request
  <2>2. PingInv' /\ UnsentInv'
    BY <1>1, <1>2, <2>1, FrameWritten DEF PanicInv
  <2> QED BY <1>5, <1>9, <2>2 DEF SendNode, tables, PanicInv
<1>10. CASE SendNodeFails(r)
  <2>1. \A k \in Conns : reader[k] # <<r, 1>>
    BY <1>10 DEF SendNodeFails, PanicInv, UnsentInv, Unsent
  <2> QED BY <1>4, <1>7, <1>10, <2>1 DEF SendNodeFails, PanicInv
<1>11. CASE Receive(r) \/ RetryReceive(r)
  BY <1>0, <1>4, <1>5, <1>11 DEF Receive, RetryReceive, PanicInv
<1>12. CASE Timeout(r)
  <2>1. CASE r \in Msgs /\ Finish(r, "timeout") /\ cancelResponse(<<r, 1>>)
    BY <1>4, <1>6, <1>7, <1>12, <2>1 DEF Timeout, PanicInv, GaveUp
  <2>2. CASE UNCHANGED tables
    BY <1>4, <1>5, <1>12, <2>2 DEF Timeout, tables, PanicInv
  <2> QED BY <1>12, <2>1, <2>2 DEF Timeout
<1>13. CASE SendAbandoned(r)
  <2>1. GaveUp(r, 1)' /\ GaveUp(r, 2)'
    BY <1>6, <1>13 DEF SendAbandoned, GaveUp
  <2> QED BY <1>4, <1>7, <1>13, <2>1 DEF SendAbandoned, PanicInv
<1>14. CASE RetryStart(r) \/ RetryGiveUp(r) \/ RetryTimeout(r)
  BY <1>4, <1>5, <1>14 DEF RetryStart, RetryGiveUp, RetryTimeout, tables, PanicInv
<1>15. CASE Resend(r)
  <2>1. req[r].on \in Conns /\ link[req[r].on].open /\ wire' = Written(req[r].on, <<r, 2>>)
        /\ req'[r].pc = "rewaiting"
    BY <1>15 DEF Resend, LeakInv, LeakOf, Types, Request
  <2>2. PingInv' /\ UnsentInv'
    BY <1>1, <1>2, <2>1, FrameWritten DEF PanicInv
  <2> QED BY <1>5, <1>15, <2>2 DEF Resend, tables, PanicInv
<1>16. CASE ResendFails(r)
  <2>1. GaveUp(r, 2)'
    BY <1>6, <1>16 DEF ResendFails, GaveUp
  <2> QED BY <1>4, <1>7, <1>16, <2>1 DEF ResendFails, PanicInv
<1> QED BY <1>8, <1>9, <1>10, <1>11, <1>12, <1>13, <1>14, <1>15, <1>16 DEF CallStep

\* The reader takes a channel for which it has a frame, and whose owner still waits.
LEMMA ReaderPanic ==
    ASSUME Types, TableInv, PanicInv, NEW k \in Conns, ReaderStep(k)
    PROVE  PanicInv'
<1>0. UNCHANGED <<req, loop, link, conns>>
  BY DEF ReaderStep, Lookup, Deliver, ReaderExit
<1>1. ASSUME NEW f \in Channels, Lookup(k, f) PROVE PanicInv'
  <2>0. chan' = chan /\ wire'[k] = wire[k] \ {f} /\ \A j \in Conns : j # k => wire'[j] = wire[j]
    BY <1>1 DEF Lookup, Types
  <2>1. CASE reader' = reader
    BY <1>0, <2>0, <2>1, PingSame, UnsentSame, ClosedSame DEF PanicInv
  <2>2. ASSUME NEW w \in waiters, w[1] = f[1], reader' = [reader EXCEPT ![k] = w]
        PROVE  PanicInv'
    <3>1. reader'[k] = w /\ \A j \in Conns : j # k => reader'[j] = reader[j]
      BY <2>2 DEF Types
    <3>2. w \in Channels /\ chan[w] = "empty" /\ f \in wire[k] /\ w # Idle
      BY <1>1 DEF Types, TableInv, WaiterHasRoom, Lookup, Channels, Idle
    <3>3. ASSUME NEW x \in Pings, w = <<x, 1>> PROVE Carries(k, x)
      <4>1. f[1] = x
        BY <2>2, <3>3
      <4>2. f = <<x, 1>>
        BY <4>1, ChannelForm
      <4> QED BY <3>2, <4>2 DEF Carries
    <3>4. \A j \in Conns, x \in Pings : Carries(j, x)' => Carries(j, x)
      BY <1>0, <2>0, <3>1, <3>3 DEF Carries
    <3>5. k <= conns
      BY <3>2, BoundsAssumption DEF PanicInv, PingInv, Types, Conns
    <3>6. PingInv'
      <4>1. \A j \in Conns : j > conns' => j # k
        BY <1>0, <3>5, BoundsAssumption DEF Types, Conns
      <4>2. \A j \in Conns : j > conns' => wire'[j] = {} /\ reader'[j] = Idle
        BY <1>0, <2>0, <3>1, <4>1 DEF PanicInv, PingInv
      <4>3. \A j \in Conns : loop'[j].pc = "wait" => loop'[j].ping \in Pings
        BY <1>0 DEF PanicInv, PingInv
      <4> QED BY <3>4, <4>2, <4>3, PingKept DEF PanicInv
    <3>7. ASSUME NEW r \in Requests, NEW n \in {1, 2}, w = <<r, n>> PROVE ~Unsent(r)
      <4>1. f[1] = r
        BY <2>2, <3>7
      <4>2. f = <<r, 1>> \/ f = <<r, 2>>
        BY <4>1, ChannelForm
      <4> QED BY <3>2, <4>2 DEF Unsent
    <3>8. UnsentInv'
      <4>1. ASSUME NEW r \in Requests, Unsent(r) PROVE Unsent(r)'
        BY <2>0, <3>1, <3>7, <4>1 DEF Unsent
      <4> QED BY <1>0, <4>1 DEF PanicInv, UnsentInv
    <3>9. ClosedInv'
      <4>1. ASSUME NEW j \in Conns, NEW c \in Channels, reader'[j] = c, chan'[c] = "closed"
            PROVE  reader[j] = c /\ chan[c] = "closed"
        BY <2>0, <3>1, <3>2, <4>1
      <4>2. ASSUME NEW j \in Conns, NEW r \in Requests, NEW n \in {1, 2},
                   reader'[j] = <<r, n>>, chan'[<<r, n>>] = "closed"
            PROVE  GaveUp(r, n)'
        <5>1. reader[j] = <<r, n>> /\ chan[<<r, n>>] = "closed"
          BY <4>1, <4>2 DEF Channels
        <5>2. GaveUp(r, n)
          BY <5>1 DEF PanicInv, ClosedInv
        <5> QED BY <1>0, <5>2 DEF GaveUp
      <4>3. ASSUME NEW j \in Conns, NEW x \in Pings,
                   reader'[j] = <<x, 1>>, chan'[<<x, 1>>] = "closed"
            PROVE  ~link'[j].open
        <5>1. reader[j] = <<x, 1>> /\ chan[<<x, 1>>] = "closed"
          BY <4>1, <4>3 DEF Channels
        <5> QED BY <1>0, <5>1 DEF PanicInv, ClosedInv
      <4> QED BY <4>2, <4>3 DEF ClosedInv
    <3> QED BY <3>6, <3>8, <3>9 DEF PanicInv
  <2> QED BY <1>1, <2>1, <2>2 DEF Lookup
<1>2. CASE Deliver(k)
  <2>1. /\ wire' = wire /\ \A j \in Conns : reader'[j] \in {reader[j], Idle}
        /\ \A c \in Channels : chan'[c] = "closed" => chan[c] = "closed"
    BY <1>2 DEF Deliver, Types
  <2> QED BY <1>0, <2>1, PingSame, UnsentSame, ClosedSame DEF PanicInv
<1>3. CASE ReaderExit(k)
  <2>1. /\ reader' = reader /\ chan' = chan
        /\ \A j \in Conns : wire'[j] \subseteq wire[j]
    BY <1>3 DEF ReaderExit, tables, Types
  <2> QED BY <1>0, <2>1, PingSame, UnsentSame, ClosedSame DEF PanicInv
<1> QED BY <1>1, <1>2, <1>3 DEF ReaderStep

\* Clearing the table closes no channel that a reader has: it is out of the table.
LEMMA ClearCloses ==
    ASSUME Types, TableInv, NEW node \in Ends, clearResponseWaiters(node)
    PROVE  \A k \in Conns, c \in Channels :
               reader[k] = c /\ chan'[c] = "closed" => chan[c] = "closed"
<1> SUFFICES ASSUME NEW k \in Conns, NEW c \in Channels, reader[k] = c, chan'[c] = "closed"
             PROVE  chan[c] = "closed"
  OBVIOUS
<1>1. c # Idle
  BY DEF Channels, Idle
<1>2. c \notin waiters
  BY <1>1 DEF TableInv, HeldOnce
<1> QED BY <1>2, TableShrinks

\* The steps of a keepalive loop: a ping that is given up closes its channel only after
\* its connection, the only one whose reader can have it.
LEMMA LoopPanic ==
    ASSUME Types, LinkInv, TableInv, PanicInv, NEW k \in Conns, LoopStep(k)
    PROVE  PanicInv'
<1>0. UNCHANGED <<req, reader, conns>> /\ "gone" \in Ends
  BY DEF LoopStep, Ping, PingFails, PingTimeout, PingAnswered, PingAbandoned, LoopEnds, Ends
<1>1. CASE Ping(k)
  <2> PICK x \in Pings : /\ Unused(x) /\ waitResponse(<<x, 1>>) /\ wire' = Written(sock, <<x, 1>>)
                         /\ loop' = [loop EXCEPT ![k].pc = "wait", ![k].ping = x]
    BY <1>1 DEF Ping
  <2>1. link[k].open /\ sock = k /\ link' = link /\ k <= conns
    BY <1>1, BoundsAssumption DEF Ping, LinkInv, NoOrphanConnection, Types, Conns
  <2>2. /\ wire'[k] \subseteq wire[k] \cup {<<x, 1>>}
        /\ \A j \in Conns : j # k => wire'[j] = wire[j]
    BY <2>1 DEF Written, Types
  <2>3. /\ loop'[k].ping = x /\ \A j \in Conns : j # k => loop'[j] = loop[j]
    BY DEF Types, Loop
  <2>4. \A j \in Conns : ~Carries(j, x)
    BY DEF Unused, Carries
  <2>5. PingInv'
    <3>1. \A j \in Conns, y \in Pings : Carries(j, y)' => (j = k /\ y = x) \/ (y # x /\ Carries(j, y))
      <4>1. ASSUME NEW j \in Conns, NEW y \in Pings, j # k, Carries(j, y)' PROVE y # x /\ Carries(j, y)
        BY <1>0, <2>2, <2>3, <2>4, <4>1 DEF Carries
      <4>2. ASSUME NEW y \in Pings, y # x, Carries(k, y)' PROVE Carries(k, y)
        BY <1>0, <2>2, <2>3, <4>2 DEF Carries
      <4> QED BY <4>1, <4>2
    <3>2. \A j \in Conns : loop'[j].pc = "wait" => loop'[j].ping \in Pings
      BY <2>3 DEF PanicInv, PingInv
    <3>3. \A j \in Conns : j > conns' => j # k
      BY <1>0, <2>1, BoundsAssumption DEF Types, Conns
    <3>4. \A j \in Conns : j > conns' => wire'[j] = {} /\ reader'[j] = Idle
      BY <1>0, <2>2, <3>3 DEF PanicInv, PingInv
    <3>5. \A y \in Pings : \A i, j \in Conns : Carries(i, y)' /\ Carries(j, y)' => i = j
      BY <3>1 DEF PanicInv, PingInv
    <3> QED BY <3>2, <3>4, <3>5 DEF PingInv
  <2>6. UnsentInv'
    <3>1. \A r \in Requests : r # x
      BY IdsAssumption DEF Requests
    <3>2. ASSUME NEW r \in Requests, Unsent(r) PROVE Unsent(r)'
      BY <1>0, <2>2, <3>1, <3>2 DEF Unsent
    <3> QED BY <1>0, <3>2 DEF PanicInv, UnsentInv
  <2>7. \A c \in Channels : chan'[c] = "closed" => chan[c] = "closed"
    BY DEF waitResponse, Types
  <2>8. ClosedInv'
    BY <1>0, <2>1, <2>7, ClosedSame DEF PanicInv
  <2> QED BY <2>5, <2>6, <2>8 DEF PanicInv
<1>2. ASSUME wire' = wire, \A j \in Conns : loop'[j].pc = "wait" => loop'[j] = loop[j]
      PROVE  PingInv' /\ UnsentInv'
  BY <1>0, <1>2, PingSame, UnsentSame DEF PanicInv
<1>3. \A j \in Conns : \A n :
          [loop EXCEPT ![k] = Asleep(n)][j].pc = "wait" =>
              [loop EXCEPT ![k] = Asleep(n)][j] = loop[j]
  BY DEF Types, Asleep
<1>4. CASE PingAnswered(k) \/ LoopEnds(k)
  <2>1. /\ wire' = wire /\ link' = link /\ loop' = [loop EXCEPT ![k] = Asleep(0)]
        /\ chan' = Forgotten(k)
    BY <1>4 DEF PingAnswered, LoopEnds
  <2>2. \A c \in Channels : chan'[c] = "closed" => chan[c] = "closed"
    BY <2>1 DEF Forgotten, Types
  <2>3. ClosedInv'
    BY <1>0, <2>1, <2>2, ClosedSame DEF PanicInv
  <2> QED BY <1>2, <1>3, <2>1, <2>3 DEF PanicInv
<1>5. CASE PingFails(k) \/ PingTimeout(k)
  <2>0. wire' = wire /\ PingFailed(k)
    BY <1>5 DEF PingFails, PingTimeout
  <2>1. CASE UNCHANGED <<sock, link, tables>> /\ \E n : loop' = [loop EXCEPT ![k] = Asleep(n)]
    <3>1. ClosedInv'
      BY <1>0, <2>1, ClosedSame DEF PanicInv, tables
    <3> QED BY <1>2, <1>3, <2>0, <2>1, <3>1 DEF PanicInv
  <2>2. CASE /\ sock # NoSock /\ unlockedDisconnect
             /\ loop' = [Woken(sock) EXCEPT ![k] = Asleep(0)]
    <3>1. sock \in Conns
      BY <2>2 DEF Types
    <3>2. \A j \in Conns : loop'[j].pc = "wait" => loop'[j] = loop[j]
      BY <2>2, <3>1 DEF Types, Woken, Asleep
    <3>3. \A j \in Conns : link'[j].open => link[j].open
      BY <2>2, <3>1 DEF unlockedDisconnect, Stopped, Types, Link
    <3>4. ClosedInv'
      BY <1>0, <2>2, <3>3, ClearCloses, ClosedSame DEF PanicInv, unlockedDisconnect
    <3> QED BY <1>2, <2>0, <3>2, <3>4 DEF PanicInv
  <2> QED BY <2>0, <2>1, <2>2 DEF PingFailed
<1>6. CASE PingAbandoned(k)
  <2> DEFINE x == loop[k].ping
  <2>1. /\ loop[k].pc = "wait" /\ ~link[k].open /\ cancelResponse(<<x, 1>>)
        /\ loop' = [loop EXCEPT ![k] = Asleep(0)] /\ wire' = wire /\ link' = link
    BY <1>6 DEF PingAbandoned
  <2>2. x \in Pings /\ Carries(k, x) /\ x \notin Requests
    BY <2>1, IdsAssumption DEF PanicInv, PingInv, Carries, Requests
  <2> HIDE DEF x
  <2>3. \A c \in Channels : c # <<x, 1>> => chan'[c] = chan[c]
    BY <2>1 DEF cancelResponse, Types
  <2>4. ASSUME NEW j \in Conns, NEW r \in Requests, NEW n \in {1, 2},
               reader'[j] = <<r, n>>, chan'[<<r, n>>] = "closed"
        PROVE  GaveUp(r, n)'
    <3>1. <<r, n>> \in Channels /\ <<r, n>> # <<x, 1>>
      BY <2>2 DEF Channels
    <3>2. reader[j] = <<r, n>> /\ chan[<<r, n>>] = "closed"
      BY <1>0, <2>3, <2>4, <3>1
    <3>3. GaveUp(r, n)
      BY <3>2 DEF PanicInv, ClosedInv
    <3> QED BY <1>0, <3>3 DEF GaveUp
  <2>5. ASSUME NEW j \in Conns, NEW y \in Pings,
               reader'[j] = <<y, 1>>, chan'[<<y, 1>>] = "closed"
        PROVE  ~link'[j].open
    <3>1. CASE y = x
      <4>1. Carries(j, x)
        BY <1>0, <2>5, <3>1 DEF Carries
      <4>2. j = k
        BY <2>2, <4>1 DEF PanicInv, PingInv
      <4> QED BY <2>1, <4>2
    <3>2. CASE y # x
      <4>1. <<y, 1>> \in Channels /\ <<y, 1>> # <<x, 1>>
        BY <3>2 DEF Channels
      <4>2. reader[j] = <<y, 1>> /\ chan[<<y, 1>>] = "closed"
        BY <1>0, <2>3, <2>5, <4>1
      <4> QED BY <2>1, <4>2 DEF PanicInv, ClosedInv
    <3> QED BY <3>1, <3>2
  <2>6. ClosedInv'
    BY <2>4, <2>5 DEF ClosedInv
  <2> QED BY <1>2, <1>3, <2>1, <2>6 DEF PanicInv
<1> QED BY <1>1, <1>4, <1>5, <1>6 DEF LoopStep

\* The steps of the network, of connects and of disconnects: only a connection that
\* was never used is opened.
LEMMA NetworkPanic ==
    ASSUME Types, TableInv, PanicInv,
           \/ \E k \in Conns : Drop(k) \/ OnDisconnect(k) \/ Mute(k) \/ StreamError(k)
           \/ handleStreamError \/ Connect \/ Disconnect \/ UNCHANGED vars
    PROVE  PanicInv'
<1>0. UNCHANGED <<req, reader>> /\ "gone" \in Ends /\ (conns' = conns \/ conns' = conns + 1)
  BY DEF Drop, OnDisconnect, Mute, StreamError, handleStreamError, Connect, Disconnect, vars, Ends
<1>1. \A k \in Conns : wire'[k] \subseteq wire[k]
  BY DEF Drop, OnDisconnect, Mute, StreamError, handleStreamError, Connect, Disconnect, vars,
     Types
<1>2. \A k \in Conns : loop'[k].pc = "wait" => loop'[k] = loop[k]
  <2>1. ASSUME NEW j \in Conns PROVE \A k \in Conns : Woken(j)[k].pc = "wait" => Woken(j)[k] = loop[k]
    BY DEF Woken, Asleep, Types
  <2>2. loop' = loop \/ \E j \in Conns : loop' = Woken(j)
    BY DEF Drop, OnDisconnect, Mute, StreamError, handleStreamError, Connect, Disconnect,
       vars, Types
  <2> QED BY <2>1, <2>2
<1>3. \A k \in Conns, c \in Channels : reader[k] = c /\ chan'[c] = "closed" => chan[c] = "closed"
  <2>1. CASE chan' = chan
    BY <2>1
  <2>2. CASE \E node \in Ends : clearResponseWaiters(node)
    BY <2>2, ClearCloses
  <2> QED BY <1>0, <2>1, <2>2 DEF Drop, OnDisconnect, Mute, StreamError, handleStreamError,
          Connect, Disconnect, unlockedDisconnect, tables, vars
<1>4. \A k \in Conns : reader[k] # Idle /\ link'[k].open => link[k].open
  <2>1. CASE Connect
    <3>1. conns + 1 \in Conns /\ conns + 1 > conns
      BY <2>1, BoundsAssumption DEF Connect, Types, Conns
    <3>2. reader[conns + 1] = Idle
      BY <3>1 DEF PanicInv, PingInv
    <3>3. ASSUME NEW k \in Conns, k # conns + 1 PROVE link'[k].open => link[k].open
      BY <2>1, <3>1, <3>3, SMTT(30) DEF Connect, Stopped, Types, Link
    <3> QED BY <3>2, <3>3
  <2>2. CASE Disconnect
    <3>1. sock \in Conns /\ link' = Stopped(sock)
      BY <2>2 DEF Disconnect, unlockedDisconnect, Types
    <3> QED BY <3>1 DEF Stopped, Types, Link
  <2>3. ASSUME NEW k \in Conns, Drop(k) \/ OnDisconnect(k) \/ Mute(k) \/ StreamError(k)
        PROVE  \A j \in Conns : link'[j].open => link[j].open
    BY <2>3 DEF Drop, OnDisconnect, Mute, StreamError, Types, Link
  <2> QED BY <2>1, <2>2, <2>3 DEF handleStreamError, vars
<1>5. PingInv'
  BY <1>0, <1>1, <1>2, PingSame DEF PanicInv
<1>6. UnsentInv' /\ ClosedInv'
  BY <1>0, <1>1, <1>3, <1>4, UnsentSame, ClosedSame DEF PanicInv
<1> QED BY <1>5, <1>6 DEF PanicInv

\* Every step keeps PanicInv.
LEMMA StepPanic ==
    Types /\ TableInv /\ LinkInv /\ LeakInv /\ PanicInv /\ [Next]_vars => PanicInv'
BY CallPanic, ReaderPanic, LoopPanic, NetworkPanic DEF Next, Requests

\* Nothing is under way at first.
LEMMA InitPanic == Init => PanicInv
<1> SUFFICES ASSUME Init PROVE PanicInv
  OBVIOUS
<1>1. \A k \in Conns : loop[k].pc = "sleep" /\ wire[k] = {} /\ reader[k] = Idle
  BY DEF Init, Asleep
<1>2. \A k \in Conns : \A x, n : <<x, n>> \notin wire[k] /\ reader[k] # <<x, n>>
  BY <1>1 DEF Idle
<1>3. PingInv
  BY <1>1, <1>2 DEF PingInv, Carries
<1>4. UnsentInv /\ ClosedInv
  BY <1>2 DEF UnsentInv, Unsent, ClosedInv
<1> QED BY <1>3, <1>4 DEF PanicInv

\* For any number of calls, pings and connections, the panic of receiveResponse on a
\* closed channel takes a call or a ping that gave up while an answer was under way;
\* no disconnect, stream error, failed first write or timeout of sendIQ leads to it.
THEOREM PanicOnlyAfterGivingUp == Spec => []PanicNeedsGivingUp
BY InitTable, InitLinks, InitLeak, InitTypes, StepTypes, StepTable, StepLinks, StepLeak, InitPanic,
   StepPanic, PanicImplies, PTL DEF Spec
=============================================================================
