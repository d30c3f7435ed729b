# Formal models of wa-go

TLA+ models of wa-go, the HTTP service that runs many WhatsApp accounts
("instances") on one host, and of the parts of the bundled whatsmeow library
that its correctness depends on. Every definition is translated from the Go
source; `PROJECT.json` ("map") names the lines of each.

Paths below are relative to the repository.

## 1. The system

### 1.1 Components

| Component | State it keeps | Operations |
|---|---|---|
| Manager, `app/whatsapp/manager.go` | `clients`, `jids`, `settings` per instance, one `sync.RWMutex` | GetOrCreate, create, SetSettings, Get, Remove, Disconnect, Kill, the event handler of every client |
| Instance service, `app/services/instance_service.go` | the row of an instance in the application database | Create, Connect, listenQR, PairPhone, Disconnect, Logout, Delete, Status, QRCode |
| SendWithRetry and EnsureConnected, `app/whatsapp/retry.go` | none: locals of the request | up to five attempts, disconnecting the instance in between; a single attempt |
| Message service, `app/services/message_service.go` | none | Send (fetch, upload, send), React, Edit, Revoke, MarkRead, ... |
| Event dispatcher, `app/whatsapp/dispatcher.go` | webhook targets and WebSocket channels per instance, a `sync.RWMutex` | Register, Unregister, SubscribeWs, UnsubscribeWs, Dispatch |
| WebSocket handler, `app/http/controllers/ws_controller.go` | its channel and connection | subscribe, range over the channel, unsubscribe |
| Webhook controller, `app/http/controllers/webhook_controller.go` | the webhooks table | Create, List, Get, Delete, Test |
| Service provider, `app/providers/whatsapp_service_provider.go` | none | builds the Manager, registers the targets of all rows at boot |
| Idempotency middleware, `app/http/middleware/idempotency.go` | responses per key, a mutex | look up and replay, store, evict, clean up |
| whatsmeow connection, `whatsmeow-lib/client.go`, `connectionevents.go`, `qrchan.go`, `pair.go`, `pair-code.go` | socket, `expectedDisconnect`, QR channels, device | Connect, Disconnect, autoReconnect, pairing, logout, stream errors |
| whatsmeow QR channel, `whatsmeow-lib/qrchan.go` | `closed`, `stopQRs`, a bounded channel of items | GetQRChannel, emitQRs, handleEvent |
| whatsmeow requests, `whatsmeow-lib/send.go`, `request.go`, `keepalive.go`, `socket/` | response waiters, the socket and its callbacks | sendIQ, SendMessage, retryFrame, receiveResponse, clearResponseWaiters, keepAliveLoop |
| whatsmeow handler queue, `whatsmeow-lib/client.go` | bounded queue, one loop per connection | handleFrame, handlerQueueLoop |
| Chat, group, label, contact, privacy, newsletter, call services | none | EnsureConnected, then one or two calls of the library |
| Authentication, validation, errors, responses, routes, configuration, models | none of their own | wiring and pure functions of one request |

### 1.2 How they interact

A request passes authentication, which reads the row of the instance, and calls
a service. The service gets a client from the Manager and uses it. Two databases
have to agree and are never updated together: the application's (the row, with
the JID of its device) and whatsmeow's device store. The pool in memory is a
third copy. A client works in goroutines of its own (reader, handler queue,
autoReconnect, QR channel) which take no lock of the service; the goroutine
`listenQR` lives on after the Connect request that started it.

Nodes that a client receives go through its handler queue to the Manager's event
handler, which may send an automatic reply, and from there to
`EventDispatcher.Dispatch`: into the channel of every WebSocket client, without
waiting, and to a goroutine per webhook.

### 1.3 What is hard

* Concurrency: requests on the same instance, the client's own goroutines and
  `listenQR` interleave at every access to the pool, to the row and to the
  store. A client is looked up, found connected and then used; `create()`
  replaces clients that others hold.
* Channels are closed by one goroutine and sent into by another: WebSocket
  channels, response waiters, the QR channel.
* Failure: connections break at any point, the process dies between two of
  three stores, an acknowledgement is lost after the message was delivered.
* Ordering: several handler loops share a queue, nodes are parked in goroutines,
  WebSocket buffers overflow.
* Waiting: `Kill` holds the Manager's lock over network calls, `Dispatch` holds
  a read lock, a resent frame is awaited without a timeout, an automatic reply
  is awaited inside the handler queue.

`PROJECT.json` ("hazards") lists these at their lines, with the properties that
cover them, or the reason why none does.

### 1.4 What makes each component correct

* Pool and instance service: the row names a device that is gone for known
  reasons only; connect requests bring a paired instance online whatever happened
  before;
  nobody waits for ever for the lock; a QR session leaves a definite status.
* Sending: nothing is sent again without a cause; every request is answered; how
  often a message may be delivered is bounded.
* Dispatcher: no send on a closed channel; a WebSocket client sees the events of
  its own instance, in order, and misses one only because its own buffer was
  full; `Dispatch` never waits for a consumer.
* Handler queue: no node is lost or handled twice; order is kept but for three
  exceptions; a handler that hangs does not stop the others.
* Requests to the server: every call returns, a waiter does not outlive its
  connection, no open connection is forgotten, a silent one is given up.
* QR channel: one goroutine ends it, its consumer returns, the row learns of a
  pairing.
* Webhooks: a webhook that was created gets its events, over restarts, unless the
  boot could not read the rows.
* Idempotency store: bounded, evicts the oldest, keeps a response for its time.

## 2. Modules

| Module | Models |
|---|---|
| `EventMatch` | `matchesEvent`, the filter of webhook events, as operators |
| `Dispatcher` | the event dispatcher with the WebSocket handlers that read from it |
| `Delivery` | abstract specification: what the dispatcher promises to a WebSocket client |
| `DispatcherDelivery` | the refinement mapping from `Dispatcher` to `Delivery` |
| `DispatcherProofs` | theorems about `Dispatcher` and its refinement of `Delivery` |
| `ClientLifecycle` | what each operation of whatsmeow does to the connection state of one client object; operators without variables |
| `InstancePool` | the Manager, the instance service, SendWithRetry, the clients (through `ClientLifecycle`), the server and the user, for one instance |
| `InstancePoolProofs` | theorems about `InstancePool` |
| `QRChannel` | one QR session: the channel, its emitter, the events, `listenQR` |
| `ResponseWaiters` | requests to the server and their answers, connections, keepalive |
| `SendRetry` | POST /messages down to whatsmeow's SendMessage |
| `QRChannelProofs`, `ResponseWaitersProofs`, `SendRetryProofs` | theorems about these three |
| `EventQueue` | whatsmeow's handler queue and the Manager's event handler |
| `EventQueueProofs` | theorems about `EventQueue` |
| `Webhooks` | webhook rows and dispatcher targets, with restarts |
| `WebhooksProofs` | theorem about `Webhooks` |
| `Idempotency` | the idempotency store and middleware |
| `IdempotencyProofs` | theorems about `Idempotency` |
| `MC*` | instances for TLC: model values, symmetry, views |

Operators named `Mutant of ...` in comments are wrong versions of the definition
that follows. They are not part of any specification; `PROJECT.json` ("mutants")
says which property finds each of them.

### 2.1 Dispatcher

One step per critical section under the write lock (`Register`, `Unregister`,
`SubscribeWs`, `UnsubscribeWs`), enabled while no goroutine holds the read lock.
`Dispatch` is split, because others run between its parts: the event is built
(`Dispatch`), the read lock is taken and the list of channels evaluated
(`RLock`), one non-blocking send per channel (`SendWs`), the webhook loop and
RUnlock (`SpawnHooks`). A WebSocket handler subscribes, takes an event
(`Range`), writes it (`WriteJSON`, `WriteJSONFails`) and unsubscribes when a
write has failed. The loop that reads from the connection (ws_controller.go:49)
only returns when the peer is gone, and so has no step. `got` and `begun` are
history variables for the properties. Webhook targets are a set of numbered
registrations, since the order of the goroutines they lead to is not determined.

`Delivery` has no locks and no loops: a session joins an instance and leaves it,
an event is published once to all members, and each of them puts it into its
bounded queue or, if that is full, misses it. Nobody leaves while it is owed an
event. In `DispatcherDelivery` a session is a member between SubscribeWs and
UnsubscribeWs, an event is published when its Dispatch has the read lock, and it
is owed to the sessions that the loop still has to visit.

### 2.2 ClientLifecycle and InstancePool

A client object is a record: the device (`jid`, the library's Store.ID), whether it
was deleted, the socket (`down`, `new` when connected to register a device, `up` when
connected to log in, `in` after the login), `expectedDisconnect`, the background
work under way, whether a phone pairing code was requested, and how far
`handlePair` is (`stage`, with the device it works on in `pairing`).
`autoReconnect` has two halves, `wait` (which a disconnect cancels) and `dial`
(which it does not).

`handlePair` (pair.go:173-215) is modelled call by call: `PairStart` sets Store.ID,
which Connect and `listenQR` may read from then on; `PairSave` saves the device;
`PairIdentity` stores the identity and calls `expectDisconnect`, so that the
disconnection that follows starts no autoReconnect; `PairSign` sends the
confirmation, with which the server has the device. Each of them may fail; after the
save, the failure deletes the device again. `PairFail` is what follows: Disconnect
and the PairError event.

A request goroutine has a program counter and its locals. A step is one access
to shared state: one critical section of `Manager.mu`, one network operation,
one statement on the row. In `create` and in `Kill` the lock is held over two
steps, because clients act between them; Disconnect looks the client up under the
lock and disconnects it outside. `listenQR` keeps the process of the
Connect request that started it. `Start` is the authentication: InstanceAuth
needs the row, AdminAuth (Delete) does not. The user scans codes, enters pairing
codes and removes devices on the phone; the server accepts or refuses logins,
ends streams that were replaced, asks for the reconnect after pairing, and ends
connections that nobody pairs (`Expire`).

`Clients` bounds the client objects that exist at the same time: a name is used
again once nothing refers to the object. Client names and JIDs are numbers.
Faults: `blip` (a lost connection or a failed dial), `unlink` (the device is
removed on the phone), `crash` (the process is started again), `pairError`,
`outdated` (connect failure 405), `sendError`. The history variable `cutShort`
keeps the devices whose Logout a crash stopped between Kill and the row, and those
that a refused login deleted while their pairing was still under way. The
requests in the constant `Alone` start only when no other is being served (QR
listeners still run, next to them and next to each other); the others start at any
time, in the middle of those too.

Left out: proxies, the text of QR codes, errors of the databases (a statement
that fails leaves the row as it was and is not repeated; those of `handlePair` are
in), `m.store == nil` (manager.go:93: the provider makes no Manager without a
store), Status and QRCode, which only read. Instances share only `Manager.mu`, so there is one.

### 2.3 SendRetry

The same retry loop seen from the message. Each attempt fetches media, uploads
it, sends and waits. A disconnection wakes the waiters; the frame is resent once
if the client is back in time, and then awaited without a limit. Errors are
names; `Words` gives the words of their text that `isDisconnectError` looks for,
so that the classification is the code's (a media URL that times out counts as a
lost connection). Clients are numbered in the order in which connect requests
dial them; one that SendWithRetry creates is never dialled and is `None`.
`Deliver`, `Acknowledge` and `Refuse` (the acknowledgement with an error,
send.go:446) are the server. A client's `messageSendLock` admits one sender at a
time (`Locked`). An upload goes over HTTP to a media host that may be cached, so it
succeeds or fails whether or not the client is connected, and its error text may
hold a word of `isDisconnectError` as well. `misread` remembers that an error of
fetching or uploading was taken for a lost connection. `InstancePool` has the
effects of the loop on the pool and the status, and the other requests that
disconnect; `SendRetry` does not need them.

### 2.4 EventQueue

Nodes are numbered in order of arrival. `handleFrame` puts a node into the queue
or parks it; every connection starts a loop, and an old loop may take another
node before it sees that its connection is gone (Go's `select` chooses). The
handler of a node reads the settings, may send a reply and wait for its answer,
and dispatches. `late` collects the nodes that others may overtake, for the
property `InOrder`. The last connection the bound allows is not dropped.

### 2.5 ResponseWaiters

Below `SendRetry` and `EventQueue`, which take it for granted that a request
gets its answer or learns that the connection is gone. A request registers a
channel of capacity one under its id, sends its frame on the current connection
and waits; `receiveResponse` takes the channel out of the table under the lock
(`Lookup`) and sends into it afterwards (`Deliver`). Between the two the request
may time out, the connection may be closed, which clears the table, and the
frame may be sent again with the same id and a new channel. A channel is
therefore `<<id, n>>`, and `chan` says what is in it or that it is closed. A
send into a closed one panics in the goroutine of the reader, which nothing
recovers: `crashed`.

A connection is open or not, may silently carry nothing (`mute`), and may have a
call of OnDisconnect on its way when another connection is in place already. Its
reader may still take frames after the end, since `select` chooses. The
keepalive loop of a connection pings on whichever socket is current and, after
failures for three minutes (`MaxFails` of them), disconnects whichever socket is
current. A queued stream error clears the waiters of whatever connection is
there when its handler runs. Reconnecting is one step, `Connect`; the encryption
and the text of nodes are data. The registration of a ping and its write are one
step, because nobody but the loop sees its channel.

### 2.6 QRChannel

`InstancePool` lets an event end the QR channel in one step. `QRChannel` has the
steps of qrchan.go between two accesses to shared state: the emitter looks at
`closed`, sends a code if there is room, waits for the timer or for `stopQRs`;
each event, in the goroutine that dispatches it, looks at `closed`, closes
`stopQRs`, swaps `closed`, sends the final item and closes the channel. Whoever
swaps first ends the session. A second close of `stopQRs` panics and is recovered
by `dispatchEvent`; a send of the emitter into the closed channel is not
(`crashed`). `listenQR` copies the items to the row. `Refused` stands for the
four events of a refused connection, which are alike to the channel and to
`listenQR`.

### 2.7 Webhooks and Idempotency

`Webhooks`: Create and Delete in their two or three steps, `Boot` after a crash
at any point. The provider swallows a query that fails and recovers from a panic
(whatsapp_service_provider.go:48-57, 68), so `Boot` either registers all rows or
none; `unloaded` holds the rows that such a boot left without a target. A row and
its target are told apart by the id of the row; unregistration works by URL, as in
the code.

`Idempotency`: the store as the middleware is written (no route uses it, see
section 6). What a response says is left out. Nothing in the repository calls
`StoreIdempotencyResult`; that a handler does so after its work is what the comment
at idempotency.go:61 says. Time is counted in cleanup periods, so entries may be
equally old; Go's map order decides between them.

## 3. Runs

| Run | Instance | What it shows |
|---|---|---|
| `dispatcher` | 2 instances, 2 sessions, 2 dispatching goroutines, buffers of 1, 2 events, 1 registration; 192k states | `TypeOK`, `NoSendOnClosed`, `StreamInOrder`, `StreamOfOneInstance`, `DispatchReturns`, `LeavingUnsubscribes`, `ImplementsDelivery` |
| `pool_all` | all requests and all faults (one fault per behaviour), one request at a time next to listeners, 2 client objects; 3.3M states | `TypeOK`, which includes who holds `m.mu`, and `RowPointsToDevice` |
| `pool_recovers` | repeated connect requests of two goroutines, one at a time next to the listener of the other, 1 fault among blip, crash, pairing error and outdated; 391k states | `OnlineHasSettings`, `ConnectRecovers` |
| `pool_live` | connect, and logout that overlaps with connect and with itself, listeners, 1 pairing error; 376k states | `RequestsReturn`, `QRSessionEnds` |
| `pool_blip` | connect and call, 1 blip | violates `ReconnectsAfterBlip` (section 6) |
| `send` | 2 senders, one with media, 3 attempts, 2 clients dialled, 2 blips; 1.2M states | `TypeOK`, `RetryHasCause`, `OncePerClient`, `SendReturns` |
| `send_twice` | 1 sender, 5 attempts, 1 blip | violates `NoDoubleDelivery` (section 6) |
| `idempotency_store` | 2 requests at a time, 3 keys, a store of 2, 5 times with a lifetime of 2; 9.8k states | `TypeOK`, `EvictedLast` |
| `webhooks_sync` | 2 goroutines, 3 webhooks, 2 URLs, 2 restarts; 59k states | `CreatedIsRegistered` |
| `event_queue` | 3 nodes, a queue of 1, 3 connections; 49k states | `TypeOK`, `NodeInOnePlace`, `InOrder`, `EventsDispatched` |
| `responses` | 1 sendIQ or SendMessage, 1 ping at a time, 2 connections, 2 failures of the keepalive, 1 stream error; 293k states | `TypeOK`, `WaiterHasRoom`, `PanicNeedsGivingUp`, `LeakEndsWithConnection`, `NoOrphanConnection`, `CallsReturn`, `DeadConnectionIsLeft` |
| `qr_channel` | 3 codes, a buffer of 2, six events; 317k states | `TypeOK`, `OneFinalItem`, `LateItems`, `ListenerEnds`, `PairingRecorded`, `StatusSettles` |

Why the bounds are enough to be of interest:

* A buffer of one is filled by the first event and overflows with the second; two
  dispatchers send into the same channel at the same time; two sessions are
  needed for one to remove the other from the list. What the proofs say of the
  dispatcher holds for all sizes.
* Two client objects are the one a listener holds and the one that replaces it.
  `RowPointsToDevice` is proved for any number.
* `Alone` in `pool_recovers`: connect requests that overlap at every step can keep
  replacing each other's client (section 6), so that without it `ConnectRecovers`
  does not hold; a request next to the listener of another one already meets
  everything `handlePair` leaves behind. In `pool_all` it keeps seven kinds of
  requests within reach, and in `pool_live` it keeps two connects apart, while a
  logout may take `m.mu` in the middle of a connect or of another logout. The
  proofs do without it.
* One call meets all the others that touch its waiter: pings, readers of two
  connections, a stream error. Two connections are the least for a resend and for
  a late callback; two failures tell counting from giving up. Calls share only
  the table, under different ids.
* Three codes in a buffer of two: the buffer overflows when `listenQR` is slow,
  and when it is not the emitter has a first, a middle and a last code.
* Three attempts are a first, a middle and a last one. Two dialled clients and
  two blips let a message be resent, given up on and sent again elsewhere.
* A queue of one is full with the second node and leaves the third to a
  goroutine; with three connections two old loops compete with the new one.
* A store of two with three keys evicts; five times with a lifetime of two make
  entries young, exactly at the cutoff, and expired, and let one outlive another.

All cfgs say CHECK_DEADLOCK FALSE: behaviours end when the bounds on events,
faults or nodes are used up, when the row is deleted or when all requests were
answered. That nobody hangs is what the liveness properties say. The symmetric
sets are interchangeable goroutines, sessions and ids, and only runs without
liveness properties use them. The view `LiveState` of `MCInstancePool` forgets
what is left in client objects that nothing refers to, which no action reads.

### 3.1 The properties

* `NoSendOnClosed`: no channel that a running Dispatch loop still has to visit
  is closed. The comment above the loop claims it of the read lock.
* `ImplementsDelivery`: a client that was subscribed when Dispatch took the lock
  gets the event once, unless its own buffer is full; nobody is unsubscribed
  while an event is on its way to it.
* `RowPointsToDevice`: with all faults. The four exceptions are a Logout between
  Kill and the deletion of the row; a crash at that point; a device that the server
  does not have, because it was removed on the phone or because Connect copied its
  JID while `handlePair` had not confirmed it; and one that was confirmed after
  another client had been refused with it, which deletes it (hazards at
  `instance_service.go:153`, `:102` and `:95`).
* `ConnectRecovers`: once the row names a device that the server has, connect
  requests one after the other bring the pool's client online, or the row goes away;
  with blips, crashes, pairing errors and refused versions. A row with a device that
  the server does not have stays as it is (section 6).
* `OnlineHasSettings`: the pool's client is never logged in before Connect has
  stored the settings of the instance; checked with connect requests only, since
  pairing by phone stores none.
* `QRSessionEnds`: with pairing errors and logouts, and with nobody who connects
  again. It leaves out a crash (Boot resets no row) and `outdated` (whose item
  matches no case of `listenQR`): both leave the row in "qr_code" until the next
  connect request. With SendWithRetry's disconnect before the codes have come nothing
  ends the session either, so "send" is not among the requests.
* `RequestsReturn`: with one request waiting for `m.mu` while another one is inside
  `create` or `Kill`. Excepts only the model's own limit on client objects.
* `RetryHasCause`: as long as no connection was lost and no error of fetching or
  uploading was misread, every request has one attempt, and no sender disconnects
  the client under another one. After one blip two senders may disconnect each
  other's attempts, so that a cause of one request is a cause for all.
* `OncePerClient`: a request is delivered at most once per client that connect
  requests have dialled, plus once per disconnect that came when autoReconnect
  was already dialling. SendWithRetry by itself delivers one message, because
  it disconnects the client it gives up on.
* `SendReturns`: holds although the resent frame has no timeout, because either
  the server answers or the connection breaks.
* `InOrder`: the three exceptions are a full queue, a handler of more than five
  minutes, and two loops at the same time.
* `WaiterHasRoom`: `clearResponseWaiters` never takes its branch that closes a
  channel, and no reader blocks.
* `PanicNeedsGivingUp`: the exact cases in which the reader may panic. One of
  them takes six steps of four goroutines: the answer to a first frame is found by
  the old connection's reader under the resent frame's channel, and then the
  resend fails.
* `LeakEndsWithConnection`: a timed-out sendIQ leaves its waiter in the table, but
  only until the connection ends.
* `CallsReturn`: although a resent message has no timer.
* `DeadConnectionIsLeft`: although the pings of a loop may run into the next
  connection.
* `OneFinalItem`: whoever swaps `closed` is the only one to send a result and to
  close the channel. `LateItems` says what may come after it.
* `PairingRecorded`: excepts a session that had ended otherwise (the timeout of
  the last code, the full buffer); the device is then in the store and the row
  does not name it.
* `StatusSettles`: excepts the "err-..." items and the full buffer, which
  `listenQR` does not record.
* `CreatedIsRegistered`: allows the loss of a target only when a webhook with
  the same URL is deleted or when a boot could not read the rows; a later boot that
  can brings it back.
* `EvictedLast`: an entry leaves the store because it expired, because it was
  replaced under its key, or because the store was full and it was one of the
  oldest.

### 3.2 Fairness

* Weak fairness for goroutines that can run (steps of Dispatch, of senders, of
  loops and handlers, of autoReconnect) and for timers: the Go scheduler.
* Strong fairness where a goroutine waits for a lock: `UnsubscribeWs` and
  `RequestStep`. A waiting writer of `sync.RWMutex` holds new readers back, and
  `sync.Mutex` has its starvation mode.
* Strong fairness for the answer to a request on a connection that keeps carrying
  frames (`ResponseWaiters`): the server answers everything. Pings need no answer.
* Strong fairness for `PushParked`: a Go channel serves its senders in order.
* Weak fairness for the server: it answers logins, sends codes, takes and
  acknowledges frames on connections that stay up. `Reconnect` in `EventQueue`
  is autoReconnect, which tries until it succeeds.
* `RetrySpec` (`pool_recovers`) adds a user who asks for a
  connection again and again, and that the server ends connections that nobody
  pairs, as the comment at qrchan.go:40 has it ("if the socket gets disconnected by
  the server before the pairing is successful"), not always in the middle of a
  request (strong fairness of `Quiet /\ Expire(c)`).
* `messageSendLock` needs weak fairness only: whoever holds it waits for an answer or
  the end of the connection and gives it back. The server's fairness is that of
  `Acknowledge`; it need not refuse anything.
* Nothing is assumed of WebSocket consumers, of users (scanning, pairing,
  other requests), of webhook receivers or of the answers to automatic replies.

## 4. Proofs

| Theorem | Says |
|---|---|
| `DispatcherProofs!TypeCorrect` | `Spec => []TypeOK` |
| `DispatcherProofs!DispatchNeverSendsOnClosed` | `Spec => []NoSendOnClosed` |
| `DispatcherProofs!StreamOrderCorrect` | `Spec => []StreamInOrder` |
| `DispatcherProofs!StreamInstanceCorrect` | `Spec => []StreamOfOneInstance` |
| `DispatcherProofs!DeliveryCorrect` | `Spec => ImplementsDelivery` |
| `InstancePoolProofs!PoolTypeCorrect` | `Spec => []TypeOK` |
| `InstancePoolProofs!RowDeviceCorrect` | `Spec => []RowPointsToDevice` |
| `InstancePoolProofs!SettingsCorrect` | `Spec => []OnlineHasSettings`, if `NoPhonePairing` |
| `EventQueueProofs!QueueTypeCorrect` | `Spec => []TypeOK` |
| `EventQueueProofs!NoNodeLost` | `Spec => []NodeInOnePlace` |
| `EventQueueProofs!EventOrderCorrect` | `Spec => []InOrder` |
| `WebhooksProofs!CreatedStaysRegistered` | `Spec => []CreatedIsRegistered` |
| `ResponseWaitersProofs!WaitersTypeCorrect` | `Spec => []TypeOK` |
| `ResponseWaitersProofs!NoConnectionForgotten` | `Spec => []NoOrphanConnection` |
| `ResponseWaitersProofs!WaitersHaveRoom` | `Spec => []WaiterHasRoom` |
| `ResponseWaitersProofs!LeaksEnd` | `Spec => []LeakEndsWithConnection` |
| `ResponseWaitersProofs!PanicOnlyAfterGivingUp` | `Spec => []PanicNeedsGivingUp` |
| `QRChannelProofs!QRTypeCorrect` | `Spec => []TypeOK` |
| `QRChannelProofs!OneEnding` | `Spec => []OneFinalItem` |
| `QRChannelProofs!FewLateItems` | `Spec => []LateItems` |
| `SendRetryProofs!SendTypeCorrect` | `Spec => []TypeOK` |
| `SendRetryProofs!NoRetryWithoutCause` | `Spec => []RetryHasCause` |
| `SendRetryProofs!DeliveredOncePerClient` | `Spec => []OncePerClient` |
| `IdempotencyProofs!IdempotencyTypeCorrect` | `Spec => []TypeOK` |
| `IdempotencyProofs!EvictionCorrect` | `Spec => EvictedLast` |

They hold for all sets of instances, sessions, goroutines, requests, clients,
targets, ids, URLs, senders and keys, for every buffer size, every set of faults
and every bound. The assumptions are the named ASSUMEs
of the modules: `Cap` is a positive number, the bounds are numbers, the names for
"no URL" and "no id" are not used otherwise.

Dispatcher. `NoSendOnClosed` is not inductive. `IndInv` adds: what a goroutine
carries fits its program counter (`CarriesOK`); a closed channel belongs to a
handler that is done (`ClosedDone`); every session is listed at most once, under
its own instance, and only between subscription and unsubscription
(`ListedOnce`). The last one carries the argument: `UnsubscribeWs` removes one
position, so a second entry would survive the close, and the next Dispatch would
take it into its loop. `UnsubscribeWs` itself is enabled only without readers,
which is why no loop under way can meet the closed channel. Lemma
`RemoveAtProperties` says what the filter loop leaves of a list.

Delivery. `FlowInv` adds what the streams and the mapping need: the
event a goroutine carries is its own and not newer than the last one created
(`EventsNumbered`), an event
that waits for the lock has not begun (`FreshUntilLocked`), every subscribed
session is listed (`SubscribedListed`), a loop visits subscribed sessions of its
event's instance once each (`LoopOverSubscribed`), and a session that has
not subscribed yet has received nothing (`IdleEmpty`). `StreamInv` then carries
`StreamInOrder`: an event that a goroutine is still to send is newer than all
events of that goroutine in the stream (`StreamBehind`). For the refinement, each
step of the dispatcher is mapped: `RLock` is `Publish`, `SendWs` is `Put` or
`Miss` by the room in the channel, `Range` is `Take`, `UnsubscribeWs` is `Leave`
(which needs that no loop is under way), and the others stutter.

InstancePool. `TypeInv` adds to the types that a request at a step that uses a
client holds one (`HoldsClient`). `RowPointsToDevice` needs the same of the
clients, because Connect and `listenQR` copy a client's device to the row at any
later time: the device of every client, in the pool or replaced there, is `Kept` (in
the store, or cut short, or a Logout is closing) unless the server does not have it,
and so is the device that `handlePair` has saved and not confirmed yet
(`DevicesKept`). `PairInv` says that `handlePair` works on a device that the server
does not have and that no other client pairs, so that its failure deletes nothing
that anybody else's row may rest on. `RowInv` is the three together. A Logout that
has deleted the device keeps its exception until the row is gone, whatever other
requests do in between. `OnlineHasSettings` has one hypothesis, `NoPhonePairing`:
PairPhone dials without SetSettings, so with it the property is false, as the
model shows. Without it `SettingsInv` is inductive: a client that has a connection
or works on one was dialled after SetSettings, and so was whatever a request is
about to dial.

EventQueue. `PlaceInv` says for each node what each place excludes, the nodes that
have not arrived included (`PlaceOf`); with it `NodeInOnePlace` is inductive.
`InOrder` speaks of what was dispatched and needs what comes before: in the queue
only a node that met a full one stands behind a later one (`QueueInOrder`), a
handler at work has a loop that waits for it, unless its node may be overtaken
(`Watched`), and as long as a node may not be overtaken and is not done, no later
one has started (`NotOvertaken`).

Webhooks. `IndInv` adds that a request in the middle of Create works on a row
that is there or that a Delete has begun on, that a request in the middle of
Delete works on a webhook marked as doomed, and that whatever is a row, a target
or answered has been created. The last two rule out a Delete that removes the
target of somebody else's webhook unless the URLs are equal.

ResponseWaiters. `LinkInv` carries `NoOrphanConnection`: a callback is under way
only for a connection that is closed, and a connection that was never dialled is
neither open nor called back. `TableInv` carries `WaiterHasRoom`: a channel is held
in one place only, in the table or by one reader (`HeldOnce`), and before a
request makes its channel, nobody holds it (`FreshChannels`). Two readers
with the same channel would be two answers for a buffer of one. `LeakInv` carries
`LeakEndsWithConnection`: the waiter of a frame that was sent is for the current
connection, which holds through the resend because a frame goes out only on an
open connection and, by `LinkInv`, that is the current one. `PanicInv` carries
`PanicNeedsGivingUp`: a ping stays with the connection whose loop sent it
(`PingInv`), so that whoever gives it up has a closed connection and the reader
with its channel is the reader of that one; no frame of a call is under way before
its first write is done (`UnsentInv`), so that a failed first write closes a
channel no reader has; and a channel that is closed under a reader was closed by
its owner (`ClosedInv`).

QRChannel. `SwapInv` carries `OneFinalItem`: whoever swapped `closed` from false
to true is the only goroutine between that swap and the close of the channel; as
long as it has not sent, there is no final item, and nobody is there once the
channel is closed. The handler of "Scanned" does not swap and sends nonetheless,
so the types record that it never stops the codes and never closes. `LateInv`
carries `LateItems`: while the emitter is between its check and its send, no code
has followed the final item, since the flag was clear at the check; the code it
then sends is its last, as the next check finds the flag set.

SendRetry. `RetryHasCause` is not inductive: what keeps a second attempt away is
that nobody's connection is taken from him. `CalmInv` says so of the time before
the first blip and the first misread error: the pool's first client is connected,
nothing reconnects, every sender is in its first attempt on that client and resends
nothing, and the error of a failed one is no disconnect error unless it comes from
fetching or uploading (which `HandleError` would misread). `OncePerClient` is a budget (`BudgetInv`): clients dialled plus late
disconnects. A sender at the top of the loop has one delivery left in it if the
pool's client is connected or may come back by itself (`Live`); during an attempt
the earlier deliveries leave room for one. After a failed attempt the sender has
disconnected the pool's client, which then is not `Live`, or has added a late
disconnect; only a connect request makes a pool live again, and it adds a client.

Idempotency. The types are inductive with the bound. Lemma `Stored` says what `StoreIdempotencyResult` makes of the
store: an eviction happens only when the key is new, so one entry less
is enough for the bound, and the entry dropped is one of the oldest.

Only model-checked: the liveness properties (`DispatchReturns`,
`LeavingUnsubscribes`, `ConnectRecovers`, `QRSessionEnds`, `RequestsReturn`,
`SendReturns`, `EventsDispatched`, `CallsReturn`, `DeadConnectionIsLeft`,
`ListenerEnds`, `PairingRecorded`, `StatusSettles`): fairness is beyond the prover.
Every invariant and action property of a passing run is proved. The inductive
invariants were checked with TLC on the instances of the runs first. No module uses
RECURSIVE operators.

## 5. Not modelled

* whatsmeow's handshake, encryption, app state, binary format: a library, used as
  it is. About 97,000 of the repository's 126,000 lines of Go are its generated
  protobuf code (`whatsmeow-lib/proto`), which has no behaviour to model, so that
  any model covers a small share of all lines; the hand-written code is about
  30,000 lines, of which the service itself is a quarter.
* The reassembly of frames (`socket/framesocket.go:161`): the models deliver whole
  frames. Read for the models, it miscounts a frame that is split over two
  WebSocket messages after its header: `receivedLength` (line 172) includes the
  three bytes of the length, so the rest is copied three bytes too far.
  `frameComplete` (line 158) sends without a way out, so that the goroutine of
  readPump stays behind when the reader has ended and the channel is full.
* `ResetConnection`, of which the service makes no use.
* The stateless services and controllers: one or two calls of the library after
  EnsureConnected. For the pool they are the request "call" of `InstancePool`.
* Validation, error texts (but for the words that are looked for), response
  bodies, HMAC signatures: pure functions of one request.
* `SetTargets` of the dispatcher: no caller outside the tests.
* Events that whatsmeow raises outside the handler queue, in `EventQueue`. In
  `InstancePool` they take effect in the step that raises them.

## 6. Where the code and its documentation disagree

Shown by runs:

* `pool_blip`. README.md:50 promises "reconnects after a network blip". While
  the pool's client waits in autoReconnect, any request that needs a client
  reaches `create()` (manager.go:119), which puts a new client into the pool and
  never dials it. The old one reconnects, but nobody finds it any more: requests
  are refused until somebody calls connect.
* `send_twice`. README.md:52 says "Idempotent sends so retries don't
  double-deliver". When the connection breaks after the server took the message,
  SendWithRetry (retry.go:34) sends it again under a new ID.

Met while modelling, without a run of their own:

* README.md:501 describes the Idempotency-Key; the middleware is on no route
  (routes/api.go:70, whose comment says it is) and nothing stores a response. It
  says that "the first response for a given key is cached": as the store is
  written, two requests with the same key may both miss (idempotency.go:46), and
  the later response replaces the first (idempotency.go:68).
* README.md:587: WA_CONNECT_ON_STARTUP is not read anywhere; Boot connects no
  instance.
* README.md:593: the global automatic reply does not apply to an instance that
  has settings of its own, and Connect always stores some
  (instance_service.go:90) without the reply.
* README.md:253, logout clears the session: Kill (manager.go:265) knows the
  client in the pool only. A client that was replaced while it reconnected stays
  logged in.
* README.md:629, connect after a logout on the phone: the row keeps its JID, so
  Connect takes the branch of a paired instance (instance_service.go:102) with
  an unpaired client, and no QR code is offered.
* instance_service.go:95: a Connect that reads the client's JID while `handlePair`
  is at work copies it to the row. If the pairing then fails (pair.go:185, 212),
  the device is deleted and the row keeps its JID: every later connect takes the
  branch of a paired instance with an unpaired client, without a QR code.
* instance_service.go:102: a Connect that found no JID before the pairing finished
  replaces the client that was just paired, while it waits for the restart of the
  stream, by an unpaired one. Later connects find that one connected and report
  "connected" until the server ends its connection.
* instance_service.go:86: connect requests that overlap can keep replacing each
  other's client before it is connected; nothing orders them.
* instance_service.go:124: after a crash, and after an item "err-...", the row stays
  in "qr_code" until the next connect request.
* whatsapp_service_provider.go:48 and :68: when the rows cannot be read at boot, the
  process serves without webhook targets and reports nothing.
* README.md:493: a media URL that times out contains "timeout" (retry.go:60); it
  is retried, disconnects the instance and ends in SERVICE_UNAVAILABLE, not in
  MEDIA_FETCH_FAILED.
* ws_controller.go:50: the read loop is said to handle a closing client; it ends
  without unsubscribing, which happens at the next failing write.
* webhook_controller.go:93: deleting one of two webhooks with the same URL
  silences both until the restart.
* webhook_controller.go:54: a Delete between the two statements of Create leaves
  a target without a row until the restart.
* qrchan.go:160 says that the last value of the channel is the special event; a
  code that was on its way may come after it (`LateItems` bounds that), and one
  that comes after the close ends the process (qrchan.go:87).
* request.go:91: the reader sends into a channel that a message which has just
  timed out closes (`PanicNeedsGivingUp` lists the cases).
* connectionevents.go:21 and keepalive.go:48 act on the current connection, not on
  the one that the stream error or the failing pings belong to.
* group_controller.go:180 says that all errors of a partial failure are logged;
  only the first one reaches `response.Error`.

## 7. Plan

The order is by how much of the service depends on the part. Done: sections
2 to 4. Next, each in a run that is there already:

1. Pairing by phone: when the row learns the JID, and what a restart before that
   leaves behind (`InstancePool`).
2. `SendRetry` on top of `ResponseWaiters`: an attempt implemented by its steps.
3. `EventMatch` against a reference definition over all short filters.

New questions that concern a specification that has a run already are added to
that run.
