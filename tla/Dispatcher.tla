----------------------------- MODULE Dispatcher -----------------------------
(***************************************************************************)
(* The event dispatcher (app/whatsapp/dispatcher.go) together with the     *)
(* WebSocket handler goroutines that consume from it                       *)
(* (app/http/controllers/ws_controller.go).                                *)
(*                                                                         *)
(* Dispatch runs in many goroutines at once: a client's handler queue, the *)
(* goroutines whatsmeow starts for connection events, and the HTTP handler *)
(* of the webhook test endpoint.  It holds the read lock of                *)
(* EventDispatcher.mu from the first WebSocket send to the last webhook    *)
(* spawn, and is therefore modelled in steps: create the event, take the   *)
(* read lock, one send per channel, then the webhook loop and RUnlock.     *)
(*                                                                         *)
(* Every critical section under the write lock touches only state that is  *)
(* read under the same lock (or, for close(c), by the goroutine that runs  *)
(* it), so Lock; body; Unlock is one step, enabled when no goroutine holds *)
(* the read lock.                                                          *)
(***************************************************************************)
EXTENDS EventMatch, FiniteSets

CONSTANTS
    Instances,      \* instance IDs
    Sessions,       \* WebSocket connections; each makes one channel
    Dispatchers,    \* goroutines that call Dispatch
    Targets,        \* WebhookTarget values: [url, events]
    EventTypes,     \* event types that are dispatched (lexeme sequences)
    Cap,            \* buffer of a WebSocket channel (100 in the code)
    MaxEvents,      \* bound on the events of a behaviour
    MaxTargets      \* bound on the Register calls of a behaviour

ASSUME CapAssumption == Cap \in Nat \ {0}
ASSUME BoundsAssumption == MaxEvents \in Nat /\ MaxTargets \in Nat

VARIABLES
    targets,    \* EventDispatcher.targets: instance -> registered targets
    wsClients,  \* EventDispatcher.wsClients: instance -> sequence of sessions
    chan,       \* buffered content of each session's channel
    closed,     \* sessions whose channel has been closed
    sess,       \* WebSocket handler goroutine: pc, instance, event being written
    disp,       \* Dispatch goroutine: pc, event, channels left to visit
    posts,      \* running send goroutines: <<event, registered target>>
    created,    \* number of events created
    registered, \* number of Register calls
    got,        \* history: what each session wrote to its connection
    begun       \* history: events of each instance whose Dispatch took the lock

vars == <<targets, wsClients, chan, closed, sess, disp, posts,
          created, registered, got, begun>>

NoInst == "no instance"
ASSUME InstancesAssumption == NoInst \notin Instances

NoEvent == [id |-> 0, by |-> "nobody", inst |-> NoInst, type |-> <<>>]

Event == [id : 1 .. MaxEvents, by : Dispatchers, inst : Instances,
          type : EventTypes]

Registration == [no : 1 .. MaxTargets, target : Targets]

Init ==
    /\ targets = [i \in Instances |-> {}]
    /\ wsClients = [i \in Instances |-> <<>>]
    /\ chan = [s \in Sessions |-> <<>>]
    /\ closed = {}
    /\ sess = [s \in Sessions |-> [pc |-> "idle", inst |-> NoInst, cur |-> NoEvent]]
    /\ disp = [d \in Dispatchers |-> [pc |-> "idle", evt |-> NoEvent, todo |-> <<>>]]
    /\ posts = {}
    /\ created = 0
    /\ registered = 0
    /\ got = [s \in Sessions |-> <<>>]
    /\ begun = [i \in Instances |-> {}]

\* Goroutines that hold mu.RLock().
Readers == {d \in Dispatchers : disp[d].pc = "sending"}

-----------------------------------------------------------------------------
(* Webhook registration *)

\* Register: append, duplicates allowed.  The list is the set of its entries,
\* told apart by a registration number: the order of the send goroutines that
\* SpawnHooks starts is not determined by it.
Register(i, t) ==
    /\ Readers = {}
    /\ registered < MaxTargets
    /\ registered' = registered + 1
    /\ targets' = [targets EXCEPT ![i] = @ \cup {[no |-> registered + 1, target |-> t]}]
    /\ UNCHANGED <<wsClients, chan, closed, sess, disp, posts, created, got, begun>>

\* Unregister keeps every target with another URL.
Unregister(i, url) ==
    /\ Readers = {}
    /\ targets' = [targets EXCEPT ![i] = {r \in @ : r.target.url # url}]
    /\ UNCHANGED <<wsClients, chan, closed, sess, disp, posts, created, registered, got, begun>>

-----------------------------------------------------------------------------
(* WebSocket sessions *)

\* WsController.Connect up to the range loop: upgrade, SubscribeWs.
SubscribeWs(s, i) ==
    /\ sess[s].pc = "idle"
    /\ Readers = {}
    /\ wsClients' = [wsClients EXCEPT ![i] = Append(@, s)]
    /\ sess' = [sess EXCEPT ![s].pc = "ranging", ![s].inst = i]
    /\ UNCHANGED <<targets, chan, closed, disp, posts, created, registered, got, begun>>

\* for evt := range ch: take the next event out of the channel.
Range(s) ==
    /\ sess[s].pc = "ranging"
    /\ chan[s] # <<>>
    /\ chan' = [chan EXCEPT ![s] = Tail(@)]
    /\ sess' = [sess EXCEPT ![s].pc = "writing", ![s].cur = Head(chan[s])]
    /\ UNCHANGED <<targets, wsClients, closed, disp, posts, created, registered, got, begun>>

\* Mutant of WriteJSON: an event that came out of turn is written again later.
WriteJSONAgain(s) ==
    /\ sess[s].pc = "writing"
    /\ got' = [got EXCEPT ![s] = Append(@, sess[s].cur)]
    /\ chan' = [chan EXCEPT ![s] = IF Len(@) < Cap THEN Append(@, sess[s].cur) ELSE @]
    /\ sess' = [sess EXCEPT ![s].pc = "ranging", ![s].cur = NoEvent]
    /\ UNCHANGED <<targets, wsClients, closed, disp, posts, created, registered, begun>>

\* conn.WriteJSON succeeds.  To a peer that is gone it still may: the bytes only
\* reach the local socket buffer.
WriteJSON(s) ==
    /\ sess[s].pc = "writing"
    /\ got' = [got EXCEPT ![s] = Append(@, sess[s].cur)]
    /\ sess' = [sess EXCEPT ![s].pc = "ranging", ![s].cur = NoEvent]
    /\ UNCHANGED <<targets, wsClients, chan, closed, disp, posts, created, registered, begun>>

\* conn.WriteJSON fails: break out of the loop, into the deferred calls.  This is
\* the only way out: when the peer goes away, the goroutine that reads from the
\* connection ends, and the loop over the channel does not see it.
WriteJSONFails(s) ==
    /\ sess[s].pc = "writing"
    /\ sess' = [sess EXCEPT ![s].pc = "leaving", ![s].cur = NoEvent]
    /\ UNCHANGED <<targets, wsClients, chan, closed, disp, posts, created, registered, got, begun>>

\* The list without its k-th entry.
RemoveAt(list, k) ==
    [j \in 1 .. Len(list) - 1 |-> IF j < k THEN list[j] ELSE list[j + 1]]

\* Mutant: close the channel without waiting for the readers.
UnsubscribeWsUnlocked(s) ==
    LET i == sess[s].inst
    IN  /\ sess[s].pc = "leaving"
        /\ \E k \in 1 .. Len(wsClients[i]) :
              /\ wsClients[i][k] = s
              /\ wsClients' = [wsClients EXCEPT ![i] = RemoveAt(@, k)]
        /\ closed' = closed \cup {s}
        /\ sess' = [sess EXCEPT ![s].pc = "done"]
        /\ UNCHANGED <<targets, chan, disp, posts, created, registered, got, begun>>

\* UnsubscribeWs: drop the channel from the list and close it.  The channel is
\* made for one SubscribeWs, so the filter loop meets it at one position.
UnsubscribeWs(s) ==
    LET i == sess[s].inst
    IN  /\ sess[s].pc = "leaving"
        /\ Readers = {}
        /\ \E k \in 1 .. Len(wsClients[i]) :
              /\ wsClients[i][k] = s
              /\ wsClients' = [wsClients EXCEPT ![i] = RemoveAt(@, k)]
        /\ closed' = closed \cup {s}
        /\ sess' = [sess EXCEPT ![s].pc = "done"]
        /\ UNCHANGED <<targets, chan, disp, posts, created, registered, got, begun>>

-----------------------------------------------------------------------------
(* Dispatch *)

\* The event is built before the lock is taken.
Dispatch(d, i, type) ==
    /\ disp[d].pc = "idle"
    /\ created < MaxEvents
    /\ created' = created + 1
    /\ disp' = [disp EXCEPT ![d] =
                  [pc |-> "locking",
                   evt |-> [id |-> created + 1, by |-> d, inst |-> i, type |-> type],
                   todo |-> <<>>]]
    /\ UNCHANGED <<targets, wsClients, chan, closed, sess, posts, registered, got, begun>>

\* Mutant: the lookup of the channels ignores the instance.
RLockAnyInstance(d) ==
    /\ disp[d].pc = "locking"
    /\ \E i \in Instances :
          disp' = [disp EXCEPT ![d].pc = "sending", ![d].todo = wsClients[i]]
    /\ UNCHANGED <<targets, wsClients, chan, closed, sess, posts, created, registered, got, begun>>

\* mu.RLock(); the range expression is evaluated once.
RLock(d) ==
    /\ disp[d].pc = "locking"
    /\ disp' = [disp EXCEPT ![d].pc = "sending",
                            ![d].todo = wsClients[disp[d].evt.inst]]
    /\ begun' = [begun EXCEPT ![disp[d].evt.inst] = @ \cup {disp[d].evt}]
    /\ UNCHANGED <<targets, wsClients, chan, closed, sess, posts, created, registered, got>>

\* Mutant: a plain send, which waits while the channel is full.
SendWsBlocking(d) ==
    LET c == Head(disp[d].todo)
    IN  /\ disp[d].pc = "sending"
        /\ disp[d].todo # <<>>
        /\ Len(chan[c]) < Cap
        /\ chan' = [chan EXCEPT ![c] = Append(@, disp[d].evt)]
        /\ disp' = [disp EXCEPT ![d].todo = Tail(@)]
        /\ UNCHANGED <<targets, wsClients, closed, sess, posts, created, registered, got, begun>>

\* Mutant: a full channel ends the loop instead of this one send.
SendWsBreaks(d) ==
    LET c == Head(disp[d].todo)
    IN  /\ disp[d].pc = "sending"
        /\ disp[d].todo # <<>>
        /\ \/ /\ Len(chan[c]) < Cap
              /\ chan' = [chan EXCEPT ![c] = Append(@, disp[d].evt)]
              /\ disp' = [disp EXCEPT ![d].todo = Tail(@)]
           \/ /\ Len(chan[c]) >= Cap
              /\ disp' = [disp EXCEPT ![d].todo = <<>>]
              /\ UNCHANGED chan
        /\ UNCHANGED <<targets, wsClients, closed, sess, posts, created, registered, got, begun>>

\* Mutant: no default case and no capacity, the channel grows.
SendWsUnbounded(d) ==
    /\ disp[d].pc = "sending"
    /\ disp[d].todo # <<>>
    /\ chan' = [chan EXCEPT ![Head(disp[d].todo)] = Append(@, disp[d].evt)]
    /\ disp' = [disp EXCEPT ![d].todo = Tail(@)]
    /\ UNCHANGED <<targets, wsClients, closed, sess, posts, created, registered, got, begun>>

\* select { case ch <- evt: default: }
SendWs(d) ==
    LET c == Head(disp[d].todo)
    IN  /\ disp[d].pc = "sending"
        /\ disp[d].todo # <<>>
        /\ \/ /\ Len(chan[c]) < Cap
              /\ chan' = [chan EXCEPT ![c] = Append(@, disp[d].evt)]
           \/ /\ Len(chan[c]) >= Cap
              /\ UNCHANGED chan
        /\ disp' = [disp EXCEPT ![d].todo = Tail(@)]
        /\ UNCHANGED <<targets, wsClients, closed, sess, posts, created, registered, got, begun>>

\* Mutant: without a webhook to call, return before RUnlock.
SpawnHooksKeepsLock(d) ==
    LET evt == disp[d].evt
        ts  == targets[evt.inst]
    IN  /\ disp[d].pc = "sending"
        /\ disp[d].todo = <<>>
        /\ ts # {}
        /\ posts' = posts \cup
             ({evt} \X {r \in ts : matchesEvent(r.target.events, evt.type)})
        /\ disp' = [disp EXCEPT ![d] = [pc |-> "idle", evt |-> NoEvent, todo |-> <<>>]]
        /\ UNCHANGED <<targets, wsClients, chan, closed, sess, created, registered, got, begun>>

\* The webhook loop: one send goroutine per matching target; then RUnlock.
SpawnHooks(d) ==
    LET evt == disp[d].evt
        ts  == targets[evt.inst]
    IN  /\ disp[d].pc = "sending"
        /\ disp[d].todo = <<>>
        /\ posts' = posts \cup
             ({evt} \X {r \in ts : matchesEvent(r.target.events, evt.type)})
        /\ disp' = [disp EXCEPT ![d] = [pc |-> "idle", evt |-> NoEvent, todo |-> <<>>]]
        /\ UNCHANGED <<targets, wsClients, chan, closed, sess, created, registered, got, begun>>

\* A send goroutine ends: answered, refused or timed out, all alike (one
\* attempt, failures are logged).  The goroutines end in any order.
send(p) ==
    /\ p \in posts
    /\ posts' = posts \ {p}
    /\ UNCHANGED <<targets, wsClients, chan, closed, sess, disp, created, registered, got, begun>>

-----------------------------------------------------------------------------
Next ==
    \/ \E i \in Instances, t \in Targets : Register(i, t)
    \/ \E i \in Instances, url \in {t.url : t \in Targets} : Unregister(i, url)
    \/ \E s \in Sessions, i \in Instances : SubscribeWs(s, i)
    \/ \E s \in Sessions : \/ Range(s)
                           \/ WriteJSON(s)
                           \/ WriteJSONFails(s)
                           \/ UnsubscribeWs(s)
    \/ \E d \in Dispatchers :
          \/ \E i \in Instances, type \in EventTypes : Dispatch(d, i, type)
          \/ RLock(d)
          \/ SendWs(d)
          \/ SpawnHooks(d)
    \/ \E p \in posts : send(p)

Spec == Init /\ [][Next]_vars

(***************************************************************************)
(* Fairness.  A goroutine that can run is scheduled: weak fairness for the *)
(* steps of Dispatch.  A goroutine in Lock() is admitted although readers  *)
(* come and go, because a waiting writer of a sync.RWMutex holds back new  *)
(* readers: strong fairness for UnsubscribeWs.  Nothing is assumed of the  *)
(* consumers: neither that they take events out of their channel nor that  *)
(* a write to their connection ever returns.                               *)
(***************************************************************************)
DispatchFairness ==
    \A d \in Dispatchers : WF_vars(RLock(d)) /\ WF_vars(SendWs(d)) /\ WF_vars(SpawnHooks(d))

LiveSpec ==
    /\ Spec
    /\ DispatchFairness
    /\ \A s \in Sessions : SF_vars(UnsubscribeWs(s))

-----------------------------------------------------------------------------
(* Properties *)

SessState == [pc : {"idle", "ranging", "writing", "leaving", "done"},
              inst : Instances \cup {NoInst}, cur : Event \cup {NoEvent}]
DispState == [pc : {"idle", "locking", "sending"}, evt : Event \cup {NoEvent},
              todo : Seq(Sessions)]

\* The type invariant of the dispatcher and of the handler goroutines; no
\* channel holds more than its buffer, which make(chan, 100) guarantees.
TypeOK ==
    /\ targets \in [Instances -> SUBSET Registration]
    /\ wsClients \in [Instances -> Seq(Sessions)]
    /\ chan \in [Sessions -> Seq(Event)]
    /\ \A s \in Sessions : Len(chan[s]) <= Cap
    /\ closed \subseteq Sessions
    /\ sess \in [Sessions -> SessState]
    /\ disp \in [Dispatchers -> DispState]
    /\ posts \subseteq Event \X Registration
    /\ created \in 0 .. MaxEvents
    /\ registered \in 0 .. MaxTargets
    /\ got \in [Sessions -> Seq(Event)]
    /\ begun \in [Instances -> SUBSET Event]

\* Dispatch never sends into a closed channel, which would panic: no channel
\* that a running send loop still has to visit is closed (the comment at
\* Dispatch claims this of holding the read lock through the loop).
NoSendOnClosed ==
    \A d \in Dispatchers : disp[d].pc = "sending" =>
        \A k \in 1 .. Len(disp[d].todo) : disp[d].todo[k] \notin closed

\* Events a session wrote, is writing or has buffered, oldest first.
Stream(s) ==
    got[s] \o (IF sess[s].pc = "writing" THEN <<sess[s].cur>> ELSE <<>>) \o chan[s]

\* A WebSocket client sees the events of one dispatching goroutine in the
\* order in which that goroutine dispatched them, whatever was dropped between
\* them and however its own writes interleave with Dispatch.
StreamInOrder ==
    \A s \in Sessions : \A j, k \in 1 .. Len(Stream(s)) :
        j < k /\ Stream(s)[j].by = Stream(s)[k].by => Stream(s)[j].id < Stream(s)[k].id

\* A WebSocket client only ever sees events of the instance it subscribed to.
StreamOfOneInstance ==
    \A s \in Sessions : \A k \in 1 .. Len(Stream(s)) :
        Stream(s)[k].inst = sess[s].inst

Elements(seq) == {seq[k] : k \in 1 .. Len(seq)}

\* Events of running Dispatch loops that have s still to visit.
OnTheWayTo(s) ==
    {disp[d].evt : d \in {x \in Dispatchers : disp[x].pc = "sending" /\ s \in Elements(disp[x].todo)}}

\* Dispatch always returns, even if no WebSocket consumer ever reads again:
\* the handler queue of a WhatsApp client is never held up by its listeners.
DispatchReturns ==
    \A d \in Dispatchers : disp[d].pc # "idle" ~> disp[d].pc = "idle"

\* A handler that leaves its loop gets its subscription removed.
LeavingUnsubscribes ==
    \A s \in Sessions : sess[s].pc = "leaving" ~> s \in closed
=============================================================================
