----------------------------- MODULE EventQueue -----------------------------
(***************************************************************************)
(* How nodes received on a client's connection become events: whatsmeow's  *)
(* handler queue (whatsmeow-lib/client.go) and the event handler of the    *)
(* Manager (app/whatsapp/manager.go, buildEventHandler).                   *)
(*                                                                         *)
(* The reader of the connection puts nodes into a bounded queue; if it is  *)
(* full a goroutine per node waits for room.  Every connection starts a    *)
(* loop of its own over the same queue.  A loop runs the handler of a node *)
(* in a goroutine and waits for it, five minutes at most.  The handler may *)
(* answer the message first and then dispatches the event.                 *)
(*                                                                         *)
(* Nodes are numbered in the order of their arrival, connections in the    *)
(* order in which they are made.                                           *)
(***************************************************************************)
EXTENDS Naturals, Sequences, SequencesExt

CONSTANTS
    QueueSize,  \* handlerQueueSize (2048 in the code)
    MaxNodes,   \* bound on the nodes received
    MaxConns    \* bound on the connections made

ASSUME QueueSizeAssumption == QueueSize \in Nat \ {0}
ASSUME BoundsAssumption == MaxNodes \in Nat /\ MaxConns \in Nat \ {0}

VARIABLES
    queue,    \* handlerQueue
    parked,   \* nodes whose goroutine waits for room in the queue
    arrived,  \* number of nodes received
    conns,    \* number of connections made
    live,     \* the connection that is up, None if there is none
    loops,    \* handlerQueueLoop of every connection: pc and node
    hand,     \* per node: how far its handler is
    out,      \* the nodes whose event was dispatched, in order
    late      \* nodes that others may overtake (see InOrder)

vars == <<queue, parked, arrived, conns, live, loops, hand, out, late>>

None == 0
Nodes == 1 .. MaxNodes
Conns == 1 .. MaxConns

Init ==
    /\ queue = <<>> /\ parked = {} /\ arrived = 0
    /\ conns = 1 /\ live = 1
    /\ loops = [k \in Conns |-> [pc |-> IF k = 1 THEN "select" ELSE "none", node |-> None]]
    /\ hand = [n \in Nodes |-> "waiting"]
    /\ out = <<>> /\ late = {}

-----------------------------------------------------------------------------
(* The reader of the connection *)

\* A node that has a handler: into the queue, or to a goroutine if it is full.
handleFrame ==
    /\ live # None
    /\ arrived < MaxNodes
    /\ arrived' = arrived + 1
    /\ IF Len(queue) < QueueSize
       THEN queue' = Append(queue, arrived') /\ UNCHANGED <<parked, late>>
       ELSE /\ parked' = parked \cup {arrived'}
            /\ late' = late \cup {arrived'}
            /\ UNCHANGED queue
    /\ UNCHANGED <<conns, live, loops, hand, out>>

\* Mutant of PushParked: it does not wait for room.
PushParkedAnyway(n) ==
    /\ n \in parked
    /\ queue' = Append(queue, n)
    /\ parked' = parked \ {n}
    /\ UNCHANGED <<arrived, conns, live, loops, hand, out, late>>

\* The goroutine of a node that found the queue full.  Its context is the
\* client's, not the connection's: it goes on after a disconnection.
PushParked(n) ==
    /\ n \in parked
    /\ Len(queue) < QueueSize
    /\ queue' = Append(queue, n)
    /\ parked' = parked \ {n}
    /\ UNCHANGED <<arrived, conns, live, loops, hand, out, late>>

-----------------------------------------------------------------------------
(* handlerQueueLoop *)

\* Nodes that another loop than k waits for.
Elsewhere(k) == {loops[j].node : j \in {j \in Conns \ {k} : loops[j].pc = "wait"}}

\* Mutant of TakeNode: a loop whose connection is gone drops what it receives.
TakeNodeIfLive(k) ==
    /\ loops[k].pc = "select"
    /\ queue # <<>>
    /\ queue' = Tail(queue)
    /\ IF k = live
       THEN /\ loops' = [loops EXCEPT ![k] = [pc |-> "wait", node |-> Head(queue)]]
            /\ hand' = [hand EXCEPT ![Head(queue)] = "started"]
            /\ late' = late \cup Elsewhere(k)
       ELSE UNCHANGED <<loops, hand, late>>
    /\ UNCHANGED <<parked, arrived, conns, live, out>>

\* The select receives a node, which it may do after the end of its connection
\* too; the handler starts in a goroutine.
TakeNode(k) ==
    /\ loops[k].pc = "select"
    /\ queue # <<>>
    /\ queue' = Tail(queue)
    /\ loops' = [loops EXCEPT ![k] = [pc |-> "wait", node |-> Head(queue)]]
    /\ hand' = [hand EXCEPT ![Head(queue)] = "started"]
    /\ late' = late \cup Elsewhere(k)
    /\ UNCHANGED <<parked, arrived, conns, live, out>>

\* Mutant of HandlerDone: the loop does not wait for the handler.
HandlerStarted(k) ==
    /\ loops[k].pc = "wait"
    /\ loops' = [loops EXCEPT ![k] = [pc |-> "select", node |-> None]]
    /\ UNCHANGED <<queue, parked, arrived, conns, live, hand, out, late>>

\* doneChan: the handler has returned.
HandlerDone(k) ==
    /\ loops[k].pc = "wait"
    /\ hand[loops[k].node] = "done"
    /\ loops' = [loops EXCEPT ![k] = [pc |-> "select", node |-> None]]
    /\ UNCHANGED <<queue, parked, arrived, conns, live, hand, out, late>>

\* Mutant of GiveUp: the ticks are only logged.
KeepWaiting(k) == loops[k].pc = "given up" /\ UNCHANGED vars

\* The tenth tick: the handler goes on in the background.
GiveUp(k) ==
    /\ loops[k].pc = "wait"
    /\ hand[loops[k].node] # "done"
    /\ loops' = [loops EXCEPT ![k] = [pc |-> "select", node |-> None]]
    /\ late' = late \cup {loops[k].node}
    /\ UNCHANGED <<queue, parked, arrived, conns, live, hand, out>>

\* connCtx.Done: the loop of a connection that is gone ends.
LoopEnds(k) ==
    /\ loops[k].pc = "select"
    /\ k # live
    /\ loops' = [loops EXCEPT ![k].pc = "gone"]
    /\ UNCHANGED <<queue, parked, arrived, conns, live, hand, out, late>>

-----------------------------------------------------------------------------
(* buildEventHandler *)

\* getSettings, MarkRead, and whether a reply or a rejection of a call is to be
\* sent before the event is dispatched.
Settings(n) ==
    /\ hand[n] = "started"
    /\ \E step \in {"reply", "dispatch"} : hand' = [hand EXCEPT ![n] = step]
    /\ UNCHANGED <<queue, parked, arrived, conns, live, loops, out, late>>

\* m.Get and SendMessage.  The client in the pool may be another one than the
\* one that received the message, or not be connected: then the error is dropped.
AutoReply(n) ==
    /\ hand[n] = "reply"
    /\ \E step \in {"await", "dispatch"} : hand' = [hand EXCEPT ![n] = step]
    /\ UNCHANGED <<queue, parked, arrived, conns, live, loops, out, late>>

\* Its answer, which does not come through the queue, or an error.
Answered(n) ==
    /\ hand[n] = "await"
    /\ hand' = [hand EXCEPT ![n] = "dispatch"]
    /\ UNCHANGED <<queue, parked, arrived, conns, live, loops, out, late>>

\* m.Dispatcher.Dispatch, the last thing the handler does.
DispatchEvent(n) ==
    /\ hand[n] = "dispatch"
    /\ hand' = [hand EXCEPT ![n] = "done"]
    /\ out' = Append(out, n)
    /\ UNCHANGED <<queue, parked, arrived, conns, live, loops, late>>

-----------------------------------------------------------------------------
(* The connection *)

\* It is lost (not the last one the bound allows).
Drop ==
    /\ live # None
    /\ conns < MaxConns
    /\ live' = None
    /\ UNCHANGED <<queue, parked, arrived, conns, loops, hand, out, late>>

\* unlockedConnect: a new connection with a loop of its own.
Reconnect ==
    /\ live = None
    /\ conns' = conns + 1 /\ live' = conns'
    /\ loops' = [loops EXCEPT ![conns'].pc = "select"]
    /\ UNCHANGED <<queue, parked, arrived, hand, out, late>>

-----------------------------------------------------------------------------
LoopStep(k) == TakeNode(k) \/ HandlerDone(k) \/ GiveUp(k) \/ LoopEnds(k)
HandlerStep(n) == Settings(n) \/ AutoReply(n) \/ DispatchEvent(n)

Next ==
    \/ handleFrame \/ Drop \/ Reconnect
    \/ \E n \in Nodes : PushParked(n) \/ HandlerStep(n) \/ Answered(n)
    \/ \E k \in Conns : LoopStep(k)

Spec == Init /\ [][Next]_vars

\* Goroutines run, a send into the queue that keeps finding room succeeds (a Go
\* channel serves its senders in order) and autoReconnect succeeds in the end.
\* The answer to a reply need not come.
LiveSpec ==
    /\ Spec
    /\ WF_vars(Reconnect)
    /\ \A n \in Nodes : SF_vars(PushParked(n)) /\ WF_vars(HandlerStep(n))
    /\ \A k \in Conns : WF_vars(LoopStep(k))

-----------------------------------------------------------------------------
\* Every variable has its type, and the queue its bound.
TypeOK ==
    /\ queue \in Seq(Nodes) /\ Len(queue) <= QueueSize
    /\ parked \subseteq Nodes /\ late \subseteq Nodes
    /\ arrived \in 0 .. MaxNodes /\ conns \in Conns /\ live \in Conns \cup {None}
    /\ loops \in [Conns -> [pc : {"none", "select", "wait", "gone"}, node : Nodes \cup {None}]]
    /\ hand \in [Nodes -> {"waiting", "started", "reply", "await", "dispatch", "done"}]
    /\ out \in Seq(Nodes)

\* Where a node that arrived is.
InQueue(n) == n \in ToSet(queue)
InHandler(n) == hand[n] \notin {"waiting", "done"}
Dispatched(n) == n \in ToSet(out)

\* A node is neither lost nor handled twice, whatever happens to its connection
\* and however many loops read the queue: it waits in one place, or one handler
\* works on it, or its event was dispatched, once.
NodeInOnePlace ==
    /\ IsInjective(queue) /\ IsInjective(out)
    /\ \A n \in 1 .. arrived :
          \/ n \in parked /\ ~InQueue(n) /\ hand[n] = "waiting"
          \/ InQueue(n) /\ n \notin parked /\ hand[n] = "waiting"
          \/ InHandler(n) /\ ~InQueue(n) /\ n \notin parked /\ ~Dispatched(n)
          \/ hand[n] = "done" /\ ~InQueue(n) /\ n \notin parked /\ Dispatched(n)

\* Events are dispatched in the order of arrival.  There are three exceptions:
\* the event that comes late met a full queue, or had a handler that took more
\* than five minutes, or was handled while the loop of another connection (the
\* old one after a reconnect, or the new one) took the next node.
InOrder ==
    \A i, j \in DOMAIN out : i < j /\ out[i] > out[j] => out[j] \in late

\* Every node's event is dispatched in the end, over lost connections and
\* although the handlers of other nodes may hang for ever: only a node whose
\* own reply is never answered stays behind.
EventsDispatched ==
    \A n \in Nodes : arrived >= n ~> Dispatched(n) \/ hand[n] = "await"
=============================================================================
