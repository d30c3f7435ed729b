------------------------- MODULE DispatcherDelivery -------------------------
(***************************************************************************)
(* The dispatcher with its lock, its loops and its channels implements     *)
(* Delivery: the state of a WebSocket client that Delivery speaks of, seen *)
(* in the state of the dispatcher.                                         *)
(***************************************************************************)
EXTENDS Dispatcher

\* A session is a member between SubscribeWs and UnsubscribeWs.
Subscribed(s) == sess[s].pc \in {"ranging", "writing", "leaving"}
Member == [s \in Sessions |-> IF Subscribed(s) THEN sess[s].inst ELSE NoInst]

\* An event is published when its Dispatch has taken the read lock ...
Published == UNION {begun[i] : i \in Instances}

\* ... and owed while the loop still has to visit the session's channel.
Owed == [s \in Sessions |-> OnTheWayTo(s)]

\* The channel, until it is closed.
Queue == [s \in Sessions |-> IF Subscribed(s) THEN chan[s] ELSE <<>>]

Promise == INSTANCE Delivery WITH
              Events <- Event, member <- Member, published <- Published,
              owed <- Owed, queue <- Queue

\* The dispatcher implements Delivery: whatever goroutines subscribe, unsubscribe
\* and dispatch at the same time, every event reaches every client that was
\* subscribed when Dispatch took the lock exactly once, unless its own buffer was
\* full, and nobody is unsubscribed while an event is on its way to it.
ImplementsDelivery == Promise!Spec
=============================================================================
