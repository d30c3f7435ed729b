-------------------------- MODULE EventQueueProofs --------------------------
(***************************************************************************)
(* Theorems about EventQueue: its types and the bound of the queue, that   *)
(* no node is lost or handled twice, and the order of the events.          *)
(***************************************************************************)
EXTENDS EventQueue, TLAPS

HandlerSteps == {"waiting", "started", "reply", "await", "dispatch", "done"}
Loop == [pc : {"none", "select", "wait", "gone"}, node : Nodes \cup {None}]

\* The parts of TypeOK.
QueueTypes ==
    /\ queue \in Seq(Nodes) /\ Len(queue) <= QueueSize
    /\ parked \subseteq Nodes /\ late \subseteq Nodes /\ arrived \in 0 .. MaxNodes
HandTypes == hand \in [Nodes -> HandlerSteps] /\ out \in Seq(Nodes)

\* A loop that waits has a node; the connections are numbered up to conns, and the
\* last one the bound allows is not lost.
LoopTypes ==
    /\ conns \in Conns /\ live \in Conns \cup {None} /\ (live = None => conns < MaxConns)
    /\ loops \in [Conns -> Loop]
    /\ \A k \in Conns : /\ loops[k].pc = "wait" => loops[k].node \in Nodes
                        /\ k > conns => loops[k].pc = "none"

TypeInv == QueueTypes /\ HandTypes /\ LoopTypes

\* TypeInv is TypeOK and more.
LEMMA TypeInvDef == TypeInv => TypeOK
BY DEF TypeInv, TypeOK, QueueTypes, HandTypes, LoopTypes, HandlerSteps, Loop

\* The initial state has the types.
LEMMA InitTypes == Init => TypeInv
<1> SUFFICES ASSUME Init PROVE TypeInv
  OBVIOUS
<1>1. QueueTypes
  BY QueueSizeAssumption, BoundsAssumption DEF Init, QueueTypes
<1>2. HandTypes
  BY DEF Init, HandTypes, HandlerSteps
<1>3. LoopTypes
  BY BoundsAssumption DEF Init, LoopTypes, Loop, Conns, None
<1> QED BY <1>1, <1>2, <1>3 DEF TypeInv

\* The reader of the connection and the goroutines of parked nodes.
LEMMA ReaderTypes ==
    ASSUME TypeInv, handleFrame \/ \E n \in Nodes : PushParked(n)
    PROVE  TypeInv'
<1>1. HandTypes' /\ LoopTypes'
  BY DEF handleFrame, PushParked, TypeInv, HandTypes, LoopTypes
<1>2. CASE handleFrame
  <2>1. arrived' \in 0 .. MaxNodes /\ arrived' \in Nodes
    BY <1>2, BoundsAssumption DEF handleFrame, TypeInv, QueueTypes, Nodes
  <2>2. queue' \in Seq(Nodes) /\ Len(queue') <= QueueSize
    BY <1>2, <2>1, QueueSizeAssumption DEF handleFrame, TypeInv, QueueTypes
  <2> QED BY <1>1, <1>2, <2>1, <2>2 DEF handleFrame, TypeInv, QueueTypes
<1>3. ASSUME NEW n \in Nodes, PushParked(n) PROVE TypeInv'
  <2>1. queue' \in Seq(Nodes) /\ Len(queue') <= QueueSize
    BY <1>3, QueueSizeAssumption DEF PushParked, TypeInv, QueueTypes
  <2> QED BY <1>1, <1>3, <2>1 DEF PushParked, TypeInv, QueueTypes
<1> QED BY <1>2, <1>3

\* handlerQueueLoop.
LEMMA LoopStepTypes ==
    ASSUME TypeInv, NEW k \in Conns, LoopStep(k)
    PROVE  TypeInv'
<1>0. conns \in Nat /\ k \in Nat /\ \A j \in Conns : j \in Nat
  BY BoundsAssumption DEF TypeInv, LoopTypes, Conns
<1>1. CASE TakeNode(k)
  <2>1. Head(queue) \in Nodes /\ queue' \in Seq(Nodes) /\ Len(queue') <= QueueSize
    BY <1>1, QueueSizeAssumption DEF TakeNode, TypeInv, QueueTypes
  <2>2. loops' \in [Conns -> Loop] /\ loops'[k] = [pc |-> "wait", node |-> Head(queue)]
        /\ \A j \in Conns : j # k => loops'[j] = loops[j]
    BY <1>1, <2>1 DEF TakeNode, TypeInv, LoopTypes, Loop
  <2>3. LoopTypes'
    BY <1>1, <2>1, <2>2 DEF TakeNode, TypeInv, LoopTypes
  <2>4. Elsewhere(k) \subseteq Nodes
    BY DEF Elsewhere, TypeInv, LoopTypes
  <2>5. HandTypes' /\ QueueTypes'
    BY <1>1, <2>1, <2>4 DEF TakeNode, TypeInv, HandTypes, HandlerSteps, QueueTypes
  <2> QED BY <2>3, <2>5 DEF TypeInv
<1>2. CASE HandlerDone(k) \/ GiveUp(k)
  <2>1. loops[k].node \in Nodes
    BY <1>2 DEF HandlerDone, GiveUp, TypeInv, LoopTypes
  <2>2. loops' \in [Conns -> Loop] /\ loops'[k].pc = "select" /\ loops[k].pc = "wait"
        /\ \A j \in Conns : j # k => loops'[j] = loops[j]
    BY <1>2 DEF HandlerDone, GiveUp, TypeInv, LoopTypes, Loop
  <2>3. LoopTypes'
    BY <1>2, <2>2 DEF HandlerDone, GiveUp, TypeInv, LoopTypes
  <2> QED BY <1>2, <2>1, <2>3 DEF HandlerDone, GiveUp, TypeInv, HandTypes, QueueTypes
<1>3. CASE LoopEnds(k)
  <2>1. loops' \in [Conns -> Loop] /\ loops'[k].pc = "gone" /\ loops[k].pc = "select"
        /\ \A j \in Conns : j # k => loops'[j] = loops[j]
    BY <1>3 DEF LoopEnds, TypeInv, LoopTypes, Loop
  <2> QED BY <1>3, <2>1 DEF LoopEnds, TypeInv, LoopTypes, HandTypes, QueueTypes
<1> QED BY <1>1, <1>2, <1>3 DEF LoopStep

\* The handler of a node.
LEMMA HandlerTypes ==
    ASSUME TypeInv, NEW n \in Nodes, HandlerStep(n) \/ Answered(n)
    PROVE  TypeInv'
<1>1. QueueTypes' /\ LoopTypes'
  BY DEF HandlerStep, Settings, AutoReply, DispatchEvent, Answered, TypeInv, QueueTypes, LoopTypes
<1>2. HandTypes'
  BY DEF HandlerStep, Settings, AutoReply, DispatchEvent, Answered, TypeInv, HandTypes,
     HandlerSteps
<1> QED BY <1>1, <1>2 DEF TypeInv

\* The connection.
LEMMA ConnTypes ==
    ASSUME TypeInv, Drop \/ Reconnect \/ UNCHANGED vars
    PROVE  TypeInv'
<1>1. QueueTypes' /\ HandTypes'
  BY DEF Drop, Reconnect, vars, TypeInv, QueueTypes, HandTypes
<1>2. CASE Drop \/ UNCHANGED vars
  BY <1>1, <1>2 DEF Drop, vars, TypeInv, LoopTypes
<1>3. CASE Reconnect
  <2>1. conns' \in Conns /\ live' = conns' /\ conns' = conns + 1 /\ conns \in Nat
    BY <1>3, BoundsAssumption DEF Reconnect, TypeInv, LoopTypes, Conns
  <2>2. loops' \in [Conns -> Loop] /\ loops'[conns'].pc = "select"
        /\ \A j \in Conns : j # conns' => loops'[j] = loops[j]
    BY <1>3, <2>1 DEF Reconnect, TypeInv, LoopTypes, Loop
  <2>3. \A k \in Conns : k > conns' => k > conns
    BY <2>1, BoundsAssumption DEF Conns
  <2>4. live' # None
    BY <2>1 DEF None, Conns
  <2>5. LoopTypes'
    BY <2>1, <2>2, <2>3, <2>4 DEF TypeInv, LoopTypes, Conns
  <2> QED BY <1>1, <2>5 DEF TypeInv
<1> QED BY <1>2, <1>3

\* Every step keeps the types.
LEMMA StepTypes == TypeInv /\ [Next]_vars => TypeInv'
BY ReaderTypes, LoopStepTypes, HandlerTypes, ConnTypes DEF Next

\* For every queue size, every number of nodes and every number of connections, the
\* variables keep their types; in particular the handler queue keeps its bound.
THEOREM QueueTypeCorrect == Spec => []TypeOK
BY InitTypes, StepTypes, TypeInvDef, PTL DEF Spec
-----------------------------------------------------------------------------
(* Sequences without repetitions *)

\* What Append adds.
LEMMA AppendFacts ==
    ASSUME NEW S, NEW s \in Seq(S), NEW x \in S
    PROVE  /\ ToSet(Append(s, x)) = ToSet(s) \cup {x}
           /\ IsInjective(s) /\ x \notin ToSet(s) => IsInjective(Append(s, x))
<1>1. /\ DOMAIN s = 1 .. Len(s) /\ DOMAIN Append(s, x) = 1 .. (Len(s) + 1) /\ Len(s) \in Nat
      /\ Append(s, x)[Len(s) + 1] = x /\ \A i \in 1 .. Len(s) : Append(s, x)[i] = s[i]
  OBVIOUS
<1>2. ToSet(Append(s, x)) = ToSet(s) \cup {x}
  <2>1. \A y \in ToSet(Append(s, x)) : y \in ToSet(s) \cup {x}
    BY <1>1 DEF ToSet
  <2>2. \A y \in ToSet(s) : y \in ToSet(Append(s, x))
    BY <1>1 DEF ToSet
  <2>3. x \in ToSet(Append(s, x))
    BY <1>1 DEF ToSet
  <2> QED BY <2>1, <2>2, <2>3
<1>3. ASSUME IsInjective(s), x \notin ToSet(s) PROVE IsInjective(Append(s, x))
  <2>1. \A i \in 1 .. Len(s) : s[i] # x
    BY <1>1, <1>3 DEF ToSet
  <2> QED BY <1>1, <1>3, <2>1 DEF IsInjective
<1> QED BY <1>2, <1>3

\* What is left after the head is taken.
LEMMA TailFacts ==
    ASSUME NEW S, NEW s \in Seq(S), s # <<>>
    PROVE  /\ Head(s) \in ToSet(s) /\ ToSet(Tail(s)) \subseteq ToSet(s)
           /\ \A x \in ToSet(s) : x = Head(s) \/ x \in ToSet(Tail(s))
           /\ IsInjective(s) => IsInjective(Tail(s)) /\ Head(s) \notin ToSet(Tail(s))
<1>1. /\ Len(s) \in Nat /\ Len(s) > 0 /\ DOMAIN s = 1 .. Len(s) /\ DOMAIN Tail(s) = 1 .. (Len(s) - 1)
      /\ Head(s) = s[1] /\ \A i \in 1 .. (Len(s) - 1) : Tail(s)[i] = s[i + 1]
  OBVIOUS
<1>2. Head(s) \in ToSet(s) /\ ToSet(Tail(s)) \subseteq ToSet(s)
  BY <1>1 DEF ToSet
<1>3. ASSUME NEW i \in 1 .. Len(s) PROVE s[i] = Head(s) \/ s[i] \in ToSet(Tail(s))
  <2>1. CASE i = 1
    BY <1>1, <2>1
  <2>2. CASE i # 1
    <3>1. i - 1 \in 1 .. (Len(s) - 1) /\ (i - 1) + 1 = i
      BY <1>1, <2>2
    <3> QED BY <1>1, <3>1 DEF ToSet
  <2> QED BY <2>1, <2>2
<1>4. \A x \in ToSet(s) : x = Head(s) \/ x \in ToSet(Tail(s))
  BY <1>1, <1>3 DEF ToSet
<1>5. ASSUME IsInjective(s) PROVE IsInjective(Tail(s)) /\ Head(s) \notin ToSet(Tail(s))
  <2>1. \A i, j \in 1 .. Len(s) : s[i] = s[j] => i = j
    BY <1>1, <1>5 DEF IsInjective
  <2>2. \A i \in 1 .. (Len(s) - 1) : i + 1 \in 1 .. Len(s) /\ 1 \in 1 .. Len(s) /\ i + 1 # 1
    BY <1>1
  <2>3. Head(s) \notin ToSet(Tail(s))
    BY <1>1, <2>1, <2>2 DEF ToSet
  <2>4. \A i, j \in 1 .. (Len(s) - 1) : i + 1 = j + 1 => i = j
    BY <1>1
  <2>5. IsInjective(Tail(s))
    BY <1>1, <2>1, <2>2, <2>4 DEF IsInjective
  <2> QED BY <2>3, <2>5
<1> QED BY <1>2, <1>4, <1>5

-----------------------------------------------------------------------------
(* No node is lost or handled twice *)

\* Where a node is, in a form that says at once what each place excludes: a node that
\* has not arrived is nowhere.
PlaceOf(n) ==
    /\ n \in parked => n <= arrived /\ hand[n] = "waiting" /\ ~InQueue(n)
    /\ InQueue(n) => n <= arrived /\ hand[n] = "waiting"
    /\ n <= arrived /\ hand[n] = "waiting" => n \in parked \/ InQueue(n)
    /\ hand[n] # "waiting" => n <= arrived
    /\ Dispatched(n) <=> hand[n] = "done"

PlaceInv == IsInjective(queue) /\ IsInjective(out) /\ \A n \in Nodes : PlaceOf(n)

\* PlaceInv says what NodeInOnePlace says.
LEMMA PlaceImplies == TypeInv /\ PlaceInv => NodeInOnePlace
<1> SUFFICES ASSUME TypeInv, PlaceInv, NEW n \in 1 .. arrived
             PROVE  \/ n \in parked /\ ~InQueue(n) /\ hand[n] = "waiting"
                    \/ InQueue(n) /\ n \notin parked /\ hand[n] = "waiting"
                    \/ InHandler(n) /\ ~InQueue(n) /\ n \notin parked /\ ~Dispatched(n)
                    \/ hand[n] = "done" /\ ~InQueue(n) /\ n \notin parked /\ Dispatched(n)
  BY DEF PlaceInv, NodeInOnePlace
<1>1. n \in Nodes /\ n <= arrived
  BY BoundsAssumption DEF TypeInv, QueueTypes, Nodes
<1> QED BY <1>1 DEF PlaceInv, PlaceOf, InHandler

\* Initially no node has arrived.
LEMMA InitPlace == Init => PlaceInv
<1> SUFFICES ASSUME Init PROVE PlaceInv
  OBVIOUS
<1>1. queue = <<>> /\ out = <<>> /\ ToSet(<<>>) = {} /\ IsInjective(<<>>)
  BY DEF Init, ToSet, IsInjective
<1>2. \A n \in Nodes : ~(n <= arrived)
  BY BoundsAssumption DEF Init, Nodes
<1> QED BY <1>1, <1>2 DEF Init, PlaceInv, PlaceOf, InQueue, Dispatched

\* A node arrives: into the queue, or to a goroutine of its own.
LEMMA ArrivePlace ==
    ASSUME TypeInv, PlaceInv, handleFrame
    PROVE  PlaceInv'
<1>1. arrived' \in Nodes /\ arrived' = arrived + 1 /\ hand' = hand /\ out' = out
  BY BoundsAssumption DEF handleFrame, TypeInv, QueueTypes, Nodes
<1>2. \A n \in Nodes : n <= arrived' <=> n <= arrived \/ n = arrived'
  BY <1>1, BoundsAssumption DEF TypeInv, QueueTypes, Nodes
<1>3. ~(arrived' <= arrived)
  BY <1>1, BoundsAssumption DEF TypeInv, QueueTypes
<1>4. ~InQueue(arrived') /\ arrived' \notin parked /\ hand[arrived'] = "waiting"
      /\ ~Dispatched(arrived')
  BY <1>1, <1>3 DEF PlaceInv, PlaceOf
<1>5. CASE queue' = Append(queue, arrived') /\ parked' = parked
  <2>1. ToSet(queue') = ToSet(queue) \cup {arrived'} /\ IsInjective(queue')
    BY <1>1, <1>4, <1>5, AppendFacts DEF TypeInv, QueueTypes, PlaceInv, InQueue
  <2> QED BY <1>1, <1>2, <1>4, <1>5, <2>1 DEF PlaceInv, PlaceOf, InQueue, Dispatched
<1>6. CASE queue' = queue /\ parked' = parked \cup {arrived'}
  BY <1>1, <1>2, <1>4, <1>6 DEF PlaceInv, PlaceOf, InQueue, Dispatched
<1> QED BY <1>5, <1>6 DEF handleFrame

\* A parked node goes into the queue.
LEMMA PushPlace ==
    ASSUME TypeInv, PlaceInv, NEW n \in Nodes, PushParked(n)
    PROVE  PlaceInv'
<1>1. ToSet(queue') = ToSet(queue) \cup {n} /\ IsInjective(queue')
  BY AppendFacts DEF PushParked, TypeInv, QueueTypes, PlaceInv, PlaceOf, InQueue
<1> QED BY <1>1 DEF PushParked, PlaceInv, PlaceOf, InQueue, Dispatched

\* A loop takes a node out of the queue.
LEMMA TakePlace ==
    ASSUME TypeInv, PlaceInv, NEW k \in Conns, TakeNode(k)
    PROVE  PlaceInv'
<1>1. queue \in Seq(Nodes) /\ queue # <<>> /\ queue' = Tail(queue) /\ IsInjective(queue)
  BY DEF TakeNode, TypeInv, QueueTypes, PlaceInv
<1>2. /\ Head(queue) \in ToSet(queue) /\ ToSet(queue') \subseteq ToSet(queue) /\ IsInjective(queue')
      /\ Head(queue) \notin ToSet(queue')
      /\ \A n \in ToSet(queue) : n = Head(queue) \/ n \in ToSet(queue')
  BY <1>1, TailFacts
<1>3. Head(queue) \in Nodes
  BY <1>1
<1>4. /\ hand'[Head(queue)] = "started" /\ \A n \in Nodes : n # Head(queue) => hand'[n] = hand[n]
      /\ parked' = parked /\ arrived' = arrived /\ out' = out
  BY <1>3 DEF TakeNode, TypeInv, HandTypes
<1>5. hand[Head(queue)] = "waiting" /\ Head(queue) <= arrived /\ Head(queue) \notin parked
  BY <1>2, <1>3 DEF PlaceInv, PlaceOf, InQueue
<1>6. ASSUME NEW n \in Nodes PROVE PlaceOf(n)'
  <2>1. CASE n = Head(queue)
    BY <1>2, <1>3, <1>4, <1>5, <2>1 DEF PlaceInv, PlaceOf, InQueue, Dispatched
  <2>2. CASE n # Head(queue)
    BY <1>2, <1>4, <2>2 DEF PlaceInv, PlaceOf, InQueue, Dispatched
  <2> QED BY <2>1, <2>2
<1> QED BY <1>2, <1>4, <1>6 DEF PlaceInv

\* The handler of a node goes on, and dispatches its event.
LEMMA HandlerPlace ==
    ASSUME TypeInv, PlaceInv, NEW n \in Nodes, HandlerStep(n) \/ Answered(n)
    PROVE  PlaceInv'
<1>1. queue' = queue /\ parked' = parked /\ arrived' = arrived
  BY DEF HandlerStep, Settings, AutoReply, DispatchEvent, Answered
<1>2. /\ hand[n] \notin {"waiting", "done"} /\ hand'[n] # "waiting"
      /\ \A m \in Nodes : m # n => hand'[m] = hand[m]
  BY DEF HandlerStep, Settings, AutoReply, DispatchEvent, Answered, TypeInv, HandTypes
<1>3. ~Dispatched(n) /\ ~InQueue(n) /\ n \notin parked /\ n <= arrived
  BY <1>2 DEF PlaceInv, PlaceOf
<1>4. CASE DispatchEvent(n)
  <2>1. hand'[n] = "done" /\ ToSet(out') = ToSet(out) \cup {n} /\ IsInjective(out')
    BY <1>3, <1>4, AppendFacts DEF DispatchEvent, TypeInv, HandTypes, PlaceInv, Dispatched
  <2> QED BY <1>1, <1>2, <1>3, <2>1 DEF PlaceInv, PlaceOf, InQueue, Dispatched
<1>5. CASE Settings(n) \/ AutoReply(n) \/ Answered(n)
  <2>1. hand'[n] # "done" /\ out' = out
    BY <1>5 DEF Settings, AutoReply, Answered, TypeInv, HandTypes
  <2> QED BY <1>1, <1>2, <1>3, <2>1 DEF PlaceInv, PlaceOf, InQueue, Dispatched
<1> QED BY <1>4, <1>5 DEF HandlerStep

\* The other steps of the loops, and the connection, move no node.
LEMMA StillPlace ==
    ASSUME PlaceInv, UNCHANGED <<queue, parked, arrived, hand, out>>
    PROVE  PlaceInv'
BY DEF PlaceInv, PlaceOf, InQueue, Dispatched

\* Every step keeps each node in one place.
LEMMA StepPlace == TypeInv /\ PlaceInv /\ [Next]_vars => PlaceInv'
<1> SUFFICES ASSUME TypeInv, PlaceInv, [Next]_vars PROVE PlaceInv'
  OBVIOUS
<1>1. CASE handleFrame \/ \E n \in Nodes : PushParked(n) \/ HandlerStep(n) \/ Answered(n)
  BY <1>1, ArrivePlace, PushPlace, HandlerPlace
<1>2. CASE \E k \in Conns : TakeNode(k)
  BY <1>2, TakePlace
<1>3. CASE \/ Drop \/ Reconnect \/ UNCHANGED vars
           \/ \E k \in Conns : HandlerDone(k) \/ GiveUp(k) \/ LoopEnds(k)
  BY <1>3, StillPlace DEF Drop, Reconnect, vars, HandlerDone, GiveUp, LoopEnds
<1> QED BY <1>1, <1>2, <1>3 DEF Next, LoopStep

\* For every queue size, every number of nodes and of connections, with their loops over
\* the one queue, a node is neither lost nor handled twice.
THEOREM NoNodeLost == Spec => []NodeInOnePlace
BY InitTypes, StepTypes, InitPlace, StepPlace, PlaceImplies, PTL DEF Spec

-----------------------------------------------------------------------------
(* The order of the events *)

\* Of the nodes in the queue, only one that met a full queue is behind a later one.
QueueInOrder ==
    /\ parked \subseteq late
    /\ \A i, j \in 1 .. Len(queue) : i < j /\ queue[i] > queue[j] => queue[j] \in late

\* A handler at work is one that a loop waits for, unless its node may be overtaken.
Watched ==
    \A n \in Nodes : InHandler(n) /\ n \notin late =>
        \E k \in Conns : loops[k].pc = "wait" /\ loops[k].node = n

\* As long as a node may not be overtaken and is not done, no later one has started.
NotOvertaken ==
    \A n, m \in Nodes :
        n < m /\ n \notin late /\ n <= arrived /\ hand[n] # "done" => hand[m] = "waiting"

OrderInv == QueueInOrder /\ Watched /\ NotOvertaken /\ InOrder

\* Initially nothing has arrived.
LEMMA InitOrder == Init => OrderInv
BY DEF Init, OrderInv, QueueInOrder, Watched, NotOvertaken, InOrder, InHandler

\* A node arrives: it is the last one.
LEMMA ArriveOrder ==
    ASSUME TypeInv, PlaceInv, OrderInv, handleFrame
    PROVE  OrderInv'
<1>1. arrived' \in Nodes /\ arrived' = arrived + 1 /\ UNCHANGED <<hand, out, loops>>
  BY BoundsAssumption DEF handleFrame, TypeInv, QueueTypes, Nodes
<1>2. late \subseteq late'
  BY DEF handleFrame
<1>3. \A n \in Nodes : n \in Nat /\ (n <= arrived' => n <= arrived \/ n = arrived')
                       /\ (n > arrived => hand[n] = "waiting")
  BY <1>1, BoundsAssumption DEF TypeInv, QueueTypes, Nodes, PlaceInv, PlaceOf
<1>4. Watched' /\ InOrder'
  BY <1>1, <1>2 DEF OrderInv, Watched, InOrder, InHandler
<1>5. NotOvertaken'
  <2> SUFFICES ASSUME NEW n \in Nodes, NEW m \in Nodes, n < m, n \notin late, n <= arrived',
                      hand[n] # "done"
               PROVE  hand[m] = "waiting"
    BY <1>1, <1>2 DEF NotOvertaken
  <2>1. CASE n <= arrived
    BY <2>1 DEF OrderInv, NotOvertaken
  <2>2. CASE n = arrived'
    <3>1. m > arrived
      BY <1>1, <1>3, <2>2, BoundsAssumption DEF TypeInv, QueueTypes
    <3> QED BY <1>3, <3>1
  <2> QED BY <1>3, <2>1, <2>2
<1>6. QueueInOrder'
  <2>1. CASE queue' = queue /\ parked' = parked \cup {arrived'} /\ late' = late \cup {arrived'}
    BY <2>1 DEF OrderInv, QueueInOrder
  <2>2. CASE queue' = Append(queue, arrived') /\ UNCHANGED <<parked, late>>
    <3>1. /\ Len(queue) \in Nat /\ Len(queue') = Len(queue) + 1 /\ queue'[Len(queue) + 1] = arrived'
          /\ \A i \in 1 .. Len(queue) : queue'[i] = queue[i]
      BY <1>1, <2>2 DEF TypeInv, QueueTypes
    <3>2. \A i \in 1 .. Len(queue) : ~(queue[i] > arrived')
      <4>1. \A i \in 1 .. Len(queue) : queue[i] \in Nodes /\ InQueue(queue[i])
        BY DEF TypeInv, QueueTypes, InQueue, ToSet
      <4>2. \A i \in 1 .. Len(queue) : queue[i] <= arrived
        BY <4>1 DEF PlaceInv, PlaceOf
      <4>3. arrived \in Nat /\ arrived' = arrived + 1
        BY <1>1, BoundsAssumption DEF TypeInv, QueueTypes
      <4>4. \A i \in 1 .. Len(queue) : queue[i] \in Nat
        BY <1>3, <4>1
      <4> QED BY <4>2, <4>3, <4>4
    <3>3. ASSUME NEW i \in 1 .. Len(queue'), NEW j \in 1 .. Len(queue'), i < j,
                 queue'[i] > queue'[j]
          PROVE  queue'[j] \in late'
      <4>1. i \in 1 .. Len(queue) /\ (j \in 1 .. Len(queue) \/ j = Len(queue) + 1)
        BY <3>1, <3>3
      <4> QED BY <2>2, <3>1, <3>2, <3>3, <4>1 DEF OrderInv, QueueInOrder
    <3> QED BY <2>2, <3>3 DEF OrderInv, QueueInOrder
  <2> QED BY <2>1, <2>2 DEF handleFrame
<1> QED BY <1>4, <1>5, <1>6 DEF OrderInv

\* A parked node, which others may overtake, goes behind the queue.
LEMMA PushOrder ==
    ASSUME TypeInv, OrderInv, NEW n \in Nodes, PushParked(n)
    PROVE  OrderInv'
<1>1. n \in late /\ UNCHANGED <<arrived, hand, out, loops, late>> /\ parked' \subseteq parked
  BY DEF PushParked, OrderInv, QueueInOrder
<1>2. Watched' /\ InOrder' /\ NotOvertaken'
  BY <1>1 DEF OrderInv, Watched, InOrder, NotOvertaken, InHandler
<1>3. /\ Len(queue) \in Nat /\ Len(queue') = Len(queue) + 1 /\ queue'[Len(queue) + 1] = n
      /\ \A i \in 1 .. Len(queue) : queue'[i] = queue[i]
  BY DEF PushParked, TypeInv, QueueTypes
<1>4. ASSUME NEW i \in 1 .. Len(queue'), NEW j \in 1 .. Len(queue'), i < j, queue'[i] > queue'[j]
      PROVE  queue'[j] \in late'
  <2>1. i \in 1 .. Len(queue) /\ (j \in 1 .. Len(queue) \/ j = Len(queue) + 1)
    BY <1>3, <1>4
  <2> QED BY <1>1, <1>3, <1>4, <2>1 DEF OrderInv, QueueInOrder
<1> QED BY <1>1, <1>2, <1>4 DEF OrderInv, QueueInOrder

\* A loop takes the head of the queue.  A node before it that is not done is behind it
\* in the queue or parked, or its handler is watched by another loop: all of them may
\* be overtaken from here on.
LEMMA TakeOrder ==
    ASSUME TypeInv, PlaceInv, OrderInv, NEW k \in Conns, TakeNode(k)
    PROVE  OrderInv'
<1> DEFINE h == Head(queue)
<1>1. /\ queue \in Seq(Nodes) /\ queue # <<>> /\ queue' = Tail(queue) /\ h \in Nodes
      /\ UNCHANGED <<parked, arrived, out>> /\ late' = late \cup Elsewhere(k)
  BY DEF TakeNode, TypeInv, QueueTypes
<1>2. /\ Len(queue) \in Nat /\ Len(queue) > 0 /\ h = queue[1] /\ Len(queue') = Len(queue) - 1
      /\ \A i \in 1 .. (Len(queue) - 1) : queue'[i] = queue[i + 1]
  BY <1>1
<1>3. /\ hand'[h] = "started" /\ \A n \in Nodes : n # h => hand'[n] = hand[n]
      /\ loops[k].pc = "select" /\ loops'[k] = [pc |-> "wait", node |-> h]
      /\ \A j \in Conns : j # k => loops'[j] = loops[j]
  BY <1>1 DEF TakeNode, TypeInv, HandTypes, LoopTypes
<1>4. hand[h] = "waiting" /\ InQueue(h)
  BY <1>1, TailFacts DEF PlaceInv, PlaceOf, InQueue
<1> HIDE DEF h
<1>5. QueueInOrder'
  <2>1. ASSUME NEW i \in 1 .. Len(queue'), NEW j \in 1 .. Len(queue'), i < j,
               queue'[i] > queue'[j]
        PROVE  queue'[j] \in late'
    <3>1. i + 1 \in 1 .. Len(queue) /\ j + 1 \in 1 .. Len(queue) /\ i + 1 < j + 1
          /\ queue'[i] = queue[i + 1] /\ queue'[j] = queue[j + 1]
      BY <1>2, <2>1
    <3> QED BY <1>1, <2>1, <3>1 DEF OrderInv, QueueInOrder
  <2> QED BY <1>1, <2>1 DEF OrderInv, QueueInOrder
<1>6. Watched'
  <2> SUFFICES ASSUME NEW n \in Nodes, InHandler(n)', n \notin late'
               PROVE  \E j \in Conns : loops'[j].pc = "wait" /\ loops'[j].node = n
    BY DEF Watched
  <2>1. CASE n = h
    BY <1>3, <2>1
  <2>2. CASE n # h
    <3>1. PICK j \in Conns : loops[j].pc = "wait" /\ loops[j].node = n
      BY <1>1, <1>3, <2>2 DEF OrderInv, Watched, InHandler
    <3> QED BY <1>3, <3>1
  <2> QED BY <2>1, <2>2
<1>7. ASSUME NEW n \in Nodes, n < h, n \notin late', n <= arrived, hand[n] # "done"
      PROVE  FALSE
  <2>0. n \notin late /\ n \notin Elsewhere(k) /\ n # h
    BY <1>1, <1>7 DEF Nodes
  <2>1. CASE hand[n] # "waiting"
    <3>1. PICK j \in Conns : loops[j].pc = "wait" /\ loops[j].node = n
      BY <1>7, <2>0, <2>1 DEF OrderInv, Watched, InHandler
    <3>2. j # k
      BY <1>3, <3>1
    <3> QED BY <2>0, <3>1, <3>2 DEF Elsewhere
  <2>2. CASE hand[n] = "waiting"
    <3>1. n \notin parked
      BY <2>0 DEF OrderInv, QueueInOrder
    <3>2. InQueue(n)
      BY <1>7, <2>2, <3>1 DEF PlaceInv, PlaceOf
    <3>3. PICK i \in 1 .. Len(queue) : queue[i] = n
      BY <1>1, <3>2 DEF InQueue, ToSet
    <3>4. 1 \in 1 .. Len(queue) /\ 1 < i /\ queue[1] > queue[i]
      BY <1>1, <1>2, <1>7, <2>0, <3>3 DEF Nodes
    <3> QED BY <2>0, <3>3, <3>4 DEF OrderInv, QueueInOrder
  <2> QED BY <2>1, <2>2
<1>8. NotOvertaken'
  <2> SUFFICES ASSUME NEW n \in Nodes, NEW m \in Nodes, n < m, n \notin late', n <= arrived,
                      hand'[n] # "done"
               PROVE  hand'[m] = "waiting"
    BY <1>1 DEF NotOvertaken
  <2>1. hand[n] # "done" /\ n \notin late
    BY <1>1, <1>3, <1>4
  <2>2. m # h
    BY <1>7, <2>1
  <2> QED BY <1>3, <2>1, <2>2 DEF OrderInv, NotOvertaken
<1>9. InOrder'
  BY <1>1 DEF OrderInv, InOrder
<1> QED BY <1>5, <1>6, <1>8, <1>9 DEF OrderInv

\* The handler goes on.  When it dispatches the event, no later node has been
\* dispatched, unless this one may be overtaken.
LEMMA HandlerOrder ==
    ASSUME TypeInv, PlaceInv, OrderInv, NEW n \in Nodes, HandlerStep(n) \/ Answered(n)
    PROVE  OrderInv'
<1>1. UNCHANGED <<queue, parked, arrived, loops, late>>
  BY DEF HandlerStep, Settings, AutoReply, DispatchEvent, Answered
<1>2. /\ hand[n] \notin {"waiting", "done"} /\ hand'[n] # "waiting"
      /\ \A m \in Nodes : m # n => hand'[m] = hand[m]
  BY DEF HandlerStep, Settings, AutoReply, DispatchEvent, Answered, TypeInv, HandTypes
<1>3. QueueInOrder' /\ Watched' /\ NotOvertaken'
  BY <1>1, <1>2 DEF OrderInv, QueueInOrder, Watched, NotOvertaken, InHandler
<1>4. CASE out' = out
  BY <1>1, <1>3, <1>4 DEF OrderInv, InOrder
<1>5. CASE out' = Append(out, n)
  <2>1. /\ Len(out) \in Nat /\ DOMAIN out = 1 .. Len(out) /\ DOMAIN out' = 1 .. (Len(out) + 1)
        /\ out'[Len(out) + 1] = n /\ \A i \in 1 .. Len(out) : out'[i] = out[i] /\ out[i] \in Nodes
    BY <1>5 DEF TypeInv, HandTypes
  <2>2. ASSUME NEW i \in 1 .. Len(out), out[i] > n PROVE n \in late
    <3>1. out[i] \in Nodes /\ Dispatched(out[i])
      BY <2>1 DEF Dispatched, ToSet
    <3>2. hand[out[i]] = "done" /\ n <= arrived
      BY <1>2, <3>1 DEF PlaceInv, PlaceOf
    <3>3. n < out[i]
      BY <2>2, <3>1 DEF Nodes
    <3> QED BY <1>2, <3>1, <3>2, <3>3 DEF OrderInv, NotOvertaken
  <2>3. ASSUME NEW i \in 1 .. (Len(out) + 1), NEW j \in 1 .. (Len(out) + 1), i < j,
               out'[i] > out'[j]
        PROVE  out'[j] \in late'
    <3>1. i \in 1 .. Len(out) /\ (j \in 1 .. Len(out) \/ j = Len(out) + 1)
      BY <2>1, <2>3
    <3> QED BY <1>1, <2>1, <2>2, <2>3, <3>1 DEF OrderInv, InOrder
  <2> QED BY <1>3, <2>1, <2>3 DEF OrderInv, InOrder
<1> QED BY <1>4, <1>5 DEF HandlerStep, Settings, AutoReply, DispatchEvent, Answered

\* A loop stops to wait: its handler is done, or its node may be overtaken.
LEMMA LoopOrder ==
    ASSUME TypeInv, OrderInv, NEW k \in Conns, HandlerDone(k) \/ GiveUp(k) \/ LoopEnds(k)
    PROVE  OrderInv'
<1>1. UNCHANGED <<queue, parked, arrived, hand, out>> /\ late \subseteq late'
  BY DEF HandlerDone, GiveUp, LoopEnds
<1>2. \A j \in Conns : j # k => loops'[j] = loops[j]
  BY DEF HandlerDone, GiveUp, LoopEnds, TypeInv, LoopTypes
<1>3. ASSUME NEW n \in Nodes, InHandler(n), n \notin late'
      PROVE  ~(loops[k].pc = "wait" /\ loops[k].node = n)
  BY <1>3 DEF HandlerDone, GiveUp, LoopEnds, InHandler
<1>4. Watched'
  BY <1>1, <1>2, <1>3 DEF OrderInv, Watched, InHandler
<1> QED BY <1>1, <1>4 DEF OrderInv, QueueInOrder, NotOvertaken, InOrder

\* The connection: a new one brings a loop that waits for nothing.
LEMMA ConnOrder ==
    ASSUME TypeInv, OrderInv, Drop \/ Reconnect \/ UNCHANGED vars
    PROVE  OrderInv'
<1>1. UNCHANGED <<queue, parked, arrived, hand, out, late>>
  BY DEF Drop, Reconnect, vars
<1>2. ASSUME NEW j \in Conns, loops[j].pc = "wait" PROVE loops'[j] = loops[j]
  <2>1. CASE Reconnect
    <3>1. conns \in Nat /\ conns' = conns + 1 /\ conns' > conns
      BY <2>1, BoundsAssumption DEF Reconnect, TypeInv, LoopTypes, Conns
    <3>2. j # conns'
      BY <1>2, <3>1 DEF TypeInv, LoopTypes
    <3> QED BY <2>1, <3>2 DEF Reconnect, TypeInv, LoopTypes
  <2> QED BY <2>1 DEF Drop, vars
<1>3. Watched'
  BY <1>1, <1>2 DEF OrderInv, Watched, InHandler
<1> QED BY <1>1, <1>3 DEF OrderInv, QueueInOrder, NotOvertaken, InOrder

\* Every step keeps the order.
LEMMA StepOrder == TypeInv /\ PlaceInv /\ OrderInv /\ [Next]_vars => OrderInv'
BY ArriveOrder, PushOrder, TakeOrder, HandlerOrder, LoopOrder, ConnOrder DEF Next, LoopStep

\* For every queue size, every number of nodes and of connections, an event is dispatched
\* before those of later nodes, unless its node met a full queue, its handler took more
\* than five minutes, or the loop of another connection took a node in the meantime.
THEOREM EventOrderCorrect == Spec => []InOrder
<1>1. OrderInv => InOrder
  BY DEF OrderInv
<1> QED BY <1>1, InitTypes, StepTypes, InitPlace, StepPlace, InitOrder, StepOrder, PTL DEF Spec
=============================================================================
