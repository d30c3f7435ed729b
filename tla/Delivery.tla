------------------------------ MODULE Delivery ------------------------------
(***************************************************************************)
(* What the event dispatcher promises to a WebSocket client, without locks *)
(* and loops: from the moment it joins an instance until it leaves, it is  *)
(* owed every event published there, and each event it is owed is put into *)
(* its bounded queue once or, if that is full just then, missed.           *)
(***************************************************************************)
EXTENDS Naturals, Sequences

CONSTANTS
    Sessions,   \* WebSocket clients
    Instances,  \* instance IDs
    Events,     \* events: records with the instance in field inst
    NoInst,     \* no instance
    Cap         \* size of a queue

VARIABLES
    member,     \* session -> the instance it has joined, or NoInst
    published,  \* events published so far
    owed,       \* session -> events that are still to be put or missed
    queue       \* session -> events in its queue

vars == <<member, published, owed, queue>>

Init ==
    /\ member = [s \in Sessions |-> NoInst]
    /\ published = {}
    /\ owed = [s \in Sessions |-> {}]
    /\ queue = [s \in Sessions |-> <<>>]

Join(s, i) ==
    /\ member[s] = NoInst
    /\ member' = [member EXCEPT ![s] = i]
    /\ UNCHANGED <<published, owed, queue>>

\* Nobody leaves while events are owed, and what is queued then is gone.
Leave(s) ==
    /\ member[s] # NoInst
    /\ owed[s] = {}
    /\ member' = [member EXCEPT ![s] = NoInst]
    /\ queue' = [queue EXCEPT ![s] = <<>>]
    /\ UNCHANGED <<published, owed>>

\* An event is published once, to all members of its instance.
Publish(e) ==
    /\ e \notin published
    /\ published' = published \cup {e}
    /\ owed' = [s \in Sessions |-> IF member[s] = e.inst THEN owed[s] \cup {e} ELSE owed[s]]
    /\ UNCHANGED <<member, queue>>

Put(s, e) ==
    /\ e \in owed[s]
    /\ Len(queue[s]) < Cap
    /\ queue' = [queue EXCEPT ![s] = Append(@, e)]
    /\ owed' = [owed EXCEPT ![s] = @ \ {e}]
    /\ UNCHANGED <<member, published>>

Miss(s, e) ==
    /\ e \in owed[s]
    /\ Len(queue[s]) >= Cap
    /\ owed' = [owed EXCEPT ![s] = @ \ {e}]
    /\ UNCHANGED <<member, published, queue>>

Take(s) ==
    /\ queue[s] # <<>>
    /\ queue' = [queue EXCEPT ![s] = Tail(@)]
    /\ UNCHANGED <<member, published, owed>>

Next ==
    \/ \E s \in Sessions : \/ Leave(s) \/ Take(s)
                           \/ \E i \in Instances : Join(s, i)
                           \/ \E e \in Events : Put(s, e) \/ Miss(s, e)
    \/ \E e \in Events : Publish(e)

Spec == Init /\ [][Next]_vars
=============================================================================
