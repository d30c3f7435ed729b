---------------------------- MODULE Idempotency ----------------------------
(***************************************************************************)
(* The Idempotency-Key store (app/http/middleware/idempotency.go).         *)
(*                                                                         *)
(* A request that passes the middleware looks its key up; on a hit the     *)
(* cached response is replayed, on a miss the request goes on to the       *)
(* handler.  StoreIdempotencyResult is, by its comment, to be called after *)
(* the response; nothing is locked in between.  Neither is used yet: no    *)
(* route of routes/api.go has the middleware and nothing calls             *)
(* StoreIdempotencyResult, so the step from the handler to it is taken     *)
(* from that comment.                                                      *)
(*                                                                         *)
(* What a response says is left out.  Time is counted in cleanup periods,  *)
(* rounded down, so that entries may be equally old.                       *)
(***************************************************************************)
EXTENDS Naturals, FiniteSets

CONSTANTS
    Clients,     \* concurrent API requests
    Keys,        \* idempotency keys in use
    MaxEntries,  \* IDEMPOTENCY_MAX_ENTRIES
    Lifetime,    \* 24 hours
    MaxTime      \* bound on the clock

ASSUME BoundsAssumption == MaxEntries \in Nat \ {0} /\ Lifetime \in Nat /\ MaxTime \in Nat

VARIABLES
    entries,  \* idempotencyStore: a set of records, one per key
    now,      \* the clock
    req       \* per client: next step and key

vars == <<entries, now, req>>

Idle == [pc |-> "idle", key |-> "none"]

Init == entries = {} /\ now = 0 /\ req = [c \in Clients |-> Idle]

Cached(k) == {e \in entries : e.key = k}

\* A request with a key arrives.
Receive(c, k) ==
    /\ req[c] = Idle
    /\ req' = [req EXCEPT ![c] = [pc |-> "lookup", key |-> k]]
    /\ UNCHANGED <<entries, now>>

\* The middleware: Next on a miss, the cached response on a hit.
Lookup(c) ==
    /\ req[c].pc = "lookup"
    /\ req' = [req EXCEPT ![c] = IF Cached(req[c].key) = {}
                                 THEN [@ EXCEPT !.pc = "handler"] ELSE Idle]
    /\ UNCHANGED <<entries, now>>

\* Mutant of evictOldestLocked: the comparison is the wrong way round.
evictNewest(s) ==
    {s \ {e} : e \in {x \in s : \A y \in s : x.at >= y.at}}

\* Mutant of evictOldestLocked: nothing is evicted.
evictNothing(s) == {s}

\* evictOldestLocked: the store without one of its oldest entries (StoreResult is
\* the only caller, so one is all that is ever too many); the order of a Go map
\* decides among equally old ones.
evictOldestLocked(s) ==
    {s \ {e} : e \in {x \in s : \A y \in s : x.at <= y.at}}

\* StoreIdempotencyResult, once the handler has answered: it replaces what another
\* request with the key has stored meanwhile.
StoreResult(c) ==
    LET k == req[c].key
        s == (entries \ Cached(k)) \cup {[key |-> k, at |-> now]}
    IN  /\ req[c].pc = "handler"
        /\ entries' \in IF Cardinality(s) > MaxEntries THEN evictOldestLocked(s) ELSE {s}
        /\ req' = [req EXCEPT ![c] = Idle]
        /\ UNCHANGED now

Tick ==
    /\ now < MaxTime
    /\ now' = now + 1
    /\ UNCHANGED <<entries, req>>

\* The goroutine started by init(): entries from before the cutoff are deleted.
Cleanup ==
    /\ entries' = {e \in entries : e.at + Lifetime >= now}
    /\ UNCHANGED <<now, req>>

Next ==
    \/ \E c \in Clients : Lookup(c) \/ StoreResult(c) \/ \E k \in Keys : Receive(c, k)
    \/ Tick \/ Cleanup

Spec == Init /\ [][Next]_vars

-----------------------------------------------------------------------------
\* Types; the store has one entry per key and never more than MaxEntries.
TypeOK ==
    /\ entries \subseteq [key : Keys, at : 0 .. MaxTime]
    /\ \A e, f \in entries : e.key = f.key => e = f
    /\ Cardinality(entries) <= MaxEntries
    /\ now \in 0 .. MaxTime
    /\ req \in [Clients -> [pc : {"idle", "lookup", "handler"}, key : Keys \cup {"none"}]]

\* An entry leaves the store for one of three reasons: its key is stored again,
\* it is older than 24 hours, or the store is full and no entry that stays is
\* older.
EvictedLast ==
    [][\A e \in entries \ entries' :
          \/ \E f \in entries' : f.key = e.key
          \/ e.at + Lifetime < now
          \/ Cardinality(entries') = MaxEntries /\ \A f \in entries' : e.at <= f.at]_vars
=============================================================================
