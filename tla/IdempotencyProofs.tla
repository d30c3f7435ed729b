------------------------- MODULE IdempotencyProofs -------------------------
(***************************************************************************)
(* Theorems about Idempotency: its types and its bound, and what an        *)
(* eviction removes.                                                       *)
(***************************************************************************)
EXTENDS Idempotency, FiniteSetTheorems, TLAPS

Entry == [key : Keys, at : 0 .. MaxTime]
Request == [pc : {"idle", "lookup", "handler"}, key : Keys \cup {"none"}]

\* The store: one entry per key, within the bound.
StoreInv ==
    /\ entries \subseteq Entry /\ IsFiniteSet(entries)
    /\ \A e, f \in entries : e.key = f.key => e = f
    /\ Cardinality(entries) <= MaxEntries

\* A request that is under way has a key.
ReqInv ==
    /\ req \in [Clients -> Request]
    /\ \A c \in Clients : req[c].pc # "idle" => req[c].key \in Keys

Inv == StoreInv /\ ReqInv /\ now \in 0 .. MaxTime

\* Inv is TypeOK, and more.
LEMMA InvType == Inv => TypeOK
BY DEF Inv, StoreInv, ReqInv, TypeOK, Entry, Request

\* Initially nothing is stored.
LEMMA InitInv == Init => Inv
<1> SUFFICES ASSUME Init PROVE Inv
  OBVIOUS
<1>1. StoreInv
  BY FS_EmptySet, BoundsAssumption DEF Init, StoreInv
<1>2. ReqInv /\ now \in 0 .. MaxTime
  BY BoundsAssumption DEF Init, ReqInv, Request, Idle
<1> QED BY <1>1, <1>2 DEF Inv

\* A request arrives, or its key is looked up.
LEMMA RequestInv ==
    ASSUME Inv, NEW c \in Clients, Lookup(c) \/ \E k \in Keys : Receive(c, k)
    PROVE  Inv'
<1>1. UNCHANGED <<entries, now>>
  BY DEF Lookup, Receive
<1>2. req \in [Clients -> Request] /\ (req[c].pc # "idle" => req[c].key \in Keys)
  BY DEF Inv, ReqInv
<1>3. \E q \in Request : req' = [req EXCEPT ![c] = q] /\ (q.pc # "idle" => q.key \in Keys)
  <2>1. CASE Lookup(c)
    <3>1. Idle \in Request /\ Idle.pc = "idle"
      BY DEF Idle, Request
    <3>2. /\ [req[c] EXCEPT !.pc = "handler"] \in Request
          /\ [req[c] EXCEPT !.pc = "handler"].key = req[c].key /\ req[c].key \in Keys
      BY <1>2, <2>1 DEF Lookup, Request
    <3> QED BY <1>2, <2>1, <3>1, <3>2 DEF Lookup
  <2>2. ASSUME NEW k \in Keys, Receive(c, k)
        PROVE  /\ [pc |-> "lookup", key |-> k] \in Request
               /\ req' = [req EXCEPT ![c] = [pc |-> "lookup", key |-> k]]
    BY <2>2 DEF Receive, Request
  <2> QED BY <2>1, <2>2
<1>4. ReqInv'
  BY <1>2, <1>3 DEF Inv, ReqInv
<1> QED BY <1>1, <1>4 DEF Inv, StoreInv

\* What StoreIdempotencyResult makes of the store: the key's entry is replaced, or an
\* entry is added and, beyond the bound, one of the oldest is dropped.
LEMMA Stored ==
    ASSUME Inv, NEW c \in Clients, StoreResult(c)
    PROVE  \E new \in Entry :
              /\ new.key = req[c].key
              /\ \/ entries' = (entries \ Cached(new.key)) \cup {new}
                    /\ Cardinality(entries') <= MaxEntries
                 \/ /\ Cached(new.key) = {} /\ Cardinality(entries') = MaxEntries
                    /\ \E old \in entries \cup {new} :
                          /\ entries' = (entries \cup {new}) \ {old}
                          /\ \A f \in entries \cup {new} : old.at <= f.at
<1> DEFINE k == req[c].key
           new == [key |-> k, at |-> now]
           s == (entries \ Cached(k)) \cup {new}
<1>1. new \in Entry /\ new.key = k
  <2>1. k \in Keys
    BY DEF StoreResult, Inv, ReqInv
  <2> QED BY <2>1 DEF Entry, Inv
<1>2. entries' \in IF Cardinality(s) > MaxEntries THEN evictOldestLocked(s) ELSE {s}
  BY DEF StoreResult
<1>3. IsFiniteSet(entries) /\ Cardinality(entries) \in Nat /\ Cardinality(entries) <= MaxEntries
  BY FS_CardinalityType DEF Inv, StoreInv
<1> HIDE DEF new
<1>4. Cached(k) \subseteq entries /\ new \notin entries \ Cached(k)
  BY <1>1 DEF Cached
<1>5. IsFiniteSet(entries \ Cached(k)) /\ Cardinality(s) = Cardinality(entries \ Cached(k)) + 1
      /\ IsFiniteSet(s) /\ Cardinality(s) \in Nat
  <2>1. IsFiniteSet(entries \ Cached(k))
    BY <1>3, FS_Subset
  <2> QED BY <1>4, <2>1, FS_AddElement, FS_CardinalityType
<1>6. CASE Cardinality(s) <= MaxEntries
  <2>1. entries' = s
    BY <1>2, <1>5, <1>6, BoundsAssumption
  <2> QED BY <1>1, <1>6, <2>1
<1>7. CASE Cardinality(s) > MaxEntries
  <2>1. Cached(k) = {}
    <3>1. SUFFICES ASSUME NEW x \in Cached(k) PROVE FALSE
      OBVIOUS
    <3>2. entries \ Cached(k) \subseteq entries \ {x} /\ x \in entries
      BY <1>4, <3>1
    <3>3. IsFiniteSet(entries \ {x}) /\ Cardinality(entries \ {x}) = Cardinality(entries) - 1
      BY <1>3, <3>2, FS_RemoveElement
    <3>4. Cardinality(entries \ Cached(k)) <= Cardinality(entries \ {x})
      BY <3>2, <3>3, FS_Subset
    <3>5. Cardinality(entries \ Cached(k)) \in Nat
      BY <1>5, FS_CardinalityType
    <3> QED BY <1>3, <1>5, <1>7, <3>3, <3>4, <3>5, BoundsAssumption
  <2>2. s = entries \cup {new} /\ Cardinality(s) = MaxEntries + 1
    <3>1. entries \ Cached(k) = entries
      BY <2>1
    <3> QED BY <1>3, <1>5, <1>7, <3>1, BoundsAssumption
  <2>3. PICK old \in s : entries' = s \ {old} /\ \A f \in s : old.at <= f.at
    BY <1>2, <1>7 DEF evictOldestLocked
  <2>4. Cardinality(s \ {old}) = MaxEntries
    <3>1. Cardinality(s \ {old}) = Cardinality(s) - 1
      BY <1>5, <2>3, FS_RemoveElement
    <3> QED BY <2>2, <3>1, BoundsAssumption
  <2> QED BY <1>1, <2>1, <2>2, <2>3, <2>4
<1> QED BY <1>5, <1>6, <1>7, BoundsAssumption

\* A response is stored.
LEMMA StoreResultInv ==
    ASSUME Inv, NEW c \in Clients, StoreResult(c)
    PROVE  Inv'
<1>2. now' = now /\ ReqInv'
  <2>1. req' \in [Clients -> Request]
    BY DEF StoreResult, Inv, ReqInv, Request, Idle
  <2>2. req'[c].pc = "idle" /\ \A d \in Clients : d # c => req'[d] = req[d]
    BY DEF StoreResult, Inv, ReqInv, Idle
  <2> QED BY <2>1, <2>2 DEF StoreResult, Inv, ReqInv
<1>3. PICK new \in Entry :
         /\ new.key = req[c].key
         /\ entries' \subseteq (entries \ Cached(new.key)) \cup {new}
         /\ Cardinality(entries') <= MaxEntries
  BY Stored, BoundsAssumption
<1>4. IsFiniteSet(entries')
  <2>1. IsFiniteSet(entries \cup {new})
    BY FS_AddElement DEF Inv, StoreInv
  <2> QED BY <1>3, <2>1, FS_Subset
<1>5. StoreInv'
  BY <1>3, <1>4 DEF Inv, StoreInv, Cached
<1> QED BY <1>2, <1>5 DEF Inv

\* The clock and the cleanup.
LEMMA TimeInv ==
    ASSUME Inv, Tick \/ Cleanup \/ UNCHANGED vars
    PROVE  Inv'
<1>1. req' = req /\ entries' \subseteq entries /\ now' \in 0 .. MaxTime
  BY BoundsAssumption DEF Tick, Cleanup, vars, Inv
<1>2. IsFiniteSet(entries') /\ Cardinality(entries') <= MaxEntries
  <2>1. IsFiniteSet(entries') /\ Cardinality(entries') <= Cardinality(entries)
        /\ Cardinality(entries') \in Nat /\ Cardinality(entries) \in Nat
    BY <1>1, FS_Subset, FS_CardinalityType DEF Inv, StoreInv
  <2> QED BY <2>1, BoundsAssumption DEF Inv, StoreInv
<1> QED BY <1>1, <1>2 DEF Inv, StoreInv, ReqInv

\* Every step keeps the invariant.
LEMMA StepInv == Inv /\ [Next]_vars => Inv'
BY RequestInv, StoreResultInv, TimeInv DEF Next

\* For every number of clients and keys and every bound, the store keeps one entry
\* per key and its size stays within IDEMPOTENCY_MAX_ENTRIES.
THEOREM IdempotencyTypeCorrect == Spec => []TypeOK
BY InitInv, StepInv, InvType, PTL DEF Spec

-----------------------------------------------------------------------------

\* What a step may take from the store.
Evicts ==
    \A e \in entries \ entries' :
        \/ \E f \in entries' : f.key = e.key
        \/ e.at + Lifetime < now
        \/ Cardinality(entries') = MaxEntries /\ \A f \in entries' : e.at <= f.at

\* Every step takes no more than that.
LEMMA StepEvicts == Inv /\ [Next]_vars => [Evicts]_vars
<1> SUFFICES ASSUME Inv, Next, NEW e \in entries, e \notin entries'
             PROVE  \/ \E f \in entries' : f.key = e.key
                    \/ e.at + Lifetime < now
                    \/ Cardinality(entries') = MaxEntries /\ \A f \in entries' : e.at <= f.at
  BY DEF Evicts
<1>1. CASE Cleanup
  <2>1. ~(e.at + Lifetime >= now)
    BY <1>1 DEF Cleanup
  <2>2. e.at \in Nat /\ now \in Nat
    BY DEF Inv, StoreInv, Entry
  <2> QED BY <2>1, <2>2, BoundsAssumption
<1>2. ASSUME NEW c \in Clients, StoreResult(c)
      PROVE  \/ \E f \in entries' : f.key = e.key
             \/ Cardinality(entries') = MaxEntries /\ \A f \in entries' : e.at <= f.at
  <2>1. PICK new \in Entry :
           \/ entries' = (entries \ Cached(new.key)) \cup {new}
           \/ /\ Cardinality(entries') = MaxEntries
              /\ \E old \in entries \cup {new} :
                    /\ entries' = (entries \cup {new}) \ {old}
                    /\ \A f \in entries \cup {new} : old.at <= f.at
    BY <1>2, Stored
  <2>2. CASE entries' = (entries \ Cached(new.key)) \cup {new}
    BY <2>2 DEF Cached
  <2>3. ASSUME Cardinality(entries') = MaxEntries, NEW old \in entries \cup {new},
               entries' = (entries \cup {new}) \ {old},
               \A f \in entries \cup {new} : old.at <= f.at
        PROVE  Cardinality(entries') = MaxEntries /\ \A f \in entries' : e.at <= f.at
    <3>1. e = old
      BY <2>3
    <3> QED BY <2>3, <3>1
  <2> QED BY <2>1, <2>2, <2>3
<1> QED BY <1>1, <1>2 DEF Next, Lookup, Receive, Tick

\* For every number of clients and keys and every bound, an entry leaves the store
\* because its key is stored again, because it has expired, or because the store is
\* full and nothing that stays is older.
THEOREM EvictionCorrect == Spec => EvictedLast
<1>1. [][Evicts]_vars => EvictedLast
  BY PTL DEF EvictedLast, Evicts
<1> QED BY <1>1, InitInv, StepInv, StepEvicts, PTL DEF Spec
=============================================================================
