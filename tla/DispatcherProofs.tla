-------------------------- MODULE DispatcherProofs --------------------------
(***************************************************************************)
(* The event dispatcher for any number of instances, WebSocket sessions,   *)
(* dispatching goroutines, targets and any buffer size: its safety, and    *)
(* what a WebSocket client gets.  The dispatcher implements Delivery, and  *)
(* the stream of a client is ordered and belongs to one instance.          *)
(***************************************************************************)
EXTENDS DispatcherDelivery, TLAPS

\* What a goroutine carries fits its program counter.
CarriesOK ==
    /\ \A d \in Dispatchers : disp[d].pc # "idle" => disp[d].evt \in Event
    /\ \A s \in Sessions : sess[s].pc = "writing" => sess[s].cur \in Event
    /\ \A s \in Sessions : sess[s].pc # "idle" => sess[s].inst \in Instances

\* A closed channel belongs to a handler that is done.
ClosedDone == \A s \in closed : sess[s].pc = "done"

\* Nobody is listed before subscribing or after unsubscribing, or twice: the
\* position UnsubscribeWs removes is the only one.
ListedOnce ==
    \A i, j \in Instances :
        \A k \in 1 .. Len(wsClients[i]), l \in 1 .. Len(wsClients[j]) :
            /\ sess[wsClients[i][k]].inst = i
            /\ sess[wsClients[i][k]].pc \in {"ranging", "writing", "leaving"}
            /\ wsClients[i][k] = wsClients[j][l] => i = j /\ k = l

\* The inductive invariant.
IndInv == TypeOK /\ CarriesOK /\ ClosedDone /\ ListedOnce /\ NoSendOnClosed

-----------------------------------------------------------------------------
\* Removing an entry keeps a list a list, and its entries are entries of the
\* old list (the filter loop of UnsubscribeWs).
LEMMA RemoveAtProperties ==
    ASSUME NEW S, NEW list \in Seq(S), NEW k \in 1 .. Len(list)
    PROVE  /\ RemoveAt(list, k) \in Seq(S)
           /\ Len(RemoveAt(list, k)) = Len(list) - 1
           /\ \A j \in 1 .. Len(list) - 1 :
                 RemoveAt(list, k)[j] = list[IF j < k THEN j ELSE j + 1]
  BY DEF RemoveAt

\* The initial state satisfies the inductive invariant.
LEMMA InitInv == Init => IndInv
  BY BoundsAssumption, CapAssumption
     DEF Init, IndInv, TypeOK, CarriesOK, ClosedDone, ListedOnce, NoSendOnClosed,
         SessState, DispState

\* Every step of the dispatcher and of the handlers preserves the invariant.
LEMMA StepInv == IndInv /\ [Next]_vars => IndInv'
<1> SUFFICES ASSUME IndInv, [Next]_vars PROVE IndInv'
  OBVIOUS
<1> USE CapAssumption, BoundsAssumption
<1> USE DEF IndInv
<1>t. TypeOK /\ CarriesOK /\ ClosedDone /\ ListedOnce /\ NoSendOnClosed
  OBVIOUS
<1>1. ASSUME NEW i \in Instances, NEW t \in Targets, Register(i, t) PROVE IndInv'
  <2>1. TypeOK'
    BY <1>1, <1>t DEF Register, TypeOK, Registration
  <2>2. CarriesOK' /\ ListedOnce' /\ ClosedDone' /\ NoSendOnClosed'
    <3>1. CarriesOK'
      BY <1>1, <1>t DEF Register, CarriesOK
    <3>2. ListedOnce'
      BY <1>1, <1>t DEF Register, ListedOnce
    <3>3. ClosedDone'
      BY <1>1, <1>t DEF Register, ClosedDone
    <3>4. NoSendOnClosed'
      BY <1>1, <1>t DEF Register, NoSendOnClosed
    <3> QED BY <3>1, <3>2, <3>3, <3>4
  <2> QED BY <2>1, <2>2
<1>2. ASSUME NEW i \in Instances, NEW url, Unregister(i, url) PROVE IndInv'
  <2>1. TypeOK'
    BY <1>2, <1>t DEF Unregister, TypeOK
  <2>2. CarriesOK' /\ ListedOnce' /\ ClosedDone' /\ NoSendOnClosed'
    <3>1. CarriesOK'
      BY <1>2, <1>t DEF Unregister, CarriesOK
    <3>2. ListedOnce'
      BY <1>2, <1>t DEF Unregister, ListedOnce
    <3>3. ClosedDone'
      BY <1>2, <1>t DEF Unregister, ClosedDone
    <3>4. NoSendOnClosed'
      BY <1>2, <1>t DEF Unregister, NoSendOnClosed
    <3> QED BY <3>1, <3>2, <3>3, <3>4
  <2> QED BY <2>1, <2>2
<1>3. ASSUME NEW s \in Sessions, NEW i \in Instances, SubscribeWs(s, i) PROVE IndInv'
  <2>a. sess' \in [Sessions -> SessState]
    BY <1>3, <1>t DEF SubscribeWs, TypeOK, SessState
  <2>b. wsClients' \in [Instances -> Seq(Sessions)]
    BY <1>3, <1>t DEF SubscribeWs, TypeOK
  <2>1. TypeOK'
    BY <1>3, <1>t, <2>a, <2>b DEF SubscribeWs, TypeOK
  <2>2. CarriesOK'
    BY <1>3, <1>t DEF SubscribeWs, TypeOK, CarriesOK, SessState
  <2>3. /\ \A a \in Instances : a # i => wsClients'[a] = wsClients[a]
        /\ wsClients'[i] = Append(wsClients[i], s)
        /\ Len(wsClients'[i]) = Len(wsClients[i]) + 1
        /\ \A k \in 1 .. Len(wsClients[i]) : wsClients'[i][k] = wsClients[i][k]
        /\ wsClients'[i][Len(wsClients[i]) + 1] = s
    BY <1>3, <1>t DEF SubscribeWs, TypeOK
  <2>l. /\ \A x \in Sessions : x # s => sess'[x] = sess[x]
        /\ sess'[s].inst = i /\ sess'[s].pc = "ranging"
    BY <1>3, <1>t DEF SubscribeWs, TypeOK, SessState
  <2>m. \A a \in Instances : \A k \in 1 .. Len(wsClients[a]) :
           wsClients[a][k] \in Sessions /\ wsClients[a][k] # s
    <3>1. sess[s].pc = "idle"
      BY <1>3 DEF SubscribeWs
    <3>2. \A a \in Instances : \A k \in 1 .. Len(wsClients[a]) : sess[wsClients[a][k]].pc # "idle"
      BY <1>t DEF ListedOnce
    <3>3. \A a \in Instances : \A k \in 1 .. Len(wsClients[a]) : wsClients[a][k] \in Sessions
      BY <1>t DEF TypeOK
    <3> QED BY <3>1, <3>2, <3>3
  <2>n. \A a \in Instances : Len(wsClients[a]) \in Nat
    BY <1>t DEF TypeOK
  <2>k. \A a \in Instances : \A k \in 1 .. Len(wsClients'[a]) :
           \/ k \in 1 .. Len(wsClients[a]) /\ wsClients'[a][k] = wsClients[a][k]
           \/ a = i /\ k = Len(wsClients[i]) + 1 /\ wsClients'[a][k] = s
    BY <2>3, <2>n
  <2>4. ListedOnce'
    <3> SUFFICES ASSUME NEW a \in Instances, NEW b \in Instances,
                        NEW k \in 1 .. Len(wsClients'[a]), NEW l \in 1 .. Len(wsClients'[b])
                 PROVE  /\ sess'[wsClients'[a][k]].inst = a
                        /\ sess'[wsClients'[a][k]].pc \in {"ranging", "writing", "leaving"}
                        /\ wsClients'[a][k] = wsClients'[b][l] => a = b /\ k = l
      BY DEF ListedOnce
    <3>1. CASE k \in 1 .. Len(wsClients[a]) /\ wsClients'[a][k] = wsClients[a][k]
      <4>1. sess'[wsClients[a][k]] = sess[wsClients[a][k]]
        BY <3>1, <2>l, <2>m
      <4>2. /\ sess[wsClients[a][k]].inst = a
            /\ sess[wsClients[a][k]].pc \in {"ranging", "writing", "leaving"}
        BY <3>1, <1>t DEF ListedOnce
      <4>3. CASE l \in 1 .. Len(wsClients[b]) /\ wsClients'[b][l] = wsClients[b][l]
        BY <3>1, <4>1, <4>2, <4>3, <1>t DEF ListedOnce
      <4>4. CASE wsClients'[b][l] = s
        BY <3>1, <4>1, <4>2, <4>4, <2>m
      <4> QED BY <4>3, <4>4, <2>k
    <3>2. CASE a = i /\ k = Len(wsClients[i]) + 1 /\ wsClients'[a][k] = s
      BY <3>2, <2>k, <2>l, <2>m
    <3> QED BY <3>1, <3>2, <2>k
  <2>5. ClosedDone'
    BY <1>3, <1>t DEF SubscribeWs, TypeOK, ClosedDone
  <2>6. NoSendOnClosed'
    BY <1>3, <1>t DEF SubscribeWs, NoSendOnClosed
  <2> QED BY <2>1, <2>2, <2>4, <2>5, <2>6
<1>5. ASSUME NEW s \in Sessions, Range(s) PROVE IndInv'
  <2>0. /\ Head(chan[s]) \in Event
        /\ Tail(chan[s]) \in Seq(Event)
        /\ Len(Tail(chan[s])) <= Cap
    BY <1>5, <1>t DEF Range, TypeOK
  <2>a. sess' \in [Sessions -> SessState]
    BY <1>5, <1>t, <2>0 DEF Range, TypeOK, SessState
  <2>b. chan' \in [Sessions -> Seq(Event)] /\ \A x \in Sessions : Len(chan'[x]) <= Cap
    BY <1>5, <1>t, <2>0 DEF Range, TypeOK
  <2>1. TypeOK'
    BY <1>5, <1>t, <2>a, <2>b DEF Range, TypeOK
  <2>2. CarriesOK'
    BY <1>5, <1>t, <2>0 DEF Range, TypeOK, CarriesOK, SessState
  <2>l. \A x \in Sessions :
           /\ sess'[x].inst = sess[x].inst
           /\ sess'[x].pc = sess[x].pc \/ sess'[x].pc = "writing"
    BY <1>5, <1>t DEF Range, TypeOK, SessState
  <2>m. wsClients' = wsClients /\ wsClients \in [Instances -> Seq(Sessions)]
    BY <1>5, <1>t DEF Range, TypeOK
  <2>3. ListedOnce'
    BY <1>t, <2>l, <2>m DEF ListedOnce
  <2>4. ClosedDone' /\ NoSendOnClosed'
    <3>1. ClosedDone'
      BY <1>5, <1>t DEF Range, TypeOK, SessState, ClosedDone
    <3>2. NoSendOnClosed'
      BY <1>5, <1>t DEF Range, TypeOK, SessState, NoSendOnClosed
    <3> QED BY <3>1, <3>2
  <2> QED BY <2>1, <2>2, <2>3, <2>4
<1>6. ASSUME NEW s \in Sessions, WriteJSON(s) PROVE IndInv'
  <2>a. sess' \in [Sessions -> SessState]
    BY <1>6, <1>t DEF WriteJSON, TypeOK, SessState
  <2>b. got' \in [Sessions -> Seq(Event)]
    BY <1>6, <1>t DEF WriteJSON, TypeOK, CarriesOK
  <2>1. TypeOK'
    BY <1>6, <1>t, <2>a, <2>b DEF WriteJSON, TypeOK
  <2>2. CarriesOK'
    BY <1>6, <1>t DEF WriteJSON, TypeOK, CarriesOK, SessState
  <2>l. \A x \in Sessions :
           /\ sess'[x].inst = sess[x].inst
           /\ sess'[x].pc = sess[x].pc \/ sess'[x].pc = "ranging"
    BY <1>6, <1>t DEF WriteJSON, TypeOK, SessState
  <2>m. wsClients' = wsClients /\ wsClients \in [Instances -> Seq(Sessions)]
    BY <1>6, <1>t DEF WriteJSON, TypeOK
  <2>3. ListedOnce'
    BY <1>t, <2>l, <2>m DEF ListedOnce
  <2>4. ClosedDone' /\ NoSendOnClosed'
    <3>1. ClosedDone'
      BY <1>6, <1>t DEF WriteJSON, TypeOK, SessState, ClosedDone
    <3>2. NoSendOnClosed'
      BY <1>6, <1>t DEF WriteJSON, TypeOK, SessState, NoSendOnClosed
    <3> QED BY <3>1, <3>2
  <2> QED BY <2>1, <2>2, <2>3, <2>4
<1>7. ASSUME NEW s \in Sessions, WriteJSONFails(s) PROVE IndInv'
  <2>1. TypeOK'
    BY <1>7, <1>t DEF WriteJSONFails, TypeOK, SessState
  <2>2. CarriesOK'
    BY <1>7, <1>t DEF WriteJSONFails, TypeOK, CarriesOK, SessState
  <2>l. \A x \in Sessions :
           /\ sess'[x].inst = sess[x].inst
           /\ sess'[x].pc = sess[x].pc \/ sess'[x].pc = "leaving"
    BY <1>7, <1>t DEF WriteJSONFails, TypeOK, SessState
  <2>m. wsClients' = wsClients /\ wsClients \in [Instances -> Seq(Sessions)]
    BY <1>7, <1>t DEF WriteJSONFails, TypeOK
  <2>3. ListedOnce'
    BY <1>t, <2>l, <2>m DEF ListedOnce
  <2>4. ClosedDone' /\ NoSendOnClosed'
    <3>1. ClosedDone'
      BY <1>7, <1>t DEF WriteJSONFails, TypeOK, SessState, ClosedDone
    <3>2. NoSendOnClosed'
      BY <1>7, <1>t DEF WriteJSONFails, TypeOK, SessState, NoSendOnClosed
    <3> QED BY <3>1, <3>2
  <2> QED BY <2>1, <2>2, <2>3, <2>4
<1>8. ASSUME NEW s \in Sessions, UnsubscribeWs(s) PROVE IndInv'
  <2> DEFINE i == sess[s].inst
  <2>0. i \in Instances /\ wsClients[i] \in Seq(Sessions)
    BY <1>8, <1>t DEF UnsubscribeWs, TypeOK, CarriesOK
  <2>p. PICK k \in 1 .. Len(wsClients[i]) :
           /\ wsClients[i][k] = s
           /\ wsClients' = [wsClients EXCEPT ![i] = RemoveAt(@, k)]
    BY <1>8 DEF UnsubscribeWs
  <2>r. /\ RemoveAt(wsClients[i], k) \in Seq(Sessions)
        /\ Len(RemoveAt(wsClients[i], k)) = Len(wsClients[i]) - 1
        /\ \A j \in 1 .. Len(wsClients[i]) - 1 :
              RemoveAt(wsClients[i], k)[j] = wsClients[i][IF j < k THEN j ELSE j + 1]
    BY <2>0, <2>p, RemoveAtProperties
  <2>w. /\ \A j \in Instances : j # i => wsClients'[j] = wsClients[j]
        /\ wsClients'[i] = RemoveAt(wsClients[i], k)
    BY <2>0, <2>p, <1>t DEF TypeOK
  <2>s. sess' = [sess EXCEPT ![s].pc = "done"] /\ closed' = closed \cup {s}
    BY <1>8 DEF UnsubscribeWs
  <2>u. UNCHANGED <<targets, chan, disp, posts, created, registered, got, begun>>
    BY <1>8 DEF UnsubscribeWs
  <2>1. TypeOK'
    <3>1. wsClients' \in [Instances -> Seq(Sessions)]
      BY <2>p, <2>r, <1>t DEF TypeOK
    <3>2. sess' \in [Sessions -> SessState] /\ closed' \subseteq Sessions
      BY <2>s, <1>t DEF TypeOK, SessState
    <3> QED BY <3>1, <3>2, <2>u, <1>t DEF TypeOK
  <2>2. CarriesOK'
    <3>1. \A x \in Sessions :
             /\ sess'[x].inst = sess[x].inst
             /\ sess'[x].cur = sess[x].cur
             /\ sess'[x].pc = sess[x].pc \/ x = s
      BY <2>s, <1>t DEF TypeOK, SessState
    <3>2. sess'[s].pc = "done" /\ disp' = disp
      BY <2>s, <2>u, <1>t DEF TypeOK, SessState
    <3>3. \A x \in Dispatchers : disp'[x].pc # "idle" => disp'[x].evt \in Event
      BY <3>2, <1>t DEF CarriesOK
    <3>4. \A x \in Sessions : sess'[x].pc = "writing" => sess'[x].cur \in Event
      BY <3>1, <3>2, <1>t DEF CarriesOK
    <3>5. \A x \in Sessions : sess'[x].pc # "idle" => sess'[x].inst \in Instances
      BY <3>1, <3>2, <2>0, <1>t DEF CarriesOK
    <3> QED BY <3>3, <3>4, <3>5 DEF CarriesOK
  <2>3. ASSUME NEW a \in Instances, NEW l \in 1 .. Len(wsClients'[a])
        PROVE  \E m \in 1 .. Len(wsClients[a]) :
                  /\ wsClients'[a][l] = wsClients[a][m]
                  /\ a = i => m = (IF l < k THEN l ELSE l + 1)
                  /\ a # i => m = l
                  /\ wsClients[a][m] # s
    <3>1. CASE a # i
      BY <3>1, <2>3, <2>w, <2>0, <2>p, <1>t DEF ListedOnce
    <3>2. CASE a = i
      <4>1. l \in 1 .. Len(wsClients[i]) - 1
        BY <3>2, <2>3, <2>w, <2>r
      <4>2. wsClients'[a][l] = wsClients[i][IF l < k THEN l ELSE l + 1]
        BY <3>2, <4>1, <2>w, <2>r
      <4>3. (IF l < k THEN l ELSE l + 1) \in (1 .. Len(wsClients[i])) \ {k}
        BY <4>1, <2>0, <2>p
      <4>4. wsClients[i][IF l < k THEN l ELSE l + 1] # s
        BY <4>3, <2>p, <2>0, <1>t DEF ListedOnce
      <4> QED BY <3>2, <4>2, <4>3, <4>4
    <3> QED BY <3>1, <3>2
  <2>4. ListedOnce'
    <3> SUFFICES ASSUME NEW a \in Instances, NEW b \in Instances,
                        NEW l \in 1 .. Len(wsClients'[a]), NEW n \in 1 .. Len(wsClients'[b])
                 PROVE  /\ sess'[wsClients'[a][l]].inst = a
                        /\ sess'[wsClients'[a][l]].pc \in {"ranging", "writing", "leaving"}
                        /\ wsClients'[a][l] = wsClients'[b][n] => a = b /\ l = n
      BY DEF ListedOnce
    <3>1. PICK m \in 1 .. Len(wsClients[a]) :
             /\ wsClients'[a][l] = wsClients[a][m]
             /\ a = i => m = (IF l < k THEN l ELSE l + 1)
             /\ a # i => m = l
             /\ wsClients[a][m] # s
      BY <2>3
    <3>2. PICK q \in 1 .. Len(wsClients[b]) :
             /\ wsClients'[b][n] = wsClients[b][q]
             /\ b = i => q = (IF n < k THEN n ELSE n + 1)
             /\ b # i => q = n
             /\ wsClients[b][q] # s
      BY <2>3
    <3>3. wsClients[a][m] \in Sessions
      BY <1>t DEF TypeOK
    <3>4. sess'[wsClients[a][m]] = sess[wsClients[a][m]]
      BY <1>8, <1>t, <3>1, <3>3 DEF UnsubscribeWs, TypeOK
    <3>5. a = b /\ m = q => l = n
      <4>1. l \in Nat /\ n \in Nat /\ k \in Nat
        BY <1>t, <2>1, <2>0 DEF TypeOK
      <4> QED BY <4>1, <3>1, <3>2
    <3> QED BY <1>t, <3>1, <3>2, <3>4, <3>5 DEF ListedOnce
  <2>5. ClosedDone'
    BY <1>8, <1>t DEF UnsubscribeWs, TypeOK, ClosedDone, SessState
  <2>6. NoSendOnClosed'
    BY <1>8, <1>t DEF UnsubscribeWs, NoSendOnClosed, Readers
  <2> QED BY <2>1, <2>2, <2>4, <2>5, <2>6
<1>9. ASSUME NEW d \in Dispatchers, NEW i \in Instances, NEW type \in EventTypes,
             Dispatch(d, i, type)
      PROVE IndInv'
  <2>0. [id |-> created + 1, by |-> d, inst |-> i, type |-> type] \in Event
    BY <1>9, <1>t DEF Dispatch, TypeOK, Event
  <2>1. TypeOK'
    BY <1>9, <1>t, <2>0 DEF Dispatch, TypeOK, DispState
  <2>2. CarriesOK'
    BY <1>9, <1>t, <2>0 DEF Dispatch, TypeOK, CarriesOK, DispState
  <2>3. ListedOnce' /\ ClosedDone' /\ NoSendOnClosed'
    <3>1. ListedOnce'
      BY <1>9, <1>t DEF Dispatch, ListedOnce
    <3>2. ClosedDone'
      BY <1>9, <1>t DEF Dispatch, ClosedDone
    <3>3. NoSendOnClosed'
      BY <1>9, <1>t DEF Dispatch, TypeOK, NoSendOnClosed
    <3> QED BY <3>1, <3>2, <3>3
  <2> QED BY <2>1, <2>2, <2>3
<1>10. ASSUME NEW d \in Dispatchers, RLock(d) PROVE IndInv'
  <2>0. disp[d].evt.inst \in Instances
    BY <1>10, <1>t DEF RLock, TypeOK, CarriesOK, Event
  <2>a. disp' \in [Dispatchers -> DispState]
    BY <1>10, <1>t, <2>0 DEF RLock, TypeOK, DispState
  <2>b. begun' \in [Instances -> SUBSET Event]
    BY <1>10, <1>t, <2>0 DEF RLock, TypeOK, CarriesOK
  <2>1. TypeOK'
    BY <1>10, <1>t, <2>a, <2>b DEF RLock, TypeOK
  <2>2. CarriesOK'
    BY <1>10, <1>t DEF RLock, TypeOK, CarriesOK, DispState
  <2>3. ListedOnce' /\ ClosedDone'
    <3>1. ListedOnce'
      BY <1>10, <1>t DEF RLock, ListedOnce
    <3>2. ClosedDone'
      BY <1>10, <1>t DEF RLock, ClosedDone
    <3> QED BY <3>1, <3>2
  <2>4. \A k \in 1 .. Len(wsClients[disp[d].evt.inst]) :
           wsClients[disp[d].evt.inst][k] \notin closed
    BY <1>t, <2>0 DEF ClosedDone, ListedOnce
  <2>5. NoSendOnClosed'
    BY <1>10, <1>t, <2>0, <2>4 DEF RLock, TypeOK, DispState, NoSendOnClosed
  <2> QED BY <2>1, <2>2, <2>3, <2>5
<1>11. ASSUME NEW d \in Dispatchers, SendWs(d) PROVE IndInv'
  <2>0. /\ disp[d].evt \in Event
        /\ disp[d].todo \in Seq(Sessions)
        /\ Tail(disp[d].todo) \in Seq(Sessions)
        /\ Head(disp[d].todo) \in Sessions
    BY <1>11, <1>t DEF SendWs, TypeOK, CarriesOK, DispState
  <2> DEFINE c == Head(disp[d].todo)
  <2>d. disp' = [disp EXCEPT ![d].todo = Tail(@)]
    BY <1>11 DEF SendWs
  <2>a. disp' \in [Dispatchers -> DispState]
    BY <2>d, <1>t, <2>0 DEF TypeOK, DispState
  <2>b. /\ chan' \in [Sessions -> Seq(Event)]
        /\ \A x \in Sessions : Len(chan'[x]) <= Cap
    <3>1. CASE /\ chan' = [chan EXCEPT ![c] = Append(@, disp[d].evt)]
               /\ Len(chan[c]) < Cap
      BY <3>1, <1>t, <2>0 DEF TypeOK
    <3>2. CASE chan' = chan
      BY <3>2, <1>t, <2>0 DEF TypeOK
    <3> QED BY <3>1, <3>2, <1>11 DEF SendWs
  <2>1. TypeOK'
    BY <1>11, <1>t, <2>a, <2>b DEF SendWs, TypeOK
  <2>2. CarriesOK'
    BY <1>11, <1>t DEF SendWs, TypeOK, CarriesOK, DispState
  <2>3. ListedOnce' /\ ClosedDone'
    <3>1. ListedOnce'
      BY <1>11, <1>t DEF SendWs, ListedOnce
    <3>2. ClosedDone'
      BY <1>11, <1>t DEF SendWs, ClosedDone
    <3> QED BY <3>1, <3>2
  <2>c. /\ disp[d].pc = "sending" /\ closed' = closed
        /\ \A x \in Dispatchers : x # d => disp'[x] = disp[x]
        /\ disp'[d].todo = Tail(disp[d].todo)
        /\ disp[d].todo # <<>>
    BY <1>11, <1>t DEF SendWs, TypeOK, DispState
  <2>e. \A k \in 1 .. Len(Tail(disp[d].todo)) :
           /\ k + 1 \in 1 .. Len(disp[d].todo)
           /\ Tail(disp[d].todo)[k] = disp[d].todo[k + 1]
    BY <2>0, <2>c
  <2>f. \A k \in 1 .. Len(disp[d].todo) : disp[d].todo[k] \notin closed
    BY <1>t, <2>c DEF NoSendOnClosed
  <2>g. \A k \in 1 .. Len(disp'[d].todo) : disp'[d].todo[k] \notin closed
    BY <2>c, <2>e, <2>f
  <2>4. NoSendOnClosed'
    BY <1>t, <2>c, <2>g DEF NoSendOnClosed
  <2> QED BY <2>1, <2>2, <2>3, <2>4
<1>12. ASSUME NEW d \in Dispatchers, SpawnHooks(d) PROVE IndInv'
  <2>0. disp[d].evt \in Event /\ disp[d].evt.inst \in Instances
    BY <1>12, <1>t DEF SpawnHooks, TypeOK, CarriesOK, Event
  <2>1. posts' \subseteq Event \X Registration
    BY <1>12, <1>t, <2>0 DEF SpawnHooks, TypeOK
  <2>2. disp' \in [Dispatchers -> DispState]
    BY <1>12, <1>t DEF SpawnHooks, TypeOK, DispState
  <2>3. TypeOK'
    BY <1>12, <1>t, <2>1, <2>2 DEF SpawnHooks, TypeOK
  <2>4. CarriesOK'
    BY <1>12, <1>t DEF SpawnHooks, TypeOK, CarriesOK, DispState
  <2>5. ListedOnce' /\ ClosedDone' /\ NoSendOnClosed'
    <3>1. ListedOnce'
      BY <1>12, <1>t DEF SpawnHooks, ListedOnce
    <3>2. ClosedDone'
      BY <1>12, <1>t DEF SpawnHooks, ClosedDone
    <3>3. NoSendOnClosed'
      BY <1>12, <1>t DEF SpawnHooks, TypeOK, NoSendOnClosed
    <3> QED BY <3>1, <3>2, <3>3
  <2> QED BY <2>3, <2>4, <2>5
<1>13. ASSUME NEW p \in posts, send(p) PROVE IndInv'
  <2>1. TypeOK'
    BY <1>13, <1>t DEF send, TypeOK
  <2>2. CarriesOK' /\ ListedOnce' /\ ClosedDone' /\ NoSendOnClosed'
    <3>1. CarriesOK'
      BY <1>13, <1>t DEF send, CarriesOK
    <3>2. ListedOnce'
      BY <1>13, <1>t DEF send, ListedOnce
    <3>3. ClosedDone'
      BY <1>13, <1>t DEF send, ClosedDone
    <3>4. NoSendOnClosed'
      BY <1>13, <1>t DEF send, NoSendOnClosed
    <3> QED BY <3>1, <3>2, <3>3, <3>4
  <2> QED BY <2>1, <2>2
<1>14. CASE UNCHANGED vars
  <2>1. TypeOK'
    BY <1>14, <1>t DEF vars, TypeOK
  <2>2. CarriesOK' /\ ListedOnce' /\ ClosedDone' /\ NoSendOnClosed'
    <3>1. CarriesOK'
      BY <1>14, <1>t DEF vars, CarriesOK
    <3>2. ListedOnce'
      BY <1>14, <1>t DEF vars, ListedOnce
    <3>3. ClosedDone'
      BY <1>14, <1>t DEF vars, ClosedDone
    <3>4. NoSendOnClosed'
      BY <1>14, <1>t DEF vars, NoSendOnClosed
    <3> QED BY <3>1, <3>2, <3>3, <3>4
  <2> QED BY <2>1, <2>2
<1> QED
  BY <1>1, <1>2, <1>3, <1>5, <1>6, <1>7, <1>8, <1>9, <1>10, <1>11, <1>12,
     <1>13, <1>14 DEF Next

-----------------------------------------------------------------------------
\* The elements of a list under Append, Tail and RemoveAt.
LEMMA ElementsProperties ==
    ASSUME NEW S, NEW list \in Seq(S), NEW e \in S
    PROVE  /\ Elements(Append(list, e)) = Elements(list) \cup {e}
           /\ list # <<>> => Elements(list) = Elements(Tail(list)) \cup {Head(list)}
           /\ \A k \in 1 .. Len(list) :
                 Elements(list) \subseteq Elements(RemoveAt(list, k)) \cup {list[k]}
<1>1. Elements(Append(list, e)) = Elements(list) \cup {e}
  <2>1. Elements(list) \cup {e} \subseteq Elements(Append(list, e))
    <3>1. \A k \in 1 .. Len(list) : /\ k \in 1 .. Len(Append(list, e))
                                   /\ Append(list, e)[k] = list[k]
      OBVIOUS
    <3>2. /\ Len(list) + 1 \in 1 .. Len(Append(list, e))
          /\ Append(list, e)[Len(list) + 1] = e
      OBVIOUS
    <3> QED BY <3>1, <3>2 DEF Elements
  <2>2. Elements(Append(list, e)) \subseteq Elements(list) \cup {e}
    BY DEF Elements
  <2> QED BY <2>1, <2>2
<1>2. ASSUME list # <<>>
      PROVE  Elements(list) = Elements(Tail(list)) \cup {Head(list)}
  <2>1. Elements(list) \subseteq Elements(Tail(list)) \cup {Head(list)}
    <3>1. \A k \in 1 .. Len(list) :
             k = 1 \/ (k - 1 \in 1 .. Len(Tail(list)) /\ Tail(list)[k - 1] = list[k])
      BY <1>2
    <3>2. list[1] = Head(list)
      BY <1>2
    <3> QED BY <3>1, <3>2 DEF Elements
  <2>2. Elements(Tail(list)) \cup {Head(list)} \subseteq Elements(list)
    <3>1. \A k \in 1 .. Len(Tail(list)) : k + 1 \in 1 .. Len(list) /\ Tail(list)[k] = list[k + 1]
      BY <1>2
    <3>2. 1 \in 1 .. Len(list) /\ list[1] = Head(list)
      BY <1>2
    <3> QED BY <3>1, <3>2 DEF Elements
  <2> QED BY <2>1, <2>2
<1>3. ASSUME NEW k \in 1 .. Len(list)
      PROVE  Elements(list) \subseteq Elements(RemoveAt(list, k)) \cup {list[k]}
  <2>1. ASSUME NEW l \in 1 .. Len(list), l # k
        PROVE  \E j \in 1 .. Len(RemoveAt(list, k)) : RemoveAt(list, k)[j] = list[l]
    <3>1. CASE l < k
      <4>1. l \in 1 .. Len(list) - 1
        BY <3>1
      <4>2. RemoveAt(list, k)[l] = list[l]
        BY <3>1, <4>1, RemoveAtProperties
      <4> QED BY <4>1, <4>2, RemoveAtProperties
    <3>2. CASE l > k
      <4>1. l - 1 \in 1 .. Len(list) - 1 /\ ~(l - 1 < k) /\ (l - 1) + 1 = l
        BY <3>2
      <4>2. RemoveAt(list, k)[l - 1] = list[l]
        BY <4>1, RemoveAtProperties
      <4> QED BY <4>1, <4>2, RemoveAtProperties
    <3> QED BY <2>1, <3>1, <3>2
  <2> QED BY <2>1 DEF Elements
<1> QED BY <1>1, <1>2, <1>3

-----------------------------------------------------------------------------
\* The type invariant of the dispatcher holds for every value of the constants:
\* in particular every event that a Dispatch goroutine carries past the lock and
\* every event that a handler writes is a complete event of a known instance.
THEOREM TypeCorrect == Spec => []TypeOK
<1>1. IndInv => TypeOK
  BY DEF IndInv
<1> QED
  BY <1>1, InitInv, StepInv, PTL DEF Spec

\* Dispatch never panics on a closed channel: whatever sessions subscribe and
\* leave while any number of Dispatch loops run, no loop has a closed channel
\* still to visit (the claim of the comment in Dispatch, dispatcher.go:106).
THEOREM DispatchNeverSendsOnClosed == Spec => []NoSendOnClosed
<1>1. IndInv => NoSendOnClosed
  BY DEF IndInv
<1> QED
  BY <1>1, InitInv, StepInv, PTL DEF Spec

-----------------------------------------------------------------------------
(* What a WebSocket client gets *)

\* Events carry the number and the goroutine of their creation, and no number
\* is in use before it is given out.
EventsNumbered ==
    /\ \A d \in Dispatchers : disp[d].pc # "idle" =>
          disp[d].evt.by = d /\ disp[d].evt.id <= created
    /\ \A i \in Instances : \A e \in begun[i] : e.inst = i /\ e.id <= created

\* An event that waits for the lock has not been published.
FreshUntilLocked ==
    \A d \in Dispatchers : disp[d].pc = "locking" =>
        \A i \in Instances : disp[d].evt \notin begun[i]

\* Whoever subscribed and has not unsubscribed is in the list of its instance.
SubscribedListed ==
    \A s \in Sessions : Subscribed(s) =>
        \E k \in 1 .. Len(wsClients[sess[s].inst]) : wsClients[sess[s].inst][k] = s

\* A running loop has each session to visit once, all of them subscribed to the
\* instance of its event: no session subscribes or leaves while it runs.
LoopOverSubscribed ==
    \A d \in Dispatchers : disp[d].pc = "sending" =>
        \A k \in 1 .. Len(disp[d].todo) :
            /\ Subscribed(disp[d].todo[k])
            /\ sess[disp[d].todo[k]].inst = disp[d].evt.inst
            /\ \A l \in 1 .. Len(disp[d].todo) : disp[d].todo[k] = disp[d].todo[l] => k = l

\* A session that has not subscribed has received nothing.
IdleEmpty == \A s \in Sessions : sess[s].pc = "idle" => got[s] = <<>> /\ chan[s] = <<>>

FlowInv == EventsNumbered /\ FreshUntilLocked /\ SubscribedListed /\ LoopOverSubscribed /\ IdleEmpty

-----------------------------------------------------------------------------
\* Nothing has been created, subscribed or taken in the initial state.
LEMMA InitFlow == Init => FlowInv
  BY DEF Init, FlowInv, EventsNumbered, FreshUntilLocked, SubscribedListed,
         LoopOverSubscribed, IdleEmpty, Subscribed

\* Steps that leave the lists, the loops and the subscriptions alone.
LEMMA QuietFlow ==
    ASSUME FlowInv, TypeOK, UNCHANGED <<wsClients, disp, begun, created>>,
           \A s \in Sessions : /\ sess'[s].inst = sess[s].inst
                               /\ Subscribed(s)' <=> Subscribed(s)
                               /\ sess'[s].pc = "idle" <=> sess[s].pc = "idle"
                               /\ sess[s].pc = "idle" => got'[s] = got[s] /\ chan'[s] = chan[s]
    PROVE  FlowInv'
<1>1. EventsNumbered' /\ FreshUntilLocked'
  BY DEF FlowInv, EventsNumbered, FreshUntilLocked
<1>2. SubscribedListed'
  BY DEF FlowInv, SubscribedListed
<1>3. LoopOverSubscribed'
  <2>1. \A d \in Dispatchers : \A k \in 1 .. Len(disp[d].todo) : disp[d].todo[k] \in Sessions
    BY DEF TypeOK, DispState
  <2> QED BY <2>1 DEF FlowInv, LoopOverSubscribed
<1>4. IdleEmpty'
  BY DEF FlowInv, IdleEmpty
<1> QED BY <1>1, <1>2, <1>3, <1>4 DEF FlowInv

\* Every step preserves the invariant.
LEMMA StepFlow == IndInv /\ FlowInv /\ [Next]_vars => FlowInv'
<1> SUFFICES ASSUME IndInv, FlowInv, [Next]_vars PROVE FlowInv'
  OBVIOUS
<1>t. TypeOK /\ CarriesOK /\ ListedOnce
  BY DEF IndInv
<1>f. EventsNumbered /\ FreshUntilLocked /\ SubscribedListed /\ LoopOverSubscribed /\ IdleEmpty
  BY DEF FlowInv
<1>1. ASSUME NEW i \in Instances, NEW t \in Targets, Register(i, t) PROVE FlowInv'
  BY <1>1, <1>t, QuietFlow DEF Register, Subscribed
<1>2. ASSUME NEW i \in Instances, NEW url, Unregister(i, url) PROVE FlowInv'
  BY <1>2, <1>t, QuietFlow DEF Unregister, Subscribed
<1>3. ASSUME NEW s \in Sessions, NEW i \in Instances, SubscribeWs(s, i) PROVE FlowInv'
  <2>1. /\ \A x \in Sessions : x # s => sess'[x] = sess[x]
        /\ sess'[s].inst = i /\ sess'[s].pc = "ranging" /\ sess[s].pc = "idle"
        /\ Readers = {} /\ UNCHANGED <<chan, disp, created, got, begun>>
    BY <1>3, <1>t DEF SubscribeWs, TypeOK, SessState
  <2>2. /\ \A a \in Instances : a # i => wsClients'[a] = wsClients[a]
        /\ Len(wsClients'[i]) = Len(wsClients[i]) + 1
        /\ \A k \in 1 .. Len(wsClients[i]) : wsClients'[i][k] = wsClients[i][k]
        /\ wsClients'[i][Len(wsClients[i]) + 1] = s
        /\ Len(wsClients[i]) \in Nat
    BY <1>3, <1>t DEF SubscribeWs, TypeOK
  <2>3. EventsNumbered' /\ FreshUntilLocked'
    BY <2>1, <1>f DEF EventsNumbered, FreshUntilLocked
  <2>4. SubscribedListed'
    <3> SUFFICES ASSUME NEW x \in Sessions, Subscribed(x)'
                 PROVE  \E k \in 1 .. Len(wsClients'[sess'[x].inst]) : wsClients'[sess'[x].inst][k] = x
      BY DEF SubscribedListed
    <3>1. CASE x = s
      BY <3>1, <2>1, <2>2
    <3>2. CASE x # s
      <4>1. sess'[x] = sess[x] /\ Subscribed(x)
        BY <3>2, <2>1 DEF Subscribed
      <4>2. PICK k \in 1 .. Len(wsClients[sess[x].inst]) : wsClients[sess[x].inst][k] = x
        BY <4>1, <1>f DEF SubscribedListed
      <4>3. sess[x].inst \in Instances
        BY <4>1, <1>t DEF CarriesOK, Subscribed
      <4> QED BY <4>1, <4>2, <4>3, <2>2
    <3> QED BY <3>1, <3>2
  <2>5. LoopOverSubscribed'
    BY <2>1 DEF LoopOverSubscribed, Readers
  <2>6. IdleEmpty'
    BY <2>1, <1>f DEF IdleEmpty
  <2> QED BY <2>3, <2>4, <2>5, <2>6 DEF FlowInv
<1>4. ASSUME NEW s \in Sessions, Range(s) PROVE FlowInv'
  BY <1>4, <1>t, QuietFlow DEF Range, Subscribed, TypeOK, SessState
<1>5. ASSUME NEW s \in Sessions, WriteJSON(s) PROVE FlowInv'
  BY <1>5, <1>t, QuietFlow DEF WriteJSON, Subscribed, TypeOK, SessState
<1>6. ASSUME NEW s \in Sessions, WriteJSONFails(s) PROVE FlowInv'
  BY <1>6, <1>t, QuietFlow DEF WriteJSONFails, Subscribed, TypeOK, SessState
<1>7. ASSUME NEW s \in Sessions, UnsubscribeWs(s) PROVE FlowInv'
  <2>1. /\ \A x \in Sessions : x # s => sess'[x] = sess[x]
        /\ sess'[s].pc = "done" /\ sess[s].pc = "leaving"
        /\ Readers = {} /\ UNCHANGED <<chan, disp, created, got, begun>>
    BY <1>7, <1>t DEF UnsubscribeWs, TypeOK, SessState
  <2> DEFINE i == sess[s].inst
  <2>2. i \in Instances /\ wsClients[i] \in Seq(Sessions)
    BY <2>1, <1>t DEF TypeOK, CarriesOK
  <2>3. PICK k \in 1 .. Len(wsClients[i]) :
           /\ wsClients[i][k] = s
           /\ wsClients' = [wsClients EXCEPT ![i] = RemoveAt(@, k)]
    BY <1>7 DEF UnsubscribeWs
  <2>4. EventsNumbered' /\ FreshUntilLocked'
    BY <2>1, <1>f DEF EventsNumbered, FreshUntilLocked
  <2>5. SubscribedListed'
    <3> SUFFICES ASSUME NEW x \in Sessions, Subscribed(x)'
                 PROVE  \E l \in 1 .. Len(wsClients'[sess'[x].inst]) : wsClients'[sess'[x].inst][l] = x
      BY DEF SubscribedListed
    <3>1. x # s /\ sess'[x] = sess[x] /\ Subscribed(x)
      BY <2>1 DEF Subscribed
    <3>2. sess[x].inst \in Instances
      BY <3>1, <1>t DEF CarriesOK, Subscribed
    <3>3. x \in Elements(wsClients[sess[x].inst])
      BY <3>1, <1>f DEF SubscribedListed, Elements
    <3>4. CASE sess[x].inst = i
      <4>1. Elements(wsClients[i]) \subseteq Elements(RemoveAt(wsClients[i], k)) \cup {wsClients[i][k]}
        BY <2>2, <2>3, ElementsProperties
      <4>2. wsClients'[i] = RemoveAt(wsClients[i], k)
        BY <2>2, <2>3, <1>t DEF TypeOK
      <4>3. x \in Elements(wsClients'[i])
        BY <3>1, <3>3, <3>4, <4>1, <4>2, <2>3
      <4> QED BY <3>1, <3>4, <4>3 DEF Elements
    <3>5. CASE sess[x].inst # i
      <4>1. wsClients'[sess[x].inst] = wsClients[sess[x].inst]
        BY <3>2, <3>5, <2>2, <2>3, <1>t DEF TypeOK
      <4> QED BY <3>1, <3>3, <4>1 DEF Elements
    <3> QED BY <3>4, <3>5
  <2>6. LoopOverSubscribed'
    BY <2>1 DEF LoopOverSubscribed, Readers
  <2>7. IdleEmpty'
    BY <2>1, <1>f DEF IdleEmpty
  <2> QED BY <2>4, <2>5, <2>6, <2>7 DEF FlowInv
<1>8. ASSUME NEW d \in Dispatchers, NEW i \in Instances, NEW type \in EventTypes,
             Dispatch(d, i, type)
      PROVE FlowInv'
  <2> DEFINE e == [id |-> created + 1, by |-> d, inst |-> i, type |-> type]
  <2>1. /\ \A x \in Dispatchers : x # d => disp'[x] = disp[x]
        /\ disp'[d].pc = "locking" /\ disp'[d].evt = e
        /\ created' = created + 1 /\ created \in Nat
        /\ UNCHANGED <<wsClients, chan, sess, got, begun>>
    BY <1>8, <1>t, BoundsAssumption DEF Dispatch, TypeOK
  <2>2. EventsNumbered'
    <3>1. \A x \in Dispatchers : disp'[x].pc # "idle" => disp'[x].evt.by = x /\ disp'[x].evt.id <= created'
      <4>1. \A x \in Dispatchers : disp[x].pc # "idle" => disp[x].evt.id \in Nat
        BY <1>t, BoundsAssumption DEF CarriesOK, Event
      <4> QED BY <2>1, <4>1, <1>f DEF EventsNumbered
    <3>2. \A a \in Instances : \A x \in begun'[a] : x.inst = a /\ x.id <= created'
      <4>1. \A a \in Instances : \A x \in begun[a] : x.id \in Nat
        BY <1>t, BoundsAssumption DEF TypeOK, Event
      <4> QED BY <2>1, <4>1, <1>f DEF EventsNumbered
    <3> QED BY <3>1, <3>2 DEF EventsNumbered
  <2>3. FreshUntilLocked'
    <3>1. \A a \in Instances : e \notin begun[a]
      <4>1. e.id = created + 1
        OBVIOUS
      <4> QED BY <4>1, <2>1, <1>f DEF EventsNumbered
    <3> QED BY <3>1, <2>1, <1>f DEF FreshUntilLocked
  <2>4. SubscribedListed' /\ IdleEmpty'
    BY <2>1, <1>f DEF SubscribedListed, IdleEmpty, Subscribed
  <2>5. LoopOverSubscribed'
    BY <2>1, <1>f DEF LoopOverSubscribed, Subscribed
  <2> QED BY <2>2, <2>3, <2>4, <2>5 DEF FlowInv
<1>9. ASSUME NEW d \in Dispatchers, RLock(d) PROVE FlowInv'
  <2> DEFINE e == disp[d].evt
  <2>1. /\ \A x \in Dispatchers : x # d => disp'[x] = disp[x]
        /\ disp[d].pc = "locking" /\ disp'[d].pc = "sending" /\ disp'[d].evt = e
        /\ disp'[d].todo = wsClients[e.inst]
        /\ begun' = [begun EXCEPT ![e.inst] = @ \cup {e}]
        /\ UNCHANGED <<wsClients, chan, sess, got, created>>
    BY <1>9, <1>t DEF RLock, TypeOK, DispState
  <2>2. e.inst \in Instances /\ e.by = d /\ e.id <= created
    BY <2>1, <1>t, <1>f DEF CarriesOK, Event, EventsNumbered
  <2>b. \A a \in Instances : \A x \in begun'[a] : x \in begun[a] \/ (x = e /\ a = e.inst)
    BY <2>1, <2>2, <1>t DEF TypeOK
  <2>3. EventsNumbered'
    BY <2>1, <2>2, <2>b, <1>f DEF EventsNumbered
  <2>4. FreshUntilLocked'
    BY <2>1, <2>2, <2>b, <1>f DEF FreshUntilLocked, EventsNumbered
  <2>5. SubscribedListed' /\ IdleEmpty'
    BY <2>1, <1>f DEF SubscribedListed, IdleEmpty, Subscribed
  <2>6. LoopOverSubscribed'
    <3>1. \A k, l \in 1 .. Len(wsClients[e.inst]) :
             /\ Subscribed(wsClients[e.inst][k])
             /\ sess[wsClients[e.inst][k]].inst = e.inst
             /\ wsClients[e.inst][k] = wsClients[e.inst][l] => k = l
      BY <2>2, <1>t DEF ListedOnce, Subscribed
    <3> QED BY <2>1, <3>1, <1>f DEF LoopOverSubscribed, Subscribed
  <2> QED BY <2>3, <2>4, <2>5, <2>6 DEF FlowInv
<1>10. ASSUME NEW d \in Dispatchers, SendWs(d) PROVE FlowInv'
  <2>1. /\ \A x \in Dispatchers : x # d => disp'[x] = disp[x]
        /\ disp[d].pc = "sending" /\ disp'[d].pc = "sending" /\ disp'[d].evt = disp[d].evt
        /\ disp'[d].todo = Tail(disp[d].todo) /\ disp[d].todo # <<>>
        /\ disp[d].todo \in Seq(Sessions)
        /\ UNCHANGED <<wsClients, sess, got, created, begun>>
    BY <1>10, <1>t DEF SendWs, TypeOK, DispState
  <2>2. \A k \in 1 .. Len(disp'[d].todo) :
           k + 1 \in 1 .. Len(disp[d].todo) /\ disp'[d].todo[k] = disp[d].todo[k + 1]
    BY <2>1
  <2>3. EventsNumbered' /\ FreshUntilLocked'
    BY <2>1, <1>f DEF EventsNumbered, FreshUntilLocked
  <2>4. SubscribedListed'
    BY <2>1, <1>f DEF SubscribedListed, Subscribed
  <2>5. LoopOverSubscribed'
    <3> SUFFICES ASSUME NEW x \in Dispatchers, disp'[x].pc = "sending", NEW k \in 1 .. Len(disp'[x].todo)
                 PROVE  /\ Subscribed(disp'[x].todo[k])
                        /\ sess[disp'[x].todo[k]].inst = disp'[x].evt.inst
                        /\ \A l \in 1 .. Len(disp'[x].todo) : disp'[x].todo[k] = disp'[x].todo[l] => k = l
      BY <2>1 DEF LoopOverSubscribed, Subscribed
    <3>1. CASE x # d
      BY <3>1, <2>1, <1>f DEF LoopOverSubscribed
    <3>2. CASE x = d
      <4>1. /\ Subscribed(disp[d].todo[k + 1])
            /\ sess[disp[d].todo[k + 1]].inst = disp[d].evt.inst
        BY <3>2, <2>1, <2>2, <1>f DEF LoopOverSubscribed
      <4>2. ASSUME NEW l \in 1 .. Len(disp'[d].todo), disp'[d].todo[k] = disp'[d].todo[l]
            PROVE  k = l
        <5>1. k + 1 = l + 1
          BY <3>2, <4>2, <2>1, <2>2, <1>f DEF LoopOverSubscribed
        <5>2. Len(disp'[d].todo) \in Nat
          BY <2>1
        <5> QED BY <5>1, <5>2, <3>2
      <4> QED BY <3>2, <4>1, <4>2, <2>1, <2>2
    <3> QED BY <3>1, <3>2
  <2>6. IdleEmpty'
    <3>1. Head(disp[d].todo) = disp[d].todo[1] /\ 1 \in 1 .. Len(disp[d].todo)
      BY <2>1
    <3>2. sess[Head(disp[d].todo)].pc # "idle"
      BY <3>1, <2>1, <1>f DEF LoopOverSubscribed, Subscribed
    <3>3. \A x \in Sessions : x # Head(disp[d].todo) => chan'[x] = chan[x]
      BY <1>10, <1>t DEF SendWs, TypeOK
    <3> QED BY <3>2, <3>3, <2>1, <1>f DEF IdleEmpty
  <2> QED BY <2>3, <2>4, <2>5, <2>6 DEF FlowInv
<1>11. ASSUME NEW d \in Dispatchers, SpawnHooks(d) PROVE FlowInv'
  <2>1. /\ \A x \in Dispatchers : x # d => disp'[x] = disp[x]
        /\ disp'[d].pc = "idle"
        /\ UNCHANGED <<wsClients, chan, sess, got, created, begun>>
    BY <1>11, <1>t DEF SpawnHooks, TypeOK
  <2>2. EventsNumbered' /\ FreshUntilLocked'
    BY <2>1, <1>f DEF EventsNumbered, FreshUntilLocked
  <2>3. SubscribedListed' /\ IdleEmpty'
    BY <2>1, <1>f DEF SubscribedListed, IdleEmpty, Subscribed
  <2>4. LoopOverSubscribed'
    BY <2>1, <1>f DEF LoopOverSubscribed, Subscribed
  <2> QED BY <2>2, <2>3, <2>4 DEF FlowInv
<1>12. ASSUME NEW p \in posts, send(p) PROVE FlowInv'
  BY <1>12, <1>t, QuietFlow DEF send, Subscribed
<1>13. CASE UNCHANGED vars
  BY <1>13, <1>t, QuietFlow DEF vars, Subscribed
<1> QED
  BY <1>1, <1>2, <1>3, <1>4, <1>5, <1>6, <1>7, <1>8, <1>9, <1>10, <1>11, <1>12, <1>13 DEF Next

-----------------------------------------------------------------------------
(* The streams *)

\* A session's stream holds events that exist, and those of a goroutine that is
\* about to send to it are older than the event it is about to send.
StreamBehind ==
    /\ \A s \in Sessions : \A k \in 1 .. Len(Stream(s)) : Stream(s)[k].id <= created
    /\ \A d \in Dispatchers, s \in Sessions :
          (disp[d].pc = "locking" \/ (disp[d].pc = "sending" /\ s \in Elements(disp[d].todo)))
          => \A k \in 1 .. Len(Stream(s)) : Stream(s)[k].by = d => Stream(s)[k].id < disp[d].evt.id

StreamInv == StreamBehind /\ StreamOfOneInstance /\ StreamInOrder

\* The events of s in the next state are events of s now, in the same order.
StreamKept(s) ==
    \E f \in [1 .. Len(Stream(s)') -> 1 .. Len(Stream(s))] :
        /\ \A k \in 1 .. Len(Stream(s)') : Stream(s)'[k] = Stream(s)[f[k]]
        /\ \A j, k \in 1 .. Len(Stream(s)') : j < k => f[j] < f[k]

\* The entries of a concatenation.
LEMMA ConcatEntries ==
    ASSUME NEW S, NEW a \in Seq(S), NEW b \in Seq(S)
    PROVE  /\ a \o b \in Seq(S)
           /\ Len(a \o b) = Len(a) + Len(b)
           /\ \A k \in 1 .. Len(a) + Len(b) :
                 (a \o b)[k] = IF k <= Len(a) THEN a[k] ELSE b[k - Len(a)]
  OBVIOUS

\* Sequences are equal when their entries are.
LEMMA SeqEqual ==
  ASSUME NEW S, NEW s \in Seq(S), NEW t \in Seq(S),
         Len(s) = Len(t), \A i \in 1 .. Len(s) : s[i] = t[i]
  PROVE  s = t
  OBVIOUS
\* The entries of a sequence in three parts.
LEMMA Middle ==
    ASSUME NEW S, NEW a \in Seq(S), NEW m \in Seq(S), NEW b \in Seq(S)
    PROVE  /\ a \o m \o b \in Seq(S)
           /\ Len(a \o m \o b) = Len(a) + Len(m) + Len(b)
           /\ \A k \in 1 .. Len(a) + Len(m) + Len(b) :
                 (a \o m \o b)[k] = IF k <= Len(a) THEN a[k]
                                    ELSE IF k <= Len(a) + Len(m) THEN m[k - Len(a)]
                                    ELSE b[k - Len(a) - Len(m)]
<1> DEFINE am == a \o m
<1>1. /\ am \in Seq(S) /\ Len(am) = Len(a) + Len(m)
      /\ \A k \in 1 .. Len(a) + Len(m) :
                 am[k] = IF k <= Len(a) THEN a[k] ELSE m[k - Len(a)]
  BY ConcatEntries
<1>n. Len(a) \in Nat /\ Len(m) \in Nat /\ Len(b) \in Nat
  OBVIOUS
<1> HIDE DEF am
<1>2. /\ am \o b \in Seq(S) /\ Len(am \o b) = Len(am) + Len(b)
      /\ \A k \in 1 .. Len(am) + Len(b) :
                 (am \o b)[k] = IF k <= Len(am) THEN am[k] ELSE b[k - Len(am)]
  <2>1. am \in Seq(S)
    BY <1>1
  <2> QED BY <2>1, ConcatEntries
<1>3. ASSUME NEW k \in 1 .. Len(a) + Len(m) + Len(b)
      PROVE   (am \o b)[k] = IF k <= Len(a) THEN a[k]
                                    ELSE IF k <= Len(a) + Len(m) THEN m[k - Len(a)]
                                    ELSE b[k - Len(a) - Len(m)]
  <2>0. k - Len(am) = k - Len(a) - Len(m)
    BY <1>1, <1>n
  <2>1. CASE k <= Len(am)
    BY <2>1, <1>1, <1>2, <1>n
  <2>2. CASE k > Len(am)
    <3>1. (am \o b)[k] = b[k - Len(am)]
      BY <2>2, <1>1, <1>2, <1>n
    <3> QED BY <3>1, <2>0, <2>2, <1>1, <1>n
  <2> QED BY <2>1, <2>2, <1>1, <1>n
<1> QED BY <1>1, <1>2, <1>3 DEF am

\* The head of the last part moves into the middle (Range).
LEMMA HeadMoves ==
    ASSUME NEW S, NEW a \in Seq(S), NEW b \in Seq(S), b # <<>>
    PROVE  a \o <<Head(b)>> \o Tail(b) = a \o <<>> \o b
<1>1. <<Head(b)>> \in Seq(S) /\ Tail(b) \in Seq(S) /\ <<>> \in Seq(S) /\ Len(b) >= 1
      /\ Len(Tail(b)) = Len(b) - 1 /\ \A k \in 1 .. Len(b) - 1 : Tail(b)[k] = b[k + 1]
      /\ Len(a) \in Nat /\ Len(b) \in Nat /\ Head(b) = b[1]
  OBVIOUS
<1> DEFINE x == a \o <<Head(b)>> \o Tail(b)
           y == a \o <<>> \o b
<1>2. x \in Seq(S) /\ y \in Seq(S) /\ Len(x) = Len(a) + Len(b) /\ Len(y) = Len(a) + Len(b)
  BY <1>1, Middle
<1>3. \A k \in 1 .. Len(a) + Len(b) : y[k] = IF k <= Len(a) THEN a[k] ELSE b[k - Len(a)]
  <2>1. a \o <<>> = a
    OBVIOUS
  <2> QED BY <2>1, ConcatEntries
<1>4. \A k \in 1 .. Len(a) + Len(b) : x[k] = IF k <= Len(a) THEN a[k] 
                     ELSE IF k = Len(a) + 1 THEN b[1] ELSE Tail(b)[k - Len(a) - 1]
  <2>1. <<Head(b)>>[1] = Head(b) /\ Len(<<Head(b)>>) = 1
    OBVIOUS
  <2>2. \A k \in 1 .. Len(a) + 1 + (Len(b) - 1) :
                 x[k] = IF k <= Len(a) THEN a[k]
                                    ELSE IF k <= Len(a) + 1 THEN <<Head(b)>>[k - Len(a)]
                                    ELSE Tail(b)[k - Len(a) - 1]
    BY <1>1, <2>1, Middle
  <2> HIDE DEF x
  <2> QED BY <2>1, <2>2, <1>1
<1> HIDE DEF x, y
<1>5. \A k \in 1 .. Len(a) + Len(b) : x[k] = y[k]
   <2> SUFFICES ASSUME NEW k \in 1 .. Len(a) + Len(b) PROVE x[k] = y[k] OBVIOUS
   <2>1. CASE k <= Len(a)
     BY <2>1, <1>3, <1>4
   <2>2. CASE k = Len(a) + 1
     BY <2>2, <1>3, <1>4, <1>1
   <2>3. CASE k > Len(a) + 1
     <3>1. k - Len(a) - 1 \in 1 .. Len(b) - 1 /\ (k - Len(a) - 1) + 1 = k - Len(a)
       BY <2>3, <1>1
     <3>2. Tail(b)[k - Len(a) - 1] = b[k - Len(a)]
       BY <3>1, <1>1
     <3> QED BY <3>2, <2>3, <1>3, <1>4, <1>1
   <2> QED BY <2>1, <2>2, <2>3, <1>1
<1>6. x = y
  BY <1>5, <1>2, SeqEqual
<1> QED BY <1>6 DEF x, y

\* Appending to the last part is appending to the whole (SendWs).
LEMMA AppendMoves ==
    ASSUME NEW S, NEW a \in Seq(S), NEW e \in S, NEW b \in Seq(S)
    PROVE  a \o Append(b, e) = Append(a \o b, e)
<1> DEFINE be == Append(b, e)
           x == a \o be
           ab == a \o b
           y == Append(ab, e)
<1>1. be \in Seq(S) /\ Len(be) = Len(b) + 1 /\ Len(a) \in Nat /\ Len(b) \in Nat
      /\ be[Len(b) + 1] = e /\ \A k \in 1 .. Len(b) : be[k] = b[k]
  OBVIOUS
<1>2. /\ ab \in Seq(S) /\ Len(ab) = Len(a) + Len(b)
      /\ \A k \in 1 .. Len(a) + Len(b) : ab[k] = IF k <= Len(a) THEN a[k] ELSE b[k - Len(a)]
  BY ConcatEntries
<1> HIDE DEF be, ab
<1>3. /\ x \in Seq(S) /\ Len(x) = Len(a) + Len(be)
      /\ \A k \in 1 .. Len(a) + Len(be) : x[k] = IF k <= Len(a) THEN a[k] ELSE be[k - Len(a)]
  BY ConcatEntries, <1>1
<1>4. /\ y \in Seq(S) /\ Len(y) = Len(ab) + 1
      /\ y[Len(ab) + 1] = e
      /\ \A k \in 1 .. Len(ab) : y[k] = ab[k]
  BY <1>2
<1> HIDE DEF x, y
<1>5. ASSUME NEW k \in 1 .. Len(a) + Len(b) + 1 PROVE x[k] = y[k]
   <2>0. Len(be) = Len(b) + 1 /\ Len(ab) = Len(a) + Len(b) /\ Len(a) \in Nat /\ Len(b) \in Nat
     BY <1>1, <1>2
   <2>1. CASE k <= Len(a)
      <3>1. k \in 1 .. Len(a) + Len(be) /\ k \in 1 .. Len(ab) /\ k \in 1 .. Len(a) + Len(b)
        BY <2>0, <2>1
      <3>2. x[k] = a[k]
        BY <3>1, <2>1, <1>3
      <3>3. y[k] = ab[k]
        BY <3>1, <1>4
      <3>4. ab[k] = a[k]
        BY <3>1, <2>1, <1>2
      <3> QED BY <3>2, <3>3, <3>4
   <2>2. CASE k > Len(a) /\ k <= Len(a) + Len(b)
      <3>1. k - Len(a) \in 1 .. Len(b)
        BY <2>2, <1>1
      <3> QED BY <3>1, <2>2, <1>1, <1>2, <1>3, <1>4
   <2>3. CASE k = Len(a) + Len(b) + 1
      <3>1. k - Len(a) = Len(b) + 1
        BY <2>3, <1>1
      <3> QED BY <3>1, <2>3, <1>1, <1>2, <1>3, <1>4
   <2> QED BY <2>1, <2>2, <2>3, <1>1
<1>6. Len(x) = Len(a) + Len(b) + 1 /\ Len(y) = Len(a) + Len(b) + 1
  BY <1>1, <1>2, <1>3, <1>4
<1>7. x \in Seq(S) /\ y \in Seq(S)
  BY <1>3, <1>4
<1>8. Len(x) = Len(y) /\ \A k \in 1 .. Len(x) : x[k] = y[k]
  BY <1>5, <1>6
<1>9. x = y
  BY <1>7, <1>8, SeqEqual
<1> QED BY <1>9 DEF x, y, ab, be
-----------------------------------------------------------------------------
\* A stream is a sequence of events.
LEMMA StreamType ==
    ASSUME TypeOK, CarriesOK, NEW s \in Sessions
    PROVE  Stream(s) \in Seq(Event)
<1>1. got[s] \in Seq(Event) /\ chan[s] \in Seq(Event)
  BY DEF TypeOK
<1>2. (IF sess[s].pc = "writing" THEN <<sess[s].cur>> ELSE <<>>) \in Seq(Event)
  BY DEF CarriesOK
<1> QED BY <1>1, <1>2, Middle DEF Stream

\* All streams are empty in the initial state.
LEMMA InitStream == Init => StreamInv
<1> SUFFICES ASSUME Init PROVE StreamInv
  OBVIOUS
<1>1. ASSUME NEW s \in Sessions PROVE Len(Stream(s)) = 0
  BY DEF Init, Stream
<1> QED
  BY <1>1 DEF Init, StreamInv, StreamBehind, StreamOfOneInstance, StreamInOrder

\* Steps that keep the streams, the numbers given out and the loops.
LEMMA KeptStream ==
    ASSUME TypeOK, CarriesOK, StreamInv, created' = created, TypeOK', CarriesOK',
           \A s \in Sessions : StreamKept(s),
           \A s \in Sessions : sess'[s].inst = sess[s].inst \/ Len(Stream(s)) = 0,
           \A d \in Dispatchers :
              \/ disp'[d].pc = "idle"
              \/ disp'[d] = disp[d]
              \/ disp[d].pc = "locking" /\ disp'[d].evt = disp[d].evt
    PROVE  StreamInv'
<1>1. ASSUME NEW s \in Sessions, NEW k \in 1 .. Len(Stream(s)')
      PROVE  /\ Stream(s)'[k].id <= created'
             /\ Stream(s)'[k].inst = sess'[s].inst
  <2>1. PICK f \in [1 .. Len(Stream(s)') -> 1 .. Len(Stream(s))] :
           \A j \in 1 .. Len(Stream(s)') : Stream(s)'[j] = Stream(s)[f[j]]
    BY DEF StreamKept
  <2>2. f[k] \in 1 .. Len(Stream(s)) /\ Stream(s)'[k] = Stream(s)[f[k]]
    BY <2>1
  <2>3. sess'[s].inst = sess[s].inst
    <3>1. Len(Stream(s)) # 0
      BY <2>2
    <3> QED BY <3>1
  <2> QED BY <2>2, <2>3 DEF StreamInv, StreamBehind, StreamOfOneInstance
<1>2. ASSUME NEW s \in Sessions, NEW j \in 1 .. Len(Stream(s)'), NEW k \in 1 .. Len(Stream(s)'),
             j < k, Stream(s)'[j].by = Stream(s)'[k].by
      PROVE  Stream(s)'[j].id < Stream(s)'[k].id
  <2>1. PICK f \in [1 .. Len(Stream(s)') -> 1 .. Len(Stream(s))] :
           /\ \A l \in 1 .. Len(Stream(s)') : Stream(s)'[l] = Stream(s)[f[l]]
           /\ \A l, m \in 1 .. Len(Stream(s)') : l < m => f[l] < f[m]
    BY DEF StreamKept
  <2>2. /\ f[j] \in 1 .. Len(Stream(s)) /\ f[k] \in 1 .. Len(Stream(s)) /\ f[j] < f[k]
        /\ Stream(s)'[j] = Stream(s)[f[j]] /\ Stream(s)'[k] = Stream(s)[f[k]]
    BY <1>2, <2>1
  <2> QED BY <1>2, <2>2 DEF StreamInv, StreamInOrder
<1>3. ASSUME NEW d \in Dispatchers, NEW s \in Sessions,
             disp'[d].pc = "locking" \/ (disp'[d].pc = "sending" /\ s \in Elements(disp'[d].todo)),
             NEW k \in 1 .. Len(Stream(s)'), Stream(s)'[k].by = d
      PROVE  Stream(s)'[k].id < disp'[d].evt.id
  <2>1. PICK f \in [1 .. Len(Stream(s)') -> 1 .. Len(Stream(s))] :
           \A j \in 1 .. Len(Stream(s)') : Stream(s)'[j] = Stream(s)[f[j]]
    BY DEF StreamKept
  <2>2. f[k] \in 1 .. Len(Stream(s)) /\ Stream(s)'[k] = Stream(s)[f[k]]
    BY <2>1
  <2>3. /\ disp'[d].evt = disp[d].evt
        /\ disp[d].pc = "locking" \/ (disp[d].pc = "sending" /\ s \in Elements(disp[d].todo))
    <3>1. CASE disp'[d] = disp[d]
      BY <1>3, <3>1
    <3>2. CASE disp[d].pc = "locking" /\ disp'[d].evt = disp[d].evt
      BY <3>2
    <3> QED BY <1>3, <3>1, <3>2
  <2> QED BY <1>3, <2>2, <2>3 DEF StreamInv, StreamBehind
<1>4. StreamBehind'
  BY <1>1, <1>3 DEF StreamBehind
<1>5. StreamOfOneInstance' /\ StreamInOrder'
  BY <1>1, <1>2 DEF StreamOfOneInstance, StreamInOrder
<1> QED BY <1>4, <1>5 DEF StreamInv

\* A stream that does not change is kept.
LEMMA EqualStream ==
    ASSUME TypeOK, CarriesOK, NEW s \in Sessions, Stream(s)' = Stream(s)
    PROVE  StreamKept(s)
<1>1. Len(Stream(s)) \in Nat
  BY StreamType
<1>2. PICK f : f = [k \in 1 .. Len(Stream(s)) |-> k]
  OBVIOUS
<1> QED BY <1>1, <1>2 DEF StreamKept

\* A stream whose parts do not change is kept.
LEMMA SameStream ==
    ASSUME TypeOK, CarriesOK, NEW s \in Sessions, got'[s] = got[s], chan'[s] = chan[s],
           sess'[s].pc = "writing" <=> sess[s].pc = "writing", sess'[s].cur = sess[s].cur
    PROVE  Stream(s)' = Stream(s) /\ StreamKept(s)
<1>1. Stream(s)' = Stream(s)
  BY DEF Stream
<1> QED BY <1>1, EqualStream

\* Every step keeps the streams ordered and of one instance.
LEMMA StepStream ==
    IndInv /\ IndInv' /\ FlowInv /\ StreamInv /\ [Next]_vars => StreamInv'
<1> SUFFICES ASSUME IndInv, IndInv', FlowInv, StreamInv, [Next]_vars PROVE StreamInv'
  OBVIOUS
<1>t. TypeOK /\ CarriesOK /\ TypeOK' /\ CarriesOK'
  BY DEF IndInv
<1>f. EventsNumbered /\ LoopOverSubscribed /\ IdleEmpty
  BY DEF FlowInv
<1>q. ASSUME UNCHANGED <<got, chan, sess, created>>,
             \A d \in Dispatchers :
                \/ disp'[d].pc = "idle"
                \/ disp'[d] = disp[d]
                \/ disp[d].pc = "locking" /\ disp'[d].evt = disp[d].evt
      PROVE  StreamInv'
  <2>1. \A s \in Sessions : StreamKept(s)
    BY <1>q, <1>t, SameStream
  <2> QED BY <1>q, <1>t, <2>1, KeptStream
<1>1. ASSUME NEW i \in Instances, NEW t \in Targets, Register(i, t) PROVE StreamInv'
  BY <1>1, <1>q DEF Register
<1>2. ASSUME NEW i \in Instances, NEW url, Unregister(i, url) PROVE StreamInv'
  BY <1>2, <1>q DEF Unregister
<1>3. ASSUME NEW s \in Sessions, NEW i \in Instances, SubscribeWs(s, i) PROVE StreamInv'
  <2>1. /\ sess[s].pc = "idle" /\ sess'[s].pc = "ranging" /\ sess'[s].cur = sess[s].cur
        /\ \A x \in Sessions : x # s => sess'[x] = sess[x]
        /\ UNCHANGED <<got, chan, disp, created>>
    BY <1>3, <1>t DEF SubscribeWs, TypeOK, SessState
  <2>2. \A x \in Sessions : StreamKept(x)
    BY <2>1, <1>t, SameStream
  <2>3. got[s] = <<>> /\ chan[s] = <<>>
    BY <2>1, <1>f DEF IdleEmpty
  <2>4. Len(Stream(s)) = 0
    <3>1. Stream(s) = <<>> \o <<>> \o <<>>
      BY <2>1, <2>3 DEF Stream
    <3> QED BY <3>1
  <2> QED BY <2>1, <2>2, <2>4, <1>t, KeptStream
<1>4. ASSUME NEW s \in Sessions, Range(s) PROVE StreamInv'
  <2>1. /\ sess[s].pc = "ranging" /\ sess'[s].pc = "writing" /\ sess'[s].cur = Head(chan[s])
        /\ chan[s] # <<>> /\ chan'[s] = Tail(chan[s]) /\ got[s] \in Seq(Event) /\ chan[s] \in Seq(Event)
        /\ \A x \in Sessions : x # s => sess'[x] = sess[x] /\ chan'[x] = chan[x]
        /\ \A x \in Sessions : sess'[x].inst = sess[x].inst
        /\ UNCHANGED <<got, disp, created>>
    BY <1>4, <1>t DEF Range, TypeOK, SessState
  <2>2. StreamKept(s)
    <3>1. Stream(s) = got[s] \o <<>> \o chan[s]
      BY <2>1 DEF Stream
    <3>2. Stream(s)' = got[s] \o <<Head(chan[s])>> \o Tail(chan[s])
      BY <2>1 DEF Stream
    <3> QED BY <3>1, <3>2, <2>1, <1>t, HeadMoves, EqualStream
  <2>3. \A x \in Sessions : StreamKept(x)
    BY <2>1, <2>2, <1>t, SameStream
  <2> QED BY <2>1, <2>3, <1>t, KeptStream
<1>5. ASSUME NEW s \in Sessions, WriteJSON(s) PROVE StreamInv'
  <2>1. /\ sess[s].pc = "writing" /\ sess'[s].pc = "ranging" /\ sess[s].cur \in Event
        /\ got'[s] = Append(got[s], sess[s].cur) /\ got[s] \in Seq(Event) /\ chan[s] \in Seq(Event)
        /\ \A x \in Sessions : x # s => sess'[x] = sess[x] /\ got'[x] = got[x]
        /\ \A x \in Sessions : sess'[x].inst = sess[x].inst
        /\ UNCHANGED <<chan, disp, created>>
    BY <1>5, <1>t DEF WriteJSON, TypeOK, SessState, CarriesOK
  <2>2. StreamKept(s)
    <3>1. Stream(s) = got[s] \o <<sess[s].cur>> \o chan[s]
      BY <2>1 DEF Stream
    <3>2. Stream(s)' = Append(got[s], sess[s].cur) \o <<>> \o chan[s]
      BY <2>1 DEF Stream
    <3>3. Append(got[s], sess[s].cur) \o <<>> \o chan[s] = got[s] \o <<sess[s].cur>> \o chan[s]
      <4>1. got[s] \in Seq(Event) /\ sess[s].cur \in Event /\ chan[s] \in Seq(Event)
        BY <2>1
      <4>2. Append(got[s], sess[s].cur) \o <<>> = Append(got[s], sess[s].cur)
        BY <4>1
      <4>3. got[s] \o <<sess[s].cur>> = Append(got[s], sess[s].cur)
        BY <4>1
      <4> QED BY <4>2, <4>3
    <3> QED BY <3>1, <3>2, <3>3, <1>t, EqualStream
  <2>3. \A x \in Sessions : StreamKept(x)
    BY <2>1, <2>2, <1>t, SameStream
  <2> QED BY <2>1, <2>3, <1>t, KeptStream
<1>6. ASSUME NEW s \in Sessions, WriteJSONFails(s) PROVE StreamInv'
  <2>1. /\ sess[s].pc = "writing" /\ sess'[s].pc = "leaving" /\ sess[s].cur \in Event
        /\ got[s] \in Seq(Event) /\ chan[s] \in Seq(Event)
        /\ \A x \in Sessions : x # s => sess'[x] = sess[x]
        /\ \A x \in Sessions : sess'[x].inst = sess[x].inst
        /\ UNCHANGED <<chan, disp, created, got>>
    BY <1>6, <1>t DEF WriteJSONFails, TypeOK, SessState, CarriesOK
  <2>2. StreamKept(s)
    <3> DEFINE g == got[s]
               c == chan[s]
               m == <<sess[s].cur>>
    <3>1. /\ g \in Seq(Event) /\ c \in Seq(Event) /\ Len(c) \in Nat /\ Len(g) \in Nat
          /\ m \in Seq(Event) /\ Len(m) = 1
      BY <2>1
    <3>2. Stream(s) = g \o m \o c
      BY <2>1 DEF Stream
    <3>3. Stream(s)' = g \o c
      <4>1. Stream(s)' = g \o <<>> \o c
        BY <2>1 DEF Stream
      <4>2. g \o <<>> = g
        BY <3>1
      <4> QED BY <4>1, <4>2
    <3> HIDE DEF g, c, m
    <3>4. /\ Len(Stream(s)) = Len(g) + 1 + Len(c)
          /\ \A k \in 1 .. Len(g) + 1 + Len(c) :
                Stream(s)[k] = IF k <= Len(g) THEN g[k]
                               ELSE IF k <= Len(g) + 1 THEN m[k - Len(g)]
                               ELSE c[k - Len(g) - 1]
      <4>1. /\ Len(g \o m \o c) = Len(g) + Len(m) + Len(c)
            /\ \A k \in 1 .. Len(g) + Len(m) + Len(c) :
                  (g \o m \o c)[k] = IF k <= Len(g) THEN g[k]
                                     ELSE IF k <= Len(g) + Len(m) THEN m[k - Len(g)]
                                     ELSE c[k - Len(g) - Len(m)]
        <5>1. g \in Seq(Event) /\ m \in Seq(Event) /\ c \in Seq(Event)
          BY <3>1
        <5>2. \A x, y, z \in Seq(Event) :
                 /\ Len(x \o y \o z) = Len(x) + Len(y) + Len(z)
                 /\ \A k \in 1 .. Len(x) + Len(y) + Len(z) :
                       (x \o y \o z)[k] = IF k <= Len(x) THEN x[k]
                                          ELSE IF k <= Len(x) + Len(y) THEN y[k - Len(x)]
                                          ELSE z[k - Len(x) - Len(y)]
          BY ONLY Middle
        <5> QED BY <5>1, <5>2
      <4> QED BY <3>1, <3>2, <4>1
    <3>5. /\ Len(Stream(s)') = Len(g) + Len(c)
          /\ \A k \in 1 .. Len(g) + Len(c) : Stream(s)'[k] = IF k <= Len(g) THEN g[k] ELSE c[k - Len(g)]
      BY <3>1, <3>3, ConcatEntries
    <3>6. PICK f : f = [k \in 1 .. Len(Stream(s)') |-> IF k <= Len(g) THEN k ELSE k + 1]
      OBVIOUS
    <3>7. ASSUME NEW k \in 1 .. Len(Stream(s)') PROVE Stream(s)'[k] = Stream(s)[f[k]]
      <4>1. CASE k <= Len(g)
        BY <4>1, <3>1, <3>4, <3>5, <3>6
      <4>2. CASE k > Len(g)
        <5>1. f[k] = k + 1 /\ k + 1 \in 1 .. Len(g) + 1 + Len(c) /\ (k + 1) - Len(g) - 1 = k - Len(g)
          BY <4>2, <3>1, <3>5, <3>6
        <5>2. Stream(s)[k + 1] = c[(k + 1) - Len(g) - 1]
          BY <4>2, <5>1, <3>1, <3>4
        <5>3. Stream(s)'[k] = c[k - Len(g)]
          BY <4>2, <3>1, <3>5
        <5> QED BY <5>1, <5>2, <5>3
      <4> QED BY <4>1, <4>2, <3>1, <3>5
    <3>8. /\ f \in [1 .. Len(Stream(s)') -> 1 .. Len(Stream(s))]
          /\ \A j, k \in 1 .. Len(Stream(s)') : j < k => f[j] < f[k]
      BY <3>1, <3>4, <3>5, <3>6
    <3> QED BY <3>7, <3>8 DEF StreamKept
  <2>3. \A x \in Sessions : StreamKept(x)
    BY <2>1, <2>2, <1>t, SameStream
  <2> QED BY <2>1, <2>3, <1>t, KeptStream
<1>7. ASSUME NEW s \in Sessions, UnsubscribeWs(s) PROVE StreamInv'
  <2>1. /\ sess[s].pc = "leaving" /\ sess'[s].pc = "done" /\ sess'[s].cur = sess[s].cur
        /\ \A x \in Sessions : x # s => sess'[x] = sess[x]
        /\ \A x \in Sessions : sess'[x].inst = sess[x].inst
        /\ UNCHANGED <<got, chan, disp, created>>
    BY <1>7, <1>t DEF UnsubscribeWs, TypeOK, SessState
  <2>2. \A x \in Sessions : StreamKept(x)
    BY <2>1, <1>t, SameStream
  <2> QED BY <2>1, <2>2, <1>t, KeptStream
<1>8. ASSUME NEW d \in Dispatchers, NEW i \in Instances, NEW type \in EventTypes,
             Dispatch(d, i, type)
      PROVE StreamInv'
  <2>1. /\ \A x \in Dispatchers : x # d => disp'[x] = disp[x]
        /\ disp'[d].pc = "locking" /\ disp'[d].evt.id = created + 1
        /\ created' = created + 1 /\ created \in Nat
        /\ UNCHANGED <<chan, sess, got>>
    BY <1>8, <1>t, BoundsAssumption DEF Dispatch, TypeOK
  <2>2. \A s \in Sessions : Stream(s)' = Stream(s)
    BY <2>1, <1>t, SameStream
  <2>3. \A s \in Sessions : \A k \in 1 .. Len(Stream(s)) :
           Stream(s)[k].id \in Nat /\ Stream(s)[k].id <= created
    <3>1. ASSUME NEW s \in Sessions, NEW k \in 1 .. Len(Stream(s)) PROVE Stream(s)[k] \in Event
      <4>1. Stream(s) \in Seq(Event)
        BY <1>t, StreamType
      <4> QED BY <4>1
    <3> QED BY <3>1, BoundsAssumption DEF StreamInv, StreamBehind, Event
  <2>4. StreamBehind'
    <3>1. \A s \in Sessions : \A k \in 1 .. Len(Stream(s)') : Stream(s)'[k].id <= created'
      BY <2>1, <2>2, <2>3
    <3>2. ASSUME NEW x \in Dispatchers, NEW s \in Sessions,
                 disp'[x].pc = "locking" \/ (disp'[x].pc = "sending" /\ s \in Elements(disp'[x].todo)),
                 NEW k \in 1 .. Len(Stream(s)'), Stream(s)'[k].by = x
          PROVE  Stream(s)'[k].id < disp'[x].evt.id
      <4>1. CASE x = d
        BY <3>2, <4>1, <2>1, <2>2, <2>3
      <4>2. CASE x # d
        BY <3>2, <4>2, <2>1, <2>2 DEF StreamInv, StreamBehind
      <4> QED BY <4>1, <4>2
    <3> QED BY <3>1, <3>2 DEF StreamBehind
  <2>5. StreamOfOneInstance' /\ StreamInOrder'
    BY <2>1, <2>2 DEF StreamInv, StreamOfOneInstance, StreamInOrder
  <2> QED BY <2>4, <2>5 DEF StreamInv
<1>9. ASSUME NEW d \in Dispatchers, RLock(d) PROVE StreamInv'
  BY <1>9, <1>t, <1>q DEF RLock, TypeOK, DispState
<1>10. ASSUME NEW d \in Dispatchers, SendWs(d) PROVE StreamInv'
  <2> DEFINE e == disp[d].evt
  <2>c. PICK c : c = Head(disp[d].todo)
    OBVIOUS
  <2>1. /\ \A x \in Dispatchers : x # d => disp'[x] = disp[x]
        /\ disp[d].pc = "sending" /\ disp'[d].pc = "sending" /\ disp'[d].evt = e
        /\ disp'[d].todo = Tail(disp[d].todo) /\ disp[d].todo # <<>>
        /\ disp[d].todo \in Seq(Sessions) /\ e \in Event
        /\ UNCHANGED <<sess, got, created>>
        /\ chan' = chan \/ chan' = [chan EXCEPT ![c] = Append(@, e)]
    BY <1>10, <1>t, <2>c DEF SendWs, TypeOK, DispState, CarriesOK
  <2>2. c \in Sessions /\ c = disp[d].todo[1] /\ 1 \in 1 .. Len(disp[d].todo)
    BY <2>1, <2>c
  <2>3. Elements(disp'[d].todo) \subseteq Elements(disp[d].todo) /\ c \in Elements(disp[d].todo)
    BY <2>1, <2>2, <2>c, ElementsProperties
  <2>4. c \notin Elements(disp'[d].todo)
    <3> SUFFICES ASSUME NEW k \in 1 .. Len(disp'[d].todo), disp'[d].todo[k] = c PROVE FALSE
      BY DEF Elements
    <3>1. k + 1 \in 1 .. Len(disp[d].todo) /\ disp[d].todo[k + 1] = c /\ k \in Nat
      BY <2>1
    <3>2. k + 1 = 1
      BY <2>1, <2>2, <3>1, <1>f DEF LoopOverSubscribed
    <3> QED BY <3>1, <3>2
  <2>5. e.by = d /\ e.id <= created /\ e.inst = sess[c].inst
    BY <2>1, <2>2, <1>f DEF EventsNumbered, LoopOverSubscribed
  <2>6. ASSUME chan' = chan PROVE StreamInv'
    <3>1. \A s \in Sessions : Stream(s)' = Stream(s)
      BY <2>1, <2>6, <1>t, SameStream
    <3>2. StreamBehind'
      BY <2>1, <2>3, <3>1 DEF StreamInv, StreamBehind
    <3> QED BY <2>1, <3>1, <3>2 DEF StreamInv, StreamOfOneInstance, StreamInOrder
  <2>7. ASSUME chan' = [chan EXCEPT ![c] = Append(@, e)] PROVE StreamInv'
    <3>1. /\ chan'[c] = Append(chan[c], e) /\ chan[c] \in Seq(Event) /\ got[c] \in Seq(Event)
          /\ \A s \in Sessions : s # c => chan'[s] = chan[s]
      BY <2>2, <2>7, <1>t DEF TypeOK
    <3>2. \A s \in Sessions : s # c => Stream(s)' = Stream(s)
      BY <2>1, <3>1, <1>t, SameStream
    <3>3. /\ Len(Stream(c)') = Len(Stream(c)) + 1 /\ Len(Stream(c)) \in Nat
          /\ Stream(c)'[Len(Stream(c)) + 1] = e
          /\ \A k \in 1 .. Len(Stream(c)) : Stream(c)'[k] = Stream(c)[k]
      <4> DEFINE m == IF sess[c].pc = "writing" THEN <<sess[c].cur>> ELSE <<>>
                 g == got[c] \o m
      <4>1. m \in Seq(Event)
        BY <2>2, <1>t DEF CarriesOK
      <4>2. g \in Seq(Event)
        <5> HIDE DEF m
        <5> QED BY <4>1, <3>1, ConcatEntries
      <4>3. Stream(c) = g \o chan[c]
        BY DEF Stream
      <4>4. Stream(c)' = g \o chan'[c]
        BY <2>1 DEF Stream
      <4> HIDE DEF g, m
      <4>5. g \o Append(chan[c], e) = Append(g \o chan[c], e)
        BY <4>2, <3>1, <2>1, AppendMoves
      <4>6. Stream(c)' = Append(Stream(c), e) /\ Stream(c) \in Seq(Event)
        BY <4>2, <4>3, <4>4, <4>5, <3>1, <2>2, <1>t, StreamType
      <4> QED BY <4>6, <2>1
    <3>4. \A k \in 1 .. Len(Stream(c)) : Stream(c)[k].by = d => Stream(c)[k].id < e.id
      BY <2>1, <2>2, <2>3 DEF StreamInv, StreamBehind
    <3>5. \A k \in 1 .. Len(Stream(c)') :
             \/ k \in 1 .. Len(Stream(c)) /\ Stream(c)'[k] = Stream(c)[k]
             \/ k = Len(Stream(c)) + 1 /\ Stream(c)'[k] = e
      BY <3>3
    <3>6. StreamBehind'
      <4>1. \A s \in Sessions : \A k \in 1 .. Len(Stream(s)') : Stream(s)'[k].id <= created'
        BY <2>1, <2>5, <3>2, <3>5 DEF StreamInv, StreamBehind
      <4>2. ASSUME NEW x \in Dispatchers, NEW s \in Sessions,
                   disp'[x].pc = "locking" \/ (disp'[x].pc = "sending" /\ s \in Elements(disp'[x].todo)),
                   NEW k \in 1 .. Len(Stream(s)'), Stream(s)'[k].by = x
            PROVE  Stream(s)'[k].id < disp'[x].evt.id
        <5>1. /\ disp'[x].evt = disp[x].evt
              /\ disp[x].pc = "locking" \/ (disp[x].pc = "sending" /\ s \in Elements(disp[x].todo))
          BY <4>2, <2>1, <2>3
        <5>2. CASE s # c
          BY <4>2, <5>1, <5>2, <3>2 DEF StreamInv, StreamBehind
        <5>3. CASE s = c
          <6>1. x # d
            BY <4>2, <5>3, <2>1, <2>4
          <6>2. k \in 1 .. Len(Stream(c)) /\ Stream(c)'[k] = Stream(c)[k]
            BY <4>2, <5>3, <6>1, <3>5, <2>5
          <6> QED BY <4>2, <5>1, <5>3, <6>2 DEF StreamInv, StreamBehind
        <5> QED BY <5>2, <5>3
      <4> QED BY <4>1, <4>2 DEF StreamBehind
    <3>7. StreamOfOneInstance'
      BY <2>1, <2>5, <3>2, <3>5 DEF StreamInv, StreamOfOneInstance
    <3>8. StreamInOrder'
      <4> SUFFICES ASSUME NEW s \in Sessions, NEW j \in 1 .. Len(Stream(s)'), NEW k \in 1 .. Len(Stream(s)'),
                          j < k, Stream(s)'[j].by = Stream(s)'[k].by
                   PROVE  Stream(s)'[j].id < Stream(s)'[k].id
        BY DEF StreamInOrder
      <4>1. CASE s # c
        BY <4>1, <3>2 DEF StreamInv, StreamInOrder
      <4>2. CASE s = c
        <5>1. j \in 1 .. Len(Stream(c)) /\ Stream(c)'[j] = Stream(c)[j]
          BY <4>2, <3>3
        <5>2. CASE k \in 1 .. Len(Stream(c)) /\ Stream(c)'[k] = Stream(c)[k]
          BY <4>2, <5>1, <5>2 DEF StreamInv, StreamInOrder
        <5>3. CASE Stream(c)'[k] = e
          BY <4>2, <5>1, <5>3, <3>4, <2>5
        <5> QED BY <4>2, <5>2, <5>3, <3>5
      <4> QED BY <4>1, <4>2
    <3> QED BY <3>6, <3>7, <3>8 DEF StreamInv
  <2> QED BY <2>1, <2>6, <2>7
<1>11. ASSUME NEW d \in Dispatchers, SpawnHooks(d) PROVE StreamInv'
  BY <1>11, <1>t, <1>q DEF SpawnHooks, TypeOK
<1>12. ASSUME NEW p \in posts, send(p) PROVE StreamInv'
  BY <1>12, <1>q DEF send
<1>13. CASE UNCHANGED vars
  BY <1>13, <1>q DEF vars
<1> QED
  BY <1>1, <1>2, <1>3, <1>4, <1>5, <1>6, <1>7, <1>8, <1>9, <1>10, <1>11, <1>12, <1>13 DEF Next

\* A WebSocket client gets the events of each dispatching goroutine in the order
\* of their creation, whatever is dropped and however writes and sends of any
\* number of goroutines interleave.
THEOREM StreamOrderCorrect == Spec => []StreamInOrder
<1>1. Init => IndInv /\ FlowInv /\ StreamInv
  BY InitInv, InitFlow, InitStream
<1>2. IndInv /\ FlowInv /\ StreamInv /\ [Next]_vars => (IndInv /\ FlowInv /\ StreamInv)'
  BY StepInv, StepFlow, StepStream
<1>3. StreamInv => StreamInOrder
  BY DEF StreamInv
<1> QED BY <1>1, <1>2, <1>3, PTL DEF Spec

\* A WebSocket client never sees an event of another instance.
THEOREM StreamInstanceCorrect == Spec => []StreamOfOneInstance
<1>1. Init => IndInv /\ FlowInv /\ StreamInv
  BY InitInv, InitFlow, InitStream
<1>2. IndInv /\ FlowInv /\ StreamInv /\ [Next]_vars => (IndInv /\ FlowInv /\ StreamInv)'
  BY StepInv, StepFlow, StepStream
<1>3. StreamInv => StreamOfOneInstance
  BY DEF StreamInv
<1> QED BY <1>1, <1>2, <1>3, PTL DEF Spec

-----------------------------------------------------------------------------
(* The refinement *)

\* The initial state of the dispatcher maps to the initial state of Delivery.
LEMMA InitDelivery == Init => Promise!Init
<1> SUFFICES ASSUME Init PROVE Promise!Init
  OBVIOUS
<1>1. Member = [s \in Sessions |-> NoInst] /\ Queue = [s \in Sessions |-> <<>>]
  BY DEF Init, Member, Queue, Subscribed
<1>2. Published = {}
  BY DEF Init, Published
<1>3. Owed = [s \in Sessions |-> {}]
  <2>1. \A s \in Sessions : OnTheWayTo(s) = {}
    BY DEF Init, OnTheWayTo
  <2> QED BY <2>1 DEF Owed
<1> QED BY <1>1, <1>2, <1>3 DEF Promise!Init

\* Steps that Delivery does not see.
LEMMA QuietDelivery ==
    ASSUME UNCHANGED <<chan, begun>>,
           \A s \in Sessions : /\ sess'[s].inst = sess[s].inst
                               /\ Subscribed(s)' <=> Subscribed(s)
                               /\ OnTheWayTo(s)' = OnTheWayTo(s)
    PROVE  UNCHANGED Promise!vars
<1>1. Member' = Member
  BY DEF Member
<1>2. Queue' = Queue
  BY DEF Queue
<1>3. Published' = Published /\ Owed' = Owed
  BY DEF Published, Owed
<1> QED BY <1>1, <1>2, <1>3 DEF Promise!vars

\* Every step of the dispatcher is a step of Delivery or invisible there.
LEMMA StepDelivery ==
    IndInv /\ FlowInv /\ [Next]_vars => [Promise!Next]_(Promise!vars)
<1> SUFFICES ASSUME IndInv, FlowInv, [Next]_vars PROVE [Promise!Next]_(Promise!vars)
  OBVIOUS
<1>t. TypeOK /\ CarriesOK /\ ListedOnce
  BY DEF IndInv
<1>f. EventsNumbered /\ FreshUntilLocked /\ SubscribedListed /\ LoopOverSubscribed /\ IdleEmpty
  BY DEF FlowInv
<1>q. ASSUME UNCHANGED <<chan, begun, disp>>,
             \A s \in Sessions : /\ sess'[s].inst = sess[s].inst
                                 /\ Subscribed(s)' <=> Subscribed(s)
      PROVE  UNCHANGED Promise!vars
  <2>1. \A s \in Sessions : OnTheWayTo(s)' = OnTheWayTo(s)
    BY <1>q DEF OnTheWayTo
  <2> QED BY <1>q, <2>1, QuietDelivery
<1>1. ASSUME NEW i \in Instances, NEW t \in Targets, Register(i, t) PROVE UNCHANGED Promise!vars
  BY <1>1, <1>q DEF Register, Subscribed
<1>2. ASSUME NEW i \in Instances, NEW url, Unregister(i, url) PROVE UNCHANGED Promise!vars
  BY <1>2, <1>q DEF Unregister, Subscribed
<1>3. ASSUME NEW s \in Sessions, NEW i \in Instances, SubscribeWs(s, i) PROVE Promise!Join(s, i)
  <2>1. /\ sess[s].pc = "idle" /\ sess'[s].pc = "ranging" /\ sess'[s].inst = i
        /\ \A x \in Sessions : x # s => sess'[x] = sess[x]
        /\ UNCHANGED <<chan, disp, begun>>
    BY <1>3, <1>t DEF SubscribeWs, TypeOK, SessState
  <2>2. Member[s] = NoInst
    BY <2>1 DEF Member, Subscribed
  <2>3. Member' = [Member EXCEPT ![s] = i]
    BY <2>1 DEF Member, Subscribed
  <2>4. Queue' = Queue
    <3>1. chan[s] = <<>>
      BY <2>1, <1>f DEF IdleEmpty
    <3> QED BY <2>1, <3>1 DEF Queue, Subscribed
  <2>5. Published' = Published /\ Owed' = Owed
    BY <2>1 DEF Published, Owed, OnTheWayTo
  <2> QED BY <2>2, <2>3, <2>4, <2>5 DEF Promise!Join
<1>4. ASSUME NEW s \in Sessions, Range(s) PROVE Promise!Take(s)
  <2>1. /\ sess[s].pc = "ranging" /\ sess'[s].pc = "writing" /\ sess'[s].inst = sess[s].inst
        /\ chan[s] # <<>> /\ chan'[s] = Tail(chan[s])
        /\ \A x \in Sessions : x # s => sess'[x] = sess[x] /\ chan'[x] = chan[x]
        /\ UNCHANGED <<disp, begun>>
    BY <1>4, <1>t DEF Range, TypeOK, SessState
  <2>2. Queue[s] # <<>> /\ Queue' = [Queue EXCEPT ![s] = Tail(@)]
    BY <2>1 DEF Queue, Subscribed
  <2>3. Member' = Member
    BY <2>1 DEF Member, Subscribed
  <2>4. Published' = Published /\ Owed' = Owed
    BY <2>1 DEF Published, Owed, OnTheWayTo
  <2> QED BY <2>2, <2>3, <2>4 DEF Promise!Take
<1>5. ASSUME NEW s \in Sessions, WriteJSON(s) PROVE UNCHANGED Promise!vars
  BY <1>5, <1>t, <1>q DEF WriteJSON, Subscribed, TypeOK, SessState
<1>6. ASSUME NEW s \in Sessions, WriteJSONFails(s) PROVE UNCHANGED Promise!vars
  BY <1>6, <1>t, <1>q DEF WriteJSONFails, Subscribed, TypeOK, SessState
<1>7. ASSUME NEW s \in Sessions, UnsubscribeWs(s) PROVE Promise!Leave(s)
  <2>1. /\ sess[s].pc = "leaving" /\ sess'[s].pc = "done" /\ sess[s].inst \in Instances
        /\ \A x \in Sessions : x # s => sess'[x] = sess[x]
        /\ Readers = {} /\ UNCHANGED <<chan, disp, begun>>
    BY <1>7, <1>t DEF UnsubscribeWs, TypeOK, SessState, CarriesOK
  <2>2. Member[s] # NoInst /\ Member' = [Member EXCEPT ![s] = NoInst]
    BY <2>1, InstancesAssumption DEF Member, Subscribed
  <2>3. Owed[s] = {}
    BY <2>1 DEF Owed, OnTheWayTo, Readers
  <2>4. Queue' = [Queue EXCEPT ![s] = <<>>]
    BY <2>1 DEF Queue, Subscribed
  <2>5. Published' = Published /\ Owed' = Owed
    BY <2>1 DEF Published, Owed, OnTheWayTo
  <2> QED BY <2>2, <2>3, <2>4, <2>5 DEF Promise!Leave
<1>8. ASSUME NEW d \in Dispatchers, NEW i \in Instances, NEW type \in EventTypes,
             Dispatch(d, i, type)
      PROVE UNCHANGED Promise!vars
  <2>1. /\ \A x \in Dispatchers : x # d => disp'[x] = disp[x]
        /\ disp[d].pc # "sending" /\ disp'[d].pc # "sending"
        /\ UNCHANGED <<chan, sess, begun>>
    BY <1>8, <1>t DEF Dispatch, TypeOK
  <2>2. \A s \in Sessions : OnTheWayTo(s)' = OnTheWayTo(s)
    BY <2>1 DEF OnTheWayTo
  <2> QED BY <2>1, <2>2, QuietDelivery DEF Subscribed
<1>9. ASSUME NEW d \in Dispatchers, RLock(d) PROVE Promise!Publish(disp[d].evt)
  <2> DEFINE e == disp[d].evt
  <2>1. /\ \A x \in Dispatchers : x # d => disp'[x] = disp[x]
        /\ disp[d].pc = "locking" /\ disp'[d].pc = "sending" /\ disp'[d].evt = e
        /\ disp'[d].todo = wsClients[e.inst]
        /\ begun' = [begun EXCEPT ![e.inst] = @ \cup {e}]
        /\ UNCHANGED <<chan, sess>>
    BY <1>9, <1>t DEF RLock, TypeOK, DispState
  <2>2. e.inst \in Instances
    BY <2>1, <1>t DEF CarriesOK, Event
  <2>3. e \notin Published
    BY <2>1, <1>f DEF FreshUntilLocked, Published
  <2>4. Published' = Published \cup {e}
    BY <2>1, <2>2, <1>t DEF Published, TypeOK
  <2>5. ASSUME NEW s \in Sessions PROVE Member[s] = e.inst <=> s \in Elements(wsClients[e.inst])
    <3>1. ASSUME Member[s] = e.inst PROVE s \in Elements(wsClients[e.inst])
      <4>1. Subscribed(s) /\ sess[s].inst = e.inst
        BY <3>1, <2>2, InstancesAssumption DEF Member
      <4> QED BY <4>1, <1>f DEF SubscribedListed, Elements
    <3>2. ASSUME s \in Elements(wsClients[e.inst]) PROVE Member[s] = e.inst
      BY <3>2, <2>2, <1>t DEF Elements, ListedOnce, Member, Subscribed
    <3> QED BY <3>1, <3>2
  <2>6. Owed' = [s \in Sessions |-> IF Member[s] = e.inst THEN Owed[s] \cup {e} ELSE Owed[s]]
    <3>1. ASSUME NEW s \in Sessions
          PROVE  OnTheWayTo(s)' = IF s \in Elements(wsClients[e.inst])
                                  THEN OnTheWayTo(s) \cup {e} ELSE OnTheWayTo(s)
      BY <2>1 DEF OnTheWayTo
    <3> QED BY <2>5, <3>1 DEF Owed
  <2>7. Member' = Member /\ Queue' = Queue
    BY <2>1 DEF Member, Queue, Subscribed
  <2> QED BY <2>3, <2>4, <2>6, <2>7 DEF Promise!Publish
<1>10. ASSUME NEW d \in Dispatchers, SendWs(d)
       PROVE  \E s \in Sessions : Promise!Put(s, disp[d].evt) \/ Promise!Miss(s, disp[d].evt)
  <2> DEFINE e == disp[d].evt
  <2>c. PICK c : c = Head(disp[d].todo)
    OBVIOUS
  <2>1. /\ \A x \in Dispatchers : x # d => disp'[x] = disp[x]
        /\ disp[d].pc = "sending" /\ disp'[d].pc = "sending" /\ disp'[d].evt = e
        /\ disp'[d].todo = Tail(disp[d].todo) /\ disp[d].todo # <<>>
        /\ disp[d].todo \in Seq(Sessions)
        /\ UNCHANGED <<sess, begun>>
    BY <1>10, <1>t, <2>c DEF SendWs, TypeOK, DispState
  <2>2. c \in Sessions /\ c = disp[d].todo[1] /\ 1 \in 1 .. Len(disp[d].todo)
    BY <2>1, <2>c
  <2>3. Elements(disp[d].todo) = Elements(disp'[d].todo) \cup {c}
    BY <2>1, <2>2, <2>c, ElementsProperties
  <2>4. c \notin Elements(disp'[d].todo)
    <3> SUFFICES ASSUME NEW k \in 1 .. Len(disp'[d].todo), disp'[d].todo[k] = c PROVE FALSE
      BY DEF Elements
    <3>1. k + 1 \in 1 .. Len(disp[d].todo) /\ disp[d].todo[k + 1] = c /\ k \in Nat
      BY <2>1
    <3>2. k + 1 = 1
      BY <2>1, <2>2, <3>1, <1>f DEF LoopOverSubscribed
    <3> QED BY <3>1, <3>2
  <2>5. Subscribed(c)
    BY <2>1, <2>2, <1>f DEF LoopOverSubscribed
  <2>6. \A x \in Dispatchers : disp[x].pc = "sending" /\ x # d => disp[x].evt # e
    BY <2>1, <1>f DEF EventsNumbered
  <2>7. e \in Owed[c] /\ Owed' = [Owed EXCEPT ![c] = @ \ {e}]
    <3>1. e \in OnTheWayTo(c)
      BY <2>1, <2>3 DEF OnTheWayTo
    <3>2. OnTheWayTo(c)' = OnTheWayTo(c) \ {e}
      BY <2>1, <2>4, <2>6 DEF OnTheWayTo
    <3>3. \A s \in Sessions : s # c => OnTheWayTo(s)' = OnTheWayTo(s)
      BY <2>1, <2>3 DEF OnTheWayTo
    <3> QED BY <2>2, <3>1, <3>2, <3>3 DEF Owed
  <2>8. Member' = Member /\ Published' = Published
    BY <2>1 DEF Member, Published, Subscribed
  <2>9. CASE Len(chan[c]) < Cap /\ chan' = [chan EXCEPT ![c] = Append(@, e)]
    <3>1. Len(Queue[c]) < Cap /\ Queue' = [Queue EXCEPT ![c] = Append(@, e)]
      BY <2>9, <2>1, <2>2, <2>5, <1>t DEF Queue, Subscribed, TypeOK
    <3>2. Promise!Put(c, e)
      BY <2>7, <2>8, <3>1 DEF Promise!Put
    <3> QED BY <2>2, <3>2
  <2>10. CASE Len(chan[c]) >= Cap /\ chan' = chan
    <3>1. Len(Queue[c]) >= Cap /\ Queue' = Queue
      BY <2>10, <2>1, <2>2, <2>5 DEF Queue, Subscribed
    <3>2. Promise!Miss(c, e)
      BY <2>7, <2>8, <3>1 DEF Promise!Miss
    <3> QED BY <2>2, <3>2
  <2> QED BY <1>10, <2>c, <2>9, <2>10 DEF SendWs
<1>11. ASSUME NEW d \in Dispatchers, SpawnHooks(d) PROVE UNCHANGED Promise!vars
  <2>1. /\ \A x \in Dispatchers : x # d => disp'[x] = disp[x]
        /\ disp[d].todo = <<>> /\ disp'[d].pc = "idle"
        /\ UNCHANGED <<chan, sess, begun>>
    BY <1>11, <1>t DEF SpawnHooks, TypeOK
  <2>2. Elements(disp[d].todo) = {}
    BY <2>1 DEF Elements
  <2>3. \A s \in Sessions : OnTheWayTo(s)' = OnTheWayTo(s)
    BY <2>1, <2>2 DEF OnTheWayTo
  <2> QED BY <2>1, <2>3, QuietDelivery DEF Subscribed
<1>12. ASSUME NEW p \in posts, send(p) PROVE UNCHANGED Promise!vars
  BY <1>12, <1>q DEF send, Subscribed
<1>13. CASE UNCHANGED vars
  <2>1. UNCHANGED Promise!vars
    BY <1>13, <1>q DEF vars, Subscribed
  <2> QED BY <2>1
<1>14. \A d \in Dispatchers : disp[d].pc # "idle" => disp[d].evt \in Event
  BY <1>t DEF CarriesOK
<1>15. ASSUME NEW d \in Dispatchers, RLock(d) PROVE Promise!Next
  BY <1>9, <1>14, <1>15 DEF Promise!Next, RLock
<1>16. ASSUME NEW d \in Dispatchers, SendWs(d) PROVE Promise!Next
  BY <1>10, <1>14, <1>16 DEF Promise!Next, SendWs
<1>17. ASSUME NEW s \in Sessions, NEW i \in Instances, SubscribeWs(s, i) PROVE Promise!Next
  BY <1>3, <1>17 DEF Promise!Next
<1>18. ASSUME NEW s \in Sessions, Range(s) \/ UnsubscribeWs(s) PROVE Promise!Next
  BY <1>4, <1>7, <1>18 DEF Promise!Next
<1> QED
  BY <1>1, <1>2, <1>5, <1>6, <1>8, <1>11, <1>12, <1>13, <1>15, <1>16, <1>17, <1>18 DEF Next

\* The dispatcher with its lock, its loops and its channels implements Delivery:
\* for any number of instances, sessions and dispatching goroutines, every event
\* reaches every session subscribed when Dispatch took the lock exactly once,
\* unless the session's own buffer is full at that moment.
THEOREM DeliveryCorrect == Spec => ImplementsDelivery
<1>1. Init => IndInv /\ FlowInv
  BY InitInv, InitFlow
<1>2. IndInv /\ FlowInv /\ [Next]_vars => (IndInv /\ FlowInv)'
  BY StepInv, StepFlow
<1> QED
  BY <1>1, <1>2, InitDelivery, StepDelivery, PTL DEF Spec, ImplementsDelivery, Promise!Spec
=============================================================================
