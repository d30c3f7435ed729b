------------------------- MODULE InstancePoolProofs -------------------------
(***************************************************************************)
(* Safety of the client pool and of the instance row, for any number of    *)
(* requests at the same time, of client objects, pairings and faults.      *)
(***************************************************************************)
EXTENDS InstancePool, TLAPS

\* Steps of a request that use its client.
UsesClient == {"settings", "check", "dial", "mark", "qr", "listen", "qrdial", "fail", "range",
               "qrmark", "pairdial", "paircode", "use", "discclient"}

\* A request that uses a client has one, and Kill has a client to delete.
HoldsClient ==
    \A p \in Procs : /\ req[p].pc \in UsesClient => req[p].c \in Clients
                     /\ req[p].pc = "unstore" => pool \in Clients

TypeInv == TypeOK /\ HoldsClient

-----------------------------------------------------------------------------
(* The operators of ClientLifecycle *)

\* What an operation may do to a client: the device stays or is deleted, and a
\* pairing under way goes on or, after an error, ends.
Calm(k, l) ==
    /\ l.jid \in {k.jid, NoJid} /\ l.pairing = k.pairing
    /\ l.stage \in {k.stage, "none"}

\* Every operation of the library but those of handlePair is of this kind.
LEMMA ClientOps ==
    ASSUME NEW k \in Client
    PROVE  /\ Dialled(k) \in Client /\ Calm(k, Dialled(k))
           /\ DialFailed(k) \in Client /\ Calm(k, DialFailed(k))
           /\ Disconnected(k) \in Client /\ Calm(k, Disconnected(k))
           /\ Restarting(k) \in Client /\ Calm(k, Restarting(k))
           /\ Dropped(k) \in Client /\ Calm(k, Dropped(k))
           /\ Ended(k) \in Client /\ Calm(k, Ended(k))
           /\ StoreDeleted(k) \in Client /\ Calm(k, StoreDeleted(k))
           /\ LoggedOut(k) \in Client /\ Calm(k, LoggedOut(k))
           /\ PairClosed(k) \in Client /\ Calm(k, PairClosed(k))
           /\ \A S \in SUBSET Work :
                 [k EXCEPT !.bg = S] \in Client /\ Calm(k, [k EXCEPT !.bg = S])
           /\ [k EXCEPT !.phone = TRUE] \in Client /\ Calm(k, [k EXCEPT !.phone = TRUE])
           /\ [k EXCEPT !.sock = "in"] \in Client /\ Calm(k, [k EXCEPT !.sock = "in"])
BY DEF Client, Work, Stages, Calm, Dialled, DialFailed, Disconnected, Down, Restarting, Dropped,
       Ended, StoreDeleted, LoggedOut, PairClosed

\* What the steps of handlePair do.
LEMMA PairOps ==
    ASSUME NEW k \in Client
    PROVE  /\ \A j \in Jids : /\ PairBegun(k, j) \in Client /\ PairBegun(k, j).jid = j
                              /\ PairBegun(k, j).pairing = j /\ PairBegun(k, j).stage = "save"
           /\ k.stage = "save" =>
                 /\ PairSaved(k) \in Client /\ PairSaved(k).jid = k.jid
                 /\ PairSaved(k).pairing = k.pairing /\ PairSaved(k).stage = "ident"
           /\ k.stage = "ident" =>
                 /\ PairExpects(k) \in Client /\ PairExpects(k).jid = k.jid
                 /\ PairExpects(k).pairing = k.pairing /\ PairExpects(k).stage = "sign"
           /\ PairGivenUp(k) \in Client /\ PairGivenUp(k).jid = k.jid
           /\ PairGivenUp(k).pairing = NoJid /\ PairGivenUp(k).stage = "fail"
           /\ PairUndone(k) \in Client /\ PairUndone(k).jid = NoJid
           /\ PairUndone(k).pairing = NoJid /\ PairUndone(k).stage = "fail"
           /\ PairConfirmed(k) \in Client /\ PairConfirmed(k).jid = k.jid
           /\ PairConfirmed(k).pairing = NoJid /\ PairConfirmed(k).stage = "none"
<1> USE DEF Client, Work, Stages
<1>1. \A j \in Jids : /\ PairBegun(k, j) \in Client /\ PairBegun(k, j).jid = j
                      /\ PairBegun(k, j).pairing = j /\ PairBegun(k, j).stage = "save"
  <2>1. \A j \in Jids : j # NoJid
    BY MaxPairingsAssumption DEF Jids, NoJid
  <2> QED BY <2>1 DEF PairBegun
<1>2. k.stage = "save" =>
         /\ PairSaved(k) \in Client /\ PairSaved(k).jid = k.jid
         /\ PairSaved(k).pairing = k.pairing /\ PairSaved(k).stage = "ident"
  BY DEF PairSaved
<1>3. k.stage = "ident" =>
         /\ PairExpects(k) \in Client /\ PairExpects(k).jid = k.jid
         /\ PairExpects(k).pairing = k.pairing /\ PairExpects(k).stage = "sign"
  BY DEF PairExpects
<1>4. /\ PairGivenUp(k) \in Client /\ PairGivenUp(k).jid = k.jid
      /\ PairGivenUp(k).pairing = NoJid /\ PairGivenUp(k).stage = "fail"
  BY DEF PairGivenUp
<1>5. /\ PairUndone(k) \in Client /\ PairUndone(k).jid = NoJid
      /\ PairUndone(k).pairing = NoJid /\ PairUndone(k).stage = "fail"
  BY DEF PairUndone, PairGivenUp, StoreDeleted
<1>6. /\ PairConfirmed(k) \in Client /\ PairConfirmed(k).jid = k.jid
      /\ PairConfirmed(k).pairing = NoJid /\ PairConfirmed(k).stage = "none"
  BY DEF PairConfirmed
<1> QED BY <1>1, <1>2, <1>3, <1>4, <1>5, <1>6

\* A new client belongs to the device it was made for.
LEMMA NewClientType ==
    ASSUME NEW j \in Jids \cup {NoJid} 
    PROVE  /\ NewClient(j) \in Client /\ NewClient(j).jid = j
           /\ NewClient(j).pairing = NoJid /\ NewClient(j).stage = "none"
BY DEF Client, Stages, NewClient

\* Replacing one client by another one.
LEMMA ClientUpdate ==
    ASSUME TypeOK, NEW c \in Clients, NEW k \in Client, cl' = [cl EXCEPT ![c] = k]
    PROVE  /\ cl' \in [Clients -> Client]
           /\ cl'[c] = k /\ \A d \in Clients : d # c => cl'[d] = cl[d]
BY DEF TypeOK

\* Such operations one after the other.
LEMMA CalmTwice ==
    ASSUME NEW k, NEW l, NEW m, Calm(k, l), Calm(l, m) PROVE Calm(k, m)
BY DEF Calm

\* Replacing one client, in one of these ways.
LEMMA CalmUpdate ==
    ASSUME TypeOK, NEW c \in Clients, NEW k \in Client, Calm(cl[c], k), cl' = [cl EXCEPT ![c] = k]
    PROVE  cl' \in [Clients -> Client] /\ \A d \in Clients : Calm(cl[d], cl'[d])
BY ClientUpdate DEF Calm

\* Dial moves the request on and disturbs no pairing.
LEMMA DialEffect ==
    ASSUME TypeInv, NEW p \in Procs, req[p].c \in Clients,
           NEW refused, NEW done, Dial(p, refused, done)
    PROVE  /\ cl' \in [Clients -> Client]
           /\ \A c \in Clients : Calm(cl[c], cl'[c])
           /\ \E pc \in {refused, done} : Goto(p, pc)
           /\ faults' \in 0 .. MaxFaults /\ cutShort' = cutShort
<1>1. cl[req[p].c] \in Client
  BY DEF TypeInv, TypeOK
<1>2. CASE ~MayDial(cl[req[p].c]) /\ Goto(p, refused) /\ UNCHANGED <<cl, faultVars>>
  BY <1>2 DEF TypeInv, TypeOK, faultVars, Calm
<1>3. CASE /\ UNCHANGED faultVars
           /\ Goto(p, done) /\ cl' = [cl EXCEPT ![req[p].c] = Dialled(@)]
  <2>1. Dialled(cl[req[p].c]) \in Client /\ Calm(cl[req[p].c], Dialled(cl[req[p].c]))
    BY <1>1, ClientOps
  <2>2. cl' \in [Clients -> Client] /\ \A c \in Clients : Calm(cl[c], cl'[c])
    BY <1>3, <2>1, CalmUpdate DEF TypeInv
  <2> QED BY <1>3, <2>2 DEF TypeInv, TypeOK, faultVars
<1>4. CASE /\ Fault("blip")
           /\ Goto(p, refused) /\ cl' = [cl EXCEPT ![req[p].c] = DialFailed(@)]
  <2>1. DialFailed(cl[req[p].c]) \in Client /\ Calm(cl[req[p].c], DialFailed(cl[req[p].c]))
    BY <1>1, ClientOps
  <2>2. faults' \in 0 .. MaxFaults /\ cutShort' = cutShort
    BY <1>4, MaxFaultsAssumption DEF TypeInv, TypeOK, Fault, CountFault
  <2>3. cl' \in [Clients -> Client] /\ \A c \in Clients : Calm(cl[c], cl'[c])
    BY <1>4, <2>1, CalmUpdate DEF TypeInv
  <2> QED BY <1>4, <2>2, <2>3
<1> QED BY <1>2, <1>3, <1>4 DEF Dial

\* Disconnecting the client of the pool, if there is one.
LEMMA DisconnectEffect ==
    ASSUME TypeInv, \/ UNCHANGED cl
                    \/ pool # None /\ cl' = [cl EXCEPT ![pool] = Disconnected(@)]
    PROVE  cl' \in [Clients -> Client] /\ \A c \in Clients : Calm(cl[c], cl'[c])
<1>1. CASE UNCHANGED cl
  BY <1>1 DEF TypeInv, TypeOK, Calm
<1>2. CASE pool # None /\ cl' = [cl EXCEPT ![pool] = Disconnected(@)]
  <2>1. pool \in Clients /\ cl[pool] \in Client
    BY <1>2 DEF TypeInv, TypeOK
  <2>2. Disconnected(cl[pool]) \in Client /\ Calm(cl[pool], Disconnected(cl[pool]))
    BY <2>1, ClientOps
  <2> QED BY <1>2, <2>1, <2>2, CalmUpdate DEF TypeInv
<1> QED BY <1>1, <1>2

\* The background work of a client, outside handlePair.
LEMMA ClientStepEffect ==
    ASSUME TypeInv, NEW c \in Clients, ClientStep(c) \/ PairCut(c) \/ PairRedial(c) \/ PairFail(c)
    PROVE  cl' \in [Clients -> Client] /\ \A d \in Clients : Calm(cl[d], cl'[d])
<1> DEFINE Bg == SUBSET Work
<1>1. cl[c] \in Client /\ cl[c].bg \in SUBSET Work
  BY DEF TypeInv, TypeOK, Client
<1>2. SUFFICES \E k \in Client : Calm(cl[c], k) /\ cl' = [cl EXCEPT ![c] = k]
  BY CalmUpdate DEF TypeInv
<1>3. \A S \in Bg : [cl[c] EXCEPT !.bg = S] \in Client /\ Calm(cl[c], [cl[c] EXCEPT !.bg = S])
  BY <1>1, ClientOps
<1>4. \A x \in {"dial", "wait", "redial"} : cl[c].bg \ {x} \in Bg
  BY <1>1
<1>5. CASE AutoWait(c)
  <2>1. (cl[c].bg \ {"wait"}) \cup {"dial"} \in Bg
    BY <1>1 DEF Work
  <2>2. PICK S \in Bg : cl' = [cl EXCEPT ![c] = [cl[c] EXCEPT !.bg = S]]
    BY <1>4, <1>5, <2>1 DEF AutoWait
  <2> QED BY <1>3, <2>2
<1>6. CASE AutoDial(c)
  <2> DEFINE k == [cl[c] EXCEPT !.bg = @ \ {"dial"}]
  <2>1. k \in Client /\ Calm(cl[c], k)
    BY <1>3, <1>4
  <2>2. /\ Dialled(k) \in Client /\ Calm(k, Dialled(k))
        /\ DialFailed(k) \in Client /\ Calm(k, DialFailed(k))
    BY <2>1, ClientOps
  <2>3. \A l \in Client : /\ [l EXCEPT !.bg = @ \cup {"wait"}] \in Client
                          /\ Calm(l, [l EXCEPT !.bg = @ \cup {"wait"}])
    BY DEF Client, Work, Calm
  <2> HIDE DEF k
  <2>4. PICK l \in {k, Dialled(k), DialFailed(k)} :
           \/ cl' = [cl EXCEPT ![c] = l]
           \/ cl' = [cl EXCEPT ![c] = [l EXCEPT !.bg = @ \cup {"wait"}]]
    BY <1>6 DEF AutoDial, k
  <2>5. l \in Client /\ Calm(cl[c], l)
    BY <2>1, <2>2, CalmTwice
  <2>6. /\ [l EXCEPT !.bg = @ \cup {"wait"}] \in Client
        /\ Calm(cl[c], [l EXCEPT !.bg = @ \cup {"wait"}])
    BY <2>3, <2>5, CalmTwice
  <2> QED BY <2>4, <2>5, <2>6
<1>7. CASE PairCut(c) \/ PairFail(c)
  BY <1>1, <1>7, ClientOps DEF PairCut, PairFail
<1>8. CASE PairRedial(c)
  <2> DEFINE k == [cl[c] EXCEPT !.bg = @ \ {"redial"}]
  <2>1. k \in Client /\ Calm(cl[c], k)
    BY <1>3, <1>4
  <2>2. /\ Dialled(k) \in Client /\ Calm(k, Dialled(k))
        /\ DialFailed(k) \in Client /\ Calm(k, DialFailed(k))
    BY <2>1, ClientOps
  <2> HIDE DEF k
  <2>3. PICK l \in {k, Dialled(k), DialFailed(k)} : cl' = [cl EXCEPT ![c] = l]
    BY <1>8 DEF PairRedial, k
  <2>4. l \in Client /\ Calm(cl[c], l)
    BY <2>1, <2>2, CalmTwice
  <2> QED BY <2>3, <2>4
<1> QED BY <1>5, <1>6, <1>7, <1>8 DEF ClientStep

-----------------------------------------------------------------------------
(* Types *)

\* The variables a request leaves alone or changes in simple ways.
PlainTypes ==
    /\ row \in Row
    /\ store \subseteq Jids /\ linked \subseteq Jids /\ paired \in 0 .. MaxPairings
    /\ pool \in Clients \cup {None} /\ jids \in Jids \cup {NoJid} /\ settings \in BOOLEAN
    /\ mu \in Procs \cup {None}
    /\ faults \in 0 .. MaxFaults /\ cutShort \subseteq Jids \cup {NoJid}

\* m.mu is held by the goroutine inside create() or Kill().
LockOK == \A p \in Procs : mu = p <=> req[p].pc \in {"install", "unstore"}

\* The type invariant in the parts in which it is proved.
LEMMA TypeParts ==
    TypeInv <=> /\ PlainTypes /\ LockOK /\ HoldsClient
                /\ cl \in [Clients -> Client] /\ req \in [Procs -> Request]
BY DEF TypeInv, TypeOK, PlainTypes, LockOK

\* Changing the locals of a request.
LEMMA RequestOps ==
    ASSUME NEW r \in Request, NEW pc \in Steps
    PROVE  /\ [r EXCEPT !.pc = pc] \in Request
           /\ [r EXCEPT !.pc = pc].pc = pc /\ [r EXCEPT !.pc = pc].c = r.c
           /\ \A j \in Jids \cup {NoJid} :
                 /\ [r EXCEPT !.pc = pc, !.dev = j] \in Request
                 /\ [r EXCEPT !.pc = pc, !.dev = j].pc = pc
                 /\ [r EXCEPT !.pc = pc, !.dev = j].c = r.c
           /\ \A c \in Clients :
                 /\ [r EXCEPT !.pc = pc, !.c = c] \in Request
                 /\ [r EXCEPT !.pc = pc, !.c = c].pc = pc /\ [r EXCEPT !.pc = pc, !.c = c].c = c
BY DEF Request

\* A request that goes on to another step, outside create() and Kill(), with m.mu
\* as it was and the pool not emptied.
LEMMA MovesOn ==
    ASSUME TypeInv, NEW p \in Procs, NEW pc \in Steps \ {"install", "unstore"},
           req[p].pc \notin {"install", "unstore"},
           req' = [req EXCEPT ![p].pc = pc],
           pc \in UsesClient => req[p].c \in Clients,
           mu' = mu, pool' = pool
    PROVE  req' \in [Procs -> Request] /\ LockOK' /\ HoldsClient'
<1>1. req[p] \in Request
  BY DEF TypeInv, TypeOK
<1>2. [req[p] EXCEPT !.pc = pc] \in Request
  BY <1>1, RequestOps
<1>3. req'[p] = [req[p] EXCEPT !.pc = pc] /\ \A q \in Procs : q # p => req'[q] = req[q]
  BY DEF TypeInv, TypeOK
<1>4. req' \in [Procs -> Request]
  BY <1>2 DEF TypeInv, TypeOK
<1>5. req'[p].pc = pc /\ req'[p].c = req[p].c
  BY <1>1, <1>3 DEF Request
<1> QED BY <1>3, <1>4, <1>5 DEF TypeInv, TypeOK, LockOK, HoldsClient

\* A request that ends.
LEMMA Returns ==
    ASSUME TypeInv, NEW p \in Procs, req[p].pc \notin {"install", "unstore"},
           Return(p), mu' = mu, pool' = pool
    PROVE  req' \in [Procs -> Request] /\ LockOK' /\ HoldsClient'
<1>1. Idle \in Request
  BY MaxRetriesAssumption DEF Idle, Request, Steps, Background, None
<1>2. req' \in [Procs -> Request] /\ req'[p] = Idle /\ \A q \in Procs : q # p => req'[q] = req[q]
  BY <1>1 DEF TypeInv, TypeOK, Return
<1>3. Idle.pc = "idle"
  BY DEF Idle
<1> QED BY <1>2, <1>3 DEF TypeInv, TypeOK, LockOK, HoldsClient, UsesClient

\* The next attempt of SendWithRetry, or its end.
LEMMA Retries ==
    ASSUME TypeInv, NEW p \in Procs, req[p].pc \notin {"install", "unstore"},
           RetryOrReturn(p), mu' = mu, pool' = pool
    PROVE  req' \in [Procs -> Request] /\ LockOK' /\ HoldsClient'
<1>1. CASE req[p].try + 1 < MaxRetries
  <2>1. /\ req' \in [Procs -> Request] /\ req'[p].pc = "goc"
        /\ \A q \in Procs : q # p => req'[q] = req[q]
    BY <1>1, MaxRetriesAssumption DEF RetryOrReturn, TypeInv, TypeOK, Request, Steps, None
  <2> QED BY <2>1 DEF TypeInv, TypeOK, LockOK, HoldsClient, UsesClient
<1>2. CASE ~(req[p].try + 1 < MaxRetries)
  BY <1>2, Returns DEF RetryOrReturn
<1> QED BY <1>1, <1>2

\* Every step of a request keeps the types.
LEMMA RequestStepType ==
    ASSUME TypeInv, NEW p \in Procs, RequestStep(p) PROVE TypeInv'
<1> USE ProcsAssumption, ClientsAssumption, MaxRetriesAssumption, MaxFaultsAssumption DEF TypeInv, None
<1> DEFINE Others == /\ PlainTypes' /\ cl' \in [Clients -> Client]
           Mine == req' \in [Procs -> Request] /\ LockOK' /\ HoldsClient'
<1>q. Others /\ Mine => TypeInv'
  BY DEF TypeOK, PlainTypes, LockOK
<1>b. \A c \in Clients : cl[c].jid \in Jids \cup {NoJid}
  BY DEF TypeOK, Client
<1> HIDE DEF Others, Mine
<1>1. CASE FindByID(p)
  BY <1>1, NewClientType DEF FindByID, Return, Idle, devices, manager, faultVars, TypeOK, HoldsClient, UsesClient, Request, Steps, Background
<1>2. CASE GetOrCreate(p)
  <2>1. jids' \in Jids \cup {NoJid}
    BY <1>2 DEF GetOrCreate, TypeOK, Request
  <2>2. Others
    BY <1>2, <2>1 DEF Others, GetOrCreate, TypeOK, PlainTypes, devices, manager, faultVars
  <2>3. /\ req' \in [Procs -> Request] /\ req'[p].pc = "lookup" /\ req'[p].c = req[p].c
        /\ \A q \in Procs : q # p => req'[q] = req[q]
    <3>1. req[p] \in Request
      BY DEF TypeOK
    <3>2. [req[p] EXCEPT !.pc = "lookup", !.dev = jids'] \in Request
      BY <2>1, <3>1, RequestOps DEF Steps
    <3>3. req' = [req EXCEPT ![p] = [req[p] EXCEPT !.pc = "lookup", !.dev = jids']]
      BY <1>2 DEF GetOrCreate
    <3>4. req' \in [Procs -> Request] /\ \A q \in Procs : q # p => req'[q] = req[q]
      BY <3>2, <3>3 DEF TypeOK
    <3>5. req'[p].pc = "lookup" /\ req'[p].c = req[p].c
      BY <3>1, <3>3 DEF TypeOK, Request
    <3> QED BY <3>4, <3>5
  <2>4. Mine
    BY <1>2, <2>3 DEF Mine, GetOrCreate, TypeOK, LockOK, HoldsClient, UsesClient
  <2> QED BY <2>2, <2>4, <1>q
<1>3. CASE GetOrCreateLookup(p)
  <2>1. Others
    BY <1>3 DEF Others, GetOrCreateLookup, TypeOK, PlainTypes, devices, manager, faultVars
  <2>2. CASE ~PoolConnected
    BY <1>3, <2>1, <2>2, <1>q, MovesOn DEF Mine, GetOrCreateLookup, TypeOK, Steps, UsesClient, manager
  <2>3. CASE PoolConnected
    <3>1. AfterGet(req[p].op) \in {"settings", "pairdial", "use"} /\ pool \in Clients
      BY <2>3 DEF AfterGet, PoolConnected, TypeOK
    <3>2. /\ req' \in [Procs -> Request] /\ req'[p].pc = AfterGet(req[p].op) /\ req'[p].c = pool
          /\ \A q \in Procs : q # p => req'[q] = req[q]
      <4>1. req[p] \in Request
        BY DEF TypeOK
      <4>2. [req[p] EXCEPT !.pc = AfterGet(req[p].op), !.c = pool] \in Request
        BY <3>1, <4>1, RequestOps DEF Steps
      <4>3. req' = [req EXCEPT ![p] = [req[p] EXCEPT !.pc = AfterGet(req[p].op), !.c = pool]]
        BY <1>3, <2>3 DEF GetOrCreateLookup
      <4>4. req' \in [Procs -> Request] /\ \A q \in Procs : q # p => req'[q] = req[q]
        BY <4>2, <4>3 DEF TypeOK
      <4>5. req'[p].pc = AfterGet(req[p].op) /\ req'[p].c = pool
        BY <4>1, <4>3 DEF TypeOK, Request
      <4> QED BY <4>4, <4>5
    <3>3. Mine
      BY <1>3, <3>1, <3>2 DEF Mine, GetOrCreateLookup, TypeOK, LockOK, HoldsClient, UsesClient, manager
    <3> QED BY <2>1, <3>3, <1>q
  <2> QED BY <2>2, <2>3
<1>4. CASE createCheck(p)
  BY <1>4, NewClientType DEF createCheck, AfterGet, PoolConnected, Goto, devices, manager, faultVars, TypeOK, HoldsClient, UsesClient, Request, Steps, Background
<1>5. CASE createInstall(p)
  BY <1>5, NewClientType DEF createInstall, AfterGet, Unused, devices, manager, faultVars, TypeOK, HoldsClient, UsesClient, Request, Steps, Background
<1>6. CASE ConnectSettings(p)
  BY <1>6, NewClientType DEF ConnectSettings, Goto, devices, manager, faultVars, TypeOK, HoldsClient, UsesClient, Request, Steps, Background
<1>7. CASE ConnectCheck(p)
  <2>1. req[p].c \in Clients
    BY <1>7 DEF ConnectCheck, HoldsClient, UsesClient
  <2>2. Others
    BY <1>7, <2>1, <1>b DEF Others, ConnectCheck, SetJid, SetStatus, Row, TypeOK, PlainTypes, devices, manager, faultVars
  <2>3. Mine
    BY <1>7, <2>1, MovesOn, Returns DEF Mine, ConnectCheck, Goto, Steps, manager
  <2> QED BY <2>2, <2>3, <1>q
<1>8. CASE ConnectDial(p)
  <2>1. req[p].c \in Clients
    BY <1>8 DEF ConnectDial, HoldsClient, UsesClient
  <2>2. Others
    BY <1>8, <2>1, DialEffect DEF Others, ConnectDial, TypeOK, PlainTypes, devices, manager, faultVars
  <2>3. PICK pc \in {"qr", "mark"} : Goto(p, pc)
    BY <1>8, <2>1, DialEffect DEF ConnectDial
  <2>4. Mine
    BY <1>8, <2>1, <2>3, MovesOn DEF Mine, Goto, ConnectDial, Steps, Background, manager
  <2> QED BY <2>2, <2>4, <1>q
<1>9. CASE ConnectMark(p)
  <2>1. Others
    BY <1>9 DEF Others, ConnectMark, SetStatus, Row, TypeOK, PlainTypes, devices, manager, faultVars
  <2>2. Mine
    BY <1>9, MovesOn, Returns DEF Mine, ConnectMark, Goto, Steps, Background, UsesClient, HoldsClient, manager
  <2> QED BY <2>1, <2>2, <1>q
<1>10. CASE ConnectQR(p)
  <2>1. Others
    BY <1>10 DEF Others, ConnectQR, SetStatus, Row, TypeOK, PlainTypes, devices, manager, faultVars
  <2>2. Mine
    BY <1>10, MovesOn, Returns DEF Mine, ConnectQR, Goto, Steps, Background, UsesClient, HoldsClient, manager
  <2> QED BY <2>1, <2>2, <1>q
<1>11. CASE listenQROpen(p)
  BY <1>11, NewClientType DEF listenQROpen, Goto, devices, manager, faultVars, TypeOK, HoldsClient, UsesClient, Request, Steps, Background
<1>12. CASE listenQRDial(p)
  <2>1. req[p].c \in Clients
    BY <1>12 DEF listenQRDial, HoldsClient, UsesClient
  <2>2. Others
    BY <1>12, <2>1, DialEffect DEF Others, listenQRDial, TypeOK, PlainTypes, devices, manager, faultVars
  <2>3. PICK pc \in {"fail", "range"} : Goto(p, pc)
    BY <1>12, <2>1, DialEffect DEF listenQRDial
  <2>4. Mine
    BY <1>12, <2>1, <2>3, MovesOn DEF Mine, Goto, listenQRDial, Steps, Background, manager
  <2> QED BY <2>2, <2>4, <1>q
<1>13. CASE listenQRFail(p)
  <2>1. Others
    BY <1>13 DEF Others, listenQRFail, SetStatus, Row, TypeOK, PlainTypes, devices, manager, faultVars
  <2>2. Mine
    BY <1>13, MovesOn, Returns DEF Mine, listenQRFail, Goto, Steps, Background, UsesClient, HoldsClient, manager
  <2> QED BY <2>1, <2>2, <1>q
<1>14. CASE listenQRItem(p)
  <2>1. req[p].c \in Clients
    BY <1>14 DEF listenQRItem, HoldsClient, UsesClient
  <2>2. Others
    BY <1>14, <2>1, <1>b DEF Others, listenQRItem, SetJid, SetStatus, Row, TypeOK, PlainTypes, devices, manager, faultVars
  <2>3. Mine
    BY <1>14, <2>1, MovesOn, Returns DEF Mine, listenQRItem, Goto, Steps, Background, manager
  <2> QED BY <2>2, <2>3, <1>q
<1>15. CASE PairDial(p)
  <2>1. req[p].c \in Clients
    BY <1>15 DEF PairDial, HoldsClient, UsesClient
  <2>2. Others
    BY <1>15, <2>1, DialEffect DEF Others, PairDial, TypeOK, PlainTypes, devices, manager, faultVars
  <2>3. PICK pc \in {"return", "paircode"} : Goto(p, pc)
    BY <1>15, <2>1, DialEffect DEF PairDial
  <2>4. Mine
    BY <1>15, <2>1, <2>3, MovesOn DEF Mine, Goto, PairDial, Steps, Background, manager
  <2> QED BY <2>2, <2>4, <1>q
<1>16. CASE PairCode(p)
  <2>1. req[p].c \in Clients
    BY <1>16 DEF PairCode, HoldsClient, UsesClient
  <2>2. [cl[req[p].c] EXCEPT !.phone = TRUE] \in Client
    <3>1. cl[req[p].c] \in Client
      BY <2>1 DEF TypeOK
    <3> QED BY <3>1, ClientOps
  <2>3. Others
    BY <1>16, <2>1, <2>2, ClientUpdate DEF Others, PairCode, TypeOK, PlainTypes, devices, manager, faultVars
  <2>4. Mine
    BY <1>16, MovesOn, Returns DEF Mine, PairCode, Goto, Steps, UsesClient, manager
  <2> QED BY <2>3, <2>4, <1>q
<1>17. CASE PairMark(p)
  <2>1. Others
    BY <1>17 DEF Others, PairMark, SetStatus, Row, TypeOK, PlainTypes, devices, manager, faultVars
  <2>2. Mine
    BY <1>17, MovesOn, Returns DEF Mine, PairMark, Goto, Steps, Background, UsesClient, HoldsClient, manager
  <2> QED BY <2>1, <2>2, <1>q
<1>18. CASE PairReturn(p)
  BY <1>18, NewClientType DEF PairReturn, Return, Idle, devices, manager, faultVars, TypeOK, HoldsClient, UsesClient, Request, Steps, Background
<1>19. CASE Disconnect(p)
  <2>1. Others
    BY <1>19 DEF Others, Disconnect, TypeOK, PlainTypes, devices, manager, faultVars
  <2>2. CASE pool = None
    BY <1>19, <2>1, <2>2, <1>q, Returns, Retries DEF Mine, Disconnect, manager
  <2>3. CASE pool # None
    <3>1. /\ req' \in [Procs -> Request] /\ req'[p].pc = "discclient" /\ req'[p].c = pool
          /\ \A q \in Procs : q # p => req'[q] = req[q]
      BY <1>19, <2>3 DEF Disconnect, TypeOK, Request, Steps
    <3>2. Mine
      BY <1>19, <2>3, <3>1 DEF Mine, Disconnect, TypeOK, LockOK, HoldsClient, UsesClient, manager
    <3> QED BY <2>1, <3>2, <1>q
  <2> QED BY <2>2, <2>3
<1>20. CASE DisconnectMark(p)
  <2>1. Others
    BY <1>20 DEF Others, DisconnectMark, SetStatus, Row, TypeOK, PlainTypes, devices, manager, faultVars
  <2>2. Mine
    BY <1>20, MovesOn, Returns DEF Mine, DisconnectMark, Goto, Steps, Background, UsesClient, HoldsClient, manager
  <2> QED BY <2>1, <2>2, <1>q
<1>21. CASE Kill(p)
  <2>1. CASE pool = None
    <3>1. Others
      BY <1>21, <2>1 DEF Others, Kill, TypeOK, PlainTypes, devices, faultVars
    <3>2. Mine
      BY <1>21, <2>1, Returns DEF Mine, Kill
    <3> QED BY <3>1, <3>2, <1>q
  <2>2. CASE pool # None
    <3>1. Others
      BY <1>21, <2>2, DisconnectEffect DEF Others, Kill, TypeOK, PlainTypes, devices, faultVars
    <3>2. /\ req' \in [Procs -> Request] /\ req'[p].pc = "unstore"
          /\ \A q \in Procs : q # p => req'[q] = req[q]
      BY <1>21, <2>2 DEF Kill, Goto, TypeOK, Request, Steps
    <3>3. Mine
      BY <1>21, <2>2, <3>2 DEF Mine, Kill, TypeOK, LockOK, HoldsClient, UsesClient
    <3> QED BY <3>1, <3>3, <1>q
  <2> QED BY <2>1, <2>2
<1>22. CASE KillStore(p)
  <2>1. pool \in Clients /\ cl[pool] \in Client
    BY <1>22 DEF KillStore, HoldsClient, TypeOK
  <2>2. StoreDeleted(cl[pool]) \in Client
    BY <2>1, ClientOps
  <2>3. cl' \in [Clients -> Client]
    BY <1>22, <2>1, <2>2, ClientUpdate DEF KillStore, TypeOK
  <2>4. PlainTypes'
    BY <1>22 DEF KillStore, TypeOK, PlainTypes, faultVars
  <2>5. Others
    BY <2>3, <2>4 DEF Others
  <2>6. /\ req' \in [Procs -> Request] /\ req'[p].pc = "rmrow"
        /\ \A q \in Procs : q # p => req'[q] = req[q]
    BY <1>22 DEF KillStore, Goto, TypeOK, Request, Steps
  <2>7. \A q \in Procs : q # p => req[q].pc \notin {"install", "unstore"}
    BY <1>22 DEF KillStore, TypeOK
  <2>8. Mine
    BY <1>22, <2>6, <2>7 DEF Mine, KillStore, TypeOK, LockOK, HoldsClient, UsesClient
  <2> QED BY <2>5, <2>8, <1>q
<1>23. CASE Remove(p)
  <2>1. Others
    BY <1>23, DisconnectEffect DEF Others, Remove, TypeOK, PlainTypes, devices, faultVars
  <2>2. /\ req' \in [Procs -> Request] /\ req'[p].pc = "rmrow"
        /\ \A q \in Procs : q # p => req'[q] = req[q]
    BY <1>23 DEF Remove, Goto, TypeOK, Request, Steps
  <2>3. Mine
    BY <1>23, <2>2 DEF Mine, Remove, TypeOK, LockOK, HoldsClient, UsesClient
  <2> QED BY <2>1, <2>3, <1>q
<1>24. CASE DeleteRow(p)
  <2>1. Others
    BY <1>24 DEF Others, DeleteRow, Row, TypeOK, PlainTypes, devices, manager, faultVars
  <2>2. Mine
    BY <1>24, Returns DEF Mine, DeleteRow, manager
  <2> QED BY <2>1, <2>2, <1>q
<1>25. CASE EnsureConnected(p)
  BY <1>25, NewClientType DEF EnsureConnected, Return, Idle, devices, manager, faultVars, TypeOK, HoldsClient, UsesClient, Request, Steps, Background
<1>26. CASE DisconnectClient(p)
  <2>1. req[p].c \in Clients
    BY <1>26 DEF DisconnectClient, HoldsClient, UsesClient
  <2>2. Disconnected(cl[req[p].c]) \in Client
    <3>1. cl[req[p].c] \in Client
      BY <2>1 DEF TypeOK
    <3> QED BY <3>1, ClientOps
  <2>3. Others
    BY <1>26, <2>1, <2>2, ClientUpdate DEF Others, DisconnectClient, TypeOK, PlainTypes, devices, manager, faultVars
  <2>4. Mine
    BY <1>26, MovesOn, Retries DEF Mine, DisconnectClient, Goto, Steps, UsesClient, manager
  <2> QED BY <2>3, <2>4, <1>q
<1>27. CASE SendAttempt(p)
  <2>1. Others
    BY <1>27 DEF Others, SendAttempt, Fault, CountFault, TypeOK, PlainTypes, devices, manager, faultVars
  <2>2. Mine
    BY <1>27, MovesOn, Returns, Retries DEF Mine, SendAttempt, Goto, Steps, UsesClient, manager
  <2> QED BY <2>1, <2>2, <1>q
<1> QED BY <1>1, <1>2, <1>3, <1>4, <1>5, <1>6, <1>7, <1>8, <1>9, <1>10, <1>11, <1>12, <1>13, <1>14, <1>15, <1>16, <1>17, <1>18, <1>19, <1>20, <1>21, <1>22, <1>23, <1>24, <1>25, <1>26, <1>27 DEF RequestStep

\* A final item leaves the goroutines where they are.
LEMMA QRClosedType ==
    ASSUME TypeInv, NEW cs, NEW item \in FinalItems, req' = QRClosed(cs, item)
    PROVE  /\ req' \in [Procs -> Request]
           /\ \A p \in Procs : /\ req'[p].pc = req[p].pc /\ req'[p].c = req[p].c
                               /\ req'[p].op = req[p].op
<1>1. req \in [Procs -> Request]
  BY DEF TypeInv, TypeOK
<1>2. \A p \in Procs : req'[p] \in {req[p], [req[p] EXCEPT !.qr = item]}
  BY DEF QRClosed
<1>3. \A p \in Procs : /\ req'[p] \in Request /\ req'[p].pc = req[p].pc
                        /\ req'[p].c = req[p].c /\ req'[p].op = req[p].op
  BY <1>1, <1>2 DEF Request, FinalItems
<1>4. req' = [p \in Procs |-> req'[p]]
  BY DEF QRClosed
<1> QED BY <1>3, <1>4

\* Steps of clients, server and user that leave the goroutines where they are.
LEMMA EnvironmentType ==
    ASSUME TypeInv, \/ \E p \in Procs : QRTimeout(p) \/ \E op \in Requests : Start(p, op)
                    \/ \E c \in Clients : ClientStep(c) \/ PairStep(c) \/ ServerStep(c) \/ Chance(c)
                    \/ \E j \in Jids : Unlink(j)
                    \/ Restart
    PROVE  TypeInv'
<1> USE ProcsAssumption, ClientsAssumption, MaxFaultsAssumption, MaxPairingsAssumption DEF TypeInv
<1>a. \A c \in Clients : cl[c] \in Client
  BY DEF TypeOK
<1>d. req \in [Procs -> Request]
  BY DEF TypeOK
<1>c. ASSUME cl' \in [Clients -> Client], PlainTypes', UNCHANGED <<mu, pool>>,
             req' \in [Procs -> Request],
             \A p \in Procs : req'[p].pc = req[p].pc /\ req'[p].c = req[p].c
      PROVE  TypeInv'
  BY <1>c DEF TypeOK, PlainTypes, HoldsClient
<1>1. ASSUME NEW p \in Procs, QRTimeout(p) PROVE TypeInv'
  <2>1. cl' \in [Clients -> Client]
    BY <1>1, <1>a, ClientOps DEF QRTimeout, TypeOK
  <2>2. /\ req' \in [Procs -> Request]
        /\ \A q \in Procs : req'[q].pc = req[q].pc /\ req'[q].c = req[q].c
    BY <1>1 DEF QRTimeout, TypeOK, Request, FinalItems
  <2> QED BY <1>1, <1>c, <2>1, <2>2 DEF QRTimeout, TypeOK, PlainTypes, devices, manager, faultVars
<1>2. ASSUME NEW p \in Procs, NEW op \in Requests, Start(p, op) PROVE TypeInv'
  <2>1. FirstStep(op) \in Steps \ (UsesClient \cup {"install", "unstore"}) /\ op \in AllRequests
    BY EnvAssumption DEF FirstStep, Steps, UsesClient
  <2>2. /\ req' \in [Procs -> Request] /\ req'[p].pc = FirstStep(op)
        /\ \A q \in Procs : q # p => req'[q] = req[q]
    BY <1>2, <2>1 DEF Start, TypeOK, Request
  <2>3. req[p].pc = "idle"
    BY <1>2 DEF Start, Idle
  <2>4. LockOK' /\ HoldsClient'
    BY <1>2, <2>1, <2>2, <2>3 DEF Start, TypeOK, LockOK, HoldsClient, manager
  <2> QED BY <1>2, <2>2, <2>4 DEF Start, TypeOK, LockOK, devices, manager, faultVars
<1>3. ASSUME NEW c \in Clients, ClientStep(c) \/ PairCut(c) \/ PairRedial(c) \/ PairFail(c)
      PROVE  TypeInv'
  <2>1. cl' \in [Clients -> Client]
    BY <1>3, ClientStepEffect
  <2>2. UNCHANGED <<row, devices, manager, cutShort>> /\ faults' \in 0 .. MaxFaults
    <3>1. CASE AutoWait(c) \/ PairCut(c) \/ PairFail(c)
      BY <3>1 DEF AutoWait, PairCut, PairFail, TypeOK, faultVars
    <3>2. CASE AutoDial(c)
      BY <3>2 DEF AutoDial, TypeOK, faultVars, Fault, CountFault
    <3>3. CASE PairRedial(c)
      BY <3>3 DEF PairRedial, TypeOK, faultVars, Fault, CountFault
    <3> QED BY <1>3, <3>1, <3>2, <3>3 DEF ClientStep
  <2>3. /\ req' \in [Procs -> Request]
        /\ \A p \in Procs : req'[p].pc = req[p].pc /\ req'[p].c = req[p].c
    <3>1. req' = req \/ req' = QRClosed({c}, "error")
      BY <1>3 DEF ClientStep, AutoWait, AutoDial, PairCut, PairRedial, PairFail
    <3>2. "error" \in FinalItems
      BY DEF FinalItems
    <3>3. CASE req' = QRClosed({c}, "error")
      BY <3>2, <3>3, QRClosedType
    <3> QED BY <1>d, <3>1, <3>3
  <2> QED BY <1>c, <2>1, <2>2, <2>3 DEF TypeOK, PlainTypes, devices, manager
<1>4. ASSUME NEW c \in Clients, Login(c) PROVE TypeInv'
  <2>1. cl' \in [Clients -> Client]
    BY <1>4, <1>a, ClientOps DEF Login
  <2>2. PlainTypes'
    BY <1>4 DEF Login, TypeOK, PlainTypes, devices, manager, faultVars
  <2>3. req' = QRClosed({c}, "other") /\ "other" \in FinalItems /\ UNCHANGED <<mu, pool>>
    BY <1>4 DEF Login, manager, FinalItems
  <2> QED BY <1>c, <2>1, <2>2, <2>3, QRClosedType
<1>5. ASSUME NEW c \in Clients, LoginRefused(c) PROVE TypeInv'
  <2>1. cl' \in [Clients -> Client]
    BY <1>5, <1>a, ClientOps DEF LoginRefused, TypeOK
  <2>2. cl[c].jid \in Jids \cup {NoJid}
    BY DEF TypeOK, Client
  <2>3. PlainTypes'
    BY <1>5, <2>2 DEF LoginRefused, TypeOK, PlainTypes, manager
  <2>4. req' = QRClosed({c}, "other") /\ "other" \in FinalItems /\ UNCHANGED <<mu, pool>>
    BY <1>5 DEF LoginRefused, manager, FinalItems
  <2> QED BY <1>c, <2>1, <2>3, <2>4, QRClosedType
<1>6. ASSUME NEW c \in Clients, QRCodes(c) PROVE TypeInv'
  <2>1. /\ req' \in [Procs -> Request]
        /\ \A q \in Procs : req'[q].pc = req[q].pc /\ req'[q].c = req[q].c
    BY <1>6 DEF QRCodes, TypeOK, Request
  <2> QED BY <1>6, <1>c, <2>1 DEF QRCodes, TypeOK, PlainTypes, devices, manager, faultVars
<1>7. ASSUME NEW c \in Clients, Drop(c) \/ Expire(c) PROVE TypeInv'
  <2>1. cl' \in [Clients -> Client]
    <3>1. cl' = [cl EXCEPT ![c] = Dropped(cl[c])]
      BY <1>7 DEF Drop, Expire, Lose
    <3> QED BY <1>a, <3>1, ClientOps DEF TypeOK
  <2>2. PlainTypes'
    BY <1>7 DEF Drop, Expire, Lose, TypeOK, PlainTypes, devices, manager, faultVars, Fault, CountFault
  <2>3. /\ req' \in [Procs -> Request]
        /\ \A p \in Procs : req'[p].pc = req[p].pc /\ req'[p].c = req[p].c
    <3>1. req' = req \/ req' = QRClosed({c}, "timeout")
      BY <1>7 DEF Drop, Expire, Lose
    <3>2. "timeout" \in FinalItems
      BY DEF FinalItems
    <3>3. CASE req' = QRClosed({c}, "timeout")
      BY <3>2, <3>3, QRClosedType
    <3> QED BY <1>d, <3>1, <3>3
  <2> QED BY <1>7, <1>c, <2>1, <2>2, <2>3 DEF Drop, Expire, Lose, manager
<1>8. ASSUME NEW c \in Clients, PairStart(c) PROVE TypeInv'
  <2>1. paired < MaxPairings => paired + 1 \in Jids
    BY DEF TypeOK, Jids
  <2>2. cl' \in [Clients -> Client]
    BY <1>8, <1>a, <2>1, PairOps DEF PairStart, TypeOK
  <2>3. PlainTypes'
    BY <1>8, <2>1 DEF PairStart, TypeOK, PlainTypes, manager, faultVars, Fault, CountFault
  <2> QED BY <1>8, <1>c, <2>2, <2>3 DEF PairStart, TypeOK, manager
<1>9. ASSUME NEW c \in Clients, PairSave(c) \/ PairIdentity(c) \/ PairSign(c) PROVE TypeInv'
  <2>1. cl' \in [Clients -> Client]
    BY <1>9, <1>a, PairOps DEF PairSave, PairIdentity, PairSign, TypeOK
  <2>2. faults' \in 0 .. MaxFaults /\ cutShort' = cutShort
    BY <1>9 DEF PairSave, PairIdentity, PairSign, PairFails, Fault, CountFault, faultVars, TypeOK
  <2>3. store' \subseteq Jids /\ linked' \subseteq Jids
    <3>1. cl[c].stage \in {"save", "sign"} => cl[c].pairing \in Jids
      BY DEF TypeOK, Client
    <3> QED BY <1>9, <3>1 DEF PairSave, PairIdentity, PairSign, TypeOK
  <2>4. PlainTypes'
    BY <1>9, <2>2, <2>3 DEF PairSave, PairIdentity, PairSign, TypeOK, PlainTypes, manager
  <2>5. /\ req' \in [Procs -> Request]
        /\ \A p \in Procs : req'[p].pc = req[p].pc /\ req'[p].c = req[p].c
    <3>1. req' = req \/ req' = QRClosed({c}, "success")
      BY <1>9 DEF PairSave, PairIdentity, PairSign
    <3>2. "success" \in FinalItems
      BY DEF FinalItems
    <3>3. CASE req' = QRClosed({c}, "success")
      BY <3>2, <3>3, QRClosedType
    <3> QED BY <1>d, <3>1, <3>3
  <2> QED BY <1>9, <1>c, <2>1, <2>4, <2>5 DEF PairSave, PairIdentity, PairSign, manager
<1>12. ASSUME NEW c \in Clients, Outdated(c) PROVE TypeInv'
  <2>1. cl' \in [Clients -> Client]
    BY <1>12, <1>a, ClientOps DEF Outdated, TypeOK
  <2>2. PlainTypes'
    BY <1>12 DEF Outdated, TypeOK, PlainTypes, devices, manager, faultVars, Fault, CountFault
  <2>3. req' = QRClosed({c}, "other") /\ "other" \in FinalItems /\ UNCHANGED <<mu, pool>>
    BY <1>12 DEF Outdated, manager, FinalItems
  <2> QED BY <1>c, <2>1, <2>2, <2>3, QRClosedType
<1>10. ASSUME NEW j \in Jids, Unlink(j) PROVE TypeInv'
  <2>1. cl' \in [Clients -> Client]
    BY <1>10, <1>a, ClientOps DEF Unlink, TypeOK
  <2>2. PlainTypes'
    BY <1>10 DEF Unlink, TypeOK, PlainTypes, manager, faultVars, Fault, CountFault
  <2>3. PICK told : req' = QRClosed(told, "other")
    BY <1>10 DEF Unlink
  <2>4. "other" \in FinalItems /\ UNCHANGED <<mu, pool>>
    BY <1>10 DEF Unlink, manager, FinalItems
  <2> QED BY <1>c, <2>1, <2>2, <2>3, <2>4, QRClosedType
<1>11. ASSUME Restart PROVE TypeInv'
  <2>1. cl' \in [Clients -> Client]
    BY <1>11, NewClientType DEF Restart, NoJid
  <2>2. Idle \in Request /\ Idle.pc = "idle"
    BY MaxRetriesAssumption DEF Idle, Request, Steps, Background, None
  <2>3. req' \in [Procs -> Request] /\ \A p \in Procs : req'[p].pc = "idle"
    BY <1>11, <2>2 DEF Restart
  <2>4. LockOK' /\ HoldsClient'
    BY <1>11, <2>3 DEF Restart, LockOK, HoldsClient, UsesClient, None
  <2>5. PlainTypes'
    <3>1. row.jid \in Jids \cup {NoJid}
      BY DEF TypeOK, Row
    <3>2. faults' \in 0 .. MaxFaults /\ cutShort' \subseteq Jids \cup {NoJid}
      BY <1>11, <3>1 DEF Restart, CountFault, TypeOK
    <3>3. /\ pool' = None /\ jids' = NoJid /\ settings' = FALSE /\ mu' = None
          /\ UNCHANGED <<row, store, linked, paired>>
      BY <1>11 DEF Restart, devices
    <3> QED BY <3>2, <3>3 DEF TypeOK, PlainTypes
  <2> QED BY <2>1, <2>3, <2>4, <2>5 DEF TypeOK, PlainTypes, LockOK
<1> QED BY <1>1, <1>2, <1>3, <1>4, <1>5, <1>6, <1>7, <1>8, <1>9, <1>10, <1>11, <1>12 DEF PairStep, ServerStep, Chance

\* The initial state has the types.
LEMMA InitType == Init => TypeInv
<1> SUFFICES ASSUME Init PROVE TypeInv
  OBVIOUS
<1>1. cl \in [Clients -> Client]
  BY NewClientType DEF Init, NoJid
<1>2. Idle \in Request /\ Idle.pc = "idle"
  BY MaxRetriesAssumption DEF Idle, Request, Steps, Background, None
<1>3. req \in [Procs -> Request] /\ \A p \in Procs : req[p].pc = "idle"
  BY <1>2 DEF Init
<1>4. PlainTypes
  <2>1. row \in Row
    BY DEF Init, Row, NewRow
  <2>2. paired \in 0 .. MaxPairings /\ faults \in 0 .. MaxFaults
    BY MaxFaultsAssumption, MaxPairingsAssumption DEF Init
  <2> QED BY <2>1, <2>2 DEF Init, PlainTypes
<1>5. LockOK /\ HoldsClient
  BY <1>3, ProcsAssumption DEF Init, LockOK, HoldsClient, UsesClient, None
<1> QED BY <1>1, <1>3, <1>4, <1>5 DEF TypeInv, TypeOK, PlainTypes, LockOK

\* Every step keeps the types.
LEMMA NextType == TypeInv /\ [Next]_vars => TypeInv'
<1> SUFFICES ASSUME TypeInv, [Next]_vars PROVE TypeInv'
  OBVIOUS
<1>1. CASE UNCHANGED vars
  BY <1>1 DEF TypeInv, TypeOK, HoldsClient, vars
<1>2. CASE Next
  BY <1>2, RequestStepType, EnvironmentType DEF Next
<1> QED BY <1>1, <1>2

\* The type invariant of the pool holds in every behaviour; in particular m.mu is
\* held exactly by the goroutine inside create() or Kill(), so that no two of them
\* are there at the same time.
THEOREM PoolTypeCorrect == Spec => []TypeOK
<1>1. TypeInv => TypeOK
  BY DEF TypeInv
<1> QED BY <1>1, InitType, NextType, PTL DEF Spec

-----------------------------------------------------------------------------
(* The row and the device store *)

\* Some request is about to delete the row.
Closing == \E p \in Procs : req[p].pc = "rmrow"

\* The device is in the store, or its deletion is one that RowPointsToDevice allows
\* for although the server has the device.
Kept(j) == j \in store \cup cutShort \/ Closing

\* As long as there is a row, it and every client object, whether in the pool or
\* replaced there, have such a device or one that the server does not have.  So has
\* handlePair from its save on, before the server has the device.
DevicesKept ==
    row.there => \A c \in Clients :
        /\ cl[c].jid # NoJid => Kept(cl[c].jid) \/ cl[c].jid \notin linked
        /\ cl[c].stage \in {"ident", "sign"} => Kept(cl[c].pairing)

\* handlePair works on a device that the server does not have yet, and that no
\* other client pairs.
PairInv ==
    /\ linked \subseteq 1 .. paired
    /\ \A c \in Clients :
          /\ cl[c].pairing \in (0 .. paired) \ linked
          /\ cl[c].stage \in {"save", "ident", "sign"} => cl[c].jid \in {cl[c].pairing, NoJid}
    /\ \A c, d \in Clients : c # d => cl[c].pairing # cl[d].pairing \/ cl[c].pairing = NoJid

RowInv == RowPointsToDevice /\ DevicesKept /\ PairInv

\* A step that disturbs no pairing and links no device.
LEMMA PairsKept ==
    ASSUME PairInv, paired \in Nat, linked' \subseteq linked, paired' = paired,
           \/ cl' = cl
           \/ \A c \in Clients : \/ Calm(cl[c], cl'[c])
                                 \/ cl'[c].pairing = NoJid /\ cl'[c].stage = "none"
    PROVE  PairInv'
<1>1. \A c \in Clients :
         /\ cl'[c].pairing \in {cl[c].pairing, NoJid}
         /\ cl'[c].stage \in {"save", "ident", "sign"} => cl'[c].jid \in {cl'[c].pairing, NoJid}
  BY DEF PairInv, Calm
<1>2. NoJid \in (0 .. paired) \ linked
  BY DEF PairInv, NoJid
<1> QED BY <1>1, <1>2 DEF PairInv

\* A step that deletes no device, ends no link and no deletion of the row, and
\* gives row and clients only devices that they, a client or the store had.
LEMMA Harmless ==
    ASSUME TypeInv, RowInv,
           store \subseteq store', linked' = linked, paired' = paired, cutShort \subseteq cutShort',
           row'.there => row.there,
           row'.jid = row.jid \/ \E c \in Clients : row'.jid = cl[c].jid,
           \/ cl' = cl
           \/ \A c \in Clients : \/ Calm(cl[c], cl'[c])
                                 \/ /\ cl'[c].jid \in store \cup {NoJid}
                                    /\ cl'[c].pairing = NoJid /\ cl'[c].stage = "none",
           Closing => Closing'
    PROVE  RowInv'
<1> DEFINE KeptNext(j) == j \in store' \cup cutShort' \/ Closing'
<1>0. \A j : Kept(j) => KeptNext(j)
  BY DEF Kept
<1>1. ASSUME row'.there, NEW j, j # NoJid, j = row.jid \/ \E c \in Clients : j = cl[c].jid
      PROVE  KeptNext(j) \/ j \notin linked'
  <2>1. Kept(j) \/ j \notin linked
    BY <1>1 DEF RowInv, RowPointsToDevice, DevicesKept, Closing, Kept
  <2> QED BY <2>1, <1>0
<1> HIDE DEF KeptNext
<1>2. RowPointsToDevice'
  BY <1>1 DEF RowPointsToDevice, Closing, KeptNext
<1>3. DevicesKept'
  <2> SUFFICES ASSUME row'.there, NEW c \in Clients
               PROVE  /\ cl'[c].jid # NoJid => KeptNext(cl'[c].jid) \/ cl'[c].jid \notin linked'
                      /\ cl'[c].stage \in {"ident", "sign"} => KeptNext(cl'[c].pairing)
    BY DEF DevicesKept, Kept, KeptNext
  <2>1. CASE cl'[c] = cl[c] \/ Calm(cl[c], cl'[c])
    <3>1. /\ cl'[c].jid \in {cl[c].jid, NoJid} /\ cl'[c].pairing = cl[c].pairing
          /\ cl'[c].stage \in {"ident", "sign"} => cl[c].stage \in {"ident", "sign"}
      BY <2>1 DEF Calm
    <3>2. cl[c].stage \in {"ident", "sign"} => Kept(cl[c].pairing)
      BY DEF RowInv, DevicesKept
    <3> QED BY <1>0, <1>1, <3>1, <3>2
  <2>2. CASE cl'[c].jid \in store \cup {NoJid} /\ cl'[c].stage = "none"
    BY <2>2 DEF KeptNext
  <2> QED BY <2>1, <2>2
<1>4. PairInv'
  <2>1. PairInv /\ paired \in Nat
    BY DEF RowInv, TypeInv, TypeOK
  <2> QED BY <2>1, PairsKept
<1> QED BY <1>2, <1>3, <1>4 DEF RowInv

\* The same for a step of a request that is not about to delete the row.
LEMMA HarmlessStep ==
    ASSUME TypeInv, RowInv, NEW p \in Procs, req[p].pc # "rmrow",
           \A q \in Procs : q # p => req'[q] = req[q],
           store \subseteq store', linked' = linked, paired' = paired, cutShort \subseteq cutShort',
           row'.there => row.there,
           row'.jid = row.jid \/ \E c \in Clients : row'.jid = cl[c].jid,
           \/ cl' = cl
           \/ \A c \in Clients : \/ Calm(cl[c], cl'[c])
                                 \/ /\ cl'[c].jid \in store \cup {NoJid}
                                    /\ cl'[c].pairing = NoJid /\ cl'[c].stage = "none"
    PROVE  RowInv'
<1>1. Closing => Closing'
  BY DEF Closing
<1> QED BY <1>1, Harmless

\* Every step of a request keeps the row and the clients to devices of the store.
LEMMA RequestStepRow ==
    ASSUME TypeInv, RowInv, NEW p \in Procs, RequestStep(p) PROVE RowInv'
<1>1. CASE FindByID(p)
  <2>1. UNCHANGED <<row, store, linked, paired, cl>> /\ cutShort' = cutShort
    BY <1>1 DEF FindByID, Fault, devices, faultVars
  <2>2. req[p].pc # "rmrow" /\ \A q \in Procs : q # p => req'[q] = req[q]
    BY <1>1 DEF FindByID, Return, TypeInv, TypeOK
  <2> QED BY <2>1, <2>2, HarmlessStep
<1>2. CASE GetOrCreate(p)
  <2>1. UNCHANGED <<row, store, linked, paired, cl>> /\ cutShort' = cutShort
    BY <1>2 DEF GetOrCreate, Fault, devices, faultVars
  <2>2. req[p].pc # "rmrow" /\ \A q \in Procs : q # p => req'[q] = req[q]
    BY <1>2 DEF GetOrCreate, TypeInv, TypeOK
  <2> QED BY <2>1, <2>2, HarmlessStep
<1>3. CASE GetOrCreateLookup(p)
  <2>1. UNCHANGED <<row, store, linked, paired, cl>> /\ cutShort' = cutShort
    BY <1>3 DEF GetOrCreateLookup, Fault, devices, faultVars
  <2>2. req[p].pc # "rmrow" /\ \A q \in Procs : q # p => req'[q] = req[q]
    BY <1>3 DEF GetOrCreateLookup, TypeInv, TypeOK
  <2> QED BY <2>1, <2>2, HarmlessStep
<1>4. CASE createCheck(p)
  <2>1. UNCHANGED <<row, store, linked, paired, cl>> /\ cutShort' = cutShort
    BY <1>4 DEF createCheck, Fault, devices, faultVars
  <2>2. req[p].pc # "rmrow" /\ \A q \in Procs : q # p => req'[q] = req[q]
    BY <1>4 DEF createCheck, Goto, TypeInv, TypeOK
  <2> QED BY <2>1, <2>2, HarmlessStep
<1>5. CASE createInstall(p)
  <2>1. /\ UNCHANGED <<row, store, linked, paired, cutShort>>
        /\ \A c \in Clients : \/ Calm(cl[c], cl'[c])
                              \/ /\ cl'[c].jid \in store \cup {NoJid}
                                 /\ cl'[c].pairing = NoJid /\ cl'[c].stage = "none"
    <3>1. PICK c \in Clients : cl' = [cl EXCEPT ![c] = NewClient(IF req[p].dev \in store THEN req[p].dev ELSE NoJid)]
      BY <1>5 DEF createInstall, Unused
    <3> DEFINE j == IF req[p].dev \in store THEN req[p].dev ELSE NoJid
    <3>2. j \in Jids \cup {NoJid} /\ j \in store \cup {NoJid}
      BY DEF TypeInv, TypeOK
    <3> HIDE DEF j
    <3>3. \A d \in Clients : \/ Calm(cl[d], cl'[d])
                             \/ /\ cl'[d].jid \in store \cup {NoJid}
                                /\ cl'[d].pairing = NoJid /\ cl'[d].stage = "none"
      <4>1. /\ NewClient(j) \in Client /\ NewClient(j).jid = j
            /\ NewClient(j).pairing = NoJid /\ NewClient(j).stage = "none"
        BY <3>2, NewClientType
      <4>2. cl'[c] = NewClient(j) /\ \A d \in Clients : d # c => cl'[d] = cl[d]
        BY <3>1, <4>1, ClientUpdate DEF TypeInv, j
      <4> QED BY <3>2, <4>1, <4>2 DEF Calm
    <3> QED BY <1>5, <3>3 DEF createInstall, devices, faultVars
  <2>2. req[p].pc # "rmrow" /\ \A q \in Procs : q # p => req'[q] = req[q]
    BY <1>5 DEF createInstall, TypeInv, TypeOK
  <2> QED BY <2>1, <2>2, HarmlessStep
<1>6. CASE ConnectSettings(p)
  <2>1. UNCHANGED <<row, store, linked, paired, cl>> /\ cutShort' = cutShort
    BY <1>6 DEF ConnectSettings, Fault, devices, faultVars
  <2>2. req[p].pc # "rmrow" /\ \A q \in Procs : q # p => req'[q] = req[q]
    BY <1>6 DEF ConnectSettings, Goto, TypeInv, TypeOK
  <2> QED BY <2>1, <2>2, HarmlessStep
<1>7. CASE ConnectCheck(p)
  <2>1. /\ UNCHANGED <<store, linked, paired, cl, cutShort>> /\ row'.there = row.there
        /\ row'.jid = row.jid \/ \E c \in Clients : row'.jid = cl[c].jid
    <3>1. req[p].c \in Clients
      BY <1>7 DEF ConnectCheck, TypeInv, HoldsClient, UsesClient
    <3> QED BY <1>7, <3>1 DEF ConnectCheck, SetJid, SetStatus, Row, TypeInv, TypeOK, devices, faultVars
  <2>2. req[p].pc # "rmrow" /\ \A q \in Procs : q # p => req'[q] = req[q]
    BY <1>7 DEF ConnectCheck, Goto, TypeInv, TypeOK
  <2> QED BY <2>1, <2>2, HarmlessStep
<1>8. CASE ConnectDial(p)
  <2>1. UNCHANGED <<row, store, linked, paired, cutShort>> /\ \A c \in Clients : Calm(cl[c], cl'[c])
    <3>1. req[p].c \in Clients
      BY <1>8 DEF ConnectDial, TypeInv, HoldsClient, UsesClient
    <3> QED BY <1>8, <3>1, DialEffect DEF ConnectDial, devices, faultVars
  <2>2. req[p].pc # "rmrow" /\ \A q \in Procs : q # p => req'[q] = req[q]
    BY <1>8 DEF ConnectDial, Goto, AfterGet, Dial, TypeInv, TypeOK
  <2> QED BY <2>1, <2>2, HarmlessStep
<1>9. CASE ConnectMark(p)
  <2>1. UNCHANGED <<store, linked, paired, cl, cutShort>> /\ row'.there = row.there /\ row'.jid = row.jid
    BY <1>9 DEF ConnectMark, SetStatus, Row, TypeInv, TypeOK, devices, faultVars
  <2>2. req[p].pc # "rmrow" /\ \A q \in Procs : q # p => req'[q] = req[q]
    BY <1>9 DEF ConnectMark, Return, TypeInv, TypeOK
  <2> QED BY <2>1, <2>2, HarmlessStep
<1>10. CASE ConnectQR(p)
  <2>1. UNCHANGED <<store, linked, paired, cl, cutShort>> /\ row'.there = row.there /\ row'.jid = row.jid
    BY <1>10 DEF ConnectQR, SetStatus, Row, TypeInv, TypeOK, devices, faultVars
  <2>2. req[p].pc # "rmrow" /\ \A q \in Procs : q # p => req'[q] = req[q]
    BY <1>10 DEF ConnectQR, Goto, TypeInv, TypeOK
  <2> QED BY <2>1, <2>2, HarmlessStep
<1>11. CASE listenQROpen(p)
  <2>1. UNCHANGED <<row, store, linked, paired, cl>> /\ cutShort' = cutShort
    BY <1>11 DEF listenQROpen, Fault, devices, faultVars
  <2>2. req[p].pc # "rmrow" /\ \A q \in Procs : q # p => req'[q] = req[q]
    BY <1>11 DEF listenQROpen, Goto, TypeInv, TypeOK
  <2> QED BY <2>1, <2>2, HarmlessStep
<1>12. CASE listenQRDial(p)
  <2>1. UNCHANGED <<row, store, linked, paired, cutShort>> /\ \A c \in Clients : Calm(cl[c], cl'[c])
    <3>1. req[p].c \in Clients
      BY <1>12 DEF listenQRDial, TypeInv, HoldsClient, UsesClient
    <3> QED BY <1>12, <3>1, DialEffect DEF listenQRDial, devices, faultVars
  <2>2. req[p].pc # "rmrow" /\ \A q \in Procs : q # p => req'[q] = req[q]
    BY <1>12 DEF listenQRDial, Goto, AfterGet, Dial, TypeInv, TypeOK
  <2> QED BY <2>1, <2>2, HarmlessStep
<1>13. CASE listenQRFail(p)
  <2>1. UNCHANGED <<store, linked, paired, cl, cutShort>> /\ row'.there = row.there /\ row'.jid = row.jid
    BY <1>13 DEF listenQRFail, SetStatus, Row, TypeInv, TypeOK, devices, faultVars
  <2>2. req[p].pc # "rmrow" /\ \A q \in Procs : q # p => req'[q] = req[q]
    BY <1>13 DEF listenQRFail, Return, TypeInv, TypeOK
  <2> QED BY <2>1, <2>2, HarmlessStep
<1>14. CASE listenQRItem(p)
  <2>1. /\ UNCHANGED <<store, linked, paired, cl, cutShort>> /\ row'.there = row.there
        /\ row'.jid = row.jid \/ \E c \in Clients : row'.jid = cl[c].jid
    <3>1. req[p].c \in Clients
      BY <1>14 DEF listenQRItem, TypeInv, HoldsClient, UsesClient
    <3> QED BY <1>14, <3>1 DEF listenQRItem, SetJid, SetStatus, Row, TypeInv, TypeOK, devices, faultVars
  <2>2. req[p].pc # "rmrow" /\ \A q \in Procs : q # p => req'[q] = req[q]
    BY <1>14 DEF listenQRItem, Goto, Return, TypeInv, TypeOK
  <2> QED BY <2>1, <2>2, HarmlessStep
<1>15. CASE PairDial(p)
  <2>1. UNCHANGED <<row, store, linked, paired, cutShort>> /\ \A c \in Clients : Calm(cl[c], cl'[c])
    <3>1. req[p].c \in Clients
      BY <1>15 DEF PairDial, TypeInv, HoldsClient, UsesClient
    <3> QED BY <1>15, <3>1, DialEffect DEF PairDial, Calm, devices, faultVars
  <2>2. req[p].pc # "rmrow" /\ \A q \in Procs : q # p => req'[q] = req[q]
    BY <1>15 DEF PairDial, Goto, AfterGet, Dial, TypeInv, TypeOK
  <2> QED BY <2>1, <2>2, HarmlessStep
<1>16. CASE PairCode(p)
  <2>1. UNCHANGED <<row, store, linked, paired, cutShort>> /\ \A c \in Clients : Calm(cl[c], cl'[c])
    <3>1. req[p].c \in Clients
      BY <1>16 DEF PairCode, TypeInv, HoldsClient, UsesClient
    <3>2. LET k == cl[req[p].c]
          IN  [k EXCEPT !.phone = TRUE] \in Client /\ Calm(k, [k EXCEPT !.phone = TRUE])
      <4>1. cl[req[p].c] \in Client
        BY <3>1 DEF TypeInv, TypeOK
      <4> QED BY <4>1, ClientOps
    <3> QED BY <1>16, <3>1, <3>2, CalmUpdate DEF PairCode, TypeInv, Calm, devices, faultVars
  <2>2. req[p].pc # "rmrow" /\ \A q \in Procs : q # p => req'[q] = req[q]
    BY <1>16 DEF PairCode, Goto, Return, TypeInv, TypeOK
  <2> QED BY <2>1, <2>2, HarmlessStep
<1>17. CASE PairMark(p)
  <2>1. UNCHANGED <<store, linked, paired, cl, cutShort>> /\ row'.there = row.there /\ row'.jid = row.jid
    BY <1>17 DEF PairMark, SetStatus, Row, TypeInv, TypeOK, devices, faultVars
  <2>2. req[p].pc # "rmrow" /\ \A q \in Procs : q # p => req'[q] = req[q]
    BY <1>17 DEF PairMark, Return, TypeInv, TypeOK
  <2> QED BY <2>1, <2>2, HarmlessStep
<1>18. CASE PairReturn(p)
  <2>1. UNCHANGED <<row, store, linked, paired, cl>> /\ cutShort' = cutShort
    BY <1>18 DEF PairReturn, Fault, devices, faultVars
  <2>2. req[p].pc # "rmrow" /\ \A q \in Procs : q # p => req'[q] = req[q]
    BY <1>18 DEF PairReturn, Return, TypeInv, TypeOK
  <2> QED BY <2>1, <2>2, HarmlessStep
<1>19. CASE Disconnect(p)
  <2>1. UNCHANGED <<row, store, linked, paired, cl>> /\ cutShort' = cutShort
    BY <1>19 DEF Disconnect, devices, faultVars
  <2>2. req[p].pc # "rmrow" /\ \A q \in Procs : q # p => req'[q] = req[q]
    BY <1>19 DEF Disconnect, RetryOrReturn, Return, TypeInv, TypeOK
  <2> QED BY <2>1, <2>2, HarmlessStep
<1>20. CASE DisconnectMark(p)
  <2>1. UNCHANGED <<store, linked, paired, cl, cutShort>> /\ row'.there = row.there /\ row'.jid = row.jid
    BY <1>20 DEF DisconnectMark, SetStatus, Row, TypeInv, TypeOK, devices, faultVars
  <2>2. req[p].pc # "rmrow" /\ \A q \in Procs : q # p => req'[q] = req[q]
    BY <1>20 DEF DisconnectMark, Return, TypeInv, TypeOK
  <2> QED BY <2>1, <2>2, HarmlessStep
<1>21. CASE Kill(p)
  <2>1. UNCHANGED <<row, store, linked, paired, cutShort>> /\ \A c \in Clients : Calm(cl[c], cl'[c])
    BY <1>21, DisconnectEffect DEF Kill, devices, faultVars
  <2>2. req[p].pc # "rmrow" /\ \A q \in Procs : q # p => req'[q] = req[q]
    BY <1>21 DEF Kill, Goto, Return, TypeInv, TypeOK
  <2> QED BY <2>1, <2>2, HarmlessStep
<1>22. CASE KillStore(p)
  <2>1. req'[p].pc = "rmrow"
    BY <1>22 DEF KillStore, Goto, TypeInv, TypeOK, Request
  <2>2. Closing' /\ \A j : Kept(j)'
    BY <2>1 DEF Closing, Kept
  <2>3. cl' = cl \/ \A c \in Clients : Calm(cl[c], cl'[c])
    <3>1. pool \in Clients /\ cl[pool] \in Client
      BY <1>22 DEF KillStore, TypeInv, HoldsClient, TypeOK
    <3>2. StoreDeleted(cl[pool]) \in Client /\ Calm(cl[pool], StoreDeleted(cl[pool]))
      BY <3>1, ClientOps
    <3> QED BY <1>22, <3>1, <3>2, CalmUpdate DEF KillStore, TypeInv
  <2>4. PairInv'
    <3>1. PairInv /\ paired \in Nat /\ linked' = linked /\ paired' = paired
      BY <1>22 DEF KillStore, RowInv, TypeInv, TypeOK
    <3> QED BY <2>3, <3>1, PairsKept
  <2>5. RowPointsToDevice' /\ DevicesKept'
    BY <2>2 DEF RowPointsToDevice, DevicesKept, Closing
  <2> QED BY <2>4, <2>5 DEF RowInv
<1>23. CASE Remove(p)
  <2>1. UNCHANGED <<row, store, linked, paired, cutShort>> /\ \A c \in Clients : Calm(cl[c], cl'[c])
    BY <1>23, DisconnectEffect DEF Remove, devices, faultVars
  <2>2. req[p].pc # "rmrow" /\ \A q \in Procs : q # p => req'[q] = req[q]
    BY <1>23 DEF Remove, Goto, TypeInv, TypeOK
  <2> QED BY <2>1, <2>2, HarmlessStep
<1>24. CASE DeleteRow(p)
  <2>1. ~row'.there
    BY <1>24 DEF DeleteRow, TypeInv, TypeOK, Row
  <2>2. PairInv'
    BY <1>24 DEF DeleteRow, RowInv, PairInv, devices
  <2> QED BY <2>1, <2>2 DEF RowInv, RowPointsToDevice, DevicesKept
<1>25. CASE EnsureConnected(p)
  <2>1. UNCHANGED <<row, store, linked, paired, cl>> /\ cutShort' = cutShort
    BY <1>25 DEF EnsureConnected, Fault, devices, faultVars
  <2>2. req[p].pc # "rmrow" /\ \A q \in Procs : q # p => req'[q] = req[q]
    BY <1>25 DEF EnsureConnected, Goto, Return, TypeInv, TypeOK
  <2> QED BY <2>1, <2>2, HarmlessStep
<1>26. CASE DisconnectClient(p)
  <2>1. UNCHANGED <<row, store, linked, paired, cutShort>> /\ \A c \in Clients : Calm(cl[c], cl'[c])
    <3>1. req[p].c \in Clients /\ cl[req[p].c] \in Client
      BY <1>26 DEF DisconnectClient, TypeInv, TypeOK, HoldsClient, UsesClient
    <3>2. Disconnected(cl[req[p].c]) \in Client /\ Calm(cl[req[p].c], Disconnected(cl[req[p].c]))
      BY <3>1, ClientOps
    <3> QED BY <1>26, <3>1, <3>2, CalmUpdate DEF DisconnectClient, TypeInv, devices, faultVars
  <2>2. req[p].pc # "rmrow" /\ \A q \in Procs : q # p => req'[q] = req[q]
    BY <1>26 DEF DisconnectClient, RetryOrReturn, Goto, Return, TypeInv, TypeOK
  <2> QED BY <2>1, <2>2, HarmlessStep
<1>27. CASE SendAttempt(p)
  <2>1. UNCHANGED <<row, store, linked, paired, cl>> /\ cutShort' = cutShort
    BY <1>27 DEF SendAttempt, Fault, devices, faultVars
  <2>2. req[p].pc # "rmrow" /\ \A q \in Procs : q # p => req'[q] = req[q]
    BY <1>27 DEF SendAttempt, RetryOrReturn, Goto, Return, TypeInv, TypeOK
  <2> QED BY <2>1, <2>2, HarmlessStep
<1> QED BY <1>1, <1>2, <1>3, <1>4, <1>5, <1>6, <1>7, <1>8, <1>9, <1>10, <1>11, <1>12, <1>13, <1>14, <1>15, <1>16, <1>17, <1>18, <1>19, <1>20, <1>21, <1>22, <1>23, <1>24, <1>25, <1>26, <1>27 DEF RequestStep

\* handlePair gives up.  If it deletes its device, the server does not have that.
LEMMA PairGivenUpRow ==
    ASSUME TypeInv, RowInv, NEW c \in Clients,
           \/ store' = store
           \/ cl[c].stage \in {"ident", "sign"} /\ store' = store \ {cl[c].jid},
           UNCHANGED <<row, linked, paired, cutShort>>,
           \A p \in Procs : req'[p].pc = req[p].pc,
           cl'[c].jid \in {cl[c].jid, NoJid}, cl'[c].pairing = NoJid, cl'[c].stage = "fail",
           \A d \in Clients : d # c => cl'[d] = cl[d]
    PROVE  RowInv'
<1>1. Closing' <=> Closing
  BY DEF Closing
<1>2. \A j : j \in store /\ j \notin store' => j \notin linked /\ j # NoJid /\ j = cl[c].pairing
  BY DEF RowInv, PairInv, TypeInv, TypeOK, Jids, NoJid
<1>3. RowPointsToDevice'
  BY <1>1, <1>2 DEF RowInv, RowPointsToDevice, Closing
<1>4. DevicesKept'
  <2> SUFFICES ASSUME row.there, NEW d \in Clients
               PROVE  /\ cl'[d].jid # NoJid => \/ cl'[d].jid \in store' \cup cutShort' \/ Closing'
                                               \/ cl'[d].jid \notin linked'
                      /\ cl'[d].stage \in {"ident", "sign"} =>
                            cl'[d].pairing \in store' \cup cutShort' \/ Closing'
    BY DEF DevicesKept, Kept
  <2>1. CASE d = c
    BY <1>1, <1>2, <2>1 DEF RowInv, DevicesKept, Kept
  <2>2. CASE d # c
    <3>1. cl[d].pairing # cl[c].pairing \/ cl[d].pairing = NoJid
      BY <2>2 DEF RowInv, PairInv
    <3> QED BY <1>1, <1>2, <2>2, <3>1 DEF RowInv, DevicesKept, Kept
  <2> QED BY <2>1, <2>2
<1>5. PairInv'
  <2>1. NoJid \in (0 .. paired) \ linked
    BY DEF RowInv, PairInv, TypeInv, TypeOK, NoJid
  <2> QED BY <2>1 DEF RowInv, PairInv
<1> QED BY <1>3, <1>4, <1>5 DEF RowInv

\* handlePair: the new device is one that nobody had.
LEMMA PairStartRow ==
    ASSUME TypeInv, RowInv, NEW c \in Clients, PairStart(c) PROVE RowInv'
<1>1. cl[c] \in Client /\ paired \in Nat /\ paired + 1 \notin linked
  BY DEF TypeInv, TypeOK, RowInv, PairInv
<1>2. UNCHANGED <<row, store, linked, cutShort, req>>
  BY DEF PairStart, Fault, faultVars
<1>3. CASE /\ paired < MaxPairings /\ paired' = paired + 1
           /\ cl' = [cl EXCEPT ![c] = PairBegun(@, paired + 1)]
  <2>1. paired + 1 \in Jids
    BY <1>1, <1>3, MaxPairingsAssumption DEF Jids
  <2>2. /\ cl'[c].jid = paired + 1 /\ cl'[c].pairing = paired + 1 /\ cl'[c].stage = "save"
        /\ \A d \in Clients : d # c => cl'[d] = cl[d]
    <3> DEFINE l == PairBegun(cl[c], paired + 1)
    <3>1. /\ l \in Client /\ l.jid = paired + 1 /\ l.pairing = paired + 1
          /\ l.stage = "save" /\ cl' = [cl EXCEPT ![c] = l]
      BY <1>1, <1>3, <2>1, PairOps
    <3> HIDE DEF l
    <3> QED BY <3>1, ClientUpdate DEF TypeInv
  <2>3. RowPointsToDevice' /\ DevicesKept'
    BY <1>1, <1>2, <2>2 DEF RowInv, RowPointsToDevice, DevicesKept, Kept, Closing
  <2>4. PairInv'
    <3>1. linked' \subseteq 1 .. paired' /\ 0 .. paired \subseteq 0 .. paired'
      BY <1>1, <1>2, <1>3 DEF RowInv, PairInv
    <3>2. \A d \in Clients :
             /\ cl'[d].pairing \in (0 .. paired') \ linked'
             /\ cl'[d].stage \in {"save", "ident", "sign"} => cl'[d].jid \in {cl'[d].pairing, NoJid}
      BY <1>1, <1>2, <1>3, <2>2, <3>1 DEF RowInv, PairInv
    <3>3. \A d \in Clients : d # c => cl'[d].pairing # paired + 1
      BY <1>1, <2>2 DEF RowInv, PairInv
    <3>4. \A d, e \in Clients : d # e => cl'[d].pairing # cl'[e].pairing \/ cl'[d].pairing = NoJid
      BY <2>2, <3>3 DEF RowInv, PairInv
    <3> QED BY <3>1, <3>2, <3>4 DEF PairInv
  <2> QED BY <2>3, <2>4 DEF RowInv
<1>4. CASE UNCHANGED paired /\ cl' = [cl EXCEPT ![c] = PairGivenUp(@)]
  <2>1. /\ cl'[c].jid = cl[c].jid /\ cl'[c].pairing = NoJid /\ cl'[c].stage = "fail"
        /\ \A d \in Clients : d # c => cl'[d] = cl[d]
    BY <1>1, <1>4, PairOps, ClientUpdate DEF TypeInv
  <2> QED BY <1>2, <1>4, <2>1, PairGivenUpRow
<1> QED BY <1>3, <1>4 DEF PairStart

\* The save puts the device into the store, PutIdentity needs it there.
LEMMA PairSaveRow ==
    ASSUME TypeInv, RowInv, NEW c \in Clients, PairSave(c) \/ PairIdentity(c) PROVE RowInv'
<1>1. cl[c] \in Client
  BY DEF TypeInv, TypeOK
<1>2. UNCHANGED <<row, linked, paired, cutShort, req>>
  BY DEF PairSave, PairIdentity, PairFails, Fault, faultVars
<1>3. CASE /\ PairSave(c) /\ store' = store \cup {cl[c].pairing}
           /\ cl' = [cl EXCEPT ![c] = PairSaved(cl[c])]
  <2>1. cl[c].stage = "save"
    BY <1>3 DEF PairSave
  <2>2. /\ cl'[c].jid = cl[c].jid /\ cl'[c].pairing = cl[c].pairing /\ cl'[c].stage = "ident"
        /\ \A d \in Clients : d # c => cl'[d] = cl[d]
    BY <1>1, <1>3, <2>1, PairOps, ClientUpdate DEF TypeInv
  <2>3. RowPointsToDevice' /\ DevicesKept'
    BY <1>2, <1>3, <2>2 DEF RowInv, RowPointsToDevice, DevicesKept, Kept, Closing
  <2>4. PairInv'
    BY <1>2, <2>1, <2>2 DEF RowInv, PairInv
  <2> QED BY <2>3, <2>4 DEF RowInv
<1>4. CASE PairSave(c) /\ store' = store /\ cl' = [cl EXCEPT ![c] = PairGivenUp(cl[c])]
  <2>1. /\ cl'[c].jid = cl[c].jid /\ cl'[c].pairing = NoJid /\ cl'[c].stage = "fail"
        /\ \A d \in Clients : d # c => cl'[d] = cl[d]
    BY <1>1, <1>4, PairOps, ClientUpdate DEF TypeInv
  <2> QED BY <1>2, <1>4, <2>1, PairGivenUpRow
<1>5. CASE PairIdentity(c) /\ store' = store /\ cl' = [cl EXCEPT ![c] = PairExpects(cl[c])]
  <2>1. cl[c].stage = "ident"
    BY <1>5 DEF PairIdentity
  <2>2. /\ cl'[c].jid = cl[c].jid /\ cl'[c].pairing = cl[c].pairing /\ cl'[c].stage = "sign"
        /\ \A d \in Clients : d # c => cl'[d] = cl[d]
    BY <1>1, <1>5, <2>1, PairOps, ClientUpdate DEF TypeInv
  <2>3. RowPointsToDevice' /\ DevicesKept'
    BY <1>2, <1>5, <2>1, <2>2 DEF RowInv, RowPointsToDevice, DevicesKept, Kept, Closing
  <2>4. PairInv'
    BY <1>2, <2>1, <2>2 DEF RowInv, PairInv
  <2> QED BY <2>3, <2>4 DEF RowInv
<1>6. CASE /\ PairIdentity(c) /\ store' = store \ {cl[c].jid}
           /\ cl' = [cl EXCEPT ![c] = PairUndone(cl[c])]
  <2>1. cl[c].stage = "ident"
    BY <1>6 DEF PairIdentity
  <2>2. /\ cl'[c].jid = NoJid /\ cl'[c].pairing = NoJid /\ cl'[c].stage = "fail"
        /\ \A d \in Clients : d # c => cl'[d] = cl[d]
    BY <1>1, <1>6, PairOps, ClientUpdate DEF TypeInv
  <2> QED BY <1>2, <1>6, <2>1, <2>2, PairGivenUpRow
<1> QED BY <1>3, <1>4, <1>5, <1>6 DEF PairSave, PairIdentity

\* When the server links the device it is still in the store, or its deletion has
\* one of the reasons.
LEMMA PairSignRow ==
    ASSUME TypeInv, RowInv, NEW c \in Clients, PairSign(c) PROVE RowInv'
<1>1. cl[c] \in Client /\ cl[c].stage = "sign" /\ cl[c].pairing # NoJid
  BY DEF PairSign, TypeInv, TypeOK, Client
<1>2. UNCHANGED <<row, paired, cutShort>> /\ \A p \in Procs : req'[p].pc = req[p].pc
  <2>1. UNCHANGED <<row, paired, cutShort>> /\ (req' = req \/ req' = QRClosed({c}, "success"))
    BY DEF PairSign, PairFails, Fault, faultVars
  <2>2. "success" \in FinalItems
    BY DEF FinalItems
  <2> QED BY <2>1, <2>2, QRClosedType
<1>3. CASE /\ store' = store /\ linked' \in {linked, linked \cup {cl[c].pairing}}
           /\ cl' = [cl EXCEPT ![c] = PairConfirmed(cl[c])]
  <2>1. /\ cl'[c].jid = cl[c].jid /\ cl'[c].pairing = NoJid /\ cl'[c].stage = "none"
        /\ \A d \in Clients : d # c => cl'[d] = cl[d]
    BY <1>1, <1>3, PairOps, ClientUpdate DEF TypeInv
  <2>2. RowPointsToDevice' /\ DevicesKept'
    <3>1. row.there => Kept(cl[c].pairing)
      BY <1>1 DEF RowInv, DevicesKept
    <3>2. Closing' <=> Closing
      BY <1>2 DEF Closing
    <3>3. RowPointsToDevice'
      BY <1>2, <1>3, <3>1, <3>2 DEF RowInv, RowPointsToDevice, Kept, Closing
    <3>4. DevicesKept'
      BY <1>2, <1>3, <2>1, <3>1, <3>2 DEF RowInv, DevicesKept, Kept
    <3> QED BY <3>3, <3>4
  <2>3. PairInv'
    <3>1. paired \in Nat /\ cl[c].pairing \in 1 .. paired /\ NoJid \in (0 .. paired) \ linked'
      BY <1>1, <1>3 DEF RowInv, PairInv, TypeInv, TypeOK, NoJid
    <3>2. \A d \in Clients : d # c => cl[d].pairing # cl[c].pairing
      BY <1>1 DEF RowInv, PairInv
    <3> QED BY <1>2, <1>3, <2>1, <3>1, <3>2 DEF RowInv, PairInv
  <2> QED BY <2>2, <2>3 DEF RowInv
<1>4. CASE /\ store' = store \ {cl[c].jid} /\ linked' = linked
           /\ cl' = [cl EXCEPT ![c] = PairUndone(cl[c])]
  <2>1. /\ cl'[c].jid = NoJid /\ cl'[c].pairing = NoJid /\ cl'[c].stage = "fail"
        /\ \A d \in Clients : d # c => cl'[d] = cl[d]
    BY <1>1, <1>4, PairOps, ClientUpdate DEF TypeInv
  <2> QED BY <1>1, <1>2, <1>4, <2>1, PairGivenUpRow
<1> QED BY <1>3, <1>4 DEF PairSign

\* So does every step of a client, of the server, of a user, and a restart.
LEMMA EnvironmentRow ==
    ASSUME TypeInv, RowInv,
           \/ \E p \in Procs : QRTimeout(p) \/ \E op \in Requests : Start(p, op)
           \/ \E c \in Clients : ClientStep(c) \/ PairStep(c) \/ ServerStep(c) \/ Chance(c)
           \/ \E j \in Jids : Unlink(j)
           \/ Restart
    PROVE  RowInv'
<1>a. \A c \in Clients : cl[c] \in Client
  BY DEF TypeInv, TypeOK
<1>b. ASSUME NEW cs, NEW item \in FinalItems, req' = QRClosed(cs, item)
      PROVE  \A p \in Procs : req'[p].pc = req[p].pc
  BY <1>b, QRClosedType
<1>c. ASSUME UNCHANGED <<row, store, linked, paired, cutShort>>,
             cl' = cl \/ \A c \in Clients : Calm(cl[c], cl'[c]),
             \A p \in Procs : req'[p].pc = req[p].pc
      PROVE  RowInv'
  <2>1. Closing => Closing'
    BY <1>c DEF Closing
  <2> QED BY <1>c, <2>1, Harmless
<1>d. FinalItems = {"success", "timeout", "error", "other"}
  BY DEF FinalItems
<1>1. ASSUME NEW p \in Procs, QRTimeout(p) PROVE RowInv'
  <2>1. cl' = cl \/ \A c \in Clients : Calm(cl[c], cl'[c])
    <3>1. CASE req[p].c \in Clients
      <4>1. /\ Disconnected(cl[req[p].c]) \in Client
            /\ Calm(cl[req[p].c], Disconnected(cl[req[p].c]))
        BY <1>a, <3>1, ClientOps
      <4> QED BY <1>1, <3>1, <4>1, CalmUpdate DEF QRTimeout, TypeInv
    <3>2. CASE req[p].c \notin Clients
      BY <1>1, <3>2 DEF QRTimeout, TypeInv, TypeOK
    <3> QED BY <3>1, <3>2
  <2>2. \A q \in Procs : req'[q].pc = req[q].pc
    BY <1>1 DEF QRTimeout, TypeInv, TypeOK, Request
  <2> QED BY <1>1, <1>c, <2>1, <2>2 DEF QRTimeout, devices, faultVars
<1>2. ASSUME NEW p \in Procs, NEW op \in Requests, Start(p, op) PROVE RowInv'
  <2>1. req[p].pc # "rmrow" /\ \A q \in Procs : q # p => req'[q] = req[q]
    BY <1>2 DEF Start, Idle, TypeInv, TypeOK
  <2> QED BY <1>2, <2>1, HarmlessStep DEF Start, devices, faultVars
<1>3. ASSUME NEW c \in Clients, ClientStep(c) \/ PairCut(c) \/ PairRedial(c) \/ PairFail(c)
      PROVE  RowInv'
  <2>1. UNCHANGED <<row, store, linked, paired, cutShort>>
    BY <1>3 DEF ClientStep, AutoWait, AutoDial, PairCut, PairRedial, PairFail, Fault, devices, faultVars
  <2>2. req' = req \/ req' = QRClosed({c}, "error")
    BY <1>3 DEF ClientStep, AutoWait, AutoDial, PairCut, PairRedial, PairFail
  <2>3. \A p \in Procs : req'[p].pc = req[p].pc
    BY <1>b, <1>d, <2>2
  <2>4. \A d \in Clients : Calm(cl[d], cl'[d])
    BY <1>3, ClientStepEffect
  <2> QED BY <1>c, <2>1, <2>3, <2>4
<1>4. ASSUME NEW c \in Clients, Login(c) PROVE RowInv'
  <2>1. \A d \in Clients : Calm(cl[d], cl'[d])
    <3>1. \A d \in Clients : cl'[d] \in {cl[d], Ended(cl[d]), [cl[d] EXCEPT !.sock = "in"]}
      BY <1>4 DEF Login
    <3>2. \A d \in Clients : Calm(cl[d], cl[d])
      BY DEF Calm
    <3> QED BY <1>a, <3>1, <3>2, ClientOps
  <2>2. UNCHANGED <<row, store, linked, paired, cutShort>> /\ req' = QRClosed({c}, "other")
    BY <1>4 DEF Login, devices, faultVars
  <2>3. \A p \in Procs : req'[p].pc = req[p].pc
    BY <1>b, <1>d, <2>2
  <2> QED BY <1>c, <2>1, <2>2, <2>3
<1>5. ASSUME NEW c \in Clients, LoginRefused(c) PROVE RowInv'
  <2>1. \A d \in Clients : Calm(cl[d], cl'[d])
    <3>1. LoggedOut(cl[c]) \in Client /\ Calm(cl[c], LoggedOut(cl[c]))
      BY <1>a, ClientOps
    <3> QED BY <1>5, <3>1, CalmUpdate DEF LoginRefused, TypeInv
  <2>2. /\ cl[c].jid \notin linked /\ store' = store \ {cl[c].jid}
        /\ UNCHANGED <<row, linked, paired>> /\ req' = QRClosed({c}, "other")
        /\ cutShort' = IF \E d \in Clients : cl[d].pairing = cl[c].jid
                       THEN cutShort \cup {cl[c].jid} ELSE cutShort
    BY <1>5 DEF LoginRefused
  <2>3. \A p \in Procs : req'[p].pc = req[p].pc
    BY <1>b, <1>d, <2>2
  <2>4. Closing' <=> Closing
    BY <2>3 DEF Closing
  <2>5. RowPointsToDevice'
    BY <2>2, <2>4 DEF RowInv, RowPointsToDevice, Closing
  <2>6. DevicesKept'
    <3> SUFFICES ASSUME row.there, NEW d \in Clients
                 PROVE  /\ cl'[d].jid # NoJid => \/ cl'[d].jid \in store' \cup cutShort' \/ Closing'
                                                 \/ cl'[d].jid \notin linked'
                        /\ cl'[d].stage \in {"ident", "sign"} =>
                              cl'[d].pairing \in store' \cup cutShort' \/ Closing'
      BY <2>2 DEF DevicesKept, Kept
    <3>1. /\ cl'[d].jid \in {cl[d].jid, NoJid} /\ cl'[d].pairing = cl[d].pairing
          /\ cl'[d].stage \in {"ident", "sign"} => cl[d].stage \in {"ident", "sign"}
      BY <2>1 DEF Calm
    <3> QED BY <2>2, <2>4, <3>1 DEF RowInv, DevicesKept, Kept
  <2>7. PairInv'
    <3>1. PairInv /\ paired \in Nat
      BY DEF RowInv, TypeInv, TypeOK
    <3> QED BY <2>1, <2>2, <3>1, PairsKept
  <2> QED BY <2>5, <2>6, <2>7 DEF RowInv
<1>6. ASSUME NEW c \in Clients, QRCodes(c) PROVE RowInv'
  <2>1. \A q \in Procs : req'[q].pc = req[q].pc
    BY <1>6 DEF QRCodes, TypeInv, TypeOK, Request
  <2> QED BY <1>6, <1>c, <2>1 DEF QRCodes, devices, faultVars
<1>7. ASSUME NEW c \in Clients, Drop(c) \/ Expire(c) \/ Outdated(c) PROVE RowInv'
  <2>1. \A d \in Clients : Calm(cl[d], cl'[d])
    <3>1. PICK l \in {Dropped(cl[c]), Ended(cl[c])} : cl' = [cl EXCEPT ![c] = l]
      BY <1>7 DEF Drop, Expire, Lose, Outdated
    <3>2. l \in Client /\ Calm(cl[c], l)
      BY <1>a, ClientOps
    <3> QED BY <3>1, <3>2, CalmUpdate DEF TypeInv
  <2>2. UNCHANGED <<row, store, linked, paired, cutShort>>
    BY <1>7 DEF Drop, Expire, Lose, Outdated, Fault, devices, faultVars
  <2>3. req' = req \/ req' = QRClosed({c}, "timeout") \/ req' = QRClosed({c}, "other")
    BY <1>7 DEF Drop, Expire, Lose, Outdated
  <2>4. \A p \in Procs : req'[p].pc = req[p].pc
    BY <1>b, <1>d, <2>3
  <2> QED BY <1>c, <2>1, <2>2, <2>4
<1>8. ASSUME NEW j \in Jids, Unlink(j) PROVE RowInv'
  <2>1. \A d \in Clients : Calm(cl[d], cl'[d])
    <3>1. \A d \in Clients : cl'[d] \in {cl[d], LoggedOut(cl[d])}
      BY <1>8 DEF Unlink
    <3>2. \A d \in Clients : Calm(cl[d], cl[d])
      BY DEF Calm
    <3> QED BY <1>a, <3>1, <3>2, ClientOps
  <2>2. /\ j \in linked /\ linked' = linked \ {j} /\ store \ {j} \subseteq store'
        /\ UNCHANGED <<row, paired, cutShort>> /\ \E cs : req' = QRClosed(cs, "other")
    BY <1>8 DEF Unlink, Fault
  <2>3. \A p \in Procs : req'[p].pc = req[p].pc
    BY <1>b, <1>d, <2>2
  <2>4. Closing' <=> Closing
    BY <2>3 DEF Closing
  <2>5. RowPointsToDevice'
    BY <2>2, <2>4 DEF RowInv, RowPointsToDevice, Closing
  <2>6. DevicesKept'
    <3> SUFFICES ASSUME row.there, NEW d \in Clients
                 PROVE  /\ cl'[d].jid # NoJid => \/ cl'[d].jid \in store' \cup cutShort' \/ Closing'
                                                 \/ cl'[d].jid \notin linked'
                        /\ cl'[d].stage \in {"ident", "sign"} =>
                              cl'[d].pairing \in store' \cup cutShort' \/ Closing'
      BY <2>2 DEF DevicesKept, Kept
    <3>1. /\ cl'[d].jid \in {cl[d].jid, NoJid} /\ cl'[d].pairing = cl[d].pairing
          /\ cl'[d].stage \in {"ident", "sign"} => cl[d].stage \in {"ident", "sign"}
      BY <2>1 DEF Calm
    <3>2. cl[d].pairing # j
      BY <2>2 DEF RowInv, PairInv
    <3> QED BY <2>2, <2>4, <3>1, <3>2 DEF RowInv, DevicesKept, Kept
  <2>7. PairInv'
    <3>1. PairInv /\ paired \in Nat
      BY DEF RowInv, TypeInv, TypeOK
    <3> QED BY <2>1, <2>2, <3>1, PairsKept
  <2> QED BY <2>5, <2>6, <2>7 DEF RowInv
<1>9. ASSUME Restart PROVE RowInv'
  <2>1. \A c \in Clients : cl'[c].jid = NoJid /\ cl'[c].pairing = NoJid /\ cl'[c].stage = "none"
    BY <1>9, NewClientType DEF Restart, NoJid
  <2>2. /\ UNCHANGED <<row, store, linked, paired>> /\ cutShort \subseteq cutShort'
        /\ Closing => row.jid \in cutShort'
    BY <1>9 DEF Restart, devices, Closing
  <2>3. RowPointsToDevice' /\ DevicesKept'
    BY <2>1, <2>2 DEF RowInv, RowPointsToDevice, DevicesKept, Closing
  <2>4. PairInv'
    <3>1. PairInv /\ paired \in Nat
      BY DEF RowInv, TypeInv, TypeOK
    <3> QED BY <2>1, <2>2, <3>1, PairsKept
  <2> QED BY <2>3, <2>4 DEF RowInv
<1> QED BY <1>1, <1>2, <1>3, <1>4, <1>5, <1>6, <1>7, <1>8, <1>9, PairStartRow, PairSaveRow,
       PairSignRow DEF PairStep, ServerStep, Chance

\* The row never names a device that is gone, but for the reasons in
\* RowPointsToDevice: for any number of requests, clients, pairings and faults, and
\* although Connect, listenQR, PairPhone, handlePair, SendWithRetry, Logout and
\* Delete may interleave at every step.
THEOREM RowDeviceCorrect == Spec => []RowPointsToDevice
<1>1. Init => TypeInv /\ RowInv
  <2>1. Init => RowInv
    <3> SUFFICES ASSUME Init PROVE RowInv
      OBVIOUS
    <3>1. \A c \in Clients : cl[c].jid = NoJid /\ cl[c].pairing = NoJid /\ cl[c].stage = "none"
      BY NewClientType DEF Init, NoJid
    <3> QED BY <3>1 DEF Init, NewRow, NoJid, RowInv, RowPointsToDevice, DevicesKept, PairInv
  <2> QED BY <2>1, InitType
<1>2. TypeInv /\ RowInv /\ [Next]_vars => TypeInv' /\ RowInv'
  <2> SUFFICES ASSUME TypeInv, RowInv, [Next]_vars PROVE RowInv'
    BY NextType
  <2>1. CASE UNCHANGED vars
    BY <2>1 DEF vars, RowInv, RowPointsToDevice, DevicesKept, Kept, PairInv, Closing
  <2>2. CASE Next
    BY <2>2, RequestStepRow, EnvironmentRow DEF Next
  <2> QED BY <2>1, <2>2
<1>3. RowInv => RowPointsToDevice
  BY DEF RowInv
<1> QED BY <1>1, <1>2, <1>3, PTL DEF Spec

-----------------------------------------------------------------------------
(* The settings of an instance *)

\* No pairing by phone: PairPhone dials without SetSettings.
NoPhonePairing == "pair" \notin Requests

\* The client has a connection or works on getting one.
Awake(k) == k.sock # "down" \/ k.bg # {} \/ k.stage # "none"

\* The steps of Connect and listenQR after SetSettings.
AfterSettings == {"check", "dial", "mark", "qr", "listen", "qrdial", "fail", "range", "qrmark"}
PairSteps == {"pairdial", "paircode", "pairmark"}

\* Whatever is awake was dialled after SetSettings, by a request that Connect made.
SettingsInv ==
    /\ \A c \in Clients : Awake(cl[c]) => settings
    /\ \A p \in Procs : /\ req[p].pc \in AfterSettings => settings
                        /\ req[p].pc \notin PairSteps /\ req[p].op # "pair"

\* No operation but a dial, a pairing and the request to reconnect wakes a client.
LEMMA AwakeOps ==
    ASSUME NEW k \in Client
    PROVE  /\ Awake(Disconnected(k)) => Awake(k)
           /\ Awake(DialFailed(k)) => Awake(k)
           /\ Awake(Dropped(k)) => Awake(k) \/ ~IsConnected(k)
           /\ Awake(Ended(k)) => Awake(k)
           /\ Awake(StoreDeleted(k)) => Awake(k)
           /\ Awake(LoggedOut(k)) => Awake(k)
           /\ \A j : ~Awake(NewClient(j))
BY DEF Client, Awake, Disconnected, Down, DialFailed, Dropped, IsConnected, Ended, StoreDeleted,
       LoggedOut, NewClient

\* A step that keeps the settings, wakes no client without them, and sends no request
\* to the steps after SetSettings without them.
LEMMA SettingsKept ==
    ASSUME SettingsInv, settings => settings',
           \A c \in Clients : Awake(cl'[c]) => Awake(cl[c]) \/ settings,
           \A p \in Procs : \/ req'[p].pc = req[p].pc /\ req'[p].op = req[p].op
                            \/ /\ req'[p].pc \in AfterSettings => settings'
                               /\ req'[p].pc \notin PairSteps /\ req'[p].op # "pair"
    PROVE  SettingsInv'
BY DEF SettingsInv

\* A request goes on to another step, or returns.
LEMMA RequestMoves ==
    ASSUME TypeInv, NEW p \in Procs
    PROVE  /\ \A pc \in Steps : Goto(p, pc) =>
                 /\ req'[p].pc = pc /\ req'[p].op = req[p].op
                 /\ \A q \in Procs : q # p => req'[q] = req[q]
           /\ Return(p) => /\ req'[p].pc = "idle" /\ req'[p].op = "none"
                           /\ \A q \in Procs : q # p => req'[q] = req[q]
           /\ RetryOrReturn(p) => /\ req'[p].pc \in {"idle", "goc"}
                                  /\ req'[p].op \in {"none", req[p].op}
                                  /\ \A q \in Procs : q # p => req'[q] = req[q]
<1>1. req \in [Procs -> Request]
  BY DEF TypeInv, TypeOK
<1>2. \A pc \in Steps : Goto(p, pc) =>
          /\ req'[p].pc = pc /\ req'[p].op = req[p].op
          /\ \A q \in Procs : q # p => req'[q] = req[q]
  BY <1>1 DEF Goto, Request
<1>3. Return(p) => /\ req'[p].pc = "idle" /\ req'[p].op = "none"
                   /\ \A q \in Procs : q # p => req'[q] = req[q]
  BY <1>1 DEF Return, Idle
<1>4. RetryOrReturn(p) => /\ req'[p].pc \in {"idle", "goc"}
                          /\ req'[p].op \in {"none", req[p].op}
                          /\ \A q \in Procs : q # p => req'[q] = req[q]
  BY <1>1, <1>3 DEF RetryOrReturn, Request
<1> QED BY <1>2, <1>3, <1>4

\* Requests: the row, GetOrCreate and create().
LEMMA GetSettings ==
    ASSUME TypeInv, SettingsInv, NEW p \in Procs,
           \/ FindByID(p) \/ GetOrCreate(p) \/ GetOrCreateLookup(p) \/ createCheck(p)
           \/ createInstall(p)
    PROVE  SettingsInv'
<1>1. settings' = settings
  BY DEF FindByID, GetOrCreate, GetOrCreateLookup, createCheck, createInstall, manager
<1>2. req[p].op # "pair" /\ req \in [Procs -> Request] /\ AfterGet(req[p].op) \in {"settings", "use"}
  BY DEF SettingsInv, AfterGet, TypeInv, TypeOK
<1>3. \A c \in Clients : Awake(cl'[c]) => Awake(cl[c])
  <2>1. CASE cl' = cl
    BY <2>1
  <2>2. CASE createInstall(p)
    <3>1. PICK c \in Unused : \E j : cl' = [cl EXCEPT ![c] = NewClient(j)]
      BY <2>2 DEF createInstall
    <3>2. c \in Clients /\ cl \in [Clients -> Client] /\ \A j : ~Awake(NewClient(j))
      BY DEF Unused, TypeInv, TypeOK, Awake, NewClient
    <3> QED BY <3>1, <3>2
  <2> QED BY <2>1, <2>2 DEF FindByID, GetOrCreate, GetOrCreateLookup, createCheck
<1>4. /\ req'[p].pc \in {"goc", "idle", "lookup", "settings", "use", "create", "install"}
      /\ req'[p].op \in {req[p].op, "none"}
      /\ \A q \in Procs : q # p => req'[q] = req[q]
  <2>1. CASE FindByID(p) \/ GetOrCreate(p)
    BY <1>2, <2>1 DEF FindByID, GetOrCreate, Return, Idle, Request
  <2>2. CASE GetOrCreateLookup(p) \/ createCheck(p) \/ createInstall(p)
    BY <1>2, <2>2 DEF GetOrCreateLookup, createCheck, createInstall, Goto, Request
  <2> QED BY <2>1, <2>2
<1> QED BY <1>1, <1>2, <1>3, <1>4, SettingsKept DEF AfterSettings, PairSteps

\* A dial, by a request that is past SetSettings.
LEMMA DialSettings ==
    ASSUME TypeInv, SettingsInv, NEW p \in Procs, ConnectDial(p) \/ listenQRDial(p)
    PROVE  SettingsInv'
<1>1. settings /\ settings' = settings /\ req[p].op # "pair"
  BY DEF SettingsInv, ConnectDial, listenQRDial, AfterSettings, manager
<1>2. \E pc \in {"qr", "mark", "fail", "range"} : Goto(p, pc)
  BY DEF ConnectDial, listenQRDial, Dial
<1>3. {"qr", "mark", "fail", "range"} \subseteq Steps \ PairSteps
  BY DEF Steps, Background, PairSteps
<1>4. req'[p].pc \notin PairSteps /\ req'[p].op # "pair" /\ \A q \in Procs : q # p => req'[q] = req[q]
  BY <1>1, <1>2, <1>3, RequestMoves
<1> QED BY <1>1, <1>4, SettingsKept

\* The other steps of Connect and listenQR.
LEMMA ConnectSettingsKept ==
    ASSUME TypeInv, SettingsInv, NEW p \in Procs,
           \/ ConnectSettings(p) \/ ConnectCheck(p) \/ ConnectMark(p) \/ ConnectQR(p)
           \/ listenQROpen(p) \/ listenQRFail(p) \/ listenQRItem(p)
    PROVE  SettingsInv'
<1>1. cl' = cl /\ settings' /\ (settings => settings')
  BY DEF ConnectSettings, ConnectCheck, ConnectMark, ConnectQR, listenQROpen, listenQRFail,
     listenQRItem, manager, SettingsInv, AfterSettings
<1>2. req[p].op # "pair" /\ req \in [Procs -> Request]
  BY DEF SettingsInv, TypeInv, TypeOK
<1>3. /\ req'[p].pc \in {"idle", "check", "dial", "mark", "qr", "listen", "fail", "qrdial", "qrmark"}
      /\ req'[p].op \in {req[p].op, "none"}
      /\ \A q \in Procs : q # p => req'[q] = req[q]
  <2>1. CASE listenQROpen(p)
    BY <1>2, <2>1 DEF listenQROpen, Goto, Request
  <2>2. CASE Return(p) \/ \E pc \in {"check", "dial", "mark", "qr", "listen", "qrmark"} : Goto(p, pc)
    BY <2>2, RequestMoves DEF Steps, Background
  <2> QED BY <2>1, <2>2 DEF ConnectSettings, ConnectCheck, ConnectMark, ConnectQR,
          listenQRFail, listenQRItem
<1> QED BY <1>1, <1>2, <1>3, SettingsKept DEF PairSteps

\* Disconnect, Logout, Delete, EnsureConnected and SendWithRetry.
LEMMA OtherSettings ==
    ASSUME TypeInv, SettingsInv, NEW p \in Procs,
           \/ PairReturn(p) \/ Disconnect(p) \/ DisconnectClient(p) \/ DisconnectMark(p) \/ Kill(p)
           \/ KillStore(p) \/ Remove(p) \/ DeleteRow(p) \/ EnsureConnected(p) \/ SendAttempt(p)
    PROVE  SettingsInv'
<1> USE DEF PairReturn, Disconnect, DisconnectClient, DisconnectMark, Kill, KillStore, Remove,
            DeleteRow, EnsureConnected, SendAttempt
<1>1. settings' = settings /\ req[p].op # "pair"
  BY DEF manager, SettingsInv
<1>2. \/ Return(p) \/ RetryOrReturn(p)
      \/ \E pc \in {"discmark", "unstore", "rmrow", "disc"} : Goto(p, pc)
      \/ req' = [req EXCEPT ![p].pc = "discclient", ![p].c = pool]
  OBVIOUS
<1>3. /\ req'[p].pc \notin AfterSettings \cup PairSteps /\ req'[p].op # "pair"
      /\ \A q \in Procs : q # p => req'[q] = req[q]
  <2>1. CASE req' = [req EXCEPT ![p].pc = "discclient", ![p].c = pool]
    BY <1>1, <2>1 DEF TypeInv, TypeOK, Request, AfterSettings, PairSteps
  <2>2. CASE \/ Return(p) \/ RetryOrReturn(p)
             \/ \E pc \in {"discmark", "unstore", "rmrow", "disc"} : Goto(p, pc)
    BY <1>1, <2>2, RequestMoves DEF Steps, AfterSettings, PairSteps
  <2> QED BY <1>2, <2>1, <2>2
<1>4. \/ cl' = cl
      \/ \E c \in Clients : \/ cl' = [cl EXCEPT ![c] = Disconnected(@)]
                            \/ cl' = [cl EXCEPT ![c] = StoreDeleted(@)]
  <2>1. pool # None => pool \in Clients
    BY DEF TypeInv, TypeOK
  <2>2. req[p].pc = "unstore" => pool \in Clients
    BY DEF TypeInv, HoldsClient
  <2>3. req[p].pc = "discclient" => req[p].c \in Clients
    BY DEF TypeInv, HoldsClient, UsesClient
  <2> QED BY <2>1, <2>2, <2>3
<1>5. \A c \in Clients : Awake(cl'[c]) => Awake(cl[c])
  <2>1. \A c \in Clients : cl[c] \in Client
    BY DEF TypeInv, TypeOK
  <2> QED BY <1>4, <2>1, AwakeOps DEF TypeInv, TypeOK
<1> QED BY <1>1, <1>3, <1>5, SettingsKept

\* The steps of the requests.  Without pairing by phone none is at a step of PairPhone.
LEMMA RequestSettings ==
    ASSUME TypeInv, SettingsInv, NEW p \in Procs, RequestStep(p)
    PROVE  SettingsInv'
<1>1. ~PairDial(p) /\ ~PairCode(p) /\ ~PairMark(p)
  BY DEF SettingsInv, PairSteps, PairDial, PairCode, PairMark
<1> QED BY <1>1, GetSettings, DialSettings, ConnectSettingsKept, OtherSettings DEF RequestStep

\* A request starts.
LEMMA StartSettings ==
    ASSUME TypeInv, SettingsInv, NEW p \in Procs, NEW op \in Requests, op # "pair", Start(p, op)
    PROVE  SettingsInv'
<1>1. cl' = cl /\ settings' = settings /\ req \in [Procs -> Request]
  BY DEF Start, manager, TypeInv, TypeOK
<1>2. /\ req'[p].pc \in {"find", "disc", "kill", "remove", "goc"} /\ req'[p].op = op
      /\ \A q \in Procs : q # p => req'[q] = req[q]
  BY <1>1 DEF Start, FirstStep, Request
<1> QED BY <1>1, <1>2, SettingsKept DEF AfterSettings, PairSteps

\* The clients by themselves: they are awake already.
LEMMA ClientSettings ==
    ASSUME TypeInv, SettingsInv, NEW c \in Clients, ClientStep(c) \/ PairStep(c)
    PROVE  SettingsInv'
<1> USE DEF ClientStep, AutoWait, AutoDial, PairStep, PairCut, PairRedial, PairSave, PairIdentity,
            PairSign, PairFail
<1>1. settings' = settings /\ Awake(cl[c])
  BY DEF manager, Awake
<1>2. \A d \in Clients : d # c => cl'[d] = cl[d]
  BY DEF TypeInv, TypeOK
<1>3. req' = req \/ \E item \in {"success", "error"} : req' = QRClosed({c}, item)
  OBVIOUS
<1>4. \A p \in Procs : req'[p].pc = req[p].pc /\ req'[p].op = req[p].op
  <2>1. {"success", "error"} \subseteq FinalItems
    BY DEF FinalItems
  <2> QED BY <1>3, <2>1, QRClosedType
<1> QED BY <1>1, <1>2, <1>4, SettingsKept

\* The server and the network: what they end or pair is awake, and nothing else wakes.
LEMMA ServerSettings ==
    ASSUME TypeInv, SettingsInv, NEW c \in Clients, ServerStep(c) \/ Chance(c)
    PROVE  SettingsInv'
<1> USE DEF ServerStep, Login, LoginRefused, Chance, Drop, Expire, Lose, PairStart, Outdated
<1>1. settings' = settings /\ cl \in [Clients -> Client]
  BY DEF QRCodes, manager, TypeInv, TypeOK
<1>2. \A p \in Procs : req'[p].pc = req[p].pc /\ req'[p].op = req[p].op
  <2>1. CASE QRCodes(c)
    BY <2>1 DEF QRCodes, TypeInv, TypeOK, Request
  <2>2. CASE req' = req \/ \E item \in {"timeout", "other"} : req' = QRClosed({c}, item)
    <3>1. {"timeout", "other"} \subseteq FinalItems
      BY DEF FinalItems
    <3> QED BY <2>2, <3>1, QRClosedType
  <2> QED BY <2>1, <2>2
<1>3. \A d \in Clients : Awake(cl'[d]) => Awake(cl[d]) \/ settings
  <2>1. CASE Login(c)
    <3>1. Awake(cl[c])
      BY <2>1 DEF Awake
    <3>2. ASSUME NEW d \in Clients, d # c PROVE cl'[d] = cl[d] \/ cl'[d] = Ended(cl[d])
      BY <2>1, <3>2
    <3> QED BY <1>1, <3>1, <3>2, AwakeOps
  <2>2. CASE QRCodes(c)
    BY <2>2 DEF QRCodes
  <2>3. CASE LoginRefused(c) \/ Chance(c)
    <3>1. Awake(cl[c])
      BY <2>3 DEF Awake, IsConnected, Pairable
    <3>2. \A d \in Clients : d # c => cl'[d] = cl[d]
      BY <1>1, <2>3
    <3> QED BY <3>1, <3>2
  <2> QED BY <2>1, <2>2, <2>3
<1> QED BY <1>1, <1>2, <1>3, SettingsKept

\* The QR codes run out, or a device is removed on the phone: nothing wakes.
LEMMA EndSettings ==
    ASSUME TypeInv, SettingsInv,
           (\E p \in Procs : QRTimeout(p)) \/ (\E j \in Jids : Unlink(j))
    PROVE  SettingsInv'
<1>1. settings' = settings /\ cl \in [Clients -> Client] /\ req \in [Procs -> Request]
  BY DEF QRTimeout, Unlink, manager, TypeInv, TypeOK
<1>2. \A p \in Procs : req'[p].pc = req[p].pc /\ req'[p].op = req[p].op
  <2>1. CASE \E p \in Procs : QRTimeout(p)
    BY <1>1, <2>1 DEF QRTimeout, Request
  <2>2. CASE \E j \in Jids : Unlink(j)
    <3>1. \E cs : req' = QRClosed(cs, "other")
      BY <2>2 DEF Unlink
    <3>2. "other" \in FinalItems
      BY DEF FinalItems
    <3> QED BY <3>1, <3>2, QRClosedType
  <2> QED BY <2>1, <2>2
<1>3. \A d \in Clients : cl'[d] \in {cl[d], Disconnected(cl[d]), LoggedOut(cl[d])}
  BY <1>1 DEF QRTimeout, Unlink
<1>4. \A d \in Clients : Awake(cl'[d]) => Awake(cl[d])
  BY <1>1, <1>3, AwakeOps
<1> QED BY <1>1, <1>2, <1>4, SettingsKept

\* A restart leaves nothing awake.
LEMMA RestartSettings ==
    ASSUME Restart
    PROVE  SettingsInv'
<1>1. \A c \in Clients : ~Awake(cl'[c])
  BY DEF Restart, Awake, NewClient
<1>2. \A p \in Procs : req'[p].pc = "idle" /\ req'[p].op = "none"
  BY DEF Restart, Idle
<1> QED BY <1>1, <1>2 DEF SettingsInv, AfterSettings, PairSteps

\* Every step keeps SettingsInv, if nobody pairs by phone.
LEMMA StepSettings == NoPhonePairing /\ TypeInv /\ SettingsInv /\ [Next]_vars => SettingsInv'
<1> SUFFICES ASSUME NoPhonePairing, TypeInv, SettingsInv, [Next]_vars PROVE SettingsInv'
  OBVIOUS
<1>1. CASE UNCHANGED vars
  BY <1>1 DEF vars, SettingsInv
<1>2. CASE \E p \in Procs : RequestStep(p)
  BY <1>2, RequestSettings
<1>3. CASE \E p \in Procs : \E op \in Requests : Start(p, op)
  BY <1>3, StartSettings DEF NoPhonePairing
<1>4. CASE \E c \in Clients : ClientStep(c) \/ PairStep(c) \/ ServerStep(c) \/ Chance(c)
  BY <1>4, ClientSettings, ServerSettings
<1>5. CASE (\E p \in Procs : QRTimeout(p)) \/ \E j \in Jids : Unlink(j)
  BY <1>5, EndSettings
<1>6. CASE Restart
  BY <1>6, RestartSettings
<1> QED BY <1>1, <1>2, <1>3, <1>4, <1>5, <1>6 DEF Next

\* Unless somebody pairs by phone, the client in the pool is logged in only after
\* SetSettings, for any number of requests, clients and faults: over restarts, lost
\* connections and replaced clients.
THEOREM SettingsCorrect ==
    ASSUME NoPhonePairing
    PROVE  Spec => []OnlineHasSettings
<1>1. Init => TypeInv /\ SettingsInv
  <2>1. Init => SettingsInv
    <3> SUFFICES ASSUME Init PROVE SettingsInv
      OBVIOUS
    <3>1. \A c \in Clients : ~Awake(cl[c])
      BY DEF Init, Awake, NewClient
    <3>2. \A p \in Procs : req[p].pc = "idle" /\ req[p].op = "none"
      BY DEF Init, Idle
    <3> QED BY <3>1, <3>2 DEF SettingsInv, AfterSettings, PairSteps
  <2> QED BY <2>1, InitType
<1>2. TypeInv /\ SettingsInv /\ [Next]_vars => TypeInv' /\ SettingsInv'
  BY NextType, StepSettings
<1>3. TypeInv /\ SettingsInv => OnlineHasSettings
  BY DEF SettingsInv, OnlineHasSettings, PoolOnline, TypeInv, TypeOK, Awake
<1> QED BY <1>1, <1>2, <1>3, PTL DEF Spec
=============================================================================
