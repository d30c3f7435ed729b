--------------------------- MODULE WebhooksProofs ---------------------------
(***************************************************************************)
(* A webhook whose creation was answered keeps its row until somebody      *)
(* deletes it and its target until somebody deletes a webhook with its     *)
(* URL or a boot fails to load it, for every number of requests, webhooks  *)
(* and restarts.                                                           *)
(***************************************************************************)
EXTENDS Webhooks, TLAPS

\* A request works on the webhook its handler created, found or has marked.
RequestsOK ==
    \A p \in Procs :
        /\ req[p].pc = "register" => req[p].id \in rows \cup doomed
        /\ req[p].pc \in {"register", "unregister", "rmrow"} =>
              req[p].id \in Ids /\ url[req[p].id] # NoUrl
        /\ req[p].pc \in {"unregister", "rmrow"} => req[p].id \in doomed

\* What exists has been created.
CreatedOK == \A i \in rows \cup targets \cup told \cup doomed : url[i] # NoUrl

IndInv == TypeOK /\ RequestsOK /\ CreatedOK /\ CreatedIsRegistered

\* The initial state satisfies the invariant.
LEMMA InitInv == Init => IndInv
BY BoundsAssumption, UrlsAssumption, IdsAssumption
   DEF Init, Idle, IndInv, TypeOK, RequestsOK, CreatedOK, CreatedIsRegistered

\* Every step of a handler, and a restart, preserves it.
LEMMA StepInv == IndInv /\ [Next]_vars => IndInv'
<1> SUFFICES ASSUME IndInv, [Next]_vars PROVE IndInv'
  OBVIOUS
<1> USE BoundsAssumption, UrlsAssumption, IdsAssumption
<1> USE DEF IndInv
<1>1. ASSUME NEW p \in Procs, NEW id \in Ids, NEW u \in Urls, Create(p, id, u)
      PROVE IndInv'
  <2>1. TypeOK'
    BY <1>1 DEF Create, TypeOK
  <2>2. RequestsOK'
    BY <1>1 DEF Create, TypeOK, RequestsOK
  <2>3. CreatedOK'
    BY <1>1 DEF Create, TypeOK, CreatedOK
  <2>4. CreatedIsRegistered'
    BY <1>1 DEF Create, TypeOK, CreatedOK, CreatedIsRegistered
  <2> QED BY <2>1, <2>2, <2>3, <2>4
<1>2. ASSUME NEW p \in Procs, CreateRegister(p) PROVE IndInv'
  <2>1. TypeOK'
    BY <1>2 DEF CreateRegister, TypeOK, RequestsOK, Idle
  <2>2. RequestsOK'
    BY <1>2 DEF CreateRegister, TypeOK, RequestsOK, Idle
  <2>3. CreatedOK'
    BY <1>2 DEF CreateRegister, RequestsOK, CreatedOK
  <2>4. CreatedIsRegistered'
    BY <1>2 DEF CreateRegister, RequestsOK, CreatedIsRegistered
  <2> QED BY <2>1, <2>2, <2>3, <2>4
<1>3. ASSUME NEW p \in Procs, NEW id \in Ids, Delete(p, id) PROVE IndInv'
  <2>1. TypeOK'
    BY <1>3 DEF Delete, TypeOK
  <2>2. RequestsOK'
    BY <1>3 DEF Delete, TypeOK, RequestsOK, CreatedOK
  <2>3. CreatedOK'
    BY <1>3 DEF Delete, CreatedOK
  <2>4. CreatedIsRegistered'
    BY <1>3 DEF Delete, CreatedIsRegistered
  <2> QED BY <2>1, <2>2, <2>3, <2>4
<1>4. ASSUME NEW p \in Procs, DeleteUnregister(p) PROVE IndInv'
  <2>1. TypeOK'
    BY <1>4 DEF DeleteUnregister, TypeOK
  <2>2. RequestsOK'
    BY <1>4 DEF DeleteUnregister, TypeOK, RequestsOK
  <2>3. CreatedOK'
    BY <1>4 DEF DeleteUnregister, CreatedOK
  <2>4. CreatedIsRegistered'
    \* a target goes only if it has the URL of a webhook that is being deleted
    BY <1>4 DEF DeleteUnregister, TypeOK, RequestsOK, CreatedOK,
                CreatedIsRegistered
  <2> QED BY <2>1, <2>2, <2>3, <2>4
<1>5. ASSUME NEW p \in Procs, DeleteRow(p) PROVE IndInv'
  <2>1. TypeOK'
    BY <1>5 DEF DeleteRow, TypeOK, Idle
  <2>2. RequestsOK'
    BY <1>5 DEF DeleteRow, TypeOK, RequestsOK, Idle
  <2>3. CreatedOK'
    BY <1>5 DEF DeleteRow, CreatedOK
  <2>4. CreatedIsRegistered'
    BY <1>5 DEF DeleteRow, RequestsOK, CreatedIsRegistered
  <2> QED BY <2>1, <2>2, <2>3, <2>4
<1>6. ASSUME Boot PROVE IndInv'
  <2>1. TypeOK'
    BY <1>6 DEF Boot, TypeOK, Idle
  <2>2. RequestsOK'
    BY <1>6 DEF Boot, RequestsOK, Idle
  <2>3. CreatedOK'
    BY <1>6 DEF Boot, CreatedOK
  <2>4. CreatedIsRegistered'
    BY <1>6 DEF Boot, CreatedIsRegistered
  <2> QED BY <2>1, <2>2, <2>3, <2>4
<1>7. ASSUME UNCHANGED vars PROVE IndInv'
  BY <1>7 DEF vars, TypeOK, RequestsOK, CreatedOK, CreatedIsRegistered
<1> QED
  BY <1>1, <1>2, <1>3, <1>4, <1>5, <1>6, <1>7 DEF Next

\* No webhook that its owner was told of and that nobody deletes is ever without
\* its row, nor without its target unless another one with the same URL is
\* deleted or the last boot loaded no rows: Create inserts the row first, Delete
\* removes the target first, and a boot that reads the rows registers all of them.
THEOREM CreatedStaysRegistered == Spec => []CreatedIsRegistered
<1>1. IndInv => CreatedIsRegistered
  BY DEF IndInv
<1> QED
  BY <1>1, InitInv, StepInv, PTL DEF Spec
=============================================================================
