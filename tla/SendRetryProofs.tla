-------------------------- MODULE SendRetryProofs --------------------------
(***************************************************************************)
(* Theorems about SendRetry: its types, what makes SendWithRetry send      *)
(* again, and how often a request can be delivered.                        *)
(***************************************************************************)
EXTENDS SendRetry, FiniteSetTheorems, TLAPS

Tries == 0 .. MaxRetries - 1
Steps == {"get", "build", "upload", "send", "await", "resend", "reawait", "fail", "done"}
Sender == [pc : Steps, try : Tries, c : Clients \cup {None}, err : Errors, reply : Replies]

\* The parts of TypeOK: the connection, and the senders.
ConnTypes ==
    /\ pool \in Clients \cup {None} /\ up \subseteq Clients
    /\ waiting \subseteq Clients /\ dialling \subseteq Clients /\ late \in Nat
    /\ connects \in Clients /\ blips \in 0 .. MaxBlips /\ misread \in BOOLEAN
SenderTypes == snd \in [Senders -> Sender] /\ delivered \in [Senders -> SUBSET Tries]

Inv == ConnTypes /\ SenderTypes

\* The types are TypeOK.
LEMMA InvType == Inv => TypeOK
BY DEF Inv, ConnTypes, SenderTypes, TypeOK, Sender, Steps, Tries

\* The records that the loop of SendWithRetry goes through.
LEMMA Records ==
    ASSUME NEW n \in Tries, NEW reply \in Replies
    PROVE  /\ Attempt(n) \in Sender /\ Attempt(n).reply = "none"
           /\ Answered(n, reply) \in Sender /\ Answered(n, reply).reply = reply
           /\ Answered(n, reply).try = n
BY DEF Attempt, Answered, Sender, Steps, Errors, Replies, FetchErrors, UploadErrors

\* Initially nothing has been sent.
LEMMA InitInv == Init => Inv
<1> SUFFICES ASSUME Init PROVE Inv
  OBVIOUS
<1>1. 0 \in Tries /\ "none" \in Replies
  BY BoundsAssumption DEF Tries, Replies
<1>2. ConnTypes
  <2>1. misread \in BOOLEAN
    BY Zenon DEF Init
  <2>2. pool = 1 /\ connects = 1 /\ up = {1} /\ waiting = {} /\ dialling = {} /\ late = 0 /\ blips = 0
    BY DEF Init
  <2>3. 1 \in Clients /\ 0 \in 0 .. MaxBlips
    BY BoundsAssumption DEF Clients
  <2> QED BY <2>1, <2>2, <2>3 DEF ConnTypes
<1>3. SenderTypes
  BY <1>1, Records DEF Init, SenderTypes
<1> QED BY <1>2, <1>3 DEF Inv

\* Interrupted leaves attempts and answers alone.
LEMMA InterruptedKeeps ==
    ASSUME Inv, NEW c
    PROVE  /\ Interrupted(snd, c) \in [Senders -> Sender]
           /\ \A s \in Senders : /\ Interrupted(snd, c)[s].reply = snd[s].reply
                                 /\ Interrupted(snd, c)[s].try = snd[s].try
<1>1. ASSUME NEW s \in Senders
      PROVE  /\ Interrupted(snd, c)[s] \in Sender
             /\ Interrupted(snd, c)[s].reply = snd[s].reply
             /\ Interrupted(snd, c)[s].try = snd[s].try
  <2>1. snd[s] \in Sender
    BY DEF Inv, SenderTypes
  <2>2. \/ Interrupted(snd, c)[s] = snd[s]
        \/ Interrupted(snd, c)[s] = [snd[s] EXCEPT !.pc = "resend"]
        \/ Interrupted(snd, c)[s] = [snd[s] EXCEPT !.pc = "fail", !.err = "DisconnectedError"]
    BY DEF Interrupted
  <2> QED BY <2>1, <2>2 DEF Sender, Steps, Errors
<1>2. Interrupted(snd, c) = [s \in Senders |-> Interrupted(snd, c)[s]]
  BY DEF Interrupted
<1> QED BY <1>1, <1>2

\* A sender that fails.
LEMMA Fails ==
    ASSUME Inv, NEW s \in Senders, NEW err \in Errors, Fail(s, err)
    PROVE  /\ snd' \in [Senders -> Sender]
           /\ \A t \in Senders : snd'[t].reply = snd[t].reply /\ snd'[t].try = snd[t].try
BY DEF Inv, SenderTypes, Fail, Sender, Steps

\* A sender that is answered.
LEMMA Replied ==
    ASSUME Inv, NEW s \in Senders, NEW reply \in Replies, Reply(s, reply)
    PROVE  /\ snd' \in [Senders -> Sender]
           /\ snd'[s].reply = reply /\ snd'[s].try = snd[s].try
           /\ \A t \in Senders : t # s => snd'[t] = snd[t]
<1>1. snd \in [Senders -> Sender] /\ snd[s].try \in Tries
  BY DEF Inv, SenderTypes, Sender
<1> QED BY <1>1, Records DEF Reply

\* The loop after a failed attempt.
LEMMA Retried ==
    ASSUME NEW s \in Senders, NEW w \in [Senders -> Sender]
    PROVE  /\ NextAttempt(s, w) \in [Senders -> Sender]
           /\ \A t \in Senders : t # s => NextAttempt(s, w)[t] = w[t]
<1>1. w[s].try \in Tries /\ "SERVICE_UNAVAILABLE" \in Replies /\ "none" \in Replies
  BY DEF Sender, Replies
<1>2. w[s].try # MaxRetries - 1 => w[s].try + 1 \in Tries
  BY <1>1, BoundsAssumption DEF Tries
<1> QED BY <1>1, <1>2, Records DEF NextAttempt

\* The steps of SendWithRetry.
LEMMA LoopInv ==
    ASSUME Inv, NEW s \in Senders, Get(s) \/ HandleError(s)
    PROVE  Inv'
<1>0. snd \in [Senders -> Sender] /\ snd[s] \in Sender
  BY DEF Inv, SenderTypes
<1>1. CASE Get(s)
  <2>1. ConnTypes' /\ delivered' = delivered
    BY <1>1 DEF Get, Inv, ConnTypes, auto, world
  <2>2. CASE pool \in up /\ snd' = [snd EXCEPT ![s].c = pool, ![s].pc = "build"]
    <3>1. snd' \in [Senders -> Sender]
      BY <1>0, <2>2 DEF Sender, Steps, Inv, ConnTypes
    <3> QED BY <2>1, <3>1 DEF Inv, SenderTypes
  <2>3. CASE snd[s].try = MaxRetries - 1 /\ Reply(s, "WHATSAPP_NOT_CONNECTED")
    <3>1. "WHATSAPP_NOT_CONNECTED" \in Replies
      BY DEF Replies
    <3> QED BY <2>1, <2>3, <3>1, Replied DEF Inv, SenderTypes
  <2>4. CASE snd[s].try # MaxRetries - 1 /\ snd' = [snd EXCEPT ![s] = Attempt(snd[s].try + 1)]
    <3>1. snd[s].try + 1 \in Tries /\ "none" \in Replies
      BY <1>0, <2>4, BoundsAssumption DEF Sender, Tries, Replies
    <3>2. snd' \in [Senders -> Sender]
      BY <1>0, <2>4, <3>1, Records
    <3> QED BY <2>1, <3>2 DEF Inv, SenderTypes
  <2> QED BY <1>1, <2>2, <2>3, <2>4 DEF Get
<1>2. CASE HandleError(s)
  <2>0. misread' \in BOOLEAN
    BY <1>2, Zenon DEF HandleError, Inv, ConnTypes
  <2>1. ConnTypes' /\ delivered' = delivered
    <3>1. /\ up' \subseteq Clients /\ waiting' \subseteq Clients /\ late' \in Nat
          /\ UNCHANGED <<pool, dialling, connects, blips, delivered>>
      BY <1>2 DEF HandleError, Inv, ConnTypes
    <3> QED BY <2>0, <3>1 DEF Inv, ConnTypes
  <2>2. CASE isDisconnectError(snd[s].err)
    <3> DEFINE w == IF pool = None THEN snd ELSE Interrupted(snd, pool)
    <3>1. w \in [Senders -> Sender]
      BY <1>0, InterruptedKeeps
    <3>2. snd' = NextAttempt(s, w)
      BY <1>2, <2>2 DEF HandleError
    <3> HIDE DEF w
    <3> QED BY <2>1, <3>1, <3>2, Retried DEF Inv, SenderTypes
  <2>3. CASE ~isDisconnectError(snd[s].err)
    <3>1. Code(snd[s].err) \in Replies
      BY DEF Code, Replies
    <3>2. Reply(s, Code(snd[s].err))
      BY <1>2, <2>3 DEF HandleError
    <3> QED BY <2>1, <3>1, <3>2, Replied DEF Inv, SenderTypes
  <2> QED BY <2>2, <2>3
<1> QED BY <1>1, <1>2

\* The steps of fn, down to the frame, and the answers that are errors.
FnStep(s) == \/ buildMessage(s) \/ Upload(s) \/ SendMessage(s) \/ retryFrame(s)
             \/ Refuse(s) \/ TimedOut(s)

\* A sender in fn fails or goes on to another step of it.
LEMMA FnMoves ==
    ASSUME NEW s \in Senders, FnStep(s)
    PROVE  /\ UNCHANGED <<pool, up, waiting, dialling, late, connects, blips, delivered, misread>>
           /\ snd[s].pc \in Steps \ {"get", "done"}
           /\ \/ \E err \in Errors : Fail(s, err)
              \/ \E pc \in Steps \ {"get", "done"} : snd' = [snd EXCEPT ![s].pc = pc]
BY DEF FnStep, buildMessage, parseJID, Upload, SendMessage, retryFrame, Refuse, TimedOut,
   Errors, FetchErrors, UploadErrors, Steps, auto, world

\* The steps of fn keep the types.
LEMMA FnInv ==
    ASSUME Inv, NEW s \in Senders, FnStep(s)
    PROVE  Inv'
<1>1. ConnTypes' /\ delivered' = delivered
  BY FnMoves DEF Inv, ConnTypes
<1>2. ASSUME NEW pc \in Steps, snd' = [snd EXCEPT ![s].pc = pc]
      PROVE  snd' \in [Senders -> Sender]
  BY <1>2 DEF Inv, SenderTypes, Sender
<1>3. snd' \in [Senders -> Sender]
  BY <1>2, FnMoves, Fails
<1> QED BY <1>1, <1>3 DEF Inv, SenderTypes

\* The server takes a frame and acknowledges it.
LEMMA ServerInv ==
    ASSUME Inv, NEW s \in Senders, Deliver(s) \/ Acknowledge(s)
    PROVE  Inv'
<1>1. ConnTypes'
  BY DEF Deliver, Acknowledge, Inv, ConnTypes, auto, world
<1>2. CASE Deliver(s)
  <2>1. snd[s].try \in Tries /\ snd' = snd /\ delivered \in [Senders -> SUBSET Tries]
    BY <1>2 DEF Inv, SenderTypes, Sender, Deliver
  <2>2. delivered' \in [Senders -> SUBSET Tries]
    BY <1>2, <2>1 DEF Deliver
  <2> QED BY <1>1, <2>1, <2>2 DEF Inv, SenderTypes
<1>3. CASE Acknowledge(s)
  <2>1. "sent" \in Replies
    BY DEF Replies
  <2>2. snd' \in [Senders -> Sender] /\ delivered' = delivered
    BY <1>3, <2>1, Replied DEF Acknowledge, world
  <2> QED BY <1>1, <2>2 DEF Inv, SenderTypes
<1> QED BY <1>2, <1>3

\* The connection and the connect requests.
ConnStep == \/ Connect
            \/ \E c \in Clients : Blip(c) \/ autoReconnectWait(c) \/ autoReconnectDial(c)

\* They keep the types.
LEMMA ConnInv ==
    ASSUME Inv, ConnStep \/ UNCHANGED vars
    PROVE  Inv'
<1>1. ConnTypes'
  <2>1. CASE Connect
    <3>1. connects' \in Clients
      BY <2>1, BoundsAssumption DEF Connect, Inv, ConnTypes, Clients
    <3> QED BY <2>1, <3>1 DEF Connect, Inv, ConnTypes, auto
  <2>2. ASSUME NEW c \in Clients, Blip(c) PROVE ConnTypes'
    <3>1. blips' \in 0 .. MaxBlips
      BY <2>2, BoundsAssumption DEF Blip, Inv, ConnTypes
    <3> QED BY <2>2, <3>1 DEF Blip, Inv, ConnTypes
  <2>3. ASSUME NEW c \in Clients, autoReconnectWait(c) \/ autoReconnectDial(c) PROVE ConnTypes'
    BY <2>3 DEF autoReconnectWait, autoReconnectDial, Inv, ConnTypes, world
  <2>4. CASE UNCHANGED vars
    BY <2>4 DEF vars, Inv, ConnTypes
  <2> QED BY <2>1, <2>2, <2>3, <2>4 DEF ConnStep
<1>2. delivered' = delivered /\ (snd' = snd \/ \E c \in Clients : snd' = Interrupted(snd, c))
  BY DEF ConnStep, Connect, Blip, autoReconnectWait, autoReconnectDial, vars, world
<1>3. snd' \in [Senders -> Sender]
  BY <1>2, InterruptedKeeps DEF Inv, SenderTypes
<1> QED BY <1>1, <1>2, <1>3 DEF Inv, SenderTypes

\* The steps of SendRetry in the groups that the proofs go through.
LEMMA NextSteps ==
    Next => \/ ConnStep
            \/ \E s \in Senders : \/ Get(s) \/ HandleError(s) \/ FnStep(s)
                                 \/ Deliver(s) \/ Acknowledge(s)
BY DEF Next, SenderStep, FnStep, ConnStep

\* Every step keeps the invariant.
LEMMA StepInv == Inv /\ [Next]_vars => Inv'
BY LoopInv, FnInv, ServerInv, ConnInv, NextSteps

\* For every number of senders, attempts, clients and lost connections, the variables
\* keep their types: in particular SendWithRetry makes MaxRetries attempts at most.
THEOREM SendTypeCorrect == Spec => []TypeOK
BY InitInv, StepInv, InvType, PTL DEF Spec

-----------------------------------------------------------------------------
(* What makes SendWithRetry send again *)

\* Neither a lost connection nor a misread error so far.
Calm == blips = 0 /\ ~misread

\* A sender while all is calm: it is in its first attempt, uses the first client if
\* any, waits for no resend, and has failed, if so, for a reason that is no loss of
\* the connection.
CalmSender(s) ==
    /\ snd[s].try = 0 /\ snd[s].pc \notin {"resend", "reawait"}
    /\ snd[s].pc \in Steps \ {"get", "done"} => snd[s].c = 1
    /\ snd[s].pc = "fail" =>
          ~isDisconnectError(snd[s].err) \/ snd[s].err \in FetchErrors \cup UploadErrors

\* While all is calm the first client is in the pool and connected.
CalmInv ==
    Calm => /\ pool = 1 /\ up = {1} /\ waiting = {} /\ dialling = {}
            /\ \A s \in Senders : CalmSender(s)

\* The errors that are no loss of the connection by their text.
LEMMA OtherErrors ==
    ASSUME NEW err \in {"ErrMessageTimedOut", "ErrServerReturnedError", "InvalidJID", "Invalid"}
    PROVE  ~isDisconnectError(err)
BY DEF isDisconnectError, Words

\* The loop: a sender leaves its first attempt only when something has happened.
LEMMA LoopCalm ==
    ASSUME Inv, CalmInv, NEW s \in Senders, Get(s) \/ HandleError(s)
    PROVE  CalmInv'
<1> SUFFICES ASSUME Calm' PROVE CalmInv'
  BY DEF CalmInv
<1>0. snd \in [Senders -> Sender] /\ snd[s] \in Sender
  BY DEF Inv, SenderTypes
<1>1. blips' = blips /\ (misread => misread')
  BY DEF Get, HandleError, world
<1>2. Calm
  BY <1>1 DEF Calm
<1>3. pool = 1 /\ up = {1} /\ waiting = {} /\ dialling = {} /\ \A t \in Senders : CalmSender(t)
  BY <1>2 DEF CalmInv
<1>4. CASE Get(s)
  <2>1. snd' = [snd EXCEPT ![s].c = pool, ![s].pc = "build"]
        /\ UNCHANGED <<pool, up, waiting, dialling>>
    BY <1>3, <1>4 DEF Get, auto
  <2>2. CalmSender(s)'
    BY <1>0, <1>3, <2>1 DEF CalmSender, Sender
  <2>3. ASSUME NEW t \in Senders, t # s PROVE CalmSender(t)'
    BY <1>0, <1>3, <2>1, <2>3 DEF CalmSender
  <2> QED BY <1>3, <2>1, <2>2, <2>3 DEF CalmInv
<1>5. CASE HandleError(s)
  <2>1. ~isDisconnectError(snd[s].err)
    <3>1. snd[s].pc = "fail"
      BY <1>5 DEF HandleError
    <3>2. SUFFICES ASSUME isDisconnectError(snd[s].err) PROVE FALSE
      OBVIOUS
    <3>3. snd[s].err \in FetchErrors \cup UploadErrors
      BY <1>3, <3>1, <3>2 DEF CalmSender
    <3>4. misread'
      BY <1>5, <3>2, <3>3 DEF HandleError
    <3> QED BY <3>4 DEF Calm
  <2>2. Reply(s, Code(snd[s].err)) /\ UNCHANGED <<pool, up, waiting, dialling>>
    BY <1>5, <2>1 DEF HandleError
  <2>3. snd'[s].pc = "done" /\ snd'[s].try = snd[s].try
        /\ \A t \in Senders : t # s => snd'[t] = snd[t]
    BY <1>0, <2>2 DEF Reply, Answered, Attempt
  <2>4. CalmSender(s)'
    BY <1>3, <2>3 DEF CalmSender, Steps
  <2>5. ASSUME NEW t \in Senders, t # s PROVE CalmSender(t)'
    BY <1>3, <2>3, <2>5 DEF CalmSender
  <2> QED BY <1>3, <2>2, <2>4, <2>5 DEF CalmInv
<1> QED BY <1>4, <1>5

\* The steps of fn: without a lost connection there is no error of that kind.
LEMMA FnCalm ==
    ASSUME Inv, CalmInv, NEW s \in Senders, FnStep(s)
    PROVE  CalmInv'
<1> SUFFICES ASSUME Calm' PROVE CalmInv'
  BY DEF CalmInv
<1>0. /\ snd \in [Senders -> Sender] /\ snd[s] \in Sender
      /\ UNCHANGED <<pool, up, waiting, dialling, late, connects, blips, delivered, misread>>
      /\ snd[s].pc \in Steps \ {"get", "done"}
  BY FnMoves DEF Inv, SenderTypes
<1>1. Calm /\ pool = 1 /\ up = {1} /\ waiting = {} /\ dialling = {}
      /\ \A t \in Senders : CalmSender(t)
  BY <1>0 DEF Calm, CalmInv
<1>2. snd[s].c = 1 /\ snd[s].c \in up
  BY <1>0, <1>1 DEF CalmSender
<1>3. \/ \E err \in FetchErrors \cup UploadErrors
                     \cup {"ErrMessageTimedOut", "ErrServerReturnedError", "InvalidJID", "Invalid"} :
              Fail(s, err)
      \/ \E pc \in {"upload", "send", "await"} : snd' = [snd EXCEPT ![s].pc = pc]
  <2>1. snd[s].pc \notin {"resend", "reawait"}
    BY <1>1 DEF CalmSender
  <2> QED BY <1>2, <2>1 DEF FnStep, buildMessage, parseJID, Upload, SendMessage, retryFrame,
          Refuse, TimedOut
<1>4. ASSUME NEW pc \in {"upload", "send", "await"}, snd' = [snd EXCEPT ![s].pc = pc]
      PROVE  CalmSender(s)' /\ \A t \in Senders : t # s => snd'[t] = snd[t]
  <2>1. snd'[s].pc = pc /\ snd'[s].try = snd[s].try /\ snd'[s].c = snd[s].c
    BY <1>0, <1>4 DEF Sender
  <2> QED BY <1>0, <1>1, <1>2, <1>4, <2>1 DEF CalmSender
<1>5. ASSUME NEW err, Fail(s, err),
             ~isDisconnectError(err) \/ err \in FetchErrors \cup UploadErrors
      PROVE  CalmSender(s)' /\ \A t \in Senders : t # s => snd'[t] = snd[t]
  <2>1. /\ snd'[s].pc = "fail" /\ snd'[s].err = err /\ snd'[s].try = snd[s].try
        /\ snd'[s].c = snd[s].c
    BY <1>0, <1>5 DEF Fail, Sender
  <2>2. \A t \in Senders : t # s => snd'[t] = snd[t]
    BY <1>0, <1>5 DEF Fail
  <2> QED BY <1>1, <1>2, <1>5, <2>1, <2>2 DEF CalmSender
<1>6. CalmSender(s)' /\ \A t \in Senders : t # s => snd'[t] = snd[t]
  BY <1>3, <1>4, <1>5, OtherErrors
<1>7. ASSUME NEW t \in Senders, t # s PROVE CalmSender(t)'
  BY <1>1, <1>6, <1>7 DEF CalmSender
<1> QED BY <1>0, <1>1, <1>6, <1>7 DEF CalmInv

\* The server, the connection and the connect requests.
LEMMA WorldCalm ==
    ASSUME Inv, CalmInv,
           \/ ConnStep \/ UNCHANGED vars
           \/ \E s \in Senders : Deliver(s) \/ Acknowledge(s)
    PROVE  CalmInv'
<1> SUFFICES ASSUME Calm' PROVE CalmInv'
  BY DEF CalmInv
<1>1. CASE UNCHANGED vars
  BY <1>1 DEF vars, CalmInv, Calm, CalmSender
<1>2. ASSUME NEW s \in Senders, Deliver(s) PROVE CalmInv'
  BY <1>2 DEF Deliver, auto, CalmInv, Calm, CalmSender
<1>3. ASSUME NEW s \in Senders, Acknowledge(s) PROVE CalmInv'
  <2>1. /\ UNCHANGED <<pool, up, waiting, dialling, blips, misread>> /\ Reply(s, "sent")
        /\ snd \in [Senders -> Sender]
    BY <1>3 DEF Acknowledge, auto, world, Inv, SenderTypes
  <2>2. snd'[s].pc = "done" /\ snd'[s].try = snd[s].try
        /\ \A t \in Senders : t # s => snd'[t] = snd[t]
    BY <2>1 DEF Reply, Answered, Attempt
  <2>3. Calm /\ \A t \in Senders : CalmSender(t)
    BY <2>1 DEF Calm, CalmInv
  <2>4. CalmSender(s)'
    BY <2>2, <2>3 DEF CalmSender, Steps
  <2>5. ASSUME NEW t \in Senders, t # s PROVE CalmSender(t)'
    BY <2>2, <2>3, <2>5 DEF CalmSender
  <2> QED BY <2>1, <2>3, <2>4, <2>5 DEF CalmInv
<1>4. CASE Connect
  BY <1>4 DEF Connect, CalmInv, Calm
<1>5. ASSUME NEW c \in Clients, Blip(c) PROVE CalmInv'
  BY <1>5 DEF Blip, Calm, Inv, ConnTypes
<1>6. ASSUME NEW c \in Clients, autoReconnectWait(c) \/ autoReconnectDial(c) PROVE CalmInv'
  BY <1>6 DEF autoReconnectWait, autoReconnectDial, CalmInv, Calm, world
<1> QED BY <1>1, <1>2, <1>3, <1>4, <1>5, <1>6 DEF ConnStep

\* For every number of senders, attempts, clients and lost connections, nothing is sent
\* again before a connection is lost or an error of the media is taken for that: a
\* message that times out or is refused is answered with its error.
THEOREM NoRetryWithoutCause == Spec => []RetryHasCause
<1>1. Init => CalmInv
  BY DEF Init, CalmInv, CalmSender, Attempt, Steps
<1>2. Inv /\ CalmInv /\ [Next]_vars => CalmInv'
  BY LoopCalm, FnCalm, WorldCalm, NextSteps
<1>3. Inv /\ CalmInv => RetryHasCause
  <2>1. SUFFICES ASSUME Inv, CalmInv, NEW s \in Senders, snd[s].try > 0, blips = 0, ~misread
                 PROVE  FALSE
    BY DEF RetryHasCause, Inv, ConnTypes
  <2> QED BY <2>1 DEF CalmInv, Calm, CalmSender
<1> QED BY <1>1, <1>2, <1>3, InitInv, StepInv, PTL DEF Spec

-----------------------------------------------------------------------------
(* How often a request is delivered *)

\* The client in the pool is connected, or may be again without a connect request.
Live == pool \in up \cup waiting \cup dialling
Spare == connects + late
Working == Steps \ {"get", "done"}

\* The attempts of a request that were delivered, and those before the current one.
Count(s) == Cardinality(delivered[s])
Earlier(s) == Cardinality(delivered[s] \ {snd[s].try})

\* A sender at the top of the loop has one delivery to come if the pool's client is or
\* may come up: the one before was paid with a client that is gone for good, or with
\* a disconnect that came too late.
Budget(s) ==
    /\ snd[s].pc = "get" => Count(s) <= Spare /\ (Live => Count(s) + 1 <= Spare)
    /\ snd[s].pc \in Working => Earlier(s) + 1 <= Spare
    /\ snd[s].pc = "done" => Count(s) <= Spare
BudgetInv == \A s \in Senders : Budget(s)

\* A set of attempts with and without one of them.
LEMMA CountWithout ==
    ASSUME NEW D \in SUBSET Tries, NEW x
    PROVE  /\ Cardinality(D) \in Nat /\ Cardinality(D \ {x}) \in Nat
           /\ Cardinality(D \ {x}) <= Cardinality(D)
           /\ Cardinality(D) <= Cardinality(D \ {x}) + 1
<1>1. IsFiniteSet(Tries)
  BY BoundsAssumption, FS_Interval DEF Tries
<1>2. IsFiniteSet(D)
  BY <1>1, FS_Subset
<1>3. Cardinality(D) \in Nat
  BY <1>2, FS_CardinalityType
<1>4. CASE x \in D
  <2>1. Cardinality(D \ {x}) = Cardinality(D) - 1 /\ IsFiniteSet(D \ {x})
    BY <1>2, <1>4, FS_RemoveElement
  <2>2. Cardinality(D \ {x}) \in Nat
    BY <2>1, FS_CardinalityType
  <2> QED BY <1>3, <2>1, <2>2
<1>5. CASE x \notin D
  <2>1. D \ {x} = D
    BY <1>5
  <2>2. Cardinality(D \ {x}) = Cardinality(D)
    BY <2>1
  <2> QED BY <1>3, <2>2
<1> QED BY <1>4, <1>5

\* What Budget says of the numbers.
LEMMA Counts ==
    ASSUME Inv, NEW s \in Senders
    PROVE  /\ Count(s) \in Nat /\ Earlier(s) \in Nat /\ Spare \in Nat
           /\ Earlier(s) <= Count(s) /\ Count(s) <= Earlier(s) + 1
<1>1. delivered[s] \in SUBSET Tries
  BY DEF Inv, SenderTypes
<1>2. Spare \in Nat
  BY DEF Inv, ConnTypes, Clients, Spare
<1> QED BY <1>1, <1>2, CountWithout DEF Count, Earlier

\* Whatever a sender does, its request has not been delivered more often than that.
LEMMA WithinBudget ==
    ASSUME Inv, NEW s \in Senders, Budget(s)
    PROVE  Count(s) <= Spare
<1>1. snd[s].pc \in Steps
  BY DEF Inv, SenderTypes, Sender
<1> QED BY <1>1, Counts DEF Budget, Working

\* A step with nothing delivered: a sender goes on with its attempt, and neither the
\* pool nor the numbers get worse.
LEMMA GoesOn ==
    ASSUME Inv, NEW s \in Senders, Budget(s), delivered'[s] = delivered[s],
           Spare' \in Nat, Spare <= Spare', Live' => Live \/ Spare + 1 <= Spare',
           snd'[s].try = snd[s].try,
           snd'[s].pc = snd[s].pc \/ (snd[s].pc \in Working /\ snd'[s].pc \in Working)
    PROVE  Budget(s)'
<1>1. Count(s)' = Count(s) /\ Earlier(s)' = Earlier(s)
  BY DEF Count, Earlier
<1>2. Working' = Working /\ "get" \notin Working /\ "done" \notin Working
  BY DEF Working
<1>3. Count(s) \in Nat /\ Earlier(s) \in Nat /\ Spare \in Nat /\ Count(s) <= Spare
  BY Counts, WithinBudget
<1>4. CASE snd'[s].pc = "get"
  <2>1. snd[s].pc = "get"
    BY <1>2, <1>4
  <2>2. Live' => Count(s) + 1 <= Spare'
    BY <1>3, <2>1 DEF Budget
  <2> QED BY <1>1, <1>2, <1>3, <1>4, <2>2 DEF Budget
<1>5. CASE snd'[s].pc \in Working
  <2>1. Earlier(s) + 1 <= Spare'
    BY <1>2, <1>3, <1>5 DEF Budget
  <2> QED BY <1>1, <1>2, <1>5, <2>1 DEF Budget
<1>6. CASE snd'[s].pc \notin Working \cup {"get"}
  BY <1>1, <1>2, <1>3, <1>6 DEF Budget
<1> QED BY <1>4, <1>5, <1>6

\* A step that ends an attempt: the pool's client is not live after it, or the
\* disconnect came too late.
LEMMA AttemptEnds ==
    ASSUME Inv, NEW s \in Senders, Budget(s), delivered'[s] = delivered[s],
           Spare' \in Nat, Spare <= Spare', snd'[s].pc \in {"get", "done"},
           snd'[s].pc = "get" /\ Live' => Spare + 1 <= Spare'
    PROVE  Budget(s)'
<1>1. Count(s)' = Count(s)
  BY DEF Count
<1>2. snd'[s].pc \notin Working'
  BY DEF Working
<1> QED BY <1>1, <1>2, Counts, WithinBudget DEF Budget

\* An interrupted sender goes on with its attempt.
LEMMA InterruptedWorks ==
    ASSUME Inv, NEW c, NEW s \in Senders
    PROVE  \/ Interrupted(snd, c)[s].pc = snd[s].pc
           \/ snd[s].pc \in Working /\ Interrupted(snd, c)[s].pc \in Working
<1>1. snd[s] \in Sender
  BY DEF Inv, SenderTypes
<1>2. CASE snd[s].c = c /\ snd[s].pc = "await"
  BY <1>1, <1>2 DEF Interrupted, Sender, Working, Steps
<1>3. CASE snd[s].c = c /\ snd[s].pc = "reawait"
  BY <1>1, <1>3 DEF Interrupted, Sender, Working, Steps
<1>4. CASE ~(snd[s].c = c /\ snd[s].pc \in {"await", "reawait"})
  BY <1>4 DEF Interrupted
<1> QED BY <1>2, <1>3, <1>4

\* The top of the loop.
LEMMA GetBudget ==
    ASSUME Inv, BudgetInv, NEW s \in Senders, Get(s)
    PROVE  BudgetInv'
<1>0. /\ snd \in [Senders -> Sender] /\ snd[s] \in Sender /\ snd[s].pc = "get"
      /\ UNCHANGED <<up, waiting, dialling, late, connects, delivered>> /\ Spare' = Spare
      /\ Spare \in Nat
  BY Counts DEF Inv, SenderTypes, Get, auto, world, Spare
<1>1. CASE pool \in up /\ snd' = [snd EXCEPT ![s].c = pool, ![s].pc = "build"] /\ pool' = pool
  <2>1. Live /\ (Live' <=> Live)
    BY <1>0, <1>1 DEF Live
  <2>2. ASSUME NEW t \in Senders, t # s PROVE Budget(t)'
    <3>1. snd'[t] = snd[t]
      BY <1>0, <1>1, <2>2
    <3> QED BY <1>0, <2>1, <3>1, GoesOn DEF BudgetInv
  <2>3. snd'[s].pc = "build" /\ snd'[s].try = snd[s].try
    BY <1>0, <1>1 DEF Sender
  <2>4. Earlier(s)' = Earlier(s) /\ Count(s) + 1 <= Spare
    BY <1>0, <2>1, <2>3 DEF Earlier, BudgetInv, Budget
  <2>5. Earlier(s)' + 1 <= Spare'
    BY <1>0, <2>4, Counts
  <2>6. Budget(s)'
    BY <2>3, <2>5 DEF Budget
  <2> QED BY <2>2, <2>6 DEF BudgetInv
<1>2. CASE /\ pool' = None
           /\ \/ Reply(s, "WHATSAPP_NOT_CONNECTED")
              \/ snd' = [snd EXCEPT ![s] = Attempt(snd[s].try + 1)]
  <2>1. ~Live'
    BY <1>0, <1>2 DEF Live, Inv, ConnTypes, None, Clients
  <2>2. snd'[s].pc \in {"get", "done"} /\ \A t \in Senders : t # s => snd'[t] = snd[t]
    <3>1. CASE Reply(s, "WHATSAPP_NOT_CONNECTED")
      BY <1>0, <3>1 DEF Reply, Attempt, Answered
    <3>2. CASE snd' = [snd EXCEPT ![s] = Attempt(snd[s].try + 1)]
      BY <1>0, <3>2 DEF Attempt
    <3> QED BY <1>2, <3>1, <3>2
  <2>3. ASSUME NEW t \in Senders, t # s PROVE Budget(t)'
    BY <1>0, <2>1, <2>2, <2>3, GoesOn DEF BudgetInv
  <2>4. Budget(s)'
    BY <1>0, <2>1, <2>2, AttemptEnds DEF BudgetInv
  <2> QED BY <2>3, <2>4 DEF BudgetInv
<1> QED BY <1>1, <1>2 DEF Get

\* The error of an attempt: whoever goes on to the next one has made sure that the
\* pool's client is gone, or has come too late for that.
LEMMA ErrorBudget ==
    ASSUME Inv, BudgetInv, NEW s \in Senders, HandleError(s)
    PROVE  BudgetInv'
<1>0. /\ snd \in [Senders -> Sender] /\ snd[s] \in Sender /\ snd[s].pc = "fail"
      /\ UNCHANGED <<pool, dialling, connects, delivered>> /\ Spare \in Nat
  BY Counts DEF Inv, SenderTypes, HandleError
<1>1. CASE isDisconnectError(snd[s].err)
  <2>1. /\ up' = up \ {pool} /\ waiting' = waiting \ {pool}
        /\ late' = IF pool \in dialling THEN late + 1 ELSE late
    BY <1>1 DEF HandleError
  <2>2. Spare' \in Nat /\ Spare <= Spare' /\ (Live' => Spare + 1 <= Spare')
    BY <1>0, <2>1 DEF Live, Spare, Inv, ConnTypes, Clients
  <2> DEFINE w == IF pool = None THEN snd ELSE Interrupted(snd, pool)
  <2>3. /\ w \in [Senders -> Sender]
        /\ \A t \in Senders : /\ w[t].try = snd[t].try
                              /\ \/ w[t].pc = snd[t].pc
                                 \/ snd[t].pc \in Working /\ w[t].pc \in Working
    BY <1>0, InterruptedKeeps, InterruptedWorks
  <2>4. snd' = NextAttempt(s, w)
    BY <1>1 DEF HandleError
  <2> HIDE DEF w
  <2>5. snd'[s].pc \in {"get", "done"} /\ \A t \in Senders : t # s => snd'[t] = w[t]
    BY <2>3, <2>4 DEF NextAttempt, Attempt, Answered
  <2>6. ASSUME NEW t \in Senders, t # s PROVE Budget(t)'
    BY <1>0, <2>2, <2>3, <2>5, <2>6, GoesOn DEF BudgetInv
  <2>7. Budget(s)'
    BY <1>0, <2>2, <2>5, AttemptEnds DEF BudgetInv
  <2> QED BY <2>6, <2>7 DEF BudgetInv
<1>2. CASE ~isDisconnectError(snd[s].err)
  <2>1. Reply(s, Code(snd[s].err)) /\ UNCHANGED <<up, waiting, late>>
    BY <1>2 DEF HandleError
  <2>2. (Live' <=> Live) /\ Spare' = Spare
    BY <1>0, <2>1 DEF Live, Spare
  <2>3. snd'[s].pc = "done" /\ \A t \in Senders : t # s => snd'[t] = snd[t]
    BY <1>0, <2>1 DEF Reply, Attempt, Answered
  <2>4. ASSUME NEW t \in Senders, t # s PROVE Budget(t)'
    BY <1>0, <2>2, <2>3, <2>4, GoesOn DEF BudgetInv
  <2>5. Budget(s)'
    BY <1>0, <2>2, <2>3, AttemptEnds DEF BudgetInv
  <2> QED BY <2>4, <2>5 DEF BudgetInv
<1> QED BY <1>1, <1>2

\* The steps of fn, and the acknowledgement.
LEMMA FnBudget ==
    ASSUME Inv, BudgetInv, NEW s \in Senders, FnStep(s) \/ Acknowledge(s)
    PROVE  BudgetInv'
<1>0. /\ snd \in [Senders -> Sender] /\ snd[s] \in Sender /\ snd[s].pc \in Working
      /\ UNCHANGED <<pool, up, waiting, dialling, late, connects, delivered>> /\ Spare \in Nat
  BY Counts, FnMoves DEF Inv, SenderTypes, Acknowledge, auto, world, Working, Steps
<1>1. (Live' <=> Live) /\ Spare' = Spare
  BY <1>0 DEF Live, Spare
<1>2. CASE Acknowledge(s)
  <2>1. snd'[s].pc = "done" /\ \A t \in Senders : t # s => snd'[t] = snd[t]
    BY <1>0, <1>2 DEF Acknowledge, Reply, Attempt, Answered
  <2>2. ASSUME NEW t \in Senders, t # s PROVE Budget(t)'
    BY <1>0, <1>1, <2>1, <2>2, GoesOn DEF BudgetInv
  <2>3. Budget(s)'
    BY <1>0, <1>1, <2>1, AttemptEnds DEF BudgetInv
  <2> QED BY <2>2, <2>3 DEF BudgetInv
<1>3. CASE FnStep(s)
  <2>1. \/ \E err : Fail(s, err)
        \/ \E pc \in Working : snd' = [snd EXCEPT ![s].pc = pc]
    BY <1>3, FnMoves DEF Working
  <2>2. ASSUME NEW err, Fail(s, err)
        PROVE  /\ snd'[s].pc \in Working /\ snd'[s].try = snd[s].try
               /\ \A t \in Senders : t # s => snd'[t] = snd[t]
    BY <1>0, <2>2 DEF Fail, Sender, Working, Steps
  <2>3. ASSUME NEW pc \in Working, snd' = [snd EXCEPT ![s].pc = pc]
        PROVE  /\ snd'[s].pc \in Working /\ snd'[s].try = snd[s].try
               /\ \A t \in Senders : t # s => snd'[t] = snd[t]
    BY <1>0, <2>3 DEF Sender
  <2>4. /\ snd'[s].pc \in Working /\ snd'[s].try = snd[s].try
        /\ \A t \in Senders : t # s => snd'[t] = snd[t]
    BY <2>1, <2>2, <2>3
  <2>5. ASSUME NEW t \in Senders PROVE Budget(t)'
    <3>1. CASE t = s
      BY <1>0, <1>1, <2>4, <3>1, GoesOn DEF BudgetInv
    <3>2. CASE t # s
      BY <1>0, <1>1, <2>4, <3>2, GoesOn DEF BudgetInv
    <3> QED BY <3>1, <3>2
  <2> QED BY <2>5 DEF BudgetInv
<1> QED BY <1>2, <1>3

\* A delivery is that of the current attempt, which the budget has counted already.
LEMMA DeliverBudget ==
    ASSUME Inv, BudgetInv, NEW s \in Senders, Deliver(s)
    PROVE  BudgetInv'
<1>0. /\ delivered \in [Senders -> SUBSET Tries] /\ snd[s].pc \in Working
      /\ UNCHANGED <<pool, up, waiting, dialling, late, connects, snd>> /\ Spare \in Nat
      /\ delivered' = [delivered EXCEPT ![s] = @ \cup {snd[s].try}]
  BY Counts DEF Inv, SenderTypes, Deliver, auto, Working, Steps
<1>1. (Live' <=> Live) /\ Spare' = Spare
  BY <1>0 DEF Live, Spare
<1>2. ASSUME NEW t \in Senders, t # s PROVE Budget(t)'
  <2>1. delivered'[t] = delivered[t]
    BY <1>0, <1>2
  <2> QED BY <1>0, <1>1, <2>1, GoesOn DEF BudgetInv
<1>3. delivered'[s] \ {snd'[s].try} = delivered[s] \ {snd[s].try}
  BY <1>0
<1>4. Earlier(s)' = Earlier(s) /\ Earlier(s) + 1 <= Spare
  BY <1>0, <1>3 DEF Earlier, BudgetInv, Budget
<1>5. Budget(s)'
  BY <1>0, <1>1, <1>4 DEF Budget, Working, Steps
<1> QED BY <1>2, <1>5 DEF BudgetInv

\* The connection: one that is lost may come back, and only a connect request makes
\* the pool live that was not.
LEMMA ConnBudget ==
    ASSUME Inv, BudgetInv, ConnStep \/ UNCHANGED vars
    PROVE  BudgetInv'
<1>1. /\ delivered' = delivered /\ late' = late /\ connects \in Nat /\ late \in Nat
      /\ snd' = snd \/ \E c \in Clients : snd' = Interrupted(snd, c)
  BY DEF ConnStep, Connect, Blip, autoReconnectWait, autoReconnectDial, vars, auto, world, Inv,
     ConnTypes, Clients
<1>2. Spare' \in Nat /\ Spare <= Spare' /\ (Live' => Live \/ Spare + 1 <= Spare')
  <2>1. CASE Connect
    BY <1>1, <2>1 DEF Connect, Spare
  <2>2. ASSUME NEW c \in Clients, Blip(c) \/ autoReconnectWait(c) \/ autoReconnectDial(c)
        PROVE  connects' = connects /\ (Live' => Live)
    BY <2>2 DEF Blip, autoReconnectWait, autoReconnectDial, Live, world
  <2>3. CASE UNCHANGED vars
    BY <1>1, <2>3 DEF vars, Spare, Live
  <2> QED BY <1>1, <2>1, <2>2, <2>3 DEF Spare, ConnStep
<1>3. ASSUME NEW s \in Senders
      PROVE  /\ snd'[s].try = snd[s].try
             /\ snd'[s].pc = snd[s].pc \/ (snd[s].pc \in Working /\ snd'[s].pc \in Working)
  BY <1>1, InterruptedKeeps, InterruptedWorks
<1>4. ASSUME NEW s \in Senders PROVE Budget(s)'
  BY <1>1, <1>2, <1>3, GoesOn DEF BudgetInv
<1> QED BY <1>4 DEF BudgetInv

\* Every step keeps the budget.
LEMMA StepBudget == Inv /\ BudgetInv /\ [Next]_vars => BudgetInv'
BY GetBudget, ErrorBudget, FnBudget, DeliverBudget, ConnBudget, NextSteps

\* At first there is one client, and nothing has been delivered.
LEMMA InitBudget == Init => BudgetInv
<1> SUFFICES ASSUME Init, NEW s \in Senders PROVE Budget(s)
  BY DEF BudgetInv
<1>1. snd[s].pc = "get" /\ Count(s) = 0 /\ Spare = 1
  BY FS_EmptySet DEF Init, Attempt, Count, Spare
<1> QED BY <1>1 DEF Budget, Working

\* For every number of senders, attempts, clients and lost connections, a request is
\* delivered once per client that connect requests have dialled, and once more for
\* every disconnect that came too late to stop autoReconnect.
THEOREM DeliveredOncePerClient == Spec => []OncePerClient
<1>1. Inv /\ BudgetInv => OncePerClient
  BY WithinBudget DEF BudgetInv, OncePerClient, Count, Spare
<1> QED BY <1>1, InitInv, StepInv, InitBudget, StepBudget, PTL DEF Spec
=============================================================================
