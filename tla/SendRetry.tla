------------------------------ MODULE SendRetry ------------------------------
(***************************************************************************)
(* POST /messages: MessageService.Send around SendWithRetry                *)
(* (app/whatsapp/retry.go), down to whatsmeow's SendMessage and its resend *)
(* of an interrupted frame (send.go, request.go).                          *)
(*                                                                         *)
(* The senders share the instance's connection.  Clients are numbered in   *)
(* the order in which connect requests dial them.  A client that           *)
(* SendWithRetry itself creates is never dialled (the next connect request *)
(* replaces it), so a pool entry of that kind is None.                     *)
(*                                                                         *)
(* Every attempt is a message of its own: SendMessage makes a new ID, and  *)
(* only the resend inside one SendMessage keeps it.                        *)
(***************************************************************************)
EXTENDS Naturals, FiniteSets

CONSTANTS
    Senders,      \* concurrent POST /messages requests
    Media,        \* those of them that send media from a URL
    MaxRetries,   \* maxRetries (5 in the code)
    MaxConnects,  \* bound on the clients dialled by connect requests
    MaxBlips      \* bound on the connections lost

ASSUME MediaAssumption == Media \subseteq Senders
ASSUME BoundsAssumption ==
    MaxRetries \in Nat \ {0} /\ MaxConnects \in Nat \ {0} /\ MaxBlips \in Nat

VARIABLES
    pool,       \* the client in the pool, None for one that is not dialled
    up,         \* connected clients
    waiting,    \* clients in the delay of autoReconnect
    dialling,   \* clients whose autoReconnect is past its delay
    late,       \* number of disconnects that came too late to stop autoReconnect
    connects,   \* number of clients dialled so far
    blips,      \* number of connections lost so far
    snd,        \* per sender: next step, attempt, client, last error, reply
    delivered,  \* per sender: attempts whose message reached the recipient
    misread     \* whether an error of the media was taken for a lost connection

auto == <<waiting, dialling, late>>
world == <<connects, blips, delivered, misread>>
vars == <<pool, up, waiting, dialling, late, connects, blips, snd, delivered, misread>>

None == 0
Clients == 1 .. MaxConnects

-----------------------------------------------------------------------------
(* Errors *)

\* Which of the words that isDisconnectError looks for are in an error's text,
\* once lower-cased and wrapped by SendFailed, MediaFetchFailed or UploadFailed.
Words(err) ==
    CASE err = "ErrNotConnected"   -> {"not connected"}
      [] err = "DisconnectedError" -> {"disconnected"}
      [] err = "ErrMessageTimedOut" -> {}           \* "timed out waiting ..."
      [] err = "ErrServerReturnedError" -> {}       \* "server returned error ..."
      [] err = "MediaTimeout"      -> {"timeout"}   \* net/http: "Client.Timeout exceeded"
      [] err = "MediaEOF"          -> {"eof"}       \* io.ErrUnexpectedEOF
      [] err = "MediaStatus"       -> {}            \* "Media URL returned HTTP ..."
      [] err = "UploadTimeout"     -> {"timeout"}   \* net/http, of mediaHTTP
      [] err = "UploadRefused"     -> {}            \* a status, or "info query timed out"
      [] err = "InvalidJID"        -> {}            \* of parseJID
      [] err = "Invalid"           -> {}            \* of buildMessage or fetchMedia

\* Mutant of isDisconnectError: a message that timed out is taken for one, too.
isDisconnectErrorTimedOut(err) ==
    err = "ErrMessageTimedOut" \/ Words(err) \cap {"closed", "disconnected", "timeout",
                                                   "eof", "broken pipe", "not connected"} # {}

isDisconnectError(err) ==
    Words(err) \cap {"closed", "disconnected", "timeout", "eof", "broken pipe",
                     "not connected"} # {}

FetchErrors == {"MediaTimeout", "MediaEOF", "MediaStatus"}
UploadErrors == {"UploadTimeout", "UploadRefused"}

\* The code of the AppError around an error.
Code(err) == CASE err \in FetchErrors    -> "MEDIA_FETCH_FAILED"
               [] err \in UploadErrors   -> "UPLOAD_FAILED"
               [] err = "InvalidJID"     -> "INVALID_JID"
               [] err = "Invalid"        -> "VALIDATION_ERROR"
               [] OTHER                  -> "SEND_FAILED"

Errors == FetchErrors \cup UploadErrors \cup
          {"none", "ErrNotConnected", "DisconnectedError", "ErrMessageTimedOut",
           "ErrServerReturnedError", "InvalidJID", "Invalid"}
Replies == {"none", "sent", "WHATSAPP_NOT_CONNECTED", "SERVICE_UNAVAILABLE",
            "INVALID_JID", "VALIDATION_ERROR", "MEDIA_FETCH_FAILED", "UPLOAD_FAILED",
            "SEND_FAILED"}

-----------------------------------------------------------------------------
\* A sender at the top of SendWithRetry's loop, and one that has its answer; the
\* client and the error of an attempt are local to it.
Attempt(n) == [pc |-> "get", try |-> n, c |-> None, err |-> "none", reply |-> "none"]
Answered(n, reply) == [Attempt(n) EXCEPT !.pc = "done", !.reply = reply]

Init ==
    /\ pool = 1 /\ up = {1} /\ waiting = {} /\ dialling = {} /\ late = 0
    /\ connects = 1 /\ blips = 0
    /\ snd = [s \in Senders |-> Attempt(0)]
    /\ delivered = [s \in Senders |-> {}]
    /\ misread = FALSE

Fail(s, err) == snd' = [snd EXCEPT ![s].pc = "fail", ![s].err = err]
Reply(s, reply) == snd' = [snd EXCEPT ![s] = Answered(snd[s].try, reply)]

\* Mutant of Interrupted: nothing ends the wait for the resent frame.
InterruptedOnce(w, c) ==
    [s \in Senders |->
        IF w[s].c = c /\ w[s].pc = "await" THEN [w[s] EXCEPT !.pc = "resend"] ELSE w[s]]

\* Senders w after client c has lost its connection: a response waiter gets the
\* end of the stream; the first time the frame is to be resent, the second time
\* SendMessage gives up.
Interrupted(w, c) ==
    [s \in Senders |->
        CASE w[s].c = c /\ w[s].pc = "await"   -> [w[s] EXCEPT !.pc = "resend"]
          [] w[s].c = c /\ w[s].pc = "reawait" ->
                [w[s] EXCEPT !.pc = "fail", !.err = "DisconnectedError"]
          [] OTHER -> w[s]]

\* The top of the loop: GetOrCreate and IsConnected.  A client that is not
\* connected is replaced, and the attempt is over; the last one ends the loop.
Get(s) ==
    /\ snd[s].pc = "get"
    /\ \/ /\ pool \in up
          /\ snd' = [snd EXCEPT ![s].c = pool, ![s].pc = "build"]
          /\ UNCHANGED pool
       \/ /\ pool \notin up
          /\ pool' = None
          /\ IF snd[s].try = MaxRetries - 1
             THEN Reply(s, "WHATSAPP_NOT_CONNECTED")
             ELSE snd' = [snd EXCEPT ![s] = Attempt(snd[s].try + 1)]
    /\ UNCHANGED <<up, auto, world>>

\* A recipient that is no JID; Send wraps the errors of parseJID in InvalidJID.
parseJID(s) == Fail(s, "InvalidJID")

\* fn up to SendMessage: parseJID and buildMessage, which refuse a request that
\* is not well-formed, and fetchMedia for media.
buildMessage(s) ==
    /\ snd[s].pc = "build"
    /\ \/ parseJID(s)
       \/ Fail(s, "Invalid")
       \/ s \in Media /\ \E err \in FetchErrors : Fail(s, err)
       \/ snd' = [snd EXCEPT ![s].pc = IF s \in Media THEN "upload" ELSE "send"]
    /\ UNCHANGED <<pool, up, auto, world>>

\* wc.Upload, after the media was fetched: it asks for a media host over the
\* client's connection unless it knows one, and posts the file there.
Upload(s) ==
    /\ snd[s].pc = "upload"
    /\ \/ snd' = [snd EXCEPT ![s].pc = "send"]
       \/ \E err \in UploadErrors : Fail(s, err)
       \/ snd[s].c \notin up /\ Fail(s, "ErrNotConnected")
    /\ UNCHANGED <<pool, up, auto, world>>

\* messageSendLock: a client has one SendMessage at a time from the frame to the
\* response, the resend included.
Locked(c) ==
    \E s \in Senders : snd[s].c = c /\ snd[s].pc \in {"await", "resend", "reawait"}

\* SendMessage up to the response: the frame goes out if there is a socket.
SendMessage(s) ==
    /\ snd[s].pc = "send"
    /\ ~Locked(snd[s].c)
    /\ IF snd[s].c \in up
       THEN snd' = [snd EXCEPT ![s].pc = "await"]
       ELSE Fail(s, "ErrNotConnected")
    /\ UNCHANGED <<pool, up, auto, world>>

\* retryFrame: the same frame again if the client is back within five seconds.
retryFrame(s) ==
    /\ snd[s].pc = "resend"
    /\ \/ snd[s].c \in up /\ snd' = [snd EXCEPT ![s].pc = "reawait"]
       \/ snd[s].c \notin up /\ Fail(s, "DisconnectedError")
    /\ UNCHANGED <<pool, up, auto, world>>

\* The server takes the frame: one message per ID.
Deliver(s) ==
    /\ snd[s].pc \in {"await", "reawait"} /\ snd[s].c \in up
    /\ delivered' = [delivered EXCEPT ![s] = @ \cup {snd[s].try}]
    /\ UNCHANGED <<pool, up, auto, connects, blips, snd, misread>>

\* Its acknowledgement arrives.
Acknowledge(s) ==
    /\ snd[s].pc \in {"await", "reawait"} /\ snd[s].c \in up
    /\ snd[s].try \in delivered[s]
    /\ Reply(s, "sent")
    /\ UNCHANGED <<pool, up, auto, world>>

\* An acknowledgement with an error code: the server may have refused the message,
\* or the frame that repeats it.
Refuse(s) ==
    /\ snd[s].pc \in {"await", "reawait"} /\ snd[s].c \in up
    /\ Fail(s, "ErrServerReturnedError")
    /\ UNCHANGED <<pool, up, auto, world>>

\* No response in time; the resent frame has no such limit.
TimedOut(s) ==
    /\ snd[s].pc = "await"
    /\ Fail(s, "ErrMessageTimedOut")
    /\ UNCHANGED <<pool, up, auto, world>>

\* Mutant of NextAttempt: one attempt too many.
NextAttemptOneMore(s, w) ==
    IF w[s].try = MaxRetries
    THEN [w EXCEPT ![s] = Answered(w[s].try, "SERVICE_UNAVAILABLE")]
    ELSE [w EXCEPT ![s] = Attempt(w[s].try + 1)]

\* What the loop does next after a failed attempt.
NextAttempt(s, w) ==
    IF w[s].try = MaxRetries - 1
    THEN [w EXCEPT ![s] = Answered(w[s].try, "SERVICE_UNAVAILABLE")]
    ELSE [w EXCEPT ![s] = Attempt(w[s].try + 1)]

\* Mutant of HandleError: the client stays as it is before the next attempt.
HandleErrorNoDisconnect(s) ==
    /\ snd[s].pc = "fail"
    /\ IF isDisconnectError(snd[s].err)
       THEN snd' = NextAttempt(s, snd)
       ELSE Reply(s, Code(snd[s].err))
    /\ UNCHANGED <<pool, up, auto, world>>

\* The error of fn: one about the connection disconnects the client that is now
\* in the pool, whoever else uses it; any other is returned.
HandleError(s) ==
    /\ snd[s].pc = "fail"
    /\ IF isDisconnectError(snd[s].err)
       THEN /\ up' = up \ {pool}
            /\ waiting' = waiting \ {pool}
            /\ late' = IF pool \in dialling THEN late + 1 ELSE late
            /\ snd' = NextAttempt(s, IF pool = None THEN snd ELSE Interrupted(snd, pool))
            /\ misread' = (misread \/ snd[s].err \in FetchErrors \cup UploadErrors)
       ELSE /\ Reply(s, Code(snd[s].err))
            /\ UNCHANGED <<up, waiting, late, misread>>
    /\ UNCHANGED <<pool, dialling, connects, blips, delivered>>

-----------------------------------------------------------------------------
(* The connection and the other requests *)

\* The connection breaks; autoReconnect starts.
Blip(c) ==
    /\ c \in up
    /\ blips < MaxBlips
    /\ blips' = blips + 1
    /\ up' = up \ {c} /\ waiting' = waiting \cup {c}
    /\ snd' = Interrupted(snd, c)
    /\ UNCHANGED <<pool, dialling, late, connects, delivered, misread>>

\* autoReconnect: a disconnect ends its delay, but nothing stops the dial after it.
autoReconnectWait(c) ==
    /\ c \in waiting
    /\ waiting' = waiting \ {c} /\ dialling' = dialling \cup {c}
    /\ UNCHANGED <<pool, up, late, snd, world>>

autoReconnectDial(c) ==
    /\ c \in dialling
    /\ dialling' = dialling \ {c} /\ up' = up \cup {c}
    /\ UNCHANGED <<pool, waiting, late, snd, world>>

\* A connect request while the pool's client is not connected: a new client.
Connect ==
    /\ pool \notin up
    /\ connects < MaxConnects
    /\ connects' = connects + 1
    /\ pool' = connects' /\ up' = up \cup {connects'}
    /\ UNCHANGED <<auto, blips, snd, delivered, misread>>

SenderStep(s) == \/ Get(s) \/ buildMessage(s) \/ Upload(s) \/ SendMessage(s)
                 \/ retryFrame(s) \/ HandleError(s)

Next ==
    \/ \E s \in Senders : SenderStep(s) \/ Deliver(s) \/ Acknowledge(s) \/ Refuse(s)
                          \/ TimedOut(s)
    \/ \E c \in Clients : Blip(c) \/ autoReconnectWait(c) \/ autoReconnectDial(c)
    \/ Connect

Spec == Init /\ [][Next]_vars

\* Goroutines run and the server takes and acknowledges what it is sent.
LiveSpec == Spec /\ \A s \in Senders :
                WF_vars(SenderStep(s)) /\ WF_vars(Deliver(s)) /\ WF_vars(Acknowledge(s))

-----------------------------------------------------------------------------
\* Every variable has its type.
TypeOK ==
    /\ pool \in Clients \cup {None} /\ up \subseteq Clients
    /\ waiting \subseteq Clients /\ dialling \subseteq Clients /\ late \in Nat
    /\ connects \in Clients /\ blips \in 0 .. MaxBlips
    /\ snd \in [Senders -> [pc : {"get", "build", "upload", "send", "await", "resend", "reawait",
                                  "fail", "done"},
                            try : 0 .. MaxRetries - 1, c : Clients \cup {None},
                            err : Errors, reply : Replies]]
    /\ delivered \in [Senders -> SUBSET (0 .. MaxRetries - 1)] /\ misread \in BOOLEAN

\* No request is sent again unless a connection was lost or an error of fetching
\* or uploading media was taken for a lost connection.  As long as neither has
\* happened to any sender, a message that timed out, was refused or waits for its
\* acknowledgement has one attempt, and no sender disconnects another one's client.
RetryHasCause == (\E s \in Senders : snd[s].try > 0) => blips > 0 \/ misread

\* A request is delivered at most once per client that connect requests have
\* dialled: SendWithRetry alone, however often the connection breaks and comes
\* back, delivers one message, because it disconnects the client it gives up on.
\* A disconnect that meets autoReconnect past its delay does not keep that up.
OncePerClient == \A s \in Senders : Cardinality(delivered[s]) <= connects + late

\* Every POST /messages is answered.
SendReturns == \A s \in Senders : <>(snd[s].reply # "none")

-----------------------------------------------------------------------------
(* What the documentation says and the code does not do *)

\* "Idempotent sends so retries don't double-deliver": one request is delivered
\* at most once.
NoDoubleDelivery == \A s \in Senders : Cardinality(delivered[s]) <= 1
=============================================================================
