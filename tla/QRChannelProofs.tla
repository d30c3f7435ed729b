-------------------------- MODULE QRChannelProofs --------------------------
(***************************************************************************)
(* Theorems about QRChannel: its types, that one goroutine ends the        *)
(* channel, and what may still follow the final item.                      *)
(***************************************************************************)
EXTENDS QRChannel, FiniteSetTheorems, TLAPS

Items == Finals \cup {"code"}
EmitterState == [pc : {"none", "check", "send", "timer", "final", "close", "hangup", "done"},
                 left : 0 .. Codes]
HandlerSteps == {"none", "check", "stop", "swap", "put", "close", "done"}
Row == [status : {"qr_code", "connected", "disconnected"}, jid : BOOLEAN, code : BOOLEAN]
Sent == (Events \cup {"emitter"}) \X Items

\* The parts of TypeOK; the emitter has a code when it sends one, and the handler of
\* "Scanned" never stops the codes nor closes the channel.
ClientTypes == conn \in {"up", "in", "down"} /\ expected \in BOOLEAN /\ paired \in BOOLEAN
ChannelTypes ==
    /\ closed \in BOOLEAN /\ stopQRs \in BOOLEAN /\ shut \in BOOLEAN
    /\ out \in Seq(Items) /\ Len(out) <= Capacity /\ sent \in Seq(Sent)
EmitterTypes == emitter \in EmitterState /\ (emitter.pc = "send" => emitter.left > 0)
HandlerTypes ==
    /\ handler \in [Events -> HandlerSteps]
    /\ handler["Scanned"] \in {"none", "check", "put", "done"}
RowTypes == listener \in {"dial", "range", "done"} /\ row \in Row /\ crashed \in BOOLEAN

TypeInv == ClientTypes /\ ChannelTypes /\ EmitterTypes /\ HandlerTypes /\ RowTypes

\* TypeInv is TypeOK and more.
LEMMA TypeInvDef == TypeInv => TypeOK
BY DEF TypeInv, TypeOK, ClientTypes, ChannelTypes, EmitterTypes, HandlerTypes, RowTypes,
   Items, EmitterState, HandlerSteps, Row, Sent

\* The initial state has the types.
LEMMA InitTypes == Init => TypeInv
<1> SUFFICES ASSUME Init PROVE TypeInv
  OBVIOUS
<1>1. ClientTypes /\ closed \in BOOLEAN /\ stopQRs \in BOOLEAN /\ shut \in BOOLEAN
  BY DEF Init, ClientTypes
<1>4. out \in Seq(Items) /\ Len(out) <= Capacity /\ sent \in Seq(Sent)
  BY BoundsAssumption DEF Init
<1>2. EmitterTypes
  BY BoundsAssumption DEF Init, EmitterTypes, EmitterState
<1>3. HandlerTypes /\ RowTypes
  BY DEF Init, HandlerTypes, HandlerSteps, RowTypes, Row, Events
<1> QED BY <1>1, <1>2, <1>3, <1>4 DEF TypeInv, ChannelTypes

\* A goroutine that starts to dispatch an event.
LEMMA DispatchTypes ==
    ASSUME TypeInv, NEW e \in Events, Dispatch(e)
    PROVE  HandlerTypes'
BY DEF TypeInv, HandlerTypes, HandlerSteps, Dispatch

\* The steps of the client.
LEMMA ClientStepTypes ==
    ASSUME TypeInv,
           Dial \/ PairDevice \/ Pair \/ PairFails \/ Login \/ Drop \/ Refuse \/ Scan \/ Disconnect
    PROVE  TypeInv'
<1>1. {"PairSuccess", "PairError", "Connected", "Disconnected", "Refused", "Scanned"} \subseteq Events
  BY DEF Events, Ending
<1>2. CASE Dial
  BY <1>2 DEF Dial, TypeInv, ClientTypes, ChannelTypes, EmitterTypes, HandlerTypes, RowTypes,
     Row, channel
<1>3. CASE PairDevice
  BY <1>3 DEF PairDevice, TypeInv, ClientTypes, ChannelTypes, EmitterTypes, EmitterState,
     HandlerTypes, RowTypes, channel, client
<1>4. CASE Pair \/ PairFails \/ Login \/ Drop \/ Refuse \/ Scan \/ Disconnect
  <2>1. HandlerTypes'
    BY <1>1, <1>4, DispatchTypes DEF Pair, PairFails, Login, Drop, Refuse, Scan, Disconnect,
       TypeInv, HandlerTypes
  <2>2. ClientTypes'
    BY <1>4 DEF Pair, PairFails, Login, Drop, Refuse, Scan, Disconnect, TypeInv, ClientTypes, client
  <2>3. UNCHANGED <<channel, emitter, listener, row, crashed>>
    BY <1>4 DEF Pair, PairFails, Login, Drop, Refuse, Scan, Disconnect
  <2> QED BY <2>1, <2>2, <2>3 DEF TypeInv, ChannelTypes, EmitterTypes, RowTypes, channel
<1> QED BY <1>2, <1>3, <1>4

\* An item goes into the channel.
LEMMA PutTypes ==
    ASSUME TypeInv, NEW who \in Events \cup {"emitter"}, NEW item \in Items, Put(who, item)
    PROVE  out' \in Seq(Items) /\ Len(out') <= Capacity /\ sent' \in Seq(Sent)
BY BoundsAssumption DEF TypeInv, ChannelTypes, Put, Sent

\* The steps of emitQRs.
LEMMA EmitTypes ==
    ASSUME TypeInv, EmitStep
    PROVE  TypeInv'
<1>1. HandlerTypes' /\ RowTypes'
  BY DEF EmitStep, EmitCheck, EmitSend, EmitWait, EmitFinal, EmitClose, EmitHangup,
     EmitterOnly, TypeInv, HandlerTypes, RowTypes
<1>2. ClientTypes'
  BY DEF EmitStep, EmitCheck, EmitSend, EmitWait, EmitFinal, EmitClose, EmitHangup,
     EmitterOnly, TypeInv, ClientTypes, client
<1>3. EmitterTypes'
  <2> USE DEF Emitter, TypeInv, EmitterTypes, EmitterState
  <2>1. CASE EmitCheck
    BY <2>1 DEF EmitCheck
  <2>2. CASE EmitSend
    BY <2>2, BoundsAssumption DEF EmitSend
  <2>3. CASE EmitWait
    BY <2>3 DEF EmitWait
  <2>4. CASE EmitFinal \/ EmitClose \/ EmitHangup
    BY <2>4 DEF EmitFinal, EmitClose, EmitHangup
  <2> QED BY <2>1, <2>2, <2>3, <2>4 DEF EmitStep
<1>4. closed' \in BOOLEAN /\ stopQRs' \in BOOLEAN /\ shut' \in BOOLEAN
  BY DEF EmitStep, EmitCheck, EmitSend, EmitWait, EmitFinal, EmitClose, EmitHangup,
     EmitterOnly, TypeInv, ChannelTypes, channel
<1>5. out' \in Seq(Items) /\ Len(out') <= Capacity /\ sent' \in Seq(Sent)
  <2>1. CASE UNCHANGED <<out, sent>>
    BY <2>1 DEF TypeInv, ChannelTypes
  <2>2. CASE Put("emitter", "code") \/ Put("emitter", "timeout")
    BY <2>2, PutTypes DEF Items, Finals
  <2> QED BY <2>1, <2>2 DEF EmitStep, EmitCheck, EmitSend, EmitWait, EmitFinal, EmitClose,
          EmitHangup, channel
<1> QED BY <1>1, <1>2, <1>3, <1>4, <1>5 DEF TypeInv, ChannelTypes

\* The steps of handleEvent.
LEMMA HandleTypes ==
    ASSUME TypeInv, NEW e \in Events, HandleStep(e)
    PROVE  TypeInv'
<1>1. ClientTypes' /\ EmitterTypes' /\ RowTypes'
  BY DEF HandleStep, HandleCheck, HandleStop, HandleSwap, HandlePut, HandleClose, HandlerOnly,
     client, TypeInv, ClientTypes, EmitterTypes, RowTypes
<1>2. HandlerTypes'
  <2>1. handler' \in [Events -> HandlerSteps]
    BY DEF HandleStep, HandleCheck, HandleStop, HandleSwap, HandlePut, HandleClose, Handler,
       TypeInv, HandlerTypes, HandlerSteps
  <2>2. CASE e = "Scanned"
    <3>1. HandleCheck(e) \/ HandlePut(e)
      BY <2>2 DEF HandleStep, HandleStop, HandleSwap, HandleClose, TypeInv, HandlerTypes
    <3>2. handler'[e] \in {"put", "done"}
      BY <2>2, <3>1 DEF HandleCheck, HandlePut, Handler, TypeInv, HandlerTypes
    <3> QED BY <2>1, <2>2, <3>2 DEF HandlerTypes
  <2>3. CASE e # "Scanned"
    <3>1. handler'["Scanned"] = handler["Scanned"]
      BY <2>3 DEF HandleStep, HandleCheck, HandleStop, HandleSwap, HandlePut, HandleClose,
         Handler, TypeInv, HandlerTypes, Events
    <3> QED BY <2>1, <3>1 DEF TypeInv, HandlerTypes
  <2> QED BY <2>2, <2>3
<1>3. closed' \in BOOLEAN /\ stopQRs' \in BOOLEAN /\ shut' \in BOOLEAN
  BY DEF HandleStep, HandleCheck, HandleStop, HandleSwap, HandlePut, HandleClose, TypeInv,
     ChannelTypes, channel
<1>4. out' \in Seq(Items) /\ Len(out') <= Capacity /\ sent' \in Seq(Sent)
  <2>1. CASE UNCHANGED <<out, sent>>
    BY <2>1 DEF TypeInv, ChannelTypes
  <2>2. CASE Put(e, Item(e))
    <3>1. Item(e) \in Items
      BY DEF Item, Items, Finals, Events, Ending
    <3> QED BY <2>2, <3>1, PutTypes
  <2> QED BY <2>1, <2>2 DEF HandleStep, HandleCheck, HandleStop, HandleSwap, HandlePut,
          HandleClose, channel
<1> QED BY <1>1, <1>2, <1>3, <1>4 DEF TypeInv, ChannelTypes

\* listenQR.
LEMMA ListenTypes ==
    ASSUME TypeInv, Listen
    PROVE  TypeInv'
<1>1. ClientTypes' /\ EmitterTypes' /\ HandlerTypes' /\ crashed' \in BOOLEAN
  BY DEF Listen, client, TypeInv, ClientTypes, EmitterTypes, HandlerTypes, RowTypes
<1>2. CASE out # <<>> /\ row' = RowAfter(Head(out)) /\ out' = Tail(out)
           /\ listener' = IF Head(out) \in {"timeout", "error"} THEN "done" ELSE "range"
  <2>1. Head(out) \in Items /\ out' \in Seq(Items) /\ Len(out') <= Capacity
    BY <1>2, BoundsAssumption DEF TypeInv, ChannelTypes
  <2>2. row' \in Row
    BY <1>2, <2>1 DEF RowAfter, TypeInv, RowTypes, ClientTypes, Row, Items, Finals
  <2> QED BY <1>1, <1>2, <2>1, <2>2 DEF Listen, TypeInv, ChannelTypes, RowTypes
<1>3. CASE listener' = "done" /\ UNCHANGED <<row, out>>
  BY <1>1, <1>3 DEF Listen, TypeInv, ChannelTypes, RowTypes
<1> QED BY <1>2, <1>3 DEF Listen

\* Every step keeps the types.
LEMMA StepTypes == TypeInv /\ [Next]_vars => TypeInv'
<1>1. TypeInv /\ UNCHANGED vars => TypeInv'
  BY DEF vars, TypeInv, ClientTypes, ChannelTypes, EmitterTypes, HandlerTypes, RowTypes
<1> QED BY <1>1, ClientStepTypes, EmitTypes, HandleTypes, ListenTypes DEF Next

\* For every number of codes and every size of the buffer, the variables keep their
\* types; in particular the buffer of the channel keeps its bound.
THEOREM QRTypeCorrect == Spec => []TypeOK
BY InitTypes, StepTypes, TypeInvDef, PTL DEF Spec

-----------------------------------------------------------------------------
(* One goroutine ends the channel *)

Actors == Ending \cup {"emitter"}

\* Who is about to send the final item, and who is about to close the channel.
Sending(a) == IF a = "emitter" THEN emitter.pc = "final" ELSE handler[a] = "put"
Closing(a) == IF a = "emitter" THEN emitter.pc = "close" ELSE handler[a] = "close"
Holder(a) == Sending(a) \/ Closing(a)

\* Only the goroutine that set the flag holds the end of the channel, until it has
\* closed it, and there is no final item before it has sent one.
SwapInv ==
    /\ ~closed => ~shut /\ FinalAt = {} /\ \A a \in Actors : ~Holder(a)
    /\ \A a, b \in Actors : Holder(a) /\ Holder(b) => a = b
    /\ shut => \A a \in Actors : ~Holder(a)
    /\ \A a \in Actors : Sending(a) => FinalAt = {}
    /\ \A i, j \in FinalAt : i = j

\* A set with at most one element.
LEMMA AtMostOne ==
    ASSUME NEW S, \A x, y \in S : x = y
    PROVE  Cardinality(S) <= 1
<1>1. CASE S = {}
  BY <1>1, FS_EmptySet
<1>2. ASSUME NEW x \in S PROVE Cardinality(S) <= 1
  <2>1. S = {x}
    BY <1>2
  <2> QED BY <2>1, FS_Singleton
<1> QED BY <1>1, <1>2

\* SwapInv says what OneFinalItem says.
LEMMA SwapImplies == SwapInv => OneFinalItem
<1> SUFFICES ASSUME SwapInv PROVE OneFinalItem
  OBVIOUS
<1>1. Cardinality(FinalAt) <= 1
  BY AtMostOne DEF SwapInv
<1> DEFINE H == {e \in Ending : handler[e] \in {"put", "close"}}
                \cup {x \in {"emitter"} : emitter.pc \in {"final", "close"}}
<1>2. \A a \in H : a \in Actors /\ Holder(a)
  BY DEF Actors, Holder, Sending, Closing, Ending
<1>3. Cardinality(H) <= 1
  BY <1>2, AtMostOne DEF SwapInv
<1>4. shut => closed /\ \A e \in Ending : handler[e] \notin {"put", "close"}
  BY DEF SwapInv, Actors, Holder, Sending, Closing, Ending
<1> QED BY <1>1, <1>3, <1>4 DEF OneFinalItem

\* A step by which nobody becomes a holder and nothing is sent or closed.
LEMMA Idles ==
    ASSUME SwapInv, closed' = closed, shut' = shut, sent' = sent,
           \A a \in Actors : (Sending(a)' => Sending(a)) /\ (Closing(a)' => Closing(a))
    PROVE  SwapInv'
<1>1. FinalAt' = FinalAt
  BY DEF FinalAt
<1>2. \A a \in Actors : Holder(a)' => Holder(a)
  BY DEF Holder
<1> QED BY <1>1, <1>2 DEF SwapInv

\* A swap of the flag: the one that found it clear becomes the holder.
LEMMA Swaps ==
    ASSUME SwapInv, NEW a \in Actors, closed' = TRUE, shut' = shut, sent' = sent,
           \A b \in Actors : b # a => (Sending(b)' => Sending(b)) /\ (Closing(b)' => Closing(b)),
           closed => ~Holder(a)'
    PROVE  SwapInv'
<1>1. FinalAt' = FinalAt
  BY DEF FinalAt
<1>2. \A b \in Actors : b # a => (Holder(b)' => Holder(b))
  BY DEF Holder
<1>3. CASE closed
  BY <1>1, <1>2, <1>3 DEF SwapInv, Holder
<1>4. CASE ~closed
  BY <1>1, <1>2, <1>4 DEF SwapInv, Holder
<1> QED BY <1>3, <1>4

\* What an item adds to the places of final items.
LEMMA FinalAfter ==
    ASSUME TypeInv, NEW who \in Events \cup {"emitter"}, NEW item \in Items, Put(who, item)
    PROVE  /\ item \notin Finals \/ who = "Scanned" => FinalAt' = FinalAt
           /\ FinalAt = {} => \A i, j \in FinalAt' : i = j
<1>1. sent \in Seq(Sent) /\ sent' = Append(sent, <<who, item>>)
  BY DEF TypeInv, ChannelTypes, Put
<1>2. /\ Len(sent) \in Nat /\ Len(sent') = Len(sent) + 1 /\ sent'[Len(sent) + 1] = <<who, item>>
      /\ \A i \in 1 .. Len(sent) : sent'[i] = sent[i]
  BY <1>1
<1>3. \A i \in FinalAt : i \in FinalAt'
  BY <1>2 DEF FinalAt
<1>4. \A i \in FinalAt' : i \in FinalAt \/ i = Len(sent) + 1
  BY <1>2 DEF FinalAt
<1>5. Len(sent) + 1 \in FinalAt' => item \in Finals /\ who # "Scanned"
  BY <1>2 DEF FinalAt
<1>6. ASSUME item \notin Finals \/ who = "Scanned" PROVE FinalAt' = FinalAt
  <2>1. \A i \in FinalAt' : i \in FinalAt
    BY <1>4, <1>5, <1>6
  <2> QED BY <1>3, <2>1
<1> QED BY <1>4, <1>6

\* The goroutine that holds the end of the channel sends the final item.
LEMMA FinalSent ==
    ASSUME TypeInv, SwapInv, NEW a \in Actors, NEW item \in Items, Put(a, item), Sending(a),
           ~Sending(a)', closed' = closed, shut' = shut,
           \A b \in Actors : b # a => (Holder(b)' => Holder(b)) /\ (Sending(b)' => Sending(b))
    PROVE  SwapInv'
<1>1. Holder(a) /\ FinalAt = {} /\ closed /\ ~shut
  BY DEF SwapInv, Holder
<1>2. \A b \in Actors : b # a => ~Holder(b)' /\ ~Sending(b)'
  BY <1>1 DEF SwapInv, Holder
<1>3. \A i, j \in FinalAt' : i = j
  BY <1>1, FinalAfter DEF Actors, Events
<1> QED BY <1>1, <1>2, <1>3 DEF SwapInv

\* It closes the channel.
LEMMA Closes ==
    ASSUME SwapInv, NEW a \in Actors, Closing(a), ~Holder(a)', shut' = TRUE, closed' = closed,
           sent' = sent, \A b \in Actors : b # a => (Holder(b)' => Holder(b))
    PROVE  SwapInv'
<1>1. FinalAt' = FinalAt
  BY DEF FinalAt
<1>2. Holder(a) /\ closed
  BY DEF SwapInv, Holder
<1>3. \A b \in Actors : ~Holder(b)'
  BY <1>2 DEF SwapInv
<1> QED BY <1>1, <1>2, <1>3 DEF SwapInv, Holder

\* An item that is no final one.
LEMMA OtherSent ==
    ASSUME TypeInv, SwapInv, NEW who \in Events \cup {"emitter"}, NEW item \in Items,
           Put(who, item), item \notin Finals \/ who = "Scanned", closed' = closed, shut' = shut,
           \A a \in Actors : (Sending(a)' => Sending(a)) /\ (Closing(a)' => Closing(a))
    PROVE  SwapInv'
<1>1. FinalAt' = FinalAt
  BY FinalAfter
<1>2. \A a \in Actors : Holder(a)' => Holder(a)
  BY DEF Holder
<1> QED BY <1>1, <1>2 DEF SwapInv

\* The steps of emitQRs: it becomes a holder by a swap only.
LEMMA EmitSwaps ==
    ASSUME TypeInv, SwapInv, EmitStep
    PROVE  SwapInv'
<1> USE DEF Sending, Closing
<1>0. "emitter" \in Actors /\ "emitter" \notin Ending /\ handler' = handler
  BY DEF Actors, Ending, EmitStep, EmitCheck, EmitSend, EmitWait, EmitFinal, EmitClose,
     EmitHangup, EmitterOnly
<1>1. \A b \in Actors : b # "emitter" =>
          (Sending(b)' <=> Sending(b)) /\ (Closing(b)' <=> Closing(b)) /\ (Holder(b)' <=> Holder(b))
  BY <1>0 DEF Holder
<1>2. ASSUME NEW pc, Emitter(pc) PROVE emitter'.pc = pc
  BY <1>2 DEF Emitter, TypeInv, EmitterTypes, EmitterState
<1>3. CASE EmitCheck
  <2>1. CASE emitter.left = 0
    BY <1>0, <1>1, <1>2, <1>3, <2>1, Swaps DEF EmitCheck, Holder
  <2>2. CASE emitter.left # 0
    <3>1. emitter'.pc \in {"done", "send"} /\ UNCHANGED <<closed, shut, sent>>
      BY <1>2, <1>3, <2>2 DEF EmitCheck
    <3> QED BY <1>1, <3>1, Idles
  <2> QED BY <2>1, <2>2
<1>4. CASE EmitSend
  <2>1. CASE Put("emitter", "code") /\ emitter' = [pc |-> "timer", left |-> emitter.left - 1]
             /\ UNCHANGED closed
    <3>1. "code" \in Items /\ "code" \notin Finals /\ shut' = shut
      BY <1>4 DEF EmitSend, Items, Finals
    <3> QED BY <1>1, <2>1, <3>1, OtherSent
  <2>2. CASE closed' = TRUE /\ Emitter(IF closed THEN "done" ELSE "close") /\ UNCHANGED sent
    BY <1>0, <1>1, <1>2, <1>4, <2>2, Swaps DEF EmitSend, Holder
  <2>3. CASE UNCHANGED <<closed, sent, emitter>>
    BY <1>1, <1>4, <2>3, Idles DEF EmitSend
  <2> QED BY <1>4, <2>1, <2>2, <2>3 DEF EmitSend
<1>5. CASE EmitWait
  <2>1. emitter'.pc \in {"check", "done"} /\ UNCHANGED <<closed, shut, sent>>
    BY <1>2, <1>5 DEF EmitWait
  <2> QED BY <1>1, <2>1, Idles
<1>6. CASE EmitFinal
  <2>1. "timeout" \in Items /\ emitter'.pc = "close" /\ UNCHANGED <<closed, shut>>
    BY <1>2, <1>6 DEF EmitFinal, Items, Finals
  <2> QED BY <1>0, <1>1, <1>6, <2>1, FinalSent DEF EmitFinal
<1>7. CASE EmitClose
  <2>1. emitter'.pc = "hangup" /\ shut' = TRUE /\ UNCHANGED <<closed, sent>>
    BY <1>2, <1>7 DEF EmitClose
  <2> QED BY <1>0, <1>1, <1>7, <2>1, Closes DEF EmitClose, Holder
<1>8. CASE EmitHangup
  <2>1. emitter'.pc = "done" /\ UNCHANGED <<closed, shut, sent>>
    BY <1>2, <1>8 DEF EmitHangup, channel
  <2> QED BY <1>1, <2>1, Idles
<1> QED BY <1>3, <1>4, <1>5, <1>6, <1>7, <1>8 DEF EmitStep

\* The steps of handleEvent.
LEMMA HandleSwaps ==
    ASSUME TypeInv, SwapInv, NEW e \in Events, HandleStep(e)
    PROVE  SwapInv'
<1> USE DEF Sending, Closing
<1>0. emitter' = emitter
  BY DEF HandleStep, HandleCheck, HandleStop, HandleSwap, HandlePut, HandleClose, HandlerOnly
<1>1. ASSUME NEW pc, Handler(e, pc)
      PROVE  handler'[e] = pc /\ \A f \in Events : f # e => handler'[f] = handler[f]
  BY <1>1 DEF Handler, TypeInv, HandlerTypes
<1>2. Ending \subseteq Events /\ "emitter" \notin Events /\ (e \in Ending <=> e # "Scanned")
  BY DEF Events, Ending
<1>3. \A b \in Actors : b # e =>
          (Sending(b)' <=> Sending(b)) /\ (Closing(b)' <=> Closing(b)) /\ (Holder(b)' <=> Holder(b))
  BY <1>0, <1>1, <1>2 DEF Actors, Holder, HandleStep, HandleCheck, HandleStop, HandleSwap,
     HandlePut, HandleClose
<1>4. ASSUME e \notin Actors PROVE e = "Scanned" /\ \A b \in Actors : b # e
  BY <1>2, <1>4 DEF Actors
<1>5. CASE HandleCheck(e)
  <2>1. UNCHANGED <<closed, shut, sent>> /\ (handler'[e] = "put" => e = "Scanned")
        /\ handler'[e] # "close"
    BY <1>1, <1>5 DEF HandleCheck, channel
  <2> QED BY <1>2, <1>3, <2>1, Idles DEF Actors
<1>6. CASE HandleStop(e)
  <2>1. UNCHANGED <<closed, shut, sent>> /\ handler'[e] \in {"done", "swap"}
    BY <1>1, <1>6 DEF HandleStop
  <2> QED BY <1>2, <1>3, <2>1, Idles DEF Actors
<1>7. CASE HandleSwap(e)
  <2>1. UNCHANGED <<shut, sent>> /\ closed' = TRUE
        /\ handler'[e] = IF closed THEN "done" ELSE "put"
    BY <1>1, <1>7 DEF HandleSwap
  <2>2. CASE e \in Actors
    BY <1>2, <1>3, <2>1, <2>2, Swaps DEF Holder
  <2>3. e \in Actors
    BY <1>4, <1>7 DEF HandleSwap, TypeInv, HandlerTypes
  <2> QED BY <2>2, <2>3
<1>8. CASE HandlePut(e)
  <2>0. Item(e) \in Items
    BY DEF Item, Items, Finals, Events, Ending
  <2>1. CASE handler'[e] = "done" /\ UNCHANGED <<closed, shut, sent>>
    BY <1>2, <1>3, <2>1, Idles DEF Actors
  <2>2. CASE Put(e, Item(e)) /\ e = "Scanned" /\ handler'[e] = "done"
    BY <1>2, <1>3, <1>8, <2>0, <2>2, OtherSent DEF HandlePut, Actors
  <2>3. CASE Put(e, Item(e)) /\ e # "Scanned" /\ handler'[e] = "close"
    BY <1>2, <1>3, <1>8, <2>0, <2>3, FinalSent DEF HandlePut, Actors
  <2> QED BY <1>1, <1>8, <2>1, <2>2, <2>3 DEF HandlePut
<1>9. CASE HandleClose(e)
  <2>1. handler[e] = "close" /\ handler'[e] = "done" /\ shut' = TRUE /\ UNCHANGED <<closed, sent>>
    BY <1>1, <1>9 DEF HandleClose
  <2>2. CASE e \in Actors
    BY <1>2, <1>3, <2>1, <2>2, Closes DEF Holder
  <2>3. e \in Actors
    BY <1>4, <2>1 DEF TypeInv, HandlerTypes
  <2> QED BY <2>2, <2>3
<1> QED BY <1>5, <1>6, <1>7, <1>8, <1>9 DEF HandleStep

\* A goroutine that starts to dispatch an event holds nothing.
LEMMA DispatchHolds ==
    ASSUME TypeInv, NEW e \in Events, Dispatch(e), NEW f \in Ending
    PROVE  /\ handler'[f] = "put" => handler[f] = "put"
           /\ handler'[f] = "close" => handler[f] = "close"
BY DEF TypeInv, HandlerTypes, Dispatch, Events

\* The steps of the client and of listenQR make nobody a holder.
LEMMA ClientSwaps ==
    ASSUME TypeInv, SwapInv,
           \/ Dial \/ PairDevice \/ Pair \/ PairFails \/ Login \/ Drop \/ Refuse \/ Scan
           \/ Disconnect \/ Listen \/ UNCHANGED vars
    PROVE  SwapInv'
<1>1. closed' = closed /\ shut' = shut /\ sent' = sent
  BY DEF Dial, PairDevice, Pair, PairFails, Login, Drop, Refuse, Scan, Disconnect, Listen,
     channel, vars
<1>2. \/ emitter' = emitter
      \/ emitter'.pc = "check"
  BY DEF Dial, PairDevice, Pair, PairFails, Login, Drop, Refuse, Scan, Disconnect, Listen,
     vars, TypeInv, EmitterTypes, EmitterState
<1>3. handler' = handler \/ \E e \in Events : Dispatch(e)
  BY DEF Dial, PairDevice, Pair, PairFails, Login, Drop, Refuse, Scan, Disconnect, Listen,
     vars, Events, Ending
<1>4. \A f \in Ending : /\ handler'[f] = "put" => handler[f] = "put"
                        /\ handler'[f] = "close" => handler[f] = "close"
  BY <1>3, DispatchHolds
<1>5. \A a \in Actors : (Sending(a)' => Sending(a)) /\ (Closing(a)' => Closing(a))
  BY <1>2, <1>4 DEF Actors, Sending, Closing
<1> QED BY <1>1, <1>5, Idles

\* Every step keeps SwapInv.
LEMMA StepSwap == TypeInv /\ SwapInv /\ [Next]_vars => SwapInv'
BY ClientSwaps, EmitSwaps, HandleSwaps DEF Next

\* The initial state has nothing sent and nobody at the end of the channel.
LEMMA InitSwap == Init => SwapInv
<1> SUFFICES ASSUME Init PROVE SwapInv
  OBVIOUS
<1>1. FinalAt = {}
  BY DEF Init, FinalAt
<1>2. \A a \in Actors : ~Sending(a) /\ ~Closing(a)
  BY DEF Init, Actors, Sending, Closing, Events
<1> QED BY <1>1, <1>2 DEF Init, SwapInv, Holder

\* For every number of codes and every size of the buffer, one goroutine at most ends
\* the channel: one final item, one close, and none of the handlers that set the flag
\* sends on the closed channel.
THEOREM OneEnding == Spec => []OneFinalItem
BY InitTypes, StepTypes, InitSwap, StepSwap, SwapImplies, PTL DEF Spec

-----------------------------------------------------------------------------
(* What follows the final item *)

\* The codes that were sent after the final item, and the reports of a scan.
LateCodes == {j \in 1 .. Len(sent) : sent[j][2] = "code" /\ \E i \in FinalAt : i < j}
Scans == {j \in 1 .. Len(sent) : sent[j][1] = "Scanned"}

\* A late code was the emitter's last: it was past its check when the flag was set, and
\* the next check ends it.  The event of a scan is dispatched once.
LateInv ==
    /\ emitter.pc = "send" => LateCodes = {}
    /\ \A i, j \in LateCodes : i = j
    /\ handler["Scanned"] # "done" => Scans = {}
    /\ \A i, j \in Scans : i = j

\* LateInv says what LateItems says.
LEMMA LateImplies ==
    ASSUME TypeInv, LateInv
    PROVE  LateItems
<1> SUFFICES ASSUME NEW i \in FinalAt
             PROVE  /\ Cardinality({j \in i + 1 .. Len(sent) : sent[j][2] = "code"}) <= 1
                    /\ Cardinality({j \in i + 1 .. Len(sent) : sent[j][1] = "Scanned"}) <= 1
  BY DEF LateItems
<1>1. i \in Nat /\ i >= 1 /\ Len(sent) \in Nat
  BY DEF FinalAt, TypeInv, ChannelTypes
<1>2. \A j \in {k \in i + 1 .. Len(sent) : sent[k][2] = "code"} : j \in LateCodes
  BY <1>1 DEF LateCodes
<1>3. \A j \in {k \in i + 1 .. Len(sent) : sent[k][1] = "Scanned"} : j \in Scans
  BY <1>1 DEF Scans
<1>4. Cardinality({j \in i + 1 .. Len(sent) : sent[j][2] = "code"}) <= 1
  BY <1>2, AtMostOne DEF LateInv
<1>5. Cardinality({j \in i + 1 .. Len(sent) : sent[j][1] = "Scanned"}) <= 1
  BY <1>3, AtMostOne DEF LateInv
<1> QED BY <1>4, <1>5

\* What an item adds to the late codes and to the scans: itself, if it is one.
LEMMA LateAfter ==
    ASSUME TypeInv, NEW who \in Events \cup {"emitter"}, NEW item \in Items, Put(who, item)
    PROVE  /\ \A j \in LateCodes' : j \in LateCodes \/ (j = Len(sent) + 1 /\ item = "code")
           /\ \A j \in Scans' : j \in Scans \/ (j = Len(sent) + 1 /\ who = "Scanned")
<1>1. sent \in Seq(Sent) /\ sent' = Append(sent, <<who, item>>)
  BY DEF TypeInv, ChannelTypes, Put
<1>2. /\ Len(sent) \in Nat /\ Len(sent') = Len(sent) + 1 /\ sent'[Len(sent) + 1] = <<who, item>>
      /\ \A i \in 1 .. Len(sent) : sent'[i] = sent[i]
  BY <1>1
<1>3. \A i \in FinalAt' : i \in FinalAt \/ i = Len(sent) + 1
  BY <1>2 DEF FinalAt
<1>4. ASSUME NEW j \in LateCodes' PROVE j \in LateCodes \/ (j = Len(sent) + 1 /\ item = "code")
  <2>1. j \in 1 .. Len(sent) + 1 /\ sent'[j][2] = "code" /\ \E i \in FinalAt' : i < j
    BY <1>2, <1>4 DEF LateCodes
  <2>2. CASE j = Len(sent) + 1
    BY <1>2, <2>1, <2>2
  <2>3. CASE j # Len(sent) + 1
    <3>1. j \in 1 .. Len(sent) /\ sent[j][2] = "code"
      BY <1>2, <2>1, <2>3
    <3>2. \E i \in FinalAt : i < j
      BY <1>2, <1>3, <2>1, <3>1
    <3> QED BY <3>1, <3>2 DEF LateCodes
  <2> QED BY <2>2, <2>3
<1>5. ASSUME NEW j \in Scans' PROVE j \in Scans \/ (j = Len(sent) + 1 /\ who = "Scanned")
  BY <1>2, <1>5 DEF Scans
<1> QED BY <1>4, <1>5

\* A step that sends nothing: the emitter does not get past a check, or there is no
\* final item yet.
LEMMA LateKept ==
    ASSUME LateInv, sent' = sent,
           emitter'.pc = "send" => emitter.pc = "send" \/ FinalAt = {},
           handler'["Scanned"] # "done" => handler["Scanned"] # "done"
    PROVE  LateInv'
<1>1. FinalAt' = FinalAt /\ LateCodes' = LateCodes /\ Scans' = Scans
  BY DEF FinalAt, LateCodes, Scans
<1>2. FinalAt = {} => LateCodes = {}
  BY DEF LateCodes
<1> QED BY <1>1, <1>2 DEF LateInv

\* The steps of emitQRs.
LEMMA EmitLate ==
    ASSUME TypeInv, SwapInv, LateInv, EmitStep
    PROVE  LateInv'
<1>0. handler' = handler
  BY DEF EmitStep, EmitCheck, EmitSend, EmitWait, EmitFinal, EmitClose, EmitHangup, EmitterOnly
<1>1. ASSUME NEW pc, Emitter(pc) PROVE emitter'.pc = pc
  BY <1>1 DEF Emitter, TypeInv, EmitterTypes, EmitterState
<1>2. CASE EmitCheck
  <2>1. sent' = sent /\ (emitter'.pc = "send" => ~closed)
    BY <1>1, <1>2 DEF EmitCheck
  <2> QED BY <1>0, <2>1, LateKept DEF SwapInv
<1>3. CASE EmitSend
  <2>1. CASE Put("emitter", "code") /\ emitter' = [pc |-> "timer", left |-> emitter.left - 1]
    <3>1. LateCodes = {} /\ emitter'.pc # "send"
      BY <1>3, <2>1 DEF EmitSend, LateInv
    <3>2. /\ \A j \in LateCodes' : j \in LateCodes \/ j = Len(sent) + 1
          /\ \A j \in Scans' : j \in Scans
      BY <2>1, LateAfter DEF Items, Events, Ending
    <3> QED BY <1>0, <3>1, <3>2 DEF LateInv
  <2>2. CASE closed' = TRUE /\ Emitter(IF closed THEN "done" ELSE "close") /\ UNCHANGED sent
    BY <1>0, <1>1, <2>2, LateKept
  <2>3. CASE UNCHANGED <<sent, emitter>>
    BY <1>0, <2>3, LateKept
  <2> QED BY <1>3, <2>1, <2>2, <2>3 DEF EmitSend
<1>4. CASE EmitFinal
  <2>1. /\ \A j \in LateCodes' : j \in LateCodes
        /\ \A j \in Scans' : j \in Scans
    BY <1>4, LateAfter DEF EmitFinal, Items, Finals, Events, Ending
  <2>2. emitter'.pc = "close"
    BY <1>1, <1>4 DEF EmitFinal
  <2> QED BY <1>0, <2>1, <2>2 DEF LateInv
<1>5. CASE EmitWait \/ EmitClose \/ EmitHangup
  <2>1. sent' = sent /\ emitter'.pc # "send"
    BY <1>1, <1>5 DEF EmitWait, EmitClose, EmitHangup, channel
  <2> QED BY <1>0, <2>1, LateKept
<1> QED BY <1>2, <1>3, <1>4, <1>5 DEF EmitStep

\* The steps of handleEvent: none of its items is a code.
LEMMA HandleLate ==
    ASSUME TypeInv, LateInv, NEW e \in Events, HandleStep(e)
    PROVE  LateInv'
<1>0. emitter' = emitter
  BY DEF HandleStep, HandleCheck, HandleStop, HandleSwap, HandlePut, HandleClose, HandlerOnly
<1>1. ASSUME NEW pc, Handler(e, pc)
      PROVE  handler'[e] = pc /\ \A f \in Events : f # e => handler'[f] = handler[f]
  BY <1>1 DEF Handler, TypeInv, HandlerTypes
<1>2. "Scanned" \in Events
  BY DEF Events
<1>3. CASE HandleCheck(e) \/ HandleStop(e) \/ HandleSwap(e) \/ HandleClose(e)
  <2>1. sent' = sent /\ handler[e] # "done"
    BY <1>3 DEF HandleCheck, HandleStop, HandleSwap, HandleClose, channel
  <2>2. \E pc : Handler(e, pc)
    BY <1>3 DEF HandleCheck, HandleStop, HandleSwap, HandleClose
  <2>3. handler["Scanned"] = "done" => handler'["Scanned"] = "done"
    BY <1>1, <1>2, <2>1, <2>2
  <2> QED BY <1>0, <2>1, <2>3, LateKept
<1>4. CASE HandlePut(e)
  <2>0. Item(e) \in Items /\ Item(e) # "code"
    BY DEF Item, Items, Finals, Events, Ending
  <2>1. CASE UNCHANGED sent /\ Handler(e, "done")
    BY <1>0, <1>1, <1>2, <2>1, LateKept
  <2>2. CASE Put(e, Item(e)) /\ Handler(e, IF e = "Scanned" THEN "done" ELSE "close")
    <3>1. /\ \A j \in LateCodes' : j \in LateCodes
          /\ \A j \in Scans' : j \in Scans \/ (j = Len(sent) + 1 /\ e = "Scanned")
      BY <2>0, <2>2, LateAfter
    <3>2. CASE e = "Scanned"
      <4>1. Scans = {} /\ handler'["Scanned"] = "done"
        BY <1>1, <1>4, <2>2, <3>2 DEF HandlePut, LateInv
      <4> QED BY <1>0, <3>1, <4>1 DEF LateInv
    <3>3. CASE e # "Scanned"
      BY <1>0, <1>1, <1>2, <2>2, <3>1, <3>3 DEF LateInv
    <3> QED BY <3>2, <3>3
  <2> QED BY <1>4, <2>1, <2>2 DEF HandlePut
<1> QED BY <1>3, <1>4 DEF HandleStep

\* The steps of the client and of listenQR send nothing.
LEMMA ClientLate ==
    ASSUME TypeInv, LateInv,
           \/ Dial \/ PairDevice \/ Pair \/ PairFails \/ Login \/ Drop \/ Refuse \/ Scan
           \/ Disconnect \/ Listen \/ UNCHANGED vars
    PROVE  LateInv'
<1>1. sent' = sent
  BY DEF Dial, PairDevice, Pair, PairFails, Login, Drop, Refuse, Scan, Disconnect, Listen,
     channel, vars
<1>2. emitter' = emitter \/ emitter'.pc = "check"
  BY DEF Dial, PairDevice, Pair, PairFails, Login, Drop, Refuse, Scan, Disconnect, Listen,
     vars, TypeInv, EmitterTypes, EmitterState
<1>3. handler' = handler \/ \E e \in Events : Dispatch(e)
  BY DEF Dial, PairDevice, Pair, PairFails, Login, Drop, Refuse, Scan, Disconnect, Listen,
     vars, Events, Ending
<1>4. handler["Scanned"] = "done" => handler'["Scanned"] = "done"
  BY <1>3 DEF Dispatch, TypeInv, HandlerTypes, Events
<1> QED BY <1>1, <1>2, <1>4, LateKept

\* Every step keeps LateInv.
LEMMA StepLate == TypeInv /\ SwapInv /\ LateInv /\ [Next]_vars => LateInv'
BY ClientLate, EmitLate, HandleLate DEF Next

\* Nothing has been sent at first.
LEMMA InitLate == Init => LateInv
<1> SUFFICES ASSUME Init PROVE LateInv
  OBVIOUS
<1>1. LateCodes = {} /\ Scans = {}
  BY DEF Init, LateCodes, Scans
<1> QED BY <1>1 DEF Init, LateInv

\* For every number of codes and every size of the buffer, the final item is followed by
\* one code and one report of a scan at most: those that had passed the check of the
\* flag before it was set.
THEOREM FewLateItems == Spec => []LateItems
BY InitTypes, StepTypes, InitSwap, StepSwap, InitLate, StepLate, LateImplies, PTL DEF Spec
=============================================================================
