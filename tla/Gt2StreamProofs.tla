--------------------------- MODULE Gt2StreamProofs ---------------------------
(***************************************************************************)
(* The reliable layer of GT2 implements the stream its API promises: every *)
(* step of Gt2Message is a step of Gt2Stream or a stutter of it.           *)
(*                                                                         *)
(* The second part is how an end of the stream closes: the reason it gives *)
(* is true of the other end, and a close by the peer's Close comes after   *)
(* everything the peer sent.  Both relate a callback at one end to the     *)
(* other end's state by way of what is in flight, in the hold or in the    *)
(* log: CloseInv says what a Close and a Closed stand for wherever they    *)
(* are.                                                                    *)
(***************************************************************************)
EXTENDS Gt2MessageProofs

confirmed == [p \in End |-> sn[p] - Len(out[p])]
open      == [p \in End |-> state[p] # "Closed"]

(* A sequence that agrees with a longer one is its SubSeq. *)
LEMMA PrefixIsSubSeq ==
    ASSUME NEW S, NEW s \in Seq(S), NEW t \in Seq(S), Len(s) <= Len(t),
           \A i \in 1..Len(s) : s[i] = t[i]
    PROVE  s = SubSeq(t, 1, Len(s))
<1>1. \A i \in 1..Len(s) : t[i] \in S
  BY ElementOfSeq
<1>2. Len(s) \in Nat /\ Len(t) \in Nat
  BY LenProperties
<1>3. /\ SubSeq(t, 1, Len(s)) \in Seq(S)
      /\ Len(SubSeq(t, 1, Len(s))) = Len(s)
      /\ \A i \in 1..Len(s) : SubSeq(t, 1, Len(s))[i] = t[i]
  BY <1>1, <1>2, SubSeqProperties
<1> QED
  BY <1>3, SeqEqual

(* The ends begin with nothing sent, as the stream does. *)
LEMMA InitIsStreamInit ==
    ASSUME Init
    PROVE  Stream!Init
<1>1. \A p \in End : sn[p] - Len(out[p]) = 0 /\ (state[p] # "Closed") = TRUE
  BY DEF Init
<1>2. log = [p \in End |-> << >>] /\ handled = [p \in End |-> << >>]
  BY DEF Init
<1> QED
  BY <1>1, <1>2 DEF Stream!Init

(* A step that changes no history, serial, buffer or state is a stutter. *)
LEMMA StutterIsStreamStutter ==
    ASSUME UNCHANGED <<state, sn, out, log, handled>>
    PROVE  UNCHANGED Stream!vars
BY DEF Stream!vars

(* Beginning a reliable message submits it to the stream. *)
LEMMA BeginIsSubmit ==
    ASSUME IInv, NEW p \in End, NEW type \in Type, NEW also,
           BeginAndSend(p, type, also),
           state[p] # "Closed",
           \/ state' = state
           \/ state' = [state EXCEPT ![p] = "Closing"]
    PROVE  Stream!Submit(p)
<1> PICK m : m = [sn |-> sn[p], type |-> type]
  OBVIOUS
<1>1. /\ sn[p] < MaxMsgs[p]
      /\ sn' = [sn EXCEPT ![p] = @ + 1]
      /\ out' = [out EXCEPT ![p] = Append(@, m)]
      /\ log' = [log EXCEPT ![p] = Append(@, m)]
      /\ UNCHANGED handled
  BY DEF BeginAndSend
<1>2. /\ state \in [End -> State] /\ sn \in [End -> Nat]
      /\ out \in [End -> Seq(Message)]
  BY DEF IInv, TypeOK
<1>3. m \in UNION {[sn : 0..MaxMsgs[q], type : Type] : q \in End}
  <2>1. sn[p] \in 0..MaxMsgs[p]
    BY <1>1, <1>2, BoundAssumption
  <2>2. m \in [sn : 0..MaxMsgs[p], type : Type]
    BY <2>1
  <2> QED
    BY <2>2
<1>4. [q \in End |-> state[q] # "Closed"]' = [q \in End |-> state[q] # "Closed"]
  BY <1>2
<1>5. ASSUME NEW q \in End
      PROVE  (sn[q] - Len(out[q]))' = sn[q] - Len(out[q])
  <2>1. CASE q # p
    BY <1>1, <1>2, <2>1
  <2>2. CASE q = p
    <3>1. m \in Message
      BY <1>2 DEF Message
    <3>2. Len(Append(out[p], m)) = Len(out[p]) + 1 /\ Len(out[p]) \in Nat
      BY <1>2, <3>1, AppendProperties, LenProperties
    <3>3. sn'[p] = sn[p] + 1 /\ Len(out'[p]) = Len(Append(out[p], m)) /\ sn[p] \in Nat
      BY <1>1, <1>2
    <3> QED
      BY <2>2, <3>2, <3>3
  <2> QED
    BY <2>1, <2>2
<1> QED
  BY <1>1, <1>3, <1>4, <1>5 DEF Stream!Submit

(* An end that closes and changes nothing else closes its side of the stream. *)
LEMMA CloseEndIsClose ==
    ASSUME IInv, NEW p \in End, state[p] # "Closed",
           state' = [state EXCEPT ![p] = "Closed"],
           UNCHANGED <<sn, out, log, handled>>
    PROVE  Stream!Close(p)
<1>1. state \in [End -> State]
  BY DEF IInv, TypeOK
<1> QED
  BY <1>1 DEF Stream!Close

(* A datagram that reaches an open end extends what it received, and what it
   knows to be confirmed, within what was sent and received. *)
LEMMA HandleIsReceive ==
    ASSUME IInv, IInv', NEW p \in End, state[p] # "Closed",
           UNCHANGED <<sn, log>>,
           \A q \in End : q # p => /\ state'[q] = state[q]
                                   /\ out'[q] = out[q]
                                   /\ handled'[q] = handled[q],
           Len(handled[p]) <= Len(handled'[p]),
           Len(out'[p]) <= Len(out[p]),
           sn[p] - Len(out'[p]) <= esn[Other(p)]
    PROVE  Stream!Receive(p)
<1>1. /\ state \in [End -> State] /\ state' \in [End -> State]
      /\ sn \in [End -> Nat]
      /\ handled \in [End -> Seq(Message)] /\ handled' \in [End -> Seq(Message)]
      /\ log \in [End -> Seq(Message)] /\ out \in [End -> Seq(Message)]
      /\ out' \in [End -> Seq(Message)]
  BY DEF IInv, TypeOK
<1>2. /\ Len(handled'[p]) <= Len(log[Other(p)])
      /\ \A i \in 1..Len(handled'[p]) : handled'[p][i] = log[Other(p)][i]
  BY DEF IInv, InOrderOnce
<1>3. /\ Len(handled[p]) \in Nat /\ Len(handled'[p]) \in Nat
      /\ Len(log[Other(p)]) \in Nat /\ Len(out[p]) \in Nat /\ Len(out'[p]) \in Nat
      /\ sn[p] \in Nat
  BY <1>1, LenProperties, Others
<1>4. handled'[p] = SubSeq(log[Other(p)], 1, Len(handled'[p]))
  BY <1>1, <1>2, PrefixIsSubSeq, Others
<1>5. \E n \in Len(handled[p])..Len(log[Other(p)]) :
         handled' = [handled EXCEPT ![p] = SubSeq(log[Other(p)], 1, n)]
  <2>1. Len(handled'[p]) \in Len(handled[p])..Len(log[Other(p)])
    BY <1>2, <1>3
  <2>2. handled' = [handled EXCEPT ![p] = SubSeq(log[Other(p)], 1, Len(handled'[p]))]
    BY <1>1, <1>4
  <2> QED
    BY <2>1, <2>2
<1>6. \E c \in confirmed[p]..Len(handled[Other(p)]) :
         confirmed' = [confirmed EXCEPT ![p] = c]
  <2>1. Len(handled[Other(p)]) = esn[Other(p)] /\ esn[Other(p)] \in Nat
    BY Others DEF IInv, HandledIsCounted, TypeOK
  <2>2. sn[p] - Len(out'[p]) \in (sn[p] - Len(out[p]))..Len(handled[Other(p)])
    BY <1>3, <2>1
  <2>3. \A q \in End : confirmed'[q] = IF q = p THEN sn[p] - Len(out'[p]) ELSE confirmed[q]
    BY DEF confirmed
  <2>4. confirmed' = [confirmed EXCEPT ![p] = sn[p] - Len(out'[p])]
    BY <2>3 DEF confirmed
  <2> QED
    BY <2>2, <2>4 DEF confirmed
<1>7. \E o \in BOOLEAN : open' = [open EXCEPT ![p] = o]
  <2>1. (state'[p] # "Closed") \in BOOLEAN
    OBVIOUS
  <2>2. open' = [open EXCEPT ![p] = (state'[p] # "Closed")]
    BY DEF open
  <2> QED
    BY <2>1, <2>2
<1> QED
  BY <1>5, <1>6, <1>7 DEF Stream!Receive, confirmed, open

-----------------------------------------------------------------------------
(* An overflow of the outgoing buffer closes the stream. *)
LEMMA OverflowIsClose ==
    ASSUME IInv, NEW p \in End, state[p] # "Closed", NEW also, BeginOverflows(p, also)
    PROVE  Stream!Close(p)
BY CloseEndIsClose DEF BeginOverflows, MemoryError, CloseEnd

(* Each call of the application submits, or closes. *)
LEMMA CallIsStreamStep ==
    ASSUME IInv, NEW p \in End, App(p)
    PROVE  Stream!Next
<1>1. CASE Send(p)
  <2>1. state[p] # "Closed" /\ "AppReliable" \in Type
    BY <1>1 DEF Send, Type
  <2>2. CASE BeginAndSend(p, "AppReliable", {}) /\ UNCHANGED <<state, closedCb>>
    BY <2>1, <2>2, BeginIsSubmit DEF Stream!Next
  <2>3. CASE BeginOverflows(p, {})
    BY <2>1, <2>3, OverflowIsClose DEF Stream!Next
  <2> QED
    BY <1>1, <2>2, <2>3 DEF Send
<1>2. CASE CloseConnection(p)
  <2>1. state[p] # "Closed" /\ "Close" \in Type
    BY <1>2 DEF CloseConnection, Type
  <2>2. CASE BeginAndSend(p, "Close", {}) /\ state' = [state EXCEPT ![p] = "Closing"]
    BY <2>1, <2>2, BeginIsSubmit DEF Stream!Next
  <2>3. CASE BeginOverflows(p, {})
    BY <2>1, <2>3, OverflowIsClose DEF Stream!Next
  <2> QED
    BY <1>2, <2>2, <2>3 DEF CloseConnection
<1>3. CASE CloseConnectionHard(p)
  <2>1. Stream!Close(p)
    BY <1>3, CloseEndIsClose DEF CloseConnectionHard, CloseEnd
  <2> QED
    BY <2>1 DEF Stream!Next
<1> QED
  BY <1>1, <1>2, <1>3 DEF App

(* The timers submit a keep-alive, close, or leave the stream alone. *)
LEMMA ThinkIsStreamStep ==
    ASSUME IInv, NEW p \in End, Think(p)
    PROVE  Stream!Next \/ UNCHANGED Stream!vars
<1>1. PICK due \in SUBSET DOMAIN out[p], ackDue \in BOOLEAN :
         ConnectionThink(p, due, ackDue)
  BY DEF Think
<1>2. state[p] # "Closed" /\ "KeepAlive" \in Type
  BY <1>1 DEF ConnectionThink, Type
<1>3. CASE /\ BeginAndSend(p, "KeepAlive", SendRetries(p, due))
           /\ UNCHANGED <<state, closedCb>>
  BY <1>2, <1>3, BeginIsSubmit DEF Stream!Next
<1>4. CASE BeginOverflows(p, SendRetries(p, due) \cup CheckPendingAck(p, ackDue))
  BY <1>2, <1>4, OverflowIsClose DEF Stream!Next
<1>5. CASE UNCHANGED <<state, sn, out, log, handled>>
  BY <1>5, StutterIsStreamStutter
<1> QED
  BY <1>1, <1>3, <1>4, <1>5 DEF ConnectionThink, CheckKeepAlive

(* A handler that takes note of an ESN confirms no less than before. *)
LEMMA ConfirmIsReceive ==
    ASSUME NoWrap, IInv, IInv', NEW p \in End, state[p] # "Closed",
           NEW e \in Nat, e <= esn[Other(p)],
           out' = [out EXCEPT ![p] = HandleESN(@, e)],
           UNCHANGED <<sn, log>>,
           \A q \in End : q # p => state'[q] = state[q] /\ handled'[q] = handled[q],
           Len(handled[p]) <= Len(handled'[p])
    PROVE  Stream!Receive(p)
<1>1. out' \in [End -> Seq(Message)] /\ out \in [End -> Seq(Message)]
  BY DEF IInv, TypeOK
<1>2. out'[p] = HandleESN(out[p], e) /\ \A q \in End : q # p => out'[q] = out[q]
  BY <1>1
<1>3. Len(out'[p]) <= Len(out[p]) /\ sn[p] - Len(out'[p]) <= esn[Other(p)]
  BY <1>2, ConfirmKeepsTail
<1> QED
  BY <1>2, <1>3, HandleIsReceive

(* Delivery only extends what was handled. *)
LEMMA HandledGrows ==
    ASSUME IInv, NEW p \in End, NEW m,
           InTurn(p, m) \in Seq(Message),
           handled' = [handled EXCEPT ![p] = @ \o InTurn(p, m)]
    PROVE  Len(handled[p]) <= Len(handled'[p])
<1>1. handled \in [End -> Seq(Message)]
  BY DEF IInv, TypeOK
<1>2. handled'[p] = handled[p] \o InTurn(p, m) /\ handled[p] \in Seq(Message)
  BY <1>1
<1>3. PICK s \in Seq(Message) : s = handled[p]
  BY <1>2
<1>4. Len(s \o InTurn(p, m)) = Len(s) + Len(InTurn(p, m))
  BY ConcatParts
<1> QED
  BY <1>2, <1>3, <1>4, LenProperties

(* Each handler receives, closes, or leaves the stream alone. *)
LEMMA HandleIsStreamStep ==
    ASSUME NoWrap, IInv, IInv', NEW p \in End, NEW d \in net, Receive(p, d)
    PROVE  Stream!Next \/ UNCHANGED Stream!vars
<1>1. PICK rest : Arrives(p, d, rest) /\ Handle(p, d, rest)
  BY DEF Receive
<1>2. /\ state \in [End -> State] /\ handled \in [End -> Seq(Message)]
      /\ \A q \in End : Len(handled[q]) \in Nat
  BY LenProperties DEF IInv, TypeOK
<1>3. d.to = p /\ d \in Datagram /\ IsLogged(d)
  BY <1>1, ArrivesTypes
<1>4. CASE ReceiveWhenClosed(p, d, rest) \/ ReceiveNack(p, d, rest)
  <2>1. UNCHANGED <<state, sn, out, log, handled>>
    BY <1>4 DEF ReceiveWhenClosed, ReceiveNack, endVars
  <2> QED
    BY <2>1, StutterIsStreamStutter
<1>5. CASE ReceiveExpected(p, d, rest)
  <2> PICK m : m = [sn |-> d.sn, type |-> d.type]
    OBVIOUS
  <2>1. /\ state[p] # "Closed" /\ d.kind = "Reliable" /\ SameSN(d.sn, esn[p])
        /\ out' = [out EXCEPT ![p] = HandleESN(@, d.esn)]
        /\ handled' = [handled EXCEPT ![p] = @ \o InTurn(p, m)]
        /\ CloseEnd(p, "Close", LocalOrRemote(p)) \/ UNCHANGED state
        /\ UNCHANGED <<sn, log>>
    BY <1>5 DEF ReceiveExpected
  <2>2. /\ d.esn \in Nat /\ d.esn <= esn[Other(p)] /\ m \in Message
        /\ InLog(Other(p), m) /\ m.sn = esn[p]
    BY <1>3, <2>1, ArrivedReliable
  <2>3. InTurn(p, m) \in Seq(Message)
    BY <2>2, InTurnIsLogged
  <2>4. Len(handled[p]) <= Len(handled'[p])
    BY <2>1, <2>3, HandledGrows
  <2>5. \A q \in End : q # p => state'[q] = state[q] /\ handled'[q] = handled[q]
    BY <1>2, <2>1 DEF CloseEnd
  <2> QED
    BY <2>1, <2>2, <2>4, <2>5, ConfirmIsReceive DEF Stream!Next
<1>6. CASE ReceiveDuplicate(p, d, rest) \/ ReceiveEarly(p, d, rest)
  <2>1. /\ state[p] # "Closed" /\ d.kind = "Reliable"
        /\ out' = [out EXCEPT ![p] = HandleESN(@, d.esn)]
        /\ CloseEnd(p, "Memory", "NotEnoughMemory") \/ UNCHANGED state
        /\ UNCHANGED <<sn, log, handled>>
    BY <1>6 DEF ReceiveDuplicate, ReceiveEarly, MemoryError
  <2>2. d.esn \in Nat /\ d.esn <= esn[Other(p)]
    BY <1>3, <2>1, ArrivedReliable
  <2>3. \A q \in End : q # p => state'[q] = state[q] /\ handled'[q] = handled[q]
    BY <1>2, <2>1 DEF CloseEnd
  <2>4. Len(handled[p]) <= Len(handled'[p])
    BY <1>2, <2>1
  <2> QED
    BY <2>1, <2>2, <2>3, <2>4, ConfirmIsReceive DEF Stream!Next
<1>7. CASE ReceiveAck(p, d, rest)
  <2>1. /\ state[p] # "Closed" /\ d.kind = "Ack"
        /\ out' = [out EXCEPT ![p] = HandleESN(@, d.esn)]
        /\ UNCHANGED <<state, sn, log, handled>>
    BY <1>7 DEF ReceiveAck
  <2>2. d.esn \in Nat /\ d.esn <= esn[Other(p)]
    BY <1>3, <2>1, KindOfDatagram DEF IsLogged, Ack
  <2>3. Len(handled[p]) <= Len(handled'[p])
    BY <1>2, <2>1
  <2> QED
    BY <2>1, <2>2, <2>3, ConfirmIsReceive DEF Stream!Next
<1>8. CASE ReceiveClosed(p, d, rest)
  <2>1. Stream!Close(p)
    BY <1>8, CloseEndIsClose DEF ReceiveClosed, CloseEnd
  <2> QED
    BY <2>1 DEF Stream!Next
<1> QED
  BY <1>1, <1>4, <1>5, <1>6, <1>7, <1>8 DEF Handle

(* Every step is a step of the stream, or a stutter. *)
LEMMA NextIsStreamStep ==
    ASSUME NoWrap, IInv, IInv', [Next]_vars
    PROVE  [Stream!Next]_(Stream!vars)
<1>1. CASE \E p \in End : App(p)
  BY <1>1, CallIsStreamStep
<1>2. CASE \E p \in End : Think(p)
  BY <1>2, ThinkIsStreamStep
<1>3. CASE \E d \in net : \E p \in End : Receive(p, d)
  BY <1>3, HandleIsStreamStep
<1>4. CASE (\E d \in net : Lose(d)) \/ UNCHANGED vars
  <2>1. UNCHANGED <<state, sn, out, log, handled>>
    BY <1>4 DEF Lose, vars, endVars
  <2> QED
    BY <2>1, StutterIsStreamStutter
<1> QED
  BY <1>1, <1>2, <1>3, <1>4 DEF Next, Network

(* The reliable layer is a reliable stream (gt2.h:461-473): the abstract
   specification of gt2Send, for every size of the buffers, number of messages
   up to half of the serial space, and behaviour of the network. *)
THEOREM ImplementsStreamHolds ==
    ASSUME NoWrap
    PROVE  Spec => ImplementsStream
<1>1. Init => Stream!Init
  BY InitIsStreamInit
<1>2. IInv /\ IInv' /\ [Next]_vars => [Stream!Next]_(Stream!vars)
  BY NextIsStreamStep
<1> QED
  BY <1>1, <1>2, IInvHolds, PTL DEF Spec, Stream!Spec, ImplementsStream

-----------------------------------------------------------------------------
(* How an end closes.                                                      *)

(* An end that has logged a Close is no longer connected, and nothing of   *)
(* the application follows the Close.                                      *)
CloseEndsLog ==
    \A q \in End : \A i \in 1..sn[q] : log[q][i].type = "Close" =>
        /\ state[q] # "Connected"
        /\ \A j \in 1..sn[q] : i < j => log[q][j].type # "AppReliable"

(* The sender of a Closed in flight is no longer connected. *)
ClosedIsSent ==
    \A d \in net : d.kind = "Closed" => state[Other(d.to)] # "Connected"

(* An end that was closed by a Close has handled one. *)
CloseWasHandled ==
    \A p \in End : closedCb[p].by = "Close" =>
        \E k \in 1..esn[p] : log[Other(p)][k].type = "Close"

CloseInv == CloseEndsLog /\ ClosedIsSent /\ CloseWasHandled /\ RemoteCloseHasCause

(* What a step does to all this: ends do not open again, a log grows by    *)
(* one, an application's message is logged by a connected end only, and a  *)
(* Closed and a reason have a cause.                                       *)
LogGrows(q) ==
    /\ sn'[q] = sn[q] \/ sn'[q] = sn[q] + 1
    /\ \A i \in 1..sn[q] : log'[q][i] = log[q][i]
    /\ sn'[q] = sn[q] + 1 =>
         /\ log'[q][sn[q] + 1].type = "Close" => state'[q] # "Connected"
         /\ log'[q][sn[q] + 1].type = "AppReliable" => state[q] = "Connected"

HasCause(q) ==
    /\ closedCb'[q].reason = "RemoteClose" => state[Other(q)] # "Connected"
    /\ closedCb'[q].by = "Close" =>
         \E k \in 1..esn'[q] : k <= sn[Other(q)] /\ log[Other(q)][k].type = "Close"

StaysClosed(q) == state[q] # "Connected" => state'[q] # "Connected"

SendsClosed(d) ==
    d.kind = "Closed" => d \in net \/ state'[Other(d.to)] # "Connected"

CloseStep ==
    /\ \A q \in End : StaysClosed(q) /\ LogGrows(q) /\ esn[q] <= esn'[q]
    /\ \A d \in net' : SendsClosed(d)
    /\ \A q \in End : closedCb'[q] = closedCb[q] \/ HasCause(q)

(* Such a step keeps the invariant. *)
LEMMA CloseStepKeeps ==
    ASSUME NoWrap, IInv, IInv', CloseInv, CloseStep
    PROVE  CloseInv'
<1>1. \A q \in End : /\ sn[q] \in Nat /\ esn[q] \in Nat /\ esn[q] <= sn[Other(q)]
                     /\ esn'[q] \in Nat /\ StaysClosed(q) /\ LogGrows(q)
                     /\ esn[q] <= esn'[q]
  BY Ranges DEF IInv, TypeOK, CloseStep
<1>2. CloseEndsLog'
  <2> SUFFICES ASSUME NEW q \in End, NEW i \in 1..sn'[q], log'[q][i].type = "Close"
               PROVE  /\ state'[q] # "Connected"
                      /\ \A j \in 1..sn'[q] : i < j => log'[q][j].type # "AppReliable"
    BY DEF CloseEndsLog
  <2>1. CASE i \in 1..sn[q]
    <3>1. /\ log[q][i].type = "Close" /\ state[q] # "Connected"
          /\ \A j \in 1..sn[q] : i < j => log[q][j].type # "AppReliable"
      BY <1>1, <2>1 DEF LogGrows, CloseInv, CloseEndsLog
    <3>2. ASSUME NEW j \in 1..sn'[q], i < j
          PROVE  log'[q][j].type # "AppReliable"
      <4>1. j \in 1..sn[q] \/ (j = sn[q] + 1 /\ sn'[q] = sn[q] + 1)
        BY <1>1 DEF LogGrows
      <4> QED
        BY <1>1, <3>1, <3>2, <4>1 DEF LogGrows
    <3> QED
      BY <1>1, <3>1, <3>2 DEF StaysClosed
  <2>2. CASE i \notin 1..sn[q]
    <3>1. i = sn[q] + 1 /\ sn'[q] = sn[q] + 1
      BY <1>1, <2>2 DEF LogGrows
    <3> QED
      BY <1>1, <3>1 DEF LogGrows
  <2> QED
    BY <2>1, <2>2
<1>3. ClosedIsSent'
  <2> SUFFICES ASSUME NEW d \in net', d.kind = "Closed"
               PROVE  state'[Other(d.to)] # "Connected"
    BY DEF ClosedIsSent
  <2>1. d \in net => Other(d.to) \in End /\ state[Other(d.to)] # "Connected"
    BY KindOfDatagram, Others DEF CloseInv, ClosedIsSent, IInv, TypeOK
  <2> QED
    BY <1>1, <2>1 DEF CloseStep, SendsClosed, StaysClosed
<1>4. CloseWasHandled'
  <2> SUFFICES ASSUME NEW p \in End, closedCb'[p].by = "Close"
               PROVE  \E k \in 1..esn'[p] : log'[Other(p)][k].type = "Close"
    BY DEF CloseWasHandled
  <2>1. PICK k \in 1..esn'[p] : k <= sn[Other(p)] /\ log[Other(p)][k].type = "Close"
    <3>1. CASE closedCb'[p] = closedCb[p]
      <4>1. PICK k \in 1..esn[p] : log[Other(p)][k].type = "Close"
        BY <3>1 DEF CloseInv, CloseWasHandled
      <4>2. k \in 1..esn'[p] /\ k <= sn[Other(p)]
        BY <1>1, Others
      <4> QED
        BY <4>1, <4>2
    <3>2. CASE HasCause(p)
      BY <3>2 DEF HasCause
    <3> QED
      BY <3>1, <3>2 DEF CloseStep
  <2>2. log'[Other(p)][k] = log[Other(p)][k]
    BY <1>1, <2>1, Others DEF LogGrows
  <2> QED
    BY <2>1, <2>2
<1>5. RemoteCloseHasCause'
  BY <1>1, Others DEF CloseInv, RemoteCloseHasCause, CloseStep, HasCause, StaysClosed
<1> QED
  BY <1>2, <1>3, <1>4, <1>5 DEF CloseInv

-----------------------------------------------------------------------------
(* The steps.                                                              *)

(* Reliable messages and acks are not Closed. *)
LEMMA KindsSent ==
    ASSUME NEW p \in End
    PROVE  /\ \A msgs : \A d \in Resend(p, msgs) : d.kind # "Closed"
           /\ \A due : \A d \in SendRetries(p, due) : d.kind # "Closed"
           /\ \A ackDue : \A d \in CheckPendingAck(p, ackDue) : d.kind # "Closed"
           /\ \A m : \A d \in NackFor(p, m) : d.kind # "Closed"
<1>1. \A msgs : \A d \in Resend(p, msgs) : d.kind # "Closed"
  BY DEF Resend, ReliableTo
<1>2. \A due : \A d \in SendRetries(p, due) : d.kind # "Closed"
  BY <1>1 DEF SendRetries
<1>3. \A ackDue : \A d \in CheckPendingAck(p, ackDue) : d.kind # "Closed"
  BY DEF CheckPendingAck, AckTo
<1>4. \A m : \A d \in NackFor(p, m) : d.kind # "Closed"
  BY DEF NackFor, NackTo
<1> QED
  BY <1>1, <1>2, <1>3, <1>4

(* A step that begins a message. *)
LEMMA BeginStep ==
    ASSUME NoWrap, IInv, NEW p \in End, NEW type \in Type, NEW also,
           BeginAndSend(p, type, also), closedCb' = closedCb,
           \A d \in also : d.kind # "Closed",
           \A q \in End : StaysClosed(q),
           type = "Close" => state'[p] # "Connected",
           type = "AppReliable" => state[p] = "Connected"
    PROVE  CloseStep
<1> PICK m : m = [sn |-> sn[p], type |-> type]
  OBVIOUS
<1>1. /\ sn' = [sn EXCEPT ![p] = @ + 1]
      /\ log' = [log EXCEPT ![p] = Append(@, m)]
      /\ net' = net \cup Resend(p, {m}) \cup also
      /\ esn' = esn
  BY DEF BeginAndSend
<1>2. /\ sn \in [End -> Nat] /\ esn \in [End -> Nat] /\ log \in [End -> Seq(Message)]
      /\ Len(log[p]) = sn[p] /\ log[p] \in Seq(Message) /\ m \in Message
  BY Ranges DEF IInv, TypeOK, Message
<1>3. LogGrows(p)
  <2>1. sn'[p] = sn[p] + 1 /\ log'[p] = Append(log[p], m)
    BY <1>1, <1>2
  <2>2. /\ \A i \in 1..sn[p] : log'[p][i] = log[p][i]
        /\ log'[p][sn[p] + 1] = m
    BY <1>2, <2>1, AppendProperties
  <2>3. m.type = type
    OBVIOUS
  <2> QED
    BY <2>1, <2>2, <2>3 DEF LogGrows
<1>4. \A q \in End : q # p => LogGrows(q)
  <2>1. \A q \in End : q # p => sn'[q] = sn[q] /\ sn[q] \in Nat /\ log'[q] = log[q]
    BY <1>1, <1>2
  <2> QED
    BY <2>1 DEF LogGrows
<1>5. \A d \in net' : SendsClosed(d)
  BY <1>1, KindsSent DEF SendsClosed
<1>6. \A q \in End : LogGrows(q) /\ esn[q] <= esn'[q]
  BY <1>1, <1>2, <1>3, <1>4
<1> QED
  BY <1>5, <1>6 DEF CloseStep

(* A step that logs nothing. *)
LEMMA SameLogs ==
    ASSUME NoWrap, IInv, UNCHANGED <<sn, log>>
    PROVE  \A q \in End : LogGrows(q)
<1>1. \A q \in End : sn[q] \in Nat
  BY Ranges
<1> QED
  BY <1>1 DEF LogGrows

(* A step that closes an end, or finds it closed; a Closed may tell the    *)
(* peer.                                                                   *)
LEMMA CloseEndStep ==
    ASSUME NoWrap, IInv, NEW p \in End, NEW by, NEW reason,
           CloseEnd(p, by, reason), UNCHANGED <<sn, log>>,
           \A q \in End : esn[q] <= esn'[q],
           \A d \in net' : \/ d.kind # "Closed" \/ d \in net
                           \/ d = ClosedTo(Other(p)),
           reason = "RemoteClose" => state[Other(p)] # "Connected",
           by = "Close" => \E k \in 1..esn'[p] :
                              k <= sn[Other(p)] /\ log[Other(p)][k].type = "Close"
    PROVE  CloseStep
<1>1. /\ state \in [End -> State]
      /\ closedCb \in [End -> {NotCalled} \cup [by : Closer, reason : Reason]]
  BY DEF IInv, TypeOK
<1>2. state'[p] = "Closed" /\ \A q \in End : q # p => state'[q] = state[q]
  BY <1>1 DEF CloseEnd
<1>3. \A q \in End : StaysClosed(q)
  BY <1>2 DEF StaysClosed
<1>4. \A q \in End : closedCb'[q] = closedCb[q] \/ HasCause(q)
  <2>1. closedCb'[p] = closedCb[p] \/ closedCb'[p] = [by |-> by, reason |-> reason]
    BY <1>1 DEF CloseEnd
  <2>2. \A q \in End : q # p => closedCb'[q] = closedCb[q]
    BY <1>1 DEF CloseEnd
  <2>3. closedCb'[p] = [by |-> by, reason |-> reason] => HasCause(p)
    BY DEF HasCause
  <2> QED
    BY <2>1, <2>2, <2>3
<1>5. \A d \in net' : SendsClosed(d)
  <2>1. ClosedTo(Other(p)).to = Other(p) /\ Other(Other(p)) = p
    BY Others DEF ClosedTo
  <2> QED
    BY <1>2, <2>1 DEF SendsClosed
<1> QED
  BY <1>3, <1>4, <1>5, SameLogs DEF CloseStep

(* A step that closes and logs nothing. *)
LEMMA QuietStep ==
    ASSUME NoWrap, IInv, UNCHANGED <<state, closedCb, sn, log>>,
           \A q \in End : esn[q] <= esn'[q],
           \A d \in net' : \/ d.kind # "Closed" \/ d \in net
                           \/ state[Other(d.to)] # "Connected"
    PROVE  CloseStep
<1>1. \A q \in End : StaysClosed(q)
  BY DEF StaysClosed
<1>2. \A d \in net' : SendsClosed(d)
  BY DEF SendsClosed
<1> QED
  BY <1>1, <1>2, SameLogs DEF CloseStep

(* An end's expected serial that does not change does not go back. *)
LEMMA SameExpected ==
    ASSUME IInv, UNCHANGED esn
    PROVE  \A q \in End : esn[q] <= esn'[q]
<1>1. \A q \in End : esn[q] \in Nat
  BY DEF IInv, TypeOK
<1> QED
  BY <1>1

-----------------------------------------------------------------------------
(* Ends that send, close and think.                                        *)

(* An end that has no room for a message closes for lack of memory, which  *)
(* it tells its peer.                                                      *)
LEMMA OverflowStep ==
    ASSUME NoWrap, IInv, NEW p \in End, NEW also, BeginOverflows(p, also),
           \A d \in also : d.kind # "Closed"
    PROVE  CloseStep
<1>1. /\ CloseEnd(p, "Memory", "NotEnoughMemory")
      /\ net' = (net \cup also) \cup {ClosedTo(Other(p))}
      /\ UNCHANGED <<sn, log>> /\ UNCHANGED esn
  BY DEF BeginOverflows, MemoryError
<1> QED
  BY <1>1, SameExpected, CloseEndStep

LEMMA SendStep ==
    ASSUME NoWrap, IInv, NEW p \in End, Send(p)
    PROVE  CloseStep
<1>1. CASE BeginAndSend(p, "AppReliable", {}) /\ UNCHANGED <<state, closedCb>>
  <2>1. state[p] = "Connected" /\ "AppReliable" \in Type
    BY DEF Send, Type
  <2>2. \A q \in End : StaysClosed(q)
    BY <1>1 DEF StaysClosed
  <2> QED
    BY <1>1, <2>1, <2>2, BeginStep
<1>2. CASE BeginOverflows(p, {})
  BY <1>2, OverflowStep
<1> QED
  BY <1>1, <1>2 DEF Send

LEMMA CloseConnectionStep ==
    ASSUME NoWrap, IInv, NEW p \in End, CloseConnection(p)
    PROVE  CloseStep
<1>1. CASE /\ BeginAndSend(p, "Close", {})
           /\ state' = [state EXCEPT ![p] = "Closing"]
           /\ UNCHANGED closedCb
  <2>1. state'[p] = "Closing" /\ \A q \in End : q # p => state'[q] = state[q]
    BY <1>1 DEF IInv, TypeOK
  <2>2. (\A q \in End : StaysClosed(q)) /\ "Close" \in Type
    BY <2>1 DEF StaysClosed, Type
  <2> QED
    BY <1>1, <2>1, <2>2, BeginStep
<1>2. CASE BeginOverflows(p, {})
  BY <1>2, OverflowStep
<1> QED
  BY <1>1, <1>2 DEF CloseConnection

LEMMA CloseHardStep ==
    ASSUME NoWrap, IInv, NEW p \in End, CloseConnectionHard(p)
    PROVE  CloseStep
<1>1. /\ CloseEnd(p, "Hard", "LocalClose")
      /\ net' = net \cup {ClosedTo(Other(p))}
      /\ UNCHANGED <<sn, log>> /\ UNCHANGED esn
  BY DEF CloseConnectionHard
<1> QED
  BY <1>1, SameExpected, CloseEndStep

LEMMA ThinkStep ==
    ASSUME NoWrap, IInv, NEW p \in End, NEW due, NEW ackDue, ConnectionThink(p, due, ackDue)
    PROVE  CloseStep
<1> DEFINE sends == SendRetries(p, due) \cup CheckPendingAck(p, ackDue)
<1>1. \A d \in sends : d.kind # "Closed"
  BY KindsSent
<1>2. CASE BeginAndSend(p, "KeepAlive", SendRetries(p, due)) /\ UNCHANGED <<state, closedCb>>
  <2>1. (\A q \in End : StaysClosed(q)) /\ "KeepAlive" \in Type
    BY <1>2 DEF StaysClosed, Type
  <2> QED
    BY <1>1, <1>2, <2>1, BeginStep
<1>3. CASE BeginOverflows(p, sends)
  BY <1>1, <1>3, OverflowStep
<1>4. CASE /\ net' = net \cup SendRetries(p, due) \cup CheckPendingAck(p, ackDue)
           /\ UNCHANGED <<state, sn, esn, out, hold, closedCb, log, handled>>
  BY <1>1, <1>4, SameExpected, QuietStep
<1> QED
  BY <1>2, <1>3, <1>4 DEF ConnectionThink, CheckKeepAlive

-----------------------------------------------------------------------------
(* Datagrams.                                                              *)

(* What stays in flight was in flight.                                     *)
LEMMA RestInFlight ==
    ASSUME NEW p \in End, NEW d \in net, NEW rest, Arrives(p, d, rest)
    PROVE  d.to = p /\ \A x \in rest : x \in net
BY DEF Arrives

(* A closed end's answer has a closed sender. *)
LEMMA WhenClosedStep ==
    ASSUME NoWrap, IInv, NEW p \in End, NEW d \in net, NEW rest,
           Arrives(p, d, rest), ReceiveWhenClosed(p, d, rest)
    PROVE  CloseStep
<1>1. /\ state[p] = "Closed" /\ UNCHANGED <<state, closedCb, sn, log>> /\ UNCHANGED esn
      /\ \A x \in net' : x \in rest \/ x = ClosedTo(Other(p))
  BY DEF ReceiveWhenClosed, endVars
<1>2. ClosedTo(Other(p)).to = Other(p) /\ Other(Other(p)) = p
  BY Others DEF ClosedTo
<1>3. \A x \in net' : x \in net \/ state[Other(x.to)] # "Connected"
  BY <1>1, <1>2, RestInFlight
<1> QED
  BY <1>1, <1>3, SameExpected, QuietStep

(* The places in the log of the one or two messages that are delivered.    *)
LEMMA Places ==
    ASSUME NEW e \in Nat, NEW n \in 1..2, NEW s \in Nat, e + n <= s, s <= Half
    PROVE  /\ e + 1 \in 1..(e + n) /\ e + 1 <= s
           /\ n = 2 => (e + 1) + 1 \in 1..(e + n) /\ (e + 1) + 1 <= s
           /\ e + 1 \in Int
           /\ \A i \in Nat : i < s => -Half <= i - (e + 1) /\ i - (e + 1) < Half
BY HalfAssumption

(* The messages that are delivered are of the peer's log, and a Close      *)
(* among them has become one that was handled.                             *)
LEMMA ExpectedStep ==
    ASSUME NoWrap, IInv, CloseInv, NEW p \in End, NEW d \in net, NEW rest,
           Arrives(p, d, rest), ReceiveExpected(p, d, rest)
    PROVE  CloseStep
<1> PICK m : m = [sn |-> d.sn, type |-> d.type]
  OBVIOUS
<1> PICK inTurn : inTurn = InTurn(p, m)
  OBVIOUS
<1> DEFINE closes == \E r \in {m} \cup NextHeld(p) : r.type = "Close"
<1>1. /\ d.kind = "Reliable" /\ SameSN(d.sn, esn[p])
      /\ esn' = [esn EXCEPT ![p] = @ + Len(inTurn)]
      /\ \/ /\ closes
            /\ CloseEnd(p, "Close", LocalOrRemote(p))
            /\ net' = rest \cup {ClosedTo(Other(p))}
         \/ net' = rest /\ UNCHANGED <<state, closedCb>>
      /\ UNCHANGED <<sn, log>>
  BY DEF ReceiveExpected
<1>2. m \in Message /\ InLog(Other(p), m) /\ m.sn = esn[p]
  BY <1>1, ArrivesTypes, ArrivedReliable
<1>3. Len(inTurn) \in 1..2 /\ esn[p] + Len(inTurn) <= sn[Other(p)]
  BY <1>2, InTurnIsLogged
<1>4. /\ esn \in [End -> Nat] /\ esn[p] \in Nat /\ sn[Other(p)] \in Nat
      /\ sn[Other(p)] <= Half /\ Half \in Nat
  BY Ranges, Others DEF IInv, TypeOK
<1>5. esn'[p] = esn[p] + Len(inTurn) /\ \A q \in End : esn[q] <= esn'[q]
  <2>1. /\ esn'[p] = esn[p] + Len(inTurn) /\ Len(inTurn) \in Nat
        /\ \A q \in End : q # p => esn'[q] = esn[q] /\ esn[q] \in Nat
    BY <1>1, <1>3, <1>4
  <2> QED
    BY <1>4, <2>1
<1>p. /\ esn[p] + 1 \in 1..esn'[p] /\ esn[p] + 1 <= sn[Other(p)]
      /\ Len(inTurn) = 2 => (esn[p] + 1) + 1 \in 1..esn'[p] /\ (esn[p] + 1) + 1 <= sn[Other(p)]
      /\ esn[p] + 1 \in Int
      /\ \A i \in Nat : i < sn[Other(p)] =>
           -Half <= i - (esn[p] + 1) /\ i - (esn[p] + 1) < Half
  <2>1. esn'[p] = esn[p] + Len(inTurn)
    BY <1>5
  <2> QED
    BY <1>3, <1>4, <2>1, Places
<1>6. ASSUME closes
      PROVE  \E k \in 1..esn'[p] : k <= sn[Other(p)] /\ log[Other(p)][k].type = "Close"
  <2>1. CASE m.type = "Close"
    <3>1. log[Other(p)][esn[p] + 1].type = "Close"
      BY <1>2, <2>1 DEF InLog
    <3> QED
      BY <1>p, <3>1
  <2>2. CASE \E h \in NextHeld(p) : h.type = "Close"
    <3>1. PICK h \in NextHeld(p) : h.type = "Close"
      BY <2>2
    <3>2. h \in hold[p] /\ SameSN(h.sn, esn[p] + 1)
      BY DEF NextHeld
    <3>3. h \in Message /\ InLog(Other(p), h)
      BY <3>2 DEF IInv, TypeOK, HoldIsLogged
    <3>4. h.sn \in Nat /\ h.sn < sn[Other(p)] /\ log[Other(p)][h.sn + 1] = h
      BY <3>3 DEF Message, InLog
    <3>5. /\ -Half <= h.sn - (esn[p] + 1) /\ h.sn - (esn[p] + 1) < Half
          /\ esn[p] + 1 \in Int /\ h.sn \in Int
      BY <1>p, <3>4
    <3>6. h.sn = esn[p] + 1
      BY <3>2, <3>5, SameSNIsEqual
    <3>7. Len(inTurn) = 2
      <4>1. PICK g : inTurn = <<m, g>>
        BY <3>1 DEF InTurn
      <4> QED
        BY <4>1
    <3>8. h.sn + 1 \in 1..esn'[p] /\ h.sn + 1 <= sn[Other(p)]
      BY <1>p, <3>6, <3>7
    <3> QED
      BY <3>1, <3>4, <3>8
  <2> QED
    BY <1>6, <2>1, <2>2
<1>7. closes => state[Other(p)] # "Connected"
  <2>1. ASSUME closes
        PROVE  \E k \in 1..sn[Other(p)] : log[Other(p)][k].type = "Close"
    <3>1. esn'[p] \in Nat
      BY <1>3, <1>4, <1>5
    <3> QED
      BY <1>4, <1>6, <2>1, <3>1
  <2> QED
    BY <2>1, Others DEF CloseInv, CloseEndsLog
<1> HIDE DEF closes
<1>8. CASE /\ closes
           /\ CloseEnd(p, "Close", LocalOrRemote(p))
           /\ net' = rest \cup {ClosedTo(Other(p))}
  BY <1>1, <1>5, <1>6, <1>7, <1>8, RestInFlight, CloseEndStep
<1>9. CASE net' = rest /\ UNCHANGED <<state, closedCb>>
  BY <1>1, <1>5, <1>9, RestInFlight, QuietStep
<1> QED
  BY <1>1, <1>8, <1>9

LEMMA EarlyStep ==
    ASSUME NoWrap, IInv, NEW p \in End, NEW d \in net, NEW rest,
           Arrives(p, d, rest), ReceiveEarly(p, d, rest)
    PROVE  CloseStep
<1> PICK m : m = [sn |-> d.sn, type |-> d.type]
  OBVIOUS
<1>1. /\ UNCHANGED <<sn, log>> /\ UNCHANGED esn
      /\ \/ net' = rest /\ UNCHANGED <<state, closedCb>>
         \/ net' = rest \cup NackFor(p, m) /\ UNCHANGED <<state, closedCb>>
         \/ MemoryError(p, rest)
  BY DEF ReceiveEarly
<1>2. CASE MemoryError(p, rest)
  <2>1. /\ CloseEnd(p, "Memory", "NotEnoughMemory")
        /\ net' = rest \cup {ClosedTo(Other(p))}
    BY <1>2 DEF MemoryError
  <2> QED
    BY <1>1, <2>1, RestInFlight, SameExpected, CloseEndStep
<1>3. CASE /\ net' = rest \/ net' = rest \cup NackFor(p, m)
           /\ UNCHANGED <<state, closedCb>>
  <2>1. \A x \in net' : x.kind # "Closed" \/ x \in net
    BY <1>3, KindsSent, RestInFlight
  <2> QED
    BY <1>1, <1>3, <2>1, SameExpected, QuietStep
<1> QED
  BY <1>1, <1>2, <1>3

(* The Closed that arrives has a sender that is not connected. *)
LEMMA ClosedStep ==
    ASSUME NoWrap, IInv, CloseInv, NEW p \in End, NEW d \in net, NEW rest,
           Arrives(p, d, rest), ReceiveClosed(p, d, rest)
    PROVE  CloseStep
<1>1. /\ d.kind = "Closed" /\ CloseEnd(p, "Closed", LocalOrRemote(p))
      /\ net' = rest /\ UNCHANGED <<sn, log>> /\ UNCHANGED esn
  BY DEF ReceiveClosed
<1>2. state[Other(p)] # "Connected"
  BY <1>1, RestInFlight DEF CloseInv, ClosedIsSent
<1> QED
  BY <1>1, <1>2, RestInFlight, SameExpected, CloseEndStep

(* Duplicates, acks and nacks close nothing. *)
LEMMA OtherStep ==
    ASSUME NoWrap, IInv, NEW p \in End, NEW d \in net, NEW rest, Arrives(p, d, rest),
           ReceiveDuplicate(p, d, rest) \/ ReceiveAck(p, d, rest) \/ ReceiveNack(p, d, rest)
    PROVE  CloseStep
<1>1. UNCHANGED <<state, closedCb, sn, log>> /\ UNCHANGED esn
  BY DEF ReceiveDuplicate, ReceiveAck, ReceiveNack, endVars
<1>2. \A x \in net' : x.kind # "Closed" \/ x \in net
  <2>1. net' = rest \/ \E msgs : net' = rest \cup Resend(p, msgs)
    BY DEF ReceiveDuplicate, ReceiveAck, ReceiveNack
  <2> QED
    BY <2>1, KindsSent, RestInFlight
<1> QED
  BY <1>1, <1>2, SameExpected, QuietStep

-----------------------------------------------------------------------------
(* Every step, and what follows.                                           *)
LEMMA NextCloseStep ==
    ASSUME NoWrap, IInv, CloseInv, [Next]_vars
    PROVE  CloseStep
<1>1. CASE \E p \in End : App(p)
  BY <1>1, SendStep, CloseConnectionStep, CloseHardStep DEF App
<1>2. CASE \E p \in End : Think(p)
  BY <1>2, ThinkStep DEF Think
<1>3. ASSUME NEW d \in net, NEW p \in End, Receive(p, d)
      PROVE  CloseStep
  <2>1. PICK rest : Arrives(p, d, rest) /\ Handle(p, d, rest)
    BY <1>3 DEF Receive
  <2> QED
    BY <2>1, WhenClosedStep, ExpectedStep, EarlyStep, ClosedStep, OtherStep DEF Handle
<1>4. ASSUME NEW d \in net, Lose(d)
      PROVE  CloseStep
  <2>1. /\ UNCHANGED <<state, closedCb, sn, log>> /\ UNCHANGED esn
        /\ \A x \in net' : x \in net
    BY <1>4 DEF Lose, endVars
  <2> QED
    BY <2>1, SameExpected, QuietStep
<1>5. CASE UNCHANGED vars
  <2>1. UNCHANGED <<state, closedCb, sn, log>> /\ UNCHANGED esn /\ net' = net
    BY <1>5 DEF vars, endVars
  <2> QED
    BY <2>1, SameExpected, QuietStep
<1> QED
  BY <1>1, <1>2, <1>3, <1>4, <1>5 DEF Next, Network

(* Two ends that have just connected have closed nothing. *)
LEMMA InitCloseInv ==
    ASSUME Init
    PROVE  CloseInv
<1>1. \A p \in End : sn[p] = 0 /\ closedCb[p] = NotCalled
  BY DEF Init
<1>2. net = {} /\ NotCalled.by # "Close" /\ NotCalled.reason # "RemoteClose"
  BY DEF Init, NotCalled
<1> QED
  BY <1>1, <1>2 DEF CloseInv, CloseEndsLog, ClosedIsSent, CloseWasHandled, RemoteCloseHasCause

LEMMA CloseInvHolds ==
    ASSUME NoWrap
    PROVE  Spec => []CloseInv
<1>1. Init => CloseInv
  BY InitCloseInv
<1>2. IInv /\ IInv' /\ CloseInv /\ [Next]_vars => CloseInv'
  BY NextCloseStep, CloseStepKeeps
<1> QED
  BY <1>1, <1>2, IInvHolds, PTL DEF Spec

(* The reason GT2RemoteClose is never invented (gti2HandleClose and        *)
(* gti2HandleClosed): the other end has closed or begun to, whatever       *)
(* crossed in flight.                                                      *)
THEOREM RemoteCloseHasCauseHolds ==
    ASSUME NoWrap
    PROVE  Spec => []RemoteCloseHasCause
<1>1. CloseInv => RemoteCloseHasCause
  BY DEF CloseInv
<1> QED
  BY <1>1, CloseInvHolds, PTL

(* A soft close comes after the stream: an end that closes on the peer's   *)
(* Close (gti2HandleClose) was handed everything the peer's application    *)
(* sent.                                                                   *)
THEOREM CloseFlushesHolds ==
    ASSUME NoWrap
    PROVE  Spec => []CloseFlushes
<1>1. IInv /\ CloseInv => CloseFlushes
  <2> SUFFICES ASSUME IInv, CloseInv, NEW p \in End, closedCb[p].by = "Close",
                      NEW i \in DOMAIN log[Other(p)],
                      log[Other(p)][i].type = "AppReliable"
               PROVE  \E j \in DOMAIN handled[p] : handled[p][j] = log[Other(p)][i]
    BY DEF CloseFlushes
  <2>1. /\ log[Other(p)] \in Seq(Message) /\ Len(log[Other(p)]) = sn[Other(p)]
        /\ handled[p] \in Seq(Message) /\ Len(handled[p]) = esn[p]
        /\ sn[Other(p)] \in Nat /\ esn[p] \in Nat /\ esn[p] <= sn[Other(p)]
    BY Ranges, Others
  <2>2. i \in 1..sn[Other(p)] /\ DOMAIN handled[p] = 1..esn[p]
    BY <2>1, LenProperties
  <2>3. PICK k \in 1..esn[p] : log[Other(p)][k].type = "Close"
    BY DEF CloseInv, CloseWasHandled
  <2>4. i <= k
    <3>1. k \in 1..sn[Other(p)]
      BY <2>1
    <3>2. ~(k < i)
      BY <2>2, <2>3, <3>1, Others DEF CloseInv, CloseEndsLog
    <3> QED
      BY <2>1, <2>2, <3>2
  <2>5. i \in 1..esn[p]
    BY <2>1, <2>2, <2>4
  <2>6. handled[p][i] = log[Other(p)][i]
    BY <2>1, <2>5 DEF IInv, InOrderOnce
  <2> QED
    BY <2>2, <2>5, <2>6
<1> QED
  BY <1>1, IInvHolds, CloseInvHolds, PTL
=============================================================================
