--------------------------- MODULE Gt2MessageProofs ---------------------------
(***************************************************************************)
(* The reliable layer of GT2 loses, repeats and reorders nothing, as long  *)
(* as the serials do not come round (NoWrap): proof of the inductive       *)
(* invariant IInv of Gt2Message, action by action, and of the properties   *)
(* that follow from it.                                                    *)
(***************************************************************************)
EXTENDS Gt2Message, Gt2SerialProofs, SequenceTheorems

(* The peer of an end is the other one of the two. *)
LEMMA Others ==
    ASSUME NEW p \in End
    PROVE  Other(p) \in End /\ Other(Other(p)) = p /\ Other(p) # p
BY DEF End, Other

(* The kind of a datagram (its type byte) tells which fields it has. *)
LEMMA KindOfDatagram ==
    ASSUME NEW d \in Datagram
    PROVE  /\ d.kind = "Reliable" => d \in Reliable
           /\ d.kind = "Ack" => d \in Ack
           /\ d.kind = "Nack" => d \in Nack
           /\ d.kind = "Closed" => d \in ClosedMsg
           /\ d.kind \in {"Reliable", "Ack", "Nack", "Closed"}
           /\ d.to \in End
BY DEF Datagram, Reliable, Ack, Nack, ClosedMsg

(* The fields of a reliable datagram have their types. *)
LEMMA MessageOfDatagram ==
    ASSUME NEW d \in Reliable
    PROVE  /\ [sn |-> d.sn, type |-> d.type] \in Message
           /\ d.esn \in Nat /\ d.sn \in Nat /\ d.type \in Type
BY DEF Reliable, Message

(* gti2ResendMessage sends only what the log has, with the present ESN. *)
LEMMA ResendIsLogged ==
    ASSUME IInv, NEW p \in End, NEW I \in SUBSET DOMAIN out[p],
           NEW d \in Resend(p, {out[p][i] : i \in I})
    PROVE  d \in Datagram /\ IsLogged(d)
<1>1. PICK i \in DOMAIN out[p] : d = ReliableTo(Other(p), out[p][i], esn[p])
  BY DEF Resend
<1>2. out[p] \in Seq(Message) /\ i \in 1..Len(out[p]) /\ out[p][i] \in Message
      /\ Len(out[p]) \in Nat
  BY <1>1, LenProperties, ElementOfSeq DEF IInv, TypeOK
<1>3. /\ sn[p] \in Nat /\ esn[p] \in Nat /\ Len(out[p]) <= sn[p]
      /\ out[p][i] = log[p][sn[p] - Len(out[p]) + i]
      /\ log[p][sn[p] - Len(out[p]) + i].sn = sn[p] - Len(out[p]) + i - 1
  <2>1. Len(out[p]) <= sn[p] /\ out[p][i] = log[p][sn[p] - Len(out[p]) + i]
    BY <1>2 DEF IInv, OutIsTail
  <2>2. sn[p] \in Nat /\ esn[p] \in Nat
    BY DEF IInv, TypeOK
  <2>3. sn[p] - Len(out[p]) + i \in 1..sn[p]
    BY <1>2, <2>1, <2>2
  <2> QED
    BY <2>1, <2>2, <2>3 DEF IInv, LogIsNumbered
<1>4. InLog(p, out[p][i])
  BY <1>2, <1>3 DEF InLog
<1>5. [sn |-> out[p][i].sn, type |-> out[p][i].type] = out[p][i]
  BY <1>2 DEF Message
<1>6. d \in Reliable
  BY <1>1, <1>2, <1>3, Others DEF Reliable, ReliableTo, Message
<1>7. d.to = Other(p) /\ d.sn = out[p][i].sn /\ d.type = out[p][i].type /\ d.esn = esn[p]
      /\ d.kind = "Reliable"
  BY <1>1 DEF ReliableTo
<1> QED
  BY <1>3, <1>4, <1>5, <1>6, <1>7, Others DEF IsLogged, Datagram

(* The ranges the invariant gives an end's serials, buffers and histories. *)
LEMMA Ranges ==
    ASSUME NoWrap, IInv, NEW p \in End
    PROVE  /\ sn[p] \in Nat /\ esn[p] \in Nat /\ Half \in Nat
           /\ esn[p] <= sn[Other(p)] /\ sn[p] <= Half
           /\ out[p] \in Seq(Message) /\ Len(out[p]) \in Nat /\ Len(out[p]) <= sn[p]
           /\ log[p] \in Seq(Message) /\ Len(log[p]) = sn[p]
           /\ handled[p] \in Seq(Message) /\ Len(handled[p]) = esn[p]
<1>1. /\ sn[p] \in Nat /\ esn[p] \in Nat /\ out[p] \in Seq(Message)
      /\ log[p] \in Seq(Message) /\ handled[p] \in Seq(Message)
  BY DEF IInv, TypeOK
<1>2. Len(out[p]) \in Nat
  BY <1>1, LenProperties
<1>3. sn[p] <= Half /\ Half \in Nat
  BY <1>1, HalfAssumption, BoundAssumption DEF IInv, LogIsNumbered, NoWrap
<1>4. esn[p] <= sn[Other(p)]
  BY Others DEF IInv, HandledIsCounted, InOrderOnce, LogIsNumbered
<1> QED
  BY <1>1, <1>2, <1>3, <1>4 DEF IInv, OutIsTail, LogIsNumbered, HandledIsCounted

(* What HandleESN leaves of the outgoing buffer is still the end of the log,
   and what it drops the peer has had. *)
LEMMA ConfirmKeepsTail ==
    ASSUME NoWrap, IInv, NEW p \in End, NEW e \in Nat, e <= esn[Other(p)]
    PROVE  \A o : o = HandleESN(out[p], e) =>
               /\ o \in Seq(Message)
               /\ Len(o) \in Nat
               /\ Len(o) <= Len(out[p])
               /\ \A i \in 1..Len(o) : o[i] = log[p][sn[p] - Len(o) + i]
               /\ sn[p] - Len(o) <= esn[Other(p)]
<1> DEFINE base == sn[p] - Len(out[p])
<1> TAKE o
<1> HAVE o = HandleESN(out[p], e)
<1>1. base \in Nat /\ base + Len(out[p]) = sn[p]
  BY Ranges
<1>2. ASSUME NEW i \in 1..Len(out[p])
      PROVE  out[p][i] = log[p][base + i] /\ out[p][i].sn = base + i - 1
  <2>1. out[p][i] = log[p][base + i]
    BY DEF IInv, OutIsTail
  <2>2. base + i \in 1..sn[p]
    BY Ranges, <1>1
  <2>3. log[p][base + i].sn = base + i - 1
    BY <2>2 DEF IInv, LogIsNumbered
  <2> QED
    BY <2>1, <2>3
<1>3. e - base <= Half /\ base + Len(out[p]) - e <= Half
  BY Ranges, Others, <1>1
<1> HIDE DEF base
<1>4. PICK k \in 0..Len(out[p]) :
         /\ o = SubSeq(out[p], k + 1, Len(out[p]))
         /\ k > 0 => base + k <= e
  <2>1. out[p] \in Seq(Message)
    BY Ranges
  <2>2. o = HandleESN(out[p], e)
    OBVIOUS
  <2>3. \A i \in 1..Len(out[p]) : out[p][i].sn = base + i - 1
    BY <1>2
  <2> QED
    BY <1>1, <1>3, <2>1, <2>2, <2>3, HandleESNDropsConfirmed
<1>5. \A i \in (k + 1)..Len(out[p]) : out[p][i] \in Message
  BY Ranges, <1>4, ElementOfSeq
<1>6. /\ o \in Seq(Message)
      /\ Len(o) = Len(out[p]) - k
      /\ \A i \in 1..Len(o) : o[i] = out[p][k + i]
  BY Ranges, <1>4, <1>5, SubSeqProperties
<1>7. sn[p] - Len(o) = base + k
  BY Ranges, <1>1, <1>4, <1>6
<1>8. ASSUME NEW i \in 1..Len(o)
      PROVE  o[i] = log[p][sn[p] - Len(o) + i]
  <2>1. k + i \in 1..Len(out[p])
    BY Ranges, <1>4, <1>6
  <2>2. base + (k + i) = sn[p] - Len(o) + i
    BY Ranges, <1>1, <1>4, <1>6, <1>7
  <2> QED
    BY <1>2, <1>6, <2>1, <2>2
<1>9. base + k <= esn[Other(p)]
  <2>1. base <= esn[Other(p)]
    BY DEF IInv, DroppedIsExpected, base
  <2>2. esn[Other(p)] \in Nat
    BY Others, Ranges
  <2> QED
    BY Ranges, <1>1, <1>4, <2>1, <2>2
<1> QED
  BY Ranges, <1>4, <1>6, <1>7, <1>8, <1>9

(* A step that changes no serial, buffer or history, and sends only what is
   logged, keeps the invariant. *)
LEMMA SameEnds ==
    ASSUME IInv, TypeOK', UNCHANGED <<sn, esn, out, hold, log, handled>>,
           \A d \in net' : IsLogged(d)
    PROVE  IInv'
<1>1. LogIsNumbered' /\ OutIsTail' /\ HandledIsCounted' /\ InOrderOnce' /\ DroppedIsExpected'
  BY DEF IInv, LogIsNumbered, OutIsTail, HandledIsCounted, InOrderOnce, DroppedIsExpected
<1>2. HoldIsLogged' /\ NetIsLogged'
  BY DEF IInv, HoldIsLogged, NetIsLogged, IsLogged, InLog
<1> QED
  BY <1>1, <1>2 DEF IInv

(* So does a step that takes note of an ESN, and may hold a message. *)
LEMMA AfterConfirm ==
    ASSUME NoWrap, IInv, TypeOK', NEW p \in End, NEW e \in Nat, e <= esn[Other(p)],
           out' = [out EXCEPT ![p] = HandleESN(@, e)],
           UNCHANGED <<sn, esn, log, handled>>,
           \A q \in End : \A h \in hold'[q] : InLog(Other(q), h),
           \A d \in net' : IsLogged(d)
    PROVE  IInv'
<1>1. LogIsNumbered' /\ HandledIsCounted' /\ InOrderOnce'
  BY DEF IInv, LogIsNumbered, HandledIsCounted, InOrderOnce
<1>2. HoldIsLogged' /\ NetIsLogged'
  BY DEF HoldIsLogged, NetIsLogged, IsLogged, InLog
<1>3. \A q \in End : q # p => out'[q] = out[q]
  BY DEF IInv, TypeOK
<1>4. out'[p] = HandleESN(out[p], e)
  BY DEF IInv, TypeOK
<1>5. /\ Len(out'[p]) \in Nat /\ Len(out'[p]) <= Len(out[p])
      /\ \A i \in 1..Len(out'[p]) : out'[p][i] = log[p][sn[p] - Len(out'[p]) + i]
      /\ sn[p] - Len(out'[p]) <= esn[Other(p)]
  BY <1>4, ConfirmKeepsTail
<1>6. Len(out'[p]) <= sn[p]
  BY <1>5, Ranges
<1>7. OutIsTail' /\ DroppedIsExpected'
  BY <1>3, <1>5, <1>6 DEF IInv, OutIsTail, DroppedIsExpected
<1> QED
  BY <1>1, <1>2, <1>7 DEF IInv

(* Two ends that have just connected satisfy the invariant. *)
LEMMA InitIInv ==
    ASSUME Init
    PROVE  IInv
<1>1. TypeOK
  BY EmptySeq DEF Init, TypeOK, State, Message, Datagram
<1>2. \A p \in End : Len(log[p]) = 0 /\ Len(out[p]) = 0 /\ Len(handled[p]) = 0
                     /\ sn[p] = 0 /\ esn[p] = 0
  BY DEF Init
<1>3. \A p \in End : 0 <= MaxMsgs[p]
  BY BoundAssumption
<1>4. LogIsNumbered /\ OutIsTail /\ HandledIsCounted /\ InOrderOnce /\ DroppedIsExpected
  BY <1>2, <1>3, Others
     DEF LogIsNumbered, OutIsTail, HandledIsCounted, InOrderOnce, DroppedIsExpected
<1>5. HoldIsLogged /\ NetIsLogged
  BY DEF Init, HoldIsLogged, NetIsLogged
<1> QED
  BY <1>1, <1>4, <1>5 DEF IInv

-----------------------------------------------------------------------------
(* Beginning a reliable message appends it to the log and to the buffer. *)

(* gti2BeginReliableMessage and gti2EndReliableMessage keep the invariant. *)
LEMMA BeginKeepsIInv ==
    ASSUME NoWrap, IInv, NEW p \in End, NEW type \in Type, NEW also,
           \A d \in also : d \in Datagram /\ IsLogged(d),
           BeginAndSend(p, type, also),
           state' \in [End -> State], closedCb' = closedCb,
           lost' \in Nat, dups' \in Nat
    PROVE  IInv'
<1>0. /\ sn[p] \in Nat /\ esn[p] \in Nat /\ Len(out[p]) \in Nat /\ Len(out[p]) <= sn[p]
      /\ out[p] \in Seq(Message) /\ log[p] \in Seq(Message) /\ Len(log[p]) = sn[p]
  BY Ranges
<1> PICK m : m = [sn |-> sn[p], type |-> type]
  OBVIOUS
<1>1. m \in Message
  BY <1>0 DEF Message
<1>2. /\ sn[p] < MaxMsgs[p]
      /\ sn' = [sn EXCEPT ![p] = @ + 1]
      /\ out' = [out EXCEPT ![p] = Append(@, m)]
      /\ log' = [log EXCEPT ![p] = Append(@, m)]
      /\ net' = net \cup Resend(p, {m}) \cup also
      /\ pendingAck' = [pendingAck EXCEPT ![p] = FALSE]
      /\ esn' = esn /\ hold' = hold /\ handled' = handled
  BY DEF BeginAndSend
<1>3. /\ sn \in [End -> Nat] /\ esn \in [End -> Nat]
      /\ out \in [End -> Seq(Message)] /\ log \in [End -> Seq(Message)]
  BY DEF IInv, TypeOK
<1>4. /\ sn'[p] = sn[p] + 1
      /\ out'[p] = Append(out[p], m)
      /\ log'[p] = Append(log[p], m)
      /\ \A q \in End : q # p => sn'[q] = sn[q] /\ out'[q] = out[q] /\ log'[q] = log[q]
  BY <1>2, <1>3
<1>5. /\ Len(out'[p]) = Len(out[p]) + 1
      /\ \A i \in 1..Len(out[p]) : out'[p][i] = out[p][i]
      /\ out'[p][Len(out[p]) + 1] = m
  BY <1>1, <1>4, Ranges, AppendProperties
<1>6. /\ Len(log'[p]) = sn[p] + 1
      /\ \A i \in 1..sn[p] : log'[p][i] = log[p][i]
      /\ log'[p][sn[p] + 1] = m
  BY <1>1, <1>4, Ranges, AppendProperties
<1>7. m.sn = sn[p]
  OBVIOUS
<1>8. \A q \in End, x \in Message : InLog(q, x) => InLog(q, x)'
  <2> SUFFICES ASSUME NEW q \in End, NEW x \in Message, InLog(q, x)
               PROVE  InLog(q, x)'
    OBVIOUS
  <2>1. CASE q # p
    BY <1>4, <2>1 DEF InLog
  <2>2. CASE q = p
    <3>0. x.sn \in Nat
      BY DEF Message
    <3>1. x.sn < sn[p] /\ log[p][x.sn + 1] = x
      BY <2>2 DEF InLog
    <3>2. x.sn + 1 \in 1..sn[p]
      BY <1>0, <3>0, <3>1
    <3>3. log'[p][x.sn + 1] = x
      BY <1>6, <3>1, <3>2
    <3>4. x.sn < sn'[p]
      BY <1>0, <1>4, <3>0, <3>1
    <3> QED
      BY <2>2, <3>3, <3>4 DEF InLog
  <2> QED
    BY <2>1, <2>2
<1>9. \A d \in Resend(p, {m}) : d \in Datagram /\ IsLogged(d)'
  <2> SUFFICES ASSUME NEW d \in Resend(p, {m})
               PROVE  d \in Datagram /\ IsLogged(d)'
    OBVIOUS
  <2>1. d = ReliableTo(Other(p), m, esn[p])
    BY DEF Resend
  <2>2. d \in Reliable
    BY <1>1, <1>3, <2>1, Others DEF ReliableTo, Reliable, Message
  <2>3. d.kind = "Reliable" /\ Other(d.to) = p /\ [sn |-> d.sn, type |-> d.type] = m
        /\ d.esn = esn[p]
    BY <2>1, Others DEF ReliableTo
  <2>4. InLog(p, m)'
    BY <1>0, <1>4, <1>6, <1>7 DEF InLog
  <2> QED
    BY <1>2, <1>3, <2>2, <2>3, <2>4 DEF IsLogged, Datagram
<1>10. \A d \in Datagram : IsLogged(d) => IsLogged(d)'
  <2> SUFFICES ASSUME NEW d \in Datagram, IsLogged(d)
               PROVE  IsLogged(d)'
    OBVIOUS
  <2>1. d.kind = "Reliable" => [sn |-> d.sn, type |-> d.type] \in Message
    BY KindOfDatagram, MessageOfDatagram
  <2> QED
    BY <1>2, <1>8, <2>1, KindOfDatagram, Others DEF IsLogged
<1>11. TypeOK'
  <2>1. Append(out[p], m) \in Seq(Message) /\ Append(log[p], m) \in Seq(Message)
    BY <1>1, Ranges, AppendProperties
  <2>2. out' \in [End -> Seq(Message)] /\ log' \in [End -> Seq(Message)]
    BY <1>2, <1>3, <2>1
  <2>3. net' \in SUBSET Datagram
    BY <1>2, <1>9 DEF IInv, TypeOK
  <2>4. sn' \in [End -> Nat] /\ pendingAck' \in [End -> BOOLEAN]
    BY <1>2, <1>3 DEF IInv, TypeOK
  <2> QED
    BY <1>2, <2>2, <2>3, <2>4 DEF IInv, TypeOK
<1>12. LogIsNumbered'
  <2> SUFFICES ASSUME NEW q \in End
               PROVE  /\ Len(log'[q]) = sn'[q]
                      /\ sn'[q] <= MaxMsgs[q]
                      /\ \A i \in 1..sn'[q] : log'[q][i].sn = i - 1
    BY DEF LogIsNumbered
  <2>1. CASE q # p
    BY <1>4, <2>1 DEF IInv, LogIsNumbered
  <2>2. CASE q = p
    BY <1>2, <1>4, <1>6, <1>7, <2>2, Ranges, BoundAssumption DEF IInv, LogIsNumbered
  <2> QED
    BY <2>1, <2>2
<1>13. OutIsTail'
  <2> SUFFICES ASSUME NEW q \in End
               PROVE  /\ Len(out'[q]) <= sn'[q]
                      /\ \A i \in 1..Len(out'[q]) :
                            out'[q][i] = log'[q][sn'[q] - Len(out'[q]) + i]
    BY DEF OutIsTail
  <2>1. CASE q # p
    BY <1>4, <2>1 DEF IInv, OutIsTail
  <2>2. CASE q = p
    <3>1. Len(out'[p]) <= sn'[p] /\ sn'[p] - Len(out'[p]) = sn[p] - Len(out[p])
      BY <1>0, <1>4, <1>5
    <3>2. ASSUME NEW i \in 1..Len(out[p])
          PROVE  out'[p][i] = log'[p][sn[p] - Len(out[p]) + i]
      <4>1. out[p][i] = log[p][sn[p] - Len(out[p]) + i]
        BY DEF IInv, OutIsTail
      <4>2. sn[p] - Len(out[p]) + i \in 1..sn[p]
        BY <1>0
      <4> QED
        BY <1>5, <1>6, <4>1, <4>2
    <3>3. sn[p] - Len(out[p]) + (Len(out[p]) + 1) = sn[p] + 1
      BY <1>0
    <3>4. ASSUME NEW i \in 1..Len(out'[p])
          PROVE  out'[p][i] = log'[p][sn'[p] - Len(out'[p]) + i]
      <4>1. CASE i \in 1..Len(out[p])
        BY <3>1, <3>2, <4>1
      <4>2. CASE i = Len(out[p]) + 1
        BY <1>5, <1>6, <3>1, <3>3, <4>2
      <4> QED
        BY <1>0, <1>5, <4>1, <4>2
    <3> QED
      BY <2>2, <3>1, <3>4
  <2> QED
    BY <2>1, <2>2
<1>14. HoldIsLogged'
  BY <1>2, <1>8, Others DEF IInv, TypeOK, HoldIsLogged
<1>15. NetIsLogged'
  BY <1>2, <1>9, <1>10 DEF IInv, TypeOK, NetIsLogged
<1>16. HandledIsCounted'
  BY <1>2 DEF IInv, HandledIsCounted
<1>17. InOrderOnce'
  <2> SUFFICES ASSUME NEW q \in End
               PROVE  /\ Len(handled[q]) <= Len(log'[Other(q)])
                      /\ \A i \in 1..Len(handled[q]) :
                            handled[q][i] = log'[Other(q)][i]
    BY <1>2 DEF InOrderOnce
  <2>1. /\ Len(handled[q]) <= Len(log[Other(q)])
        /\ \A i \in 1..Len(handled[q]) : handled[q][i] = log[Other(q)][i]
    BY DEF IInv, InOrderOnce
  <2>2. CASE Other(q) # p
    BY <1>4, <2>1, <2>2, Others
  <2>3. CASE Other(q) = p
    BY <1>6, <2>1, <2>3, Ranges, Others
  <2> QED
    BY <2>2, <2>3
<1>18. DroppedIsExpected'
  <2> SUFFICES ASSUME NEW q \in End
               PROVE  sn'[q] - Len(out'[q]) <= esn[Other(q)]
    BY <1>2 DEF DroppedIsExpected
  <2>1. sn[q] - Len(out[q]) <= esn[Other(q)]
    BY DEF IInv, DroppedIsExpected
  <2>2. CASE q # p
    BY <1>4, <2>1, <2>2
  <2>3. CASE q = p
    <3>1. sn'[p] - Len(out'[p]) = sn[p] - Len(out[p])
      BY <1>0, <1>4, <1>5
    <3> QED
      BY <2>1, <2>3, <3>1
  <2> QED
    BY <2>2, <2>3
<1> QED
  BY <1>11, <1>12, <1>13, <1>14, <1>15, <1>16, <1>17, <1>18 DEF IInv
-----------------------------------------------------------------------------
(* The datagrams that carry no message. *)

(* A Closed (gti2SendClosed) carries no serial. *)
LEMMA ClosedIsLogged ==
    ASSUME NEW p \in End
    PROVE  ClosedTo(p) \in Datagram /\ IsLogged(ClosedTo(p))
BY DEF ClosedTo, ClosedMsg, Datagram, IsLogged

(* An ack (gti2SendAck) carries the ESN of the end that sends it. *)
LEMMA AckIsLogged ==
    ASSUME IInv, NEW p \in End
    PROVE  AckTo(Other(p), esn[p]) \in Datagram /\ IsLogged(AckTo(Other(p), esn[p]))
<1>1. esn[p] \in Nat /\ esn[p] <= esn[p]
  BY DEF IInv, TypeOK
<1> QED
  BY <1>1, Others DEF AckTo, Ack, Datagram, IsLogged

(* gti2ConnectionError leaves the state and the closed callback typed. *)
LEMMA CloseEndTypes ==
    ASSUME TypeOK, NEW p \in End, NEW by \in Closer, NEW reason \in Reason,
           CloseEnd(p, by, reason)
    PROVE  /\ state' \in [End -> State]
           /\ closedCb' \in [End -> {NotCalled} \cup [by : Closer, reason : Reason]]
BY DEF TypeOK, CloseEnd, State

(* The reason of a close is one of the reasons. *)
LEMMA LocalOrRemoteType ==
    ASSUME NEW p \in End
    PROVE  LocalOrRemote(p) \in Reason
BY DEF LocalOrRemote, Reason

(* gti2MemoryError keeps the invariant. *)
LEMMA OverflowKeepsIInv ==
    ASSUME IInv, NEW p \in End, NEW also,
           \A d \in also : d \in Datagram /\ IsLogged(d),
           MemoryError(p, net \cup also),
           UNCHANGED <<sn, esn, out, hold, log, handled>>,
           pendingAck' \in [End -> BOOLEAN], lost' \in Nat, dups' \in Nat
    PROVE  IInv'
<1>1. net' = net \cup also \cup {ClosedTo(Other(p))}
      /\ CloseEnd(p, "Memory", "NotEnoughMemory")
  BY DEF MemoryError
<1>2. \A d \in net' : d \in Datagram /\ IsLogged(d)
  BY <1>1, ClosedIsLogged, Others DEF IInv, TypeOK, NetIsLogged
<1>3. TypeOK'
  BY <1>1, <1>2, CloseEndTypes DEF IInv, TypeOK, Closer, Reason
<1> QED
  BY <1>2, <1>3, SameEnds

-----------------------------------------------------------------------------
(* The application's calls and the timers. *)

(* gt2Send keeps the invariant. *)
LEMMA SendKeepsIInv ==
    ASSUME NoWrap, IInv, NEW p \in End, Send(p)
    PROVE  IInv'
<1>1. lost' \in Nat /\ dups' \in Nat
  BY DEF IInv, TypeOK, Send
<1>2. CASE BeginAndSend(p, "AppReliable", {}) /\ UNCHANGED <<state, closedCb>>
  <2>1. state' \in [End -> State] /\ "AppReliable" \in Type
    BY <1>2 DEF IInv, TypeOK, Type
  <2> QED
    BY <1>1, <1>2, <2>1, BeginKeepsIInv
<1>3. CASE BeginOverflows(p, {}) /\ UNCHANGED pendingAck
  <2>1. pendingAck' \in [End -> BOOLEAN]
    BY <1>3 DEF IInv, TypeOK
  <2>2. PICK none : none = {}
    OBVIOUS
  <2>3. /\ MemoryError(p, net \cup none)
        /\ UNCHANGED <<sn, esn, out, hold, log, handled>>
    BY <1>3, <2>2 DEF BeginOverflows
  <2>4. \A d \in none : d \in Datagram /\ IsLogged(d)
    BY <2>2
  <2> QED
    BY <1>1, <2>1, <2>3, <2>4, OverflowKeepsIInv
<1> QED
  BY <1>2, <1>3 DEF Send

(* gt2CloseConnection keeps the invariant. *)
LEMMA CloseConnectionKeepsIInv ==
    ASSUME NoWrap, IInv, NEW p \in End, CloseConnection(p)
    PROVE  IInv'
<1>1. lost' \in Nat /\ dups' \in Nat
  BY DEF IInv, TypeOK, CloseConnection
<1>2. CASE /\ BeginAndSend(p, "Close", {})
           /\ state' = [state EXCEPT ![p] = "Closing"]
           /\ UNCHANGED closedCb
  <2>1. state' \in [End -> State] /\ "Close" \in Type
    BY <1>2 DEF IInv, TypeOK, Type, State
  <2> QED
    BY <1>1, <1>2, <2>1, BeginKeepsIInv
<1>3. CASE BeginOverflows(p, {}) /\ UNCHANGED pendingAck
  <2>1. pendingAck' \in [End -> BOOLEAN]
    BY <1>3 DEF IInv, TypeOK
  <2>2. PICK none : none = {}
    OBVIOUS
  <2>3. /\ MemoryError(p, net \cup none)
        /\ UNCHANGED <<sn, esn, out, hold, log, handled>>
    BY <1>3, <2>2 DEF BeginOverflows
  <2>4. \A d \in none : d \in Datagram /\ IsLogged(d)
    BY <2>2
  <2> QED
    BY <1>1, <2>1, <2>3, <2>4, OverflowKeepsIInv
<1> QED
  BY <1>2, <1>3 DEF CloseConnection

(* gt2CloseConnectionHard keeps the invariant. *)
LEMMA CloseHardKeepsIInv ==
    ASSUME IInv, NEW p \in End, CloseConnectionHard(p)
    PROVE  IInv'
<1>1. \A d \in net' : d \in Datagram /\ IsLogged(d)
  BY ClosedIsLogged, Others DEF CloseConnectionHard, IInv, TypeOK, NetIsLogged
<1>2. TypeOK'
  BY <1>1, CloseEndTypes
     DEF CloseConnectionHard, IInv, TypeOK, Closer, Reason
<1> QED
  BY <1>1, <1>2, SameEnds DEF CloseConnectionHard

(* What gti2SendRetries and gti2CheckPendingAck send is logged. *)
LEMMA TimersAreLogged ==
    ASSUME IInv, NEW p \in End, NEW due \in SUBSET DOMAIN out[p],
           NEW ackDue \in BOOLEAN
    PROVE  \A d \in SendRetries(p, due) \cup CheckPendingAck(p, ackDue) :
              d \in Datagram /\ IsLogged(d)
<1>1. \A d \in SendRetries(p, due) : d \in Datagram /\ IsLogged(d)
  BY ResendIsLogged DEF SendRetries
<1>2. \A d \in CheckPendingAck(p, ackDue) : d \in Datagram /\ IsLogged(d)
  BY AckIsLogged DEF CheckPendingAck
<1> QED
  BY <1>1, <1>2

(* gti2ConnectionThink keeps the invariant. *)
LEMMA ThinkKeepsIInv ==
    ASSUME NoWrap, IInv, NEW p \in End, NEW due \in SUBSET DOMAIN out[p],
           NEW ackDue \in BOOLEAN, ConnectionThink(p, due, ackDue)
    PROVE  IInv'
<1>1. /\ lost' \in Nat /\ dups' \in Nat
      /\ AckSent(p, ackDue) => pendingAck' \in [End -> BOOLEAN]
  <2>1. lost' \in Nat /\ dups' \in Nat
    BY DEF IInv, TypeOK, ConnectionThink
  <2>2. pendingAck \in [End -> BOOLEAN]
    BY DEF IInv, TypeOK
  <2>3. (pendingAck[p] /\ ~ackDue) \in BOOLEAN
    OBVIOUS
  <2> QED
    BY <2>1, <2>2, <2>3 DEF AckSent
<1>2. CASE /\ BeginAndSend(p, "KeepAlive", SendRetries(p, due))
           /\ UNCHANGED <<state, closedCb>>
  <2>1. state' \in [End -> State] /\ "KeepAlive" \in Type
    BY <1>2 DEF IInv, TypeOK, Type
  <2> QED
    BY <1>1, <1>2, <2>1, TimersAreLogged, BeginKeepsIInv
<1>3. CASE /\ BeginOverflows(p, SendRetries(p, due) \cup CheckPendingAck(p, ackDue))
           /\ AckSent(p, ackDue)
  BY <1>1, <1>3, TimersAreLogged, OverflowKeepsIInv DEF BeginOverflows
<1>4. CASE /\ net' = net \cup SendRetries(p, due) \cup CheckPendingAck(p, ackDue)
           /\ AckSent(p, ackDue)
           /\ UNCHANGED <<state, sn, esn, out, hold, closedCb, log, handled>>
  <2>1. \A d \in net' : d \in Datagram /\ IsLogged(d)
    BY <1>4, TimersAreLogged DEF IInv, TypeOK, NetIsLogged
  <2>2. TypeOK'
    BY <1>1, <1>4, <2>1 DEF IInv, TypeOK
  <2> QED
    BY <1>4, <2>1, <2>2, SameEnds
<1> QED
  BY <1>2, <1>3, <1>4 DEF ConnectionThink, CheckKeepAlive
-----------------------------------------------------------------------------
(* The handlers.  What stays in flight was in flight before, and a message
   that arrives is one of the other end's log. *)

(* A datagram taken from the network, and those left there, are logged. *)
LEMMA ArrivesTypes ==
    ASSUME IInv, NEW p \in End, NEW d \in net, NEW rest, Arrives(p, d, rest)
    PROVE  /\ d.to = p /\ d \in Datagram /\ IsLogged(d)
           /\ lost' \in Nat /\ dups' \in Nat
           /\ \A x \in rest : x \in Datagram /\ IsLogged(x)
BY DEF Arrives, IInv, TypeOK, NetIsLogged

(* The serial of a reliable message that arrives compares with the ESN as
   unwrapped counts do, and the message is the one the peer logged there. *)
LEMMA ArrivedReliable ==
    ASSUME NoWrap, IInv, NEW p \in End, NEW d \in net, d.to = p, d.kind = "Reliable"
    PROVE  /\ d.sn \in Nat /\ d.esn \in Nat /\ d.esn <= esn[Other(p)] /\ d.type \in Type
           /\ [sn |-> d.sn, type |-> d.type] \in Message
           /\ InLog(Other(p), [sn |-> d.sn, type |-> d.type])
           /\ d.sn < sn[Other(p)]
           /\ SNDiff(d.sn, esn[p]) = d.sn - esn[p]
           /\ SameSN(d.sn, esn[p]) <=> d.sn = esn[p]
<1>1. d \in Reliable
  BY KindOfDatagram DEF IInv, TypeOK
<1>2. /\ d.sn \in Nat /\ d.esn \in Nat /\ d.type \in Type
      /\ [sn |-> d.sn, type |-> d.type] \in Message
  BY <1>1, MessageOfDatagram
<1>3. d.esn <= esn[Other(p)] /\ InLog(Other(p), [sn |-> d.sn, type |-> d.type])
  BY DEF IInv, NetIsLogged, IsLogged
<1>4. d.sn < sn[Other(p)]
  BY <1>3 DEF InLog
<1>5. -Half <= d.sn - esn[p] /\ d.sn - esn[p] < Half /\ esn[p] \in Int /\ d.sn \in Int
  <2>1. /\ esn[p] \in Nat /\ Half \in Nat /\ esn[p] <= sn[Other(p)]
        /\ sn[Other(p)] \in Nat /\ sn[Other(p)] <= Half
    BY Ranges, Others
  <2> QED
    BY <1>2, <1>4, <2>1
<1> QED
  BY <1>2, <1>3, <1>4, <1>5, SNDiffIsDistance, SameSNIsEqual

(* HandleESN leaves a sequence of messages. *)
LEMMA OutAfterConfirm ==
    ASSUME NoWrap, IInv, NEW p \in End, NEW e \in Nat, e <= esn[Other(p)],
           out' = [out EXCEPT ![p] = HandleESN(@, e)]
    PROVE  out' \in [End -> Seq(Message)]
<1>1. HandleESN(out[p], e) \in Seq(Message)
  BY ConfirmKeepsTail
<1> QED
  BY <1>1 DEF IInv, TypeOK

(* The answer of a closed end keeps the invariant. *)
LEMMA WhenClosedKeepsIInv ==
    ASSUME IInv, NEW p \in End, NEW d \in net, NEW rest,
           Arrives(p, d, rest), ReceiveWhenClosed(p, d, rest)
    PROVE  IInv'
<1>1. \A x \in net' : x \in Datagram /\ IsLogged(x)
  BY ArrivesTypes, ClosedIsLogged, Others DEF ReceiveWhenClosed
<1>2. UNCHANGED endVars
  BY DEF ReceiveWhenClosed
<1>3. TypeOK'
  BY <1>1, <1>2, ArrivesTypes DEF IInv, TypeOK, endVars
<1> QED
  BY <1>1, <1>2, <1>3, SameEnds DEF endVars

(* A duplicate of a reliable message keeps the invariant. *)
LEMMA DuplicateKeepsIInv ==
    ASSUME NoWrap, IInv, NEW p \in End, NEW d \in net, NEW rest,
           Arrives(p, d, rest), ReceiveDuplicate(p, d, rest)
    PROVE  IInv'
<1>1. d.esn \in Nat /\ d.esn <= esn[Other(p)]
  BY ArrivesTypes, ArrivedReliable DEF ReceiveDuplicate
<1>2. /\ out' = [out EXCEPT ![p] = HandleESN(@, d.esn)]
      /\ pendingAck' = [pendingAck EXCEPT ![p] = TRUE]
      /\ net' = rest
      /\ UNCHANGED <<state, sn, esn, hold, closedCb, log, handled>>
  BY DEF ReceiveDuplicate
<1>3. out' \in [End -> Seq(Message)]
  BY <1>1, <1>2, OutAfterConfirm
<1>4. TypeOK'
  BY <1>2, <1>3, ArrivesTypes DEF IInv, TypeOK
<1> QED
  BY <1>1, <1>2, <1>4, ArrivesTypes, AfterConfirm DEF IInv, HoldIsLogged

(* gti2HandleAck keeps the invariant. *)
LEMMA AckKeepsIInv ==
    ASSUME NoWrap, IInv, NEW p \in End, NEW d \in net, NEW rest,
           Arrives(p, d, rest), ReceiveAck(p, d, rest)
    PROVE  IInv'
<1>1. d.esn \in Nat /\ d.esn <= esn[Other(p)]
  BY ArrivesTypes, KindOfDatagram DEF ReceiveAck, IsLogged, Ack
<1>2. /\ out' = [out EXCEPT ![p] = HandleESN(@, d.esn)]
      /\ net' = rest
      /\ UNCHANGED <<state, sn, esn, hold, pendingAck, closedCb, log, handled>>
  BY DEF ReceiveAck
<1>3. out' \in [End -> Seq(Message)]
  BY <1>1, <1>2, OutAfterConfirm
<1>4. TypeOK'
  BY <1>2, <1>3, ArrivesTypes DEF IInv, TypeOK
<1> QED
  BY <1>1, <1>2, <1>4, ArrivesTypes, AfterConfirm DEF IInv, HoldIsLogged

(* gti2HandleNack keeps the invariant. *)
LEMMA NackKeepsIInv ==
    ASSUME IInv, NEW p \in End, NEW d \in net, NEW rest,
           Arrives(p, d, rest), ReceiveNack(p, d, rest)
    PROVE  IInv'
<1>1. PICK missing \in SUBSET DOMAIN out[p] :
         net' = rest \cup Resend(p, {out[p][i] : i \in missing})
  BY DEF ReceiveNack
<1>2. \A x \in net' : x \in Datagram /\ IsLogged(x)
  BY <1>1, ArrivesTypes, ResendIsLogged
<1>3. UNCHANGED endVars
  BY DEF ReceiveNack
<1>4. TypeOK'
  BY <1>2, <1>3, ArrivesTypes DEF IInv, TypeOK, endVars
<1> QED
  BY <1>2, <1>3, <1>4, SameEnds DEF endVars

(* gti2HandleClosed keeps the invariant. *)
LEMMA ClosedKeepsIInv ==
    ASSUME IInv, NEW p \in End, NEW d \in net, NEW rest,
           Arrives(p, d, rest), ReceiveClosed(p, d, rest)
    PROVE  IInv'
<1>1. /\ CloseEnd(p, "Closed", LocalOrRemote(p))
      /\ net' = rest
      /\ UNCHANGED <<sn, esn, out, hold, pendingAck, log, handled>>
  BY DEF ReceiveClosed
<1>2. \A x \in net' : x \in Datagram /\ IsLogged(x)
  BY <1>1, ArrivesTypes
<1>3. /\ state' \in [End -> State]
      /\ closedCb' \in [End -> {NotCalled} \cup [by : Closer, reason : Reason]]
  BY <1>1, LocalOrRemoteType, CloseEndTypes DEF IInv, Closer
<1>4. TypeOK'
  BY <1>1, <1>2, <1>3, ArrivesTypes DEF IInv, TypeOK
<1> QED
  BY <1>1, <1>2, <1>4, SameEnds

(* The loss of a datagram keeps the invariant. *)
LEMMA LoseKeepsIInv ==
    ASSUME IInv, NEW d, Lose(d)
    PROVE  IInv'
<1>1. \A x \in net' : x \in Datagram /\ IsLogged(x)
  BY DEF Lose, IInv, TypeOK, NetIsLogged
<1>2. TypeOK'
  BY DEF Lose, IInv, TypeOK, endVars
<1> QED
  BY <1>1, <1>2, SameEnds DEF Lose, endVars
(* The nack of gti2BufferIncomingMessage carries serials, and no message. *)
LEMMA NackForIsLogged ==
    ASSUME NoWrap, IInv, NEW p \in End, NEW m \in Message, m.sn > 0,
           NEW x \in NackFor(p, m)
    PROVE  x \in Datagram /\ IsLogged(x)
<1>1. m.sn - 1 \in Nat /\ esn[p] \in Nat /\ \A h \in hold[p] : h.sn + 1 \in Nat
  BY DEF IInv, TypeOK, Message
<1>2. PICK min \in Nat, max \in Nat : x = NackTo(Other(p), min, max)
  BY <1>1 DEF NackFor
<1> QED
  BY <1>2, Others DEF NackTo, Nack, Datagram, IsLogged

(* A reliable message ahead of the expected one keeps the invariant, whether
   it is held, was held already, or overflows the buffer. *)
LEMMA EarlyKeepsIInv ==
    ASSUME NoWrap, IInv, NEW p \in End, NEW d \in net, NEW rest,
           Arrives(p, d, rest), ReceiveEarly(p, d, rest)
    PROVE  IInv'
<1> PICK m : m = [sn |-> d.sn, type |-> d.type]
  OBVIOUS
<1>1. /\ d.esn \in Nat /\ d.esn <= esn[Other(p)] /\ m.sn > 0
      /\ m \in Message /\ InLog(Other(p), m)
  <2>1. d.kind = "Reliable" /\ d.to = p /\ SNDiff(d.sn, esn[p]) > 0
    BY ArrivesTypes DEF ReceiveEarly
  <2>2. /\ d.sn \in Nat /\ d.esn \in Nat /\ d.esn <= esn[Other(p)]
        /\ m \in Message /\ InLog(Other(p), m)
        /\ SNDiff(d.sn, esn[p]) = d.sn - esn[p]
    BY <2>1, ArrivedReliable
  <2>3. esn[p] \in Nat
    BY DEF IInv, TypeOK
  <2> QED
    BY <2>1, <2>2, <2>3
<1>2. /\ out' = [out EXCEPT ![p] = HandleESN(@, d.esn)]
      /\ UNCHANGED <<sn, esn, pendingAck, log, handled>>
      /\ \/ net' = rest /\ UNCHANGED <<state, hold, closedCb>>
         \/ /\ hold' = [hold EXCEPT ![p] = @ \cup {m}]
            /\ net' = rest \cup NackFor(p, m)
            /\ UNCHANGED <<state, closedCb>>
         \/ MemoryError(p, rest) /\ UNCHANGED hold
  BY DEF ReceiveEarly
<1>3. \A x \in net' : x \in Datagram /\ IsLogged(x)
  BY <1>1, <1>2, ArrivesTypes, NackForIsLogged, ClosedIsLogged, Others DEF MemoryError
<1>4. /\ hold' \in [End -> SUBSET Message]
      /\ \A q \in End : \A h \in hold'[q] : InLog(Other(q), h)
  <2>1. hold \in [End -> SUBSET Message] /\ \A q \in End : \A h \in hold[q] : InLog(Other(q), h)
    BY DEF IInv, TypeOK, HoldIsLogged
  <2> QED
    BY <1>1, <1>2, <2>1
<1>5. /\ state' \in [End -> State]
      /\ closedCb' \in [End -> {NotCalled} \cup [by : Closer, reason : Reason]]
  <2>1. CASE UNCHANGED <<state, closedCb>>
    BY <2>1 DEF IInv, TypeOK
  <2>2. CASE MemoryError(p, rest)
    BY <2>2, CloseEndTypes DEF MemoryError, IInv, Closer, Reason
  <2> QED
    BY <1>2, <2>1, <2>2
<1>6. out' \in [End -> Seq(Message)]
  BY <1>1, <1>2, OutAfterConfirm
<1>7. TypeOK'
  BY <1>2, <1>3, <1>4, <1>5, <1>6, ArrivesTypes DEF IInv, TypeOK
<1> QED
  BY <1>1, <1>2, <1>3, <1>4, <1>7, AfterConfirm
-----------------------------------------------------------------------------
(* The expected message, and the one of the hold that follows it. *)

(* A pair is a sequence of length two. *)
LEMMA PairIsSeq ==
    ASSUME NEW S, NEW a \in S, NEW b \in S
    PROVE  /\ <<a, b>> \in Seq(S) /\ Len(<<a, b>>) = 2
           /\ <<a, b>>[1] = a /\ <<a, b>>[2] = b
OBVIOUS

(* What is delivered continues the peer's log where the end was. *)
LEMMA InTurnIsLogged ==
    ASSUME NoWrap, IInv, NEW p \in End, NEW m \in Message,
           m.sn = esn[p], InLog(Other(p), m),
           NEW inTurn, inTurn = InTurn(p, m)
    PROVE  /\ inTurn \in Seq(Message) /\ Len(inTurn) \in 1..2
           /\ esn[p] + Len(inTurn) <= sn[Other(p)]
           /\ \A i \in 1..Len(inTurn) : inTurn[i] = log[Other(p)][esn[p] + i]
<1>1. /\ esn[p] \in Nat /\ Half \in Nat /\ sn[Other(p)] \in Nat
      /\ sn[Other(p)] <= Half
  BY Ranges, Others
<1>2. esn[p] < sn[Other(p)] /\ log[Other(p)][esn[p] + 1] = m
  BY DEF InLog
<1>3. CASE NextHeld(p) = {}
  BY <1>1, <1>2, <1>3 DEF InTurn
<1>4. CASE NextHeld(p) # {}
  <2>1. PICK h \in NextHeld(p) : inTurn = <<m, h>>
    BY <1>4 DEF InTurn
  <2>2. h \in hold[p] /\ SameSN(h.sn, esn[p] + 1)
    BY DEF NextHeld
  <2>3. h \in Message /\ InLog(Other(p), h)
    BY <2>2 DEF IInv, TypeOK, HoldIsLogged
  <2>4. h.sn \in Nat /\ h.sn < sn[Other(p)] /\ log[Other(p)][h.sn + 1] = h
    BY <2>3 DEF Message, InLog
  <2>5. -Half <= h.sn - (esn[p] + 1) /\ h.sn - (esn[p] + 1) < Half
        /\ esn[p] + 1 \in Int /\ h.sn \in Int
    BY <1>1, <1>2, <2>4
  <2>6. h.sn = esn[p] + 1
    BY <2>2, <2>5, SameSNIsEqual
  <2>7. log[Other(p)][esn[p] + 2] = h /\ esn[p] + 2 <= sn[Other(p)]
    BY <1>1, <2>4, <2>6
  <2>8. /\ inTurn \in Seq(Message) /\ Len(inTurn) = 2
        /\ inTurn[1] = m /\ inTurn[2] = h
    BY <2>1, <2>3, PairIsSeq
  <2>9. ASSUME NEW i \in 1..Len(inTurn)
        PROVE  inTurn[i] = log[Other(p)][esn[p] + i]
    <3>1. i = 1 \/ i = 2
      BY <2>8
    <3> QED
      BY <1>2, <2>7, <2>8, <3>1
  <2> QED
    BY <2>7, <2>8, <2>9
<1> QED
  BY <1>3, <1>4

(* The two parts of a concatenation. *)
LEMMA ConcatParts ==
    ASSUME NEW S, NEW s \in Seq(S), NEW t \in Seq(S)
    PROVE  /\ s \o t \in Seq(S) /\ Len(s \o t) = Len(s) + Len(t)
           /\ \A i \in 1..Len(s) : (s \o t)[i] = s[i]
           /\ \A i \in 1..Len(t) : (s \o t)[Len(s) + i] = t[i]
OBVIOUS

(* Delivering the expected message, and the held one that follows it, keeps
   the invariant. *)
LEMMA ExpectedKeepsIInv ==
    ASSUME NoWrap, IInv, NEW p \in End, NEW d \in net, NEW rest,
           Arrives(p, d, rest), ReceiveExpected(p, d, rest)
    PROVE  IInv'
<1> PICK m : m = [sn |-> d.sn, type |-> d.type]
  OBVIOUS
<1> PICK inTurn : inTurn = InTurn(p, m)
  OBVIOUS
<1>1. /\ d.kind = "Reliable" /\ SameSN(d.sn, esn[p])
      /\ out' = [out EXCEPT ![p] = HandleESN(@, d.esn)]
      /\ esn' = [esn EXCEPT ![p] = @ + Len(inTurn)]
      /\ hold' = [hold EXCEPT ![p] = @ \ NextHeld(p)]
      /\ handled' = [handled EXCEPT ![p] = @ \o inTurn]
      /\ pendingAck' = [pendingAck EXCEPT ![p] = TRUE]
      /\ \/ /\ CloseEnd(p, "Close", LocalOrRemote(p))
            /\ net' = rest \cup {ClosedTo(Other(p))}
         \/ net' = rest /\ UNCHANGED <<state, closedCb>>
      /\ UNCHANGED <<sn, log>>
  BY DEF ReceiveExpected
<1>2. /\ d.esn \in Nat /\ d.esn <= esn[Other(p)] /\ m \in Message
      /\ InLog(Other(p), m) /\ m.sn = esn[p]
  BY <1>1, ArrivesTypes, ArrivedReliable
<1>3. /\ inTurn \in Seq(Message) /\ Len(inTurn) \in 1..2
      /\ esn[p] + Len(inTurn) <= sn[Other(p)]
      /\ \A i \in 1..Len(inTurn) : inTurn[i] = log[Other(p)][esn[p] + i]
  BY <1>2, InTurnIsLogged
<1>4. /\ esn \in [End -> Nat] /\ hold \in [End -> SUBSET Message]
      /\ out \in [End -> Seq(Message)] /\ handled \in [End -> Seq(Message)]
  BY DEF IInv, TypeOK
<1>5. /\ \A q \in End : q # p => /\ esn'[q] = esn[q] /\ out'[q] = out[q]
                                 /\ handled'[q] = handled[q]
      /\ esn'[p] = esn[p] + Len(inTurn)
      /\ out'[p] = HandleESN(out[p], d.esn)
      /\ handled'[p] = handled[p] \o inTurn
      /\ \A q \in End : hold'[q] \subseteq hold[q]
      /\ \A q \in End : esn'[q] \in Nat /\ esn[q] <= esn'[q]
  BY <1>1, <1>3, <1>4
<1>6. /\ Len(out'[p]) \in Nat /\ Len(out'[p]) <= Len(out[p])
      /\ \A i \in 1..Len(out'[p]) : out'[p][i] = log[p][sn[p] - Len(out'[p]) + i]
      /\ sn[p] - Len(out'[p]) <= esn[Other(p)]
  BY <1>2, <1>5, ConfirmKeepsTail
<1>7. /\ handled'[p] \in Seq(Message)
      /\ Len(handled[p]) = esn[p]
      /\ Len(handled'[p]) = esn[p] + Len(inTurn)
      /\ \A i \in 1..esn[p] : handled'[p][i] = handled[p][i]
      /\ \A i \in 1..Len(inTurn) : handled'[p][esn[p] + i] = inTurn[i]
  <2>1. handled[p] \in Seq(Message) /\ Len(handled[p]) = esn[p] /\ esn[p] \in Nat
    BY Ranges
  <2>2. PICK s : s = handled[p]
    OBVIOUS
  <2>3. /\ s \o inTurn \in Seq(Message) /\ Len(s \o inTurn) = Len(s) + Len(inTurn)
        /\ \A i \in 1..Len(s) : (s \o inTurn)[i] = s[i]
        /\ \A i \in 1..Len(inTurn) : (s \o inTurn)[Len(s) + i] = inTurn[i]
    BY <1>3, <2>1, <2>2, ConcatParts
  <2>4. handled'[p] = s \o inTurn
    BY <1>5, <2>2
  <2> QED
    BY <2>1, <2>2, <2>3, <2>4
<1>8. \A q \in End, x \in Message : InLog(q, x) <=> InLog(q, x)'
  BY <1>1 DEF InLog
<1>9. \A x \in net' : x \in Datagram /\ IsLogged(x)
  BY <1>1, ArrivesTypes, ClosedIsLogged, Others
<1>10. TypeOK'
  <2>1. /\ state' \in [End -> State]
        /\ closedCb' \in [End -> {NotCalled} \cup [by : Closer, reason : Reason]]
    <3>1. CASE CloseEnd(p, "Close", LocalOrRemote(p))
      BY <3>1, LocalOrRemoteType, CloseEndTypes DEF IInv, Closer
    <3>2. CASE UNCHANGED <<state, closedCb>>
      BY <3>2 DEF IInv, TypeOK
    <3> QED
      BY <1>1, <3>1, <3>2
  <2>2. out' \in [End -> Seq(Message)]
    BY <1>1, <1>2, OutAfterConfirm
  <2>3. esn' \in [End -> Nat] /\ hold' \in [End -> SUBSET Message]
    BY <1>1, <1>3, <1>4
  <2>4. handled' \in [End -> Seq(Message)]
    BY <1>1, <1>4, <1>5, <1>7
  <2> QED
    BY <1>1, <1>9, <2>1, <2>2, <2>3, <2>4, ArrivesTypes DEF IInv, TypeOK
<1>11. LogIsNumbered'
  BY <1>1 DEF IInv, LogIsNumbered
<1>12. OutIsTail'
  <2>1. Len(out'[p]) <= sn[p]
    BY <1>6, Ranges
  <2> QED
    BY <1>1, <1>5, <1>6, <2>1 DEF IInv, OutIsTail
<1>13. HoldIsLogged'
  BY <1>4, <1>5, <1>8, Others DEF IInv, HoldIsLogged
<1>14. NetIsLogged'
  <2> SUFFICES ASSUME NEW x \in net'
               PROVE  IsLogged(x)'
    BY DEF NetIsLogged
  <2>1. x \in Datagram /\ IsLogged(x) /\ x.to \in End
    BY <1>9, KindOfDatagram
  <2>2. x.kind = "Reliable" => InLog(Other(x.to), [sn |-> x.sn, type |-> x.type])'
    BY <1>8, <2>1, KindOfDatagram, MessageOfDatagram, Others DEF IsLogged
  <2>3. x.kind \in {"Reliable", "Ack"} => x.esn <= esn'[Other(x.to)]
    <3> SUFFICES ASSUME x.kind \in {"Reliable", "Ack"}
                 PROVE  x.esn <= esn'[Other(x.to)]
      OBVIOUS
    <3>1. x.esn \in Nat
      BY <2>1, KindOfDatagram DEF Reliable, Ack
    <3>2. /\ x.esn <= esn[Other(x.to)] /\ esn[Other(x.to)] \in Nat
          /\ esn[Other(x.to)] <= esn'[Other(x.to)] /\ esn'[Other(x.to)] \in Nat
      BY <1>4, <1>5, <2>1, Others DEF IsLogged
    <3> QED
      BY <3>1, <3>2
  <2> QED
    BY <2>2, <2>3 DEF IsLogged
<1>15. HandledIsCounted'
  BY <1>5, <1>7 DEF IInv, HandledIsCounted
<1>16. InOrderOnce'
  <2> SUFFICES ASSUME NEW q \in End
               PROVE  /\ Len(handled'[q]) <= Len(log[Other(q)])
                      /\ \A i \in 1..Len(handled'[q]) :
                            handled'[q][i] = log[Other(q)][i]
    BY <1>1 DEF InOrderOnce
  <2>1. /\ Len(handled[q]) <= Len(log[Other(q)])
        /\ \A i \in 1..Len(handled[q]) : handled[q][i] = log[Other(q)][i]
    BY DEF IInv, InOrderOnce
  <2>2. CASE q # p
    BY <1>5, <2>1, <2>2
  <2>3. CASE q = p
    <3>1. Len(handled'[p]) <= Len(log[Other(p)])
      BY <1>3, <1>7, Ranges, Others
    <3>2. ASSUME NEW i \in 1..Len(handled'[p])
          PROVE  handled'[p][i] = log[Other(p)][i]
      <4>0. esn[p] \in Nat
        BY Ranges
      <4>1. CASE i <= esn[p]
        <5>1. i \in 1..esn[p]
          BY <1>3, <1>7, <4>0, <4>1
        <5> QED
          BY <1>7, <2>1, <2>3, <5>1
      <4>2. CASE ~(i <= esn[p])
        <5>1. i - esn[p] \in 1..Len(inTurn) /\ esn[p] + (i - esn[p]) = i
          BY <1>3, <1>7, <4>0, <4>2
        <5>2. /\ handled'[p][esn[p] + (i - esn[p])] = inTurn[i - esn[p]]
              /\ inTurn[i - esn[p]] = log[Other(p)][esn[p] + (i - esn[p])]
          BY <1>3, <1>7, <5>1
        <5> QED
          BY <5>1, <5>2
      <4> QED
        BY <4>1, <4>2
    <3> QED
      BY <2>3, <3>1, <3>2
  <2> QED
    BY <2>2, <2>3
<1>17. DroppedIsExpected'
  <2> SUFFICES ASSUME NEW q \in End
               PROVE  sn[q] - Len(out'[q]) <= esn'[Other(q)]
    BY <1>1 DEF DroppedIsExpected
  <2>1. sn[q] - Len(out'[q]) <= esn[Other(q)]
    BY <1>5, <1>6 DEF IInv, DroppedIsExpected
  <2>2. /\ esn[Other(q)] <= esn'[Other(q)] /\ esn[Other(q)] \in Nat
        /\ esn'[Other(q)] \in Nat /\ sn[q] \in Nat /\ Len(out'[q]) \in Nat
    BY <1>4, <1>5, <1>6, Ranges, Others
  <2> QED
    BY <2>1, <2>2
<1> QED
  BY <1>10, <1>11, <1>12, <1>13, <1>14, <1>15, <1>16, <1>17 DEF IInv
-----------------------------------------------------------------------------
(* The invariant, and what follows from it. *)

(* gti2HandleMessage keeps the invariant. *)
LEMMA HandleKeepsIInv ==
    ASSUME NoWrap, IInv, NEW p \in End, NEW d \in net, Receive(p, d)
    PROVE  IInv'
<1>1. PICK rest : Arrives(p, d, rest) /\ Handle(p, d, rest)
  BY DEF Receive
<1> QED
  BY <1>1, WhenClosedKeepsIInv, ExpectedKeepsIInv, DuplicateKeepsIInv,
     EarlyKeepsIInv, AckKeepsIInv, NackKeepsIInv, ClosedKeepsIInv DEF Handle

(* Every step keeps the invariant. *)
LEMMA NextKeepsIInv ==
    ASSUME NoWrap, IInv, [Next]_vars
    PROVE  IInv'
<1>1. CASE \E p \in End : App(p)
  BY <1>1, SendKeepsIInv, CloseConnectionKeepsIInv, CloseHardKeepsIInv DEF App
<1>2. CASE \E p \in End : Think(p)
  BY <1>2, ThinkKeepsIInv DEF Think
<1>3. CASE Network
  BY <1>3, LoseKeepsIInv, HandleKeepsIInv DEF Network
<1>4. CASE UNCHANGED vars
  <2>1. UNCHANGED <<sn, esn, out, hold, log, handled>> /\ TypeOK'
    BY <1>4 DEF vars, endVars, IInv, TypeOK
  <2>2. \A d \in net' : IsLogged(d)
    BY <1>4 DEF vars, IInv, NetIsLogged
  <2> QED
    BY <2>1, <2>2, SameEnds
<1> QED
  BY <1>1, <1>2, <1>3, <1>4 DEF Next

(* The inductive invariant of two ends whose serials do not come round: what
   is kept, held or in flight is what was sent, under its own serial. *)
THEOREM IInvHolds ==
    ASSUME NoWrap
    PROVE  Spec => []IInv
<1>1. Init => IInv
  BY InitIInv
<1>2. IInv /\ [Next]_vars => IInv'
  BY NextKeepsIInv
<1> QED
  BY <1>1, <1>2, PTL DEF Spec

(* Every variable keeps its type: no handler leaves an end half updated. *)
THEOREM TypeOKHolds ==
    ASSUME NoWrap
    PROVE  Spec => []TypeOK
<1>1. IInv => TypeOK
  BY DEF IInv
<1> QED
  BY <1>1, IInvHolds, PTL

(* Reliable messages are handled once and in order (gt2Send), for any number
   of messages up to half of the serial space, any size of the buffers, and any
   loss, duplication and reordering of datagrams. *)
THEOREM InOrderOnceHolds ==
    ASSUME NoWrap
    PROVE  Spec => []InOrderOnce
<1>1. IInv => InOrderOnce
  BY DEF IInv
<1> QED
  BY <1>1, IInvHolds, PTL

(* gt2WasMessageIDConfirmed says yes only of messages the peer has handled. *)
THEOREM ConfirmedIsHandledHolds ==
    ASSUME NoWrap
    PROVE  Spec => []ConfirmedIsHandled
<1>1. IInv => ConfirmedIsHandled
  <2> SUFFICES ASSUME IInv, NEW p \in End, NEW id \in 0..(sn[p] - 1), WasConfirmed(p, id)
               PROVE  id < Len(handled[Other(p)])
    BY DEF ConfirmedIsHandled
  <2>1. /\ sn[p] \in Nat /\ sn[p] <= Half /\ Half \in Nat
        /\ out[p] \in Seq(Message) /\ Len(out[p]) \in Nat /\ Len(out[p]) <= sn[p]
        /\ esn[Other(p)] \in Nat /\ Len(handled[Other(p)]) = esn[Other(p)]
    BY Ranges, Others
  <2>2. sn[p] - Len(out[p]) <= esn[Other(p)]
    BY DEF IInv, DroppedIsExpected
  <2>3. CASE out[p] = << >>
    <3>1. Len(out[p]) = 0
      BY <2>3
    <3> QED
      BY <2>1, <2>2, <3>1
  <2>4. CASE out[p] # << >>
    <3>1. Head(out[p]) = out[p][1] /\ 1 \in 1..Len(out[p])
      BY <2>1, <2>4
    <3>2. out[p][1] = log[p][sn[p] - Len(out[p]) + 1]
      BY <3>1 DEF IInv, OutIsTail
    <3>3. sn[p] - Len(out[p]) + 1 \in 1..sn[p]
      BY <2>1, <3>1
    <3>4. Head(out[p]).sn = sn[p] - Len(out[p])
      <4>1. log[p][sn[p] - Len(out[p]) + 1].sn = sn[p] - Len(out[p]) + 1 - 1
        BY <3>3 DEF IInv, LogIsNumbered
      <4> QED
        BY <2>1, <3>1, <3>2, <4>1
    <3>5. SNDiff(id, Head(out[p]).sn) < 0
      BY <2>4 DEF WasConfirmed
    <3>6. SNDiff(id, sn[p] - Len(out[p])) = id - (sn[p] - Len(out[p]))
      BY <2>1, <3>3, SNDiffIsDistance
    <3>7. id - (sn[p] - Len(out[p])) < 0
      BY <3>4, <3>5, <3>6
    <3> QED
      BY <2>1, <2>2, <3>7
  <2> QED
    BY <2>3, <2>4
<1> QED
  BY <1>1, IInvHolds, PTL
=============================================================================
