----------------------------- MODULE Gt2Message -----------------------------
(***************************************************************************)
(* The reliable layer of an established GT2 connection (gt2Message.c and   *)
(* the timers of gt2Connection.c): two ends that have both reached         *)
(* GTI2Connected exchange reliable messages, acks, nacks and Closed        *)
(* replies over UDP, which loses, duplicates and reorders datagrams.       *)
(*                                                                         *)
(* A message is [sn, type]: its serial stands for its bytes.  Serials are  *)
(* unwrapped counts (see Gt2Serial).  Both buffers are counted in messages *)
(* instead of bytes: an application message and a control message take one *)
(* place of the outgoing buffer, where the whole datagram is kept, and     *)
(* only an application message takes one of the incoming buffer, where     *)
(* control messages are kept with length 0.                                *)
(***************************************************************************)
EXTENDS Gt2Serial, FiniteSets

CONSTANTS
    OutCap,       \* outgoingBuffer.size, in messages
    InCap,        \* incomingBuffer.size, in application messages
    MaxMsgs,      \* bound: reliable messages each end begins, by end
    MaxLoss,      \* bound: datagrams the network loses
    MaxDup        \* bound: datagrams the network delivers twice

End == {"A", "B"}
Other(p) == IF p = "A" THEN "B" ELSE "A"

ASSUME CapAssumption == OutCap \in Nat /\ InCap \in Nat
ASSUME BoundAssumption ==
    MaxMsgs \in [End -> Nat] /\ MaxLoss \in Nat /\ MaxDup \in Nat

VARIABLES
    state,        \* connection->state
    sn,           \* connection->serialNumber: serial of the next message
    esn,          \* connection->expectedSerialNumber
    out,          \* outgoingBufferMessages: sent, not yet confirmed, in order
    hold,         \* incomingBufferMessages: received ahead of esn
    pendingAck,   \* connection->pendingAck
    closedCb,     \* the closed callback: what closed the end, and its reason
    log,          \* history: every reliable message an end began
    handled,      \* history: every message passed to DeliverReliableMessage
    net,          \* the datagrams in flight
    lost, dups    \* how many the network has lost, and duplicated

endVars == <<state, sn, esn, out, hold, pendingAck, closedCb, log, handled>>
vars    == <<endVars, net, lost, dups>>

State     == {"Connected", "Closing", "Closed"}
Type      == {"AppReliable", "Close", "KeepAlive"}
Message   == [sn : Nat, type : Type]
Reliable  == [kind : {"Reliable"}, to : End, sn : Nat, type : Type, esn : Nat]
Ack       == [kind : {"Ack"}, to : End, esn : Nat]
Nack      == [kind : {"Nack"}, to : End, min : Nat, max : Nat]
ClosedMsg == [kind : {"Closed"}, to : End]
Datagram  == Reliable \cup Ack \cup Nack \cup ClosedMsg

NotCalled == [by |-> "none", reason |-> "none"]
Closer    == {"Close", "Closed", "Memory", "Hard"}
Reason    == {"LocalClose", "RemoteClose", "NotEnoughMemory"}

Init ==
    /\ state      = [p \in End |-> "Connected"]
    /\ sn         = [p \in End |-> 0]
    /\ esn        = [p \in End |-> 0]
    /\ out        = [p \in End |-> << >>]
    /\ hold       = [p \in End |-> {}]
    /\ pendingAck = [p \in End |-> FALSE]
    /\ closedCb   = [p \in End |-> NotCalled]
    /\ log        = [p \in End |-> << >>]
    /\ handled    = [p \in End |-> << >>]
    /\ net  = {}
    /\ lost = 0
    /\ dups = 0

-----------------------------------------------------------------------------
(* The datagrams end p sends. *)

ReliableTo(p, m, e) ==
    [kind |-> "Reliable", to |-> p, sn |-> m.sn, type |-> m.type, esn |-> e]
AckTo(p, e)         == [kind |-> "Ack", to |-> p, esn |-> e]
NackTo(p, min, max) == [kind |-> "Nack", to |-> p, min |-> min, max |-> max]
ClosedTo(p)         == [kind |-> "Closed", to |-> p]

(* ResendMessage for each of a set of messages: the ESN sent is the present
   one, whatever it was when the message was first sent. *)
Resend(p, msgs) == {ReliableTo(Other(p), m, esn[p]) : m \in msgs}

(* ConnectionError of an end past the negotiation: closed, and the callback.
   An end that is already closed keeps what it has. *)
CloseEnd(p, by, reason) ==
    /\ state'    = [state EXCEPT ![p] = "Closed"]
    /\ closedCb' = IF state[p] = "Closed" THEN closedCb
                   ELSE [closedCb EXCEPT ![p] = [by |-> by, reason |-> reason]]

\* A bug: the peer is told, but the end stays open.
MemoryErrorStaysOpen(p, base) ==
    net' = base \cup {ClosedTo(Other(p))} /\ UNCHANGED <<state, closedCb>>

(* MemoryError: the peer is told before the end closes.  base is what is in
   flight besides. *)
MemoryError(p, base) ==
    /\ net' = base \cup {ClosedTo(Other(p))}
    /\ CloseEnd(p, "Memory", "NotEnoughMemory")

\* A bug: the two arguments of gti2ConnectionError are swapped.
ResultForReason(p) == "Rejected"

LocalOrRemote(p) == IF state[p] = "Closing" THEN "LocalClose" ELSE "RemoteClose"

(* WasMessageIDConfirmed. *)
WasConfirmed(p, id) ==
    \/ out[p] = << >>
    \/ SNDiff(id, Head(out[p]).sn) < 0

-----------------------------------------------------------------------------
(* BeginReliableMessage and EndReliableMessage: keep the message until it is
   confirmed and send it; the ESN it carries is the pending ack.  An end that
   has no room for it closes instead.  also is what the handler sends next. *)
BeginAndSend(p, type, also) ==
    LET m == [sn |-> sn[p], type |-> type]
    IN  /\ sn[p] < MaxMsgs[p]
        /\ Len(out[p]) < OutCap
        /\ sn'  = [sn  EXCEPT ![p] = @ + 1]
        /\ out' = [out EXCEPT ![p] = Append(@, m)]
        /\ log' = [log EXCEPT ![p] = Append(@, m)]
        /\ net' = net \cup Resend(p, {m}) \cup also
        /\ pendingAck' = [pendingAck EXCEPT ![p] = FALSE]
        /\ UNCHANGED <<esn, hold, handled>>

BeginOverflows(p, also) ==
    /\ sn[p] < MaxMsgs[p]
    /\ Len(out[p]) >= OutCap
    /\ MemoryError(p, net \cup also)
    /\ UNCHANGED <<sn, esn, out, hold, log, handled>>

\* A bug: gt2Send does not look at the state.
SendUnchecked(p) ==
    /\ \/ BeginAndSend(p, "AppReliable", {}) /\ UNCHANGED <<state, closedCb>>
       \/ BeginOverflows(p, {}) /\ UNCHANGED pendingAck
    /\ UNCHANGED <<lost, dups>>

\* gt2Send of a reliable message.
Send(p) ==
    /\ state[p] = "Connected"
    /\ \/ BeginAndSend(p, "AppReliable", {}) /\ UNCHANGED <<state, closedCb>>
       \/ BeginOverflows(p, {}) /\ UNCHANGED pendingAck
    /\ UNCHANGED <<lost, dups>>

(* gt2CloseConnection, of an end that is not closed yet: it closes once the
   peer has answered. *)
CloseConnection(p) ==
    /\ state[p] # "Closed"
    /\ \/ /\ BeginAndSend(p, "Close", {})
          /\ state' = [state EXCEPT ![p] = "Closing"]
          /\ UNCHANGED closedCb
       \/ BeginOverflows(p, {}) /\ UNCHANGED pendingAck
    /\ UNCHANGED <<lost, dups>>

\* gt2CloseConnectionHard.
CloseConnectionHard(p) ==
    /\ state[p] # "Closed"
    /\ CloseEnd(p, "Hard", "LocalClose")
    /\ net' = net \cup {ClosedTo(Other(p))}
    /\ UNCHANGED <<sn, esn, out, hold, pendingAck, log, handled, lost, dups>>

-----------------------------------------------------------------------------
(* ConnectionThink goes through the timers of an end in one call: a keep-alive
   after GTI2_KEEP_ALIVE_TIME of silence (CheckKeepAlive), again every message
   last sent more than GTI2_RESEND_TIME ago (SendRetries), and the ack that
   has been pending for GTI2_PENDING_ACK_TIME (CheckPendingAck).  due is the
   set of messages whose time has come; a keep-alive that was sent carries the
   ack, and one that overflowed does not stop the other two. *)

\* Bugs: nothing is sent again, or the application's messages only.
SendNoRetries(p, due) == {}
SendAppRetries(p, due) ==
    Resend(p, {out[p][i] : i \in {j \in due : out[p][j].type = "AppReliable"}})

SendRetries(p, due) == Resend(p, {out[p][i] : i \in due})

CheckPendingAck(p, ackDue) ==
    IF pendingAck[p] /\ ackDue THEN {AckTo(Other(p), esn[p])} ELSE {}

AckSent(p, ackDue) == pendingAck' = [pendingAck EXCEPT ![p] = @ /\ ~ackDue]

CheckKeepAlive(p, due, ackDue) ==
    \/ /\ BeginAndSend(p, "KeepAlive", SendRetries(p, due))
       /\ UNCHANGED <<state, closedCb>>
    \/ /\ BeginOverflows(p, SendRetries(p, due) \cup CheckPendingAck(p, ackDue))
       /\ AckSent(p, ackDue)

ConnectionThink(p, due, ackDue) ==
    /\ state[p] # "Closed"
    /\ \/ CheckKeepAlive(p, due, ackDue)
       \/ /\ net' = net \cup SendRetries(p, due) \cup CheckPendingAck(p, ackDue)
          /\ AckSent(p, ackDue)
          /\ UNCHANGED <<state, sn, esn, out, hold, closedCb, log, handled>>
    /\ UNCHANGED <<lost, dups>>

-----------------------------------------------------------------------------
(* ReceiveMessages hands HandleMessage one datagram of the socket at a time.
   rest is what stays in flight: the network may keep a copy of d. *)
Arrives(p, d, rest) ==
    /\ d.to = p
    /\ \/ rest = net \ {d} /\ UNCHANGED dups
       \/ rest = net /\ dups < MaxDup /\ dups' = dups + 1
    /\ UNCHANGED lost

(* Serials come round again: a datagram that outlived half of the serial space
   would be taken for a new one.  The network is assumed to have dropped it. *)
Fresh(p, d) ==
    /\ d.kind = "Reliable" => esn[p] - d.sn <= Half
    /\ d.kind \in {"Reliable", "Ack"} => sn[p] - d.esn <= Half

\* A bug: a closed end is silent.
IgnoreWhenClosed(p, d, rest) ==
    state[p] = "Closed" /\ net' = rest /\ UNCHANGED endVars

\* A closed end answers anything but a Closed with a Closed.
ReceiveWhenClosed(p, d, rest) ==
    /\ state[p] = "Closed"
    /\ net' = IF d.kind = "Closed" THEN rest
              ELSE rest \cup {ClosedTo(Other(p))}
    /\ UNCHANGED endVars

(* The hold is gone through once, from its highest serial down: of the messages
   that become deliverable with m, it delivers the next one only. *)
NextHeld(p) == {h \in hold[p] : SameSN(h.sn, esn[p] + 1)}

InTurn(p, m) ==
    IF NextHeld(p) = {} THEN <<m>> ELSE <<m, CHOOSE h \in NextHeld(p) : TRUE>>

(* DeliverReliableMessage, then DeliverHoldMessages.  A Close among what is
   delivered closes the end (HandleClose). *)
ReceiveExpected(p, d, rest) ==
    LET m      == [sn |-> d.sn, type |-> d.type]
        closes == \E r \in {m} \cup NextHeld(p) : r.type = "Close"
    IN  /\ state[p] # "Closed"
        /\ d.kind = "Reliable"
        /\ SameSN(d.sn, esn[p])
        /\ out' = [out EXCEPT ![p] = HandleESN(@, d.esn)]
        /\ esn' = [esn EXCEPT ![p] = @ + Len(InTurn(p, m))]
        /\ hold' = [hold EXCEPT ![p] = @ \ NextHeld(p)]
        /\ handled' = [handled EXCEPT ![p] = @ \o InTurn(p, m)]
        /\ pendingAck' = [pendingAck EXCEPT ![p] = TRUE]
        /\ IF closes
           THEN /\ CloseEnd(p, "Close", LocalOrRemote(p))
                /\ net' = rest \cup {ClosedTo(Other(p))}
           ELSE net' = rest /\ UNCHANGED <<state, closedCb>>
        /\ UNCHANGED <<sn, log>>

\* A message delivered before is acknowledged again.
ReceiveDuplicate(p, d, rest) ==
    /\ state[p] # "Closed"
    /\ d.kind = "Reliable"
    /\ SNDiff(d.sn, esn[p]) < 0
    /\ out' = [out EXCEPT ![p] = HandleESN(@, d.esn)]
    /\ pendingAck' = [pendingAck EXCEPT ![p] = TRUE]
    /\ net' = rest
    /\ UNCHANGED <<state, sn, esn, hold, closedCb, log, handled>>

-----------------------------------------------------------------------------
(* BufferIncomingMessage. *)

HoldSize(h) == Cardinality({m \in h : m.type = "AppReliable"})
InSize(type) == IF type = "AppReliable" THEN 1 ELSE 0

(* The nack for a message just put in the hold: the gap before the first one,
   or the gap between the highest and the one below it. *)
NackFor(p, m) ==
    LET below   == {h \in hold[p] : SNDiff(h.sn, m.sn) < 0}
        highest == {h \in below : \A g \in below : SNDiff(g.sn, h.sn) <= 0}
    IN  IF hold[p] = {} THEN {NackTo(Other(p), esn[p], m.sn - 1)}
        ELSE IF below = hold[p]
             THEN {NackTo(Other(p), h.sn + 1, m.sn - 1) :
                      h \in {g \in highest : SNDiff(m.sn, g.sn) > 1}}
        ELSE {}

ReceiveEarly(p, d, rest) ==
    LET m      == [sn |-> d.sn, type |-> d.type]
        isHeld == \E h \in hold[p] : SameSN(h.sn, d.sn)
        fits   == HoldSize(hold[p]) + InSize(d.type) <= InCap
    IN  /\ state[p] # "Closed"
        /\ d.kind = "Reliable"
        /\ SNDiff(d.sn, esn[p]) > 0
        /\ out' = [out EXCEPT ![p] = HandleESN(@, d.esn)]
        /\ \/ /\ isHeld
              /\ net' = rest
              /\ UNCHANGED <<state, hold, closedCb>>
           \/ /\ ~isHeld /\ fits
              /\ hold' = [hold EXCEPT ![p] = @ \cup {m}]
              /\ net' = rest \cup NackFor(p, m)
              /\ UNCHANGED <<state, closedCb>>
           \/ /\ ~isHeld /\ ~fits
              /\ MemoryError(p, rest)
              /\ UNCHANGED hold
        /\ UNCHANGED <<sn, esn, pendingAck, log, handled>>

-----------------------------------------------------------------------------
\* HandleAck.
ReceiveAck(p, d, rest) ==
    /\ state[p] # "Closed"
    /\ d.kind = "Ack"
    /\ out' = [out EXCEPT ![p] = HandleESN(@, d.esn)]
    /\ net' = rest
    /\ UNCHANGED <<state, sn, esn, hold, pendingAck, closedCb, log, handled>>

\* HandleNack: the messages of the range that are still kept are sent again.
ReceiveNack(p, d, rest) ==
    /\ state[p] # "Closed"
    /\ d.kind = "Nack"
    /\ LET missing == {i \in DOMAIN out[p] :
                          /\ SNDiff(out[p][i].sn, d.min) >= 0
                          /\ SNDiff(out[p][i].sn, d.max) <= 0}
       IN  net' = rest \cup Resend(p, {out[p][i] : i \in missing})
    /\ UNCHANGED endVars

\* HandleClosed.
ReceiveClosed(p, d, rest) ==
    /\ state[p] # "Closed"
    /\ d.kind = "Closed"
    /\ CloseEnd(p, "Closed", LocalOrRemote(p))
    /\ net' = rest
    /\ UNCHANGED <<sn, esn, out, hold, pendingAck, log, handled>>

Handle(p, d, rest) ==
    \/ ReceiveWhenClosed(p, d, rest)
    \/ ReceiveExpected(p, d, rest)
    \/ ReceiveDuplicate(p, d, rest)
    \/ ReceiveEarly(p, d, rest)
    \/ ReceiveAck(p, d, rest)
    \/ ReceiveNack(p, d, rest)
    \/ ReceiveClosed(p, d, rest)

Receive(p, d) ==
    \E rest \in {net \ {d}, net} :
        Arrives(p, d, rest) /\ Fresh(p, d) /\ Handle(p, d, rest)

Lose(d) ==
    /\ lost < MaxLoss
    /\ lost' = lost + 1
    /\ net' = net \ {d}
    /\ UNCHANGED <<endVars, dups>>

-----------------------------------------------------------------------------
App(p) == Send(p) \/ CloseConnection(p) \/ CloseConnectionHard(p)

Think(p) ==
    \E due \in SUBSET DOMAIN out[p], ackDue \in BOOLEAN :
        ConnectionThink(p, due, ackDue)

Network == \E d \in net : Lose(d) \/ \E p \in End : Receive(p, d)

Next == (\E p \in End : App(p) \/ Think(p)) \/ Network

Spec == Init /\ [][Next]_vars

-----------------------------------------------------------------------------
(* Fairness.  The application calls gt2Think regularly; each call empties the
   socket (ReceiveMessages loops while a datagram waits), then every message
   whose last send is old enough is sent again and a pending ack goes out.
   So each serial that stays unconfirmed is sent again, and each that stays in
   flight is received.  The network loses at most MaxLoss datagrams. *)
Retried(p, n) ==
    \E due \in SUBSET DOMAIN out[p] :
        /\ \E i \in due : out[p][i].sn = n
        /\ ConnectionThink(p, due, FALSE)

Acked(p) == pendingAck[p] /\ ConnectionThink(p, {}, TRUE)

ReceiveSome(p, kinds, serials) ==
    \E d \in net :
        /\ d.kind \in kinds
        /\ d.kind = "Reliable" => d.sn \in serials
        /\ Receive(p, d)

Fairness ==
    \A p \in End :
        /\ WF_vars(Acked(p))
        /\ WF_vars(ReceiveSome(p, {"Ack"}, {}))
        /\ WF_vars(ReceiveSome(p, {"Closed"}, {}))
        /\ \A n \in 0..(MaxMsgs[p] - 1) :
              /\ WF_vars(Retried(p, n))
              /\ WF_vars(ReceiveSome(Other(p), {"Reliable"}, {n}))

FairSpec == Spec /\ Fairness

-----------------------------------------------------------------------------
(* Properties. *)

TypeOK ==
    /\ state \in [End -> State]
    /\ sn \in [End -> Nat]
    /\ esn \in [End -> Nat]
    /\ out \in [End -> Seq(Message)]
    /\ hold \in [End -> SUBSET Message]
    /\ pendingAck \in [End -> BOOLEAN]
    /\ closedCb \in [End -> {NotCalled} \cup [by : Closer, reason : Reason]]
    /\ log \in [End -> Seq(Message)]
    /\ handled \in [End -> Seq(Message)]
    /\ net \in SUBSET Datagram
    /\ lost \in Nat
    /\ dups \in Nat

(* gt2Send (gt2.h:466-468): a reliable message arrives only once and in order.
   What an end was handed is a prefix of what the other end sent. *)
InOrderOnce ==
    \A p \in End :
        /\ Len(handled[p]) <= Len(log[Other(p)])
        /\ \A i \in 1..Len(handled[p]) : handled[p][i] = log[Other(p)][i]

(* The inductive invariant behind InOrderOnce and ConfirmedIsHandled, for as
   long as the serials have not come round (NoWrap).  Whatever is kept, held or
   in flight is a message of the log at its own serial; the outgoing buffer
   (outgoingBufferMessages) is the end of the log, without gaps; and no ESN
   that is in flight is ahead of the one of the end it came from. *)
NoWrap == \A p \in End : MaxMsgs[p] <= Half

InLog(p, m) == m.sn < sn[p] /\ log[p][m.sn + 1] = m

LogIsNumbered ==
    \A p \in End :
        /\ Len(log[p]) = sn[p]
        /\ sn[p] <= MaxMsgs[p]
        /\ \A i \in 1..sn[p] : log[p][i].sn = i - 1

OutIsTail ==
    \A p \in End :
        /\ Len(out[p]) <= sn[p]
        /\ \A i \in 1..Len(out[p]) : out[p][i] = log[p][sn[p] - Len(out[p]) + i]

HoldIsLogged == \A p \in End : \A h \in hold[p] : InLog(Other(p), h)

IsLogged(d) ==
    /\ d.kind = "Reliable" => InLog(Other(d.to), [sn |-> d.sn, type |-> d.type])
    /\ d.kind \in {"Reliable", "Ack"} => d.esn <= esn[Other(d.to)]

NetIsLogged == \A d \in net : IsLogged(d)

HandledIsCounted == \A p \in End : esn[p] = Len(handled[p])

DroppedIsExpected == \A p \in End : sn[p] - Len(out[p]) <= esn[Other(p)]

IInv ==
    /\ TypeOK
    /\ LogIsNumbered
    /\ OutIsTail
    /\ HoldIsLogged
    /\ NetIsLogged
    /\ HandledIsCounted
    /\ InOrderOnce
    /\ DroppedIsExpected

(* gt2WasMessageIDConfirmed (gt2.h:735-737): an id reported as confirmed is one
   the other end was handed, whatever acks were lost, late or out of order. *)
ConfirmedIsHandled ==
    \A p \in End : \A id \in 0..(sn[p] - 1) :
        WasConfirmed(p, id) => id < Len(handled[Other(p)])

(* The reason RemoteClose is never invented: an end is told the remote side
   closed only if the remote side did close or has begun to. *)
RemoteCloseHasCause ==
    \A p \in End :
        closedCb[p].reason = "RemoteClose" => state[Other(p)] # "Connected"

(* A soft close is synchronized with the stream (gt2CloseConnection): an end
   that closes on receipt of the Close was first handed every application
   message its peer sent. *)
CloseFlushes ==
    \A p \in End :
        closedCb[p].by = "Close" =>
            \A i \in DOMAIN log[Other(p)] :
                log[Other(p)][i].type = "AppReliable" =>
                    \E j \in DOMAIN handled[p] : handled[p][j] = log[Other(p)][i]

(* The stream the API promises: see Gt2Stream. *)
Stream == INSTANCE Gt2Stream WITH
    Message   <- UNION {[sn : 0..MaxMsgs[p], type : Type] : p \in End},
    sent      <- log,
    received  <- handled,
    confirmed <- [p \in End |-> sn[p] - Len(out[p])],
    open      <- [p \in End |-> state[p] # "Closed"]

ImplementsStream == Stream!Spec

(* A reliable message is "guaranteed to arrive" (gt2.h:466), and its sender
   learns that it did, unless an end closes: with ConfirmedIsHandled, what is
   confirmed has arrived. *)
EventuallyConfirmed ==
    \A p \in End : \A n \in 1..MaxMsgs[p] :
        (sn[p] >= n) ~> \/ sn[p] - Len(out[p]) >= n
                       \/ \E q \in End : state[q] = "Closed"

(* A soft close completes (gt2CloseConnection: "When the close is completed,
   the connection's closed callback will be called"), even if the Close or the
   Closed that answers it is lost. *)
CloseCompletes ==
    \A p \in End : (state[p] = "Closing") ~> (state[p] = "Closed")

(* Keep-alives exist "to help detect dropped connections" (gt2Main.h:134): an
   end does not wait forever for a peer that has closed to confirm something,
   even if the peer's Closed was lost. *)
DroppedIsDetected ==
    \A p \in End :
        (state[Other(p)] = "Closed" /\ out[p] # << >>)
            ~> (state[p] = "Closed" \/ out[p] = << >>)
=============================================================================
