---------------------------- MODULE Gt2Connection ----------------------------
(***************************************************************************)
(* The life of GT2 connection objects (gt2Connection.c, gt2Message.c,      *)
(* gt2Socket.c): a client socket that calls gt2Connect, possibly several   *)
(* times, and a listening server socket, over UDP.                         *)
(*                                                                         *)
(* A socket finds a connection by the address of the peer, so with one     *)
(* peer the table of a socket holds at most one object.  An object that    *)
(* closes leaves the table for the list closedConnections, from which      *)
(* FreeClosedConnections frees it, and the address may then be used by a   *)
(* new object while datagrams of the old one are still in flight.          *)
(*                                                                         *)
(* The negotiation uses the reliable layer of Gt2Message: serials from 0,  *)
(* confirmation, hold, nacks and resends.  Application data, keep-alives   *)
(* and the limits of the buffers are left to Gt2Message, except that the   *)
(* message of gt2Connect or gt2Reject may be too large to be sent.         *)
(*                                                                         *)
(* A handler works on a context k: the object it handles (k.o, of id k.c), *)
(* what the socket's table holds (k.table) and what it has sent (k.sent).  *)
(* Each operator below stands for the function of the same name and takes  *)
(* the context before it to the one after it.                              *)
(***************************************************************************)
EXTENDS Gt2Serial, FiniteSets

CONSTANTS
    ClientConn,     \* bound: the objects the client may allocate (positive)
    ServerConn,     \* bound: the objects the server may allocate (positive)
    TooLarge,       \* what an app's message may be: a subset of BOOLEAN
    ClosesInClosed, \* whether an app calls gt2CloseConnection from within the
                    \* closed callback: a subset of BOOLEAN
    MaxInFlight,    \* bound: no timer fires and no application calls while
                    \* this many datagrams are in flight
    MaxLoss,        \* bound: datagrams the network loses
    MaxDup          \* bound: datagrams the network delivers twice

Side == {"client", "server"}
Peer(s) == IF s = "client" THEN "server" ELSE "client"
Conn == ClientConn \cup ServerConn
Of(s) == IF s = "client" THEN ClientConn ELSE ServerConn
SideOf(c) == IF c \in ClientConn THEN "client" ELSE "server"
NoConn == 0

ASSUME ConnAssumption ==
    /\ ClientConn \cap ServerConn = {} /\ NoConn \notin Conn
    /\ Conn \subseteq Nat /\ IsFiniteSet(Conn)
    /\ TooLarge \subseteq BOOLEAN /\ ClosesInClosed \subseteq BOOLEAN
    /\ MaxInFlight \in Nat /\ MaxLoss \in Nat /\ MaxDup \in Nat

VARIABLES
    conn,        \* the connection objects
    table,       \* socket->connections: the object of the peer's address
    listening,   \* the server socket has a connectAttemptCallback
    net,         \* the datagrams in flight
    lost, dups   \* how many the network has lost, and duplicated

vars == <<conn, table, listening, net, lost, dups>>

Connecting == {"AwaitingServerChallenge", "AwaitingAcceptance",
               "AwaitingClientChallenge", "AwaitingClientResponse",
               "AwaitingAcceptReject"}
State == Connecting \cup {"Connected", "Closing", "Closed"}
Type  == {"ClientChallenge", "ServerChallenge", "ClientResponse",
          "Accept", "Reject", "Close"}

(* resp answers the challenge nonce of the peer: the id of the object that
   made the challenge stands for its random bytes.  A nack asks for the serials
   from min to max; -1 stands for the serial before 0, which is 65535. *)
Message  == [sn : Nat, type : Type, resp : Conn \cup {NoConn},
             nonce : Conn \cup {NoConn}]
Object   == [life : {"unused", "allocated", "freed"}, state : State,
             listed : Nat, freeAtAcceptReject : BOOLEAN,
             sn : Nat, esn : Nat, out : Seq(Message), hold : SUBSET Message,
             pendingAck : BOOLEAN, tooLarge : BOOLEAN, callbacks : BOOLEAN,
             asked : BOOLEAN, accepted : BOOLEAN, closedByApp : BOOLEAN,
             peer : Conn \cup {NoConn},
             connectedCb : Seq({"Success", "Rejected", "TimedOut",
                                "NegotiationError", "OutOfMemory"}),
             closedCb : Seq({"LocalClose", "RemoteClose",
                             "CommunicationError", "NotEnoughMemory"})]
Datagram == [kind : {"Reliable"}, to : Side, msg : Message, esn : Nat]
       \cup [kind : {"Ack"}, to : Side, esn : Nat]
       \cup [kind : {"Nack"}, to : Side, min : Nat, max : Int]
       \cup [kind : {"Closed"}, to : Side]

Unused ==
    [life |-> "unused", state |-> "Closed", listed |-> 0,
     freeAtAcceptReject |-> FALSE, sn |-> 0, esn |-> 0, out |-> << >>,
     hold |-> {}, pendingAck |-> FALSE, tooLarge |-> FALSE,
     callbacks |-> FALSE, asked |-> FALSE, accepted |-> FALSE,
     closedByApp |-> FALSE, peer |-> NoConn, connectedCb |-> << >>, closedCb |-> << >>]

Init ==
    /\ conn = [c \in Conn |-> Unused]
    /\ table = [s \in Side |-> NoConn]
    /\ listening = TRUE
    /\ net = {}
    /\ lost = 0
    /\ dups = 0

(* NewSocketConnection: the object starts with both serials at
   STARTING_SERIAL_NUMBER and enters the table. *)
NewObject(state) == [Unused EXCEPT !.life = "allocated", !.state = state]

-----------------------------------------------------------------------------
(* Contexts and what a handler sends. *)

Context(c, closesInClosed) ==
    [c |-> c, o |-> conn[c], table |-> table[SideOf(c)], sent |-> {},
     closesInClosed |-> closesInClosed]
PeerOf(k) == Peer(SideOf(k.c))

ClosedTo(s) == [kind |-> "Closed", to |-> s]
Transmit(k, d) == [k EXCEPT !.sent = @ \cup {d}]
SendClosed(k) == Transmit(k, ClosedTo(PeerOf(k)))

NackTo(s, min, max) ==
    [kind |-> "Nack", to |-> s, min |-> min, max |-> max]

ReliableTo(s, m, esn) ==
    [kind |-> "Reliable", to |-> s, msg |-> m, esn |-> esn]

\* ResendMessage, of a set of messages.
Resend(k, msgs) ==
    [k EXCEPT !.sent = @ \cup {ReliableTo(PeerOf(k), m, k.o.esn) : m \in msgs}]

\* BeginReliableMessage with room for the message, EndReliableMessage.
SendReliable(k, type, resp, nonce) ==
    LET m == [sn |-> k.o.sn, type |-> type, resp |-> resp, nonce |-> nonce]
    IN  Resend([k EXCEPT !.o.sn = @ + 1, !.o.out = Append(@, m),
                         !.o.pendingAck = FALSE], {m})

SetState(k, s) == [k EXCEPT !.o.state = s]

-----------------------------------------------------------------------------
(* Closing, and the callbacks.  ConnectedCallback and ClosedCallback record
   the call; an object the server has not accepted yet has no callbacks. *)

\* A bug: the object stays in the table.
ClosedInTable(k) ==
    IF k.o.state = "Closed" THEN k
    ELSE [k EXCEPT !.o.state = "Closed", !.o.listed = @ + 1]

ConnectionClosed(k) ==
    IF k.o.state = "Closed" THEN k
    ELSE [k EXCEPT !.o.state = "Closed", !.o.listed = @ + 1, !.table = NoConn]

ConnectedCallback(k, result) ==
    IF k.o.callbacks THEN [k EXCEPT !.o.connectedCb = Append(@, result)] ELSE k

\* The soft branch of CloseConnection.
CloseSoft(k) == SendReliable(SetState(k, "Closing"), "Close", NoConn, NoConn)

ClosedCallback(k, reason) ==
    LET called == [k EXCEPT !.o.closedCb = Append(@, reason)]
    IN  IF ~k.o.callbacks THEN k
        ELSE IF k.closesInClosed THEN CloseSoft(called)
        ELSE called

(* Bugs: an object is freed although the application has yet to answer for it;
   an established connection is told it could not be established; and every
   object of the server waits for an answer before it is freed. *)
ErrorFreesPending(k, result, reason) ==
    IF k.o.state \in Connecting
    THEN ConnectedCallback(ConnectionClosed(k), result)
    ELSE IF k.o.state # "Closed"
         THEN ClosedCallback(ConnectionClosed(k), reason)
         ELSE k

ErrorWhenConnected(k, result, reason) ==
    IF k.o.state \in Connecting \cup {"Connected"}
    THEN ConnectedCallback(ConnectionClosed(k), result)
    ELSE IF k.o.state # "Closed"
         THEN ClosedCallback(ConnectionClosed(k), reason)
         ELSE k

ErrorNeverFreed(k, result, reason) ==
    LET pending == [k EXCEPT !.o.freeAtAcceptReject =
                       @ \/ SideOf(k.c) = "server"]
    IN  IF k.o.state \in Connecting
        THEN ConnectedCallback(ConnectionClosed(pending), result)
        ELSE IF k.o.state # "Closed"
             THEN ClosedCallback(ConnectionClosed(pending), reason)
             ELSE k

ConnectionError(k, result, reason) ==
    IF k.o.state \in Connecting
    THEN IF SideOf(k.c) = "client"
         THEN ConnectedCallback(ConnectionClosed(k), result)
         ELSE ConnectionClosed([k EXCEPT !.o.freeAtAcceptReject =
                                   @ \/ k.o.state = "AwaitingAcceptReject"])
    ELSE IF k.o.state # "Closed"
         THEN ClosedCallback(ConnectionClosed(k), reason)
         ELSE k

CommunicationError(k) ==
    ConnectionError(k, "NegotiationError", "CommunicationError")

MemoryError(k) ==
    ConnectionError(SendClosed(k), "OutOfMemory", "NotEnoughMemory")

\* SendClientResponse and SendReject carry a message of the application.
SendWithMessage(k, type, resp, tooLarge) ==
    IF tooLarge THEN MemoryError(k) ELSE SendReliable(k, type, resp, NoConn)

LocalOrRemote(k) ==
    IF k.o.state = "Closing" THEN "LocalClose" ELSE "RemoteClose"

-----------------------------------------------------------------------------
(* The handlers of the reliable messages, called in order of their serials. *)

HandleClientChallenge(k, m) ==
    IF k.o.state # "AwaitingClientChallenge" THEN CommunicationError(k)
    ELSE SetState(SendReliable([k EXCEPT !.o.peer = m.nonce],
                               "ServerChallenge", m.nonce, k.c),
                  "AwaitingClientResponse")

HandleServerChallenge(k, m) ==
    IF k.o.state # "AwaitingServerChallenge" \/ m.resp # k.c
    THEN CommunicationError(k)
    ELSE SetState(SendWithMessage(k, "ClientResponse", m.nonce, k.o.tooLarge),
                  "AwaitingAcceptance")

HandleClientResponse(k, m) ==
    IF k.o.state # "AwaitingClientResponse" \/ m.resp # k.c
    THEN CommunicationError(k)
    ELSE IF ~listening THEN ConnectionClosed(SendClosed(k))
    ELSE [SetState(k, "AwaitingAcceptReject") EXCEPT !.o.asked = TRUE]

HandleAccept(k) ==
    IF k.o.state # "AwaitingAcceptance" THEN CommunicationError(k)
    ELSE ConnectedCallback(SetState(k, "Connected"), "Success")

HandleReject(k) ==
    IF k.o.state # "AwaitingAcceptance" THEN CommunicationError(k)
    ELSE ConnectedCallback(SendClosed(ConnectionClosed(k)), "Rejected")

HandleClose(k) == ConnectionError(SendClosed(k), "Rejected", LocalOrRemote(k))

DeliverReliableMessage(k, m) ==
    LET next == [k EXCEPT !.o.esn = @ + 1]
    IN  CASE m.type = "ClientChallenge" -> HandleClientChallenge(next, m)
          [] m.type = "ServerChallenge" -> HandleServerChallenge(next, m)
          [] m.type = "ClientResponse"  -> HandleClientResponse(next, m)
          [] m.type = "Accept"          -> HandleAccept(next)
          [] m.type = "Reject"          -> HandleReject(next)
          [] m.type = "Close"           -> HandleClose(next)

\* One pass over the hold, as in Gt2Message: at most one message is delivered.
DeliverHoldMessages(k) ==
    LET due == {h \in k.o.hold : SameSN(h.sn, k.o.esn)}
    IN  IF due = {} THEN k
        ELSE LET h == CHOOSE m \in due : TRUE
             IN  [DeliverReliableMessage(k, h) EXCEPT !.o.hold = @ \ {h}]

\* BufferIncomingMessage: the gap before the message is asked for again.
BufferIncomingMessage(k, m) ==
    LET below   == {h \in k.o.hold : SNDiff(h.sn, m.sn) < 0}
        highest == {h \in below : \A g \in below : SNDiff(g.sn, h.sn) <= 0}
        gap     == IF k.o.hold = {} THEN {k.o.esn}
                   ELSE IF below = k.o.hold
                        THEN {h.sn + 1 : h \in {g \in highest : SNDiff(m.sn, g.sn) > 1}}
                   ELSE {}
    IN  IF \E h \in k.o.hold : SameSN(h.sn, m.sn) THEN k
        ELSE [k EXCEPT !.o.hold = @ \cup {m},
                       !.sent = @ \cup {NackTo(PeerOf(k), min, m.sn - 1) : min \in gap}]

Confirm(k, ESN) == [k EXCEPT !.o.out = HandleESN(@, ESN)]
SetPendingAck(k) == [k EXCEPT !.o.pendingAck = TRUE]

HandleReliableMessage(k, d) ==
    LET k1 == Confirm(k, d.esn)
        diff == SNDiff(d.msg.sn, k.o.esn)
    IN  IF diff = 0
        THEN DeliverHoldMessages(DeliverReliableMessage(SetPendingAck(k1), d.msg))
        ELSE IF diff < 0 THEN SetPendingAck(k1)
        ELSE BufferIncomingMessage(k1, d.msg)

HandleNack(k, d) ==
    LET missing == {i \in DOMAIN k.o.out :
                       /\ SNDiff(k.o.out[i].sn, d.min) >= 0
                       /\ SNDiff(k.o.out[i].sn, d.max) <= 0}
    IN  Resend(k, {k.o.out[i] : i \in missing})

\* A bug: the result and the reason are swapped.
HandleClosedSwapped(k) == ConnectionError(k, LocalOrRemote(k), "Rejected")

HandleClosed(k) == ConnectionError(k, "Rejected", LocalOrRemote(k))

Handle(k, d) ==
    CASE k.o.state = "Closed" /\ d.kind = "Closed" -> k
      [] k.o.state = "Closed" /\ d.kind # "Closed" -> SendClosed(k)
      [] k.o.state # "Closed" /\ d.kind = "Reliable" ->
            HandleReliableMessage(k, d)
      [] k.o.state # "Closed" /\ d.kind = "Ack"    -> Confirm(k, d.esn)
      [] k.o.state # "Closed" /\ d.kind = "Nack"   -> HandleNack(k, d)
      [] k.o.state # "Closed" /\ d.kind = "Closed" -> HandleClosed(k)

Uncongested == Cardinality(net) < MaxInFlight

-----------------------------------------------------------------------------
(* ReceiveMessages hands HandleMessage one datagram; rest is what stays in
   flight. *)

Commit(k, rest) ==
    /\ conn' = [conn EXCEPT ![k.c] = k.o]
    /\ table' = [table EXCEPT ![SideOf(k.c)] = k.table]
    /\ net' = rest \cup k.sent

Arrives(s, d, rest) ==
    /\ d.to = s
    /\ \/ rest = net \ {d} /\ UNCHANGED dups
       \/ rest = net /\ dups < MaxDup /\ dups' = dups + 1
    /\ UNCHANGED <<lost, listening>>

UnusedOf(s) == {c \in Of(s) : conn[c].life = "unused"}
Fresh(s) == CHOOSE c \in UnusedOf(s) : \A b \in UnusedOf(s) : c <= b

ReceiveFromKnown(s, d, rest) ==
    /\ table[s] # NoConn
    /\ \E r \in ClosesInClosed : Commit(Handle(Context(table[s], r), d), rest)

StartsConnection(d) == d.kind = "Reliable" /\ d.msg.type = "ClientChallenge"

\* NewIncomingConnection, then the challenge is handled like any message.
ReceiveNewConnection(s, d, rest) ==
    /\ table[s] = NoConn
    /\ StartsConnection(d)
    /\ s = "server" /\ listening /\ UnusedOf(s) # {}
    /\ LET c == Fresh(s)
           k == [c |-> c, o |-> NewObject("AwaitingClientChallenge"),
                 table |-> c, sent |-> {}, closesInClosed |-> FALSE]
       IN  Commit(Handle(k, d), rest)

\* A bug: an unknown address gets no answer.
IgnoreUnknown(s, d, rest) ==
    /\ table[s] = NoConn
    /\ StartsConnection(d) /\ s = "server" /\ listening => UnusedOf(s) = {}
    /\ net' = rest
    /\ UNCHANGED <<conn, table>>

(* Anything else from an unknown address is answered with a Closed, and so is
   a challenge for which no object can be allocated. *)
ReceiveFromUnknown(s, d, rest) ==
    /\ table[s] = NoConn
    /\ LET listens == s = "server" /\ listening
           ignored == d.kind = "Closed" \/ (StartsConnection(d) /\ ~listens)
       IN  /\ StartsConnection(d) /\ listens => UnusedOf(s) = {}
           /\ net' = IF ignored THEN rest ELSE rest \cup {ClosedTo(Peer(s))}
    /\ UNCHANGED <<conn, table>>

Receive(s, d) ==
    \E rest \in {net \ {d}, net} :
        /\ Arrives(s, d, rest)
        /\ \/ ReceiveFromKnown(s, d, rest)
           \/ ReceiveNewConnection(s, d, rest)
           \/ ReceiveFromUnknown(s, d, rest)

(* The host of the peer reports its port closed (HandleConnectionReset: a
   client that still waits for an answer retries until its timeout), or a host
   on the way reports it out of reach (HandleHostUnreachable: a timeout). *)
ConnectionReset(s) ==
    /\ table[s] # NoConn
    /\ \E r \in ClosesInClosed, result \in {"TimedOut", "Rejected"} :
          LET k == Context(table[s], r)
          IN  /\ k.o.state = "AwaitingServerChallenge" => result = "TimedOut"
              /\ Commit(ConnectionError(k, result, "RemoteClose"), net)
    /\ UNCHANGED <<listening, lost, dups>>

-----------------------------------------------------------------------------
(* SocketConnectionsThink: the timers of the object in the table.  expired:
   the attempt has lasted longer than the timeout of gt2Connect, or than
   GTI2_SERVER_TIMEOUT; an object that waits for the application's answer does
   not time out.  due and ackDue are those of Gt2Message.  The retries and the
   ack are sent even if the timeout has just closed the object, which is then
   freed at once. *)
TimesOut(o) == o.state \in Connecting \ {"AwaitingAcceptReject"}

\* A bug: the attempt is dropped without a word.
TimeoutWithoutCallback(k, expired) ==
    IF expired THEN ConnectionClosed(SendClosed(k)) ELSE k

CheckTimeout(k, expired) ==
    IF expired THEN ConnectedCallback(ConnectionClosed(SendClosed(k)), "TimedOut")
    ELSE k

SendRetries(k, due) == Resend(k, {k.o.out[i] : i \in due})

CheckPendingAck(k, ackDue) ==
    IF k.o.pendingAck /\ ackDue
    THEN Transmit([k EXCEPT !.o.pendingAck = FALSE],
                  [kind |-> "Ack", to |-> PeerOf(k), esn |-> k.o.esn])
    ELSE k

(* FreeSocketConnection of an object that is closed: it leaves the list and is
   freed (ConnectionCleanup).  What the callbacks were told is kept. *)
Freed(o) ==
    [o EXCEPT !.life = "freed", !.listed = @ - 1, !.sn = 0, !.esn = 0,
              !.out = << >>, !.hold = {}, !.pendingAck = FALSE]

ConnectionThink(s, expired, due, ackDue) ==
    /\ Uncongested
    /\ table[s] # NoConn
    /\ LET k == CheckPendingAck(
                   SendRetries(
                     CheckTimeout(Context(table[s], FALSE), expired), due), ackDue)
       IN  /\ expired => TimesOut(conn[table[s]])
           /\ Commit(IF k.o.state = "Closed" THEN [k EXCEPT !.o = Freed(@)] ELSE k,
                     net)
    /\ UNCHANGED <<listening, lost, dups>>

(* FreeClosedConnections goes through the closed list of a socket.  Freeing
   depends on the state of the object: one that is listed but not in state
   Closed is taken out of the table instead, by address, which removes whatever
   object the table holds, and stays in the list. *)
FreeClosedConnections(s) ==
    LET listed == {c \in Of(s) : conn[c].listed > 0 /\ ~conn[c].freeAtAcceptReject}
        closed == {c \in listed : conn[c].state = "Closed"}
    IN  /\ listed # {}
        /\ conn' = [c \in Conn |-> IF c \in closed THEN Freed(conn[c]) ELSE conn[c]]
        /\ table' = IF listed = closed THEN table ELSE [table EXCEPT ![s] = NoConn]
        /\ UNCHANGED <<listening, net, lost, dups>>

-----------------------------------------------------------------------------
(* The application.  It answers a connection attempt once, at any time after
   the callback, and uses no object after the callback that ended it. *)

\* gt2Connect, not blocking: NewOutgoingConnection, StartConnectionAttempt.
Connect ==
    /\ Uncongested
    /\ table["client"] = NoConn
    /\ UnusedOf("client") # {}
    /\ \E big \in TooLarge :
          LET c == Fresh("client")
              k == [c |-> c, table |-> c, sent |-> {}, closesInClosed |-> FALSE,
                    o |-> [NewObject("AwaitingServerChallenge")
                             EXCEPT !.callbacks = TRUE, !.tooLarge = big]]
          IN  Commit(SendReliable(k, "ClientChallenge", NoConn, c), net)
    /\ UNCHANGED <<listening, lost, dups>>

\* A bug: the accept is sent before the state is looked at.
AcceptBeforeCheck(c) ==
    /\ Uncongested
    /\ conn[c].asked
    /\ LET k == [Context(c, FALSE) EXCEPT !.o.asked = FALSE,
                                         !.o.freeAtAcceptReject = FALSE]
           told == SendReliable(k, "Accept", NoConn, NoConn)
       IN  IF conn[c].state # "AwaitingAcceptReject" THEN Commit(told, net)
           ELSE Commit([SetState(told, "Connected")
                          EXCEPT !.o.callbacks = TRUE, !.o.accepted = TRUE], net)
    /\ UNCHANGED <<listening, lost, dups>>

\* AcceptConnection.
Accept(c) ==
    /\ Uncongested
    /\ conn[c].asked
    /\ LET k == [Context(c, FALSE) EXCEPT !.o.asked = FALSE,
                                         !.o.freeAtAcceptReject = FALSE]
       IN  IF conn[c].freeAtAcceptReject \/ conn[c].state # "AwaitingAcceptReject"
           THEN Commit(k, net)
           ELSE Commit([SetState(SendReliable(k, "Accept", NoConn, NoConn), "Connected")
                          EXCEPT !.o.callbacks = TRUE, !.o.accepted = TRUE], net)
    /\ UNCHANGED <<listening, lost, dups>>

\* RejectConnection, with a message of the application.
Reject(c) ==
    /\ Uncongested
    /\ conn[c].asked
    /\ \E big \in TooLarge :
          LET k == [Context(c, FALSE) EXCEPT !.o.asked = FALSE,
                                            !.o.freeAtAcceptReject = FALSE]
          IN  IF conn[c].state # "AwaitingAcceptReject" THEN Commit(k, net)
              ELSE Commit(SetState(SendWithMessage(k, "Reject", NoConn, big),
                                   "Closing"), net)
    /\ UNCHANGED <<listening, lost, dups>>

(* gt2CloseConnection of the object in the table, or gt2CloseAllConnections:
   a soft close whatever the state of the object.  Bound: once per object. *)
CloseConnection(s) ==
    /\ Uncongested
    /\ table[s] # NoConn
    /\ ~conn[table[s]].closedByApp
    /\ Commit(CloseSoft([Context(table[s], FALSE) EXCEPT
                 !.o.closedByApp = TRUE, !.o.asked = FALSE]), net)
    /\ UNCHANGED <<listening, lost, dups>>

(* gt2CloseConnectionHard and gt2CloseAllConnectionsHard: the hard branch of
   CloseConnection, outside of callbacks, so the object is freed at once. *)
CloseConnectionHard(s) ==
    /\ Uncongested
    /\ table[s] # NoConn
    /\ \E r \in ClosesInClosed :
          LET open   == [Context(table[s], r) EXCEPT
                           !.o.closedByApp = TRUE, !.o.asked = FALSE]
              closed == ClosedCallback(SendClosed(ConnectionClosed(open)), "LocalClose")
          IN  /\ open.o.state # "Closed"
              /\ Commit(IF closed.o.state = "Closed" /\ ~closed.o.freeAtAcceptReject
                        THEN [closed EXCEPT !.o = Freed(@)]
                        ELSE closed, net)
    /\ UNCHANGED <<listening, lost, dups>>

\* gt2Listen without a callback.
StopListening ==
    /\ listening
    /\ listening' = FALSE
    /\ UNCHANGED <<conn, table, net, lost, dups>>

Lose(d) ==
    /\ lost < MaxLoss
    /\ lost' = lost + 1
    /\ net' = net \ {d}
    /\ UNCHANGED <<conn, table, listening, dups>>

-----------------------------------------------------------------------------
App ==
    \/ Connect
    \/ \E c \in ServerConn : Accept(c) \/ Reject(c)
    \/ \E s \in Side : CloseConnection(s) \/ CloseConnectionHard(s)
    \/ StopListening

Think(s) ==
    \/ \E d \in net : Receive(s, d)
    \/ \E expired, ackDue \in BOOLEAN :
          \E due \in SUBSET (IF table[s] = NoConn THEN {}
                             ELSE DOMAIN conn[table[s]].out) :
             ConnectionThink(s, expired, due, ackDue)
    \/ FreeClosedConnections(s)

Next ==
    \/ App
    \/ \E s \in Side : Think(s) \/ ConnectionReset(s)
    \/ \E d \in net : Lose(d)

Spec == Init /\ [][Next]_vars

-----------------------------------------------------------------------------
(* Fairness.  The application calls gt2Think regularly: each call empties the
   socket, closes an attempt whose timeout has passed, sends again what is
   unconfirmed, and frees what is closed.  The network loses MaxLoss datagrams
   at most, and gt2Connect was given a timeout. *)
ThinkWith(s, expired, due) ==
    table[s] # NoConn /\ ConnectionThink(s, expired, due, FALSE)

Expires(s) == ThinkWith(s, TRUE, {})

Retried(s, type) ==
    /\ table[s] # NoConn
    /\ \E i \in DOMAIN conn[table[s]].out :
          conn[table[s]].out[i].type = type /\ ThinkWith(s, FALSE, {i})

ReceiveSome(s, types) ==
    \E d \in net : /\ IF d.kind = "Reliable" THEN d.msg.type \in types
                     ELSE d.kind \in types
                  /\ Receive(s, d)

Fairness ==
    \A s \in Side :
        /\ SF_vars(Expires(s))
        /\ WF_vars(FreeClosedConnections(s))
        /\ WF_vars(\E d \in net : Receive(s, d))
        /\ WF_vars(ReceiveSome(s, {"Closed"}))
        /\ \A type \in {"Close", "Reject"} :
              SF_vars(Retried(s, type)) /\ WF_vars(ReceiveSome(s, {type}))

FairSpec == Spec /\ Fairness

-----------------------------------------------------------------------------
(* Properties. *)

TypeOK ==
    /\ conn \in [Conn -> Object]
    /\ table \in [Side -> Conn \cup {NoConn}]
    /\ listening \in BOOLEAN
    /\ net \in SUBSET Datagram
    /\ lost \in 0..MaxLoss
    /\ dups \in 0..MaxDup

(* "Connections that are closed no longer get a spot in the hash table"
   (gt2Main.h:184), and no others lose theirs: an object is in the table, once,
   as long as it is not closed, and in the closed list, once, when it is. *)
ListsMatchState ==
    \A c \in Conn : conn[c].life = "allocated" =>
        /\ conn[c].state # "Closed" <=> table[SideOf(c)] = c
        /\ conn[c].listed = (IF conn[c].state = "Closed" THEN 1 ELSE 0)

(* A connection attempt may be accepted or rejected "at any time after this
   callback" (gt2.h:594): its object is not freed before, even if the client
   gave up, the server's think freed other objects, or the host was reset. *)
PendingIsNotFreed ==
    \A c \in Conn : conn[c].asked => conn[c].life = "allocated"

(* The callbacks of an object make one story: a connect attempt finishes once
   (gt2ConnectedCallback) and nothing follows its failure; a connection closes
   once (gt2ClosedCallback); and an object closes without a word of its connect
   attempt only if the application closed it before. *)
CallbacksInOrder ==
    \A c \in Conn :
        LET o == conn[c]
        IN  /\ Len(o.connectedCb) <= 1
            /\ Len(o.closedCb) <= 1
            /\ c \in ClientConn /\ o.closedCb # << >> =>
                  o.connectedCb = <<"Success">> \/ o.closedByApp
            /\ o.connectedCb # << >> /\ o.connectedCb # <<"Success">> =>
                  o.closedCb = << >>
            /\ o.closedCb # << >> => o.state = "Closed"

(* A connection succeeds only if the application of the listener accepted this
   very attempt (gt2ConnectedCallback, gt2.h:293, gt2Accept), whatever was
   resent, lost, reordered or left over from an earlier attempt. *)
ConnectedIsAccepted ==
    \A c \in ClientConn :
        conn[c].connectedCb = <<"Success">> =>
            \E b \in ServerConn : conn[b].accepted /\ conn[b].peer = c

(* The table holds "the connections that are using this socket"
   (gt2Main.h:183): an object that never closed keeps its place in it. *)
OpenKeepsItsPlace ==
    \A c \in Conn :
        conn[c].life = "allocated" /\ conn[c].state # "Closed" /\ conn[c].listed = 0
            => table[SideOf(c)] = c

(* A connection attempt finishes: its callback is called (gt2ConnectedCallback)
   unless the application closed the attempt itself. *)
AttemptFinishes ==
    \A c \in ClientConn :
        (conn[c].life = "allocated")
            ~> (conn[c].connectedCb # << >> \/ conn[c].closedByApp)

(* A close or a rejection completes: the object that waits for the peer's
   confirmation gets it, resending as long as it takes. *)
ClosingEnds ==
    \A c \in Conn : (conn[c].state = "Closing") ~> (conn[c].state = "Closed")

(* "Connection has been closed, free it as soon as possible" (gt2Main.h:118):
   nothing that is closed is leaked, once the application has answered it. *)
ClosedIsFreed ==
    \A c \in Conn :
        (conn[c].state = "Closed" /\ ~conn[c].asked /\ conn[c].life = "allocated")
            ~> (conn[c].life = "freed")
=============================================================================
