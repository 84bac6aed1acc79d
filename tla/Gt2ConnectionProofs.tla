------------------------- MODULE Gt2ConnectionProofs -------------------------
(***************************************************************************)
(* Safety of GT2's connection objects, for any number of objects,          *)
(* datagrams in flight, losses and duplicates.                             *)
(*                                                                         *)
(* A handler of Gt2Connection is a composition of operators on contexts,   *)
(* and so is the proof.  Sound(k) says of a context what ConnInv says of   *)
(* the whole state; each operator has a lemma that it keeps a context      *)
(* sound, and CommitKeeps says that a handler that ends with a sound       *)
(* context ends in a state of ConnInv.  Operators that only send, confirm  *)
(* or hold messages are Quiet: they change nothing that Sound speaks of.   *)
(*                                                                         *)
(* ConnInv does not say what the messages mean.  A second chain of the     *)
(* same form does, for the theorems on what a success of gt2Connect tells: *)
(* Honest(k, ...) is to AcceptInv what Sound(k) is to ConnInv.             *)
(***************************************************************************)
EXTENDS Gt2Connection, Gt2SerialProofs

-----------------------------------------------------------------------------
(* Contexts, and the operators that leave the life of the object alone.    *)

Ctx == [c : Conn, o : Object, table : Conn \cup {NoConn},
        sent : SUBSET Datagram, closesInClosed : BOOLEAN]

(* The operator that leads from k to q leaves alone what the properties speak
   of. *)
Same(k, q) ==
    /\ q.c = k.c /\ q.table = k.table /\ q.closesInClosed = k.closesInClosed
    /\ q.o.life = k.o.life /\ q.o.state = k.o.state /\ q.o.listed = k.o.listed
    /\ q.o.freeAtAcceptReject = k.o.freeAtAcceptReject
    /\ q.o.tooLarge = k.o.tooLarge /\ q.o.callbacks = k.o.callbacks
    /\ q.o.asked = k.o.asked /\ q.o.closedByApp = k.o.closedByApp
    /\ q.o.connectedCb = k.o.connectedCb /\ q.o.closedCb = k.o.closedCb

Quiet(k, q) == q \in Ctx /\ Same(k, q)

(* A datagram sent leaves the object as it is. *)
LEMMA TransmitIsQuiet ==
    ASSUME NEW k \in Ctx, NEW d \in Datagram
    PROVE  Quiet(k, Transmit(k, d))
BY DEF Quiet, Same, Transmit, Ctx

(* A Closed sent leaves the object as it is. *)
LEMMA SendClosedIsQuiet ==
    ASSUME NEW k \in Ctx
    PROVE  Quiet(k, SendClosed(k))
<1>1. ClosedTo(PeerOf(k)) \in Datagram
  BY DEF ClosedTo, PeerOf, Peer, Side, Datagram
<1> QED
  BY <1>1, TransmitIsQuiet DEF SendClosed

(* Messages sent again leave the object as it is. *)
LEMMA ResendIsQuiet ==
    ASSUME NEW k \in Ctx, NEW msgs \in SUBSET Message
    PROVE  Quiet(k, Resend(k, msgs))
<1>1. k.o.esn \in Nat /\ PeerOf(k) \in Side
  BY DEF Ctx, Object, PeerOf, Peer, Side
<1>2. \A m \in msgs : ReliableTo(PeerOf(k), m, k.o.esn) \in Datagram
  BY <1>1 DEF ReliableTo, Datagram
<1> QED
  BY <1>2 DEF Quiet, Same, Resend, Ctx

(* A reliable message sent takes a serial and a place in the outgoing buffer. *)
LEMMA SendReliableIsQuiet ==
    ASSUME NEW k \in Ctx, NEW type \in Type,
           NEW resp \in Conn \cup {NoConn}, NEW nonce \in Conn \cup {NoConn}
    PROVE  Quiet(k, SendReliable(k, type, resp, nonce))
<1> DEFINE m == [sn |-> k.o.sn, type |-> type, resp |-> resp, nonce |-> nonce]
           q == [k EXCEPT !.o.sn = @ + 1, !.o.out = Append(@, m),
                          !.o.pendingAck = FALSE]
<1>1. k.o.sn \in Nat /\ k.o.out \in Seq(Message)
  BY DEF Ctx, Object
<1>2. m \in Message
  BY <1>1 DEF Message
<1> HIDE DEF m
<1>3. k.o.sn + 1 \in Nat /\ Append(k.o.out, m) \in Seq(Message)
  BY <1>1, <1>2
<1>4. Quiet(k, q)
  BY <1>3 DEF Quiet, Same, Ctx, Object
<1>5. SendReliable(k, type, resp, nonce) = Resend(q, {m})
  BY DEF SendReliable, m
<1> HIDE DEF q
<1>6. Quiet(q, Resend(q, {m}))
  BY <1>2, <1>4, ResendIsQuiet DEF Quiet
<1> QED
  BY <1>4, <1>5, <1>6 DEF Quiet, Same

(* What two quiet operators do is quiet. *)
LEMMA QuietThenQuiet ==
    ASSUME NEW k, NEW q, NEW r, Quiet(k, q), Quiet(q, r)
    PROVE  Quiet(k, r)
BY DEF Quiet, Same

(* A confirmation leaves an outgoing buffer, whatever the serials. *)
LEMMA ConfirmIsQuiet ==
    ASSUME NEW k \in Ctx, NEW ESN \in Nat
    PROVE  Quiet(k, Confirm(k, ESN))
<1>1. HandleESN(k.o.out, ESN) \in Seq(Message)
  BY HandleESNType DEF Ctx, Object
<1> QED
  BY <1>1 DEF Quiet, Same, Confirm, Ctx, Object

(* Noting that an ack is due is quiet. *)
LEMMA SetPendingAckIsQuiet ==
    ASSUME NEW k \in Ctx
    PROVE  Quiet(k, SetPendingAck(k))
BY DEF Quiet, Same, SetPendingAck, Ctx, Object

(* Expecting the next serial is quiet. *)
LEMMA NextIsQuiet ==
    ASSUME NEW k \in Ctx
    PROVE  Quiet(k, [k EXCEPT !.o.esn = @ + 1])
<1>1. k.o.esn + 1 \in Nat
  BY DEF Ctx, Object
<1> QED
  BY <1>1 DEF Quiet, Same, Ctx, Object

(* A nack only makes messages be sent again. *)
LEMMA HandleNackIsQuiet ==
    ASSUME NEW k \in Ctx, NEW d
    PROVE  Quiet(k, HandleNack(k, d))
<1>1. \A i \in DOMAIN k.o.out : k.o.out[i] \in Message
  BY DEF Ctx, Object
<1> QED
  BY <1>1, ResendIsQuiet DEF HandleNack

(* Retries only send messages again. *)
LEMMA SendRetriesIsQuiet ==
    ASSUME NEW k \in Ctx, NEW due \in SUBSET DOMAIN k.o.out
    PROVE  Quiet(k, SendRetries(k, due))
<1>1. \A i \in DOMAIN k.o.out : k.o.out[i] \in Message
  BY DEF Ctx, Object
<1> QED
  BY <1>1, ResendIsQuiet DEF SendRetries

(* A due ack is sent, or nothing happens. *)
LEMMA CheckPendingAckIsQuiet ==
    ASSUME NEW k \in Ctx, NEW ackDue
    PROVE  Quiet(k, CheckPendingAck(k, ackDue))
<1> DEFINE q == [k EXCEPT !.o.pendingAck = FALSE]
           d == [kind |-> "Ack", to |-> PeerOf(k), esn |-> k.o.esn]
<1>1. d \in Datagram
  BY DEF Datagram, PeerOf, Peer, Side, Ctx, Object
<1>2. Quiet(k, q)
  BY DEF Quiet, Same, Ctx, Object
<1>3. CheckPendingAck(k, ackDue) = k \/ CheckPendingAck(k, ackDue) = Transmit(q, d)
  BY DEF CheckPendingAck
<1>4. Quiet(k, k)
  BY DEF Quiet, Same
<1> HIDE DEF q, d
<1> QED
  BY <1>1, <1>2, <1>3, <1>4, TransmitIsQuiet, QuietThenQuiet DEF Quiet

(* An early message goes to the hold and may cost a nack. *)
LEMMA BufferIsQuiet ==
    ASSUME NEW k \in Ctx, NEW m \in Message
    PROVE  Quiet(k, BufferIncomingMessage(k, m))
<1> DEFINE below   == {h \in k.o.hold : SNDiff(h.sn, m.sn) < 0}
           highest == {h \in below : \A g \in below : SNDiff(g.sn, h.sn) <= 0}
           late    == {g \in highest : SNDiff(m.sn, g.sn) > 1}
           gap     == IF k.o.hold = {} THEN {k.o.esn}
                      ELSE IF below = k.o.hold THEN {h.sn + 1 : h \in late}
                      ELSE {}
           nacks   == {NackTo(PeerOf(k), min, m.sn - 1) : min \in gap}
           q       == [k EXCEPT !.o.hold = @ \cup {m}, !.sent = @ \cup nacks]
<1>1. /\ k.o.hold \in SUBSET Message /\ k.o.esn \in Nat /\ PeerOf(k) \in Side
      /\ late \subseteq k.o.hold
  BY DEF Ctx, Object, PeerOf, Peer, Side
<1>2. BufferIncomingMessage(k, m) = k \/ BufferIncomingMessage(k, m) = q
  BY Zenon DEF BufferIncomingMessage
<1> HIDE DEF late
<1>3. gap \subseteq Nat
  BY <1>1 DEF Message
<1> HIDE DEF gap
<1>4. nacks \subseteq Datagram
  <2>1. m.sn - 1 \in Int
    BY DEF Message
  <2>2. \A a \in Nat, b \in Int : NackTo(PeerOf(k), a, b) \in Datagram
    BY <1>1 DEF NackTo, Datagram
  <2> QED
    BY <1>3, <2>1, <2>2
<1> HIDE DEF nacks
<1>5. Quiet(k, q)
  BY <1>1, <1>4 DEF Quiet, Same, Ctx, Object
<1>6. Quiet(k, k)
  BY DEF Quiet, Same
<1> QED
  BY <1>2, <1>5, <1>6

-----------------------------------------------------------------------------
(* What is always true of an object and of a context.                      *)

(* The documented use: no message larger than the outgoing buffer, and no
   gt2CloseConnection from within the closed callback.  Without it an object
   can be closed and open at once, as gt2_lost_place shows. *)
DocumentedUse == TooLarge = {FALSE} /\ ClosesInClosed = {FALSE}

(* An object that owes an answer still waits for it, or is marked so that it is
   not freed. *)
Answerable(o) ==
    o.asked => /\ o.life = "allocated"
               /\ o.state = "AwaitingAcceptReject" \/ o.freeAtAcceptReject

(* What is closed is in the closed list. *)
Listed(o) == o.life = "allocated" /\ o.state = "Closed" => o.listed > 0

(* Only the side that was called is asked. *)
ServerStates == {"AwaitingClientChallenge", "AwaitingClientResponse",
                 "AwaitingAcceptReject"}

Role(c, o) == c \in ClientConn => o.state \notin ServerStates

(* The object c, of contents o, and what the table of its socket holds, t. *)
Placed(c, o, t) ==
    o.life = "allocated" =>
        /\ o.state # "Closed" <=> t = c
        /\ o.listed = (IF o.state = "Closed" THEN 1 ELSE 0)

(* What the callbacks were told, by the state they leave the object in. *)
Told(c, o) ==
    /\ Len(o.connectedCb) <= 1 /\ Len(o.closedCb) <= 1
    /\ c \in ClientConn /\ o.closedCb # << >> =>
          o.connectedCb = <<"Success">> \/ o.closedByApp
    /\ o.connectedCb # << >> /\ o.connectedCb # <<"Success">> =>
          o.closedCb = << >> /\ o.state = "Closed"
    /\ o.state # "Closed" => o.closedCb = << >>
    /\ o.state \in Connecting => o.connectedCb = << >>
    /\ c \in ClientConn /\ o.state \in {"Connected", "Closing"} =>
          o.connectedCb = <<"Success">> \/ o.closedByApp

(* All that holds of an object under the documented use. *)
Story(c, o, t) ==
    /\ o.tooLarge = FALSE
    /\ o.life # "allocated" => o.state = "Closed"
    /\ o.life = "allocated" /\ c \in ClientConn => o.callbacks
    /\ Placed(c, o, t)
    /\ Told(c, o)

(* A context during a handler. *)
Sound(k) ==
    /\ k \in Ctx
    /\ k.o.life = "allocated"
    /\ Answerable(k.o)
    /\ Listed(k.o)
    /\ Role(k.c, k.o)
    /\ k.table \in {NoConn, k.c, table[SideOf(k.c)]}
    /\ k.table = k.c => /\ k.o.state # "Closed"
                        /\ k.o.asked => k.o.state = "AwaitingAcceptReject"
    /\ DocumentedUse =>
          /\ k.closesInClosed = FALSE
          /\ Story(k.c, k.o, k.table)
          /\ table[SideOf(k.c)] \in {NoConn, k.c} \/ k.table = table[SideOf(k.c)]

(* A quiet operator keeps a context sound. *)
LEMMA QuietKeeps ==
    ASSUME NEW k, NEW q, Sound(k), Quiet(k, q)
    PROVE  Sound(q)
BY DEF Quiet, Same, Sound, Answerable, Listed, Role, Story, Placed, Told

(* An open state may be given to an object that owes no answer, and, as
   documented, that is open already. *)
LEMMA SetStateKeeps ==
    ASSUME NEW k, Sound(k), NEW s \in State \ {"Closed"},
           k.o.state # "AwaitingAcceptReject" \/ ~k.o.asked,
           s \in ServerStates => k.o.state \in ServerStates,
           DocumentedUse =>
              /\ k.o.state # "Closed"
              /\ s \in Connecting => k.o.state \in Connecting
              /\ k.c \in ClientConn /\ s \notin Connecting =>
                    k.o.connectedCb = <<"Success">> \/ k.o.closedByApp
    PROVE  Sound(SetState(k, s)) /\ SetState(k, s).c = k.c
<1> DEFINE o == [k.o EXCEPT !.state = s]
<1>1. k.o \in Object /\ k.c \in Conn
  BY DEF Sound, Ctx
<1>2. /\ o \in Object /\ o.state = s /\ o.life = k.o.life /\ o.listed = k.o.listed
      /\ o.asked = k.o.asked /\ o.callbacks = k.o.callbacks
      /\ o.connectedCb = k.o.connectedCb /\ o.closedCb = k.o.closedCb
      /\ o.closedByApp = k.o.closedByApp /\ o.tooLarge = k.o.tooLarge
      /\ o.freeAtAcceptReject = k.o.freeAtAcceptReject
  BY <1>1 DEF Object, State
<1>3. /\ SetState(k, s) \in Ctx /\ SetState(k, s).c = k.c
      /\ SetState(k, s).table = k.table /\ SetState(k, s).o = o
      /\ SetState(k, s).closesInClosed = k.closesInClosed
  BY <1>2 DEF SetState, Sound, Ctx
<1> HIDE DEF o
<1>4. Answerable(o) /\ Listed(o) /\ Role(k.c, o)
  BY <1>2 DEF Sound, Answerable, Listed, Role
<1>5. ASSUME DocumentedUse
      PROVE  Placed(k.c, o, k.table) /\ Told(k.c, o)
  BY <1>2, <1>5 DEF Sound, Story, Placed, Told, Connecting
<1>6. DocumentedUse => Story(k.c, o, k.table)
  BY <1>2, <1>5 DEF Sound, Story
<1> QED
  BY <1>2, <1>3, <1>4, <1>6 DEF Sound

(* Closing keeps a context sound if an object that owes an answer is marked. *)
LEMMA ConnectionClosedKeeps ==
    ASSUME NEW k, Sound(k),
           k.o.state = "AwaitingAcceptReject" /\ k.o.asked => k.o.freeAtAcceptReject
    PROVE  /\ Sound(ConnectionClosed(k)) /\ ConnectionClosed(k).c = k.c
           /\ ConnectionClosed(k).o.state = "Closed"
           /\ ConnectionClosed(k).o.connectedCb = k.o.connectedCb
           /\ ConnectionClosed(k).o.closedCb = k.o.closedCb
           /\ ConnectionClosed(k).o.closedByApp = k.o.closedByApp
           /\ ConnectionClosed(k).o.asked = k.o.asked
<1>1. CASE k.o.state = "Closed"
  BY <1>1 DEF ConnectionClosed
<1>2. CASE k.o.state # "Closed"
  <2> DEFINE o == [k.o EXCEPT !.state = "Closed", !.listed = @ + 1]
             q == ConnectionClosed(k)
  <2>1. k.o \in Object /\ k.o.listed + 1 \in Nat /\ k.c \in Conn
    BY DEF Sound, Ctx, Object
  <2>2. /\ o \in Object /\ o.state = "Closed" /\ o.listed = k.o.listed + 1
        /\ o.life = k.o.life /\ o.asked = k.o.asked /\ o.callbacks = k.o.callbacks
        /\ o.connectedCb = k.o.connectedCb /\ o.closedCb = k.o.closedCb
        /\ o.closedByApp = k.o.closedByApp /\ o.tooLarge = k.o.tooLarge
        /\ o.freeAtAcceptReject = k.o.freeAtAcceptReject
    BY <2>1 DEF Object, State
  <2>3. /\ q.o = o /\ q.c = k.c /\ q.table = NoConn
        /\ q.closesInClosed = k.closesInClosed /\ q \in Ctx
    BY <1>2, <2>2 DEF ConnectionClosed, Sound, Ctx
  <2> HIDE DEF o, q
  <2>4. Answerable(o) /\ Listed(o) /\ Role(k.c, o)
    BY <2>1, <2>2 DEF Sound, Answerable, Listed, Role, ServerStates, Object
  <2>5. NoConn # k.c
    BY <2>1, ConnAssumption
  <2>6. DocumentedUse => /\ Story(k.c, o, NoConn)
                         /\ table[SideOf(k.c)] \in {NoConn, k.c}
    BY <1>2, <2>1, <2>2, <2>5 DEF Sound, Story, Placed, Told, Connecting
  <2>7. Sound(q)
    BY <2>2, <2>3, <2>4, <2>5, <2>6 DEF Sound
  <2> QED
    BY <2>2, <2>3, <2>7 DEF q
<1> QED
  BY <1>1, <1>2

(* The callbacks of an end: of an attempt, with a result, of a connection, with
   a reason. *)
Results == {"Rejected", "TimedOut", "NegotiationError", "OutOfMemory"}
Reasons == {"LocalClose", "RemoteClose", "CommunicationError", "NotEnoughMemory"}

(* An operator that leads from k to q has kept the context sound. *)
Ended(k, q) == Sound(q) /\ q.c = k.c

(* The failure of an attempt is told of a closed object that was told
   nothing. *)
LEMMA ConnectedCallbackKeeps ==
    ASSUME NEW k, Sound(k), k.o.state = "Closed", NEW result \in Results,
           DocumentedUse => k.o.connectedCb = << >> /\ k.o.closedCb = << >>
    PROVE  /\ Ended(k, ConnectedCallback(k, result))
           /\ ConnectedCallback(k, result).o.state = "Closed"
           /\ ConnectedCallback(k, result).o.asked = k.o.asked
           /\ ConnectedCallback(k, result).o.out = k.o.out
<1> DEFINE q == [k EXCEPT !.o.connectedCb = Append(@, result)]
           o == [k.o EXCEPT !.connectedCb = Append(@, result)]
<1>1. /\ k.o \in Object /\ k.c \in Conn
      /\ k.o.connectedCb \in Seq(Results \cup {"Success"})
  BY DEF Sound, Ctx, Object, Results
<1>2. Append(k.o.connectedCb, result) \in Seq(Results \cup {"Success"})
  BY <1>1
<1>3. /\ o \in Object /\ o.state = k.o.state /\ o.life = k.o.life /\ o.listed = k.o.listed
      /\ o.asked = k.o.asked /\ o.callbacks = k.o.callbacks
      /\ o.connectedCb = Append(k.o.connectedCb, result) /\ o.closedCb = k.o.closedCb
      /\ o.out = k.o.out
      /\ o.closedByApp = k.o.closedByApp /\ o.tooLarge = k.o.tooLarge
      /\ o.freeAtAcceptReject = k.o.freeAtAcceptReject
  BY <1>1, <1>2 DEF Object, Results
<1>4. /\ q \in Ctx /\ q.c = k.c /\ q.table = k.table /\ q.o = o
      /\ q.closesInClosed = k.closesInClosed
  BY <1>3 DEF Sound, Ctx
<1>5. ConnectedCallback(k, result) = k \/ ConnectedCallback(k, result) = q
  BY DEF ConnectedCallback
<1> HIDE DEF o, q
<1>6. Answerable(o) /\ Listed(o) /\ Role(k.c, o)
  BY <1>3 DEF Sound, Answerable, Listed, Role
<1>7. k.o.connectedCb = << >> => Len(Append(k.o.connectedCb, result)) = 1
  BY <1>1
<1>8. ASSUME DocumentedUse
      PROVE  Placed(k.c, o, k.table) /\ Told(k.c, o)
  BY <1>3, <1>7, <1>8 DEF Sound, Story, Placed, Told, Connecting
<1>9. DocumentedUse => Story(k.c, o, k.table)
  BY <1>3, <1>8 DEF Sound, Story
<1>10. Sound(q) /\ q.o.state = "Closed"
  BY <1>3, <1>4, <1>6, <1>9 DEF Sound
<1> QED
  BY <1>3, <1>4, <1>5, <1>10 DEF Ended

(* A soft close keeps a context sound unless an answer is owed. *)
LEMMA CloseSoftKeeps ==
    ASSUME NEW k, Sound(k),
           k.o.state # "AwaitingAcceptReject" \/ ~k.o.asked,
           DocumentedUse =>
              /\ k.o.state # "Closed"
              /\ k.c \in ClientConn => k.o.connectedCb = <<"Success">> \/ k.o.closedByApp
    PROVE  Ended(k, CloseSoft(k))
<1>1. /\ "Closing" \in State \ {"Closed"}
      /\ "Closing" \notin Connecting /\ "Closing" \notin ServerStates
  BY DEF State, Connecting, ServerStates
<1>2. Ended(k, SetState(k, "Closing"))
  BY <1>1, SetStateKeeps DEF Ended
<1>3. Quiet(SetState(k, "Closing"), CloseSoft(k))
  BY <1>2, SendReliableIsQuiet DEF CloseSoft, Ended, Sound, Type
<1> QED
  BY <1>2, <1>3, QuietKeeps DEF Ended, Quiet, Same

(* The end of a connection is told of a closed object that was not told of
   it. *)
LEMMA ClosedCallbackKeeps ==
    ASSUME NEW k, Sound(k), k.o.state = "Closed", NEW reason \in Reasons,
           DocumentedUse =>
              /\ k.o.closedCb = << >>
              /\ k.o.connectedCb \in {<< >>, <<"Success">>}
              /\ k.c \in ClientConn => k.o.connectedCb = <<"Success">> \/ k.o.closedByApp
    PROVE  Ended(k, ClosedCallback(k, reason))
<1> DEFINE q == [k EXCEPT !.o.closedCb = Append(@, reason)]
           o == [k.o EXCEPT !.closedCb = Append(@, reason)]
<1>1. /\ k.o \in Object /\ k.c \in Conn
      /\ k.o.closedCb \in Seq(Reasons)
  BY DEF Sound, Ctx, Object, Reasons
<1>2. Append(k.o.closedCb, reason) \in Seq(Reasons)
  BY <1>1
<1>3. /\ o \in Object /\ o.state = k.o.state /\ o.life = k.o.life /\ o.listed = k.o.listed
      /\ o.asked = k.o.asked /\ o.callbacks = k.o.callbacks
      /\ o.closedCb = Append(k.o.closedCb, reason) /\ o.connectedCb = k.o.connectedCb
      /\ o.closedByApp = k.o.closedByApp /\ o.tooLarge = k.o.tooLarge
      /\ o.freeAtAcceptReject = k.o.freeAtAcceptReject
  BY <1>1, <1>2 DEF Object, Reasons
<1>4. /\ q \in Ctx /\ q.c = k.c /\ q.table = k.table /\ q.o = o
      /\ q.closesInClosed = k.closesInClosed
  BY <1>3 DEF Sound, Ctx
<1>5. \/ ClosedCallback(k, reason) = k
      \/ ClosedCallback(k, reason) = q
      \/ k.closesInClosed /\ ClosedCallback(k, reason) = CloseSoft(q)
  BY DEF ClosedCallback
<1> HIDE DEF o, q
<1>6. Answerable(o) /\ Listed(o) /\ Role(k.c, o)
  BY <1>3 DEF Sound, Answerable, Listed, Role
<1>7. k.o.closedCb = << >> => Len(Append(k.o.closedCb, reason)) = 1
  BY <1>1
<1>8. ASSUME DocumentedUse
      PROVE  Placed(k.c, o, k.table) /\ Told(k.c, o)
  BY <1>3, <1>7, <1>8 DEF Sound, Story, Placed, Told, Connecting
<1>9. DocumentedUse => Story(k.c, o, k.table)
  BY <1>3, <1>8 DEF Sound, Story
<1>10. Sound(q) /\ q.o.state = "Closed"
  BY <1>3, <1>4, <1>6, <1>9 DEF Sound
<1>11. k.closesInClosed => Ended(q, CloseSoft(q))
  BY <1>4, <1>10, CloseSoftKeeps DEF Sound
<1> QED
  BY <1>4, <1>5, <1>10, <1>11 DEF Ended

(* A quiet operator ends in a sound context of the same object and state. *)
LEMMA QuietEnds ==
    ASSUME NEW k, NEW q, Sound(k), Quiet(k, q)
    PROVE  Ended(k, q) /\ q.o.state = k.o.state
BY QuietKeeps DEF Ended, Quiet, Same

(* The mark freeAtAcceptReject keeps a context sound. *)
LEMMA PendingKeeps ==
    ASSUME NEW k, Sound(k)
    PROVE  LET q == [k EXCEPT !.o.freeAtAcceptReject =
                        @ \/ k.o.state = "AwaitingAcceptReject"]
           IN  /\ Ended(k, q)
               /\ q.o.state = "AwaitingAcceptReject" => q.o.freeAtAcceptReject
<1> DEFINE b == k.o.freeAtAcceptReject \/ k.o.state = "AwaitingAcceptReject"
           q == [k EXCEPT !.o.freeAtAcceptReject = b]
           o == [k.o EXCEPT !.freeAtAcceptReject = b]
<1>1. /\ k.o \in Object /\ k.c \in Conn /\ b \in BOOLEAN
      /\ k.o.freeAtAcceptReject \in BOOLEAN
      /\ k.o.state = "AwaitingAcceptReject" => b
      /\ k.o.freeAtAcceptReject => b
  BY DEF Sound, Ctx, Object
<1> HIDE DEF b
<1>2. /\ o \in Object /\ o.state = k.o.state /\ o.life = k.o.life /\ o.listed = k.o.listed
      /\ o.asked = k.o.asked /\ o.callbacks = k.o.callbacks
      /\ o.closedCb = k.o.closedCb /\ o.connectedCb = k.o.connectedCb
      /\ o.closedByApp = k.o.closedByApp /\ o.tooLarge = k.o.tooLarge
      /\ o.freeAtAcceptReject = b
  BY <1>1 DEF Object
<1>3. /\ q \in Ctx /\ q.c = k.c /\ q.table = k.table /\ q.o = o
      /\ q.closesInClosed = k.closesInClosed
  BY <1>2 DEF Sound, Ctx
<1> HIDE DEF o, q
<1>4. Answerable(o) /\ Listed(o) /\ Role(k.c, o)
  BY <1>1, <1>2 DEF Sound, Answerable, Listed, Role
<1>5. DocumentedUse => Story(k.c, o, k.table)
  BY <1>2 DEF Sound, Story, Placed, Told
<1>6. Sound(q)
  BY <1>2, <1>3, <1>4, <1>5 DEF Sound
<1> QED
  BY <1>1, <1>2, <1>3, <1>6 DEF Ended, q, b

(* Any error, in any state, ends in a sound context, and closes an attempt. *)
LEMMA ConnectionErrorKeeps ==
    ASSUME NEW k, Sound(k), NEW result \in Results, NEW reason \in Reasons
    PROVE  /\ Ended(k, ConnectionError(k, result, reason))
           /\ k.o.state \in Connecting =>
                 ConnectionError(k, result, reason).o.state = "Closed"
<1>1. "Closed" \notin Connecting /\ "AwaitingAcceptReject" \in Connecting
  BY DEF Connecting
<1>2. k.c \in Conn /\ k.o.state \in State
  BY DEF Sound, Ctx, Object
<1>4. CASE k.o.state \in Connecting /\ SideOf(k.c) = "client"
  <2>1. ConnectionError(k, result, reason) = ConnectedCallback(ConnectionClosed(k), result)
    BY <1>4 DEF ConnectionError
  <2>2. k.o.state # "AwaitingAcceptReject"
    BY <1>2, <1>4 DEF Sound, Role, ServerStates, SideOf
  <2>3. /\ Sound(ConnectionClosed(k)) /\ ConnectionClosed(k).c = k.c
        /\ ConnectionClosed(k).o.state = "Closed"
        /\ ConnectionClosed(k).o.connectedCb = k.o.connectedCb
        /\ ConnectionClosed(k).o.closedCb = k.o.closedCb
    BY <2>2, ConnectionClosedKeeps
  <2>4. DocumentedUse => k.o.connectedCb = << >> /\ k.o.closedCb = << >>
    BY <1>1, <1>4 DEF Sound, Story, Told, SideOf
  <2> QED
    BY <2>1, <2>3, <2>4, ConnectedCallbackKeeps DEF Ended
<1>5. CASE k.o.state \in Connecting /\ SideOf(k.c) # "client"
  <2> DEFINE q == [k EXCEPT !.o.freeAtAcceptReject =
                      @ \/ k.o.state = "AwaitingAcceptReject"]
  <2>1. /\ Ended(k, q)
        /\ q.o.state = "AwaitingAcceptReject" => q.o.freeAtAcceptReject
    BY PendingKeeps
  <2>2. ConnectionError(k, result, reason) = ConnectionClosed(q)
    BY <1>5 DEF ConnectionError
  <2> HIDE DEF q
  <2> QED
    BY <2>1, <2>2, ConnectionClosedKeeps DEF Ended
<1>6. CASE k.o.state \notin Connecting /\ k.o.state # "Closed"
  <2>1. ConnectionError(k, result, reason) = ClosedCallback(ConnectionClosed(k), reason)
    BY <1>6 DEF ConnectionError
  <2>2. k.o.state \in {"Connected", "Closing"}
    BY <1>2, <1>6 DEF State
  <2>3. /\ Sound(ConnectionClosed(k)) /\ ConnectionClosed(k).c = k.c
        /\ ConnectionClosed(k).o.state = "Closed"
        /\ ConnectionClosed(k).o.connectedCb = k.o.connectedCb
        /\ ConnectionClosed(k).o.closedCb = k.o.closedCb
        /\ ConnectionClosed(k).o.closedByApp = k.o.closedByApp
    BY <2>2, ConnectionClosedKeeps
  <2>4. DocumentedUse =>
          /\ k.o.closedCb = << >>
          /\ k.o.connectedCb \in {<< >>, <<"Success">>}
          /\ k.c \in ClientConn => k.o.connectedCb = <<"Success">> \/ k.o.closedByApp
    BY <2>2 DEF Sound, Story, Told
  <2> QED
    BY <1>6, <2>1, <2>3, <2>4, ClosedCallbackKeeps DEF Ended
<1>7. CASE k.o.state = "Closed"
  BY <1>1, <1>7 DEF ConnectionError, Ended
<1> QED
  BY <1>4, <1>5, <1>6, <1>7

(* A message that the state does not allow ends in a sound context. *)
LEMMA CommunicationErrorKeeps ==
    ASSUME NEW k, Sound(k)
    PROVE  Ended(k, CommunicationError(k))
BY ConnectionErrorKeeps DEF CommunicationError, Results, Reasons

(* A full buffer ends in a sound context, and closes an attempt. *)
LEMMA MemoryErrorKeeps ==
    ASSUME NEW k, Sound(k)
    PROVE  /\ Ended(k, MemoryError(k))
           /\ k.o.state \in Connecting => MemoryError(k).o.state = "Closed"
<1>1. Ended(k, SendClosed(k)) /\ SendClosed(k).o.state = k.o.state
  BY SendClosedIsQuiet, QuietEnds DEF Sound
<1> QED
  BY <1>1, ConnectionErrorKeeps DEF MemoryError, Ended, Results, Reasons

(* A message of the application is sent, or closes the attempt. *)
LEMMA SendWithMessageKeeps ==
    ASSUME NEW k, Sound(k), k.o.state \in Connecting, NEW type \in Type,
           NEW resp \in Conn \cup {NoConn}, NEW big \in BOOLEAN
    PROVE  LET q == SendWithMessage(k, type, resp, big)
           IN  /\ Ended(k, q) /\ q.o.state = IF big THEN "Closed" ELSE k.o.state
               /\ ~big => q.o.asked = k.o.asked
<1>1. CASE big
  BY <1>1, MemoryErrorKeeps DEF SendWithMessage
<1>2. CASE ~big
  <2>1. k \in Ctx /\ NoConn \in Conn \cup {NoConn}
    BY DEF Sound
  <2>2. Quiet(k, SendReliable(k, type, resp, NoConn))
    BY <2>1, SendReliableIsQuiet
  <2> QED
    BY <1>2, <2>2, QuietEnds DEF SendWithMessage, Quiet, Same
<1> QED
  BY <1>1, <1>2

(* gti2HandleClientChallenge. *)
LEMMA HandleClientChallengeKeeps ==
    ASSUME NEW k, Sound(k), NEW m \in Message
    PROVE  Ended(k, HandleClientChallenge(k, m))
<1>1. CASE k.o.state # "AwaitingClientChallenge"
  BY <1>1, CommunicationErrorKeeps DEF HandleClientChallenge
<1>2. CASE k.o.state = "AwaitingClientChallenge"
  <2> DEFINE p == [k EXCEPT !.o.peer = m.nonce]
             q == SendReliable(p, "ServerChallenge", m.nonce, k.c)
  <2>1. m.nonce \in Conn \cup {NoConn} /\ k.c \in Conn /\ k \in Ctx
    BY DEF Message, Sound, Ctx
  <2>2. Quiet(k, p)
    BY <2>1 DEF Quiet, Same, Ctx, Object
  <2> HIDE DEF p
  <2>3. Quiet(p, q)
    BY <2>1, <2>2, SendReliableIsQuiet DEF Quiet, Type
  <2> HIDE DEF q
  <2>4. Ended(k, q) /\ q.o.state = "AwaitingClientChallenge"
    BY <1>2, <2>2, <2>3, QuietThenQuiet, QuietEnds
  <2>5. Ended(q, SetState(q, "AwaitingClientResponse"))
    BY <2>4, SetStateKeeps DEF Ended, State, Connecting, ServerStates
  <2> QED
    BY <1>2, <2>4, <2>5 DEF HandleClientChallenge, Ended, p, q
<1> QED
  BY <1>1, <1>2

(* gti2HandleServerChallenge. *)
LEMMA HandleServerChallengeKeeps ==
    ASSUME NEW k, Sound(k), NEW m \in Message
    PROVE  Ended(k, HandleServerChallenge(k, m))
<1>1. CASE k.o.state # "AwaitingServerChallenge" \/ m.resp # k.c
  BY <1>1, CommunicationErrorKeeps DEF HandleServerChallenge
<1>2. CASE k.o.state = "AwaitingServerChallenge" /\ m.resp = k.c
  <2> DEFINE q == SendWithMessage(k, "ClientResponse", m.nonce, k.o.tooLarge)
  <2>1. m.nonce \in Conn \cup {NoConn} /\ k.o.tooLarge \in BOOLEAN
    BY DEF Message, Sound, Ctx, Object
  <2>2. Ended(k, q) /\ q.o.state = IF k.o.tooLarge THEN "Closed" ELSE k.o.state
    BY <1>2, <2>1, SendWithMessageKeeps DEF Connecting, Type
  <2>3. DocumentedUse => k.o.tooLarge = FALSE
    BY DEF Sound, Story
  <2> HIDE DEF q
  <2>4. Ended(q, SetState(q, "AwaitingAcceptance"))
    BY <1>2, <2>2, <2>3, SetStateKeeps DEF Ended, State, Connecting, ServerStates
  <2> QED
    BY <1>2, <2>2, <2>4 DEF HandleServerChallenge, Ended, q
<1> QED
  BY <1>1, <1>2

(* gti2HandleClientResponse: the object is asked about, and waits. *)
LEMMA HandleClientResponseKeeps ==
    ASSUME NEW k, Sound(k), NEW m \in Message
    PROVE  Ended(k, HandleClientResponse(k, m))
<1>1. CASE k.o.state # "AwaitingClientResponse" \/ m.resp # k.c
  BY <1>1, CommunicationErrorKeeps DEF HandleClientResponse
<1>2. CASE k.o.state = "AwaitingClientResponse" /\ m.resp = k.c /\ ~listening
  <2>1. Ended(k, SendClosed(k)) /\ SendClosed(k).o.state = k.o.state
    BY SendClosedIsQuiet, QuietEnds DEF Sound
  <2> QED
    BY <1>2, <2>1, ConnectionClosedKeeps DEF HandleClientResponse, Ended
<1>3. CASE k.o.state = "AwaitingClientResponse" /\ m.resp = k.c /\ listening
  <2> DEFINE p == SetState(k, "AwaitingAcceptReject")
             q == [p EXCEPT !.o.asked = TRUE]
             o == [p.o EXCEPT !.asked = TRUE]
  <2>1. Ended(k, p) /\ p.o.state = "AwaitingAcceptReject"
    <3>1. p.o.state = "AwaitingAcceptReject"
      BY DEF SetState, Sound, Ctx, Object
    <3> QED
      BY <1>3, <3>1, SetStateKeeps DEF Ended, State, Connecting, ServerStates
  <2>2. HandleClientResponse(k, m) = q
    BY <1>3 DEF HandleClientResponse
  <2> HIDE DEF p
  <2>3. Sound(q) /\ q.c = p.c
    <3>1. p.o \in Object /\ p \in Ctx
      BY <2>1 DEF Ended, Sound, Ctx
    <3>2. /\ o \in Object /\ o.state = p.o.state /\ o.life = p.o.life
          /\ o.listed = p.o.listed /\ o.asked = TRUE
          /\ o.callbacks = p.o.callbacks /\ o.tooLarge = p.o.tooLarge
          /\ o.closedCb = p.o.closedCb /\ o.connectedCb = p.o.connectedCb
          /\ o.closedByApp = p.o.closedByApp
      BY <3>1 DEF Object
    <3>3. /\ q \in Ctx /\ q.c = p.c /\ q.table = p.table /\ q.o = o
          /\ q.closesInClosed = p.closesInClosed
      BY <3>1, <3>2 DEF Ctx
    <3> HIDE DEF o, q
    <3> QED
      BY <2>1, <3>2, <3>3
      DEF Ended, Sound, Answerable, Listed, Role, Story, Placed, Told
  <2> QED
    BY <2>1, <2>2, <2>3 DEF Ended
<1> QED
  BY <1>1, <1>2, <1>3

(* gti2HandleAccept: the attempt of a client is told of its success. *)
LEMMA HandleAcceptKeeps ==
    ASSUME NEW k, Sound(k)
    PROVE  Ended(k, HandleAccept(k))
<1>1. CASE k.o.state # "AwaitingAcceptance"
  BY <1>1, CommunicationErrorKeeps DEF HandleAccept
<1>2. CASE k.o.state = "AwaitingAcceptance"
  <2> DEFINE cbs == IF k.o.callbacks THEN Append(k.o.connectedCb, "Success")
                    ELSE k.o.connectedCb
             o == [k.o EXCEPT !.state = "Connected", !.connectedCb = cbs]
             q == [k EXCEPT !.o = o]
  <2>1. /\ k \in Ctx /\ k.o \in Object /\ k.c \in Conn
        /\ k.o.connectedCb \in Seq(Results \cup {"Success"})
    BY DEF Sound, Ctx, Object, Results
  <2>2. cbs \in Seq(Results \cup {"Success"})
    BY <2>1
  <2>3. DocumentedUse =>
          /\ cbs = << >> \/ cbs = <<"Success">>
          /\ k.o.callbacks => cbs = <<"Success">>
    <3>1. DocumentedUse => k.o.connectedCb = << >>
      BY <1>2 DEF Sound, Story, Told, Connecting
    <3>2. Append(<< >>, "Success") = <<"Success">>
      OBVIOUS
    <3> QED
      BY <3>1, <3>2
  <2>4. HandleAccept(k) = q
    BY <1>2, <2>1 DEF HandleAccept, ConnectedCallback, SetState, Ctx, Object
  <2> HIDE DEF cbs
  <2>5. /\ o \in Object /\ o.state = "Connected" /\ o.life = k.o.life
        /\ o.listed = k.o.listed /\ o.asked = k.o.asked
        /\ o.freeAtAcceptReject = k.o.freeAtAcceptReject
        /\ o.callbacks = k.o.callbacks /\ o.tooLarge = k.o.tooLarge
        /\ o.closedCb = k.o.closedCb /\ o.connectedCb = cbs
        /\ o.closedByApp = k.o.closedByApp
    BY <2>1, <2>2 DEF Object, Results, State
  <2>6. /\ q \in Ctx /\ q.c = k.c /\ q.table = k.table /\ q.o = o
        /\ q.closesInClosed = k.closesInClosed
    BY <2>1, <2>5 DEF Ctx
  <2> HIDE DEF o, q
  <2>7. Answerable(o) /\ Listed(o) /\ Role(k.c, o)
    BY <1>2, <2>5 DEF Sound, Answerable, Listed, Role, ServerStates
  <2>8. ASSUME DocumentedUse
        PROVE  Placed(k.c, o, k.table) /\ Told(k.c, o)
    <3>1. /\ Placed(k.c, o, k.table)
          /\ k.o.closedCb = << >>
          /\ k.c \in ClientConn => cbs = <<"Success">>
      BY <1>2, <2>3, <2>5, <2>8 DEF Sound, Story, Placed, Told
    <3>2. /\ Len(cbs) <= 1 /\ Len(o.closedCb) <= 1
          /\ cbs = << >> \/ cbs = <<"Success">>
      <4>1. Len(<< >>) = 0 /\ Len(<<"Success">>) = 1
        OBVIOUS
      <4>2. o.closedCb = << >>
        BY <2>5, <3>1
      <4>3. cbs = << >> \/ cbs = <<"Success">>
        BY <2>3, <2>8
      <4>4. Len(cbs) \in {0, 1}
        BY <4>1, <4>3
      <4>5. Len(cbs) <= 1
        BY <4>4
      <4>6. Len(o.closedCb) = 0
        BY <4>1, <4>2, Zenon
      <4>7. Len(o.closedCb) <= 1
        BY <4>6
      <4> QED
        BY <4>3, <4>5, <4>7
    <3>3. o.state \notin Connecting
      BY <2>5 DEF Connecting
    <3> QED
      BY <2>5, <3>1, <3>2, <3>3 DEF Told
  <2>9. DocumentedUse => Story(k.c, o, k.table)
    BY <2>5, <2>8 DEF Sound, Story
  <2> QED
    BY <1>2, <2>4, <2>5, <2>6, <2>7, <2>9 DEF Sound, Ended
<1> QED
  BY <1>1, <1>2

(* gti2HandleReject. *)
LEMMA HandleRejectKeeps ==
    ASSUME NEW k, Sound(k)
    PROVE  Ended(k, HandleReject(k))
<1>1. CASE k.o.state # "AwaitingAcceptance"
  BY <1>1, CommunicationErrorKeeps DEF HandleReject
<1>2. CASE k.o.state = "AwaitingAcceptance"
  <2> DEFINE p == ConnectionClosed(k)
             q == SendClosed(p)
  <2>1. /\ Sound(p) /\ p.c = k.c /\ p.o.state = "Closed"
        /\ p.o.connectedCb = k.o.connectedCb /\ p.o.closedCb = k.o.closedCb
    BY <1>2, ConnectionClosedKeeps
  <2> HIDE DEF p
  <2>2. Quiet(p, q)
    BY <2>1, SendClosedIsQuiet DEF Sound
  <2>3. Ended(p, q) /\ q.o.state = "Closed"
    BY <2>1, <2>2, QuietEnds
  <2>4. DocumentedUse => k.o.connectedCb = << >> /\ k.o.closedCb = << >>
    BY <1>2 DEF Sound, Story, Told, Connecting
  <2>5. DocumentedUse => q.o.connectedCb = << >> /\ q.o.closedCb = << >>
    BY <2>1, <2>2, <2>4 DEF Quiet, Same
  <2> HIDE DEF q
  <2>6. Ended(q, ConnectedCallback(q, "Rejected"))
    BY <2>3, <2>5, ConnectedCallbackKeeps DEF Ended, Results
  <2> QED
    BY <1>2, <2>1, <2>3, <2>6 DEF HandleReject, Ended, p, q
<1> QED
  BY <1>1, <1>2

(* gti2HandleClose and gti2HandleClosed. *)
LEMMA HandleCloseKeeps ==
    ASSUME NEW k, Sound(k)
    PROVE  Ended(k, HandleClose(k)) /\ Ended(k, HandleClosed(k))
<1>1. LocalOrRemote(k) \in Reasons /\ "Rejected" \in Results
  BY DEF LocalOrRemote, Reasons, Results
<1>2. Ended(k, SendClosed(k))
  BY SendClosedIsQuiet, QuietEnds DEF Sound
<1> QED
  BY <1>1, <1>2, ConnectionErrorKeeps DEF HandleClose, HandleClosed, Ended

(* gti2DeliverReliableMessage, whatever the message and the state. *)
LEMMA DeliverKeeps ==
    ASSUME NEW k, Sound(k), NEW m \in Message
    PROVE  Ended(k, DeliverReliableMessage(k, m))
<1> DEFINE next == [k EXCEPT !.o.esn = @ + 1]
<1>1. Ended(k, next)
  BY NextIsQuiet, QuietEnds DEF Sound
<1>2. m.type \in Type
  BY DEF Message
<1>3. DeliverReliableMessage(k, m) \in
        {HandleClientChallenge(next, m), HandleServerChallenge(next, m),
         HandleClientResponse(next, m), HandleAccept(next),
         HandleReject(next), HandleClose(next)}
  BY <1>2 DEF DeliverReliableMessage, Type
<1> HIDE DEF next
<1>4. Sound(next) /\ next.c = k.c
  BY <1>1 DEF Ended
<1>5. /\ Ended(next, HandleClientChallenge(next, m))
      /\ Ended(next, HandleServerChallenge(next, m))
      /\ Ended(next, HandleClientResponse(next, m))
  BY <1>4, HandleClientChallengeKeeps, HandleServerChallengeKeeps,
     HandleClientResponseKeeps
<1>6. /\ Ended(next, HandleAccept(next)) /\ Ended(next, HandleReject(next))
      /\ Ended(next, HandleClose(next))
  BY <1>4, HandleAcceptKeeps, HandleRejectKeeps, HandleCloseKeeps
<1> QED
  BY <1>3, <1>4, <1>5, <1>6 DEF Ended

(* gti2DeliverHoldMessages, which may deliver to an object that has just
   closed. *)
LEMMA DeliverHoldKeeps ==
    ASSUME NEW k, Sound(k)
    PROVE  Ended(k, DeliverHoldMessages(k))
<1> DEFINE due == {h \in k.o.hold : SameSN(h.sn, k.o.esn)}
           h == CHOOSE m \in due : TRUE
           p == DeliverReliableMessage(k, h)
           q == [p EXCEPT !.o.hold = @ \ {h}]
<1>1. CASE due = {}
  BY <1>1 DEF DeliverHoldMessages, Ended
<1>2. CASE due # {}
  <2>1. h \in Message
    <3>1. h \in due
      BY <1>2
    <3>2. due \subseteq Message
      BY DEF Sound, Ctx, Object
    <3> QED
      BY <3>1, <3>2
  <2>2. DeliverHoldMessages(k) = q
    BY <1>2 DEF DeliverHoldMessages
  <2> HIDE DEF h
  <2>3. Ended(k, p)
    BY <2>1, DeliverKeeps
  <2> HIDE DEF p
  <2>4. Quiet(p, q)
    BY <2>3 DEF Ended, Sound, Quiet, Same, Ctx, Object
  <2> QED
    BY <2>2, <2>3, <2>4, QuietEnds DEF Ended
<1> QED
  BY <1>1, <1>2

(* gti2HandleReliableMessage. *)
LEMMA HandleReliableKeeps ==
    ASSUME NEW k, Sound(k), NEW d \in Datagram, d.kind = "Reliable"
    PROVE  Ended(k, HandleReliableMessage(k, d))
<1> DEFINE p == Confirm(k, d.esn)
           q == SetPendingAck(p)
<1>1. d.msg \in Message /\ d.esn \in Nat
  BY DEF Datagram
<1>2. Quiet(k, p)
  BY <1>1, ConfirmIsQuiet DEF Sound
<1>3. HandleReliableMessage(k, d) \in
        {DeliverHoldMessages(DeliverReliableMessage(q, d.msg)), q,
         BufferIncomingMessage(p, d.msg)}
  BY Zenon DEF HandleReliableMessage
<1> HIDE DEF p
<1>4. Ended(k, p)
  BY <1>2, QuietEnds
<1>5. Ended(p, q)
  BY <1>2, <1>4, SetPendingAckIsQuiet, QuietEnds DEF Quiet, Ended
<1> HIDE DEF q
<1>6. Ended(p, BufferIncomingMessage(p, d.msg))
  BY <1>1, <1>2, <1>4, BufferIsQuiet, QuietEnds DEF Quiet, Ended
<1>7. Ended(q, DeliverHoldMessages(DeliverReliableMessage(q, d.msg)))
  BY <1>1, <1>5, DeliverKeeps, DeliverHoldKeeps DEF Ended
<1> QED
  BY <1>3, <1>4, <1>5, <1>6, <1>7 DEF Ended

(* gti2HandleMessage, for any datagram and any state. *)
LEMMA HandleKeeps ==
    ASSUME NEW k, Sound(k), NEW d \in Datagram
    PROVE  Ended(k, Handle(k, d))
<1>1. d.kind \in {"Reliable", "Ack", "Nack", "Closed"}
  BY DEF Datagram
<1>2. d.kind = "Ack" => d.esn \in Nat
  BY DEF Datagram
<1>3. k \in Ctx
  BY DEF Sound
<1>4. Ended(k, k) /\ Ended(k, SendClosed(k)) /\ Ended(k, HandleClosed(k))
  BY <1>3, SendClosedIsQuiet, QuietEnds, HandleCloseKeeps DEF Ended
<1>5. d.kind = "Reliable" => Ended(k, HandleReliableMessage(k, d))
  BY HandleReliableKeeps
<1>6. d.kind = "Ack" => Ended(k, Confirm(k, d.esn))
  BY <1>2, <1>3, ConfirmIsQuiet, QuietEnds
<1>7. d.kind = "Nack" => Ended(k, HandleNack(k, d))
  BY <1>3, HandleNackIsQuiet, QuietEnds
<1> QED
  BY <1>1, <1>4, <1>5, <1>6, <1>7 DEF Handle

(* An object has one side. *)
LEMMA Sides ==
    /\ \A s \in Side : \A c \in Of(s) : SideOf(c) = s /\ c \in Conn
    /\ \A c \in Conn : SideOf(c) \in Side /\ c \in Of(SideOf(c)) /\ c # NoConn
BY ConnAssumption DEF Side, Of, SideOf, Conn

-----------------------------------------------------------------------------
(* The invariant, and how a handler's context becomes the state.           *)

(* What the table holds is open, and owes an answer only while it waits. *)
OpenInTable ==
    \A s \in Side : table[s] # NoConn =>
        /\ table[s] \in Of(s)
        /\ conn[table[s]].life = "allocated"
        /\ conn[table[s]].state # "Closed"
        /\ conn[table[s]].asked => conn[table[s]].state = "AwaitingAcceptReject"

(* What holds of every object. *)
ObjectsOK ==
    \A c \in Conn :
        Answerable(conn[c]) /\ Listed(conn[c]) /\ Role(c, conn[c])

(* What holds under the documented use. *)
DocumentedStory ==
    DocumentedUse => \A c \in Conn : Story(c, conn[c], table[SideOf(c)])

ConnInv == TypeOK /\ OpenInTable /\ ObjectsOK /\ DocumentedStory

(* What a context must be for its object and table to become the socket's. *)
Settled(k) ==
    /\ k \in Ctx
    /\ Answerable(k.o)
    /\ Listed(k.o)
    /\ Role(k.c, k.o)
    /\ k.table \in {NoConn, k.c, table[SideOf(k.c)]}
    /\ k.table = k.c => /\ k.o.life = "allocated"
                        /\ k.o.state # "Closed"
                        /\ k.o.asked => k.o.state = "AwaitingAcceptReject"
    /\ DocumentedUse =>
          /\ Story(k.c, k.o, k.table)
          /\ table[SideOf(k.c)] \in {NoConn, k.c} \/ k.table = table[SideOf(k.c)]

(* A sound context may be committed. *)
LEMMA SoundIsSettled ==
    ASSUME NEW k, Sound(k)
    PROVE  Settled(k)
BY DEF Sound, Settled

(* The object of a closed context may be freed if it owes no answer. *)
LEMMA FreedIsSettled ==
    ASSUME NEW k, Sound(k), k.o.state = "Closed", ~k.o.asked
    PROVE  Settled([k EXCEPT !.o = Freed(@)])
<1> DEFINE o == Freed(k.o)
           q == [k EXCEPT !.o = o]
<1>1. k.o \in Object /\ k.o.listed - 1 \in Nat
  BY DEF Sound, Listed, Ctx, Object
<1>2. /\ << >> \in Seq(Message) /\ {} \in SUBSET Message
  OBVIOUS
<1>3. /\ o \in Object /\ o.state = "Closed" /\ o.life = "freed" /\ ~o.asked
      /\ o.tooLarge = k.o.tooLarge /\ o.closedByApp = k.o.closedByApp
      /\ o.closedCb = k.o.closedCb /\ o.connectedCb = k.o.connectedCb
  BY <1>1, <1>2 DEF Freed, Object
<1>4. /\ q \in Ctx /\ q.c = k.c /\ q.table = k.table /\ q.o = o
  BY <1>3 DEF Sound, Ctx
<1> HIDE DEF o, q
<1>5. Answerable(o) /\ Listed(o) /\ Role(k.c, o)
  BY <1>3 DEF Answerable, Listed, Role, ServerStates
<1>6. DocumentedUse => Story(k.c, o, k.table)
  BY <1>3 DEF Sound, Story, Placed, Told
<1>7. Settled(q)
  BY <1>3, <1>4, <1>5, <1>6 DEF Sound, Settled
<1> QED
  BY <1>7 DEF q, o

(* The context of an allocated object is sound before the handler. *)
LEMMA ContextIsSound ==
    ASSUME ConnInv, NEW c \in Conn, conn[c].life = "allocated",
           NEW r \in ClosesInClosed \cup {FALSE}
    PROVE  Sound(Context(c, r)) /\ Context(c, r).c = c /\ Context(c, r).o = conn[c]
<1>1. /\ Context(c, r) = [c |-> c, o |-> conn[c], table |-> table[SideOf(c)],
                          sent |-> {}, closesInClosed |-> r]
  BY DEF Context
<1>2. r \in BOOLEAN /\ (DocumentedUse => r = FALSE)
  BY ConnAssumption DEF DocumentedUse
<1>3. SideOf(c) \in Side /\ c # NoConn
  BY Sides
<1>4. Context(c, r) \in Ctx
  BY <1>1, <1>2, <1>3 DEF Ctx, ConnInv, TypeOK
<1>5. table[SideOf(c)] = c =>
         /\ conn[c].state # "Closed"
         /\ conn[c].asked => conn[c].state = "AwaitingAcceptReject"
  BY <1>3 DEF ConnInv, OpenInTable
<1> QED
  BY <1>1, <1>2, <1>4, <1>5 DEF Sound, ConnInv, ObjectsOK, DocumentedStory

(* What a handler does to the other variables. *)
Counters == lost' \in 0..MaxLoss /\ dups' \in 0..MaxDup /\ listening' \in BOOLEAN

(* A handler that ends with a settled context keeps the invariant. *)
LEMMA CommitKeeps ==
    ASSUME ConnInv, NEW k, Settled(k), NEW rest \in SUBSET net,
           Commit(k, rest), Counters
    PROVE  ConnInv'
<1> DEFINE s == SideOf(k.c)
<1>1. k \in Ctx /\ k.c \in Conn /\ k.o \in Object /\ k.sent \in SUBSET Datagram
  BY DEF Settled, Ctx
<1>2. s \in Side /\ k.c \in Of(s) /\ k.c # NoConn
  BY <1>1, Sides
<1>3. /\ conn' \in [Conn -> Object] /\ conn'[k.c] = k.o
      /\ \A c \in Conn \ {k.c} : conn'[c] = conn[c]
  BY <1>1 DEF Commit, ConnInv, TypeOK
<1>4. /\ table' \in [Side -> Conn \cup {NoConn}] /\ table'[s] = k.table
      /\ \A z \in Side \ {s} : table'[z] = table[z]
  BY <1>1, <1>2 DEF Commit, ConnInv, TypeOK, Ctx
<1>5. TypeOK'
  BY <1>1, <1>3, <1>4 DEF Commit, ConnInv, TypeOK, Counters
<1> HIDE DEF s
<1>6. OpenInTable'
  <2> SUFFICES ASSUME NEW z \in Side, table'[z] # NoConn
               PROVE  LET c == table'[z]
                      IN  /\ c \in Of(z)
                          /\ conn'[c].life = "allocated"
                          /\ conn'[c].state # "Closed"
                          /\ conn'[c].asked => conn'[c].state = "AwaitingAcceptReject"
    BY DEF OpenInTable
  <2>1. CASE table'[z] = k.c
    <3>1. z = s
      <4>1. z # s => table[z] = k.c /\ k.c \in Of(z)
        BY <1>2, <1>4, <2>1 DEF ConnInv, OpenInTable
      <4> QED
        BY <1>2, <4>1, Sides
    <3> QED
      BY <1>2, <1>3, <1>4, <2>1, <3>1 DEF Settled
  <2>2. CASE table'[z] # k.c
    <3>1. table'[z] = table[z]
      BY <1>4, <2>2 DEF Settled, s
    <3>2. table[z] \in Conn
      BY <3>1, Sides DEF ConnInv, OpenInTable
    <3> QED
      BY <1>3, <2>2, <3>1, <3>2 DEF ConnInv, OpenInTable
  <2> QED
    BY <2>1, <2>2
<1>7. ObjectsOK'
  BY <1>3 DEF ObjectsOK, ConnInv, Settled
<1>8. DocumentedStory'
  <2> SUFFICES ASSUME DocumentedUse, NEW c \in Conn
               PROVE  Story(c, conn'[c], table'[SideOf(c)])
    BY DEF DocumentedStory, DocumentedUse
  <2>1. CASE c = k.c
    BY <1>3, <1>4, <2>1 DEF Settled, s
  <2>2. CASE c # k.c
    <3>1. conn'[c] = conn[c] /\ Story(c, conn[c], table[SideOf(c)])
      BY <1>3, <2>2 DEF ConnInv, DocumentedStory
    <3>2. (table'[SideOf(c)] = c) <=> (table[SideOf(c)] = c)
      BY <1>4, <2>2, Sides DEF Settled, s
    <3> QED
      BY <3>1, <3>2 DEF Story, Placed
  <2> QED
    BY <2>1, <2>2
<1> QED
  BY <1>5, <1>6, <1>7, <1>8 DEF ConnInv

-----------------------------------------------------------------------------
(* The actions.                                                            *)

(* The object of the table, as a context. *)
LEMMA TableIsSound ==
    ASSUME ConnInv, NEW s \in Side, table[s] # NoConn,
           NEW r \in ClosesInClosed \cup {FALSE}
    PROVE  /\ Sound(Context(table[s], r))
           /\ Context(table[s], r).c = table[s]
           /\ Context(table[s], r).o = conn[table[s]]
           /\ Context(table[s], r).o.state # "Closed"
           /\ table[s] \in Conn
<1>1. table[s] \in Conn /\ conn[table[s]].life = "allocated" /\ conn[table[s]].state # "Closed"
  BY Sides DEF ConnInv, OpenInTable
<1> QED
  BY <1>1, ContextIsSound

(* A new object is one that was not used before. *)
LEMMA FreshIsUnused ==
    ASSUME ConnInv, NEW s \in Side, UnusedOf(s) # {}
    PROVE  Fresh(s) \in Of(s) /\ conn[Fresh(s)].life = "unused"
<1>1. UnusedOf(s) \subseteq Of(s) /\ Of(s) \subseteq Nat
  BY ConnAssumption DEF UnusedOf, Of, Conn
<1>2. \E c \in UnusedOf(s) : \A b \in UnusedOf(s) : c <= b
  BY <1>1, LeastInSet
<1>3. Fresh(s) \in UnusedOf(s)
  BY <1>2 DEF Fresh
<1> QED
  BY <1>3 DEF UnusedOf

(* The context of an object just allocated. *)
NewContext(s, c, o) ==
    [c |-> c, o |-> o, table |-> c, sent |-> {}, closesInClosed |-> FALSE]

(* What a new object contains. *)
LEMMA NewObjectIs ==
    ASSUME NEW state \in Connecting
    PROVE  LET o == NewObject(state)
           IN  /\ o \in Object /\ o.state = state /\ o.life = "allocated"
               /\ o.listed = 0 /\ o.asked = FALSE /\ o.callbacks = FALSE
               /\ o.tooLarge = FALSE /\ o.connectedCb = << >> /\ o.closedCb = << >>
<1>1. state \in State
  BY DEF State
<1>2. Unused \in Object
  BY DEF Unused, Object, State
<1>3. /\ Unused.listed = 0 /\ Unused.asked = FALSE /\ Unused.callbacks = FALSE
      /\ Unused.tooLarge = FALSE /\ Unused.connectedCb = << >>
      /\ Unused.closedCb = << >>
  BY DEF Unused
<1> QED
  BY <1>1, <1>2, <1>3 DEF NewObject, Object

(* The context of a new object is sound, for a free place in the table. *)
LEMMA NewIsSound ==
    ASSUME ConnInv, NEW s \in Side, table[s] = NoConn, NEW c \in Of(s),
           NEW o \in Object, o.state \in Connecting, o.life = "allocated",
           o.listed = 0, o.asked = FALSE, o.connectedCb = << >>, o.closedCb = << >>,
           DocumentedUse => o.tooLarge = FALSE,
           s = "client" => o.state \notin ServerStates /\ o.callbacks
    PROVE  Sound(NewContext(s, c, o))
<1> DEFINE k == NewContext(s, c, o)
<1>1. c \in Conn /\ SideOf(c) = s /\ c # NoConn
  BY Sides
<1>2. k \in Ctx /\ k.c = c /\ k.o = o /\ k.table = c /\ k.closesInClosed = FALSE
  BY <1>1 DEF NewContext, Ctx
<1>3. Len(o.connectedCb) = 0 /\ Len(o.closedCb) = 0
  OBVIOUS
<1>4. o.state \notin {"Connected", "Closing", "Closed"}
  BY DEF Connecting
<1>5. Answerable(o) /\ Listed(o) /\ Role(c, o)
  BY <1>1, <1>4 DEF Answerable, Listed, Role, SideOf
<1>6. Told(c, o)
  BY <1>3, <1>4 DEF Told
<1>7. DocumentedUse => Story(c, o, c)
  BY <1>1, <1>4, <1>6 DEF Story, Placed, SideOf
<1> HIDE DEF k
<1>8. Sound(k)
  BY <1>1, <1>2, <1>4, <1>5, <1>7 DEF Sound
<1> QED
  BY <1>8 DEF k

(* gti2ReceiveMessages, of one datagram. *)
LEMMA ReceiveKeeps ==
    ASSUME ConnInv, NEW s \in Side, NEW d \in net, Receive(s, d)
    PROVE  ConnInv'
<1>1. PICK rest \in {net \ {d}, net} :
         /\ Arrives(s, d, rest)
         /\ \/ ReceiveFromKnown(s, d, rest)
            \/ ReceiveNewConnection(s, d, rest)
            \/ ReceiveFromUnknown(s, d, rest)
  BY DEF Receive
<1>2. d \in Datagram /\ rest \in SUBSET net
  BY <1>1 DEF ConnInv, TypeOK
<1>3. Counters
  BY <1>1, ConnAssumption DEF Arrives, Counters, ConnInv, TypeOK
<1>4. CASE ReceiveFromKnown(s, d, rest)
  <2>1. PICK r \in ClosesInClosed : Commit(Handle(Context(table[s], r), d), rest)
    BY <1>4 DEF ReceiveFromKnown
  <2>2. Sound(Context(table[s], r))
    BY <1>4, TableIsSound DEF ReceiveFromKnown
  <2>3. Settled(Handle(Context(table[s], r), d))
    BY <1>2, <2>2, HandleKeeps, SoundIsSettled DEF Ended
  <2> QED
    BY <1>2, <1>3, <2>1, <2>3, CommitKeeps
<1>5. CASE ReceiveNewConnection(s, d, rest)
  <2> DEFINE k == NewContext(s, Fresh(s), NewObject("AwaitingClientChallenge"))
  <2>1. table[s] = NoConn /\ s = "server" /\ UnusedOf(s) # {}
    BY <1>5 DEF ReceiveNewConnection
  <2>2. Commit(Handle(k, d), rest)
    BY <1>5 DEF ReceiveNewConnection, NewContext
  <2>3. "AwaitingClientChallenge" \in Connecting
    BY DEF Connecting
  <2>4. Sound(k)
    BY <2>1, <2>3, FreshIsUnused, NewObjectIs, NewIsSound
  <2> HIDE DEF k
  <2>5. Settled(Handle(k, d))
    BY <1>2, <2>4, HandleKeeps, SoundIsSettled DEF Ended
  <2> QED
    BY <1>2, <1>3, <2>2, <2>5, CommitKeeps
<1>6. CASE ReceiveFromUnknown(s, d, rest)
  <2>1. ClosedTo(Peer(s)) \in Datagram
    BY DEF ClosedTo, Peer, Side, Datagram
  <2>2. net' \in SUBSET Datagram /\ UNCHANGED <<conn, table>>
    BY <1>2, <1>6, <2>1 DEF ReceiveFromUnknown, ConnInv, TypeOK
  <2> QED
    BY <1>3, <2>2 DEF ConnInv, TypeOK, Counters, OpenInTable, ObjectsOK, DocumentedStory, DocumentedUse
<1> QED
  BY <1>1, <1>4, <1>5, <1>6

(* The peer's host, or one on the way, reports the peer out of reach. *)
LEMMA ConnectionResetKeeps ==
    ASSUME ConnInv, NEW s \in Side, ConnectionReset(s)
    PROVE  ConnInv'
<1>1. PICK r \in ClosesInClosed, result \in {"TimedOut", "Rejected"} :
         Commit(ConnectionError(Context(table[s], r), result, "RemoteClose"), net)
  BY DEF ConnectionReset
<1>2. Sound(Context(table[s], r))
  BY TableIsSound DEF ConnectionReset
<1>3. Settled(ConnectionError(Context(table[s], r), result, "RemoteClose"))
  BY <1>2, ConnectionErrorKeeps, SoundIsSettled DEF Ended, Results, Reasons
<1>4. Counters
  BY DEF ConnectionReset, Counters, ConnInv, TypeOK
<1> QED
  BY <1>1, <1>3, <1>4, CommitKeeps

(* gti2CheckTimeout closes an attempt and tells of it, and changes no answer
   owed. *)
LEMMA CheckTimeoutKeeps ==
    ASSUME NEW k, Sound(k), NEW expired \in BOOLEAN, expired => TimesOut(k.o)
    PROVE  LET q == CheckTimeout(k, expired)
           IN  /\ Ended(k, q) /\ q.o.out = k.o.out /\ q.o.asked = k.o.asked
               /\ ~expired => q = k
<1>1. CASE ~expired
  BY <1>1 DEF CheckTimeout, Ended
<1>2. CASE expired
  <2> DEFINE p == SendClosed(k)
             r == ConnectionClosed(p)
             q == ConnectedCallback(r, "TimedOut")
  <2>1. CheckTimeout(k, expired) = q
    BY <1>2 DEF CheckTimeout
  <2>2. k.o.state \in Connecting \ {"AwaitingAcceptReject"}
    BY <1>2 DEF TimesOut
  <2>3. Ended(k, p) /\ p.o = k.o
    BY SendClosedIsQuiet, QuietEnds DEF Sound, SendClosed, Transmit, Ctx
  <2> HIDE DEF p
  <2>4. /\ Sound(r) /\ r.c = p.c /\ r.o.state = "Closed" /\ r.o.asked = p.o.asked
        /\ r.o.connectedCb = p.o.connectedCb /\ r.o.closedCb = p.o.closedCb
    BY <2>2, <2>3, ConnectionClosedKeeps DEF Ended
  <2>5. r.o.out = p.o.out
    BY <2>3 DEF ConnectionClosed, Ended, Sound, Ctx, Object
  <2> HIDE DEF r
  <2>6. DocumentedUse => k.o.connectedCb = << >> /\ k.o.closedCb = << >>
    BY <2>2 DEF Sound, Story, Told, Connecting
  <2>7. /\ Ended(r, q) /\ q.o.asked = r.o.asked /\ q.o.out = r.o.out
    BY <2>3, <2>4, <2>6, ConnectedCallbackKeeps DEF Results
  <2> HIDE DEF q
  <2> QED
    BY <1>2, <2>1, <2>3, <2>4, <2>5, <2>7 DEF Ended
<1> QED
  BY <1>1, <1>2

(* The timers of a connection, which free an attempt that has just timed out. *)
LEMMA ConnectionThinkKeeps ==
    ASSUME ConnInv, NEW s \in Side, NEW expired \in BOOLEAN, NEW ackDue \in BOOLEAN,
           NEW due \in SUBSET (IF table[s] = NoConn THEN {}
                              ELSE DOMAIN conn[table[s]].out),
           ConnectionThink(s, expired, due, ackDue)
    PROVE  ConnInv'
<1> DEFINE k == Context(table[s], FALSE)
           t == CheckTimeout(k, expired)
           r == SendRetries(t, due)
           q == CheckPendingAck(r, ackDue)
<1>1. table[s] # NoConn /\ (expired => TimesOut(conn[table[s]])) /\ Counters
  BY DEF ConnectionThink, Counters, ConnInv, TypeOK
<1>2. Commit(IF q.o.state = "Closed" THEN [q EXCEPT !.o = Freed(@)] ELSE q, net)
  BY DEF ConnectionThink
<1>3. Sound(k) /\ k.o = conn[table[s]] /\ k.o.state # "Closed" /\ k.c = table[s]
  BY <1>1, TableIsSound
<1> HIDE DEF k
<1>4. /\ Ended(k, t) /\ t.o.out = k.o.out /\ t.o.asked = k.o.asked
      /\ ~expired => t = k
  BY <1>1, <1>3, CheckTimeoutKeeps
<1> HIDE DEF t
<1>5. Quiet(t, r)
  <2>1. due \in SUBSET DOMAIN t.o.out /\ t \in Ctx
    BY <1>1, <1>3, <1>4 DEF Ended, Sound
  <2> QED
    BY <2>1, SendRetriesIsQuiet
<1> HIDE DEF r
<1>6. Quiet(t, q)
  BY <1>5, CheckPendingAckIsQuiet, QuietThenQuiet DEF Quiet
<1> HIDE DEF q
<1>7. Ended(t, q) /\ q.o.state = t.o.state /\ q.o.asked = k.o.asked
  BY <1>4, <1>6, QuietEnds DEF Ended, Quiet, Same
<1>8. q.o.state = "Closed" => ~q.o.asked
  <2>1. q.o.state = "Closed" => k.o.state \in Connecting \ {"AwaitingAcceptReject"}
    BY <1>1, <1>3, <1>4, <1>7 DEF TimesOut
  <2>2. k.o.asked => k.o.state = "AwaitingAcceptReject"
    BY <1>1, <1>3 DEF ConnInv, OpenInTable
  <2> QED
    BY <1>7, <2>1, <2>2
<1>9. Settled(IF q.o.state = "Closed" THEN [q EXCEPT !.o = Freed(@)] ELSE q)
  BY <1>7, <1>8, FreedIsSettled, SoundIsSettled DEF Ended
<1> QED
  BY <1>1, <1>2, <1>9, CommitKeeps

(* gti2FreeClosedConnections frees only what owes no answer. *)
LEMMA FreeClosedKeeps ==
    ASSUME ConnInv, NEW s \in Side, FreeClosedConnections(s)
    PROVE  ConnInv'
<1> DEFINE listed == {c \in Of(s) : conn[c].listed > 0 /\ ~conn[c].freeAtAcceptReject}
           closed == {c \in listed : conn[c].state = "Closed"}
<1>1. /\ conn' = [c \in Conn |-> IF c \in closed THEN Freed(conn[c]) ELSE conn[c]]
      /\ table' = (IF listed = closed THEN table ELSE [table EXCEPT ![s] = NoConn])
      /\ UNCHANGED <<listening, net, lost, dups>>
  BY DEF FreeClosedConnections
<1>2. \A c \in closed : /\ c \in Of(s) /\ c \in Conn /\ conn[c] \in Object
                        /\ conn[c].state = "Closed" /\ conn[c].listed > 0
                        /\ ~conn[c].asked
  BY Sides DEF ConnInv, ObjectsOK, Answerable, TypeOK
<1> HIDE DEF closed, listed
<1>3. ASSUME NEW c \in closed
      PROVE  LET o == Freed(conn[c])
             IN  /\ o \in Object /\ o.state = "Closed" /\ o.life = "freed" /\ ~o.asked
                 /\ o.tooLarge = conn[c].tooLarge /\ o.closedByApp = conn[c].closedByApp
                 /\ o.closedCb = conn[c].closedCb /\ o.connectedCb = conn[c].connectedCb
  <2>1. conn[c].listed - 1 \in Nat
    BY <1>2 DEF Object
  <2>2. << >> \in Seq(Message) /\ {} \in SUBSET Message
    OBVIOUS
  <2> QED
    BY <1>2, <2>1, <2>2 DEF Freed, Object
<1>4. \A c \in Conn : \/ conn'[c] = conn[c]
                      \/ c \in closed /\ conn'[c] = Freed(conn[c])
  BY <1>1
<1>5. \A z \in Side : table'[z] = table[z] \/ table'[z] = NoConn
  BY <1>1 DEF ConnInv, TypeOK
<1>6. TypeOK'
  <2>1. conn' \in [Conn -> Object]
    BY <1>1, <1>3 DEF ConnInv, TypeOK
  <2>2. table' \in [Side -> Conn \cup {NoConn}]
    BY <1>1 DEF ConnInv, TypeOK
  <2> QED
    BY <1>1, <2>1, <2>2 DEF ConnInv, TypeOK
<1>7. OpenInTable'
  <2> SUFFICES ASSUME NEW z \in Side, table'[z] # NoConn
               PROVE  /\ table'[z] = table[z] /\ table[z] # NoConn
                      /\ conn'[table[z]] = conn[table[z]]
    BY DEF OpenInTable, ConnInv
  <2>1. table'[z] = table[z] /\ table[z] # NoConn
    BY <1>5
  <2>2. table[z] \in Conn /\ conn[table[z]].state # "Closed"
    BY <2>1, Sides DEF ConnInv, OpenInTable
  <2> QED
    BY <1>2, <1>4, <2>1, <2>2
<1>8. ObjectsOK'
  <2> SUFFICES ASSUME NEW c \in Conn
               PROVE  Answerable(conn'[c]) /\ Listed(conn'[c]) /\ Role(c, conn'[c])
    BY DEF ObjectsOK
  <2>1. CASE conn'[c] = conn[c]
    BY <2>1 DEF ConnInv, ObjectsOK
  <2>2. CASE c \in closed /\ conn'[c] = Freed(conn[c])
    BY <1>3, <2>2 DEF Answerable, Listed, Role, ServerStates
  <2> QED
    BY <1>4, <2>1, <2>2
<1>9. DocumentedStory'
  <2> SUFFICES ASSUME DocumentedUse
               PROVE  \A c \in Conn : Story(c, conn'[c], table'[SideOf(c)])
    BY DEF DocumentedStory, DocumentedUse
  <2>1. \A c \in Conn : Story(c, conn[c], table[SideOf(c)])
    BY DEF ConnInv, DocumentedStory
  <2>2. table' = table
    <3>1. \A c \in listed : c \in Conn /\ conn[c].listed > 0
      BY Sides DEF listed
    <3>2. \A c \in listed : conn[c].state = "Closed"
      <4> SUFFICES ASSUME NEW c \in listed, conn[c].state # "Closed" PROVE FALSE
        OBVIOUS
      <4>1. conn[c].life = "allocated" => conn[c].listed = 0
        BY <2>1, <3>1 DEF Story, Placed
      <4>2. conn[c].life # "allocated" => conn[c].state = "Closed"
        BY <2>1, <3>1 DEF Story
      <4> QED
        BY <3>1, <4>1, <4>2
    <3>3. listed = closed
      BY <3>2 DEF closed
    <3> QED
      BY <1>1, <3>3
  <2>3. ASSUME NEW c \in Conn
        PROVE  Story(c, conn'[c], table[SideOf(c)])
    <3>1. CASE conn'[c] = conn[c]
      BY <2>1, <3>1
    <3>2. CASE c \in closed /\ conn'[c] = Freed(conn[c])
      <4>1. Told(c, conn'[c])
        BY <1>2, <1>3, <2>1, <3>2 DEF Story, Told
      <4> QED
        BY <1>3, <2>1, <3>2, <4>1 DEF Story, Placed
    <3> QED
      BY <1>4, <3>1, <3>2
  <2> QED
    BY <2>2, <2>3
<1> QED
  BY <1>6, <1>7, <1>8, <1>9 DEF ConnInv

(* gt2Connect. *)
LEMMA ConnectKeeps ==
    ASSUME ConnInv, Connect
    PROVE  ConnInv'
<1>1. table["client"] = NoConn /\ UnusedOf("client") # {} /\ Counters
  BY DEF Connect, Counters, ConnInv, TypeOK
<1> DEFINE c == Fresh("client")
           n == NewObject("AwaitingServerChallenge")
<1>2. PICK big \in TooLarge :
        LET k == NewContext("client", c, [n EXCEPT !.callbacks = TRUE, !.tooLarge = big])
        IN  Commit(SendReliable(k, "ClientChallenge", NoConn, c), net)
  BY DEF Connect, NewContext
<1> DEFINE o == [n EXCEPT !.callbacks = TRUE, !.tooLarge = big]
           k == NewContext("client", c, o)
<1>3. "client" \in Side /\ c \in Of("client")
  BY <1>1, FreshIsUnused DEF Side
<1>4. c \in Conn
  BY <1>3, Sides
<1>5. big \in BOOLEAN /\ (DocumentedUse => big = FALSE)
  BY ConnAssumption DEF DocumentedUse
<1>6. /\ n \in Object /\ n.state = "AwaitingServerChallenge" /\ n.life = "allocated"
      /\ n.listed = 0 /\ n.asked = FALSE /\ n.connectedCb = << >> /\ n.closedCb = << >>
  BY NewObjectIs DEF Connecting
<1> HIDE DEF c, n
<1>7. /\ o \in Object /\ o.state = "AwaitingServerChallenge" /\ o.life = "allocated"
      /\ o.listed = 0 /\ o.asked = FALSE /\ o.connectedCb = << >> /\ o.closedCb = << >>
      /\ o.callbacks = TRUE /\ o.tooLarge = big
  BY <1>5, <1>6 DEF Object
<1> HIDE DEF o
<1>8. Sound(k)
  BY <1>1, <1>3, <1>5, <1>7, NewIsSound DEF Connecting, ServerStates
<1>9. Commit(SendReliable(k, "ClientChallenge", NoConn, c), net)
  BY <1>2 DEF o
<1> HIDE DEF k
<1>10. Settled(SendReliable(k, "ClientChallenge", NoConn, c))
  <2>1. Quiet(k, SendReliable(k, "ClientChallenge", NoConn, c))
    BY <1>4, <1>8, SendReliableIsQuiet DEF Sound, Type
  <2> QED
    BY <1>8, <2>1, QuietEnds, SoundIsSettled DEF Ended
<1> QED
  BY <1>1, <1>9, <1>10, CommitKeeps

(* The application's answer takes the object's mark off. *)
Answered(k) == [k EXCEPT !.o.asked = FALSE, !.o.freeAtAcceptReject = FALSE]

(* An answered object may be freed. *)
LEMMA AnsweredIsSound ==
    ASSUME NEW k, Sound(k)
    PROVE  /\ Ended(k, Answered(k)) /\ Answered(k).o.state = k.o.state
           /\ Answered(k).o.asked = FALSE
<1> DEFINE o == [k.o EXCEPT !.asked = FALSE, !.freeAtAcceptReject = FALSE]
           q == Answered(k)
<1>1. /\ o \in Object /\ o.state = k.o.state /\ o.life = k.o.life
      /\ o.listed = k.o.listed /\ o.asked = FALSE
      /\ o.callbacks = k.o.callbacks /\ o.tooLarge = k.o.tooLarge
      /\ o.closedCb = k.o.closedCb /\ o.connectedCb = k.o.connectedCb
      /\ o.closedByApp = k.o.closedByApp
  BY DEF Sound, Ctx, Object
<1>2. /\ q \in Ctx /\ q.c = k.c /\ q.table = k.table /\ q.o = o
      /\ q.closesInClosed = k.closesInClosed
  BY <1>1 DEF Sound, Ctx, Answered
<1> HIDE DEF o, q
<1>3. Sound(q)
  BY <1>1, <1>2 DEF Sound, Answerable, Listed, Role, Story, Placed, Told
<1> QED
  BY <1>1, <1>2, <1>3 DEF Ended, q

(* An accepted object gets the application's callbacks. *)
LEMMA AcceptedIsSound ==
    ASSUME NEW k, Sound(k)
    PROVE  Ended(k, [k EXCEPT !.o.callbacks = TRUE, !.o.accepted = TRUE])
<1> DEFINE o == [k.o EXCEPT !.callbacks = TRUE, !.accepted = TRUE]
           q == [k EXCEPT !.o.callbacks = TRUE, !.o.accepted = TRUE]
<1>1. /\ o \in Object /\ o.state = k.o.state /\ o.life = k.o.life
      /\ o.listed = k.o.listed /\ o.asked = k.o.asked
      /\ o.freeAtAcceptReject = k.o.freeAtAcceptReject
      /\ o.callbacks = TRUE /\ o.tooLarge = k.o.tooLarge
      /\ o.closedCb = k.o.closedCb /\ o.connectedCb = k.o.connectedCb
      /\ o.closedByApp = k.o.closedByApp
  BY DEF Sound, Ctx, Object
<1>2. /\ q \in Ctx /\ q.c = k.c /\ q.table = k.table /\ q.o = o
      /\ q.closesInClosed = k.closesInClosed
  BY <1>1 DEF Sound, Ctx
<1> HIDE DEF o, q
<1>3. Sound(q)
  BY <1>1, <1>2 DEF Sound, Answerable, Listed, Role, Story, Placed, Told
<1> QED
  BY <1>2, <1>3 DEF Ended, q

(* gt2Accept, also of an object that closed before the answer. *)
LEMMA AcceptKeeps ==
    ASSUME ConnInv, NEW c \in ServerConn, Accept(c)
    PROVE  ConnInv'
<1> DEFINE k == Answered(Context(c, FALSE))
           p == SendReliable(k, "Accept", NoConn, NoConn)
           r == SetState(p, "Connected")
           q == [r EXCEPT !.o.callbacks = TRUE, !.o.accepted = TRUE]
<1>1. Counters
  BY DEF Accept, Counters, ConnInv, TypeOK
<1>2. \/ Commit(k, net)
      \/ conn[c].state = "AwaitingAcceptReject" /\ Commit(q, net)
  BY DEF Accept, Answered
<1>3. c \in Conn /\ c \notin ClientConn
  BY ConnAssumption DEF Conn
<1>4. /\ Sound(Context(c, FALSE)) /\ Context(c, FALSE).c = c
      /\ Context(c, FALSE).o = conn[c]
  <2>1. conn[c].life = "allocated"
    BY <1>3 DEF Accept, ConnInv, ObjectsOK, Answerable
  <2> QED
    BY <1>3, <2>1, ContextIsSound
<1>5. Sound(k) /\ k.c = c /\ k.o.state = conn[c].state /\ k.o.asked = FALSE
  BY <1>4, AnsweredIsSound DEF Ended
<1> HIDE DEF k
<1>6. ASSUME conn[c].state = "AwaitingAcceptReject" PROVE Sound(q)
  <2>1. Quiet(k, p)
    BY <1>5, SendReliableIsQuiet DEF Sound, Type
  <2> HIDE DEF p
  <2>2. Ended(k, p) /\ p.o.state = "AwaitingAcceptReject" /\ p.o.asked = FALSE
    BY <1>5, <1>6, <2>1, QuietEnds DEF Quiet, Same
  <2>3. /\ "Connected" \in State \ {"Closed"} /\ "Connected" \notin Connecting
        /\ "Connected" \notin ServerStates
    BY DEF State, Connecting, ServerStates
  <2>4. Sound(r)
    BY <1>3, <1>5, <2>2, <2>3, SetStateKeeps DEF Ended
  <2> HIDE DEF r
  <2> QED
    BY <2>4, AcceptedIsSound DEF Ended
<1> HIDE DEF q
<1> QED
  BY <1>1, <1>2, <1>5, <1>6, SoundIsSettled, CommitKeeps

(* gt2Reject, also of an object that closed before the answer. *)
LEMMA RejectKeeps ==
    ASSUME ConnInv, NEW c \in ServerConn, Reject(c)
    PROVE  ConnInv'
<1> DEFINE k == Answered(Context(c, FALSE))
<1>1. Counters
  BY DEF Reject, Counters, ConnInv, TypeOK
<1>2. PICK big \in TooLarge :
        \/ Commit(k, net)
        \/ /\ conn[c].state = "AwaitingAcceptReject"
           /\ Commit(SetState(SendWithMessage(k, "Reject", NoConn, big), "Closing"), net)
  BY DEF Reject, Answered
<1>3. c \in Conn /\ c \notin ClientConn
  BY ConnAssumption DEF Conn
<1>4. /\ Sound(Context(c, FALSE)) /\ Context(c, FALSE).c = c
      /\ Context(c, FALSE).o = conn[c]
  <2>1. conn[c].life = "allocated"
    BY <1>3 DEF Reject, ConnInv, ObjectsOK, Answerable
  <2> QED
    BY <1>3, <2>1, ContextIsSound
<1>5. Sound(k) /\ k.c = c /\ k.o.state = conn[c].state /\ k.o.asked = FALSE
  BY <1>4, AnsweredIsSound DEF Ended
<1> HIDE DEF k
<1> DEFINE p == SendWithMessage(k, "Reject", NoConn, big)
           q == SetState(p, "Closing")
<1>6. ASSUME conn[c].state = "AwaitingAcceptReject" PROVE Sound(q)
  <2>1. big \in BOOLEAN /\ (DocumentedUse => ~big)
    BY ConnAssumption DEF DocumentedUse
  <2>2. k.o.state \in Connecting /\ "Reject" \in Type /\ NoConn \in Conn \cup {NoConn}
    BY <1>5, <1>6 DEF Connecting, Type
  <2>3. /\ Ended(k, p) /\ p.o.state = (IF big THEN "Closed" ELSE k.o.state)
        /\ ~big => p.o.asked = k.o.asked
    BY <1>5, <2>1, <2>2, SendWithMessageKeeps
  <2> HIDE DEF p
  <2>4. /\ "Closing" \in State \ {"Closed"} /\ "Closing" \notin Connecting
        /\ "Closing" \notin ServerStates
    BY DEF State, Connecting, ServerStates
  <2>5. p.o.state # "AwaitingAcceptReject" \/ ~p.o.asked
    BY <1>5, <2>3
  <2>6. DocumentedUse => p.o.state # "Closed" /\ p.c \notin ClientConn
    BY <1>3, <1>5, <1>6, <2>1, <2>3 DEF Ended
  <2> QED
    BY <2>3, <2>4, <2>5, <2>6, SetStateKeeps DEF Ended
<1> HIDE DEF q
<1> QED
  BY <1>1, <1>2, <1>5, <1>6, SoundIsSettled, CommitKeeps DEF q

(* The application closes: what it was asked is settled by that. *)
AppCloses(k) == [k EXCEPT !.o.closedByApp = TRUE, !.o.asked = FALSE]

(* An object closed by the application owes no answer. *)
LEMMA AppClosesIsSound ==
    ASSUME NEW k, Sound(k)
    PROVE  /\ Ended(k, AppCloses(k)) /\ AppCloses(k).o.state = k.o.state
           /\ AppCloses(k).o.asked = FALSE /\ AppCloses(k).o.closedByApp = TRUE
<1> DEFINE o == [k.o EXCEPT !.closedByApp = TRUE, !.asked = FALSE]
           q == AppCloses(k)
<1>1. /\ o \in Object /\ o.state = k.o.state /\ o.life = k.o.life
      /\ o.listed = k.o.listed /\ o.asked = FALSE
      /\ o.callbacks = k.o.callbacks /\ o.tooLarge = k.o.tooLarge
      /\ o.closedCb = k.o.closedCb /\ o.connectedCb = k.o.connectedCb
      /\ o.closedByApp = TRUE
  BY DEF Sound, Ctx, Object
<1>2. /\ q \in Ctx /\ q.c = k.c /\ q.table = k.table /\ q.o = o
      /\ q.closesInClosed = k.closesInClosed
  BY <1>1 DEF Sound, Ctx, AppCloses
<1> HIDE DEF o, q
<1>3. Sound(q)
  BY <1>1, <1>2 DEF Sound, Answerable, Listed, Role, Story, Placed, Told
<1> QED
  BY <1>1, <1>2, <1>3 DEF Ended, q

(* gt2CloseConnection, in any state. *)
LEMMA CloseConnectionKeeps ==
    ASSUME ConnInv, NEW s \in Side, CloseConnection(s)
    PROVE  ConnInv'
<1> DEFINE k == AppCloses(Context(table[s], FALSE))
<1>1. table[s] # NoConn /\ Counters /\ Commit(CloseSoft(k), net)
  BY DEF CloseConnection, Counters, ConnInv, TypeOK, AppCloses
<1>2. Sound(Context(table[s], FALSE)) /\ Context(table[s], FALSE).o.state # "Closed"
  BY <1>1, TableIsSound
<1>3. /\ Sound(k) /\ k.o.state # "Closed" /\ k.o.asked = FALSE
      /\ k.o.closedByApp = TRUE
  BY <1>2, AppClosesIsSound DEF Ended
<1> HIDE DEF k
<1>4. Settled(CloseSoft(k))
  BY <1>3, CloseSoftKeeps, SoundIsSettled DEF Ended
<1> QED
  BY <1>1, <1>4, CommitKeeps

(* gt2CloseConnectionHard, whatever the closed callback does. *)
LEMMA CloseConnectionHardKeeps ==
    ASSUME ConnInv, NEW s \in Side, CloseConnectionHard(s)
    PROVE  ConnInv'
<1>1. PICK r \in ClosesInClosed :
        LET open   == AppCloses(Context(table[s], r))
            closed == ClosedCallback(SendClosed(ConnectionClosed(open)), "LocalClose")
        IN  Commit(IF closed.o.state = "Closed" /\ ~closed.o.freeAtAcceptReject
                   THEN [closed EXCEPT !.o = Freed(@)]
                   ELSE closed, net)
  BY DEF CloseConnectionHard, AppCloses
<1> DEFINE open   == AppCloses(Context(table[s], r))
           p      == ConnectionClosed(open)
           sent   == SendClosed(p)
           closed == ClosedCallback(sent, "LocalClose")
           q      == IF closed.o.state = "Closed" /\ ~closed.o.freeAtAcceptReject
                     THEN [closed EXCEPT !.o = Freed(@)]
                     ELSE closed
<1>2. table[s] # NoConn /\ Counters
  BY DEF CloseConnectionHard, Counters, ConnInv, TypeOK
<1>3. Commit(q, net)
  BY <1>1
<1>4. Sound(Context(table[s], r)) /\ Context(table[s], r).o.state # "Closed"
  BY <1>2, TableIsSound
<1>5. /\ Sound(open) /\ open.o.state # "Closed" /\ open.o.asked = FALSE
      /\ open.o.closedByApp = TRUE
  BY <1>4, AppClosesIsSound DEF Ended
<1> HIDE DEF open
<1>6. /\ Sound(p) /\ p.o.state = "Closed"
      /\ p.o.connectedCb = open.o.connectedCb /\ p.o.closedCb = open.o.closedCb
      /\ p.o.closedByApp = TRUE
  BY <1>5, ConnectionClosedKeeps
<1> HIDE DEF p
<1>7. Quiet(p, sent) /\ Sound(sent)
  BY <1>6, SendClosedIsQuiet, QuietEnds DEF Sound, Ended
<1> HIDE DEF sent
<1>8. DocumentedUse =>
        open.o.closedCb = << >> /\ open.o.connectedCb \in {<< >>, <<"Success">>}
  BY <1>5 DEF Sound, Story, Told
<1>9. Sound(closed)
  BY <1>6, <1>7, <1>8, ClosedCallbackKeeps DEF Quiet, Same, Ended, Reasons
<1> HIDE DEF closed
<1>10. closed.o.state = "Closed" /\ ~closed.o.freeAtAcceptReject => ~closed.o.asked
  BY <1>9 DEF Sound, Answerable
<1>11. Settled(q)
  BY <1>9, <1>10, FreedIsSettled, SoundIsSettled
<1> HIDE DEF q
<1> QED
  BY <1>2, <1>3, <1>11, CommitKeeps

(* Listening ends, or a datagram is lost. *)
LEMMA OthersKeep ==
    ASSUME ConnInv, StopListening \/ (\E d \in net : Lose(d)) \/ UNCHANGED vars
    PROVE  ConnInv'
<1>1. UNCHANGED <<conn, table>> /\ net' \subseteq net
  BY DEF StopListening, Lose, vars
<1>2. Counters
  <2>1. lost \in 0..MaxLoss /\ dups \in 0..MaxDup /\ listening \in BOOLEAN
    BY DEF ConnInv, TypeOK
  <2>2. CASE StopListening
    BY <2>1, <2>2 DEF StopListening, Counters
  <2>3. ASSUME NEW d \in net, Lose(d) PROVE Counters
    BY <2>1, <2>3, ConnAssumption DEF Lose, Counters
  <2>4. CASE UNCHANGED vars
    BY <2>1, <2>4 DEF vars, Counters
  <2> QED
    BY <2>2, <2>3, <2>4
<1> QED
  BY <1>1, <1>2
  DEF ConnInv, TypeOK, Counters, OpenInTable, ObjectsOK, DocumentedStory, DocumentedUse

(* A new pair of sockets satisfies the invariant. *)
LEMMA InitIsSound == Init => ConnInv
<1> SUFFICES ASSUME Init PROVE ConnInv
  OBVIOUS
<1>1. Unused \in Object
  BY DEF Unused, Object, State
<1>2. /\ Unused.life = "unused" /\ Unused.state = "Closed" /\ Unused.asked = FALSE
      /\ Unused.tooLarge = FALSE /\ Unused.connectedCb = << >>
      /\ Unused.closedCb = << >>
  BY DEF Unused
<1>3. Len(Unused.connectedCb) = 0 /\ Len(Unused.closedCb) = 0
  BY <1>2
<1>4. \A c \in Conn : conn[c] = Unused
  BY DEF Init
<1>5. TypeOK
  BY <1>1, ConnAssumption DEF Init, TypeOK
<1>6. OpenInTable
  BY DEF Init, OpenInTable
<1>7. \A c \in Conn : /\ Answerable(Unused) /\ Listed(Unused) /\ Role(c, Unused)
                      /\ Told(c, Unused)
  BY <1>2, <1>3 DEF Answerable, Listed, Role, ServerStates, Told, Connecting
<1>8. ObjectsOK /\ DocumentedStory
  BY <1>2, <1>4, <1>7 DEF ObjectsOK, DocumentedStory, Story, Placed
<1> QED
  BY <1>5, <1>6, <1>8 DEF ConnInv

(* Every step keeps the invariant. *)
LEMMA NextKeeps ==
    ASSUME ConnInv, [Next]_vars
    PROVE  ConnInv'
<1>1. CASE Connect
  BY <1>1, ConnectKeeps
<1>2. ASSUME NEW c \in ServerConn, Accept(c) \/ Reject(c)
      PROVE  ConnInv'
  BY <1>2, AcceptKeeps, RejectKeeps
<1>3. ASSUME NEW s \in Side, CloseConnection(s) \/ CloseConnectionHard(s)
      PROVE  ConnInv'
  BY <1>3, CloseConnectionKeeps, CloseConnectionHardKeeps
<1>4. ASSUME NEW s \in Side, Think(s)
      PROVE  ConnInv'
  BY <1>4, ReceiveKeeps, ConnectionThinkKeeps, FreeClosedKeeps DEF Think
<1>5. ASSUME NEW s \in Side, ConnectionReset(s)
      PROVE  ConnInv'
  BY <1>5, ConnectionResetKeeps
<1>6. CASE StopListening \/ (\E d \in net : Lose(d)) \/ UNCHANGED vars
  BY <1>6, OthersKeep
<1> QED
  BY <1>1, <1>2, <1>3, <1>4, <1>5, <1>6 DEF Next, App

-----------------------------------------------------------------------------
(* The theorems.                                                           *)

(* The invariant of the connection objects holds in every state. *)
THEOREM ConnInvHolds == Spec => []ConnInv
<1>1. ConnInv /\ [Next]_vars => ConnInv'
  BY NextKeeps
<1> QED
  BY <1>1, InitIsSound, PTL DEF Spec

(* Every variable keeps its type: in particular no object is freed from the closed
   list more often than it was put there (gti2FreeSocketConnection). *)
THEOREM TypeOKHolds == Spec => []TypeOK
<1>1. ConnInv => TypeOK
  BY DEF ConnInv
<1> QED
  BY <1>1, ConnInvHolds, PTL

(* An object that the application was asked about is not freed before the answer
   (freeAtAcceptReject), whatever the peer, the network and the timers do. *)
THEOREM PendingIsNotFreedHolds == Spec => []PendingIsNotFreed
<1>1. ConnInv => PendingIsNotFreed
  BY DEF ConnInv, ObjectsOK, Answerable, PendingIsNotFreed
<1> QED
  BY <1>1, ConnInvHolds, PTL

(* As long as applications keep to the documented use, an object is in exactly one
   of the table and the closed list, by its state (gti2ConnectionClosed). *)
THEOREM ListsMatchStateHolds == ASSUME DocumentedUse PROVE Spec => []ListsMatchState
<1>1. ConnInv => ListsMatchState
  BY DEF ConnInv, DocumentedStory, Story, Placed, ListsMatchState
<1> QED
  BY <1>1, ConnInvHolds, PTL

(* As long as applications keep to the documented use, the callbacks of an object
   come once and in order (gti2ConnectedCallback, gti2ClosedCallback). *)
THEOREM CallbacksInOrderHolds == ASSUME DocumentedUse PROVE Spec => []CallbacksInOrder
<1>1. ConnInv => CallbacksInOrder
  BY DEF ConnInv, DocumentedStory, Story, Told, CallbacksInOrder
<1> QED
  BY <1>1, ConnInvHolds, PTL

-----------------------------------------------------------------------------
(* A success was accepted.  Honest(k, attempts, accepted) says that a       *)
(* message of a context is a challenge of one of the attempts made, or an   *)
(* Accept only if there was an acceptance; ConnInv is not needed for it.    *)

Negotiated == {"AwaitingClientResponse", "AwaitingAcceptReject"}

(* The messages that may be around when the client has made these attempts  *)
(* and some have been accepted, or none.                                    *)
Said(attempts, accepted) ==
    {m \in Message : /\ m.type = "ClientChallenge" => m.nonce \in attempts
                     /\ m.type = "Accept" => accepted}

(* An object that goes on with a negotiation does so with one of the        *)
(* attempts, and one that was accepted does not begin another.              *)
Met(o, attempts) ==
    /\ o.state \in Negotiated \/ o.accepted => o.peer \in attempts
    /\ o.accepted => o.state # "AwaitingClientChallenge"

Honest(k, attempts, accepted) ==
    /\ k \in Ctx /\ k.o.life # "unused"
    /\ \A d \in k.sent : d.kind = "Reliable" => d.msg \in Said(attempts, accepted)
    /\ k.o.out \in Seq(Said(attempts, accepted))
    /\ k.o.hold \subseteq Said(attempts, accepted)
    /\ Met(k.o, attempts)
    /\ conn[k.c].accepted => k.o.accepted /\ k.o.peer = conn[k.c].peer
    /\ k.o.connectedCb = <<"Success">> =>
          conn[k.c].connectedCb = <<"Success">> \/ accepted

(* An operator that leads from k to q has kept the context honest. *)
Stays(k, q, attempts, accepted) ==
    Honest(q, attempts, accepted) /\ q.c = k.c /\ q.table \in {k.table, NoConn}

(* A Closed, an ack or a nack says nothing. *)
LEMMA TransmitHonest ==
    ASSUME NEW U, NEW a, NEW k, Honest(k, U, a), NEW d \in Datagram, d.kind # "Reliable"
    PROVE  Stays(k, Transmit(k, d), U, a) /\ Transmit(k, d).o = k.o
<1> DEFINE q == Transmit(k, d)
<1>1. /\ q \in Ctx /\ q.c = k.c /\ q.table = k.table /\ q.o = k.o /\ q.sent = k.sent \cup {d}
  BY DEF Transmit, Honest, Ctx
<1> HIDE DEF q
<1> QED
  BY <1>1 DEF Honest, Stays, q

(* A Closed is sent. *)
LEMMA SendClosedHonest ==
    ASSUME NEW U, NEW a, NEW k, Honest(k, U, a)
    PROVE  Stays(k, SendClosed(k), U, a) /\ SendClosed(k).o = k.o
<1>1. ClosedTo(PeerOf(k)) \in Datagram /\ ClosedTo(PeerOf(k)).kind # "Reliable"
  BY DEF ClosedTo, PeerOf, Peer, Side, Datagram
<1> QED
  BY <1>1, TransmitHonest DEF SendClosed

(* Messages said before are said again. *)
LEMMA ResendHonest ==
    ASSUME NEW U, NEW a, NEW k, Honest(k, U, a), NEW msgs \in SUBSET Said(U, a)
    PROVE  Stays(k, Resend(k, msgs), U, a) /\ Resend(k, msgs).o = k.o
<1> DEFINE q == Resend(k, msgs)
           again == {ReliableTo(PeerOf(k), m, k.o.esn) : m \in msgs}
<1>1. k \in Ctx /\ msgs \in SUBSET Message
  BY DEF Honest, Said
<1>2. q \in Ctx /\ q.c = k.c /\ q.table = k.table
  BY <1>1, ResendIsQuiet DEF Quiet, Same
<1>3. q.o = k.o /\ q.sent = k.sent \cup again
  BY <1>1 DEF Resend, Ctx
<1>4. \A d \in again : d.msg \in Said(U, a)
  BY DEF ReliableTo
<1> HIDE DEF q, again
<1> QED
  BY <1>2, <1>3, <1>4 DEF Honest, Stays, q

(* A message that may be around is said. *)
LEMMA SendSaid ==
    ASSUME NEW U, NEW a, NEW k, Honest(k, U, a), NEW type, NEW resp, NEW nonce,
           [sn |-> k.o.sn, type |-> type, resp |-> resp, nonce |-> nonce] \in Said(U, a)
    PROVE  LET q == SendReliable(k, type, resp, nonce)
           IN  /\ Stays(k, q, U, a) /\ q.o.state = k.o.state
               /\ q.o.peer = k.o.peer /\ q.o.accepted = k.o.accepted
               /\ q.table = k.table
<1> DEFINE m == [sn |-> k.o.sn, type |-> type, resp |-> resp, nonce |-> nonce]
           p == [k EXCEPT !.o.sn = @ + 1, !.o.out = Append(@, m),
                          !.o.pendingAck = FALSE]
<1>1. k \in Ctx /\ k.o \in Object /\ k.o.sn \in Nat /\ k.o.sn + 1 \in Nat
  BY DEF Honest, Ctx, Object
<1>2. m \in Said(U, a) /\ m \in Message
  BY DEF Said
<1> HIDE DEF m
<1>3. Append(k.o.out, m) \in Seq(Said(U, a)) /\ Append(k.o.out, m) \in Seq(Message)
  BY <1>1, <1>2 DEF Honest, Object
<1>4. /\ p \in Ctx /\ p.c = k.c /\ p.sent = k.sent /\ p.o.out = Append(k.o.out, m)
      /\ p.o.hold = k.o.hold /\ p.o.state = k.o.state /\ p.o.peer = k.o.peer
      /\ p.o.accepted = k.o.accepted /\ p.o.connectedCb = k.o.connectedCb
      /\ p.o.life = k.o.life /\ p.table = k.table
  BY <1>1, <1>3 DEF Ctx, Object
<1>5. SendReliable(k, type, resp, nonce) = Resend(p, {m})
  BY DEF SendReliable, m
<1> HIDE DEF p
<1>6. Honest(p, U, a)
  BY <1>3, <1>4 DEF Honest, Met
<1>7. Stays(p, Resend(p, {m}), U, a) /\ Resend(p, {m}).o = p.o
  BY <1>2, <1>6, ResendHonest
<1>8. Resend(p, {m}).table = p.table
  BY <1>4 DEF Resend, Ctx
<1> QED
  BY <1>4, <1>5, <1>7, <1>8 DEF Stays

(* Any message but an Accept may be said. *)
LEMMA SendReliableHonest ==
    ASSUME NEW U, NEW a, NEW k, Honest(k, U, a), NEW type \in Type,
           NEW resp \in Conn \cup {NoConn}, NEW nonce \in Conn \cup {NoConn},
           type = "ClientChallenge" => nonce \in U, type # "Accept"
    PROVE  LET q == SendReliable(k, type, resp, nonce)
           IN  Stays(k, q, U, a) /\ q.o.peer = k.o.peer
<1>1. [sn |-> k.o.sn, type |-> type, resp |-> resp, nonce |-> nonce] \in Said(U, a)
  BY DEF Said, Message, Honest, Ctx, Object
<1> QED
  BY <1>1, SendSaid

(* Another state, of which the object may be. *)
LEMMA SetStateHonest ==
    ASSUME NEW U, NEW a, NEW k, Honest(k, U, a), NEW s \in State,
           s \in Negotiated => k.o.peer \in U, s # "AwaitingClientChallenge"
    PROVE  Stays(k, SetState(k, s), U, a)
<1> DEFINE q == SetState(k, s)
<1>1. /\ q \in Ctx /\ q.c = k.c /\ q.table = k.table /\ q.sent = k.sent /\ q.o.out = k.o.out
      /\ q.o.hold = k.o.hold /\ q.o.state = s /\ q.o.peer = k.o.peer
      /\ q.o.accepted = k.o.accepted /\ q.o.connectedCb = k.o.connectedCb
      /\ q.o.life = k.o.life
  BY DEF SetState, Honest, Ctx, Object
<1> HIDE DEF q
<1> QED
  BY <1>1 DEF Honest, Met, Stays, q

(* gti2ConnectionClosed; what is unconfirmed stays. *)
LEMMA ConnectionClosedHonest ==
    ASSUME NEW U, NEW a, NEW k, Honest(k, U, a)
    PROVE  Stays(k, ConnectionClosed(k), U, a) /\ ConnectionClosed(k).o.out = k.o.out
<1>1. CASE k.o.state = "Closed"
  BY <1>1 DEF ConnectionClosed, Stays
<1>2. CASE k.o.state # "Closed"
  <2> DEFINE q == ConnectionClosed(k)
  <2>1. k \in Ctx /\ k.o \in Object /\ k.o.listed + 1 \in Nat
    BY DEF Honest, Ctx, Object
  <2>2. /\ q \in Ctx /\ q.c = k.c /\ q.table = NoConn /\ q.sent = k.sent /\ q.o.out = k.o.out
        /\ q.o.hold = k.o.hold /\ q.o.state = "Closed" /\ q.o.peer = k.o.peer
        /\ q.o.accepted = k.o.accepted /\ q.o.connectedCb = k.o.connectedCb
        /\ q.o.life = k.o.life
    BY <1>2, <2>1 DEF ConnectionClosed, Ctx, Object, State
  <2> HIDE DEF q
  <2> QED
    BY <2>2 DEF Honest, Met, Negotiated, Stays, q
<1> QED
  BY <1>1, <1>2

(* gti2ConnectedCallback: a success is told of only after an acceptance. *)
LEMMA ConnectedCallbackHonest ==
    ASSUME NEW U, NEW a, NEW k, Honest(k, U, a),
           NEW result \in Results \cup {"Success"}, result = "Success" => a
    PROVE  /\ Stays(k, ConnectedCallback(k, result), U, a)
           /\ ConnectedCallback(k, result).o.out = k.o.out
<1> DEFINE t == Append(k.o.connectedCb, result)
           q == [k EXCEPT !.o.connectedCb = t]
<1>1. /\ k \in Ctx /\ k.o \in Object
      /\ k.o.connectedCb \in Seq(Results \cup {"Success"})
  BY DEF Honest, Ctx, Object, Results
<1>2. t \in Seq(Results \cup {"Success"}) /\ (t = <<"Success">> => result = "Success")
  <2>1. /\ t \in Seq(Results \cup {"Success"}) /\ Len(t) = Len(k.o.connectedCb) + 1
        /\ t[Len(t)] = result
    BY <1>1
  <2>2. t = <<"Success">> => Len(t) = 1 /\ t[1] = "Success"
    OBVIOUS
  <2> QED
    BY <2>1, <2>2
<1>3. ConnectedCallback(k, result) = k \/ ConnectedCallback(k, result) = q
  BY DEF ConnectedCallback
<1> HIDE DEF t
<1>4. /\ q \in Ctx /\ q.c = k.c /\ q.table = k.table /\ q.sent = k.sent /\ q.o.out = k.o.out
      /\ q.o.hold = k.o.hold /\ q.o.state = k.o.state /\ q.o.peer = k.o.peer
      /\ q.o.accepted = k.o.accepted /\ q.o.connectedCb = t
      /\ q.o.life = k.o.life
  BY <1>1, <1>2 DEF Ctx, Object, Results
<1> HIDE DEF q
<1>5. Stays(k, q, U, a)
  BY <1>2, <1>4 DEF Honest, Met, Stays
<1> QED
  BY <1>3, <1>4, <1>5 DEF Stays

(* The soft branch of gti2CloseConnection. *)
LEMMA CloseSoftHonest ==
    ASSUME NEW U, NEW a, NEW k, Honest(k, U, a)
    PROVE  Stays(k, CloseSoft(k), U, a)
<1> DEFINE p == SetState(k, "Closing")
<1>1. Stays(k, p, U, a)
  BY SetStateHonest DEF State, Negotiated
<1>2. CloseSoft(k) = SendReliable(p, "Close", NoConn, NoConn)
  BY DEF CloseSoft
<1> HIDE DEF p
<1>3. /\ "Close" \in Type /\ NoConn \in Conn \cup {NoConn}
      /\ ("Close" = "ClientChallenge" => NoConn \in U) /\ ("Close" = "Accept" => a)
  BY DEF Type
<1>4. Honest(p, U, a)
  BY <1>1 DEF Stays
<1>5. Stays(p, SendReliable(p, "Close", NoConn, NoConn), U, a)
  BY <1>3, <1>4, SendReliableHonest
<1> QED
  BY <1>1, <1>2, <1>5 DEF Stays

(* gti2ClosedCallback, whatever the callback does. *)
LEMMA ClosedCallbackHonest ==
    ASSUME NEW U, NEW a, NEW k, Honest(k, U, a), NEW reason \in Reasons
    PROVE  Stays(k, ClosedCallback(k, reason), U, a)
<1> DEFINE q == [k EXCEPT !.o.closedCb = Append(@, reason)]
<1>1. k \in Ctx /\ k.o \in Object /\ Append(k.o.closedCb, reason) \in Seq(Reasons)
  BY DEF Honest, Ctx, Object, Reasons
<1>2. /\ q \in Ctx /\ q.c = k.c /\ q.table = k.table /\ q.sent = k.sent /\ q.o.out = k.o.out
      /\ q.o.hold = k.o.hold /\ q.o.state = k.o.state /\ q.o.peer = k.o.peer
      /\ q.o.accepted = k.o.accepted /\ q.o.connectedCb = k.o.connectedCb
      /\ q.o.life = k.o.life
  BY <1>1 DEF Ctx, Object, Reasons
<1>3. ClosedCallback(k, reason) \in {k, q, CloseSoft(q)}
  BY DEF ClosedCallback
<1> HIDE DEF q
<1>4. Stays(k, k, U, a) /\ Stays(k, q, U, a)
  BY <1>2 DEF Honest, Met, Stays
<1>5. Stays(q, CloseSoft(q), U, a)
  BY <1>4, CloseSoftHonest DEF Stays
<1> QED
  BY <1>3, <1>4, <1>5 DEF Stays

(* gti2ConnectionError. *)
LEMMA ConnectionErrorHonest ==
    ASSUME NEW U, NEW a, NEW k, Honest(k, U, a), NEW result \in Results,
           NEW reason \in Reasons
    PROVE  Stays(k, ConnectionError(k, result, reason), U, a)
<1> DEFINE b == k.o.freeAtAcceptReject \/ k.o.state = "AwaitingAcceptReject"
           q == [k EXCEPT !.o.freeAtAcceptReject = b]
           p == ConnectionClosed(k)
<1>1. ConnectionError(k, result, reason) \in
        {ConnectedCallback(p, result), ConnectionClosed(q), ClosedCallback(p, reason), k}
  BY DEF ConnectionError
<1>2. k \in Ctx /\ k.o \in Object /\ b \in BOOLEAN
  BY DEF Honest, Ctx, Object
<1> HIDE DEF b
<1>3. /\ q \in Ctx /\ q.c = k.c /\ q.table = k.table /\ q.sent = k.sent /\ q.o.out = k.o.out
      /\ q.o.hold = k.o.hold /\ q.o.state = k.o.state /\ q.o.peer = k.o.peer
      /\ q.o.accepted = k.o.accepted /\ q.o.connectedCb = k.o.connectedCb
      /\ q.o.life = k.o.life
  BY <1>2 DEF Ctx, Object
<1> HIDE DEF q
<1>4. Stays(k, k, U, a) /\ Stays(k, q, U, a)
  BY <1>3 DEF Honest, Met, Stays
<1>5. Stays(q, ConnectionClosed(q), U, a)
  BY <1>4, ConnectionClosedHonest DEF Stays
<1>6. Stays(k, p, U, a)
  BY ConnectionClosedHonest
<1> HIDE DEF p
<1>7. "Success" \notin Results
  BY DEF Results
<1>8. /\ Stays(p, ConnectedCallback(p, result), U, a)
      /\ Stays(p, ClosedCallback(p, reason), U, a)
  BY <1>6, <1>7, ConnectedCallbackHonest, ClosedCallbackHonest DEF Stays
<1> QED
  BY <1>1, <1>4, <1>5, <1>6, <1>8 DEF Stays

(* The errors, and the ends of a connection. *)
LEMMA ErrorsHonest ==
    ASSUME NEW U, NEW a, NEW k, Honest(k, U, a)
    PROVE  /\ Stays(k, CommunicationError(k), U, a) /\ Stays(k, MemoryError(k), U, a)
           /\ Stays(k, HandleClose(k), U, a) /\ Stays(k, HandleClosed(k), U, a)
<1> DEFINE p == SendClosed(k)
           x == LocalOrRemote(k)
<1>1. Stays(k, p, U, a)
  BY SendClosedHonest
<1>2. /\ CommunicationError(k) = ConnectionError(k, "NegotiationError", "CommunicationError")
      /\ MemoryError(k) = ConnectionError(p, "OutOfMemory", "NotEnoughMemory")
      /\ HandleClose(k) = ConnectionError(p, "Rejected", x)
      /\ HandleClosed(k) = ConnectionError(k, "Rejected", x)
  BY DEF CommunicationError, MemoryError, HandleClose, HandleClosed
<1>3. /\ x \in Reasons /\ "CommunicationError" \in Reasons /\ "NotEnoughMemory" \in Reasons
      /\ "NegotiationError" \in Results /\ "OutOfMemory" \in Results /\ "Rejected" \in Results
  BY DEF LocalOrRemote, Reasons, Results
<1> HIDE DEF p, x
<1>4. Honest(p, U, a)
  BY <1>1 DEF Stays
<1>5. /\ Stays(k, CommunicationError(k), U, a) /\ Stays(k, HandleClosed(k), U, a)
      /\ Stays(p, MemoryError(k), U, a) /\ Stays(p, HandleClose(k), U, a)
  BY <1>2, <1>3, <1>4, ConnectionErrorHonest
<1> QED
  BY <1>1, <1>5 DEF Stays

(* A message of the application, which may be too large. *)
LEMMA SendWithMessageHonest ==
    ASSUME NEW U, NEW a, NEW k, Honest(k, U, a),
           NEW type \in Type \ {"ClientChallenge", "Accept"},
           NEW resp \in Conn \cup {NoConn}, NEW big
    PROVE  Stays(k, SendWithMessage(k, type, resp, big), U, a)
<1>1. SendWithMessage(k, type, resp, big) \in
        {MemoryError(k), SendReliable(k, type, resp, NoConn)}
  BY DEF SendWithMessage
<1>2. NoConn \in Conn \cup {NoConn} /\ type # "ClientChallenge" /\ type # "Accept"
  OBVIOUS
<1>3. Stays(k, SendReliable(k, type, resp, NoConn), U, a)
  BY <1>2, SendReliableHonest
<1> QED
  BY <1>1, <1>3, ErrorsHonest

(* gti2HandleClientChallenge: the object takes the attempt of the message as *)
(* its peer.                                                                *)
LEMMA HandleClientChallengeHonest ==
    ASSUME NEW U, NEW a, NEW k, Honest(k, U, a), NEW m \in Said(U, a),
           m.type = "ClientChallenge"
    PROVE  Stays(k, HandleClientChallenge(k, m), U, a)
<1>1. CASE k.o.state # "AwaitingClientChallenge"
  BY <1>1, ErrorsHonest DEF HandleClientChallenge
<1>2. CASE k.o.state = "AwaitingClientChallenge"
  <2> DEFINE p == [k EXCEPT !.o.peer = m.nonce]
             q == SendReliable(p, "ServerChallenge", m.nonce, k.c)
  <2>1. /\ m.nonce \in Conn \cup {NoConn} /\ m.nonce \in U
        /\ k.c \in Conn /\ k \in Ctx /\ k.o \in Object
    BY DEF Message, Said, Honest, Ctx
  <2>2. /\ p \in Ctx /\ p.c = k.c /\ p.table = k.table /\ p.sent = k.sent /\ p.o.out = k.o.out
        /\ p.o.hold = k.o.hold /\ p.o.state = k.o.state /\ p.o.peer = m.nonce
        /\ p.o.accepted = k.o.accepted /\ p.o.connectedCb = k.o.connectedCb
        /\ p.o.life = k.o.life
    BY <2>1 DEF Ctx, Object
  <2> HIDE DEF p
  <2>3. ~k.o.accepted /\ ~conn[k.c].accepted
    BY <1>2 DEF Honest, Met
  <2>4. Honest(p, U, a)
    BY <1>2, <2>1, <2>2, <2>3 DEF Honest, Met
  <2>5. Stays(p, q, U, a) /\ q.o.peer = p.o.peer
    BY <2>1, <2>4, SendReliableHonest DEF Type
  <2> HIDE DEF q
  <2>6. Stays(q, SetState(q, "AwaitingClientResponse"), U, a)
    BY <2>1, <2>2, <2>5, SetStateHonest DEF Stays, State, Connecting
  <2> QED
    BY <1>2, <2>2, <2>5, <2>6 DEF HandleClientChallenge, Stays, p, q
<1> QED
  BY <1>1, <1>2

(* gti2HandleServerChallenge. *)
LEMMA HandleServerChallengeHonest ==
    ASSUME NEW U, NEW a, NEW k, Honest(k, U, a), NEW m \in Message
    PROVE  Stays(k, HandleServerChallenge(k, m), U, a)
<1>1. CASE k.o.state # "AwaitingServerChallenge" \/ m.resp # k.c
  BY <1>1, ErrorsHonest DEF HandleServerChallenge
<1>2. CASE k.o.state = "AwaitingServerChallenge" /\ m.resp = k.c
  <2> DEFINE q == SendWithMessage(k, "ClientResponse", m.nonce, k.o.tooLarge)
  <2>1. m.nonce \in Conn \cup {NoConn}
    BY DEF Message
  <2>2. Stays(k, q, U, a)
    BY <2>1, SendWithMessageHonest DEF Type
  <2> HIDE DEF q
  <2>3. Stays(q, SetState(q, "AwaitingAcceptance"), U, a)
    BY <2>2, SetStateHonest DEF Stays, State, Connecting, Negotiated
  <2> QED
    BY <1>2, <2>2, <2>3 DEF HandleServerChallenge, Stays, q
<1> QED
  BY <1>1, <1>2

(* gti2HandleClientResponse: the attempt is that of the challenge. *)
LEMMA HandleClientResponseHonest ==
    ASSUME NEW U, NEW a, NEW k, Honest(k, U, a), NEW m \in Message
    PROVE  Stays(k, HandleClientResponse(k, m), U, a)
<1>1. CASE k.o.state # "AwaitingClientResponse" \/ m.resp # k.c
  BY <1>1, ErrorsHonest DEF HandleClientResponse
<1>2. CASE k.o.state = "AwaitingClientResponse" /\ m.resp = k.c /\ ~listening
  <2>1. Stays(k, SendClosed(k), U, a)
    BY SendClosedHonest
  <2>2. Stays(SendClosed(k), ConnectionClosed(SendClosed(k)), U, a)
    BY <2>1, ConnectionClosedHonest DEF Stays
  <2> QED
    BY <1>2, <2>1, <2>2 DEF HandleClientResponse, Stays
<1>3. CASE k.o.state = "AwaitingClientResponse" /\ m.resp = k.c /\ listening
  <2> DEFINE p == SetState(k, "AwaitingAcceptReject")
             q == [p EXCEPT !.o.asked = TRUE]
  <2>1. k.o.peer \in U
    BY <1>3 DEF Honest, Met, Negotiated
  <2>2. Stays(k, p, U, a)
    BY <2>1, SetStateHonest DEF State, Connecting
  <2>3. HandleClientResponse(k, m) = q
    BY <1>3 DEF HandleClientResponse
  <2> HIDE DEF p
  <2>4. /\ q \in Ctx /\ q.c = p.c /\ q.table = p.table /\ q.sent = p.sent /\ q.o.out = p.o.out
        /\ q.o.hold = p.o.hold /\ q.o.state = p.o.state /\ q.o.peer = p.o.peer
        /\ q.o.accepted = p.o.accepted /\ q.o.connectedCb = p.o.connectedCb
        /\ q.o.life = p.o.life
    BY <2>2 DEF Stays, Honest, Ctx, Object
  <2> HIDE DEF q
  <2> QED
    BY <2>2, <2>3, <2>4 DEF Stays, Honest, Met
<1> QED
  BY <1>1, <1>2, <1>3

(* gti2HandleAccept: the success is told because an Accept was sent. *)
LEMMA HandleAcceptHonest ==
    ASSUME NEW U, NEW a, NEW k, Honest(k, U, a), a
    PROVE  Stays(k, HandleAccept(k), U, a)
<1> DEFINE p == SetState(k, "Connected")
           q == ConnectedCallback(p, "Success")
<1>1. Stays(k, p, U, a)
  BY SetStateHonest DEF State, Connecting, Negotiated
<1>2. HandleAccept(k) \in {CommunicationError(k), q}
  BY DEF HandleAccept
<1> HIDE DEF p
<1>3. Honest(p, U, a)
  BY <1>1 DEF Stays
<1>4. Stays(p, q, U, a)
  <2>1. "Success" \in Results \cup {"Success"} /\ ("Success" = "Success" => a)
    OBVIOUS
  <2> QED
    BY ONLY <1>3, <2>1, ConnectedCallbackHonest
<1> HIDE DEF q
<1>5. Stays(k, CommunicationError(k), U, a)
  BY ErrorsHonest
<1> QED
  BY <1>1, <1>2, <1>4, <1>5 DEF Stays

(* gti2HandleReject. *)
LEMMA HandleRejectHonest ==
    ASSUME NEW U, NEW a, NEW k, Honest(k, U, a)
    PROVE  Stays(k, HandleReject(k), U, a)
<1> DEFINE p == ConnectionClosed(k)
           q == SendClosed(p)
<1>1. Stays(k, p, U, a)
  BY ConnectionClosedHonest
<1>2. Stays(p, q, U, a)
  BY <1>1, SendClosedHonest DEF Stays
<1>3. Stays(q, ConnectedCallback(q, "Rejected"), U, a)
  BY <1>2, ConnectedCallbackHonest DEF Stays, Results
<1>4. HandleReject(k) \in {CommunicationError(k), ConnectedCallback(q, "Rejected")}
  BY DEF HandleReject
<1> HIDE DEF p, q
<1> QED
  BY <1>1, <1>2, <1>3, <1>4, ErrorsHonest DEF Stays

(* gti2DeliverReliableMessage. *)
LEMMA DeliverHonest ==
    ASSUME NEW U, NEW a, NEW k, Honest(k, U, a), NEW m \in Said(U, a)
    PROVE  Stays(k, DeliverReliableMessage(k, m), U, a)
<1> DEFINE next == [k EXCEPT !.o.esn = @ + 1]
<1>1. Stays(k, next, U, a)
  <2>1. k.o.esn + 1 \in Nat
    BY DEF Honest, Ctx, Object
  <2>2. /\ next \in Ctx /\ next.c = k.c /\ next.table = k.table /\ next.sent = k.sent /\ next.o.out = k.o.out
        /\ next.o.hold = k.o.hold /\ next.o.state = k.o.state /\ next.o.peer = k.o.peer
        /\ next.o.accepted = k.o.accepted /\ next.o.connectedCb = k.o.connectedCb
        /\ next.o.life = k.o.life
    BY <2>1 DEF Honest, Ctx, Object
  <2> HIDE DEF next
  <2> QED
    BY <2>2 DEF Honest, Met, Stays
<1>2. m \in Message /\ m.type \in Type /\ (m.type = "Accept" => a)
  BY DEF Said, Message
<1>3. \/ /\ m.type = "ClientChallenge"
         /\ DeliverReliableMessage(k, m) = HandleClientChallenge(next, m)
      \/ m.type = "Accept" /\ DeliverReliableMessage(k, m) = HandleAccept(next)
      \/ DeliverReliableMessage(k, m) \in
           {HandleServerChallenge(next, m), HandleClientResponse(next, m),
            HandleReject(next), HandleClose(next)}
  BY <1>2 DEF DeliverReliableMessage, Type
<1> HIDE DEF next
<1>4. Honest(next, U, a) /\ next.c = k.c
  BY <1>1 DEF Stays
<1>5. m.type = "ClientChallenge" => Stays(next, HandleClientChallenge(next, m), U, a)
  BY <1>4, HandleClientChallengeHonest
<1>6. m.type = "Accept" => Stays(next, HandleAccept(next), U, a)
  BY <1>2, <1>4, HandleAcceptHonest
<1>7. /\ Stays(next, HandleServerChallenge(next, m), U, a)
      /\ Stays(next, HandleClientResponse(next, m), U, a)
  BY <1>2, <1>4, HandleServerChallengeHonest, HandleClientResponseHonest
<1>8. Stays(next, HandleReject(next), U, a) /\ Stays(next, HandleClose(next), U, a)
  BY <1>4, HandleRejectHonest, ErrorsHonest
<1>9. Stays(next, DeliverReliableMessage(k, m), U, a)
  BY <1>3, <1>5, <1>6, <1>7, <1>8
<1> QED
  BY <1>1, <1>9 DEF Stays

(* gti2DeliverHoldMessages. *)
LEMMA DeliverHoldHonest ==
    ASSUME NEW U, NEW a, NEW k, Honest(k, U, a)
    PROVE  Stays(k, DeliverHoldMessages(k), U, a)
<1> DEFINE due == {h \in k.o.hold : SameSN(h.sn, k.o.esn)}
           h == CHOOSE m \in due : TRUE
           p == DeliverReliableMessage(k, h)
           q == [p EXCEPT !.o.hold = @ \ {h}]
<1>1. CASE due = {}
  BY <1>1 DEF DeliverHoldMessages, Stays
<1>2. CASE due # {}
  <2>1. h \in Said(U, a)
    <3>1. h \in due
      BY <1>2
    <3> QED
      BY <3>1 DEF Honest
  <2>2. DeliverHoldMessages(k) = q
    BY <1>2 DEF DeliverHoldMessages
  <2> HIDE DEF h
  <2>3. Stays(k, p, U, a)
    BY <2>1, DeliverHonest
  <2> HIDE DEF p
  <2>4. /\ q \in Ctx /\ q.c = p.c /\ q.table = p.table /\ q.sent = p.sent /\ q.o.out = p.o.out
        /\ q.o.hold \subseteq p.o.hold /\ q.o.state = p.o.state /\ q.o.peer = p.o.peer
        /\ q.o.accepted = p.o.accepted /\ q.o.connectedCb = p.o.connectedCb
        /\ q.o.life = p.o.life
    BY <2>3 DEF Stays, Honest, Ctx, Object
  <2> HIDE DEF q
  <2> QED
    BY <2>2, <2>3, <2>4 DEF Stays, Honest, Met
<1> QED
  BY <1>1, <1>2

(* A confirmation. *)
LEMMA ConfirmHonest ==
    ASSUME NEW U, NEW a, NEW k, Honest(k, U, a), NEW ESN \in Nat
    PROVE  /\ Stays(k, Confirm(k, ESN), U, a)
           /\ Stays(k, SetPendingAck(Confirm(k, ESN)), U, a)
<1> DEFINE t == HandleESN(k.o.out, ESN)
           p == Confirm(k, ESN)
           q == SetPendingAck(p)
<1>1. /\ k \in Ctx /\ k.o.out \in Seq(Message) /\ k.o.out \in Seq(Said(U, a))
  BY DEF Honest, Ctx, Object
<1>2. t \in Seq(Message) /\ t \in Seq(Said(U, a))
  BY <1>1, HandleESNType
<1>3. p = [k EXCEPT !.o.out = t]
  BY <1>1 DEF Confirm, Ctx, Object
<1> HIDE DEF t, p
<1>4. /\ p \in Ctx /\ p.c = k.c /\ p.table = k.table /\ p.sent = k.sent /\ p.o.out = t
      /\ p.o.hold = k.o.hold /\ p.o.state = k.o.state /\ p.o.peer = k.o.peer
      /\ p.o.accepted = k.o.accepted /\ p.o.connectedCb = k.o.connectedCb
      /\ p.o.life = k.o.life
  BY <1>1, <1>2, <1>3 DEF Ctx, Object
<1>5. /\ q \in Ctx /\ q.c = p.c /\ q.table = p.table /\ q.sent = p.sent /\ q.o.out = p.o.out
      /\ q.o.hold = p.o.hold /\ q.o.state = p.o.state /\ q.o.peer = p.o.peer
      /\ q.o.accepted = p.o.accepted /\ q.o.connectedCb = p.o.connectedCb
      /\ q.o.life = p.o.life
  BY <1>4 DEF SetPendingAck, Ctx, Object
<1> HIDE DEF q
<1>6. Stays(k, p, U, a) /\ Stays(k, q, U, a)
  BY <1>2, <1>4, <1>5 DEF Honest, Met, Stays
<1> QED
  BY <1>6 DEF p, q

(* An ack that is due. *)
LEMMA CheckPendingAckHonest ==
    ASSUME NEW U, NEW a, NEW k, Honest(k, U, a), NEW ackDue
    PROVE  Stays(k, CheckPendingAck(k, ackDue), U, a)
<1> DEFINE q == [k EXCEPT !.o.pendingAck = FALSE]
           d == [kind |-> "Ack", to |-> PeerOf(k), esn |-> k.o.esn]
<1>1. d \in Datagram /\ d.kind # "Reliable"
  BY DEF Datagram, PeerOf, Peer, Side, Honest, Ctx, Object
<1>2. CheckPendingAck(k, ackDue) \in {k, Transmit(q, d)}
  BY DEF CheckPendingAck
<1> HIDE DEF d
<1>3. /\ q \in Ctx /\ q.c = k.c /\ q.table = k.table /\ q.sent = k.sent /\ q.o.out = k.o.out
      /\ q.o.hold = k.o.hold /\ q.o.state = k.o.state /\ q.o.peer = k.o.peer
      /\ q.o.accepted = k.o.accepted /\ q.o.connectedCb = k.o.connectedCb
      /\ q.o.life = k.o.life
  BY DEF Honest, Ctx, Object
<1> HIDE DEF q
<1>4. Stays(k, k, U, a) /\ Stays(k, q, U, a)
  BY <1>3 DEF Honest, Met, Stays
<1>5. Stays(q, Transmit(q, d), U, a)
  BY <1>1, <1>4, TransmitHonest DEF Stays
<1> QED
  BY <1>2, <1>4, <1>5 DEF Stays

(* A message for the hold. *)
LEMMA BufferHonest ==
    ASSUME NEW U, NEW a, NEW k, Honest(k, U, a), NEW m \in Said(U, a)
    PROVE  Stays(k, BufferIncomingMessage(k, m), U, a)
<1> DEFINE below   == {h \in k.o.hold : SNDiff(h.sn, m.sn) < 0}
           highest == {h \in below : \A g \in below : SNDiff(g.sn, h.sn) <= 0}
           late    == {g \in highest : SNDiff(m.sn, g.sn) > 1}
           gap     == IF k.o.hold = {} THEN {k.o.esn}
                      ELSE IF below = k.o.hold THEN {h.sn + 1 : h \in late}
                      ELSE {}
           nacks   == {NackTo(PeerOf(k), min, m.sn - 1) : min \in gap}
           q       == [k EXCEPT !.o.hold = @ \cup {m}, !.sent = @ \cup nacks]
<1>1. BufferIncomingMessage(k, m) = k \/ BufferIncomingMessage(k, m) = q
  BY Zenon DEF BufferIncomingMessage
<1> HIDE DEF gap
<1>2. \A d \in nacks : d.kind # "Reliable"
  BY DEF NackTo
<1> HIDE DEF nacks
<1>3. m \in Message /\ k \in Ctx
  BY DEF Said, Honest
<1>4. BufferIncomingMessage(k, m) \in Ctx
  BY <1>3, BufferIsQuiet DEF Quiet
<1>5. /\ q.c = k.c /\ q.table = k.table /\ q.sent = k.sent \cup nacks /\ q.o.out = k.o.out
      /\ q.o.hold = k.o.hold \cup {m} /\ q.o.state = k.o.state /\ q.o.peer = k.o.peer
      /\ q.o.accepted = k.o.accepted /\ q.o.connectedCb = k.o.connectedCb
      /\ q.o.life = k.o.life
  BY <1>3 DEF Ctx, Object
<1> HIDE DEF q
<1>6. Stays(k, k, U, a)
  BY DEF Stays
<1>7. BufferIncomingMessage(k, m) = q => Stays(k, q, U, a)
  BY <1>2, <1>4, <1>5 DEF Honest, Met, Stays
<1> QED
  BY <1>1, <1>6, <1>7

(* What is sent again was in the buffer. *)
LEMMA AgainHonest ==
    ASSUME NEW U, NEW a, NEW k, Honest(k, U, a), NEW due \in SUBSET DOMAIN k.o.out
    PROVE  Stays(k, Resend(k, {k.o.out[i] : i \in due}), U, a)
<1>1. \A i \in DOMAIN k.o.out : k.o.out[i] \in Said(U, a)
  BY DEF Honest
<1> QED
  BY <1>1, ResendHonest

(* gti2HandleReliableMessage. *)
LEMMA HandleReliableHonest ==
    ASSUME NEW U, NEW a, NEW k, Honest(k, U, a), NEW d \in Datagram, d.kind = "Reliable",
           d.msg \in Said(U, a)
    PROVE  Stays(k, HandleReliableMessage(k, d), U, a)
<1> DEFINE p == Confirm(k, d.esn)
           q == SetPendingAck(p)
<1>1. d.esn \in Nat
  BY DEF Datagram
<1>2. HandleReliableMessage(k, d) \in
        {DeliverHoldMessages(DeliverReliableMessage(q, d.msg)), q,
         BufferIncomingMessage(p, d.msg)}
  BY Zenon DEF HandleReliableMessage
<1>3. Stays(k, p, U, a) /\ Stays(k, q, U, a)
  BY <1>1, ConfirmHonest
<1> HIDE DEF p, q
<1>4. Stays(p, BufferIncomingMessage(p, d.msg), U, a)
  BY <1>3, BufferHonest DEF Stays
<1>5. Stays(q, DeliverHoldMessages(DeliverReliableMessage(q, d.msg)), U, a)
  BY <1>3, DeliverHonest, DeliverHoldHonest DEF Stays
<1> QED
  BY <1>2, <1>3, <1>4, <1>5 DEF Stays

(* gti2HandleMessage. *)
LEMMA HandleHonest ==
    ASSUME NEW U, NEW a, NEW k, Honest(k, U, a), NEW d \in Datagram,
           d.kind = "Reliable" => d.msg \in Said(U, a)
    PROVE  Stays(k, Handle(k, d), U, a)
<1>1. d.kind \in {"Reliable", "Ack", "Nack", "Closed"} /\ (d.kind = "Ack" => d.esn \in Nat)
  BY DEF Datagram
<1>2. Stays(k, k, U, a) /\ Stays(k, SendClosed(k), U, a) /\ Stays(k, HandleClosed(k), U, a)
  BY SendClosedHonest, ErrorsHonest DEF Stays
<1>3. d.kind = "Reliable" => Stays(k, HandleReliableMessage(k, d), U, a)
  BY HandleReliableHonest
<1>4. d.kind = "Ack" => Stays(k, Confirm(k, d.esn), U, a)
  BY <1>1, ConfirmHonest
<1>5. Stays(k, HandleNack(k, d), U, a)
  BY AgainHonest DEF HandleNack
<1> QED
  BY <1>1, <1>2, <1>3, <1>4, <1>5 DEF Handle

-----------------------------------------------------------------------------
(* The invariant of the acceptances, and how a context becomes the state.   *)

Attempts == {c \in ClientConn : conn[c].life # "unused"}
SomeAccepted == \E b \in ServerConn : conn[b].accepted /\ conn[b].peer \in Attempts

(* Messages in flight and in the buffers are honest; what is unused is as new. *)
NetHonest ==
    \A d \in net : d.kind = "Reliable" => d.msg \in Said(Attempts, SomeAccepted)

ObjectsHonest ==
    \A c \in Conn :
        /\ conn[c].out \in Seq(Said(Attempts, SomeAccepted))
        /\ conn[c].hold \subseteq Said(Attempts, SomeAccepted)
        /\ Met(conn[c], Attempts)
        /\ conn[c].life = "unused" => conn[c] = Unused

(* A success was accepted: this attempt, or one made before it. *)
SuccessWasAccepted ==
    \A c \in ClientConn :
        conn[c].connectedCb = <<"Success">> =>
            \E b \in ServerConn :
                conn[b].accepted /\ conn[b].peer \in Attempts /\ conn[b].peer <= c

(* The attempts are made in the order of their ids, and the table holds the last. *)
InOrder ==
    /\ \A c \in Attempts, b \in ClientConn \ Attempts : c < b
    /\ table["client"] # NoConn => \A c \in Attempts : c <= table["client"]

AcceptInv == NetHonest /\ ObjectsHonest /\ SuccessWasAccepted /\ InOrder

(* A context of the client is of its last attempt. *)
Newest(k) ==
    k.c \in ClientConn =>
        /\ k.table \in {k.c, NoConn}
        /\ \A c \in Attempts : c <= k.c
        /\ \A b \in ClientConn \ (Attempts \cup {k.c}) : k.c < b

(* More attempts and more acceptances allow more to be said. *)
LEMMA SaidGrows ==
    ASSUME NEW U, NEW U2, NEW a, NEW a2, U \subseteq U2, a => a2
    PROVE  Said(U, a) \subseteq Said(U2, a2) /\ Seq(Said(U, a)) \subseteq Seq(Said(U2, a2))
<1>1. Said(U, a) \subseteq Said(U2, a2)
  BY DEF Said
<1> QED
  BY <1>1

(* An honest context of the last attempt, or of the server, may be committed. *)
LEMMA CommitHonest ==
    ASSUME ConnInv, AcceptInv, NEW U, NEW a, NEW k, Honest(k, U, a), Newest(k),
           U \subseteq Attempts \cup ({k.c} \cap ClientConn),
           a => SomeAccepted \/ (k.c \in ServerConn /\ k.o.accepted /\ k.o.peer \in U),
           NEW rest \in SUBSET net, Commit(k, rest)
    PROVE  AcceptInv'
<1>1. k.c \in Conn /\ (k.c \in ServerConn <=> k.c \notin ClientConn)
  BY ConnAssumption DEF Honest, Ctx, Conn
<1>2. /\ conn'[k.c] = k.o
      /\ \A c \in Conn \ {k.c} : conn'[c] = conn[c]
  BY <1>1 DEF Commit, ConnInv, TypeOK
<1>3. /\ k.c \in ClientConn => table'["client"] = k.table
      /\ k.c \notin ClientConn => table'["client"] = table["client"]
  BY DEF Commit, ConnInv, TypeOK, SideOf, Side
<1>4. Attempts' = Attempts \cup ({k.c} \cap ClientConn)
  BY <1>1, <1>2 DEF Attempts, Honest, Conn
<1>5. \A b \in ServerConn : conn[b].accepted => conn'[b].accepted /\ conn'[b].peer = conn[b].peer
  BY <1>2 DEF Honest, Conn
<1>6. (SomeAccepted => SomeAccepted') /\ (a => SomeAccepted')
  BY <1>2, <1>4, <1>5 DEF SomeAccepted
<1> DEFINE S == Said(Attempts, SomeAccepted)
           T == Said(Attempts', SomeAccepted')
<1>7. /\ S \subseteq T /\ Seq(S) \subseteq Seq(T)
      /\ Said(U, a) \subseteq T /\ Seq(Said(U, a)) \subseteq Seq(T)
  BY <1>4, <1>6, SaidGrows
<1>8. NetHonest'
  <2>1. \A d \in net' : d \in net \/ d \in k.sent
    BY DEF Commit
  <2>2. \A d \in net' : d.kind = "Reliable" => d.msg \in T
    BY <1>7, <2>1 DEF AcceptInv, NetHonest, Honest
  <2> QED
    BY <2>2 DEF NetHonest
<1>9. ObjectsHonest'
  <2>1. ASSUME NEW c \in Conn
        PROVE  /\ conn'[c].out \in Seq(T) /\ conn'[c].hold \subseteq T
               /\ Met(conn'[c], Attempts')
               /\ conn'[c].life = "unused" => conn'[c] = Unused
    <3>1. CASE c = k.c
      BY <1>2, <1>4, <1>7, <3>1 DEF Honest, Met
    <3>2. CASE c # k.c
      BY <1>2, <1>4, <1>7, <3>2 DEF AcceptInv, ObjectsHonest, Met
    <3> QED
      BY <3>1, <3>2
  <2> QED
    BY <2>1 DEF ObjectsHonest, Met, Unused
<1> HIDE DEF S, T
<1>10. SuccessWasAccepted'
  <2> SUFFICES ASSUME NEW c \in ClientConn, conn'[c].connectedCb = <<"Success">>
               PROVE  \E b \in ServerConn : /\ conn'[b].accepted
                                            /\ conn'[b].peer \in Attempts'
                                            /\ conn'[b].peer <= c
    BY DEF SuccessWasAccepted
  <2>1. CASE conn[c].connectedCb = <<"Success">>
    BY <1>4, <1>5, <2>1 DEF AcceptInv, SuccessWasAccepted
  <2>2. CASE conn[c].connectedCb # <<"Success">>
    <3>1. c = k.c /\ a
      BY <1>2, <2>2 DEF Honest, Conn
    <3>2. \A b \in Attempts' : b <= c
      BY <1>4, <3>1, ConnAssumption DEF Newest, Conn
    <3> QED
      BY <1>6, <3>1, <3>2 DEF SomeAccepted
  <2> QED
    BY <2>1, <2>2
<1>11. InOrder'
  <2>1. \A c \in Attempts', b \in ClientConn \ Attempts' : c < b
    BY <1>4 DEF AcceptInv, InOrder, Newest
  <2>2. table'["client"] # NoConn => \A c \in Attempts' : c <= table'["client"]
    <3>1. CASE k.c \in ClientConn
      BY <1>3, <1>4, <3>1, ConnAssumption DEF Newest, Conn
    <3>2. CASE k.c \notin ClientConn
      BY <1>3, <1>4, <3>2 DEF AcceptInv, InOrder
    <3> QED
      BY <3>1, <3>2
  <2> QED
    BY <2>1, <2>2 DEF InOrder
<1> QED
  BY <1>8, <1>9, <1>10, <1>11 DEF AcceptInv

(* What is done to a context of the last attempt leaves it one. *)
LEMMA StaysNewest ==
    ASSUME NEW U, NEW a, NEW k, NEW q, Newest(k), Stays(k, q, U, a)
    PROVE  Honest(q, U, a) /\ Newest(q)
BY DEF Newest, Stays

(* Operators in a row. *)
LEMMA StaysThenStays ==
    ASSUME NEW U, NEW a, NEW k, NEW p, NEW q, Stays(k, p, U, a), Stays(p, q, U, a)
    PROVE  Stays(k, q, U, a)
BY DEF Stays

(* A handler that starts and ends honestly keeps the invariant. *)
LEMMA HandlerHonest ==
    ASSUME ConnInv, AcceptInv, NEW k, Newest(k), NEW q, Stays(k, q, Attempts, SomeAccepted),
           NEW rest \in SUBSET net, Commit(q, rest)
    PROVE  AcceptInv'
<1>1. Honest(q, Attempts, SomeAccepted) /\ Newest(q)
  BY StaysNewest
<1> QED
  BY <1>1, CommitHonest

(* The context of an object, before the handler. *)
LEMMA ContextHonest ==
    ASSUME ConnInv, AcceptInv, NEW c \in Conn, conn[c].life # "unused",
           NEW r \in ClosesInClosed \cup {FALSE}
    PROVE  LET k == Context(c, r)
           IN  /\ Honest(k, Attempts, SomeAccepted) /\ k.c = c /\ k.o = conn[c]
               /\ c \in ServerConn \/ table[SideOf(c)] = c => Newest(k)
<1> DEFINE k == Context(c, r)
<1>1. r \in BOOLEAN
  BY ConnAssumption
<1>2. /\ k \in Ctx /\ k.c = c /\ k.o = conn[c] /\ k.table = table[SideOf(c)]
      /\ k.sent = {}
  BY <1>1, Sides DEF Context, Ctx, ConnInv, TypeOK
<1> HIDE DEF k
<1>3. Honest(k, Attempts, SomeAccepted)
  BY <1>2 DEF Honest, AcceptInv, ObjectsHonest
<1>4. ASSUME c \in ClientConn, table[SideOf(c)] = c PROVE Newest(k)
  <2>1. c \in Attempts /\ table["client"] = c /\ c # NoConn
    BY <1>4, Sides DEF Attempts, SideOf
  <2> QED
    BY <1>2, <1>4, <2>1 DEF Newest, AcceptInv, InOrder
<1>5. ASSUME c \in ServerConn PROVE Newest(k)
  BY <1>2, <1>5, ConnAssumption DEF Newest
<1> QED
  BY <1>2, <1>3, <1>4, <1>5 DEF k, Conn

(* The object of the table, as a context. *)
LEMMA TableHonest ==
    ASSUME ConnInv, AcceptInv, NEW s \in Side, table[s] # NoConn,
           NEW r \in ClosesInClosed \cup {FALSE}
    PROVE  LET k == Context(table[s], r)
           IN  /\ Honest(k, Attempts, SomeAccepted) /\ Newest(k)
               /\ k.c = table[s] /\ k.o = conn[table[s]]
<1>1. /\ table[s] \in Conn /\ conn[table[s]].life = "allocated"
      /\ SideOf(table[s]) = s
  BY Sides DEF ConnInv, OpenInTable
<1> QED
  BY <1>1, ContextHonest

(* A new object has said nothing. *)
Silent(o) ==
    /\ o \in Object /\ o.life = "allocated" /\ o.out = << >> /\ o.hold = {}
    /\ o.state \notin Negotiated /\ ~o.accepted /\ o.connectedCb = << >>

(* The context of a new object. *)
LEMMA NewHonest ==
    ASSUME ConnInv, AcceptInv, NEW s \in Side, NEW U, NEW a, NEW c \in Of(s),
           conn[c].life = "unused", NEW o, Silent(o), NEW k, k = NewContext(s, c, o)
    PROVE  Honest(k, U, a) /\ k.c = c /\ k.table = c /\ k.o = o
<1>1. c \in Conn
  BY Sides
<1>2. /\ k \in Ctx /\ k.c = c /\ k.table = c /\ k.o = o /\ k.sent = {}
  BY <1>1 DEF NewContext, Ctx, Silent
<1>3. conn[c].accepted = FALSE
  BY <1>1 DEF AcceptInv, ObjectsHonest, Unused
<1>4. << >> \in Seq(Said(U, a)) /\ << >> # <<"Success">>
  OBVIOUS
<1>5. Honest(k, U, a)
  BY <1>2, <1>3, <1>4 DEF Honest, Met, Silent
<1> QED
  BY <1>2, <1>5

(* A freed object has nothing left to say. *)
LEMMA FreedHonest ==
    ASSUME NEW U, NEW a, NEW k, Honest(k, U, a), Freed(k.o) \in Object
    PROVE  Stays(k, [k EXCEPT !.o = Freed(@)], U, a)
<1> DEFINE o == Freed(k.o)
           q == [k EXCEPT !.o = o]
<1>1. k.o \in Object
  BY DEF Honest, Ctx
<1>2. /\ o.life = "freed" /\ o.out = << >> /\ o.hold = {} /\ o.state = k.o.state
      /\ o.peer = k.o.peer /\ o.accepted = k.o.accepted /\ o.connectedCb = k.o.connectedCb
  BY <1>1 DEF Freed, Object
<1> HIDE DEF o
<1>3. /\ q \in Ctx /\ q.c = k.c /\ q.table = k.table /\ q.sent = k.sent /\ q.o = o
  BY DEF Honest, Ctx, o
<1> HIDE DEF q
<1>4. << >> \in Seq(Said(U, a))
  OBVIOUS
<1>5. Stays(k, q, U, a)
  BY <1>2, <1>3, <1>4 DEF Honest, Met, Stays
<1> QED
  BY <1>5 DEF q, o

(* The end of a handler that may free its object. *)
LEMMA MayBeFreedHonest ==
    ASSUME ConnInv, AcceptInv, ConnInv', NEW k, Newest(k), NEW q,
           Stays(k, q, Attempts, SomeAccepted), NEW free \in BOOLEAN,
           Commit(IF free THEN [q EXCEPT !.o = Freed(@)] ELSE q, net)
    PROVE  AcceptInv'
<1>1. CASE ~free
  BY <1>1, HandlerHonest
<1>2. CASE free
  <2> DEFINE f == [q EXCEPT !.o = Freed(@)]
  <2>1. Honest(q, Attempts, SomeAccepted) /\ q \in Ctx /\ q.c \in Conn
    BY DEF Stays, Honest, Ctx
  <2>2. f.c = q.c /\ f.o = Freed(q.o)
    BY <2>1 DEF Ctx
  <2>3. Commit(f, net)
    BY <1>2
  <2> HIDE DEF f
  <2>4. Freed(q.o) \in Object
    BY <2>1, <2>2, <2>3 DEF Commit, ConnInv, TypeOK
  <2>5. Stays(q, f, Attempts, SomeAccepted)
    BY <2>1, <2>4, FreedHonest DEF f
  <2> QED
    BY <2>3, <2>5, StaysThenStays, HandlerHonest
<1> QED
  BY <1>1, <1>2

-----------------------------------------------------------------------------
(* The actions.                                                            *)

(* gti2ReceiveMessages, of one datagram. *)
LEMMA ReceiveHonest ==
    ASSUME ConnInv, AcceptInv, NEW s \in Side, NEW d \in net, Receive(s, d)
    PROVE  AcceptInv'
<1>1. PICK rest \in {net \ {d}, net} :
         \/ ReceiveFromKnown(s, d, rest)
         \/ ReceiveNewConnection(s, d, rest)
         \/ ReceiveFromUnknown(s, d, rest)
  BY DEF Receive
<1>2. /\ d \in Datagram /\ rest \in SUBSET net
      /\ d.kind = "Reliable" => d.msg \in Said(Attempts, SomeAccepted)
  BY DEF ConnInv, TypeOK, AcceptInv, NetHonest
<1>3. CASE ReceiveFromKnown(s, d, rest)
  <2>1. PICK r \in ClosesInClosed : Commit(Handle(Context(table[s], r), d), rest)
    BY <1>3 DEF ReceiveFromKnown
  <2> DEFINE k == Context(table[s], r)
  <2>2. Honest(k, Attempts, SomeAccepted) /\ Newest(k)
    BY <1>3, TableHonest DEF ReceiveFromKnown
  <2>3. Commit(Handle(k, d), rest)
    BY <2>1
  <2> HIDE DEF k
  <2>4. Stays(k, Handle(k, d), Attempts, SomeAccepted)
    BY <1>2, <2>2, HandleHonest
  <2> QED
    BY <1>2, <2>2, <2>3, <2>4, HandlerHonest
<1>4. CASE ReceiveNewConnection(s, d, rest)
  <2> DEFINE o == NewObject("AwaitingClientChallenge")
             k == NewContext(s, Fresh(s), o)
  <2>1. s = "server" /\ UnusedOf(s) # {}
    BY <1>4 DEF ReceiveNewConnection
  <2>2. Commit(Handle(k, d), rest)
    BY <1>4 DEF ReceiveNewConnection, NewContext
  <2>3. Fresh(s) \in Of(s) /\ conn[Fresh(s)].life = "unused" /\ Fresh(s) \in ServerConn
    BY <2>1, FreshIsUnused DEF Of
  <2>4. "AwaitingClientChallenge" \in Connecting
    BY DEF Connecting
  <2>5. /\ o \in Object /\ o.life = "allocated" /\ o.state = "AwaitingClientChallenge"
        /\ o.connectedCb = << >>
    BY <2>4, NewObjectIs
  <2>6. o.out = << >> /\ o.hold = {} /\ o.accepted = FALSE
    BY DEF NewObject, Unused
  <2> HIDE DEF o
  <2>7. Honest(k, Attempts, SomeAccepted) /\ k.c = Fresh(s)
    <3>1. Silent(o)
      BY <2>5, <2>6 DEF Negotiated, Silent
    <3>2. k = NewContext(s, Fresh(s), o)
      OBVIOUS
    <3> HIDE DEF k
    <3> QED
      BY <2>3, <3>1, <3>2, NewHonest
  <2> HIDE DEF k
  <2>8. Newest(k)
    BY <2>3, <2>7, ConnAssumption DEF Newest
  <2>9. Stays(k, Handle(k, d), Attempts, SomeAccepted)
    BY <1>2, <2>7, HandleHonest
  <2> QED
    BY <1>2, <2>2, <2>8, <2>9, HandlerHonest
<1>5. CASE ReceiveFromUnknown(s, d, rest)
  <2>1. UNCHANGED <<conn, table>> /\ net' \subseteq net \cup {ClosedTo(Peer(s))}
    BY <1>5 DEF ReceiveFromUnknown
  <2>2. ClosedTo(Peer(s)).kind # "Reliable"
    BY DEF ClosedTo
  <2> QED
    BY <2>1, <2>2 DEF AcceptInv, NetHonest, ObjectsHonest, SuccessWasAccepted, InOrder,
                      Attempts, SomeAccepted
<1> QED
  BY <1>1, <1>3, <1>4, <1>5

(* The peer's host, or one on the way, reports the peer out of reach. *)
LEMMA ConnectionResetHonest ==
    ASSUME ConnInv, AcceptInv, NEW s \in Side, ConnectionReset(s)
    PROVE  AcceptInv'
<1>1. PICK r \in ClosesInClosed, result \in {"TimedOut", "Rejected"} :
         Commit(ConnectionError(Context(table[s], r), result, "RemoteClose"), net)
  BY DEF ConnectionReset
<1> DEFINE k == Context(table[s], r)
           q == ConnectionError(k, result, "RemoteClose")
<1>2. Honest(k, Attempts, SomeAccepted) /\ Newest(k)
  BY TableHonest DEF ConnectionReset
<1>3. result \in Results /\ "RemoteClose" \in Reasons /\ Commit(q, net)
  BY <1>1 DEF Results, Reasons
<1> HIDE DEF k
<1>4. Stays(k, q, Attempts, SomeAccepted)
  BY <1>2, <1>3, ConnectionErrorHonest
<1> HIDE DEF q
<1> QED
  BY <1>2, <1>3, <1>4, HandlerHonest

(* gti2CheckTimeout leaves what is to be sent again. *)
LEMMA CheckTimeoutHonest ==
    ASSUME NEW U, NEW a, NEW k, Honest(k, U, a), NEW expired
    PROVE  /\ Stays(k, CheckTimeout(k, expired), U, a)
           /\ CheckTimeout(k, expired).o.out = k.o.out
<1> DEFINE p == SendClosed(k)
           r == ConnectionClosed(p)
           q == ConnectedCallback(r, "TimedOut")
<1>1. CheckTimeout(k, expired) \in {k, q}
  BY DEF CheckTimeout
<1>2. Stays(k, k, U, a)
  BY DEF Stays
<1>3. Stays(k, p, U, a) /\ p.o = k.o
  BY SendClosedHonest
<1> HIDE DEF p
<1>4. Stays(p, r, U, a) /\ r.o.out = p.o.out
  BY <1>3, ConnectionClosedHonest DEF Stays
<1> HIDE DEF r
<1>5. "TimedOut" \in Results /\ "TimedOut" # "Success"
  BY DEF Results
<1>6. Stays(r, q, U, a) /\ q.o.out = r.o.out
  BY <1>4, <1>5, ConnectedCallbackHonest DEF Stays
<1> HIDE DEF q
<1> QED
  BY <1>1, <1>2, <1>3, <1>4, <1>6, StaysThenStays

(* The timers of a connection. *)
LEMMA ConnectionThinkHonest ==
    ASSUME ConnInv, AcceptInv, ConnInv', NEW s \in Side, NEW expired \in BOOLEAN,
           NEW ackDue \in BOOLEAN,
           NEW due \in SUBSET (IF table[s] = NoConn THEN {}
                              ELSE DOMAIN conn[table[s]].out),
           ConnectionThink(s, expired, due, ackDue)
    PROVE  AcceptInv'
<1> DEFINE k == Context(table[s], FALSE)
           t == CheckTimeout(k, expired)
           r == SendRetries(t, due)
           q == CheckPendingAck(r, ackDue)
<1>1. Commit(IF q.o.state = "Closed" THEN [q EXCEPT !.o = Freed(@)] ELSE q, net)
  BY DEF ConnectionThink
<1>2. table[s] # NoConn
  BY DEF ConnectionThink
<1>3. Honest(k, Attempts, SomeAccepted) /\ Newest(k) /\ k.o = conn[table[s]]
  BY <1>2, TableHonest
<1> HIDE DEF k
<1>4. Stays(k, t, Attempts, SomeAccepted) /\ t.o.out = k.o.out
  BY <1>3, CheckTimeoutHonest
<1> HIDE DEF t
<1>5. Stays(t, r, Attempts, SomeAccepted)
  <2>1. due \in SUBSET DOMAIN t.o.out /\ Honest(t, Attempts, SomeAccepted)
    BY <1>2, <1>3, <1>4 DEF Stays
  <2> QED
    BY <2>1, AgainHonest DEF SendRetries
<1> HIDE DEF r
<1>6. Stays(r, q, Attempts, SomeAccepted)
  BY <1>5, CheckPendingAckHonest DEF Stays
<1> HIDE DEF q
<1>7. Stays(k, q, Attempts, SomeAccepted)
  BY <1>4, <1>5, <1>6, StaysThenStays
<1> DEFINE free == q.o.state = "Closed"
<1>8. /\ free \in BOOLEAN
      /\ Commit(IF free THEN [q EXCEPT !.o = Freed(@)] ELSE q, net)
  BY <1>1
<1> HIDE DEF free
<1> QED
  BY <1>3, <1>7, <1>8, MayBeFreedHonest

(* gti2FreeClosedConnections. *)
LEMMA FreeClosedHonest ==
    ASSUME ConnInv, AcceptInv, NEW s \in Side, FreeClosedConnections(s)
    PROVE  AcceptInv'
<1> DEFINE listed == {c \in Of(s) : conn[c].listed > 0 /\ ~conn[c].freeAtAcceptReject}
           closed == {c \in listed : conn[c].state = "Closed"}
<1>1. /\ conn' = [c \in Conn |-> IF c \in closed THEN Freed(conn[c]) ELSE conn[c]]
      /\ table' = (IF listed = closed THEN table ELSE [table EXCEPT ![s] = NoConn])
      /\ net' = net
  BY DEF FreeClosedConnections
<1>2. \A c \in closed : c \in Conn /\ conn[c].listed > 0
  BY Sides
<1> HIDE DEF closed, listed
<1>3. \A c \in closed : conn[c].life # "unused" /\ conn[c] \in Object
  <2>1. ~(Unused.listed > 0)
    BY DEF Unused
  <2> QED
    BY <1>2, <2>1 DEF AcceptInv, ObjectsHonest, ConnInv, TypeOK
<1>4. ASSUME NEW c \in Conn
      PROVE  /\ conn'[c].state = conn[c].state /\ conn'[c].peer = conn[c].peer
             /\ conn'[c].accepted = conn[c].accepted
             /\ conn'[c].connectedCb = conn[c].connectedCb
             /\ conn'[c].life = "unused" <=> conn[c].life = "unused"
             /\ conn'[c].life = "unused" => conn'[c] = conn[c]
             /\ conn'[c].out \in {conn[c].out, << >>} /\ conn'[c].hold \subseteq conn[c].hold
  BY <1>1, <1>3 DEF Freed, Object
<1>5. Conn = ClientConn \cup ServerConn
  BY DEF Conn
<1>6. Attempts' = Attempts
  BY <1>4, <1>5 DEF Attempts
<1>7. SomeAccepted' = SomeAccepted
  BY <1>4, <1>5, <1>6 DEF SomeAccepted
<1>8. NetHonest' /\ SuccessWasAccepted'
  BY <1>1, <1>4, <1>5, <1>6, <1>7 DEF AcceptInv, NetHonest, SuccessWasAccepted
<1>9. ObjectsHonest'
  <2>1. << >> \in Seq(Said(Attempts, SomeAccepted))
    OBVIOUS
  <2>2. ASSUME NEW c \in Conn
        PROVE  /\ conn'[c].out \in Seq(Said(Attempts, SomeAccepted))
               /\ conn'[c].hold \subseteq Said(Attempts, SomeAccepted)
               /\ Met(conn'[c], Attempts)
               /\ conn'[c].life = "unused" => conn'[c] = Unused
    BY <1>4, <2>1 DEF AcceptInv, ObjectsHonest, Met
  <2> QED
    BY <1>6, <1>7, <2>2 DEF ObjectsHonest, Met, Unused
<1>10. InOrder'
  <2>1. table'["client"] \in {table["client"], NoConn}
    BY <1>1 DEF ConnInv, TypeOK, Side
  <2> QED
    BY <1>6, <2>1 DEF AcceptInv, InOrder
<1> QED
  BY <1>8, <1>9, <1>10 DEF AcceptInv

(* gt2Connect makes an attempt after all others. *)
LEMMA ConnectHonest ==
    ASSUME ConnInv, AcceptInv, Connect
    PROVE  AcceptInv'
<1> DEFINE c == Fresh("client")
           n == NewObject("AwaitingServerChallenge")
           U == Attempts \cup {c}
<1>1. PICK big \in TooLarge :
        LET k == NewContext("client", c, [n EXCEPT !.callbacks = TRUE, !.tooLarge = big])
        IN  Commit(SendReliable(k, "ClientChallenge", NoConn, c), net)
  BY DEF Connect, NewContext
<1> DEFINE o == [n EXCEPT !.callbacks = TRUE, !.tooLarge = big]
           k == NewContext("client", c, o)
           q == SendReliable(k, "ClientChallenge", NoConn, c)
<1>2. /\ "client" \in Side /\ c \in Of("client") /\ conn[c].life = "unused"
      /\ c \in ClientConn /\ c \in Conn
  BY FreshIsUnused DEF Connect, Side, Of, Conn
<1>3. \A b \in ClientConn \ U : c < b
  <2>1. UnusedOf("client") \subseteq Nat /\ UnusedOf("client") # {}
    BY ConnAssumption DEF Connect, UnusedOf, Of, Conn
  <2>2. \A b \in UnusedOf("client") : c <= b
    BY <2>1, LeastInSet DEF Fresh
  <2>3. \A b \in ClientConn \ U : b \in UnusedOf("client") /\ b # c
    BY DEF Attempts, UnusedOf, Of
  <2> QED
    BY <1>2, <2>2, <2>3, ConnAssumption DEF Conn
<1>4. \A b \in Attempts : b < c
  BY <1>2 DEF AcceptInv, InOrder, Attempts
<1>5. big \in BOOLEAN
  BY ConnAssumption
<1>6. /\ n \in Object /\ n.life = "allocated" /\ n.state = "AwaitingServerChallenge"
      /\ n.connectedCb = << >>
  BY NewObjectIs DEF Connecting
<1>7. n.out = << >> /\ n.hold = {} /\ n.accepted = FALSE
  BY DEF NewObject, Unused
<1> HIDE DEF c, n
<1>8. /\ o \in Object /\ o.life = "allocated" /\ o.state = "AwaitingServerChallenge"
      /\ o.connectedCb = << >> /\ o.out = << >> /\ o.hold = {} /\ o.accepted = FALSE
  BY <1>5, <1>6, <1>7 DEF Object
<1>9. Commit(q, net)
  BY <1>1
<1> HIDE DEF o
<1>10. /\ Honest(k, U, SomeAccepted) /\ k.c = c /\ k.table = c
  <2>1. Silent(o)
    BY <1>8 DEF Negotiated, Silent
  <2> HIDE DEF U, k
  <2>2. k = NewContext("client", c, o)
    BY DEF k
  <2> QED
    BY <1>2, <2>1, <2>2, NewHonest
<1> HIDE DEF k
<1>11. Stays(k, q, U, SomeAccepted)
  <2>1. /\ "ClientChallenge" \in Type /\ c \in Conn \cup {NoConn} /\ c \in U
        /\ NoConn \in Conn \cup {NoConn}
        /\ ("ClientChallenge" = "Accept" => SomeAccepted)
    BY <1>2 DEF Type
  <2> HIDE DEF U
  <2> QED
    BY <1>10, <2>1, SendReliableHonest
<1> HIDE DEF q
<1>12. Newest(k)
  BY <1>2, <1>3, <1>4, <1>10, ConnAssumption DEF Newest, Attempts, Conn
<1>13. Honest(q, U, SomeAccepted) /\ Newest(q) /\ q.c = c
  BY <1>10, <1>11, <1>12, StaysNewest DEF Stays
<1> QED
  BY <1>2, <1>9, <1>13, CommitHonest

(* The application's answer, and its close, say nothing themselves. *)
LEMMA AppHonest ==
    ASSUME NEW U, NEW a, NEW k, Honest(k, U, a)
    PROVE  /\ Stays(k, Answered(k), U, a) /\ Stays(k, AppCloses(k), U, a)
           /\ Answered(k).o.state = k.o.state
<1> DEFINE p == Answered(k)
           q == AppCloses(k)
<1>1. /\ p \in Ctx /\ p.c = k.c /\ p.table = k.table /\ p.sent = k.sent
      /\ p.o.out = k.o.out /\ p.o.hold = k.o.hold /\ p.o.state = k.o.state
      /\ p.o.peer = k.o.peer /\ p.o.accepted = k.o.accepted
      /\ p.o.connectedCb = k.o.connectedCb /\ p.o.life = k.o.life
  BY DEF Answered, Honest, Ctx, Object
<1>2. /\ q \in Ctx /\ q.c = k.c /\ q.table = k.table /\ q.sent = k.sent
      /\ q.o.out = k.o.out /\ q.o.hold = k.o.hold /\ q.o.state = k.o.state
      /\ q.o.peer = k.o.peer /\ q.o.accepted = k.o.accepted
      /\ q.o.connectedCb = k.o.connectedCb /\ q.o.life = k.o.life
  BY DEF AppCloses, Honest, Ctx, Object
<1> HIDE DEF p, q
<1>3. Stays(k, p, U, a) /\ Stays(k, q, U, a)
  BY <1>1, <1>2 DEF Honest, Met, Stays
<1> QED
  BY <1>1, <1>3 DEF p, q

(* An Accept may be said once there is an acceptance. *)
LEMMA AcceptSaid ==
    ASSUME NEW U, NEW a, NEW k, Honest(k, U, a), a
    PROVE  LET p == SendReliable(k, "Accept", NoConn, NoConn)
           IN  Stays(k, p, U, a) /\ p.o.peer = k.o.peer
<1>1. [sn |-> k.o.sn, type |-> "Accept", resp |-> NoConn, nonce |-> NoConn] \in Said(U, a)
  BY DEF Said, Message, Type, Honest, Ctx, Object
<1> QED
  BY ONLY Honest(k, U, a), <1>1, SendSaid

(* gt2Accept makes the acceptance that an Accept tells of. *)
LEMMA AcceptHonest ==
    ASSUME ConnInv, AcceptInv, NEW c \in ServerConn, Accept(c)
    PROVE  AcceptInv'
<1> DEFINE b == Context(c, FALSE)
           k == Answered(b)
           p == SendReliable(k, "Accept", NoConn, NoConn)
           r == SetState(p, "Connected")
           q == [r EXCEPT !.o.callbacks = TRUE, !.o.accepted = TRUE]
<1>1. \/ Commit(k, net)
      \/ conn[c].state = "AwaitingAcceptReject" /\ Commit(q, net)
  BY DEF Accept, Answered
<1>2. c \in Conn /\ conn[c].life # "unused"
  BY DEF Accept, ConnInv, ObjectsOK, Answerable, Conn
<1>3. Honest(b, Attempts, SomeAccepted) /\ Newest(b) /\ b.c = c /\ b.o = conn[c]
  BY <1>2, ContextHonest
<1> HIDE DEF b
<1>4. Stays(b, k, Attempts, SomeAccepted) /\ k.o.state = conn[c].state
  BY <1>3, AppHonest
<1> HIDE DEF k
<1>5. CASE Commit(k, net)
  BY <1>3, <1>4, <1>5, HandlerHonest
<1>6. CASE conn[c].state = "AwaitingAcceptReject" /\ Commit(q, net)
  <2>0. PICK yes \in BOOLEAN : yes
    OBVIOUS
  <2>1. /\ Honest(k, Attempts, SomeAccepted) /\ Newest(k) /\ k.c = c
        /\ k.o.state = "AwaitingAcceptReject"
    BY <1>3, <1>4, <1>6, StaysNewest DEF Stays
  <2>2. Honest(k, Attempts, yes)
    <3>1. /\ Said(Attempts, SomeAccepted) \subseteq Said(Attempts, yes)
          /\ Seq(Said(Attempts, SomeAccepted)) \subseteq Seq(Said(Attempts, yes))
      BY <2>0, SaidGrows
    <3> QED
      BY <2>0, <2>1, <3>1 DEF Honest
  <2>3. Stays(k, p, Attempts, yes) /\ p.o.peer = k.o.peer
    BY <2>0, <2>2, AcceptSaid
  <2> HIDE DEF p
  <2>4. p.o.peer \in Attempts
    BY <2>1, <2>3 DEF Honest, Met, Negotiated
  <2>5. Honest(p, Attempts, yes) /\ p.c = c /\ Newest(p)
    BY <2>1, <2>3, StaysNewest DEF Stays
  <2>6. /\ q \in Ctx /\ q.c = p.c /\ q.table = p.table /\ q.sent = p.sent
        /\ q.o.out = p.o.out /\ q.o.hold = p.o.hold /\ q.o.state = "Connected"
        /\ q.o.peer = p.o.peer /\ q.o.accepted = TRUE
        /\ q.o.connectedCb = p.o.connectedCb /\ q.o.life = p.o.life
    BY <2>5 DEF SetState, Honest, Ctx, Object, State
  <2> HIDE DEF q
  <2>7. Stays(p, q, Attempts, yes)
    BY <2>4, <2>5, <2>6 DEF Honest, Met, Negotiated, Stays
  <2>8. Honest(q, Attempts, yes) /\ Newest(q)
    BY <2>5, <2>7, StaysNewest
  <2> QED
    BY <1>6, <2>4, <2>5, <2>6, <2>8, CommitHonest
<1> QED
  BY <1>1, <1>5, <1>6

(* gt2Reject. *)
LEMMA RejectHonest ==
    ASSUME ConnInv, AcceptInv, NEW c \in ServerConn, Reject(c)
    PROVE  AcceptInv'
<1> DEFINE b == Context(c, FALSE)
           k == Answered(b)
<1>1. PICK big \in TooLarge :
        \/ Commit(k, net)
        \/ Commit(SetState(SendWithMessage(k, "Reject", NoConn, big), "Closing"), net)
  BY DEF Reject, Answered
<1> DEFINE p == SendWithMessage(k, "Reject", NoConn, big)
           q == SetState(p, "Closing")
<1>2. c \in Conn /\ conn[c].life # "unused"
  BY DEF Reject, ConnInv, ObjectsOK, Answerable, Conn
<1>3. Honest(b, Attempts, SomeAccepted) /\ Newest(b)
  BY <1>2, ContextHonest
<1>4. Commit(k, net) \/ Commit(q, net)
  BY <1>1
<1> HIDE DEF b
<1>5. Stays(b, k, Attempts, SomeAccepted)
  BY <1>3, AppHonest
<1> HIDE DEF k
<1>6. Stays(k, p, Attempts, SomeAccepted)
  <2>1. "Reject" \in Type \ {"ClientChallenge", "Accept"} /\ NoConn \in Conn \cup {NoConn}
    BY DEF Type
  <2> QED
    BY <1>5, <2>1, SendWithMessageHonest DEF Stays
<1> HIDE DEF p
<1>7. Stays(p, q, Attempts, SomeAccepted)
  <2>1. "Closing" \in State /\ "Closing" \notin Negotiated /\ "Closing" # "AwaitingClientChallenge"
    BY DEF State, Negotiated
  <2> QED
    BY <1>6, <2>1, SetStateHonest DEF Stays
<1> HIDE DEF q
<1>8. Stays(b, q, Attempts, SomeAccepted)
  BY <1>5, <1>6, <1>7, StaysThenStays
<1> QED
  BY <1>3, <1>4, <1>5, <1>8, HandlerHonest

(* gt2CloseConnection. *)
LEMMA CloseConnectionHonest ==
    ASSUME ConnInv, AcceptInv, NEW s \in Side, CloseConnection(s)
    PROVE  AcceptInv'
<1> DEFINE b == Context(table[s], FALSE)
           k == AppCloses(b)
           q == CloseSoft(k)
<1>1. table[s] # NoConn /\ Commit(q, net)
  BY DEF CloseConnection, AppCloses
<1>2. Honest(b, Attempts, SomeAccepted) /\ Newest(b)
  BY <1>1, TableHonest
<1> HIDE DEF b
<1>3. Stays(b, k, Attempts, SomeAccepted)
  BY <1>2, AppHonest
<1> HIDE DEF k
<1>4. Stays(k, q, Attempts, SomeAccepted)
  BY <1>3, CloseSoftHonest DEF Stays
<1> HIDE DEF q
<1>5. Stays(b, q, Attempts, SomeAccepted)
  BY <1>3, <1>4, StaysThenStays
<1> QED
  BY <1>1, <1>2, <1>5, HandlerHonest

(* gt2CloseConnectionHard, whatever the closed callback does. *)
LEMMA CloseConnectionHardHonest ==
    ASSUME ConnInv, AcceptInv, ConnInv', NEW s \in Side, CloseConnectionHard(s)
    PROVE  AcceptInv'
<1>1. PICK r \in ClosesInClosed :
        LET open   == AppCloses(Context(table[s], r))
            closed == ClosedCallback(SendClosed(ConnectionClosed(open)), "LocalClose")
        IN  Commit(IF closed.o.state = "Closed" /\ ~closed.o.freeAtAcceptReject
                   THEN [closed EXCEPT !.o = Freed(@)]
                   ELSE closed, net)
  BY DEF CloseConnectionHard, AppCloses
<1> DEFINE b      == Context(table[s], r)
           open   == AppCloses(b)
           p      == ConnectionClosed(open)
           sent   == SendClosed(p)
           closed == ClosedCallback(sent, "LocalClose")
           free   == closed.o.state = "Closed" /\ ~closed.o.freeAtAcceptReject
<1>2. Commit(IF free THEN [closed EXCEPT !.o = Freed(@)] ELSE closed, net)
  BY <1>1
<1>3. Honest(b, Attempts, SomeAccepted) /\ Newest(b)
  BY TableHonest DEF CloseConnectionHard
<1> HIDE DEF b
<1>4. Stays(b, open, Attempts, SomeAccepted)
  BY <1>3, AppHonest
<1> HIDE DEF open
<1>5. Stays(open, p, Attempts, SomeAccepted)
  BY <1>4, ConnectionClosedHonest DEF Stays
<1> HIDE DEF p
<1>6. Stays(p, sent, Attempts, SomeAccepted)
  BY <1>5, SendClosedHonest DEF Stays
<1> HIDE DEF sent
<1>7. Stays(sent, closed, Attempts, SomeAccepted)
  <2>1. "LocalClose" \in Reasons
    BY DEF Reasons
  <2> QED
    BY <1>6, <2>1, ClosedCallbackHonest DEF Stays
<1> HIDE DEF closed
<1>8. Stays(b, closed, Attempts, SomeAccepted)
  BY <1>4, <1>5, <1>6, <1>7, StaysThenStays
<1>9. free \in BOOLEAN
  OBVIOUS
<1> HIDE DEF free
<1> QED
  BY <1>2, <1>3, <1>8, <1>9, MayBeFreedHonest

(* Listening ends, or a datagram is lost. *)
LEMMA OthersHonest ==
    ASSUME AcceptInv, StopListening \/ (\E d \in net : Lose(d)) \/ UNCHANGED vars
    PROVE  AcceptInv'
<1>1. UNCHANGED <<conn, table>> /\ net' \subseteq net
  BY DEF StopListening, Lose, vars
<1> QED
  BY <1>1 DEF AcceptInv, NetHonest, ObjectsHonest, SuccessWasAccepted, InOrder,
              Attempts, SomeAccepted

(* Before any attempt, nothing was said. *)
LEMMA InitIsHonest == Init => AcceptInv
<1> SUFFICES ASSUME Init PROVE AcceptInv
  OBVIOUS
<1>1. /\ Unused.life = "unused" /\ Unused.out = << >> /\ Unused.hold = {}
      /\ Unused.state = "Closed" /\ ~Unused.accepted /\ Unused.connectedCb = << >>
  BY DEF Unused
<1>2. (\A c \in Conn : conn[c] = Unused) /\ net = {} /\ table["client"] = NoConn
  BY DEF Init, Side
<1>3. << >> \in Seq(Said(Attempts, SomeAccepted)) /\ << >> # <<"Success">>
  OBVIOUS
<1>4. Attempts = {}
  BY <1>1, <1>2 DEF Attempts, Conn
<1>5. ObjectsHonest
  BY <1>1, <1>2, <1>3 DEF ObjectsHonest, Met, Negotiated
<1> QED
  BY <1>1, <1>2, <1>3, <1>4, <1>5 DEF AcceptInv, NetHonest, SuccessWasAccepted, InOrder, Conn

(* Every step keeps the invariant of the acceptances. *)
LEMMA NextHonest ==
    ASSUME ConnInv, ConnInv', AcceptInv, [Next]_vars
    PROVE  AcceptInv'
<1>1. CASE Connect
  BY <1>1, ConnectHonest
<1>2. ASSUME NEW c \in ServerConn, Accept(c) \/ Reject(c)
      PROVE  AcceptInv'
  BY <1>2, AcceptHonest, RejectHonest
<1>3. ASSUME NEW s \in Side, CloseConnection(s) \/ CloseConnectionHard(s)
      PROVE  AcceptInv'
  BY <1>3, CloseConnectionHonest, CloseConnectionHardHonest
<1>4. ASSUME NEW s \in Side, Think(s)
      PROVE  AcceptInv'
  BY <1>4, ReceiveHonest, ConnectionThinkHonest, FreeClosedHonest DEF Think
<1>5. ASSUME NEW s \in Side, ConnectionReset(s)
      PROVE  AcceptInv'
  BY <1>5, ConnectionResetHonest
<1>6. CASE StopListening \/ (\E d \in net : Lose(d)) \/ UNCHANGED vars
  BY <1>6, OthersHonest
<1> QED
  BY <1>1, <1>2, <1>3, <1>4, <1>5, <1>6 DEF Next, App

(* What is said, in flight or in a buffer, was meant by an attempt or an
   acceptance that was made (gti2SendAccept, gti2SendClientChallenge). *)
THEOREM AcceptInvHolds == Spec => []AcceptInv
<1>1. ConnInv /\ ConnInv' /\ AcceptInv /\ [Next]_vars => AcceptInv'
  BY NextHonest
<1> QED
  BY <1>1, ConnInvHolds, InitIsHonest, PTL DEF Spec

(* A connect attempt succeeds only if the listener accepted an attempt of this
   client, this one or one before it (gt2ConnectedCallback, gt2Accept). *)
THEOREM SuccessWasAcceptedHolds == Spec => []SuccessWasAccepted
<1>1. AcceptInv => SuccessWasAccepted
  BY DEF AcceptInv
<1> QED
  BY <1>1, AcceptInvHolds, PTL

(* While the client makes one attempt, that attempt is the one accepted; with
   a second one, run gt2_stale_accept shows that it may be the first. *)
THEOREM ConnectedIsAcceptedHolds ==
    ASSUME \A c, d \in ClientConn : c = d
    PROVE  Spec => []ConnectedIsAccepted
<1>1. AcceptInv => ConnectedIsAccepted
  BY DEF AcceptInv, SuccessWasAccepted, ConnectedIsAccepted, Attempts
<1> QED
  BY <1>1, AcceptInvHolds, PTL
=============================================================================
