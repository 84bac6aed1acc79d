------------------------------- MODULE NatNeg -------------------------------
(***************************************************************************)
(* NAT negotiation (natneg/natneg.c): two clients ask a matchup server for *)
(* each other's address, ping one another through their NATs until each    *)
(* knows that the other hears it, and report the result.                   *)
(*                                                                         *)
(* One negotiation of two clients, that is one cookie: negotiators of      *)
(* other cookies share nothing with it but the array they are kept in.     *)
(* The clients are separate processes.  A ping in flight may be delayed,   *)
(* lost (never received) or overtaken; a timer is "due" once retryTime has *)
(* passed.  The server's datagrams are delayed, lost, overtaken and        *)
(* repeated: a client may receive any that the server may have sent it.    *)
(*                                                                         *)
(* An operator stands for the function of the same name: it takes the      *)
(* client's context s before the call to the context after it.  s holds    *)
(* the fields of the negotiator, what was sent (s.out), and a history: the *)
(* results the application was given, the address it was given, whom each  *)
(* address was heard by, and whether the library closed its socket.        *)
(***************************************************************************)
EXTENDS Integers, Sequences, FiniteSets

CONSTANTS
    Clients,        \* the two clients
    GameSock,       \* those that negotiate with a socket of the game
    NNPorts,        \* the port types of INIT other than that of the game socket
    InitRetries,    \* INIT_RETRY_COUNT
    PingRetries,    \* PING_RETRY_COUNT
    ReportRetries   \* REPORT_RETRY_COUNT

GP == "gp"
ASSUME NatNegAssumption ==
    /\ IsFiniteSet(Clients) /\ Cardinality(Clients) = 2 /\ GameSock \subseteq Clients
    /\ GP \notin NNPorts /\ IsFiniteSet(NNPorts)
    /\ {InitRetries, PingRetries, ReportRetries} \subseteq Nat

VARIABLES
    client,     \* the state of each client's process
    pings,      \* the pings in flight between the clients
    toServer    \* what the clients have sent to the matchup server

vars == <<client, pings, toServer>>

Peer(c) == CHOOSE p \in Clients : p # c
Ports(c) == NNPorts \cup (IF c \in GameSock THEN {GP} ELSE {})

\* The address of a client's two sockets, and of the one it pings from.
GameAddr(c) == <<c, "game">>
NegAddr(c) == <<c, "negotiate">>
PingAddr(c) == IF c \in GameSock THEN GameAddr(c) ELSE NegAddr(c)
NoAddr == <<"", "">>

\* The states in the order of the enumeration, by which the code compares
\* them; "none" and "removed" are those of no negotiator.
NegotiateState == <<"initsent", "initack", "connectping", "finished",
                    "canceled", "reportsent", "reportack">>
BeforeConnectPing(st) == st \in {NegotiateState[i] : i \in 1..2}

InitMsg(a) == [type |-> "INIT", from |-> a]
Report(a) == [type |-> "REPORT", from |-> a]
InitAck(to, port) == [type |-> "INITACK", to |-> to, port |-> port]
Connect(to, remote, finished) ==
    [type |-> "CONNECT", to |-> to, remote |-> remote, finished |-> finished]
Ping(to, from, got) ==
    [type |-> "PING", to |-> to, from |-> from, gotyourdata |-> got]
ReportAck(to) == [type |-> "REPORT_ACK", to |-> to]
NoDatagram == [type |-> "none"]

-----------------------------------------------------------------------------
(* Sending.                                                                *)

SendInitPackets(c, s) ==
    [s EXCEPT !.out = @ \cup {InitMsg(c)},
              !.state = "initsent", !.due = FALSE, !.maxRetryCount = InitRetries]

SendPingPacket(c, s) ==
    [s EXCEPT !.out = @ \cup (IF c \in GameSock \/ s.open
                              THEN {Ping(s.guessed, PingAddr(c), s.gotRemoteData)}
                              ELSE {}),
              !.due = FALSE, !.maxRetryCount = PingRetries]

SendReportPacket(c, s) == [s EXCEPT !.out = @ \cup {Report(c)}]

-----------------------------------------------------------------------------
(* Ending.                                                                 *)

NNCancel(s) ==
    IF s.state \in {"none", "removed"} THEN s
    ELSE [s EXCEPT !.state = "canceled", !.open = FALSE, !.closed = @ \/ s.open]

CompletedCallback(s, result, remote) ==
    [s EXCEPT !.results = Append(@, result), !.remote = remote]

StartReport(c, s, result, remote) ==
    IF result \in {"inittimeout", "deadbeatpartner"}
    THEN NNCancel(CompletedCallback([s EXCEPT !.state = "finished"], result, remote))
    ELSE CompletedCallback([SendReportPacket(c, s) EXCEPT
                              !.state = "reportsent", !.due = FALSE,
                              !.retryCount = 0, !.maxRetryCount = ReportRetries],
                           result, remote)

\* A mutant: the socket that was handed over is closed like any other.
RemoveAndClose(c, s) == NNCancel(s)

\* Without a game socket the negotiation's own is the application's now.
RemoveFinishedNegotiator(c, s) ==
    NNCancel(IF c \in GameSock THEN s ELSE [s EXCEPT !.open = FALSE])

-----------------------------------------------------------------------------
(* Datagrams.                                                              *)

ProcessConnectPacket(c, s, m) ==
    CASE ~BeforeConnectPing(s.state) -> s
      [] BeforeConnectPing(s.state) /\ m.finished # "noerror" ->
           StartReport(c, s, m.finished, NoAddr)
      [] OTHER ->
           SendPingPacket(c, [s EXCEPT !.guessed = m.remote, !.retryCount = 0,
                                       !.state = "connectping"])

\* Mutants: a ping completes a negotiation in any state it is processed in;
\* after a cancel; without word that the partner hears us.
PingCompletesAgain(c, s, m) ==
    LET pinged == SendPingPacket(c, [s EXCEPT !.guessed = m.from, !.gotRemoteData = TRUE])
    IN  CASE BeforeConnectPing(s.state) -> s
          [] m.gotyourdata -> StartReport(c, pinged, "success", m.from)
          [] OTHER -> pinged
PingCompletesCanceled(c, s, m) ==
    LET pinged == SendPingPacket(c, [s EXCEPT !.guessed = m.from, !.gotRemoteData = TRUE])
    IN  CASE BeforeConnectPing(s.state) -> s
          [] s.state # "reportsent" /\ m.gotyourdata ->
               StartReport(c, pinged, "success", m.from)
          [] OTHER -> pinged
PingCompletesOneWay(c, s, m) ==
    LET pinged == SendPingPacket(c, [s EXCEPT !.guessed = m.from, !.gotRemoteData = TRUE])
    IN  CASE BeforeConnectPing(s.state) -> s
          [] s.state = "connectping" -> StartReport(c, pinged, "success", m.from)
          [] OTHER -> pinged

ProcessPingPacket(c, s, m) ==
    LET pinged == SendPingPacket(c, [s EXCEPT !.guessed = m.from,
                                              !.gotRemoteData = TRUE,
                                              !.sendGotRemoteData = m.gotyourdata])
    IN  CASE BeforeConnectPing(s.state) -> s
          [] s.state = "connectping" /\ m.gotyourdata ->
               StartReport(c, pinged, "success", m.from)
          [] OTHER -> pinged

ProcessInitAck(c, s, m) ==
    LET acks == s.initAckRecv \cup {m.port}
        acked == [s EXCEPT !.initAckRecv = acks]
    IN  IF s.state = "initsent" /\ Ports(c) \subseteq acks
        THEN [acked EXCEPT !.state = "initack", !.due = FALSE] ELSE acked

\* heard is the history of the pings the client was given: <<at, from>>.
NNProcessData(c, s, m) ==
    IF s.state \in {"none", "removed"} THEN s
    ELSE CASE m.type = "CONNECT" -> ProcessConnectPacket(c, s, m)
           [] m.type = "PING" ->
                ProcessPingPacket(c, [s EXCEPT !.heard = @ \cup {<<m.to, m.from>>}], m)
           [] m.type = "INITACK" -> ProcessInitAck(c, s, m)
           [] m.type = "REPORT_ACK" -> [s EXCEPT !.state = "reportack"]

-----------------------------------------------------------------------------
(* What NegotiateThink does after it has drained the socket: the timers,   *)
(* then the end of a finished negotiator, then its removal.                *)

Retry(s) == [s EXCEPT !.retryCount = @ + 1]

\* Mutants: pings are sent again without a limit; nobody gives up a partner.
TimersPingForever(c, s) ==
    CASE ~s.due -> s
      [] s.due /\ s.state \in {"connectping"} -> SendPingPacket(c, Retry(s))
      [] OTHER -> NNCancel(s)
TimersWaitForPartner(c, s) ==
    CASE ~s.due -> s
      [] s.due /\ s.state = "initack" -> s
      [] OTHER -> NNCancel(CompletedCallback(s, "inittimeout", NoAddr))

Timers(c, s) ==
    LET last == s.retryCount > s.maxRetryCount
    IN  CASE ~s.due -> s
          [] s.due /\ s.state = "initsent" ->
               IF last THEN StartReport(c, s, "inittimeout", NoAddr)
               ELSE SendInitPackets(c, Retry(s))
          [] s.due /\ s.state = "initack" ->
               StartReport(c, s, "deadbeatpartner", NoAddr)
          [] s.due /\ s.state = "connectping" ->
               IF last THEN StartReport(c, s, "pingtimeout", NoAddr)
               ELSE SendPingPacket(c, Retry(s))
          [] s.due /\ s.state = "reportsent" ->
               IF last THEN [s EXCEPT !.state = "finished"]
               ELSE [SendReportPacket(c, Retry(s)) EXCEPT !.due = FALSE]
          [] OTHER -> s

Finish(c, s) ==
    IF s.state \in {"finished", "reportack"} THEN RemoveFinishedNegotiator(c, s) ELSE s

RemoveNegotiator(s) ==
    [s EXCEPT !.state = "removed", !.open = FALSE, !.due = FALSE,
              !.initAckRecv = {}, !.retryCount = 0, !.maxRetryCount = 0,
              !.guessed = NoAddr, !.gotRemoteData = FALSE,
              !.sendGotRemoteData = FALSE]

RemoveCanceled(s) == IF s.state = "canceled" THEN RemoveNegotiator(s) ELSE s

\* The negotiator's turn in NNThink, when its socket has datagram m or none.
\* A turn that drains several stands as several turns.
NegotiateThink(c, s, m) ==
    LET read == IF m = NoDatagram THEN s ELSE NNProcessData(c, s, m)
    IN  IF s.state = "canceled" THEN RemoveNegotiator(s)
        ELSE RemoveCanceled(Finish(c, Timers(c, read)))

-----------------------------------------------------------------------------
(* The matchup server, modelled from the datagrams natneg.c exchanges      *)
(* with it: it acknowledges INITs and reports, and tells two clients that  *)
(* have registered each other's address, or one that it cannot.  Datagrams *)
(* to it may be lost too, so it may fail a client whose partner has begun. *)

FromServer(c) ==
    IF InitMsg(c) \notin toServer THEN {}
    ELSE {InitAck(IF p = GP THEN GameAddr(c) ELSE NegAddr(c), p) : p \in Ports(c)}
         \cup {Connect(NegAddr(c), NoAddr, e) : e \in {"deadbeatpartner", "unknownerror"}}
         \cup {Connect(NegAddr(c), PingAddr(p), "noerror") :
                 p \in {q \in Clients \ {c} : InitMsg(q) \in toServer}}
         \cup {ReportAck(NegAddr(c)) : m \in {x \in toServer : x = Report(c)}}

-----------------------------------------------------------------------------
(* The processes.                                                          *)

Init ==
    /\ client = [c \in Clients |->
                   [state |-> "none", open |-> FALSE, due |-> FALSE,
                    initAckRecv |-> {}, retryCount |-> 0, maxRetryCount |-> 0,
                    guessed |-> NoAddr, gotRemoteData |-> FALSE,
                    sendGotRemoteData |-> FALSE,
                    out |-> {}, results |-> <<>>, remote |-> NoAddr,
                    heard |-> {}, closed |-> FALSE, cancelled |-> FALSE]]
    /\ pings = {} /\ toServer = {}

\* A socket that somebody reads; what is sent to any other is dropped, and
\* so is, by NNProcessData, what comes once the negotiator is removed.
Reads(cl, a) ==
    \E c \in Clients :
        \/ a = GameAddr(c) /\ c \in GameSock /\ cl[c].state # "removed"
        \/ a = NegAddr(c) /\ cl[c].open

\* The process of c goes on in context s; the datagrams used are consumed.
Continue(c, s, used) ==
    LET cl == [client EXCEPT ![c] = [s EXCEPT !.out = {}]]
        sentPings == {m \in s.out : m.type = "PING"}
    IN  /\ client' = cl
        /\ pings' = {m \in (pings \ used) \cup sentPings : Reads(cl, m.to)}
        /\ toServer' = toServer \cup (s.out \ sentPings)

NNBeginNegotiation(c) ==
    /\ client[c].state = "none"
    /\ Continue(c, SendInitPackets(c, [client[c] EXCEPT !.open = TRUE]), {})

\* The application cancels the negotiation it waits for.
Cancel(c) ==
    /\ client[c].state # "none" /\ client[c].results = <<>> /\ ~client[c].cancelled
    /\ Continue(c, [NNCancel(client[c]) EXCEPT !.cancelled = TRUE], {})

\* What there is to read at address a.
At(c, a) == {m \in pings \cup FromServer(c) : m.to = a}

\* The game reads its own socket and passes what is NAT negotiation's on.
GameReceive(c) ==
    /\ client[c].state \notin {"none", "removed"}
    /\ \E m \in At(c, GameAddr(c)) : Continue(c, NNProcessData(c, client[c], m), {m})

NNThink(c, m) ==
    /\ client[c].state \notin {"none", "removed"}
    /\ \E s \in {NegotiateThink(c, client[c], m)} : Continue(c, s, {m})

\* retryTime passes.
Expire(c) ==
    /\ ~client[c].due
    /\ client[c].state \in {"initsent", "initack", "connectping", "reportsent"}
    /\ client' = [client EXCEPT ![c].due = TRUE]
    /\ UNCHANGED <<pings, toServer>>

Next ==
    \E c \in Clients :
        \/ NNBeginNegotiation(c) \/ Cancel(c) \/ GameReceive(c) \/ Expire(c)
        \/ \E m \in At(c, NegAddr(c)) \cup {NoDatagram} : NNThink(c, m)

Spec == Init /\ [][Next]_vars

\* An application that has begun calls NNThink again and again, time passes,
\* and the datagrams of a negotiation do not keep its socket full for ever.
Fairness == \A c \in Clients : WF_vars(NNThink(c, NoDatagram)) /\ WF_vars(Expire(c))
FairSpec == Spec /\ Fairness

-----------------------------------------------------------------------------
(* Properties.                                                             *)

Address == {GameAddr(c) : c \in Clients} \cup {NegAddr(c) : c \in Clients} \cup {NoAddr}
Result == {"success", "inittimeout", "deadbeatpartner", "pingtimeout", "unknownerror"}
MaxRetries == {0, InitRetries, PingRetries, ReportRetries}

\* A client's context.
Context(c) ==
    [state : {NegotiateState[i] : i \in 1..7} \cup {"none", "removed"},
     open : BOOLEAN, due : BOOLEAN, initAckRecv : SUBSET Ports(c),
     retryCount : UNION {0..(r + 1) : r \in MaxRetries}, maxRetryCount : MaxRetries,
     guessed : Address, gotRemoteData : BOOLEAN, sendGotRemoteData : BOOLEAN,
     out : {{}}, results : Seq(Result), remote : Address,
     heard : SUBSET (Address \X Address), closed : BOOLEAN, cancelled : BOOLEAN]

\* Every negotiator has the values its structure may take; in particular no
\* retry counter passes the limit of any of the phases by more than one.
TypeOK ==
    /\ \A c \in Clients : client[c] \in Context(c)
    /\ pings \subseteq {Ping(to, from, got) : to \in Address, from \in Address,
                                              got \in BOOLEAN}
    /\ toServer \subseteq {InitMsg(c) : c \in Clients} \cup {Report(c) : c \in Clients}

\* The completed callback is called once for a negotiation, although pings,
\* timers and answers of the server go on arriving after it.
AnsweredOnce == \A c \in Clients : Len(client[c].results) <= 1

Succeeded(c) == client[c].results = <<"success">>

\* When a client is told of success, pings have passed both ways between the
\* address it pings from and the address it is given.
SuccessIsMutual ==
    \A c \in Clients : Succeeded(c) =>
        /\ <<PingAddr(c), client[c].remote>> \in client[c].heard
        /\ <<client[c].remote, PingAddr(c)>> \in client[Peer(c)].heard

\* The socket of a successful negotiation is the application's: the library
\* does not close it when it reports, times out and removes the negotiator.
SocketKept == \A c \in Clients \ GameSock : Succeeded(c) => ~client[c].closed

\* Once cancelled, a negotiation does not complete: not by a ping that the
\* game's socket receives before the negotiator is removed either.
CancelIsFinal ==
    [][\A c \in Clients : client[c].cancelled =>
                          client'[c].results = client[c].results]_vars

\* Where each client hears the other, and from where.
Path == [c \in Clients |-> <<PingAddr(c), PingAddr(Peer(c))>>]

\* What a negotiation promises the applications: see Negotiation.
Promise == INSTANCE Negotiation WITH
    Home      <- [c \in Clients |-> PingAddr(c)],
    Failure   <- Result \ {"success"},
    hears     <- {c \in Clients : Path[c] \in client[c].heard},
    told      <- [c \in Clients |-> client[c].results],
    remote    <- [c \in Clients |-> client[c].remote],
    cancelled <- {c \in Clients : client[c].cancelled}

\* Each result, and each address given with it, is one the promise allows at
\* that moment: a success when both have heard, no result after a cancel.
ImplementsNegotiation == Promise!Spec

\* A negotiation that has begun completes, whatever is lost, or it is
\* cancelled and its negotiator removed.
Completes ==
    \A c \in Clients :
        client[c].state # "none" ~> client[c].results # <<>> \/ client[c].state = "removed"
=============================================================================
