----------------------------- MODULE NatNegProofs -----------------------------
(***************************************************************************)
(* A NAT negotiation is answered once, its success is mutual, its socket   *)
(* is not taken back, and each of its steps is one that the abstract       *)
(* Negotiation allows: proofs for any two clients, port types and retry    *)
(* counts.  ClientInv is the inductive invariant of a client's context; it *)
(* holds at every step inside a handler, so that each operator of NatNeg   *)
(* has its own lemma.                                                      *)
(***************************************************************************)
EXTENDS NatNeg, FiniteSetTheorems, TLAPS

PeerAddr(c) == PingAddr(Peer(c))
PeerPing(c, got) == Ping(PeerAddr(c), PingAddr(c), got)

(* That c has heard its peer. *)
Pair(c) == <<PingAddr(c), PeerAddr(c)>>

Count == UNION {0..(r + 1) : r \in MaxRetries}
States == {"initsent", "initack", "connectping", "finished", "canceled",
           "reportsent", "reportack", "none", "removed"}
Before == {"none", "initsent", "initack", "connectping"}

(* A context in the middle of a handler: with what it sends. *)
Ctx(c) ==
    [state : States, open : BOOLEAN, due : BOOLEAN, initAckRecv : SUBSET Ports(c),
     retryCount : Count, maxRetryCount : MaxRetries,
     guessed : {NoAddr, PeerAddr(c)}, gotRemoteData : BOOLEAN,
     sendGotRemoteData : BOOLEAN,
     out : SUBSET ({InitMsg(c), Report(c)} \cup {PeerPing(c, got) : got \in BOOLEAN}),
     results : Seq(Result), remote : {NoAddr, PeerAddr(c)},
     heard : SUBSET (Address \X Address), closed : BOOLEAN, cancelled : BOOLEAN]

(* k is what was known before the handler: whom the client and its peer    *)
(* had heard, its results, and whether the application had cancelled.  A   *)
(* handler hears the peer or nobody, and gives a result to a client that   *)
(* had none.                                                               *)
PeerHeard(c, k) == <<PeerAddr(c), PingAddr(c)>> \in k.peer

ClientInv(c, s, k) ==
    /\ s \in Ctx(c)
    /\ s.state = "connectping" => s.guessed = PeerAddr(c)
    /\ s.gotRemoteData = TRUE => Pair(c) \in s.heard
    /\ PeerPing(c, TRUE) \in s.out => Pair(c) \in s.heard
    /\ s.state \in Before => s.results = <<>> /\ s.closed = FALSE /\ s.cancelled = FALSE
    /\ s.results # <<>> => \E r \in Result : s.results = <<r>>
    /\ s.results = <<"success">> =>
         /\ s.remote = PeerAddr(c) /\ Pair(c) \in s.heard /\ PeerHeard(c, k)
         /\ c \notin GameSock => s.closed = FALSE
    /\ s.results # <<"success">> => s.remote = NoAddr
    /\ s.heard \in {k.self, k.self \cup {Pair(c)}}
    /\ s.cancelled = k.cancelled
    /\ k.results # <<>> \/ k.cancelled = TRUE => s.results = k.results

(* A datagram that may reach c. *)
DatagramOK(c, m, k) ==
    \/ m.type = "INITACK" /\ m.port \in Ports(c)
    \/ m.type = "REPORT_ACK"
    \/ /\ m.type = "CONNECT" /\ m.finished \in {"noerror", "deadbeatpartner", "unknownerror"}
       /\ m.finished = "noerror" => m.remote = PeerAddr(c)
    \/ /\ m.type = "PING" /\ m.to = PingAddr(c) /\ m.from = PeerAddr(c)
       /\ m.gotyourdata \in BOOLEAN /\ (m.gotyourdata = TRUE => PeerHeard(c, k))

-----------------------------------------------------------------------------
LEMMA Peers ==
    ASSUME NEW c \in Clients
    PROVE  /\ Peer(c) \in Clients /\ Peer(c) # c /\ Peer(Peer(c)) = c
           /\ \A d \in Clients : d = c \/ d = Peer(c)
<1>1. IsFiniteSet(Clients \ {c}) /\ Cardinality(Clients \ {c}) = 1
  BY NatNegAssumption, FS_RemoveElement
<1>2. PICK p : Clients \ {c} = {p}
  BY <1>1, FS_Singleton
<1>3. p \in Clients /\ p # c /\ \A d \in Clients : d = c \/ d = p
  BY <1>2
<1>4. Peer(c) = p
  BY <1>3 DEF Peer
<1>5. Peer(p) = c
  BY <1>3 DEF Peer
<1> QED
  BY <1>3, <1>4, <1>5

LEMMA Addresses ==
    ASSUME NEW c \in Clients
    PROVE  PingAddr(c) \in Address /\ PeerAddr(c) \in Address /\ NoAddr \in Address
           /\ NegAddr(c) \in Address /\ GameAddr(c) \in Address
BY Peers DEF PingAddr, PeerAddr, Address

LEMMA Retries ==
    /\ MaxRetries \subseteq Nat
    /\ InitRetries \in MaxRetries /\ PingRetries \in MaxRetries
    /\ ReportRetries \in MaxRetries /\ 0 \in MaxRetries
    /\ 0 \in Count /\ Count \subseteq Nat
    /\ \A n \in Count, r \in MaxRetries : n <= r => n + 1 \in Count
<1>1. /\ MaxRetries \subseteq Nat
      /\ InitRetries \in MaxRetries /\ PingRetries \in MaxRetries
      /\ ReportRetries \in MaxRetries /\ 0 \in MaxRetries
  BY NatNegAssumption DEF MaxRetries
<1>2. \A n : n \in Count <=> \E r \in MaxRetries : n \in 0..(r + 1)
  BY DEF Count
<1>3. 0 \in Count /\ Count \subseteq Nat
  BY <1>1, <1>2
<1>4. ASSUME NEW n \in Count, NEW r \in MaxRetries, n <= r PROVE n + 1 \in Count
  <2>1. PICK q \in MaxRetries : n \in 0..(q + 1)
    BY <1>2
  <2>2. n + 1 \in 0..(r + 1)
    BY <1>1, <1>4, <2>1
  <2> QED
    BY <1>2, <2>2
<1> QED
  BY <1>1, <1>3, <1>4

-----------------------------------------------------------------------------
(* Sending and ending.                                                     *)

LEMMA SendPingInv ==
    ASSUME NEW c \in Clients, NEW s, NEW k, ClientInv(c, s, k), s.guessed = PeerAddr(c)
    PROVE  ClientInv(c, SendPingPacket(c, s), k)
<1> DEFINE o == s.out \cup (IF c \in GameSock \/ s.open
                            THEN {PeerPing(c, s.gotRemoteData)} ELSE {})
           t == [s EXCEPT !.out = o, !.due = FALSE, !.maxRetryCount = PingRetries]
<1>1. s \in Ctx(c)
  BY DEF ClientInv
<1>2. SendPingPacket(c, s) = t
  BY DEF SendPingPacket, PeerPing
<1>3. o \in SUBSET ({InitMsg(c), Report(c)} \cup {PeerPing(c, got) : got \in BOOLEAN})
  BY <1>1 DEF Ctx
<1>4. PeerPing(c, TRUE) \in o => Pair(c) \in s.heard
  BY <1>1 DEF PeerPing, Ping, ClientInv, Ctx
<1> HIDE DEF o
<1>5. /\ t \in Ctx(c) /\ t.out = o /\ t.state = s.state /\ t.guessed = s.guessed
      /\ t.gotRemoteData = s.gotRemoteData /\ t.heard = s.heard
      /\ t.results = s.results /\ t.remote = s.remote /\ t.closed = s.closed
      /\ t.cancelled = s.cancelled
  BY <1>1, <1>3, Retries DEF Ctx
<1> HIDE DEF t
<1> QED
  BY <1>2, <1>4, <1>5 DEF ClientInv

LEMMA SendInitInv ==
    ASSUME NEW c \in Clients, NEW s, NEW k, ClientInv(c, s, k), s.state \in Before
    PROVE  ClientInv(c, SendInitPackets(c, s), k)
<1> DEFINE o == s.out \cup {InitMsg(c)}
           t == [s EXCEPT !.out = o, !.state = "initsent", !.due = FALSE,
                          !.maxRetryCount = InitRetries]
<1>1. s \in Ctx(c)
  BY DEF ClientInv
<1>2. SendInitPackets(c, s) = t
  BY DEF SendInitPackets
<1>3. o \in SUBSET ({InitMsg(c), Report(c)} \cup {PeerPing(c, got) : got \in BOOLEAN})
  BY <1>1 DEF Ctx
<1>4. PeerPing(c, TRUE) \in o => Pair(c) \in s.heard
  BY <1>1 DEF PeerPing, Ping, InitMsg, ClientInv, Ctx
<1> HIDE DEF o
<1>5. /\ t \in Ctx(c) /\ t.out = o /\ t.state = "initsent" /\ t.guessed = s.guessed
      /\ t.gotRemoteData = s.gotRemoteData /\ t.heard = s.heard
      /\ t.results = s.results /\ t.remote = s.remote /\ t.closed = s.closed
      /\ t.cancelled = s.cancelled
  BY <1>1, <1>3, Retries DEF Ctx, States
<1> HIDE DEF t
<1> QED
  BY <1>2, <1>4, <1>5 DEF ClientInv, Before

(* NNCancel keeps the invariant unless it closes what was handed over. *)
LEMMA CancelInv ==
    ASSUME NEW c \in Clients, NEW s, NEW k, ClientInv(c, s, k),
           s.results = <<"success">> /\ c \notin GameSock => s.open = FALSE
    PROVE  ClientInv(c, NNCancel(s), k)
<1>1. s \in Ctx(c)
  BY DEF ClientInv
<1>2. CASE s.state \in {"none", "removed"}
  BY <1>2 DEF NNCancel
<1>3. CASE s.state \notin {"none", "removed"}
  <2> DEFINE cl == s.closed \/ s.open
             t == [s EXCEPT !.state = "canceled", !.open = FALSE, !.closed = cl]
  <2>1. NNCancel(s) = t
    BY <1>3 DEF NNCancel
  <2>2. cl \in BOOLEAN
    OBVIOUS
  <2>3. s.results = <<"success">> /\ c \notin GameSock => cl = FALSE
    BY DEF ClientInv
  <2> HIDE DEF cl
  <2>4. /\ t \in Ctx(c) /\ t.out = s.out /\ t.state = "canceled" /\ t.guessed = s.guessed
        /\ t.gotRemoteData = s.gotRemoteData /\ t.heard = s.heard
        /\ t.results = s.results /\ t.remote = s.remote /\ t.closed = cl /\ t.cancelled = s.cancelled
    BY <1>1, <2>2 DEF Ctx, States
  <2> HIDE DEF t
  <2> QED
    BY <2>1, <2>3, <2>4 DEF ClientInv, Before
<1> QED
  BY <1>2, <1>3

(* The completed callback is called, in a context that was not answered. *)
LEMMA StartReportInv ==
    ASSUME NEW c \in Clients, NEW s, NEW k, ClientInv(c, s, k),
           s.results = <<>>, s.closed = FALSE, s.cancelled = FALSE, NEW result \in Result,
           NEW remote \in {NoAddr, PeerAddr(c)},
           result = "success" => remote = PeerAddr(c) /\ Pair(c) \in s.heard /\ PeerHeard(c, k),
           result # "success" => remote = NoAddr
    PROVE  ClientInv(c, StartReport(c, s, result, remote), k)
<1> DEFINE res == Append(s.results, result)
<1>1. s \in Ctx(c)
  BY DEF ClientInv
<1>2. res = <<result>> /\ res \in Seq(Result) /\ res # <<>>
      /\ (res = <<"success">> => result = "success")
  OBVIOUS
<1>3. CASE result \in {"inittimeout", "deadbeatpartner"}
  <2> DEFINE t == [s EXCEPT !.state = "finished", !.results = res, !.remote = remote]
  <2>1. StartReport(c, s, result, remote) = NNCancel(t)
    BY <1>1, <1>3 DEF StartReport, CompletedCallback, Ctx
  <2> HIDE DEF res
  <2>2. /\ t \in Ctx(c) /\ t.out = s.out /\ t.state = "finished" /\ t.guessed = s.guessed
        /\ t.gotRemoteData = s.gotRemoteData /\ t.heard = s.heard
        /\ t.results = res /\ t.remote = remote /\ t.closed = s.closed
        /\ t.cancelled = s.cancelled
    BY <1>1, <1>2 DEF Ctx, States
  <2> HIDE DEF t
  <2>3. ClientInv(c, t, k)
    BY <1>2, <1>3, <2>2 DEF ClientInv, Before
  <2> QED
    BY <1>2, <1>3, <2>1, <2>2, <2>3, CancelInv
<1>4. CASE result \notin {"inittimeout", "deadbeatpartner"}
  <2> DEFINE o == s.out \cup {Report(c)}
             t == [s EXCEPT !.out = o, !.state = "reportsent", !.due = FALSE,
                            !.retryCount = 0, !.maxRetryCount = ReportRetries,
                            !.results = res, !.remote = remote]
  <2>1. StartReport(c, s, result, remote) = t
    BY <1>1, <1>4 DEF StartReport, CompletedCallback, SendReportPacket, Ctx
  <2>2. o \in SUBSET ({InitMsg(c), Report(c)} \cup {PeerPing(c, got) : got \in BOOLEAN})
    BY <1>1 DEF Ctx
  <2>3. PeerPing(c, TRUE) \in o => Pair(c) \in s.heard
    BY <1>1 DEF PeerPing, Ping, Report, ClientInv, Ctx
  <2> HIDE DEF o, res
  <2>4. /\ t \in Ctx(c) /\ t.out = o /\ t.state = "reportsent" /\ t.guessed = s.guessed
        /\ t.gotRemoteData = s.gotRemoteData /\ t.heard = s.heard
        /\ t.results = res /\ t.remote = remote /\ t.closed = s.closed
        /\ t.cancelled = s.cancelled
    BY <1>1, <1>2, <2>2, Retries DEF Ctx, States
  <2> HIDE DEF t
  <2> QED
    BY <1>2, <2>1, <2>3, <2>4 DEF ClientInv, Before
<1> QED
  BY <1>3, <1>4

LEMMA RemoveFinishedInv ==
    ASSUME NEW c \in Clients, NEW s, NEW k, ClientInv(c, s, k)
    PROVE  ClientInv(c, RemoveFinishedNegotiator(c, s), k)
<1>1. s \in Ctx(c)
  BY DEF ClientInv
<1>2. CASE c \in GameSock
  BY <1>2, CancelInv DEF RemoveFinishedNegotiator
<1>3. CASE c \notin GameSock
  <2> DEFINE t == [s EXCEPT !.open = FALSE]
  <2>1. RemoveFinishedNegotiator(c, s) = NNCancel(t)
    BY <1>3 DEF RemoveFinishedNegotiator
  <2>2. /\ t \in Ctx(c) /\ t.out = s.out /\ t.state = s.state /\ t.guessed = s.guessed
        /\ t.gotRemoteData = s.gotRemoteData /\ t.heard = s.heard /\ t.open = FALSE
        /\ t.results = s.results /\ t.remote = s.remote /\ t.closed = s.closed
        /\ t.cancelled = s.cancelled
    BY <1>1 DEF Ctx
  <2> HIDE DEF t
  <2>3. ClientInv(c, t, k)
    BY <2>2 DEF ClientInv
  <2> QED
    BY <2>1, <2>2, <2>3, CancelInv
<1> QED
  BY <1>2, <1>3

LEMMA RemoveInv ==
    ASSUME NEW c \in Clients, NEW s, NEW k, ClientInv(c, s, k)
    PROVE  ClientInv(c, RemoveNegotiator(s), k)
<1> DEFINE t == RemoveNegotiator(s)
<1>1. s \in Ctx(c)
  BY DEF ClientInv
<1>2. /\ t \in Ctx(c) /\ t.out = s.out /\ t.state = "removed"
      /\ t.gotRemoteData = FALSE /\ t.heard = s.heard
      /\ t.results = s.results /\ t.remote = s.remote /\ t.closed = s.closed
      /\ t.cancelled = s.cancelled
  BY <1>1, Retries DEF Ctx, States, RemoveNegotiator
<1> HIDE DEF t
<1>3. ClientInv(c, t, k)
  BY <1>2 DEF ClientInv, Before
<1> QED
  BY <1>3 DEF t

-----------------------------------------------------------------------------
(* Datagrams.                                                              *)

LEMMA ConnectInv ==
    ASSUME NEW c \in Clients, NEW s, NEW k, ClientInv(c, s, k), NEW m,
           m.finished \in {"noerror", "deadbeatpartner", "unknownerror"},
           m.finished = "noerror" => m.remote = PeerAddr(c)
    PROVE  ClientInv(c, ProcessConnectPacket(c, s, m), k)
<1>1. s \in Ctx(c)
  BY DEF ClientInv
<1>2. BeforeConnectPing(s.state) <=> s.state \in {"initsent", "initack"}
  BY DEF BeforeConnectPing, NegotiateState
<1>3. CASE ~BeforeConnectPing(s.state)
  BY <1>3 DEF ProcessConnectPacket
<1>4. CASE BeforeConnectPing(s.state) /\ m.finished # "noerror"
  <2>1. ProcessConnectPacket(c, s, m) = StartReport(c, s, m.finished, NoAddr)
    BY <1>4 DEF ProcessConnectPacket
  <2>2. s.results = <<>> /\ s.closed = FALSE /\ s.cancelled = FALSE /\ m.finished \in Result /\ m.finished # "success"
    BY <1>2, <1>4 DEF ClientInv, Before, Result
  <2> QED
    BY <2>1, <2>2, StartReportInv
<1>5. CASE BeforeConnectPing(s.state) /\ m.finished = "noerror"
  <2> DEFINE t == [s EXCEPT !.guessed = m.remote, !.retryCount = 0, !.state = "connectping"]
  <2>1. ProcessConnectPacket(c, s, m) = SendPingPacket(c, t)
    BY <1>5 DEF ProcessConnectPacket
  <2>2. /\ t \in Ctx(c) /\ t.out = s.out /\ t.state = "connectping"
        /\ t.guessed = PeerAddr(c)
        /\ t.gotRemoteData = s.gotRemoteData /\ t.heard = s.heard
        /\ t.results = s.results /\ t.remote = s.remote /\ t.closed = s.closed
        /\ t.cancelled = s.cancelled
    BY <1>1, <1>5, Retries DEF Ctx, States
  <2> HIDE DEF t
  <2>3. ClientInv(c, t, k)
    BY <1>2, <1>5, <2>2 DEF ClientInv, Before
  <2> QED
    BY <2>1, <2>2, <2>3, SendPingInv
<1> QED
  BY <1>3, <1>4, <1>5

(* The ping that was heard is in the history when it is processed. *)
LEMMA PingInv ==
    ASSUME NEW c \in Clients, NEW s, NEW k, ClientInv(c, s, k), NEW m,
           m.from = PeerAddr(c), Pair(c) \in s.heard, m.gotyourdata \in BOOLEAN,
           m.gotyourdata = TRUE => PeerHeard(c, k)
    PROVE  ClientInv(c, ProcessPingPacket(c, s, m), k)
<1> DEFINE t == [s EXCEPT !.guessed = m.from, !.gotRemoteData = TRUE,
                          !.sendGotRemoteData = m.gotyourdata]
           p == SendPingPacket(c, t)
<1>1. s \in Ctx(c)
  BY DEF ClientInv
<1>2. /\ t \in Ctx(c) /\ t.out = s.out /\ t.state = s.state
      /\ t.guessed = PeerAddr(c) /\ t.heard = s.heard
      /\ t.results = s.results /\ t.remote = s.remote /\ t.closed = s.closed
      /\ t.cancelled = s.cancelled
  BY <1>1 DEF Ctx
<1>3. /\ BeforeConnectPing(s.state) => ProcessPingPacket(c, s, m) = s
      /\ ~BeforeConnectPing(s.state) /\ s.state = "connectping" /\ m.gotyourdata = TRUE
           => ProcessPingPacket(c, s, m) = StartReport(c, p, "success", m.from)
      /\ ~BeforeConnectPing(s.state) /\ ~(s.state = "connectping" /\ m.gotyourdata = TRUE)
           => ProcessPingPacket(c, s, m) = p
  <2>1. ASSUME BeforeConnectPing(s.state) PROVE ProcessPingPacket(c, s, m) = s
    <3>1. s.state # "connectping"
      BY <2>1 DEF BeforeConnectPing, NegotiateState
    <3> QED
      BY <2>1, <3>1 DEF ProcessPingPacket
  <2>2. ASSUME ~BeforeConnectPing(s.state), s.state = "connectping", m.gotyourdata = TRUE
        PROVE  ProcessPingPacket(c, s, m) = StartReport(c, p, "success", m.from)
    BY <2>2 DEF ProcessPingPacket
  <2>3. ASSUME ~BeforeConnectPing(s.state), ~(s.state = "connectping" /\ m.gotyourdata = TRUE)
        PROVE  ProcessPingPacket(c, s, m) = p
    <3>1. ~(s.state = "connectping" /\ m.gotyourdata)
      BY <2>3
    <3> QED
      BY <2>3, <3>1 DEF ProcessPingPacket
  <2> QED
    BY <2>1, <2>2, <2>3
<1> HIDE DEF t
<1>4. ClientInv(c, t, k)
  BY <1>2 DEF ClientInv
<1>5. ClientInv(c, p, k)
  BY <1>2, <1>4, SendPingInv
<1>6. p.state = s.state /\ p.heard = s.heard
  BY <1>2 DEF SendPingPacket, Ctx
<1> HIDE DEF p
<1>7. CASE BeforeConnectPing(s.state)
  BY <1>3, <1>7
<1>8. CASE ~BeforeConnectPing(s.state) /\ s.state = "connectping" /\ m.gotyourdata = TRUE
  <2>1. p.results = <<>> /\ p.closed = FALSE /\ p.cancelled = FALSE
    BY <1>5, <1>6, <1>8 DEF ClientInv, Before
  <2>2. PeerHeard(c, k) /\ "success" \in Result /\ m.from \in {NoAddr, PeerAddr(c)}
    BY <1>8 DEF Result
  <2>3. ClientInv(c, StartReport(c, p, "success", m.from), k)
    BY <1>5, <1>6, <2>1, <2>2, StartReportInv
  <2> QED
    BY <1>3, <1>8, <2>3
<1>9. CASE ~BeforeConnectPing(s.state) /\ ~(s.state = "connectping" /\ m.gotyourdata = TRUE)
  BY <1>3, <1>5, <1>9
<1> QED
  BY <1>7, <1>8, <1>9

LEMMA InitAckInv ==
    ASSUME NEW c \in Clients, NEW s, NEW k, ClientInv(c, s, k), NEW m, m.port \in Ports(c)
    PROVE  ClientInv(c, ProcessInitAck(c, s, m), k)
<1> DEFINE acks == s.initAckRecv \cup {m.port}
           t == [s EXCEPT !.initAckRecv = acks]
           u == [t EXCEPT !.state = "initack", !.due = FALSE]
<1>1. s \in Ctx(c)
  BY DEF ClientInv
<1>2. acks \in SUBSET Ports(c)
  BY <1>1 DEF Ctx
<1>3. ProcessInitAck(c, s, m) = t \/ (s.state = "initsent" /\ ProcessInitAck(c, s, m) = u)
  BY DEF ProcessInitAck
<1> HIDE DEF acks
<1>4. /\ t \in Ctx(c) /\ t.out = s.out /\ t.state = s.state /\ t.guessed = s.guessed
      /\ t.gotRemoteData = s.gotRemoteData /\ t.heard = s.heard
      /\ t.results = s.results /\ t.remote = s.remote /\ t.closed = s.closed
      /\ t.cancelled = s.cancelled
  BY <1>1, <1>2 DEF Ctx
<1> HIDE DEF t
<1>5. /\ u \in Ctx(c) /\ u.out = s.out /\ u.state = "initack" /\ u.guessed = s.guessed
      /\ u.gotRemoteData = s.gotRemoteData /\ u.heard = s.heard
      /\ u.results = s.results /\ u.remote = s.remote /\ u.closed = s.closed /\ u.cancelled = s.cancelled
  BY <1>4 DEF Ctx, States
<1> HIDE DEF u
<1>6. ClientInv(c, t, k)
  BY <1>4 DEF ClientInv
<1>7. s.state = "initsent" => ClientInv(c, u, k)
  BY <1>5 DEF ClientInv, Before
<1> QED
  BY <1>3, <1>6, <1>7

LEMMA ProcessDataInv ==
    ASSUME NEW c \in Clients, NEW s, NEW k, ClientInv(c, s, k), NEW m, DatagramOK(c, m, k)
    PROVE  ClientInv(c, NNProcessData(c, s, m), k)
<1>1. s \in Ctx(c)
  BY DEF ClientInv
<1>2. CASE s.state \in {"none", "removed"}
  <2>1. NNProcessData(c, s, m) = s
    BY <1>2 DEF NNProcessData
  <2> QED
    BY <2>1
<1>3. CASE s.state \notin {"none", "removed"} /\ m.type = "CONNECT"
  <2>1. NNProcessData(c, s, m) = ProcessConnectPacket(c, s, m)
    BY <1>3 DEF NNProcessData
  <2> QED
    BY <1>3, <2>1, ConnectInv DEF DatagramOK
<1>4. CASE s.state \notin {"none", "removed"} /\ m.type = "PING"
  <2> DEFINE h == s.heard \cup {<<m.to, m.from>>}
             t == [s EXCEPT !.heard = h]
  <2>1. NNProcessData(c, s, m) = ProcessPingPacket(c, t, m)
    BY <1>4 DEF NNProcessData
  <2>2. m.to = PingAddr(c) /\ m.from = PeerAddr(c)
        /\ m.gotyourdata \in BOOLEAN /\ (m.gotyourdata = TRUE => PeerHeard(c, k))
    BY <1>4 DEF DatagramOK
  <2>3. h \in SUBSET (Address \X Address) /\ Pair(c) \in h /\ s.heard \subseteq h
    BY <1>1, <2>2, Addresses DEF Ctx, Pair
  <2>6. h \in {k.self, k.self \cup {Pair(c)}}
    BY <2>2 DEF ClientInv, Pair
  <2> HIDE DEF h
  <2>4. /\ t \in Ctx(c) /\ t.out = s.out /\ t.state = s.state /\ t.guessed = s.guessed
        /\ t.gotRemoteData = s.gotRemoteData /\ t.heard = h
        /\ t.results = s.results /\ t.remote = s.remote /\ t.closed = s.closed
        /\ t.cancelled = s.cancelled
    BY <1>1, <2>3 DEF Ctx
  <2> HIDE DEF t
  <2>5. ClientInv(c, t, k)
    BY <2>3, <2>4, <2>6 DEF ClientInv
  <2> QED
    BY <2>1, <2>2, <2>3, <2>4, <2>5, PingInv
<1>5. CASE s.state \notin {"none", "removed"} /\ m.type = "INITACK"
  <2>1. NNProcessData(c, s, m) = ProcessInitAck(c, s, m)
    BY <1>5 DEF NNProcessData
  <2> QED
    BY <1>5, <2>1, InitAckInv DEF DatagramOK
<1>6. CASE s.state \notin {"none", "removed"} /\ m.type = "REPORT_ACK"
  <2> DEFINE t == [s EXCEPT !.state = "reportack"]
  <2>1. NNProcessData(c, s, m) = t
    BY <1>6 DEF NNProcessData
  <2>2. /\ t \in Ctx(c) /\ t.out = s.out /\ t.state = "reportack" /\ t.guessed = s.guessed
        /\ t.gotRemoteData = s.gotRemoteData /\ t.heard = s.heard
        /\ t.results = s.results /\ t.remote = s.remote /\ t.closed = s.closed
        /\ t.cancelled = s.cancelled
    BY <1>1 DEF Ctx, States
  <2> HIDE DEF t
  <2>3. ClientInv(c, t, k)
    BY <2>2 DEF ClientInv, Before
  <2> QED
    BY <2>1, <2>3
<1> QED
  BY <1>2, <1>3, <1>4, <1>5, <1>6 DEF DatagramOK

-----------------------------------------------------------------------------
(* NegotiateThink.                                                         *)

LEMMA RetryInv ==
    ASSUME NEW c \in Clients, NEW s, NEW k, ClientInv(c, s, k),
           ~(s.retryCount > s.maxRetryCount)
    PROVE  ClientInv(c, Retry(s), k) /\ Retry(s).state = s.state
           /\ Retry(s).guessed = s.guessed
<1> DEFINE n == s.retryCount + 1
           t == [s EXCEPT !.retryCount = n]
<1>1. s \in Ctx(c) /\ s.retryCount \in Count /\ s.maxRetryCount \in MaxRetries
  BY DEF ClientInv, Ctx
<1>2. s.retryCount \in Nat /\ s.maxRetryCount \in Nat
  BY <1>1, Retries
<1>3. n \in Count
  BY <1>1, <1>2, Retries
<1>4. Retry(s) = t
  BY <1>1 DEF Retry, Ctx
<1> HIDE DEF n
<1>5. /\ t \in Ctx(c) /\ t.out = s.out /\ t.state = s.state /\ t.guessed = s.guessed
      /\ t.gotRemoteData = s.gotRemoteData /\ t.heard = s.heard
      /\ t.results = s.results /\ t.remote = s.remote /\ t.closed = s.closed
      /\ t.cancelled = s.cancelled
  BY <1>1, <1>3 DEF Ctx
<1> HIDE DEF t
<1>6. ClientInv(c, t, k)
  BY <1>5 DEF ClientInv
<1> QED
  BY <1>4, <1>5, <1>6

LEMMA TimersInv ==
    ASSUME NEW c \in Clients, NEW s, NEW k, ClientInv(c, s, k)
    PROVE  ClientInv(c, Timers(c, s), k)
<1>1. s \in Ctx(c)
  BY DEF ClientInv
<1> DEFINE last == s.retryCount > s.maxRetryCount
<1>2. CASE s.due = FALSE
  BY <1>2 DEF Timers
<1>3. CASE s.due = TRUE /\ s.state \in {"initsent", "initack", "connectping"}
  <2>1. s.results = <<>> /\ s.closed = FALSE /\ s.cancelled = FALSE
    BY <1>3 DEF ClientInv, Before
  <2>2. \A result \in {"inittimeout", "deadbeatpartner", "pingtimeout"} :
          ClientInv(c, StartReport(c, s, result, NoAddr), k)
    BY <2>1, StartReportInv DEF Result
  <2>3. CASE s.state = "initsent" /\ last
    BY <1>3, <2>2, <2>3 DEF Timers
  <2>4. CASE s.state = "initsent" /\ ~last
    <3>1. Timers(c, s) = SendInitPackets(c, Retry(s))
      BY <1>3, <2>4 DEF Timers
    <3> QED
      BY <2>4, <3>1, RetryInv, SendInitInv DEF Before
  <2>5. CASE s.state = "initack"
    BY <1>3, <2>2, <2>5 DEF Timers
  <2>6. CASE s.state = "connectping" /\ last
    BY <1>3, <2>2, <2>6 DEF Timers
  <2>7. CASE s.state = "connectping" /\ ~last
    <3>1. Timers(c, s) = SendPingPacket(c, Retry(s))
      BY <1>3, <2>7 DEF Timers
    <3>2. s.guessed = PeerAddr(c)
      BY <2>7 DEF ClientInv
    <3> QED
      BY <2>7, <3>1, <3>2, RetryInv, SendPingInv
  <2> QED
    BY <1>3, <2>3, <2>4, <2>5, <2>6, <2>7
<1>4. CASE s.due = TRUE /\ s.state = "reportsent"
  <2>1. CASE last
    <3> DEFINE t == [s EXCEPT !.state = "finished"]
    <3>1. Timers(c, s) = t
      BY <1>4, <2>1 DEF Timers
    <3>2. /\ t \in Ctx(c) /\ t.out = s.out /\ t.state = "finished" /\ t.guessed = s.guessed
          /\ t.gotRemoteData = s.gotRemoteData /\ t.heard = s.heard
          /\ t.results = s.results /\ t.remote = s.remote /\ t.closed = s.closed
          /\ t.cancelled = s.cancelled
      BY <1>1 DEF Ctx, States
    <3> HIDE DEF t
    <3>3. ClientInv(c, t, k)
      BY <3>2 DEF ClientInv, Before
    <3> QED
      BY <3>1, <3>3
  <2>2. CASE ~last
    <3> DEFINE r == Retry(s)
               o == r.out \cup {Report(c)}
               t == [r EXCEPT !.out = o, !.due = FALSE]
    <3>1. ClientInv(c, r, k)
      BY <2>2, RetryInv
    <3> HIDE DEF r
    <3>2. r \in Ctx(c)
      BY <3>1 DEF ClientInv
    <3>3. Timers(c, s) = t
      BY <1>4, <2>2, <3>2 DEF Timers, SendReportPacket, Ctx, r
    <3>4. o \in SUBSET ({InitMsg(c), Report(c)} \cup {PeerPing(c, got) : got \in BOOLEAN})
      BY <3>2 DEF Ctx
    <3>5. PeerPing(c, TRUE) \in o => Pair(c) \in r.heard
      BY <3>1 DEF PeerPing, Ping, Report, ClientInv
    <3> HIDE DEF o
    <3>6. /\ t \in Ctx(c) /\ t.out = o /\ t.state = r.state /\ t.guessed = r.guessed
          /\ t.gotRemoteData = r.gotRemoteData /\ t.heard = r.heard
          /\ t.results = r.results /\ t.remote = r.remote /\ t.closed = r.closed /\ t.cancelled = r.cancelled
      BY <3>2, <3>4 DEF Ctx
    <3> HIDE DEF t
    <3>7. ClientInv(c, t, k)
      BY <3>1, <3>5, <3>6 DEF ClientInv
    <3> QED
      BY <3>3, <3>7
  <2> QED
    BY <2>1, <2>2
<1>5. CASE s.due = TRUE /\ s.state \notin {"initsent", "initack", "connectping", "reportsent"}
  BY <1>5 DEF Timers
<1>6. s.due \in BOOLEAN
  BY <1>1 DEF Ctx
<1> QED
  BY <1>2, <1>3, <1>4, <1>5, <1>6

LEMMA ThinkInv ==
    ASSUME NEW c \in Clients, NEW s, NEW k, ClientInv(c, s, k), NEW m,
           m = NoDatagram \/ DatagramOK(c, m, k)
    PROVE  ClientInv(c, NegotiateThink(c, s, m), k)
<1> DEFINE read == IF m = NoDatagram THEN s ELSE NNProcessData(c, s, m)
           timed == Timers(c, read)
           finished == Finish(c, timed)
<1>1. ClientInv(c, read, k)
  BY ProcessDataInv
<1>2. ClientInv(c, timed, k)
  BY <1>1, TimersInv
<1>3. ClientInv(c, finished, k)
  BY <1>2, RemoveFinishedInv DEF Finish
<1>4. ClientInv(c, RemoveCanceled(finished), k)
  BY <1>3, RemoveInv DEF RemoveCanceled
<1>5. NegotiateThink(c, s, m) = IF s.state = "canceled" THEN RemoveNegotiator(s)
                                ELSE RemoveCanceled(finished)
  BY DEF NegotiateThink
<1> HIDE DEF read, timed, finished
<1> QED
  BY <1>4, <1>5, RemoveInv
-----------------------------------------------------------------------------
(* The clients together.                                                   *)

Known(c) == [self |-> client[c].heard, peer |-> client[Peer(c)].heard,
             results |-> client[c].results, cancelled |-> client[c].cancelled]

(* What is known of c once its application has cancelled.                  *)
KnownCancelled(c) == [Known(c) EXCEPT !.cancelled = TRUE]

ClientsInv ==
    /\ client = [c \in Clients |-> client[c]]
    /\ \A c \in Clients : client[c].out = {} /\ ClientInv(c, client[c], Known(c))

(* A ping that says "I hear you" is sent by one that has heard.            *)
PingsInv ==
    \A m \in pings : \E x \in Clients, got \in BOOLEAN :
        /\ m = PeerPing(x, got)
        /\ got = TRUE => Pair(x) \in client[x].heard

ServerInv == toServer \subseteq {InitMsg(c) : c \in Clients} \cup {Report(c) : c \in Clients}

Inv == ClientsInv /\ PingsInv /\ ServerInv

(* A step gives no result to a negotiation that was cancelled before it.   *)
ResultsKept == \A c \in Clients : client[c].cancelled => client'[c].results = client[c].results

(* And it is a step that the abstract negotiation allows.                  *)
Promised == ResultsKept /\ [Promise!Next]_(Promise!vars)

LEMMA PeerFacts ==
    ASSUME NEW c \in Clients
    PROVE  PeerAddr(Peer(c)) = PingAddr(c) /\ PingAddr(Peer(c)) = PeerAddr(c)
BY Peers DEF PeerAddr

LEMMA InitInv == Init => Inv
<1> SUFFICES ASSUME Init PROVE Inv
  OBVIOUS
<1>1. ASSUME NEW c \in Clients PROVE client[c].out = {} /\ ClientInv(c, client[c], Known(c))
  <2> DEFINE s == client[c]
  <2>1. s = [state |-> "none", open |-> FALSE, due |-> FALSE,
             initAckRecv |-> {}, retryCount |-> 0, maxRetryCount |-> 0,
             guessed |-> NoAddr, gotRemoteData |-> FALSE,
             sendGotRemoteData |-> FALSE,
             out |-> {}, results |-> <<>>, remote |-> NoAddr,
             heard |-> {}, closed |-> FALSE, cancelled |-> FALSE]
    BY <1>1 DEF Init
  <2>2. Known(c).self = {} /\ Known(c).cancelled = FALSE /\ Known(c).results = <<>>
    BY <2>1 DEF Known
  <2> HIDE DEF s
  <2>3. s \in Ctx(c)
    BY <2>1, Retries DEF Ctx, States
  <2>4. s.out = {} /\ ClientInv(c, s, Known(c))
    BY <2>1, <2>2, <2>3 DEF ClientInv, Before
  <2> QED
    BY <2>4 DEF s
<1>2. client = [c \in Clients |-> client[c]]
  BY DEF Init
<1> QED
  BY <1>1, <1>2 DEF Init, Inv, ClientsInv, PingsInv, ServerInv

(* The process of c goes on in context s; the other one is where it was.   *)
LEMMA ContinueClient ==
    ASSUME Inv, NEW c \in Clients, NEW s \in Ctx(c), NEW used, Continue(c, s, used)
    PROVE  /\ client' = [d \in Clients |-> client'[d]]
           /\ client'[c] = [s EXCEPT !.out = {}] /\ client'[c] \in Ctx(c)
           /\ \A d \in Clients \ {c} : client'[d] = client[d]
           /\ client'[c].out = {} /\ client'[c].heard = s.heard
           /\ client'[c].results = s.results /\ client'[c].remote = s.remote
           /\ client'[c].cancelled = s.cancelled
<1> DEFINE t == [s EXCEPT !.out = {}]
<1>1. t \in Ctx(c) /\ t.out = {} /\ t.heard = s.heard /\ t.results = s.results
      /\ t.remote = s.remote /\ t.cancelled = s.cancelled
  BY DEF Ctx
<1>2. client' = [client EXCEPT ![c] = t]
  BY DEF Continue
<1>3. client = [d \in Clients |-> client[d]]
  BY DEF Inv, ClientsInv
<1> HIDE DEF t
<1>4. client'[c] = t /\ client' = [d \in Clients |-> client'[d]]
      /\ \A d \in Clients \ {c} : client'[d] = client[d]
  BY <1>2, <1>3
<1> QED
  BY <1>1, <1>4 DEF t

(* The process of c reaches context s, in which the invariant holds.       *)
LEMMA ContinueInv ==
    ASSUME Inv, NEW c \in Clients, NEW s, NEW used,
           NEW k \in {Known(c), KnownCancelled(c)},
           ClientInv(c, s, k), Continue(c, s, used)
    PROVE  Inv' /\ ResultsKept
<1> DEFINE p == Peer(c)
           t == [s EXCEPT !.out = {}]
<1>1. p \in Clients /\ p # c /\ Peer(p) = c /\ \A d \in Clients : d = c \/ d = p
  BY Peers
<1>2. s \in Ctx(c)
  BY DEF ClientInv
<1>3. /\ t \in Ctx(c) /\ t.out = {} /\ t.state = s.state /\ t.guessed = s.guessed
      /\ t.gotRemoteData = s.gotRemoteData /\ t.heard = s.heard
      /\ t.results = s.results /\ t.remote = s.remote /\ t.closed = s.closed
      /\ t.cancelled = s.cancelled
  BY <1>2 DEF Ctx
<1>4. client' = [client EXCEPT ![c] = t]
  BY DEF Continue
<1> HIDE DEF t, p
<1>5. client = [d \in Clients |-> client[d]] /\ client[p].out = {}
      /\ ClientInv(p, client[p], Known(p))
  BY <1>1 DEF Inv, ClientsInv
<1>6. client' = [d \in Clients |-> client'[d]] /\ client'[c] = t /\ client'[p] = client[p]
  BY <1>1, <1>4, <1>5
<1>7. /\ Known(c).peer = client[p].heard /\ Known(c).self = client[c].heard
      /\ Known(c)'.peer = client[p].heard /\ Known(c)'.self = s.heard
      /\ Known(c)'.results = s.results /\ Known(c)'.cancelled = s.cancelled
      /\ k.self = client[c].heard /\ k.peer = client[p].heard /\ k.results = client[c].results
      /\ (client[c].cancelled = TRUE => k.cancelled = TRUE)
      /\ Known(p).self = client[p].heard /\ Known(p).peer = client[c].heard
      /\ Known(p).results = client[p].results /\ Known(p).cancelled = client[p].cancelled
      /\ Known(p)'.self = client[p].heard /\ Known(p)'.peer = s.heard
      /\ Known(p)'.results = client[p].results /\ Known(p)'.cancelled = client[p].cancelled
  BY <1>1, <1>3, <1>6 DEF Known, KnownCancelled, p
<1>8. client[c].heard \subseteq s.heard
  BY <1>7 DEF ClientInv
<1>9. ClientInv(c, t, Known(c)')
  BY <1>3, <1>7 DEF ClientInv, PeerHeard
<1>10. ClientInv(p, client[p], Known(p)')
  BY <1>5, <1>7, <1>8 DEF ClientInv, PeerHeard
<1>11. ClientsInv'
  BY <1>1, <1>3, <1>5, <1>6, <1>9, <1>10 DEF ClientsInv
<1>12. \A d \in Clients : client[d].heard \subseteq client'[d].heard
  BY <1>1, <1>3, <1>6, <1>8
<1>13. PingsInv'
  <2> SUFFICES ASSUME NEW m \in pings'
               PROVE  \E x \in Clients, got \in BOOLEAN :
                        m = PeerPing(x, got) /\ (got = TRUE => Pair(x) \in client'[x].heard)
    BY DEF PingsInv
  <2>1. m \in pings \/ (m \in s.out /\ m.type = "PING")
    BY DEF Continue
  <2>2. CASE m \in pings
    BY <1>12, <2>2 DEF Inv, PingsInv
  <2>3. CASE m \in s.out /\ m.type = "PING"
    <3>1. PICK got \in BOOLEAN : m = PeerPing(c, got)
      BY <1>2, <2>3 DEF Ctx, InitMsg, Report
    <3>2. got = TRUE => Pair(c) \in client'[c].heard
      BY <1>3, <1>6, <2>3, <3>1 DEF ClientInv
    <3> QED
      BY <3>1, <3>2
  <2> QED
    BY <2>1, <2>2, <2>3
<1>14. ServerInv'
  <2>1. \A m \in s.out : m.type # "PING" => m \in {InitMsg(c), Report(c)}
    BY <1>2 DEF Ctx, PeerPing, Ping
  <2> QED
    BY <2>1 DEF Inv, ServerInv, Continue
<1>15. ResultsKept
  <2>1. client[c].cancelled => client'[c].results = client[c].results
    BY <1>3, <1>6, <1>7 DEF ClientInv
  <2> QED
    BY <1>1, <1>6, <2>1 DEF ResultsKept
<1> QED
  BY <1>11, <1>13, <1>14, <1>15 DEF Inv

(* The variables of the abstract negotiation.                              *)
Hears == {c \in Clients : Path[c] \in client[c].heard}
Results == [c \in Clients |-> client[c].results]
Remotes == [c \in Clients |-> client[c].remote]
Cancelled == {c \in Clients : client[c].cancelled}

(* A handler of c that gives no result hears the peer at most; one that    *)
(* gives one finds c waiting, and a success finds both hearing.            *)
LEMMA ContinueIsPromised ==
    ASSUME Inv, NEW c \in Clients, NEW s, NEW used,
           ClientInv(c, s, Known(c)), Continue(c, s, used)
    PROVE  Promise!Next
<1> DEFINE p == Peer(c)
<1>1. p \in Clients /\ p # c /\ Peer(p) = c
  BY Peers
<1>2. s \in Ctx(c)
  BY DEF ClientInv
<1>3. /\ \A d \in Clients \ {c} : client'[d] = client[d]
      /\ client'[c].heard = s.heard /\ client'[c].results = s.results
      /\ client'[c].remote = s.remote /\ client'[c].cancelled = s.cancelled
  BY <1>2, ContinueClient
<1>4. /\ s.heard \in {client[c].heard, client[c].heard \cup {Pair(c)}}
      /\ s.cancelled = client[c].cancelled
      /\ client[c].results # <<>> \/ client[c].cancelled = TRUE => s.results = client[c].results
      /\ s.results # <<"success">> => s.remote = NoAddr
      /\ s.results # <<>> => \E r \in Result : s.results = <<r>>
      /\ s.results = <<"success">> =>
           s.remote = PeerAddr(c) /\ Pair(c) \in s.heard
           /\ <<PeerAddr(c), PingAddr(c)>> \in client[p].heard
  BY DEF ClientInv, Known, PeerHeard
<1>5. /\ client[c].results # <<"success">> => client[c].remote = NoAddr
      /\ client[c].results = <<"success">> => client[c].remote = PeerAddr(c)
      /\ client[c].cancelled \in BOOLEAN
  BY DEF Inv, ClientsInv, ClientInv, Ctx
<1>6. /\ Path[c] = Pair(c) /\ Path[p] = <<PeerAddr(c), PingAddr(c)>>
      /\ [d \in Clients |-> PingAddr(d)][p] = PeerAddr(c)
  BY <1>1 DEF Path, Pair, PeerAddr
<1> HIDE DEF p
<1>7. Hears' \in {Hears, Hears \cup {c}}
  BY <1>3, <1>4, <1>6 DEF Hears
<1>8. Results' = [Results EXCEPT ![c] = s.results]
  BY <1>3 DEF Results
<1>9. Remotes' = [Remotes EXCEPT ![c] = s.remote]
  BY <1>3 DEF Remotes
<1>10. Cancelled' = Cancelled
  BY <1>3, <1>4 DEF Cancelled
<1>11. CASE s.results = client[c].results
  <2>1. s.remote = client[c].remote
    BY <1>4, <1>5, <1>11
  <2>2. Results' = Results /\ Remotes' = Remotes
    BY <1>8, <1>9, <1>11, <2>1 DEF Results, Remotes
  <2>3. Promise!Hear(c)
    BY <1>7, <1>10, <2>2
    DEF Promise!Hear, Promise!MayHear, Hears, Results, Remotes, Cancelled
  <2> QED
    BY <2>3 DEF Promise!Next
<1>12. CASE s.results # client[c].results
  <2>1. client[c].results = <<>> /\ client[c].cancelled = FALSE
    BY <1>4, <1>5, <1>12
  <2>2. PICK r \in Result : s.results = <<r>>
    BY <1>4, <1>12, <2>1
  <2>3. Promise!Waits(c)
    BY <2>1 DEF Promise!Waits
  <2>4. CASE r = "success"
    <3>1. c \in Hears' /\ p \in Hears \ {c}
      BY <1>1, <1>3, <1>4, <1>6, <2>2, <2>4 DEF Hears
    <3>2. Remotes' = [Remotes EXCEPT ![c] = [d \in Clients |-> PingAddr(d)][p]]
      BY <1>4, <1>6, <1>9, <2>2, <2>4
    <3>3. Promise!Succeed(c)
      BY <1>7, <1>8, <1>10, <2>2, <2>3, <2>4, <3>1, <3>2
      DEF Promise!Succeed, Promise!MayHear, Hears, Results, Remotes, Cancelled
    <3> QED
      BY <3>3 DEF Promise!Next
  <2>5. CASE r # "success"
    <3>1. s.remote = client[c].remote
      BY <1>4, <1>5, <2>1, <2>2, <2>5
    <3>2. Remotes' = Remotes
      BY <1>9, <3>1 DEF Remotes
    <3>3. r \in Result \ {"success"} /\ Results' = [Results EXCEPT ![c] = <<r>>]
      BY <1>8, <2>2, <2>5
    <3>4. Promise!Fail(c)
      BY <1>7, <1>10, <2>3, <3>2, <3>3
      DEF Promise!Fail, Promise!MayHear, Hears, Results, Remotes, Cancelled
    <3> QED
      BY <3>4 DEF Promise!Next
  <2> QED
    BY <2>4, <2>5
<1> QED
  BY <1>11, <1>12

LEMMA ContinueStep ==
    ASSUME Inv, NEW c \in Clients, NEW s, NEW used,
           ClientInv(c, s, Known(c)), Continue(c, s, used)
    PROVE  Inv' /\ Promised
<1>1. Inv' /\ ResultsKept
  BY ContinueInv
<1>2. Promise!Next
  BY ContinueIsPromised
<1> QED
  BY <1>1, <1>2 DEF Promised

(* What a socket of c may give it.                                         *)
LEMMA AtOK ==
    ASSUME Inv, NEW c \in Clients, NEW a \in {GameAddr(c), NegAddr(c)}, NEW m \in At(c, a)
    PROVE  DatagramOK(c, m, Known(c))
<1>1. Peer(c) \in Clients /\ \A d \in Clients \ {c} : d = Peer(c)
  BY Peers
<1>2. m.to = a /\ (m \in pings \/ m \in FromServer(c))
  BY DEF At
<1>3. CASE m \in pings
  <2>1. PICK x \in Clients, got \in BOOLEAN :
          m = PeerPing(x, got) /\ (got = TRUE => Pair(x) \in client[x].heard)
    BY <1>3 DEF Inv, PingsInv
  <2>2. m.type = "PING" /\ m.to = PeerAddr(x) /\ m.from = PingAddr(x) /\ m.gotyourdata = got
    BY <2>1 DEF PeerPing, Ping
  <2>3. Peer(x) = c
    BY <1>2, <2>2 DEF PeerAddr, PingAddr, GameAddr, NegAddr
  <2>4. x = Peer(c)
    BY <2>3, Peers
  <2>5. m.to = PingAddr(c) /\ m.from = PeerAddr(c)
    BY <2>2, <2>3, <2>4 DEF PeerAddr
  <2>6. got = TRUE => PeerHeard(c, Known(c))
    BY <2>1, <2>3, <2>4 DEF PeerHeard, Known, Pair, PeerAddr
  <2> QED
    BY <2>2, <2>5, <2>6 DEF DatagramOK
<1>4. CASE m \in FromServer(c)
  <2>1. \/ \E q \in Ports(c) :
             m = InitAck(IF q = GP THEN GameAddr(c) ELSE NegAddr(c), q)
        \/ \E e \in {"deadbeatpartner", "unknownerror"} : m = Connect(NegAddr(c), NoAddr, e)
        \/ \E q \in Clients \ {c} : m = Connect(NegAddr(c), PingAddr(q), "noerror")
        \/ m = ReportAck(NegAddr(c))
    BY <1>4 DEF FromServer
  <2> QED
    BY <1>1, <2>1 DEF DatagramOK, InitAck, Connect, ReportAck, PeerAddr
<1> QED
  BY <1>2, <1>3, <1>4

LEMMA BeginInv ==
    ASSUME Inv, NEW c \in Clients, NNBeginNegotiation(c)
    PROVE  Inv' /\ Promised
<1> DEFINE s == client[c]
           t == [s EXCEPT !.open = TRUE]
<1>1. ClientInv(c, s, Known(c)) /\ s \in Ctx(c)
  BY DEF Inv, ClientsInv, ClientInv
<1>2. s.state = "none" /\ Continue(c, SendInitPackets(c, t), {})
  BY DEF NNBeginNegotiation
<1> HIDE DEF s
<1>3. /\ t \in Ctx(c) /\ t.out = s.out /\ t.state = s.state /\ t.guessed = s.guessed
      /\ t.gotRemoteData = s.gotRemoteData /\ t.heard = s.heard
      /\ t.results = s.results /\ t.remote = s.remote /\ t.closed = s.closed
      /\ t.cancelled = s.cancelled
  BY <1>1 DEF Ctx
<1> HIDE DEF t
<1>4. ClientInv(c, t, Known(c)) /\ t.state \in Before
  BY <1>1, <1>2, <1>3 DEF ClientInv, Before
<1> QED
  BY <1>2, <1>4, SendInitInv, ContinueStep

LEMMA CancelStepInv ==
    ASSUME Inv, NEW c \in Clients, Cancel(c)
    PROVE  Inv' /\ Promised
<1> DEFINE s == NNCancel(client[c])
           t == [s EXCEPT !.cancelled = TRUE]
<1>1. ClientInv(c, client[c], Known(c)) /\ client[c] \in Ctx(c)
  BY DEF Inv, ClientsInv, ClientInv
<1>2. client[c].state # "none" /\ client[c].results = <<>> /\ ~client[c].cancelled
      /\ Continue(c, t, {})
  BY DEF Cancel
<1>3. ClientInv(c, s, Known(c)) /\ s \in Ctx(c)
  <2>1. client[c].results # <<"success">>
    BY <1>2
  <2>2. ClientInv(c, s, Known(c))
    BY <1>1, <2>1, CancelInv
  <2> QED
    BY <2>2 DEF ClientInv
<1>4. /\ s.state \notin Before /\ s.results = <<>>
      /\ s.heard = client[c].heard /\ s.remote = client[c].remote
  BY <1>1, <1>2 DEF NNCancel, Ctx, States, Before
<1> HIDE DEF s
<1>5. /\ t \in Ctx(c) /\ t.out = s.out /\ t.state = s.state /\ t.guessed = s.guessed
      /\ t.gotRemoteData = s.gotRemoteData /\ t.heard = s.heard
      /\ t.results = s.results /\ t.remote = s.remote /\ t.closed = s.closed
      /\ t.cancelled = TRUE
  BY <1>3 DEF Ctx
<1> HIDE DEF t
<1>6. ClientInv(c, t, KnownCancelled(c))
  <2>1. /\ KnownCancelled(c).self = Known(c).self /\ KnownCancelled(c).peer = Known(c).peer
        /\ KnownCancelled(c).results = <<>> /\ KnownCancelled(c).cancelled = TRUE
    BY <1>2 DEF KnownCancelled, Known
  <2> QED
    BY <1>3, <1>4, <1>5, <2>1 DEF ClientInv, PeerHeard
<1>7. Inv' /\ ResultsKept
  BY <1>2, <1>6, ContinueInv
<1>8. /\ \A d \in Clients \ {c} : client'[d] = client[d]
      /\ client'[c].heard = client[c].heard /\ client'[c].results = client[c].results
      /\ client'[c].remote = client[c].remote /\ client'[c].cancelled = TRUE
  <2>1. t \in Ctx(c) /\ Continue(c, t, {})
    BY <1>2, <1>5
  <2>2. /\ \A d \in Clients \ {c} : client'[d] = client[d]
        /\ client'[c].heard = t.heard /\ client'[c].results = t.results
        /\ client'[c].remote = t.remote /\ client'[c].cancelled = t.cancelled
    BY <2>1, ContinueClient
  <2> QED
    BY <1>2, <1>4, <1>5, <2>2
<1>9. Promise!Cancel(c)
  <2>1. Hears' = Hears /\ Results' = Results /\ Remotes' = Remotes
    BY <1>8 DEF Hears, Results, Remotes
  <2>2. Cancelled' = Cancelled \cup {c}
    BY <1>8 DEF Cancelled
  <2>3. Promise!Waits(c)
    BY <1>2 DEF Promise!Waits
  <2> QED
    BY <2>1, <2>2, <2>3 DEF Promise!Cancel, Hears, Results, Remotes, Cancelled
<1> QED
  BY <1>7, <1>9 DEF Promised, Promise!Next

(* What the abstract negotiation does not see.                             *)
LEMMA SameIsStutter ==
    ASSUME \A c \in Clients : /\ client'[c].heard = client[c].heard
                              /\ client'[c].results = client[c].results
                              /\ client'[c].remote = client[c].remote
                              /\ client'[c].cancelled = client[c].cancelled
    PROVE  UNCHANGED Promise!vars
<1>1. Hears' = Hears /\ Results' = Results /\ Remotes' = Remotes /\ Cancelled' = Cancelled
  BY DEF Hears, Results, Remotes, Cancelled
<1> QED
  BY <1>1 DEF Promise!vars, Hears, Results, Remotes, Cancelled

LEMMA ExpireInv ==
    ASSUME Inv, NEW c \in Clients, Expire(c)
    PROVE  Inv' /\ Promised
<1> DEFINE s == client[c]
           t == [s EXCEPT !.due = TRUE]
<1>1. ClientInv(c, s, Known(c)) /\ s \in Ctx(c) /\ s.out = {}
      /\ client = [d \in Clients |-> client[d]]
  BY DEF Inv, ClientsInv, ClientInv
<1>2. client' = [client EXCEPT ![c].due = TRUE] /\ pings' = pings /\ toServer' = toServer
  BY DEF Expire
<1>3. client' = [d \in Clients |-> client'[d]] /\ client'[c] = t
      /\ \A d \in Clients \ {c} : client'[d] = client[d]
  BY <1>1, <1>2
<1>4. /\ t \in Ctx(c) /\ t.out = s.out /\ t.state = s.state /\ t.guessed = s.guessed
      /\ t.gotRemoteData = s.gotRemoteData /\ t.heard = s.heard
      /\ t.results = s.results /\ t.remote = s.remote /\ t.closed = s.closed
      /\ t.cancelled = s.cancelled
  BY <1>1 DEF Ctx
<1> HIDE DEF t
<1>5. \A d \in Clients : Known(d)' = Known(d)
  BY <1>3, <1>4, Peers DEF Known
<1>6. ClientInv(c, t, Known(c)') /\ t.out = {}
  BY <1>1, <1>4, <1>5 DEF ClientInv
<1>7. ClientsInv'
  <2>1. ASSUME NEW d \in Clients
        PROVE  client'[d].out = {} /\ ClientInv(d, client'[d], Known(d)')
    BY <1>3, <1>5, <1>6 DEF Inv, ClientsInv
  <2> QED
    BY <1>3, <2>1 DEF ClientsInv
<1>8. \A d \in Clients : client'[d].heard = client[d].heard
  BY <1>3, <1>4
<1>9. Inv' /\ ResultsKept
  BY <1>2, <1>3, <1>4, <1>7, <1>8 DEF Inv, PingsInv, ServerInv, ResultsKept
<1>10. \A d \in Clients : /\ client'[d].results = client[d].results
                          /\ client'[d].remote = client[d].remote
                          /\ client'[d].cancelled = client[d].cancelled
  BY <1>3, <1>4
<1> QED
  BY <1>8, <1>9, <1>10, SameIsStutter DEF Promised

LEMMA NextInv ==
    Inv /\ [Next]_vars => Inv' /\ Promised
<1> SUFFICES ASSUME Inv, [Next]_vars PROVE Inv' /\ Promised
  OBVIOUS
<1>1. CASE UNCHANGED vars
  <2>1. Inv' /\ ResultsKept
    BY <1>1 DEF vars, ResultsKept, Inv, ClientsInv, PingsInv, ServerInv, Known
  <2> QED
    BY <1>1, <2>1, SameIsStutter DEF vars, Promised
<1>2. ASSUME NEW c \in Clients, NNBeginNegotiation(c) PROVE Inv' /\ Promised
  BY <1>2, BeginInv
<1>3. ASSUME NEW c \in Clients, Cancel(c) PROVE Inv' /\ Promised
  BY <1>3, CancelStepInv
<1>4. ASSUME NEW c \in Clients, GameReceive(c) PROVE Inv' /\ Promised
  <2>1. PICK m \in At(c, GameAddr(c)) : Continue(c, NNProcessData(c, client[c], m), {m})
    BY <1>4 DEF GameReceive
  <2>2. DatagramOK(c, m, Known(c)) /\ ClientInv(c, client[c], Known(c))
    BY AtOK DEF Inv, ClientsInv
  <2> QED
    BY <2>1, <2>2, ProcessDataInv, ContinueStep
<1>5. ASSUME NEW c \in Clients, NEW m \in At(c, NegAddr(c)) \cup {NoDatagram}, NNThink(c, m)
      PROVE  Inv' /\ Promised
  <2>1. Continue(c, NegotiateThink(c, client[c], m), {m})
    BY <1>5 DEF NNThink
  <2>2. m = NoDatagram \/ DatagramOK(c, m, Known(c))
    BY <1>5, AtOK
  <2>3. ClientInv(c, client[c], Known(c))
    BY DEF Inv, ClientsInv
  <2> QED
    BY <2>1, <2>2, <2>3, ThinkInv, ContinueStep
<1>6. ASSUME NEW c \in Clients, Expire(c) PROVE Inv' /\ Promised
  BY <1>6, ExpireInv
<1> QED
  BY <1>1, <1>2, <1>3, <1>4, <1>5, <1>6 DEF Next

LEMMA InvHolds == Spec => []Inv
BY InitInv, NextInv, PTL DEF Spec
-----------------------------------------------------------------------------
(* The properties.                                                         *)

LEMMA TypeOKFromInv == Inv => TypeOK
<1> SUFFICES ASSUME Inv PROVE TypeOK
  OBVIOUS
<1>1. ASSUME NEW c \in Clients PROVE client[c] \in Context(c)
  <2>1. client[c] \in Ctx(c) /\ client[c].out = {}
    BY DEF Inv, ClientsInv, ClientInv
  <2>2. States = {NegotiateState[i] : i \in 1..7} \cup {"none", "removed"}
    <3>1. {NegotiateState[i] : i \in 1..7} =
            {"initsent", "initack", "connectping", "finished",
             "canceled", "reportsent", "reportack"}
      <4>1. \A i \in 1..7 : i \in {1, 2, 3, 4, 5, 6, 7}
        OBVIOUS
      <4>2. {NegotiateState[i] : i \in 1..7} = {NegotiateState[i] : i \in {1, 2, 3, 4, 5, 6, 7}}
        BY <4>1
      <4> QED
        BY <4>2 DEF NegotiateState
    <3> QED
      BY <3>1 DEF States
  <2>3. {NoAddr, PeerAddr(c)} \subseteq Address
    BY Addresses
  <2> DEFINE s == client[c]
  <2> HIDE DEF s
  <2>4. s \in Ctx(c) /\ s.out = {} => s \in Context(c)
    BY <2>2, <2>3 DEF Ctx, Context, Count
  <2> QED
    BY <2>1, <2>4 DEF s
<1>2. pings \subseteq {Ping(to, from, got) : to \in Address, from \in Address, got \in BOOLEAN}
  <2> SUFFICES ASSUME NEW m \in pings
               PROVE  \E to \in Address, from \in Address, got \in BOOLEAN :
                        m = Ping(to, from, got)
    OBVIOUS
  <2>1. PICK x \in Clients, got \in BOOLEAN : m = Ping(PeerAddr(x), PingAddr(x), got)
    BY DEF Inv, PingsInv, PeerPing
  <2> QED
    BY <2>1, Addresses
<1> QED
  BY <1>1, <1>2 DEF TypeOK, Inv, ServerInv

(* Every negotiator keeps to its structure's values, and no retry counter  *)
(* passes the limits: NegotiateThink tests the count before every retry.   *)
THEOREM TypeOKHolds == Spec => []TypeOK
BY InvHolds, TypeOKFromInv, PTL

(* The completed callback is called once: no ping, timer or answer of the  *)
(* server that NNProcessData or NegotiateThink meets after it calls it     *)
(* again.                                                                  *)
THEOREM AnsweredOnceHolds == Spec => []AnsweredOnce
<1>1. Inv => AnsweredOnce
  <2> SUFFICES ASSUME Inv, NEW c \in Clients PROVE Len(client[c].results) <= 1
    BY DEF AnsweredOnce
  <2>1. client[c].results = <<>> \/ \E r \in Result : client[c].results = <<r>>
    BY DEF Inv, ClientsInv, ClientInv
  <2>2. CASE client[c].results = <<>>
    BY <2>2
  <2>3. ASSUME NEW r \in Result, client[c].results = <<r>> PROVE Len(client[c].results) <= 1
    <3>1. Len(<<r>>) = 1
      OBVIOUS
    <3> QED
      BY <2>3, <3>1
  <2> QED
    BY <2>1, <2>2, <2>3
<1> QED
  BY <1>1, InvHolds, PTL

(* A success is given to the application only when each of the clients has *)
(* heard the other at the addresses in use: gotyourdata is set by a peer   *)
(* that heard a ping, and ProcessPingPacket completes only on it.          *)
THEOREM SuccessIsMutualHolds == Spec => []SuccessIsMutual
<1>1. Inv => SuccessIsMutual
  <2> SUFFICES ASSUME Inv, NEW c \in Clients, Succeeded(c)
               PROVE  /\ <<PingAddr(c), client[c].remote>> \in client[c].heard
                      /\ <<client[c].remote, PingAddr(c)>> \in client[Peer(c)].heard
    BY DEF SuccessIsMutual
  <2>1. client[c].remote = PeerAddr(c) /\ Pair(c) \in client[c].heard
        /\ PeerHeard(c, Known(c))
    BY DEF Inv, ClientsInv, ClientInv, Succeeded
  <2> QED
    BY <2>1 DEF Pair, PeerHeard, Known
<1> QED
  BY <1>1, InvHolds, PTL

(* The socket handed over on success is never closed by the library:       *)
(* RemoveFinishedNegotiator forgets it before it cancels.                  *)
THEOREM SocketKeptHolds == Spec => []SocketKept
<1>1. Inv => SocketKept
  BY DEF Inv, ClientsInv, ClientInv, SocketKept, Succeeded
<1> QED
  BY <1>1, InvHolds, PTL

(* No step gives a cancelled negotiation a result: NNCancel's state is     *)
(* beyond those from which StartReport is called.                          *)
THEOREM CancelIsFinalHolds == Spec => CancelIsFinal
<1>1. Inv /\ [Next]_vars =>
        [\A c \in Clients : client[c].cancelled => client'[c].results = client[c].results]_vars
  BY NextInv DEF Promised, ResultsKept
<1> QED
  BY <1>1, InvHolds, PTL DEF Spec, CancelIsFinal

(* natneg.c keeps the promise of Negotiation: a result is given to a       *)
(* client that waits for one, a success when each of the clients has heard *)
(* the other, and nothing after a cancel, in every step of either client.  *)
THEOREM ImplementsNegotiationHolds == Spec => ImplementsNegotiation
<1>1. Init => Promise!Init
  <2> SUFFICES ASSUME Init PROVE Promise!Init
    OBVIOUS
  <2>1. \A c \in Clients : client[c].heard = {} /\ client[c].results = <<>>
                           /\ client[c].remote = NoAddr /\ client[c].cancelled = FALSE
    BY DEF Init
  <2>2. /\ Hears = {} /\ Cancelled = {}
        /\ Results = [c \in Clients |-> <<>>] /\ Remotes = [c \in Clients |-> NoAddr]
    BY <2>1 DEF Hears, Results, Remotes, Cancelled
  <2> QED
    BY <2>2 DEF Promise!Init, Hears, Results, Remotes, Cancelled
<1>2. Inv /\ [Next]_vars => [Promise!Next]_(Promise!vars)
  BY NextInv DEF Promised
<1> QED
  BY <1>1, <1>2, InvHolds, PTL DEF Spec, Promise!Spec, ImplementsNegotiation
=============================================================================
