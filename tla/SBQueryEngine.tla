---------------------------- MODULE SBQueryEngine ----------------------------
(***************************************************************************)
(* Server browsing (serverbrowsing/sb_queryengine.c, with the callers of   *)
(* the engine in sb_serverbrowsing.c and sb_serverlist.c): the browser     *)
(* keeps a list of game servers, queries at most maxupdates of them at a   *)
(* time over UDP, keeps the others waiting in a FIFO, and tells the        *)
(* application what became of each query.                                  *)
(*                                                                         *)
(* An operator stands for the function of the same name, and takes the     *)
(* engine e before the call to the engine after it.  The library is cut    *)
(* wherever it calls the application back: the frame of the callback keeps *)
(* what the code holds across it, and the application may call the library *)
(* again before it returns, so that callbacks are open inside one another. *)
(* Queries and replies are delayed, lost, repeated and overtaken: a server *)
(* may answer any query it was ever sent, at any time.  QR2 replies of one *)
(* packet; servers that can be reached directly; no ICMP (SB_ICMP_SUPPORT  *)
(* is not defined by default); every call is asynchronous.                 *)
(***************************************************************************)
EXTENDS Integers, Sequences, SequencesExt, FiniteSets

CONSTANTS
    Servers,        \* server objects (SBServer)
    Addresses,      \* addresses of game servers
    Address,        \* the address of each server object
    maxupdates,     \* as in SBQueryEngine
    numserverkeys,  \* as in SBQueryEngine
    UseChallenge,   \* whether backendgameflags has QR2_USE_QUERY_CHALLENGE
    Reentry,        \* calls in a callback that the library does not stand
    MaxCalls        \* bound: AuxUpdate calls of the application

ASSUME SBAssumption ==
    /\ IsFiniteSet(Servers) /\ Address \in [Servers -> Addresses]
    /\ {maxupdates, numserverkeys, MaxCalls} \subseteq Nat
    /\ maxupdates > 0 /\ UseChallenge \in BOOLEAN
    /\ Reentry \subseteq {<<"inadded", "remove">>, <<"indeleted", "remove">>,
                          <<"indeleted", "update">>, <<"indeleted", "sort">>}

VARIABLES
    engine,     \* the query engine, with the state of the servers
    list,       \* the servers of the list, in its order
    dontUpdate, \* as in ServerBrowser
    think,      \* how far the think of the browser has come
    callbacks,  \* the callbacks that have not returned, the innermost first
    calls       \* the AuxUpdate calls made so far

vars == <<engine, list, dontUpdate, think, callbacks, calls>>

\* What the code holds across a callback: the server, and the place in the
\* list of one that is being deleted.
Callback(where, server, index) ==
    [where |-> where, server |-> server, index |-> index]
Open(where) == {c \in ToSet(callbacks) : c.where = where}
Held == {c.server : c \in ToSet(callbacks)}

\* The bits of a server's state that stand for a query of its keys.  What it
\* has answered (basic keys, full keys, a valid ping) decides nothing here: a
\* server that is added has no valid ping.
PENDING == {"pendingbasic", "pendingfull"}
StateBit == PENDING \cup {"pendingchallenge"}

-----------------------------------------------------------------------------
(* The engine: its two FIFOs and each server's state, and for the network  *)
(* and the history  due: the outstanding queries whose time has passed,    *)
(* owed: the servers for which a query was asked of which the application  *)
(* has not been told since,  failed: the server that it is being told has  *)
(* failed, until it does something to that server.                         *)

FIFORemove(fifo, s) == RemoveFirst(fifo, s)

\* For the servers of a sequence, in their order.  A server's state tells
\* what it is asked for.
QEStartQueries(e, servers) ==
    [e EXCEPT !.query = @ \o servers, !.due = @ \ ToSet(servers)]
QEStartQuery(e, s) == QEStartQueries(e, <<s>>)

AskFor(e, s, qtype) ==
    LET bits == {qtype} \cup (IF UseChallenge THEN {"pendingchallenge"} ELSE {})
    IN  [e EXCEPT !.state[s] = (@ \ (PENDING \cup {"pendingchallenge"})) \cup bits,
                  !.owed = @ \cup {s}]

\* A mutant: the limit is off by one.
UpdateServerOverLimit(e, s, addfront, qtype) ==
    IF Len(e.query) <= maxupdates THEN QEStartQuery(AskFor(e, s, qtype), s)
    ELSE [AskFor(e, s, qtype) EXCEPT !.pending = IF addfront THEN <<s>> \o @
                                                 ELSE Append(@, s)]

SBQueryEngineUpdateServer(e, s, addfront, qtype) ==
    IF Len(e.query) < maxupdates THEN QEStartQuery(AskFor(e, s, qtype), s)
    ELSE [AskFor(e, s, qtype) EXCEPT !.pending = IF addfront THEN <<s>> \o @
                                                 ELSE Append(@, s)]

\* A mutant: only the outstanding queries are searched.
RemoveFromQueryList(e, s) ==
    [e EXCEPT !.query = FIFORemove(@, s), !.due = @ \ {s}, !.failed = @ \ {s}]

SBQueryEngineRemoveServerFromFIFOs(e, s) ==
    IF Contains(e.query, s)
    THEN [e EXCEPT !.query = FIFORemove(@, s), !.due = @ \ {s}, !.failed = @ \ {s}]
    ELSE [e EXCEPT !.pending = FIFORemove(@, s)]

SBEngineHaltUpdates(e) ==
    [e EXCEPT !.query = <<>>, !.pending = <<>>, !.due = {}, !.owed = {}, !.failed = {}]

\* A mutant: the query stays outstanding after its reply.
ReplyStaysOutstanding(e, s, empty) ==
    [e EXCEPT !.state[s] = {}, !.owed = @ \ {s}]

\* The kind of reply is not compared with what was asked: the first is taken
\* for the challenge when there is one, and the next for the keys.  An empty
\* one in the place of the challenge ends the query without keys.
ParseSingleQR2Reply(e, s, empty) ==
    LET removed == [e EXCEPT !.query = FIFORemove(@, s), !.due = @ \ {s}]
    IN  IF "pendingchallenge" \in e.state[s] /\ ~empty
        THEN QEStartQuery([removed EXCEPT !.state[s] = @ \ {"pendingchallenge"}], s)
        ELSE [removed EXCEPT !.state[s] = {}, !.owed = @ \ {s}]

\* After the callback for a failed query the first one is taken off.  If the
\* application has done something to the failed server, it is another query,
\* or a new one, and is lost: it is owed no more.
FailedServer(e) ==
    IF e.query = <<>> THEN e
    ELSE LET first == Head(e.query)
         IN  [e EXCEPT !.query = Tail(@), !.due = @ \ {first}, !.failed = {},
                       !.owed = IF e.failed = {} THEN @ \ {first} ELSE @]

\* A mutant: the next queries are left to those who ask for them.
QueueNone(e) == e

QueueNextQueries(e) ==
    LET free == maxupdates - Len(e.query)
        n == IF Len(e.pending) < free THEN Len(e.pending) ELSE free
    IN  QEStartQueries([e EXCEPT !.pending = SubSeq(@, n + 1, Len(@))],
                       SubSeq(e.pending, 1, n))

-----------------------------------------------------------------------------
(* The list, and what the browser does when the list calls it back.        *)

\* What follows the application's callback for an added server.
AddedServer(e, s) ==
    IF PENDING \cap e.state[s] # {} \/ dontUpdate THEN e
    ELSE SBQueryEngineUpdateServer(e, s, FALSE,
             IF numserverkeys = 0 THEN "pendingfull" ELSE "pendingbasic")

\* What precedes the application's callback for a server to be deleted.
DeletedServer(e, s) ==
    LET removed == IF PENDING \cap e.state[s] = {} THEN e
                   ELSE SBQueryEngineRemoveServerFromFIFOs(e, s)
    IN  [removed EXCEPT !.owed = @ \ {s}]

\* An index that is none of the array's takes its last element.
ArrayDeleteAt(array, index) ==
    IF index \in DOMAIN array THEN RemoveAt(array, index)
    ELSE SubSeq(array, 1, Len(array) - 1)

SBServerListFindServer(s) == SelectInSeq(list, LAMBDA t : t = s)
FirstWithAddress(servers, s) ==
    \E i \in DOMAIN servers :
        servers[i] = s /\ \A j \in 1..(i - 1) : Address[servers[j]] # Address[s]

\* The application is told before the server leaves the list; it is freed by
\* the next think of the list.
SBServerListRemoveAt(s) ==
    /\ engine' = DeletedServer(engine, s)
    /\ callbacks' = <<Callback("indeleted", s, SBServerListFindServer(s))>> \o callbacks
    /\ UNCHANGED <<list, dontUpdate, think, calls>>

SBServerListAppendServer(where, s) ==
    /\ list' = Append(list, s)
    /\ callbacks' = <<Callback(where, s, 0)>> \o callbacks

-----------------------------------------------------------------------------
Init ==
    /\ engine = [query |-> <<>>, pending |-> <<>>, state |-> [s \in Servers |-> {}],
                 due |-> {}, owed |-> {}, failed |-> {}]
    /\ list = <<>> /\ dontUpdate = FALSE /\ think = "out" /\ callbacks = <<>>
    /\ calls = 0

-----------------------------------------------------------------------------
(* The application's calls, out of the library or in a callback.  At the   *)
(* end of a think it is called back with no server (sbc_updatecomplete).   *)

InApplication == callbacks # <<>> \/ think \in {"out", "list"}

\* Unless Reentry has the call, what the library holds across a callback is
\* left as it is: an added server stays in the list, one that is being
\* deleted stays where it is and is not queried again.
MayRemove(s) ==
    /\ InApplication /\ s \in ToSet(list)
    /\ s \in {c.server : c \in Open("inadded")} => <<"inadded", "remove">> \in Reentry
    /\ (\E c \in Open("indeleted") : SBServerListFindServer(s) <= c.index)
         => <<"indeleted", "remove">> \in Reentry

MayUpdate(s) ==
    /\ InApplication /\ s \in ToSet(list)
    /\ s \in {c.server : c \in Open("indeleted")} => <<"indeleted", "update">> \in Reentry

\* The object of a server that is added has just been allocated.
Fresh(s) == s \notin ToSet(list) /\ s \notin Held

ServerBrowserRemoveServer(s) == MayRemove(s) /\ SBServerListRemoveAt(s)

ServerBrowserAuxUpdateServer(s, qtype) ==
    /\ MayUpdate(s) /\ calls < MaxCalls
    /\ engine' = SBQueryEngineUpdateServer(
                     SBQueryEngineRemoveServerFromFIFOs(engine, s), s, TRUE, qtype)
    /\ dontUpdate' = FALSE /\ calls' = calls + 1
    /\ UNCHANGED <<list, think, callbacks>>

\* A server that is not in the list yet is queried and added; that it then
\* has a query is an error, which returns before dontUpdate is reset.
AuxUpdateNewIP(s, qtype) ==
    /\ InApplication /\ Fresh(s) /\ calls < MaxCalls
    /\ \A t \in ToSet(list) : Address[t] # Address[s]
    /\ engine' = SBQueryEngineUpdateServer(engine, s, TRUE, qtype)
    /\ SBServerListAppendServer("innew", s)
    /\ dontUpdate' = TRUE /\ calls' = calls + 1
    /\ UNCHANGED think

AuxUpdateKnownIP(s, qtype) ==
    LET duplicate == PENDING \cap engine.state[s] # {}
    IN  /\ InApplication /\ calls < MaxCalls /\ FirstWithAddress(list, s)
        /\ ~duplicate => MayUpdate(s)
        /\ engine' = IF duplicate THEN engine
                     ELSE SBQueryEngineUpdateServer(engine, s, TRUE, qtype)
        /\ dontUpdate' = duplicate /\ calls' = calls + 1
        /\ UNCHANGED <<list, think, callbacks>>

ServerBrowserHalt ==
    /\ InApplication /\ engine.query \o engine.pending # <<>>
    /\ engine' = SBEngineHaltUpdates(engine)
    /\ UNCHANGED <<list, dontUpdate, think, callbacks, calls>>

ServerBrowserClear ==
    /\ InApplication /\ callbacks = <<>> /\ list # <<>>
    /\ engine' = [SBEngineHaltUpdates(engine) EXCEPT !.state = [s \in Servers |-> {}]]
    /\ list' = <<>>
    /\ UNCHANGED <<dontUpdate, think, callbacks, calls>>

ServerBrowserSort ==
    /\ InApplication
    /\ Open("indeleted") # {} => <<"indeleted", "sort">> \in Reentry
    /\ \E order \in Bijection(DOMAIN list, DOMAIN list) :
         list' = [i \in DOMAIN list |-> list[order[i]]]
    /\ UNCHANGED <<engine, dontUpdate, think, callbacks, calls>>

Application ==
    \/ ServerBrowserHalt \/ ServerBrowserClear \/ ServerBrowserSort
    \/ \E s \in Servers :
         \/ ServerBrowserRemoveServer(s)
         \/ \E q \in PENDING : \/ ServerBrowserAuxUpdateServer(s, q)
                               \/ AuxUpdateNewIP(s, q) \/ AuxUpdateKnownIP(s, q)

-----------------------------------------------------------------------------
(* ServerBrowserThink: the engine's replies, timeouts and next queries,    *)
(* then messages of the list's server.  It goes on when no callback is     *)
(* open.                                                                   *)

GoesOn(at) == think = at /\ callbacks = <<>>

GoTo(next) == think' = next /\ UNCHANGED <<list, dontUpdate, callbacks, calls>>

CallBack(where, server) ==
    /\ callbacks' = <<Callback(where, server, 0)>>
    /\ UNCHANGED <<list, dontUpdate, think, calls>>

ServerBrowserThink ==
    /\ GoesOn("out") /\ GoTo(IF engine.query = <<>> THEN "list" ELSE "replies")
    /\ UNCHANGED engine

\* A reply finds the first of its address among the outstanding queries: it
\* has been sent one, which it answers, or it answers an earlier one.
ProcessIncomingReply(s) ==
    /\ GoesOn("replies") /\ Contains(engine.query, s) /\ FirstWithAddress(engine.query, s)
    /\ \E empty \in BOOLEAN : engine' = ParseSingleQR2Reply(engine, s, empty)
    /\ CallBack("inreply", s)

\* The socket is empty.
EndReplies == GoesOn("replies") /\ GoTo("timeouts") /\ UNCHANGED engine


TimedOut(e) == e.query # <<>> /\ Head(e.query) \in e.due

\* The marks of the failed query are made in the server's flags: its state
\* stays that of a server with a query.
TimeoutOldQuery ==
    /\ GoesOn("timeouts") /\ TimedOut(engine)
    /\ engine' = [engine EXCEPT !.owed = @ \ {Head(engine.query)},
                                !.failed = {Head(engine.query)}]
    /\ CallBack("infailed", Head(engine.query))

EndTimeouts ==
    /\ GoesOn("timeouts") /\ ~TimedOut(engine)
    /\ engine' = QueueNextQueries(engine) /\ GoTo("list")

\* The list never looks up the address of a server that it is sent.
AddServer(s) ==
    /\ GoesOn("list") /\ Fresh(s) /\ SBServerListAppendServer("inadded", s)
    /\ UNCHANGED <<engine, dontUpdate, think, calls>>

ProcessDeleteServer(s) ==
    GoesOn("list") /\ FirstWithAddress(list, s) /\ SBServerListRemoveAt(s)

EndThink == GoesOn("list") /\ GoTo("out") /\ UNCHANGED engine

\* The innermost callback returns.  What runs on after that of a server of
\* AuxUpdateNewIP finds that the server has a query and does nothing.
ReturnFrom(where) ==
    /\ callbacks # <<>> /\ Head(callbacks).where = where
    /\ callbacks' = Tail(callbacks) /\ UNCHANGED <<dontUpdate, think, calls>>

ReturnDeleted ==
    LET c == Head(callbacks)
    IN  /\ ReturnFrom("indeleted") /\ list' = ArrayDeleteAt(list, c.index)
        /\ engine' = [engine EXCEPT !.state[c.server] = {}]

Return ==
    \/ ReturnDeleted
    \/ /\ UNCHANGED list
       /\ \/ ReturnFrom("inreply") /\ UNCHANGED engine
          \/ ReturnFrom("innew") /\ UNCHANGED engine
          \/ ReturnFrom("infailed") /\ engine' = FailedServer(engine)
          \/ /\ ReturnFrom("inadded")
             /\ engine' = AddedServer(engine, Head(callbacks).server)

\* Time passes: a query expires no earlier than those before it.
Expire ==
    /\ \E i \in 1..Len(engine.query) :
         /\ engine.query[i] \notin engine.due
         /\ \A j \in 1..(i - 1) : engine.query[j] \in engine.due
         /\ engine' = [engine EXCEPT !.due = @ \cup {engine.query[i]}]
    /\ UNCHANGED <<list, dontUpdate, think, callbacks, calls>>

Library == EndReplies \/ TimeoutOldQuery \/ Return \/ EndTimeouts \/ EndThink
Environment == \E s \in Servers : ProcessIncomingReply(s) \/ AddServer(s) \/ ProcessDeleteServer(s)

Next == Application \/ ServerBrowserThink \/ Library \/ Environment \/ Expire

Spec == Init /\ [][Next]_vars

\* The application thinks again and again and its callbacks return; a think
\* comes to its end, also when the list's server goes on sending; and time
\* passes.
FairSpec == /\ Spec /\ WF_vars(ServerBrowserThink) /\ WF_vars(Library)
            /\ SF_vars(EndThink) /\ WF_vars(Expire)

-----------------------------------------------------------------------------
(* Properties.                                                             *)

Queued == ToSet(engine.query) \cup ToSet(engine.pending)

Engine ==
    [query : Seq(Servers), pending : Seq(Servers), state : [Servers -> SUBSET StateBit],
     due : SUBSET Servers, owed : SUBSET Servers, failed : SUBSET Servers]

Frame == [where : {"inreply", "infailed", "inadded", "innew", "indeleted"},
          server : Servers, index : Nat]

\* The variables have their types: at most maxupdates queries are
\* outstanding, whoever asks for them and from wherever, and time passes for
\* outstanding queries only.
TypeOK ==
    /\ engine \in Engine /\ list \in Seq(Servers)
    /\ Len(engine.query) <= maxupdates /\ engine.due \subseteq ToSet(engine.query)
    /\ dontUpdate \in BOOLEAN /\ calls \in 0..MaxCalls
    /\ think \in {"out", "replies", "timeouts", "list"}
    /\ callbacks \in Seq(Frame)

\* A server is in one FIFO at most and there once (the two share the link
\* field of the server), is one of the list that is not being deleted (a
\* server in a FIFO is not freed), and its state says so (what its removal
\* from the list goes by), in whatever callbacks the calls are made.
FifosSound ==
    /\ IsInjective(engine.query \o engine.pending)
    /\ Queued \subseteq ToSet(list) \ {c.server : c \in Open("indeleted")}
    /\ \A s \in Queued : PENDING \cap engine.state[s] # {}

\* A query that was asked for is in a FIFO until the application is told of
\* it, once: none is lost and none is told of twice, but for the one that
\* goes when the application does something to a failed server as it is told
\* of it.  A failed query leaves its FIFO after its callback.
OwedIsQueued == engine.owed = Queued \ engine.failed

\* Queries wait, none is outstanding and the engine has had its turn in the
\* think: the next one does nothing for them.
Stranded ==
    /\ think \in {"out", "list"}
    /\ engine.query = <<>> /\ engine.pending # <<>>

\* It is the removal of a server out of the engine's think that leaves the
\* others so, and nothing else.
StrandedOnlyByRemoval ==
    [][~Stranded /\ Stranded' => \E s \in Servers : SBServerListRemoveAt(s)]_vars

=============================================================================
