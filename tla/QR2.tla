--------------------------------- MODULE QR2 ---------------------------------
(***************************************************************************)
(* Query and reporting 2 (qr2/qr2.c): a game host keeps itself listed with *)
(* the master server by heartbeats, tells it of changes of the game's      *)
(* state, and is passed messages that clients send it through the master.  *)
(*                                                                         *)
(* qr is the structure qr2_implementation_s of a public host that owns its *)
(* socket.  Time is the age of the last heartbeat: "new", older than       *)
(* FIRST_HB_TIME and MIN_STATECHANGED_HB_TIME (both 10 s), or older than   *)
(* HB_TIME ("max", also before the first).  Heartbeats are not answered    *)
(* here: whatever the master sends may arrive at any time, be repeated,    *)
(* overtaken or lost.  The history: changed, that the game's state changed *)
(* since the last heartbeat; events, the first packet of the protocol and  *)
(* what the error callback was told; delivered, how often the game was     *)
(* given each message.  An operator is the function of its name, from the  *)
(* structure before the call to the one after it.                          *)
(***************************************************************************)
EXTENDS Integers, Sequences, FiniteSets

CONSTANTS
    Messages,           \* keys of the messages of clients
    RECENT_MESSAGES,    \* RECENT_CLIENT_MESSAGES_TO_TRACK
    MAX_FIRST_COUNT,
    MaxDelivered        \* bound of the history: deliveries counted of a message

ASSUME QR2Assumption ==
    /\ IsFiniteSet(Messages) /\ "none" \notin Messages
    /\ {RECENT_MESSAGES, MAX_FIRST_COUNT, MaxDelivered} \subseteq Nat \ {0}

VARIABLE qr

NoKey == "none"
QREvent == {"heard", "nochallenge", "adderror"}

Host == [hbsock : BOOLEAN, listed_state : -1..MAX_FIRST_COUNT,
         age : {"new", "min", "max"}, userstatechangerequested : BOOLEAN,
         client_message_keys : [0..(RECENT_MESSAGES - 1) -> Messages \cup {NoKey}],
         cur_message_key : 0..(RECENT_MESSAGES - 1), changed : BOOLEAN,
         events : Seq(QREvent), delivered : [Messages -> 0..MaxDelivered]]

QRTypeOK == qr \in Host

NewHost == [hbsock |-> FALSE, listed_state |-> 1, age |-> "max",
            userstatechangerequested |-> FALSE,
            client_message_keys |-> [i \in 0..(RECENT_MESSAGES - 1) |-> NoKey],
            cur_message_key |-> 0, changed |-> FALSE, events |-> <<>>,
            delivered |-> [m \in Messages |-> 0]]

QRInit == qr = NewHost

-----------------------------------------------------------------------------
\* Every heartbeat but that of the end carries the game's state.
send_heartbeat(r, statechanged) ==
    [r EXCEPT !.age = "new", !.changed = IF statechanged = 2 THEN @ ELSE FALSE,
              !.userstatechangerequested = IF statechanged = 0 THEN @ ELSE FALSE]

\* A mutant: the state is not kept for later when it is too soon.
StateChangedDiscarded(r) ==
    IF r.age = "new" THEN r ELSE send_heartbeat(r, 1)

qr2_send_statechanged(r) ==
    IF r.age = "new" THEN [r EXCEPT !.userstatechangerequested = TRUE]
    ELSE send_heartbeat(r, 1)

\* Mutants: the error leaves the host unlisted and waiting; a host the
\* master has refused does not send heartbeats.
HeartbeatErrorStays(r) ==
    IF r.listed_state > 0 /\ r.age # "new"
    THEN IF r.listed_state >= MAX_FIRST_COUNT
         THEN [r EXCEPT !.events = Append(@, "nochallenge")]
         ELSE [send_heartbeat(r, 3) EXCEPT !.listed_state = @ + 1]
    ELSE r
HeartbeatUnlessRefused(r) ==
    IF r.listed_state >= 0 /\ r.age # "new" THEN send_heartbeat(r, 3) ELSE r

qr2_check_send_heartbeat(r) ==
    CASE r.listed_state > 0 /\ r.age # "new" ->
           IF r.listed_state >= MAX_FIRST_COUNT
           THEN [r EXCEPT !.listed_state = 0, !.events = Append(@, "nochallenge")]
           ELSE [send_heartbeat(r, 3) EXCEPT !.listed_state = @ + 1]
      [] r.listed_state <= 0 /\ r.age # "new" /\ r.userstatechangerequested ->
           send_heartbeat(r, 1)
      [] r.listed_state <= 0 /\ r.age = "max" /\ ~r.userstatechangerequested ->
           send_heartbeat(r, 0)
      [] OTHER -> r

-----------------------------------------------------------------------------
(* Packets.                                                                *)

Remembered(r, m) == \E i \in DOMAIN r.client_message_keys : r.client_message_keys[i] = m

\* A mutant: the place to remember a key at does not move.
RememberInPlace(r, m) == [r EXCEPT !.client_message_keys[r.cur_message_key] = m]

Remember(r, m) ==
    LET i == (r.cur_message_key + 1) % RECENT_MESSAGES
    IN  [r EXCEPT !.cur_message_key = i, !.client_message_keys[i] = m]

\* The message is acknowledged in either case.
ClientMessage(r, m) ==
    IF Remembered(r, m) THEN r
    ELSE [Remember(r, m) EXCEPT
            !.delivered[m] = IF @ < MaxDelivered THEN @ + 1 ELSE @]

AddError(r) ==
    IF r.listed_state = -1 THEN r
    ELSE [r EXCEPT !.listed_state = -1, !.events = Append(@, "adderror")]

\* Any packet of the protocol, whatever it is and whoever sent it, shows
\* that packets arrive.  "query" stands for those that are only answered.
qr2_parse_query(r, packet) ==
    LET first == \A i \in DOMAIN r.events : r.events[i] # "heard"
        heard == [r EXCEPT !.listed_state = IF @ > 0 THEN 0 ELSE @,
                           !.events = IF first THEN Append(@, "heard") ELSE @]
    IN  CASE packet.type = "adderror" -> AddError(heard)
          [] packet.type = "clientmessage" -> ClientMessage(heard, packet.key)
          [] packet.type = "query" -> heard
          [] OTHER -> r

QRPacket == {[type |-> "adderror"], [type |-> "query"]}
            \cup {[type |-> "clientmessage", key |-> m] : m \in Messages}

-----------------------------------------------------------------------------
qr2_init == ~qr.hbsock /\ qr' = [NewHost EXCEPT !.hbsock = TRUE]

\* The last heartbeat only says that the host leaves, and the structure is
\* freed.
qr2_shutdown == qr.hbsock /\ qr' = NewHost

\* The game's state changes and it says so.
StateChanged ==
    /\ qr.hbsock
    /\ qr' = qr2_send_statechanged([qr EXCEPT !.changed = TRUE])

QRPass ==
    /\ qr.hbsock /\ qr.age # "max"
    /\ qr' = [qr EXCEPT !.age = IF @ = "new" THEN "min" ELSE "max"]
=============================================================================
