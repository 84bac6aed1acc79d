---------------------------- MODULE GameHostProofs ----------------------------
(***************************************************************************)
(* A game host, for any messages, users, keys and limits: its structures   *)
(* keep their types, query and reporting keeps a change of the game's      *)
(* state until it is sent, tells the game of an error once and gives it    *)
(* each message once, and the CD key SDK asks about a key and tells the    *)
(* application of a user once.  HostInv is the inductive invariant of      *)
(* QR2's structure, ProductInv (CDKeyProofs) that of the CD key SDK's.     *)
(***************************************************************************)
EXTENDS GameHost, CDKeyProofs

Delivered(r) == {m \in Messages : r.delivered[m] # 0}

(* A change that was not sent is remembered. *)
ChangeKept(r) == r.changed => r.userstatechangerequested

(* What the game was told, by the state of the listing. *)
Unlike(q, e) == \A i \in 1..Len(q) : q[i] # e
Ordered(q) ==
    \A i, j \in 1..Len(q) : i < j => q[i] # q[j] /\ q[j] # "nochallenge"
EventsMatch(r) ==
    /\ r.listed_state > 0 => r.events = <<>>
    /\ r.listed_state >= 0 => Unlike(r.events, "adderror")
    /\ Ordered(r.events)

(* The keys of the messages given to the game are the keys that are         *)
(* remembered; they fill the places from 1 on and place 0 last.             *)
Few == Cardinality(Messages) <= RECENT_MESSAGES
KeysMatch(r) ==
    LET n == Cardinality(Delivered(r))
    IN  /\ \A m \in Messages : r.delivered[m] <= 1
        /\ \A m \in Delivered(r) : Remembered(r, m)
        /\ \A i \in 0..(RECENT_MESSAGES - 1) :
             r.client_message_keys[i] # NoKey => r.client_message_keys[i] \in Delivered(r)
        /\ n < RECENT_MESSAGES =>
             /\ r.cur_message_key = n
             /\ \A i \in 0..(RECENT_MESSAGES - 1) :
                  r.client_message_keys[i] = NoKey <=> (i = 0 \/ i > n)

HostInv(r) ==
    /\ r \in Host /\ ChangeKept(r) /\ EventsMatch(r)
    /\ Few => KeysMatch(r)

LEMMA Limits ==
    /\ RECENT_MESSAGES \in Nat /\ RECENT_MESSAGES >= 1
    /\ MAX_FIRST_COUNT \in Nat /\ MAX_FIRST_COUNT >= 1
    /\ MaxDelivered \in Nat /\ MaxDelivered >= 1
    /\ IsFiniteSet(Messages) /\ NoKey \notin Messages
BY QR2Assumption DEF NoKey

LEMMA AppendEvent ==
    ASSUME NEW q \in Seq(QREvent), NEW e \in QREvent, Ordered(q), Unlike(q, e),
           q = <<>> \/ e # "nochallenge"
    PROVE  /\ Append(q, e) \in Seq(QREvent) /\ Ordered(Append(q, e))
           /\ \A f : Unlike(q, f) /\ f # e => Unlike(Append(q, e), f)
<1> DEFINE a == Append(q, e)
<1>1. /\ a \in Seq(QREvent) /\ Len(a) = Len(q) + 1 /\ Len(q) \in Nat
      /\ \A i \in 1..Len(q) : a[i] = q[i]
      /\ a[Len(q) + 1] = e
  BY AppendProperties, LenProperties
<1>2. q = <<>> => Len(q) = 0
  OBVIOUS
<1> HIDE DEF a
<1>3. Ordered(a)
  <2> SUFFICES ASSUME NEW i \in 1..Len(a), NEW j \in 1..Len(a), i < j
               PROVE  a[i] # a[j] /\ a[j] # "nochallenge"
    BY DEF Ordered
  <2>1. i \in 1..Len(q) /\ a[i] = q[i]
    BY <1>1
  <2>2. CASE j \in 1..Len(q)
    BY <1>1, <2>1, <2>2 DEF Ordered
  <2>3. CASE j = Len(q) + 1
    BY <1>1, <1>2, <2>1, <2>3 DEF Unlike
  <2> QED
    BY <1>1, <2>2, <2>3
<1>4. ASSUME NEW f, Unlike(q, f), f # e PROVE Unlike(a, f)
  <2> SUFFICES ASSUME NEW i \in 1..Len(a) PROVE a[i] # f
    BY DEF Unlike
  <2>1. CASE i \in 1..Len(q)
    BY <1>1, <1>4, <2>1 DEF Unlike
  <2>2. CASE i = Len(q) + 1
    BY <1>1, <1>4, <2>2
  <2> QED
    BY <1>1, <2>1, <2>2
<1> QED
  BY <1>1, <1>3, <1>4 DEF a

(* A change of other fields leaves KeysMatch alone. *)
LEMMA SameKeys ==
    ASSUME NEW r, NEW s, KeysMatch(r),
           s.client_message_keys = r.client_message_keys,
           s.cur_message_key = r.cur_message_key, s.delivered = r.delivered
    PROVE  KeysMatch(s)
<1>1. Delivered(s) = Delivered(r)
  BY DEF Delivered
<1>2. \A m : Remembered(s, m) <=> Remembered(r, m)
  BY DEF Remembered
<1>3. \A m \in Messages : s.delivered[m] <= 1
  BY DEF KeysMatch
<1>4. \A m \in Delivered(s) : Remembered(s, m)
  BY <1>1, <1>2 DEF KeysMatch
<1>5. \A i \in 0..(RECENT_MESSAGES - 1) :
        s.client_message_keys[i] # NoKey => s.client_message_keys[i] \in Delivered(s)
  BY <1>1 DEF KeysMatch
<1>6. Cardinality(Delivered(s)) < RECENT_MESSAGES =>
        /\ s.cur_message_key = Cardinality(Delivered(s))
        /\ \A i \in 0..(RECENT_MESSAGES - 1) :
             s.client_message_keys[i] = NoKey
               <=> (i = 0 \/ i > Cardinality(Delivered(s)))
  BY <1>1 DEF KeysMatch
<1> QED
  BY <1>3, <1>4, <1>5, <1>6 DEF KeysMatch

LEMMA NewHostInv == ASSUME NEW b \in BOOLEAN PROVE HostInv([NewHost EXCEPT !.hbsock = b])
<1> DEFINE r == [NewHost EXCEPT !.hbsock = b]
<1>1. r \in Host
  <2>1. /\ 1 \in -1..MAX_FIRST_COUNT /\ 0 \in 0..(RECENT_MESSAGES - 1)
        /\ [i \in 0..(RECENT_MESSAGES - 1) |-> NoKey]
             \in [0..(RECENT_MESSAGES - 1) -> Messages \cup {NoKey}]
        /\ [m \in Messages |-> 0] \in [Messages -> 0..MaxDelivered]
    BY Limits
  <2>2. <<>> \in Seq(QREvent)
    OBVIOUS
  <2> QED
    BY <2>1, <2>2 DEF NewHost, Host
<1>2. ChangeKept(r) /\ EventsMatch(r)
  <2>1. Len(<<>>) = 0
    OBVIOUS
  <2> QED
    BY <2>1 DEF NewHost, ChangeKept, EventsMatch, Unlike, Ordered
<1>3. KeysMatch(r)
  <2>1. Delivered(r) = {}
    BY DEF Delivered, NewHost
  <2>2. Cardinality(Delivered(r)) = 0
    BY <2>1, FS_EmptySet
  <2>3. /\ r.cur_message_key = 0 /\ r.delivered = [m \in Messages |-> 0]
        /\ r.client_message_keys = [i \in 0..(RECENT_MESSAGES - 1) |-> NoKey]
    BY DEF NewHost
  <2> HIDE DEF r
  <2> QED
    BY <2>1, <2>2, <2>3, Limits DEF KeysMatch
<1> QED
  BY <1>1, <1>2, <1>3 DEF HostInv

LEMMA NewHostClosed == HostInv(NewHost)
<1>1. NewHost \in Host /\ NewHost.hbsock = FALSE
  <2>1. /\ 1 \in -1..MAX_FIRST_COUNT /\ 0 \in 0..(RECENT_MESSAGES - 1)
        /\ [i \in 0..(RECENT_MESSAGES - 1) |-> NoKey]
             \in [0..(RECENT_MESSAGES - 1) -> Messages \cup {NoKey}]
        /\ [m \in Messages |-> 0] \in [Messages -> 0..MaxDelivered]
    BY Limits
  <2>2. <<>> \in Seq(QREvent)
    OBVIOUS
  <2> QED
    BY <2>1, <2>2 DEF NewHost, Host
<1>2. \A h \in Host : h.hbsock = FALSE => [h EXCEPT !.hbsock = FALSE] = h
  BY DEF Host
<1> QED
  BY <1>1, <1>2, NewHostInv

LEMMA SendHeartbeatInv ==
    ASSUME NEW r, HostInv(r), NEW k \in {0, 1, 3}, k = 0 => ~r.userstatechangerequested
    PROVE  /\ HostInv(send_heartbeat(r, k))
           /\ send_heartbeat(r, k).listed_state = r.listed_state
           /\ send_heartbeat(r, k).events = r.events
<1> DEFINE s == send_heartbeat(r, k)
<1>1. r \in Host
  BY DEF HostInv
<1>2. s = [r EXCEPT !.age = "new", !.changed = FALSE, !.userstatechangerequested = FALSE]
  <2>1. r.userstatechangerequested \in BOOLEAN
    BY <1>1 DEF Host
  <2>2. k = 0 => r.userstatechangerequested = FALSE
    BY <2>1
  <2>3. (IF k = 2 THEN r.changed ELSE FALSE) = FALSE
    OBVIOUS
  <2>4. (IF k = 0 THEN r.userstatechangerequested ELSE FALSE) = FALSE
    BY <2>2
  <2> QED
    BY <2>3, <2>4 DEF send_heartbeat
<1>3. /\ s \in Host /\ s.listed_state = r.listed_state /\ s.events = r.events
      /\ s.changed = FALSE
      /\ s.client_message_keys = r.client_message_keys
      /\ s.cur_message_key = r.cur_message_key /\ s.delivered = r.delivered
  <2> HIDE DEF s
  <2> QED
    BY <1>1, <1>2 DEF Host
<1> HIDE DEF s
<1>4. ChangeKept(s) /\ EventsMatch(s)
  BY <1>3 DEF ChangeKept, EventsMatch, HostInv
<1>5. Few => KeysMatch(s)
  BY <1>3, SameKeys DEF HostInv
<1> QED
  BY <1>3, <1>4, <1>5 DEF HostInv, s

(* qr2_send_statechanged, called because the state has changed. *)
LEMMA SendStateChangedInv ==
    ASSUME NEW r, HostInv(r)
    PROVE  HostInv(qr2_send_statechanged([r EXCEPT !.changed = TRUE]))
<1> DEFINE c == [r EXCEPT !.changed = TRUE]
           s == qr2_send_statechanged(c)
<1>1. r \in Host
  BY DEF HostInv
<1>2. \/ s = [r EXCEPT !.changed = TRUE, !.userstatechangerequested = TRUE]
      \/ s = [r EXCEPT !.age = "new", !.changed = FALSE,
                       !.userstatechangerequested = FALSE]
  <2>1. CASE c.age = "new"
    BY <1>1, <2>1 DEF qr2_send_statechanged, Host
  <2>2. CASE c.age # "new"
    <3>1. s = send_heartbeat(c, 1)
      BY <2>2 DEF qr2_send_statechanged
    <3>2. s = [c EXCEPT !.age = "new", !.changed = FALSE, !.userstatechangerequested = FALSE]
      BY <3>1 DEF send_heartbeat
    <3> QED
      BY <1>1, <3>2 DEF Host
  <2> QED
    BY <2>1, <2>2
<1> HIDE DEF s
<1>3. /\ s \in Host /\ s.listed_state = r.listed_state /\ s.events = r.events
      /\ s.changed => s.userstatechangerequested
      /\ s.client_message_keys = r.client_message_keys
      /\ s.cur_message_key = r.cur_message_key /\ s.delivered = r.delivered
  BY <1>1, <1>2 DEF Host
<1>4. ChangeKept(s) /\ EventsMatch(s)
  BY <1>3 DEF ChangeKept, EventsMatch, HostInv
<1>5. Few => KeysMatch(s)
  BY <1>3, SameKeys DEF HostInv
<1> QED
  BY <1>3, <1>4, <1>5 DEF HostInv, s

(* An event is appended, or the listing goes to another state. *)
LEMMA EventInv ==
    ASSUME NEW r, HostInv(r), NEW s, NEW n \in -1..MAX_FIRST_COUNT, NEW e \in Seq(QREvent),
           s = [r EXCEPT !.listed_state = n, !.events = e], EventsMatch(s)
    PROVE  HostInv(s)
<1>1. r \in Host
  BY DEF HostInv
<1>2. /\ s \in Host /\ s.changed = r.changed
      /\ s.userstatechangerequested = r.userstatechangerequested
      /\ s.client_message_keys = r.client_message_keys
      /\ s.cur_message_key = r.cur_message_key /\ s.delivered = r.delivered
  BY <1>1 DEF Host
<1>3. ChangeKept(s)
  BY <1>2 DEF ChangeKept, HostInv
<1>4. Few => KeysMatch(s)
  BY <1>2, SameKeys DEF HostInv
<1> QED
  BY <1>2, <1>3, <1>4 DEF HostInv

LEMMA CheckSendHeartbeatInv ==
    ASSUME NEW r, HostInv(r)
    PROVE  HostInv(qr2_check_send_heartbeat(r))
<1>1. r \in Host /\ r.listed_state \in -1..MAX_FIRST_COUNT
  BY DEF HostInv, Host
<1>2. CASE r.listed_state > 0 /\ r.age # "new" /\ r.listed_state >= MAX_FIRST_COUNT
  <2>1. r.events = <<>>
    BY <1>2 DEF HostInv, EventsMatch
  <2> DEFINE e == Append(r.events, "nochallenge")
             s == [r EXCEPT !.listed_state = 0, !.events = e]
  <2>2. qr2_check_send_heartbeat(r) = s
    BY <1>1, <1>2, Limits DEF qr2_check_send_heartbeat
  <2>3. r.events \in Seq(QREvent) /\ Len(r.events) = 0
    BY <1>1, <2>1 DEF Host
  <2>4. /\ e \in Seq(QREvent) /\ Ordered(e) /\ Unlike(e, "adderror")
    BY <2>1, <2>3, AppendEvent DEF QREvent, Ordered, Unlike
  <2> HIDE DEF e
  <2>5. s.listed_state = 0 /\ s.events = e
    BY <1>1 DEF Host
  <2>6. EventsMatch(s)
    BY <2>4, <2>5 DEF EventsMatch
  <2>7. 0 \in -1..MAX_FIRST_COUNT
    BY Limits
  <2> QED
    BY <2>2, <2>4, <2>6, <2>7, EventInv
<1>3. CASE r.listed_state > 0 /\ r.age # "new" /\ r.listed_state < MAX_FIRST_COUNT
  <2> DEFINE h == send_heartbeat(r, 3)
             s == [h EXCEPT !.listed_state = h.listed_state + 1, !.events = h.events]
  <2>1. HostInv(h) /\ h.listed_state = r.listed_state /\ h.events = r.events
    BY SendHeartbeatInv
  <2>2. h \in Host
    BY <2>1 DEF HostInv
  <2>3. qr2_check_send_heartbeat(r) = [h EXCEPT !.listed_state = h.listed_state + 1]
    BY <1>1, <1>3, Limits DEF qr2_check_send_heartbeat
  <2> HIDE DEF h
  <2>4. [h EXCEPT !.listed_state = h.listed_state + 1] = s
    BY <2>2 DEF Host
  <2>5. r.events = <<>>
    BY <1>3 DEF HostInv, EventsMatch
  <2>6. EventsMatch(s)
    <3>1. s.listed_state = r.listed_state + 1 /\ s.events = r.events
      BY <2>1, <2>2 DEF Host
    <3> HIDE DEF s
    <3>2. s.listed_state > 0 /\ s.listed_state >= 0 /\ r.listed_state >= 0
      BY <1>1, <1>3, <3>1, Limits
    <3> QED
      BY <2>5, <3>1, <3>2 DEF EventsMatch, HostInv
  <2>7. h.listed_state + 1 \in -1..MAX_FIRST_COUNT /\ h.events \in Seq(QREvent)
    BY <1>1, <1>3, <2>1, <2>2, Limits DEF Host
  <2> QED
    BY <2>1, <2>3, <2>4, <2>6, <2>7, EventInv
<1>4. CASE r.listed_state <= 0 /\ r.age # "new" /\ r.userstatechangerequested
  <2>1. qr2_check_send_heartbeat(r) = send_heartbeat(r, 1)
    BY <1>1, <1>4 DEF qr2_check_send_heartbeat
  <2> QED
    BY <2>1, SendHeartbeatInv
<1>5. CASE r.listed_state <= 0 /\ r.age = "max" /\ ~r.userstatechangerequested
  <2>1. qr2_check_send_heartbeat(r) = send_heartbeat(r, 0)
    BY <1>1, <1>5 DEF qr2_check_send_heartbeat
  <2> QED
    BY <1>5, <2>1, SendHeartbeatInv
<1>6. CASE /\ ~(r.listed_state > 0 /\ r.age # "new")
           /\ ~(r.listed_state <= 0 /\ r.age # "new" /\ r.userstatechangerequested)
           /\ ~(r.listed_state <= 0 /\ r.age = "max" /\ ~r.userstatechangerequested)
  <2>1. qr2_check_send_heartbeat(r) = r
    BY <1>6 DEF qr2_check_send_heartbeat
  <2> QED
    BY <2>1
<1>7. r.listed_state > 0 \/ r.listed_state <= 0
  BY <1>1, Limits
<1>8. r.listed_state >= MAX_FIRST_COUNT \/ r.listed_state < MAX_FIRST_COUNT
  BY <1>1, Limits
<1> QED
  BY <1>2, <1>3, <1>4, <1>5, <1>6, <1>7, <1>8, Zenon

(* A message that is not remembered is new: its key goes to a free place. *)
LEMMA ClientMessageInv ==
    ASSUME NEW r, HostInv(r), NEW m \in Messages
    PROVE  HostInv(ClientMessage(r, m))
<1>1. r \in Host
  BY DEF HostInv
<1>2. CASE Remembered(r, m)
  BY <1>2 DEF ClientMessage
<1>3. CASE ~Remembered(r, m)
  <2> DEFINE i == (r.cur_message_key + 1) % RECENT_MESSAGES
             d == IF r.delivered[m] < MaxDelivered THEN r.delivered[m] + 1
                  ELSE r.delivered[m]
             s == [r EXCEPT !.cur_message_key = i, !.client_message_keys[i] = m,
                            !.delivered[m] = d]
  <2>1. ClientMessage(r, m) = s
    BY <1>1, <1>3 DEF ClientMessage, Remember, Host
  <2>2. i \in 0..(RECENT_MESSAGES - 1) /\ d \in 0..MaxDelivered
        /\ r.cur_message_key \in 0..(RECENT_MESSAGES - 1)
    <3>1. r.cur_message_key \in 0..(RECENT_MESSAGES - 1) /\ r.delivered[m] \in 0..MaxDelivered
      BY <1>1 DEF Host
    <3> QED
      BY <3>1, Limits
  <2>3. /\ s \in Host /\ s.changed = r.changed
        /\ s.userstatechangerequested = r.userstatechangerequested
        /\ s.listed_state = r.listed_state /\ s.events = r.events
        /\ s.cur_message_key = i
        /\ s.client_message_keys = [r.client_message_keys EXCEPT ![i] = m]
        /\ s.delivered = [r.delivered EXCEPT ![m] = d]
    <3> HIDE DEF i, d
    <3> QED
      BY <1>1, <2>2 DEF Host
  <2> HIDE DEF s
  <2>4. ChangeKept(s) /\ EventsMatch(s)
    BY <2>3 DEF ChangeKept, EventsMatch, HostInv
  <2>5. ASSUME Few PROVE KeysMatch(s)
    <3> DEFINE n == Cardinality(Delivered(r))
    <3>1. KeysMatch(r)
      BY <2>5 DEF HostInv
    <3>2. m \notin Delivered(r) /\ r.delivered[m] = 0
      BY <1>3, <3>1 DEF KeysMatch, Delivered
    <3>3. d = 1
      BY <3>2, Limits
    <3>4. Delivered(s) = Delivered(r) \cup {m}
      BY <1>1, <2>3, <3>3 DEF Delivered, Host
    <3>5. IsFiniteSet(Delivered(r)) /\ n \in Nat /\ Cardinality(Delivered(s)) = n + 1
      <4>1. IsFiniteSet(Delivered(r))
        BY Limits, FS_Subset DEF Delivered
      <4> QED
        BY <3>2, <3>4, <4>1, FS_AddElement, FS_CardinalityType
    <3>6. n + 1 <= RECENT_MESSAGES
      <4>1. Delivered(s) \subseteq Messages
        BY DEF Delivered
      <4>2. Cardinality(Delivered(s)) <= Cardinality(Messages)
        BY <4>1, Limits, FS_Subset
      <4>3. Cardinality(Messages) \in Nat
        BY Limits, FS_CardinalityType
      <4> QED
        BY <2>5, <3>5, <4>2, <4>3, Limits DEF Few
    <3>7. /\ r.cur_message_key = n
          /\ \A j \in 0..(RECENT_MESSAGES - 1) :
               r.client_message_keys[j] = NoKey <=> (j = 0 \/ j > n)
      BY <3>1, <3>5, <3>6, Limits DEF KeysMatch
    <3>8. i = IF n + 1 < RECENT_MESSAGES THEN n + 1 ELSE 0
      BY <3>5, <3>6, <3>7, Limits
    <3>9. r.client_message_keys[i] = NoKey
      BY <2>2, <3>5, <3>7, <3>8
    <3>10. r.client_message_keys \in [0..(RECENT_MESSAGES - 1) -> Messages \cup {NoKey}]
           /\ r.delivered \in [Messages -> 0..MaxDelivered]
      BY <1>1 DEF Host
    <3> HIDE DEF i, d, n
    <3>11. \A x \in Messages : s.delivered[x] <= 1
      BY <2>3, <3>1, <3>3, <3>10 DEF KeysMatch
    <3>12. ASSUME NEW x \in Delivered(s) PROVE Remembered(s, x)
      <4>1. CASE x = m
        <5>1. s.client_message_keys[i] = m /\ i \in DOMAIN s.client_message_keys
          BY <2>2, <2>3, <3>10
        <5> QED
          BY <4>1, <5>1 DEF Remembered
      <4>2. CASE x # m
        <5>1. x \in Delivered(r) /\ x \in Messages
          BY <3>4, <4>2 DEF Delivered
        <5>2. PICK j \in DOMAIN r.client_message_keys : r.client_message_keys[j] = x
          BY <3>1, <5>1 DEF KeysMatch, Remembered
        <5>3. j # i
          BY <3>9, <5>1, <5>2, Limits
        <5>4. j \in DOMAIN s.client_message_keys /\ s.client_message_keys[j] = x
          BY <2>3, <3>10, <5>2, <5>3
        <5> QED
          BY <5>4 DEF Remembered
      <4> QED
        BY <4>1, <4>2
    <3>13. \A j \in 0..(RECENT_MESSAGES - 1) :
             s.client_message_keys[j] # NoKey => s.client_message_keys[j] \in Delivered(s)
      BY <2>3, <3>1, <3>4, <3>10 DEF KeysMatch
    <3>14. n + 1 < RECENT_MESSAGES =>
             /\ s.cur_message_key = n + 1
             /\ \A j \in 0..(RECENT_MESSAGES - 1) :
                  s.client_message_keys[j] = NoKey <=> (j = 0 \/ j > n + 1)
      <4> SUFFICES ASSUME n + 1 < RECENT_MESSAGES
                   PROVE  /\ s.cur_message_key = n + 1
                          /\ \A j \in 0..(RECENT_MESSAGES - 1) :
                               s.client_message_keys[j] = NoKey <=> (j = 0 \/ j > n + 1)
        OBVIOUS
      <4>1. i = n + 1
        BY <3>8
      <4>2. ASSUME NEW j \in 0..(RECENT_MESSAGES - 1)
            PROVE  s.client_message_keys[j] = NoKey <=> (j = 0 \/ j > n + 1)
        <5>1. s.client_message_keys[j] =
                IF j = n + 1 THEN m ELSE r.client_message_keys[j]
          BY <2>3, <3>10, <4>1
        <5> QED
          BY <3>5, <3>7, <5>1, Limits
      <4> QED
        BY <2>3, <4>1, <4>2
    <3> QED
      BY <3>5, <3>11, <3>12, <3>13, <3>14 DEF KeysMatch
  <2> QED
    BY <2>1, <2>3, <2>4, <2>5 DEF HostInv
<1> QED
  BY <1>2, <1>3

(* Whatever packet arrives, of the protocol or not. *)
LEMMA ParseQueryInv ==
    ASSUME NEW r, HostInv(r), NEW packet,
           packet.type = "clientmessage" => packet.key \in Messages
    PROVE  HostInv(qr2_parse_query(r, packet))
<1> DEFINE first == \A i \in DOMAIN r.events : r.events[i] # "heard"
           n == IF r.listed_state > 0 THEN 0 ELSE r.listed_state
           e == IF first THEN Append(r.events, "heard") ELSE r.events
           h == [r EXCEPT !.listed_state = n, !.events = e]
<1>1. r \in Host /\ r.listed_state \in -1..MAX_FIRST_COUNT /\ r.events \in Seq(QREvent)
  BY DEF HostInv, Host
<1>2. n \in -1..0 /\ n \in -1..MAX_FIRST_COUNT
  BY <1>1, Limits
<1>3. e \in Seq(QREvent) /\ Ordered(e)
      /\ (n >= 0 => Unlike(e, "adderror"))
  <2>1. DOMAIN r.events = 1..Len(r.events)
    BY <1>1, LenProperties
  <2>2. Ordered(r.events) /\ (n >= 0 => Unlike(r.events, "adderror"))
    BY <1>1 DEF HostInv, EventsMatch
  <2>3. CASE first
    BY <1>1, <2>1, <2>2, <2>3, AppendEvent DEF QREvent, Unlike
  <2>4. CASE ~first
    BY <1>1, <2>2, <2>4
  <2> QED
    BY <2>3, <2>4
<1> HIDE DEF n, e
<1>5. h.listed_state = n /\ h.events = e
  BY <1>1 DEF Host
<1>6. EventsMatch(h)
  BY <1>2, <1>3, <1>5 DEF EventsMatch
<1>7. HostInv(h)
  BY <1>2, <1>3, <1>6, EventInv
<1>8. CASE packet.type = "adderror"
  <2>1. qr2_parse_query(r, packet) = AddError(h)
    BY <1>8 DEF qr2_parse_query, n, e
  <2>2. CASE n = -1
    BY <1>5, <1>7, <2>1, <2>2 DEF AddError
  <2>3. CASE n = 0
    <3> DEFINE f == Append(h.events, "adderror")
               s == [h EXCEPT !.listed_state = -1, !.events = f]
    <3>1. AddError(h) = s
      BY <1>5, <2>3 DEF AddError
    <3>2. f \in Seq(QREvent) /\ Ordered(f)
      BY <1>3, <1>5, <2>3, AppendEvent DEF QREvent
    <3>3. -1 \in -1..MAX_FIRST_COUNT
      BY Limits
    <3> HIDE DEF f, h
    <3>4. h \in Host
      BY <1>7 DEF HostInv
    <3>5. s.listed_state = -1 /\ s.events = f
      BY <3>4 DEF Host
    <3> HIDE DEF s
    <3>6. EventsMatch(s)
      BY <3>2, <3>5 DEF EventsMatch
    <3>7. HostInv(s)
      BY <1>7, <3>2, <3>3, <3>6, EventInv DEF s
    <3> QED
      BY <2>1, <3>1, <3>7 DEF h
  <2> QED
    BY <1>2, <2>2, <2>3
<1>9. CASE packet.type = "clientmessage"
  <2>1. qr2_parse_query(r, packet) = ClientMessage(h, packet.key)
    BY <1>9 DEF qr2_parse_query, n, e
  <2> QED
    BY <1>7, <1>9, <2>1, ClientMessageInv
<1>10. CASE packet.type = "query"
  BY <1>7, <1>10 DEF qr2_parse_query, n, e
<1>11. CASE packet.type \notin {"adderror", "clientmessage", "query"}
  BY <1>11 DEF qr2_parse_query
<1> QED
  BY <1>8, <1>9, <1>10, <1>11

-----------------------------------------------------------------------------
(* QR2 of the whole game host.                                             *)

LEMMA InitInv == Init => HostInv(qr)
BY NewHostClosed DEF Init, QRInit

(* Only QR2's messages carry the key of a message. *)
LEMMA KeyOfPacket ==
    ASSUME NEW packet \in Packets
    PROVE  packet.type = "clientmessage" => packet.key \in Messages
<1>1. CASE packet \in QRPacket
  BY <1>1 DEF QRPacket
<1>2. CASE packet = NoPacket
  BY <1>2 DEF NoPacket
<1>3. CASE packet \in FromValidation
  BY <1>3 DEF FromValidation
<1> QED
  BY <1>1, <1>2, <1>3 DEF Packets

LEMMA NextInv ==
    ASSUME HostInv(qr), [Next]_vars
    PROVE  HostInv(qr')
<1>1. CASE Check
  BY <1>1 DEF Check
<1>2. CASE Begin
  BY <1>2, NewHostInv DEF Begin, qr2_init
<1>3. CASE Shutdown
  BY <1>3, NewHostClosed DEF Shutdown, qr2_shutdown
<1>4. CASE GameState
  BY <1>4, SendStateChangedInv DEF GameState, StateChanged
<1>5. CASE CDKeyCall
  BY <1>5 DEF CDKeyCall
<1>6. CASE Time
  <2>1. CASE UNCHANGED qr
    BY <2>1
  <2>2. CASE QRPass
    <3> DEFINE a == IF qr.age = "new" THEN "min" ELSE "max"
    <3>1. qr \in Host
      BY DEF HostInv
    <3>2. qr' = [qr EXCEPT !.age = a]
      BY <2>2 DEF QRPass
    <3>3. a \in {"new", "min", "max"}
      OBVIOUS
    <3> HIDE DEF a
    <3>4. /\ qr' \in Host /\ qr'.listed_state = qr.listed_state
          /\ qr'.events = qr.events /\ qr'.changed = qr.changed
          /\ qr'.userstatechangerequested = qr.userstatechangerequested
          /\ qr'.client_message_keys = qr.client_message_keys
          /\ qr'.cur_message_key = qr.cur_message_key /\ qr'.delivered = qr.delivered
      BY <3>1, <3>2, <3>3 DEF Host
    <3>5. ChangeKept(qr') /\ EventsMatch(qr')
      BY <3>4 DEF ChangeKept, EventsMatch, HostInv
    <3>6. Few => KeysMatch(qr')
      BY <3>4, SameKeys DEF HostInv
    <3> QED
      BY <3>4, <3>5, <3>6 DEF HostInv
  <2> QED
    BY <1>6, <2>1, <2>2 DEF Time
<1>7. ASSUME NEW packet \in Packets, qr2_think(packet) PROVE HostInv(qr')
  BY <1>7, CheckSendHeartbeatInv, ParseQueryInv, KeyOfPacket DEF qr2_think
<1>8. CASE UNCHANGED vars
  BY <1>8 DEF vars
<1> QED
  BY <1>1, <1>2, <1>3, <1>4, <1>5, <1>6, <1>7, <1>8 DEF Next

LEMMA SpecInv == Spec => []HostInv(qr)
<1>1. HostInv(qr) /\ [Next]_vars => HostInv(qr)'
  BY NextInv
<1> QED
  BY InitInv, <1>1, PTL DEF Spec

(* QR2's structure keeps its type, for any limits and messages. *)
THEOREM QRTypeOKHolds == Spec => []QRTypeOK
<1>1. HostInv(qr) => QRTypeOK
  BY DEF HostInv, QRTypeOK
<1> QED
  BY <1>1, SpecInv, PTL

(* qr2_send_statechanged loses no change: while one is unsent, the next      *)
(* heartbeat that may be sent is due.                                       *)
THEOREM ChangeNotLostHolds == Spec => []ChangeNotLost
<1>1. HostInv(qr) => ChangeNotLost
  BY DEF HostInv, ChangeKept, ChangeNotLost
<1> QED
  BY <1>1, SpecInv, PTL

(* The error callback is called once for each error, and never for a missing *)
(* challenge once a packet has arrived.                                     *)
THEOREM ErrorsOnceHolds == Spec => []ErrorsOnce
<1>1. HostInv(qr) => ErrorsOnce
  <2> SUFFICES ASSUME HostInv(qr) PROVE ErrorsOnce
    OBVIOUS
  <2>1. qr.events \in Seq(QREvent) /\ Ordered(qr.events)
    BY DEF HostInv, EventsMatch, Host
  <2>2. DOMAIN qr.events = 1..Len(qr.events)
    BY <2>1, LenProperties
  <2> QED
    BY <2>1, <2>2 DEF ErrorsOnce, Ordered
<1> QED
  BY <1>1, SpecInv, PTL

(* No message is given to the game twice while all of them can be           *)
(* remembered, for any number of messages.                                  *)
THEOREM DeliveredOnceHolds == Spec => []DeliveredOnce
<1>1. HostInv(qr) => DeliveredOnce
  BY DEF HostInv, Few, KeysMatch, DeliveredOnce
<1> QED
  BY <1>1, SpecInv, PTL

-----------------------------------------------------------------------------
(* The availability check and the CD key SDK of the whole game host.        *)

(* The retries of the availability check are never more than allowed. *)
LEMMA ACTypeInv ==
    ASSUME ACTypeOK, [Next]_vars
    PROVE  ACTypeOK'
<1>1. /\ ac.result \in AvailableResult /\ ac.sock \in BOOLEAN /\ ac.due \in BOOLEAN
      /\ ac.retryCount \in 0..MAX_RETRIES /\ ac.started \in BOOLEAN
      /\ MAX_RETRIES \in Nat /\ 0 \in 0..MAX_RETRIES
  BY AvailableAssumption DEF ACTypeOK
<1>2. \A result \in AvailableResult :
        Told(ac, result) \in [result : AvailableResult, sock : BOOLEAN, due : BOOLEAN,
                              retryCount : 0..MAX_RETRIES, started : BOOLEAN]
  BY <1>1 DEF Told, ACTypeOK
<1>3. CASE Check
  <2>1. ASSUME NEW sock \in BOOLEAN, GSIStartAvailableCheck(sock) PROVE ACTypeOK'
    BY <2>1 DEF GSIStartAvailableCheck, ACTypeOK
  <2>2. ASSUME NEW answer \in AvailableResult, GSIAvailableCheckThink(answer) PROVE ACTypeOK'
    <3>1. CASE ac' = Told(ac, "available") \/ ac' = Told(ac, answer)
      BY <1>2, <3>1 DEF AvailableResult, ACTypeOK
    <3>2. CASE ac' = NoAnswer(ac)
      <4>1. CASE ~ac.due
        BY <3>2, <4>1 DEF NoAnswer, ACTypeOK
      <4>2. CASE ac.due /\ ac.retryCount = MAX_RETRIES
        <5>1. ac' = Told(ac, "available")
          BY <3>2, <4>2 DEF NoAnswer
        <5> QED
          BY <3>1, <5>1
      <4>3. CASE ac.due /\ ac.retryCount # MAX_RETRIES
        <5>1. ac' = [ac EXCEPT !.due = FALSE, !.retryCount = @ + 1]
          BY <3>2, <4>3 DEF NoAnswer
        <5>2. ac.retryCount + 1 \in 0..MAX_RETRIES
          BY <1>1, <4>3
        <5> QED
          BY <5>1, <5>2 DEF ACTypeOK
      <4> QED
        BY <1>1, <4>1, <4>2, <4>3
    <3> QED
      BY <1>1, <2>2, <3>1, <3>2 DEF GSIAvailableCheckThink
  <2>3. ASSUME GSICancelAvailableCheck PROVE ACTypeOK'
    <3>1. Told(ac, "waiting") \in [result : AvailableResult, sock : BOOLEAN, due : BOOLEAN,
                                   retryCount : 0..MAX_RETRIES, started : BOOLEAN]
      BY <1>2 DEF AvailableResult
    <3> QED
      BY <2>3, <3>1 DEF GSICancelAvailableCheck, ACTypeOK
  <2> QED
    BY <1>3, <2>1, <2>2, <2>3 DEF Check
<1>4. CASE Time
  BY <1>4 DEF Time, ACExpire, ACTypeOK
<1>5. ASSUME UNCHANGED ac PROVE ACTypeOK'
  BY <1>5 DEF ACTypeOK
<1>6. CASE Begin \/ Shutdown \/ GameState \/ CDKeyCall
           \/ \E packet \in Packets : qr2_think(packet)
  BY <1>5, <1>6 DEF Begin, Shutdown, GameState, CDKeyCall, qr2_think
<1>7. CASE UNCHANGED vars
  BY <1>5, <1>7 DEF vars
<1> QED
  BY <1>3, <1>4, <1>6, <1>7 DEF Next

(* Only the server asks whether a user is on. *)
LEMMA ReauthOfPacket ==
    ASSUME NEW packet \in Packets
    PROVE  packet.type = "ison" => packet.skey \in ReauthKeys
<1>1. CASE packet \in QRPacket
  BY <1>1 DEF QRPacket
<1>2. CASE packet = NoPacket
  BY <1>2 DEF NoPacket
<1>3. CASE packet \in FromValidation
  BY <1>3 DEF FromValidation
<1> QED
  BY <1>1, <1>2, <1>3 DEF Packets

LEMMA NextProduct ==
    ASSUME ProductInv(cd), [Next]_vars
    PROVE  ProductInv(cd')
<1>1. CASE Check
  BY <1>1 DEF Check
<1>2. CASE Begin
  BY <1>2 DEF Begin
<1>3. CASE Shutdown
  BY <1>3, ShutdownProduct DEF Shutdown
<1>4. CASE GameState
  BY <1>4 DEF GameState
<1>5. CASE CDKeyCall
  <2>1. CASE gcd_init_qr2
    BY <2>1, InitQR2Product
  <2>2. ASSUME NEW u \in Users, NEW key \in Keys, NEW bogus \in BOOLEAN,
               gcd_authenticate_user(u, key, bogus)
        PROVE  ProductInv(cd')
    BY <2>2, AuthenticateProduct
  <2>3. ASSUME NEW u \in Users, gcd_disconnect_user(u) PROVE ProductInv(cd')
    BY <2>3, DisconnectProduct
  <2>4. ASSUME NEW u \in Users, NEW skey \in ReauthKeys, gcd_process_reauth(u, skey)
        PROVE  ProductInv(cd')
    BY <2>4, ProcessReauthProduct
  <2>5. CASE gcd_think
    BY <2>5, GcdThinkProduct
  <2> QED
    BY <1>5, <2>1, <2>2, <2>3, <2>4, <2>5 DEF CDKeyCall
<1>6. CASE Time
  <2>1. ASSUME NEW u \in Users, VAL_TIMEOUT(u) PROVE ProductInv(cd')
    BY <2>1, ValTimeoutProduct
  <2>2. ASSUME NEW u \in Users, REAUTH_LIFESPAN(u) PROVE ProductInv(cd')
    BY <2>2, ReauthLifespanProduct
  <2> QED
    BY <1>6, <2>1, <2>2 DEF Time
<1>7. ASSUME NEW packet \in Packets, qr2_think(packet) PROVE ProductInv(cd')
  <2>1. ProductInv(cdkey_process_buf(cd, packet))
    BY ReauthOfPacket, ProcessBufProduct
  <2> QED
    BY <1>7, <2>1 DEF qr2_think
<1>8. CASE UNCHANGED vars
  BY <1>8 DEF vars
<1> QED
  BY <1>1, <1>2, <1>3, <1>4, <1>5, <1>6, <1>7, <1>8 DEF Next

LEMMA SpecProduct == Spec => []ProductInv(cd)
<1>1. Init => ProductInv(cd)
  BY InitProduct DEF Init
<1>2. ProductInv(cd) /\ [Next]_vars => ProductInv(cd)'
  BY NextProduct
<1> QED
  BY <1>1, <1>2, PTL DEF Spec

(* The structures of the three SDKs keep their types: no user has more      *)
(* pending reauths than MAXPENDING_REAUTH, no request or availability query *)
(* is made again more often than allowed, whatever the servers send.        *)
THEOREM TypeOKHolds == Spec => []TypeOK
<1>1. Init => ACTypeOK
  BY AvailableAssumption DEF Init, ACInit, ACTypeOK, AvailableResult
<1>2. ACTypeOK /\ [Next]_vars => ACTypeOK'
  BY ACTypeInv
<1>3. Spec => []ACTypeOK
  BY <1>1, <1>2, PTL DEF Spec
<1>4. ProductInv(cd) => CDTypeOK
  BY DEF ProductInv, CDTypeOK
<1>5. ACTypeOK /\ QRTypeOK /\ CDTypeOK => TypeOK
  BY DEF TypeOK
<1> QED
  BY <1>3, <1>4, <1>5, QRTypeOKHolds, SpecProduct, PTL

(* The application is told of each user once, in or out, whatever answers,  *)
(* early, late, doubled or of another user's request, come in between, and  *)
(* exactly when the user's state says so.                                   *)
THEOREM ToldOnceHolds == Spec => []ToldOnce
<1>1. ProductInv(cd) => ToldOnce
  BY DEF ProductInv, Waits, Away, ToldOnce
<1> QED
  BY <1>1, SpecProduct, PTL

(* No key is asked about while a user ahead in the queue has it: the order  *)
(* of the queue is what makes KeyInUse enough.                              *)
THEOREM KeyAskedOnceHolds == Spec => []KeyAskedOnce
<1>1. ProductInv(cd) => KeyAskedOnce
  <2> SUFFICES ASSUME ProductInv(cd) PROVE KeyAskedOnce
    OBVIOUS
  <2>1. DOMAIN cd.queue = 1..Len(cd.queue)
    BY QueuePlaces DEF ProductInv, Product
  <2> QED
    BY <2>1 DEF ProductInv, AskedOnce, KeyAskedOnce
<1> QED
  BY <1>1, SpecProduct, PTL
=============================================================================
