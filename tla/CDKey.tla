-------------------------------- MODULE CDKey --------------------------------
(***************************************************************************)
(* The CD key SDK (gcdkey/gcdkeys.c) of a game host: it asks the           *)
(* validation server about the key of every user that joins, lets the user *)
(* in when there is no answer, and later proves to the server that a user  *)
(* is still on when the server asks (ison).                                *)
(*                                                                         *)
(* One product.  cd holds the queue of the product's clients and, for each *)
(* user, the client's structure gsclient_s; "due" is that VAL_TIMEOUT has  *)
(* passed since the request, and for each pending reauth that              *)
(* REAUTH_LIFESPAN has.  The server's datagrams are delayed, lost,         *)
(* overtaken and repeated.  The application's callbacks do not call the    *)
(* SDK.  The history: requests, what the server was asked; told, what the  *)
(* application was told of a user since it asked or let the user go.  An   *)
(* operator is the function of its name, from the queue and clients before *)
(* the call to those after it.                                             *)
(***************************************************************************)
EXTENDS Integers, Sequences, FiniteSets, SequencesExt

CONSTANTS
    Users,              \* local ids
    Keys,               \* hashes of CD keys
    SessKeys,           \* session keys the SDK may draw
    ReauthKeys,         \* session keys of the server's reauth requests
    VAL_RETRIES,
    MAXPENDING_REAUTH,
    MaxTold             \* bound of the history: what a user is told

ASSUME CDKeyAssumption ==
    /\ IsFiniteSet(Users) /\ IsFiniteSet(Keys) /\ IsFiniteSet(SessKeys)
    /\ {VAL_RETRIES, MAXPENDING_REAUTH, MaxTold} \subseteq Nat \ {0}

VARIABLE cd

NoKeyHash == "none"
NoSess == "none"
ClientState == {"none", "sentreq", "gotok", "gotnok", "done"}
Reauth == [skey : ReauthKeys, due : BOOLEAN]

Client == [state : ClientState, key : Keys \cup {NoKeyHash},
           sesskey : SessKeys \cup {NoSess}, ntries : 0..(VAL_RETRIES + 1),
           due : BOOLEAN, reauthq : BoundedSeq(Reauth, MAXPENDING_REAUTH)]
Product == [on : BOOLEAN, queue : Seq(Users), client : [Users -> Client],
            requests : SUBSET (Keys \X SessKeys),
            told : [Users -> BoundedSeq({"in", "out"}, MaxTold)]]

CDTypeOK == cd \in Product

NoClient == [state |-> "none", key |-> NoKeyHash, sesskey |-> NoSess, ntries |-> 0,
             due |-> FALSE, reauthq |-> <<>>]
CDInit == cd = [on |-> FALSE, queue |-> <<>>, client |-> [u \in Users |-> NoClient],
                requests |-> {}, told |-> [u \in Users |-> <<>>]]

-----------------------------------------------------------------------------
(* The application's calls.                                                *)

gcd_init_qr2 == ~cd.on /\ cd' = [cd EXCEPT !.on = TRUE]

\* A mutant: only users that the server is asked about count.
KeyInUseAsked(key) ==
    \E v \in ToSet(cd.queue) : cd.client[v].key = key /\ cd.client[v].state = "sentreq"

KeyInUse(key) == \E v \in ToSet(cd.queue) : cd.client[v].key = key

send_auth_req(c, u, key, skey) ==
    [c EXCEPT !.client[u] = [NoClient EXCEPT !.state = "sentreq", !.key = key,
                                             !.sesskey = skey, !.ntries = 1],
              !.requests = @ \cup {<<key, skey>>}]

\* A user with a bogus response or a key in use is refused by the next think.
\* Its session key is never set: it is what the memory of the client held.
gcd_authenticate_user(u, key, bogus) ==
    /\ cd.on /\ u \notin ToSet(cd.queue)
    /\ LET queued == [cd EXCEPT !.queue = Append(@, u), !.told[u] = <<>>]
       IN  IF bogus \/ KeyInUse(key)
           THEN \E skey \in SessKeys \cup {NoSess} :
                  cd' = [queued EXCEPT !.client[u] = [NoClient EXCEPT
                                    !.state = "gotnok", !.key = key, !.sesskey = skey]]
           ELSE \E skey \in SessKeys : cd' = send_auth_req(queued, u, key, skey)

\* Memory of a client that left is not looked at again.
free_client_node(c, u) ==
    [c EXCEPT !.queue = RemoveFirst(@, u), !.client[u] = NoClient]

gcd_disconnect_user(u) ==
    u \in ToSet(cd.queue) /\ cd' = [free_client_node(cd, u) EXCEPT !.told[u] = <<>>]

\* The proof of one pending reauth is sent.
gcd_process_reauth(u, skey) ==
    \E i \in DOMAIN cd.client[u].reauthq :
        /\ cd.client[u].reauthq[i].skey = skey
        /\ \A j \in 1..(i - 1) : cd.client[u].reauthq[j].skey # skey
        /\ cd' = [cd EXCEPT !.client[u].reauthq = RemoveAt(@, i)]

gcd_shutdown(c) ==
    [c EXCEPT !.on = FALSE, !.queue = <<>>, !.client = [u \in Users |-> NoClient],
              !.told = [u \in Users |-> <<>>]]

-----------------------------------------------------------------------------
(* gcd_think: the clients, one by one.                                     *)

Tell(c, u, what) == [c EXCEPT !.told[u] = IF Len(@) < MaxTold THEN Append(@, what) ELSE @]

\* Mutants: a user stays as it was when the application is told; a user is
\* asked for again without counting.
AuthorizedAgain(c, u) == Tell(c, u, "in")
ResendUncounted(c, u) == [c EXCEPT !.client[u].due = FALSE]

Authorized(c, u) == [Tell(c, u, "in") EXCEPT !.client[u].state = "done"]

resend_auth_req(c, u) ==
    [c EXCEPT !.client[u].due = FALSE, !.client[u].ntries = @ + 1]

\* The place after an expired reauth is cleared with it: what follows it in
\* the queue goes too, expired or not.
ExpireReauths(q) ==
    LET kept == {i \in DOMAIN q : \A j \in 1..i : ~q[j].due}
    IN  SubSeq(q, 1, Cardinality(kept))

ThinkClient(c, u) ==
    LET client == c.client[u]
    IN  CASE client.state = "sentreq" /\ ~client.due -> c
          [] client.state = "sentreq" /\ client.due /\ client.ntries <= VAL_RETRIES ->
               resend_auth_req(c, u)
          [] client.state = "sentreq" /\ client.due /\ client.ntries > VAL_RETRIES ->
               Authorized(c, u)
          [] client.state = "gotok" -> Authorized(c, u)
          [] client.state = "gotnok" -> free_client_node(Tell(c, u, "out"), u)
          [] client.state = "done" -> [c EXCEPT !.client[u].reauthq = ExpireReauths(@)]

gcd_think == cd.on /\ cd' = FoldLeft(ThinkClient, cd, cd.queue)

-----------------------------------------------------------------------------
(* The server's datagrams, which come through QR2 (cdkey_process_buf).     *)

\* The first of the queue that is among those that match, if there is one.
FirstOf(queue, matching) ==
    {queue[i] : i \in {j \in DOMAIN queue : /\ queue[j] \in matching
                                           /\ \A k \in 1..(j - 1) : queue[k] \notin matching}}

process_oks(c, key, skey, isok) ==
    LET found == FirstOf(c.queue, {u \in Users : c.client[u].key = key /\ c.client[u].sesskey = skey})
    IN  [c EXCEPT !.client = [u \in Users |->
            IF u \in found /\ c.client[u].state # "done"
            THEN [c.client[u] EXCEPT !.state = IF isok THEN "gotok" ELSE "gotnok"]
            ELSE c.client[u]]]

\* A mutant: the queue of reauths may grow.
ReauthUnbounded(q, skey) == Append(q, [skey |-> skey, due |-> FALSE])

StoreReauth(q, skey) ==
    IF Len(q) < MAXPENDING_REAUTH THEN Append(q, [skey |-> skey, due |-> FALSE]) ELSE q

process_ison(c, key, skey) ==
    LET found == FirstOf(c.queue, {u \in Users : c.client[u].key = key})
    IN  [c EXCEPT !.client = [u \in Users |->
            IF u \in found /\ c.client[u].state = "done"
            THEN [c.client[u] EXCEPT !.reauthq = StoreReauth(@, skey)]
            ELSE c.client[u]]]

cdkey_process_buf(c, packet) ==
    CASE packet.type = "ok" -> process_oks(c, packet.key, packet.skey, packet.isok)
      [] packet.type = "ison" -> process_ison(c, packet.key, packet.skey)
      [] OTHER -> c

\* What the server may have sent: it has been asked about the key.
FromValidation ==
    {[type |-> "ok", key |-> r[1], skey |-> r[2], isok |-> ok] :
       r \in cd.requests, ok \in BOOLEAN}
    \cup {[type |-> "ison", key |-> r[1], skey |-> k] : r \in cd.requests, k \in ReauthKeys}

-----------------------------------------------------------------------------
VAL_TIMEOUT(u) ==
    /\ cd.client[u].state = "sentreq" /\ ~cd.client[u].due
    /\ cd' = [cd EXCEPT !.client[u].due = TRUE]

\* The oldest of a user's pending reauths that has not expired expires.
REAUTH_LIFESPAN(u) ==
    \E i \in DOMAIN cd.client[u].reauthq :
        /\ ~cd.client[u].reauthq[i].due
        /\ \A j \in 1..(i - 1) : cd.client[u].reauthq[j].due
        /\ cd' = [cd EXCEPT !.client[u].reauthq[i].due = TRUE]
=============================================================================
