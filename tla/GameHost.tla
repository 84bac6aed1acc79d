------------------------------- MODULE GameHost -------------------------------
(***************************************************************************)
(* A game host: the availability check, then query and reporting and the   *)
(* CD key SDK on one socket.  The SDKs are called by one thread; the CD    *)
(* key SDK reads nothing itself but is passed the validation server's      *)
(* datagrams by QR2's think (gcd_init_qr2, cdkeyprocess).                  *)
(***************************************************************************)
EXTENDS AvailableCheck, QR2, CDKey

vars == <<ac, qr, cd>>

Init == ACInit /\ QRInit /\ CDInit

Available == ac.result = "available"

\* Made again or canceled only while the other SDKs are not in use.
Check ==
    /\ ~qr.hbsock
    /\ \/ \E sock \in BOOLEAN : GSIStartAvailableCheck(sock)
       \/ \E answer \in AvailableResult : GSIAvailableCheckThink(answer)
       \/ GSICancelAvailableCheck
    /\ UNCHANGED <<qr, cd>>

Begin == Available /\ qr2_init /\ UNCHANGED <<ac, cd>>

\* In the order the CD key SDK asks for: it uses QR2's socket.
Shutdown == qr2_shutdown /\ cd' = gcd_shutdown(cd) /\ UNCHANGED ac

GameState == StateChanged /\ UNCHANGED <<ac, cd>>

CDKeyCall ==
    /\ \/ Available /\ qr.hbsock /\ gcd_init_qr2
       \/ \E u \in Users :
            \/ \E key \in Keys, bogus \in BOOLEAN : gcd_authenticate_user(u, key, bogus)
            \/ gcd_disconnect_user(u)
            \/ \E skey \in ReauthKeys : gcd_process_reauth(u, skey)
       \/ gcd_think
    /\ UNCHANGED <<ac, qr>>

NoPacket == [type |-> "none"]
Packets == QRPacket \cup {NoPacket} \cup FromValidation

\* qr2_think: the heartbeat that is due, then a packet, or none.  A think
\* that reads several stands as several.
qr2_think(packet) ==
    /\ qr.hbsock /\ UNCHANGED ac
    /\ cd' = cdkey_process_buf(cd, packet)
    /\ qr' = qr2_parse_query(qr2_check_send_heartbeat(qr), packet)

Time ==
    \/ ACExpire /\ UNCHANGED <<qr, cd>>
    \/ QRPass /\ UNCHANGED <<ac, cd>>
    \/ /\ \E u \in Users : VAL_TIMEOUT(u) \/ REAUTH_LIFESPAN(u)
       /\ UNCHANGED <<ac, qr>>

Next ==
    \/ Check \/ Begin \/ Shutdown \/ GameState \/ CDKeyCall \/ Time
    \/ \E packet \in Packets : qr2_think(packet)

Spec == Init /\ [][Next]_vars

\* The game calls the think functions as long as it runs, and time passes.
\* That any datagram arrives is not assumed.
Fairness ==
    /\ WF_vars(UNCHANGED <<qr, cd>> /\ GSIAvailableCheckThink("waiting"))
    /\ WF_vars(UNCHANGED <<qr, cd>> /\ ACExpire)
    /\ WF_vars(qr2_think(NoPacket))
    /\ WF_vars(UNCHANGED <<ac, cd>> /\ QRPass)
    /\ WF_vars(UNCHANGED <<ac, qr>> /\ gcd_think)
    /\ \A u \in Users : WF_vars(UNCHANGED <<ac, qr>> /\ VAL_TIMEOUT(u))

FairSpec == Spec /\ Fairness

-----------------------------------------------------------------------------
(* Properties.                                                             *)

\* The structures keep their types; no user has more pending reauths than
\* MAXPENDING_REAUTH, whatever the server asks.
TypeOK == ACTypeOK /\ QRTypeOK /\ CDTypeOK

\* The game is told at most once that no challenge came and at most once
\* that the master refused it, and the first never after a packet arrived.
ErrorsOnce ==
    \A i, j \in DOMAIN qr.events :
        i < j => /\ qr.events[i] # qr.events[j]
                 /\ qr.events[j] # "nochallenge"

\* A change of the game's state that has not been sent yet is still due:
\* no heartbeat or packet in between forgets the request that was put off.
ChangeNotLost == qr.changed => qr.userstatechangerequested

\* A message of a client that the master passes on again is given to the
\* game once, as long as no more messages than are remembered came.
DeliveredOnce ==
    Cardinality(Messages) <= RECENT_MESSAGES
        => \A m \in Messages : qr.delivered[m] <= 1

\* The application is told of a user once, in or out, and never of one it
\* let go; a user in the queue has been let in exactly if it is done, and one
\* that was refused is gone.
ToldOnce ==
    \A u \in Users :
        /\ u \in ToSet(cd.queue) =>
               cd.told[u] = IF cd.client[u].state = "done" THEN <<"in">> ELSE <<>>
        /\ u \notin ToSet(cd.queue) => cd.told[u] \in {<<>>, <<"out">>}

\* The server is not asked about a key while another user that has it is
\* ahead in the queue, on, asked about or to be refused.
KeyAskedOnce ==
    \A i, j \in DOMAIN cd.queue :
        LET u == cd.client[cd.queue[i]]
            v == cd.client[cd.queue[j]]
        IN  i < j /\ u.key = v.key => v.state # "sentreq"

\* A change of the game's state is sent, however often the sending was too
\* soon and whether or not the master answers or has refused the host.
StateReported == qr.changed ~> ~qr.changed

\* The application is told of every user that stays, answer or none.
Authenticated ==
    \A u \in Users :
        cd.client[u].state \in {"sentreq", "gotok", "gotnok"}
            ~> cd.client[u].state \in {"none", "done"}

\* The game comes to know whether the backend is available.
AvailabilityDecided == ac.started ~> (ac.result # "waiting" \/ ~ac.started)
=============================================================================
