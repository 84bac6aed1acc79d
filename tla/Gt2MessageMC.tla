---------------------------- MODULE Gt2MessageMC ----------------------------
(* Instances of Gt2Message for TLC: how many messages each end sends. *)
EXTENDS Gt2Message

ThreeAndOne  == [p \in End |-> IF p = "A" THEN 3 ELSE 1]
TwoAndNone   == [p \in End |-> IF p = "A" THEN 2 ELSE 0]

(* Enough for the serials to come round: with Half = 2 or 3 they do after 4 or
   6 messages, and a message of the next round is then among the rest. *)
EightAndNone == [p \in End |-> IF p = "A" THEN 8 ELSE 0]

(* Bound: datagrams in flight at once. *)
AtMost2InFlight == Cardinality(net) <= 2

(* Bound of the runs over the wrap: nobody closes, every message is the
   application's, and at most three datagrams are in flight. *)
OnlyAppMessages ==
    /\ Cardinality(net) <= 3
    /\ \A p \in End : state[p] = "Connected"
    /\ \A p \in End : out[p] # << >> => out[p][Len(out[p])].type = "AppReliable"
=============================================================================
