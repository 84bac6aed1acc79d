----------------------------- MODULE Negotiation -----------------------------
(***************************************************************************)
(* What a NAT negotiation promises the applications of its clients         *)
(* (natneg.h): each is given one result at most, none after it cancelled,  *)
(* and success only with an address of the other client from which it was  *)
(* heard and which hears it, the "open channel" of nr_success.  Nothing is *)
(* said here of the server, of states, retries, timers or pings in flight. *)
(***************************************************************************)
EXTENDS Sequences

CONSTANTS
    Clients,
    Home,       \* Home[c]: the address client c is to be reached at
    NoAddr,
    Failure     \* the results that are no success

VARIABLES
    hears,      \* the clients that have heard the other one from its Home
    told,       \* told[c]: the results the application of c was given
    remote,     \* remote[c]: the address it was given
    cancelled   \* the clients whose application gave up

vars == <<hears, told, remote, cancelled>>

Init ==
    /\ hears     = {}
    /\ told      = [c \in Clients |-> << >>]
    /\ remote    = [c \in Clients |-> NoAddr]
    /\ cancelled = {}

\* A result may come with the ping that brings it about.
MayHear(c) == hears' \in {hears, hears \cup {c}}

Waits(c) == told[c] = << >> /\ c \notin cancelled

Hear(c) == MayHear(c) /\ UNCHANGED <<told, remote, cancelled>>

Succeed(c) ==
    /\ Waits(c)
    /\ MayHear(c) /\ c \in hears'
    /\ told' = [told EXCEPT ![c] = <<"success">>]
    /\ \E d \in hears \ {c} : remote' = [remote EXCEPT ![c] = Home[d]]
    /\ UNCHANGED cancelled

Fail(c) ==
    /\ Waits(c)
    /\ MayHear(c)
    /\ \E result \in Failure : told' = [told EXCEPT ![c] = <<result>>]
    /\ UNCHANGED <<remote, cancelled>>

Cancel(c) ==
    /\ Waits(c)
    /\ cancelled' = cancelled \cup {c}
    /\ UNCHANGED <<hears, told, remote>>

Next == \E c \in Clients : Hear(c) \/ Succeed(c) \/ Fail(c) \/ Cancel(c)

Spec == Init /\ [][Next]_vars
=============================================================================
