--------------------------- MODULE Gt2ConnectionMC ---------------------------
(* Instances of Gt2Connection for TLC: how many objects each side allocates,
   and what the applications do. *)
EXTENDS Gt2Connection

Never  == {FALSE}
Either == BOOLEAN

OneClient  == {1}
TwoClients == {1, 2}
OneServer  == {11}
TwoServers == {11, 12}
=============================================================================
