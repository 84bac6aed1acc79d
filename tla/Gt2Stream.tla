------------------------------ MODULE Gt2Stream ------------------------------
(***************************************************************************)
(* What gt2Send promises for reliable messages (gt2.h): what one end       *)
(* submits, the other end receives without gaps, in order and only once,   *)
(* until one of them closes; a message reported as confirmed has been      *)
(* received.  Nothing is said here of serials, buffers, acks or datagrams. *)
(***************************************************************************)
EXTENDS Naturals, Sequences

CONSTANTS End, Other(_), Message

VARIABLES
    sent,        \* sent[p]: the reliable messages end p submitted
    received,    \* received[p]: those of Other(p) that p was handed
    confirmed,   \* confirmed[p]: how many of sent[p] p knows to have arrived
    open         \* open[p]: p has not closed

vars == <<sent, received, confirmed, open>>

Init ==
    /\ sent      = [p \in End |-> << >>]
    /\ received  = [p \in End |-> << >>]
    /\ confirmed = [p \in End |-> 0]
    /\ open      = [p \in End |-> TRUE]

Submit(p) ==
    /\ open[p]
    /\ \E m \in Message : sent' = [sent EXCEPT ![p] = Append(@, m)]
    /\ UNCHANGED <<received, confirmed, open>>

\* One datagram may carry messages, confirm others, and close the stream.
Receive(p) ==
    /\ open[p]
    /\ \E n \in Len(received[p])..Len(sent[Other(p)]) :
          received' = [received EXCEPT ![p] = SubSeq(sent[Other(p)], 1, n)]
    /\ \E c \in confirmed[p]..Len(received[Other(p)]) :
          confirmed' = [confirmed EXCEPT ![p] = c]
    /\ \E o \in BOOLEAN : open' = [open EXCEPT ![p] = o]
    /\ UNCHANGED sent

Close(p) ==
    /\ open[p]
    /\ open' = [open EXCEPT ![p] = FALSE]
    /\ UNCHANGED <<sent, received, confirmed>>

Next == \E p \in End : Submit(p) \/ Receive(p) \/ Close(p)

Spec == Init /\ [][Next]_vars
=============================================================================
