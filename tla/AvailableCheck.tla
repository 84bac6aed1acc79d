---------------------------- MODULE AvailableCheck ----------------------------
(***************************************************************************)
(* The availability check (common/gsAvailable.c), which a game makes       *)
(* before it uses the other SDKs: it asks whether the backend is available *)
(* for it and takes no answer for yes.                                     *)
(*                                                                         *)
(* ac is the static AC with __GSIACResult; sock is whether a socket is     *)
(* open, "due" that TIMEOUT_TIME has passed.  When a check ends, its time  *)
(* and count are dropped: nothing reads them again.  The game does not     *)
(* cancel a check that has ended.                                          *)
(***************************************************************************)
EXTENDS Integers

CONSTANT MAX_RETRIES    \* of the query of the check

ASSUME AvailableAssumption == MAX_RETRIES \in Nat

VARIABLE ac

AvailableResult == {"waiting", "available", "unavailable", "temporarily unavailable"}

ACTypeOK == ac \in [result : AvailableResult, sock : BOOLEAN,
                    due : BOOLEAN, retryCount : 0..MAX_RETRIES, started : BOOLEAN]

ACInit == ac = [result |-> "waiting", sock |-> FALSE, due |-> FALSE,
                retryCount |-> 0, started |-> FALSE]

\* The socket is created, or the host is not known or there is no socket.
GSIStartAvailableCheck(sock) ==
    /\ ~ac.started
    /\ ac' = [ac EXCEPT !.started = TRUE, !.sock = sock]

Told(a, result) ==
    [a EXCEPT !.result = result, !.sock = FALSE, !.due = FALSE, !.retryCount = 0]

\* A mutant: the retries are not counted.
RetryUncounted(a) ==
    IF a.due THEN [a EXCEPT !.due = FALSE] ELSE a

NoAnswer(a) ==
    CASE ~a.due -> a
      [] a.due /\ a.retryCount = MAX_RETRIES -> Told(a, "available")
      [] OTHER -> [a EXCEPT !.due = FALSE, !.retryCount = @ + 1]

\* The game thinks until it is told; answer is "waiting" when there is none.
GSIAvailableCheckThink(answer) ==
    /\ ac.started /\ ac.result = "waiting"
    /\ ac' = CASE ~ac.sock -> Told(ac, "available")
               [] ac.sock /\ answer # "waiting" -> Told(ac, answer)
               [] OTHER -> NoAnswer(ac)

\* The game may start another check after it.
GSICancelAvailableCheck ==
    /\ ac.sock
    /\ ac' = [Told(ac, "waiting") EXCEPT !.started = FALSE]

ACExpire ==
    /\ ac.sock /\ ~ac.due
    /\ ac' = [ac EXCEPT !.due = TRUE]
=============================================================================
