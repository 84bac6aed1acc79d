------------------------------ MODULE Gt2Serial ------------------------------
(***************************************************************************)
(* Serial numbers of the GT2 reliable layer (gt2Message.c).  The program   *)
(* keeps them in an unsigned short and compares them by the sign of the    *)
(* 16 bit difference, so that 0 follows 65535.  Half is 2^15 in the        *)
(* program; the models use a small Half to reach the wrap in few steps.    *)
(*                                                                         *)
(* The models count serials without wrapping them and apply Wrap and       *)
(* SNDiff wherever the code reads one: the code sees exactly the low bits, *)
(* and the unwrapped number tells the properties which message is meant.   *)
(***************************************************************************)
EXTENDS Integers, Sequences

CONSTANT Half      \* half of the serial space: 2^15 for an unsigned short

ASSUME HalfAssumption == Half \in Nat \ {0}

Mod == 2 * Half

\* A bug: half of the bits are kept.
WrapShorter(n) == n % Half

\* What is left of a count in an unsigned short.
Wrap(n) == n % Mod

\* A bug: the difference is not cut to 16 bits.
SNDiffUncut(SN1, SN2) == Wrap(SN1) - Wrap(SN2)

\* gti2SNDiff: (short)(SN1 - SN2).
SNDiff(SN1, SN2) ==
    LET d == Wrap(SN1 - SN2)
    IN  IF d < Half THEN d ELSE d - Mod

\* Bugs: every message that is not early, or not late, passes for the expected.
SameOrLate(SN1, SN2)  == SNDiff(SN1, SN2) <= 0
SameOrEarly(SN1, SN2) == SNDiff(SN1, SN2) >= 0

SameSN(SN1, SN2) == Wrap(SN1) = Wrap(SN2)

\* A bug: the message the peer expects next is dropped as well.
HandleESNInclusive(o, ESN) ==
    SelectSeq(o, LAMBDA m : SNDiff(m.sn, ESN) > 0)

(* HandleESN: of the messages kept for resending, o, those at the front that
   the peer is past are dropped. *)
HandleESN(o, ESN) ==
    LET Removable(i) == SNDiff(o[i].sn, ESN) < 0
        k == CHOOSE j \in 0..Len(o) :
                /\ \A i \in 1..j : Removable(i)
                /\ j < Len(o) => ~Removable(j + 1)
    IN  SubSeq(o, k + 1, Len(o))
=============================================================================
