--------------------------- MODULE Gt2SerialProofs ---------------------------
(***************************************************************************)
(* Facts about the serials of GT2.  As long as two serials are less than   *)
(* half of the serial space apart, their signed difference is the          *)
(* difference of the unwrapped counts, so that HandleESN drops exactly     *)
(* messages that the peer is past.                                         *)
(***************************************************************************)
EXTENDS Gt2Serial, TLAPS, SequenceTheorems, WellFoundedInduction

(* A count below half of the serial space is kept as it is. *)
LEMMA WrapSmall ==
    ASSUME NEW n \in Int, 0 <= n, n < Half
    PROVE  Wrap(n) = n
BY HalfAssumption DEF Wrap, Mod

(* A small negative difference wraps to the upper half (an unsigned short). *)
LEMMA WrapNegative ==
    ASSUME NEW n \in Int, -Half <= n, n < 0
    PROVE  Wrap(n) = n + Mod
BY HalfAssumption DEF Wrap, Mod

(* gti2SNDiff tells the distance of two serials that are at most half of the
   serial space apart: the cast to short undoes the wrap. *)
THEOREM SNDiffIsDistance ==
    ASSUME NEW a \in Int, NEW b \in Int, -Half <= a - b, a - b < Half
    PROVE  SNDiff(a, b) = a - b
<1>1. CASE a - b >= 0
  <2>1. Wrap(a - b) = a - b
    BY <1>1, WrapSmall
  <2> QED
    BY <2>1 DEF SNDiff
<1>2. CASE a - b < 0
  <2>1. Wrap(a - b) = a - b + Mod
    BY <1>2, WrapNegative
  <2>2. Half \in Nat /\ Mod = 2 * Half
    BY HalfAssumption DEF Mod
  <2> QED
    BY <2>1, <2>2 DEF SNDiff
<1> QED
  BY <1>1, <1>2

(* The serial that is expected is recognised, and no other one. *)
THEOREM SameSNIsEqual ==
    ASSUME NEW a \in Int, NEW b \in Int, -Half <= a - b, a - b < Half
    PROVE  SameSN(a, b) <=> a = b
<1>1. Wrap(a) = Wrap(b) => SNDiff(a, b) = 0
  BY HalfAssumption DEF Wrap, SNDiff, Mod
<1> QED
  BY <1>1, SNDiffIsDistance DEF SameSN

(* gti2HandleESN drops messages from the front only, and only messages with a
   serial below the one the peer expects. *)
THEOREM HandleESNDropsConfirmed ==
    ASSUME NEW S, NEW o \in Seq(S), NEW base \in Nat, NEW ESN \in Nat,
           \A i \in 1..Len(o) : o[i].sn = base + i - 1,
           ESN - base <= Half, base + Len(o) - ESN <= Half
    PROVE  \E k \in 0..Len(o) :
              /\ HandleESN(o, ESN) = SubSeq(o, k + 1, Len(o))
              /\ k > 0 => base + k <= ESN
<1> DEFINE Removable(i) == SNDiff(o[i].sn, ESN) < 0
           Splits(j) == /\ \A i \in 1..j : Removable(i)
                        /\ j < Len(o) => ~Removable(j + 1)
           k == CHOOSE j \in 0..Len(o) : Splits(j)
<1>1. \A i \in 1..Len(o) : Removable(i) <=> base + i - 1 < ESN
  <2> SUFFICES ASSUME NEW i \in 1..Len(o)
               PROVE  Removable(i) <=> base + i - 1 < ESN
    OBVIOUS
  <2>1. SNDiff(base + i - 1, ESN) = base + i - 1 - ESN
    BY SNDiffIsDistance, HalfAssumption
  <2> QED
    BY <2>1
<1>2. \E j \in 0..Len(o) : Splits(j)
  <2>0. Len(o) \in Nat
    OBVIOUS
  <2> HIDE DEF Removable
  <2>1. CASE ESN <= base
    <3> WITNESS 0 \in 0..Len(o)
    <3> QED
      BY <1>1, <2>0, <2>1
  <2>2. CASE ESN > base /\ ESN <= base + Len(o)
    <3>0. ESN - base \in 0..Len(o)
      BY <2>0, <2>2
    <3>1. \A i \in 1..(ESN - base) : Removable(i)
      BY <1>1, <2>0, <2>2
    <3>2. ESN - base < Len(o) => ~Removable(ESN - base + 1)
      BY <1>1, <2>0, <2>2
    <3> QED
      BY <3>0, <3>1, <3>2
  <2>3. CASE ESN > base + Len(o)
    <3> WITNESS Len(o) \in 0..Len(o)
    <3> QED
      BY <1>1, <2>0, <2>3
  <2> QED
    BY <2>1, <2>2, <2>3
<1>3. k \in 0..Len(o) /\ Splits(k)
  BY <1>2
<1>4. HandleESN(o, ESN) = SubSeq(o, k + 1, Len(o))
  BY DEF HandleESN
<1>5. k > 0 => base + k <= ESN
  BY <1>1, <1>3
<1> QED
  BY <1>3, <1>4, <1>5
(* A set of natural numbers has a least element. *)
LEMMA LeastInSet ==
    ASSUME NEW T, T \subseteq Nat, T # {}
    PROVE  \E x \in T : \A y \in T : x <= y
<1> DEFINE R == {ss \in Nat \X Nat : ss[1] < ss[2]}
<1>0. OpToRel(<,Nat) = R
  BY Zenon DEF OpToRel
<1>1. IsWellFoundedOn(R, Nat)
  BY <1>0, NatLessThanWellFounded, Zenon
<1>2. \A x, y \in Nat : y < x => <<y, x>> \in R
  OBVIOUS
<1> HIDE DEF R
<1>3. PICK x \in T : \A y \in T : ~(<<y,x>> \in R)
  BY <1>1, WFMin
<1>4. ASSUME NEW y \in T PROVE x <= y
  <2>1. x \in Nat /\ y \in Nat /\ ~(y < x)
    BY <1>2, <1>3
  <2> QED
    BY <2>1
<1> QED
  BY <1>4

(* Whatever the serials, gti2HandleESN leaves an outgoing buffer. *)
LEMMA HandleESNType ==
    ASSUME NEW S, NEW o \in Seq(S), NEW ESN
    PROVE  HandleESN(o, ESN) \in Seq(S)
<1> DEFINE Removable(i) == SNDiff(o[i].sn, ESN) < 0
           Splits(j) == /\ \A i \in 1..j : Removable(i)
                        /\ j < Len(o) => ~Removable(j + 1)
           Stops == {j \in 0..Len(o) : j < Len(o) => ~Removable(j + 1)}
<1>1. Len(o) \in Nat
  OBVIOUS
<1> HIDE DEF Removable
<1>2. Stops \subseteq Nat /\ Len(o) \in Stops
  BY <1>1
<1>3. PICK j \in Stops : \A i \in Stops : j <= i
  BY <1>2, LeastInSet
<1>4. \A i \in 1..j : Removable(i)
  <2> SUFFICES ASSUME NEW i \in 1..j, ~Removable(i) PROVE FALSE
    OBVIOUS
  <2>1. i - 1 \in 0..Len(o) /\ (i - 1) + 1 = i
    BY <1>1, <1>3
  <2>2. i - 1 \in Stops
    BY <2>1
  <2>3. j \in Nat
    BY <1>1, <1>3
  <2> HIDE DEF Stops
  <2>4. j <= i - 1
    BY <1>3, <2>2
  <2> QED
    BY <2>3, <2>4
<1>5. \E k \in 0..Len(o) : Splits(k)
  BY <1>3, <1>4
<1> DEFINE k == CHOOSE i \in 0..Len(o) : Splits(i)
<1>6. k \in 0..Len(o)
  BY <1>5
<1>7. HandleESN(o, ESN) = SubSeq(o, k + 1, Len(o))
  BY DEF HandleESN, Removable
<1> HIDE DEF k
<1> QED
  BY <1>1, <1>6, <1>7, SubSeqProperties
=============================================================================
