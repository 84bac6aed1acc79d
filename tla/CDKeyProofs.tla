----------------------------- MODULE CDKeyProofs -----------------------------
(***************************************************************************)
(* The CD key SDK: what its calls, its think and the server's datagrams    *)
(* keep true of the product, for any users, keys and limits.  ProductInv   *)
(* is the invariant; GameHostProofs shows it of the whole game host.       *)
(***************************************************************************)
EXTENDS CDKey, SequenceTheorems, FiniteSetTheorems, WellFoundedInduction, TLAPS

-----------------------------------------------------------------------------
(* A fold over a sequence, one element at a time.                          *)

(* A set of natural numbers has a least element. *)
LEMMA LeastNumber ==
    ASSUME NEW T, T \subseteq Nat, T # {}
    PROVE  \E x \in T : \A y \in T : x <= y
<1> DEFINE R == {ss \in Nat \X Nat : ss[1] < ss[2]}
<1>1. OpToRel(<, Nat) = R
  BY Zenon DEF OpToRel
<1>2. IsWellFoundedOn(R, Nat)
  BY <1>1, NatLessThanWellFounded, Zenon
<1>3. \A x, y \in Nat : y < x => <<y, x>> \in R
  OBVIOUS
<1> HIDE DEF R
<1>4. PICK x \in T : \A y \in T : ~(<<y, x>> \in R)
  BY <1>2, WFMin
<1>5. ASSUME NEW y \in T PROVE x <= y
  <2>1. x \in Nat /\ y \in Nat /\ ~(y < x)
    BY <1>3, <1>4
  <2> QED
    BY <2>1
<1> QED
  BY <1>4, <1>5

(* A set that has 0 and with every number the next one, up to n, has n. *)
LEMMA UpTo ==
    ASSUME NEW T, NEW n \in Nat, 0 \in T,
           \A m \in 0..n : m \in T /\ m < n => m + 1 \in T
    PROVE  n \in T
<1> SUFFICES ASSUME n \notin T PROVE FALSE
  OBVIOUS
<1> DEFINE U == {m \in 0..n : m \notin T}
<1>1. U \subseteq Nat /\ n \in U
  OBVIOUS
<1>2. PICK m \in U : \A l \in U : m <= l
  BY <1>1, LeastNumber
<1>3. m \in 0..n /\ m # 0
  OBVIOUS
<1>4. m - 1 \in 0..n /\ m - 1 < n /\ (m - 1) + 1 = m
  BY <1>3
<1>5. m - 1 \in T
  <2> SUFFICES ASSUME m - 1 \notin T PROVE FALSE
    OBVIOUS
  <2>1. m - 1 \in U
    BY <1>4
  <2>2. m <= m - 1
    BY <1>2, <2>1
  <2> QED
    BY <1>3, <2>2
<1> QED
  BY <1>4, <1>5

LEMMA MaxIs ==
    ASSUME NEW n \in Nat, NEW s \in SUBSET (1..n), n \in s
    PROVE  Max(s) = n
<1>1. \A y \in s : n >= y /\ y \in Nat
  OBVIOUS
<1>2. Max(s) \in s /\ \A y \in s : Max(s) >= y
  BY <1>1, Zenon DEF Max
<1>3. n >= Max(s) /\ Max(s) \in Nat
  BY <1>1, <1>2
<1>4. Max(s) >= n
  BY <1>2
<1> QED
  BY <1>3, <1>4

(* The fold of gcd_think is a sequence of contexts: each is ThinkClient of   *)
(* the one before.                                                          *)
LEMMA ThinkSteps ==
    ASSUME NEW c, NEW q \in Seq(Users)
    PROVE  \E r : /\ r[0] = c
                  /\ \A i \in 1..Len(q) : r[i] = ThinkClient(r[i - 1], q[i])
                  /\ FoldLeft(ThinkClient, c, q) = r[Len(q)]
<1> DEFINE n == Len(q)
           Body(g, s) == IF s = {} THEN c ELSE ThinkClient(g[s \ {Max(s)}], q[Max(s)])
           IsIter(g, m) == g = [s \in SUBSET (1..m) |-> Body(g, s)]
<1>1. n \in Nat /\ DOMAIN q = 1..n
  BY LenProperties
<1>2. FoldLeft(ThinkClient, c, q) = (CHOOSE g : IsIter(g, n))[1..n]
  BY <1>1 DEF FoldLeft, MapThenFoldSet
<1>3. ASSUME NEW m \in 0..n
      PROVE  \E g : IsIter(g, m)
  <2> DEFINE T == {l \in 0..n : \E g : IsIter(g, l)}
  <2>1. 0 \in T
    <3> DEFINE g == [s \in SUBSET (1..0) |-> c]
    <3>1. \A s \in SUBSET (1..0) : s = {}
      OBVIOUS
    <3>2. g = [s \in SUBSET (1..0) |-> Body(g, s)]
      BY <3>1
    <3>3. IsIter(g, 0)
      BY <3>2
    <3> HIDE DEF g, IsIter
    <3> QED
      BY <1>1, <3>3
  <2>2. ASSUME NEW l \in 0..n, l \in T, l < n PROVE l + 1 \in T
    <3>1. PICK g : IsIter(g, l)
      BY <2>2
    <3> DEFINE h == [s \in SUBSET (1..(l + 1)) |->
                       IF l + 1 \in s THEN ThinkClient(g[s \ {l + 1}], q[l + 1])
                       ELSE g[s]]
    <3>2. ASSUME NEW s \in SUBSET (1..(l + 1)), l + 1 \in s
          PROVE  h[s] = Body(h, s)
      <4>1. Max(s) = l + 1
        BY <1>1, <3>2, MaxIs
      <4>2. s \ {l + 1} \in SUBSET (1..(l + 1)) /\ l + 1 \notin s \ {l + 1} /\ s # {}
        BY <3>2
      <4>3. h[s \ {l + 1}] = g[s \ {l + 1}]
        BY <4>2
      <4>4. h[s] = ThinkClient(g[s \ {l + 1}], q[l + 1])
        BY <3>2
      <4> HIDE DEF h
      <4> QED
        BY <4>1, <4>2, <4>3, <4>4
    <3>3. ASSUME NEW s \in SUBSET (1..(l + 1)), l + 1 \notin s
          PROVE  h[s] = Body(h, s)
      <4>1. s \in SUBSET (1..l)
        BY <1>1, <3>3
      <4>2. h[s] = g[s] /\ g[s] = Body(g, s)
        BY <3>1, <3>3, <4>1
      <4>3. s \ {Max(s)} \in SUBSET (1..(l + 1)) /\ l + 1 \notin s \ {Max(s)}
        BY <3>3
      <4>4. h[s \ {Max(s)}] = g[s \ {Max(s)}]
        BY <4>3
      <4> HIDE DEF h
      <4> QED
        BY <4>2, <4>4
    <3>4. IsIter(h, l + 1)
      <4>1. \A s \in SUBSET (1..(l + 1)) : h[s] = Body(h, s)
        BY <3>2, <3>3
      <4>2. h = [s \in SUBSET (1..(l + 1)) |-> h[s]]
        OBVIOUS
      <4> HIDE DEF h
      <4> QED
        BY <4>1, <4>2
    <3> HIDE DEF h, IsIter
    <3>5. l + 1 \in 0..n
      BY <1>1, <2>2
    <3> QED
      BY <3>4, <3>5
  <2> HIDE DEF T
  <2>3. \A l \in 0..m : l \in T /\ l < m => l + 1 \in T
    BY <1>1, <2>2
  <2>4. m \in T
    BY <1>1, <2>1, <2>3, UpTo
  <2> QED
    BY <2>4 DEF T
<1> DEFINE f == CHOOSE g : IsIter(g, n)
<1>4. IsIter(f, n)
  <2>1. n \in 0..n
    BY <1>1
  <2> HIDE DEF IsIter
  <2>2. \E g : IsIter(g, n)
    BY <1>3, <2>1
  <2> QED
    BY <2>2, Zenon
<1> DEFINE r == [i \in 0..n |-> f[1..i]]
<1>5. \A s \in SUBSET (1..n) : f[s] = Body(f, s)
  BY <1>4, Zenon
<1>6. FoldLeft(ThinkClient, c, q) = f[1..n]
  BY <1>2
<1> HIDE DEF f
<1>7. r[0] = c
  <2>1. 1..0 = {}
    OBVIOUS
  <2>2. f[1..0] = c
    BY <1>5, <2>1
  <2> QED
    BY <1>1, <2>2
<1>8. ASSUME NEW i \in 1..n PROVE r[i] = ThinkClient(r[i - 1], q[i])
  <2>1. Max(1..i) = i
    BY <1>1, MaxIs
  <2>2. (1..i) \ {i} = 1..(i - 1)
    BY <1>1
  <2>3. 1..i # {} /\ 1..i \in SUBSET (1..n)
    <3>1. i \in Nat /\ i >= 1 /\ i <= n
      BY <1>1
    <3>2. \A j \in 1..i : j \in 1..n
      BY <1>1, <3>1
    <3>3. i \in 1..i
      BY <3>1
    <3> QED
      BY <3>2, <3>3
  <2>4. f[1..i] = ThinkClient(f[1..(i - 1)], q[i])
    BY <1>5, <2>1, <2>2, <2>3
  <2>5. i \in 0..n /\ i - 1 \in 0..n
    BY <1>1
  <2> QED
    BY <2>4, <2>5
<1>9. r[n] = f[1..n]
  BY <1>1
<1> QED
  BY <1>6, <1>7, <1>8, <1>9

-----------------------------------------------------------------------------
(* The queue of clients: a sequence of users without repetition.           *)

NoTwice(q) == \A i, j \in 1..Len(q) : q[i] = q[j] => i = j

LEMMA QueuePlaces ==
    ASSUME NEW q \in Seq(Users)
    PROVE  /\ Len(q) \in Nat /\ DOMAIN q = 1..Len(q)
           /\ \A i \in 1..Len(q) : q[i] \in Users /\ q[i] \in ToSet(q)
           /\ \A u \in ToSet(q) : \E i \in 1..Len(q) : q[i] = u
           /\ ToSet(q) \subseteq Users
<1>1. Len(q) \in Nat /\ DOMAIN q = 1..Len(q) /\ \A i \in 1..Len(q) : q[i] \in Users
  BY LenProperties, ElementOfSeq
<1>2. ToSet(q) = {q[i] : i \in 1..Len(q)}
  BY <1>1 DEF ToSet
<1> QED
  BY <1>1, <1>2

(* A user put at the end. *)
LEMMA QueueAppend ==
    ASSUME NEW q \in Seq(Users), NoTwice(q), NEW u \in Users, u \notin ToSet(q)
    PROVE  /\ Append(q, u) \in Seq(Users) /\ NoTwice(Append(q, u))
           /\ ToSet(Append(q, u)) = ToSet(q) \cup {u}
           /\ Len(Append(q, u)) = Len(q) + 1
           /\ \A i \in 1..Len(q) : Append(q, u)[i] = q[i]
           /\ Append(q, u)[Len(q) + 1] = u
<1> DEFINE a == Append(q, u)
<1>1. /\ a \in Seq(Users) /\ Len(a) = Len(q) + 1 /\ Len(q) \in Nat
      /\ \A i \in 1..Len(q) : a[i] = q[i]
      /\ a[Len(q) + 1] = u
  BY AppendProperties, LenProperties
<1> HIDE DEF a
<1>2. \A i \in 1..Len(a) : i \in 1..Len(q) \/ i = Len(q) + 1
  BY <1>1
<1>3. \A i \in 1..Len(q) : q[i] # u
  BY QueuePlaces
<1>4. NoTwice(a)
  BY <1>1, <1>2, <1>3 DEF NoTwice
<1>5. \A x \in ToSet(a) : x \in ToSet(q) \cup {u}
  BY <1>1, <1>2, QueuePlaces
<1>6. ASSUME NEW x \in ToSet(q) \cup {u} PROVE x \in ToSet(a)
  <2>1. \A i \in 1..Len(a) : a[i] \in ToSet(a)
    BY <1>1, QueuePlaces
  <2>2. Len(q) + 1 \in 1..Len(a) /\ \A i \in 1..Len(q) : i \in 1..Len(a)
    BY <1>1
  <2>3. CASE x = u
    BY <1>1, <2>1, <2>2, <2>3
  <2>4. CASE x \in ToSet(q)
    <3>1. PICK i \in 1..Len(q) : q[i] = x
      BY <2>4, QueuePlaces
    <3> QED
      BY <1>1, <2>1, <2>2, <3>1
  <2> QED
    BY <2>3, <2>4
<1> QED
  BY <1>1, <1>4, <1>5, <1>6 DEF a

(* A user taken out: the others stay, in their order. *)
LEMMA QueueRemove ==
    ASSUME NEW q \in Seq(Users), NoTwice(q), NEW u \in ToSet(q)
    PROVE  /\ RemoveFirst(q, u) \in Seq(Users) /\ NoTwice(RemoveFirst(q, u))
           /\ ToSet(RemoveFirst(q, u)) = ToSet(q) \ {u}
           /\ \A i, j \in 1..Len(RemoveFirst(q, u)) : i < j =>
                \E a, b \in 1..Len(q) : /\ a < b /\ q[a] = RemoveFirst(q, u)[i]
                                        /\ q[b] = RemoveFirst(q, u)[j]
<1> DEFINE r == RemoveFirst(q, u)
<1>1. Len(q) \in Nat /\ \A i \in 1..Len(q) : q[i] \in Users
  BY QueuePlaces
<1>2. PICK k \in 1..Len(q) : q[k] = u
  BY QueuePlaces
<1>3. {i \in 1..Len(q) : q[i] = u} = {k}
  BY <1>2 DEF NoTwice
<1>4. SelectInSeq(q, LAMBDA v : v = u) = k
  BY <1>2, <1>3 DEF SelectInSeq, Min
<1>5. r = SubSeq(q, 1, k - 1) \o SubSeq(q, k + 1, Len(q))
  BY <1>2, <1>4 DEF RemoveFirst, RemoveAt
<1> HIDE DEF r
<1>6. /\ r \in Seq(Users) /\ Len(r) = Len(q) - 1
      /\ \A i \in 1..Len(r) : r[i] = IF i < k THEN q[i] ELSE q[i + 1]
  <2> DEFINE a == SubSeq(q, 1, k - 1)
             b == SubSeq(q, k + 1, Len(q))
  <2>1. /\ k \in Nat /\ k >= 1 /\ k <= Len(q)
        /\ \A i \in 1..(k - 1) : q[i] \in Users
        /\ \A i \in (k + 1)..Len(q) : q[i] \in Users
    BY <1>1
  <2>2. /\ a \in Seq(Users) /\ Len(a) = k - 1
        /\ \A i \in 1..(k - 1) : a[i] = q[i]
    BY <1>1, <2>1, SubSeqProperties
  <2>3. /\ b \in Seq(Users) /\ Len(b) = Len(q) - k
        /\ \A i \in 1..(Len(q) - k) : b[i] = q[k + i]
    <3>1. /\ b \in Seq(Users)
          /\ Len(b) = IF k + 1 <= Len(q) THEN Len(q) - (k + 1) + 1 ELSE 0
      BY <1>1, <2>1, SubSeqProperties
    <3>2. ASSUME NEW i \in 1..(Len(q) - k) PROVE b[i] = q[k + i]
      <4>1. i \in 1..(Len(q) - (k + 1) + 1) /\ (k + 1) + i - 1 = k + i
        BY <1>1, <2>1
      <4>2. b[i] = q[(k + 1) + i - 1]
        BY <1>1, <2>1, <4>1, SubSeqProperties
      <4> QED
        BY <4>1, <4>2
    <3> HIDE DEF b
    <3> QED
      BY <1>1, <2>1, <3>1, <3>2
  <2> HIDE DEF a, b
  <2>4. r = a \o b
    BY <1>5 DEF a, b
  <2>5. /\ r \in Seq(Users) /\ Len(r) = Len(a) + Len(b)
        /\ \A i \in 1..Len(r) : r[i] = IF i <= Len(a) THEN a[i] ELSE b[i - Len(a)]
    <3>1. a \in Seq(Users) /\ b \in Seq(Users)
      BY <2>2, <2>3
    <3>2. /\ a \o b \in Seq(Users) /\ Len(a \o b) = Len(a) + Len(b)
          /\ \A i \in 1..(Len(a) + Len(b)) :
               (a \o b)[i] = IF i <= Len(a) THEN a[i] ELSE b[i - Len(a)]
      BY <3>1, ConcatProperties
    <3> QED
      BY <2>4, <3>2
  <2>6. Len(r) = Len(q) - 1
    BY <1>1, <2>1, <2>2, <2>3, <2>5
  <2>7. ASSUME NEW i \in 1..Len(r) PROVE r[i] = IF i < k THEN q[i] ELSE q[i + 1]
    <3>1. CASE i < k
      <4>1. i <= Len(a) /\ i \in 1..(k - 1)
        BY <2>1, <2>2, <3>1
      <4> QED
        BY <2>2, <2>5, <3>1, <4>1
    <3>2. CASE ~(i < k)
      <4>1. ~(i <= Len(a)) /\ i - Len(a) \in 1..(Len(q) - k) /\ k + (i - Len(a)) = i + 1
        BY <1>1, <2>1, <2>2, <2>6, <3>2
      <4> QED
        BY <2>3, <2>5, <3>2, <4>1
    <3> QED
      BY <3>1, <3>2
  <2> QED
    BY <2>5, <2>6, <2>7
<1> DEFINE From(i) == IF i < k THEN i ELSE i + 1
<1>7. \A i \in 1..Len(r) : From(i) \in 1..Len(q) /\ From(i) # k /\ r[i] = q[From(i)]
  BY <1>1, <1>6
<1>8. \A i, j \in 1..Len(r) : i < j => From(i) < From(j)
  BY <1>1, <1>6
<1>9. \A i \in 1..Len(q) : i # k => \E j \in 1..Len(r) : From(j) = i
  <2> SUFFICES ASSUME NEW i \in 1..Len(q), i # k PROVE \E j \in 1..Len(r) : From(j) = i
    OBVIOUS
  <2>1. CASE i < k
    <3>1. i \in 1..Len(r) /\ From(i) = i
      BY <1>1, <1>6, <2>1
    <3> QED
      BY <3>1
  <2>2. CASE i > k
    <3>1. i - 1 \in 1..Len(r) /\ From(i - 1) = i
      BY <1>1, <1>6, <2>2
    <3> QED
      BY <3>1
  <2> QED
    BY <1>1, <2>1, <2>2
<1> HIDE DEF From
<1>10. NoTwice(r)
  <2> SUFFICES ASSUME NEW i \in 1..Len(r), NEW j \in 1..Len(r), r[i] = r[j], i # j
               PROVE  FALSE
    BY DEF NoTwice
  <2>1. From(i) = From(j)
    BY <1>7 DEF NoTwice
  <2>2. From(i) \in Nat /\ From(j) \in Nat /\ (i < j \/ j < i)
    BY <1>1, <1>6, <1>7
  <2> QED
    BY <1>8, <2>1, <2>2
<1>11. ToSet(r) = ToSet(q) \ {u}
  <2>1. \A x \in ToSet(r) : x \in ToSet(q) \ {u}
    BY <1>2, <1>6, <1>7, QueuePlaces DEF NoTwice
  <2>2. ASSUME NEW x \in ToSet(q) \ {u} PROVE x \in ToSet(r)
    <3>1. PICK i \in 1..Len(q) : q[i] = x
      BY QueuePlaces
    <3>2. PICK j \in 1..Len(r) : From(j) = i
      BY <1>2, <1>9, <3>1
    <3>3. r[j] = x
      BY <1>7, <3>1, <3>2
    <3> QED
      BY <1>6, <3>3, QueuePlaces
  <2> QED
    BY <2>1, <2>2
<1>12. \A i, j \in 1..Len(r) : i < j =>
         \E a, b \in 1..Len(q) : a < b /\ q[a] = r[i] /\ q[b] = r[j]
  BY <1>7, <1>8
<1> QED
  BY <1>6, <1>10, <1>11, <1>12 DEF r

(* A bounded sequence is a short one. *)
LEMMA Short ==
    ASSUME NEW S, NEW n \in Nat, NEW q
    PROVE  q \in BoundedSeq(S, n) <=> q \in Seq(S) /\ Len(q) <= n
<1>1. ASSUME q \in BoundedSeq(S, n) PROVE q \in Seq(S) /\ Len(q) <= n
  <2>1. PICK m \in 0..n : q \in [1..m -> S]
    BY <1>1 DEF BoundedSeq, SeqOf
  <2>2. \A i \in 1..m : q[i] \in S
    BY <2>1
  <2>3. q = [i \in 1..m |-> q[i]] /\ m \in Nat
    BY <2>1
  <2>4. q \in Seq(S)
    BY <2>2, <2>3, IsASeq
  <2>5. Len(q) = m
    BY <2>1, <2>3, <2>4, LenProperties
  <2> QED
    BY <2>4, <2>5
<1>2. ASSUME q \in Seq(S), Len(q) <= n PROVE q \in BoundedSeq(S, n)
  <2>1. Len(q) \in 0..n /\ q \in [1..Len(q) -> S]
    BY <1>2, LenProperties
  <2> QED
    BY <2>1 DEF BoundedSeq, SeqOf
<1> QED
  BY <1>1, <1>2

-----------------------------------------------------------------------------
(* The invariant of the product.                                           *)

(* A user that waits is told nothing yet, one that is done that it is in,  *)
(* one that is away at most that it was refused.                           *)
Waits(client, told) ==
    /\ client.state # "none" /\ client.key \in Keys
    /\ told = IF client.state = "done" THEN <<"in">> ELSE <<>>
Away(client, told) == client = NoClient /\ told \in {<<>>, <<"out">>}

(* KeyAskedOnce, of a product. *)
AskedOnce(c) ==
    \A i, j \in 1..Len(c.queue) :
        i < j /\ c.client[c.queue[i]].key = c.client[c.queue[j]].key
            => c.client[c.queue[j]].state # "sentreq"

ProductInv(c) ==
    /\ c \in Product
    /\ NoTwice(c.queue)
    /\ \A u \in ToSet(c.queue) : Waits(c.client[u], c.told[u])
    /\ \A u \in Users \ ToSet(c.queue) : Away(c.client[u], c.told[u])
    /\ AskedOnce(c)

LEMMA CDLimits ==
    /\ VAL_RETRIES \in Nat /\ VAL_RETRIES >= 1
    /\ MAXPENDING_REAUTH \in Nat /\ MAXPENDING_REAUTH >= 1
    /\ MaxTold \in Nat /\ MaxTold >= 1
BY CDKeyAssumption

(* What the application is told fits. *)
LEMMA Telling == {<<>>, <<"in">>, <<"out">>} \subseteq BoundedSeq({"in", "out"}, MaxTold)
<1>1. <<"in">> \in Seq({"in", "out"}) /\ Len(<<"in">>) <= MaxTold
  BY CDLimits
<1>2. <<"out">> \in Seq({"in", "out"}) /\ Len(<<"out">>) <= MaxTold
  BY CDLimits
<1>3. <<>> \in Seq({"in", "out"}) /\ Len(<<>>) <= MaxTold
  BY CDLimits
<1>4. \A q \in Seq({"in", "out"}) :
         Len(q) <= MaxTold => q \in BoundedSeq({"in", "out"}, MaxTold)
  BY CDLimits, Short, Zenon
<1> QED
  BY <1>1, <1>2, <1>3, <1>4

LEMMA NoClientOK == NoClient \in Client
<1>1. <<>> \in BoundedSeq(Reauth, MAXPENDING_REAUTH)
  <2>1. <<>> \in Seq(Reauth) /\ Len(<<>>) <= MAXPENDING_REAUTH
    BY CDLimits
  <2> QED
    BY <2>1, CDLimits, Short, Zenon
<1> QED
  BY <1>1, CDLimits DEF NoClient, Client, ClientState

LEMMA NobodyInv ==
    ASSUME NEW c, c \in Product, c.queue = <<>>,
           \A u \in Users : Away(c.client[u], c.told[u])
    PROVE  ProductInv(c)
<1>1. Len(c.queue) = 0 /\ ToSet(c.queue) = {}
  BY QueuePlaces DEF Product, ToSet
<1> QED
  BY <1>1 DEF ProductInv, NoTwice, AskedOnce

(* One client of the queue changes. *)
LEMMA OneClient ==
    ASSUME NEW c, ProductInv(c), NEW u \in ToSet(c.queue), NEW d \in Product,
           d.queue = c.queue,
           \A v \in Users \ {u} : d.client[v] = c.client[v] /\ d.told[v] = c.told[v],
           Waits(d.client[u], d.told[u]),
           d.client[u].key = c.client[u].key,
           d.client[u].state = "sentreq" => c.client[u].state = "sentreq"
    PROVE  ProductInv(d)
<1>1. c.queue \in Seq(Users)
  BY DEF ProductInv, Product
<1>2. NoTwice(d.queue)
  BY DEF ProductInv
<1>3. \A v \in ToSet(d.queue) : Waits(d.client[v], d.told[v])
  BY <1>1, QueuePlaces DEF ProductInv
<1>4. \A v \in Users \ ToSet(d.queue) : Away(d.client[v], d.told[v])
  BY <1>1, QueuePlaces DEF ProductInv
<1>5. \A v \in Users : /\ d.client[v].key = c.client[v].key
                       /\ d.client[v].state = "sentreq" => c.client[v].state = "sentreq"
  OBVIOUS
<1>6. AskedOnce(d)
  <2> SUFFICES ASSUME NEW i \in 1..Len(d.queue), NEW j \in 1..Len(d.queue), i < j,
                      d.client[d.queue[i]].key = d.client[d.queue[j]].key
               PROVE  d.client[d.queue[j]].state # "sentreq"
    BY DEF AskedOnce
  <2>1. c.queue[i] \in Users /\ c.queue[j] \in Users
    BY <1>1, QueuePlaces
  <2>2. c.client[c.queue[i]].key = c.client[c.queue[j]].key
    BY <1>5, <2>1
  <2>3. c.client[c.queue[j]].state # "sentreq"
    BY <2>2 DEF ProductInv, AskedOnce
  <2> QED
    BY <1>5, <2>1, <2>3
<1> QED
  BY <1>2, <1>3, <1>4, <1>6 DEF ProductInv

(* A user leaves the queue. *)
LEMMA Leaves ==
    ASSUME NEW c, ProductInv(c), NEW u \in ToSet(c.queue), NEW d \in Product,
           d.queue = RemoveFirst(c.queue, u),
           \A v \in Users \ {u} : d.client[v] = c.client[v] /\ d.told[v] = c.told[v],
           Away(d.client[u], d.told[u])
    PROVE  ProductInv(d) /\ ToSet(d.queue) = ToSet(c.queue) \ {u}
<1>1. c.queue \in Seq(Users) /\ NoTwice(c.queue)
  BY DEF ProductInv, Product
<1>2. /\ d.queue \in Seq(Users) /\ NoTwice(d.queue)
      /\ ToSet(d.queue) = ToSet(c.queue) \ {u}
      /\ \A i, j \in 1..Len(d.queue) : i < j =>
            \E a, b \in 1..Len(c.queue) :
                a < b /\ c.queue[a] = d.queue[i] /\ c.queue[b] = d.queue[j]
  BY <1>1, QueueRemove
<1>3. \A v \in ToSet(d.queue) : /\ Waits(d.client[v], d.told[v])
                                /\ d.client[v] = c.client[v]
  BY <1>1, <1>2, QueuePlaces DEF ProductInv
<1>4. \A v \in Users \ ToSet(d.queue) : Away(d.client[v], d.told[v])
  BY <1>2 DEF ProductInv
<1>5. AskedOnce(d)
  <2> SUFFICES ASSUME NEW i \in 1..Len(d.queue), NEW j \in 1..Len(d.queue), i < j,
                      d.client[d.queue[i]].key = d.client[d.queue[j]].key
               PROVE  d.client[d.queue[j]].state # "sentreq"
    BY DEF AskedOnce
  <2>1. PICK a, b \in 1..Len(c.queue) :
          a < b /\ c.queue[a] = d.queue[i] /\ c.queue[b] = d.queue[j]
    BY <1>2
  <2>2. /\ d.client[d.queue[i]] = c.client[c.queue[a]]
        /\ d.client[d.queue[j]] = c.client[c.queue[b]]
    BY <1>2, <1>3, <2>1, QueuePlaces
  <2> QED
    BY <2>1, <2>2 DEF ProductInv, AskedOnce
<1> QED
  BY <1>2, <1>3, <1>4, <1>5 DEF ProductInv

(* A user joins at the end of the queue: it is asked about only if no one   *)
(* before it has its key.                                                   *)
LEMMA Joins ==
    ASSUME NEW c, ProductInv(c), NEW u \in Users, u \notin ToSet(c.queue), NEW d \in Product,
           d.queue = Append(c.queue, u),
           \A v \in Users \ {u} : d.client[v] = c.client[v] /\ d.told[v] = c.told[v],
           Waits(d.client[u], d.told[u]),
           d.client[u].state = "sentreq" =>
               \A v \in ToSet(c.queue) : c.client[v].key # d.client[u].key
    PROVE  ProductInv(d)
<1>1. c.queue \in Seq(Users) /\ NoTwice(c.queue) /\ Len(c.queue) \in Nat
  BY QueuePlaces DEF ProductInv, Product
<1>2. /\ d.queue \in Seq(Users) /\ NoTwice(d.queue)
      /\ ToSet(d.queue) = ToSet(c.queue) \cup {u} /\ Len(d.queue) = Len(c.queue) + 1
      /\ \A i \in 1..Len(c.queue) : d.queue[i] = c.queue[i]
      /\ d.queue[Len(c.queue) + 1] = u
  BY <1>1, QueueAppend
<1>3. \A v \in ToSet(d.queue) : Waits(d.client[v], d.told[v])
  BY <1>1, <1>2, QueuePlaces DEF ProductInv
<1>4. \A v \in Users \ ToSet(d.queue) : Away(d.client[v], d.told[v])
  BY <1>2 DEF ProductInv
<1>5. AskedOnce(d)
  <2> SUFFICES ASSUME NEW i \in 1..Len(d.queue), NEW j \in 1..Len(d.queue), i < j,
                      d.client[d.queue[i]].key = d.client[d.queue[j]].key
               PROVE  d.client[d.queue[j]].state # "sentreq"
    BY DEF AskedOnce
  <2>1. /\ i \in 1..Len(c.queue) /\ d.queue[i] = c.queue[i]
        /\ d.client[c.queue[i]] = c.client[c.queue[i]]
        /\ c.queue[i] \in ToSet(c.queue)
    <3>1. i \in 1..Len(c.queue)
      BY <1>1, <1>2
    <3> QED
      BY <1>1, <1>2, <3>1, QueuePlaces
  <2>2. CASE j \in 1..Len(c.queue)
    <3>1. d.queue[j] = c.queue[j] /\ d.client[c.queue[j]] = c.client[c.queue[j]]
      BY <1>1, <1>2, <2>2, QueuePlaces
    <3> QED
      BY <2>1, <2>2, <3>1 DEF ProductInv, AskedOnce
  <2>3. CASE j = Len(c.queue) + 1
    BY <1>2, <2>1, <2>3
  <2> QED
    BY <1>1, <1>2, <2>2, <2>3
<1> QED
  BY <1>2, <1>3, <1>4, <1>5 DEF ProductInv

-----------------------------------------------------------------------------
(* The operators keep the invariant.                                       *)

(* The types of the fields of a product. *)
LEMMA Fields ==
    ASSUME NEW c \in Product, NEW u \in Users
    PROVE  /\ c.queue \in Seq(Users) /\ c.client \in [Users -> Client]
           /\ c.told \in [Users -> BoundedSeq({"in", "out"}, MaxTold)]
           /\ c.requests \in SUBSET (Keys \X SessKeys) /\ c.on \in BOOLEAN
           /\ c.client[u] \in Client
BY DEF Product

LEMMA InitProduct == CDInit => ProductInv(cd)
<1> SUFFICES ASSUME CDInit PROVE ProductInv(cd)
  OBVIOUS
<1>1. cd \in Product /\ cd.queue = <<>>
  BY NoClientOK, Telling DEF CDInit, Product
<1>2. \A u \in Users : Away(cd.client[u], cd.told[u])
  BY DEF CDInit, Away
<1> QED
  BY <1>1, <1>2, NobodyInv

LEMMA ShutdownProduct ==
    ASSUME NEW c, ProductInv(c)
    PROVE  ProductInv(gcd_shutdown(c))
<1> DEFINE d == gcd_shutdown(c)
<1>1. c \in Product
  BY DEF ProductInv
<1>2. d \in Product /\ d.queue = <<>>
  <2>1. /\ [u \in Users |-> NoClient] \in [Users -> Client]
        /\ [u \in Users |-> <<>>] \in [Users -> BoundedSeq({"in", "out"}, MaxTold)]
        /\ <<>> \in Seq(Users)
    BY NoClientOK, Telling
  <2> QED
    BY <1>1, <2>1 DEF gcd_shutdown, Product
<1>3. \A u \in Users : Away(d.client[u], d.told[u])
  BY <1>1 DEF gcd_shutdown, Away, Product
<1> HIDE DEF d
<1> QED
  BY <1>2, <1>3, NobodyInv DEF d

LEMMA InitQR2Product ==
    ASSUME ProductInv(cd), gcd_init_qr2
    PROVE  ProductInv(cd')
<1>1. cd \in Product
  BY DEF ProductInv
<1>2. /\ cd' \in Product /\ cd'.queue = cd.queue /\ cd'.client = cd.client
      /\ cd'.told = cd.told
  BY <1>1 DEF gcd_init_qr2, Product
<1> QED
  BY <1>2 DEF ProductInv, AskedOnce

(* The application lets a user join. *)
LEMMA AuthenticateProduct ==
    ASSUME ProductInv(cd), NEW u \in Users, NEW key \in Keys, NEW bogus \in BOOLEAN,
           gcd_authenticate_user(u, key, bogus)
    PROVE  ProductInv(cd')
<1>1. cd \in Product /\ u \notin ToSet(cd.queue)
  BY DEF ProductInv, gcd_authenticate_user
<1>2. /\ cd.queue \in Seq(Users) /\ cd.client \in [Users -> Client]
      /\ cd.told \in [Users -> BoundedSeq({"in", "out"}, MaxTold)]
      /\ cd.requests \in SUBSET (Keys \X SessKeys) /\ cd.on \in BOOLEAN
  BY <1>1, Fields
<1>3. Append(cd.queue, u) \in Seq(Users)
  BY <1>1, <1>2, AppendProperties
<1>4. ASSUME NEW k \in Client, NEW r \in SUBSET (Keys \X SessKeys), NEW d,
             d = [cd EXCEPT !.queue = Append(@, u), !.told[u] = <<>>,
                            !.client[u] = k, !.requests = r],
             Waits(k, <<>>),
             k.state = "sentreq" => \A v \in ToSet(cd.queue) : cd.client[v].key # k.key
      PROVE  ProductInv(d)
  <2>1. /\ d.queue = Append(cd.queue, u) /\ d.client = [cd.client EXCEPT ![u] = k]
        /\ d.told = [cd.told EXCEPT ![u] = <<>>] /\ d.requests = r
        /\ d.on = cd.on
    BY <1>1, <1>4 DEF Product
  <2>2. d \in Product
    BY <1>1, <1>2, <1>3, <1>4, Telling DEF Product
  <2>3. d.client[u] = k /\ d.told[u] = <<>>
    BY <1>1, <1>2, <2>1
  <2>4. d.client[u].state = "sentreq" =>
           \A v \in ToSet(cd.queue) : cd.client[v].key # d.client[u].key
    BY <1>4, <2>3
  <2>5. Waits(d.client[u], d.told[u])
    BY <1>4, <2>3
  <2>6. /\ d.queue = Append(cd.queue, u)
        /\ \A v \in Users \ {u} : d.client[v] = cd.client[v] /\ d.told[v] = cd.told[v]
    BY <1>1, <1>2, <2>1
  <2> QED
    BY <1>1, <2>2, <2>4, <2>5, <2>6, Joins
<1>5. CASE bogus \/ KeyInUse(key)
  <2>1. PICK skey \in SessKeys \cup {NoSess} :
          cd' = [[cd EXCEPT !.queue = Append(@, u), !.told[u] = <<>>]
                   EXCEPT !.client[u] = [NoClient EXCEPT
                      !.state = "gotnok", !.key = key, !.sesskey = skey]]
    BY <1>5 DEF gcd_authenticate_user
  <2> DEFINE k == [NoClient EXCEPT !.state = "gotnok", !.key = key, !.sesskey = skey]
  <2>2. k \in Client /\ Waits(k, <<>>) /\ k.state = "gotnok"
    BY NoClientOK DEF NoClient, Client, ClientState, Waits
  <2> HIDE DEF k
  <2>3. cd' = [cd EXCEPT !.queue = Append(@, u), !.told[u] = <<>>,
                         !.client[u] = k, !.requests = cd.requests]
    BY <1>1, <2>1 DEF Product, k
  <2> QED
    BY <1>2, <1>4, <2>2, <2>3
<1>6. CASE ~(bogus \/ KeyInUse(key))
  <2>1. PICK skey \in SessKeys :
          cd' = send_auth_req([cd EXCEPT !.queue = Append(@, u), !.told[u] = <<>>],
                              u, key, skey)
    BY <1>6 DEF gcd_authenticate_user
  <2> DEFINE k == [NoClient EXCEPT !.state = "sentreq", !.key = key,
                                   !.sesskey = skey, !.ntries = 1]
             r == cd.requests \cup {<<key, skey>>}
  <2>2. k \in Client /\ Waits(k, <<>>) /\ k.state = "sentreq" /\ k.key = key
    <3>1. 1 \in 0..(VAL_RETRIES + 1)
      BY CDLimits
    <3> QED
      BY <3>1, NoClientOK DEF NoClient, Client, ClientState, Waits
  <2>3. r \in SUBSET (Keys \X SessKeys)
    BY <1>2
  <2>4. \A v \in ToSet(cd.queue) : cd.client[v].key # key
    BY <1>6 DEF KeyInUse
  <2> HIDE DEF k, r
  <2>5. cd' = [cd EXCEPT !.queue = Append(@, u), !.told[u] = <<>>,
                         !.client[u] = k, !.requests = r]
    BY <1>1, <2>1 DEF Product, send_auth_req, k, r
  <2> QED
    BY <1>4, <2>2, <2>3, <2>4, <2>5
<1> QED
  BY <1>5, <1>6

(* free_client_node, after which the application has been told t. *)
LEMMA FreeProduct ==
    ASSUME NEW c, ProductInv(c), NEW u \in ToSet(c.queue), NEW t \in {<<>>, <<"out">>}
    PROVE  LET d == [free_client_node(c, u) EXCEPT !.told = [c.told EXCEPT ![u] = t]]
           IN  ProductInv(d) /\ ToSet(d.queue) = ToSet(c.queue) \ {u}
<1> DEFINE d == [free_client_node(c, u) EXCEPT !.told = [c.told EXCEPT ![u] = t]]
<1>1. c \in Product /\ c.queue \in Seq(Users) /\ NoTwice(c.queue)
  BY DEF ProductInv, Product
<1>2. u \in Users
  BY <1>1, QueuePlaces
<1>3. RemoveFirst(c.queue, u) \in Seq(Users)
  BY <1>1, QueueRemove
<1>4. /\ d \in Product /\ d.queue = RemoveFirst(c.queue, u)
      /\ d.client = [c.client EXCEPT ![u] = NoClient]
      /\ d.told = [c.told EXCEPT ![u] = t]
  BY <1>1, <1>2, <1>3, NoClientOK, Telling DEF free_client_node, Product
<1> HIDE DEF d
<1>5. /\ \A v \in Users \ {u} : d.client[v] = c.client[v] /\ d.told[v] = c.told[v]
      /\ Away(d.client[u], d.told[u])
  BY <1>1, <1>2, <1>4, Fields DEF Away
<1> QED
  BY <1>4, <1>5, Leaves DEF d

LEMMA DisconnectProduct ==
    ASSUME ProductInv(cd), NEW u \in Users, gcd_disconnect_user(u)
    PROVE  ProductInv(cd')
<1>1. u \in ToSet(cd.queue) /\ cd \in Product
  BY DEF ProductInv, gcd_disconnect_user
<1>2. cd' = [free_client_node(cd, u) EXCEPT !.told = [cd.told EXCEPT ![u] = <<>>]]
  BY <1>1 DEF gcd_disconnect_user, free_client_node, Product
<1> QED
  BY <1>1, <1>2, FreeProduct

(* One client gets contents k, and the application is told t of it. *)
SetClient(c, u, k, t) ==
    [c EXCEPT !.client = [c.client EXCEPT ![u] = k], !.told = [c.told EXCEPT ![u] = t]]

LEMMA SetClientProduct ==
    ASSUME NEW c, ProductInv(c), NEW u \in ToSet(c.queue), NEW k \in Client, NEW t,
           Waits(k, t), k.key = c.client[u].key,
           k.state = "sentreq" => c.client[u].state = "sentreq"
    PROVE  ProductInv(SetClient(c, u, k, t)) /\ SetClient(c, u, k, t).queue = c.queue
<1> DEFINE d == SetClient(c, u, k, t)
<1>1. c \in Product /\ c.queue \in Seq(Users)
  BY DEF ProductInv, Product
<1>2. u \in Users
  BY <1>1, QueuePlaces
<1>3. t \in BoundedSeq({"in", "out"}, MaxTold)
  BY Telling DEF Waits
<1>4. /\ d \in Product /\ d.queue = c.queue
      /\ d.client = [c.client EXCEPT ![u] = k] /\ d.told = [c.told EXCEPT ![u] = t]
  BY <1>1, <1>2, <1>3 DEF SetClient, Product
<1> HIDE DEF d
<1>5. d.client[u] = k /\ d.told[u] = t
  BY <1>1, <1>2, <1>4, Fields
<1>6. \A v \in Users \ {u} : d.client[v] = c.client[v] /\ d.told[v] = c.told[v]
  BY <1>1, <1>2, <1>4, Fields
<1>7. d \in Product /\ d.queue = c.queue
  BY <1>4
<1>8. /\ Waits(d.client[u], d.told[u]) /\ d.client[u].key = c.client[u].key
      /\ d.client[u].state = "sentreq" => c.client[u].state = "sentreq"
  BY <1>5
<1>9. ProductInv(d)
  BY <1>6, <1>7, <1>8, OneClient
<1> QED
  BY <1>7, <1>9 DEF d

(* What is known of a client in the queue. *)
LEMMA Queued ==
    ASSUME NEW c, ProductInv(c), NEW u \in ToSet(c.queue)
    PROVE  /\ u \in Users /\ c \in Product /\ c.client[u] \in Client
           /\ c.client \in [Users -> Client]
           /\ c.told \in [Users -> BoundedSeq({"in", "out"}, MaxTold)]
           /\ Waits(c.client[u], c.told[u])
           /\ c.client[u].reauthq \in BoundedSeq(Reauth, MAXPENDING_REAUTH)
           /\ c.client[u].ntries \in 0..(VAL_RETRIES + 1)
<1>1. c \in Product /\ c.queue \in Seq(Users) /\ Waits(c.client[u], c.told[u])
  BY DEF ProductInv, Product
<1>2. u \in Users
  BY <1>1, QueuePlaces
<1>3. c.client[u] \in Client
  BY <1>1, <1>2, Fields
<1> QED
  BY <1>1, <1>2, <1>3, Fields DEF Client

(* Reauths that are shortened stay few. *)
LEMMA FewerReauths ==
    ASSUME NEW q \in BoundedSeq(Reauth, MAXPENDING_REAUTH)
    PROVE  /\ ExpireReauths(q) \in BoundedSeq(Reauth, MAXPENDING_REAUTH)
           /\ \A i \in DOMAIN q : RemoveAt(q, i) \in BoundedSeq(Reauth, MAXPENDING_REAUTH)
           /\ \A skey \in ReauthKeys :
                StoreReauth(q, skey) \in BoundedSeq(Reauth, MAXPENDING_REAUTH)
           /\ \A i \in DOMAIN q :
                [q EXCEPT ![i].due = TRUE] \in BoundedSeq(Reauth, MAXPENDING_REAUTH)
<1>1. /\ q \in Seq(Reauth) /\ Len(q) <= MAXPENDING_REAUTH /\ Len(q) \in Nat
      /\ DOMAIN q = 1..Len(q) /\ \A i \in 1..Len(q) : q[i] \in Reauth
  BY CDLimits, Short, LenProperties, ElementOfSeq
<1>2. \A r \in Seq(Reauth) :
        Len(r) <= MAXPENDING_REAUTH => r \in BoundedSeq(Reauth, MAXPENDING_REAUTH)
  BY CDLimits, Short, Zenon
<1>3. \A n \in 0..Len(q) : /\ SubSeq(q, 1, n) \in Seq(Reauth)
                           /\ Len(SubSeq(q, 1, n)) = n
  <2> SUFFICES ASSUME NEW n \in 0..Len(q)
               PROVE  SubSeq(q, 1, n) \in Seq(Reauth) /\ Len(SubSeq(q, 1, n)) = n
    OBVIOUS
  <2>1. \A i \in 1..n : q[i] \in Reauth
    BY <1>1
  <2> QED
    BY <1>1, <2>1, SubSeqProperties
<1>4. ExpireReauths(q) \in BoundedSeq(Reauth, MAXPENDING_REAUTH)
  <2> DEFINE kept == {i \in DOMAIN q : \A j \in 1..i : ~q[j].due}
             n == Cardinality(kept)
  <2>1. kept \subseteq 1..Len(q)
    BY <1>1
  <2>2. IsFiniteSet(1..Len(q)) /\ Cardinality(1..Len(q)) = Len(q)
    <3>1. 1 \in Int /\ Len(q) \in Int /\ Len(q) >= 0
      BY <1>1
    <3>2. /\ IsFiniteSet(1..Len(q))
          /\ Cardinality(1..Len(q)) = IF 1 > Len(q) THEN 0 ELSE Len(q) - 1 + 1
      BY <3>1, FS_Interval, Zenon
    <3> HIDE DEF kept
    <3> QED
      BY <3>1, <3>2
  <2>3. n \in 0..Len(q)
    <3> HIDE DEF kept
    <3>1. IsFiniteSet(kept) /\ Cardinality(kept) <= Cardinality(1..Len(q))
      BY <2>1, <2>2, FS_Subset
    <3>2. Cardinality(kept) \in Nat
      BY <3>1, FS_CardinalityType
    <3> QED
      BY <1>1, <2>2, <3>1, <3>2
  <2>4. ExpireReauths(q) = SubSeq(q, 1, n)
    BY DEF ExpireReauths
  <2> HIDE DEF n
  <2>5. SubSeq(q, 1, n) \in Seq(Reauth) /\ Len(SubSeq(q, 1, n)) <= MAXPENDING_REAUTH
    BY <1>1, <1>3, <2>3, CDLimits
  <2> QED
    BY <1>2, <2>4, <2>5
<1>5. ASSUME NEW i \in DOMAIN q
      PROVE  RemoveAt(q, i) \in BoundedSeq(Reauth, MAXPENDING_REAUTH)
  <2> DEFINE a == SubSeq(q, 1, i - 1)
             b == SubSeq(q, i + 1, Len(q))
  <2>1. i \in Nat /\ i >= 1 /\ i <= Len(q) /\ i - 1 \in 0..Len(q)
    BY <1>1
  <2>2. a \in Seq(Reauth) /\ Len(a) = i - 1
    BY <1>3, <2>1
  <2>3. \A j \in (i + 1)..Len(q) : q[j] \in Reauth
    BY <1>1, <2>1
  <2>4. /\ b \in Seq(Reauth)
        /\ Len(b) = IF i + 1 <= Len(q) THEN Len(q) - (i + 1) + 1 ELSE 0
    BY <1>1, <2>1, <2>3, SubSeqProperties
  <2>5. RemoveAt(q, i) = a \o b
    BY DEF RemoveAt
  <2> HIDE DEF a, b
  <2>6. a \o b \in Seq(Reauth) /\ Len(a \o b) = Len(a) + Len(b)
    BY <2>2, <2>4, ConcatProperties
  <2>7. Len(a \o b) <= MAXPENDING_REAUTH
    BY <1>1, <2>1, <2>2, <2>4, <2>6, CDLimits
  <2> QED
    BY <1>2, <2>5, <2>6, <2>7
<1>6. ASSUME NEW skey \in ReauthKeys
      PROVE  StoreReauth(q, skey) \in BoundedSeq(Reauth, MAXPENDING_REAUTH)
  <2> DEFINE r == [skey |-> skey, due |-> FALSE]
  <2>1. r \in Reauth
    BY DEF Reauth
  <2> HIDE DEF r
  <2>2. Append(q, r) \in Seq(Reauth) /\ Len(Append(q, r)) = Len(q) + 1
    BY <1>1, <2>1, AppendProperties
  <2>3. CASE Len(q) < MAXPENDING_REAUTH
    <3>1. Len(Append(q, r)) <= MAXPENDING_REAUTH
      BY <1>1, <2>2, <2>3, CDLimits
    <3> QED
      BY <1>2, <2>2, <2>3, <3>1 DEF StoreReauth, r
  <2>4. CASE ~(Len(q) < MAXPENDING_REAUTH)
    BY <2>4 DEF StoreReauth
  <2> QED
    BY <2>3, <2>4
<1>7. ASSUME NEW i \in DOMAIN q
      PROVE  [q EXCEPT ![i].due = TRUE] \in BoundedSeq(Reauth, MAXPENDING_REAUTH)
  <2>1. [q[i] EXCEPT !.due = TRUE] \in Reauth
    BY <1>1 DEF Reauth
  <2>2. /\ [q EXCEPT ![i] = [q[i] EXCEPT !.due = TRUE]] \in Seq(Reauth)
        /\ Len([q EXCEPT ![i] = [q[i] EXCEPT !.due = TRUE]]) = Len(q)
    BY <1>1, <2>1, ExceptSeq
  <2> QED
    BY <1>1, <1>2, <2>2
<1> QED
  BY <1>4, <1>5, <1>6, <1>7

(* One client gets contents k, and the application is told nothing.         *)
LEMMA UntoldProduct ==
    ASSUME NEW c, ProductInv(c), NEW u \in ToSet(c.queue), NEW k \in Client,
           Waits(k, c.told[u]), k.key = c.client[u].key,
           k.state = "sentreq" => c.client[u].state = "sentreq"
    PROVE  /\ ProductInv([c EXCEPT !.client = [c.client EXCEPT ![u] = k]])
           /\ [c EXCEPT !.client = [c.client EXCEPT ![u] = k]].queue = c.queue
<1>1. u \in Users /\ c \in Product
      /\ c.told \in [Users -> BoundedSeq({"in", "out"}, MaxTold)]
  BY Queued
<1>2. [c.told EXCEPT ![u] = c.told[u]] = c.told
  BY <1>1
<1>3. SetClient(c, u, k, c.told[u]) = [c EXCEPT !.client = [c.client EXCEPT ![u] = k]]
  BY <1>1, <1>2 DEF SetClient, Product
<1>4. /\ ProductInv(SetClient(c, u, k, c.told[u]))
      /\ SetClient(c, u, k, c.told[u]).queue = c.queue
  BY SetClientProduct
<1> QED
  BY <1>3, <1>4

(* The application is told that a user is in. *)
LEMMA AuthorizedProduct ==
    ASSUME NEW c, ProductInv(c), NEW u \in ToSet(c.queue), c.client[u].state # "done"
    PROVE  ProductInv(Authorized(c, u)) /\ Authorized(c, u).queue = c.queue
<1> DEFINE k == [c.client[u] EXCEPT !.state = "done"]
<1>1. /\ u \in Users /\ c \in Product /\ c.client[u] \in Client
      /\ c.client \in [Users -> Client]
      /\ c.told \in [Users -> BoundedSeq({"in", "out"}, MaxTold)]
      /\ Waits(c.client[u], c.told[u])
  BY Queued
<1>2. c.told[u] = <<>>
  BY <1>1 DEF Waits
<1>3. Len(c.told[u]) < MaxTold /\ Append(c.told[u], "in") = <<"in">>
  BY <1>2, CDLimits
<1>4. Tell(c, u, "in") = [c EXCEPT !.told = [c.told EXCEPT ![u] = <<"in">>]]
  BY <1>1, <1>3 DEF Tell, Product
<1>5. Authorized(c, u) = SetClient(c, u, k, <<"in">>)
  BY <1>1, <1>4 DEF Authorized, SetClient, Product
<1>6. /\ k \in Client /\ Waits(k, <<"in">>) /\ k.key = c.client[u].key
      /\ k.state = "done"
  BY <1>1 DEF Client, ClientState, Waits
<1> HIDE DEF k
<1> QED
  BY <1>5, <1>6, SetClientProduct

(* Another request about a user, as long as the tries are not used up.      *)
LEMMA ResendProduct ==
    ASSUME NEW c, ProductInv(c), NEW u \in ToSet(c.queue),
           c.client[u].state = "sentreq", c.client[u].ntries <= VAL_RETRIES
    PROVE  ProductInv(resend_auth_req(c, u)) /\ resend_auth_req(c, u).queue = c.queue
<1> DEFINE k == [c.client[u] EXCEPT !.due = FALSE, !.ntries = c.client[u].ntries + 1]
<1>1. /\ u \in Users /\ c \in Product /\ c.client[u] \in Client
      /\ c.client \in [Users -> Client] /\ Waits(c.client[u], c.told[u])
      /\ c.client[u].ntries \in 0..(VAL_RETRIES + 1)
  BY Queued
<1>2. resend_auth_req(c, u) = [c EXCEPT !.client = [c.client EXCEPT ![u] = k]]
  BY <1>1 DEF resend_auth_req, Product, Client
<1>3. c.client[u].ntries + 1 \in 0..(VAL_RETRIES + 1)
  BY <1>1, CDLimits
<1>4. /\ k \in Client /\ k.state = c.client[u].state /\ k.key = c.client[u].key
  BY <1>1, <1>3 DEF Client
<1>5. Waits(k, c.told[u])
  BY <1>1, <1>4 DEF Waits
<1> HIDE DEF k
<1> QED
  BY <1>2, <1>4, <1>5, UntoldProduct

(* The pending reauths of a user change. *)
LEMMA ReauthsProduct ==
    ASSUME NEW c, ProductInv(c), NEW u \in ToSet(c.queue),
           NEW q \in BoundedSeq(Reauth, MAXPENDING_REAUTH)
    PROVE  LET k == [c.client[u] EXCEPT !.reauthq = q]
               d == [c EXCEPT !.client = [c.client EXCEPT ![u] = k]]
           IN  ProductInv(d) /\ d.queue = c.queue
<1> DEFINE k == [c.client[u] EXCEPT !.reauthq = q]
<1>1. c.client[u] \in Client /\ Waits(c.client[u], c.told[u])
  BY Queued
<1>2. k \in Client /\ k.state = c.client[u].state /\ k.key = c.client[u].key
  BY <1>1 DEF Client
<1>3. Waits(k, c.told[u])
  BY <1>1, <1>2 DEF Waits
<1> HIDE DEF k
<1>4. /\ ProductInv([c EXCEPT !.client = [c.client EXCEPT ![u] = k]])
      /\ [c EXCEPT !.client = [c.client EXCEPT ![u] = k]].queue = c.queue
  BY <1>2, <1>3, UntoldProduct
<1> QED
  BY <1>4 DEF k

(* One client of gcd_think: no other leaves the queue. *)
LEMMA ThinkProduct ==
    ASSUME NEW c, ProductInv(c), NEW u \in ToSet(c.queue)
    PROVE  /\ ProductInv(ThinkClient(c, u))
           /\ ToSet(c.queue) \ {u} \subseteq ToSet(ThinkClient(c, u).queue)
<1>1. /\ u \in Users /\ c \in Product /\ c.client[u] \in Client
      /\ c.client \in [Users -> Client]
      /\ c.told \in [Users -> BoundedSeq({"in", "out"}, MaxTold)]
      /\ Waits(c.client[u], c.told[u])
      /\ c.client[u].reauthq \in BoundedSeq(Reauth, MAXPENDING_REAUTH)
      /\ c.client[u].ntries \in 0..(VAL_RETRIES + 1)
  BY Queued
<1>2. CASE c.client[u].state = "sentreq" /\ ~c.client[u].due
  BY <1>2 DEF ThinkClient
<1>3. CASE /\ c.client[u].state = "sentreq" /\ c.client[u].due
           /\ c.client[u].ntries <= VAL_RETRIES
  <2>1. ThinkClient(c, u) = resend_auth_req(c, u)
    BY <1>1, <1>3, CDLimits DEF ThinkClient
  <2> QED
    BY <1>3, <2>1, ResendProduct
<1>4. CASE /\ c.client[u].state = "sentreq" /\ c.client[u].due
           /\ c.client[u].ntries > VAL_RETRIES
  <2>1. ThinkClient(c, u) = Authorized(c, u)
    BY <1>1, <1>4, CDLimits DEF ThinkClient
  <2> QED
    BY <1>4, <2>1, AuthorizedProduct
<1>5. CASE c.client[u].state = "gotok"
  <2>1. ThinkClient(c, u) = Authorized(c, u)
    BY <1>5 DEF ThinkClient
  <2> QED
    BY <1>5, <2>1, AuthorizedProduct
<1>6. CASE c.client[u].state = "gotnok"
  <2>1. ThinkClient(c, u) = free_client_node(Tell(c, u, "out"), u)
    BY <1>6 DEF ThinkClient
  <2>2. c.told[u] = <<>>
    BY <1>1, <1>6 DEF Waits
  <2>3. Len(c.told[u]) < MaxTold /\ Append(c.told[u], "out") = <<"out">>
    BY <2>2, CDLimits
  <2>4. Tell(c, u, "out") = [c EXCEPT !.told = [c.told EXCEPT ![u] = <<"out">>]]
    BY <1>1, <2>3 DEF Tell, Product
  <2>5. ThinkClient(c, u) =
          [free_client_node(c, u) EXCEPT !.told = [c.told EXCEPT ![u] = <<"out">>]]
    BY <1>1, <2>1, <2>4 DEF free_client_node, Product
  <2>6. /\ ProductInv([free_client_node(c, u)
                         EXCEPT !.told = [c.told EXCEPT ![u] = <<"out">>]])
        /\ ToSet([free_client_node(c, u)
                    EXCEPT !.told = [c.told EXCEPT ![u] = <<"out">>]].queue)
             = ToSet(c.queue) \ {u}
    BY FreeProduct
  <2> QED
    BY <2>5, <2>6
<1>7. CASE c.client[u].state = "done"
  <2> DEFINE q == ExpireReauths(c.client[u].reauthq)
             k == [c.client[u] EXCEPT !.reauthq = q]
  <2>1. ThinkClient(c, u) = [c EXCEPT !.client = [c.client EXCEPT ![u] = k]]
    BY <1>1, <1>7 DEF ThinkClient, Product, Client
  <2>2. q \in BoundedSeq(Reauth, MAXPENDING_REAUTH)
    BY <1>1, FewerReauths
  <2> HIDE DEF q
  <2> QED
    BY <2>1, <2>2, ReauthsProduct
<1>8. c.client[u].state \in {"sentreq", "gotok", "gotnok", "done"}
      /\ c.client[u].due \in BOOLEAN
  BY <1>1 DEF Client, ClientState, Waits
<1> QED
  BY <1>1, <1>2, <1>3, <1>4, <1>5, <1>6, <1>7, <1>8, CDLimits

(* gcd_think: each client of the queue in its turn, which is still there    *)
(* when it comes.                                                           *)
LEMMA GcdThinkProduct ==
    ASSUME ProductInv(cd), gcd_think
    PROVE  ProductInv(cd')
<1> DEFINE q == cd.queue
           n == Len(q)
<1>1. /\ q \in Seq(Users) /\ NoTwice(q) /\ n \in Nat
      /\ \A i \in 1..n : q[i] \in ToSet(q)
  BY QueuePlaces DEF ProductInv, Product
<1>2. PICK r : /\ r[0] = cd
               /\ \A i \in 1..n : r[i] = ThinkClient(r[i - 1], q[i])
               /\ FoldLeft(ThinkClient, cd, q) = r[n]
  BY <1>1, ThinkSteps
<1> DEFINE Good(m) == ProductInv(r[m]) /\ \A i \in 1..n : i > m => q[i] \in ToSet(r[m].queue)
           T == {m \in 0..n : Good(m)}
<1>3. 0 \in T
  BY <1>1, <1>2
<1>4. ASSUME NEW m \in 0..n, m \in T, m < n PROVE m + 1 \in T
  <2>1. ProductInv(r[m]) /\ \A i \in 1..n : i > m => q[i] \in ToSet(r[m].queue)
    BY <1>4
  <2>2. m + 1 \in 1..n /\ m + 1 > m /\ (m + 1) - 1 = m /\ m + 1 \in 0..n
    BY <1>1, <1>4
  <2>3. q[m + 1] \in ToSet(r[m].queue) /\ r[m + 1] = ThinkClient(r[m], q[m + 1])
    BY <1>2, <2>1, <2>2
  <2>4. /\ ProductInv(r[m + 1])
        /\ ToSet(r[m].queue) \ {q[m + 1]} \subseteq ToSet(r[m + 1].queue)
    BY <2>1, <2>3, ThinkProduct
  <2>5. ASSUME NEW i \in 1..n, i > m + 1 PROVE q[i] \in ToSet(r[m + 1].queue)
    <3>1. i > m /\ i # m + 1
      BY <1>1, <2>2, <2>5
    <3>2. q[i] # q[m + 1]
      BY <1>1, <2>2, <3>1 DEF NoTwice
    <3> QED
      BY <2>1, <2>4, <3>1, <3>2
  <2> HIDE DEF n, q
  <2> QED
    BY <2>2, <2>4, <2>5
<1> HIDE DEF T
<1>5. n \in T
  BY <1>1, <1>3, <1>4, UpTo
<1>6. ProductInv(r[n])
  BY <1>5 DEF T
<1> QED
  BY <1>2, <1>6 DEF gcd_think

(* At most one client is the first.                                         *)
LEMMA FirstIsOne ==
    ASSUME NEW q \in Seq(Users), NEW matching
    PROVE  /\ FirstOf(q, matching) \subseteq ToSet(q)
           /\ \A u, v \in FirstOf(q, matching) : u = v
<1>1. /\ Len(q) \in Nat /\ DOMAIN q = 1..Len(q)
      /\ \A i \in 1..Len(q) : q[i] \in ToSet(q)
  BY QueuePlaces
<1>2. \A u \in FirstOf(q, matching) :
        \E i \in 1..Len(q) : /\ q[i] = u /\ q[i] \in matching
                             /\ \A k \in 1..(i - 1) : q[k] \notin matching
  BY <1>1 DEF FirstOf
<1>3. ASSUME NEW u \in FirstOf(q, matching), NEW v \in FirstOf(q, matching) PROVE u = v
  <2>1. PICK i \in 1..Len(q) : /\ q[i] = u /\ q[i] \in matching
                               /\ \A k \in 1..(i - 1) : q[k] \notin matching
    BY <1>2
  <2>2. PICK j \in 1..Len(q) : /\ q[j] = v /\ q[j] \in matching
                               /\ \A k \in 1..(j - 1) : q[k] \notin matching
    BY <1>2
  <2>3. ~(i < j) /\ ~(j < i)
    BY <1>1, <2>1, <2>2
  <2> QED
    BY <1>1, <2>1, <2>2, <2>3
<1> QED
  BY <1>1, <1>2, <1>3

(* The server's answer to a request, early, late, again or of another user. *)
LEMMA OksProduct ==
    ASSUME NEW c, ProductInv(c), NEW key, NEW skey, NEW isok
    PROVE  ProductInv(process_oks(c, key, skey, isok))
<1> DEFINE found == FirstOf(c.queue,
                      {u \in Users : c.client[u].key = key /\ c.client[u].sesskey = skey})
           d == process_oks(c, key, skey, isok)
           New(u) == [c.client[u] EXCEPT !.state = IF isok THEN "gotok" ELSE "gotnok"]
<1>1. c \in Product /\ c.queue \in Seq(Users) /\ c.client \in [Users -> Client]
  BY DEF ProductInv, Product
<1>2. found \subseteq ToSet(c.queue) /\ \A u, v \in found : u = v
  BY <1>1, FirstIsOne
<1>3. d = [c EXCEPT !.client = [u \in Users |->
             IF u \in found /\ c.client[u].state # "done" THEN New(u) ELSE c.client[u]]]
  BY <1>1 DEF process_oks, Product
<1> HIDE DEF found, d
<1>4. CASE \A u \in found : c.client[u].state = "done"
  <2>1. [u \in Users |-> IF u \in found /\ c.client[u].state # "done"
                         THEN New(u) ELSE c.client[u]] = c.client
    BY <1>1, <1>4
  <2>2. d = c
    BY <1>1, <1>3, <2>1 DEF Product
  <2> QED
    BY <2>2 DEF d
<1>5. ASSUME NEW u \in found, c.client[u].state # "done"
      PROVE  ProductInv(d)
  <2> DEFINE k == New(u)
  <2>1. u \in ToSet(c.queue)
    BY <1>2
  <2>2. u \in Users /\ c.client[u] \in Client /\ Waits(c.client[u], c.told[u])
    BY <2>1, Queued
  <2>3. /\ k \in Client /\ k.key = c.client[u].key /\ k.state \in {"gotok", "gotnok"}
    BY <2>2 DEF Client, ClientState
  <2>4. Waits(k, c.told[u])
    BY <1>5, <2>2, <2>3 DEF Waits
  <2>5. [v \in Users |-> IF v \in found /\ c.client[v].state # "done"
                         THEN New(v) ELSE c.client[v]] = [c.client EXCEPT ![u] = k]
    <3>1. \A v \in Users : v \in found <=> v = u
      BY <1>2, <1>5
    <3> QED
      BY <1>1, <1>5, <3>1
  <2>6. d = [c EXCEPT !.client = [c.client EXCEPT ![u] = k]]
    BY <1>3, <2>5
  <2> HIDE DEF k
  <2>7. ProductInv([c EXCEPT !.client = [c.client EXCEPT ![u] = k]])
    BY <2>1, <2>3, <2>4, UntoldProduct
  <2> QED
    BY <2>6, <2>7
<1> QED
  BY <1>4, <1>5 DEF d

(* The server asks whether a user is still on. *)
LEMMA IsonProduct ==
    ASSUME NEW c, ProductInv(c), NEW key, NEW skey \in ReauthKeys
    PROVE  ProductInv(process_ison(c, key, skey))
<1> DEFINE found == FirstOf(c.queue, {u \in Users : c.client[u].key = key})
           d == process_ison(c, key, skey)
           New(u) == [c.client[u] EXCEPT !.reauthq = StoreReauth(c.client[u].reauthq, skey)]
<1>1. c \in Product /\ c.queue \in Seq(Users) /\ c.client \in [Users -> Client]
  BY DEF ProductInv, Product
<1>2. found \subseteq ToSet(c.queue) /\ \A u, v \in found : u = v
  BY <1>1, FirstIsOne
<1>3. d = [c EXCEPT !.client = [u \in Users |->
             IF u \in found /\ c.client[u].state = "done" THEN New(u) ELSE c.client[u]]]
  BY <1>1 DEF process_ison, Product
<1> HIDE DEF found, d
<1>4. CASE \A u \in found : c.client[u].state # "done"
  <2>1. [u \in Users |-> IF u \in found /\ c.client[u].state = "done"
                         THEN New(u) ELSE c.client[u]] = c.client
    BY <1>1, <1>4
  <2>2. d = c
    BY <1>1, <1>3, <2>1 DEF Product
  <2> QED
    BY <2>2 DEF d
<1>5. ASSUME NEW u \in found, c.client[u].state = "done"
      PROVE  ProductInv(d)
  <2> DEFINE q == StoreReauth(c.client[u].reauthq, skey)
             k == [c.client[u] EXCEPT !.reauthq = q]
  <2>1. u \in ToSet(c.queue)
    BY <1>2
  <2>2. /\ u \in Users /\ c.client[u].reauthq \in BoundedSeq(Reauth, MAXPENDING_REAUTH)
    BY <2>1, Queued
  <2>3. q \in BoundedSeq(Reauth, MAXPENDING_REAUTH)
    BY <2>2, FewerReauths
  <2>4. [v \in Users |-> IF v \in found /\ c.client[v].state = "done"
                         THEN New(v) ELSE c.client[v]] = [c.client EXCEPT ![u] = k]
    <3>1. \A v \in Users : v \in found <=> v = u
      BY <1>2, <1>5
    <3> QED
      BY <1>1, <1>5, <3>1
  <2>5. d = [c EXCEPT !.client = [c.client EXCEPT ![u] = k]]
    BY <1>3, <2>4
  <2> HIDE DEF q
  <2>6. ProductInv([c EXCEPT !.client = [c.client EXCEPT ![u] = k]])
    BY <2>1, <2>3, ReauthsProduct
  <2> QED
    BY <2>5, <2>6
<1> QED
  BY <1>4, <1>5 DEF d

(* Any datagram; those of other SDKs change nothing. *)
LEMMA ProcessBufProduct ==
    ASSUME NEW c, ProductInv(c), NEW packet,
           packet.type = "ison" => packet.skey \in ReauthKeys
    PROVE  ProductInv(cdkey_process_buf(c, packet))
<1>1. CASE packet.type = "ok"
  <2>1. cdkey_process_buf(c, packet) = process_oks(c, packet.key, packet.skey, packet.isok)
    BY <1>1 DEF cdkey_process_buf
  <2> QED
    BY <2>1, OksProduct
<1>2. CASE packet.type = "ison"
  <2>1. cdkey_process_buf(c, packet) = process_ison(c, packet.key, packet.skey)
    BY <1>2 DEF cdkey_process_buf
  <2> QED
    BY <1>2, <2>1, IsonProduct
<1>3. CASE packet.type \notin {"ok", "ison"}
  BY <1>3 DEF cdkey_process_buf
<1> QED
  BY <1>1, <1>2, <1>3

(* A user with a state or a pending reauth is in the queue. *)
LEMMA InQueue ==
    ASSUME NEW c, ProductInv(c), NEW u \in Users,
           c.client[u].state # "none" \/ DOMAIN c.client[u].reauthq # {}
    PROVE  u \in ToSet(c.queue)
<1> SUFFICES ASSUME u \notin ToSet(c.queue) PROVE FALSE
  OBVIOUS
<1>1. c.client[u] = NoClient
  BY DEF ProductInv, Away
<1> QED
  BY <1>1 DEF NoClient

LEMMA ProcessReauthProduct ==
    ASSUME ProductInv(cd), NEW u \in Users, NEW skey, gcd_process_reauth(u, skey)
    PROVE  ProductInv(cd')
<1>1. PICK i \in DOMAIN cd.client[u].reauthq :
        cd' = [cd EXCEPT !.client[u].reauthq = RemoveAt(@, i)]
  BY DEF gcd_process_reauth
<1>2. u \in ToSet(cd.queue)
  BY <1>1, InQueue
<1> DEFINE q == RemoveAt(cd.client[u].reauthq, i)
           k == [cd.client[u] EXCEPT !.reauthq = q]
<1>3. /\ cd \in Product /\ cd.client[u] \in Client /\ cd.client \in [Users -> Client]
      /\ cd.client[u].reauthq \in BoundedSeq(Reauth, MAXPENDING_REAUTH)
  BY <1>2, Queued
<1>4. q \in BoundedSeq(Reauth, MAXPENDING_REAUTH)
  BY <1>3, FewerReauths
<1>5. cd' = [cd EXCEPT !.client = [cd.client EXCEPT ![u] = k]]
  BY <1>1, <1>3 DEF Product, Client
<1> HIDE DEF q
<1> QED
  BY <1>2, <1>4, <1>5, ReauthsProduct

LEMMA ReauthLifespanProduct ==
    ASSUME ProductInv(cd), NEW u \in Users, REAUTH_LIFESPAN(u)
    PROVE  ProductInv(cd')
<1>1. PICK i \in DOMAIN cd.client[u].reauthq :
        cd' = [cd EXCEPT !.client[u].reauthq[i].due = TRUE]
  BY DEF REAUTH_LIFESPAN
<1>2. u \in ToSet(cd.queue)
  BY <1>1, InQueue
<1> DEFINE q == [cd.client[u].reauthq EXCEPT ![i].due = TRUE]
           k == [cd.client[u] EXCEPT !.reauthq = q]
<1>3. /\ cd \in Product /\ cd.client[u] \in Client /\ cd.client \in [Users -> Client]
      /\ cd.client[u].reauthq \in BoundedSeq(Reauth, MAXPENDING_REAUTH)
  BY <1>2, Queued
<1>4. q \in BoundedSeq(Reauth, MAXPENDING_REAUTH)
  BY <1>3, FewerReauths
<1>5. cd' = [cd EXCEPT !.client = [cd.client EXCEPT ![u] = k]]
  BY <1>1, <1>3 DEF Product, Client
<1> HIDE DEF q
<1> QED
  BY <1>2, <1>4, <1>5, ReauthsProduct

LEMMA ValTimeoutProduct ==
    ASSUME ProductInv(cd), NEW u \in Users, VAL_TIMEOUT(u)
    PROVE  ProductInv(cd')
<1> DEFINE k == [cd.client[u] EXCEPT !.due = TRUE]
<1>1. u \in ToSet(cd.queue)
  BY InQueue DEF VAL_TIMEOUT
<1>2. /\ cd \in Product /\ cd.client[u] \in Client /\ cd.client \in [Users -> Client]
      /\ Waits(cd.client[u], cd.told[u])
  BY <1>1, Queued
<1>3. cd' = [cd EXCEPT !.client = [cd.client EXCEPT ![u] = k]]
  BY <1>2 DEF VAL_TIMEOUT, Product, Client
<1>4. k \in Client /\ k.state = cd.client[u].state /\ k.key = cd.client[u].key
  BY <1>2 DEF Client
<1>5. Waits(k, cd.told[u])
  BY <1>2, <1>4 DEF Waits
<1> HIDE DEF k
<1> QED
  BY <1>1, <1>3, <1>4, <1>5, UntoldProduct
=============================================================================
