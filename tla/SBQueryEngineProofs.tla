------------------------ MODULE SBQueryEngineProofs ------------------------
(***************************************************************************)
(* The FIFOs and the list of the browser, for any number of servers, any   *)
(* limit and any depth of callbacks: the FIFOs stay disjoint, within the   *)
(* limit and among the servers of the list, no query is lost, and every    *)
(* server that is being deleted is found where the library remembers it.   *)
(***************************************************************************)
EXTENDS SBQueryEngine, SequenceTheorems, TLAPS

-----------------------------------------------------------------------------
(* Sequences without repetition.                                           *)

Distinct(q) == q \in Seq(Servers) /\ IsInjective(q)

(* The members of a sequence, by its positions. *)
LEMMA Members ==
    ASSUME NEW q \in Seq(Servers)
    PROVE  /\ Len(q) \in Nat /\ DOMAIN q = 1..Len(q)
           /\ \A i \in 1..Len(q) : q[i] \in ToSet(q)
           /\ \A x \in ToSet(q) : \E i \in 1..Len(q) : q[i] = x
           /\ ToSet(q) \subseteq Servers
           /\ q = <<>> <=> Len(q) = 0
           /\ q = <<>> <=> ToSet(q) = {}
<1>1. Len(q) \in Nat /\ DOMAIN q = 1..Len(q) /\ \A i \in 1..Len(q) : q[i] \in Servers
  BY LenProperties, ElementOfSeq
<1>2. q = <<>> <=> Len(q) = 0
  BY <1>1
<1>3. ToSet(q) = {q[i] : i \in 1..Len(q)}
  BY <1>1 DEF ToSet
<1>4. \A i \in 1..Len(q) : q[i] \in ToSet(q)
  BY <1>3
<1>5. \A x \in ToSet(q) : \E i \in 1..Len(q) : q[i] = x
  BY <1>3
<1>6. ToSet(q) \subseteq Servers
  BY <1>1, <1>5
<1>7. q = <<>> <=> ToSet(q) = {}
  <2>1. q # <<>> => 1 \in 1..Len(q)
    BY <1>1, <1>2
  <2>2. q = <<>> => 1..Len(q) = {}
    BY <1>1, <1>2
  <2> QED
    BY <1>4, <1>5, <2>1, <2>2
<1> QED
  BY <1>1, <1>2, <1>4, <1>5, <1>6, <1>7

(* A sequence has no repetitions exactly if two of its places are equal    *)
(* only when they are the same.                                            *)
LEMMA DistinctPlaces ==
    ASSUME NEW q \in Seq(Servers)
    PROVE  Distinct(q) <=> \A i, j \in 1..Len(q) : q[i] = q[j] => i = j
BY Members DEF Distinct, IsInjective

LEMMA Concat ==
    ASSUME NEW q \in Seq(Servers), NEW r \in Seq(Servers)
    PROVE  /\ q \o r \in Seq(Servers) /\ Len(q \o r) = Len(q) + Len(r)
           /\ ToSet(q \o r) = ToSet(q) \cup ToSet(r)
           /\ Distinct(q \o r) <=> /\ Distinct(q) /\ Distinct(r)
                                   /\ ToSet(q) \cap ToSet(r) = {}
<1> DEFINE c == q \o r
<1>1. /\ c \in Seq(Servers) /\ Len(c) = Len(q) + Len(r)
      /\ \A i \in 1..Len(c) : c[i] = IF i <= Len(q) THEN q[i] ELSE r[i - Len(q)]
      /\ Len(q) \in Nat /\ Len(r) \in Nat
  BY ConcatProperties, LenProperties
<1> HIDE DEF c
<1>2. \A i \in 1..Len(q) : i \in 1..Len(c) /\ c[i] = q[i]
  BY <1>1
<1>3. ASSUME NEW i \in 1..Len(r)
      PROVE  i + Len(q) \in 1..Len(c) /\ c[i + Len(q)] = r[i]
  <2>1. i + Len(q) \in 1..Len(c) /\ ~(i + Len(q) <= Len(q)) /\ (i + Len(q)) - Len(q) = i
    BY <1>1
  <2> QED
    BY <1>1, <2>1
<1>4. \A i \in 1..Len(c) : \/ i \in 1..Len(q) /\ c[i] = q[i]
                           \/ i - Len(q) \in 1..Len(r) /\ c[i] = r[i - Len(q)]
  BY <1>1
<1>5. ToSet(c) = ToSet(q) \cup ToSet(r)
  <2>1. \A x \in ToSet(c) : x \in ToSet(q) \cup ToSet(r)
    BY <1>1, <1>4, Members
  <2>2. ASSUME NEW x \in ToSet(q) PROVE x \in ToSet(c)
    <3>1. PICK i \in 1..Len(q) : q[i] = x
      BY Members
    <3> QED
      BY <1>1, <1>2, <3>1, Members
  <2>3. ASSUME NEW x \in ToSet(r) PROVE x \in ToSet(c)
    <3>1. PICK i \in 1..Len(r) : r[i] = x
      BY Members
    <3>2. i + Len(q) \in 1..Len(c) /\ c[i + Len(q)] = x
      BY <1>3, <3>1
    <3>3. \A j \in 1..Len(c) : c[j] \in ToSet(c)
      BY <1>1, Members
    <3> QED
      BY <3>2, <3>3
  <2> QED
    BY <2>1, <2>2, <2>3
<1>6. ASSUME Distinct(c)
      PROVE  Distinct(q) /\ Distinct(r) /\ ToSet(q) \cap ToSet(r) = {}
  <2>1. \A i, j \in 1..Len(c) : c[i] = c[j] => i = j
    BY <1>1, <1>6, DistinctPlaces
  <2>2. \A i, j \in 1..Len(q) : q[i] = q[j] => i = j
    BY <1>2, <2>1
  <2>3. \A i, j \in 1..Len(r) : r[i] = r[j] => i + Len(q) = j + Len(q)
    BY <1>3, <2>1
  <2>4. \A i, j \in 1..Len(r) : r[i] = r[j] => i = j
    BY <1>1, <2>3
  <2>5. ASSUME NEW i \in 1..Len(q), NEW j \in 1..Len(r), q[i] = r[j] PROVE FALSE
    <3>1. i = j + Len(q)
      BY <1>2, <1>3, <2>1, <2>5
    <3> QED
      BY <1>1, <3>1
  <2> QED
    BY <2>2, <2>4, <2>5, DistinctPlaces, Members
<1>7. ASSUME Distinct(q), Distinct(r), ToSet(q) \cap ToSet(r) = {}
      PROVE  Distinct(c)
  <2> SUFFICES ASSUME NEW i \in 1..Len(c), NEW j \in 1..Len(c), c[i] = c[j] PROVE i = j
    BY <1>1, DistinctPlaces
  <2>1. \A k \in 1..Len(q), l \in 1..Len(r) : q[k] # r[l]
    BY <1>7, Members
  <2>2. \A k, l \in 1..Len(q) : q[k] = q[l] => k = l
    BY <1>7, DistinctPlaces
  <2>3. \A k, l \in 1..Len(r) : r[k] = r[l] => k = l
    BY <1>7, DistinctPlaces
  <2>4. CASE i \in 1..Len(q) /\ c[i] = q[i]
    <3>1. j \in 1..Len(q) /\ c[j] = q[j]
      BY <1>4, <2>1, <2>4
    <3> QED
      BY <2>2, <2>4, <3>1
  <2>5. CASE i - Len(q) \in 1..Len(r) /\ c[i] = r[i - Len(q)]
    <3>1. j - Len(q) \in 1..Len(r) /\ c[j] = r[j - Len(q)]
      BY <1>4, <2>1, <2>5
    <3>2. i - Len(q) = j - Len(q)
      BY <2>3, <2>5, <3>1
    <3> QED
      BY <1>1, <3>2
  <2> QED
    BY <1>4, <2>4, <2>5
<1> QED
  BY <1>1, <1>5, <1>6, <1>7 DEF c

LEMMA One ==
    ASSUME NEW s \in Servers
    PROVE  /\ <<s>> \in Seq(Servers) /\ Len(<<s>>) = 1 /\ ToSet(<<s>>) = {s}
           /\ Distinct(<<s>>)
<1>1. <<s>> \in Seq(Servers) /\ Len(<<s>>) = 1 /\ <<s>>[1] = s
  OBVIOUS
<1>2. ToSet(<<s>>) = {s}
  <2> DEFINE q == <<s>>
  <2>1. 1 \in 1..Len(q) /\ \A i \in 1..Len(q) : q[i] = s
    BY <1>1
  <2>2. q \in Seq(Servers)
    BY <1>1
  <2> HIDE DEF q
  <2>3. q[1] \in ToSet(q) /\ \A x \in ToSet(q) : \E i \in 1..Len(q) : q[i] = x
    BY <2>1, <2>2, Members
  <2>4. ToSet(q) = {s}
    BY <2>1, <2>3
  <2> QED
    BY <2>4 DEF q
<1>3. \A i, j \in 1..Len(<<s>>) : i = j
  BY <1>1
<1> QED
  BY <1>1, <1>2, <1>3, DistinctPlaces

LEMMA Empty ==
    <<>> \in Seq(Servers) /\ Len(<<>>) = 0 /\ ToSet(<<>>) = {} /\ Distinct(<<>>)
<1>1. <<>> \in Seq(Servers) /\ Len(<<>>) = 0
  BY EmptySeq
<1> QED
  BY <1>1, Members, DistinctPlaces

(* A sequence is cut in two at any place. *)
LEMMA Cut ==
    ASSUME NEW q \in Seq(Servers), NEW n \in 0..Len(q)
    PROVE  /\ SubSeq(q, 1, n) \in Seq(Servers) /\ Len(SubSeq(q, 1, n)) = n
           /\ SubSeq(q, n + 1, Len(q)) \in Seq(Servers)
           /\ Len(SubSeq(q, n + 1, Len(q))) = Len(q) - n
           /\ SubSeq(q, 1, n) \o SubSeq(q, n + 1, Len(q)) = q
<1>1. Len(q) \in Nat /\ \A i \in 1..Len(q) : q[i] \in Servers
  BY LenProperties, ElementOfSeq
<1>2. SubSeq(q, 1, n) \in Seq(Servers) /\ Len(SubSeq(q, 1, n)) = n
  <2>1. \A i \in 1..n : q[i] \in Servers
    BY <1>1
  <2> QED
    BY <1>1, <2>1, SubSeqProperties
<1>3. /\ SubSeq(q, n + 1, Len(q)) \in Seq(Servers)
      /\ Len(SubSeq(q, n + 1, Len(q))) = Len(q) - n
  <2>1. \A i \in (n + 1)..Len(q) : q[i] \in Servers
    BY <1>1
  <2>2. /\ SubSeq(q, n + 1, Len(q)) \in Seq(Servers)
        /\ Len(SubSeq(q, n + 1, Len(q)))
             = IF n + 1 <= Len(q) THEN Len(q) - (n + 1) + 1 ELSE 0
    BY <1>1, <2>1, SubSeqProperties
  <2> QED
    BY <1>1, <2>2
<1>4. SubSeq(q, 1, n) \o SubSeq(q, n + 1, Len(q)) = SubSeq(q, 1, Len(q))
  <2>1. 1 \in 1..(Len(q) + 1) /\ n \in (1 - 1)..Len(q) /\ Len(q) \in n..Len(q)
    BY <1>1
  <2> QED
    BY <2>1, ConcatAdjacentSubSeq
<1> QED
  BY <1>2, <1>3, <1>4, SubSeqFull

(* The first of a sequence without repetitions is taken off. *)
LEMMA First ==
    ASSUME NEW q, Distinct(q), q # <<>>
    PROVE  /\ Head(q) \in ToSet(q) /\ Distinct(Tail(q))
           /\ ToSet(Tail(q)) = ToSet(q) \ {Head(q)} /\ Len(Tail(q)) = Len(q) - 1
<1>1. q \in Seq(Servers) /\ Len(q) \in Nat /\ 1 \in 0..Len(q) /\ 1 \in 1..Len(q)
  BY Members DEF Distinct
<1>2. /\ Head(q) \in Servers /\ Head(q) = q[1]
      /\ Tail(q) = SubSeq(q, 2, Len(q)) /\ SubSeq(q, 1, 1) = <<q[1]>>
  <2>1. SubSeq(q, 1, 1) = <<q[1]>> \o SubSeq(q, 2, 1) /\ SubSeq(q, 2, 1) = <<>>
    BY <1>1, SubSeqRecursiveFirst, SubSeqEmpty
  <2>2. q[1] \in Servers /\ <<q[1]>> \o <<>> = <<q[1]>>
    BY <1>1, ElementOfSeq
  <2>3. Tail(q) = SubSeq(q, 2, Len(q))
    BY <1>1, TailIsSubSeq
  <2>4. SubSeq(q, 1, 1) = <<q[1]>>
    BY <2>1, <2>2
  <2> QED
    BY <1>1, <2>2, <2>3, <2>4
<1>3. q = <<Head(q)>> \o Tail(q) /\ Tail(q) \in Seq(Servers)
  BY <1>1, <1>2, Cut
<1>4. <<Head(q)>> \in Seq(Servers) /\ ToSet(<<Head(q)>>) = {Head(q)}
  BY <1>2, One
<1>5. /\ Distinct(Tail(q)) /\ ToSet(q) = {Head(q)} \cup ToSet(Tail(q))
      /\ {Head(q)} \cap ToSet(Tail(q)) = {}
  <2>1. Distinct(<<Head(q)>> \o Tail(q)) /\ ToSet(q) = ToSet(<<Head(q)>> \o Tail(q))
    BY <1>3
  <2> QED
    BY <1>3, <1>4, <2>1, Concat
<1>6. Len(Tail(q)) = Len(q) - 1
  BY <1>1, HeadTailProperties
<1> QED
  BY <1>5, <1>6

(* The server at a place of a sequence without repetitions is taken out,   *)
(* and those before it stay where they are.                                *)
LEMMA RemovedAt ==
    ASSUME NEW q, Distinct(q), NEW k \in 1..Len(q), NEW r, r = RemoveAt(q, k)
    PROVE  /\ Distinct(r) /\ ToSet(r) = ToSet(q) \ {q[k]} /\ Len(r) = Len(q) - 1
           /\ \A i \in 1..(k - 1) : r[i] = q[i]
<1> DEFINE s == q[k]
           a == SubSeq(q, 1, k - 1)
           b == SubSeq(q, k + 1, Len(q))
           as == a \o <<s>>
<1>1. q \in Seq(Servers) /\ Len(q) \in Nat /\ s \in Servers
  BY Members, ElementOfSeq DEF Distinct
<1>2. /\ a \in Seq(Servers) /\ b \in Seq(Servers) /\ Len(a) = k - 1 /\ Len(b) = Len(q) - k
      /\ q = as \o b
  <2>1. SubSeq(q, 1, k) = as
    BY <1>1, SubSeqRecursiveSecond
  <2>2. k - 1 \in 0..Len(q) /\ k \in 0..Len(q)
    BY <1>1
  <2>3. SubSeq(q, 1, k) \o b = q
    BY <1>1, <2>2, Cut
  <2>4. a \in Seq(Servers) /\ Len(a) = k - 1
    BY <1>1, <2>2, Cut
  <2>5. b \in Seq(Servers) /\ Len(b) = Len(q) - k
    BY <1>1, <2>2, Cut
  <2> QED
    BY <2>1, <2>3, <2>4, <2>5
<1>3. r = a \o b
  BY DEF RemoveAt
<1>4. /\ Len(a) = k - 1 /\ Len(a) \in Nat /\ Len(b) \in Nat
       /\ Len(a) + Len(b) = Len(q) - 1
  <2> DEFINE m == Len(a)
             n == Len(b)
             o == Len(q)
  <2>1. m = k - 1 /\ n = o - k /\ o \in Nat /\ k \in 1..o
    BY <1>1, <1>2
  <2> HIDE DEF m, n, o
  <2>2. m = k - 1 /\ m \in Nat /\ n \in Nat /\ m + n = o - 1
    BY <2>1
  <2> QED
    BY <2>2 DEF m, n, o
<1> HIDE DEF a, b, s
<1>5. <<s>> \in Seq(Servers) /\ ToSet(<<s>>) = {s} /\ Len(<<s>>) = 1
  BY <1>1, One
<1>6. as \in Seq(Servers) /\ ToSet(as) = ToSet(a) \cup {s}
  BY <1>2, <1>5, Concat
<1> HIDE DEF as
<1>7. /\ Distinct(as) /\ Distinct(b) /\ ToSet(as) \cap ToSet(b) = {}
      /\ ToSet(q) = ToSet(as) \cup ToSet(b)
  BY <1>2, <1>6, Concat
<1>8. Distinct(a) /\ ToSet(a) \cap {s} = {}
  BY <1>2, <1>5, <1>7, Concat DEF as
<1>9. /\ Distinct(r) /\ ToSet(r) = ToSet(a) \cup ToSet(b)
      /\ Len(r) = Len(a) + Len(b)
  <2>1. ToSet(a) \cap ToSet(b) = {}
    BY <1>6, <1>7
  <2>2. /\ Distinct(a \o b) /\ ToSet(a \o b) = ToSet(a) \cup ToSet(b)
        /\ Len(a \o b) = Len(a) + Len(b)
    BY <1>2, <1>7, <1>8, <2>1, Concat
  <2> QED
    BY <1>3, <2>2
<1>10. ToSet(r) = ToSet(q) \ {s}
  BY <1>6, <1>7, <1>8, <1>9
<1>11. ASSUME NEW i \in 1..(k - 1) PROVE r[i] = q[i]
  <2>1. i \in 1..Len(a) /\ i \in 1..Len(as) /\ Len(as) \in Nat
    <3>1. Len(as) = Len(a) + 1
      BY <1>2, <1>5, Concat DEF as
    <3> QED
      BY <1>1, <1>2, <3>1
  <2>2. r[i] = a[i]
    <3>1. \A j \in 1..(Len(a) + Len(b)) :
            (a \o b)[j] = IF j <= Len(a) THEN a[j] ELSE b[j - Len(a)]
      BY <1>2, ConcatProperties
    <3>2. i \in 1..(Len(a) + Len(b)) /\ i <= Len(a)
      BY <1>4, <2>1
    <3> QED
      BY <1>3, <3>1, <3>2
  <2>3. as[i] = a[i]
    BY <1>2, <1>5, <2>1, ConcatProperties DEF as
  <2>4. q[i] = as[i]
    BY <1>2, <1>6, <2>1, ConcatProperties
  <2> QED
    BY <2>2, <2>3, <2>4
<1> QED
  BY <1>9, <1>10, <1>11, <1>4 DEF s

(* SBServerListFindServer finds the place of a server. *)
LEMMA Found ==
    ASSUME NEW q, Distinct(q), NEW s \in ToSet(q),
           NEW k, k = SelectInSeq(q, LAMBDA t : t = s)
    PROVE  k \in 1..Len(q) /\ q[k] = s
<1>1. q \in Seq(Servers) /\ Len(q) \in Nat
  BY Members DEF Distinct
<1>2. PICK i \in 1..Len(q) : q[i] = s
  BY <1>1, Members
<1>3. {j \in 1..Len(q) : q[j] = s} = {i}
  BY <1>1, <1>2, DistinctPlaces
<1>4. SelectInSeq(q, LAMBDA t : t = s) = i
  BY <1>2, <1>3 DEF SelectInSeq, Min
<1> QED
  BY <1>2, <1>4

(* FIFORemove takes one server out, and leaves the first if it is another. *)
LEMMA Removed ==
    ASSUME NEW q, Distinct(q), NEW s
    PROVE  /\ Distinct(FIFORemove(q, s)) /\ ToSet(FIFORemove(q, s)) = ToSet(q) \ {s}
           /\ Len(FIFORemove(q, s)) <= Len(q)
           /\ s \in ToSet(q) => Len(FIFORemove(q, s)) = Len(q) - 1
           /\ q # <<>> /\ s # Head(q) => /\ FIFORemove(q, s) # <<>>
                                         /\ Head(FIFORemove(q, s)) = Head(q)
<1>1. q \in Seq(Servers) /\ Len(q) \in Nat /\ \A i \in 1..Len(q) : q[i] \in ToSet(q)
  BY Members DEF Distinct
<1>2. CASE s \notin ToSet(q)
  <2>1. FIFORemove(q, s) = q
    BY <1>1, <1>2 DEF FIFORemove, RemoveFirst
  <2> QED
    BY <1>1, <1>2, <2>1
<1>3. CASE s \in ToSet(q)
  <2> DEFINE k == SelectInSeq(q, LAMBDA t : t = s)
             r == RemoveAt(q, k)
  <2>1. k \in 1..Len(q) /\ q[k] = s
    BY <1>3, Found
  <2>2. FIFORemove(q, s) = r
    BY <1>1, <2>1 DEF FIFORemove, RemoveFirst
  <2> HIDE DEF k
  <2>3. /\ Distinct(r) /\ ToSet(r) = ToSet(q) \ {s} /\ Len(r) = Len(q) - 1
        /\ \A i \in 1..(k - 1) : r[i] = q[i]
    BY <2>1, RemovedAt
  <2> HIDE DEF r
  <2>4. ASSUME s # Head(q) PROVE r # <<>> /\ Head(r) = Head(q)
    <3>1. 1 \in 1..(k - 1) /\ r[1] = q[1] /\ Head(q) = q[1]
      BY <1>1, <2>1, <2>3, <2>4
    <3>2. r \in Seq(Servers) /\ Len(r) # 0
      BY <1>1, <2>1, <2>3, <3>1 DEF Distinct
    <3> QED
      BY <3>1, <3>2
  <2> QED
    BY <1>1, <2>2, <2>3, <2>4
<1> QED
  BY <1>2, <1>3

(* A server is added at the end. *)
LEMMA Appended ==
    ASSUME NEW q, Distinct(q), NEW s \in Servers, s \notin ToSet(q), NEW r, r = Append(q, s)
    PROVE  /\ Distinct(r) /\ ToSet(r) = ToSet(q) \cup {s} /\ Len(r) = Len(q) + 1
           /\ \A i \in 1..Len(q) : r[i] = q[i]
<1> DEFINE one == <<s>>
<1>1. q \in Seq(Servers) /\ r = q \o one
  BY AppendIsConcat DEF Distinct
<1>2. one \in Seq(Servers) /\ ToSet(one) = {s} /\ Distinct(one) /\ Len(one) = 1
  BY One
<1> HIDE DEF one
<1>3. Distinct(r) /\ ToSet(r) = ToSet(q) \cup {s} /\ Len(r) = Len(q) + 1
  <2>1. /\ Len(q \o one) = Len(q) + 1 /\ ToSet(q \o one) = ToSet(q) \cup {s}
        /\ Distinct(q \o one)
    <3>1. ToSet(q) \cap ToSet(one) = {}
      BY <1>2
    <3> QED
      BY <1>1, <1>2, <3>1, Concat
  <2> QED
    BY <1>1, <2>1
<1>4. \A i \in 1..Len(q) : r[i] = q[i]
  BY <1>1, AppendProperties
<1> QED
  BY <1>3, <1>4

(* The servers are put in another order. *)
LEMMA Reordered ==
    ASSUME NEW q, Distinct(q), NEW order \in Bijection(DOMAIN q, DOMAIN q),
           NEW r, r = [i \in DOMAIN q |-> q[order[i]]]
    PROVE  Distinct(r) /\ ToSet(r) = ToSet(q)
<1>1. /\ q \in Seq(Servers) /\ Len(q) \in Nat /\ DOMAIN q = 1..Len(q)
      /\ \A i \in 1..Len(q) : q[i] \in Servers
  BY Members, ElementOfSeq DEF Distinct
<1>2. /\ order \in [1..Len(q) -> 1..Len(q)]
      /\ \A i, j \in 1..Len(q) : order[i] = order[j] => i = j
      /\ \A j \in 1..Len(q) : \E i \in 1..Len(q) : order[i] = j
  BY <1>1 DEF Bijection, Injection, Surjection, IsInjective
<1>3. /\ r \in [1..Len(q) -> Servers] /\ r \in Seq(Servers) /\ Len(r) = Len(q)
      /\ \A i \in 1..Len(q) : r[i] = q[order[i]]
  <2>1. r \in [1..Len(q) -> Servers] /\ \A i \in 1..Len(q) : r[i] = q[order[i]]
    BY <1>1, <1>2
  <2> QED
    BY <1>1, <2>1
<1>4. Distinct(r)
  <2> SUFFICES ASSUME NEW i \in 1..Len(q), NEW j \in 1..Len(q), r[i] = r[j] PROVE i = j
    BY <1>3, DistinctPlaces
  <2>1. /\ order[i] \in 1..Len(q) /\ order[j] \in 1..Len(q)
        /\ q[order[i]] = q[order[j]]
    BY <1>2, <1>3
  <2>2. \A k, l \in 1..Len(q) : q[k] = q[l] => k = l
    BY <1>1, DistinctPlaces
  <2> QED
    BY <1>2, <2>1, <2>2
<1>5. ASSUME NEW x \in ToSet(r) PROVE x \in ToSet(q)
  <2>1. PICK i \in 1..Len(q) : r[i] = x
    BY <1>3, Members
  <2>2. order[i] \in 1..Len(q) /\ q[order[i]] = x
    BY <1>2, <1>3, <2>1
  <2> QED
    BY <1>1, <2>2, Members
<1>6. ASSUME NEW x \in ToSet(q) PROVE x \in ToSet(r)
  <2>1. PICK j \in 1..Len(q) : q[j] = x
    BY <1>1, Members
  <2>2. PICK i \in 1..Len(q) : order[i] = j
    BY <1>2
  <2>3. r[i] = x
    BY <1>3, <2>1, <2>2
  <2> QED
    BY <1>3, <2>3, Members
<1> QED
  BY <1>4, <1>5, <1>6

-----------------------------------------------------------------------------
(* Open callbacks and the list.                                            *)

DeletingIn(k) == {c.server : c \in {d \in ToSet(k) : d.where = "indeleted"}}

(* The library finds what it holds across the callbacks k in the list l: a *)
(* server that is being deleted at its place, which is behind those of the *)
(* callbacks around it, and an added server that is not being deleted.     *)
FramesSound(k, l) ==
    /\ k \in Seq(Frame) /\ Distinct(l)
    /\ \A i \in 1..Len(k) : k[i].where = "indeleted" =>
         /\ k[i].index \in 1..Len(l) /\ l[k[i].index] = k[i].server
         /\ \A j \in 1..Len(k) : j < i /\ k[j].where = "indeleted" => k[i].index < k[j].index
    /\ \A i \in 1..Len(k) : k[i].where = "inadded" => k[i].server \in ToSet(l) \ DeletingIn(k)

LEMMA Frames ==
    ASSUME NEW k \in Seq(Frame)
    PROVE  /\ Len(k) \in Nat /\ \A i \in 1..Len(k) : k[i] \in Frame /\ k[i] \in ToSet(k)
           /\ \A c \in ToSet(k) : \E i \in 1..Len(k) : k[i] = c
           /\ \A i \in 1..Len(k) : k[i].where = "indeleted" => k[i].server \in DeletingIn(k)
           /\ \A s \in DeletingIn(k) :
                \E i \in 1..Len(k) : k[i].where = "indeleted" /\ k[i].server = s
<1>1. Len(k) \in Nat /\ DOMAIN k = 1..Len(k) /\ \A i \in 1..Len(k) : k[i] \in Frame
  BY LenProperties, ElementOfSeq
<1>2. ToSet(k) = {k[i] : i \in 1..Len(k)}
  BY <1>1 DEF ToSet
<1>3. /\ \A i \in 1..Len(k) : k[i] \in ToSet(k)
      /\ \A c \in ToSet(k) : \E i \in 1..Len(k) : k[i] = c
  BY <1>2
<1> QED
  BY <1>1, <1>3 DEF DeletingIn

LEMMA DeletingListed ==
    ASSUME NEW k, NEW l, FramesSound(k, l) PROVE DeletingIn(k) \subseteq ToSet(l)
BY Frames, Members DEF FramesSound, Distinct

\* n is k with c in front.
Pushed(n, k, c) ==
    /\ n \in Seq(Frame) /\ n # <<>> /\ n[1] = c
    /\ \A i \in 1..Len(n) : i = 1 \/ (i - 1 \in 1..Len(k) /\ n[i] = k[i - 1])
    /\ ToSet(n) = ToSet(k) \cup {c}
    /\ c.where = "indeleted" => DeletingIn(n) = DeletingIn(k) \cup {c.server}
    /\ c.where # "indeleted" => DeletingIn(n) = DeletingIn(k)

LEMMA Push ==
    ASSUME NEW k \in Seq(Frame), NEW c \in Frame, NEW n, n = <<c>> \o k
    PROVE  Pushed(n, k, c)
<1> DEFINE one == <<c>>
<1>1. one \in Seq(Frame) /\ Len(one) = 1 /\ one[1] = c /\ Len(k) \in Nat
  BY Frames
<1> HIDE DEF one
<1>2. /\ n \in Seq(Frame) /\ Len(n) = Len(k) + 1
      /\ \A i \in 1..Len(n) : n[i] = IF i <= 1 THEN one[i] ELSE k[i - 1]
  <2>1. /\ one \o k \in Seq(Frame) /\ Len(one \o k) = Len(one) + Len(k)
        /\ \A i \in 1..(Len(one) + Len(k)) :
             (one \o k)[i] = IF i <= Len(one) THEN one[i] ELSE k[i - Len(one)]
    BY <1>1, ConcatProperties
  <2>2. n = one \o k
    BY DEF one
  <2> QED
    BY <1>1, <2>1, <2>2
<1>3. n[1] = c /\ n # <<>>
  BY <1>1, <1>2
<1>4. /\ \A i \in 1..Len(n) : i = 1 \/ (i - 1 \in 1..Len(k) /\ n[i] = k[i - 1])
      /\ 1 \in 1..Len(n)
      /\ \A i \in 1..Len(k) : i + 1 \in 1..Len(n) /\ n[i + 1] = k[i]
  <2> DEFINE m == Len(k)
  <2>1. m \in Nat /\ Len(n) = m + 1
    BY <1>1, <1>2
  <2>2. \A i \in 1..(m + 1) : i = 1 \/ (i - 1 \in 1..m /\ n[i] = k[i - 1])
    BY <1>2, <2>1
  <2>3. ASSUME NEW i \in 1..m PROVE i + 1 \in 1..(m + 1) /\ n[i + 1] = k[i]
    <3> HIDE DEF m
    <3>1. i + 1 \in 1..(m + 1) /\ ~(i + 1 <= 1) /\ (i + 1) - 1 = i
      BY <2>1
    <3> QED
      BY <1>2, <2>1, <3>1
  <2>4. 1 \in 1..(m + 1)
    BY <2>1
  <2> QED
    BY <2>1, <2>2, <2>3, <2>4
<1>5. ToSet(n) = ToSet(k) \cup {c}
  <2>1. ASSUME NEW x \in ToSet(n) PROVE x \in ToSet(k) \cup {c}
    <3>1. PICK i \in 1..Len(n) : n[i] = x
      BY <1>2, Frames
    <3>2. \A j \in 1..Len(k) : k[j] \in ToSet(k)
      BY Frames
    <3> QED
      BY <1>3, <1>4, <3>1, <3>2
  <2>2. ASSUME NEW x \in ToSet(k) PROVE x \in ToSet(n)
    <3>1. PICK i \in 1..Len(k) : k[i] = x
      BY Frames
    <3>2. i + 1 \in 1..Len(n) /\ n[i + 1] = x
      BY <1>4, <3>1
    <3>3. \A j \in 1..Len(n) : n[j] \in ToSet(n)
      BY <1>2, Frames
    <3> QED
      BY <3>2, <3>3
  <2>3. c \in ToSet(n)
    <3>1. \A j \in 1..Len(n) : n[j] \in ToSet(n)
      BY <1>2, Frames
    <3> QED
      BY <1>3, <1>4, <3>1
  <2> QED
    BY <2>1, <2>2, <2>3
<1> QED
  BY <1>2, <1>3, <1>4, <1>5 DEF DeletingIn, Pushed

LEMMA Pop ==
    ASSUME NEW k \in Seq(Frame), k # <<>>, NEW n, n = Tail(k)
    PROVE  /\ n \in Seq(Frame) /\ 1 \in 1..Len(k) /\ Head(k) = k[1] /\ k[1] \in Frame
           /\ \A i \in 1..Len(n) : i + 1 \in 1..Len(k) /\ n[i] = k[i + 1]
           /\ ToSet(k) = ToSet(n) \cup {Head(k)}
           /\ Head(k).where = "indeleted"
                => DeletingIn(k) = DeletingIn(n) \cup {Head(k).server}
           /\ Head(k).where # "indeleted" => DeletingIn(k) = DeletingIn(n)
<1>1. /\ n \in Seq(Frame) /\ Len(n) = Len(k) - 1 /\ Head(k) \in Frame /\ Head(k) = k[1]
      /\ \A i \in 1..Len(n) : n[i] = k[i + 1]
  BY HeadTailProperties
<1>2. Len(k) \in Nat /\ Len(n) \in Nat /\ Len(k) # 0
  BY <1>1, Frames
<1>3. \A i \in 1..Len(n) : i + 1 \in 1..Len(k)
  BY <1>1, <1>2
<1>4. ToSet(k) = ToSet(n) \cup {k[1]}
  <2>1. ASSUME NEW x \in ToSet(k) PROVE x \in ToSet(n) \cup {k[1]}
    <3>1. PICK i \in 1..Len(k) : k[i] = x
      BY Frames
    <3>2. i # 1 => i - 1 \in 1..Len(n) /\ (i - 1) + 1 = i
      BY <1>1, <1>2
    <3>3. i # 1 => n[i - 1] = x
      BY <1>1, <3>1, <3>2
    <3>4. \A j \in 1..Len(n) : n[j] \in ToSet(n)
      BY <1>1, Frames
    <3> QED
      BY <3>1, <3>2, <3>3, <3>4
  <2>2. ASSUME NEW x \in ToSet(n) PROVE x \in ToSet(k)
    <3>1. PICK i \in 1..Len(n) : n[i] = x
      BY <1>1, Frames
    <3>2. \A j \in 1..Len(k) : k[j] \in ToSet(k)
      BY Frames
    <3> QED
      BY <1>1, <1>3, <3>1, <3>2
  <2>3. k[1] \in ToSet(k)
    BY <1>2, Frames
  <2> QED
    BY <2>1, <2>2, <2>3
<1> QED
  BY <1>1, <1>2, <1>3, <1>4 DEF DeletingIn

(* A callback begins in which nothing is deleted. *)
LEMMA FramesPush ==
    ASSUME NEW k, NEW l, FramesSound(k, l), NEW c \in Frame, c.where # "indeleted",
           c.where = "inadded" => c.server \in ToSet(l) \ DeletingIn(k),
           NEW n, n = <<c>> \o k
    PROVE  FramesSound(n, l) /\ DeletingIn(n) = DeletingIn(k)
<1>1. k \in Seq(Frame) /\ Len(k) \in Nat
  BY Frames DEF FramesSound
<1>2. /\ n \in Seq(Frame) /\ n[1] = c
      /\ \A i \in 1..Len(n) : i = 1 \/ (i - 1 \in 1..Len(k) /\ n[i] = k[i - 1])
      /\ DeletingIn(n) = DeletingIn(k)
  <2>1. Pushed(n, k, c)
    BY <1>1, Push
  <2> QED
    BY <2>1 DEF Pushed
<1>3. ASSUME NEW i \in 1..Len(n), n[i].where = "indeleted"
      PROVE  /\ n[i].index \in 1..Len(l) /\ l[n[i].index] = n[i].server
             /\ \A j \in 1..Len(n) :
                  j < i /\ n[j].where = "indeleted" => n[i].index < n[j].index
  <2>1. i - 1 \in 1..Len(k) /\ n[i] = k[i - 1]
    BY <1>2, <1>3
  <2>2. \A j \in 1..Len(n) : j < i /\ n[j].where = "indeleted"
          => j - 1 \in 1..Len(k) /\ j - 1 < i - 1 /\ n[j] = k[j - 1]
    BY <1>2
  <2> QED
    BY <1>3, <2>1, <2>2 DEF FramesSound
<1>4. ASSUME NEW i \in 1..Len(n), n[i].where = "inadded"
      PROVE  n[i].server \in ToSet(l) \ DeletingIn(n)
  BY <1>2, <1>4 DEF FramesSound
<1> QED
  BY <1>2, <1>3, <1>4 DEF FramesSound

(* The deletion of a server begins whose place is behind those of the      *)
(* servers that are being deleted already.                                 *)
LEMMA FramesDelete ==
    ASSUME NEW k, NEW l, FramesSound(k, l), NEW p \in 1..Len(l),
           \A i \in 1..Len(k) : k[i].where = "indeleted" => k[i].index < p,
           \A i \in 1..Len(k) : k[i].where = "inadded" => k[i].server # l[p],
           NEW n, n = <<Callback("indeleted", l[p], p)>> \o k
    PROVE  FramesSound(n, l) /\ DeletingIn(n) = DeletingIn(k) \cup {l[p]}
<1> DEFINE c == Callback("indeleted", l[p], p)
<1>1. k \in Seq(Frame) /\ Len(k) \in Nat /\ Len(l) \in Nat
  BY Frames, Members DEF FramesSound, Distinct
<1>2. c \in Frame /\ c.where = "indeleted" /\ c.server = l[p] /\ c.index = p
  <2>1. l[p] \in Servers /\ p \in Nat
    BY <1>1, ElementOfSeq DEF FramesSound, Distinct
  <2> QED
    BY <2>1 DEF Callback, Frame
<1> HIDE DEF c
<1>3. n = <<c>> \o k
  BY DEF c
<1>4. /\ n \in Seq(Frame) /\ n[1] = c
      /\ \A i \in 1..Len(n) : i = 1 \/ (i - 1 \in 1..Len(k) /\ n[i] = k[i - 1])
      /\ DeletingIn(n) = DeletingIn(k) \cup {l[p]}
  <2>1. Pushed(n, k, c)
    BY <1>1, <1>2, <1>3, Push
  <2> QED
    BY <1>2, <2>1 DEF Pushed
<1>5. ASSUME NEW i \in 1..Len(n), n[i].where = "indeleted"
      PROVE  /\ n[i].index \in 1..Len(l) /\ l[n[i].index] = n[i].server
             /\ \A j \in 1..Len(n) :
                  j < i /\ n[j].where = "indeleted" => n[i].index < n[j].index
  <2>1. CASE i = 1
    BY <1>2, <1>4, <2>1
  <2>2. CASE i # 1
    <3>1. i - 1 \in 1..Len(k) /\ n[i] = k[i - 1]
      BY <1>4, <2>2
    <3>2. n[i].index \in 1..Len(l) /\ l[n[i].index] = n[i].server /\ n[i].index < p
      BY <1>5, <3>1 DEF FramesSound
    <3>3. ASSUME NEW j \in 1..Len(n), j < i, n[j].where = "indeleted"
          PROVE  n[i].index < n[j].index
      <4>1. CASE j = 1
        BY <1>2, <1>4, <3>2, <4>1
      <4>2. CASE j # 1
        <5>1. j - 1 \in 1..Len(k) /\ n[j] = k[j - 1] /\ j - 1 < i - 1
          BY <1>4, <3>3, <4>2
        <5> QED
          BY <1>5, <3>1, <3>3, <5>1 DEF FramesSound
      <4> QED
        BY <4>1, <4>2
    <3> QED
      BY <3>2, <3>3
  <2> QED
    BY <2>1, <2>2
<1>6. ASSUME NEW i \in 1..Len(n), n[i].where = "inadded"
      PROVE  n[i].server \in ToSet(l) \ DeletingIn(n)
  <2>1. i - 1 \in 1..Len(k) /\ n[i] = k[i - 1]
    BY <1>2, <1>4, <1>6
  <2> QED
    BY <1>4, <1>6, <2>1 DEF FramesSound
<1> QED
  BY <1>4, <1>5, <1>6 DEF FramesSound

LEMMA FramesAppend ==
    ASSUME NEW k, NEW l, FramesSound(k, l), NEW s \in Servers, s \notin ToSet(l),
           NEW m, m = Append(l, s)
    PROVE  FramesSound(k, m) /\ ToSet(m) = ToSet(l) \cup {s} /\ s \notin DeletingIn(k)
<1>1. Distinct(l) /\ Len(l) \in Nat
  BY Members DEF FramesSound, Distinct
<1>2. /\ Distinct(m) /\ ToSet(m) = ToSet(l) \cup {s} /\ Len(m) = Len(l) + 1
      /\ \A i \in 1..Len(l) : m[i] = l[i]
  <2> DEFINE r == Append(l, s)
  <2>1. /\ Distinct(r) /\ ToSet(r) = ToSet(l) \cup {s} /\ Len(r) = Len(l) + 1
        /\ \A i \in 1..Len(l) : r[i] = l[i]
    BY <1>1, Appended
  <2> QED
    BY <2>1
<1>3. \A i \in 1..Len(l) : i \in 1..Len(m)
  BY <1>1, <1>2
<1>4. FramesSound(k, m)
  BY <1>2, <1>3 DEF FramesSound
<1> QED
  BY <1>2, <1>4, DeletingListed

(* A callback returns in which nothing was deleted. *)
LEMMA FramesPop ==
    ASSUME NEW k, NEW l, FramesSound(k, l), k # <<>>, Head(k).where # "indeleted",
           NEW n, n = Tail(k)
    PROVE  FramesSound(n, l) /\ DeletingIn(n) = DeletingIn(k)
<1>1. k \in Seq(Frame)
  BY DEF FramesSound
<1>2. /\ n \in Seq(Frame) /\ DeletingIn(n) = DeletingIn(k)
      /\ \A i \in 1..Len(n) : i + 1 \in 1..Len(k) /\ n[i] = k[i + 1]
  BY <1>1, Pop
<1>3. \A i, j \in 1..Len(n) : j < i => j + 1 < i + 1
  BY <1>2, Frames
<1> QED
  BY <1>2, <1>3 DEF FramesSound

(* The callback for a server that is being deleted returns: the server is  *)
(* the one at the place that the library has remembered.                   *)
LEMMA FramesDeleted ==
    ASSUME NEW k, NEW l, FramesSound(k, l), k # <<>>, Head(k).where = "indeleted",
           NEW n, n = Tail(k), NEW m, m = ArrayDeleteAt(l, Head(k).index)
    PROVE  /\ FramesSound(n, m) /\ Head(k).server \in DeletingIn(k)
           /\ ToSet(m) \ DeletingIn(n) = ToSet(l) \ DeletingIn(k)
<1> DEFINE p == Head(k).index
           s == Head(k).server
<1>1. k \in Seq(Frame) /\ Distinct(l) /\ Len(l) \in Nat /\ DOMAIN l = 1..Len(l)
  BY Members DEF FramesSound, Distinct
<1>2. /\ n \in Seq(Frame) /\ Head(k) = k[1] /\ 1 \in 1..Len(k)
      /\ DeletingIn(k) = DeletingIn(n) \cup {s}
      /\ \A i \in 1..Len(n) : i + 1 \in 1..Len(k) /\ n[i] = k[i + 1]
  BY <1>1, Pop
<1>3. p \in 1..Len(l) /\ l[p] = s
  BY <1>2 DEF FramesSound
<1>4. /\ Distinct(m) /\ ToSet(m) = ToSet(l) \ {s} /\ Len(m) = Len(l) - 1
      /\ \A i \in 1..(p - 1) : m[i] = l[i]
  <2>1. m = RemoveAt(l, p)
    BY <1>1, <1>3 DEF ArrayDeleteAt
  <2> DEFINE r == RemoveAt(l, p)
  <2> HIDE DEF p, s
  <2>2. /\ Distinct(r) /\ ToSet(r) = ToSet(l) \ {l[p]} /\ Len(r) = Len(l) - 1
        /\ \A i \in 1..(p - 1) : r[i] = l[i]
    <3>1. Distinct(l) /\ p \in 1..Len(l)
      BY <1>1, <1>3
    <3> QED
      BY <3>1, RemovedAt
  <2> QED
    BY <1>3, <2>1, <2>2 DEF r
<1> HIDE DEF p, s
<1>5. ASSUME NEW i \in 1..Len(n), n[i].where = "indeleted"
      PROVE  /\ n[i].index \in 1..(p - 1) /\ l[n[i].index] = n[i].server
             /\ n[i].index \in 1..Len(m) /\ m[n[i].index] = n[i].server
             /\ n[i].server # s
             /\ \A j \in 1..Len(n) :
                  j < i /\ n[j].where = "indeleted" => n[i].index < n[j].index
  <2>1. i + 1 \in 1..Len(k) /\ n[i] = k[i + 1] /\ 1 < i + 1
    BY <1>2, <1>5
  <2>2. n[i].index \in 1..Len(l) /\ l[n[i].index] = n[i].server /\ n[i].index < p
    BY <1>2, <1>5, <2>1 DEF FramesSound, p
  <2>3. n[i].index \in 1..(p - 1) /\ n[i].index \in 1..Len(m)
    BY <1>1, <1>3, <1>4, <2>2
  <2>4. n[i].server # s
    <3>1. \A a, b \in 1..Len(l) : l[a] = l[b] => a = b
      BY <1>1, DistinctPlaces DEF Distinct
    <3> QED
      BY <1>1, <1>3, <2>2, <3>1
  <2>5. ASSUME NEW j \in 1..Len(n), j < i, n[j].where = "indeleted"
        PROVE  n[i].index < n[j].index
    <3>1. j + 1 \in 1..Len(k) /\ n[j] = k[j + 1] /\ j + 1 < i + 1
      BY <1>2, <2>5
    <3> QED
      BY <1>5, <2>1, <2>5, <3>1 DEF FramesSound
  <2> QED
    BY <1>4, <2>2, <2>3, <2>4, <2>5
<1>6. s \notin DeletingIn(n)
  BY <1>2, <1>5, Frames
<1>7. ASSUME NEW i \in 1..Len(n), n[i].where = "inadded"
      PROVE  n[i].server \in ToSet(m) \ DeletingIn(n)
  <2>1. n[i].server \in ToSet(l) \ DeletingIn(k)
    BY <1>2, <1>7 DEF FramesSound
  <2> QED
    BY <1>2, <1>4, <2>1
<1>8. FramesSound(n, m)
  BY <1>2, <1>4, <1>5, <1>7 DEF FramesSound
<1> QED
  BY <1>2, <1>4, <1>6, <1>8 DEF s

(* The list is put in another order while nothing is being deleted. *)
LEMMA FramesSorted ==
    ASSUME NEW k, NEW l, FramesSound(k, l), DeletingIn(k) = {},
           NEW m, Distinct(m), ToSet(m) = ToSet(l)
    PROVE  FramesSound(k, m)
BY Frames DEF FramesSound

-----------------------------------------------------------------------------
(* Engines.                                                                *)

QueuedIn(e) == ToSet(e.query) \cup ToSet(e.pending)

(* The failed query is the first of the outstanding ones. *)
FailedIsFirst(e) == e.failed # {} => e.query # <<>> /\ e.failed = {Head(e.query)}

(* The FIFOs of e are sound when the list has the servers l. *)
Sound(e, l) ==
    /\ e \in Engine /\ Len(e.query) <= maxupdates /\ e.due \subseteq ToSet(e.query)
    /\ Distinct(e.query) /\ Distinct(e.pending)
    /\ ToSet(e.query) \cap ToSet(e.pending) = {}
    /\ QueuedIn(e) \subseteq l /\ l \subseteq Servers
    /\ \A s \in QueuedIn(e) : PENDING \cap e.state[s] # {}
    /\ FailedIsFirst(e)

(* What is owed is what is queued, but for the failed query. *)
Owes(e) == e.owed = QueuedIn(e) \ e.failed

(* The queries of q may be started. *)
MayStart(e, q, l) ==
    /\ ToSet(q) \subseteq l \ QueuedIn(e) /\ Len(e.query) + Len(q) <= maxupdates
    /\ \A s \in ToSet(q) : PENDING \cap e.state[s] # {}

(* What the operators make of e. *)
Started(e, q, f) ==
    /\ f.query = e.query \o q /\ f.pending = e.pending
    /\ QueuedIn(f) = QueuedIn(e) \cup ToSet(q)
    /\ f.owed = e.owed /\ f.state = e.state /\ f.failed = e.failed
AskedFor(e, s, f) ==
    /\ f.query = e.query /\ f.pending = e.pending /\ QueuedIn(f) = QueuedIn(e)
    /\ f.owed = e.owed \cup {s} /\ PENDING \cap f.state[s] # {}
    /\ f.failed = e.failed
Queried(e, s, f) ==
    /\ QueuedIn(f) = QueuedIn(e) \cup {s} /\ f.owed = e.owed \cup {s}
    /\ f.failed = e.failed /\ f.query # <<>>
TakenOut(e, s, f) ==
    /\ QueuedIn(f) = QueuedIn(e) \ {s} /\ f.owed = e.owed /\ f.state = e.state
    /\ f.failed = e.failed \ {s}
    /\ s \in ToSet(e.query) => Len(f.query) = Len(e.query) - 1
Forgotten(e, s, f) ==
    /\ QueuedIn(f) = QueuedIn(e) \ {s} /\ f.owed = e.owed \ {s}
    /\ f.failed = e.failed \ {s}
Rewritten(e, s, st, ow, f) ==
    /\ f.query = e.query /\ f.pending = e.pending /\ f.owed = ow /\ f.state[s] = st
    /\ f.failed = e.failed

LEMMA Limit == maxupdates \in Nat /\ maxupdates > 0 /\ MaxCalls \in Nat
BY SBAssumption

LEMMA FrontKept ==
    ASSUME NEW q \in Seq(Servers), NEW r \in Seq(Servers), q # <<>>
    PROVE  q \o r # <<>> /\ Head(q \o r) = Head(q)
<1>1. /\ Len(q) \in Nat /\ Len(r) \in Nat /\ Len(q) # 0 /\ 1 \in 1..Len(q)
  BY Members
<1>2. q \o r \in Seq(Servers) /\ Len(q \o r) = Len(q) + Len(r) /\ (q \o r)[1] = q[1]
  BY <1>1, ConcatProperties
<1> QED
  BY <1>1, <1>2

(* Queries are started for servers that are in no FIFO, while the limit    *)
(* allows it.                                                              *)
LEMMA StartQueries ==
    ASSUME NEW l, NEW e, Sound(e, l), NEW q, Distinct(q),
           MayStart(e, q, l), NEW f, f = QEStartQueries(e, q)
    PROVE  Sound(f, l) /\ Started(e, q, f)
<1>1. /\ e.query \in Seq(Servers) /\ e.pending \in Seq(Servers) /\ q \in Seq(Servers)
      /\ ToSet(q) \subseteq Servers /\ e \in Engine
  BY Members DEF Sound, Distinct, MayStart
<1>2. f = [e EXCEPT !.query = e.query \o q, !.due = e.due \ ToSet(q)]
  BY DEF QEStartQueries
<1>3. /\ f.query = e.query \o q /\ f.pending = e.pending /\ f.owed = e.owed
      /\ f.state = e.state /\ f.due = e.due \ ToSet(q) /\ f.failed = e.failed
  BY <1>1, <1>2 DEF Engine
<1>4. /\ f.query \in Seq(Servers) /\ Len(f.query) <= maxupdates /\ Distinct(f.query)
      /\ ToSet(f.query) = ToSet(e.query) \cup ToSet(q)
  <2>1. ToSet(e.query) \cap ToSet(q) = {}
    BY DEF QueuedIn, MayStart
  <2> QED
    BY <1>1, <1>3, <2>1, Concat DEF Sound, MayStart
<1>5. f \in Engine
  BY <1>1, <1>2, <1>4 DEF Engine
<1>6. QueuedIn(f) = QueuedIn(e) \cup ToSet(q)
  BY <1>3, <1>4 DEF QueuedIn
<1>7. FailedIsFirst(f)
  BY <1>1, <1>3, FrontKept DEF Sound, FailedIsFirst
<1>8. Sound(f, l)
  BY <1>3, <1>4, <1>5, <1>6, <1>7 DEF Sound, QueuedIn, MayStart
<1> QED
  BY <1>3, <1>6, <1>8 DEF Started

LEMMA Asked ==
    ASSUME NEW l, NEW e, Sound(e, l), NEW s \in l, NEW qtype \in PENDING,
           NEW f, f = AskFor(e, s, qtype)
    PROVE  Sound(f, l) /\ AskedFor(e, s, f)
<1> DEFINE bits == {qtype} \cup (IF UseChallenge THEN {"pendingchallenge"} ELSE {})
           new == (e.state[s] \ (PENDING \cup {"pendingchallenge"})) \cup bits
<1>1. e \in Engine /\ s \in Servers
  BY DEF Sound
<1>2. f = [e EXCEPT !.state[s] = new, !.owed = e.owed \cup {s}]
  BY DEF AskFor
<1>3. new \in SUBSET StateBit /\ PENDING \cap new # {}
  BY <1>1 DEF Engine, StateBit, PENDING
<1> HIDE DEF new
<1>4. /\ f \in Engine /\ f.query = e.query /\ f.pending = e.pending /\ f.due = e.due
      /\ f.owed = e.owed \cup {s} /\ f.state = [e.state EXCEPT ![s] = new]
      /\ f.failed = e.failed
  <2> DEFINE st == [e.state EXCEPT ![s] = new]
             ow == e.owed \cup {s}
  <2>1. st \in [Servers -> SUBSET StateBit] /\ ow \in SUBSET Servers
    BY <1>1, <1>3 DEF Engine
  <2>2. f = [e EXCEPT !.state = st, !.owed = ow]
    BY <1>1, <1>2 DEF Engine
  <2> HIDE DEF st, ow
  <2>3. /\ f \in Engine /\ f.query = e.query /\ f.pending = e.pending
        /\ f.due = e.due /\ f.owed = ow /\ f.state = st /\ f.failed = e.failed
    BY <1>1, <2>1, <2>2 DEF Engine
  <2> QED
    BY <2>3 DEF st, ow
<1>5. QueuedIn(f) = QueuedIn(e) /\ PENDING \cap f.state[s] # {}
  BY <1>1, <1>3, <1>4 DEF QueuedIn, Engine
<1>6. \A t \in QueuedIn(f) : PENDING \cap f.state[t] # {}
  BY <1>1, <1>3, <1>4, <1>5 DEF Sound, Engine
<1>7. Sound(f, l)
  BY <1>4, <1>5, <1>6 DEF Sound, QueuedIn, FailedIsFirst
<1> QED
  BY <1>4, <1>5, <1>7 DEF AskedFor

(* A server that is in no FIFO is queried: it is then in one of them, and  *)
(* some query is outstanding.                                              *)
LEMMA UpdateServer ==
    ASSUME NEW l, NEW e, Sound(e, l), NEW s \in l, s \notin QueuedIn(e),
           NEW addfront \in BOOLEAN, NEW qtype \in PENDING,
           NEW f, f = SBQueryEngineUpdateServer(e, s, addfront, qtype)
    PROVE  Sound(f, l) /\ Queried(e, s, f)
<1> DEFINE a == AskFor(e, s, qtype)
           one == <<s>>
<1> HIDE DEF a
<1>1. /\ Sound(a, l) /\ a.query = e.query /\ a.pending = e.pending
      /\ QueuedIn(a) = QueuedIn(e) /\ a.owed = e.owed \cup {s}
      /\ PENDING \cap a.state[s] # {} /\ a.failed = e.failed
  <2>1. a = AskFor(e, s, qtype)
    BY DEF a
  <2>2. Sound(a, l) /\ AskedFor(e, s, a)
    BY <2>1, Asked
  <2> QED
    BY <2>2 DEF AskedFor
<1>2. /\ s \in Servers /\ e.query \in Seq(Servers) /\ e.pending \in Seq(Servers)
      /\ Len(e.query) \in Nat /\ Distinct(e.pending) /\ a \in Engine
  BY <1>1, Members DEF Sound, Distinct
<1>3. /\ one \in Seq(Servers) /\ Len(one) = 1 /\ ToSet(one) = {s}
      /\ Distinct(one)
  BY <1>2, One
<1> HIDE DEF one
<1>4. CASE Len(e.query) < maxupdates
  <2>1. f = QEStartQueries(a, one)
    BY <1>4 DEF a, one, SBQueryEngineUpdateServer, QEStartQuery
  <2>2. Len(a.query) + Len(one) <= maxupdates
    BY <1>1, <1>2, <1>3, <1>4, Limit
  <2>3. ToSet(one) \subseteq l \ QueuedIn(a)
    BY <1>1, <1>3
  <2>4. \A t \in ToSet(one) : PENDING \cap a.state[t] # {}
    BY <1>1, <1>3
  <2>5. /\ Sound(f, l) /\ f.query = a.query \o one
        /\ QueuedIn(f) = QueuedIn(a) \cup {s} /\ f.owed = a.owed /\ f.failed = a.failed
    <3>1. MayStart(a, one, l)
      BY <2>2, <2>3, <2>4 DEF MayStart
    <3>2. Sound(f, l) /\ Started(a, one, f)
      BY <1>1, <1>3, <2>1, <3>1, StartQueries
    <3> QED
      BY <1>3, <3>2 DEF Started
  <2>6. f.query # <<>>
    <3>1. Len(f.query) = Len(e.query) + 1 /\ f.query \in Seq(Servers)
      <4>1. f.query = e.query \o one
        BY <1>1, <2>5
      <4>2. /\ Len(e.query \o one) = Len(e.query) + 1
            /\ e.query \o one \in Seq(Servers)
        BY <1>2, <1>3, Concat
      <4> QED
        BY <4>1, <4>2
    <3> QED
      BY <1>2, <3>1, Members
  <2> QED
    BY <1>1, <2>5, <2>6 DEF Queried
<1>5. CASE ~(Len(e.query) < maxupdates)
  <2> DEFINE p == IF addfront THEN one \o a.pending ELSE Append(a.pending, s)
  <2>1. f = [a EXCEPT !.pending = p]
    BY <1>5 DEF a, one, SBQueryEngineUpdateServer
  <2>2. Distinct(p) /\ ToSet(p) = ToSet(e.pending) \cup {s}
    <3>1. ToSet(e.pending) \cap {s} = {}
      BY DEF QueuedIn
    <3>2. /\ Distinct(one \o e.pending) /\ Distinct(e.pending \o one)
          /\ ToSet(one \o e.pending) = ToSet(e.pending) \cup {s}
          /\ ToSet(e.pending \o one) = ToSet(e.pending) \cup {s}
      BY <1>2, <1>3, <3>1, Concat
    <3>3. Append(e.pending, s) = e.pending \o one
      BY <1>2, AppendIsConcat DEF one
    <3> QED
      BY <1>1, <3>2, <3>3
  <2> HIDE DEF p
  <2>3. /\ f \in Engine /\ f.query = a.query /\ f.pending = p /\ f.due = a.due
        /\ f.state = a.state /\ f.owed = a.owed /\ f.failed = a.failed
    BY <1>2, <2>1, <2>2 DEF Engine, Distinct
  <2>4. QueuedIn(f) = QueuedIn(e) \cup {s}
    BY <1>1, <2>2, <2>3 DEF QueuedIn
  <2>5. Sound(f, l)
    <3>1. ToSet(f.query) \cap ToSet(f.pending) = {}
      BY <1>1, <2>2, <2>3 DEF Sound, QueuedIn
    <3>2. \A t \in QueuedIn(f) : PENDING \cap f.state[t] # {}
      BY <1>1, <2>3, <2>4 DEF Sound
    <3> QED
      BY <1>1, <2>2, <2>3, <2>4, <3>1, <3>2 DEF Sound, FailedIsFirst
  <2>6. f.query # <<>>
    BY <1>1, <1>2, <1>5, <2>3, Limit, Members
  <2> QED
    BY <1>1, <2>3, <2>4, <2>5, <2>6 DEF Queried
<1> QED
  BY <1>4, <1>5

(* A server is taken out of the FIFO it is in. *)
LEMMA RemoveFromFIFOs ==
    ASSUME NEW l, NEW e, Sound(e, l), NEW s,
           NEW f, f = SBQueryEngineRemoveServerFromFIFOs(e, s)
    PROVE  Sound(f, l) /\ TakenOut(e, s, f)
<1>1. /\ e \in Engine /\ Distinct(e.query) /\ Distinct(e.pending)
      /\ Len(e.query) \in Nat
  BY Members DEF Sound, Distinct
<1>2. /\ Distinct(FIFORemove(e.query, s)) /\ Distinct(FIFORemove(e.pending, s))
      /\ ToSet(FIFORemove(e.query, s)) = ToSet(e.query) \ {s}
      /\ ToSet(FIFORemove(e.pending, s)) = ToSet(e.pending) \ {s}
      /\ Len(FIFORemove(e.query, s)) <= Len(e.query)
      /\ s \in ToSet(e.query) => Len(FIFORemove(e.query, s)) = Len(e.query) - 1
      /\ e.query # <<>> /\ s # Head(e.query)
           => /\ FIFORemove(e.query, s) # <<>>
              /\ Head(FIFORemove(e.query, s)) = Head(e.query)
  BY <1>1, Removed
<1>3. Contains(e.query, s) <=> s \in ToSet(e.query)
  BY <1>1, Members DEF Contains, Distinct
<1>4. CASE s \in ToSet(e.query)
  <2>1. f = [e EXCEPT !.query = FIFORemove(e.query, s), !.due = e.due \ {s},
                      !.failed = e.failed \ {s}]
    BY <1>3, <1>4 DEF SBQueryEngineRemoveServerFromFIFOs
  <2>2. /\ f \in Engine /\ f.query = FIFORemove(e.query, s) /\ f.due = e.due \ {s}
        /\ f.pending = e.pending /\ f.owed = e.owed /\ f.state = e.state
        /\ f.failed = e.failed \ {s}
    BY <1>1, <1>2, <2>1 DEF Engine, Distinct
  <2>3. QueuedIn(f) = QueuedIn(e) \ {s}
    BY <1>2, <1>4, <2>2 DEF QueuedIn, Sound
  <2>4. Len(f.query) <= maxupdates
    <3>1. Len(f.query) \in Nat
      BY <1>2, <2>2, Members DEF Distinct
    <3> QED
      BY <1>1, <1>2, <2>2, <3>1, Limit DEF Sound
  <2>5. FailedIsFirst(f)
    BY <1>2, <2>2 DEF Sound, FailedIsFirst
  <2> QED
    BY <1>1, <1>2, <2>2, <2>3, <2>4, <2>5 DEF Sound, TakenOut
<1>5. CASE s \notin ToSet(e.query)
  <2>1. f = [e EXCEPT !.pending = FIFORemove(e.pending, s)]
    BY <1>3, <1>5 DEF SBQueryEngineRemoveServerFromFIFOs
  <2>2. /\ f \in Engine /\ f.query = e.query /\ f.due = e.due
        /\ f.pending = FIFORemove(e.pending, s) /\ f.owed = e.owed /\ f.state = e.state
        /\ f.failed = e.failed
    BY <1>1, <1>2, <2>1 DEF Engine, Distinct
  <2>3. QueuedIn(f) = QueuedIn(e) \ {s}
    BY <1>2, <1>5, <2>2 DEF QueuedIn
  <2>4. e.failed = e.failed \ {s} /\ FailedIsFirst(f)
    BY <1>1, <1>5, <2>2, First DEF Sound, FailedIsFirst
  <2> QED
    BY <1>1, <1>2, <1>5, <2>2, <2>3, <2>4 DEF Sound, TakenOut
<1> QED
  BY <1>4, <1>5

(* A server that is to be deleted leaves the FIFO it is in. *)
LEMMA Deleted ==
    ASSUME NEW l, NEW e, Sound(e, l), NEW s \in Servers, NEW f, f = DeletedServer(e, s)
    PROVE  Sound(f, l \ {s}) /\ Forgotten(e, s, f)
<1> DEFINE r == IF PENDING \cap e.state[s] = {} THEN e
                ELSE SBQueryEngineRemoveServerFromFIFOs(e, s)
<1>1. /\ Sound(r, l) /\ QueuedIn(r) = QueuedIn(e) \ {s} /\ r.owed = e.owed
      /\ r.failed = e.failed \ {s}
  <2>1. CASE PENDING \cap e.state[s] = {}
    <3>1. s \notin QueuedIn(e)
      BY <2>1 DEF Sound
    <3>2. s \notin e.failed
      BY <3>1, First DEF Sound, FailedIsFirst, QueuedIn
    <3> QED
      BY <2>1, <3>1, <3>2
  <2>2. CASE PENDING \cap e.state[s] # {}
    BY <2>2, RemoveFromFIFOs DEF TakenOut
  <2> QED
    BY <2>1, <2>2
<1>2. f = [r EXCEPT !.owed = r.owed \ {s}]
  BY DEF DeletedServer
<1> HIDE DEF r
<1>3. /\ f \in Engine /\ f.query = r.query /\ f.pending = r.pending /\ f.due = r.due
      /\ f.owed = r.owed \ {s} /\ f.state = r.state /\ f.failed = r.failed
  <2> DEFINE ow == r.owed \ {s}
  <2>1. r \in Engine /\ ow \in SUBSET Servers
    BY <1>1 DEF Sound, Engine
  <2>2. f = [r EXCEPT !.owed = ow]
    BY <1>2
  <2> HIDE DEF ow
  <2>3. /\ f \in Engine /\ f.query = r.query /\ f.pending = r.pending /\ f.due = r.due
        /\ f.owed = ow /\ f.state = r.state /\ f.failed = r.failed
    BY <2>1, <2>2 DEF Engine
  <2> QED
    BY <2>3 DEF ow
<1>4. QueuedIn(f) = QueuedIn(e) \ {s} /\ QueuedIn(f) = QueuedIn(r)
  BY <1>1, <1>3 DEF QueuedIn
<1>5. Sound(f, l \ {s})
  BY <1>1, <1>3, <1>4 DEF Sound, FailedIsFirst
<1> QED
  BY <1>1, <1>3, <1>4, <1>5 DEF Forgotten

(* The state of a server that is in no FIFO changes. *)
LEMMA StateSet ==
    ASSUME NEW l, NEW e, Sound(e, l), NEW s \in Servers, s \notin QueuedIn(e),
           NEW st \in SUBSET StateBit, NEW ow \in SUBSET Servers,
           NEW f, f = [e EXCEPT !.state[s] = st, !.owed = ow]
    PROVE  Sound(f, l) /\ Rewritten(e, s, st, ow, f)
<1> DEFINE new == [e.state EXCEPT ![s] = st]
<1>1. e \in Engine /\ new \in [Servers -> SUBSET StateBit]
  BY DEF Sound, Engine
<1>2. f = [e EXCEPT !.state = new, !.owed = ow]
  BY <1>1 DEF Engine
<1>3. new[s] = st /\ \A t \in Servers \ {s} : new[t] = e.state[t]
  BY <1>1 DEF Engine
<1> HIDE DEF new
<1>4. /\ f \in Engine /\ f.query = e.query /\ f.pending = e.pending /\ f.due = e.due
      /\ f.owed = ow /\ f.state = new /\ f.failed = e.failed
  BY <1>1, <1>2 DEF Engine
<1>5. \A t \in QueuedIn(f) : PENDING \cap f.state[t] # {}
  BY <1>3, <1>4 DEF Sound, QueuedIn
<1> QED
  BY <1>3, <1>4, <1>5 DEF Sound, QueuedIn, FailedIsFirst, Rewritten

LEMMA SoundInMore ==
    ASSUME NEW l, NEW e, Sound(e, l), NEW m \in SUBSET Servers, l \subseteq m
    PROVE  Sound(e, m)
BY DEF Sound

(* The first reply of a server that was asked for the challenge starts the *)
(* query for its keys unless it is empty, any other ends the query.        *)
LEMMA Replied ==
    ASSUME NEW l, NEW e, Sound(e, l), e.failed = {}, NEW s \in ToSet(e.query),
           NEW empty, NEW f, f = ParseSingleQR2Reply(e, s, empty)
    PROVE  /\ Sound(f, l) /\ f.failed = {}
           /\ \/ QueuedIn(f) = QueuedIn(e) /\ f.owed = e.owed
              \/ QueuedIn(f) = QueuedIn(e) \ {s} /\ f.owed = e.owed \ {s}
<1> DEFINE r == [e EXCEPT !.query = FIFORemove(@, s), !.due = @ \ {s}]
<1>1. e \in Engine /\ s \in Servers /\ s \in QueuedIn(e) /\ s \in l
  BY Members DEF Sound, QueuedIn, Distinct
<1>2. r = SBQueryEngineRemoveServerFromFIFOs(e, s)
  <2>1. Contains(e.query, s)
    BY Members DEF Sound, Distinct, Contains
  <2>2. e.failed \ {s} = e.failed
    OBVIOUS
  <2>3. SBQueryEngineRemoveServerFromFIFOs(e, s)
          = [e EXCEPT !.query = FIFORemove(e.query, s), !.due = e.due \ {s},
                      !.failed = e.failed \ {s}]
    BY <2>1 DEF SBQueryEngineRemoveServerFromFIFOs
  <2>4. [e EXCEPT !.query = FIFORemove(e.query, s), !.due = e.due \ {s},
                  !.failed = e.failed]
          = [e EXCEPT !.query = FIFORemove(e.query, s), !.due = e.due \ {s}]
    BY <1>1 DEF Engine
  <2> QED
    BY <2>2, <2>3, <2>4
<1> HIDE DEF r
<1>3. Sound(r, l) /\ TakenOut(e, s, r)
  BY <1>2, RemoveFromFIFOs
<1>4. /\ s \notin QueuedIn(r) /\ r.state = e.state /\ r.owed = e.owed /\ r \in Engine
      /\ Len(r.query) = Len(e.query) - 1 /\ QueuedIn(r) = QueuedIn(e) \ {s}
      /\ r.state[s] \in SUBSET StateBit /\ r.owed \in SUBSET Servers /\ r.failed = {}
  BY <1>1, <1>3 DEF TakenOut, Sound, Engine
<1>5. CASE "pendingchallenge" \in e.state[s] /\ ~empty
  <2> DEFINE st == r.state[s] \ {"pendingchallenge"}
             g == [r EXCEPT !.state[s] = st, !.owed = r.owed]
             one == <<s>>
  <2>1. f = QEStartQueries(g, one)
    <3>1. f = QEStartQuery([r EXCEPT !.state[s] = @ \ {"pendingchallenge"}], s)
      BY <1>5 DEF ParseSingleQR2Reply, r
    <3>2. g = [r EXCEPT !.state[s] = @ \ {"pendingchallenge"}]
      BY <1>4 DEF Engine
    <3> QED
      BY <3>1, <3>2 DEF QEStartQuery
  <2>2. st \in SUBSET StateBit /\ PENDING \cap st # {}
    BY <1>1, <1>4 DEF Sound, PENDING
  <2>3. one \in Seq(Servers) /\ Len(one) = 1 /\ ToSet(one) = {s} /\ Distinct(one)
    BY <1>1, One
  <2> HIDE DEF st, one
  <2>4. /\ Sound(g, l) /\ g.query = r.query /\ g.pending = r.pending /\ g.owed = r.owed
        /\ g.state[s] = st /\ g.failed = {}
    <3>1. g = [r EXCEPT !.state[s] = st, !.owed = r.owed]
      OBVIOUS
    <3> HIDE DEF g
    <3>2. Sound(g, l) /\ Rewritten(r, s, st, r.owed, g)
      BY <1>1, <1>3, <1>4, <2>2, <3>1, StateSet
    <3> QED
      BY <1>4, <3>2 DEF Rewritten
  <2> HIDE DEF g
  <2>5. QueuedIn(g) = QueuedIn(r)
    BY <2>4 DEF QueuedIn
  <2>6. MayStart(g, one, l)
    <3>1. Len(g.query) + Len(one) <= maxupdates
      <4>1. Len(e.query) \in Nat /\ Len(e.query) <= maxupdates
        BY Members DEF Sound, Distinct
      <4> QED
        BY <1>4, <2>3, <2>4, <4>1, Limit
    <3>2. ToSet(one) \subseteq l \ QueuedIn(g)
      BY <1>1, <1>4, <2>3, <2>5
    <3>3. \A t \in ToSet(one) : PENDING \cap g.state[t] # {}
      BY <2>2, <2>3, <2>4
    <3> QED
      BY <3>1, <3>2, <3>3 DEF MayStart
  <2>7. Sound(f, l) /\ Started(g, one, f)
    BY <2>1, <2>3, <2>4, <2>6, StartQueries
  <2>8. QueuedIn(f) = QueuedIn(e) /\ f.owed = e.owed /\ f.failed = {}
    BY <1>1, <1>4, <2>3, <2>4, <2>5, <2>7 DEF Started
  <2> QED
    BY <2>7, <2>8
<1>6. CASE ~("pendingchallenge" \in e.state[s] /\ ~empty)
  <2> DEFINE st == {}
             ow == r.owed \ {s}
             g == [r EXCEPT !.state[s] = st, !.owed = ow]
  <2>1. f = g
    <3>1. f = [r EXCEPT !.state[s] = {}, !.owed = @ \ {s}]
      BY <1>6 DEF ParseSingleQR2Reply, r
    <3> QED
      BY <1>4, <3>1 DEF Engine
  <2>2. st \in SUBSET StateBit /\ ow \in SUBSET Servers
    BY <1>4
  <2>3. ow = e.owed \ {s}
    BY <1>4
  <2> HIDE DEF st, ow
  <2>4. /\ Sound(g, l) /\ g.query = r.query /\ g.pending = r.pending /\ g.owed = ow
        /\ g.failed = {}
    <3>1. g = [r EXCEPT !.state[s] = st, !.owed = ow]
      OBVIOUS
    <3> HIDE DEF g
    <3>2. Sound(g, l) /\ Rewritten(r, s, st, ow, g)
      BY <1>1, <1>3, <1>4, <2>2, <3>1, StateSet
    <3> QED
      BY <1>4, <3>2 DEF Rewritten
  <2> HIDE DEF g
  <2>5. QueuedIn(g) = QueuedIn(r)
    BY <2>4 DEF QueuedIn
  <2>6. Sound(f, l) /\ f.failed = {}
    BY <2>1, <2>4
  <2>7. QueuedIn(f) = QueuedIn(e) \ {s} /\ f.owed = e.owed \ {s}
    BY <1>4, <2>1, <2>3, <2>4, <2>5
  <2> QED
    BY <2>6, <2>7
<1> QED
  BY <1>5, <1>6

(* The first outstanding query is taken off after the callback for the     *)
(* failed one, and is owed no more.                                        *)
LEMMA Failed ==
    ASSUME NEW l, NEW e, Sound(e, l), Owes(e), NEW f, f = FailedServer(e)
    PROVE  Sound(f, l) /\ Owes(f) /\ f.failed = {}
<1>1. CASE e.query = <<>>
  BY <1>1 DEF FailedServer, Sound, FailedIsFirst
<1>2. CASE e.query # <<>>
  <2> DEFINE h == Head(e.query)
             tl == Tail(e.query)
             rest == e.due \ {h}
             ow == IF e.failed = {} THEN e.owed \ {h} ELSE e.owed
  <2>1. e \in Engine /\ Distinct(e.query) /\ Len(e.query) \in Nat /\ Len(e.query) <= maxupdates
    BY Members DEF Sound, Distinct
  <2>2. f = [e EXCEPT !.query = tl, !.due = rest, !.failed = {}, !.owed = ow]
    BY <1>2 DEF FailedServer
  <2>3. /\ Distinct(tl) /\ ToSet(tl) = ToSet(e.query) \ {h} /\ h \in ToSet(e.query)
        /\ Len(tl) = Len(e.query) - 1
    BY <1>2, <2>1, First
  <2>4. rest \subseteq ToSet(tl) /\ rest \in SUBSET Servers /\ ow \in SUBSET Servers
    BY <2>1, <2>3 DEF Sound, Engine
  <2>5. ow = (QueuedIn(e) \ e.failed) \ {h} /\ (e.failed = {} \/ e.failed = {h})
    BY DEF Owes, Sound, FailedIsFirst
  <2> HIDE DEF h, tl, rest, ow
  <2>6. /\ f \in Engine /\ f.query = tl /\ f.due = rest /\ f.pending = e.pending
        /\ f.state = e.state /\ f.owed = ow /\ f.failed = {}
    BY <2>1, <2>2, <2>3, <2>4 DEF Engine, Distinct
  <2>7. QueuedIn(f) = QueuedIn(e) \ {h}
    BY <2>3, <2>6 DEF QueuedIn, Sound
  <2>8. Len(tl) <= maxupdates
    BY <2>1, <2>3, Limit
  <2>9. Sound(f, l)
    BY <2>3, <2>4, <2>6, <2>7, <2>8 DEF Sound, FailedIsFirst
  <2>10. Owes(f)
    BY <2>5, <2>6, <2>7 DEF Owes
  <2> QED
    BY <2>6, <2>9, <2>10
<1> QED
  BY <1>1, <1>2

(* No query is left. *)
States == [Servers -> SUBSET StateBit]
Halting(e, st) == [SBEngineHaltUpdates(e) EXCEPT !.state = st]

LEMMA Halted ==
    ASSUME NEW l, NEW e, Sound(e, l), NEW m \in SUBSET Servers,
           NEW st \in States, NEW f, f = Halting(e, st)
    PROVE  /\ Sound(f, m) /\ Owes(f) /\ f.failed = {}
           /\ f.query = <<>> /\ f.pending = <<>>
<1>1. /\ f = [e EXCEPT !.query = <<>>, !.pending = <<>>, !.due = {}, !.owed = {},
                       !.failed = {}, !.state = st]
      /\ e \in Engine
  BY DEF Halting, States, SBEngineHaltUpdates, Sound, Engine
<1>2. /\ f \in Engine /\ f.query = <<>> /\ f.pending = <<>> /\ f.due = {}
      /\ f.owed = {} /\ f.failed = {}
  BY <1>1, Empty DEF Engine, States
<1>3. QueuedIn(f) = {} /\ Distinct(f.query) /\ Distinct(f.pending)
  BY <1>2, Empty DEF QueuedIn
<1>4. Len(f.query) = 0 /\ ToSet(f.query) = {}
  BY <1>2, Empty
<1>5. Sound(f, m)
  BY <1>2, <1>3, <1>4, Limit DEF Sound, FailedIsFirst
<1> QED
  BY <1>2, <1>3, <1>5 DEF Owes

LEMMA Smaller ==
    ASSUME NEW m \in Nat, NEW k \in 0..m, NEW p \in Nat,
           NEW n, n = IF p < m - k THEN p ELSE m - k
    PROVE  n \in 0..p /\ k + n <= m /\ (n = p \/ k + n = m)
<1>1. CASE p < m - k
  BY <1>1
<1>2. CASE ~(p < m - k)
  BY <1>2
<1> QED
  BY <1>1, <1>2

(* The next queries are started: all there are, or as many as the limit    *)
(* allows.                                                                 *)
LEMMA NextQueries ==
    ASSUME NEW l, NEW e, Sound(e, l), NEW f, f = QueueNextQueries(e)
    PROVE  /\ Sound(f, l) /\ QueuedIn(f) = QueuedIn(e) /\ f.owed = e.owed
           /\ f.failed = e.failed
           /\ f.query = <<>> => f.pending = <<>>
<1> DEFINE free == maxupdates - Len(e.query)
           n == IF Len(e.pending) < free THEN Len(e.pending) ELSE free
           a == SubSeq(e.pending, 1, n)
           b == SubSeq(e.pending, n + 1, Len(e.pending))
           g == [e EXCEPT !.pending = b]
<1>1. /\ e \in Engine /\ e.query \in Seq(Servers) /\ e.pending \in Seq(Servers)
      /\ Len(e.query) \in Nat /\ Len(e.pending) \in Nat
  BY Members DEF Sound, Distinct
<1>2. /\ n \in 0..Len(e.pending) /\ Len(e.query) + n <= maxupdates
      /\ n = Len(e.pending) \/ Len(e.query) + n = maxupdates
  <2> DEFINE k == Len(e.query)
             p == Len(e.pending)
  <2>1. k \in 0..maxupdates /\ p \in Nat
    BY <1>1, Limit DEF Sound
  <2>2. n = IF p < maxupdates - k THEN p ELSE maxupdates - k
    OBVIOUS
  <2> HIDE DEF n, k, p
  <2>3. n \in 0..p /\ k + n <= maxupdates /\ (n = p \/ k + n = maxupdates)
    BY <2>1, <2>2, Limit, Smaller
  <2> QED
    BY <2>3 DEF k, p
<1>3. f = QEStartQueries(g, a)
  BY DEF QueueNextQueries
<1> HIDE DEF n
<1>4. /\ a \in Seq(Servers) /\ Len(a) = n /\ b \in Seq(Servers)
      /\ Len(b) = Len(e.pending) - n /\ a \o b = e.pending
  BY <1>1, <1>2, Cut
<1> HIDE DEF a, b
<1>5. /\ Distinct(a) /\ Distinct(b) /\ ToSet(a) \cap ToSet(b) = {}
      /\ ToSet(e.pending) = ToSet(a) \cup ToSet(b)
  <2>1. Distinct(a \o b) /\ ToSet(a \o b) = ToSet(e.pending)
    BY <1>4 DEF Sound
  <2> QED
    BY <1>4, <2>1, Concat
<1>6. /\ g \in Engine /\ g.query = e.query /\ g.pending = b /\ g.due = e.due
      /\ g.state = e.state /\ g.owed = e.owed /\ g.failed = e.failed
  BY <1>1, <1>4 DEF Engine
<1> HIDE DEF g
<1>7. QueuedIn(g) = QueuedIn(e) \ ToSet(a) /\ ToSet(a) \subseteq QueuedIn(e)
  BY <1>5, <1>6 DEF QueuedIn, Sound
<1>8. Sound(g, l)
  BY <1>5, <1>6, <1>7 DEF Sound, FailedIsFirst
<1>9. MayStart(g, a, l)
  <2>1. Len(g.query) + Len(a) <= maxupdates
    BY <1>2, <1>4, <1>6
  <2>2. \A s \in ToSet(a) : PENDING \cap g.state[s] # {}
    BY <1>6, <1>7 DEF Sound
  <2>3. ToSet(a) \subseteq l \ QueuedIn(g)
    BY <1>7 DEF Sound
  <2> QED
    BY <2>1, <2>2, <2>3 DEF MayStart
<1>10. Sound(f, l) /\ Started(g, a, f)
  BY <1>3, <1>5, <1>8, <1>9, StartQueries
<1>11. ASSUME f.query = <<>> PROVE f.pending = <<>>
  <2>1. f.query = e.query \o a /\ f.pending = b
    BY <1>6, <1>10 DEF Started
  <2>2. Len(e.query \o a) = Len(e.query) + Len(a)
    BY <1>1, <1>4, Concat
  <2>3. Len(e.query) = 0 /\ n = 0
    BY <1>1, <1>2, <1>4, <1>11, <2>1, <2>2
  <2>4. Len(b) = 0
    BY <1>1, <1>2, <1>4, <2>3, Limit
  <2> QED
    BY <1>4, <2>1, <2>4, Members
<1> QED
  BY <1>6, <1>7, <1>10, <1>11 DEF Started

-----------------------------------------------------------------------------
(* The browser.                                                            *)

(* The servers of the list that are not being deleted. *)
Known == ToSet(list) \ DeletingIn(callbacks)

(* The application is being told of a failed query. *)
FailingIn(k) == \E c \in ToSet(k) : c.where = "infailed"

(* The inductive invariant. *)
Inv ==
    /\ Sound(engine, Known) /\ Owes(engine)
    /\ FramesSound(callbacks, list)
    /\ engine.failed # {} => FailingIn(callbacks)
    /\ FailingIn(callbacks) => think = "timeouts"
    /\ dontUpdate \in BOOLEAN /\ calls \in 0..MaxCalls
    /\ think \in {"out", "replies", "timeouts", "list"}

(* The step leaves queries stranded by a removal only. *)
Kept == ~Stranded /\ Stranded' => \E s \in Servers : SBServerListRemoveAt(s)

Good == Inv' /\ Kept

LEMMA InvImplies == Inv => TypeOK /\ FifosSound /\ OwedIsQueued
<1> SUFFICES ASSUME Inv PROVE TypeOK /\ FifosSound /\ OwedIsQueued
  OBVIOUS
<1>1. TypeOK
  BY DEF Inv, Sound, FramesSound, Distinct, TypeOK
<1>2. FifosSound
  <2>1. engine.query \in Seq(Servers) /\ engine.pending \in Seq(Servers)
    BY DEF Inv, Sound, Distinct
  <2>2. Distinct(engine.query \o engine.pending)
    BY <2>1, Concat DEF Inv, Sound
  <2>3. Known = ToSet(list) \ {c.server : c \in Open("indeleted")}
    BY DEF Known, DeletingIn, Open
  <2>4. Queued = QueuedIn(engine)
    BY DEF Queued, QueuedIn
  <2>5. Queued \subseteq Known /\ \A s \in Queued : PENDING \cap engine.state[s] # {}
    BY <2>4 DEF Inv, Sound
  <2> QED
    BY <2>2, <2>3, <2>5 DEF FifosSound, Distinct
<1>3. OwedIsQueued
  BY DEF Inv, Owes, QueuedIn, OwedIsQueued, Queued
<1> QED
  BY <1>1, <1>2, <1>3

LEMMA NoFrame ==
    ASSUME NEW k, k = <<>>
    PROVE  k \in Seq(Frame) /\ Len(k) = 0 /\ ToSet(k) = {} /\ DeletingIn(k) = {}
<1>1. k \in Seq(Frame) /\ Len(k) = 0
  BY EmptySeq
<1>2. ASSUME NEW c \in ToSet(k) PROVE FALSE
  <2>1. PICK i \in 1..Len(k) : k[i] = c
    BY <1>1, Frames
  <2> QED
    BY <1>1
<1> QED
  BY <1>1, <1>2 DEF DeletingIn

LEMMA InitInv == Init => Inv
<1> SUFFICES ASSUME Init PROVE Inv
  OBVIOUS
<1>1. engine \in Engine
  BY Empty DEF Init, Engine
<1>2. /\ engine.query = <<>> /\ engine.pending = <<>> /\ engine.due = {}
      /\ engine.owed = {} /\ engine.failed = {}
  BY DEF Init
<1>3. QueuedIn(engine) = {}
  BY <1>2, Empty DEF QueuedIn
<1>4. callbacks = <<>> /\ list = <<>> /\ Known = {}
  BY Empty DEF Init, Known
<1>5. Sound(engine, Known)
  <2>1. Distinct(engine.query) /\ Distinct(engine.pending) /\ Len(engine.query) = 0
    BY <1>2, Empty
  <2>2. ToSet(engine.query) \cap ToSet(engine.pending) = {}
    BY <1>2, Empty
  <2> QED
    BY <1>1, <1>2, <1>3, <1>4, <2>1, <2>2, Limit DEF Sound, FailedIsFirst
<1>6. FramesSound(callbacks, list) /\ ~FailingIn(callbacks)
  BY <1>4, Empty, NoFrame DEF FramesSound, FailingIn
<1>7. 0 \in 0..MaxCalls
  BY Limit
<1> QED
  BY <1>2, <1>3, <1>5, <1>6, <1>7 DEF Init, Inv, Owes

(* A callback begins: a failed query is still being told of. *)
LEMMA FailingPush ==
    ASSUME NEW k \in Seq(Frame), NEW c \in Frame, NEW n, n = <<c>> \o k
    PROVE  /\ FailingIn(k) => FailingIn(n)
           /\ FailingIn(n) => FailingIn(k) \/ c.where = "infailed"
<1>1. ToSet(n) = ToSet(k) \cup {c}
  BY Push DEF Pushed
<1> QED
  BY <1>1 DEF FailingIn

LEMMA FailingPop ==
    ASSUME NEW k \in Seq(Frame), k # <<>>, NEW n, n = Tail(k)
    PROVE  /\ FailingIn(n) => FailingIn(k)
           /\ FailingIn(k) => FailingIn(n) \/ Head(k).where = "infailed"
<1>1. ToSet(k) = ToSet(n) \cup {Head(k)}
  BY Pop
<1> QED
  BY <1>1 DEF FailingIn

(* A step of the engine alone. *)
LEMMA EngineStep ==
    ASSUME Inv, UNCHANGED <<list, callbacks>>, Sound(engine', Known), Owes(engine'),
           engine'.failed \subseteq engine.failed, dontUpdate' \in BOOLEAN,
           calls' \in 0..MaxCalls, think' \in {"out", "replies", "timeouts", "list"},
           FailingIn(callbacks) => think' = "timeouts",
           ~Stranded /\ Stranded' => \E s \in Servers : SBServerListRemoveAt(s)
    PROVE  Good
<1>1. Known' = Known /\ list' = list /\ callbacks' = callbacks
  BY DEF Known
<1>2. Inv'
  BY <1>1 DEF Inv
<1> QED
  BY <1>2 DEF Good, Kept

-----------------------------------------------------------------------------
(* The application's calls.                                                *)

(* The removal of a server that is not being deleted, whose place is       *)
(* behind those that are.                                                  *)
LEMMA RemoveAtStep ==
    ASSUME Inv, NEW s \in ToSet(list), SBServerListRemoveAt(s),
           \A c \in Open("indeleted") : ~(SBServerListFindServer(s) <= c.index),
           s \notin {c.server : c \in Open("inadded")}
    PROVE  Good
<1> DEFINE p == SBServerListFindServer(s)
           c == Callback("indeleted", s, p)
<1>1. /\ engine' = DeletedServer(engine, s) /\ callbacks' = <<c>> \o callbacks
      /\ list' = list /\ dontUpdate' = dontUpdate /\ think' = think /\ calls' = calls
  BY DEF SBServerListRemoveAt
<1>2. /\ Distinct(list) /\ callbacks \in Seq(Frame) /\ Len(list) \in Nat /\ s \in Servers
  BY Members DEF Inv, FramesSound, Distinct
<1>3. p \in 1..Len(list) /\ list[p] = s
  BY <1>2, Found DEF SBServerListFindServer
<1> HIDE DEF p
<1>4. \A i \in 1..Len(callbacks) : callbacks[i].where = "indeleted" => callbacks[i].index < p
  <2> SUFFICES ASSUME NEW i \in 1..Len(callbacks), callbacks[i].where = "indeleted"
               PROVE  callbacks[i].index < p
    OBVIOUS
  <2>1. callbacks[i] \in Open("indeleted") /\ callbacks[i].index \in 1..Len(list)
    BY <1>2, Frames DEF Open, Inv, FramesSound
  <2>2. ~(p <= callbacks[i].index)
    BY <2>1 DEF p
  <2> QED
    BY <1>2, <1>3, <2>1, <2>2
<1>5. \A i \in 1..Len(callbacks) : callbacks[i].where = "inadded" => callbacks[i].server # s
  BY <1>2, Frames DEF Open
<1>6. FramesSound(callbacks', list) /\ DeletingIn(callbacks') = DeletingIn(callbacks) \cup {s}
  <2>1. callbacks' = <<Callback("indeleted", list[p], p)>> \o callbacks
    BY <1>1, <1>3
  <2>2. \A i \in 1..Len(callbacks) : callbacks[i].where = "inadded"
          => callbacks[i].server # list[p]
    BY <1>3, <1>5
  <2>3. /\ FramesSound(callbacks', list)
        /\ DeletingIn(callbacks') = DeletingIn(callbacks) \cup {list[p]}
    BY <1>3, <1>4, <2>1, <2>2, FramesDelete DEF Inv
  <2> QED
    BY <1>3, <2>3
<1>7. Known' = Known \ {s}
  BY <1>1, <1>6 DEF Known
<1>8. Sound(engine', Known') /\ Forgotten(engine, s, engine')
  BY <1>1, <1>2, <1>7, Deleted DEF Inv
<1>9. Owes(engine')
  BY <1>8 DEF Inv, Owes, Forgotten
<1>10. c \in Frame /\ c.where = "indeleted"
  BY <1>2, <1>3 DEF Callback, Frame
<1> HIDE DEF c
<1>11. FailingIn(callbacks') <=> FailingIn(callbacks)
  BY <1>1, <1>2, <1>10, FailingPush
<1>12. engine'.failed # {} => FailingIn(callbacks')
  BY <1>8, <1>11 DEF Inv, Forgotten
<1>13. Inv'
  BY <1>1, <1>6, <1>8, <1>9, <1>11, <1>12 DEF Inv
<1> QED
  BY <1>2, <1>13 DEF Good, Kept

LEMMA RemoveServerStep ==
    ASSUME Reentry = {}, Inv, NEW s, ServerBrowserRemoveServer(s) PROVE Good
<1>1. /\ s \in ToSet(list) /\ SBServerListRemoveAt(s)
      /\ s \notin {c.server : c \in Open("inadded")}
      /\ \A c \in Open("indeleted") : ~(SBServerListFindServer(s) <= c.index)
  BY DEF ServerBrowserRemoveServer, MayRemove
<1> QED
  BY <1>1, RemoveAtStep

(* What the application may query is not being deleted. *)
LEMMA UpdatedIsKnown ==
    ASSUME Reentry = {}, Inv, NEW s, MayUpdate(s) PROVE s \in Known
BY DEF MayUpdate, Known, DeletingIn, Open

LEMMA AuxUpdateServerStep ==
    ASSUME Reentry = {}, Inv, NEW s \in Servers, NEW q \in PENDING,
           ServerBrowserAuxUpdateServer(s, q)
    PROVE  Good
<1> DEFINE r == SBQueryEngineRemoveServerFromFIFOs(engine, s)
<1>1. /\ s \in Known /\ engine' = SBQueryEngineUpdateServer(r, s, TRUE, q)
      /\ UNCHANGED <<list, think, callbacks>>
      /\ dontUpdate' = FALSE /\ calls < MaxCalls /\ calls' = calls + 1
  BY UpdatedIsKnown DEF ServerBrowserAuxUpdateServer
<1>2. Sound(r, Known) /\ TakenOut(engine, s, r)
  BY RemoveFromFIFOs DEF Inv
<1> HIDE DEF r
<1>3. s \notin QueuedIn(r)
  BY <1>2 DEF TakenOut
<1>4. Sound(engine', Known) /\ Queried(r, s, engine')
  BY <1>1, <1>2, <1>3, UpdateServer
<1>5. Owes(engine') /\ engine'.failed \subseteq engine.failed /\ engine'.query # <<>>
  BY <1>2, <1>4 DEF Inv, Owes, TakenOut, Queried
<1>6. calls' \in 0..MaxCalls
  BY <1>1, Limit DEF Inv
<1>7. ~Stranded'
  BY <1>5 DEF Stranded
<1> QED
  BY <1>1, <1>4, <1>5, <1>6, <1>7, EngineStep DEF Inv

(* A query of a server that had none leaves the engine as it should be.    *)
LEMMA OwesQueried ==
    ASSUME NEW l, NEW e, Sound(e, l), Owes(e), NEW s, s \notin QueuedIn(e),
           NEW f, Queried(e, s, f)
    PROVE  Owes(f) /\ f.failed = e.failed /\ f.query # <<>>
<1>1. e.failed \subseteq QueuedIn(e)
  BY First DEF Sound, FailedIsFirst, QueuedIn
<1> QED
  BY <1>1 DEF Owes, Queried

LEMMA AuxUpdateNewIPStep ==
    ASSUME Inv, NEW s \in Servers, NEW q \in PENDING, AuxUpdateNewIP(s, q)
    PROVE  Good
<1> DEFINE c == Callback("innew", s, 0)
<1>1. /\ s \notin ToSet(list) /\ engine' = SBQueryEngineUpdateServer(engine, s, TRUE, q)
      /\ list' = Append(list, s) /\ callbacks' = <<c>> \o callbacks
      /\ dontUpdate' = TRUE /\ calls < MaxCalls /\ calls' = calls + 1 /\ think' = think
  BY DEF AuxUpdateNewIP, Fresh, SBServerListAppendServer
<1>2. c \in Frame /\ c.where = "innew"
  BY DEF Callback, Frame
<1> HIDE DEF c
<1>3. /\ FramesSound(callbacks, list') /\ ToSet(list') = ToSet(list) \cup {s}
      /\ s \notin DeletingIn(callbacks)
  BY <1>1, FramesAppend DEF Inv
<1>4. FramesSound(callbacks', list') /\ DeletingIn(callbacks') = DeletingIn(callbacks)
  BY <1>1, <1>2, <1>3, FramesPush
<1>5. Known' = Known \cup {s}
  BY <1>3, <1>4 DEF Known
<1>6. s \notin QueuedIn(engine) /\ Known' \in SUBSET Servers
  BY <1>1, <1>5 DEF Inv, Sound, Known
<1>7. Sound(engine, Known')
  BY <1>5, <1>6, SoundInMore DEF Inv
<1>8. Sound(engine', Known') /\ Queried(engine, s, engine')
  BY <1>1, <1>5, <1>6, <1>7, UpdateServer
<1>9. Owes(engine') /\ engine'.failed = engine.failed /\ engine'.query # <<>>
  BY <1>6, <1>8, OwesQueried DEF Inv
<1>10. FailingIn(callbacks') <=> FailingIn(callbacks)
  BY <1>1, <1>2, FailingPush DEF Inv, FramesSound
<1>11. calls' \in 0..MaxCalls
  BY <1>1, Limit DEF Inv
<1>12. Inv'
  BY <1>1, <1>4, <1>8, <1>9, <1>10, <1>11 DEF Inv
<1> QED
  BY <1>9, <1>12 DEF Good, Kept, Stranded

LEMMA AuxUpdateKnownIPStep ==
    ASSUME Reentry = {}, Inv, NEW s \in Servers, NEW q \in PENDING, AuxUpdateKnownIP(s, q)
    PROVE  Good
<1>1. /\ UNCHANGED <<list, think, callbacks>>
      /\ calls < MaxCalls /\ calls' = calls + 1 /\ dontUpdate' \in BOOLEAN
  BY DEF AuxUpdateKnownIP
<1>2. calls' \in 0..MaxCalls
  BY <1>1, Limit DEF Inv
<1>3. CASE PENDING \cap engine.state[s] # {}
  <2>1. engine' = engine
    BY <1>3 DEF AuxUpdateKnownIP
  <2>2. Stranded' = Stranded
    BY <1>1, <2>1 DEF Stranded
  <2> QED
    BY <1>1, <1>2, <2>1, <2>2, EngineStep DEF Inv
<1>4. CASE PENDING \cap engine.state[s] = {}
  <2>1. engine' = SBQueryEngineUpdateServer(engine, s, TRUE, q) /\ s \in Known
    BY <1>4, UpdatedIsKnown DEF AuxUpdateKnownIP
  <2>2. s \notin QueuedIn(engine)
    BY <1>4 DEF Inv, Sound
  <2>3. Sound(engine', Known) /\ Queried(engine, s, engine')
    BY <2>1, <2>2, UpdateServer DEF Inv
  <2>4. Owes(engine') /\ engine'.failed = engine.failed /\ engine'.query # <<>>
    BY <2>2, <2>3, OwesQueried DEF Inv
  <2>5. ~Stranded'
    BY <2>4 DEF Stranded
  <2> QED
    BY <1>1, <1>2, <2>3, <2>4, <2>5, EngineStep DEF Inv
<1> QED
  BY <1>3, <1>4

LEMMA HaltStep ==
    ASSUME Inv, ServerBrowserHalt PROVE Good
<1>1. /\ engine' = SBEngineHaltUpdates(engine)
      /\ UNCHANGED <<list, dontUpdate, think, callbacks, calls>>
  BY DEF ServerBrowserHalt
<1>2. /\ engine.state \in States /\ Known \in SUBSET Servers
      /\ engine' = Halting(engine, engine.state)
  BY <1>1 DEF Halting, States, SBEngineHaltUpdates, Inv, Sound, Engine
<1>3. /\ Sound(engine', Known) /\ Owes(engine') /\ engine'.failed = {}
      /\ engine'.query = <<>> /\ engine'.pending = <<>>
  <2> DEFINE st == engine.state
             m == Known
  <2>1. st \in States /\ m \in SUBSET Servers /\ Sound(engine, m) /\ engine' = Halting(engine, st)
    BY <1>2 DEF Inv
  <2> HIDE DEF st, m
  <2>2. /\ Sound(engine', m) /\ Owes(engine') /\ engine'.failed = {}
        /\ engine'.query = <<>> /\ engine'.pending = <<>>
    BY <2>1, Halted
  <2> QED
    BY <2>2 DEF m
<1>4. ~Stranded'
  BY <1>3 DEF Stranded
<1> QED
  BY <1>1, <1>3, <1>4, EngineStep DEF Inv

LEMMA ClearStep ==
    ASSUME Inv, ServerBrowserClear PROVE Good
<1> DEFINE st == [s \in Servers |-> {}]
<1>1. /\ engine' = Halting(engine, st)
      /\ st \in States /\ list' = <<>>
      /\ callbacks = <<>> /\ UNCHANGED <<dontUpdate, think, callbacks, calls>>
  BY DEF ServerBrowserClear, Halting, States
<1> HIDE DEF st
<1>2. Known' = {}
  BY <1>1, Empty DEF Known
<1>3. /\ Sound(engine', {}) /\ Owes(engine') /\ engine'.failed = {}
      /\ engine'.query = <<>> /\ engine'.pending = <<>>
  <2>1. {} \in SUBSET Servers
    OBVIOUS
  <2> QED
    BY <1>1, <2>1, Halted DEF Inv
<1>4. FramesSound(callbacks', list')
  BY <1>1, Empty, NoFrame DEF FramesSound
<1>5. Inv'
  BY <1>1, <1>2, <1>3, <1>4 DEF Inv
<1> QED
  BY <1>3, <1>5 DEF Good, Kept, Stranded

LEMMA SortStep ==
    ASSUME Reentry = {}, Inv, ServerBrowserSort PROVE Good
<1>1. /\ Open("indeleted") = {}
      /\ UNCHANGED <<engine, dontUpdate, think, callbacks, calls>>
  BY DEF ServerBrowserSort
<1>2. PICK order \in Bijection(DOMAIN list, DOMAIN list) :
        list' = [i \in DOMAIN list |-> list[order[i]]]
  BY DEF ServerBrowserSort
<1>3. Distinct(list') /\ ToSet(list') = ToSet(list)
  <2>1. Distinct(list)
    BY DEF Inv, FramesSound
  <2> QED
    BY <1>2, <2>1, Reordered
<1>4. DeletingIn(callbacks) = {}
  BY <1>1 DEF Open, DeletingIn
<1>5. FramesSound(callbacks, list')
  BY <1>3, <1>4, FramesSorted DEF Inv
<1>6. Known' = Known
  BY <1>1, <1>3 DEF Known
<1>7. Inv'
  BY <1>1, <1>5, <1>6 DEF Inv
<1> QED
  BY <1>1, <1>7 DEF Good, Kept, Stranded

-----------------------------------------------------------------------------
(* The think.                                                              *)

(* No callback is open: the application is not being told of a failure.    *)
LEMMA NotFailing ==
    ASSUME Inv, callbacks = <<>>
    PROVE  engine.failed = {} /\ ~FailingIn(callbacks) /\ Open("indeleted") = {}
                              /\ Open("inadded") = {}
BY NoFrame DEF Inv, FailingIn, Open

(* A callback begins in which nothing is deleted or added.                 *)
LEMMA CallBackStep ==
    ASSUME Inv, NEW where \in {"inreply", "infailed"}, NEW s \in Servers,
           callbacks = <<>>, CallBack(where, s), where = "infailed" => think = "timeouts",
           think \notin {"out", "list"}, Sound(engine', Known), Owes(engine'),
           engine'.failed # {} => where = "infailed"
    PROVE  Good
<1> DEFINE c == Callback(where, s, 0)
<1>1. /\ callbacks' = <<c>> /\ UNCHANGED <<list, dontUpdate, think, calls>>
      /\ c \in Frame /\ c.where = where
  BY DEF CallBack, Callback, Frame
<1> HIDE DEF c
<1>2. callbacks \in Seq(Frame) /\ callbacks' = <<c>> \o callbacks
  <2>1. <<c>> \o <<>> = <<c>> /\ <<>> \in Seq(Frame)
    BY <1>1
  <2> QED
    BY <1>1, <2>1
<1>3. FramesSound(callbacks', list) /\ DeletingIn(callbacks') = DeletingIn(callbacks)
  BY <1>1, <1>2, FramesPush DEF Inv
<1>4. Known' = Known
  BY <1>1, <1>3 DEF Known
<1>5. FailingIn(callbacks') <=> where = "infailed"
  <2>1. c \in ToSet(callbacks')
    <3>1. Pushed(callbacks', callbacks, c)
      BY <1>1, <1>2, Push
    <3> QED
      BY <3>1 DEF Pushed
  <2>2. FailingIn(callbacks') => where = "infailed"
    BY <1>1, <1>2, FailingPush, NotFailing
  <2> QED
    BY <1>1, <2>1, <2>2 DEF FailingIn
<1>6. Inv'
  BY <1>1, <1>3, <1>4, <1>5 DEF Inv
<1> QED
  BY <1>1, <1>6 DEF Good, Kept, Stranded

LEMMA ReplyStep ==
    ASSUME Inv, NEW s \in Servers, ProcessIncomingReply(s) PROVE Good
<1>1. /\ think = "replies" /\ callbacks = <<>> /\ CallBack("inreply", s)
  BY DEF ProcessIncomingReply, GoesOn
<1>2. PICK empty : engine' = ParseSingleQR2Reply(engine, s, empty)
  BY Zenon DEF ProcessIncomingReply
<1>3. s \in ToSet(engine.query)
  BY Members DEF ProcessIncomingReply, Contains, Inv, Sound, Distinct
<1>4. engine.failed = {}
  BY <1>1, NotFailing
<1>5. /\ Sound(engine', Known) /\ engine'.failed = {}
      /\ \/ QueuedIn(engine') = QueuedIn(engine) /\ engine'.owed = engine.owed
         \/ /\ QueuedIn(engine') = QueuedIn(engine) \ {s}
            /\ engine'.owed = engine.owed \ {s}
  <2>1. Sound(engine, Known)
    BY DEF Inv
  <2> QED
    BY <1>2, <1>3, <1>4, <2>1, Replied
<1>6. Owes(engine')
  BY <1>4, <1>5 DEF Inv, Owes
<1> QED
  BY <1>1, <1>5, <1>6, CallBackStep

(* The application is told of the first outstanding query, and the query   *)
(* is owed no more; it is taken off after the callback.                    *)
LEMMA TimeoutStep ==
    ASSUME Inv, TimeoutOldQuery PROVE Good
<1> DEFINE h == Head(engine.query)
           ow == engine.owed \ {h}
<1>1. /\ think = "timeouts" /\ callbacks = <<>> /\ engine.query # <<>>
      /\ engine' = [engine EXCEPT !.owed = ow, !.failed = {h}] /\ CallBack("infailed", h)
  BY DEF TimeoutOldQuery, TimedOut, GoesOn
<1>2. engine \in Engine /\ ow \in SUBSET Servers /\ h \in Servers
  BY <1>1, First, Members DEF Inv, Sound, Engine, Distinct
<1>3. engine.failed = {}
  BY <1>1, NotFailing
<1> HIDE DEF ow, h
<1>4. /\ engine' \in Engine /\ engine'.query = engine.query
      /\ engine'.pending = engine.pending /\ engine'.due = engine.due
      /\ engine'.state = engine.state /\ engine'.owed = ow /\ engine'.failed = {h}
  BY <1>1, <1>2 DEF Engine
<1>5. QueuedIn(engine') = QueuedIn(engine)
  BY <1>4 DEF QueuedIn
<1>6. FailedIsFirst(engine')
  BY <1>1, <1>4 DEF FailedIsFirst, h
<1>7. Sound(engine', Known)
  BY <1>4, <1>5, <1>6 DEF Inv, Sound
<1>8. Owes(engine')
  BY <1>3, <1>4, <1>5 DEF Inv, Owes, ow
<1> QED
  BY <1>1, <1>2, <1>7, <1>8, CallBackStep

LEMMA EndTimeoutsStep ==
    ASSUME Inv, EndTimeouts PROVE Good
<1>1. /\ callbacks = <<>> /\ engine' = QueueNextQueries(engine) /\ think' = "list"
      /\ UNCHANGED <<list, dontUpdate, callbacks, calls>>
  BY DEF EndTimeouts, GoTo, GoesOn
<1>2. /\ Sound(engine', Known) /\ QueuedIn(engine') = QueuedIn(engine)
      /\ engine'.owed = engine.owed /\ engine'.failed = engine.failed
      /\ engine'.query = <<>> => engine'.pending = <<>>
  BY <1>1, NextQueries DEF Inv
<1>3. Owes(engine') /\ ~Stranded'
  BY <1>2 DEF Inv, Owes, Stranded
<1>4. ~FailingIn(callbacks)
  BY <1>1, NotFailing
<1> QED
  BY <1>1, <1>2, <1>3, <1>4, EngineStep DEF Inv

(* The think goes on where queries that wait are not stranded anew.        *)
LEMMA GoToStep ==
    ASSUME Inv, NEW next \in {"out", "replies", "timeouts", "list"}, callbacks = <<>>,
           GoTo(next), engine' = engine,
           \/ next \in {"replies", "timeouts"}
           \/ think \in {"out", "list"}
    PROVE  Good
<1>1. think' = next /\ UNCHANGED <<list, dontUpdate, callbacks, calls>>
  BY DEF GoTo
<1>2. Stranded' => Stranded
  BY <1>1 DEF Stranded
<1>3. ~FailingIn(callbacks)
  BY NotFailing
<1> QED
  BY <1>1, <1>2, <1>3, EngineStep DEF Inv

LEMMA AddServerStep ==
    ASSUME Inv, NEW s \in Servers, AddServer(s) PROVE Good
<1> DEFINE c == Callback("inadded", s, 0)
<1>1. /\ s \notin ToSet(list) /\ list' = Append(list, s) /\ callbacks' = <<c>> \o callbacks
      /\ UNCHANGED <<engine, dontUpdate, think, calls>>
  BY DEF AddServer, Fresh, SBServerListAppendServer
<1>2. c \in Frame /\ c.where = "inadded" /\ c.server = s
  BY DEF Callback, Frame
<1> HIDE DEF c
<1>3. /\ FramesSound(callbacks, list') /\ ToSet(list') = ToSet(list) \cup {s}
      /\ s \notin DeletingIn(callbacks)
  BY <1>1, FramesAppend DEF Inv
<1>4. FramesSound(callbacks', list') /\ DeletingIn(callbacks') = DeletingIn(callbacks)
  <2>1. c.server \in ToSet(list') \ DeletingIn(callbacks)
    BY <1>2, <1>3
  <2> QED
    BY <1>1, <1>2, <1>3, <2>1, FramesPush
<1>5. Known' = Known \cup {s} /\ Known' \in SUBSET Servers
  BY <1>3, <1>4 DEF Known, Inv, Sound
<1>6. Sound(engine, Known')
  BY <1>5, SoundInMore DEF Inv
<1>7. FailingIn(callbacks') <=> FailingIn(callbacks)
  BY <1>1, <1>2, FailingPush DEF Inv, FramesSound
<1>8. Inv'
  BY <1>1, <1>4, <1>6, <1>7 DEF Inv, Owes, QueuedIn
<1> QED
  BY <1>1, <1>8 DEF Good, Kept, Stranded

LEMMA DeleteServerStep ==
    ASSUME Inv, NEW s \in Servers, ProcessDeleteServer(s) PROVE Good
<1>1. /\ callbacks = <<>> /\ SBServerListRemoveAt(s) /\ FirstWithAddress(list, s)
  BY DEF ProcessDeleteServer, GoesOn
<1>2. s \in ToSet(list)
  BY <1>1, Members DEF FirstWithAddress, Inv, FramesSound, Distinct
<1> QED
  BY <1>1, <1>2, NotFailing, RemoveAtStep

(* A callback returns in which nothing was deleted.                        *)
LEMMA ReturnStep ==
    ASSUME Inv, callbacks # <<>>, callbacks' = Tail(callbacks),
           Head(callbacks).where # "indeleted",
           UNCHANGED <<list, dontUpdate, think, calls>>,
           Sound(engine', Known), Owes(engine'),
           engine'.failed \subseteq engine.failed,
           Head(callbacks).where = "infailed" => engine'.failed = {},
           FailingIn(callbacks) \/ (Stranded' => Stranded)
    PROVE  Good
<1>1. callbacks \in Seq(Frame)
  BY DEF Inv, FramesSound
<1>2. FramesSound(callbacks', list) /\ DeletingIn(callbacks') = DeletingIn(callbacks)
  BY FramesPop DEF Inv
<1>3. Known' = Known
  BY <1>2 DEF Known
<1>4. /\ FailingIn(callbacks') => FailingIn(callbacks)
      /\ FailingIn(callbacks) => FailingIn(callbacks') \/ Head(callbacks).where = "infailed"
  BY <1>1, FailingPop
<1>5. Inv'
  BY <1>2, <1>3, <1>4 DEF Inv
<1>6. Kept
  BY DEF Inv, Kept, Stranded
<1> QED
  BY <1>5, <1>6 DEF Good

LEMMA ReturnFailedStep ==
    ASSUME Inv, ReturnFrom("infailed"), UNCHANGED list, engine' = FailedServer(engine)
    PROVE  Good
<1>1. /\ callbacks # <<>> /\ callbacks' = Tail(callbacks)
      /\ Head(callbacks).where = "infailed" /\ UNCHANGED <<list, dontUpdate, think, calls>>
  BY DEF ReturnFrom
<1>2. Sound(engine', Known) /\ Owes(engine') /\ engine'.failed = {}
  BY Failed DEF Inv
<1>3. FailingIn(callbacks)
  <2>1. Head(callbacks) \in ToSet(callbacks)
    BY <1>1, Pop DEF Inv, FramesSound
  <2> QED
    BY <1>1, <2>1 DEF FailingIn
<1> QED
  BY <1>1, <1>2, <1>3, ReturnStep

(* The server has stayed in the list and is queried, unless it is already. *)
LEMMA ReturnAddedStep ==
    ASSUME Inv, ReturnFrom("inadded"), UNCHANGED list,
           engine' = AddedServer(engine, Head(callbacks).server)
    PROVE  Good
<1> DEFINE s == Head(callbacks).server
           qtype == IF numserverkeys = 0 THEN "pendingfull" ELSE "pendingbasic"
<1>1. /\ callbacks # <<>> /\ callbacks' = Tail(callbacks)
      /\ Head(callbacks).where = "inadded" /\ UNCHANGED <<list, dontUpdate, think, calls>>
  BY DEF ReturnFrom
<1>2. s \in Known
  <2>1. 1 \in 1..Len(callbacks) /\ Head(callbacks) = callbacks[1]
    BY <1>1, Pop DEF Inv, FramesSound
  <2> QED
    BY <1>1, <2>1 DEF Inv, FramesSound, Known
<1>3. \/ engine' = engine
      \/ /\ PENDING \cap engine.state[s] = {}
         /\ engine' = SBQueryEngineUpdateServer(engine, s, FALSE, qtype)
  BY DEF AddedServer
<1>4. qtype \in PENDING
  BY DEF PENDING
<1> HIDE DEF s, qtype
<1>5. CASE engine' = engine
  <2>1. Stranded' = Stranded
    BY <1>1, <1>5 DEF Stranded
  <2> QED
    BY <1>1, <1>5, <2>1, ReturnStep DEF Inv
<1>6. CASE /\ PENDING \cap engine.state[s] = {}
           /\ engine' = SBQueryEngineUpdateServer(engine, s, FALSE, qtype)
  <2>1. s \notin QueuedIn(engine)
    BY <1>6 DEF Inv, Sound
  <2>2. Sound(engine', Known) /\ Queried(engine, s, engine')
    BY <1>2, <1>4, <1>6, <2>1, UpdateServer DEF Inv
  <2>3. Owes(engine') /\ engine'.failed = engine.failed /\ engine'.query # <<>>
    BY <2>1, <2>2, OwesQueried DEF Inv
  <2>4. ~Stranded'
    BY <2>3 DEF Stranded
  <2> QED
    BY <1>1, <2>2, <2>3, <2>4, ReturnStep
<1> QED
  BY <1>3, <1>5, <1>6

(* The server that was being deleted leaves the list.                      *)
LEMMA ReturnDeletedStep ==
    ASSUME Inv, ReturnDeleted PROVE Good
<1> DEFINE c == Head(callbacks)
           s == c.server
<1>1. /\ callbacks # <<>> /\ c.where = "indeleted" /\ callbacks' = Tail(callbacks)
      /\ UNCHANGED <<dontUpdate, think, calls>> /\ list' = ArrayDeleteAt(list, c.index)
      /\ engine' = [engine EXCEPT !.state[s] = {}]
  BY DEF ReturnDeleted, ReturnFrom
<1>2. callbacks \in Seq(Frame) /\ c \in Frame /\ s \in Servers
  <2>1. callbacks \in Seq(Frame)
    BY DEF Inv, FramesSound
  <2>2. c \in Frame
    BY <1>1, <2>1, Pop
  <2> QED
    BY <2>1, <2>2 DEF Frame
<1>3. /\ FramesSound(callbacks', list') /\ s \in DeletingIn(callbacks) /\ Known' = Known
  <2>1. /\ FramesSound(callbacks', list') /\ s \in DeletingIn(callbacks)
        /\ ToSet(list') \ DeletingIn(callbacks') = ToSet(list) \ DeletingIn(callbacks)
    <3> DEFINE n == callbacks'
               m == list'
    <3>1. /\ FramesSound(callbacks, list) /\ callbacks # <<>>
          /\ Head(callbacks).where = "indeleted" /\ n = Tail(callbacks)
          /\ m = ArrayDeleteAt(list, Head(callbacks).index)
      BY <1>1 DEF Inv
    <3> HIDE DEF n, m
    <3>2. /\ FramesSound(n, m) /\ Head(callbacks).server \in DeletingIn(callbacks)
          /\ ToSet(m) \ DeletingIn(n) = ToSet(list) \ DeletingIn(callbacks)
      BY <3>1, FramesDeleted
    <3> QED
      BY <3>2 DEF n, m
  <2> QED
    BY <2>1 DEF Known
<1>4. /\ Sound(engine', Known) /\ engine'.query = engine.query
      /\ engine'.pending = engine.pending /\ engine'.owed = engine.owed
      /\ engine'.failed = engine.failed
  <2> DEFINE ow == engine.owed
             none == {}
  <2>1. s \notin QueuedIn(engine)
    BY <1>3 DEF Inv, Sound, Known
  <2>2. engine' = [engine EXCEPT !.state[s] = none, !.owed = ow]
    BY <1>1 DEF Inv, Sound, Engine
  <2>3. none \in SUBSET StateBit /\ ow \in SUBSET Servers
    BY DEF Inv, Sound, Engine
  <2> HIDE DEF ow, none, s
  <2>4. Sound(engine', Known) /\ Rewritten(engine, s, none, ow, engine')
    BY <1>2, <2>1, <2>2, <2>3, StateSet DEF Inv
  <2> QED
    BY <2>4 DEF Rewritten, ow
<1>5. Owes(engine')
  BY <1>4 DEF Inv, Owes, QueuedIn
<1>6. FailingIn(callbacks') <=> FailingIn(callbacks)
  BY <1>1, <1>2, FailingPop
<1>7. Inv'
  BY <1>1, <1>3, <1>4, <1>5, <1>6 DEF Inv
<1> QED
  BY <1>1, <1>4, <1>7 DEF Good, Kept, Stranded

LEMMA ReturnsStep ==
    ASSUME Inv, Return PROVE Good
<1>1. ASSUME ReturnFrom("inreply") \/ ReturnFrom("innew"), UNCHANGED <<list, engine>>
      PROVE  Good
  <2>1. /\ callbacks # <<>> /\ callbacks' = Tail(callbacks)
        /\ Head(callbacks).where \in {"inreply", "innew"}
        /\ UNCHANGED <<list, engine, dontUpdate, think, calls>>
    BY <1>1 DEF ReturnFrom
  <2>2. Stranded' = Stranded
    BY <2>1 DEF Stranded
  <2> QED
    BY <2>1, <2>2, ReturnStep DEF Inv
<1> QED
  BY <1>1, ReturnDeletedStep, ReturnFailedStep, ReturnAddedStep DEF Return

LEMMA ExpireStep ==
    ASSUME Inv, Expire PROVE Good
<1>1. PICK i \in 1..Len(engine.query) :
        engine' = [engine EXCEPT !.due = @ \cup {engine.query[i]}]
  BY DEF Expire
<1> DEFINE due == engine.due \cup {engine.query[i]}
<1>2. UNCHANGED <<list, dontUpdate, think, callbacks, calls>>
  BY DEF Expire
<1>3. engine \in Engine /\ due \subseteq ToSet(engine.query) /\ due \subseteq Servers
  BY Members DEF Inv, Sound, Distinct
<1>4. engine' = [engine EXCEPT !.due = due]
  BY <1>1
<1> HIDE DEF due
<1>5. /\ engine' \in Engine /\ engine'.query = engine.query /\ engine'.due = due
      /\ engine'.pending = engine.pending /\ engine'.state = engine.state
      /\ engine'.owed = engine.owed /\ engine'.failed = engine.failed
  BY <1>3, <1>4 DEF Engine
<1>6. QueuedIn(engine') = QueuedIn(engine)
  BY <1>5 DEF QueuedIn
<1>7. Sound(engine', Known) /\ Owes(engine')
  BY <1>3, <1>5, <1>6 DEF Inv, Sound, FailedIsFirst, Owes
<1>8. Stranded' = Stranded
  BY <1>2, <1>5 DEF Stranded
<1> QED
  BY <1>2, <1>5, <1>7, <1>8, EngineStep DEF Inv

LEMMA Step ==
    ASSUME Reentry = {}, Inv, [Next]_vars PROVE Good
<1>1. CASE Application
  <2>1. CASE \E s \in Servers : ServerBrowserRemoveServer(s)
    BY <2>1, RemoveServerStep
  <2>2. CASE \E s \in Servers, q \in PENDING : ServerBrowserAuxUpdateServer(s, q)
    BY <2>2, AuxUpdateServerStep
  <2>3. CASE \E s \in Servers, q \in PENDING : AuxUpdateNewIP(s, q)
    BY <2>3, AuxUpdateNewIPStep
  <2>4. CASE \E s \in Servers, q \in PENDING : AuxUpdateKnownIP(s, q)
    BY <2>4, AuxUpdateKnownIPStep
  <2> QED
    BY <1>1, <2>1, <2>2, <2>3, <2>4, HaltStep, ClearStep, SortStep DEF Application
<1>2. CASE ServerBrowserThink
  BY <1>2, GoToStep DEF ServerBrowserThink, GoesOn
<1>3. CASE EndReplies
  BY <1>3, GoToStep DEF EndReplies, GoesOn
<1>4. CASE EndThink
  BY <1>4, GoToStep DEF EndThink, GoesOn
<1>5. CASE TimeoutOldQuery \/ Return \/ EndTimeouts \/ Expire
  BY <1>5, TimeoutStep, ReturnsStep, EndTimeoutsStep, ExpireStep
<1>6. CASE Environment
  BY <1>6, ReplyStep, AddServerStep, DeleteServerStep DEF Environment
<1>7. CASE UNCHANGED vars
  <2>1. /\ engine' = engine /\ UNCHANGED <<list, dontUpdate, think, callbacks, calls>>
    BY <1>7 DEF vars
  <2>2. Stranded' = Stranded
    BY <2>1 DEF Stranded
  <2> QED
    BY <2>1, <2>2, EngineStep DEF Inv
<1> QED
  BY <1>1, <1>2, <1>3, <1>4, <1>5, <1>6, <1>7 DEF Next, Library

-----------------------------------------------------------------------------
(* The theorems.  The library runs on after a callback with a server that  *)
(* was added, or with the place of one that is being deleted, so they need *)
(* that the application makes none of the calls in a callback that the     *)
(* library does not stand (Reentry = {}); all other calls in callbacks,    *)
(* nested as they may be, are covered.                                     *)

(* The FIFOs, the list and the open callbacks agree at every step.         *)
THEOREM InvHolds == ASSUME Reentry = {} PROVE Spec => []Inv
<1>1. Inv /\ [Next]_vars => Inv'
  BY Step DEF Good
<1> QED
  BY <1>1, InitInv, PTL DEF Spec

(* At most maxupdates queries are ever outstanding, whoever asks for them: *)
(* SBQueryEngineUpdateServer and QueueNextQueries keep the limit.          *)
THEOREM TypeOKHolds == ASSUME Reentry = {} PROVE Spec => []TypeOK
BY InvHolds, InvImplies, PTL

(* A server is in one FIFO at most and once, is in the list and not being  *)
(* deleted (so not freed) while it is in one, and its state says that it   *)
(* is there: through removals within the deleted callback of others too.   *)
THEOREM FifosSoundHolds == ASSUME Reentry = {} PROVE Spec => []FifosSound
BY InvHolds, InvImplies, PTL

(* A query that was asked for stays in a FIFO until the application is     *)
(* told of it, and no longer; the one that is lost when the application    *)
(* queries a failed server again in its callback is owed no more.          *)
THEOREM OwedIsQueuedHolds == ASSUME Reentry = {} PROVE Spec => []OwedIsQueued
BY InvHolds, InvImplies, PTL

(* Nothing but the removal of a server leaves queries that wait without    *)
(* one that is outstanding, for which the engine's think does nothing.     *)
THEOREM StrandedOnlyByRemovalHolds ==
    ASSUME Reentry = {} PROVE Spec => StrandedOnlyByRemoval
<1>1. Inv /\ [Next]_vars => [Kept]_vars
  BY Step DEF Good
<1>2. [Kept]_vars => [~Stranded /\ Stranded' => \E s \in Servers : SBServerListRemoveAt(s)]_vars
  BY DEF Kept
<1> QED
  BY <1>1, <1>2, InvHolds, PTL DEF Spec, StrandedOnlyByRemoval

=============================================================================
