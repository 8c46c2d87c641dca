--------------------------- MODULE SequenceLemmas ---------------------------
(***************************************************************************)
(* What the operators on queues return, for every sequence: which elements *)
(* are in the result.                                                      *)
(***************************************************************************)
EXTENDS RemoveIf, SequencesExt, FiniteSetsExt, WellFoundedInduction, TLAPS

\* A set of numbers that is not empty has a least element.
LEMMA LeastNat ==
    ASSUME NEW S, S \subseteq Nat, S # {}
    PROVE  \E x \in S : \A y \in S : x =< y
<1>1. PICK x \in S : \A y \in S : ~ (<<y, x>> \in OpToRel(<, Nat))
  BY NatLessThanWellFounded, WFMin
<1>2. ASSUME NEW y \in S
      PROVE  x =< y
  <2>1. x \in Nat /\ y \in Nat /\ <<y, x>> \in Nat \X Nat
    BY Zenon
  <2>2. ~(y < x)
    BY <1>1, <2>1, Zenon DEF OpToRel
  <2> QED BY <2>1, <2>2
<1> QED BY <1>2

LEMMA LeastIn ==
    ASSUME NEW S, S \subseteq Nat, S # {}
    PROVE  Min(S) \in S
BY LeastNat DEF Min

-----------------------------------------------------------------------------
(***************************************************************************)
(* RemoveIf.  A recursive function is a CHOOSE: that there is one has to   *)
(* be shown first, by taking the shortest prefix on which it would not be  *)
(* defined.                                                                *)
(***************************************************************************)

\* g is the function `kept' of RemoveIf, as far as position m.
KeptBy(g, seq, K, m) ==
    g = [n \in 0 .. m |-> IF n = 0 THEN <<>>
                          ELSE IF n \in K THEN g[n - 1]
                          ELSE Append(g[n - 1], seq[n])]

\* The recursive function is defined on every prefix.
LEMMA KeptExists ==
    ASSUME NEW seq, NEW K, NEW m \in Nat
    PROVE  \E g : KeptBy(g, seq, K, m)
<1> DEFINE Bad == {n \in Nat : ~ \E g : KeptBy(g, seq, K, n)}
<1>1. ASSUME Bad # {}
      PROVE  FALSE
  <2>1. PICK n \in Bad : \A y \in Bad : n =< y
    BY <1>1, LeastNat
  <2>2. CASE n = 0
    <3> DEFINE g == [i \in 0 .. 0 |-> <<>>]
    <3>1. KeptBy(g, seq, K, 0)
      BY DEF KeptBy
    <3> QED BY <2>2, <3>1, <2>1
  <2>3. CASE n # 0
    <3>1. n - 1 \in Nat /\ n - 1 \notin Bad
      BY <2>1, <2>3
    <3>2. PICK f : KeptBy(f, seq, K, n - 1)
      BY <3>1
    <3> DEFINE g == [i \in 0 .. n |-> IF i = n THEN IF n \in K THEN f[n - 1] ELSE Append(f[n - 1], seq[n])
                                      ELSE f[i]]
    <3>3. /\ f = [i \in 0 .. n - 1 |-> f[i]]
          /\ \A i \in 0 .. n - 1 : f[i] = IF i = 0 THEN <<>>
                          ELSE IF i \in K THEN f[i - 1]
                          ELSE Append(f[i - 1], seq[i])
      BY <3>2 DEF KeptBy
    <3>4. ASSUME NEW i \in 0 .. n
          PROVE g[i] = IF i = 0 THEN <<>>
                          ELSE IF i \in K THEN g[i - 1]
                          ELSE Append(g[i - 1], seq[i])
      <4>1. n \in Nat /\ i \in Nat /\ g[i] = IF i = n THEN IF n \in K THEN f[n - 1] ELSE Append(f[n - 1], seq[n])
                                      ELSE f[i]
        OBVIOUS
      <4>2. i # 0 => i - 1 \in 0 .. n /\ i - 1 # n /\ g[i - 1] = f[i - 1]
        BY <4>1
      <4> HIDE DEF g
      <4>3. CASE i = n
        BY <4>1, <4>2, <4>3, <2>3
      <4>4. CASE i # n
        <5>1. i \in 0 .. n - 1
          BY <4>1, <4>4
        <5> QED BY <3>3, <4>1, <4>2, <4>4, <5>1
      <4> QED BY <4>3, <4>4
    <3>5. KeptBy(g, seq, K, n)
      BY <3>4 DEF KeptBy
    <3> QED BY <2>1, <3>5
  <2> QED BY <2>2, <2>3
<1> QED BY <1>1

\* The function in the definition of RemoveIf is such a one.
LEMMA KeptInRemoveIf ==
    ASSUME NEW S, NEW seq \in Seq(S), NEW K
    PROVE  \E g : KeptBy(g, seq, K, Len(seq)) /\ RemoveIf(seq, K) = g[Len(seq)]
<1>1. Len(seq) \in Nat
  OBVIOUS
<1>2. \E g : KeptBy(g, seq, K, Len(seq))
  BY <1>1, KeptExists
<1> DEFINE h == CHOOSE g : g = [n \in 0 .. Len(seq) |-> IF n = 0 THEN <<>>
                          ELSE IF n \in K THEN g[n - 1]
                          ELSE Append(g[n - 1], seq[n])]
<1>3. KeptBy(h, seq, K, Len(seq))
  BY <1>2, Zenon DEF KeptBy
<1>4. RemoveIf(seq, K) = h[Len(seq)]
  BY Zenon DEF RemoveIf
<1> HIDE DEF h
<1> QED BY <1>3, <1>4

\* What is kept is what was there at the other positions.
LEMMA RemoveIfKeeps ==
    ASSUME NEW S, NEW seq \in Seq(S), NEW K
    PROVE  /\ RemoveIf(seq, K) \in Seq(S)
           /\ \A i \in DOMAIN RemoveIf(seq, K) : \E j \in DOMAIN seq \ K : RemoveIf(seq, K)[i] = seq[j]
           /\ \A j \in DOMAIN seq \ K : \E i \in DOMAIN RemoveIf(seq, K) : RemoveIf(seq, K)[i] = seq[j]
<1> PICK g : KeptBy(g, seq, K, Len(seq)) /\ RemoveIf(seq, K) = g[Len(seq)]
  BY KeptInRemoveIf
<1> DEFINE Good(n) == /\ g[n] \in Seq(S)
                      /\ \A i \in DOMAIN g[n] : \E j \in (1 .. n) \ K : g[n][i] = seq[j]
                      /\ \A j \in (1 .. n) \ K : \E i \in DOMAIN g[n] : g[n][i] = seq[j]
           Bad == {n \in 0 .. Len(seq) : ~Good(n)}
<1>1. ASSUME NEW n \in 0 .. Len(seq)
      PROVE  g[n] = IF n = 0 THEN <<>> ELSE IF n \in K THEN g[n - 1] ELSE Append(g[n - 1], seq[n])
  BY DEF KeptBy
<1>2. ASSUME NEW n \in 1 .. Len(seq), Good(n - 1)
      PROVE  Good(n)
  <2>1. n \in 0 .. Len(seq) /\ n # 0 /\ seq[n] \in S /\ n - 1 \in Nat /\ 1 .. n = (1 .. n - 1) \cup {n}
    OBVIOUS
  <2> DEFINE f == g[n - 1]
  <2>2. /\ f \in Seq(S)
        /\ \A i \in DOMAIN f : \E j \in (1 .. n - 1) \ K : f[i] = seq[j]
        /\ \A j \in (1 .. n - 1) \ K : \E i \in DOMAIN f : f[i] = seq[j]
    BY <1>2
  <2>3. CASE n \in K
    <3>1. g[n] = f
      BY <1>1, <2>1, <2>3
    <3>2. (1 .. n) \ K = (1 .. n - 1) \ K
      BY <2>1, <2>3
    <3> QED BY <2>2, <3>1, <3>2
  <2>4. CASE n \notin K
    <3>1. g[n] = Append(f, seq[n])
      BY <1>1, <2>1, <2>4
    <3>2. (1 .. n) \ K = ((1 .. n - 1) \ K) \cup {n}
      BY <2>1, <2>4
    <3> HIDE DEF f
    <3>3. /\ g[n] \in Seq(S)
          /\ DOMAIN g[n] = DOMAIN f \cup {Len(f) + 1}
          /\ \A i \in DOMAIN f : g[n][i] = f[i]
          /\ g[n][Len(f) + 1] = seq[n]
      <4>1. f \in Seq(S) /\ seq[n] \in S
        BY <2>1, <2>2
      <4> QED BY <3>1, <4>1
    <3>4. ASSUME NEW i \in DOMAIN g[n]
          PROVE  \E j \in (1 .. n) \ K : g[n][i] = seq[j]
      BY <2>2, <3>2, <3>3
    <3>5. ASSUME NEW j \in (1 .. n) \ K
          PROVE  \E i \in DOMAIN g[n] : g[n][i] = seq[j]
      BY <2>2, <3>2, <3>3
    <3> QED BY <3>3, <3>4, <3>5
  <2> QED BY <2>3, <2>4
<1>3. Good(0)
  <2>1. g[0] = <<>>
    BY <1>1
  <2> QED BY <2>1
<1>4. ASSUME Bad # {}
      PROVE  FALSE
  <2> HIDE DEF Good
  <2>1. PICK n \in Bad : \A y \in Bad : n =< y
    <3>1. Bad \subseteq Nat
      OBVIOUS
    <3> HIDE DEF Bad
    <3> QED BY <1>4, <3>1, LeastNat
  <2>2. n # 0
    BY <1>3, <2>1
  <2>3. n - 1 \in 0 .. Len(seq) /\ n - 1 \notin Bad
    BY <2>1, <2>2
  <2> QED BY <1>2, <2>1, <2>2, <2>3
<1>5. Good(Len(seq))
  BY <1>4
<1>6. DOMAIN seq = 1 .. Len(seq)
  OBVIOUS
<1> QED BY <1>5, <1>6

-----------------------------------------------------------------------------
(* The set of the elements of a sequence.                                  *)

LEMMA SetOfAppend ==
    ASSUME NEW S, NEW q \in Seq(S), NEW x \in S
    PROVE  Append(q, x) \in Seq(S) /\ ToSet(Append(q, x)) = ToSet(q) \cup {x}
<1>1. /\ Append(q, x) \in Seq(S) /\ Len(q) \in Nat
      /\ DOMAIN Append(q, x) = DOMAIN q \cup {Len(q) + 1}
      /\ \A i \in DOMAIN q : Append(q, x)[i] = q[i]
      /\ Append(q, x)[Len(q) + 1] = x
  OBVIOUS
<1> QED BY <1>1, Zenon DEF ToSet

LEMMA SetOfConcat ==
    ASSUME NEW S, NEW q \in Seq(S), NEW r \in Seq(S)
    PROVE  q \o r \in Seq(S) /\ ToSet(q \o r) = ToSet(q) \cup ToSet(r)
<1>1. /\ q \o r \in Seq(S)
      /\ DOMAIN (q \o r) = 1 .. Len(q) + Len(r) /\ Len(q) \in Nat /\ Len(r) \in Nat
      /\ DOMAIN q = 1 .. Len(q) /\ DOMAIN r = 1 .. Len(r)
      /\ \A i \in 1 .. Len(q) + Len(r) : (q \o r)[i] = IF i <= Len(q) THEN q[i] ELSE r[i - Len(q)]
  OBVIOUS
<1> DEFINE c == q \o r
<1> HIDE DEF c
<1>2. ASSUME NEW i \in DOMAIN c
      PROVE  c[i] \in ToSet(q) \cup ToSet(r)
  <2>1. i \in Nat /\ (i =< Len(q) => i \in DOMAIN q) /\ (~(i =< Len(q)) => i - Len(q) \in DOMAIN r)
    BY <1>1 DEF c
  <2> QED BY <1>1, <2>1 DEF ToSet, c
<1>3. ASSUME NEW i \in DOMAIN q
      PROVE  q[i] \in ToSet(c)
  <2>1. i \in DOMAIN c /\ c[i] = q[i]
    BY <1>1 DEF c
  <2> QED BY <2>1 DEF ToSet
<1>4. ASSUME NEW i \in DOMAIN r
      PROVE  r[i] \in ToSet(c)
  <2>1. Len(q) + i \in 1 .. Len(q) + Len(r) /\ ~(Len(q) + i =< Len(q)) /\ (Len(q) + i) - Len(q) = i
    BY <1>1
  <2>2. c[Len(q) + i] = r[i] /\ Len(q) + i \in DOMAIN c
    BY <1>1, <2>1 DEF c
  <2> QED BY <2>2 DEF ToSet
<1> QED BY <1>1, <1>2, <1>3, <1>4 DEF ToSet, c

LEMMA SetOfTail ==
    ASSUME NEW S, NEW q \in Seq(S), q # <<>>
    PROVE  /\ Head(q) \in S /\ Tail(q) \in Seq(S)
           /\ ToSet(q) = {Head(q)} \cup ToSet(Tail(q))
<1>1. /\ Len(q) \in Nat \ {0} /\ Head(q) = q[1] /\ q[1] \in S
      /\ Tail(q) \in Seq(S)
      /\ DOMAIN Tail(q) = 1 .. Len(q) - 1 /\ DOMAIN q = 1 .. Len(q)
      /\ \A i \in 1 .. Len(q) - 1 : Tail(q)[i] = q[i + 1]
  OBVIOUS
<1> DEFINE c == Tail(q)
<1> HIDE DEF c
<1>2. ASSUME NEW i \in DOMAIN c
      PROVE  c[i] \in ToSet(q)
  <2>1. i + 1 \in DOMAIN q
    BY <1>1 DEF c
  <2> QED BY <1>1, <2>1 DEF ToSet, c
<1>3. ASSUME NEW i \in DOMAIN q
      PROVE  q[i] = Head(q) \/ q[i] \in ToSet(c)
  <2>1. i = 1 \/ (i - 1 \in DOMAIN c /\ (i - 1) + 1 = i)
    BY <1>1 DEF c
  <2> QED BY <1>1, <2>1 DEF ToSet, c
<1>4. 1 \in DOMAIN q
  BY <1>1
<1>5. ToSet(q) = {Head(q)} \cup ToSet(c)
  BY <1>1, <1>2, <1>3, <1>4 DEF ToSet
<1> QED BY <1>1, <1>5 DEF c

LEMMA SetOfReverse ==
    ASSUME NEW S, NEW q \in Seq(S)
    PROVE  Reverse(q) \in Seq(S) /\ ToSet(Reverse(q)) = ToSet(q)
<1> DEFINE r == Reverse(q)
<1>1. /\ Len(q) \in Nat /\ DOMAIN q = 1 .. Len(q) /\ q \in [1 .. Len(q) -> S]
  OBVIOUS
<1>2. r = [i \in 1 .. Len(q) |-> q[(Len(q) - i) + 1]]
  BY DEF Reverse
<1>3. r \in [1 .. Len(q) -> S] /\ DOMAIN r = 1 .. Len(q)
  BY <1>1, <1>2
<1>4. r \in Seq(S)
  BY <1>1, <1>3
<1> HIDE DEF r
<1>5. ASSUME NEW i \in 1 .. Len(q)
      PROVE  /\ (Len(q) - i) + 1 \in 1 .. Len(q) /\ r[i] = q[(Len(q) - i) + 1]
             /\ r[(Len(q) - i) + 1] = q[i]
  BY <1>1, <1>2
<1>6. ASSUME NEW i \in 1 .. Len(q)
      PROVE  r[i] \in ToSet(q) /\ q[i] \in ToSet(r)
  <2>1. (Len(q) - i) + 1 \in DOMAIN q /\ (Len(q) - i) + 1 \in DOMAIN r
    BY <1>1, <1>3, <1>5
  <2> QED BY <1>5, <2>1 DEF ToSet
<1>7. ToSet(r) = ToSet(q)
  BY <1>1, <1>3, <1>6 DEF ToSet
<1> QED BY <1>4, <1>7 DEF r

LEMMA SetOfRemoveIf ==
    ASSUME NEW S, NEW q \in Seq(S), NEW K
    PROVE  /\ RemoveIf(q, K) \in Seq(S)
           /\ ToSet(RemoveIf(q, K)) = {q[j] : j \in DOMAIN q \ K}
<1> DEFINE r == RemoveIf(q, K)
<1>1. /\ r \in Seq(S)
      /\ \A i \in DOMAIN r : \E j \in DOMAIN q \ K : r[i] = q[j]
      /\ \A j \in DOMAIN q \ K : \E i \in DOMAIN r : r[i] = q[j]
  BY RemoveIfKeeps
<1> HIDE DEF r
<1>2. ToSet(r) = {q[j] : j \in DOMAIN q \ K}
  <2>1. ASSUME NEW i \in DOMAIN r
        PROVE  r[i] \in {q[j] : j \in DOMAIN q \ K}
    BY <1>1
  <2>2. ASSUME NEW j \in DOMAIN q \ K
        PROVE  q[j] \in ToSet(r)
    BY <1>1 DEF ToSet
  <2> QED BY <2>1, <2>2 DEF ToSet
<1> QED BY <1>1, <1>2 DEF r

LEMMA SetOfRemoveAt ==
    ASSUME NEW S, NEW q \in Seq(S), NEW k \in DOMAIN q
    PROVE  /\ RemoveAt(q, k) \in Seq(S)
           /\ ToSet(RemoveAt(q, k)) = {q[j] : j \in DOMAIN q \ {k}}
<1>1. /\ Len(q) \in Nat /\ DOMAIN q = 1 .. Len(q) /\ k \in 1 .. Len(q)
  OBVIOUS
<1> DEFINE a == SubSeq(q, 1, k - 1)
           b == SubSeq(q, k + 1, Len(q))
<1>2. /\ a \in Seq(S) /\ DOMAIN a = 1 .. k - 1
      /\ \A i \in 1 .. k - 1 : a[i] = q[i]
  BY <1>1
<1>3. /\ b \in Seq(S) /\ DOMAIN b = 1 .. Len(q) - k
      /\ \A i \in 1 .. Len(q) - k : b[i] = q[k + i]
  BY <1>1
<1>4. RemoveAt(q, k) = a \o b
  BY DEF RemoveAt
<1> HIDE DEF a, b
<1>5. RemoveAt(q, k) \in Seq(S) /\ ToSet(RemoveAt(q, k)) = ToSet(a) \cup ToSet(b)
  BY <1>2, <1>3, <1>4, SetOfConcat
<1>6. ASSUME NEW j \in DOMAIN q \ {k}
      PROVE  q[j] \in ToSet(a) \cup ToSet(b)
  <2>1. \/ j \in 1 .. k - 1
        \/ j - k \in 1 .. Len(q) - k /\ k + (j - k) = j
    BY <1>1
  <2> QED BY <1>2, <1>3, <2>1 DEF ToSet
<1>7. ASSUME NEW i \in DOMAIN a
      PROVE  a[i] \in {q[j] : j \in DOMAIN q \ {k}}
  <2>1. i \in DOMAIN q \ {k}
    BY <1>1, <1>2
  <2> QED BY <1>2, <2>1
<1>8. ASSUME NEW i \in DOMAIN b
      PROVE  b[i] \in {q[j] : j \in DOMAIN q \ {k}}
  <2>1. k + i \in DOMAIN q \ {k}
    BY <1>1, <1>3
  <2> QED BY <1>3, <2>1
<1> QED BY <1>5, <1>6, <1>7, <1>8 DEF ToSet

-----------------------------------------------------------------------------
(* Sequences whose elements are distinct.                                  *)

LEMMA DistinctAppend ==
    ASSUME NEW S, NEW q \in Seq(S), NEW x \in S, IsInjective(q), x \notin ToSet(q)
    PROVE  IsInjective(Append(q, x))
<1> DEFINE c == Append(q, x)
<1>1. /\ Len(q) \in Nat
      /\ DOMAIN c = DOMAIN q \cup {Len(q) + 1}
      /\ \A i \in DOMAIN q : c[i] = q[i]
      /\ c[Len(q) + 1] = x
  OBVIOUS
<1>2. \A i \in DOMAIN q : q[i] # x
  BY DEF ToSet
<1> HIDE DEF c
<1>3. ASSUME NEW i \in DOMAIN c, NEW j \in DOMAIN c, c[i] = c[j]
      PROVE  i = j
  BY <1>1, <1>2, <1>3 DEF IsInjective
<1>4. IsInjective(c)
  BY <1>3 DEF IsInjective
<1> QED BY <1>4 DEF c

LEMMA DistinctConcat ==
    ASSUME NEW S, NEW q \in Seq(S), NEW r \in Seq(S), IsInjective(q), IsInjective(r),
           ToSet(q) \cap ToSet(r) = {}
    PROVE  IsInjective(q \o r)
<1> DEFINE c == q \o r
<1>1. /\ DOMAIN c = 1 .. Len(q) + Len(r) /\ Len(q) \in Nat /\ Len(r) \in Nat
      /\ DOMAIN q = 1 .. Len(q) /\ DOMAIN r = 1 .. Len(r)
      /\ \A i \in 1 .. Len(q) + Len(r) : c[i] = IF i <= Len(q) THEN q[i] ELSE r[i - Len(q)]
  OBVIOUS
<1>2. \A i \in DOMAIN q, j \in DOMAIN r : q[i] # r[j]
  BY DEF ToSet
<1> HIDE DEF c
<1>3. ASSUME NEW i \in DOMAIN c
      PROVE  \/ i =< Len(q) /\ i \in DOMAIN q /\ c[i] = q[i]
             \/ ~(i =< Len(q)) /\ i - Len(q) \in DOMAIN r /\ c[i] = r[i - Len(q)]
  BY <1>1
<1>4. ASSUME NEW i \in DOMAIN c, NEW j \in DOMAIN c, c[i] = c[j]
      PROVE  i = j
  <2>1. CASE i =< Len(q) /\ j =< Len(q)
    BY <1>3, <1>4, <2>1 DEF IsInjective
  <2>2. CASE ~(i =< Len(q)) /\ ~(j =< Len(q))
    <3>1. i - Len(q) = j - Len(q)
      BY <1>3, <1>4, <2>2 DEF IsInjective
    <3> QED BY <1>1, <3>1
  <2>3. CASE (i =< Len(q)) # (j =< Len(q))
    BY <1>2, <1>3, <1>4, <2>3
  <2> QED BY <2>1, <2>2, <2>3
<1>5. IsInjective(c)
  BY <1>4 DEF IsInjective
<1> QED BY <1>5 DEF c

LEMMA DistinctTail ==
    ASSUME NEW S, NEW q \in Seq(S), q # <<>>, IsInjective(q)
    PROVE  IsInjective(Tail(q)) /\ Head(q) \notin ToSet(Tail(q))
<1> DEFINE c == Tail(q)
<1>1. /\ Len(q) \in Nat \ {0} /\ Head(q) = q[1]
      /\ DOMAIN c = 1 .. Len(q) - 1 /\ DOMAIN q = 1 .. Len(q)
      /\ \A i \in 1 .. Len(q) - 1 : c[i] = q[i + 1]
  OBVIOUS
<1> HIDE DEF c
<1>2. ASSUME NEW i \in DOMAIN c
      PROVE  i \in Nat /\ i + 1 # 1 /\ i + 1 \in DOMAIN q /\ c[i] = q[i + 1]
  BY <1>1
<1>3. ASSUME NEW i \in DOMAIN c
      PROVE  c[i] # Head(q)
  <2>1. 1 \in DOMAIN q
    BY <1>1
  <2> QED BY <1>1, <1>2, <2>1 DEF IsInjective
<1>4. ASSUME NEW i \in DOMAIN c, NEW j \in DOMAIN c, c[i] = c[j]
      PROVE  i = j
  <2>1. i + 1 = j + 1
    BY <1>2, <1>4 DEF IsInjective
  <2> QED BY <1>2, <2>1
<1>5. IsInjective(c) /\ Head(q) \notin ToSet(c)
  BY <1>3, <1>4 DEF IsInjective, ToSet
<1> QED BY <1>5 DEF c

LEMMA DistinctReverse ==
    ASSUME NEW S, NEW q \in Seq(S), IsInjective(q)
    PROVE  IsInjective(Reverse(q))
<1> DEFINE r == Reverse(q)
<1>1. Len(q) \in Nat /\ DOMAIN q = 1 .. Len(q)
  OBVIOUS
<1>2. r = [i \in 1 .. Len(q) |-> q[(Len(q) - i) + 1]]
  BY DEF Reverse
<1>3. DOMAIN r = 1 .. Len(q) /\ \A i \in 1 .. Len(q) : r[i] = q[(Len(q) - i) + 1]
  BY <1>2
<1> HIDE DEF r
<1>4. ASSUME NEW i \in DOMAIN r, NEW j \in DOMAIN r, r[i] = r[j]
      PROVE  i = j
  <2>1. (Len(q) - i) + 1 \in DOMAIN q /\ (Len(q) - j) + 1 \in DOMAIN q
    BY <1>1, <1>3
  <2>2. (Len(q) - i) + 1 = (Len(q) - j) + 1
    BY <1>3, <1>4, <2>1 DEF IsInjective
  <2> QED BY <1>1, <1>3, <2>2
<1>5. IsInjective(r)
  BY <1>4 DEF IsInjective
<1> QED BY <1>5 DEF r

LEMMA DistinctRemoveIf ==
    ASSUME NEW S, NEW seq \in Seq(S), NEW K, IsInjective(seq)
    PROVE  IsInjective(RemoveIf(seq, K))
<1> PICK g : KeptBy(g, seq, K, Len(seq)) /\ RemoveIf(seq, K) = g[Len(seq)]
  BY KeptInRemoveIf
<1> DEFINE Good(n) == /\ g[n] \in Seq(S) /\ IsInjective(g[n])
                      /\ \A i \in DOMAIN g[n] : \E j \in 1 .. n : g[n][i] = seq[j]
           Bad == {n \in 0 .. Len(seq) : ~Good(n)}
<1>1. ASSUME NEW n \in 0 .. Len(seq)
      PROVE  g[n] = IF n = 0 THEN <<>> ELSE IF n \in K THEN g[n - 1] ELSE Append(g[n - 1], seq[n])
  BY DEF KeptBy
<1>2. ASSUME NEW n \in 1 .. Len(seq), Good(n - 1)
      PROVE  Good(n)
  <2>1. n \in 0 .. Len(seq) /\ n # 0 /\ seq[n] \in S /\ 1 .. n = (1 .. n - 1) \cup {n}
    OBVIOUS
  <2> DEFINE f == g[n - 1]
  <2>2. /\ f \in Seq(S) /\ IsInjective(f)
        /\ \A i \in DOMAIN f : \E j \in 1 .. n - 1 : f[i] = seq[j]
    BY <1>2
  <2>3. CASE n \in K
    <3>1. g[n] = f
      BY <1>1, <2>1, <2>3
    <3> QED BY <2>1, <2>2, <3>1
  <2>4. CASE n \notin K
    <3>1. g[n] = Append(f, seq[n])
      BY <1>1, <2>1, <2>4
    <3> HIDE DEF f
    <3>2. seq[n] \notin ToSet(f)
      <4>1. ASSUME NEW j \in 1 .. n - 1
            PROVE  seq[j] # seq[n]
        BY DEF IsInjective
      <4> QED BY <2>2, <4>1 DEF ToSet
    <3>3. g[n] \in Seq(S) /\ ToSet(g[n]) = ToSet(f) \cup {seq[n]}
      BY <2>1, <2>2, <3>1, SetOfAppend
    <3>4. IsInjective(g[n])
      BY <2>1, <2>2, <3>1, <3>2, DistinctAppend
    <3>5. ASSUME NEW i \in DOMAIN g[n]
          PROVE  \E j \in 1 .. n : g[n][i] = seq[j]
      <4>1. g[n][i] \in ToSet(f) \cup {seq[n]}
        BY <3>3 DEF ToSet
      <4> QED BY <2>1, <2>2, <4>1 DEF ToSet
    <3> QED BY <3>3, <3>4, <3>5
  <2> QED BY <2>3, <2>4
<1>3. Good(0)
  <2>1. g[0] = <<>>
    BY <1>1
  <2> QED BY <2>1 DEF IsInjective
<1>4. ASSUME Bad # {}
      PROVE  FALSE
  <2> HIDE DEF Good
  <2>1. PICK n \in Bad : \A y \in Bad : n =< y
    <3>1. Bad \subseteq Nat
      OBVIOUS
    <3> HIDE DEF Bad
    <3> QED BY <1>4, <3>1, LeastNat
  <2>2. n # 0
    BY <1>3, <2>1
  <2>3. n - 1 \in 0 .. Len(seq) /\ n - 1 \notin Bad
    BY <2>1, <2>2
  <2> QED BY <1>2, <2>1, <2>2, <2>3
<1>5. Good(Len(seq))
  BY <1>4
<1> QED BY <1>5

-----------------------------------------------------------------------------
(* Pairs of elements that do not follow each other.                        *)

\* No element comes after one it is forbidden after.
NoneAfter(q, forbidden) ==
    \A i, j \in DOMAIN q : i < j => <<q[i], q[j]>> \notin forbidden

LEMMA NoneAfterAppend ==
    ASSUME NEW S, NEW q \in Seq(S), NEW x \in S, NEW forbidden, NoneAfter(q, forbidden),
           \A y \in ToSet(q) : <<y, x>> \notin forbidden
    PROVE  NoneAfter(Append(q, x), forbidden)
<1> DEFINE c == Append(q, x)
<1>1. /\ Len(q) \in Nat /\ DOMAIN q = 1 .. Len(q)
      /\ DOMAIN c = 1 .. Len(q) + 1 /\ c[Len(q) + 1] = x
      /\ \A i \in 1 .. Len(q) : c[i] = q[i]
  OBVIOUS
<1> HIDE DEF c
<1>2. ASSUME NEW i \in DOMAIN c, NEW j \in DOMAIN c, i < j
      PROVE  <<c[i], c[j]>> \notin forbidden
  <2>1. i \in 1 .. Len(q) /\ c[i] = q[i] /\ q[i] \in ToSet(q)
    BY <1>1, <1>2 DEF ToSet
  <2>2. CASE j \in 1 .. Len(q)
    BY <1>1, <1>2, <2>1, <2>2 DEF NoneAfter
  <2>3. CASE j \notin 1 .. Len(q)
    <3>1. c[j] = x
      BY <1>1, <2>3
    <3> QED BY <2>1, <3>1
  <2> QED BY <2>2, <2>3
<1> QED BY <1>2 DEF NoneAfter, c

LEMMA NoneAfterRemoveAt ==
    ASSUME NEW S, NEW q \in Seq(S), NEW k \in DOMAIN q, NEW forbidden, NoneAfter(q, forbidden)
    PROVE  NoneAfter(RemoveAt(q, k), forbidden)
<1> DEFINE c == RemoveAt(q, k)
<1>1. /\ Len(q) \in Nat /\ DOMAIN q = 1 .. Len(q) /\ k \in 1 .. Len(q)
  OBVIOUS
<1>2. /\ DOMAIN c = 1 .. Len(q) - 1
      /\ \A i \in 1 .. Len(q) - 1 : c[i] = IF i < k THEN q[i] ELSE q[i + 1]
  <2> DEFINE a == SubSeq(q, 1, k - 1)
             b == SubSeq(q, k + 1, Len(q))
  <2>1. /\ a \in Seq(S) /\ Len(a) = k - 1
        /\ \A i \in 1 .. k - 1 : a[i] = q[i]
    BY <1>1
  <2>2. /\ b \in Seq(S) /\ Len(b) = Len(q) - k
        /\ \A i \in 1 .. Len(q) - k : b[i] = q[k + i]
    BY <1>1
  <2>3. c = a \o b
    BY DEF RemoveAt
  <2> HIDE DEF a, b, c
  <2>4. /\ DOMAIN c = 1 .. (k - 1) + (Len(q) - k)
        /\ \A i \in 1 .. (k - 1) + (Len(q) - k) : c[i] = IF i <= k - 1 THEN a[i] ELSE b[i - (k - 1)]
    BY <1>1, <2>1, <2>2, <2>3
  <2>5. ASSUME NEW i \in 1 .. Len(q) - 1
        PROVE  c[i] = IF i < k THEN q[i] ELSE q[i + 1]
    <3>1. CASE i < k
      BY <1>1, <2>1, <2>4, <3>1
    <3>2. CASE ~(i < k)
      <4>1. i - (k - 1) \in 1 .. Len(q) - k /\ k + (i - (k - 1)) = i + 1
        BY <1>1, <3>2
      <4> QED BY <1>1, <2>2, <2>4, <3>2, <4>1
    <3> QED BY <3>1, <3>2
  <2> QED BY <1>1, <2>4, <2>5
<1> HIDE DEF c
<1>3. ASSUME NEW i \in DOMAIN c, NEW j \in DOMAIN c, i < j
      PROVE  <<c[i], c[j]>> \notin forbidden
  <2>1. PICK m \in DOMAIN q : m = (IF i < k THEN i ELSE i + 1) /\ c[i] = q[m]
    BY <1>1, <1>2
  <2>2. PICK n \in DOMAIN q : n = (IF j < k THEN j ELSE j + 1) /\ c[j] = q[n]
    BY <1>1, <1>2
  <2>3. m < n
    BY <1>1, <1>2, <1>3, <2>1, <2>2
  <2> QED BY <2>1, <2>2, <2>3 DEF NoneAfter
<1> QED BY <1>3 DEF NoneAfter, c

LEMMA NoneAfterRemoveIf ==
    ASSUME NEW S, NEW seq \in Seq(S), NEW K, NEW forbidden, NoneAfter(seq, forbidden)
    PROVE  NoneAfter(RemoveIf(seq, K), forbidden)
<1> PICK g : KeptBy(g, seq, K, Len(seq)) /\ RemoveIf(seq, K) = g[Len(seq)]
  BY KeptInRemoveIf
<1> DEFINE Good(n) == /\ g[n] \in Seq(S) /\ NoneAfter(g[n], forbidden)
                      /\ \A i \in DOMAIN g[n] : \E j \in 1 .. n : g[n][i] = seq[j]
           Bad == {n \in 0 .. Len(seq) : ~Good(n)}
<1>1. ASSUME NEW n \in 0 .. Len(seq)
      PROVE  g[n] = IF n = 0 THEN <<>> ELSE IF n \in K THEN g[n - 1] ELSE Append(g[n - 1], seq[n])
  BY DEF KeptBy
<1>2. ASSUME NEW n \in 1 .. Len(seq), Good(n - 1)
      PROVE  Good(n)
  <2>1. n \in 0 .. Len(seq) /\ n # 0 /\ seq[n] \in S /\ 1 .. n = (1 .. n - 1) \cup {n}
    OBVIOUS
  <2> DEFINE f == g[n - 1]
  <2>2. /\ f \in Seq(S) /\ NoneAfter(f, forbidden)
        /\ \A i \in DOMAIN f : \E j \in 1 .. n - 1 : f[i] = seq[j]
    BY <1>2
  <2>3. CASE n \in K
    <3>1. g[n] = f
      BY <1>1, <2>1, <2>3
    <3> QED BY <2>1, <2>2, <3>1
  <2>4. CASE n \notin K
    <3>1. g[n] = Append(f, seq[n])
      BY <1>1, <2>1, <2>4
    <3> HIDE DEF f
    <3>2. \A y \in ToSet(f) : <<y, seq[n]>> \notin forbidden
      <4>1. ASSUME NEW j \in 1 .. n - 1
            PROVE  <<seq[j], seq[n]>> \notin forbidden
        BY DEF NoneAfter
      <4> QED BY <2>2, <4>1 DEF ToSet
    <3>3. g[n] \in Seq(S) /\ ToSet(g[n]) = ToSet(f) \cup {seq[n]}
      BY <2>1, <2>2, <3>1, SetOfAppend
    <3>4. NoneAfter(g[n], forbidden)
      BY <2>1, <2>2, <3>1, <3>2, NoneAfterAppend
    <3>5. ASSUME NEW i \in DOMAIN g[n]
          PROVE  \E j \in 1 .. n : g[n][i] = seq[j]
      <4>1. g[n][i] \in ToSet(f) \cup {seq[n]}
        BY <3>3 DEF ToSet
      <4> QED BY <2>1, <2>2, <4>1 DEF ToSet
    <3> QED BY <3>3, <3>4, <3>5
  <2> QED BY <2>3, <2>4
<1>3. Good(0)
  <2>1. g[0] = <<>>
    BY <1>1
  <2> QED BY <2>1 DEF NoneAfter
<1>4. ASSUME Bad # {}
      PROVE  FALSE
  <2> HIDE DEF Good
  <2>1. PICK n \in Bad : \A y \in Bad : n =< y
    <3>1. Bad \subseteq Nat
      OBVIOUS
    <3> HIDE DEF Bad
    <3> QED BY <1>4, <3>1, LeastNat
  <2>2. n # 0
    BY <1>3, <2>1
  <2>3. n - 1 \in 0 .. Len(seq) /\ n - 1 \notin Bad
    BY <2>1, <2>2
  <2> QED BY <1>2, <2>1, <2>2, <2>3
<1>5. Good(Len(seq))
  BY <1>4
<1> QED BY <1>5
=============================================================================
