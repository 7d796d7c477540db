----------------------------- MODULE StripProofs ----------------------------
(***************************************************************************)
(* The operations on the tab strip, for any browser, windows, groups and   *)
(* titles, and any interruption.  A step of an operation closes, moves,    *)
(* unpins and shows no tab but those it was asked to: what carries it is   *)
(* what each stage of an operation knows of a browser that the person      *)
(* changes under it, and a lemma for each browser call.                    *)
(*                                                                         *)
(* The second half follows an operation nobody interferes with, by what has*)
(* been settled at each of its stages: openOrFocus, a sort, and tabs joined*)
(* into a group.  ExtensionProofs goes on with a gather.                   *)
(***************************************************************************)
EXTENDS Strip, TLAPS, FiniteSetTheorems, SequenceTheorems

LEMMA LeastOf ==
    ASSUME NEW S, S \subseteq Nat, S # {}
    PROVE  Min(S) \in S /\ \A x \in S : Min(S) <= x
<1> DEFINE R == OpToRel(<, Nat)
<1>1. R = {ss \in Nat \X Nat : ss[1] < ss[2]}
  BY DEF OpToRel
<1>2. IsWellFoundedOn(R, Nat)
  BY NatLessThanWellFounded
<1> HIDE DEF R
<1>3. PICK n \in S : \A m \in S : <<m, n>> \notin R
  BY <1>2, WFMin
<1>4. ASSUME NEW m \in S PROVE n <= m
  <2>1. ~(m < n)
    BY <1>1, <1>3
  <2> QED
    BY <2>1
<1> QED
  BY <1>3, <1>4 DEF Min

(***************************************************************************)
(* Sequences by their elements and by what stands before what.             *)
(***************************************************************************)
Before(s, x, y) == \E i, j \in DOMAIN s : i < j /\ s[i] = x /\ s[j] = y

LEMMA Numbered ==
    ASSUME NEW T, NEW s \in Seq(T)
    PROVE  /\ Len(s) \in Nat /\ DOMAIN s = 1..Len(s)
           /\ \A i \in 1..Len(s) : s[i] \in T
           /\ ToSet(s) \subseteq T
  BY DEF ToSet

LEMMA OnceIs ==
    ASSUME NEW T, NEW s \in Seq(T)
    PROVE  IsInjective(s) <=> \A x : ~Before(s, x, x)
<1>1. ASSUME IsInjective(s), NEW x PROVE ~Before(s, x, x)
  <2>1. SUFFICES ASSUME Before(s, x, x) PROVE FALSE
    OBVIOUS
  <2>2. PICK i, j \in DOMAIN s : i < j /\ s[i] = x /\ s[j] = x
    BY <2>1 DEF Before
  <2>3. i = j
    BY <1>1, <2>2 DEF IsInjective
  <2> QED
    BY <2>2, <2>3, Numbered
<1>2. ASSUME \A x : ~Before(s, x, x) PROVE IsInjective(s)
  <2>1. SUFFICES ASSUME NEW i \in DOMAIN s, NEW j \in DOMAIN s, s[i] = s[j], i # j PROVE FALSE
    BY DEF IsInjective
  <2>2. i < j \/ j < i
    BY <2>1, Numbered
  <2>3. Before(s, s[i], s[i])
    BY <2>1, <2>2 DEF Before
  <2> QED
    BY <1>2, <2>3
<1> QED
  BY <1>1, <1>2

LEMMA NoneBefore ==
    ASSUME NEW x, NEW y
    PROVE  ~Before(<<>>, x, y)
  BY DEF Before

LEMMA SingleIs1 ==
    ASSUME NEW T, NEW e \in T
    PROVE  /\ <<e>> \in Seq(T) /\ Len(<<e>>) = 1 /\ <<e>>[1] = e
           /\ ToSet(<<e>>) = {e} /\ \A x, y : ~Before(<<e>>, x, y)
  BY DEF ToSet, Before

LEMMA BeforeIn ==
    ASSUME NEW s, NEW x, NEW y, Before(s, x, y)
    PROVE  x \in ToSet(s) /\ y \in ToSet(s)
  BY DEF Before, ToSet

LEMMA Joint ==
    ASSUME NEW T, NEW s \in Seq(T), NEW q \in Seq(T)
    PROVE  /\ s \o q \in Seq(T) /\ Len(s \o q) = Len(s) + Len(q)
           /\ ToSet(s \o q) = ToSet(s) \cup ToSet(q)
           /\ \A x, y : Before(s \o q, x, y) <=> (Before(s, x, y) \/ Before(q, x, y) \/ (x \in ToSet(s) /\ y \in ToSet(q)))
<1>1. /\ s \o q \in Seq(T) /\ Len(s \o q) = Len(s) + Len(q) /\ Len(s) \in Nat /\ Len(q) \in Nat
      /\ DOMAIN (s \o q) = 1..(Len(s) + Len(q)) /\ DOMAIN s = 1..Len(s) /\ DOMAIN q = 1..Len(q)
      /\ \A i \in 1..(Len(s) + Len(q)) : (s \o q)[i] = IF i <= Len(s) THEN s[i] ELSE q[i - Len(s)]
  OBVIOUS
<1>2. \A i \in 1..Len(s) : i \in 1..(Len(s) + Len(q)) /\ (s \o q)[i] = s[i]
  BY <1>1
<1>3. ASSUME NEW i \in 1..Len(q)
      PROVE  i + Len(s) \in 1..(Len(s) + Len(q)) /\ (s \o q)[i + Len(s)] = q[i]
  <2>1. i + Len(s) \in 1..(Len(s) + Len(q)) /\ ~(i + Len(s) <= Len(s)) /\ (i + Len(s)) - Len(s) = i
    BY <1>1
  <2> QED
    BY <1>1, <2>1
<1>4. ToSet(s \o q) = ToSet(s) \cup ToSet(q)
  <2>1. ASSUME NEW x \in ToSet(s \o q) PROVE x \in ToSet(s) \cup ToSet(q)
    <3>1. PICK i \in 1..(Len(s) + Len(q)) : (s \o q)[i] = x
      BY <1>1, <2>1 DEF ToSet
    <3>2. i \in 1..Len(s) \/ (i - Len(s) \in 1..Len(q) /\ ~(i <= Len(s)))
      BY <1>1
    <3>3. CASE i \in 1..Len(s)
      BY <1>1, <1>2, <3>1, <3>3 DEF ToSet
    <3>4. CASE i - Len(s) \in 1..Len(q) /\ ~(i <= Len(s))
      <4>1. (s \o q)[i] = q[i - Len(s)]
        BY <1>1, <3>4
      <4> QED
        BY <1>1, <3>1, <3>4, <4>1 DEF ToSet
    <3> QED
      BY <3>2, <3>3, <3>4
  <2>2. ToSet(s) \subseteq ToSet(s \o q)
    BY <1>1, <1>2 DEF ToSet
  <2>3. ToSet(q) \subseteq ToSet(s \o q)
    BY <1>1, <1>3 DEF ToSet
  <2> QED
    BY <2>1, <2>2, <2>3
<1>5. ASSUME NEW x, NEW y, Before(s \o q, x, y)
      PROVE  Before(s, x, y) \/ Before(q, x, y) \/ (x \in ToSet(s) /\ y \in ToSet(q))
  <2>1. PICK i, j \in 1..(Len(s) + Len(q)) : i < j /\ (s \o q)[i] = x /\ (s \o q)[j] = y
    BY <1>1, <1>5 DEF Before
  <2>2. CASE j <= Len(s)
    <3>1. i \in 1..Len(s) /\ j \in 1..Len(s)
      BY <1>1, <2>1, <2>2
    <3> QED
      BY <1>1, <1>2, <2>1, <3>1 DEF Before
  <2>3. CASE ~(i <= Len(s))
    <3>1. i - Len(s) \in 1..Len(q) /\ j - Len(s) \in 1..Len(q) /\ i - Len(s) < j - Len(s) /\ ~(j <= Len(s))
      BY <1>1, <2>1, <2>3
    <3>2. q[i - Len(s)] = x /\ q[j - Len(s)] = y
      BY <1>1, <2>1, <2>3, <3>1
    <3> QED
      BY <1>1, <3>1, <3>2 DEF Before
  <2>4. CASE i <= Len(s) /\ ~(j <= Len(s))
    <3>1. i \in 1..Len(s) /\ j - Len(s) \in 1..Len(q)
      BY <1>1, <2>1, <2>4
    <3>2. s[i] = x /\ q[j - Len(s)] = y
      BY <1>1, <2>1, <2>4, <3>1
    <3> QED
      BY <1>1, <3>1, <3>2 DEF ToSet
  <2> QED
    BY <2>2, <2>3, <2>4
<1>6. ASSUME NEW x, NEW y, Before(s, x, y) PROVE Before(s \o q, x, y)
  BY <1>1, <1>2, <1>6 DEF Before
<1>7. ASSUME NEW x, NEW y, Before(q, x, y) PROVE Before(s \o q, x, y)
  <2>1. PICK i, j \in 1..Len(q) : i < j /\ q[i] = x /\ q[j] = y
    BY <1>1, <1>7 DEF Before
  <2>2. i + Len(s) < j + Len(s)
    BY <1>1, <2>1
  <2>3. /\ i + Len(s) \in DOMAIN (s \o q) /\ j + Len(s) \in DOMAIN (s \o q)
        /\ (s \o q)[i + Len(s)] = x /\ (s \o q)[j + Len(s)] = y
    BY <1>1, <1>3, <2>1
  <2> QED
    BY <2>2, <2>3 DEF Before
<1>8. ASSUME NEW x \in ToSet(s), NEW y \in ToSet(q) PROVE Before(s \o q, x, y)
  <2>1. PICK i \in 1..Len(s), j \in 1..Len(q) : s[i] = x /\ q[j] = y
    BY <1>1 DEF ToSet
  <2>2. i < j + Len(s)
    BY <1>1, <2>1
  <2>3. /\ i \in DOMAIN (s \o q) /\ j + Len(s) \in DOMAIN (s \o q)
        /\ (s \o q)[i] = x /\ (s \o q)[j + Len(s)] = y
    BY <1>1, <1>2, <1>3, <2>1
  <2> QED
    BY <2>2, <2>3 DEF Before
<1> QED
  BY <1>1, <1>4, <1>5, <1>6, <1>7, <1>8

LEMMA OneMore ==
    ASSUME NEW T, NEW s \in Seq(T), NEW e \in T
    PROVE  /\ Append(s, e) = s \o <<e>> /\ Append(s, e) \in Seq(T) /\ Len(Append(s, e)) = Len(s) + 1
           /\ ToSet(Append(s, e)) = ToSet(s) \cup {e}
           /\ \A x, y : Before(Append(s, e), x, y) <=> (Before(s, x, y) \/ (x \in ToSet(s) /\ y = e))
<1>1. Append(s, e) = s \o <<e>> /\ Append(s, e) \in Seq(T)
  OBVIOUS
<1>2. <<e>> \in Seq(T) /\ Len(<<e>>) = 1 /\ ToSet(<<e>>) = {e} /\ \A x, y : ~Before(<<e>>, x, y)
  BY SingleIs1
<1>3. PICK q : q = <<e>>
  OBVIOUS
<1> HIDE DEF Before
<1>4. /\ s \o q \in Seq(T) /\ Len(s \o q) = Len(s) + Len(q)
      /\ ToSet(s \o q) = ToSet(s) \cup ToSet(q)
      /\ \A x, y : Before(s \o q, x, y) <=> (Before(s, x, y) \/ Before(q, x, y) \/ (x \in ToSet(s) /\ y \in ToSet(q)))
  BY <1>2, <1>3, Joint
<1> QED
  BY ONLY <1>1, <1>2, <1>3, <1>4

LEMMA Parted ==
    ASSUME NEW T, NEW s \in Seq(T), NEW k \in 0..Len(s)
    PROVE  /\ SubSeq(s, 1, k) \in Seq(T) /\ SubSeq(s, k + 1, Len(s)) \in Seq(T)
           /\ Len(SubSeq(s, 1, k)) = k /\ Len(SubSeq(s, k + 1, Len(s))) = Len(s) - k
           /\ s = SubSeq(s, 1, k) \o SubSeq(s, k + 1, Len(s))
           /\ \A i \in 1..k : SubSeq(s, 1, k)[i] = s[i]
           /\ \A i \in 1..(Len(s) - k) : SubSeq(s, k + 1, Len(s))[i] = s[i + k]
<1>1. Len(s) \in Nat /\ k \in Nat /\ k <= Len(s) /\ \A i \in 1..Len(s) : s[i] \in T
  OBVIOUS
<1>2. PICK p : p = SubSeq(s, 1, k)
  OBVIOUS
<1>3. PICK q : q = SubSeq(s, k + 1, Len(s))
  OBVIOUS
<1>4. p \in Seq(T) /\ Len(p) = k /\ \A i \in 1..k : p[i] = s[i]
  BY <1>1, <1>2
<1>5. q \in Seq(T) /\ Len(q) = Len(s) - k /\ \A i \in 1..(Len(s) - k) : q[i] = s[i + k]
  BY <1>1, <1>3
<1>6. 1 \in 1..(Len(s) + 1) /\ k \in (1 - 1)..Len(s) /\ Len(s) \in k..Len(s)
  BY <1>1
<1>7. SubSeq(s, 1, k) \o SubSeq(s, k + 1, Len(s)) = SubSeq(s, 1, Len(s))
  BY ONLY <1>6, s \in Seq(T), ConcatAdjacentSubSeq
<1>8. SubSeq(s, 1, Len(s)) = s
  BY SubSeqFull
<1> QED
  BY ONLY <1>2, <1>3, <1>4, <1>5, <1>7, <1>8

(* What holds of 0 and of each number after one it holds of, up to n.      *)
LEMMA UpTo ==
    ASSUME NEW n \in Nat, NEW T, 0 \in T, \A k \in 1..n : k - 1 \in T => k \in T
    PROVE  \A k \in 0..n : k \in T
<1> DEFINE bad == (0..n) \ T
<1>1. SUFFICES ASSUME bad # {} PROVE FALSE
  OBVIOUS
<1>2. bad \subseteq Nat
  OBVIOUS
<1>3. PICK m \in bad : \A x \in bad : m <= x
  <2> HIDE DEF bad
  <2> QED
    BY <1>1, <1>2, LeastOf
<1>4. m \in 1..n /\ m \notin T /\ m - 1 \in 0..n
  BY <1>3
<1>5. m - 1 \notin bad
  BY <1>3, <1>4
<1> QED
  BY <1>4, <1>5

HeldBy(s, k) == {s[i] : i \in 1..k}
BeforeBy(s, k, x, y) == \E i, j \in 1..k : i < j /\ s[i] = x /\ s[j] = y

LEMMA HeldByOneMore ==
    ASSUME NEW s, NEW k \in Nat, k > 0
    PROVE  /\ HeldBy(s, k) = HeldBy(s, k - 1) \cup {s[k]}
           /\ \A x, y : BeforeBy(s, k, x, y) <=> (BeforeBy(s, k - 1, x, y) \/ (x \in HeldBy(s, k - 1) /\ y = s[k]))
<1>1. 1..k = 1..(k - 1) \cup {k} /\ \A i \in 1..(k - 1) : i < k /\ ~(k < i) /\ k \notin 1..(k - 1)
  OBVIOUS
<1>2. HeldBy(s, k) = HeldBy(s, k - 1) \cup {s[k]}
  BY <1>1 DEF HeldBy
<1>3. ASSUME NEW x, NEW y, BeforeBy(s, k, x, y)
      PROVE  BeforeBy(s, k - 1, x, y) \/ (x \in HeldBy(s, k - 1) /\ y = s[k])
  <2>1. PICK i, j \in 1..k : i < j /\ s[i] = x /\ s[j] = y
    BY <1>3 DEF BeforeBy
  <2>2. CASE j = k
    BY <1>1, <2>1, <2>2 DEF HeldBy
  <2>3. CASE j # k
    <3>1. i \in 1..(k - 1) /\ j \in 1..(k - 1)
      BY <2>1, <2>3
    <3> QED
      BY <2>1, <3>1 DEF BeforeBy
  <2> QED
    BY <2>2, <2>3
<1>4. ASSUME NEW x, NEW y, BeforeBy(s, k - 1, x, y) PROVE BeforeBy(s, k, x, y)
  BY <1>1, <1>4 DEF BeforeBy
<1>5. ASSUME NEW x \in HeldBy(s, k - 1), NEW y, y = s[k] PROVE BeforeBy(s, k, x, y)
  <2>1. PICK i \in 1..(k - 1) : s[i] = x
    BY DEF HeldBy
  <2>2. i \in 1..k /\ k \in 1..k /\ i < k
    OBVIOUS
  <2> QED
    BY <1>5, <2>1, <2>2 DEF BeforeBy
<1> QED
  BY <1>2, <1>3, <1>4, <1>5

LEMMA HeldByAll ==
    ASSUME NEW T, NEW s \in Seq(T)
    PROVE  /\ HeldBy(s, Len(s)) = ToSet(s)
           /\ \A x, y : BeforeBy(s, Len(s), x, y) <=> Before(s, x, y)
<1>1. DOMAIN s = 1..Len(s)
  OBVIOUS
<1> QED
  BY <1>1 DEF HeldBy, BeforeBy, ToSet, Before

LEMMA NothingHeld ==
    ASSUME NEW s
    PROVE  HeldBy(s, 0) = {} /\ \A x, y : ~BeforeBy(s, 0, x, y)
<1>1. 1..0 = {}
  OBVIOUS
<1> QED
  BY <1>1 DEF HeldBy, BeforeBy

(* What the recursive definition of Only computes, for every sequence.     *)
LEMMA OnlyIs ==
    ASSUME NEW T, NEW s \in Seq(T), NEW S
    PROVE  /\ Only(s, S) \in Seq(T \cap S) /\ Only(s, S) \in Seq(T)
           /\ ToSet(Only(s, S)) = ToSet(s) \cap S /\ Len(Only(s, S)) <= Len(s)
           /\ \A x, y : Before(Only(s, S), x, y) <=> (Before(s, x, y) /\ x \in S /\ y \in S)
<1> DEFINE At1(f, i) == IF i = 0 THEN <<>> ELSE IF s[i] \in S THEN Append(f[i - 1], s[i]) ELSE f[i - 1]
           Filters(f, n) == f = [i \in 0..n |-> At1(f, i)]
           Right(f, i) == /\ f[i] \in Seq(T \cap S) /\ ToSet(f[i]) = HeldBy(s, i) \cap S /\ Len(f[i]) <= i
                          /\ \A x, y : Before(f[i], x, y) <=> (BeforeBy(s, i, x, y) /\ x \in S /\ y \in S)
           n == Len(s)
<1>1. n \in Nat /\ \A i \in 1..n : s[i] \in T
  OBVIOUS
<1>2. \E f : Filters(f, n)
  <2> DEFINE good == {k \in 0..n : \E f : Filters(f, k)}
  <2>1. 0 \in good
    <3> DEFINE g == [i \in 0..0 |-> <<>>]
    <3>1. Filters(g, 0)
      OBVIOUS
    <3> HIDE DEF g
    <3>2. \E f : Filters(f, 0)
      BY <3>1
    <3> QED
      BY <1>1, <3>2
  <2>2. ASSUME NEW k \in 1..n, k - 1 \in good PROVE k \in good
    <3>1. PICK f : Filters(f, k - 1)
      BY <2>2
    <3> DEFINE g == [i \in 0..k |-> IF i = k THEN At1(f, k) ELSE f[i]]
    <3>a. \A i \in 0..(k - 1) : f[i] = At1(f, i)
      BY <3>1
    <3>2. \A i \in 0..(k - 1) : g[i] = f[i]
      BY <1>1
    <3>3. \A i \in 0..k : g[i] = At1(g, i)
      <4>1. g[k] = At1(f, k)
        BY <1>1
      <4>2. \A i \in 1..k : g[i - 1] = f[i - 1]
        BY <1>1, <3>2
      <4>3. At1(g, k) = At1(f, k)
        BY <1>1, <4>2
      <4>4. \A i \in 0..(k - 1) : At1(g, i) = At1(f, i)
        BY <1>1, <4>2
      <4>5. 0..k = 0..(k - 1) \cup {k}
        BY <1>1
      <4> HIDE DEF g, At1
      <4> QED
        BY <3>2, <3>a, <4>1, <4>3, <4>4, <4>5
    <3>4. g = [i \in 0..k |-> g[i]]
      OBVIOUS
    <3> HIDE DEF g
    <3>5. Filters(g, k)
      BY <3>3, <3>4
    <3> QED
      BY <1>1, <3>5, SMTT(30)
  <2> HIDE DEF good
  <2>3. \A k \in 1..n : k - 1 \in good => k \in good
    BY <2>2
  <2>4. n \in Nat /\ n \in 0..n
    BY <1>1
  <2> HIDE DEF n
  <2>5. n \in good
    BY <2>1, <2>3, <2>4, UpTo
  <2> QED
    BY <2>5 DEF good
<1> DEFINE f == CHOOSE f : Filters(f, n)
<1>3. Filters(f, n) /\ Only(s, S) = f[n]
  <2>1. Filters(f, n)
    BY <1>2
  <2>2. Only(s, S) = f[n]
    BY DEF Only
  <2> QED
    BY <2>1, <2>2
<1> HIDE DEF f
<1>4. \A i \in 0..n : f[i] = At1(f, i)
  BY <1>3
<1>5. \A i \in 0..n : Right(f, i)
  <2> DEFINE good == {k \in 0..n : Right(f, k)}
  <2>1. 0 \in good
    <3>1. f[0] = <<>>
      BY <1>1, <1>4
    <3>2. Right(f, 0)
      BY <3>1, NothingHeld DEF ToSet, Before
    <3> QED
      BY <1>1, <3>2
  <2>2. ASSUME NEW k \in 1..n, k - 1 \in good PROVE k \in good
    <3>1. Right(f, k - 1) /\ k \in 0..n /\ k \in Nat /\ k > 0
      BY <1>1, <2>2
    <3>2. f[k] = IF s[k] \in S THEN Append(f[k - 1], s[k]) ELSE f[k - 1]
      BY <1>1, <1>4
    <3>3. /\ HeldBy(s, k) = HeldBy(s, k - 1) \cup {s[k]}
          /\ \A x, y : BeforeBy(s, k, x, y) <=> (BeforeBy(s, k - 1, x, y) \/ (x \in HeldBy(s, k - 1) /\ y = s[k]))
      BY <3>1, HeldByOneMore
    <3>4. Right(f, k)
      <4>a. PICK was : was = f[k - 1]
        OBVIOUS
      <4>b. PICK e : e = s[k]
        OBVIOUS
      <4>c. PICK U : U = T \cap S
        OBVIOUS
      <4>d. was \in Seq(U) /\ Len(was) \in Nat /\ Len(was) <= k - 1
        BY <3>1, <4>a, <4>c
      <4>1. CASE s[k] \in S
        <5>1. f[k] = Append(was, e) /\ e \in U
          BY <1>1, <3>2, <4>1, <4>a, <4>b, <4>c
        <5>2. /\ Append(was, e) \in Seq(U) /\ Len(Append(was, e)) = Len(was) + 1
              /\ ToSet(Append(was, e)) = ToSet(was) \cup {e}
              /\ \A x, y : Before(Append(was, e), x, y) <=> (Before(was, x, y) \/ (x \in ToSet(was) /\ y = e))
          BY ONLY <4>d, <5>1, OneMore
        <5>3. Len(was) + 1 <= k
          BY <4>d, <3>1
        <5> HIDE DEF Before
        <5> QED
          BY <3>1, <3>3, <4>1, <4>a, <4>b, <4>c, <5>1, <5>2, <5>3
      <4>2. CASE s[k] \notin S
        <5>1. Len(was) <= k
          BY <4>d, <3>1
        <5> QED
          BY <3>1, <3>2, <3>3, <4>2, <4>a, <4>c, <5>1
      <4> QED
        BY <4>1, <4>2
    <3> QED
      BY <3>1, <3>4
  <2> HIDE DEF good
  <2>3. \A k \in 0..n : k \in good
    BY <1>1, <2>1, <2>2, UpTo
  <2> QED
    BY <2>3 DEF good
<1>6. n \in 0..n
  BY <1>1
<1>7. Right(f, n)
  BY <1>5, <1>6
<1> HIDE DEF f, n
<1>8. /\ HeldBy(s, n) = ToSet(s)
      /\ \A x, y : BeforeBy(s, n, x, y) <=> Before(s, x, y)
  BY HeldByAll DEF n
<1>9. PICK r : r = f[n]
  OBVIOUS
<1>10. PICK U : U = T \cap S
  OBVIOUS
<1>11. r \in Seq(U) /\ U \subseteq T
  BY <1>7, <1>9, <1>10
<1>12. r \in Seq(T)
  BY ONLY <1>11, SeqMonotonic
<1> QED
  BY <1>3, <1>7, <1>8, <1>9, <1>10, <1>11, <1>12, ZenonT(60) DEF n

HeldIn(us, k) == UNION {ToSet(us[i]) : i \in 1..k}
InOrder(us, k, x, y) ==
  (\E i \in 1..k : Before(us[i], x, y)) \/ \E i, j \in 1..k : i < j /\ x \in ToSet(us[i]) /\ y \in ToSet(us[j])

LEMMA HeldInOneMore ==
    ASSUME NEW us, NEW k \in Nat, k > 1
    PROVE  /\ HeldIn(us, k) = HeldIn(us, k - 1) \cup ToSet(us[k])
           /\ \A x, y : InOrder(us, k, x, y) <=>
                (InOrder(us, k - 1, x, y) \/ Before(us[k], x, y) \/ (x \in HeldIn(us, k - 1) /\ y \in ToSet(us[k])))
<1>1. 1..k = 1..(k - 1) \cup {k} /\ \A i \in 1..(k - 1) : i < k /\ ~(k < i)
  OBVIOUS
<1>2. HeldIn(us, k) = HeldIn(us, k - 1) \cup ToSet(us[k])
  BY <1>1 DEF HeldIn
<1>3. ASSUME NEW x, NEW y, InOrder(us, k, x, y)
      PROVE  InOrder(us, k - 1, x, y) \/ Before(us[k], x, y) \/ (x \in HeldIn(us, k - 1) /\ y \in ToSet(us[k]))
  <2>1. CASE \E i \in 1..k : Before(us[i], x, y)
    BY <1>1, <2>1 DEF InOrder
  <2>2. CASE \E i, j \in 1..k : i < j /\ x \in ToSet(us[i]) /\ y \in ToSet(us[j])
    <3>1. PICK i, j \in 1..k : i < j /\ x \in ToSet(us[i]) /\ y \in ToSet(us[j])
      BY <2>2
    <3>2. i \in 1..(k - 1) /\ (j = k \/ j \in 1..(k - 1))
      BY <3>1
    <3> QED
      BY <3>1, <3>2 DEF InOrder, HeldIn
  <2> QED
    BY <1>3, <2>1, <2>2 DEF InOrder
<1>4. ASSUME NEW x, NEW y, InOrder(us, k - 1, x, y) PROVE InOrder(us, k, x, y)
  BY <1>1, <1>4 DEF InOrder
<1>5. ASSUME NEW x, NEW y, Before(us[k], x, y) PROVE InOrder(us, k, x, y)
  BY <1>1, <1>5 DEF InOrder
<1>6. ASSUME NEW x \in HeldIn(us, k - 1), NEW y \in ToSet(us[k]) PROVE InOrder(us, k, x, y)
  <2>1. PICK i \in 1..(k - 1) : x \in ToSet(us[i])
    BY DEF HeldIn
  <2>2. i \in 1..k /\ k \in 1..k /\ i < k
    OBVIOUS
  <2> QED
    BY <2>1, <2>2 DEF InOrder
<1> QED
  BY <1>2, <1>3, <1>4, <1>5, <1>6

(* What the recursive definition of FlattenSeq computes.                   *)
LEMMA FlattenIs ==
    ASSUME NEW T, NEW us \in Seq(Seq(T))
    PROVE  /\ FlattenSeq(us) \in Seq(T)
           /\ ToSet(FlattenSeq(us)) = HeldIn(us, Len(us))
           /\ \A x, y : Before(FlattenSeq(us), x, y) <=> InOrder(us, Len(us), x, y)
<1> DEFINE Step1(f, i) == IF i = 1 THEN us[i] ELSE f[i - 1] \o us[i]
           Flattens(f, n) == f = [i \in 1..n |-> Step1(f, i)]
           Right(f, i) == /\ f[i] \in Seq(T) /\ ToSet(f[i]) = HeldIn(us, i)
                          /\ \A x, y : Before(f[i], x, y) <=> InOrder(us, i, x, y)
           n == Len(us)
<1>1. n \in Nat /\ \A i \in 1..n : us[i] \in Seq(T)
  OBVIOUS
<1>2. \E f : Flattens(f, n)
  <2> DEFINE good == {k \in 0..n : \E f : Flattens(f, k)}
  <2>1. 0 \in good
    <3>1. 1..0 = {}
      OBVIOUS
    <3> DEFINE g == [i \in 1..0 |-> <<>>]
    <3>2. Flattens(g, 0)
      BY <3>1
    <3> HIDE DEF g
    <3>3. \E f : Flattens(f, 0)
      BY <3>2
    <3> HIDE DEF Flattens
    <3> QED
      BY <1>1, <3>3
  <2>2. ASSUME NEW k \in 1..n, k - 1 \in good PROVE k \in good
    <3>1. PICK f : Flattens(f, k - 1)
      BY <2>2
    <3> DEFINE g == [i \in 1..k |-> IF i = k THEN Step1(f, k) ELSE f[i]]
    <3>a. \A i \in 1..(k - 1) : f[i] = Step1(f, i)
      BY <3>1
    <3>2. \A i \in 1..(k - 1) : g[i] = f[i]
      BY <1>1
    <3>3. \A i \in 1..k : g[i] = Step1(g, i)
      <4>1. g[k] = Step1(f, k)
        BY <1>1
      <4>2. k # 1 => g[k - 1] = f[k - 1]
        BY <1>1, <3>2
      <4>3. Step1(g, k) = Step1(f, k)
        BY <1>1, <4>2
      <4>4. \A i \in 1..(k - 1) : Step1(g, i) = Step1(f, i)
        <5>1. \A i \in 1..(k - 1) : i # 1 => i - 1 \in 1..(k - 1)
          BY <1>1
        <5> HIDE DEF g
        <5> QED
          BY <3>2, <5>1
      <4>5. 1..k = 1..(k - 1) \cup {k}
        BY <1>1
      <4> HIDE DEF g, Step1
      <4> QED
        BY <3>2, <3>a, <4>1, <4>3, <4>4, <4>5
    <3>4. g = [i \in 1..k |-> g[i]]
      OBVIOUS
    <3> HIDE DEF g
    <3>5. Flattens(g, k)
      BY <3>3, <3>4
    <3>6. \E h : Flattens(h, k)
      BY <3>5
    <3> HIDE DEF Flattens
    <3> QED
      BY <1>1, <3>6
  <2> HIDE DEF good
  <2>3. \A k \in 1..n : k - 1 \in good => k \in good
    BY <2>2
  <2>4. n \in Nat /\ n \in 0..n
    BY <1>1
  <2> HIDE DEF n
  <2>5. n \in good
    BY <2>1, <2>3, <2>4, UpTo
  <2> QED
    BY <2>5 DEF good
<1> DEFINE f == CHOOSE f : Flattens(f, n)
<1>3. Flattens(f, n)
  BY <1>2
<1>b. n # 0 => FlattenSeq(us) = f[n]
  BY DEF FlattenSeq
<1>c. n = 0 => FlattenSeq(us) = <<>>
  BY DEF FlattenSeq
<1> HIDE DEF f
<1>4. \A i \in 1..n : f[i] = Step1(f, i)
  BY <1>3
<1>5. \A i \in 1..n : Right(f, i)
  <2> DEFINE good == {k \in 0..n : k = 0 \/ Right(f, k)}
  <2>1. 0 \in good
    BY <1>1
  <2>2. ASSUME NEW k \in 1..n, k - 1 \in good PROVE k \in good
    <3>1. k \in 0..n /\ k \in Nat
      BY <1>1
    <3>2. Right(f, k)
      <4>1. CASE k = 1
        <5>1. f[1] = us[1] /\ us[1] \in Seq(T)
          BY <1>1, <1>4, <4>1
        <5>2. 1..1 = {1} /\ ~(1 < 1)
          OBVIOUS
        <5>3. HeldIn(us, 1) = ToSet(us[1])
          BY <5>2 DEF HeldIn
        <5>4. \A x, y : Before(us[1], x, y) <=> InOrder(us, 1, x, y)
          <6> HIDE DEF Before
          <6> QED
            BY <5>2 DEF InOrder
        <5> QED
          BY <4>1, <5>1, <5>3, <5>4
      <4>2. CASE k # 1
        <5>1. k - 1 # 0 /\ k > 1
          BY <3>1, <4>2
        <5> HIDE DEF Right
        <5>2. Right(f, k - 1)
          BY <2>2, <5>1
        <5>a. PICK was : was = f[k - 1]
          OBVIOUS
        <5>b. PICK e : e = us[k]
          OBVIOUS
        <5>3. /\ was \in Seq(T) /\ ToSet(was) = HeldIn(us, k - 1)
              /\ \A x, y : Before(was, x, y) <=> InOrder(us, k - 1, x, y)
          BY <5>2, <5>a DEF Right
        <5>4. f[k] = was \o e /\ e \in Seq(T)
          BY <1>1, <1>4, <4>2, <5>a, <5>b
        <5>5. /\ was \o e \in Seq(T) /\ ToSet(was \o e) = ToSet(was) \cup ToSet(e)
              /\ \A x, y : Before(was \o e, x, y) <=> (Before(was, x, y) \/ Before(e, x, y) \/ (x \in ToSet(was) /\ y \in ToSet(e)))
          BY ONLY <5>3, <5>4, Joint
        <5>6. /\ HeldIn(us, k) = HeldIn(us, k - 1) \cup ToSet(us[k])
              /\ \A x, y : InOrder(us, k, x, y) <=>
                   (InOrder(us, k - 1, x, y) \/ Before(us[k], x, y) \/ (x \in HeldIn(us, k - 1) /\ y \in ToSet(us[k])))
          BY <3>1, <5>1, HeldInOneMore
        <5> HIDE DEF Before, InOrder
        <5> QED
          BY <5>b, <5>3, <5>4, <5>5, <5>6 DEF Right
      <4> QED
        BY <4>1, <4>2
    <3> QED
      BY <3>1, <3>2
  <2> HIDE DEF good
  <2>3. \A k \in 0..n : k \in good
    BY <1>1, <2>1, <2>2, UpTo
  <2>4. \A k \in 1..n : k \in 0..n /\ k # 0
    BY <1>1
  <2> HIDE DEF Right
  <2> QED
    BY <2>3, <2>4 DEF good
<1>6. CASE n = 0
  <2>1. 1..0 = {}
    OBVIOUS
  <2>2. HeldIn(us, 0) = {} /\ \A x, y : ~InOrder(us, 0, x, y)
    BY <2>1 DEF HeldIn, InOrder
  <2>3. <<>> \in Seq(T) /\ ToSet(<<>>) = {}
    BY DEF ToSet
  <2> QED
    BY <1>6, <1>c, <2>2, <2>3, NoneBefore
<1>7. CASE n # 0
  <2>1. n \in 1..n
    BY <1>1, <1>7
  <2> HIDE DEF Right
  <2>2. Right(f, n)
    BY <1>5, <2>1
  <2> QED
    BY <1>7, <1>b, <2>2 DEF Right
<1> QED
  BY <1>6, <1>7

LEMMA FlattenHas ==
    ASSUME NEW T, NEW us \in Seq(Seq(T))
    PROVE  /\ FlattenSeq(us) \in Seq(T)
           /\ ToSet(FlattenSeq(us)) = UNION {ToSet(u) : u \in ToSet(us)}
           /\ \A x, y : Before(FlattenSeq(us), x, y) <=>
                ((\E u \in ToSet(us) : Before(u, x, y))
                  \/ \E u, v \in ToSet(us) : Before(us, u, v) /\ x \in ToSet(u) /\ y \in ToSet(v))
<1>1. DOMAIN us = 1..Len(us)
  OBVIOUS
<1>2. HeldIn(us, Len(us)) = UNION {ToSet(u) : u \in ToSet(us)}
  <2>1. ToSet(us) = {us[i] : i \in 1..Len(us)}
    BY <1>1 DEF ToSet
  <2> QED
    BY <2>1 DEF HeldIn
<1>3. ASSUME NEW x, NEW y
      PROVE  InOrder(us, Len(us), x, y) <=>
               ((\E u \in ToSet(us) : Before(u, x, y))
                 \/ \E u, v \in ToSet(us) : Before(us, u, v) /\ x \in ToSet(u) /\ y \in ToSet(v))
  <2>1. ToSet(us) = {us[i] : i \in 1..Len(us)}
    BY <1>1 DEF ToSet
  <2>2. \A u, v : Before(us, u, v) <=> \E i, j \in 1..Len(us) : i < j /\ us[i] = u /\ us[j] = v
    BY <1>1 DEF Before
  <2> HIDE DEF Before
  <2>3. ASSUME InOrder(us, Len(us), x, y)
        PROVE  (\E u \in ToSet(us) : Before(u, x, y))
                 \/ \E u, v \in ToSet(us) : Before(us, u, v) /\ x \in ToSet(u) /\ y \in ToSet(v)
    <3>1. CASE \E i \in 1..Len(us) : Before(us[i], x, y)
      BY <2>1, <3>1
    <3>2. CASE \E i, j \in 1..Len(us) : i < j /\ x \in ToSet(us[i]) /\ y \in ToSet(us[j])
      <4>1. PICK i, j \in 1..Len(us) : i < j /\ x \in ToSet(us[i]) /\ y \in ToSet(us[j])
        BY <3>2
      <4>2. Before(us, us[i], us[j]) /\ us[i] \in ToSet(us) /\ us[j] \in ToSet(us)
        BY <2>1, <2>2, <4>1
      <4> QED
        BY <4>1, <4>2
    <3> QED
      BY <2>3, <3>1, <3>2 DEF InOrder
  <2>4. ASSUME NEW u \in ToSet(us), Before(u, x, y) PROVE InOrder(us, Len(us), x, y)
    BY <2>1, <2>4 DEF InOrder
  <2>5. ASSUME NEW u \in ToSet(us), NEW v \in ToSet(us), Before(us, u, v), x \in ToSet(u), y \in ToSet(v)
        PROVE  InOrder(us, Len(us), x, y)
    <3>1. PICK i, j \in 1..Len(us) : i < j /\ us[i] = u /\ us[j] = v
      BY <2>2, <2>5
    <3>2. x \in ToSet(us[i]) /\ y \in ToSet(us[j])
      BY <2>5, <3>1
    <3> QED
      BY <3>1, <3>2 DEF InOrder
  <2> QED
    BY <2>3, <2>4, <2>5
<1> QED
  BY <1>2, <1>3, FlattenIs

(* A sequence without repetitions is its elements in their order.          *)
LEMMA SameSeq ==
    ASSUME NEW T, NEW s \in Seq(T), NEW q \in Seq(T), IsInjective(s), IsInjective(q),
           ToSet(s) = ToSet(q), \A x, y : Before(s, x, y) => Before(q, x, y)
    PROVE  s = q
<1>1. /\ Len(s) \in Nat /\ Len(q) \in Nat /\ DOMAIN s = 1..Len(s) /\ DOMAIN q = 1..Len(q)
      /\ \A x : ~Before(s, x, x) /\ ~Before(q, x, x)
  BY Numbered, OnceIs
<1>2. ASSUME NEW x, NEW y, Before(q, x, y) PROVE Before(s, x, y)
  <2>1. x # y /\ x \in ToSet(s) /\ y \in ToSet(s)
    BY <1>1, <1>2, BeforeIn
  <2>2. Before(s, x, y) \/ Before(s, y, x)
    <3>1. PICK i \in 1..Len(s), j \in 1..Len(s) : s[i] = x /\ s[j] = y
      BY <1>1, <2>1 DEF ToSet
    <3>2. i < j \/ j < i
      BY <2>1, <3>1
    <3> QED
      BY <1>1, <3>1, <3>2 DEF Before
  <2>3. ~Before(q, y, x)
    <3>1. SUFFICES ASSUME Before(q, y, x) PROVE FALSE
      OBVIOUS
    <3>2. PICK i, j \in 1..Len(q) : i < j /\ q[i] = x /\ q[j] = y
      BY <1>1, <1>2 DEF Before
    <3>3. PICK k, l \in 1..Len(q) : k < l /\ q[k] = y /\ q[l] = x
      BY <1>1, <3>1 DEF Before
    <3>4. i = l /\ j = k
      BY <1>1, <3>2, <3>3 DEF IsInjective
    <3> QED
      BY <3>2, <3>3, <3>4
  <2> QED
    BY <2>2, <2>3
<1> DEFINE good == {k \in 0..Len(s) : k = 0 \/ (k <= Len(q) /\ q[k] = s[k])}
<1>3. \A k \in 0..Len(s) : k \in good
  <2> DEFINE all == {k \in 0..Len(s) : \A i \in 1..k : i <= Len(q) /\ q[i] = s[i]}
  <2>1. 0 \in all
    BY <1>1
  <2>2. ASSUME NEW k \in 1..Len(s), k - 1 \in all PROVE k \in all
    <3>1. \A i \in 1..(k - 1) : i <= Len(q) /\ q[i] = s[i]
      BY <2>2
    <3>2. PICK l \in 1..Len(q) : q[l] = s[k]
      BY <1>1 DEF ToSet
    <3>3. ~(l < k)
      <4>1. SUFFICES ASSUME l < k PROVE FALSE
        OBVIOUS
      <4>2. l \in 1..(k - 1) /\ l \in 1..Len(s)
        BY <1>1, <4>1
      <4>3. s[l] = s[k]
        BY <3>1, <3>2, <4>2
      <4> QED
        BY <1>1, <4>1, <4>2, <4>3 DEF IsInjective
    <3>4. k \in 1..Len(q)
      BY <1>1, <3>2, <3>3
    <3>5. PICK m \in 1..Len(s) : s[m] = q[k]
      BY <1>1, <3>4 DEF ToSet
    <3>6. ~(m < k)
      <4>1. SUFFICES ASSUME m < k PROVE FALSE
        OBVIOUS
      <4>2. m \in 1..(k - 1) /\ m \in 1..Len(q)
        BY <1>1, <3>4, <4>1
      <4>3. q[m] = q[k]
        BY <3>1, <3>5, <4>2
      <4> QED
        BY <1>1, <3>4, <4>1, <4>2, <4>3 DEF IsInjective
    <3>7. m = k
      <4>1. SUFFICES ASSUME k < m PROVE FALSE
        BY <1>1, <3>6
      <4>2. Before(s, s[k], s[m])
        BY <1>1, <4>1 DEF Before
      <4>3. Before(q, q[l], q[k])
        BY <3>2, <3>5, <4>2
      <4>4. PICK i, j \in 1..Len(q) : i < j /\ q[i] = q[l] /\ q[j] = q[k]
        BY <1>1, <4>3 DEF Before
      <4>5. i = l /\ j = k
        BY <1>1, <3>4, <4>4 DEF IsInjective
      <4> QED
        BY <3>3, <4>4, <4>5
    <3>8. \A i \in 1..k : i = k \/ i \in 1..(k - 1)
      OBVIOUS
    <3>9. \A i \in 1..k : i <= Len(q) /\ q[i] = s[i]
      BY <1>1, <3>1, <3>4, <3>5, <3>7, <3>8
    <3>10. k \in 0..Len(s)
      BY <1>1
    <3> QED
      BY <3>9, <3>10
  <2> HIDE DEF all
  <2>3. \A k \in 0..Len(s) : k \in all
    BY <1>1, <2>1, <2>2, UpTo
  <2>4. \A k \in 1..Len(s) : k \in 1..k /\ k \in 0..Len(s)
    BY <1>1
  <2>5. \A k \in 1..Len(s) : k <= Len(q) /\ q[k] = s[k]
    BY <2>3, <2>4 DEF all
  <2>6. \A k \in 0..Len(s) : k = 0 \/ k \in 1..Len(s)
    BY <1>1
  <2> QED
    BY <2>5, <2>6
<1>4. \A k \in 1..Len(s) : k <= Len(q) /\ q[k] = s[k]
  BY <1>1, <1>3
<1>5. Len(s) <= Len(q)
  <2>1. CASE Len(s) = 0
    BY <1>1, <2>1
  <2>2. CASE Len(s) # 0
    <3>1. Len(s) \in 1..Len(s)
      BY ONLY <1>1, <2>2
    <3> QED
      BY <1>4, <3>1
  <2> QED
    BY <2>1, <2>2
<1>6. ~(Len(s) < Len(q))
  <2>1. SUFFICES ASSUME Len(s) < Len(q) PROVE FALSE
    OBVIOUS
  <2>2. Len(q) \in 1..Len(q)
    BY <1>1, <2>1
  <2>3. PICK m \in 1..Len(s) : s[m] = q[Len(q)]
    BY <1>1, <2>2 DEF ToSet
  <2>4. q[m] = q[Len(q)] /\ m \in 1..Len(q)
    BY <1>1, <1>4, <2>3
  <2>5. m = Len(q)
    BY <1>1, <2>2, <2>4 DEF IsInjective
  <2> QED
    BY <1>1, <2>1, <2>3, <2>5
<1>7. Len(s) = Len(q)
  BY ONLY Len(s) \in Nat, Len(q) \in Nat, <1>5, <1>6
<1>8. \A i \in 1..Len(s) : s[i] = q[i]
  BY <1>4
<1> QED
  BY ONLY <1>7, <1>8, s \in Seq(T), q \in Seq(T), SeqEqual

(* Find gives the first place of an element, and 0 for what is not there.  *)
LEMMA FindIs ==
    ASSUME NEW T, NEW s \in Seq(T), NEW x
    PROVE  /\ Find(s, x) \in 0..Len(s)
           /\ x \in ToSet(s) => Find(s, x) \in 1..Len(s) /\ s[Find(s, x)] = x
           /\ x \notin ToSet(s) => Find(s, x) = 0
<1>1. Len(s) \in Nat /\ DOMAIN s = 1..Len(s)
  OBVIOUS
<1>2. PICK I : I = {i \in 1..Len(s) : s[i] = x}
  OBVIOUS
<1>3. Find(s, x) = IF I # {} THEN Min(I) ELSE 0
  BY <1>2 DEF Find, SelectInSeq
<1>4. I \subseteq Nat
  BY <1>2
<1>5. I # {} => Min(I) \in I
  BY <1>4, LeastOf
<1>6. I # {} <=> x \in ToSet(s)
  BY <1>1, <1>2 DEF ToSet
<1>7. 0 \in 0..Len(s) /\ \A i \in I : i \in 1..Len(s) /\ i \in 0..Len(s) /\ s[i] = x
  BY <1>1, <1>2
<1> QED
  BY <1>3, <1>5, <1>6, <1>7

LEMMA SplicedIs ==
    ASSUME NEW T, NEW s \in Seq(T), NEW q \in Seq(T), NEW k \in 0..Len(s)
    PROVE  /\ Spliced(s, k, q) \in Seq(T) /\ ToSet(Spliced(s, k, q)) = ToSet(s) \cup ToSet(q)
           /\ \A x, y : Before(Spliced(s, k, q), x, y) <=>
                \/ Before(s, x, y) \/ Before(q, x, y)
                \/ (y \in ToSet(q) /\ \E j \in 1..k : s[j] = x)
                \/ (x \in ToSet(q) /\ \E j \in (k+1)..Len(s) : s[j] = y)
<1>1. Len(s) \in Nat /\ k \in Nat /\ k <= Len(s)
  OBVIOUS
<1>2. PICK p : p = SubSeq(s, 1, k)
  OBVIOUS
<1>3. PICK r : r = SubSeq(s, k + 1, Len(s))
  OBVIOUS
<1>4. /\ p \in Seq(T) /\ r \in Seq(T) /\ Len(p) = k /\ Len(r) = Len(s) - k /\ s = p \o r
      /\ \A i \in 1..k : p[i] = s[i]
      /\ \A i \in 1..(Len(s) - k) : r[i] = s[i + k]
  BY <1>2, <1>3, Parted
<1>5. PICK h : h = p \o q
  OBVIOUS
<1>6. Spliced(s, k, q) = h \o r
  BY <1>2, <1>3, <1>5 DEF Spliced
<1> HIDE DEF Before
<1>7. /\ h \in Seq(T) /\ ToSet(h) = ToSet(p) \cup ToSet(q)
      /\ \A x, y : Before(h, x, y) <=> (Before(p, x, y) \/ Before(q, x, y) \/ (x \in ToSet(p) /\ y \in ToSet(q)))
  BY <1>4, <1>5, Joint
<1>8. /\ h \o r \in Seq(T) /\ ToSet(h \o r) = ToSet(h) \cup ToSet(r)
      /\ \A x, y : Before(h \o r, x, y) <=> (Before(h, x, y) \/ Before(r, x, y) \/ (x \in ToSet(h) /\ y \in ToSet(r)))
  BY <1>4, <1>7, Joint
<1>9. /\ ToSet(s) = ToSet(p) \cup ToSet(r)
      /\ \A x, y : Before(s, x, y) <=> (Before(p, x, y) \/ Before(r, x, y) \/ (x \in ToSet(p) /\ y \in ToSet(r)))
  BY <1>4, Joint
<1>10. \A x : x \in ToSet(p) <=> \E j \in 1..k : s[j] = x
  <2>1. DOMAIN p = 1..k
    BY <1>4
  <2> QED
    BY <1>4, <2>1, ZenonT(60) DEF ToSet
<1>11. \A x : x \in ToSet(r) <=> \E j \in (k+1)..Len(s) : s[j] = x
  <2>1. DOMAIN r = 1..(Len(s) - k)
    BY <1>1, <1>4
  <2>2. \A i \in 1..(Len(s) - k) : i + k \in (k+1)..Len(s)
    BY <1>1
  <2>3. \A j \in (k+1)..Len(s) : j - k \in 1..(Len(s) - k) /\ (j - k) + k = j
    BY <1>1
  <2>4. ASSUME NEW x, x \in ToSet(r) PROVE \E j \in (k+1)..Len(s) : s[j] = x
    <3>1. PICK i \in 1..(Len(s) - k) : r[i] = x
      BY <2>1, <2>4 DEF ToSet
    <3>2. s[i + k] = x
      BY <1>4, <3>1
    <3> QED
      BY <2>2, <3>2
  <2>5. ASSUME NEW j \in (k+1)..Len(s) PROVE s[j] \in ToSet(r)
    <3>1. r[j - k] = s[j]
      BY <1>4, <2>3
    <3> QED
      BY <2>1, <2>3, <3>1 DEF ToSet
  <2> QED
    BY <2>4, <2>5
<1> QED
  BY <1>6, <1>7, <1>8, <1>9, <1>10, <1>11

(***************************************************************************)
(* The units of a strip: kin are the tabs of one group, and a tab alone.   *)
(***************************************************************************)
Kin(B, x, y) == x = y \/ (B.group[x] # None /\ B.group[x] = B.group[y])
Leads(B, s, i) == \A j \in 1..(i - 1) : ~Kin(B, s[j], s[i])
Regrouped(B, s) == FlattenSeq(Units(B, s))
Whole(B, s) == \A x, y, z : Before(s, x, y) /\ Before(s, y, z) /\ Kin(B, x, z) => Kin(B, x, y)
LeadersFirst(B, s, x, y) ==
  \E i, j \in 1..Len(s) : i < j /\ Leads(B, s, i) /\ Leads(B, s, j) /\ Kin(B, s[i], x) /\ Kin(B, s[j], y)

LEMMA KinIs ==
    ASSUME NEW B
    PROVE  /\ \A x : Kin(B, x, x)
           /\ \A x, y : Kin(B, x, y) => Kin(B, y, x)
           /\ \A x, y, z : Kin(B, x, y) /\ Kin(B, y, z) => Kin(B, x, z)
  BY DEF Kin

LEMMA UnitAtIs ==
    ASSUME NEW B, NEW s \in Seq(Tabs), IsInjective(s), NEW i \in 1..Len(s)
    PROVE  /\ UnitAt(B, s, i) \in Seq(Tabs)
           /\ ~Leads(B, s, i) => UnitAt(B, s, i) = <<>>
           /\ Leads(B, s, i) =>
                /\ ToSet(UnitAt(B, s, i)) = {x \in ToSet(s) : Kin(B, s[i], x)}
                /\ \A x, y : Before(UnitAt(B, s, i), x, y) <=> (Before(s, x, y) /\ Kin(B, s[i], x) /\ Kin(B, s[i], y))
<1>1. /\ Len(s) \in Nat /\ DOMAIN s = 1..Len(s) /\ \A j \in 1..Len(s) : s[j] \in Tabs
      /\ ToSet(s) \subseteq Tabs /\ s[i] \in ToSet(s) /\ \A x : ~Before(s, x, x)
  BY Numbered, OnceIs DEF ToSet
<1>2. \A j \in 1..(i - 1) : j \in 1..Len(s) /\ j # i
  BY <1>1
<1>3. PICK g : g = B.group[s[i]]
  OBVIOUS
<1>4. CASE g = None
  <2>1. UnitAt(B, s, i) = <<s[i]>>
    BY <1>3, <1>4 DEF UnitAt
  <2>2. /\ <<s[i]>> \in Seq(Tabs) /\ ToSet(<<s[i]>>) = {s[i]} /\ \A x, y : ~Before(<<s[i]>>, x, y)
    BY <1>1, SingleIs1
  <2>3. \A x : Kin(B, s[i], x) <=> x = s[i]
    BY <1>3, <1>4 DEF Kin
  <2>4. Leads(B, s, i)
    <3>1. \A j \in 1..(i - 1) : s[j] # s[i]
      BY <1>1, <1>2 DEF IsInjective
    <3>2. \A x : Kin(B, x, s[i]) => x = s[i]
      BY <2>3, KinIs
    <3> QED
      BY <3>1, <3>2 DEF Leads
  <2> HIDE DEF Before, Kin
  <2> QED
    BY <1>1, <2>1, <2>2, <2>3, <2>4
<1>5. CASE g # None
  <2>1. UnitAt(B, s, i) = IF \E j \in 1..(i-1) : B.group[s[j]] = g THEN <<>> ELSE Only(s, InGroup(B, g))
    BY <1>3, <1>5 DEF UnitAt
  <2>2. \A x : Kin(B, s[i], x) <=> x = s[i] \/ B.group[x] = g
    BY <1>3, <1>5 DEF Kin
  <2>3. \A j \in 1..(i - 1) : Kin(B, s[j], s[i]) <=> B.group[s[j]] = g
    <3>1. \A j \in 1..(i - 1) : s[j] # s[i]
      BY <1>1, <1>2 DEF IsInjective
    <3> QED
      BY <1>3, <1>5, <3>1 DEF Kin
  <2>4. Leads(B, s, i) <=> ~\E j \in 1..(i-1) : B.group[s[j]] = g
    BY <2>3 DEF Leads
  <2>5. PICK u : u = Only(s, InGroup(B, g))
    OBVIOUS
  <2> HIDE DEF Before, Kin
  <2>6. /\ u \in Seq(Tabs) /\ ToSet(u) = ToSet(s) \cap InGroup(B, g)
        /\ \A x, y : Before(u, x, y) <=> (Before(s, x, y) /\ x \in InGroup(B, g) /\ y \in InGroup(B, g))
    BY <2>5, OnlyIs
  <2>7. \A x \in ToSet(s) : x \in InGroup(B, g) <=> Kin(B, s[i], x)
    BY <1>1, <1>3, <2>2 DEF InGroup
  <2>8. \A x, y : Before(s, x, y) => x \in ToSet(s) /\ y \in ToSet(s)
    BY BeforeIn
  <2>9. <<>> \in Seq(Tabs)
    OBVIOUS
  <2> QED
    BY <2>1, <2>4, <2>5, <2>6, <2>7, <2>8, <2>9
<1> QED
  BY <1>4, <1>5

LEMMA LeaderOf ==
    ASSUME NEW B, NEW s \in Seq(Tabs), NEW k \in 1..Len(s)
    PROVE  \E i \in 1..k : Kin(B, s[i], s[k]) /\ Leads(B, s, i)
<1>1. Len(s) \in Nat /\ k \in Nat /\ k \in 1..k
  OBVIOUS
<1>2. PICK S : S = {i \in 1..k : Kin(B, s[i], s[k])}
  OBVIOUS
<1>3. S \subseteq Nat /\ k \in S
  BY <1>1, <1>2, KinIs
<1>4. PICK i \in S : \A j \in S : i <= j
  BY <1>3, LeastOf
<1>5. i \in 1..k /\ Kin(B, s[i], s[k])
  BY <1>2
<1>6. ASSUME NEW j \in 1..(i - 1), Kin(B, s[j], s[i]) PROVE FALSE
  <2>1. Kin(B, s[j], s[k])
    BY <1>5, <1>6, KinIs
  <2>2. j \in 1..k /\ ~(i <= j)
    BY <1>5
  <2> QED
    BY <1>2, <1>4, <2>1, <2>2
<1> QED
  BY <1>5, <1>6 DEF Leads

LEMMA UnitsAre ==
    ASSUME NEW B, NEW s \in Seq(Tabs), IsInjective(s)
    PROVE  /\ Units(B, s) \in Seq(Seq(Tabs))
           /\ ToSet(Units(B, s)) = {UnitAt(B, s, i) : i \in {j \in 1..Len(s) : Leads(B, s, j)}}
           /\ \A u, v : Before(Units(B, s), u, v) <=>
                \E i, j \in 1..Len(s) : /\ i < j /\ Leads(B, s, i) /\ Leads(B, s, j)
                                        /\ u = UnitAt(B, s, i) /\ v = UnitAt(B, s, j)
<1>1. Len(s) \in Nat /\ DOMAIN s = 1..Len(s) /\ \A i \in 1..Len(s) : s[i] \in ToSet(s)
  BY Numbered DEF ToSet
<1>2. \A i \in 1..Len(s) : UnitAt(B, s, i) \in Seq(Tabs)
  BY UnitAtIs
<1>3. PICK us : us = [i \in 1..Len(s) |-> UnitAt(B, s, i)]
  OBVIOUS
<1>4. us \in Seq(Seq(Tabs)) /\ DOMAIN us = 1..Len(s)
  BY <1>1, <1>2, <1>3
<1>5. PICK S : S = ToSet(us) \ {<<>>}
  OBVIOUS
<1>6. Units(B, s) = Only(us, S)
  BY <1>3, <1>5 DEF Units, Without
<1> HIDE DEF Before
<1>7. /\ Only(us, S) \in Seq(Seq(Tabs)) /\ ToSet(Only(us, S)) = ToSet(us) \cap S
      /\ \A x, y : Before(Only(us, S), x, y) <=> (Before(us, x, y) /\ x \in S /\ y \in S)
  BY <1>4, OnlyIs
<1>8. \A i \in 1..Len(s) : UnitAt(B, s, i) # <<>> <=> Leads(B, s, i)
  <2>1. ASSUME NEW i \in 1..Len(s), Leads(B, s, i) PROVE UnitAt(B, s, i) # <<>>
    <3>a. Kin(B, s[i], s[i])
      BY KinIs
    <3>b. ToSet(UnitAt(B, s, i)) = {x \in ToSet(s) : Kin(B, s[i], x)}
      BY <2>1, UnitAtIs
    <3>1. s[i] \in ToSet(UnitAt(B, s, i))
      BY <1>1, <3>a, <3>b
    <3>2. ToSet(<<>>) = {}
      BY DEF ToSet
    <3> QED
      BY <3>1, <3>2
  <2> QED
    BY <2>1, UnitAtIs
<1>9. ToSet(us) = {UnitAt(B, s, i) : i \in 1..Len(s)}
  BY <1>3, <1>4 DEF ToSet
<1>10. ToSet(us) \cap S = {UnitAt(B, s, i) : i \in {j \in 1..Len(s) : Leads(B, s, j)}}
  BY <1>5, <1>8, <1>9
<1>11. \A u, v : Before(us, u, v) <=> \E i, j \in 1..Len(s) : i < j /\ UnitAt(B, s, i) = u /\ UnitAt(B, s, j) = v
  BY <1>3, <1>4 DEF Before
<1>12. \A i \in 1..Len(s) : UnitAt(B, s, i) \in S <=> Leads(B, s, i)
  BY <1>5, <1>8, <1>9
<1> QED
  BY <1>6, <1>7, <1>10, <1>11, <1>12

LEMMA OneLeader ==
    ASSUME NEW B, NEW s \in Seq(Tabs), NEW i \in 1..Len(s), NEW j \in 1..Len(s),
           Leads(B, s, i), Leads(B, s, j), Kin(B, s[i], s[j])
    PROVE  i = j
<1>1. Len(s) \in Nat
  OBVIOUS
<1>2. ~(i < j)
  <2>1. i < j => i \in 1..(j - 1)
    BY <1>1
  <2> QED
    BY <2>1 DEF Leads
<1>3. ~(j < i)
  <2>1. j < i => j \in 1..(i - 1)
    BY <1>1
  <2> QED
    BY <2>1, KinIs DEF Leads
<1> QED
  BY <1>1, <1>2, <1>3

LEMMA Either ==
    ASSUME NEW T, NEW s \in Seq(T), NEW x \in ToSet(s), NEW y \in ToSet(s), x # y
    PROVE  Before(s, x, y) \/ Before(s, y, x)
<1>1. DOMAIN s = 1..Len(s) /\ Len(s) \in Nat
  OBVIOUS
<1>2. PICK i \in 1..Len(s), j \in 1..Len(s) : s[i] = x /\ s[j] = y
  BY <1>1 DEF ToSet
<1>3. i < j \/ j < i
  BY <1>2
<1> QED
  BY <1>1, <1>2, <1>3 DEF Before

LEMMA OneWay ==
    ASSUME NEW T, NEW s \in Seq(T), IsInjective(s), NEW x, NEW y, Before(s, x, y)
    PROVE  ~Before(s, y, x)
<1>1. DOMAIN s = 1..Len(s) /\ Len(s) \in Nat
  OBVIOUS
<1>2. SUFFICES ASSUME Before(s, y, x) PROVE FALSE
  OBVIOUS
<1>3. PICK i, j \in 1..Len(s) : i < j /\ s[i] = x /\ s[j] = y
  BY <1>1 DEF Before
<1>4. PICK k, l \in 1..Len(s) : k < l /\ s[k] = y /\ s[l] = x
  BY <1>1, <1>2 DEF Before
<1>5. i = l /\ j = k
  BY <1>1, <1>3, <1>4 DEF IsInjective
<1> QED
  BY <1>3, <1>4, <1>5

LEMMA Onwards ==
    ASSUME NEW T, NEW s \in Seq(T), IsInjective(s), NEW x, NEW y, NEW z, Before(s, x, y), Before(s, y, z)
    PROVE  Before(s, x, z)
<1>1. DOMAIN s = 1..Len(s) /\ Len(s) \in Nat
  OBVIOUS
<1>2. PICK i, j \in 1..Len(s) : i < j /\ s[i] = x /\ s[j] = y
  BY <1>1 DEF Before
<1>3. PICK k, l \in 1..Len(s) : k < l /\ s[k] = y /\ s[l] = z
  BY <1>1 DEF Before
<1>4. j = k
  BY <1>1, <1>2, <1>3 DEF IsInjective
<1>5. i < l
  BY <1>2, <1>3, <1>4
<1> QED
  BY <1>1, <1>2, <1>3, <1>5 DEF Before

(* Regrouping keeps the tabs; kin keep their order and stand where the     *)
(* first of them stood.                                                    *)
LEMMA RegroupedIs ==
    ASSUME NEW B, NEW s \in Seq(Tabs), IsInjective(s)
    PROVE  /\ Regrouped(B, s) \in Seq(Tabs) /\ ToSet(Regrouped(B, s)) = ToSet(s) /\ IsInjective(Regrouped(B, s))
           /\ \A x, y \in ToSet(s) : Before(Regrouped(B, s), x, y) <=>
                                       IF Kin(B, x, y) THEN Before(s, x, y) ELSE LeadersFirst(B, s, x, y)
<1>1. /\ Len(s) \in Nat /\ DOMAIN s = 1..Len(s) /\ ToSet(s) = {s[i] : i \in 1..Len(s)}
      /\ \A x : ~Before(s, x, x)
  BY Numbered, OnceIs DEF ToSet
<1>2. PICK us : us = Units(B, s)
  OBVIOUS
<1>3. PICK r : r = Regrouped(B, s)
  OBVIOUS
<1> HIDE DEF Before, Kin, Leads
<1>4. /\ us \in Seq(Seq(Tabs))
      /\ ToSet(us) = {UnitAt(B, s, i) : i \in {j \in 1..Len(s) : Leads(B, s, j)}}
      /\ \A u, v : Before(us, u, v) <=>
                \E i, j \in 1..Len(s) : /\ i < j /\ Leads(B, s, i) /\ Leads(B, s, j)
                                        /\ u = UnitAt(B, s, i) /\ v = UnitAt(B, s, j)
  BY <1>2, UnitsAre
<1>5. /\ r \in Seq(Tabs) /\ ToSet(r) = UNION {ToSet(u) : u \in ToSet(us)}
      /\ \A x, y : Before(r, x, y) <=>
                ((\E u \in ToSet(us) : Before(u, x, y))
                  \/ \E u, v \in ToSet(us) : Before(us, u, v) /\ x \in ToSet(u) /\ y \in ToSet(v))
  <2>1. r = FlattenSeq(us)
    BY <1>2, <1>3 DEF Regrouped
  <2>2. us \in Seq(Seq(Tabs))
    BY <1>4
  <2> HIDE DEF Before
  <2> QED
    BY ONLY <2>1, <2>2, FlattenHas
<1>6. \A i \in 1..Len(s) : Leads(B, s, i) =>
        /\ ToSet(UnitAt(B, s, i)) = {x \in ToSet(s) : Kin(B, s[i], x)}
        /\ \A x, y : Before(UnitAt(B, s, i), x, y) <=> (Before(s, x, y) /\ Kin(B, s[i], x) /\ Kin(B, s[i], y))
  BY UnitAtIs
<1>7. \A x \in ToSet(s) : \E i \in 1..Len(s) : Leads(B, s, i) /\ Kin(B, s[i], x)
  <2>1. SUFFICES ASSUME NEW k \in 1..Len(s) PROVE \E i \in 1..Len(s) : Leads(B, s, i) /\ Kin(B, s[i], s[k])
    BY <1>1
  <2>2. \A i \in 1..k : i \in 1..Len(s)
    BY <1>1
  <2> QED
    BY <2>2, LeaderOf
<1>8. ToSet(r) = ToSet(s)
  <2>1. ASSUME NEW x \in ToSet(r) PROVE x \in ToSet(s)
    BY <1>4, <1>5, <1>6
  <2>2. ASSUME NEW x \in ToSet(s) PROVE x \in ToSet(r)
    <3>1. PICK i \in 1..Len(s) : Leads(B, s, i) /\ Kin(B, s[i], x)
      BY <1>7
    <3>2. x \in ToSet(UnitAt(B, s, i)) /\ UnitAt(B, s, i) \in ToSet(us)
      BY <1>4, <1>6, <3>1
    <3> QED
      BY <1>5, <3>2
  <2> QED
    BY <2>1, <2>2
<1>9. ASSUME NEW x, NEW y
      PROVE  Before(r, x, y) <=>
               \/ \E i \in 1..Len(s) : Leads(B, s, i) /\ Before(s, x, y) /\ Kin(B, s[i], x) /\ Kin(B, s[i], y)
               \/ x \in ToSet(s) /\ y \in ToSet(s) /\ LeadersFirst(B, s, x, y)
  <2>1. (\E u \in ToSet(us) : Before(u, x, y)) <=>
          \E i \in 1..Len(s) : Leads(B, s, i) /\ Before(s, x, y) /\ Kin(B, s[i], x) /\ Kin(B, s[i], y)
    BY <1>4, <1>6
  <2>2. ASSUME NEW u \in ToSet(us), NEW v \in ToSet(us), Before(us, u, v), x \in ToSet(u), y \in ToSet(v)
        PROVE  x \in ToSet(s) /\ y \in ToSet(s) /\ LeadersFirst(B, s, x, y)
    <3>1. PICK i, j \in 1..Len(s) : /\ i < j /\ Leads(B, s, i) /\ Leads(B, s, j)
                                    /\ u = UnitAt(B, s, i) /\ v = UnitAt(B, s, j)
      BY <1>4, <2>2
    <3>2. x \in ToSet(s) /\ Kin(B, s[i], x) /\ y \in ToSet(s) /\ Kin(B, s[j], y)
      BY <1>6, <2>2, <3>1
    <3> QED
      BY <3>1, <3>2 DEF LeadersFirst
  <2>3. ASSUME x \in ToSet(s), y \in ToSet(s), LeadersFirst(B, s, x, y)
        PROVE  \E u, v \in ToSet(us) : Before(us, u, v) /\ x \in ToSet(u) /\ y \in ToSet(v)
    <3>1. PICK i, j \in 1..Len(s) : i < j /\ Leads(B, s, i) /\ Leads(B, s, j) /\ Kin(B, s[i], x) /\ Kin(B, s[j], y)
      BY <2>3 DEF LeadersFirst
    <3>2. Before(us, UnitAt(B, s, i), UnitAt(B, s, j)) /\ UnitAt(B, s, i) \in ToSet(us) /\ UnitAt(B, s, j) \in ToSet(us)
      BY <1>4, <3>1
    <3>3. x \in ToSet(UnitAt(B, s, i)) /\ y \in ToSet(UnitAt(B, s, j))
      BY <1>6, <2>3, <3>1
    <3> QED
      BY <3>2, <3>3
  <2> QED
    BY <1>5, <2>1, <2>2, <2>3
<1>10. ASSUME NEW x, NEW y, LeadersFirst(B, s, x, y) PROVE ~Kin(B, x, y)
  <2>1. PICK i, j \in 1..Len(s) : i < j /\ Leads(B, s, i) /\ Leads(B, s, j) /\ Kin(B, s[i], x) /\ Kin(B, s[j], y)
    BY <1>10 DEF LeadersFirst
  <2>2. SUFFICES ASSUME Kin(B, x, y) PROVE FALSE
    OBVIOUS
  <2>3. Kin(B, s[i], s[j])
    BY <2>1, <2>2, KinIs
  <2>4. i = j
    BY <2>1, <2>3, OneLeader
  <2> QED
    BY <2>1, <2>4
<1>11. ASSUME NEW x \in ToSet(s), NEW y \in ToSet(s)
       PROVE  Before(r, x, y) <=> IF Kin(B, x, y) THEN Before(s, x, y) ELSE LeadersFirst(B, s, x, y)
  <2>1. (\E i \in 1..Len(s) : Leads(B, s, i) /\ Before(s, x, y) /\ Kin(B, s[i], x) /\ Kin(B, s[i], y))
          <=> Before(s, x, y) /\ Kin(B, x, y)
    BY <1>7, KinIs
  <2> QED
    BY <1>9, <1>10, <2>1
<1>12. IsInjective(r)
  <2>1. ASSUME NEW x, Before(r, x, x) PROVE FALSE
    <3>1. x \in ToSet(s)
      BY <1>8, <2>1, BeforeIn
    <3> QED
      BY <1>1, <1>11, <2>1, <3>1, KinIs
  <2> QED
    BY <1>5, <2>1, OnceIs
<1> QED
  BY <1>3, <1>5, <1>8, <1>11, <1>12

(* Regrouped, a group stands together.                                     *)
LEMMA RegroupedIsWhole ==
    ASSUME NEW B, NEW s \in Seq(Tabs), IsInjective(s)
    PROVE  Whole(B, Regrouped(B, s))
<1>1. PICK r : r = Regrouped(B, s)
  OBVIOUS
<1>2. Len(s) \in Nat
  OBVIOUS
<1> HIDE DEF Before, Kin, Leads
<1>3. /\ ToSet(r) = ToSet(s)
      /\ \A x, y \in ToSet(s) : Before(r, x, y) <=> IF Kin(B, x, y) THEN Before(s, x, y) ELSE LeadersFirst(B, s, x, y)
  BY <1>1, RegroupedIs
<1>4. SUFFICES ASSUME NEW x, NEW y, NEW z, Before(r, x, y), Before(r, y, z), Kin(B, x, z), ~Kin(B, x, y) PROVE FALSE
  BY <1>1 DEF Whole
<1>5. x \in ToSet(s) /\ y \in ToSet(s) /\ z \in ToSet(s)
  BY <1>3, <1>4, BeforeIn
<1>6. ~Kin(B, y, z)
  BY <1>4, KinIs
<1>7. PICK i, j \in 1..Len(s) : i < j /\ Leads(B, s, i) /\ Leads(B, s, j) /\ Kin(B, s[i], x) /\ Kin(B, s[j], y)
  BY <1>3, <1>4, <1>5 DEF LeadersFirst
<1>8. PICK k, l \in 1..Len(s) : k < l /\ Leads(B, s, k) /\ Leads(B, s, l) /\ Kin(B, s[k], y) /\ Kin(B, s[l], z)
  BY <1>3, <1>4, <1>5, <1>6 DEF LeadersFirst
<1>9. Kin(B, s[j], s[k]) /\ Kin(B, s[i], s[l])
  BY <1>4, <1>7, <1>8, KinIs
<1>10. j = k /\ i = l
  BY <1>7, <1>8, <1>9, OneLeader
<1> QED
  BY <1>7, <1>8, <1>10

(* A strip whose groups stand together stays as it is.                     *)
LEMMA WholeStays ==
    ASSUME NEW B, NEW s \in Seq(Tabs), IsInjective(s), Whole(B, s)
    PROVE  Regrouped(B, s) = s
<1>1. PICK r : r = Regrouped(B, s)
  OBVIOUS
<1>2. Len(s) \in Nat /\ DOMAIN s = 1..Len(s)
  OBVIOUS
<1> HIDE DEF Kin, Leads
<1>3. /\ r \in Seq(Tabs) /\ ToSet(r) = ToSet(s) /\ IsInjective(r)
      /\ \A x, y \in ToSet(s) : Before(r, x, y) <=> IF Kin(B, x, y) THEN Before(s, x, y) ELSE LeadersFirst(B, s, x, y)
  BY <1>1, RegroupedIs
<1>4. ASSUME NEW x, NEW y, Before(s, x, y) PROVE Before(r, x, y)
  <2>1. x \in ToSet(s) /\ y \in ToSet(s)
    BY <1>4, BeforeIn
  <2>2. CASE Kin(B, x, y)
    BY <1>3, <1>4, <2>1, <2>2
  <2>3. CASE ~Kin(B, x, y)
    <3>1. PICK k, l \in 1..Len(s) : k < l /\ s[k] = x /\ s[l] = y
      BY <1>2, <1>4 DEF Before
    <3>2. PICK i \in 1..k : Kin(B, s[i], s[k]) /\ Leads(B, s, i)
      BY LeaderOf
    <3>3. PICK j \in 1..l : Kin(B, s[j], s[l]) /\ Leads(B, s, j)
      BY LeaderOf
    <3>4. i \in 1..Len(s) /\ j \in 1..Len(s)
      BY <1>2
    <3>5. i # j
      BY <2>3, <3>1, <3>2, <3>3, KinIs
    <3>6. ~(j < i)
      <4>1. SUFFICES ASSUME j < i PROVE FALSE
        OBVIOUS
      <4>2. j < k /\ k < l
        BY <3>1, <4>1
      <4>3. Before(s, s[j], s[k]) /\ Before(s, s[k], s[l])
        BY <1>2, <3>1, <3>4, <4>2 DEF Before
      <4>4. Kin(B, s[j], s[k])
        BY <3>3, <4>3 DEF Whole
      <4>5. Kin(B, s[k], s[l])
        BY <3>3, <4>4, KinIs
      <4> QED
        BY <2>3, <3>1, <4>5
    <3>7. i < j
      BY <3>4, <3>5, <3>6
    <3>8. LeadersFirst(B, s, x, y)
      BY <3>1, <3>2, <3>3, <3>4, <3>7 DEF LeadersFirst
    <3> QED
      BY <1>3, <2>1, <2>3, <3>8
  <2> QED
    BY <2>2, <2>3
<1>5. s = r
  <2> HIDE DEF Before
  <2> QED
    BY <1>3, <1>4, SameSeq
<1> QED
  BY <1>1, <1>5

(***************************************************************************)
(* A browser whose tabs are where they should be, before its groups stand  *)
(* together and its windows show something; and what settling makes of it. *)
(***************************************************************************)
Ready(B) ==
  /\ B \in Browsers /\ B.pinned \subseteq OpenTabs(B)
  /\ \A w \in Windows : IsInjective(B.strip[w])
  /\ \A v, w \in Windows : \A t : t \in ToSet(B.strip[v]) /\ t \in ToSet(B.strip[w]) => v = w
  /\ \A t \in Tabs : B.group[t] # None => t \in OpenTabs(B) \ B.pinned /\ B.title[B.group[t]] # "none"
  /\ \A v, w \in Windows : \A t, x :
       t \in ToSet(B.strip[v]) /\ x \in ToSet(B.strip[w]) /\ B.group[t] # None /\ B.group[t] = B.group[x] => v = w

Showing(B) == \A w \in Windows : IF B.strip[w] = <<>> THEN B.shows[w] = None ELSE B.shows[w] \in ToSet(B.strip[w])

SettledFrom(B, C) ==
  /\ WellFormed(C)
  /\ C.group = B.group /\ C.pinned = B.pinned /\ C.title = B.title /\ C.page = B.page /\ C.shut \subseteq B.shut
  /\ \A w \in Windows : ToSet(C.strip[w]) = ToSet(B.strip[w])
  /\ \A w \in Windows :
       \/ C.shows[w] = B.shows[w]
       \/ B.shows[w] \notin ToSet(B.strip[w]) /\ (C.shows[w] # None => B.group[C.shows[w]] \notin C.shut)

LEMMA WholeIs ==
    ASSUME NEW B, NEW s \in Seq(Tabs), IsInjective(s)
    PROVE  StandsTogether(B, s) <=> Whole(B, s)
<1>1. Len(s) \in Nat /\ DOMAIN s = 1..Len(s)
  OBVIOUS
<1>2. ASSUME StandsTogether(B, s) PROVE Whole(B, s)
  <2>1. SUFFICES ASSUME NEW x, NEW y, NEW z, Before(s, x, y), Before(s, y, z), Kin(B, x, z) PROVE Kin(B, x, y)
    BY DEF Whole
  <2>2. PICK i, j \in 1..Len(s) : i < j /\ s[i] = x /\ s[j] = y
    BY <1>1, <2>1 DEF Before
  <2>3. PICK l, k \in 1..Len(s) : l < k /\ s[l] = y /\ s[k] = z
    BY <1>1, <2>1 DEF Before
  <2>4. l = j
    BY <1>1, <2>2, <2>3 DEF IsInjective
  <2>5. i < k /\ i # k
    BY <2>2, <2>3, <2>4
  <2>6. x # z
    BY <1>1, <2>2, <2>3, <2>5 DEF IsInjective
  <2>7. B.group[x] # None /\ B.group[x] = B.group[z]
    BY <2>1, <2>6 DEF Kin
  <2>8. B.group[s[i]] \in {None, B.group[s[j]]}
    BY <1>1, <1>2, <2>2, <2>3, <2>4, <2>7 DEF StandsTogether
  <2> QED
    BY <2>2, <2>7, <2>8 DEF Kin
<1>3. ASSUME Whole(B, s) PROVE StandsTogether(B, s)
  <2>1. SUFFICES ASSUME NEW i \in 1..Len(s), NEW j \in 1..Len(s), NEW k \in 1..Len(s), i < j, j < k,
                        B.group[s[i]] = B.group[s[k]], B.group[s[i]] # None
                 PROVE  B.group[s[i]] = B.group[s[j]]
    BY <1>1 DEF StandsTogether
  <2>2. Before(s, s[i], s[j]) /\ Before(s, s[j], s[k])
    BY <1>1, <2>1 DEF Before
  <2>3. Kin(B, s[i], s[k])
    BY <2>1 DEF Kin
  <2>4. Kin(B, s[i], s[j])
    BY <1>3, <2>2, <2>3 DEF Whole
  <2> QED
    BY <2>1, <2>4 DEF Kin
<1> QED
  BY <1>2, <1>3

LEMMA OpenIs ==
    ASSUME NEW B, NEW t
    PROVE  t \in OpenTabs(B) <=> \E w \in Windows : t \in ToSet(B.strip[w])
  BY DEF OpenTabs

LEMMA WellFormedIs ==
    ASSUME NEW B
    PROVE  WellFormed(B) <=> Ready(B) /\ Showing(B) /\ \A w \in Windows : StandsTogether(B, B.strip[w])
<1>1. Windows = {1, 2} /\ 1 # 2
  BY DEF Windows
<1>2. ASSUME WellFormed(B) PROVE Ready(B) /\ Showing(B) /\ \A w \in Windows : StandsTogether(B, B.strip[w])
  <2> USE <1>2 DEF WellFormed
  <2>1. B \in Browsers /\ B.pinned \subseteq OpenTabs(B) /\ \A w \in Windows : IsInjective(B.strip[w])
    OBVIOUS
  <2>2. \A v, w \in Windows : \A t : t \in ToSet(B.strip[v]) /\ t \in ToSet(B.strip[w]) => v = w
    BY <1>1
  <2>3. \A t \in Tabs : B.group[t] # None => t \in OpenTabs(B) \ B.pinned /\ B.title[B.group[t]] # "none"
    OBVIOUS
  <2>4. \A t \in ToSet(B.strip[1]), x \in ToSet(B.strip[2]) : B.group[t] # None => B.group[t] # B.group[x]
    OBVIOUS
  <2>5. Showing(B) /\ \A w \in Windows : StandsTogether(B, B.strip[w])
    BY DEF Showing
  <2> HIDE <1>2
  <2>6. \A v, w \in Windows : \A t, x :
       t \in ToSet(B.strip[v]) /\ x \in ToSet(B.strip[w]) /\ B.group[t] # None /\ B.group[t] = B.group[x] => v = w
    <3>1. SUFFICES ASSUME NEW v \in Windows, NEW w \in Windows, NEW t \in ToSet(B.strip[v]), NEW x \in ToSet(B.strip[w]),
                          B.group[t] # None, B.group[t] = B.group[x], v # w
                   PROVE FALSE
      OBVIOUS
    <3>2. (v = 1 /\ w = 2) \/ (v = 2 /\ w = 1)
      BY <1>1, <3>1
    <3> QED
      BY <2>4, <3>1, <3>2
  <2> QED
    BY <2>1, <2>2, <2>3, <2>5, <2>6 DEF Ready
<1>3. ASSUME Ready(B), Showing(B), \A w \in Windows : StandsTogether(B, B.strip[w]) PROVE WellFormed(B)
  <2>1. 1 \in Windows /\ 2 \in Windows
    BY <1>1
  <2>2. ToSet(B.strip[1]) \cap ToSet(B.strip[2]) = {}
    BY <1>1, <1>3, <2>1 DEF Ready
  <2>3. \A t \in ToSet(B.strip[1]), x \in ToSet(B.strip[2]) : B.group[t] # None => B.group[t] # B.group[x]
    BY <1>1, <1>3, <2>1 DEF Ready
  <2> QED
    BY <1>3, <2>2, <2>3 DEF Ready, Showing, WellFormed
<1> QED
  BY <1>2, <1>3

LEMMA BrowserIs ==
    ASSUME NEW B, Ready(B)
    PROVE  /\ \A w \in Windows : B.strip[w] \in Seq(Tabs) /\ IsInjective(B.strip[w])
           /\ \A t \in Tabs : B.group[t] \in Groups \cup {None}
           /\ B.shut \subseteq Groups /\ None \notin B.shut
           /\ OpenTabs(B) \subseteq Tabs /\ B.pinned \subseteq Tabs
           /\ None \notin Tabs /\ None \notin Groups /\ None \notin OpenTabs(B)
<1>1. None \notin Tabs /\ None \notin Groups
  BY StripAssumption
<1>2. /\ \A w \in Windows : B.strip[w] \in Seq(Tabs)
      /\ \A t \in Tabs : B.group[t] \in Groups \cup {None}
      /\ B.shut \subseteq Groups /\ B.pinned \subseteq Tabs
  BY DEF Ready, Browsers
<1>3. OpenTabs(B) \subseteq Tabs
  <2>1. \A w \in Windows : ToSet(B.strip[w]) \subseteq Tabs
    BY <1>2, Numbered
  <2> QED
    BY <2>1 DEF OpenTabs
<1> QED
  BY <1>1, <1>2, <1>3 DEF Ready

LEMMA WindowIs ==
    ASSUME NEW B, Ready(B), NEW t
    PROVE  /\ \A w \in Windows : t \in ToSet(B.strip[w]) => Window(B, t) = w
           /\ t \in OpenTabs(B) => Window(B, t) \in Windows /\ t \in ToSet(B.strip[Window(B, t)])
<1>1. \A v, w \in Windows : t \in ToSet(B.strip[v]) /\ t \in ToSet(B.strip[w]) => v = w
  BY DEF Ready
<1>2. ASSUME NEW w \in Windows, t \in ToSet(B.strip[w]) PROVE Window(B, t) = w
  BY <1>1, <1>2 DEF Window
<1> QED
  BY <1>2, OpenIs

LEMMA SettledIs ==
    ASSUME NEW B, Ready(B), NEW C \in Settled(B)
    PROVE  SettledFrom(B, C) /\ \A w \in Windows : C.strip[w] = Regrouped(B, B.strip[w])
<1> DEFINE strip == [w \in Windows |-> FlattenSeq(Units(B, B.strip[w]))]
           choices(w) == IF strip[w] = <<>> THEN {None}
                         ELSE IF B.shows[w] \in ToSet(strip[w]) THEN {B.shows[w]} ELSE ToSet(strip[w])
           opened(s) == {B.group[s[w]] : w \in {v \in Windows : s[v] # None /\ s[v] # B.shows[v]}}
<1>1. PICK s \in choices(1) \X choices(2) :
        C = [B EXCEPT !.strip = strip, !.shows = <<s[1], s[2]>>, !.shut = @ \ opened(s)]
  BY DEF Settled
<1>2. B \in Browsers /\ Windows = {1, 2}
  BY DEF Ready, Windows
<1>3. /\ C.group = B.group /\ C.pinned = B.pinned /\ C.title = B.title /\ C.page = B.page
      /\ C.shut = B.shut \ opened(s) /\ C.strip = strip /\ C.shows = <<s[1], s[2]>>
  <2> HIDE DEF strip, opened, choices
  <2> QED
    BY <1>1, <1>2 DEF Browsers
<1>4. \A w \in Windows : strip[w] = Regrouped(B, B.strip[w])
  BY DEF Regrouped
<1>5. \A w \in Windows : s[w] \in choices(w) /\ C.shows[w] = s[w]
  <2>1. s[1] \in choices(1) /\ s[2] \in choices(2)
    BY <1>1
  <2> QED
    BY <1>2, <1>3, <2>1
<1> HIDE DEF strip
<1>6. \A w \in Windows : /\ strip[w] \in Seq(Tabs) /\ IsInjective(strip[w]) /\ ToSet(strip[w]) = ToSet(B.strip[w])
                         /\ Whole(B, strip[w])
  BY <1>4, BrowserIs, RegroupedIs, RegroupedIsWhole
<1>7. \A w \in Windows : s[w] \in Tabs \cup {None} /\ (strip[w] # <<>> => s[w] \in ToSet(strip[w])) /\ (strip[w] = <<>> => s[w] = None)
  <2>1. \A w \in Windows : ToSet(strip[w]) \subseteq Tabs
    BY <1>6, Numbered
  <2> QED
    BY <1>5, <2>1
<1>8. C \in Browsers
  <2>1. strip \in [Windows -> Seq(Tabs)]
    BY <1>6 DEF strip
  <2>2. C.shows \in [Windows -> Tabs \cup {None}]
    BY <1>2, <1>3, <1>7
  <2>3. C = [B EXCEPT !.strip = C.strip, !.shows = C.shows, !.shut = C.shut]
    <3> HIDE DEF opened, choices
    <3> QED
      BY <1>1, <1>3
  <2>4. C.strip \in [Windows -> Seq(Tabs)] /\ C.shut \subseteq Groups
    <3>1. B.shut \subseteq Groups
      BY <1>2 DEF Browsers
    <3> QED
      BY <1>3, <2>1, <3>1
  <2> HIDE DEF opened, choices
  <2> QED
    BY ONLY <1>2, <2>2, <2>3, <2>4 DEF Browsers
<1>9. \A w \in Windows : ToSet(C.strip[w]) = ToSet(B.strip[w])
  BY <1>3, <1>6
<1>10. OpenTabs(C) = OpenTabs(B)
  BY <1>9 DEF OpenTabs
<1>11. Ready(C)
  <2>1. \A w \in Windows : IsInjective(C.strip[w])
    BY <1>3, <1>6
  <2>2. \A v, w \in Windows : \A t : t \in ToSet(C.strip[v]) /\ t \in ToSet(C.strip[w]) => v = w
    <3>1. \A v, w \in Windows : \A t : t \in ToSet(B.strip[v]) /\ t \in ToSet(B.strip[w]) => v = w
      BY DEF Ready
    <3> QED
      BY ONLY <1>9, <3>1
  <2>3. \A t \in Tabs : C.group[t] # None => t \in OpenTabs(C) \ C.pinned /\ C.title[C.group[t]] # "none"
    BY <1>3, <1>10 DEF Ready
  <2>4. \A v, w \in Windows : \A t, x :
       t \in ToSet(C.strip[v]) /\ x \in ToSet(C.strip[w]) /\ C.group[t] # None /\ C.group[t] = C.group[x] => v = w
    <3>1. \A v, w \in Windows : \A t, x :
            t \in ToSet(B.strip[v]) /\ x \in ToSet(B.strip[w]) /\ B.group[t] # None /\ B.group[t] = B.group[x] => v = w
      BY DEF Ready
    <3>2. PICK G : G = B.group
      OBVIOUS
    <3>3. C.group = G
      BY <1>3, <3>2
    <3> QED
      BY ONLY <1>9, <3>1, <3>2, <3>3
  <2>5. C.pinned \subseteq OpenTabs(C)
    BY <1>3, <1>10 DEF Ready
  <2> QED
    BY <1>8, <2>1, <2>2, <2>3, <2>4, <2>5 DEF Ready
<1>12. Showing(C)
  BY <1>3, <1>5, <1>7 DEF Showing
<1>13. \A w \in Windows : StandsTogether(C, C.strip[w])
  <2>1. \A w \in Windows : Whole(C, C.strip[w])
    <3>1. \A x, y : Kin(C, x, y) <=> Kin(B, x, y)
      BY <1>3 DEF Kin
    <3>2. \A w \in Windows : C.strip[w] = strip[w]
      BY <1>3
    <3> HIDE DEF Kin, Before
    <3> QED
      BY <1>6, <3>1, <3>2 DEF Whole
  <2> QED
    BY <1>3, <1>6, <2>1, WholeIs
<1>14. WellFormed(C)
  BY <1>11, <1>12, <1>13, WellFormedIs
<1>15. \A w \in Windows :
       \/ C.shows[w] = B.shows[w]
       \/ B.shows[w] \notin ToSet(B.strip[w]) /\ (C.shows[w] # None => B.group[C.shows[w]] \notin C.shut)
  <2>1. SUFFICES ASSUME NEW w \in Windows, s[w] # B.shows[w]
                 PROVE  B.shows[w] \notin ToSet(B.strip[w]) /\ (s[w] # None => B.group[s[w]] \notin C.shut)
    BY <1>5
  <2>2. B.shows[w] \notin ToSet(B.strip[w])
    <3>1. strip[w] = <<>> => ToSet(strip[w]) = {}
      BY DEF ToSet
    <3> QED
      BY <1>5, <1>6, <2>1, <3>1
  <2>3. s[w] # None => B.group[s[w]] \in opened(s)
    BY <2>1
  <2> HIDE DEF opened, choices
  <2> QED
    BY <1>3, <2>2, <2>3
<1> HIDE DEF opened, choices
<1>16. \A w \in Windows : C.strip[w] = Regrouped(B, B.strip[w])
  BY <1>3, <1>4
<1>17. C.shut \subseteq B.shut
  BY <1>3
<1> QED
  BY <1>3, <1>9, <1>14, <1>15, <1>16, <1>17 DEF SettledFrom

(* A group is the open tabs that are in it, and stands in one window.      *)
LEMMA MembersAre ==
    ASSUME NEW B, Ready(B), NEW g
    PROVE  /\ Members(B, g) \in Seq(Tabs) /\ IsInjective(Members(B, g))
           /\ ToSet(Members(B, g)) = {t \in OpenTabs(B) : B.group[t] = g}
           /\ \A x, y : Before(Members(B, g), x, y) /\ g # None => \E w \in Windows : Before(B.strip[w], x, y)
           /\ Lives(B, g) => /\ g \in Groups /\ Members(B, g) # <<>> /\ Head(Members(B, g)) \in ToSet(Members(B, g))
                             /\ GroupWindow(B, g) \in Windows
                             /\ ToSet(Members(B, g)) \subseteq ToSet(B.strip[GroupWindow(B, g)])
           /\ \A t \in OpenTabs(B) : B.group[t] = g /\ g # None => Lives(B, g) /\ t \in ToSet(B.strip[GroupWindow(B, g)])
<1>1. PICK s : s = B.strip[1]
  OBVIOUS
<1>2. PICK q : q = B.strip[2]
  OBVIOUS
<1>3. Windows = {1, 2} /\ 1 # 2
  BY DEF Windows
<1>4. s \in Seq(Tabs) /\ q \in Seq(Tabs) /\ IsInjective(s) /\ IsInjective(q)
  BY <1>1, <1>2, <1>3, BrowserIs
<1>5. PICK p : p = Only(s, InGroup(B, g))
  OBVIOUS
<1>6. PICK r : r = Only(q, InGroup(B, g))
  OBVIOUS
<1>7. Members(B, g) = p \o r
  BY <1>1, <1>2, <1>5, <1>6 DEF Members
<1> HIDE DEF Before
<1>8. /\ p \in Seq(Tabs) /\ ToSet(p) = ToSet(s) \cap InGroup(B, g)
      /\ \A x, y : Before(p, x, y) <=> (Before(s, x, y) /\ x \in InGroup(B, g) /\ y \in InGroup(B, g))
  BY <1>4, <1>5, OnlyIs
<1>9. /\ r \in Seq(Tabs) /\ ToSet(r) = ToSet(q) \cap InGroup(B, g)
      /\ \A x, y : Before(r, x, y) <=> (Before(q, x, y) /\ x \in InGroup(B, g) /\ y \in InGroup(B, g))
  BY <1>4, <1>6, OnlyIs
<1>10. PICK m : m = p \o r
  OBVIOUS
<1>11. /\ m \in Seq(Tabs) /\ ToSet(m) = ToSet(p) \cup ToSet(r)
       /\ \A x, y : Before(m, x, y) <=> (Before(p, x, y) \/ Before(r, x, y) \/ (x \in ToSet(p) /\ y \in ToSet(r)))
  BY <1>8, <1>9, <1>10, Joint
<1>12. \A t : ~(t \in ToSet(s) /\ t \in ToSet(q))
  BY <1>1, <1>2, <1>3 DEF Ready
<1>13. IsInjective(m)
  <2>1. \A x : ~Before(s, x, x) /\ ~Before(q, x, x)
    BY <1>4, OnceIs
  <2> QED
    BY <1>8, <1>9, <1>11, <1>12, <2>1, OnceIs
<1>14. \A t : t \in OpenTabs(B) <=> t \in ToSet(s) \/ t \in ToSet(q)
  BY <1>1, <1>2, <1>3, OpenIs
<1>15. ToSet(m) = {t \in OpenTabs(B) : B.group[t] = g}
  BY <1>8, <1>9, <1>11, <1>14, BrowserIs DEF InGroup
<1>16. \A v, w \in Windows, t \in ToSet(m), x \in ToSet(m) :
         g # None /\ t \in ToSet(B.strip[v]) /\ x \in ToSet(B.strip[w]) => v = w
  BY <1>15 DEF Ready
<1>17. ASSUME NEW x, NEW y, Before(m, x, y), g # None PROVE \E w \in Windows : Before(B.strip[w], x, y)
  <2>1. ~(x \in ToSet(p) /\ y \in ToSet(r))
    BY <1>1, <1>2, <1>3, <1>8, <1>9, <1>11, <1>16, <1>17
  <2> QED
    BY <1>1, <1>2, <1>3, <1>8, <1>9, <1>11, <1>17, <2>1
<1>18. m # <<>> <=> ToSet(m) # {}
  <2>1. ToSet(<<>>) = {}
    BY DEF ToSet
  <2>2. m # <<>> => m[1] \in ToSet(m)
    BY <1>11, 1 \in DOMAIN m \/ m = <<>> DEF ToSet
  <2> QED
    BY <2>1, <2>2
<1>19. m # <<>> => Head(m) \in ToSet(m)
  BY <1>11 DEF ToSet
<1>20. ASSUME Lives(B, g)
       PROVE  /\ g \in Groups /\ GroupWindow(B, g) \in Windows
              /\ ToSet(m) \subseteq ToSet(B.strip[GroupWindow(B, g)])
  <2>1. g # None /\ m # <<>> /\ Head(m) \in ToSet(m)
    BY <1>7, <1>10, <1>19, <1>20 DEF Lives
  <2>2. Head(m) \in OpenTabs(B) /\ B.group[Head(m)] = g
    BY <1>15, <2>1
  <2>3. g \in Groups
    BY <2>1, <2>2, BrowserIs
  <2>4. PICK w : w = GroupWindow(B, g)
    OBVIOUS
  <2>5. w = Window(B, Head(m))
    BY <1>7, <1>10, <2>4 DEF GroupWindow
  <2>6. w \in Windows /\ Head(m) \in ToSet(B.strip[w])
    BY <2>2, <2>5, WindowIs
  <2>7. ToSet(m) \subseteq ToSet(B.strip[w])
    <3>1. SUFFICES ASSUME NEW t \in ToSet(m) PROVE t \in ToSet(B.strip[w])
      OBVIOUS
    <3>2. PICK v \in Windows : t \in ToSet(B.strip[v])
      BY <1>15, OpenIs
    <3> QED
      BY <1>16, <2>1, <2>6, <3>2
  <2> QED
    BY <2>3, <2>4, <2>6, <2>7
<1>21. ASSUME NEW t \in OpenTabs(B), B.group[t] = g, g # None
       PROVE  Lives(B, g) /\ t \in ToSet(B.strip[GroupWindow(B, g)])
  <2>1. t \in ToSet(m)
    BY <1>15, <1>21
  <2>2. Lives(B, g)
    BY <1>7, <1>10, <1>18, <1>21, <2>1 DEF Lives
  <2> QED
    BY <1>20, <2>1, <2>2
<1>22. Lives(B, g) => m # <<>> /\ Head(m) \in ToSet(m)
  BY <1>7, <1>10, <1>19 DEF Lives
<1> QED
  BY <1>7, <1>10, <1>11, <1>13, <1>15, <1>17, <1>20, <1>21, <1>22

(***************************************************************************)
(* The browser's calls, each from a well formed browser.                   *)
(***************************************************************************)
SameShown(B, C) == \A w \in Windows : C.shows[w] = B.shows[w] \/ B.shows[w] \notin ToSet(C.strip[w])
NoneShut(B, C) ==
  \A w \in Windows : C.shows[w] # None /\ C.group[C.shows[w]] \in C.shut => B.group[B.shows[w]] \in B.shut

LEMMA SplicedOnce ==
    ASSUME NEW T, NEW s \in Seq(T), NEW q \in Seq(T), NEW k \in 0..Len(s), IsInjective(s), IsInjective(q),
           ToSet(s) \cap ToSet(q) = {}
    PROVE  IsInjective(Spliced(s, k, q))
<1>1. Spliced(s, k, q) \in Seq(T) /\ DOMAIN s = 1..Len(s) /\ Len(s) \in Nat /\ k \in Nat /\ k <= Len(s)
  BY SplicedIs
<1>2. (\A j \in 1..k : s[j] \in ToSet(s)) /\ (\A j \in (k+1)..Len(s) : s[j] \in ToSet(s))
  BY <1>1 DEF ToSet
<1> HIDE DEF Before
<1>3. \A x : Before(Spliced(s, k, q), x, x) <=>
                \/ Before(s, x, x) \/ Before(q, x, x)
                \/ (x \in ToSet(q) /\ \E j \in 1..k : s[j] = x)
                \/ (x \in ToSet(q) /\ \E j \in (k+1)..Len(s) : s[j] = x)
  BY SplicedIs
<1>4. \A x : ~Before(s, x, x) /\ ~Before(q, x, x)
  BY OnceIs
<1>5. \A x : ~Before(Spliced(s, k, q), x, x)
  BY <1>2, <1>3, <1>4
<1> QED
  BY <1>1, <1>5, OnceIs

LEMMA WithoutOnce ==
    ASSUME NEW T, NEW s \in Seq(T), IsInjective(s), NEW S
    PROVE  /\ Without(s, S) \in Seq(T) /\ IsInjective(Without(s, S)) /\ ToSet(Without(s, S)) = ToSet(s) \ S
           /\ \A x, y : Before(Without(s, S), x, y) <=> (Before(s, x, y) /\ x \notin S /\ y \notin S)
<1> HIDE DEF Before
<1>1. PICK K : K = ToSet(s) \ S
  OBVIOUS
<1>2. PICK r : r = Without(s, S)
  OBVIOUS
<1>3. r = Only(s, K)
  BY <1>1, <1>2 DEF Without
<1>4. /\ r \in Seq(T) /\ ToSet(r) = ToSet(s) \cap K
      /\ \A x, y : Before(r, x, y) <=> (Before(s, x, y) /\ x \in K /\ y \in K)
  BY <1>3, OnlyIs
<1>5. \A x, y : Before(s, x, y) => x \in ToSet(s) /\ y \in ToSet(s)
  BY BeforeIn
<1>6. \A x : ~Before(s, x, x)
  BY OnceIs
<1>7. IsInjective(r)
  BY <1>4, <1>6, OnceIs
<1> QED
  BY <1>1, <1>2, <1>4, <1>5, <1>7

LEMMA LiftedIs ==
    ASSUME NEW B, Ready(B), NEW S
    PROVE  /\ Lifted(B, S) \in [Windows -> Seq(Tabs)]
           /\ \A w \in Windows : /\ Lifted(B, S)[w] \in Seq(Tabs) /\ IsInjective(Lifted(B, S)[w])
                                 /\ ToSet(Lifted(B, S)[w]) = ToSet(B.strip[w]) \ S
                                 /\ \A x, y : Before(Lifted(B, S)[w], x, y) <=> (Before(B.strip[w], x, y) /\ x \notin S /\ y \notin S)
<1>1. \A w \in Windows : B.strip[w] \in Seq(Tabs) /\ IsInjective(B.strip[w])
  BY BrowserIs
<1>2. \A w \in Windows : Lifted(B, S)[w] = Without(B.strip[w], S)
  BY DEF Lifted
<1> HIDE DEF Before
<1>3. \A w \in Windows : /\ Lifted(B, S)[w] \in Seq(Tabs) /\ IsInjective(Lifted(B, S)[w])
                         /\ ToSet(Lifted(B, S)[w]) = ToSet(B.strip[w]) \ S
                         /\ \A x, y : Before(Lifted(B, S)[w], x, y) <=> (Before(B.strip[w], x, y) /\ x \notin S /\ y \notin S)
  BY <1>1, <1>2, WithoutOnce
<1> QED
  BY <1>3 DEF Lifted

LEMMA LiftedOnce ==
    ASSUME NEW B, Ready(B), NEW S, NEW v \in Windows
    PROVE  IsInjective(Lifted(B, S)[v]) /\ ToSet(Lifted(B, S)[v]) = ToSet(B.strip[v]) \ S
  BY LiftedIs

(* Whatever settles from a browser with the same tabs in each window and   *)
(* the same shown, shows the same.                                         *)
LEMMA ShowsStay ==
    ASSUME NEW B, WellFormed(B), NEW R, Ready(R), NEW C \in Settled(R), R.shows = B.shows,
           \A w \in Windows : ToSet(R.strip[w]) = ToSet(B.strip[w])
    PROVE  \A w \in Windows : C.shows[w] = B.shows[w] /\ ToSet(C.strip[w]) = ToSet(B.strip[w])
<1>1. SettledFrom(R, C) /\ Showing(B)
  BY SettledIs, WellFormedIs
<1>2. SUFFICES ASSUME NEW w \in Windows PROVE C.shows[w] = B.shows[w] /\ ToSet(C.strip[w]) = ToSet(B.strip[w])
  OBVIOUS
<1>3. ToSet(C.strip[w]) = ToSet(B.strip[w])
  BY <1>1 DEF SettledFrom
<1>4. CASE B.strip[w] = <<>>
  <2>a. ToSet(B.strip[w]) = {}
    BY <1>4 DEF ToSet
  <2>1. B.shows[w] = None /\ ToSet(C.strip[w]) = {}
    BY <1>1, <1>3, <1>4, <2>a DEF Showing
  <2>2. Showing(C) /\ C.strip[w] \in Seq(Tabs)
    BY <1>1, WellFormedIs, BrowserIs DEF SettledFrom
  <2>3. C.strip[w] = <<>>
    <3>1. C.strip[w] # <<>> => C.strip[w][1] \in ToSet(C.strip[w])
      BY <2>2 DEF ToSet
    <3> QED
      BY <2>1, <3>1
  <2> QED
    BY <1>3, <2>1, <2>2, <2>3 DEF Showing
<1>5. CASE B.strip[w] # <<>>
  <2>1. B.shows[w] \in ToSet(R.strip[w])
    BY <1>1, <1>5 DEF Showing
  <2> QED
    BY <1>1, <1>3, <2>1 DEF SettledFrom
<1> QED
  BY <1>4, <1>5

\* Strips whose groups stand together are not touched by settling them.
LEMMA StripsStay ==
    ASSUME NEW R, Ready(R), NEW C \in Settled(R), NEW w \in Windows, Whole(R, R.strip[w])
    PROVE  C.strip[w] = R.strip[w]
<1>1. R.strip[w] \in Seq(Tabs) /\ IsInjective(R.strip[w])
  BY BrowserIs
<1>2. C.strip[w] = Regrouped(R, R.strip[w])
  BY SettledIs
<1> QED
  BY ONLY <1>1, <1>2, WholeStays, Whole(R, R.strip[w])

LEMMA LastIs ==
    ASSUME NEW T, NEW s \in Seq(T)
    PROVE  /\ \A e \in T : Last(Append(s, e)) = e
           /\ s # <<>> => /\ Last(s) \in ToSet(s) /\ Last(s) = s[Len(s)] /\ Len(s) > 0
                          /\ \A x \in ToSet(s) : x = Last(s) \/ Before(s, x, Last(s))
<1>1. Len(s) \in Nat /\ DOMAIN s = 1..Len(s)
  OBVIOUS
<1>2. \A e \in T : Last(Append(s, e)) = e
  BY <1>1 DEF Last
<1>3. ASSUME s # <<>>
      PROVE  /\ Last(s) \in ToSet(s) /\ Last(s) = s[Len(s)] /\ Len(s) > 0
             /\ \A x \in ToSet(s) : x = Last(s) \/ Before(s, x, Last(s))
  <2>1. Len(s) > 0 /\ Last(s) = s[Len(s)] /\ Len(s) \in DOMAIN s
    BY <1>1, <1>3 DEF Last
  <2>2. ASSUME NEW x \in ToSet(s) PROVE x = Last(s) \/ Before(s, x, Last(s))
    <3>1. PICK i \in DOMAIN s : s[i] = x
      BY DEF ToSet
    <3>2. i = Len(s) \/ i < Len(s)
      BY <1>1
    <3> QED
      BY <1>1, <2>1, <3>1, <3>2 DEF Before
  <2> QED
    BY <2>1, <2>2 DEF ToSet
<1> QED
  BY <1>2, <1>3

\* A strip with a tab put last, alone or with the group of the last: its groups stand together.
LEMMA WholeAppended ==
    ASSUME NEW B, NEW R, NEW l \in Seq(Tabs), IsInjective(l), Whole(B, l), NEW t \in Tabs, t \notin ToSet(l),
           \A x \in ToSet(l) : R.group[x] = B.group[x],
           R.group[t] = None \/ (l # <<>> /\ R.group[t] = B.group[l[Len(l)]])
    PROVE  Whole(R, Append(l, t))
<1>1. PICK s : s = Append(l, t)
  OBVIOUS
<1>2. \A x, y : Before(s, x, y) <=> (Before(l, x, y) \/ (x \in ToSet(l) /\ y = t))
  BY <1>1, OneMore
<1>3. \A x, y : Before(l, x, y) => x \in ToSet(l) /\ y \in ToSet(l)
  BY BeforeIn
<1>4. SUFFICES ASSUME NEW x, NEW y, NEW z, Before(s, x, y), Before(s, y, z), Kin(R, x, z)
               PROVE  Kin(R, x, y)
  BY <1>1 DEF Whole
<1> HIDE DEF Before
<1>5. Before(l, x, y) /\ x \in ToSet(l) /\ y \in ToSet(l)
  BY <1>2, <1>3, <1>4
<1>6. CASE z # t
  <2>1. Before(l, y, z) /\ z \in ToSet(l)
    BY <1>2, <1>3, <1>4, <1>6
  <2>2. Kin(B, x, z)
    BY <1>4, <1>5, <2>1 DEF Kin
  <2>3. Kin(B, x, y)
    BY <1>5, <2>1, <2>2 DEF Whole
  <2> QED
    BY <1>5, <2>3 DEF Kin
<1>7. CASE z = t
  <2>1. R.group[t] # None /\ R.group[x] = R.group[t]
    BY <1>4, <1>5, <1>7 DEF Kin
  <2>2. l # <<>> /\ R.group[t] = B.group[Last(l)] /\ Last(l) \in ToSet(l)
    BY <2>1, LastIs
  <2>3. Kin(B, x, Last(l))
    BY <1>5, <2>1, <2>2 DEF Kin
  <2>4. y = Last(l) \/ Before(l, y, Last(l))
    BY <1>5, <2>2, LastIs
  <2>5. Kin(B, x, y)
    BY <1>5, <2>3, <2>4 DEF Whole
  <2> QED
    BY <1>5, <2>5 DEF Kin
<1> QED
  BY <1>6, <1>7

(* Where a moved tab may land: in a group of the strip it lands in, its own if the tab before it is *)
(* of that, and at the end in the last tab's or in none.  What it lands in is settled after.       *)
Landed(B, R, t, w, i, g) ==
  LET l == Lifted(B, {t})[w]
      a == IF i > Len(l) THEN Len(l) ELSE i - 1
  IN /\ R.strip = [Lifted(B, {t}) EXCEPT ![w] = Spliced(l, a, <<t>>)]
     /\ R.shut = (IF B.shows[w] = t THEN B.shut \ {g} ELSE B.shut)
     /\ R.pinned = B.pinned /\ R.title = B.title /\ R.page = B.page /\ R.shows = B.shows
     /\ (\A x \in Tabs \ {t} : R.group[x] = B.group[x]) /\ R.group[t] = g
     /\ \A v \in Windows : ToSet(R.strip[v]) = IF v = w THEN ToSet(B.strip[v]) \cup {t} ELSE ToSet(B.strip[v]) \ {t}
     /\ i > Len(l) => g = None \/ (l # <<>> /\ g = B.group[l[Len(l)]])
     /\ a \in 1..Len(l) /\ B.group[l[a]] = B.group[t] /\ B.group[t] # None => g = B.group[t]

LEMMA TabsMoveLands ==
    ASSUME NEW B, WellFormed(B), NEW t \in OpenTabs(B), NEW w \in Windows, NEW i \in Nat \ {0}, NEW C \in TabsMove(B, t, w, i)
    PROVE  \E R, g : Landed(B, R, t, w, i, g) /\ Ready(R) /\ C \in Settled(R)
<1> DEFINE lifted == Lifted(B, {t})
           at == IF i > Len(lifted[w]) THEN Len(lifted[w]) ELSE i - 1
           gs(k) == IF k \in 1..Len(lifted[w]) THEN B.group[lifted[w][k]] ELSE None
           stays == {g \in {gs(at), gs(at + 1)} \ {None} : g = B.group[t]}
           joins == IF t \in B.pinned THEN {None}
                    ELSE IF gs(at) = gs(at + 1) THEN {gs(at)}
                    ELSE IF stays # {} THEN stays
                    ELSE IF at = Len(lifted[w]) THEN {None, gs(at)} ELSE {None}
           put(g) == [B EXCEPT !.strip = [lifted EXCEPT ![w] = Spliced(@, at, <<t>>)], !.group[t] = g,
                               !.shut = IF B.shows[w] = t THEN @ \ {g} ELSE @]
<1>a. TabsMove(B, t, w, i) = UNION {Settled(put(g)) : g \in joins}
  BY DEF TabsMove
<1>1. PICK g \in joins : C \in Settled(put(g))
  <2> HIDE DEF put, joins
  <2> QED
    BY <1>a
<1> HIDE DEF Before
<1>2. Ready(B) /\ Showing(B) /\ B \in Browsers
  BY WellFormedIs DEF Ready
<1>3. PICK l : l = lifted[w]
  OBVIOUS
<1>4. l \in Seq(Tabs) /\ IsInjective(l) /\ ToSet(l) = ToSet(B.strip[w]) \ {t} /\ lifted \in [Windows -> Seq(Tabs)]
  <2>1. /\ lifted \in [Windows -> Seq(Tabs)] /\ lifted[w] \in Seq(Tabs) /\ IsInjective(lifted[w])
        /\ ToSet(lifted[w]) = ToSet(B.strip[w]) \ {t}
    <3>1. \A S : /\ Lifted(B, S) \in [Windows -> Seq(Tabs)] /\ Lifted(B, S)[w] \in Seq(Tabs) /\ IsInjective(Lifted(B, S)[w])
                 /\ ToSet(Lifted(B, S)[w]) = ToSet(B.strip[w]) \ S
      BY ONLY <1>2, LiftedIs, w \in Windows
    <3> QED
      BY ONLY <3>1
  <2> HIDE DEF lifted
  <2> QED
    BY <1>3, <2>1
<1>5. at \in 0..Len(l)
  <2>1. Len(l) \in Nat
    BY <1>4
  <2> QED
    BY <1>3, <2>1
<1>6. \A k : gs(k) = None \/ \E x \in ToSet(l) : gs(k) = B.group[x]
  <2>1. \A k \in 1..Len(l) : l[k] \in ToSet(l)
    BY <1>4 DEF ToSet
  <2> QED
    BY <1>3, <2>1
<1>7. (g = None \/ \E x \in ToSet(l) : g = B.group[x]) /\ (t \in B.pinned => g = None)
  <2> HIDE DEF gs, at
  <2> QED
    BY <1>1, <1>6
<1>b. i > Len(l) => g = None \/ (l # <<>> /\ g = B.group[l[Len(l)]])
  <2>1. SUFFICES ASSUME i > Len(l) PROVE g = None \/ (l # <<>> /\ g = B.group[l[Len(l)]])
    OBVIOUS
  <2>2. Len(l) \in Nat /\ (Len(l) > 0 => l # <<>>) /\ at = Len(l) /\ lifted[w] = l
    BY <1>3, <1>4, <2>1
  <2>3. gs(at + 1) = None /\ (gs(at) = None \/ (l # <<>> /\ gs(at) = B.group[l[Len(l)]]))
    <3> HIDE DEF lifted, at
    <3> QED
      BY ONLY <2>2
  <2>4. g \in {None, gs(at), gs(at + 1)}
    <3> HIDE DEF gs, at
    <3> QED
      BY <1>1
  <2> HIDE DEF gs, at
  <2> QED
    BY <2>3, <2>4
<1>c. at \in 1..Len(l) /\ B.group[l[at]] = B.group[t] /\ B.group[t] # None => g = B.group[t]
  <2>1. SUFFICES ASSUME at \in 1..Len(l), B.group[l[at]] = B.group[t], B.group[t] # None PROVE g = B.group[t]
    OBVIOUS
  <2>2. gs(at) = B.group[t]
    <3> HIDE DEF lifted, at
    <3> QED
      BY <1>3, <2>1
  <2>3. t \notin B.pinned
    BY <1>2, <2>1, BrowserIs DEF Ready
  <2>4. B.group[t] \in stays /\ \A x \in stays : x = B.group[t]
    <3> HIDE DEF gs, at
    <3> QED
      BY <2>1, <2>2
  <2> HIDE DEF gs, at, stays
  <2> QED
    BY <1>1, <2>2, <2>3, <2>4
<1> HIDE DEF gs, stays, joins
<1>8. PICK a : a = at
  OBVIOUS
<1>9. PICK q : q = Spliced(l, a, <<t>>)
  OBVIOUS
<1> DEFINE R == put(g)
<1>10. R.strip = [lifted EXCEPT ![w] = q]
  <2> HIDE DEF at, lifted
  <2> QED
    BY <1>2, <1>3, <1>4, <1>8, <1>9 DEF Browsers
<1>11. /\ R.group = [B.group EXCEPT ![t] = g] /\ R.shut = (IF B.shows[w] = t THEN B.shut \ {g} ELSE B.shut)
       /\ R.pinned = B.pinned /\ R.title = B.title /\ R.page = B.page /\ R.shows = B.shows
  <2> HIDE DEF at, lifted
  <2> QED
    BY <1>2 DEF Browsers
<1>12. t \in Tabs /\ <<t>> \in Seq(Tabs) /\ ToSet(<<t>>) = {t} /\ IsInjective(<<t>>)
  <2>1. t \in Tabs
    BY <1>2, BrowserIs
  <2> QED
    BY <2>1, SingleIs1 DEF IsInjective
<1>13. q \in Seq(Tabs) /\ IsInjective(q) /\ ToSet(q) = ToSet(B.strip[w]) \cup {t}
  <2>1. PICK u : u = <<t>>
    OBVIOUS
  <2>2. u \in Seq(Tabs) /\ ToSet(u) = {t} /\ IsInjective(u) /\ a \in 0..Len(l) /\ q = Spliced(l, a, u)
    BY <1>3, <1>5, <1>8, <1>9, <1>12, <2>1
  <2>3. ToSet(l) \cap ToSet(u) = {}
    BY <1>4, <2>2
  <2>4. q \in Seq(Tabs) /\ ToSet(q) = ToSet(l) \cup ToSet(u)
    BY ONLY <1>4, <2>2, SplicedIs
  <2>5. IsInjective(q)
    BY ONLY <1>4, <2>2, <2>3, SplicedOnce
  <2> QED
    BY <1>4, <2>2, <2>4, <2>5
<1>14. R \in Browsers
  <2>1. R.strip \in [Windows -> Seq(Tabs)]
    <3> HIDE DEF R, lifted
    <3> QED
      BY <1>4, <1>10, <1>13
  <2>2. R.group \in [Tabs -> Groups \cup {None}]
    <3>1. g \in Groups \cup {None}
      <4>1. \A x \in ToSet(l) : x \in Tabs
        BY <1>4, Numbered
      <4> QED
        BY <1>2, <1>7, <4>1, BrowserIs
    <3>2. B.group \in [Tabs -> Groups \cup {None}]
      BY <1>2 DEF Browsers
    <3> HIDE DEF R
    <3> QED
      BY <1>11, <3>1, <3>2
  <2>3. R.shut \subseteq Groups
    <3> HIDE DEF R
    <3> QED
      BY <1>2, <1>11, BrowserIs
  <2>4. R = [B EXCEPT !.strip = R.strip, !.group = R.group, !.shut = R.shut]
    <3> HIDE DEF at, lifted
    <3> QED
      BY <1>2 DEF Browsers
  <2> HIDE DEF R
  <2> QED
    BY ONLY <1>2, <2>1, <2>2, <2>3, <2>4 DEF Browsers
<1> HIDE DEF R
<1>15. /\ \A v \in Windows : ToSet(R.strip[v]) = IF v = w THEN ToSet(B.strip[v]) \cup {t} ELSE ToSet(B.strip[v]) \ {t}
       /\ \A v \in Windows : IsInjective(R.strip[v])
  <2>1. ASSUME NEW v \in Windows, v # w PROVE R.strip[v] = lifted[v]
    BY <1>4, <1>10, <2>1
  <2>2. R.strip[w] = q
    BY <1>4, <1>10
  <2>3. \A v \in Windows : IsInjective(lifted[v]) /\ ToSet(lifted[v]) = ToSet(B.strip[v]) \ {t}
    <3>1. ASSUME NEW v \in Windows
          PROVE  IsInjective(Lifted(B, {t})[v]) /\ ToSet(Lifted(B, {t})[v]) = ToSet(B.strip[v]) \ {t}
      BY ONLY <1>2, v \in Windows, LiftedOnce
    <3> QED
      BY <3>1
  <2> HIDE DEF lifted
  <2> QED
    BY <1>13, <2>1, <2>2, <2>3
<1>d. /\ R.strip = [Lifted(B, {t}) EXCEPT ![w] = Spliced(l, a, <<t>>)] /\ l = Lifted(B, {t})[w]
       /\ a = IF i > Len(l) THEN Len(l) ELSE i - 1
  BY <1>3, <1>8, <1>9, <1>10
<1> HIDE DEF lifted
<1>16. \A x : x \in OpenTabs(R) <=> x \in OpenTabs(B)
  <2>1. t \in OpenTabs(R)
    BY <1>15, OpenIs
  <2>2. ASSUME NEW x, x # t PROVE x \in OpenTabs(R) <=> x \in OpenTabs(B)
    <3>1. \A v \in Windows : x \in ToSet(R.strip[v]) <=> x \in ToSet(B.strip[v])
      BY <1>15, <2>2
    <3> QED
      BY <3>1, OpenIs
  <2> QED
    BY <2>1, <2>2
<1>17. (\A x \in Tabs \ {t} : R.group[x] = B.group[x]) /\ R.group[t] = g
  <2>1. B.group \in [Tabs -> Groups \cup {None}]
    BY <1>2 DEF Browsers
  <2> QED
    BY <1>11, <1>12, <2>1
<1>18. \A x \in ToSet(l) : x \in Tabs /\ x \in ToSet(B.strip[w])
  BY <1>4, Numbered
<1>19. Ready(R)
  <2>1. R.pinned \subseteq OpenTabs(R)
    BY <1>2, <1>11, <1>16 DEF Ready
  <2>2. \A u, v \in Windows : \A x : x \in ToSet(R.strip[u]) /\ x \in ToSet(R.strip[v]) => u = v
    BY <1>2, <1>15 DEF Ready
  <2>3. \A x \in Tabs : R.group[x] # None => x \in OpenTabs(R) \ R.pinned /\ R.title[R.group[x]] # "none"
    <3>1. ASSUME NEW x \in Tabs, R.group[x] # None, x # t PROVE x \in OpenTabs(R) \ R.pinned /\ R.title[R.group[x]] # "none"
      BY <1>2, <1>11, <1>16, <1>17, <3>1 DEF Ready
    <3>2. ASSUME g # None PROVE t \in OpenTabs(R) \ R.pinned /\ R.title[g] # "none"
      <4>1. PICK x \in ToSet(l) : g = B.group[x]
        BY <1>7, <3>2
      <4>2. B.title[g] # "none"
        BY <1>2, <1>18, <3>2, <4>1 DEF Ready
      <4> QED
        BY <1>7, <1>11, <1>16, <3>2, <4>2
    <3> QED
      BY <1>17, <3>1, <3>2
  <2>4. ASSUME NEW u \in Windows, NEW v \in Windows, NEW x \in ToSet(R.strip[u]), NEW y \in ToSet(R.strip[v]),
               R.group[x] # None, R.group[x] = R.group[y]
        PROVE  u = v
    <3>1. \E z \in ToSet(B.strip[u]) : B.group[z] = R.group[x]
      <4>1. CASE x = t
        <5>1. u = w
          BY <1>15, <4>1
        <5> QED
          BY <1>7, <1>17, <1>18, <2>4, <4>1, <5>1
      <4>2. CASE x # t
        <5>1. x \in ToSet(B.strip[u])
          BY <1>15, <4>2
        <5>2. x \in Tabs
          BY <1>2, <5>1, BrowserIs, Numbered
        <5> QED
          BY <1>17, <4>2, <5>1, <5>2
      <4> QED
        BY <4>1, <4>2
    <3>2. \E z \in ToSet(B.strip[v]) : B.group[z] = R.group[y]
      <4>1. CASE y = t
        <5>1. v = w
          BY <1>15, <4>1
        <5> QED
          BY <1>7, <1>17, <1>18, <2>4, <4>1, <5>1
      <4>2. CASE y # t
        <5>1. y \in ToSet(B.strip[v])
          BY <1>15, <4>2
        <5>2. y \in Tabs
          BY <1>2, <5>1, BrowserIs, Numbered
        <5> QED
          BY <1>17, <4>2, <5>1, <5>2
      <4> QED
        BY <4>1, <4>2
    <3> QED
      BY <1>2, <2>4, <3>1, <3>2 DEF Ready
  <2> QED
    BY <1>14, <1>15, <2>1, <2>2, <2>3, <2>4 DEF Ready
<1>e. a \in 1..Len(l) /\ B.group[l[a]] = B.group[t] /\ B.group[t] # None => g = B.group[t]
  BY <1>8, <1>c
<1>f. Landed(B, R, t, w, i, g)
  BY ONLY <1>11, <1>15, <1>17, <1>b, <1>d, <1>e DEF Landed
<1>g. C \in Settled(R)
  BY <1>1 DEF R
<1> QED
  BY ONLY <1>19, <1>f, <1>g

Moved(B, C, t, w) ==
  /\ WellFormed(C) /\ C.pinned = B.pinned /\ C.title = B.title /\ C.page = B.page /\ C.shut \subseteq B.shut
  /\ \A x \in Tabs \ {t} : C.group[x] = B.group[x]
  /\ \A v \in Windows : ToSet(C.strip[v]) = IF v = w THEN ToSet(B.strip[v]) \cup {t} ELSE ToSet(B.strip[v]) \ {t}
  /\ SameShown(B, C) /\ NoneShut(B, C)

LEMMA TabsMoveIs ==
    ASSUME NEW B, WellFormed(B), NEW t \in OpenTabs(B), NEW w \in Windows, NEW i \in Nat \ {0}, NEW C \in TabsMove(B, t, w, i)
    PROVE  Moved(B, C, t, w)
<1>1. PICK R, g : Landed(B, R, t, w, i, g) /\ Ready(R) /\ C \in Settled(R)
  BY TabsMoveLands
<1> HIDE DEF Before
<1>2. Ready(B) /\ Showing(B) /\ B \in Browsers
  BY WellFormedIs DEF Ready
<1>11. /\ R.shut = (IF B.shows[w] = t THEN B.shut \ {g} ELSE B.shut)
       /\ R.pinned = B.pinned /\ R.title = B.title /\ R.page = B.page /\ R.shows = B.shows
  BY <1>1 DEF Landed
<1>15. \A v \in Windows : ToSet(R.strip[v]) = IF v = w THEN ToSet(B.strip[v]) \cup {t} ELSE ToSet(B.strip[v]) \ {t}
  BY <1>1 DEF Landed
<1>17. (\A x \in Tabs \ {t} : R.group[x] = B.group[x]) /\ R.group[t] = g
  BY <1>1 DEF Landed
<1>20. SettledFrom(R, C)
  BY <1>1, SettledIs
<1>21. WellFormed(C) /\ C.pinned = B.pinned /\ C.title = B.title /\ C.page = B.page /\ C.shut \subseteq R.shut /\ C.group = R.group
  BY <1>11, <1>20 DEF SettledFrom
<1>22. \A v \in Windows : ToSet(C.strip[v]) = ToSet(R.strip[v])
  BY <1>20 DEF SettledFrom
<1>23. \A v \in Windows :
       \/ C.shows[v] = B.shows[v]
       \/ B.shows[v] \notin ToSet(C.strip[v]) /\ (C.shows[v] # None => C.group[C.shows[v]] \notin C.shut)
  BY <1>11, <1>20, <1>21, <1>22 DEF SettledFrom
<1>24. SameShown(B, C)
  BY <1>23 DEF SameShown
<1>25. NoneShut(B, C)
  <2>1. SUFFICES ASSUME NEW v \in Windows, C.shows[v] # None, C.group[C.shows[v]] \in C.shut
                 PROVE  B.group[B.shows[v]] \in B.shut
    BY DEF NoneShut
  <2>2. C.shows[v] = B.shows[v]
    BY <1>23, <2>1
  <2>3. B.shows[v] \in ToSet(B.strip[v]) /\ B.shows[v] \in Tabs
    <3>1. B.strip[v] # <<>>
      BY <1>2, <2>1, <2>2 DEF Showing
    <3> QED
      BY <1>2, <3>1, BrowserIs, Numbered DEF Showing
  <2>4. CASE B.shows[v] # t
    BY <1>11, <1>17, <1>21, <2>1, <2>2, <2>3, <2>4
  <2>5. CASE B.shows[v] = t
    <3>1. Showing(C)
      BY <1>21, WellFormedIs
    <3>2. t \in ToSet(C.strip[v])
      BY <2>1, <2>2, <2>5, <3>1 DEF Showing
    <3>3. v = w
      BY <1>15, <1>22, <3>2
    <3> QED
      BY <1>11, <1>17, <1>21, <2>1, <2>2, <2>5, <3>3
  <2> QED
    BY <2>4, <2>5
<1>26. C.shut \subseteq B.shut
  BY <1>11, <1>21
<1> QED
  BY <1>15, <1>17, <1>21, <1>22, <1>24, <1>25, <1>26 DEF Moved

LEMMA NoneShutIf ==
    ASSUME NEW B, NEW C, WellFormed(C), C.shut \subseteq B.shut, \A w \in Windows : C.shows[w] = B.shows[w],
           \A x \in Tabs : C.group[x] = B.group[x] \/ C.group[x] = None
    PROVE  NoneShut(B, C)
<1>1. SUFFICES ASSUME NEW w \in Windows, C.shows[w] # None, C.group[C.shows[w]] \in C.shut
               PROVE  B.group[B.shows[w]] \in B.shut
  BY DEF NoneShut
<1>2. Ready(C) /\ Showing(C)
  BY WellFormedIs
<1>3. C.shows[w] \in Tabs
  <2>1. C.shows[w] \in ToSet(C.strip[w])
    BY <1>1, <1>2 DEF Showing
  <2> QED
    BY <1>2, <2>1, BrowserIs, Numbered
<1>4. None \notin C.shut
  BY <1>2, BrowserIs
<1> QED
  BY <1>1, <1>3, <1>4

(* A change of titles, pages, shut groups and what is shown.               *)
LEMMA OnlyLooks ==
    ASSUME NEW B, WellFormed(B), NEW C \in Browsers, C.strip = B.strip, C.group = B.group, C.pinned = B.pinned,
           \A g \in Groups : B.title[g] # "none" => C.title[g] # "none", Showing(C)
    PROVE  WellFormed(C)
<1>1. Ready(B) /\ \A w \in Windows : StandsTogether(B, B.strip[w])
  BY WellFormedIs
<1>2. OpenTabs(C) = OpenTabs(B)
  BY DEF OpenTabs
<1>3. Ready(C)
  <2>1. \A t \in Tabs : B.group[t] \in Groups \cup {None}
    BY <1>1, BrowserIs
  <2> QED
    BY <1>1, <1>2, <2>1 DEF Ready
<1>4. \A w \in Windows : StandsTogether(C, C.strip[w])
  BY <1>1 DEF StandsTogether
<1> QED
  BY <1>3, <1>4, WellFormedIs

LEMMA TabsUngroupIs ==
    ASSUME NEW B, WellFormed(B), NEW S, NEW C \in TabsUngroup(B, S)
    PROVE  /\ WellFormed(C) /\ C.pinned = B.pinned /\ C.title = B.title /\ C.page = B.page /\ C.shut \subseteq B.shut
           /\ \A x \in Tabs : C.group[x] = IF x \in S THEN None ELSE B.group[x]
           /\ \A w \in Windows : ToSet(C.strip[w]) = ToSet(B.strip[w]) /\ C.shows[w] = B.shows[w]
           /\ NoneShut(B, C)
<1>1. Ready(B) /\ B \in Browsers
  BY WellFormedIs DEF Ready
<1>2. PICK G : G = [t \in Tabs |-> IF t \in S THEN None ELSE B.group[t]]
  OBVIOUS
<1>3. G \in [Tabs -> Groups \cup {None}] /\ \A x \in Tabs : G[x] = IF x \in S THEN None ELSE B.group[x]
  BY <1>1, <1>2, BrowserIs
<1>4. PICK R : R = [B EXCEPT !.group = G]
  OBVIOUS
<1>5. C \in Settled(R)
  <2>1. [B EXCEPT !.group = [t \in Tabs |-> IF t \in S THEN None ELSE @[t]]] = R
    BY <1>1, <1>2, <1>4 DEF Browsers
  <2> QED
    BY <2>1 DEF TabsUngroup
<1>6. /\ R.strip = B.strip /\ R.pinned = B.pinned /\ R.title = B.title /\ R.page = B.page /\ R.shut = B.shut
      /\ R.shows = B.shows /\ R.group = G
  BY <1>1, <1>4 DEF Browsers
<1>7. R \in Browsers
  BY ONLY <1>1, <1>3, <1>4 DEF Browsers
<1>8. OpenTabs(R) = OpenTabs(B)
  BY <1>6 DEF OpenTabs
<1>9. Ready(R)
  <2>1. \A x \in Tabs : R.group[x] # None => x \in OpenTabs(R) \ R.pinned /\ R.title[R.group[x]] # "none"
    BY <1>1, <1>3, <1>6, <1>8 DEF Ready
  <2>2. ASSUME NEW v \in Windows, NEW w \in Windows, NEW t \in ToSet(R.strip[v]), NEW x \in ToSet(R.strip[w]),
               R.group[t] # None, R.group[t] = R.group[x]
        PROVE  v = w
    <3>1. t \in Tabs /\ x \in Tabs /\ t \in ToSet(B.strip[v]) /\ x \in ToSet(B.strip[w])
      BY <1>1, <1>6, BrowserIs, Numbered
    <3>2. B.group[t] # None /\ B.group[t] = B.group[x]
      BY <1>3, <1>6, <2>2, <3>1
    <3> QED
      BY <1>1, <3>1, <3>2 DEF Ready
  <2> QED
    BY <1>1, <1>6, <1>7, <1>8, <2>1, <2>2 DEF Ready
<1>10. SettledFrom(R, C)
  BY <1>5, <1>9, SettledIs
<1>11. \A w \in Windows : C.shows[w] = B.shows[w] /\ ToSet(C.strip[w]) = ToSet(B.strip[w])
  BY <1>5, <1>6, <1>9, ShowsStay
<1>12. WellFormed(C) /\ C.pinned = B.pinned /\ C.title = B.title /\ C.page = B.page /\ C.shut \subseteq B.shut /\ C.group = G
  BY <1>6, <1>10 DEF SettledFrom
<1>13. NoneShut(B, C)
  BY <1>3, <1>11, <1>12, NoneShutIf
<1> QED
  BY <1>3, <1>11, <1>12, <1>13

LEMMA CardinalityIs ==
    ASSUME NEW T, NEW s \in Seq(T)
    PROVE  IsFiniteSet(ToSet(s)) /\ Cardinality(ToSet(s)) \in Nat /\ Cardinality(ToSet(s)) <= Len(s)
<1>1. Len(s) \in Nat /\ DOMAIN s = 1..Len(s)
  OBVIOUS
<1>2. IsFiniteSet(1..Len(s)) /\ Cardinality(1..Len(s)) = Len(s)
  <2>1. IsFiniteSet(1..Len(s)) /\ Cardinality(1..Len(s)) = IF 1 > Len(s) THEN 0 ELSE Len(s) - 1 + 1
    BY <1>1, FS_Interval
  <2> QED
    BY <1>1, <2>1
<1>3. PICK f : f = [i \in 1..Len(s) |-> s[i]]
  OBVIOUS
<1>4. f \in Surjection(1..Len(s), ToSet(s))
  BY <1>1, <1>3 DEF Surjection, ToSet
<1>5. IsFiniteSet(ToSet(s)) /\ Cardinality(ToSet(s)) <= Cardinality(1..Len(s))
  BY <1>2, <1>4, FS_Surjection
<1> QED
  BY <1>2, <1>5, FS_CardinalityType

LEMMA MostOf ==
    ASSUME NEW x \in Nat, NEW y \in Nat
    PROVE  Max({x, y}) = IF x >= y THEN x ELSE y
<1>1. \A m : m \in {x, y} /\ (\A n \in {x, y} : m >= n) <=> m = IF x >= y THEN x ELSE y
  OBVIOUS
<1> QED
  BY <1>1 DEF Max

LEMMA GroupsMoveIs ==
    ASSUME NEW B, WellFormed(B), NEW g, Lives(B, g), NEW i \in Nat, NEW C \in GroupsMove(B, g, i)
    PROVE  /\ WellFormed(C) /\ C.pinned = B.pinned /\ C.title = B.title /\ C.page = B.page /\ C.shut \subseteq B.shut
           /\ C.group = B.group
           /\ \A w \in Windows : ToSet(C.strip[w]) = ToSet(B.strip[w]) /\ C.shows[w] = B.shows[w]
           /\ NoneShut(B, C)
<1>1. Ready(B) /\ B \in Browsers
  BY WellFormedIs DEF Ready
<1>2. PICK w : w = GroupWindow(B, g)
  OBVIOUS
<1>3. PICK m : m = Members(B, g)
  OBVIOUS
<1> HIDE DEF Before
<1>4. m \in Seq(Tabs) /\ IsInjective(m) /\ w \in Windows /\ ToSet(m) \subseteq ToSet(B.strip[w])
  BY <1>1, <1>2, <1>3, MembersAre
<1>5. PICK rest : rest = Without(B.strip[w], ToSet(m))
  OBVIOUS
<1>6. B.strip[w] \in Seq(Tabs) /\ IsInjective(B.strip[w])
  BY <1>1, <1>4, BrowserIs
<1>7. rest \in Seq(Tabs) /\ IsInjective(rest) /\ ToSet(rest) = ToSet(B.strip[w]) \ ToSet(m)
  BY <1>5, <1>6, WithoutOnce
<1>8. PICK at : at = Max({Cardinality(B.pinned \cap ToSet(rest)), IF i > Len(rest) THEN Len(rest) ELSE i})
  OBVIOUS
<1>9. at \in 0..Len(rest)
  <2>1. IsFiniteSet(ToSet(rest)) /\ Cardinality(ToSet(rest)) \in Nat /\ Cardinality(ToSet(rest)) <= Len(rest) /\ Len(rest) \in Nat
    <3>1. rest \in Seq(Tabs)
      BY <1>7
    <3>2. IsFiniteSet(ToSet(rest)) /\ Cardinality(ToSet(rest)) \in Nat /\ Cardinality(ToSet(rest)) <= Len(rest)
      BY ONLY <3>1, CardinalityIs
    <3> QED
      BY <3>1, <3>2
  <2>2. PICK S : S = B.pinned \cap ToSet(rest)
    OBVIOUS
  <2>3. Cardinality(S) \in Nat /\ Cardinality(S) <= Cardinality(ToSet(rest))
    BY <2>1, <2>2, FS_Subset, FS_CardinalityType
  <2>4. PICK k : k = IF i > Len(rest) THEN Len(rest) ELSE i
    OBVIOUS
  <2>5. k \in Nat /\ k <= Len(rest)
    BY <2>1, <2>4
  <2>6. PICK c : c = Cardinality(S)
    OBVIOUS
  <2>7. at = IF c >= k THEN c ELSE k
    BY <1>8, <2>2, <2>3, <2>4, <2>5, <2>6, MostOf
  <2>8. c \in Nat /\ c <= Len(rest)
    BY <2>1, <2>3, <2>6
  <2> QED
    BY ONLY <2>1, <2>5, <2>7, <2>8
<1>10. PICK q : q = Spliced(rest, at, m)
  OBVIOUS
<1>11. q \in Seq(Tabs) /\ IsInjective(q) /\ ToSet(q) = ToSet(B.strip[w])
  <2>1. ToSet(rest) \cap ToSet(m) = {}
    BY <1>7
  <2>2. q \in Seq(Tabs) /\ ToSet(q) = ToSet(rest) \cup ToSet(m)
    BY ONLY <1>4, <1>7, <1>9, <1>10, SplicedIs
  <2>3. IsInjective(q)
    BY ONLY <1>4, <1>7, <1>9, <1>10, <2>1, SplicedOnce
  <2> QED
    BY <1>4, <1>7, <2>2, <2>3
<1>12. PICK R : R = [B EXCEPT !.strip = [B.strip EXCEPT ![w] = q]]
  OBVIOUS
<1>13. C \in Settled(R)
  <2>1. GroupsMove(B, g, i) = Settled([B EXCEPT !.strip[w] = Spliced(rest, at, m)])
    BY <1>2, <1>3, <1>5, <1>8 DEF GroupsMove
  <2>2. [B EXCEPT !.strip[w] = Spliced(rest, at, m)] = R
    BY <1>10, <1>12
  <2> QED
    BY <2>1, <2>2
<1>14. /\ R.strip = [B.strip EXCEPT ![w] = q] /\ R.pinned = B.pinned /\ R.title = B.title /\ R.page = B.page
       /\ R.shut = B.shut /\ R.shows = B.shows /\ R.group = B.group
  BY <1>1, <1>12 DEF Browsers
<1>15. R.strip \in [Windows -> Seq(Tabs)] /\ R.strip[w] = q /\ \A v \in Windows \ {w} : R.strip[v] = B.strip[v]
  <2>1. B.strip \in [Windows -> Seq(Tabs)]
    BY <1>1 DEF Browsers
  <2> QED
    BY <1>4, <1>11, <1>14, <2>1
<1>16. R \in Browsers
  BY ONLY <1>1, <1>12, <1>14, <1>15 DEF Browsers
<1>17. \A v \in Windows : ToSet(R.strip[v]) = ToSet(B.strip[v]) /\ IsInjective(R.strip[v])
  <2>1. \A v \in Windows : IsInjective(B.strip[v])
    BY <1>1 DEF Ready
  <2>2. SUFFICES ASSUME NEW v \in Windows PROVE ToSet(R.strip[v]) = ToSet(B.strip[v]) /\ IsInjective(R.strip[v])
    OBVIOUS
  <2>3. CASE v = w
    BY ONLY <1>11, <1>15, <2>3
  <2>4. CASE v # w
    <3>1. R.strip[v] = B.strip[v]
      BY <1>15, <2>4
    <3> QED
      BY ONLY <2>1, <3>1, v \in Windows
  <2> QED
    BY <2>3, <2>4
<1>18. OpenTabs(R) = OpenTabs(B)
  BY <1>17 DEF OpenTabs
<1>19. Ready(R)
  BY <1>1, <1>14, <1>16, <1>17, <1>18 DEF Ready
<1>20. SettledFrom(R, C)
  BY <1>13, <1>19, SettledIs
<1>21. \A v \in Windows : C.shows[v] = B.shows[v] /\ ToSet(C.strip[v]) = ToSet(B.strip[v])
  <2>1. R.shows = B.shows /\ \A v \in Windows : ToSet(R.strip[v]) = ToSet(B.strip[v])
    BY <1>14, <1>17
  <2> QED
    BY ONLY WellFormed(B), <1>13, <1>19, <2>1, ShowsStay
<1>22. WellFormed(C) /\ C.pinned = B.pinned /\ C.title = B.title /\ C.page = B.page /\ C.shut \subseteq B.shut /\ C.group = B.group
  BY <1>14, <1>20 DEF SettledFrom
<1>23. NoneShut(B, C)
  BY <1>21, <1>22, NoneShutIf
<1> QED
  BY <1>21, <1>22, <1>23

Grouped(B, C, ts, g) ==
  /\ WellFormed(C) /\ C.pinned = B.pinned \ ToSet(ts) /\ C.page = B.page /\ C.shut \subseteq B.shut
  /\ \A x \in Tabs : C.group[x] = IF x \in ToSet(ts) THEN g ELSE B.group[x]
  /\ \A v \in Windows : ToSet(C.strip[v]) = ToSet(B.strip[v]) /\ C.shows[v] = B.shows[v]
  /\ C.title = [B.title EXCEPT ![g] = IF @ = "none" THEN "" ELSE @]

\* Where the tabs that join a living group land: behind its last.
JoinedSo(B, C, ts, g, w) ==
  LET first == Without(ts, InGroup(B, g))
      l == Lifted(B, ToSet(first))[w]
  IN \E R : /\ Ready(R) /\ C \in Settled(R) /\ R.group = C.group
            /\ R.strip[w] = Spliced(l, Find(l, Last(Members(B, g))), first)

LEMMA TabsGroupLands ==
    ASSUME NEW B, WellFormed(B), NEW w \in Windows, NEW ts \in Seq(Tabs), IsInjective(ts), NEW g \in Groups,
           ToSet(ts) \subseteq ToSet(B.strip[w]),
           Lives(B, g) => GroupWindow(B, g) = w, ~Lives(B, g) => ts # <<>>,
           NEW C \in TabsGroup(B, ts, g, w)
    PROVE  Grouped(B, C, ts, g) /\ (Lives(B, g) => JoinedSo(B, C, ts, g, w))
<1>1. Ready(B) /\ B \in Browsers
  BY WellFormedIs DEF Ready
<1> HIDE DEF Before
<1>2. PICK first : first = IF Lives(B, g) THEN Without(ts, InGroup(B, g)) ELSE Tail(ts)
  OBVIOUS
<1>3. PICK lifted : lifted = Lifted(B, ToSet(first))
  OBVIOUS
<1>4. PICK after : after = IF Lives(B, g) THEN Find(lifted[w], Last(Members(B, g))) ELSE Find(lifted[w], Head(ts))
  OBVIOUS
<1>5. PICK G : G = [t \in Tabs |-> IF t \in ToSet(ts) THEN g ELSE B.group[t]]
  OBVIOUS
<1>6. G \in [Tabs -> Groups \cup {None}] /\ \A x \in Tabs : G[x] = IF x \in ToSet(ts) THEN g ELSE B.group[x]
  BY <1>1, <1>5, BrowserIs
<1>7. first \in Seq(Tabs) /\ IsInjective(first) /\ ToSet(first) \subseteq ToSet(ts)
  <2>1. CASE Lives(B, g)
    BY <1>2, <2>1, WithoutOnce
  <2>2. CASE ~Lives(B, g)
    <3>1. ts # <<>> /\ first = Tail(ts)
      BY <1>2, <2>2
    <3>2. /\ first \in Seq(Tabs) /\ Len(first) = Len(ts) - 1 /\ Len(ts) \in Nat /\ Len(ts) > 0
          /\ DOMAIN first = 1..Len(first) /\ DOMAIN ts = 1..Len(ts)
          /\ \A k \in 1..Len(first) : first[k] = ts[k + 1]
      BY <3>1
    <3>3. \A k \in DOMAIN first : k + 1 \in DOMAIN ts
      BY <3>2
    <3>4. IsInjective(first)
      <4>1. ASSUME NEW x \in DOMAIN first, NEW y \in DOMAIN first, first[x] = first[y] PROVE x = y
        <5>1. x + 1 = y + 1
          BY <3>2, <3>3, <4>1 DEF IsInjective
        <5> QED
          BY <3>2, <5>1
      <4> QED
        BY <4>1 DEF IsInjective
    <3>5. ToSet(first) \subseteq ToSet(ts)
      BY <3>2, <3>3 DEF ToSet
    <3> QED
      BY <3>2, <3>4, <3>5
  <2> QED
    BY <2>1, <2>2
<1>8. lifted \in [Windows -> Seq(Tabs)] /\ \A v \in Windows :
        lifted[v] \in Seq(Tabs) /\ IsInjective(lifted[v]) /\ ToSet(lifted[v]) = ToSet(B.strip[v]) \ ToSet(first)
  <2>1. \A S : /\ Lifted(B, S) \in [Windows -> Seq(Tabs)]
               /\ \A v \in Windows : Lifted(B, S)[v] \in Seq(Tabs) /\ IsInjective(Lifted(B, S)[v])
                                     /\ ToSet(Lifted(B, S)[v]) = ToSet(B.strip[v]) \ S
    BY <1>1, LiftedIs
  <2> QED
    BY <1>3, <2>1
<1>9. PICK l : l = lifted[w]
  OBVIOUS
<1>10. l \in Seq(Tabs) /\ IsInjective(l) /\ ToSet(l) = ToSet(B.strip[w]) \ ToSet(first)
  BY <1>8, <1>9
<1>11. after \in 0..Len(l)
  BY <1>4, <1>9, <1>10, FindIs
<1>12. PICK q : q = Spliced(l, after, first)
  OBVIOUS
<1>13. q \in Seq(Tabs) /\ IsInjective(q) /\ ToSet(q) = ToSet(B.strip[w])
  <2>1. ToSet(l) \cap ToSet(first) = {}
    BY <1>10
  <2>2. q \in Seq(Tabs) /\ ToSet(q) = ToSet(l) \cup ToSet(first)
    BY ONLY <1>7, <1>10, <1>11, <1>12, SplicedIs
  <2>3. IsInjective(q)
    BY ONLY <1>7, <1>10, <1>11, <1>12, <2>1, SplicedOnce
  <2> QED
    BY <1>7, <1>10, <2>2, <2>3
<1>14. PICK T : T = [B.title EXCEPT ![g] = IF @ = "none" THEN "" ELSE @]
  OBVIOUS
<1>15. /\ T \in [Groups -> Titles] /\ T[g] # "none" /\ \A h \in Groups : B.title[h] # "none" => T[h] # "none"
  <2>1. B.title \in [Groups -> Titles]
    BY <1>1 DEF Browsers
  <2>2. PICK x : x = IF B.title[g] = "none" THEN "" ELSE B.title[g]
    OBVIOUS
  <2>4. x \in Titles
    BY <2>1, <2>2, StripAssumption
  <2>5. "" # "none"
    OBVIOUS
  <2>6. x # "none"
    BY <2>2, <2>5
  <2>7. T = [B.title EXCEPT ![g] = x]
    BY <1>14, <2>2
  <2>8. T \in [Groups -> Titles] /\ T[g] = x /\ \A h \in Groups \ {g} : T[h] = B.title[h]
    BY <2>1, <2>4, <2>7
  <2> QED
    BY <2>6, <2>8
<1>16. PICK R : R = [B EXCEPT !.strip = [lifted EXCEPT ![w] = q], !.group = G, !.title = T, !.pinned = B.pinned \ ToSet(ts)]
  OBVIOUS
<1>17. C \in Settled(R)
  <2>1. PICK win : win = IF Lives(B, g) THEN GroupWindow(B, g) ELSE w
    OBVIOUS
  <2>2. win = w
    BY <2>1
  <2>3. TabsGroup(B, ts, g, w) =
          Settled([B EXCEPT !.strip = [lifted EXCEPT ![win] = Spliced(@, after, first)],
                            !.group = [t \in Tabs |-> IF t \in ToSet(ts) THEN g ELSE @[t]],
                            !.title[g] = IF @ = "none" THEN "" ELSE @,
                            !.pinned = @ \ ToSet(ts)])
    BY <1>2, <1>3, <1>4, <2>1, <2>2 DEF TabsGroup
  <2>4. [B EXCEPT !.strip = [lifted EXCEPT ![win] = Spliced(@, after, first)],
                  !.group = [t \in Tabs |-> IF t \in ToSet(ts) THEN g ELSE @[t]],
                  !.title[g] = IF @ = "none" THEN "" ELSE @,
                  !.pinned = @ \ ToSet(ts)] = R
    <3>1. [lifted EXCEPT ![win] = Spliced(@, after, first)] = [lifted EXCEPT ![w] = q]
      BY <1>9, <1>12, <2>2
    <3>2. B.title \in [Groups -> Titles]
      BY <1>1 DEF Browsers
    <3> QED
      BY <1>1, <1>5, <1>14, <1>16, <3>1, <3>2 DEF Browsers
  <2> QED
    BY <2>3, <2>4
<1>18. /\ R.strip = [lifted EXCEPT ![w] = q] /\ R.group = G /\ R.title = T /\ R.pinned = B.pinned \ ToSet(ts)
       /\ R.page = B.page /\ R.shut = B.shut /\ R.shows = B.shows
  BY <1>1, <1>16 DEF Browsers
<1>19. R.strip \in [Windows -> Seq(Tabs)] /\ R.strip[w] = q /\ \A v \in Windows \ {w} : R.strip[v] = lifted[v]
  BY <1>8, <1>13, <1>18
<1>20. R \in Browsers
  <2>1. R.pinned \subseteq Tabs
    BY <1>1, <1>18, BrowserIs
  <2>2. R = [B EXCEPT !.strip = R.strip, !.group = G, !.title = T, !.pinned = R.pinned]
    BY <1>16, <1>18
  <2> QED
    BY ONLY <1>1, <1>6, <1>15, <1>19, <2>1, <2>2 DEF Browsers
<1>21. ASSUME NEW v \in Windows PROVE ToSet(R.strip[v]) = ToSet(B.strip[v]) /\ IsInjective(R.strip[v])
  <2>1. CASE v = w
    BY ONLY <1>13, <1>19, <2>1
  <2>2. CASE v # w
    <3>1. R.strip[v] = lifted[v]
      BY <1>19, <2>2
    <3>2. ToSet(B.strip[v]) \cap ToSet(first) = {}
      BY <1>1, <1>7, <2>2 DEF Ready
    <3>3. ToSet(lifted[v]) = ToSet(B.strip[v]) /\ IsInjective(lifted[v])
      BY <1>8, <3>2
    <3> QED
      BY ONLY <3>1, <3>3
  <2> QED
    BY <2>1, <2>2
<1>22. OpenTabs(R) = OpenTabs(B)
  BY <1>21 DEF OpenTabs
<1>23. g # None
  BY StripAssumption
<1>24. \A x \in ToSet(ts) : x \in OpenTabs(B) /\ x \in ToSet(B.strip[w])
  BY OpenIs
<1>25. Ready(R)
  <2>1. R.pinned \subseteq OpenTabs(R)
    BY <1>1, <1>18, <1>22 DEF Ready
  <2>2. \A u, v \in Windows : \A x : x \in ToSet(R.strip[u]) /\ x \in ToSet(R.strip[v]) => u = v
    <3>1. \A u, v \in Windows : \A x : x \in ToSet(B.strip[u]) /\ x \in ToSet(B.strip[v]) => u = v
      BY <1>1 DEF Ready
    <3> QED
      BY <1>21, <3>1
  <2>3. ASSUME NEW x \in Tabs, R.group[x] # None PROVE x \in OpenTabs(R) \ R.pinned /\ R.title[R.group[x]] # "none"
    <3>1. CASE x \in ToSet(ts)
      BY <1>6, <1>15, <1>18, <1>22, <1>24, <3>1
    <3>2. CASE x \notin ToSet(ts)
      <4>1. R.group[x] = B.group[x]
        BY <1>6, <1>18, <3>2
      <4>2. x \in OpenTabs(B) \ B.pinned /\ B.title[B.group[x]] # "none" /\ B.group[x] \in Groups
        BY <1>1, <2>3, <4>1, BrowserIs DEF Ready
      <4> QED
        BY <1>15, <1>18, <1>22, <4>1, <4>2
    <3> QED
      BY <3>1, <3>2
  <2>4. \A v \in Windows : \A x \in ToSet(B.strip[v]) : R.group[x] = g => v = w
    <3>1. SUFFICES ASSUME NEW v \in Windows, NEW x \in ToSet(B.strip[v]), R.group[x] = g PROVE v = w
      OBVIOUS
    <3>2. x \in Tabs
      BY <1>1, BrowserIs, Numbered
    <3>3. CASE x \in ToSet(ts)
      BY <1>1, <1>24, <3>3 DEF Ready
    <3>4. CASE x \notin ToSet(ts)
      <4>1. B.group[x] = g /\ x \in OpenTabs(B)
        BY <1>6, <1>18, <3>1, <3>2, <3>4, OpenIs
      <4>2. Lives(B, g) /\ x \in ToSet(B.strip[GroupWindow(B, g)])
        BY <1>1, <1>23, <4>1, MembersAre
      <4> QED
        BY <1>1, <4>2 DEF Ready
    <3> QED
      BY <3>3, <3>4
  <2>5. ASSUME NEW u \in Windows, NEW v \in Windows, NEW x \in ToSet(R.strip[u]), NEW y \in ToSet(R.strip[v]),
               R.group[x] # None, R.group[x] = R.group[y]
        PROVE  u = v
    <3>1. x \in ToSet(B.strip[u]) /\ y \in ToSet(B.strip[v])
      BY <1>21
    <3>2. CASE R.group[x] = g
      BY <2>4, <2>5, <3>1, <3>2
    <3>3. CASE R.group[x] # g
      <4>1. x \in Tabs /\ y \in Tabs
        BY <1>1, <3>1, BrowserIs, Numbered
      <4>2. B.group[x] = R.group[x] /\ B.group[y] = R.group[y]
        BY <1>6, <1>18, <2>5, <3>3, <4>1
      <4> QED
        BY <1>1, <2>5, <3>1, <4>2 DEF Ready
    <3> QED
      BY <3>2, <3>3
  <2> QED
    BY <1>20, <1>21, <2>1, <2>2, <2>3, <2>5 DEF Ready
<1>26. SettledFrom(R, C)
  BY <1>17, <1>25, SettledIs
<1>27. \A v \in Windows : C.shows[v] = B.shows[v] /\ ToSet(C.strip[v]) = ToSet(B.strip[v])
  <2>1. R.shows = B.shows /\ \A v \in Windows : ToSet(R.strip[v]) = ToSet(B.strip[v])
    BY <1>18, <1>21
  <2> QED
    BY ONLY WellFormed(B), <1>17, <1>25, <2>1, ShowsStay
<1>28. WellFormed(C) /\ C.pinned = B.pinned \ ToSet(ts) /\ C.title = T /\ C.page = B.page /\ C.shut \subseteq B.shut /\ C.group = G
  BY <1>18, <1>26 DEF SettledFrom
<1>29. Grouped(B, C, ts, g)
  BY <1>6, <1>14, <1>27, <1>28 DEF Grouped
<1>30. ASSUME Lives(B, g) PROVE JoinedSo(B, C, ts, g, w)
  <2>1. first = Without(ts, InGroup(B, g)) /\ l = Lifted(B, ToSet(first))[w] /\ after = Find(l, Last(Members(B, g)))
    BY <1>2, <1>3, <1>4, <1>9, <1>30
  <2>2. R.strip[w] = Spliced(l, Find(l, Last(Members(B, g))), first) /\ R.group = C.group
    BY <1>12, <1>18, <1>19, <1>28, <2>1
  <2> QED
    BY <1>17, <1>25, <2>1, <2>2 DEF JoinedSo
<1> QED
  BY <1>29, <1>30

LEMMA TabsGroupIs ==
    ASSUME NEW B, WellFormed(B), NEW w \in Windows, NEW ts \in Seq(Tabs), IsInjective(ts), NEW g \in Groups,
           ToSet(ts) \subseteq ToSet(B.strip[w]),
           Lives(B, g) => GroupWindow(B, g) = w, ~Lives(B, g) => ts # <<>>,
           NEW C \in TabsGroup(B, ts, g, w)
    PROVE  Grouped(B, C, ts, g)
  BY TabsGroupLands

LEMMA TabsRemoveIs ==
    ASSUME NEW B, WellFormed(B), NEW t \in OpenTabs(B), NEW C \in TabsRemove(B, t)
    PROVE  /\ WellFormed(C) /\ C.pinned = B.pinned \ {t} /\ C.title = B.title /\ C.page = B.page /\ C.shut \subseteq B.shut
           /\ \A x \in Tabs : C.group[x] = IF x = t THEN None ELSE B.group[x]
           /\ \A w \in Windows : ToSet(C.strip[w]) = ToSet(B.strip[w]) \ {t}
           /\ SameShown(B, C) /\ NoneShut(B, C)
<1>1. Ready(B) /\ Showing(B) /\ B \in Browsers
  BY WellFormedIs DEF Ready
<1> HIDE DEF Before
<1>2. PICK lifted : lifted = Lifted(B, {t})
  OBVIOUS
<1>3. lifted \in [Windows -> Seq(Tabs)] /\ \A v \in Windows : IsInjective(lifted[v]) /\ ToSet(lifted[v]) = ToSet(B.strip[v]) \ {t}
  <2>1. \A S : /\ Lifted(B, S) \in [Windows -> Seq(Tabs)]
               /\ \A v \in Windows : IsInjective(Lifted(B, S)[v]) /\ ToSet(Lifted(B, S)[v]) = ToSet(B.strip[v]) \ S
    BY <1>1, LiftedIs
  <2> QED
    BY <1>2, <2>1
<1>4. t \in Tabs
  BY <1>1, BrowserIs
<1>5. PICK G : G = [B.group EXCEPT ![t] = None]
  OBVIOUS
<1>6. G \in [Tabs -> Groups \cup {None}] /\ \A x \in Tabs : G[x] = IF x = t THEN None ELSE B.group[x]
  <2>1. B.group \in [Tabs -> Groups \cup {None}]
    BY <1>1 DEF Browsers
  <2> QED
    BY <1>4, <1>5, <2>1
<1>7. PICK R : R = [B EXCEPT !.strip = lifted, !.group = G, !.pinned = B.pinned \ {t}]
  OBVIOUS
<1>8. C \in Settled(R)
  <2>1. [B EXCEPT !.strip = Lifted(B, {t}), !.group[t] = None, !.pinned = @ \ {t}] = R
    BY <1>1, <1>2, <1>5, <1>7 DEF Browsers
  <2> QED
    BY <2>1 DEF TabsRemove
<1>9. /\ R.strip = lifted /\ R.pinned = B.pinned \ {t} /\ R.title = B.title /\ R.page = B.page /\ R.shut = B.shut
      /\ R.shows = B.shows /\ R.group = G
  BY <1>1, <1>7 DEF Browsers
<1>10. R \in Browsers
  <2>1. B.pinned \ {t} \subseteq Tabs
    BY <1>1, BrowserIs
  <2> QED
    BY ONLY <1>1, <1>3, <1>6, <1>7, <2>1 DEF Browsers
<1>11. OpenTabs(R) = OpenTabs(B) \ {t}
  BY <1>3, <1>9 DEF OpenTabs
<1>12. \A v \in Windows : IsInjective(R.strip[v]) /\ ToSet(R.strip[v]) = ToSet(B.strip[v]) \ {t}
  BY <1>3, <1>9
<1>13. Ready(R)
  <2>1. \A x \in Tabs : R.group[x] # None => x \in OpenTabs(R) \ R.pinned /\ R.title[R.group[x]] # "none"
    BY <1>1, <1>6, <1>9, <1>11 DEF Ready
  <2>2. ASSUME NEW v \in Windows, NEW w \in Windows, NEW x \in ToSet(R.strip[v]), NEW y \in ToSet(R.strip[w]),
               R.group[x] # None, R.group[x] = R.group[y]
        PROVE  v = w
    <3>1. x \in ToSet(B.strip[v]) /\ y \in ToSet(B.strip[w]) /\ x # t /\ y # t
      BY <1>12
    <3>2. x \in Tabs /\ y \in Tabs
      BY <1>1, <3>1, BrowserIs, Numbered
    <3>3. B.group[x] # None /\ B.group[x] = B.group[y]
      BY <1>6, <1>9, <2>2, <3>1, <3>2
    <3> QED
      BY <1>1, <3>1, <3>3 DEF Ready
  <2>3. \A v, w \in Windows : \A x : x \in ToSet(R.strip[v]) /\ x \in ToSet(R.strip[w]) => v = w
    <3>1. \A v, w \in Windows : \A x : x \in ToSet(B.strip[v]) /\ x \in ToSet(B.strip[w]) => v = w
      BY <1>1 DEF Ready
    <3> QED
      BY <1>12, <3>1
  <2>4. R.pinned \subseteq OpenTabs(R)
    BY <1>1, <1>9, <1>11 DEF Ready
  <2> QED
    BY <1>10, <1>12, <2>1, <2>2, <2>3, <2>4 DEF Ready
<1>14. SettledFrom(R, C)
  BY <1>8, <1>13, SettledIs
<1>15. WellFormed(C) /\ C.pinned = B.pinned \ {t} /\ C.title = B.title /\ C.page = B.page /\ C.shut \subseteq B.shut /\ C.group = G
  BY <1>9, <1>14 DEF SettledFrom
<1>16. \A w \in Windows : ToSet(C.strip[w]) = ToSet(B.strip[w]) \ {t}
  BY <1>12, <1>14 DEF SettledFrom
<1>17. \A v \in Windows :
       \/ C.shows[v] = B.shows[v]
       \/ B.shows[v] \notin ToSet(C.strip[v]) /\ (C.shows[v] # None => C.group[C.shows[v]] \notin C.shut)
  <2>1. \A v \in Windows : ToSet(C.strip[v]) = ToSet(R.strip[v])
    BY <1>14 DEF SettledFrom
  <2> QED
    BY <1>9, <1>14, <1>15, <2>1 DEF SettledFrom
<1>18. SameShown(B, C)
  BY <1>17 DEF SameShown
<1>19. NoneShut(B, C)
  <2>1. SUFFICES ASSUME NEW v \in Windows, C.shows[v] # None, C.group[C.shows[v]] \in C.shut
                 PROVE  B.group[B.shows[v]] \in B.shut
    BY DEF NoneShut
  <2>2. C.shows[v] = B.shows[v]
    BY <1>17, <2>1
  <2>3. B.shows[v] \in Tabs
    <3>1. B.strip[v] # <<>>
      BY <1>1, <2>1, <2>2 DEF Showing
    <3> QED
      BY <1>1, <3>1, BrowserIs, Numbered DEF Showing
  <2>4. None \notin C.shut
    BY <1>15, WellFormedIs, BrowserIs
  <2> QED
    BY <1>6, <1>15, <2>1, <2>2, <2>3, <2>4
<1> QED
  BY <1>6, <1>15, <1>16, <1>18, <1>19

Selected(B, w, t, S) == [B EXCEPT !.shows[w] = t, !.shut = S]

LEMMA ShownIs ==
    ASSUME NEW B, WellFormed(B), NEW w \in Windows, NEW t \in ToSet(B.strip[w]), NEW S, S \subseteq Groups, NEW C,
           C = Selected(B, w, t, S)
    PROVE  /\ WellFormed(C) /\ C.strip = B.strip /\ C.group = B.group /\ C.pinned = B.pinned /\ C.title = B.title
           /\ C.page = B.page /\ C.shut = S /\ C.shows[w] = t /\ \A v \in Windows \ {w} : C.shows[v] = B.shows[v]
<1>1. Ready(B) /\ Showing(B) /\ B \in Browsers
  BY WellFormedIs DEF Ready
<1>2. t \in Tabs
  BY <1>1, BrowserIs, Numbered
<1>3. PICK H : H = [B.shows EXCEPT ![w] = t]
  OBVIOUS
<1>4. H \in [Windows -> Tabs \cup {None}] /\ H[w] = t /\ \A v \in Windows \ {w} : H[v] = B.shows[v]
  <2>1. B.shows \in [Windows -> Tabs \cup {None}]
    BY <1>1 DEF Browsers
  <2> QED
    BY <1>2, <1>3, <2>1
<1>5. C = [B EXCEPT !.shows = H, !.shut = S]
  BY <1>3 DEF Selected
<1>6. C.strip = B.strip /\ C.group = B.group /\ C.pinned = B.pinned /\ C.title = B.title /\ C.page = B.page /\ C.shut = S /\ C.shows = H
  BY <1>1, <1>5 DEF Browsers
<1>7. C \in Browsers
  BY ONLY <1>1, <1>4, <1>5, S \subseteq Groups DEF Browsers
<1>8. Showing(C)
  <2>1. SUFFICES ASSUME NEW v \in Windows
                 PROVE  IF B.strip[v] = <<>> THEN H[v] = None ELSE H[v] \in ToSet(B.strip[v])
    BY <1>6 DEF Showing
  <2>2. CASE v = w
    <3>1. ToSet(<<>>) = {}
      BY DEF ToSet
    <3> QED
      BY <1>4, <2>2, <3>1
  <2>3. CASE v # w
    BY <1>1, <1>4, <2>3 DEF Showing
  <2> QED
    BY <2>2, <2>3
<1>9. WellFormed(C)
  BY <1>6, <1>7, <1>8, OnlyLooks
<1> QED
  BY <1>4, <1>6, <1>9

NewTab(B, C, t, w, page, active) ==
  /\ WellFormed(C) /\ C.pinned = B.pinned /\ C.title = B.title /\ C.shut \subseteq B.shut /\ C.group = B.group
  /\ \A x \in Tabs \ {t} : C.page[x] = B.page[x]
  /\ C.page[t] = page
  /\ \A v \in Windows : ToSet(C.strip[v]) = IF v = w THEN ToSet(B.strip[v]) \cup {t} ELSE ToSet(B.strip[v])
  /\ C.strip[w] = Append(B.strip[w], t)
  /\ active \/ SameShown(B, C)
  /\ NoneShut(B, C)

LEMMA TabsCreateIs ==
    ASSUME NEW B, WellFormed(B), NEW t \in Tabs, t \notin OpenTabs(B), NEW w \in Windows, NEW page \in Addressed,
           NEW active, NEW C \in TabsCreate(B, t, w, page, active)
    PROVE  NewTab(B, C, t, w, page, active)
<1>1. Ready(B) /\ Showing(B) /\ B \in Browsers
  BY WellFormedIs DEF Ready
<1>2. PICK l : l = B.strip[w]
  OBVIOUS
<1>3. l \in Seq(Tabs) /\ IsInjective(l) /\ t \notin ToSet(l) /\ B.group[t] = None
  <2>1. t \notin ToSet(B.strip[w])
    BY OpenIs
  <2> QED
    BY <1>1, <1>2, <2>1, BrowserIs DEF Ready
<1>4. PICK q : q = Append(l, t)
  OBVIOUS
<1>5. q \in Seq(Tabs) /\ IsInjective(q) /\ ToSet(q) = ToSet(l) \cup {t}
  <2> HIDE DEF Before
  <2>1. /\ q \in Seq(Tabs) /\ ToSet(q) = ToSet(l) \cup {t}
        /\ \A x, y : Before(q, x, y) <=> (Before(l, x, y) \/ (x \in ToSet(l) /\ y = t))
    BY ONLY <1>3, <1>4, t \in Tabs, OneMore
  <2>2. \A x : ~Before(l, x, x)
    BY <1>3, OnceIs
  <2>3. \A x : ~Before(q, x, x)
    BY <1>3, <2>1, <2>2
  <2> QED
    BY <2>1, <2>3, OnceIs
<1>6. PICK P : P = [B.page EXCEPT ![t] = page]
  OBVIOUS
<1>7. P \in [Tabs -> Addressed] /\ P[t] = page /\ \A x \in Tabs \ {t} : P[x] = B.page[x]
  <2>1. B.page \in [Tabs -> Addressed]
    BY <1>1 DEF Browsers
  <2> QED
    BY <1>6, <2>1
<1>8. PICK R : R = [B EXCEPT !.strip = [B.strip EXCEPT ![w] = q], !.page = P]
  OBVIOUS
<1>9. PICK D \in Settled(R) : C = [D EXCEPT !.shows[w] = IF active THEN t ELSE @]
  <2>1. [B EXCEPT !.strip[w] = Append(@, t), !.page[t] = page] = R
    BY <1>2, <1>4, <1>6, <1>8
  <2> QED
    BY <2>1 DEF TabsCreate
<1>10. /\ R.strip = [B.strip EXCEPT ![w] = q] /\ R.pinned = B.pinned /\ R.title = B.title /\ R.page = P
       /\ R.shut = B.shut /\ R.shows = B.shows /\ R.group = B.group
  BY <1>1, <1>8 DEF Browsers
<1>11. R.strip \in [Windows -> Seq(Tabs)] /\ R.strip[w] = q /\ \A v \in Windows \ {w} : R.strip[v] = B.strip[v]
  <2>1. B.strip \in [Windows -> Seq(Tabs)]
    BY <1>1 DEF Browsers
  <2> QED
    BY <1>5, <1>10, <2>1
<1>12. R \in Browsers
  BY ONLY <1>1, <1>7, <1>8, <1>10, <1>11 DEF Browsers
<1>13. ASSUME NEW v \in Windows
       PROVE  /\ ToSet(R.strip[v]) = IF v = w THEN ToSet(B.strip[v]) \cup {t} ELSE ToSet(B.strip[v])
              /\ IsInjective(R.strip[v])
  <2>1. CASE v = w
    BY ONLY <1>2, <1>5, <1>11, <2>1
  <2>2. CASE v # w
    <3>1. R.strip[v] = B.strip[v]
      BY <1>11, <2>2
    <3>2. IsInjective(B.strip[v])
      BY <1>1 DEF Ready
    <3> QED
      BY ONLY <2>2, <3>1, <3>2
  <2> QED
    BY <2>1, <2>2
<1>14. \A v \in Windows : t \notin ToSet(B.strip[v])
  BY OpenIs
<1>15. \A x \in OpenTabs(B) : x \in OpenTabs(R)
  BY <1>13, OpenIs
<1>16. Ready(R)
  <2>1. R.pinned \subseteq OpenTabs(R)
    BY <1>1, <1>10, <1>15 DEF Ready
  <2>2. \A u, v \in Windows : \A x : x \in ToSet(R.strip[u]) /\ x \in ToSet(R.strip[v]) => u = v
    <3>1. \A u, v \in Windows : \A x : x \in ToSet(B.strip[u]) /\ x \in ToSet(B.strip[v]) => u = v
      BY <1>1 DEF Ready
    <3> QED
      BY <1>13, <1>14, <3>1
  <2>3. \A x \in Tabs : R.group[x] # None => x \in OpenTabs(R) \ R.pinned /\ R.title[R.group[x]] # "none"
    BY <1>1, <1>10, <1>15 DEF Ready
  <2>4. ASSUME NEW u \in Windows, NEW v \in Windows, NEW x \in ToSet(R.strip[u]), NEW y \in ToSet(R.strip[v]),
               R.group[x] # None, R.group[x] = R.group[y]
        PROVE  u = v
    <3>1. B.group[x] # None /\ B.group[x] = B.group[y] /\ x # t /\ y # t
      BY <1>3, <1>10, <2>4
    <3>2. x \in ToSet(B.strip[u]) /\ y \in ToSet(B.strip[v])
      BY <1>13, <3>1
    <3> QED
      BY <1>1, <3>1, <3>2 DEF Ready
  <2> QED
    BY <1>12, <1>13, <2>1, <2>2, <2>3, <2>4 DEF Ready
<1>17. SettledFrom(R, D)
  BY <1>9, <1>16, SettledIs
<1>a. D.strip[w] = Append(B.strip[w], t)
  <2>1. Whole(B, l)
    BY <1>1, <1>2, <1>3, WellFormedIs, WholeIs
  <2>2. \A x \in ToSet(l) : R.group[x] = B.group[x]
    BY <1>10
  <2>3. R.group[t] = None
    BY <1>3, <1>10
  <2>4. Whole(R, Append(l, t))
    BY ONLY <1>3, t \in Tabs, <2>1, <2>2, <2>3, WholeAppended
  <2> QED
    BY <1>2, <1>4, <1>9, <1>11, <1>16, <2>4, StripsStay
<1>18. WellFormed(D) /\ D.pinned = B.pinned /\ D.title = B.title /\ D.page = P /\ D.shut \subseteq B.shut /\ D.group = B.group
  BY <1>10, <1>17 DEF SettledFrom
<1>19. \A v \in Windows : ToSet(D.strip[v]) = IF v = w THEN ToSet(B.strip[v]) \cup {t} ELSE ToSet(B.strip[v])
  BY <1>13, <1>17 DEF SettledFrom
<1>20. \A v \in Windows :
       \/ D.shows[v] = B.shows[v]
       \/ B.shows[v] \notin ToSet(D.strip[v]) /\ (D.shows[v] # None => D.group[D.shows[v]] \notin D.shut)
  <2>1. \A v \in Windows : ToSet(D.strip[v]) = ToSet(R.strip[v])
    BY <1>17 DEF SettledFrom
  <2> QED
    BY <1>10, <1>17, <1>18, <2>1 DEF SettledFrom
<1>21. D \in Browsers
  BY <1>18, WellFormedIs DEF Ready
<1>22. None \notin D.shut /\ D.shut \subseteq Groups
  BY <1>18, WellFormedIs, BrowserIs
<1>23. CASE ~active
  <2>1. C = D
    <3>1. D.shows \in [Windows -> Tabs \cup {None}]
      BY <1>21 DEF Browsers
    <3>2. C = [D EXCEPT !.shows = [D.shows EXCEPT ![w] = D.shows[w]]]
      BY <1>9, <1>23
    <3>3. [D.shows EXCEPT ![w] = D.shows[w]] = D.shows
      BY <3>1
    <3> QED
      BY <1>21, <3>2, <3>3 DEF Browsers
  <2>2. SameShown(B, C)
    BY <1>20, <2>1 DEF SameShown
  <2>3. NoneShut(B, C)
    <3>1. SUFFICES ASSUME NEW v \in Windows, D.shows[v] # None, D.group[D.shows[v]] \in D.shut
                   PROVE  B.group[B.shows[v]] \in B.shut
      BY <2>1 DEF NoneShut
    <3>2. D.shows[v] = B.shows[v]
      BY <1>20, <3>1
    <3> QED
      BY <1>18, <3>1, <3>2
  <2> QED
    BY <1>7, <1>18, <1>19, <1>a, <2>1, <2>2, <2>3 DEF NewTab
<1>24. CASE active
  <2>1. C = [D EXCEPT !.shows[w] = t, !.shut = D.shut]
    <3>1. C = [D EXCEPT !.shows[w] = t]
      BY <1>9, <1>24
    <3> QED
      BY <1>21, <3>1 DEF Browsers
  <2>2. t \in ToSet(D.strip[w])
    BY <1>19
  <2>3. /\ WellFormed(C) /\ C.strip = D.strip /\ C.group = D.group /\ C.pinned = D.pinned /\ C.title = D.title
        /\ C.page = D.page /\ C.shut = D.shut /\ C.shows[w] = t /\ \A v \in Windows \ {w} : C.shows[v] = D.shows[v]
    <3>1. WellFormed(D) /\ D.shut \subseteq Groups
      BY <1>18, <1>22
    <3>2. PICK S : S = D.shut
      OBVIOUS
    <3>3. C = Selected(D, w, t, S) /\ S \subseteq Groups
      BY <2>1, <3>1, <3>2 DEF Selected
    <3>4. /\ WellFormed(C) /\ C.strip = D.strip /\ C.group = D.group /\ C.pinned = D.pinned /\ C.title = D.title
          /\ C.page = D.page /\ C.shut = S /\ C.shows[w] = t /\ \A v \in Windows \ {w} : C.shows[v] = D.shows[v]
      BY ONLY <2>2, <3>1, <3>3, w \in Windows, ShownIs
    <3> QED
      BY <3>2, <3>4
  <2>4. NoneShut(B, C)
    <3>1. SUFFICES ASSUME NEW v \in Windows, C.shows[v] # None, C.group[C.shows[v]] \in C.shut
                   PROVE  B.group[B.shows[v]] \in B.shut
      BY DEF NoneShut
    <3>2. v # w
      BY <1>3, <1>18, <1>22, <2>3, <3>1
    <3>3. C.shows[v] = D.shows[v] /\ D.shows[v] = B.shows[v]
      BY <1>20, <2>3, <3>1, <3>2
    <3> QED
      BY <1>18, <2>3, <3>1, <3>3
  <2> QED
    BY <1>7, <1>18, <1>19, <1>24, <1>a, <2>3, <2>4 DEF NewTab
<1> QED
  BY <1>23, <1>24

LEMMA PinsIs ==
    ASSUME NEW B, WellFormed(B), NEW t \in OpenTabs(B), t \notin B.pinned, NEW w, w = Window(B, t),
           NEW C \in Settled([B EXCEPT !.strip[w] = Spliced(Without(@, {t}), Cardinality(B.pinned \cap ToSet(@)), <<t>>),
                                       !.group[t] = None, !.pinned = @ \cup {t}])
    PROVE  WellFormed(C)
<1>1. Ready(B) /\ B \in Browsers
  BY WellFormedIs DEF Ready
<1>2. w \in Windows /\ t \in ToSet(B.strip[w]) /\ t \in Tabs
  BY <1>1, WindowIs, BrowserIs
<1> HIDE DEF Before
<1>3. PICK s : s = B.strip[w]
  OBVIOUS
<1>4. s \in Seq(Tabs) /\ IsInjective(s)
  BY <1>1, <1>2, <1>3, BrowserIs
<1>5. PICK l : l = Without(s, {t})
  OBVIOUS
<1>6. l \in Seq(Tabs) /\ IsInjective(l) /\ ToSet(l) = ToSet(s) \ {t}
  <2>1. \A S : Without(s, S) \in Seq(Tabs) /\ IsInjective(Without(s, S)) /\ ToSet(Without(s, S)) = ToSet(s) \ S
    BY <1>4, WithoutOnce
  <2> QED
    BY <1>5, <2>1
<1>7. PICK at : at = Cardinality(B.pinned \cap ToSet(s))
  OBVIOUS
<1>8. at \in 0..Len(l)
  <2>1. IsFiniteSet(ToSet(l)) /\ Cardinality(ToSet(l)) \in Nat /\ Cardinality(ToSet(l)) <= Len(l)
    BY ONLY <1>6, CardinalityIs
  <2>2. PICK S : S = B.pinned \cap ToSet(s)
    OBVIOUS
  <2>3. S \subseteq ToSet(l)
    BY <1>6, <2>2
  <2>4. Cardinality(S) \in Nat /\ Cardinality(S) <= Cardinality(ToSet(l))
    BY <2>1, <2>3, FS_Subset, FS_CardinalityType
  <2>5. at = Cardinality(S) /\ Len(l) \in Nat
    BY <1>6, <1>7, <2>2
  <2>6. PICK c : c = Cardinality(ToSet(l))
    OBVIOUS
  <2>7. at \in Nat /\ c \in Nat /\ Len(l) \in Nat /\ at <= c /\ c <= Len(l)
    BY <2>1, <2>4, <2>5, <2>6
  <2> QED
    BY ONLY <2>7
<1>9. PICK u : u = <<t>>
  OBVIOUS
<1>10. u \in Seq(Tabs) /\ IsInjective(u) /\ ToSet(u) = {t}
  BY <1>2, <1>9, SingleIs1 DEF IsInjective
<1>11. PICK q : q = Spliced(l, at, u)
  OBVIOUS
<1>12. q \in Seq(Tabs) /\ IsInjective(q) /\ ToSet(q) = ToSet(s)
  <2>1. ToSet(l) \cap ToSet(u) = {}
    BY <1>6, <1>10
  <2>2. q \in Seq(Tabs) /\ ToSet(q) = ToSet(l) \cup ToSet(u)
    BY ONLY <1>6, <1>8, <1>10, <1>11, SplicedIs
  <2>3. IsInjective(q)
    BY ONLY <1>6, <1>8, <1>10, <1>11, <2>1, SplicedOnce
  <2> QED
    BY <1>2, <1>3, <1>6, <1>10, <2>2, <2>3
<1>13. PICK G : G = [B.group EXCEPT ![t] = None]
  OBVIOUS
<1>14. G \in [Tabs -> Groups \cup {None}] /\ \A x \in Tabs : G[x] = IF x = t THEN None ELSE B.group[x]
  <2>1. B.group \in [Tabs -> Groups \cup {None}]
    BY <1>1 DEF Browsers
  <2> QED
    BY <1>2, <1>13, <2>1
<1>15. PICK R : R = [B EXCEPT !.strip = [B.strip EXCEPT ![w] = q], !.group = G, !.pinned = B.pinned \cup {t}]
  OBVIOUS
<1>16. C \in Settled(R)
  <2>1. [B EXCEPT !.strip[w] = Spliced(Without(@, {t}), Cardinality(B.pinned \cap ToSet(@)), <<t>>),
                  !.group[t] = None, !.pinned = @ \cup {t}] = R
    BY <1>3, <1>5, <1>7, <1>9, <1>11, <1>13, <1>15
  <2> QED
    BY <2>1
<1>17. /\ R.strip = [B.strip EXCEPT ![w] = q] /\ R.pinned = B.pinned \cup {t} /\ R.title = B.title /\ R.group = G
  BY <1>1, <1>15 DEF Browsers
<1>18. R.strip \in [Windows -> Seq(Tabs)] /\ R.strip[w] = q /\ \A v \in Windows \ {w} : R.strip[v] = B.strip[v]
  <2>1. B.strip \in [Windows -> Seq(Tabs)]
    BY <1>1 DEF Browsers
  <2> QED
    BY <1>2, <1>12, <1>17, <2>1
<1>19. R \in Browsers
  <2>1. B.pinned \cup {t} \subseteq Tabs
    BY <1>1, <1>2, BrowserIs
  <2>2. R = [B EXCEPT !.strip = R.strip, !.group = G, !.pinned = B.pinned \cup {t}]
    BY <1>15, <1>17
  <2> QED
    BY ONLY <1>1, <1>14, <1>18, <2>1, <2>2 DEF Browsers
<1>20. ASSUME NEW v \in Windows PROVE ToSet(R.strip[v]) = ToSet(B.strip[v]) /\ IsInjective(R.strip[v])
  <2>1. CASE v = w
    BY ONLY <1>3, <1>12, <1>18, <2>1
  <2>2. CASE v # w
    <3>1. R.strip[v] = B.strip[v]
      BY <1>18, <2>2
    <3>2. IsInjective(B.strip[v])
      BY <1>1 DEF Ready
    <3> QED
      BY ONLY <3>1, <3>2
  <2> QED
    BY <2>1, <2>2
<1>21. OpenTabs(R) = OpenTabs(B)
  BY <1>20 DEF OpenTabs
<1>22. Ready(R)
  <2>1. R.pinned \subseteq OpenTabs(R)
    BY <1>1, <1>17, <1>21 DEF Ready
  <2>2. \A u1, v \in Windows : \A x : x \in ToSet(R.strip[u1]) /\ x \in ToSet(R.strip[v]) => u1 = v
    <3>1. \A u1, v \in Windows : \A x : x \in ToSet(B.strip[u1]) /\ x \in ToSet(B.strip[v]) => u1 = v
      BY <1>1 DEF Ready
    <3> QED
      BY <1>20, <3>1
  <2>3. \A x \in Tabs : R.group[x] # None => x \in OpenTabs(R) \ R.pinned /\ R.title[R.group[x]] # "none"
    BY <1>1, <1>14, <1>17, <1>21 DEF Ready
  <2>4. ASSUME NEW u1 \in Windows, NEW v \in Windows, NEW x \in ToSet(R.strip[u1]), NEW y \in ToSet(R.strip[v]),
               R.group[x] # None, R.group[x] = R.group[y]
        PROVE  u1 = v
    <3>1. x \in ToSet(B.strip[u1]) /\ y \in ToSet(B.strip[v])
      BY <1>20
    <3>2. x \in Tabs /\ y \in Tabs
      BY <1>1, <3>1, BrowserIs, Numbered
    <3>3. B.group[x] # None /\ B.group[x] = B.group[y]
      BY <1>14, <1>17, <2>4, <3>2
    <3> QED
      BY <1>1, <3>1, <3>3 DEF Ready
  <2> QED
    BY <1>19, <1>20, <2>1, <2>2, <2>3, <2>4 DEF Ready
<1>23. SettledFrom(R, C)
  BY <1>16, <1>22, SettledIs
<1> QED
  BY <1>23 DEF SettledFrom

LEMMA TypedIs ==
    ASSUME NEW B, WellFormed(B), NEW t \in Tabs, NEW p \in Addressed
    PROVE  WellFormed([B EXCEPT !.page[t] = p])
<1>1. Ready(B) /\ Showing(B) /\ B \in Browsers
  BY WellFormedIs DEF Ready
<1>2. PICK P : P = [B.page EXCEPT ![t] = p]
  OBVIOUS
<1>3. P \in [Tabs -> Addressed]
  BY <1>1, <1>2 DEF Browsers
<1>4. PICK C : C = [B EXCEPT !.page = P]
  OBVIOUS
<1>5. C = [B EXCEPT !.page[t] = p]
  BY <1>2, <1>4
<1>6. C.strip = B.strip /\ C.group = B.group /\ C.pinned = B.pinned /\ C.title = B.title /\ C.shows = B.shows
  BY <1>1, <1>4 DEF Browsers
<1>7. C \in Browsers
  BY ONLY <1>1, <1>3, <1>4 DEF Browsers
<1>8. Showing(C)
  BY <1>1, <1>6 DEF Showing
<1>9. WellFormed(C)
  BY <1>6, <1>7, <1>8, OnlyLooks
<1> QED
  BY <1>5, <1>9

Labelled(B, T, S) == [B EXCEPT !.title = T, !.shut = S]

LEMMA LabelledIs ==
    ASSUME NEW B, WellFormed(B), NEW T \in [Groups -> Titles], NEW S, S \subseteq Groups,
           \A g \in Groups : B.title[g] # "none" => T[g] # "none", NEW C, C = Labelled(B, T, S)
    PROVE  /\ WellFormed(C) /\ C.strip = B.strip /\ C.group = B.group /\ C.pinned = B.pinned
           /\ C.shows = B.shows /\ C.page = B.page /\ C.title = T /\ C.shut = S
<1>1. Ready(B) /\ Showing(B) /\ B \in Browsers
  BY WellFormedIs DEF Ready
<1>2. /\ C.strip = B.strip /\ C.group = B.group /\ C.pinned = B.pinned
      /\ C.shows = B.shows /\ C.page = B.page /\ C.title = T /\ C.shut = S
  BY <1>1 DEF Browsers, Labelled
<1>3. C \in Browsers
  BY ONLY <1>1, T \in [Groups -> Titles], S \subseteq Groups, C = Labelled(B, T, S) DEF Browsers, Labelled
<1>4. Showing(C)
  BY <1>1, <1>2 DEF Showing
<1>5. WellFormed(C)
  BY <1>2, <1>3, <1>4, OnlyLooks
<1> QED
  BY <1>2, <1>5

(* A window's groups of a title are those its tabs are in.                 *)
LEMMA TitledInIs ==
    ASSUME NEW B, WellFormed(B), NEW title, NEW w \in Windows
    PROVE  /\ TitledIn(B, title, w) \in Seq(Groups)
           /\ ToSet(TitledIn(B, title, w)) = {g \in Groups : B.title[g] = title /\ \E x \in ToSet(B.strip[w]) : B.group[x] = g}
<1>1. Ready(B)
  BY WellFormedIs
<1> HIDE DEF Before
<1>2. PICK s : s = B.strip[w]
  OBVIOUS
<1>3. s \in Seq(Tabs) /\ IsInjective(s)
  BY <1>1, <1>2, BrowserIs
<1>4. PICK us : us = Units(B, s)
  OBVIOUS
<1>5. /\ us \in Seq(Seq(Tabs))
      /\ ToSet(us) = {UnitAt(B, s, i) : i \in {j \in 1..Len(s) : Leads(B, s, j)}}
  BY ONLY <1>3, <1>4, UnitsAre
<1>6. \A i \in 1..Len(s) : Leads(B, s, i) =>
        /\ UnitAt(B, s, i) \in Seq(Tabs)
        /\ ToSet(UnitAt(B, s, i)) = {x \in ToSet(s) : Kin(B, s[i], x)}
  BY <1>3, UnitAtIs
<1>7. \A i \in 1..Len(s) : s[i] \in ToSet(s) /\ s[i] \in Tabs
  BY <1>3 DEF ToSet
<1>8. ASSUME NEW i \in 1..Len(s), Leads(B, s, i)
      PROVE  B.group[Head(UnitAt(B, s, i))] = B.group[s[i]]
  <2>1. PICK u : u = UnitAt(B, s, i)
    OBVIOUS
  <2>2. u \in Seq(Tabs) /\ ToSet(u) = {x \in ToSet(s) : Kin(B, s[i], x)}
    BY <1>6, <1>8, <2>1
  <2>3. s[i] \in ToSet(u)
    BY <1>7, <2>2, KinIs
  <2>4. u # <<>>
    BY <2>3 DEF ToSet
  <2>5. Head(u) \in ToSet(u)
    BY <2>2, <2>4 DEF ToSet
  <2>6. Kin(B, s[i], Head(u))
    BY <2>2, <2>5
  <2> QED
    BY <2>1, <2>6 DEF Kin
<1>9. PICK gs : gs = [i \in 1..Len(us) |-> B.group[Head(us[i])]]
  OBVIOUS
<1>10. Len(us) \in Nat /\ DOMAIN us = 1..Len(us) /\ \A i \in 1..Len(us) : us[i] \in ToSet(us)
  BY <1>5 DEF ToSet
<1>11. \A u \in ToSet(us) : \E i \in 1..Len(s) : Leads(B, s, i) /\ B.group[Head(u)] = B.group[s[i]]
  BY <1>5, <1>8
<1>12. gs \in Seq(Groups \cup {None})
  <2>1. \A i \in 1..Len(us) : B.group[Head(us[i])] \in Groups \cup {None}
    BY <1>1, <1>7, <1>10, <1>11, BrowserIs
  <2> QED
    BY <1>9, <1>10, <2>1
<1>13. ToSet(gs) = {B.group[Head(us[i])] : i \in 1..Len(us)}
  BY <1>9, <1>10 DEF ToSet
<1>14. ASSUME NEW x \in ToSet(s) PROVE B.group[x] \in ToSet(gs)
  <2>1. PICK k \in 1..Len(s) : s[k] = x
    BY <1>3 DEF ToSet
  <2>2. PICK i \in 1..k : Kin(B, s[i], s[k]) /\ Leads(B, s, i)
    BY <1>3, LeaderOf
  <2>3. i \in 1..Len(s)
    BY <1>3
  <2>4. B.group[s[i]] = B.group[x]
    BY <2>1, <2>2 DEF Kin
  <2>5. UnitAt(B, s, i) \in ToSet(us)
    BY <1>5, <2>2, <2>3
  <2>6. PICK n \in 1..Len(us) : us[n] = UnitAt(B, s, i)
    BY <1>10, <2>5 DEF ToSet
  <2>7. B.group[Head(us[n])] = B.group[s[i]]
    BY <1>8, <2>2, <2>3, <2>6
  <2> QED
    BY <1>13, <2>4, <2>7
<1>15. ASSUME NEW g \in ToSet(gs) PROVE \E x \in ToSet(s) : B.group[x] = g
  BY <1>7, <1>10, <1>11, <1>13
<1>16. PICK K : K = {g \in Groups : B.title[g] = title}
  OBVIOUS
<1>17. TitledIn(B, title, w) = Only(gs, K)
  BY <1>2, <1>4, <1>9, <1>16 DEF TitledIn
<1>18. PICK U : U = (Groups \cup {None}) \cap K
  OBVIOUS
<1>19. Only(gs, K) \in Seq(U) /\ ToSet(Only(gs, K)) = ToSet(gs) \cap K
  BY <1>12, <1>18, OnlyIs
<1>20. U \subseteq Groups
  BY <1>16, <1>18
<1>21. Only(gs, K) \in Seq(Groups)
  BY ONLY <1>19, <1>20, SeqMonotonic
<1> QED
  BY <1>2, <1>14, <1>15, <1>16, <1>17, <1>19, <1>21

(***************************************************************************)
(* What is known of an operation at each of its steps.                     *)
(***************************************************************************)
LEMMA OverlaidIs ==
    ASSUME NEW o, NEW f
    PROVE  /\ DOMAIN Overlaid(o, f) = DOMAIN o \cup DOMAIN f
           /\ \A x \in DOMAIN f : Overlaid(o, f)[x] = f[x]
           /\ \A x \in DOMAIN o \ DOMAIN f : Overlaid(o, f)[x] = o[x]
  BY DEF Overlaid

OpFields == {"pc", "kind", "ids", "title", "w", "g", "index", "page", "shut", "active", "findOnly",
           "todo", "rest", "part", "moved", "keep", "from", "tried", "failed", "was"}

Named(o) ==
  /\ o.ids \in Seq(Tabs) /\ o.title \in Titles \ {"none"} /\ o.w \in Windows /\ o.g \in Groups \cup {None}
  /\ o.index \in Nat /\ o.page \in Addressed

Once(s) == s \in Seq(Tabs) /\ IsInjective(s)

Stage(o, mine) ==
  /\ o.pc \in {"sort", "sort next", "sort loose"} => o.kind = "sort"
  /\ o.pc \in {"gather", "gather next", "fold", "move in"} => o.kind = "gather"
  /\ o.pc = "move in" => /\ o.from \in Windows /\ Once(o.part) /\ Once(o.moved)
                         /\ ToSet(o.part) \cap ToSet(o.moved) = {}
  /\ o.pc = "fold" => o.keep \in Groups
  /\ o.pc \in {"check", "close dups"} => o.kind = "show" /\ o.todo \in Seq(Tabs) /\ ToSet(o.todo) \subseteq mine
  /\ o.pc = "show" => o.kind = "show"
  /\ o.pc = "close" => o.kind = "close"
  /\ o.pc = "activate" => o.active
  /\ o.pc \in {"group", "join", "plan", "order", "rejoin"} => IsInjective(o.ids)
  /\ o.pc = "join" => o.ids # <<>>
  /\ o.pc \in {"plan", "order", "rejoin"} => o.g \in Groups
  /\ o.pc = "rejoin" => Once(o.todo)

Told(o, mine) == OpFields \subseteq DOMAIN o /\ Named(o) /\ Stage(o, mine)

BrowserSound == WellFormed(b) /\ (op = Idle \/ Told(op, ours))

LEMMA OverlaidKeeps ==
    ASSUME NEW o, OpFields \subseteq DOMAIN o, NEW f, NEW n, n = Overlaid(o, f)
    PROVE  /\ OpFields \subseteq DOMAIN n
           /\ \A x \in OpFields : n[x] = IF x \in DOMAIN f THEN f[x] ELSE o[x]
  BY OverlaidIs, ZenonT(60)

\* What a step writes of an operation, the one that waits for a drag aside.
Wrote(o, n, f) ==
  /\ OpFields \subseteq DOMAIN n
  /\ \A x \in OpFields \ {"tried"} : n[x] = IF x \in DOMAIN f THEN f[x] ELSE o[x]

Nothing == [tried |-> TRUE]

LEMMA MoveIs ==
    ASSUME NEW f, OpFields \subseteq DOMAIN op, Move(f)
    PROVE  Wrote(op, op', f)
  BY OverlaidKeeps DEF Move, Wrote

LEMMA EditIs ==
    ASSUME NEW ok, NEW Bs, NEW then, NEW instead, OpFields \subseteq DOMAIN op, Edit(ok, Bs, then, instead)
    PROVE  \/ b' = b /\ Wrote(op, op', Nothing)
           \/ ok /\ b' \in Bs /\ Wrote(op, op', then)
           \/ b' = b /\ Wrote(op, op', instead)
<1>0. DOMAIN [tried |-> FALSE] = {"tried"} /\ DOMAIN Nothing = {"tried"}
  BY DEF Nothing
<1>1. ASSUME NEW f, Move(Overlaid(f, [tried |-> FALSE]))
      PROVE  Wrote(op, op', f)
  <2>1. PICK e : e = Overlaid(f, [tried |-> FALSE])
    OBVIOUS
  <2>2. DOMAIN e = DOMAIN f \cup {"tried"} /\ \A x \in DOMAIN f \ {"tried"} : e[x] = f[x]
    BY <1>0, <2>1, OverlaidIs
  <2>3. op' = Overlaid(op, e)
    BY <1>1, <2>1 DEF Move
  <2>4. OpFields \subseteq DOMAIN op' /\ \A x \in OpFields : op'[x] = IF x \in DOMAIN e THEN e[x] ELSE op[x]
    BY <2>3, OverlaidKeeps
  <2> QED
    BY <2>2, <2>4 DEF Wrote
<1>2. CASE ok /\ dragging /\ ~op.tried
  BY <1>2, MoveIs DEF Edit, Nothing
<1>3. CASE ok /\ ~dragging
  BY <1>1, <1>3 DEF Edit
<1>4. CASE ~(ok /\ dragging /\ ~op.tried) /\ ~(ok /\ ~dragging)
  BY <1>1, <1>4 DEF Edit
<1> QED
  BY <1>2, <1>3, <1>4

LEMMA WroteIs ==
    ASSUME NEW o, NEW n, NEW f, Wrote(o, n, f)
    PROVE  /\ OpFields \subseteq DOMAIN n
           /\ n.pc = IF "pc" \in DOMAIN f THEN f.pc ELSE o.pc
           /\ n.kind = IF "kind" \in DOMAIN f THEN f.kind ELSE o.kind
           /\ n.ids = IF "ids" \in DOMAIN f THEN f.ids ELSE o.ids
           /\ n.title = IF "title" \in DOMAIN f THEN f.title ELSE o.title
           /\ n.w = IF "w" \in DOMAIN f THEN f.w ELSE o.w
           /\ n.g = IF "g" \in DOMAIN f THEN f.g ELSE o.g
           /\ n.index = IF "index" \in DOMAIN f THEN f.index ELSE o.index
           /\ n.page = IF "page" \in DOMAIN f THEN f.page ELSE o.page
           /\ n.active = IF "active" \in DOMAIN f THEN f.active ELSE o.active
           /\ n.todo = IF "todo" \in DOMAIN f THEN f.todo ELSE o.todo
           /\ n.part = IF "part" \in DOMAIN f THEN f.part ELSE o.part
           /\ n.moved = IF "moved" \in DOMAIN f THEN f.moved ELSE o.moved
           /\ n.keep = IF "keep" \in DOMAIN f THEN f.keep ELSE o.keep
           /\ n.from = IF "from" \in DOMAIN f THEN f.from ELSE o.from
  BY DEF Wrote, OpFields

LEMMA NamedStill ==
    ASSUME NEW o, NEW n, NEW f, Wrote(o, n, f), Named(o), DOMAIN f \cap {"ids", "title", "w", "g", "index", "page"} = {}
    PROVE  Named(n)
<1>1. n.ids = o.ids /\ n.title = o.title /\ n.w = o.w /\ n.g = o.g /\ n.index = o.index /\ n.page = o.page
  BY WroteIs
<1> QED
  BY <1>1 DEF Named

PinsKept == b.pinned \cap OpenTabs(b)' \subseteq b.pinned'

StripStep == TabsKept /\ WindowsKept /\ PinsKept /\ ShowsKept /\ NothingHidden

LEMMA WellFormedIsReady ==
    ASSUME NEW B, WellFormed(B)
    PROVE  Ready(B)
  BY WellFormedIs

LEMMA SameWindow ==
    ASSUME NEW B, Ready(B), NEW C, Ready(C), NEW t \in OpenTabs(C),
           \A w \in Windows : t \in ToSet(C.strip[w]) => t \in ToSet(B.strip[w])
    PROVE  Window(C, t) = Window(B, t)
<1>1. Window(C, t) \in Windows /\ t \in ToSet(C.strip[Window(C, t)])
  BY WindowIs
<1>2. t \in ToSet(B.strip[Window(C, t)])
  BY <1>1
<1> QED
  BY <1>1, <1>2, WindowIs

LEMMA TabsStay ==
    ASSUME WellFormed(b), WellFormed(b)', \A w \in Windows : ToSet(b'.strip[w]) = ToSet(b.strip[w])
    PROVE  TabsKept /\ WindowsKept
<1>0. Ready(b) /\ Ready(b')
  BY WellFormedIsReady
<1>1. OpenTabs(b') = OpenTabs(b)
  <2>1. \A t : t \in OpenTabs(b') <=> t \in OpenTabs(b)
    BY OpenIs
  <2> QED
    BY ONLY <2>1
<1>2. \A t \in OpenTabs(b') : Window(b', t) = Window(b, t)
  BY <1>0, SameWindow
<1> QED
  BY <1>1, <1>2 DEF TabsKept, WindowsKept

LEMMA ShownAlike ==
    ASSUME SameShown(b, b')
    PROVE  ShowsKept
  BY DEF SameShown, ShowsKept

LEMMA HiddenNone ==
    ASSUME NoneShut(b, b')
    PROVE  NothingHidden
  BY DEF NoneShut, NothingHidden

LEMMA BrowserStays ==
    ASSUME WellFormed(b), b' = b
    PROVE  WellFormed(b)' /\ StripStep
<1>1. WellFormed(b)'
  BY DEF WellFormed
<1>2. TabsKept /\ WindowsKept
  BY <1>1, TabsStay
<1>3. PinsKept
  BY DEF PinsKept
<1>4. ShowsKept /\ NothingHidden
  BY DEF ShowsKept, NothingHidden
<1> QED
  BY <1>1, <1>2, <1>3, <1>4 DEF StripStep

LEMMA OnlyWrote ==
    ASSUME WellFormed(b), b' = b, ours' = ours, Told(op', ours)
    PROVE  BrowserSound' /\ StripStep
  BY BrowserStays DEF BrowserSound

LEMMA NothingWrote ==
    ASSUME NEW o, NEW n, Wrote(o, n, Nothing), NEW mine, Told(o, mine)
    PROVE  Told(n, mine)
<1>1. DOMAIN Nothing = {"tried"}
  BY DEF Nothing
<1>2. /\ n.pc = o.pc /\ n.kind = o.kind /\ n.ids = o.ids /\ n.w = o.w /\ n.g = o.g /\ n.active = o.active
      /\ n.todo = o.todo /\ n.part = o.part /\ n.moved = o.moved /\ n.keep = o.keep /\ n.from = o.from
      /\ OpFields \subseteq DOMAIN n
  BY <1>1, WroteIs
<1>3. Named(n)
  BY <1>1, NamedStill DEF Told
<1>4. Stage(n, mine)
  BY <1>2 DEF Stage, Told
<1> QED
  BY <1>2, <1>3, <1>4 DEF Told

LEMMA FailedWrote ==
    ASSUME NEW n, Wrote(op, n, Failed), NEW mine, Told(op, mine)
    PROVE  Told(n, mine)
<1>1. CASE op.kind # "gather"
  <2>1. DOMAIN Failed = {"pc", "failed"} /\ Failed.pc = "done"
    BY <1>1 DEF Failed
  <2>2. Named(n)
    BY <2>1, NamedStill DEF Told
  <2>3. n.pc = "done" /\ OpFields \subseteq DOMAIN n
    BY <2>1, WroteIs
  <2>4. Stage(n, mine)
    BY <2>3 DEF Stage
  <2> QED
    BY <2>2, <2>3, <2>4 DEF Told
<1>2. CASE op.kind = "gather"
  <2>1. DOMAIN Failed = {"pc"} /\ Failed.pc = "gather next"
    BY <1>2 DEF Failed
  <2>2. Named(n)
    BY <2>1, NamedStill DEF Told
  <2>3. n.pc = "gather next" /\ n.kind = "gather" /\ OpFields \subseteq DOMAIN n
    BY <1>2, <2>1, WroteIs
  <2>4. Stage(n, mine)
    BY <2>3 DEF Stage
  <2> QED
    BY <2>2, <2>3, <2>4 DEF Told
<1> QED
  BY <1>1, <1>2

LEMMA FinishedWrote ==
    ASSUME NEW n, Wrote(op, n, Finished), NEW mine, Told(op, mine)
    PROVE  Told(n, mine)
<1>1. CASE op.kind # "gather"
  <2>1. DOMAIN Finished = {"pc"} /\ Finished.pc = "done"
    BY <1>1 DEF Finished
  <2>2. Named(n)
    BY <2>1, NamedStill DEF Told
  <2>3. n.pc = "done" /\ OpFields \subseteq DOMAIN n
    BY <2>1, WroteIs
  <2>4. Stage(n, mine)
    BY <2>3 DEF Stage
  <2> QED
    BY <2>2, <2>3, <2>4 DEF Told
<1>2. CASE op.kind = "gather"
  <2>1. DOMAIN Finished = {"pc", "keep"} /\ Finished.pc = "gather next"
    BY <1>2 DEF Finished
  <2>2. Named(n)
    BY <2>1, NamedStill DEF Told
  <2>3. n.pc = "gather next" /\ n.kind = "gather" /\ OpFields \subseteq DOMAIN n
    BY <1>2, <2>1, WroteIs
  <2>4. Stage(n, mine)
    BY <2>3 DEF Stage
  <2> QED
    BY <2>2, <2>3, <2>4 DEF Told
<1> QED
  BY <1>1, <1>2

LEMMA FreshIsEmpty ==
    ASSUME NEW B, WellFormed(B), NEW g, B.title[g] = "none"
    PROVE  ~Lives(B, g)
<1>1. SUFFICES ASSUME Lives(B, g) PROVE FALSE
  OBVIOUS
<1>2. Ready(B)
  BY WellFormedIsReady
<1>3. PICK t : t = Head(Members(B, g))
  OBVIOUS
<1>4. t \in OpenTabs(B) /\ B.group[t] = g /\ g # None
  BY <1>1, <1>2, <1>3, MembersAre DEF Lives
<1>5. t \in Tabs
  BY <1>2, <1>4, BrowserIs
<1> QED
  BY <1>2, <1>4, <1>5 DEF Ready

\* A join takes tabs of one window into a group of it, or into a new one.
LEMMA GroupedStep ==
    ASSUME WellFormed(b), NEW w \in Windows, NEW ts \in Seq(Tabs), IsInjective(ts), NEW g \in Groups,
           \A t \in ToSet(ts) : t \in ToSet(b.strip[w]) /\ t \notin b.pinned,
           Lives(b, g) => GroupWindow(b, g) = w, ~Lives(b, g) => ts # <<>>,
           b' \in TabsGroup(b, ts, g, w)
    PROVE  WellFormed(b)' /\ TabsKept /\ WindowsKept /\ PinsKept /\ ShowsKept
<1>1. ToSet(ts) \subseteq ToSet(b.strip[w])
  OBVIOUS
<1>2. PICK B : B = b'
  OBVIOUS
<1>3. /\ WellFormed(B) /\ B.pinned = b.pinned \ ToSet(ts)
      /\ \A v \in Windows : ToSet(B.strip[v]) = ToSet(b.strip[v]) /\ B.shows[v] = b.shows[v]
  <2>1. Grouped(b, B, ts, g)
    BY <1>1, <1>2, TabsGroupIs
  <2> QED
    BY <2>1 DEF Grouped
<1>4. WellFormed(b)'
  BY <1>2, <1>3
<1>5. TabsKept /\ WindowsKept
  BY <1>2, <1>3, <1>4, TabsStay
<1>6. PinsKept
  BY <1>2, <1>3 DEF PinsKept
<1>7. ShowsKept
  BY <1>2, <1>3 DEF ShowsKept
<1> QED
  BY <1>4, <1>5, <1>6, <1>7

LEMMA JoinGroupIs ==
    ASSUME BrowserSound, JoinGroup
    PROVE  BrowserSound' /\ StripStep
<1> DEFINE then == [pc |-> "plan", g |-> Group]
           Bs == TabsGroup(b, op.ids, Group, op.w)
<1>1. /\ op.pc = "join" /\ ours' = ours /\ WellFormed(b) /\ Told(op, ours)
      /\ Edit(StillIn(op.w, op.ids, op.g), Bs, then, Failed)
  BY DEF JoinGroup, BrowserSound, At, Idle
<1>2. \/ b' = b /\ Wrote(op, op', Nothing)
      \/ StillIn(op.w, op.ids, op.g) /\ b' \in Bs /\ Wrote(op, op', then)
      \/ b' = b /\ Wrote(op, op', Failed)
  <2>1. OpFields \subseteq DOMAIN op
    BY <1>1 DEF Told
  <2> HIDE DEF then, Bs
  <2> QED
    BY <1>1, <2>1, EditIs
<1>3. Group \in Groups /\ (op.g # None => Group = op.g) /\ (op.g = None => b.title[Group] = "none")
  <2>1. op.g \in Groups \cup {None}
    BY <1>1 DEF Told, Named
  <2>2. op.g = None => \E g \in Groups : b.title[g] = "none"
    BY DEF JoinGroup, GroupsLeft
  <2> QED
    BY <2>1, <2>2 DEF Group, Fresh
<1>4. CASE b' = b /\ Wrote(op, op', Nothing)
  BY <1>1, <1>4, NothingWrote, OnlyWrote
<1>5. CASE StillIn(op.w, op.ids, op.g) /\ b' \in Bs /\ Wrote(op, op', then)
  <2>1. PICK w, ts, g : w = op.w /\ ts = op.ids /\ g = Group
    OBVIOUS
  <2>2. w \in Windows /\ ts \in Seq(Tabs) /\ IsInjective(ts) /\ ts # <<>> /\ g \in Groups
    BY <1>1, <1>3, <2>1 DEF Told, Named, Stage
  <2>3. /\ op.g # None => Lives(b, op.g) /\ GroupWindow(b, op.g) = w
        /\ \A t \in ToSet(ts) : t \in ToSet(b.strip[w]) /\ t \notin b.pinned
    BY <1>5, <2>1 DEF StillIn, InPlace
  <2>4. Lives(b, g) => GroupWindow(b, g) = w
    BY <1>1, <1>3, <2>1, <2>3, FreshIsEmpty
  <2>5. b' \in TabsGroup(b, ts, g, w)
    BY <1>5, <2>1
  <2>6. WellFormed(b)' /\ TabsKept /\ WindowsKept /\ PinsKept /\ ShowsKept
    BY <1>1, <2>2, <2>3, <2>4, <2>5, GroupedStep
  <2>7. NothingHidden
    BY <1>1 DEF NothingHidden
  <2>8a. PICK n : n = op'
    OBVIOUS
  <2>8. Told(op', ours)
    <3>1. DOMAIN then = {"pc", "g"} /\ then.pc = "plan" /\ then.g = Group
      OBVIOUS
    <3> HIDE DEF then
    <3>2. /\ n.pc = "plan" /\ n.kind = op.kind /\ n.ids = op.ids /\ n.w = op.w /\ n.g = Group
          /\ n.title = op.title /\ n.index = op.index /\ n.page = op.page /\ OpFields \subseteq DOMAIN n
      BY <1>5, <2>8a, <3>1, WroteIs
    <3>3. Named(n)
      BY <1>1, <1>3, <3>2 DEF Told, Named
    <3>4. Stage(n, ours)
      BY <1>1, <1>3, <3>2 DEF Told, Stage
    <3> QED
      BY <2>8a, <3>2, <3>3, <3>4 DEF Told
  <2> QED
    BY <1>1, <2>6, <2>7, <2>8 DEF BrowserSound, StripStep
<1>6. CASE b' = b /\ Wrote(op, op', Failed)
  BY <1>1, <1>6, FailedWrote, OnlyWrote
<1> QED
  BY <1>2, <1>4, <1>5, <1>6

\* A tab moved to a window: none closes, the others stay in their windows.
LEMMA MovedStep ==
    ASSUME WellFormed(b), NEW t \in OpenTabs(b), NEW w \in Windows, NEW i \in Nat \ {0}, b' \in TabsMove(b, t, w, i)
    PROVE  /\ WellFormed(b)' /\ TabsKept /\ PinsKept /\ ShowsKept /\ NothingHidden
           /\ \A x \in OpenTabs(b) \ {t} : Window(b', x) = Window(b, x)
           /\ Window(b', t) = w
<1>1. PICK A, B : A = b /\ B = b' /\ B \in TabsMove(A, t, w, i) /\ WellFormed(A) /\ t \in OpenTabs(A)
  OBVIOUS
<1>2. /\ WellFormed(B) /\ B.pinned = A.pinned
      /\ \A v \in Windows : ToSet(B.strip[v]) = IF v = w THEN ToSet(A.strip[v]) \cup {t} ELSE ToSet(A.strip[v]) \ {t}
      /\ SameShown(A, B) /\ NoneShut(A, B)
  <2>1. Moved(A, B, t, w)
    BY <1>1, TabsMoveIs
  <2> QED
    BY <2>1 DEF Moved
<1>3. Ready(A) /\ Ready(B)
  BY <1>1, <1>2, WellFormedIsReady
<1>4. \A x \in OpenTabs(A) : x \in OpenTabs(B)
  <2>1. t \in OpenTabs(B)
    BY <1>2, OpenIs
  <2>2. ASSUME NEW x \in OpenTabs(A), x # t PROVE x \in OpenTabs(B)
    <3>1. PICK v \in Windows : x \in ToSet(A.strip[v])
      BY OpenIs
    <3> QED
      BY <1>2, <2>2, <3>1, OpenIs
  <2> QED
    BY <2>1, <2>2
<1>5. \A x \in OpenTabs(A) \ {t} : Window(B, x) = Window(A, x)
  <2>1. TAKE x \in OpenTabs(A) \ {t}
  <2>2. \A v \in Windows : x \in ToSet(A.strip[v]) => x \in ToSet(B.strip[v])
    BY <1>2
  <2> QED
    BY ONLY <1>3, <2>1, <2>2, SameWindow
<1>6. Window(B, t) = w
  BY <1>2, <1>3, WindowIs
<1>7. TabsKept
  BY <1>1, <1>4 DEF TabsKept
<1>8. PinsKept
  BY <1>1, <1>2 DEF PinsKept
<1>9. ShowsKept /\ NothingHidden
  BY <1>1, <1>2, ShownAlike, HiddenNone
<1> QED
  BY <1>1, <1>2, <1>5, <1>6, <1>7, <1>8, <1>9

\* A call that leaves every tab in its window, and what shows there.
LEMMA StayingStep ==
    ASSUME WellFormed(b), WellFormed(b)', b'.pinned = b.pinned, NoneShut(b, b'),
           \A w \in Windows : ToSet(b'.strip[w]) = ToSet(b.strip[w]) /\ b'.shows[w] = b.shows[w]
    PROVE  StripStep
<1>1. TabsKept /\ WindowsKept
  BY TabsStay
<1>2. PinsKept /\ ShowsKept
  BY DEF PinsKept, ShowsKept
<1> QED
  BY <1>1, <1>2, HiddenNone DEF StripStep

LEMMA UngroupedStep ==
    ASSUME WellFormed(b), NEW S, b' \in TabsUngroup(b, S)
    PROVE  WellFormed(b)' /\ StripStep
<1>1. PICK A, B : A = b /\ B = b' /\ B \in TabsUngroup(A, S) /\ WellFormed(A)
  OBVIOUS
<1>2. /\ WellFormed(B) /\ B.pinned = A.pinned /\ NoneShut(A, B)
      /\ \A w \in Windows : ToSet(B.strip[w]) = ToSet(A.strip[w]) /\ B.shows[w] = A.shows[w]
  BY ONLY <1>1, TabsUngroupIs
<1> QED
  BY <1>1, <1>2, StayingStep

LEMMA GroupMovedStep ==
    ASSUME WellFormed(b), NEW g, Lives(b, g), NEW i \in Nat, b' \in GroupsMove(b, g, i)
    PROVE  WellFormed(b)' /\ StripStep
<1>1. PICK A, B : A = b /\ B = b' /\ B \in GroupsMove(A, g, i) /\ WellFormed(A) /\ Lives(A, g)
  OBVIOUS
<1>2. /\ WellFormed(B) /\ B.pinned = A.pinned /\ NoneShut(A, B)
      /\ \A w \in Windows : ToSet(B.strip[w]) = ToSet(A.strip[w]) /\ B.shows[w] = A.shows[w]
  BY ONLY <1>1, i \in Nat, GroupsMoveIs
<1> QED
  BY <1>1, <1>2, StayingStep

\* A tab that may close closes.
LEMMA RemovedStep ==
    ASSUME WellFormed(b), NEW t \in OpenTabs(b), b' \in TabsRemove(b, t), MayClose(t)
    PROVE  WellFormed(b)' /\ StripStep
<1>1. PICK A, B : A = b /\ B = b' /\ B \in TabsRemove(A, t) /\ WellFormed(A) /\ t \in OpenTabs(A)
  OBVIOUS
<1>2. /\ WellFormed(B) /\ B.pinned = A.pinned \ {t}
      /\ \A w \in Windows : ToSet(B.strip[w]) = ToSet(A.strip[w]) \ {t}
      /\ SameShown(A, B) /\ NoneShut(A, B)
  BY ONLY <1>1, TabsRemoveIs
<1>3. Ready(A) /\ Ready(B)
  BY <1>1, <1>2, WellFormedIsReady
<1>4. OpenTabs(B) \subseteq OpenTabs(A) \ {t} /\ \A x \in OpenTabs(A) \ {t} : x \in OpenTabs(B)
  BY <1>2, OpenIs
<1>5. \A x \in OpenTabs(B) : Window(B, x) = Window(A, x)
  BY <1>2, <1>3, SameWindow
<1>6. TabsKept
  BY <1>1, <1>4 DEF TabsKept
<1>7. WindowsKept
  BY <1>1, <1>5 DEF WindowsKept
<1>8. PinsKept
  BY <1>1, <1>2, <1>4 DEF PinsKept
<1>9. ShowsKept /\ NothingHidden
  BY <1>1, <1>2, ShownAlike, HiddenNone
<1> QED
  BY <1>1, <1>2, <1>6, <1>7, <1>8, <1>9 DEF StripStep

LEMMA CreatedStep ==
    ASSUME WellFormed(b), NEW t \in Tabs, t \notin OpenTabs(b), NEW w \in Windows, NEW page \in Addressed,
           b' \in TabsCreate(b, t, w, page, op.active)
    PROVE  WellFormed(b)' /\ StripStep
<1>1. PICK A, B, active : /\ A = b /\ B = b' /\ active = op.active /\ B \in TabsCreate(A, t, w, page, active)
                          /\ WellFormed(A) /\ t \notin OpenTabs(A)
  OBVIOUS
<1>2. /\ WellFormed(B) /\ B.pinned = A.pinned
      /\ \A v \in Windows : ToSet(B.strip[v]) = IF v = w THEN ToSet(A.strip[v]) \cup {t} ELSE ToSet(A.strip[v])
      /\ active \/ SameShown(A, B)
      /\ NoneShut(A, B)
  <2>1. NewTab(A, B, t, w, page, active)
    BY ONLY <1>1, t \in Tabs, w \in Windows, page \in Addressed, TabsCreateIs
  <2> QED
    BY <2>1 DEF NewTab
<1>3. Ready(A) /\ Ready(B)
  BY <1>1, <1>2, WellFormedIsReady
<1>4. \A x \in OpenTabs(A) : x \in OpenTabs(B) /\ x # t
  BY <1>1, <1>2, OpenIs
<1>5. \A x \in OpenTabs(A) : Window(B, x) = Window(A, x)
  BY <1>2, <1>3, <1>4, SameWindow
<1>6. TabsKept
  BY <1>1, <1>4 DEF TabsKept
<1>7. WindowsKept
  BY <1>1, <1>5 DEF WindowsKept
<1>8. PinsKept
  BY <1>1, <1>2 DEF PinsKept
<1>9. ShowsKept /\ NothingHidden
  BY <1>1, <1>2, HiddenNone DEF ShowsKept, SameShown
<1> QED
  BY <1>1, <1>2, <1>6, <1>7, <1>8, <1>9 DEF StripStep

LEMMA WorkingTold ==
    ASSUME BrowserSound, op.pc # "idle"
    PROVE  WellFormed(b) /\ Told(op, ours) /\ OpFields \subseteq DOMAIN op /\ Named(op) /\ Stage(op, ours)
  BY DEF BrowserSound, Idle, Told

LEMMA OnlyOnce ==
    ASSUME NEW s \in Seq(Tabs), IsInjective(s), NEW S
    PROVE  Once(Only(s, S)) /\ ToSet(Only(s, S)) = ToSet(s) \cap S
<1>1. PICK q : q = Only(s, S)
  OBVIOUS
<1>2. q \in Seq(Tabs) /\ ToSet(q) = ToSet(s) \cap S
  BY <1>1, OnlyIs
<1>3. \A x, y : Before(q, x, y) <=> (Before(s, x, y) /\ x \in S /\ y \in S)
  BY <1>1, OnlyIs
<1> HIDE DEF Before
<1>4. IsInjective(q)
  BY <1>2, <1>3, OnceIs
<1> QED
  BY <1>1, <1>2, <1>4 DEF Once

LEMMA ToldBy ==
    ASSUME NEW o, NEW n, NEW f, Wrote(o, n, f), NEW mine, Told(o, mine), Stage(n, mine),
           DOMAIN f \cap {"ids", "title", "w", "g", "index", "page"} = {}
    PROVE  Told(n, mine)
<1>1. Named(n)
  BY NamedStill DEF Told
<1>2. OpFields \subseteq DOMAIN n
  BY DEF Wrote
<1> QED
  BY <1>1, <1>2 DEF Told

\* Done, or on to a step at which no more is known.
LEMMA OnwardsFree ==
    ASSUME NEW n, NEW f, Wrote(op, n, f), DOMAIN f = {"pc"}, NEW mine, Told(op, mine),
           f.pc = "done" \/ f.pc = "collapse" \/ f.pc = "label" \/ f.pc = "create" \/ f.pc = "to the end"
    PROVE  Told(n, mine)
<1>1. n.pc = f.pc
  BY WroteIs
<1>2. Stage(n, mine)
  BY <1>1 DEF Stage
<1> QED
  BY <1>2, ToldBy

LEMMA GroupTabsIs ==
    ASSUME BrowserSound, GroupTabs
    PROVE  BrowserSound' /\ StripStep
<1>1. /\ op.pc = "group" /\ b' = b /\ ours' = ours /\ WellFormed(b) /\ Told(op, ours)
      /\ OpFields \subseteq DOMAIN op /\ op.ids \in Seq(Tabs) /\ IsInjective(op.ids)
  BY DEF GroupTabs, BrowserSound, At, Idle, Told, Named, Stage
<1>2. PICK ws : ws = {Window(b, t) : t \in ToSet(op.ids) \cap OpenTabs(b)}
  OBVIOUS
<1>3. CASE ~(ToSet(op.ids) \subseteq OpenTabs(b) /\ Cardinality(ws) = 1 /\ ToSet(op.ids) \cap b.pinned = {})
  <2>1. Move(Failed)
    BY <1>2, <1>3 DEF GroupTabs
  <2> QED
    BY <1>1, <2>1, MoveIs, FailedWrote, OnlyWrote
<1>4. CASE ToSet(op.ids) \subseteq OpenTabs(b) /\ Cardinality(ws) = 1 /\ ToSet(op.ids) \cap b.pinned = {}
  <2>1. PICK w : w = CHOOSE v \in ws : TRUE
    OBVIOUS
  <2>2. PICK named : named = TitledIn(b, op.title, w)
    OBVIOUS
  <2>3. PICK g : g = IF named = <<>> THEN None ELSE Head(named)
    OBVIOUS
  <2>4. PICK f : f = [pc |-> "join", w |-> w, g |-> g]
    OBVIOUS
  <2>5. Move(f)
    BY <1>2, <1>4, <2>1, <2>2, <2>3, <2>4 DEF GroupTabs
  <2>6. w \in ws
    <3>1. ws # {}
      BY <1>4, FS_EmptySet
    <3> QED
      BY <2>1, <3>1
  <2>7. PICK t \in ToSet(op.ids) \cap OpenTabs(b) : w = Window(b, t)
    BY <1>2, <2>6
  <2>8. w \in Windows
    BY <1>1, <2>7, WellFormedIsReady, WindowIs
  <2>9. op.ids # <<>>
    BY <1>1, <2>7, Numbered DEF ToSet
  <2>10. g \in Groups \cup {None}
    <3>1. named \in Seq(Groups)
      BY <1>1, <2>2, <2>8, TitledInIs
    <3> QED
      BY <2>3, <3>1
  <2>11. DOMAIN f = {"pc", "w", "g"} /\ f.pc = "join" /\ f.w = w /\ f.g = g
    BY <2>4
  <2>12. Wrote(op, op', f)
    BY <1>1, <2>5, MoveIs
  <2>13. PICK n : n = op'
    OBVIOUS
  <2>14. /\ n.pc = "join" /\ n.kind = op.kind /\ n.ids = op.ids /\ n.w = w /\ n.g = g
         /\ n.title = op.title /\ n.index = op.index /\ n.page = op.page /\ OpFields \subseteq DOMAIN n
    BY <2>11, <2>12, <2>13, WroteIs
  <2>15. Named(n)
    BY <1>1, <2>8, <2>10, <2>14 DEF Told, Named
  <2>16. Stage(n, ours)
    BY <1>1, <2>9, <2>14 DEF Stage
  <2> QED
    BY <1>1, <2>13, <2>14, <2>15, <2>16, OnlyWrote DEF Told
<1> QED
  BY <1>3, <1>4

LEMMA PlanOrderIs ==
    ASSUME BrowserSound, PlanOrder
    PROVE  BrowserSound' /\ StripStep
<1>1. /\ op.pc = "plan" /\ b' = b /\ ours' = ours /\ WellFormed(b) /\ Told(op, ours)
      /\ OpFields \subseteq DOMAIN op /\ op.g \in Groups /\ IsInjective(op.ids)
  BY DEF PlanOrder, BrowserSound, At, Idle, Told, Named, Stage
<1>2. PICK f : f = [pc |-> "order", todo |-> PlanGroupOrder(MembersOf(op.g, op.w), op.ids)]
  OBVIOUS
<1>3. DOMAIN f = {"pc", "todo"} /\ f.pc = "order"
  BY <1>2
<1>4. Wrote(op, op', f)
  BY <1>1, <1>2, MoveIs DEF PlanOrder
<1>5. PICK n : n = op'
  OBVIOUS
<1>6. n.pc = "order" /\ n.kind = op.kind /\ n.ids = op.ids /\ n.g = op.g
  BY <1>3, <1>4, <1>5, WroteIs
<1>7. Stage(n, ours)
  BY <1>1, <1>6 DEF Stage
<1> QED
  BY <1>1, <1>3, <1>4, <1>5, <1>7, ToldBy, OnlyWrote

LEMMA PutBackIs ==
    ASSUME BrowserSound, PutBack
    PROVE  BrowserSound' /\ StripStep
<1>1. /\ op.pc = "order" /\ b' = b /\ ours' = ours /\ WellFormed(b) /\ Told(op, ours)
      /\ OpFields \subseteq DOMAIN op /\ op.g \in Groups /\ IsInjective(op.ids) /\ op.ids \in Seq(Tabs)
  BY DEF PutBack, BrowserSound, At, Idle, Told, Named, Stage
<1>2. PICK slipped : slipped = Only(op.ids, (ToSet(b.strip[op.w]) \ b.pinned) \ InGroup(b, op.g))
  OBVIOUS
<1>3. Once(slipped)
  BY <1>1, <1>2, OnlyOnce
<1>4. PICK f : f = [pc |-> IF slipped = <<>> THEN "label" ELSE "rejoin", todo |-> slipped]
  OBVIOUS
<1>5. DOMAIN f = {"pc", "todo"} /\ (f.pc = "label" \/ f.pc = "rejoin") /\ f.todo = slipped
  BY <1>4
<1>6. Wrote(op, op', f)
  <2>1. Move(f)
    BY <1>2, <1>4 DEF PutBack
  <2> QED
    BY <1>1, <2>1, MoveIs
<1>7. PICK n : n = op'
  OBVIOUS
<1>8. n.pc = f.pc /\ n.kind = op.kind /\ n.ids = op.ids /\ n.g = op.g /\ n.todo = slipped
  BY <1>5, <1>6, <1>7, WroteIs
<1>9. Stage(n, ours)
  BY <1>1, <1>3, <1>5, <1>8 DEF Stage
<1> QED
  BY <1>1, <1>5, <1>6, <1>7, <1>9, ToldBy, OnlyWrote

LEMMA UngroupTabsIs ==
    ASSUME BrowserSound, UngroupTabs
    PROVE  BrowserSound' /\ StripStep
<1>1. /\ op.pc = "ungroup" /\ b' = b /\ ours' = ours /\ WellFormed(b) /\ Told(op, ours)
      /\ OpFields \subseteq DOMAIN op /\ op.ids \in Seq(Tabs)
  BY DEF UngroupTabs, BrowserSound, At, Idle, Told, Named
<1>2. PICK ts : ts = IF op.g = None THEN op.ids ELSE Members(b, op.g)
  OBVIOUS
<1>3. ts \in Seq(Tabs)
  BY <1>1, <1>2, WellFormedIsReady, MembersAre
<1>4. PICK f : f = [pc |-> "loosen", ids |-> ts]
  OBVIOUS
<1>5. DOMAIN f = {"pc", "ids"} /\ f.pc = "loosen" /\ f.ids = ts
  BY <1>4
<1>6. Move(f) \/ Move(Failed)
  BY <1>2, <1>4 DEF UngroupTabs
<1>7. CASE Move(Failed)
  BY <1>1, <1>7, MoveIs, FailedWrote, OnlyWrote
<1>8. CASE Move(f)
  <2>1. PICK n : n = op'
    OBVIOUS
  <2>2. /\ n.pc = "loosen" /\ n.ids = ts /\ n.w = op.w /\ n.g = op.g /\ n.title = op.title /\ n.index = op.index
        /\ n.page = op.page /\ OpFields \subseteq DOMAIN n
    BY <1>1, <1>5, <1>8, <2>1, MoveIs, WroteIs
  <2>3. Named(n)
    BY <1>1, <1>3, <2>2 DEF Told, Named
  <2>4. Stage(n, ours)
    BY <2>2 DEF Stage
  <2> QED
    BY <1>1, <2>1, <2>2, <2>3, <2>4, OnlyWrote DEF Told
<1> QED
  BY <1>6, <1>7, <1>8

LEMMA GatherGroupIs ==
    ASSUME BrowserSound, GatherGroup
    PROVE  BrowserSound' /\ StripStep
<1>0. op.pc = "gather" /\ b' = b /\ ours' = ours
  BY DEF GatherGroup, At
<1>1. op.kind = "gather" /\ WellFormed(b) /\ Told(op, ours) /\ OpFields \subseteq DOMAIN op
  BY <1>0, WorkingTold DEF Stage
<1>2. PICK h, t : /\ h = IF TitledIn(b, op.title, op.w) = <<>> THEN None ELSE Head(TitledIn(b, op.title, op.w))
                  /\ t = SetToSeq(Titled(b, op.title) \ ToSet(TitledIn(b, op.title, op.w)))
  OBVIOUS
<1>3. PICK f, e : f = [pc |-> "gather next", keep |-> h, rest |-> t] /\ e = [pc |-> "done", failed |-> TRUE]
  OBVIOUS
<1>4. DOMAIN f = {"pc", "keep", "rest"} /\ f.pc = "gather next" /\ DOMAIN e = {"pc", "failed"} /\ e.pc = "done"
  BY <1>3
<1>5. Wrote(op, op', f) \/ Wrote(op, op', e)
  <2>1. Move(f) \/ Move(e)
    BY <1>2, <1>3 DEF GatherGroup
  <2> QED
    BY <1>1, <2>1, MoveIs
<1>6. PICK n : n = op'
  OBVIOUS
<1>7. CASE Wrote(op, n, f)
  <2>1. n.pc = "gather next" /\ n.kind = "gather"
    BY <1>1, <1>4, <1>7, WroteIs, ZenonT(60)
  <2>2. Stage(n, ours)
    BY <2>1 DEF Stage
  <2> QED
    BY <1>0, <1>1, <1>4, <1>6, <1>7, <2>2, ToldBy, OnlyWrote, ZenonT(60)
<1>8. CASE Wrote(op, n, e)
  <2>1. n.pc = "done"
    BY <1>4, <1>8, WroteIs, ZenonT(60)
  <2>2. Stage(n, ours)
    BY <2>1 DEF Stage
  <2> QED
    BY <1>0, <1>1, <1>4, <1>6, <1>8, <2>2, ToldBy, OnlyWrote
<1> QED
  BY <1>5, <1>6, <1>7, <1>8

LEMMA NextGroupIs ==
    ASSUME BrowserSound, NextGroup
    PROVE  BrowserSound' /\ StripStep
<1>0. op.pc = "gather next" /\ b' = b /\ ours' = ours
  BY DEF NextGroup, At
<1>1. /\ op.kind = "gather" /\ WellFormed(b) /\ Told(op, ours) /\ OpFields \subseteq DOMAIN op /\ Named(op)
  BY <1>0, WorkingTold DEF Stage
<1>2. PICK n, g, p, v, t : /\ n = op' /\ g = Head(op.rest) /\ p = Members(b, g) /\ v = GroupWindow(b, g)
                           /\ t = Tail(op.rest)
  OBVIOUS
<1>3. PICK f, e : /\ f = [pc |-> "move in", rest |-> t, g |-> g, from |-> v, part |-> p, moved |-> <<>>]
                  /\ e = [rest |-> t]
  OBVIOUS
<1>4. /\ DOMAIN f = {"pc", "rest", "g", "from", "part", "moved"} /\ f.pc = "move in" /\ f.g = g /\ f.from = v
      /\ f.part = p /\ f.moved = <<>> /\ DOMAIN e = {"rest"}
  BY <1>3
<1>5. (g \in Titled(b, op.title) /\ Wrote(op, n, f)) \/ Wrote(op, n, e)
  <2>1. (g \in Titled(b, op.title) /\ Move(f)) \/ Move(e)
    BY <1>2, <1>3 DEF NextGroup
  <2> QED
    BY <1>1, <1>2, <2>1, MoveIs
<1>6. CASE g \in Titled(b, op.title) /\ Wrote(op, n, f)
  <2>1. g \in Groups /\ Lives(b, g)
    BY <1>6 DEF Titled
  <2>2. p \in Seq(Tabs) /\ IsInjective(p) /\ v \in Windows
    BY <1>1, <1>2, <2>1, WellFormedIsReady, MembersAre
  <2>20. Wrote(op, n, f)
    BY <1>6
  <2>3. /\ n.pc = "move in" /\ n.kind = op.kind /\ n.from = v /\ n.part = p /\ n.moved = <<>>
        /\ n.ids = op.ids /\ n.w = op.w /\ n.g = g /\ n.title = op.title /\ n.index = op.index
        /\ n.page = op.page /\ OpFields \subseteq DOMAIN n
    <3>1. /\ OpFields \subseteq DOMAIN n
          /\ n.pc = IF "pc" \in DOMAIN f THEN f.pc ELSE op.pc
          /\ n.kind = IF "kind" \in DOMAIN f THEN f.kind ELSE op.kind
          /\ n.ids = IF "ids" \in DOMAIN f THEN f.ids ELSE op.ids
          /\ n.title = IF "title" \in DOMAIN f THEN f.title ELSE op.title
          /\ n.w = IF "w" \in DOMAIN f THEN f.w ELSE op.w
          /\ n.g = IF "g" \in DOMAIN f THEN f.g ELSE op.g
      BY ONLY <2>20, WroteIs
    <3>2. /\ n.index = IF "index" \in DOMAIN f THEN f.index ELSE op.index
          /\ n.page = IF "page" \in DOMAIN f THEN f.page ELSE op.page
          /\ n.part = IF "part" \in DOMAIN f THEN f.part ELSE op.part
          /\ n.moved = IF "moved" \in DOMAIN f THEN f.moved ELSE op.moved
          /\ n.from = IF "from" \in DOMAIN f THEN f.from ELSE op.from
      BY ONLY <2>20, WroteIs
    <3> QED
      BY ONLY <1>4, <3>1, <3>2
  <2>4. Named(n)
    BY <1>1, <2>1, <2>3 DEF Named
  <2>5. Once(<<>>) /\ ToSet(<<>>) = {}
    BY DEF Once, IsInjective, ToSet
  <2>6. Stage(n, ours)
    BY <1>1, <2>2, <2>3, <2>5 DEF Stage, Once
  <2> QED
    BY <1>0, <1>1, <1>2, <2>3, <2>4, <2>6, OnlyWrote DEF Told
<1>7. CASE Wrote(op, n, e)
  <2>1. n.pc = "gather next" /\ n.kind = "gather"
    BY <1>0, <1>1, <1>4, <1>7, WroteIs
  <2>2. Stage(n, ours)
    BY <2>1 DEF Stage
  <2> QED
    BY <1>0, <1>1, <1>2, <1>4, <1>7, <2>2, ToldBy, OnlyWrote, ZenonT(60)
<1> QED
  BY <1>5, <1>6, <1>7

LEMMA JoinHostIs ==
    ASSUME BrowserSound, JoinHost
    PROVE  BrowserSound' /\ StripStep
<1>0. op.pc = "move in" /\ b' = b /\ ours' = ours
  BY DEF JoinHost, At
<1>1. /\ op.kind = "gather" /\ WellFormed(b) /\ Told(op, ours) /\ OpFields \subseteq DOMAIN op /\ Once(op.moved)
      /\ Named(op)
  BY <1>0, WorkingTold DEF Stage
<1>2. PICK n, here : n = op' /\ here = Only(op.moved, ToSet(b.strip[op.w]) \ b.pinned)
  OBVIOUS
<1>3. Once(here)
  BY <1>1, <1>2, OnlyOnce DEF Once
<1>4. PICK f, e : f = [pc |-> "group", ids |-> here] /\ e = [pc |-> "gather next"]
  OBVIOUS
<1>5. DOMAIN f = {"pc", "ids"} /\ f.pc = "group" /\ f.ids = here /\ DOMAIN e = {"pc"} /\ e.pc = "gather next"
  BY <1>4
<1>6. Wrote(op, n, f) \/ Wrote(op, n, e)
  <2>1. Move(f) \/ Move(e)
    BY <1>2, <1>4 DEF JoinHost
  <2> QED
    BY <1>1, <1>2, <2>1, MoveIs
<1>7. CASE Wrote(op, n, f)
  <2>1. /\ n.pc = "group" /\ n.ids = here /\ n.w = op.w /\ n.g = op.g /\ n.title = op.title /\ n.index = op.index
        /\ n.page = op.page /\ OpFields \subseteq DOMAIN n
    BY <1>5, <1>7, WroteIs, ZenonT(60)
  <2>2. Named(n)
    BY <1>1, <1>3, <2>1 DEF Named, Once
  <2>3. Stage(n, ours)
    BY <1>3, <2>1 DEF Stage, Once
  <2> QED
    BY <1>0, <1>1, <1>2, <2>1, <2>2, <2>3, OnlyWrote DEF Told
<1>8. CASE Wrote(op, n, e)
  <2>0. DOMAIN e = {"pc"} /\ e.pc = "gather next"
    BY <1>5
  <2>1. n.pc = "gather next" /\ n.kind = "gather"
    BY <1>1, <1>8, <2>0, WroteIs
  <2>2. Stage(n, ours)
    BY <2>1 DEF Stage
  <2> QED
    BY <1>0, <1>1, <1>2, <1>5, <1>8, <2>2, ToldBy, OnlyWrote, ZenonT(60)
<1> QED
  BY <1>6, <1>7, <1>8

LEMMA FoldPlanIs ==
    ASSUME BrowserSound, FoldPlan
    PROVE  BrowserSound' /\ StripStep
<1>0. op.pc = "gather next" /\ b' = b /\ ours' = ours
  BY DEF FoldPlan, At
<1>1. /\ op.kind = "gather" /\ WellFormed(b) /\ Told(op, ours) /\ OpFields \subseteq DOMAIN op /\ op.w \in Windows
  BY <1>0, WorkingTold DEF Stage, Named
<1>2. PICK n, here : n = op' /\ here = TitledIn(b, op.title, op.w)
  OBVIOUS
<1>3. PICK k : k = FoldKeep(here)
  OBVIOUS
<1>4. here \in Seq(Groups) /\ (here # <<>> => k \in Groups)
  <2>1. here \in Seq(Groups)
    BY <1>1, <1>2, TitledInIs
  <2>2. ToSet(here) \subseteq Groups
    BY <2>1, Numbered
  <2> QED
    BY <1>3, <2>1, <2>2 DEF FoldKeep
<1>5. PICK f, e : f = [pc |-> "fold", keep |-> k, todo |-> Without(here, {k})] /\ e = [pc |-> "done"]
  OBVIOUS
<1>6. DOMAIN f = {"pc", "keep", "todo"} /\ f.pc = "fold" /\ f.keep = k /\ DOMAIN e = {"pc"} /\ e.pc = "done"
  BY <1>5
<1>7. (here # <<>> /\ Wrote(op, n, f)) \/ Wrote(op, n, e)
  <2>1. (here # <<>> /\ Move(f)) \/ Move(e)
    BY <1>2, <1>3, <1>5 DEF FoldPlan
  <2> QED
    BY <1>1, <1>2, <2>1, MoveIs
<1>8. CASE here # <<>> /\ Wrote(op, n, f)
  <2>1. n.pc = "fold" /\ n.kind = "gather" /\ n.keep = k
    BY <1>1, <1>6, <1>8, WroteIs
  <2>2. Stage(n, ours)
    BY <1>4, <1>8, <2>1 DEF Stage
  <2> QED
    BY <1>0, <1>1, <1>2, <1>6, <1>8, <2>2, ToldBy, OnlyWrote
<1>9. CASE Wrote(op, n, e)
  BY <1>0, <1>1, <1>2, <1>6, <1>9, OnwardsFree, OnlyWrote
<1> QED
  BY <1>7, <1>8, <1>9

LEMMA SortOneWindowIs ==
    ASSUME BrowserSound, SortOneWindow
    PROVE  BrowserSound' /\ StripStep
<1>0. op.pc = "sort" /\ b' = b /\ ours' = ours
  BY DEF SortOneWindow, At
<1>1. op.kind = "sort" /\ WellFormed(b) /\ Told(op, ours) /\ OpFields \subseteq DOMAIN op
  BY <1>0, WorkingTold DEF Stage
<1>2. PICK t : Move([pc |-> "sort next", todo |-> t])
  BY DEF SortOneWindow
<1>3. PICK n, f : n = op' /\ f = [pc |-> "sort next", todo |-> t]
  OBVIOUS
<1>4. DOMAIN f = {"pc", "todo"} /\ f.pc = "sort next"
  BY <1>3
<1>5. Wrote(op, n, f)
  BY <1>1, <1>2, <1>3, MoveIs
<1>6. n.pc = "sort next" /\ n.kind = "sort"
  BY <1>1, <1>4, <1>5, WroteIs
<1>7. Stage(n, ours)
  BY <1>6 DEF Stage
<1>8. Told(n, ours)
  BY <1>1, <1>4, <1>5, <1>7, ToldBy
<1> QED
  BY <1>0, <1>1, <1>3, <1>8, OnlyWrote

LEMMA SortEndsIs ==
    ASSUME BrowserSound, SortEnds
    PROVE  BrowserSound' /\ StripStep
<1>0. op.pc = "sort next" /\ b' = b /\ ours' = ours
  BY DEF SortEnds, At
<1>1. WellFormed(b) /\ Told(op, ours) /\ OpFields \subseteq DOMAIN op
  BY <1>0, WorkingTold
<1>2. PICK n, e : n = op' /\ e = [pc |-> "done"]
  OBVIOUS
<1>3. DOMAIN e = {"pc"} /\ e.pc = "done" /\ Move(e)
  BY <1>2 DEF SortEnds
<1>4. Wrote(op, n, e)
  BY <1>1, <1>2, <1>3, MoveIs
<1>5. Told(n, ours)
  BY <1>1, <1>3, <1>4, OnwardsFree
<1> QED
  BY <1>0, <1>1, <1>2, <1>5, OnlyWrote

LEMMA KeeperIsThereIs ==
    ASSUME BrowserSound, KeeperIsThere
    PROVE  BrowserSound' /\ StripStep
<1>0. op.pc = "check" /\ b' = b /\ ours' = ours
  BY DEF KeeperIsThere, At
<1>1. WellFormed(b) /\ Told(op, ours) /\ OpFields \subseteq DOMAIN op /\ Stage(op, ours)
  BY <1>0, WorkingTold
<1>2. PICK n, f : n = op' /\ f = [pc |-> "close dups"]
  OBVIOUS
<1>3. DOMAIN f = {"pc"} /\ f.pc = "close dups" /\ (Move(f) \/ Move(Failed))
  BY <1>2 DEF KeeperIsThere
<1>4. CASE Move(f)
  <2>1. Wrote(op, n, f)
    BY <1>1, <1>2, <1>4, MoveIs
  <2>2. n.pc = "close dups" /\ n.kind = op.kind /\ n.todo = op.todo
    BY <1>3, <2>1, WroteIs
  <2>3. Stage(n, ours)
    BY <1>0, <1>1, <2>2 DEF Stage
  <2> QED
    BY <1>0, <1>1, <1>2, <1>3, <2>1, <2>3, ToldBy, OnlyWrote
<1>5. CASE Move(Failed)
  BY <1>0, <1>1, <1>5, MoveIs, FailedWrote, OnlyWrote
<1> QED
  BY <1>3, <1>4, <1>5

LEMMA BeginIs ==
    ASSUME BrowserSound, NEW r \in Requests, Begin(r)
    PROVE  BrowserSound' /\ ~Working
<1>0. b' = b /\ ours' = ours /\ op.pc = "idle"
  BY DEF Begin, At
<1>1. WellFormed(b)
  BY DEF BrowserSound
<1>2. PICK n, f : /\ n = op'
                  /\ f = [pc |-> r.kind, todo |-> <<>>, rest |-> <<>>, part |-> <<>>, moved |-> <<>>, keep |-> None, from |-> None,
                          tried |-> FALSE, failed |-> FALSE, was |-> b]
  OBVIOUS
<1>3. DOMAIN f = {"pc", "todo", "rest", "part", "moved", "keep", "from", "tried", "failed", "was"} /\ f.pc = r.kind
  BY <1>2
<1>4. r \in Asked /\ IsInjective(r.ids) /\ (r.kind = "activate" => r.active)
  BY StripAssumption
<1>5. /\ DOMAIN r = {"kind", "ids", "title", "w", "g", "index", "page", "shut", "active", "findOnly"}
      /\ r.kind \in Operations /\ Named(r)
  BY <1>4 DEF Asked, Named
<1>6. /\ DOMAIN n = DOMAIN r \cup DOMAIN f
      /\ \A x \in DOMAIN f : n[x] = f[x]
      /\ \A x \in DOMAIN r \ DOMAIN f : n[x] = r[x]
  <2>1. n = Overlaid(r, f)
    BY <1>2 DEF Begin
  <2> QED
    BY ONLY <2>1 DEF Overlaid
<1>7. /\ OpFields \subseteq DOMAIN n /\ n.pc = r.kind /\ n.kind = r.kind /\ n.ids = r.ids /\ n.title = r.title /\ n.w = r.w
      /\ n.g = r.g /\ n.index = r.index /\ n.page = r.page /\ n.active = r.active
  BY <1>3, <1>5, <1>6 DEF OpFields
<1>8. Named(n)
  BY <1>5, <1>7 DEF Named
<1>9. Stage(n, ours)
  BY <1>4, <1>5, <1>7 DEF Stage, Operations
<1>10. WellFormed(b)'
  BY <1>0, <1>1, BrowserStays
<1> QED
  BY <1>0, <1>2, <1>7, <1>8, <1>9, <1>10 DEF BrowserSound, Told, Working

\* An edit waits, or is refused, or goes through: only the last is left to look at.
LEMMA EditSound ==
    ASSUME BrowserSound, op.pc # "idle", ours' = ours, NEW ok, NEW Bs, NEW then, Edit(ok, Bs, then, Failed)
    PROVE  (BrowserSound' /\ StripStep) \/ (ok /\ b' \in Bs /\ Wrote(op, op', then))
<1>1. WellFormed(b) /\ Told(op, ours) /\ OpFields \subseteq DOMAIN op
  BY WorkingTold
<1>2. \/ b' = b /\ Wrote(op, op', Nothing)
      \/ ok /\ b' \in Bs /\ Wrote(op, op', then)
      \/ b' = b /\ Wrote(op, op', Failed)
  BY <1>1, EditIs
<1>3. CASE b' = b /\ Wrote(op, op', Nothing)
  BY <1>1, <1>3, NothingWrote, OnlyWrote
<1>4. CASE b' = b /\ Wrote(op, op', Failed)
  BY <1>1, <1>4, FailedWrote, OnlyWrote
<1> QED
  BY <1>2, <1>3, <1>4

LEMMA RejoinIs ==
    ASSUME BrowserSound, Rejoin
    PROVE  BrowserSound' /\ StripStep
<1>0. op.pc = "rejoin" /\ ours' = ours
  BY DEF Rejoin, At
<1>1. /\ WellFormed(b) /\ Told(op, ours) /\ OpFields \subseteq DOMAIN op /\ op.w \in Windows /\ op.g \in Groups
      /\ op.todo \in Seq(Tabs) /\ IsInjective(op.todo)
  BY <1>0, WorkingTold DEF Stage, Named, Once
<1>2. PICK f : f = [pc |-> "label"]
  OBVIOUS
<1>3. DOMAIN f = {"pc"} /\ f.pc = "label"
  BY <1>2
<1>4. \/ BrowserSound' /\ StripStep
      \/ StillIn(op.w, op.todo, op.g) /\ b' \in TabsGroup(b, op.todo, op.g, op.w) /\ Wrote(op, op', f)
  <2>1. Edit(StillIn(op.w, op.todo, op.g), TabsGroup(b, op.todo, op.g, op.w), f, Failed)
    BY <1>2 DEF Rejoin
  <2> QED
    BY <1>0, <2>1, EditSound
<1>5. CASE StillIn(op.w, op.todo, op.g) /\ b' \in TabsGroup(b, op.todo, op.g, op.w) /\ Wrote(op, op', f)
  <2>1. PICK w, ts, g : w = op.w /\ ts = op.todo /\ g = op.g
    OBVIOUS
  <2>2. g # None
    BY <1>1, <2>1, WellFormedIsReady, BrowserIs
  <2>3. /\ Lives(b, g) /\ GroupWindow(b, g) = w
        /\ \A t \in ToSet(ts) : t \in ToSet(b.strip[w]) /\ t \notin b.pinned
    BY <1>5, <2>1, <2>2 DEF StillIn, InPlace
  <2>4. WellFormed(b)' /\ TabsKept /\ WindowsKept /\ PinsKept /\ ShowsKept
    BY <1>1, <1>5, <2>1, <2>3, GroupedStep
  <2>5. NothingHidden
    BY <1>0 DEF NothingHidden
  <2>6. Told(op', ours)
    BY <1>1, <1>3, <1>5, OnwardsFree
  <2> QED
    BY <1>0, <2>4, <2>5, <2>6 DEF BrowserSound, StripStep
<1> QED
  BY <1>4, <1>5

LEMMA OrderTabIs ==
    ASSUME BrowserSound, OrderTab
    PROVE  BrowserSound' /\ StripStep
<1>0. op.pc = "order" /\ ours' = ours
  BY DEF OrderTab, At
<1>1. /\ WellFormed(b) /\ Told(op, ours) /\ OpFields \subseteq DOMAIN op /\ op.w \in Windows /\ op.g \in Groups
      /\ IsInjective(op.ids)
  BY <1>0, WorkingTold DEF Stage, Named
<1>2. PICK f, t, span, w : /\ f = [todo |-> Tail(op.todo)] /\ t = Head(op.todo) /\ w = op.w
                           /\ span = MembersOf(op.g, op.w)
  OBVIOUS
<1>3. PICK Bs : Bs = IF t \in ToSet(span) THEN TabsMove(b, t, w, Find(b.strip[w], Last(span))) ELSE {b}
  OBVIOUS
<1>4. DOMAIN f = {"todo"}
  BY <1>2
<1>5. (BrowserSound' /\ StripStep) \/ (b' \in Bs /\ Wrote(op, op', f))
  <2>1. Edit(TRUE, Bs, f, Failed)
    BY <1>2, <1>3 DEF OrderTab
  <2> QED
    BY <1>0, <2>1, EditSound
<1>6. CASE b' \in Bs /\ Wrote(op, op', f)
  <2>1. Told(op', ours)
    <3>1. PICK n : n = op'
      OBVIOUS
    <3>2. n.pc = "order" /\ n.ids = op.ids /\ n.g = op.g /\ n.kind = op.kind
      BY <1>0, <1>4, <1>6, <3>1, WroteIs
    <3>3. Stage(n, ours)
      BY <1>1, <3>2 DEF Stage
    <3> QED
      BY <1>1, <1>4, <1>6, <3>1, <3>3, ToldBy
  <2>2. CASE t \notin ToSet(span)
    BY <1>0, <1>1, <1>3, <1>6, <2>1, <2>2, OnlyWrote
  <2>3. CASE t \in ToSet(span)
    <3>1. PICK s, i : s = b.strip[w] /\ i = Find(s, Last(span))
      OBVIOUS
    <3>2. s \in Seq(Tabs) /\ w \in Windows /\ Ready(b)
      BY <1>1, <1>2, <3>1, WellFormedIsReady, BrowserIs
    <3>3. span \in Seq(Tabs) /\ ToSet(span) \subseteq ToSet(s)
      <4>1. span = Only(s, InGroup(b, op.g))
        BY <1>2, <3>1 DEF MembersOf
      <4>2. span \in Seq(Tabs) /\ ToSet(span) = ToSet(s) \cap InGroup(b, op.g)
        BY <3>2, <4>1, OnlyIs
      <4> QED
        BY <4>2
    <3>4. Last(span) \in ToSet(span)
      <4>1. Len(span) \in Nat /\ DOMAIN span = 1..Len(span)
        BY <3>3, Numbered
      <4>2. Len(span) \in DOMAIN span
        BY <2>3, <4>1 DEF ToSet
      <4> QED
        BY <4>2 DEF Last, ToSet
    <3>5. i \in Nat \ {0}
      <4>1. i \in 1..Len(s)
        BY <3>1, <3>2, <3>3, <3>4, FindIs
      <4>2. Len(s) \in Nat
        BY <3>2, Numbered
      <4> QED
        BY <4>1, <4>2
    <3>6. t \in OpenTabs(b) /\ Window(b, t) = w
      BY <2>3, <3>1, <3>2, <3>3, OpenIs, WindowIs
    <3>7. b' \in TabsMove(b, t, w, i)
      BY <1>3, <1>6, <2>3, <3>1
    <3>8. /\ WellFormed(b)' /\ TabsKept /\ PinsKept /\ ShowsKept /\ NothingHidden
          /\ \A x \in OpenTabs(b) \ {t} : Window(b', x) = Window(b, x)
          /\ Window(b', t) = w
      BY <1>1, <3>2, <3>5, <3>6, <3>7, MovedStep
    <3>9. WindowsKept
      BY <3>6, <3>8 DEF WindowsKept
    <3> QED
      BY <1>0, <2>1, <3>8, <3>9 DEF BrowserSound, StripStep
  <2> QED
    BY <2>2, <2>3
<1> QED
  BY <1>5, <1>6

LEMMA MoveGroupIs ==
    ASSUME BrowserSound, MoveGroup
    PROVE  BrowserSound' /\ StripStep
<1>0. op.pc = "move" /\ ours' = ours
  BY DEF MoveGroup, At
<1>1. WellFormed(b) /\ Told(op, ours) /\ OpFields \subseteq DOMAIN op /\ op.index \in Nat
  BY <1>0, WorkingTold DEF Named
<1>2. PICK f : f = [pc |-> "done"]
  OBVIOUS
<1>3. DOMAIN f = {"pc"} /\ f.pc = "done"
  BY <1>2
<1>4. (BrowserSound' /\ StripStep) \/ (Lives(b, op.g) /\ b' \in GroupsMove(b, op.g, op.index) /\ Wrote(op, op', f))
  <2>1. Edit(Lives(b, op.g), GroupsMove(b, op.g, op.index), f, Failed)
    BY <1>2 DEF MoveGroup
  <2> QED
    BY <1>0, <2>1, EditSound
<1>5. CASE Lives(b, op.g) /\ b' \in GroupsMove(b, op.g, op.index) /\ Wrote(op, op', f)
  <2>1. WellFormed(b)' /\ StripStep
    BY <1>1, <1>5, GroupMovedStep
  <2>2. Told(op', ours)
    BY <1>1, <1>3, <1>5, OnwardsFree
  <2> QED
    BY <1>0, <2>1, <2>2 DEF BrowserSound
<1> QED
  BY <1>4, <1>5

LEMMA LoosenIs ==
    ASSUME BrowserSound, Loosen
    PROVE  BrowserSound' /\ StripStep
<1>0. op.pc = "loosen" /\ ours' = ours
  BY DEF Loosen, At
<1>1. WellFormed(b) /\ Told(op, ours) /\ OpFields \subseteq DOMAIN op
  BY <1>0, WorkingTold
<1>2. PICK f, S : f = [pc |-> "done"] /\ S = ToSet(op.ids)
  OBVIOUS
<1>3. DOMAIN f = {"pc"} /\ f.pc = "done"
  BY <1>2
<1>4. (BrowserSound' /\ StripStep) \/ (b' \in TabsUngroup(b, S) /\ Wrote(op, op', f))
  <2>1. Edit(S \subseteq OpenTabs(b), TabsUngroup(b, S), f, Failed)
    BY <1>2 DEF Loosen
  <2> QED
    BY <1>0, <2>1, EditSound
<1>5. CASE b' \in TabsUngroup(b, S) /\ Wrote(op, op', f)
  <2>1. WellFormed(b)' /\ StripStep
    BY <1>1, <1>5, UngroupedStep
  <2>2. Told(op', ours)
    BY <1>1, <1>3, <1>5, OnwardsFree
  <2> QED
    BY <1>0, <2>1, <2>2 DEF BrowserSound
<1> QED
  BY <1>4, <1>5

LEMMA TailOnce ==
    ASSUME NEW s \in Seq(Tabs), IsInjective(s), s # <<>>
    PROVE  /\ Once(Tail(s)) /\ Head(s) \in Tabs /\ Head(s) \in ToSet(s) /\ Head(s) \notin ToSet(Tail(s))
           /\ ToSet(Tail(s)) \subseteq ToSet(s)
<1>1. PICK r : r = Tail(s)
  OBVIOUS
<1>2. /\ Len(s) \in Nat /\ Len(s) > 0 /\ DOMAIN s = 1..Len(s) /\ Head(s) = s[1]
      /\ r \in Seq(Tabs) /\ Len(r) = Len(s) - 1 /\ DOMAIN r = 1..Len(r) /\ \A k \in 1..Len(r) : r[k] = s[k + 1]
  BY <1>1
<1>3. IsInjective(r)
  <2>1. SUFFICES ASSUME NEW i \in DOMAIN r, NEW j \in DOMAIN r, r[i] = r[j] PROVE i = j
    BY DEF IsInjective
  <2>2. i + 1 \in DOMAIN s /\ j + 1 \in DOMAIN s /\ s[i + 1] = s[j + 1]
    BY <1>2, <2>1
  <2>3. i + 1 = j + 1
    BY <2>2 DEF IsInjective
  <2> QED
    BY <1>2, <2>3
<1>4. 1 \in DOMAIN s
  BY <1>2
<1>5. Head(s) \in Tabs /\ Head(s) \in ToSet(s)
  BY <1>2, <1>4 DEF ToSet
<1>6. \A k \in DOMAIN r : r[k] \in ToSet(s) /\ r[k] # s[1]
  <2>1. SUFFICES ASSUME NEW k \in DOMAIN r PROVE r[k] \in ToSet(s) /\ r[k] # s[1]
    OBVIOUS
  <2>2. k + 1 \in DOMAIN s /\ k + 1 # 1 /\ r[k] = s[k + 1]
    BY <1>2
  <2> QED
    BY <1>4, <2>2 DEF ToSet, IsInjective
<1>7. Head(s) \notin ToSet(r) /\ ToSet(r) \subseteq ToSet(s)
  BY <1>2, <1>6 DEF ToSet
<1> QED
  BY <1>1, <1>2, <1>3, <1>5, <1>7 DEF Once

LEMMA AppendOnce ==
    ASSUME NEW s, Once(s), NEW t \in Tabs, t \notin ToSet(s)
    PROVE  Once(Append(s, t)) /\ ToSet(Append(s, t)) = ToSet(s) \cup {t}
<1>1. PICK q : q = Append(s, t)
  OBVIOUS
<1>2. s \in Seq(Tabs) /\ IsInjective(s)
  BY DEF Once
<1>3. /\ q \in Seq(Tabs) /\ ToSet(q) = ToSet(s) \cup {t}
      /\ \A x, y : Before(q, x, y) <=> (Before(s, x, y) \/ (x \in ToSet(s) /\ y = t))
  BY <1>1, <1>2, OneMore
<1> HIDE DEF Before
<1>4. IsInjective(q)
  BY <1>2, <1>3, OnceIs
<1> QED
  BY <1>1, <1>3, <1>4 DEF Once

LEMMA UpdateGroupIs ==
    ASSUME BrowserSound, UpdateGroup
    PROVE  BrowserSound' /\ StripStep
<1>0. op.pc = "label" /\ ours' = ours
  BY DEF UpdateGroup, At
<1>1. WellFormed(b) /\ Told(op, ours) /\ OpFields \subseteq DOMAIN op /\ op.title \in Titles \ {"none"}
  BY <1>0, WorkingTold DEF Named
<1>2. PICK T, S, g : /\ g = op.g
                     /\ T = [b.title EXCEPT ![g] = IF op.title = "same" THEN @ ELSE op.title]
                     /\ S = IF op.shut = "no" THEN b.shut \ {g} ELSE b.shut
  OBVIOUS
<1>3. PICK e, f : e = [pc |-> "collapse"] /\ f = IF op.shut = "yes" THEN e ELSE Finished
  OBVIOUS
<1>4. DOMAIN e = {"pc"} /\ e.pc = "collapse"
  BY <1>3
<1>5. (BrowserSound' /\ StripStep) \/ (Lives(b, g) /\ b' = Labelled(b, T, S) /\ Wrote(op, op', f))
  <2>1. Edit(Lives(b, g), {Labelled(b, T, S)}, f, Failed)
    BY <1>2, <1>3 DEF UpdateGroup, Labelled
  <2>2. (BrowserSound' /\ StripStep) \/ (Lives(b, g) /\ b' \in {Labelled(b, T, S)} /\ Wrote(op, op', f))
    BY <1>0, <2>1, EditSound
  <2> QED
    BY <2>2
<1>6. CASE Lives(b, g) /\ b' = Labelled(b, T, S) /\ Wrote(op, op', f)
  <2>1. T \in [Groups -> Titles] /\ \A x \in Groups : b.title[x] # "none" => T[x] # "none"
    <3>1. b.title \in [Groups -> Titles]
      BY <1>1 DEF WellFormed, Browsers
    <3> QED
      BY <1>1, <1>2, <3>1
  <2>2. S \subseteq Groups /\ S \subseteq b.shut
    <3>1. b.shut \subseteq Groups
      BY <1>1, WellFormedIsReady, BrowserIs
    <3> QED
      BY <1>2, <3>1
  <2>3. PICK B : B = b'
    OBVIOUS
  <2>4. /\ WellFormed(B) /\ B.strip = b.strip /\ B.group = b.group /\ B.pinned = b.pinned
        /\ B.shows = b.shows /\ B.page = b.page /\ B.title = T /\ B.shut = S
    BY <1>1, <1>6, <2>1, <2>2, <2>3, LabelledIs
  <2>5. NoneShut(b, b')
    BY <2>2, <2>3, <2>4 DEF NoneShut
  <2>6. WellFormed(b)' /\ StripStep
    BY <1>1, <2>3, <2>4, <2>5, StayingStep
  <2>7. Told(op', ours)
    BY <1>1, <1>3, <1>4, <1>6, OnwardsFree, FinishedWrote
  <2> QED
    BY <1>0, <2>6, <2>7 DEF BrowserSound
<1> QED
  BY <1>5, <1>6

LEMMA CollapseSafelyIs ==
    ASSUME BrowserSound, CollapseSafely
    PROVE  BrowserSound' /\ StripStep
<1>0. op.pc = "collapse" /\ ours' = ours
  BY DEF CollapseSafely, At
<1>1. WellFormed(b) /\ Told(op, ours) /\ OpFields \subseteq DOMAIN op
  BY <1>0, WorkingTold
<1>2. PICK S, B, g : /\ g = op.g /\ S = b.shut \cup {g}
                     /\ B = IF MayCollapse(g) THEN [b EXCEPT !.shut = S] ELSE b
  OBVIOUS
<1>3. (BrowserSound' /\ StripStep) \/ (Lives(b, g) /\ b' = B /\ Wrote(op, op', Finished))
  <2>1. Edit(Lives(b, g), {B}, Finished, Failed)
    BY <1>2 DEF CollapseSafely
  <2>2. (BrowserSound' /\ StripStep) \/ (Lives(b, g) /\ b' \in {B} /\ Wrote(op, op', Finished))
    BY <1>0, <2>1, EditSound
  <2> QED
    BY <2>2
<1>4. CASE Lives(b, g) /\ b' = B /\ Wrote(op, op', Finished)
  <2>1. Told(op', ours)
    BY <1>1, <1>4, FinishedWrote
  <2>2. CASE ~MayCollapse(g)
    BY <1>0, <1>1, <1>2, <1>4, <2>1, <2>2, OnlyWrote
  <2>3. CASE MayCollapse(g)
    <3>1. PICK T : T = b.title
      OBVIOUS
    <3>2. T \in [Groups -> Titles] /\ b \in Browsers /\ b.shut \subseteq Groups
      BY <1>1, <3>1 DEF WellFormed, Browsers
    <3>3. B = Labelled(b, T, S)
      BY <1>2, <2>3, <3>1, <3>2 DEF Labelled, Browsers
    <3>4. g \in Groups
      BY <1>1, <1>4, WellFormedIsReady, MembersAre
    <3>5. S \subseteq Groups
      BY <1>2, <3>2, <3>4
    <3>6. /\ WellFormed(B) /\ B.strip = b.strip /\ B.group = b.group /\ B.pinned = b.pinned
          /\ B.shows = b.shows /\ B.page = b.page /\ B.title = T /\ B.shut = S
      BY <1>1, <3>1, <3>2, <3>3, <3>5, LabelledIs
    <3>7. \A w \in Windows : b.shows[w] # None => b.group[b.shows[w]] # g
      BY <2>3 DEF MayCollapse, HoldsActive
    <3>8. NoneShut(b, B)
      BY <1>2, <3>6, <3>7 DEF NoneShut
    <3>9. WellFormed(b)' /\ StripStep
      BY <1>1, <1>4, <3>6, <3>8, StayingStep
    <3> QED
      BY <1>0, <2>1, <3>9 DEF BrowserSound
  <2> QED
    BY <2>2, <2>3
<1> QED
  BY <1>3, <1>4

LEMMA MoveGroupTabsInIs ==
    ASSUME BrowserSound, MoveGroupTabsIn
    PROVE  BrowserSound' /\ StripStep
<1>0. op.pc = "move in" /\ ours' = ours /\ op.part # <<>>
  BY DEF MoveGroupTabsIn, At
<1>1. /\ WellFormed(b) /\ Told(op, ours) /\ OpFields \subseteq DOMAIN op /\ op.w \in Windows /\ op.from \in Windows
      /\ Once(op.part) /\ Once(op.moved) /\ ToSet(op.part) \cap ToSet(op.moved) = {} /\ op.kind = "gather"
  BY <1>0, WorkingTold DEF Stage, Named
<1>2. PICK t, p, m, w : t = Head(op.part) /\ p = Tail(op.part) /\ m = Append(op.moved, t) /\ w = op.w
  OBVIOUS
<1>3. PICK stays : stays = (t \notin ToSet(b.strip[op.from]) \/ b.group[t] # op.g \/ t \in b.pinned)
  OBVIOUS
<1>4. PICK f, e, Bs : /\ f = [part |-> p, moved |-> IF stays THEN op.moved ELSE m] /\ e = [part |-> <<>>]
                      /\ Bs = IF stays THEN {b} ELSE TabsMove(b, t, w, Len(b.strip[w]) + 1)
  OBVIOUS
<1>5. /\ DOMAIN f = {"part", "moved"} /\ f.part = p /\ f.moved = IF stays THEN op.moved ELSE m
      /\ DOMAIN e = {"part"} /\ e.part = <<>>
  BY <1>4
<1>6. \/ b' = b /\ Wrote(op, op', Nothing)
      \/ b' \in Bs /\ Wrote(op, op', f)
      \/ b' = b /\ Wrote(op, op', e)
  <2>1. Edit(TRUE, Bs, f, e)
    BY <1>2, <1>3, <1>4 DEF MoveGroupTabsIn
  <2> QED
    BY <1>1, <2>1, EditIs
<1>7. PICK n : n = op'
  OBVIOUS
<1>8. CASE b' = b /\ Wrote(op, op', Nothing)
  BY <1>0, <1>1, <1>8, NothingWrote, OnlyWrote
<1>9. CASE b' = b /\ Wrote(op, n, e)
  <2>1. n.pc = "move in" /\ n.kind = "gather" /\ n.from = op.from /\ n.part = <<>> /\ n.moved = op.moved
    BY <1>0, <1>1, <1>5, <1>9, WroteIs, ZenonT(60)
  <2>2. Once(<<>>) /\ ToSet(<<>>) = {}
    BY DEF Once, IsInjective, ToSet
  <2>3. Stage(n, ours)
    BY <1>1, <2>1, <2>2 DEF Stage
  <2>4. Told(n, ours)
    BY <1>1, <1>5, <1>9, <2>3, ToldBy
  <2> QED
    BY <1>0, <1>1, <1>7, <1>9, <2>4, OnlyWrote
<1>10. CASE b' \in Bs /\ Wrote(op, n, f)
  <2>1. /\ Once(p) /\ t \in Tabs /\ t \in ToSet(op.part) /\ t \notin ToSet(p) /\ ToSet(p) \subseteq ToSet(op.part)
    BY <1>0, <1>1, <1>2, TailOnce DEF Once
  <2>2. Once(m) /\ ToSet(m) = ToSet(op.moved) \cup {t}
    BY <1>1, <1>2, <2>1, AppendOnce
  <2>3. Once(f.moved) /\ ToSet(p) \cap ToSet(f.moved) = {}
    BY <1>1, <1>5, <2>1, <2>2
  <2>4. n.pc = "move in" /\ n.kind = "gather" /\ n.from = op.from /\ n.part = p /\ n.moved = f.moved
    <3>1. DOMAIN f = {"part", "moved"} /\ f.part = p /\ op.pc = "move in" /\ op.kind = "gather"
      BY <1>0, <1>1, <1>5
    <3> QED
      BY ONLY <1>10, <3>1, WroteIs, ZenonT(60)
  <2>5. Stage(n, ours)
    BY <1>1, <2>1, <2>3, <2>4 DEF Stage
  <2>6. Told(n, ours)
    BY <1>1, <1>5, <1>10, <2>5, ToldBy
  <2>7. CASE stays
    BY <1>0, <1>1, <1>4, <1>7, <1>10, <2>6, <2>7, OnlyWrote
  <2>8. CASE ~stays
    <3>1. t \in ToSet(b.strip[op.from]) /\ b.group[t] = op.g
      BY <1>3, <2>8
    <3>2. t \in OpenTabs(b)
      BY <1>1, <3>1, OpenIs
    <3>3. PICK i : i = Len(b.strip[w]) + 1
      OBVIOUS
    <3>4. i \in Nat \ {0} /\ w \in Windows
      <4>1. b.strip[w] \in Seq(Tabs) /\ w \in Windows
        BY <1>1, <1>2, WellFormedIsReady, BrowserIs
      <4> QED
        BY <3>3, <4>1
    <3>5. b' \in TabsMove(b, t, w, i)
      BY <1>4, <1>10, <2>8, <3>3
    <3>6. /\ WellFormed(b)' /\ TabsKept /\ PinsKept /\ ShowsKept /\ NothingHidden
          /\ \A x \in OpenTabs(b) \ {t} : Window(b', x) = Window(b, x)
          /\ Window(b', t) = w
      BY <1>1, <3>2, <3>4, <3>5, MovedStep
    <3>7. WindowsKept
      BY <1>1, <1>2, <3>1, <3>6 DEF WindowsKept, Gathers
    <3> QED
      BY <1>0, <1>7, <2>6, <3>6, <3>7 DEF BrowserSound, StripStep
  <2> QED
    BY <2>7, <2>8
<1> QED
  BY <1>6, <1>7, <1>8, <1>9, <1>10

\* A group opened for a tab on show is the same browser but for that.
LEMMA OpenedIs ==
    ASSUME NEW B, WellFormed(B), NEW g, NEW ts, NEW A, A = Opened(B, g, ts)
    PROVE  /\ WellFormed(A) /\ A.strip = B.strip /\ A.group = B.group /\ A.pinned = B.pinned /\ A.shows = B.shows
           /\ A.shut \subseteq B.shut
           /\ \A w \in Windows : B.shows[w] \in ToSet(ts) => g \notin A.shut
<1>1. PICK T, S : /\ T = B.title
                  /\ S = IF \E t \in ToSet(ts) : t \in ToSet([w \in 1..2 |-> B.shows[w]]) THEN B.shut \ {g} ELSE B.shut
  OBVIOUS
<1>2. B \in Browsers /\ T \in [Groups -> Titles] /\ B.shut \subseteq Groups
  BY <1>1 DEF WellFormed, Browsers
<1>3. A = Labelled(B, T, S)
  BY <1>1, <1>2 DEF Opened, Labelled, Browsers
<1>4. S \subseteq Groups
  BY <1>1, <1>2
<1>5. /\ WellFormed(A) /\ A.strip = B.strip /\ A.group = B.group /\ A.pinned = B.pinned
      /\ A.shows = B.shows /\ A.shut = S
  BY <1>1, <1>2, <1>3, <1>4, LabelledIs
<1>6. ASSUME NEW w \in Windows, B.shows[w] \in ToSet(ts)
      PROVE  g \notin S
  <2>1. w \in 1..2
    BY DEF Windows
  <2>2. B.shows[w] \in ToSet([v \in 1..2 |-> B.shows[v]])
    BY <2>1 DEF ToSet
  <2> QED
    BY <1>1, <1>6, <2>2
<1> QED
  BY <1>1, <1>5, <1>6

LEMMA FoldIs ==
    ASSUME BrowserSound, Fold
    PROVE  BrowserSound' /\ StripStep
<1>0. op.pc = "fold" /\ ours' = ours
  BY DEF Fold, At
<1>1. /\ WellFormed(b) /\ Told(op, ours) /\ OpFields \subseteq DOMAIN op /\ op.w \in Windows /\ op.keep \in Groups
      /\ op.kind = "gather"
  BY <1>0, WorkingTold DEF Stage, Named
<1>2. PICK f, e, n : f = [todo |-> Tail(op.todo)] /\ e = [pc |-> "done"] /\ n = op'
  OBVIOUS
<1>3. DOMAIN f = {"todo"} /\ DOMAIN e = {"pc"} /\ e.pc = "done"
  BY <1>2
<1>4. CASE op.todo = <<>>
  <2>1. b' = b /\ Move(e)
    BY <1>2, <1>4 DEF Fold
  <2>2. Told(n, ours)
    BY <1>1, <1>2, <1>3, <2>1, MoveIs, OnwardsFree
  <2> QED
    BY <1>0, <1>1, <1>2, <2>1, <2>2, OnlyWrote
<1>5. CASE op.todo # <<>>
  <2>1. PICK g, w, k, ts : g = Head(op.todo) /\ w = op.w /\ k = op.keep /\ ts = MembersOf(g, w)
    OBVIOUS
  <2>2. PICK there : there = (Lives(b, g) /\ GroupWindow(b, g) = op.w /\ b.title[g] = op.title)
    OBVIOUS
  <2>3. PICK Bs : Bs = IF there THEN TabsGroup(Opened(b, k, ts), ts, k, w) ELSE {b}
    OBVIOUS
  <2>4. Edit(there => StillIn(w, ts, k), Bs, f, f)
    BY <1>2, <1>5, <2>1, <2>2, <2>3 DEF Fold
  <2>5. \/ b' = b /\ Wrote(op, n, Nothing)
        \/ (there => StillIn(w, ts, k)) /\ b' \in Bs /\ Wrote(op, n, f)
        \/ b' = b /\ Wrote(op, n, f)
    BY <1>1, <1>2, <2>4, EditIs
  <2>6. CASE b' = b /\ Wrote(op, n, Nothing)
    BY <1>0, <1>1, <1>2, <2>6, NothingWrote, OnlyWrote
  <2>7. ASSUME Wrote(op, n, f)
        PROVE  Told(n, ours)
    <3>1. n.pc = "fold" /\ n.kind = "gather" /\ n.keep = op.keep
      BY <1>0, <1>1, <1>3, <2>7, WroteIs
    <3>2. Stage(n, ours)
      BY <1>1, <3>1 DEF Stage
    <3> QED
      BY <1>1, <1>3, <2>7, <3>2, ToldBy
  <2>8. CASE b' = b /\ Wrote(op, n, f)
    BY <1>0, <1>1, <1>2, <2>7, <2>8, OnlyWrote
  <2>9. CASE (there => StillIn(w, ts, k)) /\ b' \in Bs /\ Wrote(op, n, f)
    <3>1. CASE ~there
      BY <1>0, <1>1, <1>2, <2>3, <2>7, <2>9, <3>1, OnlyWrote
    <3>2. CASE there
      <4>1. k \in Groups /\ k # None /\ w \in Windows
        BY <1>1, <2>1, WellFormedIsReady, BrowserIs
      <4>2. /\ Lives(b, k) /\ GroupWindow(b, k) = w
            /\ \A t \in ToSet(ts) : t \in ToSet(b.strip[w]) /\ t \notin b.pinned
        BY <2>9, <3>2, <4>1 DEF StillIn, InPlace
      <4>3. ts \in Seq(Tabs) /\ IsInjective(ts)
        <5>1. b.strip[w] \in Seq(Tabs) /\ IsInjective(b.strip[w])
          BY <1>1, <4>1, WellFormedIsReady, BrowserIs
        <5> QED
          BY <2>1, <5>1, OnlyOnce DEF MembersOf, Once
      <4>4. PICK A, C : A = Opened(b, k, ts) /\ C = b'
        OBVIOUS
      <4>5. /\ WellFormed(A) /\ A.strip = b.strip /\ A.group = b.group /\ A.pinned = b.pinned /\ A.shows = b.shows
            /\ A.shut \subseteq b.shut
            /\ \A v \in Windows : b.shows[v] \in ToSet(ts) => k \notin A.shut
        BY <1>1, <4>4, OpenedIs
      <4>6. Members(A, k) = Members(b, k)
        BY <4>5 DEF Members, InGroup
      <4>7. Lives(A, k) /\ GroupWindow(A, k) = w
        BY <4>2, <4>5, <4>6 DEF Lives, GroupWindow, Window
      <4>8. Grouped(A, C, ts, k)
        <5>1. C \in TabsGroup(A, ts, k, w)
          BY <2>3, <2>9, <3>2, <4>4
        <5>2. ToSet(ts) \subseteq ToSet(A.strip[w])
          BY <4>2, <4>5
        <5> QED
          BY <4>1, <4>3, <4>5, <4>7, <5>1, <5>2, TabsGroupIs
      <4>9. /\ WellFormed(C) /\ C.pinned = b.pinned \ ToSet(ts) /\ C.shut \subseteq A.shut
            /\ \A x \in Tabs : C.group[x] = IF x \in ToSet(ts) THEN k ELSE b.group[x]
            /\ \A v \in Windows : ToSet(C.strip[v]) = ToSet(b.strip[v]) /\ C.shows[v] = b.shows[v]
        BY <4>5, <4>8 DEF Grouped
      <4>10. C.pinned = b.pinned
        BY <4>2, <4>9
      <4>11. NoneShut(b, C)
        <5>1. SUFFICES ASSUME NEW v \in Windows, C.shows[v] # None, C.group[C.shows[v]] \in C.shut
                       PROVE  b.group[b.shows[v]] \in b.shut
          BY DEF NoneShut
        <5>2. b.shows[v] \in Tabs /\ C.shows[v] = b.shows[v]
          <6>1. b.shows[v] \in Tabs \cup {None}
            BY <1>1 DEF WellFormed, Browsers
          <6> QED
            BY <4>9, <5>1, <6>1
        <5>3. b.shows[v] \notin ToSet(ts)
          BY <4>5, <4>9, <5>1, <5>2
        <5> QED
          BY <4>5, <4>9, <5>1, <5>2, <5>3
      <4>12. WellFormed(b)' /\ StripStep
        BY <1>1, <4>4, <4>9, <4>10, <4>11, StayingStep
      <4> QED
        BY <1>0, <1>2, <2>7, <2>9, <4>12 DEF BrowserSound
    <3> QED
      BY <3>1, <3>2
  <2> QED
    BY <2>5, <2>6, <2>8, <2>9
<1> QED
  BY <1>4, <1>5

LEMMA Listed ==
    ASSUME NEW S, IsFiniteSet(S)
    PROVE  Cardinality(S) \in Nat /\ SetToSeq(S) \in [1..Cardinality(S) -> S]
<1>1. Cardinality(S) \in Nat /\ ExistsBijection(1..Cardinality(S), S)
  BY FS_CardinalityType
<1>2. PICK f \in [1..Cardinality(S) -> S] : IsInjective(f)
  BY <1>1 DEF ExistsBijection, Bijection, Injection
<1> QED
  BY <1>1, <1>2 DEF SetToSeq

(* The last place of any strip.                                            *)
LEMMA LastPlace == Cardinality(Tabs) + 1 \in Nat \ {0}
<1>1. Cardinality(Tabs) \in Nat
  BY StripAssumption, FS_CardinalityType
<1> QED
  BY <1>1

LEMMA MoveUnitToEndIs ==
    ASSUME BrowserSound, MoveUnitToEnd
    PROVE  BrowserSound' /\ StripStep
<1>0. op.pc = "sort next" /\ ours' = ours
  BY DEF MoveUnitToEnd, At
<1>1. WellFormed(b) /\ Told(op, ours) /\ OpFields \subseteq DOMAIN op /\ op.w \in Windows /\ op.kind = "sort"
  BY <1>0, WorkingTold DEF Stage, Named
<1>2. PICK u, t, w, i : u = Head(op.todo) /\ t = Head(u.ts) /\ w = op.w /\ i = Cardinality(Tabs) + 1
  OBVIOUS
<1>3. i \in Nat \ {0} /\ w \in Windows
  BY <1>1, <1>2, LastPlace
<1>4. PICK f, e, n : f = [pc |-> "sort loose"] /\ e = [todo |-> Tail(op.todo)] /\ n = op'
  OBVIOUS
<1>5. DOMAIN f = {"pc"} /\ f.pc = "sort loose" /\ DOMAIN e = {"todo"}
  BY <1>4
<1>6. \/ b' = b /\ Move(e)
      \/ u.g = None /\ op.todo # <<>> /\ t \in OpenTabs(b) /\ b' \in TabsMove(b, t, w, i) /\ Move(f)
      \/ Lives(b, u.g) /\ b' \in GroupsMove(b, u.g, i) /\ Move(e)
  <2>1. CASE ~dragging /\ IF u.g = None THEN t \in OpenTabs(b) ELSE Lives(b, u.g)
    <3>1. /\ op.todo # <<>> /\ b' \in IF u.g = None THEN TabsMove(b, t, w, i) ELSE GroupsMove(b, u.g, i)
          /\ Move(IF u.g = None THEN f ELSE e)
      BY <1>2, <1>4, <2>1 DEF MoveUnitToEnd
    <3> QED
      BY <2>1, <3>1
  <2>2. CASE ~(~dragging /\ IF u.g = None THEN t \in OpenTabs(b) ELSE Lives(b, u.g))
    BY <1>2, <1>4, <2>2 DEF MoveUnitToEnd
  <2> QED
    BY <2>1, <2>2
<1>7. ASSUME Move(e) PROVE Told(n, ours)
  <2>1. Wrote(op, n, e)
    BY <1>1, <1>4, <1>7, MoveIs
  <2>2. n.pc = "sort next" /\ n.kind = "sort"
    BY <1>0, <1>1, <1>5, <2>1, WroteIs
  <2>3. Stage(n, ours)
    BY <2>2 DEF Stage
  <2> QED
    BY <1>1, <1>5, <2>1, <2>3, ToldBy
<1>8. CASE b' = b /\ Move(e)
  BY <1>0, <1>1, <1>4, <1>7, <1>8, OnlyWrote
<1>9. CASE u.g = None /\ op.todo # <<>> /\ t \in OpenTabs(b) /\ b' \in TabsMove(b, t, w, i) /\ Move(f)
  <2>1. Wrote(op, n, f)
    BY <1>1, <1>4, <1>9, MoveIs
  <2>2. n.pc = "sort loose" /\ n.kind = "sort"
    BY <1>1, <1>5, <2>1, WroteIs
  <2>3. Stage(n, ours)
    BY <2>2 DEF Stage
  <2>4. Told(n, ours)
    BY <1>1, <1>5, <2>1, <2>3, ToldBy
  <2>5. /\ WellFormed(b)' /\ TabsKept /\ PinsKept /\ ShowsKept /\ NothingHidden
        /\ \A x \in OpenTabs(b) \ {t} : Window(b', x) = Window(b, x)
        /\ Window(b', t) = w
    BY <1>1, <1>3, <1>9, MovedStep
  <2>6. WindowsKept
    <3>1. SortsBack(t)
      BY <1>0, <1>2, <1>9, <2>5 DEF SortsBack, At
    <3> QED
      BY <2>5, <3>1 DEF WindowsKept
  <2> QED
    BY <1>0, <1>4, <2>4, <2>5, <2>6 DEF BrowserSound, StripStep
<1>10. CASE Lives(b, u.g) /\ b' \in GroupsMove(b, u.g, i) /\ Move(e)
  <2>1. WellFormed(b)' /\ StripStep
    BY <1>1, <1>3, <1>10, GroupMovedStep
  <2> QED
    BY <1>0, <1>4, <1>7, <1>10, <2>1 DEF BrowserSound
<1> QED
  BY <1>6, <1>8, <1>9, <1>10

LEMMA LooseAgainIs ==
    ASSUME BrowserSound, LooseAgain
    PROVE  BrowserSound' /\ StripStep
<1>0. op.pc = "sort loose" /\ ours' = ours
  BY DEF LooseAgain, At
<1>1. WellFormed(b) /\ Told(op, ours) /\ OpFields \subseteq DOMAIN op /\ op.kind = "sort"
  BY <1>0, WorkingTold DEF Stage
<1>2. PICK S, f, n : /\ S = {Head(Head(op.todo).ts)} /\ f = [pc |-> "sort next", todo |-> Tail(op.todo)]
                     /\ n = op'
  OBVIOUS
<1>3. DOMAIN f = {"pc", "todo"} /\ f.pc = "sort next"
  BY <1>2
<1>4. Move(f) /\ (b' = b \/ b' \in TabsUngroup(b, S))
  BY <1>2 DEF LooseAgain
<1>5. Wrote(op, n, f)
  BY <1>1, <1>2, <1>4, MoveIs
<1>6. n.pc = "sort next" /\ n.kind = "sort"
  BY <1>1, <1>3, <1>5, WroteIs
<1>7. Stage(n, ours)
  BY <1>6 DEF Stage
<1>8. Told(n, ours)
  BY <1>1, <1>3, <1>5, <1>7, ToldBy
<1>9. WellFormed(b)' /\ StripStep
  BY <1>1, <1>4, BrowserStays, UngroupedStep
<1> QED
  BY <1>0, <1>2, <1>8, <1>9 DEF BrowserSound

LEMMA OpenOrFocusIs ==
    ASSUME BrowserSound, OpenOrFocus
    PROVE  BrowserSound' /\ StripStep
<1>0. op.pc = "show" /\ b' = b /\ ours' = ours \cap OpenTabs(b)
  BY DEF OpenOrFocus, At, ReadOpenedLedger
<1>1. WellFormed(b) /\ Told(op, ours) /\ OpFields \subseteq DOMAIN op /\ op.kind = "show"
  BY <1>0, WorkingTold DEF Stage
<1>2. PICK plan : plan = PlanOpenOrFocus(b, op.page, op.w, IF op.findOnly THEN {} ELSE ReadOpenedLedger)
  OBVIOUS
<1>3. PICK todo : todo = SetToSeq(plan.close)
  OBVIOUS
<1>4. plan.close \subseteq ours \cap OpenTabs(b)
  BY <1>2 DEF PlanOpenOrFocus, ReadOpenedLedger
<1>5. todo \in Seq(Tabs) /\ ToSet(todo) \subseteq ours'
  <2>1. plan.close \subseteq Tabs
    BY <1>1, <1>4, WellFormedIsReady, BrowserIs
  <2>2. IsFiniteSet(plan.close)
    BY <2>1, StripAssumption, FS_Subset
  <2>3. Cardinality(plan.close) \in Nat /\ todo \in [1..Cardinality(plan.close) -> plan.close]
    BY <1>3, <2>2, Listed
  <2>4. todo \in Seq(plan.close) /\ todo \in Seq(Tabs)
    BY <2>1, <2>3
  <2> QED
    BY <1>0, <1>4, <2>4, Numbered
<1>6. PICK f, e, n : f = [pc |-> "check", keep |-> plan.keeper, todo |-> todo] /\ e = [pc |-> "create"] /\ n = op'
  OBVIOUS
<1>7. DOMAIN f = {"pc", "keep", "todo"} /\ f.pc = "check" /\ f.todo = todo /\ DOMAIN e = {"pc"} /\ e.pc = "create"
  BY <1>6
<1>8. Move(f) \/ Move(e) \/ Move(Failed)
  BY <1>2, <1>3, <1>6 DEF OpenOrFocus
<1>9. Told(op, ours')
  BY <1>0, <1>1 DEF Told, Stage
<1>10. Told(n, ours')
  <2>1. CASE Move(f)
    <3>1. Wrote(op, n, f)
      BY <1>1, <1>6, <2>1, MoveIs
    <3>2. n.pc = "check" /\ n.kind = "show" /\ n.todo = todo
      BY <1>1, <1>7, <3>1, WroteIs
    <3>3. Stage(n, ours')
      BY <1>5, <3>2 DEF Stage
    <3> QED
      BY <1>7, <1>9, <3>1, <3>3, ToldBy
  <2>2. CASE Move(e)
    <3>1. Wrote(op, n, e)
      BY <1>1, <1>6, <2>2, MoveIs
    <3> QED
      BY <1>7, <1>9, <3>1, OnwardsFree
  <2>3. CASE Move(Failed)
    <3>1. Wrote(op, n, Failed)
      BY <1>1, <1>6, <2>3, MoveIs
    <3> QED
      BY <1>9, <3>1, FailedWrote
  <2> QED
    BY <1>8, <2>1, <2>2, <2>3
<1> QED
  BY <1>0, <1>1, <1>6, <1>10, BrowserStays DEF BrowserSound

LEMMA TailIs ==
    ASSUME NEW s \in Seq(Tabs), s # <<>>
    PROVE  Head(s) \in ToSet(s) /\ Tail(s) \in Seq(Tabs) /\ ToSet(Tail(s)) \subseteq ToSet(s)
<1>1. PICK r : r = Tail(s)
  OBVIOUS
<1>2. /\ Len(s) \in Nat /\ Len(s) > 0 /\ DOMAIN s = 1..Len(s) /\ Head(s) = s[1]
      /\ r \in Seq(Tabs) /\ Len(r) = Len(s) - 1 /\ DOMAIN r = 1..Len(r) /\ \A k \in 1..Len(r) : r[k] = s[k + 1]
  BY <1>1
<1>3. \A k \in DOMAIN r : k + 1 \in DOMAIN s /\ r[k] = s[k + 1]
  BY <1>2
<1>4. 1 \in DOMAIN s
  BY <1>2
<1> QED
  BY <1>1, <1>2, <1>3, <1>4 DEF ToSet

LEMMA UnbornIs ==
    ASSUME WellFormed(b), TabsLeft
    PROVE  Min(Unborn) \in Tabs /\ Min(Unborn) \notin OpenTabs(b)
<1>1. Unborn \subseteq Tabs /\ Unborn # {} /\ Unborn \cap OpenTabs(b) = {}
  BY DEF Unborn, TabsLeft
<1>2. Unborn \subseteq Nat
  BY <1>1, StripAssumption
<1>3. Min(Unborn) \in Unborn
  BY <1>1, <1>2, LeastOf
<1> QED
  BY <1>1, <1>3

LEMMA CreateTabIs ==
    ASSUME BrowserSound, CreateTab
    PROVE  BrowserSound' /\ StripStep
<1>0. op.pc = "create" /\ ours' = ours /\ TabsLeft
  BY DEF CreateTab, At
<1>1. WellFormed(b) /\ Told(op, ours) /\ OpFields \subseteq DOMAIN op /\ op.w \in Windows /\ op.page \in Addressed
  BY <1>0, WorkingTold DEF Named
<1>2. PICK t, f, n : t = Min(Unborn) /\ f = [pc |-> "remember", keep |-> t] /\ n = op'
  OBVIOUS
<1>3. DOMAIN f = {"pc", "keep"} /\ f.pc = "remember"
  BY <1>2
<1>4. Move(f) /\ b' \in TabsCreate(b, t, op.w, op.page, op.active)
  BY <1>2 DEF CreateTab
<1>5. t \in Tabs /\ t \notin OpenTabs(b)
  BY <1>0, <1>1, <1>2, UnbornIs
<1>6. WellFormed(b)' /\ StripStep
  BY <1>1, <1>4, <1>5, CreatedStep
<1>7. Wrote(op, n, f)
  BY <1>1, <1>2, <1>4, MoveIs
<1>8. n.pc = "remember"
  BY <1>3, <1>7, WroteIs
<1>9. Stage(n, ours)
  BY <1>8 DEF Stage
<1>10. Told(n, ours)
  BY <1>1, <1>3, <1>7, <1>9, ToldBy
<1> QED
  BY <1>0, <1>2, <1>6, <1>10 DEF BrowserSound

LEMMA OpenTabIs ==
    ASSUME BrowserSound, OpenTab
    PROVE  BrowserSound' /\ StripStep
<1>0. op.pc = "open" /\ ours' = ours /\ TabsLeft
  BY DEF OpenTab, At
<1>1. WellFormed(b) /\ Told(op, ours) /\ OpFields \subseteq DOMAIN op /\ op.w \in Windows /\ op.page \in Addressed
  BY <1>0, WorkingTold DEF Named
<1>2. PICK t, f, n : t = Min(Unborn) /\ f = [pc |-> "done"] /\ n = op'
  OBVIOUS
<1>3. DOMAIN f = {"pc"} /\ f.pc = "done"
  BY <1>2
<1>4. Move(f) /\ b' \in TabsCreate(b, t, op.w, op.page, op.active)
  BY <1>2 DEF OpenTab
<1>5. t \in Tabs /\ t \notin OpenTabs(b)
  BY <1>0, <1>1, <1>2, UnbornIs
<1>6. WellFormed(b)' /\ StripStep
  BY <1>1, <1>4, <1>5, CreatedStep
<1>7. Wrote(op, n, f)
  BY <1>1, <1>2, <1>4, MoveIs
<1>8. Told(n, ours)
  BY <1>1, <1>3, <1>7, OnwardsFree
<1> QED
  BY <1>0, <1>2, <1>6, <1>8 DEF BrowserSound

LEMMA RememberOpenedIs ==
    ASSUME BrowserSound, RememberOpened
    PROVE  BrowserSound' /\ StripStep
<1>0. op.pc = "remember" /\ b' = b
  BY DEF RememberOpened, At
<1>1. WellFormed(b) /\ Told(op, ours) /\ OpFields \subseteq DOMAIN op
  BY <1>0, WorkingTold
<1>2. PICK f, n : f = [pc |-> "done"] /\ n = op'
  OBVIOUS
<1>3. DOMAIN f = {"pc"} /\ f.pc = "done" /\ Move(f)
  BY <1>2 DEF RememberOpened
<1>4. Wrote(op, n, f)
  BY <1>1, <1>2, <1>3, MoveIs
<1>5. n.pc = "done"
  BY <1>3, <1>4, WroteIs
<1>6. Stage(n, ours')
  BY <1>5 DEF Stage
<1>7. Named(n) /\ OpFields \subseteq DOMAIN n
  BY <1>1, <1>3, <1>4, NamedStill DEF Told, Wrote
<1> QED
  BY <1>0, <1>1, <1>2, <1>6, <1>7, BrowserStays DEF BrowserSound, Told

LEMMA ForgetOpenedIs ==
    ASSUME BrowserSound, ForgetOpened
    PROVE  BrowserSound' /\ StripStep
<1>0. op.pc = "close dups" /\ b' = b
  BY DEF ForgetOpened, At
<1>1. WellFormed(b) /\ Told(op, ours) /\ OpFields \subseteq DOMAIN op
  BY <1>0, WorkingTold
<1>2. PICK f, n : f = [pc |-> "to the end"] /\ n = op'
  OBVIOUS
<1>3. DOMAIN f = {"pc"} /\ f.pc = "to the end" /\ Move(f)
  BY <1>2 DEF ForgetOpened
<1>4. Wrote(op, n, f)
  BY <1>1, <1>2, <1>3, MoveIs
<1>5. n.pc = "to the end"
  BY <1>3, <1>4, WroteIs
<1>6. Stage(n, ours')
  BY <1>5 DEF Stage
<1>7. Named(n) /\ OpFields \subseteq DOMAIN n
  BY <1>1, <1>3, <1>4, NamedStill, ZenonT(60) DEF Told, Wrote
<1> QED
  BY <1>0, <1>1, <1>2, <1>6, <1>7, BrowserStays DEF BrowserSound, Told

LEMMA CloseDuplicateIs ==
    ASSUME BrowserSound, CloseDuplicate
    PROVE  BrowserSound' /\ StripStep
<1>0. op.pc = "close dups" /\ ours' = ours /\ op.todo # <<>>
  BY DEF CloseDuplicate, At
<1>1. /\ WellFormed(b) /\ Told(op, ours) /\ OpFields \subseteq DOMAIN op /\ op.kind = "show"
      /\ op.todo \in Seq(Tabs) /\ ToSet(op.todo) \subseteq ours
  BY <1>0, WorkingTold DEF Stage
<1>2. PICK t, r, f, e, n : /\ t = Head(op.todo) /\ r = Tail(op.todo) /\ n = op' /\ e = [todo |-> r]
                           /\ f = [todo |-> r, moved |-> Append(op.moved, t)]
  OBVIOUS
<1>3. DOMAIN f = {"todo", "moved"} /\ f.todo = r /\ DOMAIN e = {"todo"} /\ e.todo = r
  BY <1>2
<1>4. t \in ToSet(op.todo) /\ r \in Seq(Tabs) /\ ToSet(r) \subseteq ToSet(op.todo)
  BY <1>0, <1>1, <1>2, TailIs
<1>5. \/ StillShows(t) /\ b' \in TabsRemove(b, t) /\ Move(f)
      \/ b' = b /\ Move(e)
  BY <1>2 DEF CloseDuplicate
<1>6. Wrote(op, n, f) \/ Wrote(op, n, e)
  BY <1>1, <1>2, <1>5, MoveIs
<1>7. n.pc = "close dups" /\ n.kind = "show" /\ n.todo = r
  BY <1>0, <1>1, <1>3, <1>6, WroteIs, ZenonT(60)
<1>8. Stage(n, ours)
  BY <1>1, <1>4, <1>7 DEF Stage
<1>9. Told(n, ours)
  BY <1>1, <1>3, <1>6, <1>8, ToldBy
<1>10. CASE b' = b
  BY <1>0, <1>1, <1>2, <1>9, <1>10, OnlyWrote
<1>11. CASE StillShows(t) /\ b' \in TabsRemove(b, t)
  <2>1. t \in OpenTabs(b) /\ MayClose(t)
    BY <1>1, <1>4, <1>11 DEF StillShows, MayClose
  <2>2. WellFormed(b)' /\ StripStep
    BY <1>1, <1>11, <2>1, RemovedStep
  <2> QED
    BY <1>0, <1>2, <1>9, <2>2 DEF BrowserSound
<1> QED
  BY <1>5, <1>10, <1>11

LEMMA RemoveTabIs ==
    ASSUME BrowserSound, RemoveTab
    PROVE  BrowserSound' /\ StripStep
<1>0. op.pc = "close" /\ ours' = ours
  BY DEF RemoveTab, At
<1>1. WellFormed(b) /\ Told(op, ours) /\ OpFields \subseteq DOMAIN op /\ op.kind = "close"
  BY <1>0, WorkingTold DEF Stage
<1>2. PICK t, f : t = Head(op.ids) /\ f = [pc |-> "done"]
  OBVIOUS
<1>3. DOMAIN f = {"pc"} /\ f.pc = "done"
  BY <1>2
<1>4. \/ t \in OpenTabs(b) /\ b' \in TabsRemove(b, t) /\ Move(f)
      \/ b' = b /\ Move(Failed)
  BY <1>2 DEF RemoveTab
<1>5. CASE b' = b /\ Move(Failed)
  BY <1>0, <1>1, <1>5, MoveIs, FailedWrote, OnlyWrote
<1>6. CASE t \in OpenTabs(b) /\ b' \in TabsRemove(b, t) /\ Move(f)
  <2>1. MayClose(t)
    BY <1>1, <1>2 DEF MayClose
  <2>2. WellFormed(b)' /\ StripStep
    BY <1>1, <1>6, <2>1, RemovedStep
  <2>3. Wrote(op, op', f)
    BY <1>1, <1>6, MoveIs
  <2>4. Told(op', ours)
    BY <1>1, <1>3, <2>3, OnwardsFree
  <2> QED
    BY <1>0, <2>2, <2>4 DEF BrowserSound
<1> QED
  BY <1>4, <1>5, <1>6

LEMMA MoveKeeperIs ==
    ASSUME BrowserSound, MoveKeeper
    PROVE  BrowserSound' /\ StripStep
<1>0. op.pc = "to the end" /\ ours' = ours
  BY DEF MoveKeeper, At
<1>1. WellFormed(b) /\ Told(op, ours) /\ OpFields \subseteq DOMAIN op /\ Named(op)
  BY <1>0, WorkingTold
<1>2. PICK t, w, i : t = op.keep /\ w = Window(b, t) /\ i = Cardinality(Tabs) + 1
  OBVIOUS
<1>3. PICK f, n : f = [pc |-> IF op.active THEN "activate" ELSE "done", ids |-> <<t>>] /\ n = op'
  OBVIOUS
<1>4. DOMAIN f = {"pc", "ids"} /\ f.pc = (IF op.active THEN "activate" ELSE "done") /\ f.ids = <<t>>
  BY <1>3
<1>5. \/ b' = b /\ Move(Failed)
      \/ t \in OpenTabs(b) /\ (b' = b \/ b' \in TabsMove(b, t, w, i)) /\ Move(f)
  BY <1>2, <1>3 DEF MoveKeeper
<1>6. CASE b' = b /\ Move(Failed)
  BY <1>0, <1>1, <1>6, MoveIs, FailedWrote, OnlyWrote
<1>7. CASE t \in OpenTabs(b) /\ (b' = b \/ b' \in TabsMove(b, t, w, i)) /\ Move(f)
  <2>1. t \in Tabs /\ w \in Windows
    BY <1>1, <1>2, <1>7, WellFormedIsReady, BrowserIs, WindowIs
  <2>2. Wrote(op, n, f)
    BY <1>1, <1>3, <1>7, MoveIs
  <2>3. /\ n.pc = (IF op.active THEN "activate" ELSE "done") /\ n.active = op.active /\ n.ids = <<t>> /\ n.w = op.w
        /\ n.g = op.g /\ n.title = op.title /\ n.index = op.index /\ n.page = op.page /\ OpFields \subseteq DOMAIN n
    BY <1>4, <2>2, WroteIs
  <2>4. Named(n)
    BY <1>1, <2>1, <2>3 DEF Named
  <2>5. Stage(n, ours)
    BY <2>3 DEF Stage
  <2>6. Told(n, ours)
    BY <2>3, <2>4, <2>5 DEF Told
  <2>7. CASE b' = b
    BY <1>0, <1>1, <1>3, <2>6, <2>7, OnlyWrote
  <2>8. CASE b' \in TabsMove(b, t, w, i)
    <3>1. i \in Nat \ {0}
      BY <1>2, LastPlace
    <3>2. /\ WellFormed(b)' /\ TabsKept /\ PinsKept /\ ShowsKept /\ NothingHidden
          /\ \A x \in OpenTabs(b) \ {t} : Window(b', x) = Window(b, x)
          /\ Window(b', t) = w
      BY <1>1, <1>7, <2>1, <2>8, <3>1, MovedStep
    <3>3. WindowsKept
      BY <1>2, <3>2 DEF WindowsKept
    <3> QED
      BY <1>0, <1>3, <2>6, <3>2, <3>3 DEF BrowserSound, StripStep
  <2> QED
    BY <1>7, <2>7, <2>8
<1> QED
  BY <1>5, <1>6, <1>7

\* A tab comes to the front of its window, and its group opens.
LEMMA SelectedStep ==
    ASSUME WellFormed(b), NEW t \in OpenTabs(b),
           b' = [b EXCEPT !.shows[Window(b, t)] = t, !.shut = @ \ {b.group[t]}]
    PROVE  WellFormed(b)' /\ (op.active => StripStep)
<1>1. PICK w, S, B : w = Window(b, t) /\ S = b.shut \ {b.group[t]} /\ B = b'
  OBVIOUS
<1>2. w \in Windows /\ t \in ToSet(b.strip[w]) /\ b.shut \subseteq Groups /\ t # None
  BY <1>1, WellFormedIsReady, WindowIs, BrowserIs
<1>3. B = Selected(b, w, t, S)
  BY <1>1 DEF Selected
<1>4. S \subseteq Groups
  BY <1>1, <1>2
<1>5. /\ WellFormed(B) /\ B.strip = b.strip /\ B.group = b.group /\ B.pinned = b.pinned
      /\ B.shut = S /\ B.shows[w] = t /\ \A v \in Windows \ {w} : B.shows[v] = b.shows[v]
  BY <1>2, <1>3, <1>4, ShownIs
<1>6. TabsKept /\ WindowsKept /\ PinsKept
  BY <1>1, <1>5, TabsStay DEF PinsKept
<1>7. NoneShut(b, B)
  <2>1. SUFFICES ASSUME NEW v \in Windows, B.shows[v] # None, B.group[B.shows[v]] \in B.shut
                 PROVE  b.group[b.shows[v]] \in b.shut
    BY DEF NoneShut
  <2> QED
    BY <1>1, <1>5, <2>1
<1>8. op.active => ShowsKept
  BY DEF ShowsKept
<1>9. NothingHidden
  BY <1>1, <1>7, HiddenNone
<1> QED
  BY <1>1, <1>5, <1>6, <1>8, <1>9 DEF StripStep

LEMMA ActivateTabIs ==
    ASSUME BrowserSound, ActivateTab
    PROVE  BrowserSound' /\ StripStep
<1>0. op.pc = "activate" /\ ours' = ours
  BY DEF ActivateTab, At
<1>1. WellFormed(b) /\ Told(op, ours) /\ OpFields \subseteq DOMAIN op /\ op.active
  BY <1>0, WorkingTold DEF Stage
<1>2. PICK t, f : t = Head(op.ids) /\ f = [pc |-> "done"]
  OBVIOUS
<1>3. DOMAIN f = {"pc"} /\ f.pc = "done"
  BY <1>2
<1>4. \/ t \in OpenTabs(b) /\ b' = [b EXCEPT !.shows[Window(b, t)] = t, !.shut = @ \ {b.group[t]}] /\ Move(f)
      \/ b' = b /\ Move(Failed)
  BY <1>2 DEF ActivateTab
<1>5. CASE b' = b /\ Move(Failed)
  BY <1>0, <1>1, <1>5, MoveIs, FailedWrote, OnlyWrote
<1>6. CASE t \in OpenTabs(b) /\ b' = [b EXCEPT !.shows[Window(b, t)] = t, !.shut = @ \ {b.group[t]}] /\ Move(f)
  <2>1. WellFormed(b)' /\ StripStep
    BY <1>1, <1>6, SelectedStep
  <2>2. Wrote(op, op', f)
    BY <1>1, <1>6, MoveIs
  <2>3. Told(op', ours)
    BY <1>1, <1>3, <2>2, OnwardsFree
  <2> QED
    BY <1>0, <2>1, <2>3 DEF BrowserSound
<1> QED
  BY <1>4, <1>5, <1>6

(* The person moves, pins, closes and selects what is open: the browser stays well formed. *)
LEMMA PersonSteps ==
    ASSUME BrowserSound, \/ Drops \/ PicksUp \/ Drags
                       \/ \E t \in OpenTabs(b) : Pins(t) \/ Closes(t) \/ Selects(t) \/ TypesAddress(t)
    PROVE  BrowserSound' /\ op' = op
<1>0. WellFormed(b) /\ Ready(b)
  BY WellFormedIsReady DEF BrowserSound
<1>1. op' = op /\ ours' = ours
  BY DEF Drops, PicksUp, Drags, Pins, Closes, Selects, TypesAddress, Person
<1>2. SUFFICES WellFormed(b')
  BY <1>1 DEF BrowserSound
<1>3. CASE b' = b
  BY <1>0, <1>3
<1>4. ASSUME NEW t \in OpenTabs(b), NEW w \in Windows, NEW i \in {1, Cardinality(Tabs) + 1}, b' \in TabsMove(b, t, w, i)
      PROVE  WellFormed(b')
  <2>1. i \in Nat \ {0}
    BY LastPlace
  <2> QED
    BY <1>0, <1>4, <2>1, MovedStep
<1>5. CASE Drops
  BY <1>3, <1>4, <1>5 DEF Drops
<1>6. CASE PicksUp
  BY <1>3, <1>6 DEF PicksUp
<1>7. CASE Drags
  BY <1>4, <1>7 DEF Drags
<1>8. ASSUME NEW t \in OpenTabs(b), Pins(t)
      PROVE  WellFormed(b')
  <2>1. PICK w : w = Window(b, t)
    OBVIOUS
  <2>2. /\ t \notin b.pinned
        /\ b' \in Settled([b EXCEPT !.strip[w] = Spliced(Without(@, {t}), Cardinality(b.pinned \cap ToSet(@)), <<t>>),
                                    !.group[t] = None, !.pinned = @ \cup {t}])
    BY <1>8, <2>1 DEF Pins
  <2> QED
    BY <1>0, <2>1, <2>2, PinsIs
<1>9. ASSUME NEW t \in OpenTabs(b), Closes(t)
      PROVE  WellFormed(b')
  BY <1>0, <1>9, TabsRemoveIs DEF Closes
<1>10. ASSUME NEW t \in OpenTabs(b), Selects(t)
       PROVE  WellFormed(b')
  BY <1>0, <1>10, SelectedStep DEF Selects
<1>11. ASSUME NEW t \in OpenTabs(b), TypesAddress(t)
       PROVE  WellFormed(b')
  <2>1. PICK p \in Pages : b' = [b EXCEPT !.page[t] = p]
    BY <1>11 DEF TypesAddress
  <2>2. p \in Addressed /\ t \in Tabs
    BY <1>0, StripAssumption, BrowserIs
  <2> QED
    BY <1>0, <2>1, <2>2, TypedIs
<1> QED
  BY <1>5, <1>6, <1>7, <1>8, <1>9, <1>10, <1>11

LEMMA StripInitially == StripInit => BrowserSound
  BY StripAssumption DEF StripInit, BrowserSound

LEMMA StripSteps ==
    ASSUME BrowserSound, StripNext
    PROVE  BrowserSound' /\ ((Working /\ op' # op) => StripStep)
<1>1. ASSUME NEW r \in Requests, Begin(r)
      PROVE  BrowserSound' /\ ~Working
  BY <1>1, BeginIs
<1>2. CASE \/ GroupTabs \/ JoinGroup \/ PlanOrder \/ OrderTab \/ PutBack \/ Rejoin \/ UpdateGroup \/ CollapseSafely
           \/ MoveGroup \/ UngroupTabs \/ Loosen
  BY <1>2, GroupTabsIs, JoinGroupIs, PlanOrderIs, OrderTabIs, PutBackIs, RejoinIs, UpdateGroupIs, CollapseSafelyIs,
     MoveGroupIs, UngroupTabsIs, LoosenIs
<1>3. CASE \/ GatherGroup \/ NextGroup \/ MoveGroupTabsIn \/ JoinHost \/ FoldPlan \/ Fold
           \/ SortOneWindow \/ MoveUnitToEnd \/ LooseAgain \/ SortEnds
  BY <1>3, GatherGroupIs, NextGroupIs, MoveGroupTabsInIs, JoinHostIs, FoldPlanIs, FoldIs, SortOneWindowIs,
     MoveUnitToEndIs, LooseAgainIs, SortEndsIs
<1>4. CASE \/ OpenOrFocus \/ CreateTab \/ RememberOpened \/ KeeperIsThere \/ CloseDuplicate \/ ForgetOpened \/ MoveKeeper
           \/ ActivateTab \/ OpenTab \/ RemoveTab
  BY <1>4, OpenOrFocusIs, CreateTabIs, RememberOpenedIs, KeeperIsThereIs, CloseDuplicateIs, ForgetOpenedIs,
     MoveKeeperIs, ActivateTabIs, OpenTabIs, RemoveTabIs
<1>5. CASE \/ Working /\ (PicksUp \/ Drags \/ \E t \in OpenTabs(b) : Pins(t) \/ Closes(t) \/ Selects(t) \/ TypesAddress(t))
           \/ Drops
  BY <1>5, PersonSteps
<1> QED
  BY <1>1, <1>2, <1>3, <1>4, <1>5 DEF StripNext

\* Whatever the person does and however an operation is interrupted, the browser stays one that can
\* be (a tab in one place, a group together in one window, a window showing a tab of its own), and
\* an operation at work knows what its next step needs: the tabs it was told once each, a group it
\* may name, and duplicates that openOrFocus itself opened.  (tab-groups.js, ops.js)
THEOREM TheStripStaysSound == StripSpec => []BrowserSound
<1>1. BrowserSound /\ UNCHANGED stripVars => BrowserSound'
  BY DEF BrowserSound, stripVars, WellFormed
<1>2. BrowserSound /\ [StripNext]_stripVars => BrowserSound'
  BY <1>1, StripSteps
<1> QED
  BY <1>2, StripInitially, PTL DEF StripSpec

\* A step of an operation closes no tab but the one it was told to or one openOrFocus opened that
\* still shows the page; takes no tab to another window, but a gather a tab of the group it moves,
\* into the window it named, and a sort the loose tab whose turn it is, back into the window it had
\* listed it in; unpins nothing; and neither changes nor hides what a window shows, unless that tab
\* left or the caller asked for it.  (tab-groups.js, tab-ages.js moveUnitToEnd, ops.js openOrFocus)
THEOREM ThePersonKeepsTheStrip == StripSpec => TheStripIsThePersons
<1>1. BrowserSound /\ [StripNext]_stripVars =>
        [(Working /\ op' # op) => /\ TabsKept /\ WindowsKept /\ b.pinned \cap OpenTabs(b)' \subseteq b.pinned'
                                  /\ ShowsKept /\ NothingHidden]_stripVars
  BY StripSteps DEF StripStep, PinsKept
<1> QED
  BY <1>1, TheStripStaysSound, PTL DEF StripSpec, TheStripIsThePersons

(***************************************************************************)
(* What an operation leaves when nobody interferes.                        *)
(***************************************************************************)
LEMMA WroteMore ==
    ASSUME NEW o, NEW n, NEW f, Wrote(o, n, f)
    PROVE  /\ n.rest = IF "rest" \in DOMAIN f THEN f.rest ELSE o.rest
           /\ n.shut = IF "shut" \in DOMAIN f THEN f.shut ELSE o.shut
           /\ n.findOnly = IF "findOnly" \in DOMAIN f THEN f.findOnly ELSE o.findOnly
           /\ n.failed = IF "failed" \in DOMAIN f THEN f.failed ELSE o.failed
           /\ n.was = IF "was" \in DOMAIN f THEN f.was ELSE o.was
  BY DEF Wrote, OpFields

\* With no tab being dragged an edit is made or refused at once.
LEMMA EditNow ==
    ASSUME NEW ok, NEW Bs, NEW then, NEW instead, OpFields \subseteq DOMAIN op, ~dragging, Edit(ok, Bs, then, instead)
    PROVE  \/ ok /\ b' \in Bs /\ Wrote(op, op', then)
           \/ ~ok /\ b' = b /\ Wrote(op, op', instead)
<1>0. DOMAIN [tried |-> FALSE] = {"tried"}
  OBVIOUS
<1>1. ASSUME NEW f, Move(Overlaid(f, [tried |-> FALSE]))
      PROVE  Wrote(op, op', f)
  <2>1. PICK e : e = Overlaid(f, [tried |-> FALSE])
    OBVIOUS
  <2>2. DOMAIN e = DOMAIN f \cup {"tried"} /\ \A x \in DOMAIN f \ {"tried"} : e[x] = f[x]
    BY <1>0, <2>1, OverlaidIs
  <2>3. op' = Overlaid(op, e)
    BY <1>1, <2>1 DEF Move
  <2>4. OpFields \subseteq DOMAIN op' /\ \A x \in OpFields : op'[x] = IF x \in DOMAIN e THEN e[x] ELSE op[x]
    BY <2>3, OverlaidKeeps
  <2> QED
    BY <2>2, <2>4 DEF Wrote
<1>3. CASE ok
  BY <1>1, <1>3 DEF Edit
<1>4. CASE ~ok
  BY <1>1, <1>4 DEF Edit
<1> QED
  BY <1>3, <1>4

LEMMA StepsAt ==
  /\ (GroupTabs => op.pc = "group") /\ (JoinGroup => op.pc = "join") /\ (PlanOrder => op.pc = "plan")
  /\ (OrderTab => op.pc = "order") /\ (PutBack => op.pc = "order") /\ (Rejoin => op.pc = "rejoin")
  /\ (UpdateGroup => op.pc = "label") /\ (CollapseSafely => op.pc = "collapse") /\ (MoveGroup => op.pc = "move")
  /\ (UngroupTabs => op.pc = "ungroup") /\ (Loosen => op.pc = "loosen") /\ (GatherGroup => op.pc = "gather")
  /\ (NextGroup => op.pc = "gather next") /\ (MoveGroupTabsIn => op.pc = "move in") /\ (JoinHost => op.pc = "move in")
  /\ (FoldPlan => op.pc = "gather next") /\ (Fold => op.pc = "fold") /\ (SortOneWindow => op.pc = "sort")
  /\ (MoveUnitToEnd => op.pc = "sort next") /\ (LooseAgain => op.pc = "sort loose") /\ (SortEnds => op.pc = "sort next")
  /\ (OpenOrFocus => op.pc = "show") /\ (CreateTab => op.pc = "create") /\ (RememberOpened => op.pc = "remember")
  /\ (KeeperIsThere => op.pc = "check") /\ (CloseDuplicate => op.pc = "close dups")
  /\ (ForgetOpened => op.pc = "close dups") /\ (MoveKeeper => op.pc = "to the end")
  /\ (ActivateTab => op.pc = "activate") /\ (OpenTab => op.pc = "open") /\ (RemoveTab => op.pc = "close")
  /\ \A r : Begin(r) => op.pc = "idle"
  BY DEF At, GroupTabs, JoinGroup, PlanOrder, OrderTab, PutBack, Rejoin, UpdateGroup, CollapseSafely, MoveGroup, UngroupTabs,
         Loosen, GatherGroup, NextGroup, MoveGroupTabsIn, JoinHost, FoldPlan, Fold, SortOneWindow, MoveUnitToEnd, LooseAgain,
         SortEnds, OpenOrFocus, CreateTab, RememberOpened, KeeperIsThere, CloseDuplicate, ForgetOpened, MoveKeeper,
         ActivateTab, OpenTab, RemoveTab, Begin

\* A window's strip without some of its tabs still has its groups together.
LEMMA WholeWithout ==
    ASSUME NEW B, WellFormed(B), NEW S, NEW w \in Windows
    PROVE  Whole(B, Lifted(B, S)[w])
<1>1. Ready(B) /\ StandsTogether(B, B.strip[w])
  BY WellFormedIs
<1>2. B.strip[w] \in Seq(Tabs) /\ IsInjective(B.strip[w])
  BY <1>1, BrowserIs
<1>3. Whole(B, B.strip[w])
  BY <1>1, <1>2, WholeIs
<1>4. PICK l, s : l = Lifted(B, S)[w] /\ s = B.strip[w]
  OBVIOUS
<1>5. \A x, y : Before(l, x, y) <=> (Before(s, x, y) /\ x \notin S /\ y \notin S)
  BY <1>1, <1>4, LiftedIs
<1>6. Whole(B, l)
  <2>1. Whole(B, s)
    BY <1>3, <1>4
  <2> HIDE DEF Before, Kin
  <2> QED
    BY ONLY <1>5, <2>1 DEF Whole
<1> QED
  BY <1>4, <1>6

LEMMA OnceIsShort ==
    ASSUME NEW s \in Seq(Tabs), IsInjective(s)
    PROVE  Len(s) \in Nat /\ Len(s) <= Cardinality(Tabs)
<1>0. IsFiniteSet(Tabs)
  BY StripAssumption
<1>1. Len(s) \in Nat /\ s \in [1..Len(s) -> Tabs]
  OBVIOUS
<1>2. s \in Injection(1..Len(s), Tabs)
  BY <1>1 DEF Injection
<1>3. Cardinality(1..Len(s)) <= Cardinality(Tabs)
  BY <1>0, <1>2, FS_Injection
<1>4. Cardinality(1..Len(s)) = Len(s)
  BY <1>1, FS_Interval
<1> QED
  BY <1>1, <1>3, <1>4

LEMMA SplicedLast ==
    ASSUME NEW l \in Seq(Tabs), NEW t \in Tabs
    PROVE  Spliced(l, Len(l), <<t>>) = Append(l, t)
<1>1. Len(l) \in Nat /\ <<t>> \in Seq(Tabs)
  OBVIOUS
<1>2. SubSeq(l, 1, Len(l)) = l /\ SubSeq(l, Len(l) + 1, Len(l)) = <<>>
  BY <1>1
<1>3. (l \o <<t>>) \o <<>> = Append(l, t)
  BY <1>1
<1> QED
  BY <1>2, <1>3 DEF Spliced

\* A tab moved to the end of a window is its last, and everything else stands as it stood.
LEMMA MovedEnd ==
    ASSUME NEW B, WellFormed(B), NEW t \in OpenTabs(B), NEW w \in Windows, NEW i \in Nat, i > Len(Lifted(B, {t})[w]),
           NEW C \in TabsMove(B, t, w, i)
    PROVE  /\ Moved(B, C, t, w)
           /\ C.strip[w] = Append(Lifted(B, {t})[w], t)
           /\ \A v \in Windows \ {w} : C.strip[v] = Lifted(B, {t})[v]
           /\ \/ C.group[t] = None
              \/ Lifted(B, {t})[w] # <<>> /\ C.group[t] = B.group[Last(Lifted(B, {t})[w])]
<1>1. i \in Nat \ {0}
  <2>1. Len(Lifted(B, {t})[w]) \in Nat
    BY WellFormedIsReady, LiftedIs, Numbered
  <2> QED
    BY <2>1
<1>2. PICK R, g : Landed(B, R, t, w, i, g) /\ Ready(R) /\ C \in Settled(R)
  BY <1>1, TabsMoveLands
<1>3. Ready(B) /\ t \in Tabs
  BY WellFormedIsReady, BrowserIs
<1>4. PICK L, l : L = Lifted(B, {t}) /\ l = L[w]
  OBVIOUS
<1>5. /\ L \in [Windows -> Seq(Tabs)]
      /\ \A v \in Windows : L[v] \in Seq(Tabs) /\ IsInjective(L[v]) /\ ToSet(L[v]) = ToSet(B.strip[v]) \ {t}
  <2>1. PICK S : S = {t}
    OBVIOUS
  <2>2. Ready(B) /\ L = Lifted(B, S)
    BY <1>3, <1>4, <2>1
  <2>3. /\ L \in [Windows -> Seq(Tabs)]
        /\ \A v \in Windows : L[v] \in Seq(Tabs) /\ IsInjective(L[v]) /\ ToSet(L[v]) = ToSet(B.strip[v]) \ S
    BY ONLY <2>2, LiftedIs
  <2> QED
    BY <2>1, <2>3
<1>6. Len(l) \in Nat /\ Len(l) < i /\ l \in Seq(Tabs) /\ IsInjective(l) /\ t \notin ToSet(l)
  <2>1. l \in Seq(Tabs) /\ IsInjective(l) /\ t \notin ToSet(l)
    BY <1>4, <1>5
  <2>2. Len(l) \in Nat /\ Len(l) < i
    BY <1>4, <2>1, Numbered
  <2> QED
    BY <2>1, <2>2
<1>7. /\ R.strip = [L EXCEPT ![w] = Append(l, t)]
      /\ \A x \in Tabs \ {t} : R.group[x] = B.group[x]
      /\ R.group[t] = None \/ (l # <<>> /\ R.group[t] = B.group[l[Len(l)]])
  <2>1. i > Len(l)
    BY <1>6
  <2>2. Landed(B, R, t, w, i, g) /\ Lifted(B, {t})[w] = l
    BY <1>2, <1>4
  <2>3. /\ R.strip = [Lifted(B, {t}) EXCEPT ![w] = Spliced(l, Len(l), <<t>>)]
        /\ \A x \in Tabs \ {t} : R.group[x] = B.group[x]
        /\ R.group[t] = g
        /\ g = None \/ (l # <<>> /\ g = B.group[l[Len(l)]])
    BY <2>1, <2>2 DEF Landed
  <2> QED
    BY <1>3, <1>4, <1>6, <2>3, SplicedLast
<1>8. R.strip[w] = Append(l, t) /\ \A v \in Windows \ {w} : R.strip[v] = L[v]
  BY <1>5, <1>7
<1>9. \A v \in Windows : Whole(B, L[v])
  BY <1>4, WholeWithout
<1>10. \A v \in Windows : \A x \in ToSet(L[v]) : x \in Tabs \ {t}
  BY <1>5, Numbered
<1>11. C.strip[w] = Append(l, t)
  <2>1. \A x \in ToSet(l) : R.group[x] = B.group[x]
    BY <1>4, <1>7, <1>10
  <2>2. Whole(B, l)
    BY <1>4, <1>9
  <2>3. Whole(R, R.strip[w])
    <3>1. R.group[t] = None \/ (l # <<>> /\ R.group[t] = B.group[l[Len(l)]])
      BY <1>7
    <3>2. Whole(R, Append(l, t))
      BY ONLY <1>3, <1>6, <2>1, <2>2, <3>1, WholeAppended
    <3> QED
      BY <1>8, <3>2
  <2> QED
    BY <1>2, <1>8, <2>3, StripsStay
<1>12. ASSUME NEW v \in Windows \ {w} PROVE C.strip[v] = L[v]
  <2>1. PICK s : s = L[v]
    OBVIOUS
  <2>2. Whole(B, s) /\ \A x \in ToSet(s) : R.group[x] = B.group[x]
    BY <1>7, <1>9, <1>10, <2>1
  <2>3. Whole(R, s)
    <3>1. \A x, y : Before(s, x, y) => x \in ToSet(s) /\ y \in ToSet(s)
      BY BeforeIn
    <3>2. SUFFICES ASSUME NEW x, NEW y, NEW z, Before(s, x, y), Before(s, y, z), Kin(R, x, z)
                   PROVE  Kin(R, x, y)
      BY DEF Whole
    <3> HIDE DEF Before
    <3>3. x \in ToSet(s) /\ y \in ToSet(s) /\ z \in ToSet(s)
      BY <3>1, <3>2
    <3>4. Kin(B, x, z)
      BY <2>2, <3>2, <3>3 DEF Kin
    <3>5. Kin(B, x, y)
      BY <2>2, <3>2, <3>4 DEF Whole
    <3> QED
      BY <2>2, <3>3, <3>5 DEF Kin
  <2>4. Whole(R, R.strip[v])
    BY <1>8, <2>1, <2>3
  <2> QED
    BY <1>2, <1>8, <2>1, <2>4, StripsStay
<1>13. C.group[t] = R.group[t]
  <2>1. SettledFrom(R, C)
    BY <1>2, SettledIs
  <2> QED
    BY <2>1 DEF SettledFrom
<1>14. C.group[t] = None \/ (l # <<>> /\ C.group[t] = B.group[Last(l)])
  BY <1>6, <1>7, <1>13, LastIs
<1>15. Moved(B, C, t, w)
  BY <1>1, TabsMoveIs
<1> QED
  BY <1>4, <1>11, <1>12, <1>14, <1>15

LEMMA MovedLast ==
    ASSUME NEW B, WellFormed(B), NEW t \in OpenTabs(B), NEW w \in Windows, NEW i \in Nat, i > Cardinality(Tabs),
           NEW C \in TabsMove(B, t, w, i)
    PROVE  /\ Moved(B, C, t, w)
           /\ C.strip[w] = Append(Lifted(B, {t})[w], t)
           /\ \A v \in Windows \ {w} : C.strip[v] = Lifted(B, {t})[v]
           /\ \/ C.group[t] = None
              \/ Lifted(B, {t})[w] # <<>> /\ C.group[t] = B.group[Last(Lifted(B, {t})[w])]
<1>1. PICK l : l = Lifted(B, {t})[w]
  OBVIOUS
<1>2. l \in Seq(Tabs) /\ IsInjective(l)
  BY <1>1, WellFormedIsReady, LiftedIs
<1>3. i > Len(l)
  <2>1. Len(l) \in Nat /\ Len(l) <= Cardinality(Tabs) /\ Cardinality(Tabs) \in Nat
    BY <1>2, OnceIsShort, StripAssumption, FS_CardinalityType
  <2> QED
    BY <2>1
<1> QED
  BY <1>1, <1>3, MovedEnd

(* What an operation has established by each of its steps, if nobody interfered: how the browser b  *)
(* stands to the one it began with.  First openOrFocus.                                             *)
There(o) == {t \in OpenTabs(o.was) : o.was.page[t].path = o.page.path}
LastIn(B, t) == Last(B.strip[Window(B, t)]) = t

ShownAsked(o, B) ==
  /\ B.page[o.keep].path = o.page.path /\ (LastIn(B, o.keep) \/ o.keep \in B.pinned)
  /\ There(o) # {} => o.keep \in There(o) /\ OpenTabs(B) \subseteq OpenTabs(o.was)
  /\ o.findOnly => OpenTabs(B) = OpenTabs(o.was)

ShowKnown(o, B) ==
  /\ o.pc = "show" => B = o.was
  /\ o.pc = "check" => /\ B = o.was /\ o.keep \in There(o) /\ ToSet(o.todo) \subseteq There(o) \ {o.keep}
                       /\ o.findOnly => o.todo = <<>>
  /\ o.pc \in {"create", "remember"} => There(o) = {} /\ ~o.findOnly
  /\ o.pc = "remember" => B.page[o.keep].path = o.page.path /\ LastIn(B, o.keep)
  /\ o.pc \in {"close dups", "to the end"} =>
       /\ o.keep \in There(o) /\ o.keep \in OpenTabs(B) /\ B.page = o.was.page /\ OpenTabs(B) \subseteq OpenTabs(o.was)
       /\ o.findOnly => OpenTabs(B) = OpenTabs(o.was)
  /\ o.pc = "close dups" => o.keep \notin ToSet(o.todo) /\ (o.findOnly => o.todo = <<>>)
  /\ o.pc \in {"activate", "done"} => o.failed \/ ShownAsked(o, B)

ShowSteps == {"show", "check", "close dups", "to the end", "activate", "create", "remember", "done"}
ShowGoes(o, B) ==
  /\ o.kind = "show" /\ o.pc \in ShowSteps /\ (o.failed => o.pc = "done") /\ WellFormed(o.was) /\ ShowKnown(o, B)

\* What a step of openOrFocus leaves as the caller said it.
LEMMA ShowWrote ==
    ASSUME NEW o, NEW n, NEW f, Wrote(o, n, f), DOMAIN f \subseteq {"pc", "todo", "moved", "keep", "ids"}, o.kind = "show", ~o.failed
    PROVE  n.kind = "show" /\ ~n.failed /\ n.was = o.was /\ n.page = o.page /\ n.findOnly = o.findOnly /\ There(n) = There(o)
<1>1. n.kind = o.kind /\ n.page = o.page
  BY WroteIs
<1>2. n.failed = o.failed /\ n.was = o.was /\ n.findOnly = o.findOnly
  BY WroteMore
<1> QED
  BY <1>1, <1>2 DEF There

\* What has failed is over, and nothing is asked of it.
LEMMA ShowFailed ==
    ASSUME Wrote(op, op', Failed), op.kind = "show", WellFormed(op.was), NEW B
    PROVE  ShowGoes(op', B)
<1>1. PICK n, o, f : n = op' /\ o = op /\ f = Failed
  OBVIOUS
<1>2. f = [pc |-> "done", failed |-> TRUE]
  BY <1>1 DEF Failed
<1>3. DOMAIN f = {"pc", "failed"} /\ f.pc = "done" /\ f.failed
  BY <1>2
<1>4. n.pc = "done" /\ n.kind = "show"
  BY <1>1, <1>3, WroteIs
<1>5. n.failed /\ n.was = o.was
  BY <1>1, <1>3, WroteMore
<1> QED
  BY <1>1, <1>4, <1>5 DEF ShowGoes, ShowSteps, ShowKnown

LEMMA ShowStarts ==
    ASSUME BrowserSound, OpenOrFocus, ShowGoes(op, b)
    PROVE  ShowGoes(op', b')
<1>0. op.pc = "show" /\ b' = b /\ WellFormed(b) /\ Told(op, ours) /\ OpFields \subseteq DOMAIN op
  BY StepsAt, WorkingTold DEF OpenOrFocus
<1>1. b = op.was /\ ~op.failed /\ op.kind = "show" /\ WellFormed(op.was)
  BY <1>0 DEF ShowGoes, ShowKnown
<1>2. PICK opened : opened \subseteq OpenTabs(b) /\ (op.findOnly => opened = {}) /\ opened = IF op.findOnly THEN {} ELSE ReadOpenedLedger
  BY DEF ReadOpenedLedger
<1>3. PICK plan : plan = PlanOpenOrFocus(b, op.page, op.w, opened)
  OBVIOUS
<1>4. There(op) \subseteq OpenTabs(b) /\ OpenTabs(b) \subseteq Tabs /\ None \notin Tabs /\ Tabs \subseteq Nat
  <2>1. OpenTabs(b) \subseteq Tabs /\ None \notin Tabs
    BY <1>0, WellFormedIsReady, BrowserIs
  <2> QED
    BY <1>1, <2>1, StripAssumption DEF There
<1>5. /\ There(op) = {} => plan.keeper = None
      /\ There(op) # {} => plan.keeper \in There(op) /\ plan.close \subseteq There(op) \ {plan.keeper} /\ (op.findOnly => plan.close = {})
  <2>1. PICK M : M = There(op)
    OBVIOUS
  <2>2. M = {t \in OpenTabs(b) : b.page[t].path = op.page.path}
    BY <1>1, <2>1 DEF There
  <2>3. PICK E : E = {t \in M : b.page[t] = op.page}
    OBVIOUS
  <2>4. PICK K : K = PickKeeper(b, IF E # {} THEN E ELSE M, op.w)
    OBVIOUS
  <2>5. plan = IF M = {} THEN [keeper |-> None, close |-> {}] ELSE [keeper |-> K, close |-> (M \cap opened) \ {K}]
    BY <1>3, <2>2, <2>3, <2>4 DEF PlanOpenOrFocus
  <2>6. ASSUME M # {} PROVE K \in M
    <3>1. PICK P : P = IF E # {} THEN E ELSE M
      OBVIOUS
    <3>2. P # {} /\ P \subseteq M /\ M \subseteq Nat
      BY <1>4, <2>1, <2>3, <2>6, <3>1
    <3>3. \E Q : Q # {} /\ Q \subseteq P /\ K = Min(Q)
      <4>1. PICK here : here = {t \in P : Window(b, t) = op.w}
        OBVIOUS
      <4>2. PICK pool : pool = IF here # {} THEN here ELSE P
        OBVIOUS
      <4>3. PICK act : act = {t \in pool : b.shows[Window(b, t)] = t}
        OBVIOUS
      <4>4. K = Min(IF act # {} THEN act ELSE pool)
        BY <2>4, <3>1, <4>1, <4>2, <4>3 DEF PickKeeper
      <4>5. pool # {} /\ pool \subseteq P /\ act \subseteq P
        BY <3>2, <4>1, <4>2, <4>3
      <4> QED
        BY <4>4, <4>5
    <3>4. PICK Q : Q # {} /\ Q \subseteq P /\ K = Min(Q)
      BY <3>3
    <3> QED
      BY <3>2, <3>4, LeastOf
  <2> QED
    BY <1>2, <2>1, <2>5, <2>6
<1>6. PICK todo : todo = SetToSeq(plan.close)
  OBVIOUS
<1>7. There(op) # {} => ToSet(todo) \subseteq plan.close /\ (op.findOnly => todo = <<>>)
  <2>1. SUFFICES ASSUME There(op) # {} PROVE ToSet(todo) \subseteq plan.close /\ (op.findOnly => todo = <<>>)
    OBVIOUS
  <2>2. IsFiniteSet(plan.close)
    <3>1. plan.close \subseteq Tabs /\ IsFiniteSet(Tabs)
      BY <1>4, <1>5, <2>1, StripAssumption
    <3> QED
      BY <3>1, FS_Subset
  <2>3. Cardinality(plan.close) \in Nat /\ todo \in [1..Cardinality(plan.close) -> plan.close]
    BY <1>6, <2>2, Listed
  <2>4. todo \in Seq(plan.close) /\ Len(todo) = Cardinality(plan.close)
    BY <2>3
  <2>5. ToSet(todo) \subseteq plan.close
    BY <2>4, Numbered
  <2>6. ASSUME op.findOnly PROVE todo = <<>>
    <3>1. Len(todo) = 0
      BY <1>5, <2>1, <2>4, <2>6, FS_EmptySet
    <3> QED
      BY <2>4, <3>1
  <2> QED
    BY <2>5, <2>6
<1>8. PICK f, e, n : f = [pc |-> "check", keep |-> plan.keeper, todo |-> todo] /\ e = [pc |-> "create"] /\ n = op'
  OBVIOUS
<1>9. /\ DOMAIN f = {"pc", "keep", "todo"} /\ f.pc = "check" /\ f.todo = todo /\ f.keep = plan.keeper
      /\ DOMAIN e = {"pc"} /\ e.pc = "create"
  BY <1>8
<1>10. Move(IF plan.keeper # None THEN f ELSE IF op.findOnly THEN Failed ELSE e)
  BY <1>2, <1>3, <1>6, <1>8 DEF OpenOrFocus
<1>11. CASE plan.keeper # None
  <2>1. Wrote(op, n, f)
    BY <1>0, <1>8, <1>10, <1>11, MoveIs
  <2>2. There(op) # {}
    BY <1>5, <1>11
  <2>3. n.pc = "check" /\ n.keep = plan.keeper /\ n.todo = todo
    BY <1>9, <2>1, WroteIs
  <2>4. n.kind = "show" /\ ~n.failed /\ n.was = op.was /\ n.findOnly = op.findOnly /\ There(n) = There(op)
    BY <1>1, <1>9, <2>1, ShowWrote
  <2> QED
    BY <1>0, <1>1, <1>5, <1>7, <1>8, <2>2, <2>3, <2>4 DEF ShowGoes, ShowSteps, ShowKnown
<1>12. CASE plan.keeper = None /\ op.findOnly
  BY <1>0, <1>1, <1>10, <1>12, MoveIs, ShowFailed
<1>13. CASE plan.keeper = None /\ ~op.findOnly
  <2>1. Wrote(op, n, e)
    BY <1>0, <1>8, <1>10, <1>13, MoveIs
  <2>2. There(op) = {}
    BY <1>4, <1>5, <1>13
  <2>3. n.pc = "create"
    BY <1>9, <2>1, WroteIs
  <2>4. n.kind = "show" /\ ~n.failed /\ n.was = op.was /\ n.findOnly = op.findOnly /\ There(n) = There(op)
    BY <1>1, <1>9, <2>1, ShowWrote
  <2> QED
    BY <1>1, <1>8, <1>13, <2>2, <2>3, <2>4 DEF ShowGoes, ShowSteps, ShowKnown
<1> QED
  BY <1>11, <1>12, <1>13

LEMMA SameTabs ==
    ASSUME NEW B, NEW C, \A w \in Windows : ToSet(C.strip[w]) = ToSet(B.strip[w])
    PROVE  OpenTabs(C) = OpenTabs(B)
  BY OpenIs DEF OpenTabs

(* Past the last place of any strip.                                       *)
LEMMA PastLast == Cardinality(Tabs) \in Nat /\ Cardinality(Tabs) + 1 \in Nat /\ Cardinality(Tabs) + 1 > Cardinality(Tabs)
<1>1. Cardinality(Tabs) \in Nat
  BY StripAssumption, FS_CardinalityType
<1> QED
  BY <1>1

LEMMA ShowChecks ==
    ASSUME BrowserSound, KeeperIsThere, ShowGoes(op, b)
    PROVE  ShowGoes(op', b')
<1>0. op.pc = "check" /\ b' = b /\ OpFields \subseteq DOMAIN op
  BY StepsAt, WorkingTold DEF KeeperIsThere
<1>1. /\ b = op.was /\ ~op.failed /\ op.kind = "show" /\ WellFormed(op.was) /\ op.keep \in There(op)
      /\ ToSet(op.todo) \subseteq There(op) \ {op.keep} /\ (op.findOnly => op.todo = <<>>)
  BY <1>0 DEF ShowGoes, ShowKnown
<1>2. PICK f, n : f = [pc |-> "close dups"] /\ n = op'
  OBVIOUS
<1>3. DOMAIN f = {"pc"} /\ f.pc = "close dups"
  BY <1>2
<1>4. op.keep \in OpenTabs(b)
  BY <1>1 DEF There
<1>5. Wrote(op, n, f)
  BY <1>0, <1>2, <1>4, MoveIs DEF KeeperIsThere
<1>6. n.pc = "close dups" /\ n.keep = op.keep /\ n.todo = op.todo
  BY <1>3, <1>5, WroteIs
<1>7. n.kind = "show" /\ ~n.failed /\ n.was = op.was /\ n.findOnly = op.findOnly /\ There(n) = There(op)
  BY <1>1, <1>3, <1>5, ShowWrote
<1> QED
  BY <1>0, <1>1, <1>2, <1>4, <1>6, <1>7 DEF ShowGoes, ShowSteps, ShowKnown

LEMMA ShowCreates ==
    ASSUME BrowserSound, CreateTab, ShowGoes(op, b)
    PROVE  ShowGoes(op', b')
<1>0. op.pc = "create" /\ WellFormed(b) /\ OpFields \subseteq DOMAIN op /\ Named(op)
  BY StepsAt, WorkingTold
<1>1. ~op.failed /\ op.kind = "show" /\ WellFormed(op.was) /\ There(op) = {} /\ ~op.findOnly
  BY <1>0 DEF ShowGoes, ShowKnown
<1>2. PICK t : t = Min(Unborn)
  OBVIOUS
<1>3. t \in Tabs /\ t \notin OpenTabs(b)
  BY <1>0, <1>2, UnbornIs DEF CreateTab
<1>4. b' \in TabsCreate(b, t, op.w, op.page, op.active) /\ Move([pc |-> "remember", keep |-> t])
  BY <1>2 DEF CreateTab
<1>5. op.w \in Windows /\ op.page \in Addressed
  BY <1>0 DEF Named
<1>6. NewTab(b, b', t, op.w, op.page, op.active)
  BY <1>0, <1>3, <1>4, <1>5, TabsCreateIs
<1>7. b'.page[t] = op.page /\ LastIn(b', t)
  <2>1. Ready(b) /\ Ready(b')
    BY <1>0, <1>6, WellFormedIsReady DEF NewTab
  <2>2. t \in ToSet(b'.strip[op.w]) /\ b'.strip[op.w] = Append(b.strip[op.w], t) /\ b'.page[t] = op.page
    BY <1>5, <1>6 DEF NewTab
  <2>3. Window(b', t) = op.w
    BY <1>5, <2>1, <2>2, WindowIs
  <2>4. b.strip[op.w] \in Seq(Tabs)
    BY <1>5, <2>1, BrowserIs
  <2>5. Last(Append(b.strip[op.w], t)) = t
    BY <1>3, <2>4, LastIs
  <2> QED
    BY <2>2, <2>3, <2>5 DEF LastIn
<1>8. PICK f, n : f = [pc |-> "remember", keep |-> t] /\ n = op'
  OBVIOUS
<1>9. DOMAIN f = {"pc", "keep"} /\ f.pc = "remember" /\ f.keep = t
  BY <1>8
<1>10. Wrote(op, n, f)
  BY <1>0, <1>4, <1>8, MoveIs
<1>11. n.pc = "remember" /\ n.keep = t
  BY <1>9, <1>10, WroteIs
<1>12. n.kind = "show" /\ ~n.failed /\ n.was = op.was /\ n.page = op.page /\ n.findOnly = op.findOnly /\ There(n) = There(op)
  BY <1>1, <1>9, <1>10, ShowWrote
<1> QED
  BY <1>1, <1>7, <1>8, <1>11, <1>12 DEF ShowGoes, ShowSteps, ShowKnown

LEMMA ShowRemembers ==
    ASSUME BrowserSound, RememberOpened, ShowGoes(op, b)
    PROVE  ShowGoes(op', b')
<1>0. op.pc = "remember" /\ b' = b /\ OpFields \subseteq DOMAIN op
  BY StepsAt, WorkingTold DEF RememberOpened
<1>1. /\ ~op.failed /\ op.kind = "show" /\ WellFormed(op.was) /\ There(op) = {} /\ ~op.findOnly
      /\ b.page[op.keep].path = op.page.path /\ LastIn(b, op.keep)
  BY <1>0 DEF ShowGoes, ShowKnown
<1>2. PICK f, n : f = [pc |-> "done"] /\ n = op'
  OBVIOUS
<1>3. DOMAIN f = {"pc"} /\ f.pc = "done"
  BY <1>2
<1>5. Wrote(op, n, f)
  BY <1>0, <1>2, MoveIs DEF RememberOpened
<1>6. n.pc = "done" /\ n.keep = op.keep
  BY <1>3, <1>5, WroteIs
<1>7. n.kind = "show" /\ ~n.failed /\ n.was = op.was /\ n.page = op.page /\ n.findOnly = op.findOnly /\ There(n) = There(op)
  BY <1>1, <1>3, <1>5, ShowWrote
<1>8. ShownAsked(n, b)
  BY <1>1, <1>6, <1>7 DEF ShownAsked
<1> QED
  BY <1>0, <1>1, <1>2, <1>6, <1>7, <1>8 DEF ShowGoes, ShowSteps, ShowKnown

LEMMA ShowCloses ==
    ASSUME BrowserSound, CloseDuplicate, ShowGoes(op, b)
    PROVE  ShowGoes(op', b')
<1>0. op.pc = "close dups" /\ op.todo # <<>> /\ WellFormed(b) /\ OpFields \subseteq DOMAIN op /\ Stage(op, ours)
  BY StepsAt, WorkingTold DEF CloseDuplicate
<1>1. /\ ~op.failed /\ op.kind = "show" /\ WellFormed(op.was) /\ op.keep \in There(op) /\ op.keep \in OpenTabs(b)
      /\ b.page = op.was.page /\ OpenTabs(b) \subseteq OpenTabs(op.was) /\ op.keep \notin ToSet(op.todo) /\ ~op.findOnly
  BY <1>0 DEF ShowGoes, ShowKnown
<1>2. PICK t : t = Head(op.todo)
  OBVIOUS
<1>3. op.todo \in Seq(Tabs)
  BY <1>0 DEF Stage
<1>4. t \in ToSet(op.todo) /\ ToSet(Tail(op.todo)) \subseteq ToSet(op.todo)
  BY <1>0, <1>2, <1>3, TailIs
<1>5. PICK f, e, n : f = [todo |-> Tail(op.todo), moved |-> Append(op.moved, t)] /\ e = [todo |-> Tail(op.todo)] /\ n = op'
  OBVIOUS
<1>6. DOMAIN f = {"todo", "moved"} /\ f.todo = Tail(op.todo) /\ DOMAIN e = {"todo"} /\ e.todo = Tail(op.todo)
  BY <1>5
<1>7. \/ StillShows(t) /\ b' \in TabsRemove(b, t) /\ Wrote(op, n, f)
      \/ b' = b /\ Wrote(op, n, e)
  BY <1>0, <1>2, <1>5, MoveIs DEF CloseDuplicate
<1>8. n.pc = "close dups" /\ n.keep = op.keep /\ n.todo = Tail(op.todo)
  <2>1. CASE Wrote(op, n, f)
    BY <1>0, <1>6, <2>1, WroteIs, ZenonT(60)
  <2>2. CASE Wrote(op, n, e)
    <3>1. DOMAIN e = {"todo"} /\ e.todo = Tail(op.todo) /\ op.pc = "close dups"
      BY <1>0, <1>6
    <3>2. PICK o : o = op
      OBVIOUS
    <3>3. DOMAIN e = {"todo"} /\ Wrote(o, n, e)
      BY <2>2, <3>1, <3>2
    <3>4. n.pc = o.pc /\ n.keep = o.keep /\ n.todo = e.todo
      BY ONLY <3>3, WroteIs
    <3> QED
      BY <3>1, <3>2, <3>4
  <2> QED
    BY <1>7, <2>1, <2>2
<1>9. n.kind = "show" /\ ~n.failed /\ n.was = op.was /\ n.findOnly = op.findOnly /\ There(n) = There(op)
  BY <1>1, <1>6, <1>7, ShowWrote
<1>10. b'.page = b.page /\ OpenTabs(b') \subseteq OpenTabs(b) /\ op.keep \in OpenTabs(b')
  <2>1. CASE StillShows(t) /\ b' \in TabsRemove(b, t)
    <3>1. t \in OpenTabs(b)
      BY <2>1 DEF StillShows
    <3>2. b'.page = b.page /\ \A w \in Windows : ToSet(b'.strip[w]) = ToSet(b.strip[w]) \ {t}
      <4>1. PICK B, C : B = b /\ C = b'
        OBVIOUS
      <4>2. WellFormed(B) /\ t \in OpenTabs(B) /\ C \in TabsRemove(B, t)
        BY <1>0, <2>1, <3>1, <4>1
      <4>3. C.page = B.page /\ \A w \in Windows : ToSet(C.strip[w]) = ToSet(B.strip[w]) \ {t}
        BY ONLY <4>2, TabsRemoveIs
      <4> QED
        BY <4>1, <4>3
    <3>3. \A x : x \in OpenTabs(b') <=> x \in OpenTabs(b) /\ x # t
      BY <3>2, OpenIs
    <3> QED
      BY <1>1, <1>4, <3>2, <3>3
  <2>2. CASE b' = b
    BY <1>1, <2>2
  <2> QED
    BY <1>7, <2>1, <2>2
<1> QED
  BY <1>1, <1>4, <1>5, <1>8, <1>9, <1>10 DEF ShowGoes, ShowSteps, ShowKnown

LEMMA ShowForgets ==
    ASSUME BrowserSound, ForgetOpened, ShowGoes(op, b)
    PROVE  ShowGoes(op', b')
<1>0. op.pc = "close dups" /\ b' = b /\ OpFields \subseteq DOMAIN op
  BY StepsAt, WorkingTold DEF ForgetOpened
<1>1. /\ ~op.failed /\ op.kind = "show" /\ WellFormed(op.was) /\ op.keep \in There(op) /\ op.keep \in OpenTabs(b)
      /\ b.page = op.was.page /\ OpenTabs(b) \subseteq OpenTabs(op.was) /\ (op.findOnly => OpenTabs(b) = OpenTabs(op.was))
  BY <1>0 DEF ShowGoes, ShowKnown
<1>2. PICK f, n : f = [pc |-> "to the end"] /\ n = op'
  OBVIOUS
<1>3. DOMAIN f = {"pc"} /\ f.pc = "to the end"
  BY <1>2
<1>5. Wrote(op, n, f)
  BY <1>0, <1>2, MoveIs DEF ForgetOpened
<1>6. n.pc = "to the end" /\ n.keep = op.keep
  BY <1>3, <1>5, WroteIs
<1>7. n.kind = "show" /\ ~n.failed /\ n.was = op.was /\ n.findOnly = op.findOnly /\ There(n) = There(op)
  BY <1>1, <1>3, <1>5, ShowWrote
<1> QED
  BY <1>0, <1>1, <1>2, <1>6, <1>7 DEF ShowGoes, ShowSteps, ShowKnown

LEMMA ShowMoves ==
    ASSUME BrowserSound, MoveKeeper, ShowGoes(op, b), ~dragging
    PROVE  ShowGoes(op', b')
<1>0. op.pc = "to the end" /\ WellFormed(b) /\ OpFields \subseteq DOMAIN op
  BY StepsAt, WorkingTold
<1>1. /\ ~op.failed /\ op.kind = "show" /\ WellFormed(op.was) /\ op.keep \in There(op) /\ op.keep \in OpenTabs(b)
      /\ b.page = op.was.page /\ OpenTabs(b) \subseteq OpenTabs(op.was) /\ (op.findOnly => OpenTabs(b) = OpenTabs(op.was))
  BY <1>0 DEF ShowGoes, ShowKnown
<1>2. PICK t : t = op.keep
  OBVIOUS
<1>3. PICK f, n : f = [pc |-> IF op.active THEN "activate" ELSE "done", ids |-> <<t>>] /\ n = op'
  OBVIOUS
<1>4. DOMAIN f = {"pc", "ids"} /\ f.pc \in {"activate", "done"}
  BY <1>3
<1>5. /\ b' \in IF t \in b.pinned THEN {b} ELSE TabsMove(b, t, Window(b, t), Cardinality(Tabs) + 1)
      /\ Move(f)
  BY <1>1, <1>2, <1>3 DEF MoveKeeper
<1>6. Wrote(op, n, f)
  BY <1>0, <1>3, <1>5, MoveIs
<1>7. n.pc \in {"activate", "done"} /\ n.keep = t
  BY <1>2, <1>4, <1>6, WroteIs
<1>8. n.kind = "show" /\ ~n.failed /\ n.was = op.was /\ n.page = op.page /\ n.findOnly = op.findOnly /\ There(n) = There(op)
  BY <1>1, <1>4, <1>6, ShowWrote
<1>9. b'.page = b.page /\ OpenTabs(b') = OpenTabs(b) /\ (LastIn(b', t) \/ t \in b'.pinned)
  <2>1. CASE t \in b.pinned
    BY <1>5, <2>1
  <2>2. CASE t \notin b.pinned
    <3>1. PICK w : w = Window(b, t)
      OBVIOUS
    <3>2. Ready(b) /\ w \in Windows /\ t \in ToSet(b.strip[w]) /\ t \in OpenTabs(b) /\ t \in Tabs
      BY <1>0, <1>1, <1>2, <3>1, WellFormedIsReady, WindowIs, BrowserIs
    <3>3. PICK i : i = Cardinality(Tabs) + 1 /\ i \in Nat /\ i > Cardinality(Tabs)
      BY PastLast
    <3>4. b' \in TabsMove(b, t, w, i)
      BY <1>5, <2>2, <3>1, <3>3
    <3>5. Moved(b, b', t, w) /\ b'.strip[w] = Append(Lifted(b, {t})[w], t)
      <4>1. PICK B, C : B = b /\ C = b'
        OBVIOUS
      <4>2. WellFormed(B) /\ t \in OpenTabs(B) /\ w \in Windows /\ i \in Nat /\ i > Cardinality(Tabs) /\ C \in TabsMove(B, t, w, i)
        BY <1>0, <3>2, <3>3, <3>4, <4>1
      <4>3. Moved(B, C, t, w) /\ C.strip[w] = Append(Lifted(B, {t})[w], t)
        BY ONLY <4>2, MovedLast
      <4> QED
        BY <4>1, <4>3
    <3>6. Ready(b') /\ b'.page = b.page /\ \A v \in Windows : ToSet(b'.strip[v]) = IF v = w THEN ToSet(b.strip[v]) \cup {t} ELSE ToSet(b.strip[v]) \ {t}
      BY <3>5, WellFormedIsReady DEF Moved
    <3>7. t \in ToSet(b'.strip[w])
      BY <3>2, <3>6
    <3>8. Window(b', t) = w
      BY <3>2, <3>6, <3>7, WindowIs
    <3>9. Last(b'.strip[w]) = t
      <4>1. PICK L, S : S = {t} /\ L = Lifted(b, S)
        OBVIOUS
      <4>2. L[w] \in Seq(Tabs)
        BY <3>2, <4>1, LiftedIs
      <4> QED
        BY <3>2, <3>5, <4>1, <4>2, LastIs
    <3>10. OpenTabs(b') = OpenTabs(b)
      <4>1. \A x : x \in OpenTabs(b') <=> x \in OpenTabs(b)
        <5>1. \A x : x \in OpenTabs(b) => \E v \in Windows : x \in ToSet(b'.strip[v])
          BY <3>2, <3>6, OpenIs
        <5>2. \A x : (\E v \in Windows : x \in ToSet(b'.strip[v])) => x \in OpenTabs(b)
          BY <3>2, <3>6, OpenIs
        <5> QED
          BY <5>1, <5>2, OpenIs
      <4> QED
        BY <4>1
    <3> QED
      BY <3>6, <3>8, <3>9, <3>10 DEF LastIn
  <2> QED
    BY <2>1, <2>2
<1>10. b.page[op.keep].path = op.page.path
  BY <1>1 DEF There
<1>11. ShownAsked(n, b')
  BY <1>1, <1>2, <1>7, <1>8, <1>9, <1>10 DEF ShownAsked
<1> QED
  BY <1>1, <1>3, <1>7, <1>8, <1>11 DEF ShowGoes, ShowSteps, ShowKnown

LEMMA ShowActivates ==
    ASSUME BrowserSound, ActivateTab, ShowGoes(op, b)
    PROVE  ShowGoes(op', b')
<1>0. op.pc = "activate" /\ OpFields \subseteq DOMAIN op
  BY StepsAt, WorkingTold
<1>1. ~op.failed /\ op.kind = "show" /\ WellFormed(op.was) /\ ShownAsked(op, b)
  BY <1>0 DEF ShowGoes, ShowKnown
<1>2. PICK f, n, t : f = [pc |-> "done"] /\ n = op' /\ t = Head(op.ids)
  OBVIOUS
<1>3. DOMAIN f = {"pc"} /\ f.pc = "done"
  BY <1>2
<1>4. \/ b' = [b EXCEPT !.shows[Window(b, t)] = t, !.shut = @ \ {b.group[t]}] /\ Wrote(op, n, f)
      \/ b' = b /\ Wrote(op, op', Failed)
  BY <1>0, <1>2, MoveIs DEF ActivateTab
<1>5. CASE b' = [b EXCEPT !.shows[Window(b, t)] = t, !.shut = @ \ {b.group[t]}] /\ Wrote(op, n, f)
  <2>1. n.pc = "done" /\ n.keep = op.keep
    BY <1>3, <1>5, WroteIs
  <2>2. n.kind = "show" /\ ~n.failed /\ n.was = op.was /\ n.page = op.page /\ n.findOnly = op.findOnly /\ There(n) = There(op)
    BY <1>1, <1>3, <1>5, ShowWrote
  <2>3. b'.strip = b.strip /\ b'.page = b.page /\ b'.pinned = b.pinned
    BY <1>5
  <2>4. OpenTabs(b') = OpenTabs(b) /\ (LastIn(b', op.keep) <=> LastIn(b, op.keep))
    BY <2>3 DEF OpenTabs, LastIn, Window
  <2>5. ShownAsked(n, b')
    BY <1>1, <2>1, <2>2, <2>3, <2>4 DEF ShownAsked
  <2> QED
    BY <1>1, <1>2, <2>1, <2>2, <2>5 DEF ShowGoes, ShowSteps, ShowKnown
<1>6. CASE b' = b /\ Wrote(op, op', Failed)
  BY <1>1, <1>6, ShowFailed
<1> QED
  BY <1>4, <1>5, <1>6

(***************************************************************************)
(* Sorting a window by age.                                                *)
(***************************************************************************)
LEMMA GreatestOf ==
    ASSUME NEW N \in Nat, NEW S, S \subseteq 0..N, S # {}
    PROVE  Max(S) \in S /\ \A x \in S : Max(S) >= x
<1>1. PICK R : R = {N - x : x \in S}
  OBVIOUS
<1>2. \A x \in S : x \in Nat /\ x <= N
  OBVIOUS
<1>3. R \subseteq Nat /\ R # {}
  <2>1. \A x \in S : N - x \in Nat
    BY <1>2
  <2> QED
    BY <1>1, <2>1
<1>4. Min(R) \in R /\ \A y \in R : Min(R) <= y
  BY <1>3, LeastOf
<1>5. PICK x \in S : Min(R) = N - x
  BY <1>1, <1>4
<1>6. \A y \in S : N - x <= N - y
  BY <1>1, <1>4, <1>5
<1>7. \A y \in S : x >= y
  BY <1>2, <1>6
<1> QED
  BY <1>7 DEF Max

\* Finitely many things of different ages can be put in order of age.
LEMMA Ranked ==
    ASSUME NEW us, IsFiniteSet(us), NEW a \in [us -> Nat], \A u, v \in us : a[u] = a[v] => u = v
    PROVE  \E s \in [1..Cardinality(us) -> us] : \A i, j \in 1..Cardinality(us) : i < j => a[s[i]] < a[s[j]]
<1>1. PICK n : n = Cardinality(us) /\ n \in Nat
  BY FS_CardinalityType
<1>2. PICK low : low = [u \in us |-> {v \in us : a[v] <= a[u]}]
  OBVIOUS
<1>3. \A u \in us : low[u] \in SUBSET us /\ u \in low[u]
  BY <1>2
<1>4. PICK rank : rank = [u \in us |-> Cardinality(low[u])]
  OBVIOUS
<1>5. \A u \in us : IsFiniteSet(low[u]) /\ rank[u] \in 1..n
  <2>1. TAKE u \in us
  <2>2. IsFiniteSet(low[u]) /\ Cardinality(low[u]) <= n
    BY <1>1, <1>3, FS_Subset
  <2>3. Cardinality(low[u]) \in Nat /\ Cardinality(low[u]) # 0
    BY <1>3, <2>2, FS_CardinalityType, FS_EmptySet
  <2> QED
    BY <1>1, <1>4, <2>2, <2>3
<1>6. ASSUME NEW u \in us, NEW v \in us, a[u] < a[v] PROVE rank[u] < rank[v]
  <2>1. low[u] \in SUBSET low[v] /\ v \notin low[u] /\ v \in low[v]
    BY <1>2, <1>6
  <2>2. Cardinality(low[u]) <= Cardinality(low[v]) /\ Cardinality(low[v]) # Cardinality(low[u])
    BY <1>5, <2>1, FS_Subset
  <2> QED
    BY <1>1, <1>4, <1>5, <2>2
<1>7. \A u, v \in us : rank[u] = rank[v] => u = v
  <2>1. \A u, v \in us : a[u] = a[v] \/ a[u] < a[v] \/ a[v] < a[u]
    OBVIOUS
  <2>2. \A u, v \in us : rank[u] = rank[v] => ~(rank[u] < rank[v]) /\ ~(rank[v] < rank[u])
    BY <1>1, <1>5
  <2> QED
    BY <1>6, <2>1, <2>2
<1>8. rank \in Injection(us, 1..n)
  BY <1>4, <1>5, <1>7 DEF Injection, IsInjective
<1>9. IsFiniteSet(1..n) /\ Cardinality(1..n) = n
  BY <1>1, FS_Interval
<1>10. rank \in Surjection(us, 1..n)
  BY <1>1, <1>8, <1>9, FS_Injection
<1>11. \A k \in 1..n : \E u \in us : rank[u] = k
  BY <1>10 DEF Surjection
<1>12. PICK s : s = [k \in 1..n |-> CHOOSE u \in us : rank[u] = k]
  OBVIOUS
<1>13. s \in [1..n -> us] /\ \A k \in 1..n : rank[s[k]] = k
  BY <1>11, <1>12
<1>14. ASSUME NEW i \in 1..n, NEW j \in 1..n, i < j PROVE a[s[i]] < a[s[j]]
  <2>1. s[i] \in us /\ s[j] \in us /\ rank[s[i]] = i /\ rank[s[j]] = j
    BY <1>13
  <2>2. a[s[i]] # a[s[j]] /\ ~(a[s[j]] < a[s[i]])
    BY <1>1, <1>6, <1>14, <2>1
  <2>3. a[s[i]] \in Nat /\ a[s[j]] \in Nat
    BY <2>1
  <2> QED
    BY <2>2, <2>3
<1> QED
  BY <1>1, <1>13, <1>14

\* A unit of a strip: all the kin of one of its tabs, in the order they stand in.
UnitIn(B, s, u) ==
  /\ u \in Seq(Tabs) /\ \E x \in ToSet(s) : ToSet(u) = {y \in ToSet(s) : Kin(B, x, y)}
  /\ \A x, y : Before(u, x, y) <=> (Before(s, x, y) /\ x \in ToSet(u) /\ y \in ToSet(u))

LEMMA UnitIsOnce ==
    ASSUME NEW B, NEW s \in Seq(Tabs), IsInjective(s), NEW u, UnitIn(B, s, u)
    PROVE  /\ u \in Seq(Tabs) /\ IsInjective(u) /\ ToSet(u) \subseteq ToSet(s) /\ ToSet(u) # {} /\ u # <<>>
           /\ Head(u) \in ToSet(u) /\ Age(u) \in ToSet(u) /\ \A x \in ToSet(u) : Age(u) <= x
           /\ \A x \in ToSet(u) : ToSet(u) = {y \in ToSet(s) : Kin(B, x, y)}
<1> USE DEF UnitIn
<1> HIDE DEF Before, Kin
<1>1. PICK x \in ToSet(s) : ToSet(u) = {y \in ToSet(s) : Kin(B, x, y)}
  OBVIOUS
<1>2. x \in ToSet(u) /\ \A z \in ToSet(u) : ToSet(u) = {y \in ToSet(s) : Kin(B, z, y)}
  BY <1>1, KinIs
<1>3. IsInjective(u)
  <2>1. \A y : ~Before(s, y, y)
    BY OnceIs
  <2>2. \A y : ~Before(u, y, y)
    BY <2>1
  <2> QED
    BY <2>2, OnceIs
<1>4. u # <<>> /\ Head(u) \in ToSet(u)
  <2>1. u # <<>>
    BY <1>2 DEF ToSet
  <2> QED
    BY <2>1, TailIs
<1>5. Age(u) \in ToSet(u) /\ \A y \in ToSet(u) : Age(u) <= y
  <2>1. ToSet(u) \subseteq Tabs
    BY Numbered
  <2>2. ToSet(u) \subseteq Nat /\ ToSet(u) # {}
    BY <1>2, <2>1, StripAssumption
  <2> QED
    BY <2>2, LeastOf DEF Age
<1> QED
  BY <1>1, <1>2, <1>3, <1>4, <1>5

LEMMA UnitsHold ==
    ASSUME NEW B, NEW s \in Seq(Tabs), IsInjective(s)
    PROVE  /\ Units(B, s) \in Seq(Seq(Tabs)) /\ IsInjective(Units(B, s))
           /\ \A u : u \in ToSet(Units(B, s)) <=> UnitIn(B, s, u)
           /\ \A x \in ToSet(s) : \E u \in ToSet(Units(B, s)) : x \in ToSet(u)
<1>1. \A i \in 1..Len(s) : s[i] \in ToSet(s)
  BY Numbered DEF ToSet
<1>2. ASSUME NEW i \in 1..Len(s), Leads(B, s, i)
      PROVE  /\ UnitIn(B, s, UnitAt(B, s, i)) /\ UnitAt(B, s, i) \in ToSet(Units(B, s))
             /\ ToSet(UnitAt(B, s, i)) = {x \in ToSet(s) : Kin(B, s[i], x)}
  <2>1. PICK u : u = UnitAt(B, s, i)
    OBVIOUS
  <2>2. /\ u \in Seq(Tabs) /\ ToSet(u) = {x \in ToSet(s) : Kin(B, s[i], x)}
        /\ \A x, y : Before(u, x, y) <=> (Before(s, x, y) /\ Kin(B, s[i], x) /\ Kin(B, s[i], y))
    BY <1>2, <2>1, UnitAtIs
  <2>3. \A x, y : Before(s, x, y) => x \in ToSet(s) /\ y \in ToSet(s)
    BY BeforeIn
  <2>4. UnitIn(B, s, u)
    <3> HIDE DEF Before, Kin
    <3> QED
      BY <1>1, <2>2, <2>3 DEF UnitIn
  <2>5. u \in ToSet(Units(B, s))
    BY <1>2, <2>1, UnitsAre
  <2> QED
    BY <2>1, <2>2, <2>4, <2>5
<1>3. ASSUME NEW u, UnitIn(B, s, u) PROVE u \in ToSet(Units(B, s))
  <2>1. PICK x \in ToSet(s) : ToSet(u) = {y \in ToSet(s) : Kin(B, x, y)}
    BY <1>3 DEF UnitIn
  <2>2. PICK k \in 1..Len(s) : s[k] = x
    BY Numbered DEF ToSet
  <2>3. PICK i \in 1..k : Kin(B, s[i], s[k]) /\ Leads(B, s, i)
    BY LeaderOf
  <2>4. i \in 1..Len(s)
    BY <2>2, <2>3
  <2>5. PICK v : v = UnitAt(B, s, i)
    OBVIOUS
  <2>6. UnitIn(B, s, v) /\ v \in ToSet(Units(B, s)) /\ ToSet(v) = {y \in ToSet(s) : Kin(B, s[i], y)}
    BY <1>2, <2>3, <2>4, <2>5
  <2>7. ToSet(u) = ToSet(v)
    <3> HIDE DEF Kin
    <3> QED
      BY <2>1, <2>2, <2>3, <2>6, KinIs
  <2>8. \A y, z : Before(u, y, z) => Before(v, y, z)
    <3> HIDE DEF Before
    <3> QED
      BY <1>3, <2>6, <2>7 DEF UnitIn
  <2>9. u \in Seq(Tabs) /\ v \in Seq(Tabs) /\ IsInjective(u) /\ IsInjective(v)
    BY <1>3, <2>6, UnitIsOnce
  <2>10. u = v
    BY ONLY <2>7, <2>8, <2>9, SameSeq
  <2> QED
    BY <2>6, <2>10
<1>4. ASSUME NEW u \in ToSet(Units(B, s)) PROVE UnitIn(B, s, u)
  <2>1. PICK i \in 1..Len(s) : Leads(B, s, i) /\ u = UnitAt(B, s, i)
    BY <1>4, UnitsAre
  <2> QED
    BY <1>2, <2>1
<1>5. ASSUME NEW x \in ToSet(s) PROVE \E u \in ToSet(Units(B, s)) : x \in ToSet(u)
  <2>1. PICK k \in 1..Len(s) : s[k] = x
    BY Numbered DEF ToSet
  <2>2. PICK i \in 1..k : Kin(B, s[i], s[k]) /\ Leads(B, s, i)
    BY LeaderOf
  <2>3. i \in 1..Len(s)
    BY <2>1, <2>2
  <2> QED
    BY <1>2, <2>1, <2>2, <2>3
<1>6. ASSUME NEW u, Before(Units(B, s), u, u) PROVE FALSE
  <2>1. PICK i, j \in 1..Len(s) : /\ i < j /\ Leads(B, s, i) /\ Leads(B, s, j) /\ u = UnitAt(B, s, i) /\ u = UnitAt(B, s, j)
    BY <1>6, UnitsAre
  <2>2. s[i] \in ToSet(u) /\ Kin(B, s[j], s[i])
    BY <1>1, <1>2, <2>1, KinIs
  <2>3. i = j
    BY <2>1, <2>2, KinIs, OneLeader
  <2> QED
    BY <2>1, <2>3
<1>7. Units(B, s) \in Seq(Seq(Tabs)) /\ IsInjective(Units(B, s))
  BY <1>6, UnitsAre, OnceIs
<1> QED
  BY <1>3, <1>4, <1>5, <1>7

\* Units that share a tab are one, and so are units of one age.
LEMMA UnitsApart ==
    ASSUME NEW B, NEW s \in Seq(Tabs), IsInjective(s), NEW u, UnitIn(B, s, u), NEW v, UnitIn(B, s, v),
           NEW x \in ToSet(u), x \in ToSet(v)
    PROVE  u = v
<1>1. ToSet(u) = ToSet(v)
  <2>1. ToSet(u) = {y \in ToSet(s) : Kin(B, x, y)}
    BY UnitIsOnce
  <2>2. ToSet(v) = {y \in ToSet(s) : Kin(B, x, y)}
    BY UnitIsOnce
  <2> QED
    BY <2>1, <2>2
<1>2. u \in Seq(Tabs) /\ v \in Seq(Tabs) /\ IsInjective(u) /\ IsInjective(v)
  BY UnitIsOnce
<1>3. \A y, z : Before(u, y, z) => Before(v, y, z)
  <2> HIDE DEF Before
  <2> QED
    BY <1>1 DEF UnitIn
<1> QED
  BY ONLY <1>1, <1>2, <1>3, SameSeq

\* In a strip whose groups stand together, units stand as their tabs do.
LEMMA UnitBefore ==
    ASSUME NEW B, NEW s \in Seq(Tabs), IsInjective(s), Whole(B, s), NEW u, NEW v, Before(Units(B, s), u, v),
           NEW x \in ToSet(u), NEW y \in ToSet(v)
    PROVE  Before(s, x, y)
<1>1. PICK us : us = Units(B, s) /\ us \in Seq(Seq(Tabs))
  BY UnitsHold
<1>2. u \in ToSet(us) /\ v \in ToSet(us) /\ Before(us, u, v)
  BY <1>1, BeforeIn
<1>3. Before(FlattenSeq(us), x, y)
  BY <1>1, <1>2, FlattenHas
<1>4. FlattenSeq(us) = s
  BY <1>1, WholeStays DEF Regrouped
<1> QED
  BY <1>3, <1>4

LEMMA OldestFirstIs ==
    ASSUME NEW B, NEW s \in Seq(Tabs), IsInjective(s), NEW us, us = ToSet(Units(B, s)), NEW order, order = OldestFirst(us)
    PROVE  /\ order \in Seq(us) /\ ToSet(order) = us /\ Len(order) <= Len(Units(B, s))
           /\ \A i, j \in 1..Len(order) : i < j => Age(order[i]) < Age(order[j])
<1>1. \A u \in us : UnitIn(B, s, u)
  BY UnitsHold
<1>2. \A u \in us : u \in Seq(Tabs) /\ Age(u) \in ToSet(u) /\ Age(u) \in Nat
  <2>1. TAKE u \in us
  <2>2. u \in Seq(Tabs) /\ Age(u) \in ToSet(u)
    BY <1>1, UnitIsOnce
  <2>3. Age(u) \in Tabs
    BY <2>2, Numbered
  <2> QED
    BY <2>2, <2>3, StripAssumption
<1>3. \A u, v \in us : Age(u) = Age(v) => u = v
  BY <1>1, <1>2, UnitsApart
<1>4. Units(B, s) \in Seq(Seq(Tabs))
  BY UnitsHold
<1>5. IsFiniteSet(us) /\ Cardinality(us) \in Nat /\ Cardinality(us) <= Len(Units(B, s))
  BY <1>4, CardinalityIs
<1>6. PICK n : n = Cardinality(us) /\ n \in Nat
  BY <1>5
<1>7. PICK a : a = [u \in us |-> Age(u)]
  OBVIOUS
<1>8. a \in [us -> Nat] /\ \A u, v \in us : a[u] = a[v] => u = v
  BY <1>2, <1>3, <1>7
<1>9. \E q \in [1..n -> us] : \A i, j \in 1..n : i < j => Age(q[i]) < Age(q[j])
  <2>1. PICK q \in [1..n -> us] : \A i, j \in 1..n : i < j => a[q[i]] < a[q[j]]
    BY <1>5, <1>6, <1>8, Ranked
  <2>2. \A i \in 1..n : a[q[i]] = Age(q[i])
    BY <1>7
  <2> QED
    BY <2>1, <2>2
<1>10. order \in [1..n -> us] /\ \A i, j \in 1..n : i < j => Age(order[i]) < Age(order[j])
  BY <1>6, <1>9 DEF OldestFirst
<1>11. order \in Seq(us) /\ Len(order) = n
  BY <1>6, <1>10
<1>12. order \in Injection(1..n, us)
  <2>1. ASSUME NEW i \in 1..n, NEW j \in 1..n, order[i] = order[j] PROVE i = j
    <3>1. ~(i < j) /\ ~(j < i)
      <4>1. Age(order[i]) \in Nat /\ Age(order[j]) = Age(order[i])
        BY <1>2, <1>10, <2>1
      <4> QED
        BY <1>10, <4>1
    <3> QED
      BY <3>1
  <2> QED
    BY <1>10, <2>1 DEF Injection, IsInjective
<1>13. Cardinality(1..n) = n
  BY <1>6, FS_Interval
<1>14. order \in Surjection(1..n, us)
  BY <1>5, <1>6, <1>12, <1>13, FS_Injection
<1>15. ToSet(order) = us
  <2>1. ToSet(order) \subseteq us /\ DOMAIN order = 1..n
    BY <1>11, Numbered
  <2>2. \A u \in us : \E i \in 1..n : order[i] = u
    BY <1>14 DEF Surjection
  <2> QED
    BY <2>1, <2>2 DEF ToSet
<1> QED
  BY <1>5, <1>6, <1>10, <1>11, <1>15

LEMMA RestInPlaceIs ==
    ASSUME NEW T, NEW order \in Seq(T), NEW current \in Seq(T), Len(order) <= Len(current)
    PROVE  \E n \in 0..Len(order) : /\ RestInPlace(order, current) = SubSeq(order, n + 1, Len(order))
                                    /\ \A i \in 1..n : order[i] = current[i]
<1>1. PICK K : K = {k \in 0..Len(order) : SubSeq(order, 1, k) = SubSeq(current, 1, k)}
  OBVIOUS
<1>2. Len(order) \in Nat /\ K \subseteq 0..Len(order) /\ 0 \in K
  <2>1. SubSeq(order, 1, 0) = <<>> /\ SubSeq(current, 1, 0) = <<>>
    OBVIOUS
  <2> QED
    BY <1>1, <2>1
<1>3. PICK n : n = Max(K) /\ n \in K
  BY <1>2, GreatestOf
<1>4. SubSeq(order, 1, n) = SubSeq(current, 1, n) /\ n \in 0..Len(order) /\ n \in 0..Len(current)
  <2>1. n \in 0..Len(order) /\ SubSeq(order, 1, n) = SubSeq(current, 1, n)
    BY <1>1, <1>3
  <2>2. Len(order) \in Nat /\ Len(current) \in Nat
    OBVIOUS
  <2> QED
    BY <2>1, <2>2
<1>5. \A i \in 1..n : order[i] = current[i]
  <2>1. \A i \in 1..n : SubSeq(order, 1, n)[i] = order[i]
    BY <1>4, Parted
  <2>2. \A i \in 1..n : SubSeq(current, 1, n)[i] = current[i]
    BY <1>4, Parted
  <2> QED
    BY <1>4, <2>1, <2>2
<1>6. RestInPlace(order, current) = SubSeq(order, n + 1, Len(order))
  BY <1>1, <1>3 DEF RestInPlace
<1> QED
  BY <1>4, <1>5, <1>6

\* What the plan of a sort says: what it leaves is older than what it moves, and stands in order.
Planned(B, s, plan) ==
  LET us == ToSet(Units(B, s)) IN
  /\ plan \in Seq(us)
  /\ \A i, j \in 1..Len(plan) : i < j => Age(plan[i]) < Age(plan[j])
  /\ \A u \in us \ ToSet(plan), v \in ToSet(plan) : Age(u) < Age(v)
  /\ \A u, v \in us \ ToSet(plan) : Age(u) < Age(v) => Before(Units(B, s), u, v)

LEMMA PlanIs ==
    ASSUME NEW B, NEW s \in Seq(Tabs), IsInjective(s)
    PROVE  Planned(B, s, RestInPlace(OldestFirst(ToSet(Units(B, s))), Units(B, s)))
<1>1. PICK cur, us, order : cur = Units(B, s) /\ us = ToSet(cur) /\ order = OldestFirst(us)
  OBVIOUS
<1>2. /\ order \in Seq(us) /\ ToSet(order) = us /\ Len(order) <= Len(cur)
      /\ \A i, j \in 1..Len(order) : i < j => Age(order[i]) < Age(order[j])
  BY <1>1, OldestFirstIs
<1>3. cur \in Seq(us)
  <2>1. cur \in Seq(Seq(Tabs))
    BY <1>1, UnitsHold
  <2>2. Len(cur) \in Nat /\ DOMAIN cur = 1..Len(cur) /\ cur = [i \in 1..Len(cur) |-> cur[i]]
    BY <2>1
  <2>3. \A i \in 1..Len(cur) : cur[i] \in us
    BY <1>1, <2>2 DEF ToSet
  <2>4. cur \in [1..Len(cur) -> us]
    BY ONLY <2>2, <2>3
  <2> QED
    BY <2>2, <2>4
<1>4. PICK n \in 0..Len(order) : /\ RestInPlace(order, cur) = SubSeq(order, n + 1, Len(order))
                                 /\ \A i \in 1..n : order[i] = cur[i]
  BY <1>2, <1>3, RestInPlaceIs
<1>5. PICK plan : plan = RestInPlace(order, cur)
  OBVIOUS
<1>6. Len(order) \in Nat /\ DOMAIN order = 1..Len(order)
  BY <1>2
<1>7. /\ plan \in Seq(us) /\ Len(plan) = Len(order) - n /\ DOMAIN plan = 1..(Len(order) - n)
      /\ \A i \in 1..(Len(order) - n) : plan[i] = order[i + n]
  BY <1>2, <1>4, <1>5, Parted
<1>8. \A i, j \in 1..Len(plan) : i < j => Age(plan[i]) < Age(plan[j])
  BY <1>2, <1>6, <1>7
<1>9. \A u \in us : u \notin ToSet(plan) => \E i \in 1..n : u = order[i]
  <2>1. TAKE u \in us
  <2>2. PICK k \in 1..Len(order) : u = order[k]
    BY <1>2, <1>6 DEF ToSet
  <2>3. CASE k > n
    <3>1. k - n \in 1..(Len(order) - n) /\ (k - n) + n = k
      BY <1>6, <2>3
    <3>2. plan[k - n] = u
      BY <1>7, <2>2, <3>1
    <3>3. u \in ToSet(plan)
      BY <1>7, <3>1, <3>2 DEF ToSet
    <3> QED
      BY <3>3
  <2>4. CASE k <= n
    <3>1. k \in 1..n
      BY <2>4
    <3> QED
      BY <2>2, <3>1
  <2> QED
    BY <1>6, <2>3, <2>4
<1>10. \A v \in ToSet(plan) : \E j \in 1..Len(order) : j > n /\ v = order[j]
  <2>1. TAKE v \in ToSet(plan)
  <2>2. PICK i \in 1..(Len(order) - n) : v = plan[i]
    BY <1>7 DEF ToSet
  <2>3. i + n \in 1..Len(order) /\ i + n > n
    BY <1>6
  <2> QED
    BY <1>7, <2>2, <2>3
<1>11. \A u \in us \ ToSet(plan), v \in ToSet(plan) : Age(u) < Age(v)
  <2>1. TAKE u \in us \ ToSet(plan), v \in ToSet(plan)
  <2>2. PICK i \in 1..n : u = order[i]
    BY <1>9
  <2>3. PICK j \in 1..Len(order) : j > n /\ v = order[j]
    BY <1>10
  <2>4. i \in 1..Len(order) /\ i < j
    BY <1>6, <2>3
  <2> QED
    BY <1>2, <2>2, <2>3, <2>4
<1>12. \A u, v \in us \ ToSet(plan) : Age(u) < Age(v) => Before(cur, u, v)
  <2>1. SUFFICES ASSUME NEW u \in us \ ToSet(plan), NEW v \in us \ ToSet(plan), Age(u) < Age(v)
                 PROVE  Before(cur, u, v)
    OBVIOUS
  <2>2. PICK i \in 1..n : u = order[i]
    BY <1>9
  <2>3. PICK j \in 1..n : v = order[j]
    BY <1>9
  <2>4. i \in 1..Len(order) /\ j \in 1..Len(order) /\ DOMAIN cur = 1..Len(cur) /\ i \in DOMAIN cur /\ j \in DOMAIN cur
    BY <1>2, <1>3, <1>6
  <2>5. Age(u) \in Nat /\ Age(v) \in Nat
    <3>1. UnitIn(B, s, u) /\ UnitIn(B, s, v)
      BY <1>1, UnitsHold
    <3>2. Age(u) \in ToSet(u) /\ u \in Seq(Tabs) /\ Age(v) \in ToSet(v) /\ v \in Seq(Tabs)
      BY <3>1, UnitIsOnce
    <3>3. Age(u) \in Tabs /\ Age(v) \in Tabs
      BY <3>2, Numbered
    <3> QED
      BY <3>3, StripAssumption
  <2>6. i < j
    <3>1. ~(j < i)
      BY <1>2, <2>1, <2>2, <2>3, <2>4, <2>5
    <3>2. i # j
      BY <2>1, <2>2, <2>3, <2>5
    <3> QED
      BY <3>1, <3>2
  <2>7. cur[i] = u /\ cur[j] = v
    BY <1>4, <2>2, <2>3
  <2> QED
    BY <2>4, <2>6, <2>7 DEF Before
<1>13. Planned(B, s, plan)
  BY <1>1, <1>7, <1>8, <1>11, <1>12 DEF Planned
<1> QED
  BY <1>1, <1>5, <1>13

\* Some tabs of a strip have gone to its end, in their order; the others stand as they stood.
ToTheEnd(s, q, M) ==
  \A x, y \in ToSet(s) : Before(q, x, y) <=> IF (x \in M <=> y \in M) THEN Before(s, x, y) ELSE y \in M

LEMMA SplicedEnd ==
    ASSUME NEW l \in Seq(Tabs), NEW q \in Seq(Tabs)
    PROVE  Spliced(l, Len(l), q) = l \o q
<1>1. Len(l) \in Nat /\ l \o q \in Seq(Tabs)
  OBVIOUS
<1>2. SubSeq(l, 1, Len(l)) = l /\ SubSeq(l, Len(l) + 1, Len(l)) = <<>>
  BY <1>1
<1>3. (l \o q) \o <<>> = l \o q
  BY <1>1
<1> QED
  BY <1>2, <1>3 DEF Spliced

LEMMA SettledStrips ==
    ASSUME NEW R, NEW C \in Settled(R), NEW w \in Windows, R.strip[w] \in Seq(Tabs), IsInjective(R.strip[w]),
           Whole(R, R.strip[w]), R.strip \in [Windows -> Seq(Tabs)], NEW B \in Browsers, R = [B EXCEPT !.strip = R.strip]
    PROVE  C.strip[w] = R.strip[w]
<1>1. R \in Browsers
  BY DEF Browsers
<1>2. PICK s : s = [v \in Windows |-> FlattenSeq(Units(R, R.strip[v]))]
  OBVIOUS
<1>3. C.strip = s
  BY <1>1, <1>2 DEF Settled, Browsers
<1>4. s[w] = Regrouped(R, R.strip[w])
  BY <1>2 DEF Regrouped
<1> QED
  BY <1>3, <1>4, WholeStays

LEMMA LivesOrder ==
    ASSUME NEW B, WellFormed(B), NEW g, Lives(B, g), NEW w, w = GroupWindow(B, g)
    PROVE  /\ w \in Windows /\ ToSet(Members(B, g)) = {x \in ToSet(B.strip[w]) : B.group[x] = g}
           /\ \A x, y \in ToSet(Members(B, g)) : Before(Members(B, g), x, y) <=> Before(B.strip[w], x, y)
<1>1. Ready(B) /\ g # None
  BY WellFormedIsReady DEF Lives
<1>2. PICK m : m = Members(B, g)
  OBVIOUS
<1> HIDE DEF Before
<1>3. /\ m \in Seq(Tabs) /\ IsInjective(m) /\ ToSet(m) = {t \in OpenTabs(B) : B.group[t] = g}
      /\ \A x, y : Before(m, x, y) => \E v \in Windows : Before(B.strip[v], x, y)
      /\ w \in Windows /\ ToSet(m) \subseteq ToSet(B.strip[w])
  BY <1>1, <1>2, MembersAre
<1>4. ToSet(m) = {x \in ToSet(B.strip[w]) : B.group[x] = g}
  BY <1>3, OpenIs
<1>5. B.strip[w] \in Seq(Tabs) /\ IsInjective(B.strip[w])
  BY <1>1, <1>3, BrowserIs
<1>6. ASSUME NEW x \in ToSet(m), NEW y, Before(m, x, y) PROVE Before(B.strip[w], x, y)
  <2>1. PICK v \in Windows : Before(B.strip[v], x, y)
    BY <1>3, <1>6
  <2>2. x \in ToSet(B.strip[v]) /\ x \in ToSet(B.strip[w])
    BY <1>3, <2>1, BeforeIn
  <2>3. v = w
    BY <1>1, <1>3, <2>2 DEF Ready
  <2> QED
    BY <2>1, <2>3
<1>7. ASSUME NEW x \in ToSet(m), NEW y \in ToSet(m), Before(B.strip[w], x, y) PROVE Before(m, x, y)
  <2>1. x # y /\ ~Before(B.strip[w], y, x)
    BY <1>5, <1>7, OnceIs, OneWay
  <2>2. Before(m, x, y) \/ Before(m, y, x)
    BY <1>3, <2>1, Either
  <2> QED
    BY <1>6, <2>1, <2>2
<1> QED
  BY <1>2, <1>3, <1>4, <1>6, <1>7

\* A group moved to the end of its window.
LEMMA GroupLast ==
    ASSUME NEW B, WellFormed(B), NEW g, Lives(B, g), NEW i \in Nat, i > Cardinality(Tabs), NEW C \in GroupsMove(B, g, i),
           NEW w, w = GroupWindow(B, g)
    PROVE  ToTheEnd(B.strip[w], C.strip[w], {x \in ToSet(B.strip[w]) : B.group[x] = g})
<1>1. Ready(B) /\ B \in Browsers /\ g # None
  BY WellFormedIsReady DEF Ready, Lives
<1>2. PICK m, s : m = Members(B, g) /\ s = B.strip[w]
  OBVIOUS
<1> HIDE DEF Before
<1>3. m \in Seq(Tabs) /\ IsInjective(m)
  BY <1>1, <1>2, MembersAre
<1>4. /\ w \in Windows /\ ToSet(m) = {x \in ToSet(s) : B.group[x] = g}
      /\ \A x, y \in ToSet(m) : Before(m, x, y) <=> Before(s, x, y)
  BY <1>2, LivesOrder
<1>5. s \in Seq(Tabs) /\ IsInjective(s)
  BY <1>1, <1>2, <1>4, BrowserIs
<1>6. PICK rest, M : rest = Without(s, M) /\ M = ToSet(m)
  OBVIOUS
<1>7. /\ rest \in Seq(Tabs) /\ IsInjective(rest) /\ ToSet(rest) = ToSet(s) \ M
      /\ \A x, y : Before(rest, x, y) <=> (Before(s, x, y) /\ x \notin M /\ y \notin M)
  BY <1>5, <1>6, WithoutOnce
<1>8. Len(rest) \in Nat /\ Len(rest) < i
  <2>1. Len(rest) \in Nat /\ Len(rest) <= Cardinality(Tabs)
    BY <1>7, OnceIsShort
  <2> QED
    BY <2>1, PastLast
<1>9. PICK at : at = Max({Cardinality(B.pinned \cap ToSet(rest)), IF i > Len(rest) THEN Len(rest) ELSE i})
  OBVIOUS
<1>10. at = Len(rest)
  <2>1. IsFiniteSet(ToSet(rest)) /\ Cardinality(ToSet(rest)) \in Nat /\ Cardinality(ToSet(rest)) <= Len(rest)
    BY <1>7, CardinalityIs
  <2>2. PICK S, c : S = B.pinned \cap ToSet(rest) /\ c = Cardinality(S)
    OBVIOUS
  <2>3. c \in Nat /\ c <= Cardinality(ToSet(rest))
    BY <2>1, <2>2, FS_Subset, FS_CardinalityType
  <2>4. at = Max({c, Len(rest)})
    BY <1>8, <1>9, <2>2
  <2>5. Max({c, Len(rest)}) = IF c >= Len(rest) THEN c ELSE Len(rest)
    BY <1>8, <2>3, MostOf
  <2> QED
    BY <1>8, <2>1, <2>3, <2>4, <2>5
<1>11. PICK q : q = Spliced(rest, at, m)
  OBVIOUS
<1>12. /\ q \in Seq(Tabs) /\ IsInjective(q) /\ ToSet(q) = ToSet(rest) \cup M
       /\ \A x, y : Before(q, x, y) <=> (Before(rest, x, y) \/ Before(m, x, y) \/ (y \in M /\ x \in ToSet(rest)))
  <2>1. at \in 0..Len(rest)
    BY <1>8, <1>10
  <2>2. ToSet(rest) \cap ToSet(m) = {}
    BY <1>6, <1>7
  <2>3. IsInjective(q)
    BY ONLY <1>3, <1>7, <1>11, <2>1, <2>2, SplicedOnce
  <2>4. q = rest \o m
    BY <1>3, <1>7, <1>10, <1>11, SplicedEnd
  <2>5. rest \in Seq(Tabs) /\ m \in Seq(Tabs)
    BY <1>3, <1>7
  <2>6. /\ rest \o m \in Seq(Tabs) /\ ToSet(rest \o m) = ToSet(rest) \cup ToSet(m)
        /\ \A x, y : Before(rest \o m, x, y) <=> (Before(rest, x, y) \/ Before(m, x, y) \/ (x \in ToSet(rest) /\ y \in ToSet(m)))
    BY ONLY <2>5, Joint
  <2> QED
    BY <1>6, <2>3, <2>4, <2>6
<1>13. PICK R : R = [B EXCEPT !.strip = [B.strip EXCEPT ![w] = q]]
  OBVIOUS
<1>14. C \in Settled(R)
  <2>1. GroupsMove(B, g, i) = Settled([B EXCEPT !.strip[w] = Spliced(rest, at, m)])
    BY <1>2, <1>6, <1>9 DEF GroupsMove
  <2>2. [B EXCEPT !.strip[w] = Spliced(rest, at, m)] = R
    BY <1>11, <1>13
  <2> QED
    BY <2>1, <2>2
<1>15. B.strip \in [Windows -> Seq(Tabs)]
  BY <1>1 DEF Browsers
<1>16. R.strip \in [Windows -> Seq(Tabs)] /\ R.strip[w] = q /\ R = [B EXCEPT !.strip = R.strip] /\ R.group = B.group
  BY <1>1, <1>4, <1>12, <1>13, <1>15 DEF Browsers
<1>17. \A x, y : Kin(R, x, y) <=> Kin(B, x, y)
  BY <1>16 DEF Kin
<1>18. Whole(B, s) /\ Whole(B, rest)
  <2>1. Whole(B, s)
    <3>1. StandsTogether(B, s)
      BY <1>2, <1>4 DEF WellFormed
    <3> QED
      BY <1>5, <3>1, WholeIs
  <2>2. rest = Lifted(B, M)[w]
    BY <1>2, <1>4, <1>6 DEF Lifted
  <2> QED
    BY <1>4, <2>1, <2>2, WholeWithout
<1>19. Whole(R, q)
  <2>1. SUFFICES ASSUME NEW x, NEW y, NEW z, Before(q, x, y), Before(q, y, z), Kin(B, x, z)
                 PROVE  Kin(B, x, y)
    BY <1>17 DEF Whole
  <2>2. x \in ToSet(q) /\ y \in ToSet(q) /\ z \in ToSet(q)
    BY <2>1, BeforeIn
  <2>3. \A u, v : Before(m, u, v) => u \in M /\ v \in M
    BY <1>6, BeforeIn
  <2>4. \A u \in M : B.group[u] = g
    BY <1>4, <1>6
  <2>5. CASE x \in M
    <3>1. y \in M
      BY <1>7, <1>12, <2>1, <2>3, <2>5
    <3> QED
      BY <1>1, <2>4, <2>5, <3>1 DEF Kin
  <2>6. CASE x \notin M
    <3>1. x \in ToSet(s)
      BY <1>7, <1>12, <2>2, <2>6
    <3>2. z \notin M
      BY <1>4, <1>6, <2>1, <2>4, <2>6, <3>1 DEF Kin
    <3>3. y \notin M
      BY <1>7, <1>12, <2>1, <2>3, <3>2
    <3>4. Before(rest, x, y) /\ Before(rest, y, z)
      BY <1>12, <2>1, <2>3, <3>2, <3>3
    <3> QED
      BY <1>18, <2>1, <3>4 DEF Whole
  <2> QED
    BY <2>5, <2>6
<1>20. C.strip[w] = q
  BY <1>1, <1>4, <1>12, <1>14, <1>16, <1>19, SettledStrips
<1>21. ToTheEnd(s, q, M)
  <2>1. SUFFICES ASSUME NEW x \in ToSet(s), NEW y \in ToSet(s)
                 PROVE  Before(q, x, y) <=> IF (x \in M <=> y \in M) THEN Before(s, x, y) ELSE y \in M
    BY DEF ToTheEnd
  <2>2. \A u, v : Before(m, u, v) => u \in M /\ v \in M
    BY <1>6, BeforeIn
  <2> QED
    BY <1>4, <1>6, <1>7, <1>12, <2>2
<1> QED
  BY <1>2, <1>4, <1>6, <1>20, <1>21

LEMMA TabLast ==
    ASSUME NEW B, WellFormed(B), NEW w \in Windows, NEW t \in ToSet(B.strip[w]), NEW C, C.strip[w] = Append(Lifted(B, {t})[w], t)
    PROVE  ToTheEnd(B.strip[w], C.strip[w], {t})
<1>1. Ready(B)
  BY WellFormedIsReady
<1>2. B.strip[w] \in Seq(Tabs) /\ IsInjective(B.strip[w]) /\ t \in Tabs
  BY <1>1, BrowserIs, Numbered
<1>3. PICK S, l : S = {t} /\ l = Lifted(B, S)[w]
  OBVIOUS
<1> HIDE DEF Before
<1>4. /\ l \in Seq(Tabs) /\ ToSet(l) = ToSet(B.strip[w]) \ S
      /\ \A x, y : Before(l, x, y) <=> (Before(B.strip[w], x, y) /\ x \notin S /\ y \notin S)
  BY <1>1, <1>3, LiftedIs
<1>5. \A x, y : Before(Append(l, t), x, y) <=> (Before(l, x, y) \/ (x \in ToSet(l) /\ y = t))
  <2>1. l \in Seq(Tabs) /\ t \in Tabs
    BY <1>2, <1>4
  <2> QED
    BY ONLY <2>1, OneMore
<1>6. \A x : ~Before(B.strip[w], x, x)
  BY <1>2, OnceIs
<1>7. PICK s, q : s = B.strip[w] /\ q = C.strip[w]
  OBVIOUS
<1>8. \A x, y : Before(q, x, y) <=> (Before(l, x, y) \/ (x \in ToSet(l) /\ y = t))
  BY <1>3, <1>5, <1>7
<1>9. ToTheEnd(s, q, {t})
  <2>1. /\ ToSet(l) = ToSet(s) \ {t} /\ \A x : ~Before(s, x, x)
        /\ \A x, y : Before(l, x, y) <=> (Before(s, x, y) /\ x # t /\ y # t)
    BY <1>3, <1>4, <1>6, <1>7
  <2>2. SUFFICES ASSUME NEW x \in ToSet(s), NEW y \in ToSet(s)
                 PROVE  Before(q, x, y) <=> IF (x \in {t} <=> y \in {t}) THEN Before(s, x, y) ELSE y \in {t}
    BY DEF ToTheEnd
  <2>3. CASE x = t
    BY ONLY <1>8, <2>1, <2>2, <2>3
  <2>4. CASE x # t
    BY ONLY <1>8, <2>1, <2>2, <2>4
  <2> QED
    BY <2>3, <2>4
<1> QED
  BY <1>7, <1>9

Unpinned(o) == Without(o.was.strip[o.w], o.was.pinned)
UnitsOf(o) == ToSet(Units(o.was, Unpinned(o)))
Ahead(s, u, v) == \A x \in ToSet(u), y \in ToSet(v) : Before(s, x, y)

\* A window half sorted: the units that still have to go are in P, and the youngest; those that have
\* gone, or may stay, stand in order of age; nothing but their order has changed.
Sorting(o, B, P) ==
  /\ B.pinned = o.was.pinned /\ \A v \in Windows : ToSet(B.strip[v]) = ToSet(o.was.strip[v])
  /\ \A u \in UnitsOf(o) : \A x, y \in ToSet(u) : Before(B.strip[o.w], x, y) <=> Before(u, x, y)
  /\ \A u \in UnitsOf(o) \ P, v \in P : Age(u) < Age(v)
  /\ \A u, v \in UnitsOf(o) \ P : Age(u) < Age(v) => Ahead(B.strip[o.w], u, v)

Listing(o) ==
  /\ o.todo \in Seq([ts : UnitsOf(o), g : Groups \cup {None}])
  /\ \A i \in 1..Len(o.todo) : o.todo[i].g = o.was.group[Head(o.todo[i].ts)]
  /\ \A i, j \in 1..Len(o.todo) : i < j => Age(o.todo[i].ts) < Age(o.todo[j].ts)
Left(todo) == {todo[i].ts : i \in 1..Len(todo)}

SortStarted(o) == o.kind = "sort" /\ WellFormed(o.was) /\ o.w \in Windows

LEMMA UnitsOfIs ==
    ASSUME NEW o, SortStarted(o)
    PROVE  /\ Unpinned(o) \in Seq(Tabs) /\ IsInjective(Unpinned(o)) /\ Whole(o.was, Unpinned(o))
           /\ ToSet(Unpinned(o)) = ToSet(o.was.strip[o.w]) \ o.was.pinned
           /\ \A x, y : Before(Unpinned(o), x, y) <=> (Before(o.was.strip[o.w], x, y) /\ x \notin o.was.pinned /\ y \notin o.was.pinned)
           /\ UnitsOf(o) = ToSet(Units(o.was, Unpinned(o)))
           /\ \A u : u \in UnitsOf(o) <=> UnitIn(o.was, Unpinned(o), u)
           /\ \A u \in UnitsOf(o) : /\ u \in Seq(Tabs) /\ IsInjective(u) /\ ToSet(u) \subseteq ToSet(Unpinned(o)) /\ u # <<>>
                                    /\ Head(u) \in ToSet(u) /\ Age(u) \in ToSet(u) /\ Age(u) \in Nat
                                    /\ \A x, y \in ToSet(u) : Before(u, x, y) <=> Before(o.was.strip[o.w], x, y)
           /\ \A u, v \in UnitsOf(o) : \A x \in ToSet(u) : x \in ToSet(v) => u = v
<1>1. PICK A, s, q : A = o.was /\ s = A.strip[o.w] /\ q = Unpinned(o)
  OBVIOUS
<1>2. WellFormed(A) /\ Ready(A) /\ o.w \in Windows
  BY <1>1, WellFormedIsReady DEF SortStarted
<1>3. q = Without(s, A.pinned) /\ q = Lifted(A, A.pinned)[o.w]
  BY <1>1, <1>2 DEF Unpinned, Lifted
<1>4. s \in Seq(Tabs) /\ IsInjective(s)
  BY <1>1, <1>2, BrowserIs
<1> HIDE DEF Before
<1>5. /\ q \in Seq(Tabs) /\ IsInjective(q) /\ ToSet(q) = ToSet(s) \ A.pinned
      /\ \A x, y : Before(q, x, y) <=> (Before(s, x, y) /\ x \notin A.pinned /\ y \notin A.pinned)
  <2>1. PICK D : D = A.pinned
    OBVIOUS
  <2>2. /\ Without(s, D) \in Seq(Tabs) /\ IsInjective(Without(s, D)) /\ ToSet(Without(s, D)) = ToSet(s) \ D
        /\ \A x, y : Before(Without(s, D), x, y) <=> (Before(s, x, y) /\ x \notin D /\ y \notin D)
    BY ONLY <1>4, WithoutOnce
  <2> QED
    BY <1>3, <2>1, <2>2
<1>6. Whole(A, q)
  BY <1>2, <1>3, WholeWithout
<1>7. \A u : u \in UnitsOf(o) <=> UnitIn(A, q, u)
  BY <1>1, <1>5, UnitsHold DEF UnitsOf
<1>8. ASSUME NEW u \in UnitsOf(o)
      PROVE  /\ u \in Seq(Tabs) /\ IsInjective(u) /\ ToSet(u) \subseteq ToSet(q) /\ u # <<>>
             /\ Head(u) \in ToSet(u) /\ Age(u) \in ToSet(u) /\ Age(u) \in Nat
             /\ \A x, y \in ToSet(u) : Before(u, x, y) <=> Before(s, x, y)
  <2>1. UnitIn(A, q, u)
    BY <1>7
  <2>2. /\ u \in Seq(Tabs) /\ IsInjective(u) /\ ToSet(u) \subseteq ToSet(q) /\ u # <<>>
        /\ Head(u) \in ToSet(u) /\ Age(u) \in ToSet(u)
    BY <1>5, <2>1, UnitIsOnce
  <2>3. Age(u) \in Nat
    <3>1. Age(u) \in Tabs
      BY <2>2, Numbered
    <3> QED
      BY <3>1, StripAssumption
  <2>4. \A x, y \in ToSet(u) : Before(u, x, y) <=> Before(s, x, y)
    <3>1. \A x, y \in ToSet(u) : Before(u, x, y) <=> Before(q, x, y)
      BY <2>1 DEF UnitIn
    <3>2. \A x \in ToSet(u) : x \notin A.pinned
      BY <1>5, <2>2
    <3> QED
      BY <1>5, <3>1, <3>2
  <2> QED
    BY <2>2, <2>3, <2>4
<1>9. ASSUME NEW u \in UnitsOf(o), NEW v \in UnitsOf(o), NEW x \in ToSet(u), x \in ToSet(v)
      PROVE  u = v
  <2>1. UnitIn(A, q, u) /\ UnitIn(A, q, v)
    BY <1>7
  <2> QED
    BY <1>5, <1>9, <2>1, UnitsApart
<1> QED
  BY <1>1, <1>5, <1>6, <1>7, <1>8, <1>9 DEF UnitsOf

\* The oldest unit that still has to go has gone to the end.
LEMMA OneSorted ==
    ASSUME NEW o, SortStarted(o), NEW B, NEW P, P \subseteq UnitsOf(o), Sorting(o, B, P), NEW u \in P,
           \A v \in P \ {u} : Age(u) < Age(v), NEW C, C.pinned = B.pinned,
           \A v \in Windows : ToSet(C.strip[v]) = ToSet(B.strip[v]), ToTheEnd(B.strip[o.w], C.strip[o.w], ToSet(u))
    PROVE  Sorting(o, C, P \ {u})
<1> HIDE DEF Before
<1>1. PICK U, S, s, q : U = UnitsOf(o) /\ S = ToSet(Unpinned(o)) /\ s = B.strip[o.w] /\ q = C.strip[o.w]
  OBVIOUS
<1>2. /\ \A v \in U : ToSet(v) \subseteq S /\ Age(v) \in Nat
      /\ \A v, v1 \in U : \A x \in ToSet(v) : x \in ToSet(v1) => v = v1
      /\ S \subseteq ToSet(o.was.strip[o.w])
  BY <1>1, UnitsOfIs
<1>3. /\ \A v \in U : \A x, y \in ToSet(v) : Before(s, x, y) <=> Before(v, x, y)
      /\ \A v \in U \ P, v1 \in P : Age(v) < Age(v1)
      /\ \A v, v1 \in U \ P : Age(v) < Age(v1) => Ahead(s, v, v1)
      /\ S \subseteq ToSet(s)
  BY <1>1, <1>2 DEF Sorting, SortStarted
<1>4. \A x, y \in S : Before(q, x, y) <=> IF (x \in ToSet(u) <=> y \in ToSet(u)) THEN Before(s, x, y) ELSE y \in ToSet(u)
  BY <1>1, <1>3 DEF ToTheEnd
<1>5. u \in U
  BY <1>1
<1>6. \A v \in U : \A x, y \in ToSet(v) : Before(q, x, y) <=> Before(v, x, y)
  <2>1. TAKE v \in U
  <2>2. \A x, y \in ToSet(v) : x \in ToSet(u) <=> y \in ToSet(u)
    BY <1>2, <1>5
  <2> QED
    BY <1>2, <1>3, <1>4, <2>2
<1>7. \A v \in U \ (P \ {u}), v1 \in P \ {u} : Age(v) < Age(v1)
  BY <1>3
<1>8. ASSUME NEW v \in U \ (P \ {u}), NEW v1 \in U \ (P \ {u}), Age(v) < Age(v1), NEW x \in ToSet(v), NEW y \in ToSet(v1)
      PROVE  Before(q, x, y)
  <2>1. x \in S /\ y \in S /\ Age(v) \in Nat /\ Age(v1) \in Nat
    BY <1>2
  <2>2. CASE v1 = u
    <3>1. v # u
      BY <1>8, <2>1, <2>2
    <3>2. x \notin ToSet(u) /\ y \in ToSet(u)
      BY <1>2, <1>5, <2>2, <3>1
    <3> QED
      BY <1>4, <2>1, <3>2
  <2>3. CASE v1 # u /\ v = u
    <3>1. Age(v1) < Age(u)
      BY <1>3, <1>8, <2>3
    <3> QED
      BY <1>8, <2>1, <2>3, <3>1
  <2>4. CASE v1 # u /\ v # u
    <3>1. Before(s, x, y)
      BY <1>3, <1>8, <2>4 DEF Ahead
    <3>2. x \notin ToSet(u) /\ y \notin ToSet(u)
      BY <1>2, <1>5, <2>4
    <3> QED
      BY <1>4, <2>1, <3>1, <3>2
  <2> QED
    BY <2>2, <2>3, <2>4
<1>9. C.pinned = o.was.pinned /\ \A v \in Windows : ToSet(C.strip[v]) = ToSet(o.was.strip[v])
  BY DEF Sorting
<1> QED
  BY <1>1, <1>6, <1>7, <1>8, <1>9 DEF Sorting, Ahead

\* The head of the list goes, and what is left is the tail.
LEMMA ListIs ==
    ASSUME NEW o, SortStarted(o), Listing(o), o.todo # <<>>, NEW n, n.todo = Tail(o.todo), n.was = o.was, n.w = o.w
    PROVE  /\ Listing(n) /\ Left(o.todo) \subseteq UnitsOf(o) /\ Head(o.todo).ts \in Left(o.todo)
           /\ Left(Tail(o.todo)) = Left(o.todo) \ {Head(o.todo).ts}
           /\ \A v \in Left(o.todo) \ {Head(o.todo).ts} : Age(Head(o.todo).ts) < Age(v)
           /\ Head(o.todo).g = o.was.group[Head(Head(o.todo).ts)]
<1>1. PICK s, T, U : s = o.todo /\ U = UnitsOf(o) /\ T = [ts : U, g : Groups \cup {None}]
  OBVIOUS
<1>2. /\ s \in Seq(T) /\ s # <<>> /\ \A i \in 1..Len(s) : s[i].g = o.was.group[Head(s[i].ts)]
      /\ \A i, j \in 1..Len(s) : i < j => Age(s[i].ts) < Age(s[j].ts)
  BY <1>1 DEF Listing
<1>3. PICK q : q = Tail(s)
  OBVIOUS
<1>4. /\ Len(s) \in Nat /\ Len(s) > 0 /\ 1 \in 1..Len(s) /\ Head(s) = s[1] /\ q \in Seq(T) /\ Len(q) = Len(s) - 1
      /\ \A i \in 1..Len(q) : q[i] = s[i + 1] /\ i + 1 \in 1..Len(s)
  BY <1>2, <1>3
<1>5. \A i \in 1..Len(s) : s[i] \in T /\ s[i].ts \in U
  <2>1. \A i \in 1..Len(s) : s[i] \in T
    BY <1>2
  <2>2. \A e \in T : e.ts \in U
    BY <1>1
  <2> QED
    BY <2>1, <2>2
<1>6. \A i \in 1..Len(s) : i = 1 \/ i - 1 \in 1..Len(q)
  BY <1>4
<1>7. \A i \in 1..Len(s) : i # 1 => Age(s[1].ts) < Age(s[i].ts)
  BY <1>2, <1>4
<1>8. UnitsOf(n) = U
  BY <1>1 DEF UnitsOf, Unpinned
<1>9. Listing(n)
  <2>1. \A i, j \in 1..Len(q) : i < j => Age(q[i].ts) < Age(q[j].ts)
    <3>1. SUFFICES ASSUME NEW i \in 1..Len(q), NEW j \in 1..Len(q), i < j PROVE Age(q[i].ts) < Age(q[j].ts)
      OBVIOUS
    <3>2. i + 1 < j + 1 /\ i + 1 \in 1..Len(s) /\ j + 1 \in 1..Len(s)
      BY <1>4, <3>1
    <3>3. Age(s[i + 1].ts) < Age(s[j + 1].ts)
      BY <1>2, <3>2
    <3> QED
      BY <1>4, <3>3
  <2>2. \A i \in 1..Len(q) : q[i].g = o.was.group[Head(q[i].ts)]
    BY <1>2, <1>4
  <2> QED
    BY <1>1, <1>3, <1>4, <1>8, <2>1, <2>2 DEF Listing
<1>10. \A v \in U : Age(v) \in Nat
  BY <1>1, UnitsOfIs
<1>11. Left(q) = Left(s) \ {s[1].ts}
  <2>1. ASSUME NEW i \in 1..Len(q) PROVE q[i].ts \in Left(s) /\ q[i].ts # s[1].ts
    <3>1. i + 1 \in 1..Len(s) /\ i + 1 # 1 /\ q[i] = s[i + 1]
      BY <1>4
    <3>2. Age(s[1].ts) < Age(s[i + 1].ts) /\ Age(s[1].ts) \in Nat
      BY <1>4, <1>5, <1>7, <1>10, <3>1
    <3> QED
      BY <3>1, <3>2 DEF Left
  <2>2. ASSUME NEW i \in 1..Len(s), s[i].ts # s[1].ts PROVE s[i].ts \in Left(q)
    <3>1. i - 1 \in 1..Len(q) /\ (i - 1) + 1 = i
      BY <1>6, <2>2
    <3>2. q[i - 1] = s[i]
      BY <1>4, <3>1
    <3> QED
      BY <3>1, <3>2 DEF Left
  <2> QED
    BY <2>1, <2>2 DEF Left
<1>12. \A v \in Left(s) : v \in U /\ (v # s[1].ts => Age(s[1].ts) < Age(v))
  BY <1>5, <1>7 DEF Left
<1>13. s[1].ts \in Left(s) /\ s[1].g = o.was.group[Head(s[1].ts)]
  BY <1>2, <1>4 DEF Left
<1> QED
  BY <1>1, <1>3, <1>4, <1>9, <1>11, <1>12, <1>13

SortKnown(o, B) ==
  /\ o.pc = "sort" => B = o.was
  /\ o.pc \in {"sort next", "sort loose"} => Listing(o)
  /\ o.pc = "sort next" => B.group = o.was.group /\ Sorting(o, B, Left(o.todo))
  /\ o.pc = "sort loose" =>
       LET t == Head(Head(o.todo).ts) IN
       /\ o.todo # <<>> /\ Head(o.todo).g = None /\ t \in ToSet(B.strip[o.w]) /\ Sorting(o, B, Left(Tail(o.todo)))
       /\ (\A x \in Tabs \ {t} : B.group[x] = o.was.group[x])
       /\ \A x \in ToSet(B.strip[o.w]) \ {t} : Before(B.strip[o.w], x, t)
  /\ o.pc = "done" => B.group = o.was.group /\ Sorting(o, B, {})
SortGoes(o, B) == SortStarted(o) /\ ~o.failed /\ o.pc \in {"sort", "sort next", "sort loose", "done"} /\ SortKnown(o, B)

LEMMA SortWrote ==
    ASSUME NEW o, NEW n, NEW f, Wrote(o, n, f), DOMAIN f \subseteq {"pc", "todo"}, SortStarted(o), ~o.failed
    PROVE  SortStarted(n) /\ ~n.failed /\ n.was = o.was /\ n.w = o.w /\ Unpinned(n) = Unpinned(o) /\ UnitsOf(n) = UnitsOf(o)
<1>1. n.kind = o.kind /\ n.w = o.w
  BY WroteIs
<1>2. n.failed = o.failed /\ n.was = o.was
  BY WroteMore
<1> QED
  BY <1>1, <1>2 DEF SortStarted, Unpinned, UnitsOf

LEMMA SortingAlike ==
    ASSUME NEW o, NEW n, n.was = o.was, n.w = o.w, NEW B, NEW P, Sorting(o, B, P)
    PROVE  Sorting(n, B, P)
<1>1. UnitsOf(n) = UnitsOf(o)
  BY DEF UnitsOf, Unpinned
<1> QED
  BY <1>1 DEF Sorting

LEMMA SortStarts ==
    ASSUME BrowserSound, SortOneWindow, SortGoes(op, b)
    PROVE  SortGoes(op', b')
<1>0. op.pc = "sort" /\ b' = b /\ OpFields \subseteq DOMAIN op /\ WellFormed(b)
  BY StepsAt, WorkingTold DEF SortOneWindow
<1>1. b = op.was /\ ~op.failed /\ SortStarted(op)
  BY <1>0 DEF SortGoes, SortKnown
<1>2. PICK plan, s, us : plan = PlanWindowSort(b, op.w) /\ s = Unpinned(op) /\ us = UnitsOf(op)
  OBVIOUS
<1>3. /\ s \in Seq(Tabs) /\ IsInjective(s) /\ Whole(b, s) /\ us = ToSet(Units(b, s))
      /\ \A x, y : Before(s, x, y) <=> (Before(b.strip[op.w], x, y) /\ x \notin b.pinned /\ y \notin b.pinned)
      /\ \A u \in us : \A x, y \in ToSet(u) : Before(u, x, y) <=> Before(b.strip[op.w], x, y)
      /\ \A u \in us : u \in Seq(Tabs) /\ Head(u) \in ToSet(u)
  <2>1. PICK o : o = op
    OBVIOUS
  <2>2. SortStarted(o)
    BY <1>1, <2>1
  <2>3. /\ Unpinned(o) \in Seq(Tabs) /\ IsInjective(Unpinned(o)) /\ Whole(o.was, Unpinned(o))
        /\ \A x, y : Before(Unpinned(o), x, y) <=> (Before(o.was.strip[o.w], x, y) /\ x \notin o.was.pinned /\ y \notin o.was.pinned)
        /\ UnitsOf(o) = ToSet(Units(o.was, Unpinned(o)))
        /\ \A u \in UnitsOf(o) : /\ u \in Seq(Tabs) /\ Head(u) \in ToSet(u)
                                 /\ \A x, y \in ToSet(u) : Before(u, x, y) <=> Before(o.was.strip[o.w], x, y)
    BY ONLY <2>2, UnitsOfIs
  <2> HIDE DEF Before
  <2> QED
    BY <1>1, <1>2, <2>1, <2>3
<1>4. Planned(b, s, plan)
  <2>1. s = Without(b.strip[op.w], b.pinned)
    BY <1>1, <1>2 DEF Unpinned
  <2>2. plan = RestInPlace(OldestFirst(ToSet(Units(b, s))), Units(b, s))
    BY <1>2, <2>1 DEF PlanWindowSort
  <2> QED
    BY <1>3, <2>2, PlanIs
<1>5. PICK todo : todo = [i \in 1..Len(plan) |-> [ts |-> plan[i], g |-> b.group[Head(plan[i])]]]
  OBVIOUS
<1>6. PICK T : T = [ts : us, g : Groups \cup {None}]
  OBVIOUS
<1>7. plan \in Seq(us) /\ Len(plan) \in Nat /\ \A i \in 1..Len(plan) : plan[i] \in us
  BY <1>3, <1>4 DEF Planned
<1>8. /\ todo \in Seq(T) /\ Len(todo) = Len(plan)
      /\ \A i \in 1..Len(plan) : todo[i].ts = plan[i] /\ todo[i].g = b.group[Head(plan[i])]
  <2>1. \A i \in 1..Len(plan) : todo[i] = [ts |-> plan[i], g |-> b.group[Head(plan[i])]]
    BY <1>5
  <2>2. \A i \in 1..Len(plan) : b.group[Head(plan[i])] \in Groups \cup {None}
    <3>1. TAKE i \in 1..Len(plan)
    <3>2. Head(plan[i]) \in Tabs
      BY <1>3, <1>7, Numbered
    <3> QED
      BY <1>0, <3>2, WellFormedIsReady, BrowserIs
  <2>3. \A i \in 1..Len(plan) : todo[i] \in T
    <3>1. \A x, y : x \in us /\ y \in Groups \cup {None} => [ts |-> x, g |-> y] \in T
      BY <1>6
    <3> QED
      BY <1>7, <2>1, <2>2, <3>1
  <2>4. todo \in [1..Len(plan) -> T]
    BY <1>5, <2>3
  <2> QED
    BY <1>7, <2>1, <2>4
<1>9. Left(todo) = ToSet(plan)
  <2>1. DOMAIN plan = 1..Len(plan)
    BY <1>7
  <2> QED
    BY <1>8, <2>1 DEF Left, ToSet
<1>10. PICK f, n : f = [pc |-> "sort next", todo |-> todo] /\ n = op'
  OBVIOUS
<1>11. DOMAIN f = {"pc", "todo"} /\ f.pc = "sort next" /\ f.todo = todo
  BY <1>10
<1>12. Wrote(op, n, f)
  BY <1>0, <1>2, <1>5, <1>10, MoveIs DEF SortOneWindow
<1>13. n.pc = "sort next" /\ n.todo = todo
  BY <1>11, <1>12, WroteIs
<1>14. SortStarted(n) /\ ~n.failed /\ n.was = op.was /\ n.w = op.w /\ UnitsOf(n) = us
  BY <1>1, <1>2, <1>11, <1>12, SortWrote
<1>15. Listing(n)
  <2>1. \A i, j \in 1..Len(plan) : i < j => Age(plan[i]) < Age(plan[j])
    BY <1>4 DEF Planned
  <2>2. \A i, j \in 1..Len(todo) : i < j => Age(todo[i].ts) < Age(todo[j].ts)
    BY <1>8, <2>1
  <2>3. \A i \in 1..Len(todo) : todo[i].g = b.group[Head(todo[i].ts)]
    BY <1>8
  <2> QED
    BY <1>1, <1>6, <1>8, <1>13, <1>14, <2>2, <2>3 DEF Listing
<1>16. Sorting(n, b, ToSet(plan))
  <2>1. \A u, v \in us \ ToSet(plan) : Age(u) < Age(v) => Ahead(b.strip[op.w], u, v)
    <3>1. SUFFICES ASSUME NEW u \in us \ ToSet(plan), NEW v \in us \ ToSet(plan), Age(u) < Age(v),
                          NEW x \in ToSet(u), NEW y \in ToSet(v)
                   PROVE  Before(b.strip[op.w], x, y)
      BY DEF Ahead
    <3>2. Before(Units(b, s), u, v)
      BY <1>3, <1>4, <3>1 DEF Planned
    <3>3. Before(s, x, y)
      BY <1>3, <3>2, UnitBefore
    <3> HIDE DEF Before
    <3> QED
      BY <1>3, <3>3
  <2>2. \A u \in us \ ToSet(plan), v \in ToSet(plan) : Age(u) < Age(v)
    BY <1>3, <1>4 DEF Planned
  <2> HIDE DEF Before
  <2>3. \A u \in us : \A x, y \in ToSet(u) : Before(b.strip[op.w], x, y) <=> Before(u, x, y)
    BY <1>3
  <2> QED
    BY <1>1, <1>14, <2>1, <2>2, <2>3 DEF Sorting
<1> QED
  BY <1>0, <1>1, <1>9, <1>10, <1>13, <1>14, <1>15, <1>16 DEF SortGoes, SortKnown

\* A unit of the window as the browser has it now: what groups it, and where it stands.
LEMMA UnitHere ==
    ASSUME NEW o, SortStarted(o), NEW B, WellFormed(B), B.group = o.was.group, NEW P, Sorting(o, B, P), NEW u \in UnitsOf(o)
    PROVE  LET t == Head(u)
               g == o.was.group[t]
           IN /\ t \in ToSet(B.strip[o.w]) /\ t \in OpenTabs(B) /\ g \in Groups \cup {None}
              /\ g = None => ToSet(u) = {t}
              /\ g # None => /\ Lives(B, g) /\ GroupWindow(B, g) = o.w
                             /\ ToSet(u) = {x \in ToSet(B.strip[o.w]) : B.group[x] = g}
<1>1. PICK A, w, t, g, s : A = o.was /\ w = o.w /\ t = Head(u) /\ g = A.group[t] /\ s = Unpinned(o)
  OBVIOUS
<1>2. Ready(A) /\ Ready(B) /\ w \in Windows /\ ToSet(B.strip[w]) = ToSet(A.strip[w])
  BY <1>1, WellFormedIsReady DEF SortStarted, Sorting
<1>3. /\ s \in Seq(Tabs) /\ IsInjective(s) /\ ToSet(s) = ToSet(A.strip[w]) \ A.pinned /\ UnitIn(A, s, u) /\ t \in ToSet(u)
      /\ ToSet(u) \subseteq ToSet(s)
  BY <1>1, UnitsOfIs
<1>4. ToSet(u) = {y \in ToSet(s) : Kin(A, t, y)}
  BY <1>3, UnitIsOnce
<1>5. t \in ToSet(B.strip[w]) /\ t \in OpenTabs(B) /\ t \in Tabs
  BY <1>2, <1>3, OpenIs, BrowserIs
<1>6. g \in Groups \cup {None}
  BY <1>1, <1>2, <1>5, BrowserIs
<1>7. ASSUME g = None PROVE ToSet(u) = {t}
  BY <1>1, <1>3, <1>4, <1>7 DEF Kin
<1>8. ASSUME g # None
      PROVE  Lives(B, g) /\ GroupWindow(B, g) = w /\ ToSet(u) = {x \in ToSet(B.strip[w]) : B.group[x] = g}
  <2>1. B.group[t] = g
    BY <1>1
  <2>2. Lives(B, g) /\ GroupWindow(B, g) \in Windows /\ t \in ToSet(B.strip[GroupWindow(B, g)])
    BY <1>2, <1>5, <1>8, <2>1, MembersAre
  <2>3. GroupWindow(B, g) = w
    BY <1>2, <1>5, <2>2 DEF Ready
  <2>4. \A x \in ToSet(B.strip[w]) : B.group[x] = g => x \notin A.pinned
    <3>1. \A x \in ToSet(B.strip[w]) : x \in Tabs
      BY <1>2, BrowserIs, OpenIs
    <3>2. \A x \in Tabs : A.group[x] # None => x \notin A.pinned
      BY <1>2 DEF Ready
    <3> QED
      BY <1>1, <1>8, <3>1, <3>2
  <2>5. \A x \in ToSet(s) : Kin(A, t, x) <=> B.group[x] = g
    BY <1>1, <1>8 DEF Kin
  <2> QED
    BY <1>2, <1>3, <1>4, <2>2, <2>3, <2>4, <2>5
<1> QED
  BY <1>1, <1>5, <1>6, <1>7, <1>8

LEMMA ListHolds ==
    ASSUME NEW o, SortStarted(o), Listing(o), o.todo # <<>>
    PROVE  /\ Head(o.todo).ts \in UnitsOf(o) /\ Head(o.todo).ts \in Left(o.todo) /\ Left(o.todo) \subseteq UnitsOf(o)
           /\ Left(Tail(o.todo)) = Left(o.todo) \ {Head(o.todo).ts}
           /\ \A v \in Left(o.todo) \ {Head(o.todo).ts} : Age(Head(o.todo).ts) < Age(v)
           /\ Head(o.todo).g = o.was.group[Head(Head(o.todo).ts)]
<1>1. PICK n : n = [todo |-> Tail(o.todo), was |-> o.was, w |-> o.w]
  OBVIOUS
<1>2. n.todo = Tail(o.todo) /\ n.was = o.was /\ n.w = o.w
  BY <1>1
<1> QED
  BY ONLY SortStarted(o), Listing(o), o.todo # <<>>, <1>2, ListIs

LEMMA SortMovesGroup ==
    ASSUME NEW o, SortStarted(o), NEW B, WellFormed(B), Listing(o), o.todo # <<>>, B.group = o.was.group, Sorting(o, B, Left(o.todo)),
           Head(o.todo).g # None, NEW C \in GroupsMove(B, Head(o.todo).g, Cardinality(Tabs) + 1)
    PROVE  /\ Lives(B, Head(o.todo).g)
           /\ C.group = B.group /\ Sorting(o, C, Left(Tail(o.todo)))
<1>1. PICK u, g, w, P : u = Head(o.todo).ts /\ g = Head(o.todo).g /\ w = o.w /\ P = Left(o.todo)
  OBVIOUS
<1>2. /\ u \in UnitsOf(o) /\ u \in P /\ P \subseteq UnitsOf(o) /\ Left(Tail(o.todo)) = P \ {u}
      /\ (\A v \in P \ {u} : Age(u) < Age(v)) /\ g = o.was.group[Head(u)]
  BY <1>1, ListHolds
<1>3. Lives(B, g) /\ GroupWindow(B, g) = w /\ ToSet(u) = {x \in ToSet(B.strip[w]) : B.group[x] = g}
  BY <1>1, <1>2, UnitHere
<1>4. PICK i : i = Cardinality(Tabs) + 1 /\ i \in Nat /\ i > Cardinality(Tabs)
  BY PastLast
<1>5. C \in GroupsMove(B, g, i)
  BY <1>1, <1>4
<1>6. C.group = B.group /\ C.pinned = B.pinned /\ \A v \in Windows : ToSet(C.strip[v]) = ToSet(B.strip[v])
  BY ONLY WellFormed(B), <1>3, <1>4, <1>5, GroupsMoveIs
<1>7. ToTheEnd(B.strip[w], C.strip[w], ToSet(u))
  <2>1. WellFormed(B) /\ Lives(B, g) /\ i \in Nat /\ i > Cardinality(Tabs) /\ C \in GroupsMove(B, g, i) /\ w = GroupWindow(B, g)
    BY <1>3, <1>4, <1>5
  <2>2. ToTheEnd(B.strip[w], C.strip[w], {x \in ToSet(B.strip[w]) : B.group[x] = g})
    BY ONLY <2>1, GroupLast
  <2> QED
    BY <1>3, <2>2
<1>8. Sorting(o, C, P \ {u})
  BY <1>1, <1>2, <1>6, <1>7, OneSorted
<1> QED
  BY <1>1, <1>2, <1>3, <1>6, <1>8

LEMMA SortMovesLoose ==
    ASSUME NEW o, SortStarted(o), NEW B, WellFormed(B), Listing(o), o.todo # <<>>, B.group = o.was.group, Sorting(o, B, Left(o.todo)),
           Head(o.todo).g = None, NEW t, t = Head(Head(o.todo).ts), NEW C \in TabsMove(B, t, o.w, Cardinality(Tabs) + 1)
    PROVE  /\ t \in OpenTabs(B) /\ t \in ToSet(C.strip[o.w]) /\ Sorting(o, C, Left(Tail(o.todo)))
           /\ \A x \in Tabs \ {t} : C.group[x] = o.was.group[x]
           /\ \A x \in ToSet(C.strip[o.w]) \ {t} : Before(C.strip[o.w], x, t)
<1>1. PICK u, w, P : u = Head(o.todo).ts /\ w = o.w /\ P = Left(o.todo)
  OBVIOUS
<1>2. /\ u \in UnitsOf(o) /\ u \in P /\ P \subseteq UnitsOf(o) /\ Left(Tail(o.todo)) = P \ {u}
      /\ (\A v \in P \ {u} : Age(u) < Age(v)) /\ o.was.group[t] = None
  BY <1>1, ListHolds
<1>3. t \in ToSet(B.strip[w]) /\ t \in OpenTabs(B) /\ ToSet(u) = {t}
  BY <1>1, <1>2, UnitHere
<1>4. PICK i : i = Cardinality(Tabs) + 1 /\ i \in Nat /\ i > Cardinality(Tabs)
  BY PastLast
<1>5. C \in TabsMove(B, t, w, i) /\ w \in Windows
  BY <1>1, <1>4 DEF SortStarted
<1>6. Moved(B, C, t, w) /\ C.strip[w] = Append(Lifted(B, {t})[w], t)
  <2>1. WellFormed(B) /\ t \in OpenTabs(B) /\ w \in Windows /\ i \in Nat /\ i > Cardinality(Tabs) /\ C \in TabsMove(B, t, w, i)
    BY <1>3, <1>4, <1>5
  <2> QED
    BY ONLY <2>1, MovedLast
<1>7. ToTheEnd(B.strip[w], C.strip[w], ToSet(u))
  <2>1. WellFormed(B) /\ w \in Windows /\ t \in ToSet(B.strip[w]) /\ C.strip[w] = Append(Lifted(B, {t})[w], t)
    BY <1>3, <1>5, <1>6
  <2>2. ToTheEnd(B.strip[w], C.strip[w], {t})
    BY ONLY <2>1, TabLast
  <2> QED
    BY <1>3, <2>2
<1>8. C.pinned = B.pinned /\ \A v \in Windows : ToSet(C.strip[v]) = ToSet(B.strip[v])
  <2>1. \A v \in Windows \ {w} : t \notin ToSet(B.strip[v])
    <3>1. Ready(B)
      BY WellFormedIsReady
    <3> QED
      BY <1>3, <1>5, <3>1 DEF Ready
  <2>2. \A v \in Windows : ToSet(C.strip[v]) = IF v = w THEN ToSet(B.strip[v]) \cup {t} ELSE ToSet(B.strip[v]) \ {t}
    BY <1>6 DEF Moved
  <2>3. C.pinned = B.pinned
    BY <1>6 DEF Moved
  <2>4. \A v \in Windows : ToSet(C.strip[v]) = ToSet(B.strip[v])
    <3>1. TAKE v \in Windows
    <3>2. CASE v = w
      BY <1>3, <2>2, <3>2, ZenonT(60)
    <3>3. CASE v # w
      <4>1. ToSet(C.strip[v]) = ToSet(B.strip[v]) \ {t} /\ t \notin ToSet(B.strip[v])
        BY <2>1, <2>2, <3>3
      <4>2. PICK X : X = ToSet(B.strip[v])
        OBVIOUS
      <4>3. X \ {t} = X
        BY <4>1, <4>2
      <4> QED
        BY <4>1, <4>2, <4>3
    <3> QED
      BY <3>2, <3>3
  <2> QED
    BY <2>3, <2>4
<1>9. Sorting(o, C, P \ {u})
  <2>1. /\ SortStarted(o) /\ P \subseteq UnitsOf(o) /\ Sorting(o, B, P) /\ u \in P /\ (\A v \in P \ {u} : Age(u) < Age(v))
        /\ C.pinned = B.pinned /\ (\A v \in Windows : ToSet(C.strip[v]) = ToSet(B.strip[v]))
        /\ ToTheEnd(B.strip[o.w], C.strip[o.w], ToSet(u))
    BY <1>1, <1>2, <1>7, <1>8
  <2> QED
    BY ONLY <2>1, OneSorted
<1>10. \A x \in Tabs \ {t} : C.group[x] = o.was.group[x]
  BY <1>6 DEF Moved
<1>11. \A x \in ToSet(C.strip[w]) \ {t} : Before(C.strip[w], x, t)
  <2> HIDE DEF Before
  <2> QED
    BY <1>3, <1>5, <1>7, <1>8 DEF ToTheEnd
<1> QED
  BY <1>1, <1>2, <1>3, <1>5, <1>8, <1>9, <1>10, <1>11

LEMMA SortMoves ==
    ASSUME BrowserSound, MoveUnitToEnd, SortGoes(op, b), ~dragging
    PROVE  SortGoes(op', b')
<1>0. op.pc = "sort next" /\ op.todo # <<>> /\ OpFields \subseteq DOMAIN op /\ WellFormed(b)
  BY StepsAt, WorkingTold DEF MoveUnitToEnd
<1>1. ~op.failed /\ SortStarted(op) /\ Listing(op) /\ b.group = op.was.group /\ Sorting(op, b, Left(op.todo))
  BY <1>0 DEF SortGoes, SortKnown
<1>2. PICK o, B, u, t : o = op /\ B = b /\ u = Head(op.todo) /\ t = Head(u.ts)
  OBVIOUS
<1>3. u.ts \in UnitsOf(o) /\ u.g = o.was.group[t]
  BY <1>0, <1>1, <1>2, ListHolds
<1>4. t \in OpenTabs(b) /\ (u.g # None => Lives(b, u.g))
  <2>1. PICK v : v = u.ts
    OBVIOUS
  <2>2. SortStarted(o) /\ WellFormed(B) /\ B.group = o.was.group /\ Sorting(o, B, Left(o.todo)) /\ v \in UnitsOf(o)
    BY <1>0, <1>1, <1>2, <1>3, <2>1
  <2>3. Head(v) \in OpenTabs(B) /\ (o.was.group[Head(v)] # None => Lives(B, o.was.group[Head(v)]))
    BY ONLY <2>2, UnitHere
  <2> QED
    BY <1>2, <1>3, <2>1, <2>3
<1>5. /\ b' \in IF u.g = None THEN TabsMove(b, t, op.w, Cardinality(Tabs) + 1) ELSE GroupsMove(b, u.g, Cardinality(Tabs) + 1)
      /\ Move(IF u.g = None THEN [pc |-> "sort loose"] ELSE [todo |-> Tail(op.todo)])
  BY <1>2, <1>4 DEF MoveUnitToEnd
<1>6. PICK f, e, n, C : f = [pc |-> "sort loose"] /\ e = [todo |-> Tail(op.todo)] /\ n = op' /\ C = b'
  OBVIOUS
<1>7. DOMAIN f = {"pc"} /\ f.pc = "sort loose" /\ DOMAIN e = {"todo"} /\ e.todo = Tail(op.todo)
  BY <1>6
<1>8. CASE u.g = None
  <2>1. Wrote(op, n, f)
    BY <1>0, <1>5, <1>6, <1>8, MoveIs
  <2>2. n.pc = "sort loose" /\ n.todo = op.todo
    BY <1>7, <2>1, WroteIs
  <2>3. SortStarted(n) /\ ~n.failed /\ n.was = op.was /\ n.w = op.w /\ UnitsOf(n) = UnitsOf(op)
    BY <1>1, <1>7, <2>1, SortWrote
  <2>4. C \in TabsMove(B, t, o.w, Cardinality(Tabs) + 1)
    BY <1>2, <1>5, <1>6, <1>8
  <2>5. /\ SortStarted(o) /\ WellFormed(B) /\ Listing(o) /\ o.todo # <<>> /\ B.group = o.was.group
        /\ Sorting(o, B, Left(o.todo)) /\ Head(o.todo).g = None /\ t = Head(Head(o.todo).ts)
    BY <1>0, <1>1, <1>2, <1>8
  <2>6. /\ t \in ToSet(C.strip[o.w]) /\ Sorting(o, C, Left(Tail(o.todo)))
        /\ \A x \in Tabs \ {t} : C.group[x] = o.was.group[x]
        /\ \A x \in ToSet(C.strip[o.w]) \ {t} : Before(C.strip[o.w], x, t)
    BY ONLY <2>4, <2>5, SortMovesLoose
  <2>7. Sorting(n, C, Left(Tail(op.todo)))
    BY <1>2, <2>3, <2>6, SortingAlike
  <2>8. Listing(n)
    BY <1>1, <2>2, <2>3 DEF Listing
  <2> HIDE DEF Before
  <2> QED
    BY <1>0, <1>2, <1>6, <1>8, <2>2, <2>3, <2>6, <2>7, <2>8 DEF SortGoes, SortKnown
<1>9. CASE u.g # None
  <2>1. Wrote(op, n, e)
    BY <1>0, <1>5, <1>6, <1>9, MoveIs
  <2>2. n.pc = "sort next" /\ n.todo = Tail(op.todo)
    BY <1>0, <1>7, <2>1, WroteIs
  <2>3. SortStarted(n) /\ ~n.failed /\ n.was = op.was /\ n.w = op.w /\ UnitsOf(n) = UnitsOf(op)
    BY <1>1, <1>7, <2>1, SortWrote
  <2>4. C \in GroupsMove(B, Head(o.todo).g, Cardinality(Tabs) + 1)
    BY <1>2, <1>5, <1>6, <1>9
  <2>5. /\ SortStarted(o) /\ WellFormed(B) /\ Listing(o) /\ o.todo # <<>> /\ B.group = o.was.group
        /\ Sorting(o, B, Left(o.todo)) /\ Head(o.todo).g # None
    BY <1>0, <1>1, <1>2, <1>9
  <2>6. C.group = B.group /\ Sorting(o, C, Left(Tail(o.todo)))
    BY ONLY <2>4, <2>5, SortMovesGroup
  <2>7. Sorting(n, C, Left(Tail(op.todo)))
    BY <1>2, <2>3, <2>6, SortingAlike
  <2>8. Listing(n)
    BY <1>0, <1>1, <2>2, <2>3, ListIs
  <2> QED
    BY <1>1, <1>2, <1>6, <2>2, <2>3, <2>6, <2>7, <2>8 DEF SortGoes, SortKnown
<1> QED
  BY <1>8, <1>9

\* The last tab of a strip leaves its group: the groups stand together as before.
LEMMA LooseLast ==
    ASSUME NEW B, WellFormed(B), NEW w \in Windows, NEW t \in ToSet(B.strip[w]),
           \A x \in ToSet(B.strip[w]) \ {t} : Before(B.strip[w], x, t), NEW C \in TabsUngroup(B, {t})
    PROVE  C.strip[w] = B.strip[w]
<1>1. Ready(B) /\ B \in Browsers
  BY WellFormedIsReady DEF Ready
<1>2. PICK s : s = B.strip[w] /\ s \in Seq(Tabs) /\ IsInjective(s)
  BY <1>1, BrowserIs
<1>3. Whole(B, s)
  <2>1. StandsTogether(B, s)
    BY <1>2 DEF WellFormed
  <2> QED
    BY <1>2, <2>1, WholeIs
<1>4. PICK h : h = [x \in Tabs |-> IF x \in {t} THEN None ELSE B.group[x]]
  OBVIOUS
<1>5. PICK R : R = [B EXCEPT !.group = h]
  OBVIOUS
<1>6. C \in Settled(R)
  BY <1>4, <1>5 DEF TabsUngroup
<1>7. /\ R.strip = B.strip /\ R.group = h /\ B.strip \in [Windows -> Seq(Tabs)]
      /\ DOMAIN R = DOMAIN B /\ R = [R EXCEPT !.strip = R.strip]
  BY <1>1, <1>5 DEF Browsers
<1>8. \A x \in Tabs : R.group[x] = IF x = t THEN None ELSE B.group[x]
  BY <1>4, <1>7
<1> HIDE DEF Before
<1>9. Whole(R, s)
  <2>1. SUFFICES ASSUME NEW x, NEW y, NEW z, Before(s, x, y), Before(s, y, z), Kin(R, x, z)
                 PROVE  Kin(R, x, y)
    BY DEF Whole
  <2>2. x \in ToSet(s) /\ y \in ToSet(s) /\ z \in ToSet(s) /\ x \in Tabs /\ y \in Tabs /\ z \in Tabs
    BY <1>2, <2>1, BeforeIn, Numbered
  <2>3. x # z
    <3>1. Before(s, x, z)
      BY <1>2, <2>1, Onwards
    <3> QED
      BY <1>2, <3>1, OnceIs
  <2>4. R.group[x] # None /\ R.group[x] = R.group[z]
    BY <2>1, <2>3 DEF Kin
  <2>5. x # t /\ z # t /\ Kin(B, x, z)
    BY <1>8, <2>2, <2>4 DEF Kin
  <2>6. Kin(B, x, y)
    BY <1>3, <2>1, <2>5 DEF Whole
  <2>7. y # t
    <3>1. Before(s, z, t)
      BY <1>2, <2>2, <2>5
    <3> QED
      BY <1>2, <2>1, <3>1, OneWay
  <2> QED
    BY <1>8, <2>2, <2>5, <2>6, <2>7 DEF Kin
<1>10. C.strip = [v \in Windows |-> FlattenSeq(Units(R, R.strip[v]))]
  BY <1>1, <1>5, <1>6 DEF Settled, Browsers
<1>11. C.strip[w] = Regrouped(R, s)
  BY <1>2, <1>7, <1>10 DEF Regrouped
<1> QED
  BY <1>2, <1>9, <1>11, WholeStays

LEMMA SortLoosens ==
    ASSUME BrowserSound, LooseAgain, SortGoes(op, b), ~dragging
    PROVE  SortGoes(op', b')
<1>0. op.pc = "sort loose" /\ OpFields \subseteq DOMAIN op /\ WellFormed(b)
  BY StepsAt, WorkingTold
<1>1. PICK t, w : t = Head(Head(op.todo).ts) /\ w = op.w
  OBVIOUS
<1>2. /\ ~op.failed /\ SortStarted(op) /\ Listing(op) /\ op.todo # <<>> /\ Head(op.todo).g = None /\ t \in ToSet(b.strip[w])
      /\ Sorting(op, b, Left(Tail(op.todo))) /\ (\A x \in Tabs \ {t} : b.group[x] = op.was.group[x])
      /\ \A x \in ToSet(b.strip[w]) \ {t} : Before(b.strip[w], x, t)
  BY <1>0, <1>1 DEF SortGoes, SortKnown
<1> HIDE DEF Before
<1>3. PICK o, B, C, n, e : o = op /\ B = b /\ C = b' /\ n = op' /\ e = [pc |-> "sort next", todo |-> Tail(op.todo)]
  OBVIOUS
<1>4. w \in Windows /\ o.was.group[t] = None /\ Ready(B) /\ Ready(o.was) /\ t \in Tabs /\ t \in OpenTabs(b)
  <2>1. w \in Windows /\ Ready(B) /\ Ready(o.was)
    BY <1>0, <1>1, <1>2, <1>3, WellFormedIsReady DEF SortStarted
  <2>2. Head(o.todo).g = o.was.group[Head(Head(o.todo).ts)]
    BY <1>2, <1>3, ListHolds
  <2>3. t \in OpenTabs(b)
    BY <1>2, <2>1, OpenIs
  <2> QED
    BY <1>1, <1>2, <1>3, <2>1, <2>2, <2>3, BrowserIs
<1>5. C.group = o.was.group /\ C.pinned = B.pinned /\ C.strip[w] = B.strip[w] /\ \A v \in Windows : ToSet(C.strip[v]) = ToSet(B.strip[v])
  <2>1. \A x \in Tabs \ {t} : B.group[x] = o.was.group[x]
    BY <1>2, <1>3
  <2>2. DOMAIN o.was.group = Tabs /\ o.was.group = [x \in Tabs |-> o.was.group[x]]
    BY <1>4 DEF Ready, Browsers
  <2>3. CASE b.group[t] # None
    <3>1. C \in TabsUngroup(B, {t})
      BY <1>1, <1>3, <1>4, <2>3 DEF LooseAgain
    <3>2. /\ WellFormed(C) /\ C.pinned = B.pinned /\ \A x \in Tabs : C.group[x] = IF x \in {t} THEN None ELSE B.group[x]
          /\ \A v \in Windows : ToSet(C.strip[v]) = ToSet(B.strip[v])
      <4>1. WellFormed(B)
        BY <1>0, <1>3
      <4> QED
        BY ONLY <3>1, <4>1, TabsUngroupIs
    <3>3. \A x \in Tabs : C.group[x] = o.was.group[x]
      BY <1>4, <2>1, <3>2
    <3>4. C.group = [x \in Tabs |-> C.group[x]]
      BY <3>2 DEF WellFormed, Browsers
    <3>5. C.strip[w] = B.strip[w]
      BY <1>0, <1>2, <1>3, <1>4, <3>1, LooseLast
    <3> QED
      BY <2>2, <3>2, <3>3, <3>4, <3>5
  <2>4. CASE b.group[t] = None
    <3>1. C = B
      BY <1>1, <1>3, <2>4 DEF LooseAgain
    <3>2. \A x \in Tabs : B.group[x] = o.was.group[x]
      BY <1>3, <1>4, <2>1, <2>4
    <3>3. B.group = [x \in Tabs |-> B.group[x]]
      BY <1>4 DEF Ready, Browsers
    <3> QED
      BY <2>2, <3>1, <3>2, <3>3
  <2> QED
    BY <2>3, <2>4
<1>6. DOMAIN e = {"pc", "todo"} /\ e.pc = "sort next" /\ e.todo = Tail(op.todo)
  BY <1>3
<1>7. Wrote(op, n, e)
  BY <1>0, <1>3, MoveIs DEF LooseAgain
<1>8. n.pc = "sort next" /\ n.todo = Tail(op.todo)
  BY <1>6, <1>7, WroteIs
<1>9. SortStarted(n) /\ ~n.failed /\ n.was = op.was /\ n.w = op.w /\ UnitsOf(n) = UnitsOf(op)
  BY <1>2, <1>6, <1>7, SortWrote
<1>10. Listing(n)
  BY <1>2, <1>8, <1>9, ListIs
<1>11. Sorting(n, C, Left(n.todo))
  BY <1>1, <1>2, <1>3, <1>5, <1>8, <1>9 DEF Sorting
<1> QED
  BY <1>3, <1>5, <1>8, <1>9, <1>10, <1>11 DEF SortGoes, SortKnown

LEMMA SortEnded ==
    ASSUME BrowserSound, SortEnds, SortGoes(op, b)
    PROVE  SortGoes(op', b')
<1>0. op.pc = "sort next" /\ op.todo = <<>> /\ OpFields \subseteq DOMAIN op /\ b' = b
  BY StepsAt, WorkingTold DEF SortEnds
<1>1. ~op.failed /\ SortStarted(op) /\ b.group = op.was.group /\ Sorting(op, b, Left(op.todo))
  BY <1>0 DEF SortGoes, SortKnown
<1>2. PICK f, n : f = [pc |-> "done"] /\ n = op'
  OBVIOUS
<1>3. DOMAIN f = {"pc"} /\ f.pc = "done"
  BY <1>2
<1>4. Wrote(op, n, f)
  BY <1>0, <1>2, MoveIs DEF SortEnds
<1>5. n.pc = "done"
  BY <1>3, <1>4, WroteIs
<1>6. SortStarted(n) /\ ~n.failed /\ n.was = op.was /\ n.w = op.w
  BY <1>1, <1>3, <1>4, SortWrote
<1>7. Left(op.todo) = {}
  <2>1. PICK s : s = op.todo
    OBVIOUS
  <2>2. s = <<>>
    BY <1>0, <2>1
  <2>3. Len(s) = 0
    BY ONLY <2>2
  <2>4. 1..Len(s) = {}
    BY ONLY <2>3
  <2> QED
    BY <2>1, <2>4 DEF Left
<1>8. Sorting(n, b, {})
  BY <1>1, <1>6, <1>7, SortingAlike
<1> QED
  BY <1>0, <1>1, <1>2, <1>5, <1>6, <1>8 DEF SortGoes, SortKnown

\* A window whose units have all gone where their ages say is sorted.
LEMMA SortedIs ==
    ASSUME NEW o, SortStarted(o), NEW B, WellFormed(B), B.group = o.was.group, Sorting(o, B, {})
    PROVE  LET units == Units(B, Without(B.strip[o.w], B.pinned))
           IN /\ \A i, j \in 1..Len(units) : i < j => Age(units[i]) < Age(units[j])
              /\ ToSet(units) = ToSet(Units(o.was, Without(o.was.strip[o.w], o.was.pinned)))
<1>1. PICK w, A, s, q, units : w = o.w /\ A = o.was /\ s = Unpinned(o) /\ q = Without(B.strip[w], B.pinned) /\ units = Units(B, q)
  OBVIOUS
<1> HIDE DEF Before
<1>2. Ready(B) /\ w \in Windows
  BY <1>1, WellFormedIsReady DEF SortStarted
<1>3. PICK D, h : D = B.pinned /\ h = B.strip[w]
  OBVIOUS
<1>4. h \in Seq(Tabs) /\ IsInjective(h)
  BY <1>2, <1>3, BrowserIs
<1>5. /\ q \in Seq(Tabs) /\ IsInjective(q) /\ ToSet(q) = ToSet(h) \ D
      /\ \A x, y : Before(q, x, y) <=> (Before(h, x, y) /\ x \notin D /\ y \notin D)
  <2>1. /\ Without(h, D) \in Seq(Tabs) /\ IsInjective(Without(h, D)) /\ ToSet(Without(h, D)) = ToSet(h) \ D
        /\ \A x, y : Before(Without(h, D), x, y) <=> (Before(h, x, y) /\ x \notin D /\ y \notin D)
    BY ONLY <1>4, WithoutOnce
  <2> QED
    BY <1>1, <1>3, <2>1
<1>6. Whole(B, q)
  <2>1. q = Lifted(B, D)[w]
    BY <1>1, <1>2, <1>3 DEF Lifted
  <2> QED
    BY <1>2, <2>1, WholeWithout
<1>7. /\ s \in Seq(Tabs) /\ IsInjective(s) /\ ToSet(s) = ToSet(A.strip[w]) \ A.pinned
      /\ \A u : u \in UnitsOf(o) <=> UnitIn(A, s, u)
  BY <1>1, UnitsOfIs
<1>8. ToSet(q) = ToSet(s)
  BY <1>1, <1>2, <1>3, <1>5, <1>7 DEF Sorting
<1>9. \A x, y : Kin(B, x, y) <=> Kin(A, x, y)
  BY <1>1 DEF Kin
<1>10. ASSUME NEW u, UnitIn(A, s, u) PROVE UnitIn(B, q, u)
  <2>1. \A x, y \in ToSet(u) : Before(h, x, y) <=> Before(u, x, y)
    BY <1>1, <1>3, <1>7, <1>10 DEF Sorting
  <2>2. \A x, y : Before(u, x, y) => x \in ToSet(u) /\ y \in ToSet(u)
    BY BeforeIn
  <2>3. ToSet(u) \subseteq ToSet(q)
    BY <1>7, <1>8, <1>10, UnitIsOnce
  <2> QED
    BY <1>5, <1>8, <1>9, <1>10, <2>1, <2>2, <2>3 DEF UnitIn
<1>11. ASSUME NEW v, UnitIn(B, q, v) PROVE UnitIn(A, s, v)
  <2>1. v # <<>> /\ Head(v) \in ToSet(v) /\ ToSet(v) \subseteq ToSet(q)
    BY <1>5, <1>11, UnitIsOnce
  <2>2. PICK u \in ToSet(Units(A, s)) : Head(v) \in ToSet(u)
    BY <1>7, <1>8, <2>1, UnitsHold
  <2>3. UnitIn(A, s, u)
    BY <1>7, <2>2, UnitsHold
  <2>4. UnitIn(B, q, u)
    BY <1>10, <2>3
  <2>5. u = v
    BY <1>5, <1>11, <2>1, <2>2, <2>4, UnitsApart
  <2> QED
    BY <2>3, <2>5
<1>12. \A u : u \in ToSet(units) <=> u \in ToSet(Units(A, s))
  BY <1>1, <1>5, <1>7, <1>10, <1>11, UnitsHold
<1>13. ASSUME NEW i \in 1..Len(units), NEW j \in 1..Len(units), i < j PROVE Age(units[i]) < Age(units[j])
  <2>1. PICK u, v : u = units[i] /\ v = units[j]
    OBVIOUS
  <2>2. units \in Seq(Seq(Tabs)) /\ IsInjective(units)
    BY <1>1, <1>5, UnitsHold
  <2>3. i \in DOMAIN units /\ j \in DOMAIN units
    BY <2>2
  <2>4. Before(units, u, v) /\ u # v
    BY <1>13, <2>1, <2>2, <2>3 DEF Before, IsInjective
  <2>5. u \in ToSet(units) /\ v \in ToSet(units)
    BY <2>4, BeforeIn
  <2>6. u \in UnitsOf(o) /\ v \in UnitsOf(o)
    BY <1>1, <1>12, <2>5 DEF UnitsOf
  <2>7. Age(u) \in ToSet(u) /\ Age(v) \in ToSet(v) /\ Age(u) \in Nat /\ Age(v) \in Nat
    BY <2>6, UnitsOfIs
  <2>8. Age(u) # Age(v)
    BY <2>4, <2>6, <2>7, UnitsOfIs
  <2>9. Before(q, Age(u), Age(v))
    BY <1>1, <1>5, <1>6, <2>4, <2>7, UnitBefore
  <2>10. ~(Age(v) < Age(u))
    <3>1. SUFFICES ASSUME Age(v) < Age(u) PROVE FALSE
      OBVIOUS
    <3>2. Before(h, Age(v), Age(u))
      BY <1>1, <1>3, <2>6, <2>7, <3>1 DEF Sorting, Ahead
    <3>3. Before(h, Age(u), Age(v))
      BY <1>5, <2>9
    <3> QED
      BY <1>4, <3>2, <3>3, OneWay
  <2> QED
    BY <2>1, <2>7, <2>8, <2>10
<1>14. ToSet(units) = ToSet(Units(A, s))
  BY <1>12
<1> QED
  BY <1>1, <1>13, <1>14 DEF Unpinned

(***************************************************************************)
(* Gathering tabs into a group in the order they were named.               *)
(***************************************************************************)
\* A strip without one of its tabs, place by place.
LEMMA WithoutOne ==
    ASSUME NEW s \in Seq(Tabs), IsInjective(s), NEW k \in 1..Len(s), NEW l, l = Without(s, {s[k]})
    PROVE  /\ l \in Seq(Tabs) /\ Len(l) = Len(s) - 1
           /\ \A j \in 1..(k - 1) : l[j] = s[j]
           /\ \A j \in k..(Len(s) - 1) : l[j] = s[j + 1]
<1>1. Len(s) \in Nat /\ DOMAIN s = 1..Len(s) /\ \A i \in 1..Len(s) : s[i] \in Tabs
  BY Numbered
<1>2. PICK q : q = [j \in 1..(Len(s) - 1) |-> IF j < k THEN s[j] ELSE s[j + 1]]
  OBVIOUS
<1>3. q \in Seq(Tabs) /\ Len(q) = Len(s) - 1 /\ DOMAIN q = 1..(Len(s) - 1)
  <2>1. \A j \in 1..(Len(s) - 1) : j \in 1..Len(s) /\ j + 1 \in 1..Len(s)
    BY <1>1
  <2>2. q \in [1..(Len(s) - 1) -> Tabs]
    BY <1>1, <1>2, <2>1
  <2>3. Len(s) - 1 \in Nat
    BY <1>1
  <2> QED
    BY <2>2, <2>3
<1>4. \A i, j \in 1..(Len(s) - 1) : i < j => \E m, n \in 1..Len(s) : m < n /\ m # k /\ n # k /\ q[i] = s[m] /\ q[j] = s[n]
  <2>1. SUFFICES ASSUME NEW i \in 1..(Len(s) - 1), NEW j \in 1..(Len(s) - 1), i < j
                 PROVE  \E m, n \in 1..Len(s) : m < n /\ m # k /\ n # k /\ q[i] = s[m] /\ q[j] = s[n]
    OBVIOUS
  <2>2. PICK m, n : m = (IF i < k THEN i ELSE i + 1) /\ n = IF j < k THEN j ELSE j + 1
    OBVIOUS
  <2>3. m \in 1..Len(s) /\ n \in 1..Len(s) /\ m < n /\ m # k /\ n # k
    BY <1>1, <2>1, <2>2
  <2>4. q[i] = s[m] /\ q[j] = s[n]
    BY <1>2, <2>2
  <2> QED
    BY <2>3, <2>4
<1>5. \A x, y : Before(q, x, y) => Before(s, x, y) /\ x # s[k] /\ y # s[k]
  <2>1. SUFFICES ASSUME NEW x, NEW y, Before(q, x, y) PROVE Before(s, x, y) /\ x # s[k] /\ y # s[k]
    OBVIOUS
  <2>2. PICK i, j \in 1..(Len(s) - 1) : i < j /\ q[i] = x /\ q[j] = y
    BY <1>3, <2>1 DEF Before
  <2>3. PICK m, n \in 1..Len(s) : m < n /\ m # k /\ n # k /\ q[i] = s[m] /\ q[j] = s[n]
    BY <1>4, <2>2
  <2> QED
    BY <1>1, <2>2, <2>3 DEF Before, IsInjective
<1> HIDE DEF Before
<1>6. IsInjective(q)
  <2>1. \A x : ~Before(s, x, x)
    BY OnceIs
  <2>2. \A x : ~Before(q, x, x)
    BY <1>5, <2>1
  <2> QED
    BY <1>3, <2>2, OnceIs
<1>7. ToSet(q) = ToSet(s) \ {s[k]}
  <2>1. ASSUME NEW j \in 1..(Len(s) - 1) PROVE q[j] \in ToSet(s) /\ q[j] # s[k]
    <3>1. PICK m : m = IF j < k THEN j ELSE j + 1
      OBVIOUS
    <3>2. m \in 1..Len(s) /\ m # k /\ q[j] = s[m]
      BY <1>1, <1>2, <3>1
    <3> QED
      BY <1>1, <3>2 DEF ToSet, IsInjective
  <2>2. ASSUME NEW m \in 1..Len(s), s[m] # s[k] PROVE \E j \in 1..(Len(s) - 1) : q[j] = s[m]
    <3>1. m # k
      BY <2>2
    <3>2. CASE m < k
      BY <1>1, <1>2, <3>2
    <3>3. CASE m > k
      <4>1. m - 1 \in 1..(Len(s) - 1) /\ ~(m - 1 < k) /\ (m - 1) + 1 = m
        BY <1>1, <3>3
      <4>2. q[m - 1] = s[m]
        BY <1>2, <4>1
      <4> QED
        BY <4>1, <4>2
    <3> QED
      BY <1>1, <3>1, <3>2, <3>3
  <2> QED
    BY <1>1, <1>3, <2>1, <2>2 DEF ToSet
<1>8. q = l
  <2>1. PICK S : S = {s[k]}
    OBVIOUS
  <2>2. /\ Without(s, S) \in Seq(Tabs) /\ IsInjective(Without(s, S)) /\ ToSet(Without(s, S)) = ToSet(s) \ S
        /\ \A x, y : Before(Without(s, S), x, y) <=> (Before(s, x, y) /\ x \notin S /\ y \notin S)
    BY ONLY s \in Seq(Tabs), IsInjective(s), WithoutOnce
  <2>3. l \in Seq(Tabs) /\ IsInjective(l) /\ ToSet(l) = ToSet(q) /\ \A x, y : Before(q, x, y) => Before(l, x, y)
    BY <1>5, <1>7, <2>1, <2>2
  <2> QED
    BY ONLY <1>3, <1>6, <2>3, SameSeq
<1>9. /\ \A j \in 1..(k - 1) : q[j] = s[j]
      /\ \A j \in k..(Len(s) - 1) : q[j] = s[j + 1]
  BY <1>1, <1>2
<1> QED
  BY <1>3, <1>8, <1>9

\* A set listed has all its elements in the list.
LEMMA ListedAll ==
    ASSUME NEW S, IsFiniteSet(S)
    PROVE  SetToSeq(S) \in Seq(S) /\ ToSet(SetToSeq(S)) = S
<1>1. PICK n : n = Cardinality(S) /\ n \in Nat
  BY FS_CardinalityType
<1>2. \E f \in [1..n -> S] : IsInjective(f)
  <2>1. PICK f : f \in Bijection(1..n, S)
    BY <1>1, FS_CardinalityType DEF ExistsBijection
  <2> QED
    BY <2>1 DEF Bijection, Injection
<1>3. PICK q : q = SetToSeq(S) /\ q \in [1..n -> S] /\ IsInjective(q)
  BY <1>1, <1>2 DEF SetToSeq
<1>4. q \in Seq(S) /\ DOMAIN q = 1..n
  BY <1>1, <1>3
<1>5. q \in Injection(1..n, S)
  BY <1>3 DEF Injection
<1>6. Cardinality(1..n) = n
  BY <1>1, FS_Interval
<1>7. q \in Surjection(1..n, S)
  BY <1>1, <1>5, <1>6, FS_Injection
<1>8. \A x \in S : \E i \in 1..n : q[i] = x
  BY <1>7 DEF Surjection
<1>9. ToSet(q) = S
  BY <1>3, <1>4, <1>8 DEF ToSet
<1> QED
  BY <1>3, <1>4, <1>9

LEMMA AllInPlace ==
    ASSUME NEW T, NEW s \in Seq(T)
    PROVE  RestInPlace(s, s) = <<>>
<1>1. PICK K : K = {k \in 0..Len(s) : SubSeq(s, 1, k) = SubSeq(s, 1, k)}
  OBVIOUS
<1>2. K = 0..Len(s) /\ Len(s) \in Nat /\ Len(s) \in K
  BY <1>1
<1>3. Max(K) \in K /\ Max(K) >= Len(s)
  BY <1>2, GreatestOf
<1>4. Max(K) = Len(s)
  BY <1>2, <1>3
<1>5. RestInPlace(s, s) = SubSeq(s, Len(s) + 1, Len(s))
  BY <1>1, <1>4 DEF RestInPlace
<1> QED
  BY <1>2, <1>5

\* The members of a group are those in its window.
LEMMA MembersThere ==
    ASSUME NEW B, WellFormed(B), NEW g, Lives(B, g), NEW w, w = GroupWindow(B, g)
    PROVE  /\ Only(B.strip[w], InGroup(B, g)) = Members(B, g)
           /\ Members(B, g) \in Seq(Tabs) /\ IsInjective(Members(B, g)) /\ Members(B, g) # <<>>
           /\ ToSet(Members(B, g)) = {x \in ToSet(B.strip[w]) : B.group[x] = g}
           /\ \A x, y \in ToSet(Members(B, g)) : Before(Members(B, g), x, y) <=> Before(B.strip[w], x, y)
<1>1. PICK m, s, q, S : m = Members(B, g) /\ s = B.strip[w] /\ S = InGroup(B, g) /\ q = Only(s, S)
  OBVIOUS
<1> HIDE DEF Before
<1>2. w \in Windows /\ ToSet(m) = {x \in ToSet(s) : B.group[x] = g} /\ \A x, y \in ToSet(m) : Before(m, x, y) <=> Before(s, x, y)
  BY <1>1, LivesOrder
<1>3. m \in Seq(Tabs) /\ IsInjective(m) /\ m # <<>> /\ s \in Seq(Tabs) /\ IsInjective(s)
  BY <1>1, <1>2, WellFormedIsReady, MembersAre, BrowserIs DEF Lives
<1>4. /\ q \in Seq(Tabs) /\ ToSet(q) = ToSet(s) \cap S
      /\ \A x, y : Before(q, x, y) <=> (Before(s, x, y) /\ x \in S /\ y \in S)
  BY <1>1, <1>3, OnlyIs
<1>5. ToSet(q) = ToSet(m)
  <2>1. ToSet(s) \subseteq Tabs
    BY <1>3, Numbered
  <2> QED
    BY <1>1, <1>2, <1>4, <2>1 DEF InGroup
<1>6. IsInjective(q)
  BY <1>1, <1>3, OnlyOnce DEF Once
<1>7. \A x, y : Before(q, x, y) => Before(m, x, y)
  <2>1. \A x, y : Before(q, x, y) => x \in ToSet(m) /\ y \in ToSet(m)
    BY <1>5, BeforeIn
  <2> QED
    BY <1>2, <1>4, <2>1
<1>8. q = m
  BY ONLY <1>3, <1>4, <1>5, <1>6, <1>7, SameSeq
<1> QED
  BY <1>1, <1>2, <1>3, <1>8

LEMMA LivesHere ==
    ASSUME NEW B, WellFormed(B), NEW w \in Windows, NEW x \in ToSet(B.strip[w]), NEW g, B.group[x] = g, g # None
    PROVE  Lives(B, g) /\ GroupWindow(B, g) = w /\ g \in Groups
<1>1. Ready(B) /\ x \in OpenTabs(B)
  BY WellFormedIsReady, OpenIs
<1>2. Lives(B, g) /\ x \in ToSet(B.strip[GroupWindow(B, g)])
  BY <1>1, MembersAre
<1>3. GroupWindow(B, g) \in Windows /\ g \in Groups
  BY <1>1, <1>2, MembersAre
<1> QED
  BY <1>1, <1>2, <1>3 DEF Ready

\* Tabs placed after one of a strip: what stands before what.
LEMMA PlacedIs ==
    ASSUME NEW l \in Seq(Tabs), IsInjective(l), NEW q \in Seq(Tabs), NEW a \in 1..Len(l), NEW e, e = l[a]
    PROVE  \A x, y : Before(Spliced(l, a, q), x, y) <=>
             \/ Before(l, x, y) \/ Before(q, x, y)
             \/ (y \in ToSet(q) /\ (x = e \/ Before(l, x, e)))
             \/ (x \in ToSet(q) /\ Before(l, e, y))
<1>1. Len(l) \in Nat /\ DOMAIN l = 1..Len(l) /\ a \in 0..Len(l)
  BY Numbered
<1>2. \A x : (\E j \in 1..a : l[j] = x) <=> (x = e \/ Before(l, x, e))
  <2>1. TAKE x
  <2>2. ASSUME NEW j \in 1..a, l[j] = x PROVE x = e \/ Before(l, x, e)
    <3>1. CASE j = a
      BY <2>2, <3>1
    <3>2. CASE j # a
      BY <1>1, <2>2, <3>2 DEF Before
    <3> QED
      BY <3>1, <3>2
  <2>3. ASSUME Before(l, x, e) PROVE \E j \in 1..a : l[j] = x
    <3>1. PICK i, j \in DOMAIN l : i < j /\ l[i] = x /\ l[j] = e
      BY <2>3 DEF Before
    <3>2. j = a
      BY <1>1, <3>1 DEF IsInjective
    <3> QED
      BY <1>1, <3>1, <3>2
  <2>4. x = e => \E j \in 1..a : l[j] = x
    OBVIOUS
  <2> QED
    BY <2>2, <2>3, <2>4
<1>3. \A y : (\E j \in (a+1)..Len(l) : l[j] = y) <=> Before(l, e, y)
  <2>1. TAKE y
  <2>2. ASSUME NEW j \in (a+1)..Len(l), l[j] = y PROVE Before(l, e, y)
    BY <1>1, <2>2 DEF Before
  <2>3. ASSUME Before(l, e, y) PROVE \E j \in (a+1)..Len(l) : l[j] = y
    <3>1. PICK i, j \in DOMAIN l : i < j /\ l[i] = e /\ l[j] = y
      BY <2>3 DEF Before
    <3>2. i = a
      BY <1>1, <3>1 DEF IsInjective
    <3> QED
      BY <1>1, <3>1, <3>2
  <2> QED
    BY <2>2, <2>3
<1>4. \A x, y : Before(Spliced(l, a, q), x, y) <=>
         \/ Before(l, x, y) \/ Before(q, x, y)
         \/ (y \in ToSet(q) /\ \E j \in 1..a : l[j] = x)
         \/ (x \in ToSet(q) /\ \E j \in (a+1)..Len(l) : l[j] = y)
  BY <1>1, SplicedIs
<1> HIDE DEF Before
<1> QED
  BY <1>2, <1>3, <1>4

\* Tabs placed after the last of a group, in that group: the groups stand together as before.
LastAt(B, l, a, g) ==
  a \in 1..Len(l) /\ B.group[l[a]] = g /\ \A x \in ToSet(l) : B.group[x] = g => x = l[a] \/ Before(l, x, l[a])

BehindLast(B, R, l, q, a, g) ==
  /\ l \in Seq(Tabs) /\ IsInjective(l) /\ Whole(B, l) /\ q \in Seq(Tabs) /\ g # None
  /\ (\A x \in ToSet(l) : R.group[x] = B.group[x] /\ x \notin ToSet(q)) /\ (\A x \in ToSet(q) : R.group[x] = g)
  /\ LastAt(B, l, a, g)

LEMMA WholePlaced ==
    ASSUME NEW B, NEW R, NEW l, NEW q, NEW a, NEW g, BehindLast(B, R, l, q, a, g)
    PROVE  Whole(R, Spliced(l, a, q))
<1>0. PICK e : e = l[a]
  OBVIOUS
<1>a. /\ l \in Seq(Tabs) /\ IsInjective(l) /\ Whole(B, l) /\ q \in Seq(Tabs) /\ g # None
      /\ (\A x \in ToSet(l) : R.group[x] = B.group[x] /\ x \notin ToSet(q)) /\ (\A x \in ToSet(q) : R.group[x] = g)
      /\ a \in 1..Len(l) /\ e = l[a] /\ B.group[e] = g
      /\ \A x \in ToSet(l) : B.group[x] = g => x = e \/ Before(l, x, e)
  <2> HIDE DEF Before
  <2> QED
    BY <1>0 DEF BehindLast, LastAt
<1> USE <1>a
<1>1. PICK s : s = Spliced(l, a, q)
  OBVIOUS
<1>2. /\ \A x, y : Before(s, x, y) <=>
           \/ Before(l, x, y) \/ Before(q, x, y)
           \/ (y \in ToSet(q) /\ (x = e \/ Before(l, x, e)))
           \/ (x \in ToSet(q) /\ Before(l, e, y))
      /\ \A x, y : Before(l, x, y) => x \in ToSet(l) /\ y \in ToSet(l)
      /\ \A x, y : Before(q, x, y) => x \in ToSet(q) /\ y \in ToSet(q)
      /\ \A x, y : Before(l, x, y) => ~Before(l, y, x)
      /\ \A x, y, z : Before(l, x, y) /\ Before(l, y, z) => Before(l, x, z)
      /\ e \in ToSet(l)
  <2>1. e \in ToSet(l)
    BY Numbered DEF ToSet
  <2> QED
    BY <1>1, <2>1, PlacedIs, BeforeIn, OneWay, Onwards
<1>3. SUFFICES ASSUME NEW x, NEW y, NEW z, Before(s, x, y), Before(s, y, z), Kin(R, x, z)
               PROVE  Kin(R, x, y)
  BY <1>1 DEF Whole
<1> HIDE DEF Before, Kin
<1>4. \A u, v : u \in ToSet(l) /\ v \in ToSet(l) => (Kin(R, u, v) <=> Kin(B, u, v))
  BY DEF Kin
<1>5. \A u, v : u \in ToSet(q) /\ v \in ToSet(l) => (Kin(R, u, v) <=> B.group[v] = g) /\ (Kin(R, v, u) <=> B.group[v] = g)
  BY DEF Kin
<1>6. \A u, v : u \in ToSet(q) /\ v \in ToSet(q) => Kin(R, u, v)
  BY DEF Kin
<1>7. \A u \in ToSet(l) : B.group[u] = g <=> Kin(B, u, e)
  BY <1>2 DEF Kin
<1>8. \A u, v, t : Before(l, u, v) /\ Before(l, v, t) /\ Kin(B, u, t) => Kin(B, u, v)
  BY DEF Whole
<1>9. \A u, v, t : (Kin(B, u, v) => Kin(B, v, u)) /\ (Kin(B, u, v) /\ Kin(B, v, t) => Kin(B, u, t))
  BY KinIs
<1>10. x \in ToSet(l) \cup ToSet(q) /\ y \in ToSet(l) \cup ToSet(q) /\ z \in ToSet(l) \cup ToSet(q)
  BY <1>2, <1>3
<1>11. CASE x \in ToSet(q)
  <2>1. CASE y \in ToSet(q)
    BY <1>6, <1>11, <2>1
  <2>2. CASE y \in ToSet(l)
    <3>1. Before(l, e, y) /\ Before(l, y, z)
      BY <1>2, <1>3, <1>11, <2>2
    <3>2. z \in ToSet(l) /\ B.group[z] = g
      BY <1>2, <1>3, <1>5, <1>11, <3>1
    <3> QED
      BY <1>2, <3>1, <3>2
  <2> QED
    BY <1>10, <2>1, <2>2
<1>12. CASE x \in ToSet(l) /\ y \in ToSet(l) /\ z \in ToSet(l)
  BY <1>2, <1>3, <1>4, <1>8, <1>12
<1>13. CASE x \in ToSet(l) /\ y \in ToSet(l) /\ z \in ToSet(q)
  <2>1. Before(l, x, y) /\ (y = e \/ Before(l, y, e)) /\ Kin(B, x, e)
    BY <1>2, <1>3, <1>5, <1>7, <1>13
  <2> QED
    BY <1>4, <1>8, <1>13, <2>1
<1>14. CASE x \in ToSet(l) /\ y \in ToSet(q) /\ z \in ToSet(q)
  BY <1>3, <1>5, <1>14
<1>15. CASE x \in ToSet(l) /\ y \in ToSet(q) /\ z \in ToSet(l)
  <2>1. (x = e \/ Before(l, x, e)) /\ Before(l, e, z) /\ Kin(B, x, z)
    BY <1>2, <1>3, <1>4, <1>15
  <2>2. Kin(B, x, e)
    <3>1. CASE x = e
      BY <3>1, KinIs
    <3>2. CASE Before(l, x, e)
      BY <1>8, <2>1, <3>2
    <3> QED
      BY <2>1, <3>1, <3>2
  <2> QED
    BY <1>5, <1>7, <1>15, <2>2
<1> QED
  BY <1>10, <1>11, <1>12, <1>13, <1>14, <1>15

\* A member of a group that goes to the place of its last: it lands behind the last of the others.
Turn(B, s, g, t, i, l) == i \in 1..Len(s) /\ Len(l) = Len(s) - 1 /\ LastAt(B, l, i - 1, g)

LEMMA LastOther ==
    ASSUME NEW B, WellFormed(B), NEW w \in Windows, NEW g \in Groups, NEW t \in ToSet(Only(B.strip[w], InGroup(B, g))),
           NEW o \in ToSet(Only(B.strip[w], InGroup(B, g))), o # t
    PROVE  Turn(B, B.strip[w], g, t, Find(B.strip[w], Last(Only(B.strip[w], InGroup(B, g)))), Lifted(B, {t})[w])
<1>0. PICK s, span, i, l : /\ s = B.strip[w] /\ span = Only(s, InGroup(B, g))
                           /\ i = Find(s, Last(span)) /\ l = Lifted(B, {t})[w]
  OBVIOUS
<1>a. t \in ToSet(span) /\ o \in ToSet(span)
  BY <1>0
<1> SUFFICES i \in 1..Len(s) /\ Len(l) = Len(s) - 1 /\ LastAt(B, l, i - 1, g)
  BY <1>0 DEF Turn
<1> USE <1>0, <1>a DEF LastAt
<1>1. s \in Seq(Tabs) /\ IsInjective(s) /\ Whole(B, s) /\ g # None
  BY WellFormedIs, WellFormedIsReady, BrowserIs, WholeIs
<1>2. /\ span \in Seq(Tabs) /\ ToSet(span) = {x \in ToSet(s) : B.group[x] = g}
      /\ \A x, y : Before(span, x, y) => Before(s, x, y)
  <2>1. /\ span \in Seq(Tabs) /\ ToSet(span) = ToSet(s) \cap InGroup(B, g)
        /\ \A x, y : Before(span, x, y) => Before(s, x, y)
    BY <1>1, OnlyIs
  <2>2. ToSet(s) \subseteq Tabs
    BY <1>1, Numbered
  <2> QED
    BY <2>1, <2>2 DEF InGroup
<1>3. PICK z : z = Last(span)
  OBVIOUS
<1>4. z \in ToSet(span) /\ \A x \in ToSet(span) : x = z \/ Before(s, x, z)
  <2>1. span # <<>>
    BY DEF ToSet
  <2> QED
    BY <1>2, <1>3, <2>1, LastIs
<1>5. i \in 1..Len(s) /\ s[i] = z /\ Len(s) \in Nat /\ DOMAIN s = 1..Len(s)
  BY <1>1, <1>2, <1>3, <1>4, FindIs, Numbered
<1>6. PICK k \in 1..Len(s) : s[k] = t
  BY <1>2, <1>5 DEF ToSet
<1>7. /\ l \in Seq(Tabs) /\ Len(l) = Len(s) - 1
      /\ \A j \in 1..(k - 1) : l[j] = s[j]
      /\ \A j \in k..(Len(s) - 1) : l[j] = s[j + 1]
  <2>1. l = Without(s, {s[k]})
    BY <1>6 DEF Lifted
  <2> QED
    BY <1>1, <2>1, WithoutOne, ZenonT(60)
<1>8. \A x, y : Before(s, x, y) <=> \E j, m \in 1..Len(s) : j < m /\ s[j] = x /\ s[m] = y
  BY <1>5 DEF Before
<1>9. /\ ToSet(l) = ToSet(s) \ {t}
      /\ \A x, y : Before(l, x, y) <=> (Before(s, x, y) /\ x # t /\ y # t)
  <2>1. PICK S : S = {t}
    OBVIOUS
  <2>2. l = Without(s, S)
    BY <2>1 DEF Lifted
  <2>3. ToSet(l) = ToSet(s) \ S /\ \A x, y : Before(l, x, y) <=> (Before(s, x, y) /\ x \notin S /\ y \notin S)
    <3>1. s \in Seq(Tabs) /\ IsInjective(s)
      BY <1>1
    <3> HIDE DEF Before
    <3> QED
      BY ONLY <2>2, <3>1, WithoutOnce
  <2> HIDE DEF Before
  <2> QED
    BY <2>1, <2>3
<1> HIDE DEF Before
<1>10. CASE z = t
  <2>1. k = i
    BY <1>1, <1>5, <1>6, <1>10 DEF IsInjective
  <2>2. PICK j \in 1..Len(s) : j < i /\ s[j] = o
    <3>1. Before(s, o, z)
      BY <1>4, <1>10
    <3>2. PICK j, m \in 1..Len(s) : j < m /\ s[j] = o /\ s[m] = z
      BY <1>8, <3>1
    <3>3. m = i
      BY <1>1, <1>5, <3>2 DEF IsInjective
    <3> QED
      BY <3>2, <3>3
  <2>3. i - 1 \in 1..Len(l) /\ l[i - 1] = s[i - 1] /\ i - 1 \in 1..Len(s)
    <3>1. i - 1 \in 1..(k - 1) /\ i - 1 \in 1..(Len(s) - 1) /\ i - 1 \in 1..Len(s)
      BY <1>5, <2>1, <2>2
    <3> QED
      BY <1>7, <3>1
  <2>4. PICK e : e = s[i - 1]
    OBVIOUS
  <2>5. B.group[o] = g /\ B.group[t] = g
    BY <1>2
  <2>6. B.group[e] = g
    <3>1. CASE j = i - 1
      BY <2>2, <2>4, <2>5, <3>1
    <3>2. CASE j # i - 1
      <4>1. Before(s, o, e)
        BY <1>8, <2>2, <2>3, <2>4, <3>2, <1>5
      <4>2. Before(s, e, t)
        BY <1>5, <1>8, <1>10, <2>3, <2>4
      <4>3. Kin(B, o, e)
        BY <1>1, <2>5, <4>1, <4>2 DEF Whole, Kin
      <4> QED
        BY <2>4, <2>5, <4>3 DEF Kin
    <3> QED
      BY <3>1, <3>2
  <2>7. ASSUME NEW x \in ToSet(l), B.group[x] = g PROVE x = e \/ Before(l, x, e)
    <3>1. x \in ToSet(s) /\ x # t /\ Before(s, x, z)
      BY <1>2, <1>4, <1>9, <1>10, <2>7
    <3>2. PICK m, n \in 1..Len(s) : m < n /\ s[m] = x /\ s[n] = z
      BY <1>8, <3>1
    <3>3. n = i
      BY <1>1, <1>5, <3>2 DEF IsInjective
    <3>4. x = e \/ Before(s, x, e)
      <4>1. CASE m = i - 1
        BY <2>4, <3>2, <4>1
      <4>2. CASE m # i - 1
        BY <1>5, <1>8, <2>3, <2>4, <3>2, <3>3, <4>2
      <4> QED
        BY <4>1, <4>2
    <3>5. e # t
      BY <1>1, <1>5, <1>10, <2>3, <2>4 DEF IsInjective
    <3> QED
      BY <1>9, <3>1, <3>4, <3>5
  <2> QED
    BY <1>5, <1>7, <2>3, <2>4, <2>6, <2>7
<1>11. CASE z # t
  <2>1. k < i
    <3>1. Before(s, t, z)
      BY <1>4, <1>11
    <3>2. PICK j, m \in 1..Len(s) : j < m /\ s[j] = t /\ s[m] = z
      BY <1>8, <3>1
    <3>3. m = i /\ j = k
      BY <1>1, <1>5, <1>6, <3>2 DEF IsInjective
    <3> QED
      BY <3>2, <3>3
  <2>2. i - 1 \in 1..Len(l) /\ l[i - 1] = z
    <3>1. i - 1 \in k..(Len(s) - 1) /\ (i - 1) + 1 = i
      BY <1>5, <2>1
    <3>2. l[i - 1] = s[i]
      BY <1>7, <3>1
    <3> QED
      BY <1>5, <1>7, <3>1, <3>2
  <2>3. \A x \in ToSet(l) : B.group[x] = g => x = z \/ Before(l, x, z)
    BY <1>2, <1>4, <1>9, <1>11
  <2>4. B.group[z] = g
    BY <1>2, <1>4
  <2> QED
    BY <1>5, <1>7, <2>2, <2>3, <2>4
<1> QED
  BY <1>10, <1>11

\* A group's member goes to the place of its last: it stands after the other members, and the group
\* stands where it stood.
MovedWithin(B, C, w, g, s, span, t) ==
  /\ Moved(B, C, t, w) /\ C.group[t] = g
  /\ \A v \in Windows : ToSet(C.strip[v]) = ToSet(B.strip[v])
  /\ \A x, y \in ToSet(span) : Before(C.strip[w], x, y) <=> IF (x = t <=> y = t) THEN Before(s, x, y) ELSE y = t
  /\ \A y \in ToSet(s) \ ToSet(span) :
       (\A x \in ToSet(span) : Before(s, x, y)) => \A x \in ToSet(span) : Before(C.strip[w], x, y)

LEMMA OrderMoves ==
    ASSUME NEW B, WellFormed(B), NEW w \in Windows, NEW g \in Groups, NEW s, s = B.strip[w],
           NEW span, span = Only(s, InGroup(B, g)), NEW t \in ToSet(span), NEW o \in ToSet(span), o # t,
           NEW i, i = Find(s, Last(span)), NEW C \in TabsMove(B, t, w, i)
    PROVE  MovedWithin(B, C, w, g, s, span, t)
<1>1. s \in Seq(Tabs) /\ IsInjective(s) /\ g # None /\ Ready(B) /\ B.group \in [Tabs -> Groups \cup {None}]
  BY WellFormedIs, WellFormedIsReady, BrowserIs DEF WellFormed, Browsers
<1>2. span \in Seq(Tabs) /\ ToSet(span) = {x \in ToSet(s) : B.group[x] = g}
  <2>1. span \in Seq(Tabs) /\ ToSet(span) = ToSet(s) \cap InGroup(B, g)
    BY <1>1, OnlyIs
  <2>2. ToSet(s) \subseteq Tabs
    BY <1>1, Numbered
  <2> QED
    BY <2>1, <2>2 DEF InGroup
<1>3. t \in ToSet(s) /\ t \in OpenTabs(B) /\ t \in Tabs /\ B.group[t] = g
  BY <1>1, <1>2, OpenIs, Numbered
<1>4. PICK l, e : l = Lifted(B, {t})[w] /\ e = l[i - 1]
  OBVIOUS
<1>5. /\ i \in 1..Len(s) /\ Len(l) = Len(s) - 1 /\ i - 1 \in 1..Len(l) /\ B.group[e] = g /\ Len(s) \in Nat
      /\ \A x \in ToSet(l) : B.group[x] = g => x = e \/ Before(l, x, e)
  <2>1. /\ i \in 1..Len(s) /\ Len(l) = Len(s) - 1 /\ i - 1 \in 1..Len(l) /\ B.group[e] = g
        /\ \A x \in ToSet(l) : B.group[x] = g => x = e \/ Before(l, x, e)
    <3>1. Turn(B, s, g, t, i, l)
      BY <1>4, LastOther
    <3> QED
      BY <1>4, <3>1 DEF Turn, LastAt
  <2> QED
    BY <1>1, <2>1, Numbered
<1>6. PICK S : S = {t}
  OBVIOUS
<1>7. /\ l \in Seq(Tabs) /\ IsInjective(l) /\ ToSet(l) = ToSet(s) \ {t} /\ Whole(B, l)
      /\ \A x, y : Before(l, x, y) <=> (Before(s, x, y) /\ x # t /\ y # t)
  <2>1. l = Lifted(B, S)[w]
    BY <1>4, <1>6
  <2>2. /\ l \in Seq(Tabs) /\ IsInjective(l) /\ ToSet(l) = ToSet(s) \ S
        /\ \A x, y : Before(l, x, y) <=> (Before(s, x, y) /\ x \notin S /\ y \notin S)
    <3>1. Ready(B) /\ B.strip[w] = s /\ Lifted(B, S)[w] = l
      BY <1>1, <2>1
    <3> HIDE DEF Before
    <3> QED
      BY ONLY <3>1, LiftedIs
  <2>3. Whole(B, l)
    BY <2>1, WholeWithout
  <2> HIDE DEF Before
  <2> QED
    BY <1>6, <2>2, <2>3
<1>8. PICK R, h : Landed(B, R, t, w, i, h) /\ Ready(R) /\ C \in Settled(R)
  BY <1>3, <1>5, TabsMoveLands
<1>9. PICK q : q = Spliced(l, i - 1, <<t>>)
  OBVIOUS
<1>10. R.strip[w] = q /\ R.group[t] = g /\ \A x \in Tabs \ {t} : R.group[x] = B.group[x]
  <2>1. (IF i > Len(l) THEN Len(l) ELSE i - 1) = i - 1
    BY <1>5
  <2>2. /\ R.strip = [Lifted(B, {t}) EXCEPT ![w] = q] /\ R.group[t] = h /\ \A x \in Tabs \ {t} : R.group[x] = B.group[x]
        /\ i - 1 \in 1..Len(l) /\ B.group[l[i - 1]] = B.group[t] /\ B.group[t] # None => h = B.group[t]
    BY <1>4, <1>8, <1>9, <2>1 DEF Landed
  <2>3. Lifted(B, {t}) \in [Windows -> Seq(Tabs)]
    BY <1>1, LiftedIs
  <2> QED
    BY <1>1, <1>3, <1>4, <1>5, <2>2, <2>3
<1>11. <<t>> \in Seq(Tabs) /\ ToSet(<<t>>) = {t} /\ \A x, y : ~Before(<<t>>, x, y)
  BY <1>3, SingleIs1
<1> HIDE DEF Before
<1>12. C.strip[w] = q
  <2>1. \A x \in ToSet(l) : x \in Tabs /\ x # t
    BY <1>7, Numbered
  <2>2. \A x \in ToSet(l) : R.group[x] = B.group[x] /\ x \notin ToSet(<<t>>)
    BY <1>10, <1>11, <2>1
  <2>3. \A x \in ToSet(<<t>>) : R.group[x] = g
    BY <1>10, <1>11
  <2>4. PICK p, a : p = <<t>> /\ a = i - 1
    OBVIOUS
  <2>5. Whole(R, Spliced(l, a, p))
    <3>1. BehindLast(B, R, l, p, a, g)
      BY <1>1, <1>4, <1>5, <1>7, <1>11, <2>2, <2>3, <2>4 DEF BehindLast, LastAt
    <3> QED
      BY <3>1, WholePlaced
  <2>6. Whole(R, R.strip[w])
    BY <1>9, <1>10, <2>4, <2>5
  <2> QED
    BY <1>8, <1>10, <2>6, StripsStay
<1>13. \A x, y : Before(q, x, y) <=> \/ Before(l, x, y)
                                     \/ (y = t /\ (x = e \/ Before(l, x, e)))
                                     \/ (x = t /\ Before(l, e, y))
  <2>1. PICK p, a : p = <<t>> /\ a = i - 1
    OBVIOUS
  <2>2. l \in Seq(Tabs) /\ IsInjective(l) /\ p \in Seq(Tabs) /\ a \in 1..Len(l) /\ e = l[a] /\ q = Spliced(l, a, p)
    BY <1>4, <1>5, <1>7, <1>9, <1>11, <2>1
  <2>3. \A x, y : Before(q, x, y) <=> \/ Before(l, x, y) \/ Before(p, x, y)
                                      \/ (y \in ToSet(p) /\ (x = e \/ Before(l, x, e)))
                                      \/ (x \in ToSet(p) /\ Before(l, e, y))
    BY ONLY <2>2, PlacedIs
  <2> QED
    BY <1>11, <2>1, <2>3
<1>14. e \in ToSet(l) /\ e # t /\ \A x, y : Before(s, x, y) => ~Before(s, y, x)
  <2>1. l[i - 1] \in ToSet(l)
    BY <1>5, <1>7, Numbered DEF ToSet
  <2>2. \A x, y : Before(s, x, y) => ~Before(s, y, x)
    BY <1>1, OneWay
  <2> QED
    BY <1>4, <1>7, <2>1, <2>2
<1>15. Moved(B, C, t, w)
  BY <1>3, <1>5, TabsMoveIs
<1>16. C.group[t] = g
  <2>1. SettledFrom(R, C)
    BY <1>8, SettledIs
  <2> QED
    BY <1>10, <2>1 DEF SettledFrom
<1>17. \A v \in Windows : ToSet(C.strip[v]) = ToSet(B.strip[v])
  <2>1. TAKE v \in Windows
  <2>2. v # w => t \notin ToSet(B.strip[v])
    BY <1>1, <1>3 DEF Ready
  <2> QED
    BY <1>3, <1>15, <2>2 DEF Moved
<1>18. ASSUME NEW x \in ToSet(span), NEW y \in ToSet(span)
       PROVE  Before(C.strip[w], x, y) <=> IF (x = t <=> y = t) THEN Before(s, x, y) ELSE y = t
  <2>0. (x # t => x = e \/ Before(l, x, e)) /\ (y # t => y = e \/ Before(l, y, e))
    BY <1>2, <1>5, <1>7
  <2>1. CASE x = t /\ y = t
    BY <1>7, <1>12, <1>13, <1>14, <2>1
  <2>2. CASE x # t /\ y # t
    BY <1>7, <1>12, <1>13, <2>2
  <2>3. CASE x # t /\ y = t
    BY <1>7, <1>12, <1>13, <2>0, <2>3
  <2>4. CASE x = t /\ y # t
    BY <1>7, <1>12, <1>13, <1>14, <2>0, <2>4
  <2> QED
    BY <2>1, <2>2, <2>3, <2>4
<1>19. ASSUME NEW y \in ToSet(s) \ ToSet(span), \A x \in ToSet(span) : Before(s, x, y), NEW x \in ToSet(span)
       PROVE  Before(C.strip[w], x, y)
  <2>1. e \in ToSet(span) /\ y # t
    BY <1>2, <1>5, <1>7, <1>14
  <2> QED
    BY <1>7, <1>12, <1>13, <1>14, <1>19, <2>1
<1> QED
  BY <1>15, <1>16, <1>17, <1>18, <1>19 DEF MovedWithin

\* Tabs that join a living group stand with it: what stood behind the group stands behind them all.
LEMMA JoinPlaced ==
    ASSUME NEW B, WellFormed(B), NEW w \in Windows, NEW ts \in Seq(Tabs), IsInjective(ts), NEW g \in Groups,
           ToSet(ts) \subseteq ToSet(B.strip[w]), Lives(B, g), GroupWindow(B, g) = w, NEW C \in TabsGroup(B, ts, g, w),
           NEW y \in ToSet(B.strip[w]), y \notin ToSet(ts), B.group[y] # g,
           \A x \in ToSet(B.strip[w]) : B.group[x] = g => Before(B.strip[w], x, y)
    PROVE  \A x \in ToSet(C.strip[w]) : C.group[x] = g => Before(C.strip[w], x, y)
<1>1. Grouped(B, C, ts, g) /\ JoinedSo(B, C, ts, g, w) /\ Ready(B) /\ g # None
  BY TabsGroupLands, WellFormedIsReady, BrowserIs
<1>2. PICK q, l, a : q = Without(ts, InGroup(B, g)) /\ l = Lifted(B, ToSet(q))[w] /\ a = Find(l, Last(Members(B, g)))
  OBVIOUS
<1>3. PICK R : Ready(R) /\ C \in Settled(R) /\ R.group = C.group /\ R.strip[w] = Spliced(l, a, q)
  BY <1>1, <1>2 DEF JoinedSo
<1>4. q \in Seq(Tabs) /\ ToSet(q) = ToSet(ts) \ InGroup(B, g)
  BY <1>2, WithoutOnce
<1>5. PICK S, s : S = ToSet(q) /\ s = B.strip[w]
  OBVIOUS
<1>6. /\ l \in Seq(Tabs) /\ IsInjective(l) /\ ToSet(l) = ToSet(s) \ S /\ Whole(B, l)
      /\ \A x, z : Before(l, x, z) <=> (Before(s, x, z) /\ x \notin S /\ z \notin S)
  <2>1. Ready(B) /\ B.strip[w] = s /\ Lifted(B, S)[w] = l
    BY <1>1, <1>2, <1>5
  <2>2. /\ l \in Seq(Tabs) /\ IsInjective(l) /\ ToSet(l) = ToSet(s) \ S
        /\ \A x, z : Before(l, x, z) <=> (Before(s, x, z) /\ x \notin S /\ z \notin S)
    <3> HIDE DEF Before
    <3> QED
      BY ONLY <2>1, LiftedIs
  <2>3. Whole(B, l)
    BY <2>1, WholeWithout
  <2> QED
    BY ONLY <2>2, <2>3
<1> HIDE DEF Before
<1>7. PICK e : e = Last(Members(B, g))
  OBVIOUS
<1>8. /\ ToSet(Members(B, g)) = {x \in ToSet(s) : B.group[x] = g} /\ e \in ToSet(Members(B, g))
      /\ \A x \in ToSet(Members(B, g)) : x = e \/ Before(s, x, e)
  <2>1. /\ Members(B, g) \in Seq(Tabs) /\ Members(B, g) # <<>>
        /\ ToSet(Members(B, g)) = {x \in ToSet(s) : B.group[x] = g}
        /\ \A x, z \in ToSet(Members(B, g)) : Before(Members(B, g), x, z) <=> Before(s, x, z)
    BY <1>5, MembersThere
  <2>2. e \in ToSet(Members(B, g)) /\ \A x \in ToSet(Members(B, g)) : x = e \/ Before(Members(B, g), x, e)
    BY <1>7, <2>1, LastIs
  <2> QED
    BY <2>1, <2>2
<1>9. ToSet(s) \subseteq Tabs /\ S \cap {x \in ToSet(s) : B.group[x] = g} = {}
  BY <1>1, <1>4, <1>5, BrowserIs, Numbered DEF InGroup
<1>10. e \in ToSet(l) /\ B.group[e] = g /\ a \in 1..Len(l) /\ l[a] = e
  <2>1. e \in ToSet(l) /\ B.group[e] = g
    BY <1>6, <1>8, <1>9
  <2> QED
    BY <1>2, <1>6, <1>7, <2>1, FindIs
<1>11. \A x \in ToSet(l) : B.group[x] = g => x = e \/ Before(l, x, e)
  <2>1. \A x \in ToSet(l) : x \in ToSet(s) /\ x \notin S
    BY <1>6
  <2>2. e \notin S
    BY <1>6, <1>10
  <2> QED
    BY <1>6, <1>8, <2>1, <2>2
<1>12. (\A x \in ToSet(l) : C.group[x] = B.group[x] /\ x \notin ToSet(q)) /\ (\A x \in ToSet(q) : C.group[x] = g)
  <2>1. \A x \in Tabs : C.group[x] = IF x \in ToSet(ts) THEN g ELSE B.group[x]
    BY <1>1 DEF Grouped
  <2>2. \A x \in ToSet(l) : x \in Tabs /\ x \notin S
    BY <1>6, <1>9
  <2>3. \A x \in ToSet(q) : x \in ToSet(ts) /\ x \in Tabs
    BY <1>4, Numbered
  <2> QED
    BY <1>4, <1>5, <2>1, <2>2, <2>3 DEF InGroup
<1>13. C.strip[w] = Spliced(l, a, q)
  <2>1. BehindLast(B, R, l, q, a, g)
    BY <1>1, <1>3, <1>4, <1>6, <1>10, <1>11, <1>12 DEF BehindLast, LastAt
  <2>2. Whole(R, R.strip[w])
    <3>1. Whole(R, Spliced(l, a, q))
      BY <2>1, WholePlaced
    <3> QED
      BY <1>3, <3>1
  <2> QED
    BY <1>3, <2>2, StripsStay
<1>14. \A x, z : Before(C.strip[w], x, z) <=> \/ Before(l, x, z) \/ Before(q, x, z)
                                              \/ (z \in ToSet(q) /\ (x = e \/ Before(l, x, e)))
                                              \/ (x \in ToSet(q) /\ Before(l, e, z))
  BY <1>4, <1>6, <1>10, <1>13, PlacedIs
<1>15. y \notin S /\ e \notin S
  BY <1>4, <1>5, <1>6, <1>10
<1>16. TAKE x \in ToSet(C.strip[w])
<1>17. HAVE C.group[x] = g
<1>18. x \in ToSet(s)
  BY <1>1, <1>5 DEF Grouped
<1>19. CASE x \in ToSet(q)
  <2>1. Before(s, e, y)
    BY <1>5, <1>8
  <2> QED
    BY <1>6, <1>14, <1>15, <1>19, <2>1
<1>20. CASE x \notin ToSet(q)
  <2>1. x \in ToSet(l) /\ x \notin S
    BY <1>5, <1>6, <1>18, <1>20
  <2>2. Before(s, x, y)
    BY <1>5, <1>12, <1>17, <1>18, <2>1
  <2> QED
    BY <1>6, <1>14, <1>15, <2>1, <2>2
<1> QED
  BY <1>19, <1>20

\* Taking all of a sequence takes it as it is.
LEMMA OnlyAll ==
    ASSUME NEW s \in Seq(Tabs), IsInjective(s), NEW S, ToSet(s) \subseteq S
    PROVE  Only(s, S) = s
<1>1. PICK q : q = Only(s, S)
  OBVIOUS
<1>2. q \in Seq(Tabs) /\ ToSet(q) = ToSet(s) /\ \A x, y : Before(q, x, y) => Before(s, x, y)
  <2>1. q \in Seq(Tabs) /\ ToSet(q) = ToSet(s) \cap S /\ \A x, y : Before(q, x, y) => Before(s, x, y)
    BY <1>1, OnlyIs
  <2> QED
    BY <2>1
<1>3. IsInjective(q)
  BY <1>2, OnceIs
<1> QED
  BY <1>1, <1>2, <1>3, SameSeq

LEMMA SameLength ==
    ASSUME NEW s \in Seq(Tabs), IsInjective(s), NEW q \in Seq(Tabs), ToSet(s) \subseteq ToSet(q)
    PROVE  Len(s) <= Len(q)
<1>1. /\ Len(s) \in Nat /\ Len(q) \in Nat /\ IsFiniteSet(ToSet(q)) /\ Cardinality(ToSet(q)) \in Nat
      /\ Cardinality(ToSet(q)) <= Len(q) /\ DOMAIN s = 1..Len(s)
  BY CardinalityIs
<1>2. s \in [1..Len(s) -> ToSet(q)]
  <2>1. \A i \in 1..Len(s) : s[i] \in ToSet(s)
    BY <1>1 DEF ToSet
  <2> QED
    BY <1>1, <2>1
<1>3. s \in Injection(1..Len(s), ToSet(q))
  BY <1>2 DEF Injection, IsInjective
<1>4. Cardinality(1..Len(s)) <= Cardinality(ToSet(q))
  BY <1>1, <1>3, FS_Injection
<1>5. Cardinality(1..Len(s)) = Len(s)
  <2>1. \A n \in Nat : Cardinality(1..n) = n
    <3>1. TAKE n \in Nat
    <3>2. 1 \in Int /\ n \in Int
      OBVIOUS
    <3>3. IsFiniteSet(1..n) /\ Cardinality(1..n) = IF 1 > n THEN 0 ELSE n - 1 + 1
      BY ONLY <3>2, FS_Interval
    <3> QED
      BY <3>3
  <2> QED
    BY <1>1, <2>1
<1> QED
  BY <1>1, <1>4, <1>5

LEMMA HeadOver ==
    ASSUME NEW T, NEW p \in Seq(T), NEW q \in Seq(T), q # <<>>
    PROVE  Append(p, Head(q)) \in Seq(T) /\ p \o q = Append(p, Head(q)) \o Tail(q)
<1>1. PICK x, r, l, m, n : x = Head(q) /\ r = Tail(q) /\ l = Append(p, x) /\ m = Len(p) /\ n = Len(q)
  OBVIOUS
<1>2. /\ x \in T /\ r \in Seq(T) /\ m \in Nat /\ n \in Nat \ {0} /\ Len(r) = n - 1 /\ x = q[1]
      /\ \A i \in 1..(n - 1) : r[i] = q[i + 1]
  BY <1>1
<1>3. l \in Seq(T) /\ Len(l) = m + 1 /\ l[m + 1] = x /\ \A i \in 1..m : l[i] = p[i]
  BY <1>1, <1>2
<1>4. PICK u, v : u = p \o q /\ v = l \o r
  OBVIOUS
<1>5. u \in Seq(T) /\ v \in Seq(T) /\ Len(u) = m + n /\ Len(v) = m + n
  BY <1>1, <1>2, <1>3, <1>4
<1>6. \A i \in 1..(m + n) : u[i] = IF i <= m THEN p[i] ELSE q[i - m]
  BY <1>1, <1>2, <1>4
<1>7. \A i \in 1..(m + n) : v[i] = IF i <= m + 1 THEN l[i] ELSE r[i - (m + 1)]
  BY <1>2, <1>3, <1>4
<1>8. ASSUME NEW i \in 1..(m + n) PROVE u[i] = v[i]
  <2>1. CASE i <= m
    BY <1>2, <1>3, <1>6, <1>7, <2>1
  <2>2. CASE i = m + 1
    BY <1>2, <1>3, <1>6, <1>7, <2>2
  <2>3. CASE i > m + 1
    <3>1. i - (m + 1) \in 1..(n - 1) /\ (i - (m + 1)) + 1 = i - m
      BY <1>2, <2>3
    <3> QED
      BY <1>2, <1>6, <1>7, <2>3, <3>1
  <2> QED
    BY <1>2, <2>1, <2>2, <2>3
<1>9. u = v
  BY <1>5, <1>8
<1> QED
  BY <1>1, <1>3, <1>4, <1>9

\* What is known of tabs on their way into a group: they can join it; they have; the order they are
\* to stand in, of which p stand already and the rest is still to do; and that they stand in it.
JoinReady(o, B) ==
  LET there == TitledIn(B, o.title, o.w) IN
  /\ o.ids # <<>> /\ ToSet(o.ids) \subseteq ToSet(B.strip[o.w]) \ B.pinned
  /\ o.g = IF there = <<>> THEN None ELSE Head(there)
Together(o, B) ==
  o.ids # <<>> /\ Once(o.ids) /\ o.w \in Windows /\ o.g \in Groups /\ \A t \in ToSet(o.ids) : t \in ToSet(B.strip[o.w]) /\ B.group[t] = o.g
OrderIs(o, B, s, r, p) ==
  /\ s = r \o o.ids /\ s = p \o o.todo /\ IsInjective(s) /\ ToSet(s) = ToSet(Only(B.strip[o.w], InGroup(B, o.g)))
  /\ (o.todo # <<>> => Len(s) > 1) /\ \A x, y : Before(p, x, y) => Before(B.strip[o.w], x, y)
Ordering(o, B) == o.todo \in Seq(Tabs) /\ \E s, r, p \in Seq(Tabs) : OrderIs(o, B, s, r, p)
Ordered(o, B) ==
  LET ms == Members(B, o.g) IN o.ids = SubSeq(ms, Len(ms) - Len(o.ids) + 1, Len(ms))

\* The plan keeps what stands in place and moves the rest, unless there is only one.
LEMMA PlanOrdersIs ==
    ASSUME NEW o, NEW n, NEW B, WellFormed(B), Together(o, B), n.ids = o.ids, n.w = o.w, n.g = o.g,
           n.todo = PlanGroupOrder(Only(B.strip[o.w], InGroup(B, o.g)), o.ids)
    PROVE  Ordering(n, B)
<1>1. PICK c, ids : c = Only(B.strip[o.w], InGroup(B, o.g)) /\ ids = o.ids
  OBVIOUS
<1>2. B.strip[o.w] \in Seq(Tabs) /\ IsInjective(B.strip[o.w]) /\ ids \in Seq(Tabs) /\ IsInjective(ids) /\ ids # <<>>
  BY <1>1, WellFormedIsReady, BrowserIs DEF Together, Once
<1>3. /\ c \in Seq(Tabs) /\ IsInjective(c) /\ ToSet(c) = ToSet(B.strip[o.w]) \cap InGroup(B, o.g)
      /\ \A x, y : Before(c, x, y) => Before(B.strip[o.w], x, y)
  <2>1. Once(c) /\ ToSet(c) = ToSet(B.strip[o.w]) \cap InGroup(B, o.g)
    BY <1>1, <1>2, OnlyOnce
  <2>2. \A x, y : Before(c, x, y) => Before(B.strip[o.w], x, y)
    BY <1>1, <1>2, OnlyIs
  <2> QED
    BY <2>1, <2>2 DEF Once
<1>4. ToSet(ids) \subseteq ToSet(c)
  <2>1. \A t \in ToSet(ids) : t \in ToSet(B.strip[o.w]) /\ B.group[t] = o.g /\ t \in Tabs
    BY <1>1, <1>2, Numbered DEF Together
  <2> QED
    BY <1>3, <2>1 DEF InGroup
<1>5. PICK r, s : r = Without(c, ToSet(ids)) /\ s = r \o ids
  OBVIOUS
<1>6. r \in Seq(Tabs) /\ IsInjective(r) /\ ToSet(r) = ToSet(c) \ ToSet(ids)
  BY <1>3, <1>5, WithoutOnce
<1>7. s \in Seq(Tabs) /\ ToSet(s) = ToSet(c) /\ IsInjective(s)
  <2>1. /\ s \in Seq(Tabs) /\ ToSet(s) = ToSet(r) \cup ToSet(ids)
        /\ \A x, y : Before(s, x, y) <=> (Before(r, x, y) \/ Before(ids, x, y) \/ (x \in ToSet(r) /\ y \in ToSet(ids)))
    BY <1>2, <1>5, <1>6, Joint
  <2>2. \A x : ~Before(s, x, x)
    BY <1>2, <1>6, <2>1, OnceIs
  <2> QED
    BY <1>4, <1>6, <2>1, <2>2, OnceIs
<1>8. n.todo = RestInPlace(s, c)
  <2>1. Only(ids, ToSet(c)) = ids
    BY <1>2, <1>4, OnlyAll
  <2> QED
    BY <1>1, <1>5, <2>1 DEF PlanGroupOrder
<1>9. Len(s) <= Len(c) /\ Len(s) \in Nat /\ Len(c) \in Nat /\ DOMAIN c = 1..Len(c) /\ DOMAIN s = 1..Len(s)
  BY <1>3, <1>7, SameLength, Numbered
<1>10. PICK k \in 0..Len(s) : n.todo = SubSeq(s, k + 1, Len(s)) /\ \A i \in 1..k : s[i] = c[i]
  <2>1. s \in Seq(Tabs) /\ c \in Seq(Tabs) /\ Len(s) <= Len(c)
    BY <1>3, <1>7, <1>9
  <2>2. \E k \in 0..Len(s) : RestInPlace(s, c) = SubSeq(s, k + 1, Len(s)) /\ \A i \in 1..k : s[i] = c[i]
    BY ONLY <2>1, RestInPlaceIs
  <2> QED
    BY <1>8, <2>2
<1>11. PICK p : p = SubSeq(s, 1, k)
  OBVIOUS
<1>12. p \in Seq(Tabs) /\ n.todo \in Seq(Tabs) /\ s = p \o n.todo /\ Len(p) = k /\ DOMAIN p = 1..k /\ \A i \in 1..k : p[i] = s[i]
  <2>1. /\ p \in Seq(Tabs) /\ n.todo \in Seq(Tabs) /\ s = p \o n.todo /\ Len(p) = k /\ \A i \in 1..k : p[i] = s[i]
    <3>1. s \in Seq(Tabs) /\ k \in 0..Len(s)
      BY <1>7
    <3>2. /\ SubSeq(s, 1, k) \in Seq(Tabs) /\ SubSeq(s, k + 1, Len(s)) \in Seq(Tabs)
          /\ Len(SubSeq(s, 1, k)) = k /\ s = SubSeq(s, 1, k) \o SubSeq(s, k + 1, Len(s))
          /\ \A i \in 1..k : SubSeq(s, 1, k)[i] = s[i]
      BY ONLY <3>1, Parted, ZenonT(60)
    <3> QED
      BY <1>10, <1>11, <3>2
  <2> QED
    BY <2>1
<1>13. \A x, y : Before(p, x, y) => Before(c, x, y)
  <2>1. SUFFICES ASSUME NEW x, NEW y, Before(p, x, y) PROVE Before(c, x, y)
    OBVIOUS
  <2>2. PICK i, j \in 1..k : i < j /\ p[i] = x /\ p[j] = y
    BY <1>12, <2>1 DEF Before
  <2>3. c[i] = x /\ c[j] = y /\ i \in DOMAIN c /\ j \in DOMAIN c
    BY <1>9, <1>10, <1>12, <2>2
  <2> QED
    BY <2>2, <2>3 DEF Before
<1>14. ASSUME n.todo # <<>> PROVE Len(s) > 1
  <2>1. SUFFICES ASSUME Len(s) <= 1 PROVE FALSE
    BY <1>9
  <2>2. \A x, y : ~Before(s, x, y)
    BY <1>9, <2>1 DEF Before
  <2>3. s = c
    BY <1>3, <1>7, <2>2, SameSeq
  <2> QED
    BY <1>7, <1>8, <1>14, <2>3, AllInPlace
<1> HIDE DEF Before
<1>15. OrderIs(n, B, s, r, p)
  BY <1>1, <1>3, <1>5, <1>7, <1>12, <1>13, <1>14 DEF OrderIs
<1> QED
  BY <1>6, <1>7, <1>12, <1>15 DEF Ordering

\* The next of the order has gone to the end of the group.
LEMMA OrderGoes ==
    ASSUME NEW o, NEW n, NEW B, WellFormed(B), Together(o, B), Ordering(o, B), o.todo # <<>>,
           n.ids = o.ids, n.w = o.w, n.g = o.g, n.todo = Tail(o.todo), NEW t, t = Head(o.todo), NEW span,
           span = Only(B.strip[o.w], InGroup(B, o.g)), NEW C, WellFormed(C),
           \A x \in Tabs : C.group[x] = B.group[x], ToSet(C.strip[o.w]) = ToSet(B.strip[o.w]),
           \A x, y \in ToSet(span) : Before(C.strip[o.w], x, y) <=> IF (x = t <=> y = t) THEN Before(B.strip[o.w], x, y) ELSE y = t
    PROVE  Ordering(n, C)
<1>1. PICK s, r, p \in Seq(Tabs) : OrderIs(o, B, s, r, p)
  BY DEF Ordering
<1>2. PICK todo : todo = o.todo /\ todo \in Seq(Tabs) /\ todo # <<>> /\ t \in ToSet(todo) /\ t \in Tabs /\ Tail(todo) \in Seq(Tabs)
  <2>1. PICK todo : todo = o.todo /\ todo \in Seq(Tabs) /\ todo # <<>>
    BY DEF Ordering
  <2> QED
    BY <2>1, TailIs, Numbered
<1>3. PICK q : q = Append(p, t)
  OBVIOUS
<1>4. q \in Seq(Tabs) /\ s = q \o Tail(todo)
  <2>1. s = p \o todo /\ t = Head(todo)
    BY <1>1, <1>2 DEF OrderIs
  <2> QED
    BY <1>2, <1>3, <2>1, HeadOver
<1>5. \A x, y : Before(q, x, y) <=> (Before(p, x, y) \/ (x \in ToSet(p) /\ y = t))
  <2>1. p \in Seq(Tabs) /\ t \in Tabs /\ Append(p, t) = q
    BY <1>2, <1>3
  <2> HIDE DEF Before
  <2> QED
    BY ONLY <2>1, OneMore
<1>6. t \notin ToSet(p) /\ ToSet(p) \subseteq ToSet(s) /\ t \in ToSet(s)
  <2>1. /\ ToSet(s) = ToSet(p) \cup ToSet(todo)
        /\ \A x, y : Before(s, x, y) <=> (Before(p, x, y) \/ Before(todo, x, y) \/ (x \in ToSet(p) /\ y \in ToSet(todo)))
    BY <1>1, <1>2, Joint DEF OrderIs
  <2>2. ~Before(s, t, t)
    BY <1>1, OnceIs DEF OrderIs
  <2> QED
    BY <1>2, <2>1, <2>2
<1>7. \A x, y : Before(p, x, y) => x \in ToSet(p) /\ y \in ToSet(p)
  BY BeforeIn
<1> HIDE DEF Before
<1>8. ToSet(s) = ToSet(span) /\ \A x, y : Before(p, x, y) => Before(B.strip[o.w], x, y)
  BY <1>1 DEF OrderIs
<1>9. \A x, y : Before(q, x, y) => Before(C.strip[o.w], x, y)
  BY <1>5, <1>6, <1>7, <1>8
<1>10. ToSet(span) = ToSet(Only(C.strip[o.w], InGroup(C, o.g)))
  <2>1. InGroup(C, o.g) = InGroup(B, o.g)
    BY DEF InGroup
  <2>2. B.strip[o.w] \in Seq(Tabs) /\ C.strip[o.w] \in Seq(Tabs)
    BY WellFormedIsReady, BrowserIs DEF Together
  <2>3. /\ ToSet(span) = ToSet(B.strip[o.w]) \cap InGroup(B, o.g)
        /\ ToSet(Only(C.strip[o.w], InGroup(C, o.g))) = ToSet(C.strip[o.w]) \cap InGroup(C, o.g)
    <3>1. ASSUME NEW u \in Seq(Tabs), NEW S PROVE ToSet(Only(u, S)) = ToSet(u) \cap S
      BY ONLY u \in Seq(Tabs), OnlyIs
    <3> QED
      BY <2>2, <3>1
  <2> QED
    BY <2>1, <2>3
<1>11. OrderIs(n, C, s, r, q)
  <2>1. Len(s) > 1
    BY <1>1, <1>2 DEF OrderIs
  <2>2. n.ids = o.ids /\ s = r \o n.ids /\ s = q \o n.todo /\ IsInjective(s)
    BY <1>1, <1>2, <1>4 DEF OrderIs
  <2> QED
    BY <1>8, <1>9, <1>10, <2>1, <2>2 DEF OrderIs
<1> QED
  BY <1>1, <1>2, <1>4, <1>11 DEF Ordering

\* Nothing left to move: the tabs named are the last of their group, in the order named.
LEMMA OrderedIs ==
    ASSUME NEW o, NEW n, NEW B, WellFormed(B), Together(o, B), Ordering(o, B), o.todo = <<>>, n.ids = o.ids, n.g = o.g
    PROVE  Ordered(n, B)
<1>1. PICK s, r, p \in Seq(Tabs) : OrderIs(o, B, s, r, p)
  BY DEF Ordering
<1>2. PICK x \in ToSet(o.ids) : x \in ToSet(B.strip[o.w]) /\ B.group[x] = o.g
  <2>1. \E x : x \in ToSet(o.ids)
    <3>1. o.ids \in Seq(Tabs) /\ o.ids # <<>>
      BY DEF Together, Once
    <3> QED
      BY <3>1, TailIs
  <2> QED
    BY <2>1 DEF Together
<1>3. Lives(B, o.g) /\ GroupWindow(B, o.g) = o.w
  <2>1. PICK g, w : g = o.g /\ w = o.w
    OBVIOUS
  <2>2. w \in Windows /\ x \in ToSet(B.strip[w]) /\ B.group[x] = g /\ g # None
    BY <1>2, <2>1, StripAssumption DEF Together
  <2> QED
    BY <2>1, <2>2, LivesHere
<1>4. PICK ms : ms = Members(B, o.g)
  OBVIOUS
<1>5. /\ ms \in Seq(Tabs) /\ IsInjective(ms) /\ ms = Only(B.strip[o.w], InGroup(B, o.g))
      /\ \A u, v \in ToSet(ms) : Before(ms, u, v) <=> Before(B.strip[o.w], u, v)
  <2>1. PICK g, w : g = o.g /\ w = o.w
    OBVIOUS
  <2>2. WellFormed(B) /\ Lives(B, g) /\ GroupWindow(B, g) = w /\ Members(B, g) = ms
    BY <1>3, <1>4, <2>1
  <2> HIDE DEF Before
  <2>3. /\ Only(B.strip[w], InGroup(B, g)) = Members(B, g)
        /\ Members(B, g) \in Seq(Tabs) /\ IsInjective(Members(B, g))
        /\ \A u, v \in ToSet(Members(B, g)) : Before(Members(B, g), u, v) <=> Before(B.strip[w], u, v)
    BY <2>2, MembersThere
  <2> QED
    BY <2>1, <2>2, <2>3
<1>6. s = p
  BY <1>1 DEF OrderIs
<1>7. s = ms
  <2>1. ToSet(s) = ToSet(ms) /\ IsInjective(s) /\ \A u, v : Before(s, u, v) => Before(B.strip[o.w], u, v)
    BY <1>1, <1>5, <1>6 DEF OrderIs
  <2>2. \A u, v : Before(s, u, v) => Before(ms, u, v)
    <3>1. \A u, v : Before(s, u, v) => u \in ToSet(s) /\ v \in ToSet(s)
      BY BeforeIn
    <3> HIDE DEF Before
    <3> QED
      BY <1>5, <2>1, <3>1
  <2> QED
    BY <1>5, <2>1, <2>2, SameSeq
<1>8. PICK ids : ids = o.ids /\ ids \in Seq(Tabs) /\ s = r \o ids
  BY <1>1 DEF OrderIs, Together, Once
<1>9. ids = SubSeq(s, Len(s) - Len(ids) + 1, Len(s))
  <2>1. Len(s) = Len(r) + Len(ids) /\ Len(r) \in Nat /\ Len(ids) \in Nat /\ \A i \in 1..Len(ids) : s[Len(r) + i] = ids[i]
    BY <1>8
  <2>2. Len(s) - Len(ids) = Len(r)
    BY <2>1
  <2> QED
    BY <1>8, <2>1, <2>2
<1> QED
  BY <1>4, <1>7, <1>8, <1>9 DEF Ordered

\* What the steps of a join leave of an operation as it was.
Carried(o, n) ==
  /\ n.kind = o.kind /\ n.title = o.title /\ n.w = o.w /\ n.shut = o.shut /\ n.ids = o.ids
  /\ n.rest = o.rest /\ n.was = o.was /\ n.failed = o.failed

LEMMA CarriedIs ==
    ASSUME NEW o, NEW n, NEW f, Wrote(o, n, f), DOMAIN f \subseteq {"pc", "g", "todo", "keep"}
    PROVE  Carried(o, n)
<1>1. n.kind = o.kind /\ n.title = o.title /\ n.w = o.w /\ n.ids = o.ids
  BY WroteIs
<1>2. n.shut = o.shut /\ n.rest = o.rest /\ n.was = o.was /\ n.failed = o.failed
  BY WroteMore
<1> QED
  BY <1>1, <1>2 DEF Carried

\* The same tabs in the same windows and groups.
SameGroups(B, C) ==
  /\ WellFormed(C) /\ C.pinned = B.pinned /\ C.page = B.page /\ \A x \in Tabs : C.group[x] = B.group[x]
  /\ \A v \in Windows : ToSet(C.strip[v]) = ToSet(B.strip[v])
\* A tab of a window stands behind all of a group.
Follows(B, g, w, y) ==
  /\ y \in ToSet(B.strip[w]) /\ B.group[y] # g
  /\ \A x \in ToSet(B.strip[w]) : B.group[x] = g => Before(B.strip[w], x, y)

LEMMA JoinsNow ==
    ASSUME BrowserSound, JoinGroup, JoinReady(op, b), ~dragging
    PROVE  \E g \in Groups : /\ b' \in TabsGroup(b, op.ids, g, op.w) /\ Grouped(b, b', op.ids, g)
                             /\ Carried(op, op') /\ op'.pc = "plan" /\ op'.g = g /\ op'.keep = op.keep /\ Together(op', b')
                             /\ op.g # None => g = op.g /\ Lives(b, g) /\ GroupWindow(b, g) = op.w
                             /\ op.g = None => b.title[g] = "none" /\ ~Lives(b, g)
<1>1. op.pc = "join" /\ WellFormed(b) /\ Told(op, ours) /\ OpFields \subseteq DOMAIN op /\ Named(op) /\ Stage(op, ours)
  BY StepsAt, WorkingTold
<1>2. PICK w, ts, g, there : w = op.w /\ ts = op.ids /\ g = Group /\ there = TitledIn(b, op.title, w)
  OBVIOUS
<1>3. w \in Windows /\ ts \in Seq(Tabs) /\ IsInjective(ts) /\ ts # <<>> /\ op.g \in Groups \cup {None}
  BY <1>1, <1>2 DEF Named, Stage
<1>4. ToSet(ts) \subseteq ToSet(b.strip[w]) \ b.pinned /\ op.g = IF there = <<>> THEN None ELSE Head(there)
  BY <1>2 DEF JoinReady
<1>5. g \in Groups /\ (op.g # None => g = op.g) /\ (op.g = None => b.title[g] = "none")
  <2>1. op.g = None => \E h \in Groups : b.title[h] = "none"
    BY <1>1 DEF JoinGroup, GroupsLeft, At
  <2> QED
    BY <1>2, <1>3, <2>1 DEF Group, Fresh
<1>6. op.g = None => ~Lives(b, g)
  BY <1>1, <1>5, FreshIsEmpty
<1>7. ASSUME op.g # None PROVE Lives(b, g) /\ GroupWindow(b, g) = w
  <2>1. there # <<>> /\ g = Head(there)
    BY <1>4, <1>5, <1>7
  <2>2. /\ there \in Seq(Groups)
        /\ ToSet(there) = {h \in Groups : b.title[h] = op.title /\ \E x \in ToSet(b.strip[w]) : b.group[x] = h}
    BY <1>1, <1>2, <1>3, TitledInIs
  <2>3. g \in ToSet(there)
    BY <2>1, <2>2 DEF ToSet
  <2>4. PICK x \in ToSet(b.strip[w]) : b.group[x] = g
    BY <2>2, <2>3
  <2> QED
    BY <1>1, <1>3, <1>5, <1>7, <2>4, LivesHere
<1>8. StillIn(w, ts, op.g)
  BY <1>4, <1>5, <1>7 DEF StillIn, InPlace
<1>9. b' \in TabsGroup(b, ts, g, w) /\ Wrote(op, op', [pc |-> "plan", g |-> g])
  <2>1. PICK then, Bs : then = [pc |-> "plan", g |-> g] /\ Bs = TabsGroup(b, ts, g, w)
    OBVIOUS
  <2>2. Edit(StillIn(w, ts, op.g), Bs, then, Failed)
    BY <1>2, <2>1 DEF JoinGroup
  <2>3. \/ StillIn(w, ts, op.g) /\ b' \in Bs /\ Wrote(op, op', then)
        \/ ~StillIn(w, ts, op.g) /\ b' = b /\ Wrote(op, op', Failed)
    BY <1>1, <2>2, EditNow
  <2> QED
    BY <1>8, <2>1, <2>3
<1>10. Grouped(b, b', ts, g)
  <2>1. /\ WellFormed(b) /\ w \in Windows /\ ts \in Seq(Tabs) /\ IsInjective(ts) /\ g \in Groups
        /\ ToSet(ts) \subseteq ToSet(b.strip[w]) /\ (Lives(b, g) => GroupWindow(b, g) = w) /\ (~Lives(b, g) => ts # <<>>)
        /\ b' \in TabsGroup(b, ts, g, w)
    BY <1>1, <1>3, <1>4, <1>5, <1>6, <1>7, <1>9
  <2> QED
    BY <2>1, TabsGroupIs
<1>11. PICK n, f : n = op' /\ f = [pc |-> "plan", g |-> g]
  OBVIOUS
<1>12. Wrote(op, n, f) /\ DOMAIN f = {"pc", "g"} /\ f.pc = "plan" /\ f.g = g
  BY <1>9, <1>11
<1>13. n.pc = "plan" /\ n.g = g /\ n.keep = op.keep /\ n.ids = ts /\ n.w = w
  BY <1>2, <1>12, WroteIs
<1>14. Carried(op, n)
  BY <1>12, CarriedIs
<1>15. Together(n, b')
  <2>1. \A t \in ToSet(ts) : t \in ToSet(b'.strip[w]) /\ b'.group[t] = g
    BY <1>3, <1>4, <1>10, Numbered DEF Grouped
  <2> QED
    BY <1>3, <1>5, <1>13, <2>1 DEF Together, Once
<1> QED
  BY <1>2, <1>5, <1>6, <1>7, <1>9, <1>10, <1>11, <1>13, <1>14, <1>15

LEMMA PlansNow ==
    ASSUME BrowserSound, PlanOrder, Together(op, b)
    PROVE  /\ b' = b /\ Carried(op, op') /\ op'.pc = "order" /\ op'.g = op.g /\ op'.keep = op.keep
           /\ Together(op', b') /\ Ordering(op', b')
<1>1. op.pc = "plan" /\ b' = b /\ WellFormed(b) /\ OpFields \subseteq DOMAIN op
  BY StepsAt, WorkingTold DEF PlanOrder
<1>2. PICK f, n : f = [pc |-> "order", todo |-> PlanGroupOrder(MembersOf(op.g, op.w), op.ids)] /\ n = op'
  OBVIOUS
<1>3. Wrote(op, n, f)
  BY <1>1, <1>2, MoveIs DEF PlanOrder
<1>4. DOMAIN f = {"pc", "todo"} /\ f.pc = "order" /\ f.todo = PlanGroupOrder(MembersOf(op.g, op.w), op.ids)
  BY <1>2
<1>5. /\ n.pc = "order" /\ n.todo = PlanGroupOrder(MembersOf(op.g, op.w), op.ids) /\ n.g = op.g /\ n.keep = op.keep
      /\ n.ids = op.ids /\ n.w = op.w
  BY <1>3, <1>4, WroteIs
<1>6. Carried(op, n)
  BY <1>3, <1>4, CarriedIs
<1>7. Together(n, b)
  BY <1>5 DEF Together
<1>8. Ordering(n, b)
  <2>1. n.todo = PlanGroupOrder(Only(b.strip[op.w], InGroup(b, op.g)), op.ids)
    BY <1>5 DEF MembersOf
  <2> QED
    BY <1>1, <1>5, <2>1, PlanOrdersIs
<1> QED
  BY <1>1, <1>2, <1>5, <1>6, <1>7, <1>8

LEMMA OrdersNow ==
    ASSUME BrowserSound, OrderTab, Together(op, b), Ordering(op, b), ~dragging
    PROVE  /\ Carried(op, op') /\ op'.pc = "order" /\ op'.g = op.g /\ op'.keep = op.keep
           /\ Together(op', b') /\ Ordering(op', b') /\ SameGroups(b, b') /\ b'.title = b.title
           /\ \A y : Follows(b, op.g, op.w, y) => Follows(b', op.g, op.w, y)
<1>1. op.pc = "order" /\ op.todo # <<>> /\ WellFormed(b) /\ OpFields \subseteq DOMAIN op
  BY StepsAt, WorkingTold DEF OrderTab
<1>2. PICK w, g, t, s, span, i : /\ w = op.w /\ g = op.g /\ t = Head(op.todo) /\ s = b.strip[w]
                                 /\ span = Only(s, InGroup(b, g)) /\ i = Find(s, Last(span))
  OBVIOUS
<1>3. w \in Windows /\ g \in Groups /\ s \in Seq(Tabs) /\ IsInjective(s)
  BY <1>1, <1>2, WellFormedIsReady, BrowserIs DEF Together
<1>4. PICK u, r, p \in Seq(Tabs) : OrderIs(op, b, u, r, p)
  BY DEF Ordering
<1>5. ToSet(u) = ToSet(span) /\ IsInjective(u) /\ u = p \o op.todo /\ Len(u) > 1 /\ op.todo \in Seq(Tabs)
  BY <1>1, <1>2, <1>4 DEF OrderIs, Ordering
<1>6. t \in ToSet(span)
  <2>1. t \in ToSet(op.todo)
    BY <1>1, <1>2, <1>5, TailIs
  <2>2. ToSet(u) = ToSet(p) \cup ToSet(op.todo)
    BY <1>4, <1>5, Joint
  <2> QED
    BY <1>5, <2>1, <2>2
<1>7. PICK o \in ToSet(span) : o # t
  <2>1. u[1] \in ToSet(u) /\ u[2] \in ToSet(u) /\ u[1] # u[2]
    <3>1. 1 \in DOMAIN u /\ 2 \in DOMAIN u
      BY <1>4, <1>5
    <3> QED
      BY <3>1, <1>5, SMTT(30) DEF ToSet, IsInjective
  <2> QED
    BY <1>5, <2>1
<1>8. b' \in TabsMove(b, t, w, i) /\ Wrote(op, op', [todo |-> Tail(op.todo)])
  <2>1. PICK then, Bs : then = [todo |-> Tail(op.todo)] /\ Bs = IF t \in ToSet(span) THEN TabsMove(b, t, w, i) ELSE {b}
    OBVIOUS
  <2>2. Edit(TRUE, Bs, then, Failed)
    BY <1>2, <2>1 DEF OrderTab, MembersOf
  <2>3. \/ TRUE /\ b' \in Bs /\ Wrote(op, op', then)
        \/ ~TRUE /\ b' = b /\ Wrote(op, op', Failed)
    BY <1>1, <2>2, EditNow
  <2> QED
    BY <1>6, <2>1, <2>3
<1>9. PICK n, f, B, C : n = op' /\ f = [todo |-> Tail(op.todo)] /\ B = b /\ C = b'
  OBVIOUS
<1>10. Wrote(op, n, f) /\ DOMAIN f = {"todo"} /\ f.todo = Tail(op.todo)
  BY <1>8, <1>9
<1>11. n.pc = "order" /\ n.todo = Tail(op.todo) /\ n.g = op.g /\ n.keep = op.keep /\ n.ids = op.ids /\ n.w = op.w
  <2>1. /\ n.pc = IF "pc" \in DOMAIN f THEN f.pc ELSE op.pc
        /\ n.todo = IF "todo" \in DOMAIN f THEN f.todo ELSE op.todo
        /\ n.g = IF "g" \in DOMAIN f THEN f.g ELSE op.g
    BY ONLY <1>10, WroteIs, ZenonT(60)
  <2>2. /\ n.keep = IF "keep" \in DOMAIN f THEN f.keep ELSE op.keep
        /\ n.ids = IF "ids" \in DOMAIN f THEN f.ids ELSE op.ids
        /\ n.w = IF "w" \in DOMAIN f THEN f.w ELSE op.w
    BY ONLY <1>10, WroteIs
  <2> QED
    BY ONLY <1>1, <1>10, <2>1, <2>2
<1>12. Carried(op, n)
  BY <1>10, CarriedIs
<1> HIDE DEF Before
<1>13. /\ Moved(B, C, t, w) /\ C.group[t] = g
       /\ \A v \in Windows : ToSet(C.strip[v]) = ToSet(B.strip[v])
       /\ \A x, y \in ToSet(span) : Before(C.strip[w], x, y) <=> IF (x = t <=> y = t) THEN Before(s, x, y) ELSE y = t
       /\ \A y \in ToSet(s) \ ToSet(span) :
            (\A x \in ToSet(span) : Before(s, x, y)) => \A x \in ToSet(span) : Before(C.strip[w], x, y)
  <2>1. /\ WellFormed(B) /\ w \in Windows /\ g \in Groups /\ s = B.strip[w] /\ span = Only(s, InGroup(B, g))
        /\ t \in ToSet(span) /\ o \in ToSet(span) /\ o # t /\ i = Find(s, Last(span)) /\ C \in TabsMove(B, t, w, i)
    BY <1>1, <1>2, <1>3, <1>6, <1>7, <1>8, <1>9
  <2>2. MovedWithin(B, C, w, g, s, span, t)
    BY <2>1, OrderMoves
  <2> QED
    BY <2>2 DEF MovedWithin
<1>14. ToSet(span) = {x \in ToSet(s) : B.group[x] = g}
  <2>1. ToSet(span) = ToSet(s) \cap InGroup(b, g)
    BY <1>2, <1>3, OnlyIs, ZenonT(60)
  <2>2. ToSet(s) \subseteq Tabs
    BY <1>3, Numbered
  <2> QED
    BY <1>9, <2>1, <2>2 DEF InGroup
<1>15. SameGroups(B, C) /\ C.title = B.title
  <2>1. \A x \in Tabs : C.group[x] = B.group[x]
    BY <1>6, <1>13, <1>14 DEF Moved
  <2> QED
    BY <1>13, <2>1 DEF Moved, SameGroups
<1>16. Together(n, C)
  <2>1. Together(op, B)
    BY <1>9
  <2>2. \A x \in ToSet(op.ids) : x \in Tabs
    BY <2>1, Numbered DEF Together, Once
  <2> QED
    BY <1>11, <1>15, <2>1, <2>2 DEF Together, SameGroups
<1>17. Ordering(n, C)
  <2>1. PICK O : O = op
    OBVIOUS
  <2>2. /\ WellFormed(B) /\ Together(O, B) /\ Ordering(O, B) /\ O.todo # <<>>
        /\ n.ids = O.ids /\ n.w = O.w /\ n.g = O.g /\ n.todo = Tail(O.todo) /\ t = Head(O.todo)
        /\ span = Only(B.strip[O.w], InGroup(B, O.g)) /\ WellFormed(C)
    BY <1>1, <1>2, <1>9, <1>11, <1>15, <2>1 DEF SameGroups
  <2>3. \A x \in Tabs : C.group[x] = B.group[x]
    BY <1>15 DEF SameGroups
  <2>4. ToSet(C.strip[O.w]) = ToSet(B.strip[O.w]) /\ O.w = w /\ s = B.strip[O.w]
    BY <1>2, <1>3, <1>9, <1>13, <2>1
  <2>5. \A x, y \in ToSet(span) : Before(C.strip[O.w], x, y) <=> IF (x = t <=> y = t) THEN Before(B.strip[O.w], x, y) ELSE y = t
    BY <1>13, <2>4
  <2> QED
    BY ONLY <2>2, <2>3, <2>4, <2>5, OrderGoes
<1>18. ASSUME NEW y, Follows(B, g, w, y) PROVE Follows(C, g, w, y)
  <2>1. y \in ToSet(s) /\ B.group[y] # g /\ \A x \in ToSet(span) : Before(s, x, y)
    BY <1>2, <1>9, <1>14, <1>18 DEF Follows
  <2>2. y \in ToSet(C.strip[w]) /\ C.group[y] # g
    BY <1>3, <1>2, <1>9, <1>13, <1>15, <2>1, Numbered DEF SameGroups
  <2>3. \A x \in ToSet(C.strip[w]) : C.group[x] = g => x \in ToSet(span)
    BY <1>2, <1>3, <1>9, <1>13, <1>14, <1>15, Numbered DEF SameGroups
  <2>4. y \in ToSet(s) \ ToSet(span)
    BY <1>14, <2>1
  <2>5. \A x \in ToSet(span) : Before(C.strip[w], x, y)
    BY <1>13, <2>1, <2>4
  <2> QED
    BY <2>2, <2>3, <2>5 DEF Follows
<1> QED
  BY <1>2, <1>9, <1>11, <1>12, <1>15, <1>16, <1>17, <1>18

\* Nothing slipped out: the group is labelled next.
LEMMA PutsBackNow ==
    ASSUME BrowserSound, PutBack, Together(op, b), Ordering(op, b)
    PROVE  /\ b' = b /\ Carried(op, op') /\ op'.pc = "label" /\ op'.g = op.g /\ op'.keep = op.keep
           /\ Together(op', b') /\ Ordered(op', b')
<1>1. op.pc = "order" /\ op.todo = <<>> /\ b' = b /\ WellFormed(b) /\ OpFields \subseteq DOMAIN op
  BY StepsAt, WorkingTold DEF PutBack
<1>2. PICK slipped, S : S = (ToSet(b.strip[op.w]) \ b.pinned) \ InGroup(b, op.g) /\ slipped = Only(op.ids, S)
  OBVIOUS
<1>3. slipped = <<>>
  <2>1. op.ids \in Seq(Tabs) /\ \A t \in ToSet(op.ids) : t \in Tabs /\ t \in InGroup(b, op.g)
    BY Numbered DEF Together, Once, InGroup
  <2>2. slipped \in Seq(Tabs) /\ ToSet(slipped) = ToSet(op.ids) \cap S
    <3>1. PICK u : u = op.ids
      OBVIOUS
    <3>2. u \in Seq(Tabs) /\ slipped = Only(u, S)
      BY <1>2, <2>1, <3>1
    <3>3. slipped \in Seq(Tabs) /\ ToSet(slipped) = ToSet(u) \cap S
      BY ONLY <3>2, OnlyIs
    <3> QED
      BY <3>1, <3>3
  <2>3. ToSet(slipped) = {}
    BY <1>2, <2>1, <2>2
  <2> QED
    BY <2>2, <2>3, TailIs
<1>4. PICK f, n : f = [pc |-> "label", todo |-> slipped] /\ n = op'
  OBVIOUS
<1>5. Wrote(op, n, f)
  <2>1. Move([pc |-> IF slipped = <<>> THEN "label" ELSE "rejoin", todo |-> slipped])
    BY <1>2 DEF PutBack
  <2>2. Move(f)
    BY <1>3, <1>4, <2>1
  <2> QED
    BY <1>1, <1>4, <2>2, MoveIs
<1>6. DOMAIN f = {"pc", "todo"} /\ f.pc = "label"
  BY <1>4
<1>7. n.pc = "label" /\ n.g = op.g /\ n.keep = op.keep /\ n.ids = op.ids /\ n.w = op.w
  BY <1>5, <1>6, WroteIs
<1>8. Carried(op, n)
  BY <1>5, <1>6, CarriedIs
<1>9. Together(n, b)
  BY <1>7 DEF Together
<1>10. Ordered(n, b)
  BY <1>1, <1>7, OrderedIs
<1> QED
  BY <1>1, <1>4, <1>7, <1>8, <1>9, <1>10

\* What is done, and what a gather does next.
Finishes(o, n) ==
  IF o.kind = "gather" THEN n.pc = "gather next" /\ n.keep = o.g ELSE n.pc = "done"

LEMMA FinishedIs ==
    ASSUME NEW n, Wrote(op, n, Finished)
    PROVE  Carried(op, n) /\ n.g = op.g /\ Finishes(op, n)
<1>1. PICK f : f = Finished
  OBVIOUS
<1>2. CASE op.kind = "gather"
  <2>1. f = [pc |-> "gather next", keep |-> op.g]
    BY <1>1, <1>2 DEF Finished
  <2>2. Wrote(op, n, f) /\ DOMAIN f = {"pc", "keep"} /\ f.pc = "gather next" /\ f.keep = op.g
    <3>1. Wrote(op, n, f)
      BY <1>1
    <3>2. DOMAIN f = {"pc", "keep"} /\ f.pc = "gather next" /\ f.keep = op.g
      BY <2>1
    <3> QED
      BY <3>1, <3>2
  <2>3. n.pc = "gather next" /\ n.keep = op.g /\ n.g = op.g
    BY <2>2, WroteIs
  <2>4. Carried(op, n)
    BY <2>2, CarriedIs
  <2> QED
    BY <1>2, <2>3, <2>4 DEF Finishes
<1>3. CASE op.kind # "gather"
  <2>1. f = [pc |-> "done"]
    BY <1>1, <1>3 DEF Finished
  <2>2. Wrote(op, n, f) /\ DOMAIN f = {"pc"} /\ f.pc = "done"
    BY <1>1, <2>1
  <2>3. n.pc = "done" /\ n.g = op.g
    BY <2>2, WroteIs
  <2>4. Carried(op, n)
    BY <2>2, CarriedIs
  <2> QED
    BY <1>3, <2>3, <2>4 DEF Finishes
<1> QED
  BY <1>2, <1>3

\* A group that holds tabs in order holds them after it is named and opened or shut.
LEMMA LabelledStill ==
    ASSUME NEW o, NEW n, NEW B, NEW C, C.strip = B.strip, C.group = B.group, n.g = o.g, n.ids = o.ids, n.w = o.w
    PROVE  /\ Together(o, B) => Together(n, C)
           /\ Ordered(o, B) => Ordered(n, C)
<1>1. Members(C, n.g) = Members(B, o.g)
  BY DEF Members, InGroup
<1> QED
  BY <1>1 DEF Together, Ordered

LEMMA TogetherLives ==
    ASSUME NEW o, NEW B, WellFormed(B), Together(o, B)
    PROVE  Lives(B, o.g) /\ GroupWindow(B, o.g) = o.w
<1>1. PICK x : x \in ToSet(o.ids)
  <2>1. o.ids \in Seq(Tabs) /\ o.ids # <<>>
    BY DEF Together, Once
  <2> QED
    BY <2>1, TailIs
<1>2. PICK g, w : g = o.g /\ w = o.w
  OBVIOUS
<1>3. w \in Windows /\ x \in ToSet(B.strip[w]) /\ B.group[x] = g /\ g # None
  BY <1>1, <1>2, StripAssumption DEF Together
<1> QED
  BY <1>2, <1>3, LivesHere

LEMMA UpdatesNow ==
    ASSUME BrowserSound, UpdateGroup, Together(op, b), Ordered(op, b), op.title # "same", ~dragging
    PROVE  /\ WellFormed(b') /\ b'.strip = b.strip /\ b'.group = b.group /\ b'.pinned = b.pinned /\ b'.page = b.page
           /\ b'.title = [b.title EXCEPT ![op.g] = op.title]
           /\ Carried(op, op') /\ op'.g = op.g /\ Together(op', b') /\ Ordered(op', b')
           /\ Finishes(op, op') \/ (op'.pc = "collapse" /\ op'.keep = op.keep)
<1>1. op.pc = "label" /\ WellFormed(b) /\ OpFields \subseteq DOMAIN op /\ Named(op)
  BY StepsAt, WorkingTold
<1>2. Lives(b, op.g) /\ op.g \in Groups
  BY <1>1, TogetherLives DEF Together
<1>3. PICK then, C : /\ then = IF op.shut = "yes" THEN [pc |-> "collapse"] ELSE Finished
                     /\ C = [b EXCEPT !.title[op.g] = IF op.title = "same" THEN @ ELSE op.title,
                                      !.shut = IF op.shut = "no" THEN @ \ {op.g} ELSE @]
  OBVIOUS
<1>4. b' = C /\ Wrote(op, op', then)
  <2>1. PICK Bs : Bs = {C}
    OBVIOUS
  <2>2. Edit(Lives(b, op.g), Bs, then, Failed)
    BY <1>3, <2>1 DEF UpdateGroup
  <2>3. \/ Lives(b, op.g) /\ b' \in Bs /\ Wrote(op, op', then)
        \/ ~Lives(b, op.g) /\ b' = b /\ Wrote(op, op', Failed)
    BY <1>1, <2>2, EditNow
  <2> QED
    BY <1>2, <2>1, <2>3
<1>5. /\ C.strip = b.strip /\ C.group = b.group /\ C.pinned = b.pinned /\ C.page = b.page
      /\ C.title = [b.title EXCEPT ![op.g] = op.title]
  <2>1. b \in Browsers
    BY <1>1 DEF WellFormed
  <2> QED
    BY <1>3, <2>1 DEF Browsers
<1>6. WellFormed(b')
  <2>1. BrowserSound'
    BY UpdateGroupIs
  <2> QED
    BY <2>1 DEF BrowserSound
<1>7. PICK n : n = op'
  OBVIOUS
<1>8. Carried(op, n) /\ n.g = op.g /\ (Finishes(op, n) \/ (n.pc = "collapse" /\ n.keep = op.keep))
  <2>1. CASE op.shut = "yes"
    <3>1. then = [pc |-> "collapse"] /\ Wrote(op, n, then)
      BY <1>3, <1>4, <1>7, <2>1
    <3>2. DOMAIN then = {"pc"} /\ then.pc = "collapse"
      BY <3>1
    <3>3. n.pc = "collapse" /\ n.keep = op.keep /\ n.g = op.g
      BY <3>1, <3>2, WroteIs
    <3>4. Carried(op, n)
      BY <3>1, <3>2, CarriedIs
    <3> QED
      BY <3>3, <3>4
  <2>2. CASE op.shut # "yes"
    <3>1. Wrote(op, n, Finished)
      BY <1>3, <1>4, <1>7, <2>2
    <3> QED
      BY <3>1, FinishedIs
  <2> QED
    BY <2>1, <2>2
<1>9. Together(n, C) /\ Ordered(n, C)
  <2>1. PICK o, B : o = op /\ B = b
    OBVIOUS
  <2>2. C.strip = B.strip /\ C.group = B.group /\ n.g = o.g /\ n.ids = o.ids /\ n.w = o.w /\ Together(o, B) /\ Ordered(o, B)
    BY <1>5, <1>8, <2>1 DEF Carried
  <2> QED
    BY <2>2, LabelledStill
<1> QED
  BY <1>4, <1>5, <1>6, <1>7, <1>8, <1>9

LEMMA CollapsesNow ==
    ASSUME BrowserSound, CollapseSafely, Together(op, b), Ordered(op, b), ~dragging
    PROVE  /\ WellFormed(b') /\ b'.strip = b.strip /\ b'.group = b.group /\ b'.pinned = b.pinned /\ b'.page = b.page
           /\ b'.title = b.title
           /\ Carried(op, op') /\ op'.g = op.g /\ Together(op', b') /\ Ordered(op', b') /\ Finishes(op, op')
<1>1. op.pc = "collapse" /\ WellFormed(b) /\ OpFields \subseteq DOMAIN op
  BY StepsAt, WorkingTold
<1>2. Lives(b, op.g) /\ op.g \in Groups
  BY <1>1, TogetherLives DEF Together
<1>3. PICK C : C = IF MayCollapse(op.g) THEN [b EXCEPT !.shut = @ \cup {op.g}] ELSE b
  OBVIOUS
<1>4. b' = C /\ Wrote(op, op', Finished)
  <2>1. PICK Bs : Bs = {C}
    OBVIOUS
  <2>2. Edit(Lives(b, op.g), Bs, Finished, Failed)
    BY <1>3, <2>1 DEF CollapseSafely
  <2>3. \/ Lives(b, op.g) /\ b' \in Bs /\ Wrote(op, op', Finished)
        \/ ~Lives(b, op.g) /\ b' = b /\ Wrote(op, op', Failed)
    BY <1>1, <2>2, EditNow
  <2> QED
    BY <1>2, <2>1, <2>3
<1>5. C.strip = b.strip /\ C.group = b.group /\ C.pinned = b.pinned /\ C.page = b.page /\ C.title = b.title
  <2>1. b \in Browsers
    BY <1>1 DEF WellFormed
  <2> QED
    BY <1>3, <2>1 DEF Browsers
<1>6. WellFormed(b')
  <2>1. BrowserSound'
    BY CollapseSafelyIs
  <2> QED
    BY <2>1 DEF BrowserSound
<1>7. PICK n : n = op'
  OBVIOUS
<1>8. Carried(op, n) /\ n.g = op.g /\ Finishes(op, n)
  BY <1>4, <1>7, FinishedIs
<1>9. Together(n, C) /\ Ordered(n, C)
  <2>1. PICK o, B : o = op /\ B = b
    OBVIOUS
  <2>2. C.strip = B.strip /\ C.group = B.group /\ n.g = o.g /\ n.ids = o.ids /\ n.w = o.w /\ Together(o, B) /\ Ordered(o, B)
    BY <1>5, <1>8, <2>1 DEF Carried
  <2> QED
    BY <2>2, LabelledStill
<1> QED
  BY <1>4, <1>5, <1>6, <1>7, <1>8, <1>9

\* Tabs of one window, none pinned, may join; a gather's have come to its window.
Joins(o, n, B) == n.pc = "join" /\ JoinReady(n, B) /\ n.kind = o.kind /\ n.title = o.title /\ n.ids = o.ids
                  /\ n.keep = o.keep /\ n.rest = o.rest /\ n.was = o.was /\ n.failed = o.failed
LEMMA GroupTabsNow ==
    ASSUME BrowserSound, GroupTabs
    PROVE  /\ b' = b
           /\ Wrote(op, op', Failed) \/ Joins(op, op', b)
           /\ op.ids # <<>> /\ ToSet(op.ids) \subseteq ToSet(b.strip[op.w]) \ b.pinned => Joins(op, op', b) /\ op'.w = op.w
<1>1. /\ op.pc = "group" /\ b' = b /\ WellFormed(b) /\ OpFields \subseteq DOMAIN op /\ op.w \in Windows
      /\ op.ids \in Seq(Tabs) /\ IsInjective(op.ids)
  BY StepsAt, WorkingTold DEF GroupTabs, Named, Stage
<1>2. PICK ws : ws = {Window(b, t) : t \in ToSet(op.ids) \cap OpenTabs(b)}
  OBVIOUS
<1>3. PICK ok : ok = (ToSet(op.ids) \subseteq OpenTabs(b) /\ Cardinality(ws) = 1 /\ ToSet(op.ids) \cap b.pinned = {})
  OBVIOUS
<1>4. Ready(b) /\ ws \subseteq Windows
  BY <1>1, <1>2, WellFormedIsReady, WindowIs
<1>5. ASSUME ok
      PROVE  \E w \in Windows : ws = {w} /\ op.ids # <<>> /\ ToSet(op.ids) \subseteq ToSet(b.strip[w]) \ b.pinned
  <2>1. IsFiniteSet(ws)
    <3>1. IsFiniteSet({1}) /\ IsFiniteSet({2})
      BY FS_Singleton
    <3>2. IsFiniteSet({1} \cup {2}) /\ Windows = {1} \cup {2}
      BY <3>1, FS_Union DEF Windows
    <3> QED
      BY <1>4, <3>2, FS_Subset
  <2>2. PICK w : ws = {w}
    <3>1. Cardinality(ws) = 1
      BY <1>3, <1>5
    <3> QED
      BY <2>1, <3>1, FS_Singleton
  <2>3. w \in Windows
    BY <1>4, <2>2
  <2>4. \A t \in ToSet(op.ids) : t \in ToSet(b.strip[w]) /\ t \notin b.pinned
    <3>1. SUFFICES ASSUME NEW t \in ToSet(op.ids) PROVE t \in ToSet(b.strip[w]) /\ t \notin b.pinned
      OBVIOUS
    <3>2. t \in OpenTabs(b) /\ t \notin b.pinned
      BY <1>3, <1>5
    <3>3. Window(b, t) = w
      BY <1>2, <2>2, <3>2
    <3> QED
      BY <1>4, <3>2, <3>3, WindowIs
  <2>5. op.ids # <<>>
    <3>1. w \in ws
      BY <2>2
    <3>2. PICK t : t \in ToSet(op.ids)
      BY <1>2, <3>1
    <3> QED
      BY <3>2, <1>1, Numbered DEF ToSet
  <2> QED
    BY <2>2, <2>3, <2>4, <2>5
<1>6. PICK n : n = op'
  OBVIOUS
<1>7. ASSUME ok, NEW w \in Windows, ws = {w}, op.ids # <<>>, ToSet(op.ids) \subseteq ToSet(b.strip[w]) \ b.pinned
      PROVE  Joins(op, n, b) /\ n.w = w
  <2>1. PICK g : g = IF TitledIn(b, op.title, w) = <<>> THEN None ELSE Head(TitledIn(b, op.title, w))
    OBVIOUS
  <2>2. PICK f : f = [pc |-> "join", w |-> w, g |-> g]
    OBVIOUS
  <2>3. w = CHOOSE v \in ws : TRUE
    BY <1>7
  <2>4. Move(f)
    BY <1>2, <1>3, <1>7, <2>1, <2>2, <2>3 DEF GroupTabs
  <2>5. Wrote(op, n, f) /\ DOMAIN f = {"pc", "w", "g"} /\ f.pc = "join" /\ f.w = w /\ f.g = g
    <3>1. Wrote(op, n, f)
      BY <1>1, <1>6, <2>4, MoveIs
    <3>2. DOMAIN f = {"pc", "w", "g"} /\ f.pc = "join" /\ f.w = w /\ f.g = g
      BY <2>2
    <3> QED
      BY <3>1, <3>2
  <2>6. n.pc = "join" /\ n.w = w /\ n.g = g /\ n.kind = op.kind /\ n.title = op.title /\ n.ids = op.ids /\ n.keep = op.keep
    BY <2>5, WroteIs
  <2>7. n.rest = op.rest /\ n.was = op.was /\ n.failed = op.failed
    BY <2>5, WroteMore
  <2>8. JoinReady(n, b)
    BY <1>7, <2>1, <2>6 DEF JoinReady
  <2> QED
    BY <2>6, <2>7, <2>8 DEF Joins
<1>8. ~ok => Wrote(op, n, Failed)
  <2>1. ~ok => Move(Failed)
    BY <1>2, <1>3 DEF GroupTabs
  <2> QED
    BY <1>1, <1>6, <2>1, MoveIs
<1>9. ASSUME op.ids # <<>>, ToSet(op.ids) \subseteq ToSet(b.strip[op.w]) \ b.pinned
      PROVE  ok /\ ws = {op.w}
  <2>1. PICK w : w = op.w
    OBVIOUS
  <2>2. \A t \in ToSet(op.ids) : t \in OpenTabs(b) /\ Window(b, t) = w /\ t \notin b.pinned
    BY <1>1, <1>4, <1>9, <2>1, OpenIs, WindowIs
  <2>3. PICK t : t \in ToSet(op.ids)
    BY <1>1, <1>9, TailIs
  <2>4. ws = {w}
    BY <1>2, <2>2, <2>3
  <2>5. Cardinality(ws) = 1
    BY <2>4, FS_Singleton
  <2> QED
    BY <1>3, <2>1, <2>2, <2>4, <2>5
<1>10. ok => \E w \in Windows : Joins(op, n, b) /\ n.w = w
  BY <1>5, <1>7
<1>11. op.ids # <<>> /\ ToSet(op.ids) \subseteq ToSet(b.strip[op.w]) \ b.pinned => Joins(op, n, b) /\ n.w = op.w
  BY <1>1, <1>7, <1>9
<1> QED
  BY <1>1, <1>6, <1>8, <1>10, <1>11

\* What is known of tabs that join a group, whoever asked for it; and what groupTabs knows besides.
JoinSteps == {"group", "join", "plan", "order", "label", "collapse"}
Late == {"plan", "order", "label", "collapse"}
JoinKnown(o, B) ==
  /\ o.pc = "join" => JoinReady(o, B)
  /\ o.pc \in Late => Together(o, B)
  /\ o.pc = "order" => Ordering(o, B)
  /\ o.pc \in {"label", "collapse"} => Ordered(o, B)
First(o) == TitledIn(o.was, o.title, o.w)
ItsFirst(o) == First(o) # <<>> => o.g = Head(First(o))
GroupedSo(o, B) == B.title[o.g] = o.title /\ Ordered(o, B) /\ ItsFirst(o)
GroupGoes(o, B) ==
  /\ o.kind = "group" /\ o.pc \in JoinSteps \cup {"done"} /\ (o.failed => o.pc = "done") /\ o.title # "same"
  /\ o.pc \in {"group", "join"} => B = o.was
  /\ JoinKnown(o, B)
  /\ o.pc \in Late => ItsFirst(o)
  /\ o.pc = "collapse" => B.title[o.g] = o.title
  /\ o.pc = "done" => o.failed \/ GroupedSo(o, B)

LEMMA GroupFailed ==
    ASSUME Wrote(op, op', Failed), op.kind = "group", op.title # "same", NEW B
    PROVE  GroupGoes(op', B)
<1>1. PICK n, o, f : n = op' /\ o = op /\ f = Failed
  OBVIOUS
<1>2. f = [pc |-> "done", failed |-> TRUE]
  BY <1>1 DEF Failed
<1>3. DOMAIN f = {"pc", "failed"} /\ f.pc = "done" /\ f.failed
  BY <1>2
<1>4. n.pc = "done" /\ n.kind = "group" /\ n.title # "same"
  BY <1>1, <1>3, WroteIs
<1>5. n.failed
  BY <1>1, <1>3, WroteMore
<1> QED
  BY <1>1, <1>4, <1>5 DEF GroupGoes, JoinSteps, JoinKnown, Late

LEMMA GroupStarts ==
    ASSUME BrowserSound, GroupTabs, GroupGoes(op, b)
    PROVE  GroupGoes(op', b')
<1>1. op.pc = "group"
  BY StepsAt
<1>2. b = op.was /\ ~op.failed /\ op.kind = "group" /\ op.title # "same"
  BY <1>1 DEF GroupGoes
<1>3. PICK n, o, B : n = op' /\ o = op /\ B = b
  OBVIOUS
<1>4. b' = B /\ (Wrote(op, n, Failed) \/ Joins(o, n, B))
  BY <1>3, GroupTabsNow
<1>5. CASE Joins(o, n, B)
  BY <1>2, <1>3, <1>4, <1>5 DEF Joins, GroupGoes, JoinSteps, JoinKnown, Late
<1> QED
  BY <1>2, <1>3, <1>4, <1>5, GroupFailed

LEMMA GroupJoins ==
    ASSUME BrowserSound, JoinGroup, GroupGoes(op, b), ~dragging
    PROVE  GroupGoes(op', b')
<1>1. op.pc = "join"
  BY StepsAt
<1>2. b = op.was /\ ~op.failed /\ op.kind = "group" /\ op.title # "same" /\ JoinReady(op, b)
  BY <1>1 DEF GroupGoes, JoinKnown
<1>3. PICK n, o, C : n = op' /\ o = op /\ C = b'
  OBVIOUS
<1>4. Carried(o, n) /\ n.pc = "plan" /\ Together(n, C) /\ (o.g # None => n.g = o.g)
  BY <1>2, <1>3, JoinsNow
<1>5. ItsFirst(n)
  <2>1. First(n) = TitledIn(b, op.title, op.w)
    BY <1>2, <1>3, <1>4 DEF First, Carried
  <2>2. ASSUME First(n) # <<>> PROVE n.g = Head(First(n))
    <3>1. op.g = Head(First(n))
      BY <1>2, <2>1, <2>2 DEF JoinReady
    <3>2. op.g \in Groups
      <4>1. First(n) \in Seq(Groups)
        BY <2>1, <1>1, WorkingTold, TitledInIs DEF Named
      <4> QED
        BY <2>2, <3>1, <4>1
    <3> QED
      BY <1>3, <1>4, <3>1, <3>2, StripAssumption
  <2> QED
    BY <2>2 DEF ItsFirst
<1> QED
  BY <1>2, <1>3, <1>4, <1>5 DEF GroupGoes, JoinSteps, JoinKnown, Late, Carried

LEMMA CarriedFirst ==
    ASSUME NEW o, NEW n, Carried(o, n), n.g = o.g, ItsFirst(o)
    PROVE  ItsFirst(n)
<1>1. First(n) = First(o)
  BY DEF First, Carried
<1> QED
  BY <1>1 DEF ItsFirst

LEMMA GroupPlans ==
    ASSUME BrowserSound, PlanOrder \/ OrderTab \/ PutBack, GroupGoes(op, b), ~dragging
    PROVE  GroupGoes(op', b')
<1>1. op.pc \in {"plan", "order"} /\ (op.pc = "plan" => PlanOrder) /\ (op.pc = "order" => OrderTab \/ PutBack)
  BY StepsAt
<1>2. /\ ~op.failed /\ op.kind = "group" /\ op.title # "same" /\ Together(op, b) /\ ItsFirst(op)
      /\ (op.pc = "order" => Ordering(op, b))
  BY <1>1 DEF GroupGoes, JoinKnown, Late
<1>3. PICK n, o, C : n = op' /\ o = op /\ C = b'
  OBVIOUS
<1>4. /\ Carried(o, n) /\ n.g = o.g /\ Together(n, C)
      /\ (n.pc = "order" /\ Ordering(n, C)) \/ (n.pc = "label" /\ Ordered(n, C))
  <2>1. CASE op.pc = "plan"
    BY <1>1, <1>2, <1>3, <2>1, PlansNow
  <2>2. CASE op.pc = "order" /\ OrderTab
    BY <1>2, <1>3, <2>2, OrdersNow
  <2>3. CASE op.pc = "order" /\ PutBack
    BY <1>2, <1>3, <2>3, PutsBackNow
  <2> QED
    BY <1>1, <2>1, <2>2, <2>3
<1>5. ItsFirst(n)
  BY <1>2, <1>3, <1>4, CarriedFirst
<1> QED
  BY <1>2, <1>3, <1>4, <1>5 DEF GroupGoes, JoinSteps, JoinKnown, Late, Carried

LEMMA GroupLabels ==
    ASSUME BrowserSound, UpdateGroup \/ CollapseSafely, GroupGoes(op, b), ~dragging
    PROVE  GroupGoes(op', b')
<1>1. op.pc \in {"label", "collapse"} /\ (op.pc = "label" => UpdateGroup) /\ (op.pc = "collapse" => CollapseSafely)
  BY StepsAt
<1>2. /\ ~op.failed /\ op.kind = "group" /\ op.title # "same" /\ Together(op, b) /\ Ordered(op, b) /\ ItsFirst(op)
      /\ (op.pc = "collapse" => b.title[op.g] = op.title)
  BY <1>1 DEF GroupGoes, JoinKnown, Late
<1>3. PICK n, o, C : n = op' /\ o = op /\ C = b'
  OBVIOUS
<1>4. /\ Carried(o, n) /\ n.g = o.g /\ Together(n, C) /\ Ordered(n, C) /\ (n.pc \in {"done", "collapse"})
      /\ C.title[n.g] = n.title
  <2>1. CASE op.pc = "label"
    <3>1. /\ C.title = [b.title EXCEPT ![o.g] = o.title] /\ Carried(o, n) /\ n.g = o.g /\ Together(n, C) /\ Ordered(n, C)
          /\ Finishes(o, n) \/ n.pc = "collapse"
      BY <1>1, <1>2, <1>3, <2>1, UpdatesNow
    <3>2. n.pc \in {"done", "collapse"}
      BY <1>2, <1>3, <3>1 DEF Finishes
    <3>3. b.title \in [Groups -> Titles] /\ o.g \in Groups
      BY <1>1, <1>2, <1>3, WorkingTold DEF WellFormed, Browsers, Together
    <3>4. C.title[n.g] = n.title
      BY <3>1, <3>3 DEF Carried
    <3> QED
      BY <3>1, <3>2, <3>4
  <2>2. CASE op.pc = "collapse"
    <3>1. C.title = b.title /\ Carried(o, n) /\ n.g = o.g /\ Together(n, C) /\ Ordered(n, C) /\ Finishes(o, n)
      BY <1>1, <1>2, <1>3, <2>2, CollapsesNow
    <3>2. n.pc = "done"
      BY <1>2, <1>3, <3>1 DEF Finishes
    <3> QED
      BY <1>2, <1>3, <2>2, <3>1, <3>2 DEF Carried
  <2> QED
    BY <1>1, <2>1, <2>2
<1>5. ItsFirst(n)
  BY <1>2, <1>3, <1>4, CarriedFirst
<1> QED
  BY <1>2, <1>3, <1>4, <1>5 DEF GroupGoes, GroupedSo, JoinSteps, JoinKnown, Late, Carried
=============================================================================
