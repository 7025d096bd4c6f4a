------------------------------ MODULE SeqLemmas -----------------------------
(***************************************************************************)
(* Induction on the natural numbers, definition by recursion, and what the *)
(* concatenation of a sequence of sequences is.  The concatenation is that *)
(* of the model, FlattenSeq of the module Concat.                    *)
(*                                                                         *)
(* Induction is stated about a set rather than a predicate, so that a proof*)
(* can give the set of the numbers for which its claim holds.              *)
(***************************************************************************)
EXTENDS Concat, WellFoundedInduction, TLAPS

\* A set of natural numbers that is not empty has a least element.
LEMMA Least ==
  ASSUME NEW S \in SUBSET Nat, S # {}
  PROVE  \E i \in S : \A j \in S : i <= j
<1> DEFINE R == {ss \in Nat \X Nat : ss[1] < ss[2]}
<1>1. IsWellFoundedOn(R, Nat)
  BY NatLessThanWellFounded DEF OpToRel
<1>2. \A x, y \in Nat : x < y => <<x, y>> \in R
  OBVIOUS
<1> HIDE DEF R
<1>3. PICK x \in S : \A y \in S : ~(<<y, x>> \in R)
  BY <1>1, WFMin
<1>4. \A y \in S : ~(y < x)
  BY <1>2, <1>3
<1> QED
  BY <1>3, <1>4

\* A set that has 0, and n + 1 with every n, has every natural number.
LEMMA Induction ==
  ASSUME NEW S, 0 \in S, \A n \in Nat : n \in S => n + 1 \in S
  PROVE  Nat \subseteq S
<1> DEFINE T == {n \in Nat : n \notin S}
<1> SUFFICES ASSUME T # {} PROVE FALSE
  OBVIOUS
<1>1. PICK n \in T : \A m \in T : n <= m
  BY Least
<1>2. n # 0 /\ n - 1 \in Nat /\ n - 1 \notin T
  BY <1>1
<1> QED
  BY <1>1, <1>2

\* f[0] is a, and f[n + 1] is F[n] of f[n].
Iterates(f, T, a, F) == /\ f \in [Nat -> T] /\ f[0] = a
                        /\ \A n \in Nat : f[n + 1] = F[n][f[n]]
\* The functions a recursion can be made of.
Updates(T) == [Nat -> [T -> T]]

\* A function that is defined by recursion on the natural numbers exists.
LEMMA Recursion ==
  ASSUME NEW T, NEW a \in T, NEW F \in Updates(T)
  PROVE  \E f : Iterates(f, T, a, F)
<1> F \in [Nat -> [T -> T]]
  BY DEF Updates
<1> DEFINE G(m, f) == /\ f \in [0 .. m -> T] /\ f[0] = a
                      /\ \A n \in 0 .. m - 1 : f[n + 1] = F[n][f[n]]
           S == {m \in Nat : \E f : G(m, f)}
<1>1. 0 \in S
  <2>1. G(0, [i \in 0 .. 0 |-> a])
    OBVIOUS
  <2> QED
    BY <2>1
<1>2. ASSUME NEW m \in Nat, m \in S PROVE m + 1 \in S
  <2>1. PICK f : G(m, f)
    BY <1>2
  <2>2. f[m] \in T /\ F[m] \in [T -> T]
    BY <2>1
  <2> DEFINE new == F[m][f[m]]
             g == [i \in 0 .. m + 1 |-> IF i = m + 1 THEN new ELSE f[i]]
  <2>3. new \in T
    BY <2>2
  <2> HIDE DEF new
  <2>4. g \in [0 .. m + 1 -> T] /\ g[0] = a
    BY <2>1, <2>3
  <2>5. ASSUME NEW n \in 0 .. (m + 1) - 1 PROVE g[n + 1] = F[n][g[n]]
    <3>1. g[n] = f[n]
      OBVIOUS
    <3>2. CASE n = m
      BY <3>1, <3>2 DEF new
    <3>3. CASE n # m
      <4>1. n \in 0 .. m - 1 /\ g[n + 1] = f[n + 1]
        BY <3>3
      <4> QED
        BY <2>1, <3>1, <4>1
    <3> QED
      BY <3>2, <3>3
  <2>6. \E x : G(m + 1, x)
    <3> HIDE DEF g
    <3> QED
      BY <2>4, <2>5
  <2> QED
    BY <2>6
<1> HIDE DEF G
<1>3. \A m \in Nat : \E f : G(m, f)
  <2> HIDE DEF S
  <2>1. Nat \subseteq S
    BY <1>1, <1>2, Induction
  <2> QED
    BY <2>1 DEF S
<1>4. ASSUME NEW k \in Nat, NEW m \in Nat, k <= m, NEW f, NEW g, G(k, f), G(m, g)
      PROVE  \A n \in 0 .. k : f[n] = g[n]
  <2> DEFINE U == {n \in Nat : n <= k => f[n] = g[n]}
  <2>1. 0 \in U
    BY <1>4 DEF G
  <2>2. ASSUME NEW n \in Nat, n \in U PROVE n + 1 \in U
    <3> SUFFICES ASSUME n + 1 <= k PROVE f[n + 1] = g[n + 1]
      OBVIOUS
    <3>1. n \in 0 .. k - 1 /\ n \in 0 .. m - 1 /\ f[n] = g[n]
      BY <1>4, <2>2
    <3> QED
      BY <1>4, <3>1 DEF G
  <2>3. Nat \subseteq U
    <3> HIDE DEF U
    <3> QED
      BY <2>1, <2>2, Induction
  <2> QED
    BY <2>3
<1> DEFINE H(m) == CHOOSE f : G(m, f)
           f == [n \in Nat |-> H(n)[n]]
<1>5. \A m \in Nat : G(m, H(m))
  BY <1>3
<1> HIDE DEF H
<1>6. f \in [Nat -> T] /\ f[0] = a
  <2>1. ASSUME NEW n \in Nat PROVE H(n)[n] \in T
    <3>1. H(n) \in [0 .. n -> T]
      BY <1>5 DEF G
    <3> QED
      BY <3>1
  <2>2. H(0)[0] = a
    BY <1>5 DEF G
  <2> QED
    BY <2>1, <2>2
<1>7. ASSUME NEW n \in Nat PROVE f[n + 1] = F[n][f[n]]
  <2>1. H(n + 1)[n + 1] = F[n][H(n + 1)[n]]
    BY <1>5 DEF G
  <2>2. H(n)[n] = H(n + 1)[n]
    <3>1. n \in 0 .. n /\ n + 1 \in Nat /\ n <= n + 1
      OBVIOUS
    <3>2. G(n, H(n)) /\ G(n + 1, H(n + 1))
      BY <1>5, <3>1
    <3> QED
      BY <1>4, <3>1, <3>2
  <2> QED
    BY <2>1, <2>2
<1> HIDE DEF f
<1>8. Iterates(f, T, a, F)
  BY <1>6, <1>7 DEF Iterates
<1> QED
  BY <1>8

-----------------------------------------------------------------------------
\* The concatenation of the first k sequences.
UpTo(s, k) == FlattenSeq(SubSeq(s, 1, k))

\* Concatenation, under a name that a proof need not expand.
Cat(a, b) == a \o b

\* FlattenSeq is the last of the partial concatenations, however they are given.
LEMMA FlattenIs ==
  ASSUME NEW q, NEW n \in Nat, Len(q) = n, NEW f, f[0] = <<>>,
         \A i \in 1 .. n : f[i] = Cat(f[i - 1], q[i])
  PROVE  FlattenSeq(q) = f[n]
<1> DEFINE G(g) == g = [i \in 0 .. Len(q) |-> IF i = 0 THEN <<>> ELSE Cat(g[i - 1], q[i])]
           h == [i \in 0 .. n |-> f[i]]
           hh == [i \in 0 .. n |-> IF i = 0 THEN <<>> ELSE Cat(h[i - 1], q[i])]
<1>1. ASSUME NEW i \in 0 .. n PROVE h[i] = hh[i]
  <2>1. CASE i = 0
    BY <2>1
  <2>2. CASE i # 0
    <3>1. i \in 1 .. n /\ i - 1 \in 0 .. n
      BY <2>2
    <3>2. h[i - 1] = f[i - 1] /\ h[i] = f[i]
      BY <3>1
    <3>3. hh[i] = Cat(h[i - 1], q[i])
      <4> HIDE DEF h
      <4> QED
        BY <2>2
    <3> HIDE DEF h, hh
    <3> QED
      BY <3>1, <3>2, <3>3
  <2> QED
    BY <2>1, <2>2
<1>2. h = hh
  <2>1. h = [i \in 0 .. n |-> h[i]] /\ hh = [i \in 0 .. n |-> hh[i]]
    OBVIOUS
  <2> HIDE DEF h, hh
  <2> QED
    BY <1>1, <2>1
<1>3. G(h)
  BY <1>2
<1> DEFINE g == CHOOSE x : G(x)
<1>4. G(g)
  <2> HIDE DEF h, G
  <2> QED
    BY <1>3
<1>5. FlattenSeq(q) = g[n]
  BY DEF FlattenSeq, Cat
<1> HIDE DEF g
<1>6. ASSUME NEW i \in 0 .. n PROVE g[i] = IF i = 0 THEN <<>> ELSE Cat(g[i - 1], q[i])
  BY <1>4
<1> DEFINE U == {m \in Nat : m <= n => g[m] = f[m]}
<1>7. 0 \in U
  <2>1. 0 \in 0 .. n
    OBVIOUS
  <2>2. g[0] = <<>>
    BY <1>6, <2>1
  <2> QED
    BY <2>2
<1>8. ASSUME NEW m \in Nat, m \in U PROVE m + 1 \in U
  <2> SUFFICES ASSUME m + 1 <= n PROVE g[m + 1] = f[m + 1]
    OBVIOUS
  <2>1. m + 1 \in 1 .. n /\ m + 1 \in 0 .. n /\ m + 1 # 0 /\ (m + 1) - 1 = m /\ g[m] = f[m]
    BY <1>8
  <2> QED
    BY <1>6, <2>1
<1>9. Nat \subseteq U
  <2> HIDE DEF U
  <2> QED
    BY <1>7, <1>8, Induction
<1> QED
  BY <1>5, <1>9

\* For sequences over X the partial concatenations exist, and are sequences over X.
LEMMA FlattenSums ==
  ASSUME NEW X, NEW s \in Seq(Seq(X))
  PROVE  \E f \in [Nat -> Seq(X)] :
           /\ f[0] = <<>>
           /\ \A k \in 1 .. Len(s) : f[k] = Cat(f[k - 1], s[k])
           /\ \A k \in 0 .. Len(s) : UpTo(s, k) = f[k]
<1> DEFINE T == Seq(X)
           F == [n \in Nat |-> [v \in T |-> IF n < Len(s) THEN Cat(v, s[n + 1]) ELSE v]]
<1>1. F \in [Nat -> [T -> T]]
  <2>1. ASSUME NEW n \in Nat, NEW v \in T, n < Len(s) PROVE Cat(v, s[n + 1]) \in T
    <3>1. n + 1 \in 1 .. Len(s)
      BY <2>1
    <3>2. s[n + 1] \in Seq(X)
      BY <3>1
    <3> QED
      BY <3>2 DEF Cat
  <2> HIDE DEF T
  <2> QED
    BY <2>1
<1>2. <<>> \in T
  OBVIOUS
<1>3. PICK f \in [Nat -> T] : f[0] = <<>> /\ \A n \in Nat : f[n + 1] = F[n][f[n]]
  <2>1. \E f \in [Nat -> T] : f[0] = <<>> /\ \A n \in Nat : f[n + 1] = F[n][f[n]]
    <3> DEFINE e == <<>>
    <3>1. e \in T
      OBVIOUS
    <3>2. \E f \in [Nat -> T] : f[0] = e /\ \A n \in Nat : f[n + 1] = F[n][f[n]]
      <4> HIDE DEF F, T, e
      <4>1. F \in Updates(T)
        BY <1>1 DEF Updates
      <4>2. \E f : Iterates(f, T, e, F)
        BY <3>1, <4>1, Recursion
      <4> QED
        BY <4>2, Zenon DEF Iterates
    <3> HIDE DEF F, T
    <3> QED
      BY <3>2, Zenon
  <2> QED
    BY <2>1, Zenon
<1> HIDE DEF T
<1>4. ASSUME NEW k \in 1 .. Len(s) PROVE f[k] = Cat(f[k - 1], s[k])
  <2>1. k - 1 \in Nat /\ (k - 1) + 1 = k /\ k - 1 < Len(s)
    OBVIOUS
  <2>2. f[k] = F[k - 1][f[k - 1]] /\ f[k - 1] \in T
    <3> HIDE DEF F
    <3>1. f[(k - 1) + 1] = F[k - 1][f[k - 1]]
      BY <1>3, <2>1, Zenon
    <3> QED
      BY <1>3, <2>1, <3>1
  <2>3. F[k - 1][f[k - 1]] = Cat(f[k - 1], s[(k - 1) + 1])
    BY <2>1, <2>2
  <2> HIDE DEF F
  <2> QED
    BY <2>1, <2>2, <2>3
<1> HIDE DEF F
<1>5. ASSUME NEW k \in 1 .. Len(s) PROVE UpTo(s, k) = f[k]
  <2> DEFINE q == SubSeq(s, 1, k)
  <2>1. Len(q) = k
    OBVIOUS
  <2>2. \A i \in 1 .. k : q[i] = s[i]
    OBVIOUS
  <2> HIDE DEF q
  <2>3. \A i \in 1 .. k : f[i] = Cat(f[i - 1], q[i])
    <3>1. \A i \in 1 .. k : i \in 1 .. Len(s)
      OBVIOUS
    <3> QED
      BY <1>4, <2>2, <3>1
  <2>4. k \in Nat
    OBVIOUS
  <2>5. FlattenSeq(q) = f[k]
    <3>1. f[0] = <<>>
      BY <1>3, Zenon
    <3> QED
      BY <2>1, <2>3, <2>4, <3>1, FlattenIs
  <2> QED
    BY <2>5 DEF UpTo, q
<1>6. UpTo(s, 0) = f[0]
  <2>1. SubSeq(s, 1, 0) = <<>>
    OBVIOUS
  <2>2. FlattenSeq(<<>>) = <<>>
    <3>1. f[0] = <<>> /\ Len(<<>>) = 0 /\ 0 \in Nat
      BY <1>3, Zenon
    <3>2. \A i \in 1 .. 0 : f[i] = Cat(f[i - 1], <<>>[i])
      OBVIOUS
    <3>3. FlattenSeq(<<>>) = f[0]
      BY <3>1, <3>2, FlattenIs
    <3> QED
      BY <3>1, <3>3
  <2> QED
    BY <1>3, <2>1, <2>2 DEF UpTo
<1>7. \A k \in 0 .. Len(s) : UpTo(s, k) = f[k]
  <2>1. \A k \in 0 .. Len(s) : k = 0 \/ k \in 1 .. Len(s)
    OBVIOUS
  <2> QED
    BY <1>5, <1>6, <2>1
<1>8. /\ f[0] = <<>>
      /\ \A k \in 1 .. Len(s) : f[k] = Cat(f[k - 1], s[k])
  BY <1>3, <1>4, Zenon
<1> QED
  BY <1>7, <1>8, Zenon DEF T

\* How the concatenation grows.
LEMMA UpToFacts ==
  ASSUME NEW X, NEW s \in Seq(Seq(X))
  PROVE  /\ \A k \in 0 .. Len(s) : UpTo(s, k) \in Seq(X)
         /\ UpTo(s, 0) = <<>>
         /\ \A k \in 1 .. Len(s) : UpTo(s, k) = Cat(UpTo(s, k - 1), s[k])
         /\ UpTo(s, Len(s)) = FlattenSeq(s)
<1>1. PICK f \in [Nat -> Seq(X)] :
           /\ f[0] = <<>>
           /\ \A k \in 1 .. Len(s) : f[k] = Cat(f[k - 1], s[k])
           /\ \A k \in 0 .. Len(s) : UpTo(s, k) = f[k]
  BY FlattenSums, Zenon
<1>2. /\ \A k \in 0 .. Len(s) : k \in Nat
      /\ \A k \in 1 .. Len(s) : k - 1 \in 0 .. Len(s) /\ k \in 0 .. Len(s)
      /\ 0 \in 0 .. Len(s)
  OBVIOUS
<1>3. \A k \in 0 .. Len(s) : UpTo(s, k) \in Seq(X)
  <2> DEFINE T == Seq(X)
  <2>1. f \in [Nat -> T]
    BY <1>1
  <2> HIDE DEF T
  <2>2. \A k \in 0 .. Len(s) : UpTo(s, k) \in T
    BY <1>1, <1>2, <2>1
  <2> QED
    BY <2>2 DEF T
<1>4. \A k \in 1 .. Len(s) : UpTo(s, k) = Cat(UpTo(s, k - 1), s[k])
  BY <1>1, <1>2, Zenon
<1>5. SubSeq(s, 1, Len(s)) = s
  OBVIOUS
<1>6. UpTo(s, 0) = <<>>
  BY <1>1, <1>2, Zenon
<1> QED
  BY <1>3, <1>4, <1>5, <1>6, Zenon DEF UpTo

\* The concatenation of a prefix is a prefix of the concatenation.
LEMMA UpToPrefix ==
  ASSUME NEW X, NEW s \in Seq(Seq(X)), NEW j \in 0 .. Len(s), NEW k \in 0 .. Len(s), j <= k
  PROVE  /\ UpTo(s, j) \in Seq(X) /\ UpTo(s, k) \in Seq(X)
         /\ Len(UpTo(s, j)) <= Len(UpTo(s, k))
         /\ \A i \in 1 .. Len(UpTo(s, j)) : UpTo(s, k)[i] = UpTo(s, j)[i]
<1> DEFINE P(a, b) == /\ Len(a) <= Len(b)
                      /\ \A i \in 1 .. Len(a) : b[i] = a[i]
           U == {n \in Nat : j + n <= Len(s) => P(UpTo(s, j), UpTo(s, j + n))}
<1>1. \A n \in 0 .. Len(s) : UpTo(s, n) \in Seq(X)
  BY UpToFacts
<1>2. 0 \in U
  <2>1. j + 0 = j
    OBVIOUS
  <2>2. P(UpTo(s, j), UpTo(s, j))
    BY <1>1
  <2> QED
    BY <2>1, <2>2
<1>3. ASSUME NEW n \in Nat, n \in U PROVE n + 1 \in U
  <2> SUFFICES ASSUME j + (n + 1) <= Len(s) PROVE P(UpTo(s, j), UpTo(s, j + (n + 1)))
    OBVIOUS
  <2> DEFINE m == j + (n + 1)
             a == UpTo(s, j)
             b == UpTo(s, j + n)
             c == UpTo(s, m)
  <2>1. m \in 1 .. Len(s) /\ m - 1 = j + n /\ j + n \in 0 .. Len(s) /\ j + n <= Len(s)
    OBVIOUS
  <2>2. P(a, b)
    BY <1>3, <2>1
  <2>3. a \in Seq(X) /\ b \in Seq(X) /\ s[m] \in Seq(X)
    BY <1>1, <2>1
  <2>4. c = Cat(b, s[m])
    <3> HIDE DEF m
    <3> QED
      BY <2>1, UpToFacts
  <2>5. c \in Seq(X) /\ P(b, c)
    <3> HIDE DEF b, c, m
    <3> QED
      BY <2>3, <2>4 DEF Cat
  <2> HIDE DEF a, b, c
  <2>6. P(a, c)
    BY <2>2, <2>3, <2>5
  <2> QED
    BY <2>6 DEF a, c
<1>4. Nat \subseteq U
  <2> HIDE DEF U
  <2> QED
    BY <1>2, <1>3, Induction
<1>5. k - j \in Nat /\ j + (k - j) = k
  OBVIOUS
<1>6. k - j \in U
  BY <1>4, <1>5
<1>7. P(UpTo(s, j), UpTo(s, k))
  BY <1>5, <1>6
<1> QED
  BY <1>1, <1>7

\* Where the elements of the k-th sequence are in the concatenation.
LEMMA FlattenAt ==
  ASSUME NEW X, NEW s \in Seq(Seq(X)), NEW k \in 1 .. Len(s)
  PROVE  /\ UpTo(s, k - 1) \in Seq(X) /\ UpTo(s, k) \in Seq(X) /\ FlattenSeq(s) \in Seq(X)
         /\ Len(UpTo(s, k)) = Len(UpTo(s, k - 1)) + Len(s[k])
         /\ Len(UpTo(s, k)) <= Len(FlattenSeq(s))
         /\ \A j \in 1 .. Len(s[k]) : FlattenSeq(s)[Len(UpTo(s, k - 1)) + j] = s[k][j]
<1> DEFINE a == UpTo(s, k - 1)
           b == UpTo(s, k)
           c == FlattenSeq(s)
           x == s[k]
<1>1. k \in 0 .. Len(s) /\ k - 1 \in 0 .. Len(s) /\ Len(s) \in 0 .. Len(s) /\ k <= Len(s)
  OBVIOUS
<1>2. b = Cat(a, x) /\ c = UpTo(s, Len(s)) /\ a \in Seq(X) /\ b \in Seq(X) /\ c \in Seq(X)
  BY <1>1, UpToFacts
<1>3. x \in Seq(X)
  OBVIOUS
<1>4. /\ Len(b) <= Len(c)
      /\ \A i \in 1 .. Len(b) : c[i] = b[i]
  <2>1. /\ Len(UpTo(s, k)) <= Len(UpTo(s, Len(s)))
        /\ \A i \in 1 .. Len(UpTo(s, k)) : UpTo(s, Len(s))[i] = UpTo(s, k)[i]
    BY <1>1, UpToPrefix
  <2> HIDE DEF c
  <2> QED
    BY <1>2, <2>1
<1> HIDE DEF a, b, c, x
<1>5. /\ Len(b) = Len(a) + Len(x)
      /\ \A j \in 1 .. Len(x) : b[Len(a) + j] = x[j]
  BY <1>2, <1>3 DEF Cat
<1>6. \A j \in 1 .. Len(x) : c[Len(a) + j] = x[j]
  BY <1>2, <1>3, <1>4, <1>5
<1>7. /\ a \in Seq(X) /\ b \in Seq(X) /\ c \in Seq(X)
      /\ Len(b) = Len(a) + Len(x) /\ Len(b) <= Len(c)
  BY <1>2, <1>4, <1>5
<1> QED
  BY <1>6, <1>7 DEF a, b, c, x
=============================================================================
