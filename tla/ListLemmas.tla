------------------------------ MODULE ListLemmas ------------------------------
(***************************************************************************)
(* Numbers, functions that are given by steps, and the parts of a list:    *)
(* what the proofs about the panels' lists need.  The library's induction  *)
(* takes a property as a parameter; here it is an argument about the least *)
(* number in a set, which the provers can use.                             *)
(***************************************************************************)
EXTENDS Lists, Integers, WellFoundedInduction, TLAPS

\* A set of numbers that has an element has a least one.
LEMMA LeastNumber ==
    ASSUME NEW T, T \subseteq Nat, T # {}
    PROVE  \E n \in T : \A m \in T : n <= m
<1>1. PICK n \in T : \A m \in T : <<m, n>> \notin OpToRel(<, Nat)
  BY NatLessThanWellFounded, WFMin
<1>2. \A m \in T : ~(m < n)
  BY <1>1 DEF OpToRel
<1>3. QED
  BY <1>2

\* What holds of 0, and of n + 1 whenever it holds of n below N, holds up to N.
LEMMA UpToNumber ==
    ASSUME NEW T, NEW N \in Nat, 0 \in T,
           \A n \in 0 .. N : n \in T /\ n < N => n + 1 \in T
    PROVE  0 .. N \subseteq T
<1> DEFINE U == (0 .. N) \ T
<1>1. SUFFICES ASSUME U # {} PROVE FALSE
  OBVIOUS
<1>2. U \subseteq Nat
  OBVIOUS
<1>3. PICK n \in U : \A m \in U : n <= m
  BY <1>1, <1>2, LeastNumber
<1>4. n # 0 /\ n \in 0 .. N
  BY <1>3
<1>5. n - 1 \in 0 .. N /\ n - 1 \notin U
  BY <1>3, <1>4
<1>6. (n - 1) + 1 \in T
  BY <1>4, <1>5
<1>7. QED
  BY <1>3, <1>4, <1>6

\* A set of numbers that has an element and a bound has a greatest one.
LEMMA GreatestNumber ==
    ASSUME NEW T, T \subseteq Nat, T # {}, NEW b \in Nat, \A n \in T : n <= b
    PROVE  \E n \in T : \A m \in T : m <= n
<1> DEFINE D == {b - n : n \in T}
<1>1. D \subseteq Nat /\ D # {}
  <2>1. \A n \in T : b - n \in Nat
    OBVIOUS
  <2>2. QED
    BY <2>1
<1>2. PICK d \in D : \A e \in D : d <= e
  BY <1>1, LeastNumber
<1>3. PICK n \in T : d = b - n
  OBVIOUS
<1>4. ASSUME NEW m \in T PROVE m <= n
  <2>1. b - m \in D
    OBVIOUS
  <2>2. d <= b - m
    BY <1>2, <2>1
  <2>3. QED
    BY <1>3, <2>2
<1>5. QED
  BY <1>4

\* g begins with base and goes on by the steps.
Recursion(g, N, base, step) ==
    g[0] = base /\ \A n \in 1 .. N : g[n] = step[n][g[n - 1]]

\* A function that is given by its first value and by steps exists.
LEMMA RecursionHolds ==
    ASSUME NEW N \in Nat, NEW base, NEW step
    PROVE  \E R : \E g \in [0 .. N -> R] :
              Recursion(g, N, base, step)
<1> DEFINE Solves(g, k) == g = [n \in 0 .. k |-> IF n = 0 THEN base ELSE step[n][g[n - 1]]]
           T == {k \in 0 .. N : \E g : Solves(g, k)}
<1>1. 0 \in T
  <2>1. Solves([n \in 0 .. 0 |-> base], 0)
    OBVIOUS
  <2>2. \E g : Solves(g, 0)
    BY <2>1
  <2> HIDE DEF Solves
  <2>3. QED
    BY <2>2
<1>2. ASSUME NEW k \in 0 .. N, k \in T, k < N
      PROVE  k + 1 \in T
  <2>1. PICK g : Solves(g, k)
    BY <1>2
  <2> DEFINE h == [n \in 0 .. (k + 1) |-> IF n = k + 1 THEN step[n][g[k]] ELSE g[n]]
  <2>2. h[k] = g[k]
    OBVIOUS
  <2>3. h[k + 1] = step[k + 1][h[k]]
    BY <2>2
  <2>4. ASSUME NEW n \in 0 .. k
        PROVE  h[n] = IF n = 0 THEN base ELSE step[n][h[n - 1]]
    <3>1. h[n] = g[n]
      OBVIOUS
    <3>2. g[n] = IF n = 0 THEN base ELSE step[n][g[n - 1]]
      BY <2>1
    <3>3. n # 0 => h[n - 1] = g[n - 1]
      OBVIOUS
    <3>4. QED
      BY <3>1, <3>2, <3>3
  <2>5. ASSUME NEW n \in 0 .. (k + 1)
        PROVE  h[n] = IF n = 0 THEN base ELSE step[n][h[n - 1]]
    <3>1. CASE n \in 0 .. k
      BY <2>4, <3>1
    <3>2. CASE n = k + 1
      <4>1. n # 0 /\ n - 1 = k
        BY <3>2
      <4> HIDE DEF h
      <4>2. QED
        BY <2>3, <3>2, <4>1
    <3>3. QED
      BY <3>1, <3>2
  <2>6. h = [n \in 0 .. (k + 1) |-> h[n]]
    OBVIOUS
  <2> HIDE DEF h
  <2>7. Solves(h, k + 1)
    BY <2>5, <2>6
  <2>8. QED
    BY <1>2, <2>7
<1> HIDE DEF T
<1>3. 0 .. N \subseteq T
  BY <1>1, <1>2, UpToNumber
<1>4. PICK g : Solves(g, N)
  BY <1>3 DEF T
<1>5. g \in [0 .. N -> {g[n] : n \in 0 .. N}] /\ g[0] = base
  BY <1>4
<1>6. \A n \in 1 .. N : g[n] = step[n][g[n - 1]]
  BY <1>4
<1>7. QED
  BY <1>5, <1>6 DEF Recursion

\* If the first value is in S and the steps stay in S, its values are in S.
LEMMA RecursionInto ==
    ASSUME NEW N \in Nat, NEW S, NEW base \in S, NEW step \in [1 .. N -> [S -> S]]
    PROVE  \E g \in [0 .. N -> S] : Recursion(g, N, base, step)
<1>1. PICK R : \E g \in [0 .. N -> R] :
        Recursion(g, N, base, step)
  BY RecursionHolds
<1>2. PICK g \in [0 .. N -> R] :
        Recursion(g, N, base, step)
  BY <1>1
<1> DEFINE T == {n \in 0 .. N : g[n] \in S}
<1>3. 0 \in T
  BY <1>2 DEF Recursion
<1>4. ASSUME NEW n \in 0 .. N, n \in T, n < N
      PROVE  n + 1 \in T
  <2>1. n + 1 \in 0 .. N /\ n + 1 # 0 /\ (n + 1) - 1 = n /\ n + 1 \in 1 .. N
    BY <1>4
  <2>2. g[n + 1] = step[n + 1][g[n]]
    BY <1>2, <2>1 DEF Recursion
  <2>3. g[n] \in S
    BY <1>4
  <2>4. QED
    BY <2>1, <2>2, <2>3
<1> HIDE DEF T
<1>5. 0 .. N \subseteq T
  BY <1>3, <1>4, UpToNumber
<1>6. g \in [0 .. N -> S]
  BY <1>2, <1>5 DEF T
<1>7. QED
  BY <1>2, <1>6

\* q lists, in order, the elements of s at the positions of P up to n: at says from where.
Enumerates(at, q, s, P, n) ==
    /\ at \in [1 .. Len(q) -> P \cap (1 .. n)]
    /\ \A i, j \in 1 .. Len(q) : i < j => at[i] < at[j]
    /\ \A p \in P \cap (1 .. n) : \E j \in 1 .. Len(q) : at[j] = p
    /\ \A j \in 1 .. Len(q) : q[j] = s[at[j]]

\* Appending the next element of s, if its position is kept, lists one position more.
LEMMA KeptStep ==
    ASSUME NEW S, NEW s \in Seq(S), NEW P, NEW n \in Nat, n < Len(s), NEW q \in Seq(S),
           Len(q) <= n, NEW at, Enumerates(at, q, s, P, n), n + 1 \in P
    PROVE  \E new : Enumerates(new, Append(q, s[n + 1]), s, P, n + 1)
<1> DEFINE r   == Append(q, s[n + 1])
           new == [j \in 1 .. (Len(q) + 1) |-> IF j = Len(q) + 1 THEN n + 1 ELSE at[j]]
<1>1. /\ Len(q) \in Nat /\ Len(r) = Len(q) + 1 /\ r[Len(q) + 1] = s[n + 1]
      /\ \A j \in 1 .. Len(q) : r[j] = q[j]
  <2>1. n + 1 \in 1 .. Len(s)
    OBVIOUS
  <2>2. s[n + 1] \in S
    BY <2>1
  <2>3. QED
    BY <2>2
<1> HIDE DEF r
<1>2. /\ new[Len(q) + 1] = n + 1
      /\ \A j \in 1 .. Len(q) : new[j] = at[j] /\ at[j] \in P /\ at[j] \in 1 .. n
  BY <1>1 DEF Enumerates
<1>3. \A j \in 1 .. Len(r) : j \in 1 .. Len(q) \/ j = Len(q) + 1
  BY <1>1
<1>4. new \in [1 .. Len(r) -> P \cap (1 .. (n + 1))]
  <2>1. ASSUME NEW j \in 1 .. (Len(q) + 1)
        PROVE  new[j] \in P \cap (1 .. (n + 1))
    <3>1. CASE j \in 1 .. Len(q)
      <4>1. new[j] \in P /\ new[j] \in 1 .. n
        BY <1>2, <3>1
      <4>2. QED
        BY <4>1
    <3>2. CASE j = Len(q) + 1
      BY <1>2, <3>2
    <3>3. QED
      BY <1>1, <3>1, <3>2
  <2>2. QED
    BY <1>1, <2>1
<1> HIDE DEF new
<1>5. ASSUME NEW i \in 1 .. Len(r), NEW j \in 1 .. Len(r), i < j
      PROVE  new[i] < new[j]
  <2>1. i \in 1 .. Len(q)
    BY <1>1, <1>5
  <2>2. CASE j \in 1 .. Len(q)
    BY <1>2, <1>5, <2>1, <2>2 DEF Enumerates
  <2>3. CASE j = Len(q) + 1
    BY <1>2, <2>1, <2>3
  <2>4. QED
    BY <1>3, <2>2, <2>3
<1>6. \A p \in P \cap (1 .. (n + 1)) : \E j \in 1 .. Len(r) : new[j] = p
  <2>1. Len(q) + 1 \in 1 .. Len(r) /\ \A j \in 1 .. Len(q) : j \in 1 .. Len(r)
    BY <1>1
  <2>2. TAKE p \in P \cap (1 .. (n + 1))
  <2>3. CASE p = n + 1
    BY <1>2, <2>1, <2>3
  <2>4. CASE p \in P \cap (1 .. n)
    BY <1>2, <2>1, <2>4 DEF Enumerates
  <2>5. QED
    BY <2>3, <2>4
<1>7. \A j \in 1 .. Len(r) : r[j] = s[new[j]]
  BY <1>1, <1>2, <1>3 DEF Enumerates
<1>8. Enumerates(new, r, s, P, n + 1)
  BY <1>4, <1>5, <1>6, <1>7 DEF Enumerates
<1>9. QED
  BY <1>8 DEF r

\* What is kept of a list is some of its elements, in their order, and not more of them.
LEMMA KeptIsPart ==
    ASSUME NEW S, NEW s \in Seq(S), NEW P
    PROVE  /\ Kept(s, P) \in Seq(S) /\ Len(Kept(s, P)) <= Len(s)
           /\ \E at : Enumerates(at, Kept(s, P), s, P, Len(s))
<1> DEFINE N == Len(s)
           Solves(g) == g = [n \in 0 .. N |-> IF n = 0 THEN <<>>
                                             ELSE IF n \in P THEN Append(g[n - 1], s[n])
                                             ELSE g[n - 1]]
           step == [n \in 1 .. N |-> [q \in Seq(S) |-> IF n \in P THEN Append(q, s[n]) ELSE q]]
           kept == CHOOSE g : Solves(g)
<1>1. N \in Nat /\ \A n \in 1 .. N : s[n] \in S
  OBVIOUS
<1>2. \E g : Solves(g)
  <2>1. step \in [1 .. N -> [Seq(S) -> Seq(S)]] /\ <<>> \in Seq(S)
    BY <1>1
  <2> HIDE DEF step
  <2>2. PICK g \in [0 .. N -> Seq(S)] : Recursion(g, N, <<>>, step)
    BY <1>1, <2>1, RecursionInto
  <2>3. ASSUME NEW n \in 0 .. N, n # 0
        PROVE  step[n][g[n - 1]] = IF n \in P THEN Append(g[n - 1], s[n]) ELSE g[n - 1]
    <3>1. n \in 1 .. N /\ n - 1 \in 0 .. N
      BY <1>1, <2>3
    <3>2. g[n - 1] \in Seq(S)
      BY <3>1
    <3>3. QED
      BY <3>1, <3>2 DEF step
  <2>4. Solves(g)
    <3>1. g = [n \in 0 .. N |-> IF n = 0 THEN <<>> ELSE step[n][g[n - 1]]]
      <4>1. \A n \in 0 .. N : n = 0 \/ n \in 1 .. N
        BY <1>1
      <4>2. QED
        BY <2>2, <4>1 DEF Recursion
    <3>2. QED
      BY <2>3, <3>1
  <2>5. QED
    BY <2>4
<1>3. Solves(kept)
  BY <1>2
<1>4. Kept(s, P) = kept[N]
  BY DEF Kept
<1> DEFINE T == {n \in 0 .. N : /\ kept[n] \in Seq(S) /\ Len(kept[n]) <= n
                               /\ \E at : Enumerates(at, kept[n], s, P, n)}
<1> HIDE DEF kept
<1>5. 0 \in T
  <2>1. kept[0] = <<>>
    BY <1>1, <1>3
  <2>2. Enumerates(<<>>, kept[0], s, P, 0)
    BY <2>1 DEF Enumerates
  <2>3. 0 \in 0 .. N /\ kept[0] \in Seq(S) /\ Len(kept[0]) <= 0
    BY <1>1, <2>1
  <2>4. QED
    BY <2>2, <2>3
<1>6. ASSUME NEW n \in 0 .. N, n \in T, n < N
      PROVE  n + 1 \in T
  <2>1. /\ n + 1 \in 0 .. N /\ n + 1 # 0 /\ (n + 1) - 1 = n /\ s[n + 1] \in S /\ n \in Nat
        /\ n < Len(s)
    BY <1>1, <1>6
  <2>2. kept[n + 1] = IF n + 1 \in P THEN Append(kept[n], s[n + 1]) ELSE kept[n]
    BY <1>3, <2>1
  <2>3. PICK at : Enumerates(at, kept[n], s, P, n)
    BY <1>6
  <2>4. kept[n] \in Seq(S) /\ Len(kept[n]) <= n
    BY <1>6
  <2>5. CASE n + 1 \in P
    <3>1. \E new : Enumerates(new, kept[n + 1], s, P, n + 1)
      BY <2>1, <2>2, <2>3, <2>4, <2>5, KeptStep
    <3>2. kept[n + 1] \in Seq(S) /\ Len(kept[n + 1]) <= n + 1
      BY <2>1, <2>2, <2>4, <2>5
    <3>3. QED
      BY <2>1, <3>1, <3>2
  <2>6. CASE n + 1 \notin P
    <3>1. P \cap (1 .. (n + 1)) = P \cap (1 .. n)
      BY <2>1, <2>6
    <3>2. kept[n + 1] = kept[n]
      BY <2>2, <2>6
    <3>3. Enumerates(at, kept[n + 1], s, P, n + 1)
      BY <2>3, <3>1, <3>2 DEF Enumerates
    <3>4. QED
      BY <2>1, <2>4, <3>2, <3>3
  <2>7. QED
    BY <2>5, <2>6
<1> HIDE DEF T
<1>7. N \in T
  BY <1>1, <1>5, <1>6, UpToNumber, SMTT(30)
<1>8. QED
  BY <1>4, <1>7 DEF T

\* The elements of q are those of s at the positions of P, in their order.
IsPartOf(q, s, P) ==
    /\ \A i \in 1 .. Len(q) : \E p \in P \cap (1 .. Len(s)) : q[i] = s[p]
    /\ \A p \in P \cap (1 .. Len(s)) : \E i \in 1 .. Len(q) : q[i] = s[p]
    /\ \A i, j \in 1 .. Len(q) : i < j =>
         \E p, r \in P \cap (1 .. Len(s)) : p < r /\ q[i] = s[p] /\ q[j] = s[r]

\* Every element that is kept has a position in P, every position in P is kept, in order.
LEMMA KeptElements ==
    ASSUME NEW S, NEW s \in Seq(S), NEW P
    PROVE  Kept(s, P) \in Seq(S) /\ IsPartOf(Kept(s, P), s, P)
<1>1. Kept(s, P) \in Seq(S)
  BY KeptIsPart
<1>2. PICK at : Enumerates(at, Kept(s, P), s, P, Len(s))
  BY KeptIsPart
<1> DEFINE q == Kept(s, P)
<1>3. \A i \in 1 .. Len(q) : at[i] \in P \cap (1 .. Len(s)) /\ q[i] = s[at[i]]
  BY <1>2 DEF Enumerates
<1>4. \A p \in P \cap (1 .. Len(s)) : \E i \in 1 .. Len(q) : at[i] = p
  BY <1>2 DEF Enumerates
<1>5. \A i, j \in 1 .. Len(q) : i < j => at[i] < at[j]
  BY <1>2 DEF Enumerates
<1> HIDE DEF q
<1>6. QED
  BY <1>1, <1>3, <1>4, <1>5, SMTT(30) DEF q, IsPartOf
=============================================================================
