----------------------- MODULE AdaptiveSessionProofs -----------------------
(***************************************************************************)
(* What holds of AdaptiveSession for every catalogue, learner, assignment, *)
(* budget and pool of variants, and for every number of answers.           *)
(***************************************************************************)
EXTENDS AdaptiveSession, FiniteSetTheorems, SequenceTheorems, WellFoundedInduction, TLAPS

-----------------------------------------------------------------------------
(* Induction                                                               *)

\* A set of numbers that has 0 and is closed under successor has them all.
LEMMA SetInduction ==
    ASSUME NEW S, 0 \in S, \A n \in Nat : n \in S => n + 1 \in S
    PROVE  Nat \subseteq S
<1> DEFINE R == {ss \in Nat \X Nat : ss[1] < ss[2]}
           T == Nat \ S
<1> SUFFICES ASSUME T # {} PROVE FALSE  OBVIOUS
<1>1. \E x \in T : \A y \in T : ~ (<<y, x>> \in R)
  <2>1. IsWellFoundedOn(R, Nat)  BY NatLessThanWellFounded DEF OpToRel
  <2> HIDE DEF R, T
  <2>2. T \subseteq Nat  BY DEF T
  <2> QED  BY <2>1, <2>2, WFMin
<1>2. \A x, y \in Nat : y < x => <<y, x>> \in R  OBVIOUS
<1>3. PICK x \in T : \A y \in T : ~(y < x)  BY <1>1, <1>2
<1>4. x # 0 /\ x - 1 \in Nat /\ x - 1 \in S /\ x - 1 < x  BY <1>3
<1> QED  BY <1>4

\* The same up to a bound.
LEMMA BoundedInduction ==
    ASSUME NEW n \in Nat, NEW S, 0 \in S, \A k \in 1..n : k - 1 \in S => k \in S
    PROVE  0..n \subseteq S
<1> DEFINE T == {k \in Nat : k <= n => k \in S}
<1>1. 0 \in T  OBVIOUS
<1>2. \A k \in Nat : k \in T => k + 1 \in T
  <2> SUFFICES ASSUME NEW k \in Nat, k \in T, k + 1 <= n PROVE k + 1 \in S  OBVIOUS
  <2>1. k \in S  OBVIOUS
  <2>2. k + 1 \in 1..n /\ (k + 1) - 1 = k  OBVIOUS
  <2> QED  BY <2>1, <2>2
<1> HIDE DEF T
<1>3. Nat \subseteq T  BY <1>1, <1>2, SetInduction
<1> QED  BY <1>3 DEF T

-----------------------------------------------------------------------------
(* Sums                                                                    *)

\* The partial sums obey their recursion.
LEMMA PartialSumsRec ==
    ASSUME NEW s, Len(s) \in Nat
    PROVE  /\ PartialSums(s)[0] = 0
           /\ \A i \in 1..Len(s) : PartialSums(s)[i] = PartialSums(s)[i - 1] + s[i]
<1> DEFINE n == Len(s)
           P(h, m) == h = [i \in 0..m |-> IF i = 0 THEN 0 ELSE h[i - 1] + s[i]]
           S == {m \in Nat : \E h : P(h, m)}
<1>1. 0 \in S
  <2>1. P([i \in 0..0 |-> 0], 0)  OBVIOUS
  <2> QED  BY <2>1
<1>2. \A m \in Nat : m \in S => m + 1 \in S
  <2> SUFFICES ASSUME NEW m \in Nat, m \in S PROVE m + 1 \in S  OBVIOUS
  <2>1. PICK h : P(h, m)  OBVIOUS
  <2> DEFINE g == [i \in 0..(m + 1) |-> IF i = m + 1 THEN h[m] + s[m + 1] ELSE h[i]]
  <2>2. P(g, m + 1)  BY <2>1
  <2> HIDE DEF P
  <2> QED  BY <2>2
<1>3. n \in S
  <2> HIDE DEF S
  <2> QED  BY <1>1, <1>2, SetInduction
<1>4. P(PartialSums(s), n)
  <2>1. PICK h : P(h, n)  BY <1>3
  <2> QED  BY <2>1 DEF PartialSums
<1> QED  BY <1>4

\* Whatever obeys the recursion is the sum.
LEMMA SumIs ==
    ASSUME NEW s \in Seq(Int), NEW f, f[0] = 0, \A i \in 1..Len(s) : f[i] = f[i - 1] + s[i]
    PROVE  Sum(s) = f[Len(s)] /\ Sum(s) \in Int
<1> DEFINE g == PartialSums(s)
           S == {i \in 0..Len(s) : g[i] = f[i] /\ f[i] \in Int}
<1>1. Len(s) \in Nat /\ \A i \in 1..Len(s) : s[i] \in Int  OBVIOUS
<1>2. g[0] = 0 /\ \A i \in 1..Len(s) : g[i] = g[i - 1] + s[i]  BY <1>1, PartialSumsRec
<1> HIDE DEF g
<1>3. 0 \in S  BY <1>1, <1>2
<1>4. \A k \in 1..Len(s) : k - 1 \in S => k \in S
  <2> SUFFICES ASSUME NEW k \in 1..Len(s), k - 1 \in S PROVE k \in S  OBVIOUS
  <2>1. g[k - 1] = f[k - 1] /\ f[k - 1] \in Int  OBVIOUS
  <2>2. g[k] = g[k - 1] + s[k] /\ f[k] = f[k - 1] + s[k] /\ s[k] \in Int  BY <1>1, <1>2
  <2> QED  BY <2>1, <2>2
<1> HIDE DEF S
<1>5. 0..Len(s) \subseteq S  BY <1>1, <1>3, <1>4, BoundedInduction
<1>6. Len(s) \in S  BY <1>1, <1>5
<1> QED  BY <1>6 DEF Sum, S, g

\* The partial sums are the sums of the prefixes.
LEMMA SumPrefix ==
    ASSUME NEW s \in Seq(Int), NEW k \in 0..Len(s)
    PROVE  /\ PartialSums(s)[k] = Sum(SubSeq(s, 1, k))
           /\ PartialSums(s)[k] \in Int
<1> DEFINE g == PartialSums(s)
           t == SubSeq(s, 1, k)
<1>1. g[0] = 0 /\ \A i \in 1..Len(s) : g[i] = g[i - 1] + s[i]  BY PartialSumsRec
<1> HIDE DEF g
<1>2. t \in Seq(Int) /\ Len(t) = k /\ \A i \in 1..k : t[i] = s[i]  OBVIOUS
<1> HIDE DEF t
<1>3. \A i \in 1..Len(t) : g[i] = g[i - 1] + t[i]  BY <1>1, <1>2
<1>4. Sum(t) = g[Len(t)] /\ Sum(t) \in Int  BY <1>1, <1>2, <1>3, SumIs
<1> QED  BY <1>2, <1>4 DEF t, g

LEMMA SumType ==
    ASSUME NEW s \in Seq(Int)
    PROVE  Sum(s) \in Int
<1>1. Len(s) \in 0..Len(s)  OBVIOUS
<1> QED  BY <1>1, SumPrefix DEF Sum

LEMMA SumEmpty == Sum(<< >>) = 0
<1>1. << >> \in Seq(Int) /\ Len(<< >>) = 0  OBVIOUS
<1> QED  BY <1>1, PartialSumsRec DEF Sum

\* One number more.
LEMMA SumAppend ==
    ASSUME NEW s \in Seq(Int), NEW x \in Int
    PROVE  Sum(Append(s, x)) = Sum(s) + x
<1> DEFINE n == Len(s)
           g == PartialSums(s)
           f == [i \in 0..(n + 1) |-> IF i = n + 1 THEN g[n] + x ELSE g[i]]
           t == Append(s, x)
<1>1. n \in Nat  OBVIOUS
<1>2. g[0] = 0 /\ \A i \in 1..n : g[i] = g[i - 1] + s[i]  BY PartialSumsRec
<1> HIDE DEF g
<1>3. t \in Seq(Int) /\ Len(t) = n + 1 /\ t[n + 1] = x /\ \A i \in 1..n : t[i] = s[i]
  OBVIOUS
<1> HIDE DEF t, n
<1>4. f[0] = 0 /\ \A i \in 1..(n + 1) : f[i] = f[i - 1] + t[i]  BY <1>1, <1>2, <1>3
<1> HIDE DEF f
<1>5. Sum(t) = f[n + 1]  BY <1>3, <1>4, SumIs
<1>6. f[n + 1] = g[n] + x  BY <1>1 DEF f
<1> QED  BY <1>5, <1>6 DEF Sum, g, n, t

\* One number less, at the end or anywhere.
LEMMA SumFront ==
    ASSUME NEW s \in Seq(Int), s # << >>
    PROVE  Sum(s) = Sum(SubSeq(s, 1, Len(s) - 1)) + s[Len(s)]
<1>1. Len(s) \in 1..Len(s) /\ Len(s) - 1 \in 0..Len(s)  OBVIOUS
<1>2. PartialSums(s)[Len(s)] = PartialSums(s)[Len(s) - 1] + s[Len(s)]  BY <1>1, PartialSumsRec
<1> QED  BY <1>1, <1>2, SumPrefix DEF Sum

LEMMA RemovedAt ==
    ASSUME NEW T, NEW s \in Seq(T), NEW m \in 1..Len(s)
    PROVE  /\ RemoveAt(s, m) \in Seq(T)
           /\ Len(RemoveAt(s, m)) = Len(s) - 1
           /\ \A i \in 1..(Len(s) - 1) :
                  RemoveAt(s, m)[i] = IF i < m THEN s[i] ELSE s[i + 1]
<1> DEFINE u == SubSeq(s, 1, m - 1)
           v == SubSeq(s, m + 1, Len(s))
<1>1. u \in Seq(T) /\ Len(u) = m - 1 /\ \A i \in 1..(m - 1) : u[i] = s[i]
  <2>1. m - 1 \in 0..Len(s)  OBVIOUS
  <2> QED  BY <2>1
<1>2. v \in Seq(T) /\ Len(v) = Len(s) - m /\ \A i \in 1..(Len(s) - m) : v[i] = s[i + m]
  <2>1. /\ Len(s) \in Nat /\ m \in 1..Len(s)
        /\ \A i \in (m + 1)..Len(s) : s[i] \in T
    OBVIOUS
  <2> QED  BY <2>1
<1> HIDE DEF u, v
<1>3. RemoveAt(s, m) = u \o v  BY DEF RemoveAt, u, v
<1>4. Len(s) \in Nat /\ m \in 1..Len(s)  OBVIOUS
<1>5. /\ u \o v \in Seq(T) /\ Len(u \o v) = Len(s) - 1
      /\ \A i \in 1..(Len(s) - 1) :
             (u \o v)[i] = IF i < m THEN u[i] ELSE v[i - (m - 1)]
  <2>1. /\ u \o v \in Seq(T) /\ Len(u \o v) = Len(u) + Len(v)
        /\ \A i \in 1..(Len(u) + Len(v)) :
               (u \o v)[i] = IF i <= Len(u) THEN u[i] ELSE v[i - Len(u)]
    BY <1>1, <1>2, ConcatProperties
  <2> HIDE DEF u, v
  <2> QED  BY <2>1, <1>1, <1>2, <1>4
<1>6. \A i \in 1..(Len(s) - 1) : i >= m => v[i - (m - 1)] = s[i + 1]
  <2> SUFFICES ASSUME NEW i \in 1..(Len(s) - 1), i >= m PROVE v[i - (m - 1)] = s[i + 1]
    OBVIOUS
  <2>1. i - (m - 1) \in 1..(Len(s) - m) /\ (i - (m - 1)) + m = i + 1  BY <1>4
  <2> QED  BY <2>1, <1>2
<1> QED  BY <1>1, <1>3, <1>4, <1>5, <1>6

LEMMA SumRemove ==
    ASSUME NEW s \in Seq(Int), NEW m \in 1..Len(s)
    PROVE  Sum(RemoveAt(s, m)) = Sum(s) - s[m]
<1> DEFINE n == Len(s)
           g == PartialSums(s)
           f == [i \in 0..(n - 1) |-> IF i < m THEN g[i] ELSE g[i + 1] - s[m]]
           t == RemoveAt(s, m)
<1>1. n \in Nat /\ m \in 1..n /\ \A i \in 1..n : s[i] \in Int  OBVIOUS
<1>2. g[0] = 0 /\ \A i \in 1..n : g[i] = g[i - 1] + s[i]  BY PartialSumsRec
<1>3. \A i \in 0..n : g[i] \in Int  BY SumPrefix
<1> HIDE DEF g
<1>4. /\ t \in Seq(Int) /\ Len(t) = n - 1
      /\ \A i \in 1..(n - 1) : t[i] = IF i < m THEN s[i] ELSE s[i + 1]
  BY RemovedAt
<1> HIDE DEF t, n
<1>5. f[0] = 0  BY <1>1, <1>2
<1>6. \A i \in 1..(n - 1) : f[i] = f[i - 1] + t[i]
  <2> SUFFICES ASSUME NEW i \in 1..(n - 1) PROVE f[i] = f[i - 1] + t[i]  OBVIOUS
  <2>1. /\ f[i] = IF i < m THEN g[i] ELSE g[i + 1] - s[m]
        /\ f[i - 1] = IF i - 1 < m THEN g[i - 1] ELSE g[i] - s[m]
    BY <1>1
  <2>2. g[i] = g[i - 1] + s[i] /\ g[i + 1] = g[i] + s[i + 1]  BY <1>1, <1>2
  <2>3. g[i] \in Int /\ g[i - 1] \in Int /\ g[i + 1] \in Int /\ s[i] \in Int /\ s[i + 1] \in Int
        /\ s[m] \in Int
    BY <1>1, <1>3
  <2>4. t[i] = IF i < m THEN s[i] ELSE s[i + 1]  BY <1>4
  <2> HIDE DEF f
  <2>5. i \in Int /\ m \in Int /\ (i < m \/ i - 1 = m - 1 \/ i - 1 >= m)  BY <1>1
  <2>6. CASE i < m  BY <2>6, <2>1, <2>2, <2>3, <2>4, <2>5
  <2>7. CASE i = m  BY <2>7, <2>1, <2>2, <2>3, <2>4, <2>5, SMTT(30)
  <2>8. CASE i - 1 >= m  BY <2>8, <2>1, <2>2, <2>3, <2>4, <2>5, SMTT(30)
  <2> QED  BY <2>5, <2>6, <2>7, <2>8
<1>7. f[n - 1] = g[n] - s[m]
  <2>1. CASE m = n  BY <2>1, <1>1, <1>2, <1>3
  <2>2. CASE m < n  BY <2>2, <1>1
  <2> QED  BY <2>1, <2>2, <1>1
<1> HIDE DEF f
<1>8. Sum(t) = f[n - 1]  BY <1>4, <1>5, <1>6, SumIs
<1> QED  BY <1>7, <1>8 DEF Sum, g, n, t

\* Numbers that change places leave the sum.
LEMMA SumSwap ==
    ASSUME NEW s \in Seq(Int), NEW a \in 1..Len(s), NEW b \in 1..Len(s), a < b
    PROVE  Sum([s EXCEPT ![a] = s[b], ![b] = s[a]]) = Sum(s)
<1> DEFINE n == Len(s)
           g == PartialSums(s)
           f == [i \in 0..n |-> IF i < a \/ i >= b THEN g[i] ELSE g[i] - s[a] + s[b]]
           t == [s EXCEPT ![a] = s[b], ![b] = s[a]]
<1>1. n \in Nat /\ a \in 1..n /\ b \in 1..n /\ \A i \in 1..n : s[i] \in Int  OBVIOUS
<1>2. g[0] = 0 /\ \A i \in 1..n : g[i] = g[i - 1] + s[i]  BY PartialSumsRec
<1>3. \A i \in 0..n : g[i] \in Int  BY SumPrefix
<1> HIDE DEF g
<1>4. /\ t \in Seq(Int) /\ Len(t) = n
      /\ \A i \in 1..n : t[i] = IF i = a THEN s[b] ELSE IF i = b THEN s[a] ELSE s[i]
  OBVIOUS
<1> HIDE DEF t, n
<1>5. f[0] = 0 /\ f[n] = g[n]  BY <1>1, <1>2
<1>6. \A i \in 1..n : f[i] = f[i - 1] + t[i]
  <2> SUFFICES ASSUME NEW i \in 1..n PROVE f[i] = f[i - 1] + t[i]  OBVIOUS
  <2>1. /\ f[i] = IF i < a \/ i >= b THEN g[i] ELSE g[i] - s[a] + s[b]
        /\ f[i - 1] = IF i - 1 < a \/ i - 1 >= b THEN g[i - 1] ELSE g[i - 1] - s[a] + s[b]
    BY <1>1
  <2>2. g[i] = g[i - 1] + s[i] /\ g[i] \in Int /\ g[i - 1] \in Int /\ s[i] \in Int
        /\ s[a] \in Int /\ s[b] \in Int
    BY <1>1, <1>2, <1>3
  <2>3. t[i] = IF i = a THEN s[b] ELSE IF i = b THEN s[a] ELSE s[i]  BY <1>4
  <2> HIDE DEF f
  <2>4. i \in Int /\ a \in Int /\ b \in Int  BY <1>1
  <2>5. CASE i < a  BY <2>5, <2>1, <2>2, <2>3, <2>4
  <2>6. CASE i = a  BY <2>6, <2>1, <2>2, <2>3, <2>4
  <2>7. CASE a < i /\ i < b  BY <2>7, <2>1, <2>2, <2>3, <2>4, SMTT(30)
  <2>8. CASE i = b  BY <2>8, <2>1, <2>2, <2>3, <2>4
  <2>9. CASE i > b  BY <2>9, <2>1, <2>2, <2>3, <2>4
  <2> QED  BY <2>4, <2>5, <2>6, <2>7, <2>8, <2>9
<1> HIDE DEF f
<1>7. Sum(t) = f[n]  BY <1>4, <1>5, <1>6, SumIs
<1> QED  BY <1>5, <1>7 DEF Sum, g, n, t

\* p takes each of the numbers 1..n to one of them, and none is left out.
Injective(p, n) == \A i, j \in 1..n : p[i] = p[j] => i = j
Reaches(p, n)   == \A k \in 1..n : \E i \in 1..n : p[i] = k
Permutes(p, n)  == p \in [1..n -> 1..n] /\ Injective(p, n) /\ Reaches(p, n)

\* The elements of s that p points at.
Picked(s, p, n) == [i \in 1..n |-> s[p[i]]]

\* A permutation of one number more, without the place of the greatest.
LEMMA PermutationShorter ==
    ASSUME NEW m \in Nat, NEW N, N = m + 1, NEW q, Permutes(q, N),
           NEW last \in 1..N, q[last] = N,
           NEW r, r = [i \in 1..m |-> IF i < last THEN q[i] ELSE q[i + 1]]
    PROVE  Permutes(r, m)
<1>1. N \in Nat /\ \A i \in 1..m : i \in 1..N /\ i + 1 \in 1..N  OBVIOUS
<1>2. \A i \in 1..m : r[i] = IF i < last THEN q[i] ELSE q[i + 1]  OBVIOUS
<1>3. \A i \in 1..N : i # last => q[i] \in 1..m
  <2> SUFFICES ASSUME NEW i \in 1..N, i # last PROVE q[i] \in 1..m  OBVIOUS
  <2>1. q[i] \in 1..N  BY DEF Permutes
  <2>2. q[i] # N  BY DEF Permutes, Injective
  <2> QED  BY <2>1, <2>2
<1>4. \A i \in 1..m : r[i] \in 1..m
  <2> SUFFICES ASSUME NEW i \in 1..m PROVE r[i] \in 1..m  OBVIOUS
  <2>1. CASE i < last  BY <2>1, <1>1, <1>2, <1>3
  <2>2. CASE ~(i < last)
    <3>1. i + 1 \in 1..N /\ i + 1 # last  BY <2>2, <1>1
    <3> QED  BY <3>1, <2>2, <1>2, <1>3
  <2> QED  BY <2>1, <2>2
<1>5. r \in [1..m -> 1..m]  BY <1>4
<1>6. Injective(r, m)
  <2> SUFFICES ASSUME NEW i \in 1..m, NEW j \in 1..m, r[i] = r[j] PROVE i = j
    BY DEF Injective
  <2> DEFINE a == IF i < last THEN i ELSE i + 1
             b == IF j < last THEN j ELSE j + 1
  <2>1. a \in 1..N /\ b \in 1..N  BY <1>1
  <2>2. q[a] = r[i] /\ q[b] = r[j]  BY <1>2
  <2>3. a = b
    <3> HIDE DEF a, b
    <3> QED  BY <2>1, <2>2 DEF Permutes, Injective
  <2>4. i \in Int /\ j \in Int /\ last \in Int  OBVIOUS
  <2> QED  BY <2>3, <2>4
<1>7. Reaches(r, m)
  <2> SUFFICES ASSUME NEW k \in 1..m PROVE \E i \in 1..m : r[i] = k  BY DEF Reaches
  <2>1. PICK i \in 1..N : q[i] = k  BY DEF Permutes, Reaches
  <2>2. i # last /\ i \in Int /\ last \in Int  BY <2>1
  <2>3. CASE i < last
    <3>1. i \in 1..m  BY <2>3
    <3> QED  BY <3>1, <2>1, <2>3, <1>2
  <2>4. CASE i > last
    <3>1. i - 1 \in 1..m /\ ~(i - 1 < last) /\ (i - 1) + 1 = i  BY <2>4
    <3>2. r[i - 1] = k  BY <3>1, <2>1, <1>2
    <3> QED  BY <3>1, <3>2
  <2> QED  BY <2>2, <2>3, <2>4
<1> QED  BY <1>5, <1>6, <1>7 DEF Permutes

\* Summing without the greatest place.
LEMMA SumPermutedStep ==
    ASSUME NEW m \in Nat, NEW N, N = m + 1, NEW t \in [1..N -> Int],
           NEW q \in [1..N -> 1..N], NEW last \in 1..N, q[last] = N,
           NEW r \in [1..m -> 1..m],
           \A i \in 1..m : r[i] = IF i < last THEN q[i] ELSE q[i + 1],
           NEW short \in [1..m -> Int], \A i \in 1..m : short[i] = t[i],
           Sum(Picked(short, r, m)) = Sum(short)
    PROVE  Sum(Picked(t, q, N)) = Sum(t)
<1> DEFINE u == Picked(t, q, N)
           v == RemoveAt(u, last)
           w == Picked(short, r, m)
<1>1. N \in Nat /\ t \in Seq(Int) /\ Len(t) = N  OBVIOUS
<1>2. u \in Seq(Int) /\ Len(u) = N /\ \A i \in 1..N : u[i] = t[q[i]]
  <2>1. u \in [1..N -> Int] /\ \A i \in 1..N : u[i] = t[q[i]]  BY DEF Picked
  <2> HIDE DEF u
  <2> QED  BY <2>1, <1>1
<1> HIDE DEF u
<1>3. v \in Seq(Int) /\ Len(v) = m
      /\ \A i \in 1..m : v[i] = IF i < last THEN u[i] ELSE u[i + 1]
  <2>1. last \in 1..Len(u) /\ Len(u) - 1 = m  BY <1>2
  <2> QED  BY <2>1, <1>2, RemovedAt
<1>4. v = w
  <2>1. \A i \in 1..m : w[i] = t[r[i]]  BY DEF Picked
  <2>2. \A i \in 1..m : v[i] = w[i]
    <3> SUFFICES ASSUME NEW i \in 1..m PROVE v[i] = w[i]  OBVIOUS
    <3>1. i \in 1..N /\ i + 1 \in 1..N  OBVIOUS
    <3>2. CASE i < last
      <4>1. v[i] = t[q[i]]  BY <3>1, <3>2, <1>2, <1>3
      <4>2. r[i] = q[i]  BY <3>2
      <4> QED  BY <4>1, <4>2, <2>1
    <3>3. CASE ~(i < last)
      <4>1. v[i] = t[q[i + 1]]  BY <3>1, <3>3, <1>2, <1>3
      <4>2. r[i] = q[i + 1]  BY <3>3
      <4> QED  BY <4>1, <4>2, <2>1
    <3> QED  BY <3>2, <3>3
  <2>3. w \in [1..m -> Int]  BY DEF Picked
  <2> HIDE DEF v, w
  <2>4. w \in Seq(Int) /\ Len(w) = m  BY <2>3
  <2> QED  BY <2>2, <2>4, <1>3, SeqEqual
<1>5. Sum(v) = Sum(short)  BY <1>4
<1>6. Sum(v) = Sum(u) - u[last] /\ Sum(u) \in Int /\ u[last] = t[N]
  BY <1>2, SumRemove, SumType
<1>7. Sum(t) = Sum(short) + t[N]
  <2>1. Len(t) - 1 = m /\ t # << >> /\ SubSeq(t, 1, m) = short  BY <1>1
  <2> QED  BY <2>1, <1>1, SumFront
<1>8. t[N] \in Int  BY <1>1
<1> HIDE DEF v
<1>9. Sum(u) = Sum(t)
  <2>1. \A a, b \in Int : \A c : c = a - b => c + b = a  OBVIOUS
  <2> QED  BY <2>1, <1>5, <1>6, <1>7, <1>8
<1> QED  BY <1>9 DEF u

\* So do all of them in any order.
LEMMA SumPermuted ==
    ASSUME NEW n \in Nat, NEW s \in [1..n -> Int], NEW p, Permutes(p, n)
    PROVE  Sum(Picked(s, p, n)) = Sum(s)
<1> DEFINE Good(m) == \A t \in [1..m -> Int], q \in [1..m -> 1..m] :
                          Permutes(q, m) => Sum(Picked(t, q, m)) = Sum(t)
           S == {m \in Nat : Good(m)}
<1>1. Good(0)
  <2> SUFFICES ASSUME NEW t \in [1..0 -> Int], NEW q \in [1..0 -> 1..0]
               PROVE  Sum(Picked(t, q, 0)) = Sum(t)
    OBVIOUS
  <2>1. t = << >> /\ Picked(t, q, 0) = << >>  BY DEF Picked
  <2> QED  BY <2>1
<1>2. ASSUME NEW m \in Nat, Good(m) PROVE Good(m + 1)
  <2> DEFINE N == m + 1
  <2> SUFFICES ASSUME NEW t \in [1..N -> Int], NEW q \in [1..N -> 1..N], Permutes(q, N)
               PROVE  Sum(Picked(t, q, N)) = Sum(t)
    BY DEF Good
  <2>1. N = m + 1 /\ N \in 1..N  OBVIOUS
  <2> HIDE DEF N, Good
  <2>2. PICK last \in 1..N : q[last] = N  BY <2>1 DEF Permutes, Reaches
  <2> DEFINE r == [i \in 1..m |-> IF i < last THEN q[i] ELSE q[i + 1]]
             short == [i \in 1..m |-> t[i]]
  <2>3. Permutes(r, m)
    <3>1. r = [i \in 1..m |-> IF i < last THEN q[i] ELSE q[i + 1]]  OBVIOUS
    <3> HIDE DEF r
    <3> QED  BY <2>1, <2>2, <3>1, PermutationShorter
  <2>4. short \in [1..m -> Int]  BY <2>1
  <2>5. Sum(Picked(short, r, m)) = Sum(short) /\ r \in [1..m -> 1..m]
    <3> HIDE DEF r, short
    <3>1. r \in [1..m -> 1..m]  BY <2>3 DEF Permutes
    <3> QED  BY <1>2, <2>3, <2>4, <3>1 DEF Good
  <2>6. /\ \A i \in 1..m : r[i] = IF i < last THEN q[i] ELSE q[i + 1]
        /\ \A i \in 1..m : short[i] = t[i]
    OBVIOUS
  <2> HIDE DEF r, short
  <2> QED  BY <2>1, <2>2, <2>4, <2>5, <2>6, SumPermutedStep, ZenonT(30)
<1>3. 0 \in S /\ \A m \in Nat : m \in S => m + 1 \in S
  <2> HIDE DEF Good
  <2> QED  BY <1>1, <1>2
<1> HIDE DEF S
<1>4. n \in S  BY <1>3, SetInduction
<1>5. p \in [1..n -> 1..n]  BY DEF Permutes
<1> QED  BY <1>4, <1>5 DEF S

-----------------------------------------------------------------------------
(* Ranks                                                                   *)

\* Sets of predecessors that grow along a total order number its elements.
LEMMA Ranked ==
    ASSUME NEW K, IsFiniteSet(K), NEW D \in [K -> SUBSET K], \A i \in K : i \in D[i],
           \A i, j \in K : i # j => \/ D[i] \subseteq D[j] /\ j \notin D[i]
                                    \/ D[j] \subseteq D[i] /\ i \notin D[j]
    PROVE  /\ Cardinality(K) \in Nat
           /\ \A k \in 1..Cardinality(K) : \E i \in K : Cardinality(D[i]) = k
           /\ \A i, j \in K : Cardinality(D[i]) = Cardinality(D[j]) => i = j
           /\ \A i \in K : Cardinality(D[i]) \in 1..Cardinality(K)
<1> DEFINE n == Cardinality(K)
           r == [i \in K |-> Cardinality(D[i])]
<1>1. n \in Nat  BY FS_CardinalityType
<1>2. \A i \in K : IsFiniteSet(D[i]) /\ Cardinality(D[i]) \in 1..n
  <2> SUFFICES ASSUME NEW i \in K PROVE IsFiniteSet(D[i]) /\ Cardinality(D[i]) \in 1..n
    OBVIOUS
  <2>1. IsFiniteSet(D[i]) /\ Cardinality(D[i]) <= n  BY FS_Subset
  <2>2. Cardinality(D[i]) \in Nat /\ Cardinality(D[i]) # 0
    BY <2>1, FS_CardinalityType, FS_EmptySet
  <2> QED  BY <2>1, <2>2, <1>1
<1>3. \A i, j \in K : Cardinality(D[i]) = Cardinality(D[j]) => i = j
  <2> SUFFICES ASSUME NEW i \in K, NEW j \in K, i # j,
                      Cardinality(D[i]) = Cardinality(D[j])
               PROVE  FALSE
    OBVIOUS
  <2>1. CASE D[i] \subseteq D[j] /\ j \notin D[i]
    <3>1. D[i] = D[j]  BY <2>1, <1>2, FS_Subset
    <3> QED  BY <3>1, <2>1
  <2>2. CASE D[j] \subseteq D[i] /\ i \notin D[j]
    <3>1. D[i] = D[j]  BY <2>2, <1>2, FS_Subset
    <3> QED  BY <3>1, <2>2
  <2> QED  BY <2>1, <2>2
<1>4. r \in Injection(K, 1..n)
  <2>1. r \in [K -> 1..n]  BY <1>2
  <2>2. \A i, j \in K : r[i] = r[j] => i = j  BY <1>3
  <2> HIDE DEF r
  <2> QED  BY <2>1, <2>2 DEF Injection, IsInjective
<1> HIDE DEF r
<1>5. IsFiniteSet(1..n) /\ Cardinality(1..n) = n  BY <1>1, FS_Interval
<1>6. r \in Surjection(K, 1..n)  BY <1>4, <1>5, FS_Injection
<1>7. \A k \in 1..n : \E i \in K : Cardinality(D[i]) = k  BY <1>6 DEF Surjection, r
<1> QED  BY <1>1, <1>2, <1>3, <1>7

\* Part of a sequence: its elements come from different places, in order, and
\* none of the places is left out.
LEMMA KeptPlaces ==
    ASSUME NEW s, Len(s) \in Nat, DOMAIN s = 1..Len(s), NEW I \in SUBSET DOMAIN s
    PROVE  \E g \in [1..Cardinality(I) -> I] :
               /\ Kept(s, I) = [k \in 1..Cardinality(I) |-> s[g[k]]]
               /\ Cardinality(I) \in Nat /\ Cardinality(I) <= Len(s)
               /\ \A k, m \in 1..Cardinality(I) : g[k] = g[m] => k = m
               /\ \A i \in I : \E k \in 1..Cardinality(I) : g[k] = i
<1> DEFINE D == [i \in I |-> {j \in I : j <= i}]
           n == Cardinality(I)
           g == [k \in 1..n |-> CHOOSE i \in I : Cardinality({j \in I : j <= i}) = k]
<1>1. IsFiniteSet(DOMAIN s) /\ Cardinality(DOMAIN s) = Len(s)
  <2>1. IsFiniteSet(1..Len(s)) /\ Cardinality(1..Len(s)) = Len(s)  BY FS_Interval
  <2> QED  BY <2>1
<1>2. IsFiniteSet(I) /\ Cardinality(I) <= Len(s)  BY <1>1, FS_Subset
<1>3. /\ D \in [I -> SUBSET I] /\ \A i \in I : i \in D[i]
      /\ \A i, j \in I : i # j => \/ D[i] \subseteq D[j] /\ j \notin D[i]
                                  \/ D[j] \subseteq D[i] /\ i \notin D[j]
  OBVIOUS
<1>4. \A i \in I : D[i] = {j \in I : j <= i}  OBVIOUS
<1> HIDE DEF D
<1>5. /\ n \in Nat
      /\ \A k \in 1..n : \E i \in I : Cardinality(D[i]) = k
      /\ \A i, j \in I : Cardinality(D[i]) = Cardinality(D[j]) => i = j
      /\ \A i \in I : Cardinality(D[i]) \in 1..n
  BY <1>2, <1>3, Ranked
<1>6. \A k \in 1..n : g[k] \in I /\ Cardinality(D[g[k]]) = k
  <2> SUFFICES ASSUME NEW k \in 1..n PROVE g[k] \in I /\ Cardinality(D[g[k]]) = k  OBVIOUS
  <2>1. \E i \in I : Cardinality({j \in I : j <= i}) = k  BY <1>4, <1>5
  <2>2. g[k] \in I /\ Cardinality({j \in I : j <= g[k]}) = k  BY <2>1
  <2> QED  BY <2>2, <1>4
<1>7. Kept(s, I) = [k \in 1..n |-> s[g[k]]]  BY DEF Kept
<1> HIDE DEF g
<1>8. \A k, m \in 1..n : g[k] = g[m] => k = m
  <2> SUFFICES ASSUME NEW k \in 1..n, NEW m \in 1..n, g[k] = g[m] PROVE k = m  OBVIOUS
  <2> QED  BY <1>6
<1>9. \A i \in I : \E k \in 1..n : g[k] = i
  <2> SUFFICES ASSUME NEW i \in I PROVE \E k \in 1..n : g[k] = i  OBVIOUS
  <2>1. Cardinality(D[i]) \in 1..n  BY <1>5
  <2> QED  BY <2>1, <1>5, <1>6
<1>10. g \in [1..n -> I]
  <2>1. g = [k \in 1..n |-> CHOOSE i \in I : Cardinality({j \in I : j <= i}) = k]  BY DEF g
  <2>2. \A k \in 1..n : g[k] \in I  BY <1>6
  <2> QED  BY <2>1, <2>2
<1> QED  BY <1>2, <1>5, <1>7, <1>8, <1>9, <1>10

-----------------------------------------------------------------------------
(* Sessions and their time                                                 *)

Roles == DOMAIN RoleDifficulty

IsItem(x) ==
    /\ DOMAIN x = {"content", "skill", "role", "hint", "secs"}
    /\ IsAtom(x.content) /\ x.role \in Roles /\ x.hint \in 0..1 /\ x.secs \in Nat

IsItems(items) ==
    items \in Seq(Range(items)) /\ \A i \in 1..Len(items) : IsItem(items[i])

IsSession(s) ==
    /\ s = [items |-> s.items, budget |-> s.budget, total |-> s.total]
    /\ IsItems(s.items)
    /\ s.budget \in Int /\ s.total \in Int

\* Nothing but warm-ups comes before a warm-up.
WarmFirst(items) ==
    \A i, j \in 1..Len(items) : i < j /\ items[j].role = "warmup" => items[i].role = "warmup"

\* A function on 1..n is a sequence.
LEMMA FunctionSeq ==
    ASSUME NEW n \in Nat, NEW f, DOMAIN f = 1..n, f = [i \in 1..n |-> f[i]]
    PROVE  f \in Seq(Range(f)) /\ Len(f) = n
<1>1. f \in [1..n -> Range(f)]  BY DEF Range
<1> QED  BY <1>1

LEMMA ItemsLength ==
    ASSUME NEW items, IsItems(items)
    PROVE  /\ Len(items) \in Nat /\ DOMAIN items = 1..Len(items)
           /\ items = [i \in 1..Len(items) |-> items[i]]
BY DEF IsItems

\* The seconds of the items.
SecsOf(items) == [i \in DOMAIN items |-> items[i].secs]

LEMMA SecsOfType ==
    ASSUME NEW items, IsItems(items)
    PROVE  /\ SecsOf(items) \in Seq(Int) /\ Len(SecsOf(items)) = Len(items)
           /\ \A i \in 1..Len(items) : /\ SecsOf(items)[i] = items[i].secs
                                       /\ SecsOf(items)[i] \in Nat
           /\ TotalTime(items) = Sum(SecsOf(items))
           /\ TotalTime(items) \in Int
<1> DEFINE n == Len(items)
           f == SecsOf(items)
<1>1. n \in Nat /\ DOMAIN items = 1..n  BY ItemsLength
<1>2. \A i \in 1..n : f[i] = items[i].secs /\ f[i] \in Nat  BY <1>1 DEF SecsOf, IsItems, IsItem
<1>3. DOMAIN f = 1..n /\ f = [i \in 1..n |-> f[i]]  BY <1>1 DEF SecsOf
<1>4. TotalTime(items) = Sum(f)  BY DEF TotalTime, SecsOf
<1> HIDE DEF f
<1>5. f \in [1..n -> Int]  BY <1>2, <1>3
<1>6. f \in Seq(Int) /\ Len(f) = n  BY <1>1, <1>5
<1> QED  BY <1>2, <1>4, <1>6, SumType DEF f

\* Without the last item.
LEMMA TotalFront ==
    ASSUME NEW items, IsItems(items), NEW u, IsItems(u), Len(items) > 0,
           Len(u) = Len(items) - 1, \A i \in 1..Len(u) : u[i].secs = items[i].secs
    PROVE  TotalTime(u) = TotalTime(items) - items[Len(items)].secs
<1> DEFINE n == Len(items)
           f == SecsOf(items)
           g == SecsOf(u)
<1>1. /\ f \in Seq(Int) /\ Len(f) = n /\ TotalTime(items) = Sum(f)
      /\ \A i \in 1..n : f[i] = items[i].secs /\ f[i] \in Nat
  BY SecsOfType
<1>2. /\ g \in Seq(Int) /\ Len(g) = n - 1 /\ TotalTime(u) = Sum(g) /\ Sum(g) \in Int
      /\ \A i \in 1..(n - 1) : g[i] = u[i].secs
  BY SecsOfType
<1>3. n \in Nat /\ n > 0  BY ItemsLength
<1> HIDE DEF f, g, n
<1>4. \A i \in 1..(n - 1) : g[i] = f[i]  BY <1>1, <1>2, <1>3 DEF n
<1>5. SubSeq(f, 1, n - 1) \in Seq(Int) /\ Len(SubSeq(f, 1, n - 1)) = n - 1
      /\ \A i \in 1..(n - 1) : SubSeq(f, 1, n - 1)[i] = f[i]
  BY <1>1, <1>3
<1>6. g = SubSeq(f, 1, n - 1)  BY <1>2, <1>4, <1>5, SeqEqual
<1>7. Sum(f) = Sum(SubSeq(f, 1, n - 1)) + f[n]
  <2>1. f # << >>  BY <1>1, <1>3
  <2> QED  BY <2>1, <1>1, SumFront
<1>8. f[n] = items[n].secs /\ f[n] \in Nat  BY <1>1, <1>3
<1>9. \A a, b \in Int : \A c : c = a + b => a = c - b  OBVIOUS
<1>10. Sum(g) = Sum(f) - f[n]
  <2>1. Sum(f) = Sum(g) + f[n] /\ Sum(g) \in Int /\ f[n] \in Int  BY <1>2, <1>6, <1>7, <1>8
  <2> QED  BY <2>1, <1>9
<1> QED  BY <1>1, <1>2, <1>8, <1>10 DEF n

\* With another last item.
LEMMA TotalLast ==
    ASSUME NEW items, IsItems(items), NEW u, IsItems(u), Len(items) > 0,
           Len(u) = Len(items), \A i \in 1..(Len(u) - 1) : u[i].secs = items[i].secs
    PROVE  TotalTime(u) = TotalTime(items) - items[Len(items)].secs + u[Len(items)].secs
<1> DEFINE n == Len(items)
           w == SubSeq(items, 1, n - 1)
<1>1. n \in Nat /\ n > 0  BY ItemsLength
<1>2. IsItems(w) /\ Len(w) = n - 1 /\ \A i \in 1..(n - 1) : w[i] = items[i]
  <2>1. Len(w) = n - 1 /\ DOMAIN w = 1..(n - 1) /\ \A i \in 1..(n - 1) : w[i] = items[i]
    BY <1>1 DEF IsItems
  <2>2. w = [i \in 1..(n - 1) |-> w[i]]  BY <1>1 DEF IsItems
  <2> HIDE DEF w
  <2>3. w \in Seq(Range(w))  BY <1>1, <2>1, <2>2, FunctionSeq
  <2> QED  BY <2>1, <2>3, <1>1 DEF IsItems
<1> HIDE DEF w
<1>3. TotalTime(w) = TotalTime(items) - items[n].secs  BY <1>1, <1>2, TotalFront
<1>4. TotalTime(w) = TotalTime(u) - u[n].secs
  <2>1. \A i \in 1..Len(w) : w[i].secs = u[i].secs  BY <1>2
  <2> QED  BY <2>1, <1>1, <1>2, TotalFront
<1>5. TotalTime(u) \in Int /\ TotalTime(items) \in Int  BY SecsOfType
<1>6. items[n].secs \in Int /\ u[n].secs \in Int  BY <1>1 DEF IsItems, IsItem
<1> HIDE DEF n
<1>7. \A a, b, c, d \in Int : a - b = c - d => c = a - b + d  OBVIOUS
<1> QED  BY <1>3, <1>4, <1>5, <1>6, <1>7 DEF n

\* The items of a prefix take no longer than all of them.
LEMMA TotalPrefix ==
    ASSUME NEW items, IsItems(items), NEW u, IsItems(u), Len(u) <= Len(items),
           \A i \in 1..Len(u) : u[i].secs = items[i].secs
    PROVE  TotalTime(u) <= TotalTime(items)
<1> DEFINE n == Len(items)
           k == Len(u)
           f == SecsOf(items)
           g == SecsOf(u)
           F == PartialSums(f)
           S == {i \in 0..(n - k) : F[k] <= F[k + i]}
<1>1. /\ f \in Seq(Int) /\ Len(f) = n /\ TotalTime(items) = Sum(f)
      /\ \A i \in 1..n : f[i] = items[i].secs /\ f[i] \in Nat
  BY SecsOfType
<1>2. /\ g \in Seq(Int) /\ Len(g) = k /\ TotalTime(u) = Sum(g) /\ Sum(g) \in Int
      /\ \A i \in 1..k : g[i] = u[i].secs
  BY SecsOfType
<1>3. n \in Nat /\ k \in Nat /\ k <= n  BY ItemsLength
<1>4. \A i \in 1..n : F[i] = F[i - 1] + f[i]  BY <1>1, <1>3, PartialSumsRec
<1>5. \A i \in 0..n : F[i] \in Int /\ F[i] = Sum(SubSeq(f, 1, i))  BY <1>1, SumPrefix
<1>6. F[n] = Sum(f)  BY <1>1 DEF Sum
<1>7. g = SubSeq(f, 1, k)
  <2>1. SubSeq(f, 1, k) \in Seq(Int) /\ Len(SubSeq(f, 1, k)) = k
        /\ \A i \in 1..k : SubSeq(f, 1, k)[i] = f[i]
    BY <1>1, <1>3
  <2>2. \A i \in 1..k : g[i] = f[i]
    <3> SUFFICES ASSUME NEW i \in 1..k PROVE g[i] = f[i]  OBVIOUS
    <3>1. i \in 1..n  BY <1>3
    <3>2. g[i] = u[i].secs /\ f[i] = items[i].secs  BY <3>1, <1>1, <1>2
    <3> QED  BY <3>2
  <2> HIDE DEF f, g, n, k
  <2> QED  BY <2>1, <2>2, <1>2, SeqEqual
<1> HIDE DEF f, g, n, k, F
<1>8. 0 \in S  BY <1>3, <1>5
<1>9. \A i \in 1..(n - k) : i - 1 \in S => i \in S
  <2> SUFFICES ASSUME NEW i \in 1..(n - k), i - 1 \in S PROVE i \in S  OBVIOUS
  <2>1. k + i \in 1..n /\ k + i - 1 = k + (i - 1) /\ k + i - 1 \in 0..n /\ k \in 0..n  BY <1>3
  <2>2. F[k + i] = F[k + i - 1] + f[k + i] /\ f[k + i] \in Nat /\ F[k + i - 1] \in Int
        /\ F[k] \in Int
    BY <2>1, <1>1, <1>4, <1>5
  <2>3. F[k] <= F[k + i - 1]  BY <2>1
  <2>4. F[k] <= F[k + i]  BY <2>2, <2>3
  <2> QED  BY <2>4
<1> HIDE DEF S
<1>10. n - k \in S
  <2>1. n - k \in Nat /\ n - k \in 0..(n - k)  BY <1>3
  <2>2. 0..(n - k) \subseteq S  BY <2>1, <1>8, <1>9, BoundedInduction
  <2> QED  BY <2>1, <2>2
<1>11. F[k] <= F[n]  BY <1>10, <1>3 DEF S
<1>12. F[k] = Sum(g)  BY <1>3, <1>5, <1>7
<1> QED  BY <1>1, <1>2, <1>6, <1>11, <1>12

-----------------------------------------------------------------------------
(* Trimming                                                                *)

LEMMA MaxIs ==
    ASSUME NEW n \in Int, NEW S \in SUBSET Int, n \in S, \A y \in S : y <= n
    PROVE  Max(S) = n
<1>1. \E x \in S : \A y \in S : x >= y  OBVIOUS
<1>2. Max(S) \in S /\ \A y \in S : Max(S) >= y  BY <1>1 DEF Max
<1>3. Max(S) \in Int /\ Max(S) >= n /\ Max(S) <= n  BY <1>2
<1> QED  BY <1>3

\* An item is another, maybe shortened.
Shortened(x, y) ==
    x.content = y.content /\ x.role = y.role /\ x.hint = y.hint /\ x.secs <= y.secs

\* A session is the beginning of another.
Begins(t, s) ==
    /\ Len(t.items) <= Len(s.items)
    /\ t.budget = s.budget
    /\ \A i \in 1..Len(t.items) : Shortened(t.items[i], s.items[i])

\* No more can be trimmed.
Settled(s) ==
    \/ ~Over(s)
    \/ Len(s.items) <= 2
    \/ \A i \in 2..Len(s.items) : s.items[i].role = "warmup"

\* What every turn of the loop keeps.
Sound(s) == IsSession(s) /\ WarmFirst(s.items) /\ s.total = TotalTime(s.items)

\* The two ways a turn of the loop changes a session.
Cut(s, t) ==
    LET n == Len(s.items)
    IN  /\ Len(t.items) = n
        /\ \A i \in 1..(n - 1) : t.items[i] = s.items[i]
        /\ Shortened(t.items[n], s.items[n])
        /\ t.items[n].secs = 15 /\ s.items[n].secs > 15
Dropped(s, t) ==
    /\ Len(t.items) = Len(s.items) - 1
    /\ \A i \in 1..Len(t.items) : t.items[i] = s.items[i]

CutLast(s) == [s EXCEPT !.items[Len(s.items)].secs = 15,
                        !.total = @ - s.items[Len(s.items)].secs + 15]
DropLast(s) == [s EXCEPT !.items = RemoveAt(@, Len(s.items)),
                         !.total = @ - s.items[Len(s.items)].secs]

\* Cutting the cooldown.
LEMMA CutSound ==
    ASSUME NEW s, Sound(s), Len(s.items) > 0, s.items[Len(s.items)].secs > 15
    PROVE  Sound(CutLast(s)) /\ CutLast(s).budget = s.budget /\ Cut(s, CutLast(s))
<1> DEFINE t == CutLast(s)
           items == s.items
           n == Len(items)
           new == [items EXCEPT ![n] = [items[n] EXCEPT !.secs = 15]]
<1>1. IsItems(items) /\ n \in Nat /\ n > 0 /\ DOMAIN items = 1..n
  BY ItemsLength DEF Sound, IsSession
<1>2. t = [items |-> new, budget |-> s.budget, total |-> s.total - items[n].secs + 15]
  <2>1. s = [items |-> s.items, budget |-> s.budget, total |-> s.total]  BY DEF Sound, IsSession
  <2>2. ASSUME NEW v, v = [s EXCEPT !.items[n].secs = 15, !.total = @ - items[n].secs + 15]
        PROVE  v = [items |-> new, budget |-> s.budget, total |-> s.total - items[n].secs + 15]
    BY <2>1, <2>2
  <2> QED  BY <2>2 DEF CutLast
<1> HIDE DEF items, n, t
<1>3. Len(new) = n /\ DOMAIN new = 1..n /\ \A i \in 1..(n - 1) : new[i] = items[i]
  BY <1>1 DEF n, IsItems
<1>4. new[n] = [items[n] EXCEPT !.secs = 15]  BY <1>1
<1>5. IsItem(items[n]) /\ IsItem(new[n]) /\ new[n].secs = 15
      /\ Shortened(new[n], items[n])
  <2>1. IsItem(items[n])  BY <1>1 DEF IsItems, n
  <2>2. items[n].secs > 15  BY DEF items, n
  <2> QED  BY <2>1, <2>2, <1>4 DEF IsItem, Shortened
<1>6. IsItems(new)
  <2>1. new = [i \in 1..n |-> new[i]]  BY <1>1
  <2> HIDE DEF new
  <2>2. new \in Seq(Range(new))  BY <2>1, <1>1, <1>3, FunctionSeq
  <2>3. \A i \in 1..n : IsItem(new[i])
    <3> SUFFICES ASSUME NEW i \in 1..n PROVE IsItem(new[i])  OBVIOUS
    <3>1. CASE i = n  BY <3>1, <1>5
    <3>2. CASE i # n
      <4>1. i \in 1..(n - 1)  BY <3>2, <1>1
      <4> QED  BY <4>1, <1>1, <1>3 DEF IsItems, n
    <3> QED  BY <3>1, <3>2
  <2> QED  BY <2>2, <2>3, <1>3 DEF IsItems
<1> HIDE DEF new
<1>7. WarmFirst(new)
  <2> SUFFICES ASSUME NEW i \in 1..n, NEW j \in 1..n, i < j, new[j].role = "warmup"
               PROVE  new[i].role = "warmup"
    BY <1>3 DEF WarmFirst
  <2>1. \A k \in 1..n : new[k].role = items[k].role
    <3> SUFFICES ASSUME NEW k \in 1..n PROVE new[k].role = items[k].role  OBVIOUS
    <3>1. CASE k = n  BY <3>1, <1>5 DEF Shortened
    <3>2. CASE k # n
      <4>1. k \in 1..(n - 1)  BY <3>2, <1>1
      <4> QED  BY <4>1, <1>3
    <3> QED  BY <3>1, <3>2
  <2>2. WarmFirst(items)  BY DEF Sound, items
  <2> QED  BY <2>1, <2>2 DEF WarmFirst, n
<1>8. TotalTime(new) = TotalTime(items) - items[n].secs + 15
  <2>1. \A i \in 1..(Len(new) - 1) : new[i].secs = items[i].secs  BY <1>3
  <2>2. Len(new) = Len(items) /\ Len(items) > 0  BY <1>1, <1>3 DEF n
  <2>3. TotalTime(new) = TotalTime(items) - items[n].secs + new[n].secs
    BY <2>1, <2>2, <1>1, <1>6, TotalLast DEF n
  <2> QED  BY <2>3, <1>5
<1>9. s.total = TotalTime(items) /\ s.budget \in Int /\ TotalTime(new) \in Int
  BY <1>6, SecsOfType DEF Sound, IsSession, items
<1> DEFINE total == s.total - items[n].secs + 15
<1>10. total = TotalTime(new)  BY <1>8, <1>9
<1> HIDE DEF total
<1>11. t = [items |-> new, budget |-> s.budget, total |-> total]  BY <1>2 DEF total
<1>12. IsSession(t) /\ t.items = new /\ t.total = total /\ t.budget = s.budget
  <2>1. total \in Int /\ s.budget \in Int  BY <1>9, <1>10
  <2>2. t.items = new /\ t.total = total /\ t.budget = s.budget  BY <1>11
  <2>3. t = [items |-> t.items, budget |-> t.budget, total |-> t.total]  BY <1>11
  <2> QED  BY <2>1, <2>2, <2>3, <1>6 DEF IsSession
<1>13. Cut(s, t)  BY <1>3, <1>5, <1>12 DEF Cut, items, n
<1> QED  BY <1>7, <1>10, <1>12, <1>13 DEF Sound, t

\* Dropping the last item.
LEMMA DropSound ==
    ASSUME NEW s, Sound(s), Len(s.items) > 0
    PROVE  Sound(DropLast(s)) /\ DropLast(s).budget = s.budget /\ Dropped(s, DropLast(s))
<1> DEFINE t == DropLast(s)
           items == s.items
           n == Len(items)
           new == RemoveAt(items, n)
           total == s.total - items[n].secs
<1>1. IsItems(items) /\ n \in Nat /\ n > 0 /\ DOMAIN items = 1..n
  BY ItemsLength DEF Sound, IsSession
<1>2. t = [items |-> new, budget |-> s.budget, total |-> total]
  <2>1. s = [items |-> s.items, budget |-> s.budget, total |-> s.total]  BY DEF Sound, IsSession
  <2>2. ASSUME NEW v, v = [s EXCEPT !.items = RemoveAt(@, n), !.total = @ - items[n].secs]
        PROVE  v = [items |-> new, budget |-> s.budget, total |-> total]
    BY <2>1, <2>2
  <2> QED  BY <2>2 DEF DropLast
<1>3. new \in Seq(Range(items)) /\ Len(new) = n - 1 /\ \A i \in 1..(n - 1) : new[i] = items[i]
  <2>1. n \in 1..Len(items) /\ items \in Seq(Range(items))  BY <1>1 DEF IsItems
  <2> QED  BY <2>1, RemovedAt
<1> HIDE DEF items, n, new, total, t
<1>4. IsItems(new)
  <2>1. DOMAIN new = 1..(n - 1) /\ new = [i \in 1..(n - 1) |-> new[i]] /\ n - 1 \in Nat
    BY <1>1, <1>3
  <2>2. new \in Seq(Range(new))  BY <2>1, FunctionSeq
  <2>3. \A i \in 1..(n - 1) : IsItem(new[i])
    <3> SUFFICES ASSUME NEW i \in 1..(n - 1) PROVE IsItem(new[i])  OBVIOUS
    <3>1. i \in 1..n  BY <1>1
    <3> QED  BY <3>1, <1>1, <1>3 DEF IsItems, n
  <2> QED  BY <2>2, <2>3, <1>3 DEF IsItems
<1>5. WarmFirst(new)
  <2> SUFFICES ASSUME NEW i \in 1..(n - 1), NEW j \in 1..(n - 1), i < j, new[j].role = "warmup"
               PROVE  new[i].role = "warmup"
    BY <1>3 DEF WarmFirst
  <2>1. i \in 1..n /\ j \in 1..n  BY <1>1
  <2>2. WarmFirst(items)  BY DEF Sound, items
  <2> QED  BY <2>1, <2>2, <1>3 DEF WarmFirst, n
<1>6. TotalTime(new) = TotalTime(items) - items[n].secs
  <2>1. \A i \in 1..Len(new) : new[i].secs = items[i].secs  BY <1>3
  <2> QED  BY <2>1, <1>1, <1>3, <1>4, TotalFront DEF n
<1>7. s.total = TotalTime(items) /\ s.budget \in Int /\ TotalTime(new) \in Int
  BY <1>4, SecsOfType DEF Sound, IsSession, items
<1>8. total = TotalTime(new)  BY <1>6, <1>7 DEF total
<1>9. IsSession(t) /\ t.items = new /\ t.total = total /\ t.budget = s.budget
  <2>1. total \in Int /\ s.budget \in Int  BY <1>7, <1>8
  <2>2. t.items = new /\ t.total = total /\ t.budget = s.budget  BY <1>2
  <2>3. t = [items |-> t.items, budget |-> t.budget, total |-> t.total]  BY <1>2
  <2> QED  BY <2>1, <2>2, <2>3, <1>4 DEF IsSession
<1>10. Dropped(s, t)  BY <1>3, <1>9 DEF Dropped, items, n
<1> QED  BY <1>5, <1>8, <1>9, <1>10 DEF Sound, t

\* One turn of the loop.
LEMMA TrimOnceSound ==
    ASSUME NEW s, Sound(s)
    PROVE  /\ Sound(TrimOnce(s))
           /\ TrimOnce(s).budget = s.budget
           /\ \/ TrimOnce(s) = s /\ Settled(s)
              \/ /\ Over(s) /\ ~Settled(s) /\ Len(s.items) > 2
                 /\ Cut(s, TrimOnce(s)) \/ Dropped(s, TrimOnce(s))
<1> DEFINE items == s.items
           n == Len(items)
           others == {i \in 2..n : items[i].role # "warmup"}
<1>1. n \in Nat  BY ItemsLength DEF Sound, IsSession
<1>0. Over(s) <=> ~(s.total <= (115 * s.budget) \div 100)
  <2>1. s.total \in Int /\ s.budget \in Int  BY DEF Sound, IsSession
  <2>2. 115 * s.budget \in Int  BY <2>1
  <2>3. \A x \in Int : x \div 100 \in Int  OBVIOUS
  <2>4. (115 * s.budget) \div 100 \in Int  BY <2>2, <2>3
  <2> QED  BY <2>1, <2>4 DEF Over
<1>2. CASE ~Over(s) \/ n <= 2
  <2>1. TrimOnce(s) = s  BY <1>0, <1>2 DEF TrimOnce
  <2> QED  BY <2>1, <1>2 DEF Settled
<1>3. CASE Over(s) /\ n > 2 /\ items[n].role = "cooldown" /\ items[n].secs > 15
  <2>1. TrimOnce(s) = CutLast(s)  BY <1>0, <1>1, <1>3 DEF TrimOnce, CutLast
  <2>2. ~Settled(s)
    <3>1. n \in 2..n /\ items[n].role # "warmup"  BY <1>1, <1>3
    <3> QED  BY <3>1, <1>1, <1>3 DEF Settled
  <2> HIDE DEF others
  <2> QED  BY <2>1, <2>2, <1>1, <1>3, CutSound
<1>4. CASE /\ Over(s) /\ n > 2 /\ ~(items[n].role = "cooldown" /\ items[n].secs > 15)
           /\ others = {}
  <2>1. TrimOnce(s) = s  BY <1>0, <1>1, <1>4 DEF TrimOnce
  <2>2. \A i \in 2..n : items[i].role = "warmup"  BY <1>4
  <2> QED  BY <2>1, <2>2 DEF Settled
<1>5. CASE /\ Over(s) /\ n > 2 /\ ~(items[n].role = "cooldown" /\ items[n].secs > 15)
           /\ others # {}
  <2>1. n \in others
    <3> SUFFICES ASSUME items[n].role = "warmup" PROVE FALSE  BY <1>1, <1>5
    <3>1. PICK i \in 2..n : items[i].role # "warmup"  BY <1>5
    <3>2. i < n /\ i \in 1..n /\ n \in 1..n  BY <1>1, <3>1
    <3> QED  BY <3>1, <3>2 DEF Sound, WarmFirst
  <2>2. Max(others) = n
    <3>1. others \in SUBSET Int /\ n \in Int /\ \A y \in others : y <= n  BY <1>1
    <3> HIDE DEF others
    <3> QED  BY <2>1, <3>1, MaxIs
  <2>3. TrimOnce(s) = [s EXCEPT !.items = RemoveAt(@, Max(others)),
                                !.total = @ - items[Max(others)].secs]
    BY <1>0, <1>1, <1>5 DEF TrimOnce
  <2>5. ~Settled(s)
    <3>1. PICK i \in 2..n : items[i].role # "warmup"  BY <1>5
    <3> QED  BY <3>1, <1>1, <1>5 DEF Settled
  <2> HIDE DEF others
  <2>4. TrimOnce(s) = DropLast(s)  BY <2>2, <2>3 DEF DropLast
  <2> QED  BY <2>4, <2>5, <1>1, <1>5, DropSound
<1> QED  BY <1>1, <1>2, <1>3, <1>4, <1>5

\* The turns obey their recursion.
LEMMA TrimStepsRec ==
    ASSUME NEW s, Len(s.items) \in Nat
    PROVE  /\ TrimSteps(s)[0] = s
           /\ \A k \in 1..(2 * Len(s.items)) : TrimSteps(s)[k] = TrimOnce(TrimSteps(s)[k - 1])
<1> DEFINE n == 2 * Len(s.items)
           P(h, m) == h = [k \in 0..m |-> IF k = 0 THEN s ELSE TrimOnce(h[k - 1])]
           S == {m \in Nat : \E h : P(h, m)}
<1>1. 0 \in S
  <2>1. P([k \in 0..0 |-> s], 0)  OBVIOUS
  <2> QED  BY <2>1
<1>2. \A m \in Nat : m \in S => m + 1 \in S
  <2> SUFFICES ASSUME NEW m \in Nat, m \in S PROVE m + 1 \in S  OBVIOUS
  <2>1. PICK h : P(h, m)  OBVIOUS
  <2> DEFINE g == [k \in 0..(m + 1) |-> IF k = m + 1 THEN TrimOnce(h[m]) ELSE h[k]]
  <2>2. P(g, m + 1)  BY <2>1
  <2> HIDE DEF P
  <2> QED  BY <2>2
<1>3. n \in S
  <2>1. n \in Nat  OBVIOUS
  <2> HIDE DEF S, n
  <2> QED  BY <2>1, <1>1, <1>2, SetInduction
<1>4. P(TrimSteps(s), n)
  <2>1. PICK h : P(h, n)  BY <1>3
  <2> QED  BY <2>1 DEF TrimSteps
<1> QED  BY <1>4

\* How much is left to trim: each item may be cut and may go.
Left(t) ==
    2 * Len(t.items)
    - (IF Len(t.items) > 0 /\ t.items[Len(t.items)].secs <= 15 THEN 1 ELSE 0)

LEMMA LeftIs ==
    ASSUME NEW t, Len(t.items) \in Nat
    PROVE  /\ Len(t.items) > 0 /\ t.items[Len(t.items)].secs <= 15
                => Left(t) = 2 * Len(t.items) - 1
           /\ ~(Len(t.items) > 0 /\ t.items[Len(t.items)].secs <= 15)
                => Left(t) = 2 * Len(t.items)
<1> DEFINE cut == Len(t.items) > 0 /\ t.items[Len(t.items)].secs <= 15
<1>1. CASE cut  BY <1>1 DEF Left
<1>2. CASE ~cut
  <2>1. Left(t) = 2 * Len(t.items) - (IF cut THEN 1 ELSE 0)  BY DEF Left
  <2> HIDE DEF cut
  <2>2. Left(t) = 2 * Len(t.items) - 0  BY <2>1, <1>2
  <2>3. Left(t) = 2 * Len(t.items)  BY <2>2
  <2> QED  BY <2>3, <1>2 DEF cut
<1> QED  BY <1>1, <1>2

\* Trimming leaves a beginning of the session that settles the budget.
LEMMA Enforced ==
    ASSUME NEW s, Sound(s)
    PROVE  /\ Sound(EnforceTimeBudget(s))
           /\ Settled(EnforceTimeBudget(s))
           /\ Begins(EnforceTimeBudget(s), s)
<1> DEFINE n == Len(s.items)
           T == TrimSteps(s)
           Good(k) == /\ Sound(T[k]) /\ Begins(T[k], s)
                      /\ Settled(T[k]) \/ Left(T[k]) <= 2 * n - k
           S == {k \in 0..(2 * n) : Good(k)}
<1>1. n \in Nat  BY ItemsLength DEF Sound, IsSession
<1>2. T[0] = s /\ \A k \in 1..(2 * n) : T[k] = TrimOnce(T[k - 1])  BY <1>1, TrimStepsRec
<1> HIDE DEF T
<1>3. \A t : Sound(t) => Len(t.items) \in Nat /\ \A i \in 1..Len(t.items) : t.items[i].secs \in Nat
  BY ItemsLength DEF Sound, IsSession, IsItems, IsItem
<1>4. Good(0)
  <2>1. Begins(s, s)
    <3>1. \A i \in 1..n : s.items[i].secs <= s.items[i].secs  BY <1>3
    <3> QED  BY <1>1, <3>1 DEF Begins, Shortened
  <2>2. Left(s) <= 2 * n - 0
    <3>1. Left(s) = 2 * n \/ Left(s) = 2 * n - 1  BY <1>1, LeftIs
    <3> QED  BY <3>1, <1>1
  <2> QED  BY <1>2, <2>1, <2>2
<1>5. ASSUME NEW k \in 1..(2 * n), Good(k - 1) PROVE Good(k)
  <2> DEFINE t == T[k - 1]
             u == T[k]
  <2>1. Sound(t) /\ Begins(t, s) /\ (Settled(t) \/ Left(t) <= 2 * n - (k - 1))  BY <1>5
  <2>2. u = TrimOnce(t)  BY <1>2
  <2> HIDE DEF t, u
  <2>3. /\ Sound(u) /\ u.budget = t.budget
        /\ \/ u = t /\ Settled(t)
           \/ /\ ~Settled(t) /\ Len(t.items) > 2
              /\ Cut(t, u) \/ Dropped(t, u)
    BY <2>1, <2>2, TrimOnceSound
  <2>4. Len(t.items) \in Nat /\ Len(u.items) \in Nat /\ n \in Nat /\ k \in Int
    BY <2>1, <2>3, <1>1, <1>3
  <2>5. CASE u = t /\ Settled(t)  BY <2>1, <2>5 DEF t, u
  <2>6. CASE ~Settled(t) /\ Len(t.items) > 2 /\ Cut(t, u)
    <3>1. Begins(u, s)
      <4> SUFFICES ASSUME NEW i \in 1..Len(u.items) PROVE Shortened(u.items[i], s.items[i])
        BY <2>1, <2>3, <2>6 DEF Begins, Cut
      <4>1. i \in 1..Len(t.items)  BY <2>6 DEF Cut
      <4>2. Shortened(t.items[i], s.items[i])  BY <4>1, <2>1 DEF Begins
      <4>3. CASE i = Len(t.items)
        <5>1. Shortened(u.items[i], t.items[i])  BY <4>3, <2>6 DEF Cut
        <5>2. u.items[i].secs \in Nat /\ t.items[i].secs \in Nat  BY <4>1, <1>3, <2>1, <2>3
        <5>3. i \in 1..Len(s.items)  BY <4>1, <2>1, <2>4 DEF Begins, n
        <5>4. s.items[i].secs \in Nat  BY <5>3, <1>3
        <5> QED  BY <4>2, <5>1, <5>2, <5>4 DEF Shortened
      <4>4. CASE i # Len(t.items)
        <5>1. i \in 1..(Len(t.items) - 1)  BY <4>1, <4>4, <2>4
        <5> QED  BY <5>1, <4>2, <2>6 DEF Cut
      <4> QED  BY <4>3, <4>4
    <3>2. Left(u) <= Left(t) - 1
      <4>1. Len(u.items) = Len(t.items) /\ u.items[Len(u.items)].secs = 15
            /\ t.items[Len(t.items)].secs > 15
        BY <2>6 DEF Cut
      <4>2. t.items[Len(t.items)].secs \in Nat  BY <2>1, <2>4, <2>6, <1>3
      <4>3. Left(u) = 2 * Len(t.items) - 1
        <5>1. Len(u.items) > 0 /\ u.items[Len(u.items)].secs <= 15  BY <4>1, <2>4, <2>6
        <5> QED  BY <4>1, <5>1, <2>4, LeftIs
      <4>4. Left(t) = 2 * Len(t.items)
        <5>1. ~(t.items[Len(t.items)].secs <= 15)  BY <4>1, <4>2
        <5> QED  BY <5>1, <2>4, LeftIs
      <4> QED  BY <4>3, <4>4, <2>4
    <3>3. Left(u) \in Int /\ Left(t) \in Int  BY <2>4 DEF Left
    <3>4. Left(u) <= 2 * n - k  BY <3>2, <3>3, <2>1, <2>4, <2>6
    <3> QED  BY <3>1, <3>4, <2>3 DEF t, u
  <2>7. CASE ~Settled(t) /\ Len(t.items) > 2 /\ Dropped(t, u)
    <3>1. Len(u.items) = Len(t.items) - 1 /\ \A i \in 1..Len(u.items) : u.items[i] = t.items[i]
      BY <2>7 DEF Dropped
    <3>2. Begins(u, s)
      <4>1. \A i \in 1..Len(u.items) : i \in 1..Len(t.items)  BY <3>1, <2>4
      <4>2. Len(t.items) <= Len(s.items) /\ Len(s.items) \in Nat  BY <2>1, <1>1 DEF Begins
      <4> QED  BY <4>1, <4>2, <3>1, <2>1, <2>3, <2>4 DEF Begins
    <3>3. Left(u) <= Left(t) - 1
      <4>1. Left(u) = 2 * Len(u.items) \/ Left(u) = 2 * Len(u.items) - 1  BY <2>4, LeftIs
      <4>2. Left(t) = 2 * Len(t.items) \/ Left(t) = 2 * Len(t.items) - 1  BY <2>4, LeftIs
      <4> QED  BY <4>1, <4>2, <3>1, <2>4
    <3>4. Left(u) \in Int /\ Left(t) \in Int  BY <2>4 DEF Left
    <3>5. Left(u) <= 2 * n - k  BY <3>3, <3>4, <2>1, <2>4, <2>7
    <3> QED  BY <3>2, <3>5, <2>3 DEF t, u
  <2> QED  BY <2>3, <2>5, <2>6, <2>7
<1> HIDE DEF Good
<1>6. 2 * n \in S
  <2>1. 0 \in S /\ \A k \in 1..(2 * n) : k - 1 \in S => k \in S  BY <1>1, <1>4, <1>5
  <2>2. 2 * n \in Nat /\ 2 * n \in 0..(2 * n)  BY <1>1
  <2> HIDE DEF S
  <2>3. 0..(2 * n) \subseteq S  BY <2>1, <2>2, BoundedInduction
  <2> QED  BY <2>2, <2>3
<1>7. /\ Sound(T[2 * n]) /\ Begins(T[2 * n], s)
      /\ Settled(T[2 * n]) \/ Left(T[2 * n]) <= 2 * n - 2 * n
  BY <1>6 DEF Good
<1>8. EnforceTimeBudget(s) = T[2 * n]  BY DEF EnforceTimeBudget, T
<1> DEFINE t == T[2 * n]
<1>9. Left(t) <= 0 => Settled(t)
  <2>1. Len(t.items) \in Nat  BY <1>3, <1>7
  <2> HIDE DEF t
  <2>2. Left(t) <= 0 => Len(t.items) <= 2  BY <2>1 DEF Left
  <2> QED  BY <2>2 DEF Settled
<1>10. 2 * n - 2 * n = 0  BY <1>1
<1> QED  BY <1>7, <1>8, <1>9, <1>10

\* What comes before an item is not touched when, without the item and what
\* comes after it, the session is within its budget.
LEMMA EnforcedFrozen ==
    ASSUME NEW s, Sound(s), NEW r \in 1..Len(s.items),
           \A u : Sound(u) /\ u.budget = s.budget /\ Len(u.items) = r - 1
                 /\ (\A i \in 1..(r - 1) : u.items[i] = s.items[i]) => ~Over(u)
    PROVE  /\ Len(EnforceTimeBudget(s).items) >= r - 1
           /\ \A i \in 1..(r - 1) : EnforceTimeBudget(s).items[i] = s.items[i]
<1> DEFINE n == Len(s.items)
           T == TrimSteps(s)
           Good(t) == /\ Sound(t) /\ t.budget = s.budget /\ Len(t.items) >= r - 1
                      /\ \A i \in 1..(r - 1) : t.items[i] = s.items[i]
           S == {k \in 0..(2 * n) : Good(T[k])}
<1>1. n \in Nat /\ r \in 1..n  BY ItemsLength DEF Sound, IsSession
<1>2. T[0] = s /\ \A k \in 1..(2 * n) : T[k] = TrimOnce(T[k - 1])  BY <1>1, TrimStepsRec
<1> HIDE DEF T
<1>3. Good(T[0])  BY <1>1, <1>2
<1>4. ASSUME NEW t, Good(t) PROVE Good(TrimOnce(t))
  <2> DEFINE u == TrimOnce(t)
  <2>1. /\ Sound(u) /\ u.budget = t.budget
        /\ \/ u = t
           \/ Over(t) /\ (Cut(t, u) \/ Dropped(t, u))
    BY <1>4, TrimOnceSound
  <2>2. Len(t.items) \in Nat  BY <1>4, ItemsLength DEF Sound, IsSession
  <2> HIDE DEF u
  <2> SUFFICES Good(u)  BY DEF u
  <2>3. CASE u = t  BY <2>3, <1>4
  <2>4. CASE Over(t) /\ (Cut(t, u) \/ Dropped(t, u))
    <3>1. Len(t.items) >= r  BY <2>2, <2>4, <1>1, <1>4
    <3>2. Len(u.items) >= r - 1 /\ \A i \in 1..(r - 1) : u.items[i] = t.items[i]
      <4>1. CASE Cut(t, u)
        <5>1. \A i \in 1..(r - 1) : i \in 1..(Len(t.items) - 1)  BY <3>1, <1>1, <2>2
        <5> QED  BY <4>1, <5>1, <3>1, <1>1, <2>2 DEF Cut
      <4>2. CASE Dropped(t, u)
        <5>1. \A i \in 1..(r - 1) : i \in 1..(Len(t.items) - 1)  BY <3>1, <1>1, <2>2
        <5> QED  BY <4>2, <5>1, <3>1, <1>1, <2>2 DEF Dropped
      <4> QED  BY <2>4, <4>1, <4>2
    <3> QED  BY <3>2, <2>1, <1>4
  <2> QED  BY <2>1, <2>3, <2>4
<1>5. 2 * n \in S
  <2>1. 0 \in S /\ \A k \in 1..(2 * n) : k - 1 \in S => k \in S
    <3> HIDE DEF Good
    <3> QED  BY <1>1, <1>2, <1>3, <1>4
  <2>2. 2 * n \in Nat /\ 2 * n \in 0..(2 * n)  BY <1>1
  <2> HIDE DEF S
  <2>3. 0..(2 * n) \subseteq S  BY <2>1, <2>2, BoundedInduction
  <2> QED  BY <2>2, <2>3
<1>6. EnforceTimeBudget(s) = T[2 * n]  BY DEF EnforceTimeBudget, T
<1> QED  BY <1>5, <1>6

-----------------------------------------------------------------------------
(* Extrema and order                                                       *)

LEMMA MinIs ==
    ASSUME NEW S \in SUBSET Nat, S # {}
    PROVE  Min(S) \in S /\ \A y \in S : Min(S) <= y
<1> DEFINE R == {ss \in Nat \X Nat : ss[1] < ss[2]}
<1>1. \E x \in S : \A y \in S : ~ (<<y, x>> \in R)
  <2>1. IsWellFoundedOn(R, Nat)  BY NatLessThanWellFounded DEF OpToRel
  <2> HIDE DEF R
  <2> QED  BY <2>1, WFMin
<1>2. \A x, y \in Nat : y < x => <<y, x>> \in R  OBVIOUS
<1>3. \E x \in S : \A y \in S : x <= y
  <2>1. PICK x \in S : \A y \in S : ~(<<y, x>> \in R)  BY <1>1
  <2> HIDE DEF R
  <2>2. \A y \in S : ~(y < x)  BY <2>1, <1>2
  <2>3. \A y \in S : x <= y  BY <2>2
  <2> QED  BY <2>3
<1> QED  BY <1>3 DEF Min

\* The most difficult of some variants is one of them.
LEMMA HardestIs ==
    ASSUME NEW pool, Len(pool) \in Nat, NEW S \in SUBSET (1..Len(pool)), S # {},
           \A i \in 1..Len(pool) : pool[i].diff \in Int
    PROVE  \E i \in S : HardestIn(pool, S) = pool[i]
<1> DEFINE n == Len(pool)
           Top(T) == {i \in T : \A j \in T : pool[i].diff >= pool[j].diff}
           Good == {k \in 0..n : S \cap (1..k) = {} \/ Top(S \cap (1..k)) # {}}
<1>1. 0 \in Good  OBVIOUS
<1>2. ASSUME NEW k \in 1..n, k - 1 \in Good PROVE k \in Good
  <2> DEFINE A == S \cap (1..(k - 1))
             B == S \cap (1..k)
  <2>1. A = {} \/ Top(A) # {}  BY <1>2
  <2>2. CASE k \notin S
    <3>1. A = B  BY <2>2
    <3> QED  BY <3>1, <2>1
  <2>3. CASE k \in S
    <3>1. B = A \cup {k} /\ k \in B  BY <2>3
    <3>2. \A i \in B : pool[i].diff \in Int  OBVIOUS
    <3> HIDE DEF A, B
    <3> SUFFICES Top(B) # {}  BY DEF B
    <3>3. CASE A = {}  BY <3>1, <3>2, <3>3
    <3>4. CASE A # {}
      <4>1. PICK i \in Top(A) : TRUE  BY <2>1, <3>4
      <4>2. CASE pool[i].diff >= pool[k].diff
        <5>1. i \in Top(B)  BY <3>1, <4>1, <4>2
        <5> QED  BY <5>1
      <4>3. CASE pool[i].diff < pool[k].diff
        <5>1. k \in Top(B)  BY <3>1, <3>2, <4>1, <4>3
        <5> QED  BY <5>1
      <4>4. pool[i].diff \in Int /\ pool[k].diff \in Int  BY <3>1, <3>2, <4>1
      <4> QED  BY <4>2, <4>3, <4>4
    <3> QED  BY <3>3, <3>4
  <2> QED  BY <2>2, <2>3
<1>3. n \in Good
  <2> HIDE DEF Good
  <2>1. 0..n \subseteq Good  BY <1>1, <1>2, BoundedInduction
  <2> QED  BY <2>1
<1>4. S \cap (1..n) = S  OBVIOUS
<1>5. Top(S) # {}  BY <1>3, <1>4
<1>6. Top(S) \in SUBSET Nat
  <2>1. S \subseteq Nat  OBVIOUS
  <2> QED  BY <2>1
<1>7. Min(Top(S)) \in Top(S)
  <2> HIDE DEF Top
  <2> QED  BY <1>5, <1>6, MinIs
<1>8. HardestIn(pool, S) = pool[Min(Top(S))]  BY DEF HardestIn
<1> QED  BY <1>7, <1>8

\* The selections from easy to hard are the same selections.
LEMMA EasiestFirstIs ==
    ASSUME NEW sel, Len(sel) \in Nat, \A i \in 1..Len(sel) : sel[i].content.diff \in Int
    PROVE  \E p : Permutes(p, Len(sel)) /\ EasiestFirst(sel) = Picked(sel, p, Len(sel))
<1> DEFINE n == Len(sel)
           K == 1..n
           Diff(i) == sel[i].content.diff
           Before(i) == {j \in K : \/ Diff(j) < Diff(i)
                                   \/ j <= i /\ ~(Diff(i) < Diff(j))}
           D == [i \in K |-> Before(i)]
           p == [k \in K |-> CHOOSE i \in K : Cardinality(Before(i)) = k]
<1>1. IsFiniteSet(K) /\ Cardinality(K) = n
  <2>1. IsFiniteSet(1..n) /\ Cardinality(1..n) = n
    <3> HIDE DEF K
    <3>1. n \in Nat  OBVIOUS
    <3> HIDE DEF n
    <3> QED  BY <3>1, FS_Interval, SMTT(30)
  <2> QED  BY <2>1
<1>2. EasiestFirst(sel) = Picked(sel, p, n)  BY DEF EasiestFirst, Ordered, Picked
<1>3. /\ D \in [K -> SUBSET K] /\ \A i \in K : i \in D[i]
      /\ \A i, j \in K : i # j => \/ D[i] \subseteq D[j] /\ j \notin D[i]
                                  \/ D[j] \subseteq D[i] /\ i \notin D[j]
  <2>1. \A i, j, k \in K : Diff(i) \in Int /\ Diff(j) \in Int /\ Diff(k) \in Int  OBVIOUS
  <2> HIDE DEF Diff
  <2>2. D \in [K -> SUBSET K]  OBVIOUS
  <2>3. \A i \in K : i \in D[i]  BY <2>1
  <2>4. ASSUME NEW i \in K, NEW j \in K, i # j
        PROVE  \/ D[i] \subseteq D[j] /\ j \notin D[i]
               \/ D[j] \subseteq D[i] /\ i \notin D[j]
    <3>1. CASE Diff(i) < Diff(j) \/ (Diff(i) = Diff(j) /\ i < j)  BY <2>1, <3>1
    <3>2. CASE Diff(j) < Diff(i) \/ (Diff(i) = Diff(j) /\ j < i)  BY <2>1, <3>2
    <3> QED  BY <2>1, <2>4, <3>1, <3>2
  <2> QED  BY <2>2, <2>3, <2>4
<1>4. \A i \in K : D[i] = Before(i)  OBVIOUS
<1> HIDE DEF D, Before
<1>5. /\ \A k \in K : \E i \in K : Cardinality(D[i]) = k
      /\ \A i, j \in K : Cardinality(D[i]) = Cardinality(D[j]) => i = j
      /\ \A i \in K : Cardinality(D[i]) \in K
  <2> HIDE DEF K
  <2>1. /\ \A k \in 1..Cardinality(K) : \E i \in K : Cardinality(D[i]) = k
        /\ \A i, j \in K : Cardinality(D[i]) = Cardinality(D[j]) => i = j
        /\ \A i \in K : Cardinality(D[i]) \in 1..Cardinality(K)
    BY <1>1, <1>3, Ranked
  <2>2. 1..Cardinality(K) = K  BY <1>1 DEF K
  <2> QED  BY <2>1, <2>2
<1> HIDE DEF K
<1>6. \A k \in K : p[k] \in K /\ Cardinality(D[p[k]]) = k
  <2> SUFFICES ASSUME NEW k \in K PROVE p[k] \in K /\ Cardinality(D[p[k]]) = k  OBVIOUS
  <2>1. \E i \in K : Cardinality(Before(i)) = k  BY <1>4, <1>5
  <2>2. p[k] \in K /\ Cardinality(Before(p[k])) = k  BY <2>1
  <2> QED  BY <2>2, <1>4
<1>7. p \in [K -> K]
  <2>1. p = [k \in K |-> CHOOSE i \in K : Cardinality(Before(i)) = k]  OBVIOUS
  <2>2. \A k \in K : p[k] \in K  BY <1>6
  <2> QED  BY <2>1, <2>2
<1> HIDE DEF p
<1>8. Injective(p, n)  BY <1>6 DEF Injective, K
<1>9. Reaches(p, n)
  <2> SUFFICES ASSUME NEW k \in K PROVE \E i \in K : p[i] = k  BY DEF Reaches, K
  <2>1. Cardinality(D[k]) \in K  BY <1>5
  <2> QED  BY <2>1, <1>5, <1>6
<1>10. Permutes(p, n)  BY <1>7, <1>8, <1>9 DEF Permutes, K
<1> QED  BY <1>2, <1>10

-----------------------------------------------------------------------------
(* The templates                                                           *)

LEMMA RolesAre ==
    Roles = {"warmup", "ramp", "core", "relief", "challenge", "cooldown"}
BY DEF Roles, RoleDifficulty

\* Roles of which the first w, and no others, are warm-ups.
IsArc(t, w) ==
    t \in Seq(Roles) /\ \A i \in 1..Len(t) : t[i] = "warmup" <=> i <= w

LEMMA ArcBegins ==
    ASSUME NEW w \in Nat
    PROVE  IsArc(Times(w, "warmup"), w) /\ Len(Times(w, "warmup")) = w
<1>1. Larger(w, 0) = w  BY DEF Larger
<1>2. Times(w, "warmup") = [i \in 1..w |-> "warmup"]  BY <1>1 DEF Times
<1>3. "warmup" \in Roles  BY RolesAre
<1> QED  BY <1>2, <1>3 DEF IsArc

LEMMA ArcGoesOn ==
    ASSUME NEW t, NEW w \in Nat, IsArc(t, w), w <= Len(t),
           NEW k \in Int, NEW role \in Roles, role # "warmup"
    PROVE  /\ IsArc(t \o Times(k, role), w)
           /\ Len(t \o Times(k, role)) = Len(t) + Larger(k, 0)
<1> DEFINE m == Larger(k, 0)
           u == Times(k, role)
           v == t \o u
<1>1. m \in Nat  BY DEF Larger
<1>2. u \in Seq(Roles) /\ Len(u) = m /\ \A i \in 1..m : u[i] = role
  <2>1. u = [i \in 1..m |-> role]  BY DEF Times
  <2> HIDE DEF u, m
  <2> QED  BY <1>1, <2>1
<1>3. t \in Seq(Roles) /\ Len(t) \in Nat  BY DEF IsArc
<1> HIDE DEF u, m
<1>4. v \in Seq(Roles) /\ Len(v) = Len(t) + m
      /\ \A i \in 1..Len(v) : v[i] = IF i <= Len(t) THEN t[i] ELSE u[i - Len(t)]
  BY <1>1, <1>2, <1>3, ConcatProperties
<1> HIDE DEF v
<1>5. ASSUME NEW i \in 1..Len(v) PROVE v[i] = "warmup" <=> i <= w
  <2>1. CASE i <= Len(t)
    <3>1. i \in 1..Len(t)  BY <2>1, <1>3, <1>4
    <3> QED  BY <2>1, <3>1, <1>4 DEF IsArc
  <2>2. CASE ~(i <= Len(t))
    <3>1. i - Len(t) \in 1..m /\ ~(i <= w)  BY <2>2, <1>1, <1>3, <1>4
    <3> QED  BY <2>2, <3>1, <1>2, <1>4
  <2> QED  BY <2>1, <2>2
<1> QED  BY <1>4, <1>5 DEF IsArc, v, u, m

LEMMA ArcFits ==
    ASSUME NEW t, NEW w \in Nat, IsArc(t, w), NEW n \in Nat, n <= Len(t)
    PROVE  IsArc(Fit(t, n), w) /\ Len(Fit(t, n)) = n
<1>1. t \in Seq(Roles) /\ Len(t) \in Nat  BY DEF IsArc
<1>2. Smaller(n, Len(t)) = n  BY <1>1 DEF Smaller
<1>3. Fit(t, n) = SubSeq(t, 1, n)  BY <1>2 DEF Fit, Prefix
<1>4. /\ SubSeq(t, 1, n) \in Seq(Roles) /\ Len(SubSeq(t, 1, n)) = n
      /\ \A i \in 1..n : SubSeq(t, 1, n)[i] = t[i]
  BY <1>1
<1> QED  BY <1>1, <1>3, <1>4 DEF IsArc

\* What every template is: as long as it should be, its warm-ups first.
IsTemplate(t, n) ==
    /\ t \in Seq(Roles) /\ Len(t) = n
    /\ \A i, j \in 1..n : i < j /\ t[j] = "warmup" => t[i] = "warmup"

LEMMA ArcIsTemplate ==
    ASSUME NEW t, NEW w \in Nat, IsArc(t, w), NEW n \in Nat, n <= Len(t)
    PROVE  IsTemplate(Fit(t, n), n)
<1>1. IsArc(Fit(t, n), w) /\ Len(Fit(t, n)) = n  BY ArcFits
<1> QED  BY <1>1 DEF IsArc, IsTemplate

LEMMA ShortIs ==
    ASSUME NEW n \in Nat
    PROVE  IsTemplate(ShortTemplate(n), n)
<1> DEFINE t == ShortTemplate(n)
<1>1. t = [i \in 1..n |-> IF i = 1 THEN "warmup" ELSE IF i = n THEN "cooldown" ELSE "core"]
  BY DEF ShortTemplate
<1>2. \A i \in 1..n : t[i] \in Roles /\ (t[i] = "warmup" <=> i = 1)  BY <1>1, RolesAre
<1> HIDE DEF t
<1>3. t \in Seq(Roles) /\ Len(t) = n  BY <1>1, <1>2
<1> QED  BY <1>2, <1>3 DEF IsTemplate, t

\* Half of a number, rounded down.
LEMMA HalfIs ==
    ASSUME NEW x \in Int
    PROVE  x \div 2 \in Int /\ 2 * (x \div 2) <= x /\ x <= 2 * (x \div 2) + 1
OBVIOUS

LEMMA StandardIs ==
    ASSUME NEW n \in Nat
    PROVE  IsTemplate(StandardTemplate(n), n)
<1>1. CASE n <= 3  BY <1>1, ShortIs DEF StandardTemplate
<1>2. CASE n > 3
  <2> DEFINE warm   == IF n >= 15 THEN 3 ELSE 2
             ramp   == IF n >= 12 THEN 2 ELSE 1
             left   == n - warm - ramp
             cores  == IF left >= 4 THEN left - 2 ELSE Larger(left - 1, 1)
             core1  == Larger(cores \div 2, 1)
             head   == warm + ramp + core1
             relief == IF head < n - 1 /\ left > 2 THEN 1 ELSE 0
             t1 == Times(warm, "warmup")
             t2 == t1 \o Times(ramp, "ramp")
             t3 == t2 \o Times(core1, "core")
             t4 == t3 \o Times(relief, "relief")
             t5 == t4 \o Times(cores - core1, "core")
             t6 == t5 \o Times(1, "cooldown")
  <2>1. StandardTemplate(n) = Fit(t6, n)  BY <1>2 DEF StandardTemplate
  <2>2. /\ warm \in 2..3 /\ ramp \in 1..2 /\ left = n - warm - ramp /\ left >= 1
        /\ left >= 4 => cores = left - 2
        /\ left < 4 => cores \in {1, 2} /\ cores >= left - 1
    BY <1>2 DEF Larger
  <2> HIDE DEF warm, ramp, left
  <2>3. left \in Int /\ cores \in Nat /\ cores >= 1  BY <2>2
  <2> HIDE DEF cores
  <2>4. core1 \in Int /\ core1 >= 1 /\ (core1 = 1 \/ 2 * core1 <= cores)
    BY <2>3, HalfIs DEF Larger
  <2>5. cores >= core1
    <3> HIDE DEF core1
    <3> QED  BY <2>3, <2>4
  <2> HIDE DEF core1
  <2>6. relief \in 0..1 /\ (left >= 4 => relief = 1) /\ (left = 3 => relief = 1)
    <3>1. head \in Int /\ (left >= 3 => head < n - 1)  BY <2>2, <2>3, <2>4, <2>5
    <3> HIDE DEF head
    <3> QED  BY <2>3, <3>1
  <2> HIDE DEF relief
  <2> HIDE DEF t1, t2, t3, t4, t5, t6
  <2>7. \A r \in {"ramp", "core", "relief", "cooldown"} : r \in Roles /\ r # "warmup"
    BY RolesAre
  <2>8. /\ Larger(ramp, 0) = ramp /\ Larger(core1, 0) = core1 /\ Larger(relief, 0) = relief
        /\ Larger(cores - core1, 0) = cores - core1 /\ Larger(1, 0) = 1
    BY <2>2, <2>3, <2>4, <2>5, <2>6 DEF Larger
  <2>9. warm \in Nat /\ ramp \in Int /\ core1 \in Int /\ relief \in Int /\ cores - core1 \in Nat
    BY <2>2, <2>3, <2>4, <2>5, <2>6
  <2>10. IsArc(t1, warm) /\ Len(t1) = warm  BY <2>9, ArcBegins DEF t1
  <2>11. IsArc(t2, warm) /\ Len(t2) = warm + ramp
    BY <2>7, <2>8, <2>9, <2>10, ArcGoesOn DEF t2
  <2>12. IsArc(t3, warm) /\ Len(t3) = warm + ramp + core1
    <3>1. warm <= Len(t2)  BY <2>2, <2>11
    <3> QED  BY <3>1, <2>7, <2>8, <2>9, <2>11, ArcGoesOn, ZenonT(30) DEF t3
  <2>13. IsArc(t4, warm) /\ Len(t4) = warm + ramp + core1 + relief
    <3>1. warm <= Len(t3)  BY <2>2, <2>4, <2>12
    <3> QED  BY <3>1, <2>7, <2>8, <2>9, <2>12, ArcGoesOn DEF t4
  <2>14. IsArc(t5, warm) /\ Len(t5) = warm + ramp + cores + relief
    <3>1. warm <= Len(t4)  BY <2>2, <2>4, <2>6, <2>13
    <3>2. Len(t5) = Len(t4) + (cores - core1) /\ IsArc(t5, warm)
      <4> DEFINE k == cores - core1
      <4>1. t5 = t4 \o Times(k, "core") /\ k \in Int /\ Larger(k, 0) = k  BY <2>8, <2>9 DEF t5
      <4> HIDE DEF k
      <4>2. /\ IsArc(t4 \o Times(k, "core"), warm)
            /\ Len(t4 \o Times(k, "core")) = Len(t4) + Larger(k, 0)
        <5>1. "core" \in Roles /\ "core" # "warmup"  BY <2>7
        <5>2. warm \in Nat /\ IsArc(t4, warm)  BY <2>9, <2>13
        <5> QED  BY <3>1, <4>1, <5>1, <5>2, ArcGoesOn
      <4> QED  BY <4>1, <4>2 DEF k
    <3> QED  BY <3>2, <2>3, <2>9, <2>13
  <2>15. IsArc(t6, warm) /\ Len(t6) = warm + ramp + cores + relief + 1
    <3>1. warm <= Len(t5)  BY <2>2, <2>3, <2>6, <2>14
    <3> QED  BY <3>1, <2>7, <2>8, <2>9, <2>14, ArcGoesOn DEF t6
  <2>16. n <= Len(t6)
    <3>1. CASE left >= 4  BY <3>1, <2>2, <2>3, <2>6, <2>15
    <3>2. CASE left < 4  BY <3>2, <2>2, <2>3, <2>6, <2>15
    <3> QED  BY <3>1, <3>2, <2>3
  <2> QED  BY <2>1, <2>9, <2>15, <2>16, ArcIsTemplate
<1> QED  BY <1>1, <1>2

LEMMA IntensiveIs ==
    ASSUME NEW n \in Nat
    PROVE  IsTemplate(IntensiveTemplate(n), n)
<1>1. CASE n <= 5  BY <1>1, StandardIs DEF IntensiveTemplate
<1>2. CASE n > 5
  <2> DEFINE left    == n - 4
             special == IF left < 6 THEN 2 ELSE 4
             cores   == Larger(left - special, 2)
             core1   == cores \div 2
             relief1 == IF 4 + core1 < n - 1 THEN 1 ELSE 0
             head    == Smaller(n, 4 + relief1 + cores)
             relief2 == IF special = 4 /\ head < n - 2 THEN 1 ELSE 0
             boss    == IF special = 4 /\ head + relief2 < n - 1 THEN 1 ELSE 0
             t1 == Times(2, "warmup")
             t2 == t1 \o Times(2, "ramp")
             t3 == t2 \o Times(core1, "core")
             t4 == t3 \o Times(relief1, "relief")
             t5 == t4 \o Times(cores - core1, "core")
             t6 == t5 \o Times(relief2, "relief")
             t7 == t6 \o Times(boss, "challenge")
             t8 == t7 \o Times(1, "cooldown")
  <2>1. IntensiveTemplate(n) = Fit(t8, n)  BY <1>2 DEF IntensiveTemplate
  <2>2. /\ special \in {2, 4} /\ (special = 4 <=> n >= 10)
        /\ cores \in Nat /\ cores >= 2
        /\ n >= 10 => cores = Larger(n - 8, 2) /\ cores >= n - 8
        /\ n < 10 => cores >= n - 6 /\ cores <= 3
    BY <1>2 DEF Larger
  <2>3. n >= 10 => cores = n - 8  BY <1>2 DEF Larger
  <2> HIDE DEF special, cores, left
  <2>4. core1 \in Nat /\ 2 * core1 <= cores /\ cores <= 2 * core1 + 1 /\ core1 >= 1
    BY <2>2, HalfIs
  <2> HIDE DEF core1
  <2>5. relief1 \in 0..1 /\ (n >= 7 => relief1 = 1)
    <3>1. n >= 10 => core1 <= n - 6
      BY <2>2, <2>3, <2>4
    <3>2. n < 10 => core1 = 1  BY <2>2, <2>4
    <3> QED  BY <2>4, <3>1, <3>2
  <2> HIDE DEF relief1
  <2>6. /\ relief2 \in 0..1 /\ boss \in 0..1
        /\ n >= 10 => relief2 = 1 /\ boss = 1
    <3>1. head \in Int /\ (n >= 10 => head = n - 3)
      BY <2>2, <2>3, <2>5 DEF Smaller
    <3> HIDE DEF head
    <3>2. relief2 \in 0..1 /\ (n >= 10 => relief2 = 1)  BY <2>2, <3>1
    <3> HIDE DEF relief2
    <3>3. boss \in 0..1 /\ (n >= 10 => boss = 1)  BY <2>2, <3>1, <3>2
    <3> QED  BY <3>2, <3>3
  <2> HIDE DEF relief2, boss
  <2> HIDE DEF t1, t2, t3, t4, t5, t6, t7, t8
  <2>7. \A r \in {"ramp", "core", "relief", "challenge", "cooldown"} :
            r \in Roles /\ r # "warmup"
    BY RolesAre
  <2>8. /\ Larger(2, 0) = 2 /\ Larger(core1, 0) = core1 /\ Larger(relief1, 0) = relief1
        /\ Larger(cores - core1, 0) = cores - core1 /\ Larger(relief2, 0) = relief2
        /\ Larger(boss, 0) = boss /\ Larger(1, 0) = 1
    BY <2>2, <2>4, <2>5, <2>6 DEF Larger
  <2>9. core1 \in Nat /\ relief1 \in Nat /\ cores - core1 \in Nat /\ relief2 \in Nat /\ boss \in Nat
        /\ cores \in Nat
    BY <2>2, <2>4, <2>5, <2>6
  <2>10. IsArc(t1, 2) /\ Len(t1) = 2  BY ArcBegins DEF t1
  <2>11. IsArc(t2, 2) /\ Len(t2) = 4
    <3>1. /\ IsArc(t1 \o Times(2, "ramp"), 2)
          /\ Len(t1 \o Times(2, "ramp")) = Len(t1) + Larger(2, 0)
      <4>1. "ramp" \in Roles /\ "ramp" # "warmup"  BY <2>7
      <4>2. 2 \in Nat /\ 2 \in Int /\ 2 <= Len(t1)  BY <2>10
      <4> QED  BY <4>1, <4>2, <2>10, ArcGoesOn
    <3> QED  BY <3>1, <2>8, <2>10 DEF t2
  <2>12. IsArc(t3, 2) /\ Len(t3) = 4 + core1
    <3>1. /\ IsArc(t2 \o Times(core1, "core"), 2)
          /\ Len(t2 \o Times(core1, "core")) = Len(t2) + Larger(core1, 0)
      <4>1. "core" \in Roles /\ "core" # "warmup"  BY <2>7
      <4>2. 2 \in Nat /\ core1 \in Int /\ 2 <= Len(t2)  BY <2>9, <2>11
      <4> QED  BY <4>1, <4>2, <2>11, ArcGoesOn
    <3> QED  BY <3>1, <2>8, <2>11 DEF t3
  <2>13. IsArc(t4, 2) /\ Len(t4) = 4 + core1 + relief1
    <3>1. /\ IsArc(t3 \o Times(relief1, "relief"), 2)
          /\ Len(t3 \o Times(relief1, "relief")) = Len(t3) + Larger(relief1, 0)
      <4>1. "relief" \in Roles /\ "relief" # "warmup"  BY <2>7
      <4>2. 2 \in Nat /\ relief1 \in Int /\ 2 <= Len(t3)  BY <2>9, <2>12
      <4> QED  BY <4>1, <4>2, <2>12, ArcGoesOn
    <3> QED  BY <3>1, <2>8, <2>12 DEF t4
  <2>14. IsArc(t5, 2) /\ Len(t5) = 4 + relief1 + cores
    <3>1. 2 <= Len(t4)  BY <2>9, <2>13
    <3>2. IsArc(t5, 2) /\ Len(t5) = Len(t4) + (cores - core1)
      <4> DEFINE k == cores - core1
      <4>1. t5 = t4 \o Times(k, "core") /\ k \in Int /\ Larger(k, 0) = k  BY <2>8, <2>9 DEF t5
      <4> HIDE DEF k
      <4>2. /\ IsArc(t4 \o Times(k, "core"), 2)
            /\ Len(t4 \o Times(k, "core")) = Len(t4) + Larger(k, 0)
        <5>1. "core" \in Roles /\ "core" # "warmup"  BY <2>7
        <5>2. 2 \in Nat /\ IsArc(t4, 2)  BY <2>9, <2>13
        <5> QED  BY <3>1, <4>1, <5>1, <5>2, ArcGoesOn
      <4> QED  BY <4>1, <4>2 DEF k
    <3> QED  BY <3>2, <2>9, <2>13
  <2>15. IsArc(t6, 2) /\ Len(t6) = 4 + relief1 + cores + relief2
    <3>1. 2 <= Len(t5)  BY <2>9, <2>14
    <3> QED  BY <3>1, <2>7, <2>8, <2>9, <2>14, ArcGoesOn DEF t6
  <2>16. IsArc(t7, 2) /\ Len(t7) = 4 + relief1 + cores + relief2 + boss
    <3>1. 2 <= Len(t6)  BY <2>9, <2>15
    <3> QED  BY <3>1, <2>7, <2>8, <2>9, <2>15, ArcGoesOn DEF t7
  <2>17. IsArc(t8, 2) /\ Len(t8) = 4 + relief1 + cores + relief2 + boss + 1
    <3>1. 2 <= Len(t7)  BY <2>9, <2>16
    <3> QED  BY <3>1, <2>7, <2>8, <2>9, <2>16, ArcGoesOn DEF t8
  <2>18. n <= Len(t8)
    <3>1. CASE n >= 10  BY <3>1, <2>2, <2>3, <2>5, <2>6, <2>17
    <3>2. CASE n \in 7..9  BY <3>2, <2>2, <2>5, <2>9, <2>17
    <3>3. CASE n = 6  BY <3>3, <2>2, <2>9, <2>17
    <3> QED  BY <3>1, <3>2, <3>3, <1>2
  <2> QED  BY <2>1, <2>17, <2>18, ArcIsTemplate
<1> QED  BY <1>1, <1>2

LEMMA TemplateIs ==
    ASSUME NEW n \in Nat, NEW segment, NEW minutes
    PROVE  IsTemplate(Template(n, segment, minutes), n)
BY ShortIs, StandardIs, IntensiveIs DEF Template

-----------------------------------------------------------------------------
(* Placing the selections                                                  *)

LEMMA SecsIs ==
    ASSUME NEW c, IsAtom(c)
    PROVE  Secs(c) \in Nat /\ Secs(c) > 0
BY DEF Secs, IsAtom

\* The seconds of the selections.
TimesOf(sel) == [i \in DOMAIN sel |-> Secs(sel[i].content)]

LEMMA TimesOfType ==
    ASSUME NEW T, \A x \in T : IsAtom(x.content), NEW sel \in Seq(T)
    PROVE  /\ TimesOf(sel) \in Seq(Int) /\ Len(TimesOf(sel)) = Len(sel)
           /\ \A i \in 1..Len(sel) : /\ TimesOf(sel)[i] = Secs(sel[i].content)
                                     /\ TimesOf(sel)[i] \in Nat
           /\ SelectionTime(sel) = Sum(TimesOf(sel))
           /\ SelectionTime(sel) \in Int
<1> DEFINE n == Len(sel)
           f == TimesOf(sel)
<1>1. n \in Nat /\ DOMAIN sel = 1..n  OBVIOUS
<1>2. \A i \in 1..n : f[i] = Secs(sel[i].content) /\ f[i] \in Nat
  BY <1>1, SecsIs DEF TimesOf
<1>3. f = [i \in 1..n |-> f[i]]  BY <1>1 DEF TimesOf
<1>4. SelectionTime(sel) = Sum(f)  BY DEF SelectionTime, TimesOf
<1> HIDE DEF f
<1>5. f \in Seq(Int) /\ Len(f) = n  BY <1>1, <1>2, <1>3
<1> QED  BY <1>2, <1>4, <1>5, SumType DEF f

\* One selection less, or one more.
LEMMA SelectionRemove ==
    ASSUME NEW T, \A x \in T : IsAtom(x.content), NEW sel \in Seq(T), NEW m \in 1..Len(sel)
    PROVE  SelectionTime(RemoveAt(sel, m)) = SelectionTime(sel) - Secs(sel[m].content)
<1> DEFINE n == Len(sel)
           u == RemoveAt(sel, m)
           f == TimesOf(sel)
           g == TimesOf(u)
           h == RemoveAt(f, m)
<1>1. n \in Nat /\ m \in 1..n  OBVIOUS
<1>2. u \in Seq(T) /\ Len(u) = n - 1
      /\ \A i \in 1..(n - 1) : u[i] = IF i < m THEN sel[i] ELSE sel[i + 1]
  BY RemovedAt
<1>3. /\ f \in Seq(Int) /\ Len(f) = n /\ SelectionTime(sel) = Sum(f)
      /\ \A i \in 1..n : f[i] = Secs(sel[i].content)
  BY TimesOfType
<1> HIDE DEF u
<1>4. /\ g \in Seq(Int) /\ Len(g) = n - 1 /\ SelectionTime(u) = Sum(g)
      /\ \A i \in 1..(n - 1) : g[i] = Secs(u[i].content)
  BY <1>2, TimesOfType
<1> HIDE DEF f, g
<1>5. h \in Seq(Int) /\ Len(h) = n - 1
      /\ \A i \in 1..(n - 1) : h[i] = IF i < m THEN f[i] ELSE f[i + 1]
  BY <1>1, <1>3, RemovedAt
<1>6. Sum(h) = Sum(f) - f[m]  BY <1>1, <1>3, SumRemove
<1> HIDE DEF h
<1>7. \A i \in 1..(n - 1) : g[i] = h[i]
  <2> SUFFICES ASSUME NEW i \in 1..(n - 1) PROVE g[i] = h[i]  OBVIOUS
  <2>1. i \in 1..n /\ i + 1 \in 1..n  BY <1>1
  <2>2. CASE i < m  BY <2>1, <2>2, <1>2, <1>3, <1>4, <1>5
  <2>3. CASE ~(i < m)  BY <2>1, <2>3, <1>2, <1>3, <1>4, <1>5
  <2> QED  BY <2>2, <2>3
<1>8. g = h  BY <1>4, <1>5, <1>7, SeqEqual
<1> QED  BY <1>1, <1>3, <1>4, <1>6, <1>8 DEF u

LEMMA SelectionAppend ==
    ASSUME NEW T, \A x \in T : IsAtom(x.content), NEW sel \in Seq(T), NEW x \in T
    PROVE  SelectionTime(Append(sel, x)) = SelectionTime(sel) + Secs(x.content)
<1> DEFINE n == Len(sel)
           u == Append(sel, x)
           f == TimesOf(sel)
           g == TimesOf(u)
           h == Append(f, Secs(x.content))
<1>1. n \in Nat /\ Secs(x.content) \in Int
  <2>1. Secs(x.content) \in Nat  BY SecsIs
  <2> QED  BY <2>1
<1>2. u \in Seq(T) /\ Len(u) = n + 1 /\ u[n + 1] = x /\ \A i \in 1..n : u[i] = sel[i]
  OBVIOUS
<1>3. /\ f \in Seq(Int) /\ Len(f) = n /\ SelectionTime(sel) = Sum(f)
      /\ \A i \in 1..n : f[i] = Secs(sel[i].content)
  BY TimesOfType
<1> HIDE DEF u
<1>4. /\ g \in Seq(Int) /\ Len(g) = n + 1 /\ SelectionTime(u) = Sum(g)
      /\ \A i \in 1..(n + 1) : g[i] = Secs(u[i].content)
  BY <1>2, TimesOfType
<1> HIDE DEF f, g
<1>5. h \in Seq(Int) /\ Len(h) = n + 1 /\ h[n + 1] = Secs(x.content)
      /\ \A i \in 1..n : h[i] = f[i]
  BY <1>1, <1>3
<1>6. Sum(h) = Sum(f) + Secs(x.content)  BY <1>1, <1>3, SumAppend
<1> HIDE DEF h
<1>7. \A i \in 1..(n + 1) : g[i] = h[i]
  <2> SUFFICES ASSUME NEW i \in 1..(n + 1) PROVE g[i] = h[i]  OBVIOUS
  <2>1. CASE i = n + 1  BY <2>1, <1>2, <1>4, <1>5
  <2>2. CASE i # n + 1
    <3>1. i \in 1..n  BY <2>2, <1>1
    <3> QED  BY <3>1, <1>2, <1>3, <1>4, <1>5
  <2> QED  BY <2>1, <2>2
<1>8. g = h  BY <1>4, <1>5, <1>7, SeqEqual
<1> QED  BY <1>3, <1>4, <1>6, <1>8 DEF u

\* In any order the selections take the same time.
LEMMA SelectionPermuted ==
    ASSUME NEW T, \A x \in T : IsAtom(x.content), NEW sel \in Seq(T),
           NEW p, Permutes(p, Len(sel))
    PROVE  /\ Picked(sel, p, Len(sel)) \in Seq(T)
           /\ Len(Picked(sel, p, Len(sel))) = Len(sel)
           /\ SelectionTime(Picked(sel, p, Len(sel))) = SelectionTime(sel)
<1> DEFINE n == Len(sel)
           u == Picked(sel, p, n)
           f == TimesOf(sel)
           g == TimesOf(u)
           h == Picked(f, p, n)
<1>1. n \in Nat /\ p \in [1..n -> 1..n]  BY DEF Permutes
<1>2. u \in Seq(T) /\ Len(u) = n /\ \A i \in 1..n : u[i] = sel[p[i]]
  <2>1. u = [i \in 1..n |-> sel[p[i]]]  BY DEF Picked
  <2>2. \A i \in 1..n : sel[p[i]] \in T  BY <1>1
  <2> HIDE DEF u
  <2> QED  BY <2>1, <2>2, <1>1
<1>3. /\ f \in Seq(Int) /\ Len(f) = n /\ SelectionTime(sel) = Sum(f)
      /\ \A i \in 1..n : f[i] = Secs(sel[i].content)
  BY TimesOfType
<1> HIDE DEF u
<1>4. /\ g \in Seq(Int) /\ Len(g) = n /\ SelectionTime(u) = Sum(g)
      /\ \A i \in 1..n : g[i] = Secs(u[i].content)
  BY <1>2, TimesOfType
<1> HIDE DEF f, g
<1>5. f \in [1..n -> Int]  BY <1>3
<1>6. h \in Seq(Int) /\ Len(h) = n /\ \A i \in 1..n : h[i] = f[p[i]]
  <2>1. h = [i \in 1..n |-> f[p[i]]]  BY DEF Picked
  <2>2. \A i \in 1..n : f[p[i]] \in Int  BY <1>1, <1>5
  <2> HIDE DEF h
  <2> QED  BY <2>1, <2>2, <1>1
<1>7. Sum(h) = Sum(f)  BY <1>1, <1>5, SumPermuted
<1> HIDE DEF h, n
<1>8. \A i \in 1..n : g[i] = h[i]
  <2> SUFFICES ASSUME NEW i \in 1..n PROVE g[i] = h[i]  OBVIOUS
  <2>1. p[i] \in 1..n  BY <1>1
  <2> QED  BY <2>1, <1>2, <1>3, <1>4, <1>6, ZenonT(30)
<1>9. g = h  BY <1>4, <1>6, <1>8, SeqEqual
<1> QED  BY <1>2, <1>3, <1>4, <1>7, <1>9 DEF n, u

\* A slot stays empty, or takes one of the selections left.
LEMMA PlaceSlotIs ==
    ASSUME NEW acc, acc = [items |-> acc.items, left |-> acc.left],
           Len(acc.left) \in Nat, DOMAIN acc.left = 1..Len(acc.left), NEW role \in Roles
    PROVE  \/ PlaceSlot(acc, role) = [items |-> Append(acc.items, EmptyItem(role)),
                                      left  |-> acc.left]
           \/ \E i \in 1..Len(acc.left) :
                  PlaceSlot(acc, role) = [items |-> Append(acc.items, ItemOf(acc.left[i], role)),
                                          left  |-> RemoveAt(acc.left, i)]
<1> DEFINE items == acc.items
           left == acc.left
<1> DEFINE InBand(b) == {i \in DOMAIN left : Band(left[i]) = BandsOf(role)[b]}
           open == {b \in DOMAIN BandsOf(role) : InBand(b) # {}}
           i == Min(InBand(Min(open)))
<1>1. /\ acc.items = items /\ acc.left = left /\ acc = [items |-> items, left |-> left]
      /\ Len(left) \in Nat /\ DOMAIN left = 1..Len(left)
  OBVIOUS
<1> HIDE DEF items, left
<1>2. CASE open = {}
  <2>1. PlaceSlot(acc, role) = [acc EXCEPT !.items = Append(@, EmptyItem(role))]
    BY <1>1, <1>2 DEF PlaceSlot
  <2>2. ASSUME NEW v, v = [acc EXCEPT !.items = Append(@, EmptyItem(role))]
        PROVE  v = [items |-> Append(items, EmptyItem(role)), left |-> left]
    BY <2>2, <1>1
  <2>3. PlaceSlot(acc, role) = [items |-> Append(items, EmptyItem(role)), left |-> left]
    BY <2>1, <2>2
  <2> QED  BY <2>3 DEF items, left
<1>3. CASE open # {}
  <2>1. open \subseteq Nat
    <3>1. DOMAIN BandsOf(role) \subseteq Nat
      <4>1. \/ BandsOf(role) = <<"easy">>         \/ BandsOf(role) = <<"medium", "easy">>
            \/ BandsOf(role) = <<"hard", "medium">> \/ BandsOf(role) = <<"very hard", "hard">>
        BY RolesAre DEF BandsOf
      <4>2. DOMAIN <<"easy">> = 1..1  OBVIOUS
      <4>3. /\ DOMAIN <<"medium", "easy">> = 1..2 /\ DOMAIN <<"hard", "medium">> = 1..2
            /\ DOMAIN <<"very hard", "hard">> = 1..2
        OBVIOUS
      <4>4. DOMAIN BandsOf(role) = 1..1 \/ DOMAIN BandsOf(role) = 1..2  BY <4>1, <4>2, <4>3
      <4>5. 1..1 \subseteq Nat /\ 1..2 \subseteq Nat  OBVIOUS
      <4> QED  BY <4>4, <4>5
    <3> QED  BY <3>1
  <2>2. PlaceSlot(acc, role) = [items |-> Append(items, ItemOf(left[i], role)),
                                left  |-> RemoveAt(left, i)]
    BY <1>1, <1>3 DEF PlaceSlot
  <2> DEFINE b == Min(open)
  <2>3. b \in open
    <3> HIDE DEF open
    <3> QED  BY <1>3, <2>1, MinIs
  <2>4. InBand(b) # {} /\ InBand(b) \subseteq 1..Len(left)
    <3> HIDE DEF b
    <3> QED  BY <2>3, <1>1
  <2>5. i \in 1..Len(left)
    <3> HIDE DEF InBand, b, open
    <3>1. InBand(b) \in SUBSET Nat  BY <2>4, <1>1
    <3>2. Min(InBand(b)) \in InBand(b)  BY <3>1, <2>4, MinIs
    <3> QED  BY <3>2, <2>4 DEF b
  <2> HIDE DEF i, open, InBand
  <2> QED  BY <2>2, <2>5 DEF items, left
<1> HIDE DEF open
<1> QED  BY <1>2, <1>3

LEMMA PlaceStepsRec ==
    ASSUME NEW sorted, NEW template, Len(template) \in Nat
    PROVE  /\ PlaceSteps(sorted, template)[0] = [items |-> << >>, left |-> sorted]
           /\ \A k \in 1..Len(template) :
                  PlaceSteps(sorted, template)[k]
                      = PlaceSlot(PlaceSteps(sorted, template)[k - 1], template[k])
<1> DEFINE n == Len(template)
           P(h, m) == h = [k \in 0..m |-> IF k = 0 THEN [items |-> << >>, left |-> sorted]
                                          ELSE PlaceSlot(h[k - 1], template[k])]
           S == {m \in Nat : \E h : P(h, m)}
<1>1. 0 \in S
  <2>1. P([k \in 0..0 |-> [items |-> << >>, left |-> sorted]], 0)  OBVIOUS
  <2> QED  BY <2>1
<1>2. \A m \in Nat : m \in S => m + 1 \in S
  <2> SUFFICES ASSUME NEW m \in Nat, m \in S PROVE m + 1 \in S  OBVIOUS
  <2>1. PICK h : P(h, m)  OBVIOUS
  <2> DEFINE g == [k \in 0..(m + 1) |-> IF k = m + 1 THEN PlaceSlot(h[m], template[m + 1])
                                        ELSE h[k]]
  <2>2. P(g, m + 1)  BY <2>1
  <2> HIDE DEF P
  <2> QED  BY <2>2
<1>3. n \in S
  <2> HIDE DEF S
  <2> QED  BY <1>1, <1>2, SetInduction
<1>4. P(PlaceSteps(sorted, template), n)
  <2>1. PICK h : P(h, n)  BY <1>3
  <2> QED  BY <2>1 DEF PlaceSteps
<1> QED  BY <1>4

\* The slots left empty, and the seconds of the others.
Empties(items) == {j \in DOMAIN items : items[j].content = NoContent}
Filled(item) == IF item.content = NoContent THEN 0 ELSE item.secs
FilledSecs(items) == [i \in DOMAIN items |-> Filled(items[i])]

\* Each slot has its role, and is empty or holds one of the selections.
Fills(item, role, T) == item = EmptyItem(role) \/ \E x \in T : item = ItemOf(x, role)
IsPlaced(items, T, template) ==
    /\ items \in Seq(Range(items))
    /\ Len(items) <= Len(template)
    /\ \A i \in 1..Len(items) : Fills(items[i], template[i], T)

\* No selection is lost between the items and what is left, and neither is
\* any of their time.
NoneLost(items, left, T) ==
    \A x \in T : \/ \E i \in 1..Len(items) : items[i].content = x.content
                 \/ \E i \in 1..Len(left) : left[i].content = x.content

Placing(items, left, sorted, T, template) ==
    /\ IsPlaced(items, T, template)
    /\ left \in Seq(T)
    /\ NoneLost(items, left, T)
    /\ Cardinality(Empties(items)) \in Nat
    /\ Len(items) + Len(left) = Len(sorted) + Cardinality(Empties(items))
    /\ Sum(FilledSecs(items)) + SelectionTime(left) = SelectionTime(sorted)

LEMMA PlacedItem ==
    ASSUME NEW T, \A x \in T : IsAtom(x.content), NEW template \in Seq(Roles),
           NEW items, IsPlaced(items, T, template), NEW i \in 1..Len(items)
    PROVE  /\ items[i].role = template[i] /\ items[i].secs \in Nat
           /\ items[i].content # NoContent =>
                  /\ IsItem(items[i])
                  /\ \E x \in T : items[i] = ItemOf(x, template[i])
<1>0. i \in 1..Len(template)  BY DEF IsPlaced
<1>1. CASE items[i] = EmptyItem(template[i])  BY <1>1 DEF EmptyItem
<1>2. CASE \E x \in T : items[i] = ItemOf(x, template[i])
  <2>1. PICK x \in T : items[i] = ItemOf(x, template[i])  BY <1>2
  <2>2. Secs(x.content) \in Nat /\ IsAtom(x.content)  BY SecsIs
  <2>3. template[i] \in Roles  BY <1>0
  <2> QED  BY <2>1, <2>2, <2>3 DEF ItemOf, IsItem
<1> QED  BY <1>1, <1>2 DEF IsPlaced, Fills

LEMMA FilledSecsType ==
    ASSUME NEW T, \A x \in T : IsAtom(x.content), NEW template \in Seq(Roles),
           NEW items, IsPlaced(items, T, template)
    PROVE  /\ FilledSecs(items) \in Seq(Int) /\ Len(FilledSecs(items)) = Len(items)
           /\ \A i \in 1..Len(items) : FilledSecs(items)[i] = Filled(items[i])
<1> DEFINE n == Len(items)
           f == FilledSecs(items)
<1>1. n \in Nat /\ DOMAIN items = 1..n  BY DEF IsPlaced
<1>2. \A i \in 1..n : f[i] = Filled(items[i])  BY <1>1 DEF FilledSecs
<1>3. f = [i \in 1..n |-> f[i]]  BY <1>1 DEF FilledSecs
<1>4. \A i \in 1..n : f[i] \in Int
  <2> SUFFICES ASSUME NEW i \in 1..n PROVE f[i] \in Int  OBVIOUS
  <2>1. items[i].secs \in Nat  BY PlacedItem
  <2> QED  BY <2>1, <1>2 DEF Filled
<1> HIDE DEF f
<1>5. f \in Seq(Int) /\ Len(f) = n  BY <1>1, <1>3, <1>4
<1> QED  BY <1>2, <1>5 DEF f

LEMMA AppendIs ==
    ASSUME NEW s, s \in Seq(Range(s)), NEW x
    PROVE  /\ Len(Append(s, x)) = Len(s) + 1 /\ DOMAIN Append(s, x) = 1..(Len(s) + 1)
           /\ Append(s, x) = [i \in 1..(Len(s) + 1) |-> Append(s, x)[i]]
           /\ Append(s, x)[Len(s) + 1] = x
           /\ \A i \in 1..Len(s) : Append(s, x)[i] = s[i]
<1> DEFINE T == Range(s) \cup {x}
<1>1. s \in Seq(T) /\ x \in T  OBVIOUS
<1> DEFINE u == Append(s, x)
<1>2. u \in Seq(T) /\ Len(u) = Len(s) + 1 /\ u[Len(s) + 1] = x /\ \A i \in 1..Len(s) : u[i] = s[i]
  BY <1>1, AppendProperties
<1> HIDE DEF T, u
<1>3. DOMAIN u = 1..Len(u) /\ u = [i \in 1..Len(u) |-> u[i]]  BY <1>2
<1>4. DOMAIN u = 1..(Len(s) + 1) /\ u = [i \in 1..(Len(s) + 1) |-> u[i]]  BY <1>2, <1>3
<1> QED  BY <1>2, <1>4 DEF u

\* One slot more.
PlacedAs(u, items, item, T, template) ==
    /\ IsPlaced(u, T, template)
    /\ Len(u) = Len(items) + 1 /\ u[Len(items) + 1] = item
    /\ \A i \in 1..Len(items) : u[i] = items[i]
    /\ item.content = NoContent => /\ Empties(u) = Empties(items) \cup {Len(items) + 1}
                                   /\ Len(items) + 1 \notin Empties(items)
    /\ item.content # NoContent => Empties(u) = Empties(items)
    /\ Sum(FilledSecs(u)) = Sum(FilledSecs(items)) + Filled(item)

LEMMA PlacedMore ==
    ASSUME NEW T, \A x \in T : IsAtom(x.content), NEW template \in Seq(Roles),
           NEW items, IsPlaced(items, T, template), Len(items) < Len(template),
           NEW item, Fills(item, template[Len(items) + 1], T),
           NEW u, u = Append(items, item)
    PROVE  PlacedAs(u, items, item, T, template)
<1> DEFINE n == Len(items)
           f == FilledSecs(items)
           g == FilledSecs(u)
           x == Filled(item)
           h == Append(f, x)
<1>1. n \in Nat /\ DOMAIN items = 1..n /\ Len(template) \in Nat  BY DEF IsPlaced
<1>2. Len(u) = n + 1 /\ u[n + 1] = item /\ (\A i \in 1..n : u[i] = items[i])
      /\ DOMAIN u = 1..(n + 1) /\ u = [i \in 1..(n + 1) |-> u[i]]
  <2>1. items \in Seq(Range(items))  BY DEF IsPlaced
  <2> QED  BY <2>1, AppendIs
<1>3. IsPlaced(u, T, template)
  <2>1. u \in Seq(Range(u))
    <3>1. n + 1 \in Nat  BY <1>1
    <3> QED  BY <3>1, <1>2, FunctionSeq
  <2>2. ASSUME NEW i \in 1..(n + 1) PROVE Fills(u[i], template[i], T)
    <3>1. CASE i = n + 1  BY <3>1, <1>2
    <3>2. CASE i # n + 1
      <4>1. i \in 1..n  BY <3>2, <1>1
      <4> QED  BY <4>1, <1>2 DEF IsPlaced
    <3> QED  BY <3>1, <3>2
  <2>3. Len(u) <= Len(template)  BY <1>1, <1>2
  <2> QED  BY <2>1, <2>2, <2>3, <1>2 DEF IsPlaced
<1>4. /\ item.content = NoContent => /\ Empties(u) = Empties(items) \cup {n + 1}
                                     /\ n + 1 \notin Empties(items)
      /\ item.content # NoContent => Empties(u) = Empties(items)
  <2>1. 1..(n + 1) = (1..n) \cup {n + 1} /\ n + 1 \notin 1..n  BY <1>1
  <2> HIDE DEF n
  <2> QED  BY <2>1, <1>1, <1>2 DEF Empties
<1>5. Sum(g) = Sum(f) + x
  <2>1. f \in Seq(Int) /\ Len(f) = n /\ \A i \in 1..n : f[i] = Filled(items[i])
    BY FilledSecsType
  <2>2. u[n + 1].secs \in Nat  BY <1>1, <1>2, <1>3, PlacedItem
  <2>3. x \in Int  BY <2>2, <1>2 DEF Filled
  <2>4. g \in Seq(Int) /\ Len(g) = n + 1
        /\ \A i \in 1..(n + 1) : g[i] = Filled(u[i])
    BY <1>2, <1>3, FilledSecsType, ZenonT(30)
  <2> HIDE DEF f, g
  <2>5. h \in Seq(Int) /\ Len(h) = n + 1 /\ h[n + 1] = x /\ \A i \in 1..n : h[i] = f[i]
    BY <1>1, <2>1, <2>3
  <2>6. Sum(h) = Sum(f) + x  BY <2>1, <2>3, SumAppend
  <2> HIDE DEF h
  <2>7. \A i \in 1..(n + 1) : g[i] = h[i]
    <3> SUFFICES ASSUME NEW i \in 1..(n + 1) PROVE g[i] = h[i]  OBVIOUS
    <3>1. CASE i = n + 1  BY <3>1, <1>2, <2>4, <2>5
    <3>2. CASE i # n + 1
      <4>1. i \in 1..n  BY <3>2, <1>1
      <4> QED  BY <4>1, <1>2, <2>1, <2>4, <2>5
    <3> QED  BY <3>1, <3>2
  <2>8. g = h  BY <2>4, <2>5, <2>7, SeqEqual
  <2> QED  BY <2>6, <2>8
<1> QED  BY <1>2, <1>3, <1>4, <1>5 DEF PlacedAs

LEMMA EmptiesFinite ==
    ASSUME NEW items, Len(items) \in Nat, DOMAIN items = 1..Len(items)
    PROVE  IsFiniteSet(Empties(items)) /\ Cardinality(Empties(items)) \in Nat
<1>1. IsFiniteSet(1..Len(items))  BY FS_Interval
<1>2. Empties(items) \subseteq 1..Len(items)  BY DEF Empties
<1> QED  BY <1>1, <1>2, FS_Subset, FS_CardinalityType

\* The two steps of the first pass.
LeftEmpty(u, items, template) ==
    u = Append(items, EmptyItem(template[Len(items) + 1]))
Chosen(u, v, items, left, m, template) ==
    /\ u = Append(items, ItemOf(left[m], template[Len(items) + 1]))
    /\ v = RemoveAt(left, m)

LEMMA PlacingEmpty ==
    ASSUME NEW T, \A x \in T : IsAtom(x.content), NEW sorted \in Seq(T),
           NEW template \in Seq(Roles), NEW items, NEW left,
           Placing(items, left, sorted, T, template), Len(items) < Len(template),
           NEW u, LeftEmpty(u, items, template)
    PROVE  Placing(u, left, sorted, T, template) /\ Len(u) = Len(items) + 1
<1> DEFINE n == Len(items)
           item == EmptyItem(template[n + 1])
<1>0. u = Append(items, item)  BY DEF LeftEmpty
<1>1. IsPlaced(items, T, template) /\ n \in Nat /\ DOMAIN items = 1..n
  BY DEF Placing, IsPlaced
<1>2. IsFiniteSet(Empties(items))  BY <1>1, EmptiesFinite
<1>3. item.content = NoContent /\ Filled(item) = 0  BY DEF EmptyItem, Filled
<1>4. Fills(item, template[n + 1], T)  BY DEF Fills
<1> HIDE DEF item
<1>5. PlacedAs(u, items, item, T, template)  BY <1>0, <1>1, <1>4, PlacedMore
<1>6. Cardinality(Empties(u)) = Cardinality(Empties(items)) + 1
  <2>1. Empties(u) = Empties(items) \cup {n + 1} /\ n + 1 \notin Empties(items)
    BY <1>3, <1>5 DEF PlacedAs
  <2> QED  BY <2>1, <1>2, FS_AddElement
<1>7. NoneLost(u, left, T)
  <2> SUFFICES ASSUME NEW x \in T
               PROVE  \/ \E i \in 1..Len(u) : u[i].content = x.content
                      \/ \E i \in 1..Len(left) : left[i].content = x.content
    BY DEF NoneLost
  <2>1. CASE \E i \in 1..n : items[i].content = x.content
    <3>1. PICK i \in 1..n : items[i].content = x.content  BY <2>1
    <3>2. i \in 1..Len(u) /\ u[i] = items[i]  BY <3>1, <1>1, <1>5 DEF PlacedAs
    <3> QED  BY <3>1, <3>2
  <2>2. CASE \E i \in 1..Len(left) : left[i].content = x.content  BY <2>2
  <2> QED  BY <2>1, <2>2 DEF Placing, NoneLost
<1>8. Sum(FilledSecs(u)) = Sum(FilledSecs(items))
  <2>1. FilledSecs(items) \in Seq(Int)  BY <1>1, FilledSecsType
  <2>2. Sum(FilledSecs(items)) \in Int  BY <2>1, SumType
  <2>3. Sum(FilledSecs(u)) = Sum(FilledSecs(items)) + 0  BY <1>3, <1>5 DEF PlacedAs
  <2> QED  BY <2>2, <2>3
<1>9. /\ Cardinality(Empties(u)) \in Nat
      /\ Len(u) + Len(left) = Len(sorted) + Cardinality(Empties(u))
  <2> DEFINE e == Cardinality(Empties(items))
             f == Cardinality(Empties(u))
             k == Len(left)
             m == Len(sorted)
  <2>1. e \in Nat /\ n + k = m + e /\ f = e + 1 /\ Len(u) = n + 1
    BY <1>5, <1>6 DEF Placing, PlacedAs
  <2>2. k \in Nat /\ n \in Nat /\ m \in Nat  BY <1>1 DEF Placing
  <2> HIDE DEF e, f, k, m, n
  <2>3. f \in Nat /\ (n + 1) + k = m + f  BY <2>1, <2>2
  <2> QED  BY <2>1, <2>3 DEF f, k, m
<1>10. IsPlaced(u, T, template) /\ Len(u) = n + 1  BY <1>5 DEF PlacedAs
<1> QED  BY <1>7, <1>8, <1>9, <1>10 DEF Placing

LEMMA PlacingChosen ==
    ASSUME NEW T, \A x \in T : IsAtom(x.content), NEW sorted \in Seq(T),
           NEW template \in Seq(Roles), NEW items, NEW left,
           Placing(items, left, sorted, T, template), Len(items) < Len(template),
           NEW m \in 1..Len(left), NEW u, NEW v, Chosen(u, v, items, left, m, template)
    PROVE  Placing(u, v, sorted, T, template) /\ Len(u) = Len(items) + 1
<1> DEFINE n == Len(items)
           c == left[m].content
           item == ItemOf(left[m], template[n + 1])
<1>0. u = Append(items, item) /\ v = RemoveAt(left, m)  BY DEF Chosen
<1>1. /\ IsPlaced(items, T, template) /\ n \in Nat /\ DOMAIN items = 1..n
      /\ left \in Seq(T) /\ Len(left) \in Nat /\ left[m] \in T
  BY DEF Placing, IsPlaced
<1>2. IsAtom(c) /\ Secs(c) \in Nat  BY <1>1, SecsIs
<1>3. item.content = c /\ item.content # NoContent /\ Filled(item) = Secs(c)
  BY <1>2 DEF ItemOf, Filled, IsAtom
<1>4. Fills(item, template[n + 1], T)  BY <1>1 DEF Fills
<1> HIDE DEF item
<1>5. PlacedAs(u, items, item, T, template)  BY <1>0, <1>1, <1>4, PlacedMore
<1>6. Empties(u) = Empties(items)  BY <1>3, <1>5 DEF PlacedAs
<1>7. v \in Seq(T) /\ Len(v) = Len(left) - 1
      /\ \A i \in 1..(Len(left) - 1) : v[i] = IF i < m THEN left[i] ELSE left[i + 1]
  BY <1>0, <1>1, RemovedAt
<1>8. NoneLost(u, v, T)
  <2> SUFFICES ASSUME NEW x \in T
               PROVE  \/ \E i \in 1..Len(u) : u[i].content = x.content
                      \/ \E i \in 1..Len(v) : v[i].content = x.content
    BY DEF NoneLost
  <2>1. CASE \E i \in 1..n : items[i].content = x.content
    <3>1. PICK i \in 1..n : items[i].content = x.content  BY <2>1
    <3>2. i \in 1..Len(u) /\ u[i] = items[i]  BY <3>1, <1>1, <1>5 DEF PlacedAs
    <3> QED  BY <3>1, <3>2
  <2>2. CASE \E i \in 1..Len(left) : left[i].content = x.content
    <3>1. PICK i \in 1..Len(left) : left[i].content = x.content  BY <2>2
    <3>2. CASE i = m
      <4>1. n + 1 \in 1..Len(u) /\ u[n + 1] = item  BY <1>1, <1>5 DEF PlacedAs
      <4>2. u[n + 1].content = x.content  BY <4>1, <3>1, <3>2, <1>3
      <4> QED  BY <4>1, <4>2
    <3>3. CASE i < m
      <4>1. i \in 1..Len(v) /\ v[i] = left[i]  BY <3>1, <3>3, <1>1, <1>7
      <4> QED  BY <4>1, <3>1
    <3>4. CASE i > m
      <4>1. i - 1 \in 1..Len(v) /\ ~(i - 1 < m) /\ (i - 1) + 1 = i  BY <3>1, <3>4, <1>1, <1>7
      <4>2. v[i - 1] = left[i]  BY <4>1, <1>7
      <4> QED  BY <4>1, <4>2, <3>1
    <3> QED  BY <3>1, <3>2, <3>3, <3>4, <1>1
  <2> QED  BY <2>1, <2>2 DEF Placing, NoneLost
<1>9. Sum(FilledSecs(u)) + SelectionTime(v) = SelectionTime(sorted)
  <2>1. FilledSecs(items) \in Seq(Int)  BY <1>1, FilledSecsType
  <2>2. Sum(FilledSecs(items)) \in Int /\ SelectionTime(left) \in Int
    BY <2>1, <1>1, SumType, TimesOfType
  <2>3. Sum(FilledSecs(u)) = Sum(FilledSecs(items)) + Secs(c)  BY <1>3, <1>5 DEF PlacedAs
  <2>4. SelectionTime(v) = SelectionTime(left) - Secs(c)  BY <1>0, <1>1, SelectionRemove
  <2>5. Sum(FilledSecs(items)) + SelectionTime(left) = SelectionTime(sorted)  BY DEF Placing
  <2>6. \A a, b, d \in Int : (a + d) + (b - d) = a + b  OBVIOUS
  <2> QED  BY <2>2, <2>3, <2>4, <2>5, <2>6, <1>2
<1>10. /\ Cardinality(Empties(u)) \in Nat
       /\ Len(u) + Len(v) = Len(sorted) + Cardinality(Empties(u))
  <2> DEFINE e == Cardinality(Empties(items))
             k == Len(left)
             l == Len(sorted)
  <2>1. e \in Nat /\ n + k = l + e /\ Len(u) = n + 1
    BY <1>5 DEF Placing, PlacedAs
  <2>2. k \in Nat /\ n \in Nat /\ l \in Nat  BY <1>1 DEF Placing
  <2> HIDE DEF e, k, l, n
  <2>3. (n + 1) + (k - 1) = l + e  BY <2>1, <2>2
  <2> QED  BY <2>1, <2>3, <1>6, <1>7 DEF e, k, l
<1>11. IsPlaced(u, T, template) /\ Len(u) = n + 1  BY <1>5 DEF PlacedAs
<1> QED  BY <1>7, <1>8, <1>9, <1>10, <1>11 DEF Placing

\* After the first pass every slot has been looked at.
LEMMA PlacedAll ==
    ASSUME NEW T, \A x \in T : IsAtom(x.content), NEW sorted \in Seq(T), T = Range(sorted),
           NEW template \in Seq(Roles), Len(template) = Len(sorted)
    PROVE  LET placed == PlaceSteps(sorted, template)[Len(template)]
           IN  /\ placed = [items |-> placed.items, left |-> placed.left]
               /\ Placing(placed.items, placed.left, sorted, T, template)
               /\ Len(placed.items) = Len(template)
<1> DEFINE n == Len(template)
           A == PlaceSteps(sorted, template)
           Good(k) == /\ A[k] = [items |-> A[k].items, left |-> A[k].left]
                      /\ Placing(A[k].items, A[k].left, sorted, T, template)
                      /\ Len(A[k].items) = k
           S == {k \in 0..n : Good(k)}
<1>1. n \in Nat  OBVIOUS
<1>2. A[0] = [items |-> << >>, left |-> sorted]
      /\ \A k \in 1..n : A[k] = PlaceSlot(A[k - 1], template[k])
  BY <1>1, PlaceStepsRec
<1> HIDE DEF A
<1>3. Good(0)
  <2>1. A[0].items = << >> /\ A[0].left = sorted  BY <1>2
  <2>2. Placing(<< >>, sorted, sorted, T, template)
    <3>1. IsPlaced(<< >>, T, template)  BY DEF IsPlaced
    <3>2. NoneLost(<< >>, sorted, T)
      <4> SUFFICES ASSUME NEW x \in T
                   PROVE  \E i \in 1..Len(sorted) : sorted[i].content = x.content
        BY DEF NoneLost
      <4>1. PICK i \in DOMAIN sorted : sorted[i] = x  BY DEF Range
      <4>2. i \in 1..Len(sorted)  OBVIOUS
      <4> QED  BY <4>1, <4>2
    <3>3. Empties(<< >>) = {}  BY DEF Empties
    <3>4. Cardinality(Empties(<< >>)) = 0  BY <3>3, FS_EmptySet
    <3>5. FilledSecs(<< >>) = << >>  BY DEF FilledSecs
    <3>6. Sum(FilledSecs(<< >>)) = 0  BY <3>5, SumEmpty
    <3>7. SelectionTime(sorted) \in Int  BY TimesOfType
    <3>8. Len(sorted) \in Nat /\ Len(<< >>) = 0  OBVIOUS
    <3>9. 0 + SelectionTime(sorted) = SelectionTime(sorted) /\ 0 + Len(sorted) = Len(sorted) + 0
      BY <3>7, <3>8
    <3> QED  BY <3>1, <3>2, <3>4, <3>6, <3>8, <3>9 DEF Placing
  <2> QED  BY <1>2, <2>1, <2>2
<1>4. ASSUME NEW k \in 1..n, Good(k - 1) PROVE Good(k)
  <2> DEFINE acc == A[k - 1]
             items == acc.items
             left == acc.left
             role == template[k]
  <2>1. /\ acc = [items |-> items, left |-> left]
        /\ Placing(items, left, sorted, T, template) /\ Len(items) = k - 1
    BY <1>4
  <2>2. A[k] = PlaceSlot(acc, role)  BY <1>2
  <2>3. Len(items) < Len(template) /\ role \in Roles /\ Len(items) + 1 = k  BY <2>1
  <2> HIDE DEF acc, role
  <2>4. left \in Seq(T)  BY <2>1 DEF Placing
  <2>5. Len(left) \in Nat /\ DOMAIN left = 1..Len(left)
    <3> HIDE DEF left
    <3> QED  BY <2>4
  <2> HIDE DEF items, left
  <2>6. CASE A[k] = [items |-> Append(items, EmptyItem(role)), left |-> left]
    <3>1. A[k].items = Append(items, EmptyItem(role)) /\ A[k].left = left  BY <2>6
    <3>2. Placing(A[k].items, left, sorted, T, template) /\ Len(A[k].items) = k
      <4> DEFINE u == A[k].items
      <4>1. LeftEmpty(u, items, template)  BY <3>1, <2>3 DEF role, LeftEmpty
      <4> HIDE DEF u
      <4>2. Placing(u, left, sorted, T, template) /\ Len(u) = Len(items) + 1
        BY <4>1, <2>1, <2>3, PlacingEmpty
      <4>3. Placing(u, left, sorted, T, template) /\ Len(u) = k  BY <4>2, <2>3
      <4> QED  BY <4>3 DEF u
    <3> QED  BY <2>6, <3>1, <3>2
  <2>7. CASE \E m \in 1..Len(left) : A[k] = [items |-> Append(items, ItemOf(left[m], role)),
                                             left  |-> RemoveAt(left, m)]
    <3>0. PICK m \in 1..Len(left) : A[k] = [items |-> Append(items, ItemOf(left[m], role)),
                                            left  |-> RemoveAt(left, m)]
      BY <2>7
    <3>1. A[k].items = Append(items, ItemOf(left[m], role)) /\ A[k].left = RemoveAt(left, m)
      BY <3>0
    <3>2. Placing(A[k].items, A[k].left, sorted, T, template) /\ Len(A[k].items) = k
      <4> DEFINE u == A[k].items
                 v == A[k].left
      <4>1. Chosen(u, v, items, left, m, template)  BY <3>1, <2>3 DEF role, Chosen
      <4> HIDE DEF u, v
      <4>2. Placing(u, v, sorted, T, template) /\ Len(u) = Len(items) + 1
        BY <4>1, <2>1, <2>3, PlacingChosen
      <4>3. Placing(u, v, sorted, T, template) /\ Len(u) = k  BY <4>2, <2>3
      <4> QED  BY <4>3 DEF u, v
    <3> QED  BY <3>0, <3>1, <3>2
  <2> HIDE DEF Good
  <2>8. \/ A[k] = [items |-> Append(items, EmptyItem(role)), left |-> left]
        \/ \E m \in 1..Len(left) : A[k] = [items |-> Append(items, ItemOf(left[m], role)),
                                           left  |-> RemoveAt(left, m)]
    <3>1. acc.items = items /\ acc.left = left  BY DEF items, left
    <3> QED  BY <3>1, <2>1, <2>2, <2>3, <2>5, PlaceSlotIs
  <2> QED  BY <2>6, <2>7, <2>8
<1>5. Good(n)
  <2> HIDE DEF Good
  <2>1. 0 \in S /\ \A k \in 1..n : k - 1 \in S => k \in S  BY <1>1, <1>3, <1>4
  <2> HIDE DEF S
  <2>2. 0..n \subseteq S  BY <1>1, <2>1, BoundedInduction
  <2>3. n \in S  BY <1>1, <2>2
  <2> QED  BY <2>3 DEF S
<1> QED  BY <1>5 DEF A

\* The empty slots before an item and with it, and their numbers.
EmptyUpTo(items, i) == {j \in 1..i : items[j].content = NoContent}

LEMMA EmptiesNumbered ==
    ASSUME NEW items, NEW n \in Nat, Len(items) = n, DOMAIN items = 1..n
    PROVE  /\ \A i \in Empties(items) :
                  Cardinality(EmptyUpTo(items, i)) \in 1..Cardinality(Empties(items))
           /\ \A k \in 1..Cardinality(Empties(items)) :
                  \E i \in Empties(items) : Cardinality(EmptyUpTo(items, i)) = k
           /\ Cardinality(EmptyUpTo(items, 0)) = 0
           /\ Cardinality(EmptyUpTo(items, n)) = Cardinality(Empties(items))
           /\ \A i \in 1..n :
                  /\ Cardinality(EmptyUpTo(items, i - 1)) \in Nat
                  /\ items[i].content = NoContent =>
                         Cardinality(EmptyUpTo(items, i)) = Cardinality(EmptyUpTo(items, i - 1)) + 1
                  /\ items[i].content # NoContent =>
                         Cardinality(EmptyUpTo(items, i)) = Cardinality(EmptyUpTo(items, i - 1))
<1> DEFINE K == Empties(items)
           D == [i \in K |-> {j \in K : j <= i}]
<1>1. IsFiniteSet(K) /\ Cardinality(K) \in Nat  BY EmptiesFinite
<1>2. K \subseteq 1..n  BY DEF Empties
<1>3. /\ D \in [K -> SUBSET K] /\ \A i \in K : i \in D[i]
      /\ \A i, j \in K : i # j => \/ D[i] \subseteq D[j] /\ j \notin D[i]
                                  \/ D[j] \subseteq D[i] /\ i \notin D[j]
  <2> HIDE DEF K
  <2>1. \A i \in K : i \in Int  BY <1>2
  <2>2. D \in [K -> SUBSET K] /\ \A i \in K : i \in D[i]  BY <2>1
  <2>3. ASSUME NEW i \in K, NEW j \in K, i # j
        PROVE  \/ D[i] \subseteq D[j] /\ j \notin D[i]
               \/ D[j] \subseteq D[i] /\ i \notin D[j]
    <3>1. CASE i < j  BY <3>1, <2>1
    <3>2. CASE j < i  BY <3>2, <2>1
    <3> QED  BY <3>1, <3>2, <2>1, <2>3
  <2> QED  BY <2>2, <2>3
<1>4. \A i \in K : D[i] = EmptyUpTo(items, i)
  <2> SUFFICES ASSUME NEW i \in K PROVE {j \in K : j <= i} = EmptyUpTo(items, i)  OBVIOUS
  <2> QED  BY <1>2 DEF EmptyUpTo, Empties
<1> HIDE DEF D, K
<1>5. /\ \A k \in 1..Cardinality(K) : \E i \in K : Cardinality(D[i]) = k
      /\ \A i \in K : Cardinality(D[i]) \in 1..Cardinality(K)
  BY <1>1, <1>3, Ranked
<1>6. \A k \in 1..Cardinality(K) : \E i \in K : Cardinality(EmptyUpTo(items, i)) = k
  <2> SUFFICES ASSUME NEW k \in 1..Cardinality(K)
               PROVE  \E i \in K : Cardinality(EmptyUpTo(items, i)) = k
    OBVIOUS
  <2>1. PICK i \in K : Cardinality(D[i]) = k  BY <1>5
  <2> QED  BY <2>1, <1>4
<1>7. Cardinality(EmptyUpTo(items, 0)) = 0
  <2>1. EmptyUpTo(items, 0) = {}  BY DEF EmptyUpTo
  <2> QED  BY <2>1, FS_EmptySet
<1>8. EmptyUpTo(items, n) = K  BY DEF EmptyUpTo, Empties, K
<1>9. ASSUME NEW i \in 1..n
      PROVE  LET A == EmptyUpTo(items, i - 1)
                 B == EmptyUpTo(items, i)
             IN  /\ Cardinality(A) \in Nat
                 /\ items[i].content = NoContent => Cardinality(B) = Cardinality(A) + 1
                 /\ items[i].content # NoContent => Cardinality(B) = Cardinality(A)
  <2> DEFINE A == EmptyUpTo(items, i - 1)
             B == EmptyUpTo(items, i)
  <2>1. IsFiniteSet(A) /\ Cardinality(A) \in Nat
    <3>1. IsFiniteSet(1..(i - 1))  BY FS_Interval
    <3>2. A \subseteq 1..(i - 1)  BY DEF EmptyUpTo
    <3> QED  BY <3>1, <3>2, FS_Subset, FS_CardinalityType
  <2>2. 1..i = (1..(i - 1)) \cup {i} /\ i \notin 1..(i - 1)  OBVIOUS
  <2>3. items[i].content = NoContent => B = A \cup {i} /\ i \notin A  BY <2>2 DEF EmptyUpTo
  <2>4. items[i].content # NoContent => B = A  BY <2>2 DEF EmptyUpTo
  <2> HIDE DEF A, B
  <2>5. items[i].content = NoContent => Cardinality(B) = Cardinality(A) + 1
    BY <2>1, <2>3, FS_AddElement
  <2> QED  BY <2>1, <2>4, <2>5 DEF A, B
<1>10. \A i \in K : Cardinality(EmptyUpTo(items, i)) \in 1..Cardinality(K)  BY <1>4, <1>5
<1> QED  BY <1>6, <1>7, <1>8, <1>9, <1>10 DEF K

\* The second pass fills the empty slots with what is left, all of it.
Refilled(items, left, template) ==
    [i \in 1..Len(items) |->
        IF items[i].content = NoContent
        THEN ItemOf(left[Cardinality(EmptyUpTo(items, i))], template[i])
        ELSE items[i]]

LEMMA PlaceItemsIs ==
    ASSUME NEW sorted, NEW template, NEW items, NEW left, NEW n \in Nat,
           PlaceSteps(sorted, template)[Len(template)] = [items |-> items, left |-> left],
           Len(items) = n, DOMAIN items = 1..n, Len(left) = Cardinality(Empties(items))
    PROVE  PlaceItems(sorted, template) = Refilled(items, left, template)
<1> DEFINE placed == PlaceSteps(sorted, template)[Len(template)]
           Nth(i) == Cardinality(EmptyUpTo(items, i))
<1>1. placed.items = items /\ placed.left = left  OBVIOUS
<1>2. PlaceItems(sorted, template) =
          [i \in 1..n |-> IF items[i].content = NoContent /\ Nth(i) <= Len(left)
                          THEN ItemOf(left[Nth(i)], template[i]) ELSE items[i]]
  BY <1>1 DEF PlaceItems, EmptyUpTo
<1>3. \A i \in Empties(items) : Nth(i) \in 1..Len(left)  BY EmptiesNumbered
<1>4. \A i \in 1..n : items[i].content = NoContent => Nth(i) <= Len(left)
  BY <1>3 DEF Empties
<1> HIDE DEF Nth
<1>5. PlaceItems(sorted, template) =
          [i \in 1..n |-> IF items[i].content = NoContent
                          THEN ItemOf(left[Nth(i)], template[i]) ELSE items[i]]
  BY <1>2, <1>4
<1> QED  BY <1>5 DEF Refilled, Nth

\* What PlaceItems makes of the selections: an item for each of them, with
\* the roles of the template.
Whole(w, sorted, T, template) ==
    /\ IsItems(w) /\ Len(w) = Len(sorted)
    /\ \A i \in 1..Len(w) : w[i].role = template[i]
    /\ \A i \in 1..Len(w) : \E x \in T : w[i].content = x.content
    /\ \A x \in T : \E i \in 1..Len(w) : w[i].content = x.content
    /\ TotalTime(w) = SelectionTime(sorted)

LEMMA RefilledWhole ==
    ASSUME NEW T, \A x \in T : IsAtom(x.content), NEW sorted \in Seq(T),
           NEW template \in Seq(Roles), Len(template) = Len(sorted),
           NEW items, NEW left, Placing(items, left, sorted, T, template),
           Len(items) = Len(template)
    PROVE  Whole(Refilled(items, left, template), sorted, T, template)
<1> DEFINE n == Len(items)
           w == Refilled(items, left, template)
           Nth(i) == Cardinality(EmptyUpTo(items, i))
           e == Cardinality(Empties(items))
           F == PartialSums(FilledSecs(items))
           L == PartialSums(TimesOf(left))
           f == [i \in 0..n |-> F[i] + L[Nth(i)]]
<1>1. /\ IsPlaced(items, T, template) /\ n \in Nat /\ DOMAIN items = 1..n
      /\ left \in Seq(T) /\ e \in Nat /\ Len(template) = n
  BY DEF Placing, IsPlaced
<1>2. Len(left) = e
  <2> DEFINE k == Len(left)
  <2>1. n + k = n + e /\ k \in Nat  BY <1>1 DEF Placing
  <2> HIDE DEF n, k, e
  <2> QED  BY <2>1, <1>1 DEF k
<1>3. w = [i \in 1..n |-> IF items[i].content = NoContent
                          THEN ItemOf(left[Nth(i)], template[i]) ELSE items[i]]
  BY DEF Refilled
<1>4. /\ \A i \in Empties(items) : Nth(i) \in 1..e
      /\ \A k \in 1..e : \E i \in Empties(items) : Nth(i) = k
      /\ Nth(0) = 0 /\ Nth(n) = e
      /\ \A i \in 1..n :
             /\ Nth(i - 1) \in Nat
             /\ items[i].content = NoContent => Nth(i) = Nth(i - 1) + 1
             /\ items[i].content # NoContent => Nth(i) = Nth(i - 1)
  BY <1>1, EmptiesNumbered
<1>5. \A i \in 1..n : i \in Empties(items) <=> items[i].content = NoContent
  BY <1>1 DEF Empties
<1> HIDE DEF w, Nth, e
<1>6. DOMAIN w = 1..n /\ w = [i \in 1..n |-> w[i]]  BY <1>3
<1>7. w \in Seq(Range(w)) /\ Len(w) = n  BY <1>1, <1>6, FunctionSeq
<1>8. ASSUME NEW i \in 1..n
      PROVE  /\ IsItem(w[i]) /\ w[i].role = template[i]
             /\ \E x \in T : w[i].content = x.content
             /\ items[i].content = NoContent =>
                    /\ left[Nth(i)] \in T /\ w[i].content = left[Nth(i)].content
                    /\ w[i].secs = Secs(left[Nth(i)].content)
             /\ items[i].content # NoContent => w[i] = items[i]
  <2>1. CASE items[i].content = NoContent
    <3> DEFINE x == left[Nth(i)]
    <3>1. x \in T
      <4>1. Nth(i) \in 1..Len(left)  BY <2>1, <1>2, <1>4, <1>5
      <4> QED  BY <4>1, <1>1
    <3>2. w[i] = ItemOf(x, template[i])  BY <2>1, <1>3
    <3> HIDE DEF x
    <3>3. IsAtom(x.content) /\ Secs(x.content) \in Nat  BY <3>1, SecsIs
    <3>4. template[i] \in Roles  BY <1>1
    <3>5. IsItem(w[i]) /\ w[i].role = template[i] /\ w[i].content = x.content
          /\ w[i].secs = Secs(x.content)
      BY <3>2, <3>3, <3>4 DEF ItemOf, IsItem
    <3> QED  BY <3>1, <3>5, <2>1 DEF x
  <2>2. CASE items[i].content # NoContent
    <3>1. w[i] = items[i]  BY <2>2, <1>3
    <3>2. /\ items[i].role = template[i] /\ IsItem(items[i])
          /\ \E x \in T : items[i] = ItemOf(x, template[i])
      BY <2>2, <1>1, PlacedItem
    <3>3. PICK x \in T : items[i] = ItemOf(x, template[i])  BY <3>2
    <3>4. items[i].content = x.content  BY <3>3 DEF ItemOf
    <3> QED  BY <3>1, <3>2, <3>4, <2>2
  <2> QED  BY <2>1, <2>2
<1>9. IsItems(w)  BY <1>7, <1>8 DEF IsItems
<1>10. ASSUME NEW x \in T PROVE \E i \in 1..n : w[i].content = x.content
  <2>1. CASE \E i \in 1..n : items[i].content = x.content
    <3>1. PICK i \in 1..n : items[i].content = x.content  BY <2>1
    <3>2. items[i].content # NoContent  BY <3>1 DEF IsAtom
    <3>3. w[i].content = x.content  BY <3>1, <3>2, <1>8
    <3> QED  BY <3>3
  <2>2. CASE \E k \in 1..Len(left) : left[k].content = x.content
    <3>1. PICK k \in 1..e : left[k].content = x.content  BY <2>2, <1>2
    <3>2. PICK i \in Empties(items) : Nth(i) = k  BY <1>4
    <3>3. i \in 1..n /\ items[i].content = NoContent  BY <3>2, <1>1 DEF Empties
    <3>4. w[i].content = x.content  BY <3>1, <3>2, <3>3, <1>8
    <3> QED  BY <3>3, <3>4
  <2> QED  BY <2>1, <2>2 DEF Placing, NoneLost
<1>11. /\ FilledSecs(items) \in Seq(Int) /\ Len(FilledSecs(items)) = n
       /\ \A i \in 1..n : FilledSecs(items)[i] = Filled(items[i])
  BY <1>1, FilledSecsType
<1>12. /\ TimesOf(left) \in Seq(Int) /\ Len(TimesOf(left)) = e
       /\ \A k \in 1..e : TimesOf(left)[k] = Secs(left[k].content)
       /\ SelectionTime(left) = Sum(TimesOf(left))
  BY <1>1, <1>2, TimesOfType
<1>13. F[0] = 0 /\ (\A i \in 1..n : F[i] = F[i - 1] + Filled(items[i]))
       /\ F[n] = Sum(FilledSecs(items)) /\ \A i \in 0..n : F[i] \in Int
  BY <1>11, <1>1, PartialSumsRec, SumPrefix DEF Sum
<1>14. L[0] = 0 /\ (\A k \in 1..e : L[k] = L[k - 1] + Secs(left[k].content))
       /\ L[e] = SelectionTime(left) /\ \A k \in 0..e : L[k] \in Int
  <2> DEFINE t == TimesOf(left)
  <2>1. t \in Seq(Int) /\ Len(t) = e /\ e \in Nat  BY <1>1, <1>12
  <2> HIDE DEF t
  <2>2. PartialSums(t)[0] = 0 /\ \A k \in 1..e : PartialSums(t)[k] = PartialSums(t)[k - 1] + t[k]
    BY <2>1, PartialSumsRec
  <2>3. \A k \in 0..e : PartialSums(t)[k] \in Int  BY <2>1, SumPrefix
  <2>4. PartialSums(t)[e] = Sum(t)  BY <2>1 DEF Sum
  <2>5. L = PartialSums(t)  BY DEF t
  <2>6. \A k \in 1..e : t[k] = Secs(left[k].content)  BY <1>12 DEF t
  <2>7. Sum(t) = SelectionTime(left)  BY <1>12 DEF t
  <2> HIDE DEF L
  <2> QED  BY <2>2, <2>3, <2>4, <2>5, <2>6, <2>7
<1> HIDE DEF F, L, f
<1>15. f[0] = 0
  <2>1. f[0] = F[0] + L[Nth(0)]  BY <1>1 DEF f
  <2> QED  BY <2>1, <1>4, <1>13, <1>14
<1>16. ASSUME NEW i \in 1..n PROVE f[i] = f[i - 1] + w[i].secs
  <2>1. f[i] = F[i] + L[Nth(i)] /\ f[i - 1] = F[i - 1] + L[Nth(i - 1)]  BY <1>1 DEF f
  <2>2. F[i] = F[i - 1] + Filled(items[i]) /\ F[i - 1] \in Int  BY <1>1, <1>13
  <2>3. CASE items[i].content = NoContent
    <3>1. Nth(i) \in 1..e /\ Nth(i - 1) = Nth(i) - 1  BY <2>3, <1>4, <1>5
    <3>2. L[Nth(i)] = L[Nth(i) - 1] + Secs(left[Nth(i)].content)  BY <3>1, <1>14
    <3>3. Nth(i) - 1 \in 0..e /\ Nth(i) \in 0..e  BY <3>1, <1>1
    <3>4. L[Nth(i) - 1] \in Int /\ L[Nth(i)] \in Int  BY <3>3, <1>14
    <3>5. Filled(items[i]) = 0 /\ w[i].secs = Secs(left[Nth(i)].content)
      BY <2>3, <1>8 DEF Filled
    <3>6. w[i].secs \in Int  BY <1>8 DEF IsItem
    <3> DEFINE a == L[Nth(i) - 1]
               b == L[Nth(i)]
    <3>7. b = a + w[i].secs /\ a \in Int /\ f[i] = F[i] + b /\ f[i - 1] = F[i - 1] + a
          /\ F[i] = F[i - 1]
      BY <3>1, <3>2, <3>4, <3>5, <2>1, <2>2
    <3> HIDE DEF a, b
    <3> QED  BY <3>6, <3>7, <2>2
  <2>4. CASE items[i].content # NoContent
    <3>1. Nth(i) = Nth(i - 1) /\ w[i] = items[i] /\ Filled(items[i]) = items[i].secs
      BY <2>4, <1>4, <1>8 DEF Filled
    <3>2. w[i].secs \in Int  BY <1>8 DEF IsItem
    <3>3. L[Nth(i)] \in Int
      <4>1. Nth(i - 1) \in Nat  BY <1>4
      <4>2. Nth(i) <= e
        <5> DEFINE S == {k \in 0..(n - i) : Nth(i) <= Nth(i + k)}
        <5>1. 0 \in S  BY <3>1, <4>1, <1>1
        <5>2. \A k \in 1..(n - i) : k - 1 \in S => k \in S
          <6> SUFFICES ASSUME NEW k \in 1..(n - i), k - 1 \in S PROVE Nth(i) <= Nth(i + k)
            OBVIOUS
          <6>1. i + k \in 1..n /\ (i + k) - 1 = i + (k - 1)  BY <1>1
          <6>2. Nth(i) <= Nth(i + (k - 1))  OBVIOUS
          <6>3. Nth((i + k) - 1) \in Nat
                /\ (Nth(i + k) = Nth((i + k) - 1) \/ Nth(i + k) = Nth((i + k) - 1) + 1)
            BY <6>1, <1>4
          <6>4. Nth(i) \in Nat  BY <3>1, <4>1
          <6> QED  BY <6>1, <6>2, <6>3, <6>4
        <5> HIDE DEF S
        <5>3. n - i \in Nat /\ n - i \in 0..(n - i)  BY <1>1
        <5>4. n - i \in S  BY <5>1, <5>2, <5>3, BoundedInduction
        <5>5. Nth(i) <= Nth(i + (n - i))  BY <5>4 DEF S
        <5>6. i + (n - i) = n  BY <1>1
        <5> QED  BY <5>5, <5>6, <1>4
      <4>3. Nth(i) \in 0..e  BY <3>1, <4>1, <4>2, <1>1
      <4> QED  BY <4>3, <1>14
    <3> DEFINE b == L[Nth(i)]
    <3>4. b \in Int /\ f[i] = F[i] + b /\ f[i - 1] = F[i - 1] + b /\ F[i] = F[i - 1] + w[i].secs
      BY <3>1, <3>3, <2>1, <2>2
    <3> HIDE DEF b
    <3> QED  BY <3>2, <3>4, <2>2
  <2> QED  BY <2>3, <2>4
<1>17. TotalTime(w) = SelectionTime(sorted)
  <2> DEFINE s == SecsOf(w)
  <2>1. /\ s \in Seq(Int) /\ Len(s) = n /\ TotalTime(w) = Sum(s)
        /\ \A i \in 1..n : s[i] = w[i].secs
    BY <1>7, <1>9, SecsOfType
  <2> HIDE DEF s
  <2>2. \A i \in 1..Len(s) : f[i] = f[i - 1] + s[i]  BY <2>1, <1>16
  <2>3. Sum(s) = f[n]  BY <2>1, <2>2, <1>15, SumIs
  <2>4. f[n] = F[n] + L[e]  BY <1>1, <1>4 DEF f
  <2>5. Sum(FilledSecs(items)) + SelectionTime(left) = SelectionTime(sorted)  BY DEF Placing
  <2> QED  BY <2>1, <2>3, <2>4, <2>5, <1>13, <1>14
<1>18. Len(w) = Len(sorted)  BY <1>7
<1> QED  BY <1>7, <1>8, <1>9, <1>10, <1>17, <1>18 DEF Whole, w

-----------------------------------------------------------------------------
(* Composing                                                               *)

IsSelections(sel) == sel \in Seq(Range(sel)) /\ \A x \in Range(sel) : IsAtom(x.content)

\* A composed session: sound, and made of all the selections.
ComposedFrom(s, sel, minutes) ==
    /\ Sound(s) /\ s.budget = 60 * minutes
    /\ Len(s.items) = Len(sel)
    /\ \A i \in 1..Len(sel) : \E k \in 1..Len(sel) : s.items[i].content = sel[k].content
    /\ \A k \in 1..Len(sel) : \E i \in 1..Len(sel) : s.items[i].content = sel[k].content
    /\ s.total = SelectionTime(sel)

LEMMA ComposeSound ==
    ASSUME NEW sel, IsSelections(sel), NEW minutes \in Int, NEW segment
    PROVE  ComposedFrom(ComposeSession(sel, minutes, segment), sel, minutes)
<1> DEFINE n == Len(sel)
           T == Range(sel)
           s == ComposeSession(sel, minutes, segment)
           template == Template(n, segment, minutes)
           sorted == EasiestFirst(sel)
           items == IF sel = << >> THEN << >> ELSE PlaceItems(sorted, template)
<1>1. sel \in Seq(T) /\ n \in Nat /\ DOMAIN sel = 1..n /\ \A x \in T : IsAtom(x.content)
  BY DEF IsSelections
<1>2. /\ s.items = items /\ s.budget = 60 * minutes /\ s.total = TotalTime(items)
      /\ s = [items |-> s.items, budget |-> s.budget, total |-> s.total]
  BY DEF ComposeSession
<1> HIDE DEF s
<1>3. \A k \in 1..n : sel[k] \in T  BY <1>1
<1>4. \A x \in T : \E k \in 1..n : sel[k] = x
  <2> SUFFICES ASSUME NEW x \in T PROVE \E k \in 1..n : sel[k] = x  OBVIOUS
  <2>1. PICK k \in DOMAIN sel : sel[k] = x  BY DEF Range
  <2> QED  BY <2>1, <1>1
<1>5. /\ IsItems(items) /\ WarmFirst(items) /\ Len(items) = n
      /\ \A i \in 1..n : \E x \in T : items[i].content = x.content
      /\ \A x \in T : \E i \in 1..n : items[i].content = x.content
      /\ TotalTime(items) = SelectionTime(sel)
  <2>1. CASE sel = << >>
    <3>1. items = << >> /\ n = 0  BY <2>1
    <3>2. IsItems(<< >>) /\ WarmFirst(<< >>) /\ Len(<< >>) = 0  BY DEF IsItems, WarmFirst
    <3>3. TotalTime(<< >>) = SelectionTime(<< >>)  BY DEF TotalTime, SelectionTime
    <3>4. \A x \in T : FALSE  BY <1>4, <3>1
    <3> HIDE DEF items, T, n
    <3> QED  BY <2>1, <3>1, <3>2, <3>3, <3>4
  <2>2. CASE sel # << >>
    <3>1. \A i \in 1..n : sel[i].content.diff \in Int  BY <1>1, <1>3 DEF IsAtom
    <3>2. PICK p : Permutes(p, n) /\ sorted = Picked(sel, p, n)
      BY <1>1, <3>1, EasiestFirstIs
    <3>3. sorted \in Seq(T) /\ Len(sorted) = n /\ SelectionTime(sorted) = SelectionTime(sel)
      BY <1>1, <3>2, SelectionPermuted
    <3>4. \A i \in 1..n : sorted[i] = sel[p[i]]  BY <3>2 DEF Picked
    <3>5. T = Range(sorted)
      <4>1. ASSUME NEW x \in T PROVE x \in Range(sorted)
        <5>1. PICK k \in 1..n : sel[k] = x  BY <1>4
        <5>2. PICK i \in 1..n : p[i] = k  BY <3>2 DEF Permutes, Reaches
        <5>3. sorted[i] = x /\ i \in DOMAIN sorted  BY <5>1, <5>2, <3>3, <3>4
        <5> QED  BY <5>3 DEF Range
      <4>2. ASSUME NEW x \in Range(sorted) PROVE x \in T
        <5>1. PICK i \in DOMAIN sorted : sorted[i] = x  BY DEF Range
        <5> QED  BY <5>1, <3>3
      <4> QED  BY <4>1, <4>2
    <3>6. template \in Seq(Roles) /\ Len(template) = n
          /\ \A i, j \in 1..n : i < j /\ template[j] = "warmup" => template[i] = "warmup"
      BY <1>1, TemplateIs DEF IsTemplate
    <3> HIDE DEF sorted, template, T, n
    <3> DEFINE placed == PlaceSteps(sorted, template)[Len(template)]
    <3>7. /\ placed = [items |-> placed.items, left |-> placed.left]
          /\ Placing(placed.items, placed.left, sorted, T, template)
          /\ Len(placed.items) = Len(template)
      BY <1>1, <3>3, <3>5, <3>6, PlacedAll
    <3> DEFINE u == placed.items
               v == placed.left
    <3>8. /\ placed = [items |-> u, left |-> v] /\ Placing(u, v, sorted, T, template)
          /\ Len(u) = Len(template)
      BY <3>7
    <3> HIDE DEF u, v, placed
    <3>9. Whole(Refilled(u, v, template), sorted, T, template)
      BY <1>1, <3>3, <3>6, <3>8, RefilledWhole
    <3>10. items = Refilled(u, v, template)
      <4>1. DOMAIN u = 1..n /\ Len(u) = n  BY <3>6, <3>8 DEF Placing, IsPlaced
      <4>2. Len(v) = Cardinality(Empties(u))
        <5> DEFINE k == Len(v)
                   e == Cardinality(Empties(u))
        <5>1. n + k = n + e /\ k \in Nat /\ e \in Nat  BY <4>1, <3>3, <3>8 DEF Placing
        <5> HIDE DEF k, e
        <5> QED  BY <5>1, <1>1 DEF k, e
      <4>3. PlaceSteps(sorted, template)[Len(template)] = [items |-> u, left |-> v]
        BY <3>8 DEF placed
      <4>4. PlaceItems(sorted, template) = Refilled(u, v, template)
        BY <4>1, <4>2, <4>3, <1>1, PlaceItemsIs
      <4> QED  BY <4>4, <2>2
    <3> HIDE DEF items
    <3>11. Whole(items, sorted, T, template)  BY <3>9, <3>10
    <3>12. WarmFirst(items)
      <4>1. Len(items) = n /\ \A i \in 1..n : items[i].role = template[i]
        BY <3>3, <3>6, <3>11 DEF Whole
      <4>2. \A i, j \in 1..n :
              i < j /\ template[j] = "warmup" => template[i] = "warmup"
        BY <3>6
      <4> QED  BY <4>1, <4>2, Zenon DEF WarmFirst
    <3> QED  BY <3>3, <3>11, <3>12 DEF Whole
  <2> QED  BY <2>1, <2>2
<1> HIDE DEF items, T
<1>6. Sound(s)
  <2>1. TotalTime(items) \in Int /\ 60 * minutes \in Int  BY <1>5, SecsOfType
  <2> QED  BY <2>1, <1>2, <1>5 DEF Sound, IsSession
<1>7. ASSUME NEW i \in 1..n PROVE \E k \in 1..n : s.items[i].content = sel[k].content
  <2>1. PICK x \in T : items[i].content = x.content  BY <1>5
  <2>2. PICK k \in 1..n : sel[k] = x  BY <1>4
  <2> QED  BY <2>1, <2>2, <1>2
<1>8. ASSUME NEW k \in 1..n PROVE \E i \in 1..n : s.items[i].content = sel[k].content
  BY <1>2, <1>3, <1>5
<1> QED  BY <1>2, <1>5, <1>6, <1>7, <1>8 DEF ComposedFrom, s

-----------------------------------------------------------------------------
(* Adapting                                                                *)

\* t is s but for its i-th item, which keeps its role, and for its total.
Altered(s, t, i) ==
    /\ Len(t.items) = Len(s.items)
    /\ t.budget = s.budget
    /\ \A j \in 1..Len(s.items) : j # i => t.items[j] = s.items[j]
    /\ t.items[i].role = s.items[i].role

\* With another i-th item of the same role.
WithItem(items, i, x) == [items EXCEPT ![i] = x]

LEMMA ItemReplaced ==
    ASSUME NEW items, IsItems(items), NEW i \in 1..Len(items),
           NEW x, IsItem(x), x.role = items[i].role
    PROVE  /\ IsItems(WithItem(items, i, x)) /\ Len(WithItem(items, i, x)) = Len(items)
           /\ WithItem(items, i, x)[i] = x
           /\ \A j \in 1..Len(items) : j # i => WithItem(items, i, x)[j] = items[j]
<1> DEFINE u == WithItem(items, i, x)
<1>1. Len(items) \in Nat /\ DOMAIN items = 1..Len(items)  BY ItemsLength
<1>2. DOMAIN u = 1..Len(items) /\ u = [j \in 1..Len(items) |-> u[j]]
      /\ u[i] = x /\ \A j \in 1..Len(items) : j # i => u[j] = items[j]
  BY <1>1 DEF WithItem
<1> HIDE DEF u
<1>3. u \in Seq(Range(u)) /\ Len(u) = Len(items)  BY <1>1, <1>2, FunctionSeq
<1>4. \A j \in 1..Len(u) : IsItem(u[j])  BY <1>2, <1>3 DEF IsItems
<1> QED  BY <1>2, <1>3, <1>4 DEF IsItems, u

Hinted(s, i) == [s EXCEPT !.items[i].hint = 1]

LEMMA HintedIs ==
    ASSUME NEW s, IsSession(s), NEW i \in 1..Len(s.items)
    PROVE  /\ IsSession(Hinted(s, i)) /\ Altered(s, Hinted(s, i), i)
           /\ Hinted(s, i).items[i].content = s.items[i].content
           /\ Hinted(s, i).items[i].hint = 1
<1> DEFINE items == s.items
           x == [items[i] EXCEPT !.hint = 1]
           u == [items EXCEPT ![i] = x]
           t == Hinted(s, i)
<1>1. t = [items |-> u, budget |-> s.budget, total |-> s.total]
  <2>1. s = [items |-> s.items, budget |-> s.budget, total |-> s.total]  BY DEF IsSession
  <2>2. ASSUME NEW v, v = [s EXCEPT !.items[i].hint = 1]
        PROVE  v = [items |-> u, budget |-> s.budget, total |-> s.total]
    BY <2>1, <2>2
  <2> QED  BY <2>2 DEF Hinted
<1>2. IsItems(items) /\ i \in 1..Len(items)  BY DEF IsSession
<1>3. IsItem(items[i])  BY <1>2 DEF IsItems
<1>4. IsItem(x) /\ x.role = items[i].role /\ x.content = items[i].content /\ x.hint = 1
  BY <1>3 DEF IsItem
<1> HIDE DEF items, x, t
<1>5. u = WithItem(items, i, x)  BY DEF WithItem
<1> HIDE DEF u
<1>6. /\ IsItems(u) /\ Len(u) = Len(items) /\ u[i] = x
      /\ \A j \in 1..Len(items) : j # i => u[j] = items[j]
  BY <1>2, <1>4, <1>5, ItemReplaced
<1>7. t.items = u /\ t.budget = s.budget /\ t.total = s.total
      /\ t = [items |-> t.items, budget |-> t.budget, total |-> t.total]
  BY <1>1
<1>8. IsSession(t)  BY <1>6, <1>7 DEF IsSession
<1>9. Altered(s, t, i)  BY <1>4, <1>6, <1>7 DEF Altered, items
<1> QED  BY <1>4, <1>6, <1>7, <1>8, <1>9 DEF items, t

LEMMA ReplaceIs ==
    ASSUME NEW s, IsSession(s), NEW i \in 1..Len(s.items),
           NEW atom, IsAtom(atom), NEW hint \in 0..1
    PROVE  /\ IsSession(Replace(s, i, atom, hint)) /\ Altered(s, Replace(s, i, atom, hint), i)
           /\ Replace(s, i, atom, hint).items[i].content = atom
           /\ Replace(s, i, atom, hint).items[i].hint = hint
<1> DEFINE items == s.items
           x == [content |-> atom, skill |-> FirstSkill(atom), role |-> items[i].role,
                 hint |-> hint, secs |-> Secs(atom)]
           u == [items EXCEPT ![i] = x]
           total == s.total + Secs(atom) - items[i].secs
           t == Replace(s, i, atom, hint)
<1>1. t = [items |-> u, budget |-> s.budget, total |-> total]
  <2>1. s = [items |-> s.items, budget |-> s.budget, total |-> s.total]  BY DEF IsSession
  <2>2. ASSUME NEW v, v = [s EXCEPT !.items[i] = [content |-> atom, skill |-> FirstSkill(atom),
                                                  role |-> @.role, hint |-> hint,
                                                  secs |-> Secs(atom)],
                                    !.total = @ + Secs(atom) - s.items[i].secs]
        PROVE  v = [items |-> u, budget |-> s.budget, total |-> total]
    BY <2>1, <2>2
  <2> QED  BY <2>2 DEF Replace
<1>2. IsItems(items) /\ i \in 1..Len(items)  BY DEF IsSession
<1>3. IsItem(items[i])  BY <1>2 DEF IsItems
<1>4. Secs(atom) \in Nat  BY SecsIs
<1>5. IsItem(x) /\ x.role = items[i].role /\ x.content = atom /\ x.hint = hint
  BY <1>3, <1>4 DEF IsItem
<1>6. total \in Int  BY <1>3, <1>4 DEF IsSession, IsItem
<1> HIDE DEF items, x, t, total
<1>7. u = WithItem(items, i, x)  BY DEF WithItem
<1> HIDE DEF u
<1>8. /\ IsItems(u) /\ Len(u) = Len(items) /\ u[i] = x
      /\ \A j \in 1..Len(items) : j # i => u[j] = items[j]
  BY <1>2, <1>5, <1>7, ItemReplaced
<1>9. t.items = u /\ t.budget = s.budget /\ t.total = total
      /\ t = [items |-> t.items, budget |-> t.budget, total |-> t.total]
  BY <1>1
<1>10. IsSession(t)  BY <1>6, <1>8, <1>9 DEF IsSession
<1>11. Altered(s, t, i)  BY <1>5, <1>8, <1>9 DEF Altered, items
<1> QED  BY <1>5, <1>8, <1>9, <1>10, <1>11 DEF items, t

\* Recounting the total makes the session sound again.
Recounted(s) == [s EXCEPT !.total = TotalTime(s.items)]

LEMMA RecountedSound ==
    ASSUME NEW s, Sound(s), NEW t, IsSession(t), NEW i \in 1..Len(s.items), Altered(s, t, i)
    PROVE  /\ Sound(Recounted(t)) /\ Altered(s, Recounted(t), i)
           /\ Recounted(t).items = t.items
<1> DEFINE v == Recounted(t)
<1>1. /\ v.items = t.items /\ v.budget = t.budget /\ v.total = TotalTime(t.items)
      /\ v = [items |-> v.items, budget |-> v.budget, total |-> v.total]
  <2>1. t = [items |-> t.items, budget |-> t.budget, total |-> t.total]  BY DEF IsSession
  <2>2. ASSUME NEW w, w = [t EXCEPT !.total = TotalTime(t.items)]
        PROVE  w = [items |-> t.items, budget |-> t.budget, total |-> TotalTime(t.items)]
    BY <2>1, <2>2
  <2>3. v = [items |-> t.items, budget |-> t.budget, total |-> TotalTime(t.items)]
    BY <2>2 DEF Recounted
  <2> HIDE DEF v
  <2> QED  BY <2>3
<1> HIDE DEF v
<1>2. IsSession(v)
  <2>1. TotalTime(t.items) \in Int  BY SecsOfType DEF IsSession
  <2> QED  BY <2>1, <1>1 DEF IsSession
<1>3. Altered(s, v, i)  BY <1>1 DEF Altered
<1>4. WarmFirst(t.items)
  <2>1. \A j \in 1..Len(s.items) : t.items[j].role = s.items[j].role  BY DEF Altered
  <2>2. Len(t.items) = Len(s.items)  BY DEF Altered
  <2> QED  BY <2>1, <2>2 DEF WarmFirst, Sound
<1> QED  BY <1>1, <1>2, <1>3, <1>4 DEF Sound, v

\* The pool of variants.
IsPool(pool) ==
    /\ Len(pool) \in Nat /\ DOMAIN pool = 1..Len(pool)
    /\ \A i \in 1..Len(pool) : IsAtom(pool[i])

\* What a struggling learner gets.
LEMMA StrugglingIs ==
    ASSUME NEW s, Sound(s), NEW done \in Nat, done < Len(s.items), NEW answered,
           NEW pool, IsPool(pool)
    PROVE  LET t == AdaptForStruggling(s, done, answered, pool)
           IN  /\ IsSession(t) /\ Altered(s, t, done + 1)
               /\ t.items[done + 1].content.diff <= s.items[done + 1].content.diff
               /\ t.items[done + 1].hint = 1
<1> DEFINE i == done + 1
           next == s.items[i]
           easier == {j \in DOMAIN pool : /\ pool[j].diff < Smaller(next.content.diff, 40)
                                          /\ Contains(pool[j].skills, Last(answered).skill)}
           t == AdaptForStruggling(s, done, answered, pool)
<1>1. IsSession(s) /\ i \in 1..Len(s.items)
  <2>1. Len(s.items) \in Nat  BY ItemsLength DEF Sound, IsSession
  <2> QED  BY <2>1 DEF Sound
<1>2. next.content.diff \in Int  BY <1>1 DEF IsSession, IsItems, IsItem, IsAtom
<1>3. t = IF easier = {} THEN Hinted(s, i) ELSE Replace(s, i, HardestIn(pool, easier), 1)
  BY DEF AdaptForStruggling, Hinted
<1>4. easier \subseteq 1..Len(pool)  BY DEF IsPool
<1>5. \A j \in easier : pool[j].diff \in Int /\ pool[j].diff < next.content.diff
  <2> SUFFICES ASSUME NEW j \in easier PROVE pool[j].diff \in Int /\ pool[j].diff < next.content.diff
    OBVIOUS
  <2>1. pool[j].diff \in Int  BY <1>4 DEF IsPool, IsAtom
  <2>2. pool[j].diff < Smaller(next.content.diff, 40)  OBVIOUS
  <2> QED  BY <2>1, <2>2, <1>2 DEF Smaller
<1> HIDE DEF easier, t, i
<1>6. CASE easier = {}
  <2>1. t = Hinted(s, i)  BY <1>3, <1>6
  <2>2. /\ IsSession(t) /\ Altered(s, t, i) /\ t.items[i].content = s.items[i].content
        /\ t.items[i].hint = 1
    BY <2>1, <1>1, HintedIs
  <2>3. t.items[i].content.diff <= s.items[i].content.diff  BY <2>2, <1>2
  <2> QED  BY <2>2, <2>3 DEF i, t
<1>7. CASE easier # {}
  <2> DEFINE atom == HardestIn(pool, easier)
  <2>1. PICK j \in easier : atom = pool[j]
    <3>1. \A j \in 1..Len(pool) : pool[j].diff \in Int  BY DEF IsPool, IsAtom
    <3>2. Len(pool) \in Nat  BY DEF IsPool
    <3> QED  BY <3>1, <3>2, <1>4, <1>7, HardestIs
  <2>2. IsAtom(atom) /\ atom.diff \in Int /\ atom.diff < next.content.diff
    BY <2>1, <1>4, <1>5 DEF IsPool
  <2>3. t = Replace(s, i, atom, 1)  BY <1>3, <1>7
  <2> HIDE DEF atom
  <2>4. /\ IsSession(t) /\ Altered(s, t, i) /\ t.items[i].content = atom
        /\ t.items[i].hint = 1
    BY <2>2, <2>3, <1>1, ReplaceIs
  <2>5. t.items[i].content.diff <= s.items[i].content.diff  BY <2>2, <2>4, <1>2
  <2> QED  BY <2>4, <2>5 DEF i, t
<1> QED  BY <1>6, <1>7

\* What a learner gets who is coasting.
LEMMA CoastingIs ==
    ASSUME NEW s, Sound(s), NEW done \in Nat, NEW pool, IsPool(pool),
           Hardenable(s, done, pool) # {}
    PROVE  LET t == AdaptForCoasting(s, done, pool)
           IN  \E i \in (done + 1)..Len(s.items) :
                   /\ IsSession(t) /\ Altered(s, t, i)
                   /\ t.items[i].content.diff >= s.items[i].content.diff
<1> DEFINE H == Hardenable(s, done, pool)
           i == Min(H)
           harder == HarderFor(s, i, pool)
           atom == HardestIn(pool, harder)
           t == AdaptForCoasting(s, done, pool)
<1>1. IsSession(s) /\ Len(s.items) \in Nat  BY ItemsLength DEF Sound, IsSession
<1>2. \A k \in H : k \in (done + 1)..Len(s.items) /\ HarderFor(s, k, pool) # {}
  BY DEF Hardenable
<1>3. i \in H
  <2> HIDE DEF H
  <2>1. H \in SUBSET Nat  BY <1>1, <1>2
  <2>2. H # {}  BY DEF H
  <2> QED  BY <2>1, <2>2, MinIs
<1>4. i \in (done + 1)..Len(s.items) /\ i \in 1..Len(s.items) /\ harder # {}
  <2> HIDE DEF H, i
  <2> QED  BY <1>1, <1>2, <1>3
<1>5. t = Replace(s, i, atom, 0)  BY DEF AdaptForCoasting
<1>6. harder \subseteq 1..Len(pool)
      /\ \A j \in harder : pool[j].diff >= s.items[i].content.diff + 15
  BY DEF HarderFor, IsPool
<1> HIDE DEF i, H, harder, t
<1>7. PICK j \in harder : atom = pool[j]
  <2>1. \A j \in 1..Len(pool) : pool[j].diff \in Int  BY DEF IsPool, IsAtom
  <2>2. Len(pool) \in Nat  BY DEF IsPool
  <2> QED  BY <2>1, <2>2, <1>4, <1>6, HardestIs
<1>8. IsAtom(atom) /\ atom.diff \in Int /\ atom.diff >= s.items[i].content.diff + 15
  BY <1>6, <1>7 DEF IsPool, IsAtom
<1>9. s.items[i].content.diff \in Int  BY <1>1, <1>4 DEF IsSession, IsItems, IsItem, IsAtom
<1> HIDE DEF atom
<1>10. IsSession(t) /\ Altered(s, t, i) /\ t.items[i].content = atom
  BY <1>1, <1>4, <1>5, <1>8, ReplaceIs
<1>11. t.items[i].content.diff >= s.items[i].content.diff  BY <1>8, <1>9, <1>10
<1> QED  BY <1>4, <1>10, <1>11 DEF t

-----------------------------------------------------------------------------
(* Selecting                                                               *)

\* The content that may be selected: the catalogue, without what was seen.
Unseen(in) == {c \in Range(in.content) : c.id \notin in.seen}

LEMMA KeptIn ==
    ASSUME NEW T, NEW U, NEW s \in Seq(T), NEW I \in SUBSET DOMAIN s,
           \A i \in I : s[i] \in U
    PROVE  Kept(s, I) \in Seq(U)
<1>1. Len(s) \in Nat /\ DOMAIN s = 1..Len(s)  OBVIOUS
<1>2. PICK g \in [1..Cardinality(I) -> I] :
          /\ Kept(s, I) = [k \in 1..Cardinality(I) |-> s[g[k]]]
          /\ Cardinality(I) \in Nat
  BY <1>1, KeptPlaces
<1>3. \A k \in 1..Cardinality(I) : s[g[k]] \in U  BY <1>2
<1> QED  BY <1>2, <1>3

LEMMA FilterIs ==
    ASSUME NEW in \in Inputs
    PROVE  /\ FilterContent(in) \in Seq(Unseen(in))
           /\ \A c \in Unseen(in) : IsAtom(c)
<1> DEFINE C == Range(in.content)
           I == {i \in DOMAIN in.content : in.content[i].id \notin in.seen}
           unseen == Kept(in.content, I)
           J == {i \in DOMAIN unseen : SegmentMatch(unseen[i], in.segment)}
           fit == Kept(unseen, J)
<1>1. in.content \in Seq(C) /\ \A c \in C : IsAtom(c)  BY InputsAssumption
<1>2. unseen \in Seq(Unseen(in))
  <2>1. \A i \in I : in.content[i] \in Unseen(in)  BY DEF Unseen, Range
  <2>2. I \in SUBSET DOMAIN in.content  OBVIOUS
  <2> HIDE DEF I, C
  <2> QED  BY <1>1, <2>1, <2>2, KeptIn
<1> HIDE DEF unseen
<1>3. fit \in Seq(Unseen(in))
  <2>1. \A i \in J : unseen[i] \in Unseen(in)  BY <1>2
  <2>2. J \in SUBSET DOMAIN unseen  OBVIOUS
  <2> HIDE DEF J
  <2> QED  BY <1>2, <2>1, <2>2, KeptIn
<1>4. FilterContent(in) = IF Len(fit) >= 5 THEN fit ELSE unseen  BY DEF FilterContent, unseen
<1>5. FilterContent(in) \in Seq(Unseen(in))  BY <1>2, <1>3, <1>4
<1> QED  BY <1>1, <1>5 DEF Unseen

LEMMA SumAtLeast ==
    ASSUME NEW s \in Seq(Int), \A i \in 1..Len(s) : s[i] >= 1
    PROVE  Sum(s) >= Len(s)
<1> DEFINE n == Len(s)
           g == PartialSums(s)
           S == {i \in 0..n : g[i] >= i}
<1>1. n \in Nat /\ \A i \in 1..n : s[i] \in Int  OBVIOUS
<1>2. g[0] = 0 /\ \A i \in 1..n : g[i] = g[i - 1] + s[i]  BY PartialSumsRec
<1>3. \A i \in 0..n : g[i] \in Int  BY SumPrefix
<1> HIDE DEF g
<1>4. 0 \in S  BY <1>1, <1>2
<1>5. \A k \in 1..n : k - 1 \in S => k \in S
  <2> SUFFICES ASSUME NEW k \in 1..n, k - 1 \in S PROVE g[k] >= k  OBVIOUS
  <2>1. g[k - 1] >= k - 1 /\ g[k] = g[k - 1] + s[k] /\ g[k - 1] \in Int
    BY <1>1, <1>2, <1>3
  <2>2. s[k] \in Int /\ s[k] >= 1  BY <1>1
  <2> QED  BY <2>1, <2>2
<1> HIDE DEF S
<1>6. n \in S
  <2>1. n \in 0..n  BY <1>1
  <2> QED  BY <2>1, <1>1, <1>4, <1>5, BoundedInduction
<1> QED  BY <1>6 DEF S, Sum, g

\* A session has from five to twenty items.
LEMMA EstimateIs ==
    ASSUME NEW in \in Inputs, NEW content \in Seq(Unseen(in)), content # << >>
    PROVE  EstimateItemCount(in, content) \in 5..20
<1> DEFINE n == Len(content)
           f == [i \in DOMAIN content |-> Secs(content[i])]
           mean == Sum(f) \div n
           x == Budget(in) \div mean
<1>1. n \in Nat /\ n > 0 /\ DOMAIN content = 1..n  OBVIOUS
<1>2. \A i \in 1..n : Secs(content[i]) \in Nat /\ Secs(content[i]) > 0
  <2> SUFFICES ASSUME NEW i \in 1..n PROVE Secs(content[i]) \in Nat /\ Secs(content[i]) > 0
    OBVIOUS
  <2>1. content[i] \in Unseen(in)  OBVIOUS
  <2> QED  BY <2>1, FilterIs, SecsIs
<1>3. f \in Seq(Int) /\ Len(f) = n /\ \A i \in 1..n : f[i] >= 1
  <2>1. \A i \in 1..n : Secs(content[i]) \in Int /\ Secs(content[i]) >= 1  BY <1>2
  <2>2. f = [i \in 1..n |-> Secs(content[i])]  BY <1>1
  <2> HIDE DEF n, f
  <2> QED  BY <2>1, <2>2, <1>1
<1> HIDE DEF f
<1>4. Sum(f) \in Int /\ Sum(f) >= n  BY <1>3, SumType, SumAtLeast
<1>5. mean \in Int /\ mean >= 1
  <2>1. \A a, b \in Int : b > 0 /\ a >= b => a \div b \in Int /\ a \div b >= 1  OBVIOUS
  <2> QED  BY <2>1, <1>1, <1>4
<1>6. EstimateItemCount(in, content) = Smaller(20, Larger(5, x))
  BY DEF EstimateItemCount, f
<1> HIDE DEF mean
<1>7. Budget(in) \in Int  BY InputsAssumption DEF Budget
<1>8. x \in Int
  <2>1. \A a, b \in Int : b > 0 => a \div b \in Int  OBVIOUS
  <2> QED  BY <2>1, <1>5, <1>7
<1> HIDE DEF x
<1> QED  BY <1>6, <1>8 DEF Smaller, Larger

\* Selections from C, no atom twice.
IsPick(x, C) == x.content \in C
IsPicks(sel, C) ==
    /\ sel \in Seq(Range(sel))
    /\ \A i \in 1..Len(sel) : IsPick(sel[i], C)
    /\ \A i, j \in 1..Len(sel) : sel[i].content.id = sel[j].content.id => i = j

\* What the phases of the selection keep.
IsChoice(acc, C, max) ==
    /\ IsPicks(acc.sel, C)
    /\ Len(acc.sel) <= max
    /\ acc.time = SelectionTime(acc.sel)

LEMMA PicksTime ==
    ASSUME NEW C, \A c \in C : IsAtom(c), NEW sel, IsPicks(sel, C)
    PROVE  SelectionTime(sel) \in Int /\ \A x \in Range(sel) : IsAtom(x.content)
<1>1. \A x \in Range(sel) : IsAtom(x.content)
  <2> SUFFICES ASSUME NEW x \in Range(sel) PROVE IsAtom(x.content)  OBVIOUS
  <2>1. PICK i \in DOMAIN sel : sel[i] = x  BY DEF Range
  <2>2. i \in 1..Len(sel)  BY DEF IsPicks
  <2> QED  BY <2>1, <2>2 DEF IsPicks, IsPick
<1>2. sel \in Seq(Range(sel))  BY DEF IsPicks
<1> QED  BY <1>1, <1>2, TimesOfType

LEMMA AddedIs ==
    ASSUME NEW C, \A c \in C : IsAtom(c), NEW max \in Nat, NEW acc, IsChoice(acc, C, max),
           Len(acc.sel) < max, NEW c \in C, c.id \notin Used(acc),
           NEW skill, NEW review, NEW stretch
    PROVE  /\ IsChoice(AddSelection(acc, c, skill, review, stretch), C, max)
           /\ AddSelection(acc, c, skill, review, stretch).time = acc.time + Secs(c)
<1> DEFINE b == AddSelection(acc, c, skill, review, stretch)
           sel == acc.sel
           x == [content |-> c, skill |-> skill, review |-> review]
           u == Append(sel, x)
           n == Len(sel)
<1>1. b.sel = u /\ b.time = acc.time + Secs(c)  BY DEF AddSelection
<1>2. /\ IsPicks(sel, C) /\ n \in Nat /\ sel \in Seq(Range(sel)) /\ DOMAIN sel = 1..n
      /\ acc.time = SelectionTime(sel)
  BY DEF IsChoice, IsPicks
<1>3. IsPick(x, C) /\ x.content = c  BY DEF IsPick
<1>4. \A i \in 1..n : sel[i].content.id # c.id  BY <1>2 DEF Used
<1> HIDE DEF b, sel, x
<1>5. /\ Len(u) = n + 1 /\ DOMAIN u = 1..(n + 1) /\ u = [i \in 1..(n + 1) |-> u[i]]
      /\ u[n + 1] = x /\ \A i \in 1..n : u[i] = sel[i]
  BY <1>2, AppendIs
<1>6. SelectionTime(u) = SelectionTime(sel) + Secs(c)
  <2> DEFINE T == Range(sel) \cup {x}
  <2>1. \A y \in T : IsAtom(y.content)  BY <1>2, <1>3, PicksTime
  <2>2. sel \in Seq(T) /\ x \in T  BY <1>2
  <2> HIDE DEF T
  <2> QED  BY <2>1, <2>2, <1>3, SelectionAppend
<1> HIDE DEF u, n
<1>7. u \in Seq(Range(u))  
  <2>1. n + 1 \in Nat  BY <1>2
  <2> QED  BY <2>1, <1>5, FunctionSeq
<1>8. \A i \in 1..(n + 1) : i \in 1..n \/ i = n + 1  BY <1>2
<1>9. \A i \in 1..(n + 1) : IsPick(u[i], C)
  <2> SUFFICES ASSUME NEW i \in 1..(n + 1) PROVE IsPick(u[i], C)  OBVIOUS
  <2>1. CASE i \in 1..n  BY <2>1, <1>2, <1>5 DEF IsPicks, n
  <2>2. CASE i = n + 1  BY <2>2, <1>3, <1>5
  <2> QED  BY <2>1, <2>2, <1>8
<1>10. \A i, j \in 1..(n + 1) : u[i].content.id = u[j].content.id => i = j
  <2> SUFFICES ASSUME NEW i \in 1..(n + 1), NEW j \in 1..(n + 1),
                      u[i].content.id = u[j].content.id
               PROVE  i = j
    OBVIOUS
  <2>1. CASE i \in 1..n /\ j \in 1..n  BY <2>1, <1>2, <1>5 DEF IsPicks, n
  <2>2. CASE i \in 1..n /\ j = n + 1  BY <2>2, <1>3, <1>4, <1>5
  <2>3. CASE i = n + 1 /\ j \in 1..n  BY <2>3, <1>3, <1>4, <1>5
  <2> QED  BY <2>1, <2>2, <2>3, <1>8
<1>11. IsPicks(u, C)  BY <1>5, <1>7, <1>9, <1>10 DEF IsPicks
<1>12. Len(u) <= max
  <2>1. n < max  BY DEF n, sel
  <2> QED  BY <2>1, <1>2, <1>5
<1>13. b.time = SelectionTime(u)  BY <1>1, <1>2, <1>6 DEF sel
<1> QED  BY <1>1, <1>11, <1>12, <1>13 DEF IsChoice, b, sel, u

LEMMA PickContentIs ==
    ASSUME NEW C, NEW content \in Seq(C), NEW acc, NEW skill, NEW in, NEW prefer,
           PickContent(skill, acc, content, in, prefer) # {}
    PROVE  LET c == content[Min(PickContent(skill, acc, content, in, prefer))]
           IN  c \in C /\ c.id \notin Used(acc)
<1> DEFINE best == PickContent(skill, acc, content, in, prefer)
<1>1. \A i \in best : i \in DOMAIN content /\ content[i].id \notin Used(acc)
  BY DEF PickContent
<1>2. DOMAIN content \subseteq Nat /\ \A i \in DOMAIN content : content[i] \in C  OBVIOUS
<1> HIDE DEF best
<1>3. Min(best) \in best
  <2>1. best \in SUBSET Nat /\ best # {}  BY <1>1, <1>2 DEF best
  <2> QED  BY <2>1, MinIs
<1>4. Min(best) \in DOMAIN content /\ content[Min(best)].id \notin Used(acc)  BY <1>1, <1>3
<1>5. content[Min(best)] \in C  BY <1>2, <1>4
<1> QED  BY <1>4, <1>5 DEF best

LEMMA LimitIs ==
    ASSUME NEW in \in Inputs
    PROVE  TimeLimit(in) \in Int
<1>1. 115 * Budget(in) \in Int  BY InputsAssumption DEF Budget
<1>2. \A a \in Int : a \div 100 \in Int  OBVIOUS
<1> QED  BY <1>1, <1>2 DEF TimeLimit

\* One skill, or one atom, offered: nothing changes, or the choice grows
\* within the budget.
LEMMA OfferSkillIs ==
    ASSUME NEW C, \A c \in C : IsAtom(c), NEW max \in Nat, NEW acc, IsChoice(acc, C, max),
           NEW content \in Seq(C), NEW in \in Inputs, NEW s, NEW pool
    PROVE  /\ IsChoice(OfferSkill(acc, s, pool, content, in, max), C, max)
           /\ \/ OfferSkill(acc, s, pool, content, in, max).time = acc.time
              \/ OfferSkill(acc, s, pool, content, in, max).time <= TimeLimit(in)
<1> DEFINE best == PickContent(s.skill, acc, content, in, PrefersStretch(pool, acc, max))
           c == content[Min(best)]
           refused == \/ Len(acc.sel) >= max
                      \/ s.skill \in Served(acc)
                      \/ best = {}
                      \/ acc.time + Secs(c) > TimeLimit(in)
           skill == s.skill
           stretch == pool # "weak" /\ Stretch(c.level, in)
           review == pool # "new"
           b == OfferSkill(acc, s, pool, content, in, max)
<1>1. b = IF refused THEN acc ELSE AddSelection(acc, c, skill, review, stretch)
  BY DEF OfferSkill
<1>2. CASE refused  BY <1>1, <1>2
<1>3. CASE ~refused
  <2>1. best # {} /\ ~(Len(acc.sel) >= max) /\ ~(acc.time + Secs(c) > TimeLimit(in))  BY <1>3
  <2>2. c \in C /\ c.id \notin Used(acc)
    <3> HIDE DEF refused
    <3> QED  BY <2>1, PickContentIs
  <2>3. b = AddSelection(acc, c, skill, review, stretch)  BY <1>1, <1>3
  <2> HIDE DEF c, refused, best, stretch, review, skill, b
  <2>4. Len(acc.sel) < max
    <3>1. Len(acc.sel) \in Nat  BY DEF IsChoice, IsPicks
    <3> QED  BY <2>1, <3>1
  <2>5. IsChoice(b, C, max) /\ b.time = acc.time + Secs(c)
    <3> DEFINE added == AddSelection(acc, c, skill, review, stretch)
    <3>1. IsChoice(added, C, max) /\ added.time = acc.time + Secs(c)
      BY <2>2, <2>4, AddedIs, SMTT(30)
    <3> HIDE DEF added
    <3>2. b = added  BY <2>3 DEF added
    <3> QED  BY <3>1, <3>2
  <2>6. acc.time \in Int /\ Secs(c) \in Nat
    BY <2>2, PicksTime, SecsIs DEF IsChoice
  <2>7. b.time <= TimeLimit(in)  BY <2>1, <2>5, <2>6, LimitIs
  <2> QED  BY <2>5, <2>7 DEF b
<1> QED  BY <1>2, <1>3

LEMMA OfferContentIs ==
    ASSUME NEW C, \A x \in C : IsAtom(x), NEW max \in Nat, NEW acc, IsChoice(acc, C, max),
           NEW c, c \in C, NEW in \in Inputs
    PROVE  /\ IsChoice(OfferContent(acc, c, in, max), C, max)
           /\ \/ OfferContent(acc, c, in, max).time = acc.time
              \/ OfferContent(acc, c, in, max).time <= TimeLimit(in)
<1> DEFINE refused == \/ Len(acc.sel) >= max
                      \/ c.id \in Used(acc)
                      \/ ~(Comfort(c.level, in) \/ Stretch(c.level, in))
                      \/ acc.time + Secs(c) > TimeLimit(in)
           skill == FirstSkill(c)
           b == OfferContent(acc, c, in, max)
<1>1. b = IF refused THEN acc ELSE AddSelection(acc, c, skill, FALSE, FALSE)
  BY DEF OfferContent
<1>2. CASE refused  BY <1>1, <1>2
<1>3. CASE ~refused
  <2>1. c.id \notin Used(acc) /\ ~(Len(acc.sel) >= max) /\ ~(acc.time + Secs(c) > TimeLimit(in))
    BY <1>3
  <2>2. b = AddSelection(acc, c, skill, FALSE, FALSE)  BY <1>1, <1>3
  <2> HIDE DEF refused, b, skill
  <2>3. Len(acc.sel) < max
    <3>1. Len(acc.sel) \in Nat  BY DEF IsChoice, IsPicks
    <3> QED  BY <2>1, <3>1
  <2>4. IsChoice(b, C, max) /\ b.time = acc.time + Secs(c)
    <3>1. c \in C /\ c.id \notin Used(acc)  BY <2>1
    <3>2. /\ IsChoice(AddSelection(acc, c, skill, FALSE, FALSE), C, max)
          /\ AddSelection(acc, c, skill, FALSE, FALSE).time = acc.time + Secs(c)
      <4> DEFINE no == FALSE
      <4> HIDE DEF no
      <4>1. /\ IsChoice(AddSelection(acc, c, skill, no, no), C, max)
            /\ AddSelection(acc, c, skill, no, no).time = acc.time + Secs(c)
        BY <3>1, <2>3, AddedIs
      <4> QED  BY <4>1 DEF no
    <3> QED  BY <3>2, <2>2
  <2>5. acc.time \in Int /\ Secs(c) \in Nat  BY PicksTime, SecsIs DEF IsChoice
  <2>6. b.time <= TimeLimit(in)  BY <2>1, <2>4, <2>5, LimitIs
  <2> QED  BY <2>4, <2>6 DEF b
<1> QED  BY <1>2, <1>3

LEMMA OfferAssignedIs ==
    ASSUME NEW C, \A c \in C : IsAtom(c), NEW max \in Nat, NEW acc, IsChoice(acc, C, max),
           NEW content \in Seq(C), NEW in, NEW skill
    PROVE  IsChoice(OfferAssigned(acc, skill, content, in, max), C, max)
<1> DEFINE best == PickContent(skill, acc, content, in, FALSE)
           c == content[Min(best)]
           b == OfferAssigned(acc, skill, content, in, max)
           most == (4 * max + 9) \div 10
<1>1. b = IF Len(acc.sel) >= most \/ best = {} THEN acc
          ELSE AddSelection(acc, c, skill, FALSE, FALSE)
  BY DEF OfferAssigned
<1>2. CASE Len(acc.sel) >= most \/ best = {}  BY <1>1, <1>2
<1>3. CASE ~(Len(acc.sel) >= most \/ best = {})
  <2>1. best # {} /\ ~(Len(acc.sel) >= most)  BY <1>3
  <2>2. c \in C /\ c.id \notin Used(acc)
    <3> HIDE DEF most
    <3> QED  BY <2>1, PickContentIs
  <2>3. b = AddSelection(acc, c, skill, FALSE, FALSE)  BY <1>1, <1>3
  <2>4. most \in Int /\ most <= max  OBVIOUS
  <2> HIDE DEF c, best, most
  <2>5. Len(acc.sel) < max
    <3>1. Len(acc.sel) \in Nat  BY DEF IsChoice, IsPicks
    <3> QED  BY <2>1, <2>4, <3>1
  <2> HIDE DEF b
  <2>6. IsChoice(b, C, max)  BY <2>2, <2>3, <2>5, AddedIs
  <2> QED  BY <2>6 DEF b
<1> QED  BY <1>2, <1>3

\* Each phase of the selection obeys its recursion.
LEMMA AssignmentStepsRec ==
    ASSUME NEW content, NEW in, NEW max,
           Len(in.assigned) \in Nat
    PROVE  /\ AssignmentSteps(content, in, max)[0] = NoneSelected
           /\ \A i \in 1..Len(in.assigned) :
                  AssignmentSteps(content, in, max)[i] = OfferAssigned(AssignmentSteps(content, in, max)[i - 1], in.assigned[i], content, in, max)
<1> DEFINE n == Len(in.assigned)
           P(h, m) == h = [i \in 0..m |->
                              IF i = 0 THEN NoneSelected
                              ELSE OfferAssigned(h[i - 1], in.assigned[i], content, in, max)]
           S == {m \in Nat : \E h : P(h, m)}
<1>1. 0 \in S
  <2>1. P([i \in 0..0 |-> NoneSelected], 0)  OBVIOUS
  <2> QED  BY <2>1
<1>2. \A m \in Nat : m \in S => m + 1 \in S
  <2> SUFFICES ASSUME NEW m \in Nat, m \in S PROVE m + 1 \in S  OBVIOUS
  <2>1. PICK h : P(h, m)  OBVIOUS
  <2> DEFINE g == [i \in 0..(m + 1) |->
                      IF i = m + 1 THEN OfferAssigned(h[m], in.assigned[m + 1], content, in, max)
                      ELSE h[i]]
  <2>2. P(g, m + 1)  BY <2>1
  <2> HIDE DEF P
  <2> QED  BY <2>2
<1>3. n \in S
  <2> HIDE DEF S
  <2> QED  BY <1>1, <1>2, SetInduction
<1>4. P(AssignmentSteps(content, in, max), n)
  <2>1. PICK h : P(h, n)  BY <1>3
  <2> QED  BY <2>1 DEF AssignmentSteps
<1> QED  BY <1>4

LEMMA PoolStepsRec ==
    ASSUME NEW pool, NEW acc0, NEW content, NEW in, NEW max,
           Len(in.skills) \in Nat
    PROVE  /\ PoolSteps(pool, acc0, content, in, max)[0] = acc0
           /\ \A i \in 1..Len(in.skills) :
                  PoolSteps(pool, acc0, content, in, max)[i] = (IF PoolOf(in.skills[i]) # pool THEN PoolSteps(pool, acc0, content, in, max)[i - 1] ELSE OfferSkill(PoolSteps(pool, acc0, content, in, max)[i - 1], in.skills[i], pool, content, in, max))
<1> DEFINE n == Len(in.skills)
           P(h, m) == h = [i \in 0..m |->
                              IF i = 0 THEN acc0
                              ELSE (IF PoolOf(in.skills[i]) # pool THEN h[i - 1] ELSE OfferSkill(h[i - 1], in.skills[i], pool, content, in, max))]
           S == {m \in Nat : \E h : P(h, m)}
<1>1. 0 \in S
  <2>1. P([i \in 0..0 |-> acc0], 0)  OBVIOUS
  <2> QED  BY <2>1
<1>2. \A m \in Nat : m \in S => m + 1 \in S
  <2> SUFFICES ASSUME NEW m \in Nat, m \in S PROVE m + 1 \in S  OBVIOUS
  <2>1. PICK h : P(h, m)  OBVIOUS
  <2> DEFINE g == [i \in 0..(m + 1) |->
                      IF i = m + 1 THEN (IF PoolOf(in.skills[m + 1]) # pool THEN h[m] ELSE OfferSkill(h[m], in.skills[m + 1], pool, content, in, max))
                      ELSE h[i]]
  <2>2. P(g, m + 1)  BY <2>1
  <2> HIDE DEF P
  <2> QED  BY <2>2
<1>3. n \in S
  <2> HIDE DEF S
  <2> QED  BY <1>1, <1>2, SetInduction
<1>4. P(PoolSteps(pool, acc0, content, in, max), n)
  <2>1. PICK h : P(h, n)  BY <1>3
  <2> QED  BY <2>1 DEF PoolSteps
<1> QED  BY <1>4, SMTT(30)

LEMMA FillStepsRec ==
    ASSUME NEW acc0, NEW content, NEW in, NEW max,
           Len(FillOrder(content)) \in Nat
    PROVE  /\ FillSteps(acc0, content, in, max)[0] = acc0
           /\ \A i \in 1..Len(FillOrder(content)) :
                  FillSteps(acc0, content, in, max)[i] = OfferContent(FillSteps(acc0, content, in, max)[i - 1], FillOrder(content)[i], in, max)
<1> DEFINE n == Len(FillOrder(content))
           P(h, m) == h = [i \in 0..m |->
                              IF i = 0 THEN acc0
                              ELSE OfferContent(h[i - 1], FillOrder(content)[i], in, max)]
           S == {m \in Nat : \E h : P(h, m)}
<1>1. 0 \in S
  <2>1. P([i \in 0..0 |-> acc0], 0)  OBVIOUS
  <2> QED  BY <2>1
<1>2. \A m \in Nat : m \in S => m + 1 \in S
  <2> SUFFICES ASSUME NEW m \in Nat, m \in S PROVE m + 1 \in S  OBVIOUS
  <2>1. PICK h : P(h, m)  OBVIOUS
  <2> DEFINE g == [i \in 0..(m + 1) |->
                      IF i = m + 1 THEN OfferContent(h[m], FillOrder(content)[m + 1], in, max)
                      ELSE h[i]]
  <2>2. P(g, m + 1)  BY <2>1
  <2> HIDE DEF P
  <2> QED  BY <2>2
<1>3. n \in S
  <2> HIDE DEF S
  <2> QED  BY <1>1, <1>2, SetInduction
<1>4. P(FillSteps(acc0, content, in, max), n)
  <2>1. PICK h : P(h, n)  BY <1>3
  <2> QED  BY <2>1 DEF FillSteps
<1> QED  BY <1>4

LEMMA NoneIsChoice ==
    ASSUME NEW C, NEW max \in Nat
    PROVE  IsChoice(NoneSelected, C, max)
<1>1. NoneSelected.sel = << >> /\ NoneSelected.time = 0  BY DEF NoneSelected
<1>2. IsPicks(<< >>, C)  BY DEF IsPicks
<1>3. SelectionTime(<< >>) = 0
  <2>1. [i \in DOMAIN << >> |-> Secs(<< >>[i].content)] = << >>  OBVIOUS
  <2> QED  BY <2>1, SumEmpty DEF SelectionTime
<1>4. Len(<< >>) = 0  OBVIOUS
<1> QED  BY <1>1, <1>2, <1>3, <1>4 DEF IsChoice

LEMMA AssignmentIs ==
    ASSUME NEW C, \A c \in C : IsAtom(c), NEW max \in Nat, NEW content \in Seq(C),
           NEW in \in Inputs
    PROVE  IsChoice(AssignmentPhase(content, in, max), C, max)
<1> DEFINE n == Len(in.assigned)
           acc == AssignmentSteps(content, in, max)
           S == {k \in 0..n : IsChoice(acc[k], C, max)}
<1>1. n \in Nat  BY InputsAssumption
<1>2. /\ acc[0] = NoneSelected
      /\ \A i \in 1..n : acc[i] = OfferAssigned(acc[i - 1], in.assigned[i], content, in, max)
  BY <1>1, AssignmentStepsRec
<1> HIDE DEF acc
<1>3. 0 \in S  BY <1>1, <1>2, NoneIsChoice
<1>4. \A k \in 1..n : k - 1 \in S => k \in S
  <2> SUFFICES ASSUME NEW k \in 1..n, k - 1 \in S PROVE IsChoice(acc[k], C, max)  OBVIOUS
  <2>1. IsChoice(acc[k - 1], C, max)  OBVIOUS
  <2> QED  BY <2>1, <1>2, OfferAssignedIs
<1> HIDE DEF S
<1>5. n \in S
  <2>1. n \in 0..n  BY <1>1
  <2> QED  BY <2>1, <1>1, <1>3, <1>4, BoundedInduction
<1> QED  BY <1>5 DEF S, AssignmentPhase, acc

\* The time of a choice that grew within the budget from the time a.
Bounded(acc, a, in) == acc.time = a \/ acc.time <= TimeLimit(in)

LEMMA PoolIs ==
    ASSUME NEW C, \A c \in C : IsAtom(c), NEW max \in Nat, NEW content \in Seq(C),
           NEW in \in Inputs, NEW pool, NEW acc0, IsChoice(acc0, C, max),
           NEW a, Bounded(acc0, a, in)
    PROVE  LET acc == PoolPhase(pool, acc0, content, in, max)
           IN  IsChoice(acc, C, max) /\ Bounded(acc, a, in)
<1> DEFINE n == Len(in.skills)
           acc == PoolSteps(pool, acc0, content, in, max)
           S == {k \in 0..n : IsChoice(acc[k], C, max) /\ Bounded(acc[k], a, in)}
<1>1. n \in Nat  BY InputsAssumption
<1>2. /\ acc[0] = acc0
      /\ \A i \in 1..n : \/ acc[i] = acc[i - 1]
                         \/ acc[i] = OfferSkill(acc[i - 1], in.skills[i], pool, content, in, max)
  BY <1>1, PoolStepsRec
<1> HIDE DEF acc
<1>3. 0 \in S  BY <1>1, <1>2
<1>4. \A k \in 1..n : k - 1 \in S => k \in S
  <2> SUFFICES ASSUME NEW k \in 1..n, k - 1 \in S
               PROVE  IsChoice(acc[k], C, max) /\ Bounded(acc[k], a, in)
    OBVIOUS
  <2>1. IsChoice(acc[k - 1], C, max) /\ Bounded(acc[k - 1], a, in)  OBVIOUS
  <2>2. CASE acc[k] = acc[k - 1]  BY <2>1, <2>2
  <2>3. CASE acc[k] = OfferSkill(acc[k - 1], in.skills[k], pool, content, in, max)
    <3>1. IsChoice(acc[k], C, max) /\ (acc[k].time = acc[k - 1].time \/ acc[k].time <= TimeLimit(in))
      BY <2>1, <2>3, OfferSkillIs
    <3> QED  BY <2>1, <3>1 DEF Bounded
  <2> QED  BY <1>2, <2>2, <2>3
<1> HIDE DEF S
<1>5. n \in S
  <2>1. n \in 0..n  BY <1>1
  <2> QED  BY <2>1, <1>1, <1>3, <1>4, BoundedInduction
<1> QED  BY <1>5 DEF S, PoolPhase, acc

LEMMA FillIs ==
    ASSUME NEW C, \A c \in C : IsAtom(c), NEW max \in Nat, NEW content \in Seq(C),
           NEW in \in Inputs, NEW acc0, IsChoice(acc0, C, max),
           NEW a, Bounded(acc0, a, in)
    PROVE  LET acc == FillPhase(acc0, content, in, max)
           IN  IsChoice(acc, C, max) /\ Bounded(acc, a, in)
<1> DEFINE order == FillOrder(content)
           n == Len(order)
           acc == FillSteps(acc0, content, in, max)
           S == {k \in 0..n : IsChoice(acc[k], C, max) /\ Bounded(acc[k], a, in)}
<1>1. order \in Seq(C)
  <2> DEFINE I == {i \in DOMAIN content : content[i].general}
  <2>1. I \in SUBSET DOMAIN content /\ \A i \in I : content[i] \in C  OBVIOUS
  <2> HIDE DEF I
  <2>2. Kept(content, I) \in Seq(C)  BY <2>1, KeptIn
  <2> QED  BY <2>2 DEF FillOrder, I
<1>2. n \in Nat /\ \A i \in 1..n : order[i] \in C  BY <1>1
<1>3. acc[0] = acc0 /\ \A i \in 1..n : acc[i] = OfferContent(acc[i - 1], order[i], in, max)
  BY <1>2, FillStepsRec
<1> HIDE DEF acc, order, n
<1>4. 0 \in S  BY <1>2, <1>3
<1>5. \A k \in 1..n : k - 1 \in S => k \in S
  <2> SUFFICES ASSUME NEW k \in 1..n, k - 1 \in S
               PROVE  IsChoice(acc[k], C, max) /\ Bounded(acc[k], a, in)
    BY <1>2
  <2>1. IsChoice(acc[k - 1], C, max) /\ Bounded(acc[k - 1], a, in)  OBVIOUS
  <2>2. acc[k] = OfferContent(acc[k - 1], order[k], in, max) /\ order[k] \in C  BY <1>2, <1>3
  <2>3. IsChoice(acc[k], C, max) /\ (acc[k].time = acc[k - 1].time \/ acc[k].time <= TimeLimit(in))
    BY <2>1, <2>2, OfferContentIs
  <2> QED  BY <2>1, <2>3 DEF Bounded
<1> HIDE DEF S
<1>6. n \in S
  <2>1. n \in 0..n  BY <1>2
  <2> QED  BY <2>1, <1>2, <1>4, <1>5, BoundedInduction
<1> QED  BY <1>6 DEF S, FillPhase, acc, n, order

\* No atom twice, none seen lately, no more than the estimate, and in time
\* unless the assignment's own items are not.
Selected(sel, in, content) ==
    LET max == EstimateItemCount(in, content)
    IN  /\ IsPicks(sel, Unseen(in))
        /\ Len(sel) <= max
        /\ \/ SelectionTime(sel) = AssignmentPhase(content, in, max).time
           \/ SelectionTime(sel) <= TimeLimit(in)

LEMMA SelectIs ==
    ASSUME NEW in \in Inputs, FilterContent(in) # << >>
    PROVE  Selected(SelectWithConstraints(FilterContent(in), in), in, FilterContent(in))
<1> DEFINE C == Unseen(in)
           content == FilterContent(in)
           max == EstimateItemCount(in, content)
           first == AssignmentPhase(content, in, max)
           due == PoolPhase("due", first, content, in, max)
           weak == PoolPhase("weak", due, content, in, max)
           new == PoolPhase("new", weak, content, in, max)
           full == FillPhase(new, content, in, max)
           a == first.time
<1>1. content \in Seq(C) /\ \A c \in C : IsAtom(c)  BY FilterIs
<1>2. max \in Nat  BY <1>1, EstimateIs
<1>3. full.sel = SelectWithConstraints(content, in)  BY DEF SelectWithConstraints
<1> HIDE DEF content, max, C
<1>4. IsChoice(first, C, max) /\ Bounded(first, a, in)
  BY <1>1, <1>2, AssignmentIs DEF Bounded
<1> HIDE DEF first, a
<1>5. IsChoice(due, C, max) /\ Bounded(due, a, in)  BY <1>1, <1>2, <1>4, PoolIs
<1> HIDE DEF due
<1>6. IsChoice(weak, C, max) /\ Bounded(weak, a, in)  BY <1>1, <1>2, <1>5, PoolIs
<1> HIDE DEF weak
<1>7. IsChoice(new, C, max) /\ Bounded(new, a, in)  BY <1>1, <1>2, <1>6, PoolIs
<1> HIDE DEF new
<1>8. IsChoice(full, C, max) /\ Bounded(full, a, in)  BY <1>1, <1>2, <1>7, FillIs
<1> HIDE DEF full
<1> QED  BY <1>3, <1>8 DEF IsChoice, Bounded, Selected, C, content, max, a, first

-----------------------------------------------------------------------------
(* The variety of the selection                                            *)
LEMMA SweepStepsRec ==
    ASSUME NEW s,
           Len(s) \in Nat
    PROVE  /\ SweepSteps(s)[0] = s
           /\ \A i \in 1..Len(s) :
                  SweepSteps(s)[i] = BreakRun(SweepSteps(s)[i - 1], i)
<1> DEFINE n == Len(s)
           P(h, m) == h = [i \in 0..m |->
                              IF i = 0 THEN s
                              ELSE BreakRun(h[i - 1], i)]
           S == {m \in Nat : \E h : P(h, m)}
<1>1. 0 \in S
  <2>1. P([i \in 0..0 |-> s], 0)  OBVIOUS
  <2> QED  BY <2>1
<1>2. \A m \in Nat : m \in S => m + 1 \in S
  <2> SUFFICES ASSUME NEW m \in Nat, m \in S PROVE m + 1 \in S  OBVIOUS
  <2>1. PICK h : P(h, m)  OBVIOUS
  <2> DEFINE g == [i \in 0..(m + 1) |->
                      IF i = m + 1 THEN BreakRun(h[m], m + 1)
                      ELSE h[i]]
  <2>2. P(g, m + 1)  BY <2>1
  <2> HIDE DEF P
  <2> QED  BY <2>2
<1>3. n \in S
  <2> HIDE DEF S
  <2> QED  BY <1>1, <1>2, SetInduction
<1>4. P(SweepSteps(s), n)
  <2>1. PICK h : P(h, n)  BY <1>3
  <2> QED  BY <2>1 DEF SweepSteps
<1> QED  BY <1>4

LEMMA VarietyStepsRec ==
    ASSUME NEW s
    PROVE  /\ VarietySteps(s)[0] = s
           /\ \A k \in 1..10 :
                  VarietySteps(s)[k] = IF HasLongRun(VarietySteps(s)[k - 1])
                                       THEN Sweep(VarietySteps(s)[k - 1])
                                       ELSE VarietySteps(s)[k - 1]
<1> DEFINE P(h, m) == h = [k \in 0..m |-> IF k = 0 THEN s
                                          ELSE IF HasLongRun(h[k - 1]) THEN Sweep(h[k - 1])
                                          ELSE h[k - 1]]
           S == {m \in Nat : \E h : P(h, m)}
<1>1. 0 \in S
  <2>1. P([k \in 0..0 |-> s], 0)  OBVIOUS
  <2> QED  BY <2>1
<1>2. \A m \in Nat : m \in S => m + 1 \in S
  <2> SUFFICES ASSUME NEW m \in Nat, m \in S PROVE m + 1 \in S  OBVIOUS
  <2>1. PICK h : P(h, m)  OBVIOUS
  <2> DEFINE g == [k \in 0..(m + 1) |-> IF k = m + 1
                                        THEN IF HasLongRun(h[m]) THEN Sweep(h[m]) ELSE h[m]
                                        ELSE h[k]]
  <2>2. P(g, m + 1)  BY <2>1
  <2> HIDE DEF P
  <2> QED  BY <2>2
<1>3. 10 \in S
  <2> HIDE DEF S
  <2> QED  BY <1>1, <1>2, SetInduction
<1>4. P(VarietySteps(s), 10)
  <2>1. PICK h : P(h, 10)  BY <1>3
  <2> QED  BY <2>1 DEF VarietySteps
<1> QED  BY <1>4

\* Two selections that change places.
Swapped(s, i, j) == [s EXCEPT ![i] = s[j], ![j] = s[i]]

\* The same selections in another order, for what the selection promises.
Reordered(t, s, C) ==
    IsPicks(t, C) /\ Len(t) = Len(s) /\ SelectionTime(t) = SelectionTime(s)

LEMMA SwapKeeps ==
    ASSUME NEW C, \A c \in C : IsAtom(c), NEW s, IsPicks(s, C),
           NEW i \in 1..Len(s), NEW j \in 1..Len(s), i < j
    PROVE  Reordered(Swapped(s, i, j), s, C)
<1> DEFINE n == Len(s)
           t == Swapped(s, i, j)
           f == TimesOf(s)
<1>1. /\ n \in Nat /\ DOMAIN s = 1..n /\ s \in Seq(Range(s)) /\ s = [k \in 1..n |-> s[k]]
      /\ \A k \in 1..n : IsPick(s[k], C)
      /\ \A k, l \in 1..n : s[k].content.id = s[l].content.id => k = l
  BY DEF IsPicks
<1>2. /\ DOMAIN t = 1..n /\ t = [k \in 1..n |-> t[k]]
      /\ \A k \in 1..n : t[k] = IF k = i THEN s[j] ELSE IF k = j THEN s[i] ELSE s[k]
  BY <1>1 DEF Swapped
<1> HIDE DEF t
<1>3. t \in Seq(Range(t)) /\ Len(t) = n  BY <1>1, <1>2, FunctionSeq
<1>4. \A k \in 1..n : IsPick(t[k], C)  BY <1>1, <1>2
<1>5. \A k, l \in 1..n : t[k].content.id = t[l].content.id => k = l
  <2> SUFFICES ASSUME NEW k \in 1..n, NEW l \in 1..n, t[k].content.id = t[l].content.id
               PROVE  k = l
    OBVIOUS
  <2> DEFINE p(x) == IF x = i THEN j ELSE IF x = j THEN i ELSE x
  <2>1. p(k) \in 1..n /\ p(l) \in 1..n /\ t[k] = s[p(k)] /\ t[l] = s[p(l)]  BY <1>2
  <2>2. p(k) = p(l)
    <3> HIDE DEF p
    <3> QED  BY <2>1, <1>1
  <2> QED  BY <2>2
<1>6. IsPicks(t, C)  BY <1>3, <1>4, <1>5 DEF IsPicks
<1>7. SelectionTime(t) = SelectionTime(s)
  <2>1. f \in Seq(Int) /\ Len(f) = n /\ SelectionTime(s) = Sum(f)
    BY <1>1, PicksTime, TimesOfType
  <2>2. TimesOf(t) = [f EXCEPT ![i] = f[j], ![j] = f[i]]
    <3> DEFINE g == TimesOf(t)
    <3>1. /\ DOMAIN g = 1..n /\ DOMAIN f = 1..n
          /\ \A k \in 1..n : f[k] = Secs(s[k].content) /\ g[k] = Secs(t[k].content)
          /\ g = [k \in 1..n |-> g[k]] /\ f = [k \in 1..n |-> f[k]]
      BY <1>1, <1>2 DEF TimesOf
    <3> HIDE DEF f, g
    <3>2. \A k \in 1..n : g[k] = IF k = i THEN f[j] ELSE IF k = j THEN f[i] ELSE f[k]
      BY <3>1, <1>2
    <3> DEFINE v == [f EXCEPT ![i] = f[j], ![j] = f[i]]
    <3>3. /\ v \in Seq(Int) /\ Len(v) = n
          /\ \A k \in 1..n : v[k] = IF k = i THEN f[j] ELSE IF k = j THEN f[i] ELSE f[k]
      <4>1. f \in Seq(Int) /\ Len(f) = n /\ i \in 1..n /\ j \in 1..n  BY <2>1, <3>1
      <4> QED  BY <4>1
    <3> HIDE DEF v
    <3>4. DOMAIN v = 1..n /\ v = [k \in 1..n |-> v[k]]  BY <3>3
    <3>5. g = v  BY <3>1, <3>2, <3>3, <3>4
    <3> QED  BY <3>5 DEF g, v
  <2>3. SelectionTime(t) = Sum(TimesOf(t))  BY DEF SelectionTime, TimesOf
  <2> HIDE DEF f
  <2>4. Sum([f EXCEPT ![i] = f[j], ![j] = f[i]]) = Sum(f)  BY <2>1, SumSwap
  <2> QED  BY <2>1, <2>2, <2>3, <2>4
<1> QED  BY <1>3, <1>6, <1>7 DEF Reordered, t

\* Up to i, a run of four is followed by nothing of another type.
TidyUpTo(s, i) ==
    \A k \in 1..i : RunAt(s, k) => \A j \in k..Len(s) : TypeAt(s, j) = TypeAt(s, k)

LEMMA BreakRunIs ==
    ASSUME NEW C, \A c \in C : IsAtom(c), NEW s, IsPicks(s, C),
           NEW i \in 1..Len(s), TidyUpTo(s, i - 1)
    PROVE  Reordered(BreakRun(s, i), s, C) /\ TidyUpTo(BreakRun(s, i), i)
<1> DEFINE n == Len(s)
           other == {j \in (i + 1)..n : TypeAt(s, j) # TypeAt(s, i)}
           j == Min(other)
           t == BreakRun(s, i)
<1>1. t = IF ~RunAt(s, i) \/ other = {} THEN s ELSE Swapped(s, i, j)
  BY DEF BreakRun, Swapped
<1>2. n \in Nat /\ DOMAIN s = 1..n  BY DEF IsPicks
<1>3. \A k \in 1..i : k \in 1..(i - 1) \/ k = i  BY <1>2
<1>4. CASE ~RunAt(s, i) \/ other = {}
  <2>1. t = s  BY <1>1, <1>4
  <2>2. TidyUpTo(s, i)
    <3> SUFFICES ASSUME NEW k \in 1..i, RunAt(s, k), NEW l \in k..n
                 PROVE  TypeAt(s, l) = TypeAt(s, k)
      BY DEF TidyUpTo
    <3>1. CASE k \in 1..(i - 1)  BY <3>1 DEF TidyUpTo
    <3>2. CASE k = i
      <4>1. l = i \/ l \in (i + 1)..n  BY <3>2, <1>2
      <4> HIDE DEF t, n
      <4> QED  BY <4>1, <3>2, <1>4
    <3> QED  BY <3>1, <3>2, <1>3
  <2>3. Reordered(s, s, C)  BY DEF Reordered
  <2> HIDE DEF t, n
  <2>4. Reordered(t, s, C) /\ TidyUpTo(t, i)  BY <2>1, <2>2, <2>3
  <2> QED  BY <2>4 DEF t
<1>5. CASE RunAt(s, i) /\ other # {}
  <2>1. t = Swapped(s, i, j)  BY <1>1, <1>5
  <2>2. j \in other
    <3>1. other \in SUBSET Nat  BY <1>2
    <3> HIDE DEF other
    <3> QED  BY <3>1, <1>5, MinIs
  <2>3. j \in (i + 1)..n /\ TypeAt(s, j) # TypeAt(s, i)  BY <2>2
  <2> HIDE DEF j, other
  <2>4. j \in 1..n /\ i < j  BY <2>3, <1>2
  <2> HIDE DEF t
  <2>5. Reordered(t, s, C)  BY <2>1, <2>4, SwapKeeps
  <2>6. TypeAt(t, i) = TypeAt(s, j) /\ \A k \in 1..(i - 1) : TypeAt(t, k) = TypeAt(s, k)
    <3>1. t[i] = s[j] /\ \A k \in 1..(i - 1) : t[k] = s[k]
      BY <2>1, <2>4, <1>2 DEF Swapped
    <3> QED  BY <3>1 DEF TypeAt
  <2>7. ~RunAt(t, i)
    <3>1. i > 3 /\ TypeAt(s, i - 1) = TypeAt(s, i)  BY <1>5 DEF RunAt
    <3>2. i - 1 \in 1..(i - 1)  BY <3>1, <1>2
    <3>3. TypeAt(t, i - 1) # TypeAt(t, i)  BY <3>1, <3>2, <2>3, <2>6
    <3> QED  BY <3>3 DEF RunAt
  <2>8. ASSUME NEW k \in 1..(i - 1) PROVE ~RunAt(t, k)
    <3> SUFFICES ASSUME RunAt(t, k) PROVE FALSE  OBVIOUS
    <3>1. k > 3 /\ \A d \in 1..3 : TypeAt(t, k - d) = TypeAt(t, k)  BY DEF RunAt
    <3>2. \A d \in 1..3 : k - d \in 1..(i - 1)  BY <3>1, <1>2
    <3>3. RunAt(s, k)  BY <3>1, <3>2, <2>6 DEF RunAt
    <3>4. i \in k..n /\ j \in k..n  BY <2>4, <1>2
    <3>5. TypeAt(s, i) = TypeAt(s, k) /\ TypeAt(s, j) = TypeAt(s, k)
      BY <3>3, <3>4 DEF TidyUpTo
    <3> QED  BY <3>5, <2>3
  <2>9. TidyUpTo(t, i)  BY <2>7, <2>8, <1>3 DEF TidyUpTo
  <2> QED  BY <2>5, <2>9 DEF t
<1> QED  BY <1>4, <1>5

LEMMA SweepIs ==
    ASSUME NEW C, \A c \in C : IsAtom(c), NEW s, IsPicks(s, C)
    PROVE  Reordered(Sweep(s), s, C) /\ TidyUpTo(Sweep(s), Len(s))
<1> DEFINE n == Len(s)
           t == SweepSteps(s)
           S == {i \in 0..n : Reordered(t[i], s, C) /\ TidyUpTo(t[i], i)}
<1>1. n \in Nat  BY DEF IsPicks
<1>2. t[0] = s /\ \A i \in 1..n : t[i] = BreakRun(t[i - 1], i)  BY <1>1, SweepStepsRec
<1> HIDE DEF t
<1>3. 0 \in S  BY <1>1, <1>2 DEF Reordered, TidyUpTo
<1>4. \A i \in 1..n : i - 1 \in S => i \in S
  <2> SUFFICES ASSUME NEW i \in 1..n, i - 1 \in S
               PROVE  Reordered(t[i], s, C) /\ TidyUpTo(t[i], i)
    OBVIOUS
  <2> DEFINE u == t[i - 1]
  <2>1. IsPicks(u, C) /\ Len(u) = n /\ SelectionTime(u) = SelectionTime(s) /\ TidyUpTo(u, i - 1)
    BY DEF Reordered
  <2>2. t[i] = BreakRun(u, i)  BY <1>2
  <2> HIDE DEF u
  <2>3. Reordered(t[i], u, C) /\ TidyUpTo(t[i], i)  BY <2>1, <2>2, BreakRunIs
  <2> QED  BY <2>1, <2>3 DEF Reordered
<1> HIDE DEF S
<1>5. n \in S
  <2>1. n \in 0..n  BY <1>1
  <2> QED  BY <2>1, <1>1, <1>3, <1>4, BoundedInduction
<1> QED  BY <1>5 DEF S, Sweep, t

LEMMA VarietyIs ==
    ASSUME NEW C, \A c \in C : IsAtom(c), NEW s, IsPicks(s, C)
    PROVE  Reordered(EnforceVariety(s), s, C) /\ TidyUpTo(EnforceVariety(s), Len(s))
<1> DEFINE t == VarietySteps(s)
           S == {k \in 0..10 : Reordered(t[k], s, C)}
<1>1. t[0] = s /\ \A k \in 1..10 : t[k] = IF HasLongRun(t[k - 1]) THEN Sweep(t[k - 1])
                                          ELSE t[k - 1]
  BY VarietyStepsRec
<1> HIDE DEF t
<1>2. 0 \in S  BY <1>1 DEF Reordered
<1>3. \A k \in 1..10 : k - 1 \in S => k \in S
  <2> SUFFICES ASSUME NEW k \in 1..10, k - 1 \in S PROVE Reordered(t[k], s, C)  OBVIOUS
  <2> DEFINE u == t[k - 1]
  <2>1. Reordered(u, s, C)  OBVIOUS
  <2>2. t[k] = u \/ t[k] = Sweep(u)  BY <1>1
  <2> HIDE DEF u
  <2>3. CASE t[k] = u  BY <2>1, <2>3
  <2>4. CASE t[k] = Sweep(u)
    <3>1. IsPicks(u, C)  BY <2>1 DEF Reordered
    <3>2. Reordered(t[k], u, C)  BY <2>4, <3>1, SweepIs
    <3> QED  BY <2>1, <3>2 DEF Reordered
  <2> QED  BY <2>2, <2>3, <2>4
<1> HIDE DEF S
<1>4. 0..10 \subseteq S  BY <1>2, <1>3, BoundedInduction
<1>5. Reordered(t[10], s, C) /\ Reordered(t[9], s, C)  BY <1>4 DEF S
<1>6. TidyUpTo(t[10], Len(s))
  <2>1. IsPicks(t[9], C) /\ Len(t[9]) = Len(s)  BY <1>5 DEF Reordered
  <2>2. CASE HasLongRun(t[9])
    <3>1. t[10] = Sweep(t[9])  BY <1>1, <2>2
    <3> QED  BY <2>1, <3>1, SweepIs
  <2>3. CASE ~HasLongRun(t[9])
    <3>1. t[10] = t[9]  BY <1>1, <2>3
    <3>2. DOMAIN t[9] = 1..Len(s)  BY <2>1 DEF IsPicks
    <3> QED  BY <2>3, <3>1, <3>2 DEF HasLongRun, TidyUpTo
  <2> QED  BY <2>2, <2>3
<1> QED  BY <1>5, <1>6 DEF EnforceVariety, t

-----------------------------------------------------------------------------
(* The generated selection                                                 *)

LEMMA RoleIs ==
    ASSUME NEW n \in Nat, NEW i \in 1..n
    PROVE  AssignRoles(n)[i] \in Roles
<1> DEFINE relief == n \div 2 + 2
<1>1. relief \in Int  OBVIOUS
<1>2. Roles = {"warmup", "ramp", "core", "relief", "challenge", "cooldown"}  BY RolesAre
<1>3. AssignRoles(n)[i] = CASE i = 1                                -> "warmup"
                            [] i = n /\ n > 1                       -> "cooldown"
                            [] i = 2 /\ n > 3                       -> "ramp"
                            [] i = relief /\ n > 5                  -> "relief"
                            [] i > relief /\ i < n /\ n > 5         -> "challenge"
                            [] i > 1 /\ i < n /\ (i < relief \/ n <= 5)
                                      /\ (i > 2 \/ n <= 3)          -> "core"
  BY DEF AssignRoles
<1> HIDE DEF relief
<1> QED  BY <1>1, <1>2, <1>3

\* What GenerateContentSet answers.
Generated(r, in) ==
    LET max == EstimateItemCount(in, FilterContent(in))
        a   == AssignmentPhase(FilterContent(in), in, max).time
    IN  /\ IsSelections(r)
        /\ \A i \in 1..Len(r) : r[i].role \in Roles
        /\ TidyUpTo(r, Len(r))
        /\ r # << >> =>
               /\ \A i \in 1..Len(r) : r[i].content.id \notin in.seen
               /\ \A i, j \in 1..Len(r) : r[i].content.id = r[j].content.id => i = j
               /\ Len(r) <= max /\ max \in 5..20
               /\ SelectionTime(r) = a \/ SelectionTime(r) <= TimeLimit(in)

\* Roles change nothing else.
LEMMA RoleAdded ==
    ASSUME NEW C, \A c \in C : IsAtom(c), NEW s, IsPicks(s, C), NEW r,
           r = [i \in DOMAIN s |-> WithRole(s[i], AssignRoles(Len(s))[i])]
    PROVE  /\ IsSelections(r) /\ Len(r) = Len(s) /\ SelectionTime(r) = SelectionTime(s)
           /\ \A i \in 1..Len(s) : r[i].content = s[i].content /\ r[i].role \in Roles
<1> DEFINE n == Len(s)
<1>1. n \in Nat /\ DOMAIN s = 1..n /\ \A i \in 1..n : s[i].content \in C
  BY DEF IsPicks, IsPick
<1>2. \A i \in 1..n : /\ r[i].content = s[i].content
                      /\ r[i].role = AssignRoles(n)[i]
  BY <1>1 DEF WithRole
<1>3. DOMAIN r = 1..n /\ r = [i \in 1..n |-> r[i]]  BY <1>1
<1>4. r \in Seq(Range(r)) /\ Len(r) = n  BY <1>1, <1>3, FunctionSeq
<1>5. \A x \in Range(r) : IsAtom(x.content)
  <2> SUFFICES ASSUME NEW x \in Range(r) PROVE IsAtom(x.content)  OBVIOUS
  <2>1. PICK i \in 1..n : x = r[i]  BY <1>3 DEF Range
  <2> QED  BY <2>1, <1>1, <1>2
<1>6. \A i \in 1..n : r[i].role \in Roles  BY <1>1, <1>2, RoleIs
<1>7. SelectionTime(r) = SelectionTime(s)
  <2>1. [i \in DOMAIN r |-> Secs(r[i].content)] = [i \in DOMAIN s |-> Secs(s[i].content)]
    BY <1>1, <1>2, <1>3
  <2> QED  BY <2>1 DEF SelectionTime
<1> QED  BY <1>2, <1>4, <1>5, <1>6, <1>7 DEF IsSelections

LEMMA GeneratedIs ==
    ASSUME NEW in \in Inputs
    PROVE  Generated(GenerateContentSet(in), in)
<1> DEFINE content == FilterContent(in)
           C == Unseen(in)
           picked == SelectWithConstraints(content, in)
           s == EnforceVariety(picked)
           r == GenerateContentSet(in)
           max == EstimateItemCount(in, content)
           a == AssignmentPhase(content, in, max).time
<1>1. CASE content = << >>
  <2>1. r = << >>  BY <1>1 DEF GenerateContentSet
  <2>2. IsSelections(<< >>) /\ Len(<< >>) = 0 /\ TidyUpTo(<< >>, 0)
    BY DEF IsSelections, Range, TidyUpTo
  <2> HIDE DEF r
  <2>3. Generated(r, in)  BY <2>1, <2>2 DEF Generated
  <2> QED  BY <2>3 DEF r
<1>2. CASE content # << >>
  <2>1. r = [i \in DOMAIN s |-> WithRole(s[i], AssignRoles(Len(s))[i])]
    BY <1>2 DEF GenerateContentSet
  <2>2. \A c \in C : IsAtom(c)  BY FilterIs
  <2>3. /\ IsPicks(picked, C) /\ Len(picked) <= max
        /\ SelectionTime(picked) = a \/ SelectionTime(picked) <= TimeLimit(in)
    BY <1>2, SelectIs DEF Selected
  <2>4. max \in 5..20
    <3>1. content \in Seq(Unseen(in))  BY FilterIs
    <3> QED  BY <3>1, <1>2, EstimateIs
  <2> HIDE DEF picked, C
  <2>5. Reordered(s, picked, C) /\ TidyUpTo(s, Len(picked))  BY <2>2, <2>3, VarietyIs
  <2>6. /\ IsPicks(s, C) /\ Len(s) = Len(picked) /\ SelectionTime(s) = SelectionTime(picked)
        /\ TidyUpTo(s, Len(s))
    BY <2>5 DEF Reordered
  <2> HIDE DEF s, r
  <2>7. /\ IsSelections(r) /\ Len(r) = Len(s) /\ SelectionTime(r) = SelectionTime(s)
        /\ \A i \in 1..Len(s) : r[i].content = s[i].content /\ r[i].role \in Roles
    BY <2>1, <2>2, <2>6, RoleAdded
  <2>8. /\ Len(s) \in Nat /\ \A i \in 1..Len(s) : s[i].content \in C
        /\ \A i, j \in 1..Len(s) : s[i].content.id = s[j].content.id => i = j
    BY <2>6 DEF IsPicks, IsPick
  <2>9. TidyUpTo(r, Len(r))
    <3>1. \A i \in 1..Len(s) : TypeAt(r, i) = TypeAt(s, i)  BY <2>7 DEF TypeAt
    <3> SUFFICES ASSUME NEW k \in 1..Len(s), RunAt(r, k), NEW j \in k..Len(s)
                 PROVE  TypeAt(r, j) = TypeAt(r, k)
      BY <2>7 DEF TidyUpTo
    <3>2. k > 3 /\ \A d \in 1..3 : k - d \in 1..Len(s)  BY <2>8 DEF RunAt
    <3>3. RunAt(s, k)  BY <3>1, <3>2 DEF RunAt
    <3>4. TypeAt(s, j) = TypeAt(s, k)  BY <3>3, <2>6 DEF TidyUpTo
    <3>5. j \in 1..Len(s)  BY <2>8
    <3> QED  BY <3>1, <3>4, <3>5
  <2>10. \A i \in 1..Len(r) : r[i].content.id \notin in.seen
    <3>1. \A i \in 1..Len(s) : s[i].content.id \notin in.seen  BY <2>8 DEF C, Unseen
    <3> QED  BY <3>1, <2>7
  <2>11. \A i, j \in 1..Len(r) : r[i].content.id = r[j].content.id => i = j
    BY <2>7, <2>8
  <2>12. \A i \in 1..Len(r) : r[i].role \in Roles  BY <2>7
  <2>13. Len(r) <= max /\ (SelectionTime(r) = a \/ SelectionTime(r) <= TimeLimit(in))
    BY <2>3, <2>6, <2>7
  <2>14. Generated(r, in)
    <3> HIDE DEF a
    <3> QED  BY <2>4, <2>7, <2>9, <2>10, <2>11, <2>12, <2>13 DEF Generated, a, max, content
  <2> QED  BY <2>14 DEF r
<1> QED  BY <1>1, <1>2

-----------------------------------------------------------------------------
(* An answer                                                               *)

LEMMA NotBoth ==
    ASSUME NEW T, NEW answered \in Seq(T), IsStruggling(answered)
    PROVE  ~IsCoasting(answered)
<1> DEFINE n == Len(answered)
<1>1. n \in Nat /\ n >= 3  BY DEF IsStruggling
<1>2. ~LastOf(answered, 3)[3].right  BY DEF IsStruggling
<1>3. LastOf(answered, 3)[3] = answered[n]
  <2>1. LastOf(answered, 3) = SubSeq(answered, n - 3 + 1, n)  BY DEF LastOf
  <2>2. SubSeq(answered, n - 3 + 1, n)[3] = answered[n]  BY <1>1
  <2> QED  BY <2>1, <2>2
<1>4. SUFFICES ASSUME IsCoasting(answered) PROVE FALSE  OBVIOUS
<1>5. n >= 5 /\ LastOf(answered, 5)[5].right  BY <1>4 DEF IsCoasting
<1>6. LastOf(answered, 5)[5] = answered[n]
  <2>1. LastOf(answered, 5) = SubSeq(answered, n - 5 + 1, n)  BY DEF LastOf
  <2>2. SubSeq(answered, n - 5 + 1, n)[5] = answered[n]  BY <1>1, <1>5
  <2> QED  BY <2>1, <2>2
<1> QED  BY <1>2, <1>3, <1>5, <1>6

\* What u, which is s but for its r-th item, may be after these answered.
Steered(s, u, r, done, answered) ==
    LET old == s.items[r].content.diff
        new == u.items[r].content.diff
    IN  \/ IsStruggling(answered) /\ r = done + 1 /\ new <= old /\ u.items[r].hint = 1
        \/ ~IsStruggling(answered) /\ new >= old

\* What an answer makes of the session s.
Adapted(s, t, done, answered) ==
    \/ t = s /\ (IsStruggling(answered) => done >= Len(s.items))
    \/ \E r \in (done + 1)..Len(s.items) : \E u :
           /\ Sound(u) /\ Altered(s, u, r) /\ Steered(s, u, r, done, answered)
           /\ t = EnforceTimeBudget(u)

LEMMA AdaptedIs ==
    ASSUME NEW s, Sound(s), NEW done \in Nat, NEW answered, NEW pool, IsPool(pool)
    PROVE  Adapted(s, AdaptAndEnforceBudget(s, done, answered, pool), done, answered)
<1> DEFINE t == AdaptAndEnforceBudget(s, done, answered, pool)
           n == Len(s.items)
           hard == AdaptForStruggling(s, done, answered, pool)
           easy == AdaptForCoasting(s, done, pool)
<1>1. n \in Nat  BY ItemsLength DEF Sound, IsSession
<1>2. t = IF Struggles(s, done, answered) THEN EnforceTimeBudget(Recounted(hard))
          ELSE IF Coasts(s, done, answered, pool) THEN EnforceTimeBudget(Recounted(easy))
          ELSE s
  BY DEF AdaptAndEnforceBudget, Recounted
<1> HIDE DEF t, hard, easy
<1>3. CASE Struggles(s, done, answered)
  <2> DEFINE r == done + 1
             u == Recounted(hard)
  <2>1. done < n /\ IsStruggling(answered)  BY <1>3 DEF Struggles
  <2>2. r \in 1..n /\ r \in (done + 1)..n  BY <2>1, <1>1
  <2>3. /\ IsSession(hard) /\ Altered(s, hard, r)
        /\ hard.items[r].content.diff <= s.items[r].content.diff
        /\ hard.items[r].hint = 1
    BY <2>1, StrugglingIs DEF hard
  <2>4. t = EnforceTimeBudget(u)  BY <1>2, <1>3
  <2>5. r = done + 1  OBVIOUS
  <2> HIDE DEF r
  <2>6. Sound(u) /\ Altered(s, u, r) /\ u.items = hard.items  BY <2>2, <2>3, RecountedSound
  <2> HIDE DEF u
  <2>7. Steered(s, u, r, done, answered)  BY <2>1, <2>3, <2>5, <2>6 DEF Steered
  <2> QED  BY <2>2, <2>4, <2>6, <2>7 DEF Adapted, t
<1>4. CASE ~Struggles(s, done, answered) /\ Coasts(s, done, answered, pool)
  <2> DEFINE u == Recounted(easy)
  <2>1. done < n /\ ~IsStruggling(answered) /\ Hardenable(s, done, pool) # {}
    BY <1>4 DEF Struggles, Coasts
  <2>2. PICK r \in (done + 1)..n : /\ IsSession(easy) /\ Altered(s, easy, r)
                                   /\ easy.items[r].content.diff >= s.items[r].content.diff
    BY <2>1, CoastingIs DEF easy
  <2>3. r \in 1..n  BY <1>1
  <2>4. t = EnforceTimeBudget(u)  BY <1>2, <1>4
  <2>5. Sound(u) /\ Altered(s, u, r) /\ u.items = easy.items  BY <2>2, <2>3, RecountedSound
  <2> HIDE DEF u
  <2>6. Steered(s, u, r, done, answered)  BY <2>1, <2>2, <2>5 DEF Steered
  <2> QED  BY <2>2, <2>4, <2>5, <2>6 DEF Adapted, t
<1>5. CASE ~Struggles(s, done, answered) /\ ~Coasts(s, done, answered, pool)
  <2>1. t = s  BY <1>2, <1>5
  <2>2. IsStruggling(answered) => done >= n  BY <1>1, <1>5 DEF Struggles
  <2> QED  BY <2>1, <2>2 DEF Adapted, t
<1> QED  BY <1>3, <1>4, <1>5

LEMMA AdaptedSound ==
    ASSUME NEW s, Sound(s), NEW t, NEW done, NEW answered, Adapted(s, t, done, answered)
    PROVE  Sound(t) /\ (~Over(s) => Settled(t))
<1>1. CASE t = s  BY <1>1 DEF Settled
<1>2. CASE \E u : Sound(u) /\ t = EnforceTimeBudget(u)  BY <1>2, Enforced
<1> QED  BY <1>1, <1>2 DEF Adapted

\* What was answered is not touched.
LEMMA AdaptedFrozen ==
    ASSUME NEW s, Sound(s), ~Over(s), NEW t, NEW done \in Nat, done <= Len(s.items),
           NEW answered, Adapted(s, t, done, answered)
    PROVE  \A i \in 1..done : i <= Len(t.items) /\ t.items[i] = s.items[i]
<1>1. Len(s.items) \in Nat  BY ItemsLength DEF Sound, IsSession
<1>2. CASE t = s  BY <1>1, <1>2
<1>3. ASSUME NEW r \in (done + 1)..Len(s.items), NEW u, Sound(u), Altered(s, u, r),
             t = EnforceTimeBudget(u)
      PROVE  \A i \in 1..done : i <= Len(t.items) /\ t.items[i] = s.items[i]
  <2>1. Len(u.items) = Len(s.items) /\ u.budget = s.budget /\ r \in 1..Len(u.items)
    BY <1>1, <1>3 DEF Altered
  <2>2. \A i \in 1..(r - 1) : u.items[i] = s.items[i]
    <3>1. \A i \in 1..(r - 1) : i \in 1..Len(s.items) /\ i # r  BY <1>1
    <3> QED  BY <3>1, <1>3 DEF Altered
  <2>3. ASSUME NEW w, Sound(w), w.budget = u.budget, Len(w.items) = r - 1,
               \A i \in 1..(r - 1) : w.items[i] = u.items[i]
        PROVE  ~Over(w)
    <3>1. TotalTime(w.items) <= TotalTime(s.items)
      <4>1. IsItems(w.items) /\ IsItems(s.items)  BY <2>3 DEF Sound, IsSession
      <4>2. Len(w.items) <= Len(s.items)  BY <1>1, <2>3
      <4>3. \A i \in 1..Len(w.items) : w.items[i].secs = s.items[i].secs  BY <2>2, <2>3
      <4> QED  BY <4>1, <4>2, <4>3, TotalPrefix
    <3>2. /\ w.total = TotalTime(w.items) /\ s.total = TotalTime(s.items)
          /\ w.total \in Int /\ s.total \in Int /\ s.budget \in Int /\ w.budget = s.budget
      BY <2>1, <2>3 DEF Sound, IsSession
    <3>3. (115 * s.budget) \div 100 \in Int
      <4>1. \A a \in Int : (115 * a) \div 100 \in Int  OBVIOUS
      <4> QED  BY <4>1, <3>2
    <3> QED  BY <3>1, <3>2, <3>3 DEF Over
  <2>4. /\ Len(t.items) >= r - 1
        /\ \A i \in 1..(r - 1) : t.items[i] = u.items[i]
    BY <1>3, <2>1, <2>3, EnforcedFrozen
  <2>5. Len(t.items) \in Nat
    <3>1. Sound(t)  BY <1>3, Enforced
    <3> QED  BY <3>1, ItemsLength DEF Sound, IsSession
  <2> QED  BY <1>1, <2>2, <2>4, <2>5
<1> QED  BY <1>2, <1>3 DEF Adapted

\* The next item is made no harder for one who struggles, none is made
\* easier for one who is coasting.
LEMMA AdaptedRight ==
    ASSUME NEW s, Sound(s), NEW t, NEW done \in Nat, NEW T, NEW answered \in Seq(T),
           Adapted(s, t, done, answered), NEW i \in (done + 1)..Len(t.items)
    PROVE  LET old == s.items[i].content.diff
               new == t.items[i].content.diff
           IN  /\ IsStruggling(answered) /\ i = done + 1 => new <= old /\ t.items[i].hint = 1
               /\ IsCoasting(answered) => new >= old
<1>1. Len(s.items) \in Nat /\ IsItems(s.items)  BY ItemsLength DEF Sound, IsSession
<1>2. \A j \in 1..Len(s.items) : s.items[j].content.diff \in Int
  BY <1>1 DEF IsItems, IsItem, IsAtom
<1>3. CASE t = s /\ (IsStruggling(answered) => done >= Len(s.items))
  <2>1. i \in 1..Len(s.items) /\ ~(done >= Len(s.items))  BY <1>1, <1>3
  <2> QED  BY <2>1, <1>2, <1>3
<1>4. ASSUME NEW r \in (done + 1)..Len(s.items), NEW u, Sound(u), Altered(s, u, r),
             Steered(s, u, r, done, answered), t = EnforceTimeBudget(u)
      PROVE  /\ IsStruggling(answered) /\ i = done + 1
                    => /\ t.items[i].content.diff <= s.items[i].content.diff
                       /\ t.items[i].hint = 1
             /\ IsCoasting(answered) => t.items[i].content.diff >= s.items[i].content.diff
  <2>1. Begins(t, u) /\ Sound(t)  BY <1>4, Enforced
  <2>2. Len(t.items) \in Nat  BY <2>1, ItemsLength DEF Sound, IsSession
  <2>3. i \in 1..Len(t.items) /\ i \in 1..Len(s.items)
    BY <1>1, <1>4, <2>1, <2>2 DEF Begins, Altered
  <2>4. t.items[i].content = u.items[i].content /\ t.items[i].hint = u.items[i].hint
    BY <2>1, <2>3 DEF Begins, Shortened
  <2>5. i # r => u.items[i] = s.items[i]  BY <1>4, <2>3 DEF Altered
  <2>6. CASE IsStruggling(answered)
    <3>1. ~IsCoasting(answered)  BY <2>6, NotBoth
    <3>2. r = done + 1 /\ u.items[r].content.diff <= s.items[r].content.diff
          /\ u.items[r].hint = 1
      BY <1>4, <2>6 DEF Steered
    <3> QED  BY <3>1, <3>2, <2>4
  <2>7. CASE ~IsStruggling(answered)
    <3>1. u.items[r].content.diff >= s.items[r].content.diff  BY <1>4, <2>7 DEF Steered
    <3>2. CASE i = r  BY <3>1, <3>2, <2>4, <2>7
    <3>3. CASE i # r
      <4>1. t.items[i].content.diff = s.items[i].content.diff  BY <3>3, <2>4, <2>5
      <4>2. s.items[i].content.diff \in Int  BY <1>2, <2>3
      <4> QED  BY <4>1, <4>2, <2>7
    <3> QED  BY <3>2, <3>3
  <2> QED  BY <2>6, <2>7
<1> QED  BY <1>3, <1>4 DEF Adapted

-----------------------------------------------------------------------------
(* The inductive invariant and the theorems                                *)

IsResults(r) ==
    /\ r \in Seq(Range(r))
    /\ \A i \in 1..Len(r) : r[i].right \in BOOLEAN /\ r[i].fast \in BOOLEAN

\* The selection is what GenerateContentSet promises of this input; a session
\* in practice is sound, and before the first answer made of the selection.
SessionInv ==
    /\ input \in Inputs
    /\ phase \in {"select", "compose", "practice"}
    /\ IsResults(results)
    /\ phase = "select" => selections = << >>
    /\ phase # "practice" => results = << >> /\ session = NoSession
    /\ phase # "select" => Generated(selections, input)
    /\ phase = "practice" => Sound(session)
    /\ phase = "practice" /\ results = << >>
           => ComposedFrom(session, selections, input.minutes)

LEMMA PoolType ==
    ASSUME NEW in \in Inputs
    PROVE  IsPool(in.pool)
<1>1. in.pool \in Seq(Range(in.pool)) /\ \A c \in Range(in.pool) : IsAtom(c)
  BY InputsAssumption
<1>2. \A i \in DOMAIN in.pool : in.pool[i] \in Range(in.pool)  BY DEF Range
<1>3. Len(in.pool) \in Nat /\ DOMAIN in.pool = 1..Len(in.pool)  BY <1>1
<1> QED  BY <1>1, <1>2, <1>3 DEF IsPool

LEMMA ResultsAppend ==
    ASSUME NEW r, IsResults(r), NEW right \in BOOLEAN, NEW fast \in BOOLEAN, NEW skill
    PROVE  LET x == [right |-> right, fast |-> fast, skill |-> skill]
           IN  /\ IsResults(Append(r, x)) /\ Len(Append(r, x)) = Len(r) + 1
               /\ Append(r, x) # << >>
<1> DEFINE x == [right |-> right, fast |-> fast, skill |-> skill]
           u == Append(r, x)
           n == Len(r)
<1>1. n \in Nat /\ r \in Seq(Range(r))  BY DEF IsResults
<1>2. x.right \in BOOLEAN /\ x.fast \in BOOLEAN  OBVIOUS
<1> HIDE DEF x
<1>3. /\ Len(u) = n + 1 /\ DOMAIN u = 1..(n + 1) /\ u = [i \in 1..(n + 1) |-> u[i]]
      /\ u[n + 1] = x /\ \A i \in 1..n : u[i] = r[i]
  BY <1>1, AppendIs
<1> HIDE DEF u
<1>4. u \in Seq(Range(u)) /\ u # << >>
  <2>1. n + 1 \in Nat /\ n + 1 # 0  BY <1>1
  <2>2. u \in Seq(Range(u))  BY <2>1, <1>3, FunctionSeq
  <2> QED  BY <2>1, <2>2, <1>3
<1>5. \A i \in 1..(n + 1) : u[i].right \in BOOLEAN /\ u[i].fast \in BOOLEAN
  <2> SUFFICES ASSUME NEW i \in 1..(n + 1) PROVE u[i].right \in BOOLEAN /\ u[i].fast \in BOOLEAN
    OBVIOUS
  <2>1. CASE i \in 1..n  BY <2>1, <1>3 DEF IsResults
  <2>2. CASE i = n + 1  BY <2>2, <1>2, <1>3
  <2> QED  BY <2>1, <2>2, <1>1
<1> QED  BY <1>3, <1>4, <1>5 DEF IsResults, u, x

\* What an answer does to the session.
LEMMA AnswerIs ==
    ASSUME SessionInv, NEW right \in BOOLEAN, NEW fast \in BOOLEAN, Answer(right, fast)
    PROVE  /\ IsResults(results') /\ results' # << >>
           /\ Done' \in Nat /\ Done' <= Len(session.items)
           /\ Sound(session) /\ phase' = "practice"
           /\ Adapted(session, session', Done', results')
<1>1. phase = "practice" /\ Done < Smaller(MaxAnswers, Len(session.items)) /\ phase' = phase
  BY DEF Answer
<1>2. Sound(session) /\ Len(session.items) \in Nat /\ Done \in Nat
  BY <1>1, ItemsLength DEF SessionInv, Sound, IsSession, IsResults, Done
<1>3. Done < Len(session.items)
  <2>1. MaxAnswers \in Nat  BY InputsAssumption
  <2> QED  BY <1>1, <1>2, <2>1 DEF Smaller
<1> DEFINE x == [right |-> right, fast |-> fast, skill |-> session.items[Done + 1].skill]
<1>4. IsResults(results') /\ Len(results') = Len(results) + 1 /\ results' # << >>
  <2>1. results' = Append(results, x)  BY DEF Answer
  <2>2. IsResults(results)  BY DEF SessionInv
  <2> QED  BY <2>1, <2>2, ResultsAppend
<1>5. Done' = Done + 1  BY <1>4 DEF Done
<1>6. session' = AdaptAndEnforceBudget(session, Done', results', input.pool)
  BY <1>5 DEF Answer
<1>7. IsPool(input.pool)  BY PoolType DEF SessionInv
<1> HIDE DEF Done
<1>8. Done' \in Nat /\ Done' <= Len(session.items)  BY <1>2, <1>3, <1>5
<1>9. Adapted(session, session', Done', results')  BY <1>2, <1>6, <1>7, <1>8, AdaptedIs
<1> QED  BY <1>1, <1>2, <1>4, <1>8, <1>9

LEMMA InvInit == Init => SessionInv
<1> SUFFICES ASSUME Init PROVE SessionInv  OBVIOUS
<1>1. IsResults(<< >>)  BY DEF IsResults
<1> QED  BY <1>1 DEF Init, SessionInv

LEMMA InvStep == SessionInv /\ [Next]_vars => SessionInv'
<1> SUFFICES ASSUME SessionInv, [Next]_vars PROVE SessionInv'  OBVIOUS
<1>1. CASE Select
  <2>1. Generated(selections', input')  BY <1>1, GeneratedIs DEF Select, SessionInv
  <2> QED  BY <1>1, <2>1 DEF Select, SessionInv
<1>2. CASE Compose
  <2>1. IsSelections(selections)  BY <1>2 DEF Compose, SessionInv, Generated
  <2>2. input.minutes \in Int  BY InputsAssumption DEF SessionInv
  <2>3. ComposedFrom(session', selections, input.minutes)
    BY <1>2, <2>1, <2>2, ComposeSound DEF Compose
  <2>4. Sound(session')  BY <2>3 DEF ComposedFrom
  <2> QED  BY <1>2, <2>3, <2>4 DEF Compose, SessionInv
<1>3. ASSUME NEW right \in BOOLEAN, NEW fast \in BOOLEAN, Answer(right, fast)
      PROVE  SessionInv'
  <2>1. /\ IsResults(results') /\ results' # << >> /\ phase' = "practice"
        /\ Sound(session) /\ Adapted(session, session', Done', results')
    BY <1>3, AnswerIs
  <2>2. Sound(session')  BY <2>1, AdaptedSound
  <2>3. input' = input /\ selections' = selections /\ phase' = phase  BY <1>3 DEF Answer
  <2> QED  BY <2>1, <2>2, <2>3 DEF SessionInv
<1>4. CASE UNCHANGED vars  BY <1>4 DEF vars, SessionInv
<1> QED  BY <1>1, <1>2, <1>3, <1>4 DEF Next

LEMMA InvAlways == Spec => []SessionInv
BY InvInit, InvStep, PTL DEF Spec

\* A step of a session in practice is an answer or changes nothing.
LEMMA PracticeStep ==
    ASSUME SessionInv, [Next]_vars, phase = "practice"
    PROVE  \/ UNCHANGED vars
           \/ \E right, fast \in BOOLEAN : Answer(right, fast)
BY DEF Next, Select, Compose

\* Sums of times are not negative.
LEMMA TotalNat ==
    ASSUME NEW items, IsItems(items)
    PROVE  TotalTime(items) \in Nat
<1>1. IsItems(<< >>) /\ Len(<< >>) = 0  BY DEF IsItems, Range
<1>2. TotalTime(<< >>) = 0
  <2>1. [i \in DOMAIN << >> |-> << >>[i].secs] = << >>  OBVIOUS
  <2> QED  BY <2>1, SumEmpty DEF TotalTime
<1>3. Len(items) \in Nat  BY ItemsLength
<1>4. TotalTime(<< >>) <= TotalTime(items)  BY <1>1, <1>3, TotalPrefix
<1>5. TotalTime(items) \in Int  BY SecsOfType
<1> QED  BY <1>2, <1>4, <1>5

\* Every variable keeps its kind of value, for every catalogue and input: each
\* selection and each item of the composed, adapted and trimmed session has a
\* role of the arc, and no total or time becomes negative.
THEOREM SessionTyped == Spec => []TypeOK
<1>1. SessionInv => TypeOK
  <2> SUFFICES ASSUME SessionInv PROVE TypeOK  OBVIOUS
  <2>1. \A i \in DOMAIN selections : selections[i].role \in DOMAIN RoleDifficulty
    <3>1. CASE phase = "select"
      <4>1. DOMAIN selections = {}  BY <3>1 DEF SessionInv
      <4> QED  BY <4>1
    <3>2. CASE phase # "select"
      <4>1. /\ selections \in Seq(Range(selections))
            /\ \A i \in 1..Len(selections) : selections[i].role \in Roles
        BY <3>2 DEF SessionInv, Generated, IsSelections
      <4>2. DOMAIN selections = 1..Len(selections)  BY <4>1
      <4> QED  BY <4>1, <4>2 DEF Roles
    <3> QED  BY <3>1, <3>2
  <2>2. /\ \A i \in DOMAIN session.items :
               /\ session.items[i].role \in DOMAIN RoleDifficulty
               /\ session.items[i].hint \in 0..1
               /\ session.items[i].secs \in Nat
        /\ session.total \in Nat
    <3>1. CASE phase # "practice"
      <4>1. session.items = << >> /\ session.total = 0  BY <3>1 DEF SessionInv, NoSession
      <4> QED  BY <4>1
    <3>2. CASE phase = "practice"
      <4>1. IsItems(session.items) /\ session.total = TotalTime(session.items)
        BY <3>2 DEF SessionInv, Sound, IsSession
      <4>2. DOMAIN session.items = 1..Len(session.items)  BY <4>1, ItemsLength
      <4>3. session.total \in Nat  BY <4>1, TotalNat
      <4> QED  BY <4>1, <4>2, <4>3 DEF IsItems, IsItem, Roles
    <3> QED  BY <3>1, <3>2
  <2>3. \A i \in DOMAIN results : results[i].right \in BOOLEAN /\ results[i].fast \in BOOLEAN
    BY DEF SessionInv, IsResults
  <2> QED  BY <2>1, <2>2, <2>3 DEF TypeOK, SessionInv
<1> QED  BY <1>1, InvAlways, PTL

\* As many atoms as selections.
LEMMA DistinctIds ==
    ASSUME NEW s, s \in Seq(Range(s)),
           \A i, j \in 1..Len(s) : s[i].content.id = s[j].content.id => i = j
    PROVE  Cardinality({s[i].content.id : i \in DOMAIN s}) = Len(s)
<1> DEFINE n == Len(s)
           Ids == {s[i].content.id : i \in DOMAIN s}
           f == [i \in 1..n |-> s[i].content.id]
<1>1. n \in Nat /\ DOMAIN s = 1..n  OBVIOUS
<1>2. f \in [1..n -> Ids]  BY <1>1
<1>3. \A i, j \in 1..n : f[i] = f[j] => i = j  OBVIOUS
<1>4. \A x \in Ids : \E i \in 1..n : f[i] = x  BY <1>1
<1> HIDE DEF f, Ids
<1> HIDE DEF n
<1>5. ExistsBijection(1..n, Ids)
  <2>1. f \in Injection(1..n, Ids)  BY <1>2, <1>3 DEF Injection, IsInjective
  <2>2. f \in Surjection(1..n, Ids)  BY <1>2, <1>4 DEF Surjection
  <2> QED  BY <2>1, <2>2 DEF ExistsBijection, Bijection
<1>6. Cardinality(Ids) = n  BY <1>1, <1>5, FS_CountingElements
<1> QED  BY <1>6 DEF n, Ids

\* For every catalogue, learner and assignment the selection has no atom
\* twice and none seen lately, stays within the estimated number of items,
\* and within 115% of the budget once the assignment's items are.
THEOREM SelectionKept == Spec => []SelectionSound
<1>1. SessionInv => SelectionSound
  <2> SUFFICES ASSUME SessionInv, phase # "select", selections # << >> PROVE SelectionSound
    BY DEF SelectionSound
  <2> DEFINE Ids == {selections[i].content.id : i \in DOMAIN selections}
             max == EstimateItemCount(input, FilterContent(input))
             a == AssignmentPhase(FilterContent(input), input, max).time
  <2>1. /\ selections \in Seq(Range(selections))
        /\ \A i \in 1..Len(selections) : selections[i].content.id \notin input.seen
        /\ \A i, j \in 1..Len(selections) :
               selections[i].content.id = selections[j].content.id => i = j
        /\ Len(selections) <= max
        /\ SelectionTime(selections) = a \/ SelectionTime(selections) <= TimeLimit(input)
    BY DEF SessionInv, Generated, IsSelections
  <2>2. Cardinality(Ids) = Len(selections)  BY <2>1, DistinctIds
  <2>3. Ids \cap input.seen = {}
    <3>1. DOMAIN selections = 1..Len(selections)  BY <2>1
    <3> QED  BY <3>1, <2>1
  <2> HIDE DEF max, a, Ids
  <2> QED  BY <2>1, <2>2, <2>3 DEF SelectionSound, max, a, Ids
<1> QED  BY <1>1, InvAlways, PTL

\* Whatever list the phases choose, the sweeps leave a run of four only where
\* nothing of another type follows.
THEOREM RunsBroken == Spec => []RunsOnlyAtTheEnd
<1>1. SessionInv => RunsOnlyAtTheEnd
  <2> SUFFICES ASSUME SessionInv PROVE RunsOnlyAtTheEnd  OBVIOUS
  <2>1. CASE phase = "select"
    <3>1. DOMAIN selections = {}  BY <2>1 DEF SessionInv
    <3> QED  BY <3>1 DEF RunsOnlyAtTheEnd
  <2>2. CASE phase # "select"
    <3>1. selections \in Seq(Range(selections)) /\ TidyUpTo(selections, Len(selections))
      BY <2>2 DEF SessionInv, Generated, IsSelections
    <3>2. DOMAIN selections = 1..Len(selections)  BY <3>1
    <3> QED  BY <3>1, <3>2 DEF RunsOnlyAtTheEnd, TidyUpTo
  <2> QED  BY <2>1, <2>2
<1> QED  BY <1>1, InvAlways, PTL

\* For every selection, template and number of items a composed session has
\* each selection once, no slot empty, and the selections' time.
THEOREM NothingDropped == Spec => []ComposedWhole
<1>1. SessionInv => ComposedWhole
  <2> SUFFICES ASSUME SessionInv, phase = "practice", results = << >> PROVE ComposedWhole
    BY DEF ComposedWhole
  <2>1. ComposedFrom(session, selections, input.minutes)  BY DEF SessionInv
  <2>2. DOMAIN selections = 1..Len(selections)
    <3>1. selections \in Seq(Range(selections))  BY DEF SessionInv, Generated, IsSelections
    <3> QED  BY <3>1
  <2>3. DOMAIN session.items = 1..Len(selections)
    BY <2>1, ItemsLength DEF ComposedFrom, Sound, IsSession
  <2>4. {session.items[i].content : i \in DOMAIN session.items}
            = {selections[i].content : i \in DOMAIN selections}
    <3> DEFINE n == Len(selections)
               old(k) == selections[k].content
               new(i) == session.items[i].content
    <3>1. /\ \A i \in 1..n : \E k \in 1..n : new(i) = old(k)
          /\ \A k \in 1..n : \E i \in 1..n : new(i) = old(k)
      BY <2>1 DEF ComposedFrom
    <3> HIDE DEF old, new, n
    <3>2. {new(i) : i \in 1..n} = {old(k) : k \in 1..n}  BY <3>1
    <3> QED  BY <3>2, <2>2, <2>3 DEF old, new, n
  <2> QED  BY <2>1, <2>4 DEF ComposedFrom, ComposedWhole
<1> QED  BY <1>1, InvAlways, PTL

\* No answer, whatever is replaced, cut or dropped after it, makes the total
\* differ from the sum of the items, or takes a session over its budget.
THEOREM BudgetAlwaysKept == Spec => BudgetKept
<1> DEFINE Step == phase = "practice" =>
                       /\ session'.total = TotalTime(session'.items)
                       /\ ~Over(session) => \/ ~Over(session')
                                            \/ Len(session'.items) <= 2
                                            \/ \A i \in 2..Len(session'.items) :
                                                   session'.items[i].role = "warmup"
<1>1. SessionInv /\ [Next]_vars => [Step]_vars
  <2> SUFFICES ASSUME SessionInv, [Next]_vars, phase = "practice", ~(UNCHANGED vars) PROVE Step
    OBVIOUS
  <2>1. PICK right, fast \in BOOLEAN : Answer(right, fast)  BY PracticeStep
  <2>2. Sound(session) /\ Adapted(session, session', Done', results')  BY <2>1, AnswerIs
  <2>3. Sound(session') /\ (~Over(session) => Settled(session'))  BY <2>2, AdaptedSound
  <2> QED  BY <2>3 DEF Sound, Settled
<1> QED  BY <1>1, InvAlways, PTL DEF Spec, BudgetKept

\* Adapting the rest of a session leaves what was answered as it was, for
\* every number of answers, when the session was composed within its budget.
THEOREM AnsweredKept == Spec => AnsweredFrozen
<1> DEFINE Step == phase = "practice" /\ ~Over(session) =>
                       \A i \in 1..Done' : /\ i <= Len(session'.items)
                                           /\ session'.items[i] = session.items[i]
<1>1. SessionInv /\ [Next]_vars => [Step]_vars
  <2> SUFFICES ASSUME SessionInv, [Next]_vars, phase = "practice", ~Over(session),
                      ~(UNCHANGED vars)
               PROVE  Step
    OBVIOUS
  <2>1. PICK right, fast \in BOOLEAN : Answer(right, fast)  BY PracticeStep
  <2>2. /\ Sound(session) /\ Adapted(session, session', Done', results')
        /\ Done' \in Nat /\ Done' <= Len(session.items)
    BY <2>1, AnswerIs
  <2> QED  BY <2>2, AdaptedFrozen
<1> QED  BY <1>1, InvAlways, PTL DEF Spec, AnsweredFrozen

\* Three wrong answers never make the next item harder and give it a hint,
\* five fast right ones make no item easier, in every pool of variants.
THEOREM AdaptedTheRightWay == Spec => AdaptsTheRightWay
<1> DEFINE Step == phase = "practice" =>
                       \A i \in (Done' + 1)..Len(session'.items) :
                           LET old == session.items[i].content.diff
                               new == session'.items[i].content.diff
                           IN  /\ IsStruggling(results') /\ i = Done' + 1 =>
                                      new <= old /\ session'.items[i].hint = 1
                               /\ IsCoasting(results') => new >= old
<1>1. SessionInv /\ [Next]_vars => [Step]_vars
  <2> SUFFICES ASSUME SessionInv, [Next]_vars, phase = "practice", ~(UNCHANGED vars) PROVE Step
    OBVIOUS
  <2>1. PICK right, fast \in BOOLEAN : Answer(right, fast)  BY PracticeStep
  <2>2. /\ Sound(session) /\ Adapted(session, session', Done', results')
        /\ Done' \in Nat /\ results' \in Seq(Range(results'))
    BY <2>1, AnswerIs DEF IsResults
  <2> QED  BY <2>2, AdaptedRight
<1> QED  BY <1>1, InvAlways, PTL DEF Spec, AdaptsTheRightWay
=============================================================================
