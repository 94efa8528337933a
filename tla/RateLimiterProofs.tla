------------------------- MODULE RateLimiterProofs -------------------------
(***************************************************************************)
(* What holds of RateLimiter for every number of users, limits, window     *)
(* lengths and tick granularities.                                         *)
(***************************************************************************)
EXTENDS RateLimiter, TLAPS

\* Retry-After rounds up: it outlasts what remains of the window.
LEMMA RetryAfterOutlasts ==
    ASSUME NEW rem \in Nat, NEW k \in Nat \ {0}
    PROVE  rem < ((rem \div k) + 1) * k /\ ((rem \div k) + 1) * k \in Nat
<1>1. rem \div k \in Int /\ rem % k \in 0..(k - 1) /\ rem = k * (rem \div k) + (rem % k)
  BY SMT
<1> DEFINE q == rem \div k
<1>2. q \in Int /\ k * q <= rem /\ rem < k * q + k  BY <1>1, SMT
<1> HIDE DEF q
<1>3. (q + 1) * k = k * q + k  BY <1>2, SMT
<1>4. rem < (q + 1) * k /\ (q + 1) * k \in Int  BY <1>2, <1>3, SMT
<1> QED  BY <1>4, SMT DEF q

\* What a step of the limiter keeps: types, and an advice that ends after the
\* window it was given in.
Inv ==
    /\ TypeOK
    /\ \A u \in Users : advised[u] # 0 => windows[u].end < advised[u]

\* Initially no advice was given.
LEMMA InvInit == MaxTime >= 1 /\ Init => Inv
BY LimitsAssumption DEF Init, Inv, TypeOK

\* The window a request falls into is well typed and not over.
LEMMA WindowForType ==
    ASSUME TypeOK, NEW u \in Users
    PROVE  /\ WindowFor(u) \in [count : Nat, end : Nat]
           /\ now <= WindowFor(u).end /\ WindowFor(u).end <= now + Window
BY LimitsAssumption DEF TypeOK, WindowFor

\* Every request and every tick keeps Inv.
LEMMA InvStep == Inv /\ [Next]_vars => Inv'
<1> SUFFICES ASSUME Inv, [Next]_vars PROVE Inv'  OBVIOUS
<1> USE LimitsAssumption
<1>1. ASSUME NEW u \in Users, NEW tier \in TiersOf[u], Request(u, tier) PROVE Inv'
  <2> DEFINE w == [WindowFor(u) EXCEPT !.count = @ + 1]
  <2>1. w \in [count : Nat, end : Nat] /\ now <= w.end /\ w.end <= now + Window
    BY <1>1, WindowForType DEF Inv
  <2>2. windows' = [windows EXCEPT ![u] = w] /\ now' = now
    BY <1>1 DEF Request
  <2>3. \/ /\ advised' = [advised EXCEPT ![u] = now + RetryAfter(w.end) * TicksPerSecond]
           /\ admitted' = admitted
        \/ /\ advised' = [advised EXCEPT ![u] = 0]
           /\ admitted' = [admitted EXCEPT ![u] = Append(@, now)]
    BY <1>1 DEF Request
  <2> HIDE DEF w
  <2>4. now \in 1..MaxTime  BY DEF Inv, TypeOK
  <2> DEFINE rem == w.end - now
             wait == RetryAfter(w.end) * TicksPerSecond
             adv == now + wait
  <2>5. w.end \in Nat /\ now \in Nat /\ rem \in Nat /\ w.end = now + rem
    BY <2>1, <2>4
  <2>6. wait \in Nat /\ rem < wait
    <3>1. wait = ((rem \div TicksPerSecond) + 1) * TicksPerSecond
      BY DEF RetryAfter
    <3> HIDE DEF rem, wait
    <3> QED  BY <3>1, <2>5, RetryAfterOutlasts
  <2> HIDE DEF rem, wait
  <2>7. adv \in Nat /\ w.end < adv  BY <2>5, <2>6
  <2>a. advised' = [advised EXCEPT ![u] = adv] \/ advised' = [advised EXCEPT ![u] = 0]
    BY <2>3 DEF wait
  <2> HIDE DEF adv
  <2>8. windows' \in [Users -> [count : Nat, end : Nat]]
        /\ \A v \in Users : windows'[v].end <= now' + Window
    BY <2>1, <2>2 DEF Inv, TypeOK
  <2>9. advised' \in [Users -> Nat]
    <3>1. advised \in [Users -> Nat]  BY DEF Inv, TypeOK
    <3> QED  BY <2>a, <2>7, <3>1
  <2>10. admitted' \in [Users -> Seq(1..MaxTime)]
    <3>1. admitted \in [Users -> Seq(1..MaxTime)]  BY DEF Inv, TypeOK
    <3>2. Append(admitted[u], now) \in Seq(1..MaxTime)  BY <3>1, <2>4
    <3> QED  BY <2>3, <3>1, <3>2
  <2>11. \A v \in Users : advised'[v] # 0 => windows'[v].end < advised'[v]
    BY <2>1, <2>2, <2>a, <2>7 DEF Inv, TypeOK
  <2> QED  BY <2>2, <2>4, <2>8, <2>9, <2>10, <2>11 DEF Inv, TypeOK
<1>2. CASE Tick
  BY <1>2 DEF Tick, Inv, TypeOK
<1>3. CASE UNCHANGED vars
  BY <1>3 DEF vars, Inv, TypeOK
<1> QED  BY <1>1, <1>2, <1>3 DEF Next

\* A client that waits as long as Retry-After said finds a fresh window.
THEOREM RetryAfterHonest == MaxTime >= 1 /\ Spec => []RetryAfterSuffices
<1>1. MaxTime >= 1 /\ Init => Inv  BY InvInit
<1>2. Inv /\ [Next]_vars => Inv'  BY InvStep
<1>3. Inv => RetryAfterSuffices  BY DEF Inv, TypeOK, RetryAfterSuffices
<1> QED  BY <1>1, <1>2, <1>3, PTL DEF Spec

\* Types, and windows that reach no further than their length.
THEOREM TypeCorrect == MaxTime >= 1 /\ Spec => []TypeOK
<1>1. MaxTime >= 1 /\ Init => Inv  BY InvInit
<1>2. Inv /\ [Next]_vars => Inv'  BY InvStep
<1>3. Inv => TypeOK  BY DEF Inv
<1> QED  BY <1>1, <1>2, <1>3, PTL DEF Spec

----------------------------------------------------------------------------
(* Bursts.                                                                 *)

\* A user's highest limit is one of the two, and no tier's is higher.
LEMMA HighestLimitBounds ==
    ASSUME NEW u \in Users
    PROVE  /\ HighestLimit(u) \in Nat \ {0}
           /\ \A tier \in TiersOf[u] : Limit(tier) \in 1..HighestLimit(u)
<1> DEFINE S == {FreeLimit} \union {Limit(tier) : tier \in TiersOf[u]}
<1>1. \A x \in S : x \in {FreeLimit, PremiumLimit}  BY DEF Limit
<1>2. \E x \in S : \A y \in S : x >= y
  <2>1. CASE PremiumLimit \in S  BY <2>1, <1>1, LimitsAssumption
  <2>2. CASE PremiumLimit \notin S
    <3>1. FreeLimit \in S /\ \A y \in S : y = FreeLimit  BY <2>2, <1>1
    <3> QED  BY <3>1, LimitsAssumption
  <2> QED  BY <2>1, <2>2
<1>3. HighestLimit(u) \in S /\ \A y \in S : HighestLimit(u) >= y
  BY <1>2 DEF HighestLimit, Max
<1>4. \A tier \in TiersOf[u] : Limit(tier) \in S  OBVIOUS
<1> HIDE DEF S
<1> QED  BY <1>1, <1>3, <1>4, LimitsAssumption

\* How many of a user's last requests may have been let through in a window
\* that has counted c of them, of which at most n pass.
Recent(c, n) == IF c < n THEN c ELSE n

\* The requests let through, s, against the current window of a user, which
\* ends at e and has counted c: all came by its end; all but the Recent ones
\* came before it began; and all but those and n more came before the window
\* before it began.
BurstInv(s, c, e, n) ==
    /\ e = 0 => s = <<>>
    /\ e # 0 => e > Window /\ e <= now + Window
    /\ \A i \in 1..Len(s) :
         /\ s[i] <= e
         /\ i + Recent(c, n) <= Len(s) => s[i] + Window < e
         /\ i + Recent(c, n) + n <= Len(s) => s[i] + Window + Window < e

\* No 2n + 1 of them lie within one window length.
Spread(s, n) ==
    \A i, j \in 1..Len(s) : j = i + 2 * n => s[j] > s[i] + Window

\* A window length as a number.
LEMMA WindowNat == Window \in Nat /\ Window > 0
BY LimitsAssumption

\* What Append does to a sequence of ticks.
LEMMA AppendTick ==
    ASSUME NEW s \in Seq(Nat), NEW x \in Nat
    PROVE  /\ Append(s, x) \in Seq(Nat) /\ Len(s) \in Nat /\ Len(Append(s, x)) = Len(s) + 1
           /\ Append(s, x)[Len(s) + 1] = x
           /\ \A i \in 1..Len(s) : Append(s, x)[i] = s[i] /\ s[i] \in Nat
OBVIOUS

\* One more request than those in s, at tick x: what lies m and m + n behind
\* its end came Window and twice Window before e.
LEMMA AppendBurst ==
    ASSUME NEW s \in Seq(Nat), NEW n \in Nat \ {0}, NEW k \in 1..n,
           NEW x \in Nat, NEW e \in Nat, x <= e, e <= x + Window,
           \A i \in 1..Len(s) :
             /\ s[i] <= e
             /\ i + k <= Len(s) + 1 => s[i] + Window < e
             /\ i + k + n <= Len(s) + 1 => s[i] + Window + Window < e,
           Spread(s, n)
    PROVE  /\ \A i \in 1..Len(Append(s, x)) :
                /\ Append(s, x)[i] <= e
                /\ i + k <= Len(Append(s, x)) => Append(s, x)[i] + Window < e
                /\ i + k + n <= Len(Append(s, x)) => Append(s, x)[i] + Window + Window < e
           /\ Spread(Append(s, x), n)
<1> DEFINE a == Append(s, x)
           l == Len(s)
<1>1. /\ l \in Nat /\ Len(a) = l + 1 /\ a[l + 1] = x
      /\ \A i \in 1..l : a[i] = s[i] /\ s[i] \in Nat
  BY AppendTick
<1>2. \A i \in 1..l : /\ s[i] <= e
                      /\ i + k <= l + 1 => s[i] + Window < e
                      /\ i + k + n <= l + 1 => s[i] + Window + Window < e
  OBVIOUS
<1> HIDE DEF a, l
<1>3. ASSUME NEW i \in 1..(l + 1)
      PROVE  /\ a[i] <= e
             /\ i + k <= l + 1 => a[i] + Window < e
             /\ i + k + n <= l + 1 => a[i] + Window + Window < e
  <2>1. CASE i = l + 1  BY <2>1, <1>1
  <2>2. CASE i \in 1..l
    <3>1. a[i] = s[i]  BY <2>2, <1>1
    <3> QED  BY <2>2, <3>1, <1>2
  <2> QED  BY <2>1, <2>2, <1>1
<1>4. ASSUME NEW i \in 1..(l + 1), NEW j \in 1..(l + 1), j = i + 2 * n
      PROVE  a[j] > a[i] + Window
  <2>0. i \in 1..l  BY <1>4, <1>1
  <2>1. CASE j \in 1..l
    <3>1. s[j] > s[i] + Window  BY <2>0, <2>1, <1>4 DEF Spread, l
    <3> QED  BY <2>0, <2>1, <3>1, <1>1
  <2>2. CASE j = l + 1
    <3>1. i + k + n <= l + 1  BY <2>2, <1>4, <1>1
    <3>2. s[i] + Window + Window < e /\ a[i] = s[i] /\ s[i] \in Nat /\ a[j] = x
      BY <2>0, <2>2, <3>1, <1>1, <1>2
    <3> DEFINE y == s[i]
    <3> HIDE DEF y
    <3>3. y + Window + Window < e /\ y \in Nat /\ a[i] = y /\ a[j] = x  BY <3>2 DEF y
    <3>4. x > y + Window  BY <3>3, WindowNat
    <3> QED  BY <3>3, <3>4
  <2> QED  BY <2>1, <2>2, <1>1
<1> QED  BY <1>1, <1>3, <1>4 DEF Spread, a

\* A request in the current window.
LEMMA BurstSame ==
    ASSUME NEW s \in Seq(Nat), NEW n \in Nat \ {0}, now \in Nat \ {0},
           NEW c \in Nat, NEW e \in Nat \ {0}, now <= e,
           BurstInv(s, c, e, n), Spread(s, n)
    PROVE  /\ BurstInv(s, c + 1, e, n)
           /\ c + 1 <= n => /\ BurstInv(Append(s, now), c + 1, e, n)
                            /\ Spread(Append(s, now), n)
<1> DEFINE m == Recent(c, n)
           k == Recent(c + 1, n)
<1>1. m \in 0..n /\ k \in 1..n /\ m <= k /\ (c + 1 <= n => k = m + 1)  BY DEF Recent
<1>2. /\ e > Window /\ e <= now + Window
      /\ \A i \in 1..Len(s) :
           /\ s[i] <= e
           /\ i + m <= Len(s) => s[i] + Window < e
           /\ i + m + n <= Len(s) => s[i] + Window + Window < e
  BY DEF BurstInv
<1> HIDE DEF m, k
<1>3. Len(s) \in Nat  OBVIOUS
<1>4. BurstInv(s, c + 1, e, n)
  <2>1. \A i \in 1..Len(s) :
          /\ i + k <= Len(s) => i + m <= Len(s)
          /\ i + k + n <= Len(s) => i + m + n <= Len(s)
    BY <1>1, <1>3
  <2> QED  BY <1>2, <2>1 DEF BurstInv, k
<1>5. ASSUME c + 1 <= n PROVE BurstInv(Append(s, now), c + 1, e, n) /\ Spread(Append(s, now), n)
  <2>1. k = m + 1  BY <1>1, <1>5
  <2>2. \A i \in 1..Len(s) :
          /\ i + k <= Len(s) + 1 => i + m <= Len(s)
          /\ i + k + n <= Len(s) + 1 => i + m + n <= Len(s)
    BY <1>1, <1>3, <2>1
  <2>3. \A i \in 1..Len(s) :
          /\ s[i] <= e
          /\ i + k <= Len(s) + 1 => s[i] + Window < e
          /\ i + k + n <= Len(s) + 1 => s[i] + Window + Window < e
    BY <1>2, <2>2
  <2>4. /\ \A i \in 1..Len(Append(s, now)) :
             /\ Append(s, now)[i] <= e
             /\ i + k <= Len(Append(s, now)) => Append(s, now)[i] + Window < e
             /\ i + k + n <= Len(Append(s, now)) => Append(s, now)[i] + Window + Window < e
        /\ Spread(Append(s, now), n)
    BY <1>1, <1>2, <2>3, AppendBurst
  <2> QED  BY <1>2, <2>4 DEF BurstInv, k
<1> QED  BY <1>4, <1>5

\* A request that opens a window: the first of a user, or the first after the
\* end of the last window.
LEMMA BurstFresh ==
    ASSUME NEW s \in Seq(Nat), NEW n \in Nat \ {0}, now \in Nat \ {0},
           NEW c \in Nat, NEW e \in Nat, e = 0 \/ now > e,
           BurstInv(s, c, e, n), Spread(s, n)
    PROVE  BurstInv(Append(s, now), 1, now + Window, n) /\ Spread(Append(s, now), n)
<1> DEFINE m == Recent(c, n)
           f == now + Window
<1>1. m \in 0..n /\ Recent(1, n) = 1  BY DEF Recent
<1>2. Len(s) \in Nat /\ \A i \in 1..Len(s) : s[i] \in Nat  OBVIOUS
<1>3. \A i \in 1..Len(s) : s[i] < now /\ (i + n <= Len(s) => s[i] + Window < now)
  <2>1. CASE e = 0
    <3>1. Len(s) = 0  BY <2>1 DEF BurstInv
    <3> QED  BY <3>1
  <2>2. CASE now > e
    <3>1. \A i \in 1..Len(s) : s[i] <= e /\ (i + m <= Len(s) => s[i] + Window < e)
      BY DEF BurstInv
    <3>2. \A i \in 1..Len(s) : i + n <= Len(s) => i + m <= Len(s)
      BY <1>1, <1>2
    <3> HIDE DEF m
    <3> QED  BY <2>2, <3>1, <3>2, <1>2, WindowNat
  <2> QED  BY <2>1, <2>2
<1>4. f \in Nat /\ f > Window /\ f <= now + Window /\ now <= f  BY WindowNat
<1>5. \A i \in 1..Len(s) :
        /\ s[i] <= f
        /\ i + 1 <= Len(s) + 1 => s[i] + Window < f
        /\ i + 1 + n <= Len(s) + 1 => s[i] + Window + Window < f
  <2> SUFFICES ASSUME NEW i \in 1..Len(s), NEW y \in Nat, y = s[i], NEW l \in Nat, l = Len(s)
               PROVE  /\ y <= f
                      /\ y + Window < f
                      /\ i + 1 + n <= l + 1 => y + Window + Window < f
    BY <1>2
  <2>1. y < now /\ (i + n <= l => y + Window < now)  BY <1>3
  <2> QED  BY <2>1, WindowNat, SMTT(30)
<1> HIDE DEF f
<1>6. /\ \A i \in 1..Len(Append(s, now)) :
           /\ Append(s, now)[i] <= f
           /\ i + 1 <= Len(Append(s, now)) => Append(s, now)[i] + Window < f
           /\ i + 1 + n <= Len(Append(s, now)) => Append(s, now)[i] + Window + Window < f
      /\ Spread(Append(s, now), n)
  <2>1. 1 \in 1..n  OBVIOUS
  <2> QED  BY <2>1, <1>4, <1>5, AppendBurst
<1>7. f > 0  BY <1>4, WindowNat
<1>8. BurstInv(Append(s, now), 1, f, n)  BY <1>1, <1>4, <1>6, <1>7 DEF BurstInv
<1> QED  BY <1>6, <1>8 DEF f

\* What bounds the bursts, for every user.
Bursts ==
    \A u \in Users : /\ BurstInv(admitted[u], windows[u].count, windows[u].end, HighestLimit(u))
                     /\ Spread(admitted[u], HighestLimit(u))

\* Initially nothing was let through.
LEMMA BurstsInit == Init => Bursts
BY DEF Init, Bursts, BurstInv, Spread

\* Every request and every tick keeps Bursts.
LEMMA BurstsStep == Inv /\ Bursts /\ [Next]_vars => Bursts'
<1> SUFFICES ASSUME Inv, Bursts, [Next]_vars PROVE Bursts'  OBVIOUS
<1> USE LimitsAssumption
<1>t. /\ now \in Nat \ {0}
      /\ \A u \in Users : /\ windows[u] \in [count : Nat, end : Nat]
                          /\ admitted[u] \in Seq(Nat)
  BY DEF Inv, TypeOK
<1>1. ASSUME NEW u \in Users, NEW tier \in TiersOf[u], Request(u, tier) PROVE Bursts'
  <2> DEFINE w == windows[u]
             v == [WindowFor(u) EXCEPT !.count = @ + 1]
             s == admitted[u]
             n == HighestLimit(u)
  <2>1. v \in [count : Nat, end : Nat] /\ v.count = WindowFor(u).count + 1
        /\ v.end = WindowFor(u).end
    BY WindowForType DEF Inv
  <2>2. /\ windows' = [windows EXCEPT ![u] = v] /\ now' = now
        /\ \/ v.count > Limit(tier) /\ admitted' = admitted
           \/ v.count <= Limit(tier) /\ admitted' = [admitted EXCEPT ![u] = Append(s, now)]
    BY <1>1 DEF Request
  <2>3. n \in Nat \ {0} /\ Limit(tier) \in 1..n  BY HighestLimitBounds
  <2>4. BurstInv(s, w.count, w.end, n) /\ Spread(s, n) /\ w \in [count : Nat, end : Nat] /\ s \in Seq(Nat)
    BY <1>t DEF Bursts
  <2>5. \/ (w.end = 0 \/ now > w.end) /\ v.count = 1 /\ v.end = now + Window
        \/ w.end # 0 /\ now <= w.end /\ v.count = w.count + 1 /\ v.end = w.end
    BY <2>1, <1>t DEF WindowFor
  <2>6. windows'[u] = v /\ \A x \in Users : x # u => windows'[x] = windows[x]
    BY <2>2 DEF Inv, TypeOK
  <2>7. \A x \in Users : x # u => admitted'[x] = admitted[x]
    BY <2>2 DEF Inv, TypeOK
  <2>8. \/ v.count > Limit(tier) /\ admitted'[u] = s
        \/ v.count <= Limit(tier) /\ admitted'[u] = Append(s, now)
    BY <2>2 DEF Inv, TypeOK
  <2> HIDE DEF w, v, s, n
  <2>9. BurstInv(admitted'[u], v.count, v.end, n) /\ Spread(admitted'[u], n)
    <3>1. CASE (w.end = 0 \/ now > w.end) /\ v.count = 1 /\ v.end = now + Window
      <4>1. admitted'[u] = Append(s, now)  BY <3>1, <2>3, <2>8
      <4>2. w.count \in Nat /\ w.end \in Nat  BY <2>4
      <4>3. /\ BurstInv(Append(s, now), 1, now + Window, n)
            /\ Spread(Append(s, now), n)
        BY <3>1, <4>2, <2>3, <2>4, <1>t, BurstFresh
      <4> QED  BY <3>1, <4>1, <4>3
    <3>2. CASE w.end # 0 /\ now <= w.end /\ v.count = w.count + 1 /\ v.end = w.end
      <4>1. /\ BurstInv(s, v.count, v.end, n)
            /\ v.count <= n => /\ BurstInv(Append(s, now), v.count, v.end, n)
                               /\ Spread(Append(s, now), n)
        <5>1. w.count \in Nat /\ w.end \in Nat \ {0} /\ now <= w.end  BY <3>2, <2>4
        <5> QED  BY <3>2, <5>1, <2>3, <2>4, <1>t, BurstSame
      <4>2. v.count <= Limit(tier) => v.count <= n  BY <2>1, <2>3
      <4> QED  BY <4>1, <4>2, <2>4, <2>8
    <3> QED  BY <2>5, <3>1, <3>2
  <2>10. \A x \in Users : /\ BurstInv(admitted'[x], windows'[x].count, windows'[x].end, HighestLimit(x))
                          /\ Spread(admitted'[x], HighestLimit(x))
    BY <2>6, <2>7, <2>9 DEF Bursts, n
  <2> QED  BY <2>2, <2>10 DEF Bursts, BurstInv, Spread, HighestLimit
<1>2. CASE Tick
  <2>1. now' = now + 1 /\ UNCHANGED <<windows, admitted>>  BY <1>2 DEF Tick
  <2> SUFFICES ASSUME NEW u \in Users
               PROVE  /\ BurstInv(admitted[u], windows[u].count, windows[u].end, HighestLimit(u))'
                      /\ Spread(admitted[u], HighestLimit(u))'
    BY DEF Bursts
  <2>2. /\ BurstInv(admitted[u], windows[u].count, windows[u].end, HighestLimit(u))
        /\ Spread(admitted[u], HighestLimit(u))
    BY DEF Bursts
  <2>3. windows[u].end <= now + Window => windows[u].end <= now' + Window
    BY <2>1, <1>t, WindowNat
  <2> QED  BY <2>1, <2>2, <2>3 DEF BurstInv, Spread
<1>3. CASE UNCHANGED vars
  BY <1>3 DEF vars, Bursts, BurstInv, Spread, HighestLimit
<1> QED  BY <1>1, <1>2, <1>3 DEF Next

\* Wherever the fixed windows fall, twice the limit is what a window length
\* lets through at most.
THEOREM BurstsBounded == MaxTime >= 1 /\ Spec => []BurstBounded
<1>1. MaxTime >= 1 /\ Init => Inv /\ Bursts  BY InvInit, BurstsInit
<1>2. Inv /\ Bursts /\ [Next]_vars => Inv' /\ Bursts'  BY InvStep, BurstsStep
<1>3. Bursts => BurstBounded
  BY HighestLimitBounds DEF Bursts, Spread, BurstBounded, AtMostPerWindow
<1> QED  BY <1>1, <1>2, <1>3, PTL DEF Spec
=============================================================================
