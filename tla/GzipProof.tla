------------------------------- MODULE GzipProof -------------------------------
(***************************************************************************)
(* The gzip boot pair and the way back.  For any words, any audited pair   *)
(* and any compressed kernel that fits: the package that kernel_gzip.py    *)
(* derives has the two sums boot0 and U-Boot look for, and its boot        *)
(* partition the components where the loader looks.  For any two regions,  *)
(* any identity in the first and any cells that fail to take a write: a    *)
(* restore that says so has restored the card, and a foreign card is left  *)
(* alone.  No induction theorem of the library can be used on a formula,   *)
(* so a property of every prefix is a set of lengths (EveryNat).           *)
(***************************************************************************)
EXTENDS KernelGzip, RestoreCard, FiniteSetTheorems, TLAPS

-----------------------------------------------------------------------------
(* Arithmetic: the remainder by any positive m *)

\* A number is a multiple and a remainder.
LEMMA DivMod ==
  ASSUME NEW a \in Int, NEW m \in Nat \ {0}
  PROVE  a % m \in 0 .. m - 1 /\ a \div m \in Int /\ a = m * (a \div m) + (a % m)
OBVIOUS

\* Multiples by different factors are m apart.
LEMMA Times ==
  ASSUME NEW m \in Nat \ {0}, NEW p \in Int, NEW q \in Int, p < q
  PROVE  m * p + m <= m * q
<1>1. PICK d \in Nat : q = p + 1 + d
  <2>1. q - p - 1 \in Nat
    OBVIOUS
  <2> QED
    BY <2>1
<1>2. m * q = m * p + m + m * d
  BY <1>1
<1>3. m * d \in Nat
  BY <1>1
<1> QED
  BY <1>2, <1>3

\* The remainder is the only one that leaves a multiple.
LEMMA ModUnique ==
  ASSUME NEW m \in Nat \ {0}, NEW a \in Int, NEW q \in Int, NEW r \in 0 .. m - 1, a = m * q + r
  PROVE  a % m = r
<1> DEFINE d == a \div m
           s == a % m
<1>1. d \in Int /\ s \in 0 .. m - 1 /\ a = m * d + s
  BY DivMod
<1> HIDE DEF d, s
<1>2. m * d \in Int /\ m * q \in Int
  BY <1>1
<1>3. ~(d < q)
  BY <1>1, <1>2, Times
<1>4. ~(q < d)
  BY <1>1, <1>2, Times
<1>5. d = q
  BY <1>1, <1>3, <1>4
<1>6. s = r
  BY <1>1, <1>2, <1>5
<1> QED
  BY <1>6 DEF s

\* Numbers a multiple apart have the same remainder.
LEMMA ModCongruent ==
  ASSUME NEW m \in Nat \ {0}, NEW a \in Int, NEW b \in Int, NEW k \in Int, a = b + m * k
  PROVE  a % m = b % m
<1> DEFINE d == b \div m
           s == b % m
<1>1. d \in Int /\ s \in 0 .. m - 1 /\ b = m * d + s
  BY DivMod
<1> HIDE DEF d, s
<1>2. a = m * (d + k) + s
  BY <1>1
<1>3. a % m = s
  BY <1>1, <1>2, ModUnique
<1> QED
  BY <1>3 DEF s

\* A remainder may be taken before an addition as well as behind it.
LEMMA ModAdd ==
  ASSUME NEW m \in Nat \ {0}, NEW a \in Int, NEW b \in Int
  PROVE  ((a % m) + b) % m = (a + b) % m
<1> DEFINE d == a \div m
           s == a % m
<1>1. d \in Int /\ s \in 0 .. m - 1 /\ a = m * d + s
  BY DivMod
<1> HIDE DEF d, s
<1>2. a + b = (s + b) + m * d
  BY <1>1
<1> DEFINE x == a + b
           y == s + b
<1>3. x \in Int /\ y \in Int /\ x = y + m * d
  BY <1>1, <1>2
<1> HIDE DEF x, y
<1>4. x % m = y % m
  BY <1>1, <1>3, ModCongruent
<1> QED
  BY <1>4 DEF s, x, y

-----------------------------------------------------------------------------
(* Induction and folds *)

\* Numbers have a least one: the intervals 0 .. n are ordered by inclusion.
LEMMA LeastNat ==
  ASSUME NEW T \in SUBSET Nat, T # {}
  PROVE  \E m \in T : \A k \in T : m <= k
<1> DEFINE F == {0 .. n : n \in T}
<1>1. F \subseteq FiniteSubsetsOf(Nat) /\ F # {}
  <2>1. \A n \in T : IsFiniteSet(0 .. n) /\ 0 .. n \in SUBSET Nat
    BY FS_Interval
  <2> QED
    BY <2>1 DEF FiniteSubsetsOf
<1>2. \E x \in F : \A y \in F : ~(<<y, x>> \in StrictSubsetOrdering(Nat))
  BY <1>1, FS_StrictSubsetOrderingWellFounded, WFMin
<1>3. PICK m \in T : \A n \in T : ~(<<0 .. n, 0 .. m>> \in StrictSubsetOrdering(Nat))
  BY <1>2
<1>4. ASSUME NEW k \in T PROVE m <= k
  <2>1. SUFFICES ASSUME k < m PROVE FALSE
    OBVIOUS
  <2>2. 0 .. k \subseteq 0 .. m /\ m \in 0 .. m /\ m \notin 0 .. k
    BY <2>1
  <2>3. 0 .. k \in SUBSET Nat /\ 0 .. m \in SUBSET Nat /\ 0 .. k # 0 .. m
    BY <2>2
  <2>4. <<0 .. k, 0 .. m>> \in StrictSubsetOrdering(Nat)
    BY <2>2, <2>3 DEF StrictSubsetOrdering
  <2> QED
    BY <1>3, <2>4
<1> QED
  BY <1>4

\* Induction for a property that is written as a set.
LEMMA EveryNat ==
  ASSUME NEW n \in Nat, NEW T \in SUBSET Nat, 0 \in T,
         \A k \in 0 .. n - 1 : k \in T => k + 1 \in T
  PROVE  \A k \in 0 .. n : k \in T
<1> DEFINE U == {k \in 0 .. n : k \notin T}
<1> SUFFICES ASSUME U # {} PROVE FALSE
  OBVIOUS
<1>1. U \in SUBSET Nat /\ U # {}
  OBVIOUS
<1> HIDE DEF U
<1>2. PICK m \in U : \A k \in U : m <= k
  BY <1>1, LeastNat
<1>3. m # 0 /\ m - 1 \in 0 .. n - 1 /\ m - 1 \notin U /\ m \notin T
  BY <1>2 DEF U
<1>4. m - 1 \in T /\ m - 1 + 1 = m
  BY <1>3 DEF U
<1> QED
  BY <1>3, <1>4

\* FoldLeft takes the greatest index first.
LEMMA GreatestOf ==
  ASSUME NEW n \in Nat, NEW S \in SUBSET (1 .. n), S # {}
  PROVE  Max(S) \in S /\ \A x \in S : Max(S) >= x
<1> DEFINE T == {n - x : x \in S}
<1>1. \A x \in S : x \in Nat /\ n - x \in Nat
  OBVIOUS
<1>2. T \in SUBSET Nat /\ T # {}
  BY <1>1
<1>3. \A x \in S : n - x \in T
  OBVIOUS
<1>4. \A k \in T : \E x \in S : k = n - x
  OBVIOUS
<1> HIDE DEF T
<1>5. PICK m \in T : \A k \in T : m <= k
  BY <1>2, LeastNat
<1>6. PICK y \in S : m = n - y
  BY <1>4
<1>7. \A x \in S : y >= x
  BY <1>1, <1>3, <1>5, <1>6
<1> QED
  BY <1>7 DEF Max

\* The recursion of a fold over 1 .. n: step[<<i, a>>] is what it makes of a at i.
FoldEquation(it, n, base, step) ==
  \A s \in SUBSET (1 .. n) :
    it[s] = IF s = {} THEN base ELSE step[<<Max(s), it[s \ {Max(s)}]>>]

\* A solution on 1 .. k gives one on 1 .. k + 1.
LEMMA FoldExtended ==
  ASSUME NEW k \in Nat, NEW n \in Nat, k + 1 <= n, NEW X, NEW base \in X,
         NEW step \in [(1 .. n) \X X -> X],
         NEW g \in [SUBSET (1 .. k) -> X], FoldEquation(g, k, base, step)
  PROVE  \E h \in [SUBSET (1 .. k + 1) -> X] : FoldEquation(h, k + 1, base, step)
<1> DEFINE h == [s \in SUBSET (1 .. k + 1) |->
                   IF k + 1 \in s THEN step[<<k + 1, g[s \ {k + 1}]>>] ELSE g[s]]
<1>1. \A s \in SUBSET (1 .. k + 1) : s \ {k + 1} \in SUBSET (1 .. k)
  OBVIOUS
<1>2. ASSUME NEW s \in SUBSET (1 .. k + 1), k + 1 \notin s
      PROVE  s \in SUBSET (1 .. k)
  BY <1>2
<1>3. h \in [SUBSET (1 .. k + 1) -> X]
  <2>1. ASSUME NEW s \in SUBSET (1 .. k + 1)
        PROVE  (IF k + 1 \in s THEN step[<<k + 1, g[s \ {k + 1}]>>] ELSE g[s]) \in X
    <3>1. CASE k + 1 \in s
      <4>1. g[s \ {k + 1}] \in X /\ k + 1 \in 1 .. n
        BY <1>1
      <4>2. <<k + 1, g[s \ {k + 1}]>> \in (1 .. n) \X X
        BY <4>1
      <4> QED
        BY <3>1, <4>2
    <3>2. CASE k + 1 \notin s
      BY <1>2, <3>2
    <3> QED
      BY <3>1, <3>2
  <2> QED
    BY <2>1
<1>4. \A s \in SUBSET (1 .. k + 1) :
        h[s] = IF k + 1 \in s THEN step[<<k + 1, g[s \ {k + 1}]>>] ELSE g[s]
  OBVIOUS
<1> HIDE DEF h
<1>5. ASSUME NEW s \in SUBSET (1 .. k + 1)
      PROVE  h[s] = IF s = {} THEN base ELSE step[<<Max(s), h[s \ {Max(s)}]>>]
  <2>1. CASE s = {}
    <3>1. s \in SUBSET (1 .. k) /\ k + 1 \notin s
      BY <2>1
    <3>2. g[s] = base
      BY <2>1, <3>1 DEF FoldEquation
    <3> QED
      BY <1>4, <2>1, <3>1, <3>2
  <2>2. CASE k + 1 \in s
    <3> DEFINE m == k + 1
    <3>0. m \in Nat /\ s \in SUBSET (1 .. m) /\ m \in s
      BY <2>2
    <3> HIDE DEF m
    <3>1. Max(s) \in s /\ \A x \in s : Max(s) >= x
      BY <3>0, GreatestOf
    <3> DEFINE x == Max(s)
    <3>6. x \in 1 .. m /\ x >= m
      BY <3>0, <3>1
    <3> HIDE DEF x
    <3>7. x = m
      BY <3>0, <3>6
    <3>2. Max(s) = k + 1
      BY <3>7 DEF x, m
    <3>3. s \ {k + 1} \in SUBSET (1 .. k + 1) /\ k + 1 \notin s \ {k + 1}
      OBVIOUS
    <3>4. h[s \ {k + 1}] = g[s \ {k + 1}]
      BY <1>4, <3>3
    <3>5. h[s] = step[<<k + 1, g[s \ {k + 1}]>>]
      BY <1>4, <2>2
    <3> QED
      BY <2>2, <3>2, <3>4, <3>5
  <2>3. CASE s # {} /\ k + 1 \notin s
    <3>1. s \in SUBSET (1 .. k)
      BY <1>2, <2>3
    <3> DEFINE r == s \ {Max(s)}
    <3>2. r \in SUBSET (1 .. k + 1) /\ k + 1 \notin r
      BY <2>3
    <3>3. h[s] = g[s] /\ h[r] = g[r]
      BY <1>4, <2>3, <3>2
    <3>4. g[s] = step[<<Max(s), g[r]>>]
      BY <2>3, <3>1 DEF FoldEquation
    <3> QED
      BY <2>3, <3>3, <3>4
  <2> QED
    BY <2>1, <2>2, <2>3
<1>6. FoldEquation(h, k + 1, base, step)
  BY <1>5 DEF FoldEquation
<1> QED
  BY <1>3, <1>6

\* The recursion has a solution, so the function that FoldLeft chooses is one.
LEMMA FoldDefined ==
  ASSUME NEW n \in Nat, NEW X, NEW base \in X, NEW step \in [(1 .. n) \X X -> X]
  PROVE  \E it \in [SUBSET (1 .. n) -> X] : FoldEquation(it, n, base, step)
<1> DEFINE Has(k) == \E it \in [SUBSET (1 .. k) -> X] : FoldEquation(it, k, base, step)
           T == {k \in Nat : Has(k)}
<1>1. Has(0)
  <2> DEFINE z == [s \in SUBSET (1 .. 0) |-> base]
  <2>1. z \in [SUBSET (1 .. 0) -> X]
    OBVIOUS
  <2>2. \A s \in SUBSET (1 .. 0) : s = {} /\ z[s] = base
    OBVIOUS
  <2>3. FoldEquation(z, 0, base, step)
    BY <2>2 DEF FoldEquation
  <2> QED
    BY <2>1, <2>3
<1>2. ASSUME NEW k \in 0 .. n - 1, Has(k) PROVE Has(k + 1)
  <2>1. PICK it \in [SUBSET (1 .. k) -> X] : FoldEquation(it, k, base, step)
    BY <1>2
  <2>2. k \in Nat /\ k + 1 <= n
    OBVIOUS
  <2> QED
    BY <2>1, <2>2, FoldExtended
<1> HIDE DEF Has
<1>3. 0 \in T /\ T \in SUBSET Nat
  BY <1>1
<1>4. ASSUME NEW k \in 0 .. n - 1, k \in T PROVE k + 1 \in T
  BY <1>2, <1>4
<1> HIDE DEF T
<1>5. n \in T
  BY <1>3, <1>4, EveryNat
<1> QED
  BY <1>5 DEF Has, T

\* The indices 1 .. k without the greatest.
LEMMA Segments ==
  ASSUME NEW n \in Nat, NEW k \in 1 .. n
  PROVE  /\ (1 .. k) \in SUBSET (1 .. n) /\ 1 .. k # {}
         /\ Max(1 .. k) = k /\ (1 .. k) \ {k} = 1 .. k - 1
<1> DEFINE s == 1 .. k
           x == Max(s)
<1>1. s \in SUBSET (1 .. n) /\ k \in s
  OBVIOUS
<1>2. x \in s /\ x >= k
  BY <1>1, GreatestOf
<1> HIDE DEF x
<1>3. x = k
  BY <1>2
<1>4. s \ {k} = 1 .. k - 1
  OBVIOUS
<1> QED
  BY <1>1, <1>3, <1>4 DEF x

\* The equation where the fold so far is known to be in X.
FoldWithin(X, it, n, base, step) ==
  /\ it[{}] = base
  /\ \A s \in SUBSET (1 .. n) :
       s # {} /\ it[s \ {Max(s)}] \in X => it[s] = step[<<Max(s), it[s \ {Max(s)}]>>]

FoldSteps(p, it, n, base, step) ==
  /\ p[0] = base /\ p[n] = it[1 .. n]
  /\ \A k \in 1 .. n : p[k] = step[<<k, p[k - 1]>>]

\* A fold over 1 .. n is reached step by step.
LEMMA FoldPrefixes ==
  ASSUME NEW n \in Nat, NEW X, NEW base \in X, NEW step \in [(1 .. n) \X X -> X],
         NEW iter, FoldWithin(X, iter, n, base, step)
  PROVE  \E p \in [0 .. n -> X] : FoldSteps(p, iter, n, base, step)
<1> DEFINE p == [k \in 0 .. n |-> iter[1 .. k]]
<1>1. p[0] = base /\ p[n] = iter[1 .. n]
  <2>1. 1 .. 0 = {} /\ 0 \in 0 .. n /\ n \in 0 .. n
    OBVIOUS
  <2> QED
    BY <2>1 DEF FoldWithin
<1>2. ASSUME NEW k \in 1 .. n, p[k - 1] \in X
      PROVE  p[k] = step[<<k, p[k - 1]>>] /\ p[k] \in X
  <2>1. /\ (1 .. k) \in SUBSET (1 .. n) /\ 1 .. k # {}
        /\ Max(1 .. k) = k /\ (1 .. k) \ {k} = 1 .. k - 1
    BY Segments
  <2>2. p[k] = iter[1 .. k] /\ p[k - 1] = iter[1 .. k - 1]
    OBVIOUS
  <2> HIDE DEF p
  <2>3. iter[1 .. k] = step[<<k, iter[1 .. k - 1]>>]
    BY <1>2, <2>1, <2>2 DEF FoldWithin
  <2>4. <<k, p[k - 1]>> \in (1 .. n) \X X
    BY <1>2
  <2> QED
    BY <2>2, <2>3, <2>4
<1> HIDE DEF p
<1> DEFINE T == {k \in Nat : k <= n => p[k] \in X}
<1>3. 0 \in T /\ T \in SUBSET Nat
  BY <1>1
<1>4. ASSUME NEW k \in 0 .. n - 1, k \in T PROVE k + 1 \in T
  <2> DEFINE m == k + 1
  <2>1. m \in 1 .. n /\ m - 1 = k /\ m \in Nat /\ p[k] \in X
    BY <1>4
  <2> HIDE DEF m
  <2>2. p[m] \in X
    BY <1>2, <2>1
  <2>3. m \in T
    BY <2>1, <2>2
  <2> QED
    BY <2>3 DEF m
<1> HIDE DEF T
<1>5. \A k \in 0 .. n : k \in T
  BY <1>3, <1>4, EveryNat
<1>6. \A k \in 0 .. n : p[k] \in X
  BY <1>5 DEF T
<1>7. p \in [0 .. n -> X]
  BY <1>6 DEF p
<1>8. ASSUME NEW k \in 1 .. n PROVE p[k] = step[<<k, p[k - 1]>>]
  <2>1. k - 1 \in 0 .. n
    OBVIOUS
  <2> QED
    BY <1>2, <1>6, <2>1
<1> QED
  BY <1>1, <1>7, <1>8 DEF FoldSteps

-----------------------------------------------------------------------------
(* Sums of words *)

\* A sum is reached word by word.
LEMMA SumPrefixes ==
  ASSUME NEW words \in Seq(Int)
  PROVE  \E p \in [0 .. Len(words) -> Int] :
           /\ p[0] = 0 /\ Sum(words) = p[Len(words)]
           /\ \A k \in 1 .. Len(words) : p[k] = (p[k - 1] + words[k]) % W
<1> DEFINE n == Len(words)
           step == [v \in (1 .. n) \X Int |-> (v[2] + words[v[1]]) % W]
           after(it) == [s \in SUBSET DOMAIN words |->
                           IF s = {} THEN 0 ELSE (it[s \ {Max(s)}] + words[Max(s)]) % W]
           iter == CHOOSE it : it = after(it)
<1>1. n \in Nat /\ DOMAIN words = 1 .. n /\ \A i \in 1 .. n : words[i] \in Int
  OBVIOUS
<1>2. \A a \in Int : a % W \in Int
  BY DivMod, GzipAssumption
<1>3. step \in [(1 .. n) \X Int -> Int]
  BY <1>1, <1>2
<1>4. \A i \in 1 .. n, a \in Int : step[<<i, a>>] = (a + words[i]) % W
  BY <1>1
<1>5. Sum(words) = iter[1 .. n]
  BY <1>1 DEF Sum, FoldLeft, MapThenFoldSet
<1> HIDE DEF step, n
<1>6. PICK f \in [SUBSET (1 .. n) -> Int] : FoldEquation(f, n, 0, step)
  <2>1. 0 \in Int
    OBVIOUS
  <2> QED
    BY <1>1, <1>3, <2>1, FoldDefined
<1>7. ASSUME NEW s \in SUBSET (1 .. n), s # {}
      PROVE  Max(s) \in 1 .. n
  <2>1. Max(s) \in s
    BY <1>1, <1>7, GreatestOf
  <2> QED
    BY <2>1
<1>8. ASSUME NEW s \in SUBSET (1 .. n)
      PROVE  f[s] = IF s = {} THEN 0 ELSE (f[s \ {Max(s)}] + words[Max(s)]) % W
  <2>1. CASE s = {}
    BY <1>6, <2>1 DEF FoldEquation
  <2>2. CASE s # {}
    <3>1. Max(s) \in 1 .. n /\ f[s \ {Max(s)}] \in Int
      BY <1>7, <2>2
    <3>2. f[s] = step[<<Max(s), f[s \ {Max(s)}]>>]
      BY <1>6, <2>2 DEF FoldEquation
    <3> QED
      BY <1>4, <2>2, <3>1, <3>2
  <2> QED
    BY <2>1, <2>2
<1>9. f = after(f)
  BY <1>1, <1>8
<1>10. iter = after(iter)
  BY <1>9
<1> HIDE DEF iter
<1>11. \A s \in SUBSET (1 .. n) :
         iter[s] = IF s = {} THEN 0 ELSE (iter[s \ {Max(s)}] + words[Max(s)]) % W
  BY <1>1, <1>10
<1> HIDE DEF after
<1>12. iter[{}] = 0
  <2>1. {} \in SUBSET (1 .. n)
    OBVIOUS
  <2> QED
    BY <1>11, <2>1
<1>13. ASSUME NEW s \in SUBSET (1 .. n), s # {}, iter[s \ {Max(s)}] \in Int
       PROVE  iter[s] = step[<<Max(s), iter[s \ {Max(s)}]>>]
  BY <1>4, <1>7, <1>11, <1>13
<1>14. PICK p \in [0 .. n -> Int] : FoldSteps(p, iter, n, 0, step)
  <2>1. 0 \in Int
    OBVIOUS
  <2> QED
    <3>1. FoldWithin(Int, iter, n, 0, step)
      BY <1>12, <1>13 DEF FoldWithin
    <3> QED
      BY <1>1, <1>3, <2>1, <3>1, FoldPrefixes
<1>15. ASSUME NEW k \in 1 .. n PROVE p[k] = (p[k - 1] + words[k]) % W
  <2>1. k - 1 \in 0 .. n
    BY <1>1
  <2>2. p[k - 1] \in Int
    BY <2>1
  <2> QED
    BY <1>4, <1>14, <2>2 DEF FoldSteps
<1>16. p[0] = 0 /\ Sum(words) = p[n]
  BY <1>5, <1>14 DEF FoldSteps
<1> QED
  BY <1>14, <1>15, <1>16 DEF n

\* A sum is a word.
LEMMA SumRange ==
  ASSUME NEW words \in Seq(Int)
  PROVE  Sum(words) \in 0 .. W - 1
<1> DEFINE n == Len(words)
<1>1. PICK p \in [0 .. n -> Int] :
        /\ p[0] = 0 /\ Sum(words) = p[n]
        /\ \A k \in 1 .. n : p[k] = (p[k - 1] + words[k]) % W
  BY SumPrefixes
<1>2. CASE n = 0
  BY <1>1, <1>2, GzipAssumption
<1>3. CASE n # 0
  <2>1. n \in 1 .. n /\ p[n - 1] \in Int /\ words[n] \in Int
    BY <1>3
  <2>2. p[n] = (p[n - 1] + words[n]) % W
    BY <1>1, <2>1
  <2>3. p[n - 1] + words[n] \in Int
    BY <2>1
  <2> QED
    BY <1>1, <2>2, <2>3, DivMod, GzipAssumption
<1> QED
  BY <1>2, <1>3

\* One step of two sums that differ in one word by d.
LEMMA SumStep ==
  ASSUME NEW a \in Int, NEW w \in Int, NEW d \in Int
  PROVE  /\ (((a + d) % W) + w) % W = (((a + w) % W) + d) % W
         /\ (a + (w + d)) % W = (((a + w) % W) + d) % W
<1> DEFINE b == a + d
           c == a + w
<1>1. b \in Int /\ c \in Int /\ W \in Nat \ {0}
  BY GzipAssumption
<1>2. b + w = c + d /\ a + (w + d) = c + d
  OBVIOUS
<1> HIDE DEF b, c
<1>3. ((b % W) + w) % W = (b + w) % W /\ ((c % W) + d) % W = (c + d) % W
  BY <1>1, ModAdd
<1> QED
  BY <1>2, <1>3 DEF b, c

\* One other word changes a sum by the difference.
LEMMA SumExcept ==
  ASSUME NEW words \in Seq(Int), NEW f \in DOMAIN words, NEW v \in Int
  PROVE  Sum([words EXCEPT ![f] = v]) = (Sum(words) - words[f] + v) % W
<1> DEFINE n == Len(words)
           other == [words EXCEPT ![f] = v]
           d == v - words[f]
<1>1. /\ n \in Nat /\ f \in 1 .. n /\ d \in Int /\ words[f] \in Int
      /\ other \in Seq(Int) /\ Len(other) = n
      /\ v = words[f] + d
  OBVIOUS
<1>2. \A k \in 1 .. n : words[k] \in Int /\ other[k] = IF k = f THEN v ELSE words[k]
  OBVIOUS
<1>3. PICK p \in [0 .. n -> Int] :
        /\ p[0] = 0 /\ Sum(words) = p[n]
        /\ \A k \in 1 .. n : p[k] = (p[k - 1] + words[k]) % W
  BY SumPrefixes
<1> HIDE DEF other
<1>4. PICK r \in [0 .. Len(other) -> Int] :
        /\ r[0] = 0 /\ Sum(other) = r[Len(other)]
        /\ \A k \in 1 .. Len(other) : r[k] = (r[k - 1] + other[k]) % W
  BY <1>1, SumPrefixes
<1>5. /\ r[0] = 0 /\ Sum(other) = r[n]
      /\ \A k \in 1 .. n : r[k] = (r[k - 1] + other[k]) % W
  BY <1>1, <1>4
<1> HIDE DEF n, d
<1> DEFINE T == {k \in Nat : k <= n => r[k] = IF k < f THEN p[k] ELSE (p[k] + d) % W}
<1>6. 0 \in T /\ T \in SUBSET Nat
  <2>1. 0 < f
    BY <1>1
  <2> QED
    BY <1>3, <1>5, <2>1
<1>7. ASSUME NEW k \in 0 .. n - 1, k \in T PROVE k + 1 \in T
  <2> DEFINE m == k + 1
  <2>1. m \in 1 .. n /\ m - 1 = k /\ k \in 0 .. n /\ m \in Nat /\ k \in Nat
    BY <1>1
  <2>2. r[k] = IF k < f THEN p[k] ELSE (p[k] + d) % W
    BY <1>1, <1>7, <2>1
  <2>3. (k < f <=> m <= f) /\ (m > f => ~(m < f) /\ m # f)
    <3>1. \A i, j \in Int : (i < j <=> i + 1 <= j) /\ (i > j => ~(i < j) /\ i # j)
      OBVIOUS
    <3>2. k \in Int /\ f \in Int /\ m \in Int
      BY <1>1, <2>1
    <3> QED
      BY <3>1, <3>2
  <2> HIDE DEF m
  <2>4. p[k] \in Int /\ words[m] \in Int
    BY <1>2, <1>3, <2>1
  <2>5. p[m] = (p[k] + words[m]) % W /\ r[m] = (r[k] + other[m]) % W
    BY <1>3, <1>5, <2>1
  <2>6. other[m] = IF m = f THEN v ELSE words[m]
    BY <1>2, <2>1
  <2>7. /\ (((p[k] + d) % W) + words[m]) % W = (((p[k] + words[m]) % W) + d) % W
        /\ (p[k] + (words[m] + d)) % W = (((p[k] + words[m]) % W) + d) % W
    BY <1>1, <2>4, SumStep
  <2>8. r[m] = IF m < f THEN p[m] ELSE (p[m] + d) % W
    <3>1. CASE m < f
      <4>1. k < f /\ m # f
        BY <1>1, <2>1, <2>3, <3>1
      <4> QED
        BY <2>2, <2>5, <2>6, <3>1, <4>1
    <3>2. CASE m = f
      <4>1. k < f /\ ~(m < f)
        BY <1>1, <2>1, <2>3, <3>2
      <4>2. r[m] = (p[k] + (words[m] + d)) % W
        BY <1>1, <2>2, <2>5, <2>6, <3>2, <4>1
      <4> QED
        BY <2>5, <2>7, <4>1, <4>2
    <3>3. CASE m > f
      <4>1. ~(k < f) /\ ~(m < f) /\ m # f
        <5>1. ~(m < f) /\ m # f
          BY <2>3, <3>3
        <5>2. ~(m <= f)
          BY <1>1, <2>1, <3>3
        <5> QED
          BY <2>3, <5>1, <5>2
      <4>2. r[m] = (((p[k] + d) % W) + words[m]) % W
        BY <2>2, <2>5, <2>6, <4>1
      <4> QED
        BY <2>5, <2>7, <4>1, <4>2
    <3> QED
      BY <1>1, <2>1, <3>1, <3>2, <3>3
  <2>9. m \in T
    BY <2>1, <2>8
  <2> QED
    BY <2>9 DEF m
<1> HIDE DEF T
<1>8. n \in T
  <2>1. \A k \in 0 .. n : k \in T
    BY <1>1, <1>6, <1>7, EveryNat
  <2> QED
    BY <1>1, <2>1
<1>9. r[n] = (p[n] + d) % W
  <2>1. ~(n < f) /\ n <= n
    BY <1>1
  <2> QED
    BY <1>8, <2>1 DEF T
<1>10. p[n] + d = Sum(words) - words[f] + v
  <2>1. p[n] \in Int
    BY <1>1, <1>3
  <2> QED
    BY <1>1, <1>3, <2>1 DEF d
<1> QED
  BY <1>5, <1>9, <1>10 DEF other

-----------------------------------------------------------------------------
\* The elements of a subsequence, of a concatenation and of equal sequences.
LEMMA Cut ==
  ASSUME NEW S, NEW s \in Seq(S), NEW i \in Nat, NEW j \in Nat, i >= 1, j + 1 >= i, j <= Len(s)
  PROVE  /\ SubSeq(s, i, j) \in Seq(S) /\ Len(SubSeq(s, i, j)) = j + 1 - i
         /\ \A k \in 1 .. j + 1 - i : SubSeq(s, i, j)[k] = s[i + k - 1]
OBVIOUS

LEMMA Joined ==
  ASSUME NEW S, NEW a \in Seq(S), NEW b \in Seq(S)
  PROVE  /\ a \o b \in Seq(S) /\ Len(a \o b) = Len(a) + Len(b)
         /\ \A k \in 1 .. Len(a) : (a \o b)[k] = a[k]
         /\ \A k \in 1 .. Len(b) : (a \o b)[Len(a) + k] = b[k]
OBVIOUS

LEMMA SameSeq ==
  ASSUME NEW S, NEW a \in Seq(S), NEW b \in Seq(S), NEW n \in Nat, Len(a) = n, Len(b) = n,
         \A k \in 1 .. n : a[k] = b[k]
  PROVE  a = b
OBVIOUS

\* The length of a package and its header fields, which no words change.
Header(package) ==
  /\ package \in Seq(Int) /\ UbootAt + UbootWords - 1 <= Len(package)
  /\ PackageSum \in DOMAIN package

\* The words of the U-Boot in a package.
LEMMA UbootOf ==
  ASSUME NEW package, Header(package)
  PROVE  /\ Uboot(package) \in Seq(Int) /\ Len(Uboot(package)) = UbootWords
         /\ \A i \in 1 .. UbootWords : Uboot(package)[i] = package[UbootAt + i - 1]
BY GzipAssumption DEF Header, Uboot

\* A U-Boot put back is there, and the package as long as before.
LEMMA UbootSet ==
  ASSUME NEW package, Header(package), NEW uboot \in Seq(Int), Len(uboot) = UbootWords
  PROVE  /\ Header(WithUboot(package, uboot))
         /\ Uboot(WithUboot(package, uboot)) = uboot
<1> DEFINE before == SubSeq(package, 1, UbootAt - 1)
           after == SubSeq(package, UbootAt + UbootWords, Len(package))
           q == WithUboot(package, uboot)
<1>1. /\ before \in Seq(Int) /\ Len(before) = UbootAt - 1
      /\ after \in Seq(Int) /\ Len(after) = Len(package) - (UbootAt + UbootWords - 1)
  <2> DEFINE n == Len(package)
             i == UbootAt - 1
             j == UbootAt + UbootWords
  <2>1. /\ n \in Nat /\ i \in Nat /\ j \in Nat /\ package \in Seq(Int) /\ j >= 1 /\ 1 <= n + 1
        /\ i <= n /\ n + 1 >= j /\ i + 1 >= 1
    BY GzipAssumption DEF Header
  <2>2. i + 1 - 1 = UbootAt - 1 /\ n + 1 - j = n - (UbootAt + UbootWords - 1)
    BY <2>1, GzipAssumption
  <2> HIDE DEF n, i, j
  <2>3. /\ SubSeq(package, 1, i) \in Seq(Int) /\ Len(SubSeq(package, 1, i)) = i + 1 - 1
        /\ SubSeq(package, j, n) \in Seq(Int) /\ Len(SubSeq(package, j, n)) = n + 1 - j
    <3>1. n = Len(package)
      BY DEF n
    <3> QED
      BY <2>1, <3>1, Cut
  <2> QED
    BY <2>2, <2>3 DEF n, i, j
<1>2. q = before \o uboot \o after
  BY DEF WithUboot, ReplaceSubSeqAt
<1> HIDE DEF before, after, q
<1> DEFINE b == before \o uboot
<1>3. b \in Seq(Int) /\ Len(b) = UbootAt + UbootWords - 1
  <2>1. b \in Seq(Int) /\ Len(b) = Len(before) + Len(uboot)
    BY <1>1, Joined
  <2> HIDE DEF b
  <2> QED
    BY <1>1, <2>1, GzipAssumption
<1>4. \A i \in 1 .. UbootWords : b[UbootAt + i - 1] = uboot[i]
  <2>1. \A i \in 1 .. UbootWords : b[Len(before) + i] = uboot[i]
    BY <1>1, Joined
  <2>2. \A i \in 1 .. UbootWords : Len(before) + i = UbootAt + i - 1
    BY <1>1, GzipAssumption
  <2> HIDE DEF b
  <2> QED
    BY <2>1, <2>2
<1>5. q = b \o after
  BY <1>2
<1> HIDE DEF b
<1>6. q \in Seq(Int) /\ Len(q) = Len(package)
  BY <1>1, <1>3, <1>5 DEF Header
<1>7. \A i \in 1 .. UbootWords : q[UbootAt + i - 1] = uboot[i]
  <2>1. \A i \in 1 .. Len(b) : q[i] = b[i]
    BY <1>1, <1>3, <1>5
  <2>2. \A i \in 1 .. UbootWords : UbootAt + i - 1 \in 1 .. Len(b)
    BY <1>3, GzipAssumption
  <2> QED
    BY <1>4, <2>1, <2>2
<1>8. Header(q)
  BY <1>6 DEF Header
<1>9. Uboot(q) = uboot
  <2>1. /\ Uboot(q) \in Seq(Int) /\ Len(Uboot(q)) = UbootWords
        /\ \A i \in 1 .. UbootWords : Uboot(q)[i] = q[UbootAt + i - 1]
    BY <1>8, UbootOf
  <2>2. \A i \in 1 .. UbootWords : Uboot(q)[i] = uboot[i]
    BY <1>7, <2>1
  <2> QED
    BY <2>1, <2>2, SameSeq, GzipAssumption
<1> QED
  BY <1>8, <1>9 DEF q

\* A sealed sequence is accepted, and only its sum is new.
LEMMA SealAccepted ==
  ASSUME NEW words \in Seq(Int), NEW field \in DOMAIN words
  PROVE  /\ Accepted(Seal(words, field), field)
         /\ Seal(words, field) \in Seq(Int) /\ Len(Seal(words, field)) = Len(words)
         /\ \A i \in 1 .. Len(words) : i # field => Seal(words, field)[i] = words[i]
<1> DEFINE c == Checksum(words, field)
           s == Seal(words, field)
           r == Sum(words) - words[field]
           stamp == STAMP % W
<1>1. Sum(words) \in Int /\ W \in Nat \ {0} /\ STAMP \in Int /\ words[field] \in Int
  BY SumRange, GzipAssumption
<1>2. r \in Int /\ stamp \in Int /\ c = (r + STAMP) % W
  BY <1>1, DivMod DEF Checksum
<1>3. c \in Int
  <2> HIDE DEF r, c
  <2> DEFINE t == r + STAMP
  <2>1. t \in Int
    BY <1>1, <1>2
  <2> HIDE DEF t
  <2>2. t % W \in 0 .. W - 1
    BY <1>1, <2>1, DivMod
  <2>3. t % W \in Int
    BY <1>1, <2>2
  <2> QED
    BY <1>2, <2>3 DEF t
<1>4. s = [words EXCEPT ![field] = c]
  BY DEF Seal
<1> HIDE DEF c, s
<1>5. /\ s \in Seq(Int) /\ Len(s) = Len(words) /\ s[field] = c
      /\ \A i \in 1 .. Len(words) : i # field => s[i] = words[i]
  BY <1>3, <1>4
<1>6. [s EXCEPT ![field] = stamp] = [words EXCEPT ![field] = stamp]
  BY <1>4
<1>7. Sum([words EXCEPT ![field] = stamp]) = (r + stamp) % W
  BY <1>2, SumExcept
<1> HIDE DEF r
<1>8. (r + stamp) % W = (r + STAMP) % W
  <2>1. ((STAMP % W) + r) % W = (STAMP + r) % W
    BY <1>1, <1>2, ModAdd
  <2>2. (STAMP % W) + r = r + stamp /\ STAMP + r = r + STAMP
    BY <1>1, <1>2
  <2> QED
    BY <2>1, <2>2
<1>9. Accepted(s, field)
  BY <1>2, <1>5, <1>6, <1>7, <1>8 DEF Accepted
<1> QED
  BY <1>5, <1>9 DEF s

\* What the two sums of PatchPackage leave for boot0 and U-Boot to find.
LEMMA PatchedPackage ==
  ASSUME NEW package, Header(package)
  PROVE  /\ Accepted(PatchPackage(package), PackageSum)
         /\ Accepted(Uboot(PatchPackage(package)), UbootSum)
         /\ Uboot(PatchPackage(package))[SelectorAt] = GzipSelector
<1> DEFINE u == [Uboot(package) EXCEPT ![SelectorAt] = GzipSelector]
           v == Seal(u, UbootSum)
           q == WithUboot(package, v)
           r == Seal(q, PackageSum)
<1>1. /\ u \in Seq(Int) /\ Len(u) = UbootWords /\ u[SelectorAt] = GzipSelector
      /\ UbootSum \in DOMAIN u /\ SelectorAt \in 1 .. UbootWords /\ SelectorAt # UbootSum
  BY UbootOf, GzipAssumption
<1> HIDE DEF u
<1>2. /\ Accepted(v, UbootSum) /\ v \in Seq(Int) /\ Len(v) = UbootWords
      /\ v[SelectorAt] = GzipSelector
  BY <1>1, SealAccepted
<1> HIDE DEF v
<1>3. Header(q) /\ Uboot(q) = v
  BY <1>2, UbootSet
<1> HIDE DEF q
<1>4. q \in Seq(Int) /\ PackageSum \in DOMAIN q
  BY <1>3 DEF Header
<1>5. /\ Accepted(r, PackageSum) /\ r \in Seq(Int) /\ Len(r) = Len(q)
      /\ \A i \in 1 .. Len(q) : i # PackageSum => r[i] = q[i]
  BY <1>4, SealAccepted
<1>6. PatchPackage(package) = r
  BY DEF PatchPackage, r, q, v, u
<1> HIDE DEF r
<1>7. Header(r)
  BY <1>3, <1>5 DEF Header
<1>8. Uboot(r) = v
  <2>1. ASSUME NEW i \in 1 .. UbootWords
        PROVE  UbootAt + i - 1 \in 1 .. Len(q) /\ UbootAt + i - 1 # PackageSum
    <3>1. UbootAt + i - 1 \in UbootAt .. UbootAt + UbootWords - 1
      BY GzipAssumption
    <3>2. PackageSum \notin UbootAt .. UbootAt + UbootWords - 1
      BY GzipAssumption
    <3>3. UbootAt + i - 1 \in 1 .. Len(q)
      BY <1>3, GzipAssumption DEF Header
    <3> QED
      BY <3>1, <3>2, <3>3
  <2>2. \A i \in 1 .. UbootWords : Uboot(r)[i] = Uboot(q)[i]
    BY <1>3, <1>5, <1>7, <2>1, UbootOf
  <2> QED
    BY <1>2, <1>3, <1>7, <2>2, UbootOf
<1> QED
  BY <1>2, <1>5, <1>6, <1>8

-----------------------------------------------------------------------------
\* A derived pair comes from an audited one that passed every check.
GzipInv ==
  gzip # "idle" =>
    \E pair \in Pairs \cap Audited, length \in Lengths :
      /\ PackageDerivable(pair.package) /\ BootDerivable(pair.boot, length)
      /\ given = pair /\ made = Derived(pair, length)

\* derive makes both halves of a pair in one step, which no other step touches.
LEMMA GzipInvariant == GzipSpec => []GzipInv
<1>1. GzipInit => GzipInv
  BY DEF GzipInit, GzipInv
<1>2. ASSUME GzipInv, [GzipNext]_gzipVars PROVE GzipInv'
  <2>1. CASE Derive
    BY <2>1 DEF Derive, GzipInv
  <2>2. CASE Experiment
    BY <2>2 DEF Experiment, GzipInv
  <2>3. CASE NextPair
    BY <2>3 DEF NextPair, GzipInv
  <2>4. CASE UNCHANGED gzipVars
    BY <1>2, <2>4 DEF gzipVars, GzipInv
  <2> QED
    BY <1>2, <2>1, <2>2, <2>3, <2>4 DEF GzipNext
<1> QED
  BY <1>1, <1>2, PTL DEF GzipSpec

\* boot0 starts every derived package, with the gzip decoder and nothing else new.
THEOREM PackageAccepted == GzipSpec => []PackageStarts
<1>1. ASSUME GzipInv PROVE PackageStarts
  <2> SUFFICES ASSUME gzip # "idle"
               PROVE  /\ Accepted(made.package, PackageSum)
                      /\ Accepted(Uboot(made.package), UbootSum)
                      /\ Uboot(made.package)[SelectorAt] = GzipSelector
                      /\ Changed(given.package, made.package) \subseteq Allowed
    BY DEF PackageStarts
  <2>1. PICK pair \in Pairs \cap Audited, length \in Lengths :
          /\ PackageDerivable(pair.package)
          /\ given = pair /\ made = Derived(pair, length)
    BY <1>1 DEF GzipInv
  <2> DEFINE package == pair.package
  <2>2. package \in Seq(0 .. W - 1) /\ PackageSum \in DOMAIN package
    BY PairAssumption
  <2>3. /\ UbootAt + UbootWords - 1 <= Len(package)
        /\ Changed(package, PatchPackage(package)) \subseteq Allowed
    BY <2>1 DEF PackageDerivable, PackageValid
  <2> HIDE DEF package
  <2>4. Header(package)
    BY <2>2, <2>3, GzipAssumption DEF Header
  <2>5. given.package = package /\ made.package = PatchPackage(package)
    BY <2>1 DEF Derived, package
  <2> QED
    BY <2>3, <2>4, <2>5, PatchedPackage
<1> QED
  BY <1>1, GzipInvariant, PTL

-----------------------------------------------------------------------------
(* Pages and offsets *)

Multiple(at) == \E c \in Nat : at = Page * c

\* Align: the first multiple of a page that is at least size.
LEMMA AlignUp ==
  ASSUME NEW size \in Nat
  PROVE  /\ Align(size) \in Nat /\ Multiple(Align(size))
         /\ size <= Align(size) /\ Align(size) <= size + Page - 1
<1> DEFINE a == size + Page - 1
           d == a \div Page
           r == a % Page
<1>1. a \in Nat /\ Page \in Nat \ {0}
  BY GzipAssumption
<1> HIDE DEF a
<1>2. d \in Int /\ r \in 0 .. Page - 1 /\ a = Page * d + r
  BY <1>1, DivMod
<1>3. Align(size) = d * Page
  BY DEF Align, a, d
<1> HIDE DEF d, r
<1>4. d * Page = Page * d /\ Page * d \in Int
  BY <1>1, <1>2
<1>5. Align(size) = a - r /\ Align(size) = Page * d
  BY <1>1, <1>2, <1>3, <1>4
<1>6. size <= Align(size) /\ Align(size) <= size + Page - 1
  BY <1>1, <1>2, <1>5 DEF a
<1>7. d \in Nat
  <2> SUFFICES ASSUME d < 0 PROVE FALSE
    BY <1>2
  <2>1. Page * d + Page <= Page * 0
    BY <1>1, <1>2, Times
  <2>2. Page * 0 = 0
    BY <1>1
  <2> QED
    BY <1>1, <1>4, <1>5, <1>6, <2>1, <2>2
<1> QED
  BY <1>4, <1>5, <1>6, <1>7 DEF Multiple

\* The loader's test for a page boundary.
LEMMA MultipleMod ==
  ASSUME NEW at \in Nat
  PROVE  Multiple(at) <=> at % Page = 0
<1>1. Page \in Nat \ {0} /\ 0 \in 0 .. Page - 1
  BY GzipAssumption
<1>2. ASSUME Multiple(at) PROVE at % Page = 0
  <2>1. PICK c \in Nat : at = Page * c
    BY <1>2 DEF Multiple
  <2>2. c \in Int /\ at \in Int /\ at = Page * c + 0
    BY <1>1, <2>1
  <2> QED
    BY <1>1, <2>2, ModUnique
<1>3. ASSUME at % Page = 0 PROVE Multiple(at)
  <2> DEFINE d == at \div Page
  <2>1. d \in Int /\ at = Page * d + (at % Page)
    BY <1>1, DivMod
  <2> HIDE DEF d
  <2>2. at = Page * d
    BY <1>1, <1>3, <2>1
  <2>3. d \in Nat
    <3> SUFFICES ASSUME d < 0 PROVE FALSE
      BY <2>1
    <3>1. Page * d + Page <= Page * 0 /\ Page * 0 = 0
      BY <1>1, <2>1, Times
    <3> QED
      BY <1>1, <2>2, <3>1
  <2> QED
    BY <2>2, <2>3 DEF Multiple
<1> QED
  BY <1>2, <1>3

\* Two multiples are equal or a page apart.
LEMMA MultiplesApart ==
  ASSUME NEW a \in Nat, NEW b \in Nat, Multiple(a), Multiple(b), a < b
  PROVE  a + Page <= b
<1>1. PICK c \in Nat, d \in Nat : a = Page * c /\ b = Page * d
  BY DEF Multiple
<1>2. Page \in Nat \ {0} /\ Page * c \in Nat /\ Page * d \in Nat
  BY GzipAssumption
<1>3. ~(d < c)
  <2> SUFFICES ASSUME d < c PROVE FALSE
    OBVIOUS
  <2>1. Page * d + Page <= Page * c
    BY <1>2, Times
  <2> QED
    BY <1>1, <1>2, <2>1
<1>4. c # d
  BY <1>1
<1>5. c < d
  BY <1>3, <1>4
<1>6. Page * c + Page <= Page * d
  BY <1>2, <1>5, Times
<1> QED
  BY <1>1, <1>6

\* Whole pages end to end are whole pages.
LEMMA MultiplesAdd ==
  ASSUME NEW a \in Nat, NEW b \in Nat, Multiple(a), Multiple(b)
  PROVE  Multiple(a + b)
<1>1. PICK c \in Nat, d \in Nat : a = Page * c /\ b = Page * d
  BY DEF Multiple
<1>2. a + b = Page * (c + d) /\ c + d \in Nat
  BY <1>1, GzipAssumption
<1> QED
  BY <1>2 DEF Multiple

\* The loader's search for the next page ends where Align does.
PageBehind(at, size) == CHOOSE p \in at + size .. at + size + Page - 1 : p % Page = 0

LEMMA NextPage ==
  ASSUME NEW at \in Nat, Multiple(at), NEW size \in Nat
  PROVE  PageBehind(at, size) = at + Align(size)
<1> DEFINE first == at + size
           next == at + Align(size)
<1>1. Page \in Nat \ {0} /\ first \in Nat /\ next \in Nat /\ Multiple(next)
  <2>1. Align(size) \in Nat /\ Multiple(Align(size))
    BY AlignUp
  <2> QED
    BY <2>1, MultiplesAdd, GzipAssumption
<1>2. next \in first .. first + Page - 1
  BY <1>1, AlignUp
<1> HIDE DEF first, next
<1>3. next % Page = 0
  BY <1>1, MultipleMod
<1>4. ASSUME NEW p \in first .. first + Page - 1, p % Page = 0 PROVE p = next
  <2>1. p \in Nat /\ p >= first /\ p <= first + Page - 1
    BY <1>1
  <2>2. next >= first /\ next <= first + Page - 1
    BY <1>1, <1>2
  <2>3. Multiple(p)
    BY <1>4, <2>1, MultipleMod
  <2>4. ~(p < next)
    <3> SUFFICES ASSUME p < next PROVE FALSE
      OBVIOUS
    <3>1. p + Page <= next
      BY <1>1, <2>1, <2>3, MultiplesApart
    <3> QED
      BY <1>1, <2>1, <2>2, <3>1
  <2>5. ~(next < p)
    <3> SUFFICES ASSUME next < p PROVE FALSE
      OBVIOUS
    <3>1. next + Page <= p
      BY <1>1, <2>1, <2>3, MultiplesApart
    <3> QED
      BY <1>1, <2>1, <2>2, <3>1
  <2> QED
    BY <1>1, <2>1, <2>4, <2>5
<1>5. (CHOOSE p \in first .. first + Page - 1 : p % Page = 0) = next
  BY <1>2, <1>3, <1>4
<1> QED
  BY <1>5 DEF PageBehind, first, next

\* Where a sequence of components ends.
Ends(sizes) == FoldLeft(LAMBDA at, size : at + Align(size), 0, sizes)

\* The end is reached component by component.
LEMMA EndsPrefixes ==
  ASSUME NEW sizes \in Seq(Nat)
  PROVE  \E p \in [0 .. Len(sizes) -> Nat] :
           /\ p[0] = 0 /\ Ends(sizes) = p[Len(sizes)]
           /\ \A k \in 1 .. Len(sizes) : p[k] = p[k - 1] + Align(sizes[k])
<1> DEFINE n == Len(sizes)
           step == [v \in (1 .. n) \X Nat |-> v[2] + Align(sizes[v[1]])]
           after(it) == [s \in SUBSET DOMAIN sizes |->
                           IF s = {} THEN 0 ELSE it[s \ {Max(s)}] + Align(sizes[Max(s)])]
           iter == CHOOSE it : it = after(it)
<1>1. n \in Nat /\ DOMAIN sizes = 1 .. n /\ \A i \in 1 .. n : sizes[i] \in Nat
  OBVIOUS
<1>2. \A i \in 1 .. n : Align(sizes[i]) \in Nat
  BY <1>1, AlignUp
<1>3. step \in [(1 .. n) \X Nat -> Nat]
  BY <1>1, <1>2
<1>4. \A i \in 1 .. n, a \in Nat : step[<<i, a>>] = a + Align(sizes[i])
  BY <1>1
<1>5. Ends(sizes) = iter[1 .. n]
  BY <1>1 DEF Ends, FoldLeft, MapThenFoldSet
<1> HIDE DEF step, n
<1>6. PICK f \in [SUBSET (1 .. n) -> Nat] : FoldEquation(f, n, 0, step)
  <2>1. 0 \in Nat
    OBVIOUS
  <2> QED
    BY <1>1, <1>3, <2>1, FoldDefined
<1>7. ASSUME NEW s \in SUBSET (1 .. n), s # {}
      PROVE  Max(s) \in 1 .. n
  <2>1. Max(s) \in s
    BY <1>1, <1>7, GreatestOf
  <2> QED
    BY <2>1
<1>8. ASSUME NEW s \in SUBSET (1 .. n)
      PROVE  f[s] = IF s = {} THEN 0 ELSE f[s \ {Max(s)}] + Align(sizes[Max(s)])
  <2>1. CASE s = {}
    BY <1>6, <2>1 DEF FoldEquation
  <2>2. CASE s # {}
    <3>1. Max(s) \in 1 .. n /\ f[s \ {Max(s)}] \in Nat
      BY <1>7, <2>2
    <3>2. f[s] = step[<<Max(s), f[s \ {Max(s)}]>>]
      BY <1>6, <2>2 DEF FoldEquation
    <3> QED
      BY <1>4, <2>2, <3>1, <3>2
  <2> QED
    BY <2>1, <2>2
<1>9. f = after(f)
  BY <1>1, <1>8
<1>10. iter = after(iter)
  BY <1>9
<1> HIDE DEF iter
<1>11. \A s \in SUBSET (1 .. n) :
         iter[s] = IF s = {} THEN 0 ELSE iter[s \ {Max(s)}] + Align(sizes[Max(s)])
  BY <1>1, <1>10
<1> HIDE DEF after
<1>12. iter[{}] = 0
  <2>1. {} \in SUBSET (1 .. n)
    OBVIOUS
  <2> QED
    BY <1>11, <2>1
<1>13. ASSUME NEW s \in SUBSET (1 .. n), s # {}, iter[s \ {Max(s)}] \in Nat
       PROVE  iter[s] = step[<<Max(s), iter[s \ {Max(s)}]>>]
  BY <1>4, <1>7, <1>11, <1>13
<1>14. PICK p \in [0 .. n -> Nat] : FoldSteps(p, iter, n, 0, step)
  <2>1. 0 \in Nat
    OBVIOUS
  <2>2. FoldWithin(Nat, iter, n, 0, step)
    BY <1>12, <1>13 DEF FoldWithin
  <2> QED
    BY <1>1, <1>3, <2>1, <2>2, FoldPrefixes
<1>15. ASSUME NEW k \in 1 .. n PROVE p[k] = p[k - 1] + Align(sizes[k])
  <2>1. k - 1 \in 0 .. n
    BY <1>1
  <2>2. p[k - 1] \in Nat
    BY <2>1
  <2> QED
    BY <1>4, <1>14, <2>2 DEF FoldSteps
<1>16. p[0] = 0 /\ Ends(sizes) = p[n]
  BY <1>5, <1>14 DEF FoldSteps
<1> QED
  BY <1>14, <1>15, <1>16 DEF n

\* The end moves up by the pages of the last component.
LEMMA EndsAppended ==
  ASSUME NEW sizes \in Seq(Nat), NEW longer \in Seq(Nat), Len(longer) = Len(sizes) + 1,
         \A k \in 1 .. Len(sizes) : longer[k] = sizes[k]
  PROVE  Ends(longer) = Ends(sizes) + Align(longer[Len(longer)])
<1> DEFINE n == Len(sizes)
           m == n + 1
<1>1. n \in Nat /\ Len(longer) = m /\ m \in 1 .. m /\ m - 1 = n
  OBVIOUS
<1>2. PICK p \in [0 .. n -> Nat] :
        /\ p[0] = 0 /\ Ends(sizes) = p[n]
        /\ \A k \in 1 .. n : p[k] = p[k - 1] + Align(sizes[k])
  BY EndsPrefixes
<1>3. PICK r \in [0 .. Len(longer) -> Nat] :
        /\ r[0] = 0 /\ Ends(longer) = r[Len(longer)]
        /\ \A k \in 1 .. Len(longer) : r[k] = r[k - 1] + Align(longer[k])
  BY EndsPrefixes
<1>4. \A k \in 1 .. n : longer[k] = sizes[k] /\ k \in 1 .. Len(longer)
  OBVIOUS
<1> HIDE DEF n
<1> DEFINE T == {k \in Nat : k <= n => r[k] = p[k]}
<1>5. 0 \in T /\ T \in SUBSET Nat
  BY <1>2, <1>3
<1>6. ASSUME NEW k \in 0 .. n - 1, k \in T PROVE k + 1 \in T
  <2> DEFINE j == k + 1
  <2>1. j \in 1 .. n /\ j - 1 = k /\ j \in Nat /\ r[k] = p[k]
    BY <1>1, <1>6
  <2> HIDE DEF j
  <2>2. r[j] = p[j]
    BY <1>2, <1>3, <1>4, <2>1
  <2>3. j \in T
    BY <2>1, <2>2
  <2> QED
    BY <2>3 DEF j
<1> HIDE DEF T
<1>7. n \in T
  <2>1. \A k \in 0 .. n : k \in T
    BY <1>1, <1>5, <1>6, EveryNat
  <2> QED
    BY <1>1, <2>1
<1>8. r[n] = p[n]
  BY <1>1, <1>7 DEF T
<1>9. r[m] = r[n] + Align(longer[m])
  BY <1>1, <1>3
<1> QED
  BY <1>1, <1>2, <1>3, <1>8, <1>9

\* Offset: the components in front of one, each on pages of its own.
LEMMA Offsets ==
  ASSUME NEW sizes \in Seq(Nat)
  PROVE  /\ Offset(sizes, 1) = 0
         /\ \A i \in 1 .. Len(sizes) : Offset(sizes, i + 1) = Offset(sizes, i) + Align(sizes[i])
         /\ \A i \in 1 .. Len(sizes) + 1 : Offset(sizes, i) \in Nat /\ Multiple(Offset(sizes, i))
<1> DEFINE n == Len(sizes)
           Before(i) == SubSeq(sizes, 1, i - 1)
<1>1. n \in Nat
  OBVIOUS
<1>2. \A i : Offset(sizes, i) = Ends(Before(i))
  BY DEF Offset, Ends
<1>3. Offset(sizes, 1) = 0
  <2>1. Before(1) \in Seq(Nat) /\ Len(Before(1)) = 0
    OBVIOUS
  <2> HIDE DEF Before
  <2>2. Ends(Before(1)) = 0
    BY <2>1, EndsPrefixes
  <2> QED
    BY <1>2, <2>2
<1>4. ASSUME NEW i \in 1 .. n
      PROVE  Offset(sizes, i + 1) = Offset(sizes, i) + Align(sizes[i])
  <2>1. /\ Before(i) \in Seq(Nat) /\ Len(Before(i)) = i - 1
        /\ \A k \in 1 .. i - 1 : Before(i)[k] = sizes[k]
    OBVIOUS
  <2>2. /\ Before(i + 1) \in Seq(Nat) /\ Len(Before(i + 1)) = i
        /\ \A k \in 1 .. i : Before(i + 1)[k] = sizes[k]
    OBVIOUS
  <2> DEFINE a == Before(i)
             b == Before(i + 1)
  <2>3. /\ a \in Seq(Nat) /\ b \in Seq(Nat) /\ Len(b) = Len(a) + 1 /\ Len(b) = i
        /\ \A k \in 1 .. Len(a) : b[k] = a[k]
    BY <2>1, <2>2
  <2>4. Offset(sizes, i) = Ends(a) /\ Offset(sizes, i + 1) = Ends(b) /\ b[i] = sizes[i]
    BY <1>2, <2>2
  <2> HIDE DEF a, b
  <2>5. Ends(b) = Ends(a) + Align(b[Len(b)])
    BY <2>3, EndsAppended
  <2> QED
    BY <2>3, <2>4, <2>5
<1> HIDE DEF Before
<1> DEFINE T == {k \in Nat :
                   k <= n => Offset(sizes, k + 1) \in Nat /\ Multiple(Offset(sizes, k + 1))}
<1>5. 0 \in T /\ T \in SUBSET Nat
  <2>1. 0 \in Nat /\ 0 = Page * 0
    BY GzipAssumption
  <2>2. Multiple(0)
    BY <2>1 DEF Multiple
  <2>3. 0 + 1 = 1
    OBVIOUS
  <2> QED
    BY <1>3, <2>1, <2>2, <2>3
<1>6. ASSUME NEW k \in 0 .. n - 1, k \in T PROVE k + 1 \in T
  <2> DEFINE i == k + 1
  <2>1. i \in 1 .. n /\ i \in Nat /\ Offset(sizes, i) \in Nat /\ Multiple(Offset(sizes, i))
    BY <1>1, <1>6
  <2> HIDE DEF i
  <2>2. sizes[i] \in Nat
    BY <2>1
  <2>3. Align(sizes[i]) \in Nat /\ Multiple(Align(sizes[i]))
    BY <2>2, AlignUp
  <2>4. Offset(sizes, i + 1) \in Nat /\ Multiple(Offset(sizes, i + 1))
    <3>1. Offset(sizes, i + 1) = Offset(sizes, i) + Align(sizes[i])
      BY <1>4, <2>1
    <3>2. Multiple(Offset(sizes, i) + Align(sizes[i]))
      BY <2>1, <2>3, MultiplesAdd
    <3>3. Offset(sizes, i) + Align(sizes[i]) \in Nat
      BY <2>1, <2>3
    <3> QED
      BY <3>1, <3>2, <3>3
  <2>5. i \in T
    BY <2>1, <2>4
  <2> QED
    BY <2>5 DEF i
<1> HIDE DEF T, n
<1>7. \A k \in 0 .. n : k \in T
  BY <1>1, <1>5, <1>6, EveryNat
<1>8. ASSUME NEW i \in 1 .. n + 1
      PROVE  Offset(sizes, i) \in Nat /\ Multiple(Offset(sizes, i))
  <2> DEFINE k == i - 1
  <2>1. k \in 0 .. n /\ k \in Nat /\ k <= n /\ k + 1 = i
    BY <1>1
  <2> HIDE DEF k
  <2> QED
    BY <1>7, <2>1 DEF T
<1> QED
  BY <1>3, <1>4, <1>8 DEF n

\* The loader finds every component where derive put it.
LEMMA LoadedAtOffset ==
  ASSUME NEW sizes \in Seq(Nat), NEW i \in DOMAIN sizes
  PROVE  LoadedAt(sizes, i) = Offset(sizes, i)
<1> DEFINE n == Len(sizes)
           Found(g) == [j \in DOMAIN sizes |->
             IF j = 1 THEN 0 ELSE PageBehind(g[j - 1], sizes[j - 1])]
           f == [j \in DOMAIN sizes |-> Offset(sizes, j)]
           at == CHOOSE g : g = Found(g)
<1>1. n \in Nat /\ DOMAIN sizes = 1 .. n /\ \A j \in 1 .. n : sizes[j] \in Nat
  OBVIOUS
<1>2. /\ Offset(sizes, 1) = 0
      /\ \A j \in 1 .. n : Offset(sizes, j + 1) = Offset(sizes, j) + Align(sizes[j])
      /\ \A j \in 1 .. n + 1 : Offset(sizes, j) \in Nat /\ Multiple(Offset(sizes, j))
  BY Offsets
<1> HIDE DEF n
<1>3. ASSUME NEW j \in 1 .. n, j # 1
      PROVE  Offset(sizes, j) = PageBehind(Offset(sizes, j - 1), sizes[j - 1])
  <2> DEFINE k == j - 1
  <2>1. k \in 1 .. n /\ k \in 1 .. n + 1 /\ k + 1 = j
    BY <1>1, <1>3
  <2> HIDE DEF k
  <2>2. Offset(sizes, k) \in Nat /\ Multiple(Offset(sizes, k)) /\ sizes[k] \in Nat
    BY <1>1, <1>2, <2>1
  <2>3. PageBehind(Offset(sizes, k), sizes[k]) = Offset(sizes, k) + Align(sizes[k])
    BY <2>2, NextPage
  <2>4. Offset(sizes, j) = Offset(sizes, k) + Align(sizes[k])
    BY <1>2, <2>1
  <2> QED
    BY <2>3, <2>4 DEF k
<1>4. f = Found(f)
  <2>1. ASSUME NEW j \in 1 .. n PROVE f[j] = Found(f)[j]
    <3>1. CASE j = 1
      BY <1>1, <1>2, <3>1
    <3>2. CASE j # 1
      <4>1. j - 1 \in 1 .. n
        BY <1>1, <3>2
      <4>2. f[j] = Offset(sizes, j) /\ f[j - 1] = Offset(sizes, j - 1)
        BY <1>1, <4>1
      <4> HIDE DEF f
      <4> QED
        BY <1>1, <1>3, <3>2, <4>2
    <3> QED
      BY <3>1, <3>2
  <2>2. Found(f) = [j \in DOMAIN sizes |-> Found(f)[j]]
    OBVIOUS
  <2> HIDE DEF Found
  <2> QED
    BY <1>1, <2>1, <2>2
<1>5. at = Found(at)
  BY <1>4
<1>6. LoadedAt(sizes, i) = at[i]
  BY DEF LoadedAt, PageBehind
<1> HIDE DEF at
<1>7. ASSUME NEW j \in 1 .. n
      PROVE  at[j] = IF j = 1 THEN 0 ELSE PageBehind(at[j - 1], sizes[j - 1])
  BY <1>1, <1>5
<1> HIDE DEF Found, f
<1> DEFINE T == {k \in Nat : k + 1 <= n => at[k + 1] = Offset(sizes, k + 1)}
<1>8. 0 \in T /\ T \in SUBSET Nat
  <2>1. 1 <= n => at[1] = 0
    BY <1>1, <1>7
  <2>2. 0 + 1 = 1
    OBVIOUS
  <2> QED
    BY <1>2, <2>1, <2>2
<1>9. ASSUME NEW k \in 0 .. n - 1, k \in T PROVE k + 1 \in T
  <2> DEFINE j == k + 1
  <2>1. j \in Nat /\ j \in 1 .. n /\ at[j] = Offset(sizes, j)
    BY <1>1, <1>9
  <2> HIDE DEF j
  <2> DEFINE l == j + 1
  <2>2. l # 1 /\ l - 1 = j
    BY <2>1
  <2>3. l <= n => l \in 1 .. n
    BY <1>1, <2>1
  <2> HIDE DEF l
  <2>4. l <= n => at[l] = Offset(sizes, l)
    <3> SUFFICES ASSUME l <= n PROVE at[l] = Offset(sizes, l)
      OBVIOUS
    <3>1. at[l] = PageBehind(at[j], sizes[j])
      BY <1>7, <2>2, <2>3
    <3>2. Offset(sizes, l) = PageBehind(Offset(sizes, j), sizes[j])
      BY <1>3, <2>2, <2>3
    <3> QED
      BY <2>1, <3>1, <3>2
  <2>5. j \in T
    BY <2>1, <2>4 DEF l
  <2> QED
    BY <2>5 DEF j
<1> HIDE DEF T
<1>10. \A k \in 0 .. n : k \in T
  BY <1>1, <1>8, <1>9, EveryNat
<1>11. at[i] = Offset(sizes, i)
  <2> DEFINE k == i - 1
  <2>1. k \in 0 .. n /\ k \in Nat /\ k + 1 = i /\ k + 1 <= n
    BY <1>1
  <2> HIDE DEF k
  <2> QED
    BY <1>10, <2>1 DEF T
<1> QED
  BY <1>6, <1>11

-----------------------------------------------------------------------------
(* The image and its parts *)

\* A flattened sequence of five, one appended to the next.
LEMMA Flattened ==
  ASSUME NEW S, NEW seqs \in Seq(Seq(S)), Len(seqs) = 5
  PROVE  FlattenSeq(seqs) = (((seqs[1] \o seqs[2]) \o seqs[3]) \o seqs[4]) \o seqs[5]
<1> DEFINE two == seqs[1] \o seqs[2]
           three == two \o seqs[3]
           four == three \o seqs[4]
           five == four \o seqs[5]
           Flat(g) == [i \in 1 .. Len(seqs) |-> IF i = 1 THEN seqs[i] ELSE g[i - 1] \o seqs[i]]
           f == [i \in 1 .. 5 |-> IF i = 1 THEN seqs[1] ELSE IF i = 2 THEN two
                                  ELSE IF i = 3 THEN three ELSE IF i = 4 THEN four ELSE five]
           flatten == CHOOSE g : g = Flat(g)
<1>1. /\ f[1] = seqs[1] /\ f[2] = f[1] \o seqs[2] /\ f[3] = f[2] \o seqs[3]
      /\ f[4] = f[3] \o seqs[4] /\ f[5] = f[4] \o seqs[5]
  OBVIOUS
<1>2. f = [i \in 1 .. 5 |-> f[i]]
  OBVIOUS
<1> HIDE DEF f
<1>3. f = Flat(f)
  <2>1. ASSUME NEW i \in 1 .. 5
        PROVE  f[i] = IF i = 1 THEN seqs[i] ELSE f[i - 1] \o seqs[i]
    <3>1. i = 1 \/ i = 2 \/ i = 3 \/ i = 4 \/ i = 5
      OBVIOUS
    <3>2. 2 - 1 = 1 /\ 3 - 1 = 2 /\ 4 - 1 = 3 /\ 5 - 1 = 4
      OBVIOUS
    <3> QED
      BY <1>1, <3>1, <3>2
  <2> QED
    BY <1>2, <2>1
<1>4. flatten = Flat(flatten)
  BY <1>3
<1>5. FlattenSeq(seqs) = flatten[5]
  BY DEF FlattenSeq
<1> HIDE DEF flatten
<1>6. ASSUME NEW i \in 1 .. 5
      PROVE  flatten[i] = IF i = 1 THEN seqs[i] ELSE flatten[i - 1] \o seqs[i]
  BY <1>4
<1>7. /\ flatten[1] = seqs[1] /\ flatten[2] = flatten[1] \o seqs[2]
      /\ flatten[3] = flatten[2] \o seqs[3]
      /\ flatten[4] = flatten[3] \o seqs[4] /\ flatten[5] = flatten[4] \o seqs[5]
  <2>1. flatten[1] = seqs[1]
    BY <1>6
  <2>2. ASSUME NEW i \in 2 .. 5 PROVE flatten[i] = flatten[i - 1] \o seqs[i]
    <3>1. i \in 1 .. 5 /\ i # 1
      OBVIOUS
    <3> QED
      BY <1>6, <3>1
  <2>3. 2 - 1 = 1 /\ 3 - 1 = 2 /\ 4 - 1 = 3 /\ 5 - 1 = 4 /\ 2 \in 2 .. 5 /\ 3 \in 2 .. 5
        /\ 4 \in 2 .. 5 /\ 5 \in 2 .. 5
    OBVIOUS
  <2> QED
    BY <2>1, <2>2, <2>3
<1> QED
  BY <1>5, <1>7

\* Functions on 1 .. n are the sequences of that length.
LEMMA FunctionSeq ==
  ASSUME NEW S, NEW n \in Nat, NEW f \in [1 .. n -> S]
  PROVE  f \in Seq(S) /\ Len(f) = n
OBVIOUS

LEMMA Five ==
  ASSUME NEW S
  PROVE  /\ \A f \in [1 .. 5 -> S] : f \in Seq(S) /\ Len(f) = 5
         /\ \A s \in Seq(S) : Len(s) = 5 => s \in [1 .. 5 -> S]
<1>1. ASSUME NEW f \in [1 .. 5 -> S] PROVE f \in Seq(S) /\ Len(f) = 5
  <2> DEFINE n == 5
  <2>1. n \in Nat /\ f \in [1 .. n -> S]
    OBVIOUS
  <2> HIDE DEF n
  <2>2. f \in Seq(S) /\ Len(f) = n
    BY <2>1, FunctionSeq
  <2> QED
    BY <2>2 DEF n
<1>2. ASSUME NEW s \in Seq(S), Len(s) = 5 PROVE s \in [1 .. 5 -> S]
  BY <1>2
<1> QED
  BY <1>1, <1>2

\* Padding leaves a part in front of its pad, on whole pages.
LEMMA PaddedPart ==
  ASSUME NEW S, Zero \in S, NEW part \in Seq(S)
  PROVE  /\ Padded(part) \in Seq(S) /\ Len(Padded(part)) = Align(Len(part))
         /\ \A k \in 1 .. Len(part) : Padded(part)[k] = part[k]
<1> DEFINE n == Align(Len(part)) - Len(part)
           pad == [i \in 1 .. n |-> Zero]
<1>1. Len(part) \in Nat /\ n \in Nat /\ Align(Len(part)) = Len(part) + n
  <2>1. Len(part) \in Nat
    OBVIOUS
  <2>2. Align(Len(part)) \in Nat /\ Len(part) <= Align(Len(part))
    BY <2>1, AlignUp
  <2> QED
    BY <2>1, <2>2
<1>2. Padded(part) = part \o pad
  BY DEF Padded
<1> HIDE DEF n
<1>3. pad \in [1 .. n -> S]
  OBVIOUS
<1>4. pad \in Seq(S) /\ Len(pad) = n
  BY <1>1, <1>3, FunctionSeq
<1> HIDE DEF pad
<1> QED
  BY <1>1, <1>2, <1>4, Joined

\* The first i parts of an image lie in body, where sizes puts them.
Laid(S, body, parts, sizes, i) ==
  /\ body \in Seq(S) /\ Len(body) = Offset(sizes, i + 1)
  /\ \A j \in 1 .. i :
       /\ Offset(sizes, j) + sizes[j] <= Len(body)
       /\ \A k \in 1 .. sizes[j] : body[Offset(sizes, j) + k] = parts[j][k]

\* A padded part behind an image: the ones before stay where they are.
LEMMA LaidNext ==
  ASSUME NEW S, Zero \in S, NEW n \in Nat, NEW parts \in [1 .. n -> Seq(S)],
         NEW sizes \in Seq(Nat), Len(sizes) = n, \A i \in 1 .. n : sizes[i] = Len(parts[i]),
         NEW i \in Nat, i + 1 <= n, NEW body, Laid(S, body, parts, sizes, i)
  PROVE  Laid(S, body \o Padded(parts[i + 1]), parts, sizes, i + 1)
<1> DEFINE m == i + 1
           pad == Padded(parts[m])
           next == body \o pad
<1>1. m \in 1 .. n /\ m \in 1 .. Len(sizes) /\ parts[m] \in Seq(S) /\ m \in Nat
      /\ sizes[m] = Len(parts[m]) /\ sizes[m] \in Nat
  OBVIOUS
<1>2. /\ body \in Seq(S) /\ Len(body) = Offset(sizes, m)
      /\ \A j \in 1 .. i :
           /\ Offset(sizes, j) + sizes[j] <= Len(body)
           /\ \A k \in 1 .. sizes[j] : body[Offset(sizes, j) + k] = parts[j][k]
  BY DEF Laid
<1>3. \A j \in 1 .. m : j \in 1 .. i \/ j = m
  OBVIOUS
<1> HIDE DEF m
<1>4. /\ pad \in Seq(S) /\ Len(pad) = Align(sizes[m])
      /\ \A k \in 1 .. sizes[m] : pad[k] = parts[m][k]
  BY <1>1, PaddedPart
<1>5. sizes[m] <= Len(pad) /\ Len(pad) \in Nat /\ Len(body) \in Nat
  BY <1>1, <1>2, <1>4, AlignUp
<1> HIDE DEF pad
<1>6. /\ next \in Seq(S) /\ Len(next) = Len(body) + Len(pad)
      /\ \A k \in 1 .. Len(body) : next[k] = body[k]
      /\ \A k \in 1 .. Len(pad) : next[Len(body) + k] = pad[k]
  <2>1. body \in Seq(S) /\ pad \in Seq(S)
    BY <1>2, <1>4
  <2> QED
    BY <2>1, Joined
<1> HIDE DEF next
<1>7. Len(next) = Offset(sizes, m + 1)
  BY <1>1, <1>2, <1>4, <1>6, Offsets
<1>8. ASSUME NEW j \in 1 .. m
      PROVE  /\ Offset(sizes, j) + sizes[j] <= Len(next)
             /\ \A k \in 1 .. sizes[j] : next[Offset(sizes, j) + k] = parts[j][k]
  <2> DEFINE at == Offset(sizes, j)
             size == sizes[j]
  <2>1. at \in Nat /\ size \in Nat
    <3>1. j \in 1 .. Len(sizes) /\ j \in 1 .. Len(sizes) + 1
      BY <1>1
    <3>2. size \in Nat
      BY <3>1
    <3> QED
      BY <3>1, <3>2, Offsets
  <2>2. CASE j \in 1 .. i
    <3>1. at + size <= Len(body) /\ \A k \in 1 .. size : body[at + k] = parts[j][k]
      BY <1>2, <2>2
    <3> HIDE DEF at, size
    <3>2. at + size <= Len(next)
      BY <1>5, <1>6, <2>1, <3>1
    <3>3. ASSUME NEW k \in 1 .. size PROVE next[at + k] = parts[j][k]
      <4>1. at + k \in 1 .. Len(body)
        BY <1>5, <2>1, <3>1
      <4> QED
        BY <1>6, <3>1, <4>1
    <3> QED
      BY <3>2, <3>3 DEF at, size
  <2>3. CASE j = m
    <3>1. at = Len(body) /\ size = sizes[m]
      BY <1>2, <2>3
    <3> HIDE DEF at, size
    <3>2. at + size <= Len(next)
      BY <1>5, <1>6, <2>1, <3>1
    <3>3. ASSUME NEW k \in 1 .. size PROVE next[at + k] = parts[j][k]
      <4>1. k \in 1 .. Len(pad)
        BY <1>5, <2>1, <3>1
      <4> QED
        BY <1>4, <1>6, <2>3, <3>1, <4>1
    <3> QED
      BY <3>2, <3>3 DEF at, size
  <2> QED
    BY <1>3, <2>2, <2>3
<1>9. Laid(S, next, parts, sizes, m)
  BY <1>6, <1>7, <1>8 DEF Laid
<1> QED
  BY <1>9 DEF next, pad, m

\* An image of five parts is as long as its offsets say, and holds each part.
LEMMA ImageLaid ==
  ASSUME NEW S, Zero \in S, NEW parts \in [1 .. 5 -> Seq(S)]
  PROVE  /\ AndroidImage(parts).sizes \in Seq(Nat) /\ Len(AndroidImage(parts).sizes) = 5
         /\ \A i \in 1 .. 5 : AndroidImage(parts).sizes[i] = Len(parts[i])
         /\ Laid(S, AndroidImage(parts).body, parts, AndroidImage(parts).sizes, 5)
<1> DEFINE sizes == Sizes(parts)
           seqs == [i \in DOMAIN parts |-> Padded(parts[i])]
           one == seqs[1]
           two == one \o seqs[2]
           three == two \o seqs[3]
           four == three \o seqs[4]
           five == four \o seqs[5]
<1>1. DOMAIN parts = 1 .. 5 /\ \A i \in 1 .. 5 : parts[i] \in Seq(S) /\ Len(parts[i]) \in Nat
  OBVIOUS
<1>2. sizes \in [1 .. 5 -> Nat] /\ \A i \in 1 .. 5 : sizes[i] = Len(parts[i])
  BY <1>1 DEF Sizes
<1>3. seqs \in [1 .. 5 -> Seq(S)] /\ \A i \in 1 .. 5 : seqs[i] = Padded(parts[i])
  BY <1>1, PaddedPart
<1> HIDE DEF sizes, seqs
<1>4. sizes \in Seq(Nat) /\ Len(sizes) = 5 /\ seqs \in Seq(Seq(S)) /\ Len(seqs) = 5
  <2>1. sizes \in Seq(Nat) /\ Len(sizes) = 5
    BY <1>2, Five
  <2>2. seqs \in Seq(Seq(S)) /\ Len(seqs) = 5
    BY <1>3, Five
  <2> QED
    BY <2>1, <2>2
<1>5. FlattenSeq(seqs) = five
  BY <1>4, Flattened
<1>6. AndroidImage(parts).sizes = sizes /\ AndroidImage(parts).body = FlattenSeq(seqs)
  BY DEF AndroidImage, sizes, seqs
<1>7. Laid(S, <<>>, parts, sizes, 0)
  <2>1. Offset(sizes, 0 + 1) = 0
    BY <1>4, Offsets
  <2> QED
    BY <2>1 DEF Laid
<1>8. ASSUME NEW i \in Nat, i + 1 <= 5, NEW body, Laid(S, body, parts, sizes, i)
      PROVE  Laid(S, body \o seqs[i + 1], parts, sizes, i + 1)
  <2>1. Laid(S, body \o Padded(parts[i + 1]), parts, sizes, i + 1)
    BY <1>2, <1>4, <1>8, LaidNext
  <2>2. seqs[i + 1] = Padded(parts[i + 1])
    BY <1>3, <1>8
  <2> QED
    BY <2>1, <2>2
<1>9. Laid(S, one, parts, sizes, 1)
  <2>1. Laid(S, <<>> \o seqs[0 + 1], parts, sizes, 0 + 1)
    <3>1. 0 \in Nat /\ 0 + 1 <= 5
      OBVIOUS
    <3> QED
      BY <1>7, <1>8, <3>1
  <2>2. seqs[1] \in Seq(S)
    BY <1>3
  <2>3. <<>> \o seqs[1] = seqs[1] /\ 0 + 1 = 1
    BY <2>2
  <2> QED
    BY <2>1, <2>3
<1> HIDE DEF one
<1>10. Laid(S, two, parts, sizes, 2)
  <2>1. Laid(S, one \o seqs[1 + 1], parts, sizes, 1 + 1)
    BY <1>8, <1>9
  <2> QED
    BY <2>1
<1> HIDE DEF two
<1>11. Laid(S, three, parts, sizes, 3)
  <2>1. Laid(S, two \o seqs[2 + 1], parts, sizes, 2 + 1)
    BY <1>8, <1>10
  <2> QED
    BY <2>1
<1> HIDE DEF three
<1>12. Laid(S, four, parts, sizes, 4)
  <2>1. Laid(S, three \o seqs[3 + 1], parts, sizes, 3 + 1)
    BY <1>8, <1>11
  <2> QED
    BY <2>1
<1> HIDE DEF four
<1>13. Laid(S, five, parts, sizes, 5)
  <2>1. Laid(S, four \o seqs[4 + 1], parts, sizes, 4 + 1)
    BY <1>8, <1>12
  <2> QED
    BY <2>1
<1> HIDE DEF five
<1> QED
  BY <1>2, <1>4, <1>5, <1>6, <1>13

\* A part is the size elements of body behind at.
Taken(S, part, body, at, size) ==
  /\ part \in Seq(S) /\ Len(part) = size
  /\ \A k \in 1 .. size : part[k] = body[at + k]

\* What the loader takes for component i, where it lies inside the partition.
LEMMA Loaded ==
  ASSUME NEW S, NEW sizes \in Seq(Nat), NEW body \in Seq(S),
         NEW partition, partition.sizes = sizes, partition.body = body,
         NEW i \in DOMAIN sizes, Offset(sizes, i) + sizes[i] <= Len(body)
  PROVE  /\ Taken(S, LoadedPart(partition, i), body, Offset(sizes, i), sizes[i])
         /\ LoadedPart(partition, i) = Components(partition)[i]
<1> DEFINE at == Offset(sizes, i)
           size == sizes[i]
           part == LoadedPart(partition, i)
<1>1. at \in Nat /\ size \in Nat /\ at + size <= Len(body)
  <2>1. i \in 1 .. Len(sizes) + 1 /\ size \in Nat
    OBVIOUS
  <2> QED
    BY <2>1, Offsets
<1>2. part = SubSeq(body, at + 1, at + size)
  BY LoadedAtOffset DEF LoadedPart
<1>3. part = Components(partition)[i]
  BY <1>2 DEF Components
<1> HIDE DEF at, size, part
<1> DEFINE i0 == at + 1
           j0 == at + size
<1>4. i0 \in Nat /\ j0 \in Nat /\ i0 >= 1 /\ j0 + 1 >= i0 /\ j0 <= Len(body)
  BY <1>1
<1>5. j0 + 1 - i0 = size /\ \A k \in 1 .. size : i0 + k - 1 = at + k
  BY <1>1
<1>6. part = SubSeq(body, i0, j0)
  BY <1>2
<1> HIDE DEF i0, j0
<1>7. /\ part \in Seq(S) /\ Len(part) = j0 + 1 - i0
      /\ \A k \in 1 .. j0 + 1 - i0 : part[k] = body[i0 + k - 1]
  BY <1>4, <1>6, Cut
<1>8. /\ part \in Seq(S) /\ Len(part) = size
      /\ \A k \in 1 .. size : part[k] = body[at + k]
  BY <1>5, <1>7
<1> QED
  BY <1>3, <1>8 DEF Taken, at, size, part

\* The last component ends in a whole page, and so does the partition.
LEMMA ImageInside ==
  ASSUME NEW sizes \in Seq(Nat), Len(sizes) = 5, NEW n \in Nat, Multiple(n),
         Offset(sizes, 5) + sizes[5] <= n
  PROVE  Offset(sizes, 6) \in Nat /\ Offset(sizes, 6) <= n
<1> DEFINE at == Offset(sizes, 5)
           size == sizes[5]
           end == Offset(sizes, 6)
<1>1. at \in Nat /\ Multiple(at) /\ end \in Nat /\ Multiple(end) /\ end = at + Align(size)
  <2>1. 5 \in 1 .. Len(sizes) /\ 5 \in 1 .. Len(sizes) + 1 /\ 6 \in 1 .. Len(sizes) + 1 /\ 5 + 1 = 6
    OBVIOUS
  <2> QED
    BY <2>1, Offsets
<1>2. size \in Nat
  <2>1. sizes \in [1 .. 5 -> Nat]
    BY Five
  <2> QED
    BY <2>1
<1>3. Align(size) \in Nat /\ Align(size) <= size + Page - 1
  BY <1>2, AlignUp
<1>4. at + size <= n
  OBVIOUS
<1> HIDE DEF at, size, end
<1>5. ~(n < end)
  <2> SUFFICES ASSUME n < end PROVE FALSE
    OBVIOUS
  <2>1. n + Page <= end
    BY <1>1, MultiplesApart
  <2> QED
    BY <1>1, <1>2, <1>3, <1>4, <2>1, GzipAssumption
<1>6. end \in Nat /\ end <= n
  BY <1>1, <1>5
<1> QED
  BY <1>6 DEF end

ImageOver(new, parts, tail) ==
  new.sizes = AndroidImage(parts).sizes /\ new.body = AndroidImage(parts).body \o tail

\* The loader takes the parts an image was made of, whatever is behind it.
LEMMA ImageLoaded ==
  ASSUME NEW S, Zero \in S, NEW parts \in [1 .. 5 -> Seq(S)], NEW tail \in Seq(S),
         NEW new, ImageOver(new, parts, tail), NEW i \in 1 .. 5
  PROVE  LoadedPart(new, i) = parts[i]
<1> DEFINE sizes == AndroidImage(parts).sizes
           first == AndroidImage(parts).body
           body == first \o tail
           at == Offset(sizes, i)
           size == sizes[i]
<1>1. /\ sizes \in Seq(Nat) /\ Len(sizes) = 5 /\ size = Len(parts[i])
      /\ Laid(S, first, parts, sizes, 5)
  BY ImageLaid
<1>2. parts[i] \in Seq(S)
  OBVIOUS
<1>3. /\ first \in Seq(S) /\ at + size <= Len(first)
      /\ \A k \in 1 .. size : first[at + k] = parts[i][k]
  BY <1>1 DEF Laid
<1>4. new.sizes = sizes /\ new.body = body
  BY DEF ImageOver
<1> HIDE DEF sizes, first
<1>5. /\ body \in Seq(S) /\ Len(body) = Len(first) + Len(tail)
      /\ \A k \in 1 .. Len(first) : body[k] = first[k]
  BY <1>3, Joined
<1> HIDE DEF body
<1>6. i \in DOMAIN sizes /\ size \in Nat /\ at \in Nat
  <2>1. sizes \in [1 .. 5 -> Nat]
    BY <1>1, Five
  <2>2. i \in 1 .. Len(sizes) + 1
    BY <1>1
  <2> QED
    BY <1>1, <2>1, <2>2, Offsets
<1>7. Len(first) \in Nat /\ Len(tail) \in Nat
  BY <1>3
<1>8. at + size <= Len(body)
  BY <1>3, <1>5, <1>6, <1>7
<1>9. /\ LoadedPart(new, i) \in Seq(S) /\ Len(LoadedPart(new, i)) = size
      /\ \A k \in 1 .. size : LoadedPart(new, i)[k] = body[at + k]
  <2>1. sizes \in Seq(Nat) /\ body \in Seq(S)
    BY <1>1, <1>5
  <2>2. Taken(S, LoadedPart(new, i), body, at, size)
    BY <1>4, <1>6, <1>8, <2>1, Loaded
  <2> QED
    BY <2>2 DEF Taken
<1> HIDE DEF at, size
<1>10. ASSUME NEW k \in 1 .. size PROVE LoadedPart(new, i)[k] = parts[i][k]
  <2>1. at + k \in 1 .. Len(first)
    BY <1>3, <1>6, <1>7
  <2> QED
    BY <1>3, <1>5, <1>9, <2>1
<1> QED
  BY <1>1, <1>2, <1>6, <1>9, <1>10, SameSeq

\* An image over a longer body, whose tail stays.
LEMMA Overlaid ==
  ASSUME NEW S, NEW first \in Seq(S), NEW body \in Seq(S), Len(first) < Len(body)
  PROVE  LET new == first \o SubSeq(body, Len(first) + 1, Len(body))
         IN  /\ SubSeq(body, Len(first) + 1, Len(body)) \in Seq(S)
             /\ Len(new) = Len(body)
             /\ \A k \in Len(first) + 1 .. Len(body) : new[k] = body[k]
<1> DEFINE n == Len(first)
           m == Len(body)
           i0 == n + 1
           tail == SubSeq(body, i0, m)
           new == first \o tail
<1>1. /\ n \in Nat /\ i0 \in Nat /\ m \in Nat /\ i0 >= 1 /\ m + 1 >= i0 /\ m <= Len(body)
      /\ m + 1 - i0 = m - n /\ n < m /\ i0 = n + 1
  OBVIOUS
<1> HIDE DEF i0
<1>2. /\ tail \in Seq(S) /\ Len(tail) = m + 1 - i0
      /\ \A k \in 1 .. m + 1 - i0 : tail[k] = body[i0 + k - 1]
  BY <1>1, Cut
<1> HIDE DEF tail
<1>3. /\ Len(new) = n + Len(tail)
      /\ \A k \in 1 .. Len(tail) : new[n + k] = tail[k]
  <2>1. tail \in Seq(S)
    BY <1>2
  <2> QED
    BY <2>1, Joined
<1> HIDE DEF new, n, m
<1>4. Len(new) = m
  BY <1>1, <1>2, <1>3
<1>5. ASSUME NEW k \in i0 .. m PROVE new[k] = body[k]
  <2> DEFINE l == k - n
  <2>1. l \in 1 .. Len(tail) /\ l \in 1 .. m + 1 - i0 /\ n + l = k /\ i0 + l - 1 = k
    BY <1>1, <1>2
  <2> HIDE DEF l
  <2>2. new[n + l] = tail[l] /\ tail[l] = body[i0 + l - 1]
    BY <1>2, <1>3, <2>1
  <2> QED
    BY <2>1, <2>2
<1> QED
  BY <1>2, <1>4, <1>5 DEF new, tail, i0, n, m

\* What the loader makes of a derived partition.
LEMMA DerivedBoot ==
  ASSUME NEW S, NEW sizes \in Seq(Nat), NEW body \in Seq(S), Len(sizes) = 5, Multiple(Len(body)),
         NEW boot, boot.sizes = sizes, boot.body = body,
         NEW length \in Nat, BootDerivable(boot, length),
         NEW zipped \in Seq(S), zipped = Gzip(Components(boot)[1], length), Zero \in S
  PROVE  LET new == ExpectedBoot(boot, length)
         IN  /\ LoadedPart(new, 1) = Gzip(LoadedPart(boot, 1), new.sizes[1])
             /\ \A i \in {2, 5} : LoadedPart(new, i) = LoadedPart(boot, i)
             /\ new.sizes[3] = 0 /\ new.sizes[4] = 0
             /\ Len(new.body) = Len(body)
             /\ \A i \in ImageLength(boot) + 1 .. Len(body) : new.body[i] = body[i]
<1> DEFINE parts == GzipParts(boot, length)
           image == AndroidImage(parts)
           first == image.body
           n == Len(first)
           tail == SubSeq(body, n + 1, Len(body))
           new == ExpectedBoot(boot, length)
<1>1. DOMAIN sizes = 1 .. 5 /\ sizes \in [1 .. 5 -> Nat] /\ Len(body) \in Nat
  BY Five
<1>2. /\ sizes[3] = 0 /\ sizes[4] = 0
      /\ \A i \in 1 .. 5 : Offset(sizes, i) + sizes[i] <= Len(body)
      /\ n < Offset(sizes, 6) /\ ImageLength(boot) = Offset(sizes, 6)
  <2>1. ImageLength(boot) = Offset(sizes, 6)
    <3>1. Len(sizes) + 1 = 6 /\ boot.sizes = sizes
      OBVIOUS
    <3> QED
      BY <3>1 DEF ImageLength
  <2>2. n < Offset(sizes, 6)
    BY <2>1 DEF BootDerivable
  <2>3. /\ boot.sizes[3] = 0 /\ boot.sizes[4] = 0
        /\ \A i \in DOMAIN boot.sizes : Offset(boot.sizes, i) + boot.sizes[i] <= Len(boot.body)
    BY DEF BootDerivable, BootValid
  <2> QED
    BY <1>1, <2>1, <2>2, <2>3
<1>3. ASSUME NEW i \in 1 .. 5
      PROVE  /\ LoadedPart(boot, i) \in Seq(S) /\ Len(LoadedPart(boot, i)) = sizes[i]
             /\ LoadedPart(boot, i) = Components(boot)[i]
  <2>1. i \in DOMAIN sizes /\ Offset(sizes, i) + sizes[i] <= Len(body)
    BY <1>1, <1>2
  <2> QED
    BY <2>1, Loaded DEF Taken
<1>4. Components(boot) = [i \in 1 .. 5 |-> Components(boot)[i]]
  BY <1>1 DEF Components
<1>5. parts = [Components(boot) EXCEPT ![1] = zipped]
  BY DEF GzipParts
<1>6. parts \in [1 .. 5 -> Seq(S)] /\ parts[1] = zipped
      /\ \A i \in 2 .. 5 : parts[i] = LoadedPart(boot, i)
  <2> DEFINE c == Components(boot)
             Q == Seq(S)
  <2>1. c = [i \in 1 .. 5 |-> c[i]] /\ \A i \in 1 .. 5 : c[i] \in Q /\ c[i] = LoadedPart(boot, i)
    BY <1>3, <1>4
  <2>2. parts = [c EXCEPT ![1] = zipped] /\ zipped \in Q
    BY <1>5
  <2> HIDE DEF c, Q, parts
  <2>3. c \in [1 .. 5 -> Q]
    BY <2>1
  <2>4. parts \in [1 .. 5 -> Q] /\ parts[1] = zipped /\ \A i \in 2 .. 5 : parts[i] = c[i]
    BY <2>2, <2>3
  <2>5. \A i \in 2 .. 5 : i \in 1 .. 5
    OBVIOUS
  <2> QED
    BY <2>1, <2>4, <2>5 DEF Q
<1> HIDE DEF parts
<1>7. parts \in [1 .. 5 -> Seq(S)]
  BY <1>6
<1>8. /\ \A i \in 1 .. 5 : image.sizes[i] = Len(parts[i])
      /\ Laid(S, first, parts, image.sizes, 5)
  BY <1>7, ImageLaid
<1>9. first \in Seq(S)
  BY <1>8 DEF Laid
<1>10. new.sizes = image.sizes /\ new.body = first \o tail
  BY DEF ExpectedBoot, AndroidImage, parts
<1> HIDE DEF image, first, new
<1>11. n < Len(body)
  <2>1. Offset(sizes, 5) + sizes[5] <= Len(body)
    BY <1>2
  <2>2. Offset(sizes, 6) \in Nat /\ Offset(sizes, 6) <= Len(body)
    BY <1>1, <2>1, ImageInside
  <2>3. n \in Nat
    BY <1>9
  <2> QED
    BY <1>1, <1>2, <2>2, <2>3
<1>12. /\ tail \in Seq(S) /\ Len(first \o tail) = Len(body)
       /\ \A k \in n + 1 .. Len(body) : (first \o tail)[k] = body[k]
  BY <1>9, <1>11, Overlaid
<1> HIDE DEF tail
<1>13. ASSUME NEW i \in 1 .. 5 PROVE LoadedPart(new, i) = parts[i]
  <2>1. ImageOver(new, parts, tail) /\ tail \in Seq(S)
    BY <1>10, <1>12 DEF ImageOver, image, first
  <2> QED
    BY <1>7, <2>1, ImageLoaded
<1>14. LoadedPart(new, 1) = Gzip(LoadedPart(boot, 1), new.sizes[1])
  <2>1. zipped \in [1 .. length -> Range(zipped)]
    BY DEF Gzip, Range
  <2>2. Len(zipped) = length
    BY <2>1, FunctionSeq
  <2>3. 1 \in 1 .. 5
    OBVIOUS
  <2>4. new.sizes[1] = length
    BY <1>6, <1>8, <1>10, <2>2, <2>3
  <2> QED
    BY <1>3, <1>6, <1>13, <2>3, <2>4
<1>15. ASSUME NEW i \in 2 .. 5
       PROVE  LoadedPart(new, i) = LoadedPart(boot, i) /\ new.sizes[i] = sizes[i]
  <2>1. i \in 1 .. 5
    OBVIOUS
  <2> QED
    BY <1>3, <1>6, <1>8, <1>10, <1>13, <2>1
<1>16. new.sizes[3] = 0 /\ new.sizes[4] = 0
  BY <1>2, <1>15
<1>17. \A i \in {2, 5} : LoadedPart(new, i) = LoadedPart(boot, i)
  BY <1>15
<1>18. Len(new.body) = Len(body)
  BY <1>10, <1>12
<1>19. ASSUME NEW i \in ImageLength(boot) + 1 .. Len(body)
       PROVE  new.body[i] = body[i]
  <2>1. ImageLength(boot) \in Nat /\ n \in Nat
    <3>1. 6 \in 1 .. Len(sizes) + 1 /\ n \in Nat
      BY <1>1, <1>9
    <3> QED
      BY <1>2, <3>1, Offsets
  <2>2. i \in n + 1 .. Len(body)
    BY <1>1, <1>2, <2>1
  <2> QED
    BY <1>10, <1>12, <2>2
<1> QED
  BY <1>14, <1>16, <1>19, <1>17, <1>18, Zenon DEF new

\* The loader finds the gzip kernel and the vendor's other components.
THEOREM KernelFound == GzipSpec => []KernelStarts
<1>1. ASSUME GzipInv PROVE KernelStarts
  <2> SUFFICES ASSUME gzip # "idle"
               PROVE  /\ LoadedPart(made.boot, 1) =
                           Gzip(LoadedPart(given.boot, 1), made.boot.sizes[1])
                      /\ \A i \in {2, 5} : LoadedPart(made.boot, i) = LoadedPart(given.boot, i)
                      /\ made.boot.sizes[3] = 0 /\ made.boot.sizes[4] = 0
                      /\ Len(made.boot.body) = Len(given.boot.body)
                      /\ \A i \in ImageLength(given.boot) + 1 .. Len(given.boot.body) :
                           made.boot.body[i] = given.boot.body[i]
    BY DEF KernelStarts
  <2>1. PICK pair \in Pairs \cap Audited, length \in Lengths :
          /\ BootDerivable(pair.boot, length)
          /\ given = pair /\ made = Derived(pair, length)
    BY <1>1 DEF GzipInv
  <2> DEFINE boot == pair.boot
             sizes == boot.sizes
             body == boot.body
             zipped == Gzip(Components(boot)[1], length)
             S == Range(body) \union Range(zipped) \union {Zero}
  <2>2. /\ sizes \in Seq(Nat) /\ Len(sizes) = 5
        /\ body \in Seq(Range(body)) /\ Len(body) % Page = 0
    BY PairAssumption
  <2>3. length \in Nat
    BY GzipAssumption
  <2>4. given.boot = boot /\ made.boot = ExpectedBoot(boot, length)
    BY <2>1 DEF Derived
  <2>5. BootDerivable(boot, length)
    BY <2>1
  <2>6. zipped \in [1 .. length -> S]
    BY DEF Gzip, Range
  <2> HIDE DEF zipped
  <2>7. body \in Seq(S) /\ Zero \in S
    BY <2>2
  <2> HIDE DEF S
  <2>8. zipped \in Seq(S)
    BY <2>3, <2>6, FunctionSeq
  <2>9. Multiple(Len(body))
    <3>1. Len(body) \in Nat
      BY <2>7
    <3> QED
      BY <2>2, <3>1, MultipleMod
  <2>10. zipped = Gzip(Components(boot)[1], length)
    BY DEF zipped
  <2> HIDE DEF boot
  <2> QED
    BY <2>2, <2>3, <2>4, <2>5, <2>7, <2>8, <2>9, <2>10, DerivedBoot
<1> QED
  BY <1>1, GzipInvariant, PTL

-----------------------------------------------------------------------------
(* restore-card.py *)

Working == RestoreSteps \ {"none", "idle"}

\* What the page cache and the card agree about: the identity always, all of
\* it on a foreign card, everything behind an fsync.
IdentityAgrees == \A c \in IdentityCells : seen[c] = medium[c]

OnlyRecognised ==
  /\ restore \in Working => Recognised(seen)
  /\ ~Recognised(seen) => medium = seen

SyncedWhenRead == restore \in {"read_boot", "read_package", "restored"} => medium = seen

LeftOfRegion ==
  /\ restore = "boot" => left \subseteq BootCells
  /\ restore = "package" => left \subseteq PackageCells

BootRestored ==
  restore \in {"package", "sync_package", "read_package", "restored"} =>
    \A c \in BootCells : seen[c] = "original" /\ medium[c] = "original"

PackageRestored ==
  restore = "restored" => \A c \in PackageCells : seen[c] = "original"

RestoreInv ==
  /\ RestoreTypeOK /\ IdentityAgrees /\ OnlyRecognised
  /\ SyncedWhenRead /\ LeftOfRegion /\ BootRestored /\ PackageRestored

\* A card that has just been put in has been read and not written.
LEMMA RestoreInvInit == RestoreInit => RestoreInv
BY RestoreAssumption, SMT
   DEF RestoreInit, RestoreInv, RestoreTypeOK, RestoreSteps, Blank, CellContents, Cells,
       IdentityAgrees, OnlyRecognised, Working, SyncedWhenRead, LeftOfRegion, BootRestored,
       PackageRestored

\* Every step of the script, the kernel or the user keeps the agreement.
LEMMA RestoreInvStep == RestoreInv /\ [RestoreNext]_restoreVars => RestoreInv'
<1> SUFFICES ASSUME RestoreInv, [RestoreNext]_restoreVars PROVE RestoreInv'
  OBVIOUS
<1> USE DEF RestoreInv
<1>0. /\ BootCells \subseteq Cells /\ PackageCells \subseteq Cells
      /\ IdentityCells \subseteq Cells /\ FragileCells \cap IdentityCells = {}
      /\ \A c \in Cells : c \in BootCells \/ c \in PackageCells
  BY RestoreAssumption DEF Cells
<1> USE DEF RestoreTypeOK, RestoreSteps, IdentityAgrees, OnlyRecognised, Working, Recognised,
            SyncedWhenRead, LeftOfRegion, BootRestored, PackageRestored
<1>1. CASE Insert
  BY <1>0, <1>1, SMT DEF Insert, CellContents
<1>2. CASE Eject
  BY <1>0, <1>2, SMT DEF Eject, Blank, CellContents
<1>3. CASE StartRestore
  BY <1>0, <1>3, SMT DEF StartRestore
<1>4. CASE WriteChunk
  <2>1. PICK chunk \in (SUBSET left) \ {{}}, bad \in SUBSET FragileCells :
          /\ seen' = [c \in Cells |-> IF c \notin chunk THEN seen[c]
                                      ELSE IF c \in bad THEN "other" ELSE "original"]
          /\ left' = left \ chunk
    BY <1>4 DEF WriteChunk
  <2>2. restore \in {"boot", "package"} /\ restore' = restore /\ medium' = medium
    BY <1>4 DEF WriteChunk
  <2>3. RestoreTypeOK'
    BY <2>1, <2>2, SMT DEF RestoreTypeOK, CellContents
  <2>4. \A c \in IdentityCells : seen[c] = "original" /\ medium[c] = "original"
    BY <2>2, SMT DEF OnlyRecognised, Working, RestoreSteps, Recognised, IdentityAgrees
  <2>5. \A c \in IdentityCells : seen'[c] = "original" /\ medium'[c] = "original"
    BY <1>0, <2>1, <2>2, <2>4, SMT
  <2>6. IdentityAgrees' /\ OnlyRecognised'
    BY <2>5 DEF IdentityAgrees, OnlyRecognised, Recognised
  <2>7. SyncedWhenRead' /\ PackageRestored' /\ LeftOfRegion'
    BY <2>1, <2>2, SMT DEF SyncedWhenRead, PackageRestored, LeftOfRegion
  <2>8. ASSUME restore = "package", NEW c \in BootCells
        PROVE  seen'[c] = "original" /\ medium'[c] = "original"
    <3>1. c \in Cells /\ c \notin chunk
      BY <1>0, <2>1, <2>8, RestoreAssumption, SMT DEF LeftOfRegion
    <3> QED
      BY <2>1, <2>2, <2>8, <3>1, SMT DEF BootRestored
  <2>9. BootRestored'
    BY <2>2, <2>8, SMT DEF BootRestored
  <2> QED
    BY <2>3, <2>6, <2>7, <2>9
<1>5. CASE RegionWritten
  BY <1>0, <1>5, SMT DEF RegionWritten
<1>6. CASE FsyncCard
  BY <1>0, <1>6, SMT DEF FsyncCard
<1>7. CASE ReadBack
  BY <1>0, <1>7, SMT DEF ReadBack
<1>8. CASE Fail
  BY <1>0, <1>8, SMT DEF Fail
<1>9. CASE Pull
  BY <1>0, <1>9, SMT DEF Pull
<1>10. CASE UNCHANGED restoreVars
  BY <1>0, <1>10, SMT DEF restoreVars
<1>11. CASE FlushCell
  <2>1. PICK c \in Cells : medium' = [medium EXCEPT ![c] = seen[c]]
    BY <1>11 DEF FlushCell
  <2>2. restore' = restore /\ left' = left /\ seen' = seen
    BY <1>11 DEF FlushCell
  <2>3. \A d \in Cells : medium'[d] = medium[d] \/ medium'[d] = seen[d]
    BY <2>1, SMT DEF RestoreTypeOK
  <2>4. RestoreTypeOK'
    BY <2>1, <2>2, SMT DEF RestoreTypeOK
  <2>5. medium = seen => medium' = seen
    BY <2>1, SMT DEF RestoreTypeOK
  <2>6. IdentityAgrees' /\ BootRestored'
    BY <1>0, <2>2, <2>3, SMT DEF IdentityAgrees, BootRestored
  <2>7. OnlyRecognised' /\ SyncedWhenRead' /\ LeftOfRegion' /\ PackageRestored'
    BY <2>2, <2>5 DEF OnlyRecognised, SyncedWhenRead, LeftOfRegion, PackageRestored, Recognised
  <2> QED
    BY <2>4, <2>6, <2>7
<1> QED
  BY <1>1, <1>2, <1>3, <1>4, <1>5, <1>6, <1>7, <1>8, <1>9, <1>10, <1>11 DEF RestoreNext

\* "Original boot pair restored and verified" is true of the card.
THEOREM RestoredIsTrue == RestoreSpec => []RestoredIsOriginal
<1>1. RestoreInv => RestoredIsOriginal
  BY SMT DEF RestoreInv, RestoreTypeOK, Cells, SyncedWhenRead, BootRestored, PackageRestored,
             RestoredIsOriginal
<1> QED
  BY <1>1, RestoreInvInit, RestoreInvStep, PTL DEF RestoreSpec

\* A foreign card is not written, and a recognised one stays recognisable.
THEOREM ForeignStaysUntouched == RestoreSpec => ForeignUntouched
<1>1. RestoreInv /\ RestoreInv' /\ [RestoreNext]_restoreVars =>
        [restore # "none" /\ restore' # "none" =>
           /\ ~Recognised(medium) => medium' = medium
           /\ Recognised(medium) => Recognised(medium')]_restoreVars
  <2> SUFFICES ASSUME RestoreInv, RestoreInv', RestoreNext,
                      restore # "none", restore' # "none"
               PROVE  /\ ~Recognised(medium) => medium' = medium
                      /\ Recognised(medium) => Recognised(medium')
    OBVIOUS
  <2>1. ASSUME medium' = medium
        PROVE  /\ ~Recognised(medium) => medium' = medium
               /\ Recognised(medium) => Recognised(medium')
    BY <2>1 DEF Recognised
  <2>2. CASE StartRestore \/ WriteChunk \/ RegionWritten \/ ReadBack \/ Fail \/ Pull
    BY <2>1, <2>2 DEF StartRestore, WriteChunk, RegionWritten, ReadBack, Fail, Pull
  <2>3. CASE Insert \/ Eject
    BY <2>3 DEF Insert, Eject
  <2>4. CASE FsyncCard
    <3>1. restore \in Working /\ medium' = seen
      BY <2>4 DEF FsyncCard, Working, RestoreSteps
    <3>2. Recognised(seen) /\ Recognised(medium)
      BY <3>1 DEF RestoreInv, IdentityAgrees, OnlyRecognised, Recognised
    <3> QED
      BY <3>1, <3>2
  <2>5. CASE FlushCell
    <3>1. PICK c \in Cells : medium' = [medium EXCEPT ![c] = seen[c]]
      BY <2>5 DEF FlushCell
    <3>2. medium \in [Cells -> CellContents] /\ seen \in [Cells -> CellContents]
      BY DEF RestoreInv, RestoreTypeOK
    <3>3. \A d \in IdentityCells : d \in Cells /\ seen[d] = medium[d]
      BY RestoreAssumption DEF RestoreInv, IdentityAgrees, Cells
    <3>4. CASE Recognised(seen)
      <4>1. Recognised(medium)
        BY <3>3, <3>4 DEF Recognised
      <4>2. \A d \in IdentityCells : medium'[d] = "original"
        BY <3>1, <3>2, <3>3, <3>4, SMT DEF Recognised
      <4> QED
        BY <4>1, <4>2 DEF Recognised
    <3>5. CASE ~Recognised(seen)
      <4>1. medium = seen
        BY <3>5 DEF RestoreInv, OnlyRecognised
      <4>2. medium' = medium
        BY <3>1, <3>2, <4>1, SMT
      <4> QED
        BY <4>2, <2>1
    <3> QED
      BY <3>4, <3>5
  <2> QED
    BY <2>2, <2>3, <2>4, <2>5 DEF RestoreNext
<1> QED
  BY <1>1, RestoreInvInit, RestoreInvStep, PTL DEF RestoreSpec, ForeignUntouched

=============================================================================
