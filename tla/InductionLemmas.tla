----------------------------- MODULE InductionLemmas -----------------------------
(* Induction over the natural numbers, stated for sets, and what it says   *)
(* of functions that are defined by recursion on the first i elements of a *)
(* sequence, as the loops of the code are.                                 *)
EXTENDS Integers, FiniteSetTheorems, Functions, WellFoundedInduction, TLAPS

(* A set of numbers has a smallest member: else the intervals up to its    *)
(* members would shrink for ever.                                          *)
LEMMA SmallestMember ==
  ASSUME NEW T \in SUBSET Nat, T # {}
  PROVE  \E n \in T : \A m \in T : n <= m
<1>1. PICK k \in T : TRUE
  OBVIOUS
<1> DEFINE S == 0 .. k
           U == {0 .. m : m \in {q \in T : q <= k}}
<1>2. IsFiniteSet(S)
  BY FS_Interval
<1>3. IsWellFoundedOn(StrictSubsetOrdering(S), SUBSET S)
  BY <1>2, FS_StrictSubsetOrderingWellFounded, FS_FiniteSubsetsOfFinite, Zenon
<1>4. U # {} /\ U \subseteq SUBSET S
  OBVIOUS
<1>5. PICK X \in U : \A Y \in U : <<Y, X>> \notin StrictSubsetOrdering(S)
  <2> HIDE DEF U, S
  <2> QED
    BY <1>3, <1>4, WFMin, Zenon
<1>6. PICK n \in T : n <= k /\ X = 0 .. n
  OBVIOUS
<1>7. ASSUME NEW m \in T, m < n PROVE FALSE
  <2>1. 0 .. m \in U
    BY <1>6, <1>7
  <2>2. 0 .. m \subseteq X /\ 0 .. m # X
    BY <1>6, <1>7
  <2>3. <<0 .. m, X>> \in StrictSubsetOrdering(S)
    BY <1>4, <2>1, <2>2 DEF StrictSubsetOrdering
  <2>4. QED
    BY <1>5, <2>1, <2>3
<1>8. QED
  BY <1>6, <1>7

(* Induction up to n.                                                      *)
LEMMA BoundedInduction ==
  ASSUME NEW n \in Nat, NEW T, 0 \in T,
         \A i \in 1 .. n : i - 1 \in T => i \in T
  PROVE  0 .. n \subseteq T
<1>1. SUFFICES ASSUME 0 .. n \ T # {} PROVE FALSE
  OBVIOUS
<1>2. PICK i \in 0 .. n \ T : \A j \in 0 .. n \ T : i <= j
  <2>1. 0 .. n \ T \in SUBSET Nat
    OBVIOUS
  <2>2. QED
    BY <1>1, <2>1, SmallestMember
<1>3. i \in 1 .. n /\ i - 1 \in 0 .. n
  BY <1>2
<1>4. i - 1 \notin T
  BY <1>3
<1>5. QED
  BY <1>2, <1>3, <1>4

(* A function on 0 .. n that starts from base and takes each value from    *)
(* the one before it.                                                      *)
Follows(f, n, base, step) ==
  \A i \in 0 .. n : f[i] = IF i = 0 THEN base ELSE step[<<i, f[i - 1]>>]

(* Such a recursive definition does define a function.                     *)
LEMMA RecursiveFunction ==
  ASSUME NEW V, NEW n \in Nat, NEW base \in V, NEW step \in [(1 .. n) \X V -> V]
  PROVE  \E f \in [0 .. n -> V] : Follows(f, n, base, step)
<1> DEFINE Defined(m) == \E f \in [0 .. m -> V] : Follows(f, m, base, step)
           T == {m \in 0 .. n : Defined(m)}
<1>1. 0 \in T
  <2> DEFINE f == [i \in 0 .. 0 |-> base]
  <2>1. f \in [0 .. 0 -> V]
    OBVIOUS
  <2>2. Follows(f, 0, base, step)
    BY DEF Follows
  <2>3. Defined(0)
    <3> HIDE DEF f
    <3> QED
      BY <2>1, <2>2
  <2>4. QED
    <3> HIDE DEF Defined
    <3> QED
      BY <2>3
<1>2. ASSUME NEW m \in 1 .. n, m - 1 \in T PROVE m \in T
  <2>1. PICK g \in [0 .. m - 1 -> V] : Follows(g, m - 1, base, step)
    BY <1>2
  <2> DEFINE f == [i \in 0 .. m |-> IF i = m THEN step[<<m, g[m - 1]>>] ELSE g[i]]
  <2>2. g[m - 1] \in V /\ <<m, g[m - 1]>> \in (1 .. n) \X V
    BY m - 1 \in 0 .. m - 1
  <2>3. f \in [0 .. m -> V]
    BY <2>2
  <2>4. ASSUME NEW i \in 0 .. m
        PROVE f[i] = IF i = 0 THEN base ELSE step[<<i, f[i - 1]>>]
    <3>1. CASE i = m
      <4>1. i # 0 /\ i - 1 \in 0 .. m /\ i - 1 # m
        BY <3>1
      <4>2. f[i] = step[<<m, g[m - 1]>>]
        BY <3>1
      <4>3. f[i - 1] = g[m - 1]
        BY <3>1, <4>1
      <4>4. QED
        BY <3>1, <4>1, <4>2, <4>3
    <3>2. CASE i # m
      <4>1. i \in 0 .. m - 1 /\ f[i] = g[i]
        BY <3>2
      <4>2. i # 0 => i - 1 \in 0 .. m /\ i - 1 # m /\ f[i - 1] = g[i - 1]
        BY <3>2
      <4>3. g[i] = IF i = 0 THEN base ELSE step[<<i, g[i - 1]>>]
        BY <2>1, <4>1 DEF Follows
      <4>4. QED
        BY <4>1, <4>2, <4>3
    <3>3. QED
      BY <3>1, <3>2
  <2>5. Follows(f, m, base, step)
    BY <2>4 DEF Follows
  <2>6. Defined(m)
    <3> HIDE DEF f
    <3> QED
      BY <2>3, <2>5
  <2>7. QED
    <3> HIDE DEF Defined
    <3> QED
      BY <2>6
<1>3. n \in T
  <2> HIDE DEF T
  <2>1. n \in 0 .. n
    OBVIOUS
  <2>2. QED
    BY <1>1, <1>2, <2>1, BoundedInduction
<1>4. QED
  BY <1>3

-----------------------------------------------------------------------------
(* Division with a remainder, by induction on the dividend.                *)
LEMMA Division ==
  ASSUME NEW n \in Nat \ {0}, NEW a \in Nat
  PROVE  \E q \in Nat : \E r \in 0 .. n - 1 : a = n * q + r
<1> DEFINE T == {b \in 0 .. a : \E q \in Nat : \E r \in 0 .. n - 1 : b = n * q + r}
<1>1. 0 \in T
  <2>1. 0 \in Nat /\ 0 \in 0 .. n - 1 /\ 0 = n * 0 + 0
    OBVIOUS
  <2>2. \E q \in Nat : \E r \in 0 .. n - 1 : 0 = n * q + r
    BY <2>1
  <2>3. QED
    BY <2>2
<1>2. ASSUME NEW b \in 1 .. a, b - 1 \in T PROVE b \in T
  <2>1. PICK q \in Nat, r \in 0 .. n - 1 : b - 1 = n * q + r
    BY <1>2
  <2>2. n * q \in Nat /\ n * (q + 1) = n * q + n
    OBVIOUS
  <2>3. CASE r + 1 < n
    <3>1. r + 1 \in 0 .. n - 1 /\ b = n * q + (r + 1)
      BY <2>1, <2>2, <2>3
    <3>2. QED
      BY <3>1
  <2>4. CASE ~(r + 1 < n)
    <3>1. q + 1 \in Nat /\ 0 \in 0 .. n - 1 /\ b = n * (q + 1) + 0
      BY <2>1, <2>2, <2>4
    <3>2. QED
      BY <3>1
  <2>5. QED
    BY <2>3, <2>4
<1>3. 0 .. a \subseteq T
  <2> HIDE DEF T
  <2>1. QED
    BY <1>1, <1>2, BoundedInduction
<1>4. QED
  BY <1>3

(* The remainder is the only one there is.                                *)
LEMMA Remainder ==
  ASSUME NEW n \in Nat \ {0}, NEW q \in Nat, NEW r \in 0 .. n - 1
  PROVE  (n * q + r) % n = r
OBVIOUS

(* Counting on from a, the remainder goes round.                           *)
LEMMA RemainderGoesRound ==
  ASSUME NEW n \in Nat \ {0}, NEW a \in Nat, NEW b \in 0 .. n - 1
  PROVE  /\ a % n \in 0 .. n - 1
         /\ (a + b) % n = IF (a % n) + b < n THEN (a % n) + b ELSE ((a % n) + b) - n
<1>1. PICK q \in Nat, r \in 0 .. n - 1 : a = n * q + r
  BY Division
<1>2. a % n = r
  BY <1>1, Remainder
<1>3. n * q \in Nat /\ n * (q + 1) = n * q + n /\ q + 1 \in Nat
  OBVIOUS
<1>4. CASE r + b < n
  <2>1. r + b \in 0 .. n - 1 /\ a + b = n * q + (r + b)
    BY <1>1, <1>3, <1>4
  <2>2. (n * q + (r + b)) % n = r + b
    BY <2>1, Remainder
  <2>3. QED
    BY <1>2, <1>4, <2>1, <2>2
<1>5. CASE ~(r + b < n)
  <2>1. r + b - n \in 0 .. n - 1 /\ a + b = n * (q + 1) + (r + b - n)
    BY <1>1, <1>3, <1>5
  <2>2. (n * (q + 1) + (r + b - n)) % n = r + b - n
    BY <2>1, <1>3, Remainder
  <2>3. QED
    BY <1>2, <1>5, <2>1, <2>2
<1>6. QED
  BY <1>4, <1>5

(* In one round of n, as many numbers have their remainder in an interval  *)
(* as the interval has members.                                            *)
LEMMA OneRound ==
  ASSUME NEW n \in Nat \ {0}, NEW d \in Nat, NEW lo \in 0 .. n, NEW hi \in lo .. n
  PROVE  Cardinality({k \in 1 .. n : lo <= (d + (k - 1)) % n /\ (d + (k - 1)) % n < hi}) = hi - lo
<1> DEFINE r == d % n
           Pos(k) == IF r + (k - 1) < n THEN r + (k - 1) ELSE r + (k - 1) - n
           At(p) == IF p >= r THEN p - r + 1 ELSE p - r + n + 1
           Hits == {k \in 1 .. n : lo <= (d + (k - 1)) % n /\ (d + (k - 1)) % n < hi}
           Places == lo .. hi - 1
           f == [p \in Places |-> At(p)]
<1>1. r \in 0 .. n - 1
  <2>1. 0 \in 0 .. n - 1
    OBVIOUS
  <2>2. QED
    BY <2>1, RemainderGoesRound
<1>2. \A k \in 1 .. n : (d + (k - 1)) % n = Pos(k)
  <2> SUFFICES ASSUME NEW k \in 1 .. n PROVE (d + (k - 1)) % n = Pos(k)
    OBVIOUS
  <2>1. k - 1 \in 0 .. n - 1
    OBVIOUS
  <2>2. ASSUME NEW b \in 0 .. n - 1
        PROVE  (d + b) % n = IF r + b < n THEN r + b ELSE r + b - n
    <3> HIDE DEF Pos, At, Hits, Places, f
    <3>1. (d + b) % n = IF (d % n) + b < n THEN (d % n) + b ELSE ((d % n) + b) - n
      BY RemainderGoesRound, Zenon
    <3>2. QED
      BY <3>1
  <2> HIDE DEF r
  <2>3. QED
    BY <2>1, <2>2
<1> HIDE DEF r
<1>3. Hits = {k \in 1 .. n : lo <= Pos(k) /\ Pos(k) < hi}
  BY <1>2
<1>4. \A p \in Places : At(p) \in Hits /\ Pos(At(p)) = p
  <2> SUFFICES ASSUME NEW p \in Places PROVE At(p) \in 1 .. n /\ Pos(At(p)) = p
    BY <1>3
  <2>1. QED
    BY <1>1
<1>5. \A k \in Hits : Pos(k) \in Places /\ At(Pos(k)) = k
  <2> SUFFICES ASSUME NEW k \in 1 .. n, lo <= Pos(k), Pos(k) < hi
               PROVE  Pos(k) \in Places /\ At(Pos(k)) = k
    BY <1>3
  <2>1. QED
    BY <1>1
<1>6. f \in Bijection(Places, Hits)
  <2> HIDE DEF Places, Hits, At, Pos
  <2>1. f \in [Places -> Hits]
    BY <1>4
  <2>2. \A p, q \in Places : f[p] = f[q] => p = q
    BY <1>4
  <2>3. \A k \in Hits : \E p \in Places : f[p] = k
    BY <1>5
  <2>4. QED
    BY <2>1, <2>2, <2>3 DEF Bijection, Injection, Surjection, IsInjective
<1>7. IsFiniteSet(Places) /\ Cardinality(Places) = hi - lo
  <2>1. /\ lo \in Int /\ hi - 1 \in Int /\ lo <= hi
        /\ (IF lo > hi - 1 THEN 0 ELSE hi - 1 - lo + 1) = hi - lo
    OBVIOUS
  <2>2. IsFiniteSet(lo .. hi - 1)
        /\ Cardinality(lo .. hi - 1) = IF lo > hi - 1 THEN 0 ELSE hi - 1 - lo + 1
    BY <2>1, FS_Interval
  <2>3. QED
    BY <2>1, <2>2
<1>8. ExistsBijection(Places, Hits)
  <2> HIDE DEF f, Hits, Places
  <2> QED
    BY <1>6 DEF ExistsBijection
<1>9. Cardinality(Hits) = Cardinality(Places)
  <2> HIDE DEF Hits, Places
  <2> QED
    BY <1>7, <1>8, FS_Bijection
<1>10. QED
  BY <1>7, <1>9
=============================================================================
