-------------------------- MODULE RetryDelay_proofs --------------------------
(***************************************************************************)
(* What the delays of RetryDelay are and add up to, for every cap and      *)
(* width.  Induction is by the least counterexample: the library's         *)
(* WFMin, on the order of the natural numbers.                             *)
(***************************************************************************)
EXTENDS RetryDelay, TLAPS, WellFoundedInduction

\* Every set of natural numbers that is not empty has a least element.
LEMMA LeastNat ==
  ASSUME NEW T, T \subseteq Nat, T # {}
  PROVE  \E x \in T : \A y \in T : x <= y
<1> DEFINE R == {ss \in Nat \X Nat : ss[1] < ss[2]}
<1>1. IsWellFoundedOn(R, Nat)
  BY NatLessThanWellFounded, Zenon DEF OpToRel
<1>2. \A x, y \in Nat : <<y, x>> \notin R => x <= y
  OBVIOUS
<1> HIDE DEF R
<1>3. \E x \in T : \A y \in T : <<y, x>> \notin R
  BY <1>1, WFMin, Zenon
<1>4. QED
  BY <1>2, <1>3

-----------------------------------------------------------------------------
\* A function on the natural numbers may be defined by what it is at 0 and how
\* each value follows from the one before.

\* f does so up to n.
FollowsUpTo(f, n, c, G) ==
    \A k \in 0..n : f[k] = IF k = 0 THEN c ELSE G[<<k-1, f[k-1]>>]

LEMMA StepsExist ==
  ASSUME NEW c \in Nat, NEW G \in [Nat \X Nat -> Nat], NEW n \in Nat
  PROVE  \E f \in [0..n -> Nat] : FollowsUpTo(f, n, c, G)
<1> DEFINE Ok(k) == \E f \in [0..k -> Nat] : FollowsUpTo(f, k, c, G)
           Bad == {k \in Nat : ~Ok(k)}
<1>1. SUFFICES ASSUME Bad # {} PROVE FALSE
  OBVIOUS
<1>2. Bad \subseteq Nat
  OBVIOUS
<1> HIDE DEF Bad
<1>3. PICK k \in Bad : \A j \in Bad : k <= j
  BY <1>1, <1>2, LeastNat
<1>4. k \in Nat
  BY <1>2
<1>5. CASE k = 0
  <2> DEFINE f == [j \in 0..0 |-> c]
  <2>1. f \in [0..0 -> Nat] /\ FollowsUpTo(f, 0, c, G)
    BY DEF FollowsUpTo
  <2>2. QED
    BY <1>5, <2>1 DEF Bad
<1>6. CASE k # 0
  <2>1. k-1 \in Nat /\ k-1 \notin Bad
    BY <1>3, <1>4, <1>6
  <2>2. PICK f \in [0..(k-1) -> Nat] : FollowsUpTo(f, k-1, c, G)
    BY <2>1 DEF Bad
  <2> DEFINE v == G[<<k-1, f[k-1]>>]
             g == [j \in 0..k |-> IF j = k THEN v ELSE f[j]]
  <2>3. f[k-1] \in Nat
    BY <2>1
  <2>4. v \in Nat
    BY <2>1, <2>3
  <2>5. ASSUME NEW j \in 0..k PROVE g[j] = IF j = 0 THEN c ELSE G[<<j-1, g[j-1]>>]
    <3>1. CASE j = k
      <4>1. g[j] = v /\ j # 0
        BY <1>6, <3>1
      <4>2. k-1 \in 0..k /\ k-1 # k
        BY <1>4, <1>6
      <4>3. g[k-1] = f[k-1]
        BY <4>2
      <4> HIDE DEF g
      <4>4. QED
        BY <3>1, <4>1, <4>3
    <3>2. CASE j # k
      <4>1. /\ j \in 0..(k-1)
            /\ j # 0 => j-1 \in 0..k /\ j-1 # k
        BY <3>2, <1>4
      <4>2. g[j] = f[j] /\ (j # 0 => g[j-1] = f[j-1])
        BY <3>2, <4>1
      <4> HIDE DEF g
      <4>3. QED
        BY <2>2, <4>1, <4>2 DEF FollowsUpTo
    <3>3. QED
      BY <3>1, <3>2
  <2>6. g \in [0..k -> Nat]
    BY <1>4, <2>4
  <2> HIDE DEF g
  <2>7. Ok(k)
    BY <2>5, <2>6 DEF FollowsUpTo
  <2>8. QED
    BY <2>7 DEF Bad
<1>7. QED
  BY <1>5, <1>6

LEMMA StepsAgree ==
  ASSUME NEW c, NEW G, NEW f, NEW g,
         NEW m \in Nat, NEW n \in Nat, m <= n,
         FollowsUpTo(f, m, c, G), FollowsUpTo(g, n, c, G)
  PROVE  \A k \in 0..m : f[k] = g[k]
<1> DEFINE Bad == {k \in 0..m : f[k] # g[k]}
<1>1. SUFFICES ASSUME Bad # {} PROVE FALSE
  OBVIOUS
<1>2. Bad \subseteq Nat
  OBVIOUS
<1>3. PICK k \in Bad : \A j \in Bad : k <= j
  <2> HIDE DEF Bad
  <2>1. QED
    BY <1>1, <1>2, LeastNat
<1>4. k \in 0..m /\ k \in 0..n /\ f[k] # g[k]
  OBVIOUS
<1>5. CASE k = 0
  BY <1>4, <1>5 DEF FollowsUpTo
<1>6. CASE k # 0
  <2>1. k-1 \in 0..m /\ k-1 \notin Bad
    BY <1>3, <1>4, <1>6
  <2>2. f[k-1] = g[k-1]
    BY <2>1
  <2>3. QED
    BY <1>4, <1>6, <2>2 DEF FollowsUpTo
<1>7. QED
  BY <1>5, <1>6

LEMMA RecursionExists ==
  ASSUME NEW c \in Nat, NEW G \in [Nat \X Nat -> Nat]
  PROVE  \E f : f = [n \in Nat |-> IF n = 0 THEN c ELSE G[<<n-1, f[n-1]>>]]
<1> DEFINE F(n) == CHOOSE f \in [0..n -> Nat] : FollowsUpTo(f, n, c, G)
           f == [n \in Nat |-> F(n)[n]]
<1>1. \A n \in Nat : F(n) \in [0..n -> Nat] /\ FollowsUpTo(F(n), n, c, G)
  BY StepsExist
<1>2. \A n \in Nat : f[n] = F(n)[n]
  OBVIOUS
<1>3. f = [n \in Nat |-> f[n]]
  OBVIOUS
<1> HIDE DEF F, f
<1>4. ASSUME NEW n \in Nat PROVE f[n] = IF n = 0 THEN c ELSE G[<<n-1, f[n-1]>>]
  <2>1. F(n)[n] = IF n = 0 THEN c ELSE G[<<n-1, F(n)[n-1]>>]
    <3>1. FollowsUpTo(F(n), n, c, G) /\ n \in 0..n
      BY <1>1
    <3>2. QED
      BY <3>1, Zenon DEF FollowsUpTo
  <2>2. CASE n = 0
    BY <1>2, <2>1, <2>2
  <2>3. CASE n # 0
    <3>1. n-1 \in Nat /\ n-1 <= n /\ n-1 \in 0..(n-1)
      BY <2>3
    <3>2. /\ FollowsUpTo(F(n-1), n-1, c, G)
          /\ FollowsUpTo(F(n), n, c, G)
      BY <1>1, <3>1
    <3>3. F(n-1)[n-1] = F(n)[n-1]
      BY <3>1, <3>2, StepsAgree
    <3>4. f[n-1] = F(n)[n-1]
      BY <1>2, <3>1, <3>3
    <3>5. QED
      BY <1>2, <2>1, <2>3, <3>4
  <2>4. QED
    BY <2>2, <2>3
<1>5. f = [n \in Nat |-> IF n = 0 THEN c ELSE G[<<n-1, f[n-1]>>]]
  BY <1>3, <1>4
<1>6. QED
  BY <1>5

-----------------------------------------------------------------------------
\* Powers of two.

LEMMA Pow2Equation == Pow2 = [n \in Nat |-> IF n = 0 THEN 1 ELSE 2 * Pow2[n-1]]
<1> DEFINE G == [p \in Nat \X Nat |-> 2 * p[2]]
<1>1. G \in [Nat \X Nat -> Nat]
  OBVIOUS
<1>2. PICK f : f = [n \in Nat |-> IF n = 0 THEN 1 ELSE G[<<n-1, f[n-1]>>]]
  <2>0. 0 \in Nat /\ 1 \in Nat
    OBVIOUS
  <2> HIDE DEF G
  <2>1. QED
    BY <1>1, <2>0, RecursionExists
<1>3. ASSUME NEW n \in Nat PROVE f[n] \in Nat
  <2> DEFINE Bad == {k \in Nat : f[k] \notin Nat}
  <2>1. SUFFICES ASSUME Bad # {} PROVE FALSE
    OBVIOUS
  <2>2. Bad \subseteq Nat
    OBVIOUS
  <2>3. PICK k \in Bad : \A j \in Bad : k <= j
    <3> HIDE DEF Bad
    <3>1. QED
      BY <2>1, <2>2, LeastNat
  <2>4. k # 0 /\ k \in Nat
    BY <1>2
  <2>5. k-1 \in Nat /\ k-1 \notin Bad
    BY <2>3, <2>4
  <2>6. f[k] = G[<<k-1, f[k-1]>>]
    BY <1>2, <2>4
  <2>7. QED
    BY <1>1, <2>5, <2>6
<1>4. \A n \in Nat \ {0} : G[<<n-1, f[n-1]>>] = 2 * f[n-1]
  <2>1. SUFFICES ASSUME NEW n \in Nat \ {0} PROVE G[<<n-1, f[n-1]>>] = 2 * f[n-1]
    OBVIOUS
  <2>2. n-1 \in Nat /\ f[n-1] \in Nat
    BY <1>3
  <2>3. QED
    BY <2>2
<1>5. f = [n \in Nat |-> IF n = 0 THEN 1 ELSE 2 * f[n-1]]
  <2> HIDE DEF G
  <2>1. QED
    BY <1>2, <1>4
<1>6. QED
  BY <1>5 DEF Pow2

\* The powers of two are positive and double.
LEMMA Pow2Values ==
  /\ Pow2 \in [Nat -> Nat \ {0}]
  /\ Pow2[0] = 1
  /\ \A n \in Nat : Pow2[n+1] = 2 * Pow2[n]
<1>1. \A n \in Nat : Pow2[n] = IF n = 0 THEN 1 ELSE 2 * Pow2[n-1]
  BY Pow2Equation
<1>2. ASSUME NEW n \in Nat PROVE Pow2[n] \in Nat \ {0}
  <2> DEFINE Bad == {k \in Nat : Pow2[k] \notin Nat \ {0}}
  <2>1. SUFFICES ASSUME Bad # {} PROVE FALSE
    OBVIOUS
  <2>2. Bad \subseteq Nat
    OBVIOUS
  <2>3. PICK k \in Bad : \A j \in Bad : k <= j
    <3> HIDE DEF Bad
    <3>1. QED
      BY <2>1, <2>2, LeastNat
  <2>4. k # 0 /\ k \in Nat
    BY <1>1
  <2>5. Pow2[k-1] \in Nat \ {0}
    BY <2>3, <2>4
  <2>6. QED
    BY <1>1, <2>4, <2>5
<1>3. Pow2 = [n \in Nat |-> Pow2[n]]
  BY Pow2Equation
<1>4. Pow2 \in [Nat -> Nat \ {0}]
  BY <1>2, <1>3
<1>5. \A n \in Nat : n+1 \in Nat /\ n+1 # 0 /\ (n+1)-1 = n
  OBVIOUS
<1>6. QED
  BY <1>1, <1>4, <1>5

\* They grow.
LEMMA Pow2Grows == \A m, n \in Nat : m <= n => Pow2[m] <= Pow2[n]
<1>1. SUFFICES ASSUME NEW m \in Nat, NEW n \in Nat, m <= n PROVE Pow2[m] <= Pow2[n]
  OBVIOUS
<1> DEFINE Bad == {k \in Nat : m <= k /\ ~(Pow2[m] <= Pow2[k])}
<1>2. SUFFICES ASSUME Bad # {} PROVE FALSE
  BY <1>1
<1>3. Bad \subseteq Nat
  OBVIOUS
<1>4. PICK k \in Bad : \A j \in Bad : k <= j
  <2> HIDE DEF Bad
  <2>1. QED
    BY <1>2, <1>3, LeastNat
<1>5. Pow2[m] \in Nat /\ k \in Nat /\ m <= k
  BY Pow2Values
<1>6. k # m
  BY <1>5
<1>7. k-1 \in Nat /\ m <= k-1 /\ (k-1)+1 = k
  BY <1>5, <1>6
<1>8. Pow2[m] <= Pow2[k-1]
  BY <1>4, <1>7
<1>9. Pow2[k] = 2 * Pow2[k-1] /\ Pow2[k-1] \in Nat /\ Pow2[k] \in Nat
  BY <1>7, Pow2Values
<1>10. QED
  BY <1>5, <1>8, <1>9

-----------------------------------------------------------------------------
\* The delays.

\* The delay that the comment names for attempt n+1.
Nominal(n) == IF Pow2[n] > MaxBackoff THEN MaxBackoff ELSE Pow2[n]

LEMMA NominalType == \A n \in Nat : Nominal(n) \in Nat \ {0} /\ Nominal(n) <= MaxBackoff
<1>1. SUFFICES ASSUME NEW n \in Nat PROVE Nominal(n) \in Nat \ {0} /\ Nominal(n) <= MaxBackoff
  OBVIOUS
<1>2. Pow2[n] \in Nat \ {0}
  BY Pow2Values
<1>3. QED
  BY <1>2, DelayTypes DEF Nominal

\* The delay after an attempt is a natural number, at most MaxBackoff, and the
\* one the comment names as long as the shift stays within the width.
LEMMA BackoffValues ==
  \A a \in Nat \ {0} :
    /\ Backoff(a) \in Nat
    /\ Backoff(a) <= MaxBackoff
    /\ a <= Width => Backoff(a) = Nominal(a-1)
<1>1. SUFFICES ASSUME NEW a \in Nat \ {0}
               PROVE  /\ Backoff(a) \in Nat
                      /\ Backoff(a) <= MaxBackoff
                      /\ a <= Width => Backoff(a) = Nominal(a-1)
  OBVIOUS
<1>2. a-1 \in Nat /\ Pow2[a-1] \in Nat /\ (a <= Width <=> a-1 < Width)
  BY Pow2Values, DelayTypes
<1>3. QED
  BY <1>2, DelayTypes DEF Backoff, Shift, Nominal

LEMMA CostEquation ==
  Cost = [n \in Nat |-> IF n = 0 THEN 0
                        ELSE Cost[n-1] + (IF Pow2[n-1] > MaxBackoff THEN MaxBackoff ELSE Pow2[n-1])]
<1> DEFINE G == [p \in Nat \X Nat |-> p[2] + Nominal(p[1])]
<1>1. G \in [Nat \X Nat -> Nat]
  BY NominalType
<1>2. PICK f : f = [n \in Nat |-> IF n = 0 THEN 0 ELSE G[<<n-1, f[n-1]>>]]
  <2>0. 0 \in Nat /\ 1 \in Nat
    OBVIOUS
  <2> HIDE DEF G
  <2>1. QED
    BY <1>1, <2>0, RecursionExists
<1>3. ASSUME NEW n \in Nat PROVE f[n] \in Nat
  <2> DEFINE Bad == {k \in Nat : f[k] \notin Nat}
  <2>1. SUFFICES ASSUME Bad # {} PROVE FALSE
    OBVIOUS
  <2>2. Bad \subseteq Nat
    OBVIOUS
  <2>3. PICK k \in Bad : \A j \in Bad : k <= j
    <3> HIDE DEF Bad
    <3>1. QED
      BY <2>1, <2>2, LeastNat
  <2>4. k # 0 /\ k \in Nat
    BY <1>2
  <2>5. k-1 \in Nat /\ k-1 \notin Bad
    BY <2>3, <2>4
  <2>6. f[k] = G[<<k-1, f[k-1]>>]
    BY <1>2, <2>4
  <2>7. QED
    BY <1>1, <2>5, <2>6
<1>4. \A n \in Nat \ {0} : G[<<n-1, f[n-1]>>] = f[n-1] + Nominal(n-1)
  <2>1. SUFFICES ASSUME NEW n \in Nat \ {0}
                 PROVE  G[<<n-1, f[n-1]>>] = f[n-1] + Nominal(n-1)
    OBVIOUS
  <2>2. n-1 \in Nat /\ f[n-1] \in Nat
    BY <1>3
  <2>3. QED
    BY <2>2
<1>5. f = [n \in Nat |-> IF n = 0 THEN 0 ELSE f[n-1] + Nominal(n-1)]
  <2> HIDE DEF G
  <2>1. QED
    BY <1>2, <1>4
<1>6. QED
  BY <1>5, Zenon DEF Cost, Nominal

\* Each attempt adds its delay.
LEMMA CostValues ==
  /\ Cost \in [Nat -> Nat]
  /\ Cost[0] = 0
  /\ \A n \in Nat : Cost[n+1] = Cost[n] + Nominal(n)
<1>1. \A n \in Nat : Cost[n] = IF n = 0 THEN 0 ELSE Cost[n-1] + Nominal(n-1)
  BY CostEquation DEF Nominal
<1>2. ASSUME NEW n \in Nat PROVE Cost[n] \in Nat
  <2> DEFINE Bad == {k \in Nat : Cost[k] \notin Nat}
  <2>1. SUFFICES ASSUME Bad # {} PROVE FALSE
    OBVIOUS
  <2>2. Bad \subseteq Nat
    OBVIOUS
  <2>3. PICK k \in Bad : \A j \in Bad : k <= j
    <3> HIDE DEF Bad
    <3>1. QED
      BY <2>1, <2>2, LeastNat
  <2>4. k # 0 /\ k \in Nat
    BY <1>1
  <2>5. k-1 \in Nat /\ Cost[k-1] \in Nat
    BY <2>3, <2>4
  <2>6. QED
    BY <1>1, <2>4, <2>5, NominalType
<1>3. Cost = [n \in Nat |-> Cost[n]]
  BY CostEquation
<1>4. Cost \in [Nat -> Nat]
  BY <1>2, <1>3
<1>5. \A n \in Nat : n+1 \in Nat /\ n+1 # 0 /\ (n+1)-1 = n
  OBVIOUS
<1>6. QED
  BY <1>1, <1>4, <1>5

\* The cost grows with the attempts.
LEMMA CostGrows == \A m, n \in Nat : m <= n => Cost[m] <= Cost[n]
<1>1. SUFFICES ASSUME NEW m \in Nat, NEW n \in Nat, m <= n PROVE Cost[m] <= Cost[n]
  OBVIOUS
<1> DEFINE Bad == {k \in Nat : m <= k /\ ~(Cost[m] <= Cost[k])}
<1>2. SUFFICES ASSUME Bad # {} PROVE FALSE
  BY <1>1
<1>3. Bad \subseteq Nat
  OBVIOUS
<1>4. PICK k \in Bad : \A j \in Bad : k <= j
  <2> HIDE DEF Bad
  <2>1. QED
    BY <1>2, <1>3, LeastNat
<1>5. Cost[m] \in Nat /\ k \in Nat /\ m <= k
  BY CostValues
<1>6. k # m
  BY <1>5
<1>7. k-1 \in Nat /\ m <= k-1 /\ (k-1)+1 = k
  BY <1>5, <1>6
<1>8. Cost[m] <= Cost[k-1]
  BY <1>4, <1>7
<1>9. Cost[k] = Cost[k-1] + Nominal(k-1) /\ Cost[k-1] \in Nat /\ Nominal(k-1) \in Nat
  BY <1>7, CostValues, NominalType
<1>10. QED
  BY <1>5, <1>8, <1>9

\* The delays add up to 2^n - 1 until they are capped, and to more than the cap
\* from then on.
THEOREM CostIsExponential == \A n \in Nat : Cost[n] >= Pow2[n] - 1 \/ Cost[n] > MaxBackoff
<1> DEFINE Ok(n) == Cost[n] >= Pow2[n] - 1 \/ Cost[n] > MaxBackoff
           Bad == {n \in Nat : ~Ok(n)}
<1>1. SUFFICES ASSUME Bad # {} PROVE FALSE
  OBVIOUS
<1>2. Bad \subseteq Nat
  OBVIOUS
<1>3. PICK n \in Bad : \A j \in Bad : n <= j
  <2> HIDE DEF Bad
  <2>1. QED
    BY <1>1, <1>2, LeastNat
<1>4. n \in Nat /\ ~Ok(n)
  OBVIOUS
<1>5. n # 0
  BY <1>4, Pow2Values, CostValues
<1>6. n-1 \in Nat /\ (n-1)+1 = n /\ Ok(n-1)
  BY <1>3, <1>4, <1>5
<1>7. /\ Pow2[n-1] \in Nat /\ Pow2[n] = 2 * Pow2[n-1]
      /\ Cost[n-1] \in Nat /\ Cost[n] = Cost[n-1] + Nominal(n-1)
  BY <1>6, Pow2Values, CostValues
<1>8. CASE Pow2[n-1] <= MaxBackoff
  BY <1>4, <1>6, <1>7, <1>8, DelayTypes DEF Nominal
<1>9. CASE Pow2[n-1] > MaxBackoff
  <2>1. n-1 # 0
    BY <1>9, Pow2Values, DelayTypes
  <2>2. 1 <= n-1 /\ Cost[1] = 1
    <3>1. Cost[0+1] = Cost[0] + Nominal(0)
      BY CostValues
    <3>2. QED
      BY <1>6, <2>1, <3>1, CostValues, Pow2Values, DelayTypes DEF Nominal
  <2>3. Cost[1] <= Cost[n-1]
    BY <1>6, <2>2, CostGrows
  <2>4. QED
    BY <1>4, <1>7, <1>9, <2>2, <2>3, DelayTypes DEF Nominal
<1>10. QED
  BY <1>7, <1>8, <1>9, DelayTypes
=============================================================================
