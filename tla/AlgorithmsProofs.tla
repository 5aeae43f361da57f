--------------------------- MODULE AlgorithmsProofs ---------------------------
(***************************************************************************)
(* Theorems about the two algorithms of MCAlgorithms, for every width,     *)
(* base, cap and attempt, and for every table of posts, limit, page size   *)
(* and number of changes between two pages.                                *)
(*                                                                         *)
(* The algorithms are recursive functions. What is proved of them by       *)
(* induction goes through the set of the numbers it holds for, and the     *)
(* library's fact that < is well-founded on the naturals.                  *)
(***************************************************************************)
EXTENDS MCAlgorithms, SequenceTheorems, FiniteSetTheorems, TLAPS

Below == { ss \in Nat \X Nat : ss[1] < ss[2] }

LEMMA LessIsWellFounded == IsWellFoundedOn(Below, Nat)
<1>1. IsWellFoundedOn(OpToRel(<, Nat), Nat)
  BY NatLessThanWellFounded
<1> QED
  BY <1>1 DEF OpToRel, Below

(* Induction over the naturals, for a set.                                 *)
LEMMA Induct ==
    ASSUME NEW S, 0 \in S, \A n \in Nat : n \in S => n + 1 \in S
    PROVE  Nat \subseteq S
<1> SUFFICES ASSUME Nat \ S # {} PROVE FALSE
  OBVIOUS
<1>1. PICK x \in Nat \ S : \A y \in Nat \ S : <<y, x>> \notin Below
  BY LessIsWellFounded, WFMin
<1>2. x # 0
  OBVIOUS
<1>3. x - 1 \in Nat /\ <<x - 1, x>> \in Below
  BY <1>2 DEF Below
<1>4. x - 1 \in S
  BY <1>1, <1>3
<1> QED
  BY <1>3, <1>4

(* A function on 0 .. n with first value c, that F continues.              *)
Extends(F, c, n, g) ==
    g = [k \in 0 .. n |-> IF k = 0 THEN c ELSE F[k][g[k - 1]]]

(* Some function on Nat starts with c, and F makes each value of the one   *)
(* before it.                                                              *)
HasRecursion(V, c, F) ==
    \E f \in [Nat -> V] : f[0] = c /\ \A n \in Nat : f[n + 1] = F[n + 1][f[n]]

(* Primitive recursion over the naturals defines a function.               *)
LEMMA Recursion ==
    ASSUME NEW V, NEW c \in V, NEW F \in [Nat -> [V -> V]]
    PROVE  HasRecursion(V, c, F)
<1> DEFINE S == { m \in Nat : \E g \in [0 .. m -> V] : Extends(F, c, m, g) }
<1>1. 0 \in S
  <2> DEFINE g == [k \in 0 .. 0 |-> c]
  <2>1. g \in [0 .. 0 -> V] /\ Extends(F, c, 0, g)
    BY DEF Extends
  <2> QED
    BY <2>1
<1>2. ASSUME NEW m \in Nat, m \in S PROVE m + 1 \in S
  <2>1. PICK g \in [0 .. m -> V] : Extends(F, c, m, g)
    BY <1>2
  <2> DEFINE h == [k \in 0 .. m + 1 |-> IF k = m + 1 THEN F[m + 1][g[m]] ELSE g[k]]
  <2>2. h \in [0 .. m + 1 -> V]
    BY <2>1
  <2>3. Extends(F, c, m + 1, h)
    BY <2>1 DEF Extends
  <2> HIDE DEF h
  <2> QED
    BY <2>2, <2>3
<1> HIDE DEF S
<1>3. Nat \subseteq S
  BY <1>1, <1>2, Induct
<1> DEFINE upto(n) == CHOOSE g \in [0 .. n -> V] : Extends(F, c, n, g)
<1>4. \A n \in Nat : upto(n) \in [0 .. n -> V] /\ Extends(F, c, n, upto(n))
  BY <1>3 DEF S
<1> HIDE DEF upto
<1>5. ASSUME NEW n \in Nat PROVE upto(n + 1)[n] = upto(n)[n]
  <2> DEFINE T == { k \in Nat : k <= n => upto(n + 1)[k] = upto(n)[k] }
  <2>1. 0 \in T
    BY <1>4 DEF Extends
  <2>2. ASSUME NEW k \in Nat, k \in T PROVE k + 1 \in T
    <3> SUFFICES ASSUME k + 1 <= n PROVE upto(n + 1)[k + 1] = upto(n)[k + 1]
      OBVIOUS
    <3>1. Extends(F, c, n, upto(n)) /\ Extends(F, c, n + 1, upto(n + 1))
      BY <1>4
    <3>2. /\ upto(n)[k + 1] = F[k + 1][upto(n)[k]]
          /\ upto(n + 1)[k + 1] = F[k + 1][upto(n + 1)[k]]
      BY <3>1 DEF Extends
    <3> QED
      BY <2>2, <3>2
  <2> HIDE DEF T
  <2>3. Nat \subseteq T
    BY <2>1, <2>2, Induct
  <2> QED
    BY <2>3 DEF T
<1> DEFINE f == [n \in Nat |-> upto(n)[n]]
<1>6. f \in [Nat -> V] /\ f[0] = c
  BY <1>4 DEF Extends
<1>7. ASSUME NEW n \in Nat PROVE f[n + 1] = F[n + 1][f[n]]
  <2>1. upto(n + 1)[n + 1] = F[n + 1][upto(n + 1)[n]]
    BY <1>4 DEF Extends
  <2> QED
    BY <1>5, <2>1
<1> HIDE DEF f
<1> QED
  BY <1>6, <1>7 DEF HasRecursion

------------------------------------------------------------------------------
(* CalculateBackoff.                                                       *)

(* Pow2 is what its definition says, and positive.                         *)
LEMMA PowDef ==
    /\ Pow2 \in [Nat -> Nat] /\ Pow2[0] = 1
    /\ \A n \in Nat : Pow2[n + 1] = 2 * Pow2[n] /\ 0 < Pow2[n]
<1> DEFINE F == [n \in Nat |-> [v \in Nat |-> 2 * v]]
<1>1. /\ F \in [Nat -> [Nat -> Nat]] /\ \A v, n \in Nat : F[n][v] = 2 * v
      /\ 1 \in Nat /\ \A n \in Nat : n + 1 \in Nat
  OBVIOUS
<1> HIDE DEF F
<1>2. HasRecursion(Nat, 1, F)
  BY <1>1, Recursion
<1>3. PICK f \in [Nat -> Nat] :
        f[0] = 1 /\ \A n \in Nat : f[n + 1] = F[n + 1][f[n]]
  BY <1>2 DEF HasRecursion
<1>4. f[0] = 1 /\ \A n \in Nat : f[n + 1] = 2 * f[n]
  BY <1>1, <1>3, Zenon
<1>5. f = [n \in Nat |-> IF n = 0 THEN 1 ELSE 2 * f[n - 1]]
  <2>1. \A n \in Nat : f[n] = IF n = 0 THEN 1 ELSE 2 * f[n - 1]
    <3> SUFFICES ASSUME NEW n \in Nat, n # 0 PROVE f[n] = 2 * f[n - 1]
      BY <1>4
    <3>1. n - 1 \in Nat /\ n = (n - 1) + 1
      OBVIOUS
    <3> QED
      BY <1>4, <3>1
  <2> QED
    BY <2>1
<1>6. Pow2 = [n \in Nat |-> IF n = 0 THEN 1 ELSE 2 * Pow2[n - 1]]
  BY <1>5 DEF Pow2
<1>7. \A n \in Nat : Pow2[n] = IF n = 0 THEN 1 ELSE 2 * Pow2[n - 1]
  BY <1>6
<1> DEFINE T == { n \in Nat : Pow2[n] \in Nat /\ 0 < Pow2[n] }
<1>8. 0 \in T /\ \A n \in Nat : n \in T => n + 1 \in T
  BY <1>7
<1> HIDE DEF T
<1>9. Nat \subseteq T
  BY <1>8, Induct
<1> QED
  BY <1>6, <1>7, <1>9 DEF T

(* Doubling a duration gives the double, or a negative number when that    *)
(* does not fit.                                                           *)
LEMMA WrapDouble ==
    ASSUME NEW d \in Durations
    PROVE  /\ 2 * d < Pow2[Width - 1] => Wrap(2 * d) = 2 * d
           /\ 2 * d >= Pow2[Width - 1] => Wrap(2 * d) < 0 /\ Wrap(2 * d) \in Int
<1> DEFINE half == Pow2[Width - 1]
           full == Pow2[Width]
<1>1. Width - 1 \in Nat /\ (Width - 1) + 1 = Width
  BY WidthAssumption
<1>2. half \in Nat /\ full = 2 * half
  BY <1>1, PowDef
<1>3. d \in Nat /\ 0 < d /\ d < half
  BY <1>2 DEF Durations
<1> HIDE DEF half, full
<1>4. (2 * d) % full = 2 * d
  BY <1>2, <1>3
<1> QED
  BY <1>2, <1>3, <1>4 DEF Wrap, half, full

(* Growing gives an integer.                                               *)
LEMMA GrowType ==
    ASSUME NEW d \in Int, NEW m \in Int
    PROVE  Grow(d, m) \in Int
<1> DEFINE half == Pow2[Width - 1]
           full == Pow2[Width]
           r == (2 * d) % full
<1>1. half \in Nat /\ full \in Nat
  BY PowDef, WidthAssumption
<1>2. full # 0
  BY PowDef, WidthAssumption
<1> HIDE DEF half, full
<1>3. r \in Int
  BY <1>1, <1>2
<1> HIDE DEF r
<1>4. Wrap(2 * d) = IF r >= half THEN r - full ELSE r
  BY DEF Wrap, r, half, full
<1> QED
  BY <1>1, <1>3, <1>4 DEF Grow, Capped

(* The loop of CalculateBackoff as a function of the number of its turns.  *)
Delays(b, m, f) ==
    /\ f \in [Nat -> Int]
    /\ f[0] = b /\ f[1] = b
    /\ \A n \in Nat \ {0} : f[n + 1] = Grow(f[n], m)

LEMMA BackoffLoop ==
    ASSUME NEW b \in Int, NEW m \in Int
    PROVE  \E f : /\ Delays(b, m, f)
                  /\ \A a \in Nat \ {0} : CalculateBackoff(b, m, a) =
                       IF f[a] = Capped \/ f[a] > m THEN m ELSE f[a]
<1> DEFINE F == [n \in Nat |-> [v \in Int |-> IF n <= 1 THEN b ELSE Grow(v, m)]]
<1>1. F \in [Nat -> [Int -> Int]]
  BY GrowType
<1>2. \A n \in Nat, v \in Int : F[n][v] = IF n <= 1 THEN b ELSE Grow(v, m)
  OBVIOUS
<1> HIDE DEF F
<1>3. HasRecursion(Int, b, F)
  BY <1>1, Recursion
<1>4. PICK g \in [Nat -> Int] :
        g[0] = b /\ \A n \in Nat : g[n + 1] = F[n + 1][g[n]]
  BY <1>3 DEF HasRecursion
<1>5. \A n \in Nat : n + 1 \in Nat
  OBVIOUS
<1>6. \A n \in Nat : g[n + 1] = IF n + 1 <= 1 THEN b ELSE Grow(g[n], m)
  <2> TAKE n \in Nat
  <2>1. g[n] \in Int /\ n + 1 \in Nat
    BY <1>4, <1>5
  <2>2. F[n + 1][g[n]] = IF n + 1 <= 1 THEN b ELSE Grow(g[n], m)
    BY <1>2, <2>1, Zenon
  <2>3. g[n + 1] = F[n + 1][g[n]]
    BY <1>4, Zenon
  <2> QED
    BY <2>2, <2>3, Zenon
<1>7. \A n \in Nat : g[n] = IF n <= 1 THEN b ELSE Grow(g[n - 1], m)
  <2> SUFFICES ASSUME NEW n \in Nat, n # 0
               PROVE  g[n] = IF n <= 1 THEN b ELSE Grow(g[n - 1], m)
    BY <1>4
  <2>1. n - 1 \in Nat /\ n = (n - 1) + 1
    OBVIOUS
  <2> QED
    BY <1>6, <2>1
<1>8. g = [i \in Nat |-> IF i <= 1 THEN b ELSE Grow(g[i - 1], m)]
  BY <1>4, <1>7
<1> DEFINE step[i \in Nat] == IF i <= 1 THEN b ELSE Grow(step[i - 1], m)
           eq(h) == h = [i \in Nat |-> IF i <= 1 THEN b ELSE Grow(h[i - 1], m)]
<1>9. step = CHOOSE h : eq(h)
  OBVIOUS
<1>10. eq(g)
  BY <1>8
<1>11. \A a \in Nat \ {0} : CalculateBackoff(b, m, a) =
         IF step[a] = Capped \/ step[a] > m THEN m ELSE step[a]
  BY DEF CalculateBackoff
<1> HIDE DEF step, eq
<1>12. eq(step)
  BY <1>9, <1>10
<1>13. step = [i \in Nat |-> IF i <= 1 THEN b ELSE Grow(step[i - 1], m)]
  BY <1>12 DEF eq
<1>14. \A n \in Nat : step[n] = IF n <= 1 THEN b ELSE Grow(step[n - 1], m)
  BY <1>13
<1> DEFINE T == { n \in Nat : step[n] \in Int }
<1>15. 0 \in T /\ \A n \in Nat : n \in T => n + 1 \in T
  <2>1. 0 \in T
    BY <1>14
  <2>2. ASSUME NEW n \in Nat, n \in T PROVE n + 1 \in T
    <3>1. n + 1 \in Nat /\ (n + 1) - 1 = n
      OBVIOUS
    <3>2. step[n + 1] = IF n + 1 <= 1 THEN b ELSE Grow(step[n], m)
      BY <1>14, <3>1
    <3>3. Grow(step[n], m) \in Int
      BY <2>2, GrowType
    <3> QED
      BY <3>1, <3>2, <3>3
  <2> QED
    BY <2>1, <2>2
<1> HIDE DEF T
<1>16. Nat \subseteq T
  BY <1>15, Induct
<1>17. Delays(b, m, step)
  BY <1>13, <1>14, <1>16 DEF Delays, T
<1> QED
  BY <1>11, <1>17

(* After n doublings the delay is base * 2^n, or it is capped since that   *)
(* is more than the maximum.                                               *)
LEMMA DelayIs ==
    ASSUME NEW b \in Durations, NEW m \in Durations, NEW f, Delays(b, m, f)
    PROVE  \A n \in Nat : f[n + 1] =
             IF n = 0 \/ b * Pow2[n] <= m THEN b * Pow2[n] ELSE Capped
<1> DEFINE half == Pow2[Width - 1]
<1>1. half \in Nat
  BY PowDef, WidthAssumption
<1>2. b \in Nat /\ m \in Nat /\ 0 < b /\ m < half
  BY <1>1 DEF Durations
<1> DEFINE is(n, x) == x = IF n = 0 \/ b * Pow2[n] <= m THEN b * Pow2[n] ELSE Capped
           S == { n \in Nat : is(n, f[n + 1]) }
<1>3. 0 \in S
  <2>1. b * Pow2[0] = b
    BY <1>2, PowDef
  <2> QED
    BY <2>1 DEF Delays
<1>4. ASSUME NEW n \in Nat, n \in S PROVE n + 1 \in S
  <2> DEFINE P == b * Pow2[n]
  <2>1. P \in Nat /\ b * Pow2[n + 1] = 2 * P
    BY <1>2, PowDef
  <2>2. n = 0 => P = b
    BY <1>2, PowDef
  <2>3. f[n + 1] = IF n = 0 \/ P <= m THEN P ELSE Capped
    BY <1>4
  <2>4. f[(n + 1) + 1] = Grow(f[n + 1], m)
    BY DEF Delays
  <2>5. b <= P
    BY <1>2, PowDef
  <2> HIDE DEF P
  <2>6. f[(n + 1) + 1] = IF 2 * P <= m THEN 2 * P ELSE Capped
    <3>1. CASE n = 0 \/ P <= m
      <4>1. P \in Durations /\ f[n + 1] = P /\ 0 < P
        BY <1>1, <1>2, <2>1, <2>2, <2>3, <2>5, <3>1 DEF Durations
      <4>2. CASE 2 * P < half
        <5>1. Wrap(2 * P) = 2 * P
          BY <4>1, <4>2, WrapDouble
        <5> QED
          BY <1>2, <2>1, <2>4, <4>1, <5>1 DEF Grow, Capped
      <4>3. CASE 2 * P >= half
        <5>1. Wrap(2 * P) < 0 /\ Wrap(2 * P) \in Int
          BY <4>1, <4>3, WrapDouble
        <5>2. ~(2 * P <= m) /\ Wrap(2 * P) < P
          BY <1>1, <1>2, <2>1, <4>1, <4>3, <5>1
        <5> QED
          BY <2>4, <4>1, <5>2 DEF Grow
      <4> QED
        BY <1>1, <2>1, <4>2, <4>3
    <3>2. CASE ~(n = 0 \/ P <= m)
      <4>1. ~(2 * P <= m) /\ f[n + 1] = Capped
        BY <1>2, <2>1, <2>3, <3>2
      <4> QED
        BY <2>4, <4>1 DEF Grow
    <3> QED
      BY <3>1, <3>2
  <2> QED
    BY <2>1, <2>6
<1> HIDE DEF S
<1>5. Nat \subseteq S
  BY <1>3, <1>4, Induct
<1> QED
  BY <1>5 DEF S

(* CalculateBackoff never overflows into a wrong delay: it is the base     *)
(* doubled for each attempt, up to the maximum.                            *)
LEMMA BackoffClosedForm ==
    ASSUME NEW b \in Durations, NEW m \in Durations, NEW a \in Nat \ {0}
    PROVE  LET exact == b * Pow2[a - 1]
           IN  CalculateBackoff(b, m, a) = IF exact > m THEN m ELSE exact
<1> DEFINE half == Pow2[Width - 1]
           exact == b * Pow2[a - 1]
<1>1. half \in Nat
  BY PowDef, WidthAssumption
<1>2. b \in Nat /\ m \in Nat /\ 0 < b /\ 0 < m
  BY <1>1 DEF Durations
<1>3. PICK f : /\ Delays(b, m, f)
               /\ \A n \in Nat \ {0} : CalculateBackoff(b, m, n) =
                    IF f[n] = Capped \/ f[n] > m THEN m ELSE f[n]
  BY <1>2, BackoffLoop
<1>4. a - 1 \in Nat /\ (a - 1) + 1 = a
  OBVIOUS
<1>5. f[a] = IF a - 1 = 0 \/ exact <= m THEN exact ELSE Capped
  BY <1>3, <1>4, DelayIs
<1>6. exact \in Nat
  BY <1>2, <1>4, PowDef
<1>7. CalculateBackoff(b, m, a) = IF f[a] = Capped \/ f[a] > m THEN m ELSE f[a]
  BY <1>3
<1>8. exact # 0
  <2>1. 0 < Pow2[a - 1] /\ Pow2[a - 1] \in Nat
    BY <1>4, PowDef
  <2> QED
    BY <1>2, <2>1
<1> HIDE DEF exact
<1>9. CalculateBackoff(b, m, a) = IF exact > m THEN m ELSE exact
  BY <1>2, <1>5, <1>6, <1>7, <1>8 DEF Capped
<1> QED
  BY <1>9 DEF exact

(* The backoff part of every reachable state.                              *)
BackoffInv ==
    /\ base \in Durations /\ max \in Durations
    /\ attempt \in Nat \ {0}
    /\ delay = CalculateBackoff(base, max, attempt)

(* The delay before an attempt is base * 2^(attempt - 1), capped at the    *)
(* maximum, at every width of the integer, also where the doubling         *)
(* overflows (RetryPolicy.CalculateBackoff).                               *)
THEOREM BackoffIsExponential == Spec => []CappedExponential
<1>1. 1 \in Durations
  <2>1. Width - 2 \in Nat /\ (Width - 2) + 1 = Width - 1
    BY WidthAssumption
  <2>2. /\ Pow2[Width - 2] \in Nat /\ 0 < Pow2[Width - 2]
        /\ Pow2[Width - 1] = 2 * Pow2[Width - 2]
    BY <2>1, PowDef
  <2> QED
    BY <2>2 DEF Durations
<1>2. Init => BackoffInv
  BY <1>1, AttemptAssumption DEF Init, BackoffInv
<1>3. BackoffInv /\ [Next]_<<wvars, backoff>> => BackoffInv'
  <2> SUFFICES ASSUME BackoffInv, [Next]_<<wvars, backoff>> PROVE BackoffInv'
    OBVIOUS
  <2>1. CASE NextAttempt
    BY <2>1 DEF BackoffInv, NextAttempt
  <2>2. CASE UNCHANGED backoff
    BY <2>2 DEF BackoffInv, backoff
  <2> QED
    BY <2>1, <2>2 DEF Next
<1>4. BackoffInv => CappedExponential
  BY BackoffClosedForm DEF BackoffInv, CappedExponential
<1> QED
  BY <1>2, <1>3, <1>4, PTL DEF Spec

------------------------------------------------------------------------------
(* Bytes and TruncateUTF8.                                                 *)

(* The sums of the first k widths of t, for k up to n.                     *)
SumTo(t, n, g) == g = [k \in 0 .. n |-> IF k = 0 THEN 0 ELSE g[k - 1] + t[k]]

LEMMA SumExists == ASSUME NEW t, NEW n \in Nat PROVE \E g : SumTo(t, n, g)
<1> DEFINE S == { m \in Nat : \E g : SumTo(t, m, g) }
<1>1. 0 \in S
  <2> DEFINE g == [k \in 0 .. 0 |-> 0]
  <2>1. SumTo(t, 0, g)
    BY DEF SumTo
  <2> QED
    BY <2>1
<1>2. ASSUME NEW m \in Nat, m \in S PROVE m + 1 \in S
  <2>1. PICK g : SumTo(t, m, g)
    BY <1>2
  <2> DEFINE h == [k \in 0 .. m + 1 |-> IF k = m + 1 THEN g[m] + t[m + 1] ELSE g[k]]
  <2>2. SumTo(t, m + 1, h)
    BY <2>1 DEF SumTo
  <2> HIDE DEF h
  <2> QED
    BY <2>2
<1> HIDE DEF S
<1>3. Nat \subseteq S
  BY <1>1, <1>2, Induct
<1> QED
  BY <1>3 DEF S

LEMMA BytesSum ==
    ASSUME NEW t, Len(t) \in Nat
    PROVE \E g : SumTo(t, Len(t), g) /\ Bytes(t) = g[Len(t)]
<1> DEFINE sum[k \in 0..Len(t)] == IF k = 0 THEN 0 ELSE sum[k - 1] + t[k]
<1>1. Bytes(t) = sum[Len(t)]
  BY DEF Bytes
<1>2. sum = CHOOSE g : SumTo(t, Len(t), g)
  BY DEF SumTo
<1> HIDE DEF sum
<1>3. SumTo(t, Len(t), sum)
  BY <1>2, SumExists
<1> QED
  BY <1>1, <1>3

AgreeTo(t, u, n) == \A k \in 1 .. n : t[k] = u[k]

(* A sum depends on nothing but the widths it is of.                       *)
LEMMA SumAgrees ==
    ASSUME NEW t, NEW u, NEW g, NEW h, NEW n \in Nat, NEW m \in Nat, n <= m,
           SumTo(t, n, g), SumTo(u, m, h), AgreeTo(t, u, n)
    PROVE  g[n] = h[n]
<1> DEFINE T == { k \in Nat : k <= n => g[k] = h[k] }
<1>1. 0 \in T
  BY DEF SumTo
<1>2. ASSUME NEW k \in Nat, k \in T PROVE k + 1 \in T
  <2> SUFFICES ASSUME k + 1 <= n PROVE g[k + 1] = h[k + 1]
    OBVIOUS
  <2>1. g[k + 1] = g[k] + t[k + 1] /\ h[k + 1] = h[k] + u[k + 1]
    BY DEF SumTo
  <2> QED
    BY <1>2, <2>1 DEF AgreeTo
<1> HIDE DEF T
<1>3. Nat \subseteq T
  BY <1>1, <1>2, Induct
<1> QED
  BY <1>3 DEF T

LEMMA BytesEmpty == Bytes(<<>>) = 0
<1>1. PICK g : SumTo(<<>>, Len(<<>>), g) /\ Bytes(<<>>) = g[Len(<<>>)]
  BY BytesSum
<1> QED
  BY <1>1 DEF SumTo

LEMMA BytesNat == ASSUME NEW t \in Seq(Nat) PROVE Bytes(t) \in Nat
<1>1. PICK g : SumTo(t, Len(t), g) /\ Bytes(t) = g[Len(t)]
  BY BytesSum
<1> DEFINE T == { k \in Nat : k <= Len(t) => g[k] \in Nat }
<1>2. 0 \in T
  BY <1>1 DEF SumTo
<1>3. ASSUME NEW k \in Nat, k \in T PROVE k + 1 \in T
  <2> SUFFICES ASSUME k + 1 <= Len(t) PROVE g[k + 1] \in Nat
    OBVIOUS
  <2>1. g[k + 1] = g[k] + t[k + 1] /\ t[k + 1] \in Nat
    BY <1>1 DEF SumTo
  <2> QED
    BY <1>3, <2>1
<1> HIDE DEF T
<1>4. Nat \subseteq T
  BY <1>2, <1>3, Induct
<1> QED
  BY <1>1, <1>4 DEF T

LEMMA BytesAppend ==
    ASSUME NEW t \in Seq(Nat), NEW x \in Nat
    PROVE  Bytes(Append(t, x)) = Bytes(t) + x
<1>1. PICK n \in Nat : n = Len(t)
  OBVIOUS
<1>2. PICK u : u = Append(t, x)
  OBVIOUS
<1>3. Len(u) = n + 1 /\ u[n + 1] = x /\ AgreeTo(t, u, n)
  BY <1>1, <1>2 DEF AgreeTo
<1>4. PICK g : SumTo(t, n, g) /\ Bytes(t) = g[n]
  BY <1>1, BytesSum
<1>5. n + 1 \in Nat /\ n <= n + 1
  OBVIOUS
<1>6. PICK h : SumTo(u, n + 1, h) /\ Bytes(u) = h[n + 1]
  BY <1>3, <1>5, BytesSum, Zenon
<1>7. g[n] = h[n]
  BY <1>3, <1>4, <1>5, <1>6, SumAgrees
<1>8. h[n + 1] = h[n] + x
  BY <1>3, <1>6 DEF SumTo
<1> QED
  BY <1>2, <1>4, <1>6, <1>7, <1>8

(* The bytes of a prefix one rune longer.                                  *)
LEMMA BytesPrefix ==
    ASSUME NEW t \in Seq(Nat), NEW k \in Nat, k < Len(t)
    PROVE  /\ Bytes(SubSeq(t, 1, k + 1)) = Bytes(SubSeq(t, 1, k)) + t[k + 1]
           /\ Bytes(SubSeq(t, 1, k)) \in Nat /\ Bytes(SubSeq(t, 1, k + 1)) \in Nat
<1>1. SubSeq(t, 1, k) \in Seq(Nat) /\ SubSeq(t, 1, k + 1) \in Seq(Nat) /\ t[k + 1] \in Nat
  OBVIOUS
<1>2. SubSeq(t, 1, k + 1) = Append(SubSeq(t, 1, k), t[k + 1])
  OBVIOUS
<1> QED
  BY <1>1, <1>2, BytesAppend, BytesNat

(* The way back from a byte to the start of a rune.                        *)
WayBack(S, n, g) ==
    g = [m \in 0..n |-> IF m = 0 \/ m \in S THEN m ELSE g[m - 1]]

LEMMA WayBackExists == ASSUME NEW S, NEW n \in Nat PROVE \E g : WayBack(S, n, g)
<1> DEFINE T == { m \in Nat : \E g : WayBack(S, m, g) }
<1>1. 0 \in T
  <2> DEFINE g == [k \in 0 .. 0 |-> 0]
  <2>1. WayBack(S, 0, g)
    BY DEF WayBack
  <2> QED
    BY <2>1
<1>2. ASSUME NEW m \in Nat, m \in T PROVE m + 1 \in T
  <2>1. PICK g : WayBack(S, m, g)
    BY <1>2
  <2> DEFINE h == [k \in 0 .. m + 1 |->
                     IF k = m + 1 THEN IF m + 1 \in S THEN m + 1 ELSE g[m] ELSE g[k]]
  <2>2. WayBack(S, m + 1, h)
    BY <2>1 DEF WayBack
  <2> HIDE DEF h
  <2> QED
    BY <2>2
<1> HIDE DEF T
<1>3. Nat \subseteq T
  BY <1>1, <1>2, Induct
<1> QED
  BY <1>3 DEF T

(* It ends at the last start that is not behind the byte.                  *)
LEMMA WayBackEnds ==
    ASSUME NEW S, S \subseteq Nat, 0 \in S, NEW n \in Nat, NEW g, WayBack(S, n, g)
    PROVE  g[n] \in S /\ g[n] <= n /\ \A s \in S : s <= n => s <= g[n]
<1> DEFINE ends(m) == g[m] \in S /\ g[m] <= m /\ \A s \in S : s <= m => s <= g[m]
           T == { m \in Nat : m <= n => ends(m) }
<1>1. 0 \in T
  BY DEF WayBack
<1>2. ASSUME NEW m \in Nat, m \in T PROVE m + 1 \in T
  <2> SUFFICES ASSUME m + 1 <= n PROVE ends(m + 1)
    OBVIOUS
  <2>1. g[m + 1] = IF m + 1 \in S THEN m + 1 ELSE g[m]
    BY DEF WayBack
  <2>2. ends(m)
    BY <1>2
  <2>3. g[m] \in Nat /\ \A s \in S : s \in Nat /\ (s <= m + 1 => s = m + 1 \/ s <= m)
    <3>1. \A s \in Nat : s <= m + 1 => s = m + 1 \/ s <= m
      OBVIOUS
    <3>2. \A s \in S : s \in Nat
      OBVIOUS
    <3>3. g[m] \in S
      BY <2>2
    <3> HIDE DEF ends
    <3> QED
      BY <3>1, <3>2, <3>3
  <2>4. CASE m + 1 \in S
    BY <2>1, <2>3, <2>4
  <2>5. CASE m + 1 \notin S
    <3>1. \A s \in S : s <= m + 1 => s <= m
      BY <2>3, <2>5
    <3> QED
      BY <2>1, <2>2, <2>3, <2>5, <3>1
  <2> QED
    BY <2>4, <2>5
<1> HIDE DEF T
<1>3. Nat \subseteq T
  BY <1>1, <1>2, Induct
<1> QED
  BY <1>3 DEF T

(* r is as many whole runes of t as fit into n bytes.                      *)
WholeRunes(t, n, r) ==
    \E k \in 0 .. Len(t) :
        /\ r = SubSeq(t, 1, k) /\ Bytes(r) <= n
        /\ k < Len(t) => Bytes(SubSeq(t, 1, k + 1)) > n

(* truncateUTF8 neither cuts a rune nor leaves one out that would fit.     *)
LEMMA TruncateIsWhole ==
    ASSUME NEW t \in Seq(1..4), NEW n \in Nat
    PROVE  WholeRunes(t, n, TruncateUTF8(t, n))
<1> DEFINE pre == [k \in 0 .. Len(t) |-> Bytes(SubSeq(t, 1, k))]
           starts == {Bytes(SubSeq(t, 1, k)) : k \in 0..Len(t)}
           back[m \in 0..n] == IF m = 0 \/ m \in starts THEN m ELSE back[m - 1]
           cut == CHOOSE k \in 0..Len(t) : Bytes(SubSeq(t, 1, k)) = back[n]
<1>1. t \in Seq(Nat) /\ Len(t) \in Nat
  OBVIOUS
<1>2. SubSeq(t, 1, 0) = <<>> /\ SubSeq(t, 1, Len(t)) = t
  BY <1>1
<1>3. CASE Bytes(t) <= n
  <2>1. TruncateUTF8(t, n) = SubSeq(t, 1, Len(t))
    BY <1>2, <1>3 DEF TruncateUTF8
  <2>2. Len(t) \in 0 .. Len(t) /\ ~(Len(t) < Len(t))
    BY <1>1
  <2>3. TruncateUTF8(t, n) = t
    BY <1>2, <2>1
  <2> QED
    BY <1>2, <1>3, <2>2, <2>3 DEF WholeRunes
<1>4. CASE ~(Bytes(t) <= n)
  <2>1. TruncateUTF8(t, n) = SubSeq(t, 1, cut)
    BY <1>4 DEF TruncateUTF8
  <2>2. \A k \in 0 .. Len(t) : pre[k] \in Nat /\ pre[k] = Bytes(SubSeq(t, 1, k))
    <3> TAKE k \in 0 .. Len(t)
    <3>1. SubSeq(t, 1, k) \in Seq(Nat)
      BY <1>1
    <3> QED
      BY <3>1, BytesNat
  <2>3. pre[0] = 0
    <3>1. 0 \in 0 .. Len(t)
      BY <1>1
    <3> QED
      BY <1>2, <3>1, BytesEmpty
  <2>4. \A k \in Nat : k < Len(t) => pre[k] < pre[k + 1]
    <3> SUFFICES ASSUME NEW k \in Nat, k < Len(t) PROVE pre[k] < pre[k + 1]
      OBVIOUS
    <3>1. t[k + 1] \in 1..4
      OBVIOUS
    <3> QED
      BY <1>1, <3>1, BytesPrefix
  <2>5. back = CHOOSE g : WayBack(starts, n, g)
    BY DEF WayBack
  <2>6. starts = {pre[k] : k \in 0 .. Len(t)}
    OBVIOUS
  <2>7. cut = CHOOSE k \in 0 .. Len(t) : pre[k] = back[n]
    OBVIOUS
  <2> HIDE DEF pre, starts, back, cut
  <2>8. WayBack(starts, n, back)
    BY <2>5, WayBackExists
  <2>9. starts \subseteq Nat /\ 0 \in starts
    BY <1>1, <2>2, <2>3, <2>6
  <2>10. back[n] \in starts /\ back[n] <= n /\ \A s \in starts : s <= n => s <= back[n]
    BY <2>8, <2>9, WayBackEnds
  <2>11. cut \in 0 .. Len(t) /\ pre[cut] = back[n]
    BY <2>6, <2>7, <2>10
  <2>12. cut < Len(t) => pre[cut + 1] > n
    <3> SUFFICES ASSUME cut < Len(t), ~(pre[cut + 1] > n) PROVE FALSE
      OBVIOUS
    <3>1. cut + 1 \in 0 .. Len(t) /\ cut \in Nat
      BY <1>1, <2>11
    <3>2. pre[cut + 1] \in starts /\ pre[cut + 1] <= n
      BY <2>2, <2>6, <3>1
    <3> QED
      BY <2>2, <2>4, <2>10, <2>11, <3>1, <3>2
  <2>13. cut < Len(t) => cut + 1 \in 0 .. Len(t)
    BY <1>1, <2>11
  <2> QED
    BY <2>1, <2>2, <2>10, <2>11, <2>12, <2>13 DEF WholeRunes
<1> QED
  BY <1>3, <1>4

------------------------------------------------------------------------------
(* The order of the table.                                                 *)

Stamped == created \in [Posts -> Nat]

(* Newer is a strict total order on the posts.                             *)
LEMMA NewerOrder ==
    ASSUME Stamped
    PROVE  /\ \A p \in Posts : ~Newer(p, p)
           /\ \A p, q \in Posts : p # q => Newer(p, q) \/ Newer(q, p)
           /\ \A p, q \in Posts : ~(Newer(p, q) /\ Newer(q, p))
           /\ \A p, q, r \in Posts : Newer(p, q) /\ Newer(q, r) => Newer(p, r)
<1>1. \A p \in Posts : p \in Nat /\ created[p] \in Nat
  BY PostsAssumption DEF Stamped
<1> QED
  BY <1>1 DEF Newer

(* How many posts of S are newer than p.                                   *)
Rank(S, p) == Cardinality({q \in S : Newer(q, p)})

LEMMA FinitePosts ==
    ASSUME NEW S \in SUBSET Posts
    PROVE  /\ IsFiniteSet(S) /\ Cardinality(S) \in Nat
           /\ \A p : IsFiniteSet({q \in S : Newer(q, p)}) /\ Rank(S, p) \in Nat
<1>1. IsFiniteSet(S)
  BY PostsAssumption, FS_Subset
<1>2. ASSUME NEW p PROVE {q \in S : Newer(q, p)} \in SUBSET S
  OBVIOUS
<1> QED
  BY <1>1, <1>2, FS_Subset, FS_CardinalityType DEF Rank

(* A strict subset of a finite set has fewer members.                      *)
LEMMA FewerMembers ==
    ASSUME NEW S, IsFiniteSet(S), NEW T \in SUBSET S, NEW x \in S, x \notin T
    PROVE  Cardinality(T) < Cardinality(S)
<1>1. Cardinality(T) <= Cardinality(S) /\ Cardinality(T) # Cardinality(S)
  BY FS_Subset
<1>2. Cardinality(T) \in Nat /\ Cardinality(S) \in Nat
  BY FS_Subset, FS_CardinalityType
<1> QED
  BY <1>1, <1>2

(* A newer post has a smaller rank.                                        *)
LEMMA RankOrder ==
    ASSUME Stamped, NEW S \in SUBSET Posts, NEW p \in S, NEW q \in S, Newer(p, q)
    PROVE  Rank(S, p) < Rank(S, q)
<1> DEFINE A == {r \in S : Newer(r, p)}
           B == {r \in S : Newer(r, q)}
<1>1. A \in SUBSET B /\ p \in B /\ p \notin A
  BY NewerOrder
<1>2. IsFiniteSet(B)
  BY FinitePosts
<1> HIDE DEF A, B
<1>3. Cardinality(A) < Cardinality(B)
  BY <1>1, <1>2, FewerMembers
<1> QED
  BY <1>3 DEF Rank, A, B

LEMMA RankRange ==
    ASSUME Stamped, NEW S \in SUBSET Posts, NEW p \in S
    PROVE  Rank(S, p) \in 0 .. Cardinality(S) - 1
<1> DEFINE A == {r \in S : Newer(r, p)}
<1>1. A \in SUBSET S /\ p \notin A
  BY NewerOrder
<1> HIDE DEF A
<1>2. Cardinality(A) < Cardinality(S)
  BY <1>1, FinitePosts, FewerMembers
<1> QED
  BY <1>2, FinitePosts DEF Rank, A

(* Each rank below the number of the posts is the rank of one post.        *)
LEMMA RankOnto ==
    ASSUME Stamped, NEW S \in SUBSET Posts, NEW k \in 0 .. Cardinality(S) - 1
    PROVE  \E p \in S : Rank(S, p) = k
<1> DEFINE N == 0 .. Cardinality(S) - 1
           f == [p \in S |-> Rank(S, p)]
<1>1. f \in [S -> N]
  BY RankRange
<1>2. ASSUME NEW p \in S, NEW q \in S, p # q PROVE f[p] # f[q]
  <2>1. Rank(S, p) \in Nat /\ Rank(S, q) \in Nat
    BY FinitePosts
  <2>2. Newer(p, q) \/ Newer(q, p)
    BY <1>2, NewerOrder
  <2>3. Rank(S, p) < Rank(S, q) \/ Rank(S, q) < Rank(S, p)
    BY <2>2, RankOrder
  <2> QED
    BY <2>1, <2>3
<1>3. f \in Injection(S, N)
  <2>1. \A p, q \in S : f[p] = f[q] => p = q
    BY <1>2
  <2> HIDE DEF f, N
  <2> QED
    BY <1>1, <2>1 DEF Injection, IsInjective
<1>4. IsFiniteSet(S) /\ Cardinality(S) \in Nat
  BY FinitePosts
<1>5. IsFiniteSet(N) /\ Cardinality(N) = Cardinality(S)
  <2>1. 0 \in Int /\ Cardinality(S) - 1 \in Int
    BY <1>4
  <2> QED
    BY <1>4, <2>1, FS_Interval
<1>6. f \in Surjection(S, N)
  <2> HIDE DEF f, N
  <2> QED
    BY <1>3, <1>5, FS_Injection
<1> QED
  BY <1>6 DEF Surjection

(* NewestFirst gives every post of S once, newest first.                   *)
LEMMA NewestFirstPlace ==
    ASSUME Stamped, NEW S \in SUBSET Posts, NEW k \in 1 .. Cardinality(S)
    PROVE  NewestFirst(S)[k] \in S /\ Rank(S, NewestFirst(S)[k]) = k - 1
<1>1. k - 1 \in 0 .. Cardinality(S) - 1
  BY FinitePosts
<1>2. \E p \in S : Rank(S, p) = k - 1
  BY <1>1, RankOnto
<1>3. NewestFirst(S)[k] = CHOOSE p \in S : Rank(S, p) = k - 1
  BY DEF NewestFirst, Rank
<1> QED
  BY <1>2, <1>3

LEMMA NewestFirstSeq ==
    ASSUME NEW S \in SUBSET Posts, Stamped
    PROVE  NewestFirst(S) \in Seq(S) /\ Len(NewestFirst(S)) = Cardinality(S)
<1> DEFINE at(k) == CHOOSE p \in S : Cardinality({q \in S : Newer(q, p)}) = k - 1
<1>1. NewestFirst(S) = [k \in 1 .. Cardinality(S) |-> at(k)]
  BY DEF NewestFirst
<1>2. ASSUME NEW k \in 1 .. Cardinality(S) PROVE at(k) \in S
  BY <1>1, NewestFirstPlace
<1> HIDE DEF at
<1>3. Cardinality(S) \in Nat
  BY FinitePosts
<1> QED
  BY <1>1, <1>2, <1>3

LEMMA NewestFirstSorted ==
    ASSUME Stamped, NEW S \in SUBSET Posts,
           NEW j \in 1 .. Cardinality(S), NEW k \in 1 .. Cardinality(S), j < k
    PROVE  Newer(NewestFirst(S)[j], NewestFirst(S)[k])
<1> DEFINE p == NewestFirst(S)[j]
           q == NewestFirst(S)[k]
<1>1. p \in S /\ q \in S /\ Rank(S, p) = j - 1 /\ Rank(S, q) = k - 1
  BY NewestFirstPlace
<1> HIDE DEF p, q
<1>2. Cardinality(S) \in Nat
  BY FinitePosts
<1>3. p # q /\ ~(Rank(S, q) < Rank(S, p))
  BY <1>1, <1>2
<1>4. ~Newer(q, p)
  BY <1>1, <1>3, RankOrder
<1>5. Newer(p, q)
  BY <1>1, <1>3, <1>4, NewerOrder
<1> QED
  BY <1>5 DEF p, q

LEMMA NewestFirstOnto ==
    ASSUME Stamped, NEW S \in SUBSET Posts, NEW p \in S
    PROVE  /\ Rank(S, p) + 1 \in 1 .. Cardinality(S)
           /\ NewestFirst(S)[Rank(S, p) + 1] = p
<1> DEFINE k == Rank(S, p) + 1
           q == NewestFirst(S)[k]
<1>1. Rank(S, p) \in 0 .. Cardinality(S) - 1 /\ Cardinality(S) \in Nat
  BY RankRange, FinitePosts
<1>2. k \in 1 .. Cardinality(S)
  BY <1>1
<1>3. q \in S /\ Rank(S, q) = Rank(S, p)
  BY <1>1, <1>2, NewestFirstPlace
<1> HIDE DEF q, k
<1>4. q = p
  <2> SUFFICES ASSUME q # p PROVE FALSE
    OBVIOUS
  <2>1. Newer(q, p) \/ Newer(p, q)
    BY <1>3, NewerOrder
  <2>2. Rank(S, q) < Rank(S, p) \/ Rank(S, p) < Rank(S, q)
    BY <1>3, <2>1, RankOrder
  <2> QED
    BY <1>1, <1>3, <2>2
<1> QED
  BY <1>2, <1>4 DEF q, k

------------------------------------------------------------------------------
(* The window: what holds in every reachable state.                        *)

Parts == [id : Posts, text : Seq(1..4), whole : BOOLEAN]

WindowTypes ==
    /\ created \in [Posts -> Nat] /\ text \in [Posts -> Seq(1..4)]
    /\ rows \in SUBSET Posts /\ stable \in SUBSET rows
    /\ limit \in Nat /\ cursor \in Posts \cup {0}
    /\ parts \in Seq(Parts) /\ reading \in BOOLEAN
    /\ edits \in Nat /\ edits <= MaxEdits

(* The posts of the parts are of the window and in its order.              *)
PartsSorted ==
    /\ \A k \in DOMAIN parts : From <= created[parts[k].id] /\ created[parts[k].id] < To
    /\ \A j, k \in DOMAIN parts : j < k => Newer(parts[j].id, parts[k].id)

(* While it is read, nothing is cut and the cursor is the last post.       *)
CursorIsLast ==
    reading =>
        /\ \A k \in DOMAIN parts : parts[k].whole
        /\ cursor = IF parts = <<>> THEN 0 ELSE parts[Len(parts)].id

(* An unchanged post up to the last one is among the parts.                *)
StableIsTaken ==
    \A p \in Window(stable), k \in DOMAIN parts :
        ~Newer(parts[k].id, p) => \E j \in DOMAIN parts : parts[j].id = p

(* Without a change the parts are the first posts of the window.           *)
QuietPrefix ==
    edits = MaxEdits =>
        /\ stable = rows
        /\ Len(parts) <= Cardinality(Window(rows))
        /\ \A k \in DOMAIN parts : parts[k].id = NewestFirst(Window(rows))[k]

(* Why the reading ended.                                                  *)
QuietEnd ==
    (/\ ~reading /\ edits = MaxEdits /\ Len(parts) < Cardinality(Window(rows))
     /\ \A k \in DOMAIN parts : parts[k].whole) =>
        Total(parts) + Bytes(text[NewestFirst(Window(rows))[Len(parts) + 1]]) + Separator > limit

WindowInv ==
    /\ WindowTypes /\ InputFits /\ PartsSorted /\ CursorIsLast
    /\ StableIsTaken /\ QuietPrefix /\ QuietEnd /\ OnlyNewestIsCut

------------------------------------------------------------------------------
(* Gather.                                                                 *)

LEMMA PartBytesNat == ASSUME NEW x \in Parts PROVE PartBytes(x) \in Nat
<1>1. x.text \in Seq(Nat)
  BY DEF Parts
<1> QED
  BY <1>1, BytesNat DEF PartBytes, Separator

LEMMA TotalNat == ASSUME NEW s \in Seq(Parts) PROVE Total(s) \in Nat
<1> DEFINE b == [k \in DOMAIN s |-> PartBytes(s[k])]
<1>1. \A k \in DOMAIN s : PartBytes(s[k]) \in Nat
  BY PartBytesNat
<1>2. b \in Seq(Nat)
  BY <1>1
<1> HIDE DEF b
<1> QED
  BY <1>2, BytesNat DEF Total, b

LEMMA TotalEmpty == Total(<<>>) = 0
<1>1. [k \in DOMAIN <<>> |-> PartBytes(<<>>[k])] = <<>>
  OBVIOUS
<1> QED
  BY <1>1, BytesEmpty DEF Total

LEMMA TotalAppend ==
    ASSUME NEW s \in Seq(Parts), NEW x \in Parts
    PROVE  Total(Append(s, x)) = Total(s) + PartBytes(x)
<1> DEFINE b == [k \in DOMAIN s |-> PartBytes(s[k])]
           u == Append(s, x)
           c == [k \in DOMAIN u |-> PartBytes(u[k])]
<1>1. \A k \in DOMAIN s : PartBytes(s[k]) \in Nat
  BY PartBytesNat
<1>2. b \in Seq(Nat) /\ Len(b) = Len(s)
  BY <1>1
<1>3. PartBytes(x) \in Nat
  BY PartBytesNat
<1>4. c = Append(b, PartBytes(x))
  <2>1. DOMAIN u = 1 .. Len(s) + 1 /\ DOMAIN s = 1 .. Len(s) /\ Len(s) \in Nat
    OBVIOUS
  <2>2. \A k \in 1 .. Len(s) + 1 : u[k] = IF k \in 1 .. Len(s) THEN s[k] ELSE x
    OBVIOUS
  <2> DEFINE v == Append(b, PartBytes(x))
  <2>3. v \in Seq(Nat) /\ Len(v) = Len(s) + 1
    BY <1>2, <1>3
  <2>4. \A k \in 1 .. Len(s) + 1 : v[k] = IF k \in 1 .. Len(s) THEN b[k] ELSE PartBytes(x)
    BY <1>2, <1>3
  <2>5. \A k \in 1 .. Len(s) + 1 : c[k] = v[k]
    <3> HIDE DEF u, v
    <3> QED
      BY <2>1, <2>2, <2>4
  <2>6. v = [k \in 1 .. Len(s) + 1 |-> v[k]]
    BY <2>3
  <2>7. c = [k \in 1 .. Len(s) + 1 |-> c[k]]
    BY <2>1
  <2> HIDE DEF c, v
  <2>8. c = v
    BY <2>5, <2>6, <2>7
  <2> QED
    BY <2>8 DEF v
<1>5. Total(s) = Bytes(b) /\ Total(u) = Bytes(c)
  BY DEF Total
<1> HIDE DEF b, c, u
<1>6. Total(u) = Total(s) + PartBytes(x)
  BY <1>2, <1>3, <1>4, <1>5, BytesAppend
<1> QED
  BY <1>6 DEF u

(* A whole post as a part, and the parts when c posts of a page are taken. *)
Piece(p) == [id |-> p, text |-> text[p], whole |-> TRUE]
Taken(page, c) == parts \o [i \in 1 .. c |-> Piece(page[i])]

LEMMA TakenType ==
    ASSUME WindowTypes, NEW page \in Seq(Posts), NEW c \in 0 .. Len(page)
    PROVE  /\ Taken(page, c) \in Seq(Parts) /\ Len(Taken(page, c)) = Len(parts) + c
           /\ \A k \in 1 .. Len(parts) : Taken(page, c)[k] = parts[k]
           /\ \A i \in 1 .. c : Taken(page, c)[Len(parts) + i] = Piece(page[i])
<1> DEFINE more == [i \in 1 .. c |-> Piece(page[i])]
<1>1. parts \in Seq(Parts) /\ c \in Nat
  BY DEF WindowTypes
<1>2. \A i \in 1 .. c : Piece(page[i]) \in Parts
  BY DEF Piece, Parts, WindowTypes
<1>3. more \in Seq(Parts) /\ Len(more) = c /\ \A i \in 1 .. c : more[i] = Piece(page[i])
  BY <1>1, <1>2
<1> HIDE DEF more
<1> QED
  BY <1>1, <1>3 DEF Taken, more

LEMMA TakenNone ==
    ASSUME WindowTypes, NEW page PROVE Taken(page, 0) = parts
<1>1. parts \in Seq(Parts)
  BY DEF WindowTypes
<1>2. [i \in 1 .. 0 |-> Piece(page[i])] = <<>>
  OBVIOUS
<1> QED
  BY <1>1, <1>2 DEF Taken

LEMMA TakenNext ==
    ASSUME WindowTypes, NEW page \in Seq(Posts), NEW c \in Nat, c < Len(page)
    PROVE  Taken(page, c + 1) = Append(Taken(page, c), Piece(page[c + 1]))
<1> DEFINE s == Taken(page, c)
           u == Taken(page, c + 1)
           v == Append(s, Piece(page[c + 1]))
<1>1. c \in 0 .. Len(page) /\ c + 1 \in 0 .. Len(page)
  OBVIOUS
<1>2. Piece(page[c + 1]) \in Parts
  BY DEF Piece, Parts, WindowTypes
<1>3. /\ s \in Seq(Parts) /\ Len(s) = Len(parts) + c /\ Len(parts) \in Nat
      /\ \A k \in 1 .. Len(parts) : s[k] = parts[k]
      /\ \A i \in 1 .. c : s[Len(parts) + i] = Piece(page[i])
  BY <1>1, TakenType DEF WindowTypes
<1>4. /\ u \in Seq(Parts) /\ Len(u) = Len(parts) + c + 1
      /\ \A k \in 1 .. Len(parts) : u[k] = parts[k]
      /\ \A i \in 1 .. c + 1 : u[Len(parts) + i] = Piece(page[i])
  BY <1>1, <1>3, TakenType
<1> HIDE DEF s, u
<1>5. /\ v \in Seq(Parts) /\ Len(v) = Len(parts) + c + 1
      /\ \A k \in 1 .. Len(s) : v[k] = s[k]
      /\ v[Len(s) + 1] = Piece(page[c + 1])
  BY <1>2, <1>3
<1> HIDE DEF v
<1>6. ASSUME NEW k \in 1 .. Len(parts) + c + 1 PROVE u[k] = v[k]
  <2>1. CASE k \in 1 .. Len(parts)
    BY <1>3, <1>4, <1>5, <2>1
  <2>2. CASE k > Len(parts)
    <3>1. PICK i \in 1 .. c + 1 : k = Len(parts) + i
      <4>1. k - Len(parts) \in 1 .. c + 1 /\ k = Len(parts) + (k - Len(parts))
        BY <1>3, <2>2
      <4> QED
        BY <4>1
    <3>2. CASE i = c + 1
      BY <1>3, <1>4, <1>5, <3>1, <3>2
    <3>3. CASE i \in 1 .. c
      <4>1. k \in 1 .. Len(s)
        BY <1>3, <3>1, <3>3
      <4>2. v[k] = Piece(page[i])
        BY <1>3, <1>5, <3>1, <3>3, <4>1
      <4> QED
        BY <1>4, <3>1, <4>2
    <3> QED
      BY <3>1, <3>2, <3>3
  <2> QED
    BY <1>3, <2>1, <2>2
<1>7. u = v
  BY <1>3, <1>4, <1>5, <1>6
<1> QED
  BY <1>7 DEF s, u, v

(* One post of a page, as the loop of Gather sees it.                      *)
Visit(got, p) ==
    IF got.stop THEN got
    ELSE IF Fits(got.parts, Piece(p))
    THEN [got EXCEPT !.parts = Append(@, Piece(p))]
    ELSE [stop |-> TRUE, parts |-> Overflow(got.parts, p)]

Unvisited == [parts |-> parts, stop |-> FALSE]

(* What is there after k posts of the page.                                *)
Visits(page, n, g) ==
    g = [k \in 0 .. n |-> IF k = 0 THEN Unvisited ELSE Visit(g[k - 1], page[k])]

LEMMA VisitsExist == ASSUME NEW page, NEW n \in Nat PROVE \E g : Visits(page, n, g)
<1> DEFINE T == { m \in Nat : \E g : Visits(page, m, g) }
<1>1. 0 \in T
  <2> DEFINE g == [k \in 0 .. 0 |-> Unvisited]
  <2>1. Visits(page, 0, g)
    BY DEF Visits
  <2> QED
    BY <2>1
<1>2. ASSUME NEW m \in Nat, m \in T PROVE m + 1 \in T
  <2>1. PICK g : Visits(page, m, g)
    BY <1>2
  <2> DEFINE h == [k \in 0 .. m + 1 |->
                     IF k = m + 1 THEN Visit(g[m], page[m + 1]) ELSE g[k]]
  <2>2. Visits(page, m + 1, h)
    BY <2>1 DEF Visits
  <2> HIDE DEF h
  <2> QED
    BY <2>2
<1> HIDE DEF T
<1>3. Nat \subseteq T
  BY <1>1, <1>2, Induct
<1> QED
  BY <1>3 DEF T

(* After k posts the first c of them are taken: all k, or those before the *)
(* first that does not fit.                                                *)
Gathered(page, k, got) ==
    \E c \in 0 .. k :
        /\ Total(Taken(page, c)) <= limit
        /\ \/ ~got.stop /\ c = k /\ got.parts = Taken(page, c)
           \/ /\ got.stop /\ c < k
              /\ ~Fits(Taken(page, c), Piece(page[c + 1]))
              /\ got.parts = Overflow(Taken(page, c), page[c + 1])

LEMMA VisitsGather ==
    ASSUME WindowTypes, InputFits, NEW page \in Seq(Posts), NEW g, Visits(page, Len(page), g)
    PROVE  \A k \in 0 .. Len(page) : Gathered(page, k, g[k])
<1> DEFINE T == { k \in Nat : k <= Len(page) => Gathered(page, k, g[k]) }
<1>1. 0 \in T
  <2>1. g[0] = [parts |-> parts, stop |-> FALSE]
    BY DEF Visits, Unvisited
  <2> QED
    BY <2>1, TakenNone DEF Gathered, InputFits
<1>2. ASSUME NEW k \in Nat, k \in T PROVE k + 1 \in T
  <2> SUFFICES ASSUME k + 1 <= Len(page) PROVE Gathered(page, k + 1, g[k + 1])
    OBVIOUS
  <2>1. g[k + 1] = Visit(g[k], page[k + 1])
    BY DEF Visits
  <2>2. Gathered(page, k, g[k])
    BY <1>2
  <2>3. PICK c \in 0 .. k :
          /\ Total(Taken(page, c)) <= limit
          /\ \/ ~g[k].stop /\ c = k /\ g[k].parts = Taken(page, c)
             \/ /\ g[k].stop /\ c < k
                /\ ~Fits(Taken(page, c), Piece(page[c + 1]))
                /\ g[k].parts = Overflow(Taken(page, c), page[c + 1])
    BY <2>2 DEF Gathered
  <2>4. c \in 0 .. k + 1 /\ k + 1 \in 0 .. k + 1 /\ c < k + 1
    OBVIOUS
  <2>5. CASE g[k].stop
    <3>1. g[k + 1] = g[k]
      BY <2>1, <2>5 DEF Visit
    <3> QED
      BY <2>3, <2>4, <2>5, <3>1 DEF Gathered
  <2>6. CASE ~g[k].stop /\ Fits(g[k].parts, Piece(page[k + 1]))
    <3>1. c = k /\ g[k].parts = Taken(page, k)
      BY <2>3, <2>6
    <3>2. Taken(page, k + 1) = Append(Taken(page, k), Piece(page[k + 1]))
      BY TakenNext
    <3>3. Taken(page, k) \in Seq(Parts) /\ Piece(page[k + 1]) \in Parts
      <4>1. k \in 0 .. Len(page) /\ page[k + 1] \in Posts
        OBVIOUS
      <4> QED
        BY <4>1, TakenType DEF Piece, Parts, WindowTypes
    <3>4. Total(Taken(page, k + 1)) <= limit
      BY <2>6, <3>1, <3>2, <3>3, TotalAppend DEF Fits
    <3>5. g[k + 1].parts = Taken(page, k + 1) /\ ~g[k + 1].stop
      <4>1. g[k + 1] = [g[k] EXCEPT !.parts = Append(@, Piece(page[k + 1]))]
        BY <2>1, <2>6 DEF Visit
      <4> QED
        BY <2>6, <3>1, <3>2, <4>1
    <3> QED
      BY <2>4, <3>4, <3>5 DEF Gathered
  <2>7. CASE ~g[k].stop /\ ~Fits(g[k].parts, Piece(page[k + 1]))
    <3>1. c = k /\ g[k].parts = Taken(page, k)
      BY <2>3, <2>7
    <3>2. g[k + 1] = [stop |-> TRUE, parts |-> Overflow(Taken(page, k), page[k + 1])]
      BY <2>1, <2>7, <3>1 DEF Visit
    <3> QED
      BY <2>3, <2>4, <2>7, <3>1, <3>2 DEF Gathered
  <2> QED
    BY <2>5, <2>6, <2>7
<1> HIDE DEF T
<1>3. Nat \subseteq T
  BY <1>1, <1>2, Induct
<1> QED
  BY <1>3 DEF T

(* Gather takes posts of the page as long as they fit.                     *)
LEMMA GatherEnds ==
    ASSUME WindowTypes, InputFits, NEW page \in Seq(Posts)
    PROVE  Gathered(page, Len(page), Gather(page))
<1> DEFINE after[k \in 0..Len(page)] ==
             IF k = 0 THEN [parts |-> parts, stop |-> FALSE]
             ELSE LET got == after[k - 1]
                      p == page[k]
                      piece == [id |-> p, text |-> text[p], whole |-> TRUE]
                  IN IF got.stop THEN got
                     ELSE IF Fits(got.parts, piece)
                     THEN [got EXCEPT !.parts = Append(@, piece)]
                     ELSE [stop |-> TRUE, parts |-> Overflow(got.parts, p)]
<1>1. Gather(page) = after[Len(page)]
  BY DEF Gather
<1>2. after = CHOOSE g : Visits(page, Len(page), g)
  BY DEF Visits, Visit, Piece, Unvisited
<1> HIDE DEF after
<1>3. Visits(page, Len(page), after)
  BY <1>2, VisitsExist
<1> QED
  BY <1>1, <1>3, VisitsGather

------------------------------------------------------------------------------
(* The page behind the cursor.                                             *)

LEMMA WindowSets ==
    ASSUME WindowTypes
    PROVE  /\ Stamped /\ Behind \in SUBSET Window(rows) /\ Behind \in SUBSET Posts
           /\ Window(rows) \in SUBSET Posts /\ Window(stable) \in SUBSET Window(rows)
           /\ \A p \in Window(rows) : p \in Behind <=> (cursor # 0 => Newer(cursor, p))
BY DEF WindowTypes, Behind, Window, Stamped

(* When the cursor is the n-th post of the window, the rows behind it are  *)
(* the other posts of the window, in the same order.                       *)
LEMMA BehindIsRest ==
    ASSUME WindowTypes, NEW n \in 0 .. Cardinality(Window(rows)),
           cursor = IF n = 0 THEN 0 ELSE NewestFirst(Window(rows))[n]
    PROVE  /\ Cardinality(Window(rows)) = n + Cardinality(Behind)
           /\ \A i \in 1 .. Cardinality(Behind) :
                NewestFirst(Window(rows))[n + i] = NewestFirst(Behind)[i]
<1> DEFINE W == Window(rows)
           A == W \ Behind
<1>1. /\ Stamped /\ Behind \in SUBSET W /\ Behind \in SUBSET Posts /\ W \in SUBSET Posts
      /\ \A p \in W : p \in Behind <=> (cursor # 0 => Newer(cursor, p))
  BY WindowSets
<1> HIDE DEF W
<1>2. /\ IsFiniteSet(W) /\ Cardinality(W) \in Nat
      /\ IsFiniteSet(Behind) /\ Cardinality(Behind) \in Nat
  BY <1>1, FinitePosts
<1>3. A \in SUBSET W /\ A \in SUBSET Posts /\ IsFiniteSet(A) /\ Cardinality(A) \in Nat
  BY <1>1, FinitePosts
<1>4. Cardinality(A) = n
  <2>1. CASE n = 0
    <3>1. A = {}
      BY <1>1, <2>1
    <3> QED
      BY <2>1, <3>1, FS_EmptySet
  <2>2. CASE n # 0
    <3> DEFINE B == {q \in W : Newer(q, cursor)}
    <3>1. cursor \in W /\ Rank(W, cursor) = n - 1
      <4>1. n \in 1 .. Cardinality(W) /\ cursor = NewestFirst(W)[n]
        BY <2>2 DEF W
      <4> QED
        BY <1>1, <4>1, NewestFirstPlace
    <3>2. cursor # 0
      BY <1>1, <3>1, PostsAssumption
    <3>3. A = B \cup {cursor} /\ cursor \notin B
      BY <1>1, <3>1, <3>2, NewerOrder
    <3>4. IsFiniteSet(B) /\ Cardinality(B) = n - 1
      BY <1>1, <3>1, FinitePosts DEF Rank
    <3> HIDE DEF A, B
    <3>5. Cardinality(A) = Cardinality(B) + 1
      BY <3>3, <3>4, FS_AddElement
    <3> QED
      BY <3>4, <3>5
  <2> QED
    BY <2>1, <2>2
<1>5. Cardinality(W) = n + Cardinality(Behind)
  <2>1. W = A \cup Behind /\ A \cap Behind = {}
    BY <1>1
  <2> HIDE DEF A
  <2>2. Cardinality(W) = Cardinality(A) + Cardinality(Behind) - Cardinality({})
    BY <1>2, <1>3, <2>1, FS_Union
  <2> QED
    BY <1>2, <1>3, <1>4, <2>2, FS_EmptySet
<1>6. ASSUME NEW p \in Behind PROVE Rank(W, p) = n + Rank(Behind, p)
  <2> DEFINE B == {q \in Behind : Newer(q, p)}
             C == {q \in W : Newer(q, p)}
  <2>1. ASSUME NEW q \in A PROVE Newer(q, p)
    <3>1. cursor # 0 /\ ~Newer(cursor, q) /\ q \in Posts /\ p \in Posts
      BY <1>1
    <3>2. cursor \in Posts /\ Newer(cursor, p)
      BY <1>1, <3>1 DEF WindowTypes
    <3>3. q = cursor \/ Newer(q, cursor)
      BY <1>1, <3>1, <3>2, NewerOrder
    <3> QED
      BY <1>1, <3>1, <3>2, <3>3, NewerOrder
  <2>2. C = A \cup B /\ A \cap B = {}
    BY <1>1, <2>1
  <2>3. IsFiniteSet(B) /\ Cardinality(B) \in Nat
    BY <1>1, FinitePosts DEF Rank
  <2>4. Cardinality(C) = Rank(W, p) /\ Cardinality(B) = Rank(Behind, p)
    BY DEF Rank
  <2> HIDE DEF A, B, C
  <2>5. Cardinality(C) = Cardinality(A) + Cardinality(B) - Cardinality({})
    BY <1>3, <2>2, <2>3, FS_Union
  <2> QED
    BY <1>4, <2>3, <2>4, <2>5, FS_EmptySet
<1>7. ASSUME NEW i \in 1 .. Cardinality(Behind)
      PROVE  NewestFirst(W)[n + i] = NewestFirst(Behind)[i]
  <2> DEFINE p == NewestFirst(Behind)[i]
  <2>1. p \in Behind /\ Rank(Behind, p) = i - 1
    BY <1>1, NewestFirstPlace
  <2> HIDE DEF p
  <2>2. Rank(W, p) + 1 = n + i
    BY <1>2, <1>6, <2>1
  <2>3. NewestFirst(W)[Rank(W, p) + 1] = p
    BY <1>1, <2>1, NewestFirstOnto
  <2> QED
    BY <2>2, <2>3 DEF p
<1> QED
  BY <1>5, <1>7 DEF W

(* What a page leaves: with kept the parts and the first c of the rows     *)
(* behind the cursor, the reading goes on behind the last one, or it ends  *)
(* with all of them, or since the next one does not fit; that one is cut   *)
(* when it is the first of all.                                            *)
GoesOn(R, c) ==
    /\ 0 < c /\ c < Len(R) /\ reading' = TRUE
    /\ parts' = Taken(R, c) /\ cursor' = R[c]

EndsWithAll(R, c) == c = Len(R) /\ reading' = FALSE /\ parts' = Taken(R, c)

EndsFull(R, c) ==
    /\ c < Len(R) /\ reading' = FALSE /\ Taken(R, c) # <<>>
    /\ ~Fits(Taken(R, c), Piece(R[c + 1]))
    /\ parts' = Taken(R, c)

EndsCut(R, c) ==
    /\ c = 0 /\ c < Len(R) /\ reading' = FALSE /\ parts = <<>>
    /\ parts' = <<[id |-> R[1], text |-> TruncateUTF8(text[R[1]], limit), whole |-> FALSE]>>

PageLeaves(R) ==
    \E c \in 0 .. Len(R) :
        /\ Total(Taken(R, c)) <= limit
        /\ GoesOn(R, c) \/ EndsWithAll(R, c) \/ EndsFull(R, c) \/ EndsCut(R, c)

LEMMA PageEffect ==
    ASSUME WindowTypes, InputFits, ReadPage
    PROVE  /\ reading /\ UNCHANGED <<created, text, rows, limit, stable, edits>>
           /\ PageLeaves(NewestFirst(Behind))
<1> DEFINE R == NewestFirst(Behind)
           more == Len(R) > PageSize
           page == IF more THEN SubSeq(R, 1, PageSize) ELSE R
           got == Gather(page)
<1>1. /\ reading /\ UNCHANGED <<created, text, rows, limit, stable, edits>>
      /\ parts' = got.parts
      /\ reading' = (more /\ ~got.stop)
      /\ cursor' = IF more THEN page[PageSize] ELSE cursor
  BY DEF ReadPage
<1>2. R \in Seq(Posts) /\ Len(R) \in Nat
  <2>1. R \in Seq(Behind) /\ Behind \in SUBSET Posts
    BY WindowSets, NewestFirstSeq
  <2> HIDE DEF R
  <2> QED
    BY <2>1
<1>3. PageSize \in Nat /\ 0 < PageSize
  BY LimitsAssumption
<1> HIDE DEF R, got
<1>4. /\ page \in Seq(Posts) /\ Len(page) = (IF more THEN PageSize ELSE Len(R))
      /\ Len(page) \in 0 .. Len(R) /\ \A i \in 1 .. Len(page) : page[i] = R[i]
  BY <1>2, <1>3
<1>5. Gathered(page, Len(page), got)
  BY <1>4, GatherEnds DEF got
<1>6. \A c \in 0 .. Len(page) : Taken(page, c) = Taken(R, c)
  <2> TAKE c \in 0 .. Len(page)
  <2>1. \A i \in 1 .. c : page[i] = R[i]
    BY <1>4
  <2>2. [i \in 1 .. c |-> Piece(page[i])] = [i \in 1 .. c |-> Piece(R[i])]
    BY <2>1
  <2> QED
    BY <2>2 DEF Taken
<1>7. PICK c \in 0 .. Len(page) :
        /\ Total(Taken(page, c)) <= limit
        /\ \/ ~got.stop /\ c = Len(page) /\ got.parts = Taken(page, c)
           \/ /\ got.stop /\ c < Len(page)
              /\ ~Fits(Taken(page, c), Piece(page[c + 1]))
              /\ got.parts = Overflow(Taken(page, c), page[c + 1])
  BY <1>5 DEF Gathered
<1>8. c \in 0 .. Len(R) /\ Taken(page, c) = Taken(R, c)
  BY <1>4, <1>6, <1>7
<1>9. CASE ~got.stop /\ more
  <2>1. c = PageSize /\ page[PageSize] = R[c] /\ parts' = Taken(R, c)
    BY <1>1, <1>3, <1>4, <1>7, <1>8, <1>9
  <2>2. GoesOn(R, c)
    BY <1>1, <1>2, <1>3, <1>9, <2>1 DEF GoesOn
  <2> QED
    BY <1>1, <1>7, <1>8, <2>2 DEF PageLeaves, R
<1>10. CASE ~got.stop /\ ~more
  <2>1. EndsWithAll(R, c)
    BY <1>1, <1>4, <1>7, <1>8, <1>10 DEF EndsWithAll
  <2> QED
    BY <1>1, <1>7, <1>8, <2>1 DEF PageLeaves, R
<1>11. CASE got.stop
  <2>1. /\ c < Len(R) /\ page[c + 1] = R[c + 1] /\ reading' = FALSE
        /\ ~Fits(Taken(R, c), Piece(R[c + 1]))
        /\ parts' = Overflow(Taken(R, c), R[c + 1])
    <3>1. c < Len(page) /\ got.parts = Overflow(Taken(page, c), page[c + 1])
          /\ ~Fits(Taken(page, c), Piece(page[c + 1]))
      BY <1>7, <1>11
    <3>2. c + 1 \in 1 .. Len(page) /\ c < Len(R)
      BY <1>2, <1>4, <3>1
    <3>3. page[c + 1] = R[c + 1]
      BY <1>4, <3>2
    <3> HIDE DEF page
    <3> QED
      BY <1>1, <1>8, <1>11, <3>1, <3>2, <3>3
  <2>2. CASE Taken(R, c) # <<>>
    <3>1. EndsFull(R, c)
      BY <2>1, <2>2 DEF EndsFull, Overflow
    <3> QED
      BY <1>1, <1>7, <1>8, <3>1 DEF PageLeaves, R
  <2>3. CASE Taken(R, c) = <<>>
    <3>1. c = 0 /\ parts = <<>>
      <4>1. Len(Taken(R, c)) = Len(parts) + c /\ Len(parts) \in Nat
        BY <1>2, <1>8, TakenType DEF WindowTypes
      <4>2. Len(Taken(R, c)) = 0
        BY <2>3
      <4>3. c \in Nat
        BY <1>2, <1>8
      <4> HIDE DEF page, more
      <4>4. c = 0 /\ Len(parts) = 0
        <5>1. Len(parts) + c = 0 /\ Len(parts) \in Nat
          BY <4>1, <4>2
        <5> QED
          BY <4>3, <5>1
      <4> QED
        BY <4>4 DEF WindowTypes
    <3>2. EndsCut(R, c)
      BY <2>1, <2>3, <3>1 DEF EndsCut, Overflow
    <3> QED
      BY <1>1, <1>7, <1>8, <3>2 DEF PageLeaves, R
  <2> QED
    BY <2>2, <2>3
<1> QED
  BY <1>9, <1>10, <1>11

------------------------------------------------------------------------------
(* The inductive invariant of the window.                                  *)

LEMMA TextsAreTexts == \A t \in Texts : t \in Seq(1..4)
BY PostsAssumption

LEMMA WindowStart == Init => WindowInv
<1> SUFFICES ASSUME Init PROVE WindowInv
  OBVIOUS
<1>1. /\ parts = <<>> /\ cursor = 0 /\ limit \in Nat
      /\ reading \in BOOLEAN /\ edits \in Nat /\ edits <= MaxEdits
      /\ created \in [Posts -> Nat]
  <2>1. reading \in BOOLEAN
    BY DEF Init, WInit
  <2>2. MaxEdits \in Nat /\ Limits \subseteq Nat /\ Times \subseteq Nat
    BY LimitsAssumption, PostsAssumption
  <2>3. CASE WInit
    <3>1. /\ parts = <<>> /\ cursor = 0 /\ limit \in Limits
          /\ edits = MaxEdits /\ created \in [Posts -> Times]
      BY <2>3 DEF WInit
    <3>2. created \in [Posts -> Nat]
      BY <2>2, <3>1
    <3>3. limit \in Nat /\ edits \in Nat /\ edits <= MaxEdits
      BY <2>2, <3>1
    <3> QED
      BY <2>1, <3>1, <3>2, <3>3, Zenon
  <2>4. CASE ~WInit
    <3>1. /\ parts = <<>> /\ cursor = 0 /\ limit = 0
          /\ edits = 0 /\ created = [p \in Posts |-> 0]
      BY <2>4 DEF Init
    <3> QED
      BY <2>1, <2>2, <3>1
  <2> QED
    BY <2>3, <2>4
<1>2. text \in [Posts -> Seq(1..4)]
  <2>1. <<1>> \in Seq(1..4)
    OBVIOUS
  <2> QED
    BY <2>1, PostsAssumption DEF Init, WInit
<1>3. rows \in SUBSET Posts /\ stable = rows /\ (reading \/ rows = {})
  BY DEF Init, WInit
<1>4. WindowTypes
  BY <1>1, <1>2, <1>3 DEF WindowTypes
<1>5. InputFits
  BY <1>1, TotalEmpty DEF InputFits
<1>6. Len(parts) = 0 /\ DOMAIN parts = {}
  BY <1>1
<1>7. PartsSorted /\ CursorIsLast /\ StableIsTaken /\ OnlyNewestIsCut
  BY <1>1, <1>6 DEF PartsSorted, CursorIsLast, StableIsTaken, OnlyNewestIsCut
<1>8. Window(rows) \in SUBSET Posts
  BY <1>3 DEF Window
<1>9. Cardinality(Window(rows)) \in Nat
  BY <1>8, FinitePosts
<1>10. QuietPrefix
  BY <1>3, <1>6, <1>9 DEF QuietPrefix
<1>11. QuietEnd
  <2>1. rows = {} => Cardinality(Window(rows)) = 0
    BY FS_EmptySet DEF Window
  <2> QED
    BY <1>3, <1>6, <1>9, <2>1 DEF QuietEnd
<1> QED
  BY <1>4, <1>5, <1>7, <1>10, <1>11 DEF WindowInv

(* A change between two pages leaves the parts alone.                      *)
LEMMA EditEffect ==
    ASSUME WindowTypes, NEW p \in Posts, Insert(p) \/ Delete(p) \/ \E t \in Texts : Change(p, t)
    PROVE  /\ reading /\ UNCHANGED <<created, limit, cursor, parts, reading>>
           /\ edits' \in Nat /\ edits' < MaxEdits
           /\ rows' \in SUBSET Posts /\ stable' \in SUBSET rows' /\ stable' \in SUBSET stable
           /\ text' \in [Posts -> Seq(1..4)]
<1>1. Edit(p)
  BY DEF Insert, Delete, Change
<1>2. /\ reading /\ UNCHANGED <<created, limit, cursor, parts, reading>>
      /\ edits' = edits - 1 /\ edits > 0 /\ stable' = stable \ {p}
  BY <1>1 DEF Edit
<1>3. edits' \in Nat /\ edits' < MaxEdits
  BY <1>2, LimitsAssumption DEF WindowTypes
<1>4. rows' \in SUBSET Posts /\ stable' \in SUBSET rows'
  BY <1>2 DEF Insert, Delete, Change, WindowTypes
<1>5. text' \in [Posts -> Seq(1..4)]
  BY TextsAreTexts DEF Insert, Delete, Change, WindowTypes
<1> QED
  BY <1>2, <1>3, <1>4, <1>5

LEMMA EditStep ==
    ASSUME WindowInv, NEW p \in Posts, Insert(p) \/ Delete(p) \/ \E t \in Texts : Change(p, t)
    PROVE  WindowInv'
<1>1. WindowTypes
  BY DEF WindowInv
<1>2. /\ reading /\ UNCHANGED <<created, limit, cursor, parts, reading>>
      /\ edits' \in Nat /\ edits' < MaxEdits
      /\ rows' \in SUBSET Posts /\ stable' \in SUBSET rows' /\ stable' \in SUBSET stable
      /\ text' \in [Posts -> Seq(1..4)]
  BY <1>1, EditEffect
<1>3. WindowTypes'
  BY <1>1, <1>2, LimitsAssumption DEF WindowTypes
<1>4. InputFits'
  BY <1>2 DEF WindowInv, InputFits, Total, PartBytes, Bytes
<1>5. PartsSorted' /\ CursorIsLast'
  BY <1>2 DEF WindowInv, PartsSorted, CursorIsLast, Newer
<1>6. StableIsTaken'
  <2>1. Window(stable)' \in SUBSET Window(stable)
    BY <1>2 DEF Window
  <2> QED
    BY <1>2, <2>1 DEF WindowInv, StableIsTaken, Newer
<1>7. QuietPrefix' /\ QuietEnd'
  BY <1>2, LimitsAssumption DEF QuietPrefix, QuietEnd
<1>8. OnlyNewestIsCut'
  BY <1>2 DEF WindowInv, CursorIsLast, OnlyNewestIsCut
<1> QED
  BY <1>3, <1>4, <1>5, <1>6, <1>7, <1>8 DEF WindowInv

LEMMA PartsArePosts ==
    ASSUME WindowTypes
    PROVE  \A k \in 1 .. Len(parts) : parts[k] \in Parts /\ parts[k].id \in Posts
<1>1. \A k \in 1 .. Len(parts) : parts[k] \in Parts
  BY DEF WindowTypes
<1> QED
  BY <1>1 DEF Parts

(* What the rows behind the cursor add to the parts.                       *)
LEMMA RestFacts ==
    ASSUME WindowTypes, NEW R, R = NewestFirst(Behind)
    PROVE  /\ R \in Seq(Posts) /\ Len(R) = Cardinality(Behind) /\ Len(R) \in Nat
           /\ \A i \in 1 .. Len(R) : R[i] \in Behind /\ R[i] \in Posts
           /\ \A i, j \in 1 .. Len(R) : i < j => Newer(R[i], R[j])
           /\ \A p \in Behind : \E i \in 1 .. Len(R) : R[i] = p
<1>1. Stamped /\ Behind \in SUBSET Posts
  BY WindowSets
<1>2. R \in Seq(Behind) /\ Len(R) = Cardinality(Behind)
  BY <1>1, NewestFirstSeq
<1>3. R \in Seq(Posts) /\ Len(R) \in Nat /\ \A i \in 1 .. Len(R) : R[i] \in Behind /\ R[i] \in Posts
  BY <1>1, <1>2
<1>4. \A i, j \in 1 .. Len(R) : i < j => Newer(R[i], R[j])
  BY <1>1, <1>2, NewestFirstSorted
<1>5. \A p \in Behind : \E i \in 1 .. Len(R) : R[i] = p
  BY <1>1, <1>2, NewestFirstOnto
<1> QED
  BY <1>2, <1>3, <1>4, <1>5

(* The post at place k of what is taken: an old part or a row of the page. *)
TakenFrom(R, c, k, x) ==
    \/ k \in 1 .. Len(parts) /\ x = parts[k]
    \/ \E i \in 1 .. c : k = Len(parts) + i /\ x = Piece(R[i])

LEMMA TakenPlaces ==
    ASSUME WindowTypes, NEW R \in Seq(Posts), NEW c \in 0 .. Len(R)
    PROVE  /\ Len(parts) \in Nat /\ Len(Taken(R, c)) = Len(parts) + c
           /\ DOMAIN Taken(R, c) = 1 .. Len(parts) + c
           /\ DOMAIN parts = 1 .. Len(parts)
           /\ \A k \in DOMAIN Taken(R, c) : TakenFrom(R, c, k, Taken(R, c)[k])
<1> DEFINE T == Taken(R, c)
<1>1. /\ T \in Seq(Parts) /\ Len(T) = Len(parts) + c
      /\ \A k \in 1 .. Len(parts) : T[k] = parts[k]
      /\ \A i \in 1 .. c : T[Len(parts) + i] = Piece(R[i])
  BY TakenType
<1>2. parts \in Seq(Parts) /\ Len(parts) \in Nat /\ c \in Nat
  BY DEF WindowTypes
<1> HIDE DEF T
<1>3. DOMAIN T = 1 .. Len(parts) + c
  BY <1>1
<1>4. ASSUME NEW k \in 1 .. Len(parts) + c PROVE TakenFrom(R, c, k, T[k])
  <2>1. CASE k \in 1 .. Len(parts)
    BY <1>1, <2>1 DEF TakenFrom
  <2>2. CASE k \notin 1 .. Len(parts)
    <3>1. k - Len(parts) \in 1 .. c /\ k = Len(parts) + (k - Len(parts))
      BY <1>2, <2>2
    <3> QED
      BY <1>1, <3>1 DEF TakenFrom
  <2> QED
    BY <2>1, <2>2
<1> QED
  BY <1>1, <1>2, <1>3, <1>4 DEF T

LEMMA TakenSorted ==
    ASSUME WindowTypes, PartsSorted, CursorIsLast, reading,
           NEW R, R = NewestFirst(Behind), NEW c \in 0 .. Len(R)
    PROVE  LET T == Taken(R, c) IN
           /\ \A k \in DOMAIN T : From <= created[T[k].id] /\ created[T[k].id] < To
           /\ \A j, k \in DOMAIN T : j < k => Newer(T[j].id, T[k].id)
<1> DEFINE T == Taken(R, c)
           n == Len(parts)
<1>1. /\ R \in Seq(Posts) /\ Len(R) \in Nat
      /\ \A i \in 1 .. Len(R) : R[i] \in Behind /\ R[i] \in Posts
      /\ \A i, j \in 1 .. Len(R) : i < j => Newer(R[i], R[j])
  BY RestFacts
<1>2. /\ n \in Nat /\ DOMAIN T = 1 .. n + c /\ DOMAIN parts = 1 .. n
      /\ \A k \in DOMAIN T : TakenFrom(R, c, k, T[k])
  BY <1>1, TakenPlaces
<1>3. \A p : Piece(p).id = p
  BY DEF Piece
<1>4. \A k \in 1 .. n : parts[k] \in Parts /\ parts[k].id \in Posts
  BY PartsArePosts DEF n
<1>5. Stamped /\ c \in Nat /\ c <= Len(R)
  BY <1>1, WindowSets
<1> HIDE DEF T, n
<1>6. ASSUME NEW k \in DOMAIN T PROVE From <= created[T[k].id] /\ created[T[k].id] < To
  <2>1. CASE k \in 1 .. n /\ T[k] = parts[k]
    BY <1>2, <2>1 DEF PartsSorted, n
  <2>2. CASE \E i \in 1 .. c : k = n + i /\ T[k] = Piece(R[i])
    <3>1. PICK i \in 1 .. c : T[k] = Piece(R[i])
      BY <2>2
    <3>2. i \in 1 .. Len(R)
      BY <1>1, <1>5
    <3>3. T[k].id \in Behind
      BY <1>1, <1>3, <3>1, <3>2
    <3> QED
      BY <3>3 DEF Behind
  <2> QED
    BY <1>2, <2>1, <2>2 DEF TakenFrom, n
<1>7. ASSUME NEW j \in DOMAIN T, NEW k \in DOMAIN T, j < k PROVE Newer(T[j].id, T[k].id)
  <2>1. CASE k \in 1 .. n /\ T[k] = parts[k]
    <3>1. j \in 1 .. n
      BY <1>2, <1>7, <2>1
    <3>2. T[j] = parts[j]
      <4>1. ~\E i \in 1 .. c : j = n + i
        BY <1>2, <3>1
      <4> QED
        BY <1>2, <4>1 DEF TakenFrom, n
    <3> QED
      BY <1>2, <1>7, <2>1, <3>1, <3>2 DEF PartsSorted, n
  <2>2. CASE \E i \in 1 .. c : k = n + i /\ T[k] = Piece(R[i])
    <3>1. PICK i \in 1 .. c : k = n + i /\ T[k] = Piece(R[i])
      BY <2>2
    <3>2. i \in 1 .. Len(R)
      BY <1>1, <1>5
    <3>3. T[k].id = R[i] /\ R[i] \in Behind /\ R[i] \in Posts
      BY <1>1, <1>3, <3>1, <3>2
    <3>4. CASE j \in 1 .. n /\ T[j] = parts[j]
      <4>1. n \in 1 .. n /\ parts # <<>>
        BY <1>2, <3>4 DEF n
      <4>2. cursor = parts[n].id /\ cursor \in Posts /\ cursor # 0
        BY <1>4, <4>1, PostsAssumption DEF CursorIsLast, n
      <4>3. Newer(cursor, R[i])
        BY <3>3, <4>2 DEF Behind
      <4>4. parts[j].id = cursor \/ Newer(parts[j].id, cursor)
        <5>1. j = n \/ j < n
          BY <1>2, <3>4
        <5> QED
          BY <1>2, <3>4, <4>1, <4>2, <5>1 DEF PartsSorted
      <4> QED
        BY <1>4, <1>5, <3>3, <3>4, <4>2, <4>3, <4>4, NewerOrder
    <3>5. CASE \E m \in 1 .. c : j = n + m /\ T[j] = Piece(R[m])
      <4>1. PICK m \in 1 .. c : j = n + m /\ T[j] = Piece(R[m])
        BY <3>5
      <4>2. m < i /\ m \in 1 .. Len(R)
        BY <1>1, <1>2, <1>5, <1>7, <3>1, <4>1
      <4>3. T[j].id = R[m]
        BY <1>3, <4>1
      <4> QED
        BY <1>1, <3>2, <3>3, <4>2, <4>3
    <3> QED
      BY <1>2, <3>4, <3>5 DEF TakenFrom, n
  <2> QED
    BY <1>2, <2>1, <2>2 DEF TakenFrom, n
<1> QED
  BY <1>6, <1>7 DEF T

LEMMA TakenStable ==
    ASSUME WindowTypes, CursorIsLast, StableIsTaken, reading,
           NEW R, R = NewestFirst(Behind), NEW c \in 0 .. Len(R),
           NEW T, T = Taken(R, c),
           NEW p \in Window(stable), NEW k \in DOMAIN T, ~Newer(T[k].id, p)
    PROVE  \E j \in DOMAIN T : T[j].id = p
<1> DEFINE n == Len(parts)
<1>1. /\ R \in Seq(Posts) /\ Len(R) \in Nat
      /\ \A i \in 1 .. Len(R) : R[i] \in Behind /\ R[i] \in Posts
      /\ \A i, j \in 1 .. Len(R) : i < j => Newer(R[i], R[j])
      /\ \A q \in Behind : \E i \in 1 .. Len(R) : R[i] = q
  BY RestFacts
<1>2. /\ n \in Nat /\ DOMAIN T = 1 .. n + c /\ DOMAIN parts = 1 .. n
      /\ TakenFrom(R, c, k, T[k])
  BY <1>1, TakenPlaces
<1>3. /\ \A j \in 1 .. n : T[j] = parts[j]
      /\ \A i \in 1 .. c : T[n + i].id = R[i]
  <2>1. /\ \A j \in 1 .. n : T[j] = parts[j]
        /\ \A i \in 1 .. c : T[n + i] = Piece(R[i])
    BY <1>1, TakenType
  <2>2. \A q : Piece(q).id = q
    BY DEF Piece
  <2> HIDE DEF n
  <2> QED
    BY <2>1, <2>2
<1>4. Stamped /\ c \in Nat /\ c <= Len(R)
  BY <1>1, WindowSets
<1> HIDE DEF n
<1>5. \A j \in 1 .. n : j \in DOMAIN T /\ j \in DOMAIN parts
  BY <1>2, <1>4
<1>6. ASSUME NEW m \in DOMAIN parts, ~Newer(parts[m].id, p)
      PROVE  \E j \in DOMAIN T : T[j].id = p
  <2>1. PICK j \in DOMAIN parts : parts[j].id = p
    BY <1>6 DEF StableIsTaken
  <2> QED
    BY <1>2, <1>3, <1>5, <2>1
<1>7. CASE k \in 1 .. n
  BY <1>2, <1>3, <1>6, <1>7
<1>8. CASE \E i \in 1 .. c : k = n + i
  <2>1. PICK i \in 1 .. c : k = n + i
    BY <1>8
  <2>2. T[k].id = R[i] /\ i \in 1 .. Len(R)
    BY <1>1, <1>3, <1>4, <2>1
  <2>3. CASE p \in Behind
    <3>1. PICK m \in 1 .. Len(R) : R[m] = p
      BY <1>1, <2>3
    <3>2. ~(i < m)
      BY <1>1, <2>2, <3>1
    <3>3. m \in 1 .. c /\ n + m \in DOMAIN T
      BY <1>1, <1>2, <1>4, <2>1, <3>2
    <3> QED
      BY <1>3, <3>1, <3>3
  <2>4. CASE p \notin Behind
    <3>1. cursor # 0 /\ ~Newer(cursor, p)
      BY <2>4, WindowSets
    <3>2. cursor = parts[n].id /\ n \in DOMAIN parts
      <4>1. parts # <<>>
        BY <3>1 DEF CursorIsLast
      <4>2. n # 0
        BY <4>1 DEF WindowTypes, n
      <4> QED
        BY <1>2, <4>1, <4>2 DEF CursorIsLast, n
    <3> QED
      BY <1>6, <3>1, <3>2
  <2> QED
    BY <2>3, <2>4
<1> QED
  BY <1>2, <1>7, <1>8 DEF TakenFrom, n

LEMMA TakenWhole ==
    ASSUME WindowTypes, CursorIsLast, reading, NEW R \in Seq(Posts), NEW c \in 0 .. Len(R),
           NEW k \in DOMAIN Taken(R, c)
    PROVE  Taken(R, c)[k].whole
<1>1. /\ DOMAIN parts = 1 .. Len(parts)
      /\ TakenFrom(R, c, k, Taken(R, c)[k])
  BY TakenPlaces
<1>2. \A j \in 1 .. Len(parts) : parts[j].whole
  BY <1>1 DEF CursorIsLast
<1> QED
  BY <1>1, <1>2 DEF TakenFrom, Piece

(* Without a change, what is taken are the first posts of the window.      *)
LEMMA TakenQuiet ==
    ASSUME WindowTypes, CursorIsLast, QuietPrefix, reading, edits = MaxEdits,
           NEW R, R = NewestFirst(Behind), NEW c \in 0 .. Len(R),
           NEW T, T = Taken(R, c)
    PROVE  /\ Cardinality(Window(rows)) = Len(parts) + Len(R)
           /\ Len(T) = Len(parts) + c /\ Len(parts) \in Nat /\ Len(R) \in Nat
           /\ \A k \in DOMAIN T : T[k].id = NewestFirst(Window(rows))[k]
           /\ \A i \in 1 .. Len(R) : NewestFirst(Window(rows))[Len(parts) + i] = R[i]
<1> DEFINE n == Len(parts)
           W == NewestFirst(Window(rows))
<1>1. R \in Seq(Posts) /\ Len(R) = Cardinality(Behind) /\ Len(R) \in Nat
  BY RestFacts
<1>2. /\ n \in Nat /\ Len(T) = n + c /\ DOMAIN T = 1 .. n + c /\ DOMAIN parts = 1 .. n
      /\ \A k \in DOMAIN T : TakenFrom(R, c, k, T[k])
  BY <1>1, TakenPlaces
<1>3. Cardinality(Window(rows)) \in Nat
  BY WindowSets, FinitePosts
<1>4. n \in 0 .. Cardinality(Window(rows))
  BY <1>2, <1>3 DEF QuietPrefix
<1>5. cursor = IF n = 0 THEN 0 ELSE W[n]
  <2>1. parts = <<>> <=> n = 0
    BY DEF WindowTypes
  <2>2. n # 0 => n \in DOMAIN parts
    BY <1>2
  <2> QED
    BY <2>1, <2>2 DEF CursorIsLast, QuietPrefix
<1>6. /\ Cardinality(Window(rows)) = n + Len(R)
      /\ \A i \in 1 .. Len(R) : W[n + i] = R[i]
  BY <1>1, <1>4, <1>5, BehindIsRest
<1>7. \A k \in DOMAIN parts : parts[k].id = W[k]
  BY DEF QuietPrefix
<1> HIDE DEF W, n
<1>8. ASSUME NEW k \in DOMAIN T PROVE T[k].id = W[k]
  <2>1. CASE k \in 1 .. n /\ T[k] = parts[k]
    BY <1>2, <1>7, <2>1
  <2>2. CASE \E i \in 1 .. c : k = n + i /\ T[k] = Piece(R[i])
    <3>1. PICK i \in 1 .. c : k = n + i /\ T[k] = Piece(R[i])
      BY <2>2
    <3>2. i \in 1 .. Len(R)
      BY <1>1
    <3> QED
      BY <1>6, <3>1, <3>2 DEF Piece
  <2> QED
    BY <1>2, <2>1, <2>2 DEF TakenFrom, n
<1> QED
  BY <1>1, <1>2, <1>6, <1>8 DEF n, W

(* A page that cuts nothing leaves the invariant true.                     *)
LEMMA WholePageStep ==
    ASSUME WindowInv, reading, UNCHANGED <<created, text, rows, limit, stable, edits>>,
           NEW R, R = NewestFirst(Behind), NEW c \in 0 .. Len(R),
           Total(Taken(R, c)) <= limit, parts' = Taken(R, c),
           GoesOn(R, c) \/ EndsWithAll(R, c) \/ EndsFull(R, c),
           cursor' \in Posts \cup {0}
    PROVE  WindowInv'
<1> DEFINE n == Len(parts)
           W == Window(rows)
<1>1. /\ WindowTypes /\ InputFits /\ PartsSorted /\ CursorIsLast
      /\ StableIsTaken /\ QuietPrefix
  BY DEF WindowInv
<1>2. /\ R \in Seq(Posts) /\ Len(R) \in Nat
      /\ \A i \in 1 .. Len(R) : R[i] \in Behind /\ R[i] \in Posts
  BY <1>1, RestFacts
<1>3. /\ parts' \in Seq(Parts) /\ Len(parts') = n + c
      /\ \A i \in 1 .. c : parts'[n + i] = Piece(R[i])
  BY <1>1, <1>2, TakenType
<1>4. c \in Nat /\ c <= Len(R) /\ n \in Nat
  BY <1>1, <1>2 DEF WindowTypes
<1>5. W' = W /\ Window(stable)' = Window(stable) /\ NewestFirst(W)' = NewestFirst(W)
  BY DEF Window, NewestFirst, Newer
<1>6. \A p, q : Newer(p, q)' = Newer(p, q)
  BY DEF Newer
<1>7. reading' \in BOOLEAN
  BY DEF GoesOn, EndsWithAll, EndsFull
<1>8. WindowTypes'
  BY <1>1, <1>3, <1>7 DEF WindowTypes
<1>9. InputFits'
  BY DEF InputFits
<1>10. PartsSorted'
  <2>1. /\ \A k \in DOMAIN parts' : /\ From <= created[parts'[k].id]
                                    /\ created[parts'[k].id] < To
        /\ \A j, k \in DOMAIN parts' : j < k => Newer(parts'[j].id, parts'[k].id)
    BY <1>1, TakenSorted
  <2> QED
    BY <1>6, <2>1 DEF PartsSorted
<1>11. \A k \in DOMAIN parts' : parts'[k].whole
  BY <1>1, <1>2, TakenWhole
<1>12. CursorIsLast'
  <2>1. CASE reading' = FALSE
    BY <2>1 DEF CursorIsLast
  <2>2. CASE GoesOn(R, c)
    <3>1. c \in 1 .. c /\ Len(parts') = n + c /\ n + c # 0 /\ cursor' = R[c]
      BY <1>3, <1>4, <2>2 DEF GoesOn
    <3>2. parts'[Len(parts')].id = R[c]
      <4>1. parts'[n + c] = Piece(R[c])
        BY <1>3, <3>1
      <4> QED
        BY <3>1, <4>1 DEF Piece
    <3>3. parts' # <<>>
      BY <3>1
    <3> QED
      BY <1>11, <3>1, <3>2, <3>3 DEF CursorIsLast
  <2> QED
    BY <2>1, <2>2 DEF EndsWithAll, EndsFull
<1>13. StableIsTaken'
  <2>1. \A p \in Window(stable), k \in DOMAIN parts' :
          ~Newer(parts'[k].id, p) => \E j \in DOMAIN parts' : parts'[j].id = p
    BY <1>1, TakenStable
  <2> QED
    BY <1>5, <1>6, <2>1 DEF StableIsTaken
<1>14. edits = MaxEdits =>
         /\ Cardinality(W) = n + Len(R)
         /\ \A k \in DOMAIN parts' : parts'[k].id = NewestFirst(W)[k]
         /\ \A i \in 1 .. Len(R) : NewestFirst(W)[n + i] = R[i]
  BY <1>1, TakenQuiet
<1>15. QuietPrefix'
  <2> SUFFICES ASSUME edits' = MaxEdits
               PROVE  /\ stable' = rows'
                      /\ Len(parts') <= Cardinality(W)
                      /\ \A k \in DOMAIN parts' : parts'[k].id = NewestFirst(W)[k]
    BY <1>5 DEF QuietPrefix
  <2>1. edits = MaxEdits /\ stable = rows
    BY <1>1 DEF QuietPrefix
  <2>2. Len(parts') <= Cardinality(W)
    BY <1>3, <1>4, <1>2, <1>14, <2>1
  <2> QED
    BY <1>14, <2>1, <2>2
<1>16. QuietEnd'
  <2> SUFFICES ASSUME reading' = FALSE, edits' = MaxEdits, Len(parts') < Cardinality(W)
               PROVE  Total(parts') + Bytes(text[NewestFirst(W)[Len(parts') + 1]])
                        + Separator > limit
    <3> DEFINE next == NewestFirst(W)[Len(parts') + 1]
    <3>1. (NewestFirst(W)[Len(parts) + 1])' = next
      BY <1>5
    <3> HIDE DEF next
    <3> QED
      BY <1>5, <1>7, <3>1 DEF QuietEnd, next
  <2>1. edits = MaxEdits
    OBVIOUS
  <2>2. Cardinality(W) = n + Len(R) /\ c < Len(R)
    BY <1>2, <1>3, <1>4, <1>14, <2>1
  <2>3. EndsFull(R, c)
    BY <2>2 DEF GoesOn, EndsWithAll
  <2>4. c + 1 \in 1 .. Len(R) /\ Len(parts') + 1 = n + (c + 1)
    BY <1>2, <1>3, <1>4, <2>2
  <2>5. NewestFirst(W)[Len(parts') + 1] = R[c + 1]
    BY <1>14, <2>1, <2>4
  <2>6. ~(Total(parts') + PartBytes(Piece(R[c + 1])) <= limit)
    BY <2>3 DEF EndsFull, Fits
  <2>7. PartBytes(Piece(R[c + 1])) = Bytes(text[R[c + 1]]) + Separator
    BY DEF PartBytes, Piece
  <2>8. Total(parts') \in Nat /\ Bytes(text[R[c + 1]]) \in Nat /\ limit \in Nat
    <3>1. text[R[c + 1]] \in Seq(1..4)
      BY <1>1, <1>2, <2>4 DEF WindowTypes
    <3>2. text[R[c + 1]] \in Seq(Nat)
      BY <3>1
    <3> QED
      BY <1>1, <1>3, <3>2, TotalNat, BytesNat DEF WindowTypes
  <2> QED
    BY <2>5, <2>6, <2>7, <2>8 DEF Separator
<1>17. OnlyNewestIsCut'
  BY <1>11 DEF OnlyNewestIsCut
<1> QED
  BY <1>8, <1>9, <1>10, <1>12, <1>13, <1>15, <1>16, <1>17 DEF WindowInv

(* The first post of all is cut when it does not fit alone.                *)
LEMMA CutStep ==
    ASSUME WindowInv, reading, UNCHANGED <<created, text, rows, limit, stable, edits>>,
           NEW R, R = NewestFirst(Behind), EndsCut(R, 0), cursor' \in Posts \cup {0}
    PROVE  WindowInv'
<1> DEFINE first == R[1]
           t == text[first]
           r == TruncateUTF8(t, limit)
           x == [id |-> first, text |-> r, whole |-> FALSE]
           W == Window(rows)
<1>1. /\ WindowTypes /\ CursorIsLast /\ QuietPrefix
  BY DEF WindowInv
<1>2. /\ R \in Seq(Posts) /\ Len(R) \in Nat
      /\ \A i \in 1 .. Len(R) : R[i] \in Behind /\ R[i] \in Posts
      /\ \A i, j \in 1 .. Len(R) : i < j => Newer(R[i], R[j])
      /\ \A q \in Behind : \E i \in 1 .. Len(R) : R[i] = q
  BY <1>1, RestFacts
<1>3. 0 < Len(R) /\ reading' = FALSE /\ parts = <<>> /\ parts' = <<x>>
  BY DEF EndsCut
<1>4. 1 \in 1 .. Len(R) /\ first \in Behind /\ first \in Posts
  BY <1>2, <1>3
<1>5. t \in Seq(1..4) /\ limit \in Nat
  BY <1>1, <1>4 DEF WindowTypes
<1> HIDE DEF first
<1>6. WholeRunes(t, limit, r)
  BY <1>5, TruncateIsWhole
<1> HIDE DEF t, r
<1>7. PICK k \in 0 .. Len(t) :
        /\ r = SubSeq(t, 1, k) /\ Bytes(r) <= limit
        /\ k < Len(t) => Bytes(SubSeq(t, 1, k + 1)) > limit
  BY <1>6 DEF WholeRunes
<1>8. r \in Seq(1..4) /\ Len(r) = k
  BY <1>5, <1>7
<1>9. x \in Parts /\ x.id = first /\ x.text = r /\ x.whole = FALSE
  BY <1>4, <1>8 DEF Parts
<1> HIDE DEF x
<1>10. parts' \in Seq(Parts) /\ Len(parts') = 1 /\ DOMAIN parts' = {1} /\ parts'[1] = x
  <2>1. <<x>> \in Seq(Parts) /\ Len(<<x>>) = 1 /\ DOMAIN <<x>> = 1 .. 1 /\ <<x>>[1] = x
    BY <1>9
  <2> QED
    BY <1>3, <2>1
<1>11. W' = W /\ Window(stable)' = Window(stable) /\ NewestFirst(W)' = NewestFirst(W)
  BY DEF Window, NewestFirst, Newer
<1>12. \A p, q : Newer(p, q)' = Newer(p, q)
  BY DEF Newer
<1>13. \A p \in Window(stable) : p = first \/ Newer(first, p)
  <2> TAKE p \in Window(stable)
  <2>1. cursor = 0
    BY <1>1, <1>3 DEF CursorIsLast
  <2>2. p \in Behind
    BY <1>1, <2>1, WindowSets
  <2>3. PICK i \in 1 .. Len(R) : R[i] = p
    BY <1>2, <2>2
  <2>4. i = 1 \/ 1 < i
    BY <1>2
  <2> QED
    BY <1>2, <1>4, <2>3, <2>4 DEF first
<1>14. WindowTypes'
  BY <1>1, <1>3, <1>10 DEF WindowTypes
<1>15. InputFits'
  <2>1. parts' = Append(<<>>, x) /\ <<>> \in Seq(Parts)
    BY <1>3
  <2>2. PartBytes(x) = Bytes(r) + 0 /\ PartBytes(x) \in Nat
    BY <1>9, PartBytesNat DEF PartBytes
  <2>3. r \in Seq(Nat)
    BY <1>8
  <2>4. Total(parts') = 0 + PartBytes(x)
    BY <1>9, <2>1, TotalAppend, TotalEmpty
  <2>5. Bytes(r) \in Nat
    BY <2>3, BytesNat
  <2>6. Total(parts') <= limit
    BY <1>7, <2>2, <2>4, <2>5
  <2> QED
    BY <2>6 DEF InputFits
<1>16. PartsSorted'
  <2>1. From <= created[first] /\ created[first] < To
    BY <1>4 DEF Behind
  <2> QED
    BY <1>9, <1>10, <2>1 DEF PartsSorted
<1>17. CursorIsLast' /\ QuietEnd'
  BY <1>3, <1>9, <1>10 DEF CursorIsLast, QuietEnd
<1>18. StableIsTaken'
  BY <1>9, <1>10, <1>11, <1>12, <1>13 DEF StableIsTaken
<1>19. QuietPrefix'
  <2> SUFFICES ASSUME edits' = MaxEdits
               PROVE  /\ stable' = rows'
                      /\ Len(parts') <= Cardinality(W)
                      /\ \A j \in DOMAIN parts' : parts'[j].id = NewestFirst(W)[j]
    BY <1>11 DEF QuietPrefix
  <2>1. edits = MaxEdits /\ stable = rows
    BY <1>1 DEF QuietPrefix
  <2>2. 0 \in 0 .. Len(R)
    BY <1>2
  <2>3. /\ Cardinality(W) = Len(parts) + Len(R)
        /\ \A i \in 1 .. Len(R) : NewestFirst(W)[Len(parts) + i] = R[i]
    BY <1>1, <2>1, <2>2, TakenQuiet
  <2>4. Len(parts) = 0
    BY <1>3
  <2>5. NewestFirst(W)[1] = first /\ Cardinality(W) = Len(R)
    BY <1>2, <1>4, <2>3, <2>4 DEF first
  <2> QED
    BY <1>2, <1>3, <1>9, <1>10, <2>1, <2>5
<1>20. OnlyNewestIsCut'
  <2>1. \A p \in Window(stable) : ~Newer(p, first)
    <3> TAKE p \in Window(stable)
    <3>1. p \in Posts /\ Stamped
      BY <1>1, WindowSets
    <3> QED
      BY <1>4, <1>13, <3>1, NewerOrder
  <2>2. text'[first] = t
    BY DEF t
  <2>3. \A j \in DOMAIN parts' : j = 1 /\ parts'[j] = x
    BY <1>10
  <2>4. x.text = SubSeq(t, 1, Len(x.text))
    BY <1>7, <1>8, <1>9
  <2>5. Len(x.text) < Len(t) => Bytes(SubSeq(t, 1, Len(x.text) + 1)) > limit
    BY <1>7, <1>8, <1>9
  <2> QED
    BY <1>9, <1>10, <1>11, <1>12, <2>1, <2>2, <2>3, <2>4, <2>5 DEF OnlyNewestIsCut
<1> QED
  BY <1>14, <1>15, <1>16, <1>17, <1>18, <1>19, <1>20 DEF WindowInv

LEMMA PageCursor ==
    ASSUME WindowTypes, ReadPage PROVE cursor' \in Posts \cup {0}
<1> DEFINE R == NewestFirst(Behind)
<1>1. R \in Seq(Posts)
  BY RestFacts
<1>2. PageSize \in Nat /\ 0 < PageSize
  BY LimitsAssumption
<1> HIDE DEF R
<1>3. Len(R) > PageSize => SubSeq(R, 1, PageSize)[PageSize] \in Posts
  BY <1>1, <1>2
<1>4. cursor' = IF Len(R) > PageSize
                THEN (IF Len(R) > PageSize THEN SubSeq(R, 1, PageSize) ELSE R)[PageSize]
                ELSE cursor
  BY DEF ReadPage, R
<1> QED
  BY <1>3, <1>4 DEF WindowTypes

LEMMA PageStep == ASSUME WindowInv, ReadPage PROVE WindowInv'
<1>1. WindowTypes /\ InputFits
  BY DEF WindowInv
<1> DEFINE R == NewestFirst(Behind)
<1>2. /\ reading /\ UNCHANGED <<created, text, rows, limit, stable, edits>>
      /\ PageLeaves(R)
  BY <1>1, PageEffect
<1>3. PICK c \in 0 .. Len(R) :
        /\ Total(Taken(R, c)) <= limit
        /\ GoesOn(R, c) \/ EndsWithAll(R, c) \/ EndsFull(R, c) \/ EndsCut(R, c)
  BY <1>2 DEF PageLeaves
<1>4. cursor' \in Posts \cup {0}
  BY <1>1, PageCursor
<1> HIDE DEF R
<1>5. R = NewestFirst(Behind)
  BY DEF R
<1>6. CASE EndsCut(R, c)
  <2>1. EndsCut(R, 0)
    BY <1>6 DEF EndsCut
  <2> QED
    BY <1>2, <1>4, <1>5, <2>1, CutStep
<1>7. CASE GoesOn(R, c) \/ EndsWithAll(R, c) \/ EndsFull(R, c)
  <2>1. parts' = Taken(R, c)
    BY <1>7 DEF GoesOn, EndsWithAll, EndsFull
  <2> QED
    BY <1>2, <1>3, <1>4, <1>5, <1>7, <2>1, WholePageStep
<1> QED
  BY <1>3, <1>6, <1>7

LEMMA WindowStep == ASSUME WindowInv, [Next]_<<wvars, backoff>> PROVE WindowInv'
<1>1. CASE ReadPage
  BY <1>1, PageStep
<1>2. CASE \E p \in Posts : Insert(p) \/ Delete(p) \/ \E t \in Texts : Change(p, t)
  BY <1>2, EditStep
<1>3. CASE UNCHANGED wvars
  <2>1. UNCHANGED <<created, text, rows, limit, cursor, parts, reading, stable, edits>>
    BY <1>3 DEF wvars
  <2>2. /\ Window(rows)' = Window(rows) /\ Window(stable)' = Window(stable)
        /\ NewestFirst(Window(rows))' = NewestFirst(Window(rows))
        /\ \A p, q : Newer(p, q)' = Newer(p, q)
    BY <2>1 DEF Window, NewestFirst, Newer
  <2> QED
    BY <2>1, <2>2 DEF WindowInv, WindowTypes, InputFits, PartsSorted, CursorIsLast,
      StableIsTaken, QuietPrefix, QuietEnd, OnlyNewestIsCut
<1> QED
  BY <1>1, <1>2, <1>3 DEF Next, NextAttempt, WNext

(* Between two pages what is taken is ordered and ends at the cursor, and  *)
(* nothing that stayed as it was before the cursor is missing from it      *)
(* (collectWindowPosts).                                                   *)
THEOREM WindowInvariant == Spec => []WindowInv
<1>1. Init => WindowInv
  BY WindowStart
<1>2. WindowInv /\ [Next]_<<wvars, backoff>> => WindowInv'
  BY WindowStep
<1> QED
  BY <1>1, <1>2, PTL DEF Spec

(* The input of a digest never exceeds its limit in bytes, whatever the    *)
(* posts are and however they change while they are read                   *)
(* (collectWindowPosts).                                                   *)
THEOREM InputAlwaysFits == Spec => []InputFits
<1>1. WindowInv => InputFits
  BY DEF WindowInv
<1> QED
  BY <1>1, WindowInvariant, PTL

(* Only the newest post is ever cut, at the last rune that fits            *)
(* (truncateUTF8).                                                         *)
THEOREM CutIsNewest == Spec => []OnlyNewestIsCut
<1>1. WindowInv => OnlyNewestIsCut
  BY DEF WindowInv
<1> QED
  BY <1>1, WindowInvariant, PTL

(* The input is the newest posts of the window without a gap, although     *)
(* posts come, change and go between two pages (collectWindowPosts, List). *)
THEOREM InputIsTheNewest == Spec => []InputIsNewest
<1>1. WindowInv => InputIsNewest
  <2> SUFFICES ASSUME WindowInv PROVE InputIsNewest
    OBVIOUS
  <2>1. WindowTypes /\ PartsSorted /\ StableIsTaken /\ QuietEnd
    BY DEF WindowInv
  <2>2. ASSUME NEW p \in Window(stable), NEW k \in DOMAIN parts, Newer(p, parts[k].id)
        PROVE  \E j \in DOMAIN parts : parts[j].id = p
    <3>1. parts[k].id \in Posts
      <4>1. k \in 1 .. Len(parts)
        BY <2>1 DEF WindowTypes
      <4> QED
        BY <2>1, <4>1, PartsArePosts
    <3>2. Stamped /\ p \in Posts
      BY <2>1, WindowSets
    <3>3. ~Newer(parts[k].id, p)
      BY <2>2, <3>1, <3>2, NewerOrder
    <3> QED
      BY <2>1, <3>3 DEF StableIsTaken
  <2> QED
    BY <2>1, <2>2 DEF InputIsNewest, PartsSorted, QuietEnd
<1> QED
  BY <1>1, WindowInvariant, PTL

==============================================================================
