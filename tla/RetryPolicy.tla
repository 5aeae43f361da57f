----------------------------- MODULE RetryPolicy -----------------------------
(***************************************************************************)
(* RetryPolicy.CalculateBackoff on time.Duration, a signed integer of      *)
(* Width bits (64 in Go; the runs use a small width, where the doubling    *)
(* overflows just as it does in 64 bits).                                  *)
(***************************************************************************)
EXTENDS Integers

CONSTANTS
    Width  \* bits of a time.Duration

ASSUME WidthAssumption == Width \in Nat \ {0, 1}

Pow2[n \in Nat] == IF n = 0 THEN 1 ELSE 2 * Pow2[n - 1]

(* The value a signed Width-bit integer holds after arithmetic gave n.     *)
Wrap(n) ==
    LET m == n % Pow2[Width] IN
    IF m >= Pow2[Width - 1] THEN m - Pow2[Width] ELSE m

Capped == 0   \* "return p.BackoffMax" out of the loop; no delay is 0

(* Mutant: no look at the overflow.                                        *)
GrowUnchecked(d, max) ==
    LET next == Wrap(2 * d) IN
    IF d = Capped \/ next > max THEN Capped ELSE next

(* One turn of the loop.                                                   *)
Grow(d, max) ==
    LET next == Wrap(2 * d) IN
    IF d = Capped \/ next < d \/ next > max THEN Capped ELSE next

CalculateBackoff(base, max, attempt) ==
    LET delay[i \in Nat] ==
          IF i <= 1 THEN base ELSE Grow(delay[i - 1], max)
        d == delay[attempt]
    IN  IF attempt <= 0 THEN base
        ELSE IF d = Capped \/ d > max THEN max ELSE d

==============================================================================
