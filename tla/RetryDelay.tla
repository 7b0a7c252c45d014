----------------------------- MODULE RetryDelay -----------------------------
(***************************************************************************)
(* The delay before a retry, as both plugins compute it in MarkFailed      *)
(* (renr/database.go, webhook/database.go): a shift of a Go int, capped.   *)
(* A shift that leaves the positive integers gives no delay: 1 << 63 is    *)
(* the least int, which passes the cap and, multiplied by the nanoseconds  *)
(* of a minute, wraps to 0; a longer shift gives 0 at once.                *)
(***************************************************************************)
EXTENDS Integers

CONSTANTS
    MaxBackoff,     \* longest delay (1440 min)
    Width           \* shifts from here on leave the positive integers (63)

ASSUME DelayTypes == MaxBackoff \in Nat \ {0} /\ Width \in Nat \ {0}

Pow2[n \in Nat] == IF n = 0 THEN 1 ELSE 2 * Pow2[n-1]

\* Minutes in time.Duration(1 << n) * time.Minute, before the cap.
Shift(n) == IF n < Width THEN Pow2[n] ELSE 0

\* Variant: the delay does not grow.
Backoff_Constant(a) == 1

\* The delay after attempt a.
Backoff(a) == IF Shift(a-1) > MaxBackoff THEN MaxBackoff ELSE Shift(a-1)

\* What n attempts should cost by the comment at database.go:190: 1, 2, 4, ...
\* minutes each, at most MaxBackoff, without an end.
Cost[n \in Nat] ==
    IF n = 0 THEN 0
             ELSE Cost[n-1] + (IF Pow2[n-1] > MaxBackoff THEN MaxBackoff ELSE Pow2[n-1])
=============================================================================
