------------------------------ MODULE Backoff -------------------------------
(***************************************************************************)
(* retryDelay and checkedMul of internal/runner/node.go: the wait before a *)
(* retry, in machine integers.  time.Duration is an int64 in the code;     *)
(* here an integer has WordBits bits, sign included.                       *)
(***************************************************************************)
EXTENDS Integers

CONSTANT WordBits       \* 64 in the code

ASSUME WordBitsAssumption == WordBits \in Nat /\ WordBits >= 2

(* 1 << n, in integers that are wide enough. *)
Shifted[n \in Nat] == IF n = 0 THEN 1 ELSE 2 * Shifted[n - 1]

MaxInt    == Shifted[WordBits - 1] - 1
MaxDelay  == MaxInt
Durations == -(MaxInt + 1)..MaxInt

Backoffs == {"none", "linear", "exponential"}

(* Mutant: the product wraps around. *)
WrappingMul(d, n) ==
  IF n <= 0 THEN 0 ELSE ((d * n + MaxInt + 1) % Shifted[WordBits]) - (MaxInt + 1)

(* Multiplication that saturates instead of overflowing. *)
CheckedMul(d, n) ==
  IF n <= 0 THEN 0
  ELSE IF d <= 0 \/ n = 1 THEN d
  ELSE IF d > MaxInt \div n THEN MaxDelay
  ELSE d * n

(* The wait after the failed attempt number `attempt', counted from 0. *)
RetryDelay(delay, backoff, attempt) ==
  CASE backoff = "linear" -> CheckedMul(delay, attempt + 1)
    [] backoff = "exponential" ->
         IF attempt >= WordBits - 1 THEN MaxDelay ELSE CheckedMul(delay, Shifted[attempt])
    [] OTHER -> delay

(* docs/schema.md, "Retry": delay, delay * (n+1) or delay * 2^n, as far as a   *)
(* Duration can hold it.                                                      *)
ScheduledDelay(delay, backoff, n) ==
  LET exact == CASE backoff = "linear" -> delay * (n + 1)
                 [] backoff = "exponential" -> delay * Shifted[n]
                 [] OTHER -> delay
  IN  IF exact > MaxDelay THEN MaxDelay ELSE exact
=============================================================================
