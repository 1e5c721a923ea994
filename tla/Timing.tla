------------------------------ MODULE Timing ------------------------------
(***************************************************************************)
(* The duration arithmetic of the delivery path: the backoff between two   *)
(* POSTs of one Submit call, and the timeout of the whole call that main   *)
(* passes to the worker.  Durations are nonnegative; the saturation at     *)
(* the largest time.Duration is kept, with a MaxDuration TLC can reach.    *)
(***************************************************************************)
EXTENDS Naturals

CONSTANTS MaxDuration,   \* time.Duration(1<<63 - 1)
          Grace          \* the 2 * time.Second of runtimeSendTimeout

ASSUME DurationAssumption == MaxDuration \in Nat /\ Grace \in 0..MaxDuration

\* Compares the sum, which wraps, instead of the room that is left.
saturatingAddWraps(a, b) == (a + b) % (MaxDuration + 1)

saturatingAdd(a, b) == IF a > MaxDuration - b THEN MaxDuration ELSE a + b

multiplyDuration(d, n) ==
  CASE n = 0                   -> 0
    [] d > MaxDuration \div n  -> MaxDuration
    [] OTHER                   -> d * n

\* The step of both loops: backoff *= 2, saturating.
doubled(d) == IF d > MaxDuration \div 2 THEN MaxDuration ELSE 2 * d

\* The delay after POST number `attempt`.
retryBackoff(base, attempt) ==
  LET backoff[i \in 1..attempt] == IF i = 1 THEN base ELSE doubled(backoff[i - 1])
  IN backoff[attempt]

\* One backoff too few.
retryBackoffTotalShort(base, attempts) ==
  LET total[i \in 0..(attempts - 1)] ==
        IF i <= 1 THEN 0 ELSE saturatingAdd(total[i - 1], retryBackoff(base, i - 1))
  IN total[attempts - 1]

\* All the delays of one Submit call: none follows the last POST.
retryBackoffTotal(base, attempts) ==
  LET total[i \in 0..(attempts - 1)] ==
        IF i = 0 THEN 0 ELSE saturatingAdd(total[i - 1], retryBackoff(base, i))
  IN total[attempts - 1]

runtimeSendTimeout(httpTimeout, baseDelay, attempts) ==
  saturatingAdd(saturatingAdd(multiplyDuration(httpTimeout, attempts),
                              retryBackoffTotal(baseDelay, attempts)), Grace)
============================================================================
