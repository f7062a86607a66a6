----------------------------- MODULE RetryDelay ------------------------------
(***************************************************************************)
(* retryDelay and randomJitter in internal/delivery/service.go, and the    *)
(* next_attempt_at that the store makes of the delay: how long the         *)
(* delivery worker waits before the next attempt for a message.            *)
(*                                                                         *)
(* A time.Duration is a signed integer; its width is a parameter.  The     *)
(* delay is computed as a float: the base is rounded to a float, which     *)
(* loses the low bits of a long one, and the product with a power of two   *)
(* is exact.  A float that no Duration can hold is converted to some       *)
(* Duration, which one depends on the processor: the smallest on amd64,    *)
(* the largest on arm64.  The store keeps whole milliseconds.              *)
(*                                                                         *)
(* The queue of Outbox rests on this: ProcessDue adds the delay to the     *)
(* time at which the batch was listed, and the message comes after all     *)
(* that were due then only if its millisecond is a later one.              *)
(***************************************************************************)
EXTENDS Outbox, Integers

CONSTANTS
    MaxDuration,    \* largest time.Duration, 2^63 - 1 in the code
    MaxExponent,    \* 62 in the code
    MaxExact,       \* 2^53: integers up to it are floats
    Tick,           \* a millisecond: 10^6 in the code
    MaxAttempt,     \* bounds the attempts that are tried
    Pow             \* Pow[n]: math.Pow(2, n), of the Go library

ASSUME WidthOfDuration ==
    /\ MaxDuration \in Nat \ {0} /\ MaxExponent \in Nat /\ MaxAttempt \in Nat
    /\ MaxExact \in Nat \ {0} /\ Tick \in 1..MaxExact
    /\ MaxDuration = 2 * Pow[MaxExponent] - 1
ASSUME PowDoubles ==
    /\ Pow \in [0..MaxExponent -> Nat \ {0}] /\ Pow[0] = 1
    /\ \A n \in 1..MaxExponent : Pow[n] = 2 * Pow[n - 1]

MinDuration == -MaxDuration - 1
Durations == MinDuration..MaxDuration

\* The attempt counts from one and the exponent stays below the width.
Exponent(attempt) ==
    IF attempt < 1 THEN 0 ELSE IF attempt - 1 > MaxExponent THEN MaxExponent ELSE attempt - 1

\* The integers that a float64 represents, and the ones to which float64(n) may
\* round n: the nearest; between two that are equally near, either one.
Floats == {digits * Pow[scale] : digits \in 0..MaxExact, scale \in 0..MaxExponent}
Distance(a, b) == IF a <= b THEN b - a ELSE a - b
Nearest(n) == {f \in Floats : \A g \in Floats : Distance(n, f) <= Distance(n, g)}

\* time.Duration(f) of a positive float.
ToDuration(float) == IF float <= MaxDuration THEN {float} ELSE {MinDuration, MaxDuration}

\* Mutant of Capped: only a delay that is too long is replaced.
CappedAbove(delay, max) == IF delay > max THEN max ELSE delay

Capped(delay, max) == IF delay <= 0 \/ delay > max THEN max ELSE delay

\* jitter is what the function returned that the configuration provides.
AddJitter(delay, jitter, max) ==
    LET extra == IF jitter < 0 THEN 0 ELSE jitter
    IN  IF delay > max - extra THEN max ELSE delay + extra

\* The results that retryDelay may have for one multiplier and one jitter.
Delays(base, multiplier, jitter, max) ==
    LET converted == UNION {ToDuration(float * multiplier) : float \in Nearest(base)}
    IN  {AddJitter(Capped(delay, max), jitter, max) : delay \in converted}

\* randomJitter: up to a quarter of the delay.
RandomJitter(delay) == 0..(delay \div 4)

\* The column next_attempt_at and the time it is compared with.
Millis(time) == time \div Tick

-----------------------------------------------------------------------------
(* Properties *)

Least(a, b) == IF a <= b THEN a ELSE b

\* The delay before jitter is base doubled with every attempt and never above max,
\* computed without a bound on integers.
Nominal(base, attempt, max) == Least(base * Pow[Exponent(attempt)], max)

\* For every base and max that NewService lets through, every attempt and whatever
\* the jitter function returns: the delay is positive and at most max, so that no
\* overflow of the conversion or of the sum reverses or prolongs the wait.  With a
\* base that a float holds, as every one up to 104 days is, it is the exact
\* exponential delay and the jitter, or max.  With a base of a millisecond or more
\* the message is not due any more in the millisecond in which the batch was listed,
\* at whichever part of it that was; with a smaller base it may be.
BackoffIsSound ==
    \A base \in 1..MaxDuration, attempt \in 0..MaxAttempt : \A max \in base..MaxDuration :
        LET nominal == Nominal(base, attempt, max)
        IN  \A jitter \in Durations : \A delay \in Delays(base, Pow[Exponent(attempt)], jitter, max) :
               /\ delay > 0 /\ delay <= max
               /\ base \in Floats =>
                    /\ delay >= nominal
                    /\ jitter \in RandomJitter(nominal) => delay = Least(nominal + jitter, max)
               /\ base >= Tick => \A now \in 0..(Tick - 1) : Millis(now + delay) > Millis(now)

\* Whenever the worker is about to reschedule a message, the delay that retryDelay
\* computes is in its bounds and, with a base of a millisecond or more, puts the
\* message after the batch: what Reschedule assumes of the order of the queue.
RetryIsLater == worker.pc = "retry" => BackoffIsSound
=============================================================================
