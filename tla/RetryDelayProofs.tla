--------------------------- MODULE RetryDelayProofs --------------------------
(***************************************************************************)
(* The bounds of retryDelay for a Duration of any width, any base, maximum,*)
(* attempt and jitter.                                                     *)
(***************************************************************************)
EXTENDS RetryDelay, TLAPS

\* A product that no Duration can hold is replaced by max like one that is too long,
\* whichever Duration the conversion yields.
LEMMA CappedIsLeast ==
  ASSUME NEW product \in Nat \ {0}, NEW max \in 1..MaxDuration, NEW delay \in ToDuration(product)
  PROVE  Capped(delay, max) = Least(product, max)
  <1>1. MaxDuration \in Nat /\ max \in Nat /\ max > 0 /\ max <= MaxDuration
    BY WidthOfDuration
  <1>2. CASE product <= MaxDuration
    BY <1>1, <1>2 DEF ToDuration, Capped, Least
  <1>3. CASE ~(product <= MaxDuration)
    <2>1. product > max /\ Least(product, max) = max
      BY <1>1, <1>3 DEF Least
    <2>2. delay = MinDuration \/ delay = MaxDuration
      BY <1>3 DEF ToDuration
    <2> QED
      BY <1>1, <2>1, <2>2 DEF MinDuration, Capped
  <1> QED
    BY <1>2, <1>3

\* The jitter only prolongs the delay, and not above max.
LEMMA JitterInBounds ==
  ASSUME NEW delay \in Nat \ {0}, NEW max \in Nat, delay <= max, NEW jitter \in Int
  PROVE  /\ AddJitter(delay, jitter, max) \in Nat
         /\ AddJitter(delay, jitter, max) >= delay /\ AddJitter(delay, jitter, max) <= max
         /\ jitter >= 0 => AddJitter(delay, jitter, max) = Least(delay + jitter, max)
  BY DEF AddJitter, Least

\* Rounding to a float keeps a value that is one, keeps a positive value positive
\* and does not carry a value below a float that it was not below.
LEMMA RoundingFacts ==
  ASSUME NEW base \in Nat \ {0}, NEW float \in Nearest(base)
  PROVE  /\ float \in Nat \ {0}
         /\ base \in Floats => float = base
         /\ base >= Tick => float >= Tick
  <1>1. Floats \subseteq Nat
    BY WidthOfDuration, PowDoubles DEF Floats
  <1>2. \A n \in 0..MaxExact : n \in Floats
    <2>1. SUFFICES ASSUME NEW n \in 0..MaxExact  PROVE n * Pow[0] \in Floats /\ n * Pow[0] = n
      OBVIOUS
    <2> QED
      BY WidthOfDuration, PowDoubles DEF Floats
  <1>3. 1 \in Floats /\ Tick \in Floats /\ Tick \in Nat
    BY <1>2, WidthOfDuration
  <1>4. float \in Floats /\ \A g \in Floats : Distance(base, float) <= Distance(base, g)
    BY DEF Nearest
  <1>5. float \in Nat
    BY <1>1, <1>4
  <1>6. float # 0
    BY <1>3, <1>4, <1>5 DEF Distance
  <1>7. ASSUME base \in Floats  PROVE float = base
    BY <1>4, <1>5, <1>7 DEF Distance
  <1>8. ASSUME base >= Tick  PROVE float >= Tick
    BY <1>3, <1>4, <1>5, <1>8 DEF Distance
  <1> QED
    BY <1>5, <1>6, <1>7, <1>8

\* Whatever the multiplier and the jitter are, the delay that retryDelay returns is
\* positive and at most max, at least a millisecond when base and max are, and for a
\* base that a float holds it is at least the exact product or max; with a jitter
\* that is not negative it is then the exact sum or max.
THEOREM DelayIsInBounds ==
  ASSUME NEW base \in Nat \ {0}, NEW multiplier \in Nat \ {0}, NEW jitter \in Int,
         NEW max \in 1..MaxDuration, NEW result \in Delays(base, multiplier, jitter, max)
  PROVE  LET nominal == Least(base * multiplier, max)
         IN  /\ result \in Nat /\ result > 0 /\ result <= max
             /\ base >= Tick /\ max >= Tick => result >= Tick
             /\ base \in Floats =>
                  /\ result >= nominal
                  /\ jitter >= 0 => result = Least(nominal + jitter, max)
  <1>1. PICK float \in Nearest(base) : \E delay \in ToDuration(float * multiplier) :
               result = AddJitter(Capped(delay, max), jitter, max)
    BY DEF Delays
  <1>2. /\ float \in Nat \ {0}
        /\ base \in Floats => float = base
        /\ base >= Tick => float >= Tick
    BY <1>1, RoundingFacts
  <1> DEFINE product == float * multiplier
             rounded == Least(product, max)
  <1>3. product \in Nat \ {0} /\ product >= float
    BY <1>2, SMT
  <1>4. base \in Floats => product = base * multiplier
    BY <1>2
  <1>5. PICK delay \in ToDuration(product) : result = AddJitter(Capped(delay, max), jitter, max)
    BY <1>1
  <1> HIDE DEF product
  <1>6. Capped(delay, max) = rounded
    BY <1>3, <1>5, CappedIsLeast
  <1>7. max \in Nat /\ rounded \in Nat \ {0} /\ rounded <= max
    BY <1>3, WidthOfDuration DEF Least
  <1>8. base >= Tick /\ max >= Tick => rounded >= Tick
    BY <1>2, <1>3, WidthOfDuration DEF Least
  <1>9. base \in Floats => rounded = Least(base * multiplier, max)
    BY <1>4
  <1> HIDE DEF rounded
  <1>10. /\ result \in Nat /\ result >= rounded /\ result <= max
         /\ jitter >= 0 => result = Least(rounded + jitter, max)
    BY <1>5, <1>6, <1>7, JitterInBounds
  <1>11. result > 0 /\ (base >= Tick /\ max >= Tick => result >= Tick)
    BY <1>7, <1>8, <1>10, WidthOfDuration
  <1> QED
    BY <1>9, <1>10, <1>11

\* A delay of a millisecond or more ends in a later millisecond, whenever it began.
LEMMA NextMillisecond ==
  ASSUME NEW now \in Nat, NEW delay \in Nat, delay >= Tick
  PROVE  Millis(now + delay) > Millis(now)
  BY WidthOfDuration DEF Millis

\* The exponent of an attempt has a power.
LEMMA MultiplierFacts ==
  ASSUME NEW attempt \in Nat
  PROVE  Pow[Exponent(attempt)] \in Nat \ {0}
  <1>1. Exponent(attempt) \in 0..MaxExponent
    BY WidthOfDuration DEF Exponent
  <1> QED
    BY <1>1, PowDoubles

\* BackoffIsSound for every width of a Duration and of a float and every number of
\* attempts: no rounding, overflow of the conversion or of the sum, or truncation in
\* retryDelay and ScheduleOutboxRetry reverses or prolongs the wait.
THEOREM BackoffHolds == BackoffIsSound
  <1> SUFFICES ASSUME NEW base \in 1..MaxDuration, NEW attempt \in 0..MaxAttempt,
                      NEW max \in base..MaxDuration, NEW jitter \in Durations,
                      NEW delay \in Delays(base, Pow[Exponent(attempt)], jitter, max)
               PROVE  LET nominal == Nominal(base, attempt, max)
                      IN  /\ delay > 0 /\ delay <= max
                          /\ base \in Floats =>
                               /\ delay >= nominal
                               /\ jitter \in RandomJitter(nominal) =>
                                    delay = Least(nominal + jitter, max)
                          /\ base >= Tick =>
                               \A now \in 0..(Tick - 1) : Millis(now + delay) > Millis(now)
    BY DEF BackoffIsSound
  <1>1. /\ base \in Nat \ {0} /\ attempt \in Nat /\ max \in 1..MaxDuration /\ max >= base
        /\ jitter \in Int /\ Tick \in Nat
    BY WidthOfDuration DEF Durations, MinDuration
  <1> DEFINE multiplier == Pow[Exponent(attempt)]
             nominal == Least(base * multiplier, max)
  <1>2. multiplier \in Nat \ {0}
    BY <1>1, MultiplierFacts
  <1> HIDE DEF multiplier
  <1>3. /\ delay \in Nat /\ delay > 0 /\ delay <= max
        /\ base >= Tick /\ max >= Tick => delay >= Tick
        /\ base \in Floats =>
             /\ delay >= nominal
             /\ jitter >= 0 => delay = Least(nominal + jitter, max)
    BY <1>1, <1>2, DelayIsInBounds DEF multiplier
  <1>4. nominal = Nominal(base, attempt, max)
    BY DEF Nominal, multiplier
  <1> HIDE DEF nominal
  <1>5. jitter \in RandomJitter(nominal) => jitter >= 0
    BY DEF RandomJitter
  <1>6. ASSUME base >= Tick, NEW now \in 0..(Tick - 1)  PROVE Millis(now + delay) > Millis(now)
    <2>1. now \in Nat /\ delay >= Tick
      BY <1>1, <1>3, <1>6
    <2> QED
      BY <1>3, <2>1, NextMillisecond
  <1> QED
    BY <1>3, <1>4, <1>5, <1>6

\* RetryIsLater: the worker never reschedules a message to a time outside the bounds
\* and, with a base of a millisecond or more, never to one that is still due in the
\* millisecond of its batch, whatever the width, the delays configured and the attempt
\* (ProcessDue, retryDelay, ScheduleOutboxRetry).
THEOREM RetriesAreLater == OutSpec => []RetryIsLater
  <1>1. RetryIsLater
    BY BackoffHolds DEF RetryIsLater
  <1> QED
    BY <1>1, PTL

=============================================================================
