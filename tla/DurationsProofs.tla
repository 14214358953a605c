--------------------------- MODULE DurationsProofs ---------------------------
(***************************************************************************)
(* What the arithmetic of Durations gives, for integers of any width and   *)
(* clocks of any resolution.                                               *)
(***************************************************************************)
EXTENDS Durations, TLAPS

LEMMA CountsAreIntegers == Counts \subseteq Int /\ MaxCount \in Nat
BY DurationAssumption DEF Counts, MaxCount

\* Whatever overflows, the result is a value of the type.
LEMMA WrapInRange == \A x \in Int : Wrap(x) \in Counts
<1> SUFFICES ASSUME NEW x \in Int PROVE Wrap(x) \in Counts
  OBVIOUS
<1>1. Half \in Int /\ Half > 0
  BY DurationAssumption
<1>2. (x + Half) % (2 * Half) \in 0..(2 * Half - 1)
  BY <1>1
<1>3. QED
  BY <1>1, <1>2 DEF Wrap, Counts

\* What does not overflow is computed exactly.
LEMMA WrapFits == \A x \in Counts : Wrap(x) = x
<1> SUFFICES ASSUME NEW x \in Counts PROVE Wrap(x) = x
  OBVIOUS
<1>1. Half \in Int /\ Half > 0 /\ x \in Int
  BY DurationAssumption DEF Counts
<1>2. x + Half \in 0..(2 * Half - 1)
  BY <1>1 DEF Counts
<1>3. (x + Half) % (2 * Half) = x + Half
  BY <1>1, <1>2
<1>4. QED
  BY <1>1, <1>3 DEF Wrap

LEMMA InClockInRange == \A ms \in Nat : InClock(ms) \in Counts
<1> SUFFICES ASSUME NEW ms \in Nat PROVE InClock(ms) \in Counts
  OBVIOUS
<1>1. ms * NsPerMs \in Int
  BY DurationAssumption
<1>2. QED
  BY <1>1, WrapInRange DEF InClock

LEMMA LaterInRange == \A time \in Counts, ms \in Nat : Later(time, ms) \in Counts
<1> SUFFICES ASSUME NEW time \in Counts, NEW ms \in Nat PROVE Later(time, ms) \in Counts
  OBVIOUS
<1>1. time \in Int /\ InClock(ms) \in Int
  BY InClockInRange, CountsAreIntegers
<1>2. time + InClock(ms) \in Int
  BY <1>1
<1>3. QED
  BY <1>2, WrapInRange DEF Later

\* A number of milliseconds that fits the clock is converted exactly.
LEMMA InClockFits ==
    ASSUME NEW ms \in Nat, ms * NsPerMs < Half
    PROVE  InClock(ms) = ms * NsPerMs
<1>1. ms * NsPerMs \in Nat
  BY DurationAssumption
<1>2. ms * NsPerMs \in Counts
  BY <1>1, DurationAssumption DEF Counts
<1>3. QED
  BY <1>2, WrapFits DEF InClock

\* Adding times that fit together is adding milliseconds.
LEMMA LaterFits ==
    ASSUME NEW start \in Nat, NEW ms \in Nat, (start + ms) * NsPerMs < Half
    PROVE  Later(InClock(start), ms) = (start + ms) * NsPerMs
<1>1. /\ start * NsPerMs \in Nat /\ ms * NsPerMs \in Nat
      /\ (start + ms) * NsPerMs = start * NsPerMs + ms * NsPerMs
  BY DurationAssumption
<1>2. InClock(start) = start * NsPerMs /\ InClock(ms) = ms * NsPerMs
  <2>1. start * NsPerMs < Half /\ ms * NsPerMs < Half
    BY <1>1, DurationAssumption
  <2>2. QED
    BY <2>1, InClockFits
<1>3. start * NsPerMs + ms * NsPerMs \in Counts
  BY <1>1, DurationAssumption DEF Counts
<1>4. QED
  BY <1>1, <1>2, <1>3, WrapFits DEF Later

\* The quotient decides what fits.
LEMMA QuotientDecides ==
    ASSUME NEW m \in Nat, NEW k \in Nat \ {0}, NEW s \in Nat
    PROVE  s > m \div k <=> s * k > m
<1> DEFINE q == m \div k
<1>1. q \in Nat /\ q * k <= m /\ m < (q + 1) * k
  OBVIOUS
<1>2. CASE s <= q
  <2>1. s * k <= q * k
    BY <1>1, <1>2
  <2>2. QED
    BY <1>1, <1>2, <2>1
<1>3. CASE s > q
  <2>1. s * k >= (q + 1) * k
    BY <1>1, <1>3
  <2>2. QED
    BY <1>1, <1>3, <2>1
<1>4. QED
  BY <1>1, <1>2, <1>3

\* retry_after() gives a duration in milliseconds for every number of seconds a
\* server may send, and never wraps around.
THEOREM RetryAfterSaturates ==
    \A seconds \in Nat :
        /\ RetryAfter(seconds) \in 0..MaxCount
        /\ RetryAfter(seconds) =
              IF seconds * MsPerSecond <= MaxCount THEN seconds * MsPerSecond ELSE MaxCount
<1> SUFFICES ASSUME NEW seconds \in Nat
             PROVE  /\ RetryAfter(seconds) \in 0..MaxCount
                    /\ RetryAfter(seconds) = IF seconds * MsPerSecond <= MaxCount
                                             THEN seconds * MsPerSecond ELSE MaxCount
  OBVIOUS
<1>1. MaxCount \in Nat /\ MsPerSecond \in Nat \ {0} /\ seconds * MsPerSecond \in Nat
  BY CountsAreIntegers, DurationAssumption
<1>2. seconds > MaxCount \div MsPerSecond <=> seconds * MsPerSecond > MaxCount
  BY <1>1, QuotientDecides
<1>3. QED
  BY <1>1, <1>2 DEF RetryAfter
=============================================================================
