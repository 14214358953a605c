------------------------------ MODULE Durations ------------------------------
(***************************************************************************)
(* The arithmetic of <chrono> under src/client.cpp: milliseconds that      *)
(* become the clock's nanoseconds when they are added to a time, in        *)
(* integers that go from -Half to Half - 1.  The overflow of a signed      *)
(* integer wraps around, as the compilers the project builds with make it. *)
(***************************************************************************)
EXTENDS Integers

CONSTANTS Half,        \* 2^63
          NsPerMs,     \* 1000000
          MsPerSecond  \* 1000

ASSUME DurationAssumption ==
    /\ Half \in Nat \ {0}
    /\ NsPerMs \in Nat \ {0}
    /\ MsPerSecond \in Nat \ {0}

Counts == (-Half)..(Half - 1)
MaxCount == Half - 1
Wrap(x) == ((x + Half) % (2 * Half)) - Half

\* A time of the clock some milliseconds after another.
InClock(ms) == Wrap(ms * NsPerMs)
Later(time, ms) == Wrap(time + InClock(ms))

\* retry_after(): seconds as milliseconds, or the longest duration there is.
RetryAfter(seconds) ==
    IF seconds > MaxCount \div MsPerSecond THEN MaxCount ELSE seconds * MsPerSecond
=============================================================================
