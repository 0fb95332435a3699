------------------------------ MODULE TimeBase ------------------------------
(***************************************************************************)
(* TimeBase and TimeBase::Delta (src/base/time_base.h): a point in time    *)
(* and a signed offset, both an int64_t count of microseconds.  The        *)
(* operators are the ones the alarm code uses: the conversions it builds   *)
(* its constants and the epoll_wait timeout with, and the relational and   *)
(* additive operators, each on the int64_t it wraps.  The values reached   *)
(* (microseconds since the epoch) are far from 2^63, so no operator wraps. *)
(* Zero is the uninitialised time Alarm uses for "not set".                *)
(***************************************************************************)
EXTENDS Integers

\* TimeBase::zero(); isInitialized() is false for it alone.
TimeZero == 0
IsInitialized(t) == t # TimeZero

\* TimeBase::Delta::zero().
DeltaZero == 0

\* Delta::fromSeconds and Delta::fromMilliseconds.
FromSeconds(secs) == secs * 1000 * 1000
FromMilliseconds(ms) == ms * 1000

\* Delta::toMilliseconds: int64_t division, truncated toward zero.
ToMilliseconds(d) == IF d >= 0 THEN d \div 1000 ELSE -((-d) \div 1000)

\* Delta::toMicroseconds: the offset itself.
ToMicroseconds(d) == d

\* operator< and operator> of two Deltas.
DeltaLess(a, b) == a < b
DeltaGreater(a, b) == DeltaLess(b, a)

\* operator- of two Deltas.
DeltaSub(a, b) == a - b

\* operator< of two TimeBases, and operator>=, written as !(lhs < rhs).
TimeLess(a, b) == a < b
TimeGeq(a, b) == ~TimeLess(a, b)

\* TimeBase + Delta, and TimeBase - TimeBase, a Delta.
TimeAdd(t, d) == t + d
TimeSub(a, b) == a - b
=============================================================================
