--------------------------- MODULE FlowTimeProofs ---------------------------
(***************************************************************************)
(* The duration of a flow survives every way of telling its times, and a   *)
(* flow that is separated in intervals is tiled by its messages, which     *)
(* share its traffic in proportion, add up to it and are no more than its  *)
(* intervals: for every interval, limit, word size, time and amount.       *)
(***************************************************************************)
EXTENDS FlowTime, TLAPS

\* The full intervals of a flow whose duration was shortened to d.
Full(d) == d \div dInterval

\* What the probe says in uptimes hangs together.
FlowInv ==
  /\ flow \in Flows
  /\ flow.form = "switched" =>
       /\ flow.first <= flow.last /\ flow.last <= flow.export
       /\ flow.export - flow.uptime <= flow.first

\* What the fields of the record became.
Saved ==
  /\ time \in [export : 0..(Word - 1), uptime : 0..(Word - 1),
               first_switched : 0..(Word - 1), last_switched : 0..(Word - 1),
               first : 0..(Word - 1), last : 0..(Word - 1)]
  /\ time.export = flow.export
  /\ time.uptime = IF flow.ipfix THEN 0 ELSE flow.uptime
  /\ flow.form = "second" =>
       /\ time.first = flow.first /\ time.last = flow.last
       /\ time.first_switched = 0 /\ time.last_switched = 0
  /\ flow.form = "switched" =>
       /\ time.first = 0 /\ time.last = 0
       /\ time.first_switched = flow.first - (flow.export - flow.uptime)
       /\ time.last_switched = flow.last - (flow.export - flow.uptime)

\* The locals of time_split_flow.
Locals ==
  /\ first \in 0..(Word - 1) /\ last \in 0..(Word - 1)
  /\ dSwitched = W(last - first)

Stages == {"fields", "times", "whole", "split", "loop", "done", "nomem"}

Message == [time : Int, bytes : Int, pkts : Int]

\* Where the flow is in its way through the code.
Stage ==
  /\ pc \in Stages
  /\ nodes \in Seq(Message)
  /\ pc # "fields" => Saved
  /\ pc \notin {"fields", "times"} => Locals
  /\ pc \in {"fields", "times", "whole", "split"} =>
       nodes = <<>> /\ out = [bytes |-> 0, pkts |-> 0]
  /\ pc = "whole" => ~flow.separate
  /\ pc \in {"split", "loop", "nomem"} => flow.separate
  /\ pc = "done" /\ ~flow.separate => out = [bytes |-> flow.bytes, pkts |-> flow.pkts]

\* What is left of a flow after its full intervals.
part == IF shortened = 0 THEN 0 ELSE shortened % dInterval

\* The parts of an amount that a full interval and the last one carry.
Shared(total, per, end) ==
  \E f \in shares(total, part, shortened) :
    /\ per = interval_share(total, f, n_intervals).per
    /\ end = interval_share(total, f, n_intervals).end

Parted ==
  /\ split.dSwitched = shortened /\ cur \in Int
  /\ split.bytes_per \in Int /\ split.bytes \in Int
  /\ split.pkts_per \in Int /\ split.pkts \in Int
  /\ Shared(flow.bytes, split.bytes_per, split.bytes)
  /\ Shared(flow.pkts, split.pkts_per, split.pkts)

\* After k turns of the loop.
Turns(k) ==
  /\ k \in 0..(Full(shortened) + 1)
  /\ cur = first + k * dInterval
  /\ \A i \in 1..k : nodes[i].time = first + (k - i) * dInterval
  /\ \A i \in 1..k : i >= 2 \/ k <= Full(shortened) =>
       nodes[i].bytes = split.bytes_per /\ nodes[i].pkts = split.pkts_per
  /\ k <= Full(shortened) =>
       out = [bytes |-> k * split.bytes_per, pkts |-> k * split.pkts_per]
  /\ k = Full(shortened) + 1 =>
       out = [bytes |-> Full(shortened) * split.bytes_per + split.bytes,
              pkts |-> Full(shortened) * split.pkts_per + split.pkts]
  /\ pc = "done" => k = Full(shortened) + 1

\* The clock of the loop may pass the end by an interval without wrapping.
NoWrapEnd == first + shortened + dInterval < Word

\* The end itself has wrapped: it lies before the first packet.
WrappedEnd == first + shortened >= Word

Looping ==
  pc \in {"loop", "done", "nomem"} /\ flow.separate =>
    /\ Parted
    /\ NoWrapEnd => Turns(Len(nodes))
    /\ WrappedEnd => nodes = <<>> /\ cur = first

\* The inductive invariant.
TInv == FlowInv /\ Stage /\ Looping /\ DurationKept

-----------------------------------------------------------------------------
(* Arithmetic.                                                             *)

LEMMA Constants ==
  /\ dInterval \in Nat \ {0} /\ max_intervals \in Nat \ {0} /\ Far \in Nat
  /\ Milli \in Nat \ {0} /\ Now \in Nat /\ Far <= Now /\ Word \in Nat \ {0}
  /\ Now + Far + dInterval < Word /\ Now < Word
  BY FlowTimeAssumption

\* Arithmetic on uint64_t.
LEMMA WrapRange == ASSUME NEW x \in Int PROVE W(x) \in 0..(Word - 1)
<1>1. ASSUME NEW m \in Nat \ {0}, NEW y \in Int PROVE y % m \in 0..(m - 1)
  OBVIOUS
<1> QED
  BY <1>1, Constants DEF W

LEMMA NoWrap == ASSUME NEW x \in 0..(Word - 1) PROVE W(x) = x
<1>1. ASSUME NEW m \in Nat \ {0}, NEW y \in 0..(m - 1) PROVE y % m = y
  OBVIOUS
<1> QED
  BY <1>1, Constants DEF W

\* Quotient and remainder.
LEMMA DivMod ==
  ASSUME NEW m \in Nat \ {0}, NEW x \in Int
  PROVE  /\ x \div m \in Int /\ x % m \in 0..(m - 1)
         /\ m * (x \div m) <= x /\ x < m * (x \div m) + m
         /\ x % m = x - m * (x \div m)
<1>1. /\ x \div m \in Int /\ x % m \in 0..(m - 1)
      /\ m * (x \div m) <= x /\ x < m * (x \div m) + m
  OBVIOUS
<1>2. ASSUME NEW q \in Int, m * q <= x, x < m * q + m
      PROVE  x \div m = q /\ x % m = x - m * q
  BY <1>2
<1> QED
  BY <1>1, <1>2

LEMMA DivUnique ==
  ASSUME NEW m \in Nat \ {0}, NEW x \in Int, NEW q \in Int, m * q <= x, x < m * q + m
  PROVE  x \div m = q
  OBVIOUS

\* Products.
LEMMA Distribute ==
  ASSUME NEW a \in Int, NEW b \in Int, NEW c \in Int
  PROVE  /\ (a + b) * c = a * c + b * c /\ (a - b) * c = a * c - b * c
         /\ a * b = b * a /\ (a + 1) * b = a * b + b /\ a * b \in Int
         /\ 0 * a = 0 /\ 1 * a = a /\ (a * b) * c = a * (b * c)
  OBVIOUS

LEMMA Monotone ==
  ASSUME NEW a \in Int, NEW b \in Int, NEW c \in Nat, a <= b PROVE a * c <= b * c
  OBVIOUS

LEMMA Cancel ==
  ASSUME NEW a \in Int, NEW b \in Int, NEW c \in Nat \ {0}
  PROVE  /\ c * a > c * b => a > b
         /\ \A d \in Nat : c * a <= c * b + d => a <= b + d
  OBVIOUS

\* A multiple of the interval fits in d exactly when it has at most as many
\* intervals as d.
LEMMA FullIntervals ==
  ASSUME NEW d \in Nat, NEW k \in Nat
  PROVE  /\ Full(d) \in Nat /\ Full(d) * dInterval <= d
         /\ d < Full(d) * dInterval + dInterval
         /\ d - Full(d) * dInterval = d % dInterval
         /\ k * dInterval <= d <=> k <= Full(d)
<1> DEFINE N == Full(d)
<1>1. N \in Int /\ dInterval * N <= d /\ d < dInterval * N + dInterval
      /\ d % dInterval = d - dInterval * N
  BY Constants, DivMod DEF Full
<1> HIDE DEF N
<1>2. dInterval * N = N * dInterval /\ dInterval \in Nat \ {0}
  BY <1>1, Constants
<1>3. N \in Nat
  <2>1. ASSUME N <= -1 PROVE FALSE
    <3>1. N * dInterval <= (-1) * dInterval
      BY <2>1, <1>1, <1>2, Monotone
    <3> QED
      BY <3>1, <1>1, <1>2
  <2> QED
    BY <2>1, <1>1
<1>4. k <= N => k * dInterval <= N * dInterval
  BY <1>2, <1>3, Monotone
<1>5. k > N => (N + 1) * dInterval <= k * dInterval
  BY <1>2, <1>3, Monotone
<1>6. (N + 1) * dInterval = N * dInterval + dInterval
  BY <1>2, <1>3
<1>7. k * dInterval \in Nat /\ N * dInterval \in Nat
  BY <1>2, <1>3
<1> QED
  BY <1>1, <1>2, <1>3, <1>4, <1>5, <1>6, <1>7 DEF N
-----------------------------------------------------------------------------
(* The division of a flow.                                                 *)

\* The locals of rb_separate_long_time_flow are natural numbers.
LEMMA LocalTypes ==
  ASSUME Locals
  PROVE  /\ dSwitched \in 0..(Word - 1) /\ shortened \in Nat /\ n_intervals \in Nat
         /\ shortened <= dSwitched /\ dSwitched <= shortened + 1
         /\ part \in Nat /\ (shortened = 0 => part = 0)
         /\ InOrder => dSwitched = last - first /\ first + shortened <= last
<1>1. last - first \in Int /\ first \in Nat /\ last \in Nat /\ Word \in Nat
  BY Constants DEF Locals
<1>2. dSwitched \in 0..(Word - 1)
  BY <1>1, WrapRange DEF Locals
<1>3. dSwitched \in Nat
  BY <1>1, <1>2
<1>4. /\ shortened \in Nat /\ shortened <= dSwitched
      /\ dSwitched <= shortened + 1
  BY <1>3 DEF shortened
<1>5. part \in Nat /\ (shortened = 0 => part = 0)
  <2>1. shortened % dInterval \in 0..(dInterval - 1)
    BY <1>4, Constants, DivMod
  <2> QED
    BY <2>1, Constants DEF part
<1>6. n_intervals \in Nat
  <2>1. dSwitched \div dInterval \in Nat
    BY <1>3, FullIntervals DEF Full
  <2> QED
    BY <2>1, Constants DEF n_intervals
<1>7. InOrder => dSwitched = last - first
  <2>1. InOrder => last - first \in 0..(Word - 1)
    BY <1>1 DEF InOrder, Locals
  <2> QED
    BY <2>1, NoWrap DEF Locals
<1> QED
  BY <1>1, <1>2, <1>3, <1>4, <1>5, <1>6, <1>7

\* A proportional share through double is the exact one, or at most one short.
LEMMA ShareBounds ==
  ASSUME NEW total \in Nat, NEW p \in Nat, NEW whole \in Nat, whole = 0 => p = 0,
         NEW f \in shares(total, p, whole)
  PROVE  /\ f \in Int
         /\ p = whole => f = total
         /\ p # whole => f * whole <= total * p /\ f * whole >= total * p - whole
<1>1. CASE p = whole
  BY <1>1 DEF shares
<1>2. CASE p # whole
  <2> DEFINE x == total * p
             q == x \div whole
  <2>1. whole \in Nat \ {0} /\ x \in Int
    BY <1>2
  <2>2. /\ q \in Int /\ whole * q <= x /\ x < whole * q + whole
        /\ x % whole = x - whole * q
    BY <2>1, DivMod
  <2>3. f = q \/ (f = q - 1 /\ x % whole = 0)
    BY <1>2 DEF shares
  <2> HIDE DEF q, x
  <2>4. f \in Int
    BY <2>2, <2>3
  <2>5. q * whole = whole * q /\ (q - 1) * whole = whole * q - whole
    BY <2>1, <2>2, Distribute
  <2>6. whole * q \in Int
    BY <2>1, <2>2
  <2> QED
    BY <1>2, <2>1, <2>2, <2>3, <2>4, <2>5, <2>6 DEF x
<1> QED
  BY <1>1, <1>2

\* What the intervals carry is a number.
LEMMA ShareTypes ==
  ASSUME NEW total \in Nat, NEW f \in Int, NEW n \in Nat
  PROVE  /\ interval_share(total, f, n).per \in Int
         /\ interval_share(total, f, n).end \in Int
         /\ n * interval_share(total, f, n).per + interval_share(total, f, n).end = total
<1> DEFINE per == IF n > 0 THEN (total - f) \div n ELSE 0
<1>1. per \in Int
  BY DivMod
<1>2. n * per \in Int /\ per * n \in Int /\ n * per = per * n
  BY <1>1
<1>3. /\ interval_share(total, f, n).per = per
      /\ interval_share(total, f, n).end = f + (total - f - per * n)
  BY DEF interval_share
<1> HIDE DEF per
<1> QED
  BY <1>1, <1>2, <1>3

\* A flow that fits is divided by the number of its full intervals, unless the
\* last message takes all of it.
LEMMA Divided ==
  ASSUME Locals, Fits
  PROVE  \/ dSwitched <= dInterval /\ Full(shortened) = 0 /\ part = shortened
         \/ /\ dSwitched > dInterval /\ shortened = dSwitched
            /\ Full(shortened) = n_intervals /\ n_intervals \in Nat \ {0}
            /\ part # shortened
            /\ shortened = n_intervals * dInterval + part
<1> DEFINE d == dSwitched
           q == d \div dInterval
<1>0. d \in Nat /\ shortened \in Nat /\ shortened <= d
  BY LocalTypes
<1>1. dInterval \in Nat \ {0} /\ max_intervals \in Nat \ {0}
  BY Constants
<1>2. /\ q \in Nat /\ q * dInterval <= d /\ d < q * dInterval + dInterval
      /\ d - q * dInterval = d % dInterval
      /\ q * dInterval \in Nat
  BY <1>0, <1>1, FullIntervals DEF Full
<1>3. CASE d <= dInterval
  <2>1. shortened < dInterval
    <3>1. CASE d = dInterval
      <4>1. q = 1
        <5>1. dInterval * 1 <= d /\ d < dInterval * 1 + dInterval
          BY <3>1, <1>1
        <5> QED
          BY <5>1, <1>0, <1>1, DivUnique
      <4>2. d % dInterval = 0
        BY <4>1, <3>1, <1>1, <1>2
      <4> QED
        BY <4>2, <3>1, <1>0, <1>1 DEF shortened
    <3>2. CASE d < dInterval
      BY <3>2, <1>0, <1>1
    <3> QED
      BY <3>1, <3>2, <1>3, <1>0, <1>1
  <2>2. Full(shortened) = 0
    <3>1. dInterval * 0 <= shortened /\ shortened < dInterval * 0 + dInterval
      BY <2>1, <1>0, <1>1
    <3> QED
      BY <3>1, <1>0, <1>1, DivUnique DEF Full
  <2>3. shortened % dInterval = shortened
    <3>1. shortened - Full(shortened) * dInterval = shortened % dInterval
      BY <1>0, FullIntervals
    <3> QED
      BY <3>1, <2>2, <1>0, <1>1
  <2> QED
    BY <1>3, <2>2, <2>3 DEF part
<1>4. CASE d > dInterval
  <2>1. d % dInterval # 0
    BY <1>4, <1>0, <1>1 DEF Fits
  <2>2. shortened = d
    BY <2>1 DEF shortened
  <2>3. q <= max_intervals
    <3>1. d < (max_intervals + 1) * dInterval
      BY DEF Fits
    <3>2. q > max_intervals => (max_intervals + 1) * dInterval <= q * dInterval
      BY <1>1, <1>2, Monotone
    <3>3. (max_intervals + 1) * dInterval \in Int
      BY <1>1
    <3> QED
      BY <3>1, <3>2, <3>3, <1>0, <1>1, <1>2
  <2>4. n_intervals = q
    BY <2>3, <1>1, <1>2 DEF n_intervals
  <2>5. q # 0
    BY <1>2, <1>4, <1>0, <1>1
  <2>6. part = d - q * dInterval
    BY <2>2, <1>2, <1>4, <1>0, <1>1 DEF part
  <2>7. part < dInterval
    BY <2>6, <1>0, <1>1, <1>2
  <2> HIDE DEF q, d
  <2> QED
    BY <2>2, <2>4, <2>5, <2>6, <2>7, <1>0, <1>1, <1>2, <1>4 DEF Full, q, d
<1> QED
  BY <1>0, <1>1, <1>3, <1>4

\* Full intervals and the last one add up to the flow.
LEMMA PartsAddUp ==
  ASSUME Locals, Fits, NEW total \in Nat, NEW per, NEW end, Shared(total, per, end)
  PROVE  Full(shortened) * per + end = total
<1>0. /\ shortened \in Nat /\ n_intervals \in Nat /\ part \in Nat
      /\ shortened = 0 => part = 0
  BY LocalTypes
<1>1. PICK f \in shares(total, part, shortened) :
        /\ per = interval_share(total, f, n_intervals).per
        /\ end = interval_share(total, f, n_intervals).end
  BY DEF Shared
<1>2. f \in Int /\ (part = shortened => f = total)
  BY <1>0, ShareBounds
<1>3. per \in Int /\ end \in Int /\ n_intervals * per + end = total
  BY <1>0, <1>1, <1>2, ShareTypes
<1>4. CASE Full(shortened) = n_intervals
  BY <1>3, <1>4
<1>5. CASE Full(shortened) = 0 /\ part = shortened
  <2>1. f = total
    BY <1>2, <1>5
  <2>2. per = 0
    <3>1. CASE n_intervals > 0
      <4>1. n_intervals * 0 <= total - f /\ total - f < n_intervals * 0 + n_intervals
        BY <2>1, <3>1, <1>0
      <4>2. (total - f) \div n_intervals = 0
        BY <4>1, <3>1, <1>0, <1>2, DivUnique
      <4> QED
        BY <4>2, <1>1, <3>1 DEF interval_share
    <3>2. CASE ~(n_intervals > 0)
      BY <3>2, <1>1 DEF interval_share
    <3> QED
      BY <3>1, <3>2
  <2> QED
    BY <2>2, <1>0, <1>3, <1>5
<1> QED
  BY <1>4, <1>5, Divided

\* The share of a full interval, up to rounding.
LEMMA FairShare ==
  ASSUME Locals, Fits, dSwitched > dInterval,
         NEW total \in Nat, NEW per, NEW end, Shared(total, per, end)
  PROVE  /\ per * dSwitched > (total * dInterval) - dSwitched
         /\ per * dSwitched <= (total * dInterval) + dSwitched
<1> DEFINE d == dSwitched
           n == n_intervals
<1>0. /\ d \in Nat /\ part \in Nat /\ (shortened = 0 => part = 0)
      /\ dInterval \in Nat \ {0}
  BY LocalTypes, Constants
<1>1. /\ shortened = d /\ n \in Nat \ {0} /\ part # d /\ d = n * dInterval + part
  BY <1>0, Divided
<1>2. PICK f \in shares(total, part, d) : per = interval_share(total, f, n).per
  BY <1>1 DEF Shared
<1>3. f \in Int /\ f * d <= total * part /\ f * d >= total * part - d
  BY <1>0, <1>1, ShareBounds
<1>4. /\ per \in Int /\ n * per <= total - f /\ total - f < n * per + n
  <2>1. per = (total - f) \div n
    BY <1>1, <1>2 DEF interval_share
  <2>2. total - f \in Int
    BY <1>3
  <2> QED
    BY <2>1, <2>2, <1>1, DivMod
<1> HIDE DEF n, d
<1>5. d \in Nat \ {0}
  BY <1>0, <1>1
\* Both bounds, multiplied by d.
<1>6. /\ (n * per) * d <= (total - f) * d
      /\ (total - f - n + 1) * d <= (n * per) * d
  <2>1. n * per \in Int /\ total - f \in Int /\ total - f - n + 1 \in Int
        /\ total - f - n + 1 <= n * per
    BY <1>1, <1>3, <1>4
  <2> QED
    BY <2>1, <1>4, <1>5, Monotone
<1>7. /\ (n * per) * d = n * (per * d)
      /\ (total - f) * d = total * d - f * d
      /\ (total - f - n + 1) * d = total * d - f * d - n * d + d
      /\ total * d = n * (total * dInterval) + total * part
      /\ per * d \in Int /\ total * d \in Int /\ f * d \in Int /\ n * d \in Int
      /\ total * dInterval \in Int /\ total * part \in Int
      /\ n * (total * dInterval) \in Int /\ n * (per * d) \in Int
  <2>1. n \in Int /\ per \in Int /\ d \in Int /\ total \in Int /\ f \in Int
        /\ dInterval \in Int /\ part \in Int /\ total - f \in Int /\ total - f - n \in Int
    BY <1>0, <1>1, <1>3, <1>4, <1>5
  <2>2. /\ per * d \in Int /\ total * d \in Int /\ f * d \in Int /\ n * d \in Int
        /\ total * dInterval \in Int /\ total * part \in Int /\ n * dInterval \in Int
    BY <2>1, Distribute
  <2>3. n * (total * dInterval) \in Int /\ n * (per * d) \in Int
    BY <2>1, <2>2, Distribute
  <2>4. (n * per) * d = n * (per * d)
    BY <2>1, Distribute
  <2>5. (total - f) * d = total * d - f * d
    BY <2>1, Distribute
  <2>6. (total - f - n + 1) * d = (total - f - n) * d + d
    BY <2>1, Distribute
  <2>7. (total - f - n) * d = (total - f) * d - n * d
    BY <2>1, Distribute
  <2>8. total * d = total * (n * dInterval) + total * part
    <3>1. total * d = d * total /\ total * (n * dInterval) = (n * dInterval) * total
          /\ total * part = part * total
      BY <2>1, <2>2, Distribute
    <3>2. (n * dInterval + part) * total = (n * dInterval) * total + part * total
      BY <2>1, <2>2, Distribute
    <3> QED
      BY <3>1, <3>2, <1>1
  <2>9. total * (n * dInterval) = n * (total * dInterval)
    <3>1. total * (n * dInterval) = (total * n) * dInterval /\ total * n = n * total
          /\ (n * total) * dInterval = n * (total * dInterval)
      BY <2>1, Distribute
    <3> QED
      BY <3>1
  <2> QED
    BY <2>2, <2>3, <2>4, <2>5, <2>6, <2>7, <2>8, <2>9
<1>8. n * (per * d) <= n * (total * dInterval) + d
  BY <1>3, <1>5, <1>6, <1>7
<1>9. per * d <= total * dInterval + d
  BY <1>1, <1>5, <1>7, <1>8, Cancel
<1>10. n * (per * d) > n * (total * dInterval - d)
  <2>1. n * (total * dInterval - d) = n * (total * dInterval) - n * d
    <3>1. (total * dInterval - d) * n = (total * dInterval) * n - d * n
      BY <1>1, <1>5, <1>7, Distribute
    <3>2. /\ (total * dInterval) * n = n * (total * dInterval) /\ d * n = n * d
          /\ (total * dInterval - d) * n = n * (total * dInterval - d)
      BY <1>1, <1>5, <1>7, Distribute
    <3> QED
      BY <3>1, <3>2
  <2> QED
    BY <2>1, <1>3, <1>5, <1>6, <1>7
<1>11. per * d > total * dInterval - d
  BY <1>1, <1>5, <1>7, <1>10, Cancel
<1> QED
  BY <1>9, <1>11 DEF d
-----------------------------------------------------------------------------
(* The steps.                                                              *)

LEMMA InitTInv == Init => TInv
<1> SUFFICES ASSUME Init PROVE TInv
  OBVIOUS
<1>1. FlowInv
  BY DEF Init, FlowInv
<1>2. Stage
  BY DEF Init, Stage, Stages
<1>3. Looping /\ DurationKept
  BY DEF Init, Looping, DurationKept
<1> QED
  BY <1>1, <1>2, <1>3 DEF TInv

\* The types of a flow.
LEMMA FlowTypes ==
  ASSUME FlowInv
  PROVE  /\ flow.first \in 0..(Word - 1) /\ flow.last \in 0..(Word - 1)
         /\ flow.export \in 0..(Word - 1) /\ flow.uptime \in 0..(Word - 1)
         /\ flow.bytes \in Nat /\ flow.pkts \in Nat /\ flow.fallback \in Int
         /\ Milli * flow.uptime < Word /\ flow.form \in Forms
<1>1. /\ flow.first \in Times /\ flow.last \in Times /\ flow.export \in Exports
      /\ flow.uptime \in Uptimes /\ flow.bytes \in Amounts /\ flow.pkts \in Amounts
      /\ flow.fallback \in Fallbacks /\ flow.form \in Forms
  BY DEF FlowInv, Flows
<1> QED
  BY <1>1, FlowTimeAssumption

\* Milliseconds of uptime become seconds again.
LEMMA UptimeKept ==
  ASSUME NEW x \in Nat, NEW u \in Nat, x <= u, Milli * u < Word
  PROVE  save_x_switched(Milli * x) = x
<1>1. Milli \in Nat \ {0} /\ Word \in Nat
  BY Constants
<1>2. x * Milli <= u * Milli /\ x * Milli = Milli * x /\ u * Milli = Milli * u
  BY <1>1, Monotone, Distribute
<1>3. Milli * x \in Nat /\ Milli * u \in Nat
  BY <1>1
<1>4. W(Milli * x) = Milli * x
  BY <1>1, <1>2, <1>3, NoWrap
<1>5. (Milli * x) \div Milli = x
  BY <1>1, <1>3, DivUnique
<1> QED
  BY <1>4, <1>5 DEF save_x_switched

\* The fields of the record.
LEMMA SaveFieldsT == ASSUME TInv, SaveFields PROVE TInv'
<1> DEFINE boot == flow.export - flow.uptime
           stamp(x) == CASE flow.form = "second" -> x
                         [] flow.form = "msecond" -> callback_mili_buffer(Milli * x)
                         [] OTHER -> 0
           switched(x) == IF flow.form = "switched"
                          THEN save_x_switched(Milli * (x - boot)) ELSE 0
<1>0. /\ pc = "fields" /\ pc' = "times"
      /\ time' = [export |-> flow.export,
                  uptime |-> IF flow.ipfix THEN 0 ELSE flow.uptime,
                  first_switched |-> switched(flow.first),
                  last_switched |-> switched(flow.last),
                  first |-> stamp(flow.first), last |-> stamp(flow.last)]
      /\ UNCHANGED <<flow, first, last, dSwitched, split, cur, nodes, out>>
  BY DEF SaveFields
<1>1. FlowInv /\ Word \in Nat \ {0} /\ Milli \in Nat \ {0}
  BY Constants DEF TInv
<1>2. /\ flow.first \in 0..(Word - 1) /\ flow.last \in 0..(Word - 1)
      /\ flow.export \in 0..(Word - 1) /\ flow.uptime \in 0..(Word - 1)
      /\ Milli * flow.uptime < Word
      /\ flow.form = "switched" =>
           flow.first <= flow.last /\ flow.last <= flow.export /\ boot <= flow.first
  BY <1>1, FlowTypes DEF FlowInv
<1>3. ASSUME NEW x \in 0..(Word - 1),
             flow.form = "switched" => boot <= x /\ x <= flow.export
      PROVE  /\ stamp(x) \in 0..(Word - 1) /\ switched(x) \in 0..(Word - 1)
             /\ flow.form = "second" => stamp(x) = x /\ switched(x) = 0
             /\ flow.form = "switched" => stamp(x) = 0 /\ switched(x) = x - boot
  <2>1. Milli * x \in Int
    BY <1>1, <1>3
  <2>2. callback_mili_buffer(Milli * x) \in 0..(Word - 1)
    BY <2>1, WrapRange DEF callback_mili_buffer
  <2>3. 0 \in 0..(Word - 1)
    BY <1>1
  <2>4. flow.form = "switched" =>
          /\ x - boot \in Nat /\ flow.uptime \in Nat /\ x - boot <= flow.uptime
          /\ x - boot \in 0..(Word - 1)
    BY <1>1, <1>2, <1>3
  <2> HIDE DEF boot
  <2>5. flow.form = "switched" => save_x_switched(Milli * (x - boot)) = x - boot
    BY <2>4, <1>2, UptimeKept
  <2> QED
    BY <2>2, <2>3, <2>4, <2>5, <1>3
<1>4. flow.form = "switched" =>
        /\ boot <= flow.last /\ flow.first <= flow.export
        /\ boot <= flow.first /\ flow.last <= flow.export
  BY <1>1, <1>2
<1> HIDE DEF stamp, switched
<1>5. Saved'
  BY <1>0, <1>1, <1>2, <1>3, <1>4 DEF Saved
<1>6. Stage'
  BY <1>0, <1>5 DEF TInv, Stage, Stages
<1>7. FlowInv' /\ Looping' /\ DurationKept'
  BY <1>0 DEF TInv, FlowInv, Looping, DurationKept
<1> QED
  BY <1>6, <1>7 DEF TInv

\* The first and last time, and with them the duration.
LEMMA TimestampsT == ASSUME TInv, Timestamps PROVE TInv'
<1> DEFINE export == IF time.export = 0 THEN Now ELSE time.export
           actual_last ==
             CASE time.last # 0 -> time.last
               [] time.last = 0 /\ time.uptime # 0 /\ time.last_switched # 0 ->
                    W(export - time.uptime + time.last_switched)
               [] OTHER -> export
           actual_first ==
             CASE time.first # 0 -> time.first
               [] time.first = 0 /\ time.uptime # 0 /\ time.first_switched # 0 ->
                    W(export - time.uptime + time.first_switched)
               [] OTHER -> W(export - time.last_switched + time.first_switched)
           l == sanitize_timestamp(actual_last, 0, 0)
           f == sanitize_timestamp(actual_first, flow.fallback, l)
<1>0. /\ pc = "times" /\ pc' = IF flow.separate THEN "split" ELSE "whole"
      /\ last' = l /\ first' = f /\ dSwitched' = W(l - f)
      /\ UNCHANGED <<flow, time, split, cur, nodes, out>>
  BY DEF Timestamps
<1>1. /\ FlowInv /\ Saved /\ Word \in Nat \ {0} /\ Now \in 0..(Word - 1) /\ Far \in Nat
      /\ Now + Far + dInterval < Word /\ Far <= Now /\ dInterval \in Nat
  BY <1>0, Constants DEF TInv, Stage
<1>2. /\ time.export \in 0..(Word - 1) /\ time.uptime \in 0..(Word - 1)
      /\ time.first_switched \in 0..(Word - 1) /\ time.last_switched \in 0..(Word - 1)
      /\ time.first \in 0..(Word - 1) /\ time.last \in 0..(Word - 1)
  BY <1>1 DEF Saved
<1>3. export \in 0..(Word - 1)
  BY <1>1, <1>2
<1> HIDE DEF export
<1>4. actual_last \in 0..(Word - 1)
  <2>1. export - time.uptime + time.last_switched \in Int
    BY <1>1, <1>2, <1>3
  <2>2. W(export - time.uptime + time.last_switched) \in 0..(Word - 1)
    BY <2>1, WrapRange
  <2> QED
    BY <2>2, <1>2, <1>3
<1>5. actual_first \in 0..(Word - 1)
  <2>1. /\ export - time.uptime + time.first_switched \in Int
        /\ export - time.last_switched + time.first_switched \in Int
    BY <1>1, <1>2, <1>3
  <2>2. /\ W(export - time.uptime + time.first_switched) \in 0..(Word - 1)
        /\ W(export - time.last_switched + time.first_switched) \in 0..(Word - 1)
    BY <2>1, WrapRange
  <2> QED
    BY <2>2, <1>2
<1>6. ASSUME NEW t \in 0..(Word - 1), NEW b \in Int, NEW u
      PROVE  /\ sanitize_timestamp(t, b, u) \in 0..(Word - 1)
             /\ Near(t) /\ b = 0 => sanitize_timestamp(t, b, u) = t
  <2>1. t + b \in Int
    BY <1>1
  <2>2. W(t + b) \in 0..(Word - 1)
    BY <2>1, WrapRange
  <2>3. Near(t) => ~(t > Now + Far \/ t < Now - Far)
    BY <1>1 DEF Near
  <2> QED
    BY <2>2, <2>3, <1>1 DEF sanitize_timestamp
<1> HIDE DEF actual_first, actual_last
<1>7. l \in 0..(Word - 1)
  BY <1>4, <1>6
<1>8. f \in 0..(Word - 1)
  <2>1. flow.fallback \in Int
    BY <1>1, FlowTypes
  <2> QED
    BY <1>5, <1>6, <2>1
<1>9. Stage'
  <2>1. Saved' /\ Locals'
    BY <1>0, <1>1, <1>7, <1>8 DEF Saved, Locals, W
  <2> QED
    BY <1>0, <2>1 DEF TInv, Stage, Stages
<1>10. ASSUME flow.form \in {"second", "switched"}, flow.fallback = 0,
              time.first + time.first_switched > 0, flow.first <= flow.last,
              Near(flow.first), Near(flow.last), Near(flow.export),
              Near(flow.export - (flow.last - flow.first))
       PROVE  W(l - f) = flow.last - flow.first
  <2>0. /\ flow.first \in 0..(Word - 1) /\ flow.last \in 0..(Word - 1)
        /\ flow.export \in 0..(Word - 1) /\ flow.uptime \in 0..(Word - 1)
        /\ flow.first <= flow.last /\ flow.last - flow.first \in 0..(Word - 1)
        /\ flow.form = "switched" =>
             flow.last <= flow.export /\ flow.export - flow.uptime <= flow.first
    BY <1>1, <1>10, FlowTypes DEF FlowInv
  <2>1. CASE actual_last = flow.last /\ actual_first = flow.first
    <3>1. l = flow.last /\ f = flow.first
      BY <2>1, <1>4, <1>5, <1>6, <1>10
    <3> QED
      BY <3>1, <2>0, NoWrap
  <2>2. CASE actual_last = flow.export
             /\ actual_first = flow.export - (flow.last - flow.first)
    <3>1. l = flow.export /\ f = flow.export - (flow.last - flow.first)
      BY <2>2, <1>4, <1>5, <1>6, <1>10
    <3>2. l - f = flow.last - flow.first
      BY <3>1, <2>0
    <3> QED
      BY <3>2, <2>0, NoWrap
  <2>3. CASE actual_last = actual_first /\ flow.last = flow.first
    <3>1. l = sanitize_timestamp(actual_first, 0, 0) /\ l = f
      BY <2>3, <1>10 DEF sanitize_timestamp
    <3>2. l - f = 0 /\ flow.last - flow.first = 0
      BY <3>1, <1>7, <2>3, <2>0
    <3> QED
      BY <3>2, <2>0, NoWrap
  <2>4. CASE flow.form = "second"
    <3>1. time.first = flow.first /\ time.last = flow.last /\ time.first_switched = 0
      BY <2>4, <1>1 DEF Saved
    <3>2. time.first # 0 /\ time.last # 0
      BY <3>1, <1>10, <2>0
    <3>3. actual_last = flow.last /\ actual_first = flow.first
      BY <3>1, <3>2 DEF actual_last, actual_first
    <3> QED
      BY <3>3, <2>1
  <2>5. CASE flow.form = "switched"
    <3>1. /\ time.first = 0 /\ time.last = 0 /\ time.export = flow.export
          /\ time.first_switched = flow.first - (flow.export - flow.uptime)
          /\ time.last_switched = flow.last - (flow.export - flow.uptime)
          /\ time.uptime = IF flow.ipfix THEN 0 ELSE flow.uptime
      BY <2>5, <1>1 DEF Saved
    <3>2. time.first_switched # 0 /\ time.last_switched # 0 /\ flow.uptime # 0
      BY <2>5, <3>1, <1>2, <1>10, <2>0
    <3>3. CASE flow.ipfix
      <4>1. actual_last = export
        BY <3>1, <3>3, <1>2 DEF actual_last
      <4>2. actual_first = W(export - time.last_switched + time.first_switched)
        BY <3>1, <3>3, <1>2 DEF actual_first
      <4>3. export - time.last_switched + time.first_switched
              = export - (flow.last - flow.first)
        BY <3>1, <1>3, <2>0
      <4>4. CASE flow.export # 0
        <5>1. export = flow.export
          BY <4>4, <3>1 DEF export
        <5>2. export - (flow.last - flow.first) \in 0..(Word - 1)
          BY <5>1, <1>1, <1>10, <2>0 DEF Near
        <5> QED
          BY <5>1, <5>2, <4>1, <4>2, <4>3, NoWrap, <2>2
      <4>5. CASE flow.export = 0
        <5>1. flow.last = flow.first /\ export - (flow.last - flow.first) = export
          BY <2>5, <4>5, <1>3, <2>0
        <5> QED
          BY <5>1, <4>1, <4>2, <4>3, <1>3, NoWrap, <2>3
      <4> QED
        BY <4>4, <4>5
    <3>4. CASE ~flow.ipfix
      <4>1. /\ actual_last = W(export - time.uptime + time.last_switched)
            /\ actual_first = W(export - time.uptime + time.first_switched)
            /\ time.uptime = flow.uptime
        BY <3>1, <3>2, <3>4, <1>2 DEF actual_last, actual_first
      <4>2. CASE flow.export # 0
        <5>1. export = flow.export
          BY <4>2, <3>1 DEF export
        <5>2. /\ export - time.uptime + time.last_switched = flow.last
              /\ export - time.uptime + time.first_switched = flow.first
          BY <5>1, <4>1, <3>1, <2>0
        <5> QED
          BY <5>2, <4>1, <2>0, NoWrap, <2>1
      <4>3. CASE flow.export = 0
        <5>1. flow.last = flow.first
          BY <2>5, <4>3, <2>0
        <5>2. time.last_switched = time.first_switched
          BY <5>1, <3>1
        <5> QED
          BY <5>1, <5>2, <4>1, <2>3
      <4> QED
        BY <4>2, <4>3
    <3> QED
      BY <3>3, <3>4
  <2> QED
    BY <1>10, <2>4, <2>5
<1> HIDE DEF l, f
<1>11. DurationKept'
  BY <1>0, <1>10 DEF DurationKept, Near
<1>12. FlowInv' /\ Looping'
  BY <1>0 DEF TInv, FlowInv, Looping
<1> QED
  BY <1>9, <1>11, <1>12 DEF TInv
\* A flow that is not separated is one message.
LEMMA WholeT == ASSUME TInv, Whole PROVE TInv'
<1>0. /\ pc = "whole" /\ pc' = "done"
      /\ nodes' = <<[time |-> W(first + dSwitched), bytes |-> flow.bytes,
                     pkts |-> flow.pkts]>>
      /\ out' = [bytes |-> flow.bytes, pkts |-> flow.pkts]
      /\ UNCHANGED <<flow, time, first, last, dSwitched, split, cur>>
  BY DEF Whole
<1>1. FlowInv /\ Locals /\ Saved /\ ~flow.separate
  BY <1>0 DEF TInv, Stage
<1>2. nodes' \in Seq(Message)
  <2>1. dSwitched \in 0..(Word - 1) /\ Word \in Nat /\ first \in Int
    BY <1>1, LocalTypes, Constants DEF Locals
  <2>2. first + dSwitched \in Int
    BY <2>1
  <2>3. W(first + dSwitched) \in Int /\ flow.bytes \in Int /\ flow.pkts \in Int
    BY <1>1, <2>1, <2>2, WrapRange, FlowTypes
  <2> QED
    BY <1>0, <2>3 DEF Message
<1>3. Stage'
  BY <1>0, <1>1, <1>2 DEF Stage, Stages, Saved, Locals, W
<1>4. FlowInv' /\ Looping' /\ DurationKept'
  BY <1>0, <1>1 DEF TInv, FlowInv, Looping, DurationKept, Near
<1> QED
  BY <1>3, <1>4 DEF TInv

\* The division of the flow, before the loop.
LEMMA SplitBeginT == ASSUME TInv, SplitBegin PROVE TInv'
<1>0. /\ pc = "split" /\ pc' = "loop" /\ cur' = first
      /\ \E fb \in shares(flow.bytes, part, shortened),
            fp \in shares(flow.pkts, part, shortened) :
           split' = [n |-> n_intervals, dSwitched |-> shortened,
                     bytes |-> interval_share(flow.bytes, fb, n_intervals).end,
                     pkts |-> interval_share(flow.pkts, fp, n_intervals).end,
                     bytes_per |-> interval_share(flow.bytes, fb, n_intervals).per,
                     pkts_per |-> interval_share(flow.pkts, fp, n_intervals).per]
      /\ UNCHANGED <<flow, time, first, last, dSwitched, nodes, out>>
  BY DEF SplitBegin, part
<1>1. /\ FlowInv /\ Locals /\ Saved /\ nodes = <<>>
      /\ out = [bytes |-> 0, pkts |-> 0] /\ flow.separate
  BY <1>0 DEF TInv, Stage
<1>2. /\ shortened \in Nat /\ n_intervals \in Nat /\ part \in Nat
      /\ (shortened = 0 => part = 0)
  BY <1>1, LocalTypes
<1>3. flow.bytes \in Nat /\ flow.pkts \in Nat
  BY <1>1, FlowTypes
<1>4. /\ shortened' = shortened /\ part' = part /\ n_intervals' = n_intervals
      /\ NoWrapEnd' = NoWrapEnd /\ WrappedEnd' = WrappedEnd
  BY <1>0 DEF shortened, part, n_intervals, NoWrapEnd, WrappedEnd
<1>5. PICK fb \in shares(flow.bytes, part, shortened),
           fp \in shares(flow.pkts, part, shortened) :
        split' = [n |-> n_intervals, dSwitched |-> shortened,
                  bytes |-> interval_share(flow.bytes, fb, n_intervals).end,
                  pkts |-> interval_share(flow.pkts, fp, n_intervals).end,
                  bytes_per |-> interval_share(flow.bytes, fb, n_intervals).per,
                  pkts_per |-> interval_share(flow.pkts, fp, n_intervals).per]
  BY <1>0
<1>6. fb \in Int /\ fp \in Int
  BY <1>2, <1>3, ShareBounds
<1>7. /\ interval_share(flow.bytes, fb, n_intervals).end \in Int
      /\ interval_share(flow.bytes, fb, n_intervals).per \in Int
      /\ interval_share(flow.pkts, fp, n_intervals).end \in Int
      /\ interval_share(flow.pkts, fp, n_intervals).per \in Int
  BY <1>2, <1>3, <1>6, ShareTypes
<1>8. /\ split'.dSwitched = shortened
      /\ split'.bytes = interval_share(flow.bytes, fb, n_intervals).end
      /\ split'.pkts = interval_share(flow.pkts, fp, n_intervals).end
      /\ split'.bytes_per = interval_share(flow.bytes, fb, n_intervals).per
      /\ split'.pkts_per = interval_share(flow.pkts, fp, n_intervals).per
  BY <1>5
<1>9. Shared(flow.bytes, split'.bytes_per, split'.bytes)
        /\ Shared(flow.pkts, split'.pkts_per, split'.pkts)
  BY <1>8 DEF Shared
<1>10. Parted'
  <2>1. /\ Shared(flow.bytes, split.bytes_per, split.bytes)'
        /\ Shared(flow.pkts, split.pkts_per, split.pkts)'
    BY <1>0, <1>4, <1>9 DEF Shared
  <2> QED
    BY <1>0, <1>1, <1>4, <1>7, <1>8, <2>1, Constants DEF Parted, Locals
<1>11. Turns(Len(nodes))'
  <2>1. Full(shortened) \in Nat /\ dInterval \in Nat /\ Len(nodes') = 0
    BY <1>0, <1>1, <1>2, FullIntervals, Constants
  <2>2. /\ split'.bytes_per \in Int /\ split'.pkts_per \in Int /\ first \in Int
    BY <1>7, <1>8, <1>1, Constants DEF Locals
  <2>3. /\ 0 * dInterval = 0 /\ 0 * split'.bytes_per = 0 /\ 0 * split'.pkts_per = 0
    BY <2>1, <2>2
  <2> QED
    BY <1>0, <1>1, <1>4, <2>1, <2>2, <2>3 DEF Turns, Full
<1>12. Stage'
  BY <1>0, <1>1 DEF TInv, Stage, Stages, Saved, Locals, W
<1>13. FlowInv' /\ DurationKept'
  BY <1>0 DEF TInv, FlowInv, DurationKept, Near
<1>14. nodes' = <<>> /\ cur' = first'
  BY <1>0, <1>1
<1> QED
  BY <1>10, <1>11, <1>12, <1>13, <1>14 DEF TInv, Looping

\* A step that leaves the flow and its division alone.
LEMMA SameFlow ==
  ASSUME TInv, UNCHANGED <<flow, time, first, last, dSwitched, split>>,
         pc = "loop", pc' \in {"loop", "done", "nomem"}, nodes' \in Seq(Message),
         cur' \in Int
  PROVE  /\ FlowInv' /\ Stage' /\ DurationKept' /\ Parted'
         /\ shortened' = shortened /\ (NoWrapEnd' <=> NoWrapEnd)
         /\ (WrappedEnd' <=> WrappedEnd)
         /\ Parted /\ Locals /\ flow.separate
<1>1. FlowInv' /\ DurationKept'
  BY DEF TInv, FlowInv, DurationKept, Near
<1>2. /\ Parted /\ Locals /\ Saved /\ flow.separate
  BY DEF TInv, Stage, Looping
<1>3. /\ shortened' = shortened /\ part' = part /\ n_intervals' = n_intervals
      /\ NoWrapEnd' = NoWrapEnd /\ WrappedEnd' = WrappedEnd
  BY DEF shortened, part, n_intervals, NoWrapEnd, WrappedEnd
<1>4. Parted'
  BY <1>2, <1>3 DEF Parted, Shared
<1>5. Stage'
  BY <1>2 DEF Stage, Stages, Saved, Locals, W
<1> QED
  BY <1>1, <1>2, <1>3, <1>4, <1>5

\* How the clock of the loop relates to the intervals left.
LEMMA Clock ==
  ASSUME TInv, pc = "loop", NoWrapEnd, NEW k, k = Len(nodes)
  PROVE  /\ Turns(k) /\ k \in Nat /\ cur \in Nat
         /\ Full(shortened) \in Nat
         /\ cur <= end_time <=> k <= Full(shortened)
         /\ cur <= end_time => /\ W(cur + dInterval) = cur + dInterval
                               /\ is_last <=> k = Full(shortened)
<1> DEFINE N == Full(shortened)
<1>1. Parted /\ Turns(k) /\ Locals
  BY DEF TInv, Stage, Looping
<1>2. /\ shortened \in Nat /\ dInterval \in Nat \ {0}
      /\ first \in 0..(Word - 1) /\ Word \in Nat
      /\ first + shortened + dInterval < Word
  BY <1>1, LocalTypes, Constants DEF Locals, NoWrapEnd
<1>3. k \in Nat /\ N \in Nat /\ k <= N + 1 /\ cur = first + k * dInterval
  BY <1>1, <1>2, FullIntervals DEF Turns
<1>4. end_time = first + shortened
  <2>1. first + shortened \in 0..(Word - 1)
    BY <1>2
  <2> QED
    BY <2>1, <1>1, NoWrap DEF end_time, Parted
<1>5. k * dInterval \in Nat /\ (k + 1) * dInterval = k * dInterval + dInterval
  BY <1>2, <1>3
<1>6. /\ k * dInterval <= shortened <=> k <= N
      /\ (k + 1) * dInterval <= shortened <=> k + 1 <= N
  <2>1. k + 1 \in Nat
    BY <1>3
  <2> QED
    BY <2>1, <1>2, <1>3, FullIntervals
<1>7. cur \in Nat /\ (cur <= end_time <=> k <= N)
  BY <1>2, <1>3, <1>4, <1>5, <1>6
<1>8. ASSUME cur <= end_time
      PROVE  W(cur + dInterval) = cur + dInterval /\ (is_last <=> k = N)
  <2>1. cur + dInterval \in 0..(Word - 1)
    BY <1>2, <1>4, <1>7, <1>8
  <2>2. W(cur + dInterval) = cur + dInterval
    BY <2>1, NoWrap
  <2>3. cur + dInterval > end_time <=> ~(k + 1 <= N)
    BY <1>2, <1>3, <1>4, <1>5, <1>6
  <2> QED
    BY <2>2, <2>3, <1>3, <1>7, <1>8 DEF is_last
<1> QED
  BY <1>1, <1>3, <1>7, <1>8

\* An end that has wrapped leaves nothing to do for the loop.
LEMMA StuckEnd == ASSUME TInv, pc = "loop", cur <= end_time PROVE ~WrappedEnd
<1> SUFFICES ASSUME WrappedEnd PROVE FALSE
  OBVIOUS
<1>1. Parted /\ Locals /\ cur = first
  BY DEF TInv, Stage, Looping
<1>2. /\ shortened \in Nat /\ shortened < Word /\ Word \in Nat \ {0}
      /\ first \in 0..(Word - 1) /\ first + shortened >= Word
  BY <1>1, LocalTypes, Constants DEF Locals, WrappedEnd
<1>3. W(first + shortened) = first + shortened - Word
  <2>1. ASSUME NEW m \in Nat \ {0}, NEW x \in m..(m + m - 1) PROVE x % m = x - m
    OBVIOUS
  <2> QED
    BY <2>1, <1>2 DEF W
<1>4. end_time = first + shortened - Word
  BY <1>1, <1>3 DEF end_time, Parted
<1> QED
  BY <1>1, <1>2, <1>4

\* A flow in order does not wrap.
LEMMA OrderNoWrap == ASSUME Locals, InOrder PROVE NoWrapEnd
  BY LocalTypes, Constants DEF Locals, InOrder, NoWrapEnd

\* A message at the front of the list.
LEMMA Pushed ==
  ASSUME NEW q \in Seq(Message), NEW e \in Message
  PROVE  /\ <<e>> \o q \in Seq(Message) /\ Len(<<e>> \o q) = Len(q) + 1
         /\ (<<e>> \o q)[1] = e
         /\ \A i \in 2..(Len(q) + 1) : i - 1 \in 1..Len(q) /\ (<<e>> \o q)[i] = q[i - 1]
  OBVIOUS

\* A turn of the loop.
LEMMA TurnT == ASSUME TInv, SplitInterval \/ SplitLast PROVE TInv'
<1> DEFINE b == IF is_last THEN split.bytes ELSE split.bytes_per
           p == IF is_last THEN split.pkts ELSE split.pkts_per
           e == [time |-> cur, bytes |-> b, pkts |-> p]
           k == Len(nodes)
           N == Full(shortened)
<1>0. /\ pc = "loop" /\ pc' = "loop" /\ cur <= end_time
      /\ nodes' = <<e>> \o nodes
      /\ out' = [bytes |-> out.bytes + b, pkts |-> out.pkts + p]
      /\ cur' = W(cur + dInterval)
      /\ UNCHANGED <<flow, time, first, last, dSwitched, split>>
  BY DEF SplitInterval, SplitLast, push
<1>1. Parted /\ nodes \in Seq(Message) /\ Locals
  BY <1>0 DEF TInv, Stage, Looping
<1>2. b \in Int /\ p \in Int
  BY <1>1 DEF Parted
<1>3. cur \in Int /\ cur' \in Int
  <2>1. cur \in Int /\ cur + dInterval \in Int /\ Word \in Nat
    BY <1>1, Constants DEF Parted
  <2> QED
    BY <1>0, <2>1, WrapRange
<1>4. e \in Message
  BY <1>2, <1>3 DEF Message
<1> HIDE DEF e
<1>5. /\ nodes' \in Seq(Message) /\ Len(nodes') = k + 1 /\ nodes'[1] = e /\ k \in Nat
      /\ \A i \in 2..(k + 1) : i - 1 \in 1..k /\ nodes'[i] = nodes[i - 1]
  BY <1>0, <1>1, <1>4, Pushed
<1>6. /\ FlowInv' /\ Stage' /\ DurationKept' /\ Parted' /\ shortened' = shortened
      /\ (NoWrapEnd' <=> NoWrapEnd)
         /\ (WrappedEnd' <=> WrappedEnd) /\ flow.separate
  BY <1>0, <1>3, <1>5, SameFlow
<1>7. ASSUME NoWrapEnd PROVE Turns(Len(nodes))'
  <2>1. /\ Turns(k) /\ cur \in Nat /\ N \in Nat /\ k <= N
        /\ W(cur + dInterval) = cur + dInterval /\ (is_last <=> k = N)
    BY <1>0, <1>7, Clock
  <2>2. N' = N
    BY <1>6 DEF Full
  <2>3. /\ dInterval \in Nat \ {0} /\ first \in Int
        /\ split.bytes_per \in Int /\ split.pkts_per \in Int
        /\ split.bytes \in Int /\ split.pkts \in Int
    BY <1>1, Constants DEF Parted, Locals
  <2>4. e.time = cur /\ e.bytes = b /\ e.pkts = p
    BY DEF e
  <2> HIDE DEF N, k
  <2>5. k + 1 \in 0..(N + 1)
    BY <2>1, <1>5
  <2>6. cur' = first + (k + 1) * dInterval
    <3>1. (k + 1) * dInterval = k * dInterval + dInterval /\ k * dInterval \in Int
      BY <2>3, <1>5, Distribute
    <3>2. cur = first + k * dInterval
      BY <2>1 DEF Turns
    <3> QED
      BY <3>1, <3>2, <2>1, <2>3, <1>0
  <2>7. ASSUME NEW i \in 1..(k + 1)
        PROVE  nodes'[i].time = first + (k + 1 - i) * dInterval
    <3>1. CASE i = 1
      <4>1. cur = first + k * dInterval /\ k + 1 - i = k
        BY <2>1, <3>1, <1>5 DEF Turns
      <4> QED
        BY <4>1, <3>1, <2>4, <1>5
    <3>2. CASE i \in 2..(k + 1)
      <4>1. i - 1 \in 1..k /\ nodes'[i] = nodes[i - 1] /\ k - (i - 1) = k + 1 - i
        BY <3>2, <1>5
      <4>2. nodes[i - 1].time = first + (k - (i - 1)) * dInterval
        BY <4>1, <2>1 DEF Turns
      <4> QED
        BY <4>1, <4>2
    <3> QED
      BY <3>1, <3>2, <1>5
  <2>8. ASSUME NEW i \in 1..(k + 1), i >= 2 \/ k + 1 <= N
        PROVE  nodes'[i].bytes = split.bytes_per /\ nodes'[i].pkts = split.pkts_per
    <3>1. CASE i = 1
      <4>1. ~is_last
        BY <2>8, <3>1, <2>1, <1>5
      <4> QED
        BY <4>1, <3>1, <2>4, <1>5
    <3>2. CASE i \in 2..(k + 1)
      <4>1. i - 1 \in 1..k /\ nodes'[i] = nodes[i - 1]
        BY <3>2, <1>5
      <4> QED
        BY <4>1, <2>1 DEF Turns, N
    <3> QED
      BY <3>1, <3>2, <1>5
  <2>9. out = [bytes |-> k * split.bytes_per, pkts |-> k * split.pkts_per]
    BY <2>1 DEF Turns, N
  <2>10. out' = [bytes |-> k * split.bytes_per + b, pkts |-> k * split.pkts_per + p]
    BY <1>0, <2>9
  <2>11. CASE k + 1 <= N
    <3>1. b = split.bytes_per /\ p = split.pkts_per
      BY <2>11, <2>1, <1>5
    <3>2. /\ (k + 1) * split.bytes_per = k * split.bytes_per + split.bytes_per
          /\ (k + 1) * split.pkts_per = k * split.pkts_per + split.pkts_per
      <4>1. \A x, y \in Int : (x + 1) * y = x * y + y
        BY Distribute
      <4>2. k \in Int
        BY <1>5
      <4> QED
        BY <4>1, <4>2, <2>3
    <3>3. out' = [bytes |-> (k + 1) * split.bytes_per,
                  pkts |-> (k + 1) * split.pkts_per] /\ k + 1 # N + 1
      BY <3>1, <3>2, <2>10, <2>11, <2>1, <1>5
    <3> QED
      BY <3>3, <2>2, <2>5, <2>6, <2>7, <2>8, <2>11, <1>0, <1>5 DEF Turns, N
  <2>12. CASE ~(k + 1 <= N)
    <3>1. k = N /\ b = split.bytes /\ p = split.pkts
      BY <2>12, <2>1, <1>5
    <3>2. out' = [bytes |-> N * split.bytes_per + split.bytes,
                  pkts |-> N * split.pkts_per + split.pkts]
      BY <3>1, <2>10
    <3>3. ~(k + 1 <= N) /\ k + 1 = N + 1
      BY <3>1, <2>12
    <3>4. /\ k + 1 \in 0..(N' + 1)
          /\ \A i \in 1..(k + 1) : i >= 2 \/ k + 1 <= N' =>
               nodes'[i].bytes = split'.bytes_per /\ nodes'[i].pkts = split'.pkts_per
      BY <2>2, <2>5, <2>8, <1>0
    <3>5. out' = [bytes |-> N' * split'.bytes_per + split'.bytes,
                  pkts |-> N' * split'.pkts_per + split'.pkts]
      BY <3>2, <2>2, <1>0
    <3> QED
      BY <3>3, <3>4, <3>5, <2>2, <2>6, <2>7, <1>0, <1>5 DEF Turns, N
  <2> QED
    BY <2>11, <2>12
<1>8. ~WrappedEnd
  BY <1>0, StuckEnd
<1> QED
  BY <1>0, <1>6, <1>7, <1>8 DEF TInv, Looping

\* The loop ends, or gives up for want of memory.
LEMMA LoopEndT == ASSUME TInv, SplitEnd \/ SplitNoMemory PROVE TInv'
<1>0. /\ pc = "loop"
      /\ \/ pc' = "done" /\ cur > end_time
         \/ pc' = "nomem"
      /\ UNCHANGED <<flow, time, first, last, dSwitched, split, cur, nodes, out>>
  BY DEF SplitEnd, SplitNoMemory
<1>1. /\ FlowInv' /\ Stage' /\ DurationKept' /\ Parted' /\ shortened' = shortened
      /\ (NoWrapEnd' <=> NoWrapEnd)
         /\ (WrappedEnd' <=> WrappedEnd) /\ flow.separate /\ Parted
  <2>1. nodes' \in Seq(Message) /\ cur' \in Int
    BY <1>0 DEF TInv, Stage, Looping, Parted
  <2> QED
    BY <1>0, <2>1, SameFlow
<1>2. ASSUME NoWrapEnd PROVE Turns(Len(nodes))'
  <2> DEFINE k == Len(nodes)
             N == Full(shortened)
  <2>0. Turns(k) /\ cur \in Nat /\ k \in Nat /\ N \in Nat
        /\ (cur <= end_time <=> k <= N)
    BY <1>0, <1>2, Clock
  <2>1. Turns(k) /\ cur \in Nat /\ k \in Nat /\ N \in Nat
        /\ (cur <= end_time <=> k <= N) /\ k <= N + 1
    <3>1. k \in 0..(N + 1)
      BY <2>0 DEF Turns
    <3> QED
      BY <2>0, <3>1
  <2>2. cur > end_time => ~(cur <= end_time)
    <3>1. end_time \in Int
      <4>1. first + shortened \in Int
        BY <1>0, LocalTypes, Constants DEF TInv, Stage, Locals
      <4>2. Word \in Nat
        BY Constants
      <4> QED
        BY <4>1, <4>2, <1>1, WrapRange DEF end_time, Parted
    <3> QED
      BY <3>1, <2>1
  <2>3. pc' = "done" => k = N + 1
    BY <1>0, <2>1, <2>2
  <2> QED
    BY <1>0, <1>1, <2>1, <2>3 DEF Turns, Full
<1> QED
  BY <1>0, <1>1, <1>2 DEF TInv, Looping

LEMMA NextTInv == TInv /\ [Next]_vars => TInv'
<1> SUFFICES ASSUME TInv, [Next]_vars PROVE TInv'
  OBVIOUS
<1>1. CASE UNCHANGED vars
  <2>1. UNCHANGED <<flow, pc, time, first, last, dSwitched, split, cur, nodes, out>>
    BY <1>1 DEF vars
  <2>2. FlowInv' /\ DurationKept'
    BY <2>1 DEF TInv, FlowInv, DurationKept, Near
  <2>3. Stage'
    BY <2>1 DEF TInv, Stage, Saved, Locals, W
  <2>4. /\ shortened' = shortened /\ part' = part /\ n_intervals' = n_intervals
        /\ NoWrapEnd' = NoWrapEnd /\ WrappedEnd' = WrappedEnd
    BY <2>1 DEF shortened, part, n_intervals, NoWrapEnd, WrappedEnd
  <2>5. Looping'
    BY <2>1, <2>4 DEF TInv, Looping, Parted, Shared, Turns, Full
  <2> QED
    BY <2>2, <2>3, <2>5 DEF TInv
<1> QED
  BY <1>1, SaveFieldsT, TimestampsT, WholeT, SplitBeginT, TurnT, LoopEndT DEF Next

\* The invariant holds in every reachable state.
THEOREM FlowTimeInvariant == Spec => []TInv
  BY InitTInv, NextTInv, PTL DEF Spec

-----------------------------------------------------------------------------
(* The theorems.                                                           *)

\* time_split_flow finds the same duration for a flow near the present whether
\* its probe tells seconds or uptimes, in NetFlow or IPFIX.
THEOREM FlowDurationKept == Spec => []DurationKept
<1>1. TInv => DurationKept
  BY DEF TInv
<1> QED
  BY <1>1, FlowTimeInvariant, PTL

\* rb_separate_long_time_flow neither loses nor invents traffic of a flow that
\* fits, however many intervals it spans and whatever double makes of its parts.
THEOREM FlowConserved == Spec => []Conserved
<1>1. ASSUME TInv, pc = "done", flow.separate => Fits
      PROVE  out = [bytes |-> flow.bytes, pkts |-> flow.pkts]
  <2>1. CASE ~flow.separate
    BY <1>1, <2>1 DEF TInv, Stage
  <2>2. CASE flow.separate
    <3>1. Fits /\ InOrder /\ Locals /\ Parted /\ Turns(Len(nodes)) /\ FlowInv
      BY <1>1, <2>2, OrderNoWrap DEF TInv, Stage, Looping, Fits
    <3>2. out = [bytes |-> Full(shortened) * split.bytes_per + split.bytes,
                 pkts |-> Full(shortened) * split.pkts_per + split.pkts]
      BY <1>1, <3>1 DEF Turns
    <3>3. flow.bytes \in Nat /\ flow.pkts \in Nat
      BY <3>1, FlowTypes
    <3>4. /\ Full(shortened) * split.bytes_per + split.bytes = flow.bytes
          /\ Full(shortened) * split.pkts_per + split.pkts = flow.pkts
      BY <3>1, <3>3, PartsAddUp DEF Parted
    <3> QED
      BY <3>2, <3>4
  <2> QED
    BY <2>1, <2>2
<1>2. TInv => Conserved
  BY <1>1 DEF Conserved
<1> QED
  BY <1>2, FlowTimeInvariant, PTL

\* The messages of a separated flow tile it: one per interval from the first
\* packet on, none after the last packet and no interval without one.
THEOREM FlowTiles == Spec => []Tiles
<1>1. ASSUME TInv, pc = "done", flow.separate, InOrder
      PROVE  /\ \A i \in DOMAIN nodes :
                  /\ nodes[i].time = first + (Len(nodes) - i) * dInterval
                  /\ nodes[i].time <= last
             /\ first + Len(nodes) * dInterval >= last
  <2> DEFINE k == Len(nodes)
             N == Full(shortened)
  <2>1. Locals /\ Turns(k) /\ nodes \in Seq(Message)
    BY <1>1, OrderNoWrap DEF TInv, Stage, Looping
  <2>2. /\ shortened \in Nat /\ first + shortened <= last /\ dSwitched = last - first
        /\ dSwitched <= shortened + 1 /\ dInterval \in Nat \ {0}
        /\ first \in Int /\ last \in Int
    BY <1>1, <2>1, LocalTypes, Constants DEF Locals
  <2>3. N \in Nat /\ k = N + 1 /\ N * dInterval <= shortened
        /\ shortened < N * dInterval + dInterval
    BY <1>1, <2>1, <2>2, FullIntervals DEF Turns
  <2>4. (N + 1) * dInterval = N * dInterval + dInterval /\ N * dInterval \in Int
    BY <2>2, <2>3, Distribute
  <2>5. DOMAIN nodes = 1..k
    BY <2>1
  <2> HIDE DEF k, N
  <2>6. first + k * dInterval >= last
    BY <2>2, <2>3, <2>4
  <2>7. ASSUME NEW i \in 1..k
        PROVE  nodes[i].time = first + (k - i) * dInterval /\ nodes[i].time <= last
    <3>1. nodes[i].time = first + (k - i) * dInterval
      BY <2>1 DEF Turns
    <3>2. k - i \in Int /\ k - i <= N
      BY <2>3
    <3>3. (k - i) * dInterval <= N * dInterval /\ (k - i) * dInterval \in Int
      BY <2>2, <2>3, <3>2, Monotone, Distribute
    <3> QED
      BY <3>1, <3>3, <2>2, <2>3, <2>4
  <2> QED
    BY <2>5, <2>6, <2>7 DEF k
<1>2. TInv => Tiles
  BY <1>1 DEF Tiles
<1> QED
  BY <1>2, FlowTimeInvariant, PTL

\* Every full interval of a flow that fits gets its proportion of bytes and
\* packets, up to one of each.
THEOREM FlowProportional == Spec => []Proportional
<1>1. ASSUME TInv, pc = "done", flow.separate, Fits, dSwitched > dInterval,
             NEW i \in 2..Len(nodes)
      PROVE  /\ nodes[i].bytes * dSwitched > (flow.bytes * dInterval) - dSwitched
             /\ nodes[i].bytes * dSwitched <= (flow.bytes * dInterval) + dSwitched
             /\ nodes[i].pkts * dSwitched > (flow.pkts * dInterval) - dSwitched
             /\ nodes[i].pkts * dSwitched <= (flow.pkts * dInterval) + dSwitched
  <2>1. InOrder /\ Locals /\ Parted /\ Turns(Len(nodes)) /\ FlowInv
    BY <1>1, OrderNoWrap DEF TInv, Stage, Looping, Fits
  <2>2. nodes[i].bytes = split.bytes_per /\ nodes[i].pkts = split.pkts_per
    <3>1. i \in 1..Len(nodes) /\ i >= 2
      BY <2>1 DEF Turns
    <3> QED
      BY <3>1, <2>1 DEF Turns
  <2>3. flow.bytes \in Nat /\ flow.pkts \in Nat
    BY <2>1, FlowTypes
  <2>4. /\ split.bytes_per * dSwitched > (flow.bytes * dInterval) - dSwitched
        /\ split.bytes_per * dSwitched <= (flow.bytes * dInterval) + dSwitched
    BY <1>1, <2>1, <2>3, FairShare DEF Parted
  <2>5. /\ split.pkts_per * dSwitched > (flow.pkts * dInterval) - dSwitched
        /\ split.pkts_per * dSwitched <= (flow.pkts * dInterval) + dSwitched
    BY <1>1, <2>1, <2>3, FairShare DEF Parted
  <2> QED
    BY <2>2, <2>4, <2>5
<1>2. TInv => Proportional
  BY <1>1 DEF Proportional
<1> QED
  BY <1>2, FlowTimeInvariant, PTL

\* rb_separate_long_time_flow makes no more messages of a flow than its duration
\* has intervals, whatever the order of its times; the flows that end in the last
\* interval before the wrap are excepted, for the loop's clock wraps with them.
THEOREM FlowMessagesBounded == Spec => []MessagesBounded
<1>1. ASSUME TInv, pc \in {"loop", "done", "nomem"}, flow.separate,
             end_time + dInterval < Word
      PROVE  Len(nodes) <= split.dSwitched \div dInterval + 1
  <2>1. Locals /\ Parted
    BY <1>1 DEF TInv, Stage, Looping
  <2>2. /\ shortened \in Nat /\ first \in 0..(Word - 1) /\ Word \in Nat
        /\ Full(shortened) \in Nat /\ Full(shortened) = split.dSwitched \div dInterval
    BY <2>1, LocalTypes, FullIntervals, Constants DEF Locals, Parted, Full
  <2>3. CASE WrappedEnd
    <3>1. Len(nodes) = 0
      BY <1>1, <2>3 DEF TInv, Looping
    <3> QED
      BY <3>1, <2>2
  <2>4. CASE ~WrappedEnd
    <3>1. first + shortened \in 0..(Word - 1)
      BY <2>2, <2>4 DEF WrappedEnd
    <3>2. end_time = first + shortened
      BY <2>1, <3>1, NoWrap DEF end_time, Parted
    <3>3. Turns(Len(nodes))
      BY <1>1, <3>2 DEF TInv, Looping, NoWrapEnd
    <3> QED
      BY <2>2, <3>3 DEF Turns
  <2> QED
    BY <2>3, <2>4
<1>2. TInv => MessagesBounded
  BY <1>1 DEF MessagesBounded
<1> QED
  BY <1>2, FlowTimeInvariant, PTL
=============================================================================
