------------------------------ MODULE FlowTime ------------------------------
(***************************************************************************)
(* The life of one flow record from its time fields to its messages:       *)
(* save_*_second / msecond / switched (export.c), time_split_flow and      *)
(* sanitize_timestamp (collect.c), rb_separate_long_time_flow (export.c).  *)
(*                                                                         *)
(* Times are seconds in uint64_t; arithmetic on them is modulo Word.  The  *)
(* loop that makes the messages is taken turn by turn, since its end       *)
(* depends on that arithmetic.                                             *)
(***************************************************************************)
EXTENDS Integers, Sequences

CONSTANTS dInterval,      \* 60 seconds
          max_intervals,  \* 60 intervals
          Far,            \* 600 seconds: how far from now a time may be
          Word,           \* 2^64
          Milli,          \* 1000
          Now,            \* time(NULL)
          Times,          \* bound: times of a flow's first and last packet
          Exports,        \* bound: export times
          Uptimes,        \* bound: uptimes of the probe at export
          Fallbacks,      \* bound: fallback_first_switch of the observation id
          Amounts,        \* bound: bytes and packets of a flow
          MaxMessages     \* bound: messages of one flow that memory has room for

ASSUME FlowTimeAssumption ==
  /\ dInterval \in Nat \ {0} /\ max_intervals \in Nat \ {0}
  /\ Far \in Nat /\ Milli \in Nat \ {0}
  /\ Now \in Nat /\ Far <= Now
  /\ Word \in Nat /\ Now + Far + dInterval < Word
  /\ Times \subseteq 0..(Word - 1) /\ Exports \subseteq 0..(Word - 1)
  /\ Uptimes \subseteq 0..(Word - 1)
  /\ \A u \in Uptimes : Milli * u < Word   \* the probe counts milliseconds
  /\ Fallbacks \subseteq Int /\ Amounts \subseteq Nat /\ MaxMessages \in Nat

\* How a record tells its times: seconds or milliseconds since the epoch,
\* milliseconds since the boot of the probe, or not at all.
Forms == {"second", "msecond", "switched", "none"}

\* A flow as its probe tells it, and the options that matter here.
Flows == [form : Forms, first : Times, last : Times, export : Exports,
          uptime : Uptimes, ipfix : BOOLEAN, bytes : Amounts, pkts : Amounts,
          fallback : Fallbacks, reforge : BOOLEAN, separate : BOOLEAN]

VARIABLES flow,       \* the record that is being dissected
          pc,
          time,       \* flowCache->time
          first, last, dSwitched,  \* locals of time_split_flow
          split,      \* locals of rb_separate_long_time_flow
          cur,        \* current_timestamp_s
          nodes,      \* the list of messages, newest first
          out         \* history: the bytes and packets of all messages

vars == <<flow, pc, time, first, last, dSwitched, split, cur, nodes, out>>

W(x) == x % Word

NoTime == [export |-> 0, uptime |-> 0, first_switched |-> 0,
           last_switched |-> 0, first |-> 0, last |-> 0]

NoSplit == [n |-> 0, dSwitched |-> 0, bytes |-> 0, pkts |-> 0,
            bytes_per |-> 0, pkts_per |-> 0]

\* Times since the epoch may be anything; uptimes are those of packets that the
\* probe saw between its boot and the export.
Init ==
  /\ flow \in Flows
  /\ flow.form = "switched" =>
       /\ flow.first <= flow.last /\ flow.last <= flow.export
       /\ flow.export - flow.uptime <= flow.first
  /\ pc = "fields" /\ time = NoTime
  /\ first = 0 /\ last = 0 /\ dSwitched = 0
  /\ split = NoSplit /\ cur = 0 /\ nodes = <<>>
  /\ out = [bytes |-> 0, pkts |-> 0]

-----------------------------------------------------------------------------
\* Slip, for the mutation runs: the uptimes are taken as seconds.
save_x_switched_ms(ms) == W(ms)

\* save_x_switched: uptime in milliseconds, kept in seconds.
save_x_switched(ms) == W(ms) \div Milli

\* callback_mili_buffer hands the number on as it came.
callback_mili_buffer(ms) == W(ms)

\* The header gives export time and uptime (none in IPFIX), the record's fields
\* the rest.
SaveFields ==
  LET boot == flow.export - flow.uptime
      seconds == flow.form = "second"
      mseconds == flow.form = "msecond"
      stamp(t) == CASE seconds -> t
                    [] mseconds -> callback_mili_buffer(Milli * t)
                    [] OTHER -> 0
      switched(t) == IF flow.form = "switched"
                     THEN save_x_switched(Milli * (t - boot)) ELSE 0
  IN /\ pc = "fields"
     /\ time' = [export |-> flow.export,
                 uptime |-> IF flow.ipfix THEN 0 ELSE flow.uptime,
                 first_switched |-> switched(flow.first),
                 last_switched |-> switched(flow.last),
                 first |-> stamp(flow.first), last |-> stamp(flow.last)]
     /\ pc' = "times"
     /\ UNCHANGED <<flow, first, last, dSwitched, split, cur, nodes, out>>

\* sanitize_timestamp: a time too far from now becomes now, unless the option
\* forbids it; a first time equal to the last is moved by the fallback.
sanitize_timestamp(t, fallback, last_t) ==
  CASE (t > Now + Far \/ t < Now - Far) /\ flow.reforge -> Now
    [] fallback # 0 /\ t = last_t -> W(t + fallback)
    [] OTHER -> t

\* The head of time_split_flow.
Timestamps ==
  LET export == IF time.export = 0 THEN Now ELSE time.export
      actual_last ==
        CASE time.last # 0 -> time.last
          [] time.last = 0 /\ time.uptime # 0 /\ time.last_switched # 0 ->
               W(export - time.uptime + time.last_switched)
          [] OTHER -> export
      actual_first ==
        CASE time.first # 0 -> time.first
          [] time.first = 0 /\ time.uptime # 0 /\ time.first_switched # 0 ->
               W(export - time.uptime + time.first_switched)
          [] OTHER -> W(export - time.last_switched + time.first_switched)
      l == sanitize_timestamp(actual_last, 0, 0)
      f == sanitize_timestamp(actual_first, flow.fallback, l)
  IN /\ pc = "times"
     /\ last' = l /\ first' = f /\ dSwitched' = W(l - f)
     /\ pc' = IF flow.separate THEN "split" ELSE "whole"
     /\ UNCHANGED <<flow, time, split, cur, nodes, out>>

\* Not separating: one message with everything.
Whole ==
  /\ pc = "whole"
  /\ nodes' = <<[time |-> W(first + dSwitched), bytes |-> flow.bytes,
                 pkts |-> flow.pkts]>>
  /\ out' = [bytes |-> flow.bytes, pkts |-> flow.pkts]
  /\ pc' = "done"
  /\ UNCHANGED <<flow, time, first, last, dSwitched, split, cur>>

-----------------------------------------------------------------------------
(* rb_separate_long_time_flow.                                             *)

\* Slip, for the mutation runs: the first interval is counted too.
n_intervals_all == dSwitched \div dInterval + 1

\* n_intervals_except_first.
n_intervals == IF dSwitched \div dInterval > max_intervals
               THEN max_intervals - 1 ELSE dSwitched \div dInterval

\* "Avoiding flows with 0 pkts/bytes".
shortened == IF dSwitched > 0 /\ dSwitched % dInterval = 0
             THEN dSwitched - 1 ELSE dSwitched

\* total * (double) part / whole, truncated: where the quotient is a whole
\* number, the double may fall just short of it.
shares(total, part, whole) ==
  IF part = whole THEN {total}
  ELSE LET q == (total * part) \div whole
       IN IF (total * part) % whole = 0 /\ q > 0 THEN {q, q - 1} ELSE {q}

\* Slip, for the mutation runs: the remainder of the division is forgotten.
interval_share_floor(total, f, n) ==
  [per |-> IF n > 0 THEN (total - f) \div n ELSE 0, end |-> f]

\* What one interval carries, and what the last one does: the first interval's
\* part and the remainder of the division.
interval_share(total, f, n) ==
  LET per == IF n > 0 THEN (total - f) \div n ELSE 0
  IN [per |-> per, end |-> f + (total - f - per * n)]

SplitBegin ==
  LET d == shortened
      part == IF d = 0 THEN 0 ELSE d % dInterval
  IN /\ pc = "split"
     /\ \E fb \in shares(flow.bytes, part, d), fp \in shares(flow.pkts, part, d) :
          LET b == interval_share(flow.bytes, fb, n_intervals)
              p == interval_share(flow.pkts, fp, n_intervals)
          IN split' = [n |-> n_intervals, dSwitched |-> d,
                       bytes |-> b.end, pkts |-> p.end,
                       bytes_per |-> b.per, pkts_per |-> p.per]
     /\ cur' = first
     /\ pc' = "loop"
     /\ UNCHANGED <<flow, time, first, last, dSwitched, nodes, out>>

\* Slip, for the mutation runs: the time is printed after the clock moved on.
push_late(bytes, pkts) ==
  /\ nodes' = <<[time |-> W(cur + dInterval), bytes |-> bytes,
                 pkts |-> pkts]>> \o nodes
  /\ out' = [bytes |-> out.bytes + bytes, pkts |-> out.pkts + pkts]
  /\ cur' = W(cur + dInterval)
  /\ UNCHANGED <<flow, time, first, last, dSwitched, split>>

\* Slip, for the mutation runs: current_timestamp_s += dInterval is forgotten.
push_still(bytes, pkts) ==
  /\ nodes' = <<[time |-> cur, bytes |-> bytes, pkts |-> pkts]>> \o nodes
  /\ out' = [bytes |-> out.bytes + bytes, pkts |-> out.pkts + pkts]
  /\ UNCHANGED <<flow, time, first, last, dSwitched, split, cur>>

\* A message at the front of the list, and the clock of the loop moves on.
push(bytes, pkts) ==
  /\ nodes' = <<[time |-> cur, bytes |-> bytes, pkts |-> pkts]>> \o nodes
  /\ out' = [bytes |-> out.bytes + bytes, pkts |-> out.pkts + pkts]
  /\ cur' = W(cur + dInterval)
  /\ UNCHANGED <<flow, time, first, last, dSwitched, split>>

end_time == W(first + split.dSwitched)

is_last == W(cur + dInterval) > end_time

\* A turn of the loop, for an interval that is not the last: a cloned buffer.
SplitInterval ==
  /\ pc = "loop" /\ cur <= end_time /\ ~is_last /\ Len(nodes) < MaxMessages
  /\ push(split.bytes_per, split.pkts_per)
  /\ UNCHANGED pc

\* The last interval takes the caller's buffer.
SplitLast ==
  /\ pc = "loop" /\ cur <= end_time /\ is_last /\ Len(nodes) < MaxMessages
  /\ push(split.bytes, split.pkts)
  /\ UNCHANGED pc

\* Slip, for the mutation runs: the loop ends only if it meets the end exactly.
SplitEndExact ==
  /\ pc = "loop" /\ cur = end_time
  /\ pc' = "done"
  /\ UNCHANGED <<flow, time, first, last, dSwitched, split, cur, nodes, out>>

\* The loop is over.
SplitEnd ==
  /\ pc = "loop" /\ cur > end_time
  /\ pc' = "done"
  /\ UNCHANGED <<flow, time, first, last, dSwitched, split, cur, nodes, out>>

\* A node or a buffer cannot be allocated: the list so far is returned.
SplitNoMemory ==
  /\ pc = "loop" /\ cur <= end_time
  /\ pc' = "nomem"
  /\ UNCHANGED <<flow, time, first, last, dSwitched, split, cur, nodes, out>>

Next ==
  \/ SaveFields \/ Timestamps \/ Whole
  \/ SplitBegin \/ SplitInterval \/ SplitLast \/ SplitEnd \/ SplitNoMemory

Spec == Init /\ [][Next]_vars
FairSpec == Spec /\ WF_vars(Next)

-----------------------------------------------------------------------------
(* Properties.                                                             *)

\* The flow ends after it begins, and the clock of the loop may pass its end
\* by an interval without wrapping around.
InOrder == first <= last /\ last + dInterval < Word

\* The flow is in order, within the limit on intervals, and is not several
\* whole intervals long.
Fits ==
  /\ InOrder
  /\ dSwitched < (max_intervals + 1) * dInterval
  /\ dSwitched <= dInterval \/ dSwitched % dInterval # 0

\* Splitting neither loses nor invents traffic: the bytes and packets of the
\* messages of a flow add up to the flow's, remainders included.
Conserved ==
  pc = "done" /\ (flow.separate => Fits)
    => out = [bytes |-> flow.bytes, pkts |-> flow.pkts]

\* Every full interval gets its proportion of the flow up to rounding
\* (README: "1 message containing 2/3 of bytes and pkts for the minute, and
\* 1/3 of bytes and pkts to the last 30 seconds").
Proportional ==
  pc = "done" /\ flow.separate /\ Fits /\ dSwitched > dInterval =>
    \A i \in 2..Len(nodes) :
      /\ nodes[i].bytes * dSwitched > (flow.bytes * dInterval) - dSwitched
      /\ nodes[i].bytes * dSwitched <= (flow.bytes * dInterval) + dSwitched
      /\ nodes[i].pkts * dSwitched > (flow.pkts * dInterval) - dSwitched
      /\ nodes[i].pkts * dSwitched <= (flow.pkts * dInterval) + dSwitched

\* The messages tile the flow: one per interval from the first packet on, none
\* after the last packet, and no interval of the flow without one.
Tiles ==
  pc = "done" /\ flow.separate /\ InOrder =>
    /\ \A i \in DOMAIN nodes :
         /\ nodes[i].time = first + (Len(nodes) - i) * dInterval
         /\ nodes[i].time <= last
    /\ first + Len(nodes) * dInterval >= last

\* Time t is near enough to now to be believed.
Near(t) == t >= Now - Far /\ t <= Now + Far

\* A probe may tell times in seconds or as uptimes, in NetFlow or IPFIX: the
\* duration of a flow near the present is the same.
DurationKept ==
  /\ pc \notin {"fields", "times"}
  /\ flow.form \in {"second", "switched"} /\ flow.fallback = 0
  /\ time.first + time.first_switched > 0
  /\ flow.first <= flow.last
  /\ Near(flow.first) /\ Near(flow.last) /\ Near(flow.export)
  /\ Near(flow.export - (flow.last - flow.first))
  => dSwitched = flow.last - flow.first

\* The loop makes no more messages than the duration has intervals, the one that
\* is begun included, also for times that are out of order.  Only for a flow that
\* ends in the last interval before 2^64 does the clock of the loop wrap below its
\* end, so that the messages go on.
MessagesBounded ==
  pc \in {"loop", "done", "nomem"} /\ flow.separate /\ end_time + dInterval < Word
    => Len(nodes) <= split.dSwitched \div dInterval + 1

\* The messages of a record are made, or (at the latest when the clock of the
\* loop has wrapped and the list used up the memory) its making is given up.
Terminates == <>(pc \in {"done", "nomem"})

\* "Separate kafka flow message in many flows, one per minute, and distributing
\* the packets and octets proportionally" (export.c:2297), whatever its length.
ConservedAlways ==
  pc = "done" /\ first <= last
    => out = [bytes |-> flow.bytes, pkts |-> flow.pkts]
=============================================================================
