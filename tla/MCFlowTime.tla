----------------------------- MODULE MCFlowTime -----------------------------
(* Minutes of three seconds; durations below, at and between multiples.    *)
EXTENDS FlowTime

\* No fallback, one within an interval, and one of two whole intervals.
MCFallbacks == {0, -2, -6}
=============================================================================
