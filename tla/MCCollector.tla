---------------------------- MODULE MCCollector ----------------------------
(* Two configured probes, bound to two workers by the round robin, and one *)
(* unknown source, all exporting to one port.                              *)
EXTENDS Collector, TLC

MCProbes == <<"p1", "p2">>
MCPortOf == [s \in {"p1", "p2", "x"} |-> "udp2055"]
=============================================================================
