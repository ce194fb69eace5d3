------------------------------ MODULE MCSflow ------------------------------
(* Instance of Sflow for TLC: datagrams of two samples, the first or the   *)
(* second of which is of any shape, in versions 2, 4 and 5.  77 is a tag   *)
(* that the decoder does not know.                                         *)
EXTENDS Sflow

CONSTANT Sizes   \* lengths of texts and lists

Tags(T) == {T[t] : t \in DOMAIN T} \cup {77}

E0 == [tag |-> 77, n |-> 3, ip |-> 1, pad |-> TRUE, proto |-> 1, lie |-> 0]
\* Elements of every tag and shape, and the last text not padded
Shaped(tags) == {[E0 EXCEPT !.tag = t, !.n = n, !.ip = ip] :
                   t \in tags, n \in Sizes, ip \in {1, 2}}
Unpadded == {[E0 EXCEPT !.tag = t, !.n = n, !.pad = FALSE] :
               t \in {77, Ft.HEADER, Ft.EX_USER, Ft.EX_URL, Ft.EX_80211_PAYLOAD},
               n \in Sizes}
Lying(tags) == {[E0 EXCEPT !.tag = t, !.lie = l] : t \in tags, l \in {-4, 4}}
Undefined == {[E0 EXCEPT !.tag = t, !.proto = 99] :
                t \in {Ft.HEADER, Ft.EX_80211_PAYLOAD}}
FlowElements == Shaped(Tags(Ft)) \cup Unpadded \cup Lying(Tags(Ft)) \cup Undefined
CounterElements == Shaped(Tags(Ct)) \cup Lying(Tags(Ct))
                     \cup {[E0 EXCEPT !.tag = Ct.HOST_HID, !.pad = FALSE]}

Header == [E0 EXCEPT !.tag = Ft.HEADER]
Switch == [E0 EXCEPT !.tag = Ft.EX_SWITCH]
Of(type, es, lie) == [type |-> type, els |-> es, lie |-> lie]

Some(es) == UNION {{<<e>>, <<e, E0>>, <<Header, e>>} : e \in es}
First5 ==
  {Of(t, es, 0) : t \in {1, 3}, es \in Some(FlowElements)}
    \cup {Of(t, es, 0) : t \in {2, 4}, es \in UNION {{<<e>>, <<e, E0>>} : e \in CounterElements}}
    \cup {Of(t, <<>>, 0) : t \in {1, 2, 9}}
    \cup {Of(t, <<Header>>, l) : t \in 1..4, l \in {-4, 4}}
Second5 == {Of(1, <<Header>>, 0), Of(3, <<Switch>>, 0), Of(2, <<E0>>, 0)}

First4 ==
  {Of(1, <<p>>, 0) : p \in Shaped({1, 2, 3, 77}) \cup {[Header EXCEPT !.proto = 99]}}
    \cup {Of(1, <<Header, x>> \o y, 0) : x \in Shaped(Tags(Xt)), y \in {<<>>, <<[E0 EXCEPT !.tag = 1]>>}}
    \cup {Of(2, <<b>>, 0) : b \in Shaped(Tags(INMCounters_version))}
    \cup {Of(9, <<[E0 EXCEPT !.tag = 1]>>, 0)}
Second4 == {Of(1, <<Header>>, 0), Of(2, <<[E0 EXCEPT !.tag = 1]>>, 0)}

Make(v, firsts, seconds, ip, extra) ==
  {[version |-> v, ip |-> ip, samples |-> <<a, b>>, extra |-> extra] :
     a \in firsts, b \in seconds}
    \cup {[version |-> v, ip |-> ip, samples |-> <<b, a>>, extra |-> extra] :
     a \in firsts, b \in seconds}
MCDatagrams == Make(5, First5, Second5, 1, 0) \cup Make(5, Second5, Second5, 2, 1)
                 \cup UNION {Make(v, First4, Second4, 1, 0) : v \in {2, 4}}
                 \cup Make(4, Second4, Second4, 2, 1)
=============================================================================
