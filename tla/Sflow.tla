------------------------------- MODULE Sflow -------------------------------
(***************************************************************************)
(* The sFlow decoder, sflow_collect.c.  dissectSflow moves a cursor        *)
(* through a datagram: every read function is the operator that takes the  *)
(* cursor before it to the cursor after it.  The decoder finds no layout   *)
(* but what it reads on its way, so that one field too many or too few in  *)
(* a function derails everything behind it.                                *)
(*                                                                         *)
(* What is read for the log only is skipped over.  Reading a steering      *)
(* value where the datagram has none gives Far: the cursor is then beyond  *)
(* the datagram, and the model says no more of it (the checks in the read  *)
(* functions call SFABORT, which is empty).                                *)
(***************************************************************************)
EXTENDS SflowFormat

CONSTANT Datagrams   \* the datagrams that agents send

VARIABLES
  dg, wire, end,    \* the datagram, its steering values by offset, its length
  starts,           \* where the agent began its samples, and where it ended
  phase,            \* "idle", "datagram", "samples", "elements", "extended"
  datap,            \* the cursor
  version, left,    \* datagramVersion, and samples still announced
  cur,              \* the sample in progress
  header,           \* sample.header and headerLen: kept from sample to sample
  handled           \* history: samples handed on, with their headers

vars == <<dg, wire, starts, end, phase, datap, version, left, cur, header, handled>>

Far == 100000
NoHeader == [at |-> 0, len |-> 0]
NoSample == [k |-> 0, type |-> 0, start |-> 0, length |-> 0, els |-> 0]

Init ==
  /\ dg = <<>> /\ wire = <<>> /\ starts = <<>> /\ end = 0
  /\ phase = "idle" /\ datap = 0 /\ version = 0 /\ left = 0
  /\ cur = NoSample /\ header = NoHeader /\ handled = <<>>

-----------------------------------------------------------------------------
\* The read functions

getData32(p) == IF p \in DOMAIN wire THEN wire[p] ELSE Far
next32(p, n) == p + 4 * n
getData64(p, n) == p + 8 * n
skipBytes(p, n) == p + Align(n)

getString(p) == skipBytes(next32(p, 1), getData32(p))
getAddress(p) == IF getData32(p) = 1 THEN next32(p, 2)
                                     ELSE skipBytes(next32(p, 1), 16)

\* Reads n of them, one behind the other
Repeat(read(_), n, p) ==
  LET at[i \in 0..n] == IF i = 0 THEN p ELSE read(at[i - 1])
  IN  IF n = Far THEN Far ELSE at[n]

mplsLabelStack(p) == skipBytes(next32(p, 1), 4 * getData32(p))

\* Flow data
readExtendedSwitch(p) == next32(p, 4)
readExtendedRouter(p) == next32(getAddress(p), 2)
readExtendedGateway_v2(p) == skipBytes(next32(p, 4), 4 * getData32(next32(p, 3)))

as_path_segment(p) == next32(p, 2 + getData32(next32(p, 1)))
readExtendedGateway(p) ==
  LET q == next32(IF version >= 5 THEN getAddress(p) ELSE p, 3)
      c == Repeat(as_path_segment, getData32(q), next32(q, 1))
  IN  next32(skipBytes(next32(c, 1), 4 * getData32(c)), 1)

charset(p) == IF version >= 5 THEN next32(p, 1) ELSE p
readExtendedUser(p) == getString(charset(getString(charset(p))))
readExtendedUrl(p) == LET url == getString(next32(p, 1))
                      IN  IF version >= 5 THEN getString(url) ELSE url
readExtendedMpls(p) == mplsLabelStack(mplsLabelStack(getAddress(p)))
readExtendedNat(p) == getAddress(getAddress(p))
readExtendedMplsTunnel(p) == next32(getString(p), 2)
readExtendedMplsVC(p) == next32(getString(p), 2)
readExtendedMplsFTN(p) == next32(getString(p), 1)
readExtendedMplsLDP_FEC(p) == next32(p, 1)
readExtendedVlanTunnel(p) == skipBytes(next32(p, 1), 4 * getData32(p))

headerLen(p) == next32(p, IF version > 4 THEN 3 ELSE 2)
readFlowSample_header(p) ==
  skipBytes(next32(headerLen(p), 1), getData32(headerLen(p)))
readExtendedWifiPayload(p) == readFlowSample_header(next32(p, 1))
readExtendedWifiRx(p) ==
  next32(getData64(next32(skipBytes(getString(p), 6), 2), 1), 3)
readExtendedWifiTx(p) ==
  next32(getData64(next32(skipBytes(getString(p), 6), 5), 1), 1)
readFlowSample_ethernet(p) ==
  next32(skipBytes(skipBytes(next32(p, 1), 6), 6), 1)
readFlowSample_IPv4(p) == skipBytes(p, Width(SFLSampled_ipv4))
readFlowSample_IPv6(p) == skipBytes(p, Width(SFLSampled_ipv6))
readFlowSample_memcache(p) == next32(p, 6)   \* the key is not read
readFlowSample_http(p) ==
  next32(getData64(Repeat(getString, 6, next32(p, 2)), 1), 2)
readFlowSample_CAL(p) == getData64(Repeat(getString, 4, next32(p, 2)), 1)
readExtendedSocket4(p) == next32(p, 5)
readExtendedSocket6(p) ==
  next32(skipBytes(skipBytes(next32(p, 1), 16), 16), 2)

\* Counter blocks
readCounters_generic(p) ==
  next32(getData64(next32(getData64(next32(getData64(next32(p, 2), 1), 2), 1), 6),
                   1), 6)
readCounters_ethernet(p) == next32(p, 13)
readCounters_tokenring(p) == next32(p, 18)
readCounters_vg(p) == getData64(next32(p, 8), 6)
readCounters_vlan(p) == next32(getData64(next32(p, 1), 1), 4)
readCounters_80211(p) == next32(p, 20)
readCounters_processor(p) == getData64(next32(p, 3), 2)
readCounters_radio(p) == next32(p, 3)
readCounters_host_hid(p) == getString(next32(skipBytes(getString(p), 16), 2))
adaptor(p) == next32(p, 2) + 8 * getData32(next32(p, 1))
readCounters_adaptors(p) == Repeat(adaptor, getData32(p), next32(p, 1))
readCounters_host_parent(p) == next32(p, 2)
readCounters_host_cpu(p) == next32(p, 17)
readCounters_host_mem(p) == next32(getData64(p, 7), 4)
readCounters_host_dsk(p) == getData64(next32(p, 5), 4)
readCounters_host_nio(p) == getData64(next32(p, 6), 2)
readCounters_host_vnode(p) == getData64(next32(p, 3), 2)
readCounters_host_vcpu(p) == next32(p, 3)
readCounters_host_vmem(p) == getData64(p, 2)
readCounters_host_vdsk(p) == getData64(next32(p, 3), 5)
readCounters_host_vnio(p) == getData64(next32(p, 6), 2)
readCounters_memcache(p) == getData64(next32(p, 30), 3)
readCounters_http(p) == next32(p, 15)
readCounters_CAL(p) == getData64(next32(p, 2), 1)

-----------------------------------------------------------------------------
\* The switches of readFlowSample, readCountersSample and readFlowSample_v2v4

Ft == SFLFlow_type_tag
Ct == SFLCounters_type_tag
Pt == INMPacket_information_type
Xt == INMExtended_information_type

flowElement(tag, length, p) ==
  CASE tag = Ft.HEADER -> readFlowSample_header(p)
    [] tag = Ft.ETHERNET -> readFlowSample_ethernet(p)
    [] tag = Ft.IPV4 -> readFlowSample_IPv4(p)
    [] tag = Ft.IPV6 -> readFlowSample_IPv6(p)
    [] tag = Ft.MEMCACHE -> readFlowSample_memcache(p)
    [] tag = Ft.HTTP -> readFlowSample_http(p)
    [] tag = Ft.CAL -> readFlowSample_CAL(p)
    [] tag = Ft.EX_SWITCH -> readExtendedSwitch(p)
    [] tag = Ft.EX_ROUTER -> readExtendedRouter(p)
    [] tag = Ft.EX_GATEWAY -> readExtendedGateway(p)
    [] tag = Ft.EX_USER -> readExtendedUser(p)
    [] tag = Ft.EX_URL -> readExtendedUrl(p)
    [] tag = Ft.EX_MPLS -> readExtendedMpls(p)
    [] tag = Ft.EX_NAT -> readExtendedNat(p)
    [] tag = Ft.EX_MPLS_TUNNEL -> readExtendedMplsTunnel(p)
    [] tag = Ft.EX_MPLS_VC -> readExtendedMplsVC(p)
    [] tag = Ft.EX_MPLS_FTN -> readExtendedMplsFTN(p)
    [] tag = Ft.EX_MPLS_LDP_FEC -> readExtendedMplsLDP_FEC(p)
    [] tag = Ft.EX_VLAN_TUNNEL -> readExtendedVlanTunnel(p)
    [] tag = Ft.EX_80211_PAYLOAD -> readExtendedWifiPayload(p)
    [] tag = Ft.EX_80211_RX -> readExtendedWifiRx(p)
    [] tag = Ft.EX_80211_TX -> readExtendedWifiTx(p)
    [] tag = Ft.EX_SOCKET4 -> readExtendedSocket4(p)
    [] tag = Ft.EX_SOCKET6 -> readExtendedSocket6(p)
    [] OTHER -> skipBytes(p, length)

counterElement(tag, length, p) ==
  CASE tag = Ct.GENERIC -> readCounters_generic(p)
    [] tag = Ct.ETHERNET -> readCounters_ethernet(p)
    [] tag = Ct.TOKENRING -> readCounters_tokenring(p)
    [] tag = Ct.VG -> readCounters_vg(p)
    [] tag = Ct.VLAN -> readCounters_vlan(p)
    [] tag = Ct.WIFI -> readCounters_80211(p)
    [] tag = Ct.PROCESSOR -> readCounters_processor(p)
    [] tag = Ct.RADIO -> readCounters_radio(p)
    [] tag = Ct.HOST_HID -> readCounters_host_hid(p)
    [] tag = Ct.ADAPTORS -> readCounters_adaptors(p)
    [] tag = Ct.HOST_PAR -> readCounters_host_parent(p)
    [] tag = Ct.HOST_CPU -> readCounters_host_cpu(p)
    [] tag = Ct.HOST_MEM -> readCounters_host_mem(p)
    [] tag = Ct.HOST_DSK -> readCounters_host_dsk(p)
    [] tag = Ct.HOST_NIO -> readCounters_host_nio(p)
    [] tag = Ct.HOST_VRT_NODE -> readCounters_host_vnode(p)
    [] tag = Ct.HOST_VRT_CPU -> readCounters_host_vcpu(p)
    [] tag = Ct.HOST_VRT_MEM -> readCounters_host_vmem(p)
    [] tag = Ct.HOST_VRT_DSK -> readCounters_host_vdsk(p)
    [] tag = Ct.HOST_VRT_NIO -> readCounters_host_vnio(p)
    [] tag = Ct.MEMCACHE -> readCounters_memcache(p)
    [] tag = Ct.HTTP -> readCounters_http(p)
    [] tag = Ct.CAL -> readCounters_CAL(p)
    [] OTHER -> skipBytes(p, length)

extendedData(tag, p) ==
  CASE tag = Xt.SWITCH -> readExtendedSwitch(p)
    [] tag = Xt.ROUTER -> readExtendedRouter(p)
    [] tag = Xt.GATEWAY -> IF version = 2 THEN readExtendedGateway_v2(p)
                                          ELSE readExtendedGateway(p)
    [] tag = Xt.USER -> readExtendedUser(p)
    [] tag = Xt.URL -> readExtendedUrl(p)

\* A counter block of versions 2 and 4: the generic counters, if any, then
\* those of the version; an unknown one is reported and nothing is read.
counterBlock(v, p) ==
  LET T == INMCounters_version
      generic == IF v \in 1..6 THEN readCounters_generic(p) ELSE p
  IN  CASE v = T.ETHERNET -> readCounters_ethernet(generic)
        [] v = T.TOKENRING -> readCounters_tokenring(generic)
        [] v = T.VG -> readCounters_vg(generic)
        [] v = T.VLAN -> readCounters_vlan(generic)
        [] OTHER -> generic

rawHeader(p) == [at |-> next32(headerLen(p), 1), len |-> getData32(headerLen(p))]

\* A slip, for the mutation runs: IPv6 data leave the header as it was.
headerOf_ipv4_only(tag, p) ==
  CASE tag = Ft.HEADER -> rawHeader(p)
    [] tag = Ft.EX_80211_PAYLOAD -> rawHeader(next32(p, 1))
    [] tag = Ft.IPV4 -> [at |-> p, len |-> Width(SFLSampled_ipv4)]
    [] OTHER -> header

\* The sampled header that reading an element leaves in sample, if it does
headerOf(tag, p) ==
  CASE tag = Ft.HEADER -> rawHeader(p)
    [] tag = Ft.EX_80211_PAYLOAD -> rawHeader(next32(p, 1))
    [] tag = Ft.IPV4 -> [at |-> p, len |-> Width(SFLSampled_ipv4)]
    [] tag = Ft.IPV6 -> [at |-> p, len |-> Width(SFLSampled_ipv6)]
    [] OTHER -> header

\* A sampled header of an undefined protocol ends the program: exit(-13).
undefinedProtocol(tag, p) ==
  \/ tag = Ft.HEADER /\ getData32(p) \notin SFLHeader_protocol
  \/ tag = Ft.EX_80211_PAYLOAD /\ getData32(next32(p, 1)) \notin SFLHeader_protocol

\* A slip, for the mutation runs: lengths must agree to the byte.
lengthCheck_exact(start, p, len) == [datap |-> p, ok |-> p - start = len]

\* The cursor after the check: back by up to three bytes, for the agents
\* that do not pad; and whether the length agrees.
lengthCheck(start, p, len) ==
  LET diff == (p - start) - len
      fixed == IF diff \in 1..3 THEN p - diff ELSE p
  IN  [datap |-> fixed, ok |-> fixed - start = len]

-----------------------------------------------------------------------------
\* dissectSflow clears its sample and points the cursor at the datagram.
dissectSflow ==
  /\ phase = "idle"
  /\ \E d \in Datagrams :
       LET cells == Layout(d)
       IN  /\ dg' = d /\ wire' = Steering(cells) /\ end' = Width(cells)
           /\ starts' = [k \in 1..(Len(d.samples) + 1) |-> SampleStart(d, k)]
  /\ phase' = "datagram"
  /\ UNCHANGED <<datap, version, left, cur, header, handled>>

readSFlowDatagram ==
  /\ phase = "datagram"
  /\ version' = getData32(0)
  /\ LET p == next32(getAddress(next32(0, 1)), IF version' >= 5 THEN 3 ELSE 2)
     IN  left' = getData32(p) /\ datap' = next32(p, 1)
  /\ phase' = "samples"
  /\ UNCHANGED <<dg, wire, starts, end, cur, header, handled>>

\* The end of one round of the loop over the samples: flow samples that were
\* read without an error are handed on, with the header that sample holds.
handleSflowSample(type, rc, h) ==
  handled' = IF type \in {SFL_sample_tag.FLOW, SFL_sample_tag.FLOW_EXPANDED} /\ rc = 0
               THEN Append(handled, [k |-> cur'.k, header |-> h])
               ELSE handled

endSample(p, k, type, rc, h) ==
  /\ datap' = p /\ phase' = "samples" /\ left' = left - 1
  /\ cur' = [NoSample EXCEPT !.k = k]
  /\ header' = h /\ handleSflowSample(type, rc, h)
  /\ UNCHANGED <<dg, wire, starts, end, version>>

atSample == phase = "samples" /\ left > 0 /\ datap < end
sampleType == getData32(datap)

\* readFlowSample and readCountersSample up to their elements
fixedWords(type) ==
  CASE type = SFL_sample_tag.FLOW -> 7
    [] type = SFL_sample_tag.FLOW_EXPANDED -> 10
    [] type = SFL_sample_tag.COUNTERS -> 2
    [] type = SFL_sample_tag.COUNTERS_EXPANDED -> 3

readSample ==
  /\ atSample /\ version >= 5 /\ sampleType \in 1..4
  /\ LET start == next32(datap, 2)
         p == next32(start, fixedWords(sampleType))
     IN  /\ cur' = [k |-> cur.k + 1, type |-> sampleType, start |-> start,
                    length |-> getData32(next32(datap, 1)), els |-> getData32(p)]
         /\ datap' = next32(p, 1)
  /\ phase' = "elements"
  /\ UNCHANGED <<dg, wire, starts, end, version, left, header, handled>>

skipSample ==
  /\ atSample /\ version >= 5 /\ sampleType \notin 1..4
  /\ endSample(skipBytes(next32(datap, 2), getData32(next32(datap, 1))),
               cur.k + 1, sampleType, 0, header)

\* readFlowSample keeps its error only where its caller looks at it: the
\* result for an expanded sample is dropped.
rcOf(type, ok) == IF type = SFL_sample_tag.FLOW /\ ~ok THEN -1 ELSE 0

isFlow(type) == type \in {SFL_sample_tag.FLOW, SFL_sample_tag.FLOW_EXPANDED}

\* One round of the loop over the elements.  A wrong length ends a flow
\* sample; a counters sample goes on.
readElement ==
  /\ phase = "elements" /\ datap <= end /\ cur.els > 0
  /\ LET tag == getData32(datap)
         length == getData32(next32(datap, 1))
         start == next32(datap, 2)
         stop == IF isFlow(cur.type) THEN flowElement(tag, length, start)
                                     ELSE counterElement(tag, length, start)
         check == lengthCheck(start, stop, length)
         h == IF isFlow(cur.type) THEN headerOf(tag, start) ELSE header
     IN  /\ ~(isFlow(cur.type) /\ undefinedProtocol(tag, start))
         /\ IF isFlow(cur.type) /\ ~check.ok
              THEN endSample(check.datap, cur.k, cur.type, rcOf(cur.type, FALSE), h)
              ELSE /\ header' = h
                   /\ cur' = [cur EXCEPT !.els = @ - 1]
                   /\ datap' = check.datap
                   /\ UNCHANGED <<dg, wire, starts, end, phase, version, left, handled>>

finishSample ==
  /\ phase = "elements" /\ datap <= end /\ cur.els = 0
  /\ LET check == lengthCheck(cur.start, datap, cur.length)
     IN  endSample(check.datap, cur.k, cur.type, rcOf(cur.type, check.ok), header)

\* readFlowSample_v2v4 up to its extended data; packet data of an unknown
\* kind ends it without an error.
packetTag == getData32(next32(datap, 8))
packetData == next32(datap, 9)
asFlowTag(tag) == CASE tag = Pt.HEADER -> Ft.HEADER [] tag = Pt.IPV4 -> Ft.IPV4
                    [] tag = Pt.IPV6 -> Ft.IPV6
readFlowSample_v2v4 ==
  /\ atSample /\ version < 5 /\ sampleType = SFL_sample_tag.FLOW
  /\ IF packetTag \in 1..3
       THEN LET tag == asFlowTag(packetTag)
                p == flowElement(tag, 0, packetData)
            IN  /\ ~undefinedProtocol(tag, packetData)
                /\ header' = headerOf(tag, packetData)
                /\ cur' = [NoSample EXCEPT !.k = cur.k + 1, !.els = getData32(p),
                                          !.type = sampleType]
                /\ datap' = next32(p, 1) /\ phase' = "extended"
                /\ UNCHANGED <<dg, wire, starts, end, version, left, handled>>
       ELSE endSample(packetData, cur.k + 1, sampleType, 0, header)

readExtendedData ==
  /\ phase = "extended" /\ datap <= end /\ cur.els > 0
  /\ IF getData32(datap) \in 1..5
       THEN /\ datap' = extendedData(getData32(datap), next32(datap, 1))
            /\ cur' = [cur EXCEPT !.els = @ - 1]
            /\ UNCHANGED <<dg, wire, starts, end, phase, version, left, header, handled>>
       ELSE endSample(next32(datap, 1), cur.k, cur.type, -1, header)

finishExtended ==
  /\ phase = "extended" /\ datap <= end /\ cur.els = 0
  /\ endSample(datap, cur.k, cur.type, 0, header)

readCountersSample_v2v4 ==
  /\ atSample /\ version < 5 /\ sampleType = SFL_sample_tag.COUNTERS
  /\ LET p == next32(datap, 4)
     IN  endSample(counterBlock(getData32(p), next32(p, 1)),
                   cur.k + 1, sampleType, 0, header)

\* An unexpected sample type is reported, and the loop goes on.
unexpectedSample ==
  /\ atSample /\ version < 5 /\ sampleType \notin 1..2
  /\ endSample(next32(datap, 1), cur.k + 1, sampleType, 0, header)

\* The datagram is done, or the program ended, or the cursor left the
\* datagram in the middle of a sample: the next datagram starts afresh.
afresh ==
  /\ dg' = <<>> /\ wire' = <<>> /\ starts' = <<>> /\ end' = 0
  /\ phase' = "idle" /\ datap' = 0 /\ version' = 0 /\ left' = 0
  /\ cur' = NoSample /\ header' = NoHeader /\ handled' = <<>>

atEnd == phase = "samples" /\ (left = 0 \/ datap >= end)
atExit ==
  \/ /\ phase = "elements" /\ datap <= end /\ cur.els > 0 /\ isFlow(cur.type)
     /\ undefinedProtocol(getData32(datap), next32(datap, 2))
  \/ /\ atSample /\ version < 5 /\ sampleType = SFL_sample_tag.FLOW
     /\ packetTag \in 1..3
     /\ undefinedProtocol(asFlowTag(packetTag), packetData)
astray == phase \in {"elements", "extended"} /\ datap > end

datagramDone == atEnd /\ afresh
exitProgram == atExit /\ afresh
goneAstray == astray /\ afresh

Next == \/ dissectSflow \/ readSFlowDatagram
        \/ readSample \/ skipSample \/ readElement \/ finishSample
        \/ readFlowSample_v2v4 \/ readExtendedData \/ finishExtended
        \/ readCountersSample_v2v4 \/ unexpectedSample
        \/ datagramDone \/ exitProgram \/ goneAstray

Spec == Init /\ [][Next]_vars

-----------------------------------------------------------------------------
(* Properties *)

MemcacheFlow(s, e) == isFlow(s.type) /\ e.tag = Ft.MEMCACHE

\* The k-th sample is laid out as its structures say, with tags that its
\* version can carry and protocols that are defined.  A memcache operation
\* is left out: its key is laid out and not read (sflow_collect.c:2755).
SoundSample(d, k) ==
  LET s == d.samples[k] IN
  /\ s.lie = 0
  /\ \A i \in DOMAIN s.els :
       /\ s.els[i].lie = 0
       /\ s.els[i].proto \in SFLHeader_protocol
       /\ d.version >= 5 => ~MemcacheFlow(s, s.els[i])
       /\ d.version < 5 =>
            s.els[i].tag \in (IF s.type = 2 THEN 1..7 ELSE IF i = 1 THEN 1..3 ELSE 1..5)
  /\ d.version < 5 => s.type \in 1..2

Sound(d) == \A k \in DOMAIN d.samples : SoundSample(d, k)

\* Whatever a sound datagram holds, in any of the three versions, with data
\* of unknown tags, lists and texts of any length, and a last text that is
\* not padded, the decoder stays in step: it stands at the beginning of a
\* sample when it takes it for one, it never leaves the datagram, and it
\* ends only after the last sample, even when more were announced.
InStep ==
  (phase # "idle" /\ Sound(dg)) =>
    /\ phase = "samples" => datap = starts[cur.k + 1]
    /\ datap <= end /\ ~atExit
    /\ atEnd => cur.k = Len(dg.samples)

HeaderTags(d) == IF d.version >= 5
                   THEN {Ft.HEADER, Ft.IPV4, Ft.IPV6, Ft.EX_80211_PAYLOAD}
                   ELSE {Pt.HEADER, Pt.IPV4, Pt.IPV6}
HasHeader(d, s) == \E i \in DOMAIN s.els :
                     s.els[i].tag \in HeaderTags(d) /\ (d.version < 5 => i = 1)

\* Of a sound datagram every flow sample is handed on, once and in order,
\* and no other; with a header that lies inside that sample, provided it has
\* one: sample.header is not cleared between samples, so that a sample
\* without a header is handed on with that of an earlier one.
HandedOn ==
  (phase # "idle" /\ Sound(dg) /\ atEnd) =>
    /\ [i \in DOMAIN handled |-> handled[i].k] =
         SelectSeq([k \in DOMAIN dg.samples |-> k],
                   LAMBDA k : isFlow(dg.samples[k].type))
    /\ \A i \in DOMAIN handled :
         LET k == handled[i].k
             h == handled[i].header
         IN  HasHeader(dg, dg.samples[k]) =>
               /\ h.at > starts[k]
               /\ h.at + h.len <= starts[k + 1]
=============================================================================
