---------------------------- MODULE SflowFormat ----------------------------
(***************************************************************************)
(* The sFlow structures of sflow_collect.c, as the agents lay them out in  *)
(* a datagram: every field in its order, strings and opaque bytes padded   *)
(* to four bytes.  Only the fields that steer a decoder keep their value   *)
(* (versions, tags, lengths, counts, address types); counters, addresses,  *)
(* ports and texts are bytes.  A layout is a sequence of cells, each with  *)
(* its width in bytes and the value a decoder must find there, or Plain.   *)
(*                                                                         *)
(* The variable parts of an element come from its record e: e.n is the     *)
(* length of its strings and the depth of its lists, e.ip the type of its  *)
(* addresses, e.proto the protocol of a sampled header, e.pad whether the  *)
(* agent pads the last field, and e.lie what it adds to the length.        *)
(***************************************************************************)
EXTENDS Integers, Sequences, SequencesExt

Plain == -1
Align(n) == ((n + 3) \div 4) * 4

Bytes(n) == <<[w |-> n, v |-> Plain]>>
Word(val) == <<[w |-> 4, v |-> val]>>
U(n32, n64) == Bytes(4 * n32 + 8 * n64)   \* so many u32 (or float) and u64
Copies(n, cells) == FlattenSeq([i \in 1..n |-> cells])

SFLString(n, pad) == Word(n) \o Bytes(IF pad THEN Align(n) ELSE n)
SFLAddress(ip) == Word(ip) \o Bytes(IF ip = 1 THEN 4 ELSE 16)
SFLLabelStack(n) == Word(n) \o U(n, 0)

\* Flow data of version 5
SFLFlow_type_tag ==
  [HEADER |-> 1, ETHERNET |-> 2, IPV4 |-> 3, IPV6 |-> 4, EX_SWITCH |-> 1001,
   EX_ROUTER |-> 1002, EX_GATEWAY |-> 1003, EX_USER |-> 1004, EX_URL |-> 1005,
   EX_MPLS |-> 1006, EX_NAT |-> 1007, EX_MPLS_TUNNEL |-> 1008,
   EX_MPLS_VC |-> 1009, EX_MPLS_FTN |-> 1010, EX_MPLS_LDP_FEC |-> 1011,
   EX_VLAN_TUNNEL |-> 1012, EX_80211_PAYLOAD |-> 1013, EX_80211_RX |-> 1014,
   EX_80211_TX |-> 1015, EX_SOCKET4 |-> 2100, EX_SOCKET6 |-> 2101,
   MEMCACHE |-> 2200, HTTP |-> 2201, CAL |-> 4300 * 4096 + 5]

SFLHeader_protocol == 1..17

SFLSampled_header(e) == Word(e.proto) \o U(2, 0) \o SFLString(e.n, e.pad)
SFLSampled_ethernet == U(1, 0) \o Bytes(8) \o Bytes(8) \o U(1, 0)
SFLSampled_ipv4 == U(8, 0)
SFLSampled_ipv6 == U(2, 0) \o Bytes(16) \o Bytes(16) \o U(4, 0)
SFLExtended_switch == U(4, 0)
SFLExtended_router(e) == SFLAddress(e.ip) \o U(2, 0)
SFLExtended_as_path_segment(n) == U(1, 0) \o Word(n) \o U(n, 0)
SFLExtended_gateway(e) ==
  SFLAddress(e.ip) \o U(3, 0)
    \o Word(e.n) \o Copies(e.n, SFLExtended_as_path_segment(e.n))
    \o Word(e.n) \o U(e.n, 0) \o U(1, 0)
SFLExtended_user(e) ==
  U(1, 0) \o SFLString(e.n, TRUE) \o U(1, 0) \o SFLString(e.n, e.pad)
SFLExtended_url(e) == U(1, 0) \o SFLString(e.n, TRUE) \o SFLString(e.n, e.pad)
SFLExtended_mpls(e) ==
  SFLAddress(e.ip) \o SFLLabelStack(e.n) \o SFLLabelStack(e.n)
SFLExtended_nat(e) == SFLAddress(e.ip) \o SFLAddress(e.ip)
SFLExtended_mpls_tunnel(e) == SFLString(e.n, TRUE) \o U(2, 0)
SFLExtended_mpls_vc(e) == SFLString(e.n, TRUE) \o U(2, 0)
SFLExtended_mpls_FTN(e) == SFLString(e.n, TRUE) \o U(1, 0)
SFLExtended_mpls_LDP_FEC == U(1, 0)
SFLExtended_vlan_tunnel(e) == SFLLabelStack(e.n)
SFLExtended_wifi_payload(e) == U(1, 0) \o SFLSampled_header(e)
SFLExtended_wifi_rx(e) == SFLString(e.n, TRUE) \o Bytes(Align(6)) \o U(5, 1)
SFLExtended_wifi_tx(e) == SFLString(e.n, TRUE) \o Bytes(Align(6)) \o U(6, 1)
SFLExtended_socket_ipv4 == U(5, 0)
SFLExtended_socket_ipv6 == U(1, 0) \o Bytes(16) \o Bytes(16) \o U(2, 0)
SFLSampled_memcache(e) == U(2, 0) \o SFLString(e.n, TRUE) \o U(4, 0)
SFLSampled_http(e) == U(2, 0) \o Copies(6, SFLString(e.n, TRUE)) \o U(2, 1)
SFLSampled_CAL(e) == U(2, 0) \o Copies(4, SFLString(e.n, TRUE)) \o U(0, 1)

\* Data of a tag the decoder does not know
Unknown(e) == Bytes(IF e.pad THEN Align(e.n) ELSE e.n)

SFLFlow_type(e) ==
  LET T == SFLFlow_type_tag IN
  CASE e.tag = T.HEADER -> SFLSampled_header(e)
    [] e.tag = T.ETHERNET -> SFLSampled_ethernet
    [] e.tag = T.IPV4 -> SFLSampled_ipv4
    [] e.tag = T.IPV6 -> SFLSampled_ipv6
    [] e.tag = T.EX_SWITCH -> SFLExtended_switch
    [] e.tag = T.EX_ROUTER -> SFLExtended_router(e)
    [] e.tag = T.EX_GATEWAY -> SFLExtended_gateway(e)
    [] e.tag = T.EX_USER -> SFLExtended_user(e)
    [] e.tag = T.EX_URL -> SFLExtended_url(e)
    [] e.tag = T.EX_MPLS -> SFLExtended_mpls(e)
    [] e.tag = T.EX_NAT -> SFLExtended_nat(e)
    [] e.tag = T.EX_MPLS_TUNNEL -> SFLExtended_mpls_tunnel(e)
    [] e.tag = T.EX_MPLS_VC -> SFLExtended_mpls_vc(e)
    [] e.tag = T.EX_MPLS_FTN -> SFLExtended_mpls_FTN(e)
    [] e.tag = T.EX_MPLS_LDP_FEC -> SFLExtended_mpls_LDP_FEC
    [] e.tag = T.EX_VLAN_TUNNEL -> SFLExtended_vlan_tunnel(e)
    [] e.tag = T.EX_80211_PAYLOAD -> SFLExtended_wifi_payload(e)
    [] e.tag = T.EX_80211_RX -> SFLExtended_wifi_rx(e)
    [] e.tag = T.EX_80211_TX -> SFLExtended_wifi_tx(e)
    [] e.tag = T.EX_SOCKET4 -> SFLExtended_socket_ipv4
    [] e.tag = T.EX_SOCKET6 -> SFLExtended_socket_ipv6
    [] e.tag = T.MEMCACHE -> SFLSampled_memcache(e)
    [] e.tag = T.HTTP -> SFLSampled_http(e)
    [] e.tag = T.CAL -> SFLSampled_CAL(e)
    [] OTHER -> Unknown(e)

\* Counter blocks of version 5 (WIFI is SFLCOUNTERS_80211)
SFLCounters_type_tag ==
  [GENERIC |-> 1, ETHERNET |-> 2, TOKENRING |-> 3, VG |-> 4, VLAN |-> 5,
   WIFI |-> 6, PROCESSOR |-> 1001, RADIO |-> 1002, HOST_HID |-> 2000,
   ADAPTORS |-> 2001, HOST_PAR |-> 2002, HOST_CPU |-> 2003, HOST_MEM |-> 2004,
   HOST_DSK |-> 2005, HOST_NIO |-> 2006, HOST_VRT_NODE |-> 2100,
   HOST_VRT_CPU |-> 2101, HOST_VRT_MEM |-> 2102, HOST_VRT_DSK |-> 2103,
   HOST_VRT_NIO |-> 2104, MEMCACHE |-> 2200, HTTP |-> 2201,
   CAL |-> 4300 * 4096 + 5]

SFLIf_counters == U(16, 3)
SFLEthernet_counters == U(13, 0)
SFLTokenring_counters == U(18, 0)
SFLVg_counters == U(8, 6)
SFLVlan_counters == U(5, 1)
SFLWifi_counters == U(20, 0)
SFLProcessor_counters == U(3, 2)
SFLRadio_counters == U(3, 0)
SFLHostId(e) ==
  SFLString(e.n, TRUE) \o Bytes(16) \o U(2, 0) \o SFLString(e.n, e.pad)
SFLAdaptor(n) == U(1, 0) \o Word(n) \o Bytes(8 * n)
SFLAdaptorList(e) == Word(e.n) \o Copies(e.n, SFLAdaptor(e.n))
SFLHost_parent == U(2, 0)
SFLHost_cpu_counters == U(17, 0)
SFLHost_mem_counters == U(4, 7)
SFLHost_dsk_counters == U(5, 4)
SFLHost_nio_counters == U(6, 2)
SFLHost_vrt_node_counters == U(3, 2)
SFLHost_vrt_cpu_counters == U(3, 0)
SFLHost_vrt_mem_counters == U(0, 2)
SFLHost_vrt_dsk_counters == U(3, 5)
SFLHost_vrt_nio_counters == U(6, 2)
SFLMemcache_counters == U(30, 3)
SFLHTTP_counters == U(15, 0)
SFLCAL_counters == U(2, 1)

SFLCounters_type(e) ==
  LET T == SFLCounters_type_tag IN
  CASE e.tag = T.GENERIC -> SFLIf_counters
    [] e.tag = T.ETHERNET -> SFLEthernet_counters
    [] e.tag = T.TOKENRING -> SFLTokenring_counters
    [] e.tag = T.VG -> SFLVg_counters
    [] e.tag = T.VLAN -> SFLVlan_counters
    [] e.tag = T.WIFI -> SFLWifi_counters
    [] e.tag = T.PROCESSOR -> SFLProcessor_counters
    [] e.tag = T.RADIO -> SFLRadio_counters
    [] e.tag = T.HOST_HID -> SFLHostId(e)
    [] e.tag = T.ADAPTORS -> SFLAdaptorList(e)
    [] e.tag = T.HOST_PAR -> SFLHost_parent
    [] e.tag = T.HOST_CPU -> SFLHost_cpu_counters
    [] e.tag = T.HOST_MEM -> SFLHost_mem_counters
    [] e.tag = T.HOST_DSK -> SFLHost_dsk_counters
    [] e.tag = T.HOST_NIO -> SFLHost_nio_counters
    [] e.tag = T.HOST_VRT_NODE -> SFLHost_vrt_node_counters
    [] e.tag = T.HOST_VRT_CPU -> SFLHost_vrt_cpu_counters
    [] e.tag = T.HOST_VRT_MEM -> SFLHost_vrt_mem_counters
    [] e.tag = T.HOST_VRT_DSK -> SFLHost_vrt_dsk_counters
    [] e.tag = T.HOST_VRT_NIO -> SFLHost_vrt_nio_counters
    [] e.tag = T.MEMCACHE -> SFLMemcache_counters
    [] e.tag = T.HTTP -> SFLHTTP_counters
    [] e.tag = T.CAL -> SFLCAL_counters
    [] OTHER -> Unknown(e)

\* Flow data and counter blocks of versions 2 and 4, which carry no lengths
INMPacket_information_type == [HEADER |-> 1, IPV4 |-> 2, IPV6 |-> 3]
INMSampled_header(e) == Word(e.proto) \o U(1, 0) \o SFLString(e.n, TRUE)
INMSampled_ipv4 == U(8, 0)
INMSampled_ipv6 == U(2, 0) \o Bytes(16) \o Bytes(16) \o U(4, 0)
INMPacket_data_type(e) ==
  LET T == INMPacket_information_type IN
  CASE e.tag = T.HEADER -> INMSampled_header(e)
    [] e.tag = T.IPV4 -> INMSampled_ipv4
    [] e.tag = T.IPV6 -> INMSampled_ipv6
    [] OTHER -> Unknown(e)

INMExtended_information_type ==
  [SWITCH |-> 1, ROUTER |-> 2, GATEWAY |-> 3, USER |-> 4, URL |-> 5]
INMExtended_switch == U(4, 0)
INMExtended_router(e) == SFLAddress(e.ip) \o U(2, 0)
INMExtended_gateway_v2(e) == U(3, 0) \o Word(e.n) \o U(e.n, 0)
INMExtended_gateway_v4(e) ==
  U(3, 0) \o Word(e.n) \o Copies(e.n, SFLExtended_as_path_segment(e.n))
    \o Word(e.n) \o U(e.n, 0) \o U(1, 0)
INMExtended_user(e) == SFLString(e.n, TRUE) \o SFLString(e.n, TRUE)
INMExtended_url(e) == U(1, 0) \o SFLString(e.n, TRUE)
INMExtended_data(version, e) ==
  LET T == INMExtended_information_type IN
  CASE e.tag = T.SWITCH -> INMExtended_switch
    [] e.tag = T.ROUTER -> INMExtended_router(e)
    [] e.tag = T.GATEWAY -> IF version = 2 THEN INMExtended_gateway_v2(e)
                                           ELSE INMExtended_gateway_v4(e)
    [] e.tag = T.USER -> INMExtended_user(e)
    [] e.tag = T.URL -> INMExtended_url(e)
    [] OTHER -> Unknown(e)

INMCounters_version == [GENERIC |-> 1, ETHERNET |-> 2, TOKENRING |-> 3,
                        FDDI |-> 4, VG |-> 5, WAN |-> 6, VLAN |-> 7]
INMIf_counters == U(16, 3)
INMEthernet_specific_counters == U(13, 0)
INMTokenring_specific_counters == U(18, 0)
INMVg_specific_counters == U(8, 6)
INMVlan_counters == U(5, 1)
INMCounters_type(e) ==
  LET T == INMCounters_version IN
  CASE e.tag \in {T.GENERIC, T.FDDI, T.WAN} -> INMIf_counters
    [] e.tag = T.ETHERNET -> INMIf_counters \o INMEthernet_specific_counters
    [] e.tag = T.TOKENRING -> INMIf_counters \o INMTokenring_specific_counters
    [] e.tag = T.VG -> INMIf_counters \o INMVg_specific_counters
    [] e.tag = T.VLAN -> INMVlan_counters
    [] OTHER -> Unknown(e)

-----------------------------------------------------------------------------
(***************************************************************************)
(* Samples and datagrams.  A sample is its type, its elements and what its *)
(* length lies by; in versions 2 and 4 the first element of a flow sample  *)
(* is its packet data, and that of a counters sample its counter block.    *)
(***************************************************************************)
SFL_sample_tag == [FLOW |-> 1, COUNTERS |-> 2,
                   FLOW_EXPANDED |-> 3, COUNTERS_EXPANDED |-> 4]

Width(cells) == FoldSeq(LAMBDA c, n : c.w + n, 0, cells)

Element(type, e) ==
  LET data == IF type \in {SFL_sample_tag.FLOW, SFL_sample_tag.FLOW_EXPANDED}
                THEN SFLFlow_type(e) ELSE SFLCounters_type(e)
  IN  Word(e.tag) \o Word(Width(data) + e.lie) \o data

SFLFlow_sample == U(7, 0)
SFLFlow_sample_expanded == U(10, 0)
SFLCounters_sample == U(2, 0)
SFLCounters_sample_expanded == U(3, 0)

Fixed(type) ==
  CASE type = SFL_sample_tag.FLOW -> SFLFlow_sample
    [] type = SFL_sample_tag.FLOW_EXPANDED -> SFLFlow_sample_expanded
    [] type = SFL_sample_tag.COUNTERS -> SFLCounters_sample
    [] OTHER -> SFLCounters_sample_expanded

Sample5(s) ==
  LET elements == FlattenSeq([i \in DOMAIN s.els |-> Element(s.type, s.els[i])])
      body == IF s.type \in 1..4
                THEN Fixed(s.type) \o Word(Len(s.els)) \o elements
                ELSE U(2, 0)
  IN  Word(s.type) \o Word(Width(body) + s.lie) \o body

INMFlow_sample(version, s) ==
  LET ext == Tail(s.els)
  IN  U(7, 0) \o Word(Head(s.els).tag) \o INMPacket_data_type(Head(s.els))
        \o Word(Len(ext))
        \o FlattenSeq([i \in DOMAIN ext |->
                         Word(ext[i].tag) \o INMExtended_data(version, ext[i])])

INMCounters_sample(s) ==
  U(3, 0) \o Word(Head(s.els).tag) \o INMCounters_type(Head(s.els))

Sample(version, s) ==
  IF version >= 5 THEN Sample5(s)
  ELSE Word(s.type) \o (IF s.type = 1 THEN INMFlow_sample(version, s)
                                      ELSE INMCounters_sample(s))

\* dg.extra more samples are announced than the datagram holds
SFLSample_datagram_hdr(dg) ==
  Word(dg.version) \o SFLAddress(dg.ip) \o U(IF dg.version >= 5 THEN 3 ELSE 2, 0)
    \o Word(Len(dg.samples) + dg.extra)

Layout(dg) ==
  SFLSample_datagram_hdr(dg)
    \o FlattenSeq([k \in DOMAIN dg.samples |-> Sample(dg.version, dg.samples[k])])

\* Where the k-th sample of the datagram begins, and where its last one ends
SampleStart(dg, k) ==
  Width(SFLSample_datagram_hdr(dg))
    + Width(FlattenSeq([i \in 1..(k - 1) |-> Sample(dg.version, dg.samples[i])]))

\* The steering values of a layout, by their offset in the datagram
Steering(cells) ==
  LET offset[i \in 1..(Len(cells) + 1)] ==
        IF i = 1 THEN 0 ELSE offset[i - 1] + cells[i - 1].w
      valued == {i \in DOMAIN cells : cells[i].v # Plain}
  IN  [o \in {offset[i] : i \in valued} |->
         cells[CHOOSE i \in valued : offset[i] = o].v]
=============================================================================
