------------------------------ MODULE MCRecord ------------------------------
(* Instance of Record for TLC.  Templates are sets of fields, met in every *)
(* order: ends and direction with MACs, with ports and interfaces, in IPv6,*)
(* in both versions, with the client's own fields, and with the private    *)
(* fields of Cisco; and the template without fields.                       *)
EXTENDS Record

MCFieldSets ==
  {{"IPV4_SRC_ADDR", "IPV4_DST_ADDR", "DIRECTION", "IN_SRC_MAC", "OUT_DST_MAC"},
   {"IN_SRC_MAC", "IN_DST_MAC", "OUT_SRC_MAC", "DIRECTION", "TCP_FLAGS"},
   {"L4_SRC_PORT", "L4_DST_PORT", "INPUT_SNMP", "OUTPUT_SNMP", "DIRECTION"},
   {"IPV6_SRC_ADDR", "IPV6_DST_ADDR", "DIRECTION"},
   {"IPV4_SRC_ADDR", "IPV6_DST_ADDR", "STA_MAC_ADDRESS", "IN_SRC_MAC"},
   {"IPV4_SRC_ADDR", "IPV6_SRC_ADDR", "IPV4_DST_ADDR"},
   {"IPV4_SRC_ADDR", "STA_IPV4_ADDRESS", "STA_MAC_ADDRESS", "DIRECTION"},
   {"CISCO_HTTP_URL", "CISCO_HTTP_HOST", "CISCO_HTTP_REFERER",
    "CISCO_HTTPS_COMMON_NAME"},
   {}}

MCVals == [k \in DOMAIN ver9_templates |->
  CASE k = "IPV4_SRC_ADDR" -> {"10.0.0.1", "8.8.8.8", "bad"}
    [] k = "IPV4_DST_ADDR" -> {"10.0.0.2", "9.9.9.9"}
    [] k = "IPV6_SRC_ADDR" -> {"2001::1", "fd00::1", NoAddr, "bad"}
    [] k = "IPV6_DST_ADDR" -> {"3fff::2", "fd00::2"}
    [] k = "STA_IPV4_ADDRESS" -> {"10.0.0.1", "bad"}
    [] k = "DIRECTION" -> {"0", "1", "2"}
    [] k \in {"L4_SRC_PORT", "L4_DST_PORT"} -> {"80", "4000", "bad"}
    [] k \in {"INPUT_SNMP", "OUTPUT_SNMP"} -> {"1", "2"}
    [] k = "TCP_FLAGS" -> {Zero, "S"}
    [] k \in {"IN_SRC_MAC", "STA_MAC_ADDRESS"} -> {Zero, "a", "bad"}
    [] k \in {"IN_DST_MAC", "OUT_DST_MAC", "OUT_SRC_MAC"} -> {Zero, "b"}
    [] k = "CISCO_HTTP_URL" -> {"/", "bad"}
    [] k = "CISCO_HTTP_HOST" -> {"www.a.org", "..", "bad"}
    [] k = "CISCO_HTTP_REFERER" -> {"www.b.org", "bad"}
    [] OTHER -> {"www.c.org", "bad"}]

MCL2 == [h \in {"www.a.org", "www.b.org", "www.c.org"} |->
  CASE h = "www.a.org" -> "a.org" [] h = "www.b.org" -> "b.org"
    [] OTHER -> "c.org"]
=============================================================================
