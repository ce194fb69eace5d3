------------------------------- MODULE Record -------------------------------
(***************************************************************************)
(* How one flow record becomes one JSON message: export.c, driven by the   *)
(* table of template.h and by the loops of collect.c that walk over the    *)
(* fields of a record.  Every field is an element of the table: a name, a  *)
(* function that prints or stores it, and further elements printed from    *)
(* the same bytes.  With --normalize-directions the ends of the flow are   *)
(* stored and printed at the end, as seen from the LAN.                    *)
(*                                                                         *)
(* The message is a sequence of tokens: braces, commas, and members (name  *)
(* and value).  Values are strings that stand for the text the code would  *)
(* format: an address under the name of a network stands for its network,  *)
(* and so on.  "bad" is a field whose length its function refuses.  The    *)
(* name of a network comes and goes with the network, the AS with the      *)
(* country, the description of an interface with its name: each pair is    *)
(* one element here.                                                       *)
(***************************************************************************)
EXTENDS Naturals, Sequences, SequencesExt

CONSTANTS FieldSets,  \* the fields that the templates of probes consist of
          Vals,       \* Vals[k]: the values of field k that records carry
          Home,       \* addresses inside the home networks of the sensor
          Listed,     \* addresses inside the networks of the global list
          Private,    \* addresses that is_private takes for private
          Located,    \* addresses that the GeoIP databases know
          Vendors,    \* MACs of known vendors
          L2,         \* L2[h]: the level 2 domain of host h, if one is left
          Members     \* bound: numbers of members of a sensor's enrichment

VARIABLES cfg,     \* what options and sensor configuration say
          rest,    \* the fields of the record still to come
          fields,  \* history: the fields read so far, with their values
          cache,   \* struct flowCache
          buf,     \* kafka_line_buffer
          pc,      \* where the worker is
          key      \* string_list.client_mac, what Kafka's partitioner gets

vars == <<cfg, rest, fields, cache, buf, pc, key>>

NoAddr == "::"     \* sixteen zero bytes
Zero == "0"        \* a port, an interface or a MAC that is zero

NoCache == [src |-> NoAddr, dst |-> NoAddr, client |-> NoAddr,
            src_port |-> Zero, dst_port |-> Zero,
            input |-> Zero, output |-> Zero,
            src_mac |-> Zero, dst_mac |-> Zero, post_dst_mac |-> Zero,
            post_src_mac |-> Zero, client_mac |-> Zero,
            http_host |-> "", http_referer |-> "", ssl_common_name |-> "",
            direction |-> "unset"]

(* What an export function leaves: the flow cache, and its text, if any.   *)
Printed(c, v) == [cache |-> c, out |-> <<v>>]
Nothing(c) == [cache |-> c, out |-> <<>>]
When(p, c, v) == IF p THEN Printed(c, v) ELSE Nothing(c)

-----------------------------------------------------------------------------
(* The ends of a flow, seen from the LAN.                                  *)

ip_direction(known_src, known_dst) ==
  CASE ~known_src /\ known_dst -> "downstream"
    [] known_src /\ ~known_dst -> "upstream"
    [] known_src /\ known_dst -> "internal"
    [] OTHER -> "unset"

\* A slip, for the mutation runs: a direction told by the probe is believed.
guessDirection_if_unset(c) ==
  LET guess == ip_direction(c.src \in Home, c.dst \in Home)
  IN IF c.src = NoAddr \/ c.dst = NoAddr \/ guess = "unset" \/ c.direction # "unset"
     THEN c ELSE [c EXCEPT !.direction = guess]

(* The home networks have the last word; without an address, or with both  *)
(* ends outside, the direction stays what the record said.                 *)
guessDirection(c) ==
  LET guess == ip_direction(c.src \in Home, c.dst \in Home)
  IN IF c.src = NoAddr \/ c.dst = NoAddr \/ guess = "unset"
     THEN c ELSE [c EXCEPT !.direction = guess]

GET_CLIENT_ENDPOINT(c, src, dst) ==
  IF c.direction = "downstream" THEN dst ELSE src

client_mac(c) ==
  GET_CLIENT_ENDPOINT(c, c.src_mac,
                      IF cfg.span THEN c.dst_mac ELSE c.post_dst_mac)

client_port(c) == GET_CLIENT_ENDPOINT(c, c.src_port, c.dst_port)
target_port(c) == IF client_port(c) = c.src_port THEN c.dst_port ELSE c.src_port

client_interface(c) == GET_CLIENT_ENDPOINT(c, c.input, c.output)
target_interface(c) ==
  IF client_interface(c) = c.input THEN c.output ELSE c.input

(* Addresses are compared as pointers: "src", "dst" and "client" here.     *)
client_end(c) == IF c.client # NoAddr THEN "client"
                 ELSE GET_CLIENT_ENDPOINT(c, "src", "dst")
client_ip(c) == c[client_end(c)]
target_ip(c) == c[IF client_end(c) = "src" THEN "dst" ELSE "src"]

-----------------------------------------------------------------------------
(* Export functions: what each prints and what it stores.                  *)

(* Stored for later when directions are normalized.                        *)
store_or_print(end, v, c) ==
  IF cfg.normalize THEN Nothing([c EXCEPT ![end] = v]) ELSE Printed(c, v)

process_mac0(end, v, c) ==
  IF v = "bad" THEN Nothing(c) ELSE store_or_print(end, v, c)
process_port0(end, v, c) ==
  IF v = "bad" THEN Nothing(c) ELSE store_or_print(end, v, c)
process_ipv4_addr0(end, v, c) ==
  IF v = "bad" THEN Nothing(c) ELSE store_or_print(end, v, c)
process_snmp_interface(end, v, c) == store_or_print(end, v, c)

(* The IPv6 functions store and print, normalized or not.                  *)
print_ipv6(end, v, c) ==
  IF v = "bad" THEN Nothing(c) ELSE Printed([c EXCEPT ![end] = v], v)

process_direction(v, c) ==
  CASE v \notin {"0", "1"} -> Nothing(c)
    [] v \in {"0", "1"} /\ cfg.normalize -> Nothing([c EXCEPT !.direction =
         IF (v = "0") # cfg.wan_side THEN "upstream" ELSE "downstream"])
    [] OTHER -> Printed(c, IF v = "0" THEN "ingress" ELSE "egress")

print_net0(a, c) == When(a \in Home \cup Listed, c, a)
print_net(v, c) == IF v = "bad" \/ cfg.normalize THEN Nothing(c)
                   ELSE print_net0(v, c)

print_country_code(v, c) == When(~cfg.normalize /\ v \in Located, c, v)
geoip_decorator(v, c) == When(v \notin Private /\ v \in Located, c, v)

print_sta_ipv4_address(v, c) ==
  IF v = "bad" THEN Nothing(c) ELSE Printed([c EXCEPT !.client = v], v)

print_mac_vendor0(v, c) == When(v # Zero /\ v \in Vendors, c, v)

print_client_mac(v, c) ==
  IF v = "bad" \/ c.client_mac # Zero THEN Nothing(c)
  ELSE Printed([c EXCEPT !.client_mac = v], v)

\* A slip, for the mutation runs: the MAC is printed but not kept.
print_direction_based_client_mac_only(c) ==
  When(c.client_mac = Zero, c, client_mac(c))

print_direction_based_client_mac(c) ==
  IF c.client_mac # Zero THEN Nothing(c)
  ELSE Printed([c EXCEPT !.client_mac = client_mac(c)], client_mac(c))

print_interface_name(v, c) == When(~cfg.normalize, c, v)

(* Zero flags, wrong lengths and the like are not printed.                 *)
print_tcp_flags(v, c) == When(v \notin {"bad", Zero}, c, v)

(* The private fields of Cisco carry their meaning in their first bytes;   *)
(* some are also stored.                                                   *)
print_cisco_private_buffer(v, c) == When(v # "bad", c, v)
print_http(name, v, c) ==
  IF v = "bad" THEN Nothing(c) ELSE Printed([c EXCEPT ![name] = v], v)

flowcache_host(c) ==
  IF c.http_host # "" THEN c.http_host ELSE c.ssl_common_name
flowcache_referer(c) ==
  IF c.http_referer # "" THEN c.http_referer ELSE flowcache_host(c)

print_host(c) == When(flowcache_host(c) # "", c, flowcache_host(c))
print_referer(c) == When(flowcache_referer(c) # "", c, flowcache_referer(c))
print_http_l2_domain(h, c) == When(h \in DOMAIN L2, c, L2[h])
print_host_l2(c) == print_http_l2_domain(flowcache_host(c), c)
print_referer_l2(c) == print_http_l2_domain(flowcache_referer(c), c)

(* The normalized elements: from the flow cache alone.                     *)
print_flow_cache_direction(c) == When(c.direction # "unset", c, c.direction)

print_lan_interface(c) == Printed(c, client_interface(c))
print_wan_interface(c) == Printed(c, target_interface(c))
print_lan_interface_name(c) == Printed(c, client_interface(c))
print_wan_interface_name(c) == Printed(c, target_interface(c))
print_direction_based_client_mac_vendor(c) == print_mac_vendor0(client_mac(c), c)
print_lan_addr(c) == Printed(c, client_ip(c))
print_wan_addr(c) == Printed(c, target_ip(c))
print_lan_addr_net(c) == print_net0(client_ip(c), c)
print_wan_addr_net(c) == print_net0(target_ip(c), c)
print_lan_country_code(c) == geoip_decorator(client_ip(c), c)
print_wan_country_code(c) == geoip_decorator(target_ip(c), c)
print_lan_port(c) == Printed(c, client_port(c))
print_wan_port(c) == Printed(c, target_port(c))

(* The functions that the table names.                                     *)
export_fn(fn, v, c) ==
  CASE fn = "NO_FN" -> Nothing(c)
    [] fn = "number" -> Printed(c, v)
    [] fn = "tcp_flags" -> print_tcp_flags(v, c)
    [] fn \in {"src", "dst"} -> process_ipv4_addr0(fn, v, c)
    [] fn \in {"src_port", "dst_port"} -> process_port0(fn, v, c)
    [] fn \in {"input", "output"} -> process_snmp_interface(fn, v, c)
    [] fn \in {"src_mac", "dst_mac", "post_dst_mac", "post_src_mac"} ->
         process_mac0(fn, v, c)
    [] fn = "ipv6_src" -> print_ipv6("src", v, c)
    [] fn = "ipv6_dst" -> print_ipv6("dst", v, c)
    [] fn = "direction" -> process_direction(v, c)
    [] fn = "net" -> print_net(v, c)
    [] fn = "country" -> print_country_code(v, c)
    [] fn = "country6" -> geoip_decorator(v, c)
    [] fn = "sta_ipv4" -> print_sta_ipv4_address(v, c)
    [] fn = "client_mac" -> print_client_mac(v, c)
    [] fn = "mac_vendor" -> print_mac_vendor0(v, c)
    [] fn = "interface_name" -> print_interface_name(v, c)
    [] fn = "private" -> print_cisco_private_buffer(v, c)
    [] fn = "private_l2" -> IF v = "bad" THEN Nothing(c)
                            ELSE print_http_l2_domain(v, c)
    [] fn \in {"http_host", "http_referer", "ssl_common_name"} ->
         print_http(fn, v, c)
    [] fn = "host" -> print_host(c)
    [] fn = "host_l2" -> print_host_l2(c)
    [] fn = "referer" -> print_referer(c)
    [] fn = "referer_l2" -> print_referer_l2(c)
    [] fn = "flow_cache_direction" -> print_flow_cache_direction(c)
    [] fn = "lan_interface" -> print_lan_interface(c)
    [] fn = "wan_interface" -> print_wan_interface(c)
    [] fn = "lan_interface_name" -> print_lan_interface_name(c)
    [] fn = "wan_interface_name" -> print_wan_interface_name(c)
    [] fn = "direction_mac" -> print_direction_based_client_mac(c)
    [] fn = "direction_mac_vendor" -> print_direction_based_client_mac_vendor(c)
    [] fn = "lan_addr" -> print_lan_addr(c)
    [] fn = "wan_addr" -> print_wan_addr(c)
    [] fn = "lan_net" -> print_lan_addr_net(c)
    [] fn = "wan_net" -> print_wan_addr_net(c)
    [] fn = "lan_country" -> print_lan_country_code(c)
    [] fn = "wan_country" -> print_wan_country_code(c)
    [] fn = "lan_port" -> print_lan_port(c)
    [] fn = "wan_port" -> print_wan_port(c)

-----------------------------------------------------------------------------
(* The table: for each element its name and function, followed by those of *)
(* its postTemplate, in the order in which the recursion reaches them.     *)
X(name, fn) == [name |-> name, fn |-> fn]

ver9_templates == [
  IPV4_SRC_ADDR |-> <<X("src", "src"), X("src_net", "net"),
                      X("src_country_code", "country")>>,
  IPV4_DST_ADDR |-> <<X("dst", "dst"), X("dst_net", "net"),
                      X("dst_country_code", "country")>>,
  IPV6_SRC_ADDR |-> <<X("src", "ipv6_src"), X("src_net", "net"),
                      X("src_country_code", "country6")>>,
  IPV6_DST_ADDR |-> <<X("dst", "ipv6_dst"), X("dst_net", "net"),
                      X("dst_country_code", "country6")>>,
  INPUT_SNMP |-> <<X("input_snmp", "input"),
                   X("input_snmp_name", "interface_name")>>,
  OUTPUT_SNMP |-> <<X("output_snmp", "output"),
                    X("output_snmp_name", "interface_name")>>,
  L4_SRC_PORT |-> <<X("src_port", "src_port")>>,
  L4_DST_PORT |-> <<X("dst_port", "dst_port")>>,
  DIRECTION |-> <<X("direction", "direction")>>,
  TCP_FLAGS |-> <<X("tcp_flags", "tcp_flags")>>,
  IN_SRC_MAC |-> <<X("src_mac", "src_mac")>>,
  IN_DST_MAC |-> <<X("dst_mac", "dst_mac")>>,
  OUT_DST_MAC |-> <<X("post_dst_mac", "post_dst_mac")>>,
  OUT_SRC_MAC |-> <<X("post_dst_mac", "post_src_mac")>>,
  STA_MAC_ADDRESS |-> <<X("sta_mac", "NO_FN"), X("client_mac", "client_mac"),
                        X("client_mac_vendor", "mac_vendor")>>,
  STA_IPV4_ADDRESS |-> <<X("lan_ip", "sta_ipv4"), X("lan_ip_net", "net"),
                         X("lan_ip_country_code", "country")>>,
  CISCO_HTTP_URL |-> <<X("", "NO_FN"), X("http_url", "private")>>,
  CISCO_HTTP_HOST |-> <<X("", "NO_FN"), X("http_host", "http_host"),
                        X("http_host_l2", "private_l2")>>,
  CISCO_HTTP_REFERER |-> <<X("", "NO_FN"), X("http_referer", "http_referer"),
                           X("http_referer_l2", "NO_FN")>>,
  CISCO_HTTPS_COMMON_NAME |-> <<X("", "NO_FN"),
                                X("https_common_name", "ssl_common_name")>>]

Header == <<X("type", "number"), X("flow_sequence", "number")>>

Hosts == <<X("host", "host"), X("host_l2_domain", "host_l2"),
           X("referer", "referer"), X("referer_l2", "referer_l2")>>

post_templates ==
  <<X("direction", "flow_cache_direction"),
    X("lan_interface", "lan_interface"),
    X("lan_interface_name", "lan_interface_name"),
    X("wan_interface", "wan_interface"),
    X("wan_interface_name", "wan_interface_name"),
    X("client_mac", "direction_mac"),
    X("client_mac_vendor", "direction_mac_vendor"),
    X("wan_ip", "wan_addr"), X("wan_ip_net", "wan_net"),
    X("wan_ip_country_code", "wan_country"),
    X("lan_ip", "lan_addr"), X("lan_ip_net", "lan_net"),
    X("lan_ip_country_code", "lan_country"),
    X("wan_l4_port", "wan_port"), X("lan_l4_port", "lan_port")>>

(* The end of a message, whole or divided by minutes (see FlowTime).       *)
Whole == <<X("first_switched", "number"), X("timestamp", "number"),
           X("bytes", "number"), X("pkts", "number")>>
Separated == <<X("bytes", "number"), X("pkts", "number"),
               X("timestamp", "number")>>

v5TemplateFields ==
  <<"IPV4_SRC_ADDR", "IPV4_DST_ADDR", "INPUT_SNMP", "OUTPUT_SNMP",
    "L4_SRC_PORT", "L4_DST_PORT", "TCP_FLAGS">>

-----------------------------------------------------------------------------
(* The message.                                                            *)

Token(t) == [token |-> t, value |-> ""]
Member(name, v) == [token |-> name, value |-> v]
Open == Token("{")
Comma == Token(",")
Close == Token("}")

\* A slip, for the mutation runs: the place to return to is taken after the
\* comma was written.
print_element_comma(st, x, v) ==
  LET first == st.buf = <<Open>>
      r == export_fn(x.fn, v, st.cache)
      sep == IF first THEN <<>> ELSE <<Comma>>
  IN [buf |-> st.buf \o sep
              \o [i \in 1..Len(r.out) |-> Member(x.name, r.out[i])],
      cache |-> r.cache]

(* One call of printNetflowRecordWithTemplate: a comma unless the buffer   *)
(* is "{", name and value; the buffer is cut back where nothing came out.  *)
print_element(st, x, v) ==
  LET start_bpos == Len(st.buf)
      r == export_fn(x.fn, v, st.cache)
      begun == st.buf \o (IF st.buf = <<Open>> THEN <<>> ELSE <<Comma>>)
      written == begun \o [i \in 1..Len(r.out) |-> Member(x.name, r.out[i])]
  IN [buf |-> IF r.out # <<>> THEN written ELSE SubSeq(written, 1, start_bpos),
      cache |-> r.cache]

(* The recursion over an element and its postTemplate.                     *)
printNetflowRecordWithTemplate(st, xs, v) ==
  LET printed[i \in 0..Len(xs)] ==
        IF i = 0 THEN st ELSE print_element(printed[i - 1], xs[i], v)
  IN  printed[Len(xs)]

(* In v5 the buffer is cut back once more when the field itself came out   *)
(* empty, whatever its further elements printed.                           *)
dissectNetFlowV5Field(st, k, v) ==
  LET xs == ver9_templates[k]
      own == export_fn(xs[1].fn, v, st.cache).out
      all == printNetflowRecordWithTemplate(st, xs, v)
  IN IF own = <<>> THEN [all EXCEPT !.buf = st.buf] ELSE all

(* What is kept of an enrichment object of n members: its text without the *)
(* braces.  Their names are none of those of the message.                  *)
parse_observation_id_enrichment(n) ==
  [i \in 1..(IF n = 0 THEN 0 ELSE 2 * n - 1) |->
     IF i % 2 = 1 THEN Member("sensor_name", "sensor") ELSE Comma]

(* cfg.enrichment is <<>> for a sensor without enrichment, <<n>> for one   *)
(* with n members: a comma and what was kept, be it nothing.               *)
print_sensor_enrichment(b) ==
  IF cfg.enrichment = <<>> THEN b
  ELSE b \o <<Comma>> \o parse_observation_id_enrichment(cfg.enrichment[1])

-----------------------------------------------------------------------------
(* Templates consist of fields of the table; process_snmp_interface looks  *)
(* at no length, so that no interface is refused.                          *)
ASSUME RecordAssumption ==
  /\ FieldSets \subseteq SUBSET DOMAIN ver9_templates
  /\ "bad" \notin Vals["INPUT_SNMP"] \cup Vals["OUTPUT_SNMP"]
  /\ Members \subseteq Nat

Configurations ==
  [v5 : BOOLEAN, normalize : BOOLEAN, wan_side : BOOLEAN, span : BOOLEAN,
   enrichment : {<<>>} \cup {<<n>> : n \in Members}, separate : BOOLEAN]

Init ==
  /\ cfg \in Configurations
  /\ rest \in IF cfg.v5 THEN {Range(v5TemplateFields)} ELSE FieldSets
  /\ fields = {}
  /\ cache = NoCache
  /\ buf = <<Open>>
  /\ pc = "begin"
  /\ key = Zero

RecordBegin ==
  /\ pc = "begin"
  /\ buf' = printNetflowRecordWithTemplate([buf |-> buf, cache |-> cache],
                                           Header, "n").buf
  /\ pc' = "fields"
  /\ UNCHANGED <<cfg, rest, fields, cache, key>>

(* A field of a v9 or IPFIX record, in whatever order the template says.   *)
RecordField ==
  /\ pc = "fields" /\ ~cfg.v5
  /\ \E k \in rest : \E v \in Vals[k] :
       LET st == printNetflowRecordWithTemplate([buf |-> buf, cache |-> cache],
                                                ver9_templates[k], v)
       IN /\ buf' = st.buf
          /\ cache' = st.cache
          /\ rest' = rest \ {k}
          /\ fields' = fields \cup {<<k, v>>}
  /\ UNCHANGED <<cfg, pc, key>>

(* A field of a v5 record: their order is fixed.                           *)
V5Field ==
  /\ pc = "fields" /\ cfg.v5
  /\ \E i \in DOMAIN v5TemplateFields :
       LET k == v5TemplateFields[i]
       IN /\ k \in rest
          /\ \A j \in 1..(i - 1) : v5TemplateFields[j] \notin rest
          /\ \E v \in Vals[k] \ {"bad"} :
               LET st == dissectNetFlowV5Field([buf |-> buf, cache |-> cache], k, v)
               IN /\ buf' = st.buf
                  /\ cache' = st.cache
                  /\ rest' = rest \ {k}
                  /\ fields' = fields \cup {<<k, v>>}
  /\ UNCHANGED <<cfg, pc, key>>

(* After the last field: hosts, the normalized ends, the enrichment.       *)
RecordEnd ==
  /\ pc = "fields" /\ rest = {}
  /\ LET hosts == printNetflowRecordWithTemplate([buf |-> buf, cache |-> cache],
                                                 Hosts, "")
         ends == IF ~cfg.normalize THEN hosts
                 ELSE printNetflowRecordWithTemplate(
                        [hosts EXCEPT !.cache = guessDirection(hosts.cache)],
                        post_templates, "")
     IN /\ buf' = print_sensor_enrichment(ends.buf)
        /\ cache' = ends.cache
  /\ pc' = "split"
  /\ UNCHANGED <<cfg, rest, fields, key>>

(* time_split_flow: times and counters, the closing brace, and the node of *)
(* the list that goes to Kafka.  Messages of a separated flow get no MAC.  *)
Send ==
  /\ pc = "split"
  /\ buf' = printNetflowRecordWithTemplate(
              [buf |-> buf, cache |-> cache],
              IF cfg.separate THEN Separated ELSE Whole, "n").buf \o <<Close>>
  /\ key' = IF cfg.separate THEN Zero ELSE cache.client_mac
  /\ pc' = "sent"
  /\ UNCHANGED <<cfg, rest, fields, cache>>

Next == RecordBegin \/ RecordField \/ V5Field \/ RecordEnd \/ Send

Spec == Init /\ [][Next]_vars

-----------------------------------------------------------------------------
(* Properties.                                                             *)

IsMember(t) == t \notin {Open, Comma, Close}

(* Members between braces, one comma between two of them, none elsewhere.  *)
Object(b) ==
  /\ Len(b) % 2 = 1 /\ Len(b) >= 3
  /\ \A i \in DOMAIN b :
       CASE i = 1 -> b[i] = Open
         [] i = Len(b) -> b[i] = Close
         [] i % 2 = 0 -> IsMember(b[i])
         [] OTHER -> b[i] = Comma

(***************************************************************************)
(* Every message is one JSON object, whichever fields, elements of         *)
(* elements, enrichments and counters printed something or nothing         *)
(* (printNetflowRecordWithTemplate and its cutting back of the buffer).    *)
(* Left out are sensors whose enrichment is the empty object: nothing but  *)
(* its comma is written (print_sensor_enrichment), so that two commas      *)
(* follow each other.                                                      *)
(***************************************************************************)
WellFormed == pc = "sent" /\ cfg.enrichment # <<0>> => Object(buf)

Values(name) == {buf[i].value : i \in {j \in DOMAIN buf : buf[j].token = name}}

(* The record gave field k, in a right length.                             *)
Given(k) == \E f \in fields : f[1] = k /\ f[2] # "bad"

(* What the record said of the fields ks, or z.                            *)
Said(ks, z) ==
  IF \E k \in ks : Given(k)
  THEN (CHOOSE f \in fields : f[1] \in ks /\ f[2] # "bad")[2] ELSE z

(* No end of the flow is given twice, in IPv4 and in IPv6.                 *)
OneAddressEach ==
  /\ ~(Given("IPV4_SRC_ADDR") /\ Given("IPV6_SRC_ADDR"))
  /\ ~(Given("IPV4_DST_ADDR") /\ Given("IPV6_DST_ADDR"))

(* The direction of the flow, from the record as a whole: home networks    *)
(* first, then the probe's word, turned round if it stands on the WAN side.*)
DirectionOf ==
  LET src == Said({"IPV4_SRC_ADDR", "IPV6_SRC_ADDR"}, NoAddr)
      dst == Said({"IPV4_DST_ADDR", "IPV6_DST_ADDR"}, NoAddr)
      told == Said({"DIRECTION"}, "none")
      known == NoAddr \notin {src, dst} /\ {src, dst} \cap Home # {}
  IN CASE known /\ {src, dst} \subseteq Home -> "internal"
       [] known /\ dst \notin Home -> "upstream"
       [] known /\ src \notin Home -> "downstream"
       [] ~known /\ told \in {"0", "1"} -> IF (told = "1") = cfg.wan_side
                                           THEN "upstream" ELSE "downstream"
       [] OTHER -> "unset"

(* The message shows both ends of the flow as the LAN sees them: direction *)
(* as above; address, port and interface of one end under the names of the *)
(* LAN, those of the other end under the names of the WAN; the client's    *)
(* MAC, if no field gave it, is the LAN's.                                 *)
SeenFromLan ==
  LET src == [ip |-> Said({"IPV4_SRC_ADDR", "IPV6_SRC_ADDR"}, NoAddr),
              port |-> Said({"L4_SRC_PORT"}, Zero),
              interface |-> Said({"INPUT_SNMP"}, Zero),
              mac |-> Said({"IN_SRC_MAC"}, Zero)]
      dst == [ip |-> Said({"IPV4_DST_ADDR", "IPV6_DST_ADDR"}, NoAddr),
              port |-> Said({"L4_DST_PORT"}, Zero),
              interface |-> Said({"OUTPUT_SNMP"}, Zero),
              mac |-> Said({IF cfg.span THEN "IN_DST_MAC" ELSE "OUT_DST_MAC"},
                           Zero)]
      lan == IF DirectionOf = "downstream" THEN dst ELSE src
      wan == IF DirectionOf = "downstream" THEN src ELSE dst
  IN /\ Values("direction") = {DirectionOf} \ {"unset"}
     /\ Values("lan_ip") = {lan.ip} /\ Values("wan_ip") = {wan.ip}
     /\ Values("lan_l4_port") = {lan.port}
     /\ Values("wan_l4_port") = {wan.port}
     /\ Values("lan_interface") = {lan.interface}
     /\ Values("wan_interface") = {wan.interface}
     /\ ~Given("STA_MAC_ADDRESS") => Values("client_mac") = {lan.mac}

(***************************************************************************)
(* A normalized record is told from one point of view: its direction is    *)
(* what the fields of the record mean together, in whatever order they     *)
(* came, and address, port and interface of the LAN are those of one end   *)
(* of the flow, the WAN's those of the other; so is the client's MAC, if   *)
(* no field gave it.  Left out are records with a client address of their  *)
(* own (STA_IPV4_ADDRESS): then the WAN address is always the source, also *)
(* where the client is the source (get_direction_based_target_ip); and     *)
(* those that give an end twice, where the later field wins.               *)
(***************************************************************************)
Viewpoint ==
  pc = "sent" /\ cfg.normalize /\ ~Given("STA_IPV4_ADDRESS") /\ OneAddressEach =>
    SeenFromLan

(***************************************************************************)
(* Records of one client go to one partition: what Kafka's partitioner is  *)
(* given (rb_client_mac_partitioner) is the MAC that the message itself    *)
(* calls client_mac, and a message without one is given none.  Left out    *)
(* are separated flows: rb_separate_long_time_flow never sets the MAC of   *)
(* its nodes, so their messages are spread at random.                      *)
(***************************************************************************)
ClientPartition ==
  pc = "sent" /\ ~cfg.separate => {key} \ {Zero} = Values("client_mac") \ {Zero}
=============================================================================
