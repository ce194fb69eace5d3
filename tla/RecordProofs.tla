---------------------------- MODULE RecordProofs ----------------------------
(***************************************************************************)
(* One flow record becomes one JSON object, told from one end of the flow, *)
(* with the partition key of the client it names: for any templates, any   *)
(* values, any networks and any order of the fields.                       *)
(***************************************************************************)
EXTENDS Record, WellFoundedInduction, TLAPS

-----------------------------------------------------------------------------
(* Induction over a list of elements.                                      *)

LEMMA LeastNumber ==
  ASSUME NEW T, T \subseteq Nat, T # {}
  PROVE  \E m \in T : \A k \in T : m <= k
<1> DEFINE R == {ss \in Nat \X Nat : ss[1] < ss[2]}
<1>1. IsWellFoundedOn(R, Nat)
  BY NatLessThanWellFounded DEF OpToRel
<1>2. PICK m \in T : \A k \in T : ~(<<k, m>> \in R)
  BY <1>1, WFMin
<1>3. \A k \in T : ~(k < m)
  BY <1>2
<1> QED
  BY <1>3

\* A set of numbers with 0 and with the successors of its members is Nat.
LEMMA SetInduction ==
  ASSUME NEW P, 0 \in P, \A n \in Nat : n \in P => n + 1 \in P
  PROVE  Nat \subseteq P
<1> SUFFICES ASSUME Nat \ P # {} PROVE FALSE
  OBVIOUS
<1>1. PICK m \in Nat \ P : \A k \in Nat \ P : m <= k
  BY LeastNumber
<1>2. m # 0 /\ m - 1 \in Nat /\ m - 1 \notin Nat \ P
  BY <1>1
<1> QED
  BY <1>1, <1>2

\* The states that the printing of a list goes through.
Prints(f, st, xs, v) ==
  /\ f[0] = st
  /\ \A i \in 1..Len(xs) : f[i] = print_element(f[i - 1], xs[i], v)

LEMMA Printing ==
  ASSUME NEW st, NEW xs, Len(xs) \in Nat, NEW v
  PROVE  \E f : Prints(f, st, xs, v) /\ printNetflowRecordWithTemplate(st, xs, v) = f[Len(xs)]
<1> DEFINE Next_(f, i) == IF i = 0 THEN st ELSE print_element(f[i - 1], xs[i], v)
           Good(n) == \E f : f = [i \in 0..n |-> Next_(f, i)]
           P == {n \in Nat : Good(n)}
<1>1. 0 \in P
  <2>1. [i \in 0..0 |-> st] = [i \in 0..0 |-> Next_([j \in 0..0 |-> st], i)]
    OBVIOUS
  <2> QED
    BY <2>1
<1>2. ASSUME NEW n \in Nat, n \in P PROVE n + 1 \in P
  <2>1. PICK f : f = [i \in 0..n |-> Next_(f, i)]
    BY <1>2
  <2> DEFINE g == [i \in 0..(n + 1) |-> IF i <= n THEN f[i] ELSE print_element(f[n], xs[n + 1], v)]
  <2>2. ASSUME NEW i \in 0..(n + 1) PROVE g[i] = Next_(g, i)
    <3>1. CASE i <= n
      <4>1. g[i] = f[i] /\ f[i] = Next_(f, i)
        BY <3>1, <2>1
      <4>2. i # 0 => g[i - 1] = f[i - 1]
        BY <3>1
      <4> QED
        BY <4>1, <4>2
    <3>2. CASE i = n + 1
      BY <3>2
    <3> QED
      BY <3>1, <3>2
  <2>3. g = [i \in 0..(n + 1) |-> Next_(g, i)]
    BY <2>2
  <2> HIDE DEF g
  <2>4. Good(n + 1)
    BY <2>3
  <2> QED
    BY <2>4
<1>3. Good(Len(xs))
  BY <1>1, <1>2, SetInduction
<1> DEFINE at == CHOOSE f : f = [i \in 0..Len(xs) |-> Next_(f, i)]
<1>4. at = [i \in 0..Len(xs) |-> Next_(at, i)]
  BY <1>3
<1>5. printNetflowRecordWithTemplate(st, xs, v) = at[Len(xs)]
  BY DEF printNetflowRecordWithTemplate
<1>6. Prints(at, st, xs, v)
  <2>1. \A i \in 0..Len(xs) : at[i] = Next_(at, i)
    BY <1>4
  <2> QED
    BY <2>1 DEF Prints
<1> QED
  BY <1>5, <1>6

\* What every call for one element keeps, the whole recursion keeps.
LEMMA PrintingKeeps ==
  ASSUME NEW S, NEW st \in S, NEW xs, Len(xs) \in Nat, NEW v,
         \A s \in S, i \in 1..Len(xs) : print_element(s, xs[i], v) \in S
  PROVE  printNetflowRecordWithTemplate(st, xs, v) \in S
<1>1. PICK f : Prints(f, st, xs, v) /\ printNetflowRecordWithTemplate(st, xs, v) = f[Len(xs)]
  BY Printing
<1> DEFINE P == {n \in Nat : n <= Len(xs) => f[n] \in S}
<1>2. 0 \in P
  BY <1>1 DEF Prints
<1>3. ASSUME NEW n \in Nat, n \in P PROVE n + 1 \in P
  <2> SUFFICES ASSUME n + 1 <= Len(xs) PROVE f[n + 1] \in S
    OBVIOUS
  <2>1. f[n] \in S /\ n + 1 \in 1..Len(xs) /\ (n + 1) - 1 = n
    BY <1>3
  <2>2. f[n + 1] = print_element(f[n], xs[n + 1], v)
    BY <1>1, <2>1 DEF Prints
  <2> QED
    BY <2>1, <2>2
<1>4. Len(xs) \in P
  BY <1>2, <1>3, SetInduction
<1> QED
  BY <1>1, <1>4

-----------------------------------------------------------------------------
(* Export functions.                                                       *)

Ends == {"src", "dst", "client", "src_port", "dst_port", "input", "output",
         "src_mac", "dst_mac", "post_dst_mac", "post_src_mac", "client_mac",
         "http_host", "http_referer", "ssl_common_name", "direction"}

\* All texts that values, printed or stored, can be.
Texts ==
  (UNION {Vals[k] : k \in DOMAIN ver9_templates}) \cup {L2[h] : h \in DOMAIN L2}
    \cup {"", "n", "sensor", Zero, NoAddr, "ingress", "egress",
          "upstream", "downstream", "internal", "unset"}
Caches == [Ends -> Texts]

\* Functions that store a value as it is, and those that print from the cache.
Storing == {"src", "dst", "src_port", "dst_port", "input", "output",
            "src_mac", "dst_mac", "post_dst_mac", "post_src_mac"}
Hosting == {"http_host", "http_referer", "ssl_common_name"}
Showing == {"NO_FN", "number", "tcp_flags", "net", "country", "country6", "mac_vendor",
            "interface_name", "private", "private_l2", "host", "host_l2", "referer",
            "referer_l2", "flow_cache_direction", "lan_interface", "wan_interface",
            "lan_interface_name", "wan_interface_name", "direction_mac_vendor",
            "lan_addr", "wan_addr", "lan_net", "wan_net", "lan_country", "wan_country",
            "lan_port", "wan_port"}
Fns == Storing \cup Hosting \cup Showing
         \cup {"ipv6_src", "ipv6_dst", "direction", "sta_ipv4", "client_mac", "direction_mac"}

\* The end of the flow that function fn may store.
Sets(fn) ==
  CASE fn \in Storing \cup Hosting -> fn
    [] fn = "ipv6_src" -> "src"
    [] fn = "ipv6_dst" -> "dst"
    [] fn = "direction" -> "direction"
    [] fn = "sta_ipv4" -> "client"
    [] fn \in {"client_mac", "direction_mac"} -> "client_mac"
    [] OTHER -> "none"

\* An outcome: a cache, and at most one text.
Outcome(r) == r.cache \in Caches /\ (r.out = <<>> \/ \E w \in Texts : r.out = <<w>>)

\* The outcome r of a function called with cache c changes at most end e.
Touches(r, c, e) == Outcome(r) /\ \A d \in Ends \ {e} : r.cache[d] = c[d]

LEMMA NoCacheType == NoCache \in Caches
<1>1. DOMAIN NoCache = Ends
  BY DEF NoCache, Ends
<1>2. \A e \in Ends : NoCache[e] \in {"", Zero, NoAddr, "unset"}
  <2>1. /\ NoCache.src = NoAddr /\ NoCache.dst = NoAddr /\ NoCache.client = NoAddr
        /\ NoCache.src_port = Zero /\ NoCache.dst_port = Zero
        /\ NoCache.input = Zero /\ NoCache.output = Zero
        /\ NoCache.src_mac = Zero /\ NoCache.dst_mac = Zero
        /\ NoCache.post_dst_mac = Zero /\ NoCache.post_src_mac = Zero
        /\ NoCache.client_mac = Zero /\ NoCache.http_host = ""
        /\ NoCache.http_referer = "" /\ NoCache.ssl_common_name = ""
        /\ NoCache.direction = "unset"
    BY DEF NoCache
  <2> QED
    BY <2>1 DEF Ends
<1>3. NoCache = [e \in Ends |-> NoCache[e]]
  BY <1>1 DEF NoCache
<1>4. \A e \in Ends : NoCache[e] \in Texts
  BY <1>2 DEF Texts
<1> QED
  BY <1>3, <1>4 DEF Caches

LEMMA PrintedTouches ==
  ASSUME NEW c \in Caches, NEW w \in Texts, NEW e
  PROVE  Touches(Printed(c, w), c, e) /\ Touches(Nothing(c), c, e)
  BY DEF Touches, Outcome, Printed, Nothing

LEMMA StoredTouches ==
  ASSUME NEW c \in Caches, NEW e \in Ends, NEW u \in Texts, NEW w \in Texts
  PROVE  /\ [c EXCEPT ![e] = u] \in Caches /\ [c EXCEPT ![e] = u][e] = u
         /\ Touches(Printed([c EXCEPT ![e] = u], w), c, e)
         /\ Touches(Nothing([c EXCEPT ![e] = u]), c, e)
<1>1. [c EXCEPT ![e] = u] \in Caches /\ [c EXCEPT ![e] = u][e] = u
      /\ \A d \in Ends \ {e} : [c EXCEPT ![e] = u][d] = c[d]
  BY DEF Caches
<1> QED
  BY <1>1 DEF Touches, Outcome, Printed, Nothing

\* What is chosen from the cache is a text.
LEMMA Chosen ==
  ASSUME NEW c \in Caches
  PROVE  /\ {client_mac(c), client_port(c), target_port(c), client_interface(c),
             target_interface(c), client_ip(c), target_ip(c)} \subseteq Texts
         /\ {flowcache_host(c), flowcache_referer(c), c.direction} \subseteq Texts
<1>1. \A e \in Ends : c[e] \in Texts
  BY DEF Caches
<1>2. {c.src, c.dst, c.client, c.src_port, c.dst_port, c.input, c.output, c.src_mac,
       c.dst_mac, c.post_dst_mac, c.http_host, c.http_referer, c.ssl_common_name,
       c.direction} \subseteq Texts
  BY <1>1 DEF Ends
<1>3. {client_mac(c), client_port(c), target_port(c), client_interface(c),
       target_interface(c)} \subseteq Texts
  BY <1>2 DEF client_mac, client_port, target_port, client_interface, target_interface,
              GET_CLIENT_ENDPOINT
<1>4. client_end(c) \in {"src", "dst", "client"}
  BY DEF client_end, GET_CLIENT_ENDPOINT
<1>5. {client_ip(c), target_ip(c)} \subseteq Texts
  BY <1>2, <1>4 DEF client_ip, target_ip
<1>6. {flowcache_host(c), flowcache_referer(c)} \subseteq Texts
  BY <1>2 DEF flowcache_host, flowcache_referer
<1> QED
  BY <1>2, <1>3, <1>5, <1>6

\* The functions of the table, one by one.
LEMMA Dispatch ==
  ASSUME NEW v, NEW c
  PROVE  /\ export_fn("NO_FN", v, c) = Nothing(c)
         /\ export_fn("number", v, c) = Printed(c, v)
         /\ export_fn("tcp_flags", v, c) = print_tcp_flags(v, c)
         /\ export_fn("ipv6_src", v, c) = print_ipv6("src", v, c)
         /\ export_fn("ipv6_dst", v, c) = print_ipv6("dst", v, c)
         /\ export_fn("direction", v, c) = process_direction(v, c)
         /\ export_fn("net", v, c) = print_net(v, c)
         /\ export_fn("country", v, c) = print_country_code(v, c)
         /\ export_fn("country6", v, c) = geoip_decorator(v, c)
         /\ export_fn("sta_ipv4", v, c) = print_sta_ipv4_address(v, c)
         /\ export_fn("client_mac", v, c) = print_client_mac(v, c)
         /\ export_fn("mac_vendor", v, c) = print_mac_vendor0(v, c)
         /\ export_fn("interface_name", v, c) = print_interface_name(v, c)
         /\ export_fn("private", v, c) = print_cisco_private_buffer(v, c)
         /\ export_fn("private_l2", v, c) =
              IF v = "bad" THEN Nothing(c) ELSE print_http_l2_domain(v, c)
         /\ export_fn("host", v, c) = print_host(c)
         /\ export_fn("host_l2", v, c) = print_host_l2(c)
         /\ export_fn("referer", v, c) = print_referer(c)
         /\ export_fn("referer_l2", v, c) = print_referer_l2(c)
         /\ export_fn("flow_cache_direction", v, c) = print_flow_cache_direction(c)
         /\ export_fn("lan_interface", v, c) = print_lan_interface(c)
         /\ export_fn("wan_interface", v, c) = print_wan_interface(c)
         /\ export_fn("lan_interface_name", v, c) = print_lan_interface_name(c)
         /\ export_fn("wan_interface_name", v, c) = print_wan_interface_name(c)
         /\ export_fn("direction_mac", v, c) = print_direction_based_client_mac(c)
         /\ export_fn("direction_mac_vendor", v, c) = print_direction_based_client_mac_vendor(c)
         /\ export_fn("lan_addr", v, c) = print_lan_addr(c)
         /\ export_fn("wan_addr", v, c) = print_wan_addr(c)
         /\ export_fn("lan_net", v, c) = print_lan_addr_net(c)
         /\ export_fn("wan_net", v, c) = print_wan_addr_net(c)
         /\ export_fn("lan_country", v, c) = print_lan_country_code(c)
         /\ export_fn("wan_country", v, c) = print_wan_country_code(c)
         /\ export_fn("lan_port", v, c) = print_lan_port(c)
         /\ export_fn("wan_port", v, c) = print_wan_port(c)
  BY DEF export_fn

LEMMA DispatchStoring ==
  ASSUME NEW v, NEW c
  PROVE  /\ \A fn \in Storing : export_fn(fn, v, c) =
              IF fn \notin {"input", "output"} /\ v = "bad" THEN Nothing(c)
              ELSE store_or_print(fn, v, c)
         /\ \A fn \in Hosting : export_fn(fn, v, c) = print_http(fn, v, c)
<1>1. ASSUME NEW fn \in Storing
      PROVE  export_fn(fn, v, c) = IF fn \notin {"input", "output"} /\ v = "bad" THEN Nothing(c)
                                   ELSE store_or_print(fn, v, c)
  BY DEF export_fn, Storing, process_ipv4_addr0, process_port0, process_snmp_interface,
         process_mac0
<1>2. ASSUME NEW fn \in Hosting PROVE export_fn(fn, v, c) = print_http(fn, v, c)
  BY DEF export_fn, Hosting
<1> QED
  BY <1>1, <1>2

\* Functions that only show something print a text or nothing.
LEMMA ShowingFns ==
  ASSUME NEW fn \in Showing, NEW v \in Texts, NEW c \in Caches
  PROVE  \E w \in Texts : export_fn(fn, v, c) \in {Nothing(c), Printed(c, w)}
<1> DEFINE Shows(r) == \E w \in Texts : r \in {Nothing(c), Printed(c, w)}
<1> SUFFICES Shows(export_fn(fn, v, c))
  OBVIOUS
<1>1. Shows(Nothing(c)) /\ \A w \in Texts : Shows(Printed(c, w))
  BY DEF Texts
<1> HIDE DEF Shows
<1>2. /\ Shows(print_tcp_flags(v, c)) /\ Shows(print_net(v, c))
      /\ Shows(print_country_code(v, c)) /\ Shows(geoip_decorator(v, c))
      /\ Shows(print_mac_vendor0(v, c)) /\ Shows(print_interface_name(v, c))
      /\ Shows(print_cisco_private_buffer(v, c))
  BY <1>1 DEF When, print_tcp_flags, print_net, print_net0, print_country_code,
       geoip_decorator, print_mac_vendor0, print_interface_name, print_cisco_private_buffer
<1>3. \A h : Shows(print_http_l2_domain(h, c))
  <2>1. \A h \in DOMAIN L2 : L2[h] \in Texts
    BY DEF Texts
  <2> QED
    BY <1>1, <2>1 DEF When, print_http_l2_domain
<1>4. /\ Shows(print_host(c)) /\ Shows(print_referer(c))
      /\ Shows(print_host_l2(c)) /\ Shows(print_referer_l2(c))
      /\ Shows(print_flow_cache_direction(c))
  BY <1>1, <1>3, Chosen DEF When, print_host, print_referer, print_host_l2, print_referer_l2,
       print_flow_cache_direction
<1>5. /\ Shows(print_lan_interface(c)) /\ Shows(print_wan_interface(c))
      /\ Shows(print_lan_interface_name(c)) /\ Shows(print_wan_interface_name(c))
      /\ Shows(print_lan_addr(c)) /\ Shows(print_wan_addr(c))
      /\ Shows(print_lan_port(c)) /\ Shows(print_wan_port(c))
  BY <1>1, Chosen DEF print_lan_interface, print_wan_interface, print_lan_interface_name,
       print_wan_interface_name, print_lan_addr, print_wan_addr, print_lan_port, print_wan_port
<1>6. /\ Shows(print_direction_based_client_mac_vendor(c))
      /\ Shows(print_lan_addr_net(c)) /\ Shows(print_wan_addr_net(c))
      /\ Shows(print_lan_country_code(c)) /\ Shows(print_wan_country_code(c))
  BY <1>1, Chosen DEF When, print_direction_based_client_mac_vendor, print_mac_vendor0,
       print_lan_addr_net, print_wan_addr_net, print_net0, print_lan_country_code,
       print_wan_country_code, geoip_decorator
<1> QED
  BY <1>1, <1>2, <1>3, <1>4, <1>5, <1>6, Dispatch DEF Showing

LEMMA SetsTable ==
  /\ \A fn \in Storing \cup Hosting : Sets(fn) = fn /\ fn \in Ends
  /\ Sets("ipv6_src") = "src" /\ Sets("ipv6_dst") = "dst" /\ Sets("direction") = "direction"
  /\ Sets("sta_ipv4") = "client" /\ Sets("client_mac") = "client_mac"
  /\ Sets("direction_mac") = "client_mac"
  /\ \A fn \in Showing : Sets(fn) = "none"
  /\ {"src", "dst", "direction", "client", "client_mac"} \subseteq Ends
<1>1. \A fn \in Storing \cup Hosting : Sets(fn) = fn /\ fn \in Ends
  <2>1. \A fn \in Storing \cup Hosting : fn \in Ends
    BY DEF Storing, Hosting, Ends
  <2>2. ASSUME NEW fn \in Storing PROVE Sets(fn) = fn
    BY DEF Sets, Storing
  <2>3. ASSUME NEW fn \in Hosting PROVE Sets(fn) = fn
    BY DEF Sets, Storing, Hosting
  <2> QED
    BY <2>1, <2>2, <2>3
<1>2. /\ Sets("ipv6_src") = "src" /\ Sets("ipv6_dst") = "dst" /\ Sets("direction") = "direction"
      /\ Sets("sta_ipv4") = "client" /\ Sets("client_mac") = "client_mac"
      /\ Sets("direction_mac") = "client_mac"
  BY DEF Sets, Storing, Hosting
<1>3. \A fn \in Showing : Sets(fn) = "none"
  BY DEF Sets, Showing, Storing, Hosting
<1> QED
  BY <1>1, <1>2, <1>3 DEF Ends

\* A function changes at most the end it is for, and prints at most one text.
LEMMA ExportTouches ==
  ASSUME cfg \in Configurations, NEW fn \in Fns, NEW v \in Texts, NEW c \in Caches
  PROVE  Touches(export_fn(fn, v, c), c, Sets(fn))
<1> DEFINE r == export_fn(fn, v, c)
<1>1. CASE fn \in Storing
  <2>1. r \in {Nothing(c), Printed(c, v), Nothing([c EXCEPT ![fn] = v])} /\ Sets(fn) = fn
    BY <1>1, DispatchStoring, SetsTable DEF store_or_print
  <2>2. fn \in Ends
    BY <1>1, SetsTable
  <2> QED
    BY <2>1, <2>2, PrintedTouches, StoredTouches
<1>2. CASE fn \in Hosting
  <2>1. r \in {Nothing(c), Printed([c EXCEPT ![fn] = v], v)} /\ Sets(fn) = fn
    BY <1>2, DispatchStoring, SetsTable DEF print_http
  <2>2. fn \in Ends
    BY <1>2, SetsTable
  <2> QED
    BY <2>1, <2>2, PrintedTouches, StoredTouches
<1>3. CASE fn \in Showing
  <2>1. PICK w \in Texts : r \in {Nothing(c), Printed(c, w)}
    BY <1>3, ShowingFns
  <2> QED
    BY <2>1, PrintedTouches
<1>4. CASE fn \in {"ipv6_src", "ipv6_dst"}
  <2>1. Sets(fn) \in {"src", "dst"} /\ r \in {Nothing(c), Printed([c EXCEPT ![Sets(fn)] = v], v)}
    <3>1. CASE fn = "ipv6_src"
      <4>1. r = print_ipv6("src", v, c) /\ Sets(fn) = "src"
        BY <3>1, Dispatch, SetsTable
      <4> QED
        BY <4>1 DEF print_ipv6
    <3>2. CASE fn = "ipv6_dst"
      <4>1. r = print_ipv6("dst", v, c) /\ Sets(fn) = "dst"
        BY <3>2, Dispatch, SetsTable
      <4> QED
        BY <4>1 DEF print_ipv6
    <3> QED
      BY <1>4, <3>1, <3>2
  <2>2. Sets(fn) \in Ends
    BY <2>1, SetsTable
  <2> QED
    BY <2>1, <2>2, PrintedTouches, StoredTouches
<1>5. CASE fn = "direction"
  <2>1. Sets(fn) = "direction" /\ "direction" \in Ends
    BY <1>5, SetsTable
  <2>2. {"upstream", "downstream", "ingress", "egress"} \subseteq Texts
    BY DEF Texts
  <2>3. r \in {Nothing(c), Nothing([c EXCEPT !.direction = "upstream"]),
               Nothing([c EXCEPT !.direction = "downstream"]),
               Printed(c, "ingress"), Printed(c, "egress")}
    <3>1. r = process_direction(v, c)
      BY <1>5, Dispatch
    <3>2. CASE v \notin {"0", "1"}
      BY <3>1, <3>2 DEF process_direction
    <3>3. CASE v \in {"0", "1"} /\ cfg.normalize /\ ((v = "0") # cfg.wan_side)
      <4>1. r = Nothing([c EXCEPT !.direction = "upstream"])
        BY <3>1, <3>3 DEF process_direction
      <4> QED
        BY <4>1
    <3>4. CASE v \in {"0", "1"} /\ cfg.normalize /\ ~((v = "0") # cfg.wan_side)
      <4>1. r = Nothing([c EXCEPT !.direction = "downstream"])
        BY <3>1, <3>4 DEF process_direction
      <4> QED
        BY <4>1
    <3>5. CASE v \in {"0", "1"} /\ ~cfg.normalize
      BY <3>1, <3>5 DEF process_direction
    <3> QED
      BY <3>2, <3>3, <3>4, <3>5
  <2> QED
    BY <2>1, <2>2, <2>3, PrintedTouches, StoredTouches
<1>6. CASE fn = "sta_ipv4"
  <2>1. Sets(fn) = "client" /\ "client" \in Ends
    BY <1>6, SetsTable
  <2>2. r \in {Nothing(c), Printed([c EXCEPT !.client = v], v)}
    BY <1>6, Dispatch DEF print_sta_ipv4_address
  <2> QED
    BY <2>1, <2>2, PrintedTouches, StoredTouches
<1>7. CASE fn \in {"client_mac", "direction_mac"}
  <2>1. Sets(fn) = "client_mac" /\ "client_mac" \in Ends
    BY <1>7, SetsTable
  <2>2. \E w \in Texts : r \in {Nothing(c), Printed([c EXCEPT !.client_mac = w], w)}
    <3>1. CASE fn = "client_mac"
      <4>1. r = print_client_mac(v, c)
        BY <3>1, Dispatch
      <4> QED
        BY <4>1 DEF print_client_mac
    <3>2. CASE fn = "direction_mac"
      <4>1. r = print_direction_based_client_mac(c) /\ client_mac(c) \in Texts
        BY <3>2, Dispatch, Chosen
      <4> QED
        BY <4>1 DEF print_direction_based_client_mac
    <3> QED
      BY <1>7, <3>1, <3>2
  <2> QED
    BY <2>1, <2>2, PrintedTouches, StoredTouches
<1> QED
  BY <1>1, <1>2, <1>3, <1>4, <1>5, <1>6, <1>7 DEF Fns

-----------------------------------------------------------------------------
(* The table.                                                              *)

Fields == DOMAIN ver9_templates
Lists == {ver9_templates[k] : k \in Fields}
           \cup {Header, Hosts, post_templates, Whole, Separated}

Braces == {"{", ",", "}"}
Names == {xs[i].name : xs \in Lists, i \in Nat} \cup {"sensor_name"}

\* Of an element: no name is a brace, and client_mac is the name of what stores
\* client_mac, and of nothing else.
Apt(x) ==
  /\ x.fn \in Fns /\ x.name \notin Braces
  /\ x.name = "client_mac" <=> x.fn \in {"client_mac", "direction_mac"}
AptList(xs) == Len(xs) \in Nat /\ \A i \in 1..Len(xs) : Apt(xs[i])

LEMMA MacSetters ==
  ASSUME NEW fn \in Fns
  PROVE  Sets(fn) = "client_mac" <=> fn \in {"client_mac", "direction_mac"}
  BY SetsTable DEF Fns, Storing, Hosting, Showing

LEMMA AptX ==
  ASSUME NEW n, NEW fn \in Fns, n \notin Braces,
         n = "client_mac" <=> fn \in {"client_mac", "direction_mac"}
  PROVE  Apt(X(n, fn))
  BY DEF Apt, X

LEMMA AptLists ==
  /\ \A a : Apt(a) => AptList(<<a>>)
  /\ \A a, b : Apt(a) /\ Apt(b) => AptList(<<a, b>>)
  /\ \A a, b, c : Apt(a) /\ Apt(b) /\ Apt(c) => AptList(<<a, b, c>>)
  /\ \A a, b, c, d : Apt(a) /\ Apt(b) /\ Apt(c) /\ Apt(d) => AptList(<<a, b, c, d>>)
  BY DEF AptList

\* The fields.
LEMMA FieldNames ==
  Fields = {"IPV4_SRC_ADDR", "IPV4_DST_ADDR", "IPV6_SRC_ADDR", "IPV6_DST_ADDR",
            "INPUT_SNMP", "OUTPUT_SNMP", "L4_SRC_PORT", "L4_DST_PORT",
            "DIRECTION", "TCP_FLAGS", "IN_SRC_MAC", "IN_DST_MAC",
            "OUT_DST_MAC", "OUT_SRC_MAC", "STA_MAC_ADDRESS",
            "STA_IPV4_ADDRESS", "CISCO_HTTP_URL", "CISCO_HTTP_HOST",
            "CISCO_HTTP_REFERER", "CISCO_HTTPS_COMMON_NAME"}
  BY DEF Fields, ver9_templates

\* Their elements.
LEMMA FieldTable ==
  /\ ver9_templates["IPV4_SRC_ADDR"] =
       <<X("src", "src"), X("src_net", "net"), X("src_country_code", "country")>>
  /\ ver9_templates["IPV4_DST_ADDR"] =
       <<X("dst", "dst"), X("dst_net", "net"), X("dst_country_code", "country")>>
  /\ ver9_templates["IPV6_SRC_ADDR"] =
       <<X("src", "ipv6_src"), X("src_net", "net"), X("src_country_code", "country6")>>
  /\ ver9_templates["IPV6_DST_ADDR"] =
       <<X("dst", "ipv6_dst"), X("dst_net", "net"), X("dst_country_code", "country6")>>
  /\ ver9_templates["INPUT_SNMP"] =
       <<X("input_snmp", "input"), X("input_snmp_name", "interface_name")>>
  /\ ver9_templates["OUTPUT_SNMP"] =
       <<X("output_snmp", "output"), X("output_snmp_name", "interface_name")>>
  /\ ver9_templates["L4_SRC_PORT"] = <<X("src_port", "src_port")>>
  /\ ver9_templates["L4_DST_PORT"] = <<X("dst_port", "dst_port")>>
  /\ ver9_templates["DIRECTION"] = <<X("direction", "direction")>>
  /\ ver9_templates["TCP_FLAGS"] = <<X("tcp_flags", "tcp_flags")>>
  /\ ver9_templates["IN_SRC_MAC"] = <<X("src_mac", "src_mac")>>
  /\ ver9_templates["IN_DST_MAC"] = <<X("dst_mac", "dst_mac")>>
  /\ ver9_templates["OUT_DST_MAC"] = <<X("post_dst_mac", "post_dst_mac")>>
  /\ ver9_templates["OUT_SRC_MAC"] = <<X("post_dst_mac", "post_src_mac")>>
  /\ ver9_templates["STA_MAC_ADDRESS"] =
       <<X("sta_mac", "NO_FN"), X("client_mac", "client_mac"), X("client_mac_vendor", "mac_vendor")>>
  /\ ver9_templates["STA_IPV4_ADDRESS"] =
       <<X("lan_ip", "sta_ipv4"), X("lan_ip_net", "net"), X("lan_ip_country_code", "country")>>
  /\ ver9_templates["CISCO_HTTP_URL"] = <<X("", "NO_FN"), X("http_url", "private")>>
  /\ ver9_templates["CISCO_HTTP_HOST"] =
       <<X("", "NO_FN"), X("http_host", "http_host"), X("http_host_l2", "private_l2")>>
  /\ ver9_templates["CISCO_HTTP_REFERER"] =
       <<X("", "NO_FN"), X("http_referer", "http_referer"), X("http_referer_l2", "NO_FN")>>
  /\ ver9_templates["CISCO_HTTPS_COMMON_NAME"] =
       <<X("", "NO_FN"), X("https_common_name", "ssl_common_name")>>
  BY DEF ver9_templates

LEMMA FieldTables == ASSUME NEW k \in Fields PROVE AptList(ver9_templates[k])
<1>1. CASE k = "IPV4_SRC_ADDR"
  <2>1. Apt(X("src", "src")) /\ Apt(X("src_net", "net")) /\ Apt(X("src_country_code", "country"))
    BY AptX DEF Fns, Storing, Hosting, Showing, Braces
  <2> QED
    BY <1>1, <2>1, AptLists, FieldTable
<1>2. CASE k = "IPV4_DST_ADDR"
  <2>1. Apt(X("dst", "dst")) /\ Apt(X("dst_net", "net")) /\ Apt(X("dst_country_code", "country"))
    BY AptX DEF Fns, Storing, Hosting, Showing, Braces
  <2> QED
    BY <1>2, <2>1, AptLists, FieldTable
<1>3. CASE k = "IPV6_SRC_ADDR"
  <2>1. Apt(X("src", "ipv6_src")) /\ Apt(X("src_net", "net")) /\ Apt(X("src_country_code", "country6"))
    BY AptX DEF Fns, Storing, Hosting, Showing, Braces
  <2> QED
    BY <1>3, <2>1, AptLists, FieldTable
<1>4. CASE k = "IPV6_DST_ADDR"
  <2>1. Apt(X("dst", "ipv6_dst")) /\ Apt(X("dst_net", "net")) /\ Apt(X("dst_country_code", "country6"))
    BY AptX DEF Fns, Storing, Hosting, Showing, Braces
  <2> QED
    BY <1>4, <2>1, AptLists, FieldTable
<1>5. CASE k = "INPUT_SNMP"
  <2>1. Apt(X("input_snmp", "input")) /\ Apt(X("input_snmp_name", "interface_name"))
    BY AptX DEF Fns, Storing, Hosting, Showing, Braces
  <2> QED
    BY <1>5, <2>1, AptLists, FieldTable
<1>6. CASE k = "OUTPUT_SNMP"
  <2>1. Apt(X("output_snmp", "output")) /\ Apt(X("output_snmp_name", "interface_name"))
    BY AptX DEF Fns, Storing, Hosting, Showing, Braces
  <2> QED
    BY <1>6, <2>1, AptLists, FieldTable
<1>7. CASE k = "L4_SRC_PORT"
  <2>1. Apt(X("src_port", "src_port"))
    BY AptX DEF Fns, Storing, Hosting, Showing, Braces
  <2> QED
    BY <1>7, <2>1, AptLists, FieldTable
<1>8. CASE k = "L4_DST_PORT"
  <2>1. Apt(X("dst_port", "dst_port"))
    BY AptX DEF Fns, Storing, Hosting, Showing, Braces
  <2> QED
    BY <1>8, <2>1, AptLists, FieldTable
<1>9. CASE k = "DIRECTION"
  <2>1. Apt(X("direction", "direction"))
    BY AptX DEF Fns, Storing, Hosting, Showing, Braces
  <2> QED
    BY <1>9, <2>1, AptLists, FieldTable
<1>10. CASE k = "TCP_FLAGS"
  <2>1. Apt(X("tcp_flags", "tcp_flags"))
    BY AptX DEF Fns, Storing, Hosting, Showing, Braces
  <2> QED
    BY <1>10, <2>1, AptLists, FieldTable
<1>11. CASE k = "IN_SRC_MAC"
  <2>1. Apt(X("src_mac", "src_mac"))
    BY AptX DEF Fns, Storing, Hosting, Showing, Braces
  <2> QED
    BY <1>11, <2>1, AptLists, FieldTable
<1>12. CASE k = "IN_DST_MAC"
  <2>1. Apt(X("dst_mac", "dst_mac"))
    BY AptX DEF Fns, Storing, Hosting, Showing, Braces
  <2> QED
    BY <1>12, <2>1, AptLists, FieldTable
<1>13. CASE k = "OUT_DST_MAC"
  <2>1. Apt(X("post_dst_mac", "post_dst_mac"))
    BY AptX DEF Fns, Storing, Hosting, Showing, Braces
  <2> QED
    BY <1>13, <2>1, AptLists, FieldTable
<1>14. CASE k = "OUT_SRC_MAC"
  <2>1. Apt(X("post_dst_mac", "post_src_mac"))
    BY AptX DEF Fns, Storing, Hosting, Showing, Braces
  <2> QED
    BY <1>14, <2>1, AptLists, FieldTable
<1>15. CASE k = "STA_MAC_ADDRESS"
  <2>1. Apt(X("sta_mac", "NO_FN")) /\ Apt(X("client_mac", "client_mac")) /\ Apt(X("client_mac_vendor", "mac_vendor"))
    BY AptX DEF Fns, Storing, Hosting, Showing, Braces
  <2> QED
    BY <1>15, <2>1, AptLists, FieldTable
<1>16. CASE k = "STA_IPV4_ADDRESS"
  <2>1. Apt(X("lan_ip", "sta_ipv4")) /\ Apt(X("lan_ip_net", "net")) /\ Apt(X("lan_ip_country_code", "country"))
    BY AptX DEF Fns, Storing, Hosting, Showing, Braces
  <2> QED
    BY <1>16, <2>1, AptLists, FieldTable
<1>17. CASE k = "CISCO_HTTP_URL"
  <2>1. Apt(X("", "NO_FN")) /\ Apt(X("http_url", "private"))
    BY AptX DEF Fns, Storing, Hosting, Showing, Braces
  <2> QED
    BY <1>17, <2>1, AptLists, FieldTable
<1>18. CASE k = "CISCO_HTTP_HOST"
  <2>1. Apt(X("", "NO_FN")) /\ Apt(X("http_host", "http_host")) /\ Apt(X("http_host_l2", "private_l2"))
    BY AptX DEF Fns, Storing, Hosting, Showing, Braces
  <2> QED
    BY <1>18, <2>1, AptLists, FieldTable
<1>19. CASE k = "CISCO_HTTP_REFERER"
  <2>1. Apt(X("", "NO_FN")) /\ Apt(X("http_referer", "http_referer")) /\ Apt(X("http_referer_l2", "NO_FN"))
    BY AptX DEF Fns, Storing, Hosting, Showing, Braces
  <2> QED
    BY <1>19, <2>1, AptLists, FieldTable
<1>20. CASE k = "CISCO_HTTPS_COMMON_NAME"
  <2>1. Apt(X("", "NO_FN")) /\ Apt(X("https_common_name", "ssl_common_name"))
    BY AptX DEF Fns, Storing, Hosting, Showing, Braces
  <2> QED
    BY <1>20, <2>1, AptLists, FieldTable
<1> QED
  BY <1>1, <1>2, <1>3, <1>4, <1>5, <1>6, <1>7, <1>8, <1>9, <1>10, <1>11, <1>12,
     <1>13, <1>14, <1>15, <1>16, <1>17, <1>18, <1>19, <1>20, FieldNames

LEMMA OtherTables ==
  ASSUME NEW xs \in {Header, Hosts, post_templates, Whole, Separated}
  PROVE  AptList(xs)
<1>1. CASE xs = Header
  <2>1. /\ Apt(X("type", "number"))
        /\ Apt(X("flow_sequence", "number"))
    BY AptX DEF Fns, Storing, Hosting, Showing, Braces
  <2> QED
    BY <1>1, <2>1, AptLists DEF Header
<1>2. CASE xs = Hosts
  <2>1. /\ Apt(X("host", "host"))
        /\ Apt(X("host_l2_domain", "host_l2"))
        /\ Apt(X("referer", "referer"))
        /\ Apt(X("referer_l2", "referer_l2"))
    BY AptX DEF Fns, Storing, Hosting, Showing, Braces
  <2> QED
    BY <1>2, <2>1, AptLists DEF Hosts
<1>3. CASE xs = post_templates
  <2>1. /\ Apt(X("direction", "flow_cache_direction"))
        /\ Apt(X("lan_interface", "lan_interface"))
        /\ Apt(X("lan_interface_name", "lan_interface_name"))
        /\ Apt(X("wan_interface", "wan_interface"))
        /\ Apt(X("wan_interface_name", "wan_interface_name"))
        /\ Apt(X("client_mac", "direction_mac"))
        /\ Apt(X("client_mac_vendor", "direction_mac_vendor"))
        /\ Apt(X("wan_ip", "wan_addr"))
        /\ Apt(X("wan_ip_net", "wan_net"))
        /\ Apt(X("wan_ip_country_code", "wan_country"))
        /\ Apt(X("lan_ip", "lan_addr"))
        /\ Apt(X("lan_ip_net", "lan_net"))
        /\ Apt(X("lan_ip_country_code", "lan_country"))
        /\ Apt(X("wan_l4_port", "wan_port"))
        /\ Apt(X("lan_l4_port", "lan_port"))
    BY AptX DEF Fns, Storing, Hosting, Showing, Braces
  <2>2. Len(xs) = 15
    BY <1>3 DEF post_templates
  <2>3. /\ xs[1] = X("direction", "flow_cache_direction")
        /\ xs[2] = X("lan_interface", "lan_interface")
        /\ xs[3] = X("lan_interface_name", "lan_interface_name")
        /\ xs[4] = X("wan_interface", "wan_interface")
        /\ xs[5] = X("wan_interface_name", "wan_interface_name")
        /\ xs[6] = X("client_mac", "direction_mac")
        /\ xs[7] = X("client_mac_vendor", "direction_mac_vendor")
        /\ xs[8] = X("wan_ip", "wan_addr")
        /\ xs[9] = X("wan_ip_net", "wan_net")
        /\ xs[10] = X("wan_ip_country_code", "wan_country")
        /\ xs[11] = X("lan_ip", "lan_addr")
        /\ xs[12] = X("lan_ip_net", "lan_net")
        /\ xs[13] = X("lan_ip_country_code", "lan_country")
        /\ xs[14] = X("wan_l4_port", "wan_port")
        /\ xs[15] = X("lan_l4_port", "lan_port")
    BY <1>3 DEF post_templates
  <2>4. \A i \in 1..15 : i \in {1, 2, 3, 4, 5, 6, 7, 8, 9, 10, 11, 12, 13, 14, 15}
    OBVIOUS
  <2> QED
    BY <2>1, <2>2, <2>3, <2>4 DEF AptList
<1>4. CASE xs = Whole
  <2>1. /\ Apt(X("first_switched", "number"))
        /\ Apt(X("timestamp", "number"))
        /\ Apt(X("bytes", "number"))
        /\ Apt(X("pkts", "number"))
    BY AptX DEF Fns, Storing, Hosting, Showing, Braces
  <2> QED
    BY <1>4, <2>1, AptLists DEF Whole
<1>5. CASE xs = Separated
  <2>1. /\ Apt(X("bytes", "number"))
        /\ Apt(X("pkts", "number"))
        /\ Apt(X("timestamp", "number"))
    BY AptX DEF Fns, Storing, Hosting, Showing, Braces
  <2> QED
    BY <1>5, <2>1, AptLists DEF Separated
<1> QED
  BY <1>1, <1>2, <1>3, <1>4, <1>5

-----------------------------------------------------------------------------
(* The message so far.                                                     *)

Tok == [token : Names \cup Braces, value : Texts]

\* A brace, then members with commas between them.
Line(b) ==
  /\ b \in Seq(Tok) /\ Len(b) > 0 /\ (Len(b) = 1 \/ Len(b) % 2 = 0)
  /\ b[1] = Open
  /\ \A i \in 2..Len(b) : IF i % 2 = 0 THEN IsMember(b[i]) ELSE b[i] = Comma

ValuesIn(b, name) == {b[i].value : i \in {j \in DOMAIN b : b[j].token = name}}

\* Buffer b with another member.
Extended(b, name, w) ==
  b \o (IF b = <<Open>> THEN <<>> ELSE <<Comma>>) \o <<Member(name, w)>>

LEMMA Tokens ==
  /\ {Open, Comma, Close} \subseteq Tok /\ Open # Comma /\ Open # Close
  /\ \A n \in Names \ Braces, w \in Texts :
       Member(n, w) \in Tok /\ IsMember(Member(n, w))
       /\ Member(n, w).token = n /\ Member(n, w).value = w
  /\ Open.token \in Braces /\ Comma.token \in Braces /\ Close.token \in Braces
<1>1. "" \in Texts
  BY DEF Texts
<1>2. /\ Open.token = "{" /\ Comma.token = "," /\ Close.token = "}"
      /\ Open # Comma /\ Open # Close
  BY DEF Open, Comma, Close, Token
<1>3. \A b \in Braces : Token(b) \in Tok
  BY <1>1 DEF Tok, Token
<1>4. ASSUME NEW n \in Names \ Braces, NEW w \in Texts
      PROVE  /\ Member(n, w) \in Tok /\ Member(n, w).token = n /\ Member(n, w).value = w
             /\ IsMember(Member(n, w))
  <2>1. Member(n, w) \in Tok /\ Member(n, w).token = n /\ Member(n, w).value = w
    BY DEF Member, Tok
  <2>2. n # "{" /\ n # "," /\ n # "}"
    BY DEF Braces
  <2> QED
    BY <1>2, <2>1, <2>2 DEF IsMember
<1> QED
  BY <1>2, <1>3, <1>4 DEF Braces, Open, Comma, Close

LEMMA Parity ==
  ASSUME NEW n \in Nat
  PROVE  (n + 1) % 2 = 1 - (n % 2) /\ n % 2 \in {0, 1}
  OBVIOUS

LEMMA EvenNumber ==
  ASSUME NEW n \in Nat, n % 2 = 0, n > 0
  PROVE  n # 1 /\ n >= 2 /\ (n + 1) % 2 = 1
  OBVIOUS

\* Line <<Open>> is the only one of length 1.
LEMMA LoneBrace ==
  ASSUME NEW b, Line(b)
  PROVE  b = <<Open>> <=> Len(b) = 1
<1>1. b \in Seq(Tok) /\ b[1] = Open
  BY DEF Line
<1> QED
  BY <1>1

LEMMA AppendValues ==
  ASSUME NEW b \in Seq(Tok), NEW t \in Tok, NEW m
  PROVE  /\ b \o <<t>> \in Seq(Tok)
         /\ Len(b \o <<t>>) = Len(b) + 1
         /\ \A i \in 1..Len(b) : (b \o <<t>>)[i] = b[i]
         /\ (b \o <<t>>)[Len(b) + 1] = t
         /\ ValuesIn(b \o <<t>>, m) =
              ValuesIn(b, m) \cup (IF t.token = m THEN {t.value} ELSE {})
<1> DEFINE e == b \o <<t>>
<1>1. /\ e \in Seq(Tok) /\ Len(e) = Len(b) + 1 /\ Len(b) \in Nat
      /\ \A i \in 1..Len(b) : e[i] = b[i]
      /\ e[Len(b) + 1] = t
  OBVIOUS
<1>2. DOMAIN e = 1..(Len(b) + 1) /\ DOMAIN b = 1..Len(b)
  BY <1>1
<1> HIDE DEF e
<1>3. ValuesIn(e, m) = ValuesIn(b, m) \cup (IF t.token = m THEN {t.value} ELSE {})
  <2>1. ASSUME NEW x \in ValuesIn(e, m)
        PROVE  x \in ValuesIn(b, m) \cup (IF t.token = m THEN {t.value} ELSE {})
    BY <1>1, <1>2 DEF ValuesIn
  <2>2. ValuesIn(b, m) \subseteq ValuesIn(e, m)
    <3>1. ASSUME NEW j \in DOMAIN b, b[j].token = m PROVE b[j].value \in ValuesIn(e, m)
      <4>1. j \in DOMAIN e /\ e[j] = b[j]
        BY <1>1, <1>2
      <4> QED
        BY <3>1, <4>1 DEF ValuesIn
    <3> QED
      BY <3>1 DEF ValuesIn
  <2>3. t.token = m => t.value \in ValuesIn(e, m)
    <3>1. Len(b) + 1 \in DOMAIN e /\ e[Len(b) + 1] = t
      BY <1>1, <1>2
    <3> QED
      BY <3>1 DEF ValuesIn
  <2> QED
    BY <2>1, <2>2, <2>3
<1> QED
  BY <1>1, <1>3 DEF e

LEMMA Extending ==
  ASSUME NEW b, Line(b), NEW n \in Names \ Braces, NEW w \in Texts
  PROVE  /\ Line(Extended(b, n, w)) /\ Len(Extended(b, n, w)) % 2 = 0
         /\ \A m : m \notin Braces =>
              ValuesIn(Extended(b, n, w), m) =
                ValuesIn(b, m) \cup (IF m = n THEN {w} ELSE {})
<1> DEFINE t == Member(n, w)
           d == IF b = <<Open>> THEN b ELSE b \o <<Comma>>
<1>0. b \in Seq(Tok) /\ Len(b) \in Nat /\ t \in Tok /\ Comma \in Tok
  BY Tokens DEF Line
<1>1. Extended(b, n, w) = d \o <<t>> /\ d \in Seq(Tok)
  BY <1>0 DEF Extended
<1>2. /\ Len(d) % 2 = 1 /\ d[1] = Open /\ Len(d) > 0
      /\ \A i \in 2..Len(d) : IF i % 2 = 0 THEN IsMember(d[i]) ELSE d[i] = Comma
      /\ \A m : m \notin Braces => ValuesIn(d, m) = ValuesIn(b, m)
  <2>1. CASE b = <<Open>>
    BY <2>1, <1>0 DEF Line
  <2>2. CASE b # <<Open>>
    <3>1. Len(b) % 2 = 0 /\ Len(b) > 0
      BY <2>2, LoneBrace DEF Line
    <3>2. /\ Len(d) = Len(b) + 1 /\ \A i \in 1..Len(b) : d[i] = b[i]
          /\ d[Len(b) + 1] = Comma
      BY <2>2, <1>0, AppendValues
    <3>3. \A m : m \notin Braces => ValuesIn(d, m) = ValuesIn(b, m)
      <4>1. SUFFICES ASSUME NEW m, m \notin Braces PROVE ValuesIn(d, m) = ValuesIn(b, m)
        OBVIOUS
      <4>2. Comma.token # m
        BY <4>1, Tokens
      <4>3. ValuesIn(b \o <<Comma>>, m) =
              ValuesIn(b, m) \cup (IF Comma.token = m THEN {Comma.value} ELSE {})
        BY <1>0, AppendValues
      <4> QED
        BY <4>2, <4>3, <2>2
    <3>4. \A i \in 2..Len(d) : IF i % 2 = 0 THEN IsMember(d[i]) ELSE d[i] = Comma
      BY <3>1, <3>2, <1>0 DEF Line
    <3>5. Len(d) % 2 = 1 /\ Len(d) > 0
      <4>1. (Len(b) + 1) % 2 = 1
        BY <3>1, <1>0, Parity
      <4>2. Len(d) = Len(b) + 1 /\ Len(b) \in Nat
        BY <3>2, <1>0
      <4> HIDE DEF d
      <4> QED
        BY <4>1, <4>2
    <3>6. d[1] = Open
      BY <3>1, <3>2, <1>0 DEF Line
    <3> HIDE DEF d
    <3> QED
      BY <3>3, <3>4, <3>5, <3>6
  <2> QED
    BY <2>1, <2>2
<1> HIDE DEF d, t
<1>3. /\ Len(d) \in Nat /\ d \o <<t>> \in Seq(Tok) /\ Len(d \o <<t>>) = Len(d) + 1
      /\ \A i \in 1..Len(d) : (d \o <<t>>)[i] = d[i]
      /\ (d \o <<t>>)[Len(d) + 1] = t
  BY <1>0, <1>1, AppendValues
<1>4. IsMember(t) /\ t.token = n /\ t.value = w
  BY Tokens DEF t
<1>5. Line(d \o <<t>>) /\ Len(d \o <<t>>) % 2 = 0
  <2>1. Len(d \o <<t>>) % 2 = 0 /\ Len(d \o <<t>>) > 0
    BY <1>2, <1>3, Parity
  <2>2. (d \o <<t>>)[1] = Open
    BY <1>2, <1>3
  <2>3. ASSUME NEW i \in 2..Len(d \o <<t>>)
        PROVE  IF i % 2 = 0 THEN IsMember((d \o <<t>>)[i]) ELSE (d \o <<t>>)[i] = Comma
    <3>1. CASE i \in 2..Len(d)
      BY <3>1, <1>2, <1>3
    <3>2. CASE i = Len(d) + 1
      BY <3>2, <1>3, <1>4, <2>1
    <3> QED
      BY <3>1, <3>2, <1>3
  <2> QED
    BY <1>3, <2>1, <2>2, <2>3 DEF Line
<1>6. \A m : m \notin Braces =>
        ValuesIn(d \o <<t>>, m) = ValuesIn(b, m) \cup (IF m = n THEN {w} ELSE {})
  BY <1>0, <1>1, <1>2, <1>4, AppendValues
<1> QED
  BY <1>1, <1>5, <1>6

-----------------------------------------------------------------------------
(* One element.                                                            *)

\* What one call prints and leaves in the cache.
LEMMA PrintElement ==
  ASSUME NEW st, Line(st.buf), NEW x, NEW v, Outcome(export_fn(x.fn, v, st.cache))
  PROVE  LET r == export_fn(x.fn, v, st.cache)
             q == print_element(st, x, v)
         IN  /\ q = [buf |-> q.buf, cache |-> r.cache]
             /\ r.out = <<>> => q.buf = st.buf
             /\ \A w : r.out = <<w>> => q.buf = Extended(st.buf, x.name, w)
<1> DEFINE r == export_fn(x.fn, v, st.cache)
           q == print_element(st, x, v)
           begun == st.buf \o (IF st.buf = <<Open>> THEN <<>> ELSE <<Comma>>)
           members == [i \in 1..Len(r.out) |-> Member(x.name, r.out[i])]
<1>0. st.buf \in Seq(Tok) /\ Comma \in Tok
  BY Tokens DEF Line
<1>1. q = [buf |-> IF r.out # <<>> THEN begun \o members
                   ELSE SubSeq(begun \o members, 1, Len(st.buf)),
           cache |-> r.cache]
  BY DEF print_element
<1>2. begun \in Seq(Tok) /\ Len(begun) >= Len(st.buf) /\ Len(st.buf) \in Nat
      /\ \A i \in 1..Len(st.buf) : begun[i] = st.buf[i]
  <2>1. CASE st.buf = <<Open>>
    <3>1. begun = st.buf
      BY <2>1, <1>0
    <3> HIDE DEF begun
    <3> QED
      BY <3>1, <1>0
  <2>2. CASE st.buf # <<Open>>
    <3>1. begun = st.buf \o <<Comma>>
      BY <2>2
    <3> HIDE DEF begun
    <3> QED
      BY <3>1, <1>0, AppendValues
  <2> QED
    BY <2>1, <2>2
<1> HIDE DEF begun
<1>3. ASSUME r.out = <<>> PROVE q.buf = st.buf
  <2>1. members = <<>>
    BY <1>3
  <2>2. begun \o members = begun
    BY <2>1, <1>2
  <2>3. SubSeq(begun, 1, Len(st.buf)) = st.buf
    BY <1>0, <1>2
  <2> QED
    BY <1>1, <1>3, <2>2, <2>3
<1>4. ASSUME NEW w, r.out = <<w>> PROVE q.buf = Extended(st.buf, x.name, w)
  <2>1. members = <<Member(x.name, w)>>
    BY <1>4
  <2>2. Extended(st.buf, x.name, w) = begun \o <<Member(x.name, w)>>
    BY DEF Extended, begun
  <2>3. r.out # <<>>
    BY <1>4
  <2>4. q.buf = begun \o members
    <3> HIDE DEF q, members
    <3> QED
      BY <1>1, <2>3
  <2> QED
    BY <2>1, <2>2, <2>4
<1> QED
  BY <1>1, <1>3, <1>4

\* The cache and the message name the same client.
Agree(s) == {s.cache.client_mac} \ {Zero} = ValuesIn(s.buf, "client_mac") \ {Zero}

States == {s \in [buf : Seq(Tok), cache : Caches] : Line(s.buf) /\ Agree(s)}

LEMMA ElementKeeps ==
  ASSUME cfg \in Configurations, NEW st \in States, NEW x, Apt(x), x.name \in Names,
         NEW v \in Texts
  PROVE  print_element(st, x, v) \in States
<1> DEFINE r == export_fn(x.fn, v, st.cache)
           q == print_element(st, x, v)
<1>0. /\ st.cache \in Caches /\ Line(st.buf) /\ Agree(st)
      /\ x.fn \in Fns /\ x.name \in Names \ Braces
      /\ "client_mac" \notin Braces /\ "client_mac" \in Ends
  BY DEF States, Apt, Braces, Ends
<1>1. Touches(r, st.cache, Sets(x.fn))
  BY <1>0, ExportTouches
<1>2. /\ q = [buf |-> q.buf, cache |-> r.cache]
      /\ r.out = <<>> => q.buf = st.buf
      /\ \A w : r.out = <<w>> => q.buf = Extended(st.buf, x.name, w)
  BY <1>0, <1>1, PrintElement DEF Touches
<1>3. Line(q.buf)
  BY <1>0, <1>1, <1>2, Extending DEF Touches, Outcome
<1>4. Agree(q)
  <2>1. CASE x.name # "client_mac"
    <3>1. r.cache.client_mac = st.cache.client_mac
      BY <1>0, <1>1, <2>1, MacSetters DEF Touches, Apt
    <3>2. ValuesIn(q.buf, "client_mac") = ValuesIn(st.buf, "client_mac")
      <4>1. CASE r.out = <<>>
        BY <1>2, <4>1
      <4>2. ASSUME NEW w \in Texts, r.out = <<w>>
            PROVE  ValuesIn(q.buf, "client_mac") = ValuesIn(st.buf, "client_mac")
        <5>1. ValuesIn(Extended(st.buf, x.name, w), "client_mac") =
                ValuesIn(st.buf, "client_mac")
                  \cup (IF "client_mac" = x.name THEN {w} ELSE {})
          BY <1>0, Extending
        <5> QED
          BY <1>2, <2>1, <4>2, <5>1
      <4> QED
        BY <1>1, <4>1, <4>2 DEF Touches, Outcome
    <3> QED
      BY <1>0, <1>2, <3>1, <3>2 DEF Agree
  <2>2. CASE x.name = "client_mac"
    <3>1. x.fn \in {"client_mac", "direction_mac"}
      BY <2>2 DEF Apt
    <3>2. \/ r = Nothing(st.cache)
          \/ /\ st.cache.client_mac = Zero
             /\ \E w \in Texts : r = Printed([st.cache EXCEPT !.client_mac = w], w)
      <4>1. CASE x.fn = "client_mac"
        <5>1. r = print_client_mac(v, st.cache)
          BY <4>1, Dispatch
        <5> HIDE DEF r
        <5>2. CASE v = "bad" \/ st.cache.client_mac # Zero
          <6>1. r = Nothing(st.cache)
            BY <5>1, <5>2 DEF print_client_mac
          <6> QED
            BY <6>1
        <5>3. CASE ~(v = "bad" \/ st.cache.client_mac # Zero)
          <6>1. r = Printed([st.cache EXCEPT !.client_mac = v], v)
            BY <5>1, <5>3 DEF print_client_mac
          <6> QED
            BY <5>3, <6>1
        <5> QED
          BY <5>2, <5>3
      <4>2. CASE x.fn = "direction_mac"
        <5>1. r = print_direction_based_client_mac(st.cache) /\ client_mac(st.cache) \in Texts
          BY <1>0, <4>2, Dispatch, Chosen
        <5> HIDE DEF r
        <5>2. CASE st.cache.client_mac # Zero
          <6>1. r = Nothing(st.cache)
            BY <5>1, <5>2 DEF print_direction_based_client_mac
          <6> QED
            BY <6>1
        <5>3. CASE st.cache.client_mac = Zero
          <6>1. r = Printed([st.cache EXCEPT !.client_mac = client_mac(st.cache)],
                            client_mac(st.cache))
            BY <5>1, <5>3 DEF print_direction_based_client_mac
          <6> QED
            BY <5>1, <5>3, <6>1
        <5> QED
          BY <5>2, <5>3
      <4> QED
        BY <3>1, <4>1, <4>2
    <3>3. CASE r = Nothing(st.cache)
      BY <1>0, <1>2, <3>3 DEF Nothing, Agree
    <3>4. ASSUME st.cache.client_mac = Zero, NEW w \in Texts,
                 r = Printed([st.cache EXCEPT !.client_mac = w], w)
          PROVE  Agree(q)
      <4>1. r.out = <<w>> /\ r.cache.client_mac = w
        BY <1>0, <3>4 DEF Printed, Caches
      <4>2. ValuesIn(q.buf, "client_mac") = ValuesIn(st.buf, "client_mac") \cup {w}
        BY <1>0, <1>2, <2>2, <4>1, Extending
      <4> QED
        BY <1>0, <1>2, <3>4, <4>1, <4>2 DEF Agree
    <3> QED
      BY <3>2, <3>3, <3>4
  <2> QED
    BY <2>1, <2>2
<1>5. q.buf \in Seq(Tok) /\ r.cache \in Caches
  BY <1>1, <1>3 DEF Line, Touches, Outcome
<1> HIDE DEF q, r
<1>6. q \in [buf : Seq(Tok), cache : Caches]
  BY <1>2, <1>5
<1> QED
  BY <1>3, <1>4, <1>6 DEF States, q

LEMMA ListsApt ==
  ASSUME NEW xs \in Lists
  PROVE  Len(xs) \in Nat /\ \A i \in 1..Len(xs) : Apt(xs[i]) /\ xs[i].name \in Names
<1>1. AptList(xs)
  BY FieldTables, OtherTables DEF Lists
<1> QED
  BY <1>1 DEF AptList, Names

\* From state st, state q has as much of a message, and differs only where a list
\* with these functions and these names can make it differ.
After(st, q, fns, names) ==
  /\ Len(st.buf) % 2 = 0 => Len(q.buf) % 2 = 0
  /\ \A e \in Ends : (\A fn \in fns : Sets(fn) # e) => q.cache[e] = st.cache[e]
  /\ \A m : m \notin Braces \cup names => ValuesIn(q.buf, m) = ValuesIn(st.buf, m)

LEMMA ElementAfter ==
  ASSUME cfg \in Configurations, NEW st \in States, NEW x, Apt(x), x.name \in Names,
         NEW v \in Texts
  PROVE  After(st, print_element(st, x, v), {x.fn}, {x.name})
<1> DEFINE r == export_fn(x.fn, v, st.cache)
           q == print_element(st, x, v)
<1>0. /\ st.cache \in Caches /\ Line(st.buf)
      /\ x.fn \in Fns /\ x.name \in Names \ Braces
  BY DEF States, Apt
<1>1. Touches(r, st.cache, Sets(x.fn))
  BY <1>0, ExportTouches
<1>2. /\ q = [buf |-> q.buf, cache |-> r.cache]
      /\ r.out = <<>> => q.buf = st.buf
      /\ \A w : r.out = <<w>> => q.buf = Extended(st.buf, x.name, w)
  BY <1>0, <1>1, PrintElement DEF Touches
<1> HIDE DEF r, q
<1>3. \A e \in Ends : Sets(x.fn) # e => q.cache[e] = st.cache[e]
  <2>1. q.cache = r.cache
    BY <1>2
  <2> QED
    BY <1>1, <2>1 DEF Touches
<1>4. CASE r.out = <<>>
  BY <1>2, <1>3, <1>4 DEF After, q
<1>5. ASSUME NEW w \in Texts, r.out = <<w>> PROVE After(st, q, {x.fn}, {x.name})
  <2>1. /\ Len(Extended(st.buf, x.name, w)) % 2 = 0
        /\ \A m : m \notin Braces =>
             ValuesIn(Extended(st.buf, x.name, w), m) =
               ValuesIn(st.buf, m) \cup (IF m = x.name THEN {w} ELSE {})
    BY <1>0, Extending
  <2>2. \A m : m \notin Braces \cup {x.name} => ValuesIn(q.buf, m) = ValuesIn(st.buf, m)
    BY <1>2, <1>5, <2>1
  <2> QED
    BY <1>2, <1>3, <1>5, <2>1, <2>2 DEF After
<1> QED
  BY <1>1, <1>4, <1>5 DEF Touches, Outcome, q

FnsOf(xs) == {xs[i].fn : i \in 1..Len(xs)}
NamesOf(xs) == {xs[i].name : i \in 1..Len(xs)}

\* The functions and the names of lists of one, two, three and four elements.
LEMMA ListSets1 ==
  ASSUME NEW n1, NEW f1
  PROVE  FnsOf(<<X(n1, f1)>>) = {f1} /\ NamesOf(<<X(n1, f1)>>) = {n1}
<1>1. 1..1 = {1}
  OBVIOUS
<1> QED
  BY <1>1 DEF FnsOf, NamesOf, X

LEMMA ListSets2 ==
  ASSUME NEW n1, NEW f1, NEW n2, NEW f2
  PROVE  /\ FnsOf(<<X(n1, f1), X(n2, f2)>>) = {f1, f2}
         /\ NamesOf(<<X(n1, f1), X(n2, f2)>>) = {n1, n2}
<1>1. 1..2 = {1, 2}
  OBVIOUS
<1> QED
  BY <1>1 DEF FnsOf, NamesOf, X

LEMMA ListSets3 ==
  ASSUME NEW n1, NEW f1, NEW n2, NEW f2, NEW n3, NEW f3
  PROVE  /\ FnsOf(<<X(n1, f1), X(n2, f2), X(n3, f3)>>) = {f1, f2, f3}
         /\ NamesOf(<<X(n1, f1), X(n2, f2), X(n3, f3)>>) = {n1, n2, n3}
<1>1. 1..3 = {1, 2, 3}
  OBVIOUS
<1> QED
  BY <1>1 DEF FnsOf, NamesOf, X

LEMMA ListSets4 ==
  ASSUME NEW n1, NEW f1, NEW n2, NEW f2, NEW n3, NEW f3, NEW n4, NEW f4
  PROVE  /\ FnsOf(<<X(n1, f1), X(n2, f2), X(n3, f3), X(n4, f4)>>) = {f1, f2, f3, f4}
         /\ NamesOf(<<X(n1, f1), X(n2, f2), X(n3, f3), X(n4, f4)>>) = {n1, n2, n3, n4}
<1>1. 1..4 = {1, 2, 3, 4}
  OBVIOUS
<1> QED
  BY <1>1 DEF FnsOf, NamesOf, X

LEMMA FieldSetsOf ==
  /\ FnsOf(ver9_templates["IPV4_SRC_ADDR"]) = {"src", "net", "country"}
  /\ NamesOf(ver9_templates["IPV4_SRC_ADDR"]) = {"src", "src_net", "src_country_code"}
  /\ FnsOf(ver9_templates["IPV4_DST_ADDR"]) = {"dst", "net", "country"}
  /\ NamesOf(ver9_templates["IPV4_DST_ADDR"]) = {"dst", "dst_net", "dst_country_code"}
  /\ FnsOf(ver9_templates["IPV6_SRC_ADDR"]) = {"ipv6_src", "net", "country6"}
  /\ NamesOf(ver9_templates["IPV6_SRC_ADDR"]) = {"src", "src_net", "src_country_code"}
  /\ FnsOf(ver9_templates["IPV6_DST_ADDR"]) = {"ipv6_dst", "net", "country6"}
  /\ NamesOf(ver9_templates["IPV6_DST_ADDR"]) = {"dst", "dst_net", "dst_country_code"}
  /\ FnsOf(ver9_templates["INPUT_SNMP"]) = {"input", "interface_name"}
  /\ NamesOf(ver9_templates["INPUT_SNMP"]) = {"input_snmp", "input_snmp_name"}
  /\ FnsOf(ver9_templates["OUTPUT_SNMP"]) = {"output", "interface_name"}
  /\ NamesOf(ver9_templates["OUTPUT_SNMP"]) = {"output_snmp", "output_snmp_name"}
  /\ FnsOf(ver9_templates["L4_SRC_PORT"]) = {"src_port"}
  /\ NamesOf(ver9_templates["L4_SRC_PORT"]) = {"src_port"}
  /\ FnsOf(ver9_templates["L4_DST_PORT"]) = {"dst_port"}
  /\ NamesOf(ver9_templates["L4_DST_PORT"]) = {"dst_port"}
  /\ FnsOf(ver9_templates["DIRECTION"]) = {"direction"}
  /\ NamesOf(ver9_templates["DIRECTION"]) = {"direction"}
  /\ FnsOf(ver9_templates["TCP_FLAGS"]) = {"tcp_flags"}
  /\ NamesOf(ver9_templates["TCP_FLAGS"]) = {"tcp_flags"}
  /\ FnsOf(ver9_templates["IN_SRC_MAC"]) = {"src_mac"}
  /\ NamesOf(ver9_templates["IN_SRC_MAC"]) = {"src_mac"}
  /\ FnsOf(ver9_templates["IN_DST_MAC"]) = {"dst_mac"}
  /\ NamesOf(ver9_templates["IN_DST_MAC"]) = {"dst_mac"}
  /\ FnsOf(ver9_templates["OUT_DST_MAC"]) = {"post_dst_mac"}
  /\ NamesOf(ver9_templates["OUT_DST_MAC"]) = {"post_dst_mac"}
  /\ FnsOf(ver9_templates["OUT_SRC_MAC"]) = {"post_src_mac"}
  /\ NamesOf(ver9_templates["OUT_SRC_MAC"]) = {"post_dst_mac"}
  /\ FnsOf(ver9_templates["STA_MAC_ADDRESS"]) = {"NO_FN", "client_mac", "mac_vendor"}
  /\ NamesOf(ver9_templates["STA_MAC_ADDRESS"]) = {"sta_mac", "client_mac", "client_mac_vendor"}
  /\ FnsOf(ver9_templates["STA_IPV4_ADDRESS"]) = {"sta_ipv4", "net", "country"}
  /\ NamesOf(ver9_templates["STA_IPV4_ADDRESS"]) = {"lan_ip", "lan_ip_net", "lan_ip_country_code"}
  /\ FnsOf(ver9_templates["CISCO_HTTP_URL"]) = {"NO_FN", "private"}
  /\ NamesOf(ver9_templates["CISCO_HTTP_URL"]) = {"", "http_url"}
  /\ FnsOf(ver9_templates["CISCO_HTTP_HOST"]) = {"NO_FN", "http_host", "private_l2"}
  /\ NamesOf(ver9_templates["CISCO_HTTP_HOST"]) = {"", "http_host", "http_host_l2"}
  /\ FnsOf(ver9_templates["CISCO_HTTP_REFERER"]) = {"NO_FN", "http_referer", "NO_FN"}
  /\ NamesOf(ver9_templates["CISCO_HTTP_REFERER"]) = {"", "http_referer", "http_referer_l2"}
  /\ FnsOf(ver9_templates["CISCO_HTTPS_COMMON_NAME"]) = {"NO_FN", "ssl_common_name"}
  /\ NamesOf(ver9_templates["CISCO_HTTPS_COMMON_NAME"]) = {"", "https_common_name"}
<1>1. /\ FnsOf(ver9_templates["IPV4_SRC_ADDR"]) = {"src", "net", "country"}
      /\ NamesOf(ver9_templates["IPV4_SRC_ADDR"]) = {"src", "src_net", "src_country_code"}
  <2>1. ver9_templates["IPV4_SRC_ADDR"] =
          <<X("src", "src"), X("src_net", "net"), X("src_country_code", "country")>>
    BY FieldTable
  <2> QED
    BY <2>1, ListSets3
<1>2. /\ FnsOf(ver9_templates["IPV4_DST_ADDR"]) = {"dst", "net", "country"}
      /\ NamesOf(ver9_templates["IPV4_DST_ADDR"]) = {"dst", "dst_net", "dst_country_code"}
  <2>1. ver9_templates["IPV4_DST_ADDR"] =
          <<X("dst", "dst"), X("dst_net", "net"), X("dst_country_code", "country")>>
    BY FieldTable
  <2> QED
    BY <2>1, ListSets3
<1>3. /\ FnsOf(ver9_templates["IPV6_SRC_ADDR"]) = {"ipv6_src", "net", "country6"}
      /\ NamesOf(ver9_templates["IPV6_SRC_ADDR"]) = {"src", "src_net", "src_country_code"}
  <2>1. ver9_templates["IPV6_SRC_ADDR"] =
          <<X("src", "ipv6_src"), X("src_net", "net"), X("src_country_code", "country6")>>
    BY FieldTable
  <2> QED
    BY <2>1, ListSets3
<1>4. /\ FnsOf(ver9_templates["IPV6_DST_ADDR"]) = {"ipv6_dst", "net", "country6"}
      /\ NamesOf(ver9_templates["IPV6_DST_ADDR"]) = {"dst", "dst_net", "dst_country_code"}
  <2>1. ver9_templates["IPV6_DST_ADDR"] =
          <<X("dst", "ipv6_dst"), X("dst_net", "net"), X("dst_country_code", "country6")>>
    BY FieldTable
  <2> QED
    BY <2>1, ListSets3
<1>5. /\ FnsOf(ver9_templates["INPUT_SNMP"]) = {"input", "interface_name"}
      /\ NamesOf(ver9_templates["INPUT_SNMP"]) = {"input_snmp", "input_snmp_name"}
  <2>1. ver9_templates["INPUT_SNMP"] =
          <<X("input_snmp", "input"), X("input_snmp_name", "interface_name")>>
    BY FieldTable
  <2> QED
    BY <2>1, ListSets2
<1>6. /\ FnsOf(ver9_templates["OUTPUT_SNMP"]) = {"output", "interface_name"}
      /\ NamesOf(ver9_templates["OUTPUT_SNMP"]) = {"output_snmp", "output_snmp_name"}
  <2>1. ver9_templates["OUTPUT_SNMP"] =
          <<X("output_snmp", "output"), X("output_snmp_name", "interface_name")>>
    BY FieldTable
  <2> QED
    BY <2>1, ListSets2
<1>7. /\ FnsOf(ver9_templates["L4_SRC_PORT"]) = {"src_port"}
      /\ NamesOf(ver9_templates["L4_SRC_PORT"]) = {"src_port"}
  <2>1. ver9_templates["L4_SRC_PORT"] =
          <<X("src_port", "src_port")>>
    BY FieldTable
  <2> QED
    BY <2>1, ListSets1
<1>8. /\ FnsOf(ver9_templates["L4_DST_PORT"]) = {"dst_port"}
      /\ NamesOf(ver9_templates["L4_DST_PORT"]) = {"dst_port"}
  <2>1. ver9_templates["L4_DST_PORT"] =
          <<X("dst_port", "dst_port")>>
    BY FieldTable
  <2> QED
    BY <2>1, ListSets1
<1>9. /\ FnsOf(ver9_templates["DIRECTION"]) = {"direction"}
      /\ NamesOf(ver9_templates["DIRECTION"]) = {"direction"}
  <2>1. ver9_templates["DIRECTION"] =
          <<X("direction", "direction")>>
    BY FieldTable
  <2> QED
    BY <2>1, ListSets1
<1>10. /\ FnsOf(ver9_templates["TCP_FLAGS"]) = {"tcp_flags"}
       /\ NamesOf(ver9_templates["TCP_FLAGS"]) = {"tcp_flags"}
  <2>1. ver9_templates["TCP_FLAGS"] =
          <<X("tcp_flags", "tcp_flags")>>
    BY FieldTable
  <2> QED
    BY <2>1, ListSets1
<1>11. /\ FnsOf(ver9_templates["IN_SRC_MAC"]) = {"src_mac"}
       /\ NamesOf(ver9_templates["IN_SRC_MAC"]) = {"src_mac"}
  <2>1. ver9_templates["IN_SRC_MAC"] =
          <<X("src_mac", "src_mac")>>
    BY FieldTable
  <2> QED
    BY <2>1, ListSets1
<1>12. /\ FnsOf(ver9_templates["IN_DST_MAC"]) = {"dst_mac"}
       /\ NamesOf(ver9_templates["IN_DST_MAC"]) = {"dst_mac"}
  <2>1. ver9_templates["IN_DST_MAC"] =
          <<X("dst_mac", "dst_mac")>>
    BY FieldTable
  <2> QED
    BY <2>1, ListSets1
<1>13. /\ FnsOf(ver9_templates["OUT_DST_MAC"]) = {"post_dst_mac"}
       /\ NamesOf(ver9_templates["OUT_DST_MAC"]) = {"post_dst_mac"}
  <2>1. ver9_templates["OUT_DST_MAC"] =
          <<X("post_dst_mac", "post_dst_mac")>>
    BY FieldTable
  <2> QED
    BY <2>1, ListSets1
<1>14. /\ FnsOf(ver9_templates["OUT_SRC_MAC"]) = {"post_src_mac"}
       /\ NamesOf(ver9_templates["OUT_SRC_MAC"]) = {"post_dst_mac"}
  <2>1. ver9_templates["OUT_SRC_MAC"] =
          <<X("post_dst_mac", "post_src_mac")>>
    BY FieldTable
  <2> QED
    BY <2>1, ListSets1
<1>15. /\ FnsOf(ver9_templates["STA_MAC_ADDRESS"]) = {"NO_FN", "client_mac", "mac_vendor"}
       /\ NamesOf(ver9_templates["STA_MAC_ADDRESS"]) = {"sta_mac", "client_mac", "client_mac_vendor"}
  <2>1. ver9_templates["STA_MAC_ADDRESS"] =
          <<X("sta_mac", "NO_FN"), X("client_mac", "client_mac"), X("client_mac_vendor", "mac_vendor")>>
    BY FieldTable
  <2> QED
    BY <2>1, ListSets3
<1>16. /\ FnsOf(ver9_templates["STA_IPV4_ADDRESS"]) = {"sta_ipv4", "net", "country"}
       /\ NamesOf(ver9_templates["STA_IPV4_ADDRESS"]) = {"lan_ip", "lan_ip_net", "lan_ip_country_code"}
  <2>1. ver9_templates["STA_IPV4_ADDRESS"] =
          <<X("lan_ip", "sta_ipv4"), X("lan_ip_net", "net"), X("lan_ip_country_code", "country")>>
    BY FieldTable
  <2> QED
    BY <2>1, ListSets3
<1>17. /\ FnsOf(ver9_templates["CISCO_HTTP_URL"]) = {"NO_FN", "private"}
       /\ NamesOf(ver9_templates["CISCO_HTTP_URL"]) = {"", "http_url"}
  <2>0. PICK none : none = ""
    OBVIOUS
  <2>1. ver9_templates["CISCO_HTTP_URL"] =
          <<X(none, "NO_FN"), X("http_url", "private")>>
    BY <2>0, FieldTable
  <2>2. /\ FnsOf(ver9_templates["CISCO_HTTP_URL"]) = {"NO_FN", "private"}
        /\ NamesOf(ver9_templates["CISCO_HTTP_URL"]) = {none, "http_url"}
    BY <2>1, ListSets2
  <2> QED
    BY <2>0, <2>2
<1>18. /\ FnsOf(ver9_templates["CISCO_HTTP_HOST"]) = {"NO_FN", "http_host", "private_l2"}
       /\ NamesOf(ver9_templates["CISCO_HTTP_HOST"]) = {"", "http_host", "http_host_l2"}
  <2>0. PICK none : none = ""
    OBVIOUS
  <2>1. ver9_templates["CISCO_HTTP_HOST"] =
          <<X(none, "NO_FN"), X("http_host", "http_host"), X("http_host_l2", "private_l2")>>
    BY <2>0, FieldTable
  <2>2. /\ FnsOf(ver9_templates["CISCO_HTTP_HOST"]) = {"NO_FN", "http_host", "private_l2"}
        /\ NamesOf(ver9_templates["CISCO_HTTP_HOST"]) = {none, "http_host", "http_host_l2"}
    BY <2>1, ListSets3
  <2> QED
    BY <2>0, <2>2
<1>19. /\ FnsOf(ver9_templates["CISCO_HTTP_REFERER"]) = {"NO_FN", "http_referer", "NO_FN"}
       /\ NamesOf(ver9_templates["CISCO_HTTP_REFERER"]) = {"", "http_referer", "http_referer_l2"}
  <2>0. PICK none : none = ""
    OBVIOUS
  <2>1. ver9_templates["CISCO_HTTP_REFERER"] =
          <<X(none, "NO_FN"), X("http_referer", "http_referer"), X("http_referer_l2", "NO_FN")>>
    BY <2>0, FieldTable
  <2>2. /\ FnsOf(ver9_templates["CISCO_HTTP_REFERER"]) = {"NO_FN", "http_referer", "NO_FN"}
        /\ NamesOf(ver9_templates["CISCO_HTTP_REFERER"]) = {none, "http_referer", "http_referer_l2"}
    BY <2>1, ListSets3
  <2> QED
    BY <2>0, <2>2
<1>20. /\ FnsOf(ver9_templates["CISCO_HTTPS_COMMON_NAME"]) = {"NO_FN", "ssl_common_name"}
       /\ NamesOf(ver9_templates["CISCO_HTTPS_COMMON_NAME"]) = {"", "https_common_name"}
  <2>0. PICK none : none = ""
    OBVIOUS
  <2>1. ver9_templates["CISCO_HTTPS_COMMON_NAME"] =
          <<X(none, "NO_FN"), X("https_common_name", "ssl_common_name")>>
    BY <2>0, FieldTable
  <2>2. /\ FnsOf(ver9_templates["CISCO_HTTPS_COMMON_NAME"]) = {"NO_FN", "ssl_common_name"}
        /\ NamesOf(ver9_templates["CISCO_HTTPS_COMMON_NAME"]) = {none, "https_common_name"}
    BY <2>1, ListSets2
  <2> QED
    BY <2>0, <2>2
<1> QED
  BY <1>1, <1>2, <1>3, <1>4, <1>5, <1>6, <1>7, <1>8, <1>9, <1>10,
     <1>11, <1>12, <1>13, <1>14, <1>15, <1>16, <1>17, <1>18, <1>19, <1>20

LEMMA ListAfter ==
  ASSUME cfg \in Configurations, NEW st \in States, NEW xs \in Lists, NEW v \in Texts
  PROVE  /\ printNetflowRecordWithTemplate(st, xs, v) \in States
         /\ After(st, printNetflowRecordWithTemplate(st, xs, v), FnsOf(xs), NamesOf(xs))
<1> DEFINE S == {s \in States : After(st, s, FnsOf(xs), NamesOf(xs))}
<1>0. Len(xs) \in Nat /\ \A i \in 1..Len(xs) : Apt(xs[i]) /\ xs[i].name \in Names
  BY ListsApt
<1>1. st \in S
  BY DEF After
<1>2. ASSUME NEW s \in S, NEW i \in 1..Len(xs) PROVE print_element(s, xs[i], v) \in S
  <2>1. print_element(s, xs[i], v) \in States
    BY <1>0, ElementKeeps
  <2>2. After(s, print_element(s, xs[i], v), {xs[i].fn}, {xs[i].name})
    BY <1>0, ElementAfter
  <2>3. xs[i].fn \in FnsOf(xs) /\ xs[i].name \in NamesOf(xs)
    BY DEF FnsOf, NamesOf
  <2>4. After(st, s, FnsOf(xs), NamesOf(xs))
    BY <1>2
  <2>5. After(st, print_element(s, xs[i], v), FnsOf(xs), NamesOf(xs))
    BY <2>2, <2>3, <2>4 DEF After
  <2> QED
    BY <2>1, <2>5
<1>3. printNetflowRecordWithTemplate(st, xs, v) \in S
  BY <1>0, <1>1, <1>2, PrintingKeeps
<1> QED
  BY <1>3

-----------------------------------------------------------------------------
(* Every message is one object, and its key is the client it names.        *)

Now == [buf |-> buf, cache |-> cache]

\* An empty enrichment left its comma: nothing is known of the commas then.
Broken == pc = "split" /\ cfg.enrichment = << 0 >>

Loose == {s \in [buf : Seq(Tok), cache : Caches] : Agree(s)}

RInv ==
  /\ cfg \in Configurations
  /\ rest \subseteq Fields
  /\ pc \in {"begin", "fields", "split", "sent"}
  /\ pc # "sent" => IF Broken THEN Now \in Loose ELSE Now \in States
  /\ pc = "begin" => buf = <<Open>>
  /\ pc \in {"fields", "split"} /\ ~Broken => Len(buf) % 2 = 0
  /\ WellFormed
  /\ ClientPartition

LEMMA StateParts ==
  ASSUME NEW q \in States
  PROVE  /\ q = [buf |-> q.buf, cache |-> q.cache] /\ Line(q.buf) /\ q.cache \in Caches
         /\ Agree(q) /\ q.buf \in Seq(Tok) /\ Len(q.buf) \in Nat
  BY DEF States, Line

LEMMA SameCache ==
  ASSUME NEW c \in Caches, NEW d \in Caches, \A e \in Ends : c[e] = d[e]
  PROVE  c = d
  BY DEF Caches

LEMMA TextsGiven ==
  /\ {"", "n", "sensor", Zero, NoAddr, "upstream", "downstream", "internal"} \subseteq Texts
  /\ \A k \in Fields : Vals[k] \subseteq Texts
<1>1. \A k \in Fields : Vals[k] \in {Vals[j] : j \in Fields}
  OBVIOUS
<1> QED
  BY <1>1 DEF Texts, Fields

\* Numbers leave the cache alone.
LEMMA NumberLists ==
  ASSUME NEW xs \in {Header, Whole, Separated}
  PROVE  FnsOf(xs) = {"number"} /\ Len(xs) \in {2, 3, 4}
         /\ NamesOf(xs) \subseteq {"type", "flow_sequence", "first_switched", "timestamp",
                                   "bytes", "pkts"}
         /\ \A i \in 1..Len(xs) : xs[i].fn = "number"
<1>1. CASE xs = Header
  <2>1. Len(xs) = 2 /\ xs[1] = X("type", "number") /\ xs[2] = X("flow_sequence", "number")
    BY <1>1 DEF Header
  <2>2. 1..2 = {1, 2}
    OBVIOUS
  <2> QED
    BY <2>1, <2>2 DEF FnsOf, NamesOf, X
<1>2. CASE xs = Whole
  <2>1. Len(xs) = 4 /\ xs[1] = X("first_switched", "number") /\ xs[2] = X("timestamp", "number")
        /\ xs[3] = X("bytes", "number") /\ xs[4] = X("pkts", "number")
    BY <1>2 DEF Whole
  <2>2. 1..4 = {1, 2, 3, 4}
    OBVIOUS
  <2> QED
    BY <2>1, <2>2 DEF FnsOf, NamesOf, X
<1>3. CASE xs = Separated
  <2>1. Len(xs) = 3 /\ xs[1] = X("bytes", "number") /\ xs[2] = X("pkts", "number")
        /\ xs[3] = X("timestamp", "number")
    BY <1>3 DEF Separated
  <2>2. 1..3 = {1, 2, 3}
    OBVIOUS
  <2> QED
    BY <2>1, <2>2 DEF FnsOf, NamesOf, X
<1> QED
  BY <1>1, <1>2, <1>3

LEMMA NumbersKeepCache ==
  ASSUME cfg \in Configurations, NEW st \in States, NEW xs \in {Header, Whole, Separated}
  PROVE  LET q == printNetflowRecordWithTemplate(st, xs, "n")
         IN  q \in States /\ q.cache = st.cache /\ After(st, q, {"number"}, NamesOf(xs))
<1> DEFINE q == printNetflowRecordWithTemplate(st, xs, "n")
<1>1. q \in States /\ After(st, q, {"number"}, NamesOf(xs))
  BY ListAfter, NumberLists, TextsGiven DEF Lists
<1>2. Sets("number") = "none" /\ "none" \notin Ends
  BY SetsTable DEF Showing, Ends
<1> HIDE DEF q
<1>3. q.cache = st.cache
  BY <1>1, <1>2, SameCache, StateParts DEF After
<1> QED
  BY <1>1, <1>3 DEF q

\* The header always prints something.
LEMMA HeaderPrints ==
  ASSUME cfg \in Configurations, NEW st \in States
  PROVE  Len(printNetflowRecordWithTemplate(st, Header, "n").buf) % 2 = 0
<1>1. Len(Header) = 2 /\ Header[1] = X("type", "number") /\ Header[2] = X("flow_sequence", "number")
  BY DEF Header
<1>0. Header \in Lists /\ Len(Header) \in Nat
  BY <1>1 DEF Lists
<1>2. PICK f : Prints(f, st, Header, "n")
               /\ printNetflowRecordWithTemplate(st, Header, "n") = f[Len(Header)]
  BY <1>0, Printing
<1>3. f[1] = print_element(st, Header[1], "n") /\ f[2] = print_element(f[1], Header[2], "n")
  BY <1>1, <1>2 DEF Prints
<1>4. /\ Apt(Header[1]) /\ Header[1].name \in Names
      /\ Apt(Header[2]) /\ Header[2].name \in Names /\ "n" \in Texts
  <2>1. 1 \in 1..Len(Header) /\ 2 \in 1..Len(Header)
    BY <1>1
  <2> QED
    BY <1>0, <2>1, ListsApt, TextsGiven
<1>5. Len(f[1].buf) % 2 = 0 /\ f[1] \in States
  <2>1. export_fn(Header[1].fn, "n", st.cache) = Printed(st.cache, "n")
    BY <1>1, Dispatch DEF X
  <2>2. export_fn(Header[1].fn, "n", st.cache).out = <<"n">>
    BY <2>1 DEF Printed
  <2>3. Outcome(export_fn(Header[1].fn, "n", st.cache))
    BY <2>1, <1>4, PrintedTouches, StateParts DEF Touches
  <2>4. f[1].buf = Extended(st.buf, Header[1].name, "n")
    BY <1>3, <2>2, <2>3, PrintElement, StateParts
  <2>5. Header[1].name \in Names \ Braces
    BY <1>4 DEF Apt
  <2>6. f[1] \in States
    BY <1>3, <1>4, ElementKeeps
  <2> QED
    BY <1>4, <2>4, <2>5, <2>6, Extending, StateParts
<1>6. After(f[1], f[2], {Header[2].fn}, {Header[2].name})
  BY <1>3, <1>4, <1>5, ElementAfter
<1> QED
  BY <1>1, <1>2, <1>5, <1>6 DEF After

\* Only the cache of a state is replaced, by one that names the same client.
LEMMA GuessKeeps ==
  ASSUME NEW st \in States
  PROVE  /\ [st EXCEPT !.cache = guessDirection(st.cache)] \in States
         /\ [st EXCEPT !.cache = guessDirection(st.cache)].buf = st.buf
         /\ [st EXCEPT !.cache = guessDirection(st.cache)].cache = guessDirection(st.cache)
         /\ \A e \in Ends \ {"direction"} : guessDirection(st.cache)[e] = st.cache[e]
<1> DEFINE c == st.cache
           g == guessDirection(c)
           q == [st EXCEPT !.cache = g]
<1>0. st = [buf |-> st.buf, cache |-> c] /\ c \in Caches
  BY StateParts
<1>1. q = [buf |-> st.buf, cache |-> g]
  BY <1>0
<1>2. g = c \/ \E u \in {"upstream", "downstream", "internal"} : g = [c EXCEPT !.direction = u]
  <2>1. ip_direction(c.src \in Home, c.dst \in Home)
          \in {"upstream", "downstream", "internal", "unset"}
    BY DEF ip_direction
  <2> QED
    BY <2>1 DEF guessDirection
<1>3. g \in Caches /\ \A e \in Ends \ {"direction"} : g[e] = c[e]
  <2>1. CASE g = c
    BY <1>0, <2>1
  <2>2. ASSUME NEW u \in {"upstream", "downstream", "internal"}, g = [c EXCEPT !.direction = u]
        PROVE  g \in Caches /\ \A e \in Ends \ {"direction"} : g[e] = c[e]
    <3>1. u \in Texts
      BY TextsGiven
    <3>2. DOMAIN c = Ends
      BY <1>0 DEF Caches
    <3> QED
      BY <1>0, <2>2, <3>1, <3>2 DEF Caches
  <2> QED
    BY <1>2, <2>1, <2>2
<1> HIDE DEF g, q
<1>4. q.buf = st.buf /\ q.cache = g
  BY <1>1
<1>5. Agree(q)
  <2>1. g.client_mac = c.client_mac
    BY <1>3 DEF Ends
  <2> QED
    BY <1>4, <2>1, StateParts DEF Agree
<1>6. q \in [buf : Seq(Tok), cache : Caches] /\ Line(q.buf)
  BY <1>1, <1>3, <1>4, StateParts
<1> QED
  BY <1>3, <1>4, <1>5, <1>6 DEF States, g, q

\* Appending tokens of other names leaves the values of a name as they are.
LEMMA ConcatValues ==
  ASSUME NEW a \in Seq(Tok), NEW b \in Seq(Tok), NEW m,
         \A i \in 1..Len(b) : b[i].token # m
  PROVE  ValuesIn(a \o b, m) = ValuesIn(a, m)
<1> DEFINE e == a \o b
<1>1. /\ e \in Seq(Tok) /\ Len(e) = Len(a) + Len(b) /\ Len(a) \in Nat /\ Len(b) \in Nat
      /\ \A i \in 1..Len(a) : e[i] = a[i]
      /\ \A i \in (Len(a) + 1)..(Len(a) + Len(b)) : e[i] = b[i - Len(a)]
  OBVIOUS
<1>2. DOMAIN e = 1..Len(e) /\ DOMAIN a = 1..Len(a)
  BY <1>1
<1> HIDE DEF e
<1>3. {j \in DOMAIN e : e[j].token = m} = {j \in DOMAIN a : a[j].token = m}
  <2>1. ASSUME NEW j \in DOMAIN e, j > Len(a) PROVE e[j].token # m
    <3>1. j - Len(a) \in 1..Len(b) /\ j \in (Len(a) + 1)..(Len(a) + Len(b))
      BY <1>1, <1>2, <2>1
    <3>2. e[j] = b[j - Len(a)]
      BY <1>1, <3>1
    <3> QED
      BY <3>1, <3>2
  <2>2. \A j \in DOMAIN e : j > Len(a) \/ j \in DOMAIN a
    BY <1>1, <1>2
  <2>3. \A j \in DOMAIN a : j \in DOMAIN e /\ ~(j > Len(a)) /\ e[j] = a[j]
    BY <1>1, <1>2
  <2> QED
    BY <2>1, <2>2, <2>3
<1>4. \A j \in DOMAIN a : e[j] = a[j]
  BY <1>1, <1>2
<1> QED
  BY <1>3, <1>4 DEF ValuesIn, e

\* The text that is kept of an enrichment: members at the odd places, commas at
\* the even ones.
LEMMA Enrichment ==
  ASSUME NEW n \in Nat
  PROVE  LET t == parse_observation_id_enrichment(n)
         IN  /\ t \in Seq(Tok) /\ Len(t) \in Nat
             /\ n = 0 => t = <<>>
             /\ n # 0 => Len(t) = 2 * n - 1 /\ Len(t) % 2 = 1
             /\ \A i \in 1..Len(t) : IF i % 2 = 1 THEN IsMember(t[i]) ELSE t[i] = Comma
             /\ \A m : m \notin Braces \cup {"sensor_name"} =>
                  \A i \in 1..Len(t) : t[i].token # m
<1> DEFINE t == parse_observation_id_enrichment(n)
           l == IF n = 0 THEN 0 ELSE 2 * n - 1
           u == Member("sensor_name", "sensor")
<1>1. l \in Nat /\ (n # 0 => l % 2 = 1)
  OBVIOUS
<1>2. /\ u \in Tok /\ IsMember(u) /\ u.token = "sensor_name"
      /\ Comma \in Tok /\ Comma.token \in Braces
  <2>1. "sensor_name" \in Names \ Braces
    BY DEF Names, Braces
  <2>2. "sensor" \in Texts
    BY TextsGiven
  <2> QED
    BY <2>1, <2>2, Tokens
<1>3. t = [i \in 1..l |-> IF i % 2 = 1 THEN u ELSE Comma]
  BY DEF parse_observation_id_enrichment
<1> HIDE DEF t, l, u
<1>4. t \in Seq(Tok) /\ Len(t) = l
  BY <1>1, <1>2, <1>3
<1>5. \A i \in 1..Len(t) : t[i] = IF i % 2 = 1 THEN u ELSE Comma
  BY <1>3, <1>4
<1>6. \A i \in 1..Len(t) : IF i % 2 = 1 THEN IsMember(t[i]) ELSE t[i] = Comma
  BY <1>2, <1>5
<1>7. ASSUME NEW m, m \notin Braces \cup {"sensor_name"}, NEW i \in 1..Len(t)
      PROVE  t[i].token # m
  BY <1>2, <1>5, <1>7
<1>8. n = 0 => t = <<>>
  <2>1. n = 0 => l = 0
    BY DEF l
  <2> QED
    BY <1>4, <2>1
<1>9. n # 0 => Len(t) = 2 * n - 1 /\ Len(t) % 2 = 1
  <2>1. n # 0 => l = 2 * n - 1
    BY DEF l
  <2> QED
    BY <1>1, <1>4, <2>1
<1>10. Len(t) \in Nat
  BY <1>1, <1>4
<1> QED
  BY <1>4, <1>6, <1>7, <1>8, <1>9, <1>10 DEF t

LEMMA OddEven ==
  ASSUME NEW n \in Nat, NEW k \in Nat, n % 2 = 0, k % 2 = 1
  PROVE  (n + 1 + k) % 2 = 0
  OBVIOUS

LEMMA EvenOdd ==
  ASSUME NEW n \in Nat, NEW k \in Nat, n % 2 = 0
  PROVE  k % 2 \in {0, 1} /\ ((n + 1 + k) % 2 = 0 <=> k % 2 = 1)
  OBVIOUS

LEMMA NextOdd ==
  ASSUME NEW n \in Nat, n % 2 = 0
  PROVE  (n + 1) % 2 # 0
  OBVIOUS

LEMMA ConcatParts ==
  ASSUME NEW S, NEW p \in Seq(S), NEW q \in Seq(S)
  PROVE  /\ p \o q \in Seq(S) /\ Len(p \o q) = Len(p) + Len(q)
         /\ Len(p) \in Nat /\ Len(q) \in Nat
         /\ \A i \in 1..Len(p) : (p \o q)[i] = p[i]
         /\ \A i \in (Len(p) + 1)..(Len(p) + Len(q)) : (p \o q)[i] = q[i - Len(p)]
<1>1. p \o q \in Seq(S) /\ Len(p \o q) = Len(p) + Len(q)
  OBVIOUS
<1>2. Len(p) \in Nat /\ Len(q) \in Nat
  OBVIOUS
<1>3. \A i \in 1..Len(p) : (p \o q)[i] = p[i]
  OBVIOUS
<1>4. \A i \in (Len(p) + 1)..(Len(p) + Len(q)) : (p \o q)[i] = q[i - Len(p)]
  OBVIOUS
<1> QED
  BY <1>1, <1>2, <1>3, <1>4

\* A line, a comma, and a text of the form of an enrichment that is not empty.
LEMMA Joining ==
  ASSUME NEW a, Line(a), Len(a) % 2 = 0, NEW t \in Seq(Tok), Len(t) % 2 = 1,
         \A i \in 1..Len(t) : IF i % 2 = 1 THEN IsMember(t[i]) ELSE t[i] = Comma
  PROVE  Line(a \o <<Comma>> \o t) /\ Len(a \o <<Comma>> \o t) % 2 = 0
<1> DEFINE d == a \o <<Comma>>
           e == d \o t
<1>0. a \in Seq(Tok) /\ Comma \in Tok /\ Len(a) \in Nat /\ Len(a) > 0 /\ a[1] = Open
      /\ \A i \in 2..Len(a) : IF i % 2 = 0 THEN IsMember(a[i]) ELSE a[i] = Comma
  BY Tokens DEF Line
<1>1. /\ d \in Seq(Tok) /\ Len(d) = Len(a) + 1 /\ d[Len(a) + 1] = Comma
      /\ \A i \in 1..Len(a) : d[i] = a[i]
  BY <1>0, AppendValues
<1> HIDE DEF d
<1>2. /\ e \in Seq(Tok) /\ Len(e) = Len(d) + Len(t) /\ Len(t) \in Nat
      /\ \A i \in 1..Len(d) : e[i] = d[i]
      /\ \A i \in (Len(d) + 1)..(Len(d) + Len(t)) : e[i] = t[i - Len(d)]
  <2>1. d \in Seq(Tok)
    BY <1>1
  <2> QED
    BY <2>1, ConcatParts
<1> HIDE DEF e
<1>3. Len(e) % 2 = 0 /\ Len(e) > 0
  <2>1. Len(e) = Len(a) + 1 + Len(t)
    BY <1>0, <1>1, <1>2
  <2>2. (Len(a) + 1 + Len(t)) % 2 = 0
    BY <1>0, <1>2, OddEven
  <2>3. Len(e) > 0
    <3>1. Len(a) \in Nat /\ Len(t) \in Nat /\ Len(a) > 0
      BY <1>0, <1>2
    <3> QED
      BY <2>1, <3>1
  <2>4. Len(e) % 2 = 0
    BY <2>1, <2>2, Zenon
  <2> QED
    BY <2>3, <2>4
<1>4. e[1] = Open
  <2>1. 1 \in 1..Len(a) /\ 1 \in 1..Len(d)
    BY <1>0, <1>1
  <2>2. e[1] = d[1] /\ d[1] = a[1]
    BY <1>1, <1>2, <2>1
  <2> QED
    BY <1>0, <2>2
<1>5. ASSUME NEW i \in 2..Len(e) PROVE IF i % 2 = 0 THEN IsMember(e[i]) ELSE e[i] = Comma
  <2>1. CASE i <= Len(a)
    <3>1. i \in 2..Len(a) /\ i \in 1..Len(a) /\ i \in 1..Len(d)
      <4>1. Len(a) \in Nat /\ Len(d) = Len(a) + 1 /\ i \in Int /\ i >= 2
        BY <1>0, <1>1
      <4> QED
        BY <4>1, <2>1
    <3>2. e[i] = d[i] /\ d[i] = a[i]
      BY <1>1, <1>2, <3>1, Zenon
    <3> QED
      BY <3>1, <3>2, <1>0
  <2>2. CASE i = Len(a) + 1
    <3>1. e[i] = Comma
      BY <2>2, <1>0, <1>1, <1>2
    <3>2. i % 2 # 0
      BY <2>2, <1>0, NextOdd, Zenon
    <3> QED
      BY <3>1, <3>2
  <2>3. CASE i > Len(a) + 1
    <3> DEFINE j == i - Len(d)
    <3>1. j \in 1..Len(t) /\ e[i] = t[j]
      BY <2>3, <1>0, <1>1, <1>2
    <3>2. j % 2 \in {0, 1} /\ (i % 2 = 0 <=> j % 2 = 1)
      <4>1. i = Len(a) + 1 + j /\ j \in Nat
        BY <1>0, <1>1, <3>1
      <4> HIDE DEF j
      <4> QED
        BY <1>0, <4>1, EvenOdd
    <3> QED
      BY <3>1, <3>2
  <2>4. i \in Nat /\ Len(a) \in Nat
    BY <1>0
  <2> QED
    BY <2>1, <2>2, <2>3, <2>4
<1> QED
  BY <1>2, <1>3, <1>4, <1>5 DEF Line, e, d

LEMMA EnrichmentKeeps ==
  ASSUME cfg \in Configurations, NEW st \in States, Len(st.buf) % 2 = 0
  PROVE  LET b == print_sensor_enrichment(st.buf)
         IN  /\ [buf |-> b, cache |-> st.cache] \in Loose
             /\ cfg.enrichment # << 0 >> =>
                  [buf |-> b, cache |-> st.cache] \in States /\ Len(b) % 2 = 0
             /\ \A m : m \notin Braces \cup {"sensor_name"} => ValuesIn(b, m) = ValuesIn(st.buf, m)
<1> DEFINE b == print_sensor_enrichment(st.buf)
           q == [buf |-> b, cache |-> st.cache]
<1>0. /\ Line(st.buf) /\ st.buf \in Seq(Tok) /\ st.cache \in Caches /\ Agree(st)
      /\ st = [buf |-> st.buf, cache |-> st.cache]
  BY StateParts
<1>1. CASE cfg.enrichment = <<>>
  <2>1. b = st.buf
    BY <1>1 DEF print_sensor_enrichment
  <2> HIDE DEF b
  <2> QED
    BY <1>0, <2>1 DEF b, Loose
<1>2. CASE cfg.enrichment # <<>>
  <2>1. PICK n \in Members : cfg.enrichment = <<n>>
    BY <1>2 DEF Configurations
  <2>2. n \in Nat /\ cfg.enrichment[1] = n /\ (cfg.enrichment # << 0 >> => n # 0)
    BY <2>1, RecordAssumption
  <2> DEFINE t == parse_observation_id_enrichment(n)
             d == st.buf \o <<Comma>>
  <2>3. b = d \o t
    BY <1>2, <2>2 DEF print_sensor_enrichment
  <2>4. /\ t \in Seq(Tok) /\ (n # 0 => Len(t) % 2 = 1)
        /\ \A i \in 1..Len(t) : IF i % 2 = 1 THEN IsMember(t[i]) ELSE t[i] = Comma
        /\ \A m : m \notin Braces \cup {"sensor_name"} => \A i \in 1..Len(t) : t[i].token # m
    BY <2>2, Enrichment
  <2>5. n # 0 => Line(b) /\ Len(b) % 2 = 0
    BY <1>0, <2>3, <2>4, Joining
  <2> HIDE DEF b, t
  <2>6. d \in Seq(Tok) /\ Comma \in Tok /\ Comma.token \in Braces
    BY <1>0, Tokens
  <2>7. \A m : m \notin Braces \cup {"sensor_name"} => ValuesIn(b, m) = ValuesIn(st.buf, m)
    <3>1. SUFFICES ASSUME NEW m, m \notin Braces \cup {"sensor_name"}
                   PROVE  ValuesIn(b, m) = ValuesIn(st.buf, m)
      OBVIOUS
    <3>2. ValuesIn(d, m) =
            ValuesIn(st.buf, m) \cup (IF Comma.token = m THEN {Comma.value} ELSE {})
      BY <1>0, <2>6, AppendValues
    <3>3. ValuesIn(d \o t, m) = ValuesIn(d, m)
      <4> HIDE DEF d
      <4> QED
        BY <2>4, <2>6, <3>1, ConcatValues
    <3> QED
      BY <2>3, <2>6, <3>1, <3>2, <3>3
  <2>8. b \in Seq(Tok)
    <3> HIDE DEF d
    <3> QED
      BY <2>3, <2>4, <2>6
  <2>9. Agree(q)
    <3>1. "client_mac" \notin Braces \cup {"sensor_name"}
      BY DEF Braces
    <3> QED
      BY <1>0, <2>7, <3>1 DEF Agree
  <2>10. q \in [buf : Seq(Tok), cache : Caches] /\ q.buf = b
    BY <1>0, <2>8
  <2>11. q \in Loose /\ (n # 0 => q \in States)
    BY <2>5, <2>9, <2>10 DEF Loose, States
  <2> QED
    BY <2>2, <2>5, <2>7, <2>11 DEF b
<1> QED
  BY <1>1, <1>2

\* A number is added whatever the message looks like.
LEMMA NumberAdds ==
  ASSUME NEW st \in Loose, NEW x, x.fn = "number", x.name \in Names \ Braces,
         x.name # "client_mac"
  PROVE  LET q == print_element(st, x, "n")
         IN  /\ q \in Loose /\ q.cache = st.cache
             /\ \A m : m \notin Braces \cup {x.name} => ValuesIn(q.buf, m) = ValuesIn(st.buf, m)
<1> DEFINE q == print_element(st, x, "n")
           r == export_fn(x.fn, "n", st.cache)
           sep == IF st.buf = <<Open>> THEN <<>> ELSE <<Comma>>
           d == st.buf \o sep
           u == Member(x.name, "n")
<1>0. st.buf \in Seq(Tok) /\ st.cache \in Caches /\ Agree(st) /\ "n" \in Texts
  BY TextsGiven DEF Loose
<1>1. Comma \in Tok /\ Comma.token \in Braces /\ u \in Tok /\ u.token = x.name
  BY <1>0, Tokens
<1>2. r.cache = st.cache /\ r.out = <<"n">>
  <2>1. r = Printed(st.cache, "n")
    BY Dispatch
  <2> QED
    BY <2>1 DEF Printed
<1> HIDE DEF r
<1>3. q = [buf |-> d \o <<u>>, cache |-> st.cache]
  <2>1. [i \in 1..Len(r.out) |-> Member(x.name, r.out[i])] = <<u>> /\ r.out # <<>>
    BY <1>2
  <2> QED
    BY <1>2, <2>1 DEF print_element, r
<1>4. d \in Seq(Tok) /\ \A m : m \notin Braces => ValuesIn(d, m) = ValuesIn(st.buf, m)
  <2>1. CASE st.buf = <<Open>>
    <3>1. d = st.buf
      BY <1>0, <2>1
    <3> QED
      BY <1>0, <3>1
  <2>2. CASE st.buf # <<Open>>
    <3>1. d = st.buf \o <<Comma>>
      BY <2>2
    <3> HIDE DEF d
    <3>2. ASSUME NEW m, m \notin Braces PROVE ValuesIn(d, m) = ValuesIn(st.buf, m)
      <4>1. ValuesIn(d, m) =
              ValuesIn(st.buf, m) \cup (IF Comma.token = m THEN {Comma.value} ELSE {})
        BY <1>0, <1>1, <3>1, AppendValues
      <4> QED
        BY <1>1, <3>2, <4>1
    <3> QED
      BY <1>0, <1>1, <3>1, <3>2, AppendValues
  <2> QED
    BY <2>1, <2>2
<1> HIDE DEF d, u, q
<1>5. q.buf = d \o <<u>> /\ q.cache = st.cache /\ q.buf \in Seq(Tok)
  BY <1>1, <1>3, <1>4, AppendValues
<1>6. ASSUME NEW m, m \notin Braces \cup {x.name} PROVE ValuesIn(q.buf, m) = ValuesIn(st.buf, m)
  <2>1. ValuesIn(d \o <<u>>, m) = ValuesIn(d, m) \cup (IF u.token = m THEN {u.value} ELSE {})
    BY <1>1, <1>4, AppendValues
  <2> QED
    BY <1>1, <1>4, <1>5, <1>6, <2>1
<1>7. Agree(q)
  <2>1. "client_mac" \notin Braces \cup {x.name}
    BY DEF Braces
  <2> QED
    BY <1>0, <1>5, <1>6, <2>1 DEF Agree
<1>8. q \in [buf : Seq(Tok), cache : Caches]
  BY <1>0, <1>3, <1>5
<1> QED
  BY <1>5, <1>6, <1>7, <1>8 DEF Loose, q

\* The same of a list of numbers.
LEMMA NumbersAdd ==
  ASSUME NEW st \in Loose, NEW xs \in {Header, Whole, Separated}
  PROVE  LET q == printNetflowRecordWithTemplate(st, xs, "n")
         IN  /\ q \in Loose /\ q.cache = st.cache
             /\ \A m : m \notin Braces \cup NamesOf(xs) => ValuesIn(q.buf, m) = ValuesIn(st.buf, m)
<1> DEFINE S == {s \in Loose : /\ s.cache = st.cache
                               /\ \A m : m \notin Braces \cup NamesOf(xs) =>
                                    ValuesIn(s.buf, m) = ValuesIn(st.buf, m)}
<1>0. /\ xs \in Lists /\ Len(xs) \in Nat
      /\ \A i \in 1..Len(xs) : xs[i].fn = "number" /\ xs[i].name \in Names \ Braces
      /\ "client_mac" \notin NamesOf(xs)
  <2>1. xs \in Lists
    BY DEF Lists
  <2> QED
    BY <2>1, ListsApt, NumberLists DEF Apt
<1>1. st \in S
  OBVIOUS
<1>2. ASSUME NEW s \in S, NEW i \in 1..Len(xs) PROVE print_element(s, xs[i], "n") \in S
  <2>1. xs[i].name \in NamesOf(xs)
    BY DEF NamesOf
  <2>2. xs[i].name # "client_mac"
    BY <1>0, <2>1
  <2> DEFINE q == print_element(s, xs[i], "n")
  <2>3. /\ q \in Loose /\ q.cache = s.cache
        /\ \A m : m \notin Braces \cup {xs[i].name} => ValuesIn(q.buf, m) = ValuesIn(s.buf, m)
    BY <1>0, <2>2, NumberAdds
  <2> HIDE DEF q
  <2>4. q \in S
    BY <2>1, <2>3
  <2> QED
    BY <2>4 DEF q
<1>3. printNetflowRecordWithTemplate(st, xs, "n") \in S
  BY <1>0, <1>1, <1>2, PrintingKeeps
<1> QED
  BY <1>3

\* A closing brace hides no value.
LEMMA ClosingValues ==
  ASSUME NEW a \in Seq(Tok), NEW m, m \notin Braces
  PROVE  ValuesIn(a \o <<Close>>, m) = ValuesIn(a, m)
<1>1. Close \in Tok /\ Close.token \in Braces
  BY Tokens
<1>2. ValuesIn(a \o <<Close>>, m) =
        ValuesIn(a, m) \cup (IF Close.token = m THEN {Close.value} ELSE {})
  BY <1>1, AppendValues
<1> QED
  BY <1>1, <1>2

\* The closing brace.
LEMMA Closing ==
  ASSUME NEW st \in States, Len(st.buf) % 2 = 0
  PROVE  LET b == st.buf \o <<Close>>
         IN  Object(b)
<1> DEFINE a == st.buf
           b == a \o <<Close>>
<1>0. Line(a) /\ a \in Seq(Tok) /\ Close \in Tok /\ Close.token \in Braces /\ Len(a) \in Nat
  BY StateParts, Tokens
<1>1. /\ b \in Seq(Tok) /\ Len(b) = Len(a) + 1 /\ b[Len(a) + 1] = Close
      /\ \A i \in 1..Len(a) : b[i] = a[i]
  BY <1>0, AppendValues
<1>3. Len(a) % 2 = 0 /\ Len(a) > 0
  BY <1>0 DEF Line
<1> HIDE DEF a, b
<1>4. Len(b) % 2 = 1 /\ Len(b) >= 3
  <2>1. (Len(a) + 1) % 2 = 1 /\ Len(a) >= 2
    BY <1>0, <1>3, EvenNumber
  <2> QED
    BY <1>0, <1>1, <2>1
<1>5. DOMAIN b = 1..Len(b)
  BY <1>1
<1>6. ASSUME NEW i \in DOMAIN b
      PROVE  CASE i = 1 -> b[i] = Open
               [] i = Len(b) -> b[i] = Close
               [] i % 2 = 0 -> IsMember(b[i])
               [] OTHER -> b[i] = Comma
  <2>1. CASE i = 1
    <3>1. b[1] = a[1] /\ a[1] = Open
      BY <1>0, <1>1, <1>3 DEF Line
    <3>2. i # Len(b)
      BY <2>1, <1>0, <1>1, <1>3
    <3> QED
      BY <2>1, <3>1, <3>2
  <2>2. CASE i = Len(a) + 1
    <3>1. i # 1 /\ i = Len(b) /\ b[i] = Close /\ i % 2 = 1
      <4>1. i = Len(b) /\ b[i] = Close
        BY <2>2, <1>1
      <4> QED
        BY <2>2, <4>1, <1>0, <1>3, <1>4
    <3> QED
      BY <3>1
  <2>3. CASE i \in 2..Len(a)
    <3>1. i # 1 /\ i # Len(b) /\ b[i] = a[i]
      BY <2>3, <1>0, <1>1
    <3>2. IF i % 2 = 0 THEN IsMember(a[i]) ELSE a[i] = Comma
      BY <2>3, <1>0 DEF Line
    <3> QED
      BY <3>1, <3>2
  <2> QED
    BY <1>0, <1>1, <1>5, <2>1, <2>2, <2>3
<1> QED
  BY <1>4, <1>6 DEF Object, a, b

LEMMA InitRInv == Init => RInv
<1> SUFFICES ASSUME Init PROVE RInv
  OBVIOUS
<1>1. cfg \in Configurations /\ pc = "begin" /\ buf = <<Open>> /\ cache = NoCache
  BY DEF Init
<1>2. rest \subseteq Fields
  <2>1. CASE ~cfg.v5
    BY <2>1, RecordAssumption DEF Init, Fields
  <2>2. CASE cfg.v5
    <3>1. rest = Range(v5TemplateFields)
      BY <2>2 DEF Init
    <3>2. \A i \in DOMAIN v5TemplateFields : v5TemplateFields[i] \in Fields
      BY FieldNames DEF v5TemplateFields
    <3> QED
      BY <3>1, <3>2 DEF Range
  <2> QED
    BY <2>1, <2>2
<1>3. Now \in States
  <2>1. /\ Now.buf = <<Open>> /\ Now.cache = NoCache /\ Open \in Tok
        /\ Now = [buf |-> <<Open>>, cache |-> NoCache]
    BY <1>1, Tokens DEF Now
  <2>2. Line(<<Open>>)
    <3>1. <<Open>> \in Seq(Tok) /\ Len(<<Open>>) = 1 /\ <<Open>>[1] = Open
      BY <2>1
    <3> QED
      BY <3>1 DEF Line
  <2>3. ValuesIn(<<Open>>, "client_mac") = {}
    <3>1. DOMAIN <<Open>> = {1} /\ <<Open>>[1] = Open
      OBVIOUS
    <3>2. Open.token # "client_mac"
      BY DEF Open, Token
    <3> QED
      BY <3>1, <3>2 DEF ValuesIn
  <2>4. NoCache.client_mac = Zero
    BY DEF NoCache
  <2>5. Agree(Now)
    BY <2>1, <2>3, <2>4 DEF Agree
  <2>6. Now \in [buf : Seq(Tok), cache : Caches]
    BY <2>1, NoCacheType
  <2> QED
    BY <2>1, <2>2, <2>5, <2>6 DEF States
<1> QED
  BY <1>1, <1>2, <1>3 DEF RInv, Broken, WellFormed, ClientPartition

LEMMA BeginRInv == RInv /\ RecordBegin => RInv'
<1> SUFFICES ASSUME RInv, RecordBegin PROVE RInv'
  OBVIOUS
<1> DEFINE q == printNetflowRecordWithTemplate(Now, Header, "n")
<1>1. /\ buf' = q.buf /\ cache' = cache /\ cfg' = cfg /\ rest' = rest
      /\ pc' = "fields" /\ pc = "begin"
  BY DEF RecordBegin, Now
<1>2. cfg \in Configurations /\ rest \subseteq Fields /\ Now \in States
  BY <1>1 DEF RInv, Broken
<1>3. q \in States /\ q.cache = Now.cache /\ Now.cache = cache
  BY <1>2, NumbersKeepCache DEF Now
<1>4. Len(q.buf) % 2 = 0
  BY <1>2, HeaderPrints
<1> HIDE DEF q
<1>5. Now' = q
  BY <1>1, <1>3, StateParts DEF Now
<1> QED
  BY <1>1, <1>2, <1>3, <1>4, <1>5 DEF RInv, Broken, WellFormed, ClientPartition

LEMMA FieldRInv == RInv /\ RecordField => RInv'
<1> SUFFICES ASSUME RInv, RecordField PROVE RInv'
  OBVIOUS
<1>0. PICK k \in rest : \E v \in Vals[k] :
        LET st == printNetflowRecordWithTemplate(Now, ver9_templates[k], v)
        IN  buf' = st.buf /\ cache' = st.cache /\ rest' = rest \ {k}
  BY DEF RecordField, Now
<1>1. PICK v \in Vals[k] :
        LET st == printNetflowRecordWithTemplate(Now, ver9_templates[k], v)
        IN  buf' = st.buf /\ cache' = st.cache /\ rest' = rest \ {k}
  BY <1>0
<1> DEFINE q == printNetflowRecordWithTemplate(Now, ver9_templates[k], v)
<1>2. cfg' = cfg /\ pc' = "fields" /\ pc = "fields"
  BY DEF RecordField
<1>3. /\ cfg \in Configurations /\ rest \subseteq Fields /\ Now \in States
      /\ Len(Now.buf) % 2 = 0
  BY <1>2 DEF RInv, Broken, Now
<1>4. k \in Fields /\ v \in Texts /\ ver9_templates[k] \in Lists
  BY <1>3, TextsGiven DEF Lists
<1>5. q \in States /\ After(Now, q, FnsOf(ver9_templates[k]), NamesOf(ver9_templates[k]))
  BY <1>3, <1>4, ListAfter
<1>6. Len(q.buf) % 2 = 0
  BY <1>3, <1>5 DEF After
<1>7. buf' = q.buf /\ cache' = q.cache /\ rest' = rest \ {k}
  BY <1>1
<1> HIDE DEF q
<1>8. Now' = q
  BY <1>5, <1>7, StateParts DEF Now
<1> QED
  BY <1>2, <1>3, <1>5, <1>6, <1>7, <1>8 DEF RInv, Broken, WellFormed, ClientPartition

\* A v5 record has no client of its own.
LEMMA V5NoClient ==
  ASSUME NEW i \in DOMAIN v5TemplateFields
  PROVE  \A fn \in FnsOf(ver9_templates[v5TemplateFields[i]]) : Sets(fn) # "client_mac"
<1> DEFINE k == v5TemplateFields[i]
<1>1. k \in {"IPV4_SRC_ADDR", "IPV4_DST_ADDR", "INPUT_SNMP", "OUTPUT_SNMP",
             "L4_SRC_PORT", "L4_DST_PORT", "TCP_FLAGS"}
  BY DEF v5TemplateFields
<1> HIDE DEF k
<1>2. FnsOf(ver9_templates[k]) \subseteq
        {"src", "dst", "input", "output", "src_port", "dst_port"}
          \cup {"net", "country", "interface_name", "tcp_flags"}
  <2>1. CASE k = "IPV4_SRC_ADDR"
    BY <2>1, FieldSetsOf
  <2>2. CASE k = "IPV4_DST_ADDR"
    BY <2>2, FieldSetsOf
  <2>3. CASE k = "INPUT_SNMP"
    BY <2>3, FieldSetsOf
  <2>4. CASE k = "OUTPUT_SNMP"
    BY <2>4, FieldSetsOf
  <2>5. CASE k = "L4_SRC_PORT"
    BY <2>5, FieldSetsOf
  <2>6. CASE k = "L4_DST_PORT"
    BY <2>6, FieldSetsOf
  <2>7. CASE k = "TCP_FLAGS"
    BY <2>7, FieldSetsOf
  <2> QED
    BY <1>1, <2>1, <2>2, <2>3, <2>4, <2>5, <2>6, <2>7
<1>3. {"src", "dst", "input", "output", "src_port", "dst_port"} \subseteq Storing
      /\ {"net", "country", "interface_name", "tcp_flags"} \subseteq Showing
  BY DEF Storing, Showing
<1>4. \A fn \in Storing \cup Showing : Sets(fn) # "client_mac"
  BY SetsTable DEF Storing
<1> QED
  BY <1>2, <1>3, <1>4 DEF k

\* What a field of a v5 record leaves: the state of the list, or its cache with the
\* old buffer.
LEMMA V5After ==
  ASSUME cfg \in Configurations, NEW st \in States, NEW i \in DOMAIN v5TemplateFields,
         NEW v \in Texts, v5TemplateFields[i] \in Fields
  PROVE  LET k == v5TemplateFields[i]
             q == dissectNetFlowV5Field(st, k, v)
             all == printNetflowRecordWithTemplate(st, ver9_templates[k], v)
         IN  /\ q \in States /\ q.cache = all.cache
             /\ After(st, q, FnsOf(ver9_templates[k]), NamesOf(ver9_templates[k]))
<1> DEFINE k == v5TemplateFields[i]
           xs == ver9_templates[k]
           q == dissectNetFlowV5Field(st, k, v)
           all == printNetflowRecordWithTemplate(st, xs, v)
<1>1. xs \in Lists
  BY DEF Lists
<1>2. all \in States /\ After(st, all, FnsOf(xs), NamesOf(xs))
  BY <1>1, ListAfter
<1>3. q = all \/ q = [all EXCEPT !.buf = st.buf]
  BY DEF dissectNetFlowV5Field
<1> HIDE DEF q, all, xs
<1>4. CASE q = all
  BY <1>2, <1>4 DEF q, all, xs
<1>5. CASE q = [all EXCEPT !.buf = st.buf]
  <2>1. q = [buf |-> st.buf, cache |-> all.cache]
    BY <1>2, <1>5, StateParts
  <2>2. q.buf = st.buf /\ q.cache = all.cache
    BY <2>1
  <2>3. all.cache["client_mac"] = st.cache["client_mac"]
    BY <1>2, V5NoClient DEF After, Ends, xs
  <2>4. Agree(q)
    BY <2>2, <2>3, StateParts DEF Agree
  <2>5. q \in [buf : Seq(Tok), cache : Caches] /\ Line(q.buf)
    BY <1>2, <2>1, <2>2, StateParts
  <2>6. q \in States
    BY <2>4, <2>5 DEF States
  <2>7. After(st, q, FnsOf(xs), NamesOf(xs))
    BY <1>2, <2>2 DEF After
  <2> QED
    BY <2>2, <2>6, <2>7 DEF q, all, xs
<1> QED
  BY <1>3, <1>4, <1>5

LEMMA V5RInv == RInv /\ V5Field => RInv'
<1> SUFFICES ASSUME RInv, V5Field PROVE RInv'
  OBVIOUS
<1>1. PICK i \in DOMAIN v5TemplateFields :
        /\ v5TemplateFields[i] \in rest
        /\ \E v \in Vals[v5TemplateFields[i]] \ {"bad"} :
             LET st == dissectNetFlowV5Field(Now, v5TemplateFields[i], v)
             IN  /\ buf' = st.buf /\ cache' = st.cache
                 /\ rest' = rest \ {v5TemplateFields[i]}
  BY DEF V5Field, Now
<1> DEFINE k == v5TemplateFields[i]
<1>2. PICK v \in Vals[k] :
        LET st == dissectNetFlowV5Field(Now, k, v)
        IN  buf' = st.buf /\ cache' = st.cache /\ rest' = rest \ {k}
  BY <1>1
<1> DEFINE q == dissectNetFlowV5Field(Now, k, v)
<1>3. cfg' = cfg /\ pc' = "fields" /\ pc = "fields"
  BY DEF V5Field
<1>4. /\ cfg \in Configurations /\ rest \subseteq Fields /\ Now \in States
      /\ Len(Now.buf) % 2 = 0
  BY <1>3 DEF RInv, Broken, Now
<1>5. k \in Fields /\ v \in Texts
  BY <1>1, <1>4, TextsGiven
<1>6. q \in States /\ After(Now, q, FnsOf(ver9_templates[k]), NamesOf(ver9_templates[k]))
  BY <1>4, <1>5, V5After
<1>7. Len(q.buf) % 2 = 0
  BY <1>4, <1>6 DEF After
<1>8. buf' = q.buf /\ cache' = q.cache /\ rest' = rest \ {k}
  BY <1>2
<1> HIDE DEF q
<1>9. Now' = q
  BY <1>6, <1>8, StateParts DEF Now
<1> QED
  BY <1>3, <1>4, <1>6, <1>7, <1>8, <1>9 DEF RInv, Broken, WellFormed, ClientPartition

LEMMA EndRInv == RInv /\ RecordEnd => RInv'
<1> SUFFICES ASSUME RInv, RecordEnd PROVE RInv'
  OBVIOUS
<1> DEFINE hosts == printNetflowRecordWithTemplate(Now, Hosts, "")
           guessed == [hosts EXCEPT !.cache = guessDirection(hosts.cache)]
           ends == IF ~cfg.normalize THEN hosts
                   ELSE printNetflowRecordWithTemplate(guessed, post_templates, "")
<1>1. /\ buf' = print_sensor_enrichment(ends.buf) /\ cache' = ends.cache
      /\ cfg' = cfg /\ rest' = rest /\ pc' = "split" /\ pc = "fields"
  BY DEF RecordEnd, Now
<1>2. /\ cfg \in Configurations /\ rest \subseteq Fields /\ Now \in States
      /\ Len(Now.buf) % 2 = 0
  BY <1>1 DEF RInv, Broken, Now
<1>3. Hosts \in Lists /\ post_templates \in Lists /\ "" \in Texts
  BY TextsGiven DEF Lists
<1>4. hosts \in States /\ After(Now, hosts, FnsOf(Hosts), NamesOf(Hosts))
  BY <1>2, <1>3, ListAfter
<1>5. Len(hosts.buf) % 2 = 0
  BY <1>2, <1>4 DEF After
<1> HIDE DEF hosts
<1>6. guessed \in States /\ guessed.buf = hosts.buf
  BY <1>4, GuessKeeps
<1> HIDE DEF guessed
<1>7. ends \in States /\ Len(ends.buf) % 2 = 0
  <2>1. CASE ~cfg.normalize
    BY <1>4, <1>5, <2>1
  <2>2. CASE cfg.normalize
    <3>1. ends = printNetflowRecordWithTemplate(guessed, post_templates, "")
      BY <2>2
    <3> HIDE DEF ends
    <3>2. ends \in States /\ After(guessed, ends, FnsOf(post_templates), NamesOf(post_templates))
      BY <1>2, <1>3, <1>6, <3>1, ListAfter
    <3> QED
      BY <1>5, <1>6, <3>2 DEF After
  <2> QED
    BY <2>1, <2>2
<1> HIDE DEF ends
<1>8. /\ Now' \in Loose
      /\ cfg.enrichment # << 0 >> => Now' \in States /\ Len(buf') % 2 = 0
  <2>1. Now' = [buf |-> print_sensor_enrichment(ends.buf), cache |-> ends.cache]
    BY <1>1 DEF Now
  <2> QED
    BY <1>1, <1>2, <1>7, <2>1, EnrichmentKeeps
<1> QED
  BY <1>1, <1>2, <1>8 DEF RInv, Broken, WellFormed, ClientPartition

LEMMA SendRInv == RInv /\ Send => RInv'
<1> SUFFICES ASSUME RInv, Send PROVE RInv'
  OBVIOUS
<1> DEFINE xs == IF cfg.separate THEN Separated ELSE Whole
           q == printNetflowRecordWithTemplate(Now, xs, "n")
<1>1. /\ buf' = q.buf \o <<Close>> /\ cache' = cache /\ cfg' = cfg /\ rest' = rest
      /\ pc' = "sent" /\ pc = "split"
      /\ key' = IF cfg.separate THEN Zero ELSE cache.client_mac
  BY DEF Send, Now
<1>2. /\ cfg \in Configurations /\ rest \subseteq Fields
      /\ Now \in Loose /\ Now.cache = cache
      /\ cfg.enrichment # << 0 >> => Now \in States /\ Len(Now.buf) % 2 = 0
  BY <1>1 DEF RInv, Broken, Now, States, Loose
<1>3. xs \in {Header, Whole, Separated}
  OBVIOUS
<1> HIDE DEF xs
<1>4. q \in Loose /\ q.cache = cache
  BY <1>2, <1>3, NumbersAdd
<1>5. ASSUME cfg.enrichment # << 0 >> PROVE q \in States /\ Len(q.buf) % 2 = 0
  <2>1. q \in States /\ After(Now, q, {"number"}, NamesOf(xs))
    BY <1>2, <1>3, <1>5, NumbersKeepCache
  <2> QED
    BY <1>2, <1>5, <2>1 DEF After
<1> HIDE DEF q
<1>6. WellFormed'
  BY <1>1, <1>5, Closing DEF WellFormed
<1>7. ClientPartition'
  <2>1. SUFFICES ASSUME ~cfg.separate
                 PROVE  {key'} \ {Zero} = ValuesIn(buf', "client_mac") \ {Zero}
    BY <1>1 DEF ClientPartition, Values, ValuesIn
  <2>2. ValuesIn(buf', "client_mac") = ValuesIn(q.buf, "client_mac")
    <3>1. "client_mac" \notin Braces /\ q.buf \in Seq(Tok)
      BY <1>4 DEF Braces, Loose
    <3> QED
      BY <1>1, <3>1, ClosingValues
  <2>3. key' = q.cache.client_mac
    BY <1>1, <1>4, <2>1
  <2> QED
    BY <1>4, <2>2, <2>3 DEF Agree, Loose
<1> QED
  BY <1>1, <1>2, <1>6, <1>7 DEF RInv, Broken

LEMMA StutterRInv == RInv /\ UNCHANGED vars => RInv'
<1> SUFFICES ASSUME RInv, UNCHANGED vars PROVE RInv'
  OBVIOUS
<1>1. cfg' = cfg /\ rest' = rest /\ cache' = cache /\ buf' = buf /\ pc' = pc /\ key' = key
  BY DEF vars
<1> QED
  BY <1>1 DEF RInv, Broken, Now, WellFormed, ClientPartition, Values

(***************************************************************************)
(* The record printer keeps RInv: the buffer is a brace and members with   *)
(* commas between them (unless an empty enrichment left a comma), and the  *)
(* flow cache holds the client that the message names                      *)
(* (printNetflowRecordWithTemplate, print_client_mac,                      *)
(* print_direction_based_client_mac).                                      *)
(***************************************************************************)
THEOREM RecordInvariant == Spec => []RInv
<1>1. RInv /\ [Next]_vars => RInv'
  BY BeginRInv, FieldRInv, V5RInv, EndRInv, SendRInv, StutterRInv DEF Next
<1> QED
  BY InitRInv, <1>1, PTL DEF Spec

(***************************************************************************)
(* Every message is one JSON object, whichever fields and elements of      *)
(* fields printed something or nothing, and however many members the       *)
(* sensor's enrichment has, if any (print_sensor_enrichment).              *)
(***************************************************************************)
THEOREM RecordWellFormed == Spec => []WellFormed
<1>1. RInv => WellFormed
  BY DEF RInv
<1> QED
  BY RecordInvariant, <1>1, PTL

(***************************************************************************)
(* Kafka's partitioner is given the MAC that the message itself calls      *)
(* client_mac (time_split_flow).                                           *)
(***************************************************************************)
THEOREM RecordClientPartition == Spec => []ClientPartition
<1>1. RInv => ClientPartition
  BY DEF RInv
<1> QED
  BY RecordInvariant, <1>1, PTL

-----------------------------------------------------------------------------
(* What one list of elements does, element by element.                     *)

LEMMA Steps ==
  ASSUME cfg \in Configurations, NEW st \in States, NEW xs \in Lists, NEW v \in Texts,
         NEW f, Prints(f, st, xs, v)
  PROVE  /\ \A i \in 0..Len(xs) : f[i] \in States
         /\ \A i \in 1..Len(xs) : After(f[i - 1], f[i], {xs[i].fn}, {xs[i].name})
<1>0. Len(xs) \in Nat /\ \A i \in 1..Len(xs) : Apt(xs[i]) /\ xs[i].name \in Names
  BY ListsApt
<1> DEFINE P == {n \in Nat : n <= Len(xs) => f[n] \in States}
<1>1. 0 \in P
  BY DEF Prints
<1>2. ASSUME NEW n \in Nat, n \in P PROVE n + 1 \in P
  <2> SUFFICES ASSUME n + 1 <= Len(xs) PROVE f[n + 1] \in States
    OBVIOUS
  <2>1. f[n] \in States /\ n + 1 \in 1..Len(xs) /\ (n + 1) - 1 = n
    BY <1>0, <1>2
  <2>2. f[n + 1] = print_element(f[n], xs[n + 1], v)
    BY <2>1 DEF Prints
  <2> QED
    BY <1>0, <2>1, <2>2, ElementKeeps
<1>3. Nat \subseteq P
  BY <1>1, <1>2, SetInduction
<1>4. \A i \in 0..Len(xs) : f[i] \in States
  BY <1>0, <1>3
<1>5. ASSUME NEW i \in 1..Len(xs) PROVE After(f[i - 1], f[i], {xs[i].fn}, {xs[i].name})
  <2>1. f[i] = print_element(f[i - 1], xs[i], v) /\ i - 1 \in 0..Len(xs)
    BY <1>0 DEF Prints
  <2> QED
    BY <1>0, <1>4, <2>1, ElementAfter
<1> QED
  BY <1>4, <1>5

\* From element a to element b: ends that none of them sets and names that none of
\* them has stay as they are.
LEMMA Runs ==
  ASSUME cfg \in Configurations, NEW st \in States, NEW xs \in Lists, NEW v \in Texts,
         NEW f, Prints(f, st, xs, v), NEW a \in 0..Len(xs), NEW b \in a..Len(xs)
  PROVE  /\ \A e \in Ends : (\A i \in (a + 1)..b : Sets(xs[i].fn) # e)
                              => f[b].cache[e] = f[a].cache[e]
         /\ \A m : m \notin Braces /\ (\A i \in (a + 1)..b : xs[i].name # m)
                     => ValuesIn(f[b].buf, m) = ValuesIn(f[a].buf, m)
<1>0. Len(xs) \in Nat /\ a \in Nat /\ b \in Nat
  BY ListsApt
<1> DEFINE Same(n) ==
             /\ \A e \in Ends : (\A i \in (a + 1)..n : Sets(xs[i].fn) # e)
                                  => f[n].cache[e] = f[a].cache[e]
             /\ \A m : m \notin Braces /\ (\A i \in (a + 1)..n : xs[i].name # m)
                         => ValuesIn(f[n].buf, m) = ValuesIn(f[a].buf, m)
           P == {d \in Nat : a + d <= Len(xs) => Same(a + d)}
<1>1. 0 \in P
  <2>1. a + 0 = a
    BY <1>0
  <2>2. Same(a)
    OBVIOUS
  <2> HIDE DEF Same
  <2> QED
    BY <2>1, <2>2
<1>2. ASSUME NEW d \in Nat, d \in P PROVE d + 1 \in P
  <2> DEFINE n == a + d
  <2>0. a + (d + 1) = n + 1 /\ n \in Nat
    BY <1>0
  <2> SUFFICES ASSUME n + 1 <= Len(xs) PROVE Same(n + 1)
    BY <2>0
  <2>1. Same(n)
    BY <1>0, <1>2, <2>0
  <2>2. n + 1 \in 1..Len(xs) /\ (n + 1) - 1 = n
    BY <1>0, <2>0
  <2>3. After(f[n], f[n + 1], {xs[n + 1].fn}, {xs[n + 1].name})
    BY <2>2, Steps
  <2>4. n + 1 \in (a + 1)..(n + 1) /\ (a + 1)..n \subseteq (a + 1)..(n + 1)
    BY <1>0
  <2> HIDE DEF n
  <2>5. ASSUME NEW e \in Ends, \A i \in (a + 1)..(n + 1) : Sets(xs[i].fn) # e
        PROVE  f[n + 1].cache[e] = f[a].cache[e]
    <3>1. Sets(xs[n + 1].fn) # e /\ \A i \in (a + 1)..n : Sets(xs[i].fn) # e
      BY <2>4, <2>5
    <3>2. f[n].cache[e] = f[a].cache[e]
      BY <2>1, <3>1
    <3>3. f[n + 1].cache[e] = f[n].cache[e]
      BY <2>3, <3>1 DEF After
    <3> QED
      BY <3>2, <3>3
  <2>6. ASSUME NEW m, m \notin Braces, \A i \in (a + 1)..(n + 1) : xs[i].name # m
        PROVE  ValuesIn(f[n + 1].buf, m) = ValuesIn(f[a].buf, m)
    <3>1. xs[n + 1].name # m /\ \A i \in (a + 1)..n : xs[i].name # m
      BY <2>4, <2>6
    <3>2. ValuesIn(f[n].buf, m) = ValuesIn(f[a].buf, m)
      BY <2>1, <2>6, <3>1
    <3>3. ValuesIn(f[n + 1].buf, m) = ValuesIn(f[n].buf, m)
      BY <2>3, <2>6, <3>1 DEF After
    <3> QED
      BY <3>2, <3>3
  <2> QED
    BY <2>5, <2>6
<1>3. Nat \subseteq P
  <2> HIDE DEF P
  <2> QED
    BY <1>1, <1>2, SetInduction
<1>4. b - a \in Nat /\ a + (b - a) = b /\ b <= Len(xs)
  BY <1>0
<1> HIDE DEF Same
<1>5. Same(b)
  BY <1>3, <1>4
<1> QED
  BY <1>5 DEF Same

\* The outcome of element p.
At(f, xs, v, p) == export_fn(xs[p].fn, v, f[p - 1].cache)

\* What element p prints, and what it leaves in the cache.
LEMMA ElementShows ==
  ASSUME cfg \in Configurations, NEW st \in States, NEW xs \in Lists, NEW v \in Texts,
         NEW f, Prints(f, st, xs, v), NEW p \in 1..Len(xs)
  PROVE  /\ f[p].cache = At(f, xs, v, p).cache
         /\ At(f, xs, v, p).out = <<>> => f[p].buf = f[p - 1].buf
         /\ \A w : At(f, xs, v, p).out = <<w>> =>
              ValuesIn(f[p].buf, xs[p].name) = ValuesIn(f[p - 1].buf, xs[p].name) \cup {w}
<1> DEFINE r == export_fn(xs[p].fn, v, f[p - 1].cache)
           n == xs[p].name
<1>0. Len(xs) \in Nat /\ Apt(xs[p]) /\ n \in Names
  BY ListsApt
<1>1. p - 1 \in 0..Len(xs) /\ f[p] = print_element(f[p - 1], xs[p], v)
  BY <1>0 DEF Prints
<1>2. f[p - 1] \in States
  BY <1>1, Steps
<1>3. Line(f[p - 1].buf) /\ f[p - 1].cache \in Caches
  BY <1>2, StateParts
<1>4. Touches(r, f[p - 1].cache, Sets(xs[p].fn))
  BY <1>0, <1>3, ExportTouches DEF Apt
<1>5. Outcome(r)
  BY <1>4 DEF Touches
<1>6. /\ f[p] = [buf |-> f[p].buf, cache |-> r.cache]
      /\ r.out = <<>> => f[p].buf = f[p - 1].buf
      /\ \A w : r.out = <<w>> => f[p].buf = Extended(f[p - 1].buf, n, w)
  BY <1>1, <1>3, <1>5, PrintElement
<1> HIDE DEF r
<1>7. ASSUME NEW w, r.out = <<w>>
      PROVE  ValuesIn(f[p].buf, n) = ValuesIn(f[p - 1].buf, n) \cup {w}
  <2>1. w \in Texts
    <3>1. r.out # <<>>
      BY <1>7
    <3>2. PICK u \in Texts : r.out = <<u>>
      BY <1>5, <3>1 DEF Outcome
    <3>3. <<u>>[1] = u /\ <<w>>[1] = w
      OBVIOUS
    <3> QED
      BY <1>7, <3>2, <3>3
  <2>2. n \in Names \ Braces
    BY <1>0 DEF Apt
  <2> QED
    BY <1>3, <1>6, <1>7, <2>1, <2>2, Extending
<1>8. f[p].cache = r.cache
  BY <1>6
<1> QED
  BY <1>6, <1>7, <1>8 DEF r, At

\* An element whose name no other element has decides alone on the values under it.
LEMMA NameShown ==
  ASSUME cfg \in Configurations, NEW st \in States, NEW xs \in Lists, NEW v \in Texts,
         NEW f, Prints(f, st, xs, v), NEW p \in 1..Len(xs),
         \A i \in 1..Len(xs) : xs[i].name = xs[p].name => i = p
  PROVE  /\ At(f, xs, v, p).out = <<>> =>
              ValuesIn(f[Len(xs)].buf, xs[p].name) = ValuesIn(st.buf, xs[p].name)
         /\ \A w : At(f, xs, v, p).out = <<w>> =>
              ValuesIn(f[Len(xs)].buf, xs[p].name) = ValuesIn(st.buf, xs[p].name) \cup {w}
<1> DEFINE n == xs[p].name
<1>0. Len(xs) \in Nat /\ n \notin Braces /\ f[0] = st
  BY ListsApt DEF Apt, Prints
<1>1. /\ 0 \in 0..Len(xs) /\ p - 1 \in 0..Len(xs) /\ p \in p..Len(xs) /\ p \in 0..Len(xs)
      /\ p - 1 \in 0..Len(xs) /\ Len(xs) \in p..Len(xs)
  BY <1>0
<1>2. ValuesIn(f[p - 1].buf, n) = ValuesIn(f[0].buf, n)
  <2>1. \A i \in (0 + 1)..(p - 1) : xs[i].name # n
    BY <1>0
  <2> HIDE DEF n
  <2> QED
    BY <1>0, <1>1, <2>1, Runs
<1>3. ValuesIn(f[Len(xs)].buf, n) = ValuesIn(f[p].buf, n)
  <2>1. \A i \in (p + 1)..Len(xs) : xs[i].name # n
    BY <1>0
  <2> HIDE DEF n
  <2> QED
    BY <1>0, <1>1, <2>1, Runs
<1> DEFINE r == At(f, xs, v, p)
<1>4. /\ r.out = <<>> => f[p].buf = f[p - 1].buf
      /\ \A w : r.out = <<w>> => ValuesIn(f[p].buf, n) = ValuesIn(f[p - 1].buf, n) \cup {w}
  BY ElementShows
<1> HIDE DEF n, r
<1>5. r.out = <<>> => ValuesIn(f[Len(xs)].buf, n) = ValuesIn(st.buf, n)
  BY <1>0, <1>2, <1>3, <1>4
<1>6. \A w : r.out = <<w>> => ValuesIn(f[Len(xs)].buf, n) = ValuesIn(st.buf, n) \cup {w}
  BY <1>0, <1>2, <1>3, <1>4
<1> QED
  BY <1>5, <1>6 DEF n, r

-----------------------------------------------------------------------------
(* What one field stores.                                                  *)

\* The function of a field that may store something.
FnOf == [
  IPV4_SRC_ADDR |-> "src",
  IPV4_DST_ADDR |-> "dst",
  IPV6_SRC_ADDR |-> "ipv6_src",
  IPV6_DST_ADDR |-> "ipv6_dst",
  INPUT_SNMP |-> "input",
  OUTPUT_SNMP |-> "output",
  L4_SRC_PORT |-> "src_port",
  L4_DST_PORT |-> "dst_port",
  DIRECTION |-> "direction",
  TCP_FLAGS |-> "tcp_flags",
  IN_SRC_MAC |-> "src_mac",
  IN_DST_MAC |-> "dst_mac",
  OUT_DST_MAC |-> "post_dst_mac",
  OUT_SRC_MAC |-> "post_src_mac",
  STA_MAC_ADDRESS |-> "client_mac",
  STA_IPV4_ADDRESS |-> "sta_ipv4",
  CISCO_HTTP_URL |-> "NO_FN",
  CISCO_HTTP_HOST |-> "http_host",
  CISCO_HTTP_REFERER |-> "http_referer",
  CISCO_HTTPS_COMMON_NAME |-> "ssl_common_name"]

LEMMA FieldMain ==
  ASSUME NEW k \in Fields
  PROVE  \E p \in 1..Len(ver9_templates[k]) :
           /\ ver9_templates[k][p].fn = FnOf[k]
           /\ \A i \in 1..Len(ver9_templates[k]) : i # p => ver9_templates[k][i].fn \in Showing
<1> DEFINE xs == ver9_templates[k]
<1>0. /\ 1..1 = {1} /\ 1..2 = {1, 2} /\ 1..3 = {1, 2, 3}
      /\ {"net", "country", "country6", "interface_name", "mac_vendor", "NO_FN", "private",
          "private_l2"} \subseteq Showing
  BY DEF Showing
<1> HIDE DEF xs
<1>1. CASE k = "IPV4_SRC_ADDR"
  <2>1. Len(xs) = 3 /\ xs[1].fn = "src" /\ xs[2].fn = "net" /\ xs[3].fn = "country"
    <3>1. xs = <<X("src", "src"), X("src_net", "net"), X("src_country_code", "country")>>
      BY <1>1, FieldTable DEF xs
    <3> QED
      BY <3>1 DEF X
  <2>2. FnOf[k] = "src"
    BY <1>1 DEF FnOf
  <2>3. 1 \in 1..Len(xs) /\ xs[1].fn = FnOf[k]
        /\ \A i \in 1..Len(xs) : i # 1 => xs[i].fn \in Showing
    BY <1>0, <2>1, <2>2
  <2> QED
    BY <2>3 DEF xs
<1>2. CASE k = "IPV4_DST_ADDR"
  <2>1. Len(xs) = 3 /\ xs[1].fn = "dst" /\ xs[2].fn = "net" /\ xs[3].fn = "country"
    <3>1. xs = <<X("dst", "dst"), X("dst_net", "net"), X("dst_country_code", "country")>>
      BY <1>2, FieldTable DEF xs
    <3> QED
      BY <3>1 DEF X
  <2>2. FnOf[k] = "dst"
    BY <1>2 DEF FnOf
  <2>3. 1 \in 1..Len(xs) /\ xs[1].fn = FnOf[k]
        /\ \A i \in 1..Len(xs) : i # 1 => xs[i].fn \in Showing
    BY <1>0, <2>1, <2>2
  <2> QED
    BY <2>3 DEF xs
<1>3. CASE k = "IPV6_SRC_ADDR"
  <2>1. Len(xs) = 3 /\ xs[1].fn = "ipv6_src" /\ xs[2].fn = "net" /\ xs[3].fn = "country6"
    <3>1. xs = <<X("src", "ipv6_src"), X("src_net", "net"), X("src_country_code", "country6")>>
      BY <1>3, FieldTable DEF xs
    <3> QED
      BY <3>1 DEF X
  <2>2. FnOf[k] = "ipv6_src"
    BY <1>3 DEF FnOf
  <2>3. 1 \in 1..Len(xs) /\ xs[1].fn = FnOf[k]
        /\ \A i \in 1..Len(xs) : i # 1 => xs[i].fn \in Showing
    BY <1>0, <2>1, <2>2
  <2> QED
    BY <2>3 DEF xs
<1>4. CASE k = "IPV6_DST_ADDR"
  <2>1. Len(xs) = 3 /\ xs[1].fn = "ipv6_dst" /\ xs[2].fn = "net" /\ xs[3].fn = "country6"
    <3>1. xs = <<X("dst", "ipv6_dst"), X("dst_net", "net"), X("dst_country_code", "country6")>>
      BY <1>4, FieldTable DEF xs
    <3> QED
      BY <3>1 DEF X
  <2>2. FnOf[k] = "ipv6_dst"
    BY <1>4 DEF FnOf
  <2>3. 1 \in 1..Len(xs) /\ xs[1].fn = FnOf[k]
        /\ \A i \in 1..Len(xs) : i # 1 => xs[i].fn \in Showing
    BY <1>0, <2>1, <2>2
  <2> QED
    BY <2>3 DEF xs
<1>5. CASE k = "INPUT_SNMP"
  <2>1. Len(xs) = 2 /\ xs[1].fn = "input" /\ xs[2].fn = "interface_name"
    <3>1. xs = <<X("input_snmp", "input"), X("input_snmp_name", "interface_name")>>
      BY <1>5, FieldTable DEF xs
    <3> QED
      BY <3>1 DEF X
  <2>2. FnOf[k] = "input"
    BY <1>5 DEF FnOf
  <2>3. 1 \in 1..Len(xs) /\ xs[1].fn = FnOf[k]
        /\ \A i \in 1..Len(xs) : i # 1 => xs[i].fn \in Showing
    BY <1>0, <2>1, <2>2
  <2> QED
    BY <2>3 DEF xs
<1>6. CASE k = "OUTPUT_SNMP"
  <2>1. Len(xs) = 2 /\ xs[1].fn = "output" /\ xs[2].fn = "interface_name"
    <3>1. xs = <<X("output_snmp", "output"), X("output_snmp_name", "interface_name")>>
      BY <1>6, FieldTable DEF xs
    <3> QED
      BY <3>1 DEF X
  <2>2. FnOf[k] = "output"
    BY <1>6 DEF FnOf
  <2>3. 1 \in 1..Len(xs) /\ xs[1].fn = FnOf[k]
        /\ \A i \in 1..Len(xs) : i # 1 => xs[i].fn \in Showing
    BY <1>0, <2>1, <2>2
  <2> QED
    BY <2>3 DEF xs
<1>7. CASE k = "L4_SRC_PORT"
  <2>1. Len(xs) = 1 /\ xs[1].fn = "src_port"
    <3>1. xs = <<X("src_port", "src_port")>>
      BY <1>7, FieldTable DEF xs
    <3> QED
      BY <3>1 DEF X
  <2>2. FnOf[k] = "src_port"
    BY <1>7 DEF FnOf
  <2>3. 1 \in 1..Len(xs) /\ xs[1].fn = FnOf[k]
        /\ \A i \in 1..Len(xs) : i # 1 => xs[i].fn \in Showing
    BY <1>0, <2>1, <2>2
  <2> QED
    BY <2>3 DEF xs
<1>8. CASE k = "L4_DST_PORT"
  <2>1. Len(xs) = 1 /\ xs[1].fn = "dst_port"
    <3>1. xs = <<X("dst_port", "dst_port")>>
      BY <1>8, FieldTable DEF xs
    <3> QED
      BY <3>1 DEF X
  <2>2. FnOf[k] = "dst_port"
    BY <1>8 DEF FnOf
  <2>3. 1 \in 1..Len(xs) /\ xs[1].fn = FnOf[k]
        /\ \A i \in 1..Len(xs) : i # 1 => xs[i].fn \in Showing
    BY <1>0, <2>1, <2>2
  <2> QED
    BY <2>3 DEF xs
<1>9. CASE k = "DIRECTION"
  <2>1. Len(xs) = 1 /\ xs[1].fn = "direction"
    <3>1. xs = <<X("direction", "direction")>>
      BY <1>9, FieldTable DEF xs
    <3> QED
      BY <3>1 DEF X
  <2>2. FnOf[k] = "direction"
    BY <1>9 DEF FnOf
  <2>3. 1 \in 1..Len(xs) /\ xs[1].fn = FnOf[k]
        /\ \A i \in 1..Len(xs) : i # 1 => xs[i].fn \in Showing
    BY <1>0, <2>1, <2>2
  <2> QED
    BY <2>3 DEF xs
<1>10. CASE k = "TCP_FLAGS"
  <2>1. Len(xs) = 1 /\ xs[1].fn = "tcp_flags"
    <3>1. xs = <<X("tcp_flags", "tcp_flags")>>
      BY <1>10, FieldTable DEF xs
    <3> QED
      BY <3>1 DEF X
  <2>2. FnOf[k] = "tcp_flags"
    BY <1>10 DEF FnOf
  <2>3. 1 \in 1..Len(xs) /\ xs[1].fn = FnOf[k]
        /\ \A i \in 1..Len(xs) : i # 1 => xs[i].fn \in Showing
    BY <1>0, <2>1, <2>2
  <2> QED
    BY <2>3 DEF xs
<1>11. CASE k = "IN_SRC_MAC"
  <2>1. Len(xs) = 1 /\ xs[1].fn = "src_mac"
    <3>1. xs = <<X("src_mac", "src_mac")>>
      BY <1>11, FieldTable DEF xs
    <3> QED
      BY <3>1 DEF X
  <2>2. FnOf[k] = "src_mac"
    BY <1>11 DEF FnOf
  <2>3. 1 \in 1..Len(xs) /\ xs[1].fn = FnOf[k]
        /\ \A i \in 1..Len(xs) : i # 1 => xs[i].fn \in Showing
    BY <1>0, <2>1, <2>2
  <2> QED
    BY <2>3 DEF xs
<1>12. CASE k = "IN_DST_MAC"
  <2>1. Len(xs) = 1 /\ xs[1].fn = "dst_mac"
    <3>1. xs = <<X("dst_mac", "dst_mac")>>
      BY <1>12, FieldTable DEF xs
    <3> QED
      BY <3>1 DEF X
  <2>2. FnOf[k] = "dst_mac"
    BY <1>12 DEF FnOf
  <2>3. 1 \in 1..Len(xs) /\ xs[1].fn = FnOf[k]
        /\ \A i \in 1..Len(xs) : i # 1 => xs[i].fn \in Showing
    BY <1>0, <2>1, <2>2
  <2> QED
    BY <2>3 DEF xs
<1>13. CASE k = "OUT_DST_MAC"
  <2>1. Len(xs) = 1 /\ xs[1].fn = "post_dst_mac"
    <3>1. xs = <<X("post_dst_mac", "post_dst_mac")>>
      BY <1>13, FieldTable DEF xs
    <3> QED
      BY <3>1 DEF X
  <2>2. FnOf[k] = "post_dst_mac"
    BY <1>13 DEF FnOf
  <2>3. 1 \in 1..Len(xs) /\ xs[1].fn = FnOf[k]
        /\ \A i \in 1..Len(xs) : i # 1 => xs[i].fn \in Showing
    BY <1>0, <2>1, <2>2
  <2> QED
    BY <2>3 DEF xs
<1>14. CASE k = "OUT_SRC_MAC"
  <2>1. Len(xs) = 1 /\ xs[1].fn = "post_src_mac"
    <3>1. xs = <<X("post_dst_mac", "post_src_mac")>>
      BY <1>14, FieldTable DEF xs
    <3> QED
      BY <3>1 DEF X
  <2>2. FnOf[k] = "post_src_mac"
    BY <1>14 DEF FnOf
  <2>3. 1 \in 1..Len(xs) /\ xs[1].fn = FnOf[k]
        /\ \A i \in 1..Len(xs) : i # 1 => xs[i].fn \in Showing
    BY <1>0, <2>1, <2>2
  <2> QED
    BY <2>3 DEF xs
<1>15. CASE k = "STA_MAC_ADDRESS"
  <2>1. Len(xs) = 3 /\ xs[1].fn = "NO_FN" /\ xs[2].fn = "client_mac" /\ xs[3].fn = "mac_vendor"
    <3>1. xs = <<X("sta_mac", "NO_FN"), X("client_mac", "client_mac"), X("client_mac_vendor", "mac_vendor")>>
      BY <1>15, FieldTable DEF xs
    <3> QED
      BY <3>1 DEF X
  <2>2. FnOf[k] = "client_mac"
    BY <1>15 DEF FnOf
  <2>3. 2 \in 1..Len(xs) /\ xs[2].fn = FnOf[k]
        /\ \A i \in 1..Len(xs) : i # 2 => xs[i].fn \in Showing
    BY <1>0, <2>1, <2>2
  <2> QED
    BY <2>3 DEF xs
<1>16. CASE k = "STA_IPV4_ADDRESS"
  <2>1. Len(xs) = 3 /\ xs[1].fn = "sta_ipv4" /\ xs[2].fn = "net" /\ xs[3].fn = "country"
    <3>1. xs = <<X("lan_ip", "sta_ipv4"), X("lan_ip_net", "net"), X("lan_ip_country_code", "country")>>
      BY <1>16, FieldTable DEF xs
    <3> QED
      BY <3>1 DEF X
  <2>2. FnOf[k] = "sta_ipv4"
    BY <1>16 DEF FnOf
  <2>3. 1 \in 1..Len(xs) /\ xs[1].fn = FnOf[k]
        /\ \A i \in 1..Len(xs) : i # 1 => xs[i].fn \in Showing
    BY <1>0, <2>1, <2>2
  <2> QED
    BY <2>3 DEF xs
<1>17. CASE k = "CISCO_HTTP_URL"
  <2>1. Len(xs) = 2 /\ xs[1].fn = "NO_FN" /\ xs[2].fn = "private"
    <3>1. xs = <<X("", "NO_FN"), X("http_url", "private")>>
      BY <1>17, FieldTable DEF xs
    <3> QED
      BY <3>1 DEF X
  <2>2. FnOf[k] = "NO_FN"
    BY <1>17 DEF FnOf
  <2>3. 1 \in 1..Len(xs) /\ xs[1].fn = FnOf[k]
        /\ \A i \in 1..Len(xs) : i # 1 => xs[i].fn \in Showing
    BY <1>0, <2>1, <2>2
  <2> QED
    BY <2>3 DEF xs
<1>18. CASE k = "CISCO_HTTP_HOST"
  <2>1. Len(xs) = 3 /\ xs[1].fn = "NO_FN" /\ xs[2].fn = "http_host" /\ xs[3].fn = "private_l2"
    <3>1. xs = <<X("", "NO_FN"), X("http_host", "http_host"), X("http_host_l2", "private_l2")>>
      BY <1>18, FieldTable DEF xs
    <3> QED
      BY <3>1 DEF X
  <2>2. FnOf[k] = "http_host"
    BY <1>18 DEF FnOf
  <2>3. 2 \in 1..Len(xs) /\ xs[2].fn = FnOf[k]
        /\ \A i \in 1..Len(xs) : i # 2 => xs[i].fn \in Showing
    BY <1>0, <2>1, <2>2
  <2> QED
    BY <2>3 DEF xs
<1>19. CASE k = "CISCO_HTTP_REFERER"
  <2>1. Len(xs) = 3 /\ xs[1].fn = "NO_FN" /\ xs[2].fn = "http_referer" /\ xs[3].fn = "NO_FN"
    <3>1. xs = <<X("", "NO_FN"), X("http_referer", "http_referer"), X("http_referer_l2", "NO_FN")>>
      BY <1>19, FieldTable DEF xs
    <3> QED
      BY <3>1 DEF X
  <2>2. FnOf[k] = "http_referer"
    BY <1>19 DEF FnOf
  <2>3. 2 \in 1..Len(xs) /\ xs[2].fn = FnOf[k]
        /\ \A i \in 1..Len(xs) : i # 2 => xs[i].fn \in Showing
    BY <1>0, <2>1, <2>2
  <2> QED
    BY <2>3 DEF xs
<1>20. CASE k = "CISCO_HTTPS_COMMON_NAME"
  <2>1. Len(xs) = 2 /\ xs[1].fn = "NO_FN" /\ xs[2].fn = "ssl_common_name"
    <3>1. xs = <<X("", "NO_FN"), X("https_common_name", "ssl_common_name")>>
      BY <1>20, FieldTable DEF xs
    <3> QED
      BY <3>1 DEF X
  <2>2. FnOf[k] = "ssl_common_name"
    BY <1>20 DEF FnOf
  <2>3. 2 \in 1..Len(xs) /\ xs[2].fn = FnOf[k]
        /\ \A i \in 1..Len(xs) : i # 2 => xs[i].fn \in Showing
    BY <1>0, <2>1, <2>2
  <2> QED
    BY <2>3 DEF xs
<1> QED
  BY <1>1, <1>2, <1>3, <1>4, <1>5, <1>6, <1>7, <1>8, <1>9, <1>10, <1>11, <1>12,
     <1>13, <1>14, <1>15, <1>16, <1>17, <1>18, <1>19, <1>20, FieldNames

\* The cache after a field is what its function made of the cache.
LEMMA FieldStores ==
  ASSUME cfg \in Configurations, NEW st \in States, NEW k \in Fields, NEW v \in Texts
  PROVE  /\ FnOf[k] \in Fns
         /\ printNetflowRecordWithTemplate(st, ver9_templates[k], v).cache
              = export_fn(FnOf[k], v, st.cache).cache
<1> DEFINE xs == ver9_templates[k]
<1>1. xs \in Lists
  BY DEF Lists
<1>2. PICK p \in 1..Len(xs) : /\ xs[p].fn = FnOf[k]
                              /\ \A i \in 1..Len(xs) : i # p => xs[i].fn \in Showing
  BY FieldMain
<1> HIDE DEF xs
<1>3. Len(xs) \in Nat /\ \A i \in 1..Len(xs) : Apt(xs[i])
  BY <1>1, ListsApt
<1>4. FnOf[k] \in Fns
  BY <1>2, <1>3 DEF Apt
<1>5. PICK f : Prints(f, st, xs, v) /\ printNetflowRecordWithTemplate(st, xs, v) = f[Len(xs)]
  BY <1>3, Printing
<1>6. f[0] = st /\ \A i \in 0..Len(xs) : f[i] \in States
  BY <1>1, <1>5, Steps DEF Prints
<1>7. \A i \in 1..Len(xs) : i # p => \A e \in Ends : Sets(xs[i].fn) # e
  BY <1>2, SetsTable DEF Ends
<1>8. /\ p - 1 \in 0..Len(xs) /\ p \in 0..Len(xs) /\ 0 \in 0..Len(xs)
      /\ Len(xs) \in p..Len(xs) /\ Len(xs) \in 0..Len(xs)
  BY <1>3
<1>9. \A e \in Ends : f[p - 1].cache[e] = f[0].cache[e]
  <2>1. \A i \in (0 + 1)..(p - 1) : i \in 1..Len(xs) /\ i # p
    BY <1>3
  <2> QED
    BY <1>1, <1>5, <1>7, <1>8, <2>1, Runs
<1>10. \A e \in Ends : f[Len(xs)].cache[e] = f[p].cache[e]
  <2>1. \A i \in (p + 1)..Len(xs) : i \in 1..Len(xs) /\ i # p
    BY <1>3
  <2> QED
    BY <1>1, <1>5, <1>7, <1>8, <2>1, Runs
<1>11. f[p - 1].cache = st.cache /\ f[Len(xs)].cache = f[p].cache
  <2>1. f[p - 1] \in States /\ f[p] \in States /\ f[Len(xs)] \in States
    BY <1>6, <1>8
  <2> QED
    BY <1>6, <1>9, <1>10, <2>1, SameCache, StateParts
<1>12. f[p].cache = export_fn(xs[p].fn, v, f[p - 1].cache).cache
  BY <1>1, <1>5, ElementShows DEF At
<1> QED
  BY <1>2, <1>4, <1>5, <1>11, <1>12 DEF xs

LEMMA FnOfTable ==
  /\ FnOf["IPV4_SRC_ADDR"] = "src"
  /\ FnOf["IPV4_DST_ADDR"] = "dst"
  /\ FnOf["IPV6_SRC_ADDR"] = "ipv6_src"
  /\ FnOf["IPV6_DST_ADDR"] = "ipv6_dst"
  /\ FnOf["INPUT_SNMP"] = "input"
  /\ FnOf["OUTPUT_SNMP"] = "output"
  /\ FnOf["L4_SRC_PORT"] = "src_port"
  /\ FnOf["L4_DST_PORT"] = "dst_port"
  /\ FnOf["DIRECTION"] = "direction"
  /\ FnOf["TCP_FLAGS"] = "tcp_flags"
  /\ FnOf["IN_SRC_MAC"] = "src_mac"
  /\ FnOf["IN_DST_MAC"] = "dst_mac"
  /\ FnOf["OUT_DST_MAC"] = "post_dst_mac"
  /\ FnOf["OUT_SRC_MAC"] = "post_src_mac"
  /\ FnOf["STA_MAC_ADDRESS"] = "client_mac"
  /\ FnOf["STA_IPV4_ADDRESS"] = "sta_ipv4"
  /\ FnOf["CISCO_HTTP_URL"] = "NO_FN"
  /\ FnOf["CISCO_HTTP_HOST"] = "http_host"
  /\ FnOf["CISCO_HTTP_REFERER"] = "http_referer"
  /\ FnOf["CISCO_HTTPS_COMMON_NAME"] = "ssl_common_name"
  BY DEF FnOf

\* Ends that hold a field of the record as it is, and the functions that store them.
Plain == {"src", "dst", "src_port", "dst_port", "input", "output", "src_mac", "dst_mac",
          "post_dst_mac"}
PlainFns == Plain \cup {"ipv6_src", "ipv6_dst"}

\* Names that only the normalized elements print, apart from lan_ip and client_mac.
Special == {"direction", "lan_interface", "wan_interface", "wan_ip", "wan_l4_port",
            "lan_l4_port"}

\* The direction that the probe told, turned round if it stands on the WAN side.
Turned(v) == IF (v = "0") # cfg.wan_side THEN "upstream" ELSE "downstream"

LEMMA PlainSets ==
  ASSUME NEW fn \in Fns
  PROVE  /\ Sets(fn) \in Plain => fn \in PlainFns
         /\ fn \in PlainFns => Sets(fn) \in Plain
<1>1. Plain \subseteq Storing
  BY DEF Plain, Storing
<1>2. CASE fn \in Storing
  <2>1. Sets(fn) = fn
    BY <1>2, SetsTable
  <2>2. fn \notin {"ipv6_src", "ipv6_dst"}
    BY <1>2 DEF Storing
  <2> QED
    BY <2>1, <2>2 DEF PlainFns
<1>3. CASE fn \in Hosting
  <2>1. Sets(fn) = fn
    BY <1>3, SetsTable
  <2>2. fn \notin Plain /\ fn \notin {"ipv6_src", "ipv6_dst"}
    BY <1>3 DEF Hosting, Plain
  <2> QED
    BY <2>1, <2>2 DEF PlainFns
<1>4. CASE fn \in Showing
  <2>1. Sets(fn) = "none"
    BY <1>4, SetsTable
  <2>2. fn \notin Plain /\ fn \notin {"ipv6_src", "ipv6_dst"}
    BY <1>4 DEF Showing, Plain
  <2> QED
    BY <2>1, <2>2 DEF PlainFns, Plain
<1>5. CASE fn \in {"ipv6_src", "ipv6_dst"}
  BY <1>5, SetsTable DEF PlainFns, Plain
<1>6. CASE fn \in {"direction", "sta_ipv4", "client_mac", "direction_mac"}
  <2>1. Sets(fn) \in {"direction", "client", "client_mac"}
    BY <1>6, SetsTable
  <2> QED
    BY <1>6, <2>1 DEF PlainFns, Plain
<1> QED
  BY <1>2, <1>3, <1>4, <1>5, <1>6 DEF Fns

\* A field in a wrong length changes nothing.
LEMMA BadStoresNothing ==
  ASSUME cfg \in Configurations, NEW fn \in Fns \ {"input", "output", "direction_mac"},
         NEW c \in Caches, "bad" \in Texts
  PROVE  export_fn(fn, "bad", c).cache = c
<1> DEFINE r == export_fn(fn, "bad", c)
<1>0. Nothing(c).cache = c /\ \A w : Printed(c, w).cache = c
  BY DEF Nothing, Printed
<1>1. CASE fn \in Showing
  <2>1. \E w \in Texts : r \in {Nothing(c), Printed(c, w)}
    BY <1>1, ShowingFns
  <2> HIDE DEF r
  <2> QED
    BY <1>0, <2>1 DEF r
<1>2. CASE fn \in Storing
  BY <1>0, <1>2, DispatchStoring
<1>3. CASE fn \in Hosting
  BY <1>0, <1>3, DispatchStoring DEF print_http
<1>4. CASE fn \in {"ipv6_src", "ipv6_dst"}
  <2>1. r \in {print_ipv6("src", "bad", c), print_ipv6("dst", "bad", c)}
    BY <1>4, Dispatch
  <2>2. \A end : print_ipv6(end, "bad", c) = Nothing(c)
    BY DEF print_ipv6
  <2>3. r = Nothing(c)
    BY ONLY <2>1, <2>2
  <2> QED
    BY <1>0, <2>3
<1>5. CASE fn = "direction"
  <2>1. r = process_direction("bad", c)
    BY <1>5, Dispatch
  <2>2. process_direction("bad", c) = Nothing(c)
    BY DEF process_direction
  <2> QED
    BY <1>0, <2>1, <2>2
<1>6. CASE fn = "sta_ipv4"
  BY <1>0, <1>6, Dispatch DEF print_sta_ipv4_address
<1>7. CASE fn = "client_mac"
  BY <1>0, <1>7, Dispatch DEF print_client_mac
<1> QED
  BY <1>1, <1>2, <1>3, <1>4, <1>5, <1>6, <1>7 DEF Fns

LEMMA PlainStores ==
  ASSUME cfg \in Configurations, cfg.normalize, NEW fn \in PlainFns, NEW c \in Caches,
         NEW v \in Texts, v # "bad"
  PROVE  export_fn(fn, v, c).cache[Sets(fn)] = v
<1>0. \A e \in Ends : /\ [c EXCEPT ![e] = v][e] = v
                      /\ Nothing([c EXCEPT ![e] = v]).cache = [c EXCEPT ![e] = v]
                      /\ Printed([c EXCEPT ![e] = v], v).cache = [c EXCEPT ![e] = v]
  BY StoredTouches DEF Nothing, Printed
<1>1. CASE fn \in Plain
  <2>1. fn \in Storing
    BY <1>1 DEF Plain, Storing
  <2>2. Sets(fn) = fn /\ fn \in Ends
    BY <2>1, SetsTable
  <2>3. export_fn(fn, v, c) = store_or_print(fn, v, c)
    BY <2>1, DispatchStoring
  <2>4. export_fn(fn, v, c) = Nothing([c EXCEPT ![fn] = v])
    BY <2>3 DEF store_or_print
  <2> QED
    BY <1>0, <2>2, <2>4
<1>2. CASE fn = "ipv6_src"
  <2>1. export_fn(fn, v, c) = Printed([c EXCEPT !["src"] = v], v) /\ Sets(fn) = "src"
    BY <1>2, Dispatch, SetsTable DEF print_ipv6
  <2>2. /\ [c EXCEPT !["src"] = v]["src"] = v
        /\ Printed([c EXCEPT !["src"] = v], v).cache = [c EXCEPT !["src"] = v]
    BY <1>0, SetsTable
  <2> QED
    BY <2>1, <2>2
<1>3. CASE fn = "ipv6_dst"
  <2>1. export_fn(fn, v, c) = Printed([c EXCEPT !["dst"] = v], v) /\ Sets(fn) = "dst"
    BY <1>3, Dispatch, SetsTable DEF print_ipv6
  <2>2. /\ [c EXCEPT !["dst"] = v]["dst"] = v
        /\ Printed([c EXCEPT !["dst"] = v], v).cache = [c EXCEPT !["dst"] = v]
    BY <1>0, SetsTable
  <2> QED
    BY <2>1, <2>2
<1> QED
  BY <1>1, <1>2, <1>3 DEF PlainFns

LEMMA DirectionStores ==
  ASSUME cfg \in Configurations, cfg.normalize, NEW c \in Caches, NEW v
  PROVE  /\ export_fn("direction", v, c).out = <<>>
         /\ export_fn("direction", v, c).cache["direction"] =
              IF v \in {"0", "1"} THEN Turned(v) ELSE c["direction"]
<1>0. export_fn("direction", v, c) = process_direction(v, c) /\ "direction" \in DOMAIN c
  BY Dispatch, SetsTable DEF Caches
<1>1. CASE v \notin {"0", "1"}
  <2>1. process_direction(v, c) = Nothing(c)
    BY <1>1 DEF process_direction
  <2> QED
    BY <1>0, <1>1, <2>1 DEF Nothing
<1>2. CASE v \in {"0", "1"}
  <2>1. process_direction(v, c) = Nothing([c EXCEPT !.direction = Turned(v)])
    BY <1>2 DEF process_direction, Turned
  <2>2. [c EXCEPT !.direction = Turned(v)]["direction"] = Turned(v)
    BY <1>0
  <2> QED
    BY <1>0, <1>2, <2>1, <2>2 DEF Nothing
<1> QED
  BY <1>1, <1>2

\* Field k with value v turns state st into q, as far as the normalized elements see.
Absorbs(st, q, k, v) ==
  /\ \A e \in Ends : Sets(FnOf[k]) # e => q.cache[e] = st.cache[e]
  /\ v = "bad" => q.cache = st.cache
  /\ v # "bad" /\ Sets(FnOf[k]) \in Plain => q.cache[Sets(FnOf[k])] = v
  /\ k = "DIRECTION" =>
       q.cache["direction"] = IF v \in {"0", "1"} THEN Turned(v) ELSE st.cache["direction"]
  /\ \A m \in Special : ValuesIn(q.buf, m) = ValuesIn(st.buf, m)
  /\ k # "STA_IPV4_ADDRESS" \/ v = "bad" =>
       ValuesIn(q.buf, "lan_ip") = ValuesIn(st.buf, "lan_ip")
  /\ k # "STA_MAC_ADDRESS" \/ v = "bad" =>
       ValuesIn(q.buf, "client_mac") = ValuesIn(st.buf, "client_mac")

LEMMA FieldCache ==
  ASSUME cfg \in Configurations, cfg.normalize, NEW st \in States, NEW k \in Fields,
         NEW v \in Vals[k], NEW q,
         q.cache = printNetflowRecordWithTemplate(st, ver9_templates[k], v).cache
  PROVE  /\ \A e \in Ends : Sets(FnOf[k]) # e => q.cache[e] = st.cache[e]
         /\ v = "bad" => q.cache = st.cache
         /\ v # "bad" /\ Sets(FnOf[k]) \in Plain => q.cache[Sets(FnOf[k])] = v
         /\ k = "DIRECTION" =>
              q.cache["direction"] = IF v \in {"0", "1"} THEN Turned(v) ELSE st.cache["direction"]
<1>0. v \in Texts /\ st.cache \in Caches
  BY TextsGiven, StateParts
<1>1. FnOf[k] \in Fns /\ q.cache = export_fn(FnOf[k], v, st.cache).cache
  BY <1>0, FieldStores
<1>2. \A e \in Ends : Sets(FnOf[k]) # e => q.cache[e] = st.cache[e]
  BY <1>0, <1>1, ExportTouches DEF Touches
<1>3. v = "bad" => q.cache = st.cache
  <2>1. SUFFICES ASSUME v = "bad" PROVE q.cache = st.cache
    OBVIOUS
  <2>2. k \notin {"INPUT_SNMP", "OUTPUT_SNMP"}
    BY <2>1, RecordAssumption
  <2>3. FnOf[k] \notin {"input", "output", "direction_mac"}
    BY <2>2, FnOfTable, FieldNames
  <2> QED
    BY <1>0, <1>1, <2>1, <2>3, BadStoresNothing
<1>4. v # "bad" /\ Sets(FnOf[k]) \in Plain => q.cache[Sets(FnOf[k])] = v
  BY <1>0, <1>1, PlainSets, PlainStores
<1>5. k = "DIRECTION" =>
        q.cache["direction"] = IF v \in {"0", "1"} THEN Turned(v) ELSE st.cache["direction"]
  BY <1>0, <1>1, FnOfTable, DirectionStores
<1> QED
  BY <1>2, <1>3, <1>4, <1>5

\* The only fields with names of the normalized elements.
LEMMA FieldSpecial ==
  ASSUME NEW k \in Fields, NEW m \in Special \cup {"lan_ip", "client_mac"},
         m \in NamesOf(ver9_templates[k])
  PROVE  \/ k = "DIRECTION" /\ m = "direction"
         \/ k = "STA_IPV4_ADDRESS" /\ m = "lan_ip"
         \/ k = "STA_MAC_ADDRESS" /\ m = "client_mac"
<1>0. m \in {"direction", "lan_interface", "wan_interface", "wan_ip", "wan_l4_port",
             "lan_l4_port", "lan_ip", "client_mac"}
  BY DEF Special
<1>1. CASE k = "IPV4_SRC_ADDR"
  <2>1. m \in {"src", "src_net", "src_country_code"}
    BY <1>1, FieldSetsOf
  <2> QED
    BY <1>0, <1>1, <2>1
<1>2. CASE k = "IPV4_DST_ADDR"
  <2>1. m \in {"dst", "dst_net", "dst_country_code"}
    BY <1>2, FieldSetsOf
  <2> QED
    BY <1>0, <1>2, <2>1
<1>3. CASE k = "IPV6_SRC_ADDR"
  <2>1. m \in {"src", "src_net", "src_country_code"}
    BY <1>3, FieldSetsOf
  <2> QED
    BY <1>0, <1>3, <2>1
<1>4. CASE k = "IPV6_DST_ADDR"
  <2>1. m \in {"dst", "dst_net", "dst_country_code"}
    BY <1>4, FieldSetsOf
  <2> QED
    BY <1>0, <1>4, <2>1
<1>5. CASE k = "INPUT_SNMP"
  <2>1. m \in {"input_snmp", "input_snmp_name"}
    BY <1>5, FieldSetsOf
  <2> QED
    BY <1>0, <1>5, <2>1
<1>6. CASE k = "OUTPUT_SNMP"
  <2>1. m \in {"output_snmp", "output_snmp_name"}
    BY <1>6, FieldSetsOf
  <2> QED
    BY <1>0, <1>6, <2>1
<1>7. CASE k = "L4_SRC_PORT"
  <2>1. m \in {"src_port"}
    BY <1>7, FieldSetsOf
  <2> QED
    BY <1>0, <1>7, <2>1
<1>8. CASE k = "L4_DST_PORT"
  <2>1. m \in {"dst_port"}
    BY <1>8, FieldSetsOf
  <2> QED
    BY <1>0, <1>8, <2>1
<1>9. CASE k = "DIRECTION"
  <2>1. m \in {"direction"}
    BY <1>9, FieldSetsOf
  <2> QED
    BY <1>0, <1>9, <2>1
<1>10. CASE k = "TCP_FLAGS"
  <2>1. m \in {"tcp_flags"}
    BY <1>10, FieldSetsOf
  <2> QED
    BY <1>0, <1>10, <2>1
<1>11. CASE k = "IN_SRC_MAC"
  <2>1. m \in {"src_mac"}
    BY <1>11, FieldSetsOf
  <2> QED
    BY <1>0, <1>11, <2>1
<1>12. CASE k = "IN_DST_MAC"
  <2>1. m \in {"dst_mac"}
    BY <1>12, FieldSetsOf
  <2> QED
    BY <1>0, <1>12, <2>1
<1>13. CASE k = "OUT_DST_MAC"
  <2>1. m \in {"post_dst_mac"}
    BY <1>13, FieldSetsOf
  <2> QED
    BY <1>0, <1>13, <2>1
<1>14. CASE k = "OUT_SRC_MAC"
  <2>1. m \in {"post_dst_mac"}
    BY <1>14, FieldSetsOf
  <2> QED
    BY <1>0, <1>14, <2>1
<1>15. CASE k = "STA_MAC_ADDRESS"
  <2>1. m \in {"sta_mac", "client_mac", "client_mac_vendor"}
    BY <1>15, FieldSetsOf
  <2> QED
    BY <1>0, <1>15, <2>1
<1>16. CASE k = "STA_IPV4_ADDRESS"
  <2>1. m \in {"lan_ip", "lan_ip_net", "lan_ip_country_code"}
    BY <1>16, FieldSetsOf
  <2> QED
    BY <1>0, <1>16, <2>1
<1>17. CASE k = "CISCO_HTTP_URL"
  <2>1. m \in {"", "http_url"}
    BY <1>17, FieldSetsOf
  <2> QED
    BY <1>0, <1>17, <2>1
<1>18. CASE k = "CISCO_HTTP_HOST"
  <2>1. m \in {"", "http_host", "http_host_l2"}
    BY <1>18, FieldSetsOf
  <2> QED
    BY <1>0, <1>18, <2>1
<1>19. CASE k = "CISCO_HTTP_REFERER"
  <2>1. m \in {"", "http_referer", "http_referer_l2"}
    BY <1>19, FieldSetsOf
  <2> QED
    BY <1>0, <1>19, <2>1
<1>20. CASE k = "CISCO_HTTPS_COMMON_NAME"
  <2>1. m \in {"", "https_common_name"}
    BY <1>20, FieldSetsOf
  <2> QED
    BY <1>0, <1>20, <2>1
<1> QED
  BY <1>1, <1>2, <1>3, <1>4, <1>5, <1>6, <1>7, <1>8, <1>9, <1>10, <1>11, <1>12,
     <1>13, <1>14, <1>15, <1>16, <1>17, <1>18, <1>19, <1>20, FieldNames

LEMMA QuietName ==
  ASSUME cfg \in Configurations, NEW st \in States, NEW xs \in Lists, NEW v \in Texts,
         NEW p \in 1..Len(xs), \A i \in 1..Len(xs) : xs[i].name = xs[p].name => i = p,
         \A c \in Caches : export_fn(xs[p].fn, v, c).out = <<>>
  PROVE  ValuesIn(printNetflowRecordWithTemplate(st, xs, v).buf, xs[p].name)
           = ValuesIn(st.buf, xs[p].name)
<1>1. Len(xs) \in Nat
  BY ListsApt
<1>2. PICK f : Prints(f, st, xs, v) /\ printNetflowRecordWithTemplate(st, xs, v) = f[Len(xs)]
  BY <1>1, Printing
<1>3. p - 1 \in 0..Len(xs)
  BY <1>1
<1>4. f[p - 1].cache \in Caches
  BY <1>2, <1>3, Steps, StateParts
<1>5. At(f, xs, v, p).out = <<>>
  BY <1>4 DEF At
<1>6. ValuesIn(f[Len(xs)].buf, xs[p].name) = ValuesIn(st.buf, xs[p].name)
  BY <1>2, <1>5, NameShown
<1> QED
  BY <1>2, <1>6

LEMMA SpecialNames ==
  (Special \cup {"lan_ip", "client_mac"}) \cap Braces = {}
  BY DEF Special, Braces

LEMMA FieldAbsorbs ==
  ASSUME cfg \in Configurations, cfg.normalize, NEW st \in States, NEW k \in Fields,
         NEW v \in Vals[k]
  PROVE  Absorbs(st, printNetflowRecordWithTemplate(st, ver9_templates[k], v), k, v)
<1> DEFINE xs == ver9_templates[k]
           q == printNetflowRecordWithTemplate(st, xs, v)
<1>0. v \in Texts /\ xs \in Lists
  BY TextsGiven DEF Lists
<1>1. After(st, q, FnsOf(xs), NamesOf(xs))
  BY <1>0, ListAfter
<1>2. ASSUME NEW m \in Special \cup {"lan_ip", "client_mac"}, m \notin NamesOf(xs)
      PROVE  ValuesIn(q.buf, m) = ValuesIn(st.buf, m)
  BY <1>1, <1>2, SpecialNames DEF After
<1>3. ASSUME k = "DIRECTION"
      PROVE  ValuesIn(q.buf, "direction") = ValuesIn(st.buf, "direction")
  <2>1. Len(xs) = 1 /\ xs[1].fn = "direction" /\ xs[1].name = "direction"
    <3>1. xs = <<X("direction", "direction")>>
      BY <1>3, FieldTable
    <3> HIDE DEF xs
    <3> QED
      BY <3>1 DEF X
  <2>2. \A c \in Caches : export_fn(xs[1].fn, v, c).out = <<>>
    BY <2>1, DirectionStores
  <2>3. 1 \in 1..Len(xs) /\ \A i \in 1..Len(xs) : xs[i].name = xs[1].name => i = 1
    BY <2>1
  <2> QED
    BY <1>0, <2>1, <2>2, <2>3, QuietName
<1>4. ASSUME k = "STA_IPV4_ADDRESS", v = "bad"
      PROVE  ValuesIn(q.buf, "lan_ip") = ValuesIn(st.buf, "lan_ip")
  <2>1. /\ Len(xs) = 3 /\ xs[1].fn = "sta_ipv4" /\ xs[1].name = "lan_ip"
        /\ xs[2].name = "lan_ip_net" /\ xs[3].name = "lan_ip_country_code"
    <3>1. xs = <<X("lan_ip", "sta_ipv4"), X("lan_ip_net", "net"),
                 X("lan_ip_country_code", "country")>>
      BY <1>4, FieldTable
    <3> HIDE DEF xs
    <3> QED
      BY <3>1 DEF X
  <2>2. \A c \in Caches : export_fn(xs[1].fn, v, c).out = <<>>
    <3>1. \A c : export_fn("sta_ipv4", "bad", c) = print_sta_ipv4_address("bad", c)
      BY Dispatch
    <3>2. \A c : print_sta_ipv4_address("bad", c) = Nothing(c)
      BY DEF print_sta_ipv4_address
    <3>3. \A c : Nothing(c).out = <<>>
      BY DEF Nothing
    <3> QED
      BY <1>4, <2>1, <3>1, <3>2, <3>3
  <2>3. 1 \in 1..Len(xs) /\ \A i \in 1..Len(xs) : i \in {1, 2, 3}
    BY <2>1
  <2>4. \A i \in 1..Len(xs) : xs[i].name = xs[1].name => i = 1
    BY <2>1, <2>3
  <2> QED
    BY <1>0, <2>1, <2>2, <2>3, <2>4, QuietName
<1>5. ASSUME k = "STA_MAC_ADDRESS", v = "bad"
      PROVE  ValuesIn(q.buf, "client_mac") = ValuesIn(st.buf, "client_mac")
  <2>1. /\ Len(xs) = 3 /\ xs[2].fn = "client_mac" /\ xs[2].name = "client_mac"
        /\ xs[1].name = "sta_mac" /\ xs[3].name = "client_mac_vendor"
    <3>1. xs = <<X("sta_mac", "NO_FN"), X("client_mac", "client_mac"),
                 X("client_mac_vendor", "mac_vendor")>>
      BY <1>5, FieldTable
    <3> HIDE DEF xs
    <3> QED
      BY <3>1 DEF X
  <2>2. \A c \in Caches : export_fn(xs[2].fn, v, c).out = <<>>
    <3>1. \A c : export_fn("client_mac", "bad", c) = print_client_mac("bad", c)
      BY Dispatch
    <3>2. \A c : print_client_mac("bad", c) = Nothing(c)
      BY DEF print_client_mac
    <3>3. \A c : Nothing(c).out = <<>>
      BY DEF Nothing
    <3> QED
      BY <1>5, <2>1, <3>1, <3>2, <3>3
  <2>3. 2 \in 1..Len(xs) /\ \A i \in 1..Len(xs) : i \in {1, 2, 3}
    BY <2>1
  <2>4. \A i \in 1..Len(xs) : xs[i].name = xs[2].name => i = 2
    BY <2>1, <2>3
  <2> QED
    BY <1>0, <2>1, <2>2, <2>3, <2>4, QuietName
<1>6. \A m \in Special : ValuesIn(q.buf, m) = ValuesIn(st.buf, m)
  <2>1. SUFFICES ASSUME NEW m \in Special PROVE ValuesIn(q.buf, m) = ValuesIn(st.buf, m)
    OBVIOUS
  <2>2. m \notin {"lan_ip", "client_mac"}
    BY DEF Special
  <2> HIDE DEF q
  <2> QED
    BY <1>2, <1>3, <2>2, FieldSpecial
<1>7. k # "STA_IPV4_ADDRESS" \/ v = "bad" =>
        ValuesIn(q.buf, "lan_ip") = ValuesIn(st.buf, "lan_ip")
  <2> HIDE DEF q
  <2> QED
    BY <1>2, <1>4, FieldSpecial
<1>8. k # "STA_MAC_ADDRESS" \/ v = "bad" =>
        ValuesIn(q.buf, "client_mac") = ValuesIn(st.buf, "client_mac")
  <2> HIDE DEF q
  <2> QED
    BY <1>2, <1>5, FieldSpecial
<1>9. /\ \A e \in Ends : Sets(FnOf[k]) # e => q.cache[e] = st.cache[e]
      /\ v = "bad" => q.cache = st.cache
      /\ v # "bad" /\ Sets(FnOf[k]) \in Plain => q.cache[Sets(FnOf[k])] = v
      /\ k = "DIRECTION" =>
           q.cache["direction"] = IF v \in {"0", "1"} THEN Turned(v) ELSE st.cache["direction"]
  BY FieldCache
<1> HIDE DEF q
<1> QED
  BY <1>6, <1>7, <1>8, <1>9 DEF Absorbs, q

LEMMA V5Absorbs ==
  ASSUME cfg \in Configurations, cfg.normalize, NEW st \in States,
         NEW i \in DOMAIN v5TemplateFields, NEW v \in Vals[v5TemplateFields[i]]
  PROVE  Absorbs(st, dissectNetFlowV5Field(st, v5TemplateFields[i], v), v5TemplateFields[i], v)
<1> DEFINE k == v5TemplateFields[i]
           xs == ver9_templates[k]
           q == dissectNetFlowV5Field(st, k, v)
<1>0. k \in {"IPV4_SRC_ADDR", "IPV4_DST_ADDR", "INPUT_SNMP", "OUTPUT_SNMP",
             "L4_SRC_PORT", "L4_DST_PORT", "TCP_FLAGS"}
  BY DEF v5TemplateFields
<1>1. k \in Fields
  <2> HIDE DEF k
  <2> QED
    BY <1>0, FieldNames
<1>2. v \in Texts
  BY <1>1, TextsGiven
<1>3. /\ q.cache = printNetflowRecordWithTemplate(st, xs, v).cache
      /\ After(st, q, FnsOf(xs), NamesOf(xs))
  BY <1>1, <1>2, V5After
<1> HIDE DEF q
<1>4. \A m \in Special \cup {"lan_ip", "client_mac"} : m \notin NamesOf(xs)
  <2> HIDE DEF k
  <2> QED
    BY <1>0, <1>1, FieldSpecial
<1>5. \A m \in Special \cup {"lan_ip", "client_mac"} :
        ValuesIn(q.buf, m) = ValuesIn(st.buf, m)
  BY <1>3, <1>4, SpecialNames DEF After
<1>6. /\ \A e \in Ends : Sets(FnOf[k]) # e => q.cache[e] = st.cache[e]
      /\ v = "bad" => q.cache = st.cache
      /\ v # "bad" /\ Sets(FnOf[k]) \in Plain => q.cache[Sets(FnOf[k])] = v
      /\ k = "DIRECTION" =>
           q.cache["direction"] = IF v \in {"0", "1"} THEN Turned(v) ELSE st.cache["direction"]
  <2> HIDE DEF k
  <2> QED
    BY <1>1, <1>3, FieldCache DEF k
<1> HIDE DEF k
<1> QED
  BY <1>5, <1>6 DEF Absorbs, q, k

-----------------------------------------------------------------------------
(* The record so far, and what the cache holds of it.                      *)

\* End e holds what the record said of fields ks, or z.
Held(ks, e, z) ==
  /\ \A f \in fields : f[1] \in ks /\ f[2] # "bad" => cache[e] = f[2]
  /\ (\A f \in fields : f[1] \in ks => f[2] = "bad") => cache[e] = z

HeldDirection ==
  /\ \A f \in fields : f[1] = "DIRECTION" /\ f[2] \in {"0", "1"} =>
       cache["direction"] = Turned(f[2])
  /\ (\A f \in fields : f[1] = "DIRECTION" => f[2] \notin {"0", "1"}) =>
       cache["direction"] = "unset"

\* Nothing is printed yet under the names of the normalized elements.
Silent ==
  /\ \A m \in Special : ValuesIn(buf, m) = {}
  /\ ~Given("STA_IPV4_ADDRESS") => ValuesIn(buf, "lan_ip") = {} /\ cache["client"] = NoAddr
  /\ ~Given("STA_MAC_ADDRESS") => ValuesIn(buf, "client_mac") = {} /\ cache["client_mac"] = Zero

HeldEnds ==
  /\ HeldDirection
  /\ Held({"L4_SRC_PORT"}, "src_port", Zero) /\ Held({"L4_DST_PORT"}, "dst_port", Zero)
  /\ Held({"INPUT_SNMP"}, "input", Zero) /\ Held({"OUTPUT_SNMP"}, "output", Zero)
  /\ Held({"IN_SRC_MAC"}, "src_mac", Zero) /\ Held({"IN_DST_MAC"}, "dst_mac", Zero)
  /\ Held({"OUT_DST_MAC"}, "post_dst_mac", Zero)
  /\ OneAddressEach => /\ Held({"IPV4_SRC_ADDR", "IPV6_SRC_ADDR"}, "src", NoAddr)
                       /\ Held({"IPV4_DST_ADDR", "IPV6_DST_ADDR"}, "dst", NoAddr)

FieldsOnce ==
  /\ \A f \in fields : f[1] \in Fields \ rest /\ f[2] \in Vals[f[1]]
  /\ \A f \in fields, g \in fields : f[1] = g[1] => f = g

VInv ==
  /\ FieldsOnce
  /\ pc \in {"begin", "fields"} /\ cfg.normalize => Silent /\ HeldEnds
  /\ pc \in {"split", "sent"} /\ cfg.normalize /\ ~Given("STA_IPV4_ADDRESS") /\ OneAddressEach
       => SeenFromLan

\* What CHOOSE finds in the fields is what the cache holds.
LEMMA SaidHeld ==
  ASSUME NEW ks, NEW e, NEW z, Held(ks, e, z)
  PROVE  Said(ks, z) = cache[e]
<1>1. CASE \E k \in ks : Given(k)
  <2>1. PICK g \in fields : g[1] \in ks /\ g[2] # "bad"
    BY <1>1 DEF Given
  <2> DEFINE h == CHOOSE f \in fields : f[1] \in ks /\ f[2] # "bad"
  <2>2. h \in fields /\ h[1] \in ks /\ h[2] # "bad"
    BY <2>1
  <2>3. Said(ks, z) = h[2]
    BY <1>1 DEF Said
  <2> HIDE DEF h
  <2> QED
    BY <2>2, <2>3 DEF Held
<1>2. CASE ~\E k \in ks : Given(k)
  <2>1. Said(ks, z) = z
    BY <1>2 DEF Said
  <2>2. \A f \in fields : f[1] \in ks => f[2] = "bad"
    BY <1>2 DEF Given
  <2> QED
    BY <2>1, <2>2 DEF Held
<1> QED
  BY <1>1, <1>2

\* A field just read: the ends it is for hold it, the others what they held.
LEMMA HeldStep ==
  ASSUME NEW k, NEW v, NEW ks, NEW e \in Plain, NEW z,
         fields' = fields \cup {<<k, v>>},
         Absorbs(Now, Now', k, v), Held(ks, e, z), FieldsOnce, k \in rest,
         k \in ks => Sets(FnOf[k]) = e,
         Sets(FnOf[k]) = e => k \in ks,
         v # "bad" => \A f \in fields : f[1] \in ks \ {k} /\ k \in ks => f[2] = "bad"
  PROVE  Held(ks, e, z)'
<1>0. /\ <<k, v>>[1] = k /\ <<k, v>>[2] = v /\ e \in Ends
      /\ Now.cache = cache /\ Now'.cache = cache'
  BY DEF Now, Plain, Ends
<1>1. CASE k \notin ks \/ v = "bad"
  <2>1. cache'[e] = cache[e]
    BY <1>0, <1>1 DEF Absorbs
  <2>2. \A f \in fields' : f \in fields \/ f = <<k, v>>
    OBVIOUS
  <2>3. \A f \in fields' : f[1] \in ks /\ f[2] # "bad" => cache'[e] = f[2]
    BY <1>0, <1>1, <2>1, <2>2 DEF Held
  <2>4. (\A f \in fields' : f[1] \in ks => f[2] = "bad") => cache'[e] = z
    BY <2>1 DEF Held
  <2> QED
    BY <2>3, <2>4 DEF Held
<1>2. CASE k \in ks /\ v # "bad"
  <2>1. cache'[e] = v
    BY <1>0, <1>2 DEF Absorbs
  <2>2. \A f \in fields : f[1] \in ks => f[2] = "bad"
    BY <1>2 DEF FieldsOnce
  <2>3. \A f \in fields' : f[1] \in ks /\ f[2] # "bad" => cache'[e] = f[2]
    BY <1>0, <2>1, <2>2
  <2>4. <<k, v>> \in fields'
    OBVIOUS
  <2> QED
    BY <1>0, <1>2, <2>3, <2>4 DEF Held
<1> QED
  BY <1>1, <1>2

LEMMA EndTable ==
  /\ Sets(FnOf["IPV4_SRC_ADDR"]) = "src"
  /\ Sets(FnOf["IPV4_DST_ADDR"]) = "dst"
  /\ Sets(FnOf["IPV6_SRC_ADDR"]) = "src"
  /\ Sets(FnOf["IPV6_DST_ADDR"]) = "dst"
  /\ Sets(FnOf["INPUT_SNMP"]) = "input"
  /\ Sets(FnOf["OUTPUT_SNMP"]) = "output"
  /\ Sets(FnOf["L4_SRC_PORT"]) = "src_port"
  /\ Sets(FnOf["L4_DST_PORT"]) = "dst_port"
  /\ Sets(FnOf["DIRECTION"]) = "direction"
  /\ Sets(FnOf["TCP_FLAGS"]) = "none"
  /\ Sets(FnOf["IN_SRC_MAC"]) = "src_mac"
  /\ Sets(FnOf["IN_DST_MAC"]) = "dst_mac"
  /\ Sets(FnOf["OUT_DST_MAC"]) = "post_dst_mac"
  /\ Sets(FnOf["OUT_SRC_MAC"]) = "post_src_mac"
  /\ Sets(FnOf["STA_MAC_ADDRESS"]) = "client_mac"
  /\ Sets(FnOf["STA_IPV4_ADDRESS"]) = "client"
  /\ Sets(FnOf["CISCO_HTTP_URL"]) = "none"
  /\ Sets(FnOf["CISCO_HTTP_HOST"]) = "http_host"
  /\ Sets(FnOf["CISCO_HTTP_REFERER"]) = "http_referer"
  /\ Sets(FnOf["CISCO_HTTPS_COMMON_NAME"]) = "ssl_common_name"
<1>1. {"src", "dst", "src_port", "dst_port", "input", "output", "src_mac", "dst_mac",
       "post_dst_mac", "post_src_mac", "http_host", "http_referer", "ssl_common_name"}
        \subseteq Storing \cup Hosting
      /\ {"NO_FN", "tcp_flags"} \subseteq Showing
  BY DEF Storing, Hosting, Showing
<1> QED
  BY <1>1, FnOfTable, SetsTable

\* The fields for each end.
LEMMA EndFields ==
  ASSUME NEW k \in Fields
  PROVE  /\ k \in {"IPV4_SRC_ADDR", "IPV6_SRC_ADDR"} <=> Sets(FnOf[k]) = "src"
         /\ k \in {"IPV4_DST_ADDR", "IPV6_DST_ADDR"} <=> Sets(FnOf[k]) = "dst"
         /\ k \in {"L4_SRC_PORT"} <=> Sets(FnOf[k]) = "src_port"
         /\ k \in {"L4_DST_PORT"} <=> Sets(FnOf[k]) = "dst_port"
         /\ k \in {"INPUT_SNMP"} <=> Sets(FnOf[k]) = "input"
         /\ k \in {"OUTPUT_SNMP"} <=> Sets(FnOf[k]) = "output"
         /\ k \in {"IN_SRC_MAC"} <=> Sets(FnOf[k]) = "src_mac"
         /\ k \in {"IN_DST_MAC"} <=> Sets(FnOf[k]) = "dst_mac"
         /\ k \in {"OUT_DST_MAC"} <=> Sets(FnOf[k]) = "post_dst_mac"
         /\ k = "STA_IPV4_ADDRESS" <=> Sets(FnOf[k]) = "client"
         /\ k = "STA_MAC_ADDRESS" <=> Sets(FnOf[k]) = "client_mac"
         /\ k = "DIRECTION" <=> Sets(FnOf[k]) = "direction"
<1>1. CASE k = "IPV4_SRC_ADDR"
  <2>1. Sets(FnOf[k]) = "src"
    BY <1>1, EndTable
  <2> QED
    BY <1>1, <2>1
<1>2. CASE k = "IPV4_DST_ADDR"
  <2>1. Sets(FnOf[k]) = "dst"
    BY <1>2, EndTable
  <2> QED
    BY <1>2, <2>1
<1>3. CASE k = "IPV6_SRC_ADDR"
  <2>1. Sets(FnOf[k]) = "src"
    BY <1>3, EndTable
  <2> QED
    BY <1>3, <2>1
<1>4. CASE k = "IPV6_DST_ADDR"
  <2>1. Sets(FnOf[k]) = "dst"
    BY <1>4, EndTable
  <2> QED
    BY <1>4, <2>1
<1>5. CASE k = "INPUT_SNMP"
  <2>1. Sets(FnOf[k]) = "input"
    BY <1>5, EndTable
  <2> QED
    BY <1>5, <2>1
<1>6. CASE k = "OUTPUT_SNMP"
  <2>1. Sets(FnOf[k]) = "output"
    BY <1>6, EndTable
  <2> QED
    BY <1>6, <2>1
<1>7. CASE k = "L4_SRC_PORT"
  <2>1. Sets(FnOf[k]) = "src_port"
    BY <1>7, EndTable
  <2> QED
    BY <1>7, <2>1
<1>8. CASE k = "L4_DST_PORT"
  <2>1. Sets(FnOf[k]) = "dst_port"
    BY <1>8, EndTable
  <2> QED
    BY <1>8, <2>1
<1>9. CASE k = "DIRECTION"
  <2>1. Sets(FnOf[k]) = "direction"
    BY <1>9, EndTable
  <2> QED
    BY <1>9, <2>1
<1>10. CASE k = "TCP_FLAGS"
  <2>1. Sets(FnOf[k]) = "none"
    BY <1>10, EndTable
  <2> QED
    BY <1>10, <2>1
<1>11. CASE k = "IN_SRC_MAC"
  <2>1. Sets(FnOf[k]) = "src_mac"
    BY <1>11, EndTable
  <2> QED
    BY <1>11, <2>1
<1>12. CASE k = "IN_DST_MAC"
  <2>1. Sets(FnOf[k]) = "dst_mac"
    BY <1>12, EndTable
  <2> QED
    BY <1>12, <2>1
<1>13. CASE k = "OUT_DST_MAC"
  <2>1. Sets(FnOf[k]) = "post_dst_mac"
    BY <1>13, EndTable
  <2> QED
    BY <1>13, <2>1
<1>14. CASE k = "OUT_SRC_MAC"
  <2>1. Sets(FnOf[k]) = "post_src_mac"
    BY <1>14, EndTable
  <2> QED
    BY <1>14, <2>1
<1>15. CASE k = "STA_MAC_ADDRESS"
  <2>1. Sets(FnOf[k]) = "client_mac"
    BY <1>15, EndTable
  <2> QED
    BY <1>15, <2>1
<1>16. CASE k = "STA_IPV4_ADDRESS"
  <2>1. Sets(FnOf[k]) = "client"
    BY <1>16, EndTable
  <2> QED
    BY <1>16, <2>1
<1>17. CASE k = "CISCO_HTTP_URL"
  <2>1. Sets(FnOf[k]) = "none"
    BY <1>17, EndTable
  <2> QED
    BY <1>17, <2>1
<1>18. CASE k = "CISCO_HTTP_HOST"
  <2>1. Sets(FnOf[k]) = "http_host"
    BY <1>18, EndTable
  <2> QED
    BY <1>18, <2>1
<1>19. CASE k = "CISCO_HTTP_REFERER"
  <2>1. Sets(FnOf[k]) = "http_referer"
    BY <1>19, EndTable
  <2> QED
    BY <1>19, <2>1
<1>20. CASE k = "CISCO_HTTPS_COMMON_NAME"
  <2>1. Sets(FnOf[k]) = "ssl_common_name"
    BY <1>20, EndTable
  <2> QED
    BY <1>20, <2>1
<1> QED
  BY <1>1, <1>2, <1>3, <1>4, <1>5, <1>6, <1>7, <1>8, <1>9, <1>10, <1>11, <1>12,
     <1>13, <1>14, <1>15, <1>16, <1>17, <1>18, <1>19, <1>20, FieldNames

LEMMA FieldVInv ==
  ASSUME VInv, rest \subseteq Fields, NEW k \in rest, NEW v \in Vals[k],
         fields' = fields \cup {<<k, v>>}, rest' = rest \ {k}, cfg' = cfg,
         pc = "fields", pc' = "fields", cfg.normalize => Absorbs(Now, Now', k, v)
  PROVE  VInv'
<1>0. /\ <<k, v>>[1] = k /\ <<k, v>>[2] = v /\ k \in Fields /\ <<k, v>> \in fields'
      /\ \A f \in fields' : f \in fields \/ f = <<k, v>>
      /\ FieldsOnce
  BY DEF VInv
<1>1. FieldsOnce'
  BY <1>0 DEF FieldsOnce
<1>2. ASSUME cfg.normalize PROVE (Silent /\ HeldEnds)'
  <2>0. /\ Absorbs(Now, Now', k, v) /\ Silent /\ HeldEnds
        /\ Now.cache = cache /\ Now'.cache = cache' /\ Now.buf = buf /\ Now'.buf = buf'
    BY <1>2 DEF VInv, Now
  <2>1. \A j : Given(j) => Given(j)'
    BY DEF Given
  <2>2. v # "bad" => Given(k)'
    BY <1>0 DEF Given
  <2>3. Silent'
    <3>1. \A m \in Special : ValuesIn(buf', m) = {}
      BY <2>0 DEF Absorbs, Silent
    <3>2. ASSUME ~Given("STA_IPV4_ADDRESS")'
          PROVE  ValuesIn(buf', "lan_ip") = {} /\ cache'["client"] = NoAddr
      <4>1. ~Given("STA_IPV4_ADDRESS") /\ (k # "STA_IPV4_ADDRESS" \/ v = "bad")
        BY <2>1, <2>2, <3>2
      <4>2. ValuesIn(buf, "lan_ip") = {} /\ cache["client"] = NoAddr
        BY <2>0, <4>1 DEF Silent
      <4>3. ValuesIn(buf', "lan_ip") = ValuesIn(buf, "lan_ip")
        BY <2>0, <4>1 DEF Absorbs
      <4>4. cache'["client"] = cache["client"]
        <5>1. CASE v = "bad"
          BY <2>0, <5>1 DEF Absorbs
        <5>2. CASE v # "bad"
          <6>1. Sets(FnOf[k]) # "client" /\ "client" \in Ends
            BY <1>0, <4>1, <5>2, EndFields DEF Ends
          <6> QED
            BY <2>0, <6>1 DEF Absorbs
        <5> QED
          BY <5>1, <5>2
      <4> QED
        BY <4>2, <4>3, <4>4
    <3>3. ASSUME ~Given("STA_MAC_ADDRESS")'
          PROVE  ValuesIn(buf', "client_mac") = {} /\ cache'["client_mac"] = Zero
      <4>1. ~Given("STA_MAC_ADDRESS") /\ (k # "STA_MAC_ADDRESS" \/ v = "bad")
        BY <2>1, <2>2, <3>3
      <4>2. ValuesIn(buf, "client_mac") = {} /\ cache["client_mac"] = Zero
        BY <2>0, <4>1 DEF Silent
      <4>3. ValuesIn(buf', "client_mac") = ValuesIn(buf, "client_mac")
        BY <2>0, <4>1 DEF Absorbs
      <4>4. cache'["client_mac"] = cache["client_mac"]
        <5>1. CASE v = "bad"
          BY <2>0, <5>1 DEF Absorbs
        <5>2. CASE v # "bad"
          <6>1. Sets(FnOf[k]) # "client_mac" /\ "client_mac" \in Ends
            BY <1>0, <4>1, <5>2, EndFields DEF Ends
          <6> QED
            BY <2>0, <6>1 DEF Absorbs
        <5> QED
          BY <5>1, <5>2
      <4> QED
        BY <4>2, <4>3, <4>4
    <3> QED
      BY <3>1, <3>2, <3>3 DEF Silent
  <2>4. HeldDirection'
    <3>0. HeldDirection /\ "direction" \in Ends /\ \A w : Turned(w)' = Turned(w)
      BY <2>0 DEF HeldEnds, Ends, Turned
    <3>1. CASE k # "DIRECTION" \/ v \notin {"0", "1"}
      <4>1. cache'["direction"] = cache["direction"]
        <5>1. CASE k = "DIRECTION"
          BY <2>0, <3>1, <5>1 DEF Absorbs
        <5>2. CASE k # "DIRECTION"
          <6>1. Sets(FnOf[k]) # "direction"
            BY <1>0, <5>2, EndFields
          <6> QED
            BY <2>0, <3>0, <6>1 DEF Absorbs
        <5> QED
          BY <5>1, <5>2
      <4>2. \A f \in fields' : f[1] = "DIRECTION" /\ f[2] \in {"0", "1"} =>
              cache'["direction"] = Turned(f[2])
        BY <1>0, <3>0, <3>1, <4>1 DEF HeldDirection
      <4>3. (\A f \in fields' : f[1] = "DIRECTION" => f[2] \notin {"0", "1"}) =>
              cache'["direction"] = "unset"
        BY <3>0, <4>1 DEF HeldDirection
      <4> QED
        BY <3>0, <4>2, <4>3 DEF HeldDirection
    <3>2. CASE k = "DIRECTION" /\ v \in {"0", "1"}
      <4>1. cache'["direction"] = Turned(v)
        BY <2>0, <3>2 DEF Absorbs
      <4>2. \A f \in fields' : f[1] = "DIRECTION" => f = <<k, v>>
        BY <1>0, <3>2 DEF FieldsOnce
      <4>3. \A f \in fields' : f[1] = "DIRECTION" /\ f[2] \in {"0", "1"} =>
              cache'["direction"] = Turned(f[2])
        BY <1>0, <4>1, <4>2
      <4> QED
        BY <1>0, <3>0, <3>2, <4>3 DEF HeldDirection
    <3> QED
      BY <3>1, <3>2
  <2>5. /\ Held({"L4_SRC_PORT"}, "src_port", Zero)' /\ Held({"L4_DST_PORT"}, "dst_port", Zero)'
        /\ Held({"INPUT_SNMP"}, "input", Zero)' /\ Held({"OUTPUT_SNMP"}, "output", Zero)'
        /\ Held({"IN_SRC_MAC"}, "src_mac", Zero)' /\ Held({"IN_DST_MAC"}, "dst_mac", Zero)'
        /\ Held({"OUT_DST_MAC"}, "post_dst_mac", Zero)'
    <3>1. ASSUME NEW j, NEW e \in Plain, Held({j}, e, Zero),
                 k \in {j} <=> Sets(FnOf[k]) = e
          PROVE  Held({j}, e, Zero)'
      <4>1. \A f \in fields : f[1] \in {j} \ {k} /\ k \in {j} => f[2] = "bad"
        OBVIOUS
      <4> QED
        BY <1>0, <2>0, <3>1, <4>1, HeldStep
    <3>2. {"src_port", "dst_port", "input", "output", "src_mac", "dst_mac", "post_dst_mac"}
            \subseteq Plain
      BY DEF Plain
    <3>3. Held({"L4_SRC_PORT"}, "src_port", Zero)'
      BY <1>0, <2>0, <3>1, <3>2, EndFields DEF HeldEnds
    <3>4. Held({"L4_DST_PORT"}, "dst_port", Zero)'
      BY <1>0, <2>0, <3>1, <3>2, EndFields DEF HeldEnds
    <3>5. Held({"INPUT_SNMP"}, "input", Zero)'
      BY <1>0, <2>0, <3>1, <3>2, EndFields DEF HeldEnds
    <3>6. Held({"OUTPUT_SNMP"}, "output", Zero)'
      BY <1>0, <2>0, <3>1, <3>2, EndFields DEF HeldEnds
    <3>7. Held({"IN_SRC_MAC"}, "src_mac", Zero)'
      BY <1>0, <2>0, <3>1, <3>2, EndFields DEF HeldEnds
    <3>8. Held({"IN_DST_MAC"}, "dst_mac", Zero)'
      BY <1>0, <2>0, <3>1, <3>2, EndFields DEF HeldEnds
    <3>9. Held({"OUT_DST_MAC"}, "post_dst_mac", Zero)'
      BY <1>0, <2>0, <3>1, <3>2, EndFields DEF HeldEnds
    <3> QED
      BY <3>3, <3>4, <3>5, <3>6, <3>7, <3>8, <3>9
  <2>6. ASSUME OneAddressEach'
        PROVE  /\ Held({"IPV4_SRC_ADDR", "IPV6_SRC_ADDR"}, "src", NoAddr)'
               /\ Held({"IPV4_DST_ADDR", "IPV6_DST_ADDR"}, "dst", NoAddr)'
    <3>0. OneAddressEach
      BY <2>1, <2>6 DEF OneAddressEach
    <3>1. \A f \in fields : f[2] # "bad" => Given(f[1])'
      BY DEF Given
    <3>2. ASSUME NEW a, NEW b, NEW e \in Plain, Held({a, b}, e, NoAddr),
                 ~(Given(a)' /\ Given(b)'), k \in {a, b} <=> Sets(FnOf[k]) = e
          PROVE  Held({a, b}, e, NoAddr)'
      <4>1. v # "bad" => \A f \in fields : f[1] \in {a, b} \ {k} /\ k \in {a, b} => f[2] = "bad"
        BY <2>2, <3>1, <3>2
      <4> QED
        BY <1>0, <2>0, <3>2, <4>1, HeldStep
    <3>3. "src" \in Plain /\ "dst" \in Plain
      BY DEF Plain
    <3>4. Held({"IPV4_SRC_ADDR", "IPV6_SRC_ADDR"}, "src", NoAddr)'
      BY <1>0, <2>0, <2>6, <3>0, <3>2, <3>3, EndFields DEF HeldEnds, OneAddressEach
    <3>5. Held({"IPV4_DST_ADDR", "IPV6_DST_ADDR"}, "dst", NoAddr)'
      BY <1>0, <2>0, <2>6, <3>0, <3>2, <3>3, EndFields DEF HeldEnds, OneAddressEach
    <3> QED
      BY <3>4, <3>5
  <2> QED
    BY <2>3, <2>4, <2>5, <2>6 DEF HeldEnds
<1> QED
  BY <1>1, <1>2 DEF VInv

-----------------------------------------------------------------------------
(* The normalized elements.                                                *)

LEMMA PostTable ==
  /\ Len(post_templates) = 15 /\ post_templates \in Lists
  /\ post_templates[1].name = "direction" /\ post_templates[1].fn = "flow_cache_direction"
  /\ post_templates[2].name = "lan_interface" /\ post_templates[2].fn = "lan_interface"
  /\ post_templates[3].name = "lan_interface_name" /\ post_templates[3].fn = "lan_interface_name"
  /\ post_templates[4].name = "wan_interface" /\ post_templates[4].fn = "wan_interface"
  /\ post_templates[5].name = "wan_interface_name" /\ post_templates[5].fn = "wan_interface_name"
  /\ post_templates[6].name = "client_mac" /\ post_templates[6].fn = "direction_mac"
  /\ post_templates[7].name = "client_mac_vendor" /\ post_templates[7].fn = "direction_mac_vendor"
  /\ post_templates[8].name = "wan_ip" /\ post_templates[8].fn = "wan_addr"
  /\ post_templates[9].name = "wan_ip_net" /\ post_templates[9].fn = "wan_net"
  /\ post_templates[10].name = "wan_ip_country_code" /\ post_templates[10].fn = "wan_country"
  /\ post_templates[11].name = "lan_ip" /\ post_templates[11].fn = "lan_addr"
  /\ post_templates[12].name = "lan_ip_net" /\ post_templates[12].fn = "lan_net"
  /\ post_templates[13].name = "lan_ip_country_code" /\ post_templates[13].fn = "lan_country"
  /\ post_templates[14].name = "wan_l4_port" /\ post_templates[14].fn = "wan_port"
  /\ post_templates[15].name = "lan_l4_port" /\ post_templates[15].fn = "lan_port"
<1>1. Len(post_templates) = 15
      /\ post_templates[1] = X("direction", "flow_cache_direction")
      /\ post_templates[2] = X("lan_interface", "lan_interface")
      /\ post_templates[3] = X("lan_interface_name", "lan_interface_name")
      /\ post_templates[4] = X("wan_interface", "wan_interface")
      /\ post_templates[5] = X("wan_interface_name", "wan_interface_name")
      /\ post_templates[6] = X("client_mac", "direction_mac")
      /\ post_templates[7] = X("client_mac_vendor", "direction_mac_vendor")
      /\ post_templates[8] = X("wan_ip", "wan_addr")
      /\ post_templates[9] = X("wan_ip_net", "wan_net")
      /\ post_templates[10] = X("wan_ip_country_code", "wan_country")
      /\ post_templates[11] = X("lan_ip", "lan_addr")
      /\ post_templates[12] = X("lan_ip_net", "lan_net")
      /\ post_templates[13] = X("lan_ip_country_code", "lan_country")
      /\ post_templates[14] = X("wan_l4_port", "wan_port")
      /\ post_templates[15] = X("lan_l4_port", "lan_port")
  BY DEF post_templates
<1>2. \A n, fn : X(n, fn).name = n /\ X(n, fn).fn = fn
  BY DEF X
<1>3. post_templates \in Lists
  BY DEF Lists
<1> QED
  BY <1>1, <1>2, <1>3

LEMMA PostNumbers ==
  /\ 1..15 = {1, 2, 3, 4, 5, 6, 7, 8, 9, 10, 11, 12, 13, 14, 15}
  OBVIOUS

LEMMA PostFns ==
  /\ \A i \in 1..15 : i # 6 => \A e \in Ends : Sets(post_templates[i].fn) # e
  /\ \A e \in Ends \ {"client_mac"} : Sets(post_templates[6].fn) # e
<1>1. {"flow_cache_direction", "lan_interface", "lan_interface_name", "wan_interface",
       "wan_interface_name", "direction_mac_vendor", "wan_addr", "wan_net", "wan_country",
       "lan_addr", "lan_net", "lan_country", "wan_port", "lan_port"} \subseteq Showing
  BY DEF Showing
<1>2. \A i \in 1..15 : i # 6 => post_templates[i].fn \in Showing
  BY <1>1, PostTable, PostNumbers
<1>3. \A fn \in Showing : \A e \in Ends : Sets(fn) # e
  BY SetsTable DEF Ends
<1>4. Sets(post_templates[6].fn) = "client_mac"
  BY PostTable, SetsTable
<1> QED
  BY <1>2, <1>3, <1>4

\* No two of the normalized elements have the same name.
LEMMA PostNames ==
  ASSUME NEW p \in {1, 2, 4, 6, 8, 11, 14, 15}
  PROVE  \A i \in 1..15 : post_templates[i].name = post_templates[p].name => i = p
<1>1. CASE p = 1
  BY <1>1, PostTable, PostNumbers
<1>2. CASE p = 2
  BY <1>2, PostTable, PostNumbers
<1>3. CASE p = 4
  BY <1>3, PostTable, PostNumbers
<1>4. CASE p = 6
  BY <1>4, PostTable, PostNumbers
<1>5. CASE p = 8
  BY <1>5, PostTable, PostNumbers
<1>6. CASE p = 11
  BY <1>6, PostTable, PostNumbers
<1>7. CASE p = 14
  BY <1>7, PostTable, PostNumbers
<1>8. CASE p = 15
  BY <1>8, PostTable, PostNumbers
<1> QED
  BY <1>1, <1>2, <1>3, <1>4, <1>5, <1>6, <1>7, <1>8

\* Only the client's MAC changes on the way.
LEMMA PostCaches ==
  ASSUME cfg \in Configurations, NEW st \in States, NEW v \in Texts,
         NEW f, Prints(f, st, post_templates, v),
         NEW i \in 0..15
  PROVE  /\ f[i].cache \in Caches
         /\ \A e \in Ends \ {"client_mac"} : f[i].cache[e] = st.cache[e]
         /\ i < 6 => f[i].cache["client_mac"] = st.cache["client_mac"]
<1>0. /\ f[0] = st /\ Len(post_templates) = 15 /\ post_templates \in Lists
      /\ "client_mac" \in Ends
  BY PostTable DEF Prints, Ends
<1> DEFINE xs == post_templates
<1>6. xs \in Lists /\ Prints(f, st, xs, v)
      /\ 0 \in 0..Len(xs) /\ i \in 0..Len(xs) /\ i \in 0..Len(xs)
  BY <1>0
<1> HIDE DEF xs
<1>1. f[i] \in States
  BY <1>6, Steps
<1>7. \A e \in Ends : (\A j \in (0 + 1)..i : Sets(xs[j].fn) # e)
                        => f[i].cache[e] = f[0].cache[e]
  BY <1>6, Runs
<1>2. \A e \in Ends : (\A j \in (0 + 1)..i : Sets(post_templates[j].fn) # e)
                        => f[i].cache[e] = f[0].cache[e]
  BY <1>7 DEF xs
<1>3. \A j \in (0 + 1)..i : j \in 1..15 /\ (i < 6 => j # 6)
  OBVIOUS
<1>4. \A e \in Ends \ {"client_mac"} : \A j \in (0 + 1)..i : Sets(post_templates[j].fn) # e
  BY <1>3, PostFns
<1>5. i < 6 => \A j \in (0 + 1)..i : Sets(post_templates[j].fn) # "client_mac"
  BY <1>0, <1>3, PostFns
<1> QED
  BY <1>0, <1>1, <1>2, <1>4, <1>5, StateParts

\* What the normalized elements print does not depend on the client's MAC.
LEMMA SameEnds ==
  ASSUME NEW c, NEW d, \A e \in Ends \ {"client_mac"} : c[e] = d[e]
  PROVE  /\ c.direction = d.direction /\ client_mac(c) = client_mac(d)
         /\ client_ip(c) = client_ip(d) /\ target_ip(c) = target_ip(d)
         /\ client_port(c) = client_port(d) /\ target_port(c) = target_port(d)
         /\ client_interface(c) = client_interface(d)
         /\ target_interface(c) = target_interface(d)
<1>1. /\ c.src = d.src /\ c.dst = d.dst /\ c.client = d.client
      /\ c.src_port = d.src_port /\ c.dst_port = d.dst_port
      /\ c.input = d.input /\ c.output = d.output
      /\ c.src_mac = d.src_mac /\ c.dst_mac = d.dst_mac /\ c.post_dst_mac = d.post_dst_mac
      /\ c.direction = d.direction
  BY DEF Ends
<1>2. /\ client_mac(c) = client_mac(d)
      /\ client_port(c) = client_port(d) /\ target_port(c) = target_port(d)
      /\ client_interface(c) = client_interface(d)
      /\ target_interface(c) = target_interface(d)
  BY <1>1 DEF client_mac, client_port, target_port, client_interface, target_interface,
              GET_CLIENT_ENDPOINT
<1>3. client_end(c) = client_end(d) /\ client_end(c) \in {"src", "dst", "client"}
  BY <1>1 DEF client_end, GET_CLIENT_ENDPOINT
<1>4. client_ip(c) = client_ip(d) /\ target_ip(c) = target_ip(d)
  BY <1>1, <1>3 DEF client_ip, target_ip
<1> QED
  BY <1>1, <1>2, <1>4

\* What the normalized elements print.
LEMMA PostShown ==
  ASSUME cfg \in Configurations, NEW st \in States, NEW v \in Texts
  PROVE  LET q == printNetflowRecordWithTemplate(st, post_templates, v)
             c == st.cache
         IN  /\ ValuesIn(q.buf, "direction") =
                  ValuesIn(st.buf, "direction") \cup ({c.direction} \ {"unset"})
             /\ ValuesIn(q.buf, "lan_interface") =
                  ValuesIn(st.buf, "lan_interface") \cup {client_interface(c)}
             /\ ValuesIn(q.buf, "wan_interface") =
                  ValuesIn(st.buf, "wan_interface") \cup {target_interface(c)}
             /\ c.client_mac = Zero =>
                  ValuesIn(q.buf, "client_mac") =
                    ValuesIn(st.buf, "client_mac") \cup {client_mac(c)}
             /\ ValuesIn(q.buf, "wan_ip") = ValuesIn(st.buf, "wan_ip") \cup {target_ip(c)}
             /\ ValuesIn(q.buf, "lan_ip") = ValuesIn(st.buf, "lan_ip") \cup {client_ip(c)}
             /\ ValuesIn(q.buf, "wan_l4_port") =
                  ValuesIn(st.buf, "wan_l4_port") \cup {target_port(c)}
             /\ ValuesIn(q.buf, "lan_l4_port") =
                  ValuesIn(st.buf, "lan_l4_port") \cup {client_port(c)}
<1> DEFINE xs == post_templates
           q == printNetflowRecordWithTemplate(st, xs, v)
           c == st.cache
<1>0. Len(xs) = 15 /\ Len(xs) \in Nat /\ xs \in Lists
  BY PostTable
<1>1. PICK f : Prints(f, st, xs, v) /\ q = f[Len(xs)]
  BY <1>0, Printing
<1> HIDE DEF q, xs
<1>2. ASSUME NEW p \in {1, 2, 4, 6, 8, 11, 14, 15}
      PROVE  /\ At(f, xs, v, p).out = <<>> =>
                  ValuesIn(q.buf, xs[p].name) = ValuesIn(st.buf, xs[p].name)
             /\ \A w : At(f, xs, v, p).out = <<w>> =>
                  ValuesIn(q.buf, xs[p].name) = ValuesIn(st.buf, xs[p].name) \cup {w}
  <2>1. p \in 1..Len(xs) /\ \A i \in 1..Len(xs) : xs[i].name = xs[p].name => i = p
    BY <1>0, PostNames DEF xs
  <2>2. xs \in Lists /\ Prints(f, st, xs, v)
    BY <1>0, <1>1
  <2> QED
    BY <1>1, <2>1, <2>2, NameShown
<1>3. ASSUME NEW p \in {1, 2, 4, 6, 8, 11, 14, 15}
      PROVE  /\ f[p - 1].cache.direction = c.direction
             /\ client_mac(f[p - 1].cache) = client_mac(c)
             /\ client_ip(f[p - 1].cache) = client_ip(c)
             /\ target_ip(f[p - 1].cache) = target_ip(c)
             /\ client_port(f[p - 1].cache) = client_port(c)
             /\ target_port(f[p - 1].cache) = target_port(c)
             /\ client_interface(f[p - 1].cache) = client_interface(c)
             /\ target_interface(f[p - 1].cache) = target_interface(c)
  <2>1. p - 1 \in 0..15
    OBVIOUS
  <2>2. \A e \in Ends \ {"client_mac"} : f[p - 1].cache[e] = c[e]
    <3>1. Prints(f, st, post_templates, v)
      BY <1>1 DEF xs
    <3> QED
      BY <2>1, <3>1, PostCaches
  <2> HIDE DEF c
  <2> QED
    BY <2>2, SameEnds
<1> HIDE DEF c
<1>4. \A d, w : Printed(d, w).out = <<w>> /\ Nothing(d).out = <<>>
  BY DEF Printed, Nothing
<1>5. ValuesIn(q.buf, "lan_interface") = ValuesIn(st.buf, "lan_interface") \cup {client_interface(c)}
  <2>1. At(f, xs, v, 2) = print_lan_interface(f[2 - 1].cache) /\ xs[2].name = "lan_interface"
    BY PostTable, Dispatch DEF At, xs
  <2>2. At(f, xs, v, 2).out = <<client_interface(f[2 - 1].cache)>>
    BY <1>4, <2>1 DEF print_lan_interface
  <2>3. client_interface(f[2 - 1].cache) = client_interface(c)
    BY <1>3
  <2> QED
    BY <1>2, <2>1, <2>2, <2>3
<1>6. ValuesIn(q.buf, "wan_interface") = ValuesIn(st.buf, "wan_interface") \cup {target_interface(c)}
  <2>1. At(f, xs, v, 4) = print_wan_interface(f[4 - 1].cache) /\ xs[4].name = "wan_interface"
    BY PostTable, Dispatch DEF At, xs
  <2>2. At(f, xs, v, 4).out = <<target_interface(f[4 - 1].cache)>>
    BY <1>4, <2>1 DEF print_wan_interface
  <2>3. target_interface(f[4 - 1].cache) = target_interface(c)
    BY <1>3
  <2> QED
    BY <1>2, <2>1, <2>2, <2>3
<1>7. ValuesIn(q.buf, "wan_ip") = ValuesIn(st.buf, "wan_ip") \cup {target_ip(c)}
  <2>1. At(f, xs, v, 8) = print_wan_addr(f[8 - 1].cache) /\ xs[8].name = "wan_ip"
    BY PostTable, Dispatch DEF At, xs
  <2>2. At(f, xs, v, 8).out = <<target_ip(f[8 - 1].cache)>>
    BY <1>4, <2>1 DEF print_wan_addr
  <2>3. target_ip(f[8 - 1].cache) = target_ip(c)
    BY <1>3
  <2> QED
    BY <1>2, <2>1, <2>2, <2>3
<1>8. ValuesIn(q.buf, "lan_ip") = ValuesIn(st.buf, "lan_ip") \cup {client_ip(c)}
  <2>1. At(f, xs, v, 11) = print_lan_addr(f[11 - 1].cache) /\ xs[11].name = "lan_ip"
    BY PostTable, Dispatch DEF At, xs
  <2>2. At(f, xs, v, 11).out = <<client_ip(f[11 - 1].cache)>>
    BY <1>4, <2>1 DEF print_lan_addr
  <2>3. client_ip(f[11 - 1].cache) = client_ip(c)
    BY <1>3
  <2> QED
    BY <1>2, <2>1, <2>2, <2>3
<1>9. ValuesIn(q.buf, "wan_l4_port") = ValuesIn(st.buf, "wan_l4_port") \cup {target_port(c)}
  <2>1. At(f, xs, v, 14) = print_wan_port(f[14 - 1].cache) /\ xs[14].name = "wan_l4_port"
    BY PostTable, Dispatch DEF At, xs
  <2>2. At(f, xs, v, 14).out = <<target_port(f[14 - 1].cache)>>
    BY <1>4, <2>1 DEF print_wan_port
  <2>3. target_port(f[14 - 1].cache) = target_port(c)
    BY <1>3
  <2> QED
    BY <1>2, <2>1, <2>2, <2>3
<1>10. ValuesIn(q.buf, "lan_l4_port") = ValuesIn(st.buf, "lan_l4_port") \cup {client_port(c)}
  <2>1. At(f, xs, v, 15) = print_lan_port(f[15 - 1].cache) /\ xs[15].name = "lan_l4_port"
    BY PostTable, Dispatch DEF At, xs
  <2>2. At(f, xs, v, 15).out = <<client_port(f[15 - 1].cache)>>
    BY <1>4, <2>1 DEF print_lan_port
  <2>3. client_port(f[15 - 1].cache) = client_port(c)
    BY <1>3
  <2> QED
    BY <1>2, <2>1, <2>2, <2>3
<1>11. ValuesIn(q.buf, "direction") = ValuesIn(st.buf, "direction") \cup ({c.direction} \ {"unset"})
  <2>1. At(f, xs, v, 1) = print_flow_cache_direction(f[1 - 1].cache) /\ xs[1].name = "direction"
    BY PostTable, Dispatch DEF At, xs
  <2>2. f[1 - 1].cache.direction = c.direction
    BY <1>3
  <2>3. CASE c.direction = "unset"
    <3>1. At(f, xs, v, 1) = Nothing(f[1 - 1].cache)
      BY <2>1, <2>2, <2>3 DEF print_flow_cache_direction, When
    <3>2. At(f, xs, v, 1).out = <<>>
      BY <1>4, <3>1
    <3> QED
      BY <1>2, <2>1, <2>3, <3>2
  <2>4. CASE c.direction # "unset"
    <3>1. At(f, xs, v, 1) = Printed(f[1 - 1].cache, c.direction)
      BY <2>1, <2>2, <2>4 DEF print_flow_cache_direction, When
    <3>2. At(f, xs, v, 1).out = <<c.direction>>
      BY <1>4, <3>1
    <3> QED
      BY <1>2, <2>1, <2>4, <3>2
  <2> QED
    BY <2>3, <2>4
<1>12. ASSUME c.client_mac = Zero
       PROVE  ValuesIn(q.buf, "client_mac") = ValuesIn(st.buf, "client_mac") \cup {client_mac(c)}
  <2>1. At(f, xs, v, 6) = print_direction_based_client_mac(f[6 - 1].cache)
        /\ xs[6].name = "client_mac"
    BY PostTable, Dispatch DEF At, xs
  <2>2. f[6 - 1].cache["client_mac"] = c["client_mac"]
    <3>1. 6 - 1 \in 0..15 /\ 6 - 1 < 6
      OBVIOUS
    <3> QED
      BY <1>1, <3>1, PostCaches DEF xs, c
  <2>3. client_mac(f[6 - 1].cache) = client_mac(c)
    BY <1>3
  <2>4. At(f, xs, v, 6) = Printed([f[6 - 1].cache EXCEPT !.client_mac = client_mac(c)], client_mac(c))
    BY <1>12, <2>1, <2>2, <2>3 DEF print_direction_based_client_mac
  <2>5. At(f, xs, v, 6).out = <<client_mac(c)>>
    BY <1>4, <2>4
  <2> QED
    BY <1>2, <2>1, <2>5
<1> QED
  BY <1>5, <1>6, <1>7, <1>8, <1>9, <1>10, <1>11, <1>12 DEF q, c, xs

-----------------------------------------------------------------------------
(* A normalized record is told from one point of view.                     *)

LEMMA InitVInv == Init => VInv
<1> SUFFICES ASSUME Init PROVE VInv
  OBVIOUS
<1>1. fields = {} /\ cache = NoCache /\ buf = <<Open>> /\ pc = "begin"
  BY DEF Init
<1>2. FieldsOnce
  BY <1>1 DEF FieldsOnce
<1>3. \A m : m \notin Braces => ValuesIn(buf, m) = {}
  <2>1. DOMAIN <<Open>> = {1} /\ <<Open>>[1] = Open
    OBVIOUS
  <2> QED
    BY <1>1, <2>1, Tokens DEF ValuesIn
<1>4. /\ cache["client"] = NoAddr /\ cache["client_mac"] = Zero /\ cache["direction"] = "unset"
      /\ cache["src"] = NoAddr /\ cache["dst"] = NoAddr
      /\ cache["src_port"] = Zero /\ cache["dst_port"] = Zero
      /\ cache["input"] = Zero /\ cache["output"] = Zero
      /\ cache["src_mac"] = Zero /\ cache["dst_mac"] = Zero /\ cache["post_dst_mac"] = Zero
  BY <1>1 DEF NoCache
<1>5. Silent
  BY <1>3, <1>4, SpecialNames DEF Silent
<1>6. HeldEnds
  BY <1>1, <1>4 DEF HeldEnds, Held, HeldDirection
<1> QED
  BY <1>1, <1>2, <1>5, <1>6 DEF VInv

\* Steps that leave the fields and the cache alone, and print under other names.
LEMMA QuietVInv ==
  ASSUME FieldsOnce, Silent, HeldEnds, fields' = fields, rest' = rest, cfg' = cfg,
         cache' = cache,
         \A m \in Special \cup {"lan_ip", "client_mac"} : ValuesIn(buf', m) = ValuesIn(buf, m)
  PROVE  (FieldsOnce /\ Silent /\ HeldEnds)'
<1>0. \A k : Given(k)' = Given(k)
  BY DEF Given
<1>1. FieldsOnce'
  BY DEF FieldsOnce
<1>2. Silent'
  BY <1>0 DEF Silent
<1>3. \A ks, e, z : Held(ks, e, z) => Held(ks, e, z)'
  BY DEF Held
<1>4. HeldDirection => HeldDirection'
  BY DEF HeldDirection, Turned
<1>5. OneAddressEach' = OneAddressEach
  BY <1>0 DEF OneAddressEach
<1>6. HeldEnds'
  BY <1>3, <1>4, <1>5 DEF HeldEnds
<1> QED
  BY <1>1, <1>2, <1>6

LEMMA BeginVInv == RInv /\ VInv /\ RecordBegin => VInv'
<1> SUFFICES ASSUME RInv, VInv, RecordBegin PROVE VInv'
  OBVIOUS
<1> DEFINE q == printNetflowRecordWithTemplate(Now, Header, "n")
<1>1. /\ buf' = q.buf /\ cache' = cache /\ cfg' = cfg /\ rest' = rest /\ fields' = fields
      /\ pc' = "fields" /\ pc = "begin"
  BY DEF RecordBegin, Now
<1>2. cfg \in Configurations /\ Now \in States /\ Now.buf = buf
  BY <1>1 DEF RInv, Broken, Now
<1>3. After(Now, q, {"number"}, NamesOf(Header))
  BY <1>2, NumbersKeepCache
<1> HIDE DEF q
<1>4. \A m \in Special \cup {"lan_ip", "client_mac"} : m \notin NamesOf(Header)
  BY NumberLists DEF Special
<1>5. \A m \in Special \cup {"lan_ip", "client_mac"} : ValuesIn(buf', m) = ValuesIn(buf, m)
  BY <1>1, <1>2, <1>3, <1>4, SpecialNames DEF After
<1>6. FieldsOnce'
  BY <1>1 DEF VInv, FieldsOnce
<1>7. cfg.normalize => (Silent /\ HeldEnds)'
  BY <1>1, <1>5, QuietVInv DEF VInv
<1> QED
  BY <1>1, <1>6, <1>7 DEF VInv

LEMMA RecordFieldVInv == RInv /\ VInv /\ RecordField => VInv'
<1> SUFFICES ASSUME RInv, VInv, RecordField PROVE VInv'
  OBVIOUS
<1>0. PICK k \in rest : \E v \in Vals[k] :
        LET st == printNetflowRecordWithTemplate(Now, ver9_templates[k], v)
        IN  /\ buf' = st.buf /\ cache' = st.cache /\ rest' = rest \ {k}
            /\ fields' = fields \cup {<<k, v>>}
  BY DEF RecordField, Now
<1>1. PICK v \in Vals[k] :
        LET st == printNetflowRecordWithTemplate(Now, ver9_templates[k], v)
        IN  /\ buf' = st.buf /\ cache' = st.cache /\ rest' = rest \ {k}
            /\ fields' = fields \cup {<<k, v>>}
  BY <1>0
<1> DEFINE q == printNetflowRecordWithTemplate(Now, ver9_templates[k], v)
<1>2. cfg' = cfg /\ pc' = "fields" /\ pc = "fields"
  BY DEF RecordField
<1>3. cfg \in Configurations /\ rest \subseteq Fields /\ Now \in States
  BY <1>2 DEF RInv, Broken
<1>4. k \in Fields /\ v \in Texts /\ ver9_templates[k] \in Lists
  BY <1>3, TextsGiven DEF Lists
<1>5. q \in States
  BY <1>3, <1>4, ListAfter
<1>6. cfg.normalize => Absorbs(Now, q, k, v)
  BY <1>3, <1>4, FieldAbsorbs
<1>7. buf' = q.buf /\ cache' = q.cache /\ rest' = rest \ {k} /\ fields' = fields \cup {<<k, v>>}
  BY <1>1
<1> HIDE DEF q
<1>8. Now' = q
  BY <1>5, <1>7, StateParts DEF Now
<1> QED
  BY <1>2, <1>3, <1>6, <1>7, <1>8, FieldVInv

LEMMA V5FieldVInv == RInv /\ VInv /\ V5Field => VInv'
<1> SUFFICES ASSUME RInv, VInv, V5Field PROVE VInv'
  OBVIOUS
<1>1. PICK i \in DOMAIN v5TemplateFields :
        /\ v5TemplateFields[i] \in rest
        /\ \E v \in Vals[v5TemplateFields[i]] \ {"bad"} :
             LET st == dissectNetFlowV5Field(Now, v5TemplateFields[i], v)
             IN  /\ buf' = st.buf /\ cache' = st.cache
                 /\ rest' = rest \ {v5TemplateFields[i]}
                 /\ fields' = fields \cup {<<v5TemplateFields[i], v>>}
  BY DEF V5Field, Now
<1> DEFINE k == v5TemplateFields[i]
<1>2. PICK v \in Vals[k] :
        LET st == dissectNetFlowV5Field(Now, k, v)
        IN  /\ buf' = st.buf /\ cache' = st.cache /\ rest' = rest \ {k}
            /\ fields' = fields \cup {<<k, v>>}
  BY <1>1
<1> DEFINE q == dissectNetFlowV5Field(Now, k, v)
<1>3. cfg' = cfg /\ pc' = "fields" /\ pc = "fields"
  BY DEF V5Field
<1>4. cfg \in Configurations /\ rest \subseteq Fields /\ Now \in States
  BY <1>3 DEF RInv, Broken
<1>5. k \in Fields /\ v \in Texts /\ k \in rest
  BY <1>1, <1>4, TextsGiven
<1>6. q \in States
  BY <1>4, <1>5, V5After
<1>7. cfg.normalize => Absorbs(Now, q, k, v)
  BY <1>4, V5Absorbs
<1>8. buf' = q.buf /\ cache' = q.cache /\ rest' = rest \ {k} /\ fields' = fields \cup {<<k, v>>}
  BY <1>2
<1> HIDE DEF q
<1>9. Now' = q
  BY <1>6, <1>8, StateParts DEF Now
<1> HIDE DEF k
<1> QED
  BY <1>3, <1>4, <1>5, <1>7, <1>8, <1>9, FieldVInv DEF k

\* The probe's word, as the cache holds it.
LEMMA ToldDirection ==
  ASSUME FieldsOnce, HeldDirection
  PROVE  LET told == Said({"DIRECTION"}, "none")
         IN  cache["direction"] = IF told \in {"0", "1"} THEN Turned(told) ELSE "unset"
<1> DEFINE told == Said({"DIRECTION"}, "none")
<1>1. CASE \E k \in {"DIRECTION"} : Given(k)
  <2>1. PICK g \in fields : g[1] \in {"DIRECTION"} /\ g[2] # "bad"
    BY <1>1 DEF Given
  <2> DEFINE h == CHOOSE f \in fields : f[1] \in {"DIRECTION"} /\ f[2] # "bad"
  <2>2. h \in fields /\ h[1] = "DIRECTION" /\ h[2] # "bad"
    BY <2>1
  <2>3. told = h[2]
    BY <1>1 DEF Said
  <2> HIDE DEF h, told
  <2>4. \A f \in fields : f[1] = "DIRECTION" => f = h
    BY <2>2 DEF FieldsOnce
  <2>5. ASSUME told \in {"0", "1"} PROVE cache["direction"] = Turned(told)
    BY <2>2, <2>3, <2>5 DEF HeldDirection
  <2>6. ASSUME told \notin {"0", "1"} PROVE cache["direction"] = "unset"
    <3>1. \A f \in fields : f[1] = "DIRECTION" => f[2] \notin {"0", "1"}
      BY <2>3, <2>4, <2>6
    <3> QED
      BY <2>6, <3>1 DEF HeldDirection
  <2> QED
    BY <2>5, <2>6 DEF told
<1>2. CASE ~\E k \in {"DIRECTION"} : Given(k)
  <2>1. told = "none"
    BY <1>2 DEF Said
  <2>2. \A f \in fields : f[1] = "DIRECTION" => f[2] = "bad"
    BY <1>2 DEF Given
  <2>3. cache["direction"] = "unset"
    BY <2>2 DEF HeldDirection
  <2> HIDE DEF told
  <2>4. told \notin {"0", "1"}
    BY <2>1
  <2> QED
    BY <2>3, <2>4 DEF told
<1> QED
  BY <1>1, <1>2

\* guessDirection finds the direction that the record as a whole means.
LEMMA GuessIsDirection ==
  ASSUME cfg \in Configurations, cache \in Caches, FieldsOnce, HeldEnds, OneAddressEach
  PROVE  guessDirection(cache)["direction"] = DirectionOf
<1> DEFINE src == Said({"IPV4_SRC_ADDR", "IPV6_SRC_ADDR"}, NoAddr)
           dst == Said({"IPV4_DST_ADDR", "IPV6_DST_ADDR"}, NoAddr)
           told == Said({"DIRECTION"}, "none")
           known == NoAddr \notin {src, dst} /\ {src, dst} \cap Home # {}
           word == IF (told = "1") = cfg.wan_side THEN "upstream" ELSE "downstream"
           guess == ip_direction(cache.src \in Home, cache.dst \in Home)
<1>1. src = cache.src /\ dst = cache.dst
  BY SaidHeld DEF HeldEnds
<1>2. cache.direction = IF told \in {"0", "1"} THEN Turned(told) ELSE "unset"
  BY ToldDirection DEF HeldEnds
<1>3. told \in {"0", "1"} => Turned(told) = word
  <2> HIDE DEF told
  <2>1. cfg.wan_side \in BOOLEAN
    BY DEF Configurations
  <2> QED
    BY <2>1 DEF Turned
<1>4. DirectionOf = CASE known /\ {src, dst} \subseteq Home -> "internal"
                      [] known /\ dst \notin Home -> "upstream"
                      [] known /\ src \notin Home -> "downstream"
                      [] ~known /\ told \in {"0", "1"} -> word
                      [] OTHER -> "unset"
  BY DEF DirectionOf
<1>5. "direction" \in DOMAIN cache
  BY SetsTable DEF Caches
<1>6. guessDirection(cache) = IF cache.src = NoAddr \/ cache.dst = NoAddr \/ guess = "unset"
                              THEN cache ELSE [cache EXCEPT !.direction = guess]
  BY DEF guessDirection
<1> HIDE DEF src, dst, told, word, guess
<1>7. CASE known
  <2>0. cache.src # NoAddr /\ cache.dst # NoAddr /\ (cache.src \in Home \/ cache.dst \in Home)
    BY <1>1, <1>7
  <2>1. CASE cache.src \in Home /\ cache.dst \in Home
    <3>1. guess = "internal"
      BY <2>1 DEF guess, ip_direction
    <3>2. DirectionOf = "internal"
      BY <1>1, <1>4, <1>7, <2>1
    <3>3. guessDirection(cache) = [cache EXCEPT !.direction = "internal"]
      BY <1>6, <2>0, <3>1
    <3> QED
      BY <1>5, <3>2, <3>3
  <2>2. CASE cache.src \in Home /\ cache.dst \notin Home
    <3>1. guess = "upstream"
      BY <2>2 DEF guess, ip_direction
    <3>2. DirectionOf = "upstream"
      BY <1>1, <1>4, <1>7, <2>2
    <3>3. guessDirection(cache) = [cache EXCEPT !.direction = "upstream"]
      BY <1>6, <2>0, <3>1
    <3> QED
      BY <1>5, <3>2, <3>3
  <2>3. CASE cache.src \notin Home /\ cache.dst \in Home
    <3>1. guess = "downstream"
      BY <2>3 DEF guess, ip_direction
    <3>2. DirectionOf = "downstream"
      BY <1>1, <1>4, <1>7, <2>3
    <3>3. guessDirection(cache) = [cache EXCEPT !.direction = "downstream"]
      BY <1>6, <2>0, <3>1
    <3> QED
      BY <1>5, <3>2, <3>3
  <2> QED
    BY <2>0, <2>1, <2>2, <2>3
<1>8. CASE ~known
  <2>1. cache.src = NoAddr \/ cache.dst = NoAddr \/ guess = "unset"
    <3>1. SUFFICES ASSUME cache.src # NoAddr, cache.dst # NoAddr PROVE guess = "unset"
      OBVIOUS
    <3>2. cache.src \notin Home /\ cache.dst \notin Home
      BY <1>1, <1>8, <3>1
    <3> QED
      BY <3>2 DEF guess, ip_direction
  <2>2. guessDirection(cache) = cache
    BY <1>6, <2>1
  <2>3. CASE told \in {"0", "1"}
    <3>1. DirectionOf = word
      BY <1>4, <1>8, <2>3
    <3> QED
      BY <1>2, <1>3, <2>2, <2>3, <3>1
  <2>4. CASE told \notin {"0", "1"}
    <3>1. DirectionOf = "unset"
      BY <1>4, <1>8, <2>4
    <3> QED
      BY <1>2, <2>2, <2>4, <3>1
  <2> QED
    BY <2>3, <2>4
<1> QED
  BY <1>7, <1>8

\* The hosts are printed under names of their own, and store nothing.
LEMMA HostsQuiet ==
  ASSUME cfg \in Configurations, NEW st \in States, NEW v \in Texts
  PROVE  LET q == printNetflowRecordWithTemplate(st, Hosts, v)
         IN  /\ q \in States /\ q.cache = st.cache
             /\ \A m \in Special \cup {"lan_ip", "client_mac"} :
                  ValuesIn(q.buf, m) = ValuesIn(st.buf, m)
<1> DEFINE q == printNetflowRecordWithTemplate(st, Hosts, v)
<1>0. Hosts \in Lists
  BY DEF Lists
<1>1. q \in States /\ After(st, q, FnsOf(Hosts), NamesOf(Hosts))
  BY <1>0, ListAfter
<1>2. /\ FnsOf(Hosts) = {"host", "host_l2", "referer", "referer_l2"}
      /\ NamesOf(Hosts) = {"host", "host_l2_domain", "referer", "referer_l2"}
  BY ListSets4 DEF Hosts
<1>3. \A fn \in FnsOf(Hosts) : \A e \in Ends : Sets(fn) # e
  <2>1. {"host", "host_l2", "referer", "referer_l2"} \subseteq Showing
    BY DEF Showing
  <2> QED
    BY <1>2, <2>1, SetsTable DEF Ends
<1>4. \A m \in Special \cup {"lan_ip", "client_mac"} : m \notin NamesOf(Hosts)
  BY <1>2 DEF Special
<1> HIDE DEF q
<1>5. q.cache = st.cache
  BY <1>1, <1>3, SameCache, StateParts DEF After
<1>6. \A m \in Special \cup {"lan_ip", "client_mac"} : ValuesIn(q.buf, m) = ValuesIn(st.buf, m)
  BY <1>1, <1>4, SpecialNames DEF After
<1> QED
  BY <1>1, <1>5, <1>6 DEF q

LEMMA EndVInv == RInv /\ VInv /\ RecordEnd => VInv'
<1> SUFFICES ASSUME RInv, VInv, RecordEnd PROVE VInv'
  OBVIOUS
<1> DEFINE hosts == printNetflowRecordWithTemplate(Now, Hosts, "")
           guessed == [hosts EXCEPT !.cache = guessDirection(hosts.cache)]
           ends == printNetflowRecordWithTemplate(guessed, post_templates, "")
<1>1. /\ cfg.normalize => buf' = print_sensor_enrichment(ends.buf)
      /\ cfg' = cfg /\ rest' = rest /\ fields' = fields /\ pc' = "split" /\ pc = "fields"
  BY DEF RecordEnd, Now
<1>2. FieldsOnce /\ FieldsOnce'
  BY <1>1 DEF VInv, FieldsOnce
<1>3. /\ \A k : Given(k)' = Given(k)
      /\ \A ks, z : Said(ks, z)' = Said(ks, z)
      /\ OneAddressEach' = OneAddressEach
      /\ DirectionOf' = DirectionOf
  <2>1. fields' = fields /\ cfg' = cfg
    BY <1>1
  <2> QED
    BY <2>1 DEF Given, Said, OneAddressEach, DirectionOf
<1>4. ASSUME cfg.normalize, ~Given("STA_IPV4_ADDRESS"), OneAddressEach
      PROVE  SeenFromLan'
  <2>0. /\ cfg \in Configurations /\ Now \in States /\ Len(Now.buf) % 2 = 0 /\ "" \in Texts
        /\ Now.cache = cache /\ Now.buf = buf /\ Silent /\ HeldEnds
    BY <1>1, <1>4, TextsGiven DEF RInv, Broken, VInv, Now
  <2>1. /\ hosts \in States /\ hosts.cache = cache
        /\ \A m \in Special \cup {"lan_ip", "client_mac"} : ValuesIn(hosts.buf, m) = ValuesIn(buf, m)
    BY <2>0, HostsQuiet
  <2>2. Len(hosts.buf) % 2 = 0
    <3>1. Hosts \in Lists
      BY DEF Lists
    <3> QED
      BY <2>0, <3>1, ListAfter DEF After
  <2> HIDE DEF hosts
  <2>3. /\ guessed \in States /\ guessed.buf = hosts.buf /\ guessed.cache = guessDirection(cache)
        /\ \A e \in Ends \ {"direction"} : guessed.cache[e] = cache[e]
    BY <2>1, GuessKeeps
  <2>4. guessed.cache["direction"] = DirectionOf
    BY <1>2, <1>4, <2>0, <2>3, GuessIsDirection, StateParts
  <2> HIDE DEF guessed
  <2>5. ends \in States /\ Len(ends.buf) % 2 = 0
    <3>1. post_templates \in Lists
      BY PostTable
    <3>2. ends \in States /\ After(guessed, ends, FnsOf(post_templates), NamesOf(post_templates))
      BY <2>0, <2>3, <3>1, ListAfter
    <3> QED
      BY <2>2, <2>3, <3>2 DEF After
  <2> DEFINE c == guessed.cache
  <2>6. /\ ValuesIn(ends.buf, "direction") =
             ValuesIn(guessed.buf, "direction") \cup ({c.direction} \ {"unset"})
        /\ ValuesIn(ends.buf, "lan_interface") =
             ValuesIn(guessed.buf, "lan_interface") \cup {client_interface(c)}
        /\ ValuesIn(ends.buf, "wan_interface") =
             ValuesIn(guessed.buf, "wan_interface") \cup {target_interface(c)}
        /\ c.client_mac = Zero =>
             ValuesIn(ends.buf, "client_mac") =
               ValuesIn(guessed.buf, "client_mac") \cup {client_mac(c)}
        /\ ValuesIn(ends.buf, "wan_ip") = ValuesIn(guessed.buf, "wan_ip") \cup {target_ip(c)}
        /\ ValuesIn(ends.buf, "lan_ip") = ValuesIn(guessed.buf, "lan_ip") \cup {client_ip(c)}
        /\ ValuesIn(ends.buf, "wan_l4_port") =
             ValuesIn(guessed.buf, "wan_l4_port") \cup {target_port(c)}
        /\ ValuesIn(ends.buf, "lan_l4_port") =
             ValuesIn(guessed.buf, "lan_l4_port") \cup {client_port(c)}
    BY <2>0, <2>3, PostShown
  <2> HIDE DEF ends
  <2>7. \A m \in Special \cup {"lan_ip", "client_mac"} : ValuesIn(buf', m) = ValuesIn(ends.buf, m)
    <3>1. \A m \in Special \cup {"lan_ip", "client_mac"} : m # "sensor_name"
      BY DEF Special
    <3>2. buf' = print_sensor_enrichment(ends.buf)
      BY <1>1, <1>4
    <3> QED
      BY <2>0, <2>5, <3>1, <3>2, EnrichmentKeeps, SpecialNames
  <2>8. /\ \A m \in Special \cup {"lan_ip"} : ValuesIn(guessed.buf, m) = {}
        /\ ~Given("STA_MAC_ADDRESS") => ValuesIn(guessed.buf, "client_mac") = {}
    BY <1>4, <2>0, <2>1, <2>3 DEF Silent
  <2>9. /\ {"direction", "lan_interface", "wan_interface", "wan_ip", "wan_l4_port",
            "lan_l4_port"} \subseteq Special
    BY DEF Special
  <2>10. /\ Values("direction")' = {c.direction} \ {"unset"}
         /\ Values("lan_interface")' = {client_interface(c)}
         /\ Values("wan_interface")' = {target_interface(c)}
         /\ Values("wan_ip")' = {target_ip(c)} /\ Values("lan_ip")' = {client_ip(c)}
         /\ Values("wan_l4_port")' = {target_port(c)}
         /\ Values("lan_l4_port")' = {client_port(c)}
         /\ ~Given("STA_MAC_ADDRESS") /\ c.client_mac = Zero =>
              Values("client_mac")' = {client_mac(c)}
    <3>1. \A m : Values(m)' = ValuesIn(buf', m)
      BY DEF Values, ValuesIn
    <3> HIDE DEF c
    <3> QED
      BY <2>6, <2>7, <2>8, <2>9, <3>1
  <2>11. /\ c.direction = DirectionOf
         /\ c.client = NoAddr
         /\ ~Given("STA_MAC_ADDRESS") => c.client_mac = Zero
         /\ c.src = Said({"IPV4_SRC_ADDR", "IPV6_SRC_ADDR"}, NoAddr)
         /\ c.dst = Said({"IPV4_DST_ADDR", "IPV6_DST_ADDR"}, NoAddr)
         /\ c.src_port = Said({"L4_SRC_PORT"}, Zero)
         /\ c.dst_port = Said({"L4_DST_PORT"}, Zero)
         /\ c.input = Said({"INPUT_SNMP"}, Zero)
         /\ c.output = Said({"OUTPUT_SNMP"}, Zero)
         /\ c.src_mac = Said({"IN_SRC_MAC"}, Zero)
         /\ c.dst_mac = Said({"IN_DST_MAC"}, Zero)
         /\ c.post_dst_mac = Said({"OUT_DST_MAC"}, Zero)
    <3>1. /\ c["client"] = cache["client"] /\ c["client_mac"] = cache["client_mac"]
          /\ c["src"] = cache["src"] /\ c["dst"] = cache["dst"]
          /\ c["src_port"] = cache["src_port"] /\ c["dst_port"] = cache["dst_port"]
          /\ c["input"] = cache["input"] /\ c["output"] = cache["output"]
          /\ c["src_mac"] = cache["src_mac"] /\ c["dst_mac"] = cache["dst_mac"]
          /\ c["post_dst_mac"] = cache["post_dst_mac"]
      BY <2>3 DEF Ends
    <3>2. /\ cache["src"] = Said({"IPV4_SRC_ADDR", "IPV6_SRC_ADDR"}, NoAddr)
          /\ cache["dst"] = Said({"IPV4_DST_ADDR", "IPV6_DST_ADDR"}, NoAddr)
      <4>1. /\ Held({"IPV4_SRC_ADDR", "IPV6_SRC_ADDR"}, "src", NoAddr)
            /\ Held({"IPV4_DST_ADDR", "IPV6_DST_ADDR"}, "dst", NoAddr)
        BY <1>4, <2>0 DEF HeldEnds
      <4>2. cache["src"] = Said({"IPV4_SRC_ADDR", "IPV6_SRC_ADDR"}, NoAddr)
        BY <4>1, SaidHeld
      <4>3. cache["dst"] = Said({"IPV4_DST_ADDR", "IPV6_DST_ADDR"}, NoAddr)
        BY <4>1, SaidHeld
      <4> QED
        BY <4>2, <4>3
    <3>3. /\ cache["src_port"] = Said({"L4_SRC_PORT"}, Zero)
          /\ cache["dst_port"] = Said({"L4_DST_PORT"}, Zero)
          /\ cache["input"] = Said({"INPUT_SNMP"}, Zero)
          /\ cache["output"] = Said({"OUTPUT_SNMP"}, Zero)
      BY <2>0, SaidHeld DEF HeldEnds
    <3>4. /\ cache["src_mac"] = Said({"IN_SRC_MAC"}, Zero)
          /\ cache["dst_mac"] = Said({"IN_DST_MAC"}, Zero)
          /\ cache["post_dst_mac"] = Said({"OUT_DST_MAC"}, Zero)
      BY <2>0, SaidHeld DEF HeldEnds
    <3>5. cache["client"] = NoAddr /\ (~Given("STA_MAC_ADDRESS") => cache["client_mac"] = Zero)
      BY <1>4, <2>0 DEF Silent
    <3> QED
      BY <2>4, <3>1, <3>2, <3>3, <3>4, <3>5
  <2> HIDE DEF c
  <2> DEFINE down == DirectionOf = "downstream"
  <2>12. /\ client_ip(c) = IF down THEN c.dst ELSE c.src
         /\ target_ip(c) = IF down THEN c.src ELSE c.dst
         /\ client_port(c) = IF down THEN c.dst_port ELSE c.src_port
         /\ target_port(c) = IF down THEN c.src_port ELSE c.dst_port
         /\ client_interface(c) = IF down THEN c.output ELSE c.input
         /\ target_interface(c) = IF down THEN c.input ELSE c.output
         /\ client_mac(c) = IF down THEN (IF cfg.span THEN c.dst_mac ELSE c.post_dst_mac)
                            ELSE c.src_mac
    <3>1. client_end(c) = IF down THEN "dst" ELSE "src"
      BY <2>11 DEF client_end, GET_CLIENT_ENDPOINT
    <3>2. /\ client_ip(c) = IF down THEN c.dst ELSE c.src
          /\ target_ip(c) = IF down THEN c.src ELSE c.dst
      BY <3>1 DEF client_ip, target_ip
    <3>3. /\ client_port(c) = IF down THEN c.dst_port ELSE c.src_port
          /\ target_port(c) = IF down THEN c.src_port ELSE c.dst_port
      BY <2>11 DEF client_port, target_port, GET_CLIENT_ENDPOINT
    <3>4. /\ client_interface(c) = IF down THEN c.output ELSE c.input
          /\ target_interface(c) = IF down THEN c.input ELSE c.output
      BY <2>11 DEF client_interface, target_interface, GET_CLIENT_ENDPOINT
    <3>5. client_mac(c) = IF down THEN (IF cfg.span THEN c.dst_mac ELSE c.post_dst_mac)
                          ELSE c.src_mac
      BY <2>11 DEF client_mac, GET_CLIENT_ENDPOINT
    <3> QED
      BY <3>2, <3>3, <3>4, <3>5
  <2>13. CASE down
    BY <1>1, <1>3, <2>10, <2>11, <2>12, <2>13 DEF SeenFromLan
  <2>14. CASE ~down
    BY <1>1, <1>3, <2>10, <2>11, <2>12, <2>14 DEF SeenFromLan
  <2> QED
    BY <2>13, <2>14
<1> QED
  BY <1>1, <1>2, <1>3, <1>4 DEF VInv

LEMMA SendVInv == RInv /\ VInv /\ Send => VInv'
<1> SUFFICES ASSUME RInv, VInv, Send PROVE VInv'
  OBVIOUS
<1> DEFINE xs == IF cfg.separate THEN Separated ELSE Whole
           q == printNetflowRecordWithTemplate(Now, xs, "n")
<1>1. /\ buf' = q.buf \o <<Close>> /\ cache' = cache /\ cfg' = cfg /\ rest' = rest
      /\ fields' = fields /\ pc' = "sent" /\ pc = "split"
  BY DEF Send, Now
<1>2. Now \in Loose /\ Now.buf = buf
  BY <1>1 DEF RInv, Broken, Now, States, Loose
<1>3. xs \in {Header, Whole, Separated}
  OBVIOUS
<1> HIDE DEF xs
<1>4. /\ q \in Loose
      /\ \A m : m \notin Braces \cup NamesOf(xs) => ValuesIn(q.buf, m) = ValuesIn(buf, m)
  BY <1>2, <1>3, NumbersAdd
<1>5. q.buf \in Seq(Tok)
  BY <1>4 DEF Loose
<1> HIDE DEF q
<1>6. \A m \in Special \cup {"lan_ip", "client_mac"} : m \notin NamesOf(xs)
  BY <1>3, NumberLists DEF Special
<1>7. \A m \in Special \cup {"lan_ip", "client_mac"} : ValuesIn(q.buf, m) = ValuesIn(buf, m)
  BY <1>4, <1>6, SpecialNames
<1>8. \A m \in Special \cup {"lan_ip", "client_mac"} : ValuesIn(buf', m) = ValuesIn(q.buf, m)
  BY <1>1, <1>5, ClosingValues, SpecialNames
<1>9. \A m \in Special \cup {"lan_ip", "client_mac"} : Values(m)' = Values(m)
  <2>1. \A m : Values(m)' = ValuesIn(buf', m) /\ Values(m) = ValuesIn(buf, m)
    BY DEF Values, ValuesIn
  <2> QED
    BY <1>7, <1>8, <2>1
<1>10. /\ \A k : Given(k)' = Given(k)
       /\ \A ks, z : Said(ks, z)' = Said(ks, z)
       /\ OneAddressEach' = OneAddressEach
       /\ DirectionOf' = DirectionOf
  BY <1>1 DEF Given, Said, OneAddressEach, DirectionOf
<1>11. SeenFromLan => SeenFromLan'
  <2>1. {"direction", "lan_interface", "wan_interface", "wan_ip", "wan_l4_port",
         "lan_l4_port"} \subseteq Special
    BY DEF Special
  <2>2. /\ Values("direction")' = Values("direction") /\ Values("lan_ip")' = Values("lan_ip")
        /\ Values("wan_ip")' = Values("wan_ip") /\ Values("client_mac")' = Values("client_mac")
        /\ Values("lan_l4_port")' = Values("lan_l4_port")
        /\ Values("wan_l4_port")' = Values("wan_l4_port")
        /\ Values("lan_interface")' = Values("lan_interface")
        /\ Values("wan_interface")' = Values("wan_interface")
    BY <1>9, <2>1
  <2> QED
    BY <1>1, <1>10, <2>2 DEF SeenFromLan
<1>12. FieldsOnce'
  BY <1>1 DEF VInv, FieldsOnce
<1> QED
  BY <1>1, <1>10, <1>11, <1>12 DEF VInv

LEMMA StutterVInv == VInv /\ UNCHANGED vars => VInv'
<1> SUFFICES ASSUME VInv, UNCHANGED vars PROVE VInv'
  OBVIOUS
<1>1. cfg' = cfg /\ rest' = rest /\ fields' = fields /\ cache' = cache /\ buf' = buf /\ pc' = pc
  BY DEF vars
<1>2. /\ \A k : Given(k)' = Given(k)
      /\ \A ks, z : Said(ks, z)' = Said(ks, z)
      /\ \A m : Values(m)' = Values(m)
      /\ OneAddressEach' = OneAddressEach
      /\ DirectionOf' = DirectionOf
  BY <1>1 DEF Given, Said, Values, OneAddressEach, DirectionOf
<1>3. SeenFromLan' = SeenFromLan
  BY <1>1, <1>2 DEF SeenFromLan
<1>4. FieldsOnce'
  BY <1>1 DEF VInv, FieldsOnce
<1>5. Silent /\ HeldEnds => (Silent /\ HeldEnds)'
  BY <1>1, QuietVInv DEF VInv
<1> QED
  BY <1>1, <1>2, <1>3, <1>4, <1>5 DEF VInv

(***************************************************************************)
(* A normalized record is told from one point of view, in whatever order   *)
(* its fields came: what print_lan_addr, print_wan_addr and the other      *)
(* normalized elements print are the two ends of the flow as the record    *)
(* gave them, chosen by the direction that the record as a whole means     *)
(* (guessDirection).                                                       *)
(***************************************************************************)
THEOREM RecordViewpoint == Spec => []Viewpoint
<1>1. RInv /\ VInv /\ [Next]_vars => VInv'
  BY BeginVInv, RecordFieldVInv, V5FieldVInv, EndVInv, SendVInv, StutterVInv DEF Next
<1>2. VInv => Viewpoint
  BY DEF VInv, Viewpoint
<1> QED
  BY RecordInvariant, InitVInv, <1>1, <1>2, PTL DEF Spec

=============================================================================
