----------------------------- MODULE SensorsDb -----------------------------
(***************************************************************************)
(* The sensors database: reading the JSON configuration (rb_sensor.c), the *)
(* hash maps that hold it (dynamic-sensors, in Rust), the look-up of a     *)
(* sensor or of a home network by address, the templates that workers      *)
(* store in it and their release when the database is deleted.             *)
(*                                                                         *)
(* An address is a number of W bits, a netmask the number of its leading   *)
(* ones.  Six stands for an IPv6 network: it never equals an IPv4 one.     *)
(* The text of the file is chosen entry by entry, when the parser reads    *)
(* it; file remembers what was chosen.                                     *)
(***************************************************************************)
EXTENDS Integers, Sequences, FiniteSets, Functions

CONSTANTS W,          \* bits of an address
          Masks,      \* prefix lengths in use
          Six,        \* a network that is not IPv4
          Default,    \* the observation id written "default"
          OidKeys,    \* numbers used as observation ids in the file
          OidModulus, \* 2^32: observation ids are kept in 32 bits
          Tids,       \* template ids
          Names,      \* applications, selectors and interfaces that probes name
          NumWorkers, \* --num-threads
          MaxSensors, \* bound: networks in the file
          MaxOids,    \* bound: observation ids in the file
          MaxNets,    \* bound: home networks in the file
          MaxTmpls    \* bound: templates saved

Addresses == 0..(2^W - 1)
Networks == [net : Addresses, mask : Masks] \cup {[net |-> Six, mask |-> W]}
Nothing == [none |-> TRUE]
Ids == 0..(OidModulus - 1)

\* The third conjunct is a fact of arithmetic that provers do not know.
ASSUME SensorsAssumption ==
  /\ W \in Nat \ {0} /\ Masks \subseteq 0..W
  /\ \A n \in 0..W : 2^n \in Nat \ {0}
  /\ Six \notin Int /\ Default \notin Nat /\ Six # Default
  /\ OidKeys \subseteq Nat /\ OidModulus \in Nat \ {0}
  /\ NumWorkers \in Nat \ {0}
  /\ {MaxSensors, MaxOids, MaxNets, MaxTmpls} \subseteq Nat

VARIABLES
  pc,         \* where read_rb_config or delete_rb_sensors_db is
  db,         \* SensorsDB::database, by masked network
  worker_idx, \* read_sensors_config_networks
  sensor,     \* the sensor that parse_sensor is building
  oid,        \* the observation id it is building
  author,     \* templates and names stored so far: the id of the domain each came from
  frees,      \* how often the C code freed each of them
  todo,       \* observation ids that release has still to visit
  file,       \* history: the entries of the configuration, as written
  nets        \* history: home networks read so far

vars == <<pc, db, worker_idx, sensor, oid, author, frees,
          todo, file, nets>>

-----------------------------------------------------------------------------
(* Addresses.                                                              *)

\* apply_netmask, for two IPv4 arguments.
apply_netmask(ip, mask) == ip - (ip % 2^(W - mask))

is_ipv4(n) == n.net # Six

\* Sensor::new and Network::new keep the masked address.
masked(n) == IF is_ipv4(n) THEN [n EXCEPT !.net = apply_netmask(@, n.mask)] ELSE n

\* What a written address may be parsed to.  A text that is no address is
\* reported but not refused: the network then is whatever the memory held.  A
\* wrong netmask is refused.
parse_address(text) ==
  CASE text.kind = "wrong netmask" -> {}
    [] text.kind = "wrong address" -> Networks
    [] text.kind = "address" -> {text.is}
Texts == [kind : {"address"}, is : Networks]
           \cup [kind : {"wrong netmask", "wrong address"}]

\* Slips, for the mutation runs: only whole addresses match; any netmask of any
\* network finds any other.
hits_exact(m, ip) == {k \in DOMAIN m : k = ip}
hits_shorter(m, ip) ==
  {k \in DOMAIN m : \E j \in DOMAIN m : is_ipv4(m[j]) /\ m[j].mask > 0
                      /\ apply_netmask(ip, m[j].mask - 1) = k}

\* The search over a hash map m of networks: every entry's netmask is tried,
\* in the order of the map, and the first masked address found in the map wins.
hits(m, ip) ==
  {k \in DOMAIN m : \E j \in DOMAIN m : is_ipv4(m[j])
                      /\ apply_netmask(ip, m[j].mask) = k}

Contains(n, ip) == is_ipv4(n) /\ apply_netmask(ip, n.mask) = n.net

-----------------------------------------------------------------------------
(* Sensors and observation ids.                                            *)

NewOid(id, src) == [id |-> id, src |-> src, networks |-> <<>>,
                    templates |-> <<>>, names |-> <<>>]

\* add_network, add_template and the like: HashMap::insert replaces.
insert(m, k, v) == [x \in DOMAIN m \cup {k} |-> IF x = k THEN v ELSE m[x]]

NewSensor(n) == [net |-> n.net, mask |-> n.mask, worker |-> NumWorkers,
                 default |-> Nothing, oids |-> <<>>]

\* A slip, for the mutation runs: the default goes first.
observation_id_default(s, id) ==
  IF s.default # Nothing THEN Default ELSE IF id \in DOMAIN s.oids THEN id ELSE Default

\* Sensor::get_observation_id: which of its observation ids serves id.
observation_id_for(s, id) ==
  IF id \in DOMAIN s.oids THEN id ELSE Default
oid_of(s, ref) == IF ref = Default THEN s.default ELSE s.oids[ref]

\* A slip, for the mutation runs: the default observation id is not listed.
list_explicit_ids(s) == {<<id, "listed">> : id \in DOMAIN s.oids}

\* Sensor::list_observation_ids: the explicit ids, then the default's own id.
list_observation_ids(s) ==
  {<<id, "listed">> : id \in DOMAIN s.oids}
    \cup (IF s.default # Nothing THEN {<<s.default.id, "default">>} ELSE {})

Init ==
  /\ pc = "load" /\ db = <<>> /\ worker_idx = 0
  /\ sensor = Nothing /\ oid = Nothing
  /\ author = <<>> /\ frees = <<>> /\ todo = {} /\ file = <<>> /\ nets = 0

-----------------------------------------------------------------------------
(* Reading the configuration.                                              *)

\* read_rb_config: an unreadable file or one without sensors_networks leaves
\* the new database empty.
ReadConfig ==
  /\ pc = "load"
  /\ pc' \in {"networks", "run"}
  /\ UNCHANGED <<db, worker_idx, sensor, oid, author, frees,
                 todo, file, nets>>

\* The history of the current entry.
last == Len(file)
oids_read == FoldFunction(LAMBDA e, n : Len(e.ids) + n, 0, file)
write(e) == file' = Append(file, e)
note(f, v) == file' = [file EXCEPT ![last][f] = Append(@, v)]

\* An entry that is not an object, has no observation ids, or whose netmask
\* cannot be parsed is skipped.
NetworkSkipped ==
  /\ pc = "networks" /\ last < MaxSensors
  /\ write([net |-> Nothing, ids |-> <<>>])
  /\ UNCHANGED <<pc, db, worker_idx, sensor, oid, author, frees, todo, nets>>

\* parse_sensor creates the sensor.
NetworkSensor(text) ==
  /\ pc = "networks" /\ last < MaxSensors
  /\ \E n \in parse_address(text) :
       /\ sensor' = NewSensor(masked(n))
       /\ write([net |-> masked(n), ids |-> <<>>])
  /\ pc' = "oids"
  /\ UNCHANGED <<db, worker_idx, oid, author, frees, todo, nets>>

\* An observation id that is neither "default" nor a number is skipped.
OidSkipped ==
  /\ pc = "oids" /\ oids_read < MaxOids
  /\ note("ids", [key |-> Six, good |-> TRUE])
  /\ UNCHANGED <<pc, db, worker_idx, sensor, oid, author, frees, todo, nets>>

\* parse_observation_id failed (a field of the wrong type): the sensor built so
\* far is forgotten.
OidWrong ==
  /\ pc = "oids" /\ oids_read < MaxOids
  /\ note("ids", [key |-> Six, good |-> FALSE])
  /\ sensor' = Nothing /\ pc' = "networks"
  /\ UNCHANGED <<db, worker_idx, oid, author, frees, todo, nets>>

\* parse_observation_id_number: a number beyond 32 bits is reported, but taken.
parse_observation_id_number(key) == IF key = Default THEN 0 ELSE key % OidModulus

OidBegin(key) ==
  /\ pc = "oids" /\ oids_read < MaxOids
  /\ oid' = NewOid(parse_observation_id_number(key), <<last, Len(file[last].ids) + 1>>)
  /\ note("ids", [key |-> key, good |-> TRUE])
  /\ pc' = "home_nets"
  /\ UNCHANGED <<db, worker_idx, sensor, author, frees, todo, nets>>

\* parse_observation_id_home_nets reads them one by one, as long as they are right.
more_home_nets == pc = "home_nets" /\ nets < MaxNets

\* observation_id_add_home_net.
HomeNet(text) ==
  /\ more_home_nets
  /\ nets' = nets + 1
  /\ \E n \in parse_address(text) :
       oid' = [oid EXCEPT !.networks = insert(@, masked(n).net, masked(n))]
  /\ UNCHANGED <<pc, db, worker_idx, sensor, author, frees,
                 todo, file>>

add_observation_id(s, key, o) ==
  IF key = Default THEN [s EXCEPT !.default = o]
                     ELSE [s EXCEPT !.oids = insert(@, o.id, o)]

\* The home networks end, or one is wrong and the rest is not read; the
\* observation id is kept either way, with the attributes written in the file
\* (src says where: what they are matters to the records only).
OidDone ==
  /\ pc = "home_nets"
  /\ sensor' = add_observation_id(sensor, file[last].ids[oid.src[2]].key, oid)
  /\ oid' = Nothing /\ pc' = "oids"
  /\ UNCHANGED <<db, worker_idx, author, frees, todo, file, nets>>

\* The worker of the next sensor.
next_worker(i) == IF i + 1 >= NumWorkers THEN 0 ELSE i + 1

\* A slip, for the mutation runs: the first of two equal networks stays.
SensorDoneKeepsFirst ==
  /\ pc = "oids" /\ file[last].ids # <<>>
  /\ db' = IF sensor.net \in DOMAIN db THEN db
           ELSE insert(db, sensor.net, [sensor EXCEPT !.worker = worker_idx])
  /\ worker_idx' = next_worker(worker_idx)
  /\ sensor' = Nothing /\ pc' = "networks"
  /\ UNCHANGED <<oid, author, frees, todo, file, nets>>

\* read_sensors_config_networks binds the sensor to a worker and adds it.
SensorDone ==
  /\ pc = "oids" /\ file[last].ids # <<>>
  /\ db' = insert(db, sensor.net, [sensor EXCEPT !.worker = worker_idx])
  /\ worker_idx' = next_worker(worker_idx)
  /\ sensor' = Nothing /\ pc' = "networks"
  /\ UNCHANGED <<oid, author, frees, todo, file, nets>>

NetworksEnd ==
  /\ pc = "networks" /\ pc' = "run"
  /\ UNCHANGED <<db, worker_idx, sensor, oid, author, frees,
                 todo, file, nets>>

-----------------------------------------------------------------------------
(* Using the database.                                                     *)

\* What get_sensor may return: a sensor of found or, if miss, nothing; or, if
\* panic, it aborts f2k.  An IPv4 sender meets the netmask of an IPv6 sensor and
\* apply_netmask panics, unless a hit comes first in the order of the map.
get_sensor(ip) ==
  LET six == \E k \in DOMAIN db : ~is_ipv4(db[k])
  IN [found |-> hits(db, ip), miss |-> hits(db, ip) = {} /\ ~six, panic |-> six]

\* network_name and network_ip: ObservationID::get_network skips networks of the
\* other family.
get_network(o, ip) ==
  [found |-> hits(o.networks, ip), miss |-> hits(o.networks, ip) = {}, panic |-> FALSE]

\* Whatever a probe sends is stored with the observation id that serves it.
store(k, id, with(_)) ==
  LET s == db[k]
      ref == observation_id_for(s, id)
  IN /\ pc = "run" /\ Len(author) < MaxTmpls
     /\ oid_of(s, ref) # Nothing
     /\ db' = [db EXCEPT ![k] = IF ref = Default
                  THEN [s EXCEPT !.default = with(@)]
                  ELSE [s EXCEPT !.oids[ref] = with(@)]]
     /\ author' = Append(author, id)
     /\ frees' = Append(frees, 0)
     /\ UNCHANGED <<pc, worker_idx, sensor, oid, todo, file, nets>>

\* save_template: a copy of the template replaces the one the map held, which
\* nobody frees.
SaveTemplate(k, id, t) ==
  store(k, id, LAMBDA o : [o EXCEPT !.templates = insert(@, t, Len(author) + 1)])

\* observation_id_add_application_id, _selector_id and _new_interface: the map
\* owns the name and drops the one it replaces.
AddName(k, id, x) ==
  store(k, id, LAMBDA o : [o EXCEPT !.names = insert(@, x, Len(author) + 1)])

-----------------------------------------------------------------------------
(* delete_rb_sensors_db.                                                   *)

\* free_all_templates lists the sensors and the observation ids of each.
Delete ==
  /\ pc = "run"
  /\ pc' = "release"
  /\ todo' = UNION {{k} \X list_observation_ids(db[k]) : k \in DOMAIN db}
  /\ UNCHANGED <<db, worker_idx, sensor, oid, author, frees, file, nets>>

\* release_observations_id frees what one listed id leads to.
ReleaseOid(e) ==
  LET s == db[e[1]]
      o == oid_of(s, observation_id_for(s, e[2][1]))
  IN /\ pc = "release" /\ e \in todo
     /\ frees' = [p \in DOMAIN frees |->
                    IF p \in Range(o.templates) THEN frees[p] + 1 ELSE frees[p]]
     /\ todo' = todo \ {e}
     /\ UNCHANGED <<pc, db, worker_idx, sensor, oid, author, file, nets>>

\* sensors_db_destroy; what db held stays known to the properties.
Destroy ==
  /\ pc = "release" /\ todo = {}
  /\ pc' = "done"
  /\ UNCHANGED <<db, worker_idx, sensor, oid, author, frees,
                 todo, file, nets>>

Next ==
  \/ ReadConfig \/ NetworkSkipped \/ NetworksEnd
  \/ \E text \in Texts : NetworkSensor(text) \/ HomeNet(text)
  \/ OidSkipped \/ OidWrong \/ \E key \in OidKeys \cup {Default} : OidBegin(key)
  \/ OidDone \/ SensorDone
  \/ \E k \in DOMAIN db, id \in Ids, t \in Tids : SaveTemplate(k, id, t)
  \/ \E k \in DOMAIN db, id \in Ids, x \in Names : AddName(k, id, x)
  \/ Delete \/ (\E e \in todo : ReleaseOid(e)) \/ Destroy

Spec == Init /\ [][Next]_vars

-----------------------------------------------------------------------------
(* Properties.                                                             *)

OidsOf(s) == Range(s.oids) \cup (IF s.default = Nothing THEN {} ELSE {s.default})
TemplatesOf(s) == UNION {Range(o.templates) : o \in OidsOf(s)}

\* The look-ups of a running f2k: the map searched, the address, the results.
Lookups ==
  IF pc # "run" THEN {}
  ELSE {[map |-> db, ip |-> ip, got |-> get_sensor(ip)] : ip \in Addresses}
         \cup UNION {{[map |-> o.networks, ip |-> ip, got |-> get_network(o, ip)] :
                       o \in OidsOf(db[k]), ip \in Addresses} : k \in DOMAIN db}

\* A sender, or an address of a flow, that lies in a configured network is found,
\* whatever the order of the hash map (get_sensor, get_network).
LookupComplete ==
  \A l \in Lookups :
    (\E k \in DOMAIN l.map : Contains(l.map[k], l.ip)) => ~l.got.miss

\* As long as the networks have the same netmask, what is found contains the
\* address.
LookupSound ==
  \A l \in Lookups : \A k \in l.got.found :
    Contains(l.map[k], l.ip) \/ \E m, n \in DOMAIN l.map : l.map[m].mask # l.map[n].mask

\* What the file says, read as a whole: an entry counts if all of it is right.
Good(i) ==
  /\ file[i].net # Nothing /\ file[i].ids # <<>>
  /\ \A j \in DOMAIN file[i].ids : file[i].ids[j].good
LastGood(k) == CHOOSE i \in DOMAIN file :
  /\ Good(i) /\ file[i].net.net = k
  /\ \A j \in DOMAIN file : j > i /\ Good(j) => file[j].net.net # k
Turn(i) == Cardinality({j \in 1..(i - 1) : Good(j)}) % NumWorkers
Numbered(i, id) ==
  {j \in DOMAIN file[i].ids : /\ file[i].ids[j].key \in OidKeys
                              /\ file[i].ids[j].key % OidModulus = id}
IsLast(j, S) == j \in S /\ \A l \in S : l <= j

\* After reading, the database is what the right entries of the file say: a wrong
\* entry takes nothing with it, a network written twice is the later one, each
\* number leads to the last observation id written with it, and workers are
\* handed out in turn to the sensors that were kept.
ConfigMeaning ==
  pc = "run" =>
    /\ DOMAIN db = {file[i].net.net : i \in {j \in DOMAIN file : Good(j)}}
    /\ \A k \in DOMAIN db :
         LET i == LastGood(k)
         IN /\ db[k].mask = file[i].net.mask /\ db[k].worker = Turn(i)
            /\ \A id \in Ids :
                 /\ id \in DOMAIN db[k].oids <=> Numbered(i, id) # {}
                 /\ id \in DOMAIN db[k].oids =>
                      /\ db[k].oids[id].src[1] = i
                      /\ IsLast(db[k].oids[id].src[2], Numbered(i, id))
            /\ db[k].default # Nothing <=>
                 \E j \in DOMAIN file[i].ids : file[i].ids[j].key = Default

\* A template or a name stored for a configured observation id was sent with that
\* id, and what the default holds with an id that is not configured: no domain of
\* a sensor decodes its records with the template of another one that has an
\* entry of its own.
Stored(o) == Range(o.templates) \cup Range(o.names)
TemplatesApart ==
  \A k \in DOMAIN db :
    /\ \A id \in DOMAIN db[k].oids : \A p \in Stored(db[k].oids[id]) : author[p] = id
    /\ db[k].default # Nothing =>
         \A p \in Stored(db[k].default) : author[p] \notin DOMAIN db[k].oids

\* An explicit observation id with the number of the default one.
Clash(s) == s.default # Nothing /\ s.default.id \in DOMAIN s.oids

\* delete_rb_sensors_db frees every template that is stored exactly once, and no
\* other, unless a sensor has both a default and an explicit id 0.
ReleasedOnce ==
  pc = "done" =>
    /\ \A k \in DOMAIN db : ~Clash(db[k]) =>
         \A p \in TemplatesOf(db[k]) : frees[p] = 1
    /\ \A p \in DOMAIN frees :
         (\A k \in DOMAIN db : p \notin TemplatesOf(db[k])) => frees[p] = 0
=============================================================================
