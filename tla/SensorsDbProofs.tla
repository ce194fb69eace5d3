-------------------------- MODULE SensorsDbProofs --------------------------
(***************************************************************************)
(* The sensors database finds what it holds, keeps the templates of        *)
(* observation ids apart, frees each of them once, and is what the         *)
(* configuration says: for any addresses, netmasks, observation ids,       *)
(* templates and bounds.                                                   *)
(***************************************************************************)
EXTENDS SensorsDb, FiniteSetTheorems, TLAPS

\* A network is found under its own address, and its netmask is one.
Keyed(m) == \A x \in DOMAIN m : m[x].net = x /\ m[x].mask \in 0..W

\* n templates and names were stored so far.
IsOid(o, n) ==
  /\ o = [id |-> o.id, src |-> o.src, networks |-> o.networks,
          templates |-> o.templates, names |-> o.names]
  /\ o.id \in Nat /\ Keyed(o.networks) /\ Stored(o) \subseteq 1..n

IsSensor(s, n) ==
  /\ s = [net |-> s.net, mask |-> s.mask, worker |-> s.worker,
          default |-> s.default, oids |-> s.oids]
  /\ s.mask \in 0..W /\ DOMAIN s.oids \subseteq Nat
  /\ s.default # Nothing => IsOid(s.default, n)
  /\ \A id \in DOMAIN s.oids : IsOid(s.oids[id], n)

\* The observation ids of a sensor, and what one of them holds.
Refs(s) == DOMAIN s.oids \cup (IF s.default # Nothing THEN {Default} ELSE {})
Held(s, ref) == Range(oid_of(s, ref).templates)

Loading == {"load", "networks", "oids", "home_nets"}

\* The structures are what the library builds.
Built ==
  /\ author \in Seq(Ids) /\ frees \in Seq(Nat) /\ Len(frees) = Len(author)
  /\ Keyed(db) /\ \A k \in DOMAIN db : IsSensor(db[k], Len(author))
  /\ pc \in {"oids", "home_nets"} => IsSensor(sensor, Len(author))
  /\ pc = "home_nets" => IsOid(oid, Len(author))
  /\ pc \in Loading => author = <<>>

\* A template that is stored is stored in one place.
OneHolder ==
  \A k, l \in DOMAIN db : \A a \in Refs(db[k]) : \A b \in Refs(db[l]) :
    \A p \in Held(db[k], a) : p \in Held(db[l], b) => k = l /\ a = b

\* What the release has still to visit for one observation id.
Entry(k, s, ref) ==
  <<k, IF ref = Default THEN <<s.default.id, "default">> ELSE <<ref, "listed">>>>

\* What was visited is freed once, what was not is not, and nothing else is.
Freed ==
  /\ pc \notin {"release", "done"} => \A p \in DOMAIN frees : frees[p] = 0
  /\ pc = "release" =>
       \A e \in todo : \E k \in DOMAIN db : \E x \in list_observation_ids(db[k]) : e = <<k, x>>
  /\ pc = "done" => todo = {}
  /\ pc \in {"release", "done"} =>
       \A k \in DOMAIN db : ~Clash(db[k]) =>
         \A ref \in Refs(db[k]) : \A p \in Held(db[k], ref) :
           frees[p] = IF Entry(k, db[k], ref) \in todo THEN 0 ELSE 1
  /\ \A p \in DOMAIN frees :
       (\A k \in DOMAIN db : p \notin TemplatesOf(db[k])) => frees[p] = 0

\* The inductive invariant.
BInv == Built /\ TemplatesApart /\ OneHolder /\ Freed
-----------------------------------------------------------------------------
(* Hash maps and records.                                                  *)

LEMMA Constants ==
  /\ Default \notin Nat /\ OidKeys \subseteq Nat /\ OidModulus \in Nat /\ OidModulus > 0
  /\ Ids \subseteq Nat /\ Default \notin Ids
  BY SensorsAssumption DEF Ids

LEMMA KeyedInsert ==
  ASSUME NEW m, NEW v, Keyed(m), v.mask \in 0..W PROVE Keyed(insert(m, v.net, v))
  BY DEF Keyed, insert

LEMMA InsertFacts ==
  ASSUME NEW m, NEW k, NEW v
  PROVE  /\ DOMAIN insert(m, k, v) = DOMAIN m \cup {k} /\ insert(m, k, v)[k] = v
         /\ \A x \in DOMAIN m : x # k => insert(m, k, v)[x] = m[x]
         /\ \A x \in DOMAIN insert(m, k, v) :
              insert(m, k, v)[x] = v \/ (x \in DOMAIN m /\ insert(m, k, v)[x] = m[x])
         /\ Range(insert(m, k, v)) \subseteq Range(m) \cup {v}
<1>1. /\ DOMAIN insert(m, k, v) = DOMAIN m \cup {k} /\ insert(m, k, v)[k] = v
      /\ \A x \in DOMAIN m : x # k => insert(m, k, v)[x] = m[x]
      /\ \A x \in DOMAIN insert(m, k, v) :
           insert(m, k, v)[x] = v \/ (x \in DOMAIN m /\ insert(m, k, v)[x] = m[x])
  BY DEF insert
<1> QED
  BY <1>1 DEF Range

\* Growing the history keeps the structures.
LEMMA OidLater ==
  ASSUME NEW o, NEW n \in Nat, IsOid(o, n) PROVE IsOid(o, n + 1)
<1>1. 1..n \subseteq 1..(n + 1)
  OBVIOUS
<1> QED
  BY <1>1 DEF IsOid

LEMMA SensorLater ==
  ASSUME NEW s, NEW n \in Nat, IsSensor(s, n) PROVE IsSensor(s, n + 1)
  BY OidLater DEF IsSensor

LEMMA NewOidIs ==
  ASSUME NEW id \in Nat, NEW src, NEW n PROVE IsOid(NewOid(id, src), n)
<1> DEFINE o == NewOid(id, src)
<1>1. /\ o = [id |-> o.id, src |-> o.src, networks |-> o.networks,
              templates |-> o.templates, names |-> o.names]
      /\ o.id \in Nat /\ o.networks = <<>> /\ o.templates = <<>> /\ o.names = <<>>
  BY DEF NewOid
<1>2. DOMAIN <<>> = {}
  OBVIOUS
<1>3. Keyed(o.networks) /\ Stored(o) = {}
  BY <1>1, <1>2 DEF Keyed, Stored, Range
<1> QED
  BY <1>1, <1>3 DEF IsOid

LEMMA OidNotNothing == ASSUME NEW o, NEW n, IsOid(o, n) PROVE o # Nothing
<1>1. DOMAIN o = {"id", "src", "networks", "templates", "names"}
  BY DEF IsOid
<1>2. DOMAIN Nothing = {"none"}
  BY DEF Nothing
<1> QED
  BY <1>1, <1>2

LEMMA NewSensorIs ==
  ASSUME NEW n, NEW v, v.mask \in 0..W PROVE IsSensor(NewSensor(v), n)
<1> DEFINE s == NewSensor(v)
<1>1. /\ s = [net |-> s.net, mask |-> s.mask, worker |-> s.worker,
              default |-> s.default, oids |-> s.oids]
      /\ s.default = Nothing /\ s.oids = <<>> /\ s.mask \in 0..W
  BY DEF NewSensor
<1>2. DOMAIN <<>> = {}
  OBVIOUS
<1> QED
  BY <1>1, <1>2 DEF IsSensor

\* An observation id of a sensor is its default one or one with a number.
LEMMA RefFacts ==
  ASSUME NEW s, NEW n, IsSensor(s, n), NEW ref \in Refs(s)
  PROVE  /\ IsOid(oid_of(s, ref), n)
         /\ \/ ref = Default /\ s.default # Nothing /\ oid_of(s, ref) = s.default
            \/ ref # Default /\ ref \in DOMAIN s.oids /\ oid_of(s, ref) = s.oids[ref]
<1>1. CASE ref = Default
  <2>1. s.default # Nothing
    BY <1>1, Constants DEF Refs, IsSensor
  <2> QED
    BY <1>1, <2>1 DEF oid_of, IsSensor
<1>2. CASE ref # Default
  BY <1>2 DEF Refs, oid_of, IsSensor
<1> QED
  BY <1>1, <1>2

-----------------------------------------------------------------------------
(* Reading the configuration.                                              *)

\* Nothing is stored before the file is read.
LEMMA LoadingB ==
  ASSUME Built', author' = <<>>, pc' \in Loading \cup {"run"} PROVE BInv'
<1>1. Len(author') = 0 /\ 1..0 = {} /\ frees' \in Seq(Nat) /\ Len(frees') = 0
  BY DEF Built
<1>2. DOMAIN frees' = {}
  BY <1>1
<1>3. ASSUME NEW k \in DOMAIN db'
      PROVE  /\ \A id \in DOMAIN db'[k].oids : Stored(db'[k].oids[id]) = {}
             /\ db'[k].default # Nothing => Stored(db'[k].default) = {}
  BY <1>1 DEF Built, IsSensor, IsOid
<1>4. TemplatesApart'
  BY <1>3 DEF TemplatesApart
<1>5. OneHolder'
  <2>1. ASSUME NEW k \in DOMAIN db', NEW a \in Refs(db'[k]) PROVE Held(db'[k], a) = {}
    <3>1. IsSensor(db'[k], 0)
      BY <1>1 DEF Built
    <3>2. IsOid(oid_of(db'[k], a), 0)
      BY <3>1, RefFacts
    <3> QED
      BY <3>2, <1>1 DEF IsOid, Held, Stored
  <2> QED
    BY <2>1 DEF OneHolder
<1>6. Freed'
  BY <1>2 DEF Freed, Loading
<1> QED
  BY <1>4, <1>5, <1>6 DEF BInv

\* The database itself stays as it is.
LEMMA ReadingB ==
  ASSUME BInv, pc \in Loading, UNCHANGED <<db, author, frees>>,
         pc' \in Loading \cup {"run"},
         pc' \in {"oids", "home_nets"} => IsSensor(sensor', 0),
         pc' = "home_nets" => IsOid(oid', 0)
  PROVE  BInv'
<1>1. author = <<>> /\ Len(author) = 0
  BY DEF BInv, Built
<1>2. Built'
  BY <1>1 DEF BInv, Built
<1> QED
  BY <1>1, <1>2, LoadingB

LEMMA BuildingB ==
  ASSUME BInv, pc \in Loading
  PROVE  /\ author = <<>> /\ Len(author) = 0
         /\ pc \in {"oids", "home_nets"} => IsSensor(sensor, 0)
         /\ pc = "home_nets" => IsOid(oid, 0)
<1>1. author = <<>> /\ Len(author) = 0
  BY DEF BInv, Built
<1> QED
  BY <1>1 DEF BInv, Built

LEMMA SkippedB ==
  ASSUME BInv, ReadConfig \/ NetworkSkipped \/ OidSkipped \/ OidWrong \/ NetworksEnd
  PROVE  BInv'
<1>1. /\ pc \in Loading /\ pc' \in Loading \cup {"run"} /\ UNCHANGED <<db, author, frees>>
      /\ pc' \in {"oids", "home_nets"} => pc' = pc /\ sensor' = sensor /\ oid' = oid
  BY DEF ReadConfig, NetworkSkipped, OidSkipped, OidWrong, NetworksEnd, Loading
<1> QED
  BY <1>1, BuildingB, ReadingB

\* What is read of a network has a netmask.
LEMMA ParsedFacts ==
  ASSUME NEW text \in Texts, NEW n \in parse_address(text) PROVE masked(n).mask \in 0..W
<1>1. n \in Networks
  BY DEF Texts, parse_address
<1>2. W \in Nat /\ Masks \subseteq 0..W
  BY SensorsAssumption
<1>3. CASE n \in [net : Addresses, mask : Masks]
  <2>1. \A v : [n EXCEPT !.net = v].mask = n.mask
    BY <1>3
  <2> QED
    BY <1>2, <1>3, <2>1 DEF masked
<1>4. CASE n = [net |-> Six, mask |-> W]
  BY <1>2, <1>4 DEF masked, is_ipv4
<1> QED
  BY <1>1, <1>3, <1>4 DEF Networks

LEMMA NetworkSensorB ==
  ASSUME BInv, NEW text \in Texts, NetworkSensor(text) PROVE BInv'
<1>1. /\ pc = "networks" /\ pc' = "oids" /\ UNCHANGED <<db, author, frees>>
      /\ \E n \in parse_address(text) : sensor' = NewSensor(masked(n))
  BY DEF NetworkSensor
<1>2. IsSensor(sensor', 0)
  BY <1>1, ParsedFacts, NewSensorIs
<1> QED
  BY <1>1, <1>2, ReadingB DEF Loading

LEMMA OidBeginB ==
  ASSUME BInv, NEW key \in OidKeys \cup {Default}, OidBegin(key) PROVE BInv'
<1> DEFINE id == parse_observation_id_number(key)
<1>1. /\ pc = "oids" /\ pc' = "home_nets" /\ UNCHANGED <<db, author, frees, sensor>>
      /\ \E src : oid' = NewOid(id, src)
  BY DEF OidBegin
<1>2. id \in Nat
  <2>1. CASE key = Default
    BY <2>1 DEF parse_observation_id_number
  <2>2. CASE key # Default
    <3>1. \A x, y \in Nat : y > 0 => x % y \in Nat
      OBVIOUS
    <3>2. key \in Nat /\ OidModulus \in Nat /\ OidModulus > 0
      BY <2>2, Constants
    <3> QED
      BY <2>2, <3>1, <3>2 DEF parse_observation_id_number
  <2> QED
    BY <2>1, <2>2
<1> HIDE DEF id
<1>3. IsOid(oid', 0)
  BY <1>1, <1>2, NewOidIs
<1>4. IsSensor(sensor, 0)
  BY <1>1, BuildingB DEF Loading
<1> QED
  BY <1>1, <1>3, <1>4, ReadingB DEF Loading

\* A field of an observation id is replaced.
LEMMA OidUpdated ==
  ASSUME NEW o, NEW n, IsOid(o, n), NEW v
  PROVE  /\ Keyed(v) => IsOid([o EXCEPT !.networks = v], n)
         /\ [o EXCEPT !.templates = v] = [id |-> o.id, src |-> o.src,
              networks |-> o.networks, templates |-> v, names |-> o.names]
         /\ [o EXCEPT !.names = v] = [id |-> o.id, src |-> o.src,
              networks |-> o.networks, templates |-> o.templates, names |-> v]
<1>1. o = [id |-> o.id, src |-> o.src, networks |-> o.networks,
           templates |-> o.templates, names |-> o.names]
  BY DEF IsOid
<1>2. /\ [o EXCEPT !.templates = v] = [id |-> o.id, src |-> o.src,
           networks |-> o.networks, templates |-> v, names |-> o.names]
      /\ [o EXCEPT !.names = v] = [id |-> o.id, src |-> o.src,
           networks |-> o.networks, templates |-> o.templates, names |-> v]
      /\ [o EXCEPT !.networks = v] = [id |-> o.id, src |-> o.src,
           networks |-> v, templates |-> o.templates, names |-> o.names]
  BY <1>1
<1>3. Keyed(v) => IsOid([o EXCEPT !.networks = v], n)
  BY <1>2 DEF IsOid, Stored
<1> QED
  BY <1>2, <1>3

LEMMA HomeNetB == ASSUME BInv, NEW text \in Texts, HomeNet(text) PROVE BInv'
<1>1. /\ pc = "home_nets" /\ UNCHANGED <<pc, db, author, frees, sensor>>
      /\ \E n \in parse_address(text) :
           oid' = [oid EXCEPT !.networks = insert(oid.networks, masked(n).net, masked(n))]
  BY DEF HomeNet, more_home_nets
<1>2. IsOid(oid, 0) /\ IsSensor(sensor, 0)
  BY <1>1, BuildingB DEF Loading
<1>3. Keyed(oid.networks)
  BY <1>2 DEF IsOid
<1>4. PICK n \in parse_address(text) :
             oid' = [oid EXCEPT !.networks = insert(oid.networks, masked(n).net, masked(n))]
  BY <1>1
<1>5. IsOid(oid', 0)
  BY <1>2, <1>3, <1>4, ParsedFacts, KeyedInsert, OidUpdated
<1> QED
  BY <1>1, <1>2, <1>5, ReadingB DEF Loading

\* A sensor gets an observation id.
LEMMA SensorAdds ==
  ASSUME NEW s, NEW n, IsSensor(s, n), NEW o, IsOid(o, n), NEW key
  PROVE  IsSensor(add_observation_id(s, key, o), n)
<1> DEFINE t == add_observation_id(s, key, o)
           m == insert(s.oids, o.id, o)
<1>1. s = [net |-> s.net, mask |-> s.mask, worker |-> s.worker,
           default |-> s.default, oids |-> s.oids]
  BY DEF IsSensor
<1>2. CASE key = Default
  <2>1. t = [net |-> s.net, mask |-> s.mask, worker |-> s.worker,
             default |-> o, oids |-> s.oids]
    BY <1>1, <1>2 DEF add_observation_id
  <2> HIDE DEF t
  <2> QED
    BY <2>1 DEF IsSensor, t
<1>3. CASE key # Default
  <2>1. t = [net |-> s.net, mask |-> s.mask, worker |-> s.worker,
             default |-> s.default, oids |-> m]
    BY <1>1, <1>3 DEF add_observation_id
  <2>2. DOMAIN m = DOMAIN s.oids \cup {o.id}
    BY InsertFacts
  <2>3. \A x \in DOMAIN m : m[x] = o \/ (x \in DOMAIN s.oids /\ m[x] = s.oids[x])
    BY DEF insert
  <2>4. o.id \in Nat
    BY DEF IsOid
  <2> HIDE DEF t, m
  <2>5. /\ t = [net |-> t.net, mask |-> t.mask, worker |-> t.worker,
                default |-> t.default, oids |-> t.oids]
        /\ t.oids = m /\ t.default = s.default /\ t.mask = s.mask
    BY <2>1
  <2>6. DOMAIN m \subseteq Nat /\ \A x \in DOMAIN m : IsOid(m[x], n)
    BY <2>2, <2>3, <2>4 DEF IsSensor
  <2>7. IsSensor(t, n)
    BY <2>5, <2>6 DEF IsSensor
  <2> QED
    BY <2>7 DEF t
<1> QED
  BY <1>2, <1>3

LEMMA OidDoneB == ASSUME BInv, OidDone PROVE BInv'
<1>1. /\ pc = "home_nets" /\ pc' = "oids" /\ UNCHANGED <<db, author, frees>>
      /\ \E key : sensor' = add_observation_id(sensor, key, oid)
  BY DEF OidDone
<1>2. IsOid(oid, 0) /\ IsSensor(sensor, 0)
  BY <1>1, BuildingB DEF Loading
<1>3. IsSensor(sensor', 0)
  BY <1>1, <1>2, SensorAdds
<1> QED
  BY <1>1, <1>3, ReadingB DEF Loading

LEMMA SensorDoneB == ASSUME BInv, SensorDone PROVE BInv'
<1> DEFINE s == [sensor EXCEPT !.worker = worker_idx]
<1>1. /\ pc = "oids" /\ pc' = "networks" /\ UNCHANGED <<author, frees>>
      /\ db' = insert(db, sensor.net, s)
  BY DEF SensorDone
<1>2. IsSensor(sensor, 0) /\ author = <<>> /\ Len(author) = 0
  BY <1>1, BuildingB DEF Loading
<1>3. s = [net |-> sensor.net, mask |-> sensor.mask, worker |-> worker_idx,
           default |-> sensor.default, oids |-> sensor.oids]
  <2>1. sensor = [net |-> sensor.net, mask |-> sensor.mask, worker |-> sensor.worker,
                  default |-> sensor.default, oids |-> sensor.oids]
    BY <1>2 DEF IsSensor
  <2> QED
    BY <2>1
<1> HIDE DEF s
<1>4. s.net = sensor.net /\ IsSensor(s, 0) /\ s.mask \in 0..W
  <2>1. /\ s = [net |-> s.net, mask |-> s.mask, worker |-> s.worker,
                default |-> s.default, oids |-> s.oids]
        /\ s.net = sensor.net /\ s.mask = sensor.mask /\ s.default = sensor.default
        /\ s.oids = sensor.oids
    BY <1>3
  <2> QED
    BY <2>1, <1>2 DEF IsSensor
<1>5. Keyed(db') /\ \A k \in DOMAIN db' : IsSensor(db'[k], 0)
  <2>1. Keyed(db')
    BY <1>1, <1>4, KeyedInsert DEF BInv, Built
  <2>2. \A k \in DOMAIN db' : db'[k] = s \/ (k \in DOMAIN db /\ db'[k] = db[k])
    BY <1>1 DEF insert
  <2> QED
    BY <2>1, <2>2, <1>2, <1>4 DEF BInv, Built
<1>6. Built'
  BY <1>1, <1>2, <1>5 DEF BInv, Built
<1> QED
  BY <1>1, <1>2, <1>6, LoadingB DEF Loading

-----------------------------------------------------------------------------
(* Templates and names.                                                    *)

\* One observation id of a sensor is replaced.
Put(s, ref, o) == IF ref = Default THEN [s EXCEPT !.default = o]
                                   ELSE [s EXCEPT !.oids[ref] = o]

LEMMA PutFacts ==
  ASSUME NEW s, NEW n, IsSensor(s, n), NEW ref \in Refs(s), NEW o, IsOid(o, n)
  PROVE  LET t == Put(s, ref, o)
         IN /\ IsSensor(t, n) /\ t.net = s.net /\ t.mask = s.mask
            /\ DOMAIN t.oids = DOMAIN s.oids /\ (t.default # Nothing <=> s.default # Nothing)
            /\ oid_of(t, ref) = o
            /\ \A b \in Refs(s) : b # ref => oid_of(t, b) = oid_of(s, b)
<1> DEFINE t == Put(s, ref, o)
<1>1. s = [net |-> s.net, mask |-> s.mask, worker |-> s.worker,
           default |-> s.default, oids |-> s.oids]
  BY DEF IsSensor
<1>2. o # Nothing
  BY OidNotNothing
<1>3. CASE ref = Default
  <2>1. t = [net |-> s.net, mask |-> s.mask, worker |-> s.worker,
             default |-> o, oids |-> s.oids]
    BY <1>1, <1>3 DEF Put
  <2>2. s.default # Nothing
    BY <1>3, RefFacts
  <2> HIDE DEF t
  <2>3. /\ t = [net |-> t.net, mask |-> t.mask, worker |-> t.worker,
                default |-> t.default, oids |-> t.oids]
        /\ t.oids = s.oids /\ t.default = o /\ t.net = s.net /\ t.mask = s.mask
    BY <2>1
  <2>4. IsSensor(t, n)
    BY <2>3 DEF IsSensor
  <2>5. oid_of(t, ref) = o /\ \A b \in Refs(s) : b # ref => oid_of(t, b) = oid_of(s, b)
    BY <2>3, <1>3 DEF oid_of
  <2> QED
    BY <2>2, <2>3, <2>4, <2>5, <1>2 DEF t
<1>4. CASE ref # Default
  <2> DEFINE m == [s.oids EXCEPT ![ref] = o]
  <2>1. t = [net |-> s.net, mask |-> s.mask, worker |-> s.worker,
             default |-> s.default, oids |-> m]
    BY <1>1, <1>4 DEF Put
  <2>2. ref \in DOMAIN s.oids
    BY <1>4, RefFacts
  <2>3. /\ DOMAIN m = DOMAIN s.oids /\ m[ref] = o
        /\ \A x \in DOMAIN s.oids : x # ref => m[x] = s.oids[x]
    BY <2>2
  <2> HIDE DEF t, m
  <2>4. /\ t = [net |-> t.net, mask |-> t.mask, worker |-> t.worker,
                default |-> t.default, oids |-> t.oids]
        /\ t.oids = m /\ t.default = s.default /\ t.net = s.net /\ t.mask = s.mask
    BY <2>1
  <2>5. IsSensor(t, n)
    BY <2>3, <2>4 DEF IsSensor
  <2>6. oid_of(t, ref) = o
    BY <2>3, <2>4, <1>4 DEF oid_of
  <2>7. \A b \in Refs(s) : b # ref => oid_of(t, b) = oid_of(s, b)
    BY <2>3, <2>4 DEF oid_of, Refs
  <2> QED
    BY <2>3, <2>4, <2>5, <2>6, <2>7 DEF t
<1> QED
  BY <1>3, <1>4

\* TemplatesApart, observation id by observation id.
Apart(d, a) ==
  \A k \in DOMAIN d : \A ref \in Refs(d[k]) : \A p \in Stored(oid_of(d[k], ref)) :
    IF ref = Default THEN a[p] \notin DOMAIN d[k].oids ELSE a[p] = ref

LEMMA ApartIs ==
  ASSUME NEW d, NEW a, \A k \in DOMAIN d : \E n : IsSensor(d[k], n)
  PROVE  Apart(d, a) <=>
           \A k \in DOMAIN d :
             /\ \A id \in DOMAIN d[k].oids : \A p \in Stored(d[k].oids[id]) : a[p] = id
             /\ d[k].default # Nothing =>
                  \A p \in Stored(d[k].default) : a[p] \notin DOMAIN d[k].oids
<1>1. ASSUME NEW k \in DOMAIN d
      PROVE  (\A ref \in Refs(d[k]) : \A p \in Stored(oid_of(d[k], ref)) :
                IF ref = Default THEN a[p] \notin DOMAIN d[k].oids ELSE a[p] = ref)
             <=> /\ \A id \in DOMAIN d[k].oids : \A p \in Stored(d[k].oids[id]) : a[p] = id
                 /\ d[k].default # Nothing =>
                      \A p \in Stored(d[k].default) : a[p] \notin DOMAIN d[k].oids
  <2>1. DOMAIN d[k].oids \subseteq Nat
    BY DEF IsSensor
  <2>2. \A id \in DOMAIN d[k].oids : id # Default
    BY <2>1, Constants
  <2> QED
    BY <2>2 DEF Refs, oid_of
<1> QED
  BY <1>1 DEF Apart

\* A template or a name is stored: observation id ref of sensor k becomes o.
LEMMA StoreB ==
  ASSUME BInv, NEW k \in DOMAIN db, NEW id \in Ids, NEW ref, NEW o, pc = "run", pc' = pc,
         ref = observation_id_for(db[k], id), oid_of(db[k], ref) # Nothing,
         IsOid(o, Len(author) + 1),
         Stored(o) \subseteq Stored(oid_of(db[k], ref)) \cup {Len(author) + 1},
         Range(o.templates) \subseteq Held(db[k], ref) \cup {Len(author) + 1},
         db' = [db EXCEPT ![k] = Put(db[k], ref, o)],
         author' = Append(author, id), frees' = Append(frees, 0)
  PROVE  BInv'
<1> DEFINE n == Len(author)
           t == Put(db[k], ref, o)
<1>1. /\ author \in Seq(Ids) /\ frees \in Seq(Nat) /\ Len(frees) = n /\ n \in Nat
      /\ Keyed(db) /\ \A l \in DOMAIN db : IsSensor(db[l], n)
  BY DEF BInv, Built
<1>2. /\ author' \in Seq(Ids) /\ Len(author') = n + 1 /\ author'[n + 1] = id
      /\ \A p \in 1..n : author'[p] = author[p]
  BY <1>1
<1>3. /\ frees' \in Seq(Nat) /\ Len(frees') = n + 1
      /\ \A p \in 1..(n + 1) : p \in 1..n \/ p = n + 1
      /\ frees'[n + 1] = 0 /\ \A p \in 1..n : frees'[p] = frees[p]
  BY <1>1
<1>4. ref \in Refs(db[k])
  BY DEF observation_id_for, oid_of, Refs
<1>5. \A l \in DOMAIN db : IsSensor(db[l], n + 1)
  BY <1>1, SensorLater
<1> HIDE DEF n
<1>6. /\ IsSensor(t, n + 1) /\ t.net = db[k].net /\ t.mask = db[k].mask
      /\ DOMAIN t.oids = DOMAIN db[k].oids /\ (t.default # Nothing <=> db[k].default # Nothing)
      /\ oid_of(t, ref) = o
      /\ \A b \in Refs(db[k]) : b # ref => oid_of(t, b) = oid_of(db[k], b)
  BY <1>4, <1>5, PutFacts DEF n
<1>7. Refs(t) = Refs(db[k])
  BY <1>6 DEF Refs
<1> HIDE DEF t
<1>8. /\ DOMAIN db' = DOMAIN db /\ db'[k] = t
      /\ \A l \in DOMAIN db : l # k => db'[l] = db[l]
  BY DEF t
<1>9. Built'
  <2>1. Keyed(db')
    BY <1>1, <1>6, <1>8 DEF Keyed
  <2>2. \A l \in DOMAIN db' : IsSensor(db'[l], n + 1)
    BY <1>5, <1>6, <1>8
  <2> QED
    BY <1>2, <1>3, <2>1, <2>2 DEF Built, Loading
<1>10. ASSUME NEW l \in DOMAIN db
       PROVE  /\ Refs(db'[l]) = Refs(db[l]) /\ DOMAIN db'[l].oids = DOMAIN db[l].oids
              /\ \A b \in Refs(db[l]) : ~(l = k /\ b = ref) =>
                   oid_of(db'[l], b) = oid_of(db[l], b)
  BY <1>6, <1>7, <1>8
<1>11. ASSUME NEW l \in DOMAIN db, NEW b \in Refs(db[l])
       PROVE  Stored(oid_of(db[l], b)) \subseteq 1..n
  BY <1>1, RefFacts DEF IsOid
<1>12. TemplatesApart'
  <2>1. Apart(db, author)
    BY <1>1, ApartIs DEF BInv, TemplatesApart
  <2>2. ASSUME NEW l \in DOMAIN db', NEW b \in Refs(db'[l]), NEW p \in Stored(oid_of(db'[l], b))
        PROVE  IF b = Default THEN author'[p] \notin DOMAIN db'[l].oids ELSE author'[p] = b
    <3>1. l \in DOMAIN db /\ b \in Refs(db[l]) /\ DOMAIN db'[l].oids = DOMAIN db[l].oids
      BY <1>8, <1>10
    <3>2. CASE p \in Stored(oid_of(db[l], b))
      <4>1. author'[p] = author[p]
        BY <3>1, <3>2, <1>2, <1>11
      <4> QED
        BY <4>1, <3>1, <3>2, <2>1 DEF Apart
    <3>3. CASE p \notin Stored(oid_of(db[l], b))
      <4>1. l = k /\ b = ref
        BY <3>1, <3>3, <1>10
      <4>2. p = n + 1
        BY <4>1, <3>3, <1>6, <1>8 DEF n
      <4>3. author'[p] = id
        BY <4>2, <1>2
      <4>4. id # Default
        BY Constants
      <4> QED
        BY <4>1, <4>3, <4>4, <3>1 DEF observation_id_for
    <3> QED
      BY <3>2, <3>3
  <2>3. Apart(db', author')
    BY <2>2 DEF Apart
  <2>4. \A l \in DOMAIN db' : \E i : IsSensor(db'[l], i)
    BY <1>9 DEF Built
  <2>5. \A l \in DOMAIN db' :
          /\ \A i \in DOMAIN db'[l].oids : \A p \in Stored(db'[l].oids[i]) : author'[p] = i
          /\ db'[l].default # Nothing =>
               \A p \in Stored(db'[l].default) : author'[p] \notin DOMAIN db'[l].oids
    <3> DEFINE d == db'
               a == author'
    <3>1. Apart(d, a) /\ \A l \in DOMAIN d : \E i : IsSensor(d[l], i)
      BY <2>3, <2>4
    <3> HIDE DEF d, a
    <3>2. \A l \in DOMAIN d :
            /\ \A i \in DOMAIN d[l].oids : \A p \in Stored(d[l].oids[i]) : a[p] = i
            /\ d[l].default # Nothing =>
                 \A p \in Stored(d[l].default) : a[p] \notin DOMAIN d[l].oids
      BY <3>1, ApartIs
    <3> QED
      BY <3>2 DEF d, a
  <2> QED
    BY <2>5 DEF TemplatesApart
<1>13. ASSUME NEW l \in DOMAIN db, NEW b \in Refs(db[l]), NEW p \in Held(db'[l], b)
       PROVE  \/ p \in Held(db[l], b) /\ p \in 1..n
              \/ p = n + 1 /\ l = k /\ b = ref
  <2>1. Held(db[l], b) \subseteq 1..n
    BY <1>11 DEF Held, Stored
  <2>2. CASE l = k /\ b = ref
    BY <2>1, <2>2, <1>6, <1>8 DEF Held, n
  <2>3. CASE ~(l = k /\ b = ref)
    BY <2>1, <2>3, <1>10 DEF Held
  <2> QED
    BY <2>2, <2>3
<1>14. OneHolder'
  <2>1. ASSUME NEW l \in DOMAIN db, NEW j \in DOMAIN db, NEW a \in Refs(db[l]), NEW b \in Refs(db[j]),
               NEW p \in Held(db'[l], a), p \in Held(db'[j], b)
        PROVE  l = j /\ a = b
    <3>1. n + 1 \notin 1..n
      BY <1>1 DEF n
    <3>2. CASE p = n + 1
      BY <2>1, <3>1, <3>2, <1>13
    <3>3. CASE p # n + 1
      <4>1. p \in Held(db[l], a) /\ p \in Held(db[j], b)
        BY <2>1, <3>3, <1>13
      <4> QED
        BY <4>1 DEF BInv, OneHolder
    <3> QED
      BY <3>2, <3>3
  <2>2. ASSUME NEW l \in DOMAIN db', NEW j \in DOMAIN db', NEW a \in Refs(db'[l]),
               NEW b \in Refs(db'[j]), NEW p \in Held(db'[l], a), p \in Held(db'[j], b)
        PROVE  l = j /\ a = b
    <3>1. /\ l \in DOMAIN db /\ j \in DOMAIN db
          /\ a \in Refs(db[l]) /\ b \in Refs(db[j])
      BY <1>8, <1>10
    <3> QED
      BY <3>1, <2>1, <2>2
  <2> QED
    BY <2>2 DEF OneHolder
<1>15. Freed'
  <2>1. \A p \in DOMAIN frees' : frees'[p] = 0
    <3>1. DOMAIN frees' = 1..(n + 1) /\ DOMAIN frees = 1..n
      BY <1>1, <1>3 DEF n
    <3>2. \A p \in 1..n : frees[p] = 0
      BY <3>1 DEF BInv, Freed
    <3> QED
      BY <3>1, <3>2, <1>3
  <2> QED
    BY <2>1 DEF Freed
<1> QED
  BY <1>9, <1>12, <1>14, <1>15 DEF BInv

LEMMA SaveTemplateB ==
  ASSUME BInv, NEW k \in DOMAIN db, NEW id \in Ids, NEW x,
         SaveTemplate(k, id, x) \/ AddName(k, id, x)
  PROVE  BInv'
<1> DEFINE n == Len(author)
           ref == observation_id_for(db[k], id)
           u == oid_of(db[k], ref)
           o1 == [u EXCEPT !.templates = insert(u.templates, x, n + 1)]
           o2 == [u EXCEPT !.names = insert(u.names, x, n + 1)]
<1>1. /\ pc = "run" /\ pc' = pc /\ u # Nothing
      /\ author' = Append(author, id) /\ frees' = Append(frees, 0)
  BY DEF SaveTemplate, AddName, store
<1>2. \/ db' = [db EXCEPT ![k] = Put(db[k], ref, o1)]
      \/ db' = [db EXCEPT ![k] = Put(db[k], ref, o2)]
  BY DEF SaveTemplate, AddName, store, Put, oid_of
<1>3. IsOid(u, n) /\ n \in Nat
  <2>1. ref \in Refs(db[k])
    BY <1>1 DEF observation_id_for, oid_of, Refs
  <2> QED
    BY <2>1, RefFacts DEF BInv, Built
<1> HIDE DEF u, ref, n
<1>4. /\ o1 = [id |-> u.id, src |-> u.src, networks |-> u.networks,
               templates |-> insert(u.templates, x, n + 1), names |-> u.names]
      /\ o2 = [id |-> u.id, src |-> u.src, networks |-> u.networks,
               templates |-> u.templates, names |-> insert(u.names, x, n + 1)]
  BY <1>3, OidUpdated
<1>5. /\ Range(insert(u.templates, x, n + 1)) \subseteq Range(u.templates) \cup {n + 1}
      /\ Range(insert(u.names, x, n + 1)) \subseteq Range(u.names) \cup {n + 1}
  BY InsertFacts
<1> HIDE DEF o1, o2
<1>6. ASSUME NEW o, o = o1 \/ o = o2
      PROVE  /\ IsOid(o, n + 1) /\ Stored(o) \subseteq Stored(u) \cup {n + 1}
             /\ Range(o.templates) \subseteq Range(u.templates) \cup {n + 1}
  <2>1. /\ o = [id |-> o.id, src |-> o.src, networks |-> o.networks,
                templates |-> o.templates, names |-> o.names]
        /\ o.id = u.id /\ o.networks = u.networks
        /\ Range(o.templates) \subseteq Range(u.templates) \cup {n + 1}
        /\ Range(o.names) \subseteq Range(u.names) \cup {n + 1}
    BY <1>4, <1>5, <1>6
  <2>2. Stored(o) \subseteq Stored(u) \cup {n + 1}
    BY <2>1 DEF Stored
  <2>3. Stored(u) \cup {n + 1} \subseteq 1..(n + 1)
    <3>1. Stored(u) \subseteq 1..n
      BY <1>3 DEF IsOid
    <3> QED
      BY <3>1, <1>3
  <2> QED
    BY <2>1, <2>2, <2>3, <1>3 DEF IsOid
<1>7. ASSUME NEW o, o = o1 \/ o = o2, db' = [db EXCEPT ![k] = Put(db[k], ref, o)]
      PROVE  BInv'
  BY <1>1, <1>6, <1>7, StoreB DEF u, n, ref, Held
<1> QED
  BY <1>2, <1>7

-----------------------------------------------------------------------------
(* The release.                                                            *)

\* Every observation id is listed, and what is listed leads to one.
LEMMA Listed ==
  ASSUME NEW s, NEW n, IsSensor(s, n), NEW k, NEW x \in list_observation_ids(s)
  PROVE  LET ref == observation_id_for(s, x[1])
         IN ref \in Refs(s) /\ (~Clash(s) => <<k, x>> = Entry(k, s, ref))
<1>1. CASE \E id \in DOMAIN s.oids : x = <<id, "listed">>
  <2>1. PICK id \in DOMAIN s.oids : x = <<id, "listed">>
    BY <1>1
  <2>2. id # Default
    BY Constants DEF IsSensor
  <2>3. observation_id_for(s, x[1]) = id
    BY <2>1 DEF observation_id_for
  <2> QED
    BY <2>1, <2>2, <2>3 DEF Entry, Refs
<1>2. CASE s.default # Nothing /\ x = <<s.default.id, "default">>
  <2>1. CASE Clash(s)
    BY <1>2, <2>1 DEF Clash, observation_id_for, Refs
  <2>2. CASE ~Clash(s)
    <3>1. s.default.id \notin DOMAIN s.oids
      BY <1>2, <2>2 DEF Clash
    <3>2. observation_id_for(s, x[1]) = Default
      BY <1>2, <3>1 DEF observation_id_for
    <3> QED
      BY <1>2, <3>2 DEF Entry, Refs
  <2> QED
    BY <2>1, <2>2
<1> QED
  BY <1>1, <1>2 DEF list_observation_ids

LEMMA EntryListed ==
  ASSUME NEW s, NEW n, IsSensor(s, n), NEW ref \in Refs(s), NEW k
  PROVE  \E x \in list_observation_ids(s) : Entry(k, s, ref) = <<k, x>>
<1>1. \/ ref = Default /\ s.default # Nothing
      \/ ref # Default /\ ref \in DOMAIN s.oids
  BY RefFacts
<1> QED
  BY <1>1 DEF Entry, list_observation_ids

LEMMA EntryApart ==
  ASSUME NEW k, NEW l, NEW s, NEW t, NEW a, NEW b, Entry(k, s, a) = Entry(l, t, b)
  PROVE  k = l /\ a = b
<1> DEFINE x == IF a = Default THEN <<s.default.id, "default">> ELSE <<a, "listed">>
           y == IF b = Default THEN <<t.default.id, "default">> ELSE <<b, "listed">>
<1>1. <<k, x>> = <<l, y>>
  BY DEF Entry
<1> HIDE DEF x, y
<1>2. k = l /\ x = y
  BY <1>1
<1>3. CASE a = Default
  BY <1>2, <1>3 DEF x, y
<1>4. CASE a # Default
  BY <1>2, <1>4 DEF x, y
<1> QED
  BY <1>2, <1>3, <1>4

\* Sensors, templates and their authors stay as they are.
LEMMA KeptB ==
  ASSUME BInv, UNCHANGED <<db, author>>, pc' \in {"release", "done"},
         frees' \in Seq(Nat), Len(frees') = Len(frees)
  PROVE  Built' /\ TemplatesApart' /\ OneHolder'
  BY DEF BInv, Built, TemplatesApart, OneHolder, Loading

LEMMA DeleteB == ASSUME BInv, Delete PROVE BInv'
<1>1. /\ pc = "run" /\ pc' = "release" /\ UNCHANGED <<db, author, frees>>
      /\ todo' = UNION {{k} \X list_observation_ids(db[k]) : k \in DOMAIN db}
  BY DEF Delete
<1>2. Built' /\ TemplatesApart' /\ OneHolder'
  BY <1>1, KeptB DEF BInv, Built
<1>3. \A k, x : (k \in DOMAIN db /\ x \in list_observation_ids(db[k])) => <<k, x>> \in todo'
  BY <1>1
<1>4. \A e \in todo' : \E k \in DOMAIN db : \E x \in list_observation_ids(db[k]) : e = <<k, x>>
  <2>1. ASSUME NEW e \in todo'
        PROVE  \E k \in DOMAIN db : \E x \in list_observation_ids(db[k]) : e = <<k, x>>
    <3>1. PICK k \in DOMAIN db : e \in {k} \X list_observation_ids(db[k])
      BY <1>1
    <3> QED
      BY <3>1
  <2> QED
    BY <2>1
<1>5. \A p \in DOMAIN frees : frees[p] = 0
  BY <1>1 DEF BInv, Freed
<1>6. ASSUME NEW k \in DOMAIN db, NEW ref \in Refs(db[k]), NEW p \in Held(db[k], ref)
      PROVE  frees[p] = 0 /\ Entry(k, db[k], ref) \in todo'
  <2>1. IsSensor(db[k], Len(author))
    BY DEF BInv, Built
  <2>2. p \in DOMAIN frees
    <3>1. IsOid(oid_of(db[k], ref), Len(author))
      BY <2>1, RefFacts
    <3>2. p \in 1..Len(author)
      BY <3>1 DEF IsOid, Held, Stored
    <3>3. DOMAIN frees = 1..Len(author)
      BY DEF BInv, Built
    <3> QED
      BY <3>2, <3>3
  <2>3. Entry(k, db[k], ref) \in todo'
    BY <2>1, <1>3, EntryListed
  <2> QED
    BY <2>2, <2>3, <1>5
<1>7. Freed'
  BY <1>1, <1>4, <1>5, <1>6 DEF Freed
<1> QED
  BY <1>2, <1>7 DEF BInv

LEMMA DestroyB == ASSUME BInv, Destroy PROVE BInv'
<1>1. /\ pc = "release" /\ pc' = "done" /\ todo = {} /\ UNCHANGED <<db, author, frees, todo>>
  BY DEF Destroy
<1>2. Built' /\ TemplatesApart' /\ OneHolder'
  BY <1>1, KeptB DEF BInv, Built
<1>3. Freed'
  BY <1>1 DEF BInv, Freed
<1> QED
  BY <1>2, <1>3 DEF BInv

LEMMA ReleaseOidB == ASSUME BInv, NEW e \in todo, ReleaseOid(e) PROVE BInv'
<1>0. pc = "release" /\ pc' = "release" /\ UNCHANGED <<db, author>> /\ todo' = todo \ {e}
  BY DEF ReleaseOid
<1>1. PICK k \in DOMAIN db : \E x \in list_observation_ids(db[k]) : e = <<k, x>>
  BY <1>0 DEF BInv, Freed
<1>2. PICK x \in list_observation_ids(db[k]) : e = <<k, x>>
  BY <1>1
<1> DEFINE ref == observation_id_for(db[k], x[1])
           n == Len(author)
<1>3. frees' = [p \in DOMAIN frees |->
                  IF p \in Held(db[k], ref) THEN frees[p] + 1 ELSE frees[p]]
  <2>1. e[1] = k /\ e[2] = x
    BY <1>2
  <2> QED
    BY <2>1 DEF ReleaseOid, Held
<1>4. /\ \A l \in DOMAIN db : IsSensor(db[l], n) /\ n \in Nat
      /\ frees \in Seq(Nat) /\ Len(frees) = n /\ DOMAIN frees = 1..n
  BY DEF BInv, Built
<1>5. ref \in Refs(db[k]) /\ (~Clash(db[k]) => e = Entry(k, db[k], ref))
  BY <1>2, <1>4, Listed
<1> HIDE DEF ref, n
<1>6. frees' \in Seq(Nat) /\ Len(frees') = n /\ DOMAIN frees' = 1..n
  <2>1. \A p \in 1..n : frees[p] \in Nat
    BY <1>4
  <2>2. \A p \in 1..n : (IF p \in Held(db[k], ref) THEN frees[p] + 1 ELSE frees[p]) \in Nat
    BY <2>1
  <2>3. frees' = [p \in 1..n |-> IF p \in Held(db[k], ref) THEN frees[p] + 1 ELSE frees[p]]
    BY <1>3, <1>4
  <2> QED
    BY <2>2, <2>3, <1>4 DEF n
<1>7. Built' /\ TemplatesApart' /\ OneHolder'
  BY <1>0, <1>4, <1>6, KeptB
<1>8. \A y \in todo' : \E l \in DOMAIN db' : \E z \in list_observation_ids(db'[l]) : y = <<l, z>>
  BY <1>0 DEF BInv, Freed
<1>9. ASSUME NEW l \in DOMAIN db, ~Clash(db[l]), NEW b \in Refs(db[l]), NEW p \in Held(db[l], b)
      PROVE  frees'[p] = IF Entry(l, db[l], b) \in todo' THEN 0 ELSE 1
  <2>1. p \in 1..n
    BY <1>4, RefFacts DEF IsOid, Held, Stored
  <2>2. frees[p] = IF Entry(l, db[l], b) \in todo THEN 0 ELSE 1
    BY <1>0, <1>9 DEF BInv, Freed
  <2>3. CASE l = k /\ b = ref
    <3>1. Entry(l, db[l], b) = e
      BY <2>3, <1>5, <1>9
    <3>2. frees[p] = 0 /\ frees'[p] = frees[p] + 1
      BY <2>1, <2>2, <2>3, <3>1, <1>3, <1>4
    <3> QED
      BY <3>1, <3>2, <1>0
  <2>4. CASE ~(l = k /\ b = ref)
    <3>1. p \notin Held(db[k], ref)
      BY <2>4, <1>5 DEF BInv, OneHolder
    <3>2. frees'[p] = frees[p]
      BY <2>1, <3>1, <1>3, <1>4
    <3>3. Entry(l, db[l], b) # e
      <4>1. CASE l = k
        BY <4>1, <2>4, <1>5, <1>9, EntryApart
      <4>2. CASE l # k
        BY <4>2, <1>2 DEF Entry
      <4> QED
        BY <4>1, <4>2
    <3> QED
      BY <3>2, <3>3, <2>2, <1>0
  <2> QED
    BY <2>3, <2>4
<1>10. ASSUME NEW p \in DOMAIN frees, \A l \in DOMAIN db : p \notin TemplatesOf(db[l])
       PROVE  frees'[p] = 0
  <2>1. p \notin Held(db[k], ref)
    <3>1. oid_of(db[k], ref) \in OidsOf(db[k])
      BY <1>4, <1>5, RefFacts DEF OidsOf, Range
    <3> QED
      BY <3>1, <1>10 DEF TemplatesOf, Held
  <2> QED
    BY <2>1, <1>3, <1>10 DEF BInv, Freed
<1>11. Freed'
  BY <1>0, <1>4, <1>6, <1>8, <1>9, <1>10 DEF Freed
<1> QED
  BY <1>7, <1>11 DEF BInv

-----------------------------------------------------------------------------
LEMMA InitB == Init => BInv
<1> SUFFICES ASSUME Init PROVE BInv
  OBVIOUS
<1>1. DOMAIN <<>> = {} /\ Len(<<>>) = 0
  OBVIOUS
<1>2. Built
  BY <1>1 DEF Init, Built, Keyed, Loading
<1>3. TemplatesApart /\ OneHolder /\ Freed
  BY <1>1 DEF Init, TemplatesApart, OneHolder, Freed
<1> QED
  BY <1>2, <1>3 DEF BInv

LEMMA NextB == BInv /\ [Next]_vars => BInv'
<1> SUFFICES ASSUME BInv, [Next]_vars PROVE BInv'
  OBVIOUS
<1>1. CASE UNCHANGED vars
  BY <1>1 DEF vars, BInv, Built, TemplatesApart, OneHolder, Freed
<1>2. CASE ReadConfig \/ NetworkSkipped \/ OidSkipped \/ OidWrong \/ NetworksEnd
  BY <1>2, SkippedB
<1>3. ASSUME NEW text \in Texts, NetworkSensor(text) \/ HomeNet(text) PROVE BInv'
  BY <1>3, NetworkSensorB, HomeNetB
<1>4. ASSUME NEW key \in OidKeys \cup {Default}, OidBegin(key) PROVE BInv'
  BY <1>4, OidBeginB
<1>5. CASE OidDone \/ SensorDone
  BY <1>5, OidDoneB, SensorDoneB
<1>6. ASSUME NEW k \in DOMAIN db, NEW id \in Ids, NEW x,
             SaveTemplate(k, id, x) \/ AddName(k, id, x)
      PROVE  BInv'
  BY <1>6, SaveTemplateB
<1>7. ASSUME NEW e \in todo, ReleaseOid(e) PROVE BInv'
  BY <1>7, ReleaseOidB
<1>8. CASE Delete \/ Destroy
  BY <1>8, DeleteB, DestroyB
<1> QED
  BY <1>1, <1>2, <1>3, <1>4, <1>5, <1>6, <1>7, <1>8 DEF Next

\* BInv holds in every reachable state: networks are found under their own
\* address, a template is stored in one place, and the release has freed what it
\* visited and nothing else.
THEOREM DatabaseInvariant == Spec => []BInv
  BY InitB, NextB, PTL DEF Spec

-----------------------------------------------------------------------------
(* The theorems.                                                           *)

\* What a look-up searches is a map of networks, each under its own address.
LEMMA LookupFacts ==
  ASSUME BInv, NEW l \in Lookups
  PROVE  /\ Keyed(l.map) /\ l.ip \in Addresses /\ l.got.found = hits(l.map, l.ip)
         /\ l.got.miss => hits(l.map, l.ip) = {}
<1>1. pc = "run"
  BY DEF Lookups
<1>2. CASE l \in {[map |-> db, ip |-> ip, got |-> get_sensor(ip)] : ip \in Addresses}
  <2>1. PICK ip \in Addresses : l = [map |-> db, ip |-> ip, got |-> get_sensor(ip)]
    BY <1>2
  <2> QED
    BY <2>1 DEF get_sensor, BInv, Built
<1>3. CASE \E k \in DOMAIN db :
             l \in {[map |-> o.networks, ip |-> ip, got |-> get_network(o, ip)] :
                      o \in OidsOf(db[k]), ip \in Addresses}
  <2>1. PICK k \in DOMAIN db :
               l \in {[map |-> o.networks, ip |-> ip, got |-> get_network(o, ip)] :
                        o \in OidsOf(db[k]), ip \in Addresses}
    BY <1>3
  <2>2. PICK o \in OidsOf(db[k]), ip \in Addresses :
               l = [map |-> o.networks, ip |-> ip, got |-> get_network(o, ip)]
    BY <2>1
  <2>3. IsSensor(db[k], Len(author))
    BY DEF BInv, Built
  <2>4. Keyed(o.networks)
    BY <2>3 DEF OidsOf, IsSensor, IsOid, Range
  <2> QED
    BY <2>2, <2>4 DEF get_network
<1> QED
  BY <1>1, <1>2, <1>3 DEF Lookups

\* Whatever networks are configured and in whatever order the hash map is walked,
\* get_sensor and get_network find an address that lies in one of them.
THEOREM DatabaseLookupComplete == Spec => []LookupComplete
<1>1. ASSUME BInv, NEW l \in Lookups, NEW k \in DOMAIN l.map, Contains(l.map[k], l.ip)
      PROVE  ~l.got.miss
  <2>1. l.map[k].net = k /\ (l.got.miss => hits(l.map, l.ip) = {})
    BY <1>1, LookupFacts DEF Keyed
  <2>2. is_ipv4(l.map[k]) /\ apply_netmask(l.ip, l.map[k].mask) = k
    BY <1>1, <2>1 DEF Contains
  <2>3. k \in hits(l.map, l.ip)
    BY <2>2 DEF hits
  <2> QED
    BY <2>1, <2>3
<1>2. BInv => LookupComplete
  BY <1>1 DEF LookupComplete
<1> QED
  BY <1>2, DatabaseInvariant, PTL

\* Templates and names of an observation id with an entry of its own are those
\* that came with this id, whatever workers store and in whatever order.
THEOREM DatabaseTemplatesApart == Spec => []TemplatesApart
<1>1. BInv => TemplatesApart
  BY DEF BInv
<1> QED
  BY <1>1, DatabaseInvariant, PTL

\* delete_rb_sensors_db frees every stored template exactly once and nothing else,
\* for any sensors whose default has no explicit namesake.
THEOREM DatabaseReleasedOnce == Spec => []ReleasedOnce
<1>1. ASSUME BInv, pc = "done", NEW k \in DOMAIN db, ~Clash(db[k]),
             NEW p \in TemplatesOf(db[k])
      PROVE  frees[p] = 1
  <2>1. IsSensor(db[k], Len(author)) /\ todo = {}
    BY <1>1 DEF BInv, Built, Freed
  <2>2. PICK o \in OidsOf(db[k]) : p \in Range(o.templates)
    BY <1>1 DEF TemplatesOf
  <2>3. \E ref \in Refs(db[k]) : o = oid_of(db[k], ref)
    <3>1. CASE \E id \in DOMAIN db[k].oids : o = db[k].oids[id]
      <4>1. PICK id \in DOMAIN db[k].oids : o = db[k].oids[id]
        BY <3>1
      <4>2. id # Default
        BY <2>1, Constants DEF IsSensor
      <4> QED
        BY <4>1, <4>2 DEF Refs, oid_of
    <3>2. CASE db[k].default # Nothing /\ o = db[k].default
      BY <3>2 DEF Refs, oid_of
    <3> QED
      BY <3>1, <3>2 DEF OidsOf, Range
  <2>4. PICK ref \in Refs(db[k]) : p \in Held(db[k], ref)
    BY <2>2, <2>3 DEF Held
  <2> QED
    BY <2>1, <2>4, <1>1 DEF BInv, Freed
<1>2. BInv => ReleasedOnce
  BY <1>1 DEF ReleasedOnce, BInv, Freed
<1> QED
  BY <1>2, DatabaseInvariant, PTL

\* Netmasks leave addresses addresses.
LEMMA NetmaskInt ==
  ASSUME NEW ip \in Addresses, NEW mask \in 0..W PROVE apply_netmask(ip, mask) # Six
<1>1. W - mask \in 0..W /\ W \in Nat
  BY SensorsAssumption
<1>2. 2^(W - mask) \in Nat /\ 2^(W - mask) # 0
  BY <1>1, SensorsAssumption
<1>3. \A x, y \in Nat : y # 0 => x - (x % y) \in Int
  OBVIOUS
<1>4. ip \in Nat
  BY DEF Addresses
<1>5. apply_netmask(ip, mask) \in Int
  BY <1>2, <1>3, <1>4 DEF apply_netmask
<1> QED
  BY <1>5, SensorsAssumption

\* If all networks have the same netmask, the network that get_sensor or
\* get_network returns contains the address.
THEOREM DatabaseLookupSound == Spec => []LookupSound
<1>1. ASSUME BInv, NEW l \in Lookups, NEW k \in l.got.found,
             ~\E m, n \in DOMAIN l.map : l.map[m].mask # l.map[n].mask
      PROVE  Contains(l.map[k], l.ip)
  <2>1. Keyed(l.map) /\ l.ip \in Addresses /\ l.got.found = hits(l.map, l.ip)
    BY <1>1, LookupFacts
  <2>2. PICK j \in DOMAIN l.map : apply_netmask(l.ip, l.map[j].mask) = k /\ k \in DOMAIN l.map
    BY <2>1 DEF hits
  <2>3. l.map[k].mask = l.map[j].mask /\ l.map[j].mask \in 0..W /\ l.map[k].net = k
    BY <1>1, <2>1, <2>2 DEF Keyed
  <2>4. k # Six
    BY <2>1, <2>2, <2>3, NetmaskInt
  <2> QED
    BY <2>2, <2>3, <2>4 DEF Contains, is_ipv4
<1>2. BInv => LookupSound
  BY <1>1 DEF LookupSound
<1> QED
  BY <1>2, DatabaseInvariant, PTL

-----------------------------------------------------------------------------
(* What the file says.  Entries are given to the operators below, so that  *)
(* facts about them hold of the file before and after a step.              *)

Written == [key : OidKeys \cup {Default, Six}, good : BOOLEAN]
Entries == [net : {Nothing} \cup {masked(n) : n \in Networks}, ids : Seq(Written)]

IsGood(f) == f.net # Nothing /\ f.ids # <<>> /\ \A j \in DOMAIN f.ids : f.ids[j].good

\* The right ones among the first m entries.
GoodIn(fs, m) == {i \in 1..m : IsGood(fs[i])}

\* Sensor s has what the first n observation ids of entry f, number i, say.
Keys(f, n, id) ==
  {j \in 1..n : f.ids[j].key \in OidKeys /\ f.ids[j].key % OidModulus = id}
Says(f, i, n, s) ==
  /\ \A id \in Ids :
       /\ id \in DOMAIN s.oids <=> Keys(f, n, id) # {}
       /\ id \in DOMAIN s.oids =>
            s.oids[id].src[1] = i /\ IsLast(s.oids[id].src[2], Keys(f, n, id))
  /\ s.default # Nothing <=> \E j \in 1..n : f.ids[j].key = Default

\* Entry i is the last right one of network k among the first m.
Decides(fs, m, i, k) ==
  /\ i \in GoodIn(fs, m) /\ fs[i].net.net = k
  /\ \A j \in GoodIn(fs, m) : j > i => fs[j].net.net # k

\* The worker whose turn it is after m entries.
Due(fs, m) == Cardinality(GoodIn(fs, m)) % NumWorkers

\* Database d is what the first m entries say.
Means(fs, m, d) ==
  /\ DOMAIN d = {fs[i].net.net : i \in GoodIn(fs, m)}
  /\ \A k \in DOMAIN d : \E i \in 1..m :
       /\ Decides(fs, m, i, k) /\ d[k].mask = fs[i].net.mask
       /\ d[k].worker = Due(fs, i - 1) /\ Says(fs[i], i, Len(fs[i].ids), d[k])

Reading == {"oids", "home_nets"}

\* Entries read to their end, and observation ids of the current entry.
ended == IF pc \in Reading THEN last - 1 ELSE last
oids_done == Len(file[last].ids) - (IF pc = "home_nets" THEN 1 ELSE 0)

\* The sensor being built is what was read of the current entry.
Current ==
  /\ last > 0 /\ file[last].net # Nothing
  /\ \A j \in DOMAIN file[last].ids : file[last].ids[j].good
  /\ sensor.net = file[last].net.net /\ sensor.mask = file[last].net.mask
  /\ Says(file[last], last, oids_done, sensor)

CurrentOid ==
  LET n == Len(file[last].ids)
      key == file[last].ids[n].key
  IN /\ n > 0 /\ oid.src = <<last, n>> /\ key # Six
     /\ key # Default => oid.id = key % OidModulus

\* The inductive invariant behind ConfigMeaning.
Filed ==
  /\ file \in Seq(Entries)
  /\ Means(file, ended, db)
  /\ pc \in Loading => worker_idx = Due(file, ended)
  /\ pc = "load" => file = <<>>
  /\ pc \in Reading => Current
  /\ pc = "home_nets" => CurrentOid

-----------------------------------------------------------------------------
(* Turns.                                                                  *)

LEMMA Remainder ==
  ASSUME NEW m \in Nat \ {0}, NEW x \in Int, NEW q \in Int, m * q <= x, x < m * q + m
  PROVE  x \div m = q /\ x % m = x - m * q
  OBVIOUS

LEMMA NextRemainder ==
  ASSUME NEW m \in Nat \ {0}, NEW c \in Nat
  PROVE  /\ 0 % m = 0
         /\ (c + 1) % m = IF (c % m) + 1 >= m THEN 0 ELSE (c % m) + 1
<1> DEFINE q == c \div m
           r == c % m
<1>1. q \in Int /\ m * q <= c /\ c < m * q + m
  OBVIOUS
<1>2. \A x, p \in Int : m * p <= x /\ x < m * p + m => x % m = x - m * p
  BY Remainder
<1>3. r = c - m * q
  BY <1>1, <1>2
<1>4. m * (q + 1) = m * q + m /\ m * q \in Int /\ q + 1 \in Int
  BY <1>1
<1>5. 0 % m = 0
  OBVIOUS
<1> HIDE DEF q, r
<1>6. CASE r + 1 >= m
  <2>1. r + 1 = m
    BY <1>1, <1>3, <1>4, <1>6
  <2>2. m * (q + 1) <= c + 1 /\ c + 1 < m * (q + 1) + m
    BY <1>1, <1>3, <1>4, <2>1
  <2>3. (c + 1) % m = (c + 1) - m * (q + 1)
    <3>1. c + 1 \in Int
      OBVIOUS
    <3> QED
      BY <1>2, <1>4, <2>2, <3>1
  <2>4. (c + 1) % m = 0
    BY <1>3, <1>4, <2>1, <2>3
  <2> QED
    BY <1>5, <1>6, <2>4 DEF r
<1>7. CASE ~(r + 1 >= m)
  <2>1. m * q <= c + 1 /\ c + 1 < m * q + m
    BY <1>1, <1>3, <1>4, <1>7
  <2>2. (c + 1) % m = (c + 1) - m * q
    <3>1. c + 1 \in Int
      OBVIOUS
    <3> QED
      BY <1>1, <1>2, <2>1, <3>1
  <2>3. (c + 1) % m = r + 1
    BY <1>3, <1>4, <2>2
  <2> QED
    BY <1>5, <1>7, <2>3 DEF r
<1> QED
  BY <1>6, <1>7

\* One entry more.
LEMMA GoodNext ==
  ASSUME NEW fs, NEW m \in Nat
  PROVE  /\ IsGood(fs[m + 1]) => GoodIn(fs, m + 1) = GoodIn(fs, m) \cup {m + 1}
         /\ ~IsGood(fs[m + 1]) => GoodIn(fs, m + 1) = GoodIn(fs, m)
         /\ m + 1 \notin GoodIn(fs, m) /\ GoodIn(fs, m) \subseteq 1..m
<1>1. 1..(m + 1) = 1..m \cup {m + 1}
  OBVIOUS
<1> QED
  BY <1>1 DEF GoodIn

LEMMA GoodFinite ==
  ASSUME NEW fs, NEW m \in Nat
  PROVE  IsFiniteSet(GoodIn(fs, m)) /\ Cardinality(GoodIn(fs, m)) \in Nat
<1>1. IsFiniteSet(1..m) /\ GoodIn(fs, m) \subseteq 1..m
  BY FS_Interval DEF GoodIn
<1>2. IsFiniteSet(GoodIn(fs, m))
  BY <1>1, FS_Subset
<1> QED
  BY <1>2, FS_CardinalityType

\* Workers are handed out in turn to right entries.
LEMMA DueNext ==
  ASSUME NEW fs, NEW m \in Nat
  PROVE  Due(fs, m + 1) = IF IsGood(fs[m + 1]) THEN next_worker(Due(fs, m)) ELSE Due(fs, m)
<1>1. CASE ~IsGood(fs[m + 1])
  <2>1. GoodIn(fs, m + 1) = GoodIn(fs, m)
    BY <1>1, GoodNext
  <2> QED
    BY <1>1, <2>1 DEF Due
<1>2. CASE IsGood(fs[m + 1])
  <2> DEFINE c == Cardinality(GoodIn(fs, m))
  <2>1. GoodIn(fs, m + 1) = GoodIn(fs, m) \cup {m + 1} /\ m + 1 \notin GoodIn(fs, m)
    BY <1>2, GoodNext DEF GoodIn
  <2>2. Cardinality(GoodIn(fs, m + 1)) = c + 1 /\ c \in Nat
    BY <2>1, GoodFinite, FS_AddElement
  <2> HIDE DEF c
  <2>3. (c + 1) % NumWorkers = next_worker(c % NumWorkers)
    BY <2>2, NextRemainder, SensorsAssumption DEF next_worker
  <2> QED
    BY <2>2, <2>3, <1>2 DEF Due, c
<1> QED
  BY <1>1, <1>2

LEMMA DueFirst == ASSUME NEW fs PROVE GoodIn(fs, 0) = {} /\ Due(fs, 0) = 0
<1>1. GoodIn(fs, 0) = {}
  BY DEF GoodIn
<1>2. Cardinality(GoodIn(fs, 0)) = 0
  BY <1>1, FS_EmptySet
<1> QED
  BY <1>1, <1>2, NextRemainder, SensorsAssumption DEF Due

-----------------------------------------------------------------------------
(* What sensors and databases say depends only on what was read.           *)

LEMMA SaysLocal ==
  ASSUME NEW f, NEW g, NEW i, NEW n, NEW s, Says(f, i, n, s),
         \A j \in 1..n : g.ids[j] = f.ids[j]
  PROVE  Says(g, i, n, s)
<1>1. \A id : Keys(g, n, id) = Keys(f, n, id)
  BY DEF Keys
<1> QED
  BY <1>1 DEF Says

\* Sensors that differ in worker, templates and names say the same.
LEMMA SaysSame ==
  ASSUME NEW f, NEW i, NEW n, NEW s, NEW t, Says(f, i, n, s), DOMAIN t.oids = DOMAIN s.oids,
         \A id \in DOMAIN s.oids : t.oids[id].src = s.oids[id].src,
         t.default # Nothing <=> s.default # Nothing
  PROVE  Says(f, i, n, t)
  BY DEF Says

LEMMA GoodLocal ==
  ASSUME NEW fs, NEW gs, NEW m, \A i \in 1..m : gs[i] = fs[i]
  PROVE  GoodIn(gs, m) = GoodIn(fs, m)
  BY DEF GoodIn

LEMMA MeansLocal ==
  ASSUME NEW fs, NEW gs, NEW m \in Nat, NEW d, Means(fs, m, d), \A i \in 1..m : gs[i] = fs[i]
  PROVE  Means(gs, m, d) /\ Due(gs, m) = Due(fs, m)
<1>1. GoodIn(gs, m) = GoodIn(fs, m) /\ \A i \in GoodIn(fs, m) : i \in 1..m
  BY GoodLocal DEF GoodIn
<1>2. ASSUME NEW i \in 1..m PROVE Due(gs, i - 1) = Due(fs, i - 1)
  <2>1. \A j \in 1..(i - 1) : j \in 1..m
    OBVIOUS
  <2>2. GoodIn(gs, i - 1) = GoodIn(fs, i - 1)
    BY <2>1, GoodLocal
  <2> QED
    BY <2>2 DEF Due
<1>3. DOMAIN d = {gs[i].net.net : i \in GoodIn(gs, m)}
  BY <1>1 DEF Means
<1>4. ASSUME NEW k \in DOMAIN d
      PROVE  \E i \in 1..m :
               /\ Decides(gs, m, i, k) /\ d[k].mask = gs[i].net.mask
               /\ d[k].worker = Due(gs, i - 1) /\ Says(gs[i], i, Len(gs[i].ids), d[k])
  <2>1. PICK i \in 1..m :
               /\ Decides(fs, m, i, k) /\ d[k].mask = fs[i].net.mask
               /\ d[k].worker = Due(fs, i - 1) /\ Says(fs[i], i, Len(fs[i].ids), d[k])
    BY DEF Means
  <2>2. Decides(gs, m, i, k)
    BY <1>1, <2>1 DEF Decides
  <2> QED
    BY <2>1, <2>2, <1>2
<1> QED
  BY <1>1, <1>3, <1>4 DEF Means, Due

LEMMA MeansSame ==
  ASSUME NEW fs, NEW m, NEW d, NEW e, Means(fs, m, d), DOMAIN e = DOMAIN d,
         \A k \in DOMAIN d :
           /\ e[k].mask = d[k].mask /\ e[k].worker = d[k].worker
           /\ DOMAIN e[k].oids = DOMAIN d[k].oids
           /\ \A id \in DOMAIN d[k].oids : e[k].oids[id].src = d[k].oids[id].src
           /\ (e[k].default # Nothing <=> d[k].default # Nothing)
  PROVE  Means(fs, m, e)
<1>1. ASSUME NEW k \in DOMAIN d
      PROVE  \E i \in 1..m :
               /\ Decides(fs, m, i, k) /\ e[k].mask = fs[i].net.mask
               /\ e[k].worker = Due(fs, i - 1) /\ Says(fs[i], i, Len(fs[i].ids), e[k])
  <2>1. PICK i \in 1..m :
               /\ Decides(fs, m, i, k) /\ d[k].mask = fs[i].net.mask
               /\ d[k].worker = Due(fs, i - 1) /\ Says(fs[i], i, Len(fs[i].ids), d[k])
    BY DEF Means
  <2>2. Says(fs[i], i, Len(fs[i].ids), e[k])
    BY <2>1, SaysSame
  <2> QED
    BY <2>1, <2>2
<1> QED
  BY <1>1 DEF Means

\* A wrong entry takes nothing with it.
LEMMA MeansSkip ==
  ASSUME NEW fs, NEW m \in Nat, NEW d, Means(fs, m, d), ~IsGood(fs[m + 1])
  PROVE  Means(fs, m + 1, d) /\ Due(fs, m + 1) = Due(fs, m)
<1>1. GoodIn(fs, m + 1) = GoodIn(fs, m) /\ 1..m \subseteq 1..(m + 1)
  BY GoodNext
<1>2. \A i, k : Decides(fs, m + 1, i, k) <=> Decides(fs, m, i, k)
  BY <1>1 DEF Decides
<1> QED
  BY <1>1, <1>2 DEF Means, Due

\* A right entry decides its network.
LEMMA MeansAdd ==
  ASSUME NEW fs, NEW m \in Nat, NEW d, Means(fs, m, d), IsGood(fs[m + 1]), NEW s,
         s.mask = fs[m + 1].net.mask, s.worker = Due(fs, m),
         Says(fs[m + 1], m + 1, Len(fs[m + 1].ids), s)
  PROVE  Means(fs, m + 1, insert(d, fs[m + 1].net.net, s))
<1> DEFINE x == fs[m + 1].net.net
           e == insert(d, x, s)
<1>1. /\ GoodIn(fs, m + 1) = GoodIn(fs, m) \cup {m + 1} /\ m + 1 \notin GoodIn(fs, m)
      /\ GoodIn(fs, m) \subseteq 1..m /\ 1..m \subseteq 1..(m + 1)
  BY GoodNext
<1>2. /\ DOMAIN e = DOMAIN d \cup {x} /\ e[x] = s
      /\ \A k \in DOMAIN d : k # x => e[k] = d[k]
  BY DEF insert
<1> HIDE DEF e
<1>3. DOMAIN e = {fs[i].net.net : i \in GoodIn(fs, m + 1)}
  BY <1>1, <1>2 DEF Means
<1> HIDE DEF x
<1>4. ASSUME NEW k \in DOMAIN e
      PROVE  \E i \in 1..(m + 1) :
               /\ Decides(fs, m + 1, i, k) /\ e[k].mask = fs[i].net.mask
               /\ e[k].worker = Due(fs, i - 1) /\ Says(fs[i], i, Len(fs[i].ids), e[k])
  <2>1. CASE k = x
    <3>1. \A j \in GoodIn(fs, m + 1) : ~(j > m + 1)
      BY <1>1
    <3>2. Decides(fs, m + 1, m + 1, k)
      BY <2>1, <3>1, <1>1 DEF Decides, x
    <3>3. m + 1 \in 1..(m + 1) /\ (m + 1) - 1 = m
      OBVIOUS
    <3> QED
      BY <2>1, <3>2, <3>3, <1>2
  <2>2. CASE k # x
    <3>1. PICK i \in 1..m :
                 /\ Decides(fs, m, i, k) /\ d[k].mask = fs[i].net.mask
                 /\ d[k].worker = Due(fs, i - 1) /\ Says(fs[i], i, Len(fs[i].ids), d[k])
      BY <2>2, <1>2 DEF Means
    <3>2. Decides(fs, m + 1, i, k)
      BY <3>1, <2>2, <1>1 DEF Decides, x
    <3> QED
      BY <3>1, <3>2, <2>2, <1>1, <1>2
  <2> QED
    BY <2>1, <2>2
<1> QED
  BY <1>3, <1>4 DEF Means, e, x

-----------------------------------------------------------------------------
(* One observation id more.                                                *)

LEMMA KeysNext ==
  ASSUME NEW f, NEW n \in Nat, NEW id
  PROVE  /\ Keys(f, n, id) \subseteq 1..n
         /\ f.ids[n + 1].key \in OidKeys /\ f.ids[n + 1].key % OidModulus = id =>
              Keys(f, n + 1, id) = Keys(f, n, id) \cup {n + 1}
         /\ ~(f.ids[n + 1].key \in OidKeys /\ f.ids[n + 1].key % OidModulus = id) =>
              Keys(f, n + 1, id) = Keys(f, n, id)
<1>1. 1..(n + 1) = 1..n \cup {n + 1}
  OBVIOUS
<1> QED
  BY <1>1 DEF Keys

LEMMA SaysSkip ==
  ASSUME NEW f, NEW i, NEW n \in Nat, NEW s, Says(f, i, n, s), f.ids[n + 1].key = Six
  PROVE  Says(f, i, n + 1, s)
<1>1. Six # Default /\ Six \notin OidKeys
  <2>1. Six # Default /\ Six \notin Int /\ \A x \in OidKeys : x \in Nat
    BY SensorsAssumption
  <2>2. \A x \in OidKeys : x \in Int
    BY <2>1
  <2> QED
    BY <2>1, <2>2
<1>2. 1..(n + 1) = 1..n \cup {n + 1}
  OBVIOUS
<1>3. \A id : Keys(f, n + 1, id) = Keys(f, n, id)
  BY <1>1, KeysNext
<1>4. (\E j \in 1..(n + 1) : f.ids[j].key = Default) <=> \E j \in 1..n : f.ids[j].key = Default
  BY <1>1, <1>2
<1> QED
  BY <1>3, <1>4 DEF Says

\* The observation id built last is added to the sensor.
LEMMA SaysAdd ==
  ASSUME NEW f, NEW i, NEW n \in Nat, NEW s, Says(f, i, n, s), IsSensor(s, 0),
         NEW o, IsOid(o, 0), o.src = <<i, n + 1>>,
         NEW key \in OidKeys \cup {Default}, key = f.ids[n + 1].key,
         key # Default => o.id = key % OidModulus
  PROVE  LET t == add_observation_id(s, key, o)
         IN Says(f, i, n + 1, t) /\ t.net = s.net /\ t.mask = s.mask
<1> DEFINE t == add_observation_id(s, key, o)
           m == insert(s.oids, o.id, o)
<1>1. s = [net |-> s.net, mask |-> s.mask, worker |-> s.worker,
           default |-> s.default, oids |-> s.oids]
  BY DEF IsSensor
<1>2. 1..(n + 1) = 1..n \cup {n + 1}
  OBVIOUS
<1>3. CASE key = Default
  <2>1. t = [net |-> s.net, mask |-> s.mask, worker |-> s.worker,
             default |-> o, oids |-> s.oids]
    BY <1>1, <1>3 DEF add_observation_id
  <2> HIDE DEF t
  <2>2. t.oids = s.oids /\ t.default # Nothing /\ t.net = s.net /\ t.mask = s.mask
    BY <2>1, OidNotNothing
  <2>3. key \notin OidKeys
    BY <1>3, Constants
  <2>4. \A id : Keys(f, n + 1, id) = Keys(f, n, id)
    BY <2>3, KeysNext
  <2>5. \E j \in 1..(n + 1) : f.ids[j].key = Default
    BY <1>2, <1>3
  <2>6. Says(f, i, n + 1, t)
    BY <2>2, <2>4, <2>5 DEF Says
  <2> QED
    BY <2>2, <2>6 DEF t
<1>4. CASE key # Default
  <2>1. t = [net |-> s.net, mask |-> s.mask, worker |-> s.worker,
             default |-> s.default, oids |-> m]
    BY <1>1, <1>4 DEF add_observation_id
  <2>2. /\ DOMAIN m = DOMAIN s.oids \cup {o.id} /\ m[o.id] = o
        /\ \A x \in DOMAIN s.oids : x # o.id => m[x] = s.oids[x]
    BY DEF insert
  <2> HIDE DEF t, m
  <2>3. t.oids = m /\ t.default = s.default /\ t.net = s.net /\ t.mask = s.mask
    BY <2>1
  <2>4. key \in OidKeys /\ o.id = key % OidModulus
    BY <1>4
  <2>5. (\E j \in 1..(n + 1) : f.ids[j].key = Default) <=> \E j \in 1..n : f.ids[j].key = Default
    BY <1>2, <1>4
  <2>6. ASSUME NEW id \in Ids
        PROVE  /\ id \in DOMAIN m <=> Keys(f, n + 1, id) # {}
               /\ id \in DOMAIN m =>
                    m[id].src[1] = i /\ IsLast(m[id].src[2], Keys(f, n + 1, id))
    <3>1. CASE id = o.id
      <4>1. Keys(f, n + 1, id) = Keys(f, n, id) \cup {n + 1} /\ Keys(f, n, id) \subseteq 1..n
        BY <3>1, <2>4, KeysNext
      <4>2. m[id].src[1] = i /\ m[id].src[2] = n + 1
        BY <3>1, <2>2
      <4>3. IsLast(n + 1, Keys(f, n + 1, id))
        BY <4>1 DEF IsLast
      <4> QED
        BY <4>1, <4>2, <4>3, <3>1, <2>2
    <3>2. CASE id # o.id
      <4>1. Keys(f, n + 1, id) = Keys(f, n, id)
        BY <3>2, <2>4, KeysNext
      <4>2. id \in DOMAIN m <=> id \in DOMAIN s.oids
        BY <3>2, <2>2
      <4> QED
        BY <4>1, <4>2, <3>2, <2>2 DEF Says
    <3> QED
      BY <3>1, <3>2
  <2>7. Says(f, i, n + 1, t)
    BY <2>3, <2>5, <2>6 DEF Says
  <2> QED
    BY <2>3, <2>7 DEF t
<1> QED
  BY <1>3, <1>4

LEMMA SaysNothing ==
  ASSUME NEW f, NEW i, NEW s, s.default = Nothing, s.oids = <<>> PROVE Says(f, i, 0, s)
<1>1. DOMAIN <<>> = {} /\ 1..0 = {}
  OBVIOUS
<1>2. \A id : Keys(f, 0, id) = {}
  BY <1>1 DEF Keys
<1> QED
  BY <1>1, <1>2 DEF Says

-----------------------------------------------------------------------------
(* The steps of the parser.                                                *)

\* The history of a step.
LEMMA WriteFacts ==
  ASSUME file \in Seq(Entries), NEW e \in Entries, write(e)
  PROVE  /\ file' \in Seq(Entries) /\ Len(file') = last + 1 /\ last \in Nat
         /\ file'[last + 1] = e /\ \A i \in 1..last : file'[i] = file[i]
  BY DEF write, last

LEMMA NoteFacts ==
  ASSUME file \in Seq(Entries), last > 0, NEW v \in Written, note("ids", v)
  PROVE  /\ file' \in Seq(Entries) /\ Len(file') = last /\ last \in Nat
         /\ \A i \in 1..(last - 1) : file'[i] = file[i]
         /\ file'[last].net = file[last].net
         /\ file[last].ids \in Seq(Written) /\ file'[last].ids \in Seq(Written)
         /\ Len(file'[last].ids) = Len(file[last].ids) + 1
         /\ file'[last].ids[Len(file[last].ids) + 1] = v
         /\ \A j \in 1..Len(file[last].ids) : file'[last].ids[j] = file[last].ids[j]
<1> DEFINE n == last
           f == file[n]
           g == [f EXCEPT !.ids = Append(f.ids, v)]
<1>1. n \in Nat /\ n > 0 /\ n \in DOMAIN file /\ DOMAIN file = 1..n /\ f \in Entries
  BY DEF last
<1>2. f.ids \in Seq(Written) /\ f = [net |-> f.net, ids |-> f.ids]
  BY <1>1 DEF Entries
<1>3. file' = [file EXCEPT ![n] = g]
  BY DEF note
<1>4. Append(f.ids, v) \in Seq(Written)
  BY <1>2
<1>5. g \in Entries /\ g.net = f.net /\ g.ids = Append(f.ids, v)
  BY <1>1, <1>2, <1>4 DEF Entries
<1>6. file' \in Seq(Entries) /\ Len(file') = n /\ file'[n] = g
      /\ \A i \in 1..(n - 1) : file'[i] = file[i]
  <2> HIDE DEF g
  <2>1. file' = [i \in 1..n |-> IF i = n THEN g ELSE file[i]]
    BY <1>1, <1>3
  <2>2. \A i \in 1..n : (IF i = n THEN g ELSE file[i]) \in Entries
    BY <1>1, <1>5
  <2> QED
    BY <1>1, <2>1, <2>2
<1>7. /\ Len(Append(f.ids, v)) = Len(f.ids) + 1 /\ Append(f.ids, v)[Len(f.ids) + 1] = v
      /\ \A j \in 1..Len(f.ids) : Append(f.ids, v)[j] = f.ids[j]
  BY <1>2
<1> HIDE DEF g, f
<1> QED
  BY <1>1, <1>2, <1>4, <1>5, <1>6, <1>7 DEF f

LEMMA NothingApart == ASSUME NEW n \in Networks PROVE masked(n) # Nothing
<1>1. DOMAIN Nothing = {"none"}
  BY DEF Nothing
<1>2. CASE n \in [net : Addresses, mask : Masks]
  <2>1. DOMAIN n = {"net", "mask"} /\ \A v : DOMAIN [n EXCEPT !.net = v] = DOMAIN n
    BY <1>2
  <2>2. DOMAIN masked(n) = {"net", "mask"}
    BY <2>1 DEF masked
  <2> QED
    BY <1>1, <2>2
<1>3. CASE n = [net |-> Six, mask |-> W]
  <2>1. masked(n) = n /\ DOMAIN n = {"net", "mask"}
    BY <1>3 DEF masked, is_ipv4
  <2> QED
    BY <1>1, <2>1
<1> QED
  BY <1>2, <1>3 DEF Networks

\* Entries before the current one are not touched by what is read of it.
LEMMA EndedF ==
  ASSUME Filed
  PROVE  /\ last \in Nat /\ ended \in Nat /\ DOMAIN file = 1..last
         /\ pc \in Reading => ended = last - 1 /\ ended + 1 = last /\ last > 0
         /\ pc \notin Reading => ended = last
<1>1. last \in Nat /\ DOMAIN file = 1..last
  BY DEF Filed, last
<1> QED
  BY <1>1 DEF Filed, Current, ended

LEMMA UnchangedF ==
  ASSUME Filed, UNCHANGED <<db, file, worker_idx>>, pc \notin Reading, pc' \notin Reading,
         pc' # "load", pc' \in Loading => pc \in Loading
  PROVE  Filed'
<1>1. ended' = ended
  BY DEF ended, last
<1> QED
  BY <1>1 DEF Filed, Reading

LEMMA NetworkSkippedF == ASSUME Filed, NetworkSkipped PROVE Filed'
<1> DEFINE e == [net |-> Nothing, ids |-> <<>>]
<1>1. pc = "networks" /\ pc' = pc /\ write(e) /\ UNCHANGED <<db, worker_idx>>
  BY DEF NetworkSkipped
<1>2. e \in Entries
  BY DEF Entries
<1>3. file \in Seq(Entries) /\ Means(file, ended, db) /\ worker_idx = Due(file, ended)
  BY <1>1 DEF Filed, Loading
<1>4. ended = last /\ last \in Nat
  BY <1>1, EndedF DEF Reading
<1>5. /\ file' \in Seq(Entries) /\ Len(file') = last + 1 /\ file'[last + 1] = e
      /\ \A i \in 1..last : file'[i] = file[i]
  BY <1>1, <1>2, <1>3, WriteFacts
<1>6. ~IsGood(file'[last + 1])
  BY <1>5 DEF IsGood
<1>7. ended' = last + 1
  BY <1>1, <1>5 DEF ended, last, Reading
<1>8. Means(file', last, db) /\ Due(file', last) = Due(file, last)
  BY <1>3, <1>4, <1>5, MeansLocal
<1>9. Means(file', last + 1, db) /\ Due(file', last + 1) = Due(file', last)
  BY <1>4, <1>6, <1>8, MeansSkip
<1> QED
  BY <1>1, <1>3, <1>4, <1>5, <1>7, <1>8, <1>9 DEF Filed, Reading

LEMMA NetworkSensorF ==
  ASSUME Filed, NEW text \in Texts, NetworkSensor(text) PROVE Filed'
<1>1. PICK n \in parse_address(text) :
             sensor' = NewSensor(masked(n)) /\ write([net |-> masked(n), ids |-> <<>>])
  BY DEF NetworkSensor
<1> DEFINE e == [net |-> masked(n), ids |-> <<>>]
<1>2. pc = "networks" /\ pc' = "oids" /\ UNCHANGED <<db, worker_idx>>
  BY DEF NetworkSensor
<1>3. n \in Networks
  BY DEF Texts, parse_address
<1>4. e \in Entries /\ e.net = masked(n) /\ e.ids = <<>>
  BY <1>3 DEF Entries
<1>5. file \in Seq(Entries) /\ Means(file, ended, db) /\ worker_idx = Due(file, ended)
  BY <1>2 DEF Filed, Loading
<1>6. ended = last /\ last \in Nat
  BY <1>2, EndedF DEF Reading
<1>7. /\ file' \in Seq(Entries) /\ Len(file') = last + 1 /\ file'[last + 1] = e
      /\ \A i \in 1..last : file'[i] = file[i]
  BY <1>1, <1>4, <1>5, WriteFacts
<1>8. Means(file', last, db) /\ Due(file', last) = Due(file, last)
  BY <1>5, <1>6, <1>7, MeansLocal
<1>9. ended' = last /\ last' = last + 1 /\ oids_done' = 0
  <2>1. Len(<<>>) = 0
    OBVIOUS
  <2> QED
    BY <1>2, <1>4, <1>6, <1>7, <2>1 DEF ended, last, oids_done, Reading
<1>10. /\ sensor'.net = masked(n).net /\ sensor'.mask = masked(n).mask
       /\ sensor'.default = Nothing /\ sensor'.oids = <<>>
  BY <1>1 DEF NewSensor
<1>11. Says(file'[last + 1], last + 1, 0, sensor')
  BY <1>10, SaysNothing
<1>12. DOMAIN <<>> = {}
  OBVIOUS
<1> HIDE DEF e
<1>13. Current'
  BY <1>3, <1>4, <1>6, <1>7, <1>9, <1>10, <1>11, <1>12, NothingApart DEF Current
<1> QED
  BY <1>2, <1>5, <1>6, <1>7, <1>8, <1>9, <1>13 DEF Filed

\* The current entry gets an observation id that was not understood, or the one
\* that is built next.
LEMMA NoteF ==
  ASSUME Filed, pc = "oids", NEW v \in Written, note("ids", v), UNCHANGED <<db, worker_idx>>
  PROVE  /\ file' \in Seq(Entries) /\ Len(file') = last /\ last \in Nat /\ last > 0
         /\ Means(file', last - 1, db) /\ worker_idx = Due(file', last - 1)
         /\ file'[last].net = file[last].net /\ file'[last].net # Nothing
         /\ Len(file'[last].ids) = Len(file[last].ids) + 1 /\ Len(file[last].ids) \in Nat
         /\ DOMAIN file'[last].ids = 1..(Len(file[last].ids) + 1)
         /\ file'[last].ids[Len(file[last].ids) + 1] = v
         /\ v.good => \A j \in DOMAIN file'[last].ids : file'[last].ids[j].good
         /\ sensor.net = file'[last].net.net /\ sensor.mask = file'[last].net.mask
         /\ Says(file'[last], last, Len(file[last].ids), sensor)
<1> DEFINE n == Len(file[last].ids)
<1>1. /\ file \in Seq(Entries) /\ Current /\ Means(file, ended, db)
      /\ worker_idx = Due(file, ended) /\ ended = last - 1 /\ last \in Nat /\ last > 0
      /\ last - 1 \in Nat
  <2>1. ended = last - 1 /\ last \in Nat /\ last > 0
    BY EndedF DEF Reading
  <2> QED
    BY <2>1 DEF Filed, Reading, Loading
<1>2. /\ file' \in Seq(Entries) /\ Len(file') = last
      /\ \A i \in 1..(last - 1) : file'[i] = file[i]
      /\ file'[last].net = file[last].net
      /\ file[last].ids \in Seq(Written) /\ file'[last].ids \in Seq(Written)
      /\ Len(file'[last].ids) = n + 1
      /\ file'[last].ids[n + 1] = v
      /\ \A j \in 1..n : file'[last].ids[j] = file[last].ids[j]
  BY <1>1, NoteFacts
<1>3. Means(file', last - 1, db) /\ Due(file', last - 1) = Due(file, last - 1)
  BY <1>1, <1>2, MeansLocal
<1>4. n \in Nat /\ DOMAIN file[last].ids = 1..n /\ DOMAIN file'[last].ids = 1..(n + 1)
  BY <1>2
<1>5. Says(file[last], last, n, sensor)
  BY <1>1, <1>4 DEF Current, oids_done
<1> HIDE DEF n
<1>6. Says(file'[last], last, n, sensor)
  BY <1>2, <1>5, SaysLocal
<1>7. v.good => \A j \in 1..(n + 1) : file'[last].ids[j].good
  <2>1. \A j \in 1..(n + 1) : j \in 1..n \/ j = n + 1
    BY <1>4
  <2> QED
    BY <2>1, <1>1, <1>2, <1>4 DEF Current
<1> QED
  BY <1>1, <1>2, <1>3, <1>4, <1>6, <1>7 DEF Current, n

LEMMA OidSkippedF == ASSUME Filed, OidSkipped PROVE Filed'
<1> DEFINE v == [key |-> Six, good |-> TRUE]
           n == Len(file[last].ids)
<1>1. /\ pc = "oids" /\ pc' = pc /\ note("ids", v) /\ UNCHANGED <<db, worker_idx, sensor>>
  BY DEF OidSkipped
<1>2. v \in Written /\ v.key = Six /\ v.good
  BY DEF Written
<1> HIDE DEF v
<1>3. /\ file' \in Seq(Entries) /\ Len(file') = last /\ last \in Nat /\ last > 0
      /\ Means(file', last - 1, db) /\ worker_idx = Due(file', last - 1)
      /\ file'[last].net # Nothing
      /\ Len(file'[last].ids) = n + 1 /\ n \in Nat /\ file'[last].ids[n + 1] = v
      /\ \A j \in DOMAIN file'[last].ids : file'[last].ids[j].good
      /\ sensor.net = file'[last].net.net /\ sensor.mask = file'[last].net.mask
      /\ Says(file'[last], last, n, sensor)
  BY <1>1, <1>2, NoteF
<1> HIDE DEF n
<1>4. Says(file'[last], last, n + 1, sensor)
  BY <1>2, <1>3, SaysSkip
<1>5. ended' = last - 1 /\ last' = last /\ oids_done' = n + 1
  BY <1>1, <1>3 DEF ended, last, oids_done, Reading
<1>6. Current'
  BY <1>1, <1>3, <1>4, <1>5 DEF Current
<1> QED
  BY <1>1, <1>3, <1>5, <1>6 DEF Filed

\* The sensor is forgotten, and the entry is a wrong one.
LEMMA OidWrongF == ASSUME Filed, OidWrong PROVE Filed'
<1> DEFINE v == [key |-> Six, good |-> FALSE]
           n == Len(file[last].ids)
<1>1. pc = "oids" /\ pc' = "networks" /\ note("ids", v) /\ UNCHANGED <<db, worker_idx>>
  BY DEF OidWrong
<1>2. v \in Written /\ ~v.good
  BY DEF Written
<1> HIDE DEF v
<1>3. /\ file' \in Seq(Entries) /\ Len(file') = last /\ last \in Nat /\ last > 0
      /\ Means(file', last - 1, db) /\ worker_idx = Due(file', last - 1)
      /\ n \in Nat /\ DOMAIN file'[last].ids = 1..(n + 1) /\ file'[last].ids[n + 1] = v
  BY <1>1, <1>2, NoteF
<1>4. ~IsGood(file'[last])
  BY <1>2, <1>3 DEF IsGood
<1>5. last - 1 \in Nat /\ (last - 1) + 1 = last
  BY <1>3
<1>6. Means(file', last, db) /\ Due(file', last) = Due(file', last - 1)
  <2> DEFINE m == last - 1
  <2> HIDE DEF m
  <2>1. Means(file', m + 1, db) /\ Due(file', m + 1) = Due(file', m)
    BY <1>3, <1>4, <1>5, MeansSkip DEF m
  <2> QED
    BY <2>1, <1>5 DEF m
<1>7. ended' = last
  BY <1>1, <1>3 DEF ended, last, Reading
<1> QED
  BY <1>1, <1>3, <1>6, <1>7 DEF Filed, Reading

LEMMA OidBeginF ==
  ASSUME Filed, NEW key \in OidKeys \cup {Default}, OidBegin(key) PROVE Filed'
<1> DEFINE v == [key |-> key, good |-> TRUE]
           n == Len(file[last].ids)
           id == parse_observation_id_number(key)
<1>1. /\ pc = "oids" /\ pc' = "home_nets" /\ note("ids", v)
      /\ UNCHANGED <<db, worker_idx, sensor>> /\ oid' = NewOid(id, <<last, n + 1>>)
  BY DEF OidBegin
<1>2. v \in Written /\ v.key = key /\ v.good
  BY DEF Written
<1>3. oid'.src = <<last, n + 1>> /\ oid'.id = id
  BY <1>1 DEF NewOid
<1>4. key # Six /\ (key # Default => id = key % OidModulus)
  <2>1. Six # Default /\ Six \notin Int /\ \A x \in OidKeys : x \in Nat
    BY SensorsAssumption
  <2>2. \A x \in OidKeys : x \in Int
    BY <2>1
  <2> QED
    BY <2>1, <2>2 DEF parse_observation_id_number
<1> HIDE DEF v, id
<1>5. /\ file' \in Seq(Entries) /\ Len(file') = last /\ last \in Nat /\ last > 0
      /\ Means(file', last - 1, db) /\ worker_idx = Due(file', last - 1)
      /\ file'[last].net # Nothing
      /\ Len(file'[last].ids) = n + 1 /\ n \in Nat /\ file'[last].ids[n + 1] = v
      /\ \A j \in DOMAIN file'[last].ids : file'[last].ids[j].good
      /\ sensor.net = file'[last].net.net /\ sensor.mask = file'[last].net.mask
      /\ Says(file'[last], last, n, sensor)
  BY <1>1, <1>2, NoteF
<1> HIDE DEF n
<1>6. ended' = last - 1 /\ last' = last /\ oids_done' = n
  BY <1>1, <1>5 DEF ended, last, oids_done, Reading
<1>7. Current'
  BY <1>1, <1>5, <1>6 DEF Current
<1>8. CurrentOid'
  BY <1>2, <1>3, <1>4, <1>5, <1>6 DEF CurrentOid
<1> QED
  BY <1>1, <1>5, <1>6, <1>7, <1>8 DEF Filed

LEMMA HomeNetF == ASSUME BInv, Filed, NEW text \in Texts, HomeNet(text) PROVE Filed'
<1>1. /\ pc = "home_nets" /\ pc' = pc /\ UNCHANGED <<db, worker_idx, sensor, file>>
      /\ \E m : oid' = [oid EXCEPT !.networks = m]
  BY DEF HomeNet, more_home_nets
<1>2. IsOid(oid, 0)
  BY <1>1, BuildingB DEF Loading
<1>3. oid'.src = oid.src /\ oid'.id = oid.id
  <2>1. oid = [id |-> oid.id, src |-> oid.src, networks |-> oid.networks,
               templates |-> oid.templates, names |-> oid.names]
    BY <1>2 DEF IsOid
  <2> QED
    BY <1>1, <2>1
<1>4. ended' = ended /\ last' = last /\ oids_done' = oids_done
  BY <1>1 DEF ended, last, oids_done
<1>5. Current' /\ CurrentOid'
  <2>1. Current /\ CurrentOid
    BY <1>1 DEF Filed, Reading
  <2> QED
    BY <2>1, <1>1, <1>3, <1>4 DEF Current, CurrentOid
<1> QED
  BY <1>1, <1>4, <1>5 DEF Filed

LEMMA OidDoneF == ASSUME BInv, Filed, OidDone PROVE Filed'
<1> DEFINE f == file[last]
           n == Len(f.ids)
           key == f.ids[n].key
<1>1. /\ pc = "home_nets" /\ pc' = "oids" /\ UNCHANGED <<db, worker_idx, file>>
      /\ sensor' = add_observation_id(sensor, f.ids[oid.src[2]].key, oid)
  BY DEF OidDone
<1>2. IsOid(oid, 0) /\ IsSensor(sensor, 0)
  BY <1>1, BuildingB DEF Loading
<1>3. Current /\ CurrentOid /\ file \in Seq(Entries) /\ last \in Nat /\ last > 0
  BY <1>1, EndedF DEF Filed, Reading
<1>4. /\ n > 0 /\ oid.src = <<last, n>> /\ oid.src[2] = n /\ key # Six
      /\ key # Default => oid.id = key % OidModulus
  BY <1>3 DEF CurrentOid
<1>5. n \in Nat /\ n - 1 \in Nat /\ (n - 1) + 1 = n /\ key \in OidKeys \cup {Default}
  <2>1. f \in Entries
    BY <1>3 DEF last
  <2>2. f.ids \in Seq(Written)
    BY <2>1 DEF Entries
  <2>3. n \in Nat /\ n \in DOMAIN f.ids
    BY <2>2, <1>4
  <2>4. f.ids[n] \in Written
    BY <2>2, <2>3
  <2> QED
    BY <2>3, <2>4, <1>4 DEF Written
<1>6. Says(f, last, n - 1, sensor)
  BY <1>1, <1>3 DEF Current, oids_done
<1>7. Says(f, last, n, sensor') /\ sensor'.net = sensor.net /\ sensor'.mask = sensor.mask
  <2> DEFINE m == n - 1
             k == key
  <2>1. m \in Nat /\ m + 1 = n /\ Says(f, last, m, sensor) /\ oid.src = <<last, m + 1>>
        /\ k = f.ids[m + 1].key /\ sensor' = add_observation_id(sensor, k, oid)
        /\ k \in OidKeys \cup {Default} /\ (k # Default => oid.id = k % OidModulus)
    BY <1>1, <1>4, <1>5, <1>6
  <2> HIDE DEF m, k, n, f
  <2>2. Says(f, last, m + 1, sensor') /\ sensor'.net = sensor.net /\ sensor'.mask = sensor.mask
    BY <2>1, <1>2, SaysAdd
  <2> QED
    BY <2>1, <2>2
<1>8. ended' = ended /\ last' = last /\ oids_done' = n
  BY <1>1, <1>5 DEF ended, last, oids_done, Reading
<1>9. Current'
  BY <1>1, <1>3, <1>7, <1>8 DEF Current
<1> QED
  BY <1>1, <1>8, <1>9 DEF Filed, Loading

LEMMA SensorDoneF == ASSUME BInv, Filed, SensorDone PROVE Filed'
<1> DEFINE s == [sensor EXCEPT !.worker = worker_idx]
           f == file[last]
           m == last - 1
<1>1. /\ pc = "oids" /\ pc' = "networks" /\ file' = file /\ f.ids # <<>>
      /\ db' = insert(db, sensor.net, s) /\ worker_idx' = next_worker(worker_idx)
  BY DEF SensorDone
<1>2. IsSensor(sensor, 0)
  BY <1>1, BuildingB DEF Loading
<1>3. /\ s.mask = sensor.mask /\ s.worker = worker_idx /\ s.oids = sensor.oids
      /\ s.default = sensor.default
  <2>1. sensor = [net |-> sensor.net, mask |-> sensor.mask, worker |-> sensor.worker,
                  default |-> sensor.default, oids |-> sensor.oids]
    BY <1>2 DEF IsSensor
  <2> QED
    BY <2>1
<1> HIDE DEF s
<1>4. /\ Current /\ Means(file, m, db) /\ worker_idx = Due(file, m)
      /\ last \in Nat /\ m \in Nat /\ m + 1 = last
  <2>1. ended = m /\ last \in Nat /\ last > 0 /\ pc \in Reading
    BY <1>1, EndedF DEF Reading
  <2> QED
    BY <1>1, <2>1 DEF Filed, Loading
<1>5. IsGood(f) /\ sensor.net = f.net.net /\ s.mask = f.net.mask
  BY <1>1, <1>3, <1>4 DEF Current, IsGood
<1>6. Says(f, last, Len(f.ids), s)
  <2>1. f.ids \in Seq(Written)
    <3>1. f \in Entries
      BY <1>4 DEF Filed, Current, last
    <3> QED
      BY <3>1 DEF Entries
  <2>2. oids_done = Len(f.ids)
    BY <1>1, <2>1 DEF oids_done
  <2>3. Says(f, last, Len(f.ids), sensor)
    BY <1>4, <2>2 DEF Current
  <2> QED
    BY <2>3, <1>3, SaysSame
<1> HIDE DEF m, f
<1>7. Means(file, m + 1, insert(db, file[m + 1].net.net, s))
  <2>1. file[m + 1] = f
    BY <1>4 DEF f
  <2>2. IsGood(file[m + 1]) /\ s.mask = file[m + 1].net.mask /\ s.worker = Due(file, m)
        /\ Says(file[m + 1], m + 1, Len(file[m + 1].ids), s)
    BY <2>1, <1>3, <1>4, <1>5, <1>6
  <2> QED
    BY <2>2, <1>4, MeansAdd
<1>8. Due(file, m + 1) = next_worker(worker_idx)
  BY <1>4, <1>5, DueNext DEF f
<1>9. ended' = last /\ Means(file', last, db') /\ worker_idx' = Due(file', last)
  <2>1. Means(file, last, db') /\ worker_idx' = Due(file, last)
    BY <1>1, <1>4, <1>5, <1>7, <1>8 DEF f
  <2> QED
    BY <1>1, <2>1 DEF ended, last, Reading
<1> QED
  BY <1>1, <1>9 DEF Filed, Reading

\* Workers store templates and names, and change nothing else.
LEMMA SaveTemplateF ==
  ASSUME BInv, Filed, NEW k \in DOMAIN db, NEW id \in Ids, NEW x,
         SaveTemplate(k, id, x) \/ AddName(k, id, x)
  PROVE  Filed'
<1> DEFINE n == Len(author)
           s == db[k]
           ref == observation_id_for(s, id)
           u == oid_of(s, ref)
           o1 == [u EXCEPT !.templates = insert(u.templates, x, n + 1)]
           o2 == [u EXCEPT !.names = insert(u.names, x, n + 1)]
<1>1. pc = "run" /\ pc' = pc /\ u # Nothing /\ UNCHANGED <<file, worker_idx>>
  BY DEF SaveTemplate, AddName, store
<1>2. db' = [db EXCEPT ![k] = Put(s, ref, o1)] \/ db' = [db EXCEPT ![k] = Put(s, ref, o2)]
  BY DEF SaveTemplate, AddName, store, Put, oid_of
<1>3. ref \in Refs(s) /\ IsSensor(s, n) /\ IsOid(u, n)
  <2>1. ref \in Refs(s) /\ IsSensor(s, n)
    BY <1>1 DEF observation_id_for, oid_of, Refs, BInv, Built
  <2> QED
    BY <2>1, RefFacts
<1>4. ASSUME NEW o, o = o1 \/ o = o2 PROVE o # Nothing /\ o.src = u.src
  <2> HIDE DEF u
  <2>1. \/ o = [id |-> u.id, src |-> u.src, networks |-> u.networks,
                templates |-> insert(u.templates, x, n + 1), names |-> u.names]
        \/ o = [id |-> u.id, src |-> u.src, networks |-> u.networks,
                templates |-> u.templates, names |-> insert(u.names, x, n + 1)]
    BY <1>3, <1>4, OidUpdated
  <2>2. DOMAIN o = {"id", "src", "networks", "templates", "names"} /\ o.src = u.src
    BY <2>1
  <2>3. DOMAIN Nothing = {"none"}
    BY DEF Nothing
  <2> QED
    BY <2>2, <2>3
<1> HIDE DEF o1, o2
<1>5. PICK o : db' = [db EXCEPT ![k] = Put(s, ref, o)] /\ o # Nothing /\ o.src = u.src
  BY <1>2, <1>4
<1> DEFINE t == Put(s, ref, o)
<1>6. /\ t.mask = s.mask /\ t.worker = s.worker /\ DOMAIN t.oids = DOMAIN s.oids
      /\ (t.default # Nothing <=> s.default # Nothing)
      /\ \A i \in DOMAIN s.oids : t.oids[i].src = s.oids[i].src
  <2>1. s = [net |-> s.net, mask |-> s.mask, worker |-> s.worker,
             default |-> s.default, oids |-> s.oids]
    BY <1>3 DEF IsSensor
  <2>2. CASE ref = Default
    <3>1. t = [net |-> s.net, mask |-> s.mask, worker |-> s.worker,
               default |-> o, oids |-> s.oids]
      BY <2>1, <2>2 DEF Put
    <3>2. s.default # Nothing
      BY <2>2, <1>3, RefFacts
    <3> QED
      BY <3>1, <3>2, <1>5
  <2>3. CASE ref # Default
    <3>1. t = [net |-> s.net, mask |-> s.mask, worker |-> s.worker,
               default |-> s.default, oids |-> [s.oids EXCEPT ![ref] = o]]
      BY <2>1, <2>3 DEF Put
    <3>2. ref \in DOMAIN s.oids /\ u = s.oids[ref]
      BY <2>3, <1>3, RefFacts
    <3> HIDE DEF u, ref, t, s
    <3> QED
      BY <3>1, <3>2, <1>5
  <2> QED
    BY <2>2, <2>3
<1> HIDE DEF t
<1>7. /\ DOMAIN db' = DOMAIN db /\ db'[k] = t
      /\ \A l \in DOMAIN db : l # k => db'[l] = db[l]
  BY <1>5 DEF t
<1>8. Means(file, ended, db')
  <2>1. \A l \in DOMAIN db :
          /\ db'[l].mask = db[l].mask /\ db'[l].worker = db[l].worker
          /\ DOMAIN db'[l].oids = DOMAIN db[l].oids
          /\ \A i \in DOMAIN db[l].oids : db'[l].oids[i].src = db[l].oids[i].src
          /\ (db'[l].default # Nothing <=> db[l].default # Nothing)
    BY <1>6, <1>7
  <2>2. Means(file, ended, db)
    BY DEF Filed
  <2> QED
    BY <2>1, <2>2, <1>7, MeansSame
<1>9. ended' = ended
  BY <1>1 DEF ended, last
<1> QED
  BY <1>1, <1>8, <1>9 DEF Filed, Reading, Loading

LEMMA InitF == Init => Filed
<1> SUFFICES ASSUME Init PROVE Filed
  OBVIOUS
<1>1. DOMAIN <<>> = {} /\ Len(<<>>) = 0 /\ <<>> \in Seq(Entries)
  OBVIOUS
<1>2. ended = 0
  BY <1>1 DEF Init, ended, last, Reading
<1>3. Means(file, 0, db)
  BY <1>1, DueFirst DEF Init, Means
<1> QED
  BY <1>1, <1>2, <1>3, DueFirst DEF Init, Filed, Reading

LEMMA NextF == BInv /\ Filed /\ [Next]_vars => Filed'
<1> SUFFICES ASSUME BInv, Filed, [Next]_vars PROVE Filed'
  OBVIOUS
<1>1. CASE UNCHANGED vars
  BY <1>1 DEF vars, Filed, Current, CurrentOid, ended, oids_done, last
<1>2. CASE ReadConfig \/ NetworksEnd \/ Delete \/ Destroy
  BY <1>2, UnchangedF DEF ReadConfig, NetworksEnd, Delete, Destroy, Reading, Loading
<1>3. CASE NetworkSkipped \/ OidSkipped \/ OidWrong
  BY <1>3, NetworkSkippedF, OidSkippedF, OidWrongF
<1>4. ASSUME NEW text \in Texts, NetworkSensor(text) \/ HomeNet(text) PROVE Filed'
  BY <1>4, NetworkSensorF, HomeNetF
<1>5. ASSUME NEW key \in OidKeys \cup {Default}, OidBegin(key) PROVE Filed'
  BY <1>5, OidBeginF
<1>6. CASE OidDone \/ SensorDone
  BY <1>6, OidDoneF, SensorDoneF
<1>7. ASSUME NEW k \in DOMAIN db, NEW id \in Ids, NEW x,
             SaveTemplate(k, id, x) \/ AddName(k, id, x)
      PROVE  Filed'
  BY <1>7, SaveTemplateF
<1>8. ASSUME NEW e \in todo, ReleaseOid(e) PROVE Filed'
  BY <1>8, UnchangedF DEF ReleaseOid, Reading, Loading
<1> QED
  BY <1>1, <1>2, <1>3, <1>4, <1>5, <1>6, <1>7, <1>8 DEF Next

\* Between any two steps of the parser the database is what the entries read so
\* far say, and the sensor it builds what was read of the current one.
THEOREM DatabaseFiled == Spec => []Filed
  BY InitB, NextB, InitF, NextF, PTL DEF Spec

\* Whatever is written in the configuration, right or wrong, and in whatever
\* order: read_rb_config makes of it what its right entries say, the later of two
\* for the same network or number, with the workers handed out in turn.
THEOREM DatabaseConfigMeaning == Spec => []ConfigMeaning
<1>1. ASSUME Filed, pc = "run" PROVE Means(file, last, db) /\ DOMAIN file = 1..last
  BY <1>1, EndedF DEF Filed, Reading, ended
<1>2. ASSUME Filed, NEW i \in DOMAIN file
      PROVE  /\ Good(i) <=> IsGood(file[i])
             /\ DOMAIN file[i].ids = 1..Len(file[i].ids)
             /\ \A id : Numbered(i, id) = Keys(file[i], Len(file[i].ids), id)
  <2>1. file[i] \in Entries
    BY <1>2 DEF Filed
  <2>2. file[i].ids \in Seq(Written)
    BY <2>1 DEF Entries
  <2>3. DOMAIN file[i].ids = 1..Len(file[i].ids)
    BY <2>2
  <2> QED
    BY <2>3 DEF Good, IsGood, Numbered, Keys
<1>3. ASSUME Filed, pc = "run"
      PROVE  /\ {j \in DOMAIN file : Good(j)} = GoodIn(file, last)
             /\ \A i \in DOMAIN file : Turn(i) = Due(file, i - 1)
  <2>1. {j \in DOMAIN file : Good(j)} = GoodIn(file, last)
    BY <1>1, <1>2, <1>3 DEF GoodIn
  <2>2. ASSUME NEW i \in DOMAIN file PROVE Turn(i) = Due(file, i - 1)
    <3>1. i \in 1..last /\ last \in Nat /\ DOMAIN file = 1..last
      BY <1>1, <1>3, EndedF
    <3>2. \A j \in 1..(i - 1) : j \in DOMAIN file
      BY <3>1
    <3>3. {j \in 1..(i - 1) : Good(j)} = GoodIn(file, i - 1)
      BY <3>2, <1>2, <1>3 DEF GoodIn
    <3> QED
      BY <3>3 DEF Turn, Due
  <2> QED
    BY <2>1, <2>2
<1>4. ASSUME Filed, pc = "run", NEW k, NEW i \in DOMAIN file, Decides(file, last, i, k)
      PROVE  LastGood(k) = i
  <2> DEFINE P(j) == /\ Good(j) /\ file[j].net.net = k
                     /\ \A l \in DOMAIN file : l > j /\ Good(l) => file[l].net.net # k
  <2>1. \A j \in DOMAIN file : Good(j) <=> j \in GoodIn(file, last)
    BY <1>3, <1>4
  <2>2. P(i)
    BY <2>1, <1>4 DEF Decides
  <2>3. ASSUME NEW j \in DOMAIN file, P(j) PROVE j = i
    <3>1. i \in Int /\ j \in Int /\ (j > i \/ i > j \/ i = j)
      <4>1. i \in 1..last /\ j \in 1..last /\ last \in Nat
        BY <1>1, <1>4, <2>3, EndedF
      <4> QED
        BY <4>1
    <3> QED
      BY <2>2, <2>3, <3>1
  <2>4. LastGood(k) = CHOOSE j \in DOMAIN file : P(j)
    BY DEF LastGood
  <2> HIDE DEF P
  <2> QED
    BY <2>2, <2>3, <2>4
<1>5. ASSUME Filed, pc = "run", NEW k \in DOMAIN db
      PROVE  LET i == LastGood(k)
             IN /\ db[k].mask = file[i].net.mask /\ db[k].worker = Turn(i)
                /\ \A id \in Ids :
                     /\ id \in DOMAIN db[k].oids <=> Numbered(i, id) # {}
                     /\ id \in DOMAIN db[k].oids =>
                          /\ db[k].oids[id].src[1] = i
                          /\ IsLast(db[k].oids[id].src[2], Numbered(i, id))
                /\ db[k].default # Nothing <=>
                     \E j \in DOMAIN file[i].ids : file[i].ids[j].key = Default
  <2>1. PICK i \in 1..last :
               /\ Decides(file, last, i, k) /\ db[k].mask = file[i].net.mask
               /\ db[k].worker = Due(file, i - 1) /\ Says(file[i], i, Len(file[i].ids), db[k])
    BY <1>1, <1>5 DEF Means
  <2>2. i \in DOMAIN file
    BY <1>1, <1>5
  <2>3. LastGood(k) = i /\ Turn(i) = Due(file, i - 1)
    BY <2>1, <2>2, <1>3, <1>4, <1>5
  <2>4. /\ DOMAIN file[i].ids = 1..Len(file[i].ids)
        /\ \A id : Numbered(i, id) = Keys(file[i], Len(file[i].ids), id)
    BY <2>2, <1>2, <1>5
  <2> QED
    BY <2>1, <2>3, <2>4 DEF Says
<1>6. Filed => ConfigMeaning
  <2> SUFFICES ASSUME Filed, pc = "run" PROVE ConfigMeaning
    BY DEF ConfigMeaning
  <2>1. DOMAIN db = {file[i].net.net : i \in {j \in DOMAIN file : Good(j)}}
    BY <1>1, <1>3 DEF Means
  <2> QED
    BY <2>1, <1>5 DEF ConfigMeaning
<1> QED
  BY <1>6, DatabaseFiled, PTL
=============================================================================
