------------------------------ MODULE Dissect ------------------------------
(***************************************************************************)
(* Dissection of the packets of one observation id (collect.c): sets,      *)
(* templates, option templates, flow records, option records; the store of *)
(* templates (rb_sensor.c, observation_id/mod.rs) and their files (util.c).*)
(*                                                                         *)
(* The content of a packet is chosen when the code reads it, so a packet   *)
(* may say anything.  Positions and lengths are bytes.  What a field means *)
(* is left out: a record is the part of the set that its fields cover.     *)
(***************************************************************************)
EXTENDS Integers, Sequences

CONSTANTS MaxFields,     \* 128 fields in a flow template
          MaxAccum,      \* 1500 bytes in a record
          max_num_entries, \* 4 fields of an option template
          V5FLOWS_PER_PAK, \* 30
          Variable,      \* 65535: length of an IPFIX field that tells its own
          Word,          \* 2^64: size_t
          TemplateIds,   \* bound: template ids (256 or more)
          FieldCounts,   \* bound: field counts in template headers
          FieldLens,     \* bound: field lengths in templates
          VarLens,       \* bound: lengths that variable fields tell
          SetLens,       \* bound: lengths in set headers
          PacketLens,    \* bound: bytes received
          Counts         \* bound: count (v5, v9) or length (IPFIX) in headers

ASSUME DissectAssumption ==
  /\ MaxFields \in Nat /\ MaxAccum \in Nat /\ max_num_entries \in Nat
  /\ V5FLOWS_PER_PAK \in Nat /\ Variable \in Nat \ {0}
  /\ TemplateIds \subseteq Nat \ 0..255
  /\ FieldCounts \subseteq Nat /\ FieldLens \subseteq Nat
  /\ VarLens \subseteq Nat /\ SetLens \subseteq Nat
  /\ PacketLens \subseteq Nat /\ Counts \subseteq Nat
  /\ Word \in Nat /\ \A l \in SetLens : l < Word

VARIABLES pc,
          pkt,      \* the packet: version, bytes, numEntries
          displ,    \* dissectNetflowV9V10: start of the current set
          i,        \* dissectNetflowV9V10: sets read
          set,      \* the current set: id and length
          cur,      \* position in the set
          tmpl,     \* the template that is being read
          fld,      \* field of the record that is being read
          recs,     \* what the set yielded so far: the parts read as records
          complete, \* no memory ran out in this set
          store,    \* the templates of the observation id
          files,    \* the template cache: what the file of an id holds
          fresh     \* started, no packet yet

packetVars == <<pkt, displ, i, set>>
savedVars == <<store, files, fresh>>
vars == <<pc, packetVars, cur, tmpl, fld, recs, complete, savedVars>>

W(x) == x % Word
least(a, b) == IF a < b THEN a ELSE b

\* A template: the lengths of its fields and their total; for the properties,
\* the bytes that a record of it takes at the probe, and whether the code read
\* all the field specifiers of the probe, and nothing else, as such.
NoTemplate == [fields |-> <<>>, option |-> FALSE, kept |-> 0, width |-> 0,
               whole |-> TRUE]

\* A template that is being read; for the properties, of an option template: the
\* next four bytes are an enterprise number, one was taken for a specifier, and
\* the lengths of the probe's specifiers added up.
NoReading == [tid |-> 0, n |-> 0, at |-> 0, accum |-> 0, fields |-> <<>>,
              owed |-> FALSE, misread |-> FALSE, width |-> 0]

NoPacket == [version |-> 9, len |-> 0, n |-> 0]
NoSet == [id |-> 0, len |-> 0]

Init ==
  /\ pc = "idle" /\ fresh = TRUE
  /\ pkt = NoPacket /\ displ = 0 /\ i = 0 /\ set = NoSet
  /\ cur = 0 /\ tmpl = NoReading /\ fld = 0 /\ recs = <<>> /\ complete = TRUE
  /\ store = [t \in TemplateIds |-> NoTemplate]
  /\ files = [t \in TemplateIds |-> "none"]

\* The locals of one set, and of one packet, go out of scope.
forget_set ==
  /\ set' = NoSet /\ cur' = 0 /\ tmpl' = NoReading /\ fld' = 0
  /\ recs' = <<>> /\ complete' = TRUE

forget_packet ==
  /\ pkt' = NoPacket /\ displ' = 0 /\ i' = 0
  /\ forget_set

ipfix == pkt.version = 10

\* The bytes in which sets are looked for.
size == IF ipfix THEN least(pkt.len, pkt.n) ELSE pkt.len

-----------------------------------------------------------------------------
(* Packets and sets.                                                       *)

\* dissectNetFlow up to the choice of the dissector.
Receive(version, len, n) ==
  /\ pc = "idle"
  /\ pkt' = [version |-> version, len |-> len, n |-> n]
  /\ displ' = IF version = 10 THEN 16 ELSE 20
  /\ i' = 0 /\ fresh' = FALSE
  /\ pc' = IF version = 5 THEN "v5" ELSE "set"
  /\ UNCHANGED <<set, cur, tmpl, fld, recs, complete, store, files>>

\* The packet's observation id is not configured and the sensor has no default:
\* a v9 or IPFIX packet is dropped; in v5 the missing id meets an assertion of
\* the sensors database.
UnknownObservationId ==
  /\ i = 0
  /\ \/ pc = "set" /\ pc' = "idle"
     \/ pc = "v5" /\ pkt.n > 0 /\ pc' = "aborted"
  /\ forget_packet
  /\ UNCHANGED savedVars

\* dissectNetFlowV5: as many records as the header counts, up to what fits.
DissectV5 ==
  /\ pc = "v5"
  /\ recs' = [k \in 1..least(pkt.n, V5FLOWS_PER_PAK) |->
                [from |-> 24 + 48 * (k - 1), to |-> 24 + 48 * k, fields |-> 0]]
  /\ pc' = "v5end"
  /\ UNCHANGED <<packetVars, cur, tmpl, fld, complete, savedVars>>

more_sets == displ < pkt.len /\ i < pkt.n

\* No header or no body left for the set: what follows is given up.
give_up ==
  /\ displ' = size + 1 /\ i' = i + 1
  /\ UNCHANGED <<pc, pkt, set, cur, tmpl, fld, recs, complete, savedVars>>

SetTooShort ==
  /\ pc = "set" /\ more_sets /\ size < displ + 4
  /\ give_up

\* id < 256: buffer[displ] == 0.
is_template_set(id) == id < 256

\* A zero second byte, or 2 in IPFIX, is a set of flow templates.
is_option_template(id) == id # 0 /\ ~(ipfix /\ id = 2)

SetHeader(id, len) ==
  /\ pc = "set" /\ more_sets /\ size >= displ + 4
  /\ IF size < displ + len
     THEN give_up
     ELSE /\ set' = [id |-> id, len |-> len]
          /\ cur' = 4
          /\ pc' = CASE is_template_set(id) /\ ~is_option_template(id) -> "template"
                     [] is_template_set(id) /\ is_option_template(id) -> "option"
                     [] OTHER -> "data"
          /\ UNCHANGED <<pkt, displ, i, tmpl, fld, recs, complete, savedVars>>

PacketEnd ==
  /\ pc = "v5end" \/ (pc = "set" /\ ~more_sets)
  /\ pc' = "idle"
  /\ forget_packet
  /\ UNCHANGED savedVars

\* The tail of dissectNetFlowV9V10Set.
next_set ==
  /\ displ' = displ + set.len /\ i' = i + 1
  /\ pc' = "set"
  /\ forget_set
  /\ UNCHANGED <<pkt, fresh>>

-----------------------------------------------------------------------------
(* Flow templates.                                                         *)

TemplateSetEnd ==
  /\ pc = "template" /\ cur >= set.len
  /\ next_set
  /\ UNCHANGED <<store, files>>

\* Bytes from the template to the end of its set.
buffer_len == set.len - cur

bad_template ==
  /\ cur' = cur + buffer_len
  /\ pc' = "template" /\ tmpl' = NoReading
  /\ UNCHANGED <<packetVars, fld, recs, complete, savedVars>>

\* dissect_flow_template: the header.  That it does not fit is only warned of.
TemplateHeader(tid, n) ==
  /\ pc = "template" /\ cur < set.len
  /\ IF n > MaxFields
     THEN bad_template
     ELSE /\ tmpl' = [NoReading EXCEPT !.tid = tid, !.n = n, !.at = 4]
          /\ pc' = "tfield"
          /\ UNCHANGED <<packetVars, cur, fld, recs, complete, savedVars>>

\* Slip, for the mutation runs: the enterprise number is not counted.
field_overruns_short(field_len) == tmpl.at + 4 > buffer_len

field_overruns(field_len) == tmpl.at + field_len > buffer_len

TemplateField(enterprise, len) ==
  LET field_len == IF enterprise THEN 8 ELSE 4
  IN /\ pc = "tfield" /\ Len(tmpl.fields) < tmpl.n
     /\ enterprise => ipfix
     /\ IF field_overruns(field_len)
        THEN bad_template
        ELSE /\ tmpl' = [tmpl EXCEPT !.at = @ + field_len,
                           !.fields = Append(@, len),
                           !.accum = IF len = Variable THEN @ ELSE @ + len]
             /\ UNCHANGED <<pc, packetVars, cur, fld, recs, complete, savedVars>>

\* What saveTemplateInFilef leaves in the file: the template, nothing readable
\* if the writing breaks off in the header, or a file cut in its fields.
written(fields) ==
  IF fields = <<>> THEN {"none", "empty"} ELSE {"none", "cut", "latest"}

\* saveTemplateInFile: if the file does not open, it stays as it was.
saved_file(tid, fields) ==
  written(fields) \cup {IF files[tid] = "latest" THEN "old" ELSE files[tid]}

\* save_template replaces the template of that id, if there is memory.
saved_template(tid, t) == {store, [store EXCEPT ![tid] = t]}

too_long == tmpl.accum > MaxAccum

TemplateSave ==
  LET left == W(buffer_len - tmpl.at)
  IN /\ pc = "tfield" /\ Len(tmpl.fields) = tmpl.n
     /\ IF too_long
        THEN bad_template
        ELSE /\ \E f \in saved_file(tmpl.tid, tmpl.fields) :
                  files' = [files EXCEPT ![tmpl.tid] = f]
             /\ store' \in saved_template(tmpl.tid,
                             [fields |-> tmpl.fields, option |-> FALSE,
                              kept |-> tmpl.accum, width |-> tmpl.accum,
                              whole |-> TRUE])
             /\ cur' = IF left < 4 THEN cur + buffer_len ELSE cur + tmpl.at
             /\ pc' = "template" /\ tmpl' = NoReading
             /\ UNCHANGED <<packetVars, fld, recs, complete, fresh>>

-----------------------------------------------------------------------------
(* Option templates: one per set.                                          *)

\* Bytes after the header of the set (the subtraction is unsigned).
option_size == W(set.len - 4)

\* dissect_option_template up to its loop; n is the count of scope and option
\* fields, of which the first max_num_entries are kept.
OptionHeader(tid, n) ==
  /\ pc = "option"
  /\ IF option_size < 6 \/ option_size < 6 + 4 * least(n, max_num_entries)
     THEN next_set /\ UNCHANGED <<store, files>>
     ELSE /\ tmpl' = [NoReading EXCEPT !.tid = tid, !.n = n, !.at = 6]
          /\ pc' = "ofield"
          /\ UNCHANGED <<packetVars, cur, fld, recs, complete, savedVars>>

\* One turn of its loop, always over four bytes.  An IPFIX probe puts an
\* enterprise number of four more behind some specifiers; the loop takes it for
\* the next specifier, and its lower half (any number) for a length.
OptionTemplateField(enterprise, len) ==
  /\ pc = "ofield" /\ Len(tmpl.fields) < least(tmpl.n, max_num_entries)
  /\ enterprise => ipfix /\ ~tmpl.owed
  /\ tmpl' = [tmpl EXCEPT !.at = @ + 4, !.fields = Append(@, len),
                          !.accum = @ + len,
                          !.width = IF tmpl.owed THEN @ ELSE @ + len,
                          !.misread = @ \/ tmpl.owed,
                          !.owed = enterprise]
  /\ UNCHANGED <<pc, packetVars, cur, fld, recs, complete, savedVars>>

\* All specifiers of the probe were read.
read_whole == tmpl.n <= max_num_entries /\ ~tmpl.misread

\* width is what a record of this template takes at the probe, with the rest
\* (len) of its fields, which this code does not look at.
OptionSave(len) ==
  /\ pc = "ofield" /\ Len(tmpl.fields) = least(tmpl.n, max_num_entries)
  /\ store' \in saved_template(tmpl.tid,
                  [fields |-> tmpl.fields, option |-> TRUE,
                   kept |-> tmpl.accum, whole |-> read_whole,
                   width |-> tmpl.width + (IF read_whole THEN 0 ELSE len)])
  /\ next_set
  /\ UNCHANGED files

-----------------------------------------------------------------------------
(* Data sets.                                                              *)

template == store[set.id]

\* Slip, for the mutation runs: templates without fields are used.
usable_any == set.id \in TemplateIds

usable == template.fields # <<>>

\* dissectNetFlowV9V10Flow without a template for the set.
DataUnknown ==
  /\ pc = "data" /\ ~usable
  /\ next_set
  /\ UNCHANGED <<store, files>>

\* With one: positions of option records are counted from after the header.
DataBegin ==
  /\ pc = "data" /\ usable
  /\ cur' = IF template.option THEN 0 ELSE 4
  /\ pc' = IF template.option THEN "orecord" ELSE "record"
  /\ UNCHANGED <<packetVars, tmpl, fld, recs, complete, savedVars>>

\* Slip, for the mutation runs: any rest is taken for a record.
room_any == cur < set.len

room == cur < set.len /\ set.len - cur >= 4

\* A record begins here; one read from the same bytes before is forgotten.
open_record ==
  LET new == [from |-> cur, to |-> cur, fields |-> 0]
  IN IF recs # <<>> /\ recs[Len(recs)].from = cur
     THEN [recs EXCEPT ![Len(recs)] = new] ELSE Append(recs, new)

RecordBegin ==
  /\ pc = "record" /\ room
  /\ recs' = open_record
  /\ fld' = 1 /\ pc' = "rfield"
  /\ UNCHANGED <<packetVars, cur, tmpl, complete, savedVars>>

\* No buffer or no flow cache: the rest of the set is not dissected.
RecordNoMemory ==
  /\ pc = "record" /\ room
  /\ complete' = FALSE /\ pc' = "tail"
  /\ UNCHANGED <<packetVars, cur, tmpl, fld, recs, savedVars>>

\* real_field_len + real_field_len_offset.
real_lengths(len) ==
  IF ipfix /\ len = Variable
  THEN {1 + v : v \in {x \in VarLens : x < 255}} \cup {3 + v : v \in VarLens}
  ELSE {len}

\* The last record of recs goes on to position p.
extend(p) ==
  /\ cur' = p /\ fld' = fld + 1
  /\ recs' = [recs EXCEPT ![Len(recs)].to = p, ![Len(recs)].fields = fld]

RecordField ==
  /\ pc = "rfield" /\ fld <= Len(template.fields) /\ cur < set.len
  /\ \E l \in real_lengths(template.fields[fld]) : extend(cur + l)
  /\ UNCHANGED <<pc, packetVars, tmpl, complete, savedVars>>

\* Slip, for the mutation runs: the last field is left for the next record.
RecordEndEarly ==
  /\ pc = "rfield" /\ (fld >= Len(template.fields) \/ cur >= set.len)
  /\ pc' = "record"
  /\ UNCHANGED <<packetVars, cur, tmpl, fld, recs, complete, savedVars>>

\* The record is whole, or the flow is too short.
RecordEnd ==
  /\ pc = "rfield" /\ (fld > Len(template.fields) \/ cur >= set.len)
  /\ pc' = "record"
  /\ UNCHANGED <<packetVars, cur, tmpl, fld, recs, complete, savedVars>>

RecordsEnd ==
  /\ pc = "record" /\ ~room
  /\ pc' = "tail"
  /\ UNCHANGED <<packetVars, cur, tmpl, fld, recs, complete, savedVars>>

\* dissect_option_flow_set.
option_end == least(set.len, option_size)

OptionRecordBegin ==
  /\ pc = "orecord" /\ cur < option_end
  /\ recs' = open_record
  /\ fld' = 1 /\ pc' = "orfield"
  /\ UNCHANGED <<packetVars, cur, tmpl, complete, savedVars>>

\* Slip, for the mutation runs: a field that ends with the set is padding.
field_fits_strict(len) == cur + len < option_end

field_fits(len) == cur + len <= option_end

\* dissect_nf9_option_flow: a field that does not fit ends the set.
OptionRecordField ==
  /\ pc = "orfield" /\ fld <= Len(template.fields)
  /\ LET len == template.fields[fld]
     IN IF field_fits(len)
        THEN extend(cur + len) /\ UNCHANGED pc
        ELSE cur' = option_end /\ pc' = "orecord" /\ UNCHANGED <<fld, recs>>
  /\ UNCHANGED <<packetVars, tmpl, complete, savedVars>>

OptionRecordEnd ==
  /\ pc = "orfield" /\ fld > Len(template.fields)
  /\ pc' = "orecord"
  /\ UNCHANGED <<packetVars, cur, tmpl, fld, recs, complete, savedVars>>

OptionRecordsEnd ==
  /\ pc = "orecord" /\ cur >= option_end
  /\ pc' = "tail"
  /\ UNCHANGED <<packetVars, cur, tmpl, fld, recs, complete, savedVars>>

\* The padding is only looked at to warn of it.
DataEnd ==
  /\ pc = "tail"
  /\ next_set
  /\ UNCHANGED <<store, files>>

-----------------------------------------------------------------------------
\* loadTemplates hands what it read to save_template_async, which drops it.
restored == [t \in TemplateIds |-> NoTemplate]

\* loadTemplateFromFile: a file cut in its fields is met by a free of memory that
\* was never allocated on its own.
load_aborts == \E t \in TemplateIds : files[t] = "cut"

\* The process ends, or dies, and is started again.
Restart ==
  /\ ~fresh \/ pc = "aborted"
  /\ store' = restored
  /\ pc' = IF load_aborts THEN "aborted" ELSE "idle"
  /\ forget_packet
  /\ fresh' = TRUE
  /\ UNCHANGED files

Dissection ==
  \/ UnknownObservationId \/ DissectV5
  \/ SetTooShort \/ PacketEnd
  \/ \E id \in 0..3 \cup TemplateIds, len \in SetLens : SetHeader(id, len)
  \/ TemplateSetEnd \/ TemplateSave
  \/ \E tid \in TemplateIds, n \in FieldCounts : TemplateHeader(tid, n)
  \/ \E e \in BOOLEAN, len \in FieldLens : TemplateField(e, len)
  \/ \E tid \in TemplateIds, n \in FieldCounts : OptionHeader(tid, n)
  \/ \E e \in BOOLEAN, len \in FieldLens : OptionTemplateField(e, len)
  \/ \E len \in FieldLens : OptionSave(len)
  \/ DataUnknown \/ DataBegin
  \/ RecordBegin \/ RecordNoMemory \/ RecordField \/ RecordEnd \/ RecordsEnd
  \/ OptionRecordBegin \/ OptionRecordField \/ OptionRecordEnd \/ OptionRecordsEnd
  \/ DataEnd

Next ==
  \/ \E v \in {5, 9, 10}, len \in PacketLens, n \in Counts : Receive(v, len, n)
  \/ Dissection
  \/ Restart

Spec == Init /\ [][Next]_vars

\* A worker that dissects goes on: nothing in these steps waits for anything.
FairSpec == Spec /\ WF_vars(Dissection)
-----------------------------------------------------------------------------
(* Properties.                                                             *)

\* The template in use gives every field a length of its own.
Fixed == \A k \in DOMAIN template.fields : template.fields[k] \in 1..(Variable - 1)

\* The first n records of the set follow each other from position p on, with
\* all their fields.
RecordsFrom(p, n) ==
  /\ Len(recs) >= n
  /\ \A k \in 1..n :
       /\ recs[k].from = p + (k - 1) * template.width
       /\ recs[k].to = p + k * template.width
       /\ recs[k].fields = Len(template.fields)

\* A data set of whole records, with up to three bytes of padding, yields these
\* records and nothing else; only a longer rest is taken for one more record.
WholeRecords ==
  pc = "tail" /\ complete /\ ~template.option /\ Fixed
    /\ template.width >= 4 /\ set.len >= 4 =>
    LET n == (set.len - 4) \div template.width
        rest == (set.len - 4) % template.width
    IN RecordsFrom(4, n) /\ Len(recs) = n + (IF rest >= 4 THEN 1 ELSE 0)

\* Fields of variable length included: every record but the last has all its
\* fields, lies inside the set, and the next one begins where it ends.
RecordsInside ==
  pc = "tail" /\ ~template.option =>
    \A k \in 1..(Len(recs) - 1) :
      /\ recs[k].fields = Len(template.fields)
      /\ recs[k].to = recs[k + 1].from /\ recs[k].to < set.len

\* The same for option records: the names that a set announces are read where
\* the probe put them, for option templates of up to max_num_entries fields
\* without enterprise numbers.  (Of longer ones the loop keeps a part, and an
\* enterprise number becomes a field: the length of a record is then wrong.)
OptionRecords ==
  pc = "tail" /\ template.option /\ Fixed /\ template.whole /\ set.len >= 4 =>
    LET n == (set.len - 4) \div template.width
    IN RecordsFrom(0, n) /\ Len(recs) <= n + 1

\* A flow template is stored or written only if the set held all of it, with
\* the enterprise numbers of its fields.
TemplateInside ==
  [][(store' # store \/ files' # files) /\ pc = "tfield" /\ tmpl.fields # <<>>
       => tmpl.at <= buffer_len]_vars

\* A data set is being read whose template has fields, but none with a length:
\* dissect_flow_template and dissect_option_template do not refuse it, and the
\* loops over records then stay where they are.
Endless ==
  /\ pc \in {"record", "rfield", "orecord", "orfield"}
  /\ template.fields # <<>>
  /\ \A k \in DOMAIN template.fields : template.fields[k] = 0

\* Whatever lengths, counts and ids a packet holds, its dissection ends, unless
\* it stays forever in one data set of a template all of whose fields have
\* length zero: no other template, header or set makes a worker stand still.
DissectionEnds ==
  (pc = "set" ~> pc \in {"idle", "aborted"}) \/ <>[]Endless

\* "You can specify a folder to save/load templates" (README.md:121): a template
\* that was saved is known again after a restart.
TemplatesRestored ==
  fresh /\ pc = "idle" =>
    \A t \in TemplateIds :
      files[t] = "latest" => store[t].fields # <<>>
=============================================================================
