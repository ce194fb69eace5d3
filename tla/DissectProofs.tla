--------------------------- MODULE DissectProofs ---------------------------
(***************************************************************************)
(* Whatever a packet holds, a template is taken only from the bytes of its *)
(* set, and the records of a data set are read where the probe put them:   *)
(* for any templates, lengths and limits.                                  *)
(***************************************************************************)
EXTENDS Dissect, TLAPS

Templates == [fields : Seq(FieldLens), option : BOOLEAN, kept : Nat, width : Nat,
              whole : BOOLEAN]
Readings == [tid : Nat, n : Nat, at : Int, accum : Nat, fields : Seq(FieldLens),
             owed : BOOLEAN, misread : BOOLEAN, width : Nat]
Parts == [from : Int, to : Int, fields : Int]

Idle == {"idle", "aborted", "v5", "v5end", "set"}
InRecord == {"rfield", "orfield"}
Between == {"record", "orecord"}
Pcs == Idle \cup {"template", "tfield", "option", "ofield", "data", "tail"}
         \cup InRecord \cup Between

\* Every variable has its type.
Types ==
  /\ pc \in Pcs /\ pkt.n \in Nat
  /\ cur \in Int /\ fld \in Nat
  /\ tmpl \in Readings
  /\ recs \in Seq(Parts)
  /\ store \in [TemplateIds -> Templates]
  /\ set \in [id : Nat, len : Nat]
  /\ pc \in {"tfield", "ofield"} => tmpl.tid \in TemplateIds
  /\ pc \notin Idle => set.len \in SetLens
  /\ pc \in {"data", "tail"} \cup InRecord \cup Between => set.id \in TemplateIds

\* Where the reading of a set is, and what that says of its template.
Stage ==
  /\ pc \notin {"tail", "v5end"} \cup InRecord \cup Between => recs = <<>>
  /\ pc \in {"record", "rfield"} => ~template.option
  /\ pc \in {"orecord", "orfield"} => template.option
  /\ pc \in {"tail"} \cup InRecord \cup Between => usable

\* A template is read inside its set.
ReadInside == pc = "tfield" /\ tmpl.fields # <<>> => tmpl.at <= buffer_len

-----------------------------------------------------------------------------
(* Where the fields of a record begin.                                     *)

AllFixed(fields) == \A k \in DOMAIN fields : fields[k] \in 1..(Variable - 1)

\* P[k] bytes come before field k + 1, and all fields take total bytes.
IsOffsets(P, fields, total) ==
  /\ P \in [0..Len(fields) -> Nat]
  /\ P[0] = 0 /\ P[Len(fields)] = total
  /\ \A k \in 1..Len(fields) : P[k] = P[k - 1] + fields[k]
  /\ \A j, k \in 0..Len(fields) : j < k => P[j] < P[k]

Adds(fields, total) == AllFixed(fields) => \E P : IsOffsets(P, fields, total)

\* The lengths that the code adds up are those of the fields, and as long as no
\* enterprise number was taken for a field, those that the probe meant.
Added ==
  /\ Adds(tmpl.fields, tmpl.accum)
  /\ \A t \in TemplateIds : Adds(store[t].fields, store[t].kept)
  /\ \A t \in TemplateIds :
       ~store[t].option \/ store[t].whole => store[t].width = store[t].kept
  /\ pc = "ofield" /\ ~tmpl.misread => tmpl.width = tmpl.accum

\* Where the fields of a record of template T begin.
Offset(T) == CHOOSE P : IsOffsets(P, T.fields, T.kept)

-----------------------------------------------------------------------------
(* The records of a set.                                                   *)

\* Every record but the last is whole, and the next begins where it ends.
Linked(T, l, rs) ==
  \A k \in 1..(Len(rs) - 1) :
    /\ rs[k].fields = Len(T.fields)
    /\ rs[k].to = rs[k + 1].from /\ rs[k].to < l

Chain ==
  /\ pc \in {"record", "rfield", "tail"} /\ ~template.option =>
       Linked(template, set.len, recs)
  /\ pc = "record" /\ recs # <<>> =>
       /\ recs[Len(recs)].to = cur
       /\ recs[Len(recs)].fields = Len(template.fields) \/ cur >= set.len
  /\ pc \in InRecord => recs # <<>> /\ fld \in 1..(Len(template.fields) + 1)
  /\ pc = "rfield" =>
       recs[Len(recs)].to = cur /\ recs[Len(recs)].fields = fld - 1

\* With fields of fixed length, all records of a template T are equally long.
Starts(T, r) == (IF T.option THEN 0 ELSE 4) + (r - 1) * T.kept

\* The first r of the records rs.
Regular(T, rs, r) ==
  \A k \in 1..r : /\ rs[k].from = Starts(T, k) /\ rs[k].to = Starts(T, k + 1)
                  /\ rs[k].fields = Len(T.fields)

\* There was room for record r when it was begun: e is where option records end.
Begun(T, l, e, r) ==
  IF T.option THEN Starts(T, r) < e ELSE Starts(T, r) + 4 <= l

\* The records rs were read up to c, in a set of l bytes, and all are whole.
Even(T, l, e, rs, c) ==
  /\ Regular(T, rs, Len(rs)) /\ c = Starts(T, Len(rs) + 1)
  /\ Len(rs) > 0 => Begun(T, l, e, Len(rs))
  /\ T.option => c <= e

\* The set ended in the middle of the last one.
Broken(T, l, e, rs, c) ==
  /\ Len(rs) > 0 /\ Regular(T, rs, Len(rs) - 1) /\ Begun(T, l, e, Len(rs))
  /\ IF T.option THEN c = e /\ e < Starts(T, Len(rs) + 1)
                 ELSE c >= l /\ l < Starts(T, Len(rs) + 1)

\* The last one is being read, field f is next.
Inner(T, l, e, rs, c, f) ==
  /\ Len(rs) > 0 /\ Regular(T, rs, Len(rs) - 1) /\ Begun(T, l, e, Len(rs))
  /\ f \in 1..(Len(T.fields) + 1)
  /\ rs[Len(rs)].from = Starts(T, Len(rs))
  /\ rs[Len(rs)].to = c /\ rs[Len(rs)].fields = f - 1
  /\ c = Starts(T, Len(rs)) + Offset(T)[f - 1]
  /\ T.option => c <= e

Read(T, l, e, rs, c) == Even(T, l, e, rs, c) \/ Broken(T, l, e, rs, c)

Laid ==
  pc \in {"tail"} \cup InRecord \cup Between /\ Fixed =>
    /\ pc \in InRecord => Inner(template, set.len, option_end, recs, cur, fld)
    /\ pc \in Between => Read(template, set.len, option_end, recs, cur)
    /\ pc = "tail" /\ (complete \/ template.option) =>
         /\ Read(template, set.len, option_end, recs, cur)
         /\ IF template.option THEN cur >= option_end ELSE ~room

\* The inductive invariant.
DInv == Types /\ Stage /\ ReadInside /\ Added /\ Chain /\ Laid
-----------------------------------------------------------------------------
(* Lengths of fields.                                                      *)

LEMMA Constants ==
  /\ MaxFields \in Nat /\ MaxAccum \in Nat /\ max_num_entries \in Nat
  /\ V5FLOWS_PER_PAK \in Nat /\ Variable \in Nat \ {0} /\ Word \in Nat
  /\ \A t \in TemplateIds : t \in Nat /\ t >= 256
  /\ \A l \in SetLens : l \in Nat /\ l < Word
  /\ \A l \in FieldLens : l \in Nat
  /\ \A l \in VarLens : l \in Nat
  BY DissectAssumption

LEMMA AddsNone == Adds(<<>>, 0)
<1> DEFINE P == [k \in 0..0 |-> 0]
<1>1. IsOffsets(P, <<>>, 0)
  BY DEF IsOffsets
<1> QED
  BY <1>1 DEF Adds

\* One more field.
LEMMA AddsMore ==
  ASSUME NEW fields \in Seq(FieldLens), NEW total \in Nat, NEW len \in FieldLens,
         Adds(fields, total), NEW sum,
         sum = total + len \/ (len = Variable /\ sum = total)
  PROVE  Adds(Append(fields, len), sum)
<1> DEFINE more == Append(fields, len)
           m == Len(fields)
<1> SUFFICES ASSUME AllFixed(more) PROVE \E P : IsOffsets(P, more, sum)
  BY DEF Adds
<1>1. /\ m \in Nat /\ Len(more) = m + 1 /\ more[m + 1] = len /\ DOMAIN fields = 1..m
      /\ DOMAIN more = 1..(m + 1) /\ \A k \in 1..m : more[k] = fields[k]
  OBVIOUS
<1>2. len \in Nat /\ Variable \in Nat
  BY Constants
<1> HIDE DEF more, m
<1>3. len \in 1..(Variable - 1)
  BY <1>1 DEF AllFixed
<1>4. sum = total + len /\ len > 0
  BY <1>2, <1>3
<1>5. AllFixed(fields)
  BY <1>1 DEF AllFixed
<1>6. PICK P : IsOffsets(P, fields, total)
  BY <1>5 DEF Adds
<1> DEFINE Q == [k \in 0..(m + 1) |-> IF k = m + 1 THEN sum ELSE P[k]]
<1>7. /\ P \in [0..m -> Nat] /\ P[0] = 0 /\ P[m] = total
      /\ \A k \in 1..m : P[k] = P[k - 1] + fields[k]
      /\ \A j, k \in 0..m : j < k => P[j] < P[k]
  BY <1>6 DEF IsOffsets, m
<1>8. \A j \in 0..m : P[j] <= total /\ P[j] \in Nat
  BY <1>1, <1>7
<1>9. /\ Q[m + 1] = sum /\ \A k \in 0..m : Q[k] = P[k]
  BY <1>1
<1>10. Q \in [0..(m + 1) -> Nat]
  BY <1>1, <1>2, <1>4, <1>7
<1> HIDE DEF Q
<1>11. ASSUME NEW k \in 1..(m + 1) PROVE Q[k] = Q[k - 1] + more[k]
  <2>1. CASE k = m + 1
    <3>1. k - 1 = m /\ m \in 0..m
      BY <2>1, <1>1
    <3> QED
      BY <3>1, <2>1, <1>1, <1>4, <1>7, <1>9
  <2>2. CASE k \in 1..m
    <3>1. k - 1 \in 0..m /\ k \in 0..m
      BY <2>2, <1>1
    <3> QED
      BY <3>1, <2>2, <1>1, <1>7, <1>9
  <2> QED
    BY <2>1, <2>2, <1>1
<1>12. ASSUME NEW j \in 0..(m + 1), NEW k \in 0..(m + 1), j < k PROVE Q[j] < Q[k]
  <2>1. CASE k = m + 1
    <3>1. j \in 0..m
      BY <2>1, <1>12, <1>1
    <3> QED
      BY <3>1, <2>1, <1>2, <1>4, <1>8, <1>9
  <2>2. CASE k \in 0..m
    <3>1. j \in 0..m
      BY <2>2, <1>12, <1>1
    <3> QED
      BY <3>1, <2>2, <1>7, <1>9, <1>12
  <2> QED
    BY <2>1, <2>2, <1>1
<1>13. Q[0] = 0
  BY <1>1, <1>7, <1>9
<1>14. IsOffsets(Q, more, sum)
  BY <1>1, <1>9, <1>10, <1>11, <1>12, <1>13 DEF IsOffsets
<1> QED
  BY <1>14

-----------------------------------------------------------------------------
(* Steps outside the records of a data set.                                *)

Outside == Idle \cup {"template", "tfield", "option", "ofield", "data"}

LEMMA OutsideRecords == ASSUME pc' \in Outside PROVE Chain' /\ Laid'
  BY DEF Outside, Idle, Chain, Laid, InRecord, Between

\* Steps that read no template and no record.
LEMMA QuietD ==
  ASSUME DInv, pc' \in Idle \cup {"template", "option", "data"},
         pkt'.n \in Nat, cur' \in Int, fld' \in Nat, tmpl' = tmpl \/ tmpl' = NoReading,
         recs' \in Seq(Parts), pc' # "v5end" => recs' = <<>>,
         store' = store \/ store' = restored,
         set' \in [id : Nat, len : Nat], pc' \notin Idle => set'.len \in SetLens,
         pc' = "data" => set'.id \in TemplateIds
  PROVE  DInv'
<1>1. /\ NoReading \in Readings
      /\ NoTemplate \in Templates
  BY DEF NoReading, NoTemplate, Templates, Readings
<1>2. Types'
  <2>1. pc' \in Pcs
    BY DEF Pcs
  <2>2. store' \in [TemplateIds -> Templates]
    BY <1>1 DEF DInv, Types, restored
  <2>3. tmpl' \in Readings
    BY <1>1 DEF DInv, Types
  <2> QED
    BY <2>1, <2>2, <2>3 DEF Types, Idle, InRecord, Between
<1>3. Stage'
  BY DEF Stage, Idle, InRecord, Between
<1>4. ReadInside'
  BY DEF ReadInside, Idle
<1>5. Added'
  <2>1. Adds(tmpl'.fields, tmpl'.accum)
    BY AddsNone DEF DInv, Added, NoReading
  <2>4. pc' # "ofield"
    BY DEF Idle
  <2>2. CASE store' = store
    BY <2>1, <2>2, <2>4 DEF DInv, Added
  <2>3. CASE store' = restored
    <3>1. \A t \in TemplateIds : store'[t] = NoTemplate
      BY <2>3 DEF restored
    <3> QED
      BY <2>1, <2>4, <3>1, AddsNone DEF Added, NoTemplate
  <2> QED
    BY <2>2, <2>3
<1>6. Chain' /\ Laid'
  BY OutsideRecords DEF Outside
<1> QED
  BY <1>2, <1>3, <1>4, <1>5, <1>6 DEF DInv

\* Packets and sets.
LEMMA ReceiveD ==
  ASSUME DInv, NEW v \in {5, 9, 10}, NEW len \in PacketLens, NEW n \in Counts,
         Receive(v, len, n)
  PROVE  DInv'
<1>0. /\ pc = "idle" /\ pc' \in {"v5", "set"}
      /\ UNCHANGED <<set, cur, tmpl, fld, recs, complete, store>> /\ pkt'.n = n
  BY DEF Receive
<1>1. recs = <<>>
  BY <1>0 DEF DInv, Stage, InRecord, Between
<1> QED
  BY <1>0, <1>1, QuietD, DissectAssumption DEF Idle, DInv, Types

\* A packet or a set is left.
LEMMA ForgetD ==
  ASSUME DInv, forget_set, pc' \in {"idle", "set", "aborted"},
         store' = store \/ store' = restored, pkt' = pkt \/ pkt' = NoPacket
  PROVE  DInv'
<1>1. /\ set' \in [id : Nat, len : Nat] /\ cur' \in Int /\ tmpl' = NoReading
      /\ fld' \in Nat /\ recs' = <<>> /\ recs' \in Seq(Parts)
  BY DEF forget_set, NoSet
<1>2. pkt'.n \in Nat
  BY DEF NoPacket, DInv, Types
<1> QED
  BY <1>1, <1>2, QuietD DEF Idle

LEMMA LeaveD ==
  ASSUME DInv,
         \/ UnknownObservationId \/ PacketEnd \/ Restart \/ TemplateSetEnd
         \/ DataUnknown \/ DataEnd
  PROVE  DInv'
<1>1. forget_set /\ pc' \in {"idle", "set", "aborted"}
        /\ (store' = store \/ store' = restored) /\ (pkt' = pkt \/ pkt' = NoPacket)
  BY DEF UnknownObservationId, PacketEnd, Restart, TemplateSetEnd, DataUnknown,
     DataEnd, next_set, forget_packet, savedVars
<1> QED
  BY <1>1, ForgetD

LEMMA DissectV5D == ASSUME DInv, DissectV5 PROVE DInv'
<1> DEFINE n == least(pkt.n, V5FLOWS_PER_PAK)
<1>1. /\ pc' = "v5end" /\ UNCHANGED <<pkt, set, cur, tmpl, fld, store>>
      /\ recs' = [k \in 1..n |->
                   [from |-> 24 + 48 * (k - 1), to |-> 24 + 48 * k, fields |-> 0]]
  BY DEF DissectV5, packetVars, savedVars
<1>2. n \in Nat
  BY Constants DEF DInv, Types, least
<1> HIDE DEF n
<1>3. recs' \in Seq(Parts)
  <2>1. \A k \in 1..n : [from |-> 24 + 48 * (k - 1), to |-> 24 + 48 * k, fields |-> 0]
                          \in Parts
    BY <1>2 DEF Parts
  <2> QED
    BY <1>1, <1>2, <2>1
<1> QED
  BY <1>1, <1>3, QuietD DEF DInv, Types, Idle

LEMMA SetTooShortD ==
  ASSUME DInv, give_up, pc = "set" PROVE DInv'
<1>1. pc' = "set" /\ UNCHANGED <<pkt, set, cur, tmpl, fld, recs, store>>
  BY DEF give_up, savedVars
<1>2. recs = <<>>
  BY DEF DInv, Stage, InRecord, Between
<1> QED
  BY <1>1, <1>2, QuietD DEF DInv, Types, Idle

LEMMA SetHeaderD ==
  ASSUME DInv, NEW id \in 0..3 \cup TemplateIds, NEW len \in SetLens, SetHeader(id, len)
  PROVE  DInv'
<1>1. CASE give_up
  BY <1>1, SetTooShortD DEF SetHeader
<1>2. CASE ~give_up
  <2>1. /\ pc = "set" /\ set' = [id |-> id, len |-> len] /\ cur' = 4
        /\ pc' \in {"template", "option", "data"}
        /\ (pc' = "data" => ~(id < 256))
        /\ UNCHANGED <<pkt, tmpl, fld, recs, store>>
    BY <1>2 DEF SetHeader, is_template_set, savedVars
  <2>2. recs = <<>>
    BY <2>1 DEF DInv, Stage, InRecord, Between
  <2>3. id \in Nat /\ len \in Nat /\ (~(id < 256) => id \in TemplateIds)
    BY Constants
  <2> QED
    BY <2>1, <2>2, <2>3, QuietD DEF DInv, Types, Idle
<1> QED
  BY <1>1, <1>2

-----------------------------------------------------------------------------
(* Templates.                                                              *)

LEMMA BadTemplateD ==
  ASSUME DInv, bad_template, pc \in {"template", "tfield"} PROVE DInv'
<1>1. /\ cur' = cur + buffer_len /\ pc' = "template" /\ tmpl' = NoReading
      /\ UNCHANGED <<pkt, set, fld, recs, store>>
  BY DEF bad_template, packetVars, savedVars
<1>2. recs = <<>> /\ cur' \in Int /\ set.len \in SetLens
  BY <1>1 DEF DInv, Stage, Types, InRecord, Between, Idle, buffer_len
<1> QED
  BY <1>1, <1>2, QuietD DEF DInv, Types, Idle

\* A template is opened, or one more of its fields is read.
LEMMA ReadingD ==
  ASSUME DInv, pc' \in {"tfield", "ofield"}, pc \in {"template", "tfield", "option", "ofield"},
         UNCHANGED <<pkt, set, cur, fld, recs, store>>,
         tmpl' \in Readings /\ tmpl'.tid \in TemplateIds,
         Adds(tmpl'.fields, tmpl'.accum),
         pc' = "ofield" /\ ~tmpl'.misread => tmpl'.width = tmpl'.accum,
         pc' = "tfield" /\ tmpl'.fields # <<>> => tmpl'.at <= buffer_len
  PROVE  DInv'
<1>1. Types'
  <2>1. tmpl'.tid \in TemplateIds /\ pc' \in Pcs
    BY DEF Pcs
  <2>2. tmpl' \in Readings
    BY Constants
  <2>3. set.len \in SetLens
    BY DEF DInv, Types, Idle
  <2> QED
    BY <2>1, <2>2, <2>3 DEF DInv, Types, InRecord, Between
<1>2. Stage'
  BY DEF DInv, Stage, InRecord, Between
<1>3. ReadInside'
  BY DEF ReadInside, buffer_len
<1>4. Added'
  BY DEF DInv, Added
<1>5. Chain' /\ Laid'
  BY OutsideRecords DEF Outside
<1> QED
  BY <1>1, <1>2, <1>3, <1>4, <1>5 DEF DInv

LEMMA TemplateHeaderD ==
  ASSUME DInv, NEW tid \in TemplateIds, NEW n \in FieldCounts, TemplateHeader(tid, n)
  PROVE  DInv'
<1>1. CASE bad_template
  BY <1>1, BadTemplateD DEF TemplateHeader
<1>2. CASE ~bad_template
  <2>1. /\ pc = "template" /\ pc' = "tfield"
        /\ tmpl' = [tid |-> tid, n |-> n, at |-> 4, accum |-> 0, fields |-> <<>>,
                    owed |-> FALSE, misread |-> FALSE, width |-> 0]
        /\ UNCHANGED <<pkt, set, cur, fld, recs, store>>
    BY <1>2 DEF TemplateHeader, NoReading, packetVars, savedVars
  <2>2. n \in Nat
    BY DissectAssumption
  <2>3. tmpl' \in Readings /\ tmpl'.tid \in TemplateIds
    BY <2>1, <2>2, Constants DEF Readings
  <2> QED
    BY <2>1, <2>3, AddsNone, ReadingD
<1> QED
  BY <1>1, <1>2

LEMMA TemplateFieldD ==
  ASSUME DInv, NEW e \in BOOLEAN, NEW len \in FieldLens, TemplateField(e, len)
  PROVE  DInv'
<1> DEFINE fl == IF e THEN 8 ELSE 4
           sum == IF len = Variable THEN tmpl.accum ELSE tmpl.accum + len
<1>1. CASE bad_template
  BY <1>1, BadTemplateD DEF TemplateField
<1>2. CASE ~bad_template
  <2>1. /\ pc = "tfield" /\ pc' = "tfield" /\ ~field_overruns(fl)
        /\ tmpl' = [tmpl EXCEPT !.at = tmpl.at + fl, !.fields = Append(tmpl.fields, len),
                                !.accum = sum]
        /\ UNCHANGED <<pkt, set, cur, fld, recs, store>>
    BY <1>2 DEF TemplateField, packetVars, savedVars
  <2>2. /\ tmpl \in Readings
        /\ tmpl.tid \in TemplateIds /\ tmpl.accum \in Nat /\ tmpl.fields \in Seq(FieldLens)
        /\ tmpl.at \in Int /\ set.len \in Nat /\ cur \in Int
    BY <2>1 DEF DInv, Types, Readings
  <2>3. sum \in Nat /\ (sum = tmpl.accum + len \/ (len = Variable /\ sum = tmpl.accum))
    BY <2>2, Constants
  <2>4. fl \in Int
    OBVIOUS
  <2> HIDE DEF fl, sum
  <2>5. /\ tmpl' \in Readings /\ tmpl'.tid \in TemplateIds
        /\ tmpl'.fields = Append(tmpl.fields, len) /\ tmpl'.accum = sum
        /\ tmpl'.at = tmpl.at + fl
    <3>1. Append(tmpl.fields, len) \in Seq(FieldLens) /\ tmpl.at + fl \in Int
      BY <2>2, <2>4
    <3>2. tmpl' = [tid |-> tmpl.tid, n |-> tmpl.n, at |-> tmpl.at + fl, accum |-> sum,
                   fields |-> Append(tmpl.fields, len), owed |-> tmpl.owed,
                   misread |-> tmpl.misread, width |-> tmpl.width]
      BY <2>1, <2>2 DEF Readings
    <3> QED
      BY <3>1, <3>2, <2>2, <2>3 DEF Readings
  <2>6. Adds(tmpl'.fields, tmpl'.accum)
    BY <2>2, <2>3, <2>5, AddsMore DEF DInv, Added
  <2>7. tmpl'.at <= buffer_len
    BY <2>1, <2>2, <2>4, <2>5 DEF field_overruns, buffer_len
  <2> QED
    BY <2>1, <2>5, <2>6, <2>7, ReadingD
<1> QED
  BY <1>1, <1>2

LEMMA OptionHeaderD ==
  ASSUME DInv, NEW tid \in TemplateIds, NEW n \in FieldCounts, OptionHeader(tid, n)
  PROVE  DInv'
<1>1. CASE next_set /\ UNCHANGED <<store, files>>
  BY <1>1, ForgetD DEF next_set
<1>2. CASE ~(next_set /\ UNCHANGED <<store, files>>)
  <2>1. /\ pc = "option" /\ pc' = "ofield"
        /\ tmpl' = [tid |-> tid, n |-> n, at |-> 6, accum |-> 0, fields |-> <<>>,
                    owed |-> FALSE, misread |-> FALSE, width |-> 0]
        /\ UNCHANGED <<pkt, set, cur, fld, recs, store>>
    BY <1>2 DEF OptionHeader, NoReading, packetVars, savedVars
  <2>2. n \in Nat
    BY DissectAssumption
  <2>3. tmpl' \in Readings /\ tmpl'.tid \in TemplateIds
    BY <2>1, <2>2, Constants DEF Readings
  <2> QED
    BY <2>1, <2>3, AddsNone, ReadingD
<1> QED
  BY <1>1, <1>2

\* One more slot of four bytes: with an enterprise number in it, the template is
\* misread from here on; else its length counts at the probe too.
LEMMA OptionTemplateFieldD ==
  ASSUME DInv, NEW e \in BOOLEAN, NEW len \in FieldLens, OptionTemplateField(e, len)
  PROVE  DInv'
<1> DEFINE w == IF tmpl.owed THEN tmpl.width ELSE tmpl.width + len
           m == tmpl.misread \/ tmpl.owed
<1>1. /\ pc = "ofield" /\ pc' = "ofield"
      /\ tmpl' = [tmpl EXCEPT !.at = tmpl.at + 4, !.fields = Append(tmpl.fields, len),
                              !.accum = tmpl.accum + len, !.width = w,
                              !.misread = m, !.owed = e]
      /\ UNCHANGED <<pkt, set, cur, fld, recs, store>>
  BY DEF OptionTemplateField, packetVars, savedVars
<1>2. /\ tmpl \in Readings
      /\ tmpl.tid \in TemplateIds /\ tmpl.accum \in Nat /\ tmpl.fields \in Seq(FieldLens)
      /\ tmpl.width \in Nat /\ len \in Nat
  BY <1>1, Constants DEF DInv, Types, Readings
<1>3. w \in Nat /\ m \in BOOLEAN /\ (~m => ~tmpl.misread /\ w = tmpl.width + len)
  BY <1>2 DEF Readings
<1> HIDE DEF w, m
<1>4. tmpl' = [tid |-> tmpl.tid, n |-> tmpl.n, at |-> tmpl.at + 4,
               accum |-> tmpl.accum + len, fields |-> Append(tmpl.fields, len),
               owed |-> e, misread |-> m, width |-> w]
  BY <1>1, <1>2 DEF Readings
<1>5. tmpl' \in Readings /\ tmpl'.tid \in TemplateIds
  <2>1. /\ Append(tmpl.fields, len) \in Seq(FieldLens) /\ tmpl.at + 4 \in Int
        /\ tmpl.accum + len \in Nat /\ tmpl.n \in Nat /\ tmpl.tid \in Nat
    BY <1>2 DEF Readings
  <2> QED
    BY <2>1, <1>2, <1>3, <1>4 DEF Readings
<1>6. Adds(tmpl'.fields, tmpl'.accum)
  BY <1>2, <1>4, AddsMore DEF DInv, Added
<1>7. ~tmpl'.misread => tmpl'.width = tmpl'.accum
  BY <1>1, <1>3, <1>4 DEF DInv, Added
<1> QED
  BY <1>1, <1>5, <1>6, <1>7, ReadingD

\* A template is stored.
LEMMA StoredD ==
  ASSUME DInv, NEW t, t \in Templates, NEW tid \in TemplateIds,
         store' \in saved_template(tid, t), Adds(t.fields, t.kept),
         ~t.option \/ t.whole => t.width = t.kept,
         pc' \in {"template", "set"}, pkt' = pkt, cur' \in Int, fld' \in Nat,
         tmpl' = NoReading, recs' = <<>>, set' \in [id : Nat, len : Nat],
         pc' = "template" => set'.len \in SetLens
  PROVE  DInv'
<1>1. NoReading \in Readings
  BY DEF NoReading, Readings
<1>2. store' = store \/ store' = [store EXCEPT ![tid] = t]
  BY DEF saved_template
<1>3. store \in [TemplateIds -> Templates]
  BY DEF DInv, Types
<1>4. /\ store' \in [TemplateIds -> Templates]
      /\ \A u \in TemplateIds : store'[u] = store[u] \/ store'[u] = t
  BY <1>2, <1>3
<1>5. Types'
  <2>1. pc' \in Pcs /\ recs' \in Seq(Parts)
    BY DEF Pcs, Idle
  <2> QED
    BY <1>1, <1>4, <2>1 DEF DInv, Types, InRecord, Between, Idle
<1>6. Stage'
  BY DEF Stage, InRecord, Between
<1>7. ReadInside'
  BY DEF ReadInside
<1>8. Added'
  <2>1. Adds(tmpl'.fields, tmpl'.accum)
    BY AddsNone DEF NoReading
  <2> QED
    BY <2>1, <1>4 DEF DInv, Added
<1>9. Chain' /\ Laid'
  BY OutsideRecords DEF Outside, Idle
<1> QED
  BY <1>5, <1>6, <1>7, <1>8, <1>9 DEF DInv

LEMMA TemplateSaveD == ASSUME DInv, TemplateSave PROVE DInv'
<1> DEFINE t == [fields |-> tmpl.fields, option |-> FALSE, kept |-> tmpl.accum,
                 width |-> tmpl.accum, whole |-> TRUE]
<1>0. pc = "tfield"
  BY DEF TemplateSave
<1>1. CASE bad_template
  BY <1>0, <1>1, BadTemplateD
<1>2. CASE ~bad_template
  <2>1. /\ store' \in saved_template(tmpl.tid, t)
        /\ cur' = cur + buffer_len \/ cur' = cur + tmpl.at
        /\ pc' = "template" /\ tmpl' = NoReading
        /\ UNCHANGED <<pkt, set, fld, recs>>
    BY <1>2 DEF TemplateSave, packetVars
  <2>2. /\ tmpl \in Readings
        /\ tmpl.tid \in TemplateIds /\ set \in [id : Nat, len : Nat] /\ set.len \in SetLens
        /\ cur \in Int /\ fld \in Nat /\ recs = <<>>
    BY <1>0 DEF DInv, Types, Stage, Idle, InRecord, Between
  <2>3. t \in Templates /\ cur' \in Int
    BY <2>1, <2>2 DEF Templates, Readings, buffer_len
  <2>4. Adds(t.fields, t.kept) /\ t.width = t.kept
    BY DEF DInv, Added
  <2> QED
    BY <2>1, <2>2, <2>3, <2>4, StoredD
<1> QED
  BY <1>1, <1>2

LEMMA OptionSaveD ==
  ASSUME DInv, NEW len \in FieldLens, OptionSave(len) PROVE DInv'
<1> DEFINE w == tmpl.width + (IF read_whole THEN 0 ELSE len)
           t == [fields |-> tmpl.fields, option |-> TRUE, kept |-> tmpl.accum,
                 whole |-> read_whole, width |-> w]
<1>1. /\ pc = "ofield" /\ store' \in saved_template(tmpl.tid, t)
      /\ pc' = "set" /\ set' = NoSet /\ cur' = 0 /\ tmpl' = NoReading /\ fld' = 0
      /\ recs' = <<>> /\ pkt' = pkt
  BY DEF OptionSave, next_set, forget_set
<1>2. /\ tmpl \in Readings /\ tmpl.tid \in TemplateIds /\ w \in Nat
      /\ read_whole \in BOOLEAN
  BY <1>1, Constants DEF DInv, Types, Readings, read_whole
<1>3. read_whole => w = tmpl.accum
  BY <1>1, <1>2 DEF DInv, Added, Readings, read_whole
<1> HIDE DEF w
<1>4. t \in Templates /\ set' \in [id : Nat, len : Nat]
  BY <1>1, <1>2 DEF Templates, Readings, NoSet
<1>5. Adds(t.fields, t.kept) /\ t.option /\ (t.whole => t.width = t.kept)
  BY <1>3 DEF DInv, Added
<1> QED
  BY <1>1, <1>2, <1>4, <1>5, StoredD

-----------------------------------------------------------------------------
(* The records of a data set.                                              *)

\* Where the fields of a record of fixed lengths begin.
LEMMA OffsetFacts ==
  ASSUME NEW T \in Templates, T.fields # <<>>, AllFixed(T.fields), Adds(T.fields, T.kept)
  PROVE  /\ Len(T.fields) \in Nat /\ Len(T.fields) >= 1 /\ T.kept \in Nat /\ T.kept > 0
         /\ \A k \in 0..Len(T.fields) : Offset(T)[k] \in Nat /\ Offset(T)[k] <= T.kept
         /\ \A k \in 0..(Len(T.fields) - 1) : Offset(T)[k] < T.kept
         /\ Offset(T)[0] = 0 /\ Offset(T)[Len(T.fields)] = T.kept
         /\ \A k \in 1..Len(T.fields) : Offset(T)[k] = Offset(T)[k - 1] + T.fields[k]
<1> DEFINE m == Len(T.fields)
<1>1. m \in Nat /\ m >= 1 /\ T.kept \in Nat
  BY DEF Templates
<1>2. IsOffsets(Offset(T), T.fields, T.kept)
  BY DEF Adds, Offset
<1> HIDE DEF m
<1>3. /\ Offset(T) \in [0..m -> Nat] /\ Offset(T)[0] = 0 /\ Offset(T)[m] = T.kept
      /\ \A k \in 1..m : Offset(T)[k] = Offset(T)[k - 1] + T.fields[k]
      /\ \A j, k \in 0..m : j < k => Offset(T)[j] < Offset(T)[k]
  BY <1>2 DEF IsOffsets, m
<1>4. \A k \in 0..m : Offset(T)[k] \in Nat
  BY <1>3
<1>5. ASSUME NEW k \in 0..(m - 1) PROVE Offset(T)[k] < T.kept
  <2>1. k \in 0..m /\ m \in 0..m /\ k < m
    BY <1>1
  <2> QED
    BY <2>1, <1>3
<1>6. T.kept > 0
  <2>1. 0 \in 0..(m - 1)
    BY <1>1
  <2> QED
    BY <2>1, <1>3, <1>5
<1>7. ASSUME NEW k \in 0..m PROVE Offset(T)[k] <= T.kept
  <2>1. CASE k = m
    BY <2>1, <1>1, <1>3
  <2>2. CASE k \in 0..(m - 1)
    BY <2>2, <1>1, <1>4, <1>5
  <2> QED
    BY <2>1, <2>2, <1>1
<1> QED
  BY <1>1, <1>3, <1>4, <1>5, <1>6, <1>7 DEF m

\* Records follow each other.
LEMMA StartsFacts ==
  ASSUME NEW T \in Templates, NEW r \in Int
  PROVE  /\ Starts(T, r) \in Int /\ Starts(T, r + 1) = Starts(T, r) + T.kept
         /\ Starts(T, 1) = IF T.option THEN 0 ELSE 4
<1>1. T.kept \in Nat
  BY DEF Templates
<1>2. \A b, w \in Int : /\ b + (r - 1) * w \in Int
                        /\ b + ((r + 1) - 1) * w = b + (r - 1) * w + w
                        /\ b + (1 - 1) * w = b
  OBVIOUS
<1> QED
  BY <1>1, <1>2 DEF Starts

Opened(rs, c) ==
  LET new == [from |-> c, to |-> c, fields |-> 0]
  IN IF rs # <<>> /\ rs[Len(rs)].from = c
     THEN [rs EXCEPT ![Len(rs)] = new] ELSE Append(rs, new)

Extended(rs, p, f) ==
  [rs EXCEPT ![Len(rs)].to = p, ![Len(rs)].fields = f]

\* A record is opened: the last one is replaced, or one is added.
LEMMA OpenedFacts ==
  ASSUME NEW rs \in Seq(Parts), NEW c \in Int
  PROVE  LET qs == Opened(rs, c)
         IN /\ qs \in Seq(Parts) /\ Len(qs) > 0
            /\ qs[Len(qs)] = [from |-> c, to |-> c, fields |-> 0]
            /\ \A k \in 1..(Len(qs) - 1) : k \in 1..Len(rs) /\ qs[k] = rs[k]
            /\ \/ Len(qs) = Len(rs) /\ Len(rs) > 0 /\ rs[Len(rs)].from = c
               \/ Len(qs) = Len(rs) + 1
            /\ rs # <<>> /\ rs[Len(rs)].from # c => Len(qs) = Len(rs) + 1
            /\ rs = <<>> => Len(qs) = 1
<1> DEFINE new == [from |-> c, to |-> c, fields |-> 0]
           qs == Opened(rs, c)
<1>1. new \in Parts /\ Len(rs) \in Nat /\ (rs # <<>> <=> Len(rs) > 0)
  BY DEF Parts
<1>2. CASE rs # <<>> /\ rs[Len(rs)].from = c
  <2>1. qs = [rs EXCEPT ![Len(rs)] = new]
    BY <1>2 DEF Opened
  <2> HIDE DEF new, qs
  <2>2. /\ qs \in Seq(Parts) /\ Len(qs) = Len(rs) /\ qs[Len(rs)] = new
        /\ \A k \in 1..(Len(rs) - 1) : qs[k] = rs[k]
    BY <2>1, <1>1, <1>2
  <2> QED
    BY <2>2, <1>1, <1>2 DEF new, qs
<1>3. CASE ~(rs # <<>> /\ rs[Len(rs)].from = c)
  <2>1. qs = Append(rs, new)
    BY <1>3 DEF Opened
  <2> HIDE DEF new, qs
  <2>2. /\ qs \in Seq(Parts) /\ Len(qs) = Len(rs) + 1 /\ qs[Len(rs) + 1] = new
        /\ \A k \in 1..Len(rs) : qs[k] = rs[k]
    BY <2>1, <1>1
  <2> QED
    BY <2>2, <1>1, <1>3 DEF new, qs
<1> QED
  BY <1>2, <1>3

LEMMA Replaced ==
  ASSUME NEW rs \in Seq(Parts), NEW u \in Parts, NEW m \in 1..Len(rs), NEW qs,
         qs = [rs EXCEPT ![m] = u]
  PROVE  /\ qs \in Seq(Parts) /\ Len(qs) = Len(rs) /\ qs[m] = u
         /\ \A k \in 1..(m - 1) : qs[k] = rs[k]
<1>1. /\ qs \in Seq(Parts) /\ Len(qs) = Len(rs) /\ qs[m] = u
      /\ \A k \in 1..Len(rs) : k # m => qs[k] = rs[k]
  OBVIOUS
<1> QED
  BY <1>1

\* The last record grows.
LEMMA ExtendedFacts ==
  ASSUME NEW rs \in Seq(Parts), NEW p \in Int, NEW f \in Int, rs # <<>>
  PROVE  LET qs == Extended(rs, p, f)
         IN /\ qs \in Seq(Parts) /\ Len(qs) = Len(rs) /\ Len(rs) > 0
            /\ qs[Len(rs)].from = rs[Len(rs)].from /\ qs[Len(rs)].to = p
            /\ qs[Len(rs)].fields = f
            /\ \A k \in 1..(Len(rs) - 1) : qs[k] = rs[k]
<1> DEFINE m == Len(rs)
           r == rs[m]
           u == [from |-> r.from, to |-> p, fields |-> f]
           qs == Extended(rs, p, f)
<1>1. m \in Nat /\ m > 0 /\ m \in 1..m
  OBVIOUS
<1>0. r \in Parts
  <2> HIDE DEF m
  <2> QED
    BY <1>1 DEF m
<1>2. u \in Parts /\ u = [[r EXCEPT !.to = p] EXCEPT !.fields = f]
  <2>1. ASSUME NEW x \in Parts
        PROVE  /\ [from |-> x.from, to |-> p, fields |-> f] \in Parts
               /\ [from |-> x.from, to |-> p, fields |-> f]
                    = [[x EXCEPT !.to = p] EXCEPT !.fields = f]
    <3>1. x.from \in Int /\ x \in [from : Int, to : Int, fields : Int]
      BY DEF Parts
    <3>2. [from |-> x.from, to |-> p, fields |-> f] \in Parts
      BY <3>1 DEF Parts
    <3>3. [from |-> x.from, to |-> p, fields |-> f]
            = [[x EXCEPT !.to = p] EXCEPT !.fields = f]
      <4>1. [x EXCEPT !.to = p] = [from |-> x.from, to |-> p, fields |-> x.fields]
        BY <3>1
      <4>2. [[from |-> x.from, to |-> p, fields |-> x.fields] EXCEPT !.fields = f]
              = [from |-> x.from, to |-> p, fields |-> f]
        OBVIOUS
      <4> QED
        BY <4>1, <4>2
    <3> QED
      BY <3>2, <3>3
  <2> HIDE DEF r
  <2> QED
    BY <1>0, <2>1
<1>3. qs = [rs EXCEPT ![m] = u]
  BY <1>1, <1>2 DEF Extended
<1> HIDE DEF qs, m, u
<1>4. /\ qs \in Seq(Parts) /\ Len(qs) = Len(rs) /\ qs[m] = u
      /\ \A k \in 1..(m - 1) : qs[k] = rs[k]
  <2>1. u \in Parts /\ m \in 1..Len(rs)
    BY <1>1, <1>2 DEF m
  <2> QED
    BY <2>1, <1>3, Replaced
<1>5. u.from = r.from /\ u.to = p /\ u.fields = f
  BY DEF u
<1> QED
  BY <1>1, <1>4, <1>5 DEF qs, m

\* Chain, for one record opened and for one grown.
LEMMA LinkedOpened ==
  ASSUME NEW T, NEW l \in Int, NEW rs \in Seq(Parts), NEW c \in Int, Linked(T, l, rs), c < l,
         rs # <<>> => /\ rs[Len(rs)].to = c
                      /\ rs[Len(rs)].fields = Len(T.fields) \/ c >= l
  PROVE  Linked(T, l, Opened(rs, c))
<1> DEFINE qs == Opened(rs, c)
<1> HIDE DEF qs
<1>1. /\ qs \in Seq(Parts) /\ Len(qs) > 0
      /\ qs[Len(qs)] = [from |-> c, to |-> c, fields |-> 0]
      /\ \A k \in 1..(Len(qs) - 1) : k \in 1..Len(rs) /\ qs[k] = rs[k]
      /\ \/ Len(qs) = Len(rs) /\ Len(rs) > 0 /\ rs[Len(rs)].from = c
         \/ Len(qs) = Len(rs) + 1
  BY OpenedFacts DEF qs
<1>2. Len(qs) \in Nat /\ Len(rs) \in Nat /\ (Len(rs) > 0 => rs # <<>>)
  BY <1>1
<1>3. \A k \in 1..(Len(rs) - 1) : /\ rs[k].fields = Len(T.fields)
                                  /\ rs[k].to = rs[k + 1].from /\ rs[k].to < l
  BY DEF Linked
<1>4. ASSUME NEW k \in 1..(Len(qs) - 1)
      PROVE  /\ qs[k].fields = Len(T.fields)
             /\ qs[k].to = qs[k + 1].from /\ qs[k].to < l
  <2>1. k \in 1..Len(rs) /\ qs[k] = rs[k]
    BY <1>1
  <2>2. CASE k + 1 \in 1..(Len(qs) - 1)
    <3>1. qs[k + 1] = rs[k + 1] /\ k + 1 \in 1..Len(rs)
      BY <2>2, <1>1
    <3>2. k \in 1..(Len(rs) - 1)
      BY <3>1, <1>2
    <3> QED
      BY <3>1, <3>2, <2>1, <1>3
  <2>3. CASE k + 1 = Len(qs)
    <3>1. qs[k + 1].from = c
      BY <2>3, <1>1
    <3>2. CASE k = Len(rs)
      <4>1. rs # <<>>
        BY <3>2, <2>1, <1>2
      <4> QED
        BY <4>1, <3>1, <3>2, <2>1
    <3>3. CASE k # Len(rs)
      <4>1. k + 1 = Len(rs) /\ rs[Len(rs)].from = c /\ k \in 1..(Len(rs) - 1)
        BY <3>3, <2>1, <2>3, <1>1, <1>2
      <4> QED
        BY <4>1, <3>1, <2>1, <1>3
    <3> QED
      BY <3>2, <3>3
  <2> QED
    BY <2>2, <2>3, <1>2
<1> QED
  BY <1>4 DEF Linked, qs

LEMMA LinkedExtended ==
  ASSUME NEW T, NEW l, NEW rs \in Seq(Parts), NEW p \in Int, NEW f \in Int, rs # <<>>,
         Linked(T, l, rs)
  PROVE  Linked(T, l, Extended(rs, p, f))
<1> DEFINE qs == Extended(rs, p, f)
<1> HIDE DEF qs
<1>1. /\ qs \in Seq(Parts) /\ Len(qs) = Len(rs)
      /\ qs[Len(rs)].from = rs[Len(rs)].from
      /\ \A k \in 1..(Len(rs) - 1) : qs[k] = rs[k]
  BY ExtendedFacts DEF qs
<1>2. \A k \in 1..(Len(rs) - 1) : /\ rs[k].fields = Len(T.fields)
                                  /\ rs[k].to = rs[k + 1].from /\ rs[k].to < l
  BY DEF Linked
<1>3. Len(rs) \in Nat
  OBVIOUS
<1>4. ASSUME NEW k \in 1..(Len(rs) - 1) PROVE qs[k + 1].from = rs[k + 1].from
  <2>1. k + 1 = Len(rs) \/ k + 1 \in 1..(Len(rs) - 1)
    BY <1>3
  <2> QED
    BY <2>1, <1>1
<1>5. \A k \in 1..(Len(rs) - 1) : /\ qs[k].fields = Len(T.fields)
                                  /\ qs[k].to = qs[k + 1].from /\ qs[k].to < l
  BY <1>1, <1>2, <1>4
<1> QED
  BY <1>1, <1>5 DEF Linked, qs

\* Records whose fields all have a length: one opened, grown, ended, broken off.
Lays(T) == /\ T \in Templates /\ T.fields # <<>> /\ AllFixed(T.fields)
           /\ Adds(T.fields, T.kept)

LEMMA InnerOpened ==
  ASSUME NEW T, Lays(T), NEW l \in Int, NEW e \in Int, NEW rs \in Seq(Parts), NEW c \in Int,
         Read(T, l, e, rs, c), IF T.option THEN c < e ELSE c < l /\ l - c >= 4
  PROVE  Inner(T, l, e, Opened(rs, c), c, 1)
<1> DEFINE qs == Opened(rs, c)
           n == Len(rs)
<1>0. T \in Templates /\ n \in Nat
  BY DEF Lays
<1> HIDE DEF qs, n
<1>1. Even(T, l, e, rs, c)
  BY DEF Read, Broken
<1>2. /\ Regular(T, rs, n) /\ c = Starts(T, n + 1) /\ (T.option => c <= e)
  BY <1>1 DEF Even, n
<1>3. /\ qs \in Seq(Parts) /\ Len(qs) > 0
      /\ qs[Len(qs)] = [from |-> c, to |-> c, fields |-> 0]
      /\ \A k \in 1..(Len(qs) - 1) : k \in 1..n /\ qs[k] = rs[k]
      /\ rs # <<>> /\ rs[n].from # c => Len(qs) = n + 1
      /\ rs = <<>> => Len(qs) = 1
  BY OpenedFacts DEF qs, n
<1>4. Len(T.fields) \in Nat /\ T.kept \in Nat /\ T.kept > 0 /\ Offset(T)[0] = 0
  BY OffsetFacts DEF Lays
<1>5. Len(qs) = n + 1
  <2>1. CASE rs = <<>>
    BY <2>1, <1>3 DEF n
  <2>2. CASE rs # <<>>
    <3>1. n \in 1..n
      BY <2>2, <1>0 DEF n
    <3>2. rs[n].from = Starts(T, n)
      BY <3>1, <1>2 DEF Regular
    <3>3. Starts(T, n) \in Int /\ c = Starts(T, n) + T.kept
      BY <1>0, <1>2, StartsFacts
    <3> QED
      BY <3>2, <3>3, <2>2, <1>3, <1>4
  <2> QED
    BY <2>1, <2>2
<1>6. Regular(T, qs, n)
  <2>1. Len(qs) - 1 = n
    BY <1>0, <1>5
  <2>2. \A k \in 1..n : qs[k] = rs[k]
    BY <2>1, <1>3
  <2> QED
    BY <2>2, <1>2 DEF Regular
<1>7. Begun(T, l, e, n + 1)
  BY <1>2 DEF Begun
<1>8. c = c + Offset(T)[1 - 1] /\ (n + 1) - 1 = n /\ 1 \in 1..(Len(T.fields) + 1)
  BY <1>0, <1>4
<1>9. /\ qs[n + 1].from = Starts(T, n + 1) /\ qs[n + 1].to = c
      /\ qs[n + 1].fields = 1 - 1
  BY <1>2, <1>3, <1>5
<1>10. Inner(T, l, e, qs, c, 1)
  BY <1>0, <1>2, <1>5, <1>6, <1>7, <1>8, <1>9 DEF Inner
<1> QED
  BY <1>10 DEF qs

LEMMA InnerExtended ==
  ASSUME NEW T, Lays(T), NEW l \in Int, NEW e \in Int, NEW rs \in Seq(Parts), NEW c \in Int,
         NEW f, Inner(T, l, e, rs, c, f), f <= Len(T.fields), NEW p,
         p = c + T.fields[f], T.option => p <= e
  PROVE  Inner(T, l, e, Extended(rs, p, f), p, f + 1)
<1> DEFINE qs == Extended(rs, p, f)
           n == Len(rs)
           m == Len(T.fields)
<1>0. T \in Templates /\ n \in Nat /\ m \in Nat
  BY OffsetFacts DEF Lays
<1>1. /\ n > 0 /\ Regular(T, rs, n - 1) /\ Begun(T, l, e, n) /\ f \in 1..(m + 1)
      /\ rs[n].from = Starts(T, n) /\ c = Starts(T, n) + Offset(T)[f - 1]
  BY DEF Inner
<1>2. f \in 1..m /\ f - 1 \in 0..m /\ f + 1 \in 1..(m + 1) /\ (f + 1) - 1 = f
  BY <1>0, <1>1
<1>3. T.fields[f] \in Nat
  BY <1>0, <1>2, Constants DEF Templates
<1> HIDE DEF qs, n, m
<1>4. p \in Int /\ rs # <<>>
  BY <1>1, <1>3 DEF n
<1>5. /\ qs \in Seq(Parts) /\ Len(qs) = n
      /\ qs[n].from = rs[n].from /\ qs[n].to = p /\ qs[n].fields = f
      /\ \A k \in 1..(n - 1) : qs[k] = rs[k]
  <2>1. f \in Int
    BY <1>2
  <2> QED
    BY <2>1, <1>4, ExtendedFacts DEF qs, n
<1>6. p = Starts(T, n) + Offset(T)[f]
  <2>1. Offset(T)[f] = Offset(T)[f - 1] + T.fields[f] /\ Offset(T)[f - 1] \in Nat
    BY <1>2, OffsetFacts DEF Lays, m
  <2>2. Starts(T, n) \in Int
    BY <1>0, StartsFacts
  <2>3. \A a, b, g \in Int : (a + b) + g = a + (b + g)
    OBVIOUS
  <2>4. p = (Starts(T, n) + Offset(T)[f - 1]) + T.fields[f]
    BY <1>1
  <2>5. Offset(T)[f - 1] \in Int /\ T.fields[f] \in Int
    BY <2>1, <1>3
  <2>6. (Starts(T, n) + Offset(T)[f - 1]) + T.fields[f]
          = Starts(T, n) + (Offset(T)[f - 1] + T.fields[f])
    BY <2>2, <2>3, <2>5, Zenon
  <2> QED
    BY <2>1, <2>4, <2>6, Zenon
<1>7. Regular(T, qs, n - 1)
  BY <1>1, <1>5 DEF Regular
<1>8. Inner(T, l, e, qs, p, f + 1)
  BY <1>1, <1>2, <1>5, <1>6, <1>7 DEF Inner, m
<1> QED
  BY <1>8 DEF qs

\* All fields were read.
LEMMA InnerWhole ==
  ASSUME NEW T, Lays(T), NEW l, NEW e, NEW rs \in Seq(Parts), NEW c,
         NEW f, Inner(T, l, e, rs, c, f), f > Len(T.fields)
  PROVE  Read(T, l, e, rs, c)
<1> DEFINE n == Len(rs)
           m == Len(T.fields)
<1>0. T \in Templates /\ n \in Nat /\ m \in Nat
  BY OffsetFacts DEF Lays
<1>1. /\ n > 0 /\ Regular(T, rs, n - 1) /\ Begun(T, l, e, n) /\ f \in 1..(m + 1)
      /\ rs[n].from = Starts(T, n) /\ c = Starts(T, n) + Offset(T)[f - 1]
      /\ rs[n].to = c /\ rs[n].fields = f - 1 /\ (T.option => c <= e)
  BY DEF Inner
<1>2. f - 1 = m
  BY <1>0, <1>1
<1> HIDE DEF n, m
<1>3. c = Starts(T, n + 1)
  <2>1. Offset(T)[m] = T.kept
    BY OffsetFacts DEF Lays, m
  <2>0. n \in Int
    BY <1>0
  <2>2. Starts(T, n + 1) = Starts(T, n) + T.kept
    BY <2>0, <1>0, StartsFacts
  <2>3. c = Starts(T, n) + Offset(T)[m]
    BY <1>1, <1>2
  <2> QED
    BY <2>1, <2>2, <2>3
<1>4. Regular(T, rs, n)
  <2>1. \A k \in 1..n : k \in 1..(n - 1) \/ k = n
    BY <1>0
  <2>2. rs[n].fields = Len(T.fields)
    BY <1>1, <1>2 DEF m
  <2> QED
    BY <2>1, <2>2, <1>1, <1>3 DEF Regular
<1>5. Even(T, l, e, rs, c)
  BY <1>1, <1>3, <1>4 DEF Even, n
<1> QED
  BY <1>5 DEF Read

\* The set ends before field f.
LEMMA InnerBroken ==
  ASSUME NEW T, Lays(T), NEW l \in Int, NEW e \in Int, NEW rs \in Seq(Parts), NEW c \in Int,
         NEW f, Inner(T, l, e, rs, c, f), f <= Len(T.fields), NEW d,
         IF T.option THEN e < c + T.fields[f] /\ d = e ELSE c >= l /\ d = c
  PROVE  Read(T, l, e, rs, d)
<1> DEFINE n == Len(rs)
           m == Len(T.fields)
<1>0. T \in Templates /\ n \in Nat /\ m \in Nat
  BY OffsetFacts DEF Lays
<1>1. /\ n > 0 /\ Regular(T, rs, n - 1) /\ Begun(T, l, e, n) /\ f \in 1..(m + 1)
      /\ c = Starts(T, n) + Offset(T)[f - 1]
  BY DEF Inner
<1>2. f \in 1..m /\ f - 1 \in 0..(m - 1) /\ f - 1 \in 0..m /\ f \in 0..m
  BY <1>0, <1>1
<1>3. T.fields[f] \in Nat
  BY <1>0, <1>2, Constants DEF Templates
<1> HIDE DEF n, m
<1>4. /\ Offset(T)[f - 1] \in Nat /\ Offset(T)[f - 1] < T.kept /\ T.kept \in Nat
      /\ Offset(T)[f] \in Nat /\ Offset(T)[f] <= T.kept
      /\ Offset(T)[f] = Offset(T)[f - 1] + T.fields[f]
  BY <1>2, OffsetFacts DEF Lays, m
<1>5. Starts(T, n) \in Int /\ Starts(T, n + 1) = Starts(T, n) + T.kept
  BY <1>0, StartsFacts
<1>6. c < Starts(T, n + 1) /\ c + T.fields[f] <= Starts(T, n + 1)
  <2>1. \A a, b, g, w \in Int : /\ b < w => a + b < a + w
                               /\ b + g <= w => (a + b) + g <= a + w
    OBVIOUS
  <2>2. /\ Offset(T)[f - 1] \in Int /\ T.fields[f] \in Int /\ T.kept \in Int
        /\ Offset(T)[f - 1] + T.fields[f] <= T.kept
    BY <1>3, <1>4
  <2>3. c = Starts(T, n) + Offset(T)[f - 1]
    BY <1>1
  <2> DEFINE o == Offset(T)[f - 1]
             s == Starts(T, n)
             g == T.fields[f]
             w == T.kept
  <2>4. o \in Int /\ g \in Int /\ w \in Int /\ s \in Int /\ o < w /\ o + g <= w
    BY <2>2, <1>4, <1>5
  <2>5. c = s + o /\ Starts(T, n + 1) = s + w
    BY <2>3, <1>5
  <2> HIDE DEF o, s, g, w
  <2>6. s + o < s + w /\ (s + o) + g <= s + w
    BY <2>1, <2>4
  <2> QED
    BY <2>5, <2>6 DEF g
<1>7. IF T.option THEN d = e /\ e < Starts(T, n + 1)
                  ELSE d >= l /\ l < Starts(T, n + 1)
  <2>1. \A a, b, g \in Int : (a < b /\ b <= g => a < g) /\ (a <= b /\ b < g => a < g)
    OBVIOUS
  <2>2. Starts(T, n + 1) \in Int /\ c + T.fields[f] \in Int
    <3>1. \A a, b \in Int : a + b \in Int
      OBVIOUS
    <3>2. T.kept \in Int /\ T.fields[f] \in Int
      BY <1>3, <1>4
    <3> QED
      BY <3>1, <3>2, <1>5, Zenon
  <2>3. CASE T.option
    BY <2>1, <2>2, <2>3, <1>6, Zenon
  <2>4. CASE ~T.option
    <3>1. c >= l /\ d = c /\ c < Starts(T, n + 1)
      BY <2>4, <1>6, Zenon
    <3>2. d >= l /\ l < Starts(T, n + 1)
      BY <3>1, <2>2
    <3> QED
      BY <2>4, <3>2
  <2> QED
    BY <2>3, <2>4
<1>8. Broken(T, l, e, rs, d)
  BY <1>1, <1>7 DEF Broken, n
<1> QED
  BY <1>8 DEF Read

-----------------------------------------------------------------------------
(* Steps in a data set.                                                    *)

Data == {"data", "tail"} \cup InRecord \cup Between

LEMMA DataFacts ==
  ASSUME DInv, pc \in Data, usable
  PROVE  /\ template \in Templates /\ template.fields # <<>> /\ Len(template.fields) \in Nat
         /\ set.len \in Nat /\ set.len < Word /\ option_end \in Nat
         /\ cur \in Int /\ fld \in Nat /\ recs \in Seq(Parts)
         /\ Fixed => Lays(template)
<1>1. /\ set.id \in TemplateIds /\ set.len \in SetLens /\ store \in [TemplateIds -> Templates]
      /\ cur \in Int /\ fld \in Nat /\ recs \in Seq(Parts)
  BY DEF DInv, Types, Data, Idle, InRecord, Between
<1>2. template \in Templates /\ template.fields # <<>>
  BY <1>1 DEF template, usable
<1>3. set.len \in Nat /\ set.len < Word /\ Word \in Nat
  BY <1>1, Constants
<1>4. Adds(template.fields, template.kept)
  BY <1>1 DEF DInv, Added, template
<1>5. Fixed => AllFixed(template.fields)
  BY DEF Fixed, AllFixed
<1>6. option_size \in Nat
  <2>1. \A x \in Int, w \in Nat : w > 0 => x % w \in Nat
    OBVIOUS
  <2>2. Word > 0 /\ set.len - 4 \in Int
    BY <1>3
  <2> QED
    BY <2>1, <2>2, <1>3 DEF option_size, W
<1>7. option_end \in Nat
  BY <1>3, <1>6 DEF option_end, least
<1>8. Len(template.fields) \in Nat
  BY <1>2 DEF Templates
<1> QED
  BY <1>1, <1>2, <1>3, <1>4, <1>5, <1>7, <1>8 DEF Lays

\* Neither the template nor the set changes.
LEMMA DataSame ==
  ASSUME UNCHANGED <<set, store>>
  PROVE  /\ template' = template /\ option_end' = option_end
         /\ (Fixed' <=> Fixed) /\ (usable' <=> usable)
  BY DEF template, option_end, option_size, Fixed, usable, least, W

LEMMA DataD ==
  ASSUME DInv, pc \in Data, pc' \in Data \ {"data"}, UNCHANGED <<pkt, set, tmpl, store>>,
         cur' \in Int, fld' \in Nat, recs' \in Seq(Parts), usable,
         pc' \in {"record", "rfield"} => ~template.option,
         pc' \in {"orecord", "orfield"} => template.option,
         Chain', Laid'
  PROVE  DInv'
<1>1. template' = template /\ (usable' <=> usable)
  <2>1. UNCHANGED <<set, store>>
    OBVIOUS
  <2> QED
    BY <2>1, DataSame
<1>2. Types'
  <2>1. pc' \in Pcs
    BY DEF Data, Pcs
  <2> QED
    BY <2>1 DEF DInv, Types, Data, Idle, InRecord, Between
<1>3. Stage'
  BY <1>1 DEF Stage, Data, InRecord, Between
<1>4. ReadInside'
  BY DEF ReadInside, Data, InRecord, Between
<1>5. Added'
  BY DEF DInv, Added, Data, InRecord, Between
<1> QED
  BY <1>2, <1>3, <1>4, <1>5 DEF DInv

LEMMA DataBeginD == ASSUME DInv, DataBegin PROVE DInv'
<1>0. /\ pc = "data" /\ usable /\ pc \in Data
      /\ cur' = IF template.option THEN 0 ELSE 4
      /\ pc' = IF template.option THEN "orecord" ELSE "record"
      /\ UNCHANGED <<pkt, set, tmpl, store, fld, recs>>
  BY DEF DataBegin, packetVars, savedVars, Data
<1>1. recs = <<>> /\ Len(recs) = 0
  BY <1>0 DEF DInv, Stage, InRecord, Between
<1>2. /\ template \in Templates /\ option_end \in Nat /\ fld \in Nat
      /\ recs \in Seq(Parts)
  BY <1>0, DataFacts
<1>3. template' = template /\ option_end' = option_end
  BY <1>0, DataSame
<1>4. Chain'
  BY <1>0, <1>1 DEF Chain, Linked, InRecord
<1>5. Even(template, set.len, option_end, recs, cur')
  <2>1. Regular(template, recs, 0)
    BY DEF Regular
  <2>2. cur' = Starts(template, 0 + 1)
    <3>1. 0 + 1 = 1 /\ 1 \in Int
      OBVIOUS
    <3>2. Starts(template, 1) = IF template.option THEN 0 ELSE 4
      BY <3>1, <1>2, StartsFacts
    <3> QED
      BY <3>1, <3>2, <1>0
  <2>3. template.option => cur' <= option_end
    BY <1>0, <1>2
  <2> QED
    BY <1>1, <2>1, <2>2, <2>3 DEF Even
<1>6. Laid'
  BY <1>0, <1>3, <1>5 DEF Laid, Read, InRecord, Between
<1>7. pc' \in Data \ {"data"} /\ cur' \in Int
  BY <1>0 DEF Data, Between
<1> QED
  BY <1>0, <1>2, <1>4, <1>6, <1>7, DataD

\* A record is begun.
LEMMA OpenD ==
  ASSUME DInv, \/ pc = "record" /\ room /\ pc' = "rfield"
               \/ pc = "orecord" /\ cur < option_end /\ pc' = "orfield",
         recs' = open_record, fld' = 1, UNCHANGED <<pkt, set, tmpl, store, cur>>
  PROVE  DInv'
<1>0. pc \in Data /\ pc \in Between /\ usable /\ pc' \in Data \ {"data"} /\ pc' \in InRecord
  BY DEF DInv, Stage, Data, InRecord, Between
<1>1. /\ template \in Templates /\ Len(template.fields) \in Nat /\ set.len \in Nat
      /\ option_end \in Nat /\ cur \in Int /\ recs \in Seq(Parts)
      /\ Fixed => Lays(template)
  BY <1>0, DataFacts
<1>2. recs' = Opened(recs, cur)
  BY DEF open_record, Opened
<1>3. /\ recs' \in Seq(Parts) /\ Len(recs') > 0
      /\ recs'[Len(recs')] = [from |-> cur, to |-> cur, fields |-> 0]
  BY <1>1, <1>2, OpenedFacts
<1>4. /\ template' = template /\ option_end' = option_end /\ (Fixed' <=> Fixed)
  <2>1. UNCHANGED <<set, store>>
    OBVIOUS
  <2> QED
    BY <2>1, DataSame
<1>5. template.option <=> pc = "orecord"
  BY DEF DInv, Stage
<1>6. Chain'
  <2>1. CASE pc = "record"
    <3>1. Linked(template, set.len, recs) /\ cur < set.len
      BY <2>1, <1>5 DEF DInv, Chain, room
    <3>2. Linked(template, set.len, recs')
      BY <2>1, <3>1, <1>1, <1>2, LinkedOpened DEF DInv, Chain
    <3>3. /\ recs' # <<>> /\ recs'[Len(recs')].to = cur'
          /\ recs'[Len(recs')].fields = fld' - 1 /\ fld' \in 1..(Len(template.fields) + 1)
      BY <1>1, <1>3
    <3> QED
      BY <2>1, <3>2, <3>3, <1>4 DEF Chain, InRecord
  <2>2. CASE pc = "orecord"
    <3>1. recs' # <<>> /\ fld' \in 1..(Len(template.fields) + 1)
      BY <1>1, <1>3
    <3> QED
      BY <2>2, <3>1, <1>4 DEF Chain
  <2> QED
    BY <2>1, <2>2
<1>7. Laid'
  <2>1. ASSUME Fixed PROVE Inner(template, set.len, option_end, recs', cur, 1)
    <3>1. Read(template, set.len, option_end, recs, cur)
      BY <2>1, <1>0 DEF DInv, Laid
    <3>2. IF template.option THEN cur < option_end ELSE cur < set.len /\ set.len - cur >= 4
      BY <1>5 DEF room
    <3>3. set.len \in Int /\ option_end \in Int
      BY <1>1
    <3> QED
      BY <2>1, <3>1, <3>2, <3>3, <1>1, <1>2, InnerOpened
  <2> QED
    BY <2>1, <1>0, <1>4 DEF Laid, InRecord, Between
<1> QED
  BY <1>0, <1>1, <1>3, <1>5, <1>6, <1>7, DataD

LEMMA RecordBeginD == ASSUME DInv, RecordBegin \/ OptionRecordBegin PROVE DInv'
  BY OpenD DEF RecordBegin, OptionRecordBegin, packetVars, savedVars

\* The record that is being read goes on.
LEMMA GrowD ==
  ASSUME DInv, pc \in InRecord, pc' = pc, fld <= Len(template.fields), NEW p \in Int,
         extend(p), Fixed => p = cur + template.fields[fld],
         template.option => p <= option_end,
         UNCHANGED <<pkt, set, tmpl, store>>, recs # <<>>
  PROVE  DInv'
<1>0. /\ pc \in Data /\ usable /\ pc' \in Data \ {"data"} /\ cur' = p /\ fld' = fld + 1
  BY DEF DInv, Stage, Data, InRecord, Between, extend
<1>1. /\ template \in Templates /\ Len(template.fields) \in Nat /\ set.len \in Int
      /\ option_end \in Int /\ cur \in Int /\ fld \in Nat /\ recs \in Seq(Parts)
      /\ Fixed => Lays(template)
  <2>1. set.len \in Nat /\ option_end \in Nat
    BY <1>0, DataFacts
  <2> QED
    BY <2>1, <1>0, DataFacts
<1>2. recs' = Extended(recs, p, fld)
  BY DEF extend, Extended
<1>3. /\ recs' \in Seq(Parts) /\ Len(recs') = Len(recs) /\ Len(recs) > 0
      /\ recs'[Len(recs)].to = p /\ recs'[Len(recs)].fields = fld
  BY <1>1, <1>2, ExtendedFacts
<1>4. /\ template' = template /\ option_end' = option_end /\ (Fixed' <=> Fixed)
  <2>1. UNCHANGED <<set, store>>
    OBVIOUS
  <2> QED
    BY <2>1, DataSame
<1>5. template.option <=> pc = "orfield"
  BY DEF DInv, Stage, InRecord
<1>6. Chain'
  <2>1. CASE pc = "rfield"
    <3>1. Linked(template, set.len, recs) /\ fld \in 1..(Len(template.fields) + 1)
      BY <2>1, <1>5 DEF DInv, Chain, InRecord
    <3>2. Linked(template, set.len, recs')
      BY <3>1, <1>1, <1>2, LinkedExtended
    <3>3. /\ recs' # <<>> /\ recs'[Len(recs')].to = cur'
          /\ recs'[Len(recs')].fields = fld' - 1 /\ fld' \in 1..(Len(template.fields) + 1)
      BY <3>1, <1>0, <1>1, <1>3
    <3> QED
      BY <2>1, <3>2, <3>3, <1>4 DEF Chain, InRecord
  <2>2. CASE pc = "orfield"
    <3>1. recs' # <<>> /\ fld' \in 1..(Len(template.fields) + 1)
      <4>1. fld \in 1..(Len(template.fields) + 1)
        BY DEF DInv, Chain
      <4> QED
        BY <4>1, <1>0, <1>1, <1>3
    <3> QED
      BY <2>2, <3>1, <1>4 DEF Chain
  <2> QED
    BY <2>1, <2>2 DEF InRecord
<1>7. Laid'
  <2>1. ASSUME Fixed PROVE Inner(template, set.len, option_end, recs', p, fld + 1)
    <3>1. Inner(template, set.len, option_end, recs, cur, fld)
      BY <2>1 DEF DInv, Laid
    <3> QED
      BY <2>1, <3>1, <1>1, <1>2, InnerExtended
  <2> QED
    BY <2>1, <1>0, <1>4 DEF Laid, InRecord, Between
<1>8. fld' \in Nat /\ cur' \in Int
  BY <1>0, <1>1
<1> QED
  BY <1>0, <1>3, <1>5, <1>6, <1>7, <1>8, DataD DEF InRecord

\* A record is left.
LEMMA CloseD ==
  ASSUME DInv, \/ pc = "rfield" /\ pc' = "record" /\ cur' = cur
                  /\ (fld > Len(template.fields) \/ cur >= set.len)
               \/ pc = "orfield" /\ pc' = "orecord"
                  /\ \/ fld > Len(template.fields) /\ cur' = cur
                     \/ /\ fld <= Len(template.fields) /\ cur' = option_end
                        /\ ~field_fits(template.fields[fld]),
         UNCHANGED <<pkt, set, tmpl, store, recs, fld>>
  PROVE  DInv'
<1>0. pc \in Data /\ pc \in InRecord /\ usable /\ pc' \in Data \ {"data"} /\ pc' \in Between
  BY DEF DInv, Stage, Data, InRecord, Between
<1>1. /\ template \in Templates /\ Len(template.fields) \in Nat /\ set.len \in Int
      /\ option_end \in Int /\ cur \in Int /\ fld \in Nat /\ recs \in Seq(Parts)
      /\ Fixed => Lays(template)
  <2>1. set.len \in Nat /\ option_end \in Nat
    BY <1>0, DataFacts
  <2> QED
    BY <2>1, <1>0, DataFacts
<1>4. /\ template' = template /\ option_end' = option_end /\ (Fixed' <=> Fixed)
  <2>1. UNCHANGED <<set, store>>
    OBVIOUS
  <2> QED
    BY <2>1, DataSame
<1>5. template.option <=> pc = "orfield"
  BY DEF DInv, Stage
<1>6. Chain'
  <2>1. CASE pc = "rfield"
    <3>1. /\ Linked(template, set.len, recs) /\ recs[Len(recs)].to = cur
          /\ recs[Len(recs)].fields = fld - 1 /\ fld \in 1..(Len(template.fields) + 1)
      BY <2>1, <1>5 DEF DInv, Chain, InRecord
    <3>2. recs[Len(recs)].fields = Len(template.fields) \/ cur >= set.len
      <4>1. CASE fld > Len(template.fields)
        <5>1. fld - 1 = Len(template.fields)
          BY <4>1, <3>1, <1>1
        <5> QED
          BY <5>1, <3>1
      <4> QED
        BY <4>1, <2>1
    <3> QED
      BY <2>1, <3>1, <3>2, <1>4 DEF Chain, InRecord
  <2>2. CASE pc = "orfield"
    BY <2>2, <1>4, <1>5 DEF Chain, InRecord
  <2> QED
    BY <2>1, <2>2
<1>7. Laid'
  <2>1. ASSUME Fixed PROVE Read(template, set.len, option_end, recs, cur')
    <3>1. Inner(template, set.len, option_end, recs, cur, fld)
      BY <2>1, <1>0 DEF DInv, Laid
    <3>2. CASE fld > Len(template.fields)
      <4>1. cur' = cur
        BY <3>2, <1>1
      <4> QED
        BY <2>1, <3>1, <3>2, <4>1, <1>1, InnerWhole
    <3>3. CASE fld <= Len(template.fields)
      <4>1. IF template.option
            THEN option_end < cur + template.fields[fld] /\ cur' = option_end
            ELSE cur >= set.len /\ cur' = cur
        <5>1. CASE template.option
          <6>1. cur' = option_end /\ ~(cur + template.fields[fld] <= option_end)
            BY <5>1, <3>3, <1>1, <1>5 DEF field_fits
          <6>2. cur + template.fields[fld] \in Int
            <7>1. fld \in 1..Len(template.fields)
              BY <3>1, <3>3, <1>1 DEF Inner
            <7>2. template.fields[fld] \in Nat
              BY <7>1, <1>1, Constants DEF Templates
            <7> QED
              BY <7>2, <1>1
          <6> QED
            BY <5>1, <6>1, <6>2, <1>1
        <5>2. CASE ~template.option
          BY <5>2, <3>3, <1>1, <1>5
        <5> QED
          BY <5>1, <5>2
      <4> QED
        BY <2>1, <3>1, <3>3, <4>1, <1>1, InnerBroken
    <3> QED
      BY <3>2, <3>3, <1>1
  <2> QED
    BY <2>1, <1>0, <1>4 DEF Laid, InRecord, Between
<1>8. cur' \in Int
  BY <1>1
<1> QED
  BY <1>0, <1>1, <1>5, <1>6, <1>7, <1>8, DataD

LEMMA RecordEndD == ASSUME DInv, RecordEnd \/ OptionRecordEnd PROVE DInv'
  BY CloseD DEF RecordEnd, OptionRecordEnd, packetVars, savedVars

LEMMA RecordFieldD == ASSUME DInv, RecordField PROVE DInv'
<1>1. /\ pc = "rfield" /\ pc' = pc /\ fld <= Len(template.fields)
      /\ UNCHANGED <<pkt, set, tmpl, store>>
  BY DEF RecordField, packetVars, savedVars
<1>2. PICK l \in real_lengths(template.fields[fld]) : extend(cur + l)
  BY DEF RecordField
<1>3. pc \in Data /\ usable
  BY <1>1 DEF DInv, Stage, Data, InRecord, Between
<1>4. /\ template \in Templates /\ Len(template.fields) \in Nat /\ cur \in Int /\ fld \in Nat
  BY <1>3, DataFacts
<1>5. fld \in 1..Len(template.fields) /\ recs # <<>>
  BY <1>1, <1>4 DEF DInv, Chain, InRecord
<1>6. template.fields \in Seq(FieldLens) /\ template.fields[fld] \in Nat
  BY <1>4, <1>5, Constants DEF Templates
<1>7. l \in Nat
  BY <1>2, <1>6, Constants DEF real_lengths
<1>8. Fixed => l = template.fields[fld]
  <2>1. ASSUME Fixed PROVE template.fields[fld] # Variable
    <3>1. template.fields[fld] \in 1..(Variable - 1)
      BY <2>1, <1>5, <1>6 DEF Fixed
    <3> QED
      BY <3>1, Constants
  <2> QED
    BY <2>1, <1>2 DEF real_lengths
<1>9. cur + l \in Int
  BY <1>4, <1>7
<1>10. ~template.option
  BY <1>1 DEF DInv, Stage
<1> QED
  BY <1>1, <1>2, <1>5, <1>8, <1>9, <1>10, GrowD DEF InRecord

LEMMA OptionRecordFieldD == ASSUME DInv, OptionRecordField PROVE DInv'
<1>1. /\ pc = "orfield" /\ fld <= Len(template.fields)
      /\ UNCHANGED <<pkt, set, tmpl, store>>
  BY DEF OptionRecordField, packetVars, savedVars
<1>2. CASE field_fits(template.fields[fld])
  <2>1. pc' = pc /\ extend(cur + template.fields[fld])
    BY <1>2 DEF OptionRecordField
  <2>2. pc \in Data /\ usable
    BY <1>1 DEF DInv, Stage, Data, InRecord, Between
  <2>3. /\ template \in Templates /\ Len(template.fields) \in Nat /\ cur \in Int
        /\ fld \in Nat
    BY <2>2, DataFacts
  <2>4. fld \in 1..Len(template.fields) /\ recs # <<>>
    BY <1>1, <2>3 DEF DInv, Chain, InRecord
  <2>5. cur + template.fields[fld] \in Int
    <3>1. template.fields[fld] \in Nat
      BY <2>3, <2>4, Constants DEF Templates
    <3> QED
      BY <3>1, <2>3
  <2>6. cur + template.fields[fld] <= option_end
    BY <1>2 DEF field_fits
  <2> QED
    BY <1>1, <2>1, <2>4, <2>5, <2>6, GrowD DEF InRecord
<1>3. CASE ~field_fits(template.fields[fld])
  BY <1>1, <1>3, CloseD DEF OptionRecordField
<1> QED
  BY <1>2, <1>3

\* No more records are looked for.
LEMMA RecordsEndD ==
  ASSUME DInv, RecordNoMemory \/ RecordsEnd \/ OptionRecordsEnd PROVE DInv'
<1>0. /\ pc' = "tail" /\ UNCHANGED <<pkt, set, tmpl, store, cur, fld, recs>>
      /\ pc = "record" \/ pc = "orecord"
      /\ \/ ~complete' /\ pc = "record"
         \/ complete' = complete /\ pc = "record" /\ ~room
         \/ complete' = complete /\ pc = "orecord" /\ cur >= option_end
  BY DEF RecordNoMemory, RecordsEnd, OptionRecordsEnd, packetVars, savedVars
<1>1. pc \in Data /\ pc \in Between /\ usable /\ pc' \in Data \ {"data"}
  BY <1>0 DEF DInv, Stage, Data, InRecord, Between
<1>2. cur \in Int /\ fld \in Nat /\ recs \in Seq(Parts)
  BY <1>1, DataFacts
<1>3. template' = template /\ option_end' = option_end /\ (Fixed' <=> Fixed)
  <2>1. UNCHANGED <<set, store>>
    BY <1>0
  <2> QED
    BY <2>1, DataSame
<1>4. template.option <=> pc = "orecord"
  BY <1>0 DEF DInv, Stage
<1>5. Chain'
  BY <1>0, <1>3, <1>4 DEF DInv, Chain, InRecord
<1>6. Laid'
  <2>1. Fixed => Read(template, set.len, option_end, recs, cur)
    BY <1>1 DEF DInv, Laid
  <2>2. complete' \/ template.option => IF template.option THEN cur >= option_end ELSE ~room
    BY <1>0, <1>4
  <2>3. room' <=> room
    BY <1>0 DEF room
  <2> QED
    BY <2>1, <2>2, <2>3, <1>0, <1>3 DEF Laid, InRecord, Between
<1> QED
  BY <1>0, <1>1, <1>2, <1>5, <1>6, DataD

-----------------------------------------------------------------------------
LEMMA InitD == Init => DInv
<1> SUFFICES ASSUME Init PROVE DInv
  OBVIOUS
<1>1. Types
  <2>1. NoTemplate \in Templates
    BY DEF NoTemplate, Templates
  <2>2. NoReading \in Readings
    BY DEF NoReading, Readings
  <2> QED
    BY <2>1, <2>2 DEF Init, Types, Pcs, Idle, InRecord, Between, NoPacket, NoSet
<1>2. Stage /\ ReadInside
  BY DEF Init, Stage, ReadInside, InRecord, Between
<1>3. Added
  BY AddsNone DEF Init, Added, NoReading, NoTemplate
<1>4. Chain /\ Laid
  BY DEF Init, Chain, Laid, InRecord, Between
<1> QED
  BY <1>1, <1>2, <1>3, <1>4 DEF DInv

LEMMA StutterD == ASSUME DInv, UNCHANGED vars PROVE DInv'
<1>1. /\ UNCHANGED <<pc, pkt, set, cur, tmpl, fld, recs, complete, store>>
  BY DEF vars, packetVars, savedVars
<1>2. Types' /\ ReadInside' /\ Added'
  BY <1>1 DEF DInv, Types, ReadInside, Added, buffer_len
<1>3. /\ template' = template /\ option_end' = option_end /\ (Fixed' <=> Fixed)
      /\ (usable' <=> usable) /\ (room' <=> room)
  BY <1>1, DataSame DEF room
<1>4. Stage' /\ Chain' /\ Laid'
  BY <1>1, <1>3 DEF DInv, Stage, Chain, Laid
<1> QED
  BY <1>2, <1>4 DEF DInv

LEMMA NextD == DInv /\ [Next]_vars => DInv'
<1> SUFFICES ASSUME DInv, [Next]_vars PROVE DInv'
  OBVIOUS
<1>1. CASE UNCHANGED vars
  BY <1>1, StutterD
<1>2. ASSUME NEW v \in {5, 9, 10}, NEW len \in PacketLens, NEW n \in Counts,
             Receive(v, len, n)
      PROVE  DInv'
  BY <1>2, ReceiveD
<1>3. CASE \/ UnknownObservationId \/ PacketEnd \/ Restart \/ TemplateSetEnd
           \/ DataUnknown \/ DataEnd
  BY <1>3, LeaveD
<1>4. CASE DissectV5
  BY <1>4, DissectV5D
<1>5. CASE SetTooShort
  BY <1>5, SetTooShortD DEF SetTooShort
<1>6. ASSUME NEW id \in 0..3 \cup TemplateIds, NEW len \in SetLens, SetHeader(id, len)
      PROVE  DInv'
  BY <1>6, SetHeaderD
<1>7. ASSUME NEW tid \in TemplateIds, NEW n \in FieldCounts,
             TemplateHeader(tid, n) \/ OptionHeader(tid, n)
      PROVE  DInv'
  BY <1>7, TemplateHeaderD, OptionHeaderD
<1>8. ASSUME NEW e \in BOOLEAN, NEW len \in FieldLens, TemplateField(e, len)
      PROVE  DInv'
  BY <1>8, TemplateFieldD
<1>17. ASSUME NEW e \in BOOLEAN, NEW len \in FieldLens, OptionTemplateField(e, len)
      PROVE  DInv'
  BY <1>17, OptionTemplateFieldD
<1>9. ASSUME NEW len \in FieldLens, OptionSave(len) PROVE DInv'
  BY <1>9, OptionSaveD
<1>10. CASE TemplateSave
  BY <1>10, TemplateSaveD
<1>11. CASE DataBegin
  BY <1>11, DataBeginD
<1>12. CASE RecordBegin \/ OptionRecordBegin
  BY <1>12, RecordBeginD
<1>13. CASE RecordField
  BY <1>13, RecordFieldD
<1>14. CASE OptionRecordField
  BY <1>14, OptionRecordFieldD
<1>15. CASE RecordEnd \/ OptionRecordEnd
  BY <1>15, RecordEndD
<1>16. CASE RecordNoMemory \/ RecordsEnd \/ OptionRecordsEnd
  BY <1>16, RecordsEndD
<1> QED
  BY <1>1, <1>2, <1>3, <1>4, <1>5, <1>6, <1>7, <1>8, <1>9, <1>10, <1>11, <1>12,
     <1>13, <1>14, <1>15, <1>16, <1>17 DEF Next, Dissection

\* DInv holds from the start and in every step: the template that is being read
\* lies in its set, the lengths kept for a template are those of its fields, and
\* the records read so far lie where these lengths put them.
THEOREM DissectInvariant == Spec => []DInv
  BY InitD, NextD, PTL DEF Spec

\* Whatever a packet claims, a flow template with fields reaches the store, or
\* its file, only if all the bytes that dissect_flow_template read for it lie in
\* the set.
THEOREM DissectTemplateInside == Spec => TemplateInside
<1>1. DInv /\ [Next]_vars =>
        [(store' # store \/ files' # files) /\ pc = "tfield" /\ tmpl.fields # <<>>
           => tmpl.at <= buffer_len]_vars
  BY DEF DInv, ReadInside
<1> QED
  BY <1>1, DissectInvariant, PTL DEF Spec, TemplateInside

\* Fields of variable length included, the records that dissectNetFlowV9V10Flow
\* reads from a set follow each other inside it; only the last may be cut.
THEOREM DissectRecordsInside == Spec => []RecordsInside
<1>1. DInv => RecordsInside
  BY DEF DInv, Chain, Linked, RecordsInside
<1> QED
  BY <1>1, DissectInvariant, PTL

\* Division.
LEMMA Divides ==
  ASSUME NEW x \in Int, NEW w \in Int, NEW q \in Int, w > 0, q * w <= x, x < q * w + w
  PROVE  x \div w = q /\ x % w = x - q * w
<1>1. w * q <= x /\ x < w * q + w
  OBVIOUS
<1>2. x \div w = q
  BY <1>1
<1>3. x % w = x - w * q
  BY <1>1, <1>2
<1> QED
  BY <1>2, <1>3

\* The first n of regular records are those the properties speak of.
LEMMA RegularFrom ==
  ASSUME DInv, pc \in Data, usable, template.kept = template.width, NEW r \in Nat, NEW n \in Nat,
         n <= r, r <= Len(recs), Regular(template, recs, r), NEW p,
         p = IF template.option THEN 0 ELSE 4
  PROVE  RecordsFrom(p, n)
<1>1. Len(recs) \in Nat /\ template.kept \in Int /\ p \in Int
  BY DataFacts DEF Templates
<1>2. ASSUME NEW k \in 1..n
      PROVE  /\ recs[k].from = p + (k - 1) * template.width
             /\ recs[k].to = p + k * template.width
             /\ recs[k].fields = Len(template.fields)
  <2>1. k \in 1..r /\ (k + 1) - 1 = k
    OBVIOUS
  <2>2. /\ recs[k].from = Starts(template, k) /\ recs[k].to = Starts(template, k + 1)
        /\ recs[k].fields = Len(template.fields)
    BY <2>1 DEF Regular
  <2>3. /\ Starts(template, k) = p + (k - 1) * template.width
        /\ Starts(template, k + 1) = p + k * template.width
    BY <2>1 DEF Starts
  <2> QED
    BY <2>2, <2>3
<1>3. Len(recs) >= n
  BY <1>1
<1> QED
  BY <1>2, <1>3 DEF RecordsFrom

LEMMA RegularLess ==
  ASSUME NEW T, NEW rs, NEW r \in Nat, Regular(T, rs, r)
  PROVE  Regular(T, rs, r - 1)
<1>1. \A k \in 1..(r - 1) : k \in 1..r
  OBVIOUS
<1> QED
  BY <1>1 DEF Regular

\* The last of r records of w bytes was begun inside the x bytes of a set, and
\* too little is left for another.
LEMMA Counted ==
  ASSUME NEW x \in Nat, NEW w \in Int, NEW r \in Nat, NEW pad \in Nat, 0 < w, pad <= w,
         x < r * w + pad, r > 0 => (r - 1) * w + pad <= x
  PROVE  /\ r * w <= x => x \div w = r /\ x % w < pad
         /\ x < r * w => r > 0 /\ x \div w = r - 1 /\ x % w >= pad
<1> DEFINE a == r * w
           b == (r - 1) * w
<1>1. a \in Int /\ b \in Int /\ a = b + w /\ (r = 0 => a = 0)
  OBVIOUS
<1>2. x < a + pad /\ (r > 0 => b + pad <= x)
  OBVIOUS
<1>3. ASSUME a <= x PROVE x \div w = r /\ x % w < pad
  <2>1. x < a + w
    <3> HIDE DEF a, b
    <3> QED
      BY <1>1, <1>2
  <2>2. x \div w = r /\ x % w = x - a
    BY <2>1, <1>3, Divides
  <2> HIDE DEF a, b
  <2> QED
    BY <2>2, <1>1, <1>2
<1>4. ASSUME x < a PROVE r > 0 /\ x \div w = r - 1 /\ x % w >= pad
  <2>1. r > 0 /\ b <= x /\ x < b + w
    <3> HIDE DEF a, b
    <3> QED
      BY <1>1, <1>2, <1>4
  <2>2. x \div w = r - 1 /\ x % w = x - b
    <3>1. r - 1 \in Int /\ x \in Int
      OBVIOUS
    <3> QED
      BY <2>1, <3>1, Divides
  <2> HIDE DEF a, b
  <2> QED
    BY <2>1, <2>2, <1>1, <1>2
<1> QED
  BY <1>3, <1>4

\* A set whose template gives every field a length yields, if memory lasts, the
\* records that the probe put there: every whole one, at its place, with all its
\* fields, and one more only if four bytes or more are left.
THEOREM DissectWholeRecords == Spec => []WholeRecords
<1> DEFINE T == template
           w == template.width
           l == set.len
           x == set.len - 4
           r == Len(recs)
           n == x \div w
           rest == x % w
<1>1. ASSUME DInv, pc = "tail", complete, ~T.option, Fixed, w >= 4, l >= 4
      PROVE  RecordsFrom(4, n) /\ r = n + (IF rest >= 4 THEN 1 ELSE 0)
  <2>1. pc \in Data /\ usable
    BY <1>1 DEF DInv, Stage, Data
  <2>2. /\ T \in Templates /\ l \in Nat /\ option_end \in Nat
        /\ cur \in Int /\ recs \in Seq(Parts)
    BY <1>1, <2>1, DataFacts
  <2>3. T.kept = w
    <3>1. set.id \in TemplateIds
      BY <1>1 DEF DInv, Types
    <3> QED
      BY <1>1, <3>1 DEF DInv, Added, template
  <2>4. w \in Int /\ w >= 4 /\ x \in Nat /\ r \in Nat /\ l = x + 4
    <3>1. T.width \in Nat /\ r \in Nat
      BY <2>2 DEF Templates
    <3> QED
      BY <3>1, <2>2, <1>1
  <2>5. Read(T, l, option_end, recs, cur) /\ (cur >= l \/ l - cur < 4)
    <3>1. Read(T, l, option_end, recs, cur) /\ ~room
      BY <1>1 DEF DInv, Laid
    <3> QED
      BY <3>1, <2>2 DEF room
  <2>6. /\ Starts(T, r) = 4 + (r - 1) * w /\ Starts(T, r + 1) = 4 + r * w
    <3>1. (r + 1) - 1 = r
      BY <2>4
    <3> QED
      BY <3>1, <1>1, <2>3 DEF Starts
  <2>7. r * w \in Int /\ (r - 1) * w \in Int /\ (r - 1) * w + w = r * w
    BY <2>4
  <2>8. /\ x < r * w + 4 /\ (r > 0 => (r - 1) * w + 4 <= x)
        /\ IF r * w <= x THEN Regular(T, recs, r) ELSE Regular(T, recs, r - 1)
    <3> DEFINE a == r * w
               b == (r - 1) * w
    <3>1. CASE Even(T, l, option_end, recs, cur)
      <4>1. /\ Regular(T, recs, r) /\ cur = 4 + a
            /\ r > 0 => (4 + b) + 4 <= l
        BY <3>1, <2>6, <1>1 DEF Even, Begun
      <4>2. Regular(T, recs, r - 1)
        BY <4>1, <2>4, RegularLess
      <4> HIDE DEF a, b, l, x, r, w, T
      <4>3. x < a + 4 /\ (r > 0 => b + 4 <= x)
        BY <4>1, <2>2, <2>4, <2>5, <2>7 DEF a, b
      <4> QED
        BY <4>1, <4>2, <4>3 DEF a, b
    <3>2. CASE Broken(T, l, option_end, recs, cur)
      <4>1. /\ Regular(T, recs, r - 1) /\ r > 0 /\ (4 + b) + 4 <= l /\ l < 4 + a
        BY <3>2, <2>6, <1>1 DEF Broken, Begun
      <4>2. a \in Int /\ b \in Int
        BY <2>7
      <4> HIDE DEF a, b, l, x, r, w, T
      <4>3. x < a + 4 /\ b + 4 <= x /\ ~(a <= x)
        BY <4>1, <4>2, <2>4
      <4> QED
        BY <4>1, <4>3 DEF a, b
    <3> QED
      BY <2>5, <3>1, <3>2 DEF Read
  <2>9. /\ r * w <= x => x \div w = r /\ x % w < 4
        /\ x < r * w => r > 0 /\ x \div w = r - 1 /\ x % w >= 4
    <3> HIDE DEF x, r, w
    <3>1. 4 \in Nat /\ 0 < w /\ 4 <= w
      BY <2>4
    <3> QED
      BY <3>1, <2>4, <2>8, Counted
  <2>10. CASE r * w <= x
    <3>1. RecordsFrom(4, r)
      <4>1. r <= r
        BY <2>4
      <4> QED
        BY <4>1, <2>10, <1>1, <2>1, <2>3, <2>4, <2>8, RegularFrom
    <3> HIDE DEF x, r, w
    <3>2. n = r /\ ~(rest >= 4)
      <4>1. x % w \in Int
        BY <2>4
      <4> QED
        BY <4>1, <2>9, <2>10
    <3> QED
      BY <3>1, <3>2, <2>4
  <2>11. CASE ~(r * w <= x)
    <3>1. x < r * w
      <4> HIDE DEF x, r, w
      <4> QED
        BY <2>11, <2>4, <2>7
    <3>2. r > 0 /\ n = r - 1 /\ rest >= 4
      BY <3>1, <2>9
    <3>3. RecordsFrom(4, r - 1)
      <4>1. r - 1 \in Nat /\ r - 1 <= r - 1 /\ r - 1 <= r
        BY <3>2, <2>4
      <4> QED
        BY <4>1, <2>11, <1>1, <2>1, <2>3, <2>8, RegularFrom
    <3> HIDE DEF x, r, w, n, rest
    <3> QED
      BY <3>2, <3>3, <2>4
  <2> QED
    BY <2>10, <2>11
<1>2. DInv => WholeRecords
  BY <1>1 DEF WholeRecords
<1> QED
  BY <1>2, DissectInvariant, PTL

\* The same for option records, when every specifier of the probe was read as one
\* (at most max_num_entries, no enterprise number taken for a field): an option
\* set yields every record that it holds, and at most one more that is cut.
THEOREM DissectOptionRecords == Spec => []OptionRecords
<1> DEFINE T == template
           w == template.width
           l == set.len
           x == set.len - 4
           r == Len(recs)
           n == x \div w
<1>1. ASSUME DInv, pc = "tail", T.option, Fixed, T.whole, l >= 4
      PROVE  RecordsFrom(0, n) /\ r <= n + 1
  <2>1. pc \in Data /\ usable
    BY <1>1 DEF DInv, Stage, Data
  <2>2. /\ T \in Templates /\ l \in Nat /\ l < Word /\ option_end \in Nat
        /\ cur \in Int /\ recs \in Seq(Parts) /\ Lays(T)
    BY <1>1, <2>1, DataFacts
  <2>10. T.kept = w
    <3>1. set.id \in TemplateIds
      BY <1>1 DEF DInv, Types
    <3> QED
      BY <1>1, <3>1 DEF DInv, Added, template
  <2>3. w \in Int /\ w > 0 /\ x \in Nat /\ r \in Nat
    <3>1. T.kept \in Nat /\ T.kept > 0 /\ r \in Nat
      BY <2>2, OffsetFacts DEF Lays
    <3> QED
      BY <3>1, <2>2, <2>10, <1>1
  <2>4. option_end = x
    <3>1. \A a, b \in Nat : a < b => a % b = a
      OBVIOUS
    <3>2. x < Word /\ Word \in Nat /\ x < l
      BY <1>1, <2>2, Constants
    <3>3. option_size = x
      BY <3>1, <3>2, <2>3 DEF option_size, W
    <3> QED
      BY <3>2, <3>3, <2>2, <2>3 DEF option_end, least
  <2>5. Read(T, l, x, recs, cur) /\ cur >= x
    BY <1>1, <2>4 DEF DInv, Laid
  <2>6. /\ Starts(T, r) = (r - 1) * w /\ Starts(T, r + 1) = r * w
    <3>1. (r + 1) - 1 = r /\ r * w \in Int /\ (r - 1) * w \in Int
      BY <2>3
    <3> QED
      BY <3>1, <2>10, <1>1 DEF Starts
  <2>7. r * w \in Int /\ (r - 1) * w \in Int /\ (r - 1) * w + w = r * w
    BY <2>3
  <2>8. CASE Even(T, l, x, recs, cur)
    <3>1. Regular(T, recs, r) /\ cur = r * w /\ cur <= x
      BY <2>8, <2>6, <1>1 DEF Even
    <3>2. RecordsFrom(0, r)
      <4>1. r <= r
        BY <2>3
      <4> QED
        BY <4>1, <3>1, <1>1, <2>1, <2>3, <2>10, RegularFrom
    <3> HIDE DEF x, r, w
    <3>3. r * w = x
      BY <3>1, <2>2, <2>3, <2>5, <2>7
    <3>4. n = r
      <4>1. x \in Int /\ r \in Int /\ r * w <= x /\ x < r * w + w
        BY <3>3, <2>3, <2>7
      <4> QED
        BY <4>1, <2>3, Divides
    <3> QED
      BY <3>2, <3>4, <2>3
  <2>9. CASE Broken(T, l, x, recs, cur)
    <3>1. r > 0 /\ Regular(T, recs, r - 1) /\ (r - 1) * w < x /\ x < r * w
      BY <2>9, <2>6, <1>1 DEF Broken, Begun
    <3>2. RecordsFrom(0, r - 1)
      <4>1. r - 1 \in Nat /\ r - 1 <= r - 1 /\ r - 1 <= r
        BY <3>1, <2>3
      <4> QED
        BY <4>1, <3>1, <1>1, <2>1, <2>3, <2>10, RegularFrom
    <3> HIDE DEF x, r, w
    <3>3. n = r - 1
      <4>1. x \in Int /\ r - 1 \in Int /\ (r - 1) * w <= x /\ x < (r - 1) * w + w
        BY <3>1, <2>3, <2>7
      <4> QED
        BY <4>1, <2>3, Divides
    <3> QED
      BY <3>2, <3>3, <2>3
  <2> QED
    BY <2>5, <2>8, <2>9 DEF Read
<1>2. DInv => OptionRecords
  BY <1>1 DEF OptionRecords
<1> QED
  BY <1>2, DissectInvariant, PTL
=============================================================================
