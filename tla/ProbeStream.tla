---------------------------- MODULE ProbeStream ----------------------------
(***************************************************************************)
(* What f2k promises to one NetFlow probe, said without threads or queues: *)
(* the export packets of a probe are dissected one at a time, in the order *)
(* in which they reached the collector's socket, and a data packet is      *)
(* decoded exactly when an earlier packet of the same probe carried its    *)
(* template.  Packets of a probe may be left undissected only at the end   *)
(* of the stream (the collector stopped); there is never a gap.            *)
(*                                                                         *)
(* Collector.tla is shown to implement this specification.                 *)
(***************************************************************************)
EXTENDS Naturals, Sequences

CONSTANTS Sources,  \* the source addresses that send packets
          Tids      \* the template ids they use

VARIABLES arrived,  \* arrived[s]: contents that reached the socket, in order
          verdict   \* verdict[s]: what dissection made of them, in order

streamVars == <<arrived, verdict>>

(***************************************************************************)
(* The content of a packet, as far as dissection distinguishes it: one     *)
(* template, one data record of a template, or something that is not       *)
(* NetFlow 9 / IPFIX (an sFlow datagram, an unknown version).              *)
(***************************************************************************)
Contents == [kind : {"template", "data"}, tid : Tids] \cup [kind : {"other"}]

Verdicts == {"learned", "decoded", "unknown", "ignored"}

\* Some packet of stream seq before position i carries template t.
TemplateBefore(seq, i, t) ==
  \E j \in 1..(i - 1) : seq[j].kind = "template" /\ seq[j].tid = t

\* What dissecting the i-th packet of stream seq yields.
Meaning(seq, i) ==
  CASE seq[i].kind = "template" -> "learned"
    [] seq[i].kind = "data" -> IF TemplateBefore(seq, i, seq[i].tid)
                               THEN "decoded" ELSE "unknown"
    [] seq[i].kind = "other" -> "ignored"

StreamInit ==
  /\ arrived = [s \in Sources |-> <<>>]
  /\ verdict = [s \in Sources |-> <<>>]

\* A packet reaches the socket.
StreamArrive(s, c) ==
  /\ arrived' = [arrived EXCEPT ![s] = Append(@, c)]
  /\ UNCHANGED verdict

\* The oldest packet not yet dissected is dissected.
StreamDissect(s) ==
  /\ Len(verdict[s]) < Len(arrived[s])
  /\ verdict' = [verdict EXCEPT
                   ![s] = Append(@, Meaning(arrived[s], Len(@) + 1))]
  /\ UNCHANGED arrived

StreamNext ==
  \E s \in Sources : StreamDissect(s) \/ \E c \in Contents : StreamArrive(s, c)

StreamSpec == StreamInit /\ [][StreamNext]_streamVars
=============================================================================
